----------------------------- MODULE ApiClient -----------------------------
(***************************************************************************)
(* The console's client library (frontend/src/lib/api): each exported      *)
(* function as the request it sends, that is the route its verb and path   *)
(* reach and the fields of its body or query.  Fields a function takes     *)
(* from its caller are added by the page with With.                        *)
(***************************************************************************)
EXTENDS Endpoints

(* quiet: the page catches the refusal of this call on its own, so that    *)
(* neither the rest of the page nor its user notices.                      *)
Request(controller, method, fields) ==
    [to |-> <<controller, method>>, sends |-> fields, size |-> 20, quiet |-> FALSE]
With(request, fields) == [request EXCEPT !.sends = @ \cup fields]
Sized(request, n) == [With(request, {"pageSize"}) EXCEPT !.size = n]
Quiet(requests) == {[r EXCEPT !.quiet = TRUE] : r \in requests}

RouteOf(request) == Routes[request.to[1]][request.to[2]]

authApi ==
    [login |-> Request("auth", "login", {"companySlug", "email", "password"}),
     signup |-> Request("company", "signup", {"companyName", "ownerEmail", "ownerPassword"}),
     acceptInvite |-> Request("auth", "acceptInvite", {"token", "password"}),
     getMe |-> Request("auth", "me", {}),
     logout |-> Request("auth", "logout", {"refreshToken"})]

companyApi ==
    [getCompany |-> Request("company", "getCompany", {}),
     updateSettings |-> Request("company", "updateSettings", {"name", "settings"}),
     listDepartments |-> Request("company", "listDepartments", {}),
     createDepartment |-> Request("company", "createDepartment", {"name"}),
     listDesignations |-> Request("company", "listDesignations", {}),
     createDesignation |-> Request("company", "createDesignation", {"title"}),
     listLocations |-> Request("company", "listLocations", {}),
     createLocation |-> Request("company", "createLocation", {"name", "timezone"}),
     setLocationGeofence |-> Request("company", "setGeofence",
                                     {"geoLat", "geoLng", "geoRadiusM"}),
     listBusinessUnits |-> Request("company", "listBusinessUnits", {}),
     createBusinessUnit |-> Request("company", "createBusinessUnit", {"name"}),
     listGrades |-> Request("company", "listGrades", {}),
     createGrade |-> Request("company", "createGrade", {"name"}),
     listCostCenters |-> Request("company", "listCostCenters", {}),
     createCostCenter |-> Request("company", "createCostCenter", {"code", "name"})]

(* The paths of employees.ts; list, create, invite and update take their   *)
(* fields from the caller.                                                 *)
employeesApi ==
    [listEmployees |-> Request("employees", "list", {}),
     getEmployee |-> Request("employees", "get", {}),
     createEmployee |-> Request("employees", "create", NewEmployee),
     inviteEmployee |-> Request("employees", "invite", NewEmployee),
     updateEmployee |-> Request("employees", "update", {}),
     changeEmployeeStatus |-> Request("employees", "changeStatus", {"status"}),
     setSalary |-> Request("employees", "setSalary",
                           {"ctcAnnual", "components", "effectiveFrom"})]

attendanceApi ==
    [getReport |-> Request("attendance", "report", {"month", "year"}),
     checkIn |-> Request("attendance", "checkIn", {}),
     checkOut |-> Request("attendance", "checkOut", {}),
     listAttendance |-> Request("attendance", "list", {"from", "to"}),
     monthlySummary |-> Request("attendance", "summary", {"month", "year"}),
     requestRegularisation |-> Request("attendance", "requestRegularisation",
                                       {"date", "requestedStatus", "reason"}),
     listPendingRegularisations |-> Request("attendance", "pending", {}),
     decideRegularisation |-> Request("attendance", "decide", {"decision"})]

leavesApi ==
    [listLeaveTypes |-> Request("leaves", "listTypes", {}),
     createLeaveType |-> Request("leaves", "createType", {"code", "name"}),
     createLeavePolicy |-> Request("leaves", "createPolicy",
                                   {"leaveTypeId", "annualQuota", "effectiveFrom"}),
     getBalances |-> Request("leaves", "balances", {}),
     listLeaveRequests |-> Request("leaves", "listRequests", {}),
     listPendingLeaves |-> Request("leaves", "pending", {}),
     applyLeave |-> Request("leaves", "apply", {"leaveTypeId", "startDate", "endDate"}),
     decideLeave |-> Request("leaves", "decide", {"decision"}),
     cancelLeave |-> Request("leaves", "cancel", {})]

payrollApi ==
    [listRuns |-> Request("payroll", "listRuns", {}),
     createRun |-> Request("payroll", "createRun", {"periodMonth", "periodYear"}),
     processRun |-> Request("payroll", "process", {}),
     markPaid |-> Request("payroll", "markPaid", {}),
     listRunPayslips |-> Request("payroll", "runPayslips", {}),
     myPayslips |-> Request("payroll", "myPayslips", {}),
     getPayslip |-> Request("payroll", "getPayslip", {}),
     downloadPayslipPdf |-> Request("payroll", "downloadPdf", {})]

holidaysApi ==
    [listCalendars |-> Request("holidays", "list", {}),
     createCalendar |-> Request("holidays", "create", {"year", "name"}),
     listHolidays |-> Request("holidays", "listHolidays", {}),
     addHoliday |-> Request("holidays", "addHoliday", {"date", "name"})]

documentsApi ==
    [listDocuments |-> Sized(Request("documents", "list", {"page"}), 20),
     createUploadIntent |-> Request("documents", "createUploadIntent",
                                    {"title", "mimeType", "sizeBytes"}),
     confirmUpload |-> Request("documents", "confirm",
                               {"title", "mimeType", "sizeBytes", "objectKey"}),
     getDownloadUrl |-> Request("documents", "download", {}),
     deleteDocument |-> Request("documents", "remove", {})]

onboardingApi ==
    [getMyOnboarding |-> Request("onboarding", "getMine", {}),
     saveMyOnboarding |-> Request("onboarding", "saveMine", {}),
     submitMyOnboarding |-> Request("onboarding", "submitMine", {}),
     uploadOnboardingDoc |-> Request("onboarding", "uploadMine", {"docType"}),
     downloadOnboardingDoc |-> Request("onboarding", "download", {}),
     listOnboarding |-> Request("onboarding", "list", {}),
     getOnboardingFor |-> Request("onboarding", "getFor", {}),
     reviewOnboarding |-> Request("onboarding", "review", {"decision"})]

offboardingApi ==
    [listExits |-> Request("offboarding", "list", {}),
     getExit |-> Request("offboarding", "get", {}),
     initiateExit |-> Request("offboarding", "initiate",
                              {"employeeId", "type", "noticeDate", "lastWorkingDay"}),
     updateExitStatus |-> Request("offboarding", "updateStatus", {"status"}),
     toggleExitTask |-> Request("offboarding", "toggleTask", {"done"})]

performanceApi ==
    [listGoals |-> Request("performance", "listGoals", {}),
     createGoal |-> Request("performance", "createGoal", {"title"}),
     updateGoal |-> Request("performance", "updateGoal", {}),
     listCycles |-> Request("performance", "listCycles", {}),
     createCycle |-> Request("performance", "createCycle",
                             {"name", "periodStart", "periodEnd"}),
     setCycleStatus |-> Request("performance", "setCycleStatus", {"status"}),
     listReviews |-> Request("performance", "listReviews", {}),
     createReview |-> Request("performance", "createReview", {"cycleId", "employeeId"}),
     submitReview |-> Request("performance", "submitReview", {})]

recruitmentApi ==
    [listJobs |-> Request("recruitment", "listJobs", {}),
     getJob |-> Request("recruitment", "getJob", {}),
     createJob |-> Request("recruitment", "createJob", {"title"}),
     setJobStatus |-> Request("recruitment", "setJobStatus", {"status"}),
     listCandidates |-> Request("recruitment", "listCandidates", {"jobId"}),
     addCandidate |-> Request("recruitment", "addCandidate",
                              {"firstName", "lastName", "email"}),
     advanceCandidate |-> Request("recruitment", "advance", {}),
     rejectCandidate |-> Request("recruitment", "reject", {}),
     hireCandidate |-> Request("recruitment", "hire", {}),
     listInterviews |-> Request("recruitment", "listInterviews", {}),
     scheduleInterview |-> Request("recruitment", "schedule", {"scheduledAt", "mode"}),
     makeOffer |-> Request("recruitment", "offer", {"ctcAnnual", "joiningDate"})]

shiftsApi ==
    [listShifts |-> Request("shifts", "list", {}),
     createShift |-> Request("shifts", "create", {"name", "startTime", "endTime"}),
     myShift |-> Request("shifts", "my", {}),
     listAssignments |-> Request("shifts", "listAssignments", {}),
     assignShift |-> Request("shifts", "assign", {"employeeId", "shiftId", "effectiveFrom"})]

notificationsApi ==
    [listNotifications |-> Sized(Request("notifications", "list", {"page"}), 20)]

reportsApi == [getOverview |-> Request("reports", "overview", {})]
=============================================================================
