------------------------------- MODULE Pages -------------------------------
(***************************************************************************)
(* The pages of the console (frontend/src/app): for each page and role     *)
(* which requests it sends when it opens, and which controls it then       *)
(* offers, on which rows and with which request behind them.  Layout and   *)
(* wording are left out.                                                   *)
(***************************************************************************)
EXTENDS ApiClient

(* auth-context.tsx hasRole: the same ranks as the server's guard. *)
hasRole(role, needed) == RANK[role] >= RANK[needed]

(* What a page does: load is sent on opening, offers are its controls.  A  *)
(* control on a row is offered while the row is shown in one of the states *)
(* `when`; the page lists the user's own rows or everyone's.               *)
Page(load, offers) == [load |-> load, offers |-> offers]
Form(call) == [call |-> call, row |-> "none", when |-> {"none"}, all |-> TRUE, does |-> "none"]
OnRow(kind, when, does, call) ==
    [call |-> call, row |-> kind, when |-> when, all |-> TRUE, does |-> does]
OnOwn(kind, when, does, call) == [OnRow(kind, when, does, call) EXCEPT !.all = FALSE]
If(condition, set) == IF condition THEN set ELSE {}

-----------------------------------------------------------------------------
(* The shell around every page asks for the notifications of the bell,     *)
(* whatever the role, and shows none when it is refused.                   *)
AppShell == Quiet({Sized(notificationsApi.listNotifications, 8)})

(* The sidebar: hrOnly items are left out below HR_ADMIN. *)
NavItems ==
    {"dashboard", "profile", "employees", "orgChart", "myOnboarding", "attendance",
     "myAttendance", "leaves", "leaveOverview", "shifts", "performance", "payroll",
     "holidays", "documents"}
HrOnlyItems ==
    {"invite", "onboarding", "offboarding", "geofencing", "recruitment", "company", "reports"}

(* Seeded fault: the sidebar shows every item to everybody. *)
NAVUnfiltered(role) == NavItems \cup HrOnlyItems

NAV(role) == NavItems \cup If(hasRole(role, "HR_ADMIN"), HrOnlyItems)

(* One button: it clocks out while today's record is open, else it clocks in. *)
clock ==
    {OnOwn("day", {"out", "absent"}, "checkIn", attendanceApi.checkIn),
     OnOwn("day", {"in"}, "checkOut", attendanceApi.checkOut)}

DashboardPage(role) ==
    Page(Quiet({companyApi.getCompany, Sized(employeesApi.listEmployees, 1),
                With(Sized(employeesApi.listEmployees, 1), {"status"}),
                leavesApi.listLeaveRequests, Sized(documentsApi.listDocuments, 1),
                attendanceApi.listAttendance}
               \cup If(hasRole(role, "HR_ADMIN"),
                       {Sized(notificationsApi.listNotifications, 6)})),
         clock)

ProfilePage == Page({}, {})

EmployeesPage ==
    Page({With(Sized(employeesApi.listEmployees, 20), {"page", "search"})}, {})

EmployeeDetailPage(role) ==
    Page({employeesApi.getEmployee},
         If(hasRole(role, "HR_ADMIN"),
            {Form(With(employeesApi.setSalary,
                       {"components.code", "components.label", "components.type",
                        "components.amount"}))}))

OrgChartPage ==
    Page({Sized(employeesApi.listEmployees, 500)} \cup Quiet({companyApi.listDesignations}),
         {})

InvitePage ==
    Page(Quiet({companyApi.listDepartments, companyApi.listDesignations,
                companyApi.listLocations, companyApi.listBusinessUnits,
                companyApi.listGrades, companyApi.listCostCenters,
                Sized(employeesApi.listEmployees, 200)}),
         {Form(With(employeesApi.inviteEmployee,
                    (EmployeeDetails \cup {"role"}) \ {"alternatePhone", "holidayCalendarId"}))})

(* The form is sent whole: every personal field and the four sections.  A  *)
(* row typed in since the page was loaded has the section's own fields; a  *)
(* row that came from the server is sent back as it came, with the columns *)
(* of its table.  Submit saves first, so a refused save is its refusal too. *)
TypedRows == UNION {InSection(SectionFields[s]) : s \in DOMAIN SectionFields}
StoredRows == TypedRows \cup InSection({"id", "companyId", "employeeId", "createdAt"})
SaveForm(rows) ==
    With(onboardingApi.saveMyOnboarding, PersonalFields \cup DOMAIN SectionFields \cup rows)
Unlocked == {"NOT_STARTED", "IN_PROGRESS", "SUBMITTED", "REJECTED"}

MyOnboardingPage ==
    Page({onboardingApi.getMyOnboarding},
         {OnOwn("form", Unlocked, button, SaveForm(rows)) :
             button \in {"save", "submit"}, rows \in {{}, TypedRows}}
         \cup {OnOwn("form", Unlocked \ {"NOT_STARTED"}, button, SaveForm(StoredRows)) :
                  button \in {"save", "submit"}}
         \cup {OnOwn("form", Unlocked, "none", onboardingApi.uploadOnboardingDoc),
               Form(onboardingApi.downloadOnboardingDoc)})

Listed == {"IN_PROGRESS", "SUBMITTED", "APPROVED", "REJECTED"}
OnboardingReviewPage ==
    Page({onboardingApi.listOnboarding},
         {OnRow("form", Listed, "none", onboardingApi.getOnboardingFor),
          OnRow("form", Listed, "approve", onboardingApi.reviewOnboarding),
          OnRow("form", Listed, "reject", onboardingApi.reviewOnboarding),
          Form(onboardingApi.downloadOnboardingDoc)})

(* Both lists are awaited together without a catch of their own: if either *)
(* is refused, neither is shown.                                           *)
OffboardingPage ==
    Page({offboardingApi.listExits, With(Sized(employeesApi.listEmployees, 200), {"status"})},
         {Form(With(offboardingApi.initiateExit, {"reason"})),
          OnRow("exit", {"INITIATED", "IN_PROGRESS", "COMPLETED", "CANCELLED"}, "none",
                offboardingApi.getExit),
          OnRow("exit", {"INITIATED", "IN_PROGRESS"}, "none", offboardingApi.toggleExitTask),
          OnRow("exit", {"INITIATED"}, "start", offboardingApi.updateExitStatus),
          OnRow("exit", {"INITIATED", "IN_PROGRESS"}, "complete",
                offboardingApi.updateExitStatus),
          OnRow("exit", {"INITIATED", "IN_PROGRESS"}, "cancel",
                offboardingApi.updateExitStatus)})

-----------------------------------------------------------------------------
(* A manager's attendance page is the team's, an employee's is her own: its *)
(* two buttons are disabled once the day has a check-in, or a check-out.   *)
TeamAttendance ==
    Page({attendanceApi.getReport} \cup Quiet({attendanceApi.listPendingRegularisations}),
         {OnRow("regularisation", {"PENDING"}, d, attendanceApi.decideRegularisation) :
             d \in {"approve", "reject"}})
MyAttendance ==
    Page({attendanceApi.listAttendance},
         {OnOwn("day", {"absent"}, "checkIn", With(attendanceApi.checkIn, {"lat", "lng"})),
          OnOwn("day", {"absent"}, "checkIn", attendanceApi.checkIn),
          OnOwn("day", {"in"}, "checkOut", attendanceApi.checkOut)})
AttendancePage(role) == IF hasRole(role, "MANAGER") THEN TeamAttendance ELSE MyAttendance

(* While another month is on display the page finds no record of today:    *)
(* it takes the user to be clocked out, and its button clocks in.          *)
MyAttendancePage ==
    Page(Quiet({attendanceApi.listAttendance, attendanceApi.monthlySummary}),
         clock \cup {OnOwn("day", {"in", "out", "absent"}, "checkIn", attendanceApi.checkIn)})

(* The table of requests lists everyone's for HR, and has Cancel on each. *)
LeavesPage(role) ==
    Page(Quiet({leavesApi.listLeaveTypes, leavesApi.getBalances, leavesApi.listLeaveRequests}
               \cup If(hasRole(role, "MANAGER"),
                       {leavesApi.listPendingLeaves, Sized(employeesApi.listEmployees, 200)})),
         {Form(With(leavesApi.applyLeave, {"reason"})),
          [OnOwn("leave", {"PENDING", "APPROVED"}, "cancel", leavesApi.cancelLeave)
              EXCEPT !.all = hasRole(role, "HR_ADMIN")]}
         \cup If(hasRole(role, "MANAGER"),
                 {OnRow("leave", {"PENDING"}, d, leavesApi.decideLeave) :
                     d \in {"approve", "reject"}})
         \cup If(hasRole(role, "HR_ADMIN"),
                 {Form(leavesApi.createLeaveType), Form(leavesApi.createLeavePolicy)}))

LeaveOverviewPage ==
    Page(Quiet({leavesApi.getBalances, leavesApi.listLeaveTypes, leavesApi.listLeaveRequests}),
         {})

ShiftsPage(role) ==
    Page(Quiet({shiftsApi.listShifts, shiftsApi.myShift}
               \cup If(hasRole(role, "HR_ADMIN"),
                       {shiftsApi.listAssignments, Sized(employeesApi.listEmployees, 100)})),
         If(hasRole(role, "HR_ADMIN"),
            {Form(With(shiftsApi.createShift, {"workingDays"})), Form(shiftsApi.assignShift)}))

GeofencingPage ==
    Page({companyApi.listLocations}, {Form(companyApi.setLocationGeofence)})

(* An employee's page lists her own goals, HR's everyone's. *)
GoalRow(role) ==
    {[c EXCEPT !.all = hasRole(role, "HR_ADMIN")] :
        c \in {OnRow("goal", {"ACTIVE", "COMPLETED"}, "progress",
                     With(performanceApi.updateGoal, {"progress"})),
               OnRow("goal", {"ACTIVE"}, "complete",
                     With(performanceApi.updateGoal, {"progress", "status"}))}}

PerformancePage(role) ==
    Page(Quiet({performanceApi.listGoals, performanceApi.listCycles,
                performanceApi.listReviews}),
         {Form(performanceApi.createGoal)} \cup GoalRow(role)
         \cup If(hasRole(role, "HR_ADMIN"),
                 {Form(performanceApi.createCycle),
                  OnRow("cycle", {"DRAFT", "CLOSED"}, "open", performanceApi.setCycleStatus),
                  OnRow("cycle", {"OPEN"}, "close", performanceApi.setCycleStatus),
                  Form(performanceApi.createReview),
                  OnRow("review", {"PENDING"}, "submit",
                        With(performanceApi.submitReview, {"rating", "comments"}))}))

PayrollPage(role) ==
    IF hasRole(role, "HR_ADMIN")
    THEN Page({payrollApi.listRuns},
              {Form(payrollApi.createRun), Form(payrollApi.listRunPayslips),
               Form(payrollApi.downloadPayslipPdf),
               OnRow("run", {"DRAFT", "PROCESSING", "COMPLETED", "FAILED"}, "process",
                     payrollApi.processRun),
               OnRow("run", {"COMPLETED"}, "markPaid", payrollApi.markPaid)})
    ELSE Page({payrollApi.myPayslips}, {Form(payrollApi.downloadPayslipPdf)})

RecruitmentPage ==
    Page({recruitmentApi.listJobs}, {Form(With(recruitmentApi.createJob, {"openings"}))})

JobDetailPage ==
    Page({recruitmentApi.getJob, recruitmentApi.listCandidates},
         {Form(recruitmentApi.addCandidate),
          OnRow("job", {"OPEN", "ON_HOLD"}, "close", recruitmentApi.setJobStatus),
          OnRow("job", {"CLOSED"}, "open", recruitmentApi.setJobStatus),
          OnRow("candidate", {"APPLIED", "SCREENING", "INTERVIEW"}, "advance",
                recruitmentApi.advanceCandidate),
          OnRow("candidate", {"SCREENING", "INTERVIEW"}, "offer", recruitmentApi.makeOffer),
          OnRow("candidate", {"OFFER"}, "hire", recruitmentApi.hireCandidate),
          OnRow("candidate", {"APPLIED", "SCREENING", "INTERVIEW", "OFFER"}, "reject",
                recruitmentApi.rejectCandidate)})

HolidaysPage(role) ==
    Page({holidaysApi.listCalendars, holidaysApi.listHolidays},
         If(hasRole(role, "HR_ADMIN"),
            {Form(holidaysApi.createCalendar), Form(holidaysApi.addHoliday)}))

CompanyPage(role) ==
    Page({companyApi.getCompany, companyApi.listDepartments, companyApi.listDesignations,
          companyApi.listLocations},
         If(hasRole(role, "HR_ADMIN"),
            {Form(companyApi.createDepartment), Form(companyApi.createDesignation),
             Form(companyApi.createLocation)}))

DocumentsPage ==
    Page({documentsApi.listDocuments},
         {Form(documentsApi.createUploadIntent), Form(documentsApi.confirmUpload)})

ReportsPage == Page({reportsApi.getOverview}, {})

(* Pages reached from a row of another page: the sidebar does not name     *)
(* them, the page in the first place links to the one in the second.       *)
Links(role) ==
    {<<"employees", "employeeDetail">>, <<"recruitment", "jobDetail">>}
    \cup If(hasRole(role, "HR_ADMIN"), {<<"employees", "invite">>})

PagesOf(role) ==
    [dashboard |-> DashboardPage(role), profile |-> ProfilePage,
     employees |-> EmployeesPage, employeeDetail |-> EmployeeDetailPage(role),
     orgChart |-> OrgChartPage, invite |-> InvitePage,
     myOnboarding |-> MyOnboardingPage, onboarding |-> OnboardingReviewPage,
     offboarding |-> OffboardingPage, attendance |-> AttendancePage(role),
     myAttendance |-> MyAttendancePage, leaves |-> LeavesPage(role),
     leaveOverview |-> LeaveOverviewPage, shifts |-> ShiftsPage(role),
     geofencing |-> GeofencingPage, performance |-> PerformancePage(role),
     payroll |-> PayrollPage(role), recruitment |-> RecruitmentPage,
     jobDetail |-> JobDetailPage, holidays |-> HolidaysPage(role),
     company |-> CompanyPage(role), documents |-> DocumentsPage, reports |-> ReportsPage]
=============================================================================
