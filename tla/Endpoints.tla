----------------------------- MODULE Endpoints -----------------------------
(***************************************************************************)
(* The HTTP surface of the API: for every route its minimum role (@Roles   *)
(* on the controller method), the fields its body or query may carry (the  *)
(* DTO) and whether the service serves only a user linked to an employee.  *)
(* A route is named by its controller and method, not by verb and path.    *)
(*                                                                         *)
(* The service's own preconditions on stored rows are in module Console;   *)
(* a DTO is abstracted to the names of its fields and the one numeric      *)
(* limit some page of the console sends a constant for (pageSize).         *)
(***************************************************************************)
EXTENDS Integers, Sequences

(* common/auth/roles.guard.ts: higher number, more privileged. *)
RANK == [OWNER |-> 4, HR_ADMIN |-> 3, MANAGER |-> 2, EMPLOYEE |-> 1]
Roles == DOMAIN RANK

(* RolesGuard.canActivate for the one role a user has. A route without     *)
(* @Roles has rank 0: any authenticated user, or nobody if it is @Public.  *)
canActivate(role, required) == RANK[role] >= required

-----------------------------------------------------------------------------
(* Bodies: the fields that must be there and those that may. The global    *)
(* ValidationPipe runs with whitelist and forbidNonWhitelisted, so a field *)
(* outside both sets is an error, at the top level and inside an array     *)
(* whose element type is declared. A route without a DTO is not validated. *)
Body(must, may) == [must |-> must, may |-> must \cup may, open |-> FALSE]
Unchecked == [must |-> {}, may |-> {}, open |-> TRUE]

(* PaginationQueryDto: @Max(100) on pageSize rejects, it does not clamp. *)
MaxPageSize == 100
Pagination == {"page", "pageSize"}

Accepts(body, fields, pageSize) ==
    \/ body.open
    \/ body.must \subseteq fields /\ fields \subseteq body.may
       /\ ("pageSize" \in fields => pageSize \in 1..MaxPageSize)

AuthBodies ==
    [login |-> Body({"companySlug", "email", "password"}, {}),
     refresh |-> Body({"refreshToken"}, {}),
     forgotPassword |-> Body({"companySlug", "email"}, {}),
     resetPassword |-> Body({"token", "newPassword"}, {}),
     acceptInvite |-> Body({"token", "password"}, {})]

CompanyBodies ==
    [signup |-> Body({"companyName", "ownerEmail", "ownerPassword"}, {}),
     updateSettings |-> Body({}, {"settings", "name"}),
     department |-> Body({"name"}, {}),
     designation |-> Body({"title"}, {}),
     location |-> Body({"name"}, {"timezone"}),
     named |-> Body({"name"}, {}),
     costCenter |-> Body({"code", "name"}, {}),
     geofence |-> Body({}, {"geoLat", "geoLng", "geoRadiusM"})]

NewEmployee == {"firstName", "lastName", "email", "dateOfJoining"}
EmployeeDetails ==
    {"phone", "employmentType", "employeeCode", "departmentId", "designationId",
     "locationId", "managerId", "personalEmail", "alternatePhone", "gender",
     "dateOfBirth", "maritalStatus", "nationality", "bloodGroup", "businessUnitId",
     "gradeId", "costCenterId", "reviewingManagerId", "departmentHeadId",
     "holidayCalendarId", "payrollActive", "panRef", "uan", "esiNumber",
     "bankAccountHolder", "bankName", "bankAccount", "bankIfsc", "bankBranch"}

EmployeeBodies ==
    [create |-> Body(NewEmployee, EmployeeDetails),
     invite |-> Body(NewEmployee, EmployeeDetails \cup {"asManager", "role"}),
     update |-> Body({}, {"firstName", "lastName", "phone", "departmentId",
                          "designationId", "locationId", "managerId"}),
     changeStatus |-> Body({"status"}, {}),
     query |-> Body({}, Pagination \cup {"status", "departmentId", "search"}),
     salary |-> Body({"ctcAnnual", "components", "effectiveFrom"},
                     {"components.code", "components.label", "components.type",
                      "components.amount"})]

AttendanceBodies ==
    [checkIn |-> Body({}, {"workMode", "lat", "lng"}),
     regularisation |-> Body({"date", "requestedStatus", "reason"},
                             {"requestedCheckIn", "requestedCheckOut"}),
     decision |-> Body({"decision"}, {}),
     range |-> Body({"from", "to"}, {"employeeId"})]

(* Seeded fault: the body of an application has no reason. *)
LeaveBodiesNoReason ==
    [type |-> Body({"code", "name"}, {"isPaid", "color"}),
     policy |-> Body({"leaveTypeId", "annualQuota", "effectiveFrom"}, {}),
     apply |-> Body({"leaveTypeId", "startDate", "endDate"}, {}),
     decision |-> Body({"decision"}, {"note"}),
     balances |-> Body({}, {"year", "employeeId"})]

LeaveBodies ==
    [type |-> Body({"code", "name"}, {"isPaid", "color"}),
     policy |-> Body({"leaveTypeId", "annualQuota", "effectiveFrom"},
                     {"maxCarryForward", "minPerRequest", "maxPerRequest"}),
     apply |-> Body({"leaveTypeId", "startDate", "endDate"}, {"reason"}),
     decision |-> Body({"decision"}, {"note"}),
     balances |-> Body({}, {"year", "employeeId"})]

PayrollBodies == [createRun |-> Body({"periodMonth", "periodYear"}, {})]

HolidayBodies ==
    [calendar |-> Body({"year", "name"}, {"locationId"}),
     holiday |-> Body({"date", "name"}, {"isOptional"})]

DocumentMeta == {"category", "accessLevel", "ownerEmployeeId", "expiresAt"}
DocumentBodies ==
    [intent |-> Body({"title", "mimeType", "sizeBytes"}, DocumentMeta),
     confirm |-> Body({"objectKey", "title", "mimeType", "sizeBytes"}, DocumentMeta),
     query |-> Body({}, Pagination \cup {"category", "ownerEmployeeId"})]

(* The four repeated sections carry their element fields under a prefix. *)
SectionFields ==
    [education |-> {"qualification", "institution", "board", "yearOfPassing", "percentage"},
     previousEmployment |-> {"organization", "designation", "fromDate", "toDate", "lastCtc",
                             "reasonForLeaving", "managerName", "managerContact"},
     emergencyContacts |-> {"name", "relationship", "contactNumber", "alternateNumber",
                            "address"},
     nominees |-> {"name", "relationship", "dateOfBirth", "contactNumber", "sharePercent",
                   "address"}]

PersonalFields ==
    {"gender", "dateOfBirth", "maritalStatus", "nationality", "bloodGroup",
     "personalEmail", "alternatePhone", "currentAddress", "permanentAddress",
     "aadhaarRef", "panRef", "uan", "prevPfMember", "esiNumber", "passportNumber",
     "passportExpiry", "drivingLicense", "drivingLicenseExpiry", "bankAccountHolder",
     "bankName", "bankAccount", "bankIfsc", "bankBranch"}

InSection(fields) == {"row." \o f : f \in fields}

OnboardingBodies ==
    [save |-> Body({}, PersonalFields \cup DOMAIN SectionFields
                       \cup UNION {InSection(SectionFields[s]) : s \in DOMAIN SectionFields}),
     review |-> Body({"decision"}, {"note"}),
     upload |-> Body({"docType"}, {})]

OffboardingBodies ==
    [initiate |-> Body({"employeeId", "type", "noticeDate", "lastWorkingDay"}, {"reason"}),
     status |-> Body({"status"}, {"exitInterview", "rehireEligible"}),
     task |-> Body({"done"}, {})]

PerformanceBodies ==
    [goal |-> Body({"title"}, {"employeeId", "description", "metric", "target", "dueDate"}),
     goalUpdate |-> Body({}, {"progress", "status"}),
     cycle |-> Body({"name", "periodStart", "periodEnd"}, {}),
     cycleStatus |-> Body({"status"}, {}),
     review |-> Body({"cycleId", "employeeId"}, {}),
     submit |-> Body({}, {"rating", "strengths", "improvements", "comments"})]

RecruitmentBodies ==
    [job |-> Body({"title"}, {"description", "departmentId", "locationId",
                              "employmentType", "openings"}),
     jobStatus |-> Body({"status"}, {}),
     candidate |-> Body({"firstName", "lastName", "email"}, {"phone", "source"}),
     interview |-> Body({"scheduledAt"}, {"mode", "interviewerId"}),
     feedback |-> Body({}, {"rating", "feedback"}),
     offer |-> Body({"ctcAnnual", "joiningDate"}, {})]

ShiftBodies ==
    [shift |-> Body({"name", "startTime", "endTime"}, {"workingDays"}),
     assign |-> Body({"employeeId", "shiftId", "effectiveFrom"}, {"effectiveTo"})]

NotificationBodies == [query |-> Body({}, Pagination)]

-----------------------------------------------------------------------------
(* Routes: the least rank served, whether the caller must be linked to an  *)
(* employee record (NO_EMPLOYEE otherwise) and the body.                   *)
Route(required, self, body) == [rank |-> required, self |-> self, body |-> body]
Public(body) == Route(0, FALSE, body)
AnyUser == Route(0, FALSE, Unchecked)
Read(role) == Route(RANK[role], FALSE, Unchecked)
Write(role, body) == Route(RANK[role], FALSE, body)
OwnRead == Route(RANK.EMPLOYEE, TRUE, Unchecked)
OwnWrite(body) == Route(RANK.EMPLOYEE, TRUE, body)

AuthController ==
    [login |-> Public(AuthBodies.login), refresh |-> Public(AuthBodies.refresh),
     logout |-> Public(AuthBodies.refresh),
     forgotPassword |-> Public(AuthBodies.forgotPassword),
     resetPassword |-> Public(AuthBodies.resetPassword),
     acceptInvite |-> Public(AuthBodies.acceptInvite), me |-> AnyUser]

CompanyController ==
    [signup |-> Public(CompanyBodies.signup),
     getCompany |-> Read("EMPLOYEE"),
     updateSettings |-> Write("HR_ADMIN", CompanyBodies.updateSettings),
     listDepartments |-> Read("EMPLOYEE"), listDesignations |-> Read("EMPLOYEE"),
     listLocations |-> Read("EMPLOYEE"), listBusinessUnits |-> Read("EMPLOYEE"),
     listGrades |-> Read("EMPLOYEE"), listCostCenters |-> Read("EMPLOYEE"),
     createDepartment |-> Write("HR_ADMIN", CompanyBodies.department),
     createDesignation |-> Write("HR_ADMIN", CompanyBodies.designation),
     createLocation |-> Write("HR_ADMIN", CompanyBodies.location),
     setGeofence |-> Write("HR_ADMIN", CompanyBodies.geofence),
     createBusinessUnit |-> Write("HR_ADMIN", CompanyBodies.named),
     createGrade |-> Write("HR_ADMIN", CompanyBodies.named),
     createCostCenter |-> Write("HR_ADMIN", CompanyBodies.costCenter)]

EmployeesController ==
    [list |-> Write("MANAGER", EmployeeBodies.query), get |-> Read("MANAGER"),
     create |-> Write("HR_ADMIN", EmployeeBodies.create),
     invite |-> Write("HR_ADMIN", EmployeeBodies.invite),
     update |-> Write("HR_ADMIN", EmployeeBodies.update),
     setSalary |-> Write("HR_ADMIN", EmployeeBodies.salary),
     changeStatus |-> Write("HR_ADMIN", EmployeeBodies.changeStatus)]

AttendanceController ==
    [checkIn |-> OwnWrite(AttendanceBodies.checkIn), checkOut |-> OwnRead,
     list |-> OwnWrite(AttendanceBodies.range), summary |-> OwnRead,
     report |-> Read("MANAGER"), pending |-> Read("MANAGER"),
     requestRegularisation |-> OwnWrite(AttendanceBodies.regularisation),
     decide |-> Write("MANAGER", AttendanceBodies.decision)]

LeavesController ==
    [listTypes |-> Read("EMPLOYEE"), listRequests |-> Read("EMPLOYEE"),
     calendar |-> Read("EMPLOYEE"), pending |-> Read("MANAGER"),
     createType |-> Write("HR_ADMIN", LeaveBodies.type),
     createPolicy |-> Write("HR_ADMIN", LeaveBodies.policy),
     balances |-> OwnWrite(LeaveBodies.balances),
     apply |-> OwnWrite(LeaveBodies.apply), cancel |-> OwnRead,
     decide |-> Write("MANAGER", LeaveBodies.decision)]

PayrollController ==
    [createRun |-> Write("HR_ADMIN", PayrollBodies.createRun), listRuns |-> Read("HR_ADMIN"),
     getRun |-> Read("HR_ADMIN"), process |-> Read("HR_ADMIN"),
     markPaid |-> Read("HR_ADMIN"), runPayslips |-> Read("HR_ADMIN"),
     myPayslips |-> OwnRead, getPayslip |-> Read("EMPLOYEE"),
     downloadPdf |-> Read("EMPLOYEE")]

HolidaysController ==
    [list |-> Read("EMPLOYEE"), listHolidays |-> Read("EMPLOYEE"),
     create |-> Write("HR_ADMIN", HolidayBodies.calendar),
     addHoliday |-> Write("HR_ADMIN", HolidayBodies.holiday)]

DocumentsController ==
    [createUploadIntent |-> Write("EMPLOYEE", DocumentBodies.intent),
     confirm |-> Write("EMPLOYEE", DocumentBodies.confirm),
     list |-> Write("EMPLOYEE", DocumentBodies.query),
     download |-> Read("EMPLOYEE"), remove |-> Read("EMPLOYEE")]

OnboardingController ==
    [getMine |-> OwnRead, saveMine |-> OwnWrite(OnboardingBodies.save),
     submitMine |-> OwnRead, uploadMine |-> OwnWrite(OnboardingBodies.upload),
     download |-> Read("EMPLOYEE"), list |-> Read("HR_ADMIN"), getFor |-> Read("HR_ADMIN"),
     review |-> Write("HR_ADMIN", OnboardingBodies.review)]

OffboardingController ==
    [list |-> Read("HR_ADMIN"), get |-> Read("HR_ADMIN"),
     initiate |-> Write("HR_ADMIN", OffboardingBodies.initiate),
     updateStatus |-> Write("HR_ADMIN", OffboardingBodies.status),
     toggleTask |-> Write("HR_ADMIN", OffboardingBodies.task)]

(* The services ask for the caller's employee record here only of callers  *)
(* below HR_ADMIN, and those have one: modelled as not needed.             *)
PerformanceController ==
    [listGoals |-> Read("EMPLOYEE"), listCycles |-> Read("EMPLOYEE"),
     listReviews |-> Read("EMPLOYEE"),
     createGoal |-> OwnWrite(PerformanceBodies.goal),
     updateGoal |-> Write("EMPLOYEE", PerformanceBodies.goalUpdate),
     createCycle |-> Write("HR_ADMIN", PerformanceBodies.cycle),
     setCycleStatus |-> Write("HR_ADMIN", PerformanceBodies.cycleStatus),
     createReview |-> Write("MANAGER", PerformanceBodies.review),
     submitReview |-> Write("MANAGER", PerformanceBodies.submit)]

RecruitmentController ==
    [listJobs |-> Read("HR_ADMIN"), getJob |-> Read("HR_ADMIN"),
     listCandidates |-> Read("HR_ADMIN"), listInterviews |-> Read("HR_ADMIN"),
     createJob |-> Write("HR_ADMIN", RecruitmentBodies.job),
     setJobStatus |-> Write("HR_ADMIN", RecruitmentBodies.jobStatus),
     addCandidate |-> Write("HR_ADMIN", RecruitmentBodies.candidate),
     advance |-> Read("HR_ADMIN"), reject |-> Read("HR_ADMIN"), hire |-> Read("HR_ADMIN"),
     schedule |-> Write("HR_ADMIN", RecruitmentBodies.interview),
     feedback |-> Write("HR_ADMIN", RecruitmentBodies.feedback),
     offer |-> Write("HR_ADMIN", RecruitmentBodies.offer)]

ShiftsController ==
    [list |-> Read("EMPLOYEE"), my |-> OwnRead, listAssignments |-> Read("MANAGER"),
     create |-> Write("HR_ADMIN", ShiftBodies.shift),
     assign |-> Write("HR_ADMIN", ShiftBodies.assign)]

NotificationsController ==
    [list |-> Write("HR_ADMIN", NotificationBodies.query), listTemplates |-> Read("HR_ADMIN")]

ReportsController == [overview |-> Read("HR_ADMIN")]

Routes ==
    [auth |-> AuthController, company |-> CompanyController,
     employees |-> EmployeesController, attendance |-> AttendanceController,
     leaves |-> LeavesController, payroll |-> PayrollController,
     holidays |-> HolidaysController, documents |-> DocumentsController,
     onboarding |-> OnboardingController, offboarding |-> OffboardingController,
     performance |-> PerformanceController, recruitment |-> RecruitmentController,
     shifts |-> ShiftsController, notifications |-> NotificationsController,
     reports |-> ReportsController]
=============================================================================
