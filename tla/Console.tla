------------------------------ MODULE Console ------------------------------
(***************************************************************************)
(* One user at one page of the console, one stored row the page may list,  *)
(* and other sessions that act on the same row.  A page shows the row as   *)
(* it was when the page loaded: a click on it sends a request the server   *)
(* judges by role, body, caller and the state the row is in by then.       *)
(*                                                                         *)
(* What a handler does besides moving the row is in the module of its      *)
(* component; here a move is one step.                                     *)
(***************************************************************************)
EXTENDS Pages

VARIABLES
  user,    \* the role of the user
  row,     \* the stored row: its kind, whose it is (the user's own, a report's
           \* or another employee's) and its state
  screen,  \* the page on display: loading, shown, reloading (shown as it was) or failed
  seen,    \* the state of the row when the page was loaded
  answer   \* the last click: request, effect, verdict, row's state then and as seen

consoleVars == <<user, row, screen, seen, answer>>

NoScreen == [page |-> "none", phase |-> "shown"]
NotAnswered == [result |-> "none"]

(* Only the user that signs a company up has no employee record. *)
Linked(role) == role # "OWNER"

-----------------------------------------------------------------------------
(* What each request that changes a row may do to it: <<from, to>> pairs.  *)
From(states, to) == states \X {to}

DayMoves == [checkIn |-> From({"absent", "out"}, "in"), checkOut |-> From({"in"}, "out")]

(* Seeded fault: a decision is taken on a request whatever its state. *)
LeaveMovesUnguarded ==
    [approve |-> From({"PENDING", "APPROVED", "REJECTED", "CANCELLED"}, "APPROVED"),
     reject |-> From({"PENDING", "APPROVED", "REJECTED", "CANCELLED"}, "REJECTED"),
     cancel |-> From({"PENDING", "APPROVED"}, "CANCELLED")]

LeaveMoves ==
    [approve |-> From({"PENDING"}, "APPROVED"), reject |-> From({"PENDING"}, "REJECTED"),
     cancel |-> From({"PENDING", "APPROVED"}, "CANCELLED")]

RegularisationMoves ==
    [approve |-> From({"PENDING"}, "APPROVED"), reject |-> From({"PENDING"}, "REJECTED")]

Unpaid == {"DRAFT", "PROCESSING", "COMPLETED", "FAILED"}
RunMoves ==
    [process |-> Unpaid \X {"COMPLETED", "FAILED"}, markPaid |-> From({"COMPLETED"}, "PAID")]

(* Saving asks for no state and sets IN_PROGRESS; Submit saves first. *)
FormStates == {"NOT_STARTED", "IN_PROGRESS", "SUBMITTED", "APPROVED", "REJECTED"}
FormMoves ==
    [save |-> From(FormStates, "IN_PROGRESS"), submit |-> From(FormStates, "SUBMITTED"),
     approve |-> From(FormStates, "APPROVED"), reject |-> From(FormStates, "REJECTED")]

ExitStates == {"INITIATED", "IN_PROGRESS", "COMPLETED", "CANCELLED"}
ExitMoves ==
    [start |-> From(ExitStates, "IN_PROGRESS"), complete |-> From(ExitStates, "COMPLETED"),
     cancel |-> From(ExitStates, "CANCELLED")]

GoalStates == {"ACTIVE", "COMPLETED"}
GoalMoves ==
    [progress |-> {<<s, s>> : s \in GoalStates}, complete |-> From(GoalStates, "COMPLETED")]

CycleStates == {"DRAFT", "OPEN", "CLOSED"}
CycleMoves == [open |-> From(CycleStates, "OPEN"), close |-> From(CycleStates, "CLOSED")]

ReviewMoves == [submit |-> From({"PENDING", "SUBMITTED"}, "SUBMITTED")]

JobStates == {"OPEN", "ON_HOLD", "CLOSED"}
JobMoves == [open |-> From(JobStates, "OPEN"), close |-> From(JobStates, "CLOSED")]

(* Advancing from OFFER is hiring. *)
Pipeline == {"APPLIED", "SCREENING", "INTERVIEW", "OFFER"}
CandidateMoves ==
    [advance |-> {<<"APPLIED", "SCREENING">>, <<"SCREENING", "INTERVIEW">>,
                  <<"INTERVIEW", "OFFER">>, <<"OFFER", "HIRED">>},
     offer |-> From(Pipeline, "OFFER"), reject |-> From(Pipeline, "REJECTED"),
     hire |-> From(Pipeline \cup {"REJECTED"}, "HIRED")]

Moves ==
    [day |-> DayMoves, leave |-> LeaveMoves, regularisation |-> RegularisationMoves,
     run |-> RunMoves, form |-> FormMoves, exit |-> ExitMoves, goal |-> GoalMoves,
     cycle |-> CycleMoves, review |-> ReviewMoves, job |-> JobMoves,
     candidate |-> CandidateMoves]

NewRow ==
    [day |-> "absent", leave |-> "PENDING", regularisation |-> "PENDING", run |-> "DRAFT",
     form |-> "NOT_STARTED", exit |-> "INITIATED", goal |-> "ACTIVE", cycle |-> "DRAFT",
     review |-> "PENDING", job |-> "OPEN", candidate |-> "APPLIED"]

(* A reading control, and one on no row, moves nothing. *)
Outcomes(kind, does, from) ==
    IF does = "none" THEN {from} ELSE {m[2] : m \in {m \in Moves[kind][does] : m[1] = from}}

-----------------------------------------------------------------------------
(* Which rows the caller may act on: her own leave and goals, the requests *)
(* of her reports; HR decides on everyone's and updates any goal.          *)
MayActOn(role, control) ==
    CASE control.does = "cancel" /\ control.row = "leave" -> row.whose = "own"
      [] control.does \in {"approve", "reject"} /\ control.row \in {"leave", "regularisation"} ->
            hasRole(role, "HR_ADMIN") \/ row.whose = "report"
      [] control.row = "goal" -> hasRole(role, "HR_ADMIN") \/ row.whose = "own"
      [] OTHER -> TRUE

(* The order of the checks: RolesGuard, ValidationPipe, the service.       *)
Verdict(role, request) ==
    LET route == RouteOf(request)
    IN  CASE ~canActivate(role, route.rank) -> "ROLE"
          [] ~Accepts(route.body, request.sends, request.size) -> "VALIDATION"
          [] route.self /\ ~Linked(role) -> "NO_EMPLOYEE"
          [] OTHER -> "ok"

VerdictOn(role, control) ==
    LET first == Verdict(role, control.call)
    IN  IF first # "ok" \/ control.row = "none" THEN first
        ELSE IF ~MayActOn(role, control) THEN "FORBIDDEN"
        ELSE IF Outcomes(row.kind, control.does, row.state) = {} THEN "STATE" ELSE "ok"

(* Forms whose service judges what they say by other rows or by rules of   *)
(* its own: the components of a salary, a taken address, code, name, year  *)
(* or period, a leave that overlaps or overdraws, a second review, a file. *)
JudgesForm ==
    {<<"employees", "setSalary">>, <<"employees", "invite">>, <<"offboarding", "initiate">>,
     <<"leaves", "apply">>, <<"leaves", "createType">>, <<"performance", "createReview">>,
     <<"payroll", "createRun">>, <<"holidays", "create">>, <<"holidays", "addHoliday">>,
     <<"company", "createDepartment">>, <<"company", "createDesignation">>,
     <<"company", "createLocation">>, <<"documents", "createUploadIntent">>,
     <<"documents", "confirm">>, <<"onboarding", "uploadMine">>}

(* A hire invites the candidate: that fails when a user has the address    *)
(* (EMAIL_TAKEN) or an employee the code.  Neither is in the candidate's   *)
(* row nor is what a form says, so that either answer is possible.         *)
Objections(control) ==
    If(control.does = "none" /\ control.call.to \in JudgesForm, {"FORM"})
    \cup If(/\ control.row = "candidate" /\ control.does \in {"advance", "hire"}
            /\ "HIRED" \in Outcomes(row.kind, control.does, row.state), {"TAKEN"})

Answers(role, control) ==
    LET verdict == VerdictOn(role, control)
    IN  {verdict} \cup If(verdict = "ok", Objections(control))

(* A page whose requests are all served, or catch their refusal, is shown. *)
Site ==
    [OWNER |-> PagesOf("OWNER"), HR_ADMIN |-> PagesOf("HR_ADMIN"),
     MANAGER |-> PagesOf("MANAGER"), EMPLOYEE |-> PagesOf("EMPLOYEE")]
Loads(role, page) ==
    \A request \in Site[role][page].load : request.quiet \/ Verdict(role, request) = "ok"

Opened == [role \in Roles |-> {page \in DOMAIN Site[role] : Loads(role, page)}]

Offered(control) ==
    \/ control.row = "none"
    \/ control.row = row.kind /\ seen \in control.when /\ (control.all \/ row.whose = "own")

(* What some page offers some role to do to a row it shows as it is. *)
UsualOf(role) ==
    {[row |-> c.row, does |-> c.does, when |-> c.when] :
        c \in {c \in UNION {Site[role][page].offers : page \in Opened[role]} :
                   c.does # "none" /\ Verdict(role, c.call) = "ok"}}
Usual == UNION {UsualOf(role) : role \in Roles}

-----------------------------------------------------------------------------
Visit(page) ==
    /\ \/ page \in NAV(user)
       \/ screen.phase = "shown" /\ <<screen.page, page>> \in Links(user)
    /\ screen' = [page |-> page, phase |-> "loading"]
    /\ answer' = NotAnswered
    /\ seen' = "none"
    /\ UNCHANGED <<user, row>>

Load ==
    /\ screen.phase \in {"loading", "reloading"}
    /\ screen' = [screen EXCEPT !.phase = IF screen.page \in Opened[user] THEN "shown" ELSE "failed"]
    /\ seen' = row.state
    /\ UNCHANGED <<user, row, answer>>

(* A click that is served loads the page again; until the answer is there  *)
(* the old row stays on display with its buttons.  (Some pages disable     *)
(* them meanwhile: then the second click is another tab's.)                *)
Click(control) ==
    /\ screen.phase \in {"shown", "reloading"} /\ Offered(control)
    /\ \E result \in Answers(user, control) :
        /\ answer' = [result |-> result, control |-> control, on |-> row.state, seen |-> seen]
        /\ IF result = "ok" /\ control.row # "none"
           THEN \E to \in Outcomes(row.kind, control.does, row.state) :
                    /\ row' = [row EXCEPT !.state = to]
                    /\ screen' = [screen EXCEPT !.phase = "reloading"]
           ELSE UNCHANGED <<row, screen>>
    /\ UNCHANGED <<user, seen>>

(* Somebody else, or the user in another tab, acts on the row as it is. *)
Elsewhere ==
    \E u \in {u \in Usual : u.row = row.kind /\ row.state \in u.when} :
        /\ \E to \in Outcomes(row.kind, u.does, row.state) : row' = [row EXCEPT !.state = to]
        /\ UNCHANGED <<user, screen, seen, answer>>

ConsoleInit ==
    /\ user \in Roles
    /\ row \in {[kind |-> k, whose |-> w, state |-> NewRow[k]] :
                   k \in DOMAIN NewRow, w \in {"own", "report", "other"}}
    /\ row.whose = "own" => Linked(user)
    /\ row.whose = "report" => hasRole(user, "MANAGER") /\ Linked(user)
    /\ screen = NoScreen /\ seen = "none" /\ answer = NotAnswered

ConsoleNext ==
    \/ \E page \in DOMAIN Site[user] : Visit(page)
    \/ Load
    \/ /\ screen.page # "none"
       /\ \E control \in Site[user][screen.page].offers : Click(control)
    \/ Elsewhere

ConsoleSpec == ConsoleInit /\ [][ConsoleNext]_consoleVars

-----------------------------------------------------------------------------
(* The only pages that do not open for a user who can reach them: the two  *)
(* that ask for more employees than a page of the list may hold, the       *)
(* directory for an employee and the onboarding form of the owner.         *)
PagesOpen ==
    screen.phase = "failed" =>
        \/ screen.page \in {"orgChart", "offboarding"}
        \/ screen.page = "employees" /\ user = "EMPLOYEE"
        \/ screen.page = "myOnboarding" /\ user = "OWNER"

(* A control used on up-to-date data is refused only to the owner, who has *)
(* no employee record; to a manager who decides for another manager's      *)
(* report; to HR who cancels somebody's leave; to an employee who saves a  *)
(* form with rows that came from the server; to one who looks at another   *)
(* month while clocked in; to HR who hires a person who has a user already *)
(* (or whose code is taken); and for what a form says.  Never for a role.  *)
RefusalsAreKnown ==
    (answer.result \notin {"none", "ok"} /\ answer.on = answer.seen) =>
        LET c == answer.control
        IN  \/ answer.result = "NO_EMPLOYEE" /\ user = "OWNER"
            \/ answer.result = "FORBIDDEN" /\ user = "MANAGER" /\ row.whose # "report"
            \/ answer.result = "FORBIDDEN" /\ c.does = "cancel" /\ hasRole(user, "HR_ADMIN")
            \/ answer.result = "VALIDATION" /\ c.row = "form" /\ StoredRows \subseteq c.call.sends
            \/ answer.result = "STATE" /\ screen.page = "myAttendance" /\ answer.on = "in"
            \/ answer.result = "TAKEN" /\ c.does = "hire" /\ answer.on = "OFFER"
            \/ answer.result = "FORM" /\ c.call.to \in JudgesForm

(* What a click on outdated data does that no page would offer for the row *)
(* as it is: it takes back an approval of the onboarding form, sends a     *)
(* second offer, hires by Advance (a second click on Advance is enough) or *)
(* hires the rejected, submits a submitted review again, or opens, closes  *)
(* or completes what already is.  Everything else is refused: a decided    *)
(* leave, a paid run and a rejected candidate's other buttons.             *)
KnownOverwrites ==
    {<<"form", "save", "APPROVED">>, <<"form", "submit", "APPROVED">>,
     <<"candidate", "offer", "OFFER">>, <<"candidate", "advance", "OFFER">>,
     <<"candidate", "hire", "REJECTED">>, <<"review", "submit", "SUBMITTED">>,
     <<"goal", "complete", "COMPLETED">>,
     <<"cycle", "open", "OPEN">>, <<"cycle", "close", "CLOSED">>,
     <<"job", "open", "OPEN">>, <<"job", "close", "CLOSED">>}

OutdatedClicksAreHarmless ==
    (answer.result = "ok" /\ answer.on # answer.seen /\ answer.control.does # "none") =>
        LET c == answer.control
        IN  \/ \E u \in Usual : u.row = c.row /\ u.does = c.does /\ answer.on \in u.when
            \/ <<c.row, c.does, answer.on>> \in KnownOverwrites
=============================================================================
