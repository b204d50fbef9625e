-------------------------- MODULE EmployeeLifecycle --------------------------
(***************************************************************************)
(* The status of employees and their exits: EmployeesService.changeStatus, *)
(* OffboardingService and the activation in AuthService.acceptInvite.      *)
(*                                                                         *)
(* changeStatus asks the transition table; offboarding writes the status   *)
(* directly.  A call gives way to the others at each query: it is a slot   *)
(* of `calls`, whose pc names the query it issues next.                    *)
(*                                                                         *)
(* The only client of offboarding is the offboarding page, which offers    *)
(* fewer calls than the server accepts.  Two history variables record what *)
(* the clients of each employee have done so that properties can say which *)
(* use they rely on.                                                       *)
(***************************************************************************)
EXTENDS Naturals, FiniteSets

CONSTANTS
  Employees,   \* employees of one tenant
  Exits,       \* identities of the exit records that can be created
  Calls,       \* slots for calls in flight
  MaxFailures  \* how many calls may end at a query (query error, crash)

ASSUME MaxFailuresAssumption == MaxFailures \in Nat

VARIABLES
  status,      \* employee -> lifecycle status
  exitDate,    \* employee -> dateOfExit is set
  exits,       \* exit record -> its employee, status and checklist
  calls,       \* slot -> call in flight
  failures,    \* calls cut short so far, at most MaxFailures
  overlapped,  \* history: employees with two calls in flight at once, or one cut short
  unoffered    \* history: employees with a call that the offboarding page does not offer

vars == <<status, exitDate, exits, calls, failures, overlapped, unoffered>>

----------------------------------------------------------------------------

Statuses == {"INVITED", "ACTIVE", "ON_NOTICE", "SUSPENDED", "EXITED", "CANCELLED"}
ExitStatuses == {"INITIATED", "IN_PROGRESS", "COMPLETED", "CANCELLED"}
Open == {"INITIATED", "IN_PROGRESS"}

Exit == [emp : Employees, status : ExitStatuses, checklist : BOOLEAN]
NoExit == [status |-> "NONE"]

Idle == [pc |-> "idle"]
StatusCall == [pc : {"status"}, emp : Employees, to : Statuses]
InitiateCall == [pc : {"record"}, emp : Employees]
RecordedCall == [pc : {"tasks", "notice"}, emp : Employees, exit : Exits]
UpdateCall == [pc : {"exit", "follow"}, emp : Employees, exit : Exits, to : ExitStatuses]

InFlight(e) == {c \in Calls : calls[c] # Idle /\ calls[c].emp = e}
OpenExits(e) == {x \in Exits : exits[x].status \in Open /\ exits[x].emp = e}

\* A call about e starts: is another one in flight, does the page offer it?
Start(c, e, call, offered) ==
  /\ calls[c] = Idle
  /\ calls' = [calls EXCEPT ![c] = call]
  /\ overlapped' = IF InFlight(e) = {} THEN overlapped ELSE overlapped \cup {e}
  /\ unoffered' = IF offered THEN unoffered ELSE unoffered \cup {e}

Put(c, call) == calls' = [calls EXCEPT ![c] = call]
Return(c) == Put(c, Idle)

SetStatus(e, to) == status' = [status EXCEPT ![e] = to]

----------------------------------------------------------------------------
(* Employees and Auth *)

\* create and invite store the employee INVITED.
Create(e) ==
  /\ status[e] = "NONE"
  /\ SetStatus(e, "INVITED")
  /\ UNCHANGED <<exitDate, exits, calls, failures, overlapped, unoffered>>

\* The conditional updateMany of acceptInvite; if it matches no row, no effect.
AcceptInvite(e) ==
  /\ status[e] = "INVITED"
  /\ SetStatus(e, "ACTIVE")
  /\ overlapped' = IF InFlight(e) = {} THEN overlapped ELSE overlapped \cup {e}
  /\ UNCHANGED <<exitDate, exits, calls, failures, unoffered>>

Transitions(from) ==
  CASE from = "INVITED" -> {"ACTIVE", "CANCELLED"}
    [] from = "ACTIVE" -> {"ON_NOTICE", "SUSPENDED"}
    [] from = "ON_NOTICE" -> {"EXITED", "ACTIVE"}
    [] from = "SUSPENDED" -> {"ACTIVE"}
    [] OTHER -> {}

\* changeStatus reads the employee and consults the table.  No page offers it
\* while an exit of the employee is open.
ChangeStatusStart(c, e, to) ==
  /\ to \in Transitions(status[e])
  /\ Start(c, e, [pc |-> "status", emp |-> e, to |-> to], OpenExits(e) = {})
  /\ UNCHANGED <<status, exitDate, exits, failures>>

\* Seeded fault: changeStatus leaves the date of exit to offboarding.
ExitDateLater(e, to) == exitDate

\* EXITED comes with the date of exit, in the same update.
ExitDate(e, to) == IF to = "EXITED" THEN [exitDate EXCEPT ![e] = TRUE] ELSE exitDate

ChangeStatusUpdate(c) ==
  LET e == calls[c].emp IN
  /\ calls[c].pc = "status"
  /\ SetStatus(e, calls[c].to)
  /\ exitDate' = ExitDate(e, calls[c].to)
  /\ Return(c)
  /\ UNCHANGED <<exits, failures, overlapped, unoffered>>

----------------------------------------------------------------------------
(* Offboarding *)

\* Seeded fault: the page lists everybody the server accepts.
PageOffersExitOfAll(e) == status[e] # "EXITED"

\* The page lists the employees whose status is ACTIVE.
PageOffersExitOf(e) == status[e] = "ACTIVE"

\* Seeded fault: the page keeps offering to cancel a completed exit.
PageOffersCancelAlways(x, to) ==
  \/ exits[x].status = "INITIATED" /\ to = "IN_PROGRESS"
  \/ exits[x].status \in Open /\ to = "COMPLETED"
  \/ to = "CANCELLED"

\* The buttons of an exit, by the status displayed.
PageOffers(x, to) ==
  \/ exits[x].status = "INITIATED" /\ to = "IN_PROGRESS"
  \/ exits[x].status \in Open /\ to \in {"COMPLETED", "CANCELLED"}

\* initiate reads the employee; only ALREADY_EXITED ends the call.
InitiateStart(c, e) ==
  /\ status[e] \notin {"NONE", "EXITED"}
  /\ Start(c, e, [pc |-> "record", emp |-> e], PageOffersExitOf(e))
  /\ UNCHANGED <<status, exitDate, exits, failures>>

InitiateRecord(c, x) ==
  LET e == calls[c].emp IN
  /\ calls[c].pc = "record"
  /\ exits[x] = NoExit
  /\ exits' = [exits EXCEPT ![x] = [emp |-> e, status |-> "INITIATED", checklist |-> FALSE]]
  /\ Put(c, [pc |-> "tasks", emp |-> e, exit |-> x])
  /\ UNCHANGED <<status, exitDate, failures, overlapped, unoffered>>

\* createMany stores the default checklist in one query.
InitiateTasks(c) ==
  LET x == calls[c].exit IN
  /\ calls[c].pc = "tasks"
  /\ exits' = [exits EXCEPT ![x].checklist = TRUE]
  /\ Put(c, [pc |-> "notice", emp |-> calls[c].emp, exit |-> x])
  /\ UNCHANGED <<status, exitDate, failures, overlapped, unoffered>>

InitiateNotice(c) ==
  /\ calls[c].pc = "notice"
  /\ SetStatus(calls[c].emp, "ON_NOTICE")
  /\ Return(c)
  /\ UNCHANGED <<exitDate, exits, failures, overlapped, unoffered>>

\* updateStatus reads the exit, for its employee and last working day only.
UpdateStart(c, x, to) ==
  LET e == exits[x].emp IN
  /\ exits[x] # NoExit
  /\ Start(c, e, [pc |-> "exit", emp |-> e, exit |-> x, to |-> to], PageOffers(x, to))
  /\ UNCHANGED <<status, exitDate, exits, failures>>

\* COMPLETED and CANCELLED go on to the employee.
UpdateExit(c) ==
  LET call == calls[c] IN
  /\ call.pc = "exit"
  /\ exits' = [exits EXCEPT ![call.exit].status = call.to]
  /\ IF call.to \in Open
       THEN Return(c)
       ELSE Put(c, [pc |-> "follow", emp |-> call.emp, exit |-> call.exit, to |-> call.to])
  /\ UNCHANGED <<status, exitDate, failures, overlapped, unoffered>>

\* Seeded fault: the status of the exit is written to the employee.
FollowedByCopy(to) == to

FollowedBy(to) == IF to = "COMPLETED" THEN "EXITED" ELSE "ACTIVE"

UpdateEmployee(c) ==
  LET e == calls[c].emp
      to == FollowedBy(calls[c].to)
  IN /\ calls[c].pc = "follow"
     /\ SetStatus(e, to)
     /\ exitDate' = ExitDate(e, to)
     /\ Return(c)
     /\ UNCHANGED <<exits, failures, overlapped, unoffered>>

\* A query fails or the process dies: what the call has written stays written.
Fail(c) ==
  /\ failures < MaxFailures
  /\ failures' = failures + 1
  /\ calls[c] # Idle
  /\ overlapped' = overlapped \cup {calls[c].emp}
  /\ Return(c)
  /\ UNCHANGED <<status, exitDate, exits, unoffered>>

----------------------------------------------------------------------------

Init ==
  /\ status = [e \in Employees |-> "NONE"]
  /\ exitDate = [e \in Employees |-> FALSE]
  /\ exits = [x \in Exits |-> NoExit]
  /\ calls = [c \in Calls |-> Idle]
  /\ failures = 0
  /\ overlapped = {}
  /\ unoffered = {}

Next ==
  \/ \E e \in Employees : Create(e) \/ AcceptInvite(e)
  \/ \E c \in Calls :
       \/ \E e \in Employees, to \in Statuses : ChangeStatusStart(c, e, to)
       \/ ChangeStatusUpdate(c)
       \/ \E e \in Employees : InitiateStart(c, e)
       \/ \E x \in Exits : InitiateRecord(c, x)
       \/ InitiateTasks(c)
       \/ InitiateNotice(c)
       \/ \E x \in Exits, to \in ExitStatuses : UpdateStart(c, x, to)
       \/ UpdateExit(c)
       \/ UpdateEmployee(c)
       \/ Fail(c)

Spec == Init /\ [][Next]_vars

----------------------------------------------------------------------------
(* Properties *)

\* Rows and calls have the shape the schema and the code give them.
TypeOK ==
  /\ status \in [Employees -> Statuses \cup {"NONE"}]
  /\ exitDate \in [Employees -> BOOLEAN]
  /\ exits \in [Exits -> Exit \cup {NoExit}]
  /\ calls \in [Calls -> {Idle} \cup StatusCall \cup InitiateCall \cup RecordedCall
                        \cup UpdateCall]
  /\ failures \in 0 .. MaxFailures
  /\ overlapped \subseteq Employees /\ unoffered \subseteq Employees

\* The state machine of docs/03, 3.5, which employee-lifecycle.ts:4 names as its
\* source.
DocumentedLifecycle ==
  {<<"NONE", "INVITED">>, <<"INVITED", "ACTIVE">>, <<"INVITED", "CANCELLED">>,
   <<"ACTIVE", "ON_NOTICE">>, <<"ACTIVE", "SUSPENDED">>, <<"SUSPENDED", "ACTIVE">>,
   <<"ON_NOTICE", "EXITED">>}

\* An edge that diagram lacks and the code has: EMPLOYEE_TRANSITIONS lists it
\* (employee-lifecycle.ts:10), and cancelling an exit takes it.
NoticeWithdrawn == <<"ON_NOTICE", "ACTIVE">>

Changes(e) == status'[e] # status[e]
AlongLifecycle(e) ==
  /\ <<status[e], status'[e]>> \in DocumentedLifecycle \cup {NoticeWithdrawn}
  /\ status[e] = "ON_NOTICE" => OpenExits(e) = {}

\* Offboarding never consults the transition table, and still every change of
\* status is an edge of the documented lifecycle or the withdrawal of a notice,
\* and a notice ends, either way, only when no exit of the employee is open any
\* more; as long as the calls about the employee are the ones the offboarding
\* page offers and none overlaps or is cut short.
StatusFollowsLifecycle ==
  [][\A e \in Employees :
       Changes(e) /\ e \notin overlapped' \cup unoffered' => AlongLifecycle(e)]_status

\* Under the same use, between calls: an employee has at most one open exit and
\* is ON_NOTICE while it is open (offboarding.service.ts:51), EXITED once it is
\* completed, and every exit has its checklist.
ExitsMatchStatus ==
  \A e \in Employees \ (overlapped \cup unoffered) : InFlight(e) = {} =>
    /\ Cardinality(OpenExits(e)) <= 1
    /\ OpenExits(e) # {} => status[e] = "ON_NOTICE"
    /\ \A x \in Exits : exits[x] # NoExit /\ exits[x].emp = e =>
         exits[x].checklist /\ (exits[x].status = "COMPLETED" => status[e] = "EXITED")

\* An employee who is EXITED has a date of exit, however calls overlap or fail
\* and whichever of the two modules wrote the status last.
ExitedHasDate ==
  \A e \in Employees : status[e] = "EXITED" => exitDate[e]
=============================================================================
