------------------------ MODULE EmployeeLifecycleProofs ------------------------
(***************************************************************************)
(* The properties of EmployeeLifecycle, for every set of employees, exits  *)
(* and calls: TypeOK, ExitedHasDate, ExitsMatchStatus and                  *)
(* StatusFollowsLifecycle.                                                 *)
(***************************************************************************)
EXTENDS EmployeeLifecycle, FiniteSetTheorems, TLAPS

Call == {Idle} \cup StatusCall \cup InitiateCall \cup RecordedCall \cup UpdateCall

\* A slot that takes a well-formed call leaves the calls well formed.
LEMMA PutCall ==
  ASSUME calls \in [Calls -> Call], NEW c \in Calls, NEW call \in Call, Put(c, call)
  PROVE  calls' \in [Calls -> Call]
  BY DEF Put

\* Every call names one of the employees.
LEMMA CallOfEmployee ==
  ASSUME calls \in [Calls -> Call], NEW c \in Calls, calls[c] # Idle
  PROVE  calls[c].emp \in Employees
<1> QED
  BY DEF Call, StatusCall, InitiateCall, RecordedCall, UpdateCall

\* What the pc of a call says about its other fields.
LEMMA CallFields ==
  ASSUME calls \in [Calls -> Call], NEW c \in Calls
  PROVE  /\ calls[c].pc = "status" => calls[c] \in StatusCall
         /\ calls[c].pc = "record" => calls[c] \in InitiateCall
         /\ calls[c].pc \in {"tasks", "notice"} => calls[c] \in RecordedCall
         /\ calls[c].pc \in {"exit", "follow"} => calls[c] \in UpdateCall
  BY DEF Call, Idle, StatusCall, InitiateCall, RecordedCall, UpdateCall

\* A transition leads to a status.
LEMMA TransitionsAreStatuses ==
  ASSUME NEW s \in Statuses \cup {"NONE"}
  PROVE  Transitions(s) \subseteq Statuses
  BY DEF Transitions, Statuses

\* A call that has read or stored an exit works on one of its own employee.
\* TypeOK alone is not inductive: updateStatus writes to the exit it has read.
Recorded ==
  \A c \in Calls : calls[c].pc \in {"tasks", "notice", "exit", "follow"} =>
    /\ exits[calls[c].exit] # NoExit
    /\ exits[calls[c].exit].emp = calls[c].emp

\* Every step keeps the shape of rows and calls.
LEMMA TypeStep == TypeOK /\ Recorded /\ [Next]_vars => TypeOK'
<1> SUFFICES ASSUME TypeOK, Recorded, [Next]_vars PROVE TypeOK'
  OBVIOUS
<1>0. calls \in [Calls -> Call]
  BY DEF TypeOK, Call
<1>f. failures \in 0 .. MaxFailures /\ MaxFailures \in Nat
  BY MaxFailuresAssumption DEF TypeOK
<1>1. ASSUME NEW e \in Employees, Create(e) \/ AcceptInvite(e) PROVE TypeOK'
  BY <1>1 DEF Create, AcceptInvite, SetStatus, TypeOK, Statuses
<1>2. ASSUME NEW c \in Calls, NEW e \in Employees, NEW to \in Statuses, ChangeStatusStart(c, e, to)
      PROVE TypeOK'
  <2> DEFINE call == [pc |-> "status", emp |-> e, to |-> to]
  <2>1. call \in Call
    BY DEF Call, StatusCall
  <2>2. calls' \in [Calls -> Call]
    BY <1>0, <1>2, <2>1, PutCall DEF ChangeStatusStart, Start, Put
  <2> QED
    BY <1>2, <2>2 DEF ChangeStatusStart, Start, TypeOK, Call
<1>3. ASSUME NEW c \in Calls, ChangeStatusUpdate(c) PROVE TypeOK'
  <2>1. calls[c] \in StatusCall
    BY <1>0, <1>3, CallFields DEF ChangeStatusUpdate
  <2>2. calls[c].emp \in Employees /\ calls[c].to \in Statuses
    BY <2>1 DEF StatusCall
  <2>3. calls' \in [Calls -> Call]
    BY <1>0, <1>3, PutCall DEF ChangeStatusUpdate, Return, Call
  <2> QED
    BY <1>3, <2>2, <2>3 DEF ChangeStatusUpdate, SetStatus, ExitDate, TypeOK, Call
<1>4. ASSUME NEW c \in Calls, NEW e \in Employees, InitiateStart(c, e) PROVE TypeOK'
  <2> DEFINE call == [pc |-> "record", emp |-> e]
  <2>1. call \in Call
    BY DEF Call, InitiateCall
  <2>2. calls' \in [Calls -> Call]
    BY <1>0, <1>4, <2>1, PutCall DEF InitiateStart, Start, Put
  <2> QED
    BY <1>4, <2>2 DEF InitiateStart, Start, TypeOK, Call
<1>5. ASSUME NEW c \in Calls, NEW x \in Exits, InitiateRecord(c, x) PROVE TypeOK'
  <2>1. calls[c].emp \in Employees
    BY <1>0, <1>5, CallFields DEF InitiateRecord, InitiateCall
  <2> DEFINE call == [pc |-> "tasks", emp |-> calls[c].emp, exit |-> x]
             exit == [emp |-> calls[c].emp, status |-> "INITIATED", checklist |-> FALSE]
  <2>2. call \in Call /\ exit \in Exit
    BY <2>1 DEF Call, RecordedCall, Exit, ExitStatuses
  <2>3. calls' \in [Calls -> Call]
    BY <1>0, <1>5, <2>2, PutCall DEF InitiateRecord
  <2> QED
    BY <1>5, <2>2, <2>3 DEF InitiateRecord, TypeOK, Call
<1>6. ASSUME NEW c \in Calls, InitiateTasks(c) \/ InitiateNotice(c) PROVE TypeOK'
  <2>1. calls[c].emp \in Employees /\ calls[c].exit \in Exits
    BY <1>0, <1>6, CallFields DEF InitiateTasks, InitiateNotice, RecordedCall
  <2> DEFINE call == [pc |-> "notice", emp |-> calls[c].emp, exit |-> calls[c].exit]
  <2>2. call \in Call /\ Idle \in Call
    BY <2>1 DEF Call, RecordedCall
  <2>3. calls' \in [Calls -> Call]
    BY <1>0, <1>6, <2>2, PutCall DEF InitiateTasks, InitiateNotice, Return
  <2>4. exits' \in [Exits -> Exit \cup {NoExit}]
    <3>1. CASE InitiateTasks(c)
      <4>1. exits[calls[c].exit] \in Exit \cup {NoExit}
        BY <2>1 DEF TypeOK
      <4> QED
        BY <2>1, <3>1, <4>1 DEF InitiateTasks, TypeOK, Exit, NoExit
    <3> QED
      BY <1>6, <3>1 DEF InitiateNotice, TypeOK
  <2> QED
    BY <1>6, <2>1, <2>3, <2>4 DEF InitiateTasks, InitiateNotice, SetStatus, TypeOK, Call, Statuses
<1>7. ASSUME NEW c \in Calls, NEW x \in Exits, NEW to \in ExitStatuses, UpdateStart(c, x, to)
      PROVE TypeOK'
  <2> DEFINE e == exits[x].emp
             call == [pc |-> "exit", emp |-> e, exit |-> x, to |-> to]
  <2>1. e \in Employees
    BY <1>7 DEF UpdateStart, TypeOK, Exit
  <2>2. call \in Call
    BY <2>1 DEF Call, UpdateCall
  <2>3. calls' \in [Calls -> Call]
    BY <1>0, <1>7, <2>2, PutCall DEF UpdateStart, Start, Put
  <2> QED
    BY <1>7, <2>1, <2>3 DEF UpdateStart, Start, TypeOK, Call
<1>8. ASSUME NEW c \in Calls, UpdateExit(c) PROVE TypeOK'
  <2>1. calls[c].emp \in Employees /\ calls[c].exit \in Exits /\ calls[c].to \in ExitStatuses
    BY <1>0, <1>8, CallFields DEF UpdateExit, UpdateCall
  <2> DEFINE call == [pc |-> "follow", emp |-> calls[c].emp, exit |-> calls[c].exit,
                      to |-> calls[c].to]
  <2>2. call \in Call /\ Idle \in Call
    BY <2>1 DEF Call, UpdateCall
  <2>3. calls' \in [Calls -> Call]
    BY <1>0, <1>8, <2>2, PutCall DEF UpdateExit, Return
  <2>4. exits[calls[c].exit] \in Exit
    BY <1>8, <2>1 DEF UpdateExit, TypeOK, Recorded
  <2>5. exits' \in [Exits -> Exit \cup {NoExit}]
    BY <1>8, <2>1, <2>4 DEF UpdateExit, TypeOK, Exit
  <2> QED
    BY <1>8, <2>3, <2>5 DEF UpdateExit, TypeOK, Call
<1>9. ASSUME NEW c \in Calls, UpdateEmployee(c) PROVE TypeOK'
  <2>1. calls[c].emp \in Employees
    BY <1>0, <1>9, CallFields DEF UpdateEmployee, UpdateCall
  <2>2. calls' \in [Calls -> Call]
    BY <1>0, <1>9, PutCall DEF UpdateEmployee, Return, Call
  <2>3. FollowedBy(calls[c].to) \in Statuses
    BY DEF FollowedBy, Statuses
  <2> QED
    BY <1>9, <2>1, <2>2, <2>3 DEF UpdateEmployee, SetStatus, ExitDate, TypeOK, Call
<1>10. ASSUME NEW c \in Calls, Fail(c) PROVE TypeOK'
  <2>1. calls[c].emp \in Employees
    BY <1>0, <1>10, CallOfEmployee DEF Fail
  <2>2. calls' \in [Calls -> Call]
    BY <1>0, <1>10, PutCall DEF Fail, Return, Call
  <2> QED
    BY <1>10, <1>f, <2>1, <2>2 DEF Fail, TypeOK, Call
<1>11. CASE UNCHANGED vars
  BY <1>11 DEF vars, TypeOK
<1> QED
  BY <1>1, <1>2, <1>3, <1>4, <1>5, <1>6, <1>7, <1>8, <1>9, <1>10, <1>11 DEF Next

\* No step turns an exit over to another employee or removes one.
LEMMA ExitsStay ==
  ASSUME TypeOK, Recorded, [Next]_vars, NEW x \in Exits, exits[x] # NoExit
  PROVE  exits'[x] # NoExit /\ exits'[x].emp = exits[x].emp
<1>0. calls \in [Calls -> Call] /\ exits[x] \in Exit
  BY DEF TypeOK, Call
<1>1. ASSUME NEW c \in Calls, NEW y \in Exits, InitiateRecord(c, y)
      PROVE  exits'[x] = exits[x]
  BY <1>1 DEF InitiateRecord, TypeOK
<1>2. ASSUME NEW c \in Calls, InitiateTasks(c) \/ UpdateExit(c)
      PROVE  exits'[x] # NoExit /\ exits'[x].emp = exits[x].emp
  <2>1. calls[c].exit \in Exits
    BY <1>0, <1>2, CallFields DEF InitiateTasks, UpdateExit, RecordedCall, UpdateCall
  <2>2. \/ exits'[x] = exits[x]
        \/ exits'[x] = [exits[x] EXCEPT !.checklist = TRUE]
        \/ exits'[x] = [exits[x] EXCEPT !.status = calls[c].to]
    BY <1>2, <2>1 DEF InitiateTasks, UpdateExit, TypeOK
  <2>3. DOMAIN exits'[x] = {"emp", "status", "checklist"} /\ exits'[x].emp = exits[x].emp
    BY <1>0, <2>2 DEF Exit
  <2>4. DOMAIN NoExit = {"status"}
    BY DEF NoExit
  <2> QED
    BY <2>3, <2>4
<1>3. CASE UNCHANGED exits
  BY <1>3
<1> QED
  BY <1>1, <1>2, <1>3
  DEF Next, vars, Create, AcceptInvite, ChangeStatusStart, ChangeStatusUpdate, InitiateStart,
      InitiateNotice, UpdateStart, UpdateEmployee, Fail

\* Every step keeps the calls working on exits of their employees.
LEMMA RecordedStep == TypeOK /\ Recorded /\ [Next]_vars => Recorded'
<1> SUFFICES ASSUME TypeOK, Recorded, [Next]_vars, NEW d \in Calls,
                    calls'[d].pc \in {"tasks", "notice", "exit", "follow"}
             PROVE  /\ exits'[calls'[d].exit] # NoExit
                    /\ exits'[calls'[d].exit].emp = calls'[d].emp
  BY DEF Recorded
<1>0. calls \in [Calls -> Call]
  BY DEF TypeOK, Call
<1> DEFINE Kept == /\ calls[d].pc \in {"tasks", "notice", "exit", "follow"}
                   /\ calls'[d].exit = calls[d].exit /\ calls'[d].emp = calls[d].emp
<1>1. ASSUME Kept PROVE exits'[calls'[d].exit] # NoExit /\ exits'[calls'[d].exit].emp = calls'[d].emp
  <2>1. calls[d].exit \in Exits
    BY <1>0, <1>1, CallFields DEF RecordedCall, UpdateCall
  <2> QED
    BY <1>1, <2>1, ExitsStay DEF Recorded
<1>2. CASE calls'[d] = calls[d]
  BY <1>1, <1>2
<1>3. ASSUME NEW c \in Calls, NEW x \in Exits, InitiateRecord(c, x), c = d
      PROVE  exits'[calls'[d].exit] # NoExit /\ exits'[calls'[d].exit].emp = calls'[d].emp
  <2>1. calls'[d].exit = x /\ calls'[d].emp = calls[d].emp
    BY <1>0, <1>3 DEF InitiateRecord, Put
  <2>2. exits'[x] = [emp |-> calls[d].emp, status |-> "INITIATED", checklist |-> FALSE]
    BY <1>3 DEF InitiateRecord, TypeOK
  <2> QED
    BY <2>1, <2>2 DEF NoExit
<1>4. ASSUME NEW c \in Calls, InitiateTasks(c), c = d PROVE Kept
  BY <1>0, <1>4 DEF InitiateTasks, Put
<1>5. ASSUME NEW c \in Calls, NEW x \in Exits, NEW to \in ExitStatuses, UpdateStart(c, x, to), c = d
      PROVE  exits'[calls'[d].exit] # NoExit /\ exits'[calls'[d].exit].emp = calls'[d].emp
  <2>1. calls'[d].exit = x /\ calls'[d].emp = exits[x].emp
    BY <1>0, <1>5 DEF UpdateStart, Start
  <2> QED
    BY <1>5, <2>1 DEF UpdateStart
<1>6. ASSUME NEW c \in Calls, UpdateExit(c), c = d PROVE Kept
  BY <1>0, <1>6 DEF UpdateExit, Put, Return, Idle
<1>7. ASSUME NEW c \in Calls, c = d,
             \/ \E e \in Employees, to \in Statuses : ChangeStatusStart(c, e, to)
             \/ \E e \in Employees : InitiateStart(c, e)
             \/ ChangeStatusUpdate(c) \/ InitiateNotice(c) \/ UpdateEmployee(c) \/ Fail(c)
      PROVE  FALSE
  BY <1>0, <1>7 DEF ChangeStatusStart, InitiateStart, Start, ChangeStatusUpdate, InitiateNotice,
     UpdateEmployee, Fail, Put, Return, Idle
<1> QED
  <2>1. ASSUME NEW c \in Calls, c # d,
               \/ \E e \in Employees, to \in Statuses : ChangeStatusStart(c, e, to)
               \/ ChangeStatusUpdate(c)
               \/ \E e \in Employees : InitiateStart(c, e)
               \/ \E x \in Exits : InitiateRecord(c, x)
               \/ InitiateTasks(c) \/ InitiateNotice(c)
               \/ \E x \in Exits, to \in ExitStatuses : UpdateStart(c, x, to)
               \/ UpdateExit(c) \/ UpdateEmployee(c) \/ Fail(c)
        PROVE  calls'[d] = calls[d]
    BY <1>0, <2>1 DEF ChangeStatusStart, InitiateStart, UpdateStart, Start, ChangeStatusUpdate,
       InitiateRecord, InitiateTasks, InitiateNotice, UpdateExit, UpdateEmployee, Fail, Put, Return
  <2>2. ASSUME \/ UNCHANGED vars \/ \E e \in Employees : Create(e) \/ AcceptInvite(e)
        PROVE  calls'[d] = calls[d]
    BY <2>2 DEF vars, Create, AcceptInvite
  <2> QED
    BY <1>1, <1>2, <1>3, <1>4, <1>5, <1>6, <1>7, <2>1, <2>2 DEF Next

\* TypeOK and its strengthening hold together of every reachable state.
LEMMA TypeAndRecorded == Spec => [](TypeOK /\ Recorded)
<1>1. Init => TypeOK /\ Recorded
  BY MaxFailuresAssumption DEF Init, TypeOK, Recorded, Idle
<1> QED
  BY <1>1, TypeStep, RecordedStep, PTL DEF Spec

\* TypeOK holds of every reachable state: rows and calls keep the shape the
\* schema and the code give them.
THEOREM TypeCorrect == Spec => []TypeOK
  BY TypeAndRecorded, PTL

----------------------------------------------------------------------------

\* Every step that makes an employee EXITED sets the date of exit, and no step
\* takes the date away.
LEMMA DateStep == TypeOK /\ ExitedHasDate /\ [Next]_vars => ExitedHasDate'
<1> SUFFICES ASSUME TypeOK, ExitedHasDate, [Next]_vars,
                    NEW e \in Employees, status'[e] = "EXITED"
             PROVE  exitDate'[e]
  BY DEF ExitedHasDate
<1>0. calls \in [Calls -> Call]
  BY DEF TypeOK, Call
<1>t. status \in [Employees -> Statuses \cup {"NONE"}] /\ exitDate \in [Employees -> BOOLEAN]
  BY DEF TypeOK
<1>1. ASSUME NEW f \in Employees, Create(f) \/ AcceptInvite(f) PROVE exitDate'[e]
  BY <1>1, <1>t DEF Create, AcceptInvite, SetStatus, ExitedHasDate
<1>2. ASSUME NEW c \in Calls, ChangeStatusUpdate(c) PROVE exitDate'[e]
  BY <1>2, <1>t DEF ChangeStatusUpdate, SetStatus, ExitDate, ExitedHasDate
<1>3. ASSUME NEW c \in Calls, InitiateNotice(c) PROVE exitDate'[e]
  BY <1>3, <1>t DEF InitiateNotice, SetStatus, ExitedHasDate
<1>4. ASSUME NEW c \in Calls, UpdateEmployee(c) PROVE exitDate'[e]
  BY <1>4, <1>t DEF UpdateEmployee, SetStatus, ExitDate, ExitedHasDate
<1>5. CASE UNCHANGED <<status, exitDate>>
  BY <1>5 DEF ExitedHasDate
<1> QED
  BY <1>1, <1>2, <1>3, <1>4, <1>5
  DEF Next, vars, ChangeStatusStart, InitiateStart, InitiateRecord, InitiateTasks, UpdateStart,
      UpdateExit, Fail

\* An employee who is EXITED has a date of exit, however the calls of
\* changeStatus and of offboarding overlap or fail.
THEOREM ExitDated == Spec => []ExitedHasDate
<1>1. Init => ExitedHasDate
  BY DEF Init, ExitedHasDate
<1> QED
  BY <1>1, TypeCorrect, DateStep, PTL DEF Spec

----------------------------------------------------------------------------
(* Exits in step with the status *)

Undisturbed == Employees \ (overlapped \cup unoffered)

ExitsIn(e, st) == {x \in Exits : exits[x].status = st /\ exits[x].emp = e}
Unlisted(e) == {x \in Exits : exits[x] # NoExit /\ exits[x].emp = e /\ ~exits[x].checklist}

\* Calls about an employee come one at a time.
Exclusive == \A e \in Employees \ overlapped : \A c, d \in InFlight(e) : c = d

\* The employee between calls.
Settled(e) ==
  /\ OpenExits(e) = {} \/ (status[e] = "ON_NOTICE" /\ \E x \in Exits : OpenExits(e) = {x})
  /\ ExitsIn(e, "COMPLETED") # {} => status[e] = "EXITED"
  /\ Unlisted(e) = {}

\* The employee while a call is at each of its queries.
AtQuery(e, call) ==
  /\ call.pc = "status" => call.to \in Transitions(status[e]) /\ OpenExits(e) = {}
  /\ call.pc = "record" => status[e] = "ACTIVE" /\ OpenExits(e) = {}
  /\ call.pc \in {"tasks", "notice"} => status[e] = "ACTIVE" /\ OpenExits(e) = {call.exit}
  /\ call.pc = "exit" => status[e] = "ON_NOTICE" /\ OpenExits(e) = {call.exit}
  /\ call.pc = "follow" => status[e] = "ON_NOTICE" /\ OpenExits(e) = {}
  /\ ExitsIn(e, "COMPLETED") =
       IF call.pc = "follow" /\ call.to = "COMPLETED" THEN {call.exit} ELSE {}
  /\ Unlisted(e) = IF call.pc = "tasks" THEN {call.exit} ELSE {}

InStepOf(e) ==
  /\ InFlight(e) = {} => Settled(e)
  /\ \A c \in InFlight(e) : AtQuery(e, calls[c])

\* The inductive invariant.  It speaks of the employee between any two queries of
\* a call, which ExitsMatchStatus does not.
InStep == TypeOK /\ Recorded /\ Exclusive /\ \A e \in Undisturbed : InStepOf(e)

\* A call that starts alone finds the employee settled and is its only one.
LEMMA StartAlone ==
  ASSUME TypeOK, NEW c \in Calls, NEW e \in Employees, NEW call \in Call, NEW offered \in BOOLEAN,
         Start(c, e, call, offered), call # Idle, call.emp = e
  PROVE  /\ e \notin overlapped' => InFlight(e) = {} /\ InFlight(e)' = {c}
         /\ calls'[c] = call
         /\ \A f \in Employees \ {e} : InFlight(f)' = InFlight(f)
         /\ overlapped \subseteq overlapped'
<1>1. calls' = [calls EXCEPT ![c] = call] /\ calls[c] = Idle /\ calls'[c] = call
  BY DEF Start, TypeOK
<1>2. InFlight(e)' = InFlight(e) \cup {c}
  BY <1>1 DEF InFlight, TypeOK
<1>3. ASSUME NEW f \in Employees \ {e} PROVE InFlight(f)' = InFlight(f)
  BY <1>1 DEF InFlight, TypeOK
<1> QED
  BY <1>1, <1>2, <1>3 DEF Start

\* A call that goes on or returns was the only one of its employee.
LEMMA MoveAlone ==
  ASSUME TypeOK, Exclusive, NEW c \in Calls, NEW call \in Call, calls[c] # Idle, Put(c, call),
         NEW e \in Employees, e = calls[c].emp, call # Idle => call.emp = e
  PROVE  /\ e \notin overlapped =>
              InFlight(e) = {c} /\ InFlight(e)' = IF call = Idle THEN {} ELSE {c}
         /\ calls'[c] = call
         /\ \A f \in Employees \ {e} : InFlight(f)' = InFlight(f)
<1>1. calls' = [calls EXCEPT ![c] = call] /\ calls'[c] = call
  BY DEF Put, TypeOK
<1>2. ASSUME e \notin overlapped PROVE InFlight(e) = {c}
  BY <1>2 DEF InFlight, Exclusive
<1>3. InFlight(e)' = IF call = Idle THEN InFlight(e) \ {c} ELSE InFlight(e) \cup {c}
  BY <1>1 DEF InFlight, TypeOK
<1>4. ASSUME NEW f \in Employees \ {e} PROVE InFlight(f)' = InFlight(f)
  BY <1>1, <1>4 DEF InFlight, TypeOK
<1> QED
  BY <1>1, <1>2, <1>3, <1>4

\* Steps that touch neither the employee, nor its calls, nor its exits.
LEMMA Unconcerned ==
  ASSUME NEW e \in Employees, InStepOf(e), status'[e] = status[e],
         InFlight(e)' = InFlight(e), \A d \in InFlight(e) : calls'[d] = calls[d],
         \A x \in Exits :
           \/ exits'[x] = exits[x]
           \/ /\ exits[x] # NoExit => exits[x].emp # e
              /\ exits'[x] # NoExit => exits'[x].emp # e
  PROVE  InStepOf(e)'
<1>1. /\ OpenExits(e)' = OpenExits(e)
      /\ ExitsIn(e, "COMPLETED")' = ExitsIn(e, "COMPLETED")
      /\ Unlisted(e)' = Unlisted(e)
  BY DEF OpenExits, ExitsIn, Unlisted, Open, NoExit
<1>2. Settled(e) => Settled(e)'
  BY <1>1 DEF Settled
<1>3. ASSUME NEW d \in InFlight(e), AtQuery(e, calls[d]) PROVE AtQuery(e, calls[d])'
  BY <1>1, <1>3 DEF AtQuery
<1> QED
  BY <1>2, <1>3 DEF InStepOf

\* A row of an exit is not the absence of one.
LEMMA NoExitIsNoExit == NoExit \notin Exit
<1>1. \A r \in Exit : DOMAIN r = {"emp", "status", "checklist"}
  BY DEF Exit
<1>2. DOMAIN NoExit = {"status"}
  BY DEF NoExit
<1> QED
  BY <1>1, <1>2

\* How the sets of exits of an employee change with one of them.
LEMMA OneExitChanges ==
  ASSUME NEW e \in Employees, NEW x \in Exits, exits[x] # NoExit, exits[x].emp = e,
         exits'[x] # NoExit, exits'[x].emp = e, \A y \in Exits \ {x} : exits'[y] = exits[y]
  PROVE  /\ OpenExits(e)' = IF exits'[x].status \in Open THEN OpenExits(e) \cup {x}
                                                       ELSE OpenExits(e) \ {x}
         /\ ExitsIn(e, "COMPLETED")' = IF exits'[x].status = "COMPLETED"
                                         THEN ExitsIn(e, "COMPLETED") \cup {x}
                                         ELSE ExitsIn(e, "COMPLETED") \ {x}
         /\ Unlisted(e)' = IF exits'[x].checklist THEN Unlisted(e) \ {x} ELSE Unlisted(e) \cup {x}
<1>1. OpenExits(e)' = IF exits'[x].status \in Open THEN OpenExits(e) \cup {x} ELSE OpenExits(e) \ {x}
  BY DEF OpenExits
<1>2. ExitsIn(e, "COMPLETED")' = IF exits'[x].status = "COMPLETED"
        THEN ExitsIn(e, "COMPLETED") \cup {x} ELSE ExitsIn(e, "COMPLETED") \ {x}
  BY DEF ExitsIn
<1>3. Unlisted(e)' = IF exits'[x].checklist THEN Unlisted(e) \ {x} ELSE Unlisted(e) \cup {x}
  <2>1. CASE exits'[x].checklist
    BY <2>1 DEF Unlisted
  <2>2. CASE ~exits'[x].checklist
    BY <2>2 DEF Unlisted
  <2> QED
    BY <2>1, <2>2
<1> QED
  BY <1>1, <1>2, <1>3

\* What is left to show of a step that concerns e only.
LEMMA OnlyConcerns ==
  ASSUME InStep, NEW e \in Employees,
         \A f \in Employees \ {e} :
           /\ InFlight(f)' = InFlight(f) /\ status'[f] = status[f]
           /\ \A d \in InFlight(f) : calls'[d] = calls[d],
         \A x \in Exits :
           \/ exits'[x] = exits[x]
           \/ /\ exits[x] # NoExit => exits[x].emp = e
              /\ exits'[x] # NoExit => exits'[x].emp = e,
         overlapped \subseteq overlapped', unoffered \subseteq unoffered',
         e \notin overlapped' => \A c, d \in InFlight(e)' : c = d,
         e \in Undisturbed' => InStepOf(e)'
  PROVE  Exclusive' /\ \A f \in Undisturbed' : InStepOf(f)'
<1>1. ASSUME NEW f \in Employees \ overlapped', NEW c \in InFlight(f)', NEW d \in InFlight(f)'
      PROVE  c = d
  BY <1>1 DEF InStep, Exclusive
<1>2. ASSUME NEW f \in Undisturbed' PROVE InStepOf(f)'
  <2>1. CASE f # e
    <3>1. f \in Undisturbed /\ f \in Employees /\ InStepOf(f)
      BY <1>2 DEF Undisturbed, InStep
    <3> QED
      BY <2>1, <3>1, Unconcerned
  <2> QED
    BY <1>2, <2>1
<1> QED
  BY <1>1, <1>2 DEF Exclusive

\* create and acceptInvite.
LEMMA CreateInStep ==
  ASSUME InStep, NEW e \in Employees, Create(e) \/ AcceptInvite(e)
  PROVE  Exclusive' /\ \A f \in Undisturbed' : InStepOf(f)'
<1>1. /\ calls' = calls /\ exits' = exits
      /\ overlapped \subseteq overlapped' /\ unoffered \subseteq unoffered'
      /\ status[e] \in {"NONE", "INVITED"} /\ status'[e] \in {"INVITED", "ACTIVE"}
      /\ \A f \in Employees \ {e} : status'[f] = status[f]
  BY DEF InStep, TypeOK, Create, AcceptInvite, SetStatus
<1>2. \A f \in Employees : InFlight(f)' = InFlight(f)
  BY <1>1 DEF InFlight
<1>3. ASSUME e \in Undisturbed' PROVE InFlight(e) = {}
  <2>1. CASE Create(e)
    <3>1. e \in Undisturbed /\ status[e] = "NONE" /\ InStepOf(e)
      BY <1>3, <2>1 DEF Create, Undisturbed, InStep
    <3>2. ASSUME NEW c \in InFlight(e) PROVE FALSE
      <4>1. AtQuery(e, calls[c]) /\ calls[c] \in Call /\ calls[c] # Idle
        BY <3>1 DEF InStepOf, InFlight, InStep, TypeOK, Call
      <4>2. calls[c].pc \in {"status", "record", "tasks", "notice", "exit", "follow"}
        BY <4>1 DEF Call, StatusCall, InitiateCall, RecordedCall, UpdateCall
      <4> QED
        BY <3>1, <4>1, <4>2 DEF AtQuery, Transitions
    <3> QED
      BY <3>2
  <2>2. CASE AcceptInvite(e)
    BY <1>3, <2>2 DEF AcceptInvite, Undisturbed
  <2> QED
    BY <2>1, <2>2
<1>4. ASSUME e \in Undisturbed' PROVE InStepOf(e)'
  <2>1. Settled(e)
    BY <1>1, <1>3, <1>4 DEF InStep, InStepOf, Undisturbed
  <2>2. OpenExits(e)' = {} /\ ExitsIn(e, "COMPLETED")' = {} /\ Unlisted(e)' = {}
    BY <1>1, <2>1 DEF Settled, OpenExits, ExitsIn, Unlisted
  <2> QED
    BY <1>2, <1>3, <1>4, <2>2 DEF InStepOf, Settled
<1>5. e \notin overlapped' => \A c, d \in InFlight(e)' : c = d
  BY <1>1, <1>2 DEF InStep, Exclusive
<1> QED
  BY <1>1, <1>2, <1>4, <1>5, OnlyConcerns

\* changeStatus starts: the transition it found is still one while it waits.
LEMMA ChangeStartInStep ==
  ASSUME InStep, NEW c \in Calls, NEW e \in Employees, NEW to \in Statuses, ChangeStatusStart(c, e, to)
  PROVE  Exclusive' /\ \A f \in Undisturbed' : InStepOf(f)'
<1> DEFINE call == [pc |-> "status", emp |-> e, to |-> to]
<1>1. call \in Call /\ call # Idle
  BY DEF Call, StatusCall, Idle
<1>2. /\ Start(c, e, call, OpenExits(e) = {}) /\ to \in Transitions(status[e])
      /\ status' = status /\ exits' = exits
  BY DEF ChangeStatusStart
<1>3. /\ e \notin overlapped' => InFlight(e) = {} /\ InFlight(e)' = {c}
      /\ calls'[c] = call
      /\ \A f \in Employees \ {e} : InFlight(f)' = InFlight(f)
      /\ overlapped \subseteq overlapped'
  BY <1>1, <1>2, StartAlone DEF InStep
<1>4. ASSUME e \in Undisturbed' PROVE InStepOf(e)'
  <2>1. /\ e \in Undisturbed /\ e \notin overlapped' /\ OpenExits(e) = {}
        /\ Settled(e)
    BY <1>2, <1>3, <1>4 DEF Undisturbed, Start, InStep, InStepOf
  <2>2. ExitsIn(e, "COMPLETED") = {} /\ Unlisted(e) = {}
    BY <1>2, <2>1 DEF Settled, Transitions
  <2>3. AtQuery(e, call)'
    BY <1>2, <2>1, <2>2 DEF AtQuery, OpenExits, ExitsIn, Unlisted
  <2> QED
    BY <1>3, <2>1, <2>3 DEF InStepOf
<1>5. \A f \in Employees \ {e} : \A d \in InFlight(f) : calls'[d] = calls[d]
  BY <1>2 DEF Start, InFlight, InStep, TypeOK
<1> QED
  BY <1>2, <1>3, <1>4, <1>5, OnlyConcerns DEF Start

\* changeStatus writes the transition it was let through for.
LEMMA ChangeUpdateInStep ==
  ASSUME InStep, NEW c \in Calls, ChangeStatusUpdate(c)
  PROVE  Exclusive' /\ \A f \in Undisturbed' : InStepOf(f)'
<1>1. PICK e \in Employees : e = calls[c].emp
  BY CallFields DEF ChangeStatusUpdate, InStep, TypeOK, Call, StatusCall
<1>2. /\ calls[c].pc = "status" /\ calls[c] # Idle /\ Put(c, Idle) /\ Idle \in Call
      /\ exits' = exits /\ overlapped' = overlapped /\ unoffered' = unoffered
      /\ status' = [status EXCEPT ![e] = calls[c].to] /\ status \in [Employees -> Statuses \cup {"NONE"}]
  BY <1>1 DEF ChangeStatusUpdate, SetStatus, Return, Idle, Call, InStep, TypeOK
<1>3. /\ e \notin overlapped => InFlight(e) = {c} /\ InFlight(e)' = {}
      /\ \A f \in Employees \ {e} : InFlight(f)' = InFlight(f)
  BY <1>1, <1>2, MoveAlone DEF InStep
<1>4. ASSUME e \in Undisturbed' PROVE InStepOf(e)'
  <2>1. e \in Undisturbed /\ AtQuery(e, calls[c])
    BY <1>2, <1>3, <1>4 DEF Undisturbed, InStep, InStepOf
  <2>2. OpenExits(e) = {} /\ ExitsIn(e, "COMPLETED") = {} /\ Unlisted(e) = {}
    BY <1>2, <2>1 DEF AtQuery
  <2>3. Settled(e)'
    BY <1>2, <2>2 DEF Settled, OpenExits, ExitsIn, Unlisted
  <2> QED
    BY <1>2, <1>3, <2>1, <2>3 DEF InStepOf, Undisturbed
<1>5. \A f \in Employees \ {e} : \A d \in InFlight(f) : calls'[d] = calls[d]
  BY <1>1, <1>2 DEF Put, InFlight, InStep, TypeOK
<1> QED
  BY <1>2, <1>3, <1>4, <1>5, OnlyConcerns

\* initiate starts for an employee who is ACTIVE and so has no open exit.
LEMMA InitiateStartInStep ==
  ASSUME InStep, NEW c \in Calls, NEW e \in Employees, InitiateStart(c, e)
  PROVE  Exclusive' /\ \A f \in Undisturbed' : InStepOf(f)'
<1> DEFINE call == [pc |-> "record", emp |-> e]
<1>1. call \in Call /\ call # Idle
  BY DEF Call, InitiateCall, Idle
<1>2. /\ Start(c, e, call, PageOffersExitOf(e)) /\ status' = status /\ exits' = exits
  BY DEF InitiateStart
<1>3. /\ e \notin overlapped' => InFlight(e) = {} /\ InFlight(e)' = {c}
      /\ calls'[c] = call
      /\ \A f \in Employees \ {e} : InFlight(f)' = InFlight(f)
      /\ overlapped \subseteq overlapped'
  BY <1>1, <1>2, StartAlone DEF InStep, PageOffersExitOf
<1>4. ASSUME e \in Undisturbed' PROVE InStepOf(e)'
  <2>1. e \in Undisturbed /\ e \notin overlapped' /\ status[e] = "ACTIVE" /\ Settled(e)
    BY <1>2, <1>3, <1>4 DEF Undisturbed, Start, InStep, InStepOf, PageOffersExitOf
  <2>2. OpenExits(e) = {} /\ ExitsIn(e, "COMPLETED") = {} /\ Unlisted(e) = {}
    BY <2>1 DEF Settled
  <2>3. AtQuery(e, call)'
    BY <1>2, <2>1, <2>2 DEF AtQuery, OpenExits, ExitsIn, Unlisted
  <2> QED
    BY <1>3, <2>1, <2>3 DEF InStepOf
<1>5. \A f \in Employees \ {e} : \A d \in InFlight(f) : calls'[d] = calls[d]
  BY <1>2 DEF Start, InFlight, InStep, TypeOK
<1> QED
  BY <1>2, <1>3, <1>4, <1>5, OnlyConcerns DEF Start

\* initiate stores the exit, the only open one, and owes it a checklist.
LEMMA RecordInStep ==
  ASSUME InStep, NEW c \in Calls, NEW x \in Exits, InitiateRecord(c, x)
  PROVE  Exclusive' /\ \A f \in Undisturbed' : InStepOf(f)'
<1>1. PICK e \in Employees : e = calls[c].emp
  BY CallFields DEF InitiateRecord, InStep, TypeOK, Call, InitiateCall
<1> DEFINE call == [pc |-> "tasks", emp |-> e, exit |-> x]
           exit == [emp |-> e, status |-> "INITIATED", checklist |-> FALSE]
<1>2. /\ calls[c].pc = "record" /\ calls[c] # Idle /\ Put(c, call) /\ call \in Call /\ call # Idle
      /\ exits[x] = NoExit /\ exits'[x] = exit
      /\ \A y \in Exits \ {x} : exits'[y] = exits[y]
      /\ status' = status /\ overlapped' = overlapped /\ unoffered' = unoffered
  BY <1>1 DEF InitiateRecord, Idle, Call, RecordedCall, InStep, TypeOK
<1>3. /\ e \notin overlapped => InFlight(e) = {c} /\ InFlight(e)' = {c}
      /\ calls'[c] = call
      /\ \A f \in Employees \ {e} : InFlight(f)' = InFlight(f)
  BY <1>1, <1>2, MoveAlone DEF InStep
<1>4. ASSUME e \in Undisturbed' PROVE InStepOf(e)'
  <2>1. e \in Undisturbed /\ AtQuery(e, calls[c])
    BY <1>2, <1>3, <1>4 DEF Undisturbed, InStep, InStepOf
  <2>2. /\ OpenExits(e) = {} /\ ExitsIn(e, "COMPLETED") = {} /\ Unlisted(e) = {}
        /\ status[e] = "ACTIVE"
    BY <1>2, <2>1 DEF AtQuery
  <2>3. OpenExits(e)' = {x} /\ ExitsIn(e, "COMPLETED")' = {} /\ Unlisted(e)' = {x}
    <3>1. exit.status = "INITIATED" /\ exit.emp = e /\ exit.checklist = FALSE /\ exit # NoExit
      BY DEF NoExit
    <3> QED
      BY <1>2, <2>2, <3>1 DEF OpenExits, ExitsIn, Unlisted, Open
  <2>4. AtQuery(e, call)'
    BY <1>2, <2>2, <2>3 DEF AtQuery
  <2> QED
    BY <1>2, <1>3, <2>1, <2>4 DEF InStepOf, Undisturbed
<1>5. \A f \in Employees \ {e} : \A d \in InFlight(f) : calls'[d] = calls[d]
  BY <1>1, <1>2 DEF Put, InFlight, InStep, TypeOK
<1>6. exits'[x].emp = e
  BY <1>2
<1> QED
  BY <1>2, <1>3, <1>4, <1>5, <1>6, OnlyConcerns

\* initiate stores the checklist of the exit it has recorded.
LEMMA TasksInStep ==
  ASSUME InStep, NEW c \in Calls, InitiateTasks(c)
  PROVE  Exclusive' /\ \A f \in Undisturbed' : InStepOf(f)'
<1>1. PICK e \in Employees, x \in Exits : e = calls[c].emp /\ x = calls[c].exit
  BY CallFields DEF InitiateTasks, InStep, TypeOK, Call, RecordedCall
<1> DEFINE call == [pc |-> "notice", emp |-> e, exit |-> x]
<1>2. /\ calls[c].pc = "tasks" /\ calls[c] # Idle /\ Put(c, call) /\ call \in Call /\ call # Idle
      /\ exits[x] \in Exit /\ exits[x].emp = e
      /\ exits'[x] = [exits[x] EXCEPT !.checklist = TRUE]
      /\ \A y \in Exits \ {x} : exits'[y] = exits[y]
      /\ status' = status /\ overlapped' = overlapped /\ unoffered' = unoffered
  <2>1. exits[x] \in Exit /\ exits[x].emp = e
    BY <1>1 DEF InitiateTasks, InStep, TypeOK, Recorded
  <2>2. call \in Call /\ call # Idle
    BY DEF Call, RecordedCall, Idle
  <2>3. /\ calls[c].pc = "tasks" /\ calls[c] # Idle /\ Put(c, call)
        /\ exits' = [exits EXCEPT ![x].checklist = TRUE]
        /\ status' = status /\ overlapped' = overlapped /\ unoffered' = unoffered
    BY <1>1 DEF InitiateTasks, Idle
  <2>4. /\ exits'[x] = [exits[x] EXCEPT !.checklist = TRUE]
        /\ \A y \in Exits \ {x} : exits'[y] = exits[y]
    BY <2>3 DEF InStep, TypeOK
  <2> QED
    BY <2>1, <2>2, <2>3, <2>4
<1>3. /\ e \notin overlapped => InFlight(e) = {c} /\ InFlight(e)' = {c}
      /\ calls'[c] = call
      /\ \A f \in Employees \ {e} : InFlight(f)' = InFlight(f)
  BY <1>1, <1>2, MoveAlone DEF InStep
<1>4. /\ exits'[x].emp = e /\ exits'[x].status = exits[x].status /\ exits'[x].checklist
      /\ exits[x] # NoExit /\ exits'[x] # NoExit
  BY <1>2, NoExitIsNoExit DEF Exit
<1>5. ASSUME e \in Undisturbed' PROVE InStepOf(e)'
  <2>1. e \in Undisturbed /\ AtQuery(e, calls[c])
    BY <1>2, <1>3, <1>5 DEF Undisturbed, InStep, InStepOf
  <2>2. /\ OpenExits(e) = {x} /\ ExitsIn(e, "COMPLETED") = {} /\ Unlisted(e) = {x}
        /\ status[e] = "ACTIVE"
    BY <1>1, <1>2, <2>1 DEF AtQuery
  <2>3. exits'[x].status \in Open /\ exits'[x].status # "COMPLETED"
    BY <1>4, <2>2 DEF OpenExits, Open
  <2>4. OpenExits(e)' = {x} /\ ExitsIn(e, "COMPLETED")' = {} /\ Unlisted(e)' = {}
    BY <1>2, <1>4, <2>2, <2>3, OneExitChanges
  <2>5. AtQuery(e, call)'
    BY <1>2, <2>2, <2>4 DEF AtQuery
  <2> QED
    BY <1>2, <1>3, <2>1, <2>5 DEF InStepOf, Undisturbed
<1>6. \A f \in Employees \ {e} : \A d \in InFlight(f) : calls'[d] = calls[d]
  BY <1>1, <1>2 DEF Put, InFlight, InStep, TypeOK
<1> QED
  BY <1>2, <1>3, <1>4, <1>5, <1>6, OnlyConcerns

\* initiate turns the employee ON_NOTICE: settled, with one open exit.
LEMMA NoticeInStep ==
  ASSUME InStep, NEW c \in Calls, InitiateNotice(c)
  PROVE  Exclusive' /\ \A f \in Undisturbed' : InStepOf(f)'
<1>1. PICK e \in Employees, x \in Exits : e = calls[c].emp /\ x = calls[c].exit
  BY CallFields DEF InitiateNotice, InStep, TypeOK, Call, RecordedCall
<1>2. /\ calls[c].pc = "notice" /\ calls[c] # Idle /\ Put(c, Idle) /\ Idle \in Call
      /\ status' = [status EXCEPT ![e] = "ON_NOTICE"] /\ status \in [Employees -> Statuses \cup {"NONE"}]
      /\ exits' = exits /\ overlapped' = overlapped /\ unoffered' = unoffered
  BY <1>1 DEF InitiateNotice, SetStatus, Return, Idle, Call, InStep, TypeOK
<1>3. /\ e \notin overlapped => InFlight(e) = {c} /\ InFlight(e)' = {}
      /\ \A f \in Employees \ {e} : InFlight(f)' = InFlight(f)
  BY <1>1, <1>2, MoveAlone DEF InStep
<1>4. ASSUME e \in Undisturbed' PROVE InStepOf(e)'
  <2>1. e \in Undisturbed /\ AtQuery(e, calls[c])
    BY <1>2, <1>3, <1>4 DEF Undisturbed, InStep, InStepOf
  <2>2. OpenExits(e) = {x} /\ ExitsIn(e, "COMPLETED") = {} /\ Unlisted(e) = {}
    BY <1>1, <1>2, <2>1 DEF AtQuery
  <2>3. OpenExits(e)' = {x} /\ ExitsIn(e, "COMPLETED")' = {} /\ Unlisted(e)' = {}
    BY <1>2, <2>2 DEF OpenExits, ExitsIn, Unlisted
  <2>4. Settled(e)'
    BY <1>1, <1>2, <2>3 DEF Settled
  <2> QED
    BY <1>2, <1>3, <2>1, <2>4 DEF InStepOf, Undisturbed
<1>5. \A f \in Employees \ {e} : \A d \in InFlight(f) : calls'[d] = calls[d]
  BY <1>1, <1>2 DEF Put, InFlight, InStep, TypeOK
<1> QED
  BY <1>2, <1>3, <1>4, <1>5, OnlyConcerns

\* updateStatus starts on an exit that the page displays as open: it is the only
\* open one, and its employee is ON_NOTICE.
LEMMA UpdateStartInStep ==
  ASSUME InStep, NEW c \in Calls, NEW x \in Exits, NEW to \in ExitStatuses, UpdateStart(c, x, to)
  PROVE  Exclusive' /\ \A f \in Undisturbed' : InStepOf(f)'
<1>1. PICK e \in Employees : e = exits[x].emp
  BY DEF UpdateStart, InStep, TypeOK, Exit
<1> DEFINE call == [pc |-> "exit", emp |-> e, exit |-> x, to |-> to]
<1>2. call \in Call /\ call # Idle
  BY DEF Call, UpdateCall, Idle
<1>3. Start(c, e, call, PageOffers(x, to)) /\ status' = status /\ exits' = exits
  BY <1>1 DEF UpdateStart
<1>4. /\ e \notin overlapped' => InFlight(e) = {} /\ InFlight(e)' = {c}
      /\ calls'[c] = call
      /\ \A f \in Employees \ {e} : InFlight(f)' = InFlight(f)
      /\ overlapped \subseteq overlapped'
  BY <1>2, <1>3, StartAlone DEF InStep, PageOffers
<1>5. ASSUME e \in Undisturbed' PROVE InStepOf(e)'
  <2>1. e \in Undisturbed /\ e \notin overlapped' /\ PageOffers(x, to) /\ Settled(e)
    BY <1>3, <1>4, <1>5 DEF Undisturbed, Start, InStep, InStepOf
  <2>2. x \in OpenExits(e)
    BY <1>1, <2>1 DEF PageOffers, OpenExits, Open
  <2>3. /\ OpenExits(e) = {x} /\ ExitsIn(e, "COMPLETED") = {} /\ Unlisted(e) = {}
        /\ status[e] = "ON_NOTICE"
    BY <2>1, <2>2 DEF Settled
  <2>4. AtQuery(e, call)'
    BY <1>3, <2>3 DEF AtQuery, OpenExits, ExitsIn, Unlisted
  <2> QED
    BY <1>4, <2>1, <2>4 DEF InStepOf
<1>6. \A f \in Employees \ {e} : \A d \in InFlight(f) : calls'[d] = calls[d]
  BY <1>3 DEF Start, InFlight, InStep, TypeOK
<1> QED
  BY <1>3, <1>4, <1>5, <1>6, OnlyConcerns DEF Start

\* updateStatus writes the exit: it stays open, or the employee comes next.
LEMMA UpdateExitInStep ==
  ASSUME InStep, NEW c \in Calls, UpdateExit(c)
  PROVE  Exclusive' /\ \A f \in Undisturbed' : InStepOf(f)'
<1>1. PICK e \in Employees, x \in Exits, to \in ExitStatuses :
        e = calls[c].emp /\ x = calls[c].exit /\ to = calls[c].to
  BY CallFields DEF UpdateExit, InStep, TypeOK, Call, UpdateCall
<1> DEFINE next == [pc |-> "follow", emp |-> e, exit |-> x, to |-> to]
<1>2. next \in Call /\ next # Idle /\ Idle \in Call
  BY DEF Call, UpdateCall, Idle
<1>a. PICK call \in Call : call = IF to \in Open THEN Idle ELSE next
  BY <1>2
<1>3. /\ calls[c].pc = "exit" /\ calls[c] # Idle /\ Put(c, call)
      /\ exits[x] \in Exit /\ exits[x].emp = e
      /\ exits'[x] = [exits[x] EXCEPT !.status = to]
      /\ \A y \in Exits \ {x} : exits'[y] = exits[y]
      /\ status' = status /\ overlapped' = overlapped /\ unoffered' = unoffered
  <2>1. exits[x] \in Exit /\ exits[x].emp = e
    BY <1>1 DEF UpdateExit, InStep, TypeOK, Recorded
  <2> QED
    BY <1>1, <1>a, <2>1 DEF UpdateExit, Return, Idle, InStep, TypeOK
<1>4. /\ e \notin overlapped => InFlight(e) = {c} /\ InFlight(e)' = IF call = Idle THEN {} ELSE {c}
      /\ calls'[c] = call
      /\ \A f \in Employees \ {e} : InFlight(f)' = InFlight(f)
  <2>1. TypeOK /\ Exclusive /\ calls[c] # Idle /\ Put(c, call) /\ (call # Idle => call.emp = e)
    BY <1>a, <1>3 DEF InStep
  <2> QED
    BY <1>1, <2>1, MoveAlone
<1>5. /\ exits'[x].emp = e /\ exits'[x].status = to /\ exits'[x].checklist = exits[x].checklist
      /\ exits[x] # NoExit /\ exits'[x] # NoExit
  BY <1>3, NoExitIsNoExit DEF Exit
<1>6. ASSUME e \in Undisturbed' PROVE InStepOf(e)'
  <2>1. e \in Undisturbed /\ AtQuery(e, calls[c])
    BY <1>3, <1>4, <1>6 DEF Undisturbed, InStep, InStepOf
  <2>2. /\ OpenExits(e) = {x} /\ ExitsIn(e, "COMPLETED") = {} /\ Unlisted(e) = {}
        /\ status[e] = "ON_NOTICE"
    BY <1>1, <1>3, <2>1 DEF AtQuery
  <2>3. exits[x].checklist
    BY <1>3, <1>5, <2>2 DEF Unlisted
  <2>4. /\ OpenExits(e)' = IF to \in Open THEN {x} ELSE {}
        /\ ExitsIn(e, "COMPLETED")' = IF to = "COMPLETED" THEN {x} ELSE {}
        /\ Unlisted(e)' = {}
    <3>1. exits'[x].checklist /\ exits[x].emp = e /\ \A y \in Exits \ {x} : exits'[y] = exits[y]
      BY <1>3, <1>5, <2>3
    <3> QED
      BY <1>5, <2>2, <3>1, OneExitChanges
  <2>5. CASE to \in Open
    <3>1. Settled(e)'
      BY <1>3, <2>2, <2>4, <2>5 DEF Settled, Open
    <3> QED
      BY <1>a, <1>3, <1>4, <2>1, <2>5, <3>1 DEF InStepOf, Undisturbed
  <2>6. CASE to \notin Open
    <3>1. AtQuery(e, next)'
      BY <1>3, <2>2, <2>4, <2>6 DEF AtQuery
    <3> QED
      BY <1>a, <1>2, <1>3, <1>4, <2>1, <2>6, <3>1 DEF InStepOf, Undisturbed
  <2> QED
    BY <2>5, <2>6
<1>7. \A f \in Employees \ {e} : \A d \in InFlight(f) : calls'[d] = calls[d]
  BY <1>1, <1>3 DEF Put, InFlight, InStep, TypeOK
<1>8. e \notin overlapped' => \A a, b \in InFlight(e)' : a = b
  BY <1>3, <1>4
<1> QED
  BY <1>3, <1>4, <1>5, <1>6, <1>7, <1>8, OnlyConcerns

\* updateStatus writes the employee: EXITED if the exit is completed.
LEMMA UpdateEmployeeInStep ==
  ASSUME InStep, NEW c \in Calls, UpdateEmployee(c)
  PROVE  Exclusive' /\ \A f \in Undisturbed' : InStepOf(f)'
<1>1. PICK e \in Employees, x \in Exits, to \in ExitStatuses :
        e = calls[c].emp /\ x = calls[c].exit /\ to = calls[c].to
  BY CallFields DEF UpdateEmployee, InStep, TypeOK, Call, UpdateCall
<1>2. /\ calls[c].pc = "follow" /\ calls[c] # Idle /\ Put(c, Idle) /\ Idle \in Call
      /\ status' = [status EXCEPT ![e] = FollowedBy(to)]
      /\ status \in [Employees -> Statuses \cup {"NONE"}]
      /\ exits' = exits /\ overlapped' = overlapped /\ unoffered' = unoffered
  BY <1>1 DEF UpdateEmployee, SetStatus, Return, Idle, Call, InStep, TypeOK
<1>3. /\ e \notin overlapped => InFlight(e) = {c} /\ InFlight(e)' = {}
      /\ \A f \in Employees \ {e} : InFlight(f)' = InFlight(f)
  BY <1>1, <1>2, MoveAlone DEF InStep
<1>4. ASSUME e \in Undisturbed' PROVE InStepOf(e)'
  <2>1. e \in Undisturbed /\ AtQuery(e, calls[c])
    BY <1>2, <1>3, <1>4 DEF Undisturbed, InStep, InStepOf
  <2>2. /\ OpenExits(e) = {} /\ Unlisted(e) = {}
        /\ ExitsIn(e, "COMPLETED") # {} => to = "COMPLETED"
    BY <1>1, <1>2, <2>1 DEF AtQuery
  <2>3. /\ OpenExits(e)' = {} /\ Unlisted(e)' = {}
        /\ ExitsIn(e, "COMPLETED")' # {} => to = "COMPLETED"
    BY <1>2, <2>2 DEF OpenExits, ExitsIn, Unlisted
  <2>4. Settled(e)'
    BY <1>2, <2>3 DEF Settled, FollowedBy
  <2> QED
    BY <1>2, <1>3, <2>1, <2>4 DEF InStepOf, Undisturbed
<1>5. \A f \in Employees \ {e} : \A d \in InFlight(f) : calls'[d] = calls[d]
  BY <1>1, <1>2 DEF Put, InFlight, InStep, TypeOK
<1> QED
  BY <1>2, <1>3, <1>4, <1>5, OnlyConcerns

\* A call that is cut short disturbs its employee.
LEMMA FailInStep ==
  ASSUME InStep, NEW c \in Calls, Fail(c)
  PROVE  Exclusive' /\ \A f \in Undisturbed' : InStepOf(f)'
<1>1. PICK e \in Employees : e = calls[c].emp
  BY CallOfEmployee DEF Fail, InStep, TypeOK, Call
<1>2. /\ calls[c] # Idle /\ Put(c, Idle) /\ Idle \in Call /\ overlapped' = overlapped \cup {e}
      /\ status' = status /\ exits' = exits /\ unoffered' = unoffered
  BY <1>1 DEF Fail, Return, Call
<1>3. \A f \in Employees \ {e} : InFlight(f)' = InFlight(f)
  BY <1>1, <1>2, MoveAlone DEF InStep
<1>4. \A f \in Employees \ {e} : \A d \in InFlight(f) : calls'[d] = calls[d]
  BY <1>1, <1>2 DEF Put, InFlight, InStep, TypeOK
<1> QED
  BY <1>2, <1>3, <1>4, OnlyConcerns DEF Undisturbed

\* InStep is inductive.
LEMMA InStepStep == InStep /\ [Next]_vars => InStep'
<1> SUFFICES ASSUME InStep, [Next]_vars
             PROVE  Exclusive' /\ \A f \in Undisturbed' : InStepOf(f)'
  BY TypeStep, RecordedStep DEF InStep
<1>1. CASE UNCHANGED vars
  <2>1. \A e \in Employees : InStepOf(e) => InStepOf(e)'
    BY <1>1, Unconcerned DEF vars, InFlight
  <2> QED
    BY <1>1, <2>1 DEF vars, InStep, Exclusive, Undisturbed, InFlight
<1> QED
  BY <1>1, CreateInStep, ChangeStartInStep, ChangeUpdateInStep, InitiateStartInStep, RecordInStep,
     TasksInStep, NoticeInStep, UpdateStartInStep, UpdateExitInStep, UpdateEmployeeInStep, FailInStep
  DEF Next

\* InStep holds of every reachable state.
LEMMA AlwaysInStep == Spec => []InStep
<1>1. Init => InStep
  BY MaxFailuresAssumption
  DEF Init, InStep, TypeOK, Recorded, Exclusive, InStepOf, InFlight, Settled, OpenExits, ExitsIn,
      Unlisted, Idle, NoExit, Open
<1> QED
  BY <1>1, InStepStep, PTL DEF Spec

\* Between the calls that the offboarding page offers, made one at a time and none
\* cut short: at most one open exit, of an employee ON_NOTICE; EXITED after a
\* completed exit; a checklist for every exit.
THEOREM ExitsAgree == Spec => []ExitsMatchStatus
<1>1. InStep => ExitsMatchStatus
  <2> SUFFICES ASSUME InStep, NEW e \in Employees \ (overlapped \cup unoffered), InFlight(e) = {}
               PROVE  /\ Cardinality(OpenExits(e)) <= 1
                      /\ OpenExits(e) # {} => status[e] = "ON_NOTICE"
                      /\ \A x \in Exits : exits[x] # NoExit /\ exits[x].emp = e =>
                           exits[x].checklist /\ (exits[x].status = "COMPLETED" => status[e] = "EXITED")
    BY DEF ExitsMatchStatus
  <2>1. Settled(e)
    BY DEF InStep, InStepOf, Undisturbed
  <2>2. Cardinality(OpenExits(e)) <= 1
    <3>1. CASE OpenExits(e) = {}
      <4>1. Cardinality(OpenExits(e)) = 0
        BY <3>1, FS_EmptySet
      <4> QED
        BY <4>1
    <3>2. CASE \E x \in Exits : OpenExits(e) = {x}
      <4>1. Cardinality(OpenExits(e)) = 1
        BY <3>2, FS_Singleton
      <4> QED
        BY <4>1
    <3> QED
      BY <2>1, <3>1, <3>2 DEF Settled
  <2>3. OpenExits(e) # {} => status[e] = "ON_NOTICE"
    BY <2>1 DEF Settled
  <2>4. ASSUME NEW x \in Exits, exits[x] # NoExit, exits[x].emp = e
        PROVE  exits[x].checklist /\ (exits[x].status = "COMPLETED" => status[e] = "EXITED")
    <3>1. exits[x].checklist
      BY <2>1, <2>4 DEF Settled, Unlisted
    <3>2. exits[x].status = "COMPLETED" => status[e] = "EXITED"
      BY <2>1, <2>4 DEF Settled, ExitsIn
    <3> QED
      BY <3>1, <3>2
  <2> QED
    BY <2>2, <2>3, <2>4
<1> QED
  BY <1>1, AlwaysInStep, PTL

\* Under the same use every change of status is an edge of the documented
\* lifecycle or the withdrawal of a notice, which the diagram lacks, and a notice
\* ends only with no exit open, although offboarding never consults the table.
THEOREM FollowsLifecycle == Spec => StatusFollowsLifecycle
<1>1. ASSUME InStep, [Next]_vars, NEW e \in Employees, Changes(e), e \notin overlapped' \cup unoffered'
      PROVE  AlongLifecycle(e)
  <2>t. status \in [Employees -> Statuses \cup {"NONE"}] /\ calls \in [Calls -> Call]
    BY <1>1 DEF InStep, TypeOK, Call
  <2>1. ASSUME NEW f \in Employees, Create(f) \/ AcceptInvite(f) PROVE AlongLifecycle(e)
    BY <1>1, <2>1, <2>t DEF Create, AcceptInvite, SetStatus, Changes, AlongLifecycle,
      DocumentedLifecycle, NoticeWithdrawn
  <2>2. ASSUME NEW c \in Calls, overlapped' = overlapped, unoffered' = unoffered, calls[c] # Idle,
               calls[c].emp = e
        PROVE  AtQuery(e, calls[c])
    BY <1>1, <2>2 DEF InStep, InStepOf, InFlight, Undisturbed
  <2>3. ASSUME NEW c \in Calls, ChangeStatusUpdate(c) PROVE AlongLifecycle(e)
    <3>1. calls[c].emp = e /\ status'[e] = calls[c].to
      BY <1>1, <2>3, <2>t DEF ChangeStatusUpdate, SetStatus, Changes
    <3>2. status'[e] \in Transitions(status[e]) /\ OpenExits(e) = {}
      BY <2>2, <2>3, <3>1 DEF ChangeStatusUpdate, AtQuery, Idle
    <3> QED
      BY <2>t, <3>2 DEF Transitions, AlongLifecycle, DocumentedLifecycle, NoticeWithdrawn
  <2>4. ASSUME NEW c \in Calls, InitiateNotice(c) PROVE AlongLifecycle(e)
    <3>1. calls[c].emp = e /\ status'[e] = "ON_NOTICE"
      BY <1>1, <2>4, <2>t DEF InitiateNotice, SetStatus, Changes
    <3>2. status[e] = "ACTIVE"
      BY <2>2, <2>4, <3>1 DEF InitiateNotice, AtQuery, Idle
    <3> QED
      BY <3>1, <3>2 DEF AlongLifecycle, DocumentedLifecycle, NoticeWithdrawn
  <2>5. ASSUME NEW c \in Calls, UpdateEmployee(c) PROVE AlongLifecycle(e)
    <3>1. calls[c].emp = e /\ status'[e] \in {"EXITED", "ACTIVE"}
      BY <1>1, <2>5, <2>t DEF UpdateEmployee, FollowedBy, SetStatus, Changes
    <3>2. status[e] = "ON_NOTICE" /\ OpenExits(e) = {}
      BY <2>2, <2>5, <3>1 DEF UpdateEmployee, AtQuery, Idle
    <3> QED
      BY <3>1, <3>2 DEF AlongLifecycle, DocumentedLifecycle, NoticeWithdrawn
  <2> QED
    BY <1>1, <2>1, <2>3, <2>4, <2>5
    DEF Next, vars, Changes, ChangeStatusStart, InitiateStart, InitiateRecord, InitiateTasks,
        UpdateStart, UpdateExit, Fail
<1>2. InStep /\ [Next]_vars =>
        [\A e \in Employees :
           Changes(e) /\ e \notin overlapped' \cup unoffered' => AlongLifecycle(e)]_status
  BY <1>1
<1> QED
  BY <1>2, AlwaysInStep, PTL DEF Spec, StatusFollowsLifecycle
===============================================================================
