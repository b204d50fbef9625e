------------------------- MODULE LeaveWorkflowProofs -------------------------
(***************************************************************************)
(* Theorems about LeaveWorkflow for every set of employees, leave types,   *)
(* requests and concurrent calls, every calendar and every policy.         *)
(***************************************************************************)
EXTENDS LeaveWorkflow, Sums

\* The number of working days between two days is a natural number.
LEMMA WorkingDaysType ==
  ASSUME NEW e \in Employees, NEW start \in Days, NEW end \in Days
  PROVE  WorkingDays(e, start, end) \in Nat
<1>1. IsFiniteSet(start .. end)
  <2>1. start \in Int /\ end \in Int
    BY DaysAssumption
  <2>. QED
    BY <2>1, FS_Interval
<1>2. IsFiniteSet((start .. end) \ OffDays[e])
  BY <1>1, FS_Difference
<1>. QED
  BY <1>2, FS_CardinalityType DEF WorkingDays

\* The balance a typed request or application is charged to.
LEMMA BalanceKeyType ==
  ASSUME NEW q, q.emp \in Employees, q.type \in LeaveTypes, q.start \in Days
  PROVE  BalanceKey(q) \in Key
BY CalendarAssumption DEF BalanceKey, Key

\* Seeding a balance row keeps the rows well formed.
LEMMA UpsertType ==
  ASSUME TypeOK, NEW k \in Key, NEW quota \in Nat
  PROVE  Upsert(k, quota) \in [Key -> Row]
BY DEF TypeOK, Upsert, Row

\* So does an adjustment of the counters.
LEMMA AdjustType ==
  ASSUME TypeOK, NEW k \in Key, NEW by \in [used : Int, pending : Int]
  PROVE  Adjust(k, by) \in [Key -> Row]
BY DEF TypeOK, Adjust, Row

\* A handler between two queries is of the shape its operation gives it.
LEMMA CallShape ==
  ASSUME TypeOK, NEW c \in Calls
  PROVE  /\ calls[c].op = "apply" => calls[c] \in ApplyCall
         /\ calls[c].op = "decide" => calls[c] \in DecideCall
         /\ calls[c].op = "cancel" => calls[c] \in CancelCall
         /\ calls[c].op = "balances" => calls[c] \in BalancesCall
BY DEF TypeOK, Idle, ApplyCall, DecideCall, CancelCall, BalancesCall

CallRecord == {Idle} \cup ApplyCall \cup DecideCall \cup CancelCall \cup BalancesCall

\* A stored request is a typed row, charged to a balance of the tenant.
LEMMA RequestShape ==
  ASSUME TypeOK, NEW r \in Requests, requests[r] # NoRequest
  PROVE  /\ requests[r] \in Request
         /\ BalanceKey(requests[r]) \in Key
<1>1. requests[r] \in Request
  BY DEF TypeOK
<1>. QED
  BY <1>1, BalanceKeyType DEF Request

\* Moving a handler on changes its pc and nothing else.
LEMMA GotoApply ==
  ASSUME TypeOK, NEW c \in Calls, calls[c].op = "apply",
         NEW pc \in {"overlap", "ensure", "reserve", "create"}, Goto(c, pc)
  PROVE  \E q \in ApplyCall :
           /\ calls' = [calls EXCEPT ![c] = q]
           /\ q.op = "apply" /\ q.pc = pc /\ q.emp = calls[c].emp
           /\ q.type = calls[c].type /\ q.start = calls[c].start
           /\ q.end = calls[c].end /\ q.days = calls[c].days
<1>1. calls[c] \in ApplyCall
  BY CallShape
<1>2. [calls[c] EXCEPT !.pc = pc] \in ApplyCall
  BY <1>1 DEF ApplyCall
<1>3. calls' = [calls EXCEPT ![c] = [calls[c] EXCEPT !.pc = pc]]
  BY DEF Goto, TypeOK
<1>. QED
  BY <1>1, <1>2, <1>3 DEF ApplyCall

\* A decision or a cancellation that moves on keeps its employee and its request.
LEMMA GotoUpdate ==
  ASSUME TypeOK, NEW c \in Calls, calls[c].op \in {"decide", "cancel"}, Goto(c, "update")
  PROVE  \E q \in DecideCall \cup CancelCall :
           /\ calls' = [calls EXCEPT ![c] = q]
           /\ q.op = calls[c].op /\ q.pc = "update"
           /\ q.emp = calls[c].emp /\ q.req = calls[c].req
           /\ q.op = "decide" => q.verdict = calls[c].verdict
           /\ q.op = "cancel" => q.seen = calls[c].seen
<1>1. calls[c] \in DecideCall \cup CancelCall
  BY CallShape
<1>2. [calls[c] EXCEPT !.pc = "update"] \in DecideCall \cup CancelCall
  BY <1>1 DEF DecideCall, CancelCall
<1>3. calls' = [calls EXCEPT ![c] = [calls[c] EXCEPT !.pc = "update"]]
  BY DEF Goto, TypeOK
<1>. QED
  BY <1>1, <1>2, <1>3 DEF DecideCall, CancelCall

------------------------------------------------------------------------------
(* Type correctness.  A decision or a cancellation reads its request again   *)
(* by identity, so the induction also needs that the request is still there. *)

ReferencesStored ==
  \A c \in Calls : calls[c].op \in {"decide", "cancel"} =>
    requests[calls[c].req] # NoRequest

TypeInv == TypeOK /\ ReferencesStored

\* A step that changes one handler and leaves the requests alone.
LEMMA OneHandlerStep ==
  ASSUME TypeInv, NEW c \in Calls, NEW q \in CallRecord,
         calls' = [calls EXCEPT ![c] = q],
         q.op \in {"decide", "cancel"} => requests[q.req] # NoRequest,
         balances' \in [Key -> Row],
         UNCHANGED <<policy, requests>>, failures' \in 0 .. MaxFailures
  PROVE  TypeInv'
<1>1. TypeOK'
  BY DEF TypeInv, TypeOK, CallRecord
<1>2. ASSUME NEW d \in Calls, calls'[d].op \in {"decide", "cancel"}
      PROVE  requests'[calls'[d].req] # NoRequest
  <2>1. CASE d = c
    BY <1>2, <2>1 DEF TypeInv, TypeOK
  <2>2. CASE d # c
    BY <1>2, <2>2 DEF TypeInv, TypeOK, ReferencesStored
  <2>. QED
    BY <2>1, <2>2
<1>. QED
  BY <1>1, <1>2 DEF TypeInv, ReferencesStored

\* A step that ends one handler and writes one request row.
LEMMA RequestStep ==
  ASSUME TypeInv, NEW c \in Calls, NEW r \in Requests, NEW row \in Request,
         Return(c), requests' = [requests EXCEPT ![r] = row],
         UNCHANGED <<policy, balances, failures>>
  PROVE  TypeInv'
<1>1. TypeOK'
  BY DEF TypeInv, TypeOK, Return
<1>2. row # NoRequest
  BY DEF Request, NoRequest
<1>3. ASSUME NEW d \in Calls, calls'[d].op \in {"decide", "cancel"}
      PROVE  requests'[calls'[d].req] # NoRequest
  <2>1. d # c /\ calls'[d] = calls[d]
    BY <1>3 DEF Return, TypeInv, TypeOK, Idle
  <2>2. requests[calls[d].req] # NoRequest
    BY <1>3, <2>1 DEF TypeInv, ReferencesStored
  <2>3. calls[d].req \in Requests
    BY <1>3, <2>1, CallShape DEF TypeInv, DecideCall, CancelCall
  <2>. QED
    BY <1>2, <2>1, <2>2, <2>3 DEF TypeInv, TypeOK
<1>. QED
  BY <1>1, <1>3 DEF TypeInv, ReferencesStored

\* No handler and no row exists at the start.
LEMMA TypeInvInit == Init => TypeInv
BY DisciplineAssumption
   DEF Init, TypeInv, TypeOK, ReferencesStored, Row, NoRow, Idle

\* Every query keeps rows and handlers well formed and the requests stored.
LEMMA TypeInvNext == TypeInv /\ [Next]_vars => TypeInv'
<1> SUFFICES ASSUME TypeInv, [Next]_vars PROVE TypeInv'
  OBVIOUS
<1>0. TypeOK /\ ReferencesStored
  BY DEF TypeInv
<1>idle. Idle \in CallRecord /\ Idle.op \notin {"decide", "cancel"}
  BY DEF CallRecord, Idle
<1>1. ASSUME NEW t \in LeaveTypes, NEW p \in Policies, CreatePolicy(t, p)
      PROVE  TypeInv'
  BY <1>0, <1>1 DEF CreatePolicy, TypeInv, TypeOK, ReferencesStored
<1>2. ASSUME NEW c \in Calls, NEW e \in Employees, NEW t \in LeaveTypes,
             NEW start \in Days, NEW end \in Days, ApplyStart(c, e, t, start, end)
      PROVE  TypeInv'
  <2> DEFINE q == [op |-> "apply", pc |-> "overlap", emp |-> e, type |-> t,
                   start |-> start, end |-> end, days |-> WorkingDays(e, start, end),
                   quota |-> policy[t].annualQuota]
  <2>1. WorkingDays(e, start, end) \in Nat \ {0}
    BY <1>2, WorkingDaysType DEF ApplyStart, WithinLimits
  <2>2. policy[t].annualQuota \in Nat
    BY <1>0, <1>2, PolicyAssumption DEF ApplyStart, TypeOK
  <2>3. q \in CallRecord /\ q.op = "apply"
    BY <2>1, <2>2 DEF ApplyCall, CallRecord
  <2>4. calls' = [calls EXCEPT ![c] = q]
    BY <1>2 DEF ApplyStart
  <2> HIDE DEF q
  <2>. QED
    BY <1>0, <1>2, <2>3, <2>4, OneHandlerStep DEF ApplyStart, TypeOK
<1>3. ASSUME NEW c \in Calls, ApplyCheckOverlap(c) PROVE TypeInv'
  <2>1. CASE Return(c)
    BY <1>0, <1>3, <1>idle, <2>1, OneHandlerStep DEF ApplyCheckOverlap, Return, TypeOK
  <2>2. CASE Goto(c, "ensure")
    <3>1. PICK q \in ApplyCall : calls' = [calls EXCEPT ![c] = q] /\ q.op = "apply"
      BY <1>0, <1>3, <2>2, GotoApply DEF ApplyCheckOverlap
    <3>. QED
      BY <1>0, <1>3, <3>1, OneHandlerStep DEF ApplyCheckOverlap, CallRecord, TypeOK
  <2>. QED
    BY <1>3, <2>1, <2>2 DEF ApplyCheckOverlap
<1>4. ASSUME NEW c \in Calls, ApplyEnsureBalance(c) PROVE TypeInv'
  <2>1. calls[c] \in ApplyCall
    BY <1>0, <1>4, CallShape DEF ApplyEnsureBalance
  <2>2. balances' \in [Key -> Row]
    BY <1>0, <1>4, <2>1, UpsertType, BalanceKeyType DEF ApplyEnsureBalance, ApplyCall
  <2>3. CASE Return(c)
    BY <1>0, <1>4, <1>idle, <2>2, <2>3, OneHandlerStep
    DEF ApplyEnsureBalance, Return, TypeOK
  <2>4. CASE Goto(c, "reserve")
    <3>1. PICK q \in ApplyCall : calls' = [calls EXCEPT ![c] = q] /\ q.op = "apply"
      BY <1>0, <1>4, <2>4, GotoApply DEF ApplyEnsureBalance
    <3>. QED
      BY <1>0, <1>4, <2>2, <3>1, OneHandlerStep DEF ApplyEnsureBalance, CallRecord, TypeOK
  <2>. QED
    BY <1>4, <2>3, <2>4 DEF ApplyEnsureBalance
<1>5. ASSUME NEW c \in Calls, ApplyReserve(c) PROVE TypeInv'
  <2>1. calls[c] \in ApplyCall
    BY <1>0, <1>5, CallShape DEF ApplyReserve
  <2>2. balances' \in [Key -> Row]
    BY <1>0, <1>5, <2>1, AdjustType, BalanceKeyType DEF ApplyReserve, ApplyCall
  <2>3. PICK q \in ApplyCall : calls' = [calls EXCEPT ![c] = q] /\ q.op = "apply"
    BY <1>0, <1>5, GotoApply DEF ApplyReserve
  <2>. QED
    BY <1>0, <1>5, <2>2, <2>3, OneHandlerStep DEF ApplyReserve, CallRecord, TypeOK
<1>6. ASSUME NEW c \in Calls, NEW r \in Requests, ApplyCreate(c, r) PROVE TypeInv'
  <2> DEFINE row == [status |-> "PENDING", emp |-> calls[c].emp, type |-> calls[c].type,
                     start |-> calls[c].start, end |-> calls[c].end,
                     days |-> calls[c].days]
  <2>1. calls[c] \in ApplyCall
    BY <1>0, <1>6, CallShape DEF ApplyCreate
  <2>2. row \in Request
    BY <2>1 DEF ApplyCall, Request
  <2>3. requests' = [requests EXCEPT ![r] = row]
    BY <1>6 DEF ApplyCreate
  <2> HIDE DEF row
  <2>. QED
    BY <1>6, <2>2, <2>3, RequestStep DEF ApplyCreate
<1>7. ASSUME NEW c \in Calls, NEW r \in Requests, NEW verdict \in {"APPROVED", "REJECTED"},
             DecideStart(c, r, verdict)
      PROVE  TypeInv'
  <2> DEFINE q == [op |-> "decide", pc |-> "adjust", emp |-> requests[r].emp, req |-> r,
                   verdict |-> verdict]
  <2>1. requests[r] # NoRequest /\ requests[r] \in Request
    BY <1>0, <1>7, RequestShape DEF DecideStart, NoRequest
  <2>2. q \in CallRecord /\ q.req = r
    BY <2>1 DEF DecideCall, CallRecord, Request
  <2>3. calls' = [calls EXCEPT ![c] = q]
    BY <1>7 DEF DecideStart
  <2> HIDE DEF q
  <2>. QED
    BY <1>0, <1>7, <2>1, <2>2, <2>3, OneHandlerStep DEF DecideStart, TypeOK
<1>8. ASSUME NEW c \in Calls, DecideAdjust(c) PROVE TypeInv'
  <2>1. calls[c] \in DecideCall /\ requests[calls[c].req] # NoRequest
    BY <1>0, <1>8, CallShape DEF DecideAdjust, ReferencesStored
  <2>2. requests[calls[c].req] \in Request /\ BalanceKey(requests[calls[c].req]) \in Key
    BY <1>0, <2>1, RequestShape DEF DecideCall
  <2>3. DecisionDelta(calls[c].verdict, requests[calls[c].req].days)
          \in [used : Int, pending : Int]
    BY <2>2 DEF DecisionDelta, Request
  <2>4. balances' \in [Key -> Row]
    BY <1>0, <1>8, <2>2, <2>3, AdjustType DEF DecideAdjust
  <2>5. PICK q \in DecideCall \cup CancelCall :
          calls' = [calls EXCEPT ![c] = q] /\ q.req = calls[c].req
    BY <1>0, <1>8, GotoUpdate DEF DecideAdjust
  <2>. QED
    BY <1>0, <1>8, <2>1, <2>4, <2>5, OneHandlerStep DEF DecideAdjust, CallRecord, TypeOK
<1>9. ASSUME NEW c \in Calls, DecideUpdate(c) PROVE TypeInv'
  <2>1. calls[c] \in DecideCall /\ requests[calls[c].req] # NoRequest
    BY <1>0, <1>9, CallShape DEF DecideUpdate, ReferencesStored
  <2>2. requests[calls[c].req] \in Request
    BY <1>0, <2>1, RequestShape DEF DecideCall
  <2>3. [requests[calls[c].req] EXCEPT !.status = calls[c].verdict] \in Request
    BY <2>1, <2>2 DEF DecideCall, Request
  <2>4. requests' = [requests EXCEPT ![calls[c].req] =
                       [requests[calls[c].req] EXCEPT !.status = calls[c].verdict]]
    BY <1>0, <1>9 DEF DecideUpdate, TypeOK
  <2>5. calls[c].req \in Requests
    BY <2>1 DEF DecideCall
  <2>. QED
    BY <1>9, <2>3, <2>4, <2>5, RequestStep DEF DecideUpdate
<1>10. ASSUME NEW c \in Calls, NEW r \in Requests, CancelStart(c, r) PROVE TypeInv'
  <2> DEFINE q == [op |-> "cancel", pc |-> "adjust", emp |-> requests[r].emp, req |-> r,
                   seen |-> requests[r].status]
  <2>1. requests[r] # NoRequest /\ requests[r] \in Request /\ requests[r].status \in Live
    BY <1>0, <1>10, RequestShape DEF CancelStart, Cancellable, Live, NoRequest
  <2>2. q \in CallRecord /\ q.req = r
    BY <2>1 DEF CancelCall, CallRecord, Request
  <2>3. calls' = [calls EXCEPT ![c] = q]
    BY <1>10 DEF CancelStart
  <2> HIDE DEF q
  <2>. QED
    BY <1>0, <1>10, <2>1, <2>2, <2>3, OneHandlerStep DEF CancelStart, TypeOK
<1>11. ASSUME NEW c \in Calls, CancelAdjust(c) PROVE TypeInv'
  <2>1. calls[c] \in CancelCall /\ requests[calls[c].req] # NoRequest
    BY <1>0, <1>11, CallShape DEF CancelAdjust, ReferencesStored
  <2>2. requests[calls[c].req] \in Request /\ BalanceKey(requests[calls[c].req]) \in Key
    BY <1>0, <2>1, RequestShape DEF CancelCall
  <2>3. Refund(calls[c].seen, requests[calls[c].req].days) \in [used : Int, pending : Int]
    BY <2>2 DEF Refund, Request
  <2>4. balances' \in [Key -> Row]
    BY <1>0, <1>11, <2>2, <2>3, AdjustType DEF CancelAdjust
  <2>5. PICK q \in DecideCall \cup CancelCall :
          calls' = [calls EXCEPT ![c] = q] /\ q.req = calls[c].req
    BY <1>0, <1>11, GotoUpdate DEF CancelAdjust
  <2>. QED
    BY <1>0, <1>11, <2>1, <2>4, <2>5, OneHandlerStep DEF CancelAdjust, CallRecord, TypeOK
<1>12. ASSUME NEW c \in Calls, CancelUpdate(c) PROVE TypeInv'
  <2>1. calls[c] \in CancelCall /\ requests[calls[c].req] # NoRequest
    BY <1>0, <1>12, CallShape DEF CancelUpdate, ReferencesStored
  <2>2. requests[calls[c].req] \in Request
    BY <1>0, <2>1, RequestShape DEF CancelCall
  <2>3. [requests[calls[c].req] EXCEPT !.status = "CANCELLED"] \in Request
    BY <2>2 DEF Request
  <2>4. requests' = [requests EXCEPT ![calls[c].req] =
                       [requests[calls[c].req] EXCEPT !.status = "CANCELLED"]]
    BY <1>0, <1>12 DEF CancelUpdate, TypeOK
  <2>5. calls[c].req \in Requests
    BY <2>1 DEF CancelCall
  <2>. QED
    BY <1>12, <2>3, <2>4, <2>5, RequestStep DEF CancelUpdate
<1>13. ASSUME NEW c \in Calls, NEW k \in Key, BalancesStart(c, k) PROVE TypeInv'
  <2> DEFINE q == [op |-> "balances", emp |-> k[1], key |-> k,
                   quota |-> policy[k[2]].annualQuota]
  <2>1. k[1] \in Employees /\ k[2] \in LeaveTypes
    BY DEF Key
  <2>2. policy[k[2]].annualQuota \in Nat
    BY <1>0, <1>13, <2>1, PolicyAssumption DEF BalancesStart, TypeOK
  <2>3. q \in CallRecord /\ q.op = "balances"
    BY <2>1, <2>2 DEF BalancesCall, CallRecord
  <2>4. calls' = [calls EXCEPT ![c] = q]
    BY <1>13 DEF BalancesStart
  <2> HIDE DEF q
  <2>. QED
    BY <1>0, <1>13, <2>3, <2>4, OneHandlerStep DEF BalancesStart, TypeOK
<1>14. ASSUME NEW c \in Calls, BalancesSeed(c) PROVE TypeInv'
  <2>1. calls[c] \in BalancesCall
    BY <1>0, <1>14, CallShape DEF BalancesSeed
  <2>2. balances' \in [Key -> Row]
    BY <1>0, <1>14, <2>1, UpsertType DEF BalancesSeed, BalancesCall
  <2>. QED
    BY <1>0, <1>14, <1>idle, <2>2, OneHandlerStep DEF BalancesSeed, Return, TypeOK
<1>15. ASSUME NEW c \in Calls, Fail(c) PROVE TypeInv'
  <2>1. failures' \in 0 .. MaxFailures
    BY <1>0, <1>15, DisciplineAssumption DEF Fail, TypeOK
  <2>. QED
    BY <1>0, <1>15, <1>idle, <2>1, OneHandlerStep DEF Fail, Return, TypeOK
<1>16. CASE UNCHANGED vars
  BY <1>0, <1>16 DEF vars, TypeInv, TypeOK, ReferencesStored
<1>. QED
  BY <1>1, <1>2, <1>3, <1>4, <1>5, <1>6, <1>7, <1>8, <1>9, <1>10, <1>11, <1>12, <1>13,
     <1>14, <1>15, <1>16 DEF Next

\* TypeInv holds of every reachable state.
LEMMA TypeInvariance == Spec => []TypeInv
<1>. QED
  BY TypeInvInit, TypeInvNext, PTL DEF Spec

\* Every row and every handler keeps its shape, whatever runs concurrently and
\* whichever handlers are cut short.
THEOREM TypeCorrect == Spec => []TypeOK
<1>1. TypeInv => TypeOK
  BY DEF TypeInv
<1>. QED
  BY <1>1, TypeInvariance, PTL
------------------------------------------------------------------------------
(* The balance is never overdrawn, if an employee has one application in     *)
(* flight.  NeverOverdrawn is not inductive: the reservation does not check  *)
(* again.  What carries it over the await between check and reservation is   *)
(* that the row still covers the days the waiting handler found free, since  *)
(* nobody but an application of the same employee charges the row.           *)

\* The row exists and has q.days left.
Covered(q) ==
  LET b == balances[BalanceKey(q)] IN
  b.exists /\ b.used + b.pending + q.days <= b.accrued

OneApplication ==
  \A c, d \in Calls :
    calls[c].op = "apply" /\ calls[d].op = "apply" /\ calls[c].emp = calls[d].emp => c = d

ReservationsCovered ==
  \A c \in Calls :
    calls[c].op = "apply" /\ calls[c].pc = "reserve" => Covered(calls[c])

ReserveInv == TypeInv /\ NeverOverdrawn /\ OneApplication /\ ReservationsCovered

\* No existing row is charged more: rows may appear and days may come back.
NoneCharged ==
  \A k \in Key : balances[k].exists =>
    /\ balances'[k].exists /\ balances'[k].accrued = balances[k].accrued
    /\ balances'[k].used + balances'[k].pending <= balances[k].used + balances[k].pending

\* A handler that moves on or ends leaves at most one application per employee.
LEMMA HandlerKeepsOne ==
  ASSUME TypeOK, OneApplication, NEW c \in Calls, NEW q,
         calls' = [calls EXCEPT ![c] = q],
         q.op = "apply" => calls[c].op = "apply" /\ q.emp = calls[c].emp
  PROVE  OneApplication'
BY DEF TypeOK, OneApplication

\* A handler that waits to reserve still finds its days if no row was charged more.
LEMMA OthersCovered ==
  ASSUME TypeInv, TypeInv', ReservationsCovered, NoneCharged,
         NEW d \in Calls, calls'[d] = calls[d],
         calls[d].op = "apply", calls[d].pc = "reserve"
  PROVE  Covered(calls[d])'
<1>1. calls[d] \in ApplyCall
  BY CallShape DEF TypeInv
<1>2. BalanceKey(calls[d]) \in Key
  BY <1>1, BalanceKeyType DEF ApplyCall
<1>3. Covered(calls[d])
  BY DEF ReservationsCovered
<1>. DEFINE k == BalanceKey(calls[d])
<1>4. balances[k] \in Row /\ balances'[k] \in Row /\ calls[d].days \in Int
  BY <1>1, <1>2 DEF TypeInv, TypeOK, ApplyCall
<1>5. BalanceKey(calls[d])' = k
  BY DEF BalanceKey
<1>. QED
  BY <1>2, <1>3, <1>4, <1>5 DEF Covered, NoneCharged, Row

\* A step of one handler that charges no row keeps the reservations covered.
LEMMA CoveredStep ==
  ASSUME ReserveInv, TypeInv', NeverOverdrawn', NoneCharged, NEW c \in Calls, NEW q,
         calls' = [calls EXCEPT ![c] = q],
         q.op = "apply" => calls[c].op = "apply" /\ q.emp = calls[c].emp,
         q.op = "apply" /\ q.pc = "reserve" => Covered(q)'
  PROVE  ReserveInv'
<1>1. OneApplication'
  BY HandlerKeepsOne DEF ReserveInv, TypeInv
<1>2. ASSUME NEW d \in Calls, calls'[d].op = "apply", calls'[d].pc = "reserve"
      PROVE  Covered(calls[d])'
  <2>1. CASE d = c
    <3>1. calls'[d] = q
      BY <2>1 DEF ReserveInv, TypeInv, TypeOK
    <3>. QED
      BY <1>2, <3>1 DEF Covered, BalanceKey
  <2>2. CASE d # c
    <3>1. calls'[d] = calls[d]
      BY <2>2 DEF ReserveInv, TypeInv, TypeOK
    <3>. QED
      BY <1>2, <3>1, OthersCovered DEF ReserveInv
  <2>. QED
    BY <2>1, <2>2
<1>. QED
  BY <1>1, <1>2 DEF ReserveInv, ReservationsCovered

\* Steps that leave every row alone.
LEMMA RowsUnchanged ==
  ASSUME TypeInv, NeverOverdrawn, UNCHANGED balances
  PROVE  NeverOverdrawn' /\ NoneCharged
BY DEF TypeInv, TypeOK, Row, NeverOverdrawn, NoneCharged

\* Seeding a row charges nobody.
LEMMA UpsertCharges ==
  ASSUME TypeInv, NeverOverdrawn, NEW k \in Key, NEW quota \in Nat,
         balances' = Upsert(k, quota)
  PROVE  NeverOverdrawn' /\ NoneCharged /\ balances'[k].exists
BY DEF TypeInv, TypeOK, Row, NeverOverdrawn, NoneCharged, Upsert

\* Giving days back, or moving them from pending to used, charges nobody.
LEMMA AdjustCharges ==
  ASSUME TypeInv, NeverOverdrawn, NEW k \in Key,
         NEW by \in [used : Int, pending : Int], by.used + by.pending <= 0,
         balances' = Adjust(k, by)
  PROVE  NeverOverdrawn' /\ NoneCharged
<1>1. balances \in [Key -> Row]
  BY DEF TypeInv, TypeOK
<1>2. ASSUME NEW j \in Key
      PROVE  /\ balances'[j].exists = balances[j].exists
             /\ balances'[j].accrued = balances[j].accrued
             /\ balances'[j].used + balances'[j].pending
                  <= balances[j].used + balances[j].pending
  <2>1. balances[j] \in Row /\ balances[k] \in Row
    BY <1>1
  <2>2. CASE j = k /\ balances[k].exists
    <3>1. balances'[j] = [exists |-> TRUE, accrued |-> balances[j].accrued,
                          used |-> balances[j].used + by.used,
                          pending |-> balances[j].pending + by.pending]
      BY <1>1, <2>2 DEF Adjust
    <3>2. balances[j].used \in Int /\ balances[j].pending \in Int
          /\ by.used \in Int /\ by.pending \in Int
      BY <2>1 DEF Row
    <3>3. /\ balances'[j].exists = TRUE /\ balances'[j].accrued = balances[j].accrued
          /\ balances'[j].used = balances[j].used + by.used
          /\ balances'[j].pending = balances[j].pending + by.pending
      BY <3>1
    <3>4. balances'[j].used + balances'[j].pending
            <= balances[j].used + balances[j].pending
      BY <3>2, <3>3
    <3>. QED
      BY <2>2, <3>3, <3>4
  <2>3. CASE ~(j = k /\ balances[k].exists)
    <3>1. balances'[j] = balances[j]
      BY <1>1, <2>3 DEF Adjust
    <3>. QED
      BY <2>1, <3>1 DEF Row
  <2>. QED
    BY <2>2, <2>3
<1>3. \A j \in Key : balances'[j] \in Row /\ balances[j] \in Row
  BY <1>1, AdjustType DEF TypeInv
<1>. QED
  BY <1>2, <1>3 DEF NeverOverdrawn, NoneCharged, Row

\* Nothing is reserved at the start.
LEMMA ReserveInvInit == Init => ReserveInv
<1> SUFFICES ASSUME Init PROVE ReserveInv
  OBVIOUS
<1>1. TypeInv
  BY TypeInvInit
<1>2. NeverOverdrawn /\ OneApplication /\ ReservationsCovered
  BY DEF Init, NeverOverdrawn, OneApplication, ReservationsCovered, NoRow, Idle
<1>. QED
  BY <1>1, <1>2 DEF ReserveInv

\* With one application per employee in flight, every query keeps ReserveInv.
LEMMA ReserveInvNext ==
  ASSUME Discipline \in {"oneApply", "oneCall"}
  PROVE  ReserveInv /\ [Next]_vars => ReserveInv'
<1> SUFFICES ASSUME ReserveInv, [Next]_vars PROVE ReserveInv'
  OBVIOUS
<1>0. TypeInv /\ TypeOK /\ NeverOverdrawn
  BY DEF ReserveInv, TypeInv
<1>t. TypeInv'
  BY <1>0, TypeInvNext
<1>idle. Idle.op # "apply"
  BY DEF Idle
<1>1. ASSUME NEW t \in LeaveTypes, NEW p \in Policies, CreatePolicy(t, p)
      PROVE  ReserveInv'
  BY <1>0, <1>t, <1>1 DEF CreatePolicy, ReserveInv, NeverOverdrawn, OneApplication,
     ReservationsCovered, Covered, BalanceKey
<1>2. ASSUME NEW c \in Calls, NEW e \in Employees, NEW t \in LeaveTypes,
             NEW start \in Days, NEW end \in Days, ApplyStart(c, e, t, start, end)
      PROVE  ReserveInv'
  <2>1. InFlight(e, {"apply"}) = {}
    BY <1>2, DisciplineAssumption DEF ApplyStart, MayStart, InFlight, Writes
  <2> DEFINE q == [op |-> "apply", pc |-> "overlap", emp |-> e, type |-> t,
                   start |-> start, end |-> end, days |-> WorkingDays(e, start, end),
                   quota |-> policy[t].annualQuota]
  <2>2. /\ calls' = [calls EXCEPT ![c] = q]
        /\ q.op = "apply" /\ q.pc = "overlap" /\ q.emp = e
    BY <1>2 DEF ApplyStart
  <2> HIDE DEF q
  <2>3. OneApplication'
    BY <1>0, <2>1, <2>2 DEF InFlight, ReserveInv, OneApplication, TypeOK
  <2>4. NeverOverdrawn' /\ NoneCharged
    BY <1>0, <1>2, RowsUnchanged DEF ApplyStart
  <2>5. ASSUME NEW d \in Calls, calls'[d].op = "apply", calls'[d].pc = "reserve"
        PROVE  Covered(calls[d])'
    <3>1. d # c /\ calls'[d] = calls[d]
      BY <1>0, <2>2, <2>5 DEF TypeOK
    <3>. QED
      BY <1>0, <1>t, <2>4, <2>5, <3>1, OthersCovered DEF ReserveInv
  <2>. QED
    BY <1>t, <2>3, <2>4, <2>5 DEF ReserveInv, ReservationsCovered
<1>3. ASSUME NEW c \in Calls, ApplyCheckOverlap(c) PROVE ReserveInv'
  <2>1. NeverOverdrawn' /\ NoneCharged
    BY <1>0, <1>3, RowsUnchanged DEF ApplyCheckOverlap
  <2>2. CASE Return(c)
    BY <1>t, <1>idle, <2>1, <2>2, CoveredStep DEF Return
  <2>3. CASE Goto(c, "ensure")
    <3>1. PICK q \in ApplyCall : /\ calls' = [calls EXCEPT ![c] = q]
                                 /\ q.pc = "ensure" /\ q.emp = calls[c].emp
      BY <1>0, <1>3, <2>3, GotoApply DEF ApplyCheckOverlap
    <3>. QED
      BY <1>3, <1>t, <2>1, <3>1, CoveredStep DEF ApplyCheckOverlap
  <2>. QED
    BY <1>3, <2>2, <2>3 DEF ApplyCheckOverlap
<1>4. ASSUME NEW c \in Calls, ApplyEnsureBalance(c) PROVE ReserveInv'
  <2> DEFINE k == BalanceKey(calls[c])
  <2>1. calls[c] \in ApplyCall /\ k \in Key
    BY <1>0, <1>4, CallShape, BalanceKeyType DEF ApplyEnsureBalance, ApplyCall
  <2>2. NeverOverdrawn' /\ NoneCharged /\ balances'[k].exists
    BY <1>0, <1>4, <2>1, UpsertCharges DEF ApplyEnsureBalance, ApplyCall
  <2>3. CASE calls[c].days > Available(balances'[k])
    BY <1>4, <1>t, <1>idle, <2>2, <2>3, CoveredStep DEF ApplyEnsureBalance, Return
  <2>4. CASE ~(calls[c].days > Available(balances'[k]))
    <3>1. PICK q \in ApplyCall :
            /\ calls' = [calls EXCEPT ![c] = q]
            /\ q.emp = calls[c].emp /\ q.type = calls[c].type
            /\ q.start = calls[c].start /\ q.days = calls[c].days
      BY <1>0, <1>4, <2>4, GotoApply DEF ApplyEnsureBalance
    <3>2. BalanceKey(q)' = k
      BY <3>1 DEF BalanceKey
    <3>3. balances'[k] \in Row /\ calls[c].days \in Int
      BY <1>t, <2>1 DEF TypeInv, TypeOK, ApplyCall
    <3>4. Covered(q)'
      BY <2>2, <2>4, <3>1, <3>2, <3>3 DEF Covered, Available, Row
    <3>. QED
      BY <1>4, <1>t, <2>2, <3>1, <3>4, CoveredStep DEF ApplyEnsureBalance
  <2>. QED
    BY <2>3, <2>4
<1>5. ASSUME NEW c \in Calls, ApplyReserve(c) PROVE ReserveInv'
  <2> DEFINE k == BalanceKey(calls[c])
             by == [used |-> 0, pending |-> calls[c].days]
  <2>1. calls[c] \in ApplyCall /\ k \in Key /\ calls[c].days \in Int
    BY <1>0, <1>5, CallShape, BalanceKeyType DEF ApplyReserve, ApplyCall
  <2>2. balances[k] \in Row /\ balances[k].exists
        /\ balances[k].used + balances[k].pending + calls[c].days <= balances[k].accrued
    BY <1>0, <1>5, <2>1 DEF ApplyReserve, ReserveInv, ReservationsCovered, Covered, TypeOK
  <2>3. balances' = [balances EXCEPT
          ![k] = [exists |-> TRUE, accrued |-> balances[k].accrued,
                  used |-> balances[k].used + 0,
                  pending |-> balances[k].pending + calls[c].days]]
    BY <1>5, <2>2 DEF ApplyReserve, Adjust
  <2>4. NeverOverdrawn'
    BY <1>0, <2>1, <2>2, <2>3 DEF NeverOverdrawn, TypeOK, Row
  <2>5. PICK q \in ApplyCall : /\ calls' = [calls EXCEPT ![c] = q]
                               /\ q.pc = "create" /\ q.emp = calls[c].emp
    BY <1>0, <1>5, GotoApply DEF ApplyReserve
  <2>6. OneApplication'
    BY <1>0, <1>5, <2>5, HandlerKeepsOne DEF ApplyReserve, ReserveInv
  <2>7. ASSUME NEW d \in Calls, calls'[d].op = "apply", calls'[d].pc = "reserve"
        PROVE  Covered(calls[d])'
    <3>1. d # c /\ calls'[d] = calls[d]
      BY <1>0, <2>5, <2>7 DEF TypeOK
    <3>2. calls[d] \in ApplyCall /\ BalanceKey(calls[d]) \in Key
      BY <1>0, <2>7, <3>1, CallShape, BalanceKeyType DEF ApplyCall
    <3>3. calls[d].emp # calls[c].emp
      BY <1>5, <2>7, <3>1 DEF ApplyReserve, ReserveInv, OneApplication
    <3>4. BalanceKey(calls[d]) # k
      BY <3>3 DEF BalanceKey
    <3>5. balances'[BalanceKey(calls[d])] = balances[BalanceKey(calls[d])]
      BY <1>0, <2>3, <3>2, <3>4 DEF TypeOK
    <3>6. Covered(calls[d])
      BY <2>7, <3>1 DEF ReserveInv, ReservationsCovered
    <3>7. BalanceKey(calls[d])' = BalanceKey(calls[d])
      BY <3>1 DEF BalanceKey
    <3>. QED
      BY <3>1, <3>5, <3>6, <3>7 DEF Covered
  <2>. QED
    BY <1>t, <2>4, <2>6, <2>7 DEF ReserveInv, ReservationsCovered
<1>6. ASSUME NEW c \in Calls, NEW r \in Requests, ApplyCreate(c, r) PROVE ReserveInv'
  <2>1. NeverOverdrawn' /\ NoneCharged
    BY <1>0, <1>6, RowsUnchanged DEF ApplyCreate
  <2>. QED
    BY <1>6, <1>t, <1>idle, <2>1, CoveredStep DEF ApplyCreate, Return
<1>7. ASSUME NEW c \in Calls, NEW r \in Requests, NEW verdict \in {"APPROVED", "REJECTED"},
             DecideStart(c, r, verdict)
      PROVE  ReserveInv'
  <2>1. NeverOverdrawn' /\ NoneCharged
    BY <1>0, <1>7, RowsUnchanged DEF DecideStart
  <2> DEFINE q == [op |-> "decide", pc |-> "adjust", emp |-> requests[r].emp, req |-> r,
                   verdict |-> verdict]
  <2>2. calls' = [calls EXCEPT ![c] = q] /\ q.op # "apply"
    BY <1>7 DEF DecideStart
  <2> HIDE DEF q
  <2>. QED
    BY <1>t, <2>1, <2>2, CoveredStep
<1>8. ASSUME NEW c \in Calls, DecideAdjust(c) PROVE ReserveInv'
  <2> DEFINE r == calls[c].req
             by == DecisionDelta(calls[c].verdict, requests[r].days)
  <2>1. requests[r] \in Request /\ BalanceKey(requests[r]) \in Key
    BY <1>0, <1>8, CallShape, RequestShape
    DEF DecideAdjust, TypeInv, ReferencesStored, DecideCall
  <2>2. by \in [used : Int, pending : Int] /\ by.used + by.pending <= 0
    BY <2>1 DEF DecisionDelta, Request
  <2> HIDE DEF by
  <2>3. balances' = Adjust(BalanceKey(requests[r]), by)
    BY <1>8 DEF DecideAdjust, by
  <2>4. NeverOverdrawn' /\ NoneCharged
    BY <1>0, <2>1, <2>2, <2>3, AdjustCharges
  <2>5. PICK q \in DecideCall \cup CancelCall : calls' = [calls EXCEPT ![c] = q]
    BY <1>0, <1>8, GotoUpdate DEF DecideAdjust
  <2>6. q.op # "apply"
    BY DEF DecideCall, CancelCall
  <2>. QED
    BY <1>t, <2>4, <2>5, <2>6, CoveredStep
<1>9. ASSUME NEW c \in Calls, DecideUpdate(c) PROVE ReserveInv'
  <2>1. NeverOverdrawn' /\ NoneCharged
    BY <1>0, <1>9, RowsUnchanged DEF DecideUpdate
  <2>. QED
    BY <1>9, <1>t, <1>idle, <2>1, CoveredStep DEF DecideUpdate, Return
<1>10. ASSUME NEW c \in Calls, NEW r \in Requests, CancelStart(c, r) PROVE ReserveInv'
  <2>1. NeverOverdrawn' /\ NoneCharged
    BY <1>0, <1>10, RowsUnchanged DEF CancelStart
  <2> DEFINE q == [op |-> "cancel", pc |-> "adjust", emp |-> requests[r].emp, req |-> r,
                   seen |-> requests[r].status]
  <2>2. calls' = [calls EXCEPT ![c] = q] /\ q.op # "apply"
    BY <1>10 DEF CancelStart
  <2> HIDE DEF q
  <2>. QED
    BY <1>t, <2>1, <2>2, CoveredStep
<1>11. ASSUME NEW c \in Calls, CancelAdjust(c) PROVE ReserveInv'
  <2> DEFINE r == calls[c].req
             by == Refund(calls[c].seen, requests[r].days)
  <2>1. requests[r] \in Request /\ BalanceKey(requests[r]) \in Key
    BY <1>0, <1>11, CallShape, RequestShape
    DEF CancelAdjust, TypeInv, ReferencesStored, CancelCall
  <2>2. by \in [used : Int, pending : Int] /\ by.used + by.pending <= 0
    BY <2>1 DEF Refund, Request
  <2> HIDE DEF by
  <2>3. balances' = Adjust(BalanceKey(requests[r]), by)
    BY <1>11 DEF CancelAdjust, by
  <2>4. NeverOverdrawn' /\ NoneCharged
    BY <1>0, <2>1, <2>2, <2>3, AdjustCharges
  <2>5. PICK q \in DecideCall \cup CancelCall : calls' = [calls EXCEPT ![c] = q]
    BY <1>0, <1>11, GotoUpdate DEF CancelAdjust
  <2>6. q.op # "apply"
    BY DEF DecideCall, CancelCall
  <2>. QED
    BY <1>t, <2>4, <2>5, <2>6, CoveredStep
<1>12. ASSUME NEW c \in Calls, CancelUpdate(c) PROVE ReserveInv'
  <2>1. NeverOverdrawn' /\ NoneCharged
    BY <1>0, <1>12, RowsUnchanged DEF CancelUpdate
  <2>. QED
    BY <1>12, <1>t, <1>idle, <2>1, CoveredStep DEF CancelUpdate, Return
<1>13. ASSUME NEW c \in Calls, NEW k \in Key, BalancesStart(c, k) PROVE ReserveInv'
  <2>1. NeverOverdrawn' /\ NoneCharged
    BY <1>0, <1>13, RowsUnchanged DEF BalancesStart
  <2> DEFINE q == [op |-> "balances", emp |-> k[1], key |-> k,
                   quota |-> policy[k[2]].annualQuota]
  <2>2. calls' = [calls EXCEPT ![c] = q] /\ q.op # "apply"
    BY <1>13 DEF BalancesStart
  <2> HIDE DEF q
  <2>. QED
    BY <1>t, <2>1, <2>2, CoveredStep
<1>14. ASSUME NEW c \in Calls, BalancesSeed(c) PROVE ReserveInv'
  <2>1. calls[c] \in BalancesCall
    BY <1>0, <1>14, CallShape DEF BalancesSeed
  <2>2. NeverOverdrawn' /\ NoneCharged
    BY <1>0, <1>14, <2>1, UpsertCharges DEF BalancesSeed, BalancesCall
  <2>. QED
    BY <1>14, <1>t, <1>idle, <2>2, CoveredStep DEF BalancesSeed, Return
<1>15. ASSUME NEW c \in Calls, Fail(c) PROVE ReserveInv'
  <2>1. NeverOverdrawn' /\ NoneCharged
    BY <1>0, <1>15, RowsUnchanged DEF Fail
  <2>. QED
    BY <1>15, <1>t, <1>idle, <2>1, CoveredStep DEF Fail, Return
<1>16. CASE UNCHANGED vars
  BY <1>0, <1>t, <1>16 DEF vars, ReserveInv, NeverOverdrawn, OneApplication,
     ReservationsCovered, Covered, BalanceKey
<1>. QED
  BY <1>1, <1>2, <1>3, <1>4, <1>5, <1>6, <1>7, <1>8, <1>9, <1>10, <1>11, <1>12, <1>13,
     <1>14, <1>15, <1>16 DEF Next

\* With one application per employee in flight no balance is ever overdrawn,
\* however decisions, cancellations, policy changes and failures interleave.
THEOREM BalanceNeverOverdrawn ==
  ASSUME Discipline \in {"oneApply", "oneCall"}
  PROVE  Spec => []NeverOverdrawn
<1>1. ReserveInv /\ [Next]_vars => ReserveInv'
  BY ReserveInvNext
<1>2. ReserveInv => NeverOverdrawn
  BY DEF ReserveInv
<1>. QED
  BY <1>1, <1>2, ReserveInvInit, PTL DEF Spec

------------------------------------------------------------------------------
(* How far a balance can be overdrawn when the clients keep nothing apart.   *)
(* The check and the reservation are two queries: every handler that waits   *)
(* between them holds a claim on days it has found free.  The last one to    *)
(* check has seen all but the claims of the others, so what a row promises   *)
(* and what is claimed from it exceed what was accrued by at most one        *)
(* longest application for each other handler.                               *)

\* No application that passes validation is longer than D working days.
AtMostDays(D) ==
  \A p \in Policies, e \in Employees, start, end \in Days :
    WithinLimits(p, WorkingDays(e, start, end)) => WorkingDays(e, start, end) <= D

\* The days handler q is about to reserve on row k.
Claim(q, k) ==
  IF q.op = "apply" /\ q.pc = "reserve" /\ BalanceKey(q) = k THEN q.days ELSE 0

\* The claims that the handlers T among those in flight have on row k.
Claims(inFlight, T, k) == SumFunctionOnSet([c \in Calls |-> Claim(inFlight[c], k)], T)

\* What the other handlers can have claimed.
OthersReach(D) == (Cardinality(Calls) - 1) * D

OverdraftInv(D) ==
  /\ TypeInv
  /\ \A c \in Calls : calls[c].op = "apply" => calls[c].days <= D
  /\ \A k \in Key : balances[k].used + balances[k].pending + Claims(calls, Calls, k)
                      <= balances[k].accrued + OthersReach(D)

\* How far row k is short of what it promises and what handler q claims.
Shortfall(rows, q, k) == rows[k].used + rows[k].pending + Claim(q, k) - rows[k].accrued

\* A claim is a natural number, as large as the application.
LEMMA ClaimType ==
  ASSUME NEW q \in CallRecord, NEW k
  PROVE  /\ Claim(q, k) \in Nat
         /\ Claim(q, k) = 0 \/ (q.op = "apply" /\ Claim(q, k) = q.days)
<1>1. q.op = "apply" => q.days \in Nat
  BY DEF CallRecord, Idle, ApplyCall, DecideCall, CancelCall, BalancesCall
<1> QED
  BY <1>1 DEF Claim

\* The claims on a row are that of one handler and those of the others.
LEMMA ClaimsWithout ==
  ASSUME IsFiniteSet(Calls), NEW table \in [Calls -> CallRecord], NEW c \in Calls, NEW k
  PROVE  /\ Claims(table, Calls \ {c}, k) \in Nat
         /\ Claims(table, Calls, k) = Claim(table[c], k) + Claims(table, Calls \ {c}, k)
<1> DEFINE f == [d \in Calls |-> Claim(table[d], k)]
<1>1. \A d \in Calls : f[d] \in Nat
  BY ClaimType
<1>2. f[c] = Claim(table[c], k)
  OBVIOUS
<1>3. IsFiniteSet(Calls \ {c}) /\ \A d \in Calls \ {c} : f[d] \in Nat
  BY <1>1, FS_RemoveElement
<1> HIDE DEF f
<1>4. SumFunctionOnSet(f, Calls \ {c}) \in Nat
  BY <1>3, SumNotNegative
<1>5. SumFunctionOnSet(f, Calls) = f[c] + SumFunctionOnSet(f, Calls \ {c})
  <2>1. \A d \in Calls : f[d] \in Int
    BY <1>1
  <2> QED
    BY <2>1, SumWithout
<1> QED
  BY <1>2, <1>4, <1>5 DEF f, Claims

\* The other handlers claim at most the longest application each.
LEMMA OthersClaim ==
  ASSUME IsFiniteSet(Calls), NEW D \in Nat, NEW table \in [Calls -> CallRecord],
         NEW c \in Calls, NEW k, \A d \in Calls : table[d].op = "apply" => table[d].days <= D
  PROVE  Claims(table, Calls \ {c}, k) <= OthersReach(D)
<1> DEFINE f == [d \in Calls |-> Claim(table[d], k)]
<1>1. \A d \in Calls \ {c} : f[d] \in Nat /\ f[d] <= D
  BY ClaimType
<1>2. /\ IsFiniteSet(Calls \ {c})
      /\ Cardinality(Calls \ {c}) = Cardinality(Calls) - 1
  BY FS_RemoveElement
<1> HIDE DEF f
<1>3. SumFunctionOnSet(f, Calls \ {c}) <= Cardinality(Calls \ {c}) * D
  BY <1>1, <1>2, SumBounded
<1> QED
  BY <1>2, <1>3 DEF f, Claims, OthersReach

\* A step of one handler changes nobody else's claim.
LEMMA OthersKeepClaims ==
  ASSUME IsFiniteSet(Calls), NEW table \in [Calls -> CallRecord], NEW c \in Calls,
         NEW next \in [Calls -> CallRecord], \A d \in Calls : d # c => next[d] = table[d], NEW k
  PROVE  Claims(next, Calls \ {c}, k) = Claims(table, Calls \ {c}, k)
<1> DEFINE f == [d \in Calls |-> Claim(table[d], k)]
           g == [d \in Calls |-> Claim(next[d], k)]
<1>1. \A d \in Calls \ {c} : f[d] \in Int /\ f[d] = g[d]
  BY ClaimType
<1>2. IsFiniteSet(Calls \ {c})
  BY FS_RemoveElement
<1> HIDE DEF f, g
<1>3. SumFunctionOnSet(f, Calls \ {c}) = SumFunctionOnSet(g, Calls \ {c})
  BY <1>1, <1>2, SumSame
<1> QED
  BY <1>3 DEF f, g, Claims

\* What a step of one handler must do: leave no row shorter than it was, unless
\* the row has what it promises and what this handler claims.
LEMMA OverdraftStep ==
  ASSUME IsFiniteSet(Calls), NEW D \in Nat, OverdraftInv(D), TypeInv', NEW c \in Calls,
         NEW q, calls' = [calls EXCEPT ![c] = q], q.op = "apply" => q.days <= D,
         \A k \in Key : \/ Shortfall(balances', q, k) <= Shortfall(balances, calls[c], k)
                        \/ Shortfall(balances', q, k) <= 0
  PROVE  OverdraftInv(D)'
<1>0. /\ calls \in [Calls -> CallRecord] /\ calls' \in [Calls -> CallRecord]
      /\ balances \in [Key -> Row] /\ balances' \in [Key -> Row]
      /\ calls'[c] = q /\ \A d \in Calls : d # c => calls'[d] = calls[d]
  BY DEF OverdraftInv, TypeInv, TypeOK, CallRecord
<1>1. \A d \in Calls : calls'[d].op = "apply" => calls'[d].days <= D
  BY <1>0 DEF OverdraftInv
<1>2. OthersReach(D) \in Int
  BY FS_CardinalityType DEF OthersReach
<1>3. ASSUME NEW k \in Key
      PROVE  balances'[k].used + balances'[k].pending + Claims(calls', Calls, k)
               <= balances'[k].accrued + OthersReach(D)
  <2> DEFINE others == Claims(calls, Calls \ {c}, k)
  <2>1. others \in Nat /\ Claims(calls, Calls, k) = Claim(calls[c], k) + others
    BY <1>0, ClaimsWithout
  <2>2. Claims(calls', Calls, k) = Claim(q, k) + others
    <3>1. Claims(calls', Calls, k) = Claim(calls'[c], k) + Claims(calls', Calls \ {c}, k)
      BY <1>0, ClaimsWithout
    <3>2. Claims(calls', Calls \ {c}, k) = Claims(calls, Calls \ {c}, k)
      BY ONLY <1>0, IsFiniteSet(Calls), c \in Calls, OthersKeepClaims
    <3> QED
      BY <1>0, <3>1, <3>2
  <2>3. others <= OthersReach(D)
    BY <1>0, OthersClaim DEF OverdraftInv
  <2>4. /\ Claim(calls[c], k) \in Nat /\ Claim(q, k) \in Nat
        /\ balances[k] \in Row /\ balances'[k] \in Row
    BY <1>0, ClaimType
  <2>5. balances[k].used + balances[k].pending + Claim(calls[c], k) + others
          <= balances[k].accrued + OthersReach(D)
    BY <2>1, <2>4 DEF OverdraftInv, Row
  <2> HIDE DEF others
  <2>6. CASE Shortfall(balances', q, k) <= Shortfall(balances, calls[c], k)
    BY <1>2, <2>1, <2>2, <2>4, <2>5, <2>6 DEF Shortfall, Row
  <2>7. CASE Shortfall(balances', q, k) <= 0
    BY <1>2, <2>1, <2>2, <2>3, <2>4, <2>7 DEF Shortfall, Row
  <2> QED
    BY <2>6, <2>7
<1>4. \A k \in Key : Claims(calls, Calls, k)' = Claims(calls', Calls, k)
  BY DEF Claims, Claim, BalanceKey
<1>5. OthersReach(D)' = OthersReach(D)
  BY DEF OthersReach
<1> QED
  BY <1>1, <1>3, <1>4, <1>5 DEF OverdraftInv

\* A handler that claims nothing after a step that charged no row.
LEMMA OverdraftEased ==
  ASSUME IsFiniteSet(Calls), NEW D \in Nat, OverdraftInv(D), TypeInv', NEW c \in Calls,
         NEW q, calls' = [calls EXCEPT ![c] = q], q.op = "apply" => q.days <= D,
         \A k \in Key : Claim(q, k) = 0,
         \A k \in Key : \/ balances'[k].used + balances'[k].pending - balances'[k].accrued
                             <= balances[k].used + balances[k].pending - balances[k].accrued
                        \/ balances'[k].used + balances'[k].pending <= balances'[k].accrued
  PROVE  OverdraftInv(D)'
<1>1. ASSUME NEW k \in Key
      PROVE  \/ Shortfall(balances', q, k) <= Shortfall(balances, calls[c], k)
             \/ Shortfall(balances', q, k) <= 0
  <2>1. calls[c] \in CallRecord /\ balances[k] \in Row /\ balances'[k] \in Row
    BY DEF OverdraftInv, TypeInv, TypeOK, CallRecord
  <2>2. Claim(calls[c], k) \in Nat /\ Claim(q, k) = 0
    BY <2>1, ClaimType
  <2> QED
    BY <2>1, <2>2 DEF Shortfall, Row
<1> QED
  BY <1>1, OverdraftStep

\* Only an application that waits to reserve claims anything.
LEMMA NoClaim ==
  ASSUME NEW q, ~(q.op = "apply" /\ q.pc = "reserve"), NEW k
  PROVE  Claim(q, k) = 0
BY DEF Claim

\* Seeding a row leaves it as it is, or with all it has accrued.
LEMMA UpsertEases ==
  ASSUME TypeOK, NEW k0 \in Key, NEW quota \in Nat, balances' = Upsert(k0, quota), NEW k \in Key
  PROVE  \/ balances'[k] = balances[k]
         \/ balances'[k].used + balances'[k].pending <= balances'[k].accrued
BY DEF TypeOK, Upsert, Row

\* Giving days back, or moving them from pending to used, charges no row.
LEMMA AdjustEases ==
  ASSUME TypeOK, NEW k0 \in Key, NEW by \in [used : Int, pending : Int],
         by.used + by.pending <= 0, balances' = Adjust(k0, by), NEW k \in Key
  PROVE  balances'[k].used + balances'[k].pending - balances'[k].accrued
           <= balances[k].used + balances[k].pending - balances[k].accrued
<1>1. balances \in [Key -> Row]
  BY DEF TypeOK
<1>2. balances[k] \in Row
  BY <1>1
<1>3. CASE k = k0 /\ balances[k0].exists
  <2>1. balances'[k] = [exists |-> TRUE, accrued |-> balances[k].accrued,
                        used |-> balances[k].used + by.used,
                        pending |-> balances[k].pending + by.pending]
    BY <1>1, <1>3 DEF Adjust
  <2>2. /\ balances'[k].accrued = balances[k].accrued
        /\ balances'[k].used = balances[k].used + by.used
        /\ balances'[k].pending = balances[k].pending + by.pending
    BY <2>1
  <2>3. by.used \in Int /\ by.pending \in Int
    OBVIOUS
  <2> QED
    BY <1>2, <2>2, <2>3 DEF Row
<1>4. CASE ~(k = k0 /\ balances[k0].exists)
  <2>1. balances'[k] = balances[k]
    BY <1>1, <1>4 DEF Adjust
  <2> QED
    BY <1>2, <2>1 DEF Row
<1> QED
  BY <1>3, <1>4

\* Every query keeps OverdraftInv, whatever the clients let overlap.
LEMMA OverdraftInvNext ==
  ASSUME IsFiniteSet(Calls), NEW D \in Nat, AtMostDays(D)
  PROVE  OverdraftInv(D) /\ [Next]_vars => OverdraftInv(D)'
<1> SUFFICES ASSUME OverdraftInv(D), [Next]_vars PROVE OverdraftInv(D)'
  OBVIOUS
<1>0. TypeInv /\ TypeOK /\ \A c \in Calls : calls[c].op = "apply" => calls[c].days <= D
  BY DEF OverdraftInv, TypeInv
<1>t. TypeInv'
  BY <1>0, TypeInvNext
<1>idle. Idle.op # "apply" /\ \A k \in Key : Claim(Idle, k) = 0
  BY NoClaim DEF Idle
<1>same. UNCHANGED balances =>
           \A k \in Key : balances'[k].used + balances'[k].pending - balances'[k].accrued
                            <= balances[k].used + balances[k].pending - balances[k].accrued
  BY <1>0 DEF TypeOK, Row
<1>1. ASSUME NEW t \in LeaveTypes, NEW p \in Policies, CreatePolicy(t, p)
      PROVE  OverdraftInv(D)'
  BY <1>t, <1>1 DEF CreatePolicy, OverdraftInv, Claims, Claim, BalanceKey, OthersReach
<1>2. ASSUME NEW c \in Calls, NEW e \in Employees, NEW t \in LeaveTypes,
             NEW start \in Days, NEW end \in Days, ApplyStart(c, e, t, start, end)
      PROVE  OverdraftInv(D)'
  <2> DEFINE q == [op |-> "apply", pc |-> "overlap", emp |-> e, type |-> t,
                   start |-> start, end |-> end, days |-> WorkingDays(e, start, end),
                   quota |-> policy[t].annualQuota]
  <2>1. policy[t] \in Policies
    BY <1>0, <1>2 DEF ApplyStart, TypeOK
  <2>2. q.days <= D
    BY <1>2, <2>1 DEF ApplyStart, AtMostDays
  <2>3. calls' = [calls EXCEPT ![c] = q] /\ UNCHANGED balances /\ q.pc = "overlap"
    BY <1>2 DEF ApplyStart
  <2> HIDE DEF q
  <2> QED
    BY <1>t, <1>same, <2>2, <2>3, NoClaim, OverdraftEased
<1>3. ASSUME NEW c \in Calls, ApplyCheckOverlap(c) PROVE OverdraftInv(D)'
  <2>1. CASE Return(c)
    BY <1>3, <1>t, <1>idle, <1>same, <2>1, OverdraftEased DEF ApplyCheckOverlap, Return
  <2>2. CASE Goto(c, "ensure")
    <3>1. PICK q \in ApplyCall : /\ calls' = [calls EXCEPT ![c] = q]
                                 /\ q.pc = "ensure" /\ q.days = calls[c].days
      BY <1>0, <1>3, <2>2, GotoApply DEF ApplyCheckOverlap
    <3>2. q.days <= D /\ UNCHANGED balances
      BY <1>0, <1>3, <3>1 DEF ApplyCheckOverlap
    <3> QED
      BY <1>t, <1>same, <3>1, <3>2, NoClaim, OverdraftEased
  <2> QED
    BY <1>3, <2>1, <2>2 DEF ApplyCheckOverlap
<1>4. ASSUME NEW c \in Calls, ApplyEnsureBalance(c) PROVE OverdraftInv(D)'
  <2> DEFINE k0 == BalanceKey(calls[c])
  <2>1. calls[c] \in ApplyCall /\ k0 \in Key /\ calls[c].quota \in Nat /\ calls[c].days \in Nat
    BY <1>0, <1>4, CallShape, BalanceKeyType DEF ApplyEnsureBalance, ApplyCall
  <2>2. balances' = Upsert(k0, calls[c].quota)
    BY <1>4 DEF ApplyEnsureBalance
  <2>3. ASSUME NEW k \in Key
        PROVE  \/ balances'[k].used + balances'[k].pending - balances'[k].accrued
                    <= balances[k].used + balances[k].pending - balances[k].accrued
               \/ balances'[k].used + balances'[k].pending <= balances'[k].accrued
    BY <1>0, <2>1, <2>2, UpsertEases DEF TypeOK, Row
  <2>4. CASE calls[c].days > Available(balances'[k0])
    BY <1>4, <1>t, <1>idle, <2>3, <2>4, OverdraftEased DEF ApplyEnsureBalance, Return
  <2>5. CASE ~(calls[c].days > Available(balances'[k0]))
    <3>1. PICK q \in ApplyCall :
            /\ calls' = [calls EXCEPT ![c] = q] /\ q.pc = "reserve"
            /\ q.emp = calls[c].emp /\ q.type = calls[c].type
            /\ q.start = calls[c].start /\ q.days = calls[c].days
      BY <1>0, <1>4, <2>5, GotoApply DEF ApplyEnsureBalance
    <3>2. q.days <= D /\ BalanceKey(q) = k0
      BY <1>0, <1>4, <3>1 DEF ApplyEnsureBalance, BalanceKey
    <3>3. ASSUME NEW k \in Key
          PROVE  \/ Shortfall(balances', q, k) <= Shortfall(balances, calls[c], k)
                 \/ Shortfall(balances', q, k) <= 0
      <4>1. balances[k] \in Row /\ balances'[k] \in Row
        BY <1>0, <1>t DEF TypeOK, TypeInv
      <4>2. CASE k = k0
        <5>1. calls[c].days <= Available(balances'[k])
          BY <2>1, <2>5, <4>1, <4>2 DEF Available, Row
        <5>2. Claim(q, k) = calls[c].days
          BY <3>1, <3>2, <4>2 DEF Claim, ApplyCall
        <5> QED
          BY <2>1, <4>1, <5>1, <5>2 DEF Shortfall, Available, Row
      <4>3. CASE k # k0
        <5>1. balances'[k] = balances[k]
          BY <1>0, <2>1, <2>2, <4>3 DEF Upsert, TypeOK
        <5>2. Claim(q, k) = 0 /\ Claim(calls[c], k) = 0
          BY <3>2, <4>3 DEF Claim
        <5> QED
          BY <4>1, <5>1, <5>2 DEF Shortfall, Row
      <4> QED
        BY <4>2, <4>3
    <3> QED
      BY <1>t, <3>1, <3>2, <3>3, OverdraftStep
  <2> QED
    BY <2>4, <2>5
<1>5. ASSUME NEW c \in Calls, ApplyReserve(c) PROVE OverdraftInv(D)'
  <2> DEFINE k0 == BalanceKey(calls[c])
             by == [used |-> 0, pending |-> calls[c].days]
  <2>1. calls[c] \in ApplyCall /\ k0 \in Key /\ calls[c].days \in Nat
    BY <1>0, <1>5, CallShape, BalanceKeyType DEF ApplyReserve, ApplyCall
  <2>2. PICK q \in ApplyCall : /\ calls' = [calls EXCEPT ![c] = q]
                               /\ q.pc = "create" /\ q.days = calls[c].days
    BY <1>0, <1>5, GotoApply DEF ApplyReserve
  <2>3. q.days <= D
    BY <1>0, <1>5, <2>2 DEF ApplyReserve
  <2>4. balances' = Adjust(k0, by)
    BY <1>5 DEF ApplyReserve
  <2>5. ASSUME NEW k \in Key
        PROVE  Shortfall(balances', q, k) <= Shortfall(balances, calls[c], k)
    <3>1. balances[k] \in Row /\ balances'[k] \in Row
      BY <1>0, <1>t DEF TypeOK, TypeInv
    <3>2. Claim(q, k) = 0
      BY <2>2, NoClaim
    <3>3. CASE k = k0 /\ balances[k0].exists
      <4>1. balances'[k] = [exists |-> TRUE, accrued |-> balances[k].accrued,
                            used |-> balances[k].used + 0,
                            pending |-> balances[k].pending + calls[c].days]
        BY <1>0, <2>4, <3>3 DEF Adjust, TypeOK
      <4>2. /\ balances'[k].accrued = balances[k].accrued
            /\ balances'[k].used = balances[k].used
            /\ balances'[k].pending = balances[k].pending + calls[c].days
        BY <3>1, <4>1 DEF Row
      <4>3. Claim(calls[c], k) = calls[c].days
        BY <1>5, <3>3 DEF ApplyReserve, Claim
      <4> QED
        BY <2>1, <3>1, <3>2, <4>2, <4>3 DEF Shortfall, Row
    <3>4. CASE ~(k = k0 /\ balances[k0].exists)
      <4>1. balances'[k] = balances[k]
        BY <1>0, <2>4, <3>4 DEF Adjust, TypeOK
      <4>2. Claim(calls[c], k) \in Nat
        BY <2>1, ClaimType DEF CallRecord
      <4> QED
        BY <3>1, <3>2, <4>1, <4>2 DEF Shortfall, Row
    <3> QED
      BY <3>3, <3>4
  <2> QED
    BY <1>t, <2>2, <2>3, <2>5, OverdraftStep
<1>6. ASSUME NEW c \in Calls, NEW r \in Requests, ApplyCreate(c, r) PROVE OverdraftInv(D)'
  BY <1>6, <1>t, <1>idle, <1>same, OverdraftEased DEF ApplyCreate, Return
<1>7. ASSUME NEW c \in Calls, NEW r \in Requests, NEW verdict \in {"APPROVED", "REJECTED"},
             DecideStart(c, r, verdict)
      PROVE  OverdraftInv(D)'
  <2> DEFINE q == [op |-> "decide", pc |-> "adjust", emp |-> requests[r].emp, req |-> r,
                   verdict |-> verdict]
  <2>1. calls' = [calls EXCEPT ![c] = q] /\ q.op # "apply" /\ UNCHANGED balances
    BY <1>7 DEF DecideStart
  <2> HIDE DEF q
  <2> QED
    BY <1>t, <1>same, <2>1, NoClaim, OverdraftEased
<1>8. ASSUME NEW c \in Calls, DecideAdjust(c) PROVE OverdraftInv(D)'
  <2> DEFINE r == calls[c].req
             by == DecisionDelta(calls[c].verdict, requests[r].days)
  <2>1. requests[r] \in Request /\ BalanceKey(requests[r]) \in Key
    BY <1>0, <1>8, CallShape, RequestShape
    DEF DecideAdjust, TypeInv, ReferencesStored, DecideCall
  <2>2. by \in [used : Int, pending : Int] /\ by.used + by.pending <= 0
    BY <2>1 DEF DecisionDelta, Request
  <2> HIDE DEF by
  <2>3. balances' = Adjust(BalanceKey(requests[r]), by)
    BY <1>8 DEF DecideAdjust, by
  <2>4. PICK q \in DecideCall \cup CancelCall : calls' = [calls EXCEPT ![c] = q]
    BY <1>0, <1>8, GotoUpdate DEF DecideAdjust
  <2>5. q.op # "apply"
    BY DEF DecideCall, CancelCall
  <2>6. \A k \in Key : balances'[k].used + balances'[k].pending - balances'[k].accrued
                         <= balances[k].used + balances[k].pending - balances[k].accrued
    BY <1>0, <2>1, <2>2, <2>3, AdjustEases
  <2> QED
    BY <1>t, <2>4, <2>5, <2>6, NoClaim, OverdraftEased
<1>9. ASSUME NEW c \in Calls, DecideUpdate(c) PROVE OverdraftInv(D)'
  BY <1>9, <1>t, <1>idle, <1>same, OverdraftEased DEF DecideUpdate, Return
<1>10. ASSUME NEW c \in Calls, NEW r \in Requests, CancelStart(c, r) PROVE OverdraftInv(D)'
  <2> DEFINE q == [op |-> "cancel", pc |-> "adjust", emp |-> requests[r].emp, req |-> r,
                   seen |-> requests[r].status]
  <2>1. calls' = [calls EXCEPT ![c] = q] /\ q.op # "apply" /\ UNCHANGED balances
    BY <1>10 DEF CancelStart
  <2> HIDE DEF q
  <2> QED
    BY <1>t, <1>same, <2>1, NoClaim, OverdraftEased
<1>11. ASSUME NEW c \in Calls, CancelAdjust(c) PROVE OverdraftInv(D)'
  <2> DEFINE r == calls[c].req
             by == Refund(calls[c].seen, requests[r].days)
  <2>1. requests[r] \in Request /\ BalanceKey(requests[r]) \in Key
    BY <1>0, <1>11, CallShape, RequestShape
    DEF CancelAdjust, TypeInv, ReferencesStored, CancelCall
  <2>2. by \in [used : Int, pending : Int] /\ by.used + by.pending <= 0
    BY <2>1 DEF Refund, Request
  <2> HIDE DEF by
  <2>3. balances' = Adjust(BalanceKey(requests[r]), by)
    BY <1>11 DEF CancelAdjust, by
  <2>4. PICK q \in DecideCall \cup CancelCall : calls' = [calls EXCEPT ![c] = q]
    BY <1>0, <1>11, GotoUpdate DEF CancelAdjust
  <2>5. q.op # "apply"
    BY DEF DecideCall, CancelCall
  <2>6. \A k \in Key : balances'[k].used + balances'[k].pending - balances'[k].accrued
                         <= balances[k].used + balances[k].pending - balances[k].accrued
    BY <1>0, <2>1, <2>2, <2>3, AdjustEases
  <2> QED
    BY <1>t, <2>4, <2>5, <2>6, NoClaim, OverdraftEased
<1>12. ASSUME NEW c \in Calls, CancelUpdate(c) PROVE OverdraftInv(D)'
  BY <1>12, <1>t, <1>idle, <1>same, OverdraftEased DEF CancelUpdate, Return
<1>13. ASSUME NEW c \in Calls, NEW k \in Key, BalancesStart(c, k) PROVE OverdraftInv(D)'
  <2> DEFINE q == [op |-> "balances", emp |-> k[1], key |-> k,
                   quota |-> policy[k[2]].annualQuota]
  <2>1. calls' = [calls EXCEPT ![c] = q] /\ q.op # "apply" /\ UNCHANGED balances
    BY <1>13 DEF BalancesStart
  <2> HIDE DEF q
  <2> QED
    BY <1>t, <1>same, <2>1, NoClaim, OverdraftEased
<1>14. ASSUME NEW c \in Calls, BalancesSeed(c) PROVE OverdraftInv(D)'
  <2>1. calls[c].key \in Key /\ calls[c].quota \in Nat
    BY <1>0, <1>14, CallShape DEF BalancesSeed, BalancesCall
  <2>2. balances' = Upsert(calls[c].key, calls[c].quota)
    BY <1>14 DEF BalancesSeed
  <2>3. ASSUME NEW k \in Key
        PROVE  \/ balances'[k].used + balances'[k].pending - balances'[k].accrued
                    <= balances[k].used + balances[k].pending - balances[k].accrued
               \/ balances'[k].used + balances'[k].pending <= balances'[k].accrued
    BY <1>0, <2>1, <2>2, UpsertEases DEF TypeOK, Row
  <2> QED
    BY <1>14, <1>t, <1>idle, <2>3, OverdraftEased DEF BalancesSeed, Return
<1>15. ASSUME NEW c \in Calls, Fail(c) PROVE OverdraftInv(D)'
  BY <1>15, <1>t, <1>idle, <1>same, OverdraftEased DEF Fail, Return
<1>16. CASE UNCHANGED vars
  BY <1>t, <1>16 DEF vars, OverdraftInv, Claims, Claim, BalanceKey, OthersReach
<1> QED
  BY <1>1, <1>2, <1>3, <1>4, <1>5, <1>6, <1>7, <1>8, <1>9, <1>10, <1>11, <1>12, <1>13,
     <1>14, <1>15, <1>16 DEF Next

\* Nobody claims anything at the start.
LEMMA OverdraftInvInit ==
  ASSUME IsFiniteSet(Calls), Calls # {}, NEW D \in Nat
  PROVE  Init => OverdraftInv(D)
<1> SUFFICES ASSUME Init PROVE OverdraftInv(D)
  OBVIOUS
<1>1. TypeInv /\ calls = [c \in Calls |-> Idle] /\ balances = [k \in Key |-> NoRow]
  BY TypeInvInit DEF Init
<1>2. ASSUME NEW k \in Key PROVE Claims(calls, Calls, k) = 0
  <2> DEFINE f == [c \in Calls |-> Claim(calls[c], k)]
  <2>1. \A c \in Calls : f[c] = 0
    BY <1>1, NoClaim DEF Idle
  <2> HIDE DEF f
  <2>2. SumFunctionOnSet(f, Calls) = 0
    BY <2>1, SumZero
  <2> QED
    BY <2>2 DEF Claims, f
<1>3. OthersReach(D) >= 0
  <2>1. Cardinality(Calls) \in Nat /\ Cardinality(Calls) # 0
    BY FS_CardinalityType, FS_EmptySet
  <2> DEFINE n == Cardinality(Calls) - 1
  <2>2. n \in Nat
    BY <2>1
  <2> HIDE DEF n
  <2>3. n * D >= 0
    BY <2>2
  <2> QED
    BY <2>3 DEF OthersReach, n
<1>4. OthersReach(D) \in Int
  BY FS_CardinalityType DEF OthersReach
<1> QED
  BY <1>1, <1>2, <1>3, <1>4 DEF OverdraftInv, NoRow, Idle

\* What the race between two applications of one employee can do: with any calls
\* in flight together, a balance is never overdrawn by more than one longest
\* application for each handler but one, so with one handler not at all.
THEOREM OverdraftIsBounded ==
  ASSUME IsFiniteSet(Calls), Calls # {}, NEW D \in Nat, AtMostDays(D)
  PROVE  Spec => [](\A k \in Key :
                      balances[k].used + balances[k].pending
                        <= balances[k].accrued + (Cardinality(Calls) - 1) * D)
<1> DEFINE Bounded == \A k \in Key : balances[k].used + balances[k].pending
                                       <= balances[k].accrued + (Cardinality(Calls) - 1) * D
<1>1. Init => OverdraftInv(D)
  BY OverdraftInvInit
<1>2. OverdraftInv(D) /\ [Next]_vars => OverdraftInv(D)'
  BY OverdraftInvNext
<1>3. OverdraftInv(D) => Bounded
  <2> SUFFICES ASSUME OverdraftInv(D), NEW k \in Key
               PROVE  balances[k].used + balances[k].pending
                        <= balances[k].accrued + OthersReach(D)
    BY DEF OthersReach
  <2>1. calls \in [Calls -> CallRecord] /\ balances[k] \in Row
    BY DEF OverdraftInv, TypeInv, TypeOK, CallRecord
  <2>2. Claims(calls, Calls, k) \in Nat
    <3>1. PICK c \in Calls : TRUE
      OBVIOUS
    <3>2. Claim(calls[c], k) \in Nat /\ Claims(calls, Calls \ {c}, k) \in Nat
      BY <2>1, ClaimType, ClaimsWithout
    <3> QED
      BY <2>1, <3>2, ClaimsWithout
  <2>3. OthersReach(D) \in Int
    BY FS_CardinalityType DEF OthersReach
  <2> QED
    BY <2>1, <2>2, <2>3 DEF OverdraftInv, Row
<1> HIDE DEF Bounded
<1>4. Spec => []Bounded
  BY <1>1, <1>2, <1>3, PTL DEF Spec
<1> QED
  BY <1>4 DEF Bounded
------------------------------------------------------------------------------
(* No two live requests of an employee overlap and a request only moves      *)
(* along its workflow, if an employee has one writing call in flight.  The   *)
(* overlap check is two awaits old when the request is created, and the      *)
(* status check is one await old when the status is written: the invariant   *)
(* says that both are still true, because the rows they were made on belong  *)
(* to an employee nobody else is writing for.                                *)

OneWriter ==
  \A c, d \in Calls :
    calls[c].op \in Writes /\ calls[d].op \in Writes /\ calls[c].emp = calls[d].emp => c = d

\* A decision still faces a pending request, a cancellation a live one.
TargetOpen(q) ==
  /\ q.op = "decide" => requests[q.req].status = "PENDING"
  /\ q.op = "cancel" => requests[q.req].status \in Live
  /\ q.op \in {"decide", "cancel"} => requests[q.req].emp = q.emp

LiveOf(e) == {r \in Requests : requests[r].status \in Live /\ requests[r].emp = e}

\* An application that passed the overlap check would still pass it.
StillDisjoint(q) ==
  q.op = "apply" /\ q.pc \in {"ensure", "reserve", "create"} =>
    \A r \in LiveOf(q.emp) : ~HasOverlap(q, requests[r])

PairwiseDisjoint ==
  \A r, s \in Requests :
    /\ r # s
    /\ requests[r].status \in Live /\ requests[s].status \in Live
    /\ requests[r].emp = requests[s].emp
    => ~HasOverlap(requests[r], requests[s])

SerialInv ==
  /\ TypeInv
  /\ OneWriter
  /\ \A c \in Calls : TargetOpen(calls[c]) /\ StillDisjoint(calls[c])
  /\ PairwiseDisjoint

\* Nobody else writes for the employee of q.
NoRival(c, q) ==
  \A d \in Calls : d # c /\ calls[d].op \in Writes => calls[d].emp # q.emp

\* A handler starts, moves on or ends without writing a request.
LEMMA SerialHandlerStep ==
  ASSUME SerialInv, TypeInv', NEW c \in Calls, NEW q,
         calls' = [calls EXCEPT ![c] = q], UNCHANGED requests,
         q.op \in Writes => NoRival(c, q),
         TargetOpen(q), StillDisjoint(q)
  PROVE  SerialInv'
<1>1. ASSUME NEW d \in Calls
      PROVE  calls'[d] = IF d = c THEN q ELSE calls[d]
  BY DEF SerialInv, TypeInv, TypeOK
<1>2. OneWriter'
  BY <1>1 DEF SerialInv, OneWriter, NoRival
<1>3. ASSUME NEW d \in Calls
      PROVE  TargetOpen(calls[d])' /\ StillDisjoint(calls[d])'
  BY <1>1 DEF SerialInv, TargetOpen, StillDisjoint, LiveOf, HasOverlap
<1>4. PairwiseDisjoint'
  BY DEF SerialInv, PairwiseDisjoint, HasOverlap
<1>. QED
  BY <1>2, <1>3, <1>4 DEF SerialInv

\* A handler ends by writing a request of the employee it works for.
LEMMA SerialRequestStep ==
  ASSUME SerialInv, TypeInv', NEW c \in Calls, NEW r \in Requests, NEW row \in Request,
         calls[c].op \in Writes, Return(c),
         requests' = [requests EXCEPT ![r] = row],
         row.emp = calls[c].emp,
         requests[r] # NoRequest => requests[r].emp = calls[c].emp,
         row.status \in Live =>
           \A s \in LiveOf(row.emp) : s # r => ~HasOverlap(row, requests[s])
  PROVE  SerialInv'
<1>1. /\ \A d \in Calls : calls'[d] = IF d = c THEN Idle ELSE calls[d]
      /\ \A s \in Requests : requests'[s] = IF s = r THEN row ELSE requests[s]
  BY DEF SerialInv, TypeInv, TypeOK, Return
<1>2. Idle.op \notin Writes /\ Writes = {"apply", "decide", "cancel"}
  BY DEF Idle, Writes
<1>3. OneWriter'
  BY <1>1, <1>2 DEF SerialInv, OneWriter
<1>4. ASSUME NEW d \in Calls
      PROVE  TargetOpen(calls[d])' /\ StillDisjoint(calls[d])'
  <2>1. CASE calls'[d].op \notin Writes
    BY <1>2, <2>1 DEF TargetOpen, StillDisjoint
  <2>2. CASE calls'[d].op \in Writes
    <3>1. d # c /\ calls'[d] = calls[d] /\ calls[d].op \in Writes
      BY <1>1, <1>2, <2>2
    <3>2. calls[d].emp # calls[c].emp
      BY <3>1 DEF SerialInv, OneWriter
    <3>3. TargetOpen(calls[d])'
      <4>1. CASE calls[d].op \notin {"decide", "cancel"}
        BY <3>1, <4>1 DEF TargetOpen
      <4>2. CASE calls[d].op \in {"decide", "cancel"}
        <5>1. calls[d].req \in Requests /\ requests[calls[d].req] # NoRequest
          BY <4>2, CallShape DEF SerialInv, TypeInv, ReferencesStored, DecideCall, CancelCall
        <5>2. TargetOpen(calls[d])
          BY DEF SerialInv
        <5>3. calls[d].req # r
          BY <3>2, <4>2, <5>1, <5>2 DEF TargetOpen
        <5>. QED
          BY <1>1, <3>1, <5>1, <5>2, <5>3 DEF TargetOpen
      <4>. QED
        BY <4>1, <4>2
    <3>4. LiveOf(calls[d].emp)' \subseteq LiveOf(calls[d].emp) \ {r}
      BY <1>1, <3>1, <3>2 DEF LiveOf
    <3>5. StillDisjoint(calls[d])
      BY DEF SerialInv
    <3>6. \A s \in LiveOf(calls[d].emp)' : requests'[s] = requests[s]
      BY <1>1, <3>4 DEF LiveOf
    <3>7. StillDisjoint(calls[d])'
      BY <3>1, <3>4, <3>5, <3>6 DEF StillDisjoint, HasOverlap
    <3>. QED
      BY <3>3, <3>7
  <2>. QED
    BY <2>1, <2>2
<1>5. PairwiseDisjoint'
  <2> SUFFICES ASSUME NEW s \in Requests, NEW t \in Requests, s # t,
                      requests'[s].status \in Live, requests'[t].status \in Live,
                      requests'[s].emp = requests'[t].emp
               PROVE  ~HasOverlap(requests'[s], requests'[t])
    BY DEF PairwiseDisjoint, HasOverlap
  <2>1. CASE s # r /\ t # r
    BY <1>1, <2>1 DEF SerialInv, PairwiseDisjoint
  <2>2. CASE s = r
    BY <1>1, <2>2 DEF LiveOf
  <2>3. CASE t = r
    BY <1>1, <2>3 DEF LiveOf, HasOverlap
  <2>. QED
    BY <2>1, <2>2, <2>3
<1>. QED
  BY <1>3, <1>4, <1>5 DEF SerialInv

\* No handler is in flight at the start.
LEMMA SerialInvInit == Init => SerialInv
<1> SUFFICES ASSUME Init PROVE SerialInv
  OBVIOUS
<1>1. TypeInv
  BY TypeInvInit
<1>2. \A c \in Calls : calls[c] = Idle
  BY DEF Init
<1>3. \A r \in Requests : requests[r].status \notin Live
  BY DEF Init, NoRequest, Live
<1>. QED
  BY <1>1, <1>2, <1>3 DEF SerialInv, OneWriter, TargetOpen, StillDisjoint,
     PairwiseDisjoint, Idle, Writes

\* What the invariant says of the request a decision or cancellation is about.
LEMMA SerialTarget ==
  ASSUME SerialInv, NEW c \in Calls, calls[c].op \in {"decide", "cancel"}
  PROVE  /\ calls[c].req \in Requests
         /\ requests[calls[c].req] \in Request
         /\ requests[calls[c].req].status \in Live
         /\ requests[calls[c].req].emp = calls[c].emp
         /\ calls[c].op = "decide" => requests[calls[c].req].status = "PENDING"
         /\ calls[c].op = "decide" => calls[c].verdict \in {"APPROVED", "REJECTED"}
<1>1. calls[c].req \in Requests /\ requests[calls[c].req] # NoRequest
  BY CallShape DEF SerialInv, TypeInv, ReferencesStored, DecideCall, CancelCall
<1>2. requests[calls[c].req] \in Request
  BY <1>1, RequestShape DEF SerialInv, TypeInv
<1>3. TargetOpen(calls[c])
  BY DEF SerialInv
<1>4. calls[c].op = "decide" => calls[c].verdict \in {"APPROVED", "REJECTED"}
  BY CallShape DEF SerialInv, TypeInv, DecideCall
<1>. QED
  BY <1>1, <1>2, <1>3, <1>4 DEF TargetOpen, Live

\* A live request whose status is rewritten keeps its range and its employee.
LEMMA SerialStatusWrite ==
  ASSUME SerialInv, TypeInv', NEW c \in Calls, calls[c].op \in {"decide", "cancel"},
         NEW status \in {"APPROVED", "REJECTED", "CANCELLED"}, Return(c),
         requests' = [requests EXCEPT ![calls[c].req].status = status]
  PROVE  SerialInv'
<1> DEFINE r == calls[c].req
           row == [requests[r] EXCEPT !.status = status]
<1>1. /\ r \in Requests /\ requests[r] \in Request
      /\ requests[r].status \in Live /\ requests[r].emp = calls[c].emp
  BY SerialTarget
<1>2. row \in Request /\ row.emp = calls[c].emp
      /\ row.start = requests[r].start /\ row.end = requests[r].end
  BY <1>1 DEF Request
<1>3. requests' = [requests EXCEPT ![r] = row]
  BY DEF SerialInv, TypeInv, TypeOK
<1>4. ASSUME NEW s \in LiveOf(row.emp), s # r
      PROVE  ~HasOverlap(row, requests[s])
  BY <1>1, <1>2, <1>4 DEF LiveOf, SerialInv, PairwiseDisjoint, HasOverlap
<1>5. calls[c].op \in Writes
  BY DEF Writes
<1> HIDE DEF row
<1>. QED
  BY <1>1, <1>2, <1>3, <1>4, <1>5, SerialRequestStep
\* A handler that writes goes on writing for the same employee.
LEMMA SameWriter ==
  ASSUME SerialInv, NEW c \in Calls, calls[c].op \in Writes, NEW q, q.emp = calls[c].emp
  PROVE  NoRival(c, q)
BY DEF SerialInv, OneWriter, NoRival

\* An application that moves on is still disjoint from the live requests.
LEMMA SerialApplyGoto ==
  ASSUME SerialInv, TypeInv', NEW c \in Calls, calls[c].op = "apply",
         NEW pc \in {"overlap", "ensure", "reserve", "create"}, Goto(c, pc),
         UNCHANGED requests,
         \/ calls[c].pc \in {"ensure", "reserve", "create"}
         \/ \A r \in LiveOf(calls[c].emp) : ~HasOverlap(calls[c], requests[r])
  PROVE  SerialInv'
<1>1. PICK q \in ApplyCall :
        /\ calls' = [calls EXCEPT ![c] = q]
        /\ q.op = "apply" /\ q.pc = pc /\ q.emp = calls[c].emp
        /\ q.type = calls[c].type /\ q.start = calls[c].start
        /\ q.end = calls[c].end /\ q.days = calls[c].days
  BY GotoApply DEF SerialInv, TypeInv
<1>2. StillDisjoint(calls[c])
  BY DEF SerialInv
<1>3. TargetOpen(q) /\ StillDisjoint(q)
  BY <1>1, <1>2 DEF TargetOpen, StillDisjoint, HasOverlap
<1>. QED
  BY <1>1, <1>3, SameWriter, SerialHandlerStep DEF Writes

\* A decision or a cancellation that moves on still has its request undecided.
LEMMA SerialUpdateGoto ==
  ASSUME SerialInv, TypeInv', NEW c \in Calls, calls[c].op \in {"decide", "cancel"},
         Goto(c, "update"), UNCHANGED requests
  PROVE  SerialInv'
<1>1. PICK q \in DecideCall \cup CancelCall :
        /\ calls' = [calls EXCEPT ![c] = q]
        /\ q.op = calls[c].op /\ q.pc = "update"
        /\ q.emp = calls[c].emp /\ q.req = calls[c].req
  BY GotoUpdate DEF SerialInv, TypeInv
<1>2. TargetOpen(calls[c])
  BY DEF SerialInv
<1>3. TargetOpen(q) /\ StillDisjoint(q)
  BY <1>1, <1>2 DEF TargetOpen, StillDisjoint
<1>. QED
  BY <1>1, <1>3, SameWriter, SerialHandlerStep DEF Writes

\* A handler that ends without writing a request disturbs nobody.
LEMMA SerialReturn ==
  ASSUME SerialInv, TypeInv', NEW c \in Calls, Return(c), UNCHANGED requests
  PROVE  SerialInv'
<1>1. Idle.op \notin Writes /\ TargetOpen(Idle) /\ StillDisjoint(Idle)
  BY DEF Idle, Writes, TargetOpen, StillDisjoint
<1>. QED
  BY <1>1, SerialHandlerStep DEF Return

\* With one writer per employee in flight, every query keeps SerialInv.
LEMMA SerialInvNext ==
  ASSUME Discipline = "oneCall"
  PROVE  SerialInv /\ [Next]_vars => SerialInv'
<1> SUFFICES ASSUME SerialInv, [Next]_vars PROVE SerialInv'
  OBVIOUS
<1>0. TypeInv /\ TypeOK
  BY DEF SerialInv, TypeInv
<1>t. TypeInv'
  BY <1>0, TypeInvNext
<1>1. ASSUME NEW t \in LeaveTypes, NEW p \in Policies, CreatePolicy(t, p)
      PROVE  SerialInv'
  BY <1>t, <1>1 DEF CreatePolicy, SerialInv, OneWriter, TargetOpen, StillDisjoint, LiveOf,
     PairwiseDisjoint, HasOverlap
<1>2. ASSUME NEW c \in Calls, NEW e \in Employees, NEW t \in LeaveTypes,
             NEW start \in Days, NEW end \in Days, ApplyStart(c, e, t, start, end)
      PROVE  SerialInv'
  <2> DEFINE q == [op |-> "apply", pc |-> "overlap", emp |-> e, type |-> t,
                   start |-> start, end |-> end, days |-> WorkingDays(e, start, end),
                   quota |-> policy[t].annualQuota]
  <2>1. calls' = [calls EXCEPT ![c] = q] /\ UNCHANGED requests
        /\ q.op = "apply" /\ q.pc = "overlap" /\ q.emp = e
    BY <1>2 DEF ApplyStart
  <2> HIDE DEF q
  <2>2. NoRival(c, q)
    BY <1>2, <2>1 DEF ApplyStart, MayStart, InFlight, NoRival
  <2>3. TargetOpen(q) /\ StillDisjoint(q)
    BY <2>1 DEF TargetOpen, StillDisjoint
  <2>. QED
    BY <1>t, <2>1, <2>2, <2>3, SerialHandlerStep
<1>3. ASSUME NEW c \in Calls, ApplyCheckOverlap(c) PROVE SerialInv'
  <2>1. calls[c].op = "apply" /\ UNCHANGED requests
    BY <1>3 DEF ApplyCheckOverlap
  <2>2. CASE Return(c)
    BY <1>t, <2>1, <2>2, SerialReturn
  <2>3. CASE ~Return(c)
    <3>1. Goto(c, "ensure") /\ \A r \in LiveOf(calls[c].emp) : ~HasOverlap(calls[c], requests[r])
      BY <1>3, <2>3 DEF ApplyCheckOverlap, ActiveForEmployee, LiveOf
    <3>. QED
      BY <1>t, <2>1, <3>1, SerialApplyGoto
  <2>. QED
    BY <2>2, <2>3
<1>4. ASSUME NEW c \in Calls, ApplyEnsureBalance(c) PROVE SerialInv'
  <2>1. calls[c].op = "apply" /\ calls[c].pc = "ensure" /\ UNCHANGED requests
        /\ (Return(c) \/ Goto(c, "reserve"))
    BY <1>4 DEF ApplyEnsureBalance
  <2>. QED
    BY <1>t, <2>1, SerialReturn, SerialApplyGoto
<1>5. ASSUME NEW c \in Calls, ApplyReserve(c) PROVE SerialInv'
  BY <1>t, <1>5, SerialApplyGoto DEF ApplyReserve
<1>6. ASSUME NEW c \in Calls, NEW r \in Requests, ApplyCreate(c, r) PROVE SerialInv'
  <2> DEFINE row == [status |-> "PENDING", emp |-> calls[c].emp, type |-> calls[c].type,
                     start |-> calls[c].start, end |-> calls[c].end,
                     days |-> calls[c].days]
  <2>1. calls[c] \in ApplyCall
    BY <1>0, <1>6, CallShape DEF ApplyCreate
  <2>2. row \in Request /\ row.emp = calls[c].emp
    BY <2>1 DEF ApplyCall, Request
  <2>3. requests' = [requests EXCEPT ![r] = row] /\ Return(c) /\ requests[r] = NoRequest
        /\ calls[c].op \in Writes
    BY <1>6 DEF ApplyCreate, Writes
  <2>4. StillDisjoint(calls[c])
    BY DEF SerialInv
  <2>5. ASSUME NEW s \in LiveOf(row.emp)
        PROVE  ~HasOverlap(row, requests[s])
    BY <1>6, <2>2, <2>4, <2>5 DEF ApplyCreate, StillDisjoint, HasOverlap
  <2> HIDE DEF row
  <2>. QED
    BY <1>t, <2>2, <2>3, <2>5, SerialRequestStep
<1>7. ASSUME NEW c \in Calls, NEW r \in Requests, NEW verdict \in {"APPROVED", "REJECTED"},
             DecideStart(c, r, verdict)
      PROVE  SerialInv'
  <2> DEFINE q == [op |-> "decide", pc |-> "adjust", emp |-> requests[r].emp, req |-> r,
                   verdict |-> verdict]
  <2>1. calls' = [calls EXCEPT ![c] = q] /\ UNCHANGED requests
        /\ q.op = "decide" /\ q.emp = requests[r].emp /\ q.req = r
        /\ requests[r].status = "PENDING"
    BY <1>7 DEF DecideStart
  <2> HIDE DEF q
  <2>2. NoRival(c, q)
    BY <1>7, <2>1 DEF DecideStart, MayStart, InFlight, NoRival
  <2>3. TargetOpen(q) /\ StillDisjoint(q)
    BY <2>1 DEF TargetOpen, StillDisjoint
  <2>. QED
    BY <1>t, <2>1, <2>2, <2>3, SerialHandlerStep
<1>8. ASSUME NEW c \in Calls, DecideAdjust(c) PROVE SerialInv'
  BY <1>t, <1>8, SerialUpdateGoto DEF DecideAdjust
<1>9. ASSUME NEW c \in Calls, DecideUpdate(c) PROVE SerialInv'
  <2>1. calls[c].verdict \in {"APPROVED", "REJECTED"}
    BY <1>9, SerialTarget DEF DecideUpdate
  <2>. QED
    BY <1>t, <1>9, <2>1, SerialStatusWrite DEF DecideUpdate
<1>10. ASSUME NEW c \in Calls, NEW r \in Requests, CancelStart(c, r) PROVE SerialInv'
  <2> DEFINE q == [op |-> "cancel", pc |-> "adjust", emp |-> requests[r].emp, req |-> r,
                   seen |-> requests[r].status]
  <2>1. calls' = [calls EXCEPT ![c] = q] /\ UNCHANGED requests
        /\ q.op = "cancel" /\ q.emp = requests[r].emp /\ q.req = r
        /\ requests[r].status \in Live
    BY <1>10 DEF CancelStart, Cancellable
  <2> HIDE DEF q
  <2>2. NoRival(c, q)
    BY <1>10, <2>1 DEF CancelStart, MayStart, InFlight, NoRival
  <2>3. TargetOpen(q) /\ StillDisjoint(q)
    BY <2>1 DEF TargetOpen, StillDisjoint
  <2>. QED
    BY <1>t, <2>1, <2>2, <2>3, SerialHandlerStep
<1>11. ASSUME NEW c \in Calls, CancelAdjust(c) PROVE SerialInv'
  BY <1>t, <1>11, SerialUpdateGoto DEF CancelAdjust
<1>12. ASSUME NEW c \in Calls, CancelUpdate(c) PROVE SerialInv'
  BY <1>t, <1>12, SerialStatusWrite DEF CancelUpdate
<1>13. ASSUME NEW c \in Calls, NEW k \in Key, BalancesStart(c, k) PROVE SerialInv'
  <2> DEFINE q == [op |-> "balances", emp |-> k[1], key |-> k,
                   quota |-> policy[k[2]].annualQuota]
  <2>1. calls' = [calls EXCEPT ![c] = q] /\ UNCHANGED requests /\ q.op = "balances"
    BY <1>13 DEF BalancesStart
  <2> HIDE DEF q
  <2>2. q.op \notin Writes /\ TargetOpen(q) /\ StillDisjoint(q)
    BY <2>1 DEF Writes, TargetOpen, StillDisjoint
  <2>. QED
    BY <1>t, <2>1, <2>2, SerialHandlerStep
<1>14. ASSUME NEW c \in Calls, BalancesSeed(c) PROVE SerialInv'
  BY <1>t, <1>14, SerialReturn DEF BalancesSeed
<1>15. ASSUME NEW c \in Calls, Fail(c) PROVE SerialInv'
  BY <1>t, <1>15, SerialReturn DEF Fail
<1>16. CASE UNCHANGED vars
  BY <1>t, <1>16 DEF vars, SerialInv, OneWriter, TargetOpen, StillDisjoint, LiveOf,
     PairwiseDisjoint, HasOverlap
<1>. QED
  BY <1>1, <1>2, <1>3, <1>4, <1>5, <1>6, <1>7, <1>8, <1>9, <1>10, <1>11, <1>12, <1>13,
     <1>14, <1>15, <1>16 DEF Next

\* SerialInv holds of every reachable state of a client that serialises writes.
LEMMA SerialInvariance ==
  ASSUME Discipline = "oneCall"
  PROVE  Spec => []SerialInv
<1>1. SerialInv /\ [Next]_vars => SerialInv'
  BY SerialInvNext
<1>. QED
  BY <1>1, SerialInvInit, PTL DEF Spec

\* With one writing call per employee in flight, no two live requests of an
\* employee ever share a day, even if calls fail half-way.
THEOREM RequestsNeverOverlap ==
  ASSUME Discipline = "oneCall"
  PROVE  Spec => []NoOverlap
<1>1. SerialInv => NoOverlap
  <2> SUFFICES ASSUME SerialInv, NEW r \in Requests, NEW s \in Requests, r # s,
                      requests[r].status \in Live, requests[s].status \in Live,
                      requests[r].emp = requests[s].emp, NEW d \in Days
               PROVE  ~(/\ requests[r].start <= d /\ d <= requests[r].end
                        /\ requests[s].start <= d /\ d <= requests[s].end)
    BY DEF NoOverlap
  <2>1. ~HasOverlap(requests[r], requests[s])
    BY DEF SerialInv, PairwiseDisjoint
  <2>2. requests[r] \in Request /\ requests[s] \in Request
    BY RequestShape DEF SerialInv, TypeInv, Live, NoRequest
  <2>3. /\ requests[r].start \in Nat /\ requests[r].end \in Nat
        /\ requests[s].start \in Nat /\ requests[s].end \in Nat /\ d \in Nat
    BY <2>2, DaysAssumption DEF Request
  <2>. QED
    BY <2>1, <2>3 DEF HasOverlap
<1>. QED
  BY <1>1, SerialInvariance, PTL

\* What a step of one handler may do to the status of a request.
LEMMA StatusStep ==
  ASSUME Discipline = "oneCall", SerialInv, [Next]_vars, NEW r \in Requests,
         requests'[r].status # requests[r].status
  PROVE  <<requests[r].status, requests'[r].status>> \in Workflow
<1>0. requests \in [Requests -> Request \cup {NoRequest}]
  BY DEF SerialInv, TypeInv, TypeOK
<1>1. ASSUME NEW c \in Calls, NEW s \in Requests, ApplyCreate(c, s)
      PROVE  <<requests[r].status, requests'[r].status>> \in Workflow
  BY <1>0, <1>1 DEF ApplyCreate, NoRequest, Workflow
<1>2. ASSUME NEW c \in Calls, DecideUpdate(c)
      PROVE  <<requests[r].status, requests'[r].status>> \in Workflow
  <2>1. /\ calls[c].req \in Requests /\ requests[calls[c].req].status = "PENDING"
        /\ requests[calls[c].req] \in Request
        /\ calls[c].verdict \in {"APPROVED", "REJECTED"}
    BY <1>2, SerialTarget DEF DecideUpdate
  <2>2. requests' = [requests EXCEPT ![calls[c].req] =
                       [requests[calls[c].req] EXCEPT !.status = calls[c].verdict]]
    BY <1>0, <1>2 DEF DecideUpdate
  <2>3. [requests[calls[c].req] EXCEPT !.status = calls[c].verdict].status = calls[c].verdict
    BY <2>1 DEF Request
  <2>4. r = calls[c].req
    BY <1>0, <2>2
  <2>. QED
    BY <1>0, <2>1, <2>2, <2>3, <2>4 DEF Workflow
<1>3. ASSUME NEW c \in Calls, CancelUpdate(c)
      PROVE  <<requests[r].status, requests'[r].status>> \in Workflow
  <2>1. /\ calls[c].req \in Requests /\ requests[calls[c].req].status \in Live
        /\ requests[calls[c].req] \in Request
    BY <1>3, SerialTarget DEF CancelUpdate
  <2>2. requests' = [requests EXCEPT ![calls[c].req] =
                       [requests[calls[c].req] EXCEPT !.status = "CANCELLED"]]
    BY <1>0, <1>3 DEF CancelUpdate
  <2>3. [requests[calls[c].req] EXCEPT !.status = "CANCELLED"].status = "CANCELLED"
    BY <2>1 DEF Request
  <2>4. r = calls[c].req
    BY <1>0, <2>2
  <2>. QED
    BY <1>0, <2>1, <2>2, <2>3, <2>4 DEF Workflow, Live
<1>4. CASE UNCHANGED requests
  BY <1>4
<1>5. ASSUME NEW c \in Calls,
             \/ \E e \in Employees, t \in LeaveTypes, start, end \in Days :
                  ApplyStart(c, e, t, start, end)
             \/ ApplyCheckOverlap(c) \/ ApplyEnsureBalance(c) \/ ApplyReserve(c)
      PROVE  UNCHANGED requests
  BY <1>5 DEF ApplyStart, ApplyCheckOverlap, ApplyEnsureBalance, ApplyReserve
<1>6. ASSUME NEW c \in Calls,
             \/ \E s \in Requests, verdict \in {"APPROVED", "REJECTED"} :
                  DecideStart(c, s, verdict)
             \/ \E s \in Requests : CancelStart(c, s)
             \/ DecideAdjust(c) \/ CancelAdjust(c)
      PROVE  UNCHANGED requests
  BY <1>6 DEF DecideStart, CancelStart, DecideAdjust, CancelAdjust
<1>7. ASSUME NEW c \in Calls,
             (\E k \in Key : BalancesStart(c, k)) \/ BalancesSeed(c) \/ Fail(c)
      PROVE  UNCHANGED requests
  BY <1>7 DEF BalancesStart, BalancesSeed, Fail
<1>8. CASE UNCHANGED vars \/ \E t \in LeaveTypes, p \in Policies : CreatePolicy(t, p)
  BY <1>4, <1>8 DEF vars, CreatePolicy
<1>. QED
  BY <1>1, <1>2, <1>3, <1>4, <1>5, <1>6, <1>7, <1>8 DEF Next

\* With one writing call per employee in flight, a request only ever moves
\* along the workflow: a decision or cancellation is never written over a
\* status other than the one that was checked.  Calls that overlap are outside
\* it: the code does not keep them apart.
THEOREM RequestsFollowWorkflow ==
  ASSUME Discipline = "oneCall"
  PROVE  Spec => StatusFollowsWorkflow
<1>1. SerialInv /\ [Next]_vars =>
        [\A r \in Requests : requests'[r].status # requests[r].status =>
           <<requests[r].status, requests'[r].status>> \in Workflow]_requests
  BY StatusStep
<1>. QED
  BY <1>1, SerialInvariance, PTL DEF Spec, StatusFollowsWorkflow
------------------------------------------------------------------------------
(* The counters of a balance row are the days of the requests charged to it,  *)
(* if an employee has one writing call in flight and none was cut short.      *)
(* While a call is between its adjustment of the row and its write to the     *)
(* request, the counters are ahead of the requests by what it has moved.      *)

\* DaysOf of any table of requests.
Charged(table, k, status) ==
  {r \in Requests : table[r].status = status /\ BalanceKey(table[r]) = k}
DaysEach(table, k, status) == [r \in Charged(table, k, status) |-> table[r].days]
DaysIn(table, k, status) ==
  SumFunctionOnSet(DaysEach(table, k, status), Charged(table, k, status))

\* What one request has in it.
Share(q, k, status) == IF q.status = status /\ BalanceKey(q) = k THEN q.days ELSE 0

\* What all others have.
Others(table, k, status, r) ==
  SumFunctionOnSet(DaysEach(table, k, status), Charged(table, k, status) \ {r})

Table == [Requests -> Request \cup {NoRequest}]

\* The requests charged to a row are finitely many, each of some days.
LEMMA DaysEachType ==
  ASSUME NEW table \in Table, NEW k, NEW status \in Live, NEW r
  PROVE  /\ IsFiniteSet(Charged(table, k, status))
         /\ IsFiniteSet(Charged(table, k, status) \ {r})
         /\ \A s \in Charged(table, k, status) : DaysEach(table, k, status)[s] \in Int
<1>1. IsFiniteSet(Charged(table, k, status))
  BY RequestsAssumption, FS_Subset DEF Charged
<1>2. IsFiniteSet(Charged(table, k, status) \ {r})
  BY <1>1, FS_Subset
<1>3. \A s \in Charged(table, k, status) : DaysEach(table, k, status)[s] \in Int
  BY DEF Table, Request, NoRequest, Live, Charged, DaysEach
<1> QED
  BY <1>1, <1>2, <1>3

\* The share of a request, and the sum of all others.
LEMMA DaysWithout ==
  ASSUME NEW table \in Table, NEW k, NEW status \in Live, NEW r \in Requests
  PROVE  /\ DaysIn(table, k, status) = Share(table[r], k, status) + Others(table, k, status, r)
         /\ Others(table, k, status, r) \in Int /\ Share(table[r], k, status) \in Int
<1> DEFINE f == DaysEach(table, k, status)
           charged == Charged(table, k, status)
           others == charged \ {r}
<1>1. IsFiniteSet(charged) /\ IsFiniteSet(others) /\ \A s \in charged : f[s] \in Int
  BY DaysEachType
<1>2. r \in charged => f[r] = Share(table[r], k, status)
  BY DEF DaysEach, Charged, Share
<1>3. r \notin charged => Share(table[r], k, status) = 0
  BY DEF Charged, Share
<1>4. r \in charged =>
        SumFunctionOnSet(f, charged) = f[r] + SumFunctionOnSet(f, others)
  <2> HIDE DEF f
  <2>1. ASSUME r \in charged
        PROVE  SumFunctionOnSet(f, charged) = f[r] + SumFunctionOnSet(f, charged \ {r})
    <3> HIDE DEF charged
    <3> QED
      BY <1>1, <2>1, SumWithout
  <2> QED
    BY <2>1
<1>5. r \notin charged => charged = others
  OBVIOUS
<1>6. SumFunctionOnSet(f, others) \in Int
  <2>1. \A s \in others : f[s] \in Int
    BY <1>1
  <2> HIDE DEF f, others
  <2> QED
    BY <1>1, <2>1, SumType
<1>7. DaysIn(table, k, status) = SumFunctionOnSet(f, charged)
  BY DEF DaysIn
<1> HIDE DEF f, charged, others
<1>8. /\ DaysIn(table, k, status) = Share(table[r], k, status) + SumFunctionOnSet(f, others)
      /\ SumFunctionOnSet(f, others) \in Int /\ Share(table[r], k, status) \in Int
  <2>1. CASE r \in charged
    BY <1>1, <1>2, <1>4, <1>6, <1>7, <2>1
  <2>2. CASE r \notin charged
    BY <1>3, <1>5, <1>6, <1>7, <2>2
  <2> QED
    BY <2>1, <2>2
<1> QED
  BY <1>8 DEF f, charged, others, Others

\* The days of a table add up to an integer.
LEMMA DaysInType ==
  ASSUME NEW table \in Table, NEW k, NEW status \in Live
  PROVE  DaysIn(table, k, status) \in Int
<1> DEFINE f == DaysEach(table, k, status)
           charged == Charged(table, k, status)
<1>1. IsFiniteSet(charged) /\ \A s \in charged : f[s] \in Int
  BY DaysEachType
<1>2. DaysIn(table, k, status) = SumFunctionOnSet(f, charged)
  BY DEF DaysIn
<1> HIDE DEF f, charged
<1> QED
  BY <1>1, <1>2, SumType

\* Writing one request moves the days by the difference of its shares.
LEMMA DaysMove ==
  ASSUME NEW table \in Table, NEW k, NEW status \in Live, NEW r \in Requests, NEW row \in Request,
         NEW new, new = [table EXCEPT ![r] = row]
  PROVE  /\ DaysIn(new, k, status) =
              DaysIn(table, k, status) + Share(row, k, status) - Share(table[r], k, status)
         /\ Share(row, k, status) \in Int /\ Share(table[r], k, status) \in Int
<1> DEFINE f == DaysEach(table, k, status)
           g == DaysEach(new, k, status)
           old == Charged(table, k, status) \ {r}
           now == Charged(new, k, status) \ {r}
<1>1. new \in Table /\ new[r] = row /\ \A s \in Requests \ {r} : new[s] = table[s]
  BY DEF Table
<1>2. /\ DaysIn(table, k, status) = Share(table[r], k, status) + Others(table, k, status, r)
      /\ Others(table, k, status, r) \in Int /\ Share(table[r], k, status) \in Int
  BY DaysWithout
<1>3. /\ DaysIn(new, k, status) = Share(row, k, status) + Others(new, k, status, r)
      /\ Share(row, k, status) \in Int
  <2>1. ASSUME NEW t \in Table
        PROVE  /\ DaysIn(t, k, status) = Share(t[r], k, status) + Others(t, k, status, r)
               /\ Share(t[r], k, status) \in Int
    BY DaysWithout
  <2>2. PICK t \in Table : t = new /\ t[r] = row
    BY <1>1
  <2> QED
    BY <2>1, <2>2
<1>4. now = old
  BY <1>1 DEF Charged
<1>5. \A s \in old : f[s] \in Int /\ f[s] = g[s]
  <2>1. \A s \in Charged(table, k, status) : f[s] \in Int
    BY DaysEachType
  <2>2. \A s \in old : s \in Charged(new, k, status) /\ s \in Requests \ {r}
    BY <1>4 DEF Charged
  <2>3. \A s \in old : f[s] = table[s].days /\ g[s] = new[s].days
    BY <2>2 DEF DaysEach
  <2> HIDE DEF f, g
  <2> QED
    BY <1>1, <2>1, <2>2, <2>3
<1>6. IsFiniteSet(old)
  BY DaysEachType
<1>7. Others(new, k, status, r) = Others(table, k, status, r)
  <2>1. Others(new, k, status, r) = SumFunctionOnSet(g, now)
        /\ Others(table, k, status, r) = SumFunctionOnSet(f, old)
    BY DEF Others
  <2> HIDE DEF f, g, old, now
  <2> QED
    BY <1>4, <1>5, <1>6, <2>1, SumSame
<1> QED
  BY <1>2, <1>3, <1>7

\* No request is charged anywhere at the start.
LEMMA DaysOfNone ==
  ASSUME NEW k, NEW status \in Live
  PROVE  DaysIn([r \in Requests |-> NoRequest], k, status) = 0
<1> DEFINE table == [r \in Requests |-> NoRequest]
<1>1. Charged(table, k, status) = {}
  BY DEF Charged, NoRequest, Live
<1> HIDE DEF table
<1>2. SumFunctionOnSet(DaysEach(table, k, status), {}) = 0
  BY FS_EmptySet, SumZero
<1> QED
  BY <1>1, <1>2 DEF DaysIn, table

\* The row that a writing call works on.
RowOf(q) == BalanceKey(IF q.op = "apply" THEN q ELSE requests[q.req])

\* A call between its adjustment of row k and its write to the request.
Moving(q, k) ==
  /\ q.op \in Writes
  /\ q.pc = IF q.op = "apply" THEN "create" ELSE "update"
  /\ RowOf(q) = k

\* What such a call has moved.
Moved(q) ==
  IF q.op = "apply" THEN [used |-> 0, pending |-> q.days]
  ELSE IF q.op = "decide" THEN DecisionDelta(q.verdict, requests[q.req].days)
  ELSE Refund(q.seen, requests[q.req].days)

\* The counters of row k are ahead of its requests by so much.
Ahead(k, used, pending) ==
  /\ balances[k].used = DaysOf(k, "APPROVED") + used
  /\ balances[k].pending = DaysOf(k, "PENDING") + pending

\* What an application has found, and a cancellation has read, is still so.
Founded(q) ==
  /\ q.op = "apply" => q.start <= q.end
  /\ q.op = "apply" /\ q.pc \in {"reserve", "create"} => balances[BalanceKey(q)].exists
  /\ q.op = "cancel" => requests[q.req].status = q.seen

CountersInv ==
  /\ \A k \in Key : (\A c \in Calls : ~Moving(calls[c], k)) => Ahead(k, 0, 0)
  /\ \A k \in Key : \A c \in Calls :
       Moving(calls[c], k) => Ahead(k, Moved(calls[c]).used, Moved(calls[c]).pending)
  /\ \A k \in Key : ~balances[k].exists => balances[k].used = 0 /\ balances[k].pending = 0
  /\ \A r \in Requests :
       requests[r].status \in Live => balances[BalanceKey(requests[r])].exists
  /\ \A c \in Calls : Founded(calls[c])

\* A call that is moving days writes for the employee of the row.
LEMMA MovingIsWriting ==
  ASSUME SerialInv, NEW k \in Key, NEW c \in Calls, Moving(calls[c], k)
  PROVE  calls[c].op \in Writes /\ calls[c].emp = k[1]
<1>1. CASE calls[c].op = "apply"
  BY <1>1 DEF Moving, RowOf, BalanceKey
<1>2. CASE calls[c].op \in {"decide", "cancel"}
  <2>1. requests[calls[c].req].emp = calls[c].emp
    BY <1>2, SerialTarget
  <2> QED
    BY <1>2, <2>1 DEF Moving, RowOf, BalanceKey, Writes
<1> QED
  BY <1>1, <1>2 DEF Moving, Writes

\* Nobody else moves days of the employee of a call that writes.
LEMMA OneMoves ==
  ASSUME SerialInv, NEW k \in Key, NEW c \in Calls, calls[c].op \in Writes, calls[c].emp = k[1],
         NEW d \in Calls, Moving(calls[d], k)
  PROVE  d = c
<1>1. calls[d].op \in Writes /\ calls[d].emp = k[1]
  BY MovingIsWriting
<1> QED
  BY <1>1 DEF SerialInv, OneWriter

\* The row of a call that writes is one of its employee's.
LEMMA RowOfWriter ==
  ASSUME SerialInv, NEW c \in Calls, calls[c].op \in Writes
  PROVE  RowOf(calls[c]) \in Key /\ RowOf(calls[c])[1] = calls[c].emp
<1>1. CASE calls[c].op = "apply"
  <2>1. calls[c] \in ApplyCall
    BY <1>1, CallShape DEF SerialInv, TypeInv
  <2> QED
    BY <1>1, <2>1, BalanceKeyType DEF RowOf, BalanceKey, ApplyCall
<1>2. CASE calls[c].op \in {"decide", "cancel"}
  <2>1. /\ requests[calls[c].req] \in Request
        /\ requests[calls[c].req].emp = calls[c].emp
    BY <1>2, SerialTarget
  <2> QED
    BY <1>2, <2>1, BalanceKeyType DEF RowOf, BalanceKey, Request
<1> QED
  BY <1>1, <1>2 DEF Writes

\* The days in question are those of the table of requests.
LEMMA DaysOfIn ==
  ASSUME NEW k, NEW status
  PROVE  /\ DaysOf(k, status) = DaysIn(requests, k, status)
         /\ DaysOf(k, status)' = DaysIn(requests', k, status)
BY DEF DaysOf, DaysIn, DaysEach, Charged, BalanceKey

\* A step that leaves the requests, and calls that move nothing, alone.
LEMMA CountersKept ==
  ASSUME SerialInv, CountersInv, NEW c \in Calls, NEW q,
         calls' = [calls EXCEPT ![c] = q], UNCHANGED requests,
         \A k \in Key : ~Moving(calls[c], k) /\ ~Moving(q, k),
         Founded(q)',
         \A k \in Key : /\ balances'[k].used = balances[k].used
                        /\ balances'[k].pending = balances[k].pending
                        /\ balances[k].exists => balances'[k].exists
  PROVE  CountersInv'
<1>1. /\ calls'[c] = q /\ \A d \in Calls \ {c} : calls'[d] = calls[d]
  BY DEF SerialInv, TypeInv, TypeOK
<1>2. ASSUME NEW k \in Key, NEW used, NEW pending, Ahead(k, used, pending)
      PROVE  Ahead(k, used, pending)'
  <2>1. /\ DaysOf(k, "APPROVED")' = DaysOf(k, "APPROVED")
        /\ DaysOf(k, "PENDING")' = DaysOf(k, "PENDING")
    BY DaysOfIn
  <2> QED
    BY <1>2, <2>1 DEF Ahead
<1>3. ASSUME NEW k \in Key, NEW d \in Calls
      PROVE  Moving(calls[d], k)' => d # c /\ Moving(calls[d], k)
  BY <1>1 DEF Moving, RowOf, BalanceKey
<1>4. ASSUME NEW k \in Key, NEW d \in Calls
      PROVE  Moving(calls[d], k) => Moving(calls[d], k)'
  BY <1>1 DEF Moving, RowOf, BalanceKey
<1>5. ASSUME NEW d \in Calls, d # c PROVE Moved(calls[d])' = Moved(calls[d])
  BY <1>1, <1>5 DEF Moved
<1>6. \A k \in Key : (\A d \in Calls : ~Moving(calls[d], k)') => Ahead(k, 0, 0)'
  BY <1>2, <1>4 DEF CountersInv
<1>7. ASSUME NEW k \in Key, NEW d \in Calls, Moving(calls[d], k)'
      PROVE  Ahead(k, Moved(calls[d]).used, Moved(calls[d]).pending)'
  <2>1. PICK m : m = Moved(calls[d])
    OBVIOUS
  <2>2. Ahead(k, m.used, m.pending)
    BY <1>3, <1>7, <2>1 DEF CountersInv
  <2>3. Ahead(k, m.used, m.pending)'
    BY <1>2, <2>2
  <2>4. Moved(calls[d])' = m
    BY <1>3, <1>5, <1>7, <2>1
  <2> QED
    BY <2>3, <2>4 DEF Ahead
<1>8. \A r \in Requests : requests'[r].status \in Live => balances'[BalanceKey(requests[r])'].exists
  <2> SUFFICES ASSUME NEW r \in Requests, requests[r].status \in Live
               PROVE  balances'[BalanceKey(requests[r])'].exists
    OBVIOUS
  <2>1. BalanceKey(requests[r]) \in Key
    BY RequestShape DEF SerialInv, TypeInv, Live, NoRequest
  <2>2. BalanceKey(requests[r])' = BalanceKey(requests[r])
    BY DEF BalanceKey
  <2> QED
    BY <2>1, <2>2 DEF CountersInv
<1>9. \A d \in Calls : Founded(calls[d])'
  <2> SUFFICES ASSUME NEW d \in Calls, d # c PROVE Founded(calls[d])'
    BY <1>1 DEF Founded, BalanceKey
  <2>1. Founded(calls[d]) /\ calls'[d] = calls[d]
    BY <1>1 DEF CountersInv
  <2>2. calls[d].op = "apply" => BalanceKey(calls[d]) \in Key
    BY RowOfWriter DEF RowOf, Writes
  <2> QED
    BY <2>1, <2>2 DEF Founded, BalanceKey
<1>10. \A k \in Key : ~balances'[k].exists => balances'[k].used = 0 /\ balances'[k].pending = 0
  BY DEF CountersInv
<1> QED
  BY <1>6, <1>7, <1>8, <1>9, <1>10 DEF CountersInv

\* The counters of a row with no call between its two writes are exact.
LEMMA NobodyMoves ==
  ASSUME SerialInv, CountersInv, NEW c \in Calls, calls[c].op \in Writes,
         \A k \in Key : ~Moving(calls[c], k)
  PROVE  Ahead(RowOf(calls[c]), 0, 0)
<1>1. PICK k \in Key : k = RowOf(calls[c]) /\ k[1] = calls[c].emp
  BY RowOfWriter
<1>2. \A d \in Calls : ~Moving(calls[d], k)
  BY <1>1, OneMoves
<1> QED
  BY <1>1, <1>2 DEF CountersInv

\* The adjustment of an existing row puts its counters ahead of the requests by
\* what the call moves; no other row changes.
LEMMA AdjustAhead ==
  ASSUME TypeOK, NEW k0 \in Key, balances[k0].exists, Ahead(k0, 0, 0),
         NEW by \in [used : Int, pending : Int], balances' = Adjust(k0, by),
         UNCHANGED requests
  PROVE  /\ Ahead(k0, by.used, by.pending)'
         /\ balances'[k0].exists
         /\ \A k \in Key \ {k0} : balances'[k] = balances[k]
<1>1. balances' = [balances EXCEPT
        ![k0] = [exists |-> TRUE, accrued |-> balances[k0].accrued,
                 used |-> balances[k0].used + by.used,
                 pending |-> balances[k0].pending + by.pending]]
  BY DEF Adjust
<1>2. /\ balances'[k0].used = balances[k0].used + by.used
      /\ balances'[k0].pending = balances[k0].pending + by.pending
      /\ balances'[k0].exists
      /\ \A k \in Key \ {k0} : balances'[k] = balances[k]
  BY <1>1 DEF TypeOK
<1>3. /\ DaysOf(k0, "APPROVED") \in Int /\ DaysOf(k0, "PENDING") \in Int
      /\ DaysOf(k0, "APPROVED")' = DaysOf(k0, "APPROVED")
      /\ DaysOf(k0, "PENDING")' = DaysOf(k0, "PENDING")
  BY DaysOfIn, DaysInType DEF TypeOK, Table, Live
<1> QED
  BY <1>2, <1>3 DEF Ahead

\* A call adjusts the counters of its row and moves on to its second write.
LEMMA CountersAdjusted ==
  ASSUME SerialInv, CountersInv, NEW c \in Calls, NEW q, calls[c].op \in Writes,
         calls' = [calls EXCEPT ![c] = q], UNCHANGED requests,
         \A k \in Key : ~Moving(calls[c], k),
         NEW k0 \in Key, k0 = RowOf(calls[c]),
         \A k \in Key : Moving(q, k) <=> k = k0,
         Founded(q)',
         NEW by \in [used : Int, pending : Int], Moved(q) = by,
         balances[k0].exists, balances' = Adjust(k0, by)
  PROVE  CountersInv'
<1>0. TypeOK /\ Ahead(k0, 0, 0)
  BY NobodyMoves DEF SerialInv, TypeInv
<1>1. /\ calls'[c] = q /\ \A d \in Calls \ {c} : calls'[d] = calls[d]
  BY <1>0 DEF TypeOK
<1>2. /\ Ahead(k0, by.used, by.pending)' /\ balances'[k0].exists
      /\ \A k \in Key \ {k0} : balances'[k] = balances[k]
  BY <1>0, AdjustAhead
<1>3. ASSUME NEW k \in Key, k # k0, NEW used, NEW pending, Ahead(k, used, pending)
      PROVE  Ahead(k, used, pending)'
  <2>1. /\ DaysOf(k, "APPROVED")' = DaysOf(k, "APPROVED")
        /\ DaysOf(k, "PENDING")' = DaysOf(k, "PENDING")
    BY DaysOfIn
  <2> QED
    BY <1>2, <1>3, <2>1 DEF Ahead
<1>4. \A k \in Key : Moving(calls[c], k)' <=> k = k0
  <2>1. \A k \in Key : Moving(calls[c], k)' <=> Moving(q, k)
    BY <1>1 DEF Moving, RowOf, BalanceKey
  <2> QED
    BY <2>1
<1>5. \A k \in Key : \A d \in Calls \ {c} : Moving(calls[d], k)' <=> Moving(calls[d], k)
  BY <1>1 DEF Moving, RowOf, BalanceKey
<1>6. \A d \in Calls \ {c} : ~Moving(calls[d], k0)
  BY RowOfWriter, OneMoves
<1>7. \A d \in Calls \ {c} : Moved(calls[d])' = Moved(calls[d])
  BY <1>1 DEF Moved
<1>8. Moved(calls[c])' = by
  BY <1>1 DEF Moved
<1>9. ASSUME NEW k \in Key, \A d \in Calls : ~Moving(calls[d], k)' PROVE Ahead(k, 0, 0)'
  <2>1. k # k0
    BY <1>4, <1>9
  <2>2. \A d \in Calls : ~Moving(calls[d], k)
    BY <1>5, <1>9
  <2> QED
    BY <1>3, <2>1, <2>2 DEF CountersInv
<1>10. ASSUME NEW k \in Key, NEW d \in Calls, Moving(calls[d], k)'
       PROVE  Ahead(k, Moved(calls[d]).used, Moved(calls[d]).pending)'
  <2>1. CASE d = c
    <3>1. k = k0
      BY <1>4, <1>10, <2>1
    <3> QED
      BY <1>2, <1>8, <2>1, <3>1 DEF Ahead
  <2>2. CASE d # c
    <3>1. Moving(calls[d], k) /\ k # k0
      BY <1>5, <1>6, <1>10, <2>2
    <3>2. PICK m : m = Moved(calls[d])
      OBVIOUS
    <3>3. Ahead(k, m.used, m.pending)
      BY <3>1, <3>2 DEF CountersInv
    <3>4. Ahead(k, m.used, m.pending)'
      BY <1>3, <3>1, <3>3
    <3>5. Moved(calls[d])' = m
      BY <1>7, <2>2, <3>2
    <3> QED
      BY <3>4, <3>5 DEF Ahead
  <2> QED
    BY <2>1, <2>2
<1>11. \A k \in Key : ~balances'[k].exists => balances'[k].used = 0 /\ balances'[k].pending = 0
  BY <1>2 DEF CountersInv
<1>12. \A k \in Key : balances[k].exists => balances'[k].exists
  BY <1>2
<1>13. \A r \in Requests : requests'[r].status \in Live => balances'[BalanceKey(requests[r])'].exists
  <2> SUFFICES ASSUME NEW r \in Requests, requests[r].status \in Live
               PROVE  balances'[BalanceKey(requests[r])'].exists
    OBVIOUS
  <2>1. BalanceKey(requests[r]) \in Key
    BY <1>0, RequestShape DEF Live, NoRequest
  <2>2. BalanceKey(requests[r])' = BalanceKey(requests[r])
    BY DEF BalanceKey
  <2> QED
    BY <1>12, <2>1, <2>2 DEF CountersInv
<1>14. \A d \in Calls : Founded(calls[d])'
  <2> SUFFICES ASSUME NEW d \in Calls, d # c PROVE Founded(calls[d])'
    BY <1>1 DEF Founded, BalanceKey
  <2>1. Founded(calls[d]) /\ calls'[d] = calls[d]
    BY <1>1 DEF CountersInv
  <2>2. calls[d].op = "apply" => BalanceKey(calls[d]) \in Key
    BY RowOfWriter DEF RowOf, Writes
  <2> QED
    BY <1>12, <2>1, <2>2 DEF Founded, BalanceKey
<1> QED
  BY <1>9, <1>10, <1>11, <1>13, <1>14 DEF CountersInv

\* A call writes the request that its days are moved for, and ends.
LEMMA CountersWritten ==
  ASSUME SerialInv, CountersInv, NEW c \in Calls,
         NEW r \in Requests, NEW row \in Request,
         Return(c), requests' = [requests EXCEPT ![r] = row], UNCHANGED balances,
         NEW k0 \in Key, Moving(calls[c], k0), BalanceKey(row) = k0, balances[k0].exists,
         requests[r] = NoRequest \/ BalanceKey(requests[r]) = k0,
         Share(row, k0, "APPROVED") - Share(requests[r], k0, "APPROVED") = Moved(calls[c]).used,
         Share(row, k0, "PENDING") - Share(requests[r], k0, "PENDING") = Moved(calls[c]).pending
  PROVE  CountersInv'
<1>0. /\ TypeOK /\ requests \in Table /\ calls[c].op \in Writes /\ calls[c].emp = k0[1]
  BY MovingIsWriting DEF SerialInv, TypeInv, TypeOK, Table
<1>1. /\ calls'[c] = Idle /\ \A d \in Calls \ {c} : calls'[d] = calls[d]
      /\ requests'[r] = row /\ \A s \in Requests \ {r} : requests'[s] = requests[s]
  BY <1>0 DEF TypeOK, Return
<1>2. ASSUME NEW k \in Key, NEW status \in Live
      PROVE  /\ DaysOf(k, status) \in Int
             /\ Share(row, k, status) \in Int /\ Share(requests[r], k, status) \in Int
             /\ DaysOf(k, status)' =
                  DaysOf(k, status) + Share(row, k, status) - Share(requests[r], k, status)
  <2>1. PICK table \in Table : table = requests
    BY <1>0
  <2>2. PICK new : new = requests' /\ new = [table EXCEPT ![r] = row]
    BY <2>1
  <2>3. /\ DaysIn(new, k, status) =
              DaysIn(table, k, status) + Share(row, k, status) - Share(table[r], k, status)
        /\ Share(row, k, status) \in Int /\ Share(table[r], k, status) \in Int
    BY <2>2, DaysMove
  <2>4. DaysIn(table, k, status) \in Int
    BY DaysInType
  <2>5. DaysOf(k, status) = DaysIn(table, k, status) /\ DaysOf(k, status)' = DaysIn(new, k, status)
    BY <2>1, <2>2, DaysOfIn
  <2> HIDE DEF DaysOf, DaysIn, Share
  <2> QED
    BY <2>1, <2>3, <2>4, <2>5
<1>3. ASSUME NEW k \in Key, k # k0, NEW status \in Live
      PROVE  DaysOf(k, status)' = DaysOf(k, status)
  <2>1. Share(row, k, status) = 0 /\ Share(requests[r], k, status) = 0
    BY <1>3 DEF Share, NoRequest, Live
  <2> QED
    BY <1>2, <2>1
<1>4. ASSUME NEW d \in Calls \ {c}, calls[d].op \in {"decide", "cancel"}
      PROVE  calls[d].req \in Requests \ {r}
  <2>1. calls[d].emp # calls[c].emp
    BY <1>0, <1>4 DEF SerialInv, OneWriter, Writes
  <2>2. /\ calls[d].req \in Requests /\ requests[calls[d].req].emp = calls[d].emp
        /\ requests[calls[d].req] \in Request
    BY <1>4, SerialTarget
  <2>3. requests[r] # NoRequest => requests[r].emp = calls[c].emp
    BY <1>0 DEF BalanceKey
  <2>4. NoRequest \notin Request
    BY DEF NoRequest, Request
  <2> QED
    BY <2>1, <2>2, <2>3, <2>4
<1>5. \A k \in Key : ~Moving(calls[c], k)'
  BY <1>1 DEF Moving, Idle, Writes
<1>6. \A k \in Key : \A d \in Calls \ {c} : Moving(calls[d], k)' <=> Moving(calls[d], k)
  BY <1>1, <1>4 DEF Moving, RowOf, BalanceKey, Writes
<1>7. \A d \in Calls \ {c} : calls[d].op \in Writes => Moved(calls[d])' = Moved(calls[d])
  BY <1>1, <1>4 DEF Moved, Writes
<1>8. \A d \in Calls \ {c} : ~Moving(calls[d], k0)
  BY <1>0, OneMoves
<1>9. \A k \in Key \ {k0} : ~Moving(calls[c], k)
  BY DEF Moving
<1>10. Ahead(k0, 0, 0)'
  <2>1. PICK m : m = Moved(calls[c])
    OBVIOUS
  <2>2. Ahead(k0, m.used, m.pending)
    BY <2>1 DEF CountersInv
  <2>3. balances'[k0] = balances[k0]
    OBVIOUS
  <2> QED
    BY <1>2, <2>1, <2>2, <2>3 DEF Ahead, Live
<1>11. ASSUME NEW k \in Key, k # k0, NEW used, NEW pending, Ahead(k, used, pending)
       PROVE  Ahead(k, used, pending)'
  <2>1. /\ DaysOf(k, "APPROVED")' = DaysOf(k, "APPROVED")
        /\ DaysOf(k, "PENDING")' = DaysOf(k, "PENDING")
    BY <1>3, <1>11 DEF Live
  <2> QED
    BY <1>11, <2>1 DEF Ahead
<1>12. ASSUME NEW k \in Key, \A d \in Calls : ~Moving(calls[d], k)' PROVE Ahead(k, 0, 0)'
  <2>1. CASE k # k0
    <3>1. \A d \in Calls : ~Moving(calls[d], k)
      BY <1>6, <1>9, <1>12, <2>1
    <3> QED
      BY <1>11, <2>1, <3>1 DEF CountersInv
  <2> QED
    BY <1>10, <2>1
<1>13. ASSUME NEW k \in Key, NEW d \in Calls, Moving(calls[d], k)'
       PROVE  Ahead(k, Moved(calls[d]).used, Moved(calls[d]).pending)'
  <2>1. d # c
    BY <1>5, <1>13
  <2>2. Moving(calls[d], k) /\ k # k0 /\ calls[d].op \in Writes
    BY <1>6, <1>8, <1>13, <2>1 DEF Moving
  <2>3. PICK m : m = Moved(calls[d])
    OBVIOUS
  <2>4. Ahead(k, m.used, m.pending)
    BY <2>2, <2>3 DEF CountersInv
  <2>5. Ahead(k, m.used, m.pending)'
    BY <1>11, <2>2, <2>4
  <2>6. Moved(calls[d])' = m
    BY <1>7, <2>1, <2>2, <2>3
  <2> QED
    BY <2>5, <2>6 DEF Ahead
<1>14. \A s \in Requests : requests'[s].status \in Live => balances'[BalanceKey(requests[s])'].exists
  <2> SUFFICES ASSUME NEW s \in Requests, requests'[s].status \in Live
               PROVE  balances'[BalanceKey(requests[s])'].exists
    OBVIOUS
  <2>1. CASE s = r
    BY <1>1, <2>1 DEF BalanceKey
  <2>2. CASE s # r
    BY <1>1, <2>2 DEF BalanceKey, CountersInv
  <2> QED
    BY <2>1, <2>2
<1>15. \A d \in Calls : Founded(calls[d])'
  <2> SUFFICES ASSUME NEW d \in Calls PROVE Founded(calls[d])'
    OBVIOUS
  <2>1. CASE d = c
    BY <1>1, <2>1 DEF Founded, Idle
  <2>2. CASE d # c
    <3>1. Founded(calls[d]) /\ calls'[d] = calls[d]
      BY <1>1, <2>2 DEF CountersInv
    <3>2. calls[d].op = "cancel" => requests'[calls[d].req] = requests[calls[d].req]
      BY <1>1, <1>4, <2>2
    <3> QED
      BY <3>1, <3>2 DEF Founded, BalanceKey
  <2> QED
    BY <2>1, <2>2
<1>16. \A k \in Key : ~balances'[k].exists => balances'[k].used = 0 /\ balances'[k].pending = 0
  BY DEF CountersInv
<1> QED
  BY <1>12, <1>13, <1>14, <1>15, <1>16 DEF CountersInv

\* Seeding a row changes no counter, and leaves a row there.
LEMMA UpsertCounters ==
  ASSUME TypeOK, CountersInv, NEW k0 \in Key, NEW quota \in Nat, balances' = Upsert(k0, quota)
  PROVE  /\ \A k \in Key : /\ balances'[k].used = balances[k].used
                           /\ balances'[k].pending = balances[k].pending
                           /\ balances[k].exists => balances'[k].exists
         /\ balances'[k0].exists
<1>1. ~balances[k0].exists => balances[k0].used = 0 /\ balances[k0].pending = 0
  BY DEF CountersInv
<1> QED
  BY <1>1 DEF TypeOK, Upsert

\* Nothing is counted at the start.
LEMMA CountersInvInit == Init => CountersInv
<1> SUFFICES ASSUME Init PROVE CountersInv
  OBVIOUS
<1>1. /\ \A k \in Key : balances[k] = NoRow
      /\ \A c \in Calls : calls[c] = Idle
      /\ \A r \in Requests : requests[r] = NoRequest
      /\ requests = [r \in Requests |-> NoRequest]
  BY DEF Init
<1>2. ASSUME NEW k \in Key PROVE Ahead(k, 0, 0)
  <2>1. DaysOf(k, "APPROVED") = 0 /\ DaysOf(k, "PENDING") = 0
    BY <1>1, DaysOfIn, DaysOfNone DEF Live
  <2> QED
    BY <1>1, <2>1 DEF Ahead, NoRow
<1>3. \A k \in Key : \A c \in Calls : ~Moving(calls[c], k)
  BY <1>1 DEF Moving, Idle, Writes
<1>4. \A r \in Requests : requests[r].status \notin Live
  BY <1>1 DEF NoRequest, Live
<1>5. \A c \in Calls : Founded(calls[c])
  BY <1>1 DEF Founded, Idle
<1>6. \A k \in Key : balances[k].used = 0 /\ balances[k].pending = 0
  BY <1>1 DEF NoRow
<1> QED
  BY <1>2, <1>3, <1>4, <1>5, <1>6 DEF CountersInv

\* A step that leaves rows, requests and calls alone.
LEMMA CountersSame ==
  ASSUME CountersInv, UNCHANGED <<balances, requests, calls>>
  PROVE  CountersInv'
<1>1. ASSUME NEW k \in Key, NEW used, NEW pending, Ahead(k, used, pending)
      PROVE  Ahead(k, used, pending)'
  <2>1. /\ DaysOf(k, "APPROVED")' = DaysOf(k, "APPROVED")
        /\ DaysOf(k, "PENDING")' = DaysOf(k, "PENDING")
    BY DaysOfIn
  <2> QED
    BY <1>1, <2>1 DEF Ahead
<1>2. \A k \in Key : \A c \in Calls : Moving(calls[c], k)' <=> Moving(calls[c], k)
  BY DEF Moving, RowOf, BalanceKey
<1>3. \A k \in Key : (\A c \in Calls : ~Moving(calls[c], k)') => Ahead(k, 0, 0)'
  BY <1>1, <1>2 DEF CountersInv
<1>4. ASSUME NEW k \in Key, NEW c \in Calls, Moving(calls[c], k)'
      PROVE  Ahead(k, Moved(calls[c]).used, Moved(calls[c]).pending)'
  <2>1. PICK m : m = Moved(calls[c])
    OBVIOUS
  <2>2. Ahead(k, m.used, m.pending)
    BY <1>2, <1>4, <2>1 DEF CountersInv
  <2>3. Moved(calls[c])' = m
    BY <2>1 DEF Moved
  <2> QED
    BY <1>1, <2>2, <2>3 DEF Ahead
<1>5. \A r \in Requests : requests'[r].status \in Live => balances'[BalanceKey(requests[r])'].exists
  BY DEF CountersInv, BalanceKey
<1>6. \A c \in Calls : Founded(calls[c])'
  BY DEF CountersInv, Founded, BalanceKey
<1>7. \A k \in Key : ~balances'[k].exists => balances'[k].used = 0 /\ balances'[k].pending = 0
  BY DEF CountersInv
<1> QED
  BY <1>3, <1>4, <1>5, <1>6, <1>7 DEF CountersInv

\* No step takes a failure back.
LEMMA FailuresCount ==
  ASSUME TypeOK, [Next]_vars, failures' = 0
  PROVE  failures = 0 /\ \A c \in Calls : ~Fail(c)
<1>1. failures \in Nat
  BY DisciplineAssumption DEF TypeOK
<1>2. \A c \in Calls : ~Fail(c)
  BY <1>1 DEF Fail
<1>3. ASSUME NEW c \in Calls,
             \/ \E e \in Employees, t \in LeaveTypes, start, end \in Days :
                  ApplyStart(c, e, t, start, end)
             \/ ApplyCheckOverlap(c) \/ ApplyEnsureBalance(c) \/ ApplyReserve(c)
             \/ \E r \in Requests : ApplyCreate(c, r)
      PROVE  failures' = failures
  BY <1>3 DEF ApplyStart, ApplyCheckOverlap, ApplyEnsureBalance, ApplyReserve, ApplyCreate
<1>4. ASSUME NEW c \in Calls,
             \/ \E r \in Requests, verdict \in {"APPROVED", "REJECTED"} :
                  DecideStart(c, r, verdict)
             \/ DecideAdjust(c) \/ DecideUpdate(c)
             \/ \E r \in Requests : CancelStart(c, r)
             \/ CancelAdjust(c) \/ CancelUpdate(c)
             \/ (\E k \in Key : BalancesStart(c, k)) \/ BalancesSeed(c)
      PROVE  failures' = failures
  BY <1>4 DEF DecideStart, DecideAdjust, DecideUpdate, CancelStart, CancelAdjust,
     CancelUpdate, BalancesStart, BalancesSeed
<1>5. CASE UNCHANGED vars \/ \E t \in LeaveTypes, p \in Policies : CreatePolicy(t, p)
  BY <1>2, <1>5 DEF vars, CreatePolicy
<1> QED
  BY <1>2, <1>3, <1>4, <1>5 DEF Next

\* With one writer per employee in flight and no call cut short, every query
\* keeps CountersInv.
LEMMA CountersInvNext ==
  ASSUME Discipline = "oneCall"
  PROVE  SerialInv /\ (failures = 0 => CountersInv) /\ [Next]_vars
           => (failures' = 0 => CountersInv')
<1> SUFFICES ASSUME SerialInv, failures = 0 => CountersInv, [Next]_vars, failures' = 0
             PROVE  CountersInv'
  OBVIOUS
<1>0. TypeOK /\ TypeInv
  BY DEF SerialInv, TypeInv
<1>c. CountersInv /\ \A c \in Calls : ~Fail(c)
  BY <1>0, FailuresCount
<1>still. Idle.op \notin Writes /\ Founded(Idle)' /\ \A k \in Key : ~Moving(Idle, k)
  BY DEF Idle, Writes, Founded, Moving
<1>waits. ASSUME NEW q, q.pc \notin {"create", "update"} PROVE \A k \in Key : ~Moving(q, k)
  BY <1>waits DEF Moving
<1>1. ASSUME NEW t \in LeaveTypes, NEW p \in Policies, CreatePolicy(t, p) PROVE CountersInv'
  BY <1>c, <1>1, CountersSame DEF CreatePolicy
<1>2. ASSUME NEW c \in Calls, NEW e \in Employees, NEW t \in LeaveTypes,
             NEW start \in Days, NEW end \in Days, ApplyStart(c, e, t, start, end)
      PROVE  CountersInv'
  <2> DEFINE q == [op |-> "apply", pc |-> "overlap", emp |-> e, type |-> t,
                   start |-> start, end |-> end, days |-> WorkingDays(e, start, end),
                   quota |-> policy[t].annualQuota]
  <2>1. /\ calls' = [calls EXCEPT ![c] = q] /\ UNCHANGED <<requests, balances>>
        /\ calls[c] = Idle
        /\ q.op = "apply" /\ q.pc = "overlap" /\ q.start <= q.end
    BY <1>2 DEF ApplyStart, MayStart
  <2>2. q.op # "cancel" /\ q.pc \notin {"reserve", "create", "update"}
    BY <2>1
  <2>3. PICK p : p = q
    OBVIOUS
  <2> HIDE DEF q
  <2>4. Founded(p)' /\ \A k \in Key : ~Moving(p, k)
    BY <1>waits, <2>1, <2>2, <2>3 DEF Founded
  <2> QED
    BY <1>c, <1>still, <2>1, <2>3, <2>4, CountersKept
<1>3. ASSUME NEW c \in Calls, ApplyCheckOverlap(c) PROVE CountersInv'
  <2>1. calls[c].op = "apply" /\ calls[c].pc = "overlap" /\ UNCHANGED <<requests, balances>>
    BY <1>3 DEF ApplyCheckOverlap
  <2>2. \A k \in Key : ~Moving(calls[c], k)
    BY <1>waits, <2>1
  <2>3. CASE Return(c)
    BY <1>c, <1>still, <2>1, <2>2, <2>3, CountersKept DEF Return
  <2>4. CASE Goto(c, "ensure")
    <3>1. PICK q \in ApplyCall : /\ calls' = [calls EXCEPT ![c] = q]
                                 /\ q.op = "apply" /\ q.pc = "ensure"
                                 /\ q.start = calls[c].start /\ q.end = calls[c].end
      BY <1>0, <2>1, <2>4, GotoApply
    <3>2. Founded(calls[c])
      BY <1>c DEF CountersInv
    <3>3. Founded(q)' /\ \A k \in Key : ~Moving(q, k)
      BY <1>waits, <2>1, <3>1, <3>2 DEF Founded
    <3> QED
      BY <1>c, <2>1, <2>2, <3>1, <3>3, CountersKept
  <2> QED
    BY <1>3, <2>3, <2>4 DEF ApplyCheckOverlap
<1>4. ASSUME NEW c \in Calls, ApplyEnsureBalance(c) PROVE CountersInv'
  <2>1. calls[c].op = "apply" /\ calls[c].pc = "ensure" /\ UNCHANGED requests
        /\ balances' = Upsert(BalanceKey(calls[c]), calls[c].quota)
    BY <1>4 DEF ApplyEnsureBalance
  <2>2. \A k \in Key : ~Moving(calls[c], k)
    BY <1>waits, <2>1
  <2>3. calls[c] \in ApplyCall /\ BalanceKey(calls[c]) \in Key /\ calls[c].quota \in Nat
    BY <1>0, <2>1, CallShape, BalanceKeyType DEF ApplyCall
  <2>4. /\ \A k \in Key : /\ balances'[k].used = balances[k].used
                          /\ balances'[k].pending = balances[k].pending
                          /\ balances[k].exists => balances'[k].exists
        /\ balances'[BalanceKey(calls[c])].exists
    BY <1>0, <1>c, <2>1, <2>3, UpsertCounters
  <2>5. CASE Return(c)
    BY <1>c, <1>still, <2>1, <2>2, <2>4, <2>5, CountersKept DEF Return
  <2>6. CASE Goto(c, "reserve")
    <3>1. PICK q \in ApplyCall : /\ calls' = [calls EXCEPT ![c] = q]
                                 /\ q.op = "apply" /\ q.pc = "reserve"
                                 /\ q.emp = calls[c].emp /\ q.type = calls[c].type
                                 /\ q.start = calls[c].start /\ q.end = calls[c].end
      BY <1>0, <2>1, <2>6, GotoApply
    <3>2. Founded(calls[c])
      BY <1>c DEF CountersInv
    <3>3. BalanceKey(q) = BalanceKey(calls[c]) /\ BalanceKey(q)' = BalanceKey(calls[c])
      BY <3>1 DEF BalanceKey
    <3>4. Founded(q)' /\ \A k \in Key : ~Moving(q, k)
      BY <1>waits, <2>1, <2>4, <3>1, <3>2, <3>3 DEF Founded
    <3> QED
      BY <1>c, <2>1, <2>2, <2>4, <3>1, <3>4, CountersKept
  <2> QED
    BY <1>4, <2>5, <2>6 DEF ApplyEnsureBalance
<1>5. ASSUME NEW c \in Calls, ApplyReserve(c) PROVE CountersInv'
  <2>1. calls[c].op = "apply" /\ calls[c].pc = "reserve" /\ UNCHANGED requests
        /\ balances' = Adjust(BalanceKey(calls[c]), [used |-> 0, pending |-> calls[c].days])
    BY <1>5 DEF ApplyReserve
  <2>2. \A k \in Key : ~Moving(calls[c], k)
    BY <1>waits, <2>1
  <2>3. calls[c] \in ApplyCall /\ BalanceKey(calls[c]) \in Key
    BY <1>0, <2>1, CallShape, BalanceKeyType DEF ApplyCall
  <2>4. PICK q \in ApplyCall : /\ calls' = [calls EXCEPT ![c] = q]
                               /\ q.op = "apply" /\ q.pc = "create"
                               /\ q.emp = calls[c].emp /\ q.type = calls[c].type
                               /\ q.start = calls[c].start /\ q.end = calls[c].end
                               /\ q.days = calls[c].days
    BY <1>0, <1>5, <2>1, GotoApply DEF ApplyReserve
  <2>5. PICK k0 \in Key : k0 = BalanceKey(calls[c])
    BY <2>3
  <2>6. PICK by \in [used : Int, pending : Int] : by = [used |-> 0, pending |-> calls[c].days]
    <3>1. PICK n \in Int : n = calls[c].days
      BY <2>3 DEF ApplyCall
    <3>2. [used |-> 0, pending |-> n] \in [used : Int, pending : Int]
      OBVIOUS
    <3> QED
      BY <3>1, <3>2
  <2>7. k0 = RowOf(calls[c]) /\ k0 = BalanceKey(q) /\ k0 = BalanceKey(q)' /\ k0 = RowOf(q)
    BY <2>1, <2>4, <2>5 DEF RowOf, BalanceKey
  <2>8. Founded(calls[c])
    BY <1>c DEF CountersInv
  <2>9. balances[k0].exists /\ calls[c].start <= calls[c].end
    BY <2>1, <2>5, <2>8 DEF Founded
  <2>10. balances'[k0].exists
    BY <1>0, <2>1, <2>5, <2>9 DEF Adjust, TypeOK
  <2>11. Founded(q)'
    BY <2>4, <2>7, <2>9, <2>10 DEF Founded
  <2>12. \A k \in Key : Moving(q, k) <=> k = k0
    BY <2>4, <2>7 DEF Moving, Writes
  <2>13. Moved(q) = by
    BY <2>4, <2>6 DEF Moved
  <2>14. calls[c].op \in Writes
    BY <2>1 DEF Writes
  <2> QED
    BY <1>c, <2>1, <2>2, <2>4, <2>5, <2>6, <2>7, <2>9, <2>11, <2>12, <2>13, <2>14,
       CountersAdjusted
<1>6. ASSUME NEW c \in Calls, NEW r \in Requests, ApplyCreate(c, r) PROVE CountersInv'
  <2>1. PICK row : row = [status |-> "PENDING", emp |-> calls[c].emp, type |-> calls[c].type,
                          start |-> calls[c].start, end |-> calls[c].end,
                          days |-> calls[c].days]
    OBVIOUS
  <2>2. calls[c].op = "apply" /\ calls[c].pc = "create" /\ requests[r] = NoRequest
        /\ requests' = [requests EXCEPT ![r] = row] /\ Return(c) /\ UNCHANGED balances
    BY <1>6, <2>1 DEF ApplyCreate
  <2>3. calls[c] \in ApplyCall /\ BalanceKey(calls[c]) \in Key
    BY <1>0, <2>2, CallShape, BalanceKeyType DEF ApplyCall
  <2>4. row \in Request
    BY <2>1, <2>3 DEF ApplyCall, Request
  <2>5. PICK k0 \in Key : k0 = BalanceKey(calls[c])
    BY <2>3
  <2>6. BalanceKey(row) = k0 /\ row.status = "PENDING" /\ row.days = calls[c].days
    BY <2>1, <2>5 DEF BalanceKey
  <2>7. Moving(calls[c], k0)
    BY <2>2, <2>5 DEF Moving, RowOf, Writes
  <2>8. Founded(calls[c])
    BY <1>c DEF CountersInv
  <2>9. balances[k0].exists
    BY <2>2, <2>5, <2>8 DEF Founded
  <2>10. Moved(calls[c]).used = 0 /\ Moved(calls[c]).pending = calls[c].days
    BY <2>2 DEF Moved
  <2>11. /\ Share(row, k0, "APPROVED") = 0 /\ Share(row, k0, "PENDING") = calls[c].days
         /\ Share(requests[r], k0, "APPROVED") = 0 /\ Share(requests[r], k0, "PENDING") = 0
    BY <2>2, <2>6 DEF Share, NoRequest
  <2>12. calls[c].days \in Int
    BY <2>3 DEF ApplyCall
  <2>13. /\ Share(row, k0, "APPROVED") - Share(requests[r], k0, "APPROVED")
              = Moved(calls[c]).used
         /\ Share(row, k0, "PENDING") - Share(requests[r], k0, "PENDING")
              = Moved(calls[c]).pending
    BY <2>10, <2>11, <2>12
  <2> QED
    BY <1>c, <2>2, <2>4, <2>6, <2>7, <2>9, <2>13, CountersWritten
<1>7. ASSUME NEW c \in Calls, NEW r \in Requests, NEW verdict \in {"APPROVED", "REJECTED"},
             DecideStart(c, r, verdict)
      PROVE  CountersInv'
  <2>1. PICK q : q = [op |-> "decide", pc |-> "adjust", emp |-> requests[r].emp, req |-> r,
                      verdict |-> verdict]
    OBVIOUS
  <2>2. /\ calls' = [calls EXCEPT ![c] = q] /\ UNCHANGED <<requests, balances>>
        /\ calls[c] = Idle
    BY <1>7, <2>1 DEF DecideStart, MayStart
  <2>3. Founded(q)' /\ \A k \in Key : ~Moving(q, k)
    BY <1>waits, <2>1 DEF Founded
  <2> QED
    BY <1>c, <1>still, <2>2, <2>3, CountersKept
<1>8. ASSUME NEW c \in Calls, DecideAdjust(c) PROVE CountersInv'
  <2>1. PICK r : r = calls[c].req
    OBVIOUS
  <2>2. PICK by : by = DecisionDelta(calls[c].verdict, requests[r].days)
    OBVIOUS
  <2>3. PICK k0 : k0 = BalanceKey(requests[r])
    OBVIOUS
  <2>4. /\ calls[c].op = "decide" /\ calls[c].pc = "adjust" /\ UNCHANGED requests
        /\ balances' = Adjust(k0, by)
    BY <1>8, <2>1, <2>2, <2>3 DEF DecideAdjust
  <2>5. r \in Requests /\ requests[r] \in Request /\ requests[r].status \in Live
    BY <2>1, <2>4, SerialTarget
  <2>6. k0 \in Key /\ by \in [used : Int, pending : Int] /\ balances[k0].exists
    BY <1>c, <2>2, <2>3, <2>5, BalanceKeyType DEF CountersInv, DecisionDelta, Request
  <2>7. PICK q \in DecideCall \cup CancelCall :
          /\ calls' = [calls EXCEPT ![c] = q] /\ q.op = "decide" /\ q.pc = "update"
          /\ q.req = r /\ q.verdict = calls[c].verdict
    BY <1>0, <1>8, <2>1, <2>4, GotoUpdate DEF DecideAdjust
  <2>8. k0 = RowOf(calls[c]) /\ k0 = RowOf(q)
    BY <2>1, <2>3, <2>4, <2>7 DEF RowOf
  <2>9. \A k \in Key : Moving(q, k) <=> k = k0
    BY <2>7, <2>8 DEF Moving, Writes
  <2>10. Moved(q) = by /\ Founded(q)'
    BY <2>2, <2>7 DEF Moved, Founded
  <2>11. calls[c].op \in Writes /\ \A k \in Key : ~Moving(calls[c], k)
    BY <1>waits, <2>4 DEF Writes
  <2> QED
    BY <1>c, <2>4, <2>6, <2>7, <2>8, <2>9, <2>10, <2>11, CountersAdjusted
<1>9. ASSUME NEW c \in Calls, DecideUpdate(c) PROVE CountersInv'
  <2>1. PICK r : r = calls[c].req
    OBVIOUS
  <2>2. PICK row : row = [requests[r] EXCEPT !.status = calls[c].verdict]
    OBVIOUS
  <2>3. PICK k0 : k0 = BalanceKey(requests[r])
    OBVIOUS
  <2>4. /\ calls[c].op = "decide" /\ calls[c].pc = "update" /\ UNCHANGED balances
        /\ Return(c) /\ requests' = [requests EXCEPT ![r] = row]
    BY <1>0, <1>9, <2>1, <2>2 DEF DecideUpdate, TypeOK
  <2>5. /\ r \in Requests /\ requests[r] \in Request /\ requests[r].status = "PENDING"
        /\ calls[c].verdict \in {"APPROVED", "REJECTED"}
    BY <2>1, <2>4, SerialTarget
  <2>6. /\ row \in Request /\ row.status = calls[c].verdict /\ row.days = requests[r].days
        /\ row.emp = requests[r].emp /\ row.type = requests[r].type
        /\ row.start = requests[r].start
    BY <2>2, <2>5 DEF Request
  <2>7. k0 \in Key /\ BalanceKey(row) = k0 /\ balances[k0].exists
    BY <1>c, <2>3, <2>5, <2>6, BalanceKeyType DEF CountersInv, BalanceKey, Request, Live
  <2>8. Moving(calls[c], k0)
    BY <2>1, <2>3, <2>4 DEF Moving, RowOf, Writes
  <2>9. requests[r].days \in Int
    BY <2>5 DEF Request
  <2>10. /\ Share(row, k0, "APPROVED") - Share(requests[r], k0, "APPROVED")
              = Moved(calls[c]).used
         /\ Share(row, k0, "PENDING") - Share(requests[r], k0, "PENDING")
              = Moved(calls[c]).pending
    BY <2>1, <2>3, <2>4, <2>5, <2>6, <2>7, <2>9 DEF Share, Moved, DecisionDelta
  <2> QED
    BY <1>c, <2>3, <2>4, <2>5, <2>6, <2>7, <2>8, <2>10, CountersWritten
<1>10. ASSUME NEW c \in Calls, NEW r \in Requests, CancelStart(c, r) PROVE CountersInv'
  <2>1. PICK q : q = [op |-> "cancel", pc |-> "adjust", emp |-> requests[r].emp, req |-> r,
                      seen |-> requests[r].status]
    OBVIOUS
  <2>2. /\ calls' = [calls EXCEPT ![c] = q] /\ UNCHANGED <<requests, balances>>
        /\ calls[c] = Idle
    BY <1>10, <2>1 DEF CancelStart, MayStart
  <2>3. Founded(q)' /\ \A k \in Key : ~Moving(q, k)
    BY <1>waits, <2>1, <2>2 DEF Founded
  <2> QED
    BY <1>c, <1>still, <2>2, <2>3, CountersKept
<1>11. ASSUME NEW c \in Calls, CancelAdjust(c) PROVE CountersInv'
  <2>1. PICK r : r = calls[c].req
    OBVIOUS
  <2>2. PICK by : by = Refund(calls[c].seen, requests[r].days)
    OBVIOUS
  <2>3. PICK k0 : k0 = BalanceKey(requests[r])
    OBVIOUS
  <2>4. /\ calls[c].op = "cancel" /\ calls[c].pc = "adjust" /\ UNCHANGED requests
        /\ balances' = Adjust(k0, by)
    BY <1>11, <2>1, <2>2, <2>3 DEF CancelAdjust
  <2>5. r \in Requests /\ requests[r] \in Request /\ requests[r].status \in Live
    BY <2>1, <2>4, SerialTarget
  <2>6. k0 \in Key /\ by \in [used : Int, pending : Int] /\ balances[k0].exists
    BY <1>c, <2>2, <2>3, <2>5, BalanceKeyType DEF CountersInv, Refund, Request
  <2>7. PICK q \in DecideCall \cup CancelCall :
          /\ calls' = [calls EXCEPT ![c] = q] /\ q.op = "cancel" /\ q.pc = "update"
          /\ q.req = r /\ q.seen = calls[c].seen
    BY <1>0, <1>11, <2>1, <2>4, GotoUpdate DEF CancelAdjust
  <2>8. k0 = RowOf(calls[c]) /\ k0 = RowOf(q)
    BY <2>1, <2>3, <2>4, <2>7 DEF RowOf
  <2>9. \A k \in Key : Moving(q, k) <=> k = k0
    BY <2>7, <2>8 DEF Moving, Writes
  <2>10. Founded(calls[c])
    BY <1>c DEF CountersInv
  <2>11. Moved(q) = by /\ Founded(q)'
    BY <2>1, <2>2, <2>4, <2>7, <2>10 DEF Moved, Founded
  <2>12. calls[c].op \in Writes /\ \A k \in Key : ~Moving(calls[c], k)
    BY <1>waits, <2>4 DEF Writes
  <2> QED
    BY <1>c, <2>4, <2>6, <2>7, <2>8, <2>9, <2>11, <2>12, CountersAdjusted
<1>12. ASSUME NEW c \in Calls, CancelUpdate(c) PROVE CountersInv'
  <2>1. PICK r : r = calls[c].req
    OBVIOUS
  <2>2. PICK row : row = [requests[r] EXCEPT !.status = "CANCELLED"]
    OBVIOUS
  <2>3. PICK k0 : k0 = BalanceKey(requests[r])
    OBVIOUS
  <2>4. /\ calls[c].op = "cancel" /\ calls[c].pc = "update" /\ UNCHANGED balances
        /\ Return(c) /\ requests' = [requests EXCEPT ![r] = row]
    BY <1>0, <1>12, <2>1, <2>2 DEF CancelUpdate, TypeOK
  <2>5. r \in Requests /\ requests[r] \in Request /\ requests[r].status \in Live
    BY <2>1, <2>4, SerialTarget
  <2>6. /\ row \in Request /\ row.status = "CANCELLED" /\ row.days = requests[r].days
        /\ row.emp = requests[r].emp /\ row.type = requests[r].type
        /\ row.start = requests[r].start
    BY <2>2, <2>5 DEF Request
  <2>7. k0 \in Key /\ BalanceKey(row) = k0 /\ balances[k0].exists
    BY <1>c, <2>3, <2>5, <2>6, BalanceKeyType DEF CountersInv, BalanceKey, Request
  <2>8. Moving(calls[c], k0)
    BY <2>1, <2>3, <2>4 DEF Moving, RowOf, Writes
  <2>9. requests[r].days \in Int
    BY <2>5 DEF Request
  <2>10. Founded(calls[c])
    BY <1>c DEF CountersInv
  <2>11. requests[r].status = calls[c].seen
    BY <2>1, <2>4, <2>10 DEF Founded
  <2>12. /\ Share(row, k0, "APPROVED") - Share(requests[r], k0, "APPROVED")
              = Moved(calls[c]).used
         /\ Share(row, k0, "PENDING") - Share(requests[r], k0, "PENDING")
              = Moved(calls[c]).pending
    BY <2>1, <2>3, <2>4, <2>5, <2>6, <2>7, <2>9, <2>11 DEF Share, Moved, Refund, Live
  <2> QED
    BY <1>c, <2>3, <2>4, <2>5, <2>6, <2>7, <2>8, <2>12, CountersWritten
<1>13. ASSUME NEW c \in Calls, NEW k \in Key, BalancesStart(c, k) PROVE CountersInv'
  <2>1. PICK q : q = [op |-> "balances", emp |-> k[1], key |-> k,
                      quota |-> policy[k[2]].annualQuota]
    OBVIOUS
  <2>2. /\ calls' = [calls EXCEPT ![c] = q] /\ UNCHANGED <<requests, balances>>
        /\ calls[c] = Idle
    BY <1>13, <2>1 DEF BalancesStart
  <2>3. Founded(q)' /\ \A j \in Key : ~Moving(q, j)
    BY <2>1 DEF Founded, Moving, Writes
  <2> QED
    BY <1>c, <1>still, <2>2, <2>3, CountersKept
<1>14. ASSUME NEW c \in Calls, BalancesSeed(c) PROVE CountersInv'
  <2>1. calls[c] \in BalancesCall /\ calls[c].op = "balances"
    BY <1>0, <1>14, CallShape DEF BalancesSeed
  <2>2. \A k \in Key : /\ balances'[k].used = balances[k].used
                       /\ balances'[k].pending = balances[k].pending
                       /\ balances[k].exists => balances'[k].exists
    BY <1>0, <1>c, <1>14, <2>1, UpsertCounters DEF BalancesSeed, BalancesCall
  <2>3. \A k \in Key : ~Moving(calls[c], k)
    BY <2>1 DEF Moving, Writes
  <2> QED
    BY <1>c, <1>14, <1>still, <2>2, <2>3, CountersKept DEF BalancesSeed, Return
<1>15. CASE UNCHANGED vars
  BY <1>c, <1>15, CountersSame DEF vars
<1> QED
  BY <1>1, <1>2, <1>3, <1>4, <1>5, <1>6, <1>7, <1>8, <1>9, <1>10, <1>11, <1>12, <1>13,
     <1>14, <1>15, <1>c DEF Next

\* CountersInv holds as long as no call was cut short.
LEMMA CountersInvariance ==
  ASSUME Discipline = "oneCall"
  PROVE  Spec => [](failures = 0 => CountersInv)
<1>1. Init => (failures = 0 => CountersInv)
  BY CountersInvInit
<1>2. SerialInv /\ (failures = 0 => CountersInv) /\ [Next]_vars => (failures = 0 => CountersInv)'
  BY CountersInvNext
<1> QED
  BY <1>1, <1>2, SerialInvariance, PTL DEF Spec

\* With one writing call per employee in flight, the counters of every row whose
\* employee has none are the days of the requests charged to it, until a call
\* is cut short between its two writes: whatever applications, decisions and
\* cancellations of other employees, policies and seedings of rows do meanwhile.
THEOREM CountersAreExact ==
  ASSUME Discipline = "oneCall"
  PROVE  Spec => [](failures = 0 => CountersMatchRequests)
<1>1. SerialInv /\ CountersInv => CountersMatchRequests
  <2> SUFFICES ASSUME SerialInv, CountersInv, NEW k \in Key, InFlight(k[1], Writes) = {}
               PROVE  /\ balances[k].pending = DaysOf(k, "PENDING")
                      /\ balances[k].used = DaysOf(k, "APPROVED")
    BY DEF CountersMatchRequests
  <2>1. \A c \in Calls : ~Moving(calls[c], k)
    BY MovingIsWriting DEF InFlight
  <2>2. Ahead(k, 0, 0)
    BY <2>1 DEF CountersInv
  <2>3. DaysOf(k, "APPROVED") \in Int /\ DaysOf(k, "PENDING") \in Int
    BY DaysOfIn, DaysInType DEF SerialInv, TypeInv, TypeOK, Table, Live
  <2> QED
    BY <2>2, <2>3 DEF Ahead
<1>2. SerialInv /\ (failures = 0 => CountersInv) => (failures = 0 => CountersMatchRequests)
  BY <1>1
<1> QED
  BY <1>2, CountersInvariance, SerialInvariance, PTL
------------------------------------------------------------------------------
(* The module implements the ledger, if an employee has one writing call in   *)
(* flight and no call is cut short.  A row that appears is a grant, a created *)
(* request an application, a written status a settlement; every other query   *)
(* changes nothing the ledger shows.  The application finds room because the  *)
(* balance is not overdrawn with its own days already reserved, and because   *)
(* the counters are ahead of the requests by exactly these days.              *)

\* What the ledger shows of the rows.
Grants == [k \in Key |-> [exists |-> balances[k].exists, days |-> balances[k].accrued]]

\* The days of the live requests charged to a grant are pending or approved.
LEMMA CommittedIs ==
  ASSUME TypeOK, NEW k \in Key
  PROVE  /\ Ledger!Committed(k) = DaysOf(k, "PENDING") + DaysOf(k, "APPROVED")
         /\ DaysOf(k, "PENDING") \in Int /\ DaysOf(k, "APPROVED") \in Int
<1> DEFINE P == Charged(requests, k, "PENDING")
           A == Charged(requests, k, "APPROVED")
           f == [r \in P \cup A |-> requests[r].days]
           p == DaysEach(requests, k, "PENDING")
           a == DaysEach(requests, k, "APPROVED")
<1>0. requests \in Table
  BY DEF TypeOK, Table
<1>1. /\ IsFiniteSet(P) /\ \A r \in P : p[r] \in Int
      /\ IsFiniteSet(A) /\ \A r \in A : a[r] \in Int
  BY <1>0, DaysEachType DEF Live
<1>2. /\ \A r \in P : f[r] = p[r]
      /\ \A r \in A : f[r] = a[r]
      /\ P \cap A = {}
  BY DEF DaysEach, Charged
<1>3. Ledger!Committed(k) = SumFunctionOnSet(f, P \cup A)
  <2>1. P \cup A = Ledger!Held(k)
    BY DEF Charged, Ledger!Held, Ledger!Holds, Ledger!GrantOf, BalanceKey
  <2>2. Ledger!Committed(k) = SumFunctionOnSet([r \in Ledger!Held(k) |-> requests[r].days],
                                              Ledger!Held(k))
    BY DEF Ledger!Committed, Ledger!SumFunctionOnSet, Ledger!FoldFunctionOnSet,
       Ledger!MapThenFoldSet, SumFunctionOnSet, FoldFunctionOnSet, MapThenFoldSet
  <2>3. [r \in Ledger!Held(k) |-> requests[r].days] = f
    BY <2>1
  <2> HIDE DEF P, A, f
  <2> QED
    BY <2>1, <2>2, <2>3
<1>4. /\ DaysOf(k, "PENDING") = SumFunctionOnSet(p, P)
      /\ DaysOf(k, "APPROVED") = SumFunctionOnSet(a, A)
  BY DaysOfIn DEF DaysIn
<1>5. DaysOf(k, "PENDING") \in Int /\ DaysOf(k, "APPROVED") \in Int
  BY <1>0, DaysInType, DaysOfIn DEF Live
<1> HIDE DEF f, p, a, P, A
<1>6. SumFunctionOnSet(f, P \cup A) = SumFunctionOnSet(f, P) + SumFunctionOnSet(f, A)
  BY <1>1, <1>2, SumSplits
<1>7. SumFunctionOnSet(p, P) = SumFunctionOnSet(f, P)
  BY <1>1, <1>2, SumSame
<1>8. SumFunctionOnSet(a, A) = SumFunctionOnSet(f, A)
  BY <1>1, <1>2, SumSame
<1> QED
  BY <1>3, <1>4, <1>5, <1>6, <1>7, <1>8

\* A step that keeps what the ledger shows.
LEMMA LedgerStutters ==
  ASSUME UNCHANGED requests,
         \A k \in Key : /\ balances'[k].exists = balances[k].exists
                        /\ balances'[k].accrued = balances[k].accrued
  PROVE  UNCHANGED Ledger!vars
BY DEF Ledger!vars

\* Seeding a row grants its days, unless it is there already.
LEMMA LedgerGrants ==
  ASSUME TypeOK, NEW k0 \in Key, NEW quota, balances' = Upsert(k0, quota), UNCHANGED requests
  PROVE  [Ledger!Next]_(Ledger!vars)
<1>1. CASE balances[k0].exists
  BY <1>1, LedgerStutters DEF Upsert
<1>2. CASE ~balances[k0].exists
  <2>1. /\ balances'[k0].exists = TRUE
        /\ \A k \in Key \ {k0} : balances'[k] = balances[k]
    BY <1>2 DEF Upsert, TypeOK
  <2>2. /\ Grants[k0].exists = FALSE
        /\ Grants' = [Grants EXCEPT ![k0] = [exists |-> TRUE, days |-> Grants'[k0].days]]
    BY <1>2, <2>1 DEF Grants, TypeOK, Row
  <2> QED
    BY <2>2 DEF Ledger!Next, Ledger!Grant, Ledger!Key, Key, Grants
<1> QED
  BY <1>1, <1>2

\* An adjustment shows nothing.
LEMMA LedgerAdjusts ==
  ASSUME TypeOK, NEW k0 \in Key, NEW by, balances' = Adjust(k0, by), UNCHANGED requests
  PROVE  UNCHANGED Ledger!vars
<1>1. \A k \in Key : /\ balances'[k].exists = balances[k].exists
                     /\ balances'[k].accrued = balances[k].accrued
  BY DEF Adjust, TypeOK, Row
<1> QED
  BY <1>1, LedgerStutters

\* A created request is an application that the ledger admits.
LEMMA LedgerApplies ==
  ASSUME SerialInv, NeverOverdrawn, CountersInv,
         NEW c \in Calls, NEW r \in Requests, ApplyCreate(c, r)
  PROVE  Ledger!Next
<1>1. PICK q \in ApplyCall : q = calls[c] /\ q.op = "apply" /\ q.pc = "create"
  BY CallShape DEF ApplyCreate, SerialInv, TypeInv
<1>2. PICK row : row = [status |-> "PENDING", emp |-> q.emp, type |-> q.type,
                        start |-> q.start, end |-> q.end, days |-> q.days]
  OBVIOUS
<1>3. requests[r] = NoRequest /\ UNCHANGED balances
      /\ requests' = [requests EXCEPT ![r] = row]
  BY <1>1, <1>2 DEF ApplyCreate
<1>4. /\ row.status = "PENDING" /\ row.emp = q.emp /\ row.start = q.start
      /\ row.end = q.end /\ row.days = q.days
      /\ BalanceKey(row) = BalanceKey(q)
  BY <1>2 DEF BalanceKey
<1>5. PICK k \in Key : k = BalanceKey(q)
  BY <1>1, BalanceKeyType DEF ApplyCall
<1>6. requests'[r] = row
  BY <1>3 DEF SerialInv, TypeInv, TypeOK
<1>7. q.start <= q.end /\ balances[k].exists
  BY <1>1, <1>5 DEF CountersInv, Founded
<1>8. q.days \in Nat \ {0} /\ q.start \in Nat /\ q.end \in Nat
  BY <1>1, DaysAssumption DEF ApplyCall
<1>9. ASSUME NEW s \in Requests, requests[s].status \in Live, requests[s].emp = q.emp
      PROVE  q.end < requests[s].start \/ requests[s].end < q.start
  <2>1. StillDisjoint(q)
    BY <1>1 DEF SerialInv
  <2>2. ~HasOverlap(q, requests[s])
    BY <1>1, <1>9, <2>1 DEF StillDisjoint, LiveOf
  <2>3. requests[s] \in Request
    BY <1>9, RequestShape DEF SerialInv, TypeInv, NoRequest, Live
  <2>4. requests[s].start \in Nat /\ requests[s].end \in Nat
    BY <2>3, DaysAssumption DEF Request
  <2> QED
    BY <1>8, <2>2, <2>4 DEF HasOverlap
<1>10. Ledger!Committed(k) + q.days <= balances[k].accrued
  <2>1. Moving(calls[c], k)
    BY <1>1, <1>5 DEF Moving, RowOf, Writes
  <2>2. Moved(calls[c]).used = 0 /\ Moved(calls[c]).pending = q.days
    BY <1>1 DEF Moved
  <2>3. Ahead(k, 0, q.days)
    BY <2>1, <2>2 DEF CountersInv
  <2>4. balances[k].used + balances[k].pending <= balances[k].accrued
    BY DEF NeverOverdrawn
  <2>5. balances[k].accrued \in Int
    BY DEF SerialInv, TypeInv, TypeOK, Row
  <2>6. /\ Ledger!Committed(k) = DaysOf(k, "PENDING") + DaysOf(k, "APPROVED")
        /\ DaysOf(k, "PENDING") \in Int /\ DaysOf(k, "APPROVED") \in Int
    BY CommittedIs DEF SerialInv, TypeInv
  <2> QED
    BY <1>8, <2>3, <2>4, <2>5, <2>6 DEF Ahead
<1>11. Ledger!GrantOf(row) = k
  BY <1>4, <1>5 DEF Ledger!GrantOf, BalanceKey
<1>12. Grants[k].exists = balances[k].exists /\ Grants[k].days = balances[k].accrued
  BY DEF Grants
<1>13. UNCHANGED Grants
  BY <1>3 DEF Grants
<1>14. Ledger!Apply(r, row)
  <2>1. requests[r] = Ledger!NoRequest
    BY <1>3 DEF NoRequest, Ledger!NoRequest
  <2>2. \A s \in Requests : Ledger!Holds(s) /\ requests[s].emp = row.emp =>
          row.end < requests[s].start \/ requests[s].end < row.start
    BY <1>4, <1>9 DEF Ledger!Holds, Live
  <2>3. Grants[Ledger!GrantOf(row)].exists
    BY <1>7, <1>11, <1>12
  <2>4. Ledger!Committed(Ledger!GrantOf(row)) + row.days <= Grants[Ledger!GrantOf(row)].days
    BY <1>4, <1>10, <1>11, <1>12
  <2>5. row.start <= row.end /\ row.days > 0
    BY <1>4, <1>7, <1>8
  <2> QED
    BY <1>3, <1>4, <1>13, <2>1, <2>2, <2>3, <2>4, <2>5 DEF Ledger!Apply, Grants
<1> QED
  BY <1>6, <1>14 DEF Ledger!Next

\* A written status settles the request.
LEMMA LedgerSettles ==
  ASSUME NEW r \in Requests, UNCHANGED balances, NEW from, NEW to,
         requests[r].status = from, requests' = [requests EXCEPT ![r].status = to],
         \/ from = "PENDING" /\ to \in {"APPROVED", "REJECTED", "CANCELLED"}
         \/ from = "APPROVED" /\ to = "CANCELLED"
  PROVE  Ledger!Next
<1>1. Ledger!Settle(r, from, to)
  BY DEF Ledger!Settle
<1> QED
  BY <1>1 DEF Ledger!Next

\* Every query is a step of the ledger, or shows nothing.
LEMMA LedgerNext ==
  SerialInv /\ NeverOverdrawn /\ CountersInv /\ [Next]_vars => [Ledger!Next]_(Ledger!vars)
<1> SUFFICES ASSUME SerialInv, NeverOverdrawn, CountersInv, [Next]_vars
             PROVE  [Ledger!Next]_(Ledger!vars)
  OBVIOUS
<1>0. TypeOK
  BY DEF SerialInv, TypeInv
<1>same. ASSUME UNCHANGED <<balances, requests>> PROVE UNCHANGED Ledger!vars
  BY <1>same, LedgerStutters
<1>1. ASSUME NEW c \in Calls, ApplyEnsureBalance(c) PROVE [Ledger!Next]_(Ledger!vars)
  <2>1. calls[c] \in ApplyCall
    BY <1>0, <1>1, CallShape DEF ApplyEnsureBalance
  <2>2. BalanceKey(calls[c]) \in Key
    BY <2>1, BalanceKeyType DEF ApplyCall
  <2> QED
    BY <1>0, <1>1, <2>2, LedgerGrants DEF ApplyEnsureBalance
<1>2. ASSUME NEW c \in Calls, ApplyReserve(c) PROVE UNCHANGED Ledger!vars
  <2>1. calls[c] \in ApplyCall
    BY <1>0, <1>2, CallShape DEF ApplyReserve
  <2>2. BalanceKey(calls[c]) \in Key
    BY <2>1, BalanceKeyType DEF ApplyCall
  <2> QED
    BY <1>0, <1>2, <2>2, LedgerAdjusts DEF ApplyReserve
<1>3. ASSUME NEW c \in Calls, NEW r \in Requests, ApplyCreate(c, r) PROVE Ledger!Next
  BY <1>3, LedgerApplies
<1>4. ASSUME NEW c \in Calls, DecideAdjust(c) PROVE UNCHANGED Ledger!vars
  <2>1. BalanceKey(requests[calls[c].req]) \in Key
    BY <1>4, SerialTarget, BalanceKeyType DEF DecideAdjust, Request
  <2> QED
    BY <1>0, <1>4, <2>1, LedgerAdjusts DEF DecideAdjust
<1>5. ASSUME NEW c \in Calls, DecideUpdate(c) PROVE Ledger!Next
  <2>1. /\ calls[c].req \in Requests /\ requests[calls[c].req].status = "PENDING"
        /\ calls[c].verdict \in {"APPROVED", "REJECTED"}
    BY <1>5, SerialTarget DEF DecideUpdate
  <2> QED
    BY <1>5, <2>1, LedgerSettles DEF DecideUpdate
<1>6. ASSUME NEW c \in Calls, CancelAdjust(c) PROVE UNCHANGED Ledger!vars
  <2>1. BalanceKey(requests[calls[c].req]) \in Key
    BY <1>6, SerialTarget, BalanceKeyType DEF CancelAdjust, Request
  <2> QED
    BY <1>0, <1>6, <2>1, LedgerAdjusts DEF CancelAdjust
<1>7. ASSUME NEW c \in Calls, CancelUpdate(c) PROVE Ledger!Next
  <2>1. calls[c].req \in Requests /\ requests[calls[c].req].status \in Live
    BY <1>7, SerialTarget DEF CancelUpdate
  <2> QED
    BY <1>7, <2>1, LedgerSettles DEF CancelUpdate, Live
<1>8. ASSUME NEW c \in Calls, BalancesSeed(c) PROVE [Ledger!Next]_(Ledger!vars)
  <2>1. calls[c] \in BalancesCall
    BY <1>0, <1>8, CallShape DEF BalancesSeed
  <2> QED
    BY <1>0, <1>8, <2>1, LedgerGrants DEF BalancesSeed, BalancesCall
<1>9. ASSUME NEW c \in Calls,
             \/ \E e \in Employees, t \in LeaveTypes, start, end \in Days :
                  ApplyStart(c, e, t, start, end)
             \/ ApplyCheckOverlap(c)
             \/ \E r \in Requests, verdict \in {"APPROVED", "REJECTED"} :
                  DecideStart(c, r, verdict)
             \/ \E r \in Requests : CancelStart(c, r)
             \/ (\E k \in Key : BalancesStart(c, k)) \/ Fail(c)
      PROVE  UNCHANGED <<balances, requests>>
  BY <1>9 DEF ApplyStart, ApplyCheckOverlap, DecideStart, CancelStart, BalancesStart, Fail
<1>10. CASE UNCHANGED vars \/ \E t \in LeaveTypes, p \in Policies : CreatePolicy(t, p)
  <2>1. UNCHANGED <<balances, requests>>
    BY <1>10 DEF vars, CreatePolicy
  <2> QED
    BY <1>same, <2>1
<1> QED
  BY <1>same, <1>1, <1>2, <1>3, <1>4, <1>5, <1>6, <1>7, <1>8, <1>9, <1>10 DEF Next

\* The ledger starts without grants and requests.
LEMMA LedgerInit == Init => Ledger!Init
<1> SUFFICES ASSUME Init PROVE Ledger!Init
  OBVIOUS
<1>1. Grants = [k \in Key |-> Ledger!NoGrant]
  BY DEF Init, Grants, NoRow, Ledger!NoGrant
<1> QED
  BY <1>1 DEF Init, Ledger!Init, Ledger!Key, Key, Grants, NoRequest, Ledger!NoRequest

\* With one writing call per employee in flight and no call cut short, counters
\* kept in separate queries admit what a ledger of the requests admits in one
\* step: LeavesService implements LeaveLedger.
THEOREM LeavesImplementLedger ==
  ASSUME Discipline = "oneCall", MaxFailures = 0
  PROVE  Spec => ImplementsLedger
<1>1. SerialInv => failures = 0
  BY DEF SerialInv, TypeInv, TypeOK
<1>2. ReserveInv /\ [Next]_vars => ReserveInv'
  BY ReserveInvNext
<1>3. ReserveInv => NeverOverdrawn
  BY DEF ReserveInv
<1>4. Init => ReserveInv
  BY ReserveInvInit
<1>5. Spec => []SerialInv
  BY SerialInvariance
<1>6. Spec => [](failures = 0 => CountersInv)
  BY CountersInvariance
<1> QED
  BY <1>1, <1>2, <1>3, <1>4, <1>5, <1>6, LedgerInit, LedgerNext, PTL
  DEF Spec, ImplementsLedger, Ledger!Spec
=============================================================================
