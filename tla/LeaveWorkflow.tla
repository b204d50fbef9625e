---------------------------- MODULE LeaveWorkflow ----------------------------
(***************************************************************************)
(* The leave module of the backend: LeavesService and its repositories.    *)
(*                                                                         *)
(* An HTTP call runs as one asynchronous handler that gives way to every   *)
(* other handler at each `await` of a database query.  A query is atomic;  *)
(* nothing in this module runs in a transaction or takes a lock.  A        *)
(* handler is a slot c of `calls`; the record in the slot holds what its   *)
(* local variables hold between two queries, and `pc` names the query it   *)
(* will issue next.  Each action below is one query with the synchronous   *)
(* code that follows it, early returns included (the slot becomes idle).   *)
(* Reads of rows that no operation of this module changes (the employee,   *)
(* the leave type, the holiday calendar) are folded into the first step.   *)
(***************************************************************************)
EXTENDS Integers, FiniteSets, FiniteSetsExt

CONSTANTS
  Employees,   \* employees of one tenant
  LeaveTypes,  \* leave types of the tenant
  Requests,    \* identities of the leave requests that can be created
  Calls,       \* slots for handlers in flight: bounds the concurrency
  Days,        \* calendar days, numbered
  Years,       \* calendar years
  YearOf,      \* the UTC year of a day
  OffDays,     \* per employee: Sundays and the holidays of the location
  Policies,    \* leave policies HR may create
  NoPolicy,    \* "no policy configured for this leave type"
  Discipline,  \* which handlers the clients keep from overlapping, see MayStart
  MaxFailures  \* how many handlers may end at an await (query error, crash)

ASSUME DaysAssumption == Days \subseteq Nat
ASSUME CalendarAssumption ==
  /\ YearOf \in [Days -> Years]
  /\ OffDays \in [Employees -> SUBSET Days]
ASSUME PolicyAssumption ==
  /\ Policies \subseteq [annualQuota : Nat, minPerRequest : Nat, maxPerRequest : Nat]
  /\ NoPolicy \notin Policies
ASSUME RequestsAssumption == IsFiniteSet(Requests)
ASSUME DisciplineAssumption ==
  /\ Discipline \in {"none", "oneApply", "oneCall"}
  /\ MaxFailures \in Nat

VARIABLES
  policy,    \* leave type -> the policy latest in force, or NoPolicy
  balances,  \* <<employee, leave type, year>> -> balance row
  requests,  \* request identity -> leave request row
  calls,     \* slot -> handler in flight
  failures   \* handlers cut short so far, at most MaxFailures

vars == <<policy, balances, requests, calls, failures>>

----------------------------------------------------------------------------
(* Rows and handlers *)

Key == Employees \X LeaveTypes \X Years
Live == {"PENDING", "APPROVED"}

\* A balance row.  `entitled` is written with `accrued` and never changed.
Row == [exists : BOOLEAN, accrued : Nat, used : Int, pending : Int]
NoRow == [exists |-> FALSE, accrued |-> 0, used |-> 0, pending |-> 0]

\* A request row: what the decisions depend on.
Request ==
  [status : {"PENDING", "APPROVED", "REJECTED", "CANCELLED"}, emp : Employees,
   type : LeaveTypes, start : Days, end : Days, days : Nat \ {0}]
NoRequest == [status |-> "NONE"]

Idle == [op |-> "idle"]
ApplyCall ==
  [op : {"apply"}, pc : {"overlap", "ensure", "reserve", "create"}, emp : Employees,
   type : LeaveTypes, start : Days, end : Days, days : Nat \ {0}, quota : Nat]
DecideCall ==
  [op : {"decide"}, pc : {"adjust", "update"}, emp : Employees, req : Requests,
   verdict : {"APPROVED", "REJECTED"}]
CancelCall ==
  [op : {"cancel"}, pc : {"adjust", "update"}, emp : Employees, req : Requests,
   seen : Live]
BalancesCall ==
  [op : {"balances"}, emp : Employees, key : Key, quota : Nat]

\* The year of a balance is the year of the first day, whatever the last one's.
BalanceKey(q) == <<q.emp, q.type, YearOf[q.start]>>

\* Seeded fault: forgets what is reserved.
AvailableIgnoringPending(b) == b.accrued - b.used

Available(b) == b.accrued - b.used - b.pending

\* Seeded fault: ranges that share only their first or last day pass.
HasOverlapStrict(p, q) == p.start < q.end /\ q.start < p.end

\* Two inclusive ranges of days.
HasOverlap(p, q) == p.start <= q.end /\ q.start <= p.end

WorkingDays(e, start, end) == Cardinality((start .. end) \ OffDays[e])

\* activeForEmployee: the requests an application is compared with.
ActiveForEmployee(e) ==
  {r \in Requests : requests[r].status \in Live /\ requests[r].emp = e}

\* Seeded fault: an existing row takes over the quota of the newer policy.
UpsertOverwriting(k, quota) ==
  [balances EXCEPT ![k] = [@ EXCEPT !.exists = TRUE, !.accrued = quota]]

\* upsertEntitlement: creates the row from the quota, never changes one.
Upsert(k, quota) ==
  IF balances[k].exists
    THEN balances
    ELSE [balances EXCEPT
            ![k] = [exists |-> TRUE, accrued |-> quota, used |-> 0, pending |-> 0]]

\* adjust: one atomic increment of both counters; `if (balance)` guards it.
Adjust(k, by) ==
  IF balances[k].exists
    THEN [balances EXCEPT
            ![k] = [exists |-> TRUE, accrued |-> @.accrued,
                    used |-> @.used + by.used, pending |-> @.pending + by.pending]]
    ELSE balances

----------------------------------------------------------------------------
(* The environment: which calls the clients let overlap.                   *)
(* "none"     any calls may be in flight together (what the server admits) *)
(* "oneApply" an employee has at most one application in flight            *)
(* "oneCall"  an employee has at most one application, decision or         *)
(*            cancellation in flight                                       *)

Writes == {"apply", "decide", "cancel"}

InFlight(e, ops) == {c \in Calls : calls[c].op \in ops /\ calls[c].emp = e}

MayStart(c, op, e) ==
  /\ calls[c] = Idle
  /\ Discipline = "oneApply" /\ op = "apply" => InFlight(e, {"apply"}) = {}
  /\ Discipline = "oneCall" => InFlight(e, Writes) = {}

Goto(c, pc) == calls' = [calls EXCEPT ![c].pc = pc]
Return(c) == calls' = [calls EXCEPT ![c] = Idle]

----------------------------------------------------------------------------
(* POST /leaves/requests *)

\* Seeded fault: a range without a working day passes.
WithinLimitsOrEmpty(p, days) ==
  /\ days >= p.minPerRequest
  /\ p.maxPerRequest # 0 => days <= p.maxPerRequest

\* maxPerRequest 0 stands for "no limit".
WithinLimits(p, days) ==
  /\ days > 0
  /\ days >= p.minPerRequest
  /\ p.maxPerRequest # 0 => days <= p.maxPerRequest

\* Validation; each refusal ends the call before any effect.
ApplyStart(c, e, t, start, end) ==
  LET p == policy[t]
      days == WorkingDays(e, start, end)
  IN /\ MayStart(c, "apply", e)
     /\ p # NoPolicy
     /\ start <= end
     /\ WithinLimits(p, days)
     /\ calls' = [calls EXCEPT
          ![c] = [op |-> "apply", pc |-> "overlap", emp |-> e, type |-> t,
                  start |-> start, end |-> end, days |-> days,
                  quota |-> p.annualQuota]]
     /\ UNCHANGED <<policy, balances, requests, failures>>

\* Reads the live requests; LEAVE_OVERLAP ends the call.
ApplyCheckOverlap(c) ==
  /\ calls[c].op = "apply" /\ calls[c].pc = "overlap"
  /\ IF \E r \in ActiveForEmployee(calls[c].emp) : HasOverlap(calls[c], requests[r])
       THEN Return(c)
       ELSE Goto(c, "ensure")
  /\ UNCHANGED <<policy, balances, requests, failures>>

\* Upserts the balance row and checks it; LEAVE_INSUFFICIENT_BALANCE ends the call.
ApplyEnsureBalance(c) ==
  LET k == BalanceKey(calls[c]) IN
  /\ calls[c].op = "apply" /\ calls[c].pc = "ensure"
  /\ balances' = Upsert(k, calls[c].quota)
  /\ IF calls[c].days > Available(balances'[k])
       THEN Return(c)
       ELSE Goto(c, "reserve")
  /\ UNCHANGED <<policy, requests, failures>>

ApplyReserve(c) ==
  /\ calls[c].op = "apply" /\ calls[c].pc = "reserve"
  /\ balances' = Adjust(BalanceKey(calls[c]), [used |-> 0, pending |-> calls[c].days])
  /\ Goto(c, "create")
  /\ UNCHANGED <<policy, requests, failures>>

ApplyCreate(c, r) ==
  LET q == calls[c] IN
  /\ q.op = "apply" /\ q.pc = "create"
  /\ requests[r] = NoRequest
  /\ requests' = [requests EXCEPT
       ![r] = [status |-> "PENDING", emp |-> q.emp, type |-> q.type,
               start |-> q.start, end |-> q.end, days |-> q.days]]
  /\ Return(c)
  /\ UNCHANGED <<policy, balances, failures>>

----------------------------------------------------------------------------
(* POST /leaves/requests/:id/decision *)

\* Reads the request; ALREADY_DECIDED ends the call before any effect.
DecideStart(c, r, verdict) ==
  /\ requests[r].status = "PENDING"
  /\ MayStart(c, "decide", requests[r].emp)
  /\ calls' = [calls EXCEPT
       ![c] = [op |-> "decide", pc |-> "adjust", emp |-> requests[r].emp, req |-> r,
               verdict |-> verdict]]
  /\ UNCHANGED <<policy, balances, requests, failures>>

DecisionDelta(verdict, days) ==
  [used |-> IF verdict = "APPROVED" THEN days ELSE 0, pending |-> -days]

DecideAdjust(c) ==
  LET q == requests[calls[c].req] IN
  /\ calls[c].op = "decide" /\ calls[c].pc = "adjust"
  /\ balances' = Adjust(BalanceKey(q), DecisionDelta(calls[c].verdict, q.days))
  /\ Goto(c, "update")
  /\ UNCHANGED <<policy, requests, failures>>

DecideUpdate(c) ==
  /\ calls[c].op = "decide" /\ calls[c].pc = "update"
  /\ requests' = [requests EXCEPT ![calls[c].req].status = calls[c].verdict]
  /\ Return(c)
  /\ UNCHANGED <<policy, balances, failures>>

----------------------------------------------------------------------------
(* POST /leaves/requests/:id/cancel *)

\* Seeded fault: a rejected request can be cancelled.
CancellableOrRejected(status) == status \in Live \cup {"REJECTED"}

Cancellable(status) == status \in Live

\* Reads the request; NOT_CANCELLABLE ends the call before any effect.
CancelStart(c, r) ==
  /\ Cancellable(requests[r].status)
  /\ MayStart(c, "cancel", requests[r].emp)
  /\ calls' = [calls EXCEPT
       ![c] = [op |-> "cancel", pc |-> "adjust", emp |-> requests[r].emp, req |-> r,
               seen |-> requests[r].status]]
  /\ UNCHANGED <<policy, balances, requests, failures>>

\* Seeded fault: an approved leave is refunded as if it were pending.
RefundPending(seen, days) == [used |-> 0, pending |-> -days]

\* The days go back to the counter that the status read at the start names.
Refund(seen, days) ==
  IF seen = "PENDING" THEN [used |-> 0, pending |-> -days]
                      ELSE [used |-> -days, pending |-> 0]

CancelAdjust(c) ==
  LET q == requests[calls[c].req] IN
  /\ calls[c].op = "cancel" /\ calls[c].pc = "adjust"
  /\ balances' = Adjust(BalanceKey(q), Refund(calls[c].seen, q.days))
  /\ Goto(c, "update")
  /\ UNCHANGED <<policy, requests, failures>>

CancelUpdate(c) ==
  /\ calls[c].op = "cancel" /\ calls[c].pc = "update"
  /\ requests' = [requests EXCEPT ![calls[c].req].status = "CANCELLED"]
  /\ Return(c)
  /\ UNCHANGED <<policy, balances, failures>>

----------------------------------------------------------------------------
(* GET /leaves/balances and POST /leaves/policies *)

\* getBalances seeds a row for each leave type in turn; the iterations share no
\* state, so a call over several types is the same as one call for each.
BalancesStart(c, k) ==
  /\ calls[c] = Idle
  /\ policy[k[2]] # NoPolicy
  /\ calls' = [calls EXCEPT
       ![c] = [op |-> "balances", emp |-> k[1], key |-> k,
               quota |-> policy[k[2]].annualQuota]]
  /\ UNCHANGED <<policy, balances, requests, failures>>

BalancesSeed(c) ==
  /\ calls[c].op = "balances"
  /\ balances' = Upsert(calls[c].key, calls[c].quota)
  /\ Return(c)
  /\ UNCHANGED <<policy, requests, failures>>

\* A policy with a later effectiveFrom becomes the one in force; an earlier
\* one changes nothing anybody reads.
CreatePolicy(t, p) ==
  /\ policy' = [policy EXCEPT ![t] = p]
  /\ UNCHANGED <<balances, requests, calls, failures>>

\* A query fails, authorisation is refused, or the process dies: what the
\* handler has written stays written.
Fail(c) ==
  /\ failures < MaxFailures
  /\ failures' = failures + 1
  /\ calls[c] # Idle
  /\ Return(c)
  /\ UNCHANGED <<policy, balances, requests>>

----------------------------------------------------------------------------

Init ==
  /\ policy = [t \in LeaveTypes |-> NoPolicy]
  /\ balances = [k \in Key |-> NoRow]
  /\ requests = [r \in Requests |-> NoRequest]
  /\ calls = [c \in Calls |-> Idle]
  /\ failures = 0

Next ==
  \/ \E t \in LeaveTypes, p \in Policies : CreatePolicy(t, p)
  \/ \E c \in Calls :
       \/ \E e \in Employees, t \in LeaveTypes, start, end \in Days :
            ApplyStart(c, e, t, start, end)
       \/ ApplyCheckOverlap(c)
       \/ ApplyEnsureBalance(c)
       \/ ApplyReserve(c)
       \/ \E r \in Requests : ApplyCreate(c, r)
       \/ \E r \in Requests, verdict \in {"APPROVED", "REJECTED"} :
            DecideStart(c, r, verdict)
       \/ DecideAdjust(c)
       \/ DecideUpdate(c)
       \/ \E r \in Requests : CancelStart(c, r)
       \/ CancelAdjust(c)
       \/ CancelUpdate(c)
       \/ \E k \in Key : BalancesStart(c, k)
       \/ BalancesSeed(c)
       \/ Fail(c)

Spec == Init /\ [][Next]_vars

----------------------------------------------------------------------------
(* Properties *)

\* Every row and every handler has the shape the schema and the code give it:
\* in particular a stored request stands for at least one working day.
TypeOK ==
  /\ policy \in [LeaveTypes -> Policies \cup {NoPolicy}]
  /\ balances \in [Key -> Row]
  /\ requests \in [Requests -> Request \cup {NoRequest}]
  /\ calls \in [Calls -> {Idle} \cup ApplyCall \cup DecideCall \cup CancelCall
                        \cup BalancesCall]
  /\ failures \in 0 .. MaxFailures

\* accrued - used - pending of a balance row is never negative (docs/03, 3.3).
\* Checking and reserving are two queries, so this is about what runs between
\* them: with one application per employee in flight, decisions,
\* cancellations and failures at any await keep it.
NeverOverdrawn ==
  \A k \in Key : balances[k].used + balances[k].pending <= balances[k].accrued

\* No employee has two live requests that share a day (docs/03, 3.3).
NoOverlap ==
  \A r, s \in Requests :
    /\ r # s
    /\ requests[r].status \in Live /\ requests[s].status \in Live
    /\ requests[r].emp = requests[s].emp
    => \A d \in Days : ~(/\ requests[r].start <= d /\ d <= requests[r].end
                        /\ requests[s].start <= d /\ d <= requests[s].end)

DaysOf(k, status) ==
  LET charged == {r \in Requests : requests[r].status = status /\ BalanceKey(requests[r]) = k}
  IN SumFunctionOnSet([r \in charged |-> requests[r].days], charged)

\* When no call of an employee is in flight, the counters of each balance row
\* are the days of the pending and of the approved requests charged to it: no
\* day is reserved, used or given back twice or against another year's row.
CountersMatchRequests ==
  \A k \in Key : InFlight(k[1], Writes) = {} =>
    /\ balances[k].pending = DaysOf(k, "PENDING")
    /\ balances[k].used = DaysOf(k, "APPROVED")

\* The leave-request workflow of docs/03, 3.5: what a status may change to; a
\* rejected or cancelled request is at its end.  The diagram labels APPROVED ->
\* CANCELLED "cancelled before start" (docs/03-domain-model.md:191); cancel compares
\* no date (leaves.service.ts:202), so that an approved leave is cancelled here,
\* as in the code, whether it has begun or not.
Workflow ==
  {<<"NONE", "PENDING">>, <<"PENDING", "APPROVED">>, <<"PENDING", "REJECTED">>,
   <<"PENDING", "CANCELLED">>, <<"APPROVED", "CANCELLED">>}

\* A request moves only along the workflow: the status a decision or cancellation
\* was admitted for is the one its write replaces.  It needs the discipline that
\* keeps an employee's calls apart ("oneCall"): the status is read first and
\* written last without a condition, so that a decision in flight with a
\* cancellation brings the cancelled request back.
StatusFollowsWorkflow ==
  [][\A r \in Requests : requests'[r].status # requests[r].status =>
       <<requests[r].status, requests'[r].status>> \in Workflow]_requests

\* The module implements the ledger: counters kept by increments in separate
\* queries admit exactly what the days of the live requests would admit.
Ledger == INSTANCE LeaveLedger WITH
  grants <- [k \in Key |-> [exists |-> balances[k].exists, days |-> balances[k].accrued]]

ImplementsLedger == Ledger!Spec
=============================================================================
