----------------------------- MODULE LeaveLedger -----------------------------
(***************************************************************************)
(* What the leave module promises: leave is a ledger of requests against   *)
(* yearly grants.  An application is admitted in one step if it overlaps   *)
(* no live request and the days of the live requests charged to the same   *)
(* grant leave room for it.  There are no counters: what is left of a      *)
(* grant is computed from the requests.                                    *)
(***************************************************************************)
EXTENDS Integers, FiniteSets, FiniteSetsExt

CONSTANTS Employees, LeaveTypes, Requests, Days, Years, YearOf

VARIABLES
  grants,   \* <<employee, leave type, year>> -> days granted, if any yet
  requests  \* request identity -> request

vars == <<grants, requests>>

Key == Employees \X LeaveTypes \X Years
NoGrant == [exists |-> FALSE, days |-> 0]
NoRequest == [status |-> "NONE"]

GrantOf(q) == <<q.emp, q.type, YearOf[q.start]>>
Holds(r) == requests[r].status \in {"PENDING", "APPROVED"}

Held(k) == {r \in Requests : Holds(r) /\ GrantOf(requests[r]) = k}
Committed(k) == SumFunctionOnSet([r \in Held(k) |-> requests[r].days], Held(k))

\* A grant is fixed the first time anybody looks at it.
Grant(k, quota) ==
  /\ ~grants[k].exists
  /\ grants' = [grants EXCEPT ![k] = [exists |-> TRUE, days |-> quota]]
  /\ UNCHANGED requests

Apply(r, q) ==
  /\ requests[r] = NoRequest
  /\ q.status = "PENDING"
  /\ q.start <= q.end
  /\ q.days > 0
  /\ \A s \in Requests : Holds(s) /\ requests[s].emp = q.emp =>
       q.end < requests[s].start \/ requests[s].end < q.start
  /\ grants[GrantOf(q)].exists
  /\ Committed(GrantOf(q)) + q.days <= grants[GrantOf(q)].days
  /\ requests' = [requests EXCEPT ![r] = q]
  /\ UNCHANGED grants

Settle(r, from, to) ==
  /\ requests[r].status = from
  /\ requests' = [requests EXCEPT ![r].status = to]
  /\ UNCHANGED grants

Init ==
  /\ grants = [k \in Key |-> NoGrant]
  /\ requests = [r \in Requests |-> NoRequest]

Next ==
  \/ \E k \in Key : Grant(k, grants'[k].days)
  \/ \E r \in Requests :
       \/ Apply(r, requests'[r])
       \/ \E to \in {"APPROVED", "REJECTED", "CANCELLED"} : Settle(r, "PENDING", to)
       \/ Settle(r, "APPROVED", "CANCELLED")

Spec == Init /\ [][Next]_vars
=============================================================================
