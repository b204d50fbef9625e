------------------------------ MODULE PayrollRun ------------------------------
(***************************************************************************)
(* One payroll run (a company's month): PayrollService.createRun, process  *)
(* and markPaid, with the employees and salaries they read.  Calls give    *)
(* way to each other at every query.  Only the replacement of one payslip  *)
(* is a transaction; the pass over the employees and the status of the run *)
(* are separate queries.                                                   *)
(*                                                                         *)
(* A payslip is its net pay.  What an employee is due depends on salary    *)
(* and absences that HR may edit at any moment, so each computation yields *)
(* some member of NetPays, whatever payroll.calculator.ts makes of them.   *)
(***************************************************************************)
EXTENDS Integers, FiniteSets, FiniteSetsExt

CONSTANTS
  Employees,  \* numbered in the order of their employee codes
  Calls,      \* slots for calls in flight on the run
  NetPays     \* net pays a computation can yield

ASSUME EmployeesAssumption == Employees \subseteq Nat /\ IsFiniteSet(Employees)
ASSUME NetPaysAssumption == NetPays \subseteq Int

VARIABLES
  active,      \* employee -> status is ACTIVE
  salaried,    \* employee -> has an active salary structure
  run,         \* the row of the run: status and total net pay
  slips,       \* employee -> payslip of the run
  calls,       \* slot -> call in flight
  overlapped,  \* history: two calls have been in flight at once
  stale,       \* history: whose payslip the latest pass has not replaced
  crashed      \* history: a call ended without running its catch block

vars == <<active, salaried, run, slips, calls, overlapped, stale, crashed>>

----------------------------------------------------------------------------

Statuses == {"NONE", "DRAFT", "PROCESSING", "COMPLETED", "FAILED", "PAID"}
Slip == [exists : BOOLEAN, net : Int]
NoSlip == [exists |-> FALSE, net |-> 0]

\* pc names the next query; todo holds the employees the loop has still to
\* visit, sum the total so far, net the draft being written, and lost that
\* another transaction has replaced the payslip this one found.
Call ==
  [pc : {"idle", "mark", "list", "loop", "commit", "complete", "catch", "pay"},
   todo : SUBSET Employees, sum : Int, net : Int, lost : BOOLEAN]
State(pc, todo, sum, net) ==
  [pc |-> pc, todo |-> todo, sum |-> sum, net |-> net, lost |-> FALSE]
Idle == State("idle", {}, 0, 0)

At(c, pc) == calls[c].pc = pc
Goto(c, pc) == calls' = [calls EXCEPT ![c].pc = pc]
Put(c, call) == calls' = [calls EXCEPT ![c] = call]
Return(c) == Put(c, Idle)
Throw(c) == Put(c, State("catch", {}, 0, 0))

Start(c, pc) ==
  /\ At(c, "idle")
  /\ Goto(c, pc)
  /\ overlapped' = (overlapped \/ \E d \in Calls : ~At(d, "idle"))

SetStatus(status) == run' = [run EXCEPT !.status = status]

----------------------------------------------------------------------------
(* The people the run is about *)

\* An invite is accepted, a notice withdrawn, a suspension lifted.
Join(e) ==
  /\ ~active[e]
  /\ active' = [active EXCEPT ![e] = TRUE]
  /\ UNCHANGED <<salaried, run, slips, calls, overlapped, stale, crashed>>

\* The employee goes on notice, is suspended or exits.
Leave(e) ==
  /\ active[e]
  /\ active' = [active EXCEPT ![e] = FALSE]
  /\ UNCHANGED <<salaried, run, slips, calls, overlapped, stale, crashed>>

\* setSalary replaces the active structure; there is no way to remove it.
SetSalary(e) ==
  /\ ~salaried[e]
  /\ salaried' = [salaried EXCEPT ![e] = TRUE]
  /\ UNCHANGED <<active, run, slips, calls, overlapped, stale, crashed>>

----------------------------------------------------------------------------
(* POST /payroll/runs, /payroll/runs/:id/process, /payroll/runs/:id/pay *)

\* findByPeriod and the unique index on the period both refuse a second run.
CreateRun ==
  /\ run.status = "NONE"
  /\ SetStatus("DRAFT")
  /\ UNCHANGED <<active, salaried, slips, calls, overlapped, stale, crashed>>

\* Seeded fault: a paid run can be processed again.
ProcessableAlways(status) == status # "NONE"

Processable(status) == status \notin {"NONE", "PAID"}

\* Reads the run; RUN_ALREADY_PAID ends the call before any effect.
ProcessStart(c) ==
  /\ Processable(run.status)
  /\ Start(c, "mark")
  /\ UNCHANGED <<active, salaried, run, slips, stale, crashed>>

ProcessMark(c) ==
  /\ At(c, "mark")
  /\ SetStatus("PROCESSING")
  /\ Goto(c, "list")
  /\ UNCHANGED <<active, salaried, slips, overlapped, stale, crashed>>

\* Seeded fault: the loop does not notice that it has visited everybody.
NextPcEndless(todo) == "loop"

\* The loop goes on with the next employee or, after the last, to the update.
NextPc(todo) == IF todo = {} THEN "complete" ELSE "loop"

ProcessList(c) ==
  LET todo == {e \in Employees : active[e]} IN
  /\ At(c, "list")
  /\ Put(c, State(NextPc(todo), todo, 0, 0))
  /\ stale' = {e \in Employees : slips[e].exists}
  /\ UNCHANGED <<active, salaried, run, slips, overlapped, crashed>>

\* Reads salary and attendance, computes the draft and opens the transaction,
\* which looks for the payslip to replace.  Without a salary: skip.
ProcessDraft(c) ==
  LET e == Min(calls[c].todo)
      rest == calls[c].todo \ {e}
  IN /\ At(c, "loop")
     /\ \/ /\ ~salaried[e]
           /\ Put(c, State(NextPc(rest), rest, calls[c].sum, 0))
        \/ /\ salaried[e]
           /\ \E net \in NetPays :
                Put(c, State("commit", calls[c].todo, calls[c].sum, net))
     /\ UNCHANGED <<active, salaried, run, slips, overlapped, stale, crashed>>

\* The transaction deletes the payslip it found and creates the new one.  If
\* another transaction has meanwhile done so for the same employee, the delete
\* finds no row or the unique index refuses the create: the catch block follows.
ProcessCommit(c) ==
  LET e == Min(calls[c].todo)
      rest == calls[c].todo \ {e}
      after(d) ==
        CASE d = c -> State(NextPc(rest), rest, calls[c].sum + calls[c].net, 0)
          [] d # c /\ At(d, "commit") /\ Min(calls[d].todo) = e ->
               [calls[d] EXCEPT !.lost = TRUE]
          [] OTHER -> calls[d]
  IN /\ At(c, "commit")
     /\ IF calls[c].lost
          THEN Throw(c) /\ UNCHANGED <<slips, stale>>
          ELSE /\ slips' = [slips EXCEPT ![e] = [exists |-> TRUE, net |-> calls[c].net]]
               /\ stale' = stale \ {e}
               /\ calls' = [d \in Calls |-> after(d)]
     /\ UNCHANGED <<active, salaried, run, overlapped, crashed>>

\* Seeded fault: only the status is written, the totals stay as they were.
CompletedKeepingTotal(sum) == [run EXCEPT !.status = "COMPLETED"]

Completed(sum) == [status |-> "COMPLETED", total |-> sum]

ProcessComplete(c) ==
  /\ At(c, "complete")
  /\ run' = Completed(calls[c].sum)
  /\ Return(c)
  /\ UNCHANGED <<active, salaried, slips, overlapped, stale, crashed>>

\* The catch block.
ProcessCatch(c) ==
  /\ At(c, "catch")
  /\ SetStatus("FAILED")
  /\ Return(c)
  /\ UNCHANGED <<active, salaried, slips, overlapped, stale, crashed>>

\* Reads the run; RUN_NOT_COMPLETED ends the call before any effect.
MarkPaidStart(c) ==
  /\ run.status = "COMPLETED"
  /\ Start(c, "pay")
  /\ UNCHANGED <<active, salaried, run, slips, stale, crashed>>

MarkPaid(c) ==
  /\ At(c, "pay")
  /\ SetStatus("PAID")
  /\ Return(c)
  /\ UNCHANGED <<active, salaried, slips, overlapped, stale, crashed>>

\* Seeded fault: the try block starts after the payslips.
CaughtAfterLoop == {"complete"}

\* The queries inside the try block.
Caught == {"list", "loop", "commit", "complete"}

\* A query is rejected: inside the try block the catch block runs, outside it
\* (and so before any effect) the call ends.
QueryError(c) ==
  /\ \/ calls[c].pc \in Caught /\ Throw(c)
     \/ calls[c].pc \notin Caught \cup {"idle", "catch"} /\ Return(c)
  /\ UNCHANGED <<active, salaried, run, slips, overlapped, stale, crashed>>

\* The process dies, or the update in the catch block is itself rejected.
Crash(c) ==
  /\ ~At(c, "idle")
  /\ Return(c)
  /\ crashed' = TRUE
  /\ UNCHANGED <<active, salaried, run, slips, overlapped, stale>>

----------------------------------------------------------------------------

Init ==
  /\ active = [e \in Employees |-> FALSE]
  /\ salaried = [e \in Employees |-> FALSE]
  /\ run = [status |-> "NONE", total |-> 0]
  /\ slips = [e \in Employees |-> NoSlip]
  /\ calls = [c \in Calls |-> Idle]
  /\ overlapped = FALSE
  /\ stale = {}
  /\ crashed = FALSE

\* What a call in flight does next.
Proceed(c) ==
  \/ ProcessMark(c) \/ ProcessList(c) \/ ProcessDraft(c) \/ ProcessCommit(c)
  \/ ProcessComplete(c) \/ ProcessCatch(c) \/ MarkPaid(c)

Next ==
  \/ CreateRun
  \/ \E e \in Employees : Join(e) \/ Leave(e) \/ SetSalary(e)
  \/ \E c \in Calls :
       ProcessStart(c) \/ MarkPaidStart(c) \/ Proceed(c) \/ QueryError(c) \/ Crash(c)

\* Every query in flight is eventually answered; nobody has to make a call.
Fairness == \A c \in Calls : WF_vars(Proceed(c) \/ QueryError(c))

Spec == Init /\ [][Next]_vars /\ Fairness

----------------------------------------------------------------------------
(* Properties *)

\* Rows and calls have the shape the schema and the code give them, and a call
\* is inside the loop over the employees exactly while one is left to visit.
TypeOK ==
  /\ active \in [Employees -> BOOLEAN] /\ salaried \in [Employees -> BOOLEAN]
  /\ run \in [status : Statuses, total : Int]
  /\ slips \in [Employees -> Slip]
  /\ calls \in [Calls -> Call]
  /\ \A c \in Calls : calls[c].pc \in {"loop", "commit"} <=> calls[c].todo # {}
  /\ overlapped \in BOOLEAN /\ crashed \in BOOLEAN
  /\ stale \subseteq Employees

SumOfPayslips(employees) == SumFunctionOnSet([e \in employees |-> slips[e].net], employees)

\* A completed or paid run states the sum of the payslips its latest pass
\* replaced, whatever failed passes had left behind, unless calls overlapped.
TotalIsSumOfReplaced ==
  ~overlapped /\ run.status \in {"COMPLETED", "PAID"} =>
    run.total = SumOfPayslips(Employees \ stale)

\* docs/10, 10.2: "re-processing replaces the run's payslips", all of them.  The
\* code replaces the payslips of the employees who are ACTIVE when it lists them.
TotalIsSumOfPayslips ==
  ~overlapped /\ run.status \in {"COMPLETED", "PAID"} =>
    run.total = SumOfPayslips(Employees)

\* Once paid, neither the run nor its payslips change (docs/10, "locked from
\* re-processing"), as long as no two calls have overlapped.
PaidRunFrozen ==
  [][run.status = "PAID" /\ ~overlapped' => UNCHANGED <<run, slips>>]_vars

\* A run never stays in PROCESSING unless the process dies: however calls
\* overlap and whatever query fails, each pass ends in COMPLETED or FAILED.
ProcessingEnds ==
  run.status = "PROCESSING" ~> (run.status # "PROCESSING" \/ crashed)
=============================================================================
