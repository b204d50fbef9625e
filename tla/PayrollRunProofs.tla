--------------------------- MODULE PayrollRunProofs ---------------------------
(***************************************************************************)
(* TypeOK and PaidRunFrozen of PayrollRun, for every set of employees and  *)
(* calls.  PaidRunFrozen needs to know that, as long as no two calls have  *)
(* overlapped, the call that paid the run was alone: AloneInv.             *)
(***************************************************************************)
EXTENDS PayrollRun, Sums

\* The part of TypeOK about the calls in flight.
CallsOK ==
  /\ calls \in [Calls -> Call]
  /\ \A c \in Calls : calls[c].pc \in {"loop", "commit"} <=> calls[c].todo # {}

\* Putting a well-formed call in a slot keeps CallsOK.
LEMMA PutCall ==
  ASSUME CallsOK, NEW c \in Calls, NEW k \in Call,
         k.pc \in {"loop", "commit"} <=> k.todo # {}, Put(c, k)
  PROVE  CallsOK'
  BY DEF CallsOK, Put

\* A call outside the loop may move on to another query outside the loop.
LEMMA GotoCall ==
  ASSUME CallsOK, NEW c \in Calls, NEW pc \in {"mark", "list", "pay"}, Goto(c, pc),
         calls[c].pc \notin {"loop", "commit"}
  PROVE  CallsOK'
<1> DEFINE k == [calls[c] EXCEPT !.pc = pc]
<1>1. calls[c] \in Call /\ calls[c].todo = {}
  BY DEF CallsOK
<1>2. k \in Call /\ k.pc = pc /\ k.todo = {}
  BY <1>1 DEF Call
<1> QED
  BY <1>2, PutCall DEF Goto, Put

\* Ending a call, or sending it to its catch block, keeps CallsOK.
LEMMA EndCall ==
  ASSUME CallsOK, NEW c \in Calls, Return(c) \/ Throw(c)
  PROVE  CallsOK'
<1> DEFINE k(pc) == State(pc, {}, 0, 0)
<1>1. k("idle") \in Call /\ k("idle").todo = {} /\ k("idle").pc = "idle"
  BY DEF State, Call
<1>2. k("catch") \in Call /\ k("catch").todo = {} /\ k("catch").pc = "catch"
  BY DEF State, Call
<1> QED
  BY <1>1, <1>2, PutCall DEF Return, Throw, Idle

\* The state of a call that is about to visit the rest of the employees.
LEMMA RestState ==
  ASSUME NEW rest \in SUBSET Employees, NEW sum \in Int
  PROVE  LET k == State(NextPc(rest), rest, sum, 0)
         IN k \in Call /\ (k.pc \in {"loop", "commit"} <=> k.todo # {})
  BY DEF State, Call, NextPc

\* Every step keeps the calls well formed.
LEMMA CallsStep == CallsOK /\ [Next]_vars => CallsOK'
<1> SUFFICES ASSUME CallsOK, [Next]_vars PROVE CallsOK'
  OBVIOUS
<1>1. CASE CreateRun \/ \E e \in Employees : Join(e) \/ Leave(e) \/ SetSalary(e)
  BY <1>1 DEF CreateRun, Join, Leave, SetSalary, CallsOK
<1>2. ASSUME NEW c \in Calls, ProcessStart(c) \/ MarkPaidStart(c) \/ ProcessMark(c) PROVE CallsOK'
  BY <1>2, GotoCall DEF ProcessStart, MarkPaidStart, ProcessMark, Start, At
<1>3. ASSUME NEW c \in Calls, ProcessList(c) PROVE CallsOK'
  <2> DEFINE todo == {e \in Employees : active[e]}
  <2>1. Put(c, State(NextPc(todo), todo, 0, 0))
    BY <1>3 DEF ProcessList
  <2>2. todo \in SUBSET Employees
    OBVIOUS
  <2> HIDE DEF todo
  <2> QED
    BY <2>1, <2>2, RestState, PutCall
<1>4. ASSUME NEW c \in Calls, ProcessDraft(c) PROVE CallsOK'
  <2> DEFINE rest == calls[c].todo \ {Min(calls[c].todo)}
  <2>1. calls[c] \in Call /\ calls[c].todo # {}
    BY <1>4 DEF ProcessDraft, At, CallsOK
  <2>2. calls[c].todo \in SUBSET Employees /\ calls[c].sum \in Int
    BY <2>1 DEF Call
  <2>3. rest \in SUBSET Employees
    BY <2>2
  <2> HIDE DEF rest
  <2>4. CASE Put(c, State(NextPc(rest), rest, calls[c].sum, 0))
    BY <2>2, <2>3, <2>4, RestState, PutCall
  <2>5. ASSUME NEW net \in NetPays, Put(c, State("commit", calls[c].todo, calls[c].sum, net))
        PROVE CallsOK'
    <3> DEFINE k == State("commit", calls[c].todo, calls[c].sum, net)
    <3>1. k \in Call /\ k.pc = "commit" /\ k.todo # {}
      BY <2>1, <2>2, NetPaysAssumption DEF State, Call
    <3> QED
      BY <2>5, <3>1, PutCall
  <2> QED
    BY <1>4, <2>4, <2>5 DEF ProcessDraft, rest
<1>5. ASSUME NEW c \in Calls, ProcessCommit(c) PROVE CallsOK'
  <2> DEFINE rest == calls[c].todo \ {Min(calls[c].todo)}
             k == State(NextPc(rest), rest, calls[c].sum + calls[c].net, 0)
             Good(call) == /\ call \in Call
                           /\ call.pc \in {"loop", "commit"} <=> call.todo # {}
  <2>1. Good(k)
    <3>1. rest \in SUBSET Employees /\ calls[c].sum + calls[c].net \in Int
      BY DEF CallsOK, Call
    <3> QED
      BY <3>1, RestState
  <2>2. ASSUME NEW d \in Calls PROVE Good(calls[d]) /\ Good([calls[d] EXCEPT !.lost = TRUE])
    BY DEF CallsOK, Call
  <2>3. CASE calls[c].lost
    BY <1>5, <2>3, EndCall DEF ProcessCommit
  <2>4. CASE ~calls[c].lost
    <3> HIDE DEF k, Good
    <3>1. calls' = [d \in Calls |-> calls'[d]]
      BY <1>5, <2>4 DEF ProcessCommit
    <3>2. ASSUME NEW d \in Calls
          PROVE calls'[d] = k \/ calls'[d] = [calls[d] EXCEPT !.lost = TRUE]
                \/ calls'[d] = calls[d]
      BY <1>5, <2>4 DEF ProcessCommit, k
    <3>3. \A d \in Calls : Good(calls'[d])
      BY <2>1, <2>2, <3>2
    <3> QED
      BY <3>1, <3>3 DEF CallsOK, Good
  <2> QED
    BY <2>3, <2>4
<1>6. ASSUME NEW c \in Calls,
             ProcessComplete(c) \/ ProcessCatch(c) \/ MarkPaid(c) \/ QueryError(c) \/ Crash(c)
      PROVE CallsOK'
  BY <1>6, EndCall DEF ProcessComplete, ProcessCatch, MarkPaid, QueryError, Crash
<1>7. CASE UNCHANGED vars
  BY <1>7 DEF vars, CallsOK
<1> QED
  BY <1>1, <1>2, <1>3, <1>4, <1>5, <1>6, <1>7 DEF Next, Proceed

\* Every step keeps the rows well formed too.
LEMMA TypeStep == TypeOK /\ [Next]_vars => TypeOK'
<1> SUFFICES ASSUME TypeOK, CallsOK', [Next]_vars PROVE TypeOK'
  BY CallsStep DEF TypeOK, CallsOK
<1> USE DEF TypeOK, CallsOK, Slip, Statuses, Start, SetStatus
<1>1. CASE CreateRun
  BY <1>1 DEF CreateRun
<1>2. ASSUME NEW e \in Employees, Join(e) \/ Leave(e) \/ SetSalary(e) PROVE TypeOK'
  BY <1>2 DEF Join, Leave, SetSalary
<1>3. ASSUME NEW c \in Calls, ProcessStart(c) \/ MarkPaidStart(c) PROVE TypeOK'
  BY <1>3 DEF ProcessStart, MarkPaidStart
<1>4. ASSUME NEW c \in Calls,
             ProcessMark(c) \/ ProcessList(c) \/ ProcessCatch(c) \/ MarkPaid(c) PROVE TypeOK'
  BY <1>4 DEF ProcessMark, ProcessList, ProcessCatch, MarkPaid
<1>5. ASSUME NEW c \in Calls, ProcessDraft(c) PROVE TypeOK'
  BY <1>5 DEF ProcessDraft
<1>6. ASSUME NEW c \in Calls, ProcessCommit(c) PROVE TypeOK'
  <2> DEFINE slip == [exists |-> TRUE, net |-> calls[c].net]
             e == Min(calls[c].todo)
  <2>1. slip \in Slip
    BY DEF Call
  <2>2. slips' = slips \/ slips' = [slips EXCEPT ![e] = slip]
    BY <1>6 DEF ProcessCommit
  <2>3. stale' = stale \/ stale' = stale \ {e}
    BY <1>6 DEF ProcessCommit
  <2> HIDE DEF slip, e
  <2>4. slips' \in [Employees -> Slip] /\ stale' \subseteq Employees
    BY <2>1, <2>2, <2>3
  <2> QED
    BY <1>6, <2>4 DEF ProcessCommit
<1>7. ASSUME NEW c \in Calls, ProcessComplete(c) PROVE TypeOK'
  <2>1. calls[c].sum \in Int
    BY DEF Call
  <2> QED
    BY <1>7, <2>1 DEF ProcessComplete, Completed
<1>8. ASSUME NEW c \in Calls, QueryError(c) \/ Crash(c) PROVE TypeOK'
  BY <1>8 DEF QueryError, Crash
<1>9. CASE UNCHANGED vars
  BY <1>9 DEF vars
<1> QED
  BY <1>1, <1>2, <1>3, <1>4, <1>5, <1>6, <1>7, <1>8, <1>9 DEF Next, Proceed

\* Rows, payslips and calls always have the shape the schema and the code give
\* them, and a call of process leaves its loop when nobody is left to visit.
THEOREM TypeCorrect == Spec => []TypeOK
<1>1. Init => TypeOK
  <2>1. Idle \in Call /\ Idle.pc = "idle" /\ Idle.todo = {}
    BY DEF Idle, State, Call
  <2>2. Init => CallsOK
    BY <2>1 DEF Init, CallsOK
  <2>3. NoSlip \in Slip
    BY DEF NoSlip, Slip
  <2>4. Init => slips \in [Employees -> Slip] /\ run \in [status : Statuses, total : Int]
    BY <2>3 DEF Init, Statuses
  <2>5. Init => /\ active \in [Employees -> BOOLEAN] /\ salaried \in [Employees -> BOOLEAN]
                /\ overlapped \in BOOLEAN /\ crashed \in BOOLEAN /\ stale \subseteq Employees
    BY DEF Init
  <2> QED
    BY <2>2, <2>4, <2>5 DEF TypeOK, CallsOK
<1> QED
  BY <1>1, TypeStep, PTL DEF Spec

-----------------------------------------------------------------------------

\* As long as no two calls have overlapped, at most one is in flight, and none
\* once the run is paid: the call that paid it was the last to pass a guard.
AloneInv ==
  ~overlapped =>
    /\ \A c, d \in Calls : c = d \/ At(c, "idle") \/ At(d, "idle")
    /\ run.status = "PAID" => \A c \in Calls : At(c, "idle")

\* No step lets a second call in without recording it.
LEMMA AloneStep == TypeOK /\ AloneInv /\ [Next]_vars => AloneInv'
<1> SUFFICES ASSUME TypeOK, AloneInv, [Next]_vars PROVE AloneInv'
  OBVIOUS
<1> USE DEF TypeOK, Call, Idle, State, Put, AloneInv, At, Goto, Return, Throw, SetStatus, Start
<1>1. CASE CreateRun
  BY <1>1 DEF CreateRun, Statuses
<1>2. ASSUME NEW e \in Employees, Join(e) \/ Leave(e) \/ SetSalary(e) PROVE AloneInv'
  BY <1>2 DEF Join, Leave, SetSalary
<1>3. ASSUME NEW c \in Calls, ProcessStart(c) \/ MarkPaidStart(c) PROVE AloneInv'
  <2>1. /\ run.status # "PAID" /\ UNCHANGED run
        /\ overlapped' = (overlapped \/ \E d \in Calls : calls[d].pc # "idle")
    BY <1>3 DEF ProcessStart, MarkPaidStart, Processable
  <2>2. \A d \in Calls \ {c} : calls'[d] = calls[d]
    BY <1>3 DEF ProcessStart, MarkPaidStart
  <2> QED
    BY <2>1, <2>2
<1>4. ASSUME NEW c \in Calls, ProcessMark(c) PROVE AloneInv'
  BY <1>4 DEF ProcessMark, Statuses
<1>5. ASSUME NEW c \in Calls, ProcessList(c) PROVE AloneInv'
  BY <1>5 DEF ProcessList, NextPc
<1>6. ASSUME NEW c \in Calls, ProcessDraft(c) PROVE AloneInv'
  BY <1>6 DEF ProcessDraft, NextPc
<1>7. ASSUME NEW c \in Calls, ProcessCommit(c) PROVE AloneInv'
  BY <1>7 DEF ProcessCommit, NextPc
<1>8. ASSUME NEW c \in Calls, ProcessComplete(c) PROVE AloneInv'
  BY <1>8 DEF ProcessComplete, Completed
<1>9. ASSUME NEW c \in Calls, ProcessCatch(c) \/ MarkPaid(c) PROVE AloneInv'
  BY <1>9 DEF ProcessCatch, MarkPaid, Statuses
<1>10. ASSUME NEW c \in Calls, QueryError(c) \/ Crash(c) PROVE AloneInv'
  BY <1>10 DEF QueryError, Crash, Caught
<1>11. CASE UNCHANGED vars
  BY <1>11 DEF vars
<1> QED
  BY <1>1, <1>2, <1>3, <1>4, <1>5, <1>6, <1>7, <1>8, <1>9, <1>10, <1>11 DEF Next, Proceed

\* Nothing touches a paid run or its payslips when every call is idle.
LEMMA PaidStep ==
  TypeOK /\ AloneInv /\ [Next]_vars
    => [run.status = "PAID" /\ ~overlapped' => UNCHANGED <<run, slips>>]_vars
<1> SUFFICES ASSUME TypeOK, AloneInv, Next, run.status = "PAID", ~overlapped'
             PROVE UNCHANGED <<run, slips>>
  OBVIOUS
<1> USE DEF At
<1>1. CASE CreateRun
  BY <1>1 DEF CreateRun
<1>2. CASE \E e \in Employees : Join(e) \/ Leave(e) \/ SetSalary(e)
  BY <1>2 DEF Join, Leave, SetSalary
<1>3. ASSUME NEW c \in Calls, ProcessStart(c) \/ MarkPaidStart(c) \/ QueryError(c) \/ Crash(c)
      PROVE UNCHANGED <<run, slips>>
  BY <1>3 DEF ProcessStart, MarkPaidStart, QueryError, Crash
<1>4. ASSUME NEW c \in Calls, Proceed(c) PROVE FALSE
  <2>1. ~At(c, "idle")
    BY <1>4 DEF Proceed, ProcessMark, ProcessList, ProcessDraft, ProcessCommit,
                ProcessComplete, ProcessCatch, MarkPaid
  <2>2. ~overlapped
    BY <1>4 DEF Proceed, ProcessMark, ProcessList, ProcessDraft, ProcessCommit,
                ProcessComplete, ProcessCatch, MarkPaid
  <2> QED
    BY <2>1, <2>2 DEF AloneInv
<1> QED
  BY <1>1, <1>2, <1>3, <1>4 DEF Next

\* A paid run is locked: process refuses it, and unless two calls have
\* overlapped no earlier pass can still write to it or to its payslips.
THEOREM PaidIsFrozen == Spec => PaidRunFrozen
<1>1. Init => AloneInv
  BY DEF Init, AloneInv, At, Idle, State
<1>2. Spec => []AloneInv
  BY <1>1, TypeCorrect, AloneStep, PTL DEF Spec
<1> QED
  BY <1>2, TypeCorrect, PaidStep, PTL DEF Spec, PaidRunFrozen

-----------------------------------------------------------------------------
(* The total of a run.  PassInv follows the sum that a pass keeps: it is the *)
(* sum of the payslips that the pass has replaced so far, and nobody it has  *)
(* still to visit is among those.                                            *)

\* The calls whose pass has marked the run and not ended.
Passing == {"list", "loop", "commit", "complete", "catch"}

InPass(c) ==
  /\ calls[c].pc \in Passing => run.status = "PROCESSING"
  /\ calls[c].pc = "pay" => run.status = "COMPLETED"
  /\ calls[c].pc \in {"loop", "commit", "complete"} =>
       /\ calls[c].sum = SumOfPayslips(Employees \ stale)
       /\ \A e \in calls[c].todo : slips[e].exists => e \in stale

PassInv ==
  /\ \A e \in Employees : ~slips[e].exists => slips[e].net = 0
  /\ ~overlapped => \A c \in Calls : InPass(c)
  /\ TotalIsSumOfReplaced

\* The loop visits an employee it has still to visit.
LEMMA MinOfTodo ==
  ASSUME NEW T \in SUBSET Employees, T # {}
  PROVE  Min(T) \in T
<1>1. T \in SUBSET Nat
  BY EmployeesAssumption
<1>2. \E n \in T : \A m \in T : n <= m
  BY <1>1, Least
<1> QED
  BY <1>2 DEF Min

\* The payslips of a set of employees add up to an integer.
LEMMA SumOfPayslipsType ==
  ASSUME TypeOK, NEW S \in SUBSET Employees
  PROVE  SumOfPayslips(S) \in Int
<1>1. IsFiniteSet(S) /\ \A e \in S : [d \in S |-> slips[d].net][e] \in Int
  BY EmployeesAssumption, FS_Subset DEF TypeOK, Slip
<1> QED
  BY <1>1, SumType DEF SumOfPayslips

\* A new payslip of somebody whose old one did not count adds its net pay.
LEMMA SumWithNew ==
  ASSUME TypeOK, NEW S \in SUBSET Employees, NEW e \in Employees, NEW net \in Int,
         slips' = [slips EXCEPT ![e] = [exists |-> TRUE, net |-> net]],
         e \in S => slips[e].net = 0
  PROVE  SumOfPayslips(S \cup {e})' = SumOfPayslips(S) + net
<1> DEFINE R == S \ {e}
           T == S \cup {e}
           f == [d \in S |-> slips[d].net]
           g == [d \in T |-> slips'[d].net]
<1>1. /\ IsFiniteSet(S) /\ IsFiniteSet(T) /\ IsFiniteSet(R) /\ T \ {e} = R
      /\ \A d \in S : f[d] \in Int
  <2>1. S \subseteq Employees /\ T \subseteq Employees /\ R \subseteq Employees /\ T \ {e} = R
    OBVIOUS
  <2>2. \A d \in S : f[d] \in Int
    BY DEF TypeOK, Slip
  <2> HIDE DEF f, g, R, T
  <2> QED
    BY <2>1, <2>2, EmployeesAssumption, FS_Subset
<1>2. g[e] = net /\ (\A d \in R : g[d] = f[d]) /\ \A d \in T : g[d] \in Int
  BY DEF TypeOK, Slip
<1>3. SumFunctionOnSet(g, T) = net + SumFunctionOnSet(g, R)
  <2> HIDE DEF f, g, R
  <2>1. e \in T
    OBVIOUS
  <2> HIDE DEF T
  <2>2. SumFunctionOnSet(g, T) = g[e] + SumFunctionOnSet(g, T \ {e})
    BY <1>1, <1>2, <2>1, SumWithout
  <2> QED
    BY <1>1, <1>2, <2>2
<1>4. SumFunctionOnSet(g, R) = SumFunctionOnSet(f, R)
  <2>1. \A d \in R : g[d] \in Int /\ g[d] = f[d]
    BY <1>2
  <2> HIDE DEF f, g, R, T
  <2> QED
    BY <1>1, <2>1, SumSame
<1>5. SumFunctionOnSet(f, S) = SumFunctionOnSet(f, R) /\ SumFunctionOnSet(f, R) \in Int
  <2>1. CASE e \in S
    <3>1. f[e] = 0
      BY <2>1
    <3>2. \A d \in R : f[d] \in Int
      BY <1>1
    <3> HIDE DEF f, T
    <3>3. SumFunctionOnSet(f, S) = f[e] + SumFunctionOnSet(f, R)
      BY <1>1, <2>1, SumWithout
    <3> HIDE DEF R
    <3>4. SumFunctionOnSet(f, R) \in Int
      BY <1>1, <3>2, SumType
    <3> QED
      BY <3>1, <3>3, <3>4
  <2>2. CASE e \notin S
    <3>1. R = S
      BY <2>2
    <3> HIDE DEF f, T, R
    <3> QED
      BY <1>1, <3>1, SumType
  <2> QED
    BY <2>1, <2>2
<1>6. SumOfPayslips(T)' = SumFunctionOnSet(g, T) /\ SumOfPayslips(S) = SumFunctionOnSet(f, S)
  BY DEF SumOfPayslips
<1> HIDE DEF f, g, R
<1> QED
  BY <1>3, <1>4, <1>5, <1>6

\* Steps that leave the passes, the payslips and the run alone.
LEMMA PassElsewhere ==
  ASSUME PassInv, UNCHANGED <<run, slips, stale, overlapped, calls>>
  PROVE  PassInv'
BY DEF PassInv, InPass, TotalIsSumOfReplaced, SumOfPayslips

\* A step of one call that leaves the payslips alone: the others are as before.
LEMMA PassOneCall ==
  ASSUME PassInv, TypeOK, TypeOK', NEW c \in Calls, UNCHANGED <<slips, stale>>,
         overlapped => overlapped',
         \A d \in Calls \ {c} : calls'[d] = calls[d],
         calls'[c].pc \in Passing /\ ~overlapped' => run'.status = "PROCESSING",
         calls'[c].pc \in {"loop", "commit", "complete"} /\ ~overlapped' =>
           /\ calls'[c].sum = SumOfPayslips(Employees \ stale)
           /\ \A e \in calls'[c].todo : slips[e].exists => e \in stale,
         calls'[c].pc = "pay" /\ ~overlapped' => run'.status = "COMPLETED",
         ~overlapped' /\ run'.status # run.status =>
           \A d \in Calls \ {c} : calls[d].pc = "idle",
         ~overlapped' /\ run'.status \in {"COMPLETED", "PAID"} =>
           \/ run'.total = run.total /\ run.status \in {"COMPLETED", "PAID"}
           \/ run'.total = SumOfPayslips(Employees \ stale)
  PROVE  PassInv'
<1>1. SumOfPayslips(Employees \ stale)' = SumOfPayslips(Employees \ stale)
  BY DEF SumOfPayslips
<1>2. TotalIsSumOfReplaced'
  BY <1>1 DEF PassInv, TotalIsSumOfReplaced
<1>3. ASSUME NEW d \in Calls \ {c}, ~overlapped' PROVE InPass(d)'
  <2>1. calls'[d] = calls[d] /\ InPass(d)
    BY <1>3 DEF PassInv
  <2>2. calls[d].pc # "idle" => run'.status = run.status
    BY <1>3
  <2>3. "idle" \notin Passing
    BY DEF Passing
  <2> QED
    BY <1>1, <2>1, <2>2, <2>3 DEF InPass
<1>4. \A e \in Employees : ~slips'[e].exists => slips'[e].net = 0
  BY DEF PassInv
<1>5. ~overlapped' => InPass(c)'
  BY <1>1 DEF InPass
<1>6. ~overlapped' => \A d \in Calls : InPass(d)'
  BY <1>3, <1>5
<1> QED
  BY <1>2, <1>4, <1>6 DEF PassInv

\* A pass has just listed the employees: no payslip counts yet.
LEMMA PassList ==
  ASSUME PassInv, TypeOK, AloneInv, NEW c \in Calls, ProcessList(c)
  PROVE  PassInv'
<1> DEFINE todo == {e \in Employees : active[e]}
<1>1. /\ calls' = [calls EXCEPT ![c] = State(NextPc(todo), todo, 0, 0)]
      /\ stale' = {e \in Employees : slips[e].exists} /\ UNCHANGED <<run, slips, overlapped>>
      /\ calls[c].pc = "list"
  BY DEF ProcessList, Put, At
<1>2. /\ calls'[c].todo = todo /\ calls'[c].sum = 0
      /\ \A d \in Calls \ {c} : calls'[d] = calls[d]
  BY <1>1 DEF State, TypeOK
<1>3. SumOfPayslips(Employees \ stale)' = 0
  <2>1. \A e \in Employees \ stale' : [d \in Employees \ stale' |-> slips'[d].net][e] = 0
    BY <1>1 DEF PassInv
  <2>2. IsFiniteSet(Employees \ stale')
    BY EmployeesAssumption, FS_Subset
  <2> QED
    BY <2>1, <2>2, SumZero DEF SumOfPayslips
<1>4. ~overlapped => run.status = "PROCESSING"
  BY <1>1 DEF PassInv, InPass, Passing
<1>5. ~overlapped => \A d \in Calls \ {c} : calls[d].pc = "idle"
  BY <1>1 DEF AloneInv, At
<1>6. TotalIsSumOfReplaced'
  BY <1>1, <1>4 DEF TotalIsSumOfReplaced
<1>7. ASSUME ~overlapped', NEW d \in Calls
      PROVE  InPass(d)'
  <2>1. calls'[c].pc \in {"loop", "complete"}
    BY <1>1 DEF State, TypeOK, NextPc
  <2> QED
    BY <1>1, <1>2, <1>3, <1>4, <1>5, <1>7, <2>1 DEF InPass, Passing
<1> QED
  BY <1>1, <1>6, <1>7 DEF PassInv

\* A payslip is replaced: it counts from now on, and the sum has its net pay.
LEMMA PassCommit ==
  ASSUME PassInv, TypeOK, AloneInv, NEW c \in Calls, ProcessCommit(c), ~calls[c].lost
  PROVE  PassInv'
<1>1. PICK call \in Call : call = calls[c] /\ call.pc = "commit" /\ call.todo # {}
  BY DEF TypeOK, ProcessCommit, At
<1>2. PICK e \in Employees : e = Min(call.todo) /\ e \in call.todo
  <2>1. call.todo \in SUBSET Employees
    BY <1>1 DEF Call
  <2> QED
    BY <1>1, <2>1, MinOfTodo
<1> DEFINE rest == call.todo \ {e}
<1>3. /\ slips' = [slips EXCEPT ![e] = [exists |-> TRUE, net |-> call.net]]
      /\ stale' = stale \ {e} /\ UNCHANGED <<run, overlapped>>
  BY <1>1, <1>2 DEF ProcessCommit
<1>4. calls'[c] = State(NextPc(rest), rest, call.sum + call.net, 0)
  BY <1>1, <1>2 DEF ProcessCommit
<1>5. calls'[c].todo = rest /\ calls'[c].sum = call.sum + call.net
  BY <1>4 DEF State
<1>6. call.net \in Int /\ call.sum \in Int
  BY <1>1 DEF Call
<1>7. /\ slips'[e].exists /\ \A d \in Employees \ {e} : slips'[d] = slips[d]
  BY <1>3 DEF TypeOK
<1>8. \A d \in Employees : ~slips'[d].exists => slips'[d].net = 0
  BY <1>7 DEF PassInv
<1>9. ASSUME ~overlapped
      PROVE  /\ calls'[c].sum = SumOfPayslips(Employees \ stale)'
             /\ \A d \in calls'[c].todo : slips'[d].exists => d \in stale'
  <2>1. /\ call.sum = SumOfPayslips(Employees \ stale)
        /\ \A d \in call.todo : slips[d].exists => d \in stale
    BY <1>1, <1>9 DEF PassInv, InPass
  <2>2. e \in Employees \ stale => slips[e].net = 0
    BY <1>2, <2>1 DEF PassInv
  <2> DEFINE S == Employees \ stale
  <2>3. Employees \ stale' = S \cup {e} /\ S \in SUBSET Employees
    BY <1>2, <1>3
  <2>4. SumOfPayslips(Employees \ stale)' = SumFunctionOnSet([d \in S \cup {e} |-> slips'[d].net], S \cup {e})
    BY <2>3 DEF SumOfPayslips
  <2>5. PICK R \in SUBSET Employees : R = Employees \ stale
    OBVIOUS
  <2>6. SumOfPayslips(R \cup {e})' = SumOfPayslips(R) + call.net
    BY <1>2, <1>3, <1>6, <2>2, <2>5, SumWithNew
  <2>7. SumOfPayslips(Employees \ stale)' = SumOfPayslips(R \cup {e})'
    BY <2>4, <2>5 DEF SumOfPayslips
  <2>8. \A d \in rest : slips'[d].exists => d \in stale'
    <3>1. call.todo \subseteq Employees
      BY <1>1 DEF Call
    <3> QED
      BY <1>3, <1>7, <2>1, <3>1
  <2> QED
    BY <1>5, <2>1, <2>5, <2>6, <2>7, <2>8
<1>10. ~overlapped => run.status = "PROCESSING"
  BY <1>1 DEF PassInv, InPass, Passing
<1>11. ASSUME ~overlapped, NEW d \in Calls \ {c} PROVE calls'[d].pc = "idle"
  <2>1. calls[d].pc = "idle"
    BY <1>1, <1>11 DEF AloneInv, At
  <2> QED
    BY <2>1 DEF ProcessCommit, At
<1>12. TotalIsSumOfReplaced'
  BY <1>3, <1>10 DEF TotalIsSumOfReplaced
<1>13. ASSUME ~overlapped', NEW d \in Calls PROVE InPass(d)'
  <2>1. calls'[c].pc \in {"loop", "complete"}
    BY <1>4 DEF State, NextPc
  <2> QED
    BY <1>3, <1>9, <1>10, <1>11, <1>13, <2>1 DEF InPass, Passing
<1> QED
  BY <1>8, <1>12, <1>13 DEF PassInv

\* Every step of a pass, of another call and of the world keeps the sum.
LEMMA PassStep == PassInv /\ TypeOK /\ TypeOK' /\ AloneInv /\ [Next]_vars => PassInv'
<1> SUFFICES ASSUME PassInv, TypeOK, TypeOK', AloneInv, [Next]_vars PROVE PassInv'
  OBVIOUS
<1>r. run \in [status : Statuses, total : Int]
  BY DEF TypeOK
<1>1. CASE CreateRun
  <2>1. /\ UNCHANGED <<slips, stale, overlapped, calls>> /\ run.status = "NONE"
        /\ run'.status = "DRAFT"
    BY <1>1, <1>r DEF CreateRun, SetStatus
  <2>2. ~overlapped => \A c \in Calls : calls[c].pc \notin Passing \cup {"pay"}
    BY <2>1 DEF PassInv, InPass
  <2>3. \A c \in Calls : calls[c].pc \in {"loop", "commit", "complete"} => calls[c].pc \in Passing
    BY DEF Passing
  <2>4. TotalIsSumOfReplaced'
    BY <2>1 DEF TotalIsSumOfReplaced
  <2> QED
    BY <2>1, <2>2, <2>3, <2>4 DEF PassInv, InPass
<1>2. CASE \E e \in Employees : Join(e) \/ Leave(e) \/ SetSalary(e)
  BY <1>2, PassElsewhere DEF Join, Leave, SetSalary
<1>3. ASSUME NEW c \in Calls, ProcessStart(c) \/ MarkPaidStart(c) PROVE PassInv'
  <2>1. PICK pc \in {"mark", "pay"} :
          calls' = [calls EXCEPT ![c].pc = pc] /\ (pc = "pay" => run.status = "COMPLETED")
    <3>1. ProcessStart(c) => calls' = [calls EXCEPT ![c].pc = "mark"]
      BY DEF ProcessStart, Start, Goto
    <3>2. MarkPaidStart(c) =>
            calls' = [calls EXCEPT ![c].pc = "pay"] /\ run.status = "COMPLETED"
      BY DEF MarkPaidStart, Start, Goto
    <3> QED
      BY <1>3, <3>1, <3>2
  <2>2. (overlapped => overlapped') /\ UNCHANGED <<run, slips, stale>>
    BY <1>3 DEF ProcessStart, MarkPaidStart, Start
  <2>3. calls'[c].pc = pc /\ \A d \in Calls \ {c} : calls'[d] = calls[d]
    <3>1. calls \in [Calls -> Call]
      BY DEF TypeOK
    <3>2. calls' = [calls EXCEPT ![c].pc = pc]
      BY <2>1
    <3>3. calls[c] \in Call /\ calls'[c] = [calls[c] EXCEPT !.pc = pc]
      BY <3>1, <3>2
    <3> QED
      BY <3>1, <3>2, <3>3 DEF Call
  <2>4. pc \notin Passing /\ pc \notin {"loop", "commit", "complete"}
    BY DEF Passing
  <2> QED
    BY <2>1, <2>2, <2>3, <2>4, PassOneCall
<1>4. ASSUME NEW c \in Calls, ProcessMark(c) PROVE PassInv'
  <2>1. /\ calls' = [calls EXCEPT ![c].pc = "list"] /\ calls[c].pc = "mark"
        /\ run' = [run EXCEPT !.status = "PROCESSING"] /\ UNCHANGED <<slips, stale, overlapped>>
    BY <1>4 DEF ProcessMark, SetStatus, Goto, At
  <2>2. /\ calls'[c].pc = "list" /\ run'.status = "PROCESSING"
        /\ \A d \in Calls \ {c} : calls'[d] = calls[d]
    BY <1>r, <2>1 DEF TypeOK, Call
  <2>3. ~overlapped => \A d \in Calls \ {c} : calls[d].pc = "idle"
    BY <2>1 DEF AloneInv, At
  <2> QED
    BY <2>1, <2>2, <2>3, PassOneCall
<1>5. ASSUME NEW c \in Calls, ProcessDraft(c) PROVE PassInv'
  <2>1. UNCHANGED <<run, slips, stale, overlapped>> /\ calls[c].pc = "loop"
    BY <1>5 DEF ProcessDraft, At
  <2>2. PICK pc \in {"loop", "commit", "complete"}, todo \in SUBSET calls[c].todo,
                net \in NetPays \cup {0} :
          calls' = [calls EXCEPT ![c] = State(pc, todo, calls[c].sum, net)]
    <3> DEFINE rest == calls[c].todo \ {Min(calls[c].todo)}
    <3>1. \/ calls' = [calls EXCEPT ![c] = State(NextPc(rest), rest, calls[c].sum, 0)]
          \/ \E net \in NetPays :
               calls' = [calls EXCEPT ![c] = State("commit", calls[c].todo, calls[c].sum, net)]
      BY <1>5 DEF ProcessDraft, Put
    <3>2. rest \in SUBSET calls[c].todo /\ NextPc(rest) \in {"loop", "commit", "complete"}
      BY DEF NextPc
    <3> HIDE DEF rest
    <3> QED
      BY <3>1, <3>2
  <2>3. /\ calls'[c].pc = pc /\ calls'[c].todo = todo /\ calls'[c].sum = calls[c].sum
        /\ \A d \in Calls \ {c} : calls'[d] = calls[d]
    BY <2>2 DEF TypeOK, State
  <2>4. ~overlapped => /\ run.status = "PROCESSING"
                       /\ calls[c].sum = SumOfPayslips(Employees \ stale)
                       /\ \A e \in calls[c].todo : slips[e].exists => e \in stale
    BY <2>1 DEF PassInv, InPass, Passing
  <2> QED
    BY <2>1, <2>3, <2>4, PassOneCall
<1>6. ASSUME NEW c \in Calls, Return(c) \/ Throw(c), UNCHANGED <<run, slips, stale, overlapped>>,
             Throw(c) => calls[c].pc \in Passing
      PROVE  PassInv'
  <2>1. PICK pc \in {"idle", "catch"} : calls' = [calls EXCEPT ![c] = State(pc, {}, 0, 0)]
                                        /\ (pc = "catch" => Throw(c))
    BY <1>6 DEF Return, Throw, Put, Idle
  <2>2. calls'[c].pc = pc /\ \A d \in Calls \ {c} : calls'[d] = calls[d]
    BY <2>1 DEF TypeOK, State
  <2>3. ~overlapped /\ pc = "catch" => run.status = "PROCESSING"
    BY <1>6, <2>1 DEF PassInv, InPass
  <2>4. pc \notin {"loop", "commit", "complete"} /\ (pc \in Passing => pc = "catch")
    BY DEF Passing
  <2> QED
    BY <1>6, <2>2, <2>3, <2>4, PassOneCall
<1>7. ASSUME NEW c \in Calls, ProcessCommit(c) PROVE PassInv'
  <2>1. CASE calls[c].lost
    <3>1. Throw(c) /\ UNCHANGED <<run, slips, stale, overlapped>> /\ calls[c].pc \in Passing
      BY <1>7, <2>1 DEF ProcessCommit, At, Passing
    <3> QED
      BY <1>6, <3>1
  <2>2. CASE ~calls[c].lost
    BY <1>7, <2>2, PassCommit
  <2> QED
    BY <2>1, <2>2
<1>8. ASSUME NEW c \in Calls, NEW status \in {"COMPLETED", "FAILED", "PAID"}, Return(c),
             UNCHANGED <<slips, stale, overlapped>>, calls[c].pc # "idle", run'.status = status,
             ~overlapped' /\ status \in {"COMPLETED", "PAID"} =>
               \/ run'.total = run.total /\ run.status \in {"COMPLETED", "PAID"}
               \/ run'.total = SumOfPayslips(Employees \ stale)
      PROVE  PassInv'
  <2>1. calls'[c].pc = "idle" /\ \A d \in Calls \ {c} : calls'[d] = calls[d]
    BY <1>8 DEF TypeOK, State, Return, Put, Idle
  <2>2. ~overlapped => \A d \in Calls \ {c} : calls[d].pc = "idle"
    BY <1>8 DEF AloneInv, At
  <2>3. "idle" \notin Passing /\ "idle" \notin {"loop", "commit", "complete"}
    BY DEF Passing
  <2> QED
    BY <1>8, <2>1, <2>2, <2>3, PassOneCall
<1>9. ASSUME NEW c \in Calls, ProcessComplete(c) PROVE PassInv'
  <2>1. /\ Return(c) /\ UNCHANGED <<slips, stale, overlapped>> /\ calls[c].pc = "complete"
        /\ run'.status = "COMPLETED" /\ run'.total = calls[c].sum
    BY <1>9 DEF ProcessComplete, Completed, At
  <2>2. ~overlapped => calls[c].sum = SumOfPayslips(Employees \ stale)
    BY <2>1 DEF PassInv, InPass
  <2> QED
    BY <1>8, <2>1, <2>2
<1>10. ASSUME NEW c \in Calls, ProcessCatch(c) PROVE PassInv'
  <2>1. /\ Return(c) /\ UNCHANGED <<slips, stale, overlapped>> /\ calls[c].pc = "catch"
        /\ run'.status = "FAILED"
    BY <1>10, <1>r DEF ProcessCatch, SetStatus, At
  <2> QED
    BY <1>8, <2>1
<1>11. ASSUME NEW c \in Calls, MarkPaid(c) PROVE PassInv'
  <2>1. /\ Return(c) /\ UNCHANGED <<slips, stale, overlapped>> /\ calls[c].pc = "pay"
        /\ run'.status = "PAID" /\ run'.total = run.total
    BY <1>11, <1>r DEF MarkPaid, SetStatus, At
  <2>2. ~overlapped => run.status = "COMPLETED"
    BY <2>1 DEF PassInv, InPass
  <2> QED
    BY <1>8, <2>1, <2>2
<1>12. ASSUME NEW c \in Calls, QueryError(c) \/ Crash(c) PROVE PassInv'
  <2>1. UNCHANGED <<run, slips, stale, overlapped>> /\ (Return(c) \/ Throw(c))
    BY <1>12 DEF QueryError, Crash
  <2>2. Return(c) => ~Throw(c)
    BY DEF Return, Throw, Put, Idle, State, TypeOK
  <2>3. Throw(c) => calls[c].pc \in Passing
    BY <1>12, <2>2 DEF QueryError, Crash, Caught, Passing
  <2> QED
    BY <1>6, <2>1, <2>3
<1>13. CASE UNCHANGED vars
  BY <1>13, PassElsewhere DEF vars
<1> QED
  BY <1>1, <1>2, <1>3, <1>4, <1>5, <1>7, <1>9, <1>10, <1>11, <1>12, <1>13, PassList
     DEF Next, Proceed

\* TotalIsSumOfReplaced: for any employees, calls and net pays, whatever queries
\* fail and processes die, a completed or paid run whose calls did not overlap
\* states the sum of the payslips its latest pass replaced.
THEOREM TotalAddsUp == Spec => []TotalIsSumOfReplaced
<1>1. Init => AloneInv
  BY DEF Init, AloneInv, At, Idle, State
<1>2. Init => PassInv
  <2> SUFFICES ASSUME Init PROVE PassInv
    OBVIOUS
  <2>1. \A c \in Calls : calls[c].pc = "idle"
    BY DEF Init, Idle, State
  <2>2. TotalIsSumOfReplaced
    BY DEF Init, TotalIsSumOfReplaced
  <2> QED
    BY <2>1, <2>2 DEF Init, PassInv, InPass, Passing, NoSlip
<1>3. PassInv => TotalIsSumOfReplaced
  BY DEF PassInv
<1>4. Spec => []AloneInv
  BY <1>1, TypeCorrect, AloneStep, PTL DEF Spec
<1> QED
  BY <1>2, <1>3, <1>4, TypeCorrect, PassStep, PTL DEF Spec
=============================================================================
