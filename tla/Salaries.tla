------------------------------- MODULE Salaries -------------------------------
(***************************************************************************)
(* The salary structures of one employee: EmployeesService.setSalary and   *)
(* SalaryRepository.setActive, which deactivates the active structures and *)
(* creates the new one in a transaction.  The transaction runs at          *)
(* PostgreSQL's default, READ COMMITTED: an UPDATE sees the rows committed *)
(* when it starts, waits for the transactions that hold one of them, and   *)
(* then asks again whether the row still matches.                          *)
(*                                                                         *)
(* Structures are numbered by the calls that create them.                  *)
(***************************************************************************)
EXTENDS Naturals

CONSTANTS
  SalaryCalls,    \* slots for calls of setSalary in flight
  MaxStructures,  \* calls of setSalary
  MaxRollbacks    \* transactions that do not commit (error, timeout, crash)

VARIABLES
  structures,   \* committed salary structures
  active,       \* those of them with isActive
  setting,      \* slot -> call in flight
  numbered,     \* calls begun
  rollbacks,    \* transactions rolled back
  latest        \* history: the last structure committed, 0 when its call overlapped another

salaryVars == <<structures, active, setting, numbered, rollbacks, latest>>

NotSetting == [pc |-> "idle"]
Settings == {c \in SalaryCalls : setting[c] # NotSetting}

\* The rows a transaction has updated are locked until it ends.
Locked(c) == IF setting[c].pc = "create" THEN setting[c].mine ELSE {}

SalaryInit ==
  /\ structures = {} /\ active = {}
  /\ setting = [c \in SalaryCalls |-> NotSetting]
  /\ numbered = 0 /\ rollbacks = 0
  /\ latest = 0

----------------------------------------------------------------------------
\* The guard on the components is in Payslips; getOrThrow is a read.
SetSalary(c) ==
  /\ setting[c] = NotSetting /\ numbered < MaxStructures
  /\ numbered' = numbered + 1
  /\ setting' = [d \in SalaryCalls |->
       IF d = c THEN [pc |-> "scan", n |-> numbered', alone |-> Settings = {}]
       ELSE IF d \in Settings THEN [setting[d] EXCEPT !.alone = FALSE]
       ELSE setting[d]]
  /\ UNCHANGED <<structures, active, rollbacks, latest>>

\* updateMany finds the structures that are active now ...
ScanActive(c) ==
  /\ setting[c].pc = "scan"
  /\ setting' = [setting EXCEPT ![c] =
       [pc |-> "lock", n |-> @.n, alone |-> @.alone, seen |-> active]]
  /\ UNCHANGED <<structures, active, numbered, rollbacks, latest>>

\* Seeded fault: the two queries run outside a transaction.
OthersSeeAtOnce(shown, mine) == shown \ mine

\* What the others see of the active structures once this call has
\* deactivated its own: nothing of it before the commit.
OthersSee(shown, mine) == shown

\* ... waits until no transaction holds one of them, and deactivates those
\* that are still active.
Deactivate(c) ==
  /\ setting[c].pc = "lock"
  /\ \A d \in SalaryCalls \ {c} : Locked(d) \cap setting[c].seen = {}
  /\ LET mine == setting[c].seen \cap active
     IN /\ setting' = [setting EXCEPT ![c] =
             [pc |-> "create", n |-> @.n, alone |-> @.alone, mine |-> mine]]
        /\ active' = OthersSee(active, mine)
  /\ UNCHANGED <<structures, numbered, rollbacks, latest>>

\* The new structure is inserted and the transaction commits.
CreateAndCommit(c) ==
  /\ setting[c].pc = "create"
  /\ LET call == setting[c]
     IN /\ structures' = structures \cup {call.n}
        /\ active' = (active \ call.mine) \cup {call.n}
        /\ latest' = IF call.alone THEN call.n ELSE 0
  /\ setting' = [setting EXCEPT ![c] = NotSetting]
  /\ UNCHANGED <<numbered, rollbacks>>

\* The transaction does not commit, and leaves nothing.
RollBack(c) ==
  /\ setting[c] # NotSetting /\ rollbacks < MaxRollbacks
  /\ setting' = [setting EXCEPT ![c] = NotSetting]
  /\ rollbacks' = rollbacks + 1
  /\ UNCHANGED <<structures, active, numbered, latest>>

SalaryNext ==
  \E c \in SalaryCalls :
    SetSalary(c) \/ ScanActive(c) \/ Deactivate(c) \/ CreateAndCommit(c) \/ RollBack(c)

SalarySpec == SalaryInit /\ [][SalaryNext]_salaryVars

----------------------------------------------------------------------------
\* docs/03-domain-model.md:100: exactly one structure is active.  An
\* employee with a salary always has an active one, for payroll skips whoever
\* has none; and a call that no other overlapped leaves exactly its own, even
\* where calls that overlapped had left two.
OneActiveSalary ==
  /\ active \subseteq structures
  /\ structures # {} => active # {}
  /\ latest # 0 => active = {latest}
=============================================================================
