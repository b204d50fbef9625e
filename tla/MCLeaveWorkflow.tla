--------------------------- MODULE MCLeaveWorkflow ---------------------------
(***************************************************************************)
(* Small instances of LeaveWorkflow: a calendar of four days around a new  *)
(* year (1 and 2 in the old year, 3 and 4 in the new), day 2 a holiday.    *)
(***************************************************************************)
EXTENDS LeaveWorkflow, TLC

MCDays == 1 .. 4
MCYears == {"old", "new"}
MCYearOf == [d \in MCDays |-> IF d <= 2 THEN "old" ELSE "new"]
MCOffDays == [e \in Employees |-> {2}]
MCPolicies == {[annualQuota |-> 2, minPerRequest |-> 0, maxPerRequest |-> 0]}
MCTwoPolicies ==
  MCPolicies \cup {[annualQuota |-> 1, minPerRequest |-> 1, maxPerRequest |-> 1]}

MCTwoDays == 1 .. 2
MCTwoDaysYearOf == [d \in MCTwoDays |-> "old"]
MCNoOffDays == [e \in Employees |-> {}]
MCOneYear == {"old"}

Symmetry == Permutations(Requests) \cup Permutations(Calls)
=============================================================================
