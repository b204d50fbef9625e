\* A decision and a cancellation, or two decisions, may be in flight together: a
\* client keeps only applications apart.
CONSTANTS
  Employees = {e1}
  LeaveTypes = {annual}
  Requests = {r1, r2}
  Calls = {c1, c2}
  Days <- MCTwoDays
  Years <- MCOneYear
  YearOf <- MCTwoDaysYearOf
  OffDays <- MCNoOffDays
  Policies <- MCPolicies
  NoPolicy = NoPolicy
  Discipline = "oneApply"
  MaxFailures = 0
SPECIFICATION Spec
PROPERTY StatusFollowsWorkflow
SYMMETRY Symmetry
