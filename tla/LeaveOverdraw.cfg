\* Any calls may overlap: the server itself keeps no two applications apart.
CONSTANTS
  Employees = {e1}
  LeaveTypes = {annual}
  Requests = {r1, r2}
  Calls = {c1, c2}
  Days <- MCTwoDays
  Years <- MCOneYear
  YearOf <- MCTwoDaysYearOf
  OffDays <- MCNoOffDays
  Policies <- MCPolicies
  NoPolicy = NoPolicy
  Discipline = "none"
  MaxFailures = 0
SPECIFICATION Spec
INVARIANT NeverOverdrawn
SYMMETRY Symmetry
