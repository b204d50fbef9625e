\* One application per employee at a time; anything may be cut short.
CONSTANTS
  Employees = {e1}
  LeaveTypes = {annual}
  Requests = {r1, r2}
  Calls = {c1, c2}
  Days <- MCTwoDays
  Years <- MCOneYear
  YearOf <- MCTwoDaysYearOf
  OffDays <- MCNoOffDays
  Policies <- MCTwoPolicies
  NoPolicy = NoPolicy
  Discipline = "oneApply"
  MaxFailures = 1
SPECIFICATION Spec
INVARIANT NeverOverdrawn
SYMMETRY Symmetry
