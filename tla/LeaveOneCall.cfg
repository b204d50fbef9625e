\* One call per employee at a time, and no call is cut short.
CONSTANTS
  Employees = {e1}
  LeaveTypes = {annual}
  Requests = {r1, r2, r3}
  Calls = {c1, c2}
  Days <- MCDays
  Years <- MCYears
  YearOf <- MCYearOf
  OffDays <- MCOffDays
  Policies <- MCPolicies
  NoPolicy = NoPolicy
  Discipline = "oneCall"
  MaxFailures = 0
SPECIFICATION Spec
INVARIANTS TypeOK NoOverlap CountersMatchRequests
PROPERTIES StatusFollowsWorkflow ImplementsLedger
SYMMETRY Symmetry
