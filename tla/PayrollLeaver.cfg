\* Two calls may overlap, fail and crash at any query; an employee may leave.
CONSTANTS
  Employees = {1, 2}
  Calls = {c1, c2}
  NetPays = {1, 2}
SPECIFICATION Spec
INVARIANT TotalIsSumOfPayslips

