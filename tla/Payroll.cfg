\* Two calls may overlap, fail and crash at any query; employees come and go.
CONSTANTS
  Employees = {1, 2}
  Calls = {c1, c2}
  NetPays = {1, 2}
SPECIFICATION Spec
INVARIANTS TypeOK TotalIsSumOfReplaced
PROPERTIES PaidRunFrozen ProcessingEnds
