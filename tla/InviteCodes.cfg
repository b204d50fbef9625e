\* Two people are invited at the same time.
CONSTANTS
  Emails = {a, b}
  Hires = {}
  MaxCode = 3
  GivenCodes = {}
  AskedRoles = {"EMPLOYEE"}
  Calls = {c1, c2}
  None = None
  MaxFailures = 0
SPECIFICATION InviteSpec
INVARIANT InviteCreatesBoth
CHECK_DEADLOCK FALSE
