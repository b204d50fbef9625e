\* One person who applied twice, employees added meanwhile, two calls in flight.
CONSTANTS
  Emails = {a}
  shared = a
  Hires = {k1, k2}
  EmailOf <- SharedEmail
  MaxCode = 2
  GivenCodes = {1}
  AskedRoles = {"EMPLOYEE", "BOSS"}
  MaxOffers = 2
  Calls = {c1, c2}
  None = None
  MaxFailures = 1
SPECIFICATION MCSpec
INVARIANTS TypeOK OneEmployeePerUser  InvitedIsWhole HiredIsInvited HiredOnce HiredAcceptedLatest
PROPERTY HiredIsFinal
CHECK_DEADLOCK FALSE
SYMMETRY Symmetry
