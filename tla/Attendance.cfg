\* A day of two and a half minutes and two sessions and the night after it, two
\* calls in flight; three calls of setSalary at once, of four; salaries about
\* every ceiling and slab of the rates, in the shortest and the longest month; two
\* locations and the company, whose calendars two calls may create at once.
CONSTANTS
  Days = 1
  DayLength = 5
  TicksPerMinute = 2
  FullDay = 2
  AskedTimes <- MCAskedTimes
  AskedStatus = {"ON_LEAVE"}
  MaxSessions = 2
  MaxFailures = 1
  Calls = {c1, c2}
  None = None
  SalaryCalls = {s1, s2, s3}
  MaxStructures = 4
  MaxRollbacks = 1
  Rates <- MCRates
  Ctcs = {0, 7, 25199, 25206, 30006, 77500, 77512, 107503, 157501, 500000}
  Components = {0, 5, 10001, 18007, 77512, 250003}
  MonthLengths = {28, 31}
  Locations = {pune, goa}
  HolidayDates = {d1, d2}
  CalendarCalls = {k1, k2}
SPECIFICATION MCSpec
INVARIANTS TypeOK DayIsRecorded RegularisedByApproval OneActiveSalary CalendarInEffect PayslipAddsUp
PROPERTY DecisionIsFinal
CHECK_DEADLOCK FALSE
SYMMETRY Symmetry
