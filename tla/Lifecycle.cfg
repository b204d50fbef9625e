\* Calls may overlap and one may fail; two exits, so that an employee may leave,
\* be reinstated and leave again.  Two saves of a form at once or one after the
\* other, three signups for two names that collide, two events.
CONSTANTS
  Employees = {e1}
  Exits = {x1, x2}
  Calls = {c1, c2}
  MaxFailures = 1
  Columns = {k1, k2}
  Sections <- FormSections
  MaxSaves = 2
  MaxUploads = 1
  FormCalls = {f1, f2}
  MaxCuts = 1
  Candidates <- SlugCandidates
  Signups = {u1, u2, u3}
  Invitees = {i1}
  Events = {v1, v2}
SPECIFICATION MCSpec
INVARIANTS TypeOK ExitsMatchStatus ExitedHasDate FormIsWhole CompaniesAreOwned NoticesAreTruthful
PROPERTIES StatusFollowsLifecycle PublishedEventsSettle
\* Everybody may have exited or been cancelled.
CHECK_DEADLOCK FALSE
