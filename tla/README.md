# A specification of waailo

waailo is a multi-tenant HR system: a NestJS backend on PostgreSQL (through Prisma) and a
Next.js frontend. This directory models the parts of it whose correctness depends on the
order in which things happen (leave, payroll runs, the lifecycle of employees, sessions,
invitations and hiring, attendance, forms, salaries, signup, notifications) or on two parts
agreeing that were written apart: the console and the API behind it. TLC checks the models on
small instances; TLAPS proves the theorems listed below for every size. Every definition is translated from the source;
`PROJECT.json` maps each one to its lines.

Paths below are relative to the repository (`src/` is its root); services are under
`src/backend/src/modules/`.

## 1. The system

One process serves HTTP. A request runs as one asynchronous handler that gives way to every
other handler at each `await` of a database query. A query is atomic. Almost nothing runs in
a transaction (the replacement of one payslip and the change of the active salary are the
exceptions), no query locks a row, and no update is conditional on what was read before
(`acceptInvite`'s `updateMany` is the exception). Unique indexes are the only thing the
database enforces across handlers. This is what makes the system hard: nearly every
operation is *read, check, then write over several queries*, and any other handler, a failing
query or the death of the process can fall in between.

| Component | State | Operations | Speaks to | What makes it hard, and what must hold |
|---|---|---|---|---|
| leaves | policies, balances (accrued, used, pending), requests | apply, decide, cancel, getBalances, createPolicy | employees, holidays (read); event bus | check and reservation are separate queries; year boundaries. Never overdrawn, no two live requests share a day, counters equal the requests, statuses along the workflow |
| payroll runs | run (status, totals), payslips | createRun, process, markPaid | employees, salaries, attendance (read) | a pass over many employees, payslip by payslip, that may fail half way or be repeated. Totals equal payslips, a paid run is frozen, PROCESSING ends |
| payslip arithmetic | – (pure) | computePayslip, computeTds, resolvePt | payroll | rounding line by line; ceilings and slabs; tax of the year against a month cut short. The lines add up |
| employee lifecycle, offboarding | employee status and date of exit, exit records, checklists | create, acceptInvite, changeStatus; initiate, updateStatus, toggleTask | the offboarding page decides which calls are offered | two modules write one status, one without asking the transition table. Status follows the documented lifecycle; exits agree with the status |
| sessions | refresh tokens; the browser's token store | login, refresh, logout, resetPassword; apiFetch, tryRefresh, restore | frontend client and auth service | parallel requests, lost answers, expiry, rotation with reuse detection. A user stays signed in; no token outlives its use; none is replaced twice |
| invitations | users, employees, codes | create, invite, createInvited, acceptInvite, resetPassword | recruitment calls invite; event bus sends the mail | user, role and employee are three queries; the code is a count; the role is free text. Both or neither; one employee per user; ACTIVE can log in |
| recruitment | candidates' stages, offers | addCandidate, advanceCandidate, rejectCandidate, makeOffer, hireCandidate | invitations | four writes without a transaction, unconditional writes of the stage. HIRED goes with an employee and an accepted offer, and is final |
| attendance | record per day, regularisation requests | checkIn, checkOut, requestRegularisation, decide | leaves, holidays (reports only) | read-modify-write of a day, whole minutes, decisions that overlap. The day counts what was worked; only approvals change it otherwise |
| notifications, event bus | notifications; events and handlers in memory | publish, dispatch, markSent, markFailed | leaves, attendance, invitations publish; mail and WhatsApp providers | a process that dies, a provider whose answer is lost. At most one delivery; a row that says what happened; every event gets there |
| salary structures | structures, one of them active | setSalary | payroll reads the active one | a transaction at READ COMMITTED. One is active, and never none |
| onboarding forms | columns of the employee, four tables of sections, documents | saveMine, submitMine, uploadMine, review | employees | up to nine queries that delete and write again; blank columns are skipped. An undisturbed save leaves what it sent, and what it left blank as it was |
| company signup | companies, owners | signup, invite (as an owner) | users, auth | company, owner, role and tokens in turn; slugs that compete; the role of an invitation is free text. A company has its founder as an owner |
| holidays | calendars of a place and year, dates | createCalendar, addHoliday | leaves and attendance read | look, then insert; a unique index that does not see NULLs. One calendar in effect |
| frontend pages, client library | what a page shows of the rows | visit, load, click | every route | written apart from the API; shows what was. Pages open; what is refused or overwritten is known |
| authorisation guards | – | roles, request bodies | every route | a rank and a whitelist in front of each handler |
| directory, organisation data, shifts, performance, documents, reports | reference data, goals, metadata | single-query updates and reads | – | little: one guarded write each |

Later sections say which of these are modelled; section 7 says what is not, and why.

## 2. Modules

| Module | Models | Needs |
|---|---|---|
| `LeaveWorkflow` | `leaves/leaves.service.ts`, its repositories and calculator | – |
| `LeaveLedger` | what the leave module promises, without counters | – |
| `LeaveWorkflowProofs` | theorems about `LeaveWorkflow`, and that it implements `LeaveLedger` | `LeaveWorkflow`, `Sums` |
| `PayrollRun`, `PayrollRunProofs` | `payroll/payroll.service.ts`, its run and payslip repositories | – |
| `EmployeeLifecycle`, `EmployeeLifecycleProofs` | `employees.service.ts` (changeStatus), `offboarding.service.ts`, the buttons of the offboarding page | – |
| `Sessions` | `auth.service.ts`, refresh tokens; `frontend/src/lib/api/client.ts`, `auth-context.tsx` | – |
| `Endpoints` | every controller's routes, the bodies their DTOs admit, `roles.guard.ts` | – |
| `ApiClient` | every function of `frontend/src/lib/api/*.ts`, as the route it reaches and the fields it sends | `Endpoints` |
| `Pages` | every page of `frontend/src/app/dashboard`: what it loads and offers to whom; the sidebar | `ApiClient` |
| `Console` | one user at the console, one row, others who act on it | composes `Pages` with `Endpoints` |
| `Invitations` | `employees.service.ts` (create, invite), `users.service.ts`, `auth.service.ts` (acceptInvite, resetPassword) | – |
| `Hiring` | `recruitment.service.ts` | composes `Invitations` |
| `Attendance` | `attendance.service.ts`, `work-time.calculator.ts` | – |
| `Payslips` | `payroll.calculator.ts`, `monthlyBasic` and the loop of `process`, the guard of `setSalary` | – |
| `Salaries` | `salary.repository.ts` (setActive) | – |
| `Holidays` | `holidays.service.ts` and the schema's index | – |
| `Onboarding` | `onboarding.service.ts`, `onboarding.repository.ts` | – |
| `Signup` | `company.service.ts` (signup, uniqueSlug), `users.service.ts` (createOwner), `employees.service.ts` (the role of invite) | – |
| `Notifications` | `event-bus.ts`, `notification.service.ts`, its handler and repository | – |
| `SessionsProofs` | theorems about `Sessions`; about `Console` with the tables it runs on | `Sessions`, `Console` |
| `HiringProofs`, `AttendanceProofs` | theorems about `Hiring` with `Invitations`; `Attendance` | their module |
| `RowsProofs` | theorems about the six small models: `Salaries`, `Holidays`, `Notifications`, `Signup`, `Onboarding`, `Payslips` | these, `Sums` |
| `Sums` | lemmas about sums over finite sets | – |
| `MCLeaveWorkflow`, `MCHiring` | instances for TLC | their module |
| `MCSessions`, `MCAttendance`, `MCLifecycle` | instances for TLC of several models side by side | `Sessions`, `Console`; `Attendance`, `Salaries`, `Holidays`, `Payslips`; `EmployeeLifecycle`, `Onboarding`, `Signup`, `Notifications` |

The modules share one form, which is that of the code. A handler in flight is a slot of
`calls` (the set `Calls` bounds the concurrency). `pc` names the query it issues next and the
other fields are the local variables that survive the `await`. An action is one query with
the synchronous code after it, early returns included; a guard that ends the call without any
effect is the absence of the action that starts it. Reads of rows that nothing in the module
changes are folded into the first step. `Fail` (at most `MaxFailures` times) ends a call at
any `await`: a rejected query and the death of the process look the same to the rows, since
nothing rolls back.

- **LeaveWorkflow.** `balances` has a row per employee, type and year, as in the schema, and
  `requests` the rows of requests. `ApplyStart`, `ApplyCheckOverlap`, `ApplyEnsureBalance`,
  `ApplyReserve`, `ApplyCreate` are the five queries of `apply`; `decide` and `cancel` have
  a read, an adjustment of the counters and an update of the status. Days are numbered; the
  calendar (the year of a day, Sundays and holidays) is a parameter.
- **LeaveLedger** has no counters and no queries: an application is admitted in one step if
  the days of the live requests leave room. `LeaveWorkflow` implements it
  (`ImplementsLedger`), with a grant read off the balance row.
- **PayrollRun** has one run. `process` is mark, list, then for each employee a draft and a
  transaction, then the totals; `ProcessCatch` is the catch block. Only the net pay of a
  payslip is kept, and it is any of `NetPays`: HR edits what it depends on at any moment.
- **EmployeeLifecycle** models what the server accepts *and* what the offboarding page
  offers (`PageOffers`, `PageOffersExitOf`), because the server relies on the page.
- **Sessions.** A pair is an access token (`fresh` until it expires) with a refresh token
  (`tokens`, the state of its row). A fetch of the browser and the handler that answers it
  are one call; the store is shared by all tabs.
- **Invitations, Hiring.** Unique indexes are the keys of the functions: users by address,
  employees by code. `hireCandidate` is a call that enters `Invitations` at `check` and
  comes back at `return`; the state and actions of `Invitations` are used as they are. The role
  of an invitation is what its caller sent, which is cast and not checked: `RefuseRole` is the
  query that fails when the enum does not have it, after the user is stored. A candidate's
  offers are a sequence, and `LatestOf` is the query that picks one.
- **Attendance.** Time passes in ticks, several to the minute, between any two queries.
  `present` and `sessions` are what really happened, against which the record is judged. What a
  check-in or check-out reads and the time it takes after that are of one instant; its date,
  which it has taken before, may be yesterday's by then (`DateTaken`). Requests ask for a status
  of the enum (`AskedStatus`) with a time of the day, both or none (`AskedTimes`).
- **Endpoints, ApiClient, Pages** are tables, as the code they model is: a controller is a
  record of routes (minimum role, body, whether it needs an employee record), an api module a
  record of requests, a page the requests it opens with and the controls it puts on rows in
  certain states. **Console** makes them run: `Verdict` judges a request in the order of the
  code (role, validation, linked employee), `Click` sends it from a page that shows the row as
  it was, `Elsewhere` moves the row by whatever some page offers somebody. A move of a row is
  one step here; the queries behind it are in the module of the component. What a service holds
  against a request that neither the caller's role nor the row shows is `Objections`: what a form says
  (the routes of `JudgesForm`), and that a person to be hired has a user already or her code is
  taken. It may or may not hold, so both answers are followed.
- **Payslips** computes with integers where the code has paise and floating-point rates.
  `SeededRates` is the seed of `prisma/seed.ts` in units of so many paise: 1 in the theorem,
  1000 (tens of rupees) in the run, so that TLC's 32-bit integers hold a year's tax. Any of the
  four tables may be missing when a payslip is computed (`inForce`), as `getRates` admits.
- **Salaries.** A transaction is its look (`ScanActive`), its wait and re-check
  (`Deactivate`), and its commit. `active` is what others see.
- **Onboarding.** A column's value and a section's rows are named by the save that wrote them: that is all the
  property has to tell apart. A save fills in some columns and leaves others blank
  (`FilledIn`). Two columns and two of the four sections are enough, as each is treated alike.
- **Signup.** Companies are keyed by slug. `Candidates` holds what `uniqueSlug` tries for a
  name; the names of the instance get into each other's way ("acme", and "acme-1"). Once a company
  has an owner somebody may be invited as another (`InviteAsOwner`).
- **Notifications.** `event` is the next step of an event from the service that stores a row to
  the mark on its notification; `ProcessDies` ends all that is in memory.

`MCSessions`, `MCAttendance` and `MCLifecycle` put models side by side that share no variable,
as the code's calls share no row. A behaviour belongs to one of them, named by `part`, while
the others rest: the product of their states would show nothing more.

### History variables

The code does not keep overlapping calls apart, so many properties hold only of a use in
which certain calls do not overlap. Instead of leaving those behaviours out, the models keep
them and note them in history variables that no action reads (but to bound the check-ins of
a day); a property then says which use
it relies on, and what it promises however calls overlap.

| Variable | Notes |
|---|---|
| `overlapped` (payroll, lifecycle) | two calls were in flight at once (on the run; about the employee), or, in the lifecycle, one was cut short |
| `unoffered` (lifecycle) | a call was made that the offboarding page does not offer |
| `stale`, `crashed` (payroll) | whose payslip the latest pass has not replaced; a call ended without its catch block |
| `contended`, `lost`, `ended`, `parent` (sessions) | two handlers on the server at once; an answer lost or a login over an existing session; logout, reset or expiry of the session; which pair a pair replaced |
| `cut` (invitations) | an invitation of the address was cut short, found its code taken or named a role there is not |
| `raced` (hiring, attendance) | two calls about a candidate or a day at once, or one cut short; of a day also a check-in or check-out that midnight overtook |
| `lone` (onboarding), `latest` (salaries) | the last save (with the columns it filled in, and all of them as they were before it) or structure, if no other call overlapped it |
| `calendarRaces` (holidays) | places for which two calls of createCalendar overlapped |
| `broken` (notifications) | events that met a failing query, a lost answer or a crash |
| `inside`, `present`, `sessions`, `applied` (attendance) | what the employee did, and days a decision has changed |

`LeaveWorkflow` restricts the clients instead, by the constant `Discipline`: "none" (what the
server admits), "oneApply" (an employee has at most one application in flight), "oneCall" (at
most one application, decision or cancellation). This is so that the refinement can be stated
for a whole behaviour.

## 3. Runs

| Run | Shows | Bounds |
|---|---|---|
| `leave_one_call` | under "oneCall": `TypeOK`, `NoOverlap`, `CountersMatchRequests`, `StatusFollowsWorkflow`, and `ImplementsLedger` | 1 employee, 1 type, 3 requests, 2 calls, 4 days around a new year with a holiday, quota 2 |
| `leave_one_apply` | under "oneApply": `NeverOverdrawn`, with decisions, cancellations, a change of policy and one failure at any await | 2 requests, 2 calls, 2 days, 2 policies |
| `leave_overdraw` | without a discipline a balance is overdrawn (finding) | 2 requests, 2 calls |
| `leave_late_decision` | under "oneApply" a late decision takes back an earlier one: `StatusFollowsWorkflow` violated (finding) | 2 requests, 2 calls, 2 days |
| `payroll` | `TypeOK`, `TotalIsSumOfReplaced`, `PaidRunFrozen`, `ProcessingEnds` | 2 employees, 2 calls, 2 net pays; any number of errors and crashes |
| `payroll_leaver` | totals leave out the payslip of somebody who left (finding) | the same |
| `lifecycle` | `TypeOK`, `ExitsMatchStatus`, `ExitedHasDate`, `StatusFollowsLifecycle`; `FormIsWhole`; `CompaniesAreOwned`; `NoticesAreTruthful`, `PublishedEventsSettle` | 1 employee, 2 exits, 2 calls, 1 failure; 2 saves of 2 columns and 2 sections in 2 calls, 1 cut short; 3 signups of 2 names, 1 invited as an owner; 2 events |
| `sessions` | `TypeOK`, `StaysSignedIn`, `OnlyStoredTokenLives`, `ReplacedAtMostOnce`; `PagesOpen`, `RefusalsAreKnown`, `OutdatedClicksAreHarmless` | 3 pairs, 2 calls, any number of failures; every role, every page, one row of every kind |
| `sessions_parallel` | parallel refreshes sign the user out (finding) | the same |
| `hiring` | `TypeOK`, `OneEmployeePerUser`, `ActiveCanLogIn`, `InvitedIsWhole`, `HiredIsInvited`, `HiredOnce`, `HiredAcceptedLatest`, `HiredIsFinal` | 2 candidates of one address, 2 codes (1 of them given by hand), 2 offers in all (the second while only one of them has applied: `OffersInTurn`), a role of the enum and one that is not, 2 calls, 1 failure |
| `invite_codes` | two invitations collide on a code (finding) | 2 addresses, 3 codes, 2 calls |
| `attendance` | `TypeOK`, `DayIsRecorded`, `RegularisedByApproval`, `DecisionIsFinal`; `OneActiveSalary`; `CalendarInEffect`; `PayslipAddsUp` | 1 day of 5 ticks and the night after, 2 sessions, requests for ON_LEAVE that name one of the two times, 2 calls, 1 failure; 4 calls of setSalary, 3 at once; 2 locations; 10 salaries and 6 components about every ceiling and slab, months of 28 and 31 days with any number of absences, any of the tables of rates missing |

Why the bounds are enough. The hazards are of *two* handlers (one reads, another writes in
between), so two slots reach them; a third handler finds nothing that a sequence of two does
not leave behind, as no handler waits for another. Employees meet only in payroll (one loop)
and in the codes (one count); elsewhere rows of different employees are disjoint and one is
enough, which the theorems confirm where they are stated for any set. Two exits let an
employee leave, return and leave again; three pairs let a token be replaced and its
replacement replaced; two offers tell the latest from the first; three requests let a third application meet two live ones; four days
give a leave across the new year and one that is all holiday. Two ticks to the minute and a
day of five make sessions that lose half a minute, and minutes that cross `FullDay`; the night
lets midnight overtake a call, and every status is treated alike, so one is asked for. Three
calls of setSalary let two leave two active structures and a third heal it while another waits.
At the console the tables are those of the code, so nothing is bounded but the rows: controls
act on one row at a time, and one row with other users is what a stale page needs. Payslips
are computed one at a time; the amounts stand on both sides of every constant of the rates.

Symmetry is used for slots, requests, pairs and candidates, never in a run with a liveness
property.
Deadlock checking is off where the modelled world may really come to rest (all identities
used, the candidate hired, everybody exited, the clock at its end).

### Fairness and time

`PayrollRun` and `Notifications` assume fairness. In `PayrollRun` it is `WF` of *the next query of a call in flight is answered
or rejected*. The event loop and the database driver guarantee that; nobody is obliged to
make a call, and a crash is never fair. Under it `ProcessingEnds` says that a run leaves
PROCESSING unless the process dies (nothing resumes a run then; only a new call of process).
In `Notifications` it is `WF` of the next step of each event once it is published: the loop
runs what `setImmediate` has scheduled, and queries and providers answer or fail. Handlers are
separate promises (event-bus.ts:28), so the fairness is per event; a crash is never fair.

`Sessions` assumes of time that a call is short beside the lifetimes of tokens (15 minutes,
30 days): no pair expires on its way to the browser or during the one retry. Without that no
client that refreshes once per request could promise anything.

### Findings

1. `leaves.service.ts:118` – `apply` checks the balance and reserves in a later, unconditional
   query. Two applications of an employee in flight make *available* negative;
   `docs/03-domain-model.md:114` says never negative. `OverdraftIsBounded` proves how far:
   by the longest application for every handler in flight but one.
2. `payroll.service.ts:74` – a second pass replaces the payslips of those who are ACTIVE by
   then and overwrites the totals; the payslip of somebody who has left stays and is not in
   them. `docs/10-payroll-how-it-works.md:38`: "re-processing replaces the run's payslips".
3. `leaves.service.ts:171` – `decide` and `cancel` judge the status they have read (153, 202)
   and write the new one unconditionally, queries later. Two in flight for one request both
   find it PENDING, and the later takes back what the earlier made of it.
   `docs/03-domain-model.md:193-194`: "Rejected --> [*]", "Cancelled --> [*]".
4. `frontend/src/lib/api/client.ts:33` – every request refreshes for itself; the second of two
   presents a rotated token, reuse detection revokes everything, the user is signed out.
   `client.ts:50`: "transparently refreshes once on a 401".
5. `employees.service.ts:75` – `invite` stores the user first; when its code is taken in the
   meantime the user stays without an employee and the address is EMAIL_TAKEN from then on.
   `employees.service.ts:61`: "Creates the employee record plus an INVITED user".

What the passing properties have to make room for is worth a reader's attention too:

- Offboarding writes the status without the transition table (`offboarding.service.ts:52`,
  `docs/03-domain-model.md:99`); only the buttons of the page keep it in line, and that page does
  not open (see `PagesOpen` below). Cancelling an exit withdraws the notice: ON_NOTICE to ACTIVE is in
  the code's table (`employee-lifecycle.ts:10`) and not in the state machine of
  `docs/03-domain-model.md`, 3.5, which that file names as its source.
  `StatusFollowsLifecycle` takes the documented machine and this one edge (`NoticeWithdrawn`).
- `StatusFollowsWorkflow`: an approved leave may be cancelled on any day, also when it is over
  (`docs/03-domain-model.md:191`: "cancelled before start").
- `RefusalsAreKnown`: HR is offered Cancel on everybody's leave, and refused; a manager is
  shown every pending request and may decide on those of her reports; the onboarding page
  sends stored rows back with fields the DTO forbids; the owner, who has no employee record, is
  refused on her own pages; "Clock in" is offered while the page shows another month; Hire is
  offered for an offer to a person who has a user already, and refused with EMAIL_TAKEN.
- `PagesOpen`: the sidebar offers the directory to employees, whom the route refuses. The org
  chart asks for 500 employees on opening (`org-chart/page.tsx:36`) and the offboarding page for
  200 (`offboarding/page.tsx:46`), `pagination.dto.ts:26` refuses more than 100, and nothing
  catches the refusal: both only ever show an error, and exits can only be recorded by calling
  the API (`docs/06-api-design.md:101`: "`pageSize` capped at 100"; `docs/09-roadmap.md:140`
  lists both pages as shipped).
- `FormIsWhole`: a field of the onboarding form that somebody clears keeps its old value, as the
  page sends `''` and `employeeScalars` skips it (`onboarding.service.ts:206-213`).
- `InvitedIsWhole`: an invitation with a role that does not exist (`employee.dto.ts:71-74` asks
  for any string) fails after its user is stored, who is then left without role and employee.
- `OutdatedClicksAreHarmless`: a second click on Advance turns an offer into a hire; Hire on an
  outdated page hires a rejected candidate; a form saved late takes an approval back.
- `PayslipAddsUp`: the net pay may be negative after loss of pay, as tax is taken from the
  salary of the year (an annual 7,75,120 rupees does it). A day somebody has clocked into and
  not out of is ABSENT meanwhile, and counts as loss of pay.
- `OneActiveSalary`: calls of setSalary that overlap leave two active structures (exactly one,
  `docs/03-domain-model.md:100`), until the next call.
- `CompaniesAreOwned`: a signup cut short leaves a company without an owner (always exactly
  one, `docs/03-domain-model.md:88`) that holds its slug for good; and an invitation with the
  role OWNER, which nothing refuses (`employees.service.ts:69-74`), makes a second owner.
- `CalendarInEffect`: two company-wide calendars of one year can be stored.
- `NoticesAreTruthful`: a delivered message may be FAILED, and nothing is ever sent again,
  though `docs/03-domain-model.md:142` has delivery "retried with backoff".

### What overlapping calls may do

Where a property leaves out calls that overlap or are cut short, the code guarantees nothing
in their case, and `PROJECT.json` lists the hazard without a property, or with the one that
still holds: overlapping leave requests of two applications at once, a paid run taken back to
COMPLETED by a pass that began before, an open exit of an ACTIVE employee whose `initiate` was
cut short, a status and an exit that two calls leave at odds, a token exchanged twice by two
refreshes at once, a stage written over HIRED, minutes lost between two calls about one day, a
decision on a request changed by another, two company-wide calendars. Four of the
findings show such a case, and what holds however calls overlap is stated without exemption: `ExitedHasDate`,
`OneEmployeePerUser`, `ActiveCanLogIn`, `HiredIsInvited`, `HiredOnce`, the first halves of
`RegularisedByApproval` and `NoticesAreTruthful`, and `OverdraftIsBounded`.

## 4. Proofs

All theorems hold for every value of the constants that satisfies the named assumptions of
the modules, which TLC evaluates on the instances. An assumption says what the code's types or
schema give: days and amounts are natural numbers (`DaysAssumption`, `AmountsAssumption`), the
requests and employees are finitely many (`RequestsAssumption`, `EmployeesAssumption`), no rate
is negative (`RatesAssumption`), the sections of a form are named once (`SectionsAssumption`),
every name has a candidate for its slug
(`CandidatesAssumption`), `None` is nobody's name. Where a
theorem needs more, it is a hypothesis of the theorem.

None of the invariants is inductive as the runs state it, since they speak of rows between calls
or of what a finished call leaves behind. What the strengthenings have in common is that they say, for a call
at each of its queries, what it has read and what has become of that since.

**LeaveWorkflowProofs.** `TypeCorrect` needs that a decision or cancellation in flight has
its request still stored (`ReferencesStored`), since it reads the row again.
`BalanceNeverOverdrawn` (disciplines "oneApply" and "oneCall"): the reservation does not check
again, so `ReserveInv` adds that an employee has one
application in flight and that the row of one that is about to reserve still covers its days.
That survives the await because nobody else charges the row: decisions move or return days,
cancellations return them, seeding never changes a row. `RequestsNeverOverlap` and
`RequestsFollowWorkflow` ("oneCall") share `SerialInv`: one writer per employee, the request
a decision or cancellation works on still has the status it read, and an application past its
check is still disjoint from every live request.

`OverdraftIsBounded` says what is left of this with no discipline at all: used and pending
days exceed the accrued ones by at most `(Cardinality(Calls) - 1) * D`, where `D` bounds the working
days of an application (`AtMostDays`). `OverdraftInv` charges a row with the claims of the
applications that have passed their check on it as well: the one that checks last has seen room for itself, so row and claims
together exceed it by what the others claim, and each of those holds a handler of its own.
Reserving turns a claim into pending days and leaves the total as it was. The bound is tight:
it is reached when every handler asks for the longest application and the row covers just one.

`CountersAreExact` ("oneCall", and as long as no call was cut short) says that the counters of a
row are the sums of the days of its requests. A call that has adjusted the counters and not yet
written its request is `Moving`, and `CountersInv` says of such a row that the counters are ahead
by exactly what that call has `Moved`. The sum of a set of requests in which one changes status
changes by the days of that one (`DaysMove`, from the lemmas of `Sums`).

`LeavesImplementLedger` ("oneCall", no failures) is the refinement: the step that stores a request
is the ledger's admission, which is enabled because the days of the live requests equal the
counters that were checked (`CountersInv`) and the row still covers them (`ReserveInv`); the
update of a status is its settlement, seeding a balance row is its grant, and every other
query a stutter.

**PayrollRunProofs.** `TypeCorrect` includes that a pass is in its loop exactly while somebody
is left to visit. `PaidIsFrozen` rests on `AloneInv`: as long as no two calls have
overlapped, at most one is in flight, and none once the run is paid. `TotalAddsUp` needs
`PassInv`: as long as no calls have overlapped, what a pass has accumulated is the sum of the
payslips it has replaced, and those it has still to visit are stale if they have one. A pass
that failed leaves stale payslips to the next, which starts by calling every stored one stale.

**EmployeeLifecycleProofs.** `TypeCorrect` needs that a call works on a stored exit of its own
employee (`Recorded`). `ExitDated` follows from the one place where EXITED is written
together with the date, in both modules. `ExitsAgree` and `FollowsLifecycle` rest on `InStep`,
which says for an undisturbed employee what is the case *at each query* of the single call in
flight: at `status` the target is still a transition and no exit is open, at `tasks` the new
exit is open and owed its checklist while the employee is still ACTIVE, at `follow` the exit is
closed and the employee still ON_NOTICE, and so on. `ExitsMatchStatus`, which speaks of the
time between calls, is far from inductive: it says nothing while a call is halfway. The proof
has a lemma per action; `OnlyConcerns` disposes of all other employees at once.

**SessionsProofs.** `TokensReplacedOnce` rests on three facts. `Alone`: without contention one
call is on the server. `Lineage`: a pair that replaced another found it revoked, and a call
that is about to issue has revoked its own. `Unreplaced`: nothing has replaced the pair of a call
between its check and its issue. `NoOtherTokenLives` adds `StoreInLine`, which says at each query
of the one call which token may live (`LivesDuring`), and `UserStaysSignedIn` adds `SignedIn`,
which says that the stored token does until it is rotated. Requests themselves run in parallel in
all of this; what lets a stale one not disturb the store is `UsedIsFresh`, that an access token does
not expire on its way (the assumption on time of section 3).

The second half of the module is about `Console`. Its constants are tables, so what is
proved for every size is the number of others who act, the order they act in and the number of
clicks; and the proof says *why* the run finds nothing. It goes from the tables up:

- what every request of the client library asks of its route (`AttendanceServes`,
  `LeavesServes` and so on): that its body is admitted, and from which role on;
- what every page offers (`LeavesPageServed` and so on, gathered in `PageServed`): for a role
  that can get there, a page that is not one of `PagesOpen`'s answers all it asks on opening,
  and each of its controls is `Sound`: the guard lets it pass, the pipe too unless it sends
  stored rows back, it acts on rows the service lets that role act on, and it is one of 27
  `Buttons`, each offered in certain states (or the clock of another month);
- what the services do then: in every state it is offered in, each button finds the row in one
  it acts on (`ButtonMoves`), and no button moves a row back (`MoveForward`): not a form to
  where it was not begun, not a cycle to its draft, not a candidate against the order of the
  stages;
- that an HR administrator is offered each button in all its states (`DayIsUsual` and so on), so
  that a late click which is served is either usual by then or a known overwrite
  (`LateButton`). That a row never moves back is needed here: Hire on a candidate who is back
  in SCREENING, or Close on a cycle that is a draft again, would be served and be neither.

`ConsoleInvariant` then says that the page on display is one the user can get to and that
answered her (`ScreenInv`), and that the row has moved nowhere but forward since the page was
loaded (`SeenInv`), over any number of moves by others. `ConsolePagesOpen`, `ConsoleRefusals` and
`ConsoleOutdatedClicks` follow; a control that is served may still meet an objection, and
`ConsoleRefusals` says which controls can. Two pages have to be proved shut for it: `OffboardingStaysShut`
(it asks for too many employees), since its buttons overwrite an exit in any state, and `DirectoryStaysShut`, since it
links to the page of an employee record, which the route refuses to employees.

**HiringProofs** covers `Invitations` too, as its actions are steps of `Hiring`. The invariant is
`Inv == Shape /\ OneInvitation /\ Accepting /\ Underway /\ InTurn`. `OneInvitation`: the calls that
work on an address are one at most, from the user to the employee, for whoever creates the user
finds the address free and the index admits one; it has no employee until then, and one for good
afterwards. `UserHasOneEmployee`, `HiredWasInvited` and `PersonHiredOnce` follow, and hold however calls overlap.
`Accepting`: an employee is activated after the user. `Underway`: a user that is not whole has a
call which works on it, or the address is in `cut`. `InTurn` says for a candidate without a race
what the offers and the stage are at each query of hireCandidate; `LatestOfferAccepted` and
`HiredStaysHired` follow.

**AttendanceProofs.** `Inv == Shape /\ InTurn /\ DaysAccounted`. `InTurn` gives
`ChangesAreApproved` and `DecidedForGood`: on a day without races one call is under way, and a
decision that has changed the record still has a PENDING request. `DaysAccounted`
gives `DayCountsSessions`: at each query of a check-in or check-out it relates the minutes of the
record, those of the session that is open and the time that has passed; each session rounds down
once, which is where `TicksPerMinute - 1` ticks a session come from.

**RowsProofs.** `SalaryIsActive`: a call no other overlaps still sees, at each of its queries, all
that is active. `OneCalendarInEffect`: two calendars of a place are company-wide, and the calls
that stored them have raced. `NoticesTellTheTruth`: each step of a dispatch goes with one state of
the row and of the delivery. `CompanyHasItsOwner`: a slug belongs to one signup from the company to
the answer, and somebody is invited as an owner only by one. `FormStaysWhole`: a save that is alone has
left the columns as they were before it or as it fills them in, and then exactly what it sent in
the sections it has passed and nothing in those to come (`HowFar`), for any number of columns, and of
sections in any order.
`PrintedAddsUp`: rounding a share grows with the amount (`ShareGrows`) and leaves a whole a whole
(`ShareOfWhole`), so a part of the salary never exceeds it and no allowance is negative; a tax is a
sum of products that are not. `PayslipsAddUp` is the whole property with a hypothesis on the rates, `RatesAreBearable`: a
statutory table could take more than somebody earns in a whole month. `SeededPayslipsAddUp` has
no such hypothesis: the seeded table, in paise, is proved bearable for every salary. The tax of
a year is none up to 7,75,000 rupees and never 83.2 % of what is above the standard deduction
(`SeededTds`, bracket by bracket), the professional tax is nothing or 200 rupees (`SeededPt`),
and the four deductions with their roundings stay below the gross of a month (`GrossCovers`).

**Sums.** `SumFunctionOnSet` is defined by recursion over subsets, in an order that `CHOOSE`
picks, and the library's induction principles take an operator that the provers here cannot
instantiate. The lemmas (a sum is an integer, it splits by the removal of *any* element, it depends on
the summands only, it is not negative if they are not) are proved by a smallest counterexample
instead: among the subsets for which one fails there is one of least cardinality
(`NatLessThanWellFounded`, `WFMin`), and removing an element of it gives a smaller. `SumBounded`
(n summands of at most D come to at most n * D) and `SumUpTo` (a sum over 1 .. n ends with the
n-th summand) are proved from these.

Every safety property of the passing runs is a theorem. Only model-checked are liveness
(`ProcessingEnds`, `PublishedEventsSettle`), which needs ENABLED, and what the runs of
the findings violate, which are counterexamples. Nothing is claimed of LeaveWorkflow's counters after a
call was cut short: a reservation without its request is what the code then leaves behind.

## 5. Seeded faults

Beside a definition stands, where a property needs it, a mutated form under the comment
"Seeded fault": a guard dropped, a reset forgotten, an order swapped, the way a plausible bug
would have it. No action uses them. `PROJECT.json` pairs each property with one; with the
fault in place TLC finds the property violated, which shows that the property depends on that
code and that the run reaches the case.

## 6. Plan

Done: leaves, payroll runs, lifecycle, sessions, invitations and hiring, attendance, in this
order (money first, then access, then status); the console with its routes and pages,
notifications, signup, onboarding, salaries, payslips, holidays; and the proofs of section 4,
which state every safety property of the runs. Left: job openings, interviews and feedback; the
checklist of an exit; leave types.

## 7. Not modelled

Reads, lists, exports and layout (reports, payslip PDF, what a page looks like and what a form
checks before it is sent). The employee directory, organisation data, shifts and documents
write one row at a time behind one guard; their routes and pages are in `Endpoints` and
`Pages`. A cycle of managers takes two legal updates, and nothing in the code follows the
edges further than one step. The guard against deciding for somebody else's report
(`assertCanDecide`) is in `Console`, not in the workflow modules. Passwords,
hashes and signatures are taken to work. Mail, WhatsApp and object storage are external. Of modelled
services: `createType` of leaves, `toggleTask` of offboarding (touches only the task), the
geofence flag of attendance (nothing reads it), job openings, interviews and feedback of
recruitment (they gate nothing), managers of invitations. A start or end date
sent with a time of day, which leaves compares untruncated with stored dates, is out of the
model's calendar of whole days. An approved check-in time of a day with several sessions
makes later check-outs count from it; `DayIsRecorded` speaks of days nobody regularised.
