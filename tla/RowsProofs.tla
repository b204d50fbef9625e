------------------------------ MODULE RowsProofs ------------------------------
(***************************************************************************)
(* The properties of the six small models, for any number of calls, rows   *)
(* and failures, any amounts and rates: OneActiveSalary, CalendarInEffect, *)
(* NoticesAreTruthful, CompaniesAreOwned, FormIsWhole and PayslipAddsUp.   *)
(***************************************************************************)
EXTENDS Salaries, Holidays, Notifications, Signup, Onboarding, Payslips, Sums

----------------------------------------------------------------------------
(* Salaries *)

SettingCall ==
  {NotSetting} \cup [pc : {"scan"}, n : Nat, alone : BOOLEAN]
  \cup [pc : {"lock"}, n : Nat, alone : BOOLEAN, seen : SUBSET Nat]
  \cup [pc : {"create"}, n : Nat, alone : BOOLEAN, mine : SUBSET Nat]

\* A call nobody overlaps is the only one, and nothing has become active since
\* it looked: it deactivates whatever is.
SalaryInv ==
  /\ numbered \in Nat /\ active \in SUBSET Nat
  /\ setting \in [SalaryCalls -> SettingCall]
  /\ \A c \in SalaryCalls : setting[c] # NotSetting /\ setting[c].alone =>
       /\ \A d \in SalaryCalls : setting[d] # NotSetting => d = c
       /\ setting[c].pc = "lock" => setting[c].seen = active
       /\ setting[c].pc = "create" => setting[c].mine = active
  /\ OneActiveSalary

\* Initially there is no structure and no call.
LEMMA SalaryInvInit == SalaryInit => SalaryInv
BY DEF SalaryInit, SalaryInv, OneActiveSalary, SettingCall

\* A lone call deactivates all that is active; the others never leave none.
LEMMA SalaryInvStep == SalaryInv /\ [SalaryNext]_salaryVars => SalaryInv'
<1> SUFFICES ASSUME SalaryInv, [SalaryNext]_salaryVars PROVE SalaryInv'
  OBVIOUS
<1> USE DEF SalaryInv
<1>1. ASSUME NEW c \in SalaryCalls, SetSalary(c) PROVE SalaryInv'
  <2>1. numbered' = numbered + 1 /\ UNCHANGED <<structures, active, latest>>
    BY <1>1 DEF SetSalary
  <2>2. setting'[c] = [pc |-> "scan", n |-> numbered', alone |-> Settings = {}]
    BY <1>1 DEF SetSalary
  <2>3. setting'[c] \in SettingCall /\ setting'[c] # NotSetting /\ setting'[c].pc = "scan"
    BY <2>1, <2>2 DEF SettingCall, NotSetting
  <2>4. ASSUME NEW d \in SalaryCalls \ {c}, setting[d] = NotSetting
        PROVE  setting'[d] = NotSetting
    BY <1>1, <2>4 DEF SetSalary, Settings
  <2>5. ASSUME NEW d \in SalaryCalls \ {c}, setting[d] # NotSetting
        PROVE  setting'[d] \in SettingCall /\ setting'[d] # NotSetting /\ ~setting'[d].alone
    <3>1. setting'[d] = [setting[d] EXCEPT !.alone = FALSE]
      BY <1>1, <2>5 DEF SetSalary, Settings
    <3>2. setting[d] \in SettingCall \ {NotSetting}
      BY <2>5
    <3> QED
      BY <3>1, <3>2 DEF SettingCall, NotSetting
  <2>6. setting' \in [SalaryCalls -> SettingCall]
    <3>1. \A d \in SalaryCalls : setting'[d] \in SettingCall
      BY <2>3, <2>4, <2>5 DEF SettingCall
    <3> HIDE DEF SalaryInv
    <3>2. setting' = [d \in SalaryCalls |-> setting'[d]]
      BY <1>1 DEF SetSalary
    <3> QED
      BY <3>1, <3>2
  <2>7. setting'[c].alone => \A d \in SalaryCalls : setting'[d] # NotSetting => d = c
    <3>1. setting'[c].alone = (Settings = {})
      BY <2>2
    <3>2. Settings # {} => ~setting'[c].alone
      BY <3>1, Zenon
    <3> QED
      BY <2>4, <3>2 DEF Settings
  <2> QED
    BY <2>1, <2>3, <2>4, <2>5, <2>6, <2>7 DEF OneActiveSalary
<1>2. ASSUME NEW c \in SalaryCalls, ScanActive(c) PROVE SalaryInv'
  BY <1>2 DEF ScanActive, SettingCall, NotSetting, OneActiveSalary
<1>3. ASSUME NEW c \in SalaryCalls, Deactivate(c) PROVE SalaryInv'
  BY <1>3 DEF Deactivate, OthersSee, SettingCall, NotSetting, OneActiveSalary
<1>4. ASSUME NEW c \in SalaryCalls, CreateAndCommit(c) PROVE SalaryInv'
  <2>1. setting[c] \in [pc : {"create"}, n : Nat, alone : BOOLEAN, mine : SUBSET Nat]
    BY <1>4 DEF CreateAndCommit, SettingCall, NotSetting
  <2> DEFINE n == setting[c].n
  <2>2. /\ structures' = structures \cup {n} /\ numbered' = numbered
        /\ active' = (active \ setting[c].mine) \cup {n}
        /\ latest' = IF setting[c].alone THEN n ELSE 0
        /\ setting' = [setting EXCEPT ![c] = NotSetting]
    BY <1>4 DEF CreateAndCommit
  <2>3. setting[c] # NotSetting /\ setting[c].pc = "create"
    BY <2>1 DEF NotSetting
  <2>4. OneActiveSalary'
    <3>1. setting[c].alone => active' = {n}
      BY <2>2, <2>3
    <3> QED
      BY <2>2, <3>1 DEF OneActiveSalary
  <2>5. /\ numbered' \in Nat /\ active' \in SUBSET Nat
        /\ setting' \in [SalaryCalls -> SettingCall]
    BY <2>1, <2>2 DEF SettingCall
  <2>6. setting'[c] = NotSetting /\ \A d \in SalaryCalls \ {c} : setting'[d] = setting[d]
    BY <2>2
  <2>7. ASSUME NEW d \in SalaryCalls, setting'[d] # NotSetting PROVE ~setting'[d].alone
    BY <2>3, <2>6, <2>7
  <2> QED
    BY <2>4, <2>5, <2>7
<1>5. ASSUME NEW c \in SalaryCalls, RollBack(c) PROVE SalaryInv'
  BY <1>5 DEF RollBack, SettingCall, NotSetting, OneActiveSalary
<1>6. CASE UNCHANGED salaryVars
  BY <1>6 DEF salaryVars, OneActiveSalary
<1> QED
  BY <1>1, <1>2, <1>3, <1>4, <1>5, <1>6 DEF SalaryNext

\* An employee with a salary has an active one, and after a call that no other
\* overlapped exactly that call's, whatever overlapping calls had left.
THEOREM SalaryIsActive == SalarySpec => []OneActiveSalary
<1>1. SalaryInv => OneActiveSalary
  BY DEF SalaryInv
<1> QED
  BY <1>1, SalaryInvInit, SalaryInvStep, PTL DEF SalarySpec

----------------------------------------------------------------------------
(* Holidays *)

\* Only company-wide calendars can be two, and only after a race: without one,
\* whoever is creating the first is alone and has found none.
CalendarInv ==
  /\ creating \in [CalendarCalls -> {NotCreating} \cup [pc : {"create"}, place : Places]]
  /\ calendarRaces \subseteq Places
  /\ \A j, k \in calendars : j.place = k.place /\ j # k => j.place = Company /\ Company \in calendarRaces
  /\ Company \notin calendarRaces =>
       /\ \A b, c \in CreatingFor(Company) : b = c
       /\ CreatingFor(Company) # {} => CalendarsOf(Company) = {}

\* Two calendars of a place are company-wide, and their calls have raced.
LEMMA CalendarInvStep == CalendarInv /\ [CalendarNext]_calendarVars => CalendarInv'
<1> SUFFICES ASSUME CalendarInv, [CalendarNext]_calendarVars PROVE CalendarInv'
  OBVIOUS
<1> USE DEF CalendarInv
<1>1. ASSUME NEW c \in CalendarCalls, CreateCalendarStart(c) PROVE CalendarInv'
  BY <1>1 DEF CreateCalendarStart, CreatingFor, CalendarsOf, NotCreating
<1>2. ASSUME NEW c \in CalendarCalls, CreateCalendar(c) PROVE CalendarInv'
  BY <1>2 DEF CreateCalendar, IndexAdmits, CreatingFor, CalendarsOf, NotCreating
<1>3. CASE AddHoliday
  BY <1>3 DEF AddHoliday, CreatingFor, CalendarsOf
<1>4. CASE UNCHANGED calendarVars
  BY <1>4 DEF calendarVars, CreatingFor, CalendarsOf
<1> QED
  BY <1>1, <1>2, <1>3, <1>4 DEF CalendarNext

\* The holidays entered for a place are those it is told of, but for two
\* company-wide calendars that were stored at once.
THEOREM OneCalendarInEffect == CalendarSpec => []CalendarInEffect
<1>1. CalendarInit => CalendarInv
  BY DEF CalendarInit, CalendarInv, CreatingFor
<1>2. ASSUME CalendarInv PROVE CalendarInEffect
  <2> SUFFICES ASSUME NEW place \in Places, NEW effective, effective = EffectiveCalendars(place),
                      ~(effective \subseteq CalendarsOf(Company) /\ Company \in calendarRaces)
               PROVE  Cardinality(effective) <= 1
    BY DEF CalendarInEffect
  <2>1. \A j, k \in effective : j = k
    BY <1>2 DEF CalendarInv, EffectiveCalendars, CalendarsOf
  <2>2. CASE effective = {}
    BY <2>2, FS_EmptySet
  <2>3. CASE effective # {}
    <3>1. PICK k \in effective : effective = {k}
      BY <2>1, <2>3
    <3>2. Cardinality({k}) = 1
      BY FS_Singleton
    <3> QED
      BY <3>1, <3>2
  <2> QED
    BY <2>2, <2>3
<1> QED
  BY <1>1, <1>2, CalendarInvStep, PTL DEF CalendarSpec

----------------------------------------------------------------------------
(* Notifications *)

\* What is known of a notification at each step of its event.
NoticeInv ==
  /\ event \in [Events -> {"none", "stored", "published", "create", "send", "markSent",
                           "noteFailed", "markFailed", "ended"}]
  /\ notice \in [Events -> {"none", "QUEUED", "SENT", "FAILED"}]
  /\ delivered \in [Events -> Nat]
  /\ \A v \in Events :
       /\ event[v] \in {"none", "stored", "published", "create"} =>
            notice[v] = "none" /\ delivered[v] = 0
       /\ event[v] \in {"send", "noteFailed"} => notice[v] = "QUEUED" /\ delivered[v] = 0
       /\ event[v] = "markSent" => notice[v] = "QUEUED" /\ delivered[v] = 1
       /\ event[v] = "markFailed" => notice[v] = "QUEUED" /\ (v \in broken \/ delivered[v] = 0)
  /\ NoticesAreTruthful

\* The row of a notification and its delivery follow the dispatch.
LEMMA NoticeInvStep == NoticeInv /\ [NoticeNext]_noticeVars => NoticeInv'
<1> SUFFICES ASSUME NoticeInv, [NoticeNext]_noticeVars PROVE NoticeInv'
  OBVIOUS
<1> USE DEF NoticeInv, NoticesAreTruthful, Goes, Marks, Breaks
<1>1. ASSUME NEW v \in Events, StoreSubject(v) PROVE NoticeInv'
  BY <1>1 DEF StoreSubject
<1>2. ASSUME NEW v \in Events, Publish(v) PROVE NoticeInv'
  BY <1>2 DEF Publish
<1>3. ASSUME NEW v \in Events, HandleEvent(v) PROVE NoticeInv'
  BY <1>3 DEF HandleEvent
<1>4. ASSUME NEW v \in Events, CreateNotice(v) PROVE NoticeInv'
  BY <1>4 DEF CreateNotice
<1>5. ASSUME NEW v \in Events, SendNotice(v) PROVE NoticeInv'
  BY <1>5 DEF SendNotice, AfterAnswer
<1>6. ASSUME NEW v \in Events, MarkSent(v) PROVE NoticeInv'
  BY <1>6 DEF MarkSent
<1>7. ASSUME NEW v \in Events, MarkFailed(v) PROVE NoticeInv'
  BY <1>7 DEF MarkFailed
<1>8. ASSUME NEW v \in Events, QueryFails(v) PROVE NoticeInv'
  BY <1>8 DEF QueryFails, AfterError
<1>9. CASE ProcessDies
  BY <1>9 DEF ProcessDies, InMemory
<1>10. CASE UNCHANGED noticeVars
  BY <1>10 DEF noticeVars
<1> QED
  BY <1>1, <1>2, <1>3, <1>4, <1>5, <1>6, <1>7, <1>8, <1>9, <1>10 DEF NoticeNext, Dispatch

\* A message is on record before it goes out, goes out at most once, and the
\* record is right unless something broke on the way.
THEOREM NoticesTellTheTruth == NoticeSpec => []NoticesAreTruthful
<1>1. NoticeInit => NoticeInv
  BY DEF NoticeInit, NoticeInv, NoticesAreTruthful
<1>2. NoticeInv => NoticesAreTruthful
  BY DEF NoticeInv
<1> QED
  BY <1>1, <1>2, NoticeInvStep, PTL DEF NoticeSpec

----------------------------------------------------------------------------
(* Signup *)

SignupPcs == {"find", "company", "owner", "role", "tokens", "answered", "refused", "cut", "abandoned"}

SignupCall == {NotCalled} \cup
  [pc : SignupPcs, name : DOMAIN Candidates, n : Nat]

CompanyRow ==
  [users : SUBSET (Signups \cup Invitees), owners : SUBSET (Signups \cup Invitees),
   stored : BOOLEAN]

OwnerInvite == {NotCalled} \cup [pc : {"role", "done", "cut"}, slug : AllSlugs]

\* The signups that have stored their company.
HasStored == {"owner", "role", "tokens", "answered", "abandoned"}

\* What a signup has stored of its company by the time of each query, and that
\* nobody is an owner before its caller.
Founding(u, users, owners) ==
  /\ signups[u].pc = "owner" => users \cap Signups = {} /\ owners = {}
  /\ signups[u].pc = "role" => users \cap Signups = {u} /\ owners = {}
  /\ signups[u].pc \in {"tokens", "answered"} =>
       users \cap Signups = {u} /\ owners \cap Signups = {u}

Owned(s) ==
  /\ ~companies[s].stored => companies[s].users = {} /\ companies[s].owners = {}
  /\ companies[s].stored /\ companies[s].owners = {} => Unfinished(s) # {}
  /\ companies[s].owners # {} => \E u \in Signups : companies[s].owners \cap Signups = {u}

\* A signup that is not over has the company to itself: nobody else has stored
\* one under the slug.
SignupInv ==
  /\ companies \in [AllSlugs -> CompanyRow]
  /\ signups \in [Signups -> SignupCall]
  /\ invited \in [Invitees -> OwnerInvite]
  /\ \A i \in Invitees : invited[i].pc = "role" => companies[invited[i].slug].owners # {}
  /\ \A u \in Signups : signups[u].pc # "none" => SlugOf(u) \in AllSlugs
  /\ \A u \in Signups : signups[u].pc \in HasStored => companies[SlugOf(u)].stored
  /\ \A u, v \in Signups :
       /\ signups[u].pc \in HasStored /\ signups[v].pc \in HasStored /\ SlugOf(u) = SlugOf(v)
       => u = v
  /\ \A u \in Signups :
       signups[u].pc \in HasStored =>
         Founding(u, companies[SlugOf(u)].users, companies[SlugOf(u)].owners)
  /\ \A s \in AllSlugs : Owned(s)

\* A signup goes on to another pc, or to the next candidate.
LEMMA SignupMoves ==
  ASSUME SignupInv, NEW u \in Signups, signups[u].pc # "none", NEW pc \in SignupPcs,
         Now(u, [signups[u] EXCEPT !.pc = pc])
  PROVE  /\ signups' \in [Signups -> SignupCall] /\ invited' = invited
         /\ signups'[u].pc = pc /\ SlugOf(u)' = SlugOf(u)
         /\ \A v \in Signups \ {u} : signups'[v] = signups[v] /\ SlugOf(v)' = SlugOf(v)
<1>1. signups[u] \in [pc : SignupPcs, name : DOMAIN Candidates, n : Nat]
  BY DEF SignupInv, SignupCall, NotCalled
<1>2. /\ signups'[u] = [signups[u] EXCEPT !.pc = pc]
      /\ \A v \in Signups \ {u} : signups'[v] = signups[v]
      /\ invited' = invited
  BY DEF SignupInv, Now
<1>3. /\ signups'[u] \in SignupCall /\ signups'[u].pc = pc
      /\ signups'[u].name = signups[u].name /\ signups'[u].n = signups[u].n
  BY <1>1, <1>2 DEF SignupCall
<1>4. signups' \in [Signups -> SignupCall]
  BY <1>2, <1>3 DEF SignupInv, Now
<1> QED
  BY <1>2, <1>3, <1>4 DEF SlugOf

\* A signup looks at slugs that exist.
LEMMA SlugsExist ==
  ASSUME NEW name \in DOMAIN Candidates, NEW n \in Nat, 1 <= n, n <= Len(Candidates[name])
  PROVE  Candidates[name][n] \in AllSlugs
<1>1. n \in DOMAIN Candidates[name]
  BY CandidatesAssumption
<1> QED
  BY <1>1 DEF AllSlugs, SlugsOf

\* A signup that has its slug to itself stores a row of the company and goes on.
LEMMA SignupStores ==
  ASSUME SignupInv, NEW u \in Signups, signups[u].pc # "none",
         NEW pc \in HasStored, Now(u, [signups[u] EXCEPT !.pc = pc]),
         NEW row \in CompanyRow, row.stored, companies' = [companies EXCEPT ![SlugOf(u)] = row],
         \A v \in Signups \ {u} : signups[v].pc \in HasStored => SlugOf(v) # SlugOf(u),
         pc = "owner" => row.users \cap Signups = {} /\ row.owners = {},
         pc = "role" => row.users \cap Signups = {u} /\ row.owners = {},
         pc \in {"tokens", "answered"} =>
           row.users \cap Signups = {u} /\ row.owners \cap Signups = {u},
         row.owners = {} => pc \in {"owner", "role", "abandoned"},
         row.owners # {} => row.owners \cap Signups = {u},
         companies[SlugOf(u)].owners # {} => row.owners # {}
  PROVE  SignupInv'
<1>1. SlugOf(u) \in AllSlugs /\ companies \in [AllSlugs -> CompanyRow] /\ pc \in SignupPcs
  BY DEF SignupInv, HasStored, SignupPcs
<1>2. /\ signups' \in [Signups -> SignupCall] /\ invited' = invited
      /\ signups'[u].pc = pc /\ SlugOf(u)' = SlugOf(u)
      /\ \A v \in Signups \ {u} : signups'[v] = signups[v] /\ SlugOf(v)' = SlugOf(v)
  BY <1>1, SignupMoves
<1>3. /\ companies' \in [AllSlugs -> CompanyRow] /\ companies'[SlugOf(u)] = row
      /\ \A s \in AllSlugs \ {SlugOf(u)} : companies'[s] = companies[s]
  BY <1>1
<1>4. ASSUME NEW i \in Invitees, invited[i].pc = "role"
      PROVE  companies'[invited[i].slug].owners # {}
  <2>1. invited[i].slug \in AllSlugs /\ companies[invited[i].slug].owners # {}
    BY <1>4 DEF SignupInv, OwnerInvite, NotCalled
  <2> QED
    BY <1>3, <2>1
<1>5. \A v \in Signups \ {u} :
        signups[v].pc \in HasStored => SlugOf(v) \in AllSlugs \ {SlugOf(u)}
  BY DEF SignupInv, HasStored
<1>6. ASSUME NEW v \in Signups, signups'[v].pc \in HasStored
      PROVE  /\ companies'[SlugOf(v)'].stored
             /\ Founding(v, companies[SlugOf(v)].users, companies[SlugOf(v)].owners)'
  <2>1. CASE v = u
    BY <1>2, <1>3, <2>1 DEF Founding
  <2>2. CASE v # u
    <3>1. /\ signups'[v] = signups[v] /\ SlugOf(v)' = SlugOf(v)
          /\ companies'[SlugOf(v)] = companies[SlugOf(v)]
      BY <1>2, <1>3, <1>5, <1>6, <2>2
    <3>2. companies[SlugOf(v)].stored
          /\ Founding(v, companies[SlugOf(v)].users, companies[SlugOf(v)].owners)
      BY <1>6, <3>1 DEF SignupInv
    <3> QED
      BY <3>1, <3>2 DEF Founding
  <2> QED
    BY <2>1, <2>2
<1>7. ASSUME NEW s \in AllSlugs PROVE Owned(s)'
  <2>1. CASE s = SlugOf(u)
    <3>1. pc \in {"owner", "role", "abandoned"} => u \in Unfinished(s)'
      BY <1>2, <2>1 DEF Unfinished
    <3> QED
      BY <1>3, <2>1, <3>1 DEF Owned
  <2>2. CASE s # SlugOf(u)
    <3>1. Unfinished(s)' = Unfinished(s)
      BY <1>2, <2>2 DEF Unfinished
    <3> QED
      BY <1>3, <2>2, <3>1 DEF SignupInv, Owned
  <2> QED
    BY <2>1, <2>2
<1>8. \A v \in Signups : signups'[v].pc # "none" => SlugOf(v)' \in AllSlugs
  BY <1>1, <1>2 DEF SignupInv
<1>9. \A v, w \in Signups :
        /\ signups'[v].pc \in HasStored /\ signups'[w].pc \in HasStored /\ SlugOf(v)' = SlugOf(w)'
        => v = w
  BY <1>2 DEF SignupInv
<1> QED
  BY <1>2, <1>3, <1>4, <1>6, <1>7, <1>8, <1>9 DEF SignupInv

\* A signup that has stored nothing, or whose caller is an owner, moves and
\* stores nothing.
LEMMA SignupMovesOn ==
  ASSUME SignupInv, NEW u \in Signups, UNCHANGED <<companies, invited>>,
         signups' \in [Signups -> SignupCall],
         \A v \in Signups \ {u} : signups'[v] = signups[v],
         signups[u].pc \notin {"owner", "role", "abandoned"},
         signups'[u].pc \notin HasStored,
         signups'[u].pc # "none" => SlugOf(u)' \in AllSlugs
  PROVE  SignupInv'
<1>1. \A v \in Signups \ {u} : SlugOf(v)' = SlugOf(v)
  BY DEF SlugOf
<1>2. \A s : Unfinished(s)' = Unfinished(s)
  BY <1>1 DEF Unfinished, HasStored
<1>3. \A v \in Signups : signups'[v].pc \in HasStored => v # u
  OBVIOUS
<1>4. \A s \in AllSlugs : Owned(s)'
  BY <1>2 DEF SignupInv, Owned
<1>5. ASSUME NEW v \in Signups, signups'[v].pc \in HasStored
      PROVE  Founding(v, companies[SlugOf(v)].users, companies[SlugOf(v)].owners)'
  <2>1. signups'[v] = signups[v] /\ SlugOf(v)' = SlugOf(v)
    BY <1>1, <1>3, <1>5
  <2>2. Founding(v, companies[SlugOf(v)].users, companies[SlugOf(v)].owners)
    BY <1>5, <2>1 DEF SignupInv
  <2> QED
    BY <2>1, <2>2 DEF Founding
<1> QED
  BY <1>1, <1>3, <1>4, <1>5 DEF SignupInv

\* An invitation stores a member of a company that has an owner.
LEMMA InviteKeeps ==
  ASSUME SignupInv, NEW i \in Invitees, NEW slug \in AllSlugs, NEW row \in CompanyRow,
         companies[slug].owners # {}, UNCHANGED signups,
         companies' = [companies EXCEPT ![slug] = row], row.stored = companies[slug].stored,
         row.users \cap Signups = companies[slug].users \cap Signups,
         row.owners \cap Signups = companies[slug].owners \cap Signups, row.owners # {},
         invited' \in [Invitees -> OwnerInvite],
         \A j \in Invitees : invited'[j].pc = "role" => invited[j] = invited'[j] \/ invited'[j].slug = slug
  PROVE  SignupInv'
<1>1. /\ companies \in [AllSlugs -> CompanyRow] /\ companies' \in [AllSlugs -> CompanyRow]
      /\ companies'[slug] = row /\ \A s \in AllSlugs \ {slug} : companies'[s] = companies[s]
  BY DEF SignupInv
<1>2. \A u : SlugOf(u)' = SlugOf(u)
  BY DEF SlugOf
<1>3. \A s : Unfinished(s)' = Unfinished(s)
  BY <1>2 DEF Unfinished
<1>4. ASSUME NEW s \in AllSlugs PROVE Owned(s)'
  <2>1. Owned(s) /\ companies[slug].stored
    BY DEF SignupInv, Owned
  <2>2. CASE s = slug
    BY <1>1, <2>1, <2>2 DEF Owned
  <2>3. CASE s # slug
    BY <1>1, <1>3, <2>1, <2>3 DEF Owned
  <2> QED
    BY <2>2, <2>3
<1>5. ASSUME NEW u \in Signups, signups[u].pc \in HasStored
      PROVE  /\ companies'[SlugOf(u)].stored
             /\ Founding(u, companies[SlugOf(u)].users, companies[SlugOf(u)].owners)'
  <2>1. /\ SlugOf(u) \in AllSlugs /\ companies[SlugOf(u)].stored
        /\ Founding(u, companies[SlugOf(u)].users, companies[SlugOf(u)].owners)
    BY <1>5 DEF SignupInv, HasStored
  <2>2. CASE SlugOf(u) = slug
    <3>1. signups[u].pc \notin {"owner", "role"}
      BY <2>1, <2>2 DEF Founding
    <3> QED
      BY <1>1, <1>2, <2>1, <2>2, <3>1 DEF Founding
  <2>3. CASE SlugOf(u) # slug
    BY <1>1, <1>2, <2>1, <2>3 DEF Founding
  <2> QED
    BY <2>2, <2>3
<1>6. ASSUME NEW j \in Invitees, invited'[j].pc = "role"
      PROVE  companies'[invited'[j].slug].owners # {}
  <2>1. invited'[j].slug \in AllSlugs
    BY <1>6 DEF OwnerInvite, NotCalled
  <2>2. CASE invited'[j].slug = slug
    BY <1>1, <2>2
  <2>3. CASE invited'[j].slug # slug
    BY <1>1, <1>6, <2>1, <2>3 DEF SignupInv
  <2> QED
    BY <2>2, <2>3
<1> QED
  BY <1>1, <1>2, <1>4, <1>5, <1>6 DEF SignupInv

\* A slug belongs to one signup from its company to its answer.
LEMMA SignupInvStep == SignupInv /\ [SignupNext]_signupVars => SignupInv'
<1> SUFFICES ASSUME SignupInv, [SignupNext]_signupVars PROVE SignupInv'
  OBVIOUS
<1>t. /\ companies \in [AllSlugs -> CompanyRow] /\ signups \in [Signups -> SignupCall]
      /\ invited \in [Invitees -> OwnerInvite]
  BY DEF SignupInv
<1>1. ASSUME NEW u \in Signups, SignupStart(u) PROVE SignupInv'
  <2>1. PICK name \in DOMAIN Candidates : Now(u, [pc |-> "find", name |-> name, n |-> 1])
    BY <1>1 DEF SignupStart
  <2>2. signups'[u] = [pc |-> "find", name |-> name, n |-> 1]
    BY <1>t, <2>1 DEF Now
  <2>3. /\ signups'[u].pc = "find" /\ signups'[u].name = name /\ signups'[u].n = 1
        /\ signups'[u] \in SignupCall
    BY <2>2 DEF SignupCall, SignupPcs
  <2>4. SlugOf(u)' \in AllSlugs
    <3>1. Candidates[name] \in Seq(AllSlugs) /\ Candidates[name] # <<>>
      BY CandidatesAssumption
    <3>2. 1 <= Len(Candidates[name])
      BY <3>1
    <3> QED
      BY <2>3, <3>2, SlugsExist DEF SlugOf
  <2>5. signups[u].pc = "none" /\ UNCHANGED <<companies, invited>>
    BY <1>1, <2>1 DEF SignupStart, At, Now
  <2>6. /\ signups' \in [Signups -> SignupCall]
        /\ \A v \in Signups \ {u} : signups'[v] = signups[v]
    BY <1>t, <2>1, <2>3 DEF Now
  <2> QED
    BY <2>3, <2>4, <2>5, <2>6, SignupMovesOn DEF HasStored
<1>2. ASSUME NEW u \in Signups, FindSlug(u) PROVE SignupInv'
  <2>0. signups[u].pc = "find" /\ UNCHANGED <<companies, invited>> /\ SlugOf(u) \in AllSlugs
    BY <1>2 DEF FindSlug, At, Now, SignupInv
  <2>1. CASE Now(u, [signups[u] EXCEPT !.pc = "company"])
    BY <2>0, <2>1, SignupMoves, SignupMovesOn DEF SignupPcs, HasStored
  <2>2. CASE /\ signups[u].n < Len(Candidates[signups[u].name])
             /\ Now(u, [signups[u] EXCEPT !.n = @ + 1])
    <3>1. signups[u] \in [pc : SignupPcs, name : DOMAIN Candidates, n : Nat]
      BY <1>t, <2>0 DEF SignupCall, NotCalled
    <3>2. signups'[u] = [signups[u] EXCEPT !.n = signups[u].n + 1]
      BY <1>t, <2>2 DEF Now
    <3>3. /\ signups'[u].pc = "find" /\ signups'[u].name = signups[u].name
          /\ signups'[u].n = signups[u].n + 1 /\ signups'[u] \in SignupCall
      BY <2>0, <3>1, <3>2 DEF SignupCall
    <3>4. SlugOf(u)' \in AllSlugs
      <4>1. /\ signups[u].n \in Nat /\ signups[u].name \in DOMAIN Candidates
            /\ Candidates[signups[u].name] \in Seq(AllSlugs)
        BY <3>1, CandidatesAssumption
      <4> QED
        BY <2>2, <3>3, <4>1, SlugsExist DEF SlugOf
    <3>5. /\ signups' \in [Signups -> SignupCall]
          /\ \A v \in Signups \ {u} : signups'[v] = signups[v]
      BY <1>t, <2>2, <3>3 DEF Now
    <3> QED
      BY <2>0, <3>3, <3>4, <3>5, SignupMovesOn DEF HasStored
  <2> QED
    BY <1>2, <2>1, <2>2 DEF FindSlug
<1>3. ASSUME NEW u \in Signups, CreateCompany(u) PROVE SignupInv'
  <2>0. signups[u].pc = "company" /\ SlugOf(u) \in AllSlugs
    BY <1>3 DEF CreateCompany, At, SignupInv
  <2>1. CASE Now(u, [signups[u] EXCEPT !.pc = "refused"]) /\ UNCHANGED companies
    <3>1. UNCHANGED invited
      BY <2>1 DEF Now
    <3> QED
      BY <2>0, <2>1, <3>1, SignupMoves, SignupMovesOn DEF SignupPcs, HasStored
  <2>2. CASE /\ SlugFree(SlugOf(u))
             /\ companies' = [companies EXCEPT ![SlugOf(u)].stored = TRUE]
             /\ Now(u, [signups[u] EXCEPT !.pc = "owner"])
    <3> DEFINE row == [companies[SlugOf(u)] EXCEPT !.stored = TRUE]
    <3>1. /\ ~companies[SlugOf(u)].stored
          /\ companies[SlugOf(u)].users = {} /\ companies[SlugOf(u)].owners = {}
      BY <2>0, <2>2 DEF SlugFree, SignupInv, Owned
    <3>2. row \in CompanyRow /\ row.stored /\ row.users = {} /\ row.owners = {}
      BY <1>t, <2>0, <3>1 DEF CompanyRow
    <3>3. companies' = [companies EXCEPT ![SlugOf(u)] = row]
      BY <1>t, <2>2
    <3>4. \A v \in Signups : signups[v].pc \in HasStored => SlugOf(v) # SlugOf(u)
      BY <3>1 DEF SignupInv
    <3> HIDE DEF row
    <3> QED
      BY <2>0, <2>2, <3>1, <3>2, <3>3, <3>4, SignupStores DEF HasStored
  <2> QED
    BY <1>3, <2>1, <2>2 DEF CreateCompany
<1>4. ASSUME NEW u \in Signups, signups[u].pc \in HasStored
      PROVE  /\ SlugOf(u) \in AllSlugs /\ companies[SlugOf(u)].stored
             /\ Founding(u, companies[SlugOf(u)].users, companies[SlugOf(u)].owners)
             /\ \A v \in Signups \ {u} : signups[v].pc \in HasStored => SlugOf(v) # SlugOf(u)
  BY <1>4 DEF SignupInv, HasStored
<1>5. ASSUME NEW u \in Signups, CreateOwner(u) PROVE SignupInv'
  <2> DEFINE row == [companies[SlugOf(u)] EXCEPT !.users = @ \cup {u}]
  <2>0. signups[u].pc = "owner" /\ Now(u, [signups[u] EXCEPT !.pc = "role"])
    BY <1>5 DEF CreateOwner, At
  <2>1. /\ SlugOf(u) \in AllSlugs /\ companies[SlugOf(u)].stored
        /\ companies[SlugOf(u)].users \cap Signups = {} /\ companies[SlugOf(u)].owners = {}
        /\ \A v \in Signups \ {u} : signups[v].pc \in HasStored => SlugOf(v) # SlugOf(u)
    BY <1>4, <2>0 DEF Founding, HasStored
  <2>2. /\ row \in CompanyRow /\ row.stored /\ row.owners = {}
        /\ row.users = companies[SlugOf(u)].users \cup {u}
    BY <1>t, <2>1 DEF CompanyRow
  <2>3. row.users \cap Signups = {u}
    BY <2>1, <2>2
  <2>4. companies' = [companies EXCEPT ![SlugOf(u)] = row]
    BY <1>t, <1>5 DEF CreateOwner
  <2> HIDE DEF row
  <2> QED
    BY <2>0, <2>1, <2>2, <2>3, <2>4, SignupStores DEF HasStored
<1>6. ASSUME NEW u \in Signups, AssignOwnerRole(u) PROVE SignupInv'
  <2> DEFINE row == [companies[SlugOf(u)] EXCEPT !.owners = @ \cup {u}]
  <2>0. signups[u].pc = "role" /\ Now(u, [signups[u] EXCEPT !.pc = "tokens"])
    BY <1>6 DEF AssignOwnerRole, At
  <2>1. /\ SlugOf(u) \in AllSlugs /\ companies[SlugOf(u)].stored
        /\ companies[SlugOf(u)].users \cap Signups = {u} /\ companies[SlugOf(u)].owners = {}
        /\ \A v \in Signups \ {u} : signups[v].pc \in HasStored => SlugOf(v) # SlugOf(u)
    BY <1>4, <2>0 DEF Founding, HasStored
  <2>2. /\ row \in CompanyRow /\ row.stored /\ row.owners = {u}
        /\ row.users = companies[SlugOf(u)].users
    BY <1>t, <2>1 DEF CompanyRow
  <2>3. row.users \cap Signups = {u} /\ row.owners \cap Signups = {u}
    BY <2>1, <2>2
  <2>4. companies' = [companies EXCEPT ![SlugOf(u)] = row]
    BY <1>t, <1>6 DEF AssignOwnerRole
  <2> HIDE DEF row
  <2> QED
    BY <2>0, <2>1, <2>2, <2>3, <2>4, SignupStores DEF HasStored
<1>7. ASSUME NEW u \in Signups, NEW pc \in {"answered", "abandoned"}, UNCHANGED companies,
             Now(u, [signups[u] EXCEPT !.pc = pc]),
             signups[u].pc \in IF pc = "answered" THEN {"tokens"} ELSE {"owner", "role"}
      PROVE  SignupInv'
  <2> DEFINE row == companies[SlugOf(u)]
  <2>1. /\ SlugOf(u) \in AllSlugs /\ row.stored /\ row \in CompanyRow
        /\ Founding(u, row.users, row.owners)
        /\ \A v \in Signups \ {u} : signups[v].pc \in HasStored => SlugOf(v) # SlugOf(u)
    BY <1>t, <1>4, <1>7 DEF HasStored
  <2>2. companies' = [companies EXCEPT ![SlugOf(u)] = row]
    BY <1>t, <1>7
  <2> HIDE DEF row
  <2>3. pc = "answered" => row.users \cap Signups = {u} /\ row.owners \cap Signups = {u}
    BY <1>7, <2>1 DEF Founding
  <2>4. pc = "abandoned" => row.owners = {}
    BY <1>7, <2>1 DEF Founding
  <2>5. companies[SlugOf(u)].owners # {} => row.owners # {}
    BY DEF row
  <2>6. signups[u].pc # "none" /\ pc \in HasStored
    BY <1>7 DEF HasStored
  <2> QED
    BY <1>7, <2>1, <2>2, <2>3, <2>4, <2>5, <2>6, SignupStores
<1>8. ASSUME NEW u \in Signups, IssueTokens(u) PROVE SignupInv'
  BY <1>7, <1>8 DEF IssueTokens, At
<1>9. ASSUME NEW u \in Signups, SignupFails(u) PROVE SignupInv'
  <2>0. signups[u].pc \notin {"none", "answered", "refused", "cut", "abandoned"}
        /\ UNCHANGED companies
    BY <1>9 DEF SignupFails
  <2>1. CASE signups[u].pc \in {"owner", "role"}
    <3>1. Now(u, [signups[u] EXCEPT !.pc = "abandoned"])
      BY <1>9, <2>1 DEF SignupFails
    <3> QED
      BY <1>7, <2>0, <2>1, <3>1
  <2>2. CASE signups[u].pc \notin {"owner", "role"}
    <3>1. Now(u, [signups[u] EXCEPT !.pc = "cut"])
      BY <1>9, <2>2 DEF SignupFails
    <3>2. UNCHANGED invited /\ SlugOf(u) \in AllSlugs
      BY <2>0, <3>1 DEF Now, SignupInv
    <3> QED
      BY <2>0, <2>2, <3>1, <3>2, SignupMoves, SignupMovesOn DEF SignupPcs, HasStored
  <2> QED
    BY <2>1, <2>2
<1>10. ASSUME NEW i \in Invitees, NEW slug \in AllSlugs, InviteAsOwner(i, slug) PROVE SignupInv'
  <2> DEFINE row == [companies[slug] EXCEPT !.users = @ \cup {i}]
             call == [pc |-> "role", slug |-> slug]
  <2>1. /\ companies[slug].owners # {} /\ UNCHANGED signups
        /\ companies' = [companies EXCEPT ![slug] = row]
        /\ invited' = [invited EXCEPT ![i] = call]
    BY <1>t, <1>10 DEF InviteAsOwner
  <2>2. /\ row \in CompanyRow /\ row.stored = companies[slug].stored
        /\ row.owners = companies[slug].owners /\ row.users = companies[slug].users \cup {i}
    BY <1>t DEF CompanyRow
  <2>3. row.users \cap Signups = companies[slug].users \cap Signups
    BY <2>2, InviteesAssumption
  <2>4. call \in OwnerInvite /\ call.slug = slug
    BY DEF OwnerInvite
  <2> HIDE DEF row, call
  <2>5. /\ invited' \in [Invitees -> OwnerInvite]
        /\ \A j \in Invitees :
             invited'[j].pc = "role" => invited[j] = invited'[j] \/ invited'[j].slug = slug
    BY <1>t, <2>1, <2>4
  <2> QED
    BY <2>1, <2>2, <2>3, <2>5, InviteKeeps
<1>11. ASSUME NEW i \in Invitees, AssignInvitedRole(i) PROVE SignupInv'
  <2>1. invited[i] \in [pc : {"role", "done", "cut"}, slug : AllSlugs]
    BY <1>t, <1>11 DEF AssignInvitedRole, OwnerInvite, NotCalled
  <2>2. PICK slug \in AllSlugs : slug = invited[i].slug
    BY <2>1
  <2> DEFINE row == [companies[slug] EXCEPT !.owners = @ \cup {i}]
             call == [invited[i] EXCEPT !.pc = "done"]
  <2>3. /\ companies[slug].owners # {} /\ UNCHANGED signups
        /\ companies' = [companies EXCEPT ![slug] = row]
        /\ invited' = [invited EXCEPT ![i] = call]
    BY <1>t, <1>11, <2>2 DEF AssignInvitedRole, SignupInv
  <2>4. /\ row \in CompanyRow /\ row.stored = companies[slug].stored
        /\ row.users = companies[slug].users /\ row.owners = companies[slug].owners \cup {i}
    BY <1>t DEF CompanyRow
  <2>5. row.owners \cap Signups = companies[slug].owners \cap Signups
    BY <2>4, InviteesAssumption
  <2>6. call \in OwnerInvite /\ call.slug = slug
    BY <2>1, <2>2 DEF OwnerInvite
  <2> HIDE DEF row, call
  <2>7. /\ invited' \in [Invitees -> OwnerInvite]
        /\ \A j \in Invitees :
             invited'[j].pc = "role" => invited[j] = invited'[j] \/ invited'[j].slug = slug
    BY <1>t, <2>3, <2>6
  <2> QED
    BY <2>3, <2>4, <2>5, <2>7, InviteKeeps
<1>12. ASSUME NEW i \in Invitees, InviteAsOwnerFails(i) PROVE SignupInv'
  <2>1. /\ UNCHANGED <<companies, signups>> /\ invited[i].pc = "role"
        /\ invited' = [invited EXCEPT ![i].pc = "cut"]
    BY <1>12 DEF InviteAsOwnerFails
  <2>2. invited[i] \in [pc : {"role", "done", "cut"}, slug : AllSlugs]
    BY <1>t, <2>1 DEF OwnerInvite, NotCalled
  <2>3. invited' \in [Invitees -> OwnerInvite]
        /\ \A j \in Invitees : invited'[j].pc = "role" => invited'[j] = invited[j]
    BY <1>t, <2>1, <2>2 DEF OwnerInvite
  <2>4. \A u : SlugOf(u)' = SlugOf(u)
    BY <2>1 DEF SlugOf
  <2>5. \A s : Unfinished(s)' = Unfinished(s)
    BY <2>1, <2>4 DEF Unfinished
  <2>6. \A s \in AllSlugs : Owned(s)'
    BY <2>1, <2>5 DEF SignupInv, Owned
  <2>7. \A u \in Signups : signups[u].pc \in HasStored =>
          Founding(u, companies[SlugOf(u)].users, companies[SlugOf(u)].owners)'
    BY <2>1, <2>4 DEF SignupInv, Founding
  <2> QED
    BY <2>1, <2>3, <2>4, <2>6, <2>7 DEF SignupInv
<1>13. CASE UNCHANGED signupVars
  <2>1. \A u : SlugOf(u)' = SlugOf(u)
    BY <1>13 DEF signupVars, SlugOf
  <2>2. \A s : Unfinished(s)' = Unfinished(s)
    BY <1>13, <2>1 DEF signupVars, Unfinished
  <2> QED
    BY <1>13, <2>1, <2>2 DEF SignupInv, signupVars, Founding, Owned
<1> QED
  BY <1>1, <1>2, <1>3, <1>5, <1>6, <1>8, <1>9, <1>10, <1>11, <1>12, <1>13 DEF SignupNext

\* A company with an owner has one founder, its signup's caller, however many
\* people are invited as owners; it is without an owner only while its signup is
\* under way or because that was cut short.
THEOREM CompanyHasItsOwner == SignupSpec => []CompaniesAreOwned
<1>1. SignupInit => SignupInv
  BY DEF SignupInit, SignupInv, SignupCall, OwnerInvite, CompanyRow, Owned, NoCompany, NotCalled,
     HasStored
<1>2. ASSUME SignupInv PROVE CompaniesAreOwned
  <2>1. ASSUME NEW s \in AllSlugs, companies[s].owners # {}
        PROVE  Cardinality(companies[s].owners \cap Signups) = 1
    <3>1. PICK u \in Signups : companies[s].owners \cap Signups = {u}
      BY <1>2, <2>1 DEF SignupInv, Owned
    <3>2. Cardinality({u}) = 1
      BY FS_Singleton
    <3> QED
      BY <3>1, <3>2
  <2>2. ASSUME NEW u \in Signups, signups[u].pc = "answered"
        PROVE  companies[SlugOf(u)].users \cap Signups = {u} /\ u \in companies[SlugOf(u)].owners
    <3>1. Founding(u, companies[SlugOf(u)].users, companies[SlugOf(u)].owners)
      BY <1>2, <2>2 DEF SignupInv, HasStored
    <3>2. PICK users, owners : users = companies[SlugOf(u)].users /\ owners = companies[SlugOf(u)].owners
      OBVIOUS
    <3>3. users \cap Signups = {u} /\ owners \cap Signups = {u}
      BY <2>2, <3>1, <3>2 DEF Founding
    <3>4. u \in owners
      BY <3>3
    <3> QED
      BY <3>2, <3>3, <3>4
  <2>3. \A s \in AllSlugs :
          companies[s].stored /\ companies[s].owners = {} => Unfinished(s) # {}
    BY <1>2 DEF SignupInv, Owned
  <2> QED
    BY <2>1, <2>2, <2>3 DEF CompaniesAreOwned, At
<1> QED
  BY <1>1, <1>2, SignupInvStep, PTL DEF SignupSpec

----------------------------------------------------------------------------
(* Onboarding forms *)

ColumnValues == [Columns -> Nat]

SaveCall ==
  [pc : {"scalars"}, n : Nat, sent : Contents, filled : SUBSET Columns, before : ColumnValues,
   alone : BOOLEAN]
  \cup [pc : {"delete", "create"}, n : Nat, sent : Contents, filled : SUBSET Columns,
        before : ColumnValues, alone : BOOLEAN, i : DOMAIN Sections]
FormCall ==
  {FormIdle} \cup SaveCall \cup [pc : {"submit"}] \cup [pc : {"document"}, file : files]

\* A save has done with section s.
Replaced(call, s) ==
  /\ call.sent[s] = "filled" => rows[s] = {call.n}
  /\ call.sent[s] = "empty" => rows[s] = {}
  /\ call.sent[s] = "absent" => call.n \notin rows[s]

\* A save has done with the columns.
ColumnsSaved(call) ==
  \A f \in Columns : form.scalars[f] = IF f \in call.filled THEN call.n ELSE call.before[f]

\* How far a save has come that runs alone: it has done with the sections
\* before the one it is at, and the ones after it hold no row of its own.
HowFar(call) ==
  /\ call.pc = "scalars" =>
       /\ form.scalars = call.before
       /\ \A s \in SectionNames : call.n \notin rows[s]
  /\ call.pc \in {"delete", "create"} =>
       /\ ColumnsSaved(call)
       /\ \A j \in DOMAIN Sections :
            /\ j < call.i => Replaced(call, Sections[j])
            /\ j > call.i => call.n \notin rows[Sections[j]]
  /\ call.pc = "create" =>
       rows[Sections[call.i]] = {} /\ call.sent[Sections[call.i]] = "filled"

FormStatus == {"NOT_STARTED", "IN_PROGRESS", "SUBMITTED", "APPROVED", "REJECTED"}

FormShape ==
  /\ saves \in Nat
  /\ form \in [status : FormStatus, scalars : ColumnValues]
  /\ rows \in [SectionNames -> SUBSET Nat]
  /\ formCalls \in [FormCalls -> FormCall]

FormInv ==
  /\ FormShape
  /\ \A s \in SectionNames : \A n \in rows[s] : n <= saves
  /\ \A c \in FormCalls : Saving(c) => formCalls[c].n <= saves /\ lone = NoSave
  /\ \A c, d \in FormCalls : Saving(c) /\ Saving(d) /\ formCalls[c].alone => c = d
  /\ \A c \in FormCalls : Saving(c) /\ formCalls[c].alone => HowFar(formCalls[c])
  /\ FormIsWhole

\* What is kept of a save that ran alone.
Latest(call) ==
  [n |-> call.n, sent |-> call.sent, filled |-> call.filled, before |-> call.before]

\* Every section is at some place of the order.
LEMMA SectionsOrdered ==
  /\ DOMAIN Sections \subseteq Nat \ {0}
  /\ \A j \in DOMAIN Sections : Sections[j] \in SectionNames
  /\ \A s \in SectionNames : \E j \in DOMAIN Sections : s = Sections[j]
BY SectionsAssumption DEF SectionNames

\* What the pc of a call says.
LEMMA SaveFields ==
  ASSUME FormShape, NEW c \in FormCalls, Saving(c)
  PROVE  /\ formCalls[c] \in SaveCall
         /\ formCalls[c].pc \in {"delete", "create"} => formCalls[c].i \in DOMAIN Sections
BY DEF FormShape, Saving, FormCall, SaveCall, FormIdle

\* After a section a save either goes on to the next it names, having nothing
\* to do for the ones between, or it is answered.
LEMMA NextSectionMoves ==
  ASSUME FormShape, NEW c \in FormCalls, NEW call, call = formCalls[c], call \in SaveCall,
         NEW i \in Nat, NextSection(c, i)
  PROVE  /\ \A d \in FormCalls \ {c} : formCalls'[d] = formCalls[d]
         /\ formCalls' \in [FormCalls -> FormCall]
         /\ \/ /\ formCalls'[c] = FormIdle
               /\ \A j \in DOMAIN Sections : j > i => call.sent[Sections[j]] = "absent"
               /\ lone' = IF call.alone THEN Latest(call) ELSE NoSave
            \/ /\ formCalls'[c] \in SaveCall /\ formCalls'[c].pc = "delete"
               /\ formCalls'[c].n = call.n /\ formCalls'[c].sent = call.sent
               /\ formCalls'[c].filled = call.filled /\ formCalls'[c].before = call.before
               /\ formCalls'[c].alone = call.alone /\ formCalls'[c].i \in DOMAIN Sections
               /\ \A j \in DOMAIN Sections :
                    i < j /\ j < formCalls'[c].i => call.sent[Sections[j]] = "absent"
               /\ i < formCalls'[c].i
               /\ lone' = lone
<1> DEFINE left == Remaining(call, i)
           k == CHOOSE j \in left : \A m \in left : j <= m
<1>1. CASE left = {}
  <2>1. formCalls' = [formCalls EXCEPT ![c] = FormIdle]
    BY <1>1 DEF NextSection, FormReturn
  <2>2. lone' = IF call.alone THEN Latest(call) ELSE NoSave
    BY <1>1 DEF NextSection, Latest
  <2>3. \A j \in DOMAIN Sections : j > i => call.sent[Sections[j]] = "absent"
    BY <1>1 DEF Remaining
  <2> QED
    BY <2>1, <2>2, <2>3 DEF FormShape, FormCall
<1>2. CASE left # {}
  <2>1. k \in left /\ \A m \in left : k <= m
    <3>1. left \in SUBSET Nat
      BY SectionsOrdered DEF Remaining
    <3> HIDE DEF left
    <3>2. \E j \in left : \A m \in left : j <= m
      BY <1>2, <3>1, Least
    <3> QED
      BY <3>2
  <2> DEFINE next == [pc |-> "delete", n |-> call.n, sent |-> call.sent, filled |-> call.filled,
                       before |-> call.before, alone |-> call.alone, i |-> k]
  <2>2. formCalls' = [formCalls EXCEPT ![c] = next] /\ lone' = lone
    BY <1>2 DEF NextSection
  <2>3. k \in DOMAIN Sections /\ i < k
    BY <2>1 DEF Remaining
  <2>4. \A j \in DOMAIN Sections : i < j /\ j < k => call.sent[Sections[j]] = "absent"
    <3>1. ASSUME NEW j \in DOMAIN Sections, i < j, j < k, call.sent[Sections[j]] # "absent"
          PROVE  FALSE
      <4>1. j \in left
        BY <3>1 DEF Remaining
      <4>2. k <= j /\ k \in Nat /\ j \in Nat
        BY <2>1, <2>3, <4>1, SectionsOrdered
      <4> HIDE DEF k
      <4> QED
        BY <3>1, <4>2
    <3> QED
      BY <3>1
  <2> HIDE DEF k
  <2>5. /\ next \in SaveCall /\ next.pc = "delete" /\ next.n = call.n /\ next.sent = call.sent
        /\ next.filled = call.filled /\ next.before = call.before
        /\ next.alone = call.alone /\ next.i = k
    BY <2>3 DEF SaveCall
  <2> HIDE DEF next
  <2> QED
    BY <2>2, <2>3, <2>4, <2>5 DEF FormShape, FormCall
<1> QED
  BY <1>1, <1>2

\* A step of a save ends with the section after i: what came before is done.
LEMMA SaveGoesOn ==
  ASSUME FormInv, NEW c \in FormCalls, Saving(c), NEW call, call = formCalls[c],
         NEW i \in Nat, NextSection(c, i), UNCHANGED <<files, documents, saves>>,
         form' \in [status : FormStatus, scalars : ColumnValues], rows' \in [SectionNames -> SUBSET Nat],
         \A s \in SectionNames : \A n \in rows'[s] : n <= saves,
         call.alone =>
           /\ ColumnsSaved(call)'
           /\ \A j \in DOMAIN Sections :
                /\ j <= i => Replaced(call, Sections[j])'
                /\ j > i => call.n \notin rows'[Sections[j]]
  PROVE  FormInv'
<1>0. FormShape /\ call \in SaveCall /\ call.n <= saves /\ lone = NoSave
  BY SaveFields DEF FormInv
<1>1. /\ \A d \in FormCalls \ {c} : formCalls'[d] = formCalls[d]
      /\ formCalls' \in [FormCalls -> FormCall]
      /\ \/ /\ formCalls'[c] = FormIdle
            /\ \A j \in DOMAIN Sections : j > i => call.sent[Sections[j]] = "absent"
            /\ lone' = IF call.alone THEN Latest(call) ELSE NoSave
         \/ /\ formCalls'[c] \in SaveCall /\ formCalls'[c].pc = "delete"
            /\ formCalls'[c].n = call.n /\ formCalls'[c].sent = call.sent
            /\ formCalls'[c].filled = call.filled /\ formCalls'[c].before = call.before
            /\ formCalls'[c].alone = call.alone /\ formCalls'[c].i \in DOMAIN Sections
            /\ \A j \in DOMAIN Sections :
                 i < j /\ j < formCalls'[c].i => call.sent[Sections[j]] = "absent"
            /\ i < formCalls'[c].i
            /\ lone' = lone
  BY <1>0, NextSectionMoves
<1>2. FormShape'
  <2>1. FormCall' = FormCall
    BY DEF FormCall
  <2> QED
    BY <1>0, <1>1, <2>1 DEF FormShape
<1>3. \A d \in FormCalls \ {c} : Saving(d)' => Saving(d) /\ (formCalls[d].alone => FALSE)
  BY <1>1 DEF FormInv, Saving
<1>4. documents' \subseteq files'
  BY DEF FormInv, FormIsWhole
<1>5. CASE /\ formCalls'[c] = FormIdle
           /\ \A j \in DOMAIN Sections : j > i => call.sent[Sections[j]] = "absent"
           /\ lone' = IF call.alone THEN Latest(call) ELSE NoSave
  <2>1. ~Saving(c)'
    BY <1>5 DEF Saving, FormIdle
  <2>2. CASE call.alone
    <3>1. \A d \in FormCalls : ~Saving(d)'
      BY <1>3, <2>1, <2>2 DEF FormInv
    <3>2. /\ lone'.n = call.n /\ lone'.sent = call.sent
          /\ lone'.filled = call.filled /\ lone'.before = call.before
      BY <1>5, <2>2 DEF Latest
    <3>3. ASSUME NEW s \in SectionNames PROVE Replaced(call, s)'
      <4>1. PICK j \in DOMAIN Sections : s = Sections[j]
        BY SectionsOrdered
      <4>2. CASE j <= i
        BY <2>2, <4>1, <4>2
      <4>3. CASE j > i
        BY <1>5, <2>2, <4>1, <4>3 DEF Replaced
      <4>4. j \in Nat
        BY SectionsOrdered
      <4> QED
        BY <4>2, <4>3, <4>4
    <3>4. FormIsWhole'
      BY <1>4, <2>2, <3>2, <3>3 DEF FormIsWhole, Replaced, ColumnsSaved
    <3> QED
      BY <1>2, <3>1, <3>4 DEF FormInv
  <2>3. CASE ~call.alone
    <3>1. lone' = NoSave
      BY <1>5, <2>3
    <3>2. FormIsWhole'
      BY <1>4, <3>1 DEF FormIsWhole
    <3>3. \A d \in FormCalls : Saving(d)' => d # c /\ Saving(d) /\ ~formCalls[d].alone
      BY <1>3, <2>1
    <3> QED
      BY <1>1, <1>2, <3>1, <3>2, <3>3 DEF FormInv
  <2> QED
    BY <2>2, <2>3
<1>6. CASE /\ formCalls'[c] \in SaveCall /\ formCalls'[c].pc = "delete"
           /\ formCalls'[c].n = call.n /\ formCalls'[c].sent = call.sent
           /\ formCalls'[c].filled = call.filled /\ formCalls'[c].before = call.before
           /\ formCalls'[c].alone = call.alone /\ formCalls'[c].i \in DOMAIN Sections
           /\ \A j \in DOMAIN Sections :
                i < j /\ j < formCalls'[c].i => call.sent[Sections[j]] = "absent"
           /\ i < formCalls'[c].i
           /\ lone' = lone
  <2>1. lone' = NoSave /\ FormIsWhole'
    BY <1>0, <1>4, <1>6 DEF FormIsWhole
  <2>2. call.alone => HowFar(formCalls[c])'
    <3> SUFFICES ASSUME call.alone PROVE HowFar(formCalls[c])'
      OBVIOUS
    <3>1. PICK k \in DOMAIN Sections : k = formCalls'[c].i
      BY <1>6
    <3>2. ASSUME NEW j \in DOMAIN Sections, j < k PROVE Replaced(call, Sections[j])'
      <4>1. j \in Nat
        BY SectionsOrdered
      <4>2. CASE j <= i
        BY <4>2
      <4>3. CASE i < j
        BY <1>6, <3>1, <3>2, <4>3 DEF Replaced
      <4> QED
        BY <4>1, <4>2, <4>3
    <3>3. \A j \in DOMAIN Sections : j > k => call.n \notin rows'[Sections[j]]
      BY <1>6, <3>1, SectionsOrdered
    <3>4. \A j \in DOMAIN Sections : j < k => Replaced(formCalls[c], Sections[j])'
      BY <1>6, <3>2 DEF Replaced
    <3>5. ColumnsSaved(formCalls[c])'
      BY <1>6 DEF ColumnsSaved
    <3> QED
      BY <1>6, <3>1, <3>3, <3>4, <3>5 DEF HowFar
  <2>3. \A d \in FormCalls : Saving(d)' => Saving(d)
    BY <1>3
  <2>4. \A d, e \in FormCalls : Saving(d)' /\ Saving(e)' /\ formCalls'[d].alone => d = e
    <3>1. \A d \in FormCalls \ {c} : Saving(d)' => ~formCalls'[d].alone
      BY <1>1, <1>3
    <3>2. formCalls'[c].alone => \A d \in FormCalls : Saving(d) => d = c
      BY <1>6 DEF FormInv
    <3> QED
      BY <2>3, <3>1, <3>2
  <2>5. \A d \in FormCalls : Saving(d)' /\ formCalls'[d].alone => HowFar(formCalls[d])'
    <3>1. \A d \in FormCalls \ {c} : Saving(d)' => ~formCalls'[d].alone
      BY <1>1, <1>3
    <3> QED
      BY <1>6, <2>2, <3>1
  <2>6. \A d \in FormCalls : Saving(d)' => formCalls'[d].n <= saves' /\ lone' = NoSave
    BY <1>0, <1>1, <1>6, <2>1, <2>3 DEF FormInv
  <2> QED
    BY <1>2, <2>1, <2>4, <2>5, <2>6 DEF FormInv
<1> QED
  BY <1>1, <1>5, <1>6

\* A step that leaves the saves under way and what they wrote alone.
LEMMA SavesUntouched ==
  ASSUME FormInv, FormShape', UNCHANGED <<rows, saves, lone>>, form'.scalars = form.scalars,
         \A c \in FormCalls : Saving(c)' => Saving(c) /\ formCalls'[c] = formCalls[c],
         documents' \subseteq files'
  PROVE  FormInv'
<1>1. FormIsWhole'
  BY DEF FormInv, FormIsWhole
<1>2. ASSUME NEW c \in FormCalls, Saving(c)', formCalls'[c].alone PROVE HowFar(formCalls[c])'
  <2>1. HowFar(formCalls[c]) /\ formCalls'[c] = formCalls[c]
    BY <1>2 DEF FormInv
  <2> QED
    BY <2>1 DEF HowFar, Replaced, ColumnsSaved
<1>3. \A c \in FormCalls : Saving(c)' => formCalls'[c].n <= saves' /\ lone' = NoSave
  BY DEF FormInv
<1>4. \A c, d \in FormCalls : Saving(c)' /\ Saving(d)' /\ formCalls'[c].alone => c = d
  BY DEF FormInv
<1> QED
  BY <1>1, <1>2, <1>3, <1>4 DEF FormInv

\* A call that is no save starts or ends: the saves go on as they were.
LEMMA OtherCall ==
  ASSUME FormShape, NEW c \in FormCalls, NEW call, call \in FormCall', call.pc \notin
           {"scalars", "delete", "create"},
         formCalls' = [formCalls EXCEPT ![c] = call], files \subseteq files',
         UNCHANGED <<rows, saves>>, form' \in [status : FormStatus, scalars : ColumnValues]
  PROVE  /\ FormShape'
         /\ \A d \in FormCalls : Saving(d)' => Saving(d) /\ formCalls'[d] = formCalls[d]
<1>1. \A d \in FormCalls : formCalls'[d] = IF d = c THEN call ELSE formCalls[d]
  BY DEF FormShape
<1>2. FormCall \subseteq FormCall'
  BY DEF FormCall
<1>3. formCalls' \in [FormCalls -> FormCall']
  <2>1. formCalls' \in [FormCalls -> FormCall \cup FormCall']
    BY DEF FormShape
  <2> QED
    BY <1>2, <2>1
<1> QED
  BY <1>1, <1>3 DEF FormShape, Saving

\* A new save: it is alone if no other is under way, and no other is any more.
LEMMA SaveStartKeeps ==
  ASSUME FormInv, NEW c \in FormCalls, SaveStart(c)
  PROVE  FormInv'
<1> DEFINE others == {d \in FormCalls : Saving(d)}
<1>0. FormShape
  BY DEF FormInv
<1>1. /\ saves' = saves + 1 /\ lone' = NoSave /\ formCalls[c] = FormIdle
      /\ UNCHANGED <<form, rows, files, documents, cuts>>
  BY DEF SaveStart
<1>2. PICK sent \in Contents, filled \in SUBSET Columns :
        formCalls' =
          [d \in FormCalls |->
             IF d = c THEN [pc |-> "scalars", n |-> saves', sent |-> sent, filled |-> filled,
                            before |-> form.scalars, alone |-> others = {}]
             ELSE IF d \in others THEN [formCalls[d] EXCEPT !.alone = FALSE]
             ELSE formCalls[d]]
  BY DEF SaveStart
<1>3. /\ formCalls'[c] \in SaveCall /\ formCalls'[c].pc = "scalars"
      /\ formCalls'[c].n = saves' /\ formCalls'[c].before = form.scalars
  <2>1. formCalls'[c] = [pc |-> "scalars", n |-> saves', sent |-> sent, filled |-> filled,
                         before |-> form.scalars, alone |-> others = {}]
    BY <1>2
  <2>2. saves' \in Nat /\ (others = {}) \in BOOLEAN /\ form.scalars \in ColumnValues
    BY <1>0, <1>1 DEF FormShape
  <2> QED
    BY <2>1, <2>2 DEF SaveCall
<1>4. formCalls'[c].alone => \A d \in FormCalls : ~Saving(d)
  <2>1. formCalls'[c].alone = (others = {})
    BY <1>2
  <2> QED
    BY <2>1
<1>5. ASSUME NEW d \in FormCalls \ {c}, Saving(d)
      PROVE  /\ formCalls'[d] \in SaveCall /\ ~formCalls'[d].alone
             /\ formCalls'[d].n = formCalls[d].n
  <2>1. formCalls'[d] = [formCalls[d] EXCEPT !.alone = FALSE]
    BY <1>2, <1>5
  <2>2. formCalls[d] \in SaveCall
    BY <1>0, <1>5, SaveFields
  <2> QED
    BY <2>1, <2>2 DEF SaveCall
<1>6. ASSUME NEW d \in FormCalls \ {c}, ~Saving(d)
      PROVE  formCalls'[d] = formCalls[d] /\ ~Saving(d)'
  BY <1>2, <1>6 DEF Saving
<1>7. FormShape'
  <2>1. FormCall' = FormCall
    BY <1>1 DEF FormCall
  <2>2. \A d \in FormCalls : formCalls'[d] \in FormCall
    BY <1>0, <1>3, <1>5, <1>6 DEF FormCall, FormShape
  <2>3. formCalls' \in [FormCalls -> FormCall]
    <3>1. formCalls' = [d \in FormCalls |-> formCalls'[d]]
      BY <1>2
    <3> QED
      BY <2>2, <3>1
  <2> QED
    BY <1>0, <1>1, <2>1, <2>3 DEF FormShape
<1>8. \A s \in SectionNames : \A n \in rows'[s] : n <= saves' /\ n # saves'
  <2>1. \A s \in SectionNames : \A n \in rows[s] : n \in Nat /\ n <= saves
    BY <1>0 DEF FormInv, FormShape
  <2> QED
    BY <1>0, <1>1, <2>1 DEF FormShape
<1>9. \A d \in FormCalls : Saving(d)' => formCalls'[d].n <= saves'
  <2>1. \A d \in FormCalls \ {c} : Saving(d) => formCalls[d].n \in Nat /\ formCalls[d].n <= saves
    BY <1>0, SaveFields DEF FormInv, SaveCall
  <2>2. \A d \in FormCalls \ {c} : Saving(d) => formCalls'[d].n <= saves'
    BY <1>0, <1>1, <1>5, <2>1 DEF FormShape
  <2>3. formCalls'[c].n <= saves'
    BY <1>0, <1>1, <1>3 DEF FormShape
  <2> QED
    BY <1>6, <2>2, <2>3
<1>10. \A d \in FormCalls \ {c} : Saving(d)' => ~formCalls'[d].alone
  BY <1>5, <1>6
<1>11. HowFar(formCalls[c])'
  BY <1>1, <1>3, <1>8 DEF HowFar
<1>12. FormIsWhole'
  BY <1>1 DEF FormInv, FormIsWhole
<1>13. \A d, e \in FormCalls : Saving(d)' /\ Saving(e)' /\ formCalls'[d].alone => d = e
  BY <1>4, <1>6, <1>10
<1> QED
  BY <1>1, <1>7, <1>8, <1>9, <1>10, <1>11, <1>12, <1>13 DEF FormInv

\* The scalar columns are written: no section is done with yet.
LEMMA SaveScalarsKeeps ==
  ASSUME FormInv, NEW c \in FormCalls, SaveScalars(c)
  PROVE  FormInv'
<1>0. FormShape /\ Saving(c)
  BY DEF FormInv, SaveScalars, Saving
<1>1. PICK call \in SaveCall : call = formCalls[c]
  BY <1>0, SaveFields
<1>2. /\ form' = [status |-> "IN_PROGRESS",
                  scalars |-> FilledIn(form.scalars, call.filled, call.n)]
      /\ NextSection(c, 0)
      /\ UNCHANGED <<rows, files, documents, saves>> /\ call.pc = "scalars"
  BY <1>1 DEF SaveScalars
<1>3. /\ form' \in [status : FormStatus, scalars : ColumnValues]
      /\ form'.scalars = FilledIn(form.scalars, call.filled, call.n)
  <2>1. form.scalars \in ColumnValues /\ call.n \in Nat
    BY <1>0, <1>1 DEF FormShape, SaveCall
  <2>2. FilledIn(form.scalars, call.filled, call.n) \in ColumnValues
    BY <2>1 DEF FilledIn, ColumnValues
  <2> QED
    BY <1>2, <2>2 DEF FormStatus
<1>4. call.alone =>
        ColumnsSaved(call)' /\ \A s \in SectionNames : call.n \notin rows'[s]
  <2> SUFFICES ASSUME call.alone
               PROVE  ColumnsSaved(call)' /\ \A s \in SectionNames : call.n \notin rows'[s]
    OBVIOUS
  <2>1. form.scalars = call.before /\ \A s \in SectionNames : call.n \notin rows'[s]
    BY <1>0, <1>1, <1>2 DEF FormInv, HowFar
  <2> QED
    BY <1>3, <2>1 DEF ColumnsSaved, FilledIn
<1>5. /\ rows' \in [SectionNames -> SUBSET Nat]
      /\ \A s \in SectionNames : \A n \in rows'[s] : n <= saves
  BY <1>0, <1>2 DEF FormInv, FormShape
<1>6. call.alone => \A j \in DOMAIN Sections :
                      /\ j <= 0 => Replaced(call, Sections[j])'
                      /\ j > 0 => call.n \notin rows'[Sections[j]]
  BY <1>4, SectionsOrdered
<1>7. 0 \in Nat
  OBVIOUS
<1> QED
  BY <1>0, <1>1, <1>2, <1>3, <1>4, <1>5, <1>6, <1>7, SaveGoesOn

\* A section is emptied, to be filled next or done with.
LEMMA DeleteRowsKeeps ==
  ASSUME FormInv, NEW c \in FormCalls, DeleteRows(c)
  PROVE  FormInv'
<1>0. FormShape /\ Saving(c)
  BY DEF FormInv, DeleteRows, Saving
<1>1. PICK call \in SaveCall : call = formCalls[c]
  BY <1>0, SaveFields
<1>2. PICK i \in DOMAIN Sections : i = call.i
  BY <1>0, <1>1, SaveFields DEF DeleteRows
<1>3. PICK s \in SectionNames : s = Sections[i]
  BY SectionsOrdered
<1>4. /\ rows' = [rows EXCEPT ![s] = {}] /\ call.pc = "delete"
      /\ UNCHANGED <<form, files, documents, saves>>
      /\ IF call.sent[s] = "filled"
         THEN formCalls' = [formCalls EXCEPT ![c].pc = "create"] /\ UNCHANGED lone
         ELSE NextSection(c, i)
  BY <1>1, <1>2, <1>3 DEF DeleteRows, LeftByDelete
<1>5. /\ rows' \in [SectionNames -> SUBSET Nat] /\ rows'[s] = {}
      /\ \A t \in SectionNames \ {s} : rows'[t] = rows[t]
  BY <1>0, <1>4 DEF FormShape
<1>6. \A t \in SectionNames : \A n \in rows'[t] : n <= saves
  BY <1>5 DEF FormInv
<1>7. call.alone =>
        /\ ColumnsSaved(call)
        /\ \A j \in DOMAIN Sections :
             /\ j < i => Replaced(call, Sections[j])'
             /\ j > i => call.n \notin rows'[Sections[j]]
  <2> SUFFICES ASSUME call.alone
               PROVE  /\ ColumnsSaved(call)
                      /\ \A j \in DOMAIN Sections :
                           /\ j < i => Replaced(call, Sections[j])'
                           /\ j > i => call.n \notin rows'[Sections[j]]
    OBVIOUS
  <2>1. HowFar(call)
    BY <1>0, <1>1 DEF FormInv
  <2>2. \A j \in DOMAIN Sections : j \in Nat /\ (j # i => Sections[j] \in SectionNames \ {s})
    BY <1>3, SectionsOrdered, SectionsAssumption
  <2>3. \A j \in DOMAIN Sections :
          /\ j < i => Replaced(call, Sections[j])
          /\ j > i => call.n \notin rows[Sections[j]]
    BY <1>2, <1>4, <2>1 DEF HowFar
  <2>4. \A j \in DOMAIN Sections : j # i => rows'[Sections[j]] = rows[Sections[j]]
    BY <1>5, <2>2
  <2>5. i \in Nat
    BY <2>2
  <2> QED
    BY <1>2, <1>4, <2>1, <2>2, <2>3, <2>4, <2>5 DEF HowFar, Replaced, ColumnsSaved
<1>8. CASE call.sent[s] = "filled"
  <2>1. /\ \A d \in FormCalls \ {c} : formCalls'[d] = formCalls[d]
        /\ formCalls'[c].pc = "create" /\ formCalls'[c].n = call.n /\ formCalls'[c].i = i
        /\ formCalls'[c].sent = call.sent /\ formCalls'[c].alone = call.alone
        /\ formCalls'[c].filled = call.filled /\ formCalls'[c].before = call.before
        /\ formCalls'[c] \in SaveCall /\ lone' = lone
    <3>1. formCalls' = [formCalls EXCEPT ![c].pc = "create"] /\ lone' = lone
      BY <1>4, <1>8
    <3>2. formCalls'[c] = [call EXCEPT !.pc = "create"]
      BY <1>0, <1>1, <3>1 DEF FormShape
    <3>3. call \in [pc : {"delete", "create"}, n : Nat, sent : Contents, filled : SUBSET Columns,
                    before : ColumnValues, alone : BOOLEAN, i : DOMAIN Sections]
      BY <1>1, <1>4 DEF SaveCall
    <3> QED
      BY <1>0, <1>2, <3>1, <3>2, <3>3 DEF FormShape, SaveCall
  <2>2. FormShape'
    <3>1. FormCall' = FormCall
      BY <1>4 DEF FormCall
    <3>2. formCalls' \in [FormCalls -> FormCall]
      <4>1. formCalls' = [formCalls EXCEPT ![c].pc = "create"]
        BY <1>4, <1>8
      <4>2. formCalls' = [formCalls EXCEPT ![c] = formCalls'[c]]
        BY <1>0, <4>1 DEF FormShape
      <4> QED
        BY <1>0, <2>1, <4>2 DEF FormShape, FormCall
    <3> QED
      BY <1>0, <1>4, <1>5, <3>1, <3>2 DEF FormShape
  <2>3. \A d \in FormCalls : Saving(d)' => Saving(d)
    BY <1>0, <2>1 DEF Saving
  <2>4. lone = NoSave
    BY <1>0 DEF FormInv
  <2>5. FormIsWhole'
    BY <1>4, <2>1, <2>4 DEF FormInv, FormIsWhole
  <2>6. \A d \in FormCalls : Saving(d)' => formCalls'[d].n <= saves' /\ lone' = NoSave
    BY <1>0, <1>1, <1>4, <2>1, <2>3, <2>4 DEF FormInv
  <2>7. \A d, e \in FormCalls : Saving(d)' /\ Saving(e)' /\ formCalls'[d].alone => d = e
    BY <1>0, <1>1, <2>1, <2>3 DEF FormInv
  <2>8. \A d \in FormCalls \ {c} : Saving(d)' => ~formCalls'[d].alone
    BY <1>0, <2>1, <2>3 DEF FormInv
  <2>9. call.alone => HowFar(formCalls[c])'
    <3>1. call.alone => \A j \in DOMAIN Sections : j < i => Replaced(formCalls[c], Sections[j])'
      BY <1>7, <2>1 DEF Replaced
    <3>2. call.alone => ColumnsSaved(formCalls[c])'
      BY <1>4, <1>7, <2>1 DEF ColumnsSaved
    <3> QED
      BY <1>3, <1>4, <1>5, <1>7, <1>8, <2>1, <3>1, <3>2 DEF HowFar
  <2> QED
    BY <1>4, <1>6, <2>1, <2>2, <2>5, <2>6, <2>7, <2>8, <2>9 DEF FormInv
<1>9. CASE call.sent[s] # "filled"
  <2>1. NextSection(c, i) /\ i \in Nat /\ form' \in [status : FormStatus, scalars : ColumnValues]
    BY <1>0, <1>4, <1>9, SectionsOrdered DEF FormShape
  <2>2. Replaced(call, s)'
    BY <1>5, <1>9 DEF Replaced
  <2>3. call.alone =>
          /\ ColumnsSaved(call)'
          /\ \A j \in DOMAIN Sections :
               /\ j <= i => Replaced(call, Sections[j])'
               /\ j > i => call.n \notin rows'[Sections[j]]
    <3>1. \A j \in DOMAIN Sections : j \in Nat
      BY SectionsOrdered
    <3>2. call.alone => ColumnsSaved(call)'
      BY <1>4, <1>7 DEF ColumnsSaved
    <3> QED
      BY <1>3, <1>4, <1>7, <2>1, <2>2, <3>1, <3>2
  <2> QED
    BY <1>0, <1>1, <1>4, <1>5, <1>6, <2>1, <2>3, SaveGoesOn
<1> QED
  BY <1>8, <1>9

\* A section is filled: with this save's rows alone, if no other save runs.
LEMMA CreateRowsKeeps ==
  ASSUME FormInv, NEW c \in FormCalls, CreateRows(c)
  PROVE  FormInv'
<1>0. FormShape /\ Saving(c)
  BY DEF FormInv, CreateRows, Saving
<1>1. PICK call \in SaveCall : call = formCalls[c]
  BY <1>0, SaveFields
<1>2. PICK i \in DOMAIN Sections : i = call.i
  BY <1>0, <1>1, SaveFields DEF CreateRows
<1>3. PICK s \in SectionNames : s = Sections[i]
  BY SectionsOrdered
<1>4. /\ rows' = [rows EXCEPT ![s] = rows[s] \cup {call.n}] /\ call.pc = "create"
      /\ NextSection(c, i) /\ UNCHANGED <<form, files, documents, saves>>
  BY <1>1, <1>2, <1>3 DEF CreateRows
<1>5. call.n \in Nat /\ call.n <= saves
  BY <1>0, <1>1 DEF FormInv, SaveCall
<1>6. /\ rows' \in [SectionNames -> SUBSET Nat] /\ rows'[s] = rows[s] \cup {call.n}
      /\ \A t \in SectionNames \ {s} : rows'[t] = rows[t]
  BY <1>0, <1>4, <1>5 DEF FormShape
<1>7. \A t \in SectionNames : \A n \in rows'[t] : n <= saves
  BY <1>5, <1>6 DEF FormInv
<1>8. call.alone =>
        /\ ColumnsSaved(call)
        /\ \A j \in DOMAIN Sections :
             /\ j <= i => Replaced(call, Sections[j])'
             /\ j > i => call.n \notin rows'[Sections[j]]
  <2> SUFFICES ASSUME call.alone
               PROVE  /\ ColumnsSaved(call)
                      /\ \A j \in DOMAIN Sections :
                           /\ j <= i => Replaced(call, Sections[j])'
                           /\ j > i => call.n \notin rows'[Sections[j]]
    OBVIOUS
  <2>1. HowFar(call)
    BY <1>0, <1>1 DEF FormInv
  <2>2. \A j \in DOMAIN Sections : j \in Nat /\ (j # i => Sections[j] \in SectionNames \ {s})
    BY <1>3, SectionsOrdered, SectionsAssumption
  <2>3. \A j \in DOMAIN Sections :
          /\ j < i => Replaced(call, Sections[j])
          /\ j > i => call.n \notin rows[Sections[j]]
    BY <1>2, <1>4, <2>1 DEF HowFar
  <2>4. \A j \in DOMAIN Sections : j # i => rows'[Sections[j]] = rows[Sections[j]]
    BY <1>6, <2>2
  <2>5. ColumnsSaved(call) /\ rows[s] = {} /\ call.sent[s] = "filled"
    BY <1>2, <1>3, <1>4, <2>1 DEF HowFar
  <2>6. Replaced(call, s)'
    BY <1>6, <2>5 DEF Replaced
  <2>7. \A j \in DOMAIN Sections : j < i => Replaced(call, Sections[j])'
    BY <2>2, <2>3, <2>4 DEF Replaced
  <2> QED
    BY <1>3, <2>2, <2>3, <2>4, <2>5, <2>6, <2>7
<1>9. /\ i \in Nat /\ form' \in [status : FormStatus, scalars : ColumnValues]
      /\ call.alone => ColumnsSaved(call)'
  BY <1>0, <1>4, <1>8, SectionsOrdered DEF FormShape, ColumnsSaved
<1> QED
  BY <1>0, <1>1, <1>4, <1>6, <1>7, <1>8, <1>9, SaveGoesOn

\* Every step of a form keeps the invariant.
LEMMA FormInvStep == FormInv /\ [FormNext]_formVars => FormInv'
<1> SUFFICES ASSUME FormInv, [FormNext]_formVars PROVE FormInv'
  OBVIOUS
<1>0. FormShape /\ documents \subseteq files
  BY DEF FormInv, FormIsWhole
<1>1. FormIdle \in FormCall' /\ FormIdle.pc = "idle"
  BY DEF FormCall, FormIdle
<1>2. form \in [status : FormStatus, scalars : ColumnValues]
  BY <1>0 DEF FormShape
<1>3. ASSUME NEW c \in FormCalls, SubmitStart(c) PROVE FormInv'
  <2> DEFINE call == [pc |-> "submit"]
  <2>1. call \in FormCall' /\ call.pc = "submit"
    BY DEF FormCall
  <2>2. /\ formCalls' = [formCalls EXCEPT ![c] = call]
        /\ UNCHANGED <<form, rows, files, documents, saves, lone>>
    BY <1>3 DEF SubmitStart, FormStart
  <2> HIDE DEF call
  <2>3. FormShape' /\ \A d \in FormCalls : Saving(d)' => Saving(d) /\ formCalls'[d] = formCalls[d]
    BY <1>0, <1>2, <2>1, <2>2, OtherCall
  <2> QED
    BY <1>0, <2>2, <2>3, SavesUntouched
<1>4. ASSUME NEW c \in FormCalls, Submit(c) PROVE FormInv'
  <2>1. /\ formCalls' = [formCalls EXCEPT ![c] = FormIdle]
        /\ UNCHANGED <<rows, files, documents, saves, lone>>
        /\ form' = [form EXCEPT !.status = "SUBMITTED"]
    BY <1>4 DEF Submit, FormReturn
  <2>2. form' \in [status : FormStatus, scalars : ColumnValues] /\ form'.scalars = form.scalars
    BY <1>2, <2>1 DEF FormStatus
  <2>3. FormShape' /\ \A d \in FormCalls : Saving(d)' => Saving(d) /\ formCalls'[d] = formCalls[d]
    BY <1>0, <1>1, <2>1, <2>2, OtherCall
  <2> QED
    BY <1>0, <2>1, <2>2, <2>3, SavesUntouched
<1>5. ASSUME NEW c \in FormCalls, ReviewForm(c) PROVE FormInv'
  <2>1. UNCHANGED <<rows, files, documents, formCalls, saves, lone>>
    BY <1>5 DEF ReviewForm
  <2>2. form' \in [status : FormStatus, scalars : ColumnValues] /\ form'.scalars = form.scalars
    BY <1>2, <1>5 DEF ReviewForm, FormStatus
  <2>3. FormShape' /\ \A d \in FormCalls : Saving(d)' => Saving(d) /\ formCalls'[d] = formCalls[d]
    BY <1>0, <2>1, <2>2 DEF FormShape, FormCall, Saving
  <2> QED
    BY <1>0, <2>1, <2>2, <2>3, SavesUntouched
<1>6. ASSUME NEW c \in FormCalls, UploadStart(c) PROVE FormInv'
  <2>1. PICK file : file = Cardinality(files) + 1
    OBVIOUS
  <2> DEFINE call == [pc |-> "document", file |-> file]
  <2>2. /\ formCalls' = [formCalls EXCEPT ![c] = call] /\ files' = files \cup {file}
        /\ UNCHANGED <<form, rows, documents, saves, lone>>
    BY <1>6, <2>1 DEF UploadStart, FormStart
  <2>3. call \in FormCall' /\ call.pc = "document"
    BY <2>2 DEF FormCall
  <2> HIDE DEF call
  <2>4. FormShape' /\ \A d \in FormCalls : Saving(d)' => Saving(d) /\ formCalls'[d] = formCalls[d]
    BY <1>0, <1>2, <2>2, <2>3, OtherCall
  <2> QED
    BY <1>0, <2>2, <2>4, SavesUntouched
<1>7. ASSUME NEW c \in FormCalls, UploadDocument(c) PROVE FormInv'
  <2>1. /\ formCalls' = [formCalls EXCEPT ![c] = FormIdle]
        /\ documents' = documents \cup {formCalls[c].file}
        /\ UNCHANGED <<form, rows, files, saves, lone>> /\ formCalls[c].pc = "document"
    BY <1>7 DEF UploadDocument, FormReturn
  <2>2. formCalls[c].file \in files
    BY <1>0, <2>1 DEF FormShape, FormCall, SaveCall, FormIdle
  <2>3. FormShape' /\ \A d \in FormCalls : Saving(d)' => Saving(d) /\ formCalls'[d] = formCalls[d]
    BY <1>0, <1>1, <1>2, <2>1, OtherCall
  <2> QED
    BY <1>0, <2>1, <2>2, <2>3, SavesUntouched
<1>8. ASSUME NEW c \in FormCalls, FormCut(c) PROVE FormInv'
  <2>1. /\ formCalls' = [formCalls EXCEPT ![c] = FormIdle]
        /\ UNCHANGED <<form, rows, files, documents, saves, lone>>
    BY <1>8 DEF FormCut, FormReturn
  <2>2. FormShape' /\ \A d \in FormCalls : Saving(d)' => Saving(d) /\ formCalls'[d] = formCalls[d]
    BY <1>0, <1>1, <1>2, <2>1, OtherCall
  <2> QED
    BY <1>0, <2>1, <2>2, SavesUntouched
<1>9. CASE UNCHANGED formVars
  <2>1. UNCHANGED <<form, rows, files, documents, formCalls, saves, lone>>
    BY <1>9 DEF formVars
  <2>2. FormShape' /\ \A d \in FormCalls : Saving(d)' => Saving(d) /\ formCalls'[d] = formCalls[d]
    BY <1>0, <2>1 DEF FormShape, FormCall, Saving
  <2> QED
    BY <1>0, <2>1, <2>2, SavesUntouched
<1> QED
  BY <1>3, <1>4, <1>5, <1>6, <1>7, <1>8, <1>9,
     SaveStartKeeps, SaveScalarsKeeps, DeleteRowsKeeps, CreateRowsKeeps DEF FormNext

\* FormIsWhole: for any number of saves, uploads, columns and sections, an
\* answered save that no other overlapped has left the columns it filled in and
\* the sections it named as it sent them and the columns it left blank as they
\* were, and every document that is registered has its file.
THEOREM FormStaysWhole == FormSpec => []FormIsWhole
<1>1. FormInit => FormInv
  <2> SUFFICES ASSUME FormInit PROVE FormInv
    OBVIOUS
  <2>1. FormShape
    BY DEF FormInit, FormShape, FormCall, FormStatus, ColumnValues
  <2>2. \A c \in FormCalls : ~Saving(c)
    BY DEF FormInit, Saving, FormIdle
  <2> QED
    BY <2>1, <2>2 DEF FormInit, FormInv, FormIsWhole
<1>2. FormInv => FormIsWhole
  BY DEF FormInv
<1> QED
  BY <1>1, <1>2, FormInvStep, PTL DEF FormSpec

----------------------------------------------------------------------------
(* Payslips: what is printed adds up for any salary and any rates.  Amounts  *)
(* are rounded one by one, so that it is a matter of the order in which they *)
(* are: rounding is monotone, and what is rounded twice by the same rate of  *)
(* the whole is the part again.                                              *)

\* A quotient of natural numbers lies below the fraction, by less than one.
LEMMA Quotient ==
  ASSUME NEW a \in Nat, NEW b \in Nat \ {0}
  PROVE  /\ a \div b \in Nat /\ b * (a \div b) <= a /\ a < b * (a \div b) + b
BY Z3

\* A rate is a fraction.
LEMMA RateType ==
  ASSUME NEW rate \in Rate
  PROVE  \E p \in Nat, q \in Nat \ {0} : rate = <<p, q>>
<1>1. rate[1] \in Nat /\ rate[2] \in Nat \ {0} /\ rate = <<rate[1], rate[2]>>
  BY DEF Rate
<1> QED
  BY <1>1

\* A rounded share of a natural number is one.
LEMMA ShareType ==
  ASSUME NEW x \in Nat, NEW p \in Nat, NEW q \in Nat \ {0}
  PROVE  Share(x, <<p, q>>) \in Nat
<1>1. 2 * x * p + q \in Nat /\ 2 * q \in Nat \ {0}
  BY Z3
<1>2. PICK a \in Nat : a = 2 * x * p + q
  BY <1>1
<1>3. PICK b \in Nat \ {0} : b = 2 * q
  BY <1>1
<1> QED
  BY <1>2, <1>3, Quotient DEF Share

\* A share of more is not less.
LEMMA ShareGrows ==
  ASSUME NEW x \in Nat, NEW y \in Nat, x <= y, NEW p \in Nat, NEW q \in Nat \ {0}
  PROVE  Share(x, <<p, q>>) <= Share(y, <<p, q>>)
<1>1. PICK a \in Nat : a = 2 * x * p + q
  BY Z3
<1>2. PICK c \in Nat : c = 2 * y * p + q
  BY Z3
<1>3. PICK b \in Nat \ {0} : b = 2 * q
  BY Z3
<1>4. a <= c
  <2>1. x * p <= y * p /\ x * p \in Nat /\ y * p \in Nat
    BY Z3
  <2>2. 2 * x * p = 2 * (x * p) /\ 2 * y * p = 2 * (y * p)
    BY Z3
  <2> QED
    BY <1>1, <1>2, <2>1, <2>2
<1>5. PICK m \in Nat : m = a \div b /\ b * m <= a
  BY Quotient
<1>6. PICK n \in Nat : n = c \div b /\ c < b * n + b
  BY Quotient
<1>7. m <= n
  <2>1. CASE m >= n + 1
    <3>1. b * m >= b * (n + 1) /\ b * (n + 1) = b * n + b
      BY <2>1, Z3
    <3>2. b * m \in Nat /\ b * n \in Nat
      BY Z3
    <3> QED
      BY <1>4, <1>5, <1>6, <3>1, <3>2
  <2> QED
    BY <2>1
<1> QED
  BY <1>1, <1>2, <1>3, <1>5, <1>6, <1>7 DEF Share

\* The share of the whole is the part.
LEMMA ShareOfWhole ==
  ASSUME NEW part \in Nat, NEW whole \in Nat \ {0}
  PROVE  Share(whole, <<part, whole>>) = part
<1>1. PICK a \in Nat : a = 2 * whole * part + whole
  BY Z3
<1>2. PICK b \in Nat \ {0} : b = 2 * whole
  BY Z3
<1>3. PICK m \in Nat : m = a \div b /\ b * m <= a /\ a < b * m + b
  BY Quotient
<1>4. a = b * part + whole /\ whole < b
  BY <1>1, <1>2, Z3
<1>5. m = part
  <2>1. CASE m >= part + 1
    <3>1. b * m >= b * (part + 1) /\ b * (part + 1) = b * part + b
      BY <2>1, Z3
    <3>2. b * m \in Nat /\ b * part \in Nat
      BY Z3
    <3> QED
      BY <1>3, <1>4, <3>1, <3>2
  <2>2. CASE m <= part - 1
    <3>1. b * m <= b * (part - 1) /\ b * (part - 1) = b * part - b
      BY <2>2, Z3
    <3>2. b * m \in Nat /\ b * part \in Nat
      BY Z3
    <3> QED
      BY <1>3, <1>4, <3>1, <3>2
  <2> QED
    BY <2>1, <2>2
<1> QED
  BY <1>1, <1>2, <1>3, <1>5 DEF Share

\* Half of an amount is no more than it.
LEMMA HalfIsLess ==
  ASSUME NEW x \in Nat
  PROVE  Share(x, <<1, 2>>) \in Nat /\ Share(x, <<1, 2>>) <= x
BY DEF Share

\* The basic pay is no more than the gross.
LEMMA BasicInGross ==
  ASSUME NEW ctc \in Nat, NEW basic, basic = NoAmount \/ (basic \in Nat /\ basic <= ctc)
  PROVE  LET gross == Share(ctc, <<1, 12>>) IN
         /\ gross \in Nat
         /\ monthlyBasic(basic, gross) \in Nat /\ monthlyBasic(basic, gross) <= gross
<1>1. PICK gross \in Nat : gross = Share(ctc, <<1, 12>>)
  BY ShareType
<1>2. CASE basic = NoAmount
  BY <1>1, <1>2, HalfIsLess DEF monthlyBasic
<1>3. CASE basic \in Nat /\ basic <= ctc
  <2>1. basic # NoAmount
    BY <1>3 DEF NoAmount
  <2>2. Share(basic, <<1, 12>>) \in Nat /\ Share(basic, <<1, 12>>) <= gross
    BY <1>1, <1>3, ShareType, ShareGrows
  <2> QED
    BY <1>1, <2>1, <2>2 DEF monthlyBasic
<1> QED
  BY <1>2, <1>3

\* Nor is the basic pay that is left of it more than what is left of the gross.
LEMMA PayableBasicInPayable ==
  ASSUME NEW gross \in Nat, NEW basic \in Nat, basic <= gross, NEW payable \in Nat
  PROVE  PayableBasic(basic, gross, payable) \in Nat
         /\ PayableBasic(basic, gross, payable) <= payable
<1>1. CASE gross > 0
  BY <1>1, ShareType, ShareGrows, ShareOfWhole DEF PayableBasic
<1>2. CASE ~(gross > 0)
  BY <1>2 DEF PayableBasic
<1> QED
  BY <1>1, <1>2

\* What a slab of the tax holds.
LEMMA SlabFields ==
  ASSUME NEW slabs \in Seq([upto : Nat, rate : Nat] \cup [rate : Nat]), NEW i \in DOMAIN slabs
  PROVE  slabs[i].rate \in Nat /\ (HasEnd(slabs[i]) => slabs[i].upto \in Nat)
<1>1. slabs[i] \in [upto : Nat, rate : Nat] \/ slabs[i] \in [rate : Nat]
  OBVIOUS
<1>2. CASE slabs[i] \in [upto : Nat, rate : Nat]
  BY <1>2
<1>3. CASE slabs[i] \in [rate : Nat]
  BY <1>3 DEF HasEnd
<1> QED
  BY <1>1, <1>2, <1>3

\* A tax of a year is not negative.
LEMMA TdsType ==
  ASSUME NEW annual \in Nat
  PROVE  computeTds(annual) \in Nat
<1> DEFINE tds == Rates.tds
           slabs == tds.slabs
           taxable == Positive(annual - tds.standardDeduction)
           taxes == [i \in DOMAIN slabs |-> Bracket(taxable, slabs, i) * slabs[i].rate]
<1>1. taxable \in Nat
  BY RatesAssumption DEF Positive
<1>2. slabs \in Seq([upto : Nat, rate : Nat] \cup [rate : Nat])
  BY RatesAssumption
<1>3. Len(slabs) \in Nat /\ DOMAIN slabs = 1 .. Len(slabs)
  BY <1>2
<1>4. ASSUME NEW i \in DOMAIN slabs PROVE taxes[i] \in Nat
  <2>1. slabs[i].rate \in Nat
    BY <1>2
  <2>2. ASSUME NEW j \in 1 .. Len(slabs) - 1 PROVE slabs[j].upto \in Nat
    BY RatesAssumption
  <2>3. i \in 1 .. Len(slabs) /\ (HasEnd(slabs[i]) => slabs[i].upto \in Nat)
    BY <1>2, <1>3, SlabFields
  <2> HIDE DEF taxable, slabs
  <2>4. PICK lower \in Nat : lower = IF i = 1 THEN 0 ELSE slabs[i - 1].upto
    BY <1>3, <2>2, <2>3
  <2>5. PICK upper \in Nat :
          upper = IF HasEnd(slabs[i]) THEN Lesser(taxable, slabs[i].upto) ELSE taxable
    BY <1>1, <2>3 DEF Lesser
  <2>6. Bracket(taxable, slabs, i) = Positive(upper - lower) /\ Positive(upper - lower) \in Nat
    BY <2>4, <2>5 DEF Bracket, Positive
  <2>7. taxes[i] = Bracket(taxable, slabs, i) * slabs[i].rate
    OBVIOUS
  <2> HIDE DEF taxes
  <2>8. PICK m \in Nat, n \in Nat : m = Bracket(taxable, slabs, i) /\ n = slabs[i].rate
    BY <2>1, <2>6
  <2>9. m * n \in Nat
    BY Z3
  <2> QED
    BY <2>7, <2>8, <2>9
<1>5. PICK tax \in Nat : tax = SumFunction(taxes)
  <2>0. PICK n \in Nat : DOMAIN slabs = 1 .. n
    BY <1>3
  <2>1. DOMAIN taxes = DOMAIN slabs /\ IsFiniteSet(DOMAIN slabs)
    <3>1. IsFiniteSet(1 .. n)
      BY FS_Interval
    <3>2. DOMAIN taxes = DOMAIN slabs
      OBVIOUS
    <3> HIDE DEF taxes, slabs
    <3> QED
      BY <2>0, <3>1, <3>2
  <2> HIDE DEF taxes, slabs
  <2> QED
    BY <1>4, <2>1, SumNotNegative DEF SumFunction
<1>6. PICK p \in Nat : p = tds.cess[2] + tds.cess[1]
  BY RatesAssumption DEF Rate
<1>7. PICK q \in Nat \ {0} : q = tds.cess[2] * tds.of
  <2>1. PICK m \in Nat \ {0}, n \in Nat \ {0} : m = tds.cess[2] /\ n = tds.of
    BY RatesAssumption DEF Rate
  <2>2. m * n \in Nat \ {0}
    BY Z3
  <2> QED
    BY <2>1, <2>2
<1>8. Share(tax, <<p, q>>) \in Nat
  BY ShareType
<1>9. computeTds(annual) = IF taxable <= tds.rebateLimitTaxable THEN 0 ELSE Share(tax, <<p, q>>)
  BY <1>5, <1>6, <1>7 DEF computeTds
<1> QED
  BY <1>8, <1>9

\* Nor is a professional tax.
LEMMA PtType ==
  ASSUME NEW gross \in Nat
  PROVE  resolvePt(gross) \in Nat
<1> DEFINE slabs == Rates.pt
           reached == {i \in DOMAIN slabs :
                         i = Len(slabs) \/ ~HasEnd(slabs[i]) \/ gross <= slabs[i].upto}
<1>1. slabs \in Seq([upto : Nat, tax : Nat] \cup [tax : Nat]) /\ slabs # <<>>
  BY RatesAssumption
<1>2. Len(slabs) \in Nat \ {0} /\ DOMAIN slabs = 1 .. Len(slabs)
  BY <1>1
<1>3. \A i \in DOMAIN slabs : slabs[i].tax \in Nat
  BY <1>1
<1>4. reached \in SUBSET Nat /\ Len(slabs) \in reached
  BY <1>2
<1>5. resolvePt(gross) = slabs[CHOOSE i \in reached : \A j \in reached : i <= j].tax
  BY DEF resolvePt
<1>6. (CHOOSE i \in reached : \A j \in reached : i <= j) \in DOMAIN slabs
  <2>1. reached \subseteq DOMAIN slabs
    OBVIOUS
  <2> HIDE DEF reached, slabs
  <2>2. \E i \in reached : \A j \in reached : i <= j
    BY <1>4, Least
  <2> QED
    BY <2>1, <2>2
<1> HIDE DEF reached, slabs
<1> QED
  BY <1>3, <1>5, <1>6

\* The sum of the two lines of earnings.
LEMMA SumOfEarnings ==
  ASSUME NEW a \in Nat, NEW b \in Nat
  PROVE  SumFunction([BASIC |-> a, ALLOW |-> b]) = a + b
<1> DEFINE f == [BASIC |-> a, ALLOW |-> b]
           S == {"BASIC", "ALLOW"}
           T == {"ALLOW"}
<1>1. DOMAIN f = S /\ f["BASIC"] = a /\ f["ALLOW"] = b
  OBVIOUS
<1>2. IsFiniteSet({}) /\ IsFiniteSet(T) /\ IsFiniteSet(S)
  <2>1. IsFiniteSet({})
    BY FS_EmptySet
  <2>2. IsFiniteSet(T)
    BY FS_Singleton
  <2>3. S = T \cup {"BASIC"}
    OBVIOUS
  <2> QED
    BY <2>1, <2>2, <2>3, FS_AddElement
<1>3. S \ {"BASIC"} = T /\ T \ {"ALLOW"} = {} /\ "BASIC" \in S /\ "ALLOW" \in T
  OBVIOUS
<1>4. (\A x \in S : f[x] \in Int) /\ (\A x \in T : f[x] \in Int)
  BY <1>1
<1> HIDE DEF f, S, T
<1>5. SumFunctionOnSet(f, {}) = 0
  BY <1>2, <1>4, SumType
<1>6. SumFunctionOnSet(f, T) = f["ALLOW"] + SumFunctionOnSet(f, {})
  BY <1>2, <1>3, <1>4, SumWithout
<1>7. SumFunctionOnSet(f, S) = f["BASIC"] + SumFunctionOnSet(f, T)
  BY <1>2, <1>3, <1>4, SumWithout
<1>8. SumFunctionOnSet(f, S) = a + b
  BY <1>1, <1>5, <1>6, <1>7
<1> QED
  BY <1>1, <1>8 DEF f, SumFunction

\* A set of four is finite.
LEMMA FourAreFinite ==
  ASSUME NEW a, NEW b, NEW c, NEW d
  PROVE  IsFiniteSet({a, b, c, d})
<1>1. IsFiniteSet({a}) /\ IsFiniteSet({a} \cup {b}) /\ IsFiniteSet(({a} \cup {b}) \cup {c})
  BY FS_Singleton, FS_AddElement
<1>2. IsFiniteSet((({a} \cup {b}) \cup {c}) \cup {d})
  BY <1>1, FS_AddElement
<1>3. {a, b, c, d} = (({a} \cup {b}) \cup {c}) \cup {d}
  OBVIOUS
<1> QED
  BY <1>2, <1>3

\* A payslip prints what adds up: the earnings are the gross, no amount is
\* negative, and the net is what the deductions leave of the earnings.
AddsUp(s) ==
  /\ SumFunction(s.earnings) = s.gross
  /\ s.net = SumFunction(s.earnings) - SumFunction(s.deductions) /\ s.net \in Int
  /\ \A k \in DOMAIN s.earnings : s.earnings[k] >= 0
  /\ \A k \in DOMAIN s.deductions : s.deductions[k] >= 0

\* computePayslip does, of a basic pay within the gross.
LEMMA ComputedAddsUp ==
  ASSUME NEW gross \in Nat, NEW basic \in Nat, basic <= gross,
         NEW days \in Nat \ {0}, NEW absent \in Nat, NEW annual \in Nat, NEW inForce
  PROVE  /\ AddsUp(computePayslip(gross, basic, days, absent, annual, inForce))
         /\ computePayslip(gross, basic, days, absent, annual, inForce).lossOfPayDays = absent
<1>1. PICK payable \in Nat : payable = Positive(gross - Share(gross, <<absent, days>>))
  BY ShareType DEF Positive
<1>2. PICK b \in Nat : b = PayableBasic(basic, gross, payable) /\ b <= payable
  BY PayableBasicInPayable
<1>3. PICK epf \in Nat : epf = Share(Lesser(b, Rates.epf.wageCeiling), Rates.epf.employeeRate)
  <2>1. PICK p \in Nat, q \in Nat \ {0} : Rates.epf.employeeRate = <<p, q>>
    BY RatesAssumption, RateType
  <2>2. Lesser(b, Rates.epf.wageCeiling) \in Nat
    BY RatesAssumption DEF Lesser
  <2> QED
    BY <2>1, <2>2, ShareType
<1>4. PICK esi \in Nat : esi = IF payable <= Rates.esi.wageCeilingMonthly
                               THEN Share(payable, Rates.esi.employeeRate) ELSE 0
  <2>1. PICK p \in Nat, q \in Nat \ {0} : Rates.esi.employeeRate = <<p, q>>
    BY RatesAssumption, RateType
  <2> QED
    BY <2>1, ShareType
<1>5. PICK pt \in Nat : pt = resolvePt(payable)
  BY PtType
<1>6. PICK tds \in Nat : tds = Share(computeTds(annual), <<1, 12>>)
  BY TdsType, ShareType
<1>7. PICK rest \in Nat : rest = Positive(payable - b) /\ b + rest = payable
  BY <1>2 DEF Positive
<1> DEFINE due(code, amount) == IF code \in inForce THEN amount ELSE 0
<1>8. PICK deductions : deductions = [EPF |-> due("EPF", epf), ESI |-> due("ESI", esi),
                                      PT |-> due("PT", pt), TDS |-> due("TDS", tds)]
  OBVIOUS
<1>9. computePayslip(gross, basic, days, absent, annual, inForce) =
        [lossOfPayDays |-> absent, gross |-> payable,
         earnings |-> [BASIC |-> b, ALLOW |-> rest], deductions |-> deductions,
         net |-> payable - SumFunction(deductions)]
  BY <1>1, <1>2, <1>3, <1>4, <1>5, <1>6, <1>7, <1>8 DEF computePayslip
<1>10. SumFunction([BASIC |-> b, ALLOW |-> rest]) = payable
  BY <1>7, SumOfEarnings
<1>11. \A k \in DOMAIN deductions : deductions[k] >= 0
  BY <1>8
<1>12. \A k \in DOMAIN [BASIC |-> b, ALLOW |-> rest] : [BASIC |-> b, ALLOW |-> rest][k] >= 0
  OBVIOUS
<1>13. PICK earnings : earnings = [BASIC |-> b, ALLOW |-> rest]
  OBVIOUS
<1>14. PICK s : s = [lossOfPayDays |-> absent, gross |-> payable, earnings |-> earnings,
                     deductions |-> deductions, net |-> payable - SumFunction(deductions)]
  OBVIOUS
<1>15. /\ s.lossOfPayDays = absent /\ s.gross = payable /\ s.earnings = earnings
       /\ s.deductions = deductions /\ s.net = payable - SumFunction(deductions)
  BY <1>14
<1>16. SumFunction(deductions) \in Int
  <2>1. DOMAIN deductions = {"EPF", "ESI", "PT", "TDS"}
    BY <1>8
  <2>2. IsFiniteSet({"EPF", "ESI", "PT", "TDS"})
    BY FourAreFinite
  <2>3. \A k \in DOMAIN deductions : deductions[k] \in Int
    BY <1>8
  <2> QED
    BY <2>1, <2>2, <2>3, SumType DEF SumFunction
<1>17. AddsUp(s)
  BY <1>10, <1>11, <1>12, <1>13, <1>15, <1>16 DEF AddsUp
<1> QED
  BY <1>9, <1>13, <1>14, <1>15, <1>17

\* A structure's basic pay is within its salary; a computed payslip adds up, and
\* is one that Compute may give for the salary.
SlipInv ==
  /\ salary # NoSalary => /\ salary.ctc \in Ctcs
                          /\ salary.basic \in Components \cup {NoAmount}
                          /\ Positive(salary.basic) <= salary.ctc
  /\ slip # NoSlip => /\ AddsUp(slip)
                      /\ salary # NoSalary
                      /\ slip.lossOfPayDays \in Nat
                      /\ \E days \in MonthLengths, inForce \in SUBSET Deductions :
                           LET gross == Share(salary.ctc, <<1, 12>>)
                           IN slip = computePayslip(gross, monthlyBasic(salary.basic, gross), days,
                                                    slip.lossOfPayDays, salary.ctc, inForce)

\* A structure with components in its salary, and a payslip computed from it.
LEMMA SlipInvStep == SlipInv /\ [SlipNext]_slipVars => SlipInv'
<1> SUFFICES ASSUME SlipInv, [SlipNext]_slipVars PROVE SlipInv'
  OBVIOUS
<1>1. ASSUME SetStructure PROVE SlipInv'
  <2>1. PICK ctc \in Ctcs, basic \in Components \cup {NoAmount}, rest \in Components :
          Positive(basic) + rest <= ctc /\ salary' = [ctc |-> ctc, basic |-> basic]
    BY <1>1 DEF SetStructure
  <2>2. Positive(basic) \in Int /\ rest \in Nat /\ ctc \in Nat
    BY AmountsAssumption DEF Positive, NoAmount
  <2>3. Positive(basic) <= ctc
    BY <2>1, <2>2
  <2>4. slip' = NoSlip /\ salary'.ctc = ctc /\ salary'.basic = basic
    BY <1>1, <2>1 DEF SetStructure
  <2> QED
    BY <2>3, <2>4 DEF SlipInv
<1>2. ASSUME Compute PROVE SlipInv'
  <2>1. PICK gross : gross = Share(salary.ctc, <<1, 12>>)
    OBVIOUS
  <2>2. PICK basic : basic = monthlyBasic(salary.basic, gross)
    OBVIOUS
  <2>0. PICK days \in MonthLengths, inForce \in SUBSET Deductions : \E absent \in 0 .. days :
          slip' = computePayslip(gross, basic, days, absent, salary.ctc, inForce)
    BY <1>2, <2>1, <2>2 DEF Compute
  <2>3. PICK absent \in 0 .. days :
          slip' = computePayslip(gross, basic, days, absent, salary.ctc, inForce)
    BY <2>0
  <2>4. /\ salary # NoSalary /\ UNCHANGED salary /\ salary.ctc \in Nat
        /\ salary.basic = NoAmount \/ (salary.basic \in Nat /\ salary.basic <= salary.ctc)
    <3>1. salary # NoSalary /\ UNCHANGED salary
      BY <1>2 DEF Compute
    <3>2. PICK ctc \in Nat : ctc = salary.ctc
      BY <3>1, AmountsAssumption DEF SlipInv
    <3>3. salary.basic \in Components \cup {NoAmount} /\ Positive(salary.basic) <= ctc
      BY <3>1, <3>2 DEF SlipInv
    <3>4. CASE salary.basic # NoAmount
      <4>1. PICK b \in Nat : b = salary.basic /\ Positive(b) <= ctc
        BY <3>3, <3>4, AmountsAssumption
      <4>2. b <= ctc
        BY <4>1 DEF Positive
      <4> QED
        BY <3>1, <3>2, <4>1, <4>2
    <3>5. CASE salary.basic = NoAmount
      BY <3>1, <3>2, <3>5
    <3> QED
      BY <3>4, <3>5
  <2>5. gross \in Nat /\ basic \in Nat /\ basic <= gross
    BY <2>1, <2>2, <2>4, BasicInGross
  <2>6. days \in Nat \ {0} /\ absent \in Nat
    BY AmountsAssumption
  <2>7. AddsUp(slip') /\ slip'.lossOfPayDays = absent
    <3>1. PICK ctc \in Nat : ctc = salary.ctc
      BY <2>4
    <3>2. AddsUp(computePayslip(gross, basic, days, absent, ctc, inForce))
          /\ computePayslip(gross, basic, days, absent, ctc, inForce).lossOfPayDays = absent
      BY <2>5, <2>6, ComputedAddsUp
    <3> QED
      BY <2>3, <3>1, <3>2
  <2>8. AddsUp(slip)'
    BY <2>7 DEF AddsUp
  <2> QED
    BY <2>1, <2>2, <2>3, <2>4, <2>6, <2>7, <2>8 DEF SlipInv
<1>3. CASE UNCHANGED slipVars
  BY <1>3 DEF slipVars, SlipInv, AddsUp
<1> QED
  BY <1>1, <1>2, <1>3 DEF SlipNext

\* SlipInv holds of every reachable state.
LEMMA SlipInvariance == SlipSpec => []SlipInv
<1>1. SlipInit => SlipInv
  BY DEF SlipInit, SlipInv
<1> QED
  BY <1>1, SlipInvStep, PTL DEF SlipSpec

\* Whatever the salary, the month and the rates: what a payslip prints adds up.
THEOREM PrintedAddsUp == SlipSpec => [](slip # NoSlip => AddsUp(slip))
<1>1. SlipInv => (slip # NoSlip => AddsUp(slip))
  BY DEF SlipInv
<1> QED
  BY <1>1, SlipInvariance, PTL

\* With rates that are bearable PayslipAddsUp holds, for any of them and any salaries.
THEOREM PayslipsAddUp ==
  ASSUME RatesAreBearable
  PROVE  SlipSpec => []PayslipAddsUp
<1>1. SlipInv => PayslipAddsUp
  <2> SUFFICES ASSUME SlipInv, slip # NoSlip, slip.net < 0 PROVE slip.lossOfPayDays > 0
    BY DEF SlipInv, AddsUp, PayslipAddsUp
  <2>1. CASE slip.lossOfPayDays = 0
    <3>1. PICK net \in Int : net = slip.net
      BY DEF SlipInv, AddsUp
    <3>2. net >= 0
      BY <2>1, <3>1 DEF SlipInv, RatesAreBearable
    <3> QED
      BY <3>1, <3>2
  <2> QED
    BY <2>1 DEF SlipInv
<1> QED
  BY <1>1, SlipInvariance, PTL

----------------------------------------------------------------------------
(* The seeded rates, in paise as the database holds them, are bearable for   *)
(* any salary.  Up to 25,000 rupees a month there is no professional tax and *)
(* no income tax; above it no state insurance, and the rest is far below the *)
(* gross even if every bracket of the tax took the whole taxable income.     *)

\* No day of a month is lost by who was absent on none.
LEMMA ShareOfNone ==
  ASSUME NEW x \in Nat, NEW q \in Nat \ {0}
  PROVE  Share(x, <<0, q>>) = 0
<1>1. PICK b \in Nat \ {0} : b = 2 * q
  BY Z3
<1>2. PICK m \in Nat : m = q \div b /\ b * m <= q
  BY Quotient
<1>3. Share(x, <<0, q>>) = m
  <2>1. 2 * x * 0 + q = q
    OBVIOUS
  <2> QED
    BY <1>1, <1>2, <2>1 DEF Share
<1>4. CASE m >= 1
  <2>1. b * m >= b /\ b * m \in Nat
    BY <1>4, Z3
  <2> QED
    BY <1>1, <1>2, <2>1
<1> QED
  BY <1>3, <1>4

\* The sum of the four deductions.
LEMMA SumOfDeductions ==
  ASSUME NEW a \in Nat, NEW b \in Nat, NEW c \in Nat, NEW d \in Nat
  PROVE  SumFunction([EPF |-> a, ESI |-> b, PT |-> c, TDS |-> d]) = a + b + c + d
<1> DEFINE f == [EPF |-> a, ESI |-> b, PT |-> c, TDS |-> d]
           S == {"EPF", "ESI", "PT", "TDS"}
<1>1. DOMAIN f = S /\ f["EPF"] = a /\ f["ESI"] = b /\ f["PT"] = c /\ f["TDS"] = d
  OBVIOUS
<1>2. IsFiniteSet(S) /\ \A x \in S : f[x] \in Int
  <2>1. IsFiniteSet(S)
    BY FourAreFinite
  <2> HIDE DEF f
  <2> QED
    BY <1>1, <2>1
<1> HIDE DEF f
<1>3. SumFunctionOnSet(f, S) = f["EPF"] + SumFunctionOnSet(f, {"ESI", "PT", "TDS"})
  <2>1. S \ {"EPF"} = {"ESI", "PT", "TDS"}
    OBVIOUS
  <2> QED
    BY <1>2, <2>1, SumWithout
<1>4. IsFiniteSet({"ESI", "PT", "TDS"}) /\ IsFiniteSet({"PT", "TDS"}) /\ IsFiniteSet({"TDS"})
  <2>1. {"ESI", "PT", "TDS"} \subseteq S /\ {"PT", "TDS"} \subseteq S /\ {"TDS"} \subseteq S
    OBVIOUS
  <2> QED
    BY <1>2, <2>1, FS_Subset
<1>5. SumFunctionOnSet(f, {"ESI", "PT", "TDS"}) = f["ESI"] + SumFunctionOnSet(f, {"PT", "TDS"})
  <2>1. {"ESI", "PT", "TDS"} \ {"ESI"} = {"PT", "TDS"}
    OBVIOUS
  <2> QED
    BY <1>2, <1>4, <2>1, SumWithout
<1>6. SumFunctionOnSet(f, {"PT", "TDS"}) = f["PT"] + SumFunctionOnSet(f, {"TDS"})
  <2>1. {"PT", "TDS"} \ {"PT"} = {"TDS"}
    OBVIOUS
  <2> QED
    BY <1>2, <1>4, <2>1, SumWithout
<1>7. SumFunctionOnSet(f, {"TDS"}) = f["TDS"] + SumFunctionOnSet(f, {})
  <2>1. {"TDS"} \ {"TDS"} = {}
    OBVIOUS
  <2> QED
    BY <1>2, <1>4, <2>1, SumWithout
<1>8. SumFunctionOnSet(f, {}) = 0
  BY <1>2, SumType
<1>9. SumFunctionOnSet(f, S) = a + b + c + d
  BY <1>1, <1>3, <1>5, <1>6, <1>7, <1>8
<1> QED
  BY <1>1, <1>9 DEF f, SumFunction

\* What a bracket holds is part of the income.
LEMMA BracketInIncome ==
  ASSUME NEW taxable \in Nat, NEW slabs, NEW i \in 1 .. Len(slabs), Len(slabs) \in Nat,
         \A j \in 1 .. Len(slabs) - 1 : slabs[j].upto \in Nat,
         HasEnd(slabs[i]) => slabs[i].upto \in Nat
  PROVE  Bracket(taxable, slabs, i) \in Nat /\ Bracket(taxable, slabs, i) <= taxable
<1>1. PICK lower \in Nat : lower = IF i = 1 THEN 0 ELSE slabs[i - 1].upto
  OBVIOUS
<1>2. PICK upper \in Nat :
        upper = (IF HasEnd(slabs[i]) THEN Lesser(taxable, slabs[i].upto) ELSE taxable)
        /\ upper <= taxable
  <2>1. CASE ~HasEnd(slabs[i])
    BY <2>1
  <2>2. CASE HasEnd(slabs[i])
    <3>1. PICK x \in Nat : x = slabs[i].upto
      BY <2>2
    <3>2. Lesser(taxable, x) \in Nat /\ Lesser(taxable, x) <= taxable
      BY DEF Lesser
    <3> QED
      BY <2>2, <3>1, <3>2
  <2> QED
    BY <2>1, <2>2
<1>3. Bracket(taxable, slabs, i) = Positive(upper - lower)
  BY <1>1, <1>2 DEF Bracket
<1> QED
  BY <1>2, <1>3 DEF Positive

\* The tax of the year: none up to 7,75,000 rupees, and never 83.2 % of what is
\* above the standard deduction.
LEMMA SeededTds ==
  ASSUME Rates = SeededRates(1), NEW annual \in Nat
  PROVE  /\ annual <= 77500000 => computeTds(annual) = 0
         /\ annual >= 7500000 =>
              1000 * computeTds(annual) <= 832 * (annual - 7500000) + 500
<1> DEFINE tds == Rates.tds
           slabs == tds.slabs
           taxable == Positive(annual - tds.standardDeduction)
           b(i) == Bracket(taxable, slabs, i)
           taxes == [i \in DOMAIN slabs |-> b(i) * slabs[i].rate]
           taxesTo(n) == SumFunctionOnSet(taxes, 1 .. n)
<1>1. tds.standardDeduction = 7500000 /\ tds.rebateLimitTaxable = 70000000
  BY SMT DEF SeededRates
<1>2. tds.cess[1] = 1 /\ tds.cess[2] = 25 /\ tds.of = 20
  BY SMT DEF SeededRates
<1>3. /\ Len(slabs) = 6 /\ DOMAIN slabs = 1 .. 6
      /\ slabs[1].rate = 0 /\ slabs[2].rate = 1 /\ slabs[3].rate = 2
      /\ slabs[4].rate = 3 /\ slabs[5].rate = 4 /\ slabs[6].rate = 6
  BY SMT DEF SeededRates
<1>4. taxable \in Nat
  BY RatesAssumption DEF Positive
<1>5. /\ annual >= 7500000 => taxable = annual - 7500000
      /\ annual <= 77500000 => taxable <= 70000000
  BY <1>1, SMT DEF Positive
<1>6. \A i \in 1 .. 6 : b(i) \in Nat /\ b(i) <= taxable
  <2>1. \A j \in 1 .. Len(slabs) - 1 : slabs[j].upto \in Nat
    BY RatesAssumption
  <2>2. Len(slabs) \in Nat /\ Len(slabs) = 6
    BY <1>3
  <2>3. \A i \in 1 .. 6 : HasEnd(slabs[i]) => slabs[i].upto \in Nat
    <3>1. slabs \in Seq([upto : Nat, rate : Nat] \cup [rate : Nat]) /\ DOMAIN slabs = 1 .. 6
      BY <1>3, RatesAssumption
    <3> HIDE DEF slabs
    <3> QED
      BY <3>1, SlabFields
  <2> HIDE DEF slabs, taxable
  <2> QED
    BY <1>4, <2>1, <2>2, <2>3, BracketInIncome
<1>7. /\ taxes[1] = 0 /\ taxes[2] = b(2) /\ taxes[3] = b(3) * 2
      /\ taxes[4] = b(4) * 3 /\ taxes[5] = b(5) * 4 /\ taxes[6] = b(6) * 6
  <2>1. \A i \in 1 .. 6 : taxes[i] = b(i) * slabs[i].rate
    BY <1>3
  <2> HIDE DEF taxes, slabs, taxable
  <2> QED
    BY <1>3, <1>6, <2>1
<1>8. SumFunction(taxes) = taxesTo(6)
  <2>1. DOMAIN taxes = 1 .. 6
    BY <1>3
  <2> HIDE DEF taxes
  <2> QED
    BY <2>1 DEF SumFunction
<1> HIDE DEF tds, slabs, taxable, taxes
<1>9. \A i \in 1 .. 6 : taxes[i] \in Int
  BY <1>6, <1>7
<1>10. ASSUME NEW m \in 0 .. 5, NEW n \in 1 .. 6, n = m + 1
       PROVE  taxesTo(n) = taxes[n] + taxesTo(m)
  <2>1. \A i \in 1 .. n : taxes[i] \in Int
    BY <1>9
  <2>2. n \in Nat \ {0} /\ m = n - 1
    BY <1>10
  <2> QED
    BY <2>1, <2>2, SumUpTo
<1>11. taxesTo(0) = 0
  <2>1. 1 .. 0 = {} /\ IsFiniteSet({})
    BY FS_EmptySet
  <2> QED
    BY <2>1, SumType
<1>12. taxesTo(6) = taxes[6] + (taxes[5] + (taxes[4] + (taxes[3] + (taxes[2] + (taxes[1] + 0)))))
  <2> HIDE DEF taxesTo
  <2>1. /\ taxesTo(6) = taxes[6] + taxesTo(5) /\ taxesTo(5) = taxes[5] + taxesTo(4)
        /\ taxesTo(4) = taxes[4] + taxesTo(3) /\ taxesTo(3) = taxes[3] + taxesTo(2)
        /\ taxesTo(2) = taxes[2] + taxesTo(1) /\ taxesTo(1) = taxes[1] + taxesTo(0)
    BY <1>10
  <2> QED
    BY <1>11, <2>1
<1> HIDE DEF taxesTo
<1>13. PICK tax \in Nat : tax = SumFunction(taxes) /\ tax <= 16 * taxable
  <2> HIDE DEF b
  <2> QED
    BY <1>4, <1>6, <1>7, <1>8, <1>12
<1>14. computeTds(annual) = IF taxable <= 70000000 THEN 0 ELSE Share(tax, <<26, 500>>)
  BY <1>1, <1>2, <1>13, SMT DEF computeTds, tds, slabs, taxable, taxes, b
<1>15. PICK s \in Nat : s = Share(tax, <<26, 500>>) /\ 1000 * s <= 52 * tax + 500
  BY SMT DEF Share
<1> QED
  BY <1>4, <1>5, <1>13, <1>14, <1>15, SMT

\* The professional tax: none up to 25,000 rupees, 200 above.
LEMMA SeededPt ==
  ASSUME Rates = SeededRates(1), NEW gross \in Nat
  PROVE  resolvePt(gross) = IF gross <= 2500000 THEN 0 ELSE 20000
<1> DEFINE slabs == Rates.pt
           reached == {i \in DOMAIN slabs :
                         i = Len(slabs) \/ ~HasEnd(slabs[i]) \/ gross <= slabs[i].upto}
<1>1. /\ Len(slabs) = 2 /\ DOMAIN slabs = 1 .. 2
      /\ slabs[1].upto = 2500000 /\ slabs[1].tax = 0 /\ slabs[2].tax = 20000
      /\ HasEnd(slabs[1])
  BY SMT DEF SeededRates, HasEnd
<1>2. resolvePt(gross) = slabs[CHOOSE i \in reached : \A j \in reached : i <= j].tax
  BY SMT DEF resolvePt
<1>3. gross <= 2500000 => reached = {1, 2}
  <2> HIDE DEF slabs
  <2> QED
    BY <1>1, SMT
<1>4. ~(gross <= 2500000) => reached = {2}
  <2> HIDE DEF slabs
  <2> QED
    BY <1>1, SMT
<1> HIDE DEF slabs, reached
<1>5. ASSUME reached = {1, 2} PROVE resolvePt(gross) = slabs[1].tax
  <2>1. (CHOOSE i \in reached : \A j \in reached : i <= j) = 1
    BY <1>5
  <2> QED
    BY <1>2, <2>1
<1>6. ASSUME reached = {2} PROVE resolvePt(gross) = slabs[2].tax
  <2>1. (CHOOSE i \in reached : \A j \in reached : i <= j) = 2
    BY <1>6
  <2> QED
    BY <1>2, <2>1
<1> QED
  BY <1>1, <1>3, <1>4, <1>5, <1>6, SMT

\* What is taken from a gross, in numbers.
LEMMA GrossCovers ==
  ASSUME NEW ctc \in Nat, NEW gross \in Nat, NEW capped \in Nat, NEW epf \in Nat,
         NEW esi \in Nat, NEW pt \in Nat, NEW year \in Nat, NEW tds \in Nat,
         24 * gross <= 2 * ctc + 12, 2 * ctc < 24 * gross + 12,
         capped <= gross, capped <= 1500000, 50 * epf <= 6 * capped + 25,
         800 * esi <= 6 * gross + 400, gross > 2100000 => esi = 0,
         pt = IF gross <= 2500000 THEN 0 ELSE 20000,
         ctc <= 77500000 => year = 0,
         ctc >= 7500000 => 1000 * year <= 832 * (ctc - 7500000) + 500,
         24 * tds <= 2 * year + 12
  PROVE  epf + esi + pt + tds <= gross
<1>1. CASE gross <= 2500000
  BY <1>1, SMT
<1>2. CASE gross > 2500000
  BY <1>2, SMT
<1> QED
  BY <1>1, <1>2, SMT

\* Nobody who was there all month owes.
LEMMA WholeMonthIsPaid ==
  ASSUME Rates = SeededRates(1), NEW ctc \in Nat, NEW days \in Nat \ {0}, NEW gross \in Nat,
         gross = Share(ctc, <<1, 12>>), NEW basic \in Nat, basic <= gross, NEW inForce
  PROVE  computePayslip(gross, basic, days, 0, ctc, inForce).net >= 0
<1>1. gross = Positive(gross - Share(gross, <<0, days>>))
  BY ShareOfNone DEF Positive
<1>2. PICK b \in Nat : b = PayableBasic(basic, gross, gross) /\ b <= gross
  BY PayableBasicInPayable
<1>3. PICK capped \in Nat : capped = Lesser(b, Rates.epf.wageCeiling)
  BY RatesAssumption DEF Lesser
<1>4. PICK epf \in Nat : epf = Share(capped, Rates.epf.employeeRate)
  <2>1. PICK p \in Nat, q \in Nat \ {0} : Rates.epf.employeeRate = <<p, q>>
    BY RatesAssumption, RateType
  <2> QED
    BY <2>1, ShareType
<1>5. PICK esi \in Nat : esi = IF gross <= Rates.esi.wageCeilingMonthly
                                 THEN Share(gross, Rates.esi.employeeRate) ELSE 0
  <2>1. PICK p \in Nat, q \in Nat \ {0} : Rates.esi.employeeRate = <<p, q>>
    BY RatesAssumption, RateType
  <2> QED
    BY <2>1, ShareType
<1>6. PICK pt \in Nat : pt = resolvePt(gross)
  BY PtType
<1>7. PICK year \in Nat : year = computeTds(ctc)
  BY TdsType
<1>8. PICK tds \in Nat : tds = Share(year, <<1, 12>>)
  BY ShareType
<1>9. PICK s : s = computePayslip(gross, basic, days, 0, ctc, inForce)
  OBVIOUS
<1> DEFINE due(code, amount) == IF code \in inForce THEN amount ELSE 0
<1>10. s.net = gross - SumFunction([EPF |-> due("EPF", epf), ESI |-> due("ESI", esi),
                                    PT |-> due("PT", pt), TDS |-> due("TDS", tds)])
  BY <1>1, <1>2, <1>3, <1>4, <1>5, <1>6, <1>7, <1>8, <1>9 DEF computePayslip
<1>11. PICK taken \in Nat : taken <= epf + esi + pt + tds /\ s.net = gross - taken
  <2>1. PICK e \in Nat : e = due("EPF", epf) /\ e <= epf
    OBVIOUS
  <2>2. PICK f \in Nat : f = due("ESI", esi) /\ f <= esi
    OBVIOUS
  <2>3. PICK g \in Nat : g = due("PT", pt) /\ g <= pt
    OBVIOUS
  <2>4. PICK h \in Nat : h = due("TDS", tds) /\ h <= tds
    OBVIOUS
  <2> HIDE DEF due
  <2>5. s.net = gross - SumFunction([EPF |-> e, ESI |-> f, PT |-> g, TDS |-> h])
    BY <1>10, <2>1, <2>2, <2>3, <2>4
  <2>6. PICK taken \in Nat : taken = e + f + g + h /\ taken <= epf + esi + pt + tds
    BY <2>1, <2>2, <2>3, <2>4
  <2>7. s.net = gross - taken
    BY <2>5, <2>6, SumOfDeductions
  <2> QED
    BY <2>6, <2>7
<1>12. epf + esi + pt + tds <= gross
  <2>1. capped <= gross /\ capped <= 1500000
    BY <1>2, <1>3, SMT DEF Lesser, SeededRates
  <2>2. 50 * epf <= 6 * capped + 25
    BY <1>4, SMT DEF Share, SeededRates
  <2>3. 800 * esi <= 6 * gross + 400 /\ (gross > 2100000 => esi = 0)
    BY <1>5, SMT DEF Share, SeededRates
  <2>4. 24 * gross <= 2 * ctc + 12 /\ 2 * ctc < 24 * gross + 12 /\ 24 * tds <= 2 * year + 12
    BY <1>8, SMT DEF Share
  <2>5. pt = IF gross <= 2500000 THEN 0 ELSE 20000
    BY <1>6, SeededPt, SMT
  <2>6. /\ ctc <= 77500000 => year = 0
        /\ ctc >= 7500000 => 1000 * year <= 832 * (ctc - 7500000) + 500
    BY <1>7, SeededTds, SMT
  <2> QED
    BY <2>1, <2>2, <2>3, <2>4, <2>5, <2>6, GrossCovers, SMT
<1> QED
  BY <1>9, <1>11, <1>12

\* That is what RatesAreBearable asks.
LEMMA SeededRatesAreBearable ==
  ASSUME Rates = SeededRates(1)
  PROVE  RatesAreBearable
<1> SUFFICES ASSUME NEW ctc \in Ctcs, NEW basic \in Components \cup {NoAmount},
                    NEW days \in MonthLengths, NEW inForce \in SUBSET Deductions,
                    Positive(basic) <= ctc
             PROVE  LET gross == Share(ctc, <<1, 12>>) IN
                    computePayslip(gross, monthlyBasic(basic, gross), days, 0, ctc, inForce).net >= 0
  BY DEF RatesAreBearable
<1>1. ctc \in Nat /\ days \in Nat \ {0}
  BY AmountsAssumption
<1>2. basic = NoAmount \/ (basic \in Nat /\ basic <= ctc)
  BY <1>1, AmountsAssumption DEF Positive
<1>3. PICK gross \in Nat : gross = Share(ctc, <<1, 12>>)
  BY <1>1, ShareType
<1>4. PICK monthly \in Nat : monthly = monthlyBasic(basic, gross) /\ monthly <= gross
  BY <1>1, <1>2, <1>3, BasicInGross
<1>5. computePayslip(gross, monthly, days, 0, ctc, inForce).net >= 0
  BY <1>1, <1>3, <1>4, WholeMonthIsPaid
<1> QED
  BY <1>3, <1>4, <1>5

\* With the rates the database is seeded with, PayslipAddsUp holds for any
\* salaries, components and months.
THEOREM SeededPayslipsAddUp ==
  ASSUME Rates = SeededRates(1)
  PROVE  SlipSpec => []PayslipAddsUp
BY SeededRatesAreBearable, PayslipsAddUp
===============================================================================
