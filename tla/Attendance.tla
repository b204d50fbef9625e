------------------------------ MODULE Attendance ------------------------------
(***************************************************************************)
(* The attendance of one employee: AttendanceService.checkIn, checkOut,    *)
(* requestRegularisation and decide, with WorkTimeCalculator.              *)
(*                                                                         *)
(* Rows of different employees never meet.  There is one row per day and,  *)
(* by a unique index, one request per row, so both are functions of days.  *)
(* Time passes in ticks, several to the minute, because worked time is     *)
(* counted in whole minutes.  A call gives way to others, and to time, at  *)
(* each query; it is a slot of `calls`, whose pc names its next query.     *)
(* What a check-in or check-out reads, and the time it takes after that,   *)
(* are of one instant; the date, which it has taken before, may be over.   *)
(***************************************************************************)
EXTENDS Integers, FiniteSets

CONSTANTS
  Days,           \* days that pass; the clock stops in the night after them
  DayLength,      \* ticks of a day
  TicksPerMinute,
  FullDay,        \* FULL_DAY_MINUTES
  AskedTimes,     \* ticks of the day that requests ask for as check-in and as check-out,
                  \* None for a time that one leaves open
  AskedStatus,    \* statuses that requests ask for
  MaxSessions,    \* check-ins of a day
  MaxFailures,    \* calls that end at a query (query error, crash)
  Calls,          \* slots for calls in flight
  None

ASSUME TimeAssumption ==
  /\ Days \in Nat \ {0} /\ DayLength \in Nat \ {0} /\ TicksPerMinute \in Nat \ {0}
  /\ FullDay \in Nat \ {0}
  /\ AskedTimes \subseteq ((0 .. DayLength - 1) \cup {None}) \X ((0 .. DayLength - 1) \cup {None})
Status == {"PRESENT", "ABSENT", "HALF_DAY", "ON_LEAVE", "HOLIDAY", "WEEKLY_OFF"}
ASSUME StatusAssumption == AskedStatus \subseteq Status
ASSUME BoundsAssumption == MaxSessions \in Nat /\ MaxFailures \in Nat
ASSUME NoneAssumption == None \notin Int

VARIABLES
  now,       \* the clock
  record,    \* day -> attendance record
  request,   \* day -> regularisation request of that record
  calls,     \* slot -> call in flight
  failures,  \* calls cut short so far
  inside,    \* history: the employee has checked in and not out, today
  present,   \* history: day -> ticks spent inside
  sessions,  \* history: day -> check-ins
  applied,   \* history: days whose record a decision has changed
  raced      \* history: days with two calls in flight at once, one cut short, or a
             \* check-in or check-out that came after midnight

vars == <<now, record, request, calls, failures, inside, present, sessions, applied, raced>>

----------------------------------------------------------------------------

Dates == 0 .. Days - 1
Times == 0 .. Days * DayLength
Today == now \div DayLength

Record ==
  [in : Times \cup {None}, out : Times \cup {None}, worked : Nat, status : Status]
NoRecord == [status |-> "NONE"]
Request ==
  [status : {"PENDING", "APPROVED", "REJECTED"}, to : Status,
   in : Times \cup {None}, out : Times \cup {None}]
NoRequest == [status |-> "NONE"]

Idle == [pc |-> "idle"]
InCall == [pc : {"open"}, day : Dates, at : Times]
OutCall == [pc : {"close"}, day : Dates, at : Times, total : Nat]
RequestCall == [pc : {"row", "request"}, day : Dates, asked : Request]
DecideCall == [pc : {"apply", "decide"}, day : Dates, asked : Request,
               to : {"APPROVED", "REJECTED"}]

InFlight(d) == {c \in Calls : calls[c] # Idle /\ calls[c].day = d}

\* The employee's clicks are of today; the day may have ended since.
Late(d, call) == call.pc \in {"open", "close"} /\ d # Today

\* A call about the record of day d starts.
Start(c, d, call) ==
  /\ calls[c] = Idle
  /\ calls' = [calls EXCEPT ![c] = call]
  /\ raced' = IF InFlight(d) = {} /\ ~Late(d, call) THEN raced ELSE raced \cup {d}

Goto(c, pc) == calls' = [calls EXCEPT ![c].pc = pc]
Return(c) == calls' = [calls EXCEPT ![c] = Idle]

----------------------------------------------------------------------------
(* WorkTimeCalculator *)

WorkedMinutes(from, to) == IF to <= from THEN 0 ELSE (to - from) \div TicksPerMinute

\* HALF_DAY_MINUTES makes no difference: less than half a day is HALF_DAY too.
DeriveStatus(minutes) ==
  CASE minutes >= FullDay -> "PRESENT"
    [] minutes > 0 /\ minutes < FullDay -> "HALF_DAY"
    [] OTHER -> "ABSENT"

----------------------------------------------------------------------------
(* Clocking *)

HasRecord(d) == record[d] # NoRecord
IsOpen(d) == HasRecord(d) /\ record[d].in # None /\ record[d].out = None

\* The date a call took is today's unless midnight passed while it read.
DateTaken(d) == d \in {Today, Today - 1}

\* checkIn reads the record of its date; the time is taken after that.
CheckInStart(c, d) ==
  /\ DateTaken(d)
  /\ ~IsOpen(d)
  /\ sessions[d] < MaxSessions
  /\ Start(c, d, [pc |-> "open", day |-> d, at |-> now])
  /\ inside' = IF d = Today THEN TRUE ELSE inside
  /\ sessions' = [sessions EXCEPT ![d] = @ + 1]
  /\ UNCHANGED <<now, record, request, failures, present, applied>>

\* Seeded fault: a new session starts the count of the day again.
ReopenedAfresh(rec, at) == [rec EXCEPT !.in = at, !.out = None, !.status = "PRESENT", !.worked = 0]

\* The minutes of earlier sessions are kept.
Reopened(rec, at) == [rec EXCEPT !.in = at, !.out = None, !.status = "PRESENT"]

CheckInWrite(c) ==
  LET call == calls[c]
      rec == IF HasRecord(call.day)
               THEN Reopened(record[call.day], call.at)
               ELSE [in |-> call.at, out |-> None, worked |-> 0, status |-> "PRESENT"]
  IN /\ call.pc = "open"
     /\ record' = [record EXCEPT ![call.day] = rec]
     /\ Return(c)
     /\ UNCHANGED <<now, request, failures, inside, present, sessions, applied, raced>>

\* checkOut reads the record of its date and adds up.
CheckOutStart(c, d) ==
  /\ DateTaken(d)
  /\ IsOpen(d)
  /\ Start(c, d,
       [pc |-> "close", day |-> d, at |-> now,
        total |-> record[d].worked + WorkedMinutes(record[d].in, now)])
  /\ inside' = IF d = Today THEN FALSE ELSE inside
  /\ UNCHANGED <<now, record, request, failures, present, sessions, applied>>

CheckOutWrite(c) ==
  LET call == calls[c] IN
  /\ call.pc = "close"
  /\ record' = [record EXCEPT ![call.day] =
       [@ EXCEPT !.out = call.at, !.worked = call.total, !.status = DeriveStatus(call.total)]]
  /\ Return(c)
  /\ UNCHANGED <<now, request, failures, inside, present, sessions, applied, raced>>

----------------------------------------------------------------------------
(* Regularisation *)

\* requestRegularisation reads the record of any date, past or to come.
RequestStart(c, d, asked) ==
  /\ Start(c, d, [pc |-> IF HasRecord(d) THEN "request" ELSE "row", day |-> d, asked |-> asked])
  /\ UNCHANGED <<now, record, request, failures, inside, present, sessions, applied>>

\* The upsert leaves a record alone that is there by now.
RequestRow(c) ==
  LET d == calls[c].day IN
  /\ calls[c].pc = "row"
  /\ record' = IF HasRecord(d) THEN record
               ELSE [record EXCEPT ![d] =
                       [in |-> None, out |-> None, worked |-> 0, status |-> "ABSENT"]]
  /\ Goto(c, "request")
  /\ UNCHANGED <<now, request, failures, inside, present, sessions, applied, raced>>

\* Seeded fault: a new request takes the place of the one before.
RequestableAgain(d) == TRUE

\* attendanceId is unique: a second request for a record is an error.
Requestable(d) == request[d] = NoRequest

RequestCreate(c) ==
  LET call == calls[c] IN
  /\ call.pc = "request"
  /\ request' = IF Requestable(call.day)
                  THEN [request EXCEPT ![call.day] = call.asked] ELSE request
  /\ Return(c)
  /\ UNCHANGED <<now, record, failures, inside, present, sessions, applied, raced>>

\* Seeded fault: a rejection is applied too.
FirstStepApply(to) == "apply"

\* Seeded fault: an approval is only noted.
FirstStepDecide(to) == "decide"

\* Only an approval touches the record, and it does so first.
FirstStep(to) == IF to = "APPROVED" THEN "apply" ELSE "decide"

DecideStart(c, d, to) ==
  /\ request[d].status = "PENDING"
  /\ Start(c, d, [pc |-> FirstStep(to), day |-> d, asked |-> request[d], to |-> to])
  /\ UNCHANGED <<now, record, request, failures, inside, present, sessions, applied>>

\* The times a request leaves open stay as they are.
Regularised(rec, asked) ==
  [rec EXCEPT !.status = asked.to,
              !.in = IF asked.in = None THEN rec.in ELSE asked.in,
              !.out = IF asked.out = None THEN rec.out ELSE asked.out]

DecideApply(c) ==
  LET d == calls[c].day IN
  /\ calls[c].pc = "apply"
  /\ record' = [record EXCEPT ![d] = Regularised(@, calls[c].asked)]
  /\ applied' = applied \cup {d}
  /\ Goto(c, "decide")
  /\ UNCHANGED <<now, request, failures, inside, present, sessions, raced>>

DecideWrite(c) ==
  /\ calls[c].pc = "decide"
  /\ request' = [request EXCEPT ![calls[c].day].status = calls[c].to]
  /\ Return(c)
  /\ UNCHANGED <<now, record, failures, inside, present, sessions, applied, raced>>

----------------------------------------------------------------------------

\* A session that is open at midnight belongs to the day that is over.
Tick ==
  /\ now + 1 \in Times
  /\ now' = now + 1
  /\ present' = IF inside THEN [present EXCEPT ![Today] = @ + 1] ELSE present
  /\ inside' = (inside /\ (now + 1) \div DayLength = Today)
  /\ UNCHANGED <<record, request, calls, failures, sessions, applied, raced>>

\* A query fails or the process dies: what the call has written stays written.
Fail(c) ==
  /\ failures < MaxFailures
  /\ failures' = failures + 1
  /\ calls[c] # Idle
  /\ raced' = raced \cup {calls[c].day}
  /\ Return(c)
  /\ UNCHANGED <<now, record, request, inside, present, sessions, applied>>

Init ==
  /\ now = 0
  /\ record = [d \in Dates |-> NoRecord]
  /\ request = [d \in Dates |-> NoRequest]
  /\ calls = [c \in Calls |-> Idle]
  /\ failures = 0
  /\ inside = FALSE
  /\ present = [d \in Dates |-> 0]
  /\ sessions = [d \in Dates |-> 0]
  /\ applied = {}
  /\ raced = {}

\* Requests for a status, with a time of the day, both times or none.
TimeOf(d, tick) == IF tick = None THEN None ELSE d * DayLength + tick
Asked(d) ==
  {[status |-> "PENDING", to |-> to, in |-> TimeOf(d, times[1]), out |-> TimeOf(d, times[2])] :
     to \in AskedStatus, times \in AskedTimes}

Next ==
  \/ Tick
  \/ \E c \in Calls :
       \/ \E d \in Dates : CheckInStart(c, d) \/ CheckOutStart(c, d)
       \/ CheckInWrite(c) \/ CheckOutWrite(c)
       \/ \E d \in Dates : \E asked \in Asked(d) : RequestStart(c, d, asked)
       \/ RequestRow(c) \/ RequestCreate(c)
       \/ \E d \in Dates, to \in {"APPROVED", "REJECTED"} : DecideStart(c, d, to)
       \/ DecideApply(c) \/ DecideWrite(c)
       \/ Fail(c)

Spec == Init /\ [][Next]_vars

----------------------------------------------------------------------------
(* Properties *)

\* Rows and calls have the shape the schema and the code give them, and only
\* approvals carry a record to be changed.
TypeOK ==
  /\ now \in Times
  /\ record \in [Dates -> Record \cup {NoRecord}]
  /\ request \in [Dates -> Request \cup {NoRequest}]
  /\ calls \in [Calls -> {Idle} \cup InCall \cup OutCall \cup RequestCall \cup DecideCall]
  /\ \A c \in Calls : calls[c].pc = "apply" => calls[c].to = "APPROVED"
  /\ failures \in 0 .. MaxFailures
  /\ inside \in BOOLEAN
  /\ present \in [Dates -> 0 .. DayLength]
  /\ sessions \in [Dates -> 0 .. MaxSessions]
  /\ applied \subseteq Dates /\ raced \subseteq Dates

\* attendance.service.ts:105: over all sessions of a day the record counts the
\* whole minutes the employee was there, less than a minute short per session,
\* and the status follows from them; the record is open while the employee is
\* inside.  This is of days nobody regularised, without overlapping calls and
\* without a check-in or check-out that midnight overtook.
DayIsRecorded ==
  \A d \in Dates \ (raced \cup applied) : HasRecord(d) /\ InFlight(d) = {} =>
    LET rec == record[d]
        counted == rec.worked * TicksPerMinute
    IN /\ d = Today => (inside <=> IsOpen(d))
       /\ rec.out # None =>
            /\ counted <= present[d]
            /\ present[d] <= counted + sessions[d] * (TicksPerMinute - 1)
            /\ rec.status = DeriveStatus(rec.worked)

\* docs/03, 3.3: "a regularised record links to the request that changed it":
\* an APPROVED request has been applied even if decisions overlap or fail, and
\* without that nothing else has changed a record.
RegularisedByApproval ==
  \A d \in Dates :
    /\ request[d].status = "APPROVED" => d \in applied
    /\ d \in applied \ raced /\ InFlight(d) = {} => request[d].status = "APPROVED"

\* A request is decided once, and asks for nothing else afterwards, unless
\* decisions overlap.
DecisionIsFinal ==
  [][\A d \in Dates :
       request[d].status \in {"APPROVED", "REJECTED"} /\ request'[d] # request[d] =>
         d \in raced]_request
=============================================================================
