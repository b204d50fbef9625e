--------------------------- MODULE AttendanceProofs ---------------------------
(***************************************************************************)
(* The properties of Attendance for every length of a day and of a minute, *)
(* every number of days, calls and sessions: TypeOK, RegularisedByApproval,*)
(* DecisionIsFinal and DayIsRecorded.                                      *)
(***************************************************************************)
EXTENDS Attendance, TLAPS

----------------------------------------------------------------------------
(* Arithmetic *)

\* Whole units, and what is left of the next.
LEMMA WholeUnits ==
  ASSUME NEW n \in Nat, NEW unit \in Nat \ {0}
  PROVE  /\ n \div unit \in Nat
         /\ (n \div unit) * unit <= n /\ n < (n \div unit) * unit + unit
BY Z3

\* Days end before the next begin.
LEMMA DaysApart ==
  ASSUME NEW d \in Nat, NEW e \in Nat, d < e, NEW unit \in Nat
  PROVE  d * unit \in Nat /\ e * unit \in Nat /\ d * unit + unit <= e * unit
BY Z3

\* A clock that is within a day names that day; the days go on.
LEMMA DayAt ==
  ASSUME NEW n \in Nat, NEW unit \in Nat \ {0}, NEW d \in Nat, d * unit <= n, n < d * unit + unit
  PROVE  n \div unit = d
BY Z3

\* The quotient grows with the dividend: time does not go back to an earlier day.
LEMMA DaysGoOn ==
  ASSUME NEW n \in Nat, NEW m \in Nat, n <= m, NEW unit \in Nat \ {0}
  PROVE  n \div unit <= m \div unit
BY Z3

\* The minutes that are counted of a session, on top of those of the earlier ones.
LEMMA SessionAdds ==
  ASSUME NEW w \in Nat, NEW q \in Nat, NEW p \in Nat, NEW x \in Nat, NEW s \in Nat, s >= 1,
         NEW unit \in Nat \ {0},
         w * unit <= p - x, p - x <= w * unit + (s - 1) * (unit - 1),
         q * unit <= x, x < q * unit + unit
  PROVE  (w + q) * unit <= p /\ p <= (w + q) * unit + s * (unit - 1)
BY Z3

----------------------------------------------------------------------------
(* Calls *)

AnyCall == {Idle} \cup InCall \cup OutCall \cup RequestCall \cup DecideCall

\* What the pc of a call says about its fields.
LEMMA CallFields ==
  ASSUME TypeOK, NEW c \in Calls
  PROVE  /\ calls[c] = Idle <=> calls[c].pc = "idle"
         /\ calls[c].pc \in {"idle", "open", "close", "row", "request", "apply", "decide"}
         /\ calls[c].pc # "idle" => calls[c].day \in Dates
         /\ calls[c].pc = "open" => calls[c] \in InCall
         /\ calls[c].pc = "close" => calls[c] \in OutCall
         /\ calls[c].pc \in {"row", "request"} => calls[c] \in RequestCall
         /\ calls[c].pc \in {"apply", "decide"} => calls[c] \in DecideCall
<1>1. \/ calls[c] = Idle \/ calls[c] \in InCall \/ calls[c] \in OutCall
      \/ calls[c] \in RequestCall \/ calls[c] \in DecideCall
  BY DEF TypeOK
<1>2. CASE calls[c] = Idle
  BY <1>2 DEF Idle
<1>3. CASE calls[c] \in InCall
  BY <1>3 DEF InCall, Idle
<1>4. CASE calls[c] \in OutCall
  BY <1>4 DEF OutCall, Idle
<1>5. CASE calls[c] \in RequestCall
  BY <1>5 DEF RequestCall, Idle
<1>6. CASE calls[c] \in DecideCall
  BY <1>6 DEF DecideCall, Idle
<1> QED
  BY <1>1, <1>2, <1>3, <1>4, <1>5, <1>6

\* The calls about a day.
LEMMA FlightFields ==
  ASSUME TypeOK, NEW d, NEW c
  PROVE  c \in InFlight(d) <=> c \in Calls /\ calls[c].pc # "idle" /\ calls[c].day = d
BY CallFields DEF InFlight

\* Only the one call moves.
Only(c) == \A b \in Calls \ {c} : calls'[b] = calls[b]

\* A call starts in a free slot; unless it is noted as a race it is alone and,
\* if it is a check-in or check-out, of today.
LEMMA StartMoves ==
  ASSUME TypeOK, NEW c \in Calls, NEW d \in Dates, NEW call \in AnyCall, Start(c, d, call)
  PROVE  /\ calls[c].pc = "idle" /\ calls'[c] = call /\ Only(c)
         /\ calls' \in [Calls -> AnyCall]
         /\ raced \subseteq raced' /\ raced' \subseteq Dates
         /\ d \notin raced' => InFlight(d) = {} /\ (call.pc \in {"open", "close"} => d = Today)
BY DEF TypeOK, Start, Late, Only, AnyCall, Idle

\* A call that ends leaves its slot.
LEMMA ReturnMoves ==
  ASSUME TypeOK, NEW c \in Calls, Return(c)
  PROVE  calls'[c] = Idle /\ calls'[c].pc = "idle" /\ Only(c) /\ calls' \in [Calls -> AnyCall]
BY DEF TypeOK, Return, Only, AnyCall, Idle

\* A call that goes on keeps its day and what it carries.
LEMMA GotoMoves ==
  ASSUME TypeOK, NEW c \in Calls, NEW pc, Goto(c, pc)
  PROVE  /\ Only(c)
         /\ calls[c].pc \in {"row", "request"} /\ pc = "request" =>
              /\ calls' \in [Calls -> AnyCall] /\ calls'[c].pc = pc
              /\ calls'[c].day = calls[c].day /\ calls'[c].asked = calls[c].asked
         /\ calls[c].pc \in {"apply", "decide"} /\ pc = "decide" =>
              /\ calls' \in [Calls -> AnyCall] /\ calls'[c].pc = pc
              /\ calls'[c].day = calls[c].day /\ calls'[c].to = calls[c].to
<1> DEFINE moved == [calls[c] EXCEPT !.pc = pc]
<1>0. calls \in [Calls -> AnyCall]
  BY DEF TypeOK, AnyCall
<1>1. calls'[c] = moved /\ Only(c)
  BY <1>0 DEF Goto, Only
<1>2. moved \in AnyCall => calls' \in [Calls -> AnyCall]
  BY <1>0 DEF Goto
<1>3. CASE calls[c].pc \in {"row", "request"} /\ pc = "request"
  <2>1. calls[c] \in RequestCall
    BY <1>3, CallFields
  <2>2. /\ moved \in RequestCall /\ moved.pc = pc
        /\ moved.day = calls[c].day /\ moved.asked = calls[c].asked
    BY <1>3, <2>1 DEF RequestCall
  <2> QED
    BY <1>1, <1>2, <1>3, <2>2 DEF AnyCall
<1>4. CASE calls[c].pc \in {"apply", "decide"} /\ pc = "decide"
  <2>1. calls[c] \in DecideCall
    BY <1>4, CallFields
  <2>2. /\ moved \in DecideCall /\ moved.pc = pc
        /\ moved.day = calls[c].day /\ moved.to = calls[c].to
    BY <1>4, <2>1 DEF DecideCall
  <2> QED
    BY <1>1, <1>2, <1>4, <2>2 DEF AnyCall
<1> QED
  BY <1>1, <1>3, <1>4

----------------------------------------------------------------------------
(* Shape *)

\* What has passed of a day.
Elapsed(d) == IF now <= d * DayLength THEN 0 ELSE now - d * DayLength

\* What TypeOK needs to be inductive: a call that changes a row has seen that
\* row, which stays; only requests that were not decided are stored; who is
\* inside is so today, and no longer than the day has lasted.  That an approval
\* is applied before it is noted, the last two conjuncts but two, is also one
\* half of RegularisedByApproval.
Stored ==
  /\ \A c \in Calls : calls[c].pc \in {"close", "request", "apply", "decide"} =>
       HasRecord(calls[c].day)
  /\ \A c \in Calls : calls[c].pc \in {"apply", "decide"} => request[calls[c].day] # NoRequest
  /\ \A d \in Dates : request[d] # NoRequest => HasRecord(d)
  /\ \A c \in Calls : calls[c].pc \in {"row", "request"} => calls[c].asked.status = "PENDING"
  /\ \A c \in Calls : calls[c].pc = "decide" /\ calls[c].to = "APPROVED" =>
       calls[c].day \in applied
  /\ \A d \in Dates : request[d].status = "APPROVED" => d \in applied
  /\ inside => Today \in Dates
  /\ \A d \in Dates : present[d] <= Elapsed(d)

Shape == TypeOK /\ Stored

\* The steps of a call.
StepOf(c) ==
  \/ \E d \in Dates : CheckInStart(c, d) \/ CheckOutStart(c, d)
  \/ CheckInWrite(c) \/ CheckOutWrite(c)
  \/ \E d \in Dates : \E asked \in Asked(d) : RequestStart(c, d, asked)
  \/ RequestRow(c) \/ RequestCreate(c)
  \/ \E d \in Dates, to \in {"APPROVED", "REJECTED"} : DecideStart(c, d, to)
  \/ DecideApply(c) \/ DecideWrite(c)
  \/ Fail(c)

\* A step is a tick or one of a call.
LEMMA Steps == ASSUME [Next]_vars PROVE Tick \/ (\E c \in Calls : StepOf(c)) \/ UNCHANGED vars
BY DEF Next, StepOf

\* A time of a request lies within the days that pass.
LEMMA TimesAsked ==
  ASSUME NEW d \in Dates, NEW asked \in Asked(d)
  PROVE  asked \in Request /\ asked.status = "PENDING"
<1>0. Days \in Nat /\ DayLength \in Nat \ {0}
  BY TimeAssumption
<1>1. ASSUME NEW i \in 0 .. DayLength - 1 PROVE d * DayLength + i \in Times
  <2>1. d \in Nat /\ d < Days /\ i \in Nat /\ i < DayLength
    BY <1>0 DEF Dates
  <2>2. d * DayLength \in Nat /\ Days * DayLength \in Nat /\ d * DayLength + DayLength <= Days * DayLength
    BY <1>0, <2>1, DaysApart
  <2> DEFINE x == d * DayLength
             y == Days * DayLength
  <2> HIDE DEF x, y
  <2>3. x \in Nat /\ y \in Nat /\ x + DayLength <= y
    BY <2>2 DEF x, y
  <2>4. x + i \in 0 .. y
    BY <1>0, <2>1, <2>3
  <2> QED
    BY <2>4 DEF Times, x, y
<1>2. ASSUME NEW tick \in (0 .. DayLength - 1) \cup {None} PROVE TimeOf(d, tick) \in Times \cup {None}
  BY <1>1 DEF TimeOf
<1>3. PICK to \in AskedStatus, times \in AskedTimes :
        asked = [status |-> "PENDING", to |-> to, in |-> TimeOf(d, times[1]), out |-> TimeOf(d, times[2])]
  BY DEF Asked
<1>4. /\ to \in Status
      /\ times[1] \in (0 .. DayLength - 1) \cup {None} /\ times[2] \in (0 .. DayLength - 1) \cup {None}
  BY StatusAssumption, TimeAssumption
<1>5. TimeOf(d, times[1]) \in Times \cup {None} /\ TimeOf(d, times[2]) \in Times \cup {None}
  BY <1>2, <1>4
<1> QED
  BY <1>3, <1>4, <1>5 DEF Request

\* The minutes of a session are a natural number.
LEMMA MinutesCount ==
  ASSUME NEW from \in Nat, NEW to \in Nat
  PROVE  /\ WorkedMinutes(from, to) \in Nat
         /\ from <= to => WorkedMinutes(from, to) = (to - from) \div TicksPerMinute
<1>0. TicksPerMinute \in Nat \ {0}
  BY TimeAssumption
<1>1. CASE to < from
  BY <1>1 DEF WorkedMinutes
<1>2. CASE to = from
  <2>1. 0 \div TicksPerMinute = 0
    BY <1>0, DayAt
  <2> QED
    BY <1>2, <2>1 DEF WorkedMinutes
<1>3. CASE from < to
  BY <1>0, <1>3, WholeUnits DEF WorkedMinutes
<1> QED
  BY <1>1, <1>2, <1>3

\* What the minutes of a day amount to is a status.
LEMMA StatusDerived == ASSUME NEW minutes \in Nat PROVE DeriveStatus(minutes) \in Status
BY TimeAssumption DEF DeriveStatus, Status

\* Times are natural numbers, the clock is one of them, and a date begins at one.
LEMMA TimesAreNat ==
  /\ \A t \in Times : t \in Nat
  /\ TypeOK => now \in Nat /\ Today \in Nat
  /\ \A d \in Dates : d \in Nat /\ d * DayLength \in Nat
<1>0. Days \in Nat /\ DayLength \in Nat \ {0}
  BY TimeAssumption
<1>1. \A t \in Times : t \in Nat
  BY <1>0 DEF Times
<1>2. ASSUME TypeOK PROVE now \in Nat /\ Today \in Nat
  BY <1>0, <1>1, <1>2, WholeUnits DEF TypeOK, Today
<1>3. ASSUME NEW d \in Dates PROVE d \in Nat /\ d * DayLength \in Nat
  BY <1>0, DaysApart DEF Dates
<1> QED
  BY <1>1, <1>2, <1>3

\* Records keep their shape, and none is deleted.
LEMMA RecordMoves ==
  ASSUME Shape, [Next]_vars
  PROVE  /\ record' \in [Dates -> Record \cup {NoRecord}]
         /\ \A d \in Dates : HasRecord(d) => HasRecord(d)'
<1>t. record \in [Dates -> Record \cup {NoRecord}]
  BY DEF Shape, TypeOK
<1>n. \A r \in Record : r # NoRecord
  BY DEF Record, NoRecord
<1>1. ASSUME NEW c \in Calls, CheckInWrite(c)
      PROVE  \E d \in Dates, r \in Record : record' = [record EXCEPT ![d] = r]
  <2> DEFINE d == calls[c].day
  <2>1. d \in Dates /\ calls[c].at \in Times
    BY <1>1, CallFields DEF CheckInWrite, InCall, Shape
  <2>2. CASE HasRecord(d)
    <3>1. record[d] \in Record
      BY <1>t, <2>1, <2>2 DEF HasRecord
    <3>2. Reopened(record[d], calls[c].at) \in Record
      BY <2>1, <3>1 DEF Reopened, Record, Status
    <3> QED
      BY <1>1, <2>1, <2>2, <3>2 DEF CheckInWrite
  <2>3. CASE ~HasRecord(d)
    <3>1. [in |-> calls[c].at, out |-> None, worked |-> 0, status |-> "PRESENT"] \in Record
      BY <2>1 DEF Record, Status
    <3> QED
      BY <1>1, <2>1, <2>3, <3>1 DEF CheckInWrite
  <2> QED
    BY <2>2, <2>3
<1>2. ASSUME NEW c \in Calls, CheckOutWrite(c)
      PROVE  \E d \in Dates, r \in Record : record' = [record EXCEPT ![d] = r]
  <2> DEFINE call == calls[c]
             r == [record[call.day] EXCEPT !.out = call.at, !.worked = call.total,
                                           !.status = DeriveStatus(call.total)]
  <2>1. call.pc = "close" /\ call.day \in Dates /\ call.at \in Times /\ call.total \in Nat
    BY <1>2, CallFields DEF CheckOutWrite, OutCall, Shape
  <2>2. record[call.day] \in Record
    BY <1>t, <2>1 DEF Shape, Stored, HasRecord
  <2>3. r \in Record
    BY <2>1, <2>2, StatusDerived DEF Record
  <2>4. record' = [record EXCEPT ![call.day] = r]
    BY <1>2 DEF CheckOutWrite
  <2> QED
    BY <2>1, <2>3, <2>4
<1>3. ASSUME NEW c \in Calls, RequestRow(c)
      PROVE  UNCHANGED record \/ \E d \in Dates, r \in Record : record' = [record EXCEPT ![d] = r]
  <2>1. calls[c].day \in Dates
    BY <1>3, CallFields DEF RequestRow, Shape
  <2>2. [in |-> None, out |-> None, worked |-> 0, status |-> "ABSENT"] \in Record
    BY DEF Record, Status
  <2> QED
    BY <1>3, <2>1, <2>2 DEF RequestRow
<1>4. ASSUME NEW c \in Calls, DecideApply(c)
      PROVE  \E d \in Dates, r \in Record : record' = [record EXCEPT ![d] = r]
  <2> DEFINE d == calls[c].day
             asked == calls[c].asked
  <2>1. calls[c].pc = "apply" /\ d \in Dates /\ asked \in Request
    BY <1>4, CallFields DEF DecideApply, DecideCall, Shape
  <2>2. record[d] \in Record
    BY <1>t, <2>1 DEF Shape, Stored, HasRecord
  <2>3. Regularised(record[d], asked) \in Record
    BY <2>1, <2>2 DEF Regularised, Record, Request
  <2> QED
    BY <1>4, <2>1, <2>3 DEF DecideApply
<1>5. UNCHANGED record \/ \E d \in Dates, r \in Record : record' = [record EXCEPT ![d] = r]
  BY <1>1, <1>2, <1>3, <1>4, Steps
  DEF StepOf, Tick, CheckInStart, CheckOutStart, RequestStart, RequestCreate, DecideStart,
      DecideWrite, Fail, vars
<1> QED
  BY <1>t, <1>n, <1>5 DEF HasRecord

\* Requests keep their shape, none is deleted, and a decision says what it is.
LEMMA RequestMoves ==
  ASSUME Shape, [Next]_vars
  PROVE  /\ request' \in [Dates -> Request \cup {NoRequest}]
         /\ \A d \in Dates :
              \/ request'[d] = request[d]
              \/ \E c \in Calls : /\ RequestCreate(c) /\ calls[c].day = d /\ request[d] = NoRequest
                                  /\ calls[c].pc = "request"
                                  /\ request'[d] # NoRequest /\ request'[d].status = "PENDING"
              \/ \E c \in Calls : /\ DecideWrite(c) /\ calls[c].day = d /\ request[d] # NoRequest
                                  /\ calls[c].pc = "decide"
                                  /\ request'[d] # NoRequest /\ request'[d].status = calls[c].to
<1>t. request \in [Dates -> Request \cup {NoRequest}]
  BY DEF Shape, TypeOK
<1>n. \A r \in Request : r # NoRequest
  BY DEF Request, NoRequest
<1>1. ASSUME NEW c \in Calls, RequestCreate(c)
      PROVE  \/ UNCHANGED request
             \/ /\ calls[c].pc = "request" /\ calls[c].day \in Dates
                /\ request[calls[c].day] = NoRequest
                /\ calls[c].asked \in Request /\ calls[c].asked.status = "PENDING"
                /\ request' = [request EXCEPT ![calls[c].day] = calls[c].asked]
  <2>1. /\ calls[c].pc = "request" /\ calls[c].day \in Dates
        /\ calls[c].asked \in Request /\ calls[c].asked.status = "PENDING"
    BY <1>1, CallFields DEF RequestCreate, RequestCall, Shape, Stored
  <2> QED
    BY <1>1, <2>1 DEF RequestCreate, Requestable
<1>2. ASSUME NEW c \in Calls, DecideWrite(c)
      PROVE  /\ calls[c].pc = "decide" /\ calls[c].day \in Dates
             /\ request[calls[c].day] # NoRequest
             /\ \E r \in Request : /\ r.status = calls[c].to
                                   /\ request' = [request EXCEPT ![calls[c].day] = r]
  <2> DEFINE r == [request[calls[c].day] EXCEPT !.status = calls[c].to]
  <2>1. /\ calls[c].pc = "decide" /\ calls[c].day \in Dates
        /\ calls[c].to \in {"APPROVED", "REJECTED"} /\ request[calls[c].day] # NoRequest
    BY <1>2, CallFields DEF DecideWrite, DecideCall, Shape, Stored
  <2>2. request[calls[c].day] \in Request
    BY <1>t, <2>1
  <2>3. r \in Request /\ r.status = calls[c].to
    BY <2>1, <2>2 DEF Request
  <2>4. request' = [request EXCEPT ![calls[c].day] = r]
    BY <1>2 DEF DecideWrite
  <2> QED
    BY <2>1, <2>3, <2>4
<1>3. \/ UNCHANGED request
      \/ \E c \in Calls : RequestCreate(c) \/ DecideWrite(c)
  BY Steps
  DEF StepOf, Tick, CheckInStart, CheckInWrite, CheckOutStart, CheckOutWrite, RequestStart,
      RequestRow, DecideStart, DecideApply, Fail, vars
<1>4. CASE UNCHANGED request
  BY <1>t, <1>4
<1>5. ASSUME NEW c \in Calls, RequestCreate(c), ~UNCHANGED request
      PROVE  /\ request' \in [Dates -> Request \cup {NoRequest}]
             /\ \A d \in Dates :
                  \/ request'[d] = request[d]
                  \/ /\ RequestCreate(c) /\ calls[c].day = d /\ request[d] = NoRequest
                     /\ calls[c].pc = "request"
                     /\ request'[d] # NoRequest /\ request'[d].status = "PENDING"
  BY <1>1, <1>5, <1>t, <1>n
<1>6. ASSUME NEW c \in Calls, DecideWrite(c)
      PROVE  /\ request' \in [Dates -> Request \cup {NoRequest}]
             /\ \A d \in Dates :
                  \/ request'[d] = request[d]
                  \/ /\ DecideWrite(c) /\ calls[c].day = d /\ request[d] # NoRequest
                     /\ calls[c].pc = "decide"
                     /\ request'[d] # NoRequest /\ request'[d].status = calls[c].to
  BY <1>2, <1>6, <1>t, <1>n
<1> QED
  BY <1>3, <1>4, <1>5, <1>6

\* The steps that end a call.
EndOf(c) ==
  CheckInWrite(c) \/ CheckOutWrite(c) \/ RequestCreate(c) \/ DecideWrite(c) \/ Fail(c)

\* Where a call has come from.  One that starts finds its slot free and says
\* what it has read; every other keeps its day and what it carries.
LEMMA CallMoves ==
  ASSUME Shape, [Next]_vars
  PROVE  /\ calls' \in [Calls -> AnyCall]
         /\ \A c \in Calls :
              \/ calls'[c] = calls[c]
              \/ Only(c) /\ calls'[c].pc = "idle" /\ EndOf(c)
              \/ /\ Only(c) /\ \E d \in Dates :
                      /\ CheckInStart(c, d) /\ calls'[c].pc = "open" /\ calls'[c].day = d
                      /\ calls'[c].at = now
              \/ /\ Only(c) /\ \E d \in Dates :
                      /\ CheckOutStart(c, d) /\ calls'[c].pc = "close" /\ calls'[c].day = d
                      /\ calls'[c].total = record[d].worked + WorkedMinutes(record[d].in, now)
                      /\ HasRecord(d)
              \/ /\ Only(c) /\ \E d \in Dates : \E asked \in Asked(d) :
                      /\ RequestStart(c, d, asked) /\ calls'[c].day = d
                      /\ calls'[c].pc = IF HasRecord(d) THEN "request" ELSE "row"
                      /\ calls'[c].asked.status = "PENDING"
              \/ /\ Only(c) /\ \E d \in Dates, to \in {"APPROVED", "REJECTED"} :
                      /\ DecideStart(c, d, to) /\ calls'[c].day = d /\ calls'[c].to = to
                      /\ calls'[c].pc = FirstStep(to) /\ request[d] # NoRequest
              \/ /\ Only(c) /\ RequestRow(c) /\ calls[c].pc = "row" /\ calls'[c].pc = "request"
                 /\ calls'[c].day = calls[c].day /\ calls'[c].asked = calls[c].asked
              \/ /\ Only(c) /\ DecideApply(c) /\ calls[c].pc = "apply" /\ calls'[c].pc = "decide"
                 /\ calls'[c].day = calls[c].day /\ calls'[c].to = calls[c].to
<1>t. calls \in [Calls -> AnyCall] /\ record \in [Dates -> Record \cup {NoRecord}]
  BY DEF Shape, TypeOK, AnyCall
<1>1. ASSUME NEW c \in Calls, NEW d \in Dates, CheckInStart(c, d)
      PROVE  /\ Only(c) /\ calls' \in [Calls -> AnyCall]
             /\ calls'[c].pc = "open" /\ calls'[c].day = d /\ calls'[c].at = now
  <2> DEFINE call == [pc |-> "open", day |-> d, at |-> now]
  <2>1. Start(c, d, call)
    BY <1>1 DEF CheckInStart
  <2>2. call \in AnyCall
    BY <2>1 DEF AnyCall, InCall, Shape, TypeOK
  <2> QED
    BY <2>1, <2>2, StartMoves DEF Shape
<1>2. ASSUME NEW c \in Calls, NEW d \in Dates, CheckOutStart(c, d)
      PROVE  /\ Only(c) /\ calls' \in [Calls -> AnyCall]
             /\ calls'[c].pc = "close" /\ calls'[c].day = d /\ HasRecord(d)
             /\ calls'[c].total = record[d].worked + WorkedMinutes(record[d].in, now)
  <2> DEFINE total == record[d].worked + WorkedMinutes(record[d].in, now)
             call == [pc |-> "close", day |-> d, at |-> now, total |-> total]
  <2>1. IsOpen(d) /\ Start(c, d, call)
    BY <1>2 DEF CheckOutStart
  <2>2. record[d] \in Record /\ record[d].in \in Nat
    BY <1>t, <2>1, TimesAreNat DEF IsOpen, HasRecord, Record
  <2>3. total \in Nat
    <3>1. WorkedMinutes(record[d].in, now) \in Nat /\ record[d].worked \in Nat
      BY <2>2, MinutesCount, TimesAreNat DEF Record, Shape
    <3> QED
      BY <3>1
  <2>4. call \in AnyCall
    BY <2>1, <2>3 DEF AnyCall, OutCall, Shape, TypeOK
  <2> QED
    BY <2>1, <2>4, StartMoves DEF Shape, IsOpen
<1>3. ASSUME NEW c \in Calls, NEW d \in Dates, NEW asked \in Asked(d), RequestStart(c, d, asked)
      PROVE  /\ Only(c) /\ calls' \in [Calls -> AnyCall]
             /\ calls'[c].day = d /\ calls'[c].pc = IF HasRecord(d) THEN "request" ELSE "row"
             /\ calls'[c].asked.status = "PENDING"
  <2> DEFINE call == [pc |-> IF HasRecord(d) THEN "request" ELSE "row", day |-> d, asked |-> asked]
  <2>1. Start(c, d, call)
    BY <1>3 DEF RequestStart
  <2>2. call \in AnyCall /\ call.asked.status = "PENDING"
    BY TimesAsked DEF AnyCall, RequestCall
  <2> QED
    BY <2>1, <2>2, StartMoves DEF Shape
<1>4. ASSUME NEW c \in Calls, NEW d \in Dates, NEW to \in {"APPROVED", "REJECTED"},
             DecideStart(c, d, to)
      PROVE  /\ Only(c) /\ calls' \in [Calls -> AnyCall]
             /\ calls'[c].day = d /\ calls'[c].to = to /\ calls'[c].pc = FirstStep(to)
             /\ request[d] # NoRequest
  <2> DEFINE call == [pc |-> FirstStep(to), day |-> d, asked |-> request[d], to |-> to]
  <2>1. Start(c, d, call) /\ request[d].status = "PENDING"
    BY <1>4 DEF DecideStart
  <2>2. request[d] # NoRequest
    BY <2>1 DEF NoRequest
  <2>3. call \in AnyCall
    BY <2>2 DEF AnyCall, DecideCall, FirstStep, Shape, TypeOK
  <2> QED
    BY <2>1, <2>2, <2>3, StartMoves DEF Shape
<1>5. ASSUME NEW c \in Calls, EndOf(c)
      PROVE  Only(c) /\ calls' \in [Calls -> AnyCall] /\ calls'[c].pc = "idle"
  BY <1>5, ReturnMoves DEF EndOf, CheckInWrite, CheckOutWrite, RequestCreate, DecideWrite, Fail, Shape
<1>6. ASSUME NEW c \in Calls, RequestRow(c)
      PROVE  /\ Only(c) /\ calls' \in [Calls -> AnyCall]
             /\ calls[c].pc = "row" /\ calls'[c].pc = "request"
             /\ calls'[c].day = calls[c].day /\ calls'[c].asked = calls[c].asked
  <2>1. calls[c].pc = "row" /\ Goto(c, "request")
    BY <1>6 DEF RequestRow
  <2> QED
    BY <2>1, GotoMoves DEF Shape
<1>7. ASSUME NEW c \in Calls, DecideApply(c)
      PROVE  /\ Only(c) /\ calls' \in [Calls -> AnyCall]
             /\ calls[c].pc = "apply" /\ calls'[c].pc = "decide"
             /\ calls'[c].day = calls[c].day /\ calls'[c].to = calls[c].to
  <2>1. calls[c].pc = "apply" /\ Goto(c, "decide")
    BY <1>7 DEF DecideApply
  <2> QED
    BY <2>1, GotoMoves DEF Shape
<1>8. CASE UNCHANGED calls
  BY <1>t, <1>8
<1>9. UNCHANGED calls \/ \E c \in Calls : StepOf(c)
  BY Steps DEF Tick, vars
<1>10. ASSUME NEW c \in Calls, NEW b \in Calls, Only(c), b # c PROVE calls'[b] = calls[b]
  BY <1>10 DEF Only
<1> QED
  BY <1>1, <1>2, <1>3, <1>4, <1>5, <1>6, <1>7, <1>8, <1>9, <1>10 DEF StepOf, EndOf

\* The clock goes on by a tick at a time, and with it, while the employee is
\* inside, what counts as present; midnight ends that.
LEMMA ClockMoves ==
  ASSUME Shape, [Next]_vars
  PROVE  /\ now' \in Times /\ now <= now'
         /\ inside' \in BOOLEAN /\ (inside' => Today' \in Dates)
         /\ present' \in [Dates -> 0 .. DayLength]
         /\ \A d \in Dates : present'[d] <= Elapsed(d)'
<1>t. /\ now \in Times /\ now \in Nat /\ inside \in BOOLEAN /\ (inside => Today \in Dates)
      /\ present \in [Dates -> 0 .. DayLength] /\ DayLength \in Nat \ {0}
      /\ \A d \in Dates : present[d] <= Elapsed(d)
  BY TimeAssumption, TimesAreNat DEF Shape, TypeOK, Stored
<1>1. CASE Tick
  <2>1. now' \in Times /\ now' = now + 1
    BY <1>1 DEF Tick
  <2>2. inside' \in BOOLEAN /\ (inside' => inside /\ Today' = Today)
    <3>1. inside' = (inside /\ (now + 1) \div DayLength = Today)
      BY <1>1 DEF Tick
    <3>2. Today' = (now + 1) \div DayLength
      BY <2>1 DEF Today
    <3> QED
      BY <3>1, <3>2, Zenon
  <2>3. ASSUME NEW d \in Dates, inside, d = Today
        PROVE  /\ present'[d] = present[d] + 1 /\ present'[d] <= Elapsed(d)'
               /\ present'[d] \in 0 .. DayLength
    <3> DEFINE start == d * DayLength
    <3>1. start \in Nat /\ start <= now /\ now < start + DayLength
      BY <1>t, <2>3, TimesAreNat, WholeUnits DEF Today
    <3>2. present'[d] = present[d] + 1
      BY <1>1, <1>t, <2>3 DEF Tick
    <3> HIDE DEF start
    <3>3. present[d] <= now - start
      <4>1. present[d] <= IF now <= start THEN 0 ELSE now - start
        BY <1>t DEF Elapsed, start
      <4> QED
        BY <1>t, <3>1, <4>1
    <3>4. present[d] \in Nat
      BY <1>t
    <3>5. Elapsed(d)' = IF now' <= start THEN 0 ELSE now' - start
      BY DEF Elapsed, start
    <3> QED
      BY <1>t, <2>1, <3>1, <3>2, <3>3, <3>4, <3>5
  <2>4. ASSUME NEW d \in Dates, ~(inside /\ d = Today)
        PROVE  present'[d] = present[d] /\ present'[d] <= Elapsed(d)'
    <3> DEFINE start == d * DayLength
    <3>1. present'[d] = present[d]
      BY <1>1, <1>t, <2>4 DEF Tick
    <3>2. start \in Nat
      BY TimesAreNat
    <3> HIDE DEF start
    <3>3. /\ Elapsed(d) = IF now <= start THEN 0 ELSE now - start
          /\ Elapsed(d)' = IF now' <= start THEN 0 ELSE now' - start
      BY DEF Elapsed, start
    <3>4. present[d] <= Elapsed(d) /\ present[d] \in Nat
      BY <1>t
    <3> QED
      BY <1>t, <2>1, <3>1, <3>2, <3>3, <3>4
  <2>5. present' \in [Dates -> 0 .. DayLength]
    <3>1. inside => present' = [present EXCEPT ![Today] = @ + 1]
      BY <1>1 DEF Tick
    <3>2. ~inside => present' = present
      BY <1>1 DEF Tick
    <3> QED
      BY <1>t, <2>3, <3>1, <3>2
  <2> QED
    BY <1>t, <2>1, <2>2, <2>3, <2>4, <2>5
<1>2. CASE ~Tick
  <2>1. now' = now /\ present' = present
    BY <1>2, Steps
    DEF StepOf, CheckInStart, CheckInWrite, CheckOutStart, CheckOutWrite, RequestStart, RequestRow,
        RequestCreate, DecideStart, DecideApply, DecideWrite, Fail, vars
  <2>2. \/ inside' = inside
        \/ inside' = FALSE
        \/ inside' = TRUE /\ Today \in Dates
    BY <1>2, Steps
    DEF StepOf, CheckInStart, CheckInWrite, CheckOutStart, CheckOutWrite, RequestStart, RequestRow,
        RequestCreate, DecideStart, DecideApply, DecideWrite, Fail, vars
  <2>3. inside' \in BOOLEAN /\ (inside' => Today \in Dates)
    <3>1. CASE inside' = inside
      <4>1. inside \in BOOLEAN /\ (inside => Today \in Dates)
        BY <1>t
      <4> QED
        BY <3>1, <4>1, Zenon
    <3>2. CASE inside' = FALSE
      BY <3>2
    <3>3. CASE inside' = TRUE /\ Today \in Dates
      BY <3>3
    <3> QED
      BY <2>2, <3>1, <3>2, <3>3
  <2>4. Today' = Today /\ \A d \in Dates : Elapsed(d)' = Elapsed(d)
    BY <2>1 DEF Elapsed, Today
  <2> QED
    BY <1>t, <2>1, <2>3, <2>4
<1> QED
  BY <1>1, <1>2

\* What the histories note stays noted.
LEMMA HistoryMoves ==
  ASSUME Shape, [Next]_vars
  PROVE  /\ failures' \in 0 .. MaxFailures /\ sessions' \in [Dates -> 0 .. MaxSessions]
         /\ applied \subseteq applied' /\ applied' \subseteq Dates
         /\ raced \subseteq raced' /\ raced' \subseteq Dates
<1>t. /\ failures \in 0 .. MaxFailures /\ sessions \in [Dates -> 0 .. MaxSessions]
      /\ applied \subseteq Dates /\ raced \subseteq Dates /\ MaxFailures \in Nat /\ MaxSessions \in Nat
  BY BoundsAssumption DEF Shape, TypeOK
<1>1. failures' \in 0 .. MaxFailures
  <2>1. UNCHANGED failures \/ \E c \in Calls : Fail(c)
    BY Steps
    DEF StepOf, Tick, CheckInStart, CheckInWrite, CheckOutStart, CheckOutWrite, RequestStart,
        RequestRow, RequestCreate, DecideStart, DecideApply, DecideWrite, vars
  <2> QED
    BY <1>t, <2>1 DEF Fail
<1>2. sessions' \in [Dates -> 0 .. MaxSessions]
  <2>1. UNCHANGED sessions \/ \E c \in Calls, d \in Dates : CheckInStart(c, d)
    BY Steps
    DEF StepOf, Tick, CheckInWrite, CheckOutStart, CheckOutWrite, RequestStart,
        RequestRow, RequestCreate, DecideStart, DecideApply, DecideWrite, Fail, vars
  <2>2. ASSUME NEW c \in Calls, NEW d \in Dates, CheckInStart(c, d)
        PROVE  sessions' \in [Dates -> 0 .. MaxSessions]
    BY <1>t, <2>2 DEF CheckInStart
  <2> QED
    BY <1>t, <2>1, <2>2
<1>3. applied \subseteq applied' /\ applied' \subseteq Dates
  <2>1. ASSUME NEW c \in Calls, DecideApply(c) PROVE calls[c].day \in Dates
    BY <2>1, CallFields DEF DecideApply, Shape
  <2> QED
    BY <1>t, <2>1, Steps
    DEF StepOf, Tick, CheckInStart, CheckInWrite, CheckOutStart, CheckOutWrite, RequestStart,
        RequestRow, RequestCreate, DecideStart, DecideApply, DecideWrite, Fail, vars
<1>4. raced \subseteq raced' /\ raced' \subseteq Dates
  <2>1. ASSUME NEW c \in Calls, Fail(c) PROVE raced \subseteq raced' /\ raced' \subseteq Dates
    <3>1. calls[c].day \in Dates /\ raced' = raced \cup {calls[c].day}
      BY <2>1, CallFields DEF Fail, Shape
    <3> QED
      BY <1>t, <3>1
  <2>2. ASSUME NEW c \in Calls, NEW d \in Dates, NEW call, Start(c, d, call)
        PROVE  raced \subseteq raced' /\ raced' \subseteq Dates
    BY <1>t, <2>2 DEF Start
  <2>3. \/ UNCHANGED raced
        \/ \E c \in Calls : Fail(c)
        \/ \E c \in Calls, d \in Dates : \E call : Start(c, d, call)
    <3>1. ASSUME NEW c \in Calls, NEW d \in Dates, CheckInStart(c, d) \/ CheckOutStart(c, d)
          PROVE  \E call : Start(c, d, call)
      BY <3>1 DEF CheckInStart, CheckOutStart
    <3>2. ASSUME NEW c \in Calls, NEW d \in Dates, NEW asked, RequestStart(c, d, asked)
          PROVE  \E call : Start(c, d, call)
      BY <3>2 DEF RequestStart
    <3>3. ASSUME NEW c \in Calls, NEW d \in Dates, NEW to, DecideStart(c, d, to)
          PROVE  \E call : Start(c, d, call)
      BY <3>3 DEF DecideStart
    <3> QED
      BY <3>1, <3>2, <3>3, Steps
      DEF StepOf, Tick, CheckInWrite, CheckOutWrite, RequestRow, RequestCreate, DecideApply,
          DecideWrite, vars
  <2> QED
    BY <1>t, <2>1, <2>2, <2>3
<1> QED
  BY <1>1, <1>2, <1>3, <1>4

\* Every step keeps the shape,
LEMMA TypeStep == Shape /\ [Next]_vars => TypeOK'
<1> SUFFICES ASSUME Shape, [Next]_vars PROVE TypeOK'
  OBVIOUS
<1>1. ASSUME NEW c \in Calls, calls'[c].pc = "apply" PROVE calls'[c].to = "APPROVED"
  <2>1. calls[c].pc = "apply" => calls[c].to = "APPROVED"
    BY DEF Shape, TypeOK
  <2> QED
    BY <1>1, <2>1, CallMoves DEF FirstStep
<1> QED
  BY <1>1, RecordMoves, RequestMoves, CallMoves, ClockMoves, HistoryMoves DEF TypeOK, AnyCall

\* and what it takes to keep it.
LEMMA StoredStep == Shape /\ [Next]_vars => Stored'
<1> SUFFICES ASSUME Shape, [Next]_vars PROVE Stored'
  OBVIOUS
<1>t. TypeOK'
  BY TypeStep
<1>d. ASSUME NEW c \in Calls, calls[c].pc # "idle" PROVE calls[c].day \in Dates
  BY <1>d, CallFields DEF Shape
<1>r. \A d \in Dates : HasRecord(d) => HasRecord(d)'
  BY RecordMoves
<1>q. \A d \in Dates : request[d] # NoRequest => request'[d] # NoRequest
  BY RequestMoves
<1>1. ASSUME NEW c \in Calls, calls'[c].pc \in {"close", "request", "apply", "decide"}
      PROVE  record'[calls'[c].day] # NoRecord
  <2>1. ASSUME calls[c].pc \in {"close", "request", "apply", "decide"}, calls'[c].day = calls[c].day
        PROVE  record'[calls'[c].day] # NoRecord
    BY <1>d, <1>r, <2>1 DEF Shape, Stored, HasRecord
  <2>2. ASSUME NEW d \in Dates, CheckOutStart(c, d), calls'[c].day = d
        PROVE  record'[calls'[c].day] # NoRecord
    BY <1>r, <2>2 DEF CheckOutStart, IsOpen, HasRecord
  <2>3. ASSUME NEW d \in Dates, HasRecord(d), calls'[c].day = d PROVE record'[calls'[c].day] # NoRecord
    BY <1>r, <2>3 DEF HasRecord
  <2>4. ASSUME RequestRow(c), calls'[c].day = calls[c].day PROVE record'[calls'[c].day] # NoRecord
    <3>1. calls[c].day \in Dates
      BY <1>d, <2>4 DEF RequestRow
    <3>2. CASE HasRecord(calls[c].day)
      BY <1>r, <2>4, <3>1, <3>2 DEF HasRecord
    <3>3. CASE ~HasRecord(calls[c].day)
      <4>1. record'[calls[c].day] = [in |-> None, out |-> None, worked |-> 0, status |-> "ABSENT"]
        BY <2>4, <3>1, <3>3 DEF RequestRow, Shape, TypeOK
      <4>2. record'[calls[c].day].worked = 0 /\ record'[calls[c].day] \in Record \cup {NoRecord}
        BY <3>1, <4>1, RecordMoves
      <4> QED
        BY <2>4, <4>1 DEF HasRecord, NoRecord
    <3> QED
      BY <3>2, <3>3
  <2>5. ASSUME NEW d \in Dates, request[d] # NoRequest, calls'[c].day = d
        PROVE  record'[calls'[c].day] # NoRecord
    BY <1>r, <2>5 DEF Shape, Stored, HasRecord
  <2> QED
    BY <1>1, <2>1, <2>2, <2>3, <2>4, <2>5, CallMoves
<1>2. ASSUME NEW c \in Calls, calls'[c].pc \in {"apply", "decide"}
      PROVE  request'[calls'[c].day] # NoRequest
  <2>1. ASSUME calls[c].pc \in {"apply", "decide"}, calls'[c].day = calls[c].day
        PROVE  request'[calls'[c].day] # NoRequest
    BY <1>d, <1>q, <2>1 DEF Shape, Stored
  <2> QED
    BY <1>2, <1>q, <2>1, CallMoves
<1>3. ASSUME NEW d \in Dates, request'[d] # NoRequest PROVE HasRecord(d)'
  <2>1. CASE request[d] # NoRequest
    BY <1>r, <2>1 DEF Shape, Stored
  <2>2. CASE request[d] = NoRequest
    <3>1. PICK c \in Calls : calls[c].day = d /\ calls[c].pc = "request"
      BY <1>3, <2>2, RequestMoves
    <3> QED
      BY <1>r, <3>1 DEF Shape, Stored
  <2> QED
    BY <2>1, <2>2
<1>4. ASSUME NEW c \in Calls, calls'[c].pc \in {"row", "request"}
      PROVE  calls'[c].asked.status = "PENDING"
  BY <1>4, CallMoves DEF Shape, Stored, FirstStep
<1>5. ASSUME NEW c \in Calls, calls'[c].pc = "decide", calls'[c].to = "APPROVED"
      PROVE  calls'[c].day \in applied'
  <2>1. CASE calls'[c] = calls[c]
    BY <1>5, <2>1, HistoryMoves DEF Shape, Stored
  <2>2. CASE DecideApply(c) /\ calls'[c].day = calls[c].day
    BY <2>2 DEF DecideApply
  <2> QED
    BY <1>5, <2>1, <2>2, CallMoves DEF FirstStep
<1>6. ASSUME NEW d \in Dates, request'[d].status = "APPROVED" PROVE d \in applied'
  <2>1. CASE request'[d] = request[d]
    BY <1>6, <2>1, HistoryMoves DEF Shape, Stored
  <2>2. CASE request'[d] # request[d]
    <3>1. PICK c \in Calls : calls[c].day = d /\ calls[c].pc = "decide" /\ calls[c].to = "APPROVED"
      BY <1>6, <2>2, RequestMoves
    <3> QED
      BY <3>1, HistoryMoves DEF Shape, Stored
  <2> QED
    BY <2>1, <2>2
<1>7. /\ inside' => Today' \in Dates
      /\ \A d \in Dates : present'[d] <= Elapsed(d)'
  BY ClockMoves
<1> QED
  BY <1>1, <1>2, <1>3, <1>4, <1>5, <1>6, <1>7 DEF Stored, HasRecord

----------------------------------------------------------------------------
(* One call at a time *)

\* Without races a day has one call at a time.
Alone(d) == \A b, c \in InFlight(d) : b = c

\* How a call has come to be about the day: it was before, or it has started,
\* and then found no other.
LEMMA FlightMoves ==
  ASSUME Shape, Shape', [Next]_vars, NEW d \in Dates, d \notin raced', NEW c \in InFlight(d)'
  PROVE  /\ c \in Calls /\ calls'[c].pc # "idle" /\ calls'[c].day = d
         /\ \/ c \in InFlight(d)
            \/ Only(c) /\ InFlight(d) = {}
<1>0. c \in Calls /\ calls'[c].pc # "idle" /\ calls'[c].day = d
  BY DEF InFlight, Shape, TypeOK, Idle, InCall, OutCall, RequestCall, DecideCall
<1>1. CASE calls'[c] = calls[c]
  BY <1>0, <1>1, FlightFields DEF Shape
<1>2. CASE calls[c].pc # "idle" /\ calls'[c].day = calls[c].day
  BY <1>0, <1>2, FlightFields DEF Shape
<1>3. ASSUME Only(c), CheckInStart(c, d) \/ CheckOutStart(c, d) PROVE InFlight(d) = {}
  BY <1>3 DEF CheckInStart, CheckOutStart, Start
<1>4. ASSUME NEW asked \in Asked(d), RequestStart(c, d, asked) PROVE InFlight(d) = {}
  BY <1>4 DEF RequestStart, Start
<1>5. ASSUME NEW to \in {"APPROVED", "REJECTED"}, DecideStart(c, d, to) PROVE InFlight(d) = {}
  BY <1>5 DEF DecideStart, Start
<1> QED
  BY <1>0, <1>1, <1>2, <1>3, <1>4, <1>5, CallMoves

\* A call about a day without races stays the only one about it.
LEMMA AloneStep ==
  ASSUME Shape, Shape', [Next]_vars, NEW d \in Dates, d \notin raced', Alone(d)
  PROVE  Alone(d)'
<1> SUFFICES ASSUME NEW b \in InFlight(d)', NEW c \in InFlight(d)' PROVE b = c
  BY DEF Alone
<1>1. CASE b \in InFlight(d) /\ c \in InFlight(d)
  BY <1>1 DEF Alone
<1>2. ASSUME NEW e \in InFlight(d)', Only(e), InFlight(d) = {} PROVE \A f \in InFlight(d)' : f = e
  <2>1. ASSUME NEW f \in InFlight(d)', f # e PROVE FALSE
    <3>1. calls'[f] = calls[f] /\ f \in Calls /\ calls'[f].pc # "idle" /\ calls'[f].day = d
      BY <1>2, <2>1, FlightMoves DEF Only
    <3> QED
      BY <1>2, <3>1, FlightFields DEF Shape
  <2> QED
    BY <2>1
<1> QED
  BY <1>1, <1>2, FlightMoves

----------------------------------------------------------------------------
(* Decisions *)

\* Without races, whoever is about to decide a request finds it PENDING still,
\* and whoever has applied it notes the approval.
Decided(d) ==
  /\ Alone(d)
  /\ \A c \in InFlight(d) : calls[c].pc \in {"apply", "decide"} => request[d].status = "PENDING"
  /\ d \in applied =>
       \/ request[d].status = "APPROVED"
       \/ \E c \in InFlight(d) : calls[c].pc = "decide" /\ calls[c].to = "APPROVED"

InTurn == \A d \in Dates \ raced : Decided(d)

\* A request changes by the one call about its day, which ends.
LEMMA RequestInTurn ==
  ASSUME Shape, [Next]_vars, NEW d \in Dates, request'[d] # request[d]
  PROVE  \E c \in InFlight(d) :
           /\ calls'[c].pc = "idle" /\ Only(c)
           /\ \/ calls[c].pc = "request" /\ request[d] = NoRequest
              \/ calls[c].pc = "decide" /\ request'[d].status = calls[c].to
<1>1. PICK c \in Calls :
        /\ RequestCreate(c) \/ DecideWrite(c)
        /\ calls[c].day = d
        /\ \/ calls[c].pc = "request" /\ request[d] = NoRequest
           \/ calls[c].pc = "decide" /\ request'[d].status = calls[c].to
  BY RequestMoves
<1>2. c \in InFlight(d)
  BY <1>1, FlightFields DEF Shape
<1>3. calls'[c].pc = "idle" /\ Only(c)
  BY <1>1, ReturnMoves DEF RequestCreate, DecideWrite, Shape
<1> QED
  BY <1>1, <1>2, <1>3

\* Nor does a step undo what is said of such a day at each query of its call.
LEMMA DecidedStep ==
  ASSUME Shape, Shape', [Next]_vars, NEW d \in Dates, d \notin raced', Decided(d)
  PROVE  Decided(d)'
<1>1. Alone(d)'
  BY AloneStep DEF Decided
<1>2. ASSUME NEW c \in InFlight(d)', calls'[c].pc \in {"apply", "decide"}
      PROVE  request'[d].status = "PENDING"
  <2>0. /\ c \in Calls /\ calls'[c].pc # "idle" /\ calls'[c].day = d
        /\ c \in InFlight(d) \/ InFlight(d) = {}
    BY <1>2, FlightMoves
  <2>1. request'[d] = request[d]
    <3>1. ASSUME NEW b \in InFlight(d), calls'[b].pc = "idle" PROVE FALSE
      BY <2>0, <3>1 DEF Decided, Alone
    <3> QED
      BY <3>1, RequestInTurn
  <2>2. CASE calls[c].pc \in {"apply", "decide"} /\ calls[c].day = d
    <3>1. c \in InFlight(d)
      BY <2>0, <2>2, FlightFields DEF Shape
    <3> QED
      BY <2>1, <2>2, <3>1 DEF Decided
  <2>3. ASSUME NEW to \in {"APPROVED", "REJECTED"}, DecideStart(c, d, to)
        PROVE  request'[d].status = "PENDING"
    BY <2>1, <2>3 DEF DecideStart
  <2> QED
    BY <1>2, <2>0, <2>2, <2>3, CallMoves
<1>3. ASSUME d \in applied'
      PROVE  \/ request'[d].status = "APPROVED"
             \/ \E c \in InFlight(d)' : calls'[c].pc = "decide" /\ calls'[c].to = "APPROVED"
  <2>1. CASE d \in applied /\ request[d].status = "APPROVED"
    <3>1. ASSUME request'[d] # request[d] PROVE FALSE
      <4>1. PICK c \in InFlight(d) :
              \/ calls[c].pc = "request" /\ request[d] = NoRequest
              \/ calls[c].pc = "decide" /\ request'[d].status = calls[c].to
        BY <3>1, RequestInTurn
      <4> QED
        BY <2>1, <4>1 DEF Decided, NoRequest
    <3> QED
      BY <2>1, <3>1
  <2>2. ASSUME NEW c \in InFlight(d), calls[c].pc = "decide", calls[c].to = "APPROVED"
        PROVE  \/ request'[d].status = "APPROVED"
               \/ \E b \in InFlight(d)' : calls'[b].pc = "decide" /\ calls'[b].to = "APPROVED"
    <3>0. c \in Calls /\ calls[c].day = d
      BY <2>2, FlightFields DEF Shape
    <3>1. CASE calls'[c] = calls[c]
      <4>1. c \in InFlight(d)'
        BY <2>2, <3>0, <3>1 DEF InFlight
      <4> QED
        BY <2>2, <3>1, <4>1
    <3>2. CASE EndOf(c)
      <4>1. ~Fail(c)
        BY <3>0 DEF Fail
      <4>2. DecideWrite(c)
        BY <2>2, <3>2, <4>1 DEF EndOf, CheckInWrite, CheckOutWrite, RequestCreate
      <4>3. request[d] \in Request
        BY <2>2, <3>0 DEF Shape, TypeOK, Stored
      <4>4. request'[d] = [request[d] EXCEPT !.status = calls[c].to]
        BY <3>0, <4>2 DEF DecideWrite, Shape, TypeOK
      <4> QED
        BY <2>2, <4>3, <4>4 DEF Request
    <3>c. calls[c] # Idle
      BY <2>2 DEF Idle
    <3>3. /\ ~(RequestRow(c) \/ DecideApply(c))
          /\ \A e \in Dates : ~CheckInStart(c, e) /\ ~CheckOutStart(c, e)
      <4>1. ~(RequestRow(c) \/ DecideApply(c))
        BY <2>2 DEF RequestRow, DecideApply
      <4>2. ASSUME NEW e \in Dates PROVE ~CheckInStart(c, e) /\ ~CheckOutStart(c, e)
        BY <3>c DEF CheckInStart, CheckOutStart, Start
      <4> QED
        BY <4>1, <4>2
    <3>4. /\ \A e \in Dates : \A asked \in Asked(e) : ~RequestStart(c, e, asked)
          /\ \A e \in Dates, to \in {"APPROVED", "REJECTED"} : ~DecideStart(c, e, to)
      BY <2>2 DEF RequestStart, DecideStart, Start, Idle
    <3> QED
      BY <3>0, <3>1, <3>2, <3>3, <3>4, CallMoves
  <2>3. CASE d \notin applied
    <3>1. PICK c \in Calls : DecideApply(c) /\ calls[c].day = d
      BY <1>3, <2>3, Steps
      DEF StepOf, Tick, CheckInStart, CheckInWrite, CheckOutStart, CheckOutWrite, RequestStart,
          RequestRow, RequestCreate, DecideStart, DecideApply, DecideWrite, Fail, vars
    <3>2. calls[c].pc = "apply" /\ calls[c].to = "APPROVED" /\ Goto(c, "decide")
      BY <3>1 DEF DecideApply, Shape, TypeOK
    <3>3. calls'[c].pc = "decide" /\ calls'[c].day = d /\ calls'[c].to = "APPROVED"
      BY <3>1, <3>2, GotoMoves DEF Shape
    <3>4. c \in InFlight(d)'
      BY <3>3 DEF InFlight, Idle
    <3> QED
      BY <3>3, <3>4
  <2> QED
    BY <2>1, <2>2, <2>3 DEF Decided
<1> QED
  BY <1>1, <1>2, <1>3 DEF Decided

----------------------------------------------------------------------------
(* The day's account *)

Worked(d) == IF HasRecord(d) THEN record[d].worked ELSE 0

\* w minutes are counted for p ticks in s sessions, less than a minute short of each.
Settled(w, p, s) ==
  w * TicksPerMinute <= p /\ p <= w * TicksPerMinute + s * (TicksPerMinute - 1)

\* No session runs: the record counts them all.
Resting(d) ==
  /\ ~(d = Today /\ inside)
  /\ Settled(Worked(d), present[d], sessions[d])
  /\ HasRecord(d) /\ record[d].out # None => record[d].status = DeriveStatus(record[d].worked)

\* A session runs since `from`: the record counts the ones before it.
Running(d, from) ==
  /\ d <= Today
  /\ d = Today =>
       /\ inside /\ from <= now /\ sessions[d] >= 1
       /\ Settled(Worked(d), present[d] - (now - from), sessions[d] - 1)

\* The sessions are over, and a call is about to write what they come to.
Closing(d, total) ==
  d <= Today /\ ~(d = Today /\ inside) /\ Settled(total, present[d], sessions[d])

\* A check-in or a check-out is under way.
Clocking(d) == \E c \in InFlight(d) : calls[c].pc \in {"open", "close"}

\* What is true of a day between any two steps of a call about it.
Accounted(d) ==
  /\ \A c \in InFlight(d), from \in Times :
       calls[c].pc = "open" /\ calls[c].at = from => Running(d, from)
  /\ \A c \in InFlight(d), total \in Nat :
       calls[c].pc = "close" /\ calls[c].total = total => Closing(d, total)
  /\ ~Clocking(d) /\ IsOpen(d) => \A from \in Times : record[d].in = from => Running(d, from)
  /\ ~Clocking(d) /\ ~IsOpen(d) => Resting(d)

\* Nothing happens to the day.
Still(d) ==
  /\ now' = now /\ present'[d] = present[d] /\ sessions'[d] = sessions[d] /\ record'[d] = record[d]
  /\ d = Today => inside' = inside

\* Time passes without unsettling an account: who is inside is present, and
\* whoever is not is not.
LEMMA TimePasses ==
  ASSUME Shape, Shape', NEW d \in Dates, Still(d) \/ Tick
  PROVE  /\ record'[d] = record[d]
         /\ \A from \in Times : Running(d, from) => Running(d, from)'
         /\ \A total \in Nat : Closing(d, total) => Closing(d, total)'
         /\ Resting(d) => Resting(d)'
<1>t. /\ now \in Nat /\ Today \in Nat /\ d \in Nat /\ \A from \in Times : from \in Nat
      /\ TicksPerMinute \in Nat \ {0} /\ DayLength \in Nat \ {0}
      /\ present \in [Dates -> 0 .. DayLength] /\ sessions \in [Dates -> 0 .. MaxSessions]
      /\ inside \in BOOLEAN
  BY TimeAssumption, TimesAreNat DEF Shape, TypeOK
<1>1. CASE Still(d)
  <2>1. Today' = Today
    BY <1>1 DEF Still, Today
  <2>2. d = Today => inside' = inside
    BY <1>1 DEF Still
  <2>3. /\ now' = now /\ present'[d] = present[d] /\ sessions'[d] = sessions[d]
        /\ record'[d] = record[d] /\ Worked(d)' = Worked(d)
    BY <1>1 DEF Still, Worked, HasRecord
  <2>4. ASSUME NEW from \in Times, Running(d, from) PROVE Running(d, from)'
    BY <2>1, <2>2, <2>3, <2>4 DEF Running, Settled
  <2>5. ASSUME NEW total \in Nat, Closing(d, total) PROVE Closing(d, total)'
    BY <2>1, <2>2, <2>3, <2>5 DEF Closing, Settled
  <2>6. ASSUME Resting(d) PROVE Resting(d)'
    BY <2>1, <2>2, <2>3, <2>6 DEF Resting, Settled, HasRecord
  <2> QED
    BY <2>3, <2>4, <2>5, <2>6
<1>2. CASE Tick
  <2>1. /\ now' = now + 1 /\ sessions' = sessions /\ record'[d] = record[d]
        /\ Worked(d)' = Worked(d)
    BY <1>2 DEF Tick, Worked, HasRecord
  <2>2. Today <= Today' /\ Today' \in Nat
    BY <1>t, <2>1, DaysGoOn, WholeUnits DEF Today
  <2>3. inside' => inside /\ Today' = Today
    <3>1. inside' = (inside /\ (now + 1) \div DayLength = Today)
      BY <1>2 DEF Tick
    <3>2. Today' = (now + 1) \div DayLength
      BY <2>1 DEF Today
    <3> QED
      BY <3>1, <3>2, Zenon
  <2>4. d = Today /\ Today' = Today /\ inside => inside'
    <3>1. inside' = (inside /\ (now + 1) \div DayLength = Today)
      BY <1>2 DEF Tick
    <3>2. Today' = (now + 1) \div DayLength
      BY <2>1 DEF Today
    <3> QED
      BY <3>1, <3>2, Zenon
  <2>5. present'[d] = IF inside /\ d = Today THEN present[d] + 1 ELSE present[d]
    BY <1>2, <1>t DEF Tick
  <2>6. ASSUME NEW from \in Times, Running(d, from) PROVE Running(d, from)'
    <3>1. d <= Today'
      BY <1>t, <2>2, <2>6 DEF Running
    <3>2. CASE d = Today'
      <4>1. d = Today /\ Today' = Today
        BY <1>t, <2>2, <2>6, <3>2 DEF Running
      <4>2. /\ inside /\ from <= now /\ sessions[d] >= 1
            /\ Settled(Worked(d), present[d] - (now - from), sessions[d] - 1)
        BY <2>6, <4>1 DEF Running
      <4>3. inside' /\ present'[d] = present[d] + 1
        BY <2>4, <2>5, <4>1, <4>2
      <4>4. from <= now' /\ present'[d] - (now' - from) = present[d] - (now - from)
        BY <1>t, <2>1, <4>2, <4>3
      <4> QED
        BY <2>1, <3>1, <4>2, <4>3, <4>4 DEF Running, Settled
    <3>3. CASE d # Today'
      BY <3>1, <3>3 DEF Running
    <3> QED
      BY <3>2, <3>3
  <2>7. ~(d = Today /\ inside) => ~(d = Today' /\ inside') /\ present'[d] = present[d]
    BY <2>3, <2>5
  <2>8. ASSUME NEW total \in Nat, Closing(d, total) PROVE Closing(d, total)'
    BY <1>t, <2>1, <2>2, <2>7, <2>8 DEF Closing, Settled
  <2>9. ASSUME Resting(d) PROVE Resting(d)'
    BY <2>1, <2>7, <2>9 DEF Resting, Settled, HasRecord
  <2> QED
    BY <2>1, <2>6, <2>8, <2>9
<1> QED
  BY <1>1, <1>2

\* What a step does to a day without races and decisions.
LEMMA DayMoves ==
  ASSUME Shape, [Next]_vars, NEW d \in Dates, d \notin applied'
  PROVE  \/ Still(d) \/ Tick
         \/ \E c \in Calls : CheckInStart(c, d) \/ CheckOutStart(c, d)
         \/ \E c \in Calls : calls[c].day = d /\ (CheckInWrite(c) \/ CheckOutWrite(c))
         \/ ~HasRecord(d) /\ \E c \in Calls : calls[c].day = d /\ RequestRow(c)
<1>t. record \in [Dates -> Record \cup {NoRecord}] /\ sessions \in [Dates -> 0 .. MaxSessions]
  BY DEF Shape, TypeOK
<1>1. ASSUME NEW c \in Calls, NEW e \in Dates, CheckInStart(c, e), d # e PROVE Still(d)
  BY <1>t, <1>1 DEF CheckInStart, Still
<1>2. ASSUME NEW c \in Calls, NEW e \in Dates, CheckOutStart(c, e), d # e PROVE Still(d)
  BY <1>t, <1>2 DEF CheckOutStart, Still
<1>3. ASSUME NEW c \in Calls, CheckInWrite(c), calls[c].day # d PROVE Still(d)
  BY <1>t, <1>3 DEF CheckInWrite, Still
<1>4. ASSUME NEW c \in Calls, CheckOutWrite(c), calls[c].day # d PROVE Still(d)
  BY <1>t, <1>4 DEF CheckOutWrite, Still
<1>5. ASSUME NEW c \in Calls, RequestRow(c), calls[c].day # d \/ HasRecord(d) PROVE Still(d)
  BY <1>t, <1>5 DEF RequestRow, Still
<1>6. ASSUME NEW c \in Calls, DecideApply(c) PROVE Still(d)
  BY <1>t, <1>6 DEF DecideApply, Still
<1>7. ASSUME NEW c \in Calls, NEW e \in Dates, NEW asked \in Asked(e), RequestStart(c, e, asked)
      PROVE  Still(d)
  BY <1>7 DEF RequestStart, Still
<1>8. ASSUME NEW c \in Calls, NEW e \in Dates, NEW to \in {"APPROVED", "REJECTED"},
             DecideStart(c, e, to)
      PROVE  Still(d)
  BY <1>8 DEF DecideStart, Still
<1>9. ASSUME NEW c \in Calls, RequestCreate(c) \/ DecideWrite(c) \/ Fail(c) PROVE Still(d)
  BY <1>9 DEF RequestCreate, DecideWrite, Fail, Still
<1>10. CASE UNCHANGED vars
  BY <1>10 DEF vars, Still
<1> QED
  BY <1>1, <1>2, <1>3, <1>4, <1>5, <1>6, <1>7, <1>8, <1>9, <1>10, Steps DEF StepOf

\* The call that is under way about a day is the only one when it ends.
LEMMA LastOne ==
  ASSUME Shape, Shape', [Next]_vars, NEW d \in Dates, d \notin raced', Alone(d),
         NEW c \in InFlight(d), calls'[c].pc = "idle"
  PROVE  InFlight(d)' = {}
<1> SUFFICES ASSUME NEW b \in InFlight(d)' PROVE FALSE
  OBVIOUS
<1>1. b \in Calls /\ calls'[b].pc # "idle" /\ (b \in InFlight(d) \/ InFlight(d) = {})
  BY FlightMoves
<1>2. b = c
  BY <1>1 DEF Alone
<1> QED
  BY <1>1, <1>2

\* A check-in or check-out that is under way was, or has started, and it goes
\* on until it writes.
LEMMA ClockingMoves ==
  ASSUME Shape, Shape', [Next]_vars, NEW d \in Dates, d \notin raced', NEW c \in Calls
  PROVE  /\ c \in InFlight(d)' /\ calls'[c].pc \in {"open", "close"} =>
              \/ c \in InFlight(d) /\ calls'[c] = calls[c]
              \/ CheckInStart(c, d) \/ CheckOutStart(c, d)
         /\ c \in InFlight(d) /\ calls[c].pc \in {"open", "close"} =>
              \/ c \in InFlight(d)' /\ calls'[c] = calls[c]
              \/ calls[c].day = d /\ (CheckInWrite(c) \/ CheckOutWrite(c))
<1>1. ASSUME c \in InFlight(d)', calls'[c].pc \in {"open", "close"}
      PROVE  \/ c \in InFlight(d) /\ calls'[c] = calls[c]
             \/ CheckInStart(c, d) \/ CheckOutStart(c, d)
  <2>1. calls'[c].day = d /\ calls'[c].pc # "idle"
    BY <1>1, FlightMoves
  <2>2. CASE calls'[c] = calls[c]
    BY <2>1, <2>2, FlightFields DEF Shape
  <2> QED
    BY <1>1, <2>1, <2>2, CallMoves DEF FirstStep
<1>2. ASSUME c \in InFlight(d), calls[c].pc \in {"open", "close"}
      PROVE  \/ c \in InFlight(d)' /\ calls'[c] = calls[c]
             \/ calls[c].day = d /\ (CheckInWrite(c) \/ CheckOutWrite(c))
  <2>1. calls[c].day = d /\ calls[c] # Idle
    BY <1>2 DEF InFlight
  <2>2. CASE calls'[c] = calls[c]
    BY <2>1, <2>2 DEF InFlight
  <2>3. ~Fail(c)
    BY <2>1 DEF Fail
  <2>4. ~RequestCreate(c) /\ ~DecideWrite(c) /\ ~RequestRow(c) /\ ~DecideApply(c)
    BY <1>2 DEF RequestCreate, DecideWrite, RequestRow, DecideApply
  <2>5. \A e \in Dates : ~CheckInStart(c, e) /\ ~CheckOutStart(c, e)
    BY <2>1 DEF CheckInStart, CheckOutStart, Start
  <2>6. /\ \A e \in Dates : \A asked \in Asked(e) : ~RequestStart(c, e, asked)
        /\ \A e \in Dates, to \in {"APPROVED", "REJECTED"} : ~DecideStart(c, e, to)
    BY <2>1 DEF RequestStart, DecideStart, Start
  <2> QED
    BY <2>1, <2>2, <2>3, <2>4, <2>5, <2>6, CallMoves DEF EndOf
<1> QED
  BY <1>1, <1>2

\* A check-in finds the day at rest, and its session runs from now;
LEMMA CheckInOpens ==
  ASSUME Shape, Shape', [Next]_vars, NEW c \in Calls,
         NEW d \in Dates, CheckInStart(c, d), d \notin raced', Accounted(d), Alone(d)'
  PROVE  Accounted(d)'
<1>t. /\ now \in Nat /\ sessions \in [Dates -> 0 .. MaxSessions]
      /\ present \in [Dates -> 0 .. DayLength] /\ Today \in Nat
  BY TimesAreNat DEF Shape, TypeOK
<1>1. InFlight(d) = {} /\ ~IsOpen(d) /\ d = Today
  BY DEF CheckInStart, Start, Late
<1>2. Resting(d)
  BY <1>1 DEF Accounted, Clocking
<1>3. /\ now' = now /\ Today' = Today /\ inside' = TRUE /\ present'[d] = present[d]
      /\ sessions'[d] = sessions[d] + 1 /\ Worked(d)' = Worked(d)
  BY <1>1, <1>t DEF CheckInStart, Today, Worked, HasRecord
<1>4. calls'[c].pc = "open" /\ calls'[c].day = d /\ calls'[c].at = now
  <2> DEFINE call == [pc |-> "open", day |-> d, at |-> now]
  <2>1. calls'[c] = call
    BY DEF CheckInStart, Start, Shape, TypeOK
  <2> QED
    BY <2>1
<1>5. c \in InFlight(d)' /\ \A b \in InFlight(d)' : b = c
  BY <1>4 DEF InFlight, Idle, Alone
<1>6. Running(d, now)'
  <2>1. sessions'[d] - 1 = sessions[d] /\ sessions'[d] >= 1 /\ present[d] - (now - now) = present[d]
    BY <1>t, <1>3
  <2>2. Settled(Worked(d), present[d], sessions[d])
    BY <1>2 DEF Resting
  <2> QED
    BY <1>1, <1>3, <1>t, <2>1, <2>2 DEF Running, Settled
<1>7. Clocking(d)'
  BY <1>4, <1>5 DEF Clocking
<1>8. ASSUME NEW b \in InFlight(d)', NEW from \in Times, calls'[b].at = from PROVE Running(d, from)'
  <2>1. from = now /\ now' = now
    BY <1>3, <1>4, <1>5, <1>8
  <2> QED
    BY <1>6, <2>1
<1>9. ASSUME NEW b \in InFlight(d)', calls'[b].pc = "close" PROVE FALSE
  BY <1>4, <1>5, <1>9
<1> QED
  BY <1>7, <1>8, <1>9 DEF Accounted

\* and when it writes, the record is open since then.
LEMMA CheckInWrites ==
  ASSUME Shape, Shape', [Next]_vars, NEW c \in Calls, CheckInWrite(c),
         NEW d \in Dates, d = calls[c].day, d \notin raced', Accounted(d), Alone(d)
  PROVE  Accounted(d)'
<1>1. calls[c].pc = "open" /\ calls[c].at \in Times /\ c \in InFlight(d)
  BY CallFields, FlightFields DEF CheckInWrite, InCall, Shape
<1>2. InFlight(d)' = {}
  BY <1>1, LastOne, ReturnMoves DEF CheckInWrite, Shape
<1>p. PICK at \in Times : at = calls[c].at
  BY <1>1
<1>3. Running(d, at)
  BY <1>1, <1>p DEF Accounted
<1>4. /\ record'[d].in = at /\ record'[d].worked = Worked(d) /\ record'[d] # NoRecord
  <2>1. record'[d] = IF HasRecord(d) THEN Reopened(record[d], at)
                     ELSE [in |-> at, out |-> None, worked |-> 0, status |-> "PRESENT"]
    BY <1>p DEF CheckInWrite, Shape, TypeOK
  <2>2. CASE HasRecord(d)
    <3>1. record[d] \in Record
      BY <2>2 DEF HasRecord, Shape, TypeOK
    <3> QED
      BY <2>1, <2>2, <3>1 DEF Reopened, Record, NoRecord, Worked
  <2>3. CASE ~HasRecord(d)
    BY <2>1, <2>3 DEF NoRecord, Worked
  <2> QED
    BY <2>2, <2>3
<1>5. IsOpen(d)'
  <2>1. record'[d].out = None
    <3>1. record'[d] = IF HasRecord(d) THEN Reopened(record[d], at)
                       ELSE [in |-> at, out |-> None, worked |-> 0, status |-> "PRESENT"]
      BY <1>p DEF CheckInWrite, Shape, TypeOK
    <3>2. HasRecord(d) => record[d] \in Record
      BY DEF HasRecord, Shape, TypeOK
    <3> QED
      BY <3>1, <3>2 DEF Reopened, Record
  <2>2. record'[d].in # None
    BY <1>1, <1>4, TimesAreNat, NoneAssumption
  <2> QED
    BY <1>4, <2>1, <2>2 DEF IsOpen, HasRecord
<1>6. Worked(d)' = Worked(d) /\ Today' = Today
  BY <1>4 DEF CheckInWrite, Worked, HasRecord, Today
<1>7. Running(d, at)'
  <2>1. now' = now /\ inside' = inside /\ present' = present /\ sessions' = sessions
    BY DEF CheckInWrite
  <2> QED
    BY <1>3, <1>6, <2>1 DEF Running, Settled
<1>8. ASSUME NEW from \in Times, record'[d].in = from PROVE Running(d, from)'
  BY <1>4, <1>7, <1>8
<1> QED
  BY <1>2, <1>5, <1>8 DEF Accounted, Clocking

\* A check-out adds the session that runs to those before it;
LEMMA CheckOutCounts ==
  ASSUME Shape, Shape', [Next]_vars, NEW c \in Calls,
         NEW d \in Dates, CheckOutStart(c, d), d \notin raced', Accounted(d), Alone(d)'
  PROVE  Accounted(d)'
<1>t. /\ now \in Nat /\ sessions \in [Dates -> 0 .. MaxSessions] /\ Today \in Nat
      /\ present \in [Dates -> 0 .. DayLength] /\ TicksPerMinute \in Nat \ {0}
  BY TimesAreNat, TimeAssumption DEF Shape, TypeOK
<1>1. InFlight(d) = {} /\ IsOpen(d) /\ d = Today
  BY DEF CheckOutStart, Start, Late
<1>2. record[d] \in Record /\ record[d].in \in Times /\ record[d].in \in Nat /\ HasRecord(d)
  <2>1. record[d] \in Record /\ record[d].in # None /\ HasRecord(d)
    BY <1>1 DEF IsOpen, HasRecord, Shape, TypeOK
  <2> QED
    BY <2>1, TimesAreNat DEF Record
<1>3. Running(d, record[d].in)
  BY <1>1, <1>2 DEF Accounted, Clocking
<1>4. /\ now' = now /\ Today' = Today /\ inside' = FALSE /\ present'[d] = present[d]
      /\ sessions'[d] = sessions[d]
  BY <1>1 DEF CheckOutStart, Today
<1> DEFINE total == record[d].worked + WorkedMinutes(record[d].in, now)
<1>5. /\ record[d].in <= now /\ sessions[d] >= 1
      /\ Settled(record[d].worked, present[d] - (now - record[d].in), sessions[d] - 1)
  BY <1>1, <1>2, <1>3 DEF Running, Worked
<1>6. Settled(total, present[d], sessions[d])
  <2> DEFINE x == now - record[d].in
             q == x \div TicksPerMinute
             w == record[d].worked
  <2>1. x \in Nat /\ w \in Nat /\ WorkedMinutes(record[d].in, now) = q
    <3>1. x \in Nat
      BY <1>t, <1>2, <1>5
    <3>2. w \in Nat
      BY <1>2 DEF Record
    <3>3. WorkedMinutes(record[d].in, now) = q
      BY <1>t, <1>2, <1>5, MinutesCount
    <3> QED
      BY <3>1, <3>2, <3>3
  <2>2. q \in Nat /\ q * TicksPerMinute <= x /\ x < q * TicksPerMinute + TicksPerMinute
    BY <1>t, <2>1, WholeUnits
  <2>3. present[d] \in Nat /\ sessions[d] \in Nat
    BY <1>t
  <2>4. /\ w * TicksPerMinute <= present[d] - x
        /\ present[d] - x <= w * TicksPerMinute + (sessions[d] - 1) * (TicksPerMinute - 1)
    BY <1>5 DEF Settled
  <2>5. total = w + q
    BY <2>1
  <2> HIDE DEF x, q, w, total
  <2>6. /\ (w + q) * TicksPerMinute <= present[d]
        /\ present[d] <= (w + q) * TicksPerMinute + sessions[d] * (TicksPerMinute - 1)
    BY <1>t, <1>5, <2>1, <2>2, <2>3, <2>4, SessionAdds
  <2> QED
    BY <2>5, <2>6 DEF Settled
<1>7. calls'[c].pc = "close" /\ calls'[c].day = d /\ calls'[c].total = total
  <2> DEFINE call == [pc |-> "close", day |-> d, at |-> now,
                      total |-> record[d].worked + WorkedMinutes(record[d].in, now)]
  <2>1. calls'[c] = call
    BY DEF CheckOutStart, Start, Shape, TypeOK
  <2> QED
    BY <2>1
<1>8. c \in InFlight(d)' /\ \A b \in InFlight(d)' : b = c
  BY <1>7 DEF InFlight, Idle, Alone
<1> HIDE DEF total
<1>9. PICK t : t = total
  OBVIOUS
<1>10. Closing(d, t)'
  BY <1>1, <1>4, <1>6, <1>9, <1>t DEF Closing, Settled
<1>11. ASSUME NEW b \in InFlight(d)', NEW n \in Nat, calls'[b].total = n PROVE Closing(d, n)'
  <2>1. n = t
    BY <1>7, <1>8, <1>9, <1>11
  <2> QED
    BY <1>10, <2>1
<1>12. Clocking(d)'
  BY <1>7, <1>8 DEF Clocking
<1>13. ASSUME NEW b \in InFlight(d)', calls'[b].pc = "open" PROVE FALSE
  BY <1>7, <1>8, <1>13
<1> QED
  BY <1>11, <1>12, <1>13 DEF Accounted

\* and writes what they come to.
LEMMA CheckOutWrites ==
  ASSUME Shape, Shape', [Next]_vars, NEW c \in Calls, CheckOutWrite(c),
         NEW d \in Dates, d = calls[c].day, d \notin raced', Accounted(d), Alone(d)
  PROVE  Accounted(d)'
<1>1. /\ calls[c].pc = "close" /\ calls[c].at \in Times /\ calls[c].total \in Nat
      /\ c \in InFlight(d)
  BY CallFields, FlightFields DEF CheckOutWrite, OutCall, Shape
<1>2. InFlight(d)' = {}
  BY <1>1, LastOne, ReturnMoves DEF CheckOutWrite, Shape
<1>3. Closing(d, calls[c].total)
  BY <1>1 DEF Accounted
<1>4. record[d] \in Record
  BY <1>1 DEF Shape, Stored, TypeOK, HasRecord
<1>5. /\ record'[d].out = calls[c].at /\ record'[d].worked = calls[c].total
      /\ record'[d].status = DeriveStatus(calls[c].total)
  <2> DEFINE r == [record[d] EXCEPT !.out = calls[c].at, !.worked = calls[c].total,
                                    !.status = DeriveStatus(calls[c].total)]
  <2>1. record'[d] = r
    BY DEF CheckOutWrite, Shape, TypeOK
  <2>2. /\ r.out = calls[c].at /\ r.worked = calls[c].total
        /\ r.status = DeriveStatus(calls[c].total)
    BY <1>4 DEF Record
  <2> QED
    BY <2>1, <2>2
<1>6. record'[d] # NoRecord
  BY <1>1, RecordMoves DEF Shape, Stored, HasRecord
<1>7. ~IsOpen(d)'
  <2>1. record'[d].out # None
    BY <1>1, <1>5, TimesAreNat, NoneAssumption
  <2> QED
    BY <2>1 DEF IsOpen
<1>8. Resting(d)'
  <2>1. /\ now' = now /\ inside' = inside /\ present' = present /\ sessions' = sessions
        /\ Today' = Today
    BY DEF CheckOutWrite, Today
  <2>2. Worked(d)' = calls[c].total
    BY <1>5, <1>6 DEF Worked, HasRecord
  <2>3. Settled(calls[c].total, present[d], sessions[d]) /\ ~(d = Today /\ inside)
    BY <1>3 DEF Closing
  <2>4. Settled(Worked(d), present[d], sessions[d])'
    BY <2>1, <2>2, <2>3 DEF Settled
  <2>5. ~(d = Today' /\ inside')
    BY <2>1, <2>3
  <2> QED
    BY <1>5, <2>4, <2>5 DEF Resting
<1> QED
  BY <1>2, <1>7, <1>8 DEF Accounted, Clocking

\* The record that a request makes for a day without one counts nothing.
LEMMA RequestRests ==
  ASSUME Shape, Shape', [Next]_vars, NEW c \in Calls, RequestRow(c),
         NEW d \in Dates, d = calls[c].day, ~HasRecord(d), d \notin raced', Accounted(d),
         Alone(d), Alone(d)'
  PROVE  Accounted(d)'
<1>1. calls[c].pc = "row" /\ c \in InFlight(d)
  BY CallFields, FlightFields DEF RequestRow, Shape
<1>2. Resting(d)
  BY <1>1 DEF Accounted, Clocking, Alone, IsOpen
<1>3. calls'[c].pc = "request" /\ calls'[c].day = d
  <2>1. Goto(c, "request") /\ calls[c].pc \in {"row", "request"}
    BY <1>1 DEF RequestRow
  <2> QED
    BY <2>1, GotoMoves DEF Shape
<1>4. \A b \in InFlight(d)' : calls'[b].pc = "request"
  BY <1>3 DEF InFlight, Idle, Alone
<1>5. record'[d] = [in |-> None, out |-> None, worked |-> 0, status |-> "ABSENT"]
  BY DEF RequestRow, Shape, TypeOK
<1>6. record'[d].in = None /\ record'[d].out = None /\ record'[d].worked = 0
  BY <1>5
<1>7. Resting(d)'
  <2>1. /\ inside' = inside /\ present' = present /\ sessions' = sessions /\ Today' = Today
    BY DEF RequestRow, Today
  <2>2. Worked(d) = 0 /\ Worked(d)' = 0
    BY <1>6 DEF Worked
  <2>3. Settled(Worked(d), present[d], sessions[d])' /\ ~(d = Today' /\ inside')
    BY <1>2, <2>1, <2>2 DEF Resting, Settled
  <2> QED
    BY <1>6, <2>3 DEF Resting
<1>8. ~IsOpen(d)'
  BY <1>6 DEF IsOpen
<1> QED
  BY <1>4, <1>7, <1>8 DEF Accounted, Clocking

\* Every step keeps the account of a day.
LEMMA AccountedStep ==
  ASSUME Shape, Shape', [Next]_vars, NEW d \in Dates, d \notin raced', d \notin applied',
         Alone(d), Accounted(d)
  PROVE  Accounted(d)'
<1>0. Alone(d)'
  BY AloneStep
<1>1. ASSUME NEW c \in Calls, CheckInStart(c, d) \/ CheckOutStart(c, d) PROVE Accounted(d)'
  BY <1>0, <1>1, CheckInOpens, CheckOutCounts
<1>2. ASSUME NEW c \in Calls, calls[c].day = d, CheckInWrite(c) \/ CheckOutWrite(c)
      PROVE  Accounted(d)'
  BY <1>2, CheckInWrites, CheckOutWrites
<1>3. ASSUME NEW c \in Calls, calls[c].day = d, ~HasRecord(d), RequestRow(c) PROVE Accounted(d)'
  BY <1>0, <1>3, RequestRests
<1>4. ASSUME /\ ~(\E c \in Calls : CheckInStart(c, d) \/ CheckOutStart(c, d))
             /\ ~(\E c \in Calls : calls[c].day = d /\ (CheckInWrite(c) \/ CheckOutWrite(c)))
             /\ ~(\E c \in Calls : calls[c].day = d /\ ~HasRecord(d) /\ RequestRow(c))
      PROVE  Accounted(d)'
  <2>1. Still(d) \/ Tick
    BY <1>4, DayMoves
  <2>2. /\ record'[d] = record[d]
        /\ \A from \in Times : Running(d, from) => Running(d, from)'
        /\ \A total \in Nat : Closing(d, total) => Closing(d, total)'
        /\ Resting(d) => Resting(d)'
    BY <2>1, TimePasses
  <2>3. ASSUME NEW c \in InFlight(d)', calls'[c].pc \in {"open", "close"}
        PROVE  c \in InFlight(d) /\ calls'[c] = calls[c]
    <3>1. c \in Calls
      BY FlightMoves
    <3> QED
      BY <1>4, <2>3, <3>1, ClockingMoves
  <2>4. ASSUME NEW c \in InFlight(d), calls[c].pc \in {"open", "close"}
        PROVE  c \in InFlight(d)' /\ calls'[c] = calls[c]
    <3>1. c \in Calls
      BY DEF InFlight
    <3> QED
      BY <1>4, <2>4, <3>1, ClockingMoves
  <2>5. Clocking(d)' => Clocking(d)
    BY <2>3 DEF Clocking
  <2>6. Clocking(d) => Clocking(d)'
    <3>1. ASSUME NEW c \in InFlight(d), calls[c].pc \in {"open", "close"} PROVE Clocking(d)'
      <4>1. c \in InFlight(d)' /\ calls'[c].pc \in {"open", "close"}
        BY <2>4, <3>1
      <4> QED
        BY <4>1 DEF Clocking
    <3> QED
      BY <3>1 DEF Clocking
  <2>7. (IsOpen(d)' => IsOpen(d)) /\ (IsOpen(d) => IsOpen(d)')
    BY <2>2 DEF IsOpen, HasRecord
  <2>8. ASSUME NEW c \in InFlight(d)', NEW from \in Times, calls'[c].pc = "open",
               calls'[c].at = from
        PROVE  Running(d, from)'
    <3>1. c \in InFlight(d) /\ calls[c].pc = "open" /\ calls[c].at = from
      BY <2>3, <2>8
    <3> QED
      BY <2>2, <3>1 DEF Accounted
  <2>9. ASSUME NEW c \in InFlight(d)', NEW total \in Nat, calls'[c].pc = "close",
               calls'[c].total = total
        PROVE  Closing(d, total)'
    <3>1. c \in InFlight(d) /\ calls[c].pc = "close" /\ calls[c].total = total
      BY <2>3, <2>9
    <3> QED
      BY <2>2, <3>1 DEF Accounted
  <2>10. ASSUME ~Clocking(d)', IsOpen(d)', NEW from \in Times, record'[d].in = from
         PROVE  Running(d, from)'
    BY <2>2, <2>6, <2>7, <2>10 DEF Accounted
  <2>11. ASSUME ~Clocking(d)', ~IsOpen(d)' PROVE Resting(d)'
    BY <2>2, <2>6, <2>7, <2>11 DEF Accounted
  <2> QED
    BY <2>8, <2>9, <2>10, <2>11 DEF Accounted
<1> QED
  BY <1>1, <1>2, <1>3, <1>4

----------------------------------------------------------------------------
(* The invariant *)

DaysAccounted == \A d \in Dates \ (raced \cup applied) : Accounted(d)

Inv == Shape /\ InTurn /\ DaysAccounted

\* Initially there is no record, no request and no call.
LEMMA InvInit == Init => Inv
<1> SUFFICES ASSUME Init PROVE Inv
  OBVIOUS
<1>0. /\ Days \in Nat \ {0} /\ DayLength \in Nat \ {0} /\ TicksPerMinute \in Nat \ {0}
      /\ MaxSessions \in Nat /\ MaxFailures \in Nat
  BY TimeAssumption, BoundsAssumption
<1>1. TypeOK
  <2>1. now \in Times
    <3>1. Days * DayLength \in Nat
      BY <1>0, DaysApart
    <3> DEFINE n == Days * DayLength
    <3> HIDE DEF n
    <3>2. n \in Nat => 0 \in 0 .. n
      OBVIOUS
    <3> QED
      BY <3>1, <3>2 DEF Init, Times, n
  <2>2. \A c \in Calls : calls[c].pc = "idle"
    BY DEF Init, Idle
  <2>3. /\ record \in [Dates -> Record \cup {NoRecord}]
        /\ request \in [Dates -> Request \cup {NoRequest}]
    BY DEF Init
  <2>4. calls \in [Calls -> {Idle} \cup InCall \cup OutCall \cup RequestCall \cup DecideCall]
    BY DEF Init
  <2>5. \A c \in Calls : calls[c].pc = "apply" => calls[c].to = "APPROVED"
    BY <2>2
  <2>6. present \in [Dates -> 0 .. DayLength] /\ sessions \in [Dates -> 0 .. MaxSessions]
    <3>1. 0 \in 0 .. DayLength /\ 0 \in 0 .. MaxSessions
      BY <1>0
    <3> QED
      BY <3>1 DEF Init
  <2>7. /\ failures \in 0 .. MaxFailures /\ inside \in BOOLEAN
        /\ applied \subseteq Dates /\ raced \subseteq Dates
    <3>1. failures \in 0 .. MaxFailures
      BY <1>0 DEF Init
    <3>2. inside \in BOOLEAN
      BY DEF Init
    <3>3. applied \subseteq Dates /\ raced \subseteq Dates
      BY DEF Init
    <3> QED
      BY <3>1, <3>2, <3>3
  <2> QED
    BY <2>1, <2>3, <2>4, <2>5, <2>6, <2>7 DEF TypeOK
<1>2. \A c \in Calls : calls[c].pc = "idle"
  BY DEF Init, Idle
<1>3. /\ \A d \in Dates : /\ record[d] = NoRecord /\ request[d] = NoRequest
                          /\ request[d].status = "NONE" /\ present[d] = 0 /\ sessions[d] = 0
      /\ inside = FALSE /\ now = 0 /\ applied = {}
  BY DEF Init, NoRequest
<1>4. Stored
  <2>1. \A d \in Dates : present[d] <= Elapsed(d)
    BY <1>3, TimesAreNat DEF Elapsed
  <2> QED
    BY <1>2, <1>3, <2>1 DEF Stored
<1>5. \A d : InFlight(d) = {}
  BY DEF Init, InFlight
<1>6. InTurn
  BY <1>3, <1>5 DEF InTurn, Decided, Alone
<1>7. ASSUME NEW d \in Dates PROVE Accounted(d)
  <2>1. ~HasRecord(d) /\ ~IsOpen(d) /\ Worked(d) = 0
    BY <1>3 DEF HasRecord, IsOpen, Worked
  <2>2. Resting(d)
    BY <1>0, <1>3, <2>1 DEF Resting, Settled
  <2> QED
    BY <1>5, <2>1, <2>2 DEF Accounted, Clocking
<1> QED
  BY <1>1, <1>4, <1>6, <1>7 DEF Inv, Shape, DaysAccounted

\* The invariant is inductive: each part has its lemma above.
LEMMA InvStep == Inv /\ [Next]_vars => Inv'
<1> SUFFICES ASSUME Inv, [Next]_vars PROVE Inv'
  OBVIOUS
<1>1. Shape /\ Shape'
  BY TypeStep, StoredStep DEF Inv, Shape
<1>2. raced \subseteq raced' /\ applied \subseteq applied'
  BY <1>1, HistoryMoves
<1>3. ASSUME NEW d \in Dates, d \notin raced' PROVE Decided(d)'
  BY <1>1, <1>2, <1>3, DecidedStep DEF Inv, InTurn
<1>4. ASSUME NEW d \in Dates, d \notin raced', d \notin applied' PROVE Accounted(d)'
  <2>1. Alone(d) /\ Accounted(d)
    BY <1>2, <1>4 DEF Inv, InTurn, Decided, DaysAccounted
  <2> QED
    BY <1>1, <1>4, <2>1, AccountedStep
<1>5. InTurn'
  BY <1>3 DEF InTurn, Dates
<1>6. DaysAccounted'
  BY <1>4 DEF DaysAccounted, Dates
<1> QED
  BY <1>1, <1>5, <1>6 DEF Inv

\* The invariant of every behaviour, from which the theorems follow.
LEMMA InvHolds == Spec => []Inv
BY InvInit, InvStep, PTL DEF Spec

----------------------------------------------------------------------------
(* Theorems *)

\* Rows and calls have their shape.
THEOREM TypeCorrect == Spec => []TypeOK
<1>1. Inv => TypeOK
  BY DEF Inv, Shape
<1> QED
  BY <1>1, InvHolds, PTL

\* An APPROVED request has changed its record, and without races nothing else has.
THEOREM ChangesAreApproved == Spec => []RegularisedByApproval
<1>1. Inv => RegularisedByApproval
  <2> SUFFICES ASSUME Inv, NEW d \in Dates
               PROVE  /\ request[d].status = "APPROVED" => d \in applied
                      /\ d \in applied \ raced /\ InFlight(d) = {} =>
                           request[d].status = "APPROVED"
    BY DEF RegularisedByApproval
  <2>1. request[d].status = "APPROVED" => d \in applied
    BY DEF Inv, Shape, Stored
  <2>2. d \in applied \ raced /\ InFlight(d) = {} => request[d].status = "APPROVED"
    BY DEF Inv, InTurn, Decided
  <2> QED
    BY <2>1, <2>2
<1> QED
  BY <1>1, InvHolds, PTL

\* The record of a day without races and decisions counts the minutes the
\* employee was there, to less than one a session, over any number of sessions.
THEOREM DayCountsSessions == Spec => []DayIsRecorded
<1>1. Inv => DayIsRecorded
  <2> SUFFICES ASSUME Inv, NEW d \in Dates \ (raced \cup applied), HasRecord(d), InFlight(d) = {}
               PROVE  /\ d = Today => (inside <=> IsOpen(d))
                      /\ record[d].out # None =>
                           /\ record[d].worked * TicksPerMinute <= present[d]
                           /\ present[d] <= record[d].worked * TicksPerMinute
                                              + sessions[d] * (TicksPerMinute - 1)
                           /\ record[d].status = DeriveStatus(record[d].worked)
    BY DEF DayIsRecorded
  <2>1. /\ IsOpen(d) => \A from \in Times : record[d].in = from => Running(d, from)
        /\ ~IsOpen(d) => Resting(d)
    BY DEF Inv, DaysAccounted, Accounted, Clocking
  <2>2. CASE IsOpen(d)
    <3>1. record[d].in \in Times /\ record[d].out = None
      BY <2>2 DEF IsOpen, HasRecord, Inv, Shape, TypeOK, Record
    <3>2. d = Today => inside
      BY <2>1, <2>2, <3>1 DEF Running
    <3> QED
      BY <2>2, <3>1, <3>2
  <2>3. CASE ~IsOpen(d)
    <3>1. Resting(d) /\ Worked(d) = record[d].worked
      BY <2>1, <2>3 DEF Worked
    <3> QED
      BY <2>3, <3>1 DEF Resting, Settled
  <2> QED
    BY <2>2, <2>3
<1> QED
  BY <1>1, InvHolds, PTL

\* A decided request stays as it is, unless calls about its day have overlapped.
THEOREM DecidedForGood == Spec => DecisionIsFinal
<1> DEFINE Final == \A d \in Dates :
             request[d].status \in {"APPROVED", "REJECTED"} /\ request'[d] # request[d] =>
               d \in raced
<1>1. Inv /\ [Next]_vars => [Final]_request
  <2> SUFFICES ASSUME Inv, [Next]_vars, NEW d \in Dates,
                      request[d].status \in {"APPROVED", "REJECTED"}, request'[d] # request[d],
                      d \notin raced
               PROVE  FALSE
    OBVIOUS
  <2>1. PICK c \in InFlight(d) :
          \/ calls[c].pc = "request" /\ request[d] = NoRequest
          \/ calls[c].pc = "decide" /\ request'[d].status = calls[c].to
    BY RequestInTurn DEF Inv
  <2>2. calls[c].pc = "decide"
    BY <2>1 DEF NoRequest
  <2> QED
    BY <2>2 DEF Inv, InTurn, Decided
<1> QED
  BY <1>1, InvHolds, PTL DEF Spec, DecisionIsFinal
===============================================================================
