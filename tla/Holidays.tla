------------------------------- MODULE Holidays -------------------------------
(***************************************************************************)
(* The holiday calendars of one company and year: HolidaysService.  A      *)
(* calendar is a location's, or company-wide when it has no location; the  *)
(* schema's unique index compares locations, and to PostgreSQL two rows    *)
(* without one do not collide.                                             *)
(***************************************************************************)
EXTENDS Naturals, FiniteSets

CONSTANTS
  Locations,      \* the company's locations
  HolidayDates,   \* days that may be holidays
  CalendarCalls   \* slots for calls of createCalendar in flight

VARIABLES
  calendars,     \* stored calendars: [id, place]
  holidays,      \* stored holidays: <<id of the calendar, date>>
  creating,      \* slot -> call in flight
  calendarRaces  \* history: places for which two calls of createCalendar overlapped

calendarVars == <<calendars, holidays, creating, calendarRaces>>

Company == "company"
Places == Locations \cup {Company}
NotCreating == [pc |-> "idle"]
CalendarsOf(place) == {k \in calendars : k.place = place}
CreatingFor(place) == {c \in CalendarCalls : creating[c] # NotCreating /\ creating[c].place = place}

CalendarInit ==
  /\ calendars = {} /\ holidays = {}
  /\ creating = [c \in CalendarCalls |-> NotCreating]
  /\ calendarRaces = {}

\* Refused (CALENDAR_EXISTS) when the place has a calendar.
CreateCalendarStart(c) ==
  /\ creating[c] = NotCreating
  /\ \E place \in Places :
       /\ CalendarsOf(place) = {}
       /\ creating' = [creating EXCEPT ![c] = [pc |-> "create", place |-> place]]
       /\ calendarRaces' = IF CreatingFor(place) = {} THEN calendarRaces ELSE calendarRaces \cup {place}
  /\ UNCHANGED <<calendars, holidays>>

\* Seeded fault: the schema has no unique index.
IndexAdmitsAll(place) == TRUE

IndexAdmits(place) == place = Company \/ CalendarsOf(place) = {}

CreateCalendar(c) ==
  /\ creating[c].pc = "create"
  /\ LET place == creating[c].place
     IN calendars' = IF IndexAdmits(place)
                     THEN calendars \cup {[id |-> Cardinality(calendars) + 1, place |-> place]}
                     ELSE calendars
  /\ creating' = [creating EXCEPT ![c] = NotCreating]
  /\ UNCHANGED <<holidays, calendarRaces>>

\* A date appears once per calendar; the second time is HOLIDAY_EXISTS.
AddHoliday ==
  /\ \E k \in calendars, date \in HolidayDates :
       <<k.id, date>> \notin holidays /\ holidays' = holidays \cup {<<k.id, date>>}
  /\ UNCHANGED <<calendars, creating, calendarRaces>>

CalendarNext ==
  \/ \E c \in CalendarCalls : CreateCalendarStart(c) \/ CreateCalendar(c)
  \/ AddHoliday

CalendarSpec == CalendarInit /\ [][CalendarNext]_calendarVars

----------------------------------------------------------------------------
\* What leaves may be told of a place: findFirst takes any calendar that fits,
\* the location's own before the company-wide one.
EffectiveCalendars(place) ==
  IF CalendarsOf(place) # {} THEN CalendarsOf(place) ELSE CalendarsOf(Company)

\* Whoever asks for the holidays of a place is told all that were entered for
\* it: one calendar is in effect there, but for company-wide ones that two
\* calls stored at once, which the index does not keep apart.
CalendarInEffect ==
  \A place \in Places :
    LET effective == EffectiveCalendars(place)
    IN Cardinality(effective) <= 1 \/ (effective \subseteq CalendarsOf(Company) /\ Company \in calendarRaces)
=============================================================================
