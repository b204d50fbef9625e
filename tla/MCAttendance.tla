----------------------------- MODULE MCAttendance -----------------------------
(***************************************************************************)
(* What an employee's month of pay is made of: her attendance, her salary  *)
(* structures, the holidays of the place and the arithmetic of a payslip.  *)
(* Each is written by calls of its own, which read none of the others, so  *)
(* that the models share no variable: a behaviour is one part's, named by  *)
(* `part`, and the others rest.                                            *)
(***************************************************************************)
EXTENDS Attendance, Salaries, Payslips, Holidays, TLC

VARIABLE part

\* Requests that name one of the two times.
MCAskedTimes == {<<0, None>>, <<None, 0>>}

\* Salaries and rates in tens of rupees.
MCRates == SeededRates(1000)

AttendanceRests == UNCHANGED vars
SalariesRest == UNCHANGED salaryVars
PayslipsRest == UNCHANGED slipVars
CalendarsRest == UNCHANGED calendarVars

MCInit ==
  /\ part \in {"attendance", "salaries", "payslips", "calendars"}
  /\ Init /\ SalaryInit /\ SlipInit /\ CalendarInit

MCNext ==
  /\ UNCHANGED part
  /\ \/ part = "attendance" /\ Next /\ SalariesRest /\ PayslipsRest /\ CalendarsRest
     \/ part = "salaries" /\ SalaryNext /\ AttendanceRests /\ PayslipsRest /\ CalendarsRest
     \/ part = "payslips" /\ SlipNext /\ AttendanceRests /\ SalariesRest /\ CalendarsRest
     \/ part = "calendars" /\ CalendarNext /\ AttendanceRests /\ SalariesRest /\ PayslipsRest

MCSpec == MCInit /\ [][MCNext]_<<part, vars, salaryVars, slipVars, calendarVars>>

\* PayslipsAddUp (RowsProofs) needs it of the rates.
ASSUME SeededRatesAreBearable == RatesAreBearable

Symmetry == Permutations(Calls)
===============================================================================
