------------------------------ MODULE MCSessions ------------------------------
(***************************************************************************)
(* The two models of the frontend in one run: the session of a browser and *)
(* the pages of the console.  They share no state, so a behaviour is one   *)
(* of the first or of the second, with the other at rest.                  *)
(***************************************************************************)
EXTENDS Sessions, Console, TLC

VARIABLE part

Symmetry == Permutations(Pairs) \cup Permutations(Calls)

ConsoleAtRest ==
  /\ user = "OWNER" /\ row = [kind |-> "run", whose |-> "other", state |-> "DRAFT"]
  /\ screen = NoScreen /\ seen = "none" /\ answer = NotAnswered

MCInit ==
  \/ part = "session" /\ Init /\ ConsoleAtRest
  \/ part = "console" /\ Init /\ ConsoleInit

MCNext ==
  \/ part = "session" /\ Next /\ UNCHANGED <<part, consoleVars>>
  \/ part = "console" /\ ConsoleNext /\ UNCHANGED <<part, vars>>

MCSpec == MCInit /\ [][MCNext]_<<part, vars, consoleVars>>
===============================================================================
