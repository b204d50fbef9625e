----------------------------- MODULE MCLifecycle -----------------------------
(***************************************************************************)
(* What a company's rows go through, from its signup on: the company and   *)
(* its owner, the onboarding form of an employee, the status and the exits *)
(* of employees, and the notifications of what happens to them.  The four  *)
(* models share no variable: the code keeps these in tables of their own   *)
(* and no call writes two of them.  So each behaviour is one part's, named *)
(* by `part`, and the others rest.                                         *)
(***************************************************************************)
EXTENDS EmployeeLifecycle, Onboarding, Signup, Notifications, TLC

VARIABLE part

mcVars == <<part, vars, formVars, signupVars, noticeVars>>

\* company.service.ts:143: the slug of the name, then the slug with a counter.
SlugCandidates ==
  [acme |-> <<"acme", "acme1", "acme2">>, acme1 |-> <<"acme1", "acme11", "acme12">>]

FormSections == <<"education", "nominees">>

LifecycleRests == UNCHANGED vars
FormRests == UNCHANGED formVars
SignupsRest == UNCHANGED signupVars
NoticesRest == UNCHANGED noticeVars

MCInit ==
  /\ part \in {"lifecycle", "form", "signup", "notices"}
  /\ Init /\ FormInit /\ SignupInit /\ NoticeInit

MCNext ==
  /\ UNCHANGED part
  /\ \/ part = "lifecycle" /\ Next /\ FormRests /\ SignupsRest /\ NoticesRest
     \/ part = "form" /\ FormNext /\ LifecycleRests /\ SignupsRest /\ NoticesRest
     \/ part = "signup" /\ SignupNext /\ LifecycleRests /\ FormRests /\ NoticesRest
     \/ part = "notices" /\ NoticeNext /\ LifecycleRests /\ FormRests /\ SignupsRest

MCSpec ==
  /\ MCInit /\ [][MCNext]_mcVars
  /\ \A v \in Events : WF_mcVars(part = "notices" /\ Dispatch(v) /\ UNCHANGED part
                                   /\ LifecycleRests /\ FormRests /\ SignupsRest)
===============================================================================
