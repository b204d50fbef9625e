----------------------------- MODULE HiringProofs -----------------------------
(***************************************************************************)
(* The properties of Hiring and of the Invitations it is composed with,    *)
(* for every set of addresses, candidates and calls and every bound:       *)
(* TypeOK, OneEmployeePerUser, ActiveCanLogIn, InvitedIsWhole,             *)
(* HiredIsInvited, HiredOnce, HiredAcceptedLatest and HiredIsFinal.        *)
(***************************************************************************)
EXTENDS Hiring, FiniteSetTheorems, SequenceTheorems, TLAPS

\* An invite of its own has no candidate; the one within hireCandidate has the
\* pcs of both.
PlainPcs == {"user", "role", "code", "employee"}
HirePcs == InvitePcs \cup {"latest", "accept", "hired"}
PlainInvite ==
  [op : {"invite"}, pc : PlainPcs, email : Emails, code : Codes \cup {None}, hire : {None}]
HireOf ==
  [op : {"invite"}, pc : HirePcs, email : Emails, code : Codes \cup {None}, hire : Candidates,
   offer : Nat]
AnyCall == {Idle} \cup PlainInvite \cup CreateCall \cup AcceptCall \cup HireOf \cup StageCall

\* The inductive invariant of TypeOK.  TypeOK does not say that only the call that
\* hires a candidate knows of an offer.
TypeInv ==
  /\ RowsOK
  /\ calls \in [Calls -> AnyCall]
  /\ stage \in [Candidates -> Stages \cup {"NONE"}]
  /\ offers \in [Candidates -> Seq(Offer)]
  /\ raced \subseteq Candidates

----------------------------------------------------------------------------
(* Calls *)

\* What the operation of a call says about its other fields.
LEMMA CallFields ==
  ASSUME TypeInv, NEW c \in Calls, calls[c].pc # "idle"
  PROVE  /\ calls[c].op \in {"invite", "create", "accept", "stage"}
         /\ calls[c].op = "create" =>
              /\ calls[c].pc = "employee" /\ calls[c].email = None
              /\ calls[c].code \in Codes /\ calls[c].hire = None
         /\ calls[c].op = "accept" =>
              calls[c].pc \in {"activateUser", "activateEmployee"} /\ calls[c].email \in Emails
         /\ calls[c].op = "stage" =>
              /\ calls[c].pc \in {"offer", "stage"} /\ calls[c].email \in Emails
              /\ calls[c].hire \in Candidates /\ calls[c].to \in Stages \ {"APPLIED", "HIRED"}
         /\ calls[c].op = "invite" =>
              /\ calls[c].email \in Emails /\ calls[c].code \in Codes \cup {None}
              /\ calls[c].hire = None => calls[c].pc \in PlainPcs
              /\ calls[c].hire # None =>
                   /\ calls[c].hire \in Candidates
                   /\ calls[c].pc \in HirePcs /\ calls[c].offer \in Nat
<1>1. \/ calls[c] \in PlainInvite \/ calls[c] \in CreateCall \/ calls[c] \in AcceptCall
      \/ calls[c] \in HireOf \/ calls[c] \in StageCall
  BY DEF TypeInv, AnyCall, Idle
<1>2. CASE calls[c] \in PlainInvite
  BY <1>2 DEF PlainInvite
<1>3. CASE calls[c] \in CreateCall
  BY <1>3 DEF CreateCall
<1>4. CASE calls[c] \in AcceptCall
  BY <1>4 DEF AcceptCall
<1>5. CASE calls[c] \in HireOf
  BY <1>5, NoneAssumption DEF HireOf, Candidates
<1>6. CASE calls[c] \in StageCall
  BY <1>6 DEF StageCall
<1> QED
  BY <1>1, <1>2, <1>3, <1>4, <1>5, <1>6

\* The calls about a candidate, before a step and after it.
LEMMA CallAbout ==
  ASSUME NEW call \in AnyCall, NEW k \in Candidates, call.pc # "idle"
  PROVE  "hire" \in DOMAIN call /\ call.hire = k <=> call.op # "accept" /\ call.hire = k
<1>1. \/ call \in PlainInvite \/ call \in CreateCall \/ call \in AcceptCall
      \/ call \in HireOf \/ call \in StageCall
  BY DEF AnyCall, Idle
<1>2. CASE call \in AcceptCall
  BY <1>2 DEF AcceptCall
<1>3. CASE call \in PlainInvite
  BY <1>3 DEF PlainInvite
<1>4. CASE call \in CreateCall
  BY <1>4 DEF CreateCall
<1>5. CASE call \in HireOf
  BY <1>5 DEF HireOf
<1>6. CASE call \in StageCall
  BY <1>6 DEF StageCall
<1> QED
  BY <1>1, <1>2, <1>3, <1>4, <1>5, <1>6

\* The calls about a candidate, by the fields of a call.
LEMMA AboutCandidate ==
  ASSUME TypeInv, NEW c \in Calls, NEW k \in Candidates
  PROVE  c \in About(k) <=>
           calls[c].pc # "idle" /\ calls[c].op # "accept" /\ calls[c].hire = k
BY CallAbout DEF About, TypeInv

\* The same after a step.
LEMMA AboutNext ==
  ASSUME TypeInv', NEW c \in Calls, NEW k \in Candidates
  PROVE  c \in About(k)' <=>
           calls'[c].pc # "idle" /\ calls'[c].op # "accept" /\ calls'[c].hire = k
BY CallAbout DEF About, TypeInv

\* What a step makes of its call.
Ends(c) == calls'[c] = Idle /\ calls'[c].pc = "idle"
Moves(c, pc) ==
  /\ calls'[c].pc = pc /\ calls'[c].op = calls[c].op /\ calls'[c].email = calls[c].email
  /\ calls[c].op # "accept" => calls'[c].hire = calls[c].hire
  /\ calls[c].op \in {"invite", "create"} => calls'[c].code = calls[c].code
  /\ calls[c].op = "invite" /\ calls[c].hire # None => calls'[c].offer = calls[c].offer
  /\ calls[c].op = "stage" => calls'[c].to = calls[c].to

\* A call that returns leaves its slot free.
LEMMA ReturnEnds ==
  ASSUME TypeInv, NEW c \in Calls, Return(c)
  PROVE  Ends(c) /\ calls' \in [Calls -> AnyCall]
<1>1. calls'[c] = Idle
  BY DEF TypeInv, Return, Put
<1> QED
  BY <1>1 DEF Ends, Idle, TypeInv, Return, Put, AnyCall

\* A call moved on has another pc, and the rest as before.
LEMMA GotoMoves ==
  ASSUME TypeInv, NEW c \in Calls, calls[c].pc # "idle", NEW pc, Goto(c, pc)
  PROVE  /\ Moves(c, pc)
         /\ \/ calls[c].op = "invite" /\ calls[c].hire = None /\ pc \in PlainPcs
            \/ calls[c].op = "invite" /\ calls[c].hire # None /\ pc \in HirePcs
            \/ calls[c].op = "accept" /\ pc \in {"activateUser", "activateEmployee"}
            \/ calls[c].op = "stage" /\ pc \in {"offer", "stage"}
            => calls' \in [Calls -> AnyCall]
<1> DEFINE moved == [calls[c] EXCEPT !.pc = pc]
<1>0. calls \in [Calls -> AnyCall]
  BY DEF TypeInv
<1>1. calls'[c] = moved
  BY <1>0 DEF Goto
<1>2. moved \in AnyCall => calls' \in [Calls -> AnyCall]
  BY <1>0 DEF Goto
<1>3. \/ calls[c] \in PlainInvite \/ calls[c] \in CreateCall \/ calls[c] \in AcceptCall
      \/ calls[c] \in HireOf \/ calls[c] \in StageCall
  BY DEF TypeInv, AnyCall, Idle
<1>4. CASE calls[c] \in PlainInvite
  <2>1. Moves(c, pc) /\ calls[c].op = "invite" /\ calls[c].hire = None
    BY <1>1, <1>4 DEF PlainInvite, Moves
  <2>2. pc \in PlainPcs => moved \in PlainInvite
    BY <1>4 DEF PlainInvite
  <2> QED
    BY <1>2, <2>1, <2>2 DEF AnyCall
<1>5. CASE calls[c] \in CreateCall
  BY <1>1, <1>5 DEF CreateCall, Moves
<1>6. CASE calls[c] \in AcceptCall
  <2>1. Moves(c, pc) /\ calls[c].op = "accept"
    BY <1>1, <1>6 DEF AcceptCall, Moves
  <2>2. pc \in {"activateUser", "activateEmployee"} => moved \in AcceptCall
    BY <1>6 DEF AcceptCall
  <2> QED
    BY <1>2, <2>1, <2>2 DEF AnyCall
<1>7. CASE calls[c] \in HireOf
  <2>1. Moves(c, pc) /\ calls[c].op = "invite" /\ calls[c].hire # None
    BY <1>1, <1>7, NoneAssumption DEF HireOf, Moves, Candidates
  <2>2. pc \in HirePcs => moved \in HireOf
    BY <1>7 DEF HireOf
  <2> QED
    BY <1>2, <2>1, <2>2 DEF AnyCall
<1>8. CASE calls[c] \in StageCall
  <2>1. Moves(c, pc) /\ calls[c].op = "stage"
    BY <1>1, <1>8 DEF StageCall, Moves
  <2>2. pc \in {"offer", "stage"} => moved \in StageCall
    BY <1>8 DEF StageCall
  <2> QED
    BY <1>2, <2>1, <2>2 DEF AnyCall
<1> QED
  BY <1>3, <1>4, <1>5, <1>6, <1>7, <1>8

\* The calls that start, with their fields: those of Invitations,
LEMMA AfterInviteStart ==
  ASSUME TypeInv, NEW c \in Calls
  PROVE  /\ \A code \in Codes : CreateStart(c, code) =>
              /\ calls' \in [Calls -> AnyCall]
              /\ calls'[c].op = "create" /\ calls'[c].pc = "employee" /\ calls'[c].email = None
              /\ calls'[c].code = code /\ calls'[c].hire = None
         /\ \A e \in Emails, code \in GivenCodes \cup {None} : InviteStart(c, e, code) =>
              /\ calls' \in [Calls -> AnyCall]
              /\ calls'[c].op = "invite" /\ calls'[c].pc = "user" /\ calls'[c].email = e
              /\ calls'[c].code = code /\ calls'[c].hire = None
         /\ \A e \in Emails : AcceptStart(c, e) =>
              /\ calls' \in [Calls -> AnyCall]
              /\ calls'[c].op = "accept" /\ calls'[c].pc = "activateUser" /\ calls'[c].email = e
<1>0. calls \in [Calls -> AnyCall]
  BY DEF TypeInv
<1>1. ASSUME NEW code \in Codes, CreateStart(c, code)
      PROVE  /\ calls' \in [Calls -> AnyCall]
             /\ calls'[c].op = "create" /\ calls'[c].pc = "employee" /\ calls'[c].email = None
             /\ calls'[c].code = code /\ calls'[c].hire = None
  <2> DEFINE call == [op |-> "create", pc |-> "employee", email |-> None, code |-> code, hire |-> None]
  <2>1. call \in AnyCall
    BY DEF AnyCall, CreateCall
  <2>2. calls' = [calls EXCEPT ![c] = call]
    BY <1>1 DEF CreateStart, Put
  <2>3. calls'[c] = call
    BY <1>0, <2>2
  <2> QED
    BY <1>0, <2>1, <2>2, <2>3
<1>2. ASSUME NEW e \in Emails, NEW code \in GivenCodes \cup {None}, InviteStart(c, e, code)
      PROVE  /\ calls' \in [Calls -> AnyCall]
             /\ calls'[c].op = "invite" /\ calls'[c].pc = "user" /\ calls'[c].email = e
             /\ calls'[c].code = code /\ calls'[c].hire = None
  <2> DEFINE call == [op |-> "invite", pc |-> "user", email |-> e, code |-> code, hire |-> None]
  <2>1. call \in AnyCall
    BY CodesAssumption DEF AnyCall, PlainInvite, PlainPcs, Codes
  <2>2. calls' = [calls EXCEPT ![c] = call]
    BY <1>2 DEF InviteStart, Put
  <2>3. calls'[c] = call
    BY <1>0, <2>2
  <2> QED
    BY <1>0, <2>1, <2>2, <2>3
<1>3. ASSUME NEW e \in Emails, AcceptStart(c, e)
      PROVE  /\ calls' \in [Calls -> AnyCall]
             /\ calls'[c].op = "accept" /\ calls'[c].pc = "activateUser" /\ calls'[c].email = e
  <2> DEFINE call == [op |-> "accept", pc |-> "activateUser", email |-> e]
  <2>1. call \in AnyCall
    BY DEF AnyCall, AcceptCall
  <2>2. calls' = [calls EXCEPT ![c] = call]
    BY <1>3 DEF AcceptStart, Put
  <2>3. calls'[c] = call
    BY <1>0, <2>2
  <2> QED
    BY <1>0, <2>1, <2>2, <2>3
<1> QED
  BY <1>1, <1>2, <1>3

\* and those of the stages and of hireCandidate.
LEMMA AfterHireStart ==
  ASSUME TypeInv, NEW c \in Calls, NEW k \in Candidates
  PROVE  /\ AdvanceStart(c, k) \/ RejectStart(c, k) =>
              /\ calls' \in [Calls -> AnyCall]
              /\ calls'[c].op = "stage" /\ calls'[c].pc = "stage" /\ calls'[c].email = EmailOf[k]
              /\ calls'[c].hire = k
         /\ OfferStart(c, k) =>
              /\ calls' \in [Calls -> AnyCall]
              /\ calls'[c].op = "stage" /\ calls'[c].pc = "offer" /\ calls'[c].email = EmailOf[k]
              /\ calls'[c].hire = k
         /\ HireStart(c, k) =>
              /\ calls' \in [Calls -> AnyCall]
              /\ calls'[c].op = "invite" /\ calls'[c].pc = "latest" /\ calls'[c].email = EmailOf[k]
              /\ calls'[c].hire = k
<1>0. calls \in [Calls -> AnyCall] /\ EmailOf[k] \in Emails
  BY EmailOfAssumption DEF TypeInv, Candidates
<1>1. ASSUME NEW pc \in {"offer", "stage"}, NEW to \in Stages \ {"APPLIED", "HIRED"},
             Start(c, k, StageChange(k, pc, to))
      PROVE  /\ calls' \in [Calls -> AnyCall]
             /\ calls'[c].op = "stage" /\ calls'[c].pc = pc /\ calls'[c].email = EmailOf[k]
             /\ calls'[c].hire = k
  <2> DEFINE call == [op |-> "stage", pc |-> pc, email |-> EmailOf[k], hire |-> k, to |-> to]
  <2>1. call \in AnyCall
    BY <1>0 DEF AnyCall, StageCall
  <2>2. calls' = [calls EXCEPT ![c] = call]
    BY <1>1 DEF Start, StageChange, Put
  <2>3. calls'[c] = call
    BY <1>0, <2>2
  <2> QED
    BY <1>0, <2>1, <2>2, <2>3
<1>2. ASSUME AdvanceStart(c, k) PROVE Forward(stage[k]) \in Stages \ {"APPLIED", "HIRED"}
  <2>1. stage[k] \in {"APPLIED", "SCREENING", "INTERVIEW"}
    BY <1>2 DEF AdvanceStart, Advances, TypeInv, Stages, Closed
  <2> QED
    BY <2>1 DEF Forward, Stages
<1>3. ASSUME HireStart(c, k)
      PROVE  /\ calls' \in [Calls -> AnyCall]
             /\ calls'[c].op = "invite" /\ calls'[c].pc = "latest" /\ calls'[c].email = EmailOf[k]
             /\ calls'[c].hire = k
  <2> DEFINE call == [op |-> "invite", pc |-> "latest", email |-> EmailOf[k], code |-> None,
                      hire |-> k, offer |-> 0]
  <2>1. call \in AnyCall
    BY <1>0 DEF AnyCall, HireOf, HirePcs
  <2>2. calls' = [calls EXCEPT ![c] = call]
    BY <1>3 DEF HireStart, Start, Put
  <2>3. calls'[c] = call
    BY <1>0, <2>2
  <2> QED
    BY <1>0, <2>1, <2>2, <2>3
<1>4. {"REJECTED", "OFFER"} \subseteq Stages \ {"APPLIED", "HIRED"}
  BY DEF Stages
<1> QED
  BY <1>1, <1>2, <1>3, <1>4 DEF AdvanceStart, RejectStart, OfferStart

\* The queries of an invite,
LEMMA AfterInviteQuery ==
  ASSUME TypeInv, NEW c \in Calls
  PROVE  /\ CheckEmail(c) =>
              /\ calls' \in [Calls -> AnyCall]
              /\ IF users[calls[c].email] = NoUser THEN Moves(c, "user") ELSE Ends(c)
         /\ CreateUser(c) =>
              /\ calls' \in [Calls -> AnyCall]
              /\ IF users[calls[c].email] = NoUser THEN Moves(c, "role") ELSE Ends(c)
         /\ AssignRole(c) =>
              /\ calls' \in [Calls -> AnyCall]
              /\ Moves(c, IF calls[c].code = None THEN "code" ELSE "employee")
         /\ CreateEmployee(c) =>
              /\ calls' \in [Calls -> AnyCall]
              /\ IF Taken(calls[c].code) \/ calls[c].hire = None THEN Ends(c) ELSE Moves(c, "return")
<1>1. ASSUME CheckEmail(c)
      PROVE  /\ calls' \in [Calls -> AnyCall]
             /\ IF users[calls[c].email] = NoUser THEN Moves(c, "user") ELSE Ends(c)
  <2>1. calls[c].op = "invite"
    BY <1>1, CallFields DEF CheckEmail, At
  <2> QED
    BY <1>1, <2>1, GotoMoves, ReturnEnds DEF CheckEmail, At, PlainPcs, HirePcs, InvitePcs
<1>2. ASSUME CreateUser(c)
      PROVE  /\ calls' \in [Calls -> AnyCall]
             /\ IF users[calls[c].email] = NoUser THEN Moves(c, "role") ELSE Ends(c)
  <2>1. calls[c].op = "invite"
    BY <1>2, CallFields DEF CreateUser, At
  <2> QED
    BY <1>2, <2>1, GotoMoves, ReturnEnds DEF CreateUser, AddressFree, At, PlainPcs, HirePcs, InvitePcs
<1>3. ASSUME AssignRole(c)
      PROVE  /\ calls' \in [Calls -> AnyCall]
             /\ Moves(c, IF calls[c].code = None THEN "code" ELSE "employee")
  <2>1. calls[c].op = "invite"
    BY <1>3, CallFields DEF AssignRole, At
  <2> QED
    BY <1>3, <2>1, GotoMoves DEF AssignRole, At, PlainPcs, HirePcs, InvitePcs
<1>4. ASSUME CreateEmployee(c)
      PROVE  /\ calls' \in [Calls -> AnyCall]
             /\ IF Taken(calls[c].code) \/ calls[c].hire = None THEN Ends(c) ELSE Moves(c, "return")
  <2>1. calls[c].hire # None => calls[c].op = "invite"
    BY <1>4, CallFields DEF CreateEmployee, At
  <2> QED
    BY <1>4, <2>1, GotoMoves, ReturnEnds DEF CreateEmployee, At, HirePcs, InvitePcs
<1> QED
  BY <1>1, <1>2, <1>3, <1>4

\* which takes its code from a count of the employees,
LEMMA AfterCount ==
  ASSUME TypeInv, NEW c \in Calls, CountEmployees(c)
  PROVE  /\ calls' \in [Calls -> AnyCall]
         /\ calls'[c].pc = "employee" /\ calls'[c].op = "invite" /\ calls[c].op = "invite"
         /\ calls'[c].email = calls[c].email /\ calls'[c].hire = calls[c].hire
         /\ calls'[c].code \in Codes
         /\ calls[c].hire # None => calls'[c].offer = calls[c].offer
<1>0. calls \in [Calls -> AnyCall] /\ NextCode \in Codes /\ calls[c].pc = "code"
  BY DEF TypeInv, CountEmployees, At
<1> DEFINE counted == [calls[c] EXCEPT !.code = NextCode]
           next == [counted EXCEPT !.pc = "employee"]
<1>1. calls' = [[calls EXCEPT ![c] = counted] EXCEPT ![c].pc = "employee"]
  BY DEF CountEmployees
<1>2. [calls EXCEPT ![c] = counted][c] = counted
  BY <1>0
<1>3. calls' = [[calls EXCEPT ![c] = counted] EXCEPT ![c] = next]
  BY <1>1, <1>2
<1>4. calls'[c] = next /\ calls' = [calls EXCEPT ![c] = next]
  BY <1>0, <1>3
<1>5. calls[c] \in PlainInvite \/ calls[c] \in HireOf
  BY <1>0 DEF AnyCall, Idle, CreateCall, AcceptCall, StageCall
<1>6. CASE calls[c] \in PlainInvite
  <2>1. counted \in PlainInvite /\ calls[c].hire = None /\ calls[c].op = "invite"
    BY <1>0, <1>6 DEF PlainInvite
  <2>2. counted.email = calls[c].email /\ counted.code = NextCode
    BY <1>6 DEF PlainInvite
  <2> HIDE DEF counted
  <2>3. next \in PlainInvite /\ next.email = counted.email /\ next.code = counted.code
        /\ next.pc = "employee" /\ next.op = "invite" /\ next.hire = None
    BY <2>1 DEF PlainInvite, PlainPcs
  <2> QED
    BY <1>0, <1>4, <2>1, <2>2, <2>3 DEF AnyCall
<1>7. CASE calls[c] \in HireOf
  <2>1. counted \in HireOf /\ calls[c].op = "invite"
    BY <1>0, <1>7 DEF HireOf
  <2>2. counted.email = calls[c].email /\ counted.code = NextCode /\ counted.hire = calls[c].hire
        /\ counted.offer = calls[c].offer
    BY <1>7 DEF HireOf
  <2> HIDE DEF counted
  <2>3. next \in HireOf /\ next.email = counted.email /\ next.code = counted.code
        /\ next.pc = "employee" /\ next.op = "invite" /\ next.hire = counted.hire
        /\ next.offer = counted.offer
    BY <2>1 DEF HireOf, HirePcs, InvitePcs
  <2> QED
    BY <1>0, <1>4, <2>1, <2>2, <2>3 DEF AnyCall
<1> QED
  BY <1>5, <1>6, <1>7

\* the queries of acceptInvite, and a failure,
LEMMA AfterAccept ==
  ASSUME TypeInv, NEW c \in Calls
  PROVE  /\ ActivateUser(c) => calls' \in [Calls -> AnyCall] /\ Moves(c, "activateEmployee")
         /\ ActivateEmployee(c) \/ RefuseRole(c) \/ Fail(c) => calls' \in [Calls -> AnyCall] /\ Ends(c)
<1>1. ASSUME ActivateUser(c)
      PROVE  calls' \in [Calls -> AnyCall] /\ Moves(c, "activateEmployee")
  <2>1. calls[c].op = "accept"
    BY <1>1, CallFields DEF ActivateUser, At, PlainPcs, HirePcs, InvitePcs
  <2> QED
    BY <1>1, <2>1, GotoMoves DEF ActivateUser, At
<1> QED
  BY <1>1, ReturnEnds DEF ActivateEmployee, RefuseRole, Fail

\* and the queries of the stages and of hireCandidate.
LEMMA AfterHireQuery ==
  ASSUME TypeInv, NEW c \in Calls
  PROVE  /\ CreateOffer(c) => calls' \in [Calls -> AnyCall] /\ Moves(c, "stage")
         /\ UpdateStage(c) \/ MarkHired(c) => calls' \in [Calls -> AnyCall] /\ Ends(c)
         /\ Invited(c) => calls' \in [Calls -> AnyCall]
                          /\ Moves(c, IF calls[c].offer > 0 THEN "accept" ELSE "hired")
         /\ AcceptOffer(c) => calls' \in [Calls -> AnyCall] /\ Moves(c, "hired")
<1>1. ASSUME CreateOffer(c) PROVE calls' \in [Calls -> AnyCall] /\ Moves(c, "stage")
  <2>1. calls[c].op = "stage"
    BY <1>1, CallFields DEF CreateOffer, At, PlainPcs, HirePcs, InvitePcs
  <2> QED
    BY <1>1, <2>1, GotoMoves DEF CreateOffer, At
<1>2. ASSUME Invited(c)
      PROVE  /\ calls' \in [Calls -> AnyCall]
             /\ Moves(c, IF calls[c].offer > 0 THEN "accept" ELSE "hired")
  <2>1. calls[c].op = "invite"
    BY <1>2, CallFields DEF Invited, At
  <2> QED
    BY <1>2, <2>1, GotoMoves DEF Invited, OfferToAccept, At, HirePcs
<1>3. ASSUME AcceptOffer(c) PROVE calls' \in [Calls -> AnyCall] /\ Moves(c, "hired")
  <2>1. calls[c].op = "invite" /\ calls[c].hire # None
    BY <1>3, CallFields DEF AcceptOffer, At, PlainPcs
  <2> QED
    BY <1>3, <2>1, GotoMoves DEF AcceptOffer, At, HirePcs
<1> QED
  BY <1>1, <1>2, <1>3, ReturnEnds DEF UpdateStage, MarkHired

\* latestOfferForCandidate notes the offer to accept.
LEMMA AfterLatestOffer ==
  ASSUME TypeInv, NEW c \in Calls, LatestOffer(c)
  PROVE  /\ calls' \in [Calls -> AnyCall]
         /\ calls[c].op = "invite" /\ calls[c].hire \in Candidates
         /\ calls'[c].pc = "check" /\ calls'[c].op = "invite"
         /\ calls'[c].email = calls[c].email /\ calls'[c].hire = calls[c].hire
         /\ calls'[c].offer = Len(offers[calls[c].hire])
<1> DEFINE n == Len(offers[calls[c].hire])
           read == [calls[c] EXCEPT !.offer = n]
           next == [read EXCEPT !.pc = "check"]
<1>0. calls \in [Calls -> AnyCall] /\ calls[c].pc = "latest"
  BY DEF TypeInv, LatestOffer, At
<1>1. calls[c] \in HireOf
  BY <1>0 DEF AnyCall, Idle, PlainInvite, PlainPcs, CreateCall, AcceptCall, StageCall
<1>2. calls[c].op = "invite" /\ calls[c].hire \in Candidates
  BY <1>1 DEF HireOf
<1>3. n \in Nat
  <2>1. offers[calls[c].hire] \in Seq(Offer)
    BY <1>2 DEF TypeInv
  <2> QED
    BY <2>1
<1> HIDE DEF n
<1>4. read \in HireOf /\ read.email = calls[c].email /\ read.hire = calls[c].hire /\ read.offer = n
  BY <1>1, <1>3 DEF HireOf
<1>5. calls' = [[calls EXCEPT ![c] = read] EXCEPT ![c].pc = "check"]
  BY DEF LatestOffer, AfterLatest, LatestOf, n
<1>6. [calls EXCEPT ![c] = read][c] = read
  BY <1>0
<1> HIDE DEF read
<1>7. calls'[c] = next /\ calls' = [calls EXCEPT ![c] = next]
  BY <1>0, <1>5, <1>6 DEF read
<1>8. next \in HireOf /\ next.pc = "check" /\ next.op = "invite" /\ next.email = read.email
      /\ next.hire = read.hire /\ next.offer = read.offer
  BY <1>4 DEF HireOf, HirePcs, InvitePcs
<1> QED
  BY <1>0, <1>2, <1>4, <1>7, <1>8 DEF AnyCall, n

----------------------------------------------------------------------------
(* Steps *)

\* The steps of a call within Invitations, and the others.
InviteOf(c) ==
  \/ \E e \in Emails, code \in GivenCodes \cup {None} : InviteStart(c, e, code)
  \/ \E code \in (GivenCodes \cup {NextCode}) \cap Codes : CreateStart(c, code)
  \/ CheckEmail(c) \/ CreateUser(c) \/ AssignRole(c) \/ RefuseRole(c)
  \/ CountEmployees(c) \/ CreateEmployee(c)
  \/ \E e \in Emails : AcceptStart(c, e)
  \/ ActivateUser(c) \/ ActivateEmployee(c)
  \/ Fail(c)
HiringOf(c) ==
  \/ \E k \in Candidates :
       \/ AdvanceStart(c, k) \/ RejectStart(c, k)
       \/ OfferStart(c, k) \/ HireStart(c, k)
  \/ CreateOffer(c) \/ UpdateStage(c)
  \/ LatestOffer(c) \/ Invited(c) \/ AcceptOffer(c) \/ MarkHired(c)

\* What an invitation leaves alone, and the candidates whose call it fails.
OfInvite == UNCHANGED <<stage, offers>> /\ raced \subseteq raced' /\ raced' \subseteq Candidates
FailNoted == failures' # failures =>
               \A k \in Candidates : (\E c \in About(k) : calls'[c] = Idle) => k \in raced'

\* A step is one of a call, a reset of a password or the entry of a candidate.
LEMMA Steps ==
  ASSUME TypeInv, [Next]_vars
  PROVE  \/ \E c \in Calls : InviteOf(c) /\ OfInvite /\ FailNoted
         \/ \E c \in Calls : HiringOf(c)
         \/ \E e \in Emails : ResetPassword(e) /\ UNCHANGED <<stage, offers, raced>>
         \/ \E k \in Candidates : AddCandidate(k)
         \/ UNCHANGED vars
<1>1. ASSUME InviteStep
      PROVE  \/ \E c \in Calls : InviteOf(c) /\ OfInvite /\ FailNoted
             \/ \E e \in Emails : ResetPassword(e) /\ UNCHANGED <<stage, offers, raced>>
  <2>1. OfInvite /\ FailNoted
    BY <1>1 DEF InviteStep, OfInvite, FailNoted, TypeInv
  <2>2. ASSUME NEW e \in Emails, ResetPassword(e) PROVE UNCHANGED <<stage, offers, raced>>
    BY <1>1, <2>2 DEF InviteStep, ResetPassword
  <2> QED
    BY <1>1, <2>1, <2>2 DEF InviteStep, InviteNext, InviteOf
<1> QED
  BY <1>1 DEF Next, HiringOf

\* A step of one call leaves the others where they are.
LEMMA OthersStay ==
  ASSUME TypeInv, NEW c \in Calls, InviteOf(c) \/ HiringOf(c), NEW d \in Calls, d # c
  PROVE  calls'[d] = calls[d]
<1>1. CASE InviteOf(c)
  BY <1>1 DEF TypeInv, InviteOf, InviteStart, CreateStart, CheckEmail, CreateUser, AssignRole,
     CountEmployees, CreateEmployee, AcceptStart, ActivateUser, ActivateEmployee, RefuseRole, Fail,
     Put, Goto, Return
<1>2. CASE HiringOf(c)
  BY <1>2 DEF TypeInv, HiringOf, AdvanceStart, RejectStart, OfferStart, HireStart, Start, CreateOffer,
     UpdateStage, LatestOffer, Invited, AcceptOffer, MarkHired, Put, Goto, Return
<1> QED
  BY <1>1, <1>2

\* The step of Invitations that has brought a call where it is,
LEMMA InviteCameFrom ==
  ASSUME TypeInv, NEW c \in Calls, InviteOf(c), calls'[c].pc # "idle"
  PROVE  \/ calls'[c].pc = "user" /\ CheckEmail(c) /\ users[calls[c].email] = NoUser
         \/ calls'[c].pc = "user" /\ \E e \in Emails, code \in GivenCodes \cup {None} : InviteStart(c, e, code)
         \/ calls'[c].pc = "role" /\ CreateUser(c) /\ users[calls[c].email] = NoUser
         \/ calls'[c].pc \in {"code", "employee"} /\ AssignRole(c)
         \/ calls'[c].pc = "employee" /\ CountEmployees(c)
         \/ calls'[c].pc = "employee" /\ \E code \in Codes : CreateStart(c, code)
         \/ calls'[c].pc = "return" /\ CreateEmployee(c) /\ ~Taken(calls[c].code) /\ calls[c].hire # None
         \/ calls'[c].pc = "activateUser" /\ \E e \in Emails : AcceptStart(c, e)
         \/ calls'[c].pc = "activateEmployee" /\ ActivateUser(c)
<1>1. /\ CheckEmail(c) => users[calls[c].email] = NoUser /\ calls'[c].pc = "user"
      /\ CreateUser(c) => users[calls[c].email] = NoUser /\ calls'[c].pc = "role"
      /\ AssignRole(c) => calls'[c].pc \in {"code", "employee"}
      /\ CreateEmployee(c) =>
           ~Taken(calls[c].code) /\ calls[c].hire # None /\ calls'[c].pc = "return"
  BY AfterInviteQuery DEF Moves, Ends
<1>2. /\ \A e \in Emails, code \in GivenCodes \cup {None} :
           InviteStart(c, e, code) => calls'[c].pc = "user"
      /\ \A code \in Codes : CreateStart(c, code) => calls'[c].pc = "employee"
      /\ \A e \in Emails : AcceptStart(c, e) => calls'[c].pc = "activateUser"
  BY AfterInviteStart
<1>3. /\ CountEmployees(c) => calls'[c].pc = "employee"
      /\ ActivateUser(c) => calls'[c].pc = "activateEmployee"
      /\ ~ActivateEmployee(c) /\ ~RefuseRole(c) /\ ~Fail(c)
  BY AfterCount, AfterAccept DEF Moves, Ends
<1> QED
  BY <1>1, <1>2, <1>3 DEF InviteOf

\* and that of the others.
LEMMA HiringCameFrom ==
  ASSUME TypeInv, NEW c \in Calls, HiringOf(c), calls'[c].pc # "idle"
  PROVE  \/ calls'[c].pc = "latest" /\ \E k \in Candidates : HireStart(c, k)
         \/ calls'[c].pc = "offer" /\ \E k \in Candidates : OfferStart(c, k)
         \/ calls'[c].pc = "stage" /\ \E k \in Candidates : AdvanceStart(c, k) \/ RejectStart(c, k)
         \/ calls'[c].pc = "stage" /\ CreateOffer(c)
         \/ calls'[c].pc = "check" /\ LatestOffer(c)
         \/ calls'[c].pc \in {"accept", "hired"} /\ Invited(c)
         \/ calls'[c].pc = "hired" /\ AcceptOffer(c)
<1>1. \A k \in Candidates :
        /\ AdvanceStart(c, k) \/ RejectStart(c, k) => calls'[c].pc = "stage"
        /\ OfferStart(c, k) => calls'[c].pc = "offer"
        /\ HireStart(c, k) => calls'[c].pc = "latest"
  BY AfterHireStart
<1>2. /\ CreateOffer(c) => calls'[c].pc = "stage"
      /\ Invited(c) => calls'[c].pc \in {"accept", "hired"}
      /\ AcceptOffer(c) => calls'[c].pc = "hired"
      /\ LatestOffer(c) => calls'[c].pc = "check"
      /\ ~UpdateStage(c) /\ ~MarkHired(c)
  BY AfterHireQuery, AfterLatestOffer DEF Moves, Ends
<1> QED
  BY <1>1, <1>2 DEF HiringOf

----------------------------------------------------------------------------
(* Shape *)

\* Who has an employee, or is about to, or to accept, is stored as a user: what
\* TypeInv needs to be inductive, for these calls update the user's row.
Registered ==
  /\ \A c \in Calls : calls[c].pc \in {"role", "code", "employee"} /\ calls[c].op = "invite" =>
       users[calls[c].email] # NoUser
  /\ \A c \in Calls : calls[c].pc \in {"activateUser", "activateEmployee"} =>
       users[calls[c].email] # NoUser
  /\ \A e \in Emails : EmployeesOf(e) # {} => users[e] # NoUser

\* What a step does to employees: one is stored by CreateEmployee, keeps its user,
\* and becomes ACTIVE by acceptInvite.
LEMMA EmployeeMoves ==
  ASSUME TypeInv, [Next]_vars, NEW code \in Codes
  PROVE  /\ employees'[code] \in Employee \cup {NoEmployee}
         /\ Taken(code) => Taken(code)' /\ employees'[code].user = employees[code].user
         /\ ~Taken(code) /\ Taken(code)' =>
              \E c \in Calls : /\ CreateEmployee(c) /\ calls[c].code = code
                              /\ employees'[code] = [user |-> calls[c].email, status |-> "INVITED"]
         /\ Taken(code) /\ employees'[code].status = "ACTIVE" =>
              \/ employees[code].status = "ACTIVE"
              \/ \E c \in Calls : ActivateEmployee(c) /\ employees[code].user = calls[c].email
<1>t. /\ employees \in [Codes -> Employee \cup {NoEmployee}]
      /\ employees[code] \in Employee \cup {NoEmployee}
  BY DEF TypeInv, RowsOK
<1>n. \A r \in Employee : r # NoEmployee
  BY DEF Employee, NoEmployee
<1>1. ASSUME NEW c \in Calls, CreateEmployee(c)
      PROVE  \/ employees'[code] = employees[code]
             \/ /\ calls[c].code = code /\ ~Taken(code)
                /\ employees'[code] = [user |-> calls[c].email, status |-> "INVITED"]
                /\ employees'[code] \in Employee
  <2>1. calls[c].email \in Emails \cup {None}
    BY <1>1, CallFields DEF CreateEmployee, At
  <2>2. [user |-> calls[c].email, status |-> "INVITED"] \in Employee
    BY <2>1 DEF Employee
  <2> QED
    BY <1>1, <1>t, <2>2 DEF CreateEmployee
<1>2. ASSUME NEW c \in Calls, ActivateEmployee(c)
      PROVE  \/ employees'[code] = employees[code]
             \/ /\ Taken(code) /\ employees[code].user = calls[c].email
                /\ employees'[code] = [employees[code] EXCEPT !.status = "ACTIVE"]
  BY <1>2, <1>t DEF ActivateEmployee, EmployeesOf
<1>3. ASSUME Taken(code)
      PROVE  /\ [employees[code] EXCEPT !.status = "ACTIVE"] \in Employee
             /\ [employees[code] EXCEPT !.status = "ACTIVE"].user = employees[code].user
  BY <1>3, <1>t DEF Taken, Employee
<1>4. \/ UNCHANGED employees
      \/ \E c \in Calls : CreateEmployee(c) \/ ActivateEmployee(c)
  BY Steps
  DEF InviteOf, HiringOf, InviteStart, CreateStart, CheckEmail, CreateUser, AssignRole, CountEmployees,
      AcceptStart, ActivateUser, RefuseRole, Fail, AdvanceStart, RejectStart, OfferStart, HireStart,
      ResetPassword, CreateOffer, UpdateStage, LatestOffer, Invited, AcceptOffer, MarkHired, AddCandidate, vars,
      inviteVars, hireVars
<1>5. CASE employees'[code] = employees[code]
  BY <1>5, <1>t DEF Taken
<1>6. ASSUME NEW c \in Calls, CreateEmployee(c), employees'[code] # employees[code]
      PROVE  /\ calls[c].code = code /\ ~Taken(code) /\ Taken(code)'
             /\ employees'[code] = [user |-> calls[c].email, status |-> "INVITED"]
             /\ employees'[code] \in Employee
  BY <1>1, <1>6, <1>n DEF Taken
<1>7. ASSUME NEW c \in Calls, ActivateEmployee(c), employees'[code] # employees[code]
      PROVE  /\ Taken(code) /\ Taken(code)' /\ employees[code].user = calls[c].email
             /\ employees'[code] \in Employee /\ employees'[code].user = employees[code].user
  BY <1>2, <1>3, <1>7, <1>n DEF Taken
<1> QED
  BY <1>4, <1>5, <1>6, <1>7

\* The rows of users and employees keep their shape.
LEMMA RowsStep == TypeInv /\ Registered /\ [Next]_vars => RowsOK'
<1> SUFFICES ASSUME TypeInv, Registered, [Next]_vars PROVE RowsOK'
  OBVIOUS
<1>t. /\ users \in [Emails -> User \cup {NoUser}] /\ employees \in [Codes -> Employee \cup {NoEmployee}]
      /\ failures \in 0 .. MaxFailures /\ cut \subseteq Emails /\ MaxFailures \in Nat
  BY MaxFailuresAssumption DEF TypeInv, RowsOK
<1>1. ASSUME NEW c \in Calls, CreateUser(c) PROVE RowsOK'
  <2>1. calls[c].email \in Emails
    BY <1>1, CallFields DEF CreateUser, At
  <2>2. [status |-> "INVITED", role |-> None, token |-> TRUE] \in User
    BY DEF User
  <2> QED
    BY <1>1, <1>t, <2>1, <2>2 DEF CreateUser, RowsOK
<1>2. ASSUME NEW c \in Calls, AssignRole(c) PROVE RowsOK'
  <2>1. calls[c].email \in Emails /\ users[calls[c].email] \in User
    BY <1>2, <1>t, CallFields DEF AssignRole, At, Registered
  <2>2. \A role \in RoleNames : WithRole(users[calls[c].email], role) \in User
    BY <2>1 DEF WithRole, User
  <2> QED
    BY <1>2, <1>t, <2>2 DEF AssignRole, RowsOK
<1>3. ASSUME NEW c \in Calls, CreateEmployee(c) PROVE RowsOK'
  <2>1. calls[c].email \in Emails \cup {None} /\ calls[c].code \in Codes \cup {None}
    BY <1>3, CallFields DEF CreateEmployee, At
  <2>2. [user |-> calls[c].email, status |-> "INVITED"] \in Employee
    BY <2>1 DEF Employee
  <2> QED
    BY <1>3, <1>t, <2>1, <2>2 DEF CreateEmployee, RowsOK
<1>4. ASSUME NEW c \in Calls, ActivateUser(c) PROVE RowsOK'
  <2>1. calls[c].email \in Emails /\ users[calls[c].email] # NoUser
    BY <1>4, CallFields DEF ActivateUser, At, PlainPcs, HirePcs, InvitePcs, Registered
  <2>2. Activated(users[calls[c].email]) \in User
    BY <1>t, <2>1 DEF Activated, User
  <2> QED
    BY <1>4, <1>t, <2>2 DEF ActivateUser, RowsOK
<1>5. ASSUME NEW c \in Calls, ActivateEmployee(c) PROVE RowsOK'
  <2>1. ASSUME NEW code \in Codes, code \in EmployeesOf(calls[c].email)
        PROVE  [employees[code] EXCEPT !.status = "ACTIVE"] \in Employee
    BY <1>t, <2>1 DEF EmployeesOf, Taken, Employee, NoEmployee
  <2> QED
    BY <1>5, <1>t, <2>1 DEF ActivateEmployee, RowsOK
<1>6. ASSUME NEW e \in Emails, ResetPassword(e) PROVE RowsOK'
  <2>1. users[e] \in User
    BY <1>6, <1>t DEF ResetPassword
  <2>2. [users[e] EXCEPT !.status = "ACTIVE"] \in User
    BY <2>1 DEF User
  <2> QED
    BY <1>6, <1>t, <2>2 DEF ResetPassword, RowsOK
<1>7. ASSUME NEW c \in Calls, Fail(c) PROVE RowsOK'
  <2>1. calls[c].email \in Emails \cup {None}
    <3>1. calls[c].pc # "idle"
      BY <1>7 DEF Fail, TypeInv, AnyCall, Idle, PlainInvite, PlainPcs, CreateCall, AcceptCall, HireOf,
         HirePcs, InvitePcs, StageCall
    <3> QED
      BY <3>1, CallFields
  <2> QED
    BY <1>7, <1>t, <2>1 DEF Fail, RowsOK
<1>8. ASSUME NEW c \in Calls, RefuseRole(c) PROVE RowsOK'
  <2>1. calls[c].email \in Emails
    BY <1>8, CallFields DEF RefuseRole, At
  <2> QED
    BY <1>8, <1>t, <2>1 DEF RefuseRole, RowsOK
<1>9. CASE UNCHANGED <<users, employees, failures, cut>>
  BY <1>9 DEF RowsOK, TypeInv
<1> QED
  BY <1>1, <1>2, <1>3, <1>4, <1>5, <1>6, <1>7, <1>8, <1>9, Steps
  DEF InviteOf, HiringOf, InviteStart, CreateStart, CheckEmail, CountEmployees, AcceptStart,
      AdvanceStart, RejectStart, OfferStart, HireStart, CreateOffer, UpdateStage, LatestOffer, Invited,
      AcceptOffer, MarkHired, AddCandidate, vars, inviteVars, hireVars

\* What a step does to users: nobody leaves, who is ACTIVE stays so, and a role
\* stays assigned.
LEMMA UserMoves ==
  ASSUME TypeInv, Registered, [Next]_vars, NEW e \in Emails
  PROVE  /\ users'[e] \in User \cup {NoUser}
         /\ users[e] # NoUser => users'[e] # NoUser
         /\ users[e] # NoUser /\ users[e].status = "ACTIVE" => users'[e].status = "ACTIVE"
         /\ users[e] # NoUser /\ users[e].role # None => users'[e].role # None
         /\ users[e] = NoUser /\ users'[e] # NoUser =>
              \E c \in Calls : CreateUser(c) /\ calls[c].email = e
<1>t. users \in [Emails -> User \cup {NoUser}] /\ users[e] \in User \cup {NoUser}
  BY DEF TypeInv, RowsOK
<1>n. \A u \in User : u # NoUser
  BY DEF User, NoUser
<1>1. ASSUME NEW c \in Calls, CreateUser(c)
      PROVE  /\ users'[e] \in User \cup {NoUser}
             /\ users[e] # NoUser => users'[e] = users[e]
             /\ users'[e] # users[e] => calls[c].email = e
  <2>1. [status |-> "INVITED", role |-> None, token |-> TRUE] \in User
    BY DEF User
  <2> QED
    BY <1>1, <1>t, <2>1 DEF CreateUser, AddressFree
<1>2. ASSUME NEW u \in User
      PROVE  /\ \A role \in RoleNames :
                  /\ WithRole(u, role) \in User /\ WithRole(u, role).status = u.status
                  /\ WithRole(u, role).role = role
             /\ Activated(u) \in User /\ Activated(u).status = "ACTIVE" /\ Activated(u).role = u.role
             /\ [u EXCEPT !.status = "ACTIVE"] \in User
             /\ [u EXCEPT !.status = "ACTIVE"].status = "ACTIVE"
             /\ [u EXCEPT !.status = "ACTIVE"].role = u.role
  BY DEF WithRole, Activated, User
<1>3. ASSUME NEW c \in Calls, AssignRole(c)
      PROVE  \/ users'[e] = users[e]
             \/ users[e] \in User /\ \E role \in RoleNames : users'[e] = WithRole(users[e], role)
  <2>1. calls[c].email \in Emails /\ users[calls[c].email] # NoUser
    BY <1>3, CallFields DEF AssignRole, At, Registered
  <2> QED
    BY <1>3, <1>t, <2>1 DEF AssignRole
<1>4. ASSUME NEW c \in Calls, ActivateUser(c)
      PROVE  users'[e] = users[e] \/ (users[e] \in User /\ users'[e] = Activated(users[e]))
  <2>1. calls[c].email \in Emails /\ users[calls[c].email] # NoUser
    BY <1>4, CallFields DEF ActivateUser, At, PlainPcs, HirePcs, InvitePcs, Registered
  <2> QED
    BY <1>4, <1>t, <2>1 DEF ActivateUser
<1>5. ASSUME NEW f \in Emails, ResetPassword(f)
      PROVE  \/ users'[e] = users[e]
             \/ users[e] \in User /\ users'[e] = [users[e] EXCEPT !.status = "ACTIVE"]
  BY <1>5, <1>t DEF ResetPassword
<1>6. CASE UNCHANGED users
  BY <1>6, <1>t
<1>7. \/ UNCHANGED users
      \/ \E c \in Calls : CreateUser(c) \/ AssignRole(c) \/ ActivateUser(c)
      \/ \E f \in Emails : ResetPassword(f)
  BY Steps
  DEF InviteOf, HiringOf, InviteStart, CreateStart, CheckEmail, CountEmployees, CreateEmployee,
      AcceptStart, ActivateEmployee, RefuseRole, Fail, AdvanceStart, RejectStart, OfferStart, HireStart,
      CreateOffer, UpdateStage, LatestOffer, Invited, AcceptOffer, MarkHired, AddCandidate, vars,
      inviteVars, hireVars
<1>8. CASE users'[e] = users[e]
  BY <1>8, <1>t
<1>9. CASE \E c \in Calls : CreateUser(c)
  BY <1>1, <1>9
<1>10. CASE users[e] \in User /\ \E role \in RoleNames : users'[e] = WithRole(users[e], role)
  <2> PICK role \in RoleNames : users'[e] = WithRole(users[e], role)
    BY <1>10
  <2> DEFINE u == users[e]
  <2>u. u \in User /\ users'[e] = WithRole(u, role)
    BY <1>10
  <2> HIDE DEF u
  <2>w. /\ WithRole(u, role) \in User /\ WithRole(u, role).status = u.status
        /\ WithRole(u, role).role = role
    BY <1>2, <2>u
  <2>1. /\ users'[e] \in User /\ users'[e].status = users[e].status
        /\ users'[e].role \in RoleNames
    BY <2>u, <2>w DEF u
  <2>2. users'[e] # NoUser /\ users[e] # NoUser /\ users'[e].role # None
    BY <2>1, <1>10, <1>n, NoneAssumption
  <2> QED
    BY <2>1, <2>2, Zenon
<1>11. CASE users[e] \in User /\ users'[e] = Activated(users[e])
  <2>1. /\ users'[e] \in User /\ users'[e].status = "ACTIVE"
        /\ users'[e].role = users[e].role
    BY <1>2, <1>11
  <2>2. users'[e] # NoUser /\ users[e] # NoUser
    BY <2>1, <1>11, <1>n
  <2> QED
    BY <2>1, <2>2, Zenon
<1>12. CASE users[e] \in User /\ users'[e] = [users[e] EXCEPT !.status = "ACTIVE"]
  <2>1. /\ users'[e] \in User /\ users'[e].status = "ACTIVE"
        /\ users'[e].role = users[e].role
    BY <1>2, <1>12
  <2>2. users'[e] # NoUser /\ users[e] # NoUser
    BY <2>1, <1>12, <1>n
  <2> QED
    BY <2>1, <2>2, Zenon
<1> QED
  BY <1>3, <1>4, <1>5, <1>7, <1>8, <1>9, <1>10, <1>11, <1>12

\* Every step keeps the shape of the rows and of the calls.
LEMMA TypeStep == TypeInv /\ Registered /\ [Next]_vars => TypeInv'
<1> SUFFICES ASSUME TypeInv, Registered, [Next]_vars PROVE TypeInv'
  OBVIOUS
<1>t. /\ stage \in [Candidates -> Stages \cup {"NONE"}] /\ offers \in [Candidates -> Seq(Offer)]
      /\ raced \subseteq Candidates
  BY DEF TypeInv
<1>1. calls' \in [Calls -> AnyCall]
  <2>1. ASSUME NEW c \in Calls, InviteOf(c) PROVE calls' \in [Calls -> AnyCall]
    BY <2>1, AfterInviteStart, AfterInviteQuery, AfterCount, AfterAccept DEF InviteOf
  <2>2. ASSUME NEW c \in Calls, HiringOf(c) PROVE calls' \in [Calls -> AnyCall]
    BY <2>2, AfterHireStart, AfterHireQuery, AfterLatestOffer DEF HiringOf
  <2> QED
    BY <2>1, <2>2, Steps DEF ResetPassword, AddCandidate, inviteVars, vars, TypeInv
<1>2. RowsOK'
  BY RowsStep
<1> DEFINE Rest == /\ stage' \in [Candidates -> Stages \cup {"NONE"}]
                   /\ offers' \in [Candidates -> Seq(Offer)]
                   /\ raced' \subseteq Candidates
<1>3. ASSUME NEW c \in Calls, UpdateStage(c) \/ MarkHired(c) PROVE Rest
  <2>1. UpdateStage(c) => calls[c].to \in Stages
    BY CallFields DEF UpdateStage, At, PlainPcs, HirePcs, InvitePcs
  <2> QED
    BY <1>3, <1>t, <2>1 DEF UpdateStage, MarkHired, Stages
<1>4. ASSUME NEW c \in Calls, CreateOffer(c) PROVE Rest
  <2> DEFINE k == calls[c].hire
  <2>1. k \in Candidates
    BY <1>4, CallFields DEF CreateOffer, At, PlainPcs, HirePcs, InvitePcs
  <2>2. offers[k] \in Seq(Offer) /\ "SENT" \in Offer
    BY <1>t, <2>1 DEF Offer
  <2>3. Append(offers[k], "SENT") \in Seq(Offer)
    BY <2>2
  <2> QED
    BY <1>4, <1>t, <2>1, <2>3 DEF CreateOffer
<1>5. ASSUME NEW c \in Calls, AcceptOffer(c) PROVE Rest
  <2> DEFINE k == calls[c].hire
             i == calls[c].offer
             accepted == [offers[k] EXCEPT ![i] = "ACCEPTED"]
  <2>1. k \in Candidates
    BY <1>5, CallFields DEF AcceptOffer, At, PlainPcs
  <2>2. offers[k] \in Seq(Offer) /\ "ACCEPTED" \in Offer
    BY <1>t, <2>1 DEF Offer
  <2>3. accepted \in Seq(Offer)
    <3>1. CASE i \in 1 .. Len(offers[k])
      BY <2>2, <3>1, ExceptSeq
    <3>2. CASE i \notin 1 .. Len(offers[k])
      <4>1. accepted = offers[k]
        BY <2>2, <3>2
      <4> QED
        BY <2>2, <4>1
    <3> QED
      BY <3>1, <3>2
  <2>4. offers' = [offers EXCEPT ![k] = accepted]
    BY <1>5 DEF AcceptOffer
  <2> QED
    BY <1>5, <1>t, <2>1, <2>3, <2>4 DEF AcceptOffer
<1>6. ASSUME NEW c \in Calls, NEW k \in Candidates,
             AdvanceStart(c, k) \/ RejectStart(c, k) \/ OfferStart(c, k) \/ HireStart(c, k)
      PROVE  Rest
  BY <1>6, <1>t DEF AdvanceStart, RejectStart, OfferStart, HireStart, Start
<1>7. ASSUME NEW k \in Candidates, AddCandidate(k) PROVE Rest
  BY <1>7, <1>t DEF AddCandidate, Stages
<1>8. ASSUME OfInvite \/ UNCHANGED <<stage, offers, raced>> PROVE Rest
  BY <1>8, <1>t DEF OfInvite
<1>9. Rest
  BY <1>3, <1>4, <1>5, <1>6, <1>7, <1>8, Steps
  DEF HiringOf, LatestOffer, Invited, hireVars, vars
<1> QED
  BY <1>1, <1>2, <1>9 DEF TypeInv

\* A call at a query of the one kind stays within it, or has come by a step that
\* saw the user or stores it.
LEMMA RegisteredStep == TypeInv /\ Registered /\ [Next]_vars => Registered'
<1> SUFFICES ASSUME TypeInv, Registered, [Next]_vars PROVE Registered'
  OBVIOUS
<1>t. users \in [Emails -> User \cup {NoUser}] /\ TypeInv'
  BY TypeStep DEF TypeInv, RowsOK
<1>n. \A u \in User : u # NoUser
  BY DEF User, NoUser
<1>1. ASSUME NEW d \in Calls, calls'[d].pc \in {"role", "code", "employee"}, calls'[d].op = "invite"
      PROVE  users'[calls'[d].email] # NoUser
  <2>1. CASE calls'[d] = calls[d]
    <3>1. calls[d].email \in Emails /\ users[calls[d].email] # NoUser
      BY <1>1, <2>1, CallFields DEF Registered
    <3> QED
      BY <2>1, <3>1, UserMoves
  <2>2. CASE calls'[d] # calls[d]
    <3>1. InviteOf(d) \/ HiringOf(d)
      BY <2>2, Steps, OthersStay DEF ResetPassword, AddCandidate, vars, inviteVars
    <3>2. ~HiringOf(d)
      BY <1>1, HiringCameFrom
    <3>3. CASE CreateUser(d) /\ users[calls[d].email] = NoUser
      <4>1. calls'[d].email = calls[d].email /\ calls[d].email \in Emails
        BY <3>3, AfterInviteQuery, CallFields DEF CreateUser, At, Moves
      <4>2. users'[calls[d].email] \in User
        <5>1. [status |-> "INVITED", role |-> None, token |-> TRUE] \in User
          BY DEF User
        <5> QED
          BY <3>3, <4>1, <5>1, <1>t DEF CreateUser, AddressFree
      <4> QED
        BY <4>1, <4>2, <1>n
    <3>4. CASE AssignRole(d) \/ CountEmployees(d)
      <4>1. calls[d].pc \in {"role", "code"} /\ calls'[d].email = calls[d].email
        BY <3>4, AfterInviteQuery, AfterCount DEF AssignRole, CountEmployees, At, Moves
      <4>2. calls[d].op = "invite" /\ calls[d].email \in Emails
        BY <4>1, CallFields
      <4> QED
        BY <4>1, <4>2, UserMoves DEF Registered
    <3> QED
      BY <1>1, <3>1, <3>2, <3>3, <3>4, InviteCameFrom, AfterInviteStart
  <2> QED
    BY <2>1, <2>2
<1>2. ASSUME NEW d \in Calls, calls'[d].pc \in {"activateUser", "activateEmployee"}
      PROVE  users'[calls'[d].email] # NoUser
  <2>1. CASE calls'[d] = calls[d]
    <3>1. calls[d].email \in Emails /\ users[calls[d].email] # NoUser
      BY <1>2, <2>1, CallFields DEF Registered, PlainPcs, HirePcs, InvitePcs
    <3> QED
      BY <2>1, <3>1, UserMoves
  <2>2. CASE calls'[d] # calls[d]
    <3>1. InviteOf(d) \/ HiringOf(d)
      BY <2>2, Steps, OthersStay DEF ResetPassword, AddCandidate, vars, inviteVars
    <3>2. ~HiringOf(d)
      BY <1>2, HiringCameFrom
    <3>3. ASSUME NEW e \in Emails, AcceptStart(d, e) PROVE users'[calls'[d].email] # NoUser
      BY <3>3, AfterInviteStart, UserMoves DEF AcceptStart, Delivered, Registered
    <3>4. CASE ActivateUser(d)
      <4>1. calls[d].pc = "activateUser" /\ calls'[d].email = calls[d].email
        BY <3>4, AfterAccept DEF ActivateUser, At, Moves
      <4>2. calls[d].email \in Emails
        BY <4>1, CallFields DEF PlainPcs, HirePcs, InvitePcs
      <4> QED
        BY <4>1, <4>2, UserMoves DEF Registered
    <3> QED
      BY <1>2, <3>1, <3>2, <3>3, <3>4, InviteCameFrom
  <2> QED
    BY <2>1, <2>2
<1>3. ASSUME NEW e \in Emails, NEW code \in Codes, code \in EmployeesOf(e)'
      PROVE  users'[e] # NoUser
  <2>1. CASE Taken(code)
    BY <1>3, <2>1, EmployeeMoves, UserMoves DEF EmployeesOf, Registered
  <2>2. CASE ~Taken(code)
    <3>1. PICK c \in Calls : /\ CreateEmployee(c)
                             /\ employees'[code] = [user |-> calls[c].email, status |-> "INVITED"]
      BY <1>3, <2>2, EmployeeMoves DEF EmployeesOf
    <3>2. calls[c].email = e /\ calls[c].pc = "employee"
      BY <1>3, <3>1 DEF EmployeesOf, CreateEmployee, At
    <3>3. calls[c].op = "invite"
      BY <3>2, CallFields, NoneAssumption
    <3> QED
      BY <3>2, <3>3, UserMoves DEF Registered
  <2> QED
    BY <2>1, <2>2
<1> QED
  BY <1>1, <1>2, <1>3 DEF Registered, EmployeesOf

\* Both hold at the start.
LEMMA InitShape == Init => TypeInv /\ Registered
<1> SUFFICES ASSUME Init PROVE TypeInv /\ Registered
  OBVIOUS
<1>1. \A k \in Candidates : offers[k] = <<>> /\ <<>> \in Seq(Offer) /\ Len(<<>>) = 0
  BY DEF Init
<1>2. TypeInv
  BY <1>1, MaxFailuresAssumption, MaxOffersAssumption
  DEF Init, InviteInit, TypeInv, RowsOK, AnyCall
<1>3. Registered
  BY DEF Init, InviteInit, Registered, Idle, EmployeesOf, Taken, NoEmployee
<1> QED
  BY <1>2, <1>3

----------------------------------------------------------------------------
(* Who moves *)

\* A step moves one call at most, and a call moves by a step of its own.
LEMMA OneMoves ==
  ASSUME TypeInv, [Next]_vars
  PROVE  /\ \A c, d \in Calls : calls'[c] # calls[c] /\ calls'[d] # calls[d] => c = d
         /\ \A c \in Calls : calls'[c] # calls[c] => InviteOf(c) \/ HiringOf(c)
<1>1. \/ UNCHANGED calls
      \/ \E c \in Calls : InviteOf(c) \/ HiringOf(c)
  BY Steps DEF ResetPassword, AddCandidate, vars, inviteVars
<1>2. CASE UNCHANGED calls
  BY <1>2
<1>3. ASSUME NEW b \in Calls, InviteOf(b) \/ HiringOf(b)
      PROVE  /\ \A c \in Calls : calls'[c] # calls[c] => c = b
             /\ \A c \in Calls : calls'[c] # calls[c] => InviteOf(c) \/ HiringOf(c)
  <2>1. \A c \in Calls : calls'[c] # calls[c] => c = b
    BY <1>3, OthersStay
  <2> QED
    BY <1>3, <2>1
<1> QED
  BY <1>1, <1>2, <1>3

\* A call about a candidate is about the candidate's address.
HireEmail == \A c \in Calls : \A k \in Candidates : c \in About(k) => calls[c].email = EmailOf[k]

\* A call that stores an employee has a code.
CodeKnown == \A c \in Calls : calls[c].pc = "employee" => calls[c].code \in Codes

\* How a call moves within Invitations and within Hiring.
Starts(c) ==
  \/ \E e \in Emails, code \in GivenCodes \cup {None} : InviteStart(c, e, code)
  \/ \E code \in (GivenCodes \cup {NextCode}) \cap Codes : CreateStart(c, code)
  \/ \E e \in Emails : AcceptStart(c, e)
StartsAbout(c, k) ==
  AdvanceStart(c, k) \/ RejectStart(c, k) \/ OfferStart(c, k) \/ HireStart(c, k)
Proceeds(c) ==
  /\ calls[c].pc # "idle" /\ calls'[c].pc # "idle" /\ calls'[c].op = calls[c].op
  /\ calls'[c].email = calls[c].email
  /\ calls[c].op # "accept" => calls'[c].hire = calls[c].hire
\* A step of a call starts, proceeds or ends it.
LEMMA HowMoved ==
  ASSUME TypeInv, NEW c \in Calls, InviteOf(c) \/ HiringOf(c)
  PROVE  \/ Starts(c) \/ \E k \in Candidates : StartsAbout(c, k)
         \/ Proceeds(c)
         \/ Ends(c)
<1>1. ASSUME NEW pc, calls[c].pc # "idle", pc # "idle", Moves(c, pc) PROVE Proceeds(c)
  BY <1>1 DEF Moves, Proceeds
<1>2. CheckEmail(c) \/ CreateUser(c) \/ AssignRole(c) \/ CreateEmployee(c) => Proceeds(c) \/ Ends(c)
  BY <1>1, AfterInviteQuery DEF CheckEmail, CreateUser, AssignRole, CreateEmployee, At
<1>3. CountEmployees(c) \/ LatestOffer(c) => Proceeds(c)
  BY AfterCount, AfterLatestOffer DEF CountEmployees, LatestOffer, At, Proceeds
<1>4. ActivateUser(c) \/ ActivateEmployee(c) \/ RefuseRole(c) \/ Fail(c) => Proceeds(c) \/ Ends(c)
  BY <1>1, AfterAccept DEF ActivateUser, At
<1>5. CreateOffer(c) \/ UpdateStage(c) \/ MarkHired(c) \/ Invited(c) \/ AcceptOffer(c)
        => Proceeds(c) \/ Ends(c)
  BY <1>1, AfterHireQuery DEF CreateOffer, Invited, AcceptOffer, At
<1> QED
  BY <1>2, <1>3, <1>4, <1>5 DEF InviteOf, HiringOf, Starts, StartsAbout

\* A call that moves on stays about the candidate it was about; one that has
\* started is about the candidate it was started for.
LEMMA AboutMoves ==
  ASSUME TypeInv, TypeInv', [Next]_vars, NEW c \in Calls, NEW k \in Candidates, c \in About(k)'
  PROVE  \/ calls'[c] = calls[c] /\ c \in About(k)
         \/ c \in About(k) /\ Proceeds(c)
         \/ StartsAbout(c, k) /\ calls'[c].email = EmailOf[k]
<1>0. calls'[c].pc # "idle" /\ calls'[c].op # "accept" /\ calls'[c].hire = k /\ k # None
  BY AboutNext, NoneAssumption DEF Candidates
<1>1. CASE calls'[c] = calls[c]
  BY <1>0, <1>1, AboutCandidate
<1>2. CASE Starts(c)
  BY <1>0, <1>2, AfterInviteStart DEF Starts
<1>3. ASSUME NEW l \in Candidates, StartsAbout(c, l)
      PROVE  StartsAbout(c, k) /\ calls'[c].email = EmailOf[k]
  <2>1. calls'[c].hire = l /\ calls'[c].email = EmailOf[l]
    BY <1>3, AfterHireStart DEF StartsAbout
  <2> QED
    BY <1>0, <1>3, <2>1
<1>4. CASE Proceeds(c)
  BY <1>0, <1>4, AboutCandidate DEF Proceeds
<1>5. ~Ends(c)
  BY <1>0 DEF Ends
<1> QED
  BY <1>1, <1>2, <1>3, <1>4, <1>5, OneMoves, HowMoved

\* An invite on behalf of a candidate keeps to her address.
LEMMA HireEmailStep ==
  TypeInv /\ TypeInv' /\ HireEmail /\ [Next]_vars => HireEmail'
<1> SUFFICES ASSUME TypeInv, TypeInv', HireEmail, [Next]_vars,
                    NEW c \in Calls, NEW k \in Candidates, c \in About(k)'
             PROVE  calls'[c].email = EmailOf[k]
  BY DEF HireEmail, About
<1> QED
  BY AboutMoves DEF HireEmail, Proceeds

\* assignRole leads to the query of the employee only if the request has a code.
LEMMA CodeKnownStep ==
  TypeInv /\ CodeKnown /\ [Next]_vars => CodeKnown'
<1> SUFFICES ASSUME TypeInv, CodeKnown, [Next]_vars, NEW c \in Calls, calls'[c].pc = "employee"
             PROVE  calls'[c].code \in Codes
  BY DEF CodeKnown
<1>1. CASE calls'[c] = calls[c]
  BY <1>1 DEF CodeKnown
<1>2. CASE AssignRole(c)
  <2>1. calls[c].op = "invite" /\ calls[c].code \in Codes \cup {None}
    BY <1>2, CallFields DEF AssignRole, At
  <2>2. Moves(c, IF calls[c].code = None THEN "code" ELSE "employee")
    BY <1>2, AfterInviteQuery
  <2> QED
    BY <2>1, <2>2 DEF Moves
<1>3. CASE CountEmployees(c) \/ \E code \in Codes : CreateStart(c, code)
  BY <1>3, AfterCount, AfterInviteStart
<1>4. CASE HiringOf(c)
  BY <1>4, HiringCameFrom
<1> QED
  BY <1>1, <1>2, <1>3, <1>4, OneMoves, InviteCameFrom

----------------------------------------------------------------------------
(* One invitation at a time *)

\* A call works on an address from the user it has stored to the employee, and
\* finishes from there to the candidate who is HIRED.
Works(c, e) == calls[c].pc \in {"role", "code", "employee"} /\ calls[c].email = e
Finishes(c, e) == calls[c].pc \in {"return", "accept", "hired"} /\ calls[c].email = e

\* Nothing but the index of the users keeps the invitations for one address
\* apart: whoever has stored the user is the only one to work on the address,
\* before there is an employee, and the only one to finish and to be HIRED.
OneInvitation ==
  /\ \A e \in Emails : \A a, b \in EmployeesOf(e) : a = b
  /\ \A e \in Emails : \A c, d \in Calls : Works(c, e) /\ Works(d, e) => c = d
  /\ \A e \in Emails : \A c \in Calls : Works(c, e) => EmployeesOf(e) = {}
  /\ \A e \in Emails : \A c, d \in Calls : Finishes(c, e) /\ Finishes(d, e) => c = d
  /\ \A e \in Emails : \A c \in Calls : Finishes(c, e) => EmployeesOf(e) # {}
  /\ \A k \in Candidates : stage[k] = "HIRED" =>
       EmployeesOf(EmailOf[k]) # {} /\ \A c \in Calls : ~Finishes(c, EmailOf[k])
  /\ HiredOnce

Shape == TypeInv /\ Registered /\ HireEmail /\ CodeKnown

\* An address that is worked on, or has an employee, has its user.
LEMMA WorksRegistered ==
  ASSUME Shape, NEW e \in Emails, NEW c \in Calls, Works(c, e)
  PROVE  users[e] # NoUser /\ calls[c].op = "invite"
<1>1. calls[c].op = "invite"
  BY CallFields, NoneAssumption DEF Works, Shape
<1> QED
  BY <1>1 DEF Works, Registered, Shape

\* Who begins to work on an address has found it free;
LEMMA EntersWork ==
  ASSUME Shape, [Next]_vars, NEW e \in Emails, NEW c \in Calls, Works(c, e)', ~Works(c, e)
  PROVE  users[e] = NoUser
<1>1. calls'[c] # calls[c]
  BY DEF Works
<1>2. ~HiringOf(c)
  BY HiringCameFrom DEF Works, Shape
<1>3. CASE CreateUser(c) /\ users[calls[c].email] = NoUser
  BY <1>3, AfterInviteQuery DEF Works, Moves, Shape
<1>4. ~(AssignRole(c) \/ CountEmployees(c))
  BY AfterInviteQuery, AfterCount DEF Works, Moves, AssignRole, CountEmployees, At, Shape
<1>5. \A code \in Codes : ~CreateStart(c, code)
  BY AfterInviteStart, NoneAssumption DEF Works, Shape
<1> QED
  BY <1>1, <1>2, <1>3, <1>4, <1>5, OneMoves, InviteCameFrom DEF Works, Shape

\* who begins to finish has worked on it, and has stored the employee;
LEMMA EntersFinish ==
  ASSUME Shape, [Next]_vars, NEW e \in Emails, NEW c \in Calls, Finishes(c, e)', ~Finishes(c, e)
  PROVE  Works(c, e) /\ EmployeesOf(e)' # {}
<1>1. calls'[c] # calls[c]
  BY DEF Finishes
<1>2. ~(Invited(c) \/ AcceptOffer(c))
  BY AfterHireQuery DEF Finishes, Moves, Invited, AcceptOffer, At, Shape
<1>3. CreateEmployee(c) /\ ~Taken(calls[c].code) /\ calls[c].hire # None
  BY <1>1, <1>2, OneMoves, InviteCameFrom, HiringCameFrom DEF Finishes, Shape
<1>4. calls[c].pc = "employee" /\ calls[c].email = e
  BY <1>3, AfterInviteQuery DEF Finishes, Moves, CreateEmployee, At, Shape
<1>5. calls[c].code \in Codes
  BY <1>4 DEF CodeKnown, Shape
<1>6. employees'[calls[c].code] = [user |-> e, status |-> "INVITED"]
  BY <1>3, <1>4, <1>5 DEF CreateEmployee, Taken, Shape, TypeInv, RowsOK
<1>7. calls[c].code \in EmployeesOf(e)'
  BY <1>5, <1>6 DEF EmployeesOf, Taken, NoEmployee
<1> QED
  BY <1>4, <1>7 DEF Works

\* an employee who appears has been stored by a call at work, which ends that;
LEMMA EmployeeAppears ==
  ASSUME Shape, [Next]_vars, NEW e \in Emails, NEW code \in EmployeesOf(e)',
         code \notin EmployeesOf(e)
  PROVE  \E c \in Calls : /\ Works(c, e) /\ ~Works(c, e)' /\ calls[c].code = code
                          /\ CreateEmployee(c)
<1>1. code \in Codes /\ Taken(code)' /\ employees'[code].user = e
  BY DEF EmployeesOf
<1>2. ~Taken(code)
  BY <1>1, EmployeeMoves DEF EmployeesOf, Shape
<1>3. PICK c \in Calls : /\ CreateEmployee(c) /\ calls[c].code = code
                         /\ employees'[code] = [user |-> calls[c].email, status |-> "INVITED"]
  BY <1>1, <1>2, EmployeeMoves DEF Shape
<1>4. Works(c, e)
  BY <1>1, <1>3 DEF Works, CreateEmployee, At
<1>5. calls'[c].pc \in {"idle", "return"}
  BY <1>3, AfterInviteQuery DEF Ends, Moves, Shape
<1> QED
  BY <1>3, <1>4, <1>5 DEF Works

\* no employee disappears;
LEMMA EmployeesStay ==
  ASSUME Shape, [Next]_vars, NEW e \in Emails PROVE EmployeesOf(e) \subseteq EmployeesOf(e)'
BY EmployeeMoves DEF EmployeesOf, Shape

\* and who becomes HIRED does so by a call that finishes, which ends that.
LEMMA BecomesHired ==
  ASSUME Shape, [Next]_vars, NEW k \in Candidates, stage[k] # "HIRED", stage'[k] = "HIRED"
  PROVE  \E c \in Calls : /\ MarkHired(c) /\ calls[c].hire = k
                          /\ Finishes(c, EmailOf[k]) /\ ~Finishes(c, EmailOf[k])'
<1>1. stage \in [Candidates -> Stages \cup {"NONE"}]
  BY DEF Shape, TypeInv
<1>2. ASSUME NEW c \in Calls, UpdateStage(c) PROVE FALSE
  <2>1. calls[c].to \in Stages \ {"APPLIED", "HIRED"}
    BY <1>2, CallFields DEF UpdateStage, At, PlainPcs, HirePcs, InvitePcs, Shape
  <2> QED
    BY <1>1, <1>2, <2>1 DEF UpdateStage
<1>3. ASSUME NEW c \in Calls, MarkHired(c)
      PROVE  /\ calls[c].hire = k
             /\ Finishes(c, EmailOf[k]) /\ ~Finishes(c, EmailOf[k])'
  <2>1. calls[c].pc = "hired" /\ calls[c].op = "invite" /\ calls[c].hire \in Candidates
    BY <1>3, CallFields DEF MarkHired, At, PlainPcs, Shape
  <2>2. calls[c].hire = k
    BY <1>1, <1>3 DEF MarkHired
  <2>3. c \in About(k)
    BY <2>1, <2>2, AboutCandidate DEF Shape
  <2>4. calls'[c].pc = "idle"
    BY <1>3, AfterHireQuery DEF Ends, Shape
  <2> QED
    BY <2>1, <2>2, <2>3, <2>4 DEF Finishes, HireEmail, Shape
<1>4. \/ UNCHANGED stage
      \/ \E c \in Calls : UpdateStage(c) \/ MarkHired(c)
      \/ \E l \in Candidates : AddCandidate(l)
  BY Steps DEF HiringOf, OfInvite, AdvanceStart, RejectStart, OfferStart, HireStart, CreateOffer,
     LatestOffer, Invited, AcceptOffer, vars, hireVars, Shape
<1>5. \A l \in Candidates : ~AddCandidate(l)
  BY <1>1 DEF AddCandidate
<1> QED
  BY <1>2, <1>3, <1>4, <1>5

\* Every step keeps it.
LEMMA OneInvitationStep ==
  Shape /\ Shape' /\ OneInvitation /\ [Next]_vars => OneInvitation'
<1> SUFFICES ASSUME Shape, Shape', OneInvitation, [Next]_vars PROVE OneInvitation'
  OBVIOUS
<1>r. \A e \in Emails : EmployeesOf(e) # {} => users[e] # NoUser
  BY DEF Shape, Registered
<1>m. \A c, d \in Calls : calls'[c] # calls[c] /\ calls'[d] # calls[d] => c = d
  BY OneMoves DEF Shape
<1>1. ASSUME NEW e \in Emails, NEW a \in EmployeesOf(e)', NEW b \in EmployeesOf(e)' PROVE a = b
  <2>1. CASE EmployeesOf(e) = {}
    <3>1. PICK c \in Calls : Works(c, e) /\ calls[c].code = a
      BY <2>1, EmployeeAppears
    <3>2. PICK d \in Calls : Works(d, e) /\ calls[d].code = b
      BY <2>1, EmployeeAppears
    <3> QED
      BY <3>1, <3>2 DEF OneInvitation
  <2>2. CASE EmployeesOf(e) # {}
    <3>1. a \in EmployeesOf(e) /\ b \in EmployeesOf(e)
      BY <2>2, EmployeeAppears DEF OneInvitation
    <3> QED
      BY <3>1 DEF OneInvitation
  <2> QED
    BY <2>1, <2>2
<1>2. ASSUME NEW e \in Emails, NEW c \in Calls, NEW d \in Calls, Works(c, e)', Works(d, e)'
      PROVE  c = d
  <2>1. CASE Works(c, e) /\ Works(d, e)
    BY <2>1 DEF OneInvitation
  <2>2. CASE ~Works(c, e) /\ ~Works(d, e)
    BY <1>2, <2>2, <1>m DEF Works
  <2>3. CASE Works(c, e) /\ ~Works(d, e)
    BY <1>2, <2>3, EntersWork, WorksRegistered
  <2>4. CASE ~Works(c, e) /\ Works(d, e)
    BY <1>2, <2>4, EntersWork, WorksRegistered
  <2> QED
    BY <2>1, <2>2, <2>3, <2>4
<1>3. ASSUME NEW e \in Emails, NEW c \in Calls, Works(c, e)'
      PROVE  EmployeesOf(e)' = {}
  <2>1. EmployeesOf(e) = {}
    BY <1>3, <1>r, EntersWork DEF OneInvitation
  <2>2. ASSUME NEW code \in EmployeesOf(e)' PROVE FALSE
    <3>1. PICK d \in Calls : Works(d, e) /\ ~Works(d, e)'
      BY <2>1, EmployeeAppears
    <3>2. Works(c, e)
      BY <1>3, <3>1, EntersWork, WorksRegistered
    <3> QED
      BY <1>3, <3>1, <3>2 DEF OneInvitation
  <2> QED
    BY <2>2
<1>4. ASSUME NEW e \in Emails, NEW c \in Calls, NEW d \in Calls, Finishes(c, e)', Finishes(d, e)'
      PROVE  c = d
  <2>1. CASE Finishes(c, e) /\ Finishes(d, e)
    BY <2>1 DEF OneInvitation
  <2>2. CASE ~Finishes(c, e) /\ ~Finishes(d, e)
    BY <1>4, <2>2, EntersFinish DEF OneInvitation
  <2>3. CASE Finishes(c, e) /\ ~Finishes(d, e)
    BY <1>4, <2>3, EntersFinish DEF OneInvitation
  <2>4. CASE ~Finishes(c, e) /\ Finishes(d, e)
    BY <1>4, <2>4, EntersFinish DEF OneInvitation
  <2> QED
    BY <2>1, <2>2, <2>3, <2>4
<1>5. ASSUME NEW e \in Emails, NEW c \in Calls, Finishes(c, e)'
      PROVE  EmployeesOf(e)' # {}
  BY <1>5, EntersFinish, EmployeesStay DEF OneInvitation
<1>6. ASSUME NEW k \in Candidates, stage'[k] = "HIRED"
      PROVE  EmployeesOf(EmailOf[k])' # {} /\ \A c \in Calls : ~Finishes(c, EmailOf[k])'
  <2> DEFINE e == EmailOf[k]
  <2>0. e \in Emails
    BY EmailOfAssumption DEF Candidates
  <2>1. CASE stage[k] = "HIRED"
    <3>1. EmployeesOf(e) # {} /\ \A c \in Calls : ~Finishes(c, e)
      BY <2>1 DEF OneInvitation
    <3>2. ASSUME NEW c \in Calls, Finishes(c, e)' PROVE FALSE
      BY <2>0, <3>1, <3>2, EntersFinish DEF OneInvitation
    <3> QED
      BY <2>0, <3>1, <3>2, EmployeesStay
  <2>2. CASE stage[k] # "HIRED"
    <3>1. PICK c \in Calls : Finishes(c, e) /\ ~Finishes(c, e)'
      BY <1>6, <2>2, BecomesHired
    <3>2. EmployeesOf(e) # {}
      BY <2>0, <3>1 DEF OneInvitation
    <3>3. ASSUME NEW d \in Calls, Finishes(d, e)' PROVE FALSE
      <4>1. Finishes(d, e)
        BY <2>0, <3>2, <3>3, EntersFinish DEF OneInvitation
      <4> QED
        BY <2>0, <3>1, <3>3, <4>1 DEF OneInvitation
    <3> QED
      BY <2>0, <3>2, <3>3, EmployeesStay
  <2> QED
    BY <2>1, <2>2
<1>7. ASSUME NEW k \in Candidates, NEW l \in Candidates,
             stage'[k] = "HIRED", stage'[l] = "HIRED", EmailOf[k] = EmailOf[l]
      PROVE  k = l
  <2>0. EmailOf[k] \in Emails
    BY EmailOfAssumption DEF Candidates
  <2>1. CASE stage[k] = "HIRED" /\ stage[l] = "HIRED"
    BY <1>7, <2>1 DEF OneInvitation, HiredOnce
  <2>2. CASE stage[k] = "HIRED" /\ stage[l] # "HIRED"
    BY <1>7, <2>2, BecomesHired DEF OneInvitation
  <2>3. CASE stage[k] # "HIRED" /\ stage[l] = "HIRED"
    BY <1>7, <2>3, BecomesHired DEF OneInvitation
  <2>4. CASE stage[k] # "HIRED" /\ stage[l] # "HIRED"
    <3>1. PICK c \in Calls : Finishes(c, EmailOf[k]) /\ calls[c].hire = k
      BY <1>7, <2>4, BecomesHired
    <3>2. PICK d \in Calls : Finishes(d, EmailOf[k]) /\ calls[d].hire = l
      BY <1>7, <2>4, BecomesHired
    <3> QED
      BY <2>0, <3>1, <3>2 DEF OneInvitation
  <2> QED
    BY <2>1, <2>2, <2>3, <2>4
<1>8. HiredOnce'
  BY <1>7 DEF HiredOnce
<1> QED
  BY <1>1, <1>2, <1>3, <1>4, <1>5, <1>6, <1>8 DEF OneInvitation

----------------------------------------------------------------------------
(* What an invitation leaves *)

\* acceptInvite activates the user before the employee.
Accepting ==
  /\ \A c \in Calls : calls[c].pc = "activateEmployee" =>
       users[calls[c].email].status = "ACTIVE"
  /\ \A code \in Codes : employees[code].status = "ACTIVE" =>
       /\ employees[code].user \in Emails
       /\ users[employees[code].user].status = "ACTIVE"

\* Accepting is inductive: a user is activated before the employee.
LEMMA AcceptingStep ==
  Shape /\ Accepting /\ [Next]_vars => Accepting'
<1> SUFFICES ASSUME Shape, Accepting, [Next]_vars PROVE Accepting'
  OBVIOUS
<1>u. \A e \in Emails : users[e].status = "ACTIVE" => users'[e].status = "ACTIVE"
  <2>1. NoUser.status # "ACTIVE"
    BY DEF NoUser
  <2> QED
    BY <2>1, UserMoves DEF Shape
<1>1. ASSUME NEW c \in Calls, calls'[c].pc = "activateEmployee"
      PROVE  users'[calls'[c].email].status = "ACTIVE"
  <2>1. CASE calls'[c] = calls[c]
    <3>1. calls[c].email \in Emails
      BY <1>1, <2>1, CallFields DEF PlainPcs, HirePcs, InvitePcs, Shape
    <3> QED
      BY <1>1, <1>u, <2>1, <3>1 DEF Accepting
  <2>2. CASE calls'[c] # calls[c]
    <3>1. ActivateUser(c)
      BY <1>1, <2>2, OneMoves, InviteCameFrom, HiringCameFrom DEF Shape
    <3>2. calls[c].pc = "activateUser" /\ calls'[c].email = calls[c].email
      BY <3>1, AfterAccept DEF ActivateUser, At, Moves, Shape
    <3>3. calls[c].email \in Emails /\ users[calls[c].email] # NoUser
      BY <3>2, CallFields DEF PlainPcs, HirePcs, InvitePcs, Registered, Shape
    <3>4. users[calls[c].email] \in User /\ users \in [Emails -> User \cup {NoUser}]
      BY <3>3 DEF Shape, TypeInv, RowsOK
    <3>5. Activated(users[calls[c].email]).status = "ACTIVE"
      BY <3>4 DEF Activated, User
    <3> QED
      BY <3>1, <3>2, <3>3, <3>4, <3>5 DEF ActivateUser
  <2> QED
    BY <2>1, <2>2
<1>2. ASSUME NEW code \in Codes, employees'[code].status = "ACTIVE"
      PROVE  /\ employees'[code].user \in Emails
             /\ users'[employees'[code].user].status = "ACTIVE"
  <2>1. Taken(code)'
    BY <1>2 DEF Taken, NoEmployee
  <2>2. Taken(code) /\ employees'[code].user = employees[code].user
    <3>1. ASSUME NEW c \in Calls, employees'[code] = [user |-> calls[c].email, status |-> "INVITED"]
          PROVE  FALSE
      BY <1>2, <3>1
    <3> QED
      BY <2>1, <3>1, EmployeeMoves DEF Shape
  <2>3. CASE employees[code].status = "ACTIVE"
    BY <1>u, <2>2, <2>3 DEF Accepting
  <2>4. CASE employees[code].status # "ACTIVE"
    <3>1. PICK c \in Calls : ActivateEmployee(c) /\ employees[code].user = calls[c].email
      BY <1>2, <2>2, <2>4, EmployeeMoves DEF Shape
    <3>2. calls[c].email \in Emails
      BY <3>1, CallFields DEF ActivateEmployee, At, PlainPcs, HirePcs, InvitePcs, Shape
    <3> QED
      BY <1>u, <2>2, <3>1, <3>2 DEF ActivateEmployee, At, Accepting
  <2> QED
    BY <2>3, <2>4
<1> QED
  BY <1>1, <1>2 DEF Accepting

\* Where no call about an address has failed, its user has all an invitation
\* stores, or a call is at work on it, which has assigned the role or will.
Underway ==
  \A e \in Emails \ cut : users[e] # NoUser =>
    \/ users[e].role # None /\ EmployeesOf(e) # {}
    \/ \E c \in Calls : Works(c, e) /\ (calls[c].pc = "role" \/ users[e].role # None)

\* How a call that works on an address moves on.
LEMMA WorkMoves ==
  ASSUME Shape, [Next]_vars, NEW e \in Emails, NEW c \in Calls, Works(c, e), calls'[c] # calls[c]
  PROVE  \/ /\ AssignRole(c) /\ Works(c, e)'
            /\ \E role \in RoleNames : users'[e] = WithRole(users[e], role)
         \/ calls[c].pc # "role" /\ CountEmployees(c) /\ Works(c, e)'
         \/ calls[c].pc # "role" /\ EmployeesOf(e)' # {}
         \/ e \in cut'
<1>0. /\ calls[c].pc \in {"role", "code", "employee"} /\ calls[c].email = e
      /\ users \in [Emails -> User \cup {NoUser}]
      /\ employees \in [Codes -> Employee \cup {NoEmployee}]
  BY DEF Works, Shape, TypeInv, RowsOK
<1>1. AssignRole(c) \/ RefuseRole(c) \/ CountEmployees(c) \/ CreateEmployee(c) \/ Fail(c)
  <2>1. InviteOf(c) \/ HiringOf(c)
    BY OneMoves DEF Shape
  <2>2. calls[c] # Idle
    BY <1>0 DEF Idle
  <2>3. ~HiringOf(c)
    BY <1>0, <2>2 DEF HiringOf, AdvanceStart, RejectStart, OfferStart, HireStart, Start, CreateOffer,
       UpdateStage, LatestOffer, Invited, AcceptOffer, MarkHired, At
  <2> QED
    BY <1>0, <2>1, <2>2, <2>3 DEF InviteOf, InviteStart, CreateStart, CheckEmail, CreateUser,
       AcceptStart, ActivateUser, ActivateEmployee, At
<1>2. CASE AssignRole(c)
  BY <1>0, <1>2, AfterInviteQuery DEF AssignRole, Moves, Works, Shape
<1>3. CASE CountEmployees(c)
  BY <1>0, <1>3, AfterCount DEF CountEmployees, At, Works, Shape
<1>4. CASE CreateEmployee(c)
  <2>1. calls[c].pc = "employee" /\ calls[c].code \in Codes
    BY <1>4 DEF CreateEmployee, At, CodeKnown, Shape
  <2>2. CASE Taken(calls[c].code)
    BY <1>0, <1>4, <2>2, NoneAssumption DEF CreateEmployee
  <2>3. CASE ~Taken(calls[c].code)
    <3>1. employees'[calls[c].code] = [user |-> e, status |-> "INVITED"]
      BY <1>0, <1>4, <2>1, <2>3 DEF CreateEmployee
    <3> QED
      BY <2>1, <3>1 DEF EmployeesOf, Taken, NoEmployee
  <2> QED
    BY <2>2, <2>3
<1>5. CASE Fail(c)
  BY <1>0, <1>5, NoneAssumption DEF Fail
<1>6. CASE RefuseRole(c)
  BY <1>0, <1>6 DEF RefuseRole
<1> QED
  BY <1>1, <1>2, <1>3, <1>4, <1>5, <1>6

\* What failed stays noted.
LEMMA CutGrows == ASSUME TypeInv, [Next]_vars PROVE cut \subseteq cut'
BY Steps
DEF InviteOf, HiringOf, InviteStart, CreateStart, CheckEmail, CreateUser, AssignRole,
    CountEmployees, CreateEmployee, AcceptStart, ActivateUser, ActivateEmployee, RefuseRole, Fail,
    ResetPassword, AdvanceStart, RejectStart, OfferStart, HireStart, CreateOffer, UpdateStage, LatestOffer,
    Invited, AcceptOffer, MarkHired, AddCandidate, vars, inviteVars

\* Unless it is cut short, an invitation goes on to its last row.
LEMMA UnderwayStep == Shape /\ Underway /\ [Next]_vars => Underway'
<1> SUFFICES ASSUME Shape, Underway, [Next]_vars, NEW e \in Emails, e \notin cut',
                    users'[e] # NoUser
             PROVE  \/ users'[e].role # None /\ EmployeesOf(e)' # {}
                    \/ \E c \in Calls :
                         Works(c, e)' /\ (calls'[c].pc = "role" \/ users'[e].role # None)
  BY DEF Underway, Works
<1>0. e \notin cut
  BY CutGrows DEF Shape
<1>1. CASE users[e] = NoUser
  <2>1. PICK c \in Calls : CreateUser(c) /\ calls[c].email = e
    BY <1>1, UserMoves DEF Shape
  <2>2. Moves(c, "role")
    BY <1>1, <2>1, AfterInviteQuery DEF Shape
  <2> QED
    BY <2>1, <2>2 DEF Moves, Works
<1>2. CASE users[e] # NoUser
  <2>r. users[e].role # None => users'[e].role # None
    BY <1>2, UserMoves DEF Shape
  <2>1. CASE users[e].role # None /\ EmployeesOf(e) # {}
    BY <2>1, <2>r, EmployeesStay
  <2>2. ASSUME NEW c \in Calls, Works(c, e), calls[c].pc = "role" \/ users[e].role # None
        PROVE  \/ users'[e].role # None /\ EmployeesOf(e)' # {}
               \/ \E d \in Calls :
                    Works(d, e)' /\ (calls'[d].pc = "role" \/ users'[e].role # None)
    <3>1. CASE calls'[c] = calls[c]
      BY <2>2, <2>r, <3>1 DEF Works
    <3>2. CASE calls'[c] # calls[c]
      <4>1. CASE Works(c, e)' /\ \E role \in RoleNames : users'[e] = WithRole(users[e], role)
        <5>1. users[e] \in User
          BY <1>2 DEF Shape, TypeInv, RowsOK
        <5>2. \A role \in RoleNames : WithRole(users[e], role).role # None
          BY <5>1, NoneAssumption DEF WithRole, User
        <5> QED
          BY <4>1, <5>2
      <4>2. CASE calls[c].pc # "role" /\ Works(c, e)'
        BY <2>2, <2>r, <4>2
      <4>3. CASE calls[c].pc # "role" /\ EmployeesOf(e)' # {}
        BY <2>2, <2>r, <4>3
      <4> QED
        BY <2>2, <3>2, <4>1, <4>2, <4>3, WorkMoves
    <3> QED
      BY <3>1, <3>2
  <2> QED
    BY <1>0, <1>2, <2>1, <2>2 DEF Underway
<1> QED
  BY <1>1, <1>2

----------------------------------------------------------------------------
(* One call at a time about a candidate *)

NoneAccepted(k) == \A i \in DOMAIN offers[k] : offers[k][i] # "ACCEPTED"
OnlyLatestAccepted(k) ==
  \A i \in DOMAIN offers[k] : offers[k][i] = "ACCEPTED" <=> i = Len(offers[k])

\* Where the call about a candidate is, and what is said of the offers.
Placed(c, k) ==
  /\ IF calls[c].pc = "hired" THEN OnlyLatestAccepted(k) ELSE NoneAccepted(k)
  /\ calls[c].op = "invite" /\ calls[c].pc # "latest" => calls[c].offer = Len(offers[k])
  /\ calls[c].pc = "accept" => calls[c].offer > 0

\* Without races, a candidate has one call at a time, and none once HIRED; the
\* offer it has read is the latest until it is accepted.
Unraced(k) ==
  /\ \A c, d \in About(k) : c = d
  /\ stage[k] = "HIRED" => About(k) = {} /\ OnlyLatestAccepted(k)
  /\ stage[k] # "HIRED" /\ About(k) = {} => NoneAccepted(k)
  /\ \A c \in About(k) : Placed(c, k)

InTurn == \A k \in Candidates \ raced : Unraced(k)

\* Races stay noted; so do failures of calls about a candidate.
LEMMA RacedGrows == ASSUME TypeInv, [Next]_vars PROVE raced \subseteq raced'
BY Steps
DEF OfInvite, HiringOf, AdvanceStart, RejectStart, OfferStart, HireStart, Start, CreateOffer,
    UpdateStage, LatestOffer, Invited, AcceptOffer, MarkHired, AddCandidate, vars, hireVars

\* A call that starts about a candidate, without a race, is the only one, and
\* starts for one who is not HIRED.
LEMMA StartsAlone ==
  ASSUME TypeInv, NEW c \in Calls, NEW k \in Candidates, StartsAbout(c, k), k \notin raced'
  PROVE  /\ About(k) = {} /\ stage[k] # "HIRED" /\ UNCHANGED <<stage, offers>>
         /\ calls'[c] # calls[c]
         /\ \/ calls'[c].op = "stage" /\ calls'[c].pc \in {"offer", "stage"}
            \/ calls'[c].op = "invite" /\ calls'[c].pc = "latest"
<1>1. calls[c] = Idle /\ About(k) = {}
  BY DEF StartsAbout, AdvanceStart, RejectStart, OfferStart, HireStart, Start
<1>2. stage[k] # "HIRED" /\ UNCHANGED <<stage, offers>>
  BY DEF StartsAbout, AdvanceStart, RejectStart, OfferStart, HireStart, Advances, InPipeline, Closed
<1>3. \/ calls'[c].op = "stage" /\ calls'[c].pc \in {"offer", "stage"}
      \/ calls'[c].op = "invite" /\ calls'[c].pc = "latest"
  BY AfterHireStart DEF StartsAbout
<1>4. calls'[c] # Idle
  BY <1>3 DEF Idle
<1> QED
  BY <1>1, <1>2, <1>3, <1>4

\* What a step does to the stage and the offers of a candidate.
LEMMA CandidateMoves ==
  ASSUME TypeInv, [Next]_vars, NEW k \in Candidates
  PROVE  \/ stage'[k] = stage[k] /\ offers'[k] = offers[k]
         \/ stage[k] # "HIRED" /\ stage'[k] # "HIRED" /\ offers'[k] = offers[k]
         \/ \E c \in About(k) : calls'[c] # calls[c]
<1>t. stage \in [Candidates -> Stages \cup {"NONE"}] /\ offers \in [Candidates -> Seq(Offer)]
  BY DEF TypeInv
<1>1. ASSUME NEW c \in Calls, CreateOffer(c) \/ UpdateStage(c) \/ AcceptOffer(c) \/ MarkHired(c)
      PROVE  \/ stage'[k] = stage[k] /\ offers'[k] = offers[k]
             \/ c \in About(k) /\ calls'[c] # calls[c]
  <2>1. /\ calls[c].pc \in {"offer", "stage", "accept", "hired"} /\ calls[c].op # "accept"
        /\ calls[c].hire \in Candidates
    BY <1>1, CallFields DEF CreateOffer, UpdateStage, AcceptOffer, MarkHired, At, PlainPcs, HirePcs,
       InvitePcs
  <2>2. calls'[c].pc # calls[c].pc
    BY <1>1, AfterHireQuery DEF CreateOffer, UpdateStage, AcceptOffer, MarkHired, At, Moves, Ends
  <2>3. CASE calls[c].hire = k
    BY <2>1, <2>2, <2>3, AboutCandidate
  <2>4. CASE calls[c].hire # k
    BY <1>1, <1>t, <2>4 DEF CreateOffer, UpdateStage, AcceptOffer, MarkHired
  <2> QED
    BY <2>3, <2>4
<1>2. ASSUME NEW l \in Candidates, AddCandidate(l)
      PROVE  \/ stage'[k] = stage[k] /\ offers'[k] = offers[k]
             \/ stage[k] # "HIRED" /\ stage'[k] # "HIRED" /\ offers'[k] = offers[k]
  BY <1>2, <1>t DEF AddCandidate
<1> QED
  BY <1>1, <1>2, Steps
  DEF OfInvite, HiringOf, AdvanceStart, RejectStart, OfferStart, HireStart, LatestOffer, Invited,
      vars, hireVars

\* The call about an unraced candidate takes its next step.
LEMMA TurnTaken ==
  ASSUME TypeInv, TypeInv', [Next]_vars, NEW k \in Candidates, Unraced(k), k \notin raced',
         NEW c \in About(k), calls'[c] # calls[c]
  PROVE  \/ /\ calls'[c].pc = "idle"
            /\ IF stage'[k] = "HIRED" THEN OnlyLatestAccepted(k)' ELSE NoneAccepted(k)'
         \/ calls'[c].pc # "idle" /\ stage'[k] # "HIRED" /\ Placed(c, k)'
<1>0. /\ c \in Calls /\ calls[c].pc # "idle" /\ calls[c].op # "accept" /\ calls[c].hire = k
      /\ k # None /\ stage[k] # "HIRED" /\ Placed(c, k)
  BY AboutCandidate, NoneAssumption DEF About, Unraced, Candidates
<1>t. /\ stage \in [Candidates -> Stages \cup {"NONE"}] /\ offers \in [Candidates -> Seq(Offer)]
      /\ calls[c] # Idle
  BY <1>0 DEF TypeInv, Idle
<1>1. CASE InviteOf(c) /\ UNCHANGED <<stage, offers>> /\ FailNoted
  <2>1. ~Fail(c)
    <3>1. ASSUME Fail(c) PROVE FALSE
      <4>1. failures \in Nat
        BY MaxFailuresAssumption DEF TypeInv, RowsOK
      <4>2. failures' # failures
        BY <3>1, <4>1 DEF Fail
      <4>3. calls'[c] = Idle
        BY <1>0, <3>1, AfterAccept DEF Ends
      <4> QED
        BY <1>1, <4>2, <4>3 DEF FailNoted
    <3> QED
      BY <3>1
  <2>2. ~(ActivateUser(c) \/ ActivateEmployee(c))
    BY <1>0, CallFields DEF ActivateUser, ActivateEmployee, At, HirePcs, InvitePcs, PlainPcs
  <2>r. ~RefuseRole(c)
    BY <1>0 DEF RefuseRole, RolesOf, RoleNames
  <2>3. \/ CheckEmail(c) \/ CreateUser(c) \/ AssignRole(c) \/ CountEmployees(c) \/ CreateEmployee(c)
    BY <1>1, <1>t, <2>1, <2>2, <2>r DEF InviteOf, InviteStart, CreateStart, AcceptStart
  <2>4. calls[c].op = "invite" /\ calls[c].pc \in InvitePcs
    BY <1>0, <2>3, CallFields DEF CheckEmail, CreateUser, AssignRole, CountEmployees,
       CreateEmployee, At, InvitePcs
  <2>5. NoneAccepted(k) /\ calls[c].offer = Len(offers[k])
    BY <1>0, <2>4 DEF Placed, InvitePcs
  <2>6. \/ calls'[c].pc = "idle"
        \/ /\ calls'[c].pc \in {"user", "role", "code", "employee", "return"}
           /\ calls'[c].offer = calls[c].offer
    BY <1>0, <2>3, <2>4, AfterInviteQuery, AfterCount DEF Moves, Ends
  <2> QED
    BY <1>0, <1>1, <2>5, <2>6 DEF Placed, NoneAccepted
<1>2. CASE CreateOffer(c)
  <2>1. calls[c].pc = "offer" /\ calls[c].op = "stage"
    <3>1. calls[c].pc = "offer"
      BY <1>2 DEF CreateOffer, At
    <3> QED
      BY <1>0, <3>1, CallFields DEF HirePcs, InvitePcs, PlainPcs
  <2>2. calls'[c].pc = "stage" /\ calls'[c].op = "stage"
    BY <1>0, <1>2, <2>1, AfterHireQuery DEF Moves
  <2>3. NoneAccepted(k)
    BY <1>0, <2>1 DEF Placed
  <2>4. offers'[k] = Append(offers[k], "SENT") /\ stage' = stage
    BY <1>0, <1>2, <1>t DEF CreateOffer
  <2>5. NoneAccepted(k)'
    BY <1>t, <2>3, <2>4 DEF NoneAccepted
  <2> QED
    BY <1>0, <2>2, <2>4, <2>5 DEF Placed
<1>3. CASE UpdateStage(c)
  <2>1. calls[c].pc = "stage" /\ calls[c].op = "stage"
    <3>1. calls[c].pc = "stage"
      BY <1>3 DEF UpdateStage, At
    <3> QED
      BY <1>0, <3>1, CallFields DEF HirePcs, InvitePcs, PlainPcs
  <2>2. calls[c].to # "HIRED" /\ calls'[c].pc = "idle"
    BY <1>0, <1>3, <2>1, CallFields, AfterHireQuery DEF Ends
  <2>3. stage'[k] # "HIRED" /\ offers' = offers
    BY <1>0, <1>3, <1>t, <2>2 DEF UpdateStage
  <2> QED
    BY <1>0, <2>1, <2>2, <2>3 DEF Placed, NoneAccepted
<1>4. CASE LatestOffer(c)
  <2>1. calls[c].pc = "latest" /\ UNCHANGED <<stage, offers>>
    BY <1>4 DEF LatestOffer, At, hireVars
  <2>2. calls'[c].pc = "check" /\ calls'[c].offer = Len(offers[calls[c].hire])
    BY <1>0, <1>4, AfterLatestOffer
  <2>3. calls'[c].offer = Len(offers[k])
    BY <1>0, <2>2
  <2> QED
    BY <1>0, <2>1, <2>2, <2>3 DEF Placed, NoneAccepted
<1>5. CASE Invited(c)
  <2>1. calls[c].pc = "return" /\ calls[c].op = "invite" /\ UNCHANGED <<stage, offers>>
    BY <1>0, <1>5, CallFields DEF Invited, At, hireVars
  <2>2. NoneAccepted(k) /\ calls[c].offer = Len(offers[k])
    BY <1>0, <2>1 DEF Placed
  <2>3. /\ calls'[c].pc = IF calls[c].offer > 0 THEN "accept" ELSE "hired"
        /\ calls'[c].offer = calls[c].offer
    BY <1>0, <1>5, <2>1, AfterHireQuery DEF Moves
  <2>4. CASE calls[c].offer > 0
    BY <1>0, <2>1, <2>2, <2>3, <2>4 DEF Placed, NoneAccepted
  <2>5. CASE ~(calls[c].offer > 0)
    <3>1. offers[k] \in Seq(Offer) /\ Len(offers[k]) = 0
      BY <1>t, <2>2, <2>5
    <3>2. DOMAIN offers[k] = {}
      BY <3>1
    <3> QED
      BY <1>0, <2>1, <2>2, <2>3, <2>5, <3>2 DEF Placed, OnlyLatestAccepted
  <2> QED
    BY <2>4, <2>5
<1>6. CASE AcceptOffer(c)
  <2>1. calls[c].pc = "accept" /\ calls[c].op = "invite" /\ stage' = stage
    BY <1>0, <1>6, CallFields DEF AcceptOffer, At, PlainPcs
  <2>2. NoneAccepted(k) /\ calls[c].offer = Len(offers[k]) /\ calls[c].offer > 0
    BY <1>0, <2>1 DEF Placed
  <2>3. calls'[c].pc = "hired" /\ calls'[c].offer = calls[c].offer
    BY <1>0, <1>6, <2>1, AfterHireQuery DEF Moves
  <2> DEFINE s == offers[k]
             t == [s EXCEPT ![Len(s)] = "ACCEPTED"]
  <2>4. offers'[k] = t /\ s \in Seq(Offer)
    BY <1>0, <1>6, <1>t, <2>2 DEF AcceptOffer
  <2>5. /\ DOMAIN t = DOMAIN s /\ Len(t) = Len(s)
        /\ \A i \in DOMAIN s : t[i] = IF i = Len(s) THEN "ACCEPTED" ELSE s[i]
    <3>1. Len(s) \in 1 .. Len(s) /\ "ACCEPTED" \in Offer
      BY <2>2, <2>4 DEF Offer
    <3>2. t \in Seq(Offer) /\ Len(t) = Len(s)
      BY <2>4, <3>1, ExceptSeq
    <3> QED
      BY <2>4, <3>1, <3>2
  <2>6. OnlyLatestAccepted(k)'
    BY <2>2, <2>4, <2>5 DEF OnlyLatestAccepted, NoneAccepted
  <2>7. Len(offers'[k]) = Len(offers[k])
    BY <2>4, <2>5
  <2> QED
    BY <1>0, <2>1, <2>2, <2>3, <2>6, <2>7 DEF Placed
<1>7. CASE MarkHired(c)
  <2>1. calls[c].pc = "hired" /\ calls'[c].pc = "idle"
    <3>1. calls[c].pc = "hired"
      BY <1>7 DEF MarkHired, At
    <3> QED
      BY <1>0, <1>7, <3>1, AfterHireQuery DEF Ends
  <2>2. stage'[k] = "HIRED" /\ offers' = offers
    BY <1>0, <1>7, <1>t DEF MarkHired
  <2> QED
    BY <1>0, <2>1, <2>2 DEF Placed, OnlyLatestAccepted
<1>8. \/ InviteOf(c) /\ OfInvite /\ FailNoted
      \/ HiringOf(c)
  <2>1. \A d \in Calls : InviteOf(d) \/ HiringOf(d) => d = c
    BY <1>0, OthersStay
  <2> QED
    BY <1>0, <2>1, Steps DEF ResetPassword, AddCandidate, vars, inviteVars
<1> QED
  BY <1>1, <1>2, <1>3, <1>4, <1>5, <1>6, <1>7, <1>8, <1>t
  DEF HiringOf, OfInvite, AdvanceStart, RejectStart, OfferStart, HireStart, Start

\* Every step keeps the turns.
LEMMA InTurnStep ==
  TypeInv /\ TypeInv' /\ InTurn /\ [Next]_vars => InTurn'
<1> SUFFICES ASSUME TypeInv, TypeInv', InTurn, [Next]_vars,
                    NEW k \in Candidates, k \notin raced'
             PROVE  Unraced(k)'
  BY DEF InTurn
<1>0. Unraced(k)
  BY RacedGrows DEF InTurn
<1>m. \A c, d \in Calls : calls'[c] # calls[c] /\ calls'[d] # calls[d] => c = d
  BY OneMoves
<1>a. \A c : c \in About(k) => c \in Calls
  BY DEF About
<1>b. \A c : c \in About(k)' => c \in Calls
  BY DEF About
<1>1. ASSUME NEW c \in Calls, StartsAbout(c, k) PROVE Unraced(k)'
  <2>1. /\ About(k) = {} /\ stage[k] # "HIRED" /\ UNCHANGED <<stage, offers>>
        /\ calls'[c] # calls[c]
        /\ \/ calls'[c].op = "stage" /\ calls'[c].pc \in {"offer", "stage"}
           \/ calls'[c].op = "invite" /\ calls'[c].pc = "latest"
    BY <1>1, StartsAlone
  <2>2. ASSUME NEW d \in Calls, d \in About(k)' PROVE d = c
    <3>1. StartsAbout(d, k)
      BY <2>1, <2>2, AboutMoves
    <3>2. calls'[d] # calls[d]
      BY <3>1, StartsAlone
    <3> QED
      BY <2>1, <3>2, <1>m
  <2>3. NoneAccepted(k)
    BY <1>0, <2>1 DEF Unraced
  <2>4. Placed(c, k)'
    BY <2>1, <2>3 DEF Placed, NoneAccepted
  <2>5. c \in About(k)'
    <3>1. calls'[c].hire = k
      BY <1>1, AfterHireStart DEF StartsAbout
    <3> QED
      BY <2>1, <3>1, AboutNext
  <2> QED
    BY <1>b, <2>1, <2>2, <2>4, <2>5 DEF Unraced
<1>2. ASSUME NEW c \in About(k), calls'[c] # calls[c], \A d \in Calls : ~StartsAbout(d, k)
      PROVE  Unraced(k)'
  <2>1. c \in Calls /\ \A d \in About(k) : d = c
    BY <1>0, <1>a DEF Unraced
  <2>2. ASSUME NEW d \in Calls, d \in About(k)' PROVE d = c
    BY <1>2, <2>1, <2>2, AboutMoves
  <2>3. \/ /\ calls'[c].pc = "idle"
           /\ IF stage'[k] = "HIRED" THEN OnlyLatestAccepted(k)' ELSE NoneAccepted(k)'
        \/ calls'[c].pc # "idle" /\ stage'[k] # "HIRED" /\ Placed(c, k)'
    BY <1>0, <1>2, TurnTaken
  <2>4. CASE calls'[c].pc = "idle"
    <3>1. About(k)' = {}
      BY <1>b, <2>1, <2>2, <2>4, AboutNext
    <3> QED
      BY <2>3, <2>4, <3>1 DEF Unraced
  <2>5. CASE calls'[c].pc # "idle"
    <3>1. c \in About(k)'
      <4>1. /\ calls[c].pc # "idle" /\ calls[c].op # "accept" /\ calls[c].hire = k
        BY <2>1, AboutCandidate
      <4>2. calls[c] # Idle
        BY <4>1 DEF Idle
      <4>3. \/ Starts(c) \/ \E l \in Candidates : StartsAbout(c, l)
            \/ Proceeds(c)
        BY <1>2, <2>1, <2>5, OneMoves, HowMoved DEF Ends
      <4>4. Proceeds(c)
        BY <4>2, <4>3 DEF Starts, StartsAbout, InviteStart, CreateStart, AcceptStart, AdvanceStart,
           RejectStart, OfferStart, HireStart, Start
      <4> QED
        BY <2>1, <2>5, <4>1, <4>4, AboutNext DEF Proceeds
    <3> QED
      BY <1>b, <2>2, <2>3, <2>5, <3>1 DEF Unraced
  <2> QED
    BY <2>4, <2>5
<1>3. ASSUME \A c \in About(k) : calls'[c] = calls[c], \A d \in Calls : ~StartsAbout(d, k)
      PROVE  Unraced(k)'
  <2>1. ASSUME NEW c \in Calls PROVE c \in About(k)' <=> c \in About(k)
    BY <1>3, AboutMoves, AboutNext, AboutCandidate
  <2>2. About(k)' = About(k)
    BY <1>a, <1>b, <2>1
  <2>3. \/ stage'[k] = stage[k] /\ offers'[k] = offers[k]
        \/ stage[k] # "HIRED" /\ stage'[k] # "HIRED" /\ offers'[k] = offers[k]
    BY <1>3, CandidateMoves
  <2> QED
    BY <1>0, <1>3, <2>2, <2>3 DEF Unraced, Placed, NoneAccepted, OnlyLatestAccepted
<1> QED
  BY <1>1, <1>2, <1>3

----------------------------------------------------------------------------
(* Theorems *)

\* The inductive invariant of all the theorems below.
Inv == Shape /\ OneInvitation /\ Accepting /\ Underway /\ InTurn

\* Initially nobody is invited and no call is in flight.
LEMMA InvInit == Init => Inv
<1> SUFFICES ASSUME Init PROVE Inv
  OBVIOUS
<1>1. /\ \A c \in Calls : calls[c] = Idle /\ calls[c].pc = "idle"
      /\ \A k \in Candidates : stage[k] = "NONE" /\ offers[k] = <<>>
      /\ \A e \in Emails : users[e] = NoUser
      /\ \A code \in Codes : employees[code] = NoEmployee
  BY DEF Init, InviteInit, Idle
<1>2. \A e \in Emails : EmployeesOf(e) = {}
  BY <1>1 DEF EmployeesOf, Taken
<1>3. \A k \in Candidates : About(k) = {}
  BY <1>1 DEF About
<1>4. TypeInv /\ Registered
  BY InitShape
<1>5. Shape
  BY <1>1, <1>3, <1>4 DEF Shape, HireEmail, CodeKnown
<1>6. OneInvitation
  BY <1>1, <1>2 DEF OneInvitation, HiredOnce, Works, Finishes
<1>7. Accepting /\ Underway
  BY <1>1 DEF Accepting, Underway, NoEmployee
<1>8. InTurn
  BY <1>1, <1>3 DEF InTurn, Unraced, NoneAccepted
<1> QED
  BY <1>5, <1>6, <1>7, <1>8 DEF Inv

\* The invariant is inductive: each part has its lemma above.
LEMMA InvStep == Inv /\ [Next]_vars => Inv'
<1> SUFFICES ASSUME Inv, [Next]_vars PROVE Inv'
  OBVIOUS
<1>1. TypeInv' /\ Registered'
  BY TypeStep, RegisteredStep DEF Inv, Shape
<1>2. Shape'
  BY <1>1, HireEmailStep, CodeKnownStep DEF Inv, Shape
<1> QED
  BY <1>1, <1>2, OneInvitationStep, AcceptingStep, UnderwayStep, InTurnStep DEF Inv, Shape

\* The invariant of every behaviour, from which the theorems follow.
LEMMA InvHolds == Spec => []Inv
BY InvInit, InvStep, PTL DEF Spec

\* TypeOK holds of every reachable state: no query of an invite that runs on
\* behalf of a candidate leads a call where its fields do not take it.
THEOREM TypeCorrect == Spec => []TypeOK
<1>1. AnyCall \subseteq {Idle} \cup InviteCall \cup CreateCall \cup AcceptCall
                          \cup HireCall \cup HireInviteCall \cup StageCall
  BY DEF AnyCall, PlainInvite, PlainPcs, InviteCall, InvitePcs, HireOf, HirePcs, HireCall,
     HireInviteCall
<1>2. Inv => TypeOK
  BY <1>1 DEF Inv, Shape, TypeInv, TypeOK
<1> QED
  BY <1>2, InvHolds, PTL

\* No user has two employees, however many invitations for an address overlap,
\* fail and are repeated: the unique index of the users is all that is needed.
THEOREM UserHasOneEmployee == Spec => []OneEmployeePerUser
<1>1. Inv => OneEmployeePerUser
  <2> SUFFICES ASSUME Inv, NEW e \in Emails PROVE Cardinality(EmployeesOf(e)) <= 1
    BY DEF OneEmployeePerUser
  <2>1. CASE EmployeesOf(e) = {}
    BY <2>1, FS_EmptySet
  <2>2. ASSUME NEW a \in EmployeesOf(e) PROVE Cardinality(EmployeesOf(e)) <= 1
    <3>1. EmployeesOf(e) = {a}
      BY <2>2 DEF Inv, OneInvitation
    <3>2. Cardinality({a}) = 1
      BY FS_Singleton
    <3> QED
      BY <3>1, <3>2
  <2> QED
    BY <2>1, <2>2
<1> QED
  BY <1>1, InvHolds, PTL

\* Whoever is ACTIVE as an employee can log in, wherever acceptInvite stops.
THEOREM ActiveLogsIn == Spec => []ActiveCanLogIn
<1>1. Inv => ActiveCanLogIn
  BY DEF Inv, Accepting, ActiveCanLogIn
<1> QED
  BY <1>1, InvHolds, PTL

\* An invitation that has not failed leaves a user with a role and an employee.
THEOREM InvitationIsWhole == Spec => []InvitedIsWhole
<1>1. Inv => InvitedIsWhole
  <2> SUFFICES ASSUME Inv, NEW e \in Emails \ cut, users[e] # NoUser, InFlight(e) = {}
               PROVE  users[e].role # None /\ EmployeesOf(e) # {}
    BY DEF InvitedIsWhole
  <2>1. ASSUME NEW c \in Calls, Works(c, e) PROVE FALSE
    <3>1. calls[c] # Idle
      BY <2>1 DEF Works, Idle
    <3> QED
      BY <2>1, <3>1 DEF InFlight, Works
  <2> QED
    BY <2>1 DEF Inv, Underway
<1> QED
  BY <1>1, InvHolds, PTL

\* Who is HIRED has been invited,
THEOREM HiredWasInvited == Spec => []HiredIsInvited
<1>1. Inv => HiredIsInvited
  BY DEF Inv, OneInvitation, HiredIsInvited
<1> QED
  BY <1>1, InvHolds, PTL

\* and, of those who share an address, is the only one.
THEOREM PersonHiredOnce == Spec => []HiredOnce
<1>1. Inv => HiredOnce
  BY DEF Inv, OneInvitation
<1> QED
  BY <1>1, InvHolds, PTL

\* The offer of a candidate hired without a race is ACCEPTED, and no other.
THEOREM LatestOfferAccepted == Spec => []HiredAcceptedLatest
<1>1. Inv => HiredAcceptedLatest
  BY DEF Inv, InTurn, Unraced, OnlyLatestAccepted, HiredAcceptedLatest
<1> QED
  BY <1>1, InvHolds, PTL

\* Nor does the candidate leave that stage: no call is about a HIRED candidate,
\* and none starts but by a race.
THEOREM HiredStaysHired == Spec => HiredIsFinal
<1>1. Inv /\ [Next]_vars =>
        [\A k \in Candidates : stage[k] = "HIRED" /\ stage'[k] # "HIRED" => k \in raced]_stage
  <2> SUFFICES ASSUME Inv, [Next]_vars, NEW k \in Candidates, stage[k] = "HIRED",
                      stage'[k] # "HIRED", k \notin raced
               PROVE  FALSE
    OBVIOUS
  <2>1. TypeInv
    BY DEF Inv, Shape
  <2>2. About(k) = {}
    BY DEF Inv, InTurn, Unraced
  <2> QED
    BY <2>1, <2>2, CandidateMoves
<1> QED
  BY <1>1, InvHolds, PTL DEF Spec, HiredIsFinal
===============================================================================
