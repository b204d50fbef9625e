---------------------------- MODULE SessionsProofs ----------------------------
(***************************************************************************)
(* The two models of the frontend.  The properties of Sessions, for every  *)
(* set of token pairs and of calls: TypeOK, ReplacedAtMostOnce,            *)
(* OnlyStoredTokenLives and StaysSignedIn.  And those of Console: what     *)
(* every route, page and button is, then the invariant of the user at the  *)
(* console and PagesOpen, RefusalsAreKnown and OutdatedClicksAreHarmless.  *)
(***************************************************************************)
EXTENDS Sessions, Console, TLAPS

AnyCall == {Idle} \cup Call

\* A slot that takes a well-formed call leaves the calls well formed.
LEMMA PutCall ==
  ASSUME calls \in [Calls -> AnyCall], NEW c \in Calls, NEW call \in AnyCall, Put(c, call)
  PROVE  /\ calls' \in [Calls -> AnyCall]
         /\ calls'[c] = call
         /\ \A d \in Calls \ {c} : calls'[d] = calls[d]
  BY DEF Put

\* A call has an operation, a pc, a pair and the mark of a retry, and nothing else.
LEMMA CallFields ==
  ASSUME calls \in [Calls -> AnyCall], NEW c \in Calls, calls[c].pc # "idle"
  PROVE  /\ calls[c] \in Call
         /\ calls[c] = [op |-> calls[c].op, pc |-> calls[c].pc, pair |-> calls[c].pair,
                        retried |-> calls[c].retried]
         /\ calls[c].op \in {"fetch", "restore", "login", "logout", "reset"}
         /\ calls[c].pair \in Pairs \cup {None}
         /\ calls[c].retried \in BOOLEAN
<1>1. calls[c] \in Call
  BY DEF AnyCall, Idle
<1> QED
  BY <1>1 DEF Call

\* What the pc of a call says about its operation and its pair.
LEMMA CallPair ==
  ASSUME calls \in [Calls -> AnyCall], NEW c \in Calls, calls[c].pc \notin {"idle", "sent"}
  PROVE  /\ calls[c].op \in Fetch =>
              calls[c].pc \in RefreshPcs /\ calls[c].pair \in Pairs /\ calls[c].retried = TRUE
         /\ calls[c].op = "login" => calls[c].pc \in {"issue", "answer"} /\ calls[c].retried = FALSE
         /\ calls[c].op = "logout" =>
              /\ calls[c].pc \in {"find", "revoke", "answer"} /\ calls[c].pair \in Pairs
              /\ calls[c].retried = FALSE
         /\ calls[c].op = "reset" => calls[c].pc = "revokeAll"
<1>1. calls[c] \in Call
  BY CallFields
<1> QED
  BY <1>1 DEF Call, Fetch, RefreshPcs

\* Moving a call on to another pc changes that alone.
LEMMA GotoCall ==
  ASSUME calls \in [Calls -> AnyCall], NEW c \in Calls, calls[c].pc # "idle", NEW pc, Goto(c, pc)
  PROVE  Put(c, [op |-> calls[c].op, pc |-> pc, pair |-> calls[c].pair,
                 retried |-> calls[c].retried])
<1>1. calls[c] = [op |-> calls[c].op, pc |-> calls[c].pc, pair |-> calls[c].pair,
                  retried |-> calls[c].retried]
  BY CallFields
<1>2. [calls[c] EXCEPT !.pc = pc] =
        [op |-> calls[c].op, pc |-> pc, pair |-> calls[c].pair, retried |-> calls[c].retried]
  BY <1>1
<1> QED
  BY <1>2 DEF Goto, Put

\* A call whose pair is issued goes on with that pair.
LEMMA IssueCall ==
  ASSUME calls \in [Calls -> AnyCall], NEW c \in Calls, NEW t \in Pairs, Issue(c, t)
  PROVE  Put(c, [op |-> calls[c].op, pc |-> "answer", pair |-> t, retried |-> calls[c].retried])
<1>1. calls[c] = [op |-> calls[c].op, pc |-> calls[c].pc, pair |-> calls[c].pair,
                  retried |-> calls[c].retried]
  BY CallFields DEF Issue, At
<1> DEFINE moved == [calls[c] EXCEPT !.pc = "answer"]
           call == [op |-> calls[c].op, pc |-> "answer", pair |-> t, retried |-> calls[c].retried]
<1>2. [moved EXCEPT !.pair = t] = call
  <2>1. moved = [op |-> calls[c].op, pc |-> "answer", pair |-> calls[c].pair,
                 retried |-> calls[c].retried]
    BY <1>1
  <2> HIDE DEF moved
  <2> QED
    BY <2>1
<1>3. calls' = [[calls EXCEPT ![c] = moved] EXCEPT ![c].pair = t]
  BY DEF Issue
<1>4. [calls EXCEPT ![c] = moved][c] = moved
  OBVIOUS
<1>5. calls' = [[calls EXCEPT ![c] = moved] EXCEPT ![c] = call]
  BY <1>2, <1>3, <1>4
<1> QED
  BY <1>5 DEF Put

\* A call with any pc that suits its operation is well formed.
LEMMA CallSuits ==
  ASSUME NEW op, NEW pc, NEW pair, NEW retried,
         \/ op \in Fetch /\ pc = "sent" /\ pair \in Pairs \cup {None} /\ retried \in BOOLEAN
         \/ op \in Fetch /\ pc \in RefreshPcs /\ pair \in Pairs /\ retried = TRUE
         \/ op = "login" /\ pc \in {"issue", "answer"} /\ pair \in Pairs \cup {None} /\ retried = FALSE
         \/ op = "logout" /\ pc \in {"find", "revoke", "answer"} /\ pair \in Pairs /\ retried = FALSE
         \/ op = "reset" /\ pc = "revokeAll" /\ pair = None /\ retried = FALSE
  PROVE  [op |-> op, pc |-> pc, pair |-> pair, retried |-> retried] \in AnyCall
  BY DEF AnyCall, Call, Fetch, RefreshPcs

----------------------------------------------------------------------------
(* Shape *)

\* Every step keeps the shape of the store, the rows and the calls.
LEMMA TypeStep == TypeOK /\ [Next]_vars => TypeOK'
<1> SUFFICES ASSUME TypeOK, [Next]_vars PROVE TypeOK'
  OBVIOUS
<1>0. calls \in [Calls -> AnyCall]
  BY DEF TypeOK, AnyCall
<1>t. /\ tokens \in [Pairs -> TokenStates] /\ fresh \in [Pairs -> BOOLEAN]
      /\ parent \in [Pairs -> Pairs \cup {None}] /\ store \in Pairs \cup {None}
      /\ ended \in BOOLEAN /\ contended \in BOOLEAN /\ lost \in BOOLEAN
  BY DEF TypeOK
<1>r. ASSUME RevokeAll PROVE tokens' \in [Pairs -> TokenStates]
  BY <1>t, <1>r DEF RevokeAll, TokenStates
<1>i. Idle \in AnyCall
  BY DEF AnyCall
<1>e. ASSUME Enter PROVE contended' \in BOOLEAN
  BY <1>t, <1>e DEF Enter
<1>1. ASSUME NEW c \in Calls, NEW op \in Fetch, Send(c, op) PROVE TypeOK'
  <2>1. calls' \in [Calls -> AnyCall]
    BY <1>0, <1>1, <1>t, PutCall, CallSuits DEF Send
  <2> QED
    BY <1>1, <1>t, <2>1 DEF Send, TypeOK, AnyCall
<1>2. ASSUME NEW c \in Calls, AnswerAccepted(c) PROVE TypeOK'
  <2>1. calls' \in [Calls -> AnyCall]
    BY <1>0, <1>2, <1>i, PutCall DEF AnswerAccepted, Return
  <2> QED
    BY <1>2, <1>t, <2>1 DEF AnswerAccepted, TypeOK, AnyCall
<1>3. ASSUME NEW c \in Calls, AnswerUnauthorized(c) PROVE TypeOK'
  <2>1. CASE GivesUp(c)
    <3>1. calls' \in [Calls -> AnyCall]
      BY <1>0, <1>3, <1>i, <2>1, PutCall DEF AnswerUnauthorized, Return
    <3> QED
      BY <1>3, <1>t, <2>1, <3>1 DEF AnswerUnauthorized, StoreAfterError, TypeOK, AnyCall
  <2>2. CASE ~GivesUp(c)
    <3>1. calls' \in [Calls -> AnyCall]
      BY <1>0, <1>3, <1>t, <2>2, PutCall, CallSuits
      DEF AnswerUnauthorized, GivesUp, RefreshWith, At, RefreshPcs
    <3> QED
      BY <1>3, <1>t, <1>e, <2>2, <3>1 DEF AnswerUnauthorized, TypeOK, AnyCall
  <2> QED
    BY <2>1, <2>2
<1>4. ASSUME NEW c \in Calls, NEW pc, Goto(c, pc), calls[c].op \in Fetch, pc \in RefreshPcs \cup {"sent"},
             calls[c].pc \in RefreshPcs
      PROVE  calls' \in [Calls -> AnyCall]
  <2>1. calls[c].pair \in Pairs /\ calls[c].retried = TRUE /\ calls[c].pc # "idle"
    BY <1>0, <1>4, CallPair DEF RefreshPcs
  <2> QED
    BY <1>0, <1>4, <2>1, GotoCall, PutCall, CallSuits
<1>5. ASSUME NEW c \in Calls, RefreshCheck(c) \/ RefreshRevokeAll(c) \/ RefreshRotate(c) \/ RefreshAnswer(c)
      PROVE TypeOK'
  <2>1. calls' \in [Calls -> AnyCall]
    BY <1>4, <1>5 DEF RefreshCheck, RefreshRevokeAll, RefreshRotate, RefreshAnswer, At, RefreshPcs
  <2>2. calls[c].pair \in Pairs
    BY <1>0, <1>5, CallPair DEF RefreshCheck, RefreshRevokeAll, RefreshRotate, RefreshAnswer, At
  <2>3. tokens' \in [Pairs -> TokenStates]
    BY <1>5, <1>t, <1>r DEF RefreshCheck, RefreshRevokeAll, RefreshRotate, RefreshAnswer, Rotated, TokenStates
  <2> QED
    BY <1>5, <1>t, <2>1, <2>2, <2>3
    DEF RefreshCheck, RefreshRevokeAll, RefreshRotate, RefreshAnswer, TypeOK, AnyCall
<1>6. ASSUME NEW c \in Calls, NEW t \in Pairs, Issue(c, t) PROVE TypeOK'
  <2>1. calls[c].pair \in Pairs \cup {None}
    BY <1>0, <1>6, CallFields DEF Issue, At
  <2>2. Put(c, [op |-> calls[c].op, pc |-> "answer", pair |-> t, retried |-> calls[c].retried])
    BY <1>0, <1>6, IssueCall
  <2>3. calls' \in [Calls -> AnyCall]
    BY <1>0, <1>6, <2>2, PutCall, CallSuits, CallPair DEF Issue, At, RefreshPcs
  <2> QED
    BY <1>6, <1>t, <2>1, <2>3 DEF Issue, TypeOK, TokenStates, AnyCall
<1>7. ASSUME NEW c \in Calls, LoginStart(c) \/ LogoutStart(c) \/ ResetStart(c) PROVE TypeOK'
  <2>1. calls' \in [Calls -> AnyCall]
    BY <1>0, <1>7, <1>t, PutCall, CallSuits DEF LoginStart, LogoutStart, ResetStart
  <2> QED
    BY <1>7, <1>t, <1>e, <2>1 DEF LoginStart, LogoutStart, ResetStart, TypeOK, AnyCall
<1>8. ASSUME NEW c \in Calls, \/ LoginAnswer(c) \/ LogoutAnswer(c) \/ RefreshRefused(c)
                              \/ ResetRevokeAll(c) \/ NoAnswer(c) \/ RefreshFails(c)
      PROVE  TypeOK'
  <2>1. calls' \in [Calls -> AnyCall]
    BY <1>0, <1>8, <1>i, PutCall
    DEF LoginAnswer, LogoutAnswer, RefreshRefused, ResetRevokeAll, NoAnswer, RefreshFails, Return
  <2>2. store' \in Pairs \cup {None}
    <3>1. ASSUME LoginAnswer(c) PROVE calls[c].pair \in Pairs \cup {None}
      BY <1>0, <3>1, CallFields DEF LoginAnswer, At
    <3> QED
      BY <1>8, <1>t, <3>1
      DEF LoginAnswer, LogoutAnswer, RefreshRefused, ResetRevokeAll, NoAnswer, RefreshFails, StoreAfterError
  <2>3. ended' \in BOOLEAN /\ lost' \in BOOLEAN /\ contended' \in BOOLEAN
    BY <1>8, <1>t
    DEF LoginAnswer, LogoutAnswer, RefreshRefused, ResetRevokeAll, NoAnswer, RefreshFails
  <2> QED
    BY <1>8, <1>t, <1>r, <2>1, <2>2, <2>3
    DEF LoginAnswer, LogoutAnswer, RefreshRefused, ResetRevokeAll, NoAnswer, RefreshFails, TypeOK, AnyCall
<1>9. ASSUME NEW c \in Calls, LogoutFind(c) \/ LogoutRevoke(c) PROVE TypeOK'
  <2>1. calls[c].op = "logout" /\ calls[c].pc \in {"find", "revoke"}
    BY <1>9 DEF LogoutFind, LogoutRevoke, At
  <2>2. calls[c].pair \in Pairs /\ calls[c].retried = FALSE
    BY <1>0, <2>1, CallPair
  <2>3. calls' \in [Calls -> AnyCall]
    BY <1>0, <1>9, <2>1, <2>2, GotoCall, PutCall, CallSuits DEF LogoutFind, LogoutRevoke
  <2> QED
    BY <1>9, <1>t, <2>2, <2>3 DEF LogoutFind, LogoutRevoke, TypeOK, TokenStates, AnyCall
<1>10. ASSUME NEW t \in Pairs, AccessExpires(t) \/ RefreshExpires(t) PROVE TypeOK'
  BY <1>10, <1>t DEF AccessExpires, RefreshExpires, TypeOK, TokenStates
<1>11. CASE UNCHANGED vars
  BY <1>11 DEF vars, TypeOK
<1> QED
  BY <1>1, <1>2, <1>3, <1>5, <1>6, <1>7, <1>8, <1>9, <1>10, <1>11 DEF Next

\* TypeOK holds of every reachable state: whatever calls overlap, fail or
\* outlive their tokens, no call goes on with a pair it cannot have.
THEOREM TypeCorrect == Spec => []TypeOK
<1>1. Init => TypeOK
  BY DEF Init, TypeOK, TokenStates
<1> QED
  BY <1>1, TypeStep, PTL DEF Spec

----------------------------------------------------------------------------
(* What a step does to the calls and to the rows *)

\* The steps of one call.
Step(c) ==
  \/ \E op \in Fetch : Send(c, op)
  \/ AnswerAccepted(c) \/ AnswerUnauthorized(c)
  \/ RefreshCheck(c) \/ RefreshRevokeAll(c) \/ RefreshRefused(c)
  \/ RefreshRotate(c) \/ RefreshAnswer(c)
  \/ \E t \in Pairs : Issue(c, t)
  \/ LoginStart(c) \/ LoginAnswer(c)
  \/ LogoutStart(c) \/ LogoutFind(c) \/ LogoutRevoke(c) \/ LogoutAnswer(c)
  \/ ResetStart(c) \/ ResetRevokeAll(c)
  \/ NoAnswer(c) \/ RefreshFails(c)

\* A step is one of a call or one of time.
LEMMA Steps ==
  ASSUME [Next]_vars
  PROVE  \/ \E c \in Calls : Step(c)
         \/ \E t \in Pairs : AccessExpires(t) \/ RefreshExpires(t)
         \/ UNCHANGED vars
  BY DEF Next, Step

\* What a step makes of its call.
Becomes(c, op, pc, pair, retried) ==
  /\ calls'[c].op = op /\ calls'[c].pc = pc
  /\ calls'[c].pair = pair /\ calls'[c].retried = retried
Ends(c) == calls'[c] = Idle /\ calls'[c].pc = "idle"
GoesTo(c, pc) == Becomes(c, calls[c].op, pc, calls[c].pair, calls[c].retried)

\* A slot that is given a call holds that call.
LEMMA PutBecomes ==
  ASSUME TypeOK, NEW c \in Calls, NEW op, NEW pc, NEW pair, NEW retried,
         Put(c, [op |-> op, pc |-> pc, pair |-> pair, retried |-> retried])
  PROVE  Becomes(c, op, pc, pair, retried)
<1>1. calls'[c] = [op |-> op, pc |-> pc, pair |-> pair, retried |-> retried]
  BY DEF TypeOK, Put
<1> QED
  BY <1>1 DEF Becomes

\* A call that returns leaves its slot free.
LEMMA ReturnEnds ==
  ASSUME TypeOK, NEW c \in Calls, Return(c)
  PROVE  Ends(c)
<1>1. calls'[c] = Idle
  BY DEF TypeOK, Return, Put
<1> QED
  BY <1>1 DEF Ends, Idle

\* A call moved on has another pc, and the rest as before.
LEMMA GotoMoves ==
  ASSUME TypeOK, NEW c \in Calls, calls[c].pc # "idle", NEW pc, Goto(c, pc)
  PROVE  GoesTo(c, pc)
<1>1. calls \in [Calls -> AnyCall]
  BY DEF TypeOK, AnyCall
<1> QED
  BY <1>1, GotoCall, PutBecomes DEF GoesTo

\* A call whose pair is issued answers with that pair.
LEMMA IssueBecomes ==
  ASSUME TypeOK, NEW c \in Calls, NEW t \in Pairs, Issue(c, t)
  PROVE  Becomes(c, calls[c].op, "answer", t, calls[c].retried)
<1>1. calls \in [Calls -> AnyCall]
  BY DEF TypeOK, AnyCall
<1> QED
  BY <1>1, IssueCall, PutBecomes

\* A step of one call leaves the others where they are.
LEMMA OthersStay ==
  ASSUME TypeOK, NEW c \in Calls, Step(c), NEW d \in Calls, d # c
  PROVE  calls'[d] = calls[d]
  BY DEF TypeOK, Step, Send, AnswerAccepted, AnswerUnauthorized, RefreshCheck, RefreshRevokeAll,
     RefreshRefused, RefreshRotate, RefreshAnswer, Issue, LoginStart, LoginAnswer, LogoutStart,
     LogoutFind, LogoutRevoke, LogoutAnswer, ResetStart, ResetRevokeAll, NoAnswer, RefreshFails,
     Put, Goto, Return

\* What each step makes of its call: the sending of a request and its answer,
LEMMA AfterRequest ==
  ASSUME TypeOK, NEW c \in Calls
  PROVE  /\ \A op \in Fetch : Send(c, op) => Becomes(c, op, "sent", store, FALSE)
         /\ AnswerAccepted(c) => Ends(c)
         /\ AnswerUnauthorized(c) =>
              IF GivesUp(c) THEN Ends(c) ELSE Becomes(c, calls[c].op, "check", store, TRUE)
  BY ReturnEnds, PutBecomes DEF Send, AnswerAccepted, AnswerUnauthorized, RefreshWith

\* a query or the answer of refresh,
LEMMA AfterRefresh ==
  ASSUME TypeOK, NEW c \in Calls
  PROVE  /\ RefreshCheck(c) =>
              GoesTo(c, IF tokens[calls[c].pair] = "live" THEN "rotate" ELSE "revokeAll")
         /\ RefreshRevokeAll(c) => GoesTo(c, "refused")
         /\ RefreshRefused(c) => Ends(c)
         /\ RefreshRotate(c) => GoesTo(c, "issue")
         /\ RefreshAnswer(c) => GoesTo(c, "sent")
  BY GotoMoves, ReturnEnds
  DEF RefreshCheck, RefreshRevokeAll, RefreshRefused, RefreshRotate, RefreshAnswer, At, Honoured

\* a query or the answer of login, logout and reset, and a failure.
LEMMA AfterSession ==
  ASSUME TypeOK, NEW c \in Calls
  PROVE  /\ LoginStart(c) => Becomes(c, "login", "issue", None, FALSE)
         /\ LogoutStart(c) => Becomes(c, "logout", "find", store, FALSE)
         /\ ResetStart(c) => Becomes(c, "reset", "revokeAll", None, FALSE)
         /\ LogoutFind(c) =>
              GoesTo(c, IF tokens[calls[c].pair] = "revoked" THEN "answer" ELSE "revoke")
         /\ LogoutRevoke(c) => GoesTo(c, "answer")
         /\ LoginAnswer(c) \/ LogoutAnswer(c) \/ ResetRevokeAll(c) => Ends(c)
         /\ NoAnswer(c) \/ RefreshFails(c) => Ends(c)
<1>1. LoginStart(c) => Becomes(c, "login", "issue", None, FALSE)
  BY PutBecomes DEF LoginStart
<1>2. LogoutStart(c) => Becomes(c, "logout", "find", store, FALSE)
  BY PutBecomes DEF LogoutStart
<1>3. ResetStart(c) => Becomes(c, "reset", "revokeAll", None, FALSE)
  BY PutBecomes DEF ResetStart
<1>4. LogoutFind(c) =>
        GoesTo(c, IF tokens[calls[c].pair] = "revoked" THEN "answer" ELSE "revoke")
  BY GotoMoves DEF LogoutFind, At
<1>5. LogoutRevoke(c) => GoesTo(c, "answer")
  BY GotoMoves DEF LogoutRevoke, At
<1>6. /\ LoginAnswer(c) \/ LogoutAnswer(c) \/ ResetRevokeAll(c) => Ends(c)
      /\ NoAnswer(c) \/ RefreshFails(c) => Ends(c)
  BY ReturnEnds DEF LoginAnswer, LogoutAnswer, ResetRevokeAll, NoAnswer, RefreshFails
<1> QED
  BY <1>1, <1>2, <1>3, <1>4, <1>5, <1>6

\* The step that has brought a call where it is.
LEMMA CameFrom ==
  ASSUME TypeOK, NEW c \in Calls, Step(c)
  PROVE  /\ calls'[c].pc = "sent" => RefreshAnswer(c) \/ \E op \in Fetch : Send(c, op)
         /\ calls'[c].pc = "check" => AnswerUnauthorized(c) /\ ~GivesUp(c)
         /\ calls'[c].pc = "revokeAll" => RefreshCheck(c) \/ ResetStart(c)
         /\ calls'[c].pc = "refused" => RefreshRevokeAll(c)
         /\ calls'[c].pc = "rotate" => RefreshCheck(c)
         /\ calls'[c].pc = "issue" => RefreshRotate(c) \/ LoginStart(c)
         /\ calls'[c].pc = "find" => LogoutStart(c)
         /\ calls'[c].pc = "revoke" => LogoutFind(c)
         /\ calls'[c].pc = "answer" =>
              LogoutFind(c) \/ LogoutRevoke(c) \/ \E t \in Pairs : Issue(c, t)
<1>1. /\ (\E op \in Fetch : Send(c, op)) => calls'[c].pc = "sent"
      /\ AnswerAccepted(c) => calls'[c].pc = "idle"
      /\ AnswerUnauthorized(c) => calls'[c].pc = IF GivesUp(c) THEN "idle" ELSE "check"
  BY AfterRequest DEF Becomes, Ends
<1>2. /\ RefreshCheck(c) => calls'[c].pc \in {"rotate", "revokeAll"}
      /\ RefreshRevokeAll(c) => calls'[c].pc = "refused"
      /\ RefreshRefused(c) => calls'[c].pc = "idle"
      /\ RefreshRotate(c) => calls'[c].pc = "issue"
      /\ RefreshAnswer(c) => calls'[c].pc = "sent"
  BY AfterRefresh DEF GoesTo, Becomes, Ends
<1>3. (\E t \in Pairs : Issue(c, t)) => calls'[c].pc = "answer"
  BY IssueBecomes DEF Becomes
<1>4. /\ LoginStart(c) => calls'[c].pc = "issue"
      /\ LogoutStart(c) => calls'[c].pc = "find"
      /\ ResetStart(c) => calls'[c].pc = "revokeAll"
      /\ LogoutFind(c) => calls'[c].pc \in {"answer", "revoke"}
      /\ LogoutRevoke(c) => calls'[c].pc = "answer"
      /\ LoginAnswer(c) \/ LogoutAnswer(c) \/ ResetRevokeAll(c) => calls'[c].pc = "idle"
      /\ NoAnswer(c) \/ RefreshFails(c) => calls'[c].pc = "idle"
  BY AfterSession DEF GoesTo, Becomes, Ends
<1> QED
  BY <1>1, <1>2, <1>3, <1>4 DEF Step

\* The row of a refresh token: once revoked it stays so, it is never free again,
\* and it is stored only by the issue of its pair.
LEMMA TokenMoves ==
  ASSUME TypeOK, [Next]_vars, NEW t \in Pairs
  PROVE  /\ tokens[t] = "revoked" => tokens'[t] = "revoked"
         /\ tokens'[t] = "free" => tokens[t] = "free"
         /\ tokens'[t] = "live" => tokens[t] = "live" \/ \E c \in Calls : Issue(c, t)
<1>1. tokens \in [Pairs -> TokenStates]
  BY DEF TypeOK
<1>2. ASSUME NEW c \in Calls, NEW u \in Pairs, Issue(c, u), u # t PROVE tokens'[t] = tokens[t]
  BY <1>1, <1>2 DEF Issue
<1>3. ASSUME NEW c \in Calls, Issue(c, t)
      PROVE  tokens[t] = "free" /\ tokens'[t] = "live"
  BY <1>1, <1>3 DEF Issue
<1>4. ASSUME NEW c \in Calls, RefreshRevokeAll(c) \/ ResetRevokeAll(c)
      PROVE  tokens'[t] = IF tokens[t] = "free" THEN "free" ELSE "revoked"
  BY <1>4 DEF RefreshRevokeAll, ResetRevokeAll, RevokeAll
<1>5. ASSUME NEW c \in Calls, RefreshRotate(c) \/ LogoutRevoke(c)
      PROVE  tokens'[t] \in {tokens[t], "revoked"}
  BY <1>1, <1>5 DEF RefreshRotate, LogoutRevoke, Rotated
<1>6. ASSUME NEW u \in Pairs, RefreshExpires(u)
      PROVE  tokens'[t] = tokens[t] \/ (tokens[t] = "live" /\ tokens'[t] = "expired")
  BY <1>1, <1>6 DEF RefreshExpires
<1>7. CASE UNCHANGED tokens
  BY <1>7
<1> QED
  BY <1>2, <1>3, <1>4, <1>5, <1>6, <1>7, Steps
  DEF Step, vars, Send, AnswerAccepted, AnswerUnauthorized, RefreshCheck, RefreshRefused, RefreshAnswer,
      LoginStart, LoginAnswer, LogoutStart, LogoutFind, LogoutAnswer, ResetStart, NoAnswer,
      RefreshFails, AccessExpires

\* A pair is given its parent by its issue, and by nothing else.
LEMMA ParentMoves ==
  ASSUME [Next]_vars
  PROVE  UNCHANGED parent \/ \E c \in Calls, t \in Pairs : Issue(c, t)
  BY Steps
  DEF Step, vars, Send, AnswerAccepted, AnswerUnauthorized, RefreshCheck, RefreshRevokeAll,
      RefreshRefused, RefreshRotate, RefreshAnswer, LoginStart, LoginAnswer, LogoutStart, LogoutFind,
      LogoutRevoke, LogoutAnswer, ResetStart, ResetRevokeAll, NoAnswer, RefreshFails, AccessExpires,
      RefreshExpires

----------------------------------------------------------------------------
(* A refresh token is replaced at most once *)

\* Calls enter the server one at a time: from then on `contended` says otherwise.
Alone == ~contended => \A c, d \in OnServer : c = d

\* The inductive invariant: a pair replaces one that is revoked by then, and
\* while a call is about to replace a pair nothing has replaced it.
Lineage ==
  /\ \A t \in Pairs : tokens[t] = "free" => parent[t] = None
  /\ \A t, u \in Pairs : parent[u] = t => tokens[t] = "revoked"
  /\ \A c \in Calls : At(c, {"login"}, "issue") => calls[c].pair = None
  /\ \A c \in Calls : At(c, Fetch, "issue") => tokens[calls[c].pair] = "revoked"

Childless(c) == \A u \in Pairs : parent[u] # calls[c].pair

Unreplaced ==
  ~contended => \A c \in Calls : At(c, Fetch, "rotate") \/ At(c, Fetch, "issue") => Childless(c)

\* The calls on the server after a step of a call.
LEMMA ServerStep ==
  ASSUME TypeOK, NEW c \in Calls, Step(c)
  PROVE  /\ OnServer' \subseteq OnServer \cup {c}
         /\ c \in OnServer' => c \in OnServer \/ Enter
         /\ contended => contended'
<1>1. OnServer' \subseteq OnServer \cup {c}
  BY OthersStay DEF OnServer
<1>2. contended => contended'
  BY DEF Step, Send, AnswerAccepted, AnswerUnauthorized, RefreshCheck, RefreshRevokeAll, RefreshRefused,
     RefreshRotate, RefreshAnswer, Issue, LoginStart, LoginAnswer, LogoutStart, LogoutFind,
     LogoutRevoke, LogoutAnswer, ResetStart, ResetRevokeAll, NoAnswer, RefreshFails, Enter
<1>3. ASSUME c \in OnServer', c \notin OnServer PROVE Enter
  <2>1. calls[c].pc \in {"idle", "sent"} /\ calls'[c].pc \notin {"idle", "sent"}
    BY <1>3 DEF OnServer
  <2>2. AnswerUnauthorized(c) /\ ~GivesUp(c) => Enter
    BY DEF AnswerUnauthorized
  <2>3. LoginStart(c) \/ LogoutStart(c) \/ ResetStart(c) => Enter
    BY DEF LoginStart, LogoutStart, ResetStart
  <2>4. /\ ~(\E op \in Fetch : Send(c, op)) /\ ~AnswerAccepted(c)
        /\ ~NoAnswer(c) /\ ~RefreshFails(c) /\ ~(AnswerUnauthorized(c) /\ GivesUp(c))
    BY <2>1, AfterRequest, AfterSession DEF Becomes, Ends
  <2> QED
    BY <2>1, <2>2, <2>3, <2>4
    DEF Step, At, RefreshCheck, RefreshRevokeAll, RefreshRefused, RefreshRotate, RefreshAnswer,
        Issue, LoginAnswer, LogoutFind, LogoutRevoke, LogoutAnswer, ResetRevokeAll
<1> QED
  BY <1>1, <1>2, <1>3

\* Every step keeps the calls alone on the server, or notes that they are not.
LEMMA AloneStep == TypeOK /\ Alone /\ [Next]_vars => Alone'
<1> SUFFICES ASSUME TypeOK, Alone, [Next]_vars PROVE Alone'
  OBVIOUS
<1>1. ASSUME NEW c \in Calls, Step(c) PROVE Alone'
  <2>1. CASE Enter
    BY <1>1, <2>1, ServerStep DEF Alone, Enter
  <2>2. CASE ~Enter
    BY <1>1, <2>2, ServerStep DEF Alone
  <2> QED
    BY <2>1, <2>2
<1>2. CASE UNCHANGED <<calls, contended>>
  BY <1>2 DEF Alone, OnServer
<1> QED
  BY <1>1, <1>2, Steps DEF vars, AccessExpires, RefreshExpires

\* Every step leaves the pairs in line: none replaces a pair that may be used again.
LEMMA LineageStep == TypeOK /\ Lineage /\ [Next]_vars => Lineage'
<1> SUFFICES ASSUME TypeOK, Lineage, [Next]_vars PROVE Lineage'
  OBVIOUS
<1>t. /\ tokens \in [Pairs -> TokenStates] /\ parent \in [Pairs -> Pairs \cup {None}]
      /\ calls \in [Calls -> AnyCall]
  BY DEF TypeOK, AnyCall
<1>1. ASSUME NEW t \in Pairs, tokens'[t] = "free" PROVE parent'[t] = None
  <2>1. tokens[t] = "free"
    BY <1>1, TokenMoves
  <2>2. ASSUME NEW c \in Calls, NEW u \in Pairs, Issue(c, u) PROVE parent'[t] = parent[t]
    BY <1>1, <1>t, <2>2 DEF Issue
  <2> QED
    BY <2>1, <2>2, ParentMoves DEF Lineage
<1>2. ASSUME NEW t \in Pairs, NEW u \in Pairs, parent'[u] = t PROVE tokens'[t] = "revoked"
  <2>1. ASSUME NEW c \in Calls, Issue(c, u), calls[c].op \in Fetch PROVE tokens[t] = "revoked"
    BY <1>2, <1>t, <2>1 DEF Issue, Lineage, At
  <2>2. ASSUME NEW c \in Calls, Issue(c, u), calls[c].op = "login" PROVE FALSE
    BY <1>2, <1>t, <2>2, NoneAssumption DEF Issue, Lineage, At
  <2>3. CASE parent'[u] = parent[u]
    BY <1>2, <2>3, TokenMoves DEF Lineage
  <2>4. ASSUME NEW c \in Calls, NEW v \in Pairs, Issue(c, v), v # u PROVE parent'[u] = parent[u]
    BY <1>t, <2>4 DEF Issue
  <2>5. ASSUME NEW c \in Calls, Issue(c, u) PROVE calls[c].op \in Fetch \cup {"login"}
    BY <2>5 DEF Issue, At
  <2> QED
    BY <2>1, <2>2, <2>3, <2>4, <2>5, ParentMoves, TokenMoves
<1>3. ASSUME NEW c \in Calls, calls'[c] # calls[c], calls'[c].pc = "issue"
      PROVE  RefreshRotate(c) \/ LoginStart(c)
  BY <1>3, Steps, OthersStay, CameFrom DEF vars, AccessExpires, RefreshExpires
<1>4. ASSUME NEW c \in Calls, At(c, {"login"}, "issue")' PROVE calls'[c].pair = None
  <2>1. CASE calls'[c] = calls[c]
    BY <1>4, <2>1 DEF Lineage, At
  <2>2. CASE LoginStart(c)
    BY <2>2, AfterSession DEF Becomes
  <2>3. ASSUME RefreshRotate(c) PROVE FALSE
    BY <1>4, <2>3, AfterRefresh DEF RefreshRotate, GoesTo, Becomes, At, Fetch
  <2> QED
    BY <1>3, <1>4, <2>1, <2>2, <2>3 DEF At
<1>5. ASSUME NEW c \in Calls, At(c, Fetch, "issue")' PROVE tokens'[calls'[c].pair] = "revoked"
  <2>1. CASE calls'[c] = calls[c]
    <3>1. calls[c].pair \in Pairs /\ tokens[calls[c].pair] = "revoked"
      BY <1>5, <1>t, <2>1, CallPair DEF Lineage, At
    <3> QED
      BY <2>1, <3>1, TokenMoves
  <2>2. CASE RefreshRotate(c)
    <3>1. calls[c].pair \in Pairs
      BY <1>t, <2>2, CallPair DEF RefreshRotate, At
    <3> QED
      BY <1>t, <2>2, <3>1, AfterRefresh DEF RefreshRotate, Rotated, GoesTo, Becomes
  <2>3. ASSUME LoginStart(c) PROVE FALSE
    BY <1>5, <2>3, AfterSession DEF Becomes, At, Fetch
  <2> QED
    BY <1>3, <1>5, <2>1, <2>2, <2>3 DEF At
<1> QED
  BY <1>1, <1>2, <1>4, <1>5 DEF Lineage

\* Every step leaves the pair a call is about to replace without another successor.
LEMMA UnreplacedStep ==
  TypeOK /\ Alone /\ Alone' /\ Lineage /\ Unreplaced /\ [Next]_vars => Unreplaced'
<1> SUFFICES ASSUME TypeOK, Alone, Alone', Lineage, Unreplaced, [Next]_vars, ~contended',
                    NEW c \in Calls, At(c, Fetch, "rotate")' \/ At(c, Fetch, "issue")',
                    NEW u \in Pairs
             PROVE  parent'[u] # calls'[c].pair
  BY DEF Unreplaced, Childless
<1>t. /\ tokens \in [Pairs -> TokenStates] /\ parent \in [Pairs -> Pairs \cup {None}]
      /\ calls \in [Calls -> AnyCall]
  BY DEF TypeOK, AnyCall
<1>1. ~contended /\ c \in OnServer'
  BY Steps, ServerStep DEF vars, AccessExpires, RefreshExpires, OnServer, At
<1>2. ASSUME NEW d \in Calls, NEW t \in Pairs, Issue(d, t) PROVE FALSE
  <2>1. calls'[d].pc = "answer" /\ d \in OnServer'
    BY <1>2, IssueBecomes DEF Becomes, OnServer
  <2> QED
    BY <1>1, <2>1 DEF Alone, At
<1>3. parent' = parent
  BY <1>2, ParentMoves
<1>4. CASE calls'[c] = calls[c]
  BY <1>1, <1>3, <1>4 DEF Unreplaced, Childless, At
<1>5. CASE calls'[c] # calls[c]
  <2>1. RefreshCheck(c) \/ RefreshRotate(c) \/ LoginStart(c)
    BY <1>5, Steps, OthersStay, CameFrom DEF vars, AccessExpires, RefreshExpires, At
  <2>2. CASE RefreshCheck(c)
    <3>1. calls'[c].pc = "rotate" /\ tokens[calls[c].pair] = "live" /\ calls'[c].pair = calls[c].pair
      BY <2>2, AfterRefresh DEF GoesTo, Becomes, At
    <3>2. calls[c].pair \in Pairs
      BY <1>t, <2>2, CallPair DEF RefreshCheck, At
    <3> QED
      BY <1>3, <3>1, <3>2 DEF Lineage
  <2>3. CASE RefreshRotate(c)
    BY <1>1, <1>3, <2>3, AfterRefresh DEF RefreshRotate, Unreplaced, Childless, GoesTo, Becomes, At
  <2>4. ASSUME LoginStart(c) PROVE FALSE
    BY <2>4, AfterSession DEF Becomes, At, Fetch
  <2> QED
    BY <2>1, <2>2, <2>3, <2>4
<1> QED
  BY <1>4, <1>5

\* Every step that gives a pair to a refresh token gives it the first.
LEMMA ReplacedStep ==
  TypeOK /\ Lineage /\ Unreplaced /\ ReplacedAtMostOnce /\ [Next]_vars => ReplacedAtMostOnce'
<1> SUFFICES ASSUME TypeOK, Lineage, Unreplaced, ReplacedAtMostOnce, [Next]_vars, ~contended'
             PROVE  \A t, u \in Pairs : t # u /\ parent'[t] = parent'[u] => parent'[t] = None
  BY DEF ReplacedAtMostOnce
<1>t. parent \in [Pairs -> Pairs \cup {None}]
  BY DEF TypeOK
<1>1. ~contended
  BY Steps, ServerStep DEF vars, AccessExpires, RefreshExpires
<1>2. ASSUME NEW c \in Calls, NEW v \in Pairs, Issue(c, v),
             NEW t \in Pairs, NEW u \in Pairs, t # u, parent'[t] = parent'[u]
      PROVE  parent'[t] = None
  <2>1. parent' = [parent EXCEPT ![v] = calls[c].pair]
    BY <1>2 DEF Issue
  <2>2. \/ calls[c].pair = None
        \/ \A w \in Pairs : parent[w] # calls[c].pair
    BY <1>1, <1>2 DEF Issue, Lineage, Unreplaced, Childless, At
  <2> QED
    BY <1>1, <1>2, <1>t, <2>1, <2>2 DEF ReplacedAtMostOnce
<1>3. CASE parent' = parent
  BY <1>1, <1>3 DEF ReplacedAtMostOnce
<1> QED
  BY <1>2, <1>3, ParentMoves

\* The parts of the inductive invariant hold together.
LEMMA LinesHold == Spec => [](Alone /\ Lineage /\ Unreplaced /\ ReplacedAtMostOnce)
<1>1. Init => Alone /\ Lineage /\ Unreplaced /\ ReplacedAtMostOnce
  BY NoneAssumption
  DEF Init, Alone, OnServer, Lineage, Unreplaced, Childless, ReplacedAtMostOnce, At, Idle
<1>2. TypeOK /\ Alone /\ Lineage /\ Unreplaced /\ ReplacedAtMostOnce /\ [Next]_vars
        => (Alone /\ Lineage /\ Unreplaced /\ ReplacedAtMostOnce)'
  BY AloneStep, LineageStep, UnreplacedStep, ReplacedStep
<1> QED
  BY <1>1, <1>2, TypeCorrect, PTL DEF Spec

\* A refresh token is replaced at most once, whatever expires, fails or is
\* presented again, as long as calls do not overlap on the server.
THEOREM TokensReplacedOnce == Spec => []ReplacedAtMostOnce
  BY LinesHold, PTL

----------------------------------------------------------------------------
(* The pair in the store *)

\* A call whose pair is on its way to the browser, or in use for the retry.
InUse(c) == At(c, Fetch \cup {"login"}, "answer") \/ (At(c, Fetch, "sent") /\ calls[c].retried)

\* Such a pair has been issued and its access token is good.
UsedIsFresh == \A c \in Calls : InUse(c) => calls[c].pair \in Pairs /\ fresh[calls[c].pair]

\* Access tokens expire of pairs not in use, and every pair is issued fresh.
LEMMA UsedStep == TypeOK /\ UsedIsFresh /\ [Next]_vars => UsedIsFresh'
<1> SUFFICES ASSUME TypeOK, UsedIsFresh, [Next]_vars, NEW c \in Calls, InUse(c)'
             PROVE  calls'[c].pair \in Pairs /\ fresh'[calls'[c].pair]
  BY DEF UsedIsFresh
<1>t. fresh \in [Pairs -> BOOLEAN]
  BY DEF TypeOK
<1>1. ASSUME NEW t \in Pairs, fresh[t], ~fresh'[t] PROVE AccessExpires(t)
  <2>1. ASSUME NEW d \in Calls, NEW u \in Pairs, Issue(d, u) PROVE fresh'[t]
    BY <1>1, <1>t, <2>1 DEF Issue
  <2>2. ASSUME NEW u \in Pairs, AccessExpires(u), u # t PROVE fresh'[t]
    BY <1>1, <1>t, <2>2 DEF AccessExpires
  <2> QED
    BY <1>1, <2>1, <2>2, Steps
    DEF Step, vars, Send, AnswerAccepted, AnswerUnauthorized, RefreshCheck, RefreshRevokeAll,
        RefreshRefused, RefreshRotate, RefreshAnswer, LoginStart, LoginAnswer, LogoutStart,
        LogoutFind, LogoutRevoke, LogoutAnswer, ResetStart, ResetRevokeAll, NoAnswer, RefreshFails,
        RefreshExpires
<1>2. CASE InUse(c) /\ calls'[c].pair = calls[c].pair
  <2>1. calls[c].pair \in Pairs /\ fresh[calls[c].pair]
    BY <1>2 DEF UsedIsFresh
  <2>2. ~AccessExpires(calls[c].pair)
    BY <1>2 DEF AccessExpires, Underway, Retrying, InUse
  <2> QED
    BY <1>1, <1>2, <2>1, <2>2
<1>3. CASE calls'[c] = calls[c]
  BY <1>2, <1>3 DEF InUse, At
<1>4. CASE calls'[c] # calls[c]
  <2>1. Step(c)
    BY <1>4, Steps, OthersStay DEF vars, AccessExpires, RefreshExpires
  <2>2. \/ RefreshAnswer(c) \/ (\E op \in Fetch : Send(c, op))
        \/ LogoutFind(c) \/ LogoutRevoke(c) \/ (\E t \in Pairs : Issue(c, t))
    BY <2>1, CameFrom DEF InUse, At
  <2>3. ASSUME RefreshAnswer(c) PROVE InUse(c) /\ calls'[c].pair = calls[c].pair
    BY <2>3, AfterRefresh DEF RefreshAnswer, GoesTo, Becomes, InUse, At
  <2>4. ASSUME NEW op \in Fetch, Send(c, op) PROVE FALSE
    BY <2>4, AfterRequest DEF Becomes, InUse, At
  <2>5. ASSUME LogoutFind(c) \/ LogoutRevoke(c) PROVE FALSE
    BY <2>5, AfterSession DEF LogoutFind, LogoutRevoke, GoesTo, Becomes, InUse, At, Fetch
  <2>6. ASSUME NEW t \in Pairs, Issue(c, t) PROVE calls'[c].pair = t /\ fresh'[t]
    BY <1>t, <2>6, IssueBecomes DEF Issue, Becomes
  <2> QED
    BY <1>2, <2>2, <2>3, <2>4, <2>5, <2>6
<1> QED
  BY <1>3, <1>4

\* A pair in use is good on every reachable state.
LEMMA UsedHolds == Spec => []UsedIsFresh
<1>1. Init => UsedIsFresh
  BY DEF Init, UsedIsFresh, InUse, At, Idle
<1> QED
  BY <1>1, UsedStep, TypeCorrect, PTL DEF Spec

Live == {t \in Pairs : tokens[t] = "live"}

\* What lives while a call is at each of its queries, none before it having
\* been contended or lost: TypeOK does not say which pair the call works on.
LivesDuring(c) ==
  /\ calls[c].pc \in {"check", "rotate", "find", "revoke"} => calls[c].pair = store
  /\ \/ calls[c].pc \in {"check", "revokeAll", "rotate", "find", "revoke"}
     \/ At(c, {"login"}, "issue")
     => Live \subseteq {store}
  /\ At(c, Fetch, "issue") \/ calls[c].pc = "refused" \/ At(c, {"logout"}, "answer") => Live = {}
  /\ At(c, Fetch, "answer") => Live \subseteq {calls[c].pair}
  /\ At(c, {"login"}, "answer") => Live \subseteq {store, calls[c].pair}

\* The inductive invariant of OnlyStoredTokenLives.
StoreInLine ==
  ~contended /\ ~lost =>
    /\ OnServer = {} => Live \subseteq {store}
    /\ \A c \in OnServer : LivesDuring(c)

\* Who is signed in stays so while a call is at each of its queries.
SignedInDuring(c) ==
  /\ calls[c].op \in Fetch \cup {"login"}
  /\ calls[c].pc \in {"check", "rotate"} \/ calls[c].op = "login" => tokens[store] = "live"
  /\ At(c, Fetch, "answer") => tokens[calls[c].pair] = "live"
  /\ calls[c].pc \notin {"revokeAll", "refused"}

\* The inductive invariant of StaysSignedIn.
SignedIn ==
  ~ended /\ ~contended /\ ~lost =>
    /\ store # None
    /\ OnServer = {} => tokens[store] = "live"
    /\ \A c \in OnServer : SignedInDuring(c)

\* Neither the answer to a request nor its sending touches the store: whoever
\* gives up a retry has found the store empty.
LEMMA RequestsSteady ==
  ASSUME TypeOK, UsedIsFresh, NEW c \in Calls,
         (\E op \in Fetch : Send(c, op)) \/ AnswerAccepted(c) \/ AnswerUnauthorized(c)
  PROVE  UNCHANGED <<tokens, store, ended, lost>>
<1>1. ASSUME AnswerUnauthorized(c) PROVE store' = store
  <2>1. ~(At(c, Fetch, "sent") /\ calls[c].retried)
    BY <1>1, NoneAssumption DEF AnswerUnauthorized, Accepted, UsedIsFresh, InUse
  <2> QED
    BY <1>1, <2>1 DEF AnswerUnauthorized, GivesUp, RefreshWith, StoreAfterError
<1> QED
  BY <1>1 DEF Send, AnswerAccepted, AnswerUnauthorized

\* A step of a call that is not on the server, before it or after, or a step of
\* time: what is stored and who is on the server stay, and no token comes to life.
LEMMA StepElsewhere ==
  ASSUME TypeOK, UsedIsFresh, NEW c \in Calls, Step(c), c \notin OnServer, c \notin OnServer', ~lost'
  PROVE  /\ UNCHANGED <<tokens, store, ended, lost, OnServer>>
         /\ \A d \in OnServer : calls'[d] = calls[d]
<1>1. calls[c].pc \in {"idle", "sent"} /\ calls'[c].pc \in {"idle", "sent"}
  BY DEF OnServer
<1>2. (\E op \in Fetch : Send(c, op)) \/ AnswerAccepted(c) \/ AnswerUnauthorized(c)
  <2>1. ~LoginStart(c) /\ ~LogoutStart(c) /\ ~ResetStart(c)
    BY <1>1, AfterSession DEF Becomes
  <2> QED
    BY <1>1, <2>1
    DEF Step, At, RefreshCheck, RefreshRevokeAll, RefreshRefused, RefreshRotate, RefreshAnswer,
        Issue, LoginAnswer, LogoutFind, LogoutRevoke, LogoutAnswer, ResetRevokeAll, NoAnswer, RefreshFails
<1>3. OnServer' = OnServer
  BY <1>1, OthersStay DEF OnServer
<1> QED
  BY <1>2, <1>3, RequestsSteady, OthersStay DEF OnServer

\* What was never contended or lost after a step was not before it.
LEMMA HistoryStays ==
  ASSUME TypeOK, [Next]_vars
  PROVE  (contended => contended') /\ (lost => lost')
<1>1. lost => lost'
  BY Steps
  DEF Step, vars, Send, AnswerAccepted, AnswerUnauthorized, RefreshCheck, RefreshRevokeAll,
      RefreshRefused, RefreshRotate, RefreshAnswer, Issue, LoginStart, LoginAnswer, LogoutStart,
      LogoutFind, LogoutRevoke, LogoutAnswer, ResetStart, ResetRevokeAll, NoAnswer, RefreshFails,
      AccessExpires, RefreshExpires
<1> QED
  BY <1>1, Steps, ServerStep DEF vars, AccessExpires, RefreshExpires

\* A call that comes to the server finds it empty, or the calls contend.
LEMMA Entering ==
  ASSUME TypeOK, NEW c \in Calls, Step(c), c \notin OnServer, c \in OnServer', ~contended'
  PROVE  /\ OnServer = {}
         /\ \/ AnswerUnauthorized(c) /\ ~GivesUp(c)
            \/ LoginStart(c) \/ LogoutStart(c) \/ ResetStart(c)
<1>1. OnServer = {}
  BY ServerStep DEF Enter
<1>2. calls[c].pc \in {"idle", "sent"} /\ calls'[c].pc \notin {"idle", "sent"}
  BY DEF OnServer
<1>3. /\ ~(\E op \in Fetch : Send(c, op)) /\ ~AnswerAccepted(c)
      /\ ~NoAnswer(c) /\ ~RefreshFails(c) /\ ~(AnswerUnauthorized(c) /\ GivesUp(c))
  BY <1>2, AfterRequest, AfterSession DEF Becomes, Ends
<1> QED
  BY <1>1, <1>2, <1>3
  DEF Step, At, RefreshCheck, RefreshRevokeAll, RefreshRefused, RefreshRotate, RefreshAnswer, Issue,
      LoginAnswer, LogoutFind, LogoutRevoke, LogoutAnswer, ResetRevokeAll

\* A call that leaves the server with nothing lost has its answer.
LEMMA Leaving ==
  ASSUME TypeOK, NEW c \in Calls, Step(c), c \in OnServer, c \notin OnServer', ~lost'
  PROVE  \/ RefreshRefused(c) \/ RefreshAnswer(c) \/ LoginAnswer(c) \/ LogoutAnswer(c)
         \/ ResetRevokeAll(c)
<1>1. calls[c].pc \notin {"idle", "sent"} /\ calls'[c].pc \in {"idle", "sent"}
  BY DEF OnServer
<1>2. /\ ~RefreshCheck(c) /\ ~RefreshRevokeAll(c) /\ ~RefreshRotate(c)
      /\ ~(\E t \in Pairs : Issue(c, t)) /\ ~LogoutFind(c) /\ ~LogoutRevoke(c)
  BY <1>1, AfterRefresh, AfterSession, IssueBecomes DEF GoesTo, Becomes
<1>3. calls[c] # Idle
  BY <1>1 DEF Idle
<1> QED
  BY <1>1, <1>2, <1>3
  DEF Step, At, Send, AnswerAccepted, AnswerUnauthorized, LoginStart, LogoutStart, ResetStart,
      NoAnswer, RefreshFails

\* A call on the server goes on there by a query.
LEMMA Querying ==
  ASSUME TypeOK, NEW c \in Calls, Step(c), c \in OnServer, c \in OnServer'
  PROVE  \/ RefreshCheck(c) \/ RefreshRevokeAll(c) \/ RefreshRotate(c)
         \/ (\E t \in Pairs : Issue(c, t)) \/ LogoutFind(c) \/ LogoutRevoke(c)
<1>1. calls[c].pc \notin {"idle", "sent"} /\ calls'[c].pc \notin {"idle", "sent"}
  BY DEF OnServer
<1>2. /\ ~RefreshRefused(c) /\ ~RefreshAnswer(c) /\ ~LoginAnswer(c) /\ ~LogoutAnswer(c)
      /\ ~ResetRevokeAll(c) /\ ~NoAnswer(c) /\ ~RefreshFails(c)
  <2>1. RefreshAnswer(c) => calls'[c].pc = "sent"
    BY AfterRefresh DEF GoesTo, Becomes
  <2> QED
    BY <1>1, <2>1, AfterRefresh, AfterSession DEF Ends
<1>3. calls[c] # Idle
  BY <1>1 DEF Idle
<1> QED
  BY <1>1, <1>2, <1>3
  DEF Step, At, Send, AnswerAccepted, AnswerUnauthorized, LoginStart, LogoutStart, ResetStart

\* Every step keeps what lives in line with the store.
LEMMA StoreStep ==
  TypeOK /\ UsedIsFresh /\ Alone /\ Alone' /\ StoreInLine /\ [Next]_vars => StoreInLine'
<1> SUFFICES ASSUME TypeOK, UsedIsFresh, Alone, Alone', StoreInLine, [Next]_vars,
                    ~contended', ~lost'
             PROVE  /\ OnServer' = {} => Live' \subseteq {store'}
                    /\ \A c \in OnServer' : LivesDuring(c)'
  BY DEF StoreInLine
<1>t. /\ tokens \in [Pairs -> TokenStates] /\ store \in Pairs \cup {None}
      /\ calls \in [Calls -> AnyCall]
  BY DEF TypeOK, AnyCall
<1>h. ~contended /\ ~lost
  BY HistoryStays
<1>0. /\ OnServer = {} => Live \subseteq {store}
      /\ \A c \in OnServer : LivesDuring(c)
  BY <1>h DEF StoreInLine
<1>1. CASE UNCHANGED <<calls, store>> /\ Live' \subseteq Live
  <2>1. OnServer' = OnServer
    BY <1>1 DEF OnServer
  <2>2. ASSUME NEW c \in OnServer PROVE LivesDuring(c)'
    <3>1. calls'[c] = calls[c] /\ store' = store /\ LivesDuring(c)
      BY <1>0, <1>1, <2>2
    <3> QED
      BY <1>1, <3>1 DEF LivesDuring, At
  <2> QED
    BY <1>0, <1>1, <2>1, <2>2
<1>2. ASSUME NEW c \in Calls, Step(c), c \notin OnServer, c \notin OnServer'
      PROVE  /\ OnServer' = {} => Live' \subseteq {store'}
             /\ \A d \in OnServer' : LivesDuring(d)'
  <2>1. /\ tokens' = tokens /\ store' = store /\ OnServer' = OnServer
        /\ \A d \in OnServer : calls'[d] = calls[d]
    BY <1>2, StepElsewhere
  <2>2. Live' = Live
    BY <2>1 DEF Live
  <2>3. ASSUME NEW d \in OnServer PROVE LivesDuring(d)'
    <3>1. calls'[d] = calls[d] /\ LivesDuring(d)
      BY <1>0, <2>1, <2>3
    <3> QED
      BY <2>1, <2>2, <3>1 DEF LivesDuring, At
  <2> QED
    BY <1>0, <2>1, <2>2, <2>3
<1>3. ASSUME NEW c \in Calls, Step(c), c \notin OnServer, c \in OnServer' PROVE LivesDuring(c)'
  <2>1. Live \subseteq {store}
    BY <1>0, <1>3, Entering
  <2>2. tokens' = tokens /\ store' = store
    BY <1>3, Entering, RequestsSteady DEF LoginStart, LogoutStart, ResetStart
  <2>3. Live' \subseteq {store'}
    BY <2>1, <2>2 DEF Live
  <2>4. CASE AnswerUnauthorized(c) /\ ~GivesUp(c)
    <3>1. calls'[c].pc = "check" /\ calls'[c].pair = store
      BY <2>4, AfterRequest DEF Becomes
    <3> QED
      BY <2>2, <2>3, <3>1 DEF LivesDuring, At
  <2>5. CASE LoginStart(c)
    <3>1. calls'[c].pc = "issue" /\ calls'[c].op = "login"
      BY <2>5, AfterSession DEF Becomes
    <3> QED
      BY <2>3, <3>1 DEF LivesDuring, At, Fetch
  <2>6. CASE LogoutStart(c)
    <3>1. calls'[c].pc = "find" /\ calls'[c].pair = store
      BY <2>6, AfterSession DEF Becomes
    <3> QED
      BY <2>2, <2>3, <3>1 DEF LivesDuring, At
  <2>7. CASE ResetStart(c)
    <3>1. calls'[c].pc = "revokeAll"
      BY <2>7, AfterSession DEF Becomes
    <3> QED
      BY <2>3, <3>1 DEF LivesDuring, At
  <2> QED
    BY <1>3, <2>4, <2>5, <2>6, <2>7, Entering
<1>4. ASSUME NEW c \in Calls, Step(c), c \in OnServer, c \in OnServer' PROVE LivesDuring(c)'
  <2>0. LivesDuring(c)
    BY <1>0, <1>4
  <2>1. CASE RefreshCheck(c)
    <3>1. /\ calls'[c].pc \in {"rotate", "revokeAll"} /\ calls'[c].op = calls[c].op
          /\ calls'[c].pair = calls[c].pair
      BY <2>1, AfterRefresh DEF GoesTo, Becomes
    <3>2. store' = store /\ Live' = Live /\ calls[c].pair = store /\ Live \subseteq {store}
      BY <2>0, <2>1 DEF RefreshCheck, LivesDuring, Live, At
    <3> QED
      BY <3>1, <3>2 DEF LivesDuring, At
  <2>2. CASE RefreshRevokeAll(c)
    <3>1. calls'[c].pc = "refused"
      BY <2>2, AfterRefresh DEF GoesTo, Becomes
    <3>2. Live' = {}
      BY <2>2 DEF RefreshRevokeAll, RevokeAll, Live
    <3> QED
      BY <3>1, <3>2 DEF LivesDuring, At
  <2>3. CASE RefreshRotate(c)
    <3>1. calls'[c].pc = "issue" /\ calls'[c].op \in Fetch
      BY <2>3, AfterRefresh DEF RefreshRotate, GoesTo, Becomes, At
    <3>2. calls[c].pair = store /\ Live \subseteq {store}
      BY <2>0, <2>3 DEF RefreshRotate, LivesDuring, At
    <3>3. Live' = {}
      BY <1>t, <2>3, <3>2 DEF RefreshRotate, Rotated, Live
    <3> QED
      BY <3>1, <3>3 DEF LivesDuring, At
  <2>4. ASSUME NEW t \in Pairs, Issue(c, t) PROVE LivesDuring(c)'
    <3>1. calls'[c].pc = "answer" /\ calls'[c].op = calls[c].op /\ calls'[c].pair = t
      BY <2>4, IssueBecomes DEF Becomes
    <3>2. Live' \subseteq Live \cup {t} /\ store' = store
      BY <1>t, <2>4 DEF Issue, Live
    <3>3. CASE calls[c].op \in Fetch
      <4>1. Live = {}
        BY <2>0, <2>4, <3>3 DEF Issue, LivesDuring, At
      <4> QED
        BY <3>1, <3>2, <3>3, <4>1 DEF LivesDuring, At, Fetch
    <3>4. CASE calls[c].op = "login"
      <4>1. Live \subseteq {store}
        BY <2>0, <2>4, <3>4 DEF Issue, LivesDuring, At
      <4> QED
        BY <3>1, <3>2, <3>4, <4>1 DEF LivesDuring, At, Fetch
    <3> QED
      BY <2>4, <3>3, <3>4 DEF Issue, At
  <2>5. CASE LogoutFind(c)
    <3>1. /\ calls'[c].pc = (IF tokens[calls[c].pair] = "revoked" THEN "answer" ELSE "revoke")
          /\ calls'[c].op = "logout" /\ calls'[c].pair = calls[c].pair
      BY <2>5, AfterSession DEF LogoutFind, GoesTo, Becomes, At
    <3>2. store' = store /\ Live' = Live /\ calls[c].pair = store /\ Live \subseteq {store}
      BY <2>0, <2>5 DEF LogoutFind, LivesDuring, Live, At
    <3>3. tokens[store] = "revoked" => Live = {}
      BY <3>2 DEF Live
    <3> QED
      BY <3>1, <3>2, <3>3 DEF LivesDuring, At, Fetch
  <2>6. CASE LogoutRevoke(c)
    <3>1. calls'[c].pc = "answer" /\ calls'[c].op = "logout"
      BY <2>6, AfterSession DEF LogoutRevoke, GoesTo, Becomes, At
    <3>2. calls[c].pair = store /\ Live \subseteq {store}
      BY <2>0, <2>6 DEF LogoutRevoke, LivesDuring, At
    <3>3. Live' = {}
      BY <1>t, <2>6, <3>2 DEF LogoutRevoke, Live
    <3> QED
      BY <3>1, <3>3 DEF LivesDuring, At, Fetch
  <2> QED
    BY <1>4, <2>1, <2>2, <2>3, <2>4, <2>5, <2>6, Querying
<1>5. ASSUME NEW c \in Calls, Step(c), c \in OnServer, c \notin OnServer' PROVE Live' \subseteq {store'}
  <2>0. LivesDuring(c)
    BY <1>0, <1>5
  <2>1. CASE RefreshRefused(c)
    BY <2>0, <2>1 DEF RefreshRefused, LivesDuring, Live, At
  <2>2. CASE RefreshAnswer(c)
    BY <2>0, <2>2 DEF RefreshAnswer, LivesDuring, Live, At
  <2>3. CASE LoginAnswer(c)
    <3>1. store = None /\ store' = calls[c].pair /\ Live' = Live
      BY <2>3 DEF LoginAnswer, Live
    <3>2. Live \subseteq {store, calls[c].pair}
      BY <2>0, <2>3 DEF LoginAnswer, LivesDuring, At
    <3> QED
      BY <3>1, <3>2, NoneAssumption DEF Live
  <2>4. CASE LogoutAnswer(c)
    BY <2>0, <2>4 DEF LogoutAnswer, LivesDuring, Live, At
  <2>5. CASE ResetRevokeAll(c)
    BY <2>5 DEF ResetRevokeAll, RevokeAll, Live
  <2> QED
    BY <1>5, <2>1, <2>2, <2>3, <2>4, <2>5, Leaving
<1>6. ASSUME NEW c \in Calls, Step(c)
      PROVE  /\ OnServer' = {} => Live' \subseteq {store'}
             /\ \A d \in OnServer' : LivesDuring(d)'
  <2>1. c \in OnServer \cup OnServer' => OnServer' \subseteq {c}
    <3>1. c \in OnServer => OnServer \subseteq {c}
      BY <1>h DEF Alone
    <3>2. c \in OnServer' => OnServer' \subseteq {c}
      BY DEF Alone
    <3> QED
      BY <1>6, <3>1, <3>2, ServerStep
  <2> QED
    BY <1>2, <1>3, <1>4, <1>5, <1>6, <2>1
<1>7. ASSUME NEW t \in Pairs, RefreshExpires(t) PROVE Live' \subseteq Live
  BY <1>t, <1>7 DEF RefreshExpires, Live
<1> QED
  BY <1>1, <1>6, <1>7, Steps DEF AccessExpires, RefreshExpires, vars, Live

\* Between calls no refresh token lives but the one in the store, as long as
\* calls do not overlap on the server and no answer is lost: rotation, logout,
\* reset and reuse detection leave no other behind.
THEOREM NoOtherTokenLives == Spec => []OnlyStoredTokenLives
<1>1. Init => StoreInLine
  BY DEF Init, StoreInLine, OnServer, Live, Idle
<1>2. StoreInLine => OnlyStoredTokenLives
  BY DEF StoreInLine, OnlyStoredTokenLives, Live
<1>3. Spec => []Alone
  BY LinesHold, PTL
<1> QED
  BY <1>1, <1>2, <1>3, StoreStep, TypeCorrect, UsedHolds, PTL DEF Spec

\* Every step keeps a user signed in who was, or ends the session.
LEMMA SignedInStep ==
  TypeOK /\ UsedIsFresh /\ Alone /\ Alone' /\ StoreInLine /\ SignedIn /\ [Next]_vars => SignedIn'
<1> SUFFICES ASSUME TypeOK, UsedIsFresh, Alone, Alone', StoreInLine, SignedIn, [Next]_vars,
                    ~ended', ~contended', ~lost'
             PROVE  /\ store' # None
                    /\ OnServer' = {} => tokens'[store'] = "live"
                    /\ \A c \in OnServer' : SignedInDuring(c)'
  BY DEF SignedIn
<1>t. /\ tokens \in [Pairs -> TokenStates] /\ store \in Pairs \cup {None}
      /\ calls \in [Calls -> AnyCall] /\ ended \in BOOLEAN
  BY DEF TypeOK, AnyCall
<1>h. ~contended /\ ~lost
  BY HistoryStays
<1> DEFINE Kept == /\ store # None
                   /\ OnServer = {} => tokens[store] = "live"
                   /\ \A c \in OnServer : SignedInDuring(c) /\ LivesDuring(c)
<1>0. ~ended => Kept
  BY <1>h DEF SignedIn, StoreInLine
<1>a. ASSUME NEW c \in Calls, Step(c)
      PROVE  /\ c \in OnServer => OnServer = {c}
             /\ c \in OnServer' => OnServer' = {c}
             /\ c \in OnServer /\ c \notin OnServer' => OnServer' = {}
  BY <1>a, <1>h, ServerStep DEF Alone
<1>1. CASE UNCHANGED <<tokens, store, calls, ended>>
  BY <1>0, <1>1 DEF OnServer, SignedInDuring, At
<1>2. ASSUME NEW t \in Pairs, RefreshExpires(t)
      PROVE  /\ store' # None
             /\ OnServer' = {} => tokens'[store'] = "live"
             /\ \A c \in OnServer' : SignedInDuring(c)'
  <2>1. ~ended /\ t # store /\ store' = store /\ calls' = calls /\ OnServer' = OnServer
    BY <1>2, <1>t DEF RefreshExpires, OnServer
  <2>2. \A u \in Pairs \ {t} : tokens'[u] = tokens[u]
    BY <1>t, <1>2 DEF RefreshExpires
  <2>3. ASSUME NEW c \in OnServer, At(c, Fetch, "answer") PROVE calls[c].pair \in Pairs \ {t}
    <3>1. calls[c].pair \in Pairs
      BY <2>3 DEF UsedIsFresh, InUse, OnServer, At
    <3> QED
      BY <1>2, <2>3, <3>1 DEF RefreshExpires, Underway, OnServer, At
  <2> QED
    BY <1>0, <1>t, <2>1, <2>2, <2>3 DEF SignedInDuring, At
<1>3. ASSUME NEW c \in Calls, Step(c), c \notin OnServer, c \notin OnServer'
      PROVE  /\ store' # None
             /\ OnServer' = {} => tokens'[store'] = "live"
             /\ \A d \in OnServer' : SignedInDuring(d)'
  <2>1. /\ tokens' = tokens /\ store' = store /\ OnServer' = OnServer /\ ended' = ended
        /\ \A d \in OnServer : calls'[d] = calls[d]
    BY <1>3, StepElsewhere
  <2> QED
    BY <1>0, <2>1 DEF SignedInDuring, At
<1>4. ASSUME NEW c \in Calls, Step(c), c \notin OnServer, c \in OnServer'
      PROVE  store' # None /\ SignedInDuring(c)'
  <2>1. ~LogoutStart(c) /\ ~ResetStart(c)
    BY DEF LogoutStart, ResetStart
  <2>2. tokens' = tokens /\ store' = store /\ ended' = ended /\ OnServer = {}
    BY <1>4, <2>1, Entering, RequestsSteady DEF LoginStart
  <2>3. store # None /\ tokens[store] = "live"
    BY <1>0, <2>2
  <2>4. CASE AnswerUnauthorized(c) /\ ~GivesUp(c)
    <3>1. calls'[c].pc = "check" /\ calls'[c].op \in Fetch
      BY <2>4, AfterRequest DEF AnswerUnauthorized, Becomes, At
    <3> QED
      BY <2>2, <2>3, <3>1 DEF SignedInDuring, At, Fetch
  <2>5. CASE LoginStart(c)
    <3>1. calls'[c].pc = "issue" /\ calls'[c].op = "login"
      BY <2>5, AfterSession DEF Becomes
    <3> QED
      BY <2>2, <2>3, <3>1 DEF SignedInDuring, At, Fetch
  <2> QED
    BY <1>4, <2>1, <2>4, <2>5, Entering
<1>5. ASSUME NEW c \in Calls, Step(c), c \in OnServer, c \in OnServer'
      PROVE  store' # None /\ SignedInDuring(c)'
  <2>0. ~ended /\ store' = store
    BY <1>5, Querying
    DEF RefreshCheck, RefreshRevokeAll, RefreshRotate, Issue, LogoutFind, LogoutRevoke
  <2>1. store # None /\ SignedInDuring(c) /\ LivesDuring(c)
    BY <1>0, <1>5, <2>0
  <2>2. ~LogoutFind(c) /\ ~LogoutRevoke(c) /\ ~RefreshRevokeAll(c)
    BY <2>1 DEF SignedInDuring, LogoutFind, LogoutRevoke, RefreshRevokeAll, At, Fetch
  <2>3. CASE RefreshCheck(c)
    <3>1. tokens' = tokens /\ calls[c].pair = store /\ tokens[store] = "live" /\ calls[c].op \in Fetch
      BY <2>1, <2>3 DEF RefreshCheck, LivesDuring, SignedInDuring, At
    <3>2. calls'[c].pc = "rotate" /\ calls'[c].op \in Fetch
      BY <2>3, <3>1, AfterRefresh DEF GoesTo, Becomes
    <3> QED
      BY <2>0, <2>1, <3>1, <3>2 DEF SignedInDuring, At
  <2>4. CASE RefreshRotate(c)
    <3>1. calls'[c].pc = "issue" /\ calls'[c].op \in Fetch
      BY <2>4, AfterRefresh DEF RefreshRotate, GoesTo, Becomes, At
    <3> QED
      BY <2>0, <2>1, <3>1 DEF SignedInDuring, At, Fetch
  <2>5. ASSUME NEW t \in Pairs, Issue(c, t) PROVE SignedInDuring(c)'
    <3>1. calls'[c].pc = "answer" /\ calls'[c].op = calls[c].op /\ calls'[c].pair = t
      BY <2>5, IssueBecomes DEF Becomes
    <3>2. tokens'[t] = "live" /\ tokens[t] = "free" /\ \A u \in Pairs \ {t} : tokens'[u] = tokens[u]
      BY <1>t, <2>5 DEF Issue
    <3>3. calls[c].op = "login" => tokens'[store] = "live"
      BY <1>t, <2>1, <3>2 DEF SignedInDuring
    <3> QED
      BY <2>0, <2>1, <3>1, <3>2, <3>3 DEF SignedInDuring, At
  <2> QED
    BY <1>5, <2>0, <2>1, <2>2, <2>3, <2>4, <2>5, Querying
<1>6. ASSUME NEW c \in Calls, Step(c), c \in OnServer, c \notin OnServer'
      PROVE  store' # None /\ tokens'[store'] = "live"
  <2>1. ~LogoutAnswer(c) /\ ~ResetRevokeAll(c)
    BY DEF LogoutAnswer, ResetRevokeAll
  <2>2. CASE LoginAnswer(c)
    <3>1. calls[c].pair \in Pairs
      BY <2>2 DEF LoginAnswer, UsedIsFresh, InUse, At
    <3> QED
      BY <2>2, <3>1, NoneAssumption DEF LoginAnswer
  <2>3. CASE RefreshRefused(c) \/ RefreshAnswer(c)
    <3>1. SignedInDuring(c)
      BY <1>0, <1>6, <2>3 DEF RefreshRefused, RefreshAnswer
    <3>2. ~RefreshRefused(c)
      BY <3>1 DEF RefreshRefused, SignedInDuring, At
    <3>3. calls[c].pair \in Pairs /\ tokens[calls[c].pair] = "live"
      BY <2>3, <3>1, <3>2 DEF RefreshAnswer, SignedInDuring, UsedIsFresh, InUse, At
    <3> QED
      BY <2>3, <3>2, <3>3, NoneAssumption DEF RefreshAnswer
  <2> QED
    BY <1>6, <2>1, <2>2, <2>3, Leaving
<1>7. ASSUME NEW c \in Calls, Step(c)
      PROVE  /\ store' # None
             /\ OnServer' = {} => tokens'[store'] = "live"
             /\ \A d \in OnServer' : SignedInDuring(d)'
  BY <1>a, <1>3, <1>4, <1>5, <1>6, <1>7
<1> QED
  BY <1>1, <1>2, <1>7, Steps DEF AccessExpires, vars

\* A user who has not logged out stays signed in while requests are sent in
\* parallel and access tokens expire under them, as long as the refreshes
\* themselves do not overlap and no answer is lost.
THEOREM UserStaysSignedIn == Spec => []StaysSignedIn
<1>1. Init => StoreInLine /\ SignedIn
  BY DEF Init, StoreInLine, SignedIn, OnServer, Live, Idle
<1>2. SignedIn => StaysSignedIn
  BY DEF SignedIn, StaysSignedIn
<1>3. Spec => []Alone
  BY LinesHold, PTL
<1> QED
  BY <1>1, <1>2, <1>3, StoreStep, SignedInStep, TypeCorrect, UsedHolds, PTL DEF Spec
-----------------------------------------------------------------------------
(* The console.  What a request of the client library is: the route it     *)
(* takes, the fields it sends, a page size and the mark of a caught        *)
(* refusal.                                                                *)
IsRequest(r) == r = [to |-> r.to, sends |-> r.sends, size |-> r.size, quiet |-> r.quiet]
Sends(r, route, fields) == IsRequest(r) /\ RouteOf(r) = route /\ r.sends = fields

LEMMA RequestSends ==
  ASSUME NEW controller, NEW method, NEW fields
  PROVE  Sends(Request(controller, method, fields), Routes[controller][method], fields)
  BY DEF Sends, IsRequest, Request, RouteOf

\* Fields added by the page leave the route alone.
LEMMA WithSends ==
  ASSUME NEW r, NEW route, NEW fields, NEW more, Sends(r, route, fields)
  PROVE  Sends(With(r, more), route, fields \cup more)
<1> DEFINE w == [to |-> r.to, sends |-> r.sends \cup more, size |-> r.size, quiet |-> r.quiet]
<1>1. r = [to |-> r.to, sends |-> r.sends, size |-> r.size, quiet |-> r.quiet]
  BY DEF Sends, IsRequest
<1>2. With(r, more) = w
  BY <1>1 DEF With
<1> QED
  BY <1>2 DEF Sends, IsRequest, RouteOf

LEMMA SizedSends ==
  ASSUME NEW r, NEW route, NEW fields, NEW n, Sends(r, route, fields)
  PROVE  Sends(Sized(r, n), route, fields \cup {"pageSize"}) /\ Sized(r, n).size = n
<1> DEFINE w == [to |-> r.to, sends |-> r.sends \cup {"pageSize"}, size |-> r.size,
                 quiet |-> r.quiet]
           s == [to |-> r.to, sends |-> r.sends \cup {"pageSize"}, size |-> n, quiet |-> r.quiet]
<1>1. With(r, {"pageSize"}) = w
  BY DEF Sends, IsRequest, With
<1>2. Sized(r, n) = s
  BY <1>1 DEF Sized
<1> QED
  BY <1>2 DEF Sends, IsRequest, RouteOf

\* Fields and a page size leave the mark alone, and the fields the page size.
LEMMA SameMark ==
  ASSUME NEW r, IsRequest(r), NEW n, NEW more
  PROVE  /\ With(r, more).quiet = r.quiet /\ With(r, more).size = r.size
         /\ Sized(r, n).quiet = r.quiet
<1> DEFINE w == [to |-> r.to, sends |-> r.sends \cup {"pageSize"}, size |-> r.size,
                 quiet |-> r.quiet]
<1>1. With(r, more).quiet = r.quiet /\ With(r, more).size = r.size
  BY DEF IsRequest, With
<1>2. With(r, {"pageSize"}) = w
  BY DEF IsRequest, With
<1>3. Sized(r, n).quiet = r.quiet
  BY <1>2 DEF Sized
<1> QED
  BY <1>1, <1>3

LEMMA QuietIsQuiet ==
  ASSUME NEW requests, \A r \in requests : IsRequest(r)
  PROVE  \A r \in Quiet(requests) : r.quiet = TRUE
<1> SUFFICES ASSUME NEW r \in requests PROVE [r EXCEPT !.quiet = TRUE].quiet = TRUE
  BY DEF Quiet
<1> QED
  BY DEF IsRequest

\* The ranks, as the pages ask for them.
LEMMA RoleRanks ==
  /\ Roles = {"OWNER", "HR_ADMIN", "MANAGER", "EMPLOYEE"}
  /\ \A role \in Roles :
        /\ hasRole(role, "EMPLOYEE")
        /\ hasRole(role, "MANAGER") <=> role # "EMPLOYEE"
        /\ hasRole(role, "HR_ADMIN") <=> role \in {"OWNER", "HR_ADMIN"}
  BY DEF Roles, RANK, hasRole

(* Neither RolesGuard nor the ValidationPipe refuses the request.          *)
Granted(role, r) ==
  canActivate(role, RouteOf(r).rank) /\ Accepts(RouteOf(r).body, r.sends, r.size)

LEMMA GrantedVerdict ==
  ASSUME NEW role, NEW r, Granted(role, r)
  PROVE  Verdict(role, r) = IF RouteOf(r).self /\ ~Linked(role) THEN "NO_EMPLOYEE" ELSE "ok"
  BY DEF Granted, Verdict

(* A request that anybody of at least this role may send.                  *)
Serves(r, least) ==
  /\ IsRequest(r)
  /\ \A role \in Roles : hasRole(role, least) => Granted(role, r) /\ Verdict(role, r) = "ok"

(* The same of a request about the caller's own employee record.           *)
ServesOwn(r) ==
  /\ IsRequest(r)
  /\ \A role \in Roles : Granted(role, r) /\ (Linked(role) => Verdict(role, r) = "ok")

LEMMA ReadServes ==
  ASSUME NEW least, NEW fields, NEW r, Sends(r, Read(least), fields)
  PROVE  Serves(r, least)
<1>1. RouteOf(r).rank = RANK[least] /\ RouteOf(r).self = FALSE /\ RouteOf(r).body = Unchecked
  BY DEF Sends, Read, Route
<1>2. Unchecked.open = TRUE
  BY DEF Unchecked
<1> QED
  BY <1>1, <1>2, GrantedVerdict DEF Serves, Sends, Granted, canActivate, hasRole, Accepts

LEMMA WriteServes ==
  ASSUME NEW least, NEW body, NEW fields, NEW r, Sends(r, Write(least, body), fields),
         Accepts(body, fields, r.size)
  PROVE  Serves(r, least)
<1>1. RouteOf(r).rank = RANK[least] /\ RouteOf(r).self = FALSE /\ RouteOf(r).body = body
  BY DEF Sends, Write, Route
<1> QED
  BY <1>1, GrantedVerdict DEF Serves, Sends, Granted, canActivate, hasRole

LEMMA OwnReadServes ==
  ASSUME NEW fields, NEW r, Sends(r, OwnRead, fields)
  PROVE  ServesOwn(r)
<1>1. RouteOf(r).rank = RANK["EMPLOYEE"] /\ RouteOf(r).body = Unchecked
  BY DEF Sends, OwnRead, Route
<1>2. Unchecked.open = TRUE
  BY DEF Unchecked
<1> QED
  BY <1>1, <1>2, GrantedVerdict, RoleRanks
  DEF ServesOwn, Sends, Granted, canActivate, hasRole, Accepts

LEMMA OwnWriteServes ==
  ASSUME NEW body, NEW fields, NEW r, Sends(r, OwnWrite(body), fields),
         Accepts(body, fields, r.size)
  PROVE  ServesOwn(r)
<1>1. RouteOf(r).rank = RANK["EMPLOYEE"] /\ RouteOf(r).body = body
  BY DEF Sends, OwnWrite, Route
<1> QED
  BY <1>1, GrantedVerdict, RoleRanks DEF ServesOwn, Sends, Granted, canActivate, hasRole

LEMMA BodyAccepts ==
  ASSUME NEW must, NEW may, NEW fields, NEW size,
         must \subseteq fields, fields \subseteq must \cup may,
         "pageSize" \in fields => size \in 1 .. 100
  PROVE  Accepts(Body(must, may), fields, size)
  BY DEF Accepts, Body, MaxPageSize

-----------------------------------------------------------------------------
(* The requests the pages send, by controller: who is served.              *)
LEMMA CompanyServes ==
  /\ \A f \in {"getCompany", "listDepartments", "listDesignations", "listLocations",
               "listBusinessUnits", "listGrades", "listCostCenters"} :
        Serves(companyApi[f], "EMPLOYEE")
  /\ \A f \in {"setLocationGeofence", "createDepartment", "createDesignation",
               "createLocation"} : Serves(companyApi[f], "HR_ADMIN")
<1> DEFINE Readers == {"getCompany", "listDepartments", "listDesignations", "listLocations",
                       "listBusinessUnits", "listGrades", "listCostCenters"}
<1>1. Routes["company"] = CompanyController
  BY DEF Routes
<1>2. \A f \in Readers : CompanyController[f] = Read("EMPLOYEE")
  BY DEF CompanyController
<1>3. \A f \in Readers : companyApi[f] = Request("company", f, {})
  BY DEF companyApi
<1>4. \A f \in Readers : Serves(companyApi[f], "EMPLOYEE")
  BY <1>1, <1>2, <1>3, RequestSends, ReadServes
<1>5. /\ CompanyController["setGeofence"] = Write("HR_ADMIN", CompanyBodies["geofence"])
      /\ CompanyController["createDepartment"] = Write("HR_ADMIN", CompanyBodies["department"])
      /\ CompanyController["createDesignation"] = Write("HR_ADMIN", CompanyBodies["designation"])
      /\ CompanyController["createLocation"] = Write("HR_ADMIN", CompanyBodies["location"])
  BY DEF CompanyController
<1>6. /\ CompanyBodies["geofence"] = Body({}, {"geoLat", "geoLng", "geoRadiusM"})
      /\ CompanyBodies["department"] = Body({"name"}, {})
      /\ CompanyBodies["designation"] = Body({"title"}, {})
      /\ CompanyBodies["location"] = Body({"name"}, {"timezone"})
  BY DEF CompanyBodies
<1>7. /\ companyApi["setLocationGeofence"]
            = Request("company", "setGeofence", {"geoLat", "geoLng", "geoRadiusM"})
      /\ companyApi["createDepartment"] = Request("company", "createDepartment", {"name"})
      /\ companyApi["createDesignation"] = Request("company", "createDesignation", {"title"})
      /\ companyApi["createLocation"]
            = Request("company", "createLocation", {"name", "timezone"})
  BY DEF companyApi
<1>8. /\ Serves(companyApi["setLocationGeofence"], "HR_ADMIN")
      /\ Serves(companyApi["createDepartment"], "HR_ADMIN")
      /\ Serves(companyApi["createDesignation"], "HR_ADMIN")
      /\ Serves(companyApi["createLocation"], "HR_ADMIN")
  BY <1>1, <1>5, <1>6, <1>7, RequestSends, BodyAccepts, WriteServes
<1> QED
  BY <1>4, <1>8

LEMMA EmployeesServes ==
  /\ Serves(With(Sized(employeesApi["listEmployees"], 20), {"page", "search"}), "MANAGER")
  /\ Serves(employeesApi["getEmployee"], "MANAGER")
  /\ Serves(With(employeesApi["inviteEmployee"],
                 (EmployeeDetails \cup {"role"}) \ {"alternatePhone", "holidayCalendarId"}),
            "HR_ADMIN")
  /\ Serves(With(employeesApi["setSalary"], {"components.code", "components.label",
                 "components.type", "components.amount"}), "HR_ADMIN")
  /\ \A n : IsRequest(Sized(employeesApi["listEmployees"], n))
  /\ \A n, fields : IsRequest(With(Sized(employeesApi["listEmployees"], n), fields))
<1> DEFINE asked == {"page", "pageSize"} \cup {"status", "departmentId", "search"}
           listing == Sized(employeesApi["listEmployees"], 20)
           searching == With(listing, {"page", "search"})
           chosen == (EmployeeDetails \cup {"role"}) \ {"alternatePhone", "holidayCalendarId"}
           inviting == With(employeesApi["inviteEmployee"], chosen)
           parts == {"components.code", "components.label", "components.type",
                     "components.amount"}
           paid == {"ctcAnnual", "components", "effectiveFrom"}
           paying == With(employeesApi["setSalary"], parts)
<1>1. Routes["employees"] = EmployeesController
  BY DEF Routes
<1>2. /\ EmployeesController["list"] = Write("MANAGER", EmployeeBodies["query"])
      /\ EmployeesController["get"] = Read("MANAGER")
      /\ EmployeesController["invite"] = Write("HR_ADMIN", EmployeeBodies["invite"])
      /\ EmployeesController["setSalary"] = Write("HR_ADMIN", EmployeeBodies["salary"])
  BY DEF EmployeesController
<1>3. /\ EmployeeBodies["query"] = Body({}, asked)
      /\ EmployeeBodies["invite"] = Body(NewEmployee, EmployeeDetails \cup {"asManager", "role"})
      /\ EmployeeBodies["salary"] = Body(paid, parts)
  BY DEF EmployeeBodies, Pagination
<1>4. /\ employeesApi["listEmployees"] = Request("employees", "list", {})
      /\ employeesApi["getEmployee"] = Request("employees", "get", {})
      /\ employeesApi["inviteEmployee"] = Request("employees", "invite", NewEmployee)
      /\ employeesApi["setSalary"] = Request("employees", "setSalary", paid)
  BY DEF employeesApi
<1>5. Sends(employeesApi["listEmployees"], Write("MANAGER", Body({}, asked)), {})
  BY <1>1, <1>2, <1>3, <1>4, RequestSends
<1>6. /\ Sends(listing, Write("MANAGER", Body({}, asked)), {"pageSize"}) /\ listing.size = 20
      /\ \A n : IsRequest(Sized(employeesApi["listEmployees"], n))
      /\ \A n, fields : IsRequest(With(Sized(employeesApi["listEmployees"], n), fields))
  <2>1. \A n : /\ Sends(Sized(employeesApi["listEmployees"], n),
                        Write("MANAGER", Body({}, asked)), {} \cup {"pageSize"})
               /\ Sized(employeesApi["listEmployees"], n).size = n
    BY <1>5, SizedSends
  <2>2. listing.size = 20
    BY <2>1
  <2>3. {} \cup {"pageSize"} = {"pageSize"}
    OBVIOUS
  <2> QED
    BY <2>1, <2>2, <2>3, WithSends DEF Sends
<1>7. Serves(searching, "MANAGER")
  <2>1. Sends(searching, Write("MANAGER", Body({}, asked)), {"pageSize"} \cup {"page", "search"})
    BY <1>6, WithSends
  <2>2. searching.size = 20
    BY <1>6, SameMark DEF Sends
  <2>3. Accepts(Body({}, asked), {"pageSize"} \cup {"page", "search"}, searching.size)
    BY <2>2, BodyAccepts
  <2> QED
    BY <2>1, <2>3, WriteServes
<1>8. Serves(employeesApi["getEmployee"], "MANAGER")
  BY <1>1, <1>2, <1>4, RequestSends, ReadServes
<1>9. Serves(inviting, "HR_ADMIN")
  <2> DEFINE body == Body(NewEmployee, EmployeeDetails \cup {"asManager", "role"})
  <2>1. Sends(inviting, Write("HR_ADMIN", body), NewEmployee \cup chosen)
    BY <1>1, <1>2, <1>3, <1>4, RequestSends, WithSends
  <2>2. "pageSize" \notin NewEmployee \cup chosen
    BY DEF NewEmployee, EmployeeDetails
  <2>3. Accepts(body, NewEmployee \cup chosen, inviting.size)
    BY <2>2, BodyAccepts
  <2> QED
    BY <2>1, <2>3, WriteServes
<1>10. Serves(paying, "HR_ADMIN")
  <2>1. Sends(paying, Write("HR_ADMIN", Body(paid, parts)), paid \cup parts)
    BY <1>1, <1>2, <1>3, <1>4, RequestSends, WithSends
  <2>2. Accepts(Body(paid, parts), paid \cup parts, paying.size)
    BY BodyAccepts
  <2> QED
    BY <2>1, <2>2, WriteServes
<1> QED
  BY <1>6, <1>7, <1>8, <1>9, <1>10

LEMMA AttendanceServes ==
  /\ \A f \in {"listAttendance", "checkIn", "checkOut", "monthlySummary"} :
        ServesOwn(attendanceApi[f])
  /\ ServesOwn(With(attendanceApi["checkIn"], {"lat", "lng"}))
  /\ \A f \in {"getReport", "decideRegularisation", "listPendingRegularisations"} :
        Serves(attendanceApi[f], "MANAGER")
<1> DEFINE entry == Body({}, {"workMode", "lat", "lng"})
<1>1. Routes["attendance"] = AttendanceController
  BY DEF Routes
<1>2. /\ AttendanceController["list"] = OwnWrite(AttendanceBodies["range"])
      /\ AttendanceController["checkIn"] = OwnWrite(AttendanceBodies["checkIn"])
      /\ AttendanceController["checkOut"] = OwnRead
      /\ AttendanceController["summary"] = OwnRead
      /\ AttendanceController["report"] = Read("MANAGER")
      /\ AttendanceController["pending"] = Read("MANAGER")
      /\ AttendanceController["decide"] = Write("MANAGER", AttendanceBodies["decision"])
  BY DEF AttendanceController
<1>3. /\ AttendanceBodies["range"] = Body({"from", "to"}, {"employeeId"})
      /\ AttendanceBodies["checkIn"] = entry
      /\ AttendanceBodies["decision"] = Body({"decision"}, {})
  BY DEF AttendanceBodies
<1>4. /\ attendanceApi["listAttendance"] = Request("attendance", "list", {"from", "to"})
      /\ attendanceApi["checkIn"] = Request("attendance", "checkIn", {})
      /\ attendanceApi["checkOut"] = Request("attendance", "checkOut", {})
      /\ attendanceApi["monthlySummary"] = Request("attendance", "summary", {"month", "year"})
      /\ attendanceApi["getReport"] = Request("attendance", "report", {"month", "year"})
      /\ attendanceApi["listPendingRegularisations"] = Request("attendance", "pending", {})
      /\ attendanceApi["decideRegularisation"] = Request("attendance", "decide", {"decision"})
  BY DEF attendanceApi
<1>5. ServesOwn(attendanceApi["listAttendance"]) /\ ServesOwn(attendanceApi["checkIn"])
  BY <1>1, <1>2, <1>3, <1>4, RequestSends, BodyAccepts, OwnWriteServes
<1>6. ServesOwn(attendanceApi["checkOut"]) /\ ServesOwn(attendanceApi["monthlySummary"])
  BY <1>1, <1>2, <1>4, RequestSends, OwnReadServes
<1>7. ServesOwn(With(attendanceApi["checkIn"], {"lat", "lng"}))
  <2> DEFINE located == With(attendanceApi["checkIn"], {"lat", "lng"})
  <2>1. Sends(located, OwnWrite(entry), {} \cup {"lat", "lng"})
    BY <1>1, <1>2, <1>3, <1>4, RequestSends, WithSends
  <2>2. Accepts(entry, {} \cup {"lat", "lng"}, located.size)
    BY BodyAccepts
  <2> QED
    BY <2>1, <2>2, OwnWriteServes
<1>8. /\ Serves(attendanceApi["getReport"], "MANAGER")
      /\ Serves(attendanceApi["listPendingRegularisations"], "MANAGER")
  BY <1>1, <1>2, <1>4, RequestSends, ReadServes
<1>9. Serves(attendanceApi["decideRegularisation"], "MANAGER")
  BY <1>1, <1>2, <1>3, <1>4, RequestSends, BodyAccepts, WriteServes
<1> QED
  BY <1>5, <1>6, <1>7, <1>8, <1>9

LEMMA LeavesServes ==
  /\ \A f \in {"cancelLeave", "getBalances"} : ServesOwn(leavesApi[f])
  /\ ServesOwn(With(leavesApi["applyLeave"], {"reason"}))
  /\ \A f \in {"listLeaveTypes", "listLeaveRequests"} : Serves(leavesApi[f], "EMPLOYEE")
  /\ \A f \in {"decideLeave", "listPendingLeaves"} : Serves(leavesApi[f], "MANAGER")
  /\ \A f \in {"createLeaveType", "createLeavePolicy"} : Serves(leavesApi[f], "HR_ADMIN")
<1> DEFINE applied == {"leaveTypeId", "startDate", "endDate"}
           apply == Body(applied, {"reason"})
<1>1. Routes["leaves"] = LeavesController
  BY DEF Routes
<1>2. /\ LeavesController["cancel"] = OwnRead
      /\ LeavesController["apply"] = OwnWrite(LeaveBodies["apply"])
      /\ LeavesController["balances"] = OwnWrite(LeaveBodies["balances"])
      /\ LeavesController["decide"] = Write("MANAGER", LeaveBodies["decision"])
      /\ LeavesController["pending"] = Read("MANAGER")
      /\ LeavesController["listTypes"] = Read("EMPLOYEE")
      /\ LeavesController["listRequests"] = Read("EMPLOYEE")
      /\ LeavesController["createType"] = Write("HR_ADMIN", LeaveBodies["type"])
      /\ LeavesController["createPolicy"] = Write("HR_ADMIN", LeaveBodies["policy"])
  BY DEF LeavesController
<1>3. /\ LeaveBodies["apply"] = apply
      /\ LeaveBodies["decision"] = Body({"decision"}, {"note"})
      /\ LeaveBodies["type"] = Body({"code", "name"}, {"isPaid", "color"})
      /\ LeaveBodies["balances"] = Body({}, {"year", "employeeId"})
      /\ LeaveBodies["policy"] = Body({"leaveTypeId", "annualQuota", "effectiveFrom"},
                                      {"maxCarryForward", "minPerRequest", "maxPerRequest"})
  BY DEF LeaveBodies
<1>4. /\ leavesApi["cancelLeave"] = Request("leaves", "cancel", {})
      /\ leavesApi["applyLeave"] = Request("leaves", "apply", applied)
      /\ leavesApi["getBalances"] = Request("leaves", "balances", {})
      /\ leavesApi["decideLeave"] = Request("leaves", "decide", {"decision"})
      /\ leavesApi["listPendingLeaves"] = Request("leaves", "pending", {})
      /\ leavesApi["listLeaveTypes"] = Request("leaves", "listTypes", {})
      /\ leavesApi["listLeaveRequests"] = Request("leaves", "listRequests", {})
      /\ leavesApi["createLeaveType"] = Request("leaves", "createType", {"code", "name"})
      /\ leavesApi["createLeavePolicy"]
            = Request("leaves", "createPolicy", {"leaveTypeId", "annualQuota", "effectiveFrom"})
  BY DEF leavesApi
<1>5. ServesOwn(leavesApi["cancelLeave"])
  BY <1>1, <1>2, <1>4, RequestSends, OwnReadServes
<1>6. ServesOwn(leavesApi["getBalances"])
  BY <1>1, <1>2, <1>3, <1>4, RequestSends, BodyAccepts, OwnWriteServes
<1>7. ServesOwn(With(leavesApi["applyLeave"], {"reason"}))
  <2> DEFINE explained == With(leavesApi["applyLeave"], {"reason"})
  <2>1. Sends(explained, OwnWrite(apply), applied \cup {"reason"})
    BY <1>1, <1>2, <1>3, <1>4, RequestSends, WithSends
  <2>2. Accepts(apply, applied \cup {"reason"}, explained.size)
    BY BodyAccepts
  <2> QED
    BY <2>1, <2>2, OwnWriteServes
<1>8. /\ Serves(leavesApi["listPendingLeaves"], "MANAGER")
      /\ Serves(leavesApi["listLeaveTypes"], "EMPLOYEE")
      /\ Serves(leavesApi["listLeaveRequests"], "EMPLOYEE")
  BY <1>1, <1>2, <1>4, RequestSends, ReadServes
<1>9. /\ Serves(leavesApi["decideLeave"], "MANAGER")
      /\ Serves(leavesApi["createLeaveType"], "HR_ADMIN")
      /\ Serves(leavesApi["createLeavePolicy"], "HR_ADMIN")
  BY <1>1, <1>2, <1>3, <1>4, RequestSends, BodyAccepts, WriteServes
<1> QED
  BY <1>5, <1>6, <1>7, <1>8, <1>9

LEMMA PayrollServes ==
  /\ ServesOwn(payrollApi["myPayslips"])
  /\ Serves(payrollApi["downloadPayslipPdf"], "EMPLOYEE")
  /\ \A f \in {"listRuns", "createRun", "processRun", "markPaid", "listRunPayslips"} :
        Serves(payrollApi[f], "HR_ADMIN")
<1>1. Routes["payroll"] = PayrollController
  BY DEF Routes
<1>2. /\ PayrollController["myPayslips"] = OwnRead
      /\ PayrollController["downloadPdf"] = Read("EMPLOYEE")
      /\ PayrollController["createRun"] = Write("HR_ADMIN", PayrollBodies["createRun"])
      /\ \A m \in {"listRuns", "process", "markPaid", "runPayslips"} :
            PayrollController[m] = Read("HR_ADMIN")
  BY DEF PayrollController
<1>3. PayrollBodies["createRun"] = Body({"periodMonth", "periodYear"}, {})
  BY DEF PayrollBodies
<1>4. /\ payrollApi["myPayslips"] = Request("payroll", "myPayslips", {})
      /\ payrollApi["downloadPayslipPdf"] = Request("payroll", "downloadPdf", {})
      /\ payrollApi["createRun"] = Request("payroll", "createRun", {"periodMonth", "periodYear"})
      /\ payrollApi["listRuns"] = Request("payroll", "listRuns", {})
      /\ payrollApi["processRun"] = Request("payroll", "process", {})
      /\ payrollApi["markPaid"] = Request("payroll", "markPaid", {})
      /\ payrollApi["listRunPayslips"] = Request("payroll", "runPayslips", {})
  BY DEF payrollApi
<1>5. ServesOwn(payrollApi["myPayslips"])
  BY <1>1, <1>2, <1>4, RequestSends, OwnReadServes
<1>6. /\ Serves(payrollApi["downloadPayslipPdf"], "EMPLOYEE")
      /\ Serves(payrollApi["listRuns"], "HR_ADMIN")
      /\ Serves(payrollApi["processRun"], "HR_ADMIN")
      /\ Serves(payrollApi["markPaid"], "HR_ADMIN")
      /\ Serves(payrollApi["listRunPayslips"], "HR_ADMIN")
  BY <1>1, <1>2, <1>4, RequestSends, ReadServes
<1>7. Serves(payrollApi["createRun"], "HR_ADMIN")
  BY <1>1, <1>2, <1>3, <1>4, RequestSends, BodyAccepts, WriteServes
<1> QED
  BY <1>5, <1>6, <1>7

LEMMA HolidaysServes ==
  /\ \A f \in {"listCalendars", "listHolidays"} : Serves(holidaysApi[f], "EMPLOYEE")
  /\ \A f \in {"createCalendar", "addHoliday"} : Serves(holidaysApi[f], "HR_ADMIN")
<1>1. Routes["holidays"] = HolidaysController
  BY DEF Routes
<1>2. /\ HolidaysController["list"] = Read("EMPLOYEE")
      /\ HolidaysController["listHolidays"] = Read("EMPLOYEE")
      /\ HolidaysController["create"] = Write("HR_ADMIN", HolidayBodies["calendar"])
      /\ HolidaysController["addHoliday"] = Write("HR_ADMIN", HolidayBodies["holiday"])
  BY DEF HolidaysController
<1>3. /\ HolidayBodies["calendar"] = Body({"year", "name"}, {"locationId"})
      /\ HolidayBodies["holiday"] = Body({"date", "name"}, {"isOptional"})
  BY DEF HolidayBodies
<1>4. /\ holidaysApi["listCalendars"] = Request("holidays", "list", {})
      /\ holidaysApi["listHolidays"] = Request("holidays", "listHolidays", {})
      /\ holidaysApi["createCalendar"] = Request("holidays", "create", {"year", "name"})
      /\ holidaysApi["addHoliday"] = Request("holidays", "addHoliday", {"date", "name"})
  BY DEF holidaysApi
<1>5. \A f \in {"listCalendars", "listHolidays"} : Serves(holidaysApi[f], "EMPLOYEE")
  BY <1>1, <1>2, <1>4, RequestSends, ReadServes
<1>6. \A f \in {"createCalendar", "addHoliday"} : Serves(holidaysApi[f], "HR_ADMIN")
  BY <1>1, <1>2, <1>3, <1>4, RequestSends, BodyAccepts, WriteServes
<1> QED
  BY <1>5, <1>6

LEMMA DocumentsServes ==
  /\ \A f \in {"listDocuments", "createUploadIntent", "confirmUpload"} :
        Serves(documentsApi[f], "EMPLOYEE")
  /\ IsRequest(Sized(documentsApi["listDocuments"], 1))
<1> DEFINE asked == {"page", "pageSize"} \cup {"category", "ownerEmployeeId"}
           intent == {"title", "mimeType", "sizeBytes"}
           stored == {"title", "mimeType", "sizeBytes", "objectKey"}
           listing == documentsApi["listDocuments"]
<1>1. Routes["documents"] = DocumentsController
  BY DEF Routes
<1>2. /\ DocumentsController["list"] = Write("EMPLOYEE", DocumentBodies["query"])
      /\ DocumentsController["createUploadIntent"] = Write("EMPLOYEE", DocumentBodies["intent"])
      /\ DocumentsController["confirm"] = Write("EMPLOYEE", DocumentBodies["confirm"])
  BY DEF DocumentsController
<1>3. /\ DocumentBodies["query"] = Body({}, asked)
      /\ DocumentBodies["intent"] = Body(intent, DocumentMeta)
      /\ DocumentBodies["confirm"]
            = Body({"objectKey", "title", "mimeType", "sizeBytes"}, DocumentMeta)
  BY DEF DocumentBodies, Pagination
<1>4. /\ listing = Sized(Request("documents", "list", {"page"}), 20)
      /\ documentsApi["createUploadIntent"] = Request("documents", "createUploadIntent", intent)
      /\ documentsApi["confirmUpload"] = Request("documents", "confirm", stored)
  BY DEF documentsApi
<1>5. /\ Sends(listing, Write("EMPLOYEE", Body({}, asked)), {"page"} \cup {"pageSize"})
      /\ listing.size = 20
  BY <1>1, <1>2, <1>3, <1>4, RequestSends, SizedSends
<1>6. Serves(listing, "EMPLOYEE")
  <2>1. Accepts(Body({}, asked), {"page"} \cup {"pageSize"}, listing.size)
    BY <1>5, BodyAccepts
  <2> QED
    BY <1>5, <2>1, WriteServes
<1>7. /\ Serves(documentsApi["createUploadIntent"], "EMPLOYEE")
      /\ Serves(documentsApi["confirmUpload"], "EMPLOYEE")
  BY <1>1, <1>2, <1>3, <1>4, RequestSends, BodyAccepts, WriteServes
<1>8. IsRequest(Sized(listing, 1))
  BY <1>5, SizedSends DEF Sends
<1> QED
  BY <1>6, <1>7, <1>8

\* What the onboarding form sends: accepted unless it carries rows as the server stores them.
LEMMA OnboardingServes ==
  /\ \A f \in {"getMyOnboarding", "uploadOnboardingDoc"} : ServesOwn(onboardingApi[f])
  /\ ServesOwn(SaveForm({})) /\ ServesOwn(SaveForm(TypedRows))
  /\ Serves(onboardingApi["downloadOnboardingDoc"], "EMPLOYEE")
  /\ \A f \in {"listOnboarding", "getOnboardingFor", "reviewOnboarding"} :
        Serves(onboardingApi[f], "HR_ADMIN")
  /\ SaveForm(StoredRows).sends = PersonalFields \cup DOMAIN SectionFields \cup StoredRows
  /\ \A role \in Roles : canActivate(role, RouteOf(SaveForm(StoredRows)).rank)
<1> DEFINE form == PersonalFields \cup DOMAIN SectionFields
           save == Body({}, form \cup TypedRows)
<1>1. Routes["onboarding"] = OnboardingController
  BY DEF Routes
<1>2. /\ OnboardingController["getMine"] = OwnRead
      /\ OnboardingController["saveMine"] = OwnWrite(OnboardingBodies["save"])
      /\ OnboardingController["uploadMine"] = OwnWrite(OnboardingBodies["upload"])
      /\ OnboardingController["download"] = Read("EMPLOYEE")
      /\ OnboardingController["list"] = Read("HR_ADMIN")
      /\ OnboardingController["getFor"] = Read("HR_ADMIN")
      /\ OnboardingController["review"] = Write("HR_ADMIN", OnboardingBodies["review"])
  BY DEF OnboardingController
<1>3. /\ OnboardingBodies["save"] = save
      /\ OnboardingBodies["upload"] = Body({"docType"}, {})
      /\ OnboardingBodies["review"] = Body({"decision"}, {"note"})
  BY DEF OnboardingBodies, TypedRows
<1>4. /\ onboardingApi["getMyOnboarding"] = Request("onboarding", "getMine", {})
      /\ onboardingApi["saveMyOnboarding"] = Request("onboarding", "saveMine", {})
      /\ onboardingApi["uploadOnboardingDoc"] = Request("onboarding", "uploadMine", {"docType"})
      /\ onboardingApi["downloadOnboardingDoc"] = Request("onboarding", "download", {})
      /\ onboardingApi["listOnboarding"] = Request("onboarding", "list", {})
      /\ onboardingApi["getOnboardingFor"] = Request("onboarding", "getFor", {})
      /\ onboardingApi["reviewOnboarding"] = Request("onboarding", "review", {"decision"})
  BY DEF onboardingApi
<1>5. ServesOwn(onboardingApi["getMyOnboarding"])
  BY <1>1, <1>2, <1>4, RequestSends, OwnReadServes
<1>6. ServesOwn(onboardingApi["uploadOnboardingDoc"])
  BY <1>1, <1>2, <1>3, <1>4, RequestSends, BodyAccepts, OwnWriteServes
<1>7. \A rows : Sends(SaveForm(rows), OwnWrite(save), {} \cup (form \cup rows))
  BY <1>1, <1>2, <1>3, <1>4, RequestSends, WithSends DEF SaveForm
<1>8. ServesOwn(SaveForm({})) /\ ServesOwn(SaveForm(TypedRows))
  <2>1. \A rows : SaveForm(rows).size = 20
    BY <1>4 DEF SaveForm, With, Request
  <2> DEFINE blank == {} \cup (form \cup {})
             typed == {} \cup (form \cup TypedRows)
  <2>2. Accepts(save, blank, SaveForm({}).size) /\ Accepts(save, typed, SaveForm(TypedRows).size)
    BY <2>1, BodyAccepts
  <2> QED
    BY <1>7, <2>2, OwnWriteServes
<1>9. /\ SaveForm(StoredRows).sends = form \cup StoredRows
      /\ \A role \in Roles : canActivate(role, RouteOf(SaveForm(StoredRows)).rank)
  <2>1. /\ SaveForm(StoredRows).sends = {} \cup (form \cup StoredRows)
        /\ RouteOf(SaveForm(StoredRows)) = OwnWrite(save)
    BY <1>7 DEF Sends
  <2>2. OwnWrite(save).rank = RANK["EMPLOYEE"]
    BY DEF OwnWrite, Route
  <2> QED
    BY <2>1, <2>2, RoleRanks DEF canActivate, hasRole
<1>10. /\ Serves(onboardingApi["downloadOnboardingDoc"], "EMPLOYEE")
       /\ Serves(onboardingApi["listOnboarding"], "HR_ADMIN")
       /\ Serves(onboardingApi["getOnboardingFor"], "HR_ADMIN")
  BY <1>1, <1>2, <1>4, RequestSends, ReadServes
<1>11. Serves(onboardingApi["reviewOnboarding"], "HR_ADMIN")
  BY <1>1, <1>2, <1>3, <1>4, RequestSends, BodyAccepts, WriteServes
<1> QED
  BY <1>5, <1>6, <1>8, <1>9, <1>10, <1>11

LEMMA PerformanceServes ==
  /\ ServesOwn(performanceApi["createGoal"])
  /\ Serves(With(performanceApi["updateGoal"], {"progress"}), "EMPLOYEE")
  /\ Serves(With(performanceApi["updateGoal"], {"progress", "status"}), "EMPLOYEE")
  /\ \A f \in {"createCycle", "setCycleStatus"} : Serves(performanceApi[f], "HR_ADMIN")
  /\ Serves(performanceApi["createReview"], "MANAGER")
  /\ Serves(With(performanceApi["submitReview"], {"rating", "comments"}), "MANAGER")
  /\ \A f \in {"listGoals", "listCycles", "listReviews"} : Serves(performanceApi[f], "EMPLOYEE")
<1> DEFINE change == Body({}, {"progress", "status"})
           rated == Body({}, {"rating", "strengths", "improvements", "comments"})
<1>1. Routes["performance"] = PerformanceController
  BY DEF Routes
<1>2. /\ PerformanceController["createGoal"] = OwnWrite(PerformanceBodies["goal"])
      /\ PerformanceController["updateGoal"] = Write("EMPLOYEE", PerformanceBodies["goalUpdate"])
      /\ PerformanceController["createCycle"] = Write("HR_ADMIN", PerformanceBodies["cycle"])
      /\ PerformanceController["setCycleStatus"]
            = Write("HR_ADMIN", PerformanceBodies["cycleStatus"])
      /\ PerformanceController["createReview"] = Write("MANAGER", PerformanceBodies["review"])
      /\ PerformanceController["submitReview"] = Write("MANAGER", PerformanceBodies["submit"])
      /\ \A m \in {"listGoals", "listCycles", "listReviews"} :
            PerformanceController[m] = Read("EMPLOYEE")
  BY DEF PerformanceController
<1>3. /\ PerformanceBodies["goal"]
            = Body({"title"}, {"employeeId", "description", "metric", "target", "dueDate"})
      /\ PerformanceBodies["goalUpdate"] = change
      /\ PerformanceBodies["cycle"] = Body({"name", "periodStart", "periodEnd"}, {})
      /\ PerformanceBodies["cycleStatus"] = Body({"status"}, {})
      /\ PerformanceBodies["review"] = Body({"cycleId", "employeeId"}, {})
      /\ PerformanceBodies["submit"] = rated
  BY DEF PerformanceBodies
<1>4. /\ performanceApi["createGoal"] = Request("performance", "createGoal", {"title"})
      /\ performanceApi["updateGoal"] = Request("performance", "updateGoal", {})
      /\ performanceApi["createCycle"]
            = Request("performance", "createCycle", {"name", "periodStart", "periodEnd"})
      /\ performanceApi["setCycleStatus"] = Request("performance", "setCycleStatus", {"status"})
      /\ performanceApi["createReview"]
            = Request("performance", "createReview", {"cycleId", "employeeId"})
      /\ performanceApi["submitReview"] = Request("performance", "submitReview", {})
      /\ \A f \in {"listGoals", "listCycles", "listReviews"} :
            performanceApi[f] = Request("performance", f, {})
  BY DEF performanceApi
<1>5. ServesOwn(performanceApi["createGoal"])
  BY <1>1, <1>2, <1>3, <1>4, RequestSends, BodyAccepts, OwnWriteServes
<1>6. ASSUME NEW fields, fields \subseteq {"progress", "status"}
      PROVE  Serves(With(performanceApi["updateGoal"], fields), "EMPLOYEE")
  <2> DEFINE updated == With(performanceApi["updateGoal"], fields)
  <2>1. Sends(updated, Write("EMPLOYEE", change), {} \cup fields)
    BY <1>1, <1>2, <1>3, <1>4, RequestSends, WithSends
  <2>2. Accepts(change, {} \cup fields, updated.size)
    BY <1>6, BodyAccepts
  <2> QED
    BY <2>1, <2>2, WriteServes
<1>7. Serves(With(performanceApi["submitReview"], {"rating", "comments"}), "MANAGER")
  <2> DEFINE submitted == With(performanceApi["submitReview"], {"rating", "comments"})
  <2>1. Sends(submitted, Write("MANAGER", rated), {} \cup {"rating", "comments"})
    BY <1>1, <1>2, <1>3, <1>4, RequestSends, WithSends
  <2>2. Accepts(rated, {} \cup {"rating", "comments"}, submitted.size)
    BY BodyAccepts
  <2> QED
    BY <2>1, <2>2, WriteServes
<1>8. /\ Serves(performanceApi["createCycle"], "HR_ADMIN")
      /\ Serves(performanceApi["setCycleStatus"], "HR_ADMIN")
      /\ Serves(performanceApi["createReview"], "MANAGER")
  BY <1>1, <1>2, <1>3, <1>4, RequestSends, BodyAccepts, WriteServes
<1>9. \A f \in {"listGoals", "listCycles", "listReviews"} : Serves(performanceApi[f], "EMPLOYEE")
  BY <1>1, <1>2, <1>4, RequestSends, ReadServes
<1> QED
  BY <1>5, <1>6, <1>7, <1>8, <1>9

LEMMA RecruitmentServes ==
  /\ \A f \in {"listJobs", "getJob", "listCandidates", "setJobStatus", "addCandidate",
               "advanceCandidate", "rejectCandidate", "hireCandidate", "makeOffer"} :
        Serves(recruitmentApi[f], "HR_ADMIN")
  /\ Serves(With(recruitmentApi["createJob"], {"openings"}), "HR_ADMIN")
<1> DEFINE opening == {"description", "departmentId", "locationId", "employmentType", "openings"}
           contact == {"firstName", "lastName", "email"}
<1>1. Routes["recruitment"] = RecruitmentController
  BY DEF Routes
<1>2. /\ \A m \in {"listJobs", "getJob", "listCandidates", "advance", "reject", "hire"} :
            RecruitmentController[m] = Read("HR_ADMIN")
      /\ RecruitmentController["createJob"] = Write("HR_ADMIN", RecruitmentBodies["job"])
      /\ RecruitmentController["setJobStatus"] = Write("HR_ADMIN", RecruitmentBodies["jobStatus"])
      /\ RecruitmentController["addCandidate"] = Write("HR_ADMIN", RecruitmentBodies["candidate"])
      /\ RecruitmentController["offer"] = Write("HR_ADMIN", RecruitmentBodies["offer"])
  BY DEF RecruitmentController
<1>3. /\ RecruitmentBodies["job"] = Body({"title"}, opening)
      /\ RecruitmentBodies["jobStatus"] = Body({"status"}, {})
      /\ RecruitmentBodies["candidate"] = Body(contact, {"phone", "source"})
      /\ RecruitmentBodies["offer"] = Body({"ctcAnnual", "joiningDate"}, {})
  BY DEF RecruitmentBodies
<1>4. /\ recruitmentApi["listJobs"] = Request("recruitment", "listJobs", {})
      /\ recruitmentApi["getJob"] = Request("recruitment", "getJob", {})
      /\ recruitmentApi["listCandidates"] = Request("recruitment", "listCandidates", {"jobId"})
      /\ recruitmentApi["createJob"] = Request("recruitment", "createJob", {"title"})
      /\ recruitmentApi["setJobStatus"] = Request("recruitment", "setJobStatus", {"status"})
      /\ recruitmentApi["addCandidate"] = Request("recruitment", "addCandidate", contact)
      /\ recruitmentApi["advanceCandidate"] = Request("recruitment", "advance", {})
      /\ recruitmentApi["rejectCandidate"] = Request("recruitment", "reject", {})
      /\ recruitmentApi["hireCandidate"] = Request("recruitment", "hire", {})
      /\ recruitmentApi["makeOffer"] = Request("recruitment", "offer", {"ctcAnnual", "joiningDate"})
  BY DEF recruitmentApi
<1>5. \A f \in {"listJobs", "getJob", "listCandidates", "advanceCandidate", "rejectCandidate",
               "hireCandidate"} : Serves(recruitmentApi[f], "HR_ADMIN")
  BY <1>1, <1>2, <1>4, RequestSends, ReadServes
<1>6. \A f \in {"setJobStatus", "addCandidate", "makeOffer"} : Serves(recruitmentApi[f], "HR_ADMIN")
  BY <1>1, <1>2, <1>3, <1>4, RequestSends, BodyAccepts, WriteServes
<1>7. Serves(With(recruitmentApi["createJob"], {"openings"}), "HR_ADMIN")
  <2> DEFINE created == With(recruitmentApi["createJob"], {"openings"})
  <2>1. Sends(created, Write("HR_ADMIN", Body({"title"}, opening)), {"title"} \cup {"openings"})
    BY <1>1, <1>2, <1>3, <1>4, RequestSends, WithSends
  <2>2. Accepts(Body({"title"}, opening), {"title"} \cup {"openings"}, created.size)
    BY BodyAccepts
  <2> QED
    BY <2>1, <2>2, WriteServes
<1> QED
  BY <1>5, <1>6, <1>7

LEMMA ShiftsServes ==
  /\ Serves(With(shiftsApi["createShift"], {"workingDays"}), "HR_ADMIN")
  /\ Serves(shiftsApi["assignShift"], "HR_ADMIN")
  /\ \A f \in {"listShifts", "myShift", "listAssignments"} : IsRequest(shiftsApi[f])
<1> DEFINE shift == {"name", "startTime", "endTime"}
           assigned == {"employeeId", "shiftId", "effectiveFrom"}
<1>1. Routes["shifts"] = ShiftsController
  BY DEF Routes
<1>2. /\ ShiftsController["create"] = Write("HR_ADMIN", ShiftBodies["shift"])
      /\ ShiftsController["assign"] = Write("HR_ADMIN", ShiftBodies["assign"])
  BY DEF ShiftsController
<1>3. /\ ShiftBodies["shift"] = Body(shift, {"workingDays"})
      /\ ShiftBodies["assign"] = Body(assigned, {"effectiveTo"})
  BY DEF ShiftBodies
<1>4. /\ shiftsApi["createShift"] = Request("shifts", "create", shift)
      /\ shiftsApi["assignShift"] = Request("shifts", "assign", assigned)
      /\ shiftsApi["listShifts"] = Request("shifts", "list", {})
      /\ shiftsApi["myShift"] = Request("shifts", "my", {})
      /\ shiftsApi["listAssignments"] = Request("shifts", "listAssignments", {})
  BY DEF shiftsApi
<1>5. Serves(With(shiftsApi["createShift"], {"workingDays"}), "HR_ADMIN")
  <2> DEFINE created == With(shiftsApi["createShift"], {"workingDays"})
  <2>1. Sends(created, Write("HR_ADMIN", Body(shift, {"workingDays"})), shift \cup {"workingDays"})
    BY <1>1, <1>2, <1>3, <1>4, RequestSends, WithSends
  <2>2. Accepts(Body(shift, {"workingDays"}), shift \cup {"workingDays"}, created.size)
    BY BodyAccepts
  <2> QED
    BY <2>1, <2>2, WriteServes
<1>6. Serves(shiftsApi["assignShift"], "HR_ADMIN")
  BY <1>1, <1>2, <1>3, <1>4, RequestSends, BodyAccepts, WriteServes
<1> QED
  BY <1>4, <1>5, <1>6, RequestSends DEF Sends

LEMMA OthersServe ==
  /\ Serves(reportsApi["getOverview"], "HR_ADMIN")
  /\ \A n : IsRequest(Sized(notificationsApi["listNotifications"], n))
<1>1. Routes["reports"] = ReportsController /\ ReportsController["overview"] = Read("HR_ADMIN")
  BY DEF Routes, ReportsController
<1>2. reportsApi["getOverview"] = Request("reports", "overview", {})
  BY DEF reportsApi
<1>3. notificationsApi["listNotifications"] = Sized(Request("notifications", "list", {"page"}), 20)
  BY DEF notificationsApi
<1>4. Sends(notificationsApi["listNotifications"], Routes["notifications"]["list"],
            {"page"} \cup {"pageSize"})
  BY <1>3, RequestSends, SizedSends
<1> QED
  BY <1>1, <1>2, <1>4, RequestSends, SizedSends, ReadServes DEF Sends

-----------------------------------------------------------------------------
(* What a button does, to which rows; the buttons of every page that opens. *)
Button(kind, does, when) == [row |-> kind, does |-> does, when |-> when]
Shape(c) == Button(c.row, c.does, c.when)

Buttons ==
  {Button("day", "checkIn", {"out", "absent"}), Button("day", "checkIn", {"absent"}),
   Button("day", "checkOut", {"in"}),
   Button("regularisation", "approve", {"PENDING"}),
   Button("regularisation", "reject", {"PENDING"}),
   Button("leave", "cancel", {"PENDING", "APPROVED"}),
   Button("leave", "approve", {"PENDING"}), Button("leave", "reject", {"PENDING"}),
   Button("form", "save", Unlocked), Button("form", "submit", Unlocked),
   Button("form", "save", Unlocked \ {"NOT_STARTED"}),
   Button("form", "submit", Unlocked \ {"NOT_STARTED"}),
   Button("form", "approve", Listed), Button("form", "reject", Listed),
   Button("run", "process", {"DRAFT", "PROCESSING", "COMPLETED", "FAILED"}),
   Button("run", "markPaid", {"COMPLETED"}),
   Button("goal", "progress", {"ACTIVE", "COMPLETED"}), Button("goal", "complete", {"ACTIVE"}),
   Button("cycle", "open", {"DRAFT", "CLOSED"}), Button("cycle", "close", {"OPEN"}),
   Button("review", "submit", {"PENDING"}),
   Button("job", "close", {"OPEN", "ON_HOLD"}), Button("job", "open", {"CLOSED"}),
   Button("candidate", "advance", {"APPLIED", "SCREENING", "INTERVIEW"}),
   Button("candidate", "offer", {"SCREENING", "INTERVIEW"}),
   Button("candidate", "hire", {"OFFER"}),
   Button("candidate", "reject", {"APPLIED", "SCREENING", "INTERVIEW", "OFFER"})}

(* The button of My attendance while another month is on display.          *)
OtherMonth == Button("day", "checkIn", {"in", "out", "absent"})

(* What holds of a control a page offers this role: the guard lets it      *)
(* pass, so does the pipe unless it sends stored rows back, it is one of   *)
(* the buttons or moves nothing, and the rows are those it may act on.     *)
SentAs(role, c) ==
  /\ canActivate(role, RouteOf(c.call).rank)
  /\ \/ Accepts(RouteOf(c.call).body, c.call.sends, c.call.size)
     \/ c.row = "form" /\ StoredRows \subseteq c.call.sends
OnRowsOf(role, c) ==
  /\ c.row = "goal" => (c.all = TRUE => hasRole(role, "HR_ADMIN"))
  /\ c.row = "leave" /\ c.does = "cancel" => (c.all = TRUE => hasRole(role, "HR_ADMIN"))
  /\ c.row \in {"leave", "regularisation"} /\ c.does \in {"approve", "reject"} =>
        hasRole(role, "MANAGER")
Sound(role, c, buttons) ==
  /\ SentAs(role, c) /\ OnRowsOf(role, c)
  /\ c.does = "none" => c.row \in {"none", "form"}
  /\ c.does # "none" => c.row # "none" /\ Shape(c) \in buttons

LoadServed(role, page) == \A r \in page.load : r.quiet = TRUE \/ Verdict(role, r) = "ok"
OffersSound(role, page, buttons) == \A c \in page.offers : Sound(role, c, buttons)

LEMMA PageParts ==
  ASSUME NEW load, NEW offers
  PROVE  Page(load, offers).load = load /\ Page(load, offers).offers = offers
  BY DEF Page

LEMMA FormSound ==
  ASSUME NEW role \in Roles, NEW call, NEW buttons, Granted(role, call)
  PROVE  Sound(role, Form(call), buttons)
<1> DEFINE c == Form(call)
<1>1. c.call = call /\ c.row = "none" /\ c.does = "none"
  BY DEF Form
<1> QED
  BY <1>1 DEF Sound, SentAs, OnRowsOf, Granted

\* A button for everybody's rows, for the user's own.
Acts(c, kind, when, does, call) ==
  c.row = kind /\ c.when = when /\ c.does = does /\ c.call = call

LEMMA OnRowActs ==
  ASSUME NEW kind, NEW when, NEW does, NEW call
  PROVE  Acts(OnRow(kind, when, does, call), kind, when, does, call)
  BY DEF Acts, OnRow

LEMMA OnOwnActs ==
  ASSUME NEW kind, NEW when, NEW does, NEW call
  PROVE  /\ Acts(OnOwn(kind, when, does, call), kind, when, does, call)
         /\ OnOwn(kind, when, does, call).all = FALSE
  BY DEF Acts, OnRow, OnOwn

LEMMA ButtonSound ==
  ASSUME NEW role \in Roles, NEW kind, NEW when, NEW does, NEW call, NEW buttons, NEW c,
         Acts(c, kind, when, does, call), Granted(role, call),
         kind # "none", does # "none", Button(kind, does, when) \in buttons, OnRowsOf(role, c)
  PROVE  Sound(role, c, buttons)
<1>1. SentAs(role, c)
  BY DEF SentAs, Granted, Acts
<1>2. Shape(c) = Button(kind, does, when)
  BY DEF Shape, Acts
<1> QED
  BY <1>1, <1>2 DEF Sound, Acts

\* The same where any user of the page may act on the rows.
LEMMA OnRowSound ==
  ASSUME NEW role \in Roles, NEW kind, NEW when, NEW does, NEW call, NEW buttons,
         Granted(role, call), kind \notin {"none", "goal", "leave", "regularisation"},
         does # "none", Button(kind, does, when) \in buttons
  PROVE  /\ Sound(role, OnRow(kind, when, does, call), buttons)
         /\ Sound(role, OnOwn(kind, when, does, call), buttons)
<1>1. ASSUME NEW c, Acts(c, kind, when, does, call) PROVE Sound(role, c, buttons)
  <2>1. OnRowsOf(role, c)
    BY <1>1 DEF OnRowsOf, Acts
  <2> QED
    BY <1>1, <2>1, ButtonSound
<1> QED
  BY <1>1, OnRowActs, OnOwnActs

LEMMA PayrollPageServed ==
  ASSUME NEW role \in Roles
  PROVE  LoadServed(role, PayrollPage(role)) /\ OffersSound(role, PayrollPage(role), Buttons)
<1>1. CASE hasRole(role, "HR_ADMIN")
  <2> DEFINE process == OnRow("run", {"DRAFT", "PROCESSING", "COMPLETED", "FAILED"}, "process",
                              payrollApi.processRun)
             markPaid == OnRow("run", {"COMPLETED"}, "markPaid", payrollApi.markPaid)
             offers == {Form(payrollApi.createRun), Form(payrollApi.listRunPayslips),
                        Form(payrollApi.downloadPayslipPdf), process, markPaid}
  <2>1. PayrollPage(role).load = {payrollApi.listRuns} /\ PayrollPage(role).offers = offers
    BY <1>1, PageParts DEF PayrollPage
  <2>2. \A f \in {"listRuns", "createRun", "processRun", "markPaid", "listRunPayslips",
                  "downloadPayslipPdf"} :
           Granted(role, payrollApi[f]) /\ Verdict(role, payrollApi[f]) = "ok"
    BY <1>1, PayrollServes, RoleRanks DEF Serves
  <2>3. /\ Sound(role, Form(payrollApi.createRun), Buttons)
        /\ Sound(role, Form(payrollApi.listRunPayslips), Buttons)
        /\ Sound(role, Form(payrollApi.downloadPayslipPdf), Buttons)
    BY <2>2, FormSound
  <2>4. Sound(role, process, Buttons)
    BY <2>2, OnRowSound DEF Buttons
  <2>5. Sound(role, markPaid, Buttons)
    BY <2>2, OnRowSound DEF Buttons
  <2> QED
    BY <2>1, <2>2, <2>3, <2>4, <2>5 DEF LoadServed, OffersSound
<1>2. CASE ~hasRole(role, "HR_ADMIN")
  <2>1. /\ PayrollPage(role).load = {payrollApi.myPayslips}
        /\ PayrollPage(role).offers = {Form(payrollApi.downloadPayslipPdf)}
    BY <1>2, PageParts DEF PayrollPage
  <2>2. Linked(role)
    BY <1>2, RoleRanks DEF Linked
  <2>3. /\ Verdict(role, payrollApi.myPayslips) = "ok"
        /\ Granted(role, payrollApi.downloadPayslipPdf)
    BY <2>2, PayrollServes, RoleRanks DEF Serves, ServesOwn
  <2> QED
    BY <2>1, <2>3, FormSound DEF LoadServed, OffersSound
<1> QED
  BY <1>1, <1>2

LEMMA ClockSound ==
  ASSUME NEW role \in Roles, NEW buttons, Buttons \subseteq buttons
  PROVE  \A c \in clock : Sound(role, c, buttons)
<1>1. Granted(role, attendanceApi.checkIn) /\ Granted(role, attendanceApi.checkOut)
  BY AttendanceServes DEF ServesOwn
<1>2. /\ Button("day", "checkIn", {"out", "absent"}) \in buttons
      /\ Button("day", "checkOut", {"in"}) \in buttons
  BY DEF Buttons
<1>3. Sound(role, OnOwn("day", {"out", "absent"}, "checkIn", attendanceApi.checkIn), buttons)
  BY <1>1, <1>2, OnRowSound
<1>4. Sound(role, OnOwn("day", {"in"}, "checkOut", attendanceApi.checkOut), buttons)
  BY <1>1, <1>2, OnRowSound
<1> QED
  BY <1>3, <1>4 DEF clock

LEMMA DashboardPageServed ==
  ASSUME NEW role \in Roles
  PROVE  LoadServed(role, DashboardPage(role)) /\ OffersSound(role, DashboardPage(role), Buttons)
<1> DEFINE asked == {companyApi.getCompany, Sized(employeesApi.listEmployees, 1),
                     With(Sized(employeesApi.listEmployees, 1), {"status"}),
                     leavesApi.listLeaveRequests, Sized(documentsApi.listDocuments, 1),
                     attendanceApi.listAttendance}
           bell == If(hasRole(role, "HR_ADMIN"), {Sized(notificationsApi.listNotifications, 6)})
<1>1. \A r \in asked : IsRequest(r)
  BY CompanyServes, EmployeesServes, LeavesServes, DocumentsServes, AttendanceServes
  DEF Serves, ServesOwn
<1>2. \A r \in bell : IsRequest(r)
  BY OthersServe DEF If
<1>3. DashboardPage(role).load = Quiet(asked \cup bell) /\ DashboardPage(role).offers = clock
  BY PageParts DEF DashboardPage
<1>4. \A r \in Quiet(asked \cup bell) : r.quiet = TRUE
  BY <1>1, <1>2, QuietIsQuiet
<1> QED
  BY <1>3, <1>4, ClockSound DEF LoadServed, OffersSound

LEMMA ProfilePageServed ==
  ASSUME NEW role \in Roles
  PROVE  LoadServed(role, ProfilePage) /\ OffersSound(role, ProfilePage, Buttons)
  BY PageParts DEF ProfilePage, LoadServed, OffersSound

LEMMA EmployeesPageServed ==
  ASSUME NEW role \in Roles
  PROVE  /\ role # "EMPLOYEE" => LoadServed(role, EmployeesPage)
         /\ OffersSound(role, EmployeesPage, Buttons)
<1> DEFINE search == With(Sized(employeesApi.listEmployees, 20), {"page", "search"})
<1>1. EmployeesPage.load = {search} /\ EmployeesPage.offers = {}
  BY PageParts DEF EmployeesPage
<1>2. role # "EMPLOYEE" => Verdict(role, search) = "ok"
  BY EmployeesServes, RoleRanks DEF Serves
<1> QED
  BY <1>1, <1>2 DEF LoadServed, OffersSound

LEMMA EmployeeDetailPageServed ==
  ASSUME NEW role \in Roles
  PROVE  /\ role # "EMPLOYEE" => LoadServed(role, EmployeeDetailPage(role))
         /\ OffersSound(role, EmployeeDetailPage(role), Buttons)
<1> DEFINE pay == With(employeesApi.setSalary, {"components.code", "components.label",
                            "components.type", "components.amount"})
<1>1. /\ EmployeeDetailPage(role).load = {employeesApi.getEmployee}
      /\ EmployeeDetailPage(role).offers = If(hasRole(role, "HR_ADMIN"), {Form(pay)})
  BY PageParts DEF EmployeeDetailPage
<1>2. role # "EMPLOYEE" => Verdict(role, employeesApi.getEmployee) = "ok"
  BY EmployeesServes, RoleRanks DEF Serves
<1>3. hasRole(role, "HR_ADMIN") => Granted(role, pay)
  BY EmployeesServes DEF Serves
<1> QED
  BY <1>1, <1>2, <1>3, FormSound DEF LoadServed, OffersSound, If

LEMMA OrgChartPageServed ==
  ASSUME NEW role \in Roles
  PROVE  OffersSound(role, OrgChartPage, Buttons)
  BY PageParts DEF OrgChartPage, OffersSound

LEMMA InvitePageServed ==
  ASSUME NEW role \in Roles
  PROVE  /\ LoadServed(role, InvitePage)
         /\ hasRole(role, "HR_ADMIN") => OffersSound(role, InvitePage, Buttons)
<1> DEFINE asked == {companyApi.listDepartments, companyApi.listDesignations,
                     companyApi.listLocations, companyApi.listBusinessUnits,
                     companyApi.listGrades, companyApi.listCostCenters,
                     Sized(employeesApi.listEmployees, 200)}
           invite == With(employeesApi.inviteEmployee,
                          (EmployeeDetails \cup {"role"}) \ {"alternatePhone", "holidayCalendarId"})
<1>1. InvitePage.load = Quiet(asked) /\ InvitePage.offers = {Form(invite)}
  BY PageParts DEF InvitePage
<1>2. \A r \in asked : IsRequest(r)
  BY CompanyServes, EmployeesServes DEF Serves
<1>3. hasRole(role, "HR_ADMIN") => Granted(role, invite)
  BY EmployeesServes DEF Serves
<1> QED
  BY <1>1, <1>2, <1>3, QuietIsQuiet, FormSound DEF LoadServed, OffersSound

LEMMA MyOnboardingPageServed ==
  ASSUME NEW role \in Roles
  PROVE  /\ role # "OWNER" => LoadServed(role, MyOnboardingPage)
         /\ OffersSound(role, MyOnboardingPage, Buttons)
<1> DEFINE typed == {OnOwn("form", Unlocked, button, SaveForm(rows)) :
                        button \in {"save", "submit"}, rows \in {{}, TypedRows}}
           stored == {OnOwn("form", Unlocked \ {"NOT_STARTED"}, button, SaveForm(StoredRows)) :
                        button \in {"save", "submit"}}
           files == {OnOwn("form", Unlocked, "none", onboardingApi.uploadOnboardingDoc),
                     Form(onboardingApi.downloadOnboardingDoc)}
<1>1. /\ MyOnboardingPage.load = {onboardingApi.getMyOnboarding}
      /\ MyOnboardingPage.offers = typed \cup stored \cup files
  <2>1. MyOnboardingPage = Page({onboardingApi.getMyOnboarding}, typed \cup stored \cup files)
    BY DEF MyOnboardingPage
  <2> HIDE DEF typed, stored, files
  <2> QED
    BY <2>1, PageParts
<1>2. role # "OWNER" => Verdict(role, onboardingApi.getMyOnboarding) = "ok"
  BY OnboardingServes DEF ServesOwn, Linked
<1>3. ASSUME NEW button \in {"save", "submit"}, NEW rows \in {{}, TypedRows}
      PROVE  Sound(role, OnOwn("form", Unlocked, button, SaveForm(rows)), Buttons)
  <2>1. Granted(role, SaveForm(rows))
    BY OnboardingServes DEF ServesOwn
  <2>2. Button("form", button, Unlocked) \in Buttons
    BY DEF Buttons
  <2> QED
    BY <2>1, <2>2, OnRowSound
<1>4. ASSUME NEW button \in {"save", "submit"}
      PROVE  Sound(role, OnOwn("form", Unlocked \ {"NOT_STARTED"}, button, SaveForm(StoredRows)),
                   Buttons)
  <2> DEFINE c == OnOwn("form", Unlocked \ {"NOT_STARTED"}, button, SaveForm(StoredRows))
  <2>1. Acts(c, "form", Unlocked \ {"NOT_STARTED"}, button, SaveForm(StoredRows))
    BY OnOwnActs
  <2>2. /\ canActivate(role, RouteOf(SaveForm(StoredRows)).rank)
        /\ StoredRows \subseteq SaveForm(StoredRows).sends
    BY OnboardingServes
  <2>3. SentAs(role, c)
    BY <2>1, <2>2 DEF SentAs, Acts
  <2>4. OnRowsOf(role, c)
    BY <2>1 DEF OnRowsOf, Acts
  <2>5. Shape(c) \in Buttons
    BY <2>1 DEF Shape, Acts, Buttons
  <2> QED
    BY <2>1, <2>3, <2>4, <2>5 DEF Sound, Acts
<1>5. Sound(role, OnOwn("form", Unlocked, "none", onboardingApi.uploadOnboardingDoc), Buttons)
  <2> DEFINE c == OnOwn("form", Unlocked, "none", onboardingApi.uploadOnboardingDoc)
  <2>1. Acts(c, "form", Unlocked, "none", onboardingApi.uploadOnboardingDoc)
    BY OnOwnActs
  <2>2. Granted(role, onboardingApi.uploadOnboardingDoc)
    BY OnboardingServes DEF ServesOwn
  <2>3. SentAs(role, c) /\ OnRowsOf(role, c)
    BY <2>1, <2>2 DEF SentAs, OnRowsOf, Acts, Granted
  <2> QED
    BY <2>1, <2>3 DEF Sound, Acts
<1>6. Sound(role, Form(onboardingApi.downloadOnboardingDoc), Buttons)
  BY OnboardingServes, RoleRanks, FormSound DEF Serves
<1> QED
  BY <1>1, <1>2, <1>3, <1>4, <1>5, <1>6 DEF LoadServed, OffersSound

LEMMA OnboardingReviewPageServed ==
  ASSUME NEW role \in Roles, hasRole(role, "HR_ADMIN")
  PROVE  /\ LoadServed(role, OnboardingReviewPage)
         /\ OffersSound(role, OnboardingReviewPage, Buttons)
<1> DEFINE view == OnRow("form", Listed, "none", onboardingApi.getOnboardingFor)
           approve == OnRow("form", Listed, "approve", onboardingApi.reviewOnboarding)
           reject == OnRow("form", Listed, "reject", onboardingApi.reviewOnboarding)
           download == Form(onboardingApi.downloadOnboardingDoc)
<1>1. /\ OnboardingReviewPage.load = {onboardingApi.listOnboarding}
      /\ OnboardingReviewPage.offers = {view, approve, reject, download}
  BY PageParts DEF OnboardingReviewPage
<1>2. /\ Verdict(role, onboardingApi.listOnboarding) = "ok"
      /\ Granted(role, onboardingApi.getOnboardingFor)
      /\ Granted(role, onboardingApi.reviewOnboarding)
      /\ Granted(role, onboardingApi.downloadOnboardingDoc)
  BY OnboardingServes, RoleRanks DEF Serves
<1>3. Button("form", "approve", Listed) \in Buttons /\ Button("form", "reject", Listed) \in Buttons
  BY DEF Buttons
<1>4. Sound(role, approve, Buttons) /\ Sound(role, reject, Buttons)
  BY <1>2, <1>3, OnRowSound
<1>5. Sound(role, view, Buttons)
  <2>1. Acts(view, "form", Listed, "none", onboardingApi.getOnboardingFor)
    BY OnRowActs
  <2>2. SentAs(role, view) /\ OnRowsOf(role, view)
    BY <1>2, <2>1 DEF SentAs, OnRowsOf, Acts, Granted
  <2> QED
    BY <2>1, <2>2 DEF Sound, Acts
<1>6. Sound(role, download, Buttons)
  BY <1>2, FormSound
<1> QED
  BY <1>1, <1>2, <1>4, <1>5, <1>6 DEF LoadServed, OffersSound

LEMMA AttendancePageServed ==
  ASSUME NEW role \in Roles
  PROVE  LoadServed(role, AttendancePage(role)) /\ OffersSound(role, AttendancePage(role), Buttons)
<1>1. CASE hasRole(role, "MANAGER")
  <2> DEFINE pending == {attendanceApi.listPendingRegularisations}
             decision(d) == OnRow("regularisation", {"PENDING"}, d,
                                  attendanceApi.decideRegularisation)
  <2>1. /\ AttendancePage(role).load = {attendanceApi.getReport} \cup Quiet(pending)
        /\ AttendancePage(role).offers = {decision(d) : d \in {"approve", "reject"}}
    BY <1>1, PageParts DEF AttendancePage, TeamAttendance
  <2>2. /\ Verdict(role, attendanceApi.getReport) = "ok"
        /\ Granted(role, attendanceApi.decideRegularisation)
        /\ IsRequest(attendanceApi.listPendingRegularisations)
    BY <1>1, AttendanceServes DEF Serves
  <2>3. \A r \in Quiet(pending) : r.quiet = TRUE
    BY <2>2, QuietIsQuiet
  <2>4. ASSUME NEW d \in {"approve", "reject"} PROVE Sound(role, decision(d), Buttons)
    <3>1. Acts(decision(d), "regularisation", {"PENDING"}, d, attendanceApi.decideRegularisation)
      BY OnRowActs
    <3>2. OnRowsOf(role, decision(d))
      BY <1>1, <3>1 DEF OnRowsOf, Acts
    <3>3. Button("regularisation", d, {"PENDING"}) \in Buttons
      BY DEF Buttons
    <3> QED
      BY <2>2, <3>1, <3>2, <3>3, ButtonSound
  <2> QED
    BY <2>1, <2>2, <2>3, <2>4 DEF LoadServed, OffersSound
<1>2. CASE ~hasRole(role, "MANAGER")
  <2> DEFINE located == OnOwn("day", {"absent"}, "checkIn",
                              With(attendanceApi.checkIn, {"lat", "lng"}))
             checkIn == OnOwn("day", {"absent"}, "checkIn", attendanceApi.checkIn)
             checkOut == OnOwn("day", {"in"}, "checkOut", attendanceApi.checkOut)
  <2>1. /\ AttendancePage(role).load = {attendanceApi.listAttendance}
        /\ AttendancePage(role).offers = {located, checkIn, checkOut}
    BY <1>2, PageParts DEF AttendancePage, MyAttendance
  <2>2. Verdict(role, attendanceApi.listAttendance) = "ok"
    BY <1>2, AttendanceServes, RoleRanks DEF ServesOwn, Linked
  <2>3. /\ Granted(role, attendanceApi.checkIn) /\ Granted(role, attendanceApi.checkOut)
        /\ Granted(role, With(attendanceApi.checkIn, {"lat", "lng"}))
    BY AttendanceServes DEF ServesOwn
  <2>4. /\ Button("day", "checkIn", {"absent"}) \in Buttons
        /\ Button("day", "checkOut", {"in"}) \in Buttons
    BY DEF Buttons
  <2>5. Sound(role, located, Buttons) /\ Sound(role, checkIn, Buttons)
    BY <2>3, <2>4, OnRowSound
  <2>6. Sound(role, checkOut, Buttons)
    BY <2>3, <2>4, OnRowSound
  <2> QED
    BY <2>1, <2>2, <2>5, <2>6 DEF LoadServed, OffersSound
<1> QED
  BY <1>1, <1>2

LEMMA MyAttendancePageServed ==
  ASSUME NEW role \in Roles
  PROVE  /\ LoadServed(role, MyAttendancePage)
         /\ OffersSound(role, MyAttendancePage, Buttons \cup {OtherMonth})
<1> DEFINE asked == {attendanceApi.listAttendance, attendanceApi.monthlySummary}
           late == OnOwn("day", {"in", "out", "absent"}, "checkIn", attendanceApi.checkIn)
           buttons == Buttons \cup {OtherMonth}
<1>1. MyAttendancePage.load = Quiet(asked) /\ MyAttendancePage.offers = clock \cup {late}
  BY PageParts DEF MyAttendancePage
<1>2. \A r \in Quiet(asked) : r.quiet = TRUE
  BY AttendanceServes, QuietIsQuiet DEF ServesOwn
<1>3. \A c \in clock : Sound(role, c, buttons)
  BY ClockSound
<1>4. Sound(role, late, buttons)
  <2>1. Granted(role, attendanceApi.checkIn)
    BY AttendanceServes DEF ServesOwn
  <2>2. Button("day", "checkIn", {"in", "out", "absent"}) \in buttons
    BY DEF OtherMonth
  <2> QED
    BY <2>1, <2>2, OnRowSound
<1> QED
  BY <1>1, <1>2, <1>3, <1>4 DEF LoadServed, OffersSound

LeavesCancel(role) ==
  [OnOwn("leave", {"PENDING", "APPROVED"}, "cancel", leavesApi.cancelLeave)
      EXCEPT !.all = hasRole(role, "HR_ADMIN")]

LEMMA LeavesPageServed ==
  ASSUME NEW role \in Roles
  PROVE  /\ LoadServed(role, LeavesPage(role)) /\ OffersSound(role, LeavesPage(role), Buttons)
         /\ LeavesCancel(role) \in LeavesPage(role).offers
<1> DEFINE own == {leavesApi.listLeaveTypes, leavesApi.getBalances, leavesApi.listLeaveRequests}
           team == If(hasRole(role, "MANAGER"),
                      {leavesApi.listPendingLeaves, Sized(employeesApi.listEmployees, 200)})
           apply == Form(With(leavesApi.applyLeave, {"reason"}))
           cancel == LeavesCancel(role)
           decision(d) == OnRow("leave", {"PENDING"}, d, leavesApi.decideLeave)
           decisions == {decision(d) : d \in {"approve", "reject"}}
           types == {Form(leavesApi.createLeaveType), Form(leavesApi.createLeavePolicy)}
           offers == {apply, cancel} \cup If(hasRole(role, "MANAGER"), decisions)
                                     \cup If(hasRole(role, "HR_ADMIN"), types)
<1>1. LeavesPage(role).load = Quiet(own \cup team) /\ LeavesPage(role).offers = offers
  <2>1. LeavesPage(role) = Page(Quiet(own \cup team), offers)
    BY DEF LeavesPage, LeavesCancel
  <2> HIDE DEF own, team, offers
  <2> QED
    BY <2>1, PageParts
<1>2. \A r \in Quiet(own \cup team) : r.quiet = TRUE
  <2>1. \A r \in own : IsRequest(r)
    BY LeavesServes DEF Serves, ServesOwn
  <2>2. \A r \in team : IsRequest(r)
    BY LeavesServes, EmployeesServes DEF Serves, If
  <2>3. \A r \in own \cup team : IsRequest(r)
    BY <2>1, <2>2
  <2> HIDE DEF own, team
  <2> QED
    BY <2>3, QuietIsQuiet
<1>3. Sound(role, apply, Buttons)
  BY LeavesServes, FormSound DEF ServesOwn
<1>4. Sound(role, cancel, Buttons)
  <2>1. Acts(cancel, "leave", {"PENDING", "APPROVED"}, "cancel", leavesApi.cancelLeave)
    BY DEF LeavesCancel, Acts, OnOwn, OnRow
  <2>2. cancel.all = TRUE => hasRole(role, "HR_ADMIN")
    BY DEF LeavesCancel, OnOwn, OnRow
  <2>3. OnRowsOf(role, cancel)
    BY <2>1, <2>2 DEF OnRowsOf, Acts
  <2>4. Granted(role, leavesApi.cancelLeave)
    BY LeavesServes DEF ServesOwn
  <2>5. Button("leave", "cancel", {"PENDING", "APPROVED"}) \in Buttons
    BY DEF Buttons
  <2> QED
    BY <2>1, <2>3, <2>4, <2>5, ButtonSound
<1>5. ASSUME hasRole(role, "MANAGER"), NEW d \in {"approve", "reject"}
      PROVE  Sound(role, decision(d), Buttons)
  <2>1. Acts(decision(d), "leave", {"PENDING"}, d, leavesApi.decideLeave)
    BY OnRowActs
  <2>2. OnRowsOf(role, decision(d))
    BY <1>5, <2>1 DEF OnRowsOf, Acts
  <2>3. Granted(role, leavesApi.decideLeave)
    BY <1>5, LeavesServes DEF Serves
  <2>4. Button("leave", d, {"PENDING"}) \in Buttons
    BY DEF Buttons
  <2> QED
    BY <2>1, <2>2, <2>3, <2>4, ButtonSound
<1>6. ASSUME hasRole(role, "HR_ADMIN")
      PROVE  \A c \in types : Sound(role, c, Buttons)
  BY <1>6, LeavesServes, FormSound DEF Serves
<1>7. ASSUME NEW c \in LeavesPage(role).offers PROVE Sound(role, c, Buttons)
  <2>1. CASE c \in {apply, cancel}
    BY <2>1, <1>3, <1>4
  <2>2. CASE hasRole(role, "MANAGER") /\ c \in decisions
    BY <2>2, <1>5
  <2>3. CASE hasRole(role, "HR_ADMIN") /\ c \in types
    BY <2>3, <1>6
  <2> QED
    BY <1>1, <1>7, <2>1, <2>2, <2>3 DEF If
<1> QED
  BY <1>1, <1>2, <1>7 DEF LoadServed, OffersSound

LEMMA LeaveOverviewPageServed ==
  ASSUME NEW role \in Roles
  PROVE  LoadServed(role, LeaveOverviewPage) /\ OffersSound(role, LeaveOverviewPage, Buttons)
<1> DEFINE asked == {leavesApi.getBalances, leavesApi.listLeaveTypes,
                     leavesApi.listLeaveRequests}
<1>1. LeaveOverviewPage.load = Quiet(asked) /\ LeaveOverviewPage.offers = {}
  BY PageParts DEF LeaveOverviewPage
<1>2. \A r \in Quiet(asked) : r.quiet = TRUE
  BY LeavesServes, QuietIsQuiet DEF Serves, ServesOwn
<1> QED
  BY <1>1, <1>2 DEF LoadServed, OffersSound

LEMMA ShiftsPageServed ==
  ASSUME NEW role \in Roles
  PROVE  LoadServed(role, ShiftsPage(role)) /\ OffersSound(role, ShiftsPage(role), Buttons)
<1> DEFINE own == {shiftsApi.listShifts, shiftsApi.myShift}
           all == If(hasRole(role, "HR_ADMIN"),
                     {shiftsApi.listAssignments, Sized(employeesApi.listEmployees, 100)})
           forms == {Form(With(shiftsApi.createShift, {"workingDays"})),
                     Form(shiftsApi.assignShift)}
<1>1. /\ ShiftsPage(role).load = Quiet(own \cup all)
      /\ ShiftsPage(role).offers = If(hasRole(role, "HR_ADMIN"), forms)
  BY PageParts DEF ShiftsPage
<1>2. \A r \in Quiet(own \cup all) : r.quiet = TRUE
  <2>1. \A r \in own : IsRequest(r)
    BY ShiftsServes
  <2>2. \A r \in all : IsRequest(r)
    BY ShiftsServes, EmployeesServes DEF If
  <2> QED
    BY <2>1, <2>2, QuietIsQuiet
<1>3. hasRole(role, "HR_ADMIN") => \A c \in forms : Sound(role, c, Buttons)
  BY ShiftsServes, FormSound DEF Serves
<1> QED
  BY <1>1, <1>2, <1>3 DEF LoadServed, OffersSound, If

LEMMA GeofencingPageServed ==
  ASSUME NEW role \in Roles, hasRole(role, "HR_ADMIN")
  PROVE  LoadServed(role, GeofencingPage) /\ OffersSound(role, GeofencingPage, Buttons)
<1>1. /\ GeofencingPage.load = {companyApi.listLocations}
      /\ GeofencingPage.offers = {Form(companyApi.setLocationGeofence)}
  BY PageParts DEF GeofencingPage
<1>2. /\ Verdict(role, companyApi.listLocations) = "ok"
      /\ Granted(role, companyApi.setLocationGeofence)
  BY CompanyServes, RoleRanks DEF Serves
<1> QED
  BY <1>1, <1>2, FormSound DEF LoadServed, OffersSound

LEMMA PerformancePageServed ==
  ASSUME NEW role \in Roles
  PROVE  /\ LoadServed(role, PerformancePage(role))
         /\ OffersSound(role, PerformancePage(role), Buttons)
<1> DEFINE asked == {performanceApi.listGoals, performanceApi.listCycles,
                     performanceApi.listReviews}
           hr == hasRole(role, "HR_ADMIN")
           progress == OnRow("goal", {"ACTIVE", "COMPLETED"}, "progress",
                             With(performanceApi.updateGoal, {"progress"}))
           complete == OnRow("goal", {"ACTIVE"}, "complete",
                             With(performanceApi.updateGoal, {"progress", "status"}))
           open == OnRow("cycle", {"DRAFT", "CLOSED"}, "open", performanceApi.setCycleStatus)
           close == OnRow("cycle", {"OPEN"}, "close", performanceApi.setCycleStatus)
           submit == OnRow("review", {"PENDING"}, "submit",
                           With(performanceApi.submitReview, {"rating", "comments"}))
           goal == Form(performanceApi.createGoal)
           cycle == Form(performanceApi.createCycle)
           review == Form(performanceApi.createReview)
<1>1. /\ PerformancePage(role).load = Quiet(asked)
      /\ PerformancePage(role).offers
            = {goal} \cup GoalRow(role) \cup If(hr, {cycle, open, close, review, submit})
  BY PageParts DEF PerformancePage
<1>2. \A r \in Quiet(asked) : r.quiet = TRUE
  BY PerformanceServes, QuietIsQuiet DEF Serves
<1>3. Sound(role, goal, Buttons)
  BY PerformanceServes, FormSound DEF ServesOwn
<1>4. \A c \in GoalRow(role) : Sound(role, c, Buttons)
  <2> DEFINE theirs(c) == [c EXCEPT !.all = hr]
  <2>1. Acts(theirs(progress), "goal", {"ACTIVE", "COMPLETED"}, "progress",
             With(performanceApi.updateGoal, {"progress"}))
    BY DEF Acts, OnRow
  <2>2. Acts(theirs(complete), "goal", {"ACTIVE"}, "complete",
             With(performanceApi.updateGoal, {"progress", "status"}))
    BY DEF Acts, OnRow
  <2>3. (theirs(progress).all = TRUE => hr) /\ (theirs(complete).all = TRUE => hr)
    BY DEF OnRow
  <2>4. OnRowsOf(role, theirs(progress)) /\ OnRowsOf(role, theirs(complete))
    BY <2>1, <2>2, <2>3 DEF OnRowsOf, Acts
  <2>5. /\ Granted(role, With(performanceApi.updateGoal, {"progress"}))
        /\ Granted(role, With(performanceApi.updateGoal, {"progress", "status"}))
    BY PerformanceServes, RoleRanks DEF Serves
  <2>6. /\ Button("goal", "progress", {"ACTIVE", "COMPLETED"}) \in Buttons
        /\ Button("goal", "complete", {"ACTIVE"}) \in Buttons
    BY DEF Buttons
  <2>7. Sound(role, theirs(progress), Buttons)
    BY <2>1, <2>4, <2>5, <2>6, ButtonSound
  <2>8. Sound(role, theirs(complete), Buttons)
    BY <2>2, <2>4, <2>5, <2>6, ButtonSound
  <2> QED
    BY <2>7, <2>8 DEF GoalRow
<1>5. ASSUME hr PROVE \A c \in {cycle, open, close, review, submit} : Sound(role, c, Buttons)
  <2>1. /\ Granted(role, performanceApi.createCycle)
        /\ Granted(role, performanceApi.setCycleStatus)
        /\ Granted(role, performanceApi.createReview)
        /\ Granted(role, With(performanceApi.submitReview, {"rating", "comments"}))
    BY <1>5, PerformanceServes, RoleRanks DEF Serves
  <2>2. /\ Button("cycle", "open", {"DRAFT", "CLOSED"}) \in Buttons
        /\ Button("cycle", "close", {"OPEN"}) \in Buttons
        /\ Button("review", "submit", {"PENDING"}) \in Buttons
    BY DEF Buttons
  <2>3. Sound(role, cycle, Buttons) /\ Sound(role, review, Buttons)
    BY <2>1, FormSound
  <2>4. Sound(role, open, Buttons)
    BY <2>1, <2>2, OnRowSound
  <2>5. Sound(role, close, Buttons)
    BY <2>1, <2>2, OnRowSound
  <2>6. Sound(role, submit, Buttons)
    BY <2>1, <2>2, OnRowSound
  <2> QED
    BY <2>3, <2>4, <2>5, <2>6
<1> QED
  BY <1>1, <1>2, <1>3, <1>4, <1>5 DEF LoadServed, OffersSound, If

LEMMA RecruitmentPageServed ==
  ASSUME NEW role \in Roles, hasRole(role, "HR_ADMIN")
  PROVE  LoadServed(role, RecruitmentPage) /\ OffersSound(role, RecruitmentPage, Buttons)
<1>1. /\ RecruitmentPage.load = {recruitmentApi.listJobs}
      /\ RecruitmentPage.offers = {Form(With(recruitmentApi.createJob, {"openings"}))}
  BY PageParts DEF RecruitmentPage
<1>2. /\ Verdict(role, recruitmentApi.listJobs) = "ok"
      /\ Granted(role, With(recruitmentApi.createJob, {"openings"}))
  BY RecruitmentServes DEF Serves
<1> QED
  BY <1>1, <1>2, FormSound DEF LoadServed, OffersSound

LEMMA JobDetailPageServed ==
  ASSUME NEW role \in Roles, hasRole(role, "HR_ADMIN")
  PROVE  LoadServed(role, JobDetailPage) /\ OffersSound(role, JobDetailPage, Buttons)
<1> DEFINE add == Form(recruitmentApi.addCandidate)
           close == OnRow("job", {"OPEN", "ON_HOLD"}, "close", recruitmentApi.setJobStatus)
           open == OnRow("job", {"CLOSED"}, "open", recruitmentApi.setJobStatus)
           advance == OnRow("candidate", {"APPLIED", "SCREENING", "INTERVIEW"}, "advance",
                            recruitmentApi.advanceCandidate)
           offer == OnRow("candidate", {"SCREENING", "INTERVIEW"}, "offer",
                          recruitmentApi.makeOffer)
           hire == OnRow("candidate", {"OFFER"}, "hire", recruitmentApi.hireCandidate)
           reject == OnRow("candidate", {"APPLIED", "SCREENING", "INTERVIEW", "OFFER"}, "reject",
                           recruitmentApi.rejectCandidate)
<1>1. /\ JobDetailPage.load = {recruitmentApi.getJob, recruitmentApi.listCandidates}
      /\ JobDetailPage.offers = {add, close, open, advance, offer, hire, reject}
  BY PageParts DEF JobDetailPage
<1>2. \A f \in {"getJob", "listCandidates", "setJobStatus", "addCandidate", "advanceCandidate",
                "rejectCandidate", "hireCandidate", "makeOffer"} :
         Granted(role, recruitmentApi[f]) /\ Verdict(role, recruitmentApi[f]) = "ok"
  BY RecruitmentServes DEF Serves
<1>3. /\ Button("job", "close", {"OPEN", "ON_HOLD"}) \in Buttons
      /\ Button("job", "open", {"CLOSED"}) \in Buttons
      /\ Button("candidate", "advance", {"APPLIED", "SCREENING", "INTERVIEW"}) \in Buttons
      /\ Button("candidate", "offer", {"SCREENING", "INTERVIEW"}) \in Buttons
      /\ Button("candidate", "hire", {"OFFER"}) \in Buttons
      /\ Button("candidate", "reject", {"APPLIED", "SCREENING", "INTERVIEW", "OFFER"}) \in Buttons
  BY DEF Buttons
<1>4. Sound(role, add, Buttons)
  BY <1>2, FormSound
<1>5. Sound(role, close, Buttons)
  BY <1>2, <1>3, OnRowSound
<1>6. Sound(role, open, Buttons)
  BY <1>2, <1>3, OnRowSound
<1>7. Sound(role, advance, Buttons)
  BY <1>2, <1>3, OnRowSound
<1>8. Sound(role, offer, Buttons)
  BY <1>2, <1>3, OnRowSound
<1>9. Sound(role, hire, Buttons)
  BY <1>2, <1>3, OnRowSound
<1>10. Sound(role, reject, Buttons)
  BY <1>2, <1>3, OnRowSound
<1> QED
  BY <1>1, <1>2, <1>4, <1>5, <1>6, <1>7, <1>8, <1>9, <1>10 DEF LoadServed, OffersSound

LEMMA HolidaysPageServed ==
  ASSUME NEW role \in Roles
  PROVE  LoadServed(role, HolidaysPage(role)) /\ OffersSound(role, HolidaysPage(role), Buttons)
<1> DEFINE forms == {Form(holidaysApi.createCalendar), Form(holidaysApi.addHoliday)}
<1>1. /\ HolidaysPage(role).load = {holidaysApi.listCalendars, holidaysApi.listHolidays}
      /\ HolidaysPage(role).offers = If(hasRole(role, "HR_ADMIN"), forms)
  BY PageParts DEF HolidaysPage
<1>2. \A f \in {"listCalendars", "listHolidays"} : Verdict(role, holidaysApi[f]) = "ok"
  BY HolidaysServes, RoleRanks DEF Serves
<1>3. hasRole(role, "HR_ADMIN") => \A c \in forms : Sound(role, c, Buttons)
  BY HolidaysServes, FormSound DEF Serves
<1> QED
  BY <1>1, <1>2, <1>3 DEF LoadServed, OffersSound, If

LEMMA CompanyPageServed ==
  ASSUME NEW role \in Roles
  PROVE  LoadServed(role, CompanyPage(role)) /\ OffersSound(role, CompanyPage(role), Buttons)
<1> DEFINE asked == {companyApi.getCompany, companyApi.listDepartments,
                     companyApi.listDesignations, companyApi.listLocations}
           forms == {Form(companyApi.createDepartment), Form(companyApi.createDesignation),
                     Form(companyApi.createLocation)}
<1>1. /\ CompanyPage(role).load = asked
      /\ CompanyPage(role).offers = If(hasRole(role, "HR_ADMIN"), forms)
  BY PageParts DEF CompanyPage
<1>2. \A r \in asked : Verdict(role, r) = "ok"
  BY CompanyServes, RoleRanks DEF Serves
<1>3. hasRole(role, "HR_ADMIN") => \A c \in forms : Sound(role, c, Buttons)
  BY CompanyServes, FormSound DEF Serves
<1> QED
  BY <1>1, <1>2, <1>3 DEF LoadServed, OffersSound, If

LEMMA DocumentsPageServed ==
  ASSUME NEW role \in Roles
  PROVE  LoadServed(role, DocumentsPage) /\ OffersSound(role, DocumentsPage, Buttons)
<1>1. /\ DocumentsPage.load = {documentsApi.listDocuments}
      /\ DocumentsPage.offers
            = {Form(documentsApi.createUploadIntent), Form(documentsApi.confirmUpload)}
  BY PageParts DEF DocumentsPage
<1>2. \A f \in {"listDocuments", "createUploadIntent", "confirmUpload"} :
         Granted(role, documentsApi[f]) /\ Verdict(role, documentsApi[f]) = "ok"
  BY DocumentsServes, RoleRanks DEF Serves
<1> QED
  BY <1>1, <1>2, FormSound DEF LoadServed, OffersSound

LEMMA ReportsPageServed ==
  ASSUME NEW role \in Roles, hasRole(role, "HR_ADMIN")
  PROVE  LoadServed(role, ReportsPage) /\ OffersSound(role, ReportsPage, Buttons)
<1>1. ReportsPage.load = {reportsApi.getOverview} /\ ReportsPage.offers = {}
  BY PageParts DEF ReportsPage
<1>2. Verdict(role, reportsApi.getOverview) = "ok"
  BY OthersServe DEF Serves
<1> QED
  BY <1>1, <1>2 DEF LoadServed, OffersSound

-----------------------------------------------------------------------------
(* Where the links and the sidebar take a user of this role.               *)
Permitted(role, page) ==
  /\ page \in NavItems \cup HrOnlyItems \cup {"employeeDetail", "jobDetail"}
  /\ page \in HrOnlyItems \cup {"jobDetail"} => hasRole(role, "HR_ADMIN")
  /\ page = "employeeDetail" => role # "EMPLOYEE"

(* The pages that do not open, as PagesOpen names them.                    *)
Shut(role, page) ==
  \/ page \in {"orgChart", "offboarding"}
  \/ page = "employees" /\ role = "EMPLOYEE"
  \/ page = "myOnboarding" /\ role = "OWNER"

ButtonsOf(page) == IF page = "myAttendance" THEN Buttons \cup {OtherMonth} ELSE Buttons

LEMMA SitePages ==
  ASSUME NEW role \in Roles
  PROVE  Site[role] = PagesOf(role)
  BY RoleRanks DEF Site

LEMMA PageNames ==
  ASSUME NEW role
  PROVE  DOMAIN PagesOf(role) = NavItems \cup HrOnlyItems \cup {"employeeDetail", "jobDetail"}
  BY DEF PagesOf, NavItems, HrOnlyItems

\* Each page a user can get to answers her, but for the known ones, and offers sound controls.
LEMMA PageServed ==
  ASSUME NEW role \in Roles, NEW page, Permitted(role, page)
  PROVE  /\ ~Shut(role, page) => LoadServed(role, PagesOf(role)[page])
         /\ page # "offboarding" => OffersSound(role, PagesOf(role)[page], ButtonsOf(page))
<1> DEFINE P == PagesOf(role)
<1>1. /\ P["dashboard"] = DashboardPage(role) /\ P["profile"] = ProfilePage
      /\ P["employees"] = EmployeesPage /\ P["employeeDetail"] = EmployeeDetailPage(role)
      /\ P["orgChart"] = OrgChartPage /\ P["invite"] = InvitePage
      /\ P["myOnboarding"] = MyOnboardingPage /\ P["onboarding"] = OnboardingReviewPage
      /\ P["attendance"] = AttendancePage(role) /\ P["myAttendance"] = MyAttendancePage
      /\ P["leaves"] = LeavesPage(role) /\ P["leaveOverview"] = LeaveOverviewPage
      /\ P["shifts"] = ShiftsPage(role) /\ P["geofencing"] = GeofencingPage
      /\ P["performance"] = PerformancePage(role) /\ P["payroll"] = PayrollPage(role)
      /\ P["recruitment"] = RecruitmentPage /\ P["jobDetail"] = JobDetailPage
      /\ P["holidays"] = HolidaysPage(role) /\ P["company"] = CompanyPage(role)
      /\ P["documents"] = DocumentsPage /\ P["reports"] = ReportsPage
  BY DEF PagesOf
<1>2. CASE page \in {"dashboard", "profile", "attendance", "leaves", "leaveOverview", "shifts",
                     "performance", "payroll", "holidays", "documents", "company"}
  <2>1. LoadServed(role, P[page]) /\ OffersSound(role, P[page], Buttons)
    BY <1>1, <1>2, DashboardPageServed, ProfilePageServed, AttendancePageServed,
       LeavesPageServed, LeaveOverviewPageServed, ShiftsPageServed, PerformancePageServed,
       PayrollPageServed, HolidaysPageServed, DocumentsPageServed, CompanyPageServed
  <2> QED
    BY <1>2, <2>1 DEF ButtonsOf
<1>3. CASE page \in {"onboarding", "geofencing", "recruitment", "reports", "jobDetail", "invite"}
  <2>1. hasRole(role, "HR_ADMIN")
    BY <1>3 DEF Permitted, HrOnlyItems
  <2>2. LoadServed(role, P[page]) /\ OffersSound(role, P[page], Buttons)
    BY <1>1, <1>3, <2>1, OnboardingReviewPageServed, GeofencingPageServed,
       RecruitmentPageServed, ReportsPageServed, JobDetailPageServed, InvitePageServed
  <2> QED
    BY <1>3, <2>2 DEF ButtonsOf
<1>4. CASE page \in {"employees", "employeeDetail", "orgChart", "myOnboarding"}
  BY <1>1, <1>4, EmployeesPageServed, EmployeeDetailPageServed, OrgChartPageServed,
     MyOnboardingPageServed DEF Shut, Permitted, ButtonsOf
<1>5. CASE page = "myAttendance"
  BY <1>1, <1>5, MyAttendancePageServed DEF ButtonsOf
<1>6. CASE page = "offboarding"
  BY <1>6 DEF Shut
<1> QED
  BY <1>2, <1>3, <1>4, <1>5, <1>6 DEF Permitted, NavItems, HrOnlyItems

LEMMA PermittedOpens ==
  ASSUME NEW role \in Roles, NEW page, Permitted(role, page), ~Shut(role, page)
  PROVE  page \in Opened[role]
<1>1. page \in DOMAIN Site[role]
  BY SitePages, PageNames DEF Permitted
<1>2. LoadServed(role, Site[role][page])
  BY PageServed, SitePages
<1> QED
  BY <1>1, <1>2 DEF Opened, Loads, LoadServed

\* The list of exits stays shut: its list of employees is longer than a page may be.
LEMMA OffboardingStaysShut ==
  ASSUME NEW role \in Roles
  PROVE  "offboarding" \notin Opened[role]
<1> DEFINE long == With(Sized(employeesApi.listEmployees, 200), {"status"})
           asked == {"page", "pageSize"} \cup {"status", "departmentId", "search"}
<1>1. Site[role]["offboarding"] = OffboardingPage
  <2>1. PagesOf(role)["offboarding"] = OffboardingPage
    BY DEF PagesOf
  <2> QED
    BY <2>1, SitePages
<1>2. long \in OffboardingPage.load
  BY PageParts DEF OffboardingPage
<1>3. /\ Routes["employees"] = EmployeesController
      /\ EmployeesController["list"] = Write("MANAGER", EmployeeBodies["query"])
      /\ EmployeeBodies["query"] = Body({}, asked)
      /\ employeesApi["listEmployees"] = Request("employees", "list", {})
  BY DEF Routes, EmployeesController, EmployeeBodies, Pagination, employeesApi
<1>4. Sends(employeesApi.listEmployees, Write("MANAGER", Body({}, asked)), {})
  BY <1>3, RequestSends
<1>5. /\ Sends(Sized(employeesApi.listEmployees, 200), Write("MANAGER", Body({}, asked)),
               {} \cup {"pageSize"})
      /\ Sized(employeesApi.listEmployees, 200).size = 200
  BY <1>4, SizedSends
<1>6. /\ Sends(long, Write("MANAGER", Body({}, asked)), ({} \cup {"pageSize"}) \cup {"status"})
      /\ long.size = 200 /\ long.quiet = FALSE
  <2>1. employeesApi.listEmployees.quiet = FALSE
    BY <1>3 DEF Request
  <2>2. Sized(employeesApi.listEmployees, 200).quiet = FALSE
    BY <1>4, <2>1, SameMark DEF Sends
  <2>3. long.size = 200 /\ long.quiet = FALSE
    BY <1>5, <2>2, SameMark DEF Sends
  <2> QED
    BY <1>5, <2>3, WithSends
<1>7. RouteOf(long).body = Body({}, asked)
  BY <1>6 DEF Sends, Write, Route
<1>8. ~Accepts(Body({}, asked), long.sends, long.size)
  <2>1. Body({}, asked).open = FALSE
    BY DEF Body
  <2>2. "pageSize" \in long.sends /\ long.size \notin 1 .. MaxPageSize
    BY <1>6 DEF Sends, MaxPageSize
  <2> QED
    BY <2>1, <2>2 DEF Accepts
<1>9. Verdict(role, long) # "ok"
  BY <1>7, <1>8 DEF Verdict
<1> QED
  BY <1>1, <1>2, <1>6, <1>9 DEF Opened, Loads

\* Nor does the directory open for an employee.
LEMMA DirectoryStaysShut == "employees" \notin Opened["EMPLOYEE"]
<1> DEFINE search == With(Sized(employeesApi.listEmployees, 20), {"page", "search"})
<1>1. "EMPLOYEE" \in Roles /\ Site["EMPLOYEE"]["employees"] = EmployeesPage
  BY SitePages, RoleRanks DEF PagesOf
<1>2. search \in EmployeesPage.load
  BY PageParts DEF EmployeesPage
<1>3. /\ Routes["employees"] = EmployeesController
      /\ EmployeesController["list"] = Write("MANAGER", EmployeeBodies["query"])
      /\ employeesApi["listEmployees"] = Request("employees", "list", {})
  BY DEF Routes, EmployeesController, employeesApi
<1>4. Sends(employeesApi.listEmployees, Write("MANAGER", EmployeeBodies["query"]), {})
  BY <1>3, RequestSends
<1>5. Sends(Sized(employeesApi.listEmployees, 20), Write("MANAGER", EmployeeBodies["query"]),
            {} \cup {"pageSize"})
  BY <1>4, SizedSends
<1>6. /\ Sends(search, Write("MANAGER", EmployeeBodies["query"]),
               ({} \cup {"pageSize"}) \cup {"page", "search"})
      /\ search.quiet = FALSE
  <2>1. employeesApi.listEmployees.quiet = FALSE
    BY <1>3 DEF Request
  <2>2. Sized(employeesApi.listEmployees, 20).quiet = FALSE
    BY <1>4, <2>1, SameMark DEF Sends
  <2>3. search.quiet = FALSE
    BY <1>5, <2>2, SameMark DEF Sends
  <2> QED
    BY <1>5, <2>3, WithSends
<1>7. RouteOf(search).rank = RANK["MANAGER"]
  BY <1>6 DEF Sends, Write, Route
<1>8. Verdict("EMPLOYEE", search) # "ok"
  BY <1>1, <1>7, RoleRanks DEF Verdict, canActivate, hasRole
<1> QED
  BY <1>1, <1>2, <1>6, <1>8 DEF Opened, Loads

-----------------------------------------------------------------------------
(* What the requests do to the rows.                                       *)
LEMMA RowMoves ==
  /\ /\ Moves["day"]["checkIn"] = From({"absent", "out"}, "in")
     /\ Moves["day"]["checkOut"] = From({"in"}, "out")
  /\ /\ Moves["leave"]["approve"] = From({"PENDING"}, "APPROVED")
     /\ Moves["leave"]["reject"] = From({"PENDING"}, "REJECTED")
     /\ Moves["leave"]["cancel"] = From({"PENDING", "APPROVED"}, "CANCELLED")
  /\ /\ Moves["regularisation"]["approve"] = From({"PENDING"}, "APPROVED")
     /\ Moves["regularisation"]["reject"] = From({"PENDING"}, "REJECTED")
  /\ /\ Moves["run"]["process"] = Unpaid \X {"COMPLETED", "FAILED"}
     /\ Moves["run"]["markPaid"] = From({"COMPLETED"}, "PAID")
  /\ /\ Moves["form"]["save"] = From(FormStates, "IN_PROGRESS")
     /\ Moves["form"]["submit"] = From(FormStates, "SUBMITTED")
     /\ Moves["form"]["approve"] = From(FormStates, "APPROVED")
     /\ Moves["form"]["reject"] = From(FormStates, "REJECTED")
  /\ /\ Moves["goal"]["progress"] = {<<s, s>> : s \in GoalStates}
     /\ Moves["goal"]["complete"] = From(GoalStates, "COMPLETED")
  /\ /\ Moves["cycle"]["open"] = From(CycleStates, "OPEN")
     /\ Moves["cycle"]["close"] = From(CycleStates, "CLOSED")
  /\ Moves["review"]["submit"] = From({"PENDING", "SUBMITTED"}, "SUBMITTED")
  /\ /\ Moves["job"]["open"] = From(JobStates, "OPEN")
     /\ Moves["job"]["close"] = From(JobStates, "CLOSED")
  /\ /\ Moves["candidate"]["advance"]
           = {<<"APPLIED", "SCREENING">>, <<"SCREENING", "INTERVIEW">>,
              <<"INTERVIEW", "OFFER">>, <<"OFFER", "HIRED">>}
     /\ Moves["candidate"]["offer"] = From(Pipeline, "OFFER")
     /\ Moves["candidate"]["reject"] = From(Pipeline, "REJECTED")
     /\ Moves["candidate"]["hire"] = From(Pipeline \cup {"REJECTED"}, "HIRED")
<1>1. /\ Moves["day"] = DayMoves /\ Moves["leave"] = LeaveMoves
      /\ Moves["regularisation"] = RegularisationMoves /\ Moves["run"] = RunMoves
      /\ Moves["form"] = FormMoves /\ Moves["goal"] = GoalMoves /\ Moves["cycle"] = CycleMoves
      /\ Moves["review"] = ReviewMoves /\ Moves["job"] = JobMoves
      /\ Moves["candidate"] = CandidateMoves
  BY DEF Moves
<1> QED
  BY <1>1 DEF DayMoves, LeaveMoves, RegularisationMoves, RunMoves, FormMoves, GoalMoves,
              CycleMoves, ReviewMoves, JobMoves, CandidateMoves

LEMMA MovesTimes ==
  ASSUME NEW kind, NEW does, NEW states, NEW targets, NEW s, does # "none",
         Moves[kind][does] = states \X targets
  PROVE  /\ s \in states => Outcomes(kind, does, s) = targets
         /\ s \notin states => Outcomes(kind, does, s) = {}
<1>1. Outcomes(kind, does, s) = {m[2] : m \in {m \in states \X targets : m[1] = s}}
  BY DEF Outcomes
<1>2. ASSUME NEW t \in Outcomes(kind, does, s) PROVE s \in states /\ t \in targets
  <2>1. PICK m \in states \X targets : m[1] = s /\ t = m[2]
    BY <1>1, <1>2
  <2> QED
    BY <2>1
<1>3. ASSUME s \in states, NEW t \in targets PROVE t \in Outcomes(kind, does, s)
  <2> DEFINE m == <<s, t>>
  <2>1. m \in states \X targets /\ m[1] = s /\ m[2] = t
    BY <1>3
  <2> QED
    BY <1>1, <2>1
<1> QED
  BY <1>2, <1>3

LEMMA MovesFrom ==
  ASSUME NEW kind, NEW does, NEW states, NEW to, NEW s, does # "none",
         Moves[kind][does] = From(states, to)
  PROVE  /\ s \in states => Outcomes(kind, does, s) = {to}
         /\ s \notin states => Outcomes(kind, does, s) = {}
<1>1. Moves[kind][does] = states \X {to}
  BY DEF From
<1> QED
  BY <1>1, MovesTimes

LEMMA MovesOnce ==
  ASSUME NEW kind, NEW does, NEW s, NEW t, does # "none",
         <<s, t>> \in Moves[kind][does], \A m \in Moves[kind][does] : m[1] = s => m[2] = t
  PROVE  Outcomes(kind, does, s) = {t}
<1>1. Outcomes(kind, does, s) = {m[2] : m \in {m \in Moves[kind][does] : m[1] = s}}
  BY DEF Outcomes
<1>2. <<s, t>>[1] = s /\ <<s, t>>[2] = t
  OBVIOUS
<1>3. t \in Outcomes(kind, does, s)
  BY <1>1, <1>2
<1> QED
  BY <1>1, <1>3

LEMMA MovesNever ==
  ASSUME NEW kind, NEW does, NEW s, does # "none", \A m \in Moves[kind][does] : m[1] # s
  PROVE  Outcomes(kind, does, s) = {}
  BY DEF Outcomes

\* The outcomes of every request that moves a row.
LEMMA DayOutcomes ==
  ASSUME NEW s
  PROVE  /\ s \in {"absent", "out"} => Outcomes("day", "checkIn", s) = {"in"}
         /\ s \notin {"absent", "out"} => Outcomes("day", "checkIn", s) = {}
         /\ s = "in" => Outcomes("day", "checkOut", s) = {"out"}
         /\ s # "in" => Outcomes("day", "checkOut", s) = {}
<1>1. /\ Moves["day"]["checkIn"] = From({"absent", "out"}, "in")
      /\ Moves["day"]["checkOut"] = From({"in"}, "out")
  BY RowMoves
<1> QED
  BY <1>1, MovesFrom

LEMMA LeaveOutcomes ==
  ASSUME NEW s
  PROVE  /\ s = "PENDING" => /\ Outcomes("leave", "approve", s) = {"APPROVED"}
                             /\ Outcomes("leave", "reject", s) = {"REJECTED"}
         /\ s # "PENDING" => /\ Outcomes("leave", "approve", s) = {}
                             /\ Outcomes("leave", "reject", s) = {}
         /\ s \in {"PENDING", "APPROVED"} => Outcomes("leave", "cancel", s) = {"CANCELLED"}
         /\ s \notin {"PENDING", "APPROVED"} => Outcomes("leave", "cancel", s) = {}
<1>1. /\ Moves["leave"]["approve"] = From({"PENDING"}, "APPROVED")
      /\ Moves["leave"]["reject"] = From({"PENDING"}, "REJECTED")
      /\ Moves["leave"]["cancel"] = From({"PENDING", "APPROVED"}, "CANCELLED")
  BY RowMoves
<1> QED
  BY <1>1, MovesFrom

LEMMA RegularisationOutcomes ==
  ASSUME NEW s
  PROVE  /\ s = "PENDING" => /\ Outcomes("regularisation", "approve", s) = {"APPROVED"}
                             /\ Outcomes("regularisation", "reject", s) = {"REJECTED"}
         /\ s # "PENDING" => /\ Outcomes("regularisation", "approve", s) = {}
                             /\ Outcomes("regularisation", "reject", s) = {}
<1>1. /\ Moves["regularisation"]["approve"] = From({"PENDING"}, "APPROVED")
      /\ Moves["regularisation"]["reject"] = From({"PENDING"}, "REJECTED")
  BY RowMoves
<1> QED
  BY <1>1, MovesFrom

LEMMA RunOutcomes ==
  ASSUME NEW s
  PROVE  /\ s \in Unpaid => Outcomes("run", "process", s) = {"COMPLETED", "FAILED"}
         /\ s \notin Unpaid => Outcomes("run", "process", s) = {}
         /\ s = "COMPLETED" => Outcomes("run", "markPaid", s) = {"PAID"}
         /\ s # "COMPLETED" => Outcomes("run", "markPaid", s) = {}
<1>1. /\ Moves["run"]["process"] = Unpaid \X {"COMPLETED", "FAILED"}
      /\ Moves["run"]["markPaid"] = From({"COMPLETED"}, "PAID")
  BY RowMoves
<1>2. /\ s \in Unpaid => Outcomes("run", "process", s) = {"COMPLETED", "FAILED"}
      /\ s \notin Unpaid => Outcomes("run", "process", s) = {}
  BY <1>1, MovesTimes
<1> QED
  BY <1>1, <1>2, MovesFrom

LEMMA FormOutcomes ==
  ASSUME NEW s
  PROVE  /\ s \in FormStates => /\ Outcomes("form", "save", s) = {"IN_PROGRESS"}
                                /\ Outcomes("form", "submit", s) = {"SUBMITTED"}
                                /\ Outcomes("form", "approve", s) = {"APPROVED"}
                                /\ Outcomes("form", "reject", s) = {"REJECTED"}
         /\ s \notin FormStates => \A does \in {"save", "submit", "approve", "reject"} :
                                      Outcomes("form", does, s) = {}
<1>1. /\ Moves["form"]["save"] = From(FormStates, "IN_PROGRESS")
      /\ Moves["form"]["submit"] = From(FormStates, "SUBMITTED")
      /\ Moves["form"]["approve"] = From(FormStates, "APPROVED")
      /\ Moves["form"]["reject"] = From(FormStates, "REJECTED")
  BY RowMoves
<1> QED
  BY <1>1, MovesFrom

LEMMA GoalOutcomes ==
  ASSUME NEW s
  PROVE  /\ s \in GoalStates => /\ Outcomes("goal", "progress", s) = {s}
                                /\ Outcomes("goal", "complete", s) = {"COMPLETED"}
         /\ s \notin GoalStates => /\ Outcomes("goal", "progress", s) = {}
                                   /\ Outcomes("goal", "complete", s) = {}
<1>1. /\ Moves["goal"]["progress"] = {<<g, g>> : g \in GoalStates}
      /\ Moves["goal"]["complete"] = From(GoalStates, "COMPLETED")
  BY RowMoves
<1>2. /\ s \in GoalStates => Outcomes("goal", "progress", s) = {s}
      /\ s \notin GoalStates => Outcomes("goal", "progress", s) = {}
  <2>1. /\ \A m \in Moves["goal"]["progress"] : m[1] \in GoalStates /\ m[2] = m[1]
        /\ \A g \in GoalStates : <<g, g>> \in Moves["goal"]["progress"]
    BY <1>1
  <2>2. ASSUME s \in GoalStates PROVE Outcomes("goal", "progress", s) = {s}
    <3>1. <<s, s>> \in Moves["goal"]["progress"]
      BY <2>1, <2>2
    <3>2. \A m \in Moves["goal"]["progress"] : m[1] = s => m[2] = s
      BY <2>1
    <3> QED
      BY <3>1, <3>2, MovesOnce
  <2>3. ASSUME s \notin GoalStates PROVE Outcomes("goal", "progress", s) = {}
    <3>1. \A m \in Moves["goal"]["progress"] : m[1] # s
      BY <2>1, <2>3
    <3> QED
      BY <3>1, MovesNever
  <2> QED
    BY <2>2, <2>3
<1> QED
  BY <1>1, <1>2, MovesFrom

LEMMA CycleOutcomes ==
  ASSUME NEW s
  PROVE  /\ s \in CycleStates => /\ Outcomes("cycle", "open", s) = {"OPEN"}
                                 /\ Outcomes("cycle", "close", s) = {"CLOSED"}
         /\ s \notin CycleStates => /\ Outcomes("cycle", "open", s) = {}
                                    /\ Outcomes("cycle", "close", s) = {}
<1>1. /\ Moves["cycle"]["open"] = From(CycleStates, "OPEN")
      /\ Moves["cycle"]["close"] = From(CycleStates, "CLOSED")
  BY RowMoves
<1> QED
  BY <1>1, MovesFrom

LEMMA ReviewOutcomes ==
  ASSUME NEW s
  PROVE  /\ s \in {"PENDING", "SUBMITTED"} => Outcomes("review", "submit", s) = {"SUBMITTED"}
         /\ s \notin {"PENDING", "SUBMITTED"} => Outcomes("review", "submit", s) = {}
<1>1. Moves["review"]["submit"] = From({"PENDING", "SUBMITTED"}, "SUBMITTED")
  BY RowMoves
<1> QED
  BY <1>1, MovesFrom

LEMMA JobOutcomes ==
  ASSUME NEW s
  PROVE  /\ s \in JobStates => /\ Outcomes("job", "open", s) = {"OPEN"}
                               /\ Outcomes("job", "close", s) = {"CLOSED"}
         /\ s \notin JobStates => /\ Outcomes("job", "open", s) = {}
                                  /\ Outcomes("job", "close", s) = {}
<1>1. /\ Moves["job"]["open"] = From(JobStates, "OPEN")
      /\ Moves["job"]["close"] = From(JobStates, "CLOSED")
  BY RowMoves
<1> QED
  BY <1>1, MovesFrom

LEMMA CandidateOutcomes ==
  ASSUME NEW s
  PROVE  /\ s = "APPLIED" => Outcomes("candidate", "advance", s) = {"SCREENING"}
         /\ s = "SCREENING" => Outcomes("candidate", "advance", s) = {"INTERVIEW"}
         /\ s = "INTERVIEW" => Outcomes("candidate", "advance", s) = {"OFFER"}
         /\ s = "OFFER" => Outcomes("candidate", "advance", s) = {"HIRED"}
         /\ s \in Pipeline => /\ Outcomes("candidate", "offer", s) = {"OFFER"}
                              /\ Outcomes("candidate", "reject", s) = {"REJECTED"}
         /\ s \notin Pipeline => \A does \in {"advance", "offer", "reject"} :
                                    Outcomes("candidate", does, s) = {}
         /\ s \in Pipeline \cup {"REJECTED"} => Outcomes("candidate", "hire", s) = {"HIRED"}
         /\ s \notin Pipeline \cup {"REJECTED"} => Outcomes("candidate", "hire", s) = {}
<1>1. /\ Moves["candidate"]["advance"]
            = {<<"APPLIED", "SCREENING">>, <<"SCREENING", "INTERVIEW">>,
               <<"INTERVIEW", "OFFER">>, <<"OFFER", "HIRED">>}
      /\ Moves["candidate"]["offer"] = From(Pipeline, "OFFER")
      /\ Moves["candidate"]["reject"] = From(Pipeline, "REJECTED")
      /\ Moves["candidate"]["hire"] = From(Pipeline \cup {"REJECTED"}, "HIRED")
  BY RowMoves
<1>2. \A m \in Moves["candidate"]["advance"] :
         \/ m[1] = "APPLIED" /\ m[2] = "SCREENING"
         \/ m[1] = "SCREENING" /\ m[2] = "INTERVIEW"
         \/ m[1] = "INTERVIEW" /\ m[2] = "OFFER"
         \/ m[1] = "OFFER" /\ m[2] = "HIRED"
  BY <1>1
<1>3. /\ s = "APPLIED" => Outcomes("candidate", "advance", s) = {"SCREENING"}
      /\ s = "SCREENING" => Outcomes("candidate", "advance", s) = {"INTERVIEW"}
      /\ s = "INTERVIEW" => Outcomes("candidate", "advance", s) = {"OFFER"}
      /\ s = "OFFER" => Outcomes("candidate", "advance", s) = {"HIRED"}
      /\ s \notin Pipeline => Outcomes("candidate", "advance", s) = {}
  <2> DEFINE next(t) == /\ <<s, t>> \in Moves["candidate"]["advance"]
                        /\ \A m \in Moves["candidate"]["advance"] : m[1] = s => m[2] = t
  <2>1. \A t : next(t) => Outcomes("candidate", "advance", s) = {t}
    BY MovesOnce
  <2>2. /\ s = "APPLIED" => next("SCREENING")
        /\ s = "SCREENING" => next("INTERVIEW")
        /\ s = "INTERVIEW" => next("OFFER")
        /\ s = "OFFER" => next("HIRED")
    BY <1>1, <1>2
  <2>3. s \notin Pipeline => \A m \in Moves["candidate"]["advance"] : m[1] # s
    BY <1>2 DEF Pipeline
  <2> HIDE DEF next
  <2> QED
    BY <2>1, <2>2, <2>3, MovesNever
<1> QED
  BY <1>1, <1>3, MovesFrom

\* The buttons, row by row.
LEMMA ButtonsByRow ==
  ASSUME NEW b \in Buttons
  PROVE  \/ /\ b.row = "day"
            /\ \/ b.does = "checkIn" /\ b.when \subseteq {"out", "absent"}
               \/ b.does = "checkOut" /\ b.when = {"in"}
         \/ b.row = "regularisation" /\ b.does \in {"approve", "reject"} /\ b.when = {"PENDING"}
         \/ /\ b.row = "leave"
            /\ \/ b.does = "cancel" /\ b.when = {"PENDING", "APPROVED"}
               \/ b.does \in {"approve", "reject"} /\ b.when = {"PENDING"}
         \/ /\ b.row = "form"
            /\ \/ b.does \in {"save", "submit"} /\ b.when \subseteq Unlocked
               \/ b.does \in {"approve", "reject"} /\ b.when = Listed
         \/ /\ b.row = "run"
            /\ \/ b.does = "process" /\ b.when = {"DRAFT", "PROCESSING", "COMPLETED", "FAILED"}
               \/ b.does = "markPaid" /\ b.when = {"COMPLETED"}
         \/ /\ b.row = "goal"
            /\ \/ b.does = "progress" /\ b.when = {"ACTIVE", "COMPLETED"}
               \/ b.does = "complete" /\ b.when = {"ACTIVE"}
         \/ /\ b.row = "cycle"
            /\ \/ b.does = "open" /\ b.when = {"DRAFT", "CLOSED"}
               \/ b.does = "close" /\ b.when = {"OPEN"}
         \/ b.row = "review" /\ b.does = "submit" /\ b.when = {"PENDING"}
         \/ /\ b.row = "job"
            /\ \/ b.does = "close" /\ b.when = {"OPEN", "ON_HOLD"}
               \/ b.does = "open" /\ b.when = {"CLOSED"}
         \/ /\ b.row = "candidate"
            /\ \/ b.does = "advance" /\ b.when = {"APPLIED", "SCREENING", "INTERVIEW"}
               \/ b.does = "offer" /\ b.when = {"SCREENING", "INTERVIEW"}
               \/ b.does = "hire" /\ b.when = {"OFFER"}
               \/ b.does = "reject" /\ b.when = {"APPLIED", "SCREENING", "INTERVIEW", "OFFER"}
  BY DEF Buttons, Button

\* Every button finds the row in a state it acts on, in all the states it is offered in.
LEMMA ButtonMoves ==
  ASSUME NEW b \in Buttons, NEW s \in b.when
  PROVE  Outcomes(b.row, b.does, s) # {}
<1>1. CASE b.row = "day"
  BY <1>1, ButtonsByRow, DayOutcomes
<1>2. CASE b.row = "leave"
  BY <1>2, ButtonsByRow, LeaveOutcomes
<1>3. CASE b.row = "regularisation"
  BY <1>3, ButtonsByRow, RegularisationOutcomes
<1>4. CASE b.row = "form"
  <2>1. /\ b.does \in {"save", "submit", "approve", "reject"}
        /\ s \in FormStates
    BY <1>4, ButtonsByRow DEF Unlocked, Listed, FormStates
  <2> QED
    BY <1>4, <2>1, FormOutcomes
<1>5. CASE b.row = "run"
  BY <1>5, ButtonsByRow, RunOutcomes DEF Unpaid
<1>6. CASE b.row = "goal"
  BY <1>6, ButtonsByRow, GoalOutcomes DEF GoalStates
<1>7. CASE b.row = "cycle"
  BY <1>7, ButtonsByRow, CycleOutcomes DEF CycleStates
<1>8. CASE b.row = "review"
  BY <1>8, ButtonsByRow, ReviewOutcomes
<1>9. CASE b.row = "job"
  BY <1>9, ButtonsByRow, JobOutcomes DEF JobStates
<1>10. CASE b.row = "candidate"
  BY <1>10, ButtonsByRow, CandidateOutcomes DEF Pipeline
<1> QED
  BY <1>1, <1>2, <1>3, <1>4, <1>5, <1>6, <1>7, <1>8, <1>9, <1>10, ButtonsByRow

-----------------------------------------------------------------------------
(* Which buttons the pages that open show, and that an HR administrator    *)
(* uses each of them.                                                      *)
LEMMA OpenedPages ==
  ASSUME NEW role \in Roles, NEW page \in Opened[role]
  PROVE  page \in DOMAIN PagesOf(role) /\ page # "offboarding"
  BY SitePages, OffboardingStaysShut DEF Opened

LEMMA OffersAreButtons ==
  ASSUME NEW role \in Roles, NEW page \in DOMAIN PagesOf(role), page # "offboarding",
         NEW c \in PagesOf(role)[page].offers, c.does # "none"
  PROVE  c.row # "none" /\ Shape(c) \in Buttons \cup {OtherMonth}
<1>1. CASE Permitted(role, page)
  <2>1. Sound(role, c, ButtonsOf(page))
    BY <1>1, PageServed DEF OffersSound
  <2> QED
    BY <2>1 DEF Sound, ButtonsOf
<1>2. CASE page \in HrOnlyItems \cup {"jobDetail"}
  <2>1. "OWNER" \in Roles /\ hasRole("OWNER", "HR_ADMIN")
    BY RoleRanks
  <2>2. PagesOf("OWNER")[page].offers = PagesOf(role)[page].offers \/ page = "company"
    BY <1>2 DEF PagesOf, HrOnlyItems
  <2>3. Permitted("OWNER", page)
    BY <1>2, <2>1 DEF Permitted
  <2>4. CASE page # "company"
    <3>1. Sound("OWNER", c, ButtonsOf(page))
      BY <2>1, <2>2, <2>3, <2>4, PageServed DEF OffersSound
    <3> QED
      BY <3>1 DEF Sound, ButtonsOf
  <2>5. CASE page = "company"
    <3>1. PagesOf(role)["company"] = CompanyPage(role)
      BY DEF PagesOf
    <3>2. Sound(role, c, Buttons)
      BY <2>5, <3>1, CompanyPageServed DEF OffersSound
    <3> QED
      BY <3>2 DEF Sound
  <2> QED
    BY <2>4, <2>5
<1>3. CASE page = "employeeDetail"
  <2>1. PagesOf(role)["employeeDetail"] = EmployeeDetailPage(role)
    BY DEF PagesOf
  <2>2. Sound(role, c, Buttons)
    BY <1>3, <2>1, EmployeeDetailPageServed DEF OffersSound
  <2> QED
    BY <2>2 DEF Sound
<1> QED
  BY <1>1, <1>2, <1>3, PageNames DEF Permitted

LEMMA UsualButtons ==
  ASSUME NEW u \in Usual
  PROVE  u \in Buttons \cup {OtherMonth}
<1>1. PICK role \in Roles : u \in UsualOf(role)
  BY DEF Usual
<1>2. PICK c \in UNION {Site[role][page].offers : page \in Opened[role]} :
         c.does # "none" /\ u = [row |-> c.row, does |-> c.does, when |-> c.when]
  BY <1>1 DEF UsualOf
<1>3. PICK page \in Opened[role] : c \in PagesOf(role)[page].offers
  BY <1>2, SitePages
<1>4. Shape(c) \in Buttons \cup {OtherMonth}
  BY <1>2, <1>3, OpenedPages, OffersAreButtons
<1> QED
  BY <1>2, <1>4 DEF Shape, Button

(* Some page offers this, to a user who may, for rows in these states.      *)
Available(kind, does, states) ==
  \A t \in states : \E u \in Usual : u.row = kind /\ u.does = does /\ t \in u.when

LEMMA HrUses ==
  ASSUME NEW page, Permitted("HR_ADMIN", page), ~Shut("HR_ADMIN", page),
         NEW c \in PagesOf("HR_ADMIN")[page].offers,
         NEW kind, NEW when, NEW does, NEW call, Acts(c, kind, when, does, call),
         does # "none", Verdict("HR_ADMIN", call) = "ok"
  PROVE  Available(kind, does, when)
<1>1. "HR_ADMIN" \in Roles
  BY RoleRanks
<1>2. page \in Opened["HR_ADMIN"] /\ c \in Site["HR_ADMIN"][page].offers
  BY <1>1, PermittedOpens, SitePages
<1>3. c \in UNION {Site["HR_ADMIN"][p].offers : p \in Opened["HR_ADMIN"]}
  BY <1>2
<1>4. [row |-> c.row, does |-> c.does, when |-> c.when] \in UsualOf("HR_ADMIN")
  BY <1>3 DEF UsualOf, Acts
<1> QED
  BY <1>1, <1>4 DEF Usual, Available, Acts

LEMMA HrPages ==
  /\ "HR_ADMIN" \in Roles /\ hasRole("HR_ADMIN", "HR_ADMIN") /\ hasRole("HR_ADMIN", "MANAGER")
  /\ hasRole("HR_ADMIN", "EMPLOYEE") /\ Linked("HR_ADMIN")
  /\ \A page \in {"dashboard", "myOnboarding", "onboarding", "attendance", "leaves",
                  "performance", "payroll", "jobDetail"} :
        Permitted("HR_ADMIN", page) /\ ~Shut("HR_ADMIN", page)
  BY RoleRanks DEF Linked, Permitted, Shut, NavItems, HrOnlyItems

LEMMA DayIsUsual ==
  /\ Available("day", "checkIn", {"out", "absent"})
  /\ Available("day", "checkOut", {"in"})
<1> DEFINE checkIn == OnOwn("day", {"out", "absent"}, "checkIn", attendanceApi.checkIn)
           checkOut == OnOwn("day", {"in"}, "checkOut", attendanceApi.checkOut)
<1>1. PagesOf("HR_ADMIN")["dashboard"] = DashboardPage("HR_ADMIN")
  BY DEF PagesOf
<1>2. PagesOf("HR_ADMIN")["dashboard"].offers = {checkIn, checkOut}
  BY <1>1, PageParts DEF DashboardPage, clock
<1>3. /\ Verdict("HR_ADMIN", attendanceApi.checkIn) = "ok"
      /\ Verdict("HR_ADMIN", attendanceApi.checkOut) = "ok"
  BY HrPages, AttendanceServes DEF ServesOwn
<1>4. /\ Acts(checkIn, "day", {"out", "absent"}, "checkIn", attendanceApi.checkIn)
      /\ Acts(checkOut, "day", {"in"}, "checkOut", attendanceApi.checkOut)
  BY OnOwnActs
<1>5. Available("day", "checkIn", {"out", "absent"})
  BY <1>2, <1>3, <1>4, HrUses, HrPages
<1>6. Available("day", "checkOut", {"in"})
  BY <1>2, <1>3, <1>4, HrUses, HrPages
<1> QED
  BY <1>5, <1>6

LEMMA RegularisationIsUsual ==
  \A d \in {"approve", "reject"} : Available("regularisation", d, {"PENDING"})
<1> SUFFICES ASSUME NEW d \in {"approve", "reject"}
             PROVE  Available("regularisation", d, {"PENDING"})
  OBVIOUS
<1> DEFINE decision == OnRow("regularisation", {"PENDING"}, d, attendanceApi.decideRegularisation)
<1>1. PagesOf("HR_ADMIN")["attendance"] = TeamAttendance
  BY HrPages DEF PagesOf, AttendancePage
<1>2. decision \in PagesOf("HR_ADMIN")["attendance"].offers
  BY <1>1, PageParts DEF TeamAttendance
<1>3. Verdict("HR_ADMIN", attendanceApi.decideRegularisation) = "ok"
  BY HrPages, AttendanceServes DEF Serves
<1>4. Acts(decision, "regularisation", {"PENDING"}, d, attendanceApi.decideRegularisation)
  BY OnRowActs
<1> QED
  BY <1>2, <1>3, <1>4, HrUses, HrPages

LEMMA LeaveIsUsual ==
  /\ \A d \in {"approve", "reject"} : Available("leave", d, {"PENDING"})
  /\ Available("leave", "cancel", {"PENDING", "APPROVED"})
<1> DEFINE decision(d) == OnRow("leave", {"PENDING"}, d, leavesApi.decideLeave)
           cancel == LeavesCancel("HR_ADMIN")
<1>1. PagesOf("HR_ADMIN")["leaves"] = LeavesPage("HR_ADMIN")
  BY DEF PagesOf
<1>2. \A d \in {"approve", "reject"} : decision(d) \in PagesOf("HR_ADMIN")["leaves"].offers
  BY <1>1, PageParts, HrPages DEF LeavesPage, If
<1>3. cancel \in PagesOf("HR_ADMIN")["leaves"].offers
  BY <1>1, HrPages, LeavesPageServed
<1>4. /\ Verdict("HR_ADMIN", leavesApi.decideLeave) = "ok"
      /\ Verdict("HR_ADMIN", leavesApi.cancelLeave) = "ok"
  BY HrPages, LeavesServes DEF Serves, ServesOwn
<1>5. /\ \A d : Acts(decision(d), "leave", {"PENDING"}, d, leavesApi.decideLeave)
      /\ Acts(cancel, "leave", {"PENDING", "APPROVED"}, "cancel", leavesApi.cancelLeave)
  <2>1. Acts(cancel, "leave", {"PENDING", "APPROVED"}, "cancel", leavesApi.cancelLeave)
    BY DEF LeavesCancel, Acts, OnOwn, OnRow
  <2> QED
    BY <2>1, OnRowActs
<1>6. \A d \in {"approve", "reject"} : Available("leave", d, {"PENDING"})
  BY <1>2, <1>4, <1>5, HrUses, HrPages
<1>7. Available("leave", "cancel", {"PENDING", "APPROVED"})
  BY <1>3, <1>4, <1>5, HrUses, HrPages
<1> QED
  BY <1>6, <1>7

LEMMA FormIsUsual ==
  /\ \A d \in {"save", "submit"} : Available("form", d, Unlocked)
  /\ \A d \in {"approve", "reject"} : Available("form", d, Listed)
<1>1. ASSUME NEW d \in {"save", "submit"} PROVE Available("form", d, Unlocked)
  <2> DEFINE save == OnOwn("form", Unlocked, d, SaveForm({}))
  <2>1. PagesOf("HR_ADMIN")["myOnboarding"] = MyOnboardingPage
    BY DEF PagesOf
  <2>2. save \in {OnOwn("form", Unlocked, button, SaveForm(rows)) :
                     button \in {"save", "submit"}, rows \in {{}, TypedRows}}
    OBVIOUS
  <2>3. save \in PagesOf("HR_ADMIN")["myOnboarding"].offers
    BY <2>1, <2>2, PageParts DEF MyOnboardingPage
  <2>4. Verdict("HR_ADMIN", SaveForm({})) = "ok"
    BY HrPages, OnboardingServes DEF ServesOwn
  <2>5. Acts(save, "form", Unlocked, d, SaveForm({}))
    BY OnOwnActs
  <2> QED
    BY <2>3, <2>4, <2>5, HrUses, HrPages
<1>2. ASSUME NEW d \in {"approve", "reject"} PROVE Available("form", d, Listed)
  <2> DEFINE decision == OnRow("form", Listed, d, onboardingApi.reviewOnboarding)
  <2>1. PagesOf("HR_ADMIN")["onboarding"] = OnboardingReviewPage
    BY DEF PagesOf
  <2>2. decision \in PagesOf("HR_ADMIN")["onboarding"].offers
    BY <2>1, PageParts DEF OnboardingReviewPage
  <2>3. Verdict("HR_ADMIN", onboardingApi.reviewOnboarding) = "ok"
    BY HrPages, OnboardingServes DEF Serves
  <2>4. Acts(decision, "form", Listed, d, onboardingApi.reviewOnboarding)
    BY OnRowActs
  <2> QED
    BY <2>2, <2>3, <2>4, HrUses, HrPages
<1> QED
  BY <1>1, <1>2

LEMMA RunIsUsual ==
  /\ Available("run", "process", {"DRAFT", "PROCESSING", "COMPLETED", "FAILED"})
  /\ Available("run", "markPaid", {"COMPLETED"})
<1> DEFINE open == {"DRAFT", "PROCESSING", "COMPLETED", "FAILED"}
           process == OnRow("run", open, "process", payrollApi.processRun)
           markPaid == OnRow("run", {"COMPLETED"}, "markPaid", payrollApi.markPaid)
<1>1. PagesOf("HR_ADMIN")["payroll"] = PayrollPage("HR_ADMIN")
  BY DEF PagesOf
<1>2. /\ process \in PagesOf("HR_ADMIN")["payroll"].offers
      /\ markPaid \in PagesOf("HR_ADMIN")["payroll"].offers
  BY <1>1, PageParts, HrPages DEF PayrollPage
<1>3. /\ Verdict("HR_ADMIN", payrollApi.processRun) = "ok"
      /\ Verdict("HR_ADMIN", payrollApi.markPaid) = "ok"
  BY HrPages, PayrollServes DEF Serves
<1>4. /\ Acts(process, "run", open, "process", payrollApi.processRun)
      /\ Acts(markPaid, "run", {"COMPLETED"}, "markPaid", payrollApi.markPaid)
  BY OnRowActs
<1>5. Available("run", "process", open)
  BY <1>2, <1>3, <1>4, HrUses, HrPages
<1>6. Available("run", "markPaid", {"COMPLETED"})
  BY <1>2, <1>3, <1>4, HrUses, HrPages
<1> QED
  BY <1>5, <1>6

LEMMA PerformanceIsUsual ==
  /\ Available("goal", "progress", {"ACTIVE", "COMPLETED"})
  /\ Available("goal", "complete", {"ACTIVE"})
  /\ Available("cycle", "open", {"DRAFT", "CLOSED"})
  /\ Available("cycle", "close", {"OPEN"})
  /\ Available("review", "submit", {"PENDING"})
<1> DEFINE update(fields) == With(performanceApi.updateGoal, fields)
           hr == hasRole("HR_ADMIN", "HR_ADMIN")
           progress == [OnRow("goal", {"ACTIVE", "COMPLETED"}, "progress", update({"progress"}))
                          EXCEPT !.all = hr]
           complete == [OnRow("goal", {"ACTIVE"}, "complete", update({"progress", "status"}))
                          EXCEPT !.all = hr]
           open == OnRow("cycle", {"DRAFT", "CLOSED"}, "open", performanceApi.setCycleStatus)
           close == OnRow("cycle", {"OPEN"}, "close", performanceApi.setCycleStatus)
           rated == With(performanceApi.submitReview, {"rating", "comments"})
           submit == OnRow("review", {"PENDING"}, "submit", rated)
           offers == PagesOf("HR_ADMIN")["performance"].offers
<1>1. PagesOf("HR_ADMIN")["performance"] = PerformancePage("HR_ADMIN")
  BY DEF PagesOf
<1>2. progress \in GoalRow("HR_ADMIN") /\ complete \in GoalRow("HR_ADMIN")
  BY DEF GoalRow
<1>3. progress \in offers /\ complete \in offers
  BY <1>1, <1>2, PageParts DEF PerformancePage
<1>4. open \in offers /\ close \in offers /\ submit \in offers
  BY <1>1, PageParts, HrPages DEF PerformancePage, If
<1>5. /\ Verdict("HR_ADMIN", update({"progress"})) = "ok"
      /\ Verdict("HR_ADMIN", update({"progress", "status"})) = "ok"
      /\ Verdict("HR_ADMIN", performanceApi.setCycleStatus) = "ok"
      /\ Verdict("HR_ADMIN", rated) = "ok"
  BY HrPages, PerformanceServes DEF Serves
<1>6. Acts(progress, "goal", {"ACTIVE", "COMPLETED"}, "progress", update({"progress"}))
  BY DEF Acts, OnRow
<1>7. Acts(complete, "goal", {"ACTIVE"}, "complete", update({"progress", "status"}))
  BY DEF Acts, OnRow
<1>8. /\ Acts(open, "cycle", {"DRAFT", "CLOSED"}, "open", performanceApi.setCycleStatus)
      /\ Acts(close, "cycle", {"OPEN"}, "close", performanceApi.setCycleStatus)
      /\ Acts(submit, "review", {"PENDING"}, "submit", rated)
  BY OnRowActs
<1> HIDE DEF progress, complete, open, close, submit, rated, update, offers
<1>9. ASSUME NEW c \in offers, NEW kind, NEW when, NEW does, NEW call,
             Acts(c, kind, when, does, call), does # "none", Verdict("HR_ADMIN", call) = "ok"
      PROVE  Available(kind, does, when)
  BY <1>9, HrUses, HrPages DEF offers
<1>10. Available("goal", "progress", {"ACTIVE", "COMPLETED"})
  BY <1>3, <1>5, <1>6, <1>9
<1>11. Available("goal", "complete", {"ACTIVE"})
  BY <1>3, <1>5, <1>7, <1>9
<1>12. Available("cycle", "open", {"DRAFT", "CLOSED"})
  BY <1>4, <1>5, <1>8, <1>9
<1>13. Available("cycle", "close", {"OPEN"})
  BY <1>4, <1>5, <1>8, <1>9
<1>14. Available("review", "submit", {"PENDING"})
  BY <1>4, <1>5, <1>8, <1>9
<1> QED
  BY <1>10, <1>11, <1>12, <1>13, <1>14

LEMMA HiringIsUsual ==
  /\ Available("job", "close", {"OPEN", "ON_HOLD"})
  /\ Available("job", "open", {"CLOSED"})
  /\ Available("candidate", "advance", {"APPLIED", "SCREENING", "INTERVIEW"})
  /\ Available("candidate", "offer", {"SCREENING", "INTERVIEW"})
  /\ Available("candidate", "hire", {"OFFER"})
  /\ Available("candidate", "reject", {"APPLIED", "SCREENING", "INTERVIEW", "OFFER"})
<1> DEFINE offers == PagesOf("HR_ADMIN")["jobDetail"].offers
<1>1. PagesOf("HR_ADMIN")["jobDetail"] = JobDetailPage
  BY DEF PagesOf
<1>2. ASSUME NEW kind, NEW when, NEW does, NEW f, does # "none",
             OnRow(kind, when, does, recruitmentApi[f]) \in JobDetailPage.offers,
             f \in {"setJobStatus", "advanceCandidate", "rejectCandidate", "hireCandidate",
                    "makeOffer"}
      PROVE  Available(kind, does, when)
  <2>1. Verdict("HR_ADMIN", recruitmentApi[f]) = "ok"
    BY <1>2, HrPages, RecruitmentServes DEF Serves
  <2>2. Acts(OnRow(kind, when, does, recruitmentApi[f]), kind, when, does, recruitmentApi[f])
    BY OnRowActs
  <2> QED
    BY <1>1, <1>2, <2>1, <2>2, HrUses, HrPages
<1>3. /\ OnRow("job", {"OPEN", "ON_HOLD"}, "close", recruitmentApi["setJobStatus"])
            \in JobDetailPage.offers
      /\ OnRow("job", {"CLOSED"}, "open", recruitmentApi["setJobStatus"]) \in JobDetailPage.offers
      /\ OnRow("candidate", {"APPLIED", "SCREENING", "INTERVIEW"}, "advance",
               recruitmentApi["advanceCandidate"]) \in JobDetailPage.offers
      /\ OnRow("candidate", {"SCREENING", "INTERVIEW"}, "offer", recruitmentApi["makeOffer"])
            \in JobDetailPage.offers
      /\ OnRow("candidate", {"OFFER"}, "hire", recruitmentApi["hireCandidate"])
            \in JobDetailPage.offers
      /\ OnRow("candidate", {"APPLIED", "SCREENING", "INTERVIEW", "OFFER"}, "reject",
               recruitmentApi["rejectCandidate"]) \in JobDetailPage.offers
  BY PageParts DEF JobDetailPage
<1> QED
  BY <1>2, <1>3

-----------------------------------------------------------------------------
(* Stages a row does not go back to: a form once started, a cycle once     *)
(* opened or closed, and a candidate in the order of the pipeline.         *)
Stage == [APPLIED |-> 0, SCREENING |-> 1, INTERVIEW |-> 2, OFFER |-> 3, REJECTED |-> 4,
          HIRED |-> 5]
NeverBack(kind, from, to) ==
  /\ kind = "form" /\ to = "NOT_STARTED" => from = "NOT_STARTED"
  /\ kind = "cycle" /\ to = "DRAFT" => from = "DRAFT"
  /\ kind = "candidate" => Stage[from] <= Stage[to]
Stored(kind, state) ==
  /\ kind = "candidate" => state \in DOMAIN Stage
  /\ kind = "job" => state # "ON_HOLD"

\* What any button does is a move forward.
LEMMA MoveForward ==
  ASSUME NEW b \in Buttons \cup {OtherMonth}, NEW s, Stored(b.row, s),
         NEW t \in Outcomes(b.row, b.does, s)
  PROVE  Stored(b.row, t) /\ NeverBack(b.row, s, t)
<1>1. CASE b.row \notin {"form", "cycle", "candidate", "job"}
  BY <1>1 DEF Stored, NeverBack
<1>2. CASE b.row \in {"form", "cycle", "candidate", "job"}
  <2>1. b \in Buttons
    BY <1>2 DEF OtherMonth, Button
  <2>2. CASE b.row = "form"
    BY <2>1, <2>2, ButtonsByRow, FormOutcomes DEF Stored, NeverBack
  <2>3. CASE b.row = "cycle"
    BY <2>1, <2>3, ButtonsByRow, CycleOutcomes DEF Stored, NeverBack
  <2>4. CASE b.row = "job"
    BY <2>1, <2>4, ButtonsByRow, JobOutcomes DEF Stored, NeverBack
  <2>5. CASE b.row = "candidate"
    BY <2>1, <2>5, ButtonsByRow, CandidateOutcomes DEF Stored, NeverBack, Stage, Pipeline
  <2> QED
    BY <1>2, <2>2, <2>3, <2>4, <2>5
<1> QED
  BY <1>1, <1>2

LEMMA NeverBackTwice ==
  ASSUME NEW kind, NEW r, NEW s, NEW t, Stored(kind, r), Stored(kind, s), Stored(kind, t),
         NeverBack(kind, r, s), NeverBack(kind, s, t)
  PROVE  NeverBack(kind, r, t)
<1>1. \A x \in DOMAIN Stage : Stage[x] \in Int
  BY DEF Stage
<1> QED
  BY <1>1 DEF NeverBack, Stored

LEMMA NeverBackHere ==
  ASSUME NEW kind, NEW s, Stored(kind, s)
  PROVE  NeverBack(kind, s, s)
<1>1. \A x \in DOMAIN Stage : Stage[x] \in Int
  BY DEF Stage
<1> QED
  BY <1>1 DEF NeverBack, Stored

\* A button pressed on a row that has moved on since it was shown, and served, does what some
\* page offers for the row as it is by now, or one of the known overwrites.
LEMMA LateButton ==
  ASSUME NEW b \in Buttons \cup {OtherMonth}, NEW s \in b.when, NEW t, s # t,
         Stored(b.row, s), Stored(b.row, t), NeverBack(b.row, s, t),
         Outcomes(b.row, b.does, t) # {}
  PROVE  \/ \E u \in Usual : u.row = b.row /\ u.does = b.does /\ t \in u.when
         \/ <<b.row, b.does, t>> \in KnownOverwrites
<1> DEFINE usual == \E u \in Usual : u.row = b.row /\ u.does = b.does /\ t \in u.when
           known == <<b.row, b.does, t>> \in KnownOverwrites
<1> SUFFICES usual \/ known
  OBVIOUS
<1>1. ASSUME NEW does, NEW states, b.does = does, t \in states, Available(b.row, does, states)
      PROVE  usual
  BY <1>1 DEF Available
<1> HIDE DEF usual
<1>2. CASE b.row = "day"
  <2>1. \/ b.does = "checkIn" \/ b.does = "checkOut"
    BY <1>2, ButtonsByRow DEF OtherMonth, Button
  <2>2. \/ b.does = "checkIn" /\ t \in {"out", "absent"}
        \/ b.does = "checkOut" /\ t \in {"in"}
    BY <1>2, <2>1, DayOutcomes
  <2> QED
    BY <1>1, <1>2, <2>2, DayIsUsual
<1>3. CASE b.row # "day"
  <2>1. b \in Buttons
    BY <1>3 DEF OtherMonth, Button
  <2>2. CASE b.row = "regularisation"
    <3>1. b.does \in {"approve", "reject"} /\ t \in {"PENDING"}
      BY <2>1, <2>2, ButtonsByRow, RegularisationOutcomes
    <3> QED
      BY <1>1, <2>2, <3>1, RegularisationIsUsual
  <2>3. CASE b.row = "leave"
    <3>1. \/ b.does \in {"approve", "reject"} /\ t \in {"PENDING"}
          \/ b.does = "cancel" /\ t \in {"PENDING", "APPROVED"}
      BY <2>1, <2>3, ButtonsByRow, LeaveOutcomes
    <3> QED
      BY <1>1, <2>3, <3>1, LeaveIsUsual
  <2>4. CASE b.row = "form"
    <3>1. \/ b.does \in {"save", "submit"} /\ (t \in Unlocked \/ t = "APPROVED")
          \/ b.does \in {"approve", "reject"} /\ t \in Listed
      BY <2>1, <2>4, ButtonsByRow, FormOutcomes DEF FormStates, Unlocked, Listed, NeverBack
    <3>2. known \/ \/ b.does \in {"save", "submit"} /\ t \in Unlocked
                   \/ b.does \in {"approve", "reject"} /\ t \in Listed
      BY <2>4, <3>1 DEF KnownOverwrites
    <3> QED
      BY <1>1, <2>4, <3>2, FormIsUsual
  <2>5. CASE b.row = "run"
    <3>1. \/ b.does = "process" /\ t \in {"DRAFT", "PROCESSING", "COMPLETED", "FAILED"}
          \/ b.does = "markPaid" /\ t \in {"COMPLETED"}
      BY <2>1, <2>5, ButtonsByRow, RunOutcomes DEF Unpaid
    <3> QED
      BY <1>1, <2>5, <3>1, RunIsUsual
  <2>6. CASE b.row = "goal"
    <3>1. \/ b.does = "progress" /\ t \in {"ACTIVE", "COMPLETED"}
          \/ b.does = "complete" /\ t \in {"ACTIVE"}
          \/ b.does = "complete" /\ t = "COMPLETED"
      BY <2>1, <2>6, ButtonsByRow, GoalOutcomes DEF GoalStates
    <3>2. b.does = "complete" /\ t = "COMPLETED" => known
      BY <2>6 DEF KnownOverwrites
    <3> QED
      BY <1>1, <2>6, <3>1, <3>2, PerformanceIsUsual
  <2>7. CASE b.row = "cycle"
    <3>1. \/ b.does = "open" /\ t \in {"DRAFT", "CLOSED"}
          \/ b.does = "close" /\ t \in {"OPEN"}
          \/ b.does = "open" /\ t = "OPEN"
          \/ b.does = "close" /\ t = "CLOSED"
      BY <2>1, <2>7, ButtonsByRow, CycleOutcomes DEF CycleStates, NeverBack
    <3>2. (b.does = "open" /\ t = "OPEN") \/ (b.does = "close" /\ t = "CLOSED") => known
      BY <2>7 DEF KnownOverwrites
    <3> QED
      BY <1>1, <2>7, <3>1, <3>2, PerformanceIsUsual
  <2>8. CASE b.row = "review"
    <3>1. b.does = "submit" /\ (t \in {"PENDING"} \/ t = "SUBMITTED")
      BY <2>1, <2>8, ButtonsByRow, ReviewOutcomes
    <3>2. t = "SUBMITTED" => known
      BY <2>8, <3>1 DEF KnownOverwrites
    <3> QED
      BY <1>1, <2>8, <3>1, <3>2, PerformanceIsUsual
  <2>9. CASE b.row = "job"
    <3>1. \/ b.does = "close" /\ t \in {"OPEN", "ON_HOLD"}
          \/ b.does = "open" /\ t \in {"CLOSED"}
          \/ b.does = "open" /\ t = "OPEN"
          \/ b.does = "close" /\ t = "CLOSED"
      BY <2>1, <2>9, ButtonsByRow, JobOutcomes DEF JobStates, Stored
    <3>2. (b.does = "open" /\ t = "OPEN") \/ (b.does = "close" /\ t = "CLOSED") => known
      BY <2>9 DEF KnownOverwrites
    <3> QED
      BY <1>1, <2>9, <3>1, <3>2, HiringIsUsual
  <2>10. CASE b.row = "candidate"
    <3>1. \/ b.does = "advance" /\ t \in {"APPLIED", "SCREENING", "INTERVIEW"}
          \/ b.does = "offer" /\ t \in {"SCREENING", "INTERVIEW"}
          \/ b.does = "hire" /\ t \in {"OFFER"}
          \/ b.does = "reject" /\ t \in {"APPLIED", "SCREENING", "INTERVIEW", "OFFER"}
          \/ b.does \in {"advance", "offer"} /\ t = "OFFER"
          \/ b.does = "hire" /\ t = "REJECTED"
      BY <2>1, <2>10, ButtonsByRow, CandidateOutcomes DEF Pipeline, NeverBack, Stage
    <3>2. /\ b.does \in {"advance", "offer"} /\ t = "OFFER" => known
          /\ b.does = "hire" /\ t = "REJECTED" => known
      BY <2>10 DEF KnownOverwrites
    <3> QED
      BY <1>1, <2>10, <3>1, <3>2, HiringIsUsual
  <2>11. b.row \in {"regularisation", "leave", "form", "run", "goal", "cycle", "review", "job",
                     "candidate"}
    BY <1>3, <2>1, ButtonsByRow
  <2> HIDE DEF known
  <2> QED
    BY <2>2, <2>3, <2>4, <2>5, <2>6, <2>7, <2>8, <2>9, <2>10, <2>11
<1> QED
  BY <1>2, <1>3

-----------------------------------------------------------------------------
(* The invariant.  A page on display is one the user could get to and that *)
(* answered her; the row has only moved forward since the page was loaded. *)
ScreenInv ==
  /\ screen = [page |-> screen.page, phase |-> screen.phase]
  /\ screen.phase \in {"loading", "shown", "reloading", "failed"}
  /\ screen.page = "none" => screen.phase = "shown"
  /\ screen.page # "none" => Permitted(user, screen.page)
  /\ screen.phase = "failed" => screen.page \notin Opened[user]
  /\ screen.page # "none" /\ screen.phase \in {"shown", "reloading"} =>
        screen.page \in Opened[user]
RowInv ==
  /\ row = [kind |-> row.kind, whose |-> row.whose, state |-> row.state]
  /\ Stored(row.kind, row.state)
SeenInv ==
  screen.page # "none" /\ screen.phase \in {"shown", "reloading"} =>
     Stored(row.kind, seen) /\ NeverBack(row.kind, seen, row.state)
ConsoleInv ==
  /\ user \in Roles /\ ScreenInv /\ RowInv /\ SeenInv
  /\ RefusalsAreKnown /\ OutdatedClicksAreHarmless

LEMMA ConsoleStarts == ConsoleInit => ConsoleInv
<1> SUFFICES ASSUME ConsoleInit PROVE ConsoleInv
  OBVIOUS
<1> USE DEF ConsoleInit
<1>1. ScreenInv
  BY DEF ScreenInv, NoScreen
<1>2. RowInv
  BY DEF RowInv, Stored, Stage, NewRow
<1>3. SeenInv
  BY DEF SeenInv, NoScreen
<1>4. RefusalsAreKnown /\ OutdatedClicksAreHarmless
  BY DEF RefusalsAreKnown, OutdatedClicksAreHarmless, NotAnswered
<1> QED
  BY <1>1, <1>2, <1>3, <1>4 DEF ConsoleInv

\* A visit opens a page of the sidebar, or one a page on display links to.
LEMMA VisitKeeps ==
  ASSUME ConsoleInv, NEW page, Visit(page)
  PROVE  ConsoleInv'
<1> USE DEF Visit, ConsoleInv
<1>1. Permitted(user, page) /\ page # "none"
  <2>1. CASE page \in NAV(user)
    BY <2>1 DEF NAV, If, NavItems, HrOnlyItems, Permitted
  <2>2. CASE screen.phase = "shown" /\ <<screen.page, page>> \in Links(user)
    <3>1. screen.page # "none" /\ \/ screen.page = "employees" /\ page = "employeeDetail"
                                  \/ screen.page = "recruitment" /\ page = "jobDetail"
                                  \/ hasRole(user, "HR_ADMIN") /\ page = "invite"
      BY <2>2 DEF Links, If
    <3>2. screen.page \in Opened[user] /\ Permitted(user, screen.page)
      BY <2>2, <3>1 DEF ScreenInv
    <3>3. screen.page = "employees" => user # "EMPLOYEE"
      BY <3>2, DirectoryStaysShut
    <3>4. screen.page = "recruitment" => hasRole(user, "HR_ADMIN")
      BY <3>2 DEF Permitted, HrOnlyItems
    <3> QED
      BY <3>1, <3>3, <3>4 DEF Permitted, HrOnlyItems, NavItems
  <2> QED
    BY <2>1, <2>2
<1>2. ScreenInv'
  BY <1>1 DEF ScreenInv
<1>3. RowInv' /\ SeenInv'
  BY DEF RowInv, SeenInv
<1>4. RefusalsAreKnown' /\ OutdatedClicksAreHarmless'
  BY DEF RefusalsAreKnown, OutdatedClicksAreHarmless, NotAnswered
<1> QED
  BY <1>2, <1>3, <1>4

\* What was answered stays as it was while the page, the user and whose row it is do.
LEMMA AnswerKept ==
  ASSUME RefusalsAreKnown, OutdatedClicksAreHarmless,
         answer' = answer, user' = user, row'.whose = row.whose, screen'.page = screen.page
  PROVE  RefusalsAreKnown' /\ OutdatedClicksAreHarmless'
  BY DEF RefusalsAreKnown, OutdatedClicksAreHarmless

LEMMA LoadKeeps ==
  ASSUME ConsoleInv, Load
  PROVE  ConsoleInv'
<1> USE DEF Load, ConsoleInv
<1>1. /\ screen.page # "none" /\ screen'.page = screen.page
      /\ screen' = [page |-> screen.page,
                    phase |-> IF screen.page \in Opened[user] THEN "shown" ELSE "failed"]
  BY DEF ScreenInv
<1>2. ScreenInv'
  BY <1>1 DEF ScreenInv
<1>3. RowInv'
  BY DEF RowInv
<1>4. SeenInv'
  BY <1>1, NeverBackHere DEF RowInv, SeenInv
<1>5. RefusalsAreKnown' /\ OutdatedClicksAreHarmless'
  BY <1>1, AnswerKept
<1> QED
  BY <1>2, <1>3, <1>4, <1>5

\* A row that a button moves is moved forward, from what any page showed.
LEMMA RowMovesOn ==
  ASSUME RowInv, SeenInv, NEW b \in Buttons \cup {OtherMonth}, b.row = row.kind,
         NEW to \in Outcomes(row.kind, b.does, row.state), row' = [row EXCEPT !.state = to],
         seen' = seen, screen'.page = screen.page,
         screen'.phase \in {"shown", "reloading"} => screen.phase \in {"shown", "reloading"}
  PROVE  RowInv' /\ SeenInv' /\ row'.whose = row.whose
<1>1. row' = [kind |-> row.kind, whose |-> row.whose, state |-> to]
  BY DEF RowInv
<1>2. Stored(row.kind, to) /\ NeverBack(row.kind, row.state, to)
  BY MoveForward DEF RowInv
<1>3. RowInv' /\ row'.whose = row.whose
  BY <1>1, <1>2 DEF RowInv
<1>4. SeenInv'
  BY <1>1, <1>2, NeverBackTwice DEF SeenInv, RowInv
<1> QED
  BY <1>3, <1>4

LEMMA ElsewhereKeeps ==
  ASSUME ConsoleInv, Elsewhere
  PROVE  ConsoleInv'
<1> USE DEF ConsoleInv
<1>1. PICK u \in Usual :
         /\ u.row = row.kind
         /\ \E to \in Outcomes(row.kind, u.does, row.state) : row' = [row EXCEPT !.state = to]
         /\ UNCHANGED <<user, screen, seen, answer>>
  BY DEF Elsewhere
<1>2. RowInv' /\ SeenInv' /\ row'.whose = row.whose
  BY <1>1, UsualButtons, RowMovesOn
<1>3. ScreenInv'
  BY <1>1 DEF ScreenInv
<1>4. RefusalsAreKnown' /\ OutdatedClicksAreHarmless'
  BY <1>1, <1>2, AnswerKept
<1> QED
  BY <1>1, <1>2, <1>3, <1>4

\* What a control of a page on display is, and the user's right to be there.
LEMMA ControlsAreSound ==
  ASSUME ConsoleInv, screen.page # "none", screen.phase \in {"shown", "reloading"},
         NEW c \in Site[user][screen.page].offers
  PROVE  Sound(user, c, ButtonsOf(screen.page))
<1>1. /\ user \in Roles /\ Permitted(user, screen.page)
      /\ screen.page # "offboarding"
  BY OffboardingStaysShut DEF ConsoleInv, ScreenInv
<1> QED
  BY <1>1, PageServed, SitePages DEF OffersSound

\* Why the server refuses a control of a page that shows the row as it is.
LEMMA RefusedFor ==
  ASSUME NEW role \in Roles, NEW page, NEW c, Sound(role, c, ButtonsOf(page)), Offered(c),
         VerdictOn(role, c) # "ok"
  PROVE  \/ VerdictOn(role, c) = "NO_EMPLOYEE" /\ role = "OWNER"
         \/ VerdictOn(role, c) = "FORBIDDEN" /\ role = "MANAGER" /\ row.whose # "report"
         \/ VerdictOn(role, c) = "FORBIDDEN" /\ c.does = "cancel" /\ hasRole(role, "HR_ADMIN")
         \/ VerdictOn(role, c) = "VALIDATION" /\ c.row = "form" /\ StoredRows \subseteq c.call.sends
         \/ VerdictOn(role, c) = "STATE" /\ row.state # seen
         \/ VerdictOn(role, c) = "STATE" /\ page = "myAttendance" /\ row.state = "in"
<1> DEFINE first == Verdict(role, c.call)
<1>1. SentAs(role, c) /\ OnRowsOf(role, c)
  BY DEF Sound
<1>2. CASE first # "ok"
  <2>1. \/ first = "VALIDATION" /\ c.row = "form" /\ StoredRows \subseteq c.call.sends
        \/ first = "NO_EMPLOYEE" /\ ~Linked(role)
    BY <1>1, <1>2 DEF SentAs, Verdict
  <2>2. VerdictOn(role, c) = first
    BY <1>2 DEF VerdictOn
  <2> QED
    BY <2>1, <2>2 DEF Linked
<1>3. CASE first = "ok" /\ c.row # "none" /\ ~MayActOn(role, c)
  <2>1. VerdictOn(role, c) = "FORBIDDEN"
    BY <1>3 DEF VerdictOn
  <2>2. c.all = TRUE \/ row.whose = "own"
    BY <1>3 DEF Offered
  <2>3. \/ c.does = "cancel" /\ c.row = "leave" /\ row.whose # "own"
        \/ /\ c.does \in {"approve", "reject"} /\ c.row \in {"leave", "regularisation"}
           /\ ~hasRole(role, "HR_ADMIN") /\ row.whose # "report"
        \/ c.row = "goal" /\ ~hasRole(role, "HR_ADMIN") /\ row.whose # "own"
    BY <1>3 DEF MayActOn
  <2>4. CASE c.does = "cancel" /\ c.row = "leave" /\ row.whose # "own"
    BY <1>1, <2>1, <2>2, <2>4 DEF OnRowsOf
  <2>5. CASE /\ c.does \in {"approve", "reject"} /\ c.row \in {"leave", "regularisation"}
             /\ ~hasRole(role, "HR_ADMIN") /\ row.whose # "report"
    <3>1. hasRole(role, "MANAGER")
      BY <1>1, <2>5 DEF OnRowsOf
    <3>2. role = "MANAGER"
      BY <2>5, <3>1, RoleRanks
    <3> QED
      BY <2>1, <2>5, <3>2
  <2>6. CASE c.row = "goal" /\ ~hasRole(role, "HR_ADMIN") /\ row.whose # "own"
    BY <1>1, <2>2, <2>6 DEF OnRowsOf
  <2> QED
    BY <2>3, <2>4, <2>5, <2>6
<1>4. CASE first = "ok" /\ c.row # "none" /\ MayActOn(role, c)
  <2>1. VerdictOn(role, c) = "STATE" /\ Outcomes(row.kind, c.does, row.state) = {}
    BY <1>4 DEF VerdictOn
  <2>2. c.row = row.kind /\ seen \in c.when
    BY <1>4 DEF Offered
  <2>3. c.does # "none"
    BY <2>1 DEF Outcomes
  <2>4. Shape(c) \in ButtonsOf(page) /\ Shape(c) = Button(c.row, c.does, c.when)
    BY <2>3 DEF Sound, Shape
  <2>5. Shape(c).row = c.row /\ Shape(c).does = c.does /\ Shape(c).when = c.when
    BY <2>4 DEF Button
  <2>6. CASE row.state = seen
    <3>1. Shape(c) \notin Buttons
      BY <2>1, <2>2, <2>5, <2>6, ButtonMoves
    <3>2. page = "myAttendance" /\ Shape(c) = OtherMonth
      BY <2>4, <3>1 DEF ButtonsOf
    <3>3. c.row = "day" /\ c.does = "checkIn" /\ row.state \in {"in", "out", "absent"}
      BY <2>2, <2>5, <2>6, <3>2 DEF OtherMonth, Button
    <3>4. row.state = "in"
      BY <2>1, <2>2, <3>3, DayOutcomes
    <3> QED
      BY <2>1, <3>2, <3>4
  <2> QED
    BY <2>1, <2>6
<1>5. CASE first = "ok" /\ c.row = "none"
  BY <1>5 DEF VerdictOn
<1> QED
  BY <1>2, <1>3, <1>4, <1>5

\* What else is refused: a form, and on a row shown as it is the hire of an offer.
LEMMA ObjectedTo ==
  ASSUME NEW role \in Roles, NEW page, NEW c, Sound(role, c, ButtonsOf(page)), Offered(c),
         NEW result \in Answers(role, c), result # VerdictOn(role, c)
  PROVE  /\ VerdictOn(role, c) = "ok" /\ result # "ok"
         /\ row.state = seen =>
              \/ result = "TAKEN" /\ c.does = "hire" /\ row.state = "OFFER"
              \/ result = "FORM" /\ c.call.to \in JudgesForm
<1>1. VerdictOn(role, c) = "ok" /\ result \in Objections(c)
  BY DEF Answers, If
<1>2. \/ result = "FORM" /\ c.call.to \in JudgesForm
      \/ /\ result = "TAKEN" /\ c.row = "candidate" /\ c.does \in {"advance", "hire"}
         /\ "HIRED" \in Outcomes(row.kind, c.does, row.state)
  BY <1>1 DEF Objections, If
<1>3. ASSUME c.row = "candidate", c.does \in {"advance", "hire"}, row.state = seen,
             "HIRED" \in Outcomes(row.kind, c.does, row.state)
      PROVE  c.does = "hire" /\ row.state = "OFFER"
  <2>1. row.kind = "candidate" /\ row.state \in c.when
    BY <1>3 DEF Offered
  <2>2. Shape(c) \in Buttons \cup {OtherMonth} /\ Shape(c) = Button(c.row, c.does, c.when)
    BY <1>3 DEF Sound, Shape, ButtonsOf
  <2>3. Shape(c).row = c.row /\ Shape(c).does = c.does /\ Shape(c).when = c.when
    BY <2>2 DEF Button
  <2>4. Shape(c) \in Buttons
    BY <1>3, <2>2, <2>3 DEF OtherMonth, Button
  <2>5. \/ c.does = "advance" /\ c.when = {"APPLIED", "SCREENING", "INTERVIEW"}
        \/ c.does = "hire" /\ c.when = {"OFFER"}
    BY <1>3, <2>3, <2>4, ButtonsByRow
  <2>6. CASE c.does = "advance" /\ c.when = {"APPLIED", "SCREENING", "INTERVIEW"}
    <3>1. "HIRED" \in Outcomes("candidate", "advance", row.state)
      BY <1>3, <2>1, <2>6
    <3>2. row.state \in {"APPLIED", "SCREENING", "INTERVIEW"}
      BY <2>1, <2>6
    <3> QED
      BY <3>1, <3>2, CandidateOutcomes
  <2> QED
    BY <2>1, <2>5, <2>6
<1> QED
  BY <1>1, <1>2, <1>3

\* A button that is served does what some page offers by now, or is a known overwrite.
LEMMA ServedLate ==
  ASSUME RowInv, SeenInv, NEW role \in Roles, NEW c,
         screen.page # "none", screen.phase \in {"shown", "reloading"},
         Sound(role, c, ButtonsOf(screen.page)), Offered(c), VerdictOn(role, c) = "ok",
         c.does # "none", row.state # seen
  PROVE  \/ \E u \in Usual : u.row = c.row /\ u.does = c.does /\ row.state \in u.when
         \/ <<c.row, c.does, row.state>> \in KnownOverwrites
<1>1. /\ c.row # "none" /\ Shape(c) \in Buttons \cup {OtherMonth}
      /\ Shape(c) = Button(c.row, c.does, c.when)
  BY DEF Sound, Shape, ButtonsOf
<1>2. Shape(c).row = c.row /\ Shape(c).does = c.does /\ Shape(c).when = c.when
  BY <1>1 DEF Button
<1>3. c.row = row.kind /\ seen \in c.when
  BY <1>1 DEF Offered
<1>4. Outcomes(c.row, c.does, row.state) # {}
  BY <1>1, <1>3 DEF VerdictOn
<1>5. /\ Stored(c.row, seen) /\ Stored(c.row, row.state)
      /\ NeverBack(c.row, seen, row.state)
  BY <1>3 DEF RowInv, SeenInv
<1> QED
  BY <1>1, <1>2, <1>3, <1>4, <1>5, LateButton

LEMMA ClickKeeps ==
  ASSUME ConsoleInv, screen.page # "none", NEW c \in Site[user][screen.page].offers, Click(c)
  PROVE  ConsoleInv'
<1>0. PICK result \in Answers(user, c) :
         /\ answer' = [result |-> result, control |-> c, on |-> row.state, seen |-> seen]
         /\ IF result = "ok" /\ c.row # "none"
              THEN \E to \in Outcomes(row.kind, c.does, row.state) :
                     /\ row' = [row EXCEPT !.state = to]
                     /\ screen' = [screen EXCEPT !.phase = "reloading"]
              ELSE row' = row /\ screen' = screen
  BY DEF Click
<1>1. /\ screen.phase \in {"shown", "reloading"} /\ Offered(c)
      /\ answer' = [result |-> result, control |-> c, on |-> row.state, seen |-> seen]
      /\ user' = user /\ seen' = seen
  BY <1>0 DEF Click
<1>2. /\ user \in Roles /\ ScreenInv /\ RowInv /\ SeenInv
      /\ Sound(user, c, ButtonsOf(screen.page))
  BY <1>1, ControlsAreSound DEF ConsoleInv
<1>3. /\ RowInv' /\ SeenInv' /\ ScreenInv'
      /\ row'.whose = row.whose /\ screen'.page = screen.page
  <2>1. CASE result = "ok" /\ c.row # "none"
    <3>1. PICK to \in Outcomes(row.kind, c.does, row.state) :
             row' = [row EXCEPT !.state = to] /\ screen' = [screen EXCEPT !.phase = "reloading"]
      BY <1>0, <2>1
    <3>2. screen' = [page |-> screen.page, phase |-> "reloading"]
      BY <1>2, <3>1 DEF ScreenInv
    <3>3. ScreenInv' /\ screen'.page = screen.page
      BY <1>1, <1>2, <3>2 DEF ScreenInv
    <3>4. CASE c.does = "none"
      <4>1. to = row.state
        BY <3>1, <3>4 DEF Outcomes
      <4>2. row' = row
        BY <1>2, <3>1, <4>1 DEF RowInv
      <4> QED
        BY <1>1, <1>2, <3>2, <3>3, <4>2 DEF RowInv, SeenInv
    <3>5. CASE c.does # "none"
      <4>1. Shape(c) \in Buttons \cup {OtherMonth} /\ Shape(c) = Button(c.row, c.does, c.when)
        BY <1>2, <3>5 DEF Sound, Shape, ButtonsOf
      <4>2. Shape(c).row = row.kind /\ Shape(c).does = c.does
        BY <1>1, <2>1, <4>1 DEF Offered, Button
      <4>3. RowInv' /\ SeenInv' /\ row'.whose = row.whose
        BY <1>1, <1>2, <3>1, <3>3, <4>1, <4>2, RowMovesOn
      <4> QED
        BY <3>3, <4>3
    <3> QED
      BY <3>4, <3>5
  <2>2. CASE ~(result = "ok" /\ c.row # "none")
    <3>1. row' = row /\ screen' = screen
      BY <1>0, <2>2
    <3> QED
      BY <1>1, <1>2, <3>1 DEF RowInv, SeenInv, ScreenInv
  <2> QED
    BY <2>1, <2>2
<1>4. /\ answer'.result = result /\ answer'.control = c
      /\ answer'.on = row.state /\ answer'.seen = seen
  BY <1>1
<1>5. RefusalsAreKnown'
  <2> SUFFICES ASSUME result # "ok", row.state = seen
               PROVE  RefusalsAreKnown'
    BY <1>4 DEF RefusalsAreKnown
  <2>1. \/ result = "NO_EMPLOYEE" /\ user = "OWNER"
        \/ result = "FORBIDDEN" /\ user = "MANAGER" /\ row.whose # "report"
        \/ result = "FORBIDDEN" /\ c.does = "cancel" /\ hasRole(user, "HR_ADMIN")
        \/ result = "VALIDATION" /\ c.row = "form" /\ StoredRows \subseteq c.call.sends
        \/ result = "STATE" /\ row.state # seen
        \/ result = "STATE" /\ screen.page = "myAttendance" /\ row.state = "in"
        \/ result = "TAKEN" /\ c.does = "hire" /\ row.state = "OFFER"
        \/ result = "FORM" /\ c.call.to \in JudgesForm
    <3>1. CASE result = VerdictOn(user, c)
      BY <1>1, <1>2, <3>1, RefusedFor
    <3>2. CASE result # VerdictOn(user, c)
      BY <1>1, <1>2, <3>2, ObjectedTo
    <3> QED
      BY <3>1, <3>2
  <2> QED
    BY <1>1, <1>3, <1>4, <2>1 DEF RefusalsAreKnown
<1>6. OutdatedClicksAreHarmless'
  <2> SUFFICES ASSUME result = "ok", row.state # seen, c.does # "none"
               PROVE  OutdatedClicksAreHarmless'
    BY <1>4 DEF OutdatedClicksAreHarmless
  <2>1. \/ \E u \in Usual : u.row = c.row /\ u.does = c.does /\ row.state \in u.when
        \/ <<c.row, c.does, row.state>> \in KnownOverwrites
    <3>1. VerdictOn(user, c) = "ok"
      BY <1>1, <1>2, ObjectedTo
    <3> QED
      BY <1>1, <1>2, <3>1, ServedLate
  <2> QED
    BY <1>4, <2>1 DEF OutdatedClicksAreHarmless
<1> QED
  BY <1>1, <1>2, <1>3, <1>5, <1>6 DEF ConsoleInv

(* The user at the console: her page is one she could get to and that      *)
(* answered her, and the row has only moved forward since it was shown.    *)
THEOREM ConsoleInvariant == ConsoleSpec => []ConsoleInv
<1>1. ConsoleInit => ConsoleInv
  BY ConsoleStarts
<1>2. ConsoleInv /\ [ConsoleNext]_consoleVars => ConsoleInv'
  <2> SUFFICES ASSUME ConsoleInv, [ConsoleNext]_consoleVars PROVE ConsoleInv'
    OBVIOUS
  <2>1. CASE \E page \in DOMAIN Site[user] : Visit(page)
    BY <2>1, VisitKeeps
  <2>2. CASE Load
    BY <2>2, LoadKeeps
  <2>3. CASE screen.page # "none" /\ \E c \in Site[user][screen.page].offers : Click(c)
    BY <2>3, ClickKeeps
  <2>4. CASE Elsewhere
    BY <2>4, ElsewhereKeeps
  <2>5. CASE UNCHANGED consoleVars
    BY <2>5 DEF consoleVars, ConsoleInv, ScreenInv, RowInv, SeenInv, RefusalsAreKnown,
                OutdatedClicksAreHarmless
  <2> QED
    BY <2>1, <2>2, <2>3, <2>4, <2>5 DEF ConsoleNext
<1> QED
  BY <1>1, <1>2, PTL DEF ConsoleSpec

(* Every page a user can reach by the sidebar or a link opens for her, but *)
(* the chart and the exits, which ask for too many employees, an           *)
(* employee's directory and the owner's own form.                          *)
THEOREM ConsolePagesOpen == ConsoleSpec => []PagesOpen
<1>1. ConsoleInv => PagesOpen
  <2> SUFFICES ASSUME ConsoleInv, screen.phase = "failed"
               PROVE  Shut(user, screen.page)
    BY DEF Shut, PagesOpen
  <2>1. user \in Roles /\ Permitted(user, screen.page) /\ screen.page \notin Opened[user]
    BY DEF ConsoleInv, ScreenInv
  <2> QED
    BY <2>1, PermittedOpens
<1> QED
  BY <1>1, ConsoleInvariant, PTL

(* A control used on up-to-date data is never refused for the user's role, *)
(* and else only in the cases RefusalsAreKnown names: five of the caller,  *)
(* the body and the row, the hire of somebody who has a user already, and  *)
(* what a form says.                                                       *)
THEOREM ConsoleRefusals == ConsoleSpec => []RefusalsAreKnown
<1>1. ConsoleInv => RefusalsAreKnown
  BY DEF ConsoleInv
<1> QED
  BY <1>1, ConsoleInvariant, PTL

(* However many others act on the row after the page was loaded, a click   *)
(* that the server accepts does what some page offers for the row as it is *)
(* by then, or is one of the eleven overwrites the services let through.   *)
THEOREM ConsoleOutdatedClicks == ConsoleSpec => []OutdatedClicksAreHarmless
<1>1. ConsoleInv => OutdatedClicksAreHarmless
  BY DEF ConsoleInv
<1> QED
  BY <1>1, ConsoleInvariant, PTL
================================================================================
