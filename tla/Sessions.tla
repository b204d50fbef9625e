------------------------------- MODULE Sessions -------------------------------
(***************************************************************************)
(* The session of one user in one browser: AuthService (login, refresh,    *)
(* logout, resetPassword) and its refresh tokens, and the api client of    *)
(* the frontend (apiFetch, tryRefresh, logout, the restore on page load)   *)
(* with the token store the tabs of a browser share.                       *)
(*                                                                         *)
(* A token pair is one identity: its refresh token has a row on the server *)
(* and its access token a lifetime nobody can cut short.  A call is a      *)
(* fetch of the browser together with the server's handler; its pc names   *)
(* the next query or answer, and calls interleave at each of them.         *)
(***************************************************************************)
EXTENDS FiniteSets

CONSTANTS
  Pairs,  \* token pairs that can be issued
  Calls,  \* slots for calls in flight
  None

ASSUME NoneAssumption == None \notin Pairs

VARIABLES
  tokens,     \* pair -> state of the row of its refresh token
  fresh,      \* pair -> its access token has not expired
  parent,     \* history: pair -> the pair whose refresh token it replaced, or None
  store,      \* the pair in the browser's token store, or None
  calls,      \* slot -> call in flight
  ended,      \* history: the user has logged out or reset the password, or the
              \* session has expired, since the last login
  contended,  \* history: two calls were past their guard on the server at once
  lost        \* history: an answer was lost, an error, or a pair was overwritten

vars == <<tokens, fresh, parent, store, calls, ended, contended, lost>>

----------------------------------------------------------------------------

TokenStates == {"free", "live", "expired", "revoked"}
Idle == [pc |-> "idle"]
RefreshPcs == {"check", "revokeAll", "refused", "rotate", "issue", "answer"}
Call ==
  [op : {"fetch", "restore"}, pc : {"sent"}, pair : Pairs \cup {None}, retried : BOOLEAN]
    \cup [op : {"fetch", "restore"}, pc : RefreshPcs, pair : Pairs, retried : {TRUE}]
    \cup [op : {"login"}, pc : {"issue", "answer"}, pair : Pairs \cup {None}, retried : {FALSE}]
    \cup [op : {"logout"}, pc : {"find", "revoke", "answer"}, pair : Pairs, retried : {FALSE}]
    \cup [op : {"reset"}, pc : {"revokeAll"}, pair : {None}, retried : {FALSE}]

At(c, op, pc) == calls[c].pc = pc /\ calls[c].op \in op
Fetch == {"fetch", "restore"}
Put(c, call) == calls' = [calls EXCEPT ![c] = call]
Goto(c, pc) == calls' = [calls EXCEPT ![c].pc = pc]
Return(c) == Put(c, Idle)

\* Calls whose handler on the server, or whose answer, is about the tokens.
OnServer == {c \in Calls : calls[c].pc \notin {"idle", "sent"}}
Enter == contended' = (contended \/ OnServer # {})

RevokeAll ==
  tokens' = [t \in Pairs |-> IF tokens[t] = "free" THEN "free" ELSE "revoked"]

----------------------------------------------------------------------------
(* apiFetch, and the getMe that restores the session when a page loads *)

Send(c, op) ==
  /\ calls[c] = Idle
  /\ op = "restore" => store # None
  /\ Put(c, [op |-> op, pc |-> "sent", pair |-> store, retried |-> FALSE])
  /\ UNCHANGED <<tokens, fresh, parent, store, ended, contended, lost>>

Accepted(c) == calls[c].pair # None /\ fresh[calls[c].pair]

\* A page that fails to restore the session clears the store.
StoreAfterError(c) == IF calls[c].op = "restore" THEN None ELSE store

AnswerAccepted(c) ==
  /\ At(c, Fetch, "sent")
  /\ Accepted(c)
  /\ Return(c)
  /\ UNCHANGED <<tokens, fresh, parent, store, ended, contended, lost>>

\* Seeded fault: the client refreshes with the pair it sent, not the one stored.
RefreshWithSent(c) == calls[c].pair

\* tryRefresh takes the refresh token that is in the store by then.
RefreshWith(c) == store

\* Seeded fault: an empty store is not noticed.
GivesUpOnRetry(c) == calls[c].retried

GivesUp(c) == calls[c].retried \/ RefreshWith(c) = None

\* 401: one refresh, unless this is the retry or nothing is stored.
AnswerUnauthorized(c) ==
  /\ At(c, Fetch, "sent")
  /\ ~Accepted(c)
  /\ IF GivesUp(c)
       THEN /\ Return(c)
            /\ store' = StoreAfterError(c)
            /\ UNCHANGED contended
       ELSE /\ Put(c, [op |-> calls[c].op, pc |-> "check", pair |-> RefreshWith(c),
                       retried |-> TRUE])
            /\ Enter
            /\ UNCHANGED store
  /\ UNCHANGED <<tokens, fresh, parent, ended, lost>>

\* Seeded fault: a revoked refresh token is honoured.
HonouredUntilExpired(state) == state \in {"live", "revoked"}

Honoured(state) == state = "live"

RefreshCheck(c) ==
  /\ At(c, Fetch, "check")
  /\ Goto(c, IF Honoured(tokens[calls[c].pair]) THEN "rotate" ELSE "revokeAll")
  /\ UNCHANGED <<tokens, fresh, parent, store, ended, contended, lost>>

\* Reuse detection.
RefreshRevokeAll(c) ==
  /\ At(c, Fetch, "revokeAll")
  /\ RevokeAll
  /\ Goto(c, "refused")
  /\ UNCHANGED <<fresh, parent, store, ended, contended, lost>>

RefreshRefused(c) ==
  /\ At(c, Fetch, "refused")
  /\ store' = None
  /\ Return(c)
  /\ UNCHANGED <<tokens, fresh, parent, ended, contended, lost>>

\* Seeded fault: rotation leaves the old token as it is.
RotatedKeeping(t) == tokens

Rotated(t) == [tokens EXCEPT ![t] = "revoked"]

\* The old token is revoked before the new one is stored.
RefreshRotate(c) ==
  /\ At(c, Fetch, "rotate")
  /\ tokens' = Rotated(calls[c].pair)
  /\ Goto(c, "issue")
  /\ UNCHANGED <<fresh, parent, store, ended, contended, lost>>

\* issueTokenPair stores the refresh token of a new pair.
Issue(c, t) ==
  /\ At(c, Fetch \cup {"login"}, "issue")
  /\ tokens[t] = "free"
  /\ tokens' = [tokens EXCEPT ![t] = "live"]
  /\ fresh' = [fresh EXCEPT ![t] = TRUE]
  /\ parent' = [parent EXCEPT ![t] = calls[c].pair]
  /\ calls' = [calls EXCEPT ![c].pc = "answer", ![c].pair = t]
  /\ UNCHANGED <<store, ended, contended, lost>>

\* The client stores the pair and repeats the request.
RefreshAnswer(c) ==
  /\ At(c, Fetch, "answer")
  /\ store' = calls[c].pair
  /\ Goto(c, "sent")
  /\ UNCHANGED <<tokens, fresh, parent, ended, contended, lost>>

----------------------------------------------------------------------------
(* Login, logout, reset *)

\* login has verified the password; acceptInvite and signup end the same way.
LoginStart(c) ==
  /\ calls[c] = Idle
  /\ Put(c, [op |-> "login", pc |-> "issue", pair |-> None, retried |-> FALSE])
  /\ Enter
  /\ UNCHANGED <<tokens, fresh, parent, store, ended, lost>>

LoginAnswer(c) ==
  /\ At(c, {"login"}, "answer")
  /\ store' = calls[c].pair
  /\ ended' = (tokens[calls[c].pair] # "live")
  /\ lost' = (lost \/ store # None)
  /\ Return(c)
  /\ UNCHANGED <<tokens, fresh, parent, contended>>

LogoutStart(c) ==
  /\ calls[c] = Idle
  /\ store # None
  /\ Put(c, [op |-> "logout", pc |-> "find", pair |-> store, retried |-> FALSE])
  /\ ended' = TRUE
  /\ Enter
  /\ UNCHANGED <<tokens, fresh, parent, store, lost>>

\* A token that is already revoked is left alone.
LogoutFind(c) ==
  /\ At(c, {"logout"}, "find")
  /\ Goto(c, IF tokens[calls[c].pair] = "revoked" THEN "answer" ELSE "revoke")
  /\ UNCHANGED <<tokens, fresh, parent, store, ended, contended, lost>>

LogoutRevoke(c) ==
  /\ At(c, {"logout"}, "revoke")
  /\ tokens' = [tokens EXCEPT ![calls[c].pair] = "revoked"]
  /\ Goto(c, "answer")
  /\ UNCHANGED <<fresh, parent, store, ended, contended, lost>>

\* The store is cleared in any case.
LogoutAnswer(c) ==
  /\ At(c, {"logout"}, "answer")
  /\ store' = None
  /\ ended' = TRUE
  /\ Return(c)
  /\ UNCHANGED <<tokens, fresh, parent, contended, lost>>

\* resetPassword has stored the new password.
ResetStart(c) ==
  /\ calls[c] = Idle
  /\ Put(c, [op |-> "reset", pc |-> "revokeAll", pair |-> None, retried |-> FALSE])
  /\ ended' = TRUE
  /\ Enter
  /\ UNCHANGED <<tokens, fresh, parent, store, lost>>

ResetRevokeAll(c) ==
  /\ At(c, {"reset"}, "revokeAll")
  /\ RevokeAll
  /\ ended' = TRUE
  /\ Return(c)
  /\ UNCHANGED <<fresh, parent, store, contended, lost>>

----------------------------------------------------------------------------
(* Time and failures *)

\* A call is short beside the 15 minutes of an access token and the 30 days of
\* a refresh token: no pair expires on its way to the browser or in a retry.
Underway(t) ==
  \E c \in Calls : At(c, Fetch \cup {"login"}, "answer") /\ calls[c].pair = t
Retrying(t) ==
  \E c \in Calls : At(c, Fetch, "sent") /\ calls[c].retried /\ calls[c].pair = t

AccessExpires(t) ==
  /\ fresh[t]
  /\ ~Underway(t) /\ ~Retrying(t)
  /\ fresh' = [fresh EXCEPT ![t] = FALSE]
  /\ UNCHANGED <<tokens, parent, store, calls, ended, contended, lost>>

RefreshExpires(t) ==
  /\ tokens[t] = "live"
  /\ ~Underway(t)
  /\ tokens' = [tokens EXCEPT ![t] = "expired"]
  /\ ended' = (ended \/ t = store)
  /\ UNCHANGED <<fresh, parent, store, calls, contended, lost>>

\* No answer arrives: the network or the server fails, before or after the
\* handler's effects.  logout clears the store all the same.
NoAnswer(c) ==
  /\ calls[c] # Idle
  /\ store' = IF calls[c].op = "logout" THEN None ELSE StoreAfterError(c)
  /\ lost' = TRUE
  /\ Return(c)
  /\ UNCHANGED <<tokens, fresh, parent, ended, contended>>

\* A query of refresh fails: to the client any answer but success is a refusal.
RefreshFails(c) ==
  /\ \E pc \in {"check", "revokeAll", "rotate", "issue"} : At(c, Fetch, pc)
  /\ store' = None
  /\ lost' = TRUE
  /\ Return(c)
  /\ UNCHANGED <<tokens, fresh, parent, ended, contended>>

----------------------------------------------------------------------------

Init ==
  /\ tokens = [t \in Pairs |-> "free"]
  /\ fresh = [t \in Pairs |-> FALSE]
  /\ parent = [t \in Pairs |-> None]
  /\ store = None
  /\ calls = [c \in Calls |-> Idle]
  /\ ended = TRUE
  /\ contended = FALSE
  /\ lost = FALSE

Next ==
  \/ \E c \in Calls :
       \/ \E op \in Fetch : Send(c, op)
       \/ AnswerAccepted(c) \/ AnswerUnauthorized(c)
       \/ RefreshCheck(c) \/ RefreshRevokeAll(c) \/ RefreshRefused(c)
       \/ RefreshRotate(c) \/ RefreshAnswer(c)
       \/ \E t \in Pairs : Issue(c, t)
       \/ LoginStart(c) \/ LoginAnswer(c)
       \/ LogoutStart(c) \/ LogoutFind(c) \/ LogoutRevoke(c) \/ LogoutAnswer(c)
       \/ ResetStart(c) \/ ResetRevokeAll(c)
       \/ NoAnswer(c) \/ RefreshFails(c)
  \/ \E t \in Pairs : AccessExpires(t) \/ RefreshExpires(t)

Spec == Init /\ [][Next]_vars

----------------------------------------------------------------------------
(* Properties *)

\* The store, the rows and the calls have the shape the code gives them.
TypeOK ==
  /\ tokens \in [Pairs -> TokenStates]
  /\ fresh \in [Pairs -> BOOLEAN]
  /\ parent \in [Pairs -> Pairs \cup {None}]
  /\ store \in Pairs \cup {None}
  /\ calls \in [Calls -> {Idle} \cup Call]
  /\ {ended, contended, lost} \subseteq BOOLEAN

\* A user who has not logged out stays signed in while requests are sent in
\* parallel and access tokens expire under them, as long as the refreshes
\* themselves do not overlap and no answer is lost.
StaysSignedIn ==
  ~ended /\ ~contended /\ ~lost =>
    store # None /\ (OnServer = {} => tokens[store] = "live")

\* frontend/src/lib/api/client.ts:50: apiFetch "transparently refreshes once on
\* a 401", whatever else the page fetches meanwhile.
RefreshIsTransparent ==
  ~ended /\ ~lost => store # None

\* Between calls no refresh token lives but the one in the store: rotation,
\* logout and reset leave no other behind, unless calls overlapped on the server
\* or an answer was lost.
OnlyStoredTokenLives ==
  ~contended /\ ~lost /\ OnServer = {} => {t \in Pairs : tokens[t] = "live"} \subseteq {store}

\* A refresh token is replaced at most once (docs/03, 3.3: "a revoked token
\* cannot be reused"), also after its answer was lost and it is presented again.
ReplacedAtMostOnce ==
  ~contended => \A t, u \in Pairs : t # u /\ parent[t] = parent[u] => parent[t] = None
=============================================================================
