---------------------------- MODULE Notifications ----------------------------
(***************************************************************************)
(* What becomes of a domain event: a service stores a row, looks up the    *)
(* recipient and publishes; DomainEventBus hands the event to the handler  *)
(* on a later turn of the loop; NotificationService.dispatch stores a      *)
(* notification, calls the provider and marks the outcome.                 *)
(*                                                                         *)
(* Events live in the memory of the process until the notification is      *)
(* stored, and a dispatch that has begun lives there until it ends.  The   *)
(* template is a read and the rendered text is left out.                   *)
(***************************************************************************)
EXTENDS Naturals

CONSTANT Events  \* events published by leaves, attendance and invitations

VARIABLES
  event,      \* event -> the next step on its way, "none" before and "ended" after
  notice,     \* event -> status of its notification row
  delivered,  \* event -> deliveries the recipient got
  broken      \* history: events that met a failing query, a lost answer or a crash

noticeVars == <<event, notice, delivered, broken>>

Goes(v, to) == event' = [event EXCEPT ![v] = to]
Marks(v, to) == notice' = [notice EXCEPT ![v] = to]
Breaks(v) == broken' = broken \cup {v}

\* The steps in which an event, or its dispatch, is in memory only.
InMemory(v) == event[v] \notin {"none", "ended"}

NoticeInit ==
  /\ event = [v \in Events |-> "none"]
  /\ notice = [v \in Events |-> "none"]
  /\ delivered = [v \in Events |-> 0]
  /\ broken = {}

----------------------------------------------------------------------------
\* The row the event is about is committed; its handler goes on.
StoreSubject(v) ==
  /\ event[v] = "none" /\ Goes(v, "stored")
  /\ UNCHANGED <<notice, delivered, broken>>

\* The recipient is looked up: published, or there is nobody to tell (an
\* employee without a manager).  publish only schedules (setImmediate).
Publish(v) ==
  /\ event[v] = "stored"
  /\ \E to \in {"published", "ended"} : Goes(v, to)
  /\ UNCHANGED <<notice, delivered, broken>>

\* The scheduled callback starts the handler, each event's on its own.
HandleEvent(v) ==
  /\ event[v] = "published" /\ Goes(v, "create")
  /\ UNCHANGED <<notice, delivered, broken>>

CreateNotice(v) ==
  /\ event[v] = "create" /\ Goes(v, "send")
  /\ Marks(v, "QUEUED")
  /\ UNCHANGED <<delivered, broken>>

\* Seeded fault: a provider that answers "not ok" ends the dispatch.
AfterAnswerOnlyOk(ok) == IF ok THEN "markSent" ELSE "ended"

\* The mark that follows the provider's answer.
AfterAnswer(ok) == IF ok THEN "markSent" ELSE "noteFailed"

\* The provider delivers or says it cannot; or the call throws, which it may
\* do after the message has gone out.
SendNotice(v) ==
  /\ event[v] = "send"
  /\ \/ \E ok \in BOOLEAN :
          /\ Goes(v, AfterAnswer(ok))
          /\ delivered' = IF ok THEN [delivered EXCEPT ![v] = @ + 1] ELSE delivered
          /\ UNCHANGED broken
     \/ /\ Goes(v, "markFailed")
        /\ \E n \in {0, 1} : delivered' = [delivered EXCEPT ![v] = @ + n]
        /\ Breaks(v)
  /\ UNCHANGED notice

MarkSent(v) ==
  /\ event[v] = "markSent" /\ Goes(v, "ended") /\ Marks(v, "SENT")
  /\ UNCHANGED <<delivered, broken>>

\* In the try block ("noteFailed") or in the catch.
MarkFailed(v) ==
  /\ event[v] \in {"noteFailed", "markFailed"} /\ Goes(v, "ended") /\ Marks(v, "FAILED")
  /\ UNCHANGED <<delivered, broken>>

\* Seeded fault: a dispatch whose query failed is tried again from its start.
AfterErrorRetried(step) == IF step \in {"markSent", "noteFailed"} THEN "markFailed" ELSE "create"

\* A failing query ends the call or the dispatch (the bus logs it), but those
\* in the try block lead to the catch.
AfterError(step) == IF step \in {"markSent", "noteFailed"} THEN "markFailed" ELSE "ended"

QueryFails(v) ==
  /\ event[v] \in {"stored", "create", "markSent", "noteFailed", "markFailed"}
  /\ Goes(v, AfterError(event[v]))
  /\ Breaks(v)
  /\ UNCHANGED <<notice, delivered>>

\* The process dies: nothing looks for rows without a notification, or for
\* QUEUED ones, when it starts again.
ProcessDies ==
  /\ \E v \in Events : InMemory(v)
  /\ event' = [v \in Events |-> IF InMemory(v) THEN "ended" ELSE event[v]]
  /\ broken' = broken \cup {v \in Events : InMemory(v)}
  /\ UNCHANGED <<notice, delivered>>

----------------------------------------------------------------------------
\* What the loop does with an event once it is published.
Dispatch(v) ==
  HandleEvent(v) \/ CreateNotice(v) \/ SendNotice(v) \/ MarkSent(v) \/ MarkFailed(v)

NoticeNext ==
  \/ \E v \in Events : StoreSubject(v) \/ Publish(v) \/ Dispatch(v) \/ QueryFails(v)
  \/ ProcessDies

\* The event loop runs every callback, and every query and provider call
\* settles, unless the process dies.
NoticeFairness == \A v \in Events : WF_noticeVars(Dispatch(v))

NoticeSpec == NoticeInit /\ [][NoticeNext]_noticeVars /\ NoticeFairness

----------------------------------------------------------------------------
\* A message is on record before it goes out, goes out at most once, and is
\* SENT only if it did.  Where nothing broke, the row says what happened; a
\* delivered message may be FAILED, or stay QUEUED, only after a failing query,
\* a lost answer or a crash.
NoticesAreTruthful ==
  \A v \in Events :
    /\ delivered[v] <= 1
    /\ delivered[v] = 1 => notice[v] # "none"
    /\ notice[v] = "SENT" => delivered[v] = 1
    /\ v \notin broken /\ notice[v] = "FAILED" => delivered[v] = 0
    /\ v \notin broken /\ notice[v] = "QUEUED" => event[v] # "ended"

\* Whatever happens to other events, a published one is settled, SENT or
\* FAILED, unless something broke on its own way (event-bus.ts:27 isolates the
\* handlers).
PublishedEventsSettle ==
  \A v \in Events :
    event[v] = "published" ~> (notice[v] \in {"SENT", "FAILED"} \/ v \in broken)
=============================================================================
