--------------------------- MODULE WorkspaceSync ---------------------------
(***************************************************************************)
(* How one client's workspace projection follows the server's workspace.   *)
(*                                                                         *)
(*   server: the workspace revision, the bounded event journal             *)
(*     (events.ts), one subscription's activation (connection.ts) and its  *)
(*     state lane in the outbound pump (outboundDelivery.ts);              *)
(*   client: the subscription's buffer (client.ts) and the coalesced       *)
(*     refreshes of WorkspaceSnapshotStore.ts.                             *)
(*                                                                         *)
(* Answers travel in the control queue and events in the lane, so neither  *)
(* is ordered against the other.  A workspace is the set of changes it     *)
(* holds; each committed change is one journal event.                      *)
(***************************************************************************)
EXTENDS Integers, Sequences, SequencesExt, FiniteSets, FiniteSetsExt

CONSTANTS
    MaxRevision,      \* bound: changes the server commits
    Bases,            \* revisions the server may have restarted at
    JournalWindow,    \* maxEvents of the journal
    HistoryWindow,    \* commits the workspace keeps records of
    LaneFrames,       \* maxStateQueuedFrames
    MaxBuffered,      \* MAX_PRE_LISTENER_EVENTS
    MaxAsks,          \* bound: refreshes the user interface asks for
    MaxFailures,      \* bound: requests that fail
    Nothing           \* no projection, no frame

ASSUME SyncAssumption ==
    /\ MaxRevision \in Nat /\ Bases \subseteq 0..MaxRevision
    /\ {JournalWindow, HistoryWindow, LaneFrames, MaxBuffered} \subseteq Nat \ {0}
    /\ MaxAsks \in Nat /\ MaxFailures \in Nat

VARIABLES
    base,          \* the revision the server process started from
    revision,      \* WorkspaceStore: the committed revision
    activation,    \* activateEventSubscription: where it is, what it still sends
    control, lane, resyncPending, sending,     \* the outbound pump
    wire,          \* frames on their way to the client
    request,       \* the store's query, until the server answers it
    subscription,  \* ClientSubscription: listeners, buffer, resync notice
    held,          \* WorkspaceSnapshotStore.known
    loop,          \* refreshUntilSettled: where it is
    fetch,         \* fetchAndPublish: the projection it started from, the answer
    again, awaited, force,
    status,        \* reconciliationStatus, as the user is shown it
    abandoned,     \* history: a refresh failed, and no query was answered since
    late,          \* history: asked in a refresh's last turn, nothing fetched since
    asked,         \* refreshes asked for, and the newest revision then committed
    failures

serverVars == <<base, revision, activation, control, lane, resyncPending, sending>>
storeVars == <<held, loop, fetch, again, awaited, force, status, abandoned, late, request>>
vars == <<serverVars, storeVars, wire, subscription, asked, failures>>

----------------------------------------------------------------------------
(* Projections and frames                                                  *)

Projections == [revision : 0..MaxRevision, changes : SUBSET (1..MaxRevision)]
WorkspaceAt(r) == [revision |-> r, changes |-> 1..r]

Event(r, withRecord) == [type |-> "event", revision |-> r, record |-> withRecord]
ResyncNotice == [type |-> "event_resync"]
Result == [type |-> "command_result"]

Requests == [operation : {"snapshot", "delta"}, ticket : 0..MaxFailures, from : 0..MaxRevision]
Queues == {[queue |-> "control"], [queue |-> "lane"]}

ASSUME NothingAssumption == Nothing \notin Projections \union Requests \union Queues

Newest(a, b) == IF a > b THEN a ELSE b

(* The first revision still in a window that forgets what precedes the     *)
(* server's start: events[0] of the journal, history[0] of the workspace.  *)
Oldest(window) == Newest(base, revision - window) + 1

(* createWorkspaceChangeEventProjector: the record of a retained commit.   *)
Projected(r) == Event(r, r >= Oldest(HistoryWindow))

----------------------------------------------------------------------------
(* The server                                                              *)

LaneHeadActive == sending # Nothing /\ sending.queue = "lane"

(* sendState and congestStateLane, for frames with a key of their own. *)
SendState(event) ==
    IF resyncPending THEN UNCHANGED <<lane, resyncPending>>
    ELSE IF Len(lane) < LaneFrames
    THEN lane' = Append(lane, event) /\ UNCHANGED resyncPending
    ELSE /\ lane' = Append(IF LaneHeadActive THEN <<Head(lane)>> ELSE <<>>, ResyncNotice)
         /\ resyncPending' = TRUE

(* A commit, its journal event, and the subscription's listener. *)
Commit ==
    /\ revision < MaxRevision
    /\ revision' = revision + 1
    /\ LET event == Event(revision + 1, TRUE)
       IN CASE activation.phase \in {"resync", "replay"} ->
                 /\ activation' = [activation EXCEPT !.pending = Append(@, event)]
                 /\ UNCHANGED <<lane, resyncPending>>
            [] activation.phase = "live" -> SendState(event) /\ UNCHANGED activation
            [] OTHER -> UNCHANGED <<activation, lane, resyncPending>>
    /\ UNCHANGED <<base, control, sending, wire, storeVars, subscription, asked, failures>>

(* The subscribe command is valid: its result leaves first. *)
AcceptSubscription ==
    /\ activation.phase = "none"
    /\ activation' = [activation EXCEPT !.phase = "accepted"]
    /\ control' = Append(control, Result)
    /\ UNCHANGED <<base, revision, lane, resyncPending, sending, wire, storeVars,
                   subscription, asked, failures>>

Sent(frame) == \A i \in DOMAIN control : control[i] # frame
EventSent(r) == \A i \in DOMAIN lane : lane[i].type = "event" => lane[i].revision # r

(* journal.replay(0): a client subscribes from the revision it starts at. *)
MustResync == revision > base /\ Oldest(JournalWindow) > 1
Replayed == [i \in 1..(revision + 1 - Oldest(JournalWindow)) |-> Oldest(JournalWindow) + i - 1]

Activate ==
    /\ activation.phase = "accepted" /\ Sent(Result)
    /\ IF MustResync
       THEN /\ control' = Append(control, ResyncNotice)
            /\ activation' = [activation EXCEPT !.phase = "resync"]
       ELSE /\ activation' = [activation EXCEPT !.phase = "replay", !.todo = Replayed]
            /\ UNCHANGED control
    /\ UNCHANGED <<base, revision, lane, resyncPending, sending, wire, storeVars,
                   subscription, asked, failures>>

(* The watermark left: what was held back meanwhile is dropped. *)
ResyncSent ==
    /\ activation.phase = "resync" /\ Sent(ResyncNotice)
    /\ activation' = [activation EXCEPT !.phase = "live", !.pending = <<>>]
    /\ UNCHANGED <<base, revision, control, lane, resyncPending, sending, wire,
                   storeVars, subscription, asked, failures>>

(* One awaited sendEvent of the replay. *)
ReplayNext ==
    /\ activation.phase = "replay" /\ activation.todo # <<>>
    /\ EventSent(activation.last)
    /\ activation' = [activation EXCEPT !.todo = Tail(@), !.last = Head(activation.todo)]
    /\ SendState(Projected(Head(activation.todo)))
    /\ UNCHANGED <<base, revision, control, sending, wire, storeVars, subscription,
                   asked, failures>>

(* The events held back follow, awaited one at a time ... *)
SendHeldBack ==
    IF activation.pending = <<>>
    THEN /\ activation' = [activation EXCEPT !.phase = "live"]
         /\ UNCHANGED <<lane, resyncPending>>
    ELSE /\ activation' = [activation EXCEPT !.phase = "live", !.pending = Tail(@),
                                             !.last = Head(activation.pending).revision]
         /\ SendState(Head(activation.pending))

(* ... but replaying is already false when the first is sent, so a later   *)
(* event goes to the lane ahead of the ones still held back.               *)
ReplayEnds ==
    /\ activation.phase = "replay" /\ activation.todo = <<>>
    /\ EventSent(activation.last)
    /\ SendHeldBack
    /\ UNCHANGED <<base, revision, control, sending, wire, storeVars, subscription,
                   asked, failures>>

DrainNext ==
    /\ activation.phase = "live" /\ activation.pending # <<>>
    /\ EventSent(activation.last)
    /\ SendHeldBack
    /\ UNCHANGED <<base, revision, control, sending, wire, storeVars, subscription,
                   asked, failures>>

(* workspace.delta and workspace.snapshot.  A request may follow from a    *)
(* frame its client received, and what the server does on that frame's     *)
(* completion precedes every request that can follow from it.              *)
CompletionHandled ==
    sending = Nothing /\ ~(activation.phase = "resync" /\ Sent(ResyncNotice))

Answer ==
    /\ request # Nothing /\ CompletionHandled
    /\ control' = Append(control,
         [type |-> "answer", ticket |-> request.ticket, to |-> revision,
          whole |-> \/ request.operation = "snapshot"
                    \/ /\ request.from # revision
                       /\ request.from < Oldest(HistoryWindow) - 1])
    /\ request' = Nothing
    /\ UNCHANGED <<base, revision, activation, lane, resyncPending, sending, wire,
                   held, loop, fetch, again, awaited, force, status, abandoned,
                   late, subscription, asked, failures>>

(* The pump hands the head of a queue to the transport ... *)
Deliver ==
    /\ sending = Nothing
    /\ \/ control # <<>> /\ sending' = [queue |-> "control"] /\ wire' = Append(wire, Head(control))
       \/ lane # <<>> /\ sending' = [queue |-> "lane"] /\ wire' = Append(wire, Head(lane))
    /\ UNCHANGED <<base, revision, activation, control, lane, resyncPending, storeVars,
                   subscription, asked, failures>>

(* ... and completes it. *)
Delivered ==
    /\ sending # Nothing
    /\ sending' = Nothing
    /\ IF sending.queue = "control"
       THEN control' = Tail(control) /\ UNCHANGED <<lane, resyncPending>>
       ELSE /\ lane' = Tail(lane)
            /\ resyncPending' = (resyncPending /\ Head(lane) # ResyncNotice)
            /\ UNCHANGED control
    /\ UNCHANGED <<base, revision, activation, wire, storeVars, subscription, asked,
                   failures>>

----------------------------------------------------------------------------
(* The store                                                               *)

(* Start one fetch: refreshUntilSettled and the head of fetchAndPublish. *)
Fetch(operation, previous, ticket) ==
    /\ fetch' = [previous |-> previous, answer |-> Nothing]
    /\ request' = [operation |-> operation, ticket |-> ticket,
                   from |-> IF operation = "delta" THEN previous.revision ELSE 0]
    /\ loop' = operation

FetchNext(forced) ==
    /\ again' = FALSE
    /\ force' = FALSE
    /\ late' = FALSE
    /\ Fetch(IF held = Nothing \/ forced THEN "snapshot" ELSE "delta",
             held, failures)

(* Join the refresh in flight, also when it looks no more. *)
Join ==
    /\ loop # "idle"
    /\ late' = (late \/ loop = "settled")
    /\ UNCHANGED <<loop, fetch, request>>

(* refresh() *)
Refresh(forced) ==
    \/ Join /\ again' = TRUE /\ force' = forced
    \/ loop = "idle" /\ FetchNext(forced)

(* refreshTo(): remember how far a refresh in flight has to get. *)
RefreshTo(r) ==
    \/ Join /\ awaited' = Newest(awaited, r) /\ UNCHANGED <<again, force>>
    \/ loop = "idle" /\ FetchNext(force) /\ UNCHANGED awaited

ApplyRecord(projection, r) ==
    [revision |-> r, changes |-> projection.changes \union {r}]

(* Mutants: the record's first revision is not compared with the one held, *)
(* and a record is applied while a refresh decides the next projection.    *)
AdvancesFromAny(event) ==
    event.record /\ held # Nothing /\ loop = "idle" /\ ~force
AdvancesDuringRefresh(event) ==
    event.record /\ held # Nothing /\ ~force /\ held.revision = event.revision - 1

(* advanceByRecord is not declined. *)
Advances(event) ==
    /\ event.record /\ held # Nothing
    /\ loop = "idle" /\ ~force
    /\ held.revision = event.revision - 1

(* The store's listener for workspace.changed.  A record applied is        *)
(* published, also when the last refresh failed.                           *)
Heard(event) ==
    /\ IF held # Nothing /\ event.revision <= held.revision
       THEN UNCHANGED <<held, status, loop, fetch, request, again, awaited, force, late>>
       ELSE IF Advances(event)
       THEN /\ held' = ApplyRecord(held, event.revision)
            /\ status' = "current"
            /\ UNCHANGED <<loop, fetch, request, again, awaited, force, late>>
       ELSE RefreshTo(event.revision) /\ UNCHANGED <<held, status>>
    /\ UNCHANGED abandoned

(* The store's listener for event_resync. *)
HeardResync ==
    /\ Refresh(TRUE)
    /\ status' = "stale"
    /\ UNCHANGED <<held, awaited, abandoned>>

ReceiveResult ==
    /\ Head(wire) = Result
    /\ subscription' = [subscription EXCEPT !.phase = "answered"]
    /\ UNCHANGED storeVars

(* An answer to a request that failed meanwhile has nobody waiting for it. *)
ReceiveAnswer ==
    /\ Head(wire).type = "answer"
    /\ IF Head(wire).ticket = failures
       THEN loop' = "answered" /\ fetch' = [fetch EXCEPT !.answer = Head(wire)]
       ELSE UNCHANGED <<loop, fetch>>
    /\ UNCHANGED <<subscription, held, again, awaited, force, status, abandoned, late,
                   request>>

ReceiveEvent ==
    /\ Head(wire).type = "event"
    /\ IF subscription.phase \in {"attached", "started"}
       THEN Heard(Head(wire)) /\ UNCHANGED subscription
       ELSE /\ subscription' =
                 IF Len(subscription.buffered) < MaxBuffered
                 THEN [subscription EXCEPT !.buffered = Append(@, Head(wire))]
                 ELSE [subscription EXCEPT !.buffered = <<>>, !.overflow = TRUE]
            /\ UNCHANGED storeVars

ReceiveResync ==
    /\ Head(wire) = ResyncNotice
    /\ subscription' = [subscription EXCEPT !.buffered = <<>>, !.resync = TRUE]
    /\ IF subscription.phase \in {"attached", "started"}
       THEN HeardResync
       ELSE UNCHANGED storeVars

(* TerminayClient.process.  The reader takes the frames of a backlog in    *)
(* one chain of promise continuations, so a frame may come between any two *)
(* steps of a refresh.                                                     *)
Receive ==
    /\ wire # <<>>
    /\ ReceiveResult \/ ReceiveAnswer \/ ReceiveEvent \/ ReceiveResync
    /\ wire' = Tail(wire)
    /\ UNCHANGED <<serverVars, asked, failures>>

(* subscribeToChanges after subscribe(): onEvent replays the buffer unless *)
(* a resync superseded it, onResync repeats the notice.  Without a         *)
(* projection the first buffered event starts a refresh and the others     *)
(* only say how far it has to get.                                         *)
Attach ==
    /\ subscription.phase = "answered" /\ ~subscription.overflow
    /\ subscription' = [subscription EXCEPT !.phase = "attached", !.buffered = <<>>]
    /\ LET queued == {subscription.buffered[i].revision : i \in DOMAIN subscription.buffered}
       IN IF subscription.resync
          THEN HeardResync
          ELSE IF queued # {}
          THEN /\ FetchNext(FALSE)
               /\ awaited' = IF Cardinality(queued) > 1 THEN Max(queued) ELSE awaited
               /\ UNCHANGED <<held, status, abandoned>>
          ELSE UNCHANGED storeVars
    /\ UNCHANGED <<serverVars, wire, asked, failures>>

(* onEvent throws after an overflow, and start() with it. *)
AttachOverflowed ==
    /\ subscription.phase = "answered" /\ subscription.overflow
    /\ subscription' = [subscription EXCEPT !.phase = "failed"]
    /\ UNCHANGED <<serverVars, storeVars, wire, asked, failures>>

(* loadInitialSnapshot *)
LoadInitial ==
    /\ subscription.phase = "attached"
    /\ subscription' = [subscription EXCEPT !.phase = "started"]
    /\ Refresh(force)
    /\ UNCHANGED <<serverVars, wire, held, awaited, status, abandoned, asked, failures>>

(* refresh() from the user interface. *)
AskRefresh ==
    /\ subscription.phase = "started" /\ asked.count < MaxAsks
    /\ asked' = [count |-> asked.count + 1, revision |-> revision]
    /\ Refresh(force)
    /\ UNCHANGED <<serverVars, wire, subscription, held, awaited, status, abandoned,
                   failures>>

(* advanceByWorkspaceDelta, parseServerWorkspaceSnapshot, publish *)
AnswerChanges ==
    IF fetch.answer.whole THEN 1..fetch.answer.to
    ELSE fetch.previous.changes \union ((fetch.previous.revision + 1)..fetch.answer.to)

Publish ==
    /\ loop = "answered"
    /\ held' = [revision |-> fetch.answer.to, changes |-> AnswerChanges]
    /\ status' = "current" /\ abandoned' = FALSE
    /\ loop' = "published"
    /\ UNCHANGED <<serverVars, wire, request, subscription, fetch, again, awaited,
                   force, late, asked, failures>>

(* Mutant: an event heard during the fetch is taken to be in its answer. *)
UnsettledByCaller == again

(* The condition of refreshUntilSettled's loop. *)
Unsettled == again \/ awaited > fetch.answer.to

LoopAgain ==
    /\ loop = "published" /\ Unsettled
    /\ FetchNext(force)
    /\ UNCHANGED <<serverVars, wire, subscription, held, awaited, status, abandoned, asked,
                   failures>>

LoopEnds ==
    /\ loop = "published" /\ ~Unsettled
    /\ loop' = "settled"
    /\ UNCHANGED <<serverVars, wire, request, subscription, held, fetch, again, awaited,
                   force, status, abandoned, late, asked, failures>>

(* refresh()'s finally: refreshPromise = null, one turn later. *)
RefreshEnds ==
    /\ loop = "settled"
    /\ loop' = "idle"
    /\ UNCHANGED <<serverVars, wire, request, subscription, held, fetch, again, awaited,
                   force, status, abandoned, late, asked, failures>>

(* A query fails.  A delta is recovered by a snapshot, a snapshot by       *)
(* nothing: its failure becomes the status, unless all who wait for it     *)
(* keep it to themselves.                                                  *)
FetchFails ==
    /\ loop \in {"snapshot", "delta"} /\ failures < MaxFailures
    /\ failures' = failures + 1
    /\ \/ /\ loop = "delta"
          /\ status' = "stale" /\ UNCHANGED abandoned
          /\ Fetch("snapshot", fetch.previous, failures + 1)
       \/ /\ loop = "snapshot"
          /\ status' \in {"failed", status} /\ abandoned' = TRUE
          /\ loop' = "settled" /\ request' = Nothing
          /\ UNCHANGED fetch
    /\ UNCHANGED <<serverVars, wire, subscription, held, again, awaited, force, late,
                   asked>>

Init ==
    /\ base \in Bases /\ revision = base
    /\ activation = [phase |-> "none", todo |-> <<>>, pending |-> <<>>, last |-> 0]
    /\ control = <<>> /\ lane = <<>> /\ resyncPending = FALSE /\ sending = Nothing
    /\ wire = <<>> /\ request = Nothing
    /\ subscription = [phase |-> "asked", buffered |-> <<>>, overflow |-> FALSE,
                       resync |-> FALSE]
    /\ held = Nothing /\ loop = "idle" /\ again = FALSE /\ awaited = 0 /\ force = FALSE
    /\ fetch = [previous |-> Nothing, answer |-> Nothing]
    /\ status = "stale" /\ abandoned = FALSE /\ late = FALSE
    /\ asked = [count |-> 0, revision |-> 0] /\ failures = 0

Next ==
    \/ Commit \/ AcceptSubscription \/ Activate \/ ResyncSent
    \/ ReplayNext \/ ReplayEnds \/ DrainNext \/ Answer \/ Deliver \/ Delivered
    \/ Receive \/ Attach \/ AttachOverflowed \/ LoadInitial \/ AskRefresh
    \/ Publish \/ LoopAgain \/ LoopEnds \/ RefreshEnds \/ FetchFails

Spec == Init /\ [][Next]_vars

----------------------------------------------------------------------------
(* Properties                                                              *)

(* Every variable holds a value the program could hold, and what the pump, *)
(* the journal's listener and the client keep stays inside its bounds.     *)
SyncTypeOK ==
    /\ base \in Bases /\ revision \in base..MaxRevision
    /\ activation.phase \in {"none", "accepted", "resync", "replay", "live"}
    /\ Len(lane) <= LaneFrames + 1 /\ resyncPending \in BOOLEAN
    /\ sending \in Queues \union {Nothing}
    /\ held \in Projections \union {Nothing}
    /\ loop \in {"idle", "snapshot", "delta", "answered", "published", "settled"}
    /\ request # Nothing => loop = request.operation
    /\ again \in BOOLEAN /\ force \in BOOLEAN /\ awaited \in 0..revision
    /\ status \in {"stale", "current", "failed"} /\ {abandoned, late} \subseteq BOOLEAN
    /\ Len(subscription.buffered) <= MaxBuffered

(* A projection the client shows is the workspace the server had at that   *)
(* revision: records, deltas and snapshots, in any order and with events   *)
(* lost to a full lane, never leave a hole in it                           *)
(* (WorkspaceSnapshotStore.advanceByRecord, workspaceProjection.ts).       *)
NoHole == held # Nothing => held = WorkspaceAt(held.revision)

(* No answer, record or recovery that arrives late takes the projection    *)
(* back to an earlier revision ("the projection held is still the one this *)
(* fetch started from", WorkspaceSnapshotStore.fetchAndPublish).           *)
NeverBack ==
    [][held # Nothing => held' # Nothing /\ held'.revision >= held.revision]_held

(* Nothing is queued, in the transport, or owed by the client. *)
Quiet ==
    /\ subscription.phase = "started" /\ activation.phase = "live"
    /\ control = <<>> /\ lane = <<>> /\ wire = <<>> /\ activation.pending = <<>>
    /\ loop = "idle"

(* An event or a caller came in the last turn of a refresh, which looked   *)
(* no more, and is left to the next one.                                   *)
Owed == late /\ (again \/ (held # Nothing /\ awaited > held.revision))

(* When everything has arrived, the client holds the server's workspace    *)
(* and shows it as current, unless a refresh failed and no query has been  *)
(* answered since, or a refresh was asked for more in its last turn.       *)
(* Events dropped while a resynchronization is sent, while a lane is       *)
(* congested or before a listener was attached are made up for by a fetch  *)
(* that starts after the notice, and none is dropped without one ("so a    *)
(* workspace change cannot be lost in the snapshot/subscription window",   *)
(* WorkspaceSnapshotStore.subscribeToChanges).                             *)
SettledIsCurrent ==
    Quiet => \/ held # Nothing /\ held.revision = revision /\ status = "current"
             \/ Owed
             \/ abandoned

(* What SettledIsCurrent cannot say of the status alone: a record that     *)
(* follows a failed resynchronization is applied and shown as current,     *)
(* whatever the resynchronization stood for (WorkspaceStatus.cfg).         *)
StatusTells ==
    Quiet /\ status = "current" => Owed \/ held.revision = revision

(* A change event or a caller that finds a refresh in flight is served by  *)
(* it: once the refresh is over, no event seen and no caller is left       *)
(* waiting for a revision the projection has not reached ("a second fetch  *)
(* is made if that answer falls short", WorkspaceSnapshotStore.refreshTo). *)
(* It does not hold of those that come in the refresh's last turn          *)
(* (WorkspaceLastTurn.cfg).                                                *)
RefreshServes ==
    (loop = "idle" /\ held # Nothing /\ ~abandoned)
        => held.revision >= Newest(awaited, asked.revision)

============================================================================
