-------------------------- MODULE OutboundDelivery --------------------------
(***************************************************************************)
(* OutboundDeliveryPump (packages/server-core/src/outboundDelivery.ts):    *)
(* the one ordered writer of a server connection.  Reliable control frames *)
(* wait in one bounded queue, subscription events in one state lane per    *)
(* subscription, terminal output in one terminal lane per attachment.      *)
(*                                                                         *)
(* Every public method runs to completion in one turn of the event loop,   *)
(* so it is one action; drain() gives the turn away at its two awaits      *)
(* (transport.waitForWritable, transport.send), so every answer of the     *)
(* transport is one action, with the rest of the loop up to the next       *)
(* await.  A frame is a record of what the scheduler reads of it; two      *)
(* frames queued at once differ unless both are control frames, so         *)
(* comparing records is comparing object references.                       *)
(***************************************************************************)
EXTENDS LaneScheduling, Integers, SequencesExt

CONSTANTS
    StateLanes,             \* subscription ids
    Keys,                   \* coalescing keys of subscription events
    TerminalLanes,          \* attachment ids
    ControlSizes,           \* byte lengths of control frames
    StateSizes,             \* byte lengths of subscription event frames
    ResyncBytes,            \* byte length of an event_resync frame
    SkipBytes,              \* byte length of a skip frame
    MaxChunk,               \* bytes of output in one terminal frame
    MaxPosition,            \* bound on stream positions
    MaxQueuedFrames,
    MaxQueuedBytes,
    MaxStateQueuedFrames,
    MaxStateQueuedBytes,
    MaxTerminalQueuedFrames,
    MaxTerminalQueuedBytes,
    MaxTerminalUnconfirmedBytes,
    MaxConsecutiveControl,  \* MAX_CONSECUTIVE_CONTROL_DELIVERIES
    NoFrame

ASSUME LimitsAssumption ==   \* positiveInteger in the constructor
    {MaxQueuedFrames, MaxQueuedBytes, MaxStateQueuedFrames, MaxStateQueuedBytes,
     MaxTerminalQueuedFrames, MaxTerminalQueuedBytes, MaxTerminalUnconfirmedBytes,
     MaxConsecutiveControl} \subseteq Nat \ {0}

ASSUME FramesAssumption ==
    /\ ControlSizes \subseteq Nat \ {0}
    /\ StateSizes \subseteq Nat \ {0}
    /\ {ResyncBytes, SkipBytes, MaxChunk} \subseteq Nat \ {0}
    /\ MaxPosition \in Nat
    /\ StateLanes \cap TerminalLanes = {}

\* A connection sees finitely many subscriptions and attachments.
ASSUME LanesAssumption == IsFiniteSet(StateLanes) /\ IsFiniteSet(TerminalLanes)

Positions == 0..MaxPosition
Ranges == {r \in [from : Positions, to : Positions] :
              r.to > r.from /\ r.to - r.from <= MaxChunk}

ControlFrame == [class : {"control"}, size : ControlSizes]
StateFrame == [class : {"state"}, lane : StateLanes, key : Keys, copy : {0, 1}, size : StateSizes]
ResyncFrame == [class : {"state_resync"}, lane : StateLanes, size : {ResyncBytes}]
TerminalFrame(class) ==
    {frame \in [class : {class}, lane : TerminalLanes, from : Positions, to : Positions,
                size : Nat \ {0}] : frame.from < frame.to}
OutputFrame == TerminalFrame("terminal")
SkipFrame == TerminalFrame("terminal_skip")
StateFrames == StateFrame \cup ResyncFrame
TerminalFrames == OutputFrame \cup SkipFrame
Frames == ControlFrame \cup StateFrames \cup TerminalFrames

ASSUME NoFrameAssumption == NoFrame \notin Frames

VARIABLES
    controlQueue,
    controlBytes,       \* controlQueuedByteCount
    stateOrder,         \* keys of the stateLanes map
    stateLanes,
    stateBytes,         \* stateQueuedByteCount
    terminalOrder,      \* keys of the terminalLanes map
    terminalLanes,
    terminalBytes,      \* terminalQueuedByteCount
    activeDelivery,
    phase,              \* "idle" (not running), or the await drain() is in
    controlRun,         \* consecutiveControlDeliveries, saturated at its limit
    stateCursor,
    terminalCursor,
    terminalError,      \* has the pump failed or closed?
    rejection,          \* of drain(): "none", "queued" for its catch handler, or
                        \* "overtaken" by the restarted drain's first answer
    idleWaiter,         \* is someone waiting on whenIdle()?
    transportOpen,
    client              \* history: what the client of each lane has been sent

controlVars  == <<controlQueue, controlBytes>>
stateVars    == <<stateOrder, stateLanes, stateBytes>>
terminalVars == <<terminalOrder, terminalLanes, terminalBytes>>
drainVars    == <<activeDelivery, phase, controlRun, stateCursor, terminalCursor, idleWaiter>>
failVars     == <<terminalError, rejection, transportOpen>>
vars == <<controlVars, stateVars, terminalVars, drainVars, failVars, client>>

EmptyStateLane == [queue |-> <<>>, queuedBytes |-> 0, resyncPending |-> FALSE]

\* `open' is membership in the terminalLanes map.  unconfirmedSince is "none",
\* "recent", or "overdue": older than maxTerminalUnconfirmedAgeMs.
NewTerminalLane(position) ==
    [open |-> TRUE, queue |-> <<>>, queuedBytes |-> 0, suppressed |-> FALSE,
     releasePending |-> FALSE, confirmed |-> position, head |-> position,
     sent |-> position, unconfirmedSince |-> "none"]

NoTerminalLane == [NewTerminalLane(0) EXCEPT !.open = FALSE]

Init ==
    /\ controlQueue = <<>> /\ controlBytes = 0
    /\ stateOrder = <<>> /\ stateBytes = 0
    /\ stateLanes = [l \in StateLanes |-> EmptyStateLane]
    /\ terminalOrder = <<>> /\ terminalBytes = 0
    /\ terminalLanes = [l \in TerminalLanes |-> NoTerminalLane]
    /\ activeDelivery = NoFrame /\ phase = "idle"
    /\ controlRun = 0 /\ stateCursor = 0 /\ terminalCursor = 0
    /\ terminalError = FALSE /\ rejection = "none"
    /\ idleWaiter = FALSE /\ transportOpen = TRUE
    /\ client = [l \in TerminalLanes |-> [position |-> 0, status |-> "open"]]

-----------------------------------------------------------------------------
(* nextDelivery, on the queues this step leaves. *)

StateDepth == [l \in StateLanes |-> Len(stateLanes[l].queue)]
TerminalDepth == [l \in TerminalLanes |-> Len(terminalLanes[l].queue)]

StateReady == \E l \in StateLanes : stateLanes[l].queue # <<>>
TerminalReady == \E l \in TerminalLanes : terminalLanes[l].queue # <<>>
QueuedFrames == controlQueue # <<>> \/ StateReady \/ TerminalReady

ControlWaits == controlQueue # <<>>
LanesWait == StateReady \/ TerminalReady
ControlHasTurn == controlRun < MaxConsecutiveControl

TakeControl ==
    /\ ControlWaits'
    /\ ControlHasTurn \/ ~LanesWait'
    /\ activeDelivery' = Head(controlQueue')
    /\ controlRun' = IF controlRun < MaxConsecutiveControl THEN controlRun + 1 ELSE controlRun
    /\ UNCHANGED <<stateCursor, terminalCursor>>

TakeState ==
    /\ ~ControlWaits' \/ ~ControlHasTurn
    /\ \E l \in RoundRobin(stateOrder', StateDepth', stateCursor) :
          activeDelivery' = Head(stateLanes'[l].queue)
    /\ controlRun' = 0
    /\ stateCursor' = AdvanceCursor(stateOrder', StateDepth', stateCursor)
    /\ UNCHANGED terminalCursor

\* Mutant: the state lanes are not asked first.
TakeTerminalFirst ==
    /\ ~ControlWaits' \/ ~ControlHasTurn
    /\ \E l \in RoundRobin(terminalOrder', TerminalDepth', terminalCursor) :
          activeDelivery' = Head(terminalLanes'[l].queue)
    /\ controlRun' = 0
    /\ terminalCursor' = AdvanceCursor(terminalOrder', TerminalDepth', terminalCursor)
    /\ UNCHANGED stateCursor

TakeTerminal ==
    /\ ~ControlWaits' \/ ~ControlHasTurn
    /\ ~StateReady'
    /\ \E l \in RoundRobin(terminalOrder', TerminalDepth', terminalCursor) :
          activeDelivery' = Head(terminalLanes'[l].queue)
    /\ controlRun' = 0
    /\ terminalCursor' = AdvanceCursor(terminalOrder', TerminalDepth', terminalCursor)
    /\ UNCHANGED stateCursor

\* Mutant: an idle pump does not call settleIdle.
ResumeUnsettled ==
    \/ /\ TakeControl \/ TakeState \/ TakeTerminal
       /\ phase' = "waiting"
       /\ UNCHANGED idleWaiter
    \/ /\ ~QueuedFrames'
       /\ activeDelivery' = NoFrame
       /\ phase' = "idle"
       /\ UNCHANGED <<idleWaiter, controlRun, stateCursor, terminalCursor>>

\* The loop of drain() up to its next await, or out of it through `finally',
\* where settleIdle wakes whenIdle().
Resume ==
    \/ /\ TakeControl \/ TakeState \/ TakeTerminal
       /\ phase' = "waiting"
       /\ UNCHANGED idleWaiter
    \/ /\ ~QueuedFrames'
       /\ activeDelivery' = NoFrame
       /\ phase' = "idle"
       /\ idleWaiter' = FALSE
       /\ UNCHANGED <<controlRun, stateCursor, terminalCursor>>

\* start()
Start == IF phase = "idle" THEN Resume ELSE UNCHANGED drainVars

\* Mutant: the frame in the transport is dropped with the rest of its queue.
InFlightForgotten(l) == <<>>

\* The frames of a queue that congestion or release must keep: the one the
\* transport already has.
InFlightOf(l) ==
    IF activeDelivery \in Frames \ ControlFrame /\ activeDelivery.lane = l
    THEN <<activeDelivery>> ELSE <<>>

BytesOf(queue) == IF queue = <<>> THEN 0 ELSE queue[1].size

\* fail(), also called by close(): everything queued is rejected, the frame in
\* the transport is not recalled, and a running drain() is left to notice.
Failed ==
    /\ terminalError' = TRUE
    /\ rejection' = "none"
    /\ controlQueue' = <<>> /\ controlBytes' = 0
    /\ stateOrder' = <<>> /\ stateBytes' = 0
    /\ stateLanes' = [l \in StateLanes |-> EmptyStateLane]
    /\ terminalOrder' = <<>> /\ terminalBytes' = 0
    /\ terminalLanes' = [l \in TerminalLanes |-> NoTerminalLane]
    /\ idleWaiter' = (idleWaiter /\ phase # "idle")
    /\ UNCHANGED <<activeDelivery, phase, controlRun, stateCursor, terminalCursor,
                   transportOpen>>

-----------------------------------------------------------------------------
(* send *)

ControlOverBound(size) ==
    \/ Len(controlQueue) >= MaxQueuedFrames
    \/ controlBytes + size > MaxQueuedBytes

SendControl(size) ==
    /\ ~terminalError
    /\ ~ControlOverBound(size)
    /\ controlQueue' = Append(controlQueue, [class |-> "control", size |-> size])
    /\ controlBytes' = controlBytes + size
    /\ UNCHANGED <<stateVars, terminalVars, failVars, client>>
    /\ Start

OverflowControl(size) ==
    /\ ~terminalError
    /\ ControlOverBound(size)
    /\ Failed
    /\ UNCHANGED client

-----------------------------------------------------------------------------
(* sendState *)

\* Mutant: the frame in the transport is superseded too.
SupersededInFlight(l, key) ==
    {i \in DOMAIN stateLanes[l].queue :
        stateLanes[l].queue[i].class = "state" /\ stateLanes[l].queue[i].key = key}

\* The pending frames of a lane that a frame with this key supersedes: at most
\* one, and never the frame in the transport.
Superseded(l, key) ==
    {i \in DOMAIN stateLanes[l].queue :
        LET pending == stateLanes[l].queue[i]
        IN  pending.class = "state" /\ pending.key = key /\ pending # activeDelivery}

\* Mutant: the bytes of the superseded frame stay counted.
WithoutKeyUncounted(l, key) ==
    LET queue == stateLanes[l].queue
        at == Superseded(l, key)
    IN  IF at = {} THEN [queue |-> queue, dropped |-> 0]
        ELSE LET i == CHOOSE j \in at : TRUE
             IN  [queue |-> SubSeq(queue, 1, i - 1) \o SubSeq(queue, i + 1, Len(queue)),
                  dropped |-> 0]

\* The queue and its bytes after the superseded frame is spliced out.
WithoutKey(l, key) ==
    LET queue == stateLanes[l].queue
        at == Superseded(l, key)
    IN  IF at = {} THEN [queue |-> queue, dropped |-> 0]
        ELSE LET i == CHOOSE j \in at : TRUE
             IN  [queue |-> SubSeq(queue, 1, i - 1) \o SubSeq(queue, i + 1, Len(queue)),
                  dropped |-> queue[i].size]

\* A second frame with the key of the one in the transport is a distinct object.
CopyOf(key) ==
    IF activeDelivery \in StateFrame /\ activeDelivery.key = key
    THEN 1 - activeDelivery.copy ELSE 0

\* Mutant: the lanes are not bounded together.
StateOverBoundAlone(l, rest, size) ==
    \/ Len(rest.queue) >= MaxStateQueuedFrames
    \/ stateLanes[l].queuedBytes - rest.dropped + size > MaxStateQueuedBytes

StateOverBound(l, rest, size) ==
    \/ Len(rest.queue) >= MaxStateQueuedFrames
    \/ stateLanes[l].queuedBytes - rest.dropped + size > MaxStateQueuedBytes
    \/ stateBytes - rest.dropped + size > MaxStateQueuedBytes

QueueState(l, key, size, rest) ==
    LET frame == [class |-> "state", lane |-> l, key |-> key,
                  copy |-> CopyOf(key), size |-> size]
        added == size - rest.dropped
    IN  /\ stateLanes' = [stateLanes EXCEPT
              ![l].queue = Append(rest.queue, frame), ![l].queuedBytes = @ + added]
        /\ stateBytes' = stateBytes + added

\* congestStateLane: one marker replaces everything but the frame in the
\* transport; a marker over the bound is not queued and latches nothing.
CongestState(l) ==
    LET kept == InFlightOf(l)
        fits == ResyncBytes <= MaxStateQueuedBytes
        marker == IF fits THEN <<[class |-> "state_resync", lane |-> l, size |-> ResyncBytes]>>
                          ELSE <<>>
        bytes == BytesOf(kept) + BytesOf(marker)
    IN  /\ stateLanes' = [stateLanes EXCEPT
              ![l].queue = kept \o marker, ![l].queuedBytes = bytes, ![l].resyncPending = fits]
        /\ stateBytes' = stateBytes - stateLanes[l].queuedBytes + bytes

SendState(l, key, size) ==
    /\ ~terminalError
    /\ ~stateLanes[l].resyncPending
    /\ stateOrder' = InsertLane(stateOrder, l)
    /\ LET rest == WithoutKey(l, key)
       IN  IF StateOverBound(l, rest, size)
           THEN CongestState(l)
           ELSE QueueState(l, key, size, rest)
    /\ UNCHANGED <<controlVars, terminalVars, failVars, client>>
    /\ Start

-----------------------------------------------------------------------------
(* sendTerminal *)

TerminalOverBound(lane, range) ==
    LET size == range.to - range.from
    IN  \/ Len(lane.queue) >= MaxTerminalQueuedFrames
        \/ lane.queuedBytes + size > MaxTerminalQueuedBytes
        \/ terminalBytes + size > MaxQueuedBytes
        \/ range.to - lane.confirmed > MaxTerminalUnconfirmedBytes
        \/ lane.unconfirmedSince = "overdue"

QueueTerminal(l, lane, range) ==
    LET size == range.to - range.from
        frame == [class |-> "terminal", lane |-> l, from |-> range.from,
                  to |-> range.to, size |-> size]
    IN  /\ terminalLanes' = [terminalLanes EXCEPT ![l] =
              [lane EXCEPT !.queue = Append(@, frame), !.queuedBytes = @ + size]]
        /\ terminalBytes' = terminalBytes + size

\* congestTerminalLane: the lane keeps the frame in the transport, and a skip
\* names every byte after what the transport has been given.
CongestTerminal(l, lane, range) ==
    LET kept == InFlightOf(l)
        keptBytes == terminalBytes - lane.queuedBytes + BytesOf(kept)
        head == IF range.to > lane.head THEN range.to ELSE lane.head
        from == IF kept # <<>> /\ kept[1].to > lane.sent THEN kept[1].to ELSE lane.sent
        skip == [class |-> "terminal_skip", lane |-> l, from |-> from, to |-> head,
                 size |-> SkipBytes]
    IN  IF keptBytes + SkipBytes > MaxQueuedBytes
        THEN Failed
        ELSE /\ terminalLanes' = [terminalLanes EXCEPT ![l] =
                   [lane EXCEPT !.queue = Append(kept, skip),
                                !.queuedBytes = BytesOf(kept) + SkipBytes,
                                !.head = head, !.suppressed = TRUE]]
             /\ terminalBytes' = keptBytes + SkipBytes
             /\ terminalOrder' = InsertLane(terminalOrder, l)
             /\ UNCHANGED <<controlVars, stateVars, failVars>>
             /\ Start

LaneFor(l, range) ==
    IF terminalLanes[l].open THEN terminalLanes[l] ELSE NewTerminalLane(range.from)

\* A client learns a lane's first position from the attachment that opens it.
OpenClient(l, range) ==
    client' = IF terminalLanes[l].open THEN client
              ELSE [client EXCEPT ![l] = [position |-> range.from, status |-> "open"]]

\* Output the lane takes in order.
SendOutput(l, range) ==
    LET lane == LaneFor(l, range)
        since == IF lane.unconfirmedSince = "none" THEN "recent" ELSE lane.unconfirmedSince
        admitted == [lane EXCEPT !.unconfirmedSince = since, !.head = range.to]
    IN  /\ range.to > lane.head
        /\ range.from = lane.head
        /\ IF TerminalOverBound(lane, range)
           THEN CongestTerminal(l, admitted, range) /\ OpenClient(l, range)
           ELSE /\ QueueTerminal(l, admitted, range)
                /\ terminalOrder' = InsertLane(terminalOrder, l)
                /\ OpenClient(l, range)
                /\ UNCHANGED <<controlVars, stateVars, failVars>>
                /\ Start

\* Output that does not continue the lane: the intervening range is skipped.
SendOutOfOrder(l, range) ==
    LET lane == terminalLanes[l]
    IN  /\ terminalLanes[l].open
        /\ range.to > lane.head
        /\ range.from # lane.head
        /\ CongestTerminal(l, lane, range)
        /\ UNCHANGED client

\* Mutant: output after the skip is still taken.
SendAfterSkip(l, range) ==
    /\ ~terminalError
    /\ ~terminalLanes[l].releasePending
    /\ SendOutput(l, range) \/ SendOutOfOrder(l, range)

\* Output the lane already has, and output of a suppressed or released lane, is
\* dropped without a step.
SendTerminal(l, range) ==
    /\ ~terminalError
    /\ ~terminalLanes[l].releasePending
    /\ ~terminalLanes[l].suppressed
    /\ SendOutput(l, range) \/ SendOutOfOrder(l, range)

\* acknowledgeTerminal
AcknowledgeTerminal(l, position) ==
    /\ terminalLanes[l].open
    /\ position \in terminalLanes[l].confirmed..terminalLanes[l].head
    /\ terminalLanes' = [terminalLanes EXCEPT
          ![l].confirmed = position,
          ![l].unconfirmedSince =
              IF position >= terminalLanes[l].head THEN "none" ELSE "recent"]
    /\ UNCHANGED <<controlVars, stateVars, terminalOrder, terminalBytes, drainVars,
                   failVars, client>>

\* now() moves past maxTerminalUnconfirmedAgeMs for this lane.
UnconfirmedAges(l) ==
    /\ terminalLanes[l].unconfirmedSince = "recent"
    /\ terminalLanes' = [terminalLanes EXCEPT ![l].unconfirmedSince = "overdue"]
    /\ UNCHANGED <<controlVars, stateVars, terminalOrder, terminalBytes, drainVars,
                   failVars, client>>

\* releaseTerminal
ReleaseTerminal(l) ==
    LET kept == InFlightOf(l)
        lane == terminalLanes[l]
    IN  /\ terminalLanes[l].open
        /\ terminalBytes' = terminalBytes - lane.queuedBytes + BytesOf(kept)
        /\ IF kept # <<>>
           THEN /\ terminalLanes' = [terminalLanes EXCEPT ![l] =
                      [lane EXCEPT !.queue = kept, !.queuedBytes = BytesOf(kept),
                                   !.releasePending = TRUE]]
                /\ UNCHANGED terminalOrder
           ELSE /\ terminalLanes' = [terminalLanes EXCEPT ![l] = NoTerminalLane]
                /\ terminalOrder' = DeleteLane(terminalOrder, l)
        /\ UNCHANGED <<controlVars, stateVars, drainVars, failVars, client>>

-----------------------------------------------------------------------------
(* drain *)

WaitAnswered == phase = "waiting" /\ rejection # "overtaken"
SendAnswered == phase = "sending" /\ rejection = "none"

\* The handler of a rejected drain() was queued before this answer's
\* continuation, so it runs before the next one.
Overtake == rejection' = IF rejection = "queued" THEN "overtaken" ELSE rejection

\* waitForWritable resolved: the frame is handed over, even when the pump
\* failed meanwhile.
Writable ==
    /\ WaitAnswered
    /\ transportOpen
    /\ phase' = "sending"
    /\ Overtake
    /\ UNCHANGED <<controlVars, stateVars, terminalVars, activeDelivery, controlRun,
                   stateCursor, terminalCursor, idleWaiter, terminalError,
                   transportOpen, client>>

\* completeDelivery: the frame leaves its queue only if it still heads it.
CompleteControl(frame) ==
    /\ frame \in ControlFrame
    /\ IF controlQueue # <<>> /\ Head(controlQueue) = frame
       THEN controlQueue' = Tail(controlQueue) /\ controlBytes' = controlBytes - frame.size
       ELSE UNCHANGED controlVars
    /\ UNCHANGED <<stateVars, terminalVars>>

CompleteState(frame) ==
    /\ frame \in StateFrames
    /\ LET l == frame.lane
           lane == stateLanes[l]
       IN  IF lane.queue # <<>> /\ Head(lane.queue) = frame
           THEN /\ stateBytes' = stateBytes - frame.size
                /\ IF Len(lane.queue) = 1
                   THEN /\ stateLanes' = [stateLanes EXCEPT ![l] = EmptyStateLane]
                        /\ stateOrder' = DeleteLane(stateOrder, l)
                   ELSE /\ stateLanes' = [stateLanes EXCEPT ![l].queue = Tail(@),
                                                ![l].queuedBytes = @ - frame.size]
                        /\ UNCHANGED stateOrder
           ELSE UNCHANGED stateVars
    /\ UNCHANGED <<controlVars, terminalVars>>

\* A skip carries no nextPosition, so it does not move sentPosition.
SentAfter(lane, frame) ==
    IF frame.class = "terminal" /\ frame.to > lane.sent THEN frame.to ELSE lane.sent

CompleteTerminal(frame) ==
    /\ frame \in TerminalFrames
    /\ LET l == frame.lane
           lane == terminalLanes[l]
       IN  IF lane.queue # <<>> /\ Head(lane.queue) = frame
           THEN /\ terminalBytes' = terminalBytes - frame.size
                /\ IF lane.releasePending /\ Len(lane.queue) = 1
                   THEN /\ terminalLanes' = [terminalLanes EXCEPT ![l] = NoTerminalLane]
                        /\ terminalOrder' = DeleteLane(terminalOrder, l)
                   ELSE /\ terminalLanes' = [terminalLanes EXCEPT ![l] =
                              [lane EXCEPT !.queue = Tail(@), !.queuedBytes = @ - frame.size,
                                           !.sent = SentAfter(lane, frame)]]
                        /\ UNCHANGED terminalOrder
           ELSE UNCHANGED terminalVars
    /\ UNCHANGED <<controlVars, stateVars>>

CompleteDelivery ==
    \/ CompleteControl(activeDelivery)
    \/ CompleteState(activeDelivery)
    \/ CompleteTerminal(activeDelivery)

\* What the client of a terminal lane makes of the frame it is sent: output
\* must continue its position, and nothing may follow a skip.
Receive(c, frame) ==
    IF c.status # "open" \/ frame.from # c.position
    THEN [c EXCEPT !.status = "broken"]
    ELSE [position |-> frame.to,
          status |-> IF frame.class = "terminal_skip" THEN "skipped" ELSE "open"]

\* transport.send resolved.
Accepted ==
    /\ SendAnswered
    /\ transportOpen
    /\ CompleteDelivery
    /\ client' = IF activeDelivery \in TerminalFrames
                 THEN [client EXCEPT ![activeDelivery.lane] = Receive(@, activeDelivery)]
                 ELSE client
    /\ UNCHANGED failVars
    /\ Resume

\* waitForWritable or send rejected a control frame on an open transport: only
\* its sender fails.
Refused ==
    /\ WaitAnswered \/ SendAnswered
    /\ transportOpen
    /\ activeDelivery \in ControlFrame
    /\ CompleteDelivery
    /\ Overtake
    /\ UNCHANGED <<terminalError, transportOpen, client>>
    /\ Resume

\* Mutant: `finally' does not restart the pump.
ThrownStops ==
    /\ WaitAnswered \/ SendAnswered
    /\ ~transportOpen \/ activeDelivery \notin ControlFrame
    /\ rejection' = IF terminalError THEN rejection
                    ELSE IF rejection = "none" THEN "queued" ELSE "overtaken"
    /\ UNCHANGED <<controlVars, stateVars, terminalVars, terminalError, transportOpen, client>>
    /\ activeDelivery' = NoFrame
    /\ phase' = "idle"
    /\ UNCHANGED <<controlRun, stateCursor, terminalCursor, idleWaiter>>

\* Any other rejection leaves drain() through `finally', which restarts the pump
\* on the queues as they are; the catch handler that fails the pump is queued.
Thrown ==
    /\ WaitAnswered \/ SendAnswered
    /\ ~transportOpen \/ activeDelivery \notin ControlFrame
    /\ rejection' = IF terminalError THEN rejection
                    ELSE IF rejection = "none" THEN "queued" ELSE "overtaken"
    /\ UNCHANGED <<controlVars, stateVars, terminalVars, terminalError, transportOpen, client>>
    /\ Resume

DrainRejected ==
    /\ rejection # "none"
    /\ Failed
    /\ UNCHANGED client

-----------------------------------------------------------------------------
(* The connection around the pump. *)

Close ==
    /\ ~terminalError
    /\ Failed
    /\ UNCHANGED client

TransportCloses ==
    /\ transportOpen
    /\ transportOpen' = FALSE
    /\ UNCHANGED <<controlVars, stateVars, terminalVars, drainVars, terminalError,
                   rejection, client>>

WhenIdle ==
    /\ ~idleWaiter
    /\ phase # "idle" \/ QueuedFrames
    /\ idleWaiter' = TRUE
    /\ UNCHANGED <<controlVars, stateVars, terminalVars, activeDelivery, phase, controlRun,
                   stateCursor, terminalCursor, failVars, client>>

Next ==
    \/ \E size \in ControlSizes : SendControl(size) \/ OverflowControl(size)
    \/ \E l \in StateLanes, key \in Keys, size \in StateSizes : SendState(l, key, size)
    \/ \E l \in TerminalLanes, range \in Ranges : SendTerminal(l, range)
    \/ \E l \in TerminalLanes :
          \/ \E position \in Positions : AcknowledgeTerminal(l, position)
          \/ UnconfirmedAges(l)
          \/ ReleaseTerminal(l)
    \/ Writable \/ Accepted \/ Refused \/ Thrown \/ DrainRejected
    \/ Close \/ TransportCloses \/ WhenIdle

Spec == Init /\ [][Next]_vars

\* The transport answers for every frame it holds, and a rejected promise
\* reaches its handler.
Fairness == WF_vars(Writable \/ Accepted \/ Refused \/ Thrown) /\ WF_vars(DrainRejected)

FairSpec == Spec /\ Fairness

-----------------------------------------------------------------------------
StateLane == [queue : Seq(StateFrames), queuedBytes : Int, resyncPending : BOOLEAN]
TerminalLane ==
    [open : BOOLEAN, queue : Seq(TerminalFrames), queuedBytes : Int, suppressed : BOOLEAN,
     releasePending : BOOLEAN, confirmed : Positions, head : Positions, sent : Positions,
     unconfirmedSince : {"none", "recent", "overdue"}]

TypeOK ==
    /\ controlQueue \in Seq(ControlFrame)
    /\ stateOrder \in Seq(StateLanes)
    /\ stateLanes \in [StateLanes -> StateLane]
    /\ terminalOrder \in Seq(TerminalLanes)
    /\ terminalLanes \in [TerminalLanes -> TerminalLane]
    /\ controlBytes \in Int /\ stateBytes \in Int /\ terminalBytes \in Int
    /\ activeDelivery \in Frames \cup {NoFrame}
    /\ phase \in {"idle", "waiting", "sending"}
    /\ controlRun \in 0..MaxConsecutiveControl
    /\ stateCursor \in Nat /\ terminalCursor \in Nat
    /\ terminalError \in BOOLEAN /\ idleWaiter \in BOOLEAN /\ transportOpen \in BOOLEAN
    /\ rejection \in {"none", "queued", "overtaken"}
    /\ client \in [TerminalLanes ->
          [position : Positions, status : {"open", "skipped", "broken"}]]

Size(queue) == FoldSeq(LAMBDA frame, sum : frame.size + sum, 0, queue)

\* The frames of a terminal lane continue each other from the end of what was
\* transmitted to the lane's head, and a skip comes last.
Chain(l, lane) ==
    LET queue == lane.queue
    IN  /\ lane.sent <= lane.head
        /\ \A i \in DOMAIN queue :
              /\ queue[i].lane = l
              /\ queue[i].to <= lane.head
              /\ queue[i].class = "terminal_skip" => lane.suppressed /\ i = Len(queue)
        /\ \A i \in 1..(Len(queue) - 1) : queue[i + 1].from = queue[i].to
        /\ queue # <<>> => lane.open /\ queue[1].from = lane.sent
        /\ lane.open /\ ~lane.suppressed /\ ~lane.releasePending =>
              lane.head = IF queue = <<>> THEN lane.sent ELSE queue[Len(queue)].to

\* The client of an open lane stands where the transport left it, or has the
\* skip that ends the lane.
AtSent(lane, c) ==
    lane.open => \/ c.status = "open" /\ c.position = lane.sent
                 \/ c.status = "skipped" /\ lane.suppressed /\ lane.queue = <<>>

\* The frame in the transport continues what its client has, and heads its
\* lane until the pump fails.
ActiveContinues ==
    activeDelivery \in TerminalFrames =>
        LET l == activeDelivery.lane
        IN  /\ client[l].status = "open" /\ client[l].position = activeDelivery.from
            /\ ~terminalError => /\ terminalLanes[l].open
                                 /\ terminalLanes[l].queue # <<>>
                                 /\ terminalLanes[l].queue[1] = activeDelivery

StreamInv ==
    /\ \A l \in TerminalLanes :
          /\ Chain(l, terminalLanes[l])
          /\ AtSent(terminalLanes[l], client[l])
          /\ client[l].status # "broken"
    /\ ActiveContinues
    /\ terminalError => \A l \in TerminalLanes : ~terminalLanes[l].open

\* The incremental byte counters, which the bounds are checked against, agree
\* with the queues after every replacement, collapse, release and failure.
ByteAccounting ==
    /\ controlBytes = Size(controlQueue)
    /\ \A l \in StateLanes : stateLanes[l].queuedBytes = Size(stateLanes[l].queue)
    /\ \A l \in TerminalLanes : terminalLanes[l].queuedBytes = Size(terminalLanes[l].queue)
    /\ stateBytes = SumFunction([l \in StateLanes |-> stateLanes[l].queuedBytes])
    /\ terminalBytes = SumFunction([l \in TerminalLanes |-> terminalLanes[l].queuedBytes])

\* The state lanes that a marker has silenced.
SilencedStates == {l \in StateLanes : stateLanes[l].resyncPending}

\* Every limit of OutboundDeliveryLimits holds, but for the markers: of a state
\* lane, of all state lanes together and of an attachment, what is queued besides
\* the markers stays within the byte limits, and a lane that the frame limit or
\* a byte limit silences holds at most the frame in the transport and its
\* marker.  Terminal output of all lanes, skips included, stays under its
\* ceiling (a skip that does not fit fails the pump), and a lane that still
\* takes output never runs further ahead of its client than the unconfirmed
\* window, its age timer running exactly while it is ahead.
QueuesBounded ==
    /\ Len(controlQueue) <= MaxQueuedFrames /\ controlBytes <= MaxQueuedBytes
    /\ stateBytes <= MaxStateQueuedBytes + ResyncBytes * Cardinality(SilencedStates)
    /\ \A l \in StateLanes :
          LET lane == stateLanes[l]
          IN  IF lane.resyncPending
              THEN /\ Len(lane.queue) <= 2
                   /\ lane.queuedBytes <= MaxStateQueuedBytes + ResyncBytes
              ELSE /\ Len(lane.queue) <= MaxStateQueuedFrames
                   /\ lane.queuedBytes <= MaxStateQueuedBytes
    /\ terminalBytes <= MaxQueuedBytes
    /\ \A l \in TerminalLanes :
          LET lane == terminalLanes[l]
          IN  IF lane.suppressed
              THEN /\ Len(lane.queue) <= 2
                   /\ lane.queuedBytes <= MaxTerminalQueuedBytes + SkipBytes
              ELSE /\ Len(lane.queue) <= MaxTerminalQueuedFrames
                   /\ lane.queuedBytes <= MaxTerminalQueuedBytes
                   /\ lane.head - lane.confirmed <= MaxTerminalUnconfirmedBytes
                   /\ lane.unconfirmedSince = "none" <=> lane.head = lane.confirmed

\* No frame is queued without a drain() running, and no whenIdle() caller waits
\* on an idle pump, also after a drain() threw.
NeverStalled ==
    phase = "idle" => ~QueuedFrames /\ ~idleWaiter /\ activeDelivery = NoFrame

\* Until the pump fails, the frame in the transport heads its queue whatever was
\* superseded, collapsed or released meanwhile: its completion is never lost.
InFlightHeadsItsQueue ==
    activeDelivery # NoFrame /\ ~terminalError =>
        \/ controlQueue # <<>> /\ Head(controlQueue) = activeDelivery
        \/ \E l \in StateLanes :
              stateLanes[l].queue # <<>> /\ Head(stateLanes[l].queue) = activeDelivery
        \/ \E l \in TerminalLanes :
              terminalLanes[l].queue # <<>> /\ Head(terminalLanes[l].queue) = activeDelivery

\* What is transmitted on a terminal lane is contiguous output, then at most one
\* skip that starts exactly where the transmitted output ends, then nothing.
ClientContiguous == \A l \in TerminalLanes : client[l].status # "broken"

\* A lane is silent only while its client is told so: the marker is the last
\* frame queued, or the client has it, or the attachment is being released.
SilenceIsAnnounced ==
    /\ \A l \in StateLanes :
          stateLanes[l].resyncPending =>
              /\ stateLanes[l].queue # <<>>
              /\ Last(stateLanes[l].queue) \in ResyncFrame
    /\ \A l \in TerminalLanes :
          terminalLanes[l].suppressed =>
              \/ /\ terminalLanes[l].queue # <<>>
                 /\ Last(terminalLanes[l].queue) \in SkipFrame
                 /\ Last(terminalLanes[l].queue).to = terminalLanes[l].head
              \/ client[l].status = "skipped"
              \/ terminalLanes[l].releasePending

\* The pump of a failed or closed connection comes to rest: drain() returns and
\* whenIdle() settles.
FailureSettles == terminalError ~> (phase = "idle" /\ ~idleWaiter)

=============================================================================
