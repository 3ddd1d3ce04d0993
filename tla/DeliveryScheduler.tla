------------------------- MODULE DeliveryScheduler --------------------------
(***************************************************************************)
(* The scheduling of one connection's single writer (OutboundDeliveryPump  *)
(* in packages/server-core/src/outboundDelivery.ts) without the data: how  *)
(* many frames each lane holds, which frame is in the transport, and the   *)
(* cursors nextDelivery keeps.  OutboundDelivery, which has the bytes and  *)
(* the stream positions, implements this module; this one has the          *)
(* infinite behaviours that liveness is about.                             *)
(***************************************************************************)
EXTENDS LaneScheduling

CONSTANTS
    StateLanes,             \* subscription ids
    TerminalLanes,          \* attachment ids
    MaxConsecutiveControl,  \* MAX_CONSECUTIVE_CONTROL_DELIVERIES
    MaxControlFrames,       \* maxQueuedFrames
    MaxStateFrames,         \* maxStateQueuedFrames
    MaxTerminalFrames       \* maxTerminalQueuedFrames

ASSUME SchedulerAssumption ==
    /\ StateLanes \cap TerminalLanes = {}
    /\ {MaxConsecutiveControl, MaxControlFrames, MaxStateFrames,
        MaxTerminalFrames} \subseteq Nat \ {0}

Control == <<"control">>
Nobody  == <<"none">>
State(l)    == <<"state", l>>
Terminal(l) == <<"terminal", l>>

VARIABLES
    control,            \* frames in controlQueue
    stateOrder,         \* keys of stateLanes, in insertion order
    stateFrames,        \* frames queued on each state lane
    terminalOrder,      \* keys of terminalLanes, in insertion order
    terminalFrames,     \* frames queued on each terminal lane
    silenced,           \* state lanes with resyncPending, suppressed terminal lanes
    releasing,          \* terminal lanes with releasePending
    controlRun,         \* consecutiveControlDeliveries, saturated at its limit
    stateCursor,
    terminalCursor,
    inFlight,           \* the queue whose head frame is in the transport
    status              \* "live", "throwing" (drain threw, fail() not run) or "failed"

queues == <<control, stateOrder, stateFrames, terminalOrder, terminalFrames, silenced, releasing>>
choice == <<controlRun, stateCursor, terminalCursor, inFlight>>
vars == <<queues, choice, status>>

Init ==
    /\ control = 0
    /\ stateOrder = <<>>
    /\ stateFrames = [l \in StateLanes |-> 0]
    /\ terminalOrder = <<>>
    /\ terminalFrames = [l \in TerminalLanes |-> 0]
    /\ silenced = {}
    /\ releasing = {}
    /\ controlRun = 0
    /\ stateCursor = 0
    /\ terminalCursor = 0
    /\ inFlight = Nobody
    /\ status = "live"

-----------------------------------------------------------------------------
(* nextDelivery over the queues c, so/sf, to/tf. *)

TakeControl(c, sf, tf) ==
    /\ c > 0
    /\ \/ /\ \A l \in StateLanes : sf[l] = 0
          /\ \A l \in TerminalLanes : tf[l] = 0
       \/ controlRun < MaxConsecutiveControl
    /\ inFlight' = Control
    /\ controlRun' = IF controlRun < MaxConsecutiveControl
                     THEN controlRun + 1 ELSE controlRun
    /\ UNCHANGED <<stateCursor, terminalCursor>>

ControlYields(c) == c = 0 \/ controlRun >= MaxConsecutiveControl

TakeState(c, so, sf) ==
    /\ ControlYields(c)
    /\ \E l \in RoundRobin(so, sf, stateCursor) : inFlight' = State(l)
    /\ controlRun' = 0
    /\ stateCursor' = AdvanceCursor(so, sf, stateCursor)
    /\ UNCHANGED terminalCursor

TakeTerminal(c, sf, to, tf) ==
    /\ ControlYields(c)
    /\ \A l \in StateLanes : sf[l] = 0
    /\ \E l \in RoundRobin(to, tf, terminalCursor) : inFlight' = Terminal(l)
    /\ controlRun' = 0
    /\ terminalCursor' = AdvanceCursor(to, tf, terminalCursor)
    /\ UNCHANGED stateCursor

TakeNothing(c, sf, tf) ==
    /\ c = 0
    /\ \A l \in StateLanes : sf[l] = 0
    /\ \A l \in TerminalLanes : tf[l] = 0
    /\ inFlight' = Nobody
    /\ UNCHANGED <<controlRun, stateCursor, terminalCursor>>

NextDelivery(c, so, sf, to, tf) ==
    \/ TakeControl(c, sf, tf)
    \/ TakeState(c, so, sf)
    \/ TakeTerminal(c, sf, to, tf)
    \/ TakeNothing(c, sf, tf)

\* start(): an idle pump picks a frame in the same turn, a running one does not.
Start ==
    IF inFlight = Nobody
    THEN NextDelivery(control', stateOrder', stateFrames', terminalOrder', terminalFrames')
    ELSE UNCHANGED choice

-----------------------------------------------------------------------------
(* Admission. *)

SendControl ==
    /\ status # "failed"
    /\ control < MaxControlFrames
    /\ control' = control + 1
    /\ UNCHANGED <<stateOrder, stateFrames, terminalOrder, terminalFrames,
                   silenced, releasing, status>>
    /\ Start

InFlightOn(lane) == IF inFlight = lane THEN 1 ELSE 0

\* A frame joins the lane or replaces a pending one with its key; over a bound
\* one resync marker replaces all but the frame in flight.  A marker that is
\* itself over the bound is not queued, and the lane is not latched then.
QueueState(l) ==
    \E n \in {stateFrames[l], stateFrames[l] + 1} :
        /\ n \in (InFlightOn(State(l)) + 1)..MaxStateFrames
        /\ stateFrames' = [stateFrames EXCEPT ![l] = n]
        /\ UNCHANGED silenced

CollapseState(l) ==
    \E marker \in {0, 1} :
        /\ stateFrames' = [stateFrames EXCEPT ![l] = InFlightOn(State(l)) + marker]
        /\ silenced' = IF marker = 1 THEN silenced \cup {l} ELSE silenced

SendState(l) ==
    /\ status # "failed"
    /\ l \notin silenced
    /\ stateOrder' = InsertLane(stateOrder, l)
    /\ QueueState(l) \/ CollapseState(l)
    /\ UNCHANGED <<control, terminalOrder, terminalFrames, releasing, status>>
    /\ Start

QueueTerminal(l) ==
    /\ terminalFrames[l] < MaxTerminalFrames
    /\ terminalFrames' = [terminalFrames EXCEPT ![l] = @ + 1]
    /\ UNCHANGED silenced

\* One skip marker replaces all but the frame in flight.
CollapseTerminal(l) ==
    /\ terminalFrames' = [terminalFrames EXCEPT ![l] = InFlightOn(Terminal(l)) + 1]
    /\ silenced' = silenced \cup {l}

SendTerminal(l) ==
    /\ status # "failed"
    /\ l \notin releasing
    /\ l \notin silenced
    /\ terminalOrder' = InsertLane(terminalOrder, l)
    /\ QueueTerminal(l) \/ CollapseTerminal(l)
    /\ UNCHANGED <<control, stateOrder, stateFrames, releasing, status>>
    /\ Start

\* releaseTerminal keeps the lane only for the frame in the transport.
ReleaseTerminal(l) ==
    /\ status # "failed"
    /\ terminalFrames' = [terminalFrames EXCEPT ![l] = InFlightOn(Terminal(l))]
    /\ IF inFlight = Terminal(l)
       THEN releasing' = releasing \cup {l} /\ UNCHANGED <<terminalOrder, silenced>>
       ELSE /\ terminalOrder' = DeleteLane(terminalOrder, l)
            /\ silenced' = silenced \ {l}
            /\ releasing' = releasing \ {l}
    /\ UNCHANGED <<control, stateOrder, stateFrames, choice, status>>

-----------------------------------------------------------------------------
(* Delivery: the transport answers for the frame in flight. *)

CompleteControl ==
    /\ inFlight = Control
    /\ control' = control - 1
    /\ UNCHANGED <<stateOrder, stateFrames, terminalOrder, terminalFrames, silenced, releasing>>

\* A state lane leaves the map, its latch with it, after its last frame.
CompleteState(l) ==
    /\ inFlight = State(l)
    /\ stateFrames' = [stateFrames EXCEPT ![l] = @ - 1]
    /\ IF stateFrames[l] = 1
       THEN stateOrder' = DeleteLane(stateOrder, l) /\ silenced' = silenced \ {l}
       ELSE UNCHANGED <<stateOrder, silenced>>
    /\ UNCHANGED <<control, terminalOrder, terminalFrames, releasing>>

\* Mutant: a lane whose release is pending stays after its last frame.
CompleteUnreleased(l) ==
    /\ inFlight = Terminal(l)
    /\ terminalFrames' = [terminalFrames EXCEPT ![l] = @ - 1]
    /\ UNCHANGED <<control, stateOrder, stateFrames, terminalOrder, silenced, releasing>>

\* A terminal lane stays, unless its release was waiting for this frame.
CompleteTerminal(l) ==
    /\ inFlight = Terminal(l)
    /\ terminalFrames' = [terminalFrames EXCEPT ![l] = @ - 1]
    /\ IF l \in releasing /\ terminalFrames[l] = 1
       THEN /\ terminalOrder' = DeleteLane(terminalOrder, l)
            /\ silenced' = silenced \ {l}
            /\ releasing' = releasing \ {l}
       ELSE UNCHANGED <<terminalOrder, silenced, releasing>>
    /\ UNCHANGED <<control, stateOrder, stateFrames>>

\* After a rejection only the refusal of a control frame completes one.
Complete ==
    /\ status = "live" \/ (status = "throwing" /\ inFlight = Control)
    /\ \/ CompleteControl
       \/ \E l \in StateLanes : CompleteState(l)
       \/ \E l \in TerminalLanes : CompleteTerminal(l)
    /\ NextDelivery(control', stateOrder', stateFrames', terminalOrder', terminalFrames')
    /\ UNCHANGED status

\* drain() throws: its finally block restarts the pump on the same queues, and
\* fail() runs one microtask later.
Throw ==
    /\ status # "failed"
    /\ inFlight # Nobody
    /\ status' = "throwing"
    /\ UNCHANGED queues
    /\ NextDelivery(control, stateOrder, stateFrames, terminalOrder, terminalFrames)

\* fail(): an admission over a bound, close(), or the rejection of drain().
Fail ==
    /\ status # "failed"
    /\ status' = "failed"
    /\ control' = 0
    /\ stateOrder' = <<>>
    /\ stateFrames' = [l \in StateLanes |-> 0]
    /\ terminalOrder' = <<>>
    /\ terminalFrames' = [l \in TerminalLanes |-> 0]
    /\ silenced' = {}
    /\ releasing' = {}
    /\ inFlight' = Nobody
    /\ UNCHANGED <<controlRun, stateCursor, terminalCursor>>

Next ==
    \/ SendControl
    \/ \E l \in StateLanes : SendState(l)
    \/ \E l \in TerminalLanes : SendTerminal(l) \/ ReleaseTerminal(l)
    \/ Complete
    \/ Throw
    \/ Fail

Spec == Init /\ [][Next]_vars

\* The transport of a live connection answers every frame it holds, and a
\* rejected drain() reaches fail().  Producers promise nothing.
Fairness == WF_vars(Complete) /\ WF_vars(Fail /\ status = "throwing")

FairSpec == Spec /\ Fairness

-----------------------------------------------------------------------------
\* Control capacity is reserved: a pending command result, query answer or
\* resynchronization reaches the transport whatever the lanes hold.
ControlServed == control > 0 ~> (inFlight = Control \/ status = "failed")

\* No subscription waits forever behind another.
StateServed ==
    \A l \in StateLanes :
        stateFrames[l] > 0 ~> (inFlight = State(l) \/ stateFrames[l] = 0)

\* No attachment waits forever (skip markers included).
TerminalServed ==
    \A l \in TerminalLanes :
        terminalFrames[l] > 0 ~> (inFlight = Terminal(l) \/ terminalFrames[l] = 0)

\* State lanes go first, but what they leave is shared: once the subscriptions
\* are quiet, or as long as any attachment is served, every attachment is.
TerminalsShare ==
    (\/ <>[](\A l \in StateLanes : stateFrames[l] = 0)
     \/ []<>(\E l \in TerminalLanes : inFlight = Terminal(l))) => TerminalServed

\* Each traffic class gets what the order of nextDelivery promises it, none at
\* the cost of another.
ClassesServed == ControlServed /\ StateServed /\ TerminalsShare

\* A released attachment's lane leaves the scheduler.
ReleaseFinishes == \A l \in TerminalLanes : l \in releasing ~> l \notin releasing
=============================================================================
