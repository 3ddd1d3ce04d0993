------------------------- MODULE OutboundScheduling -------------------------
(***************************************************************************)
(* OutboundDelivery, with its bytes, positions and awaits, implements      *)
(* DeliveryScheduler: each queue maps to its length, the frame in the      *)
(* transport to the queue it heads, both latches to `silenced'.            *)
(***************************************************************************)
EXTENDS OutboundDelivery

Scheduler == INSTANCE DeliveryScheduler WITH
    MaxControlFrames <- MaxQueuedFrames,
    MaxStateFrames <- MaxStateQueuedFrames,
    MaxTerminalFrames <- MaxTerminalQueuedFrames,
    control <- Len(controlQueue),
    stateFrames <- StateDepth,
    terminalFrames <- TerminalDepth,
    silenced <- {l \in StateLanes : stateLanes[l].resyncPending}
                    \cup {l \in TerminalLanes : terminalLanes[l].suppressed},
    releasing <- {l \in TerminalLanes : terminalLanes[l].releasePending},
    inFlight <- IF terminalError \/ activeDelivery = NoFrame THEN <<"none">>
                ELSE IF activeDelivery \in ControlFrame THEN <<"control">>
                ELSE IF activeDelivery \in StateFrames THEN <<"state", activeDelivery.lane>>
                ELSE <<"terminal", activeDelivery.lane>>,
    status <- IF terminalError THEN "failed"
              ELSE IF rejection = "none" THEN "live" ELSE "throwing"

\* Every step of the pump (an admission, a release, an answer of the transport,
\* a failure) schedules as DeliveryScheduler does.
ImplementsScheduler == Scheduler!Spec
=============================================================================
