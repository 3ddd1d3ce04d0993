---------------------- MODULE OutboundDelivery_proofs -----------------------
(***************************************************************************)
(* For every set of lanes, every frame size and every limit: the pump's    *)
(* state is well typed, it is never left with frames and no running        *)
(* drain(), and every client is sent contiguous output ended by at most    *)
(* one skip.  The inductive invariant is TypeOK /\ StreamInv /\ Running:   *)
(* contiguity alone is not inductive, because a step that drops frames     *)
(* relies on where the frames before them ended.                           *)
(*                                                                         *)
(* The second part is about the queues: they keep their named limits, the  *)
(* frame in the transport heads its queue, and no lane falls silent        *)
(* without telling its client; the pump implements DeliveryScheduler; and  *)
(* its byte counters are the folds of what is queued.                      *)
(*                                                                         *)
(* The limits are checked against byte counters that every operation       *)
(* adjusts by the sizes it adds and drops.  That a lane's counter is the   *)
(* sum of its frames' sizes is part of the invariant, said without a fold: *)
(* the counter is the last value of a function of prefix sums.  The last   *)
(* part shows that this value is the fold Size of the queue, and adds the  *)
(* totals of the lanes, which SumFunction folds over a finite set.         *)
(***************************************************************************)
EXTENDS OutboundScheduling, TLAPS, SequenceTheorems, FiniteSetTheorems

\* drain() is running exactly while a frame is in the transport.
Running ==
    /\ phase = "idle" => ~QueuedFrames /\ ~idleWaiter /\ activeDelivery = NoFrame
    /\ phase # "idle" => activeDelivery \in Frames

Inv == TypeOK /\ StreamInv /\ Running

-----------------------------------------------------------------------------
(* Lane order and cursors. *)

LEMMA InsertLaneType ==
    ASSUME NEW S, NEW order \in Seq(S), NEW l \in S
    PROVE  InsertLane(order, l) \in Seq(S)
BY DEF InsertLane

LEMMA DeleteLaneType ==
    ASSUME NEW S, NEW order \in Seq(S), NEW l
    PROVE  DeleteLane(order, l) \in Seq(S)
<1>1. CASE ~\E i \in DOMAIN order : order[i] = l
  BY <1>1 DEF DeleteLane
<1>2. CASE \E i \in DOMAIN order : order[i] = l
  <2> DEFINE before == {i \in DOMAIN order : \A j \in 1..i : order[j] # l}
             rest == [i \in 1..(Len(order) - 1) |->
                         IF i \in before THEN order[i] ELSE order[i + 1]]
  <2>1. Len(order) \in Nat /\ Len(order) # 0 /\ DOMAIN order = 1..Len(order)
    BY <1>2
  <2>2. \A i \in 1..(Len(order) - 1) : i \in DOMAIN order /\ i + 1 \in DOMAIN order
    BY <2>1
  <2>3. \A i \in 1..(Len(order) - 1) : rest[i] \in S
    BY <2>2, ElementOfSeq
  <2>4. rest \in [1..(Len(order) - 1) -> S]
    BY <2>3
  <2>5. rest \in Seq(S)
    BY <2>1, <2>4
  <2> QED BY <1>2, <2>5 DEF DeleteLane
<1> QED BY <1>1, <1>2

LEMMA AdvanceCursorType ==
    ASSUME NEW S, NEW order \in Seq(S), NEW frames, NEW cursor \in Nat,
           RoundRobin(order, frames, cursor) # {}
    PROVE  AdvanceCursor(order, frames, cursor) \in Nat
<1> DEFINE ready == Ready(order, frames)
<1>1. IsFiniteSet(ready)
  <2>1. ready \subseteq 1..Len(order) BY DEF Ready
  <2>2. IsFiniteSet(1..Len(order)) BY FS_Interval
  <2> QED BY <2>1, <2>2, FS_Subset
<1>2. ready # {} BY DEF RoundRobin
<1>3. Cardinality(ready) \in Nat /\ Cardinality(ready) # 0
  BY <1>1, <1>2, FS_CardinalityType, FS_EmptySet
<1> HIDE DEF ready
<1>4. ((cursor % Cardinality(ready)) + 1) % Cardinality(ready) \in Nat
  BY <1>3
<1> QED BY <1>4 DEF AdvanceCursor, ready

-----------------------------------------------------------------------------
(* The loop of drain() up to its next await. *)

\* The queues are well typed.
QueueTypes ==
    /\ controlQueue \in Seq(ControlFrame)
    /\ stateOrder \in Seq(StateLanes)
    /\ stateLanes \in [StateLanes -> StateLane]
    /\ terminalOrder \in Seq(TerminalLanes)
    /\ terminalLanes \in [TerminalLanes -> TerminalLane]

DrainTypes ==
    /\ activeDelivery \in Frames \cup {NoFrame}
    /\ phase \in {"idle", "waiting", "sending"}
    /\ controlRun \in 0..MaxConsecutiveControl
    /\ stateCursor \in Nat /\ terminalCursor \in Nat
    /\ idleWaiter \in BOOLEAN

\* The frame in the transport was taken from the head of a queue.
ActiveTaken ==
    \/ activeDelivery = NoFrame
    \/ activeDelivery \in ControlFrame \cup StateFrames
    \/ \E l \in TerminalLanes :
          /\ terminalLanes[l].queue # <<>>
          /\ activeDelivery = terminalLanes[l].queue[1]

LEMMA DisjointFrames ==
    /\ ControlFrame \cap TerminalFrames = {}
    /\ StateFrames \cap TerminalFrames = {}
    /\ OutputFrame \cap SkipFrame = {}
BY DEF ControlFrame, StateFrames, StateFrame, ResyncFrame, TerminalFrames, OutputFrame,
       SkipFrame, TerminalFrame

LEMMA ReadyLane ==
    ASSUME NEW S, NEW order \in Seq(S), NEW frames, NEW cursor,
           NEW l \in RoundRobin(order, frames, cursor)
    PROVE  l \in S /\ frames[l] > 0
<1>1. PICK i \in Ready(order, frames) : l = order[i] BY DEF RoundRobin
<1>2. i \in 1..Len(order) /\ frames[order[i]] > 0 BY <1>1 DEF Ready
<1> QED BY <1>1, <1>2, ElementOfSeq

LEMMA ResumeCorrect ==
    ASSUME DrainTypes, QueueTypes', Resume
    PROVE  /\ DrainTypes' /\ Running' /\ ActiveTaken'
           /\ phase' # "sending"
<1> USE LimitsAssumption, NoFrameAssumption
<1>1. CASE TakeControl /\ phase' = "waiting" /\ UNCHANGED idleWaiter
  <2>1. activeDelivery' \in ControlFrame
    BY <1>1, HeadTailProperties DEF TakeControl, ControlWaits, QueueTypes
  <2>2. controlRun' \in 0..MaxConsecutiveControl
    BY <1>1 DEF TakeControl, ControlHasTurn, DrainTypes
  <2> QED BY <1>1, <2>1, <2>2 DEF TakeControl, DrainTypes, Running, ActiveTaken, Frames
<1>2. CASE TakeState /\ phase' = "waiting" /\ UNCHANGED idleWaiter
  <2>1. PICK l \in RoundRobin(stateOrder', StateDepth', stateCursor) :
             activeDelivery' = Head(stateLanes'[l].queue)
    BY <1>2 DEF TakeState
  <2>2. l \in StateLanes /\ StateDepth'[l] > 0
    BY <2>1, ReadyLane DEF QueueTypes
  <2>3. stateLanes'[l].queue \in Seq(StateFrames) /\ Len(stateLanes'[l].queue) > 0
    BY <2>2 DEF StateDepth, QueueTypes, StateLane
  <2>4. activeDelivery' \in StateFrames BY <2>1, <2>3, HeadTailProperties
  <2>5. stateCursor' \in Nat
    BY <1>2, <2>1, AdvanceCursorType DEF TakeState, DrainTypes, QueueTypes
  <2> QED BY <1>2, <2>4, <2>5 DEF TakeState, DrainTypes, Running, ActiveTaken, Frames
<1>3. CASE TakeTerminal /\ phase' = "waiting" /\ UNCHANGED idleWaiter
  <2>1. PICK l \in RoundRobin(terminalOrder', TerminalDepth', terminalCursor) :
             activeDelivery' = Head(terminalLanes'[l].queue)
    BY <1>3 DEF TakeTerminal
  <2>2. l \in TerminalLanes /\ TerminalDepth'[l] > 0
    BY <2>1, ReadyLane DEF QueueTypes
  <2>3. terminalLanes'[l].queue \in Seq(TerminalFrames) /\ Len(terminalLanes'[l].queue) > 0
    BY <2>2 DEF TerminalDepth, QueueTypes, TerminalLane
  <2>4. /\ terminalLanes'[l].queue # <<>>
        /\ activeDelivery' = terminalLanes'[l].queue[1]
        /\ activeDelivery' \in TerminalFrames
    BY <2>1, <2>3, HeadTailProperties
  <2>5. terminalCursor' \in Nat
    BY <1>3, <2>1, AdvanceCursorType DEF TakeTerminal, DrainTypes, QueueTypes
  <2> QED BY <1>3, <2>2, <2>4, <2>5 DEF TakeTerminal, DrainTypes, Running, ActiveTaken, Frames
<1>4. CASE /\ ~QueuedFrames'
           /\ activeDelivery' = NoFrame
           /\ phase' = "idle"
           /\ idleWaiter' = FALSE
           /\ UNCHANGED <<controlRun, stateCursor, terminalCursor>>
  BY <1>4 DEF DrainTypes, Running, ActiveTaken
<1> QED BY <1>1, <1>2, <1>3, <1>4 DEF Resume

LEMMA StartCorrect ==
    ASSUME DrainTypes, Running, QueueTypes', Start
    PROVE  /\ DrainTypes' /\ Running'
           /\ \/ UNCHANGED drainVars
              \/ ActiveTaken' /\ phase = "idle"
<1>1. CASE phase = "idle"
  BY <1>1, ResumeCorrect DEF Start
<1>2. CASE phase # "idle"
  BY <1>2 DEF Start, drainVars, DrainTypes, Running
<1> QED BY <1>1, <1>2

-----------------------------------------------------------------------------
(* Terminal lanes as chains. *)

LEMMA AppendOutputChain ==
    ASSUME NEW l \in TerminalLanes, NEW lane \in TerminalLane, Chain(l, lane),
           lane.open, ~lane.suppressed, ~lane.releasePending,
           NEW frame \in OutputFrame, frame.lane = l, frame.from = lane.head,
           NEW since, NEW bytes
    PROVE  Chain(l, [[lane EXCEPT !.unconfirmedSince = since, !.head = frame.to]
                        EXCEPT !.queue = Append(@, frame), !.queuedBytes = bytes])
<1> DEFINE new == [[lane EXCEPT !.unconfirmedSince = since, !.head = frame.to]
                        EXCEPT !.queue = Append(@, frame), !.queuedBytes = bytes]
           n == Len(lane.queue)
<1>1. lane.queue \in Seq(TerminalFrames) /\ n \in Nat /\ frame \in TerminalFrames
  BY DEF TerminalLane, TerminalFrames
<1>2. /\ new.queue = Append(lane.queue, frame) /\ new.head = frame.to
      /\ new.sent = lane.sent /\ new.open /\ ~new.suppressed
  BY DEF TerminalLane
<1>3. /\ Len(new.queue) = n + 1 /\ new.queue[n + 1] = frame
      /\ \A i \in 1..n : new.queue[i] = lane.queue[i]
      /\ new.queue # <<>> /\ DOMAIN new.queue = 1..(n + 1) /\ DOMAIN lane.queue = 1..n
  BY <1>1, <1>2, AppendProperties
<1>4. /\ frame.from < frame.to /\ frame.class = "terminal"
      /\ frame.from \in Nat /\ frame.to \in Nat /\ lane.sent \in Nat /\ lane.head \in Nat
  BY FramesAssumption DEF OutputFrame, TerminalFrame, Positions, TerminalLane
<1>5. \A i \in 1..n : lane.queue[i].to \in Nat
  BY <1>1, <1>3, ElementOfSeq, FramesAssumption
     DEF TerminalFrames, OutputFrame, SkipFrame, TerminalFrame, Positions
<1>6. new.sent <= new.head
  BY <1>2, <1>4 DEF Chain
<1>7. \A i \in DOMAIN new.queue :
         /\ new.queue[i].lane = l
         /\ new.queue[i].to <= new.head
         /\ new.queue[i].class = "terminal_skip" => new.suppressed /\ i = Len(new.queue)
  <2> HIDE DEF new
  <2> TAKE i \in DOMAIN new.queue
  <2>1. CASE i = n + 1
    BY <2>1, <1>2, <1>3, <1>4
  <2>2. CASE i \in 1..n
    <3>1. new.queue[i] = lane.queue[i] /\ i \in DOMAIN lane.queue BY <2>2, <1>3
    <3>2. /\ lane.queue[i].lane = l /\ lane.queue[i].to <= lane.head
          /\ lane.queue[i].class # "terminal_skip"
      BY <3>1 DEF Chain
    <3>3. lane.queue[i].to <= new.head BY <2>2, <3>2, <1>2, <1>4, <1>5
    <3> QED BY <3>1, <3>2, <3>3
  <2> QED BY <2>1, <2>2, <1>1, <1>3
<1>8. \A i \in 1..(Len(new.queue) - 1) : new.queue[i + 1].from = new.queue[i].to
  <2> TAKE i \in 1..(Len(new.queue) - 1)
  <2>1. CASE i = n
    BY <2>1, <1>1, <1>3 DEF Chain
  <2>2. CASE i # n
    BY <2>2, <1>1, <1>3 DEF Chain
  <2> QED BY <2>1, <2>2
<1>9. new.queue[1].from = new.sent
  <2>1. CASE n = 0
    BY <2>1, <1>1, <1>2, <1>3 DEF Chain
  <2>2. CASE n # 0
    BY <2>2, <1>1, <1>2, <1>3 DEF Chain
  <2> QED BY <2>1, <2>2
<1> HIDE DEF new
<1> QED BY <1>2, <1>3, <1>6, <1>7, <1>8, <1>9 DEF Chain, new

\* The queue of a lane whose frame in the transport is all it keeps.
LEMMA KeptQueue ==
    ASSUME Inv, ~terminalError, NEW l \in TerminalLanes
    PROVE  \/ InFlightOf(l) = <<>>
           \/ /\ InFlightOf(l) = <<activeDelivery>>
              /\ activeDelivery \in TerminalFrames /\ activeDelivery.lane = l
              /\ terminalLanes[l].queue # <<>>
              /\ activeDelivery = terminalLanes[l].queue[1]
<1>1. CASE activeDelivery \in Frames \ ControlFrame /\ activeDelivery.lane = l
  <2>1. activeDelivery \in TerminalFrames
    BY <1>1, FramesAssumption DEF Frames, StateFrames, StateFrame, ResyncFrame
  <2> QED BY <1>1, <2>1 DEF Inv, StreamInv, ActiveContinues, InFlightOf
<1>2. CASE ~(activeDelivery \in Frames \ ControlFrame /\ activeDelivery.lane = l)
  BY <1>2 DEF InFlightOf
<1> QED BY <1>1, <1>2

LEMMA AppendToOne ==
    ASSUME NEW a, NEW b
    PROVE  Append(<<a>>, b) = <<a, b>>
<1>1. Append(<<a>>, b) = <<a>> \o <<b>>
  BY a \in {a, b}, b \in {a, b}, <<a>> \in Seq({a, b}), AppendIsConcat
<1>2. /\ Append(<<a>>, b) \in Seq({a, b}) /\ <<a, b>> \in Seq({a, b})
      /\ Len(Append(<<a>>, b)) = 2 /\ Len(<<a, b>>) = 2
      /\ Append(<<a>>, b)[1] = a /\ Append(<<a>>, b)[2] = b
  BY a \in {a, b}, b \in {a, b}, <<a>> \in Seq({a, b}), AppendProperties
<1>3. \A i \in 1..Len(<<a, b>>) : Append(<<a>>, b)[i] = <<a, b>>[i]
  BY <1>2
<1> QED BY <1>2, <1>3, SeqEqual

\* congestTerminalLane: what is in the transport, then the skip.
LEMMA CongestedChain ==
    ASSUME NEW l \in TerminalLanes, NEW lane \in TerminalLane, lane.open,
           NEW range \in Ranges, lane.head <= range.to, lane.sent < range.to,
           NEW kept, NEW from, NEW bytes \in Int,
           \/ kept = <<>> /\ from = lane.sent
           \/ \E frame \in TerminalFrames :
                 /\ kept = <<frame>> /\ frame.lane = l /\ frame.class = "terminal"
                 /\ frame.from = lane.sent /\ frame.to < range.to /\ from = frame.to
    PROVE  LET skip == [class |-> "terminal_skip", lane |-> l, from |-> from,
                        to |-> range.to, size |-> SkipBytes]
               new == [lane EXCEPT !.queue = Append(kept, skip), !.queuedBytes = bytes,
                                   !.head = range.to, !.suppressed = TRUE]
           IN  new \in TerminalLane /\ Chain(l, new)
<1> DEFINE skip == [class |-> "terminal_skip", lane |-> l, from |-> from,
                    to |-> range.to, size |-> SkipBytes]
           new == [lane EXCEPT !.queue = Append(kept, skip), !.queuedBytes = bytes,
                               !.head = range.to, !.suppressed = TRUE]
<1>1. /\ range.to \in Positions /\ range.to \in Nat
      /\ lane.sent \in Positions /\ lane.sent \in Nat /\ lane.head \in Nat
  BY FramesAssumption DEF Ranges, Positions, TerminalLane
<1>2. from \in Positions /\ from < range.to
  <2>1. CASE kept = <<>> /\ from = lane.sent BY <2>1, <1>1
  <2>2. ASSUME NEW frame \in TerminalFrames, frame.to < range.to, from = frame.to
        PROVE  from \in Positions /\ from < range.to
    BY <2>2 DEF TerminalFrames, OutputFrame, SkipFrame, TerminalFrame
  <2> QED BY <2>1, <2>2
<1>3. skip \in SkipFrame /\ skip \in TerminalFrames
  BY <1>1, <1>2, FramesAssumption DEF SkipFrame, TerminalFrame, TerminalFrames
<1>4. /\ new.queue = Append(kept, skip) /\ new.head = range.to /\ new.sent = lane.sent
      /\ new.open /\ new.suppressed
  BY DEF TerminalLane
<1>5. CASE kept = <<>> /\ from = lane.sent
  <2>1. /\ new.queue = <<skip>> /\ new.queue \in Seq(TerminalFrames)
        /\ new.queue # <<>> /\ Len(new.queue) = 1 /\ DOMAIN new.queue = {1}
        /\ new.queue[1] = skip
    BY <1>3, <1>4, <1>5
  <2>2. new \in TerminalLane
    BY <1>1, <2>1 DEF TerminalLane
  <2>3. skip.lane = l /\ skip.to = range.to /\ skip.from = lane.sent
    BY <1>5
  <2> HIDE DEF new, skip
  <2>4. Chain(l, new)
    BY <1>1, <1>4, <1>5, <2>1, <2>3 DEF Chain, skip
  <2> QED BY <2>2, <2>4 DEF new, skip
<1>6. ASSUME NEW frame \in TerminalFrames, kept = <<frame>>, frame.lane = l,
             frame.class = "terminal", frame.from = lane.sent, frame.to < range.to,
             from = frame.to
      PROVE  new \in TerminalLane /\ Chain(l, new)
  <2>1. /\ new.queue = <<frame, skip>> /\ new.queue \in Seq(TerminalFrames)
        /\ new.queue # <<>> /\ Len(new.queue) = 2 /\ DOMAIN new.queue = {1, 2}
        /\ new.queue[1] = frame /\ new.queue[2] = skip
    <3> HIDE DEF new, skip
    <3>1. Append(<<frame>>, skip) = <<frame, skip>> BY AppendToOne
    <3>2. new.queue = <<frame, skip>> BY <1>4, <1>6, <3>1
    <3>3. <<frame, skip>> \in Seq(TerminalFrames) BY <1>3, <1>6
    <3> QED BY <3>2, <3>3
  <2>2. new \in TerminalLane
    BY <1>1, <2>1 DEF TerminalLane
  <2>3. /\ skip.lane = l /\ skip.to = range.to /\ skip.from = frame.to
        /\ frame.to \in Nat
    BY <1>6, FramesAssumption
       DEF TerminalFrames, OutputFrame, SkipFrame, TerminalFrame, Positions
  <2> HIDE DEF new, skip
  <2>4. Chain(l, new)
    <3>1. \A i \in DOMAIN new.queue :
             /\ new.queue[i].lane = l /\ new.queue[i].to <= new.head
             /\ new.queue[i].class = "terminal_skip" => new.suppressed /\ i = Len(new.queue)
      BY <1>1, <1>4, <1>6, <2>1, <2>3
    <3>2. \A i \in 1..(Len(new.queue) - 1) : new.queue[i + 1].from = new.queue[i].to
      BY <2>1, <2>3
    <3> QED BY <1>1, <1>4, <1>6, <2>1, <2>3, <3>1, <3>2 DEF Chain
  <2> QED BY <2>2, <2>4 DEF new, skip
<1> QED BY <1>5, <1>6

\* completeDelivery of a terminal frame, and what its client makes of it.
LEMMA SentChain ==
    ASSUME NEW l \in TerminalLanes, NEW lane \in TerminalLane, Chain(l, lane),
           lane.queue # <<>>, NEW frame, frame = lane.queue[1], NEW bytes \in Int,
           NEW c \in [position : Positions, status : {"open", "skipped", "broken"}],
           c.status = "open", c.position = frame.from
    PROVE  LET new == [lane EXCEPT !.queue = Tail(@), !.queuedBytes = bytes,
                                   !.sent = SentAfter(lane, frame)]
           IN  /\ new \in TerminalLane /\ Chain(l, new)
               /\ AtSent(new, Receive(c, frame))
               /\ Receive(c, frame).status # "broken"
<1> DEFINE new == [lane EXCEPT !.queue = Tail(@), !.queuedBytes = bytes,
                               !.sent = SentAfter(lane, frame)]
           n == Len(lane.queue)
<1>1. /\ lane.queue \in Seq(TerminalFrames) /\ n \in Nat /\ n >= 1
      /\ DOMAIN lane.queue = 1..n /\ frame \in TerminalFrames
  BY HeadTailProperties DEF TerminalLane
<1>2. /\ Tail(lane.queue) \in Seq(TerminalFrames) /\ Len(Tail(lane.queue)) = n - 1
      /\ DOMAIN Tail(lane.queue) = 1..(n - 1)
      /\ \A i \in 1..(n - 1) : Tail(lane.queue)[i] = lane.queue[i + 1]
      /\ Tail(lane.queue) = <<>> <=> n = 1
  <2>1. /\ Tail(lane.queue) \in Seq(TerminalFrames) /\ Len(Tail(lane.queue)) = n - 1
        /\ \A i \in 1..(n - 1) : Tail(lane.queue)[i] = lane.queue[i + 1]
    BY <1>1, HeadTailProperties
  <2>2. DOMAIN Tail(lane.queue) = 1..(n - 1) BY <2>1
  <2>3. Tail(lane.queue) = <<>> <=> Len(Tail(lane.queue)) = 0 BY <2>1, EmptySeq
  <2>4. n - 1 = 0 <=> n = 1
    <3> HIDE DEF n
    <3> QED BY <1>1
  <2> QED BY <2>1, <2>2, <2>3, <2>4
<1>3. /\ frame.from < frame.to /\ frame.from \in Nat /\ frame.to \in Nat
      /\ frame.to \in Positions /\ lane.sent \in Nat /\ lane.head \in Nat
      /\ lane.sent \in Positions
      /\ frame.class \in {"terminal", "terminal_skip"}
  BY <1>1, FramesAssumption
     DEF TerminalFrames, OutputFrame, SkipFrame, TerminalFrame, Positions, TerminalLane
<1>4. /\ frame.from = lane.sent /\ frame.to <= lane.head
      /\ frame.class = "terminal_skip" => lane.suppressed /\ n = 1
      /\ n # 1 => lane.queue[2].from = frame.to
      /\ lane.open
  <2>1. n # 1 => 1 \in 1..(n - 1)
    <3> HIDE DEF n
    <3> QED BY <1>1
  <2>2. n # 1 => lane.queue[1 + 1].from = lane.queue[1].to BY <2>1 DEF Chain
  <2>3. 1 \in DOMAIN lane.queue
    <3> HIDE DEF n
    <3> QED BY <1>1
  <2>4. /\ frame.from = lane.sent /\ frame.to <= lane.head /\ lane.open
        /\ frame.class = "terminal_skip" => lane.suppressed /\ n = 1
    BY <2>3 DEF Chain
  <2> QED BY <2>2, <2>4
<1>5. SentAfter(lane, frame) = IF frame.class = "terminal" THEN frame.to ELSE lane.sent
  BY <1>3, <1>4 DEF SentAfter
<1>6. /\ new.queue = Tail(lane.queue) /\ new.sent = SentAfter(lane, frame)
      /\ new.head = lane.head /\ new.open /\ new.suppressed = lane.suppressed
      /\ new.releasePending = lane.releasePending
  BY <1>4 DEF TerminalLane
<1>7. new \in TerminalLane
  BY <1>2, <1>3, <1>5 DEF TerminalLane
<1> HIDE DEF new
<1>8. Chain(l, new)
  <2>1. new.sent <= new.head
    BY <1>3, <1>4, <1>5, <1>6 DEF Chain
  <2>2. \A i \in DOMAIN new.queue :
           /\ new.queue[i].lane = l /\ new.queue[i].to <= new.head
           /\ new.queue[i].class = "terminal_skip" => new.suppressed /\ i = Len(new.queue)
    <3> TAKE i \in DOMAIN new.queue
    <3>1. i \in 1..(n - 1) /\ i + 1 \in 1..n /\ new.queue[i] = lane.queue[i + 1]
      BY <1>1, <1>2, <1>6
    <3>2. /\ lane.queue[i + 1].lane = l /\ lane.queue[i + 1].to <= lane.head
          /\ lane.queue[i + 1].class = "terminal_skip" => lane.suppressed /\ i + 1 = n
      BY <1>1, <3>1 DEF Chain
    <3> QED BY <1>1, <1>2, <1>6, <3>1, <3>2
  <2>3. \A i \in 1..(Len(new.queue) - 1) : new.queue[i + 1].from = new.queue[i].to
    <3> TAKE i \in 1..(Len(new.queue) - 1)
    <3>1. /\ i + 1 \in 1..(n - 1) /\ i \in 1..(n - 1)
          /\ new.queue[i + 1] = lane.queue[i + 2] /\ new.queue[i] = lane.queue[i + 1]
      BY <1>1, <1>2, <1>6
    <3>2. lane.queue[i + 2].from = lane.queue[i + 1].to
      BY <1>1, <3>1 DEF Chain
    <3> QED BY <3>1, <3>2
  <2>4. new.queue # <<>> => new.open /\ new.queue[1].from = new.sent
    <3> SUFFICES ASSUME new.queue # <<>> PROVE new.queue[1].from = new.sent
      BY <1>6
    <3>1. n # 1 BY <1>1, <1>2, <1>6
    <3>2. new.queue[1] = lane.queue[2] BY <1>1, <1>2, <1>6, <3>1
    <3> QED BY <3>1, <3>2, <1>3, <1>4, <1>5, <1>6
  <2>5. new.open /\ ~new.suppressed /\ ~new.releasePending =>
           new.head = IF new.queue = <<>> THEN new.sent ELSE new.queue[Len(new.queue)].to
    <3> SUFFICES ASSUME new.open, ~new.suppressed, ~new.releasePending
                 PROVE  new.head = IF new.queue = <<>> THEN new.sent
                                   ELSE new.queue[Len(new.queue)].to
      OBVIOUS
    <3>1. lane.head = lane.queue[n].to
      BY <1>1, <1>4, <1>6 DEF Chain
    <3>2. frame.class = "terminal" BY <1>3, <1>4, <1>6
    <3>3. CASE n = 1
      BY <3>1, <3>2, <3>3, <1>1, <1>2, <1>5, <1>6
    <3>4. CASE n # 1
      <4>1. new.queue # <<>> /\ new.queue[Len(new.queue)] = lane.queue[n]
        BY <3>4, <1>1, <1>2, <1>6
      <4> QED BY <4>1, <3>1, <1>6
    <3> QED BY <3>3, <3>4
  <2> QED BY <2>1, <2>2, <2>3, <2>4, <2>5 DEF Chain
<1>9. Receive(c, frame) = [position |-> frame.to,
                           status |-> IF frame.class = "terminal_skip" THEN "skipped" ELSE "open"]
  BY DEF Receive
<1>10. AtSent(new, Receive(c, frame))
  <2>1. CASE frame.class = "terminal"
    BY <2>1, <1>5, <1>6, <1>9 DEF AtSent
  <2>2. CASE frame.class = "terminal_skip"
    <3>1. new.queue = <<>> BY <2>2, <1>1, <1>2, <1>4, <1>6
    <3> QED BY <2>2, <3>1, <1>4, <1>6, <1>9 DEF AtSent
  <2> QED BY <1>3, <2>1, <2>2
<1> QED BY <1>7, <1>8, <1>9, <1>10 DEF new

-----------------------------------------------------------------------------
(* The invariant by parts. *)

LanesOK ==
    \A l \in TerminalLanes :
        /\ Chain(l, terminalLanes[l])
        /\ AtSent(terminalLanes[l], client[l])
        /\ client[l].status # "broken"

ClientType == [position : Positions, status : {"open", "skipped", "broken"}]

OtherTypes ==
    /\ controlBytes \in Int /\ stateBytes \in Int /\ terminalBytes \in Int
    /\ terminalError \in BOOLEAN /\ transportOpen \in BOOLEAN
    /\ rejection \in {"none", "queued", "overtaken"}
    /\ client \in [TerminalLanes -> ClientType]

FailedIsClosed == terminalError => \A l \in TerminalLanes : ~terminalLanes[l].open

LEMMA InvParts ==
    Inv <=> /\ QueueTypes /\ DrainTypes /\ OtherTypes /\ Running
            /\ LanesOK /\ ActiveContinues /\ FailedIsClosed
BY DEF Inv, TypeOK, StreamInv, QueueTypes, DrainTypes, OtherTypes, LanesOK, FailedIsClosed,
       ClientType

\* The head of any lane continues what its client has.
LEMMA TakenContinues == QueueTypes /\ LanesOK /\ ActiveTaken => ActiveContinues
<1> SUFFICES ASSUME QueueTypes, LanesOK, ActiveTaken, activeDelivery \in TerminalFrames
             PROVE  LET l == activeDelivery.lane
                    IN  /\ client[l].status = "open"
                        /\ client[l].position = activeDelivery.from
                        /\ terminalLanes[l].open
                        /\ terminalLanes[l].queue # <<>>
                        /\ terminalLanes[l].queue[1] = activeDelivery
  BY DEF ActiveContinues
<1>1. activeDelivery # NoFrame /\ activeDelivery \notin ControlFrame \cup StateFrames
  BY NoFrameAssumption, DisjointFrames DEF Frames
<1>2. PICK l \in TerminalLanes : /\ terminalLanes[l].queue # <<>>
                                 /\ activeDelivery = terminalLanes[l].queue[1]
  BY <1>1 DEF ActiveTaken
<1>3. terminalLanes[l].queue \in Seq(TerminalFrames)
  BY DEF QueueTypes, TerminalLane
<1>4. 1 \in DOMAIN terminalLanes[l].queue
  BY <1>2, <1>3, EmptySeq
<1>5. /\ activeDelivery.lane = l
      /\ terminalLanes[l].open /\ activeDelivery.from = terminalLanes[l].sent
  BY <1>2, <1>4 DEF LanesOK, Chain
<1>6. client[l].status = "open" /\ client[l].position = terminalLanes[l].sent
  BY <1>2, <1>5 DEF LanesOK, AtSent
<1> QED BY <1>2, <1>5, <1>6

LEMMA ResumeInv ==
    ASSUME DrainTypes, QueueTypes', OtherTypes', LanesOK', FailedIsClosed', Resume
    PROVE  Inv'
<1>1. DrainTypes' /\ Running' /\ ActiveTaken' BY ResumeCorrect
<1>2. ActiveContinues' BY <1>1, TakenContinues, PTL
<1> QED BY <1>1, <1>2, InvParts, PTL

\* What an admission must leave alone: the lane of the frame in flight.
ActiveKept ==
    activeDelivery \in TerminalFrames =>
        LET l == activeDelivery.lane
        IN  /\ client'[l] = client[l]
            /\ terminalLanes'[l].open /\ terminalLanes'[l].queue # <<>>
            /\ terminalLanes'[l].queue[1] = activeDelivery

LEMMA StartInv ==
    ASSUME Inv, QueueTypes', OtherTypes', LanesOK', FailedIsClosed', ActiveKept, Start
    PROVE  Inv'
<1>1. /\ DrainTypes' /\ Running'
      /\ \/ UNCHANGED drainVars
         \/ ActiveTaken'
  BY InvParts, StartCorrect
<1>2. CASE ActiveTaken'
  BY <1>1, <1>2, TakenContinues, InvParts, PTL
<1>3. CASE UNCHANGED drainVars
  <2>1. ActiveContinues'
    BY <1>3 DEF ActiveContinues, ActiveKept, Inv, StreamInv, drainVars
  <2> QED BY <1>1, <2>1, InvParts, PTL
<1> QED BY <1>1, <1>2, <1>3

\* No step but those of drain() and of a lane's own methods.
LEMMA OthersUntouched ==
    ASSUME Inv, UNCHANGED <<terminalVars, client, terminalError>>
    PROVE  /\ LanesOK' /\ FailedIsClosed'
           /\ ~terminalError => ActiveKept
<1>1. UNCHANGED <<terminalOrder, terminalLanes, client, terminalError>> BY DEF terminalVars
<1>2. LanesOK /\ FailedIsClosed /\ ActiveContinues BY InvParts
<1>3. LanesOK' BY <1>1, <1>2 DEF LanesOK
<1>4. FailedIsClosed' BY <1>1, <1>2 DEF FailedIsClosed
<1>5. ~terminalError => ActiveKept
  BY <1>1, <1>2 DEF ActiveContinues, ActiveKept
<1> QED BY <1>3, <1>4, <1>5

-----------------------------------------------------------------------------
(* One lemma per operation. *)

LEMMA NewLaneType ==
    ASSUME NEW position \in Positions
    PROVE  NewTerminalLane(position) \in TerminalLane
BY DEF NewTerminalLane, TerminalLane

LEMMA EmptyLanes ==
    NoTerminalLane \in TerminalLane /\ EmptyStateLane \in StateLane
<1>1. 0 \in Positions BY FramesAssumption DEF Positions
<1>2. NewTerminalLane(0) \in TerminalLane BY <1>1, NewLaneType
<1>3. NoTerminalLane \in TerminalLane
  <2> HIDE DEF NewTerminalLane
  <2> QED BY <1>2 DEF NoTerminalLane, TerminalLane
<1>4. EmptyStateLane \in StateLane BY DEF EmptyStateLane, StateLane
<1> QED BY <1>3, <1>4

LEMMA InitInv == Init => Inv
<1> SUFFICES ASSUME Init PROVE Inv OBVIOUS
<1>0. /\ activeDelivery = NoFrame /\ phase = "idle" /\ idleWaiter = FALSE
      /\ controlRun = 0 /\ stateCursor = 0 /\ terminalCursor = 0
      /\ controlBytes = 0 /\ stateBytes = 0 /\ terminalBytes = 0
      /\ terminalError = FALSE /\ transportOpen = TRUE /\ rejection = "none"
      /\ client = [l \in TerminalLanes |-> [position |-> 0, status |-> "open"]]
  BY DEF Init
<1>1. NoTerminalLane \in TerminalLane /\ EmptyStateLane \in StateLane
  BY EmptyLanes
<1>2. QueueTypes
  BY <1>1 DEF QueueTypes, Init
<1>3. DrainTypes
  <2>1. controlRun \in 0..MaxConsecutiveControl BY <1>0, LimitsAssumption
  <2>2. idleWaiter \in BOOLEAN BY <1>0
  <2> QED BY <1>0, <2>1, <2>2 DEF DrainTypes
<1>3a. [position |-> 0, status |-> "open"] \in ClientType
  BY FramesAssumption DEF ClientType, Positions
<1>3b. OtherTypes
  <2>1. terminalError \in BOOLEAN /\ transportOpen \in BOOLEAN BY <1>0
  <2>2. client \in [TerminalLanes -> ClientType] BY <1>0, <1>3a
  <2>3. controlBytes \in Int /\ stateBytes \in Int /\ terminalBytes \in Int BY <1>0
  <2> QED BY <1>0, <2>1, <2>2, <2>3 DEF OtherTypes
<1>4. NoTerminalLane.queue = <<>> /\ ~NoTerminalLane.open /\ NoTerminalLane.sent = 0
      /\ NoTerminalLane.head = 0
  BY DEF NoTerminalLane, NewTerminalLane
<1>5. Running
  BY <1>0, <1>4 DEF Init, Running, QueuedFrames, StateReady, TerminalReady, EmptyStateLane
<1>6. LanesOK
  BY <1>0, <1>4 DEF Init, LanesOK, Chain, AtSent
<1>7. ActiveContinues
  BY <1>0, NoFrameAssumption DEF ActiveContinues, Frames
<1> QED BY <1>2, <1>3, <1>3b, <1>5, <1>6, <1>7, <1>0, InvParts DEF FailedIsClosed

\* The pump may fail in the step that opens a lane.
LEMMA FailedInv ==
    ASSUME Inv, Failed, client' \in [TerminalLanes -> ClientType],
           \A l \in TerminalLanes : client'[l].status # "broken",
           activeDelivery \in TerminalFrames =>
               client'[activeDelivery.lane] = client[activeDelivery.lane]
    PROVE  Inv'
<1> USE FramesAssumption
<1>1. NoTerminalLane \in TerminalLane /\ EmptyStateLane \in StateLane
  BY EmptyLanes
<1>2. QueueTypes' BY <1>1 DEF QueueTypes, Failed
<1>3. DrainTypes' BY InvParts DEF DrainTypes, Failed
<1>4. OtherTypes' BY InvParts DEF OtherTypes, Failed
<1>5. NoTerminalLane.queue = <<>> /\ ~NoTerminalLane.open /\ NoTerminalLane.sent = 0
      /\ NoTerminalLane.head = 0 /\ EmptyStateLane.queue = <<>>
  BY DEF NoTerminalLane, NewTerminalLane, EmptyStateLane
<1>6. Running'
  BY <1>5, InvParts DEF Running, QueuedFrames, StateReady, TerminalReady, Failed
<1>7. LanesOK'
  BY <1>5, InvParts DEF LanesOK, Chain, AtSent, Failed
<1>8. ActiveContinues'
  BY InvParts DEF ActiveContinues, Failed
<1>9. FailedIsClosed' BY <1>5 DEF FailedIsClosed, Failed
<1> QED BY <1>2, <1>3, <1>4, <1>6, <1>7, <1>8, <1>9, InvParts, PTL

LEMMA SendControlInv ==
    ASSUME Inv, NEW size \in ControlSizes, SendControl(size)
    PROVE  Inv'
<1>1. QueueTypes /\ DrainTypes /\ OtherTypes BY InvParts
<1>2. [class |-> "control", size |-> size] \in ControlFrame /\ size \in Int
  BY FramesAssumption DEF ControlFrame
<1>3. QueueTypes'
  BY <1>1, <1>2 DEF QueueTypes, SendControl, stateVars, terminalVars
<1>4. OtherTypes'
  BY <1>1, <1>2 DEF OtherTypes, SendControl, stateVars, terminalVars, failVars
<1>5. LanesOK' /\ FailedIsClosed' /\ ActiveKept
  BY OthersUntouched DEF SendControl, failVars
<1> QED BY <1>3, <1>4, <1>5, StartInv DEF SendControl

LEMMA FailedAlone == ASSUME Inv, Failed, UNCHANGED client PROVE Inv'
BY FailedInv, InvParts DEF LanesOK, OtherTypes

LEMMA OverflowControlInv ==
    ASSUME Inv, NEW size \in ControlSizes, OverflowControl(size)
    PROVE  Inv'
BY FailedAlone DEF OverflowControl

LEMMA StateFrameSize ==
    ASSUME NEW frame \in StateFrames
    PROVE  frame.size \in Int
<1>1. CASE frame \in StateFrame
  <2>1. frame.size \in StateSizes BY <1>1 DEF StateFrame
  <2>2. StateSizes \subseteq Int BY FramesAssumption
  <2> QED BY <2>1, <2>2
<1>2. CASE frame \in ResyncFrame
  BY <1>2, FramesAssumption DEF ResyncFrame
<1> QED BY <1>1, <1>2 DEF StateFrames

LEMMA InFlightState ==
    ASSUME Inv, NEW l \in StateLanes
    PROVE  InFlightOf(l) \in Seq(StateFrames) /\ BytesOf(InFlightOf(l)) \in Int
<1>1. CASE activeDelivery \in Frames \ ControlFrame /\ activeDelivery.lane = l
  <2>1. activeDelivery \in StateFrames
    BY <1>1, FramesAssumption
       DEF Frames, TerminalFrames, OutputFrame, SkipFrame, TerminalFrame
  <2>2. activeDelivery.size \in Int
    BY <2>1, StateFrameSize
  <2>3. InFlightOf(l) = <<activeDelivery>> BY <1>1 DEF InFlightOf
  <2>4. <<activeDelivery>> \in Seq(StateFrames) BY <2>1
  <2> QED BY <2>2, <2>3, <2>4 DEF BytesOf
<1>2. CASE ~(activeDelivery \in Frames \ ControlFrame /\ activeDelivery.lane = l)
  BY <1>2 DEF InFlightOf, BytesOf
<1> QED BY <1>1, <1>2

LEMMA WithoutKeyType ==
    ASSUME Inv, NEW l \in StateLanes, NEW key \in Keys
    PROVE  /\ WithoutKey(l, key).queue \in Seq(StateFrames)
           /\ WithoutKey(l, key).dropped \in Int
<1> DEFINE queue == stateLanes[l].queue
           at == Superseded(l, key)
           i == CHOOSE j \in at : TRUE
<1>1. queue \in Seq(StateFrames)
  BY InvParts DEF QueueTypes, StateLane
<1>2. CASE at = {}
  BY <1>1, <1>2 DEF WithoutKey
<1>3. CASE at # {}
  <2>1. at \subseteq 1..Len(queue) /\ Len(queue) \in Nat
    BY <1>1 DEF Superseded
  <2>4. i \in at
    BY <1>3, Zenon
  <2> HIDE DEF i
  <2>5. i \in 1..Len(queue) BY <2>1, <2>4
  <2>6. queue[i] \in StateFrames BY <1>1, <2>5, ElementOfSeq
  <2>7. queue[i].size \in Int
    BY <2>6, StateFrameSize
  <2> HIDE DEF queue
  <2>8. SubSeq(queue, 1, i - 1) \in Seq(StateFrames)
    <3>1. \A j \in 1..(i - 1) : queue[j] \in StateFrames
      BY <1>1, <2>1, <2>5, ElementOfSeq
    <3> QED BY <2>5, <3>1, SubSeqProperties
  <2>9. SubSeq(queue, i + 1, Len(queue)) \in Seq(StateFrames)
    <3>1. \A j \in (i + 1)..Len(queue) : queue[j] \in StateFrames
      BY <1>1, <2>1, <2>5, ElementOfSeq
    <3> QED BY <2>1, <2>5, <3>1, SubSeqProperties
  <2>10. WithoutKey(l, key) =
            [queue |-> SubSeq(queue, 1, i - 1) \o SubSeq(queue, i + 1, Len(queue)),
             dropped |-> queue[i].size]
    BY <1>3 DEF WithoutKey, i, queue
  <2>11. SubSeq(queue, 1, i - 1) \o SubSeq(queue, i + 1, Len(queue)) \in Seq(StateFrames)
    BY <2>8, <2>9, ConcatProperties
  <2> QED BY <2>7, <2>10, <2>11
<1> QED BY <1>2, <1>3

LEMMA SendStateInv ==
    ASSUME Inv, NEW l \in StateLanes, NEW key \in Keys, NEW size \in StateSizes,
           SendState(l, key, size)
    PROVE  Inv'
<1> DEFINE rest == WithoutKey(l, key)
<1>1. QueueTypes /\ DrainTypes /\ OtherTypes BY InvParts
<1>2. /\ rest.queue \in Seq(StateFrames) /\ rest.dropped \in Int /\ size \in Int
      /\ ResyncBytes \in Int
  BY WithoutKeyType, FramesAssumption
<1> HIDE DEF rest
<1>3. /\ stateLanes' \in [StateLanes -> StateLane]
      /\ stateBytes' \in Int
  <2>1. CASE QueueState(l, key, size, rest)
    <3> DEFINE frame == [class |-> "state", lane |-> l, key |-> key,
                         copy |-> CopyOf(key), size |-> size]
    <3>1. CopyOf(key) \in {0, 1}
      BY DEF CopyOf, StateFrame
    <3>2. frame \in StateFrames BY <3>1 DEF StateFrames, StateFrame
    <3> HIDE DEF frame
    <3>3. Append(rest.queue, frame) \in Seq(StateFrames) BY <1>2, <3>2
    <3>4. /\ stateLanes' = [stateLanes EXCEPT ![l].queue = Append(rest.queue, frame),
                                              ![l].queuedBytes = @ + (size - rest.dropped)]
          /\ stateBytes' = stateBytes + (size - rest.dropped)
      BY <2>1 DEF QueueState, frame
    <3>5. stateLanes[l].queuedBytes \in Int /\ stateBytes \in Int
      BY <1>1 DEF QueueTypes, StateLane, OtherTypes
    <3>6. stateLanes[l].queuedBytes + (size - rest.dropped) \in Int BY <1>2, <3>5
    <3>7. stateBytes + (size - rest.dropped) \in Int BY <1>2, <3>5
    <3> QED BY <1>1, <3>3, <3>4, <3>6, <3>7 DEF QueueTypes, StateLane
  <2>2. CASE CongestState(l)
    <3> DEFINE kept == InFlightOf(l)
               marker == IF ResyncBytes <= MaxStateQueuedBytes
                         THEN <<[class |-> "state_resync", lane |-> l, size |-> ResyncBytes]>>
                         ELSE <<>>
               bytes == BytesOf(kept) + BytesOf(marker)
               fits == ResyncBytes <= MaxStateQueuedBytes
    <3>1. kept \in Seq(StateFrames) /\ BytesOf(kept) \in Int BY InFlightState
    <3>2. marker \in Seq(StateFrames) /\ BytesOf(marker) \in Int
      <4>1. <<[class |-> "state_resync", lane |-> l, size |-> ResyncBytes]>>
               \in Seq(StateFrames)
        BY DEF StateFrames, ResyncFrame
      <4> QED BY <1>2, <4>1 DEF BytesOf
    <3>3. /\ stateLanes' = [stateLanes EXCEPT
                ![l].queue = kept \o marker, ![l].queuedBytes = bytes,
                ![l].resyncPending = fits]
          /\ stateBytes' = stateBytes - stateLanes[l].queuedBytes + bytes
      BY <2>2 DEF CongestState
    <3> HIDE DEF kept, marker
    <3>4. kept \o marker \in Seq(StateFrames) BY <3>1, <3>2, ConcatProperties
    <3>5. bytes \in Int BY <3>1, <3>2
    <3>5a. fits \in BOOLEAN OBVIOUS
    <3> HIDE DEF bytes, fits
    <3>6. stateBytes' \in Int
      BY <1>1, <3>3, <3>5 DEF QueueTypes, StateLane, OtherTypes
    <3>7. stateLanes' \in [StateLanes -> StateLane]
      BY <1>1, <3>3, <3>4, <3>5, <3>5a DEF QueueTypes, StateLane
    <3> QED BY <3>6, <3>7
  <2> QED BY <2>1, <2>2 DEF SendState, rest
<1>4. QueueTypes'
  BY <1>1, <1>3, InsertLaneType DEF QueueTypes, SendState, controlVars, terminalVars
<1>5. OtherTypes'
  BY <1>1, <1>3 DEF OtherTypes, SendState, controlVars, terminalVars, failVars
<1>6. LanesOK' /\ FailedIsClosed' /\ ActiveKept
  BY OthersUntouched DEF SendState, failVars
<1> QED BY <1>4, <1>5, <1>6, StartInv DEF SendState

\* A step that changes neither the queues nor the positions of any lane.
LEMMA SameStreamInv ==
    ASSUME Inv, terminalLanes' \in [TerminalLanes -> TerminalLane],
           \A m \in TerminalLanes :
              /\ terminalLanes'[m].open = terminalLanes[m].open
              /\ terminalLanes'[m].queue = terminalLanes[m].queue
              /\ terminalLanes'[m].suppressed = terminalLanes[m].suppressed
              /\ terminalLanes'[m].releasePending = terminalLanes[m].releasePending
              /\ terminalLanes'[m].head = terminalLanes[m].head
              /\ terminalLanes'[m].sent = terminalLanes[m].sent,
           UNCHANGED <<controlVars, stateVars, terminalOrder, terminalBytes, drainVars,
                       failVars, client>>
    PROVE  Inv'
<1>1. UNCHANGED <<controlQueue, controlBytes, stateOrder, stateLanes, stateBytes,
                  terminalOrder, terminalBytes, activeDelivery, phase, controlRun, stateCursor,
                  terminalCursor, idleWaiter, terminalError, rejection, transportOpen, client>>
  BY DEF controlVars, stateVars, drainVars, failVars
<1>2. QueueTypes' BY <1>1, InvParts DEF QueueTypes
<1>3. DrainTypes' BY <1>1, InvParts DEF DrainTypes
<1>4. OtherTypes' BY <1>1, InvParts DEF OtherTypes
<1>5. Running' BY <1>1, InvParts DEF Running, QueuedFrames, StateReady, TerminalReady
<1>6. LanesOK' BY <1>1, InvParts DEF LanesOK, Chain, AtSent
<1>7. ActiveContinues'
  <2>1. activeDelivery \in TerminalFrames => activeDelivery.lane \in TerminalLanes
    BY DEF TerminalFrames, OutputFrame, SkipFrame, TerminalFrame
  <2> QED BY <1>1, <2>1, InvParts DEF ActiveContinues
<1>8. FailedIsClosed' BY <1>1, InvParts DEF FailedIsClosed
<1> QED BY <1>2, <1>3, <1>4, <1>5, <1>6, <1>7, <1>8, InvParts, PTL

LEMMA AcknowledgeTerminalInv ==
    ASSUME Inv, NEW l \in TerminalLanes, NEW position, AcknowledgeTerminal(l, position)
    PROVE  Inv'
<1>1. terminalLanes \in [TerminalLanes -> TerminalLane]
  BY InvParts DEF QueueTypes
<1>2. position \in Positions
  <2>1. /\ terminalLanes[l].confirmed \in 0..MaxPosition
        /\ terminalLanes[l].head \in 0..MaxPosition
        /\ position \in terminalLanes[l].confirmed..terminalLanes[l].head
    BY <1>1 DEF TerminalLane, AcknowledgeTerminal, Positions
  <2> QED BY <2>1, FramesAssumption DEF Positions
<1> DEFINE since == IF position >= terminalLanes[l].head THEN "none" ELSE "recent"
<1>3. since \in {"none", "recent"} OBVIOUS
<1>4. terminalLanes' = [terminalLanes EXCEPT ![l].confirmed = position,
                                             ![l].unconfirmedSince = since]
  BY DEF AcknowledgeTerminal
<1> HIDE DEF since
<1>5. terminalLanes' \in [TerminalLanes -> TerminalLane]
  BY ZenonT(40), <1>1, <1>2, <1>3, <1>4 DEF TerminalLane
<1>6. \A m \in TerminalLanes :
         /\ terminalLanes'[m].open = terminalLanes[m].open
         /\ terminalLanes'[m].queue = terminalLanes[m].queue
         /\ terminalLanes'[m].suppressed = terminalLanes[m].suppressed
         /\ terminalLanes'[m].releasePending = terminalLanes[m].releasePending
         /\ terminalLanes'[m].head = terminalLanes[m].head
         /\ terminalLanes'[m].sent = terminalLanes[m].sent
  BY <1>1, <1>4 DEF TerminalLane
<1> QED BY <1>5, <1>6, SameStreamInv DEF AcknowledgeTerminal

LEMMA UnconfirmedAgesInv ==
    ASSUME Inv, NEW l \in TerminalLanes, UnconfirmedAges(l)
    PROVE  Inv'
<1>1. terminalLanes \in [TerminalLanes -> TerminalLane]
  BY InvParts DEF QueueTypes
<1>2. terminalLanes' = [terminalLanes EXCEPT ![l].unconfirmedSince = "overdue"]
  BY DEF UnconfirmedAges
<1>3. terminalLanes' \in [TerminalLanes -> TerminalLane]
  BY <1>1, <1>2 DEF TerminalLane
<1>4. \A m \in TerminalLanes :
         /\ terminalLanes'[m].open = terminalLanes[m].open
         /\ terminalLanes'[m].queue = terminalLanes[m].queue
         /\ terminalLanes'[m].suppressed = terminalLanes[m].suppressed
         /\ terminalLanes'[m].releasePending = terminalLanes[m].releasePending
         /\ terminalLanes'[m].head = terminalLanes[m].head
         /\ terminalLanes'[m].sent = terminalLanes[m].sent
  BY <1>1, <1>2 DEF TerminalLane
<1> QED BY <1>3, <1>4, SameStreamInv DEF UnconfirmedAges

\* Until the pump fails, the lane of an output frame in flight is open.
LEMMA ActiveOpen ==
    ASSUME Inv, ~terminalError, activeDelivery \in TerminalFrames
    PROVE  /\ activeDelivery.lane \in TerminalLanes
           /\ terminalLanes[activeDelivery.lane].open
           /\ terminalLanes[activeDelivery.lane].queue # <<>>
           /\ terminalLanes[activeDelivery.lane].queue[1] = activeDelivery
           /\ InFlightOf(activeDelivery.lane) = <<activeDelivery>>
<1>1. activeDelivery.lane \in TerminalLanes
  BY DEF TerminalFrames, OutputFrame, SkipFrame, TerminalFrame
<1>2. activeDelivery \in Frames \ ControlFrame
  BY DisjointFrames DEF Frames
<1> QED BY <1>1, <1>2, InvParts DEF ActiveContinues, InFlightOf

LEMMA TerminalFrameSize ==
    ASSUME NEW frame \in TerminalFrames
    PROVE  frame.size \in Int
BY DEF TerminalFrames, OutputFrame, SkipFrame, TerminalFrame

LEMMA KeptBytes ==
    ASSUME Inv, ~terminalError, NEW l \in TerminalLanes
    PROVE  BytesOf(InFlightOf(l)) \in Int
<1>1. CASE InFlightOf(l) = <<>> BY <1>1 DEF BytesOf
<1>2. CASE InFlightOf(l) # <<>>
  <2>1. InFlightOf(l) = <<activeDelivery>> /\ activeDelivery.size \in Int
    BY <1>2, KeptQueue, TerminalFrameSize
  <2> QED BY <2>1 DEF BytesOf
<1> QED BY <1>1, <1>2

LEMMA ReleaseTerminalInv ==
    ASSUME Inv, NEW l \in TerminalLanes, ReleaseTerminal(l)
    PROVE  Inv'
<1> DEFINE kept == InFlightOf(l)
           lane == terminalLanes[l]
<1>1. /\ QueueTypes /\ DrainTypes /\ OtherTypes /\ Running /\ LanesOK /\ ActiveContinues
      /\ FailedIsClosed
  BY InvParts
<1>2. lane.open /\ ~terminalError
  BY <1>1 DEF ReleaseTerminal, FailedIsClosed
<1>3. /\ terminalLanes \in [TerminalLanes -> TerminalLane] /\ lane \in TerminalLane
      /\ lane.queue \in Seq(TerminalFrames) /\ lane.queuedBytes \in Int
      /\ BytesOf(kept) \in Int /\ terminalBytes \in Int
  BY <1>1, <1>2, KeptBytes DEF QueueTypes, TerminalLane, OtherTypes
<1>4. /\ UNCHANGED <<controlQueue, controlBytes, stateOrder, stateLanes, stateBytes,
                     activeDelivery, phase, controlRun, stateCursor, terminalCursor, idleWaiter,
                     terminalError, rejection, transportOpen, client>>
      /\ terminalBytes' = terminalBytes - lane.queuedBytes + BytesOf(kept)
  BY DEF ReleaseTerminal, controlVars, stateVars, drainVars, failVars
<1>5. OtherTypes'
  <2>1. terminalBytes' \in Int BY <1>3, <1>4
  <2> QED BY <1>1, <1>4, <2>1 DEF OtherTypes
<1>6. DrainTypes' BY <1>1, <1>4 DEF DrainTypes
<1>7. CASE kept # <<>>
  <2> DEFINE new == [lane EXCEPT !.queue = kept, !.queuedBytes = BytesOf(kept),
                                 !.releasePending = TRUE]
  <2>1. terminalLanes' = [terminalLanes EXCEPT ![l] = new] /\ UNCHANGED terminalOrder
    BY <1>7 DEF ReleaseTerminal
  <2>2. /\ kept = <<activeDelivery>> /\ activeDelivery \in TerminalFrames
        /\ activeDelivery.lane = l /\ lane.queue # <<>>
        /\ activeDelivery = lane.queue[1]
    BY <1>2, <1>7, KeptQueue
  <2>3. new \in TerminalLane
    <3>1. kept \in Seq(TerminalFrames) BY <2>2
    <3> HIDE DEF kept
    <3> QED BY <1>3, <3>1 DEF TerminalLane
  <2>4. /\ new.queue = <<activeDelivery>> /\ new.open /\ new.releasePending
        /\ new.suppressed = lane.suppressed /\ new.head = lane.head /\ new.sent = lane.sent
    BY <1>2, <1>3, <2>2 DEF TerminalLane
  <2> HIDE DEF new, kept
  <2>5. Chain(l, new)
    <3>1. Chain(l, lane) BY <1>1 DEF LanesOK
    <3>2. 1 \in DOMAIN lane.queue BY <1>3, <2>2, EmptySeq
    <3> QED BY <2>2, <2>4, <3>1, <3>2 DEF Chain
  <2>6. AtSent(new, client[l])
    BY <1>1, <1>2, <2>2, <2>4 DEF LanesOK, AtSent
  <2>7. QueueTypes' BY <1>1, <1>3, <1>4, <2>1, <2>3 DEF QueueTypes
  <2>8. Running'
    <3>1. phase # "idle"
      BY <1>1, <2>2, NoFrameAssumption DEF Running, Frames
    <3> QED BY <1>1, <1>4, <3>1 DEF Running
  <2>9. LanesOK' BY <1>1, <1>3, <1>4, <2>1, <2>5, <2>6 DEF LanesOK
  <2>10. ActiveContinues'
    <3>1. terminalLanes'[l] = new BY <1>3, <2>1
    <3>2. client[l].status = "open" /\ client[l].position = activeDelivery.from
      BY <1>1, <2>2 DEF ActiveContinues
    <3>3. new.queue # <<>> /\ new.queue[1] = activeDelivery BY <2>4
    <3>4. activeDelivery' = activeDelivery /\ client' = client BY <1>4
    <3> QED BY <2>2, <2>4, <3>1, <3>2, <3>3, <3>4 DEF ActiveContinues
  <2>11. FailedIsClosed' BY <1>2, <1>4 DEF FailedIsClosed
  <2> QED BY <1>5, <1>6, <2>7, <2>8, <2>9, <2>10, <2>11, InvParts, PTL
<1>8. CASE kept = <<>>
  <2>1. /\ terminalLanes' = [terminalLanes EXCEPT ![l] = NoTerminalLane]
        /\ terminalOrder' = DeleteLane(terminalOrder, l)
    BY <1>8 DEF ReleaseTerminal
  <2>2. /\ NoTerminalLane \in TerminalLane /\ NoTerminalLane.queue = <<>>
        /\ ~NoTerminalLane.open /\ NoTerminalLane.sent = 0 /\ NoTerminalLane.head = 0
    BY EmptyLanes DEF NoTerminalLane, NewTerminalLane
  <2>3. QueueTypes'
    BY <1>1, <1>3, <1>4, <2>1, <2>2, DeleteLaneType DEF QueueTypes
  <2>4. Running'
    BY <1>1, <1>3, <1>4, <2>1, <2>2 DEF Running, QueuedFrames, StateReady, TerminalReady
  <2>5. LanesOK'
    BY <1>1, <1>3, <1>4, <2>1, <2>2 DEF LanesOK, Chain, AtSent
  <2>6. ActiveContinues'
    <3>1. activeDelivery \in TerminalFrames => activeDelivery.lane # l
      <4>1. activeDelivery \in TerminalFrames =>
               InFlightOf(activeDelivery.lane) = <<activeDelivery>>
        BY <1>2, ActiveOpen
      <4>2. <<activeDelivery>> # <<>> OBVIOUS
      <4> QED BY <1>8, <4>1, <4>2
    <3>2. activeDelivery \in TerminalFrames => activeDelivery.lane \in TerminalLanes
      BY <1>2, ActiveOpen
    <3> QED BY <1>1, <1>3, <1>4, <2>1, <3>1, <3>2 DEF ActiveContinues
  <2>7. FailedIsClosed' BY <1>2, <1>4 DEF FailedIsClosed
  <2> QED BY <1>5, <1>6, <2>3, <2>4, <2>5, <2>6, <2>7, InvParts, PTL
<1> QED BY <1>7, <1>8

\* The lane output goes to, and its client, opened by it or found as they were.
LEMMA LaneForOK ==
    ASSUME Inv, ~terminalError, NEW l \in TerminalLanes, NEW range \in Ranges,
           ~terminalLanes[l].releasePending, ~terminalLanes[l].suppressed,
           OpenClient(l, range)
    PROVE  LET lane == LaneFor(l, range)
           IN  /\ lane \in TerminalLane /\ Chain(l, lane)
               /\ lane.open /\ ~lane.suppressed /\ ~lane.releasePending
               /\ client' \in [TerminalLanes -> ClientType]
               /\ client'[l].status = "open" /\ client'[l].position = lane.sent
               /\ \A m \in TerminalLanes : m # l => client'[m] = client[m]
               /\ terminalLanes[l].open => lane = terminalLanes[l] /\ client' = client
<1>1. QueueTypes /\ OtherTypes /\ LanesOK BY InvParts
<1>2. CASE terminalLanes[l].open
  <2>1. LaneFor(l, range) = terminalLanes[l] /\ client' = client
    BY <1>2 DEF LaneFor, OpenClient
  <2> QED BY <1>1, <1>2, <2>1 DEF QueueTypes, OtherTypes, LanesOK, AtSent
<1>3. CASE ~terminalLanes[l].open
  <2> DEFINE lane == NewTerminalLane(range.from)
  <2>1. /\ LaneFor(l, range) = lane
        /\ client' = [client EXCEPT ![l] = [position |-> range.from, status |-> "open"]]
    BY <1>3 DEF LaneFor, OpenClient
  <2>2. range.from \in Positions /\ range.from \in Nat
    BY FramesAssumption DEF Ranges, Positions
  <2>3. lane \in TerminalLane BY <2>2, NewLaneType
  <2>4. /\ lane.queue = <<>> /\ lane.sent = range.from /\ lane.head = range.from
        /\ lane.open /\ ~lane.suppressed /\ ~lane.releasePending
    BY DEF NewTerminalLane
  <2> HIDE DEF lane
  <2>5. Chain(l, lane) BY <2>2, <2>4 DEF Chain
  <2>6. [position |-> range.from, status |-> "open"] \in ClientType
    BY <2>2 DEF ClientType
  <2>7. client' \in [TerminalLanes -> ClientType]
    BY <1>1, <2>1, <2>6 DEF OtherTypes
  <2>8. /\ client'[l].status = "open" /\ client'[l].position = range.from
        /\ \A m \in TerminalLanes : m # l => client'[m] = client[m]
    BY <1>1, <2>1 DEF OtherTypes
  <2> QED BY <1>3, <2>1, <2>3, <2>4, <2>5, <2>7, <2>8
<1> QED BY <1>2, <1>3

\* A lane whose queue was replaced, the lane of the frame in flight keeping it.
LEMMA LaneReplacedInv ==
    ASSUME Inv, ~terminalError, NEW l \in TerminalLanes, NEW new \in TerminalLane,
           Chain(l, new), new.sent = client'[l].position, client'[l].status = "open",
           new.open,
           terminalLanes' = [terminalLanes EXCEPT ![l] = new],
           terminalOrder' = InsertLane(terminalOrder, l),
           terminalBytes' \in Int,
           client' \in [TerminalLanes -> ClientType],
           \A m \in TerminalLanes : m # l => client'[m] = client[m],
           terminalLanes[l].open => client' = client,
           InFlightOf(l) = <<activeDelivery>> =>
               new.queue # <<>> /\ new.queue[1] = activeDelivery,
           UNCHANGED <<controlVars, stateVars, failVars>>, Start
    PROVE  Inv'
<1>1. QueueTypes /\ OtherTypes /\ LanesOK /\ ActiveContinues BY InvParts
<1>2. UNCHANGED <<controlQueue, controlBytes, stateOrder, stateLanes, stateBytes,
                  terminalError, rejection, transportOpen>>
  BY DEF controlVars, stateVars, failVars
<1>3. QueueTypes' BY <1>1, <1>2, InsertLaneType DEF QueueTypes
<1>4. OtherTypes' BY <1>1, <1>2 DEF OtherTypes
<1>5. LanesOK'
  <2> SUFFICES ASSUME NEW m \in TerminalLanes
               PROVE  /\ Chain(m, terminalLanes'[m]) /\ AtSent(terminalLanes'[m], client'[m])
                      /\ client'[m].status # "broken"
    BY DEF LanesOK
  <2>1. CASE m = l
    BY <2>1, <1>1 DEF AtSent, QueueTypes
  <2>2. CASE m # l
    BY <2>2, <1>1 DEF LanesOK, QueueTypes
  <2> QED BY <2>1, <2>2
<1>6. FailedIsClosed' BY <1>2 DEF FailedIsClosed
<1>7. ActiveKept
  <2> SUFFICES ASSUME activeDelivery \in TerminalFrames
               PROVE  LET m == activeDelivery.lane
                      IN  /\ client'[m] = client[m]
                          /\ terminalLanes'[m].open /\ terminalLanes'[m].queue # <<>>
                          /\ terminalLanes'[m].queue[1] = activeDelivery
    BY DEF ActiveKept
  <2> DEFINE m == activeDelivery.lane
  <2>1. /\ m \in TerminalLanes /\ terminalLanes[m].open
        /\ terminalLanes[m].queue # <<>> /\ terminalLanes[m].queue[1] = activeDelivery
        /\ InFlightOf(m) = <<activeDelivery>>
    BY ActiveOpen
  <2> HIDE DEF m
  <2>2. m = l => terminalLanes'[m] = new /\ client'[m] = client[m]
    BY <1>1, <2>1 DEF QueueTypes
  <2>3. m # l => terminalLanes'[m] = terminalLanes[m] /\ client'[m] = client[m]
    BY <1>1, <2>1 DEF QueueTypes
  <2>4. m = l => new.queue # <<>> /\ new.queue[1] = activeDelivery
    BY <2>1
  <2> QED BY <2>1, <2>2, <2>3, <2>4 DEF m
<1> QED BY <1>3, <1>4, <1>5, <1>6, <1>7, StartInv

LEMMA CongestTerminalInv ==
    ASSUME Inv, ~terminalError, NEW l \in TerminalLanes, NEW lane \in TerminalLane,
           NEW range \in Ranges, lane.open, lane.head <= range.to, lane.sent < range.to,
           client' \in [TerminalLanes -> ClientType],
           client'[l].status = "open", client'[l].position = lane.sent,
           \A m \in TerminalLanes : m # l => client'[m] = client[m],
           terminalLanes[l].open => client' = client,
           InFlightOf(l) # <<>> =>
               /\ activeDelivery.class = "terminal" /\ activeDelivery.from = lane.sent
               /\ activeDelivery.to < range.to,
           CongestTerminal(l, lane, range)
    PROVE  Inv'
<1> DEFINE kept == InFlightOf(l)
           keptBytes == terminalBytes - lane.queuedBytes + BytesOf(kept)
           head == IF range.to > lane.head THEN range.to ELSE lane.head
           from == IF kept # <<>> /\ kept[1].to > lane.sent THEN kept[1].to ELSE lane.sent
           skip == [class |-> "terminal_skip", lane |-> l, from |-> from, to |-> head,
                    size |-> SkipBytes]
           new == [lane EXCEPT !.queue = Append(kept, skip),
                               !.queuedBytes = BytesOf(kept) + SkipBytes,
                               !.head = head, !.suppressed = TRUE]
<1>1. CASE Failed
  <2>1. \A m \in TerminalLanes : client'[m].status # "broken"
    BY InvParts DEF LanesOK
  <2>2. activeDelivery \in TerminalFrames =>
            client'[activeDelivery.lane] = client[activeDelivery.lane]
    BY ActiveOpen
  <2> QED BY <1>1, <2>1, <2>2, FailedInv
<1>2. CASE /\ terminalLanes' = [terminalLanes EXCEPT ![l] = new]
           /\ terminalBytes' = keptBytes + SkipBytes
           /\ terminalOrder' = InsertLane(terminalOrder, l)
           /\ UNCHANGED <<controlVars, stateVars, failVars>>
           /\ Start
  <2>1. /\ lane.head \in Nat /\ lane.sent \in Nat /\ range.to \in Nat
        /\ lane.queuedBytes \in Int /\ terminalBytes \in Int
        /\ SkipBytes \in Int /\ BytesOf(kept) \in Int
    BY FramesAssumption, KeptBytes, InvParts
       DEF TerminalLane, Ranges, Positions, OtherTypes
  <2>2. head = range.to BY <2>1
  <2>3. \/ kept = <<>> /\ from = lane.sent
        \/ \E frame \in TerminalFrames :
              /\ kept = <<frame>> /\ frame.lane = l /\ frame.class = "terminal"
              /\ frame.from = lane.sent /\ frame.to < range.to /\ from = frame.to
    <3>1. CASE kept = <<>> BY <3>1
    <3>2. CASE kept # <<>>
      <4>1. /\ kept = <<activeDelivery>> /\ activeDelivery \in TerminalFrames
            /\ activeDelivery.lane = l
        BY <3>2, KeptQueue
      <4>2. activeDelivery.from < activeDelivery.to
        BY <4>1 DEF TerminalFrames, OutputFrame, SkipFrame, TerminalFrame
      <4>3. from = activeDelivery.to
        BY <3>2, <4>1, <4>2
      <4> HIDE DEF kept, from
      <4> QED BY <3>2, <4>1, <4>3 DEF kept
    <3> QED BY <3>1, <3>2
  <2>4. BytesOf(kept) + SkipBytes \in Int BY <2>1
  <2>5. new \in TerminalLane /\ Chain(l, new)
    <3> HIDE DEF kept, from, head
    <3>1. /\ skip = [class |-> "terminal_skip", lane |-> l, from |-> from,
                     to |-> range.to, size |-> SkipBytes]
          /\ new = [lane EXCEPT !.queue = Append(kept, skip),
                                !.queuedBytes = BytesOf(kept) + SkipBytes,
                                !.head = range.to, !.suppressed = TRUE]
      BY <2>2
    <3> DEFINE bytes == BytesOf(kept) + SkipBytes
    <3>2. new = [lane EXCEPT !.queue = Append(kept, skip), !.queuedBytes = bytes,
                             !.head = range.to, !.suppressed = TRUE]
      BY <3>1
    <3>3. bytes \in Int BY <2>4
    <3> HIDE DEF bytes, skip, new
    <3>4. LET s == [class |-> "terminal_skip", lane |-> l, from |-> from,
                    to |-> range.to, size |-> SkipBytes]
              n == [lane EXCEPT !.queue = Append(kept, s), !.queuedBytes = bytes,
                                !.head = range.to, !.suppressed = TRUE]
          IN  n \in TerminalLane /\ Chain(l, n)
      BY <2>3, <3>3, CongestedChain
    <3> QED BY <3>1, <3>2, <3>4
  <2>6. new.sent = lane.sent /\ new.open /\ new.queue = Append(kept, skip)
    BY DEF TerminalLane
  <2>7. kept = <<activeDelivery>> =>
            new.queue # <<>> /\ new.queue[1] = activeDelivery
    <3> HIDE DEF kept, skip, new
    <3> QED BY <2>6, AppendToOne
  <2>8. terminalBytes' \in Int BY <1>2, <2>1
  <2> HIDE DEF new, head, from, skip, keptBytes
  <2> QED BY <1>2, <2>5, <2>6, <2>7, <2>8, LaneReplacedInv
<1> QED BY <1>1, <1>2 DEF CongestTerminal

\* The output frame in flight of a lane that still takes output.
LEMMA InFlightOutput ==
    ASSUME Inv, ~terminalError, NEW l \in TerminalLanes, ~terminalLanes[l].suppressed,
           InFlightOf(l) # <<>>
    PROVE  /\ terminalLanes[l].open
           /\ activeDelivery.class = "terminal"
           /\ activeDelivery.from = terminalLanes[l].sent
           /\ activeDelivery.to \in Nat /\ activeDelivery.to <= terminalLanes[l].head
<1> DEFINE lane == terminalLanes[l]
<1>1. /\ activeDelivery \in TerminalFrames /\ lane.queue # <<>>
      /\ activeDelivery = lane.queue[1]
  BY KeptQueue
<1>2. lane.queue \in Seq(TerminalFrames) /\ Chain(l, lane)
  BY InvParts DEF QueueTypes, TerminalLane, LanesOK
<1>3. 1 \in DOMAIN lane.queue BY <1>1, <1>2, EmptySeq
<1>4. activeDelivery.class \in {"terminal", "terminal_skip"} /\ activeDelivery.to \in Nat
  BY <1>1, FramesAssumption
     DEF TerminalFrames, OutputFrame, SkipFrame, TerminalFrame, Positions
<1> QED BY <1>1, <1>2, <1>3, <1>4 DEF Chain

LEMMA SendOutputInv ==
    ASSUME Inv, ~terminalError, NEW l \in TerminalLanes, NEW range \in Ranges,
           ~terminalLanes[l].releasePending, ~terminalLanes[l].suppressed,
           SendOutput(l, range)
    PROVE  Inv'
<1> DEFINE lane == LaneFor(l, range)
           since == IF lane.unconfirmedSince = "none" THEN "recent" ELSE lane.unconfirmedSince
           admitted == [lane EXCEPT !.unconfirmedSince = since, !.head = range.to]
<1>1. OpenClient(l, range) BY DEF SendOutput
<1>2. /\ lane \in TerminalLane /\ Chain(l, lane)
      /\ lane.open /\ ~lane.suppressed /\ ~lane.releasePending
      /\ client' \in [TerminalLanes -> ClientType]
      /\ client'[l].status = "open" /\ client'[l].position = lane.sent
      /\ \A m \in TerminalLanes : m # l => client'[m] = client[m]
      /\ terminalLanes[l].open => lane = terminalLanes[l] /\ client' = client
  BY <1>1, LaneForOK
<1>3. range.to > lane.head /\ range.from = lane.head BY DEF SendOutput
<1>4. /\ lane.head \in Nat /\ lane.sent \in Nat /\ range.to \in Nat /\ range.from \in Nat
      /\ range.to \in Positions /\ range.from \in Positions
      /\ lane.queue \in Seq(TerminalFrames) /\ lane.queuedBytes \in Int
  BY <1>2, FramesAssumption DEF TerminalLane, Ranges, Positions
<1>5. lane.sent < range.to BY <1>2, <1>3, <1>4 DEF Chain
<1>6. since \in {"none", "recent", "overdue"} BY <1>2 DEF TerminalLane
<1>7. SendOutput(l, range) =>
         \/ CongestTerminal(l, admitted, range)
         \/ /\ QueueTerminal(l, admitted, range)
            /\ terminalOrder' = InsertLane(terminalOrder, l)
            /\ UNCHANGED <<controlVars, stateVars, failVars>>
            /\ Start
  BY DEF SendOutput
<1> HIDE DEF lane, since
<1>8. /\ admitted \in TerminalLane /\ admitted.open /\ admitted.head = range.to
      /\ admitted.sent = lane.sent /\ admitted.queue = lane.queue
      /\ admitted.queuedBytes = lane.queuedBytes
  BY <1>2, <1>4, <1>6 DEF TerminalLane
<1>9. CASE CongestTerminal(l, admitted, range)
  <2>1. InFlightOf(l) # <<>> =>
           /\ activeDelivery.class = "terminal" /\ activeDelivery.from = lane.sent
           /\ activeDelivery.to < range.to
    BY <1>2, <1>3, <1>4, InFlightOutput
  <2> HIDE DEF admitted
  <2>2. admitted.head <= range.to BY <1>4, <1>8
  <2> QED BY <1>2, <1>5, <1>8, <1>9, <2>1, <2>2, CongestTerminalInv
<1>10. CASE /\ QueueTerminal(l, admitted, range)
            /\ terminalOrder' = InsertLane(terminalOrder, l)
            /\ UNCHANGED <<controlVars, stateVars, failVars>>
            /\ Start
  <2> DEFINE size == range.to - range.from
             frame == [class |-> "terminal", lane |-> l, from |-> range.from,
                       to |-> range.to, size |-> size]
             bytes == admitted.queuedBytes + size
             new == [admitted EXCEPT !.queue = Append(@, frame), !.queuedBytes = bytes]
  <2>1. /\ terminalLanes' = [terminalLanes EXCEPT ![l] = new]
        /\ terminalBytes' = terminalBytes + size
    BY <1>10 DEF QueueTerminal
  <2>2. size \in Nat \ {0} BY <1>3, <1>4
  <2>3. bytes \in Int BY <1>4, <1>8, <2>2
  <2>4. terminalBytes' \in Int BY <2>1, <2>2, InvParts DEF OtherTypes
  <2> HIDE DEF size, bytes
  <2>5. frame \in OutputFrame
    BY <1>3, <1>4, <2>2 DEF OutputFrame, TerminalFrame
  <2>6. Chain(l, [[lane EXCEPT !.unconfirmedSince = since, !.head = frame.to]
                        EXCEPT !.queue = Append(@, frame), !.queuedBytes = bytes])
    <3>1. frame.lane = l /\ frame.from = lane.head BY <1>3
    <3> HIDE DEF frame
    <3> QED BY <1>2, <2>5, <3>1, AppendOutputChain
  <2>7. Chain(l, new) BY <2>6
  <2>8. new \in TerminalLane
    <3>1. Append(lane.queue, frame) \in Seq(TerminalFrames)
      BY <1>4, <2>5, AppendProperties DEF TerminalFrames
    <3> HIDE DEF frame
    <3> QED BY <1>8, <2>3, <3>1 DEF TerminalLane
  <2>9. /\ new.sent = lane.sent /\ new.open
        /\ new.queue = Append(lane.queue, frame)
    BY <1>2 DEF TerminalLane
  <2>10. InFlightOf(l) = <<activeDelivery>> =>
            new.queue # <<>> /\ new.queue[1] = activeDelivery
    <3> SUFFICES ASSUME InFlightOf(l) = <<activeDelivery>>
                 PROVE  new.queue # <<>> /\ new.queue[1] = activeDelivery
      OBVIOUS
    <3>1. InFlightOf(l) # <<>> OBVIOUS
    <3>2. /\ lane = terminalLanes[l] /\ terminalLanes[l].queue # <<>>
          /\ activeDelivery = terminalLanes[l].queue[1]
      BY <1>2, <3>1, InFlightOutput, KeptQueue
    <3> HIDE DEF frame, new
    <3> QED BY <1>4, <2>9, <3>2, AppendProperties
  <2> HIDE DEF new, frame, admitted
  <2> QED BY <1>2, <1>10, <2>1, <2>4, <2>7, <2>8, <2>9, <2>10, LaneReplacedInv
<1> QED BY <1>7, <1>9, <1>10

LEMMA SendOutOfOrderInv ==
    ASSUME Inv, ~terminalError, NEW l \in TerminalLanes, NEW range \in Ranges,
           ~terminalLanes[l].suppressed, SendOutOfOrder(l, range)
    PROVE  Inv'
<1> DEFINE lane == terminalLanes[l]
<1>1. /\ lane \in TerminalLane /\ Chain(l, lane) /\ AtSent(lane, client[l])
      /\ client \in [TerminalLanes -> ClientType]
  BY InvParts DEF QueueTypes, LanesOK, OtherTypes
<1>2. /\ lane.open /\ range.to > lane.head /\ CongestTerminal(l, lane, range)
      /\ client' = client
  BY DEF SendOutOfOrder
<1>3. lane.head \in Nat /\ lane.sent \in Nat /\ range.to \in Nat
  BY <1>1, FramesAssumption DEF TerminalLane, Ranges, Positions
<1>4. lane.head <= range.to /\ lane.sent < range.to
  BY <1>1, <1>2, <1>3 DEF Chain
<1>5. client'[l].status = "open" /\ client'[l].position = lane.sent
  BY <1>1, <1>2 DEF AtSent
<1>6. InFlightOf(l) # <<>> =>
         /\ activeDelivery.class = "terminal" /\ activeDelivery.from = lane.sent
         /\ activeDelivery.to < range.to
  BY <1>2, <1>3, InFlightOutput
<1> HIDE DEF lane
<1>7. terminalLanes[l].open => client' = client BY <1>2
<1>8. \A m \in TerminalLanes : m # l => client'[m] = client[m] BY <1>2
<1> QED BY <1>1, <1>2, <1>4, <1>5, <1>6, <1>7, <1>8, CongestTerminalInv

LEMMA SendTerminalInv ==
    ASSUME Inv, NEW l \in TerminalLanes, NEW range \in Ranges, SendTerminal(l, range)
    PROVE  Inv'
BY SendOutputInv, SendOutOfOrderInv DEF SendTerminal

LEMMA WritableInv ==
    ASSUME Inv, Writable
    PROVE  Inv'
<1>1. UNCHANGED <<controlQueue, controlBytes, stateOrder, stateLanes, stateBytes,
                  terminalOrder, terminalLanes, terminalBytes, activeDelivery, controlRun,
                  stateCursor, terminalCursor, idleWaiter, terminalError, transportOpen, client>>
  BY DEF Writable, controlVars, stateVars, terminalVars
<1>2. phase = "waiting" /\ phase' = "sending" BY DEF Writable, WaitAnswered
<1>3. QueueTypes' BY <1>1, InvParts DEF QueueTypes
<1>4. DrainTypes' BY <1>1, <1>2, InvParts DEF DrainTypes
<1>5. OtherTypes'
  <2>1. rejection' \in {"none", "queued", "overtaken"}
    BY InvParts DEF OtherTypes, Writable, Overtake
  <2> QED BY <1>1, <2>1, InvParts DEF OtherTypes
<1>6. Running' BY <1>1, <1>2, InvParts DEF Running
<1>7. LanesOK' BY <1>1, InvParts DEF LanesOK
<1>8. ActiveContinues' BY <1>1, InvParts DEF ActiveContinues
<1>9. FailedIsClosed' BY <1>1, InvParts DEF FailedIsClosed
<1> QED BY <1>3, <1>4, <1>5, <1>6, <1>7, <1>8, <1>9, InvParts, PTL

\* completeDelivery of a frame that is not terminal output.
LEMMA CompleteOther ==
    ASSUME Inv, CompleteDelivery, activeDelivery \notin TerminalFrames
    PROVE  /\ QueueTypes' /\ UNCHANGED terminalVars
           /\ controlBytes' \in Int /\ stateBytes' \in Int
<1>1. QueueTypes /\ OtherTypes BY InvParts
<1>2. CASE CompleteControl(activeDelivery)
  <2>1. activeDelivery.size \in Int
    <3>1. activeDelivery.size \in ControlSizes BY <1>2 DEF CompleteControl, ControlFrame
    <3>2. ControlSizes \subseteq Int BY FramesAssumption
    <3> QED BY <3>1, <3>2
  <2>2. controlQueue' \in Seq(ControlFrame)
    BY <1>1, <1>2, HeadTailProperties DEF CompleteControl, QueueTypes, controlVars
  <2>3. controlBytes' \in Int
    BY <1>1, <1>2, <2>1 DEF CompleteControl, OtherTypes, controlVars
  <2> QED BY <1>1, <1>2, <2>2, <2>3
          DEF CompleteControl, QueueTypes, OtherTypes, stateVars, terminalVars
<1>3. CASE CompleteState(activeDelivery)
  <2> DEFINE l == activeDelivery.lane
             queue == stateLanes[l].queue
             bytes == stateLanes[l].queuedBytes - activeDelivery.size
  <2>1. activeDelivery \in StateFrames BY <1>3 DEF CompleteState
  <2>2. l \in StateLanes /\ activeDelivery.size \in Int
    BY <2>1, StateFrameSize DEF StateFrames, StateFrame, ResyncFrame
  <2>3. /\ stateLanes \in [StateLanes -> StateLane] /\ queue \in Seq(StateFrames)
        /\ stateLanes[l].queuedBytes \in Int /\ stateBytes \in Int
        /\ stateOrder \in Seq(StateLanes)
    BY <1>1, <2>2 DEF QueueTypes, OtherTypes, StateLane
  <2>4. \/ UNCHANGED stateVars
        \/ /\ stateBytes' = stateBytes - activeDelivery.size
           /\ stateLanes' = [stateLanes EXCEPT ![l] = EmptyStateLane]
           /\ stateOrder' = DeleteLane(stateOrder, l)
        \/ /\ stateBytes' = stateBytes - activeDelivery.size
           /\ stateLanes' = [stateLanes EXCEPT ![l].queue = Tail(queue), ![l].queuedBytes = bytes]
           /\ UNCHANGED stateOrder
           /\ queue # <<>>
    BY <1>3 DEF CompleteState
  <2> HIDE DEF l
  <2>5. stateBytes' \in Int BY <2>2, <2>3, <2>4 DEF stateVars
  <2>6. stateOrder' \in Seq(StateLanes) BY <2>3, <2>4, DeleteLaneType DEF stateVars
  <2>7. stateLanes' \in [StateLanes -> StateLane]
    <3>1. CASE UNCHANGED stateVars BY <2>3, <3>1 DEF stateVars
    <3>2. CASE stateLanes' = [stateLanes EXCEPT ![l] = EmptyStateLane]
      BY <2>3, <3>2, EmptyLanes
    <3>3. CASE /\ stateLanes' = [stateLanes EXCEPT ![l].queue = Tail(queue),
                                                   ![l].queuedBytes = bytes]
               /\ queue # <<>>
      <4>1. bytes \in Int BY <2>2, <2>3
      <4>2. Tail(queue) \in Seq(StateFrames) BY <2>3, <3>3, HeadTailProperties
      <4> HIDE DEF bytes
      <4> QED BY <2>3, <3>3, <4>1, <4>2 DEF StateLane
    <3> QED BY <2>4, <3>1, <3>2, <3>3
  <2> QED BY <1>1, <1>3, <2>5, <2>6, <2>7
          DEF CompleteState, QueueTypes, OtherTypes, controlVars, terminalVars
<1>4. ~CompleteTerminal(activeDelivery) BY DEF CompleteTerminal
<1> QED BY <1>2, <1>3, <1>4 DEF CompleteDelivery

\* An answer that completes no terminal frame leaves every stream as it is.
LEMMA OtherAnswerInv ==
    ASSUME Inv, QueueTypes', OtherTypes', UNCHANGED <<terminalVars, client, terminalError>>,
           Resume
    PROVE  Inv'
BY InvParts, OthersUntouched, ResumeInv

LEMMA RefusedInv ==
    ASSUME Inv, Refused
    PROVE  Inv'
<1>1. activeDelivery \notin TerminalFrames BY DisjointFrames DEF Refused
<1>2. /\ QueueTypes' /\ UNCHANGED <<terminalVars, client, terminalError, transportOpen>>
      /\ controlBytes' \in Int /\ stateBytes' \in Int
  BY <1>1, CompleteOther DEF Refused
<1>3. rejection' \in {"none", "queued", "overtaken"}
  BY InvParts DEF OtherTypes, Refused, Overtake
<1>4. OtherTypes' BY <1>2, <1>3, InvParts DEF OtherTypes, terminalVars
<1> QED BY <1>2, <1>4, OtherAnswerInv DEF Refused

LEMMA ThrownInv ==
    ASSUME Inv, Thrown
    PROVE  Inv'
<1>1. UNCHANGED <<controlQueue, controlBytes, stateOrder, stateLanes, stateBytes,
                  terminalOrder, terminalLanes, terminalBytes, terminalError, transportOpen,
                  client>>
  BY DEF Thrown, controlVars, stateVars, terminalVars
<1>2. rejection' \in {"none", "queued", "overtaken"}
  BY InvParts DEF OtherTypes, Thrown
<1>3. QueueTypes' BY <1>1, InvParts DEF QueueTypes
<1>4. OtherTypes' BY <1>1, <1>2, InvParts DEF OtherTypes
<1> QED BY <1>3, <1>4, OtherAnswerInv DEF Thrown

LEMMA AcceptedTerminal ==
    ASSUME Inv, Accepted, activeDelivery \in TerminalFrames
    PROVE  QueueTypes' /\ OtherTypes' /\ LanesOK' /\ FailedIsClosed'
<1> DEFINE frame == activeDelivery
           l == frame.lane
           lane == terminalLanes[l]
           bytes == lane.queuedBytes - frame.size
           new == [lane EXCEPT !.queue = Tail(@), !.queuedBytes = bytes,
                               !.sent = SentAfter(lane, frame)]
<1>1. QueueTypes /\ OtherTypes /\ LanesOK /\ ActiveContinues /\ FailedIsClosed
  BY InvParts
<1>2. CompleteTerminal(frame)
  BY DisjointFrames
     DEF Accepted, CompleteDelivery, CompleteControl, CompleteState
<1>3. /\ UNCHANGED <<controlQueue, controlBytes, stateOrder, stateLanes, stateBytes,
                     terminalError, rejection, transportOpen>>
      /\ client' = [client EXCEPT ![l] = Receive(@, frame)]
  BY <1>2 DEF Accepted, CompleteTerminal, controlVars, stateVars, failVars
<1>4. /\ l \in TerminalLanes /\ frame.size \in Int /\ frame.to \in Positions
      /\ frame.class \in {"terminal", "terminal_skip"}
  BY TerminalFrameSize DEF TerminalFrames, OutputFrame, SkipFrame, TerminalFrame
<1>5. client[l].status = "open" /\ client[l].position = frame.from
  BY <1>1 DEF ActiveContinues
<1>6. Receive(client[l], frame) =
         [position |-> frame.to,
          status |-> IF frame.class = "terminal_skip" THEN "skipped" ELSE "open"]
  BY <1>5 DEF Receive
<1>7. Receive(client[l], frame) \in ClientType /\ Receive(client[l], frame).status # "broken"
  BY <1>4, <1>6 DEF ClientType
<1>8. client' \in [TerminalLanes -> ClientType]
  BY <1>1, <1>3, <1>4, <1>7 DEF OtherTypes
<1>9. /\ terminalLanes \in [TerminalLanes -> TerminalLane] /\ lane \in TerminalLane
      /\ lane.queue \in Seq(TerminalFrames) /\ lane.queuedBytes \in Int
      /\ terminalBytes \in Int /\ terminalOrder \in Seq(TerminalLanes)
  BY <1>1, <1>4 DEF QueueTypes, OtherTypes, TerminalLane
<1>10. FailedIsClosed' /\ terminalBytes' \in Int /\ QueueTypes' /\ LanesOK'
  <2>1. CASE terminalError
    <3>1. ~lane.open BY <1>1, <1>4, <2>1 DEF FailedIsClosed
    <3>2. lane.queue = <<>> BY <1>1, <1>4, <3>1 DEF LanesOK, Chain
    <3>3. UNCHANGED <<terminalOrder, terminalLanes, terminalBytes>>
      BY <1>2, <3>2 DEF CompleteTerminal, terminalVars
    <3>4. LanesOK'
      <4> SUFFICES ASSUME NEW m \in TerminalLanes
                   PROVE  /\ Chain(m, terminalLanes'[m]) /\ AtSent(terminalLanes'[m], client'[m])
                          /\ client'[m].status # "broken"
        BY DEF LanesOK
      <4>1. CASE m = l
        BY <1>1, <1>3, <1>7, <3>1, <3>3, <4>1 DEF LanesOK, AtSent, OtherTypes
      <4>2. CASE m # l
        BY <1>1, <1>3, <3>3, <4>2 DEF LanesOK, OtherTypes
      <4> QED BY <4>1, <4>2
    <3> QED BY <1>1, <1>3, <1>9, <3>3, <3>4 DEF FailedIsClosed, QueueTypes
  <2>2. CASE ~terminalError
    <3>1. /\ lane.open /\ lane.queue # <<>> /\ lane.queue[1] = frame /\ Head(lane.queue) = frame
      BY <2>2, <1>9, ActiveOpen, HeadTailProperties
    <3>2. /\ terminalBytes' = terminalBytes - frame.size
          /\ \/ /\ terminalLanes' = [terminalLanes EXCEPT ![l] = NoTerminalLane]
                /\ terminalOrder' = DeleteLane(terminalOrder, l)
             \/ /\ terminalLanes' = [terminalLanes EXCEPT ![l] = new]
                /\ UNCHANGED terminalOrder
      BY <1>2, <3>1 DEF CompleteTerminal
    <3>3. terminalBytes' \in Int BY <1>4, <1>9, <3>2
    <3>4. terminalOrder' \in Seq(TerminalLanes) BY <1>9, <3>2, DeleteLaneType
    <3>5. PICK n \in TerminalLane :
             /\ terminalLanes' = [terminalLanes EXCEPT ![l] = n]
             /\ Chain(l, n) /\ AtSent(n, client'[l]) /\ client'[l].status # "broken"
      <4>0. client'[l] = Receive(client[l], frame)
        BY <1>1, <1>3, <1>4 DEF OtherTypes
      <4>1. CASE terminalLanes' = [terminalLanes EXCEPT ![l] = NoTerminalLane]
        <5>1. Chain(l, NoTerminalLane) /\ AtSent(NoTerminalLane, client'[l])
          BY DEF Chain, AtSent, NoTerminalLane, NewTerminalLane
        <5> QED BY <4>0, <4>1, <5>1, <1>7, EmptyLanes
      <4>2. CASE terminalLanes' = [terminalLanes EXCEPT ![l] = new]
        <5>1. bytes \in Int BY <1>4, <1>9
        <5>2. Chain(l, lane) BY <1>1, <1>4 DEF LanesOK
        <5>3. client[l] \in [position : Positions, status : {"open", "skipped", "broken"}]
          BY <1>1, <1>4 DEF OtherTypes, ClientType
        <5> HIDE DEF bytes, lane, l
        <5>4. /\ new \in TerminalLane /\ Chain(l, new)
              /\ AtSent(new, Receive(client[l], frame))
              /\ Receive(client[l], frame).status # "broken"
          BY <1>4, <1>5, <1>9, <3>1, <5>1, <5>2, <5>3, SentChain
        <5> QED BY <4>0, <4>2, <5>4
      <4> QED BY <3>2, <4>1, <4>2
    <3>6. LanesOK'
      <4> SUFFICES ASSUME NEW m \in TerminalLanes
                   PROVE  /\ Chain(m, terminalLanes'[m]) /\ AtSent(terminalLanes'[m], client'[m])
                          /\ client'[m].status # "broken"
        BY DEF LanesOK
      <4>1. CASE m = l
        BY <1>9, <3>5, <4>1
      <4>2. CASE m # l
        BY <1>1, <1>3, <1>9, <3>5, <4>2 DEF LanesOK, OtherTypes
      <4> QED BY <4>1, <4>2
    <3>7. terminalLanes' \in [TerminalLanes -> TerminalLane]
      BY <1>9, <3>5
    <3>8. QueueTypes' BY <1>1, <1>3, <3>4, <3>7 DEF QueueTypes
    <3> QED BY <1>3, <2>2, <3>3, <3>6, <3>8 DEF FailedIsClosed
  <2> QED BY <2>1, <2>2
<1> QED BY <1>1, <1>3, <1>8, <1>10 DEF OtherTypes

LEMMA AcceptedInv ==
    ASSUME Inv, Accepted
    PROVE  Inv'
<1>1. CASE activeDelivery \in TerminalFrames
  BY <1>1, AcceptedTerminal, ResumeInv, InvParts DEF Accepted
<1>2. CASE activeDelivery \notin TerminalFrames
  <2>1. /\ QueueTypes' /\ UNCHANGED terminalVars
        /\ controlBytes' \in Int /\ stateBytes' \in Int
    BY <1>2, CompleteOther DEF Accepted
  <2>2. UNCHANGED <<client, terminalError, rejection, transportOpen>>
    BY <1>2 DEF Accepted, failVars
  <2>3. OtherTypes' BY <2>1, <2>2, InvParts DEF OtherTypes, terminalVars
  <2> QED BY <2>1, <2>2, <2>3, OtherAnswerInv DEF Accepted
<1> QED BY <1>1, <1>2

\* Steps of the connection around the pump that touch no queue.
LEMMA TransportClosesInv ==
    ASSUME Inv, TransportCloses
    PROVE  Inv'
<1>1. UNCHANGED <<controlQueue, controlBytes, stateOrder, stateLanes, stateBytes,
                  terminalOrder, terminalLanes, terminalBytes, activeDelivery, phase,
                  controlRun, stateCursor, terminalCursor, idleWaiter, terminalError,
                  rejection, client>>
  BY DEF TransportCloses, controlVars, stateVars, terminalVars, drainVars
<1>2. transportOpen' \in BOOLEAN BY DEF TransportCloses
<1>3. QueueTypes' BY <1>1, InvParts DEF QueueTypes
<1>4. DrainTypes' BY <1>1, InvParts DEF DrainTypes
<1>5. OtherTypes' BY <1>1, <1>2, InvParts DEF OtherTypes
<1>6. Running' BY <1>1, InvParts DEF Running, QueuedFrames, StateReady, TerminalReady
<1>7. LanesOK' /\ ActiveContinues' /\ FailedIsClosed'
  BY <1>1, InvParts DEF LanesOK, ActiveContinues, FailedIsClosed
<1> QED BY <1>3, <1>4, <1>5, <1>6, <1>7, InvParts, PTL

LEMMA WhenIdleInv ==
    ASSUME Inv, WhenIdle
    PROVE  Inv'
<1>1. UNCHANGED <<controlQueue, controlBytes, stateOrder, stateLanes, stateBytes,
                  terminalOrder, terminalLanes, terminalBytes, activeDelivery, phase,
                  controlRun, stateCursor, terminalCursor, terminalError, transportOpen,
                  rejection, client>>
  BY DEF WhenIdle, controlVars, stateVars, terminalVars, failVars
<1>2. idleWaiter' \in BOOLEAN /\ phase # "idle"
  BY InvParts DEF WhenIdle, Running
<1>3. QueueTypes' BY <1>1, InvParts DEF QueueTypes
<1>4. DrainTypes' BY <1>1, <1>2, InvParts DEF DrainTypes
<1>5. OtherTypes' BY <1>1, InvParts DEF OtherTypes
<1>6. Running' BY <1>1, <1>2, InvParts DEF Running
<1>7. LanesOK' /\ ActiveContinues' /\ FailedIsClosed'
  BY <1>1, InvParts DEF LanesOK, ActiveContinues, FailedIsClosed
<1> QED BY <1>3, <1>4, <1>5, <1>6, <1>7, InvParts, PTL

LEMMA StutterInv ==
    ASSUME Inv, UNCHANGED vars
    PROVE  Inv'
<1>1. UNCHANGED <<controlQueue, controlBytes, stateOrder, stateLanes, stateBytes,
                  terminalOrder, terminalLanes, terminalBytes, activeDelivery, phase,
                  controlRun, stateCursor, terminalCursor, idleWaiter, terminalError,
                  rejection, transportOpen, client>>
  BY DEF vars, controlVars, stateVars, terminalVars, drainVars, failVars
<1>3. QueueTypes' BY <1>1, InvParts DEF QueueTypes
<1>4. DrainTypes' BY <1>1, InvParts DEF DrainTypes
<1>5. OtherTypes' BY <1>1, InvParts DEF OtherTypes
<1>6. Running' BY <1>1, InvParts DEF Running, QueuedFrames, StateReady, TerminalReady
<1>7. LanesOK' /\ ActiveContinues' /\ FailedIsClosed'
  BY <1>1, InvParts DEF LanesOK, ActiveContinues, FailedIsClosed
<1> QED BY <1>3, <1>4, <1>5, <1>6, <1>7, InvParts, PTL

LEMMA NextInv ==
    ASSUME Inv, [Next]_vars
    PROVE  Inv'
<1>1. CASE \E size \in ControlSizes : SendControl(size) \/ OverflowControl(size)
  BY <1>1, SendControlInv, OverflowControlInv
<1>2. CASE \E l \in StateLanes, key \in Keys, size \in StateSizes : SendState(l, key, size)
  BY <1>2, SendStateInv
<1>3. CASE \E l \in TerminalLanes, range \in Ranges : SendTerminal(l, range)
  BY <1>3, SendTerminalInv
<1>4. CASE \E l \in TerminalLanes : \E position \in Positions :
              AcknowledgeTerminal(l, position)
  BY <1>4, AcknowledgeTerminalInv
<1>5. CASE \E l \in TerminalLanes : UnconfirmedAges(l) \/ ReleaseTerminal(l)
  BY <1>5, UnconfirmedAgesInv, ReleaseTerminalInv
<1>6. CASE Writable BY <1>6, WritableInv
<1>7. CASE Accepted BY <1>7, AcceptedInv
<1>8. CASE Refused BY <1>8, RefusedInv
<1>9. CASE Thrown BY <1>9, ThrownInv
<1>10. CASE DrainRejected BY <1>10, FailedAlone DEF DrainRejected
<1>11. CASE Close BY <1>11, FailedAlone DEF Close
<1>12. CASE TransportCloses BY <1>12, TransportClosesInv
<1>13. CASE WhenIdle BY <1>13, WhenIdleInv
<1>14. CASE UNCHANGED vars BY <1>14, StutterInv
<1> QED BY <1>1, <1>2, <1>3, <1>4, <1>5, <1>6, <1>7, <1>8, <1>9, <1>10, <1>11, <1>12,
           <1>13, <1>14 DEF Next

\* Every reachable state of the pump satisfies the inductive invariant.
THEOREM PumpInvariant == Spec => []Inv
<1>1. Init => Inv BY InitInv
<1>2. Inv /\ [Next]_vars => Inv' BY NextInv
<1> QED BY <1>1, <1>2, PTL DEF Spec

\* The queues, lanes, cursors and the frame drain() holds are well typed
\* whatever send, sendState, sendTerminal and the transport do.
THEOREM PumpTypeOK == Spec => []TypeOK
<1>1. Inv => TypeOK BY DEF Inv
<1> QED BY <1>1, PumpInvariant, PTL

\* start() and the restart in drain()'s `finally' leave no frame queued without
\* a running drain(), and settleIdle leaves no whenIdle() caller behind.
THEOREM PumpNeverStalled == Spec => []NeverStalled
<1>1. Inv => NeverStalled BY DEF Inv, Running, NeverStalled
<1> QED BY <1>1, PumpInvariant, PTL

\* Whatever is superseded, collapsed, released or completed out of its queue,
\* the frames transmitted on a terminal lane are contiguous output and then at
\* most one skip that starts where the output ends.
THEOREM PumpClientContiguous == Spec => []ClientContiguous
<1>1. Inv => ClientContiguous BY DEF Inv, StreamInv, ClientContiguous
<1> QED BY <1>1, PumpInvariant, PTL

-----------------------------------------------------------------------------
(* The queues and their byte counters. *)

\* sum[i] is the size of the first i frames of the queue.
PrefixSums(queue, sum) ==
    /\ sum \in [0..Len(queue) -> Nat]
    /\ sum[0] = 0
    /\ \A i \in 1..Len(queue) : sum[i] = sum[i - 1] + queue[i].size
    /\ \A i, j \in 0..Len(queue) : i <= j => sum[i] <= sum[j]

\* The counter of a queue is the sum of its frames' sizes.
Accounted(queue, bytes) == \E sum : PrefixSums(queue, sum) /\ sum[Len(queue)] = bytes

-----------------------------------------------------------------------------
(* What every change of a queue does to its sum. *)

LEMMA AccountedEmpty == Accounted(<<>>, 0)
<1> DEFINE sum == [i \in 0..0 |-> 0]
<1>1. Len(<<>>) = 0 OBVIOUS
<1>2. PrefixSums(<<>>, sum) /\ sum[0] = 0
  BY <1>1 DEF PrefixSums
<1> HIDE DEF sum
<1> QED BY <1>1, <1>2 DEF Accounted

LEMMA AccountedBounds ==
    ASSUME NEW S, NEW queue \in Seq(S), \A frame \in S : frame.size \in Nat,
           NEW bytes, Accounted(queue, bytes)
    PROVE  /\ bytes \in Nat
           /\ \A i \in 1..Len(queue) : queue[i].size <= bytes
<1>1. PICK sum : PrefixSums(queue, sum) /\ sum[Len(queue)] = bytes
  BY DEF Accounted
<1>2. Len(queue) \in Nat OBVIOUS
<1>3. bytes \in Nat BY <1>1, <1>2 DEF PrefixSums
<1>4. ASSUME NEW i \in 1..Len(queue) PROVE queue[i].size <= bytes
  <2>1. i \in 0..Len(queue) /\ i - 1 \in 0..Len(queue) /\ Len(queue) \in 0..Len(queue)
    BY <1>2
  <2>2. /\ sum[i] \in Nat /\ sum[i - 1] \in Nat
        /\ sum[i] = sum[i - 1] + queue[i].size /\ sum[i] <= bytes
    <3>1. i <= Len(queue) BY <1>2
    <3>2. sum[i] <= sum[Len(queue)] BY <1>1, <2>1, <3>1 DEF PrefixSums
    <3> QED BY <1>1, <2>1, <3>2 DEF PrefixSums
  <2>3. queue[i].size \in Nat BY ElementOfSeq
  <2> QED BY <1>3, <2>2, <2>3
<1> QED BY <1>3, <1>4

LEMMA AccountedAppend ==
    ASSUME NEW S, NEW queue \in Seq(S), NEW frame \in S, frame.size \in Nat,
           NEW bytes, Accounted(queue, bytes)
    PROVE  Accounted(Append(queue, frame), bytes + frame.size)
<1> DEFINE n == Len(queue)
           new == Append(queue, frame)
<1>1. PICK sum : PrefixSums(queue, sum) /\ sum[n] = bytes
  BY DEF Accounted
<1> DEFINE after == [i \in 0..(n + 1) |-> IF i = n + 1 THEN bytes + frame.size ELSE sum[i]]
<1>2. /\ n \in Nat /\ Len(new) = n + 1 /\ new[n + 1] = frame
      /\ \A i \in 1..n : new[i] = queue[i]
  BY AppendProperties
<1>3. bytes \in Nat /\ \A i \in 0..n : sum[i] \in Nat
  BY <1>1, <1>2 DEF PrefixSums
<1> HIDE DEF new, n
<1>4. after \in [0..Len(new) -> Nat] /\ after[0] = 0 /\ after[Len(new)] = bytes + frame.size
  BY <1>1, <1>2, <1>3 DEF PrefixSums, n
<1>5. \A i \in 1..Len(new) : after[i] = after[i - 1] + new[i].size
  <2> TAKE i \in 1..Len(new)
  <2>1. CASE i = n + 1
    BY <2>1, <1>1, <1>2, <1>3 DEF PrefixSums
  <2>2. CASE i # n + 1
    <3>1. i \in 1..n /\ i \in 0..n /\ i - 1 \in 0..n /\ i - 1 # n + 1 BY <2>2, <1>2
    <3>2. after[i] = sum[i] /\ after[i - 1] = sum[i - 1] BY <3>1, <1>2
    <3> QED BY <3>1, <3>2, <1>1, <1>2 DEF PrefixSums, n
  <2> QED BY <2>1, <2>2
<1>6. \A i, j \in 0..Len(new) : i <= j => after[i] <= after[j]
  <2> SUFFICES ASSUME NEW i \in 0..Len(new), NEW j \in 0..Len(new), i <= j
               PROVE  after[i] <= after[j]
    OBVIOUS
  <2>1. CASE j = n + 1
    <3>1. CASE i = n + 1 BY <2>1, <3>1, <1>2, <1>3
    <3>2. CASE i # n + 1
      <4>1. i \in 0..n /\ n \in 0..n /\ i <= n BY <3>2, <1>2
      <4>2. sum[i] <= bytes BY <4>1, <1>1 DEF PrefixSums, n
      <4> QED BY <2>1, <3>2, <4>1, <4>2, <1>2, <1>3
    <3> QED BY <3>1, <3>2
  <2>2. CASE j # n + 1
    <3>1. i \in 0..n /\ j \in 0..n /\ i # n + 1 BY <2>2, <1>2
    <3> QED BY <2>2, <3>1, <1>1, <1>2 DEF PrefixSums, n
  <2> QED BY <2>1, <2>2
<1>7. PrefixSums(new, after) BY <1>4, <1>5, <1>6 DEF PrefixSums
<1> HIDE DEF after
<1> QED BY <1>4, <1>7 DEF Accounted, new

\* A queue without its i-th frame.
LEMMA AccountedWithout ==
    ASSUME NEW S, NEW queue \in Seq(S), \A frame \in S : frame.size \in Nat,
           NEW bytes, Accounted(queue, bytes), NEW i \in 1..Len(queue),
           NEW new \in Seq(S), Len(new) = Len(queue) - 1,
           \A k \in 1..(Len(queue) - 1) : new[k] = IF k < i THEN queue[k] ELSE queue[k + 1]
    PROVE  Accounted(new, bytes - queue[i].size)
<1> DEFINE n == Len(queue)
           size == queue[i].size
<1>1. PICK sum : PrefixSums(queue, sum) /\ sum[n] = bytes
  BY DEF Accounted
<1> DEFINE after == [k \in 0..(n - 1) |-> IF k < i THEN sum[k] ELSE sum[k + 1] - size]
<1>2. /\ n \in Nat /\ i \in Nat /\ 1 <= i /\ i <= n /\ size \in Nat
      /\ Len(new) = n - 1
  BY ElementOfSeq
<1> HIDE DEF n, size
<1>3. \A k \in 0..n : sum[k] \in Nat
  BY <1>1 DEF PrefixSums, n
<1>4. /\ i \in 0..n /\ i - 1 \in 0..n /\ sum[i] = sum[i - 1] + size
  BY <1>1, <1>2 DEF PrefixSums, n, size
<1>5. \A k \in 0..(n - 1) :
         /\ after[k] \in Nat
         /\ k < i => after[k] = sum[k]
         /\ k >= i => after[k] = sum[k + 1] - size /\ k + 1 \in 0..n /\ sum[i] <= sum[k + 1]
  <2> TAKE k \in 0..(n - 1)
  <2>1. CASE k < i
    BY <2>1, <1>2, <1>3
  <2>2. CASE k >= i
    <3>1. k + 1 \in 0..n /\ i <= k + 1 /\ ~(k < i) BY <2>2, <1>2
    <3>2. sum[i] <= sum[k + 1] BY <3>1, <1>1, <1>4 DEF PrefixSums, n
    <3>3. sum[k + 1] \in Nat /\ sum[i] \in Nat /\ sum[i - 1] \in Nat BY <3>1, <1>3, <1>4
    <3>4. after[k] = sum[k + 1] - size BY <3>1
    <3> QED BY <2>2, <3>1, <3>2, <3>3, <3>4, <1>2, <1>4
  <2> QED BY <2>1, <2>2, <1>2
<1>6. after \in [0..Len(new) -> Nat]
  BY <1>2, <1>5
<1>7. after[0] = 0
  <2>1. 0 \in 0..(n - 1) /\ 0 < i BY <1>2
  <2> QED BY <2>1, <1>1, <1>5 DEF PrefixSums
<1>8. after[Len(new)] = bytes - size
  <2>1. CASE i = n
    <3>1. n - 1 \in 0..(n - 1) /\ n - 1 < i BY <2>1, <1>2
    <3>2. after[n - 1] = sum[n - 1] BY <3>1, <1>5
    <3>3. sum[n] = sum[n - 1] + size /\ sum[n - 1] \in Nat BY <2>1, <1>3, <1>4
    <3> QED BY <3>2, <3>3, <1>1, <1>2
  <2>2. CASE i # n
    <3>1. n - 1 \in 0..(n - 1) /\ n - 1 >= i /\ (n - 1) + 1 = n BY <2>2, <1>2
    <3> QED BY <3>1, <1>1, <1>2, <1>5
  <2> QED BY <2>1, <2>2
<1> HIDE DEF after
<1>9. \A k \in 1..Len(new) : after[k] = after[k - 1] + new[k].size
  <2> TAKE k \in 1..Len(new)
  <2>1. /\ k \in 1..(n - 1) /\ k \in 0..(n - 1) /\ k - 1 \in 0..(n - 1)
        /\ k \in 1..n /\ k + 1 \in 1..n /\ (k + 1) - 1 = k
    BY <1>2
  <2>1a. /\ sum[k] = sum[k - 1] + queue[k].size
         /\ sum[k + 1] = sum[k] + queue[k + 1].size
    BY <2>1, <1>1 DEF PrefixSums, n
  <2>2. CASE k < i
    <3>1. k - 1 < i /\ new[k] = queue[k] BY <2>1, <2>2, <1>2 DEF n
    <3> QED BY <2>1, <2>1a, <2>2, <3>1, <1>5
  <2>3. CASE k = i
    <3>1. k - 1 < i /\ k >= i /\ new[k] = queue[k + 1] BY <2>1, <2>3, <1>2 DEF n
    <3>2. after[k] = sum[k + 1] - size /\ after[k - 1] = sum[k - 1] BY <2>1, <3>1, <1>5
    <3>3. /\ queue[k].size = size /\ queue[k + 1].size \in Nat
          /\ sum[k] \in Nat /\ sum[k - 1] \in Nat /\ sum[k + 1] \in Nat
      <4>1. queue[k + 1] \in S BY <2>1, ElementOfSeq DEF n
      <4>2. queue[k].size = size BY <2>3 DEF size
      <4>3. queue[k + 1].size \in Nat BY <4>1
      <4>4. k \in 0..n /\ k - 1 \in 0..n /\ k + 1 \in 0..n BY <2>1, <1>2
      <4> QED BY <4>2, <4>3, <4>4, <1>3
    <3>4. new[k].size = queue[k + 1].size BY <3>1
    <3>5. sum[k] = sum[k - 1] + size BY <2>1a, <3>3
    <3>6. sum[k + 1] - size = sum[k - 1] + queue[k + 1].size
      BY SMTT(30), <2>1a, <3>3, <3>5, <1>2
    <3> QED BY <3>2, <3>4, <3>6
  <2>4. CASE k > i
    <3>1. k - 1 >= i /\ k >= i /\ (k - 1) + 1 = k /\ new[k] = queue[k + 1] BY <2>1, <2>4, <1>2 DEF n
    <3>2. after[k] = sum[k + 1] - size /\ after[k - 1] = sum[k] - size BY <2>1, <3>1, <1>5
    <3>3. queue[k + 1].size \in Nat /\ sum[k] \in Nat /\ sum[k + 1] \in Nat
      <4>1. queue[k + 1] \in S BY <2>1, ElementOfSeq DEF n
      <4> QED BY <2>1, <4>1, <1>2, <1>3
    <3> QED BY <2>1a, <3>1, <3>2, <3>3, <1>2
  <2> QED BY <2>2, <2>3, <2>4, <2>1, <1>2
<1>10. \A j, k \in 0..Len(new) : j <= k => after[j] <= after[k]
  <2> SUFFICES ASSUME NEW j \in 0..Len(new), NEW k \in 0..Len(new), j <= k
               PROVE  after[j] <= after[k]
    OBVIOUS
  <2>1. j \in 0..(n - 1) /\ k \in 0..(n - 1) /\ j \in 0..n /\ k \in 0..n BY <1>2
  <2>2. \A a, b \in 0..n : a <= b => sum[a] <= sum[b] BY <1>1 DEF PrefixSums, n
  <2>3. CASE k < i
    <3>1. j < i BY <2>1, <2>3, <1>2
    <3> QED BY <2>1, <2>2, <2>3, <3>1, <1>5
  <2>4. CASE k >= i /\ j >= i
    <3>1. j + 1 \in 0..n /\ k + 1 \in 0..n /\ j + 1 <= k + 1 BY <2>1, <1>2
    <3>2. sum[j + 1] <= sum[k + 1] /\ sum[j + 1] \in Nat /\ sum[k + 1] \in Nat
      BY <2>2, <3>1, <1>3
    <3> QED BY <2>1, <2>4, <3>2, <1>2, <1>5
  <2>5. CASE k >= i /\ j < i
    <3>1. j <= i - 1 /\ k + 1 \in 0..n BY <2>1, <2>5, <1>2
    <3>2. sum[j] <= sum[i - 1] BY <2>1, <2>2, <3>1, <1>4
    <3>3. after[j] = sum[j] /\ after[k] = sum[k + 1] - size /\ sum[i] <= sum[k + 1]
      BY <2>1, <2>5, <1>5
    <3>4. sum[j] \in Nat /\ sum[i - 1] \in Nat /\ sum[i] \in Nat /\ sum[k + 1] \in Nat
      BY <2>1, <3>1, <1>3, <1>4
    <3> QED BY SMTT(30), <3>2, <3>3, <3>4, <1>2, <1>4
  <2> QED BY <2>1, <2>3, <2>4, <2>5, <1>2
<1>11. PrefixSums(new, after) BY <1>6, <1>7, <1>9, <1>10 DEF PrefixSums
<1> QED BY <1>8, <1>11 DEF Accounted, size

LEMMA AccountedTail ==
    ASSUME NEW S, NEW queue \in Seq(S), queue # <<>>, \A frame \in S : frame.size \in Nat,
           NEW bytes, Accounted(queue, bytes)
    PROVE  Accounted(Tail(queue), bytes - queue[1].size)
<1>1. /\ Tail(queue) \in Seq(S) /\ Len(Tail(queue)) = Len(queue) - 1
      /\ Len(queue) \in Nat /\ Len(queue) >= 1
      /\ \A k \in 1..(Len(queue) - 1) : Tail(queue)[k] = queue[k + 1]
  BY HeadTailProperties, EmptySeq
<1>2. 1 \in 1..Len(queue) BY <1>1
<1>3. \A k \in 1..(Len(queue) - 1) :
         Tail(queue)[k] = IF k < 1 THEN queue[k] ELSE queue[k + 1]
  BY <1>1
<1> QED BY <1>1, <1>2, <1>3, AccountedWithout

LEMMA AccountedOne ==
    ASSUME NEW frame, frame.size \in Nat
    PROVE  Accounted(<<frame>>, frame.size)
<1>1. <<>> \in Seq({frame}) /\ frame \in {frame} OBVIOUS
<1>2. Accounted(Append(<<>>, frame), 0 + frame.size)
  BY <1>1, AccountedEmpty, AccountedAppend
<1>3. Append(<<>>, frame) = <<frame>> OBVIOUS
<1> QED BY <1>2, <1>3

-----------------------------------------------------------------------------
(* The invariant, by the part of the pump it is about. *)

\* The limits of a lane, its marker apart.
StateWithin(lane) ==
    IF lane.resyncPending
    THEN Len(lane.queue) <= 2 /\ lane.queuedBytes <= MaxStateQueuedBytes + ResyncBytes
    ELSE /\ Len(lane.queue) <= MaxStateQueuedFrames
         /\ lane.queuedBytes <= MaxStateQueuedBytes

TerminalWithin(lane) ==
    IF lane.suppressed
    THEN Len(lane.queue) <= 2 /\ lane.queuedBytes <= MaxTerminalQueuedBytes + SkipBytes
    ELSE /\ Len(lane.queue) <= MaxTerminalQueuedFrames
         /\ lane.queuedBytes <= MaxTerminalQueuedBytes

StateLaneOK(l, lane) ==
    /\ \A i \in DOMAIN lane.queue :
          lane.queue[i].lane = l /\ lane.queue[i].size <= MaxStateQueuedBytes
    /\ Accounted(lane.queue, lane.queuedBytes)
    /\ lane.resyncPending => lane.queue # <<>> /\ Last(lane.queue) \in ResyncFrame
    /\ StateWithin(lane)

\* A lane silenced by a skip still has it, or its client does, or it is leaving.
Announced(lane, c) ==
    \/ /\ lane.queue # <<>>
       /\ Last(lane.queue) \in SkipFrame
       /\ Last(lane.queue).to = lane.head
    \/ c.status = "skipped"
    \/ lane.releasePending

InWindow(lane) ==
    /\ lane.head - lane.confirmed <= MaxTerminalUnconfirmedBytes
    /\ lane.unconfirmedSince = "none" <=> lane.head = lane.confirmed

TerminalLaneOK(lane, c) ==
    /\ Accounted(lane.queue, lane.queuedBytes)
    /\ TerminalWithin(lane)
    /\ lane.confirmed <= lane.head
    /\ lane.suppressed => lane.open /\ Announced(lane, c)
    /\ ~lane.suppressed => InWindow(lane)

ControlOK == Len(controlQueue) <= MaxQueuedFrames /\ controlBytes <= MaxQueuedBytes
StatesOK == \A l \in StateLanes : StateLaneOK(l, stateLanes[l])
TerminalsOK ==
    /\ terminalBytes <= MaxQueuedBytes
    /\ \A l \in TerminalLanes : TerminalLaneOK(terminalLanes[l], client[l])

\* A control or state frame in the transport heads its queue until the pump
\* fails; ActiveContinues says so of a terminal frame.
ActiveHeads ==
    ~terminalError =>
        /\ activeDelivery \in ControlFrame =>
              controlQueue # <<>> /\ Head(controlQueue) = activeDelivery
        /\ activeDelivery \in StateFrames =>
              LET queue == stateLanes[activeDelivery.lane].queue
              IN  queue # <<>> /\ Head(queue) = activeDelivery

QueuesInv == Inv /\ ControlOK /\ StatesOK /\ TerminalsOK /\ ActiveHeads

-----------------------------------------------------------------------------
(* Frames and heads. *)

LEMMA ControlSize ==
    ASSUME NEW frame \in ControlFrame
    PROVE  frame.size \in Nat \ {0}
<1>1. frame.size \in ControlSizes BY DEF ControlFrame
<1> QED BY <1>1, FramesAssumption

LEMMA StateSize == \A frame \in StateFrames : frame.size \in Nat /\ frame.size > 0
<1> TAKE frame \in StateFrames
<1>1. CASE frame \in StateFrame
  <2>1. frame.size \in StateSizes BY <1>1 DEF StateFrame
  <2>2. frame.size \in Nat \ {0} BY <2>1, FramesAssumption
  <2> QED BY <2>2
<1>2. CASE frame \in ResyncFrame
  <2>1. frame.size \in Nat \ {0} BY <1>2, FramesAssumption DEF ResyncFrame
  <2> QED BY <2>1
<1> QED BY <1>1, <1>2 DEF StateFrames

LEMMA TerminalSize == \A frame \in TerminalFrames : frame.size \in Nat /\ frame.size > 0
BY DEF TerminalFrames, OutputFrame, SkipFrame, TerminalFrame

LEMMA FrameClasses ==
    /\ ControlFrame \cap StateFrames = {}
    /\ ControlFrame \cap TerminalFrames = {}
    /\ StateFrames \cap TerminalFrames = {}
    /\ NoFrame \notin ControlFrame \cup StateFrames \cup TerminalFrames
<1>1. ControlFrame \cap StateFrames = {}
  BY DEF ControlFrame, StateFrames, StateFrame, ResyncFrame
<1> QED BY <1>1, DisjointFrames, NoFrameAssumption DEF Frames

LEMMA StateFrameLane ==
    ASSUME NEW frame \in StateFrames
    PROVE  frame.lane \in StateLanes
BY DEF StateFrames, StateFrame, ResyncFrame

\* nextDelivery takes the head of a queue.
LEMMA ResumeHeads ==
    ASSUME QueueTypes', StatesOK', Resume
    PROVE  ActiveHeads'
<1>1. CASE TakeControl
  <2>1. /\ controlQueue' # <<>> /\ activeDelivery' = Head(controlQueue')
        /\ activeDelivery' \in ControlFrame
    BY <1>1, HeadTailProperties DEF TakeControl, ControlWaits, QueueTypes
  <2> QED BY <2>1, FrameClasses DEF ActiveHeads
<1>2. CASE TakeState
  <2>1. PICK l \in RoundRobin(stateOrder', StateDepth', stateCursor) :
             activeDelivery' = Head(stateLanes'[l].queue)
    BY <1>2 DEF TakeState
  <2>2. l \in StateLanes /\ StateDepth'[l] > 0
    BY <2>1, ReadyLane DEF QueueTypes
  <2>3. stateLanes'[l].queue \in Seq(StateFrames) /\ Len(stateLanes'[l].queue) > 0
    BY <2>2 DEF StateDepth, QueueTypes, StateLane
  <2>4. /\ stateLanes'[l].queue # <<>> /\ 1 \in DOMAIN stateLanes'[l].queue
        /\ activeDelivery' = stateLanes'[l].queue[1] /\ activeDelivery' \in StateFrames
    BY <2>1, <2>3, HeadTailProperties
  <2>5. activeDelivery'.lane = l
    BY <2>2, <2>4 DEF StatesOK, StateLaneOK
  <2> QED BY <2>1, <2>4, <2>5, FrameClasses DEF ActiveHeads
<1>3. CASE TakeTerminal
  <2>1. PICK l \in RoundRobin(terminalOrder', TerminalDepth', terminalCursor) :
             activeDelivery' = Head(terminalLanes'[l].queue)
    BY <1>3 DEF TakeTerminal
  <2>2. l \in TerminalLanes /\ TerminalDepth'[l] > 0
    BY <2>1, ReadyLane DEF QueueTypes
  <2>3. terminalLanes'[l].queue \in Seq(TerminalFrames) /\ Len(terminalLanes'[l].queue) > 0
    BY <2>2 DEF TerminalDepth, QueueTypes, TerminalLane
  <2>4. activeDelivery' \in TerminalFrames BY <2>1, <2>3, HeadTailProperties
  <2> QED BY <2>4, FrameClasses DEF ActiveHeads
<1>4. CASE activeDelivery' = NoFrame
  BY <1>4, FrameClasses DEF ActiveHeads
<1> QED BY <1>1, <1>2, <1>3, <1>4 DEF Resume

\* What an admission must leave alone: the head that is in the transport.
HeadsKept ==
    /\ activeDelivery \in ControlFrame =>
          controlQueue' # <<>> /\ Head(controlQueue') = activeDelivery
    /\ activeDelivery \in StateFrames =>
          LET queue == stateLanes'[activeDelivery.lane].queue
          IN  queue # <<>> /\ Head(queue) = activeDelivery

LEMMA StartHeads ==
    ASSUME QueueTypes', StatesOK', HeadsKept, Start
    PROVE  ActiveHeads'
<1>1. CASE phase = "idle" BY <1>1, ResumeHeads DEF Start
<1>2. CASE phase # "idle"
  <2>1. activeDelivery' = activeDelivery BY <1>2 DEF Start, drainVars
  <2> QED BY <2>1 DEF ActiveHeads, HeadsKept
<1> QED BY <1>1, <1>2

LEMMA HeadsUntouched ==
    ASSUME ActiveHeads, ~terminalError, UNCHANGED <<controlQueue, stateLanes>>
    PROVE  HeadsKept
BY DEF ActiveHeads, HeadsKept

-----------------------------------------------------------------------------
(* The control queue. *)

LEMMA SendControlOK ==
    ASSUME QueuesInv, NEW size \in ControlSizes, SendControl(size)
    PROVE  ControlOK' /\ HeadsKept
<1>1. /\ controlQueue \in Seq(ControlFrame) /\ controlBytes \in Int
      /\ ~terminalError /\ ActiveHeads
  BY InvParts DEF QueuesInv, QueueTypes, OtherTypes, SendControl
<1> DEFINE frame == [class |-> "control", size |-> size]
<1>2. /\ size \in Nat \ {0} /\ frame \in ControlFrame
      /\ MaxQueuedFrames \in Nat /\ MaxQueuedBytes \in Nat
  BY FramesAssumption, LimitsAssumption DEF ControlFrame
<1>3. /\ controlQueue' = Append(controlQueue, frame) /\ controlBytes' = controlBytes + size
      /\ Len(controlQueue) < MaxQueuedFrames /\ controlBytes + size <= MaxQueuedBytes
      /\ UNCHANGED stateLanes
  BY <1>1, <1>2 DEF SendControl, ControlOverBound, stateVars
<1> HIDE DEF frame
<1>4. Len(Append(controlQueue, frame)) = Len(controlQueue) + 1 /\ Len(controlQueue) \in Nat
  BY <1>1, <1>2, AppendProperties
<1>5. ControlOK' BY <1>2, <1>3, <1>4 DEF ControlOK
<1>6. controlQueue # <<>> =>
         controlQueue' # <<>> /\ Head(controlQueue') = Head(controlQueue)
  BY <1>1, <1>2, <1>3, AppendProperties, HeadTailProperties, EmptySeq
<1> QED BY <1>1, <1>3, <1>5, <1>6 DEF ActiveHeads, HeadsKept

LEMMA CompleteControlOK ==
    ASSUME QueuesInv, CompleteControl(activeDelivery)
    PROVE  ControlOK'
<1>1. /\ controlQueue \in Seq(ControlFrame) /\ controlBytes \in Int /\ ControlOK
      /\ MaxQueuedFrames \in Nat /\ MaxQueuedBytes \in Nat
  BY InvParts, LimitsAssumption DEF QueuesInv, QueueTypes, OtherTypes
<1>2. activeDelivery.size \in Nat BY ControlSize DEF CompleteControl
<1>3. CASE UNCHANGED controlVars BY <1>1, <1>3 DEF ControlOK, controlVars
<1>4. CASE /\ controlQueue # <<>> /\ controlQueue' = Tail(controlQueue)
           /\ controlBytes' = controlBytes - activeDelivery.size
  <2>1. Len(controlQueue') = Len(controlQueue) - 1 /\ Len(controlQueue) \in Nat
    BY <1>1, <1>4, HeadTailProperties
  <2> QED BY <1>1, <1>2, <1>4, <2>1 DEF ControlOK
<1> QED BY <1>3, <1>4 DEF CompleteControl

-----------------------------------------------------------------------------
(* The state lanes. *)

LEMMA EmptyStateLaneOK ==
    ASSUME NEW l
    PROVE  StateLaneOK(l, EmptyStateLane)
<1>1. /\ EmptyStateLane.queue = <<>> /\ EmptyStateLane.queuedBytes = 0
      /\ EmptyStateLane.resyncPending = FALSE
  BY DEF EmptyStateLane
<1>2. Len(<<>>) = 0 /\ DOMAIN <<>> = {} OBVIOUS
<1>3. MaxStateQueuedFrames \in Nat /\ MaxStateQueuedBytes \in Nat
  BY LimitsAssumption
<1> HIDE DEF EmptyStateLane
<1> QED BY <1>1, <1>2, <1>3, AccountedEmpty DEF StateLaneOK, StateWithin

\* The queue a lane is left with when a superseded frame is spliced out.
LEMMA WithoutKeyOK ==
    ASSUME QueuesInv, NEW l \in StateLanes, NEW key \in Keys
    PROVE  LET rest == WithoutKey(l, key)
               queue == stateLanes[l].queue
           IN  /\ rest.queue \in Seq(StateFrames)
               /\ Accounted(rest.queue, stateLanes[l].queuedBytes - rest.dropped)
               /\ \A k \in DOMAIN rest.queue : \E j \in DOMAIN queue : rest.queue[k] = queue[j]
               /\ queue # <<>> /\ queue[1] = activeDelivery =>
                     rest.queue # <<>> /\ rest.queue[1] = activeDelivery
<1> DEFINE queue == stateLanes[l].queue
           bytes == stateLanes[l].queuedBytes
           at == Superseded(l, key)
           i == CHOOSE j \in at : TRUE
<1>1. /\ queue \in Seq(StateFrames) /\ Len(queue) \in Nat /\ DOMAIN queue = 1..Len(queue)
      /\ Accounted(queue, bytes) /\ bytes \in Int
  BY InvParts DEF QueuesInv, StatesOK, StateLaneOK, QueueTypes, StateLane
<1>2. CASE at = {}
  <2>1. WithoutKey(l, key) = [queue |-> queue, dropped |-> 0]
    BY <1>2 DEF WithoutKey
  <2>2. bytes - 0 = bytes BY <1>1
  <2> HIDE DEF queue, bytes
  <2> QED BY <1>1, <2>1, <2>2 DEF queue, bytes
<1>3. CASE at # {}
  <2> DEFINE first == SubSeq(queue, 1, i - 1)
             second == SubSeq(queue, i + 1, Len(queue))
             new == first \o second
  <2>1. i \in at BY <1>3, Zenon
  <2>2. WithoutKey(l, key) = [queue |-> new, dropped |-> queue[i].size]
    BY <1>3 DEF WithoutKey
  <2>3. i \in DOMAIN queue /\ queue[i] # activeDelivery
    BY <2>1 DEF Superseded
  <2> HIDE DEF queue, i, bytes
  <2>4. /\ i \in 1..Len(queue) /\ i \in Nat /\ i >= 1 /\ i <= Len(queue)
    BY <1>1, <2>3
  <2>5. \A k \in 1..Len(queue) : queue[k] \in StateFrames
    BY <1>1, ElementOfSeq
  <2>6. /\ first \in Seq(StateFrames) /\ Len(first) = i - 1
        /\ \A k \in 1..(i - 1) : first[k] = queue[k]
    <3>1. \A k \in 1..(i - 1) : queue[k] \in StateFrames BY <1>1, <2>4, <2>5
    <3>2. i - 1 >= 1 - 1 /\ i - 1 \in Int /\ 1 \in Int BY <2>4
    <3>3. first \in Seq(StateFrames) BY <3>1, <3>2, SubSeqProperties
    <3>4. /\ Len(first) = i - 1
          /\ \A k \in 1..(i - 1) : first[k] = queue[k]
      BY <2>4, <3>1, <3>2, SubSeqProperties
    <3> QED BY <3>3, <3>4
  <2>7. /\ second \in Seq(StateFrames) /\ Len(second) = Len(queue) - i
        /\ \A k \in 1..(Len(queue) - i) : second[k] = queue[i + k]
    <3>1. \A k \in (i + 1)..Len(queue) : queue[k] \in StateFrames BY <1>1, <2>4, <2>5
    <3>2. second \in Seq(StateFrames) BY <1>1, <2>4, <3>1, SubSeqProperties
    <3>3. Len(second) = IF i + 1 <= Len(queue) THEN Len(queue) - (i + 1) + 1 ELSE 0
      BY <1>1, <2>4, <3>1, SubSeqProperties
    <3>4. \A k \in 1..(Len(queue) - (i + 1) + 1) : second[k] = queue[(i + 1) + k - 1]
      BY <1>1, <2>4, <3>1, SubSeqProperties
    <3>5. /\ Len(queue) - (i + 1) + 1 = Len(queue) - i
          /\ \A k \in 1..(Len(queue) - i) : (i + 1) + k - 1 = i + k
      BY <1>1, <2>4
    <3> HIDE DEF second
    <3>6. Len(second) = Len(queue) - i
      <4>1. Len(queue) \in Nat /\ i \in Nat /\ i <= Len(queue) BY <1>1, <2>4
      <4>2. CASE i + 1 <= Len(queue) BY <3>3, <4>1, <4>2
      <4>3. CASE ~(i + 1 <= Len(queue)) BY <3>3, <4>1, <4>3
      <4> QED BY <4>2, <4>3
    <3> QED BY <3>2, <3>4, <3>5, <3>6
  <2> HIDE DEF first, second
  <2>8. /\ new \in Seq(StateFrames) /\ Len(new) = Len(queue) - 1
        /\ \A k \in 1..Len(new) :
              new[k] = IF k <= Len(first) THEN first[k] ELSE second[k - Len(first)]
    <3>1. /\ new \in Seq(StateFrames) /\ Len(new) = Len(first) + Len(second)
          /\ \A k \in 1..(Len(first) + Len(second)) :
                new[k] = IF k <= Len(first) THEN first[k] ELSE second[k - Len(first)]
      BY <2>6, <2>7, ConcatProperties
    <3> QED BY <3>1, <1>1, <2>4, <2>6, <2>7
  <2> HIDE DEF new
  <2>9. \A k \in 1..(Len(queue) - 1) : new[k] = IF k < i THEN queue[k] ELSE queue[k + 1]
    <3> TAKE k \in 1..(Len(queue) - 1)
    <3>1. CASE k < i
      BY <3>1, <1>1, <2>4, <2>6, <2>8
    <3>2. CASE k >= i
      <4>1. k - (i - 1) \in 1..(Len(queue) - i) /\ i + (k - (i - 1)) = k + 1
        BY <3>2, <1>1, <2>4
      <4>2. new[k] = second[k - (i - 1)] BY <3>2, <1>1, <2>4, <2>6, <2>8
      <4> QED BY <3>2, <4>1, <4>2, <1>1, <2>4, <2>7
    <3> QED BY <3>1, <3>2, <2>4
  <2>10. Accounted(new, bytes - queue[i].size)
    <3>1. \A frame \in StateFrames : frame.size \in Nat BY StateSize
    <3> QED BY <3>1, <1>1, <2>4, <2>8, <2>9, AccountedWithout
  <2>11. \A k \in DOMAIN new : \E j \in DOMAIN queue : new[k] = queue[j]
    <3> TAKE k \in DOMAIN new
    <3>1. k \in 1..(Len(queue) - 1) BY <2>8
    <3>2. k \in DOMAIN queue /\ k + 1 \in DOMAIN queue BY <3>1, <1>1
    <3> QED BY <3>1, <3>2, <2>9
  <2>12. queue # <<>> /\ queue[1] = activeDelivery => new # <<>> /\ new[1] = activeDelivery
    <3> SUFFICES ASSUME queue[1] = activeDelivery
                 PROVE  new # <<>> /\ new[1] = activeDelivery
      OBVIOUS
    <3>1. i # 1 BY <2>3
    <3>2. 1 \in 1..(Len(queue) - 1) /\ 1 < i BY <3>1, <1>1, <2>4
    <3>3. new[1] = queue[1] /\ Len(new) # 0 BY <3>2, <2>8, <2>9
    <3> QED BY <3>3, <2>8, EmptySeq
  <2> QED BY <2>2, <2>8, <2>10, <2>11, <2>12 DEF queue, bytes
<1> QED BY <1>2, <1>3

LEMMA QueueStateOK ==
    ASSUME QueuesInv, NEW l \in StateLanes, NEW key \in Keys, NEW size \in StateSizes,
           ~stateLanes[l].resyncPending,
           ~StateOverBound(l, WithoutKey(l, key), size),
           QueueState(l, key, size, WithoutKey(l, key))
    PROVE  /\ StatesOK'
           /\ stateLanes[l].queue # <<>> /\ stateLanes[l].queue[1] = activeDelivery =>
                 stateLanes'[l].queue # <<>> /\ stateLanes'[l].queue[1] = activeDelivery
           /\ \A m \in StateLanes : m # l => stateLanes'[m] = stateLanes[m]
<1> DEFINE rest == WithoutKey(l, key)
           queue == stateLanes[l].queue
           bytes == stateLanes[l].queuedBytes
           frame == [class |-> "state", lane |-> l, key |-> key,
                     copy |-> CopyOf(key), size |-> size]
<1>1. /\ stateLanes \in [StateLanes -> StateLane] /\ queue \in Seq(StateFrames)
      /\ StateLaneOK(l, stateLanes[l]) /\ stateLanes[l].queuedBytes \in Int
  BY InvParts DEF QueuesInv, StatesOK, QueueTypes, StateLane
<1>2. /\ rest.queue \in Seq(StateFrames)
      /\ Accounted(rest.queue, bytes - rest.dropped)
      /\ \A k \in DOMAIN rest.queue : \E j \in DOMAIN queue : rest.queue[k] = queue[j]
      /\ queue # <<>> /\ queue[1] = activeDelivery =>
            rest.queue # <<>> /\ rest.queue[1] = activeDelivery
  BY WithoutKeyOK
<1>3. rest.dropped \in Int /\ size \in Nat /\ size \in Nat \ {0}
  BY WithoutKeyType, FramesAssumption DEF QueuesInv
<1>4. /\ Len(rest.queue) < MaxStateQueuedFrames
      /\ bytes - rest.dropped + size <= MaxStateQueuedBytes
  <2>1. /\ Len(rest.queue) \in Nat /\ MaxStateQueuedFrames \in Nat
        /\ MaxStateQueuedBytes \in Nat
    BY <1>2, LimitsAssumption
  <2>2. bytes - rest.dropped + size \in Int BY <1>1, <1>3
  <2> HIDE DEF bytes, rest
  <2> QED BY <2>1, <2>2 DEF StateOverBound, bytes, rest
<1>5. frame \in StateFrames
  <2>1. CopyOf(key) \in {0, 1} BY DEF CopyOf, StateFrame
  <2> QED BY <2>1 DEF StateFrames, StateFrame
<1>6. stateLanes' = [stateLanes EXCEPT ![l].queue = Append(rest.queue, frame),
                                       ![l].queuedBytes = bytes + (size - rest.dropped)]
  BY DEF QueueState
<1>7. frame.lane = l /\ frame.size = size OBVIOUS
<1> HIDE DEF rest, frame
<1>8. /\ stateLanes'[l].queue = Append(rest.queue, frame)
      /\ stateLanes'[l].queuedBytes = bytes + (size - rest.dropped)
      /\ stateLanes'[l].resyncPending = stateLanes[l].resyncPending
      /\ \A m \in StateLanes : m # l => stateLanes'[m] = stateLanes[m]
  BY <1>1, <1>6 DEF StateLane
<1> HIDE DEF queue, bytes
<1>9. /\ Len(Append(rest.queue, frame)) = Len(rest.queue) + 1
      /\ Len(rest.queue) \in Nat
      /\ \A k \in 1..Len(rest.queue) : Append(rest.queue, frame)[k] = rest.queue[k]
      /\ Append(rest.queue, frame)[Len(rest.queue) + 1] = frame
      /\ Append(rest.queue, frame) # <<>>
      /\ DOMAIN Append(rest.queue, frame) = 1..(Len(rest.queue) + 1)
      /\ DOMAIN rest.queue = 1..Len(rest.queue)
  BY <1>2, <1>5, AppendProperties
<1>10. bytes - rest.dropped \in Nat
  BY <1>2, StateSize, AccountedBounds
<1>11. StateLaneOK(l, stateLanes'[l])
  <2>1. \A k \in DOMAIN stateLanes'[l].queue :
           /\ stateLanes'[l].queue[k].lane = l
           /\ stateLanes'[l].queue[k].size <= MaxStateQueuedBytes
    <3> TAKE k \in DOMAIN stateLanes'[l].queue
    <3>1. CASE k = Len(rest.queue) + 1
      <4>1. size <= MaxStateQueuedBytes
        BY <1>3, <1>4, <1>10, LimitsAssumption
      <4> QED BY <3>1, <4>1, <1>7, <1>8, <1>9
    <3>2. CASE k # Len(rest.queue) + 1
      <4>1. k \in 1..Len(rest.queue) BY <3>2, <1>8, <1>9
      <4>2. stateLanes'[l].queue[k] = rest.queue[k] BY <4>1, <1>8, <1>9
      <4>3. PICK j \in DOMAIN queue : rest.queue[k] = queue[j] BY <4>1, <1>2, <1>9
      <4> QED BY <4>2, <4>3, <1>1 DEF StateLaneOK, queue
    <3> QED BY <3>1, <3>2
  <2>2. Accounted(stateLanes'[l].queue, stateLanes'[l].queuedBytes)
    <3>1. Accounted(Append(rest.queue, frame), (bytes - rest.dropped) + frame.size)
      BY <1>2, <1>3, <1>5, <1>7, AccountedAppend
    <3>2. (bytes - rest.dropped) + frame.size = bytes + (size - rest.dropped)
      BY <1>1, <1>3, <1>7 DEF bytes
    <3> QED BY <3>1, <3>2, <1>8
  <2>3. Len(stateLanes'[l].queue) <= MaxStateQueuedFrames
    BY <1>4, <1>8, <1>9, LimitsAssumption
  <2>4. stateLanes'[l].queuedBytes <= MaxStateQueuedBytes
    <3>1. bytes + (size - rest.dropped) = bytes - rest.dropped + size BY <1>1, <1>3 DEF bytes
    <3> QED BY <3>1, <1>4, <1>8
  <2> QED BY <2>1, <2>2, <2>3, <2>4, <1>8 DEF StateLaneOK, StateWithin
<1>12. StatesOK'
  BY <1>8, <1>11 DEF StatesOK, QueuesInv
<1>13. queue # <<>> /\ queue[1] = activeDelivery =>
          stateLanes'[l].queue # <<>> /\ stateLanes'[l].queue[1] = activeDelivery
  <2> SUFFICES ASSUME queue # <<>>, queue[1] = activeDelivery
               PROVE  stateLanes'[l].queue # <<>> /\ stateLanes'[l].queue[1] = activeDelivery
    OBVIOUS
  <2>1. rest.queue # <<>> /\ rest.queue[1] = activeDelivery BY <1>2
  <2>2. 1 \in 1..Len(rest.queue) BY <2>1, <1>2, <1>9, EmptySeq
  <2> QED BY <2>1, <2>2, <1>8, <1>9
<1> QED BY <1>8, <1>12, <1>13 DEF queue

LEMMA ConcatSmall ==
    ASSUME NEW a, NEW b
    PROVE  /\ <<>> \o <<>> = <<>> /\ <<a>> \o <<>> = <<a>> /\ <<>> \o <<b>> = <<b>>
           /\ <<a>> \o <<b>> = <<a, b>>
<1>1. /\ <<a>> \in Seq({a, b}) /\ <<b>> \in Seq({a, b}) /\ <<>> \in Seq({a, b})
      /\ a \in {a, b} /\ b \in {a, b}
  OBVIOUS
<1>2. <<a>> \o <<>> = <<a>> /\ <<>> \o <<b>> = <<b>> /\ <<>> \o <<>> = <<>>
  BY <1>1, ConcatEmptySeq
<1>3. <<a>> \o <<b>> = Append(<<a>>, b) BY <1>1, AppendIsConcat
<1> QED BY <1>2, <1>3, AppendToOne

\* The frame in the transport, when it is of this state lane, heads its queue.
LEMMA KeptState ==
    ASSUME QueuesInv, ~terminalError, NEW l \in StateLanes
    PROVE  \/ /\ InFlightOf(l) = <<>>
              /\ ~(activeDelivery \in StateFrames /\ activeDelivery.lane = l)
           \/ /\ InFlightOf(l) = <<activeDelivery>>
              /\ activeDelivery \in StateFrames /\ activeDelivery.lane = l
              /\ stateLanes[l].queue # <<>> /\ stateLanes[l].queue[1] = activeDelivery
              /\ activeDelivery.size <= MaxStateQueuedBytes
<1>1. CASE activeDelivery \in Frames \ ControlFrame /\ activeDelivery.lane = l
  <2>1. activeDelivery \in StateFrames
    BY <1>1, FramesAssumption
       DEF Frames, TerminalFrames, OutputFrame, SkipFrame, TerminalFrame
  <2>2. stateLanes[l].queue # <<>> /\ Head(stateLanes[l].queue) = activeDelivery
    BY <1>1, <2>1 DEF QueuesInv, ActiveHeads
  <2>3. stateLanes[l].queue \in Seq(StateFrames)
    BY InvParts DEF QueuesInv, QueueTypes, StateLane
  <2>4. stateLanes[l].queue[1] = activeDelivery /\ 1 \in DOMAIN stateLanes[l].queue
    BY <2>2, <2>3, HeadTailProperties, EmptySeq
  <2>5. activeDelivery.size <= MaxStateQueuedBytes
    BY <2>4 DEF QueuesInv, StatesOK, StateLaneOK
  <2> QED BY <1>1, <2>1, <2>2, <2>4, <2>5 DEF InFlightOf
<1>2. CASE ~(activeDelivery \in Frames \ ControlFrame /\ activeDelivery.lane = l)
  BY <1>2, FrameClasses DEF InFlightOf, Frames
<1> QED BY <1>1, <1>2

LEMMA CongestStateOK ==
    ASSUME QueuesInv, ~terminalError, NEW l \in StateLanes,
           ~stateLanes[l].resyncPending, CongestState(l)
    PROVE  /\ StatesOK'
           /\ activeDelivery \in StateFrames /\ activeDelivery.lane = l =>
                 stateLanes'[l].queue # <<>> /\ stateLanes'[l].queue[1] = activeDelivery
           /\ \A m \in StateLanes : m # l => stateLanes'[m] = stateLanes[m]
<1> DEFINE kept == InFlightOf(l)
           fits == ResyncBytes <= MaxStateQueuedBytes
           mark == [class |-> "state_resync", lane |-> l, size |-> ResyncBytes]
           marker == IF fits THEN <<mark>> ELSE <<>>
           bytes == BytesOf(kept) + BytesOf(marker)
<1>1. stateLanes \in [StateLanes -> StateLane]
  BY InvParts DEF QueuesInv, QueueTypes
<1>2. /\ stateLanes' = [stateLanes EXCEPT
            ![l].queue = kept \o marker, ![l].queuedBytes = bytes, ![l].resyncPending = fits]
      /\ fits \in BOOLEAN
  BY DEF CongestState
<1>3. /\ ResyncBytes \in Nat \ {0} /\ MaxStateQueuedBytes \in Nat
      /\ MaxStateQueuedFrames \in Nat \ {0}
  BY FramesAssumption, LimitsAssumption
<1>4. /\ mark \in ResyncFrame /\ mark.lane = l /\ mark.size = ResyncBytes
      /\ BytesOf(<<mark>>) = ResyncBytes /\ BytesOf(<<>>) = 0
      /\ BytesOf(<<activeDelivery>>) = activeDelivery.size
  BY DEF ResyncFrame, BytesOf
<1>4a. /\ <<>> \o <<>> = <<>> /\ <<activeDelivery>> \o <<>> = <<activeDelivery>>
       /\ <<>> \o <<mark>> = <<mark>>
       /\ <<activeDelivery>> \o <<mark>> = <<activeDelivery, mark>>
  BY ConcatSmall
<1>5. \/ /\ kept = <<>> /\ ~(activeDelivery \in StateFrames /\ activeDelivery.lane = l)
      \/ /\ kept = <<activeDelivery>>
         /\ activeDelivery \in StateFrames /\ activeDelivery.lane = l
         /\ activeDelivery.size <= MaxStateQueuedBytes
         /\ activeDelivery.size \in Nat
  BY KeptState, StateSize
<1> HIDE DEF kept, mark
<1>6. \A m \in StateLanes : m # l => stateLanes'[m] = stateLanes[m]
  BY <1>1, <1>2
<1>7. /\ stateLanes'[l].queue = kept \o marker /\ stateLanes'[l].queuedBytes = bytes
      /\ stateLanes'[l].resyncPending = fits
  <2> HIDE DEF marker, bytes, fits
  <2> QED BY <1>1, <1>2 DEF StateLane
<1>8. SUFFICES /\ StateLaneOK(l, stateLanes'[l])
               /\ activeDelivery \in StateFrames /\ activeDelivery.lane = l =>
                     stateLanes'[l].queue # <<>> /\ stateLanes'[l].queue[1] = activeDelivery
  BY <1>6 DEF StatesOK, QueuesInv
<1> DEFINE new == stateLanes'[l]
<1> HIDE DEF new
<1>9. CASE ~fits /\ kept = <<>>
  <2>0. marker = <<>> BY <1>9
  <2> HIDE DEF marker
  <2>1a. ~new.resyncPending BY <1>7, <1>9 DEF new
  <2>1. new.queue = <<>> /\ new.queuedBytes = 0 /\ ~new.resyncPending
    BY <1>4, <1>4a, <1>7, <1>9, <2>0, <2>1a DEF new
  <2>2. Len(<<>>) = 0 /\ DOMAIN <<>> = {} OBVIOUS
  <2>3. StateLaneOK(l, new)
    BY <1>3, <2>1, <2>2, AccountedEmpty DEF StateLaneOK, StateWithin
  <2> QED BY <1>5, <1>9, <2>3 DEF new
<1>10. CASE ~fits /\ kept = <<activeDelivery>>
  <2>0. marker = <<>> BY <1>10
  <2> HIDE DEF marker
  <2>1. new.queue = <<activeDelivery>> /\ new.queuedBytes = activeDelivery.size
        /\ ~new.resyncPending
    <3>1. ~new.resyncPending BY <1>7, <1>10 DEF new
    <3> QED BY <1>4, <1>4a, <1>5, <1>7, <1>10, <2>0, <3>1 DEF new
  <2>2. /\ Len(<<activeDelivery>>) = 1 /\ DOMAIN <<activeDelivery>> = {1}
        /\ <<activeDelivery>>[1] = activeDelivery /\ <<activeDelivery>> # <<>>
    OBVIOUS
  <2>2a. activeDelivery.size \in Nat /\ activeDelivery.size <= MaxStateQueuedBytes
         /\ activeDelivery.lane = l
    BY <1>5, <1>10
  <2>3. Accounted(new.queue, new.queuedBytes) BY <2>1, <2>2a, AccountedOne
  <2>4. StateLaneOK(l, new)
    BY <1>3, <2>1, <2>2, <2>2a, <2>3 DEF StateLaneOK, StateWithin
  <2> QED BY <2>1, <2>2, <2>4 DEF new
<1>11. CASE fits /\ kept = <<>>
  <2>0. marker = <<mark>> BY <1>11
  <2> HIDE DEF marker
  <2>1. new.queue = <<mark>> /\ new.queuedBytes = ResyncBytes
    BY <1>3, <1>4, <1>4a, <1>7, <1>11, <2>0 DEF new
  <2>2. /\ Len(<<mark>>) = 1 /\ DOMAIN <<mark>> = {1} /\ <<mark>>[1] = mark /\ <<mark>> # <<>>
    OBVIOUS
  <2>3. Accounted(new.queue, new.queuedBytes) BY <1>3, <1>4, <2>1, AccountedOne
  <2>4. Last(new.queue) = mark BY <2>1, <2>2 DEF Last
  <2>4a. new.resyncPending BY <1>7, <1>11 DEF new
  <2>5. StateLaneOK(l, new)
    BY <1>3, <1>4, <1>11, <2>1, <2>2, <2>3, <2>4, <2>4a DEF StateLaneOK, StateWithin
  <2> QED BY <1>5, <1>11, <2>5 DEF new
<1>12. CASE fits /\ kept = <<activeDelivery>>
  <2>0. activeDelivery.size \in Nat /\ activeDelivery.size <= MaxStateQueuedBytes
        /\ activeDelivery.lane = l
    BY <1>5, <1>12
  <2>1. new.queue = <<activeDelivery, mark>>
        /\ new.queuedBytes = activeDelivery.size + ResyncBytes
    BY <1>4, <1>4a, <1>7, <1>12 DEF new
  <2>2. /\ Len(<<activeDelivery, mark>>) = 2 /\ DOMAIN <<activeDelivery, mark>> = {1, 2}
        /\ <<activeDelivery, mark>>[1] = activeDelivery
        /\ <<activeDelivery, mark>>[2] = mark /\ <<activeDelivery, mark>> # <<>>
    OBVIOUS
  <2>3. Accounted(new.queue, new.queuedBytes)
    <3>1. Accounted(<<activeDelivery>>, activeDelivery.size) BY <2>0, AccountedOne
    <3>2. <<activeDelivery>> \in Seq({activeDelivery, mark}) /\ mark \in {activeDelivery, mark}
      OBVIOUS
    <3>3. Accounted(Append(<<activeDelivery>>, mark), activeDelivery.size + mark.size)
      BY <1>3, <1>4, <3>1, <3>2, AccountedAppend
    <3> QED BY <1>4, <2>1, <3>3, AppendToOne
  <2>4. Last(new.queue) = mark BY <2>1, <2>2 DEF Last
  <2>4a. new.resyncPending BY <1>7, <1>12 DEF new
  <2>5. StateLaneOK(l, new)
    BY <1>3, <1>4, <1>12, <2>0, <2>1, <2>2, <2>3, <2>4, <2>4a DEF StateLaneOK, StateWithin
  <2> QED BY <2>1, <2>2, <2>5 DEF new
<1> QED BY <1>5, <1>9, <1>10, <1>11, <1>12

LEMMA SendStateOK ==
    ASSUME QueuesInv, NEW l \in StateLanes, NEW key \in Keys, NEW size \in StateSizes,
           SendState(l, key, size), QueueTypes'
    PROVE  StatesOK' /\ HeadsKept
<1>1. /\ ~terminalError /\ ~stateLanes[l].resyncPending
      /\ UNCHANGED controlQueue
      /\ \/ /\ StateOverBound(l, WithoutKey(l, key), size)
            /\ CongestState(l)
         \/ /\ ~StateOverBound(l, WithoutKey(l, key), size)
            /\ QueueState(l, key, size, WithoutKey(l, key))
  BY DEF SendState, controlVars
<1>2. /\ StatesOK'
      /\ activeDelivery \in StateFrames /\ activeDelivery.lane = l =>
            stateLanes'[l].queue # <<>> /\ stateLanes'[l].queue[1] = activeDelivery
      /\ \A m \in StateLanes : m # l => stateLanes'[m] = stateLanes[m]
  <2>1. CASE CongestState(l) BY <1>1, <2>1, CongestStateOK
  <2>2. CASE /\ ~StateOverBound(l, WithoutKey(l, key), size)
             /\ QueueState(l, key, size, WithoutKey(l, key))
    <3>1. activeDelivery \in StateFrames /\ activeDelivery.lane = l =>
             stateLanes[l].queue # <<>> /\ stateLanes[l].queue[1] = activeDelivery
      BY <1>1, KeptState
    <3> QED BY <1>1, <2>2, <3>1, QueueStateOK
  <2> QED BY <1>1, <2>1, <2>2
<1>3. activeDelivery \in StateFrames =>
         LET queue == stateLanes'[activeDelivery.lane].queue
         IN  queue # <<>> /\ Head(queue) = activeDelivery
  <2> SUFFICES ASSUME activeDelivery \in StateFrames
               PROVE  LET queue == stateLanes'[activeDelivery.lane].queue
                      IN  queue # <<>> /\ Head(queue) = activeDelivery
    OBVIOUS
  <2>1. activeDelivery.lane \in StateLanes BY StateFrameLane
  <2>2. CASE activeDelivery.lane = l
    <3>1. stateLanes'[l].queue \in Seq(StateFrames) BY DEF QueueTypes, StateLane
    <3> QED BY <1>2, <2>2, <3>1, HeadTailProperties
  <2>3. CASE activeDelivery.lane # l
    BY <1>1, <1>2, <2>1, <2>3 DEF QueuesInv, ActiveHeads
  <2> QED BY <2>2, <2>3
<1> QED BY <1>1, <1>2, <1>3 DEF HeadsKept, QueuesInv, ActiveHeads

\* completeDelivery of a subscription frame.
LEMMA CompleteStateOK ==
    ASSUME QueuesInv, CompleteState(activeDelivery)
    PROVE  StatesOK'
<1> DEFINE l == activeDelivery.lane
           lane == stateLanes[l]
           bytes == lane.queuedBytes - activeDelivery.size
<1>1. /\ activeDelivery \in StateFrames /\ l \in StateLanes
      /\ activeDelivery.size \in Nat /\ activeDelivery.size > 0
  BY StateFrameLane, StateSize DEF CompleteState
<1>2. /\ stateLanes \in [StateLanes -> StateLane] /\ lane.queue \in Seq(StateFrames)
      /\ lane.queuedBytes \in Int /\ StateLaneOK(l, lane) /\ StatesOK
  BY <1>1, InvParts DEF QueuesInv, StatesOK, QueueTypes, StateLane
<1>3. \/ UNCHANGED stateLanes
      \/ stateLanes' = [stateLanes EXCEPT ![l] = EmptyStateLane]
      \/ /\ stateLanes' = [stateLanes EXCEPT ![l].queue = Tail(lane.queue),
                                             ![l].queuedBytes = bytes]
         /\ lane.queue # <<>> /\ Head(lane.queue) = activeDelivery /\ Len(lane.queue) # 1
  BY DEF CompleteState, stateVars
<1>4. CASE UNCHANGED stateLanes BY <1>2, <1>4 DEF StatesOK
<1>5. CASE stateLanes' = [stateLanes EXCEPT ![l] = EmptyStateLane]
  BY <1>2, <1>5, EmptyStateLaneOK DEF StatesOK
<1>6. CASE /\ stateLanes' = [stateLanes EXCEPT ![l].queue = Tail(lane.queue),
                                               ![l].queuedBytes = bytes]
           /\ lane.queue # <<>> /\ Head(lane.queue) = activeDelivery /\ Len(lane.queue) # 1
  <2> HIDE DEF bytes
  <2>1. /\ stateLanes'[l].queue = Tail(lane.queue) /\ stateLanes'[l].queuedBytes = bytes
        /\ stateLanes'[l].resyncPending = lane.resyncPending
        /\ \A m \in StateLanes : m # l => stateLanes'[m] = stateLanes[m]
    BY <1>1, <1>2, <1>6 DEF StateLane
  <2> HIDE DEF lane, l
  <2>2. /\ Tail(lane.queue) \in Seq(StateFrames) /\ Len(Tail(lane.queue)) = Len(lane.queue) - 1
        /\ Len(lane.queue) \in Nat /\ Len(lane.queue) >= 2
        /\ \A k \in 1..(Len(lane.queue) - 1) : Tail(lane.queue)[k] = lane.queue[k + 1]
        /\ lane.queue[1] = activeDelivery
    <3>0. lane.queue \in Seq(StateFrames) /\ lane.queue # <<>> BY <1>2, <1>6
    <3>1. Len(lane.queue) \in Nat /\ Len(lane.queue) # 0 BY <3>0, EmptySeq
    <3>1a. Len(lane.queue) # 1 BY <1>6
    <3>2. Len(lane.queue) >= 2
      <4> DEFINE n == Len(lane.queue)
      <4>1. n \in Nat /\ n # 0 /\ n # 1 BY <3>1, <3>1a
      <4> HIDE DEF n
      <4>2. n >= 2 BY <4>1
      <4> QED BY <4>2 DEF n
    <3>3. lane.queue[1] = activeDelivery BY <1>2, <1>6, HeadTailProperties
    <3>4. /\ Tail(lane.queue) \in Seq(StateFrames)
          /\ Len(Tail(lane.queue)) = Len(lane.queue) - 1
          /\ \A k \in 1..(Len(lane.queue) - 1) : Tail(lane.queue)[k] = lane.queue[k + 1]
      BY <1>2, <1>6, HeadTailProperties
    <3> QED BY <3>1, <3>2, <3>3, <3>4
  <2> DEFINE rest == Tail(lane.queue)
  <2> HIDE DEF rest
  <2>3. /\ rest \in Seq(StateFrames) /\ Len(rest) = Len(lane.queue) - 1
        /\ DOMAIN rest = 1..(Len(lane.queue) - 1) /\ DOMAIN lane.queue = 1..Len(lane.queue)
        /\ \A k \in DOMAIN rest : rest[k] = lane.queue[k + 1] /\ k + 1 \in DOMAIN lane.queue
        /\ stateLanes'[l].queue = rest /\ rest # <<>>
    <3>1. rest \in Seq(StateFrames) /\ Len(rest) = Len(lane.queue) - 1
          /\ stateLanes'[l].queue = rest
          /\ \A k \in 1..(Len(lane.queue) - 1) : rest[k] = lane.queue[k + 1]
      BY <2>1, <2>2 DEF rest
    <3>2. DOMAIN rest = 1..(Len(lane.queue) - 1) /\ DOMAIN lane.queue = 1..Len(lane.queue)
      BY <1>2, <3>1
    <3>3. Len(rest) # 0 BY <2>2, <3>1
    <3>4. \A k \in 1..(Len(lane.queue) - 1) : k + 1 \in 1..Len(lane.queue) BY <2>2
    <3> QED BY <3>1, <3>2, <3>3, <3>4, EmptySeq
  <2>4. Accounted(rest, bytes)
    BY <1>2, <1>6, <2>2, StateSize, AccountedTail DEF StateLaneOK, bytes, rest
  <2>5. Last(rest) = Last(lane.queue)
    <3>1. Len(rest) \in DOMAIN rest /\ Len(rest) + 1 = Len(lane.queue) BY <2>2, <2>3
    <3> QED BY <2>3, <3>1 DEF Last
  <2>6. StateWithin(stateLanes'[l])
    <3>1. /\ MaxStateQueuedBytes \in Nat /\ ResyncBytes \in Nat
          /\ MaxStateQueuedFrames \in Nat
      BY LimitsAssumption, FramesAssumption
    <3>2. StateWithin(lane) BY <1>2 DEF StateLaneOK
    <3>3. bytes \in Int /\ bytes <= lane.queuedBytes /\ lane.queuedBytes \in Int
      BY <1>1, <1>2 DEF bytes
    <3>4. Len(rest) \in Nat /\ Len(rest) <= Len(lane.queue) BY <2>2, <2>3
    <3> QED BY <2>1, <2>2, <2>3, <3>1, <3>2, <3>3, <3>4 DEF StateWithin
  <2>8. \A k \in DOMAIN rest : rest[k].lane = l /\ rest[k].size <= MaxStateQueuedBytes
    BY <1>2, <2>3 DEF StateLaneOK
  <2>9. lane.resyncPending => Last(rest) \in ResyncFrame
    BY <1>2, <2>5 DEF StateLaneOK
  <2>10. StateLaneOK(l, stateLanes'[l])
    BY <2>1, <2>3, <2>4, <2>6, <2>8, <2>9 DEF StateLaneOK
  <2> QED BY <1>2, <2>1, <2>10 DEF StatesOK
<1> QED BY <1>3, <1>4, <1>5, <1>6

-----------------------------------------------------------------------------
(* The terminal lanes. *)

LEMMA NewTerminalLaneOK ==
    ASSUME NEW position \in Positions, NEW c
    PROVE  TerminalLaneOK(NewTerminalLane(position), c)
<1> DEFINE new == NewTerminalLane(position)
<1>1. /\ new.queue = <<>> /\ new.queuedBytes = 0 /\ new.suppressed = FALSE
      /\ new.confirmed = position /\ new.head = position /\ new.unconfirmedSince = "none"
  BY DEF NewTerminalLane
<1>2. Len(<<>>) = 0 OBVIOUS
<1>3. /\ position \in Nat /\ MaxTerminalQueuedFrames \in Nat
      /\ MaxTerminalUnconfirmedBytes \in Nat /\ MaxTerminalQueuedBytes \in Nat
  BY FramesAssumption, LimitsAssumption DEF Positions
<1> HIDE DEF new
<1>4. TerminalLaneOK(new, c)
  BY <1>1, <1>2, <1>3, AccountedEmpty DEF TerminalLaneOK, TerminalWithin, InWindow
<1> QED BY <1>4 DEF new

LEMMA NoTerminalLaneOK ==
    ASSUME NEW c
    PROVE  TerminalLaneOK(NoTerminalLane, c)
<1> DEFINE new == NoTerminalLane
<1>1. /\ new.queue = <<>> /\ new.queuedBytes = 0 /\ new.suppressed = FALSE
      /\ new.confirmed = 0 /\ new.head = 0 /\ new.unconfirmedSince = "none"
  BY DEF NoTerminalLane, NewTerminalLane
<1>2. Len(<<>>) = 0 OBVIOUS
<1>3. /\ MaxTerminalQueuedFrames \in Nat /\ MaxTerminalUnconfirmedBytes \in Nat
      /\ MaxTerminalQueuedBytes \in Nat
  BY LimitsAssumption
<1> HIDE DEF new
<1>4. TerminalLaneOK(new, c)
  BY <1>1, <1>2, <1>3, AccountedEmpty DEF TerminalLaneOK, TerminalWithin, InWindow
<1> QED BY <1>4 DEF new

\* fail() leaves every queue empty, so within its limits.
LEMMA FailedOK ==
    ASSUME Failed
    PROVE  ControlOK' /\ StatesOK' /\ TerminalsOK' /\ ActiveHeads'
<1>1. /\ controlQueue' = <<>> /\ controlBytes' = 0 /\ terminalBytes' = 0 /\ terminalError'
      /\ stateLanes' = [l \in StateLanes |-> EmptyStateLane]
      /\ terminalLanes' = [l \in TerminalLanes |-> NoTerminalLane]
  BY DEF Failed
<1>2. /\ MaxQueuedFrames \in Nat /\ MaxQueuedBytes \in Nat /\ Len(<<>>) = 0
  BY LimitsAssumption
<1>3. ControlOK' BY <1>1, <1>2 DEF ControlOK
<1>4. StatesOK' BY <1>1, EmptyStateLaneOK DEF StatesOK
<1>5. TerminalsOK' BY <1>1, <1>2, NoTerminalLaneOK DEF TerminalsOK
<1>6. ActiveHeads' BY <1>1 DEF ActiveHeads
<1> QED BY <1>3, <1>4, <1>5, <1>6

\* One lane is replaced, and the client of no other lane changes.
LEMMA TerminalReplaced ==
    ASSUME QueuesInv, NEW l \in TerminalLanes, NEW new,
           terminalLanes' = [terminalLanes EXCEPT ![l] = new],
           TerminalLaneOK(new, client'[l]), terminalBytes' <= MaxQueuedBytes,
           \A m \in TerminalLanes : m # l => client'[m] = client[m]
    PROVE  TerminalsOK'
<1>1. terminalLanes \in [TerminalLanes -> TerminalLane]
  BY InvParts DEF QueuesInv, QueueTypes
<1>2. ASSUME NEW m \in TerminalLanes
      PROVE  TerminalLaneOK(terminalLanes'[m], client'[m])
  <2>1. CASE m = l BY <2>1, <1>1
  <2>2. CASE m # l BY <2>2, <1>1 DEF QueuesInv, TerminalsOK
  <2> QED BY <2>1, <2>2
<1> QED BY <1>2 DEF TerminalsOK

LEMMA LaneForQueues ==
    ASSUME QueuesInv, NEW l \in TerminalLanes, NEW range \in Ranges, OpenClient(l, range)
    PROVE  TerminalLaneOK(LaneFor(l, range), client'[l])
<1>1. CASE terminalLanes[l].open
  BY <1>1 DEF LaneFor, OpenClient, QueuesInv, TerminalsOK
<1>2. CASE ~terminalLanes[l].open
  <2>1. range.from \in Positions BY DEF Ranges
  <2> QED BY <1>2, <2>1, NewTerminalLaneOK DEF LaneFor
<1> QED BY <1>1, <1>2

\* Output that is under every bound.
LEMMA QueueTerminalOK ==
    ASSUME NEW l \in TerminalLanes, NEW lane \in TerminalLane, NEW range \in Ranges, NEW c,
           TerminalLaneOK(lane, c), ~lane.suppressed, terminalBytes \in Int,
           range.to > lane.head, range.from = lane.head,
           ~TerminalOverBound(lane, range),
           NEW since \in {"recent", "overdue"},
           QueueTerminal(l, [lane EXCEPT !.unconfirmedSince = since, !.head = range.to], range)
    PROVE  \E new \in TerminalLane :
              /\ terminalLanes' = [terminalLanes EXCEPT ![l] = new]
              /\ TerminalLaneOK(new, client'[l])
              /\ terminalBytes' <= MaxQueuedBytes
<1> DEFINE size == range.to - range.from
           frame == [class |-> "terminal", lane |-> l, from |-> range.from,
                     to |-> range.to, size |-> size]
           bytes == lane.queuedBytes + size
           new == [lane EXCEPT !.unconfirmedSince = since, !.head = range.to,
                               !.queue = Append(lane.queue, frame), !.queuedBytes = bytes]
<1>1. /\ lane.queue \in Seq(TerminalFrames) /\ lane.queuedBytes \in Int
      /\ lane.head \in Positions /\ lane.head \in Nat
      /\ lane.confirmed \in Positions /\ lane.confirmed \in Nat
      /\ range.to \in Positions /\ range.to \in Nat
      /\ range.from \in Positions /\ range.from \in Nat
      /\ lane.confirmed <= lane.head
  BY FramesAssumption DEF TerminalLane, Positions, Ranges, TerminalLaneOK
<1>2. size \in Nat \ {0} BY <1>1
<1>3. bytes \in Int BY <1>1, <1>2
<1>4. frame \in TerminalFrames /\ frame.size = size
  BY <1>1, <1>2 DEF TerminalFrames, OutputFrame, TerminalFrame
<1>5. /\ terminalLanes' = [terminalLanes EXCEPT ![l] = new]
      /\ terminalBytes' = terminalBytes + size
  BY DEF QueueTerminal, TerminalLane
<1>6. /\ MaxTerminalQueuedFrames \in Nat \ {0} /\ MaxTerminalUnconfirmedBytes \in Nat
      /\ MaxQueuedBytes \in Nat /\ MaxTerminalQueuedBytes \in Nat
  BY LimitsAssumption
<1> HIDE DEF size, bytes, frame
<1>7. /\ new.queue = Append(lane.queue, frame) /\ new.queuedBytes = bytes
      /\ new.head = range.to /\ new.confirmed = lane.confirmed
      /\ new.suppressed = lane.suppressed /\ new.unconfirmedSince = since
  BY DEF TerminalLane
<1>8. Append(lane.queue, frame) \in Seq(TerminalFrames) BY <1>1, <1>4
<1>9. new \in TerminalLane
  BY <1>1, <1>3, <1>8 DEF TerminalLane
<1>10. /\ Len(Append(lane.queue, frame)) = Len(lane.queue) + 1 /\ Len(lane.queue) \in Nat
  BY <1>1, <1>4, AppendProperties
<1> HIDE DEF new
<1>11. /\ Len(lane.queue) < MaxTerminalQueuedFrames
       /\ terminalBytes + size <= MaxQueuedBytes
       /\ range.to - lane.confirmed <= MaxTerminalUnconfirmedBytes
       /\ bytes <= MaxTerminalQueuedBytes
  BY SMTT(30), <1>1, <1>2, <1>6, <1>10 DEF TerminalOverBound, size, bytes
<1>12. Accounted(new.queue, new.queuedBytes)
  BY <1>1, <1>2, <1>4, <1>7, AccountedAppend DEF TerminalLaneOK, bytes
<1>13. InWindow(new)
  BY <1>1, <1>7, <1>11 DEF InWindow
<1>14. TerminalLaneOK(new, client'[l])
  <2>1. TerminalWithin(new) BY <1>6, <1>7, <1>10, <1>11 DEF TerminalWithin
  <2>2. new.confirmed <= new.head BY <1>1, <1>7
  <2> QED BY <1>7, <1>12, <1>13, <2>1, <2>2 DEF TerminalLaneOK
<1> QED BY <1>5, <1>9, <1>11, <1>14

\* What a lane keeps is the first of its frames.
LEMMA KeptWithin ==
    ASSUME QueuesInv, ~terminalError, NEW l \in TerminalLanes
    PROVE  /\ BytesOf(InFlightOf(l)) \in Nat
           /\ terminalLanes[l].queuedBytes \in Nat
           /\ BytesOf(InFlightOf(l)) <= terminalLanes[l].queuedBytes
<1> DEFINE lane == terminalLanes[l]
<1>1. lane.queue \in Seq(TerminalFrames) /\ Accounted(lane.queue, lane.queuedBytes)
  BY InvParts DEF QueuesInv, QueueTypes, TerminalLane, TerminalsOK, TerminalLaneOK
<1>2. /\ lane.queuedBytes \in Nat
      /\ lane.queue # <<>> => lane.queue[1].size <= lane.queuedBytes
  <2>1. lane.queue # <<>> => 1 \in 1..Len(lane.queue) BY <1>1, EmptySeq
  <2> QED BY <1>1, <2>1, TerminalSize, AccountedBounds
<1>3. CASE InFlightOf(l) = <<>>
  BY <1>2, <1>3 DEF BytesOf
<1>4. CASE /\ InFlightOf(l) = <<activeDelivery>> /\ activeDelivery \in TerminalFrames
           /\ lane.queue # <<>> /\ activeDelivery = lane.queue[1]
  <2>1. BytesOf(InFlightOf(l)) = activeDelivery.size /\ activeDelivery.size \in Nat
    BY <1>4, TerminalSize DEF BytesOf
  <2> QED BY <1>2, <1>4, <2>1
<1> QED BY <1>3, <1>4, KeptQueue DEF QueuesInv

\* congestTerminalLane: the frame in the transport, then the skip.
LEMMA CongestTerminalOK ==
    ASSUME QueuesInv, QueueTypes', ~terminalError, NEW l \in TerminalLanes,
           NEW lane \in TerminalLane, lane.open, lane.confirmed <= lane.head,
           NEW range \in Ranges, lane.head <= range.to, CongestTerminal(l, lane, range),
           ~terminalLanes[l].suppressed,
           \A m \in TerminalLanes : m # l => client'[m] = client[m]
    PROVE  TerminalsOK'
<1> DEFINE kept == InFlightOf(l)
           keptBytes == terminalBytes - lane.queuedBytes + BytesOf(kept)
           head == IF range.to > lane.head THEN range.to ELSE lane.head
           from == IF kept # <<>> /\ kept[1].to > lane.sent THEN kept[1].to ELSE lane.sent
           skip == [class |-> "terminal_skip", lane |-> l, from |-> from, to |-> head,
                    size |-> SkipBytes]
           bytes == BytesOf(kept) + SkipBytes
           new == [lane EXCEPT !.queue = Append(kept, skip), !.queuedBytes = bytes,
                               !.head = head, !.suppressed = TRUE]
<1>1. CASE Failed BY <1>1, FailedOK
<1>2. CASE /\ ~(keptBytes + SkipBytes > MaxQueuedBytes)
           /\ terminalLanes' = [terminalLanes EXCEPT ![l] = new]
           /\ terminalBytes' = keptBytes + SkipBytes
  <2>1. /\ lane.head \in Nat /\ lane.confirmed \in Nat /\ range.to \in Nat
        /\ lane.queuedBytes \in Int /\ terminalBytes \in Int
        /\ SkipBytes \in Nat \ {0} /\ MaxQueuedBytes \in Nat
        /\ MaxTerminalQueuedFrames \in Nat \ {0}
    BY FramesAssumption, LimitsAssumption, InvParts
       DEF QueuesInv, TerminalLane, Ranges, Positions, OtherTypes
  <2>2. head = range.to BY <2>1
  <2>3. \/ kept = <<>> /\ BytesOf(kept) = 0
        \/ /\ kept = <<activeDelivery>> /\ activeDelivery \in TerminalFrames
           /\ BytesOf(kept) = activeDelivery.size /\ activeDelivery.size \in Nat
    BY KeptQueue, TerminalSize DEF QueuesInv, BytesOf
  <2>4. BytesOf(kept) \in Nat /\ BytesOf(kept) <= MaxTerminalQueuedBytes
    <3>1. TerminalWithin(terminalLanes[l]) BY DEF QueuesInv, TerminalsOK, TerminalLaneOK
    <3>2. terminalLanes[l].queuedBytes <= MaxTerminalQueuedBytes BY <3>1 DEF TerminalWithin
    <3>3. MaxTerminalQueuedBytes \in Nat BY LimitsAssumption
    <3>4. /\ BytesOf(kept) \in Nat /\ terminalLanes[l].queuedBytes \in Nat
          /\ BytesOf(kept) <= terminalLanes[l].queuedBytes
      BY KeptWithin
    <3> HIDE DEF kept
    <3> QED BY <3>2, <3>3, <3>4
  <2>4a. skip.size = SkipBytes /\ skip.to = head /\ skip.class = "terminal_skip" OBVIOUS
  <2> HIDE DEF kept, head, from, skip
  <2>5. /\ new.queue = Append(kept, skip) /\ new.queuedBytes = bytes /\ new.head = head
        /\ new.suppressed /\ new.open /\ new.confirmed = lane.confirmed
    BY DEF TerminalLane
  <2>6. terminalBytes' <= MaxQueuedBytes
    <3>1. keptBytes + SkipBytes \in Int BY <2>1, <2>4
    <3> HIDE DEF keptBytes
    <3> QED BY <1>2, <2>1, <3>1
  <2>7. terminalLanes'[l] = new
    BY <1>2, InvParts DEF QueuesInv, QueueTypes
  <2> HIDE DEF new
  <2>8. new.queue \in Seq(TerminalFrames)
    BY <2>7 DEF QueueTypes, TerminalLane
  <2>9. /\ Len(new.queue) \in {1, 2} /\ new.queue # <<>>
        /\ new.queue[Len(new.queue)] = skip
        /\ Accounted(new.queue, bytes)
    <3>1. CASE kept = <<>>
      <4>1. new.queue = <<skip>> BY <2>5, <3>1
      <4>2. Accounted(<<skip>>, SkipBytes) BY <2>1, <2>4a, AccountedOne
      <4>3. bytes = SkipBytes BY <2>1, <2>3, <3>1
      <4> QED BY <4>1, <4>2, <4>3
    <3>2. CASE kept # <<>>
      <4>1. /\ kept = <<activeDelivery>> /\ BytesOf(kept) = activeDelivery.size
            /\ activeDelivery.size \in Nat
        BY <2>3, <3>2
      <4>2. new.queue = <<activeDelivery, skip>> BY <2>5, <4>1, AppendToOne
      <4>3. Accounted(<<activeDelivery>>, activeDelivery.size) BY <4>1, AccountedOne
      <4>4. <<activeDelivery>> \in Seq({activeDelivery, skip}) /\ skip \in {activeDelivery, skip}
        OBVIOUS
      <4>5. Accounted(Append(<<activeDelivery>>, skip), activeDelivery.size + skip.size)
        BY <2>1, <2>4a, <4>3, <4>4, AccountedAppend
      <4>6. Accounted(new.queue, bytes) BY <2>4a, <4>1, <4>2, <4>5, AppendToOne
      <4> QED BY <4>2, <4>6
    <3> QED BY <3>1, <3>2
  <2>9a. bytes <= MaxTerminalQueuedBytes + SkipBytes
    <3>1. MaxTerminalQueuedBytes \in Nat BY LimitsAssumption
    <3> QED BY <2>1, <2>4, <3>1
  <2> HIDE DEF bytes
  <2>10. Last(new.queue) = skip BY <2>9 DEF Last
  <2>11. skip \in SkipFrame
    <3>1. Len(new.queue) \in 1..Len(new.queue) BY <2>9
    <3>2. skip \in TerminalFrames BY <2>8, <2>9, <3>1, ElementOfSeq
    <3> QED BY <2>4a, <3>2 DEF TerminalFrames, OutputFrame, TerminalFrame
  <2>12. TerminalLaneOK(new, client'[l])
    <3>1. Announced(new, client'[l])
      BY <2>4a, <2>5, <2>9, <2>10, <2>11 DEF Announced
    <3>2. TerminalWithin(new) BY <2>5, <2>9, <2>9a DEF TerminalWithin
    <3>3. new.confirmed <= new.head BY <2>1, <2>2, <2>5
    <3> QED BY <2>5, <2>9, <3>1, <3>2, <3>3 DEF TerminalLaneOK
  <2> QED BY <1>2, <2>6, <2>12, TerminalReplaced
<1> QED BY <1>1, <1>2 DEF CongestTerminal

LEMMA SendOutputOK ==
    ASSUME QueuesInv, QueueTypes', ~terminalError, NEW l \in TerminalLanes, NEW range \in Ranges,
           ~terminalLanes[l].releasePending, ~terminalLanes[l].suppressed,
           SendOutput(l, range)
    PROVE  TerminalsOK'
<1> DEFINE lane == LaneFor(l, range)
           since == IF lane.unconfirmedSince = "none" THEN "recent" ELSE lane.unconfirmedSince
           admitted == [lane EXCEPT !.unconfirmedSince = since, !.head = range.to]
<1>1. OpenClient(l, range) /\ Inv BY DEF SendOutput, QueuesInv
<1>2. /\ lane \in TerminalLane /\ lane.open /\ ~lane.suppressed
      /\ \A m \in TerminalLanes : m # l => client'[m] = client[m]
  BY <1>1, LaneForOK
<1>3. TerminalLaneOK(lane, client'[l]) BY <1>1, LaneForQueues
<1>4. range.to > lane.head /\ range.from = lane.head BY DEF SendOutput
<1>5. /\ lane.head \in Positions /\ lane.head \in Nat
      /\ lane.confirmed \in Positions /\ lane.confirmed \in Nat
      /\ range.to \in Nat /\ range.to \in Positions /\ terminalBytes \in Int
      /\ lane.confirmed <= lane.head
  BY <1>1, <1>2, <1>3, FramesAssumption, InvParts
     DEF TerminalLane, Ranges, Positions, TerminalLaneOK, OtherTypes
<1>6. since \in {"recent", "overdue"} BY <1>2 DEF TerminalLane
<1>7. \/ CongestTerminal(l, admitted, range)
      \/ ~TerminalOverBound(lane, range) /\ QueueTerminal(l, admitted, range)
  BY DEF SendOutput
<1> HIDE DEF lane, since
<1>8. CASE CongestTerminal(l, admitted, range)
  <2>1. /\ admitted \in TerminalLane /\ admitted.open /\ admitted.head = range.to
        /\ admitted.confirmed = lane.confirmed
    BY <1>2, <1>5, <1>6 DEF TerminalLane
  <2> HIDE DEF admitted
  <2>2. admitted.confirmed <= admitted.head /\ admitted.head <= range.to
    BY <1>4, <1>5, <2>1
  <2> QED BY <1>2, <1>8, <2>1, <2>2, CongestTerminalOK
<1>9. CASE ~TerminalOverBound(lane, range) /\ QueueTerminal(l, admitted, range)
  <2>1. PICK new \in TerminalLane :
              /\ terminalLanes' = [terminalLanes EXCEPT ![l] = new]
              /\ TerminalLaneOK(new, client'[l])
              /\ terminalBytes' <= MaxQueuedBytes
    BY <1>2, <1>3, <1>4, <1>5, <1>6, <1>9, QueueTerminalOK
  <2> QED BY <1>2, <2>1, TerminalReplaced
<1> QED BY <1>7, <1>8, <1>9

LEMMA SendOutOfOrderOK ==
    ASSUME QueuesInv, QueueTypes', ~terminalError, NEW l \in TerminalLanes, NEW range \in Ranges,
           ~terminalLanes[l].suppressed, SendOutOfOrder(l, range)
    PROVE  TerminalsOK'
<1> DEFINE lane == terminalLanes[l]
<1>1. /\ lane \in TerminalLane /\ lane.confirmed <= lane.head
  BY InvParts DEF QueuesInv, QueueTypes, TerminalsOK, TerminalLaneOK
<1>2. /\ lane.open /\ range.to > lane.head /\ CongestTerminal(l, lane, range)
      /\ client' = client
  BY DEF SendOutOfOrder
<1>3. lane.head \in Nat /\ range.to \in Nat
  BY <1>1, FramesAssumption DEF TerminalLane, Ranges, Positions
<1>4. lane.head <= range.to BY <1>2, <1>3
<1>5. \A m \in TerminalLanes : m # l => client'[m] = client[m] BY <1>2
<1> HIDE DEF lane
<1> QED BY <1>1, <1>2, <1>4, <1>5, CongestTerminalOK

LEMMA SendTerminalOK ==
    ASSUME QueuesInv, QueueTypes', NEW l \in TerminalLanes, NEW range \in Ranges,
           SendTerminal(l, range)
    PROVE  TerminalsOK'
BY SendOutputOK, SendOutOfOrderOK DEF SendTerminal

LEMMA AcknowledgeTerminalOK ==
    ASSUME QueuesInv, NEW l \in TerminalLanes, NEW position, AcknowledgeTerminal(l, position)
    PROVE  TerminalsOK'
<1> DEFINE lane == terminalLanes[l]
           since == IF position >= lane.head THEN "none" ELSE "recent"
           new == [lane EXCEPT !.confirmed = position, !.unconfirmedSince = since]
<1>1. /\ lane \in TerminalLane /\ terminalLanes \in [TerminalLanes -> TerminalLane]
      /\ TerminalLaneOK(lane, client[l])
      /\ terminalBytes <= MaxQueuedBytes
  BY InvParts DEF QueuesInv, QueueTypes, TerminalsOK
<1>2. /\ position \in lane.confirmed..lane.head
      /\ terminalLanes' = [terminalLanes EXCEPT ![l].confirmed = position,
                                                ![l].unconfirmedSince = since]
      /\ UNCHANGED <<terminalBytes, client>>
  BY DEF AcknowledgeTerminal
<1>3. /\ lane.head \in Nat /\ lane.confirmed \in Nat /\ MaxTerminalUnconfirmedBytes \in Nat
  BY <1>1, FramesAssumption, LimitsAssumption DEF TerminalLane, Positions
<1>4. position \in Nat /\ position <= lane.head /\ lane.confirmed <= position
  BY <1>2, <1>3
<1> HIDE DEF lane
<1>5. since = "none" <=> lane.head = position
  BY <1>3, <1>4
<1> HIDE DEF since
<1>6. terminalLanes' = [terminalLanes EXCEPT ![l] = new] BY <1>1, <1>2 DEF lane
<1>7. /\ new.queue = lane.queue /\ new.queuedBytes = lane.queuedBytes /\ new.head = lane.head
      /\ new.confirmed = position /\ new.suppressed = lane.suppressed /\ new.open = lane.open
      /\ new.releasePending = lane.releasePending /\ new.unconfirmedSince = since
  BY <1>1 DEF TerminalLane
<1> HIDE DEF new
<1>8. InWindow(lane) => InWindow(new)
  BY <1>3, <1>4, <1>5, <1>7 DEF InWindow
<1>9. Announced(lane, client[l]) => Announced(new, client[l])
  BY <1>7 DEF Announced
<1>10. TerminalLaneOK(new, client'[l])
  BY <1>1, <1>2, <1>4, <1>7, <1>8, <1>9 DEF TerminalLaneOK, TerminalWithin
<1> QED BY <1>1, <1>2, <1>6, <1>10, TerminalReplaced

LEMMA UnconfirmedAgesOK ==
    ASSUME QueuesInv, NEW l \in TerminalLanes, UnconfirmedAges(l)
    PROVE  TerminalsOK'
<1> DEFINE lane == terminalLanes[l]
           new == [lane EXCEPT !.unconfirmedSince = "overdue"]
<1>1. /\ lane \in TerminalLane /\ terminalLanes \in [TerminalLanes -> TerminalLane]
      /\ TerminalLaneOK(lane, client[l])
      /\ terminalBytes <= MaxQueuedBytes
  BY InvParts DEF QueuesInv, QueueTypes, TerminalsOK
<1>2. /\ lane.unconfirmedSince = "recent"
      /\ terminalLanes' = [terminalLanes EXCEPT ![l].unconfirmedSince = "overdue"]
      /\ UNCHANGED <<terminalBytes, client>>
  BY DEF UnconfirmedAges
<1>3. terminalLanes' = [terminalLanes EXCEPT ![l] = new] BY <1>1, <1>2
<1> HIDE DEF lane
<1>4. /\ new.queue = lane.queue /\ new.queuedBytes = lane.queuedBytes /\ new.head = lane.head
      /\ new.confirmed = lane.confirmed /\ new.suppressed = lane.suppressed
      /\ new.open = lane.open
      /\ new.releasePending = lane.releasePending /\ new.unconfirmedSince = "overdue"
  BY <1>1 DEF TerminalLane
<1> HIDE DEF new
<1>5. InWindow(lane) => InWindow(new)
  BY <1>2, <1>4 DEF InWindow
<1>6. Announced(lane, client[l]) => Announced(new, client[l])
  BY <1>4 DEF Announced
<1>7. TerminalLaneOK(new, client'[l])
  BY <1>1, <1>2, <1>4, <1>5, <1>6 DEF TerminalLaneOK, TerminalWithin
<1> QED BY <1>1, <1>2, <1>3, <1>7, TerminalReplaced

LEMMA ReleaseTerminalOK ==
    ASSUME QueuesInv, NEW l \in TerminalLanes, ReleaseTerminal(l)
    PROVE  TerminalsOK'
<1> DEFINE kept == InFlightOf(l)
           lane == terminalLanes[l]
<1>1. /\ lane \in TerminalLane /\ terminalLanes \in [TerminalLanes -> TerminalLane]
      /\ lane.queue \in Seq(TerminalFrames) /\ lane.queuedBytes \in Int /\ terminalBytes \in Int
      /\ TerminalLaneOK(lane, client[l]) /\ terminalBytes <= MaxQueuedBytes
      /\ MaxQueuedBytes \in Nat /\ MaxTerminalQueuedFrames \in Nat \ {0}
  BY InvParts, LimitsAssumption
     DEF QueuesInv, QueueTypes, OtherTypes, TerminalsOK, TerminalLane
<1>2. lane.open /\ ~terminalError /\ UNCHANGED client
  BY InvParts DEF QueuesInv, ReleaseTerminal, FailedIsClosed
<1>3. /\ lane.queuedBytes \in Nat
      /\ lane.queue # <<>> => lane.queue[1].size <= lane.queuedBytes
  <2>1. lane.queue # <<>> => 1 \in 1..Len(lane.queue) BY <1>1, EmptySeq
  <2> QED BY <1>1, <2>1, TerminalSize, AccountedBounds DEF TerminalLaneOK
<1>4. terminalBytes' = terminalBytes - lane.queuedBytes + BytesOf(kept)
  BY DEF ReleaseTerminal
<1>5. CASE kept # <<>>
  <2> DEFINE new == [lane EXCEPT !.queue = kept, !.queuedBytes = BytesOf(kept),
                                 !.releasePending = TRUE]
  <2>1. terminalLanes' = [terminalLanes EXCEPT ![l] = new]
    BY <1>5 DEF ReleaseTerminal
  <2>2. /\ kept = <<activeDelivery>> /\ activeDelivery \in TerminalFrames
        /\ lane.queue # <<>> /\ activeDelivery = lane.queue[1]
        /\ BytesOf(kept) = activeDelivery.size /\ activeDelivery.size \in Nat
    BY <1>2, <1>5, KeptQueue, TerminalSize DEF QueuesInv, BytesOf
  <2> HIDE DEF lane, kept
  <2>3. terminalBytes' <= MaxQueuedBytes BY <1>1, <1>3, <1>4, <2>2
  <2>4. /\ new.queue = <<activeDelivery>> /\ new.queuedBytes = activeDelivery.size
        /\ new.releasePending /\ new.head = lane.head /\ new.confirmed = lane.confirmed
        /\ new.suppressed = lane.suppressed /\ new.open
        /\ new.unconfirmedSince = lane.unconfirmedSince
    BY <1>1, <1>2, <2>2 DEF TerminalLane
  <2> HIDE DEF new
  <2>5. Accounted(new.queue, new.queuedBytes) BY <2>2, <2>4, AccountedOne
  <2>6. TerminalWithin(new)
    <3>1. TerminalWithin(lane) BY <1>1 DEF TerminalLaneOK
    <3>2. /\ MaxTerminalQueuedBytes \in Nat /\ SkipBytes \in Nat
      BY LimitsAssumption, FramesAssumption
    <3>3. Len(new.queue) = 1 BY <2>4
    <3>4. new.queuedBytes \in Nat /\ new.queuedBytes <= lane.queuedBytes
      BY <1>3, <2>2, <2>4
    <3> QED BY <1>1, <1>3, <2>4, <3>1, <3>2, <3>3, <3>4 DEF TerminalWithin
  <2>7. InWindow(lane) => InWindow(new) BY <2>4 DEF InWindow
  <2>8. Announced(new, client'[l]) BY <2>4 DEF Announced
  <2>9. TerminalLaneOK(new, client'[l])
    BY <1>1, <2>4, <2>5, <2>6, <2>7, <2>8 DEF TerminalLaneOK
  <2> QED BY <1>2, <2>1, <2>3, <2>9, TerminalReplaced
<1>6. CASE kept = <<>>
  <2>1. terminalLanes' = [terminalLanes EXCEPT ![l] = NoTerminalLane]
    BY <1>6 DEF ReleaseTerminal
  <2>2. BytesOf(kept) = 0 BY <1>6 DEF BytesOf
  <2>3. terminalBytes' <= MaxQueuedBytes BY <1>1, <1>3, <1>4, <2>2
  <2> QED BY <1>2, <2>1, <2>3, NoTerminalLaneOK, TerminalReplaced
<1> QED BY <1>5, <1>6

\* completeDelivery of terminal output or of a skip, and its client's receipt.
LEMMA AcceptedTerminalOK ==
    ASSUME QueuesInv, Accepted, activeDelivery \in TerminalFrames
    PROVE  TerminalsOK'
<1> DEFINE frame == activeDelivery
           l == frame.lane
           lane == terminalLanes[l]
           bytes == lane.queuedBytes - frame.size
           new == [lane EXCEPT !.queue = Tail(@), !.queuedBytes = bytes,
                               !.sent = SentAfter(lane, frame)]
<1>1. CompleteTerminal(frame)
  BY FrameClasses DEF Accepted, CompleteDelivery, CompleteControl, CompleteState
<1>2. client' = [client EXCEPT ![l] = Receive(@, frame)] BY DEF Accepted
<1>3. /\ l \in TerminalLanes /\ frame.size \in Nat
      /\ frame.class \in {"terminal", "terminal_skip"}
  BY TerminalSize DEF TerminalFrames, OutputFrame, SkipFrame, TerminalFrame
<1>4. /\ lane \in TerminalLane /\ terminalLanes \in [TerminalLanes -> TerminalLane]
      /\ lane.queue \in Seq(TerminalFrames) /\ lane.queuedBytes \in Int /\ terminalBytes \in Int
      /\ TerminalLaneOK(lane, client[l]) /\ terminalBytes <= MaxQueuedBytes
      /\ client \in [TerminalLanes -> ClientType]
      /\ MaxQueuedBytes \in Nat /\ MaxTerminalQueuedFrames \in Nat \ {0}
  BY <1>3, InvParts, LimitsAssumption
     DEF QueuesInv, QueueTypes, OtherTypes, TerminalsOK, TerminalLane
<1>5. client[l].status = "open" /\ client[l].position = frame.from
  BY InvParts DEF QueuesInv, ActiveContinues
<1>6. /\ \A m \in TerminalLanes : m # l => client'[m] = client[m]
      /\ client'[l] = Receive(client[l], frame)
      /\ frame.class = "terminal_skip" => client'[l].status = "skipped"
  <2>1. client'[l] = Receive(client[l], frame) BY <1>2, <1>3, <1>4
  <2>2. Receive(client[l], frame) =
           [position |-> frame.to,
            status |-> IF frame.class = "terminal_skip" THEN "skipped" ELSE "open"]
    BY <1>5 DEF Receive
  <2> QED BY <1>2, <1>4, <2>1, <2>2
<1>7. CASE terminalError
  <2>1. /\ ~lane.open /\ lane.queue = <<>>
    BY <1>3, <1>7, InvParts DEF QueuesInv, FailedIsClosed, LanesOK, Chain
  <2>2. UNCHANGED <<terminalLanes, terminalBytes>>
    BY <1>1, <2>1 DEF CompleteTerminal, terminalVars
  <2>3. TerminalLaneOK(lane, client'[l]) BY <1>4, <2>1 DEF TerminalLaneOK
  <2>4. terminalLanes' = [terminalLanes EXCEPT ![l] = lane] BY <1>4, <2>2
  <2> HIDE DEF lane, l
  <2> QED BY <1>3, <1>4, <1>6, <2>2, <2>3, <2>4, TerminalReplaced
<1>8. CASE ~terminalError
  <2>1. /\ lane.open /\ lane.queue # <<>> /\ lane.queue[1] = frame /\ Head(lane.queue) = frame
    BY <1>4, <1>8, ActiveOpen, HeadTailProperties DEF QueuesInv
  <2>2. /\ terminalBytes' = terminalBytes - frame.size
        /\ \/ terminalLanes' = [terminalLanes EXCEPT ![l] = NoTerminalLane]
           \/ terminalLanes' = [terminalLanes EXCEPT ![l] = new]
    BY <1>1, <2>1 DEF CompleteTerminal
  <2>3. terminalBytes' <= MaxQueuedBytes BY <1>3, <1>4, <2>2
  <2>4. CASE terminalLanes' = [terminalLanes EXCEPT ![l] = NoTerminalLane]
    BY <1>3, <1>6, <2>3, <2>4, NoTerminalLaneOK, TerminalReplaced
  <2>5. CASE terminalLanes' = [terminalLanes EXCEPT ![l] = new]
    <3> DEFINE n == Len(lane.queue)
               rest == Tail(lane.queue)
    <3> HIDE DEF lane, bytes
    <3>1. /\ rest \in Seq(TerminalFrames) /\ Len(rest) = n - 1
          /\ \A k \in 1..(n - 1) : rest[k] = lane.queue[k + 1]
      BY <1>4, <2>1, HeadTailProperties
    <3>2. n \in Nat /\ n # 0 BY <1>4, <2>1, EmptySeq
    <3>3. /\ new.queue = rest /\ new.queuedBytes = bytes /\ new.head = lane.head
          /\ new.confirmed = lane.confirmed /\ new.suppressed = lane.suppressed
          /\ new.open = lane.open /\ new.releasePending = lane.releasePending
          /\ new.unconfirmedSince = lane.unconfirmedSince
      BY <1>4 DEF TerminalLane
    <3>4. Accounted(rest, bytes)
      BY <1>4, <2>1, TerminalSize, AccountedTail DEF TerminalLaneOK, bytes
    <3> HIDE DEF new, n, rest, l
    <3>5. TerminalWithin(new)
      <4>1. TerminalWithin(lane) BY <1>4 DEF TerminalLaneOK
      <4>2. MaxTerminalQueuedBytes \in Nat /\ SkipBytes \in Nat
        BY LimitsAssumption, FramesAssumption
      <4>3. bytes \in Int /\ bytes <= lane.queuedBytes BY <1>3, <1>4 DEF bytes
      <4>4. Len(rest) \in Nat /\ Len(rest) <= n BY <3>1, <3>2
      <4> QED BY <1>4, <3>2, <3>3, <4>1, <4>2, <4>3, <4>4 DEF TerminalWithin, n
    <3>6. InWindow(lane) => InWindow(new) BY <3>3 DEF InWindow
    <3>7. Announced(lane, client[l]) => Announced(new, client'[l])
      <4> SUFFICES ASSUME Announced(lane, client[l]) PROVE Announced(new, client'[l])
        OBVIOUS
      <4>1. CASE lane.releasePending BY <3>3, <4>1 DEF Announced
      <4>2. CASE Last(lane.queue) \in SkipFrame /\ Last(lane.queue).to = lane.head
        <5>1. CASE n = 1
          <6>1. frame \in SkipFrame BY <2>1, <4>2, <5>1 DEF Last, n
          <6>2. frame.class = "terminal_skip" BY <6>1 DEF SkipFrame, TerminalFrame
          <6> QED BY <1>6, <6>2 DEF Announced
        <5>2. CASE n # 1
          <6>1. n - 1 \in 1..(n - 1) /\ (n - 1) + 1 = n BY <3>2, <5>2
          <6>2. Last(rest) = Last(lane.queue) BY <3>1, <6>1 DEF Last, n
          <6>3. rest # <<>>
            <7>1. Len(rest) # 0 BY <3>1, <3>2, <5>2
            <7> QED BY <7>1, EmptySeq
          <6> QED BY <3>3, <4>2, <6>2, <6>3 DEF Announced
        <5> QED BY <5>1, <5>2
      <4>3. client[l].status # "skipped" BY <1>5
      <4> QED BY <4>1, <4>2, <4>3 DEF Announced
    <3>8. TerminalLaneOK(new, client'[l])
      BY <1>4, <3>3, <3>4, <3>5, <3>6, <3>7 DEF TerminalLaneOK
    <3> QED BY <1>3, <1>6, <2>3, <2>5, <3>8, TerminalReplaced
  <2> QED BY <2>2, <2>4, <2>5
<1> QED BY <1>7, <1>8

-----------------------------------------------------------------------------
(* One lemma per kind of step. *)

QueueParts == ControlOK /\ StatesOK /\ TerminalsOK /\ ActiveHeads

LEMMA InitQueues == Init => QueuesInv
<1> SUFFICES ASSUME Init PROVE QueuesInv OBVIOUS
<1>1. Inv BY InitInv
<1>2. /\ controlQueue = <<>> /\ controlBytes = 0 /\ terminalBytes = 0
      /\ stateLanes = [l \in StateLanes |-> EmptyStateLane]
      /\ terminalLanes = [l \in TerminalLanes |-> NoTerminalLane]
      /\ activeDelivery = NoFrame
  BY DEF Init
<1>3. MaxQueuedFrames \in Nat /\ MaxQueuedBytes \in Nat /\ Len(<<>>) = 0
  BY LimitsAssumption
<1>4. ControlOK BY <1>2, <1>3 DEF ControlOK
<1>5. StatesOK BY <1>2, EmptyStateLaneOK DEF StatesOK
<1>6. TerminalsOK BY <1>2, <1>3, NoTerminalLaneOK DEF TerminalsOK
<1>7. ActiveHeads BY <1>2, FrameClasses DEF ActiveHeads
<1> QED BY <1>1, <1>4, <1>5, <1>6, <1>7 DEF QueuesInv

LEMMA SendControlQueues ==
    ASSUME QueuesInv, QueueTypes', NEW size \in ControlSizes, SendControl(size)
    PROVE  QueueParts'
<1>1. ControlOK' /\ HeadsKept BY SendControlOK
<1>2. UNCHANGED <<stateLanes, terminalLanes, terminalBytes, client>> /\ Start
  BY DEF SendControl, stateVars, terminalVars
<1>3. StatesOK' BY <1>2 DEF QueuesInv, StatesOK
<1>4. TerminalsOK' BY <1>2 DEF QueuesInv, TerminalsOK
<1>5. ActiveHeads' BY <1>1, <1>2, <1>3, StartHeads
<1> QED BY <1>1, <1>3, <1>4, <1>5 DEF QueueParts

LEMMA FailedQueues == ASSUME Failed PROVE QueueParts'
BY FailedOK DEF QueueParts

LEMMA SendStateQueues ==
    ASSUME QueuesInv, QueueTypes', NEW l \in StateLanes, NEW key \in Keys,
           NEW size \in StateSizes, SendState(l, key, size)
    PROVE  QueueParts'
<1>1. StatesOK' /\ HeadsKept BY SendStateOK
<1>2. UNCHANGED <<controlQueue, controlBytes, terminalLanes, terminalBytes, client>> /\ Start
  BY DEF SendState, controlVars, terminalVars
<1>3. ControlOK' BY <1>2 DEF QueuesInv, ControlOK
<1>4. TerminalsOK' BY <1>2 DEF QueuesInv, TerminalsOK
<1>5. ActiveHeads' BY <1>1, <1>2, StartHeads
<1> QED BY <1>1, <1>3, <1>4, <1>5 DEF QueueParts

LEMMA SendTerminalQueues ==
    ASSUME QueuesInv, QueueTypes', NEW l \in TerminalLanes, NEW range \in Ranges,
           SendTerminal(l, range)
    PROVE  QueueParts'
<1>1. TerminalsOK' BY SendTerminalOK
<1>2. ~terminalError BY DEF SendTerminal
<1>3. \/ Failed
      \/ UNCHANGED <<controlVars, stateVars, failVars>> /\ Start
  <2>1. ASSUME NEW lane, CongestTerminal(l, lane, range)
        PROVE  \/ Failed
               \/ UNCHANGED <<controlVars, stateVars, failVars>> /\ Start
    BY <2>1, Zenon DEF CongestTerminal
  <2> QED BY <2>1 DEF SendTerminal, SendOutput, SendOutOfOrder
<1>4. CASE Failed BY <1>4, FailedQueues
<1>5. CASE UNCHANGED <<controlVars, stateVars, failVars>> /\ Start
  <2>1. UNCHANGED <<controlQueue, controlBytes, stateLanes>> /\ Start
    BY <1>5 DEF controlVars, stateVars
  <2>2. ControlOK' BY <2>1 DEF QueuesInv, ControlOK
  <2>3. StatesOK' BY <2>1 DEF QueuesInv, StatesOK
  <2>4. HeadsKept BY <1>2, <2>1, HeadsUntouched DEF QueuesInv
  <2>5. ActiveHeads' BY <2>1, <2>3, <2>4, StartHeads
  <2> QED BY <1>1, <2>2, <2>3, <2>5 DEF QueueParts
<1> QED BY <1>3, <1>4, <1>5

\* The methods of one terminal lane touch no other queue and no delivery.
LEMMA LaneMethodQueues ==
    ASSUME QueuesInv, NEW l \in TerminalLanes,
           \/ \E position : AcknowledgeTerminal(l, position)
           \/ UnconfirmedAges(l)
           \/ ReleaseTerminal(l)
    PROVE  QueueParts'
<1>1. TerminalsOK' BY AcknowledgeTerminalOK, UnconfirmedAgesOK, ReleaseTerminalOK
<1>2. UNCHANGED <<controlVars, stateVars, drainVars, failVars>>
  BY DEF AcknowledgeTerminal, UnconfirmedAges, ReleaseTerminal
<1>3. UNCHANGED <<controlQueue, controlBytes, stateLanes, activeDelivery, terminalError>>
  BY <1>2 DEF controlVars, stateVars, drainVars, failVars
<1>4. ControlOK' BY <1>3 DEF QueuesInv, ControlOK
<1>5. StatesOK' BY <1>3 DEF QueuesInv, StatesOK
<1>6. ActiveHeads' BY <1>3 DEF QueuesInv, ActiveHeads
<1> QED BY <1>1, <1>4, <1>5, <1>6 DEF QueueParts

\* Steps that touch no queue, and no delivery.
LEMMA OtherQueues ==
    ASSUME QueuesInv, UNCHANGED <<controlVars, stateVars, terminalVars, activeDelivery,
                                  terminalError, client>>
    PROVE  QueueParts'
<1>1. UNCHANGED <<controlQueue, controlBytes, stateLanes, terminalLanes, terminalBytes,
                  activeDelivery, terminalError, client>>
  BY DEF controlVars, stateVars, terminalVars
<1>2. ControlOK' BY <1>1 DEF QueuesInv, ControlOK
<1>3. StatesOK' BY <1>1 DEF QueuesInv, StatesOK
<1>4. TerminalsOK' BY <1>1 DEF QueuesInv, TerminalsOK
<1>5. ActiveHeads' BY <1>1 DEF QueuesInv, ActiveHeads
<1> QED BY <1>2, <1>3, <1>4, <1>5 DEF QueueParts

\* A resolved send, or a refused control frame.
LEMMA AnsweredQueues ==
    ASSUME QueuesInv, QueueTypes', Accepted \/ Refused
    PROVE  QueueParts'
<1>1. CompleteDelivery /\ Resume BY DEF Accepted, Refused
<1>2. activeDelivery \notin TerminalFrames => UNCHANGED client
  BY DEF Accepted, Refused
<1>3. ControlOK'
  <2>1. CASE CompleteControl(activeDelivery) BY <2>1, CompleteControlOK
  <2>2. CASE ~CompleteControl(activeDelivery)
    <3>1. UNCHANGED <<controlQueue, controlBytes>>
      BY <1>1, <2>2 DEF CompleteDelivery, CompleteState, CompleteTerminal, controlVars
    <3> QED BY <3>1 DEF QueuesInv, ControlOK
  <2> QED BY <2>1, <2>2
<1>4. StatesOK'
  <2>1. CASE CompleteState(activeDelivery) BY <2>1, CompleteStateOK
  <2>2. CASE ~CompleteState(activeDelivery)
    <3>1. UNCHANGED stateLanes
      BY <1>1, <2>2 DEF CompleteDelivery, CompleteControl, CompleteTerminal, stateVars
    <3> QED BY <3>1 DEF QueuesInv, StatesOK
  <2> QED BY <2>1, <2>2
<1>5. TerminalsOK'
  <2>1. CASE activeDelivery \in TerminalFrames
    <3>1. Accepted BY <2>1, FrameClasses DEF Refused
    <3> QED BY <2>1, <3>1, AcceptedTerminalOK
  <2>2. CASE activeDelivery \notin TerminalFrames
    <3>1. UNCHANGED <<terminalLanes, terminalBytes, client>>
      BY <1>1, <1>2, <2>2
         DEF CompleteDelivery, CompleteControl, CompleteState, CompleteTerminal, terminalVars
    <3> QED BY <3>1 DEF QueuesInv, TerminalsOK
  <2> QED BY <2>1, <2>2
<1>6. ActiveHeads' BY <1>1, <1>4, ResumeHeads
<1> QED BY <1>3, <1>4, <1>5, <1>6 DEF QueueParts

LEMMA ThrownQueues ==
    ASSUME QueuesInv, QueueTypes', Thrown
    PROVE  QueueParts'
<1>1. UNCHANGED <<controlQueue, controlBytes, stateLanes, terminalLanes, terminalBytes, client>>
      /\ Resume
  BY DEF Thrown, controlVars, stateVars, terminalVars
<1>2. ControlOK' BY <1>1 DEF QueuesInv, ControlOK
<1>3. StatesOK' BY <1>1 DEF QueuesInv, StatesOK
<1>4. TerminalsOK' BY <1>1 DEF QueuesInv, TerminalsOK
<1>5. ActiveHeads' BY <1>1, <1>3, ResumeHeads
<1> QED BY <1>2, <1>3, <1>4, <1>5 DEF QueueParts

LEMMA NextQueues ==
    ASSUME QueuesInv, [Next]_vars
    PROVE  QueuesInv'
<1>1. Inv' BY NextInv DEF QueuesInv
<1>2. QueueTypes' BY <1>1, InvParts, PTL
<1>3. QueueParts'
  <2>1. CASE \E size \in ControlSizes : SendControl(size) \/ OverflowControl(size)
    BY <1>2, <2>1, SendControlQueues, FailedQueues DEF OverflowControl
  <2>2. CASE \E l \in StateLanes, key \in Keys, size \in StateSizes : SendState(l, key, size)
    BY <1>2, <2>2, SendStateQueues
  <2>3. CASE \E l \in TerminalLanes, range \in Ranges : SendTerminal(l, range)
    BY <1>2, <2>3, SendTerminalQueues
  <2>4. CASE \E l \in TerminalLanes :
                \/ \E position \in Positions : AcknowledgeTerminal(l, position)
                \/ UnconfirmedAges(l)
                \/ ReleaseTerminal(l)
    BY <2>4, LaneMethodQueues
  <2>5. CASE Writable \/ TransportCloses \/ WhenIdle \/ UNCHANGED vars
    <3>1. UNCHANGED <<controlVars, stateVars, terminalVars, activeDelivery, terminalError,
                      client>>
      BY <2>5 DEF Writable, TransportCloses, WhenIdle, vars, drainVars, failVars
    <3> QED BY <3>1, OtherQueues
  <2>6. CASE Accepted \/ Refused BY <1>2, <2>6, AnsweredQueues
  <2>7. CASE Thrown BY <1>2, <2>7, ThrownQueues
  <2>8. CASE DrainRejected \/ Close BY <2>8, FailedQueues DEF DrainRejected, Close
  <2> QED BY <2>1, <2>2, <2>3, <2>4, <2>5, <2>6, <2>7, <2>8 DEF Next
<1> QED BY <1>1, <1>3 DEF QueuesInv, QueueParts

-----------------------------------------------------------------------------

\* Whatever send, sendState, sendTerminal and the transport do, every lane's
\* byte counter is the sum of the frames it holds and every limit holds with it.
THEOREM PumpQueuesInvariant == Spec => []QueuesInv
<1>1. Init => QueuesInv BY InitQueues
<1>2. QueuesInv /\ [Next]_vars => QueuesInv' BY NextQueues
<1> QED BY <1>1, <1>2, PTL DEF Spec

-----------------------------------------------------------------------------
(* All the state lanes together: a marker is queued over the bound, and its *)
(* lane stays silenced until it has left.                                   *)

StateTogether ==
    stateBytes <= MaxStateQueuedBytes + ResyncBytes * Cardinality(SilencedStates)

LEMMA SilencedStatesFinite ==
    /\ IsFiniteSet(SilencedStates) /\ Cardinality(SilencedStates) \in Nat
    /\ ResyncBytes \in Nat /\ MaxStateQueuedBytes \in Nat
    /\ ResyncBytes * Cardinality(SilencedStates) \in Nat
<1>1. IsFiniteSet(SilencedStates) BY LanesAssumption, FS_Subset DEF SilencedStates
<1>2. Cardinality(SilencedStates) \in Nat BY <1>1, FS_CardinalityType
<1>3. ResyncBytes \in Nat /\ MaxStateQueuedBytes \in Nat
  BY FramesAssumption, LimitsAssumption
<1> DEFINE n == Cardinality(SilencedStates)
<1>4. n \in Nat BY <1>2
<1> HIDE DEF n
<1>5. ResyncBytes * n \in Nat BY <1>3, <1>4
<1> QED BY <1>1, <1>2, <1>3, <1>5 DEF n

LEMMA SilencedStatesAfter == ResyncBytes * Cardinality(SilencedStates') \in Nat
<1>1. IsFiniteSet(SilencedStates') BY LanesAssumption, FS_Subset DEF SilencedStates
<1> DEFINE n == Cardinality(SilencedStates')
<1>2. n \in Nat BY <1>1, FS_CardinalityType
<1> HIDE DEF n
<1>3. ResyncBytes * n \in Nat BY <1>2, FramesAssumption
<1> QED BY <1>3 DEF n

\* Which lanes are silenced after a step that replaces one of them.
LEMMA SilencedStatesReplaced ==
    ASSUME QueueTypes, NEW l \in StateLanes,
           \A m \in StateLanes : m # l => stateLanes'[m] = stateLanes[m]
    PROVE  /\ Cardinality(SilencedStates') \in Nat
           /\ stateLanes'[l].resyncPending = stateLanes[l].resyncPending =>
                 Cardinality(SilencedStates') = Cardinality(SilencedStates)
           /\ ~stateLanes[l].resyncPending /\ stateLanes'[l].resyncPending =>
                 Cardinality(SilencedStates') = Cardinality(SilencedStates) + 1
           /\ stateLanes[l].resyncPending /\ ~stateLanes'[l].resyncPending =>
                 Cardinality(SilencedStates') = Cardinality(SilencedStates) - 1
<1>1. IsFiniteSet(SilencedStates) BY SilencedStatesFinite
<1>2. IsFiniteSet(SilencedStates') BY LanesAssumption, FS_Subset DEF SilencedStates
<1>3. CASE stateLanes'[l].resyncPending = stateLanes[l].resyncPending
  <2>1. SilencedStates' = SilencedStates BY <1>3 DEF SilencedStates
  <2> QED BY <1>2, <1>3, <2>1, FS_CardinalityType
<1>4. CASE ~stateLanes[l].resyncPending /\ stateLanes'[l].resyncPending
  <2>1. SilencedStates' = SilencedStates \cup {l} /\ l \notin SilencedStates BY <1>4 DEF SilencedStates
  <2> QED BY <1>1, <1>2, <1>4, <2>1, FS_AddElement, FS_CardinalityType
<1>5. CASE stateLanes[l].resyncPending /\ ~stateLanes'[l].resyncPending
  <2>1. SilencedStates' = SilencedStates \ {l} /\ l \in SilencedStates BY <1>5 DEF SilencedStates
  <2> QED BY <1>1, <1>2, <1>5, <2>1, FS_RemoveElement, FS_CardinalityType
<1> QED BY <1>2, <1>3, <1>4, <1>5, FS_CardinalityType

\* The arithmetic of a marker: it comes with one more lane and goes with it.
LEMMA MarkerCounted ==
    ASSUME NEW size \in Nat, NEW limit \in Nat, NEW n \in Nat, NEW bytes \in Int,
           bytes <= limit + size * n
    PROVE  /\ bytes + size <= limit + size * (n + 1)
           /\ n > 0 => bytes - size <= limit + size * (n - 1)
           /\ limit <= limit + size * n
<1>1. size * (n + 1) = size * n + size /\ size * n \in Nat OBVIOUS
<1>2. size * (n - 1) = size * n - size OBVIOUS
<1> DEFINE product == size * n
<1> HIDE DEF product
<1>3. size * n = product /\ product \in Nat BY <1>1 DEF product
<1> QED BY <1>1, <1>2, <1>3

\* What a state lane keeps is the first of its frames.
LEMMA KeptStateWithin ==
    ASSUME QueuesInv, ~terminalError, NEW l \in StateLanes
    PROVE  /\ BytesOf(InFlightOf(l)) \in Nat
           /\ stateLanes[l].queuedBytes \in Nat
           /\ BytesOf(InFlightOf(l)) <= stateLanes[l].queuedBytes
<1> DEFINE lane == stateLanes[l]
<1>1. lane.queue \in Seq(StateFrames) /\ Accounted(lane.queue, lane.queuedBytes)
  BY InvParts DEF QueuesInv, QueueTypes, StateLane, StatesOK, StateLaneOK
<1>2. /\ lane.queuedBytes \in Nat
      /\ lane.queue # <<>> => lane.queue[1].size <= lane.queuedBytes
  <2>1. lane.queue # <<>> => 1 \in 1..Len(lane.queue) BY <1>1, EmptySeq
  <2> QED BY <1>1, <2>1, StateSize, AccountedBounds
<1>3. CASE InFlightOf(l) = <<>>
  BY <1>2, <1>3 DEF BytesOf
<1>4. CASE /\ InFlightOf(l) = <<activeDelivery>> /\ activeDelivery \in StateFrames
           /\ lane.queue # <<>> /\ lane.queue[1] = activeDelivery
  <2>1. BytesOf(InFlightOf(l)) = activeDelivery.size /\ activeDelivery.size \in Nat
    BY <1>4, StateSize DEF BytesOf
  <2> QED BY <1>2, <1>4, <2>1
<1> QED BY <1>3, <1>4, KeptState

LEMMA SendStateTogether ==
    ASSUME QueuesInv, StateTogether, NEW l \in StateLanes, NEW key \in Keys,
           NEW size \in StateSizes, SendState(l, key, size)
    PROVE  StateTogether'
<1> DEFINE n == Cardinality(SilencedStates)
           rest == WithoutKey(l, key)
<1>1. /\ QueueTypes /\ stateLanes \in [StateLanes -> StateLane] /\ stateBytes \in Int
      /\ n \in Nat /\ ResyncBytes \in Nat /\ MaxStateQueuedBytes \in Nat
      /\ stateBytes <= MaxStateQueuedBytes + ResyncBytes * n
      /\ ~terminalError /\ ~stateLanes[l].resyncPending
  BY InvParts, SilencedStatesFinite
     DEF QueuesInv, QueueTypes, OtherTypes, StateTogether, SendState
<1>2. SUFFICES stateBytes' <= MaxStateQueuedBytes + ResyncBytes * Cardinality(SilencedStates')
  BY DEF StateTogether
<1>3. CASE ~StateOverBound(l, rest, size) /\ QueueState(l, key, size, rest)
  <2>1. rest.dropped \in Int /\ size \in Nat
    BY WithoutKeyType, FramesAssumption DEF QueuesInv
  <2>2. stateBytes - rest.dropped + size <= MaxStateQueuedBytes
    <3>1. stateBytes - rest.dropped + size \in Int BY <1>1, <2>1
    <3> HIDE DEF rest
    <3> QED BY <1>1, <1>3, <3>1 DEF StateOverBound
  <2>3. stateBytes' = stateBytes + (size - rest.dropped) BY <1>3 DEF QueueState
  <2>4. ResyncBytes * Cardinality(SilencedStates') \in Nat BY SilencedStatesAfter
  <2> HIDE DEF rest, n
  <2> QED BY <1>1, <2>1, <2>2, <2>3, <2>4
<1>4. CASE CongestState(l)
  <2> DEFINE kept == InFlightOf(l)
             fits == ResyncBytes <= MaxStateQueuedBytes
             marker == IF fits THEN <<[class |-> "state_resync", lane |-> l,
                                       size |-> ResyncBytes]>>
                               ELSE <<>>
             bytes == BytesOf(kept) + BytesOf(marker)
  <2>1. /\ stateLanes' = [stateLanes EXCEPT
              ![l].queue = kept \o marker, ![l].queuedBytes = bytes, ![l].resyncPending = fits]
        /\ stateBytes' = stateBytes - stateLanes[l].queuedBytes + bytes
        /\ fits \in BOOLEAN
    BY <1>4 DEF CongestState
  <2>2. /\ BytesOf(kept) \in Nat /\ stateLanes[l].queuedBytes \in Nat
        /\ BytesOf(kept) <= stateLanes[l].queuedBytes
    BY <1>1, KeptStateWithin
  <2>3. BytesOf(marker) = IF fits THEN ResyncBytes ELSE 0 BY DEF BytesOf
  <2> HIDE DEF kept, marker
  <2>4. stateBytes' <= IF fits THEN stateBytes + ResyncBytes ELSE stateBytes
    BY <1>1, <2>1, <2>2, <2>3
  <2>5. /\ stateLanes'[l].resyncPending = fits
        /\ \A m \in StateLanes : m # l => stateLanes'[m] = stateLanes[m]
    <3> HIDE DEF bytes, fits
    <3> QED BY <1>1, <2>1 DEF StateLane
  <2>6. stateBytes' \in Int BY <1>1, <2>1, <2>2, <2>3
  <2>7. CASE fits
    <3>1. Cardinality(SilencedStates') = n + 1
      BY <1>1, <2>5, <2>7, SilencedStatesReplaced
    <3>2. stateBytes + ResyncBytes <= MaxStateQueuedBytes + ResyncBytes * (n + 1)
      <4> HIDE DEF n
      <4> QED BY <1>1, MarkerCounted
    <3>3. ResyncBytes * (n + 1) \in Nat BY <1>1
    <3>4. stateBytes' <= stateBytes + ResyncBytes BY <2>4, <2>7
    <3> DEFINE more == ResyncBytes * (n + 1)
    <3> HIDE DEF more, fits, n
    <3>5. stateBytes' <= MaxStateQueuedBytes + more
      BY <1>1, <2>6, <3>2, <3>3, <3>4 DEF more
    <3> QED BY <3>1, <3>5 DEF more
  <2>8. CASE ~fits
    <3>0. stateLanes[l].resyncPending = FALSE /\ stateLanes'[l].resyncPending = FALSE
      BY <1>1, <2>5, <2>8 DEF StateLane
    <3>1. Cardinality(SilencedStates') = n
      BY <1>1, <2>5, <3>0, SilencedStatesReplaced
    <3>2. stateBytes' <= stateBytes BY <2>4, <2>8
    <3> DEFINE same == ResyncBytes * n
    <3>3. same \in Nat BY <1>1
    <3> HIDE DEF same, fits, n
    <3>4. stateBytes' <= MaxStateQueuedBytes + same
      BY <1>1, <2>6, <3>2, <3>3 DEF same
    <3> QED BY <3>1, <3>4 DEF same
  <2> QED BY <2>7, <2>8
<1> QED BY <1>3, <1>4 DEF SendState

LEMMA CompleteStateTogether ==
    ASSUME QueuesInv, StateTogether, CompleteState(activeDelivery)
    PROVE  StateTogether'
<1> DEFINE l == activeDelivery.lane
           lane == stateLanes[l]
           n == Cardinality(SilencedStates)
<1>1. /\ activeDelivery \in StateFrames /\ l \in StateLanes
      /\ activeDelivery.size \in Nat /\ activeDelivery.size > 0
  BY StateFrameLane, StateSize DEF CompleteState
<1>2. /\ QueueTypes /\ stateLanes \in [StateLanes -> StateLane] /\ stateBytes \in Int
      /\ lane.queue \in Seq(StateFrames) /\ StateLaneOK(l, lane)
      /\ n \in Nat /\ ResyncBytes \in Nat /\ MaxStateQueuedBytes \in Nat
      /\ stateBytes <= MaxStateQueuedBytes + ResyncBytes * n
      /\ ResyncBytes * n \in Nat
  BY <1>1, InvParts, SilencedStatesFinite
     DEF QueuesInv, QueueTypes, OtherTypes, StatesOK, StateLane, StateTogether
<1>3. CASE UNCHANGED stateVars
  BY <1>3 DEF stateVars, StateTogether, SilencedStates
<1>4. CASE /\ lane.queue # <<>> /\ Head(lane.queue) = activeDelivery /\ Len(lane.queue) = 1
           /\ stateBytes' = stateBytes - activeDelivery.size
           /\ stateLanes' = [stateLanes EXCEPT ![l] = EmptyStateLane]
  <2>1. /\ ~stateLanes'[l].resyncPending
        /\ \A m \in StateLanes : m # l => stateLanes'[m] = stateLanes[m]
    BY <1>1, <1>2, <1>4 DEF EmptyStateLane
  <2>2. CASE lane.resyncPending
    <3>1. Cardinality(SilencedStates') = n - 1 /\ Cardinality(SilencedStates') \in Nat
      BY <1>1, <1>2, <2>1, <2>2, SilencedStatesReplaced
    <3>2. Last(lane.queue) = activeDelivery
      BY <1>2, <1>4, HeadTailProperties DEF Last
    <3>3. activeDelivery \in ResyncFrame BY <1>2, <2>2, <3>2 DEF StateLaneOK
    <3>4. activeDelivery.size = ResyncBytes BY <3>3 DEF ResyncFrame
    <3> HIDE DEF n
    <3>5. n > 0 BY <1>2, <3>1
    <3>6. stateBytes - ResyncBytes <= MaxStateQueuedBytes + ResyncBytes * (n - 1)
      BY <1>2, <3>5, MarkerCounted
    <3> QED BY <1>4, <3>1, <3>4, <3>6 DEF StateTogether
  <2>3. CASE ~lane.resyncPending
    <3>0. lane.resyncPending \in BOOLEAN /\ stateLanes'[l].resyncPending = FALSE
      BY <1>1, <1>2, <1>4 DEF StateLane, EmptyStateLane
    <3>1. Cardinality(SilencedStates') = n
      BY <1>1, <1>2, <2>1, <2>3, <3>0, SilencedStatesReplaced
    <3> DEFINE same == ResyncBytes * n
    <3> HIDE DEF same, n, l, lane
    <3>2. stateBytes' <= MaxStateQueuedBytes + same BY <1>1, <1>2, <1>4 DEF same
    <3> QED BY <3>1, <3>2 DEF StateTogether, same
  <2> QED BY <2>2, <2>3
<1>5. CASE /\ stateBytes' = stateBytes - activeDelivery.size
           /\ stateLanes' = [stateLanes EXCEPT ![l].queue = Tail(@),
                                  ![l].queuedBytes = @ - activeDelivery.size]
  <2>1. /\ stateLanes'[l].resyncPending = lane.resyncPending
        /\ \A m \in StateLanes : m # l => stateLanes'[m] = stateLanes[m]
    BY <1>1, <1>2, <1>5 DEF StateLane
  <2>2. Cardinality(SilencedStates') = n
    BY <1>1, <1>2, <2>1, SilencedStatesReplaced
  <2> DEFINE same == ResyncBytes * n
  <2> HIDE DEF same, n, l, lane
  <2>3. stateBytes' <= MaxStateQueuedBytes + same BY <1>1, <1>2, <1>5 DEF same
  <2> QED BY <2>2, <2>3 DEF StateTogether, same
<1> QED BY <1>3, <1>4, <1>5 DEF CompleteState

LEMMA FailedTogether == ASSUME Failed PROVE StateTogether'
<1>1. stateBytes' = 0 BY DEF Failed
<1>2. MaxStateQueuedBytes \in Nat /\ ResyncBytes * Cardinality(SilencedStates') \in Nat
  BY SilencedStatesFinite, SilencedStatesAfter
<1> DEFINE product == ResyncBytes * Cardinality(SilencedStates')
<1> HIDE DEF product
<1>3. stateBytes' <= MaxStateQueuedBytes + product BY <1>1, <1>2 DEF product
<1> QED BY <1>3 DEF StateTogether, product

\* Every other step leaves the state lanes alone.
LEMMA NextTogether ==
    ASSUME QueuesInv, StateTogether, [Next]_vars
    PROVE  StateTogether'
<1>0. ASSUME UNCHANGED stateVars PROVE StateTogether'
  BY <1>0 DEF stateVars, StateTogether, SilencedStates
<1>1. CASE \E size \in ControlSizes : SendControl(size) \/ OverflowControl(size)
  BY <1>0, <1>1, FailedTogether DEF SendControl, OverflowControl
<1>2. CASE \E l \in StateLanes, key \in Keys, size \in StateSizes : SendState(l, key, size)
  BY <1>2, SendStateTogether
<1>3. CASE \E l \in TerminalLanes, range \in Ranges : SendTerminal(l, range)
  <2>1. PICK l \in TerminalLanes, range \in Ranges : SendTerminal(l, range) BY <1>3
  <2>2. ASSUME NEW lane, CongestTerminal(l, lane, range)
        PROVE  Failed \/ UNCHANGED stateVars
    BY <2>2, Zenon DEF CongestTerminal
  <2>3. Failed \/ UNCHANGED stateVars
    BY <2>1, <2>2 DEF SendTerminal, SendOutput, SendOutOfOrder
  <2> QED BY <1>0, <2>3, FailedTogether
<1>4. CASE \E l \in TerminalLanes :
              \/ \E position \in Positions : AcknowledgeTerminal(l, position)
              \/ UnconfirmedAges(l)
              \/ ReleaseTerminal(l)
  BY <1>0, <1>4 DEF AcknowledgeTerminal, UnconfirmedAges, ReleaseTerminal
<1>5. CASE Writable \/ Thrown \/ TransportCloses \/ WhenIdle \/ UNCHANGED vars
  BY <1>0, <1>5 DEF Writable, Thrown, TransportCloses, WhenIdle, vars
<1>6. CASE Accepted \/ Refused
  <2>1. CompleteDelivery BY <1>6 DEF Accepted, Refused
  <2>2. CompleteState(activeDelivery) \/ UNCHANGED stateVars
    BY <2>1 DEF CompleteDelivery, CompleteControl, CompleteTerminal
  <2> QED BY <1>0, <2>2, CompleteStateTogether
<1>7. CASE DrainRejected \/ Close BY <1>7, FailedTogether DEF DrainRejected, Close
<1> QED BY <1>1, <1>2, <1>3, <1>4, <1>5, <1>6, <1>7 DEF Next

THEOREM PumpStateTogether == Spec => []StateTogether
<1>1. Init => StateTogether
  <2> SUFFICES ASSUME Init PROVE StateTogether OBVIOUS
  <2>1. stateBytes = 0 BY DEF Init
  <2>2. MaxStateQueuedBytes \in Nat /\ ResyncBytes * Cardinality(SilencedStates) \in Nat
    BY SilencedStatesFinite
  <2> DEFINE product == ResyncBytes * Cardinality(SilencedStates)
  <2> HIDE DEF product
  <2>3. stateBytes <= MaxStateQueuedBytes + product BY <2>1, <2>2 DEF product
  <2> QED BY <2>3 DEF StateTogether, product
<1>2. QueuesInv /\ StateTogether /\ [Next]_vars => StateTogether' BY NextTogether
<1> QED BY <1>1, <1>2, PumpQueuesInvariant, PTL DEF Spec

\* send, sendState and sendTerminal refuse, supersede or collapse before a
\* named limit of the pump is passed: each lane's frames and bytes and those of
\* all state lanes and of all terminal lanes, counting apart the marker that a
\* collapsed lane is left with.
THEOREM PumpQueuesBounded == Spec => []QueuesBounded
<1>1. QueuesInv /\ StateTogether => QueuesBounded
  <2> SUFFICES ASSUME QueuesInv, StateTogether PROVE QueuesBounded OBVIOUS
  <2>1. ControlOK /\ StatesOK /\ TerminalsOK BY DEF QueuesInv
  <2>2. \A l \in StateLanes : StateWithin(stateLanes[l])
    BY <2>1 DEF StatesOK, StateLaneOK
  <2>3. \A l \in TerminalLanes :
           /\ TerminalWithin(terminalLanes[l])
           /\ ~terminalLanes[l].suppressed => InWindow(terminalLanes[l])
    BY <2>1 DEF TerminalsOK, TerminalLaneOK
  <2> QED BY <2>1, <2>2, <2>3
          DEF QueuesBounded, ControlOK, TerminalsOK, InWindow, StateWithin, TerminalWithin,
              StateTogether
<1> QED BY <1>1, PumpQueuesInvariant, PumpStateTogether, PTL

\* completeDelivery finds the frame it is told of at the head of its queue until
\* the pump fails, so no accepted frame is left queued to be sent again.
THEOREM PumpInFlightHeadsItsQueue == Spec => []InFlightHeadsItsQueue
<1>1. QueuesInv => InFlightHeadsItsQueue
  <2> SUFFICES ASSUME QueuesInv, activeDelivery # NoFrame, ~terminalError
               PROVE  \/ controlQueue # <<>> /\ Head(controlQueue) = activeDelivery
                      \/ \E l \in StateLanes :
                            /\ stateLanes[l].queue # <<>>
                            /\ Head(stateLanes[l].queue) = activeDelivery
                      \/ \E l \in TerminalLanes :
                            /\ terminalLanes[l].queue # <<>>
                            /\ Head(terminalLanes[l].queue) = activeDelivery
    BY DEF InFlightHeadsItsQueue
  <2>1. activeDelivery \in ControlFrame \cup StateFrames \cup TerminalFrames
    BY InvParts DEF QueuesInv, DrainTypes, Frames
  <2>2. ActiveHeads /\ QueueTypes /\ ActiveContinues BY InvParts DEF QueuesInv
  <2>3. CASE activeDelivery \in ControlFrame
    BY <2>2, <2>3 DEF ActiveHeads
  <2>4. CASE activeDelivery \in StateFrames
    BY <2>2, <2>4, StateFrameLane DEF ActiveHeads
  <2>5. CASE activeDelivery \in TerminalFrames
    <3> DEFINE l == activeDelivery.lane
    <3>1. l \in TerminalLanes
      BY <2>5 DEF TerminalFrames, OutputFrame, SkipFrame, TerminalFrame
    <3>2. terminalLanes[l].queue # <<>> /\ terminalLanes[l].queue[1] = activeDelivery
      BY <2>2, <2>5 DEF ActiveContinues
    <3>3. terminalLanes[l].queue \in Seq(TerminalFrames)
      BY <2>2, <3>1 DEF QueueTypes, TerminalLane
    <3> QED BY <3>1, <3>2, <3>3, HeadTailProperties
  <2> QED BY <2>1, <2>3, <2>4, <2>5
<1> QED BY <1>1, PumpQueuesInvariant, PTL

\* A lane whose resyncPending or suppressed flag drops what it is sent has its
\* marker queued last, or delivered it, or is being released.
THEOREM PumpSilenceIsAnnounced == Spec => []SilenceIsAnnounced
<1>1. QueuesInv => SilenceIsAnnounced
  BY DEF QueuesInv, StatesOK, StateLaneOK, TerminalsOK, TerminalLaneOK, Announced,
         SilenceIsAnnounced
<1> QED BY <1>1, PumpQueuesInvariant, PTL

-----------------------------------------------------------------------------
(* The pump implements DeliveryScheduler. *)

\* The state functions OutboundScheduling gives DeliveryScheduler.
Silenced == {l \in StateLanes : stateLanes[l].resyncPending}
                \cup {l \in TerminalLanes : terminalLanes[l].suppressed}
Releasing == {l \in TerminalLanes : terminalLanes[l].releasePending}
InFlight ==
    IF terminalError \/ activeDelivery = NoFrame THEN <<"none">>
    ELSE IF activeDelivery \in ControlFrame THEN <<"control">>
    ELSE IF activeDelivery \in StateFrames THEN <<"state", activeDelivery.lane>>
    ELSE <<"terminal", activeDelivery.lane>>
Status ==
    IF terminalError THEN "failed" ELSE IF rejection = "none" THEN "live" ELSE "throwing"

\* A failed pump holds nothing, and no rejection of it is pending.
FailedEmpty ==
    terminalError =>
        /\ controlQueue = <<>>
        /\ \A l \in StateLanes : stateLanes[l].queue = <<>>
        /\ rejection = "none"

SchedulingInv == QueuesInv /\ FailedEmpty

LEMMA Targets ==
    /\ <<"none">> # <<"control">>
    /\ \A l : <<"none">> # <<"state", l>> /\ <<"none">> # <<"terminal", l>>
    /\ \A l : <<"control">> # <<"state", l>> /\ <<"control">> # <<"terminal", l>>
    /\ \A l, m : <<"state", l>> # <<"terminal", m>>
    /\ \A l, m : <<"state", l>> = <<"state", m>> => l = m
    /\ \A l, m : <<"terminal", l>> = <<"terminal", m>> => l = m
<1>1. <<"none">> # <<"control">> OBVIOUS
<1>2. \A l : /\ <<"none">> # <<"state", l>> /\ <<"none">> # <<"terminal", l>>
             /\ <<"control">> # <<"state", l>> /\ <<"control">> # <<"terminal", l>>
  OBVIOUS
<1>3. \A l, m : <<"state", l>> # <<"terminal", m>>
  OBVIOUS
<1>4. \A l, m : /\ <<"state", l>> = <<"state", m>> => l = m
                /\ <<"terminal", l>> = <<"terminal", m>> => l = m
  OBVIOUS
<1> QED BY <1>1, <1>2, <1>3, <1>4

LEMMA LanesMapped ==
    ASSUME NEW order, NEW frames, NEW cursor
    PROVE  /\ Scheduler!RoundRobin(order, frames, cursor) = RoundRobin(order, frames, cursor)
           /\ Scheduler!AdvanceCursor(order, frames, cursor) = AdvanceCursor(order, frames, cursor)
           /\ \A l : /\ Scheduler!InsertLane(order, l) = InsertLane(order, l)
                     /\ Scheduler!DeleteLane(order, l) = DeleteLane(order, l)
<1>1. \A S : Scheduler!Cardinality(S) = Cardinality(S)
  BY Zenon DEF Scheduler!Cardinality, Cardinality, Scheduler!IsFiniteSet, IsFiniteSet
<1>2. Scheduler!RoundRobin(order, frames, cursor) = RoundRobin(order, frames, cursor)
  BY <1>1 DEF Scheduler!RoundRobin, RoundRobin, Scheduler!Ready, Ready
<1>3. Scheduler!AdvanceCursor(order, frames, cursor) = AdvanceCursor(order, frames, cursor)
  BY <1>1 DEF Scheduler!AdvanceCursor, AdvanceCursor, Scheduler!Ready, Ready
<1>4. \A l : Scheduler!InsertLane(order, l) = InsertLane(order, l)
  BY DEF Scheduler!InsertLane, InsertLane
<1>5. \A l : Scheduler!DeleteLane(order, l) = DeleteLane(order, l)
  BY DEF Scheduler!DeleteLane, DeleteLane
<1> QED BY <1>2, <1>3, <1>4, <1>5

-----------------------------------------------------------------------------
(* The queue the frame in the transport heads. *)

LEMMA InFlightIs ==
    ~terminalError =>
        /\ activeDelivery = NoFrame => InFlight = <<"none">>
        /\ activeDelivery \in ControlFrame => InFlight = <<"control">>
        /\ activeDelivery \in StateFrames => InFlight = <<"state", activeDelivery.lane>>
        /\ activeDelivery \in TerminalFrames => InFlight = <<"terminal", activeDelivery.lane>>
BY FrameClasses DEF InFlight

LEMMA TargetIs ==
    ASSUME Inv, ~terminalError, NEW l
    PROVE  /\ InFlight = <<"none">> <=> activeDelivery = NoFrame
           /\ InFlight = <<"none">> <=> phase = "idle"
           /\ InFlight = <<"control">> <=> activeDelivery \in ControlFrame
           /\ InFlight = <<"state", l>> <=>
                 activeDelivery \in StateFrames /\ activeDelivery.lane = l
           /\ InFlight = <<"terminal", l>> <=>
                 activeDelivery \in TerminalFrames /\ activeDelivery.lane = l
<1>1. \/ activeDelivery = NoFrame
      \/ activeDelivery \in ControlFrame
      \/ activeDelivery \in StateFrames
      \/ activeDelivery \in TerminalFrames
  BY DEF Inv, TypeOK, Frames
<1>2. activeDelivery = NoFrame <=> phase = "idle"
  BY NoFrameAssumption DEF Inv, Running
<1>3. CASE activeDelivery = NoFrame
  BY <1>2, <1>3, InFlightIs, FrameClasses, Targets
<1>4. CASE activeDelivery \in ControlFrame
  BY <1>2, <1>4, InFlightIs, FrameClasses, Targets
<1>5. CASE activeDelivery \in StateFrames
  BY <1>2, <1>5, InFlightIs, FrameClasses, Targets
<1>6. CASE activeDelivery \in TerminalFrames
  BY <1>2, <1>6, InFlightIs, FrameClasses, Targets
<1> QED BY <1>1, <1>3, <1>4, <1>5, <1>6

\* The head of a lane is a frame of that lane.
StateHeads ==
    \A l \in StateLanes : stateLanes[l].queue # <<>> =>
        /\ Head(stateLanes[l].queue) \in StateFrames
        /\ Head(stateLanes[l].queue).lane = l
TerminalHeads ==
    \A l \in TerminalLanes : terminalLanes[l].queue # <<>> =>
        /\ Head(terminalLanes[l].queue) \in TerminalFrames
        /\ Head(terminalLanes[l].queue).lane = l

LEMMA LaneHeads ==
    /\ QueueTypes /\ StatesOK => StateHeads
    /\ QueueTypes /\ LanesOK => TerminalHeads
<1>1. ASSUME QueueTypes, StatesOK, NEW l \in StateLanes, stateLanes[l].queue # <<>>
      PROVE  /\ Head(stateLanes[l].queue) \in StateFrames
             /\ Head(stateLanes[l].queue).lane = l
  <2> DEFINE queue == stateLanes[l].queue
  <2>1. queue \in Seq(StateFrames) BY <1>1 DEF QueueTypes, StateLane
  <2>2. Head(queue) = queue[1] /\ queue[1] \in StateFrames /\ 1 \in DOMAIN queue
    BY <1>1, <2>1, HeadTailProperties
  <2> QED BY <1>1, <2>2 DEF StatesOK, StateLaneOK
<1>2. ASSUME QueueTypes, LanesOK, NEW l \in TerminalLanes, terminalLanes[l].queue # <<>>
      PROVE  /\ Head(terminalLanes[l].queue) \in TerminalFrames
             /\ Head(terminalLanes[l].queue).lane = l
  <2> DEFINE queue == terminalLanes[l].queue
  <2>1. queue \in Seq(TerminalFrames) BY <1>2 DEF QueueTypes, TerminalLane
  <2>2. Head(queue) = queue[1] /\ queue[1] \in TerminalFrames /\ 1 \in DOMAIN queue
    BY <1>2, <2>1, HeadTailProperties
  <2> QED BY <1>2, <2>2 DEF LanesOK, Chain
<1> QED BY <1>1, <1>2 DEF StateHeads, TerminalHeads

\* A queue is empty where the scheduler counts no frame.
DepthsOK ==
    /\ Len(controlQueue) \in Nat
    /\ StateDepth \in [StateLanes -> Nat] /\ TerminalDepth \in [TerminalLanes -> Nat]
    /\ \A l \in StateLanes : StateDepth[l] = Len(stateLanes[l].queue)
    /\ \A l \in TerminalLanes : TerminalDepth[l] = Len(terminalLanes[l].queue)
    /\ ControlWaits <=> Len(controlQueue) > 0
    /\ ~ControlWaits <=> Len(controlQueue) = 0
    /\ ~StateReady <=> \A l \in StateLanes : StateDepth[l] = 0
    /\ ~TerminalReady <=> \A l \in TerminalLanes : TerminalDepth[l] = 0

LEMMA Depths == QueueTypes => DepthsOK
<1> SUFFICES ASSUME QueueTypes PROVE DepthsOK
  OBVIOUS
<1>1. /\ Len(controlQueue) \in Nat
      /\ controlQueue = <<>> <=> Len(controlQueue) = 0
  BY EmptySeq DEF QueueTypes
<1>2. \A l \in StateLanes : /\ Len(stateLanes[l].queue) \in Nat
                            /\ stateLanes[l].queue = <<>> <=> Len(stateLanes[l].queue) = 0
  <2> TAKE l \in StateLanes
  <2>1. stateLanes[l].queue \in Seq(StateFrames) BY DEF QueueTypes, StateLane
  <2> QED BY <2>1, EmptySeq
<1>3. \A l \in TerminalLanes :
          /\ Len(terminalLanes[l].queue) \in Nat
          /\ terminalLanes[l].queue = <<>> <=> Len(terminalLanes[l].queue) = 0
  <2> TAKE l \in TerminalLanes
  <2>1. terminalLanes[l].queue \in Seq(TerminalFrames) BY DEF QueueTypes, TerminalLane
  <2> QED BY <2>1, EmptySeq
<1>4. /\ StateDepth \in [StateLanes -> Nat]
      /\ \A l \in StateLanes : StateDepth[l] = Len(stateLanes[l].queue)
  BY <1>2 DEF StateDepth
<1>5. /\ TerminalDepth \in [TerminalLanes -> Nat]
      /\ \A l \in TerminalLanes : TerminalDepth[l] = Len(terminalLanes[l].queue)
  BY <1>3 DEF TerminalDepth
<1>6. /\ ControlWaits <=> Len(controlQueue) > 0
      /\ ~ControlWaits <=> Len(controlQueue) = 0
  BY <1>1 DEF ControlWaits
<1>7. ~StateReady <=> \A l \in StateLanes : StateDepth[l] = 0
  BY <1>2, <1>4 DEF StateReady
<1>8. ~TerminalReady <=> \A l \in TerminalLanes : TerminalDepth[l] = 0
  BY <1>3, <1>5 DEF TerminalReady
<1> QED BY <1>1, <1>4, <1>5, <1>6, <1>7, <1>8 DEF DepthsOK

LEMMA ResumeSchedules ==
    ASSUME DrainTypes, QueueTypes', StatesOK', LanesOK', ~terminalError', Resume
    PROVE  Scheduler!NextDelivery(Len(controlQueue)', stateOrder', StateDepth',
                                  terminalOrder', TerminalDepth')
<1>1. DepthsOK' BY Depths, PTL
<1>2. StateHeads' /\ TerminalHeads' BY LaneHeads, PTL
<1>3. /\ controlRun \in Nat /\ MaxConsecutiveControl \in Nat
      /\ stateCursor \in Nat /\ terminalCursor \in Nat
  BY LimitsAssumption DEF DrainTypes
<1>4. \/ Len(controlQueue)' = 0
      \/ controlRun >= MaxConsecutiveControl
      \/ ControlWaits' /\ ControlHasTurn
  BY <1>1, <1>3 DEF DepthsOK, ControlHasTurn
<1>5. CASE TakeControl
  <2>1. Head(controlQueue') \in ControlFrame
    BY <1>5, HeadTailProperties DEF QueueTypes, TakeControl, ControlWaits
  <2>2. InFlight' = <<"control">>
    BY <1>5, <2>1, FrameClasses DEF InFlight, TakeControl
  <2>3. /\ Len(controlQueue)' > 0
        /\ \/ /\ \A l \in StateLanes : StateDepth'[l] = 0
              /\ \A l \in TerminalLanes : TerminalDepth'[l] = 0
           \/ controlRun < MaxConsecutiveControl
    BY <1>1, <1>5 DEF TakeControl, DepthsOK, LanesWait, ControlHasTurn
  <2>4. Scheduler!TakeControl(Len(controlQueue)', StateDepth', TerminalDepth')
    BY <1>5, <2>2, <2>3 DEF Scheduler!TakeControl, Scheduler!Control, TakeControl, InFlight
  <2> QED BY <2>4 DEF Scheduler!NextDelivery
<1>6. CASE TakeState
  <2>1. PICK l \in RoundRobin(stateOrder', StateDepth', stateCursor) :
             activeDelivery' = Head(stateLanes'[l].queue)
    BY <1>6 DEF TakeState
  <2>2. l \in StateLanes /\ StateDepth'[l] > 0
    BY <2>1, ReadyLane DEF QueueTypes
  <2>3. stateLanes'[l].queue # <<>>
    BY <2>2, <1>1 DEF DepthsOK
  <2>4. InFlight' = <<"state", l>>
    BY <1>2, <2>1, <2>2, <2>3, FrameClasses DEF StateHeads, InFlight
  <2>5. Scheduler!ControlYields(Len(controlQueue)')
    BY <1>4, <1>6 DEF TakeState, Scheduler!ControlYields
  <2>6. l \in Scheduler!RoundRobin(stateOrder', StateDepth', stateCursor)
    BY <2>1, LanesMapped
  <2>7. /\ controlRun' = 0
        /\ stateCursor' = Scheduler!AdvanceCursor(stateOrder', StateDepth', stateCursor)
        /\ UNCHANGED terminalCursor
    BY <1>6, LanesMapped DEF TakeState
  <2>8. Scheduler!TakeState(Len(controlQueue)', stateOrder', StateDepth')
    BY <2>4, <2>5, <2>6, <2>7 DEF Scheduler!TakeState, Scheduler!State, InFlight
  <2> QED BY <2>8 DEF Scheduler!NextDelivery
<1>7. CASE TakeTerminal
  <2>1. PICK l \in RoundRobin(terminalOrder', TerminalDepth', terminalCursor) :
             activeDelivery' = Head(terminalLanes'[l].queue)
    BY <1>7 DEF TakeTerminal
  <2>2. l \in TerminalLanes /\ TerminalDepth'[l] > 0
    BY <2>1, ReadyLane DEF QueueTypes
  <2>3. terminalLanes'[l].queue # <<>>
    BY <2>2, <1>1 DEF DepthsOK
  <2>4. InFlight' = <<"terminal", l>>
    BY <1>2, <2>1, <2>2, <2>3, FrameClasses DEF TerminalHeads, InFlight
  <2>5. Scheduler!ControlYields(Len(controlQueue)')
    BY <1>4, <1>7 DEF TakeTerminal, Scheduler!ControlYields
  <2>6. l \in Scheduler!RoundRobin(terminalOrder', TerminalDepth', terminalCursor)
    BY <2>1, LanesMapped
  <2>7. /\ controlRun' = 0
        /\ terminalCursor' = Scheduler!AdvanceCursor(terminalOrder', TerminalDepth', terminalCursor)
        /\ UNCHANGED stateCursor
        /\ \A m \in StateLanes : StateDepth'[m] = 0
    BY <1>7, <1>1, LanesMapped DEF TakeTerminal, DepthsOK
  <2>8. Scheduler!TakeTerminal(Len(controlQueue)', StateDepth', terminalOrder', TerminalDepth')
    BY <2>4, <2>5, <2>6, <2>7 DEF Scheduler!TakeTerminal, Scheduler!Terminal, InFlight
  <2> QED BY <2>8 DEF Scheduler!NextDelivery
<1>8. CASE ~QueuedFrames' /\ activeDelivery' = NoFrame
           /\ UNCHANGED <<controlRun, stateCursor, terminalCursor>>
  <2>1. /\ Len(controlQueue)' = 0
        /\ \A l \in StateLanes : StateDepth'[l] = 0
        /\ \A l \in TerminalLanes : TerminalDepth'[l] = 0
    BY <1>1, <1>8 DEF QueuedFrames, ControlWaits, DepthsOK
  <2>2. InFlight' = <<"none">>
    BY <1>8 DEF InFlight
  <2>3. Scheduler!TakeNothing(Len(controlQueue)', StateDepth', TerminalDepth')
    BY <1>8, <2>1, <2>2 DEF Scheduler!TakeNothing, Scheduler!Nobody, InFlight
  <2> QED BY <2>3 DEF Scheduler!NextDelivery
<1> QED BY <1>5, <1>6, <1>7, <1>8 DEF Resume

LEMMA InvNow == SchedulingInv => Inv /\ QueueTypes /\ StatesOK /\ LanesOK
BY InvParts DEF SchedulingInv, QueuesInv

LEMMA StartSchedules ==
    ASSUME Inv, ~terminalError, QueueTypes', StatesOK', LanesOK', ~terminalError', Start
    PROVE  Scheduler!Start
<1>1. InFlight = <<"none">> <=> phase = "idle" BY TargetIs
<1>2. CASE phase = "idle"
  <2>1. DrainTypes /\ Resume BY <1>2, InvParts DEF Start
  <2>2. Scheduler!NextDelivery(Len(controlQueue)', stateOrder', StateDepth',
                               terminalOrder', TerminalDepth')
    BY <2>1, ResumeSchedules
  <2> QED BY <1>1, <1>2, <2>2 DEF Scheduler!Start, Scheduler!Nobody, InFlight
<1>3. CASE phase # "idle"
  <2>1. UNCHANGED <<activeDelivery, controlRun, stateCursor, terminalCursor>>
    BY <1>3 DEF Start, drainVars
  <2>2. InFlight' = InFlight BY <2>1 DEF InFlight
  <2>3. UNCHANGED Scheduler!choice
    BY <2>1, <2>2 DEF Scheduler!choice, InFlight
  <2> QED BY <1>1, <1>3, <2>3 DEF Scheduler!Start, Scheduler!Nobody, InFlight
<1> QED BY <1>2, <1>3

LEMMA FailedSchedules ==
    ASSUME Failed, ~terminalError
    PROVE  Scheduler!Fail
<1>1. /\ terminalError' /\ controlQueue' = <<>> /\ stateOrder' = <<>> /\ terminalOrder' = <<>>
      /\ stateLanes' = [l \in StateLanes |-> EmptyStateLane]
      /\ terminalLanes' = [l \in TerminalLanes |-> NoTerminalLane]
      /\ UNCHANGED <<controlRun, stateCursor, terminalCursor>>
  BY DEF Failed
<1>2. /\ NoTerminalLane.queue = <<>> /\ NoTerminalLane.suppressed = FALSE
      /\ NoTerminalLane.releasePending = FALSE
  BY DEF NoTerminalLane, NewTerminalLane
<1>3. Len(<<>>) = 0 OBVIOUS
<1>4. Len(controlQueue)' = 0 BY <1>1, <1>3
<1>5. StateDepth' = [l \in StateLanes |-> 0]
  BY <1>1, <1>3 DEF StateDepth, EmptyStateLane
<1>6. TerminalDepth' = [l \in TerminalLanes |-> 0]
  BY <1>1, <1>2, <1>3 DEF TerminalDepth
<1>7. Silenced' = {} BY <1>1, <1>2 DEF Silenced, EmptyStateLane
<1>8. Releasing' = {} BY <1>1, <1>2 DEF Releasing
<1>9. InFlight' = <<"none">> /\ Status' = "failed" /\ Status # "failed"
  BY <1>1 DEF InFlight, Status
<1> QED BY <1>1, <1>4, <1>5, <1>6, <1>7, <1>8, <1>9
        DEF Scheduler!Fail, Scheduler!Nobody, Silenced, Releasing, InFlight, Status

LEMMA SendControlSchedules ==
    ASSUME SchedulingInv, SchedulingInv', NEW size \in ControlSizes, SendControl(size)
    PROVE  Scheduler!SendControl
<1>1. /\ Inv /\ ~terminalError /\ ~terminalError'
      /\ QueueTypes' /\ StatesOK' /\ LanesOK'
  <2>1. /\ Inv /\ QueueTypes' /\ StatesOK' /\ LanesOK' BY InvNow, PTL
  <2> QED BY <2>1 DEF SendControl, failVars
<1>2. Scheduler!Start BY <1>1, StartSchedules DEF SendControl
<1> DEFINE frame == [class |-> "control", size |-> size]
<1>3. frame \in ControlFrame BY DEF ControlFrame
<1>4. /\ controlQueue \in Seq(ControlFrame)
      /\ controlQueue' = Append(controlQueue, frame)
      /\ ~(Len(controlQueue) >= MaxQueuedFrames)
  BY <1>1, InvParts DEF SendControl, QueueTypes, ControlOverBound
<1> HIDE DEF frame
<1>5. Len(controlQueue') = Len(controlQueue) + 1 /\ Len(controlQueue) \in Nat
  BY <1>3, <1>4, AppendProperties
<1>6. Len(controlQueue) < MaxQueuedFrames
  BY <1>4, <1>5, LimitsAssumption
<1>7. UNCHANGED <<stateOrder, stateLanes, terminalOrder, terminalLanes, terminalError, rejection>>
  BY DEF SendControl, stateVars, terminalVars, failVars
<1>8. UNCHANGED <<stateOrder, StateDepth, terminalOrder, TerminalDepth, Silenced, Releasing,
                  Status>>
  BY <1>7 DEF StateDepth, TerminalDepth, Silenced, Releasing, Status
<1>9. Status # "failed" BY <1>1 DEF Status
<1> QED BY <1>2, <1>5, <1>6, <1>8, <1>9
        DEF Scheduler!SendControl, Silenced, Releasing, Status

\* Which frames congestion and release keep: the one in the transport.
LEMMA KeptInFlight ==
    ASSUME Inv, ~terminalError, NEW l
    PROVE  /\ Len(InFlightOf(l)) =
                 IF InFlight = <<"state", l>> \/ InFlight = <<"terminal", l>> THEN 1 ELSE 0
           /\ InFlightOf(l) = <<>> \/ InFlightOf(l) = <<activeDelivery>>
           /\ l \in StateLanes => InFlight # <<"terminal", l>>
           /\ l \in TerminalLanes => InFlight # <<"state", l>>
<1>1. /\ InFlight = <<"state", l>> <=>
            activeDelivery \in StateFrames /\ activeDelivery.lane = l
      /\ InFlight = <<"terminal", l>> <=>
            activeDelivery \in TerminalFrames /\ activeDelivery.lane = l
  BY TargetIs
<1>2. activeDelivery \in Frames \ ControlFrame <=>
         activeDelivery \in StateFrames \cup TerminalFrames
  BY FrameClasses DEF Frames
<1>3. Len(<<>>) = 0 /\ Len(<<activeDelivery>>) = 1 OBVIOUS
<1>4. /\ activeDelivery \in StateFrames => activeDelivery.lane \in StateLanes
      /\ activeDelivery \in TerminalFrames => activeDelivery.lane \in TerminalLanes
  BY StateFrameLane DEF TerminalFrames, OutputFrame, SkipFrame, TerminalFrame
<1> QED BY <1>1, <1>2, <1>3, <1>4, FramesAssumption DEF InFlightOf

\* The queue a subscription event joins: at most one frame shorter, and never
\* without the frame in the transport.
LEMMA WithoutKeyLen ==
    ASSUME SchedulingInv, ~terminalError, NEW l \in StateLanes, NEW key \in Keys
    PROVE  LET rest == WithoutKey(l, key).queue
               queue == stateLanes[l].queue
           IN  /\ rest \in Seq(StateFrames)
               /\ Len(rest) = Len(queue) \/ Len(rest) = Len(queue) - 1
               /\ InFlight = <<"state", l>> => Len(rest) >= 1
<1> DEFINE rest == WithoutKey(l, key).queue
           queue == stateLanes[l].queue
           at == Superseded(l, key)
           i == CHOOSE j \in at : TRUE
<1>1. QueuesInv /\ Inv /\ QueueTypes BY InvNow DEF SchedulingInv
<1>2. /\ rest \in Seq(StateFrames)
      /\ queue # <<>> /\ queue[1] = activeDelivery => rest # <<>>
  BY <1>1, WithoutKeyOK
<1>3. queue \in Seq(StateFrames) /\ Len(queue) \in Nat
  BY <1>1 DEF QueueTypes, StateLane
<1>4. Len(rest) = Len(queue) \/ Len(rest) = Len(queue) - 1
  <2>1. CASE at = {}
    BY <2>1 DEF WithoutKey
  <2>2. CASE at # {}
    <3>1. i \in 1..Len(queue) BY <2>2, <1>3 DEF Superseded
    <3>2. rest = SubSeq(queue, 1, i - 1) \o SubSeq(queue, i + 1, Len(queue))
      BY <2>2 DEF WithoutKey
    <3> HIDE DEF i, queue, rest
    <3>3. /\ i \in Nat /\ 1 <= i /\ i <= Len(queue)
          /\ i - 1 \in 1..Len(queue) \/ i - 1 = 0
      BY <3>1, <1>3
    <3>4. /\ SubSeq(queue, 1, i - 1) \in Seq(StateFrames)
          /\ Len(SubSeq(queue, 1, i - 1)) = i - 1
      BY <3>3, <1>3, SubSeqProperties
    <3>5. /\ SubSeq(queue, i + 1, Len(queue)) \in Seq(StateFrames)
          /\ Len(SubSeq(queue, i + 1, Len(queue))) = Len(queue) - i
      BY <3>3, <1>3, SubSeqProperties
    <3>6. Len(rest) = (i - 1) + (Len(queue) - i)
      BY <3>2, <3>4, <3>5, ConcatProperties
    <3> QED BY <3>3, <3>6, <1>3
  <2> QED BY <2>1, <2>2
<1>5. ASSUME InFlight = <<"state", l>> PROVE Len(rest) >= 1
  <2>1. activeDelivery \in StateFrames /\ activeDelivery.lane = l BY <1>1, <1>5, TargetIs
  <2>2. queue # <<>> /\ Head(queue) = activeDelivery
    BY <1>1, <2>1 DEF QueuesInv, ActiveHeads
  <2>3. queue[1] = activeDelivery BY <1>3, <2>2, HeadTailProperties
  <2>4. rest # <<>> BY <1>2, <2>2, <2>3
  <2> HIDE DEF rest
  <2> QED BY <1>2, <2>4, EmptySeq
<1> QED BY <1>2, <1>4, <1>5

\* A step that changes one lane.
LEMMA StateLaneReplaced ==
    ASSUME QueueTypes, QueueTypes', NEW l \in StateLanes, UNCHANGED terminalLanes,
           \A m \in StateLanes : m # l => stateLanes'[m] = stateLanes[m]
    PROVE  /\ StateDepth' = [StateDepth EXCEPT ![l] = Len(stateLanes'[l].queue)]
           /\ UNCHANGED <<TerminalDepth, Releasing>>
           /\ stateLanes'[l].resyncPending = stateLanes[l].resyncPending => Silenced' = Silenced
           /\ stateLanes'[l].resyncPending => Silenced' = Silenced \cup {l}
           /\ ~stateLanes'[l].resyncPending => Silenced' = Silenced \ {l}
<1>1. StateDepth' = [StateDepth EXCEPT ![l] = Len(stateLanes'[l].queue)]
  BY DEF StateDepth
<1>2. UNCHANGED <<TerminalDepth, Releasing>> BY DEF TerminalDepth, Releasing
<1>3. stateLanes[l].resyncPending \in BOOLEAN /\ stateLanes'[l].resyncPending \in BOOLEAN
  BY DEF QueueTypes, StateLane
<1>4. l \notin TerminalLanes BY FramesAssumption
<1>5. stateLanes'[l].resyncPending = stateLanes[l].resyncPending => Silenced' = Silenced
  BY <1>3 DEF Silenced
<1>6. stateLanes'[l].resyncPending => Silenced' = Silenced \cup {l}
  BY DEF Silenced
<1>7. ~stateLanes'[l].resyncPending => Silenced' = Silenced \ {l}
  BY <1>4 DEF Silenced
<1> QED BY <1>1, <1>2, <1>5, <1>6, <1>7

LEMMA TerminalLaneReplaced ==
    ASSUME QueueTypes, QueueTypes', NEW l \in TerminalLanes, UNCHANGED stateLanes,
           \A m \in TerminalLanes : m # l => terminalLanes'[m] = terminalLanes[m]
    PROVE  /\ TerminalDepth' = [TerminalDepth EXCEPT ![l] = Len(terminalLanes'[l].queue)]
           /\ UNCHANGED StateDepth
           /\ terminalLanes'[l].suppressed = terminalLanes[l].suppressed => Silenced' = Silenced
           /\ terminalLanes'[l].suppressed => Silenced' = Silenced \cup {l}
           /\ ~terminalLanes'[l].suppressed => Silenced' = Silenced \ {l}
           /\ terminalLanes'[l].releasePending = terminalLanes[l].releasePending =>
                 Releasing' = Releasing
           /\ terminalLanes'[l].releasePending => Releasing' = Releasing \cup {l}
           /\ ~terminalLanes'[l].releasePending => Releasing' = Releasing \ {l}
<1>1. TerminalDepth' = [TerminalDepth EXCEPT ![l] = Len(terminalLanes'[l].queue)]
  BY DEF TerminalDepth
<1>2. UNCHANGED StateDepth BY DEF StateDepth
<1>3. /\ terminalLanes[l].suppressed \in BOOLEAN /\ terminalLanes'[l].suppressed \in BOOLEAN
      /\ terminalLanes[l].releasePending \in BOOLEAN
      /\ terminalLanes'[l].releasePending \in BOOLEAN
  BY DEF QueueTypes, TerminalLane
<1>4. l \notin StateLanes BY FramesAssumption
<1>5. terminalLanes'[l].suppressed = terminalLanes[l].suppressed => Silenced' = Silenced
  BY <1>3 DEF Silenced
<1>6. terminalLanes'[l].suppressed => Silenced' = Silenced \cup {l}
  BY DEF Silenced
<1>7. ~terminalLanes'[l].suppressed => Silenced' = Silenced \ {l}
  BY <1>4 DEF Silenced
<1>8. terminalLanes'[l].releasePending = terminalLanes[l].releasePending => Releasing' = Releasing
  BY <1>3 DEF Releasing
<1>9. /\ terminalLanes'[l].releasePending => Releasing' = Releasing \cup {l}
      /\ ~terminalLanes'[l].releasePending => Releasing' = Releasing \ {l}
  BY DEF Releasing
<1> QED BY <1>1, <1>2, <1>5, <1>6, <1>7, <1>8, <1>9

LEMMA QueueStateSchedules ==
    ASSUME SchedulingInv, SchedulingInv', ~terminalError, NEW l \in StateLanes,
           NEW key \in Keys, NEW size \in StateSizes, UNCHANGED terminalLanes,
           ~StateOverBound(l, WithoutKey(l, key), size),
           QueueState(l, key, size, WithoutKey(l, key))
    PROVE  Scheduler!QueueState(l) /\ UNCHANGED <<TerminalDepth, Releasing>>
<1> DEFINE rest == WithoutKey(l, key).queue
           frame == [class |-> "state", lane |-> l, key |-> key, copy |-> CopyOf(key),
                     size |-> size]
           n == Len(stateLanes'[l].queue)
<1>1. QueueTypes /\ QueueTypes' BY InvNow, PTL
<1>2. /\ rest \in Seq(StateFrames)
      /\ Len(rest) = Len(stateLanes[l].queue) \/ Len(rest) = Len(stateLanes[l].queue) - 1
      /\ InFlight = <<"state", l>> => Len(rest) >= 1
  BY WithoutKeyLen
<1>3. /\ stateLanes'[l].queue = Append(rest, frame)
      /\ stateLanes'[l].resyncPending = stateLanes[l].resyncPending
      /\ \A m \in StateLanes : m # l => stateLanes'[m] = stateLanes[m]
  BY <1>1 DEF QueueState, QueueTypes, StateLane
<1>4. /\ StateDepth' = [StateDepth EXCEPT ![l] = n]
      /\ UNCHANGED <<TerminalDepth, Releasing, Silenced>>
  BY <1>1, <1>3, StateLaneReplaced
<1>5. ~(Len(rest) >= MaxStateQueuedFrames) BY DEF StateOverBound
<1>6. Len(Append(rest, frame)) = Len(rest) + 1
  <2> HIDE DEF rest, frame
  <2> QED BY <1>2, LenProperties
<1>7. StateDepth[l] = Len(stateLanes[l].queue) /\ StateDepth[l] \in Nat
  <2>1. DepthsOK BY <1>1, Depths
  <2> QED BY <2>1 DEF DepthsOK
<1>8. MaxStateQueuedFrames \in Nat BY LimitsAssumption
<1>9. Len(rest) \in Nat BY <1>2
<1>10. n = Len(rest) + 1 BY <1>3, <1>6
<1> HIDE DEF n, rest
<1>11. n \in {StateDepth[l], StateDepth[l] + 1}
  BY <1>2, <1>7, <1>9, <1>10
<1>12. /\ InFlight = <<"state", l>> => n \in 2..MaxStateQueuedFrames
       /\ InFlight # <<"state", l>> => n \in 1..MaxStateQueuedFrames
  BY <1>2, <1>5, <1>8, <1>9, <1>10
<1> DEFINE held == IF InFlight = <<"state", l>> THEN 1 ELSE 0
<1>13. n \in (held + 1)..MaxStateQueuedFrames BY <1>12
<1> HIDE DEF held
<1>14. Scheduler!InFlightOn(Scheduler!State(l)) = held
  BY DEF Scheduler!InFlightOn, Scheduler!State, InFlight, held
<1>15. \E k \in {StateDepth[l], StateDepth[l] + 1} :
          /\ k \in (Scheduler!InFlightOn(Scheduler!State(l)) + 1)..MaxStateQueuedFrames
          /\ StateDepth' = [StateDepth EXCEPT ![l] = k]
          /\ UNCHANGED Silenced
  BY <1>4, <1>11, <1>13, <1>14
<1>16. Scheduler!QueueState(l)
  BY <1>15 DEF Scheduler!QueueState, Silenced
<1> QED BY <1>4, <1>16

LEMMA CollapseStateSchedules ==
    ASSUME SchedulingInv, SchedulingInv', ~terminalError, NEW l \in StateLanes,
           ~stateLanes[l].resyncPending, UNCHANGED terminalLanes, CongestState(l)
    PROVE  Scheduler!CollapseState(l) /\ UNCHANGED <<TerminalDepth, Releasing>>
<1> DEFINE kept == InFlightOf(l)
           fits == ResyncBytes <= MaxStateQueuedBytes
           marker == IF fits
                     THEN <<[class |-> "state_resync", lane |-> l, size |-> ResyncBytes]>>
                     ELSE <<>>
           held == IF InFlight = <<"state", l>> THEN 1 ELSE 0
           n == IF fits THEN 1 ELSE 0
<1>1. QueueTypes /\ QueueTypes' /\ Inv BY InvNow, PTL
<1>2. /\ stateLanes'[l].queue = kept \o marker
      /\ stateLanes'[l].resyncPending = fits
      /\ \A m \in StateLanes : m # l => stateLanes'[m] = stateLanes[m]
  BY <1>1 DEF CongestState, QueueTypes, StateLane
<1>3. Len(kept) = held /\ (kept = <<>> \/ kept = <<activeDelivery>>)
  BY <1>1, KeptInFlight
<1>4. Len(kept \o marker) = held + n
  <2>1. Len(marker) = n OBVIOUS
  <2>2. PICK S : kept \in Seq(S) /\ marker \in Seq(S)
    <3> DEFINE resync == [class |-> "state_resync", lane |-> l, size |-> ResyncBytes]
               S == {activeDelivery, resync}
    <3>1. <<>> \in Seq(S) /\ <<activeDelivery>> \in Seq(S) /\ <<resync>> \in Seq(S)
      OBVIOUS
    <3>2. kept \in Seq(S) /\ marker \in Seq(S) BY <1>3, <3>1
    <3> QED BY <3>2
  <2> HIDE DEF kept, marker, n, held
  <2> QED BY <1>3, <2>1, <2>2, ConcatProperties
<1>5. /\ StateDepth' = [StateDepth EXCEPT ![l] = held + n]
      /\ UNCHANGED <<TerminalDepth, Releasing>>
      /\ Silenced' = IF n = 1 THEN Silenced \cup {l} ELSE Silenced
  <2>1. stateLanes'[l].resyncPending = (n = 1) BY <1>2
  <2>2. stateLanes[l].resyncPending = FALSE BY <1>1 DEF QueueTypes, StateLane
  <2>3. Len(stateLanes'[l].queue) = held + n BY <1>2, <1>4
  <2> HIDE DEF n, held
  <2> QED BY <1>1, <1>2, <2>1, <2>2, <2>3, StateLaneReplaced
<1>6. n \in {0, 1} OBVIOUS
<1> HIDE DEF held, n
<1>7. Scheduler!InFlightOn(Scheduler!State(l)) = held
  BY DEF Scheduler!InFlightOn, Scheduler!State, InFlight, held
<1>8. Scheduler!CollapseState(l)
  BY <1>5, <1>6, <1>7 DEF Scheduler!CollapseState, Silenced
<1> QED BY <1>5, <1>8

LEMMA SendStateSchedules ==
    ASSUME SchedulingInv, SchedulingInv', NEW l \in StateLanes, NEW key \in Keys,
           NEW size \in StateSizes, SendState(l, key, size)
    PROVE  Scheduler!SendState(l)
<1>1. /\ ~terminalError /\ ~terminalError' /\ ~stateLanes[l].resyncPending
      /\ UNCHANGED <<controlQueue, terminalOrder, terminalLanes, terminalError, rejection>>
  BY DEF SendState, controlVars, terminalVars, failVars
<1>2. Inv /\ QueueTypes' /\ StatesOK' /\ LanesOK' BY InvNow, PTL
<1>3. Scheduler!Start BY <1>1, <1>2, StartSchedules DEF SendState
<1>4. /\ Scheduler!QueueState(l) \/ Scheduler!CollapseState(l)
      /\ UNCHANGED <<TerminalDepth, Releasing>>
  <2>1. CASE StateOverBound(l, WithoutKey(l, key), size)
    BY <1>1, <2>1, CollapseStateSchedules DEF SendState
  <2>2. CASE ~StateOverBound(l, WithoutKey(l, key), size)
    BY <1>1, <2>2, QueueStateSchedules DEF SendState
  <2> QED BY <2>1, <2>2
<1>5. stateOrder' = Scheduler!InsertLane(stateOrder, l)
  BY LanesMapped DEF SendState
<1>6. l \notin Silenced BY <1>1, FramesAssumption DEF Silenced
<1>7. Status # "failed" /\ UNCHANGED Status BY <1>1 DEF Status
<1> QED BY <1>1, <1>3, <1>4, <1>5, <1>6, <1>7
        DEF Scheduler!SendState, Silenced, Releasing, Status

LEMMA ClosedLaneEmpty ==
    ASSUME Inv, NEW l \in TerminalLanes, ~terminalLanes[l].open
    PROVE  terminalLanes[l].queue = <<>>
BY InvParts DEF LanesOK, Chain

LEMMA LaneForSchedules ==
    ASSUME Inv, NEW l \in TerminalLanes, NEW range \in Ranges,
           ~terminalLanes[l].suppressed, ~terminalLanes[l].releasePending
    PROVE  LET lane == LaneFor(l, range)
           IN  /\ lane \in TerminalLane
               /\ lane.queue = terminalLanes[l].queue
               /\ lane.suppressed = terminalLanes[l].suppressed
               /\ lane.releasePending = terminalLanes[l].releasePending
<1>1. terminalLanes[l] \in TerminalLane BY InvParts DEF QueueTypes
<1>2. CASE terminalLanes[l].open BY <1>1, <1>2 DEF LaneFor
<1>3. CASE ~terminalLanes[l].open
  <2> DEFINE lane == NewTerminalLane(range.from)
  <2>1. range.from \in Positions BY DEF Ranges
  <2>2. lane \in TerminalLane BY <2>1, NewLaneType
  <2>3. lane.queue = <<>> /\ lane.suppressed = FALSE /\ lane.releasePending = FALSE
    BY DEF NewTerminalLane
  <2>4. /\ terminalLanes[l].suppressed = FALSE /\ terminalLanes[l].releasePending = FALSE
    BY <1>1 DEF TerminalLane
  <2>5. terminalLanes[l].queue = <<>> BY <1>3, ClosedLaneEmpty
  <2> HIDE DEF lane
  <2> QED BY <1>3, <2>2, <2>3, <2>4, <2>5 DEF LaneFor, lane
<1> QED BY <1>2, <1>3

LEMMA QueueTerminalSchedules ==
    ASSUME SchedulingInv, SchedulingInv', NEW l \in TerminalLanes, NEW range \in Ranges,
           UNCHANGED stateLanes, NEW lane, NEW new, ~TerminalOverBound(lane, range),
           lane.queue = terminalLanes[l].queue,
           {"queue", "queuedBytes", "suppressed", "releasePending"} \subseteq DOMAIN new,
           new.queue = lane.queue,
           new.suppressed = terminalLanes[l].suppressed,
           new.releasePending = terminalLanes[l].releasePending,
           QueueTerminal(l, new, range)
    PROVE  Scheduler!QueueTerminal(l) /\ UNCHANGED <<StateDepth, Releasing>>
<1> DEFINE frame == [class |-> "terminal", lane |-> l, from |-> range.from,
                     to |-> range.to, size |-> range.to - range.from]
           queue == terminalLanes[l].queue
<1>1. QueueTypes /\ QueueTypes' BY InvNow, PTL
<1>2. /\ terminalLanes'[l].queue = Append(queue, frame)
      /\ terminalLanes'[l].suppressed = terminalLanes[l].suppressed
      /\ terminalLanes'[l].releasePending = terminalLanes[l].releasePending
      /\ \A m \in TerminalLanes : m # l => terminalLanes'[m] = terminalLanes[m]
  BY <1>1 DEF QueueTerminal, QueueTypes, TerminalLane
<1>3. queue \in Seq(TerminalFrames) BY <1>1 DEF QueueTypes, TerminalLane
<1>4. ~(Len(queue) >= MaxTerminalQueuedFrames) BY DEF TerminalOverBound
<1>5. TerminalDepth[l] = Len(queue) /\ TerminalDepth[l] \in Nat
  <2>1. DepthsOK BY <1>1, Depths
  <2> QED BY <2>1 DEF DepthsOK
<1> HIDE DEF queue, frame
<1>6. Len(Append(queue, frame)) = Len(queue) + 1 BY <1>3, LenProperties
<1>7. /\ TerminalDepth' = [TerminalDepth EXCEPT ![l] = TerminalDepth[l] + 1]
      /\ UNCHANGED <<StateDepth, Silenced, Releasing>>
  BY <1>1, <1>2, <1>5, <1>6, TerminalLaneReplaced
<1>8. TerminalDepth[l] < MaxTerminalQueuedFrames
  <2>1. MaxTerminalQueuedFrames \in Nat BY LimitsAssumption
  <2> QED BY <1>4, <1>5, <2>1
<1>9. Scheduler!QueueTerminal(l)
  BY <1>7, <1>8 DEF Scheduler!QueueTerminal, Silenced
<1> QED BY <1>7, <1>9

LEMMA CollapseTerminalSchedules ==
    ASSUME SchedulingInv, SchedulingInv', ~terminalError, NEW l \in TerminalLanes,
           NEW range, UNCHANGED stateLanes, NEW lane, DOMAIN lane = DOMAIN NoTerminalLane,
           lane.releasePending = terminalLanes[l].releasePending,
           terminalError' = FALSE, CongestTerminal(l, lane, range)
    PROVE  /\ Scheduler!CollapseTerminal(l) /\ UNCHANGED <<StateDepth, Releasing>>
           /\ terminalOrder' = InsertLane(terminalOrder, l) /\ Start
           /\ UNCHANGED <<controlVars, stateVars, failVars>>
<1> DEFINE kept == InFlightOf(l)
           head == IF range.to > lane.head THEN range.to ELSE lane.head
           from == IF kept # <<>> /\ kept[1].to > lane.sent THEN kept[1].to ELSE lane.sent
           skip == [class |-> "terminal_skip", lane |-> l, from |-> from, to |-> head,
                    size |-> SkipBytes]
           held == IF InFlight = <<"terminal", l>> THEN 1 ELSE 0
<1>1. QueueTypes /\ QueueTypes' /\ Inv BY InvNow, PTL
<1>2. /\ terminalLanes' = [terminalLanes EXCEPT ![l] =
            [lane EXCEPT !.queue = Append(kept, skip),
                         !.queuedBytes = BytesOf(kept) + SkipBytes,
                         !.head = head, !.suppressed = TRUE]]
      /\ terminalOrder' = InsertLane(terminalOrder, l) /\ Start
      /\ UNCHANGED <<controlVars, stateVars, failVars>>
  <2>1. ~Failed BY DEF Failed
  <2> QED BY <2>1 DEF CongestTerminal
<1>3. Len(kept) = held /\ (kept = <<>> \/ kept = <<activeDelivery>>)
  BY <1>1, KeptInFlight
<1> HIDE DEF skip, head
<1>4. Len(Append(kept, skip)) = held + 1
  <2>1. <<>> \in Seq({activeDelivery}) /\ <<activeDelivery>> \in Seq({activeDelivery})
    OBVIOUS
  <2>2. kept \in Seq({activeDelivery}) BY <1>3, <2>1
  <2> HIDE DEF kept, held
  <2> QED BY <1>3, <2>2, LenProperties
<1>5. /\ terminalLanes'[l].queue = Append(kept, skip)
      /\ terminalLanes'[l].suppressed = TRUE
      /\ terminalLanes'[l].releasePending = terminalLanes[l].releasePending
      /\ \A m \in TerminalLanes : m # l => terminalLanes'[m] = terminalLanes[m]
  <2> HIDE DEF kept
  <2>1. {"queue", "suppressed", "releasePending"} \subseteq DOMAIN lane
    BY DEF NoTerminalLane, NewTerminalLane
  <2> QED BY <1>1, <1>2, <2>1 DEF QueueTypes
<1>6. /\ TerminalDepth' = [TerminalDepth EXCEPT ![l] = held + 1]
      /\ UNCHANGED <<StateDepth, Releasing>>
      /\ Silenced' = Silenced \cup {l}
  <2> HIDE DEF kept, held
  <2> QED BY <1>1, <1>4, <1>5, TerminalLaneReplaced
<1> HIDE DEF held
<1>7. Scheduler!InFlightOn(Scheduler!Terminal(l)) = held
  BY DEF Scheduler!InFlightOn, Scheduler!Terminal, InFlight, held
<1>8. Scheduler!CollapseTerminal(l)
  BY <1>6, <1>7 DEF Scheduler!CollapseTerminal, Silenced
<1> QED BY <1>2, <1>6, <1>8

LEMMA SendTerminalSchedules ==
    ASSUME SchedulingInv, SchedulingInv', NEW l \in TerminalLanes, NEW range \in Ranges,
           SendTerminal(l, range)
    PROVE  Scheduler!SendTerminal(l) \/ Scheduler!Fail
<1> DEFINE lane == LaneFor(l, range)
           since == IF lane.unconfirmedSince = "none" THEN "recent" ELSE lane.unconfirmedSince
           admitted == [lane EXCEPT !.unconfirmedSince = since, !.head = range.to]
           Scheduled == /\ Scheduler!QueueTerminal(l) \/ Scheduler!CollapseTerminal(l)
                        /\ UNCHANGED <<StateDepth, Releasing>>
                        /\ terminalOrder' = InsertLane(terminalOrder, l) /\ Start
                        /\ UNCHANGED <<controlVars, stateVars, failVars>>
<1>1. /\ ~terminalError /\ ~terminalLanes[l].releasePending /\ ~terminalLanes[l].suppressed
      /\ SendOutput(l, range) \/ SendOutOfOrder(l, range)
  BY DEF SendTerminal
<1>2. Inv /\ QueueTypes /\ QueueTypes' /\ StatesOK' /\ LanesOK' BY InvNow, PTL
<1>3. /\ lane \in TerminalLane
      /\ lane.queue = terminalLanes[l].queue
      /\ lane.suppressed = terminalLanes[l].suppressed
      /\ lane.releasePending = terminalLanes[l].releasePending
  BY <1>1, <1>2, LaneForSchedules
<1>4. DOMAIN lane = DOMAIN NoTerminalLane /\ terminalLanes[l] \in TerminalLane
  <2>1. NoTerminalLane \in TerminalLane BY EmptyLanes
  <2>2. terminalLanes[l] \in TerminalLane BY <1>2 DEF QueueTypes
  <2> HIDE DEF lane
  <2> QED BY <1>3, <2>1, <2>2 DEF TerminalLane
<1>5. ASSUME NEW held, DOMAIN held = DOMAIN NoTerminalLane,
             held.releasePending = terminalLanes[l].releasePending,
             CongestTerminal(l, held, range)
      PROVE  Failed \/ Scheduled
  <2>1. CASE Failed BY <2>1
  <2>2. CASE ~Failed
    <3>1. UNCHANGED <<controlVars, stateVars, failVars>>
      BY <1>5, <2>2 DEF CongestTerminal
    <3>2. UNCHANGED stateLanes /\ terminalError' = FALSE
      <4>1. terminalError = FALSE BY <1>1, <1>2, InvParts DEF OtherTypes
      <4> QED BY <3>1, <4>1 DEF stateVars, failVars
    <3>3. Scheduled BY <1>1, <1>5, <3>1, <3>2, CollapseTerminalSchedules
    <3> QED BY <3>3
  <2> QED BY <2>1, <2>2
<1> HIDE DEF Scheduled
<1>6. Failed \/ Scheduled
  <2>1. CASE SendOutOfOrder(l, range)
    <3> DEFINE old == terminalLanes[l]
    <3>1. CongestTerminal(l, old, range) BY <2>1 DEF SendOutOfOrder
    <3>2. DOMAIN old = DOMAIN NoTerminalLane
      <4>1. NoTerminalLane \in TerminalLane BY EmptyLanes
      <4> QED BY <1>4, <4>1 DEF TerminalLane
    <3>3. old.releasePending = terminalLanes[l].releasePending OBVIOUS
    <3> HIDE DEF old
    <3> QED BY <1>5, <3>1, <3>2, <3>3
  <2>2. CASE SendOutput(l, range) /\ TerminalOverBound(lane, range)
    <3>1. CongestTerminal(l, admitted, range) BY <2>2 DEF SendOutput
    <3>2. /\ DOMAIN admitted = DOMAIN NoTerminalLane
          /\ admitted.releasePending = terminalLanes[l].releasePending
      <4> HIDE DEF lane
      <4> QED BY <1>3, <1>4 DEF TerminalLane
    <3> HIDE DEF admitted
    <3> QED BY <1>5, <3>1, <3>2
  <2>3. CASE SendOutput(l, range) /\ ~TerminalOverBound(lane, range)
    <3>1. /\ QueueTerminal(l, admitted, range)
          /\ terminalOrder' = InsertLane(terminalOrder, l) /\ Start
          /\ UNCHANGED <<controlVars, stateVars, failVars>>
      BY <2>3 DEF SendOutput
    <3>2. UNCHANGED stateLanes BY <3>1 DEF stateVars
    <3>3. Scheduler!QueueTerminal(l) /\ UNCHANGED <<StateDepth, Releasing>>
      <4>1. /\ {"queue", "queuedBytes", "suppressed", "releasePending"} \subseteq DOMAIN admitted
            /\ admitted.queue = lane.queue
            /\ admitted.suppressed = terminalLanes[l].suppressed
            /\ admitted.releasePending = terminalLanes[l].releasePending
        <5> HIDE DEF lane, since
        <5> QED BY <1>3 DEF TerminalLane
      <4> HIDE DEF lane, admitted
      <4> QED BY <1>3, <2>3, <3>1, <3>2, <4>1, QueueTerminalSchedules
    <3>4. Scheduled BY <3>1, <3>3 DEF Scheduled
    <3> QED BY <3>4
  <2> QED BY <1>1, <2>1, <2>2, <2>3
<1>7. CASE Failed BY <1>1, <1>7, FailedSchedules
<1>8. CASE Scheduled
  <2> USE DEF Scheduled
  <2>1. UNCHANGED <<controlQueue, stateOrder, terminalError, rejection>>
    BY <1>8 DEF controlVars, stateVars, failVars
  <2>2. Scheduler!Start BY <1>1, <1>2, <1>8, <2>1, StartSchedules
  <2>3. l \notin Releasing /\ l \notin Silenced
    BY <1>1, FramesAssumption DEF Releasing, Silenced
  <2>4. terminalOrder' = Scheduler!InsertLane(terminalOrder, l) BY <1>8, LanesMapped
  <2>5. Status # "failed" /\ UNCHANGED Status BY <1>1, <2>1 DEF Status
  <2> QED BY <1>8, <2>1, <2>2, <2>3, <2>4, <2>5
          DEF Scheduler!SendTerminal, Silenced, Releasing, Status
<1> QED BY <1>6, <1>7, <1>8

LEMMA LaneKept ==
    ASSUME QueueTypes, QueueTypes', NEW l \in TerminalLanes,
           UNCHANGED <<controlQueue, stateVars, terminalOrder, drainVars, failVars>>,
           terminalLanes'[l].queue = terminalLanes[l].queue,
           terminalLanes'[l].suppressed = terminalLanes[l].suppressed,
           terminalLanes'[l].releasePending = terminalLanes[l].releasePending,
           \A m \in TerminalLanes : m # l => terminalLanes'[m] = terminalLanes[m]
    PROVE  UNCHANGED Scheduler!vars
<1>1. UNCHANGED <<stateOrder, stateLanes>> BY DEF stateVars
<1>2. UNCHANGED <<StateDepth, Silenced, Releasing>> BY <1>1, TerminalLaneReplaced
<1>3. UNCHANGED TerminalDepth BY DEF TerminalDepth
<1>4. UNCHANGED <<controlRun, stateCursor, terminalCursor, InFlight, Status>>
  BY DEF drainVars, failVars, InFlight, Status
<1> QED BY <1>1, <1>2, <1>3, <1>4
        DEF Scheduler!vars, Scheduler!queues, Scheduler!choice, Silenced, Releasing, InFlight,
            Status

LEMMA LaneMethodSchedules ==
    ASSUME SchedulingInv, SchedulingInv', NEW l \in TerminalLanes,
           \/ \E position : AcknowledgeTerminal(l, position)
           \/ UnconfirmedAges(l)
    PROVE  UNCHANGED Scheduler!vars
<1>1. QueueTypes /\ QueueTypes' BY InvNow, PTL
<1>2. UNCHANGED <<controlQueue, stateVars, terminalOrder, drainVars, failVars>>
  BY DEF AcknowledgeTerminal, UnconfirmedAges, controlVars
<1>3. terminalLanes[l] \in TerminalLane /\ terminalLanes \in [TerminalLanes -> TerminalLane]
  BY <1>1 DEF QueueTypes
<1>4. /\ terminalLanes'[l].queue = terminalLanes[l].queue
      /\ terminalLanes'[l].suppressed = terminalLanes[l].suppressed
      /\ terminalLanes'[l].releasePending = terminalLanes[l].releasePending
      /\ \A m \in TerminalLanes : m # l => terminalLanes'[m] = terminalLanes[m]
  <2>1. CASE \E position : AcknowledgeTerminal(l, position)
    <3>1. PICK position : AcknowledgeTerminal(l, position) BY <2>1
    <3> DEFINE since == IF position >= terminalLanes[l].head THEN "none" ELSE "recent"
    <3>2. terminalLanes' = [terminalLanes EXCEPT ![l].confirmed = position,
                                                ![l].unconfirmedSince = since]
      BY <3>1 DEF AcknowledgeTerminal
    <3> HIDE DEF since
    <3> QED BY <3>2, <1>3 DEF TerminalLane
  <2>2. CASE UnconfirmedAges(l)
    BY <2>2, <1>3 DEF UnconfirmedAges, TerminalLane
  <2> QED BY <2>1, <2>2
<1> QED BY <1>1, <1>2, <1>4, LaneKept

LEMMA ReleaseTerminalSchedules ==
    ASSUME SchedulingInv, SchedulingInv', NEW l \in TerminalLanes, ReleaseTerminal(l)
    PROVE  Scheduler!ReleaseTerminal(l)
<1> DEFINE kept == InFlightOf(l)
           held == IF InFlight = <<"terminal", l>> THEN 1 ELSE 0
           lane == terminalLanes[l]
<1>1. QueueTypes /\ QueueTypes' /\ Inv BY InvNow, PTL
<1>2. ~terminalError BY <1>1, InvParts DEF FailedIsClosed, ReleaseTerminal
<1>3. UNCHANGED <<controlQueue, stateOrder, stateLanes, drainVars, terminalError, rejection>>
  BY DEF ReleaseTerminal, controlVars, stateVars, failVars
<1>4. /\ Len(kept) = held /\ (kept = <<>> \/ kept = <<activeDelivery>>)
  BY <1>1, <1>2, KeptInFlight
<1>5. kept = <<>> <=> InFlight # <<"terminal", l>>
  <2>1. Len(<<>>) = 0 /\ Len(<<activeDelivery>>) = 1 OBVIOUS
  <2> QED BY <1>4, <2>1
<1>6. lane \in TerminalLane BY <1>1 DEF QueueTypes
<1>7. Scheduler!InFlightOn(Scheduler!Terminal(l)) = held
  BY DEF Scheduler!InFlightOn, Scheduler!Terminal, InFlight
<1>8. UNCHANGED <<controlRun, stateCursor, terminalCursor, InFlight, Status>>
      /\ Status # "failed"
  BY <1>2, <1>3 DEF drainVars, InFlight, Status
<1>9. UNCHANGED Scheduler!choice BY <1>8 DEF Scheduler!choice, InFlight
<1>10. CASE kept # <<>>
  <2>1. /\ terminalLanes' = [terminalLanes EXCEPT ![l] =
              [lane EXCEPT !.queue = kept, !.queuedBytes = BytesOf(kept),
                           !.releasePending = TRUE]]
        /\ UNCHANGED terminalOrder
    BY <1>10 DEF ReleaseTerminal
  <2>2. /\ terminalLanes'[l].queue = kept /\ terminalLanes'[l].releasePending = TRUE
        /\ terminalLanes'[l].suppressed = lane.suppressed
        /\ \A m \in TerminalLanes : m # l => terminalLanes'[m] = terminalLanes[m]
    <3> HIDE DEF kept
    <3> QED BY <1>1, <1>6, <2>1 DEF QueueTypes, TerminalLane
  <2>3. /\ TerminalDepth' = [TerminalDepth EXCEPT ![l] = held]
        /\ Releasing' = Releasing \cup {l} /\ UNCHANGED <<StateDepth, Silenced>>
    <3> HIDE DEF kept, held
    <3> QED BY <1>1, <1>3, <1>4, <2>2, TerminalLaneReplaced
  <2> HIDE DEF held, kept
  <2> QED BY <1>3, <1>5, <1>7, <1>8, <1>9, <1>10, <2>1, <2>3
          DEF Scheduler!ReleaseTerminal, Scheduler!Terminal, Silenced, Releasing, InFlight,
              Status
<1>11. CASE kept = <<>>
  <2>1. /\ terminalLanes' = [terminalLanes EXCEPT ![l] = NoTerminalLane]
        /\ terminalOrder' = DeleteLane(terminalOrder, l)
    BY <1>11 DEF ReleaseTerminal
  <2>2. /\ terminalLanes'[l].queue = <<>> /\ terminalLanes'[l].releasePending = FALSE
        /\ terminalLanes'[l].suppressed = FALSE
        /\ \A m \in TerminalLanes : m # l => terminalLanes'[m] = terminalLanes[m]
    BY <1>1, <2>1 DEF QueueTypes, NoTerminalLane, NewTerminalLane
  <2>3. /\ TerminalDepth' = [TerminalDepth EXCEPT ![l] = held]
        /\ Releasing' = Releasing \ {l} /\ Silenced' = Silenced \ {l}
        /\ UNCHANGED StateDepth
    <3> HIDE DEF kept, held
    <3> QED BY <1>1, <1>3, <1>4, <1>11, <2>2, TerminalLaneReplaced
  <2>4. terminalOrder' = Scheduler!DeleteLane(terminalOrder, l) BY <2>1, LanesMapped
  <2> HIDE DEF held, kept
  <2> QED BY <1>3, <1>5, <1>7, <1>8, <1>9, <1>11, <2>3, <2>4
          DEF Scheduler!ReleaseTerminal, Scheduler!Terminal, Silenced, Releasing, InFlight,
              Status
<1> QED BY <1>10, <1>11

-----------------------------------------------------------------------------
(* The answers of the transport. *)

\* The head of a queue leaves it.
LEMMA TailLen ==
    ASSUME NEW S, NEW queue \in Seq(S), queue # <<>>
    PROVE  Len(Tail(queue)) = Len(queue) - 1 /\ Len(queue) >= 1
<1>1. Len(queue) \in Nat /\ Len(queue) # 0 BY EmptySeq
<1> QED BY <1>1, HeadTailProperties

LEMMA CompleteControlSchedules ==
    ASSUME SchedulingInv, ~terminalError, CompleteControl(activeDelivery)
    PROVE  Scheduler!CompleteControl
<1>1. Inv /\ QueueTypes BY InvNow
<1>2. activeDelivery \in ControlFrame BY DEF CompleteControl
<1>3. controlQueue # <<>> /\ Head(controlQueue) = activeDelivery
  BY <1>2 DEF SchedulingInv, QueuesInv, ActiveHeads
<1>4. controlQueue' = Tail(controlQueue)
      /\ UNCHANGED <<stateOrder, stateLanes, terminalOrder, terminalLanes>>
  BY <1>3 DEF CompleteControl, stateVars, terminalVars
<1>5. Len(controlQueue') = Len(controlQueue) - 1
  <2>1. controlQueue \in Seq(ControlFrame) BY <1>1 DEF QueueTypes
  <2>2. Len(Tail(controlQueue)) = Len(controlQueue) - 1 BY <1>3, <2>1, TailLen
  <2> QED BY <1>4, <2>2
<1>6. InFlight = <<"control">> BY <1>1, <1>2, TargetIs
<1>7. UNCHANGED <<StateDepth, TerminalDepth, Silenced, Releasing>>
  BY <1>4 DEF StateDepth, TerminalDepth, Silenced, Releasing
<1> QED BY <1>4, <1>5, <1>6, <1>7
        DEF Scheduler!CompleteControl, Scheduler!Control, Silenced, Releasing, InFlight

LEMMA CompleteStateSchedules ==
    ASSUME SchedulingInv, SchedulingInv', ~terminalError, CompleteState(activeDelivery),
           NEW l \in StateLanes, activeDelivery.lane = l
    PROVE  Scheduler!CompleteState(l)
<1> DEFINE lane == stateLanes[l]
<1>1. Inv /\ QueueTypes /\ QueueTypes' BY InvNow, PTL
<1>2. activeDelivery \in StateFrames /\ l \in StateLanes
  BY StateFrameLane DEF CompleteState
<1>3. lane.queue # <<>> /\ Head(lane.queue) = activeDelivery
  BY <1>2 DEF SchedulingInv, QueuesInv, ActiveHeads
<1>4. /\ IF Len(lane.queue) = 1
         THEN /\ stateLanes' = [stateLanes EXCEPT ![l] = EmptyStateLane]
              /\ stateOrder' = DeleteLane(stateOrder, l)
         ELSE /\ stateLanes' = [stateLanes EXCEPT ![l].queue = Tail(@),
                                      ![l].queuedBytes = @ - activeDelivery.size]
              /\ UNCHANGED stateOrder
      /\ UNCHANGED <<controlQueue, terminalOrder, terminalLanes>>
  BY <1>3 DEF CompleteState, controlVars, terminalVars
<1>5. lane \in StateLane /\ lane.queue \in Seq(StateFrames)
  BY <1>1, <1>2 DEF QueueTypes, StateLane
<1>6. Len(Tail(lane.queue)) = Len(lane.queue) - 1 /\ Len(<<>>) = 0
  <2>1. Len(<<>>) = 0 OBVIOUS
  <2> HIDE DEF lane
  <2> QED BY <1>3, <1>5, <2>1, TailLen
<1>7. InFlight = <<"state", l>> BY <1>1, <1>2, TargetIs
<1>8. StateDepth[l] = Len(lane.queue) /\ StateDepth[l] \in Nat
  <2>1. DepthsOK BY <1>1, Depths
  <2> QED BY <1>2, <2>1 DEF DepthsOK
<1>9. \A m \in StateLanes : m # l => stateLanes'[m] = stateLanes[m]
  <2> QED BY <1>1, <1>4 DEF QueueTypes
<1>10. CASE Len(lane.queue) = 1
  <2>1. stateLanes'[l].queue = <<>> /\ stateLanes'[l].resyncPending = FALSE
    <3> QED BY <1>1, <1>2, <1>4, <1>10 DEF QueueTypes, EmptyStateLane
  <2>2. /\ StateDepth' = [StateDepth EXCEPT ![l] = 0]
        /\ Silenced' = Silenced \ {l} /\ UNCHANGED <<TerminalDepth, Releasing>>
    <3> QED BY <1>1, <1>2, <1>4, <1>6, <1>9, <2>1, StateLaneReplaced
  <2>3. stateOrder' = Scheduler!DeleteLane(stateOrder, l) BY <1>4, <1>10, LanesMapped
  <2>4. StateDepth[l] = 1 /\ StateDepth' = [StateDepth EXCEPT ![l] = StateDepth[l] - 1]
    <3>1. 1 - 1 = 0 OBVIOUS
    <3> QED BY <1>8, <1>10, <2>2, <3>1
  <2>5. Scheduler!CompleteState(l)
    BY <1>4, <1>7, <2>2, <2>3, <2>4
       DEF Scheduler!CompleteState, Scheduler!State, Silenced, Releasing, InFlight
  <2> QED BY <2>5
<1>11. CASE Len(lane.queue) # 1
  <2>1. /\ stateLanes'[l].queue = Tail(lane.queue)
        /\ stateLanes'[l].resyncPending = stateLanes[l].resyncPending
    <3> QED BY <1>1, <1>2, <1>4, <1>5, <1>11 DEF QueueTypes, StateLane
  <2>2. /\ StateDepth' = [StateDepth EXCEPT ![l] = Len(lane.queue) - 1]
        /\ UNCHANGED <<TerminalDepth, Releasing, Silenced>>
    <3>1. Len(stateLanes'[l].queue) = Len(lane.queue) - 1 BY <1>6, <2>1
    <3>2. UNCHANGED terminalLanes BY <1>4
    <3> HIDE DEF lane
    <3> QED BY <1>1, <1>2, <1>9, <2>1, <3>1, <3>2, StateLaneReplaced
  <2>3. StateDepth[l] # 1 /\ StateDepth' = [StateDepth EXCEPT ![l] = StateDepth[l] - 1]
    BY <1>8, <1>11, <2>2
  <2>4. Scheduler!CompleteState(l)
    BY <1>4, <1>7, <1>11, <2>2, <2>3
       DEF Scheduler!CompleteState, Scheduler!State, Silenced, Releasing, InFlight
  <2> QED BY <2>4
<1> QED BY <1>10, <1>11

LEMMA CompleteTerminalSchedules ==
    ASSUME SchedulingInv, SchedulingInv', ~terminalError, CompleteTerminal(activeDelivery),
           NEW l \in TerminalLanes, activeDelivery.lane = l
    PROVE  Scheduler!CompleteTerminal(l)
<1> DEFINE lane == terminalLanes[l]
<1>1. Inv /\ QueueTypes /\ QueueTypes' BY InvNow, PTL
<1>2. activeDelivery \in TerminalFrames /\ l \in TerminalLanes
  BY DEF CompleteTerminal, TerminalFrames, OutputFrame, SkipFrame, TerminalFrame
<1>3. lane \in TerminalLane /\ lane.queue \in Seq(TerminalFrames)
  BY <1>1, <1>2 DEF QueueTypes, TerminalLane
<1>4. lane.queue # <<>> /\ Head(lane.queue) = activeDelivery
  <2>1. lane.queue # <<>> /\ lane.queue[1] = activeDelivery
    BY <1>1, <1>2, InvParts DEF ActiveContinues
  <2> HIDE DEF lane
  <2> QED BY <1>3, <2>1, HeadTailProperties
<1> DEFINE last == lane.releasePending /\ Len(lane.queue) = 1
<1>5. /\ IF last
         THEN /\ terminalLanes' = [terminalLanes EXCEPT ![l] = NoTerminalLane]
              /\ terminalOrder' = DeleteLane(terminalOrder, l)
         ELSE /\ terminalLanes' = [terminalLanes EXCEPT ![l] =
                    [lane EXCEPT !.queue = Tail(@), !.queuedBytes = @ - activeDelivery.size,
                                 !.sent = SentAfter(lane, activeDelivery)]]
              /\ UNCHANGED terminalOrder
      /\ UNCHANGED <<controlQueue, stateOrder, stateLanes>>
  BY <1>4 DEF CompleteTerminal, controlVars, stateVars
<1>6. Len(Tail(lane.queue)) = Len(lane.queue) - 1 /\ Len(<<>>) = 0
  <2>1. Len(<<>>) = 0 OBVIOUS
  <2> HIDE DEF lane
  <2> QED BY <1>3, <1>4, <2>1, TailLen
<1>7. InFlight = <<"terminal", l>> BY <1>1, <1>2, TargetIs
<1>8. TerminalDepth[l] = Len(lane.queue) /\ TerminalDepth[l] \in Nat
  <2>1. DepthsOK BY <1>1, Depths
  <2> QED BY <1>2, <2>1 DEF DepthsOK
<1>9. \A m \in TerminalLanes : m # l => terminalLanes'[m] = terminalLanes[m]
  <2> HIDE DEF last
  <2> QED BY <1>1, <1>5 DEF QueueTypes
<1>10. last <=> l \in Releasing /\ TerminalDepth[l] = 1
  BY <1>2, <1>3, <1>8 DEF Releasing
<1>11. CASE last
  <2>1. /\ terminalLanes'[l].queue = <<>> /\ terminalLanes'[l].suppressed = FALSE
        /\ terminalLanes'[l].releasePending = FALSE
    <3> HIDE DEF last
    <3> QED BY <1>1, <1>2, <1>5, <1>11 DEF QueueTypes, NoTerminalLane, NewTerminalLane
  <2>2. /\ TerminalDepth' = [TerminalDepth EXCEPT ![l] = 0]
        /\ Silenced' = Silenced \ {l} /\ Releasing' = Releasing \ {l}
        /\ UNCHANGED StateDepth
    <3> QED BY <1>1, <1>2, <1>5, <1>6, <1>9, <2>1, TerminalLaneReplaced
  <2>3. terminalOrder' = Scheduler!DeleteLane(terminalOrder, l) BY <1>5, <1>11, LanesMapped
  <2>4. TerminalDepth' = [TerminalDepth EXCEPT ![l] = TerminalDepth[l] - 1]
    <3>1. 1 - 1 = 0 OBVIOUS
    <3> QED BY <1>10, <1>11, <2>2, <3>1
  <2> HIDE DEF last
  <2>5. Scheduler!CompleteTerminal(l)
    BY <1>5, <1>7, <1>10, <1>11, <2>2, <2>3, <2>4
       DEF Scheduler!CompleteTerminal, Scheduler!Terminal, Silenced, Releasing, InFlight
  <2> QED BY <2>5
<1>12. CASE ~last
  <2>1. /\ terminalLanes'[l].queue = Tail(lane.queue)
        /\ terminalLanes'[l].suppressed = terminalLanes[l].suppressed
        /\ terminalLanes'[l].releasePending = terminalLanes[l].releasePending
    <3> DEFINE sent == SentAfter(lane, activeDelivery)
               bytes == lane.queuedBytes - activeDelivery.size
    <3>1. terminalLanes' = [terminalLanes EXCEPT ![l] =
              [lane EXCEPT !.queue = Tail(lane.queue), !.queuedBytes = bytes, !.sent = sent]]
      BY <1>5, <1>12
    <3> HIDE DEF last, sent, bytes
    <3> QED BY <1>1, <1>2, <1>3, <3>1 DEF QueueTypes, TerminalLane
  <2>2. /\ TerminalDepth' = [TerminalDepth EXCEPT ![l] = Len(lane.queue) - 1]
        /\ UNCHANGED <<StateDepth, Releasing, Silenced>>
    <3>1. Len(terminalLanes'[l].queue) = Len(lane.queue) - 1 BY <1>6, <2>1
    <3>2. UNCHANGED stateLanes BY <1>5
    <3> HIDE DEF lane
    <3> QED BY <1>1, <1>2, <1>9, <2>1, <3>1, <3>2, TerminalLaneReplaced
  <2>3. TerminalDepth' = [TerminalDepth EXCEPT ![l] = TerminalDepth[l] - 1]
    BY <1>8, <2>2
  <2> HIDE DEF last
  <2>4. Scheduler!CompleteTerminal(l)
    BY <1>5, <1>7, <1>10, <1>12, <2>2, <2>3
       DEF Scheduler!CompleteTerminal, Scheduler!Terminal, Silenced, Releasing, InFlight
  <2> QED BY <2>4
<1> QED BY <1>11, <1>12

LEMMA FailedKeepsNothing ==
    ASSUME SchedulingInv, terminalError, Accepted \/ Refused \/ Thrown
    PROVE  /\ UNCHANGED <<controlQueue, stateOrder, stateLanes, terminalOrder, terminalLanes,
                          terminalError, rejection, controlRun, stateCursor, terminalCursor>>
<1>1. Inv BY InvNow
<1>2. /\ controlQueue = <<>> /\ rejection = "none"
      /\ \A l \in StateLanes : stateLanes[l].queue = <<>>
  BY DEF SchedulingInv, FailedEmpty
<1>3. \A l \in TerminalLanes : terminalLanes[l].queue = <<>>
  BY <1>1, InvParts, ClosedLaneEmpty DEF FailedIsClosed
<1>4. UNCHANGED <<controlQueue, stateOrder, stateLanes, terminalOrder, terminalLanes>>
  <2>1. CASE Thrown BY <2>1 DEF Thrown, controlVars, stateVars, terminalVars
  <2>2. CASE CompleteControl(activeDelivery)
    BY <1>2, <2>2 DEF CompleteControl, controlVars, stateVars, terminalVars
  <2>3. CASE CompleteState(activeDelivery)
    <3>1. activeDelivery.lane \in StateLanes BY <2>3, StateFrameLane DEF CompleteState
    <3>2. UNCHANGED stateVars /\ UNCHANGED <<controlVars, terminalVars>>
      BY <1>2, <2>3, <3>1 DEF CompleteState
    <3> QED BY <3>2 DEF controlVars, stateVars, terminalVars
  <2>4. CASE CompleteTerminal(activeDelivery)
    <3>1. activeDelivery.lane \in TerminalLanes
      BY <2>4 DEF CompleteTerminal, TerminalFrames, OutputFrame, SkipFrame, TerminalFrame
    <3>2. UNCHANGED terminalVars /\ UNCHANGED <<controlVars, stateVars>>
      BY <1>3, <2>4, <3>1 DEF CompleteTerminal
    <3> QED BY <3>2 DEF controlVars, stateVars, terminalVars
  <2> QED BY <2>1, <2>2, <2>3, <2>4 DEF Accepted, Refused, CompleteDelivery
<1>5. UNCHANGED <<terminalError, rejection>>
  BY <1>2 DEF Accepted, Refused, Thrown, Overtake, failVars
<1>6. Resume BY DEF Accepted, Refused, Thrown
<1>7. ~ControlWaits' BY <1>2, <1>4 DEF ControlWaits
<1>8. ~TakeState
  <2> SUFFICES ASSUME NEW l \in RoundRobin(stateOrder', StateDepth', stateCursor)
               PROVE  FALSE
    BY DEF TakeState
  <2>1. QueueTypes /\ stateOrder' \in Seq(StateLanes)
    BY <1>1, <1>4, InvParts DEF QueueTypes
  <2>2. l \in StateLanes /\ StateDepth'[l] > 0 BY <2>1, ReadyLane
  <2>3. StateDepth'[l] = Len(<<>>) /\ Len(<<>>) = 0 BY <1>2, <1>4, <2>2 DEF StateDepth
  <2> QED BY <2>2, <2>3
<1>9. ~TakeTerminal
  <2> SUFFICES ASSUME NEW l \in RoundRobin(terminalOrder', TerminalDepth', terminalCursor)
               PROVE  FALSE
    BY DEF TakeTerminal
  <2>1. QueueTypes /\ terminalOrder' \in Seq(TerminalLanes)
    BY <1>1, <1>4, InvParts DEF QueueTypes
  <2>2. l \in TerminalLanes /\ TerminalDepth'[l] > 0 BY <2>1, ReadyLane
  <2>3. TerminalDepth'[l] = Len(<<>>) /\ Len(<<>>) = 0 BY <1>3, <1>4, <2>2 DEF TerminalDepth
  <2> QED BY <2>2, <2>3
<1>10. UNCHANGED <<controlRun, stateCursor, terminalCursor>>
  BY <1>6, <1>7, <1>8, <1>9 DEF Resume, TakeControl
<1> QED BY <1>4, <1>5, <1>10

LEMMA FailedStutters ==
    ASSUME SchedulingInv, terminalError, Accepted \/ Refused \/ Thrown
    PROVE  UNCHANGED Scheduler!vars
<1>1. UNCHANGED <<controlQueue, stateOrder, stateLanes, terminalOrder, terminalLanes,
                  terminalError, rejection, controlRun, stateCursor, terminalCursor>>
  BY FailedKeepsNothing
<1>2. UNCHANGED <<StateDepth, TerminalDepth, Silenced, Releasing, InFlight, Status>>
  BY <1>1 DEF StateDepth, TerminalDepth, Silenced, Releasing, InFlight, Status
<1> QED BY <1>1, <1>2
        DEF Scheduler!vars, Scheduler!queues, Scheduler!choice, Silenced, Releasing, InFlight,
            Status

LEMMA AnsweredSchedules ==
    ASSUME SchedulingInv, SchedulingInv', ~terminalError, Accepted \/ Refused
    PROVE  Scheduler!Complete
<1>1. Inv /\ QueueTypes' /\ StatesOK' /\ LanesOK' BY InvNow, PTL
<1>2. ~terminalError' /\ CompleteDelivery /\ Resume
  BY DEF Accepted, Refused, failVars
<1>3. /\ Status \in {"live", "throwing"} /\ UNCHANGED Status
      /\ Status = "live" \/ (Status = "throwing" /\ InFlight = <<"control">>)
  <2>1. CASE Accepted
    BY <1>2, <2>1 DEF Accepted, SendAnswered, failVars, Status
  <2>2. CASE Refused
    <3>1. InFlight = <<"control">> BY <1>1, <2>2, TargetIs DEF Refused
    <3>2. rejection \in {"none", "queued", "overtaken"} BY <1>1, InvParts DEF OtherTypes
    <3> QED BY <1>2, <2>2, <3>1, <3>2 DEF Refused, Overtake, Status
  <2> QED BY <2>1, <2>2
<1>4. \/ Scheduler!CompleteControl
      \/ \E l \in StateLanes : Scheduler!CompleteState(l)
      \/ \E l \in TerminalLanes : Scheduler!CompleteTerminal(l)
  <2>1. CASE CompleteControl(activeDelivery) BY <2>1, CompleteControlSchedules
  <2>2. CASE CompleteState(activeDelivery)
    <3>1. PICK l \in StateLanes : activeDelivery.lane = l
      BY <2>2, StateFrameLane DEF CompleteState
    <3>2. Scheduler!CompleteState(l) BY <2>2, <3>1, CompleteStateSchedules
    <3> QED BY <3>2
  <2>3. CASE CompleteTerminal(activeDelivery)
    <3>1. PICK l \in TerminalLanes : activeDelivery.lane = l
      BY <2>3 DEF CompleteTerminal, TerminalFrames, OutputFrame, SkipFrame, TerminalFrame
    <3>2. Scheduler!CompleteTerminal(l) BY <2>3, <3>1, CompleteTerminalSchedules
    <3> QED BY <3>2
  <2> QED BY <1>2, <2>1, <2>2, <2>3 DEF CompleteDelivery
<1>5. Scheduler!NextDelivery(Len(controlQueue)', stateOrder', StateDepth', terminalOrder',
                             TerminalDepth')
  BY <1>1, <1>2, InvParts, ResumeSchedules
<1> QED BY <1>3, <1>4, <1>5 DEF Scheduler!Complete, Scheduler!Control, Status, InFlight

LEMMA ThrownSchedules ==
    ASSUME SchedulingInv, SchedulingInv', ~terminalError, Thrown
    PROVE  Scheduler!Throw
<1>1. Inv /\ QueueTypes' /\ StatesOK' /\ LanesOK' BY InvNow, PTL
<1>2. /\ ~terminalError' /\ Resume /\ phase # "idle"
      /\ UNCHANGED <<controlQueue, stateOrder, stateLanes, terminalOrder, terminalLanes>>
  BY DEF Thrown, controlVars, stateVars, terminalVars, WaitAnswered, SendAnswered
<1>3. InFlight # <<"none">> BY <1>1, <1>2, TargetIs
<1>4. Status # "failed" /\ Status' = "throwing"
  BY <1>2 DEF Thrown, Status
<1>5. UNCHANGED <<StateDepth, TerminalDepth, Silenced, Releasing>>
  BY <1>2 DEF StateDepth, TerminalDepth, Silenced, Releasing
<1>6. UNCHANGED Scheduler!queues
  BY <1>2, <1>5 DEF Scheduler!queues, Silenced, Releasing
<1>7. Scheduler!NextDelivery(Len(controlQueue)', stateOrder', StateDepth', terminalOrder',
                             TerminalDepth')
  BY <1>1, <1>2, InvParts, ResumeSchedules
<1>8. Scheduler!NextDelivery(Len(controlQueue), stateOrder, StateDepth, terminalOrder,
                             TerminalDepth)
  BY <1>2, <1>5, <1>7
<1> QED BY <1>3, <1>4, <1>6, <1>8 DEF Scheduler!Throw, Scheduler!Nobody, Status, InFlight

-----------------------------------------------------------------------------

LEMMA NextFailedEmpty ==
    ASSUME SchedulingInv, [Next]_vars
    PROVE  FailedEmpty'
<1> SUFFICES ASSUME terminalError' PROVE FailedEmpty' BY DEF FailedEmpty
<1>1. CASE Failed
  BY <1>1 DEF Failed, FailedEmpty, EmptyStateLane
<1>2. CASE UNCHANGED <<controlQueue, stateLanes, terminalError, rejection>>
  BY <1>2 DEF SchedulingInv, FailedEmpty
<1>3. CASE terminalError /\ (Accepted \/ Refused \/ Thrown)
  BY <1>2, <1>3, FailedKeepsNothing
<1>4. CASE ~terminalError /\ (Accepted \/ Refused \/ Thrown)
  BY <1>4 DEF Accepted, Refused, Thrown, failVars
<1>5. CASE Writable
  <2>1. terminalError /\ rejection = "none" => rejection' = "none"
    BY <1>5 DEF Writable, Overtake
  <2>2. UNCHANGED <<controlQueue, stateLanes, terminalError>>
    BY <1>5 DEF Writable, controlVars, stateVars
  <2> QED BY <2>1, <2>2 DEF SchedulingInv, FailedEmpty
<1>6. CASE \E size \in ControlSizes : SendControl(size)
  BY <1>6 DEF SendControl, failVars
<1>7. CASE \E l \in StateLanes, key \in Keys, size \in StateSizes : SendState(l, key, size)
  BY <1>7 DEF SendState, failVars
<1>8. CASE \E l \in TerminalLanes, range \in Ranges : SendTerminal(l, range)
  <2>1. PICK l \in TerminalLanes, range \in Ranges : SendTerminal(l, range) BY <1>8
  <2>2. ~terminalError /\ (Failed \/ UNCHANGED failVars)
    BY <2>1 DEF SendTerminal, SendOutput, SendOutOfOrder, CongestTerminal
  <2> QED BY <1>1, <2>2 DEF failVars
<1>9. CASE \E l \in TerminalLanes :
              \/ \E position \in Positions : AcknowledgeTerminal(l, position)
              \/ UnconfirmedAges(l)
              \/ ReleaseTerminal(l)
  <2>1. UNCHANGED <<controlQueue, stateLanes, terminalError, rejection>>
    BY <1>9 DEF AcknowledgeTerminal, UnconfirmedAges, ReleaseTerminal, controlVars, stateVars,
                failVars
  <2> QED BY <1>2, <2>1
<1>10. CASE TransportCloses \/ WhenIdle \/ UNCHANGED vars
  <2>1. UNCHANGED <<controlQueue, stateLanes, terminalError, rejection>>
    BY <1>10 DEF TransportCloses, WhenIdle, vars, controlVars, stateVars, failVars
  <2> QED BY <1>2, <2>1
<1> QED BY <1>1, <1>3, <1>4, <1>5, <1>6, <1>7, <1>8, <1>9, <1>10
        DEF Next, OverflowControl, DrainRejected, Close

LEMMA NextSchedules ==
    ASSUME SchedulingInv, SchedulingInv', [Next]_vars
    PROVE  [Scheduler!Next]_(Scheduler!vars)
<1>1. CASE \E size \in ControlSizes : SendControl(size) \/ OverflowControl(size)
  BY <1>1, SendControlSchedules, FailedSchedules DEF OverflowControl, Scheduler!Next
<1>2. CASE \E l \in StateLanes, key \in Keys, size \in StateSizes : SendState(l, key, size)
  BY <1>2, SendStateSchedules DEF Scheduler!Next
<1>3. CASE \E l \in TerminalLanes, range \in Ranges : SendTerminal(l, range)
  BY <1>3, SendTerminalSchedules DEF Scheduler!Next
<1>4. CASE \E l \in TerminalLanes :
              \/ \E position \in Positions : AcknowledgeTerminal(l, position)
              \/ UnconfirmedAges(l)
              \/ ReleaseTerminal(l)
  BY <1>4, LaneMethodSchedules, ReleaseTerminalSchedules DEF Scheduler!Next
<1>5. CASE (Accepted \/ Refused \/ Thrown) /\ terminalError
  BY <1>5, FailedStutters
<1>6. CASE (Accepted \/ Refused \/ Thrown) /\ ~terminalError
  BY <1>6, AnsweredSchedules, ThrownSchedules DEF Scheduler!Next
<1>7. CASE DrainRejected \/ Close
  <2>1. Failed /\ ~terminalError
    BY <1>7 DEF DrainRejected, Close, SchedulingInv, FailedEmpty
  <2> QED BY <2>1, FailedSchedules DEF Scheduler!Next
<1>8. CASE Writable \/ TransportCloses \/ WhenIdle \/ UNCHANGED vars
  <2>1. UNCHANGED <<controlQueue, stateOrder, stateLanes, terminalOrder, terminalLanes,
                    activeDelivery, terminalError, controlRun, stateCursor, terminalCursor>>
    BY <1>8 DEF Writable, TransportCloses, WhenIdle, vars, controlVars, stateVars, terminalVars,
                drainVars, failVars
  <2>2. UNCHANGED Status
    <3>1. rejection' = "none" <=> rejection = "none"
      BY <1>8 DEF Writable, Overtake, TransportCloses, WhenIdle, vars, failVars
    <3> QED BY <2>1, <3>1 DEF Status
  <2>3. UNCHANGED <<StateDepth, TerminalDepth, Silenced, Releasing, InFlight>>
    BY <2>1 DEF StateDepth, TerminalDepth, Silenced, Releasing, InFlight
  <2> QED BY <2>1, <2>2, <2>3
          DEF Scheduler!vars, Scheduler!queues, Scheduler!choice, Silenced, Releasing,
              InFlight, Status
<1> QED BY <1>1, <1>2, <1>3, <1>4, <1>5, <1>6, <1>7, <1>8 DEF Next

LEMMA InitSchedules == Init => Scheduler!Init /\ FailedEmpty
<1> SUFFICES ASSUME Init PROVE Scheduler!Init /\ FailedEmpty OBVIOUS
<1>1. /\ controlQueue = <<>> /\ stateOrder = <<>> /\ terminalOrder = <<>>
      /\ stateLanes = [l \in StateLanes |-> EmptyStateLane]
      /\ terminalLanes = [l \in TerminalLanes |-> NoTerminalLane]
      /\ activeDelivery = NoFrame /\ terminalError = FALSE /\ rejection = "none"
      /\ controlRun = 0 /\ stateCursor = 0 /\ terminalCursor = 0
  BY DEF Init
<1>2. /\ NoTerminalLane.queue = <<>> /\ NoTerminalLane.suppressed = FALSE
      /\ NoTerminalLane.releasePending = FALSE
  BY DEF NoTerminalLane, NewTerminalLane
<1>3. Len(<<>>) = 0 OBVIOUS
<1>4. StateDepth = [l \in StateLanes |-> 0]
  BY <1>1, <1>3 DEF StateDepth, EmptyStateLane
<1>5. TerminalDepth = [l \in TerminalLanes |-> 0]
  BY <1>1, <1>2, <1>3 DEF TerminalDepth
<1>6. Silenced = {} /\ Releasing = {}
  BY <1>1, <1>2 DEF Silenced, Releasing, EmptyStateLane
<1>7. InFlight = <<"none">> /\ Status = "live" BY <1>1 DEF InFlight, Status
<1>8. FailedEmpty BY <1>1 DEF FailedEmpty
<1>9. Len(controlQueue) = 0 BY <1>1, <1>3
<1> QED BY <1>1, <1>4, <1>5, <1>6, <1>7, <1>8, <1>9
        DEF Scheduler!Init, Scheduler!Nobody, Silenced, Releasing, InFlight, Status

\* Whatever its bytes, positions and awaits, the pump schedules as
\* DeliveryScheduler: its initial state maps to the scheduler's, and every turn
\* (an admission, a release, an answer of the transport, a failure) to one of
\* the scheduler's steps or to none.
THEOREM PumpImplementsScheduler == Spec => ImplementsScheduler
<1>1. Init => SchedulingInv /\ Scheduler!Init
  BY InitQueues, InitSchedules DEF SchedulingInv
<1>2. SchedulingInv /\ [Next]_vars => SchedulingInv'
  BY NextQueues, NextFailedEmpty DEF SchedulingInv
<1>3. SchedulingInv /\ SchedulingInv' /\ [Next]_vars => [Scheduler!Next]_(Scheduler!vars)
  BY NextSchedules
<1> QED BY <1>1, <1>2, <1>3, PTL DEF Spec, ImplementsScheduler, Scheduler!Spec

-----------------------------------------------------------------------------
(* Sums over finite sets: the folds of Size and SumFunction. *)

LEMMA MinimalExists ==
    ASSUME NEW X, NEW Bad, Bad \subseteq FiniteSubsetsOf(X), Bad # {}
    PROVE  \E S \in Bad : \A T \in Bad : T \subseteq S => T = S
<1>1. IsWellFoundedOn(StrictSubsetOrdering(X), FiniteSubsetsOf(X))
  BY FS_StrictSubsetOrderingWellFounded
<1>2. PICK S \in Bad : \A T \in Bad : <<T, S>> \notin StrictSubsetOrdering(X)
  BY <1>1, WFMin
<1>3. \A T \in Bad : T \subseteq S /\ T # S => <<T, S>> \in StrictSubsetOrdering(X)
  BY DEF StrictSubsetOrdering, FiniteSubsetsOf
<1>4. \A T \in Bad : T \subseteq S => T = S
  BY <1>2, <1>3
<1> QED BY <1>4

Pick(S) == CHOOSE x \in S : TRUE

\* g is the fold that sums f on the subsets of S, and Total its value on S.
Folds(f, g, S) ==
    g = [T \in SUBSET S |-> IF T = {} THEN 0 ELSE f[Pick(T)] + g[T \ {Pick(T)}]]
Fold(f, S) == CHOOSE g : Folds(f, g, S)
Total(f, S) == Fold(f, S)[S]

LEMMA PickIn == \A S : S # {} => Pick(S) \in S
BY DEF Pick

LEMMA SumIs == \A f : SumFunction(f) = Total(f, DOMAIN f)
BY DEF SumFunction, SumFunctionOnSet, FoldFunctionOnSet, MapThenFoldSet, Total, Fold, Folds, Pick

Sizes(queue) == [i \in DOMAIN queue |-> queue[i].size]

LEMMA SizeIs ==
    ASSUME NEW queue
    PROVE  Size(queue) = Total(Sizes(queue), DOMAIN queue)
<1> DEFINE S == DOMAIN queue
           ByFrame(g) == g = [T \in SUBSET S |->
                                IF T = {} THEN 0 ELSE queue[Pick(T)].size + g[T \ {Pick(T)}]]
<1>1. Size(queue) = (CHOOSE g : ByFrame(g))[S]
  BY DEF Size, FoldSeq, FoldFunction, FoldFunctionOnSet, MapThenFoldSet, Pick
<1>2. \A T \in SUBSET S : T # {} => Sizes(queue)[Pick(T)] = queue[Pick(T)].size
  BY PickIn DEF Sizes
<1>3. \A g : ByFrame(g) <=> Folds(Sizes(queue), g, S)
  <2> TAKE g
  <2>1. [T \in SUBSET S |-> IF T = {} THEN 0 ELSE queue[Pick(T)].size + g[T \ {Pick(T)}]]
        = [T \in SUBSET S |->
              IF T = {} THEN 0 ELSE Sizes(queue)[Pick(T)] + g[T \ {Pick(T)}]]
    BY <1>2
  <2> QED BY <2>1 DEF Folds
<1> HIDE DEF ByFrame
<1>4. (CHOOSE g : ByFrame(g)) = CHOOSE g : Folds(Sizes(queue), g, S) BY <1>3
<1> QED BY <1>1, <1>4 DEF Total, Fold

LEMMA FoldsAgree ==
    ASSUME NEW X, NEW f, NEW S \in FiniteSubsetsOf(X), NEW T \in FiniteSubsetsOf(X),
           NEW g, NEW h, Folds(f, g, S), Folds(f, h, T)
    PROVE  \A U \in SUBSET (S \cap T) : g[U] = h[U]
<1> DEFINE Bad == {U \in SUBSET (S \cap T) : g[U] # h[U]}
<1>1. ASSUME Bad # {} PROVE FALSE
  <2>1. Bad \subseteq FiniteSubsetsOf(X)
    BY FS_Subset DEF FiniteSubsetsOf
  <2>2. PICK U \in Bad : \A V \in Bad : V \subseteq U => V = U
    <3> HIDE DEF Bad
    <3> QED BY <1>1, <2>1, MinimalExists
  <2>3. /\ g[U] = IF U = {} THEN 0 ELSE f[Pick(U)] + g[U \ {Pick(U)}]
        /\ h[U] = IF U = {} THEN 0 ELSE f[Pick(U)] + h[U \ {Pick(U)}]
    BY DEF Folds
  <2>4. U # {} BY <2>3
  <2>5. Pick(U) \in U BY <2>4, PickIn
  <2>6. U \ {Pick(U)} \notin Bad BY <2>2, <2>5
  <2>7. g[U \ {Pick(U)}] = h[U \ {Pick(U)}] BY <2>6
  <2> QED BY <2>3, <2>4, <2>7
<1> QED BY <1>1

LEMMA FoldsExists ==
    ASSUME NEW X, NEW f, NEW S \in FiniteSubsetsOf(X)
    PROVE  Folds(f, Fold(f, S), S)
<1> DEFINE Bad == {T \in FiniteSubsetsOf(X) : \A g : ~Folds(f, g, T)}
<1>1. ASSUME Bad # {} PROVE FALSE
  <2>1. Bad \subseteq FiniteSubsetsOf(X) OBVIOUS
  <2>2. PICK T \in Bad : \A U \in Bad : U \subseteq T => U = T
    <3> HIDE DEF Bad
    <3> QED BY <1>1, <2>1, MinimalExists
  <2>3. \A U \in SUBSET T : U \in FiniteSubsetsOf(X)
    BY FS_Subset DEF FiniteSubsetsOf
  <2>4. \A U \in SUBSET T : U # T => Folds(f, Fold(f, U), U)
    <3> SUFFICES ASSUME NEW U \in SUBSET T, U # T PROVE Folds(f, Fold(f, U), U)
      OBVIOUS
    <3>1. U \notin Bad BY <2>2
    <3>2. \E g : Folds(f, g, U) BY <2>3, <3>1
    <3> QED BY <3>2 DEF Fold
  <2> DEFINE val(U) == IF U = {} THEN 0
                       ELSE f[Pick(U)] + Fold(f, U \ {Pick(U)})[U \ {Pick(U)}]
             g == [U \in SUBSET T |-> val(U)]
  <2>5. \A U \in SUBSET T : U # T => Fold(f, U)[U] = val(U)
    <3> SUFFICES ASSUME NEW U \in SUBSET T, U # T PROVE Fold(f, U)[U] = val(U)
      OBVIOUS
    <3>1. Folds(f, Fold(f, U), U) BY <2>4
    <3>2. Fold(f, U)[U] = IF U = {} THEN 0 ELSE f[Pick(U)] + Fold(f, U)[U \ {Pick(U)}]
      BY <3>1 DEF Folds
    <3>3. CASE U # {}
      <4> DEFINE V == U \ {Pick(U)}
      <4>1. V \in SUBSET T /\ V # T /\ V \subseteq U BY PickIn
      <4>2. Folds(f, Fold(f, V), V) BY <2>4, <4>1
      <4>3. V \in FiniteSubsetsOf(X) /\ U \in FiniteSubsetsOf(X) BY <2>3, <4>1
      <4>4. V \in SUBSET (U \cap V) BY <4>1
      <4> HIDE DEF V
      <4>5. Fold(f, U)[V] = Fold(f, V)[V] BY <3>1, <4>2, <4>3, <4>4, FoldsAgree
      <4> QED BY <3>2, <3>3, <4>5 DEF V
    <3> QED BY <3>2, <3>3
  <2>6. Folds(f, g, T)
    <3> SUFFICES ASSUME NEW U \in SUBSET T
                 PROVE  g[U] = IF U = {} THEN 0 ELSE f[Pick(U)] + g[U \ {Pick(U)}]
      BY DEF Folds
    <3>1. CASE U # {}
      <4> DEFINE V == U \ {Pick(U)}
      <4>1. V \in SUBSET T /\ V # T BY <3>1, PickIn
      <4>2. g[V] = val(V) /\ g[U] = val(U) BY <4>1
      <4>3. Fold(f, V)[V] = val(V) BY <2>5, <4>1
      <4> QED BY <3>1, <4>2, <4>3
    <3> QED BY <3>1
  <2> QED BY <2>2, <2>6
<1>2. \E g : Folds(f, g, S) BY <1>1
<1> QED BY <1>2 DEF Fold

LEMMA TotalSteps ==
    ASSUME NEW X, NEW f
    PROVE  /\ Total(f, {}) = 0
           /\ \A S \in FiniteSubsetsOf(X) :
                 S # {} => Total(f, S) = f[Pick(S)] + Total(f, S \ {Pick(S)})
<1>1. {} \in FiniteSubsetsOf(X) BY FS_EmptySet DEF FiniteSubsetsOf
<1>2. Total(f, {}) = 0
  <2>1. Folds(f, Fold(f, {}), {}) BY <1>1, FoldsExists
  <2> QED BY <2>1 DEF Folds, Total
<1>3. ASSUME NEW S \in FiniteSubsetsOf(X), S # {}
      PROVE  Total(f, S) = f[Pick(S)] + Total(f, S \ {Pick(S)})
  <2> DEFINE T == S \ {Pick(S)}
  <2>1. T \in FiniteSubsetsOf(X) BY FS_Subset DEF FiniteSubsetsOf
  <2>2. Folds(f, Fold(f, S), S) /\ Folds(f, Fold(f, T), T) BY <2>1, FoldsExists
  <2>3. T \in SUBSET (S \cap T) OBVIOUS
  <2>4. Fold(f, S)[S] = f[Pick(S)] + Fold(f, S)[T] BY <1>3, <2>2 DEF Folds
  <2> HIDE DEF T
  <2>5. Fold(f, S)[T] = Fold(f, T)[T] BY <2>1, <2>2, <2>3, FoldsAgree
  <2> QED BY <2>4, <2>5 DEF T, Total
<1> QED BY <1>2, <1>3

LEMMA TotalEmpty == \A f : Total(f, {}) = 0
<1> TAKE f
<1> DEFINE X == {}
<1>1. Total(f, {}) = 0
  <2> HIDE DEF X
  <2> QED BY TotalSteps
<1> QED BY <1>1

LEMMA TotalInt ==
    ASSUME NEW X, NEW f, \A x \in X : f[x] \in Int
    PROVE  \A S \in FiniteSubsetsOf(X) : Total(f, S) \in Int
<1> DEFINE Bad == {S \in FiniteSubsetsOf(X) : Total(f, S) \notin Int}
<1>1. ASSUME Bad # {} PROVE FALSE
  <2>1. Bad \subseteq FiniteSubsetsOf(X) OBVIOUS
  <2>2. PICK S \in Bad : \A T \in Bad : T \subseteq S => T = S
    <3> HIDE DEF Bad
    <3> QED BY <1>1, <2>1, MinimalExists
  <2>3. S # {}
    <3>1. Total(f, {}) \in Int BY TotalEmpty
    <3>2. Total(f, S) \notin Int BY <2>2
    <3> QED BY <3>1, <3>2
  <2>4. Pick(S) \in S BY <2>3, PickIn
  <2>5. S \ {Pick(S)} \in FiniteSubsetsOf(X) BY FS_Subset DEF FiniteSubsetsOf
  <2>6. Total(f, S \ {Pick(S)}) \in Int BY <2>2, <2>4, <2>5
  <2>7. Pick(S) \in X BY <2>4 DEF FiniteSubsetsOf
  <2>8. f[Pick(S)] \in Int BY <2>7
  <2>9. Total(f, S) = f[Pick(S)] + Total(f, S \ {Pick(S)}) BY <2>3, TotalSteps
  <2> QED BY <2>2, <2>6, <2>8, <2>9
<1> QED BY <1>1

\* Whichever element is taken out first.
LEMMA TotalRemove ==
    ASSUME NEW X, NEW f, \A x \in X : f[x] \in Int
    PROVE  \A S \in FiniteSubsetsOf(X) : \A r \in S : Total(f, S) = f[r] + Total(f, S \ {r})
<1> DEFINE Bad == {S \in FiniteSubsetsOf(X) :
                      \E r \in S : Total(f, S) # f[r] + Total(f, S \ {r})}
<1>1. ASSUME Bad # {} PROVE FALSE
  <2>1. Bad \subseteq FiniteSubsetsOf(X) OBVIOUS
  <2>2. PICK S \in Bad : \A T \in Bad : T \subseteq S => T = S
    <3> HIDE DEF Bad
    <3> QED BY <1>1, <2>1, MinimalExists
  <2>3. PICK r \in S : Total(f, S) # f[r] + Total(f, S \ {r}) BY <2>2
  <2> DEFINE x == Pick(S)
  <2>4. x \in S BY PickIn
  <2>5. /\ S \ {x} \in FiniteSubsetsOf(X) /\ S \ {r} \in FiniteSubsetsOf(X)
        /\ (S \ {x}) \ {r} \in FiniteSubsetsOf(X)
    BY FS_Subset DEF FiniteSubsetsOf
  <2>6. Total(f, S) = f[x] + Total(f, S \ {x}) BY <2>2, TotalSteps
  <2>7. x # r BY <2>3, <2>6
  <2>8. S \ {x} \notin Bad /\ S \ {r} \notin Bad BY <2>2, <2>4
  <2>9. Total(f, S \ {x}) = f[r] + Total(f, (S \ {x}) \ {r}) BY <2>5, <2>7, <2>8
  <2>10. Total(f, S \ {r}) = f[x] + Total(f, (S \ {r}) \ {x}) BY <2>4, <2>5, <2>7, <2>8
  <2>11. (S \ {x}) \ {r} = (S \ {r}) \ {x} OBVIOUS
  <2>12. x \in X /\ r \in X BY <2>4 DEF FiniteSubsetsOf
  <2>13. f[x] \in Int /\ f[r] \in Int BY <2>12
  <2>14. Total(f, (S \ {x}) \ {r}) \in Int BY <2>5, TotalInt
  <2> DEFINE a == f[x]  b == f[r]  rest == Total(f, (S \ {x}) \ {r})
  <2>15. Total(f, S) = a + (b + rest) /\ Total(f, S \ {r}) = a + rest
    BY <2>6, <2>9, <2>10, <2>11
  <2>16. a \in Int /\ b \in Int /\ rest \in Int BY <2>13, <2>14
  <2>17. a + (b + rest) = b + (a + rest)
    <3> HIDE DEF a, b, rest
    <3> QED BY <2>16
  <2> QED BY <2>3, <2>15, <2>17
<1> QED BY <1>1

LEMMA TotalEqual ==
    ASSUME NEW X, NEW f, NEW g, NEW R \in FiniteSubsetsOf(X), \A x \in R : f[x] = g[x]
    PROVE  Total(f, R) = Total(g, R)
<1> DEFINE Bad == {S \in SUBSET R : Total(f, S) # Total(g, S)}
<1>1. ASSUME Bad # {} PROVE FALSE
  <2>1. Bad \subseteq FiniteSubsetsOf(X) BY FS_Subset DEF FiniteSubsetsOf
  <2>2. PICK S \in Bad : \A T \in Bad : T \subseteq S => T = S
    <3> HIDE DEF Bad
    <3> QED BY <1>1, <2>1, MinimalExists
  <2>3. S # {} BY TotalSteps
  <2>4. Pick(S) \in S BY <2>3, PickIn
  <2>5. S \ {Pick(S)} \notin Bad BY <2>2, <2>4
  <2>6. Total(f, S \ {Pick(S)}) = Total(g, S \ {Pick(S)}) BY <2>5
  <2>7. /\ Total(f, S) = f[Pick(S)] + Total(f, S \ {Pick(S)})
        /\ Total(g, S) = g[Pick(S)] + Total(g, S \ {Pick(S)})
    BY <2>1, <2>3, TotalSteps
  <2> QED BY <2>4, <2>6, <2>7
<1> QED BY <1>1

LEMMA TotalWithout ==
    ASSUME NEW X, NEW f, \A x \in X : f[x] \in Int, NEW S \in FiniteSubsetsOf(X), NEW r \in S
    PROVE  Total(f, S) = f[r] + Total(f, S \ {r})
BY TotalRemove

\* A sum after one of its terms has changed, and a sum of nothing.
LEMMA SumChanged ==
    ASSUME NEW X, IsFiniteSet(X), NEW f \in [X -> Int], NEW g \in [X -> Int], NEW l \in X,
           \A x \in X : x # l => g[x] = f[x]
    PROVE  /\ SumFunction(f) \in Int /\ SumFunction(g) \in Int
           /\ SumFunction(g) = SumFunction(f) - f[l] + g[l]
<1>1. X \in FiniteSubsetsOf(X) /\ X \ {l} \in FiniteSubsetsOf(X)
  BY FS_Subset DEF FiniteSubsetsOf
<1>2. SumFunction(f) = Total(f, X) /\ SumFunction(g) = Total(g, X) BY SumIs
<1>3. /\ Total(f, X) = f[l] + Total(f, X \ {l}) /\ Total(g, X) = g[l] + Total(g, X \ {l})
  BY <1>1, TotalRemove
<1>4. Total(f, X \ {l}) = Total(g, X \ {l}) BY <1>1, TotalEqual
<1>5. Total(f, X) \in Int /\ Total(g, X) \in Int /\ Total(f, X \ {l}) \in Int
  BY <1>1, TotalInt
<1>6. f[l] \in Int /\ g[l] \in Int OBVIOUS
<1> DEFINE a == f[l]  b == g[l]  rest == Total(f, X \ {l})
<1>7. SumFunction(f) = a + rest /\ SumFunction(g) = b + rest BY <1>2, <1>3, <1>4
<1>8. a \in Int /\ b \in Int /\ rest \in Int BY <1>5, <1>6
<1>9. b + rest = (a + rest) - a + b
  <2> HIDE DEF a, b, rest
  <2> QED BY <1>8
<1> QED BY <1>2, <1>5, <1>7, <1>9

LEMMA SumZero ==
    ASSUME NEW X, IsFiniteSet(X), NEW f, f = [x \in X |-> 0]
    PROVE  SumFunction(f) = 0
<1> DEFINE Bad == {S \in SUBSET X : Total(f, S) # 0}
<1>1. ASSUME Bad # {} PROVE FALSE
  <2>1. Bad \subseteq FiniteSubsetsOf(X) BY FS_Subset DEF FiniteSubsetsOf
  <2>2. PICK S \in Bad : \A T \in Bad : T \subseteq S => T = S
    <3> HIDE DEF Bad
    <3> QED BY <1>1, <2>1, MinimalExists
  <2>3. S # {} BY TotalSteps
  <2>4. Pick(S) \in S BY <2>3, PickIn
  <2>5. S \ {Pick(S)} \notin Bad BY <2>2, <2>4
  <2>6. Total(f, S) = f[Pick(S)] + Total(f, S \ {Pick(S)}) BY <2>1, <2>3, TotalSteps
  <2>7. f[Pick(S)] = 0 /\ Total(f, S \ {Pick(S)}) = 0 BY <2>4, <2>5
  <2> QED BY <2>6, <2>7
<1>2. Total(f, X) = 0 BY <1>1
<1> QED BY <1>2, SumIs

\* The counter of a queue is the fold of its frames' sizes.
LEMMA AccountedSize ==
    ASSUME NEW S, NEW queue \in Seq(S), \A frame \in S : frame.size \in Nat,
           NEW bytes, Accounted(queue, bytes)
    PROVE  bytes = Size(queue)
<1> DEFINE n == Len(queue)
           f == Sizes(queue)
<1>1. PICK sum : PrefixSums(queue, sum) /\ sum[n] = bytes
  BY DEF Accounted
<1>2. n \in Nat /\ DOMAIN queue = 1..n OBVIOUS
<1>3. \A i \in 1..n : f[i] = queue[i].size /\ f[i] \in Int
  <2> TAKE i \in 1..n
  <2>1. queue[i] \in S BY ElementOfSeq
  <2>2. queue[i].size \in Nat BY <2>1
  <2> QED BY <1>2, <2>2 DEF Sizes
<1>4. /\ sum[0] = 0
      /\ \A i \in 1..n : sum[i] = sum[i - 1] + f[i] /\ sum[i - 1] \in Int
  <2>1. \A i \in 1..n : i - 1 \in 0..n BY <1>2
  <2> HIDE DEF f
  <2> QED BY <1>1, <1>3, <2>1 DEF PrefixSums
<1> HIDE DEF f
<1>5. \A i \in 0..n : 1..i \in FiniteSubsetsOf(1..n)
  <2> TAKE i \in 0..n
  <2>1. i \in Nat /\ 1..i \subseteq 1..n BY <1>2
  <2>2. IsFiniteSet(1..i) BY <2>1, FS_Interval
  <2> QED BY <2>1, <2>2 DEF FiniteSubsetsOf
<1> DEFINE Bad == {T \in FiniteSubsetsOf(1..n) : \E i \in 0..n : T = 1..i /\ Total(f, T) # sum[i]}
<1>6. ASSUME Bad # {} PROVE FALSE
  <2>1. Bad \subseteq FiniteSubsetsOf(1..n) OBVIOUS
  <2>2. PICK T \in Bad : \A U \in Bad : U \subseteq T => U = T
    <3> HIDE DEF Bad
    <3> QED BY <1>6, <2>1, MinimalExists
  <2>3. PICK i \in 0..n : T = 1..i /\ Total(f, T) # sum[i] BY <2>2
  <2>4. i # 0
    <3>1. 1..0 = {} OBVIOUS
    <3>2. Total(f, {}) = 0 BY TotalSteps
    <3> QED BY <1>4, <2>3, <3>1, <3>2
  <2>5. i \in 1..n /\ i - 1 \in 0..n /\ i \in T BY <1>2, <2>3, <2>4
  <2>6. T \ {i} = 1..(i - 1) BY <1>2, <2>3, <2>5
  <2>7. 1..(i - 1) \notin Bad
    <3>1. 1..(i - 1) \subseteq T /\ 1..(i - 1) # T BY <2>5, <2>6
    <3> HIDE DEF Bad
    <3> QED BY <2>2, <3>1
  <2>8. Total(f, 1..(i - 1)) = sum[i - 1] BY <1>5, <2>5, <2>7
  <2>9. Total(f, T) = f[i] + Total(f, T \ {i})
    <3> DEFINE X == 1..n
    <3>1. \A x \in X : f[x] \in Int BY <1>3
    <3>2. T \in FiniteSubsetsOf(X) BY <2>2
    <3> HIDE DEF Bad, X
    <3> QED BY <2>5, <3>1, <3>2, TotalWithout
  <2>10. f[i] \in Int /\ sum[i - 1] \in Int /\ sum[i] = sum[i - 1] + f[i] BY <1>3, <1>4, <2>5
  <2>11. Total(f, T) = f[i] + sum[i - 1] BY <2>6, <2>8, <2>9
  <2> HIDE DEF Bad
  <2> QED BY <2>3, <2>10, <2>11
<1>7. Total(f, 1..n) = sum[n]
  <2>1. n \in 0..n BY <1>2
  <2>2. 1..n \notin Bad BY <1>6
  <2> QED BY <1>5, <2>1, <2>2
<1> QED BY <1>1, <1>2, <1>7, SizeIs DEF f

-----------------------------------------------------------------------------
(* The counters of a class are the sums of its lanes' counters. *)

StateCounters == [l \in StateLanes |-> stateLanes[l].queuedBytes]
TerminalCounters == [l \in TerminalLanes |-> terminalLanes[l].queuedBytes]

StateTotal == stateBytes = SumFunction(StateCounters)
TerminalTotal == terminalBytes = SumFunction(TerminalCounters)

TotalsOK == Accounted(controlQueue, controlBytes) /\ StateTotal /\ TerminalTotal

AccountingInv == SchedulingInv /\ TotalsOK

CountersOK ==
    /\ StateCounters \in [StateLanes -> Int]
    /\ TerminalCounters \in [TerminalLanes -> Int]

LEMMA CountersType == QueueTypes => CountersOK
BY DEF CountersOK, QueueTypes, StateLane, TerminalLane, StateCounters, TerminalCounters

LEMMA StateTotalChanged ==
    ASSUME QueueTypes, QueueTypes', StateTotal, NEW l \in StateLanes,
           \A m \in StateLanes : m # l => stateLanes'[m] = stateLanes[m],
           stateBytes' = stateBytes - stateLanes[l].queuedBytes + stateLanes'[l].queuedBytes
    PROVE  StateTotal'
<1> DEFINE f == StateCounters
           g == StateCounters'
<1>1. CountersOK /\ CountersOK' BY CountersType, PTL
<1>2. f \in [StateLanes -> Int] /\ g \in [StateLanes -> Int] BY <1>1 DEF CountersOK
<1>3. /\ \A m \in StateLanes : m # l => g[m] = f[m]
      /\ f[l] = stateLanes[l].queuedBytes /\ g[l] = stateLanes'[l].queuedBytes
  BY DEF StateCounters
<1> HIDE DEF f, g
<1>4. SumFunction(g) = SumFunction(f) - f[l] + g[l] BY <1>1, <1>2, <1>3, LanesAssumption, SumChanged
<1>5. stateBytes' = SumFunction(g) BY <1>3, <1>4 DEF StateTotal, f
<1> QED BY <1>5 DEF StateTotal, g

LEMMA TerminalTotalChanged ==
    ASSUME QueueTypes, QueueTypes', TerminalTotal, NEW l \in TerminalLanes,
           \A m \in TerminalLanes : m # l => terminalLanes'[m] = terminalLanes[m],
           terminalBytes' = terminalBytes - terminalLanes[l].queuedBytes
                                + terminalLanes'[l].queuedBytes
    PROVE  TerminalTotal'
<1> DEFINE f == TerminalCounters
           g == TerminalCounters'
<1>1. CountersOK /\ CountersOK' BY CountersType, PTL
<1>2. f \in [TerminalLanes -> Int] /\ g \in [TerminalLanes -> Int] BY <1>1 DEF CountersOK
<1>3. /\ \A m \in TerminalLanes : m # l => g[m] = f[m]
      /\ f[l] = terminalLanes[l].queuedBytes /\ g[l] = terminalLanes'[l].queuedBytes
  BY DEF TerminalCounters
<1> HIDE DEF f, g
<1>4. SumFunction(g) = SumFunction(f) - f[l] + g[l] BY <1>1, <1>2, <1>3, LanesAssumption, SumChanged
<1>5. terminalBytes' = SumFunction(g) BY <1>3, <1>4 DEF TerminalTotal, f
<1> QED BY <1>5 DEF TerminalTotal, g

NothingQueued ==
    /\ controlQueue = <<>> /\ controlBytes = 0 /\ stateBytes = 0 /\ terminalBytes = 0
    /\ stateLanes = [l \in StateLanes |-> EmptyStateLane]
    /\ terminalLanes = [l \in TerminalLanes |-> NoTerminalLane]

LEMMA NothingQueuedTotals == NothingQueued => TotalsOK
<1> SUFFICES ASSUME NothingQueued PROVE TotalsOK
  OBVIOUS
<1>1. StateCounters = [l \in StateLanes |-> 0]
  BY DEF StateCounters, EmptyStateLane, NothingQueued
<1>2. TerminalCounters = [l \in TerminalLanes |-> 0]
  BY DEF TerminalCounters, NoTerminalLane, NewTerminalLane, NothingQueued
<1>3. SumFunction(StateCounters) = 0 /\ SumFunction(TerminalCounters) = 0
  BY <1>1, <1>2, LanesAssumption, SumZero
<1> QED BY <1>3, AccountedEmpty DEF TotalsOK, StateTotal, TerminalTotal, NothingQueued

\* fail() zeroes the counters with the queues.
LEMMA FailedTotals == ASSUME Failed PROVE TotalsOK'
<1>1. /\ controlQueue' = <<>> /\ controlBytes' = 0 /\ stateBytes' = 0 /\ terminalBytes' = 0
      /\ stateLanes' = [l \in StateLanes |-> EmptyStateLane]
      /\ terminalLanes' = [l \in TerminalLanes |-> NoTerminalLane]
  BY DEF Failed
<1>2. NothingQueued' BY <1>1 DEF NothingQueued
<1> QED BY <1>2, NothingQueuedTotals, PTL

LEMMA TotalsUntouched ==
    ASSUME TotalsOK, UNCHANGED <<controlVars, stateVars, terminalVars>>
    PROVE  TotalsOK'
BY DEF TotalsOK, StateTotal, TerminalTotal, StateCounters, TerminalCounters,
       controlVars, stateVars, terminalVars

\* What leaves the lanes of a class alone leaves their sum alone.
LEMMA OtherTotals ==
    /\ StateTotal /\ UNCHANGED <<stateLanes, stateBytes>> => StateTotal'
    /\ TerminalTotal /\ UNCHANGED <<terminalLanes, terminalBytes>> => TerminalTotal'
BY DEF StateTotal, TerminalTotal, StateCounters, TerminalCounters

LEMMA SendControlTotals ==
    ASSUME AccountingInv, NEW size \in ControlSizes, SendControl(size)
    PROVE  TotalsOK'
<1> DEFINE frame == [class |-> "control", size |-> size]
<1>1. Accounted(controlQueue, controlBytes) /\ controlQueue \in Seq(ControlFrame)
  BY InvNow DEF AccountingInv, TotalsOK, QueueTypes
<1>2. frame \in ControlFrame /\ frame.size = size /\ size \in Nat
  BY FramesAssumption DEF ControlFrame
<1>3. /\ controlQueue' = Append(controlQueue, frame) /\ controlBytes' = controlBytes + size
      /\ UNCHANGED <<stateVars, terminalVars>>
  BY DEF SendControl
<1> HIDE DEF frame
<1>4. Accounted(controlQueue', controlBytes')
  BY <1>1, <1>2, <1>3, AccountedAppend
<1>5. StateTotal' /\ TerminalTotal'
  BY <1>3, OtherTotals DEF AccountingInv, TotalsOK, stateVars, terminalVars
<1> QED BY <1>4, <1>5 DEF TotalsOK

LEMMA SendStateTotals ==
    ASSUME AccountingInv, SchedulingInv', NEW l \in StateLanes, NEW key \in Keys,
           NEW size \in StateSizes, SendState(l, key, size)
    PROVE  TotalsOK'
<1> DEFINE rest == WithoutKey(l, key)
           bytes == stateLanes[l].queuedBytes
<1>1. SchedulingInv /\ TotalsOK BY DEF AccountingInv
<1>2. QueueTypes /\ QueueTypes' /\ Inv BY <1>1, InvNow, PTL
<1>3. /\ stateLanes \in [StateLanes -> StateLane] /\ bytes \in Int /\ stateBytes \in Int
  BY <1>2, InvParts DEF QueueTypes, StateLane, OtherTypes
<1>4. /\ \A m \in StateLanes : m # l => stateLanes'[m] = stateLanes[m]
      /\ stateBytes' = stateBytes - bytes + stateLanes'[l].queuedBytes
  <2>1. CASE CongestState(l)
    <3> DEFINE kept == InFlightOf(l)
               fits == ResyncBytes <= MaxStateQueuedBytes
               marker == IF fits THEN <<[class |-> "state_resync", lane |-> l,
                                         size |-> ResyncBytes]>>
                                 ELSE <<>>
               after == BytesOf(kept) + BytesOf(marker)
               queue == kept \o marker
    <3>1. /\ stateLanes' = [stateLanes EXCEPT
                ![l].queue = queue, ![l].queuedBytes = after, ![l].resyncPending = fits]
          /\ stateBytes' = stateBytes - bytes + after
      BY <2>1 DEF CongestState
    <3> HIDE DEF queue, after, fits, bytes
    <3> QED BY <1>3, <3>1 DEF StateLane
  <2>2. CASE QueueState(l, key, size, rest)
    <3> DEFINE frame == [class |-> "state", lane |-> l, key |-> key,
                         copy |-> CopyOf(key), size |-> size]
               added == size - rest.dropped
               queue == Append(rest.queue, frame)
    <3>1. /\ stateLanes' = [stateLanes EXCEPT ![l].queue = queue,
                                              ![l].queuedBytes = bytes + added]
          /\ stateBytes' = stateBytes + added
      BY <2>2 DEF QueueState
    <3>2. added \in Int
      <4>1. rest.dropped \in Int BY <1>2, WithoutKeyType
      <4>2. size \in Nat BY FramesAssumption
      <4> QED BY <4>1, <4>2
    <3> HIDE DEF queue, added, rest, bytes
    <3>3. /\ stateLanes'[l].queuedBytes = bytes + added
          /\ \A m \in StateLanes : m # l => stateLanes'[m] = stateLanes[m]
      BY <1>3, <3>1 DEF StateLane
    <3>4. stateBytes + added = stateBytes - bytes + (bytes + added) BY <1>3, <3>2
    <3> QED BY <3>1, <3>3, <3>4
  <2> QED BY <2>1, <2>2 DEF SendState
<1>5. UNCHANGED <<controlVars, terminalVars>> BY DEF SendState
<1>6. StateTotal BY <1>1 DEF TotalsOK
<1>7. StateTotal' BY <1>2, <1>4, <1>6, StateTotalChanged
<1>8. TerminalTotal' /\ Accounted(controlQueue, controlBytes)'
  BY <1>1, <1>5, OtherTotals DEF TotalsOK, controlVars, terminalVars
<1> QED BY <1>7, <1>8 DEF TotalsOK

LEMMA CompleteControlTotals ==
    ASSUME AccountingInv, ~terminalError, CompleteControl(activeDelivery)
    PROVE  TotalsOK'
<1>1. Accounted(controlQueue, controlBytes) /\ controlQueue \in Seq(ControlFrame)
  BY InvNow DEF AccountingInv, TotalsOK, QueueTypes
<1>2. controlQueue # <<>> /\ Head(controlQueue) = activeDelivery
  BY DEF CompleteControl, AccountingInv, SchedulingInv, QueuesInv, ActiveHeads
<1>3. /\ controlQueue' = Tail(controlQueue)
      /\ controlBytes' = controlBytes - activeDelivery.size
      /\ UNCHANGED <<stateVars, terminalVars>>
  BY <1>2 DEF CompleteControl
<1>4. controlQueue[1] = activeDelivery BY <1>1, <1>2, HeadTailProperties
<1>5. \A frame \in ControlFrame : frame.size \in Nat BY ControlSize
<1>6. Accounted(controlQueue', controlBytes')
  BY <1>1, <1>2, <1>3, <1>4, <1>5, AccountedTail
<1>7. StateTotal' /\ TerminalTotal'
  BY <1>3, OtherTotals DEF AccountingInv, TotalsOK, stateVars, terminalVars
<1> QED BY <1>6, <1>7 DEF TotalsOK

\* The counter of a queue of one frame, and of none.
LEMMA AccountedSmall ==
    ASSUME NEW bytes
    PROVE  /\ Accounted(<<>>, bytes) => bytes = 0
           /\ \A S : \A queue \in Seq(S) :
                 Len(queue) = 1 /\ Accounted(queue, bytes) /\ queue[1].size \in Nat =>
                    bytes = queue[1].size
<1>1. Accounted(<<>>, bytes) => bytes = 0
  <2>1. Len(<<>>) = 0 OBVIOUS
  <2> QED BY <2>1 DEF Accounted, PrefixSums
<1>2. ASSUME NEW S, NEW queue \in Seq(S), Len(queue) = 1, Accounted(queue, bytes),
             queue[1].size \in Nat
      PROVE  bytes = queue[1].size
  <2>1. PICK sum : PrefixSums(queue, sum) /\ sum[1] = bytes BY <1>2 DEF Accounted
  <2>2. sum[0] = 0 /\ sum[1] = sum[1 - 1] + queue[1].size
    <3>1. 1 \in 1..Len(queue) BY <1>2
    <3> QED BY <2>1, <3>1 DEF PrefixSums
  <2>3. 1 - 1 = 0 OBVIOUS
  <2> QED BY <1>2, <2>1, <2>2, <2>3
<1> QED BY <1>1, <1>2

LEMMA CompleteStateTotals ==
    ASSUME AccountingInv, SchedulingInv', ~terminalError, CompleteState(activeDelivery),
           NEW l \in StateLanes, activeDelivery.lane = l
    PROVE  TotalsOK'
<1> DEFINE lane == stateLanes[l]
           bytes == lane.queuedBytes
           size == activeDelivery.size
<1>1. SchedulingInv /\ TotalsOK BY DEF AccountingInv
<1>2. QueueTypes /\ QueueTypes' /\ Inv BY <1>1, InvNow, PTL
<1>3. /\ stateLanes \in [StateLanes -> StateLane] /\ lane \in StateLane
      /\ lane.queue \in Seq(StateFrames) /\ bytes \in Int /\ stateBytes \in Int
  BY <1>2, InvParts DEF QueueTypes, StateLane, OtherTypes
<1>4. activeDelivery \in StateFrames /\ size \in Nat BY StateSize DEF CompleteState
<1>5. lane.queue # <<>> /\ Head(lane.queue) = activeDelivery /\ lane.queue[1] = activeDelivery
  <2>1. lane.queue # <<>> /\ Head(lane.queue) = activeDelivery
    BY <1>1, <1>4 DEF SchedulingInv, QueuesInv, ActiveHeads
  <2> HIDE DEF lane
  <2> QED BY <1>3, <2>1, HeadTailProperties
<1>6. /\ stateBytes' = stateBytes - size
      /\ IF Len(lane.queue) = 1
         THEN stateLanes' = [stateLanes EXCEPT ![l] = EmptyStateLane]
         ELSE stateLanes' = [stateLanes EXCEPT ![l].queue = Tail(lane.queue),
                                               ![l].queuedBytes = bytes - size]
      /\ UNCHANGED <<controlVars, terminalVars>>
  BY <1>5 DEF CompleteState
<1>7. /\ \A m \in StateLanes : m # l => stateLanes'[m] = stateLanes[m]
      /\ stateBytes' = stateBytes - bytes + stateLanes'[l].queuedBytes
  <2>1. CASE Len(lane.queue) = 1
    <3>1. bytes = size
      <4>1. Accounted(lane.queue, bytes)
        BY <1>1 DEF SchedulingInv, QueuesInv, StatesOK, StateLaneOK
      <4> HIDE DEF lane, bytes
      <4> QED BY <1>3, <1>4, <1>5, <2>1, <4>1, AccountedSmall
    <3>2. stateLanes' = [stateLanes EXCEPT ![l] = EmptyStateLane] BY <1>6, <2>1
    <3>3. stateLanes'[l].queuedBytes = 0
          /\ \A m \in StateLanes : m # l => stateLanes'[m] = stateLanes[m]
      BY <1>3, <3>2 DEF EmptyStateLane
    <3> HIDE DEF lane, bytes, size
    <3> QED BY <1>3, <1>6, <3>1, <3>3
  <2>2. CASE Len(lane.queue) # 1
    <3> DEFINE after == bytes - size
               queue == Tail(lane.queue)
    <3>1. stateLanes' = [stateLanes EXCEPT ![l].queue = queue, ![l].queuedBytes = after]
      BY <1>6, <2>2
    <3>2. after \in Int BY <1>3, <1>4
    <3> HIDE DEF after, queue
    <3>3. stateLanes'[l].queuedBytes = after
          /\ \A m \in StateLanes : m # l => stateLanes'[m] = stateLanes[m]
      BY <1>3, <3>1 DEF StateLane
    <3>4. stateBytes - size = stateBytes - bytes + after
      <4> HIDE DEF bytes, size
      <4> QED BY <1>3, <1>4 DEF after
    <3> QED BY <1>6, <3>3, <3>4
  <2> QED BY <2>1, <2>2
<1>8. StateTotal BY <1>1 DEF TotalsOK
<1>9. StateTotal'
  <2> HIDE DEF lane
  <2> QED BY <1>2, <1>7, <1>8, StateTotalChanged DEF lane
<1>10. TerminalTotal' /\ Accounted(controlQueue, controlBytes)'
  BY <1>1, <1>6, OtherTotals DEF TotalsOK, controlVars, terminalVars
<1> QED BY <1>9, <1>10 DEF TotalsOK

\* One terminal lane is replaced, and the total follows its counter.
LEMMA TerminalReplacedTotals ==
    ASSUME AccountingInv, SchedulingInv', NEW l \in TerminalLanes, NEW new,
           terminalLanes' = [terminalLanes EXCEPT ![l] = new],
           terminalBytes' = terminalBytes - terminalLanes[l].queuedBytes + new.queuedBytes,
           UNCHANGED <<controlVars, stateVars>>
    PROVE  TotalsOK'
<1>1. SchedulingInv /\ TotalsOK BY DEF AccountingInv
<1>2. QueueTypes /\ QueueTypes' BY <1>1, InvNow, PTL
<1>3. /\ terminalLanes'[l] = new
      /\ \A m \in TerminalLanes : m # l => terminalLanes'[m] = terminalLanes[m]
  BY <1>2 DEF QueueTypes
<1>4. TerminalTotal BY <1>1 DEF TotalsOK
<1>5. terminalBytes' = terminalBytes - terminalLanes[l].queuedBytes
                          + terminalLanes'[l].queuedBytes
  BY <1>3
<1>6. TerminalTotal' BY <1>2, <1>3, <1>4, <1>5, TerminalTotalChanged
<1>7. StateTotal' /\ Accounted(controlQueue, controlBytes)'
  BY <1>1, OtherTotals DEF TotalsOK, controlVars, stateVars
<1> QED BY <1>6, <1>7 DEF TotalsOK

LEMMA LaneForCounter ==
    ASSUME SchedulingInv, NEW l \in TerminalLanes, NEW range
    PROVE  LaneFor(l, range).queuedBytes = terminalLanes[l].queuedBytes
<1>1. CASE terminalLanes[l].open BY <1>1 DEF LaneFor
<1>2. CASE ~terminalLanes[l].open
  <2>1. terminalLanes[l].queue = <<>> BY <1>2, InvNow, ClosedLaneEmpty
  <2>2. Accounted(terminalLanes[l].queue, terminalLanes[l].queuedBytes)
    BY DEF SchedulingInv, QueuesInv, TerminalsOK, TerminalLaneOK
  <2>3. terminalLanes[l].queuedBytes = 0 BY <2>1, <2>2, AccountedSmall
  <2> QED BY <1>2, <2>3 DEF LaneFor, NewTerminalLane
<1> QED BY <1>1, <1>2

\* The counters a step about one terminal lane reads are integers.
LEMMA Counters ==
    ASSUME SchedulingInv, NEW l \in TerminalLanes
    PROVE  /\ terminalLanes[l] \in TerminalLane
           /\ terminalLanes[l].queue \in Seq(TerminalFrames)
           /\ terminalLanes[l].queuedBytes \in Int /\ terminalBytes \in Int
           /\ Accounted(terminalLanes[l].queue, terminalLanes[l].queuedBytes)
BY InvNow, InvParts
   DEF QueueTypes, TerminalLane, OtherTypes, SchedulingInv, QueuesInv, TerminalsOK,
       TerminalLaneOK

LEMMA CongestTerminalTotals ==
    ASSUME AccountingInv, SchedulingInv', ~terminalError, NEW l \in TerminalLanes, NEW range,
           NEW lane, DOMAIN lane = DOMAIN NoTerminalLane,
           lane.queuedBytes = terminalLanes[l].queuedBytes,
           CongestTerminal(l, lane, range)
    PROVE  TotalsOK'
<1> DEFINE kept == InFlightOf(l)
           head == IF range.to > lane.head THEN range.to ELSE lane.head
           from == IF kept # <<>> /\ kept[1].to > lane.sent THEN kept[1].to ELSE lane.sent
           skip == [class |-> "terminal_skip", lane |-> l, from |-> from, to |-> head,
                    size |-> SkipBytes]
           queue == Append(kept, skip)
           after == BytesOf(kept) + SkipBytes
           new == [lane EXCEPT !.queue = queue, !.queuedBytes = after,
                               !.head = head, !.suppressed = TRUE]
<1>1. CASE Failed BY <1>1, FailedTotals
<1>2. CASE ~Failed
  <2>1. /\ terminalLanes' = [terminalLanes EXCEPT ![l] = new]
        /\ terminalBytes' = terminalBytes - lane.queuedBytes + BytesOf(kept) + SkipBytes
        /\ UNCHANGED <<controlVars, stateVars>>
    BY <1>2 DEF CongestTerminal
  <2>2. /\ terminalLanes[l].queuedBytes \in Int /\ terminalBytes \in Int
    BY Counters DEF AccountingInv
  <2>3. BytesOf(kept) \in Int /\ SkipBytes \in Int
    <3>1. SchedulingInv /\ Inv BY InvNow DEF AccountingInv
    <3>2. BytesOf(kept) \in Int BY <3>1, KeptBytes
    <3> QED BY <3>2, FramesAssumption
  <2>4. new.queuedBytes = after
    <3>1. "queuedBytes" \in DOMAIN lane BY DEF NoTerminalLane, NewTerminalLane
    <3> HIDE DEF queue, after, head
    <3> QED BY <3>1
  <2>5. terminalBytes' = terminalBytes - terminalLanes[l].queuedBytes + new.queuedBytes
    <3> HIDE DEF new, kept
    <3> QED BY <2>1, <2>2, <2>3, <2>4
  <2> HIDE DEF new
  <2> QED BY <2>1, <2>5, TerminalReplacedTotals
<1> QED BY <1>1, <1>2

LEMMA SendTerminalTotals ==
    ASSUME AccountingInv, SchedulingInv', NEW l \in TerminalLanes, NEW range \in Ranges,
           SendTerminal(l, range)
    PROVE  TotalsOK'
<1> DEFINE lane == LaneFor(l, range)
           since == IF lane.unconfirmedSince = "none" THEN "recent" ELSE lane.unconfirmedSince
           admitted == [lane EXCEPT !.unconfirmedSince = since, !.head = range.to]
<1>1. /\ ~terminalError /\ ~terminalLanes[l].releasePending /\ ~terminalLanes[l].suppressed
      /\ SendOutput(l, range) \/ SendOutOfOrder(l, range)
  BY DEF SendTerminal
<1>2. SchedulingInv /\ Inv BY InvNow DEF AccountingInv
<1>3. lane \in TerminalLane /\ lane.queuedBytes = terminalLanes[l].queuedBytes
  BY <1>1, <1>2, LaneForSchedules, LaneForCounter
<1>4. \A held \in TerminalLane : DOMAIN held = DOMAIN NoTerminalLane
  <2>1. NoTerminalLane \in TerminalLane BY EmptyLanes
  <2> QED BY <2>1 DEF TerminalLane
<1>5. terminalLanes[l] \in TerminalLane BY <1>2, Counters
<1> HIDE DEF lane
<1>6. /\ DOMAIN admitted = DOMAIN NoTerminalLane
      /\ admitted.queuedBytes = terminalLanes[l].queuedBytes
      /\ admitted.queue = lane.queue
      /\ {"queue", "queuedBytes"} \subseteq DOMAIN admitted
  <2> HIDE DEF since
  <2> QED BY <1>3, <1>4 DEF TerminalLane
<1> HIDE DEF admitted
<1>7. CASE SendOutOfOrder(l, range)
  <2> DEFINE old == terminalLanes[l]
  <2>1. CongestTerminal(l, old, range) BY <1>7 DEF SendOutOfOrder
  <2>2. DOMAIN old = DOMAIN NoTerminalLane /\ old.queuedBytes = terminalLanes[l].queuedBytes
    BY <1>4, <1>5
  <2> HIDE DEF old
  <2> QED BY <1>1, <2>1, <2>2, CongestTerminalTotals
<1>8. CASE SendOutput(l, range) /\ TerminalOverBound(lane, range)
  <2>1. CongestTerminal(l, admitted, range) BY <1>8 DEF SendOutput, admitted, lane
  <2> QED BY <1>1, <1>6, <2>1, CongestTerminalTotals
<1>9. CASE SendOutput(l, range) /\ ~TerminalOverBound(lane, range)
  <2> DEFINE size == range.to - range.from
             frame == [class |-> "terminal", lane |-> l, from |-> range.from,
                       to |-> range.to, size |-> size]
             queue == Append(admitted.queue, frame)
             after == admitted.queuedBytes + size
             new == [admitted EXCEPT !.queue = queue, !.queuedBytes = after]
  <2>1. QueueTerminal(l, admitted, range) /\ UNCHANGED <<controlVars, stateVars>>
    BY <1>9 DEF SendOutput, admitted, lane
  <2>2. /\ terminalLanes' = [terminalLanes EXCEPT ![l] = new]
        /\ terminalBytes' = terminalBytes + size
    BY <2>1 DEF QueueTerminal
  <2>3. terminalLanes[l].queuedBytes \in Int /\ terminalBytes \in Int
    BY <1>2, Counters
  <2>4. size \in Int
    <3>1. range.to \in Positions /\ range.from \in Positions BY DEF Ranges
    <3> QED BY <3>1, FramesAssumption DEF Positions
  <2>5. new.queuedBytes = after
    <3> HIDE DEF queue, after
    <3> QED BY <1>6
  <2>6. terminalBytes' = terminalBytes - terminalLanes[l].queuedBytes + new.queuedBytes
    <3> HIDE DEF new, size
    <3> QED BY <1>6, <2>2, <2>3, <2>4, <2>5
  <2> HIDE DEF new
  <2> QED BY <2>1, <2>2, <2>6, TerminalReplacedTotals
<1> QED BY <1>1, <1>7, <1>8, <1>9

LEMMA AcknowledgedTotals ==
    ASSUME AccountingInv, SchedulingInv', NEW l \in TerminalLanes,
           \/ \E position : AcknowledgeTerminal(l, position)
           \/ UnconfirmedAges(l)
    PROVE  TotalsOK'
<1>1. terminalLanes[l] \in TerminalLane /\ terminalBytes \in Int
      /\ terminalLanes[l].queuedBytes \in Int
      /\ terminalLanes \in [TerminalLanes -> TerminalLane]
  BY Counters, InvNow DEF AccountingInv, QueueTypes
<1>2. \E new : /\ terminalLanes' = [terminalLanes EXCEPT ![l] = new]
               /\ new.queuedBytes = terminalLanes[l].queuedBytes
  <2>1. CASE \E position : AcknowledgeTerminal(l, position)
    <3>1. PICK position : AcknowledgeTerminal(l, position) BY <2>1
    <3> DEFINE since == IF position >= terminalLanes[l].head THEN "none" ELSE "recent"
               new == [terminalLanes[l] EXCEPT !.confirmed = position,
                                               !.unconfirmedSince = since]
    <3>2. terminalLanes' = [terminalLanes EXCEPT ![l].confirmed = position,
                                                ![l].unconfirmedSince = since]
      BY <3>1 DEF AcknowledgeTerminal
    <3> HIDE DEF since
    <3>3. terminalLanes' = [terminalLanes EXCEPT ![l] = new] BY <1>1, <3>2
    <3>4. new.queuedBytes = terminalLanes[l].queuedBytes BY <1>1 DEF TerminalLane
    <3> QED BY <3>3, <3>4
  <2>2. CASE UnconfirmedAges(l)
    <3> DEFINE new == [terminalLanes[l] EXCEPT !.unconfirmedSince = "overdue"]
    <3>1. terminalLanes' = [terminalLanes EXCEPT ![l] = new]
      BY <1>1, <2>2 DEF UnconfirmedAges
    <3>2. new.queuedBytes = terminalLanes[l].queuedBytes BY <1>1 DEF TerminalLane
    <3> QED BY <3>1, <3>2
  <2> QED BY <2>1, <2>2
<1>3. PICK new : /\ terminalLanes' = [terminalLanes EXCEPT ![l] = new]
                 /\ new.queuedBytes = terminalLanes[l].queuedBytes
  BY <1>2
<1>4. UNCHANGED <<controlVars, stateVars, terminalBytes>>
  BY DEF AcknowledgeTerminal, UnconfirmedAges
<1>5. terminalBytes' = terminalBytes - terminalLanes[l].queuedBytes + new.queuedBytes
  BY <1>1, <1>3, <1>4
<1> QED BY <1>3, <1>4, <1>5, TerminalReplacedTotals

LEMMA ReleaseTerminalTotals ==
    ASSUME AccountingInv, SchedulingInv', NEW l \in TerminalLanes, ReleaseTerminal(l)
    PROVE  TotalsOK'
<1> DEFINE kept == InFlightOf(l)
           lane == terminalLanes[l]
<1>1. SchedulingInv /\ Inv BY InvNow DEF AccountingInv
<1>2. /\ lane \in TerminalLane /\ lane.queuedBytes \in Int /\ terminalBytes \in Int
  BY <1>1, Counters
<1>3. ~terminalError BY <1>1, InvParts DEF FailedIsClosed, ReleaseTerminal
<1>4. BytesOf(kept) \in Int BY <1>1, <1>3, KeptBytes
<1>5. /\ terminalBytes' = terminalBytes - terminalLanes[l].queuedBytes + BytesOf(kept)
      /\ UNCHANGED <<controlVars, stateVars>>
  BY DEF ReleaseTerminal
<1>6. CASE kept # <<>>
  <2> DEFINE bytes == BytesOf(kept)
             new == [lane EXCEPT !.queue = kept, !.queuedBytes = bytes,
                                 !.releasePending = TRUE]
  <2>1. terminalLanes' = [terminalLanes EXCEPT ![l] = new]
    BY <1>6 DEF ReleaseTerminal
  <2>2. new.queuedBytes = bytes
    <3> HIDE DEF bytes, kept, lane
    <3> QED BY <1>2 DEF TerminalLane
  <2>3. terminalBytes' = terminalBytes - terminalLanes[l].queuedBytes + new.queuedBytes
    <3> HIDE DEF new
    <3> QED BY <1>5, <2>2
  <2> HIDE DEF new
  <2> QED BY <1>5, <2>1, <2>3, TerminalReplacedTotals
<1>7. CASE kept = <<>>
  <2> DEFINE new == NoTerminalLane
  <2>1. terminalLanes' = [terminalLanes EXCEPT ![l] = new]
    BY <1>7 DEF ReleaseTerminal
  <2>2. new.queuedBytes = 0 BY DEF NoTerminalLane, NewTerminalLane
  <2>3. BytesOf(kept) = 0 BY <1>7 DEF BytesOf
  <2> HIDE DEF new
  <2>4. terminalBytes' = terminalBytes - terminalLanes[l].queuedBytes + new.queuedBytes
    BY <1>5, <2>2, <2>3
  <2> QED BY <1>5, <2>1, <2>4, TerminalReplacedTotals
<1> QED BY <1>6, <1>7

LEMMA CompleteTerminalTotals ==
    ASSUME AccountingInv, SchedulingInv', ~terminalError, CompleteTerminal(activeDelivery),
           NEW l \in TerminalLanes, activeDelivery.lane = l
    PROVE  TotalsOK'
<1> DEFINE lane == terminalLanes[l]
           bytes == lane.queuedBytes
           size == activeDelivery.size
           last == lane.releasePending /\ Len(lane.queue) = 1
<1>1. SchedulingInv /\ Inv BY InvNow DEF AccountingInv
<1>2. /\ lane \in TerminalLane /\ lane.queue \in Seq(TerminalFrames)
      /\ bytes \in Int /\ terminalBytes \in Int /\ Accounted(lane.queue, bytes)
  BY <1>1, Counters
<1>3. activeDelivery \in TerminalFrames /\ size \in Nat BY TerminalSize DEF CompleteTerminal
<1>4. lane.queue # <<>> /\ lane.queue[1] = activeDelivery
  BY <1>1, <1>3, InvParts DEF ActiveContinues
<1>5. Head(lane.queue) = activeDelivery
  <2> HIDE DEF lane
  <2> QED BY <1>2, <1>4, HeadTailProperties
<1>6. /\ terminalBytes' = terminalBytes - size
      /\ IF last
         THEN terminalLanes' = [terminalLanes EXCEPT ![l] = NoTerminalLane]
         ELSE terminalLanes' = [terminalLanes EXCEPT ![l] =
                    [lane EXCEPT !.queue = Tail(lane.queue), !.queuedBytes = bytes - size,
                                 !.sent = SentAfter(lane, activeDelivery)]]
      /\ UNCHANGED <<controlVars, stateVars>>
  BY <1>4, <1>5 DEF CompleteTerminal
<1>7. CASE last
  <2> DEFINE new == NoTerminalLane
  <2>1. bytes = size
    <3> HIDE DEF lane, bytes
    <3> QED BY <1>2, <1>3, <1>4, <1>7, AccountedSmall
  <2>2. new.queuedBytes = 0 BY DEF NoTerminalLane, NewTerminalLane
  <2>3. terminalLanes' = [terminalLanes EXCEPT ![l] = new] BY <1>6, <1>7
  <2> HIDE DEF new
  <2>4. terminalBytes' = terminalBytes - bytes + new.queuedBytes
    <3> HIDE DEF bytes, size, lane
    <3> QED BY <1>2, <1>6, <2>1, <2>2
  <2> QED BY <1>6, <2>3, <2>4, TerminalReplacedTotals
<1>8. CASE ~last
  <2> DEFINE after == bytes - size
             queue == Tail(lane.queue)
             sent == SentAfter(lane, activeDelivery)
             new == [lane EXCEPT !.queue = queue, !.queuedBytes = after, !.sent = sent]
  <2>1. terminalLanes' = [terminalLanes EXCEPT ![l] = new] BY <1>6, <1>8
  <2>2. new.queuedBytes = after
    <3> HIDE DEF after, queue, sent, lane
    <3> QED BY <1>2 DEF TerminalLane
  <2>3. terminalBytes - size = terminalBytes - bytes + after
    <3> HIDE DEF bytes, size
    <3> QED BY <1>2, <1>3 DEF after
  <2> HIDE DEF new
  <2>4. terminalBytes' = terminalBytes - terminalLanes[l].queuedBytes + new.queuedBytes
    BY <1>6, <2>2, <2>3
  <2> QED BY <1>6, <2>1, <2>4, TerminalReplacedTotals
<1> QED BY <1>7, <1>8

\* A failed pump has nothing left for an answer to complete.
LEMMA FailedCompletes ==
    ASSUME SchedulingInv, terminalError, CompleteDelivery
    PROVE  UNCHANGED <<controlVars, stateVars, terminalVars>>
<1>1. Inv BY InvNow
<1>2. controlQueue = <<>> /\ \A l \in StateLanes : stateLanes[l].queue = <<>>
  BY DEF SchedulingInv, FailedEmpty
<1>3. \A l \in TerminalLanes : terminalLanes[l].queue = <<>>
  BY <1>1, InvParts, ClosedLaneEmpty DEF FailedIsClosed
<1>4. CASE CompleteControl(activeDelivery) BY <1>2, <1>4 DEF CompleteControl
<1>5. CASE CompleteState(activeDelivery)
  <2>1. activeDelivery.lane \in StateLanes BY <1>5, StateFrameLane DEF CompleteState
  <2> QED BY <1>2, <1>5, <2>1 DEF CompleteState
<1>6. CASE CompleteTerminal(activeDelivery)
  <2>1. activeDelivery.lane \in TerminalLanes
    BY <1>6 DEF CompleteTerminal, TerminalFrames, OutputFrame, SkipFrame, TerminalFrame
  <2> QED BY <1>3, <1>6, <2>1 DEF CompleteTerminal
<1> QED BY <1>4, <1>5, <1>6 DEF CompleteDelivery

LEMMA CompleteDeliveryTotals ==
    ASSUME AccountingInv, SchedulingInv', CompleteDelivery
    PROVE  TotalsOK'
<1>1. SchedulingInv /\ TotalsOK BY DEF AccountingInv
<1>2. CASE terminalError BY <1>1, <1>2, FailedCompletes, TotalsUntouched
<1>3. CASE ~terminalError /\ CompleteControl(activeDelivery)
  BY <1>3, CompleteControlTotals
<1>4. CASE ~terminalError /\ CompleteState(activeDelivery)
  <2>1. PICK l \in StateLanes : activeDelivery.lane = l
    BY <1>4, StateFrameLane DEF CompleteState
  <2> QED BY <1>4, <2>1, CompleteStateTotals
<1>5. CASE ~terminalError /\ CompleteTerminal(activeDelivery)
  <2>1. PICK l \in TerminalLanes : activeDelivery.lane = l
    BY <1>5 DEF CompleteTerminal, TerminalFrames, OutputFrame, SkipFrame, TerminalFrame
  <2> QED BY <1>5, <2>1, CompleteTerminalTotals
<1> QED BY <1>2, <1>3, <1>4, <1>5 DEF CompleteDelivery

LEMMA NextTotals ==
    ASSUME AccountingInv, SchedulingInv', [Next]_vars
    PROVE  TotalsOK'
<1>1. CASE \E size \in ControlSizes : SendControl(size) \/ OverflowControl(size)
  BY <1>1, SendControlTotals, FailedTotals DEF OverflowControl
<1>2. CASE \E l \in StateLanes, key \in Keys, size \in StateSizes : SendState(l, key, size)
  BY <1>2, SendStateTotals
<1>3. CASE \E l \in TerminalLanes, range \in Ranges : SendTerminal(l, range)
  BY <1>3, SendTerminalTotals
<1>4. CASE \E l \in TerminalLanes :
              \/ \E position \in Positions : AcknowledgeTerminal(l, position)
              \/ UnconfirmedAges(l)
              \/ ReleaseTerminal(l)
  BY <1>4, AcknowledgedTotals, ReleaseTerminalTotals
<1>5. CASE Accepted \/ Refused
  BY <1>5, CompleteDeliveryTotals DEF Accepted, Refused
<1>6. CASE DrainRejected \/ Close
  BY <1>6, FailedTotals DEF DrainRejected, Close
<1>7. CASE Thrown \/ Writable \/ TransportCloses \/ WhenIdle \/ UNCHANGED vars
  <2>1. UNCHANGED <<controlVars, stateVars, terminalVars>>
    BY <1>7 DEF Thrown, Writable, TransportCloses, WhenIdle, vars
  <2> QED BY <2>1, TotalsUntouched DEF AccountingInv
<1> QED BY <1>1, <1>2, <1>3, <1>4, <1>5, <1>6, <1>7 DEF Next

\* The counters the bounds of the pump are checked against agree with what is
\* queued, after every append, replacement, collapse, release and failure: the
\* counter of a lane is the fold of its frames' sizes, and that of a class of
\* lanes the sum of its lanes' counters.
THEOREM PumpByteAccounting == Spec => []ByteAccounting
<1>1. Init => AccountingInv
  <2>1. Init => NothingQueued BY DEF Init, NothingQueued
  <2> QED BY <2>1, InitQueues, InitSchedules, NothingQueuedTotals
          DEF AccountingInv, SchedulingInv
<1>2. AccountingInv /\ [Next]_vars => AccountingInv'
  BY NextQueues, NextFailedEmpty, NextTotals DEF AccountingInv, SchedulingInv
<1>3. AccountingInv => ByteAccounting
  <2> SUFFICES ASSUME AccountingInv PROVE ByteAccounting OBVIOUS
  <2>1. SchedulingInv /\ TotalsOK /\ QueueTypes /\ StatesOK
    BY InvNow DEF AccountingInv
  <2>2. controlBytes = Size(controlQueue)
    <3>1. \A frame \in ControlFrame : frame.size \in Nat BY ControlSize
    <3>2. controlQueue \in Seq(ControlFrame) BY <2>1 DEF QueueTypes
    <3> QED BY <2>1, <3>1, <3>2, AccountedSize DEF TotalsOK
  <2>3. ASSUME NEW l \in StateLanes
        PROVE  stateLanes[l].queuedBytes = Size(stateLanes[l].queue)
    <3>1. stateLanes[l].queue \in Seq(StateFrames) BY <2>1 DEF QueueTypes, StateLane
    <3>2. Accounted(stateLanes[l].queue, stateLanes[l].queuedBytes)
      BY <2>1 DEF StatesOK, StateLaneOK
    <3>3. \A frame \in StateFrames : frame.size \in Nat BY StateSize
    <3> QED BY <3>1, <3>2, <3>3, AccountedSize
  <2>4. ASSUME NEW l \in TerminalLanes
        PROVE  terminalLanes[l].queuedBytes = Size(terminalLanes[l].queue)
    <3>1. \A frame \in TerminalFrames : frame.size \in Nat BY TerminalSize
    <3> QED BY <2>1, <3>1, Counters, AccountedSize
  <2>5. /\ stateBytes = SumFunction([l \in StateLanes |-> stateLanes[l].queuedBytes])
        /\ terminalBytes = SumFunction([l \in TerminalLanes |-> terminalLanes[l].queuedBytes])
    BY <2>1 DEF TotalsOK, StateTotal, TerminalTotal, StateCounters, TerminalCounters
  <2> QED BY <2>2, <2>3, <2>4, <2>5 DEF ByteAccounting
<1> QED BY <1>1, <1>2, <1>3, PTL DEF Spec
=============================================================================
