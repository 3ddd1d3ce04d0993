------------------------ MODULE WorkspaceSync_proofs ------------------------
(***************************************************************************)
(* For every window, bound and number of failures: the projection a client *)
(* holds is the workspace the server had at that revision, it never goes   *)
(* back, and once everything has arrived it is the server's own.           *)
(*                                                                         *)
(* None is inductive.  A projection is replaced by whatever answer         *)
(* carries the ticket of the last query, so the invariant follows that     *)
(* ticket: at most one answer with it is on its way, and none while the    *)
(* server still owes it or the store does not wait.  That the fetch still  *)
(* starts from the projection held rests on the subscription's result      *)
(* reaching the client once, since its listener starts a fetch without     *)
(* asking for one in flight.                                               *)
(*                                                                         *)
(* That the client catches up is a promise somebody always keeps: the last *)
(* revision is held, or its event is still to come, or a fetch is, and     *)
(* every event dropped on the way left a notice that makes the store fetch *)
(* (CurrentOK).  A refresh that looks no more leaves what it was asked in  *)
(* its last turn to the next one, as a flag or an awaited revision.        *)
(***************************************************************************)
EXTENDS WorkspaceSync, TLAPS, SequenceTheorems, FiniteSetTheorems

EventsTo(r) == [type : {"event"}, revision : 0..r, record : BOOLEAN]
AnswersTo(ticket, r) ==
    [type : {"answer"}, ticket : 0..ticket, to : 0..r, whole : BOOLEAN]
ControlFrames == {Result, ResyncNotice} \union AnswersTo(failures, revision)
LaneFrame == EventsTo(revision) \union {ResyncNotice}
Activations ==
    [phase : {"none", "accepted", "resync", "replay", "live"}, todo : Seq(0..revision),
     pending : Seq(EventsTo(revision)), last : 0..revision]
Subscriptions ==
    [phase : {"asked", "answered", "attached", "started", "failed"},
     buffered : Seq(EventsTo(revision)), overflow : BOOLEAN, resync : BOOLEAN]

\* The positions of the control queue that have not left for the client.
FirstUnsent == IF sending = [queue |-> "control"] THEN 2 ELSE 1

\* The frames on their way from position n of a control queue, or on the wire,
\* and whether at most one of them is in C.
Coming(queue, n, onWire) ==
    {queue[i] : i \in n..Len(queue)} \union {onWire[i] : i \in 1..Len(onWire)}
Alone(queue, n, onWire, C) ==
    /\ \A i, j \in n..Len(queue) : queue[i] \in C /\ queue[j] \in C => i = j
    /\ \A i, j \in 1..Len(onWire) : onWire[i] \in C /\ onWire[j] \in C => i = j
    /\ \A i \in n..Len(queue), j \in 1..Len(onWire) : ~(queue[i] \in C /\ onWire[j] \in C)

Ahead == Coming(control, FirstUnsent, wire)
CurrentAnswers == {frame \in AnswersTo(failures, MaxRevision) : frame.ticket = failures}

ServerOK ==
    /\ base \in Bases /\ revision \in base..MaxRevision
    /\ activation \in Activations
    /\ control \in Seq(ControlFrames)
    /\ lane \in Seq(LaneFrame)
    /\ wire \in Seq(ControlFrames \union LaneFrame)
    /\ sending \in Queues \union {Nothing}
    /\ sending = [queue |-> "control"] => control # <<>>
    /\ sending = [queue |-> "lane"] => lane # <<>>

\* The result of the subscribe command reaches the client once.
SubscribedOnce ==
    /\ subscription \in Subscriptions
    /\ Alone(control, FirstUnsent, wire, {Result})
    /\ activation.phase = "none" => Result \notin Ahead
    /\ Result \in Ahead \/ activation.phase = "none" => subscription.phase = "asked"
    /\ subscription.phase \in {"asked", "answered", "failed"} => loop = "idle" /\ held = Nothing

\* The projection held is one the server had.
HeldOK ==
    held # Nothing => held.revision \in 0..revision /\ held = WorkspaceAt(held.revision)

\* An answer continues the projection held.
Continues(answer) ==
    /\ answer.to \in 0..revision
    /\ held # Nothing => held.revision <= answer.to
    /\ answer.whole \/ held # Nothing

FetchOK ==
    /\ failures \in 0..MaxFailures
    /\ loop \in {"idle", "snapshot", "delta", "answered", "published", "settled"}
    /\ fetch = [previous |-> fetch.previous, answer |-> fetch.answer]
    /\ loop \in {"snapshot", "delta", "answered"} => fetch.previous = held
    /\ request # Nothing =>
          /\ request \in Requests /\ request.ticket = failures
          /\ loop = request.operation
          /\ loop = "delta" => held # Nothing /\ request.from = held.revision
    /\ Alone(control, FirstUnsent, wire, CurrentAnswers)
    /\ request # Nothing \/ loop \notin {"snapshot", "delta"} => Ahead \cap CurrentAnswers = {}
    /\ \A answer \in Ahead \cap CurrentAnswers : Continues(answer)
    /\ loop = "answered" => Continues(fetch.answer)

SyncInv == ServerOK /\ SubscribedOnce /\ HeldOK /\ FetchOK

----------------------------------------------------------------------------
(* Frames on their way.                                                    *)

LEMMA SeqMonotone ==
    ASSUME NEW S, NEW T, S \subseteq T, NEW q \in Seq(S)
    PROVE  q \in Seq(T)
OBVIOUS

LEMMA FunctionIsSequence ==
    ASSUME NEW S, NEW n \in Nat, NEW f \in [1..n -> S]
    PROVE  f \in Seq(S)
OBVIOUS

LEMMA ComingAppend ==
    ASSUME NEW S, NEW queue \in Seq(S), NEW n \in {1, 2}, NEW onWire, NEW frame \in S
    PROVE  /\ Coming(Append(queue, frame), n, onWire) \subseteq
                  Coming(queue, n, onWire) \union {frame}
           /\ n = 1 \/ queue # <<>> => frame \in Coming(Append(queue, frame), n, onWire)
<1> DEFINE new == Append(queue, frame)
<1>1. /\ Len(new) = Len(queue) + 1 /\ new[Len(queue) + 1] = frame /\ Len(queue) \in Nat
      /\ \A i \in 1..Len(queue) : new[i] = queue[i]
      /\ queue # <<>> => Len(queue) # 0
  BY AppendProperties, EmptySeq
<1>2. \A i \in n..Len(new) :
         i = Len(queue) + 1 \/ (i \in n..Len(queue) /\ new[i] = queue[i])
  BY <1>1
<1>3. n = 1 \/ queue # <<>> => Len(new) \in n..Len(new)
  BY <1>1
<1> HIDE DEF new
<1> QED BY <1>1, <1>2, <1>3 DEF Coming, new

\* At most one frame of C is still on its way when another leaves the server,
\* if it is not of C or none of C was on its way.
LEMMA AloneAppend ==
    ASSUME NEW S, NEW queue \in Seq(S), NEW n \in {1, 2}, NEW onWire, NEW frame \in S, NEW C,
           Alone(queue, n, onWire, C),
           frame \notin C \/ Coming(queue, n, onWire) \cap C = {}
    PROVE  Alone(Append(queue, frame), n, onWire, C)
<1> DEFINE new == Append(queue, frame)
<1>1. /\ Len(new) = Len(queue) + 1 /\ new[Len(queue) + 1] = frame /\ Len(queue) \in Nat
      /\ \A i \in 1..Len(queue) : new[i] = queue[i]
  BY AppendProperties
<1>2. \A i \in n..Len(new) :
         i = Len(queue) + 1 \/ (i \in n..Len(queue) /\ new[i] = queue[i])
  BY <1>1
<1>3. ASSUME Coming(queue, n, onWire) \cap C = {}
      PROVE  /\ \A i \in n..Len(queue) : queue[i] \notin C
             /\ \A i \in 1..Len(onWire) : onWire[i] \notin C
  BY <1>3 DEF Coming
<1> HIDE DEF new
<1>4. CASE frame \notin C
  BY <1>1, <1>2, <1>4 DEF Alone, new
<1>5. CASE Coming(queue, n, onWire) \cap C = {}
  BY <1>2, <1>3, <1>5 DEF Alone, new
<1> QED BY <1>4, <1>5

\* The pump hands over the head of its queue.
LEMMA HandedOver ==
    ASSUME NEW S, NEW queue \in Seq(S), queue # <<>>, NEW T, NEW onWire \in Seq(T),
           Head(queue) \in T, NEW C
    PROVE  /\ Coming(queue, 2, Append(onWire, Head(queue))) \subseteq Coming(queue, 1, onWire)
           /\ Alone(queue, 1, onWire, C) => Alone(queue, 2, Append(onWire, Head(queue)), C)
<1> DEFINE new == Append(onWire, Head(queue))
           m == Len(onWire)
<1>1. /\ Len(new) = m + 1 /\ new[m + 1] = queue[1] /\ m \in Nat
      /\ \A i \in 1..m : new[i] = onWire[i]
      /\ Len(queue) \in Nat /\ 1 \in 1..Len(queue)
  BY AppendProperties, HeadTailProperties, EmptySeq
<1>2. \A i \in 1..Len(new) : i = m + 1 \/ (i \in 1..m /\ new[i] = onWire[i])
  BY <1>1
<1>3. \A i \in 2..Len(queue) : i \in 1..Len(queue) /\ i # 1
  BY <1>1
<1> HIDE DEF new
<1>4. Coming(queue, 2, new) \subseteq Coming(queue, 1, onWire)
  BY <1>1, <1>2, <1>3 DEF Coming
<1>5. ASSUME Alone(queue, 1, onWire, C) PROVE Alone(queue, 2, new, C)
  <2>1. \A i, j \in 2..Len(queue) : queue[i] \in C /\ queue[j] \in C => i = j
    BY <1>3, <1>5 DEF Alone
  <2>2. \A i, j \in 1..Len(new) : new[i] \in C /\ new[j] \in C => i = j
    BY <1>1, <1>2, <1>5 DEF Alone
  <2>3. \A i \in 2..Len(queue), j \in 1..Len(new) : ~(queue[i] \in C /\ new[j] \in C)
    BY <1>1, <1>2, <1>3, <1>5 DEF Alone
  <2> QED BY <2>1, <2>2, <2>3 DEF Alone
<1> QED BY <1>4, <1>5 DEF new

LEMMA LaneHandedOver ==
    ASSUME NEW queue, NEW T, NEW onWire \in Seq(T), NEW frame \in T, NEW C, frame \notin C
    PROVE  /\ Coming(queue, 1, Append(onWire, frame)) \subseteq
                  Coming(queue, 1, onWire) \union {frame}
           /\ Alone(queue, 1, onWire, C) => Alone(queue, 1, Append(onWire, frame), C)
<1> DEFINE new == Append(onWire, frame)
           m == Len(onWire)
<1>1. /\ Len(new) = m + 1 /\ new[m + 1] = frame /\ m \in Nat
      /\ \A i \in 1..m : new[i] = onWire[i]
  BY AppendProperties
<1>2. \A i \in 1..Len(new) : i = m + 1 \/ (i \in 1..m /\ new[i] = onWire[i])
  BY <1>1
<1> HIDE DEF new
<1>3. Coming(queue, 1, new) \subseteq Coming(queue, 1, onWire) \union {frame}
  BY <1>1, <1>2 DEF Coming
<1>4. ASSUME Alone(queue, 1, onWire, C) PROVE Alone(queue, 1, new, C)
  BY <1>1, <1>2, <1>4 DEF Alone
<1> QED BY <1>3, <1>4 DEF new

LEMMA HandoverCompleted ==
    ASSUME NEW S, NEW queue \in Seq(S), queue # <<>>, NEW onWire, NEW C
    PROVE  /\ Coming(Tail(queue), 1, onWire) \subseteq Coming(queue, 2, onWire)
           /\ Alone(queue, 2, onWire, C) => Alone(Tail(queue), 1, onWire, C)
<1> DEFINE new == Tail(queue)
<1>1. /\ Len(new) = Len(queue) - 1 /\ Len(queue) \in Nat
      /\ \A i \in 1..Len(new) : new[i] = queue[i + 1]
  BY HeadTailProperties
<1>2. \A i \in 1..Len(new) : i + 1 \in 2..Len(queue)
  BY <1>1
<1>3. \A i, j \in 1..Len(new) : i + 1 = j + 1 => i = j
  BY <1>1
<1> HIDE DEF new
<1>4. Coming(new, 1, onWire) \subseteq Coming(queue, 2, onWire)
  BY <1>1, <1>2 DEF Coming
<1>5. ASSUME Alone(queue, 2, onWire, C) PROVE Alone(new, 1, onWire, C)
  BY <1>1, <1>2, <1>3, <1>5 DEF Alone
<1> QED BY <1>4, <1>5 DEF new

LEMMA ReceivedHead ==
    ASSUME NEW queue, NEW n, NEW T, NEW onWire \in Seq(T), onWire # <<>>, NEW C
    PROVE  /\ Coming(queue, n, Tail(onWire)) \subseteq Coming(queue, n, onWire)
           /\ Head(onWire) \in Coming(queue, n, onWire) /\ Head(onWire) \in T
           /\ Alone(queue, n, onWire, C) =>
                 /\ Alone(queue, n, Tail(onWire), C)
                 /\ Head(onWire) \in C => Coming(queue, n, Tail(onWire)) \cap C = {}
<1> DEFINE new == Tail(onWire)
<1>1. /\ Len(new) = Len(onWire) - 1 /\ Len(onWire) \in Nat /\ 1 \in 1..Len(onWire)
      /\ Head(onWire) = onWire[1] /\ onWire[1] \in T
      /\ \A i \in 1..Len(new) : new[i] = onWire[i + 1]
  BY HeadTailProperties, EmptySeq
<1>2. \A i \in 1..Len(new) : i + 1 \in 1..Len(onWire) /\ i + 1 # 1
  BY <1>1
<1>3. \A i, j \in 1..Len(new) : i + 1 = j + 1 => i = j
  BY <1>1
<1> HIDE DEF new
<1>4. Coming(queue, n, new) \subseteq Coming(queue, n, onWire)
  BY <1>1, <1>2 DEF Coming
<1>5. Head(onWire) \in Coming(queue, n, onWire)
  BY <1>1 DEF Coming
<1>6. ASSUME Alone(queue, n, onWire, C) PROVE Alone(queue, n, new, C)
  BY <1>1, <1>2, <1>3, <1>6 DEF Alone
<1>7. ASSUME Alone(queue, n, onWire, C), Head(onWire) \in C,
             NEW frame \in Coming(queue, n, new), frame \in C
      PROVE  FALSE
  <2>1. CASE \E i \in n..Len(queue) : frame = queue[i]
    BY <1>1, <1>7, <2>1 DEF Alone
  <2>2. CASE \E i \in 1..Len(new) : frame = new[i]
    BY <1>1, <1>2, <1>7, <2>2 DEF Alone
  <2> QED BY <1>7, <2>1, <2>2 DEF Coming
<1> QED BY <1>1, <1>4, <1>5, <1>6, <1>7 DEF new

----------------------------------------------------------------------------
(* What every step relies on.                                              *)

LEMMA Bounds ==
    ASSUME ServerOK
    PROVE  /\ base \in Nat /\ revision \in Nat /\ revision <= MaxRevision /\ MaxRevision \in Nat
           /\ FirstUnsent \in {1, 2}
BY SyncAssumption DEF ServerOK, FirstUnsent

LEMMA FrameKinds ==
    /\ \A frame \in LaneFrame : frame \notin CurrentAnswers /\ frame # Result
    /\ Result \notin CurrentAnswers /\ ResyncNotice \notin CurrentAnswers
    /\ ResyncNotice # Result
    /\ \A ticket, r : \A frame \in AnswersTo(ticket, r) : frame # Result
<1>1. Result.type = "command_result" /\ ResyncNotice.type = "event_resync"
  BY DEF Result, ResyncNotice
<1>2. \A frame \in LaneFrame : frame.type \in {"event", "event_resync"}
  BY <1>1 DEF LaneFrame, EventsTo
<1>3. \A ticket, r : \A frame \in AnswersTo(ticket, r) : frame.type = "answer"
  BY DEF AnswersTo
<1>4. \A frame \in CurrentAnswers : frame.type = "answer"
  BY <1>3 DEF CurrentAnswers
<1> QED BY <1>1, <1>2, <1>3, <1>4

\* A commit and a failure only widen what the queues may hold.
LEMMA Grows ==
    ASSUME revision \in Nat, revision' \in Nat, revision <= revision',
           failures \in Nat, failures' \in Nat, failures <= failures'
    PROVE  /\ ControlFrames \subseteq ControlFrames' /\ LaneFrame \subseteq LaneFrame'
           /\ EventsTo(revision) \subseteq EventsTo(revision')
           /\ Activations \subseteq Activations' /\ Subscriptions \subseteq Subscriptions'
<1>1. 0..revision \subseteq 0..revision' /\ 0..failures \subseteq 0..failures'
  OBVIOUS
<1>2. EventsTo(revision) \subseteq EventsTo(revision') BY <1>1 DEF EventsTo
<1>3. AnswersTo(failures, revision) \subseteq AnswersTo(failures', revision')
  BY <1>1 DEF AnswersTo
<1>4. /\ Seq(0..revision) \subseteq Seq(0..revision')
      /\ Seq(EventsTo(revision)) \subseteq Seq(EventsTo(revision'))
  BY <1>1, <1>2, SeqMonotone
<1>5. Activations \subseteq Activations' BY <1>1, <1>4 DEF Activations
<1>6. Subscriptions \subseteq Subscriptions' BY <1>4 DEF Subscriptions
<1>7. ControlFrames \subseteq ControlFrames' BY <1>3 DEF ControlFrames
<1>8. LaneFrame \subseteq LaneFrame' BY <1>2 DEF LaneFrame
<1> QED BY <1>2, <1>5, <1>6, <1>7, <1>8

LEMMA SameFailures == (UNCHANGED failures) => (UNCHANGED CurrentAnswers)
BY DEF CurrentAnswers

----------------------------------------------------------------------------
(* Steps of the server that leave the queues to the client alone.          *)

LEMMA SendStateType ==
    ASSUME ServerOK, failures \in Nat, revision' \in Nat, revision <= revision',
           UNCHANGED <<sending, failures>>, NEW event \in EventsTo(revision'), SendState(event)
    PROVE  lane' \in Seq(LaneFrame') /\ (sending' = [queue |-> "lane"] => lane' # <<>>)
<1>1. lane \in Seq(LaneFrame') /\ Len(lane) \in Nat
  <2>1. LaneFrame \subseteq LaneFrame' BY Bounds, Grows
  <2> QED BY <2>1, SeqMonotone DEF ServerOK
<1>2. event \in LaneFrame' /\ ResyncNotice \in LaneFrame'
  BY DEF LaneFrame
<1>3. ASSUME NEW q \in Seq(LaneFrame'), NEW frame \in LaneFrame'
      PROVE  Append(q, frame) \in Seq(LaneFrame') /\ Append(q, frame) # <<>>
  <2>1. Append(q, frame) \in Seq(LaneFrame') /\ Len(Append(q, frame)) # 0
    BY AppendProperties
  <2> QED BY <2>1, EmptySeq
<1>4. LaneHeadActive => Head(lane) \in LaneFrame'
  <2>1. LaneHeadActive => lane # <<>>
    BY DEF LaneHeadActive, ServerOK, Queues
  <2> QED BY <1>1, <2>1, HeadTailProperties
<1>5. (IF LaneHeadActive THEN <<Head(lane)>> ELSE <<>>) \in Seq(LaneFrame')
  BY <1>4
<1>6. CASE resyncPending
  BY <1>1, <1>6 DEF SendState, ServerOK
<1>7. CASE ~resyncPending /\ Len(lane) < LaneFrames
  BY <1>1, <1>2, <1>3, <1>7 DEF SendState
<1>8. CASE ~resyncPending /\ ~(Len(lane) < LaneFrames)
  BY <1>2, <1>3, <1>5, <1>8 DEF SendState
<1> QED BY <1>6, <1>7, <1>8

\* A step that leaves every queue to the client and the store alone.
LEMMA ServerStep ==
    ASSUME SyncInv, UNCHANGED <<base, control, wire, sending, storeVars, subscription, failures>>,
           revision' \in base..MaxRevision, revision <= revision',
           activation' \in Activations', lane' \in Seq(LaneFrame'),
           sending' = [queue |-> "lane"] => lane' # <<>>,
           activation'.phase = "none" <=> activation.phase = "none"
    PROVE  SyncInv'
<1>1. ServerOK /\ SubscribedOnce /\ HeldOK /\ FetchOK /\ failures \in Nat
  BY SyncAssumption DEF SyncInv, FetchOK
<1>2. /\ base \in Nat /\ revision \in Nat /\ revision' \in Nat
  BY <1>1, Bounds
<1>3. /\ ControlFrames \subseteq ControlFrames' /\ LaneFrame \subseteq LaneFrame'
      /\ Subscriptions \subseteq Subscriptions'
  BY <1>1, <1>2, Grows
<1>4. ServerOK'
  <2>1. control \in Seq(ControlFrames') /\ wire \in Seq(ControlFrames' \union LaneFrame')
    BY <1>1, <1>3, SeqMonotone DEF ServerOK
  <2> QED BY <1>1, <2>1 DEF ServerOK
<1>5. Ahead' = Ahead /\ FirstUnsent' = FirstUnsent BY DEF Ahead, FirstUnsent
<1>6. SubscribedOnce'
  BY <1>1, <1>3, <1>5 DEF SubscribedOnce, storeVars
<1>7. HeldOK' BY <1>1, <1>2 DEF HeldOK, storeVars
<1>8. \A answer : Continues(answer) => Continues(answer)'
  BY <1>2 DEF Continues, storeVars
<1>9. FetchOK'
  <2>1. UNCHANGED <<failures, loop, fetch, held, request, control, wire>> BY DEF storeVars
  <2>2. CurrentAnswers' = CurrentAnswers BY <2>1, SameFailures
  <2> QED BY <1>1, <1>5, <1>8, <2>1, <2>2 DEF FetchOK
<1> QED BY <1>4, <1>6, <1>7, <1>9 DEF SyncInv

LEMMA CommitInv ==
    ASSUME SyncInv, Commit
    PROVE  SyncInv'
<1> DEFINE event == Event(revision + 1, TRUE)
<1>1. /\ ServerOK /\ failures \in Nat /\ revision \in Nat /\ MaxRevision \in Nat /\ base \in Nat
      /\ base <= revision
  BY Bounds, SyncAssumption DEF SyncInv, FetchOK, ServerOK
<1>2. /\ revision' = revision + 1 /\ revision' \in base..MaxRevision /\ revision <= revision'
      /\ UNCHANGED <<base, control, wire, sending, storeVars, subscription, failures>>
  BY <1>1 DEF Commit
<1>3. event \in EventsTo(revision')
  BY <1>1, <1>2 DEF Event, EventsTo
<1>4. activation \in Activations' /\ lane \in Seq(LaneFrame')
  <2>1. Activations \subseteq Activations' /\ LaneFrame \subseteq LaneFrame'
    BY <1>1, <1>2, Grows
  <2> QED BY <1>1, <2>1, SeqMonotone DEF ServerOK
<1> HIDE DEF event
<1>5. CASE /\ activation.phase \in {"resync", "replay"}
           /\ activation' = [activation EXCEPT !.pending = Append(@, event)]
           /\ UNCHANGED <<lane, resyncPending>>
  <2>1. Append(activation.pending, event) \in Seq(EventsTo(revision'))
    BY <1>3, <1>4, AppendProperties DEF Activations
  <2>2. activation' \in Activations' /\ activation'.phase = activation.phase
    BY <1>4, <1>5, <2>1 DEF Activations
  <2> QED BY <1>1, <1>2, <1>4, <1>5, <2>2, ServerStep DEF ServerOK
<1>6. CASE SendState(event) /\ UNCHANGED activation
  BY <1>1, <1>2, <1>3, <1>4, <1>6, SendStateType, ServerStep
<1>7. CASE UNCHANGED <<activation, lane, resyncPending>>
  BY <1>1, <1>2, <1>4, <1>7, ServerStep DEF ServerOK
<1> QED BY <1>5, <1>6, <1>7 DEF Commit, event

\* The steps of an activation that send events, one at a time.
LEMMA ResyncSentInv ==
    ASSUME SyncInv, ResyncSent
    PROVE  SyncInv'
<1>1. ServerOK /\ failures \in Nat /\ revision \in Nat
  BY Bounds, SyncAssumption DEF SyncInv, FetchOK
<1>2. /\ UNCHANGED <<base, revision, control, lane, wire, sending, storeVars, subscription,
                     failures>>
      /\ activation' = [activation EXCEPT !.phase = "live", !.pending = <<>>]
      /\ activation.phase = "resync"
  BY DEF ResyncSent
<1>3. Activations' = Activations /\ LaneFrame' = LaneFrame
  BY <1>2 DEF Activations, LaneFrame
<1>4. <<>> \in Seq(EventsTo(revision)) OBVIOUS
<1>5. activation' \in Activations /\ activation'.phase = "live"
  BY <1>1, <1>2, <1>4 DEF ServerOK, Activations
<1> QED BY <1>1, <1>2, <1>3, <1>5, ServerStep DEF ServerOK

LEMMA ReplayNextInv ==
    ASSUME SyncInv, ReplayNext
    PROVE  SyncInv'
<1> DEFINE r == Head(activation.todo)
<1>1. ServerOK /\ failures \in Nat /\ revision \in Nat
  BY Bounds, SyncAssumption DEF SyncInv, FetchOK
<1>2. /\ UNCHANGED <<base, revision, control, wire, sending, storeVars, subscription, failures>>
      /\ activation' = [activation EXCEPT !.todo = Tail(@), !.last = r]
      /\ activation.phase = "replay" /\ activation.todo # <<>>
      /\ SendState(Projected(r))
  BY DEF ReplayNext
<1>3. /\ r \in 0..revision /\ Tail(activation.todo) \in Seq(0..revision)
  BY <1>1, <1>2, HeadTailProperties DEF ServerOK, Activations
<1>4. activation' \in Activations' /\ activation'.phase = "replay"
  <2> HIDE DEF r
  <2>1. activation' \in Activations /\ activation'.phase = "replay"
    BY <1>1, <1>2, <1>3 DEF ServerOK, Activations
  <2> QED BY <1>2, <2>1 DEF Activations
<1>5. Projected(r) \in EventsTo(revision')
  <2>1. (r >= Oldest(HistoryWindow)) \in BOOLEAN OBVIOUS
  <2> QED BY <1>2, <1>3, <2>1 DEF Projected, Event, EventsTo
<1>6. lane' \in Seq(LaneFrame') /\ (sending' = [queue |-> "lane"] => lane' # <<>>)
  BY <1>1, <1>2, <1>5, SendStateType
<1> QED BY <1>1, <1>2, <1>4, <1>6, ServerStep DEF ServerOK

LEMMA SendHeldBackInv ==
    ASSUME SyncInv, SendHeldBack, activation.phase # "none",
           UNCHANGED <<base, revision, control, wire, sending, storeVars, subscription, failures>>
    PROVE  SyncInv'
<1>1. ServerOK /\ failures \in Nat /\ revision \in Nat
  BY Bounds, SyncAssumption DEF SyncInv, FetchOK
<1>2. Activations' = Activations /\ LaneFrame' = LaneFrame
  BY DEF Activations, LaneFrame
<1>3. CASE /\ activation' = [activation EXCEPT !.phase = "live"]
           /\ UNCHANGED <<lane, resyncPending>>
  <2>1. activation' \in Activations /\ activation'.phase = "live"
    BY <1>1, <1>3 DEF ServerOK, Activations
  <2> QED BY <1>1, <1>2, <1>3, <2>1, ServerStep DEF ServerOK
<1>4. CASE /\ activation.pending # <<>>
           /\ activation' = [activation EXCEPT !.phase = "live", !.pending = Tail(@),
                                               !.last = Head(activation.pending).revision]
           /\ SendState(Head(activation.pending))
  <2> DEFINE event == Head(activation.pending)
  <2>1. event \in EventsTo(revision) /\ Tail(activation.pending) \in Seq(EventsTo(revision))
    BY <1>1, <1>4, HeadTailProperties DEF ServerOK, Activations
  <2>2. event.revision \in 0..revision BY <2>1 DEF EventsTo
  <2>3. activation' \in Activations /\ activation'.phase = "live"
    <3> HIDE DEF event
    <3>1. activation' = [activation EXCEPT !.phase = "live", !.pending = Tail(@),
                                           !.last = event.revision]
      BY <1>4 DEF event
    <3> QED BY <1>1, <2>1, <2>2, <3>1 DEF ServerOK, Activations
  <2>4. lane' \in Seq(LaneFrame') /\ (sending' = [queue |-> "lane"] => lane' # <<>>)
    BY <1>1, <1>4, <2>1, SendStateType
  <2> QED BY <1>1, <1>2, <2>3, <2>4, ServerStep DEF ServerOK
<1> QED BY <1>3, <1>4 DEF SendHeldBack

LEMMA ReplayEndsInv == ASSUME SyncInv, ReplayEnds PROVE SyncInv'
BY SendHeldBackInv DEF ReplayEnds

LEMMA DrainNextInv == ASSUME SyncInv, DrainNext PROVE SyncInv'
BY SendHeldBackInv DEF DrainNext

----------------------------------------------------------------------------
(* Frames that leave.                                                      *)

\* A control frame that is no answer and no result joins the queue.
LEMMA ControlGrows ==
    ASSUME SyncInv, NEW frame \in ControlFrames, control' = Append(control, frame),
           UNCHANGED <<wire, sending>>
    PROVE  /\ control' \in Seq(ControlFrames) /\ control' # <<>>
           /\ Ahead' \subseteq Ahead \union {frame}
           /\ \A C : Alone(control, FirstUnsent, wire, C)
                        /\ (frame \notin C \/ Ahead \cap C = {})
                     => Alone(control', FirstUnsent', wire', C)
<1>1. /\ control \in Seq(ControlFrames) /\ FirstUnsent \in {1, 2}
      /\ FirstUnsent' = FirstUnsent /\ wire' = wire
  BY Bounds DEF SyncInv, ServerOK, FirstUnsent
<1>2. control' \in Seq(ControlFrames) /\ control' # <<>>
  <2>1. control' \in Seq(ControlFrames) /\ Len(control') # 0 BY <1>1, AppendProperties
  <2> QED BY <2>1, EmptySeq
<1> HIDE DEF FirstUnsent
<1>3. Ahead' \subseteq Ahead \union {frame} BY <1>1, ComingAppend DEF Ahead
<1>4. ASSUME NEW C, Alone(control, FirstUnsent, wire, C),
             frame \notin C \/ Ahead \cap C = {}
      PROVE  Alone(control', FirstUnsent', wire', C)
  BY <1>1, <1>4, AloneAppend DEF Ahead
<1> QED BY <1>2, <1>3, <1>4

LEMMA AcceptSubscriptionInv ==
    ASSUME SyncInv, AcceptSubscription
    PROVE  SyncInv'
<1>1. /\ ServerOK /\ SubscribedOnce /\ HeldOK /\ FetchOK
      /\ failures \in Nat /\ revision \in Nat
  BY Bounds, SyncAssumption DEF SyncInv, FetchOK
<1>2. /\ UNCHANGED <<base, revision, lane, resyncPending, sending, wire, subscription, failures,
                     held, loop, fetch, request>>
      /\ control' = Append(control, Result) /\ Result \in ControlFrames
      /\ activation' = [activation EXCEPT !.phase = "accepted"]
      /\ activation.phase = "none"
  BY DEF AcceptSubscription, storeVars, ControlFrames
<1>3. activation' \in Activations /\ activation'.phase = "accepted"
  BY <1>1, <1>2 DEF ServerOK, Activations
<1>4. /\ control' \in Seq(ControlFrames) /\ control' # <<>>
      /\ Ahead' \subseteq Ahead \union {Result}
      /\ \A C : Alone(control, FirstUnsent, wire, C)
                   /\ (Result \notin C \/ Ahead \cap C = {})
                => Alone(control', FirstUnsent', wire', C)
  BY <1>2, ControlGrows
<1>5. /\ Activations' = Activations /\ LaneFrame' = LaneFrame /\ ControlFrames' = ControlFrames
      /\ CurrentAnswers' = CurrentAnswers /\ Subscriptions' = Subscriptions
  BY <1>2 DEF Activations, LaneFrame, ControlFrames, CurrentAnswers, Subscriptions
<1>6. ServerOK' BY <1>1, <1>2, <1>3, <1>4, <1>5 DEF ServerOK
<1>7. SubscribedOnce'
  <2>1. subscription.phase = "asked" /\ Ahead \cap {Result} = {}
    BY <1>1, <1>2 DEF SubscribedOnce
  <2>2. Alone(control', FirstUnsent', wire', {Result})
    BY <1>1, <1>4, <2>1 DEF SubscribedOnce
  <2> QED BY <1>1, <1>2, <1>3, <1>5, <2>1, <2>2 DEF SubscribedOnce
<1>8. HeldOK' BY <1>1, <1>2 DEF HeldOK
<1>9. FetchOK'
  <2>1. Result \notin CurrentAnswers BY FrameKinds
  <2>2. Alone(control', FirstUnsent', wire', CurrentAnswers)
    BY <1>1, <1>4, <2>1 DEF FetchOK
  <2>3. Ahead' \cap CurrentAnswers \subseteq Ahead \cap CurrentAnswers BY <1>4, <2>1
  <2>4. \A answer : Continues(answer) => Continues(answer)' BY <1>2 DEF Continues
  <2> QED BY <1>1, <1>2, <1>5, <2>2, <2>3, <2>4 DEF FetchOK
<1> QED BY <1>6, <1>7, <1>8, <1>9 DEF SyncInv

LEMMA ActivateInv ==
    ASSUME SyncInv, Activate
    PROVE  SyncInv'
<1>1. /\ ServerOK /\ SubscribedOnce /\ HeldOK /\ FetchOK
      /\ failures \in Nat /\ revision \in Nat /\ base \in Nat /\ JournalWindow \in Nat
  BY Bounds, SyncAssumption DEF SyncInv, FetchOK
<1>2. /\ UNCHANGED <<base, revision, lane, resyncPending, sending, wire, subscription, failures,
                     storeVars, held, loop, fetch, request>>
      /\ activation.phase = "accepted"
  BY DEF Activate, storeVars
<1>3. /\ Activations' = Activations /\ LaneFrame' = LaneFrame /\ ControlFrames' = ControlFrames
      /\ CurrentAnswers' = CurrentAnswers /\ Subscriptions' = Subscriptions
  BY <1>2 DEF Activations, LaneFrame, ControlFrames, CurrentAnswers, Subscriptions
<1>4. CASE /\ control' = Append(control, ResyncNotice)
           /\ activation' = [activation EXCEPT !.phase = "resync"]
  <2>1. activation' \in Activations /\ activation'.phase = "resync"
    BY <1>1, <1>4 DEF ServerOK, Activations
  <2>2. ResyncNotice \in ControlFrames /\ ResyncNotice \notin CurrentAnswers
        /\ ResyncNotice \notin {Result}
    BY FrameKinds DEF ControlFrames
  <2>3. /\ control' \in Seq(ControlFrames) /\ control' # <<>>
        /\ Ahead' \subseteq Ahead \union {ResyncNotice}
        /\ \A C : Alone(control, FirstUnsent, wire, C)
                     /\ (ResyncNotice \notin C \/ Ahead \cap C = {})
                  => Alone(control', FirstUnsent', wire', C)
    BY <1>2, <1>4, <2>2, ControlGrows
  <2>4. ServerOK' BY <1>1, <1>2, <1>3, <2>1, <2>3 DEF ServerOK
  <2>5. SubscribedOnce'
    <3>1. Alone(control', FirstUnsent', wire', {Result})
      BY <1>1, <2>2, <2>3 DEF SubscribedOnce
    <3>2. Result \in Ahead' => Result \in Ahead BY <2>2, <2>3
    <3> QED BY <1>1, <1>2, <1>3, <2>1, <3>1, <3>2 DEF SubscribedOnce
  <2>6. HeldOK' BY <1>1, <1>2 DEF HeldOK
  <2>7. FetchOK'
    <3>1. Alone(control', FirstUnsent', wire', CurrentAnswers)
      BY <1>1, <2>2, <2>3 DEF FetchOK
    <3>2. Ahead' \cap CurrentAnswers \subseteq Ahead \cap CurrentAnswers BY <2>2, <2>3
    <3>3. \A answer : Continues(answer) => Continues(answer)' BY <1>2 DEF Continues
    <3> QED BY <1>1, <1>2, <1>3, <3>1, <3>2, <3>3 DEF FetchOK
  <2> QED BY <2>4, <2>5, <2>6, <2>7 DEF SyncInv
<1>5. CASE /\ activation' = [activation EXCEPT !.phase = "replay", !.todo = Replayed]
           /\ UNCHANGED control
  <2>1. Oldest(JournalWindow) \in Nat /\ Oldest(JournalWindow) >= 1
    BY <1>1 DEF Oldest, Newest
  <2>2. Replayed \in Seq(0..revision)
    <3> DEFINE n == revision + 1 - Oldest(JournalWindow)
    <3>1. n \in Int BY <1>1, <2>1
    <3>2. \A i \in 1..n : Oldest(JournalWindow) + i - 1 \in 0..revision BY <1>1, <2>1
    <3>3. Replayed \in [1..n -> 0..revision] BY <3>2 DEF Replayed
    <3> HIDE DEF n
    <3> HIDE DEF Replayed
    <3>4. CASE n \in Nat BY <3>3, <3>4, FunctionIsSequence
    <3>5. CASE n \notin Nat
      <4>1. 1..n = 1..0 /\ 0 \in Nat BY <3>1, <3>5
      <4> QED BY <3>3, <4>1, FunctionIsSequence
    <3> QED BY <3>4, <3>5
  <2> HIDE DEF Replayed
  <2>3. activation' \in Activations /\ activation'.phase = "replay"
    BY <1>1, <1>5, <2>2 DEF ServerOK, Activations
  <2> QED BY <1>1, <1>2, <1>3, <1>5, <2>3, ServerStep DEF ServerOK
<1> QED BY <1>4, <1>5 DEF Activate

\* workspace.delta and workspace.snapshot: the server owes the answer no more.
LEMMA AnswerInv ==
    ASSUME SyncInv, Answer
    PROVE  SyncInv'
<1> DEFINE whole == \/ request.operation = "snapshot"
                    \/ /\ request.from # revision
                       /\ request.from < Oldest(HistoryWindow) - 1
           answer == [type |-> "answer", ticket |-> request.ticket, to |-> revision,
                      whole |-> whole]
<1>1. /\ ServerOK /\ SubscribedOnce /\ HeldOK /\ FetchOK
      /\ failures \in Nat /\ revision \in Nat /\ revision <= MaxRevision /\ MaxRevision \in Nat
  BY Bounds, SyncAssumption DEF SyncInv, FetchOK
<1>2. /\ UNCHANGED <<base, revision, activation, lane, resyncPending, sending, wire,
                     subscription, failures, held, loop, fetch>>
      /\ request # Nothing /\ request' = Nothing
      /\ control' = Append(control, answer)
  BY DEF Answer
<1>3. /\ Activations' = Activations /\ LaneFrame' = LaneFrame /\ ControlFrames' = ControlFrames
      /\ CurrentAnswers' = CurrentAnswers /\ Subscriptions' = Subscriptions
  BY <1>2 DEF Activations, LaneFrame, ControlFrames, CurrentAnswers, Subscriptions
<1>4. /\ request.ticket = failures /\ request.operation = loop
      /\ request.operation \in {"snapshot", "delta"}
      /\ loop = "delta" => held # Nothing
      /\ Ahead \cap CurrentAnswers = {}
  BY <1>1, <1>2 DEF FetchOK, Requests
<1>5. whole \in BOOLEAN OBVIOUS
<1>6. ~whole => held # Nothing BY <1>4
<1> HIDE DEF whole
<1>7. /\ answer \in AnswersTo(failures, revision) /\ answer \in ControlFrames
      /\ answer # Result
  <2>1. answer \in AnswersTo(failures, revision) BY <1>1, <1>4, <1>5 DEF AnswersTo
  <2> QED BY <2>1, FrameKinds DEF ControlFrames
<1>8. answer.to = revision /\ (answer.whole \/ held # Nothing) BY <1>6
<1> HIDE DEF answer
<1>9. /\ control' \in Seq(ControlFrames) /\ control' # <<>>
      /\ Ahead' \subseteq Ahead \union {answer}
      /\ \A C : Alone(control, FirstUnsent, wire, C)
                   /\ (answer \notin C \/ Ahead \cap C = {})
                => Alone(control', FirstUnsent', wire', C)
  BY <1>2, <1>7, ControlGrows
<1>10. ServerOK' BY <1>1, <1>2, <1>3, <1>9 DEF ServerOK
<1>11. SubscribedOnce'
  <2>1. Alone(control', FirstUnsent', wire', {Result})
    BY <1>1, <1>7, <1>9 DEF SubscribedOnce
  <2>2. Result \in Ahead' => Result \in Ahead BY <1>7, <1>9
  <2> QED BY <1>1, <1>2, <1>3, <2>1, <2>2 DEF SubscribedOnce
<1>12. HeldOK' BY <1>1, <1>2 DEF HeldOK
<1>13. FetchOK'
  <2>1. Alone(control', FirstUnsent', wire', CurrentAnswers)
    BY <1>1, <1>4, <1>9 DEF FetchOK
  <2>2. Ahead' \cap CurrentAnswers \subseteq {answer} BY <1>4, <1>9
  <2>3. \A a : a.to = revision /\ (a.whole \/ held # Nothing) => Continues(a)'
    BY <1>1, <1>2 DEF Continues, HeldOK
  <2>4. \A a \in Ahead' \cap CurrentAnswers' : Continues(a)'
    BY <1>3, <1>8, <2>2, <2>3
  <2>5. loop \in {"snapshot", "delta"} BY <1>4
  <2> QED BY <1>1, <1>2, <1>3, <2>1, <2>4, <2>5 DEF FetchOK
<1> QED BY <1>10, <1>11, <1>12, <1>13 DEF SyncInv

\* The pump hands a frame to the transport, and completes it.
LEMMA PumpStep ==
    ASSUME SyncInv, UNCHANGED <<base, revision, activation, storeVars, subscription, failures>>,
           control' \in Seq(ControlFrames), lane' \in Seq(LaneFrame),
           wire' \in Seq(ControlFrames \union LaneFrame),
           sending' \in Queues \union {Nothing},
           sending' = [queue |-> "control"] => control' # <<>>,
           sending' = [queue |-> "lane"] => lane' # <<>>,
           Ahead' \subseteq Ahead \union LaneFrame,
           \A C : C \cap LaneFrame = {} /\ Alone(control, FirstUnsent, wire, C)
                  => Alone(control', FirstUnsent', wire', C)
    PROVE  SyncInv'
<1>1. /\ ServerOK /\ SubscribedOnce /\ HeldOK /\ FetchOK
  BY DEF SyncInv
<1>2. UNCHANGED <<held, loop, fetch, request>> BY DEF storeVars
<1>3. /\ Activations' = Activations /\ LaneFrame' = LaneFrame /\ ControlFrames' = ControlFrames
      /\ CurrentAnswers' = CurrentAnswers /\ Subscriptions' = Subscriptions
  BY DEF Activations, LaneFrame, ControlFrames, CurrentAnswers, Subscriptions
<1>4. {Result} \cap LaneFrame = {} /\ CurrentAnswers \cap LaneFrame = {}
  BY FrameKinds
<1>5. ServerOK' BY <1>1, <1>3 DEF ServerOK
<1>6. SubscribedOnce'
  <2>1. Alone(control', FirstUnsent', wire', {Result}) BY <1>1, <1>4 DEF SubscribedOnce
  <2>2. Result \in Ahead' => Result \in Ahead BY <1>4
  <2> QED BY <1>1, <1>2, <1>3, <2>1, <2>2 DEF SubscribedOnce
<1>7. HeldOK' BY <1>1, <1>2 DEF HeldOK
<1>8. FetchOK'
  <2>1. Alone(control', FirstUnsent', wire', CurrentAnswers) BY <1>1, <1>4 DEF FetchOK
  <2>2. Ahead' \cap CurrentAnswers \subseteq Ahead \cap CurrentAnswers BY <1>4
  <2>3. \A answer : Continues(answer) => Continues(answer)' BY <1>2 DEF Continues
  <2> QED BY <1>1, <1>2, <1>3, <2>1, <2>2, <2>3 DEF FetchOK
<1> QED BY <1>5, <1>6, <1>7, <1>8 DEF SyncInv

LEMMA DeliverInv ==
    ASSUME SyncInv, Deliver
    PROVE  SyncInv'
<1>1. /\ ServerOK /\ sending = Nothing /\ FirstUnsent = 1
      /\ UNCHANGED <<base, revision, activation, control, lane, storeVars, subscription, failures>>
  <2>1. Nothing # [queue |-> "control"] BY NothingAssumption DEF Queues
  <2> QED BY <2>1 DEF SyncInv, Deliver, FirstUnsent
<1>2. wire \in Seq(ControlFrames \union LaneFrame) BY <1>1 DEF ServerOK
<1>3. CASE control # <<>> /\ sending' = [queue |-> "control"] /\ wire' = Append(wire, Head(control))
  <2>1. Head(control) \in ControlFrames BY <1>1, <1>3, HeadTailProperties DEF ServerOK
  <2>2. wire' \in Seq(ControlFrames \union LaneFrame)
    BY <1>2, <1>3, <2>1, AppendProperties
  <2>3. FirstUnsent' = 2 /\ sending' # [queue |-> "lane"]
    <3>1. [queue |-> "control"].queue # [queue |-> "lane"].queue OBVIOUS
    <3> QED BY <1>3, <3>1 DEF FirstUnsent
  <2>4. Ahead' \subseteq Ahead
    <3> DEFINE T == ControlFrames \union LaneFrame
    <3>1. wire \in Seq(T) /\ Head(control) \in T /\ control \in Seq(ControlFrames)
      BY <1>1, <1>2, <2>1 DEF ServerOK
    <3> HIDE DEF T
    <3>2. Coming(control, 2, Append(wire, Head(control))) \subseteq Coming(control, 1, wire)
      BY <1>3, <3>1, HandedOver
    <3> QED BY <1>1, <1>3, <2>3, <3>2 DEF Ahead
  <2>5. ASSUME NEW C, Alone(control, FirstUnsent, wire, C)
        PROVE  Alone(control', FirstUnsent', wire', C)
    BY <1>1, <1>2, <1>3, <2>1, <2>3, <2>5, HandedOver DEF ServerOK
  <2> QED BY <1>1, <1>3, <2>2, <2>3, <2>4, <2>5, PumpStep DEF ServerOK, Queues
<1>4. CASE lane # <<>> /\ sending' = [queue |-> "lane"] /\ wire' = Append(wire, Head(lane))
  <2>1. Head(lane) \in LaneFrame BY <1>1, <1>4, HeadTailProperties DEF ServerOK
  <2>2. wire' \in Seq(ControlFrames \union LaneFrame)
    BY <1>2, <1>4, <2>1, AppendProperties
  <2>3. FirstUnsent' = 1 /\ sending' # [queue |-> "control"]
    <3>1. [queue |-> "control"].queue # [queue |-> "lane"].queue OBVIOUS
    <3> QED BY <1>4, <3>1 DEF FirstUnsent
  <2>4. Ahead' \subseteq Ahead \union LaneFrame
    <3> DEFINE T == ControlFrames \union LaneFrame
    <3>1. wire \in Seq(T) /\ Head(lane) \in T /\ Head(lane) \notin {}
      BY <1>2, <2>1
    <3> HIDE DEF T
    <3>2. Coming(control, 1, Append(wire, Head(lane))) \subseteq
             Coming(control, 1, wire) \union {Head(lane)}
      BY <3>1, LaneHandedOver
    <3> QED BY <1>1, <1>4, <2>1, <2>3, <3>2 DEF Ahead
  <2>5. ASSUME NEW C, C \cap LaneFrame = {}, Alone(control, FirstUnsent, wire, C)
        PROVE  Alone(control', FirstUnsent', wire', C)
    <3> DEFINE T == ControlFrames \union LaneFrame
    <3>1. wire \in Seq(T) /\ Head(lane) \in T /\ Head(lane) \notin C
      BY <1>2, <2>1, <2>5
    <3> HIDE DEF T
    <3>2. Alone(control, 1, Append(wire, Head(lane)), C)
      BY <1>1, <2>5, <3>1, LaneHandedOver
    <3> QED BY <1>1, <1>4, <2>3, <3>2
  <2> QED BY <1>1, <1>4, <2>2, <2>3, <2>4, <2>5, PumpStep DEF ServerOK, Queues
<1> QED BY <1>3, <1>4 DEF Deliver

LEMMA DeliveredInv ==
    ASSUME SyncInv, Delivered
    PROVE  SyncInv'
<1>1. /\ ServerOK /\ sending \in Queues /\ sending' = Nothing /\ FirstUnsent' = 1
      /\ Nothing \notin Queues
      /\ UNCHANGED <<base, revision, activation, wire, storeVars, subscription, failures>>
  <2>1. Nothing \notin Queues BY NothingAssumption
  <2>2. sending \in Queues BY DEF SyncInv, ServerOK, Delivered
  <2>3. FirstUnsent' = 1 BY <2>1 DEF Delivered, FirstUnsent, Queues
  <2> QED BY <2>1, <2>2, <2>3 DEF SyncInv, Delivered
<1>2. CASE sending = [queue |-> "control"]
  <2>1. /\ FirstUnsent = 2 /\ control # <<>> /\ control' = Tail(control)
        /\ UNCHANGED lane /\ control \in Seq(ControlFrames)
    BY <1>1, <1>2 DEF FirstUnsent, ServerOK, Delivered
  <2>2. control' \in Seq(ControlFrames) BY <2>1, HeadTailProperties
  <2>3. Ahead' \subseteq Ahead BY <1>1, <2>1, HandoverCompleted DEF Ahead
  <2>4. ASSUME NEW C, Alone(control, FirstUnsent, wire, C)
        PROVE  Alone(control', FirstUnsent', wire', C)
    BY <1>1, <2>1, <2>4, HandoverCompleted
  <2> QED BY <1>1, <2>1, <2>2, <2>3, <2>4, PumpStep DEF ServerOK, Queues
<1>3. CASE sending = [queue |-> "lane"]
  <2>1. [queue |-> "control"].queue # [queue |-> "lane"].queue OBVIOUS
  <2>2. FirstUnsent = 1 /\ lane # <<>> /\ lane' = Tail(lane) /\ UNCHANGED control
    BY <1>1, <1>3, <2>1 DEF FirstUnsent, ServerOK, Delivered
  <2>3. lane' \in Seq(LaneFrame) BY <1>1, <2>2, HeadTailProperties DEF ServerOK
  <2>4. Ahead' = Ahead BY <1>1, <2>2 DEF Ahead
  <2> QED BY <1>1, <2>2, <2>3, <2>4, PumpStep DEF ServerOK, Queues
<1> QED BY <1>1, <1>2, <1>3 DEF Queues

----------------------------------------------------------------------------
(* Steps of the store.                                                     *)

\* A step of the client leaves the server alone and sends nothing.
LEMMA ClientStep ==
    ASSUME SyncInv, UNCHANGED serverVars, HeldOK', FetchOK', failures <= failures',
           wire' \in Seq(ControlFrames \union LaneFrame), Ahead' \subseteq Ahead,
           Alone(control', FirstUnsent', wire', {Result}),
           subscription' \in Subscriptions,
           Result \in Ahead' \/ activation.phase = "none" => subscription'.phase = "asked",
           subscription'.phase \in {"asked", "answered", "failed"} =>
               loop' = "idle" /\ held' = Nothing
    PROVE  SyncInv'
<1>1. /\ ServerOK /\ SubscribedOnce /\ failures \in Nat /\ failures' \in Nat /\ revision \in Nat
      /\ UNCHANGED <<base, revision, activation, control, lane, sending>>
  BY Bounds, SyncAssumption DEF SyncInv, FetchOK, serverVars
<1>2. /\ ControlFrames \subseteq ControlFrames' /\ LaneFrame \subseteq LaneFrame'
      /\ Activations' = Activations /\ Subscriptions' = Subscriptions
  BY <1>1, Grows DEF Activations, Subscriptions
<1>3. ServerOK'
  <2>1. control \in Seq(ControlFrames') /\ lane \in Seq(LaneFrame')
        /\ wire' \in Seq(ControlFrames' \union LaneFrame')
    BY <1>1, <1>2, SeqMonotone DEF ServerOK
  <2> QED BY <1>1, <1>2, <2>1 DEF ServerOK
<1>4. SubscribedOnce'
  BY <1>1, <1>2 DEF SubscribedOnce
<1> QED BY <1>3, <1>4 DEF SyncInv

\* A step of the client that receives nothing.
LEMMA QuietStep ==
    ASSUME SyncInv, UNCHANGED <<serverVars, wire>>, HeldOK', FetchOK', failures <= failures',
           subscription' \in Subscriptions,
           subscription'.phase = "asked" <=> subscription.phase = "asked",
           subscription'.phase \in {"asked", "answered", "failed"} =>
               loop' = "idle" /\ held' = Nothing
    PROVE  SyncInv'
<1>1. UNCHANGED <<control, sending, activation, wire>> BY DEF serverVars
<1>2. Ahead' = Ahead /\ FirstUnsent' = FirstUnsent BY <1>1 DEF Ahead, FirstUnsent
<1>3. ServerOK /\ SubscribedOnce BY DEF SyncInv
<1>4. wire' \in Seq(ControlFrames \union LaneFrame) BY <1>1, <1>3 DEF ServerOK
<1>5. Alone(control', FirstUnsent', wire', {Result}) BY <1>1, <1>2, <1>3 DEF SubscribedOnce
<1> QED BY <1>2, <1>3, <1>4, <1>5, ClientStep DEF SubscribedOnce

\* fetchAndPublish starts from the projection held.
LEMMA FetchStarts ==
    ASSUME SyncInv, loop \notin {"snapshot", "delta"}, NEW forced, FetchNext(forced),
           UNCHANGED <<revision, held, failures>>, Ahead' \subseteq Ahead,
           Alone(control', FirstUnsent', wire', CurrentAnswers)
    PROVE  FetchOK'
<1>1. /\ FetchOK /\ HeldOK /\ revision \in Nat /\ revision <= MaxRevision /\ MaxRevision \in Nat
      /\ CurrentAnswers' = CurrentAnswers
  BY Bounds, SameFailures DEF SyncInv
<1> DEFINE operation == IF held = Nothing \/ forced THEN "snapshot" ELSE "delta"
           from == IF operation = "delta" THEN held.revision ELSE 0
<1>2. /\ operation \in {"snapshot", "delta"} /\ (operation = "delta" => held # Nothing)
      /\ operation = "delta" => from = held.revision
  OBVIOUS
<1>3. /\ fetch' = [previous |-> held, answer |-> Nothing]
      /\ request' = [operation |-> operation, ticket |-> failures, from |-> from]
      /\ loop' = operation
  BY DEF FetchNext, Fetch
<1>4. from \in 0..MaxRevision BY <1>1 DEF HeldOK
<1> HIDE DEF operation, from
<1>5. [operation |-> operation, ticket |-> failures, from |-> from] \in Requests
  BY <1>1, <1>2, <1>4 DEF Requests, FetchOK
<1>6. Ahead' \cap CurrentAnswers = {} BY <1>1 DEF FetchOK
<1>7. request' # Nothing BY <1>3, <1>5, NothingAssumption
<1>8. /\ request'.ticket = failures /\ request'.operation = operation /\ request'.from = from
      /\ fetch'.previous = held /\ fetch'.answer = Nothing
  BY <1>3
<1> QED BY <1>1, <1>2, <1>3, <1>5, <1>6, <1>8 DEF FetchOK

\* What the store does between fetches, and while one is under way.
LEMMA FetchKept ==
    ASSUME SyncInv, UNCHANGED <<revision, held, failures, loop, fetch, request>>,
           Ahead' \subseteq Ahead, Alone(control', FirstUnsent', wire', CurrentAnswers)
    PROVE  FetchOK'
<1>1. FetchOK /\ CurrentAnswers' = CurrentAnswers BY SameFailures DEF SyncInv
<1>2. \A answer : Continues(answer) => Continues(answer)' BY DEF Continues
<1> QED BY <1>1, <1>2 DEF FetchOK

LEMMA RefreshFetch ==
    ASSUME SyncInv, NEW forced, Refresh(forced),
           UNCHANGED <<revision, held, failures>>, Ahead' \subseteq Ahead,
           Alone(control', FirstUnsent', wire', CurrentAnswers)
    PROVE  FetchOK'
BY FetchStarts, FetchKept DEF Refresh, Join

LEMMA HeldSame == ASSUME SyncInv, UNCHANGED <<revision, held>> PROVE HeldOK'
BY DEF SyncInv, HeldOK

\* The first frame on the wire reaches the client.
LEMMA WireShrinks ==
    ASSUME SyncInv, wire # <<>>, wire' = Tail(wire), UNCHANGED <<serverVars, failures>>
    PROVE  /\ wire' \in Seq(ControlFrames \union LaneFrame)
           /\ Ahead' \subseteq Ahead
           /\ Head(wire) \in Ahead /\ Head(wire) \in ControlFrames \union LaneFrame
           /\ Alone(control', FirstUnsent', wire', CurrentAnswers)
           /\ Head(wire) \in CurrentAnswers => Ahead' \cap CurrentAnswers = {}
           /\ Alone(control', FirstUnsent', wire', {Result})
           /\ Head(wire) = Result => Result \notin Ahead'
<1> DEFINE T == ControlFrames \union LaneFrame
<1>1. /\ wire \in Seq(T) /\ UNCHANGED <<control, sending>>
      /\ Alone(control, FirstUnsent, wire, CurrentAnswers)
      /\ Alone(control, FirstUnsent, wire, {Result})
  BY DEF SyncInv, ServerOK, FetchOK, SubscribedOnce, serverVars
<1>2. FirstUnsent' = FirstUnsent BY <1>1 DEF FirstUnsent
<1> HIDE DEF T
<1>3. wire' \in Seq(T) BY <1>1, HeadTailProperties
<1>4. /\ Coming(control, FirstUnsent, Tail(wire)) \subseteq Coming(control, FirstUnsent, wire)
      /\ Head(wire) \in Coming(control, FirstUnsent, wire) /\ Head(wire) \in T
      /\ Alone(control, FirstUnsent, Tail(wire), CurrentAnswers)
      /\ Head(wire) \in CurrentAnswers =>
            Coming(control, FirstUnsent, Tail(wire)) \cap CurrentAnswers = {}
  BY <1>1, ReceivedHead
<1>5. /\ Alone(control, FirstUnsent, Tail(wire), {Result})
      /\ Head(wire) \in {Result} => Coming(control, FirstUnsent, Tail(wire)) \cap {Result} = {}
  BY <1>1, ReceivedHead
<1>6. Ahead = Coming(control, FirstUnsent, wire)
      /\ Ahead' = Coming(control, FirstUnsent, Tail(wire))
  BY <1>1, <1>2 DEF Ahead
<1> QED BY <1>1, <1>2, <1>3, <1>4, <1>5, <1>6 DEF T

LEMMA ReceiveResultInv ==
    ASSUME SyncInv, Receive, ReceiveResult
    PROVE  SyncInv'
<1>1. /\ wire # <<>> /\ wire' = Tail(wire) /\ UNCHANGED <<serverVars, failures, storeVars>>
      /\ Head(wire) = Result /\ subscription' = [subscription EXCEPT !.phase = "answered"]
  BY DEF Receive, ReceiveResult
<1>2. /\ wire' \in Seq(ControlFrames \union LaneFrame)
      /\ Ahead' \subseteq Ahead /\ Result \in Ahead /\ Result \notin Ahead'
      /\ Alone(control', FirstUnsent', wire', CurrentAnswers)
      /\ Alone(control', FirstUnsent', wire', {Result})
  BY <1>1, WireShrinks
<1>3. UNCHANGED <<revision, held, failures, loop, fetch, request>>
  BY <1>1 DEF serverVars, storeVars
<1>4. /\ failures \in Nat /\ activation.phase # "none" /\ loop = "idle" /\ held = Nothing
  BY <1>2, SyncAssumption DEF SyncInv, FetchOK, SubscribedOnce
<1>5. subscription' \in Subscriptions /\ subscription'.phase = "answered"
  BY <1>1 DEF SyncInv, SubscribedOnce, Subscriptions
<1>6. FetchOK' BY <1>2, <1>3, FetchKept
<1>7. HeldOK' BY <1>3, HeldSame
<1> QED BY <1>1, <1>2, <1>3, <1>4, <1>5, <1>6, <1>7, ClientStep

LEMMA ReceiveAnswerInv ==
    ASSUME SyncInv, Receive, ReceiveAnswer
    PROVE  SyncInv'
<1> DEFINE answer == Head(wire)
<1>1. /\ wire # <<>> /\ wire' = Tail(wire) /\ UNCHANGED <<serverVars, failures>>
      /\ answer.type = "answer"
      /\ UNCHANGED <<subscription, held, request, revision, activation>>
      /\ IF answer.ticket = failures
         THEN loop' = "answered" /\ fetch' = [fetch EXCEPT !.answer = answer]
         ELSE UNCHANGED <<loop, fetch>>
  BY DEF Receive, ReceiveAnswer, serverVars
<1>2. /\ wire' \in Seq(ControlFrames \union LaneFrame)
      /\ Ahead' \subseteq Ahead
      /\ answer \in Ahead /\ answer \in ControlFrames \union LaneFrame
      /\ Alone(control', FirstUnsent', wire', CurrentAnswers)
      /\ answer \in CurrentAnswers => Ahead' \cap CurrentAnswers = {}
      /\ Alone(control', FirstUnsent', wire', {Result})
  BY <1>1, WireShrinks
<1>3. /\ SubscribedOnce /\ FetchOK /\ HeldOK' /\ failures \in Nat
      /\ revision \in Nat /\ revision <= MaxRevision /\ MaxRevision \in Nat
      /\ CurrentAnswers' = CurrentAnswers
  BY <1>1, HeldSame, SameFailures, Bounds, SyncAssumption DEF SyncInv, FetchOK
<1>4. answer \in AnswersTo(failures, revision)
  <2>1. Result.type # "answer" /\ ResyncNotice.type # "answer"
    BY DEF Result, ResyncNotice
  <2>2. \A frame \in LaneFrame : frame.type # "answer"
    BY <2>1 DEF LaneFrame, EventsTo
  <2> QED BY <1>1, <1>2, <2>1, <2>2 DEF ControlFrames
<1> HIDE DEF answer
<1>5. CASE answer.ticket = failures
  <2>1. answer \in CurrentAnswers
    <3>1. 0..revision \subseteq 0..MaxRevision BY <1>3
    <3> QED BY <1>4, <1>5, <3>1 DEF CurrentAnswers, AnswersTo
  <2>2. /\ loop \in {"snapshot", "delta"} /\ request = Nothing /\ Continues(answer)
        /\ fetch.previous = held
    BY <1>2, <1>3, <2>1 DEF FetchOK
  <2>3. /\ loop' = "answered" /\ fetch'.answer = answer /\ fetch'.previous = held
        /\ fetch' = [previous |-> fetch'.previous, answer |-> fetch'.answer]
    <3>1. fetch = [previous |-> fetch.previous, answer |-> fetch.answer] BY <1>3 DEF FetchOK
    <3>2. fetch' = [previous |-> fetch.previous, answer |-> answer] BY <1>1, <1>5, <3>1
    <3> QED BY <1>1, <1>5, <2>2, <3>2
  <2>4. Ahead' \cap CurrentAnswers' = {} BY <1>2, <1>3, <2>1
  <2>5. \A a : Continues(a) => Continues(a)' BY <1>1 DEF Continues
  <2>6. Continues(fetch.answer)'
    <3>1. \A a : a = fetch'.answer /\ Continues(a) => Continues(fetch.answer)'
      BY <1>1 DEF Continues
    <3> QED BY <2>2, <2>3, <3>1
  <2>7. FetchOK'
    BY <1>1, <1>2, <1>3, <2>2, <2>3, <2>4, <2>6 DEF FetchOK
  <2>8. subscription.phase \notin {"asked", "answered", "failed"}
    BY <1>3, <2>2 DEF SubscribedOnce
  <2>9. Result \in Ahead' \/ activation.phase = "none" => subscription'.phase = "asked"
    BY <1>1, <1>2, <1>3 DEF SubscribedOnce
  <2> QED BY <1>1, <1>2, <1>3, <2>7, <2>8, <2>9, ClientStep DEF SubscribedOnce
<1>6. CASE answer.ticket # failures
  <2>1. UNCHANGED <<revision, held, failures, loop, fetch, request>> BY <1>1, <1>6
  <2>2. FetchOK' BY <1>2, <2>1, FetchKept
  <2>3. Result \in Ahead' \/ activation.phase = "none" => subscription'.phase = "asked"
    BY <1>1, <1>2, <1>3 DEF SubscribedOnce
  <2>4. subscription'.phase \in {"asked", "answered", "failed"} =>
           loop' = "idle" /\ held' = Nothing
    BY <1>1, <1>3, <2>1 DEF SubscribedOnce
  <2> QED BY <1>1, <1>2, <1>3, <2>2, <2>3, <2>4, ClientStep DEF SubscribedOnce
<1> QED BY <1>5, <1>6

\* A record continues the projection held, or a fetch decides the next one.
LEMMA HeardStep ==
    ASSUME SyncInv, UNCHANGED <<revision, failures>>,
           Ahead' \subseteq Ahead, Alone(control', FirstUnsent', wire', CurrentAnswers),
           NEW event \in EventsTo(revision), Heard(event)
    PROVE  /\ HeldOK' /\ FetchOK'
           /\ held # Nothing => held' # Nothing /\ held'.revision >= held.revision
<1>1. /\ FetchOK /\ HeldOK /\ revision \in Nat /\ event.revision \in 0..revision
      /\ revision <= MaxRevision /\ MaxRevision \in Nat
      /\ CurrentAnswers' = CurrentAnswers
  BY Bounds, SameFailures DEF SyncInv, EventsTo
<1>2. CASE UNCHANGED <<held, status, loop, fetch, request, again, awaited, force, late>>
  BY <1>1, <1>2, FetchKept, HeldSame DEF HeldOK
<1>3. CASE /\ Advances(event)
           /\ held' = ApplyRecord(held, event.revision)
           /\ UNCHANGED <<loop, fetch, request, again, awaited, force, late>>
  <2>1. /\ held # Nothing /\ loop = "idle" /\ held.revision = event.revision - 1
        /\ held = WorkspaceAt(held.revision) /\ held.revision \in 0..revision
    BY <1>1, <1>3 DEF Advances, HeldOK
  <2>2. held.changes = 1..(event.revision - 1) BY <2>1 DEF WorkspaceAt
  <2>3. held' = WorkspaceAt(event.revision)
    <3>1. held.changes \union {event.revision} = 1..event.revision
      BY <1>1, <2>1, <2>2
    <3> QED BY <1>3, <3>1 DEF ApplyRecord, WorkspaceAt
  <2>4. held'.revision = event.revision BY <2>3 DEF WorkspaceAt
  <2>5. HeldOK' BY <1>1, <2>3, <2>4 DEF HeldOK
  <2>6. Ahead \cap CurrentAnswers = {} /\ request = Nothing
    <3>1. request # Nothing => loop = request.operation /\ request.operation \in {"snapshot", "delta"}
      BY <1>1 DEF FetchOK, Requests
    <3> QED BY <1>1, <2>1, <3>1 DEF FetchOK
  <2>7. FetchOK' BY <1>1, <1>3, <2>1, <2>6 DEF FetchOK
  <2>8. held' # Nothing
    <3>1. 1..event.revision \in SUBSET (1..MaxRevision) /\ event.revision \in 0..MaxRevision
      BY <1>1
    <3>2. held' \in Projections BY <2>3, <3>1 DEF WorkspaceAt, Projections
    <3> QED BY <3>2, NothingAssumption
  <2> QED BY <1>1, <2>1, <2>4, <2>5, <2>7, <2>8
<1>4. CASE RefreshTo(event.revision) /\ UNCHANGED <<held, status>>
  <2>1. FetchOK'
    BY <1>4, FetchStarts, FetchKept DEF RefreshTo, Join
  <2> QED BY <1>1, <1>4, <2>1, HeldSame DEF HeldOK
<1> QED BY <1>2, <1>3, <1>4 DEF Heard

LEMMA ReceiveEventInv ==
    ASSUME SyncInv, Receive, ReceiveEvent
    PROVE  /\ SyncInv'
           /\ held # Nothing => held' # Nothing /\ held'.revision >= held.revision
<1> DEFINE event == Head(wire)
<1>1. /\ wire # <<>> /\ wire' = Tail(wire) /\ UNCHANGED <<serverVars, failures>>
      /\ UNCHANGED <<revision, activation>> /\ event.type = "event"
  BY DEF Receive, ReceiveEvent, serverVars
<1>2. /\ wire' \in Seq(ControlFrames \union LaneFrame)
      /\ Ahead' \subseteq Ahead
      /\ event \in ControlFrames \union LaneFrame
      /\ Alone(control', FirstUnsent', wire', CurrentAnswers)
      /\ Alone(control', FirstUnsent', wire', {Result})
  BY <1>1, WireShrinks
<1>3. SubscribedOnce /\ HeldOK /\ failures \in Nat /\ revision \in Nat
  BY Bounds, SyncAssumption DEF SyncInv, FetchOK
<1>4. event \in EventsTo(revision)
  <2>1. Result.type # "event" /\ ResyncNotice.type # "event"
    BY DEF Result, ResyncNotice
  <2>2. \A frame \in AnswersTo(failures, revision) : frame.type # "event"
    BY DEF AnswersTo
  <2> QED BY <1>1, <1>2, <2>1, <2>2 DEF ControlFrames, LaneFrame
<1>5. Result \in Ahead' \/ activation.phase = "none" => subscription.phase = "asked"
  BY <1>1, <1>2, <1>3 DEF SubscribedOnce
<1>6. CASE subscription.phase \in {"attached", "started"}
  <2>1. Heard(event) /\ UNCHANGED subscription BY <1>6 DEF Receive, ReceiveEvent
  <2>2. /\ HeldOK' /\ FetchOK'
        /\ held # Nothing => held' # Nothing /\ held'.revision >= held.revision
    BY <1>1, <1>2, <1>4, <2>1, HeardStep
  <2> QED BY <1>1, <1>2, <1>3, <1>5, <1>6, <2>1, <2>2, ClientStep DEF SubscribedOnce
<1>7. CASE subscription.phase \notin {"attached", "started"}
  <2>1. UNCHANGED <<storeVars, held, loop, fetch, request>>
    BY <1>7 DEF Receive, ReceiveEvent, storeVars
  <2>2. FetchOK' /\ HeldOK' BY <1>1, <1>2, <2>1, FetchKept, HeldSame
  <2>3. subscription' \in Subscriptions /\ subscription'.phase = subscription.phase
    <3>1. /\ subscription \in Subscriptions /\ subscription.buffered \in Seq(EventsTo(revision))
          /\ <<>> \in Seq(EventsTo(revision))
      BY <1>3 DEF SubscribedOnce, Subscriptions
    <3>2. Append(subscription.buffered, event) \in Seq(EventsTo(revision))
      BY <1>4, <3>1, AppendProperties
    <3> HIDE DEF event
    <3>3. \/ subscription' = [subscription EXCEPT !.buffered = Append(@, event)]
          \/ subscription' = [subscription EXCEPT !.buffered = <<>>, !.overflow = TRUE]
      BY <1>7 DEF Receive, ReceiveEvent, event
    <3> QED BY <3>1, <3>2, <3>3 DEF Subscriptions
  <2>4. held # Nothing => held' # Nothing /\ held'.revision >= held.revision
    BY <1>3, <2>1 DEF HeldOK
  <2> QED BY <1>1, <1>2, <1>3, <1>5, <2>1, <2>2, <2>3, <2>4, ClientStep DEF SubscribedOnce
<1> QED BY <1>6, <1>7

LEMMA ReceiveResyncInv ==
    ASSUME SyncInv, Receive, ReceiveResync
    PROVE  SyncInv' /\ UNCHANGED held
<1>1. /\ wire # <<>> /\ wire' = Tail(wire) /\ UNCHANGED <<serverVars, failures>>
      /\ UNCHANGED <<revision, activation>>
      /\ subscription' = [subscription EXCEPT !.buffered = <<>>, !.resync = TRUE]
  BY DEF Receive, ReceiveResync, serverVars
<1>2. /\ wire' \in Seq(ControlFrames \union LaneFrame)
      /\ Ahead' \subseteq Ahead
      /\ Alone(control', FirstUnsent', wire', CurrentAnswers)
      /\ Alone(control', FirstUnsent', wire', {Result})
  BY <1>1, WireShrinks
<1>3. SubscribedOnce /\ failures \in Nat BY SyncAssumption DEF SyncInv, FetchOK
<1>4. subscription' \in Subscriptions /\ subscription'.phase = subscription.phase
  <2>1. <<>> \in Seq(EventsTo(revision)) OBVIOUS
  <2> QED BY <1>1, <1>3, <2>1 DEF SubscribedOnce, Subscriptions
<1>5. Result \in Ahead' \/ activation.phase = "none" => subscription'.phase = "asked"
  BY <1>1, <1>2, <1>3, <1>4 DEF SubscribedOnce
<1>6. CASE subscription.phase \in {"attached", "started"}
  <2>1. Refresh(TRUE) /\ UNCHANGED held
    BY <1>6 DEF Receive, ReceiveResync, HeardResync
  <2>2. FetchOK' /\ HeldOK' BY <1>1, <1>2, <2>1, RefreshFetch, HeldSame
  <2> QED BY <1>1, <1>2, <1>3, <1>4, <1>5, <1>6, <2>1, <2>2, ClientStep
<1>7. CASE subscription.phase \notin {"attached", "started"}
  <2>1. UNCHANGED <<storeVars, held, loop, fetch, request>>
    BY <1>7 DEF Receive, ReceiveResync, storeVars
  <2>2. FetchOK' /\ HeldOK' BY <1>1, <1>2, <2>1, FetchKept, HeldSame
  <2> QED BY <1>1, <1>2, <1>3, <1>4, <1>5, <2>1, <2>2, ClientStep DEF SubscribedOnce
<1> QED BY <1>6, <1>7

\* A client step that moves nothing in the queues.
LEMMA NothingReceived ==
    ASSUME SyncInv, UNCHANGED <<serverVars, wire, failures>>
    PROVE  /\ UNCHANGED revision /\ Ahead' \subseteq Ahead
           /\ Alone(control', FirstUnsent', wire', CurrentAnswers)
<1>1. UNCHANGED <<revision, control, sending, wire>> BY DEF serverVars
<1>2. Ahead' = Ahead /\ FirstUnsent' = FirstUnsent BY <1>1 DEF Ahead, FirstUnsent
<1> QED BY <1>1, <1>2 DEF SyncInv, FetchOK

LEMMA AttachInv ==
    ASSUME SyncInv, Attach
    PROVE  SyncInv' /\ UNCHANGED held
<1>1. /\ UNCHANGED <<serverVars, wire, failures, held>>
      /\ subscription.phase = "answered"
      /\ subscription' = [subscription EXCEPT !.phase = "attached", !.buffered = <<>>]
      /\ \/ Refresh(TRUE)
         \/ FetchNext(FALSE)
         \/ UNCHANGED storeVars
  BY DEF Attach, HeardResync, storeVars
<1>2. SubscribedOnce /\ failures \in Nat BY SyncAssumption DEF SyncInv, FetchOK
<1>3. loop = "idle" BY <1>1, <1>2 DEF SubscribedOnce
<1>4. subscription' \in Subscriptions /\ subscription'.phase = "attached"
  <2>1. <<>> \in Seq(EventsTo(revision)) OBVIOUS
  <2> QED BY <1>1, <1>2, <2>1 DEF SubscribedOnce, Subscriptions
<1>5. FetchOK' BY <1>1, <1>3, NothingReceived, RefreshFetch, FetchStarts, FetchKept DEF storeVars
<1>6. HeldOK' BY <1>1, NothingReceived, HeldSame
<1> QED BY <1>1, <1>2, <1>4, <1>5, <1>6, QuietStep

LEMMA AttachOverflowedInv ==
    ASSUME SyncInv, AttachOverflowed
    PROVE  SyncInv' /\ UNCHANGED held
<1>1. /\ UNCHANGED <<serverVars, wire, failures, held, loop, fetch, request>>
      /\ subscription.phase = "answered"
      /\ subscription' = [subscription EXCEPT !.phase = "failed"]
  BY DEF AttachOverflowed, storeVars
<1>2. SubscribedOnce /\ failures \in Nat BY SyncAssumption DEF SyncInv, FetchOK
<1>3. loop = "idle" /\ held = Nothing BY <1>1, <1>2 DEF SubscribedOnce
<1>4. subscription' \in Subscriptions /\ subscription'.phase = "failed"
  BY <1>1, <1>2 DEF SubscribedOnce, Subscriptions
<1>5. FetchOK' BY <1>1, NothingReceived, FetchKept
<1>6. HeldOK' BY <1>1, NothingReceived, HeldSame
<1> QED BY <1>1, <1>2, <1>3, <1>4, <1>5, <1>6, QuietStep

LEMMA LoadInitialInv ==
    ASSUME SyncInv, LoadInitial
    PROVE  SyncInv' /\ UNCHANGED held
<1>1. /\ UNCHANGED <<serverVars, wire, failures, held>>
      /\ subscription.phase = "attached"
      /\ subscription' = [subscription EXCEPT !.phase = "started"]
      /\ Refresh(force)
  BY DEF LoadInitial
<1>2. SubscribedOnce /\ failures \in Nat BY SyncAssumption DEF SyncInv, FetchOK
<1>3. subscription' \in Subscriptions /\ subscription'.phase = "started"
  BY <1>1, <1>2 DEF SubscribedOnce, Subscriptions
<1>4. FetchOK' BY <1>1, NothingReceived, RefreshFetch
<1>5. HeldOK' BY <1>1, NothingReceived, HeldSame
<1> QED BY <1>1, <1>2, <1>3, <1>4, <1>5, QuietStep

LEMMA AskRefreshInv ==
    ASSUME SyncInv, AskRefresh
    PROVE  SyncInv' /\ UNCHANGED held
<1>1. /\ UNCHANGED <<serverVars, wire, failures, held, subscription>>
      /\ subscription.phase = "started"
      /\ Refresh(force)
  BY DEF AskRefresh
<1>2. SubscribedOnce /\ failures \in Nat BY SyncAssumption DEF SyncInv, FetchOK
<1>3. FetchOK' BY <1>1, NothingReceived, RefreshFetch
<1>4. HeldOK' BY <1>1, NothingReceived, HeldSame
<1> QED BY <1>1, <1>2, <1>3, <1>4, QuietStep DEF SubscribedOnce

\* The subscription of a store whose loop is not idle has its listeners.
LEMMA LoopListens ==
    ASSUME SyncInv, loop # "idle"
    PROVE  /\ subscription \in Subscriptions
           /\ subscription.phase \notin {"asked", "answered", "failed"}
BY DEF SyncInv, SubscribedOnce

LEMMA PublishInv ==
    ASSUME SyncInv, Publish
    PROVE  /\ SyncInv'
           /\ held' # Nothing
           /\ held # Nothing => held' # Nothing /\ held'.revision >= held.revision
<1> DEFINE to == fetch.answer.to
<1>1. /\ UNCHANGED <<serverVars, wire, failures, request, subscription, fetch>>
      /\ loop = "answered" /\ loop' = "published"
      /\ held' = [revision |-> to, changes |-> AnswerChanges]
  BY DEF Publish
<1>2. /\ FetchOK /\ HeldOK /\ failures \in Nat /\ revision \in Nat
      /\ revision <= MaxRevision /\ MaxRevision \in Nat
      /\ UNCHANGED revision /\ Ahead' \subseteq Ahead
      /\ Alone(control', FirstUnsent', wire', CurrentAnswers)
      /\ CurrentAnswers' = CurrentAnswers
  BY <1>1, NothingReceived, Bounds, SameFailures, SyncAssumption DEF SyncInv, FetchOK
<1>3. /\ fetch.previous = held /\ to \in 0..revision
      /\ held # Nothing => held.revision <= to
      /\ fetch.answer.whole \/ held # Nothing
      /\ Ahead \cap CurrentAnswers = {} /\ request = Nothing
  <2>1. request # Nothing => loop = request.operation /\ request.operation \in {"snapshot", "delta"}
    BY <1>2 DEF FetchOK, Requests
  <2> QED BY <1>1, <1>2, <2>1 DEF FetchOK, Continues
<1>4. AnswerChanges = 1..to
  <2>1. CASE fetch.answer.whole BY <2>1 DEF AnswerChanges
  <2>2. CASE ~fetch.answer.whole
    <3>1. /\ held = WorkspaceAt(held.revision) /\ held.revision \in 0..revision
          /\ held.revision <= to
      BY <1>2, <1>3, <2>2 DEF HeldOK
    <3>2. held.changes = 1..held.revision BY <3>1 DEF WorkspaceAt
    <3>3. AnswerChanges = held.changes \union ((held.revision + 1)..to)
      BY <1>3, <2>2 DEF AnswerChanges
    <3> HIDE DEF to
    <3>4. (1..held.revision) \union ((held.revision + 1)..to) = 1..to
      BY <1>2, <1>3, <3>1
    <3> QED BY <3>2, <3>3, <3>4
  <2> QED BY <2>1, <2>2
<1> HIDE DEF to
<1>5. held' = WorkspaceAt(to) /\ held'.revision = to BY <1>1, <1>4 DEF WorkspaceAt
<1>6. held' # Nothing
  <2>1. 1..to \in SUBSET (1..MaxRevision) /\ to \in 0..MaxRevision BY <1>2, <1>3
  <2>2. held' \in Projections BY <1>5, <2>1 DEF WorkspaceAt, Projections
  <2> QED BY <2>2, NothingAssumption
<1>7. HeldOK' BY <1>2, <1>3, <1>5 DEF HeldOK
<1>8. FetchOK' BY <1>1, <1>2, <1>3 DEF FetchOK
<1>9. held # Nothing => held'.revision >= held.revision
  BY <1>2, <1>3, <1>5 DEF HeldOK
<1> QED BY <1>1, <1>2, <1>6, <1>7, <1>8, <1>9, LoopListens, QuietStep

LEMMA LoopAgainInv ==
    ASSUME SyncInv, LoopAgain
    PROVE  SyncInv' /\ UNCHANGED held
<1>1. /\ UNCHANGED <<serverVars, wire, failures, held, subscription>>
      /\ loop = "published" /\ FetchNext(force)
  BY DEF LoopAgain
<1>2. failures \in Nat BY SyncAssumption DEF SyncInv, FetchOK
<1>3. FetchOK' BY <1>1, NothingReceived, FetchStarts
<1>4. HeldOK' BY <1>1, NothingReceived, HeldSame
<1> QED BY <1>1, <1>2, <1>3, <1>4, LoopListens, QuietStep

LEMMA LoopFinishesInv ==
    ASSUME SyncInv, LoopEnds \/ RefreshEnds
    PROVE  SyncInv' /\ UNCHANGED held
<1>1. /\ UNCHANGED <<serverVars, wire, failures, held, subscription, fetch, request>>
      /\ loop \in {"published", "settled"} /\ loop' \in {"settled", "idle"}
  BY DEF LoopEnds, RefreshEnds
<1>2. /\ FetchOK /\ failures \in Nat /\ UNCHANGED revision /\ Ahead' \subseteq Ahead
      /\ Alone(control', FirstUnsent', wire', CurrentAnswers)
      /\ CurrentAnswers' = CurrentAnswers
  BY <1>1, NothingReceived, SameFailures, SyncAssumption DEF SyncInv, FetchOK
<1>3. request # Nothing => loop = request.operation /\ request.operation \in {"snapshot", "delta"}
  BY <1>2 DEF FetchOK, Requests
<1>4. FetchOK' BY <1>1, <1>2, <1>3 DEF FetchOK
<1>5. HeldOK' BY <1>1, <1>2, HeldSame
<1> QED BY <1>1, <1>2, <1>4, <1>5, LoopListens, QuietStep

\* An answer to the query that failed carries an older ticket.
LEMMA FetchFailsInv ==
    ASSUME SyncInv, FetchFails
    PROVE  SyncInv' /\ UNCHANGED held
<1>1. /\ UNCHANGED <<serverVars, wire, held, subscription, revision, control, sending>>
      /\ loop \in {"snapshot", "delta"} /\ failures < MaxFailures /\ failures' = failures + 1
  BY DEF FetchFails, serverVars
<1>2. /\ ServerOK /\ FetchOK /\ failures \in Nat /\ MaxFailures \in Nat /\ MaxRevision \in Nat
      /\ failures' \in 0..MaxFailures
  BY <1>1, SyncAssumption DEF SyncInv, FetchOK
<1>3. Ahead' = Ahead /\ FirstUnsent' = FirstUnsent BY <1>1 DEF Ahead, FirstUnsent
<1>4. Ahead \subseteq ControlFrames \union LaneFrame
  <2>1. control \in Seq(ControlFrames) /\ wire \in Seq(ControlFrames \union LaneFrame)
        /\ FirstUnsent \in {1, 2}
    BY <1>2, Bounds DEF ServerOK
  <2>2. \A i \in FirstUnsent..Len(control) : control[i] \in ControlFrames
    BY <2>1, ElementOfSeq
  <2>3. \A i \in 1..Len(wire) : wire[i] \in ControlFrames \union LaneFrame
    BY <2>1, ElementOfSeq
  <2> QED BY <2>2, <2>3 DEF Ahead, Coming
<1>5. Ahead' \cap CurrentAnswers' = {}
  <2> SUFFICES ASSUME NEW frame \in Ahead, frame \in CurrentAnswers' PROVE FALSE
    BY <1>3
  <2>1. frame.type = "answer" /\ frame.ticket = failures + 1
    BY <1>1 DEF CurrentAnswers, AnswersTo
  <2>2. Result.type # "answer" /\ ResyncNotice.type # "answer"
    BY DEF Result, ResyncNotice
  <2>3. \A f \in LaneFrame : f.type # "answer"
    BY <2>2 DEF LaneFrame, EventsTo
  <2>4. frame.ticket \in 0..failures
    BY <1>4, <2>1, <2>2, <2>3 DEF ControlFrames, AnswersTo
  <2> QED BY <1>2, <2>1, <2>4
<1>6. Alone(control', FirstUnsent', wire', CurrentAnswers')
  <2>1. \A i \in FirstUnsent'..Len(control') : control'[i] \notin CurrentAnswers'
    BY <1>5 DEF Ahead, Coming
  <2>2. \A i \in 1..Len(wire') : wire'[i] \notin CurrentAnswers'
    BY <1>5 DEF Ahead, Coming
  <2> QED BY <2>1, <2>2 DEF Alone
<1>7. HeldOK' BY <1>1, HeldSame
<1>8. CASE loop = "delta" /\ Fetch("snapshot", fetch.previous, failures + 1)
  <2>1. /\ fetch' = [previous |-> fetch.previous, answer |-> Nothing]
        /\ request' = [operation |-> "snapshot", ticket |-> failures + 1, from |-> 0]
        /\ loop' = "snapshot"
    BY <1>8 DEF Fetch
  <2>2. fetch.previous = held BY <1>2, <1>8 DEF FetchOK
  <2>3. request' \in Requests BY <1>1, <1>2, <2>1 DEF Requests
  <2>4. /\ request'.ticket = failures' /\ request'.operation = "snapshot"
        /\ fetch'.previous = held /\ fetch'.answer = Nothing
    BY <1>1, <2>1, <2>2
  <2>5. FetchOK' BY <1>1, <1>2, <1>5, <1>6, <2>1, <2>3, <2>4 DEF FetchOK
  <2> QED BY <1>1, <1>2, <1>7, <2>5, LoopListens, QuietStep
<1>9. CASE loop' = "settled" /\ request' = Nothing /\ UNCHANGED fetch
  <2>1. FetchOK' BY <1>1, <1>2, <1>5, <1>6, <1>9 DEF FetchOK
  <2> QED BY <1>1, <1>2, <1>7, <2>1, LoopListens, QuietStep
<1> QED BY <1>8, <1>9 DEF FetchFails

----------------------------------------------------------------------------
(* The theorems.                                                           *)

LEMMA InitSync == Init => SyncInv
<1> SUFFICES ASSUME Init PROVE SyncInv OBVIOUS
<1>1. /\ base \in Bases /\ revision = base /\ control = <<>> /\ lane = <<>> /\ wire = <<>>
      /\ sending = Nothing /\ request = Nothing /\ held = Nothing /\ loop = "idle"
      /\ failures = 0
      /\ activation = [phase |-> "none", todo |-> <<>>, pending |-> <<>>, last |-> 0]
      /\ subscription = [phase |-> "asked", buffered |-> <<>>, overflow |-> FALSE,
                         resync |-> FALSE]
      /\ fetch = [previous |-> Nothing, answer |-> Nothing]
  BY DEF Init
<1>2. revision \in Nat /\ revision <= MaxRevision /\ base \in Nat /\ MaxRevision \in Nat
  BY <1>1, SyncAssumption
<1>3. Nothing # [queue |-> "control"] /\ Nothing # [queue |-> "lane"]
  BY NothingAssumption DEF Queues
<1>4. FirstUnsent = 1 /\ Len(<<>>) = 0 BY <1>1, <1>3 DEF FirstUnsent
<1>5. Ahead = {} BY <1>1, <1>4 DEF Ahead, Coming
<1>6. \A C : Alone(control, FirstUnsent, wire, C) BY <1>1, <1>4 DEF Alone
<1>7. activation \in Activations /\ activation.phase = "none"
  <2>1. <<>> \in Seq(0..revision) /\ <<>> \in Seq(EventsTo(revision)) /\ 0 \in 0..revision
    BY <1>2
  <2> QED BY <1>1, <2>1 DEF Activations
<1>8. ServerOK BY <1>1, <1>2, <1>3, <1>7 DEF ServerOK
<1>9. subscription \in Subscriptions /\ subscription.phase = "asked"
  <2>1. <<>> \in Seq(EventsTo(revision)) OBVIOUS
  <2> QED BY <1>1, <2>1 DEF Subscriptions
<1>10. SubscribedOnce BY <1>1, <1>5, <1>6, <1>9 DEF SubscribedOnce
<1>11. HeldOK BY <1>1 DEF HeldOK
<1>12. FetchOK
  <2>1. failures \in 0..MaxFailures BY <1>1, SyncAssumption
  <2> QED BY <1>1, <1>5, <1>6, <2>1 DEF FetchOK
<1> QED BY <1>8, <1>10, <1>11, <1>12 DEF SyncInv

\* What is held changes only for a later projection.
Forward == held # Nothing => held' # Nothing /\ held'.revision >= held.revision

LEMMA ServerLeavesHeld ==
    ASSUME SyncInv,
           \/ Commit \/ AcceptSubscription \/ Activate \/ ResyncSent \/ ReplayNext \/ ReplayEnds
           \/ DrainNext \/ Answer \/ Deliver \/ Delivered
    PROVE  SyncInv' /\ UNCHANGED held
<1>1. SyncInv'
  BY CommitInv, AcceptSubscriptionInv, ActivateInv, ResyncSentInv, ReplayNextInv, ReplayEndsInv,
     DrainNextInv, AnswerInv, DeliverInv, DeliveredInv
<1>2. UNCHANGED held
  BY DEF Commit, AcceptSubscription, Activate, ResyncSent, ReplayNext, ReplayEnds, DrainNext,
         Answer, Deliver, Delivered, storeVars
<1> QED BY <1>1, <1>2

LEMMA NextSync ==
    ASSUME SyncInv, [Next]_vars
    PROVE  SyncInv' /\ [Forward]_held
<1>1. CASE \/ Commit \/ AcceptSubscription \/ Activate \/ ResyncSent \/ ReplayNext \/ ReplayEnds
           \/ DrainNext \/ Answer \/ Deliver \/ Delivered
  BY <1>1, ServerLeavesHeld
<1>2. CASE Receive
  <2>1. CASE ReceiveResult
    BY <1>2, <2>1, ReceiveResultInv DEF ReceiveResult, storeVars
  <2>2. CASE ReceiveAnswer
    BY <1>2, <2>2, ReceiveAnswerInv DEF ReceiveAnswer
  <2>3. CASE ReceiveEvent
    BY <1>2, <2>3, ReceiveEventInv DEF Forward
  <2>4. CASE ReceiveResync
    BY <1>2, <2>4, ReceiveResyncInv
  <2> QED BY <1>2, <2>1, <2>2, <2>3, <2>4 DEF Receive
<1>3. CASE Publish
  BY <1>3, PublishInv DEF Forward
<1>4. CASE \/ Attach \/ AttachOverflowed \/ LoadInitial \/ AskRefresh
           \/ LoopAgain \/ LoopEnds \/ RefreshEnds \/ FetchFails
  BY <1>4, AttachInv, AttachOverflowedInv, LoadInitialInv, AskRefreshInv, LoopAgainInv,
     LoopFinishesInv, FetchFailsInv
<1>5. CASE UNCHANGED vars
  <2>1. UNCHANGED <<serverVars, storeVars, wire, subscription, failures, held, loop, fetch,
                    request>>
    BY <1>5 DEF vars, storeVars
  <2>2. /\ failures \in Nat /\ FetchOK' /\ HeldOK'
    BY <2>1, NothingReceived, FetchKept, HeldSame, SyncAssumption DEF SyncInv, FetchOK
  <2>3. SubscribedOnce BY DEF SyncInv
  <2>4. SyncInv' BY <2>1, <2>2, <2>3, QuietStep DEF SubscribedOnce
  <2> QED BY <2>1, <2>4
<1> QED BY <1>1, <1>2, <1>3, <1>4, <1>5 DEF Next

\* Every reachable state of the server, the queues between and the store
\* satisfies the inductive invariant.
THEOREM SyncInvariant == Spec => []SyncInv
<1>1. Init => SyncInv BY InitSync
<1>2. SyncInv /\ [Next]_vars => SyncInv' BY NextSync
<1> QED BY <1>1, <1>2, PTL DEF Spec

\* Records, deltas, snapshots and recoveries, in whatever order their frames and
\* failures come, leave no hole in the projection of WorkspaceSnapshotStore.
THEOREM SyncNoHole == Spec => []NoHole
<1>1. SyncInv => NoHole BY DEF SyncInv, HeldOK, NoHole
<1> QED BY <1>1, SyncInvariant, PTL

\* publish and advanceByRecord never replace the projection by an earlier one.
THEOREM SyncNeverBack == Spec => NeverBack
<1>1. SyncInv /\ [Next]_vars => [Forward]_held BY NextSync
<1>2. Spec => [][Forward]_held BY <1>1, SyncInvariant, PTL DEF Spec
<1> QED BY <1>2 DEF NeverBack, Forward

----------------------------------------------------------------------------
(* When everything has arrived, the client is current.                     *)

\* The events and notices that have not reached the client, and the answers to
\* its last query.
LaneFirstUnsent == IF LaneHeadActive THEN 2 ELSE 1
UnderWay == Coming(lane, LaneFirstUnsent, wire) \union Ahead

\* A fetch is under way, is owed, or has failed.
WillFetch ==
    \/ request # Nothing
    \/ again
    \/ abandoned /\ loop \in {"idle", "settled"}
    \/ subscription.phase = "failed"
    \/ subscription.phase \in {"asked", "answered", "attached"} /\ loop = "idle"
    \/ ResyncNotice \in UnderWay

\* The event of revision r is still to come.
EventComing(r) ==
    \/ activation.phase \in {"none", "accepted"} /\ r > base
    \/ activation.phase = "replay" /\ \E i \in DOMAIN activation.todo : activation.todo[i] = r
    \/ /\ activation.phase \in {"replay", "live"}
       /\ \E i \in DOMAIN activation.pending : activation.pending[i].revision = r
    \/ Event(r, TRUE) \in UnderWay \/ Event(r, FALSE) \in UnderWay

\* Revision r is held, or known to be missing, or an answer to the last query brings it.
Reached(r) ==
    \/ awaited >= r
    \/ \E answer \in Ahead \cap CurrentAnswers : answer.to = r
    \/ loop = "answered" /\ fetch.answer.to = r
    \/ held # Nothing /\ held.revision = r

\* An event is dropped only while a notice makes up for it.
DropsAnnounced == resyncPending \/ activation.phase = "resync" => WillFetch

CurrentOK ==
    /\ resyncPending => \E i \in DOMAIN lane : lane[i] = ResyncNotice
    /\ loop = "published" => held # Nothing /\ held.revision = fetch.answer.to
    /\ awaited \in 0..revision
    /\ DropsAnnounced
    /\ WillFetch \/ EventComing(revision) \/ Reached(revision)

\* What is on its way stays so while frames join a queue, leave for the client or
\* are completed; the client takes the first of the wire.
LEMMA ComingStays ==
    ASSUME NEW S, NEW queue \in Seq(S), NEW n \in {1, 2}, NEW T, NEW onWire \in Seq(T),
           NEW frame
    PROVE  /\ Coming(queue, n, onWire) \subseteq Coming(Append(queue, frame), n, onWire)
           /\ Coming(queue, n, onWire) \subseteq Coming(queue, n, Append(onWire, frame))
           /\ queue # <<>> =>
                 /\ Coming(queue, 1, onWire) \subseteq Coming(queue, 2, Append(onWire, Head(queue)))
                 /\ Coming(queue, 2, onWire) \subseteq Coming(Tail(queue), 1, onWire)
           /\ onWire # <<>> =>
                 Coming(queue, n, onWire) \subseteq
                    Coming(queue, n, Tail(onWire)) \union {Head(onWire)}
<1>1. /\ Len(queue) \in Nat /\ Len(onWire) \in Nat
      /\ \A f : Len(Append(queue, f)) = Len(queue) + 1 /\ Len(Append(onWire, f)) = Len(onWire) + 1
  OBVIOUS
<1>2. \A f : /\ \A i \in 1..Len(queue) : Append(queue, f)[i] = queue[i]
             /\ \A i \in 1..Len(onWire) : Append(onWire, f)[i] = onWire[i]
             /\ Append(onWire, f)[Len(onWire) + 1] = f
  OBVIOUS
<1>3. /\ \A i \in n..Len(queue) : i \in 1..Len(queue) /\ i \in n..(Len(queue) + 1)
      /\ \A i \in 1..Len(onWire) : i \in 1..(Len(onWire) + 1)
      /\ Len(onWire) + 1 \in 1..(Len(onWire) + 1)
  BY <1>1
<1>4. Coming(queue, n, onWire) \subseteq Coming(Append(queue, frame), n, onWire)
  BY <1>1, <1>2, <1>3 DEF Coming
<1>5. Coming(queue, n, onWire) \subseteq Coming(queue, n, Append(onWire, frame))
  BY <1>1, <1>2, <1>3 DEF Coming
<1>6. ASSUME queue # <<>>
      PROVE  Coming(queue, 1, onWire) \subseteq Coming(queue, 2, Append(onWire, Head(queue)))
  <2>1. Head(queue) = queue[1] BY <1>6
  <2>2. \A i \in 1..Len(queue) : i = 1 \/ i \in 2..Len(queue) BY <1>1
  <2> QED BY <1>1, <1>2, <1>3, <2>1, <2>2 DEF Coming
<1>7. ASSUME queue # <<>>
      PROVE  Coming(queue, 2, onWire) \subseteq Coming(Tail(queue), 1, onWire)
  <2>1. Len(Tail(queue)) = Len(queue) - 1 /\ Len(queue) # 0 BY <1>7, EmptySeq
  <2>2. \A i \in 1..Len(Tail(queue)) : Tail(queue)[i] = queue[i + 1] BY <1>7
  <2>3. \A i \in 2..Len(queue) : i - 1 \in 1..Len(Tail(queue)) /\ (i - 1) + 1 = i
    BY <1>1, <2>1
  <2>4. \A i \in 2..Len(queue) : queue[i] = Tail(queue)[i - 1] BY <2>2, <2>3
  <2> QED BY <2>3, <2>4 DEF Coming
<1>8. ASSUME onWire # <<>>
      PROVE  Coming(queue, n, onWire) \subseteq
                Coming(queue, n, Tail(onWire)) \union {Head(onWire)}
  <2>1. Len(Tail(onWire)) = Len(onWire) - 1 /\ Head(onWire) = onWire[1] BY <1>8
  <2>2. \A i \in 1..Len(Tail(onWire)) : Tail(onWire)[i] = onWire[i + 1] BY <1>8
  <2>3. \A i \in 1..Len(onWire) :
           i = 1 \/ (i - 1 \in 1..Len(Tail(onWire)) /\ (i - 1) + 1 = i)
    BY <1>1, <2>1
  <2>4. \A i \in 1..Len(onWire) :
           i = 1 \/ (i - 1 \in 1..Len(Tail(onWire)) /\ onWire[i] = Tail(onWire)[i - 1])
    BY <2>2, <2>3
  <2> QED BY <2>1, <2>4 DEF Coming
<1> QED BY <1>4, <1>5, <1>6, <1>7, <1>8

\* The kinds of frames are told apart.
LEMMA KindsApart ==
    /\ \A r : \A record : /\ Event(r, record) # ResyncNotice /\ Event(r, record) # Result
                          /\ Event(r, record) \notin CurrentAnswers
                          /\ Event(r, record).type = "event"
                          /\ Event(r, record).revision = r
    /\ \A r : \A event \in EventsTo(r) :
          event = Event(event.revision, TRUE) \/ event = Event(event.revision, FALSE)
    /\ Result.type = "command_result" /\ ResyncNotice.type = "event_resync"
    /\ \A answer \in CurrentAnswers : answer.type = "answer"
<1>1. Result.type = "command_result" /\ ResyncNotice.type = "event_resync"
  BY DEF Result, ResyncNotice
<1>2. \A answer \in CurrentAnswers : answer.type = "answer"
  BY DEF CurrentAnswers, AnswersTo
<1>3. \A r : \A record : Event(r, record).type = "event" /\ Event(r, record).revision = r
  BY DEF Event
<1>4. ASSUME NEW r, NEW event \in EventsTo(r)
      PROVE  event = Event(event.revision, TRUE) \/ event = Event(event.revision, FALSE)
  BY DEF EventsTo, Event
<1> QED BY <1>1, <1>2, <1>3, <1>4

\* A step that leaves the store alone keeps what the client will do.
LEMMA ServerCurrent ==
    ASSUME SyncInv, CurrentOK, UNCHANGED <<storeVars, subscription, failures>>,
           revision' \in {revision, revision + 1},
           resyncPending' => \E i \in DOMAIN lane' : lane'[i] = ResyncNotice,
           resyncPending' \/ activation'.phase = "resync" =>
              resyncPending \/ activation.phase = "resync" \/ ResyncNotice \in UnderWay',
           ResyncNotice \in UnderWay => ResyncNotice \in UnderWay',
           Ahead \subseteq Ahead',
           WillFetch' \/ EventComing(revision)'
              \/ (revision' = revision /\ (EventComing(revision) => EventComing(revision)'))
    PROVE  CurrentOK'
<1>1. UNCHANGED <<held, loop, fetch, again, awaited, force, abandoned, request, subscription,
                  failures>>
  BY DEF storeVars
<1>2. WillFetch => WillFetch' BY <1>1 DEF WillFetch
<1>3. DropsAnnounced' BY <1>2 DEF CurrentOK, DropsAnnounced, WillFetch
<1>4. CurrentAnswers' = CurrentAnswers BY <1>1, SameFailures
<1>5. revision' = revision /\ Reached(revision) => Reached(revision)'
  BY <1>1, <1>4 DEF Reached
<1>6. awaited' \in 0..revision'
  <2>1. awaited \in 0..revision /\ revision \in Nat BY Bounds DEF CurrentOK, SyncInv
  <2> QED BY <1>1, <2>1
<1> QED BY <1>1, <1>2, <1>3, <1>5, <1>6 DEF CurrentOK

\* An event given to the lane is on its way, or a notice is that makes up for it,
\* for what the lane lost, and for what it will not take until the notice has left.
LEMMA SendStateCovers ==
    ASSUME SyncInv, CurrentOK, UNCHANGED <<control, wire, sending>>,
           NEW event, SendState(event)
    PROVE  /\ resyncPending' => \E i \in DOMAIN lane' : lane'[i] = ResyncNotice
           /\ resyncPending' => resyncPending \/ ResyncNotice \in UnderWay'
           /\ resyncPending \/ event \in UnderWay' \/ ResyncNotice \in UnderWay'
           /\ \A frame \in UnderWay : frame \in UnderWay' \/ ResyncNotice \in UnderWay'
           /\ Ahead' = Ahead
<1> DEFINE T == LaneFrame \union {event}
           n == LaneFirstUnsent
<1>1. /\ lane \in Seq(LaneFrame) /\ wire \in Seq(ControlFrames \union LaneFrame)
      /\ n \in {1, 2}
      /\ LaneHeadActive <=> n = 2
      /\ LaneHeadActive => lane # <<>>
      /\ LaneFirstUnsent' = LaneFirstUnsent
  BY DEF SyncInv, ServerOK, LaneFirstUnsent, LaneHeadActive, Queues
<1>2. Ahead' = Ahead BY DEF Ahead, FirstUnsent
<1>3. CASE resyncPending /\ UNCHANGED <<lane, resyncPending>>
  BY <1>1, <1>2, <1>3 DEF CurrentOK, UnderWay
<1>4. CASE ~resyncPending /\ lane' = Append(lane, event) /\ UNCHANGED resyncPending
  <2> DEFINE W == ControlFrames \union LaneFrame
  <2>1. lane \in Seq(T) /\ event \in T /\ wire \in Seq(W) BY <1>1, SeqMonotone
  <2> HIDE DEF T, W, n
  <2>2. Coming(lane, n, wire) \subseteq Coming(lane', n, wire)
    BY <1>1, <1>4, <2>1, ComingStays
  <2>3. event \in Coming(lane', n, wire) BY <1>1, <1>4, <2>1, ComingAppend
  <2> USE DEF n
  <2> QED BY <1>1, <1>2, <1>4, <2>2, <2>3 DEF UnderWay
<1>5. CASE /\ ~resyncPending
           /\ lane' = Append(IF LaneHeadActive THEN <<Head(lane)>> ELSE <<>>, ResyncNotice)
           /\ resyncPending' = TRUE
  <2> DEFINE head == IF LaneHeadActive THEN <<Head(lane)>> ELSE <<>>
  <2>1. Len(lane') = n /\ lane'[n] = ResyncNotice /\ n \in DOMAIN lane'
    <3>1. head \in Seq({Head(lane)}) /\ Len(head) = n - 1
      <4>1. CASE LaneHeadActive
        <5>1. head = <<Head(lane)>> BY <4>1
        <5>2. Len(<<Head(lane)>>) = 1 /\ <<Head(lane)>> \in Seq({Head(lane)}) OBVIOUS
        <5> QED BY <1>1, <4>1, <5>1, <5>2
      <4>2. CASE ~LaneHeadActive BY <1>1, <4>2
      <4> QED BY <4>1, <4>2
    <3> HIDE DEF head
    <3>2. lane' = Append(head, ResyncNotice) BY <1>5 DEF head
    <3> QED BY <1>1, <3>1, <3>2
  <2>2. n \in n..Len(lane') BY <1>1, <2>1
  <2> HIDE DEF n
  <2>3. ResyncNotice \in Coming(lane', n, wire) BY <2>1, <2>2 DEF Coming
  <2> QED BY <1>1, <1>2, <2>1, <2>3 DEF UnderWay, n
<1> QED BY <1>3, <1>4, <1>5 DEF SendState

LEMMA CommitCurrent ==
    ASSUME SyncInv, CurrentOK, Commit
    PROVE  CurrentOK'
<1> DEFINE event == Event(revision + 1, TRUE)
<1>1. /\ ServerOK /\ revision \in Nat /\ base \in Nat /\ base <= revision
  BY Bounds, SyncAssumption DEF SyncInv, ServerOK
<1>2. /\ revision' = revision + 1
      /\ UNCHANGED <<base, control, wire, sending, storeVars, subscription, failures>>
  BY DEF Commit
<1>3. event.revision = revision' BY <1>2 DEF Event
<1> HIDE DEF event
<1>4. CASE /\ activation.phase \in {"resync", "replay"}
           /\ activation' = [activation EXCEPT !.pending = Append(@, event)]
           /\ UNCHANGED <<lane, resyncPending>>
  <2>1. UnderWay' = UnderWay /\ Ahead' = Ahead
    BY <1>2, <1>4 DEF UnderWay, Ahead, FirstUnsent, LaneFirstUnsent, LaneHeadActive
  <2>2. activation \in Activations /\ activation.pending \in Seq(EventsTo(revision))
    BY <1>1 DEF ServerOK, Activations
  <2>3. activation'.phase = activation.phase /\ activation'.pending = Append(activation.pending, event)
    BY <1>4, <2>2 DEF Activations
  <2>4. /\ Len(activation.pending) + 1 \in DOMAIN activation'.pending
        /\ activation'.pending[Len(activation.pending) + 1] = event
    BY <2>2, <2>3
  <2>5. CASE activation.phase = "replay"
    <3>1. EventComing(revision)' BY <1>3, <2>3, <2>4, <2>5 DEF EventComing
    <3> QED BY <1>2, <1>4, <2>1, <2>3, <3>1, ServerCurrent DEF CurrentOK
  <2>6. CASE activation.phase = "resync"
    <3>1. WillFetch' BY <1>2, <2>1, <2>6
                     DEF CurrentOK, DropsAnnounced, WillFetch, storeVars
    <3> QED BY <1>2, <1>4, <2>1, <2>3, <3>1, ServerCurrent DEF CurrentOK
  <2> QED BY <1>4, <2>5, <2>6
<1>5. CASE activation.phase = "live" /\ SendState(event) /\ UNCHANGED activation
  <2>1. /\ resyncPending' => \E i \in DOMAIN lane' : lane'[i] = ResyncNotice
        /\ resyncPending' => resyncPending \/ ResyncNotice \in UnderWay'
        /\ resyncPending \/ event \in UnderWay' \/ ResyncNotice \in UnderWay'
        /\ \A frame \in UnderWay : frame \in UnderWay' \/ ResyncNotice \in UnderWay'
        /\ Ahead' = Ahead
    BY <1>2, <1>5, SendStateCovers
  <2>2. WillFetch' \/ EventComing(revision)'
    <3>1. resyncPending => WillFetch'
      BY <1>2, <2>1 DEF CurrentOK, DropsAnnounced, WillFetch, storeVars
    <3>2. event \in UnderWay' => EventComing(revision)' BY <1>2 DEF EventComing, event
    <3> QED BY <2>1, <3>1, <3>2 DEF WillFetch
  <2> QED BY <1>2, <1>5, <2>1, <2>2, ServerCurrent
<1>6. CASE /\ activation.phase \notin {"resync", "replay", "live"}
           /\ UNCHANGED <<activation, lane, resyncPending>>
  <2>1. UnderWay' = UnderWay /\ Ahead' = Ahead
    BY <1>2, <1>6 DEF UnderWay, Ahead, FirstUnsent, LaneFirstUnsent, LaneHeadActive
  <2>2. activation.phase \in {"none", "accepted"}
    <3>1. activation \in Activations BY <1>1 DEF ServerOK
    <3>2. activation.phase \in {"none", "accepted", "resync", "replay", "live"}
      BY <3>1 DEF Activations
    <3> QED BY <1>6, <3>2
  <2>3. revision' > base' /\ activation'.phase \in {"none", "accepted"}
    BY <1>1, <1>2, <1>6, <2>2
  <2>4. EventComing(revision)' BY <2>3 DEF EventComing
  <2> QED BY <1>2, <1>6, <2>1, <2>4, ServerCurrent DEF CurrentOK
<1> QED BY <1>4, <1>5, <1>6 DEF Commit, event

\* A control frame joins its queue.
LEMMA ControlCurrent ==
    ASSUME SyncInv, NEW frame, control' = Append(control, frame),
           UNCHANGED <<lane, wire, sending>>
    PROVE  UnderWay \subseteq UnderWay' /\ Ahead \subseteq Ahead' /\ frame \in Ahead'
<1>1. /\ control \in Seq(ControlFrames \union {frame})
      /\ wire \in Seq(ControlFrames \union LaneFrame)
      /\ FirstUnsent \in {1, 2} /\ FirstUnsent' = FirstUnsent
      /\ FirstUnsent = 2 => control # <<>>
  BY SeqMonotone DEF SyncInv, ServerOK, FirstUnsent
<1>2. Ahead \subseteq Ahead' BY <1>1, ComingStays DEF Ahead
<1>3. frame \in Ahead' BY <1>1, ComingAppend DEF Ahead
<1>4. LaneFirstUnsent' = LaneFirstUnsent BY DEF LaneFirstUnsent, LaneHeadActive
<1> QED BY <1>2, <1>3, <1>4 DEF UnderWay

LEMMA AcceptSubscriptionCurrent ==
    ASSUME SyncInv, CurrentOK, AcceptSubscription
    PROVE  CurrentOK'
<1>1. /\ UNCHANGED <<base, revision, lane, resyncPending, sending, wire, storeVars,
                     subscription, failures>>
      /\ control' = Append(control, Result) /\ activation.phase = "none"
      /\ activation'.phase = "accepted"
  BY DEF AcceptSubscription, SyncInv, ServerOK, Activations
<1>2. UnderWay \subseteq UnderWay' /\ Ahead \subseteq Ahead' BY <1>1, ControlCurrent
<1>3. EventComing(revision) => EventComing(revision)' BY <1>1, <1>2 DEF EventComing
<1> QED BY <1>1, <1>2, <1>3, ServerCurrent DEF CurrentOK

LEMMA ActivateCurrent ==
    ASSUME SyncInv, CurrentOK, Activate
    PROVE  CurrentOK'
<1>1. /\ UNCHANGED <<base, revision, lane, resyncPending, sending, wire, storeVars,
                     subscription, failures>>
      /\ activation.phase = "accepted" /\ activation \in Activations
  BY DEF Activate, SyncInv, ServerOK
<1>2. CASE /\ control' = Append(control, ResyncNotice)
           /\ activation' = [activation EXCEPT !.phase = "resync"]
  <2>1. UnderWay \subseteq UnderWay' /\ Ahead \subseteq Ahead' /\ ResyncNotice \in Ahead'
    BY <1>1, <1>2, ControlCurrent
  <2>2. ResyncNotice \in UnderWay' BY <2>1 DEF UnderWay
  <2>3. WillFetch' BY <2>2 DEF WillFetch
  <2> QED BY <1>1, <2>1, <2>2, <2>3, ServerCurrent DEF CurrentOK
<1>3. CASE /\ activation' = [activation EXCEPT !.phase = "replay", !.todo = Replayed]
           /\ UNCHANGED control
  <2>1. UnderWay' = UnderWay /\ Ahead' = Ahead
    BY <1>1, <1>3 DEF UnderWay, Ahead, FirstUnsent, LaneFirstUnsent, LaneHeadActive
  <2>2. activation'.phase = "replay" /\ activation'.todo = Replayed
    BY <1>1, <1>3 DEF Activations
  <2>3. ASSUME revision > base PROVE EventComing(revision)'
    <3> DEFINE first == Oldest(JournalWindow)
               i == revision + 1 - first
    <3>1. revision \in Nat /\ base \in Nat /\ JournalWindow \in Nat \ {0}
      BY Bounds, SyncAssumption DEF SyncInv
    <3>2. first \in Nat /\ first <= revision BY <2>3, <3>1 DEF Oldest, Newest
    <3>3. DOMAIN Replayed = 1..i /\ \A j \in 1..i : Replayed[j] = first + j - 1
      BY DEF Replayed
    <3> HIDE DEF first
    <3>4. i \in 1..i /\ first + i - 1 = revision BY <3>1, <3>2
    <3> QED BY <1>1, <2>2, <3>3, <3>4 DEF EventComing
  <2>4. EventComing(revision) => EventComing(revision)'
    BY <1>1, <2>1, <2>3 DEF EventComing
  <2> QED BY <1>1, <2>1, <2>2, <2>4, ServerCurrent DEF CurrentOK
<1> QED BY <1>2, <1>3 DEF Activate

\* What is dropped here the client fetches on the notice that has left.
LEMMA ResyncSentCurrent ==
    ASSUME SyncInv, CurrentOK, ResyncSent
    PROVE  CurrentOK'
<1>1. /\ UNCHANGED <<base, revision, control, lane, resyncPending, sending, wire, storeVars,
                     subscription, failures>>
      /\ activation.phase = "resync" /\ activation'.phase = "live"
  BY DEF ResyncSent, SyncInv, ServerOK, Activations
<1>2. UnderWay' = UnderWay /\ Ahead' = Ahead
  BY <1>1 DEF UnderWay, Ahead, FirstUnsent, LaneFirstUnsent, LaneHeadActive
<1>3. WillFetch'
  BY <1>1, <1>2 DEF CurrentOK, DropsAnnounced, WillFetch, storeVars
<1> QED BY <1>1, <1>2, <1>3, ServerCurrent DEF CurrentOK

\* The head of a sequence, or a later place of it in its tail.
LEMMA HeadOrTail ==
    ASSUME NEW S, NEW q \in Seq(S), NEW i \in DOMAIN q
    PROVE  q # <<>> /\ (q[i] = Head(q) \/ \E j \in DOMAIN Tail(q) : Tail(q)[j] = q[i])
<1>1. q # <<>> /\ i \in 1..Len(q) /\ Len(q) \in Nat /\ Head(q) = q[1] BY EmptySeq
<1>2. CASE i = 1 BY <1>1, <1>2
<1>3. CASE i # 1
  <2>1. /\ Len(Tail(q)) = Len(q) - 1 /\ DOMAIN Tail(q) = 1..Len(Tail(q))
        /\ \A j \in 1..Len(Tail(q)) : Tail(q)[j] = q[j + 1]
    BY <1>1
  <2>2. i - 1 \in DOMAIN Tail(q) /\ (i - 1) + 1 = i BY <1>1, <1>3, <2>1
  <2> QED BY <1>1, <2>1, <2>2
<1> QED BY <1>2, <1>3

\* An event goes to the lane, and what is left of the activation is the rest.
LEMMA EventSentCurrent ==
    ASSUME SyncInv, CurrentOK,
           UNCHANGED <<base, revision, control, wire, sending, storeVars, subscription, failures>>,
           NEW event \in EventsTo(revision), SendState(event),
           activation'.phase # "resync",
           EventComing(revision) =>
              \/ EventComing(revision)' \/ event.revision = revision
              \/ Event(revision, TRUE) \in UnderWay \/ Event(revision, FALSE) \in UnderWay
    PROVE  CurrentOK'
<1>1. /\ resyncPending' => \E i \in DOMAIN lane' : lane'[i] = ResyncNotice
      /\ resyncPending' => resyncPending \/ ResyncNotice \in UnderWay'
      /\ resyncPending \/ event \in UnderWay' \/ ResyncNotice \in UnderWay'
      /\ \A frame \in UnderWay : frame \in UnderWay' \/ ResyncNotice \in UnderWay'
      /\ Ahead' = Ahead
  BY SendStateCovers
<1>2. ResyncNotice \in UnderWay' => WillFetch' BY DEF WillFetch
<1>3. CASE ResyncNotice \in UnderWay' BY <1>1, <1>2, <1>3, ServerCurrent
<1>4. CASE ResyncNotice \notin UnderWay'
  <2>1. resyncPending => WillFetch'
    <3>1. resyncPending => WillFetch BY DEF CurrentOK, DropsAnnounced
    <3> QED BY <1>1, <1>4, <3>1 DEF WillFetch, storeVars
  <2>2. event \in UnderWay' /\ event.revision = revision => EventComing(revision)'
    <3>1. event = Event(event.revision, TRUE) \/ event = Event(event.revision, FALSE)
      BY KindsApart
    <3> QED BY <3>1 DEF EventComing
  <2>3. \A record : Event(revision, record) \in UnderWay => Event(revision, record) \in UnderWay'
    BY <1>1, <1>4
  <2>4. WillFetch' \/ EventComing(revision)'
           \/ (EventComing(revision) => EventComing(revision)')
    BY <1>1, <1>4, <2>1, <2>2, <2>3 DEF EventComing
  <2> QED BY <1>1, <1>4, <2>4, ServerCurrent
<1> QED BY <1>3, <1>4

LEMMA ReplayNextCurrent ==
    ASSUME SyncInv, CurrentOK, ReplayNext
    PROVE  CurrentOK'
<1> DEFINE r == Head(activation.todo)
           event == Projected(r)
<1>1. /\ UNCHANGED <<base, revision, control, wire, sending, storeVars, subscription, failures>>
      /\ activation' = [activation EXCEPT !.todo = Tail(@), !.last = r]
      /\ activation.phase = "replay" /\ activation.todo # <<>>
      /\ SendState(event)
  BY DEF ReplayNext
<1>2. activation \in Activations /\ activation.todo \in Seq(0..revision) /\ r \in 0..revision
  BY <1>1, HeadTailProperties DEF SyncInv, ServerOK, Activations
<1>3. event \in EventsTo(revision) /\ event.revision = r
  <2>1. (r >= Oldest(HistoryWindow)) \in BOOLEAN OBVIOUS
  <2> QED BY <1>2, <2>1 DEF Projected, Event, EventsTo
<1> HIDE DEF event
<1>4. /\ activation'.phase = "replay" /\ activation'.todo = Tail(activation.todo)
      /\ activation'.pending = activation.pending
  BY <1>1, <1>2 DEF Activations
<1>5. EventComing(revision) =>
         \/ EventComing(revision)' \/ event.revision = revision
         \/ Event(revision, TRUE) \in UnderWay \/ Event(revision, FALSE) \in UnderWay
  <2>1. ASSUME NEW i \in DOMAIN activation.todo, activation.todo[i] = revision
        PROVE  EventComing(revision)' \/ event.revision = revision
    <3>1. \/ activation.todo[i] = r
          \/ \E j \in DOMAIN activation'.todo : activation'.todo[j] = activation.todo[i]
      BY <1>2, <1>4, HeadOrTail
    <3> QED BY <1>1, <1>3, <1>4, <2>1, <3>1 DEF EventComing
  <2>2. ASSUME NEW i \in DOMAIN activation.pending, activation.pending[i].revision = revision
        PROVE  EventComing(revision)'
    BY <1>1, <1>4, <2>2 DEF EventComing
  <2> QED BY <1>1, <2>1, <2>2 DEF EventComing
<1> QED BY <1>1, <1>3, <1>4, <1>5, EventSentCurrent

LEMMA SendHeldBackCurrent ==
    ASSUME SyncInv, CurrentOK, SendHeldBack,
           activation.phase \in {"replay", "live"},
           activation.phase = "replay" => activation.todo = <<>>,
           UNCHANGED <<base, revision, control, wire, sending, storeVars, subscription, failures>>
    PROVE  CurrentOK'
<1>1. activation \in Activations /\ activation.pending \in Seq(EventsTo(revision))
  BY DEF SyncInv, ServerOK, Activations
<1>2. activation.phase = "replay" => ~\E i \in DOMAIN activation.todo : activation.todo[i] = revision
  <2>1. DOMAIN <<>> = {} OBVIOUS
  <2> QED BY <2>1
<1>3. CASE /\ activation.pending = <<>>
           /\ activation' = [activation EXCEPT !.phase = "live"]
           /\ UNCHANGED <<lane, resyncPending>>
  <2>1. activation'.phase = "live" BY <1>1, <1>3 DEF Activations
  <2>2. UnderWay' = UnderWay /\ Ahead' = Ahead
    BY <1>3 DEF UnderWay, Ahead, FirstUnsent, LaneFirstUnsent, LaneHeadActive
  <2>3. ~\E i \in DOMAIN activation.pending : activation.pending[i].revision = revision
    <3>1. DOMAIN <<>> = {} OBVIOUS
    <3> QED BY <1>3, <3>1
  <2>4. EventComing(revision) => EventComing(revision)'
    BY <1>2, <2>2, <2>3 DEF EventComing
  <2> QED BY <1>3, <2>1, <2>2, <2>4, ServerCurrent DEF CurrentOK
<1>4. CASE /\ activation.pending # <<>>
           /\ activation' = [activation EXCEPT !.phase = "live", !.pending = Tail(@),
                                               !.last = Head(activation.pending).revision]
           /\ SendState(Head(activation.pending))
  <2> DEFINE event == Head(activation.pending)
  <2>1. event \in EventsTo(revision) BY <1>1, <1>4, HeadTailProperties
  <2>2. activation'.phase = "live" /\ activation'.pending = Tail(activation.pending)
    BY <1>1, <1>4 DEF Activations
  <2>3. EventComing(revision) =>
           \/ EventComing(revision)' \/ event.revision = revision
           \/ Event(revision, TRUE) \in UnderWay \/ Event(revision, FALSE) \in UnderWay
    <3>1. ASSUME NEW i \in DOMAIN activation.pending, activation.pending[i].revision = revision
          PROVE  EventComing(revision)' \/ event.revision = revision
      <4>1. \/ activation.pending[i] = event
            \/ \E j \in DOMAIN activation'.pending :
                  activation'.pending[j] = activation.pending[i]
        BY <1>1, <2>2, HeadOrTail
      <4> QED BY <2>2, <3>1, <4>1 DEF EventComing
    <3> QED BY <1>2, <3>1 DEF EventComing
  <2> QED BY <1>4, <2>1, <2>2, <2>3, EventSentCurrent
<1> QED BY <1>3, <1>4 DEF SendHeldBack

\* The server answers with the revision it has, after every notice has been completed.
LEMMA AnswerCurrent ==
    ASSUME SyncInv, CurrentOK, Answer
    PROVE  CurrentOK'
<1> DEFINE answer == [type |-> "answer", ticket |-> request.ticket, to |-> revision,
                      whole |-> \/ request.operation = "snapshot"
                                \/ /\ request.from # revision
                                   /\ request.from < Oldest(HistoryWindow) - 1]
<1>1. /\ UNCHANGED <<base, revision, activation, lane, resyncPending, sending, wire,
                     subscription, failures, held, loop, fetch, again, awaited, abandoned>>
      /\ request # Nothing /\ control' = Append(control, answer) /\ CompletionHandled
  BY DEF Answer
<1>2. /\ request.ticket = failures /\ failures \in Nat
      /\ revision \in Nat /\ revision <= MaxRevision /\ MaxRevision \in Nat
  BY <1>1, Bounds, SyncAssumption DEF SyncInv, FetchOK
<1>3. answer \in CurrentAnswers /\ answer.to = revision
  <2>1. (\/ request.operation = "snapshot"
         \/ /\ request.from # revision
            /\ request.from < Oldest(HistoryWindow) - 1) \in BOOLEAN
    OBVIOUS
  <2>2. answer.ticket = failures /\ answer.to = revision BY <1>2
  <2>3. answer \in AnswersTo(failures, MaxRevision) BY <1>2, <2>1 DEF AnswersTo
  <2> QED BY <2>2, <2>3 DEF CurrentAnswers
<1> HIDE DEF answer
<1>4. UnderWay \subseteq UnderWay' /\ Ahead \subseteq Ahead' /\ answer \in Ahead'
  BY <1>1, ControlCurrent
<1>5. Reached(revision)'
  <2>1. CurrentAnswers' = CurrentAnswers BY <1>1, SameFailures
  <2> QED BY <1>1, <1>3, <1>4, <2>1 DEF Reached
<1>6. sending = Nothing /\ FirstUnsent = 1 /\ LaneFirstUnsent = 1
  BY <1>1, NothingAssumption
     DEF CompletionHandled, FirstUnsent, LaneFirstUnsent, LaneHeadActive, Queues
<1>7. resyncPending => ResyncNotice \in UnderWay
  <2> SUFFICES ASSUME resyncPending PROVE ResyncNotice \in UnderWay OBVIOUS
  <2>1. PICK i \in DOMAIN lane : lane[i] = ResyncNotice BY DEF CurrentOK
  <2>2. i \in 1..Len(lane) BY DEF SyncInv, ServerOK
  <2> QED BY <1>6, <2>1, <2>2 DEF UnderWay, Coming
<1>8. activation.phase = "resync" => ResyncNotice \in UnderWay
  <2> SUFFICES ASSUME activation.phase = "resync" PROVE ResyncNotice \in UnderWay OBVIOUS
  <2>1. PICK i \in DOMAIN control : control[i] = ResyncNotice
    BY <1>1 DEF CompletionHandled, Sent
  <2>2. i \in 1..Len(control) BY DEF SyncInv, ServerOK
  <2> QED BY <1>6, <2>1, <2>2 DEF UnderWay, Ahead, Coming
<1>9. DropsAnnounced' BY <1>1, <1>4, <1>7, <1>8 DEF DropsAnnounced, WillFetch
<1> QED BY <1>1, <1>5, <1>9 DEF CurrentOK

LEMMA DeliverCurrent ==
    ASSUME SyncInv, CurrentOK, Deliver
    PROVE  CurrentOK'
<1> DEFINE W == ControlFrames \union LaneFrame
<1>1. /\ sending = Nothing /\ FirstUnsent = 1 /\ LaneFirstUnsent = 1
      /\ UNCHANGED <<base, revision, activation, control, lane, resyncPending, storeVars,
                     subscription, failures>>
      /\ control \in Seq(ControlFrames) /\ lane \in Seq(LaneFrame) /\ wire \in Seq(W)
  BY NothingAssumption
     DEF Deliver, FirstUnsent, LaneFirstUnsent, LaneHeadActive, Queues, SyncInv, ServerOK
<1>2. [queue |-> "control"].queue # [queue |-> "lane"].queue OBVIOUS
<1> HIDE DEF W
<1>3. UnderWay \subseteq UnderWay' /\ Ahead \subseteq Ahead'
  <2>1. CASE control # <<>> /\ sending' = [queue |-> "control"] /\ wire' = Append(wire, Head(control))
    <3>1. FirstUnsent' = 2 /\ LaneFirstUnsent' = 1
      BY <1>2, <2>1 DEF FirstUnsent, LaneFirstUnsent, LaneHeadActive
    <3>2. Coming(control, 1, wire) \subseteq Coming(control, 2, wire')
      BY <1>1, <2>1, ComingStays
    <3>3. Coming(lane, 1, wire) \subseteq Coming(lane, 1, wire')
      BY <1>1, <2>1, ComingStays
    <3> QED BY <1>1, <3>1, <3>2, <3>3 DEF UnderWay, Ahead
  <2>2. CASE lane # <<>> /\ sending' = [queue |-> "lane"] /\ wire' = Append(wire, Head(lane))
    <3>1. FirstUnsent' = 1 /\ LaneFirstUnsent' = 2
      <4>1. sending' # Nothing BY <2>2, NothingAssumption DEF Queues
      <4> QED BY <1>2, <2>2, <4>1 DEF FirstUnsent, LaneFirstUnsent, LaneHeadActive
    <3>2. Coming(control, 1, wire) \subseteq Coming(control, 1, wire')
      BY <1>1, <2>2, ComingStays
    <3>3. Coming(lane, 1, wire) \subseteq Coming(lane, 2, wire')
      BY <1>1, <2>2, ComingStays
    <3> QED BY <1>1, <3>1, <3>2, <3>3 DEF UnderWay, Ahead
  <2> QED BY <2>1, <2>2 DEF Deliver
<1>4. EventComing(revision) => EventComing(revision)' BY <1>1, <1>3 DEF EventComing
<1> QED BY <1>1, <1>3, <1>4, ServerCurrent DEF CurrentOK

LEMMA DeliveredCurrent ==
    ASSUME SyncInv, CurrentOK, Delivered
    PROVE  CurrentOK'
<1> DEFINE W == ControlFrames \union LaneFrame
<1>1. /\ sending \in Queues /\ sending' = Nothing
      /\ UNCHANGED <<base, revision, activation, wire, storeVars, subscription, failures>>
      /\ control \in Seq(ControlFrames) /\ lane \in Seq(LaneFrame) /\ wire \in Seq(W)
  BY DEF Delivered, SyncInv, ServerOK
<1>2. FirstUnsent' = 1 /\ LaneFirstUnsent' = 1
  BY <1>1, NothingAssumption DEF FirstUnsent, LaneFirstUnsent, LaneHeadActive, Queues
<1>3. [queue |-> "control"].queue # [queue |-> "lane"].queue OBVIOUS
<1> HIDE DEF W
<1>4. /\ UnderWay \subseteq UnderWay' /\ Ahead \subseteq Ahead'
      /\ resyncPending' => resyncPending /\ \E i \in DOMAIN lane' : lane'[i] = ResyncNotice
  <2>1. CASE sending = [queue |-> "control"]
    <3>1. /\ control # <<>> /\ control' = Tail(control) /\ UNCHANGED <<lane, resyncPending>>
          /\ FirstUnsent = 2 /\ LaneFirstUnsent = 1
      BY <1>3, <2>1 DEF Delivered, SyncInv, ServerOK, FirstUnsent, LaneFirstUnsent, LaneHeadActive
    <3>2. Coming(control, 2, wire) \subseteq Coming(control', 1, wire)
      BY <1>1, <3>1, ComingStays
    <3> QED BY <1>1, <1>2, <3>1, <3>2 DEF UnderWay, Ahead, CurrentOK
  <2>2. CASE sending = [queue |-> "lane"]
    <3>1. /\ lane # <<>> /\ lane' = Tail(lane) /\ UNCHANGED control
          /\ resyncPending' = (resyncPending /\ Head(lane) # ResyncNotice)
          /\ FirstUnsent = 1 /\ LaneFirstUnsent = 2
      BY <1>1, <1>3, <2>2, NothingAssumption
         DEF Delivered, SyncInv, ServerOK, FirstUnsent, LaneFirstUnsent, LaneHeadActive
    <3>2. Coming(lane, 2, wire) \subseteq Coming(lane', 1, wire)
      BY <1>1, <3>1, ComingStays
    <3>3. ASSUME resyncPending' PROVE \E i \in DOMAIN lane' : lane'[i] = ResyncNotice
      <4>1. PICK i \in DOMAIN lane : lane[i] = ResyncNotice BY <3>1, <3>3 DEF CurrentOK
      <4> QED BY <1>1, <3>1, <3>3, <4>1, HeadOrTail
    <3> QED BY <1>1, <1>2, <3>1, <3>2, <3>3 DEF UnderWay, Ahead
  <2> QED BY <1>1, <2>1, <2>2 DEF Queues
<1>5. EventComing(revision) => EventComing(revision)' BY <1>1, <1>4 DEF EventComing
<1> QED BY <1>1, <1>4, <1>5, ServerCurrent DEF CurrentOK

----------------------------------------------------------------------------
(* Steps of the store.                                                     *)

\* A store that will fetch once more needs no other promise.
LEMMA WillFetchCurrent ==
    ASSUME CurrentOK, UNCHANGED serverVars, WillFetch', awaited' \in 0..revision,
           loop' = "published" => held' # Nothing /\ held'.revision = fetch'.answer.to
    PROVE  CurrentOK'
BY DEF CurrentOK, DropsAnnounced, serverVars

\* The first frame of the wire is taken.
LEMMA FrameTaken ==
    ASSUME SyncInv, wire # <<>>, wire' = Tail(wire), UNCHANGED serverVars
    PROVE  /\ \A frame \in UnderWay : frame = Head(wire) \/ frame \in UnderWay'
           /\ \A frame \in Ahead : frame = Head(wire) \/ frame \in Ahead'
           /\ Head(wire) \in Ahead /\ Head(wire) \in ControlFrames \union LaneFrame
<1> DEFINE W == ControlFrames \union LaneFrame
<1>1. /\ control \in Seq(ControlFrames) /\ lane \in Seq(LaneFrame) /\ wire \in Seq(W)
      /\ FirstUnsent \in {1, 2} /\ LaneFirstUnsent \in {1, 2}
      /\ FirstUnsent' = FirstUnsent /\ LaneFirstUnsent' = LaneFirstUnsent
      /\ UNCHANGED <<control, lane>>
  BY DEF SyncInv, ServerOK, FirstUnsent, LaneFirstUnsent, LaneHeadActive, serverVars
<1> HIDE DEF W
<1>2. Coming(control, FirstUnsent, wire) \subseteq
         Coming(control, FirstUnsent, wire') \union {Head(wire)}
  BY <1>1, ComingStays
<1>3. Coming(lane, LaneFirstUnsent, wire) \subseteq
         Coming(lane, LaneFirstUnsent, wire') \union {Head(wire)}
  BY <1>1, ComingStays
<1>4. Head(wire) \in Coming(control, FirstUnsent, wire) /\ Head(wire) \in W
  BY <1>1, ReceivedHead
<1> QED BY <1>1, <1>2, <1>3, <1>4 DEF UnderWay, Ahead, W

\* A store without listeners fetches as soon as it has them.
LEMMA NotListening ==
    ASSUME SyncInv, subscription.phase \notin {"attached", "started"}
    PROVE  /\ loop = "idle"
           /\ \/ subscription.phase = "failed"
              \/ subscription.phase \in {"asked", "answered", "attached"} /\ loop = "idle"
<1>1. subscription \in Subscriptions BY DEF SyncInv, SubscribedOnce
<1>2. subscription.phase \in {"asked", "answered", "attached", "started", "failed"}
  BY <1>1 DEF Subscriptions
<1> QED BY <1>2 DEF SyncInv, SubscribedOnce

LEMMA FetchIsAsked ==
    ASSUME SyncInv, NEW forced, FetchNext(forced)
    PROVE  request' # Nothing /\ loop' \in {"snapshot", "delta"}
<1> DEFINE operation == IF held = Nothing \/ forced THEN "snapshot" ELSE "delta"
           from == IF operation = "delta" THEN held.revision ELSE 0
<1>1. HeldOK /\ FetchOK /\ revision \in Nat /\ revision <= MaxRevision /\ MaxRevision \in Nat
  BY Bounds DEF SyncInv
<1>2. /\ request' = [operation |-> operation, ticket |-> failures, from |-> from]
      /\ loop' = operation /\ operation \in {"snapshot", "delta"}
  BY DEF FetchNext, Fetch
<1>3. from \in 0..MaxRevision BY <1>1 DEF HeldOK
<1> HIDE DEF operation, from
<1>4. request' \in Requests BY <1>1, <1>2, <1>3 DEF Requests, FetchOK
<1> QED BY <1>2, <1>4, NothingAssumption

LEMMA ReceiveResultCurrent ==
    ASSUME SyncInv, CurrentOK, Receive, ReceiveResult
    PROVE  CurrentOK'
<1>1. /\ UNCHANGED <<serverVars, storeVars, failures>> /\ wire # <<>> /\ wire' = Tail(wire)
      /\ Head(wire) = Result
      /\ subscription' = [subscription EXCEPT !.phase = "answered"]
  BY DEF Receive, ReceiveResult
<1>2. Result \in Ahead BY <1>1, FrameTaken
<1>3. loop = "idle" /\ subscription \in Subscriptions
  BY <1>2 DEF SyncInv, SubscribedOnce
<1>4. subscription'.phase = "answered" /\ loop' = "idle"
  BY <1>1, <1>3 DEF Subscriptions, storeVars
<1>5. WillFetch' BY <1>4 DEF WillFetch
<1>6. awaited' \in 0..revision BY <1>1 DEF CurrentOK, storeVars
<1> QED BY <1>1, <1>4, <1>5, <1>6, WillFetchCurrent

LEMMA ReceiveAnswerCurrent ==
    ASSUME SyncInv, CurrentOK, Receive, ReceiveAnswer
    PROVE  CurrentOK'
<1> DEFINE answer == Head(wire)
<1>1. /\ UNCHANGED <<serverVars, failures, subscription, held, again, awaited, abandoned, request>>
      /\ wire # <<>> /\ wire' = Tail(wire) /\ answer.type = "answer"
  BY DEF Receive, ReceiveAnswer
<1>2. /\ \A frame \in UnderWay : frame = answer \/ frame \in UnderWay'
      /\ \A frame \in Ahead : frame = answer \/ frame \in Ahead'
      /\ answer \in Ahead /\ answer \in ControlFrames \union LaneFrame
  BY <1>1, FrameTaken
<1>3. /\ CurrentAnswers' = CurrentAnswers
      /\ UNCHANGED <<revision, base, activation, lane, resyncPending>>
  BY <1>1, SameFailures DEF serverVars
<1> HIDE DEF answer
<1>4. ResyncNotice # answer /\ \A r : \A record : Event(r, record) # answer
  BY <1>1, KindsApart
<1>5. ResyncNotice \in UnderWay => ResyncNotice \in UnderWay' BY <1>2, <1>4
<1>6. EventComing(revision) => EventComing(revision)'
  BY <1>2, <1>3, <1>4 DEF EventComing
<1>7. CASE answer.ticket = failures /\ loop' = "answered" /\ fetch' = [fetch EXCEPT !.answer = answer]
  <2>1. answer \in CurrentAnswers
    <3>1. answer \in AnswersTo(failures, revision)
      <4>1. answer \notin LaneFrame /\ answer # Result /\ answer # ResyncNotice
        BY <1>1, KindsApart DEF LaneFrame, EventsTo
      <4> QED BY <1>2, <4>1 DEF ControlFrames
    <3>2. AnswersTo(failures, revision) \subseteq AnswersTo(failures, MaxRevision)
      <4>1. 0..revision \subseteq 0..MaxRevision BY Bounds DEF SyncInv
      <4> QED BY <4>1 DEF AnswersTo
    <3> QED BY <1>7, <3>1, <3>2 DEF CurrentAnswers
  <2>2. loop \in {"snapshot", "delta"} BY <1>2, <2>1 DEF SyncInv, FetchOK
  <2>3. fetch'.answer = answer BY <1>7 DEF SyncInv, FetchOK
  <2>5. WillFetch => WillFetch' BY <1>1, <1>5, <1>7, <2>2 DEF WillFetch
  <2>6. Reached(revision) => Reached(revision)'
    BY <1>1, <1>2, <1>3, <1>7, <2>2, <2>3 DEF Reached
  <2> QED BY <1>1, <1>3, <1>6, <1>7, <2>5, <2>6 DEF CurrentOK, DropsAnnounced
<1>8. CASE answer.ticket # failures /\ UNCHANGED <<loop, fetch>>
  <2>1. answer \notin CurrentAnswers BY <1>8 DEF CurrentAnswers
  <2>2. WillFetch => WillFetch' BY <1>1, <1>5, <1>8 DEF WillFetch
  <2>3. Reached(revision) => Reached(revision)'
    BY <1>1, <1>2, <1>3, <1>8, <2>1 DEF Reached
  <2> QED BY <1>1, <1>3, <1>6, <1>8, <2>2, <2>3 DEF CurrentOK, DropsAnnounced
<1> QED BY <1>7, <1>8 DEF ReceiveAnswer, answer

\* An event heard advances the projection, is known already, or has the store fetch
\* until it is; in a refresh's last turn it is left awaited.
LEMMA ReceiveEventCurrent ==
    ASSUME SyncInv, CurrentOK, Receive, ReceiveEvent
    PROVE  CurrentOK'
<1> DEFINE event == Head(wire)
<1>1. /\ UNCHANGED <<serverVars, failures>>
      /\ wire # <<>> /\ wire' = Tail(wire) /\ event.type = "event"
  BY DEF Receive, ReceiveEvent
<1>2. /\ \A frame \in UnderWay : frame = event \/ frame \in UnderWay'
      /\ \A frame \in Ahead : frame = event \/ frame \in Ahead'
      /\ event \in ControlFrames \union LaneFrame
  BY <1>1, FrameTaken
<1>3. /\ CurrentAnswers' = CurrentAnswers
      /\ UNCHANGED <<revision, base, activation, lane, resyncPending>>
  BY <1>1, SameFailures DEF serverVars
<1>4. CASE subscription.phase \notin {"attached", "started"}
  <2>1. /\ loop = "idle" /\ loop' = "idle"
        /\ \/ subscription.phase = "failed"
           \/ subscription.phase \in {"asked", "answered", "attached"} /\ loop = "idle"
    BY <1>4, NotListening DEF ReceiveEvent, storeVars
  <2>2. subscription'.phase = subscription.phase
    <3>1. subscription \in Subscriptions BY DEF SyncInv, SubscribedOnce
    <3>2. /\ [subscription EXCEPT !.buffered = Append(@, event)].phase = subscription.phase
          /\ [subscription EXCEPT !.buffered = <<>>, !.overflow = TRUE].phase = subscription.phase
      BY <3>1 DEF Subscriptions
    <3> QED BY <1>4, <3>2 DEF ReceiveEvent
  <2>3. WillFetch' BY <2>1, <2>2 DEF WillFetch
  <2>4. awaited' \in 0..revision BY <1>4 DEF ReceiveEvent, CurrentOK, storeVars
  <2> QED BY <1>1, <2>1, <2>3, <2>4, WillFetchCurrent
<1>5. CASE subscription.phase \in {"attached", "started"} /\ Heard(event) /\ UNCHANGED subscription
  <2>1. event \in EventsTo(revision)
    <3>1. event \notin AnswersTo(failures, revision) /\ event # Result /\ event # ResyncNotice
      BY <1>1, KindsApart DEF AnswersTo
    <3> QED BY <1>2, <3>1 DEF ControlFrames, LaneFrame
  <2>2. /\ event.revision \in 0..revision /\ revision \in Nat
        /\ event = Event(event.revision, TRUE) \/ event = Event(event.revision, FALSE)
    BY <2>1, KindsApart, Bounds DEF EventsTo, SyncInv
  <2> HIDE DEF event
  <2>3. ResyncNotice # event /\ event \notin CurrentAnswers
    BY <1>1, KindsApart
  <2>4. ResyncNotice \in UnderWay => ResyncNotice \in UnderWay' BY <1>2, <2>3
  <2>5. EventComing(revision) => EventComing(revision)' \/ event.revision = revision
    <3>1. \A record : event = Event(revision, record) => event.revision = revision
      BY KindsApart
    <3> QED BY <1>2, <1>3, <3>1 DEF EventComing
  <2>6. held # Nothing => held.revision \in 0..revision BY DEF SyncInv, HeldOK
  <2>7. CASE /\ held # Nothing /\ event.revision <= held.revision
             /\ UNCHANGED <<held, status, loop, fetch, request, again, awaited, force, late>>
             /\ UNCHANGED abandoned
    <3>1. WillFetch => WillFetch' BY <1>5, <2>4, <2>7 DEF WillFetch
    <3>2. Reached(revision) => Reached(revision)'
      BY <1>2, <1>3, <2>3, <2>7 DEF Reached
    <3>3. event.revision = revision => Reached(revision)'
      BY <1>3, <2>2, <2>6, <2>7 DEF Reached
    <3> QED BY <1>3, <2>5, <2>7, <3>1, <3>2, <3>3 DEF CurrentOK, DropsAnnounced
  <2>8. CASE /\ Advances(event) /\ held' = ApplyRecord(held, event.revision)
             /\ UNCHANGED <<loop, fetch, request, again, awaited, force, late>>
             /\ UNCHANGED abandoned
    <3>1. /\ loop = "idle" /\ held # Nothing /\ held.revision = event.revision - 1
          /\ held'.revision = event.revision
      BY <2>8 DEF Advances, ApplyRecord
    <3>2. held' # Nothing
      <4>1. SyncInv' /\ (held # Nothing => held' # Nothing)
        BY ReceiveEventInv
      <4> QED BY <3>1, <4>1
    <3>3. WillFetch => WillFetch' BY <1>5, <2>4, <2>8 DEF WillFetch
    <3>4. held.revision # revision BY <2>2, <2>6, <3>1
    <3>5. Reached(revision) => Reached(revision)'
      BY <1>2, <1>3, <2>3, <2>8, <3>1, <3>4 DEF Reached
    <3>6. event.revision = revision => Reached(revision)'
      BY <1>3, <3>1, <3>2 DEF Reached
    <3> QED BY <1>3, <2>5, <2>8, <3>1, <3>3, <3>5, <3>6 DEF CurrentOK, DropsAnnounced
  <2>9. CASE RefreshTo(event.revision) /\ UNCHANGED <<held, abandoned>>
    <3>1. CASE /\ loop # "idle" /\ awaited' = Newest(awaited, event.revision)
               /\ UNCHANGED <<loop, fetch, request, again, force>>
      <4>2. awaited' >= event.revision /\ (awaited >= revision => awaited' >= revision)
        BY <2>2, <3>1 DEF Newest, CurrentOK
      <4>6. awaited' \in 0..revision BY <2>2, <3>1 DEF Newest, CurrentOK
      <4>3. WillFetch => WillFetch' BY <1>5, <2>4, <2>9, <3>1 DEF WillFetch
      <4>4. Reached(revision) => Reached(revision)'
        BY <1>2, <1>3, <2>3, <2>9, <3>1, <4>2 DEF Reached
      <4>5. event.revision = revision => Reached(revision)'
        BY <1>3, <4>2 DEF Reached
      <4> QED BY <1>3, <2>5, <2>9, <3>1, <4>3, <4>4, <4>5, <4>6 DEF CurrentOK, DropsAnnounced
    <3>2. CASE loop = "idle" /\ FetchNext(force)
      <4>1. request' # Nothing /\ loop' \in {"snapshot", "delta"} BY <3>2, FetchIsAsked
      <4>2. awaited' \in 0..revision BY <2>9, <3>2 DEF RefreshTo, Join, CurrentOK
      <4> QED BY <1>1, <4>1, <4>2, WillFetchCurrent DEF WillFetch
    <3> QED BY <2>9, <3>1, <3>2 DEF RefreshTo, Join
  <2> QED BY <1>5, <2>7, <2>8, <2>9 DEF Heard
<1> QED BY <1>4, <1>5 DEF ReceiveEvent

LEMMA ReceiveResyncCurrent ==
    ASSUME SyncInv, CurrentOK, Receive, ReceiveResync
    PROVE  CurrentOK'
<1>1. /\ UNCHANGED serverVars
      /\ subscription' = [subscription EXCEPT !.buffered = <<>>, !.resync = TRUE]
  BY DEF Receive, ReceiveResync
<1>2. CASE subscription.phase \notin {"attached", "started"} /\ UNCHANGED storeVars
  <2>1. /\ loop = "idle" /\ loop' = "idle"
        /\ \/ subscription.phase = "failed"
           \/ subscription.phase \in {"asked", "answered", "attached"} /\ loop = "idle"
    BY <1>2, NotListening DEF storeVars
  <2>2. subscription'.phase = subscription.phase
    <3>1. subscription \in Subscriptions BY DEF SyncInv, SubscribedOnce
    <3> QED BY <1>1, <3>1 DEF Subscriptions
  <2>3. WillFetch' BY <2>1, <2>2 DEF WillFetch
  <2>4. awaited' \in 0..revision BY <1>2 DEF CurrentOK, storeVars
  <2> QED BY <1>1, <2>1, <2>3, <2>4, WillFetchCurrent
<1>3. CASE subscription.phase \in {"attached", "started"} /\ HeardResync
  <2>1. Refresh(TRUE) /\ UNCHANGED <<held, awaited>> BY <1>3 DEF HeardResync
  <2>2. awaited' \in 0..revision BY <2>1 DEF CurrentOK
  <2>3. CASE loop # "idle" /\ again' = TRUE /\ UNCHANGED <<loop, fetch, request>>
    <3>1. WillFetch' BY <2>3 DEF WillFetch
    <3> QED BY <1>1, <2>1, <2>2, <2>3, <3>1, WillFetchCurrent DEF CurrentOK
  <2>4. CASE loop = "idle" /\ FetchNext(TRUE)
    <3>1. request' # Nothing /\ loop' \in {"snapshot", "delta"} BY <2>4, FetchIsAsked
    <3> QED BY <1>1, <2>2, <3>1, WillFetchCurrent DEF WillFetch
  <2> QED BY <2>1, <2>3, <2>4 DEF Refresh, Join
<1> QED BY <1>2, <1>3 DEF ReceiveResync

\* The newest of the events buffered.
LEMMA NewestExists ==
    ASSUME NEW bound \in Nat, NEW S \in SUBSET (0..bound), S # {}
    PROVE  Max(S) \in S
<1> DEFINE Above == {i..bound : i \in S}
<1>1. Above \subseteq FiniteSubsetsOf(Nat)
  <2>1. \A i \in S : i..bound \in SUBSET Nat OBVIOUS
  <2>2. \A i \in S : IsFiniteSet(i..bound) BY FS_Interval
  <2> QED BY <2>1, <2>2 DEF FiniteSubsetsOf
<1>2. PICK x \in Above : \A y \in Above : <<y, x>> \notin StrictSubsetOrdering(Nat)
  <2>1. Above # {} OBVIOUS
  <2>2. IsWellFoundedOn(StrictSubsetOrdering(Nat), FiniteSubsetsOf(Nat))
    BY FS_StrictSubsetOrderingWellFounded
  <2> HIDE DEF Above
  <2> QED BY <1>1, <2>1, <2>2, WFMin
<1>3. PICK i \in S : x = i..bound OBVIOUS
<1>4. ASSUME NEW j \in S, i < j PROVE FALSE
  <2>1. j..bound \in Above OBVIOUS
  <2>2. j..bound \subseteq i..bound /\ j..bound # i..bound BY <1>4
  <2>3. <<j..bound, i..bound>> \in StrictSubsetOrdering(Nat) BY <2>2 DEF StrictSubsetOrdering
  <2> QED BY <1>2, <1>3, <2>1, <2>3
<1>5. \E t \in S : \A other \in S : t >= other BY <1>4
<1> QED BY <1>5 DEF Max

LEMMA AttachCurrent ==
    ASSUME SyncInv, CurrentOK, Attach
    PROVE  CurrentOK'
<1> DEFINE queued == {subscription.buffered[i].revision : i \in DOMAIN subscription.buffered}
<1>1. /\ UNCHANGED serverVars /\ subscription.phase = "answered"
      /\ subscription' = [subscription EXCEPT !.phase = "attached", !.buffered = <<>>]
      /\ \/ Refresh(TRUE) /\ UNCHANGED awaited
         \/ /\ queued # {} /\ FetchNext(FALSE)
            /\ awaited' = IF Cardinality(queued) > 1 THEN Max(queued) ELSE awaited
         \/ UNCHANGED storeVars
  BY DEF Attach, HeardResync
<1>2. loop = "idle" /\ subscription \in Subscriptions BY <1>1 DEF SyncInv, SubscribedOnce
<1>3. subscription'.phase = "attached" BY <1>1, <1>2 DEF Subscriptions
<1>4. awaited \in 0..revision /\ revision \in Nat BY Bounds DEF CurrentOK, SyncInv
<1>5. queued \in SUBSET (0..revision)
  <2>1. subscription.buffered \in Seq(EventsTo(revision)) BY <1>2 DEF Subscriptions
  <2>2. \A i \in DOMAIN subscription.buffered : subscription.buffered[i] \in EventsTo(revision)
    BY <2>1
  <2> QED BY <2>2 DEF EventsTo
<1> HIDE DEF queued
<1>6. CASE Refresh(TRUE) /\ UNCHANGED awaited
  BY <1>1, <1>2, <1>4, <1>6, FetchIsAsked, WillFetchCurrent DEF Refresh, Join, WillFetch
<1>7. CASE /\ queued # {} /\ FetchNext(FALSE)
           /\ awaited' = IF Cardinality(queued) > 1 THEN Max(queued) ELSE awaited
  <2>1. awaited' \in 0..revision BY <1>4, <1>5, <1>7, NewestExists
  <2> QED BY <1>1, <1>7, <2>1, FetchIsAsked, WillFetchCurrent DEF WillFetch
<1>8. CASE UNCHANGED storeVars
  <2>1. loop' = "idle" /\ awaited' \in 0..revision BY <1>2, <1>4, <1>8 DEF storeVars
  <2> QED BY <1>1, <1>3, <2>1, WillFetchCurrent DEF WillFetch
<1> QED BY <1>1, <1>6, <1>7, <1>8

LEMMA AttachOverflowedCurrent ==
    ASSUME SyncInv, CurrentOK, AttachOverflowed
    PROVE  CurrentOK'
<1>1. /\ UNCHANGED <<serverVars, loop, held, fetch, awaited>> /\ subscription.phase = "answered"
      /\ subscription' = [subscription EXCEPT !.phase = "failed"]
  BY DEF AttachOverflowed, storeVars
<1>2. subscription \in Subscriptions /\ loop = "idle" BY <1>1 DEF SyncInv, SubscribedOnce
<1>3. subscription'.phase = "failed" BY <1>1, <1>2 DEF Subscriptions
<1>4. awaited' \in 0..revision BY <1>1 DEF CurrentOK
<1> QED BY <1>1, <1>2, <1>3, <1>4, WillFetchCurrent DEF WillFetch

\* The queues are as they were.
LEMMA QueuesAsWere ==
    ASSUME UNCHANGED <<serverVars, wire>>
    PROVE  /\ UnderWay' = UnderWay /\ Ahead' = Ahead
           /\ UNCHANGED <<base, revision, activation, lane, resyncPending>>
           /\ EventComing(revision)' <=> EventComing(revision)
<1>1. UNCHANGED <<base, revision, activation, lane, resyncPending, control, sending, wire>>
  BY DEF serverVars
<1>2. UnderWay' = UnderWay /\ Ahead' = Ahead
  BY <1>1 DEF UnderWay, Ahead, FirstUnsent, LaneFirstUnsent, LaneHeadActive
<1> QED BY <1>1, <1>2 DEF EventComing

\* A caller's refresh.
LEMMA RefreshCurrent ==
    ASSUME SyncInv, CurrentOK, UNCHANGED <<serverVars, wire, failures, held, awaited, abandoned>>,
           NEW forced, Refresh(forced),
           loop # "idle" => /\ subscription'.phase = "failed" <=> subscription.phase = "failed"
    PROVE  CurrentOK'
<1>1. CASE loop # "idle" /\ again' = TRUE /\ UNCHANGED <<loop, fetch, request>>
  <2>1. /\ UnderWay' = UnderWay /\ Ahead' = Ahead
        /\ UNCHANGED <<base, revision, activation, lane, resyncPending>>
        /\ EventComing(revision)' <=> EventComing(revision)
    BY QueuesAsWere
  <2>2. WillFetch => WillFetch' BY <1>1, <2>1 DEF WillFetch
  <2>3. CurrentAnswers' = CurrentAnswers BY SameFailures
  <2>4. Reached(revision) => Reached(revision)' BY <1>1, <2>1, <2>3 DEF Reached
  <2> QED BY <1>1, <2>1, <2>2, <2>4 DEF CurrentOK, DropsAnnounced
<1>2. CASE loop = "idle" /\ FetchNext(forced)
  <2>1. request' # Nothing /\ loop' \in {"snapshot", "delta"} BY <1>2, FetchIsAsked
  <2>2. awaited' \in 0..revision BY DEF CurrentOK
  <2> QED BY <2>1, <2>2, WillFetchCurrent DEF WillFetch
<1> QED BY <1>1, <1>2 DEF Refresh, Join

LEMMA LoadInitialCurrent ==
    ASSUME SyncInv, CurrentOK, LoadInitial
    PROVE  CurrentOK'
<1>1. subscription \in Subscriptions BY DEF SyncInv, SubscribedOnce
<1>2. subscription'.phase = "started" /\ subscription.phase = "attached"
  BY <1>1 DEF LoadInitial, Subscriptions
<1> QED BY <1>2, RefreshCurrent DEF LoadInitial

LEMMA AskRefreshCurrent ==
    ASSUME SyncInv, CurrentOK, AskRefresh
    PROVE  CurrentOK'
BY RefreshCurrent DEF AskRefresh

LEMMA PublishCurrent ==
    ASSUME SyncInv, CurrentOK, Publish
    PROVE  CurrentOK'
<1>1. /\ UNCHANGED <<serverVars, wire, failures, request, subscription, fetch, again, awaited>>
      /\ loop = "answered" /\ loop' = "published"
      /\ held' = [revision |-> fetch.answer.to, changes |-> AnswerChanges]
  BY DEF Publish
<1>2. /\ UnderWay' = UnderWay /\ Ahead' = Ahead
      /\ UNCHANGED <<base, revision, activation, lane, resyncPending>>
      /\ EventComing(revision)' <=> EventComing(revision)
  BY <1>1, QueuesAsWere
<1>3. held'.revision = fetch.answer.to BY <1>1
<1>4. held' # Nothing BY PublishInv
<1>5. WillFetch => WillFetch' BY <1>1, <1>2 DEF WillFetch
<1>6. CurrentAnswers' = CurrentAnswers BY <1>1, SameFailures
<1>7. held # Nothing /\ held.revision = revision => fetch.answer.to = revision
  <2>1. Continues(fetch.answer) /\ revision \in Nat BY <1>1, Bounds DEF SyncInv, FetchOK
  <2> QED BY <2>1 DEF Continues
<1>8. Reached(revision) => Reached(revision)'
  BY <1>1, <1>2, <1>3, <1>4, <1>6, <1>7 DEF Reached
<1> QED BY <1>1, <1>2, <1>3, <1>4, <1>5, <1>8 DEF CurrentOK, DropsAnnounced

LEMMA LoopAgainCurrent ==
    ASSUME SyncInv, CurrentOK, LoopAgain
    PROVE  CurrentOK'
<1>1. /\ UNCHANGED <<serverVars, awaited>> /\ FetchNext(force) BY DEF LoopAgain
<1>2. request' # Nothing /\ loop' \in {"snapshot", "delta"} BY <1>1, FetchIsAsked
<1>3. awaited' \in 0..revision BY <1>1 DEF CurrentOK
<1> QED BY <1>1, <1>2, <1>3, WillFetchCurrent DEF WillFetch

\* The loop ends when what is held is what was awaited, and forgets neither.
LEMMA LoopFinishesCurrent ==
    ASSUME SyncInv, CurrentOK, LoopEnds \/ RefreshEnds
    PROVE  CurrentOK'
<1>1. /\ UNCHANGED <<serverVars, wire, failures, held, subscription, fetch, request, again,
                     awaited, abandoned>>
      /\ \/ loop = "published" /\ loop' = "settled" /\ ~Unsettled
         \/ loop = "settled" /\ loop' = "idle"
  BY DEF LoopEnds, RefreshEnds
<1>2. /\ UnderWay' = UnderWay /\ Ahead' = Ahead
      /\ UNCHANGED <<base, revision, activation, lane, resyncPending>>
      /\ EventComing(revision)' <=> EventComing(revision)
  BY <1>1, QueuesAsWere
<1>3. CurrentAnswers' = CurrentAnswers BY <1>1, SameFailures
<1>4. WillFetch => WillFetch' BY <1>1, <1>2 DEF WillFetch
<1>5. Reached(revision) => Reached(revision)'
  BY <1>1, <1>2, <1>3 DEF Reached
<1> QED BY <1>1, <1>2, <1>4, <1>5 DEF CurrentOK, DropsAnnounced

LEMMA FetchFailsCurrent ==
    ASSUME SyncInv, CurrentOK, FetchFails
    PROVE  CurrentOK'
<1>1. /\ UNCHANGED <<serverVars, awaited>> BY DEF FetchFails
<1>2. awaited' \in 0..revision BY <1>1 DEF CurrentOK
<1>3. CASE loop = "delta" /\ Fetch("snapshot", fetch.previous, failures + 1)
  <2>1. /\ loop' = "snapshot"
        /\ request' = [operation |-> "snapshot", ticket |-> failures + 1, from |-> 0]
    BY <1>3 DEF Fetch
  <2>2. /\ failures \in Nat /\ MaxFailures \in Nat /\ MaxRevision \in Nat
        /\ failures < MaxFailures
    BY SyncAssumption DEF SyncInv, FetchOK, FetchFails
  <2>3. request' # Nothing
    <3>1. request' \in Requests BY <2>1, <2>2 DEF Requests
    <3> QED BY <3>1, NothingAssumption
  <2> QED BY <1>1, <1>2, <2>1, <2>3, WillFetchCurrent DEF WillFetch
<1>4. CASE loop = "snapshot" /\ abandoned' = TRUE /\ loop' = "settled"
  BY <1>1, <1>2, <1>4, WillFetchCurrent DEF WillFetch
<1> QED BY <1>3, <1>4 DEF FetchFails

----------------------------------------------------------------------------
LEMMA InitCurrent ==
    ASSUME Init
    PROVE  CurrentOK
<1>1. /\ subscription.phase = "asked" /\ loop = "idle" /\ resyncPending = FALSE /\ awaited = 0
  BY DEF Init
<1>2. awaited \in 0..revision
  <2>1. revision \in Nat BY SyncAssumption DEF Init
  <2> QED BY <1>1, <2>1
<1> QED BY <1>1, <1>2 DEF CurrentOK, DropsAnnounced, WillFetch

LEMMA StutterCurrent ==
    ASSUME CurrentOK, UNCHANGED vars
    PROVE  CurrentOK'
<1>1. /\ UNCHANGED <<serverVars, wire, held, loop, fetch, request, again, awaited, abandoned>>
      /\ UNCHANGED <<subscription, failures>>
  BY DEF vars, storeVars
<1>2. /\ UnderWay' = UnderWay /\ Ahead' = Ahead
      /\ UNCHANGED <<base, revision, activation, lane, resyncPending>>
      /\ EventComing(revision)' <=> EventComing(revision)
  BY <1>1, QueuesAsWere
<1>3. CurrentAnswers' = CurrentAnswers BY <1>1, SameFailures
<1>4. WillFetch' <=> WillFetch BY <1>1, <1>2 DEF WillFetch
<1>5. Reached(revision)' <=> Reached(revision) BY <1>1, <1>2, <1>3 DEF Reached
<1> QED BY <1>1, <1>2, <1>4, <1>5 DEF CurrentOK, DropsAnnounced

LEMMA NextCurrent ==
    ASSUME SyncInv, CurrentOK, [Next]_vars
    PROVE  CurrentOK'
<1>1. CASE Commit \/ AcceptSubscription \/ Activate \/ ResyncSent \/ ReplayNext
  BY <1>1, CommitCurrent, AcceptSubscriptionCurrent, ActivateCurrent, ResyncSentCurrent,
     ReplayNextCurrent
<1>2. CASE ReplayEnds \/ DrainNext
  BY <1>2, SendHeldBackCurrent DEF ReplayEnds, DrainNext
<1>3. CASE Answer \/ Deliver \/ Delivered
  BY <1>3, AnswerCurrent, DeliverCurrent, DeliveredCurrent
<1>4. CASE Receive
  BY <1>4, ReceiveResultCurrent, ReceiveAnswerCurrent, ReceiveEventCurrent,
     ReceiveResyncCurrent DEF Receive
<1>5. CASE Attach \/ AttachOverflowed \/ LoadInitial \/ AskRefresh
  BY <1>5, AttachCurrent, AttachOverflowedCurrent, LoadInitialCurrent, AskRefreshCurrent
<1>6. CASE Publish \/ LoopAgain \/ LoopEnds \/ RefreshEnds \/ FetchFails
  BY <1>6, PublishCurrent, LoopAgainCurrent, LoopFinishesCurrent, FetchFailsCurrent
<1>7. CASE UNCHANGED vars BY <1>7, StutterCurrent
<1> QED BY <1>1, <1>2, <1>3, <1>4, <1>5, <1>6, <1>7 DEF Next

----------------------------------------------------------------------------
(* What the store shows.                                                   *)

\* A store whose refresh has come to its end holds a projection, and shows it as
\* current or is asked for another.
StatusOK ==
    \/ abandoned
    \/ loop \in {"snapshot", "delta", "answered"}
    \/ loop = "idle" /\ held = Nothing /\ subscription.phase # "started"
    \/ held # Nothing /\ (status = "current" \/ again)

\* A refresh asked for in the last turn of another leaves its flag.
LEMMA RefreshStatus ==
    ASSUME SyncInv, StatusOK, NEW forced, Refresh(forced), UNCHANGED <<held, abandoned>>
    PROVE  StatusOK'
<1>1. CASE loop # "idle" /\ again' = TRUE /\ UNCHANGED <<loop, fetch, request>>
  BY <1>1 DEF StatusOK
<1>2. CASE loop = "idle" /\ FetchNext(forced)
  <2>1. loop' \in {"snapshot", "delta"} BY <1>2, FetchIsAsked
  <2> QED BY <2>1 DEF StatusOK
<1> QED BY <1>1, <1>2 DEF Refresh, Join

LEMMA ReceiveStatus ==
    ASSUME SyncInv, StatusOK, Receive
    PROVE  StatusOK'
<1> USE DEF Receive
<1>1. subscription \in Subscriptions BY DEF SyncInv, SubscribedOnce
<1>2. CASE ReceiveResult
  <2>1. UNCHANGED <<held, loop, again, status, abandoned>> /\ subscription'.phase = "answered"
    BY <1>1, <1>2 DEF ReceiveResult, storeVars, Subscriptions
  <2> QED BY <2>1 DEF StatusOK
<1>3. CASE ReceiveAnswer
  <2>1. /\ UNCHANGED <<held, again, status, abandoned, subscription>>
        /\ loop' \in {"answered", loop}
    BY <1>3 DEF ReceiveAnswer
  <2> QED BY <2>1 DEF StatusOK
<1>4. CASE ReceiveEvent
  <2>1. CASE UNCHANGED storeVars /\ subscription.phase \notin {"attached", "started"}
    <3>1. subscription'.phase = subscription.phase
      <4>1. \A b : /\ [subscription EXCEPT !.buffered = b].phase = subscription.phase
                   /\ [subscription EXCEPT !.buffered = b, !.overflow = TRUE].phase
                         = subscription.phase
        BY <1>1 DEF Subscriptions
      <4> QED BY <1>4, <2>1, <4>1 DEF ReceiveEvent
    <3> QED BY <2>1, <3>1 DEF StatusOK, storeVars
  <2>2. CASE Heard(Head(wire)) /\ UNCHANGED subscription
    <3>1. CASE UNCHANGED <<held, status, loop, again>>
      BY <2>2, <3>1 DEF Heard, StatusOK
    <3>2. CASE held # Nothing /\ status' = "current"
      <4>1. held' # Nothing BY <1>4, <3>2, ReceiveEventInv
      <4> QED BY <3>2, <4>1 DEF StatusOK
    <3>3. CASE RefreshTo(Head(wire).revision) /\ UNCHANGED <<held, status, abandoned>>
      <4>1. CASE loop # "idle" /\ UNCHANGED <<loop, again>>
        BY <2>2, <3>3, <4>1 DEF StatusOK
      <4>2. CASE loop = "idle" /\ FetchNext(force)
        <5>1. loop' \in {"snapshot", "delta"} BY <4>2, FetchIsAsked
        <5> QED BY <5>1 DEF StatusOK
      <4> QED BY <3>3, <4>1, <4>2 DEF RefreshTo, Join
    <3> QED BY <2>2, <3>1, <3>2, <3>3 DEF Heard, Advances
  <2> QED BY <1>4, <2>1, <2>2 DEF ReceiveEvent
<1>5. CASE ReceiveResync
  <2>1. CASE HeardResync
    BY <2>1, RefreshStatus DEF HeardResync
  <2>2. CASE UNCHANGED storeVars
    <3>1. subscription'.phase = subscription.phase
      BY <1>1, <1>5 DEF ReceiveResync, Subscriptions
    <3> QED BY <2>2, <3>1 DEF StatusOK, storeVars
  <2> QED BY <1>5, <2>1, <2>2 DEF ReceiveResync
<1> QED BY <1>2, <1>3, <1>4, <1>5

\* The listeners are attached to a store at rest and without a projection.
LEMMA AttachStatus ==
    ASSUME SyncInv, StatusOK, Attach
    PROVE  StatusOK'
<1>1. subscription \in Subscriptions /\ loop = "idle" /\ held = Nothing
  BY DEF Attach, SyncInv, SubscribedOnce
<1>2. subscription'.phase = "attached" BY <1>1 DEF Attach, Subscriptions
<1>3. CASE HeardResync
  BY <1>3, RefreshStatus DEF HeardResync
<1>4. CASE FetchNext(FALSE)
  <2>1. loop' \in {"snapshot", "delta"} BY <1>4, FetchIsAsked
  <2> QED BY <2>1 DEF StatusOK
<1>5. CASE UNCHANGED storeVars
  BY <1>1, <1>2, <1>5 DEF StatusOK, storeVars
<1> QED BY <1>3, <1>4, <1>5 DEF Attach

LEMMA NextStatus ==
    ASSUME SyncInv, StatusOK, [Next]_vars
    PROVE  StatusOK'
<1>1. subscription \in Subscriptions BY DEF SyncInv, SubscribedOnce
<1>2. CASE \/ Commit \/ AcceptSubscription \/ Activate \/ ResyncSent \/ ReplayNext
           \/ ReplayEnds \/ DrainNext \/ Answer \/ Deliver \/ Delivered \/ UNCHANGED vars
  <2>1. UNCHANGED <<held, loop, again, status, abandoned, subscription>>
    BY <1>2 DEF Commit, AcceptSubscription, Activate, ResyncSent, ReplayNext, ReplayEnds,
       DrainNext, Answer, Deliver, Delivered, vars, storeVars
  <2> QED BY <2>1 DEF StatusOK
<1>3. CASE AttachOverflowed
  <2>1. UNCHANGED <<held, loop, again, status, abandoned>> /\ subscription'.phase = "failed"
    BY <1>1, <1>3 DEF AttachOverflowed, storeVars, Subscriptions
  <2> QED BY <2>1 DEF StatusOK
<1>4. CASE LoadInitial \/ AskRefresh
  BY <1>4, RefreshStatus DEF LoadInitial, AskRefresh
<1>5. CASE Publish
  <2>1. held' # Nothing BY <1>5, PublishInv
  <2> QED BY <1>5, <2>1 DEF Publish, StatusOK
<1>6. CASE LoopAgain
  <2>1. loop' \in {"snapshot", "delta"} BY <1>6, FetchIsAsked DEF LoopAgain
  <2> QED BY <2>1 DEF StatusOK
<1>7. CASE LoopEnds \/ RefreshEnds
  BY <1>7 DEF LoopEnds, RefreshEnds, StatusOK
<1>8. CASE FetchFails
  BY <1>8 DEF FetchFails, Fetch, StatusOK
<1> QED BY <1>2, <1>3, <1>4, <1>5, <1>6, <1>7, <1>8, ReceiveStatus, AttachStatus DEF Next

----------------------------------------------------------------------------
(* What a refresh is asked for in its last turn.                           *)

\* Only what came in its last turn, or its failure, makes a refresh leave more to do.
DebtOK ==
    \/ loop \notin {"settled", "idle"}
    \/ abandoned
    \/ late
    \/ ~again /\ (held # Nothing => awaited <= held.revision)

LEMMA RefreshDebt ==
    ASSUME SyncInv, DebtOK, NEW forced, Refresh(forced), UNCHANGED abandoned
    PROVE  DebtOK'
<1>1. CASE loop # "idle" /\ late' = (late \/ loop = "settled") /\ UNCHANGED loop
  BY <1>1 DEF DebtOK
<1>2. CASE loop = "idle" /\ FetchNext(forced)
  <2>1. loop' \in {"snapshot", "delta"} BY <1>2, FetchIsAsked
  <2> QED BY <2>1 DEF DebtOK
<1> QED BY <1>1, <1>2 DEF Refresh, Join

\* A record advances the projection, another event comes in the last turn or is
\* fetched.
LEMMA HeardDebt ==
    ASSUME SyncInv, CurrentOK, DebtOK, NEW event \in EventsTo(revision), Heard(event)
    PROVE  DebtOK'
<1>1. CASE UNCHANGED <<held, loop, again, awaited, late>>
  BY <1>1 DEF Heard, DebtOK
<1>2. CASE Advances(event) /\ held' = ApplyRecord(held, event.revision)
           /\ UNCHANGED <<loop, again, awaited, late>>
  <2>1. held # Nothing /\ held.revision = event.revision - 1 /\ held'.revision = event.revision
    BY <1>2 DEF Advances, ApplyRecord
  <2>2. awaited \in Int /\ event.revision \in Int
    <3>1. revision \in Nat BY Bounds DEF SyncInv
    <3> QED BY <3>1 DEF CurrentOK, EventsTo
  <2>3. awaited <= held.revision => awaited <= held'.revision BY <2>1, <2>2
  <2> QED BY <1>2, <2>1, <2>3 DEF Heard, DebtOK
<1>3. CASE RefreshTo(event.revision) /\ UNCHANGED held
  <2>1. CASE loop # "idle" /\ late' = (late \/ loop = "settled") /\ UNCHANGED loop
    BY <2>1 DEF DebtOK
  <2>2. CASE loop = "idle" /\ FetchNext(force)
    <3>1. loop' \in {"snapshot", "delta"} BY <2>2, FetchIsAsked
    <3> QED BY <3>1 DEF DebtOK
  <2> QED BY <1>3, <2>1, <2>2 DEF RefreshTo, Join
<1> QED BY <1>1, <1>2, <1>3 DEF Heard

LEMMA ReceiveDebt ==
    ASSUME SyncInv, CurrentOK, DebtOK, Receive
    PROVE  DebtOK'
<1>1. CASE UNCHANGED storeVars BY <1>1 DEF DebtOK, storeVars
<1>2. CASE ReceiveAnswer
  <2>1. UNCHANGED <<held, again, awaited, late, abandoned>> /\ loop' \in {"answered", loop}
    BY <1>2 DEF ReceiveAnswer
  <2> QED BY <2>1 DEF DebtOK
<1>3. CASE ReceiveEvent /\ Heard(Head(wire))
  <2>1. Head(wire) \in EventsTo(revision)
    <3>1. Head(wire) \in ControlFrames \union LaneFrame /\ Head(wire).type = "event"
      BY <1>3, FrameTaken DEF Receive, ReceiveEvent
    <3>2. /\ Head(wire) \notin AnswersTo(failures, revision)
          /\ Head(wire) # Result /\ Head(wire) # ResyncNotice
      BY <3>1, KindsApart DEF AnswersTo
    <3> QED BY <3>1, <3>2 DEF ControlFrames, LaneFrame
  <2> QED BY <1>3, <2>1, HeardDebt
<1>4. CASE HeardResync BY <1>4, RefreshDebt DEF HeardResync
<1> QED
  BY <1>1, <1>2, <1>3, <1>4 DEF Receive, ReceiveResult, ReceiveEvent, ReceiveResync

LEMMA NextDebt ==
    ASSUME SyncInv, CurrentOK, DebtOK, [Next]_vars
    PROVE  DebtOK'
<1>1. CASE \/ Commit \/ AcceptSubscription \/ Activate \/ ResyncSent \/ ReplayNext
           \/ ReplayEnds \/ DrainNext \/ Answer \/ Deliver \/ Delivered
           \/ AttachOverflowed \/ UNCHANGED vars
  <2>1. UNCHANGED <<held, loop, again, awaited, late, abandoned>>
    BY <1>1 DEF Commit, AcceptSubscription, Activate, ResyncSent, ReplayNext, ReplayEnds,
       DrainNext, Answer, Deliver, Delivered, AttachOverflowed, vars, storeVars
  <2> QED BY <2>1 DEF DebtOK
<1>2. CASE LoadInitial \/ AskRefresh
  BY <1>2, RefreshDebt DEF LoadInitial, AskRefresh
<1>3. CASE Attach
  <2>1. CASE HeardResync BY <2>1, RefreshDebt DEF HeardResync
  <2>2. CASE FetchNext(FALSE)
    <3>1. loop' \in {"snapshot", "delta"} BY <2>2, FetchIsAsked
    <3> QED BY <3>1 DEF DebtOK
  <2>3. CASE UNCHANGED storeVars BY <2>3 DEF DebtOK, storeVars
  <2> QED BY <1>3, <2>1, <2>2, <2>3 DEF Attach
<1>4. CASE Publish BY <1>4 DEF Publish, DebtOK
<1>5. CASE LoopAgain
  <2>1. loop' \in {"snapshot", "delta"} BY <1>5, FetchIsAsked DEF LoopAgain
  <2> QED BY <2>1 DEF DebtOK
<1>6. CASE LoopEnds
  <2>1. /\ UNCHANGED <<held, again, awaited>> /\ ~again
        /\ ~(awaited > fetch.answer.to) /\ held # Nothing /\ held.revision = fetch.answer.to
    BY <1>6 DEF LoopEnds, Unsettled, CurrentOK
  <2>2. awaited \in Int /\ held.revision \in Int
    <3>1. revision \in Nat BY Bounds DEF SyncInv
    <3> QED BY <2>1, <3>1 DEF CurrentOK, SyncInv, HeldOK
  <2>3. awaited <= held.revision BY <2>1, <2>2
  <2> QED BY <2>1, <2>3 DEF DebtOK
<1>7. CASE RefreshEnds BY <1>7 DEF RefreshEnds, DebtOK
<1>8. CASE FetchFails BY <1>8 DEF FetchFails, Fetch, DebtOK
<1> QED BY <1>1, <1>2, <1>3, <1>4, <1>5, <1>6, <1>7, <1>8, ReceiveDebt DEF Next

LEMMA QuietIsCurrent ==
    ASSUME SyncInv, CurrentOK, StatusOK, DebtOK, Quiet
    PROVE  \/ held # Nothing /\ held.revision = revision /\ status = "current"
           \/ Owed
           \/ abandoned
<1>1. /\ subscription.phase = "started" /\ activation.phase = "live" /\ loop = "idle"
      /\ control = <<>> /\ lane = <<>> /\ wire = <<>> /\ activation.pending = <<>>
  BY DEF Quiet
<1>2. UnderWay = {} /\ Ahead = {}
  <2>1. Len(control) = 0 /\ Len(lane) = 0 /\ Len(wire) = 0 BY <1>1
  <2>2. FirstUnsent \in {1, 2} /\ LaneFirstUnsent \in {1, 2}
    BY DEF FirstUnsent, LaneFirstUnsent
  <2>3. FirstUnsent..Len(control) = {} /\ LaneFirstUnsent..Len(lane) = {} /\ 1..Len(wire) = {}
    BY <2>1, <2>2
  <2> QED BY <2>3 DEF UnderWay, Ahead, Coming
<1>3. request = Nothing
  <2>1. request # Nothing => loop = request.operation /\ request \in Requests
    BY DEF SyncInv, FetchOK
  <2> QED BY <1>1, <2>1 DEF Requests
<1>4. WillFetch => abandoned \/ again BY <1>1, <1>2, <1>3 DEF WillFetch
<1>5. ~EventComing(revision)
  <2>1. DOMAIN activation.pending = {} BY <1>1
  <2> QED BY <1>1, <1>2, <2>1 DEF EventComing
<1>6. Reached(revision) => awaited >= revision \/ (held # Nothing /\ held.revision = revision)
  BY <1>1, <1>2 DEF Reached
<1>7. abandoned \/ (held # Nothing /\ (status = "current" \/ again))
  BY <1>1 DEF StatusOK
<1>8. held # Nothing /\ awaited >= revision => held.revision = revision \/ awaited > held.revision
  <2>1. held # Nothing => held.revision \in 0..revision BY DEF SyncInv, HeldOK
  <2>2. awaited \in 0..revision /\ revision \in Nat BY Bounds DEF CurrentOK, SyncInv
  <2> QED BY <2>1, <2>2
<1>9. abandoned \/ late \/ (~again /\ (held # Nothing => ~(awaited > held.revision)))
  <2>1. held # Nothing => held.revision \in 0..revision BY DEF SyncInv, HeldOK
  <2>2. awaited \in 0..revision /\ revision \in Nat BY Bounds DEF CurrentOK, SyncInv
  <2>3. held # Nothing /\ awaited <= held.revision => ~(awaited > held.revision) BY <2>1, <2>2
  <2> QED BY <1>1, <2>3 DEF DebtOK
<1>10. \/ abandoned \/ again
       \/ held # Nothing /\ (held.revision = revision \/ awaited > held.revision)
  BY <1>4, <1>5, <1>6, <1>7, <1>8 DEF CurrentOK
<1> QED BY <1>7, <1>9, <1>10 DEF Owed

\* Whatever is dropped is announced, whatever is announced is fetched or comes in
\* the last turn of a refresh, and the status follows the projection: in whatever
\* turn the frames come (WorkspaceSnapshotStore.refreshTo, publish).
THEOREM SyncCurrentInvariant == Spec => [](SyncInv /\ CurrentOK /\ StatusOK /\ DebtOK)
<1>1. Init => SyncInv /\ CurrentOK /\ StatusOK /\ DebtOK
  <2>1. Init => StatusOK
    <3>1. Init => loop = "idle" /\ held = Nothing /\ subscription.phase = "asked" BY DEF Init
    <3> QED BY <3>1 DEF StatusOK
  <2>2. Init => DebtOK
    <3>1. Init => again = FALSE /\ held = Nothing BY DEF Init
    <3> QED BY <3>1 DEF DebtOK
  <2> QED BY <2>1, <2>2, InitSync, InitCurrent
<1>2. SyncInv /\ CurrentOK /\ StatusOK /\ DebtOK /\ [Next]_vars
         => (SyncInv /\ CurrentOK /\ StatusOK /\ DebtOK)'
  BY NextSync, NextCurrent, NextStatus, NextDebt
<1> QED BY <1>1, <1>2, PTL DEF Spec

\* Once everything has arrived, the client of WorkspaceSnapshotStore holds the
\* workspace the server has and shows it as current, unless a refresh failed and
\* none was answered since, or was asked for more in its last turn.
THEOREM SyncSettledIsCurrent == Spec => []SettledIsCurrent
<1>1. SyncInv /\ CurrentOK /\ StatusOK /\ DebtOK => SettledIsCurrent
  BY QuietIsCurrent DEF SettledIsCurrent
<1> QED BY <1>1, SyncCurrentInvariant, PTL

=============================================================================
