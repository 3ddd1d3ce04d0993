---------------------------- MODULE ServerRequests ----------------------------
(***************************************************************************)
(* ServerConnection (packages/server-core/src/connection.ts): the life of  *)
(* one protocol connection and of the requests on it.  The handshake is    *)
(* processed in order; after it every frame is its own task, at most       *)
(* MaxInFlight feature handlers run, the rest wait in a bounded FIFO, and  *)
(* heartbeat, cancellation and the end of the transport never wait.        *)
(*                                                                         *)
(* One action is one turn of the event loop: the arrival of a frame, the   *)
(* answer of a handler or of the outbound pump, a timer.  What a handler   *)
(* does is the dispatcher's (CommandLedger); here it returns, or is        *)
(* interrupted, or never returns.  The pump is OutboundDelivery; here it   *)
(* accepts an answer sooner or later, or rejects it once it is closed.     *)
(***************************************************************************)
EXTENDS Naturals, FiniteSets, SequencesExt

CONSTANTS
    Features,       \* query and command frames a client may send
    Pings,          \* connection.ping queries
    Correlations,
    Correlation,    \* queryId or correlationId of each feature
    Deadlined,      \* features with a deadlineMs
    Bytes,          \* frame length of each feature
    Heartbeat,      \* whether the client advertises connection.heartbeat
    MaxInFlight, MaxPending, MaxPendingBytes

Requests == Features \cup Pings

ASSUME RequestsAssumption ==
    /\ Features \cap Pings = {}
    /\ Correlation \in [Features -> Correlations]
    /\ Deadlined \subseteq Features
    /\ Bytes \in [Features -> Nat \ {0}]
    /\ Heartbeat \in BOOLEAN

ASSUME LimitsAssumption == {MaxInFlight, MaxPending, MaxPendingBytes} \subseteq Nat \ {0}

VARIABLES
    conn,           \* currentState
    hello,          \* how far handleHello has come
    transport,      \* unopened, open, or its incoming frames ended
    reader,         \* start() and readLoop()
    disconnected,   \* readLoop found the transport gone, not closed by us
    outboundClosed, \* the pump rejects every send
    aborted,        \* abortController
    cleaned,        \* connectionCleaned: onConnectionClosed has been reported
    opened,         \* onConnectionOpened has been reported
    closeTask,
    heartbeat,      \* the inbound-silence deadline
    phase,          \* what became of each request
    queue,          \* pendingFeatures
    queueBytes,     \* pendingFeatureBytes
    active,         \* activeFeatures
    inFlight,       \* inFlightRequests
    expired,        \* queued features whose deadline has passed
    cancelled,      \* features a cancel frame found queued or in flight
    sent            \* answers the pump accepted for each request

connVars == <<conn, hello, transport, reader, disconnected, outboundClosed, aborted, cleaned,
              opened, closeTask, heartbeat>>
requestVars == <<phase, queue, queueBytes, active, inFlight, expired, cancelled, sent>>
vars == <<connVars, requestVars>>

Phases == {"unsent", "queued", "running", "stopping", "answering", "replying", "settled"}

TypeOK ==
    /\ conn \in {"new", "handshaking", "open", "closing", "closed"}
    /\ hello \in {"awaited", "authenticating", "refusing", "answering", "delivered", "processed", "failed"}
    /\ transport \in {"unopened", "open", "ended"}
    /\ reader \in {"none", "opening", "reading", "draining", "done"}
    /\ closeTask \in {"none", "running", "done"}
    /\ heartbeat \in {"off", "armed"}
    /\ {disconnected, outboundClosed, aborted, cleaned, opened} \subseteq BOOLEAN
    /\ phase \in [Requests -> Phases]
    /\ queue \in Seq(Features)
    /\ queueBytes \in Nat
    /\ active \in Nat
    /\ inFlight \subseteq Features
    /\ expired \subseteq Features
    /\ cancelled \subseteq Features
    /\ sent \in [Requests -> Nat]

Init ==
    /\ conn = "new"
    /\ hello = "awaited"
    /\ transport = "unopened"
    /\ reader = "none"
    /\ closeTask = "none"
    /\ heartbeat = "off"
    /\ disconnected = FALSE
    /\ outboundClosed = FALSE
    /\ aborted = FALSE
    /\ cleaned = FALSE
    /\ opened = FALSE
    /\ phase = [r \in Requests |-> "unsent"]
    /\ queue = <<>>
    /\ queueBytes = 0
    /\ active = 0
    /\ inFlight = {}
    /\ expired = {}
    /\ cancelled = {}
    /\ sent = [r \in Requests |-> 0]

Queued == {queue[i] : i \in DOMAIN queue}

(* An abort reaches every handler in flight; whatever it was doing, the     *)
(* dispatcher now answers for it.                                           *)
Stopping(p) == [r \in Requests |-> IF p[r] = "running" THEN "stopping" ELSE p[r]]
(* clearPendingFeatures resolves queued requests without an answer.         *)
Forgotten(p) == [r \in Requests |-> IF p[r] = "queued" THEN "settled" ELSE p[r]]

-----------------------------------------------------------------------------
(* Teardown.                                                                *)

ClearQueue ==
    /\ queue' = <<>>
    /\ queueBytes' = 0
    /\ expired' = {}

(* cleanupConnection(), which only its first call runs.                     *)
Cleanup(p) ==
    IF cleaned
    THEN phase' = p /\ UNCHANGED <<cleaned, queue, queueBytes, expired, inFlight, heartbeat>>
    ELSE /\ cleaned' = TRUE
         /\ phase' = Stopping(Forgotten(p))
         /\ ClearQueue
         /\ inFlight' = {}
         /\ heartbeat' = "off"

CanClose == closeTask = "none" /\ conn # "closed"

(* The common part of close() and failConnection(): p is phase after what   *)
(* the caller did to it.                                                    *)
BeginClose(p) ==
    /\ conn' = "closing"
    /\ aborted' = TRUE
    /\ Cleanup(p)
    /\ closeTask' = "running"

Close ==
    /\ CanClose
    /\ BeginClose(phase)
    /\ outboundClosed' = TRUE
    /\ UNCHANGED <<hello, transport, reader, disconnected, opened, active, cancelled, sent>>

(* The pump fails and calls handleOutboundFailure.                          *)
OutboundFails ==
    /\ ~outboundClosed
    /\ outboundClosed' = TRUE
    /\ IF CanClose THEN BeginClose(phase)
       ELSE UNCHANGED <<conn, aborted, cleaned, phase, queue, queueBytes, expired, inFlight,
                        heartbeat, closeTask>>
    /\ UNCHANGED <<hello, transport, reader, disconnected, opened, active, cancelled, sent>>

(* transport.close() settles; the transport's incoming frames end.          *)
CloseTaskEnds ==
    /\ closeTask = "running"
    /\ closeTask' = "done"
    /\ conn' = "closed"
    /\ transport' = "ended"
    /\ UNCHANGED <<hello, reader, disconnected, outboundClosed, aborted, cleaned, opened, heartbeat,
                   requestVars>>

TransportEnds ==
    /\ transport = "open"
    /\ transport' = "ended"
    /\ UNCHANGED <<conn, hello, reader, disconnected, outboundClosed, aborted, cleaned, opened,
                   closeTask, heartbeat, requestVars>>

-----------------------------------------------------------------------------
(* start() and the handshake.                                               *)

Start ==
    /\ conn = "new"
    /\ conn' = "handshaking"
    /\ reader' = "opening"
    /\ UNCHANGED <<hello, transport, disconnected, outboundClosed, aborted, cleaned, opened,
                   closeTask, heartbeat, requestVars>>

TransportOpens ==
    /\ reader = "opening"
    /\ transport = "unopened"
    /\ transport' = "open"
    /\ reader' = "reading"
    /\ UNCHANGED <<conn, hello, disconnected, outboundClosed, aborted, cleaned, opened, closeTask,
                   heartbeat, requestVars>>

OpenFails ==
    /\ reader = "opening"
    /\ reader' = "done"
    /\ outboundClosed' = TRUE
    /\ aborted' = TRUE
    /\ Cleanup(phase)
    /\ conn' = "closed"
    /\ transport' = "ended"
    /\ UNCHANGED <<hello, disconnected, opened, closeTask, active, cancelled, sent>>

HelloArrives ==
    /\ reader = "reading"
    /\ transport = "open"
    /\ conn = "handshaking"
    /\ hello = "awaited"
    /\ hello' = "authenticating"
    /\ UNCHANGED <<conn, transport, reader, disconnected, outboundClosed, aborted, cleaned, opened,
                   closeTask, heartbeat, requestVars>>

(* authenticate() settles: with a client, with a refusal that is sent       *)
(* before the close, or with a version or identity that throws.             *)
Authenticate ==
    /\ hello = "authenticating"
    /\ hello' \in {"answering", "refusing", "failed"}
    /\ UNCHANGED <<conn, transport, reader, disconnected, outboundClosed, aborted, cleaned, opened,
                   closeTask, heartbeat, requestVars>>

PumpRejects == outboundClosed \/ transport = "ended"

HelloSent ==
    /\ hello = "answering"
    /\ ~PumpRejects
    /\ hello' = "delivered"
    /\ UNCHANGED <<conn, transport, reader, disconnected, outboundClosed, aborted, cleaned, opened,
                   closeTask, heartbeat, requestVars>>

HelloLost ==
    /\ hello \in {"answering", "refusing"}
    /\ PumpRejects
    /\ hello' = "failed"
    /\ UNCHANGED <<conn, transport, reader, disconnected, outboundClosed, aborted, cleaned, opened,
                   closeTask, heartbeat, requestVars>>

RefusalSent ==
    /\ hello = "refusing"
    /\ ~PumpRejects
    /\ hello' = "processed"
    /\ IF CanClose
       THEN BeginClose(phase) /\ outboundClosed' = TRUE
       ELSE UNCHANGED <<conn, aborted, cleaned, phase, queue, queueBytes, expired, inFlight,
                        heartbeat, closeTask, outboundClosed>>
    /\ UNCHANGED <<transport, reader, disconnected, opened, active, cancelled, sent>>

ArmedBy(condition) == IF condition THEN "armed" ELSE heartbeat

(* handleHello resumes after its answer was accepted: the connection is     *)
(* open whatever happened to it meanwhile.                                  *)
HelloContinues ==
    /\ hello = "delivered"
    /\ hello' = "processed"
    /\ conn' = "open"
    /\ opened' = (opened \/ ~cleaned)
    /\ heartbeat' = ArmedBy(Heartbeat)
    /\ UNCHANGED <<transport, reader, disconnected, outboundClosed, aborted, cleaned, closeTask,
                   requestVars>>

-----------------------------------------------------------------------------
(* The inbound-silence deadline of a heartbeat client.                      *)

(* A deadline that fires late came due while the process was suspended and  *)
(* is given again; one that fires on time ends the connection.              *)
HeartbeatFires ==
    /\ heartbeat = "armed"
    /\ \/ /\ conn # "open"
          /\ heartbeat' = "off"
          /\ UNCHANGED <<conn, aborted, cleaned, phase, queue, queueBytes, expired, inFlight, closeTask>>
       \/ /\ conn = "open"      \* late
          /\ heartbeat' = "armed"
          /\ UNCHANGED <<conn, aborted, cleaned, phase, queue, queueBytes, expired, inFlight, closeTask>>
       \/ /\ conn = "open"
          /\ CanClose
          /\ BeginClose(phase)
       \/ /\ conn = "open"
          /\ ~CanClose
          /\ heartbeat' = "off"
          /\ UNCHANGED <<conn, aborted, cleaned, phase, queue, queueBytes, expired, inFlight, closeTask>>
    /\ UNCHANGED <<hello, transport, reader, disconnected, outboundClosed, opened, active, cancelled, sent>>

-----------------------------------------------------------------------------
(* Admission of features.                                                   *)

(* Mutant: the abort signal is only listened to.                            *)
BegunRunning == "running"

(* The phase in which beginRequest leaves a feature given a slot.           *)
Begun == IF aborted THEN "stopping" ELSE "running"

Duplicate(r) == \E q \in Queued \cup inFlight : Correlation[q] = Correlation[r]
QueueOverflows(r) == Len(queue) >= MaxPending \/ queueBytes + Bytes[r] > MaxPendingBytes
SlotFree == active < MaxInFlight /\ queue = <<>>

(* admitFeature, on a connection that processes the frame r.                *)
RefuseDuplicate(r) ==
    /\ Duplicate(r)
    /\ phase' = [phase EXCEPT ![r] = "replying"]
    /\ heartbeat' = ArmedBy(Heartbeat)
    /\ UNCHANGED <<conn, outboundClosed, aborted, cleaned, closeTask, queue, queueBytes, active,
                   inFlight, expired>>

Dispatch(r) ==
    /\ ~Duplicate(r)
    /\ SlotFree
    /\ phase' = [phase EXCEPT ![r] = Begun]
    /\ active' = active + 1
    /\ inFlight' = inFlight \cup {r}
    /\ heartbeat' = ArmedBy(Heartbeat)
    /\ UNCHANGED <<conn, outboundClosed, aborted, cleaned, closeTask, queue, queueBytes, expired>>

Enqueue(r) ==
    /\ ~Duplicate(r)
    /\ ~SlotFree
    /\ ~QueueOverflows(r)
    /\ phase' = [phase EXCEPT ![r] = "queued"]
    /\ queue' = Append(queue, r)
    /\ queueBytes' = queueBytes + Bytes[r]
    /\ heartbeat' = ArmedBy(Heartbeat)
    /\ UNCHANGED <<conn, outboundClosed, aborted, cleaned, closeTask, active, inFlight, expired>>

(* The FIFO's safety ceiling ends the connection.                           *)
Overflow(r) ==
    /\ ~Duplicate(r)
    /\ ~SlotFree
    /\ QueueOverflows(r)
    /\ outboundClosed' = TRUE
    /\ IF CanClose
       THEN BeginClose([phase EXCEPT ![r] = "settled"])
       ELSE /\ phase' = [phase EXCEPT ![r] = "settled"]
            /\ heartbeat' = ArmedBy(Heartbeat)
            /\ UNCHANGED <<conn, aborted, cleaned, queue, queueBytes, expired, inFlight, closeTask>>
    /\ UNCHANGED active

(* A ping is answered by the connection itself, without a slot.             *)
Ping(r) ==
    /\ phase' = [phase EXCEPT ![r] = "replying"]
    /\ heartbeat' = ArmedBy(Heartbeat)
    /\ UNCHANGED <<conn, outboundClosed, aborted, cleaned, closeTask, queue, queueBytes, active,
                   inFlight, expired>>

(* A frame on a connection that is no longer open only counts as a sign of  *)
(* life.                                                                    *)
Ignore(r) ==
    /\ phase' = [phase EXCEPT ![r] = "settled"]
    /\ heartbeat' = ArmedBy(Heartbeat)
    /\ UNCHANGED <<conn, outboundClosed, aborted, cleaned, closeTask, queue, queueBytes, active,
                   inFlight, expired>>

Reading == reader = "reading" /\ hello = "processed" /\ transport = "open"

ReceiveFeature(r) ==
    /\ r \in Features
    /\ conn = "open"
    /\ RefuseDuplicate(r) \/ Dispatch(r) \/ Enqueue(r) \/ Overflow(r)

Receive(r) ==
    /\ Reading
    /\ phase[r] = "unsent"
    /\ \/ ReceiveFeature(r)
       \/ r \in Pings /\ conn = "open" /\ Ping(r)
       \/ conn # "open" /\ Ignore(r)
    /\ UNCHANGED <<hello, transport, reader, disconnected, opened, cancelled, sent>>

(* drainFeatures: heads are started while slots are free; one whose         *)
(* deadline has passed is answered without a slot.                          *)
StartsAmong(q, n) == Cardinality({i \in 1..n : q[i] \notin expired})
DrainedCount(q, room) ==
    CHOOSE n \in 0..Len(q) :
        /\ StartsAmong(q, n) = room \/ n = Len(q)
        /\ \A m \in 0..(n - 1) : StartsAmong(q, m) < room

BytesOf(q) ==
    LET total[n \in 0..Len(q)] == IF n = 0 THEN 0 ELSE total[n - 1] + Bytes[q[n]]
    IN  total[Len(q)]

(* Mutant: a freed slot waits for the next frame.                           *)
ReleaseUndrained(r, p) ==
    /\ phase' = p
    /\ active' = active - 1
    /\ inFlight' = inFlight \ {r}
    /\ UNCHANGED <<queue, queueBytes, expired>>

(* The end of dispatchFeature: the slot of r is given back and drained.     *)
(* p is phase after what the caller did to r.                               *)
Release(r, p) ==
    LET taken == IF conn = "open" /\ ~aborted THEN DrainedCount(queue, MaxInFlight - (active - 1)) ELSE 0
        heads == {queue[i] : i \in 1..taken}
        started == heads \ expired
    IN  /\ phase' = [q \in Requests |-> IF q \in started THEN "running"
                                        ELSE IF q \in heads THEN "replying" ELSE p[q]]
        /\ queue' = SubSeq(queue, taken + 1, Len(queue))
        /\ queueBytes' = queueBytes - BytesOf(SubSeq(queue, 1, taken))
        /\ active' = active - 1 + Cardinality(started)
        /\ inFlight' = (inFlight \ {r}) \cup started
        /\ expired' = expired \ heads

Place(r) == CHOOSE i \in DOMAIN queue : queue[i] = r

(* Mutant: the bytes are not given back.                                    *)
DequeueUncounted(r) ==
    /\ queue' = RemoveAt(queue, Place(r))
    /\ expired' = expired \ {r}
    /\ phase' = [phase EXCEPT ![r] = "replying"]
    /\ UNCHANGED queueBytes

(* removePendingFeature *)
Dequeue(r) ==
    /\ queue' = RemoveAt(queue, Place(r))
    /\ queueBytes' = queueBytes - Bytes[r]
    /\ expired' = expired \ {r}
    /\ phase' = [phase EXCEPT ![r] = "replying"]

-----------------------------------------------------------------------------
(* Cancellation, deadlines and answers.                                     *)

(* Mutant: the request is answered and still keeps its place.               *)
CancelKeepsQueued(r) ==
    /\ r \in Queued
    /\ phase' = [phase EXCEPT ![r] = "replying"]
    /\ UNCHANGED <<queue, queueBytes, active, inFlight, expired>>

(* A cancel frame for the correlation of r.                                 *)
CancelQueued(r) ==
    /\ r \in Queued
    /\ Dequeue(r)
    /\ UNCHANGED <<active, inFlight>>

CancelInFlight(r) ==
    /\ r \in inFlight
    /\ phase' = [phase EXCEPT ![r] = IF @ = "running" THEN "stopping" ELSE @]
    /\ UNCHANGED <<queue, queueBytes, active, inFlight, expired>>

ReceiveCancel(r) ==
    /\ Reading
    /\ conn = "open"
    /\ CancelQueued(r) \/ CancelInFlight(r)
    /\ cancelled' = cancelled \cup {r}
    /\ heartbeat' = ArmedBy(Heartbeat)
    /\ UNCHANGED <<conn, hello, transport, reader, disconnected, outboundClosed, aborted, cleaned,
                   opened, closeTask, sent>>

(* The deadline of a queued feature passes; its timer is still to fire.     *)
Expire(r) ==
    /\ r \in Deadlined
    /\ r \in Queued
    /\ expired' = expired \cup {r}
    /\ UNCHANGED <<connVars, phase, queue, queueBytes, active, inFlight, cancelled, sent>>

(* Mutant: a queued deadline is judged only when a slot is free.            *)
PendingDeadlineAtDrain(r) ==
    /\ r \in expired
    /\ active < MaxInFlight
    /\ Dequeue(r)
    /\ UNCHANGED <<connVars, active, inFlight, cancelled, sent>>

PendingDeadline(r) ==
    /\ r \in expired
    /\ Dequeue(r)
    /\ UNCHANGED <<connVars, active, inFlight, cancelled, sent>>

(* The dispatcher's own deadline of a running handler.                      *)
RunningDeadline(r) ==
    /\ r \in Deadlined
    /\ phase[r] = "running"
    /\ phase' = [phase EXCEPT ![r] = "stopping"]
    /\ UNCHANGED <<connVars, queue, queueBytes, active, inFlight, expired, cancelled, sent>>

HandlerReturns(r) ==
    /\ phase[r] = "running"
    /\ phase' = [phase EXCEPT ![r] = "answering"]
    /\ UNCHANGED <<connVars, queue, queueBytes, active, inFlight, expired, cancelled, sent>>

(* The dispatcher answers for a handler that was interrupted.               *)
Interrupted(r) ==
    /\ phase[r] = "stopping"
    /\ phase' = [phase EXCEPT ![r] = "answering"]
    /\ UNCHANGED <<connVars, queue, queueBytes, active, inFlight, expired, cancelled, sent>>

(* The pump accepts the answer of a handler, or rejects it.                 *)
AnswerSent(r) ==
    /\ phase[r] = "answering"
    /\ ~PumpRejects
    /\ Release(r, [phase EXCEPT ![r] = "settled"])
    /\ sent' = [sent EXCEPT ![r] = @ + 1]
    /\ UNCHANGED <<connVars, cancelled>>

AnswerLost(r) ==
    /\ phase[r] = "answering"
    /\ PumpRejects
    /\ Release(r, [phase EXCEPT ![r] = "settled"])
    /\ UNCHANGED <<connVars, cancelled, sent>>

(* An answer that holds no slot.                                            *)
ReplySent(r) ==
    /\ phase[r] = "replying"
    /\ ~PumpRejects
    /\ phase' = [phase EXCEPT ![r] = "settled"]
    /\ sent' = [sent EXCEPT ![r] = @ + 1]
    /\ UNCHANGED <<connVars, queue, queueBytes, active, inFlight, expired, cancelled>>

ReplyLost(r) ==
    /\ phase[r] = "replying"
    /\ PumpRejects
    /\ phase' = [phase EXCEPT ![r] = "settled"]
    /\ UNCHANGED <<connVars, queue, queueBytes, active, inFlight, expired, cancelled, sent>>

-----------------------------------------------------------------------------
(* The end of readLoop.                                                     *)

ReaderEnds ==
    /\ reader = "reading"
    /\ \/ transport = "ended" /\ hello \in {"awaited", "processed"}
       \/ hello = "failed"
    /\ reader' = "draining"
    /\ transport' = "ended"
    /\ disconnected' = (conn # "closing")
    /\ outboundClosed' = (outboundClosed \/ conn # "closing")
    /\ aborted' = (aborted \/ conn # "closing")
    /\ phase' = IF conn # "closing" THEN Stopping(Forgotten(phase)) ELSE Forgotten(phase)
    /\ ClearQueue
    /\ UNCHANGED <<conn, hello, cleaned, opened, closeTask, heartbeat, active, inFlight, cancelled, sent>>

(* Mutant: a connection that was cleaned up is taken for closed.            *)
ReaderDrainedOnce ==
    /\ reader = "draining"
    /\ \A r \in Requests : phase[r] \in {"unsent", "settled"}
    /\ reader' = "done"
    /\ IF disconnected /\ conn # "closing" /\ ~cleaned
       THEN Cleanup(phase) /\ conn' = "closed"
       ELSE UNCHANGED <<conn, cleaned, phase, queue, queueBytes, expired, inFlight, heartbeat>>
    /\ UNCHANGED <<hello, transport, disconnected, outboundClosed, aborted, opened, closeTask,
                   active, cancelled, sent>>

ReaderDrained ==
    /\ reader = "draining"
    /\ \A r \in Requests : phase[r] \in {"unsent", "settled"}
    /\ reader' = "done"
    /\ IF disconnected /\ conn # "closing"
       THEN Cleanup(phase) /\ conn' = "closed"
       ELSE UNCHANGED <<conn, cleaned, phase, queue, queueBytes, expired, inFlight, heartbeat>>
    /\ UNCHANGED <<hello, transport, disconnected, outboundClosed, aborted, opened, closeTask,
                   active, cancelled, sent>>

ConnectionStep ==
    \/ Close \/ OutboundFails \/ CloseTaskEnds \/ TransportEnds
    \/ Start \/ TransportOpens \/ OpenFails
    \/ HelloArrives \/ Authenticate \/ HelloSent \/ HelloLost \/ RefusalSent \/ HelloContinues
    \/ HeartbeatFires
    \/ ReaderEnds \/ ReaderDrained

(* What the server does with a request it holds.                            *)
RequestStep(r) ==
    \/ AnswerSent(r) \/ AnswerLost(r) \/ ReplySent(r) \/ ReplyLost(r)
    \/ r \in Features /\
          (Expire(r) \/ PendingDeadline(r) \/ RunningDeadline(r) \/ HandlerReturns(r) \/ Interrupted(r))

Next ==
    \/ ConnectionStep
    \/ \E r \in Requests : Receive(r) \/ RequestStep(r)
    \/ \E r \in Features : ReceiveCancel(r)

(* Nothing is assumed of handlers, of the client, nor of when anybody       *)
(* closes: timers fire, the pump and the transport settle what they were    *)
(* given, and what has settled resumes.                                     *)
Fairness ==
    /\ WF_vars(CloseTaskEnds) /\ WF_vars(Authenticate) /\ WF_vars(TransportOpens \/ OpenFails)
    /\ WF_vars(HelloSent \/ HelloLost \/ RefusalSent) /\ WF_vars(HelloContinues)
    /\ WF_vars(ReaderEnds) /\ WF_vars(ReaderDrained)
    /\ \A r \in Requests : WF_vars(AnswerSent(r) \/ AnswerLost(r) \/ ReplySent(r) \/ ReplyLost(r))
    /\ \A r \in Features : WF_vars(Expire(r)) /\ WF_vars(PendingDeadline(r))
                           /\ WF_vars(RunningDeadline(r)) /\ WF_vars(Interrupted(r))

Spec == Init /\ [][Next]_vars /\ Fairness

-----------------------------------------------------------------------------
(* Properties.                                                              *)

Occupying == {r \in Requests : phase[r] \in {"running", "stopping", "answering"}}

(* The counters that admit work agree with the work there is, through       *)
(* refusals, cancellations, deadlines and teardown: a slot or a byte that   *)
(* leaks is lost to the connection for good, and a correlation id that      *)
(* named two requests would cancel or answer the wrong one (activeFeatures, *)
(* pendingFeatureBytes, pendingFeatureIds).                                 *)
SlotsCounted ==
    /\ active = Cardinality(Occupying)
    /\ active <= MaxInFlight
    /\ queueBytes = BytesOf(queue)
    /\ \A r \in Requests : phase[r] = "queued" <=> r \in Queued
    /\ \A r, q \in Queued \cup inFlight : Correlation[r] = Correlation[q] => r = q

(* Nothing waits while a slot is free: every path that frees a slot drains  *)
(* the queue (dispatchFeature's finally block).                             *)
WorkConserving == ~aborted /\ conn = "open" /\ queue # <<>> => active = MaxInFlight

(* On a connection nobody tore down, each request the server is done with   *)
(* got exactly one answer, whichever of its handler, its deadline, a cancel *)
(* frame and the queue's own timer came first.                              *)
AnsweredOnce ==
    \A r \in Requests :
        /\ sent[r] <= 1
        /\ ~aborted /\ ~outboundClosed /\ transport = "open" /\ phase[r] = "settled" => sent[r] = 1

(* After teardown no handler runs without having been told to stop, also    *)
(* one whose frame was read by a connection that a late handshake opened    *)
(* again; and when the reader is done no request is held (beginRequest,     *)
(* cleanupConnection, readLoop's finally block).                            *)
TeardownStopsWork ==
    /\ aborted => \A r \in Requests : phase[r] # "running"
    /\ reader = "done" => \A r \in Requests : phase[r] \in {"unsent", "settled"}

(* Once anything tears the connection down it ends up closed and stays      *)
(* closed, whatever handlers do (close, failConnection, readLoop).          *)
TeardownEnds == [](aborted => <>[](conn = "closed"))

(* A request with a deadline is settled although every slot may be held by  *)
(* handlers that never return (armPendingDeadline, invoke).                 *)
DeadlineSettles ==
    \A r \in Deadlined : phase[r] \in {"queued", "running"} ~> phase[r] = "settled"

(* A cancel frame that finds its request settles it although no slot ever   *)
(* becomes free and its handler never returns (cancelRequest).              *)
CancelSettles == \A r \in Features : r \in cancelled ~> phase[r] = "settled"

(* A ping is answered, or the connection is over, although every slot may   *)
(* be held (handleQuery).                                                   *)
PingAnswered == \A r \in Pings : phase[r] # "unsent" ~> phase[r] = "settled"

(* Whatever handlers do, a deadline, a cancel frame and a ping each come to  *)
(* their end, because none of the three waits for a slot.                   *)
SettledWithoutSlot == DeadlineSettles /\ CancelSettles /\ PingAnswered

=============================================================================
