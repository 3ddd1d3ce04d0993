----------------------------- MODULE RequestPath -----------------------------
(***************************************************************************)
(* The path of a request from the client to the server and back: the       *)
(* client's RequestAdmission and sendPreparedRequest                       *)
(* (packages/client-core/src/requestAdmission.ts, client.ts), its          *)
(* WebSocketByteTransport, two ordered streams of frames, and the server   *)
(* connection of ServerRequests, from an accepted handshake on.  The        *)
(* desktop's socket confirms a send by a callback; a browser's does so at   *)
(* once, which is one of the interleavings.                                 *)
(*                                                                         *)
(* The client gives a request up the moment its caller aborts it; the      *)
(* server learns of that by a cancel frame, or never.  The socket has room *)
(* for a cancel frame at once; both sides see the end of the transport at  *)
(* the same time, and the client reacts to it later.                       *)
(***************************************************************************)
EXTENDS ServerRequests

CONSTANTS
    MaxOutstanding,     \* MAX_OUTSTANDING_REQUESTS
    MaxWaiting,         \* MAX_WAITING_REQUESTS
    Budget              \* byteBudget: the smaller maxQueuedBytes of the two sides

ASSUME PathAssumption == {MaxOutstanding, MaxWaiting, Budget} \subseteq Nat \ {0}

(* 128 requests against a FIFO of 256, and a budget the server announced.   *)
ASSUME ClientWithinServer == MaxOutstanding <= MaxPending /\ Budget <= MaxPendingBytes

VARIABLES
    client,     \* where a request is on the client
    waiting,    \* requests waiting for admission
    upstream,   \* frames on their way to the server
    downstream  \* answers on their way to the client

clientVars == <<client, waiting, upstream, downstream>>
pathVars == <<vars, clientVars>>

(* A client's phases: idle, waiting, sending, handed, early, accepted,      *)
(* answered, aborted, abandoned, unsent and lost.                           *)
(* "handed" is a frame the socket took and has not confirmed; "early" is a   *)
(* handed frame whose answer has come first.  A request its caller gave up  *)
(* is "aborted" when a cancel frame follows it, else "abandoned".           *)
Outstanding == {"sending", "handed", "early", "accepted"}

(* Both sides after the handshake, before any request.                      *)
PathInit ==
    /\ conn = "open" /\ hello = "processed" /\ transport = "open" /\ reader = "reading"
    /\ opened = TRUE /\ closeTask = "none"
    /\ heartbeat = IF Heartbeat THEN "armed" ELSE "off"
    /\ disconnected = FALSE /\ outboundClosed = FALSE /\ aborted = FALSE /\ cleaned = FALSE
    /\ phase = [r \in Requests |-> "unsent"]
    /\ queue = <<>> /\ queueBytes = 0 /\ active = 0
    /\ inFlight = {} /\ expired = {} /\ cancelled = {}
    /\ sent = [r \in Requests |-> 0]
    /\ client = [r \in Features |-> "idle"]
    /\ waiting = <<>>
    /\ upstream = <<>>
    /\ downstream = <<>>

-----------------------------------------------------------------------------
(* The client's admission.                                                  *)

Connected == transport = "open" /\ closeTask = "none"

OutstandingIn(c) == {r \in Features : c[r] \in Outstanding}
BytesIn(set) == FoldSet(LAMBDA r, total : Bytes[r] + total, 0, set)
CanAdmit(c, r) ==
    /\ Cardinality(OutstandingIn(c)) < MaxOutstanding
    /\ BytesIn(OutstandingIn(c)) + Bytes[r] <= Budget

(* drain(): the longest prefix of the queue q that fits, on top of c.       *)
AdmittedAfter(c, q, n) == [r \in Features |-> IF \E i \in 1..n : q[i] = r THEN "sending" ELSE c[r]]
AdmittedCount(c, q) ==
    CHOOSE n \in 0..Len(q) :
        /\ \A m \in 0..(n - 1) : CanAdmit(AdmittedAfter(c, q, m), q[m + 1])
        /\ n < Len(q) => ~CanAdmit(AdmittedAfter(c, q, n), q[n + 1])
DrainAdmission(c, q) ==
    LET n == AdmittedCount(c, q)
    IN  client' = AdmittedAfter(c, q, n) /\ waiting' = SubSeq(q, n + 1, Len(q))

(* acquire(), called by sendRequest.                                        *)
Request(r) ==
    /\ Connected
    /\ client[r] = "idle"
    /\ \/ /\ waiting = <<>> /\ CanAdmit(client, r)
          /\ client' = [client EXCEPT ![r] = "sending"]
          /\ UNCHANGED waiting
       \/ /\ ~(waiting = <<>> /\ CanAdmit(client, r))
          /\ Bytes[r] <= Budget
          /\ Len(waiting) < MaxWaiting /\ BytesOf(waiting) + Bytes[r] <= Budget
          /\ client' = [client EXCEPT ![r] = "waiting"]
          /\ waiting' = Append(waiting, r)
       \/ /\ Bytes[r] > Budget \/ Len(waiting) >= MaxWaiting \/ BytesOf(waiting) + Bytes[r] > Budget
          /\ ~(waiting = <<>> /\ CanAdmit(client, r))
          /\ client' = [client EXCEPT ![r] = "unsent"]
          /\ UNCHANGED waiting
    /\ UNCHANGED <<vars, upstream, downstream>>

(* transport.send: the socket has room and takes the frame.                 *)
Hand(r) ==
    /\ Connected
    /\ client[r] = "sending"
    /\ upstream' = Append(upstream, [kind |-> "request", of |-> r])
    /\ client' = [client EXCEPT ![r] = "handed"]
    /\ UNCHANGED <<vars, waiting, downstream>>

(* The callback of socket.send: `accepted = true`.                          *)
SendAccepted(r) ==
    /\ \/ client[r] = "handed" /\ client' = [client EXCEPT ![r] = "accepted"] /\ UNCHANGED waiting
       \/ client[r] = "early" /\ DrainAdmission([client EXCEPT ![r] = "answered"], waiting)
    /\ UNCHANGED <<vars, upstream, downstream>>

(* The caller's signal aborts.  Only an accepted request is cancelled on    *)
(* the server; one whose send is still settling is rejected by the          *)
(* transport, and nobody is left to send the cancel frame.                  *)
AbortWaiting(r) ==
    /\ client[r] = "waiting"
    /\ \E i \in DOMAIN waiting :
          /\ waiting[i] = r
          /\ DrainAdmission([client EXCEPT ![r] = "unsent"], RemoveAt(waiting, i))
    /\ UNCHANGED <<vars, upstream, downstream>>

Abandoned(at) == CASE at = "sending" -> "unsent" [] at = "accepted" -> "aborted" [] OTHER -> "abandoned"

(* Mutant: no cancel frame.                                                 *)
AbortLocally(r) ==
    /\ client[r] \in Outstanding
    /\ DrainAdmission([client EXCEPT ![r] = Abandoned(@)], waiting)
    /\ UNCHANGED <<vars, upstream, downstream>>

AbortOutstanding(r) ==
    /\ client[r] \in Outstanding
    /\ DrainAdmission([client EXCEPT ![r] = Abandoned(@)], waiting)
    /\ upstream' = IF client[r] = "accepted" /\ Connected
                   THEN Append(upstream, [kind |-> "cancel", of |-> r]) ELSE upstream
    /\ UNCHANGED <<vars, downstream>>

(* An answer for a request that was given up meanwhile is dropped.          *)
ClientReceives ==
    /\ downstream # <<>>
    /\ LET r == Head(downstream)
       IN  \/ client[r] = "accepted" /\ DrainAdmission([client EXCEPT ![r] = "answered"], waiting)
           \/ client[r] = "handed" /\ client' = [client EXCEPT ![r] = "early"] /\ UNCHANGED waiting
           \/ client[r] \notin {"accepted", "handed"} /\ UNCHANGED <<client, waiting>>
    /\ downstream' = Tail(downstream)
    /\ UNCHANGED <<vars, upstream>>

(* Mutant: everything pending is taken for unsent.                          *)
ClientForgets ==
    /\ transport = "ended"
    /\ \E r \in Features : client[r] \in Outstanding \cup {"waiting"}
    /\ client' = [r \in Features |-> IF client[r] \in Outstanding \cup {"waiting"} THEN "unsent"
                                     ELSE client[r]]
    /\ waiting' = <<>>
    /\ UNCHANGED <<vars, upstream, downstream>>

(* failDisconnected: what waited is unsent, what was outstanding is lost.   *)
ClientDisconnects ==
    /\ transport = "ended"
    /\ \E r \in Features : client[r] \in Outstanding \cup {"waiting"}
    /\ client' = [r \in Features |-> IF client[r] \in {"waiting", "sending"} THEN "unsent"
                                     ELSE IF client[r] \in Outstanding THEN "lost"
                                     ELSE client[r]]
    /\ waiting' = <<>>
    /\ UNCHANGED <<vars, upstream, downstream>>

-----------------------------------------------------------------------------
(* The server reads the stream in order and answers into the other one.     *)

Answers == [r \in Requests |-> sent'[r] > sent[r]]

ServerReads ==
    /\ upstream # <<>>
    /\ LET frame == Head(upstream)
       IN  \/ frame.kind = "request" /\ Receive(frame.of)
           \/ frame.kind = "cancel" /\ ReceiveCancel(frame.of)
           \/ /\ frame.kind = "cancel"
              /\ Reading
              /\ conn # "open" \/ frame.of \notin Queued \cup inFlight
              /\ UNCHANGED vars
    /\ upstream' = Tail(upstream)
    /\ UNCHANGED <<client, waiting, downstream>>

ServerWorks ==
    /\ \E r \in Features : RequestStep(r)
    /\ downstream' = IF \E r \in Features : Answers[r]
                     THEN Append(downstream, CHOOSE r \in Features : Answers[r]) ELSE downstream
    /\ UNCHANGED <<client, waiting, upstream>>

ConnectionEnds ==
    /\ ConnectionStep
    /\ UNCHANGED clientVars

PathNext ==
    \/ \E r \in Features : Request(r) \/ Hand(r) \/ SendAccepted(r) \/ AbortWaiting(r) \/ AbortOutstanding(r)
    \/ ClientReceives \/ ClientDisconnects
    \/ ServerReads \/ ServerWorks \/ ConnectionEnds

(* Frames that were handed over arrive, sockets and pumps settle; callers   *)
(* may abort or not, handlers may return or not.                            *)
PathFairness ==
    /\ Fairness
    /\ WF_pathVars(ServerReads) /\ WF_pathVars(ClientReceives) /\ WF_pathVars(ClientDisconnects)
    /\ \A r \in Features : WF_pathVars(Hand(r)) /\ WF_pathVars(SendAccepted(r))

PathSpec == PathInit /\ [][PathNext]_pathVars /\ PathFairness

-----------------------------------------------------------------------------
(* Properties.                                                              *)

(* The client admits as much as it may and no more, whatever was aborted,   *)
(* answered or lost.  Requests wait only while nothing more fits            *)
(* (RequestAdmission's drain and remove).  And a client that respects its   *)
(* own admission never meets the server's FIFO ceiling, which would end the *)
(* connection: a request it gave up leaves the server's queue before the    *)
(* one that took its place arrives (MAX_OUTSTANDING_REQUESTS against        *)
(* MAX_PENDING_FEATURES).  A request abandoned between its send and the     *)
(* callback is no part of that: nothing follows it to the server.           *)
AdmissionExact ==
    /\ Connected /\ waiting # <<>> => ~CanAdmit(client, waiting[1])
    /\ (\A r \in Features : client[r] # "abandoned") /\ conn = "open"
         /\ upstream # <<>> /\ Head(upstream).kind = "request" =>
           LET r == Head(upstream).of
           IN  Duplicate(r) \/ SlotFree \/ ~QueueOverflows(r)

(* A request that is reported as never sent, or was given up before the     *)
(* socket took its frame, is unknown to the server and stays so             *)
(* (RequestNotSentError; sendRequest's and transport.send's early throws).  *)
UnsentNeverArrives ==
    \A r \in Features : client[r] = "unsent" =>
        phase[r] = "unsent" /\ \A i \in DOMAIN upstream : upstream[i].of # r

(* The server does not go on forever with a request its client gave up,     *)
(* once the socket had confirmed its frame: an aborted query is cancelled   *)
(* like an aborted command (sendCancellation in sendPreparedRequest).       *)
AbortedWorkStops ==
    \A r \in Features : client[r] = "aborted" ~> (phase[r] = "settled" \/ transport = "ended")

(* The same for every abort, also one between the send and its callback: it *)
(* does not hold (PathSendCallback.cfg).                                    *)
AbandonedWorkStops ==
    \A r \in Features :
        client[r] \in {"aborted", "abandoned"} ~> (phase[r] = "settled" \/ transport = "ended")

=============================================================================
