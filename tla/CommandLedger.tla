---------------------------- MODULE CommandLedger ----------------------------
(***************************************************************************)
(* createOperationDispatcher (packages/server-core/src/dispatcher.ts):     *)
(* commandWithOutcome runs a command handler once for each command id of a *)
(* connection, answers repeated requests from the recorded outcome, and    *)
(* bounds what it remembers.                                               *)
(*                                                                         *)
(* commandWithOutcome gives the turn away only while it awaits a handler   *)
(* or the completion of a prior entry, so everything before such an await  *)
(* is one action.  A Request is one call; the entry a call creates is      *)
(* named by that call, so `entries` keeps calls in insertion order as the  *)
(* Map does, and outcome[r] is the `result` field of the entry of r.       *)
(***************************************************************************)
EXTENDS Naturals, FiniteSets, SequencesExt

CONSTANTS
    Connections, Commands, Contents,
    Requests,
    Connection,     \* the connection of each request
    Command,        \* its command id
    Content,        \* its fingerprint: operation, payload, revision and body
    Oversized,      \* requests whose body exceeds maxBodyBytes
    Deadlined,      \* requests with a deadline
    MaxDispatchers, MaxOutcomes, MaxPending,
    None

ASSUME RequestsAssumption ==
    /\ Connection \in [Requests -> Connections]
    /\ Command \in [Requests -> Commands]
    /\ Content \in [Requests -> Contents]
    /\ Oversized \subseteq Requests
    /\ Deadlined \subseteq Requests
    /\ None \notin Requests
    /\ IsFiniteSet(Requests)

ASSUME LimitsAssumption ==
    {MaxDispatchers, MaxOutcomes, MaxPending} \subseteq Nat \ {0}

Results == {"ok", "failed", "refused", "cancelled", "deadline"}
Refusals == {"resource", "conflict", "cancelled", "deadline"}

ASSUME NoneAssumption == None \notin Results \cup Refusals

VARIABLES
    ledgers,    \* connections that have a ledger, oldest first
    entries,    \* per connection the requests that own an entry, oldest first
    pending,    \* per connection the count of entries without a result
    phase,      \* new, executing, waiting on a prior entry, answered
    outcome,    \* the result recorded in the entry of a request
    waitsOn,    \* the entry whose completion a repeated request awaits
    answer,     \* the envelope the caller received, by its outcome
    handlers    \* requests whose handler was called and has not returned

vars == <<ledgers, entries, pending, phase, outcome, waitsOn, answer, handlers>>

TypeOK ==
    /\ ledgers \in Seq(Connections)
    /\ entries \in [Connections -> Seq(Requests)]
    /\ pending \in [Connections -> Nat]
    /\ phase \in [Requests -> {"new", "executing", "waiting", "answered"}]
    /\ outcome \in [Requests -> Results \cup {None}]
    /\ waitsOn \in [Requests -> Requests \cup {None}]
    /\ answer \in [Requests -> Results \cup Refusals \cup {None}]
    /\ handlers \subseteq Requests

Init ==
    /\ ledgers = <<>>
    /\ entries = [c \in Connections |-> <<>>]
    /\ pending = [c \in Connections |-> 0]
    /\ phase = [r \in Requests |-> "new"]
    /\ outcome = [r \in Requests |-> None]
    /\ waitsOn = [r \in Requests |-> None]
    /\ answer = [r \in Requests |-> None]
    /\ handlers = {}

Owners(c) == {entries[c][i] : i \in DOMAIN entries[c]}

-----------------------------------------------------------------------------
(* The ledger of a connection: found, created, or created in the place of   *)
(* the oldest ledger that has nothing pending.                              *)

HasLedger(c) == \E i \in DOMAIN ledgers : ledgers[i] = c
IdleLedgers == {i \in DOMAIN ledgers : pending[ledgers[i]] = 0}
FirstOf(indices) == CHOOSE i \in indices : \A j \in indices : i <= j

LedgerRoom(c) == HasLedger(c) \/ Len(ledgers) < MaxDispatchers \/ IdleLedgers # {}
Retires(c) == ~HasLedger(c) /\ Len(ledgers) >= MaxDispatchers

LedgersWith(c) ==
    IF HasLedger(c) THEN ledgers
    ELSE IF Retires(c) THEN Append(RemoveAt(ledgers, FirstOf(IdleLedgers)), c)
    ELSE Append(ledgers, c)

EntriesWith(c) ==
    IF Retires(c) THEN [entries EXCEPT ![ledgers[FirstOf(IdleLedgers)]] = <<>>]
    ELSE entries

(* Opens the ledger of a request that was not refused before.               *)
OpenLedger(r) ==
    /\ phase[r] = "new"
    /\ r \notin Oversized
    /\ LedgerRoom(Connection[r])
    /\ ledgers' = LedgersWith(Connection[r])

(* Mutant: only completed entries are found.                                *)
CompletedEntries(r) ==
    {q \in Owners(Connection[r]) : Command[q] = Command[r] /\ outcome[q] # None}

(* ledger.entries.get(commandId), searched in the ledger of the request.    *)
PriorEntries(r) == {q \in Owners(Connection[r]) : Command[q] = Command[r]}

Answered(r, result) ==
    /\ phase' = [phase EXCEPT ![r] = "answered"]
    /\ answer' = [answer EXCEPT ![r] = result]

-----------------------------------------------------------------------------
(* Requests that create no entry.                                           *)

(* The body is too large, or every ledger has commands pending.             *)
Refuse(r) ==
    /\ phase[r] = "new"
    /\ r \in Oversized \/ ~LedgerRoom(Connection[r])
    /\ Answered(r, "resource")
    /\ UNCHANGED <<ledgers, entries, pending, outcome, waitsOn, handlers>>

(* The command id is known with other contents.                             *)
Conflict(r) ==
    /\ OpenLedger(r)
    /\ \E q \in PriorEntries(r) : Content[q] # Content[r]
    /\ Answered(r, "conflict")
    /\ UNCHANGED <<entries, pending, outcome, waitsOn, handlers>>

(* Mutant: the fingerprint is not compared.                                 *)
ReplayAnything(r) ==
    /\ OpenLedger(r)
    /\ \E q \in PriorEntries(r) :
          /\ outcome[q] # None
          /\ Answered(r, outcome[q])
    /\ UNCHANGED <<entries, pending, outcome, waitsOn, handlers>>

(* The command id is known and its outcome recorded.                        *)
Replay(r) ==
    /\ OpenLedger(r)
    /\ \E q \in PriorEntries(r) :
          /\ Content[q] = Content[r]
          /\ outcome[q] # None
          /\ Answered(r, outcome[q])
    /\ UNCHANGED <<entries, pending, outcome, waitsOn, handlers>>

(* The command id is known and its handler has not been answered for.       *)
Wait(r) ==
    /\ OpenLedger(r)
    /\ \E q \in PriorEntries(r) :
          /\ Content[q] = Content[r]
          /\ outcome[q] = None
          /\ waitsOn' = [waitsOn EXCEPT ![r] = q]
    /\ phase' = [phase EXCEPT ![r] = "waiting"]
    /\ UNCHANGED <<entries, pending, outcome, answer, handlers>>

(* Mutant: any entry may be retired.                                        *)
AllEntries(c) == DOMAIN EntriesWith(c)[c]

SettledEntries(c) == {i \in DOMAIN EntriesWith(c)[c] : outcome[EntriesWith(c)[c][i]] # None}

(* Too many commands pending, or an outcome ledger full of pending ones.    *)
AtLimit(c) ==
    \/ pending[c] >= MaxPending
    \/ Len(EntriesWith(c)[c]) >= MaxOutcomes /\ SettledEntries(c) = {}

RefuseAtLimit(r) ==
    /\ OpenLedger(r)
    /\ PriorEntries(r) = {}
    /\ AtLimit(Connection[r])
    /\ entries' = EntriesWith(Connection[r])
    /\ Answered(r, "resource")
    /\ UNCHANGED <<pending, outcome, waitsOn, handlers>>

-----------------------------------------------------------------------------
(* Execution of a command that has no entry yet.                            *)

(* The entry map after a new entry: the oldest settled one makes room.      *)
Recorded(r) ==
    LET c == Connection[r]
        kept == EntriesWith(c)
        room == IF Len(kept[c]) >= MaxOutcomes
                THEN RemoveAt(kept[c], FirstOf(SettledEntries(c)))
                ELSE kept[c]
    IN  [kept EXCEPT ![c] = Append(room, r)]

Execute(r) ==
    /\ OpenLedger(r)
    /\ PriorEntries(r) = {}
    /\ ~AtLimit(Connection[r])
    /\ entries' = Recorded(r)
    /\ pending' = [pending EXCEPT ![Connection[r]] = @ + 1]
    /\ phase' = [phase EXCEPT ![r] = "executing"]
    /\ handlers' = handlers \cup {r}
    /\ UNCHANGED <<outcome, waitsOn, answer>>

(* No handler, or the scope does not allow it, or invoke() finds the        *)
(* request cancelled or late before it calls the handler: the entry is      *)
(* settled in the turn that created it.                                     *)
ExecuteRefused(r) ==
    /\ OpenLedger(r)
    /\ PriorEntries(r) = {}
    /\ ~AtLimit(Connection[r])
    /\ entries' = Recorded(r)
    /\ \E result \in {"refused", "cancelled", "deadline"} :
          /\ result = "deadline" => r \in Deadlined
          /\ outcome' = [outcome EXCEPT ![r] = result]
          /\ Answered(r, result)
    /\ UNCHANGED <<pending, waitsOn, handlers>>

(* Mutant: a failed command keeps its place among the pending ones.         *)
SettleLeaking(r, result) ==
    /\ outcome' = [outcome EXCEPT ![r] = result]
    /\ pending' = [pending EXCEPT ![Connection[r]] = IF result = "ok" THEN @ - 1 ELSE @]
    /\ Answered(r, result)

(* The finally block of commandWithOutcome.                                 *)
Settle(r, result) ==
    /\ outcome' = [outcome EXCEPT ![r] = result]
    /\ pending' = [pending EXCEPT ![Connection[r]] = @ - 1]
    /\ Answered(r, result)

(* The handler resolves, throws or returns what is no result; nobody        *)
(* listens once it was interrupted.                                         *)
HandlerReturns(r) ==
    /\ r \in handlers
    /\ handlers' = handlers \ {r}
    /\ IF phase[r] = "executing"
       THEN \E result \in {"ok", "failed"} : Settle(r, result)
       ELSE UNCHANGED <<outcome, pending, phase, answer>>
    /\ UNCHANGED <<ledgers, entries, waitsOn>>

(* invoke() loses the race to the abort signal or to the deadline: the      *)
(* caller is answered while the handler goes on.                            *)
Interrupt(r, why) ==
    /\ phase[r] = "executing"
    /\ Settle(r, why)
    /\ UNCHANGED <<ledgers, entries, waitsOn, handlers>>

(* `complete(result)` reaches a repeated request.                           *)
WaitEnds(r) ==
    /\ phase[r] = "waiting"
    /\ outcome[waitsOn[r]] # None
    /\ Answered(r, outcome[waitsOn[r]])
    /\ UNCHANGED <<ledgers, entries, pending, outcome, waitsOn, handlers>>

(* A repeated request is itself cancelled, or its own deadline passes.      *)
WaitInterrupted(r, why) ==
    /\ phase[r] = "waiting"
    /\ Answered(r, why)
    /\ UNCHANGED <<ledgers, entries, pending, outcome, waitsOn, handlers>>

Cancel(r) == Interrupt(r, "cancelled") \/ WaitInterrupted(r, "cancelled")
DeadlinePasses(r) ==
    /\ r \in Deadlined
    /\ Interrupt(r, "deadline") \/ WaitInterrupted(r, "deadline")

Submit(r) ==
    \/ Refuse(r)
    \/ Conflict(r)
    \/ Replay(r)
    \/ Wait(r)
    \/ RefuseAtLimit(r)
    \/ Execute(r)
    \/ ExecuteRefused(r)

Next == \E r \in Requests :
    \/ Submit(r)
    \/ HandlerReturns(r)
    \/ Cancel(r)
    \/ DeadlinePasses(r)
    \/ WaitEnds(r)

Spec == Init /\ [][Next]_vars

-----------------------------------------------------------------------------
(* Properties.                                                              *)

SameCommand(r, q) == Connection[r] = Connection[q] /\ Command[r] = Command[q]

(* The count that admits commands and protects a ledger from being retired  *)
(* is the number of commands whose handler has not been answered for,       *)
(* whatever was interrupted, refused or answered from a prior entry         *)
(* (ledger.pending in commandWithOutcome).                                  *)
PendingIsExecuting ==
    \A c \in Connections :
        pending[c] = Cardinality({r \in Requests : phase[r] = "executing" /\ Connection[r] = c})

(* Making room never forgets a command that is being executed: a repeated   *)
(* request would find no entry and run its handler a second time            *)
(* (the two `retired` loops of commandWithOutcome).                         *)
ExecutingRetained ==
    \A r \in Requests : phase[r] = "executing" =>
        HasLedger(Connection[r]) /\ r \in Owners(Connection[r])

(* Two handlers of one command run at once only when the caller of one of   *)
(* them was already told that it was cancelled or late: invoke() answers    *)
(* for a handler it cannot stop.                                            *)
NoOverlap ==
    \A r, q \in handlers : r # q /\ SameCommand(r, q) =>
        {outcome[r], outcome[q]} \cap {"cancelled", "deadline"} # {}

(* What a caller is told of its command is the outcome of an execution of   *)
(* the same contents, never that of another command under the same id       *)
(* (the fingerprint of commandWithOutcome).                                 *)
AnswersAreOwn ==
    \A r \in Requests : answer[r] \in {"ok", "failed", "refused"} =>
        \E q \in Requests : SameCommand(r, q) /\ Content[q] = Content[r] /\ outcome[q] = answer[r]

(* What the dispatcher remembers is bounded, and nothing of a retired       *)
(* ledger is left (MAX_DISPATCHERS, MAX_COMMAND_OUTCOMES,                   *)
(* MAX_PENDING_COMMANDS).                                                   *)
LedgerBounds ==
    /\ Len(ledgers) <= MaxDispatchers
    /\ \A c \in Connections :
          /\ Len(entries[c]) <= MaxOutcomes
          /\ pending[c] <= MaxPending
          /\ ~HasLedger(c) => entries[c] = <<>>

=============================================================================
