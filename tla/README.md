# Terminay: a verification development

Terminay is a terminal workspace whose state belongs to a server: a desktop
host, browsers and remote devices are clients that project the server's state
and stream its terminals.  This directory holds TLA+ models of that program,
the TLC configurations that check them on small instances, and theorems about
them checked by TLAPS.  `PROJECT.json` lists components, runs, mutants, the
source lines each definition translates, findings, hazards and theorems.
Paths below are relative to the repository.

## 1. The system

### Components, their state and what they do

| Component | Source | State it keeps | Operations |
|---|---|---|---|
| Outbound delivery pump | `packages/server-core/src/outboundDelivery.ts` | control queue, state lanes, terminal lanes, byte counters, cursors, the frame in the transport | `send`, `sendState`, `sendTerminal`, `acknowledgeTerminal`, `releaseTerminal`, `close`, `whenIdle`, the `drain()` loop |
| Server connection | `packages/server-core/src/connection.ts` | connection state, requests in flight, subscriptions, heartbeat | handshake, request admission, cancellation, subscription activation, routing to the pump |
| Command dispatcher | `packages/server-core/src/dispatcher.ts` | ledger of command outcomes per principal, pending commands | execute once, answer retries, abort, deadline |
| Event journal | `packages/server-core/src/events.ts` | bounded window of revisions, live subscriptions | append, replay, resynchronize |
| Workspace authority | `packages/server-core/src/workspace*.ts`, `folderReconciler.ts` | the workspace document and its revision | commands on projects, tabs, panels; durable snapshots |
| Snapshot store | `src/shared/WorkspaceSnapshotStore.ts` | the client's workspace, the refresh in flight | refresh, apply event, awaited revision |
| Client connection | `packages/client-core/src/client.ts` | requests in flight, buffered events, revision watermark | request, subscribe, resynchronize |
| Terminal client | `packages/client-core/src/terminal.ts`, `terminalRecovery.ts` | attachments and stream positions | attach, render, acknowledge, recover after a gap |
| Terminal service | `packages/server-core/src/terminalService/*` | PTY sessions, retained output, checkpoints, leases | create, write, resize, attach, hydrate |
| Session holder | `packages/server-core/src/sessionHolder/*` | PTYs that outlive the server, output tails | adopt, reattach, discard |
| Schedule engine | `packages/server-core/src/scheduleEngine/*` | next due occurrence, one timer | arm, fire, coalesce, fan out |
| Automations | `packages/server-core/src/automationService/*` | definitions, run log, active runs | start, skip or queue, finish, recover |
| Durable files, migration | `packages/server-core/src/durableFile.ts`, `migration/runner.ts` | files and their backups | write, promote, recover |
| Data-root lease | `apps/terminay-server/src/dataRootLease.ts` | an exclusive SQLite transaction held by the process, a descriptive owner file | acquire, release |
| Bots | `packages/server-core/src/botService/*` | per-bot queue, environments | enqueue, run, follow up a failure |
| Remote access | `packages/server-core/src/remote/*`, `apps/terminay-server/src/remote/*` | exposures, pairings, devices, peers | expose, pair, authenticate, revoke |
| Extension host, files, git, recording, activity, notifications, MCP, macros, upgrade | `packages/server-core/src/...` | see `PROJECT.json` | |

Components interact in four ways: calls inside the server process (one event
loop, so a method without `await` is atomic), frames over a byte transport,
events in the journal that the connection turns into frames, and files that
survive a crash.

### What is hard here

* Every `await` gives the turn away: queues are superseded, collapsed and
  released while their head is in the transport.
* One writer serves three traffic classes, each with its own bound and its
  own way to lose data (fail, coalesce, skip) and to say so in band.
* Retries: a command may be sent again after a lost answer; a refresh may be
  overtaken by a newer revision; a terminal is re-attached after a gap.
* Processes outlive each other: shells survive the server that started them,
  the holder may die under a running server, snapshots survive a crash in the
  middle of a write.
* Several parties keep an account of one thing: a terminal is known to the
  holder, the terminal service, the workspace, its creator and the keeper, a run
  to the schedule engine, the scheduler, the executor and the run log.

### What makes each component correct

* Pump: no frame without a writer, the frame in the transport is never lost
  track of, byte counters agree with queues, bounds hold, a client's terminal
  stream is contiguous output ended by at most one exact skip, silence is always
  announced, lanes are not starved, failure settles every waiter.
* Dispatcher: one execution per command id, one outcome per retry.
* Journal, subscription and snapshot store: a client reaches the server's last
  revision without a hole, whatever is coalesced or resynchronized.
* Requests: every slot and byte taken is given back, each request is answered
  once, a request given up stops, teardown ends whatever handlers do.
* Workspace authority: every project is listed by exactly one view, what is
  derived from folders is current and shows every panel, and of a command whose
  own fields are well formed the reducer leaves only known mistakes to the
  validation behind it.
* Terminals, holder, restarts: every running shell is supervised in the project
  that records it, has one panel at most, and gets one or ends; a record says
  running only of what runs.
* Schedules and automations: an occurrence is run once or reported, two runs of
  one automation never overlap, the log and the shells agree with the runs as long
  as the server lives.
* Durable files: a crash at any step leaves a readable state.

## 2. Plan

Modules are written in the order of how much depends on them: what carries
every frame first, then requests and commands, then the state clients follow,
then what must survive a crash.

| Step | Modules | Question | State |
|---|---|---|---|
| 1 | `LaneScheduling`, `DeliveryScheduler`, `OutboundDelivery`, `OutboundScheduling`, `OutboundDelivery_proofs` | Is everything admitted to the pump delivered fairly, bounded, and contiguous? | done |
| 2 | `CommandLedger`, `CommandLedger_proofs` | Is a retried command executed once? | done |
| 3 | `ServerRequests`, `RequestPath` (composes it with the client's admission and two streams), `ServerRequests_proofs`, `RequestPath_proofs` | Is every request settled, also one its client gave up? | done |
| 4 | `WorkspaceSync`, `WorkspaceSync_proofs` | Does a client reach the server's workspace without a hole? | done for one subscription |
| 5 | `WorkspaceDocument`, `WorkspaceStore`, `WorkspaceStore_proofs` | Does any sequence of commands leave a workspace that shows everything it has once? | done |
| 6 | `TerminalPlaces`, `TerminalPlaces_proofs` (terminal service, holder, workspace, keeper) | Is each running terminal supervised, recorded and shown, also after restarts? | done |
| 7 | `AutomationRuns`, `AutomationRuns_proofs` (schedule engine, scheduler, executor, run log) | Is an occurrence run once, and does each run end once? | done |
| 8 | `TerminalStream` (PTY output, checkpoint, attachment, skip, `TerminalRecoveryController`) over the lanes of `OutboundDelivery` | Does a display that lost output always re-attach and converge? | open |
| 9 | `DurableFile` and the migration runner | Is a readable state left by a crash at every step? | open |
| 10 | `PresentationLease`, `BotQueue`, `FileSession`, approvals, pairing and hosted peers, extension host | | open |

Abstract specifications: `DeliveryScheduler` (what a writer of three traffic
classes promises) is stated and implemented by the pump.  Worth stating next: a
terminal stream (a display holds a prefix of the output, or knows that it does
not), an exactly-once executor for `CommandLedger`, a file that holds the old
contents or the new for `DurableFile`.

Theorems: every safety property that a passing run checks is proved, and so is
the refinement of `DeliveryScheduler` (section 6).  What the open steps add comes
next; the first is that a display of a `TerminalStream` holds a prefix of the
output, for which `PumpClientContiguous` is the half that is done.

## 3. The modules and the code

### The pump: `OutboundDelivery`

One action per public method and per answer of the transport.  A method of
`OutboundDeliveryPump` has no `await`, so it is one atomic step, the trailing
call of `start()` included (`Start`, `Resume`).  `drain()` gives the turn away
twice, at `waitForWritable` and at `send`; each settlement is one action
(`Writable`, `Accepted`, `Refused`, `Thrown`) that completes the delivery and
runs the loop up to its next `await` or out of it through `finally`.  A `drain()`
that throws is restarted by `finally` *before* the catch handler calls `fail()`:
`rejection` records that pending microtask and `DrainRejected` is its turn.

`controlQueue`, `stateOrder`/`stateLanes`, `terminalOrder`/`terminalLanes` are
the code's queue and maps, `*Bytes` its counters, `activeDelivery` the frame the
transport holds.  `client[l]` is a history variable: what the transport was
given for an attachment, from which `ClientContiguous` is judged.

Abstractions: a frame is a record of its class, lane, key or range and size;
the byte length of output is the length of its range (multi-byte frames
included).  The age of unconfirmed output is `none`, `recent` or `overdue`.
`controlRun` saturates at its limit, which is all the scheduler reads.
Diagnostics are left out.  A connection has finitely many lanes
(`LanesAssumption`).

`DeliveryScheduler` is the same writer with queues as lengths: which class and
which lane comes next, over `LaneScheduling`'s cursors, which both modules
share.  `OutboundScheduling` instantiates it over `OutboundDelivery` with a
refinement mapping.

### Commands: `CommandLedger`

`commandWithOutcome` runs without an `await` up to the handler or to the
completion of an earlier entry; that stretch is `Submit`, with one disjunct per
branch in the code's order (conflict, replay, wait, limit, execute).
`HandlerReturns`, `Cancel` and `DeadlinePasses` are the three parties to the
race in `invoke`; `WaitEnds` is a repeated request whose prior entry settled.
`handlers` are calls that have not returned, also those already answered for.
A request names a call; its contents (the fingerprint) are a constant of it.

### Requests: `ServerRequests` and `RequestPath`

`ServerRequests` is `ServerConnection` without events: the handshake with its
awaits (`HelloArrives` ... `HelloContinues`), the silence deadline, admission to
`MaxInFlight` handlers and to the FIFO, cancel frames, deadlines of queued and of
running requests, answers through the pump, and the ways down (`close`, a failed
pump, a failed open, the end of the transport, a refused handshake, silence).  A
handler returns, is interrupted, or never returns.  `finishRequest` and the
release of its slot are one action; frames other than a hello before the
handshake, event subscriptions and the routing of terminal output are left out.
`BytesOf`, the bytes a queue holds, is a recursive function, and `Place` is where
a request stands in the queue.

`RequestPath` EXTENDS it and adds the client: `RequestAdmission`,
`sendPreparedRequest`, the WebSocket transport (`Hand` gives a frame to the
socket, `SendAccepted` is its confirmation), two ordered streams, aborts before,
during and after the send, and the loss of the transport.  An abort before the
confirmation leaves the client's request `abandoned`: the code tells the server
nothing about it.  Correlation ids are fresh, as the client draws them; a cancel
frame finds room in the socket at once; the two sides see the transport end
together.  `ClientWithinServer` says that the client's limits are within the
server's.  Client deadlines and pings are not in this composition.

### The workspace on its way to a client: `WorkspaceSync`

The event journal with its window, the workspace's own delta window, the
activation of one subscription (resynchronize, replay, drain what was held
back), its state lane in the pump, the ordered frames of the transport, the
client's buffer before a listener is attached, and `WorkspaceSnapshotStore` with
its refresh loop: one action per turn between two awaits of `fetchAndPublish`,
`refreshUntilSettled` and `refresh`.  A workspace is the set of changes it holds
(`WorkspaceAt`); a projection carries a base, a revision and such a set, so a hole or
a rollback shows.

Abstractions: every commit is one workspace event, so a journal revision is a
workspace revision; the subscription starts from revision 0; event keys are
unique, so nothing coalesces; byte bounds are left out; a restarted server is a
journal whose first revision is the `base`. Queries fail within a budget;
answers that arrive late are told by their ticket. A frame's completion is
handled by the server before a request that the frame caused: true of socket
write callbacks, message ports and data channels. `Nothing` stands for the
code's `null` wherever one may be, so it is no projection, no request and no
frame's queue (`NothingAssumption`).

`status` is the reconciliation status the user is shown: a published answer makes
it `current`, and so does a record that is applied
(`WorkspaceSnapshotStore.ts:238,282-285`).  Two history variables record what no
code reads.  `abandoned`: a refresh failed and no query has been answered since,
whatever `status` says meanwhile.  `late`: a refresh was asked for more in its last
turn, between the last test of `refreshUntilSettled` and the turn that forgets the
refresh (`RefreshEnds`), and nothing was fetched since.  The client's reader may
handle a frame in that turn, because it takes a backlog one frame per promise turn
(`client.ts:406-418`), and so may a caller.

### The workspace document: `WorkspaceDocument` and `WorkspaceStore`

`WorkspaceDocument` is the reducer of `workspace.ts` as operators on a document
(views, projects, folders, panels, sessions): one operator per kind of command,
ended by the normalisation the code ends it with, so that a project's panel
list, its layout and its active panel are recomputed from its folders exactly
where `reduce` recomputes them. `WorkspaceStore` is the store around it: a
command is reduced on a draft, the draft is validated as a whole, and it
replaces the document or is thrown away, which `dropped` remembers, with the
command, until it is answered; any command of a client or of the host may follow
any other, and a server without a holder may start again. `filter` is
`Filtered`, a recursive function rather than an operator of the library that
takes a predicate, so that it can be proved about. Names, titles, colours,
notes, roots and shell profiles are left out, but for whether they are well
formed where the reducer leaves that to the validation (`ApplyWith`): the root's
origin of a created project, the note and metadata revision of a created
terminal panel, an updated metadata revision counted past the safe integers, the
direction and weight of a split. Left out too is the history of change records,
which `WorkspaceSync` models.

### The places of terminals: `TerminalPlaces`

`doc` is what matters of that document here: the open projects, each session's
record and how many panels show it.  `shell` is the holder's account, `term` the
terminal service's, `creating` what a creator has still to do, `unseen` the
live-panel keeper's, `ending` the held sessions the server has still to end.
A step is one turn between awaits:

* a creation asks the holder (`AskCreate`), is attached and placed; a client's
  placement runs in the turn of the attachment (`PlaceForClient`), a tool's in
  two (`AttachForTool`, `PlaceForTool`);
* a close reads the sessions it will end and kills them (`CloseBegin`), and is
  committed or refused later, when others may have moved or ended;
* an exit of a shell reaches the service when it reaches it (`Exit`, `DeliverExit`),
  and is committed, and so looked at by the keeper, even without a record to mark;
  the holder goes on listing the session until it is told to end it;
* the keeper looks after every commit, and acts a grace later (`GraceEnds`);
* the server dies (`Crash`), the holder dies (`HolderDies`); a start lists what the
  holder has, gives a shell without a record a panel in a new project or, where the
  workspace refuses the project or the panel, ends it, reconciles the records
  (`Reattach`), adopts one session at a time
  (`Adopt`) and gives a project without a terminal a new one (`Start`).

A supervised session is `late` when its exit came before its record, `lost` when
the holder died between listing it and its adoption.  In both cases the record
goes on saying running until the next start: `StaleRecords` says that these are
the only cases.  The comment at `sessionHolder/reattach.ts:11-13`, which promises
that every record ends adopted or marked, overlooks the second.  The server is the
standalone one; the desktop host reaches the same code with its own holder.  A
start that finds its saved workspace lost (`freshWorkspace`, `reattach.ts:68-74,96-123`)
and sessions that belong to another server are left out.
A client's `panel.create` for an existing session, which can show it twice,
belongs to `WorkspaceStore`.

### Automations: `AutomationRuns`

Four components in one module, because their properties join them.  The
schedule engine: the registration of a start (`reg`), passes one after another
(`pass`), reconciliation.  Passes are chained on one another but not on the
registration (`scheduleEngine/scheduler.ts:106-160,321-322`).  The bots' schedules,
registered first on the same engine (`composition.ts:2133`), may arm its timer
for any time, and `wake()` fires at any time (181-186): so a pass may begin at any
moment, also in the middle of the registration, and the timer itself is left out.
A pass comes to an entry (`FireEntry`; a registration, `RegisterEntry`), waits for
the report of what was missed, then for the mark that the automation was evaluated
(`MarkEvaluated`, `MarkRegistered`), then for the run it starts (`RunOccurrence`,
`Resolved`).  The scheduler: `inFlight`, and `Observed`, what it
does when the log tells it of a run.  The executor: `phase[r]`, one value per
await of `fire`, `startCommand` and `complete`.  The run log: `queue`, whose
writes are done one at a time (`WriteLog`); what waited for a write goes on in
the same action, and so do the log's observers.  `Crash` and `Restart` keep the
files and the shells: a run's shell belongs to the session holder
(`executor.ts:409`, `composition.ts:2521`) and runs on, also one whose kill was still
on its way; its run is `cut`, and no maximum duration applies to it any more.  The
start adopts it like any terminal (`TerminalPlaces`).

`struck` is a history variable, what a fault caught in the engine's hands: the
occurrence whose mark failed, and at a death (`Exposed`) the occurrence a pass
had marked but no record yet held, and the occurrences of a report still queued
by the registration that a pass had meanwhile marked past. The latter may be
several, so one death may lose more than one occurrence. `owed` is the other,
the occurrences that came due while the engine answered for their automation
(`Watched`). That is less than being enabled: an automation enabled while a
start still registers the others gets its entry when the registration ends, from
the time it ends (`registerSource` and `reconcile`,
`scheduleEngine/scheduler.ts:115-160`), and what came due in between is neither
run nor reported.

Abstractions: cron schedules and runs of commands only; the wait for the home
folder is part of the wait for the first record; passes asked for while one is
pending are one pass; the record of missed occurrences, a count
and a time in the code, is kept as the occurrences counted; the log drops no
entry and no write of it fails; the holder does not die (it does in
`TerminalPlaces`).  `MarkFails` is a failed save of the definitions.

## 4. The runs

| Run | What it checks | What it shows |
|---|---|---|
| `scheduler_lanes` | `ClassesServed`, `ReleaseFinishes` | With two lanes of each kind and unlimited traffic nothing starves, subject to the priority of state over terminals. |
| `scheduler_three_terminals` | `TerminalServed`, violated | With three attachments the cursor, reduced modulo the number of lanes ready *now*, can pass one of them over for ever (finding). |
| `pump_terminal` | `QueuesBounded`, `NeverStalled`, `ClientContiguous`, `SilenceIsAnnounced`, `FailureSettles` | One attachment and two state lanes in full detail, under any interleaving of output, gaps, acknowledgements, ageing, release, re-opening, notices and transport answers: each limit on queued frames and bytes holds but for one marker per silenced lane, those of state lanes added up. |
| `pump_mixed` | `ByteAccounting`, `InFlightHeadsItsQueue`, `ImplementsScheduler` | The three classes together, and the refinement of the abstract scheduler. |
| `command_ledger` | `PendingIsExecuting`, `ExecutingRetained`, `NoOverlap`, `AnswersAreOwn` | Nothing executing is forgotten; two handlers of one command overlap only after the first was answered for by a cancel or a deadline. |
| `connection` | `SlotsCounted`, `WorkConserving`, `AnsweredOnce`, `TeardownStopsWork`; liveness: `TeardownEnds`, `SettledWithoutSlot` | No slot leaks, each request is answered once, a torn-down connection ends, deadlines, cancels and pings do not need a slot. |
| `path` | `UnsentNeverArrives`, `AdmissionExact`, `AbortedWorkStops` | A request reported unsent never runs; a client that keeps to its admission never meets the server's ceiling, and nothing waits that fits; work given up after its send was confirmed stops. |
| `workspace_sync` | `NoHole`, `NeverBack`, `SettledIsCurrent` | The projection is always a workspace the server had, never goes back, and ends current and shown as current, unless a refresh failed and no query was answered since, or was asked for more in its last turn. |
| `workspace_document` | `ProjectsListedOnce`, `DerivedCurrent`, `LayoutsShowAll`, `OnlyKnownDrops` | After any sequence of commands every project is listed once, what is derived is current and shows every panel, and of commands whose own fields are well formed the final validation refuses only what it is known to be needed for. |
| `terminal_places` | `HomesAgree`, `OnePanelEach`, `NoShellLost`, `StaleRecords`, `RunningIsShown` | However creations, moves, closes, exits, the keeper and deaths of server and holder interleave, a running terminal is supervised where it is recorded, has one panel at most, and gets one or ends. |
| `terminal_after_close` | `NoPanelAfterClose`, violated | A terminal whose project is closed while its shell is starting brings the project back, with a panel (finding). |
| `automation_runs` | `LossNeedsFault`, `OccurrenceOnce`, `LogTellsRuns`, `ShellsHaveRuns`, `InFlightExact` | No occurrence is run twice; one is passed over only where a fault caught it in the engine's hands, also when passes run in the middle of a registration; while the server lives the log, the shells and the scheduler agree about what is running, and a shell that a death left behind has a log entry that is over. |

Two findings are quoted with their lines in `PROJECT.json`: the starvation of a
terminal lane, and the terminal that survives its project.  Both contradict the
specifications under `openspec/`.

Five statements that a document makes, or a reader would expect, do not hold
either.  Each has a configuration beside the runs that reproduces the
counterexample:

* `PathSendCallback.cfg` (`MCRequestPath`): a request aborted between
  `socket.send` and its callback is rejected at the client and runs on at the
  server (`AbandonedWorkStops`; `client-core/src/webSocketByteTransport.ts:199`
  against `openspec/specs/server-runtime-and-protocol/spec.md:1001`).
* `WorkspaceLastTurn.cfg` (`WorkspaceSync`): an event handled in the last turn of
  a refresh is recorded for a refresh that will not look; the projection stays
  one event behind until the next one (`RefreshServes`).
* `WorkspaceStatus.cfg` (`WorkspaceSync`): a resynchronization whose refresh failed
  is followed by an event that extends the old projection; applying it shows the
  workspace as `current`, although what the resynchronization stood for was never
  fetched (`StatusTells`; `WorkspaceSnapshotStore.ts:238,282-285`).
* `AutomationsLimit.cfg` (`MCAutomationRuns`): two starts pass the limit on
  concurrent runs, since a run enters the executor's map only after its first
  record is written (`RunsBounded`; `executor.ts:306` against
  `openspec/specs/automations/spec.md:163`).
* `AutomationsShell.cfg` (`MCAutomationRuns`): after a death of the server the shell
  of a run that was cut runs on without a longest duration (`ShellsTimed`;
  `runLog.ts:421` against `openspec/specs/automations/spec.md:135`, "a run that
  exceeds it SHALL be stopped").  What starts next may overlap it.

A sixth disagreement needs no run: `congestTerminalLane` fails the pump when a
skip marker does not fit under the connection's ceiling
(`outboundDelivery.ts:758-767`), although
`openspec/specs/server-runtime-and-protocol/spec.md:625` says that the congestion
of a terminal lane does not close the connection.  `QueuesBounded` says that the
ceiling holds, not that congestion is harmless: in that case it holds because the
pump fails.

## 5. Bounds and fairness

**Pump.**  `pump_terminal`: one attachment and two subscriptions, positions to 3
with chunks of one or two bytes, room for two frames and two bytes on a lane, two
bytes on all state lanes, three under the connection's ceiling, two unconfirmed:
enough to fill each bound separately, to have both state lanes hold a marker while
the class is full, to collapse while the head is in the transport, and to continue
after.  A client may acknowledge any position between the confirmed and the head.  `pump_mixed`: one subscription with one key (superseding its
own frame while a copy is in the transport), two attachments, one control
frame; the attachments are symmetric, and nothing temporal beyond a
safety refinement is checked there.  `scheduler_lanes`: two lanes per class and
two frames per lane, the least for which lanes leave and re-enter the round.

**Ledger.**  Six calls: a command three times on one connection and once with
other contents under its id, two more commands to push it out of an outcome
list of two, one call on a second connection where there is room for one ledger.

**Requests.**  One handler slot, room for two queued requests, three requests
of which two share a correlation id and one is larger than the queue, one ping.
`path`: three requests, two of them large, over room for two requests and three
bytes.  The client's limit on outstanding requests must not exceed the server's
FIFO: 128 and 256 in the code, 2 and 2 in the run, the boundary case.

**Workspace sync.**  Four revisions against a journal of two, a delta window of
one, a lane of two frames and a buffer of two: journal, delta window, lane and
buffer each overflow, singly and together.  One caller of `waitForSnapshot`, one
failing query.  Revisions are the bound that ends a run.  `WorkspaceStatus.cfg`
needs seven revisions: a refresh has to fail before the next event arrives.

**Workspace document.**  Two views, two projects, three folders (General of
each and one more), two panels, two sessions, and at most six views, folders and panels at once: a
project closed with panels of a second folder, a folder emptied, a panel moved
between projects, and the automation space at its limit of one.  Names are
symmetric; only invariants are checked there.

**Terminals.**  Two sessions, two projects open at the start, and two deaths of
the server or the holder, each of which may need a recovery project.  One close
command is between its kills and its commit at a time.  A session id is issued
once; a start seeds projects while ids remain.

**Automations.**  Three times; one automation due at 1 and 2, one at 1 only, so
that two come due in one pass and one has an occurrence behind another; no
tolerance, so that a pass a tick late reports what it would have run; two
runs under a limit of one, one of them a user's; one automation enabled or
disabled, one death or failed save, at any step, the server down at first so that
the first registration may find what came due.

**Fairness.**  Only what the event loop and the transports guarantee: the
transport settles every frame it holds and a rejected promise reaches its
handler (`DeliveryScheduler`, `OutboundDelivery`); an armed timer fires, a
settled promise resumes, the pump settles each answer (`ServerRequests`); frames
handed over arrive in order and sockets confirm (`RequestPath`); a creator is
answered, a signalled shell ends, the keeper's timer fires and a server that was
started finishes its start (`TerminalPlaces`).  All of it is weak.  Nothing is
assumed of producers, of callers, of handlers (one may never return), of
acknowledgements, nor that a shell nobody signals ends, that an exit is
delivered or a held session is ended, or that anybody closes anything.  The other
specifications state safety only; states of rest are described by
predicates (`Quiet` of `WorkspaceSync`).

Deadlock checking is off in the runs whose system may stop: a failed or
closed pump, a settled set of requests, a closed connection, a last revision, a
last time, sessions all ended.

## 6. Proofs

`OutboundDelivery_proofs` proves, for every value of the constants that meets
`LimitsAssumption` and `FramesAssumption`:

* `PumpInvariant`: `Spec => []Inv`, where `Inv == TypeOK /\ StreamInv /\ Running`;
* `PumpTypeOK`, `PumpNeverStalled`, `PumpClientContiguous`, its consequences.

`ClientContiguous` says that no client was sent a frame that does not continue
what it has.  That is not inductive: whether the next frame continues depends on
the queue behind it, on where a collapsed queue resumes, and on the frame in the
transport when its lane was collapsed or released.  `StreamInv` says so: the
frames of a lane form a chain from `sent` to `head` with a skip only at the end
(`Chain`), the client stands at `sent` (`AtSent`), and the frame in the transport
continues what its client has and heads its lane until the pump fails
(`ActiveContinues`).  `Running` ties `drain()` to the queues: idle exactly when
nothing is queued, in flight or waited for.

Each action has a lemma that it preserves `Inv`; below them are lemmas on the
lane order and the cursors (`InsertLaneType`, `DeleteLaneType`,
`AdvanceCursorType`), on `Resume` and `Start`, and on what appending to,
collapsing and shortening a lane do to its chain (`AppendOutputChain`,
`CongestedChain`, `SentChain`).  `NextInv` puts the actions together.

Its second part is about the queues and proves, under the same assumptions and
`LanesAssumption`:

* `PumpQueuesInvariant`, and from it `PumpInFlightHeadsItsQueue` and
  `PumpSilenceIsAnnounced`;
* `PumpStateTogether`, the bound on all state lanes together, and from the two
  `PumpQueuesBounded`;
* `PumpImplementsScheduler`, the refinement of `DeliveryScheduler`;
* `PumpByteAccounting`.

A limit is checked against a byte counter that every operation adjusts, so the
counter must be what is queued before a bound on it means anything. `QueuesInv`
says so without a sum: a lane's counter is the last value of a function of
prefix sums over its frames, which appending, dropping the head and collapsing
change in plain sight. That this value is the fold `Size` of the queue is a
lemma proved from a minimal counterexample, and so is what adding, dropping and
changing one lane does to a sum over the lanes of a class, so that
`ByteAccounting` needs no induction principle. What all state lanes hold
together may exceed its limit by one marker for each lane silenced at the moment
(`StateTogether`): a lane goes silent by adding its marker whatever the others
hold, and speaks again by having it sent. The refinement needs one fact more: a
pump that failed holds nothing (`FailedEmpty`). Each action is then one step of
the scheduler or none: queues are read as lengths, the frame in the transport is
the scheduler's, and what bytes, awaits and ageing do between is a stutter.

`CommandLedger_proofs` proves, for every finite set of requests and every value
of the constants that meets `RequestsAssumption`, `NoneAssumption` and
`LimitsAssumption`:

* `LedgerInvariant`: `Spec => []Inv`, which includes type correctness and bounds;
* `LedgerPendingIsExecuting`, `LedgerExecutingRetained`, `LedgerNoOverlap`,
  `LedgerAnswersAreOwn`, its consequences.

The four properties need each other.  A ledger is retired because its count is zero, so
`ExecutingRetained` needs `PendingIsExecuting`; a command is executed because it
has no entry, so that no two calls execute one command (`OneExecutes`) needs
`ExecutingRetained`; an entry makes room because it has an outcome, so an
executing one must have none, and a handler that outlives its answer must have
been interrupted (`OutcomesFollow`).  `OwnersAreOwn` and `WaitsForOwn` carry the
identity of a command through entries and waiting calls to `AnswersAreOwn`.
`OpenLedgerOK` and `RecordedOK` say what opening a ledger and recording an entry
keep; `AnsweredInv` and `SettledInv` cover the steps that answer a call without,
and with, an outcome of its own.  The oldest idle ledger and the oldest settled
entry are minima of sets of positions; that they exist (`LeastExists`) follows
from the well-foundedness of strict inclusion on finite sets.

`ServerRequests_proofs` proves, for any requests and limits, `ConnectionInvariant`
and from it `ConnectionSlotsCounted`, `ConnectionWorkConserving`,
`ConnectionAnsweredOnce` and `ConnectionTeardownStopsWork`.  A counter agrees with
a set only if each step that changes the one changes the other by the same, so
`RequestsInv` relates them one request at a time: a request stands in the queue once
if it is queued and never otherwise (`Place`), the slots in use are the requests in
a phase that occupies one, `queuedBytes` is the sum over the queue, and two
requests held at once have different ids.  That a torn-down connection stays quiet
although a late handshake opens it again rests on the order of a close: every way
down aborts what is in flight first, and before the handshake is over there is
nothing to abort.

`RequestPath_proofs` EXTENDS it, for a client whose limits are within the server's:
`PathInvariant`, `PathUnsentNeverArrives` and `PathAdmissionExact`.  The server's
half of the invariant is `RequestsInv` as it stands, for the server of the path takes
the steps of `ServerRequests` only.  The other half is what the two sides
know of one request: at most one frame of it is on its way, ahead of its cancel
frame, and what was answered is settled.  That the server's FIFO is never full is
then a bound that holds *when a frame is read* (`Load`): the requests the server may
still have to hold were all outstanding on the client when that frame was handed
over.

`WorkspaceSync_proofs` proves, for every window, bound and number of failures,
`SyncInvariant`, `SyncNoHole` and `SyncNeverBack`.  A projection is replaced by
whichever answer carries the ticket of the last query, so `SyncInv` follows the
ticket: at most one such answer is on its way, it continues the projection held,
and the fetch that waits for it started from that projection.  A second invariant,
`CurrentOK`, is about what is still to happen, and gives `SyncSettledIsCurrent` of every
behaviour: the
server's last revision is held, or its event or an answer that brings it is under
way or awaited, or the store will fetch again; and while events are being dropped
there is a notice, in the lane, on the wire or heard, that makes it fetch.  Two more
say what excuses there may be: `StatusOK` ties the status shown to the loop and to
`abandoned`, and `DebtOK` says that a refresh which is over leaves something to be
fetched only if it was asked for in its last turn (`late`).
`SyncCurrentInvariant` is the four together.  Where the two excuses occur,
`WorkspaceLastTurn.cfg` and `WorkspaceStatus.cfg` show that no more can be said.

`TerminalPlaces_proofs` proves, for any sessions, projects and number of faults
that meet `PlacesAssumption`, `PlacesInvariant` and from it `PlacesHomesAgree`,
`PlacesOnePanelEach`, `PlacesNoShellLost` and `PlacesStaleRecords`.  None of the four
is inductive.  A panel may be given because the giver found none, so one panel
each needs to know who may still give one: a creator that has not placed its
terminal, the keeper, a restart.  A shell is not lost because of what the
server's phase says: while it is down nothing is supervised, while it
reattaches exactly the sessions in `adopting` are still to come.  The invariant
`PlacesInv` is therefore an account of every session on its own (`Account`):
what its shell, its supervision, its creation, its record and its panels may say
together, with `Phases` for what a server that is down or reattaching holds.
Each action has a lemma; the steps that commit a document share the lemmas
on what the document operators keep, and the restart has one per case of a session.

`AutomationRuns_proofs` proves, for any automations, schedules, runs and number
of faults that meet `AutomationAssumption`, `RunsInvariant` and from it
`RunsLogTellsRuns`, `RunsShellsHaveRuns` and `RunsInFlightExact`.  The log
changes when a queued write is done, not when the run does, so the invariant
says what each queued write is for (`QueueOK`): of a run at most one write is
queued, and it is the one the run's phase waits for; a report of missed
occurrences is queued only while the pass waits for it.  Then the log follows
the phases (`Logged`), and the scheduler's memory is settled by whichever comes
second, the end of a run or the answer to its start (`Justified`).  `AppendOK` and
`TailOK` say what asking for a write and doing one keep of the queue; `PassStep`
covers every step of the engine that leaves the runs alone.

It also proves `HistoryInvariant`, and from it `RunsOccurrenceOnce` and
`RunsLossNeedsFault`. `HistoryInv` says where an occurrence is: still to come,
in the hands of the pass, reported or run, or struck by a fault; and that what a
registration has still to report and what a pass may come to are never the same
occurrence, although the two run side by side, since each leaves the entry
beyond what it took and a mark only ever grows. The proof attempt corrected the
property: with `enabled` in the place of `Watched` it is false, for the reason
given in section 3.

`WorkspaceStore_proofs` proves, for any views, projects, folders, panels, sessions
and worktrees that meet `DocumentAssumption` and `StoreAssumption`, `SpecInv` and
from it `SpecListedOnce`, `SpecDerivedCurrent`, `SpecLayoutsShowAll` and
`SpecOnlyKnownDrops`.  A project's panel list, layout and active panel are copies,
so a command disturbs the invariant in the middle and repairs it at its end.
`Sound` is therefore in two halves: `Placed` is what a draft satisfies before
`syncProject()` (orders and their owners point at each other, a folder shows its
panels in one of two shapes, creators, offers and sessions name what exists), and
`Derived` is what each project copies.  A command is proved `Sound` by describing
its draft before the copies are made, showing `Placed` of it and that the projects
it leaves alone copy nothing that changed (`OthersStay`), and citing `SyncDerives`
for the one it syncs.  `discardStaleTerminalState`, which syncs any number of
projects, has that argument for each of them.

The validation is not trusted for what the reducer does by itself: `SoundValid`
says that a sound draft passes it, so for all commands but five the proof is
that the draft is sound, and the command cannot be dropped, unless a field of
its own is not well formed. For the five that `OnlyKnownDrops` names the
reducer's own checks are too weak, and there the validity of the draft supplies
the hypothesis that is missing: no two folders of a project share a worktree
(`folder.create`, `folder.link.update`), the session is of the panel's project
(`panel.update`), no other panel shows the session that goes or moves with this
one (`panel.close`, `panel.move`). That the last two are dropped for no other
reason is the second half of `OnlyKnownDrops`. `StoreAssumption` says that
`None` is no command's name; the bound `MaxObjects` plays no part.

Sums, cardinalities, filters and other recursive functions are within reach: one
over the numbers or the finite subsets of a set is unfolded at a minimal
counterexample, which the well-foundedness of strict inclusion supplies, and no
induction theorem is needed.  What the library's `FlattenSeq` returns is proved
that way too, from its recursive definition.

Only model-checked: all liveness (`ClassesServed`, `ReleaseFinishes`,
`FailureSettles`, `TeardownEnds`, `SettledWithoutSlot`, `AbortedWorkStops`,
`RunningIsShown`), which is out of the prover's reach.  The five statements that do
not hold but have a configuration, and the two findings, are runs by nature.

## 7. Not modelled

`PROJECT.json` gives each component's reason.  Four kinds: open steps of the plan
(section 2); components whose difficulty is the file system, child processes or
cryptography, which a model would have to invent (durable files, recordings,
file and git services, the extension host, upgrades, pairing); adapters whose
state is another component's (the MCP server, the command-line tool, the local
UI server, the desktop host, React components); and pure conversions (codecs,
cron).  Mutual exclusion on a data root is the kernel's: an exclusive SQLite
transaction held open by the process.  Of the components that are modelled, what
is left out is named in section 3 and in the component's note.  Four hazards
have no property that holds and a note that says why: the skip marker that does not
fit, the limit on concurrent runs, the count of suppressed events, and a run log that
cannot be written.
