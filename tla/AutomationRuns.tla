--------------------------- MODULE AutomationRuns ---------------------------
(***************************************************************************)
(* Scheduled automations.  The schedule engine keeps an entry with the     *)
(* next occurrence of each automation.  When the server starts, a          *)
(* registration reports what came due while it was down and makes the      *)
(* entries; from then on passes over the entries report what came due too  *)
(* late, save how far each automation was evaluated, and hand the          *)
(* occurrence in time to the automation scheduler, which has the executor  *)
(* start a run and lets none overlap the one before.  A run is recorded in *)
(* the run log, given a terminal, and recorded again at its end.  Each of  *)
(* these steps waits for a file, a shell or another run; the server may    *)
(* die at any of them (packages/server-core: scheduleEngine/scheduler.ts,  *)
(* automationService/).                                                    *)
(*                                                                         *)
(* Passes follow one another, but nothing keeps them from running while    *)
(* the registration is under way.  The engine's timer is shared with the   *)
(* bots' schedules, whose entries and registration may arm it for any      *)
(* time, and the host may be resumed at any time: so a pass may begin at   *)
(* any moment, and the timer itself is left out.                           *)
(*                                                                         *)
(* Modelled are command runs, of cron schedules and of users.  The log     *)
(* drops no entry here, and the record of missed occurrences, a count and  *)
(* a time, is kept as the occurrences that were counted.                   *)
(***************************************************************************)
EXTENDS Integers, FiniteSets, Sequences

CONSTANTS Automation,
          Times,          \* [Automation -> set of times]: its occurrences
          MaxTime,        \* bound: the last time
          Tolerance,      \* how late an occurrence may still be run
          Run,            \* run ids, issued in order
          MaxConcurrent,  \* AUTOMATION_MAX_CONCURRENT_RUNS
          MaxUserRuns,    \* bound: runs asked for by users
          MaxEdits,       \* bound: automations enabled or disabled
          MaxFaults,      \* bound: deaths of the server, failed writes
          None

ASSUME AutomationAssumption ==
  /\ Times \in [Automation -> SUBSET (1..MaxTime)]
  /\ Run \subseteq Nat /\ None \notin Run \cup Automation
  /\ {MaxTime, Tolerance, MaxConcurrent, MaxUserRuns, MaxEdits, MaxFaults}
       \subseteq Nat

VARIABLES
  now, up,
  enabled, evaluated,    \* the definitions, and how far each was evaluated
  nextDue,               \* the engine's entries: the next occurrence, or Never
  reg,                   \* the registration under way, or NoRegistration
  pass,                  \* the pass under way, or NoPass
  inFlight,              \* the scheduler: the run of an automation, or None
  phase, auto, occurrence, stopped, session,  \* runs and their shells
  log, missed, queue,    \* the run log's file, and the writes to it
  owed,                  \* history: occurrences that came due while watched
  struck,                \* history: occurrences a fault caught in the engine's hands
  edits, faults

engine == <<nextDue, reg, pass>>
runs == <<phase, auto, occurrence, stopped, session>>
runLog == <<log, missed, queue>>
definitions == <<enabled, evaluated, owed, edits>>
faulty == <<struck, faults>>
vars == <<now, up, definitions, engine, inFlight, runs, runLog, faulty>>

Never == MaxTime + 1
NoPass == [kind |-> "none", now |-> 0, todo |-> {}, at |-> None, stage |-> "idle",
           late |-> {}, latest |-> 0, active |-> FALSE, run |-> None]
NoRegistration == [on |-> FALSE, now |-> 0, todo |-> {},
                   from |-> [a \in Automation |-> 0],
                   at |-> None, stage |-> "idle", late |-> {}]

Least(S) == CHOOSE t \in S : \A other \in S : t <= other
Greatest(S) == CHOOSE t \in S : \A other \in S : other <= t
Later(x, y) == IF x < y THEN y ELSE x

NextAfter(a, time) == Least({t \in Times[a] : t > time} \cup {Never})

-----------------------------------------------------------------------------
(* The run log: its writes are queued, and what waits for one goes on when the
   file holds it. *)

EntryWrite(what, r) ==
  [what |-> what, run |-> r, auto |-> auto'[r], times |-> {}, by |-> "run"]
MissedWrite(a, times, by) ==
  [what |-> "missed", run |-> None, auto |-> a, times |-> times, by |-> by]

Enqueue(write) == queue' = Append(queue, write) /\ UNCHANGED <<log, missed>>

EntryDone(p) == [p EXCEPT !.at = None, !.stage = "idle", !.late = {}, !.latest = 0,
                          !.active = FALSE, !.run = None]

Registered(g) == [g EXCEPT !.at = None, !.stage = "idle", !.late = {}]

(* observeRun: told of every entry written. *)
Observed(write) ==
  [a \in Automation |->
     IF inFlight[a] = write.run /\ pass.run # write.run /\ write.what # "running"
     THEN None ELSE inFlight[a]]

Written(r) ==
  CASE phase[r] = "recording" -> "starting"
    [] phase[r] = "updating"  -> "live"
    [] OTHER -> "ended"

Killed(r) == IF session[r] = "alive" THEN [session EXCEPT ![r] = "dying"] ELSE session

(* The registration marks what it reported; a pass only an entry that is still
   the engine's. *)
WriteMissed(write) ==
  /\ missed' = [missed EXCEPT ![write.auto] =
       [t \in 1..MaxTime |-> IF t \in write.times THEN @[t] + 1 ELSE @[t]]]
  /\ \/ /\ write.by = "reg"
        /\ reg' = [reg EXCEPT !.stage = "mark"] /\ UNCHANGED pass
     \/ /\ write.by = "pass"
        /\ pass' = IF pass.active THEN [pass EXCEPT !.stage = "mark"] ELSE EntryDone(pass)
        /\ UNCHANGED reg
  /\ UNCHANGED <<log, inFlight, runs>>

WriteEntry(write) ==
  LET r == write.run IN
  /\ log' = [log EXCEPT ![r] = write.what]
  /\ phase' = [phase EXCEPT ![r] = Written(r)]
  /\ session' = IF phase[r] = "updating" /\ stopped[r] THEN Killed(r) ELSE session
  /\ inFlight' = Observed(write)
  /\ UNCHANGED <<missed, pass, reg, auto, occurrence, stopped>>

WriteLog ==
  /\ up /\ queue # <<>>
  /\ queue' = Tail(queue)
  /\ LET write == Head(queue) IN
       IF write.what = "missed" THEN WriteMissed(write) ELSE WriteEntry(write)
  /\ UNCHANGED <<now, up, definitions, nextDue, faulty>>

-----------------------------------------------------------------------------
(* The executor. *)

(* Its running map: entered after the first record, left before the last. *)
Running == {r \in Run : phase[r] \in {"starting", "updating", "live"}}

IsRunning(a) == \E r \in Running : auto[r] = a

Unissued == {r \in Run : phase[r] = "none"}
IsNextRun(r) == r \in Unissued /\ \A other \in Unissued : r <= other

(* fire, for an occurrence, or for a user where the occurrence is 0: refused
   by the executor's own rules, or without a home folder or a place in the
   automation space, or begun.  The home folder is waited for with the record. *)
Fire(a, time, r) ==
  LET allowed == /\ time # 0 => ~ IsRunning(a)
                 /\ Cardinality(Running) < MaxConcurrent
  IN /\ auto' = [auto EXCEPT ![r] = a]
     /\ occurrence' = [occurrence EXCEPT ![r] = time]
     /\ \/ /\ phase' = [phase EXCEPT ![r] = "skipping"]
           /\ Enqueue(EntryWrite("skipped", r))
        \/ /\ allowed
           /\ phase' = [phase EXCEPT ![r] = "recording"]
           /\ Enqueue(EntryWrite("running", r))
     /\ UNCHANGED <<stopped, session>>

RunNow(a) ==
  /\ up
  /\ Cardinality({r \in Run : auto[r] # None /\ occurrence[r] = 0}) < MaxUserRuns
  /\ \E r \in Run : IsNextRun(r) /\ Fire(a, 0, r)
  /\ UNCHANGED <<now, up, definitions, engine, inFlight, faulty>>

Goto(r, from, to) == phase[r] = from /\ phase' = [phase EXCEPT ![r] = to]

(* complete: while the start is still awaited, "failing".  The run object goes,
   its stop with it. *)
Complete(r, from, to) ==
  /\ Goto(r, from, to)
  /\ stopped' = [stopped EXCEPT ![r] = FALSE]
  /\ UNCHANGED <<auto, occurrence>>
  /\ Enqueue(EntryWrite("finished", r))
  /\ UNCHANGED <<now, up, definitions, engine, inFlight, faulty>>

(* The shell runs and has its panel; the record is given its session. *)
Spawn(r) ==
  /\ up /\ Goto(r, "starting", "updating")
  /\ session' = [session EXCEPT ![r] = "alive"]
  /\ UNCHANGED <<auto, occurrence, stopped>>
  /\ Enqueue(EntryWrite("running", r))
  /\ UNCHANGED <<now, up, definitions, engine, inFlight, faulty>>

(* Mutant: the shell of a refused panel is left running. *)
SpawnFailsAlive(r) ==
  /\ up /\ Complete(r, "starting", "failing")
  /\ session' \in {session, [session EXCEPT ![r] = "alive"]}

(* The launch fails; or the panel is refused, and the shell is killed. *)
SpawnFails(r) ==
  /\ up /\ Complete(r, "starting", "failing")
  /\ session' \in {session, [session EXCEPT ![r] = "dying"]}

(* Its longest duration has passed. *)
TimeOut(r) ==
  /\ up /\ phase[r] = "live" /\ session[r] = "alive"
  /\ session' = Killed(r)
  /\ UNCHANGED <<now, up, definitions, engine, inFlight, phase, auto, occurrence,
                 stopped, runLog, faulty>>

(* Before the session is known, only noted. *)
Stop(r) ==
  /\ up /\ r \in Running /\ ~ stopped[r]
  /\ stopped' = [stopped EXCEPT ![r] = TRUE]
  /\ session' = Killed(r)
  /\ UNCHANGED <<now, up, definitions, engine, inFlight, phase, auto, occurrence,
                 runLog, faulty>>

ShellExits(r) ==
  /\ session[r] \in {"alive", "dying"}
  /\ session' = [session EXCEPT ![r] = "over"]
  /\ UNCHANGED <<now, up, definitions, engine, inFlight, phase, auto, occurrence,
                 stopped, runLog, faulty>>

(* commandExited, once the start is over *)
CommandExited(r) ==
  /\ up /\ session[r] = "over"
  /\ Complete(r, "live", "finishing")
  /\ UNCHANGED session

-----------------------------------------------------------------------------
(* The engine. *)

(* A pass has one time.  The bots' entries come first in it; the entries of the
   automations are those there are when it comes to them, and of these it stops
   at the ones that are due. *)
PassBegins ==
  /\ up /\ pass = NoPass
  /\ pass' = [NoPass EXCEPT !.kind = "begun", !.now = now]
  /\ UNCHANGED <<now, up, definitions, nextDue, reg, inFlight, runs, runLog, faulty>>

PassComes ==
  /\ up /\ pass.kind = "begun"
  /\ pass' = [pass EXCEPT !.kind = "fire",
                          !.todo = {a \in Automation : nextDue[a] <= pass.now}]
  /\ UNCHANGED <<now, up, definitions, nextDue, reg, inFlight, runs, runLog, faulty>>

Enter(a, late, latest) ==
  /\ pass' = [pass EXCEPT !.todo = @ \ {a}, !.at = a, !.active = TRUE,
                          !.late = late, !.latest = latest,
                          !.stage = IF late = {} THEN "mark" ELSE "missed"]
  /\ IF late = {} THEN UNCHANGED runLog ELSE Enqueue(MissedWrite(a, late, "pass"))

(* Mutant: the occurrences before the last are forgotten. *)
FireLatestOnly(a) ==
  /\ up /\ pass.kind = "fire" /\ pass.at = None /\ a \in pass.todo
  /\ LET latest == Greatest({t \in Times[a] : nextDue[a] <= t /\ t <= pass.now}) IN
       IF pass.now - latest <= Tolerance
       THEN Enter(a, {}, latest) ELSE Enter(a, {latest}, 0)
  /\ nextDue' = [nextDue EXCEPT ![a] = NextAfter(a, pass.now)]
  /\ UNCHANGED <<now, up, definitions, reg, inFlight, runs, faulty>>

(* Of the occurrences that came due the last is run, if it is not late. *)
FireEntry(a) ==
  /\ up /\ pass.kind = "fire" /\ pass.at = None /\ a \in pass.todo
  /\ LET due == {t \in Times[a] : nextDue[a] <= t /\ t <= pass.now}
         latest == Greatest(due) IN
       IF pass.now - latest <= Tolerance
       THEN Enter(a, due \ {latest}, latest)
       ELSE Enter(a, due, 0)
  /\ nextDue' = [nextDue EXCEPT ![a] = NextAfter(a, pass.now)]
  /\ UNCHANGED <<now, up, definitions, reg, inFlight, runs, faulty>>

AfterMark(p) == IF p.latest # 0 THEN [p EXCEPT !.stage = "due"] ELSE EntryDone(p)

(* Mutant: evaluated up to the occurrence, not through it. *)
MarkBefore ==
  /\ up /\ pass.stage = "mark"
  /\ evaluated' = [evaluated EXCEPT ![pass.at] = Later(@, pass.now - 1)]
  /\ pass' = AfterMark(pass)
  /\ UNCHANGED <<now, up, enabled, owed, edits, nextDue, reg, inFlight, runs, runLog,
                 faulty>>

MarkEvaluated ==
  /\ up /\ pass.stage = "mark"
  /\ evaluated' = [evaluated EXCEPT ![pass.at] = Later(@, pass.now)]
  /\ pass' = AfterMark(pass)
  /\ UNCHANGED <<now, up, enabled, owed, edits, nextDue, reg, inFlight, runs, runLog,
                 faulty>>

(* The engine reports the failed write and goes on without the occurrence. *)
MarkFails ==
  /\ up /\ pass.stage = "mark" /\ faults < MaxFaults
  /\ faults' = faults + 1
  /\ struck' = struck \cup {<<pass.at, pass.latest>>}
  /\ pass' = EntryDone(pass)
  /\ UNCHANGED <<now, up, definitions, nextDue, reg, inFlight, runs, runLog>>

SkipOccurrence(a, r) ==
  /\ auto' = [auto EXCEPT ![r] = a]
  /\ occurrence' = [occurrence EXCEPT ![r] = pass.latest]
  /\ phase' = [phase EXCEPT ![r] = "skipping"]
  /\ Enqueue(EntryWrite("skipped", r))
  /\ UNCHANGED <<stopped, session, inFlight>>

(* onDue finds the automation as it is now: an entry outlives its automation's
   being disabled while the engine registers. *)
MayRun == pass.active /\ enabled[pass.at]

(* runOccurrence: the scheduler allows one run of an automation at a time. *)
RunOccurrence ==
  /\ up /\ pass.stage = "due" /\ MayRun
  /\ \E r \in Run :
       /\ IsNextRun(r)
       /\ pass' = [pass EXCEPT !.stage = "run", !.run = r]
       /\ IF inFlight[pass.at] # None
          THEN SkipOccurrence(pass.at, r)
          ELSE /\ Fire(pass.at, pass.latest, r)
               /\ inFlight' = [inFlight EXCEPT ![pass.at] = r]
  /\ UNCHANGED <<now, up, definitions, nextDue, reg, faulty>>

(* Its automation was disabled or changed meanwhile. *)
DropOccurrence ==
  /\ up /\ pass.stage = "due" /\ ~ MayRun
  /\ pass' = EntryDone(pass)
  /\ UNCHANGED <<now, up, definitions, nextDue, reg, inFlight, runs, runLog, faulty>>

(* Mutant: the end of a run may have been written before. *)
ResolvedUnchecked ==
  /\ up /\ pass.stage = "run"
  /\ phase[pass.run] \in {"live", "finishing", "ended"}
  /\ pass' = EntryDone(pass)
  /\ UNCHANGED <<now, up, definitions, nextDue, reg, inFlight, runs, runLog,
                 faulty>>

(* The start was awaited; its run may have ended already. *)
Resolved ==
  /\ up /\ pass.stage = "run"
  /\ phase[pass.run] \in {"live", "finishing", "ended"}
  /\ inFlight' = IF inFlight[pass.at] = pass.run /\ log[pass.run] # "running"
                 THEN [inFlight EXCEPT ![pass.at] = None] ELSE inFlight
  /\ pass' = EntryDone(pass)
  /\ UNCHANGED <<now, up, definitions, nextDue, reg, runs, runLog, faulty>>

PassEnds ==
  /\ up /\ pass.kind = "fire" /\ pass.at = None /\ pass.todo = {}
  /\ pass' = NoPass
  /\ UNCHANGED <<now, up, definitions, nextDue, reg, inFlight, runs, runLog, faulty>>

-----------------------------------------------------------------------------
(* The registration. *)

(* registerSource: an automation's entry, and the report of what came due while
   the server was down. *)
RegisterEntry(a) ==
  /\ up /\ reg.on /\ reg.at = None /\ a \in reg.todo
  /\ nextDue' = [nextDue EXCEPT ![a] = NextAfter(a, Later(reg.now, reg.from[a]))]
  /\ LET late == {t \in Times[a] : reg.from[a] < t /\ t <= reg.now} IN
       \/ /\ reg.from[a] >= reg.now
          /\ reg' = [reg EXCEPT !.todo = @ \ {a}]
          /\ UNCHANGED runLog
       \/ /\ reg.from[a] < reg.now /\ late = {}
          /\ reg' = [reg EXCEPT !.todo = @ \ {a}, !.at = a, !.stage = "mark"]
          /\ UNCHANGED runLog
       \/ /\ reg.from[a] < reg.now /\ late # {}
          /\ reg' = [reg EXCEPT !.todo = @ \ {a}, !.at = a, !.stage = "missed",
                                !.late = late]
          /\ Enqueue(MissedWrite(a, late, "reg"))
  /\ UNCHANGED <<now, up, definitions, pass, inFlight, runs, faulty>>

MarkRegistered ==
  /\ up /\ reg.stage = "mark"
  /\ evaluated' = [evaluated EXCEPT ![reg.at] = Later(@, reg.now)]
  /\ reg' = Registered(reg)
  /\ UNCHANGED <<now, up, enabled, owed, edits, nextDue, pass, inFlight, runs, runLog,
                 faulty>>

MarkRegisteredFails ==
  /\ up /\ reg.stage = "mark" /\ faults < MaxFaults
  /\ faults' = faults + 1
  /\ reg' = Registered(reg)
  /\ UNCHANGED <<now, up, definitions, nextDue, pass, inFlight, runs, runLog, struck>>

(* Only now the engine follows the definitions, and begins with what changed
   while it registered them. *)
Reconciled ==
  [a \in Automation |->
     IF ~ enabled[a] THEN Never
     ELSE IF nextDue[a] = Never THEN NextAfter(a, Later(now, evaluated[a]))
     ELSE nextDue[a]]

RegistrationEnds ==
  /\ up /\ reg.on /\ reg.at = None /\ reg.todo = {}
  /\ nextDue' = Reconciled
  /\ reg' = NoRegistration
  /\ LET watched == {a \in Automation : enabled[a]} IN
       pass' = [pass EXCEPT !.todo = @ \cap watched, !.active = @ /\ pass.at \in watched]
  /\ UNCHANGED <<now, up, definitions, inFlight, runs, runLog, faulty>>

-----------------------------------------------------------------------------
(* Definitions, time and faults. *)

(* setEnabled and, once the engine follows the definitions, the reconciliation
   it causes: a new entry, or none. *)
SetEnabled(a) ==
  /\ up /\ edits < MaxEdits /\ edits' = edits + 1
  /\ enabled' = [enabled EXCEPT ![a] = ~ @]
  /\ evaluated' = IF enabled[a] THEN evaluated
                  ELSE [evaluated EXCEPT ![a] = Later(@, now)]
  /\ owed' = [owed EXCEPT ![a] = {}]
  /\ IF reg.on THEN UNCHANGED <<nextDue, pass>>
     ELSE /\ nextDue' = [nextDue EXCEPT ![a] =
               IF enabled[a] THEN Never ELSE NextAfter(a, evaluated'[a])]
          /\ pass' = [pass EXCEPT !.todo = @ \ {a},
                                  !.active = @ /\ pass.at # a]
  /\ UNCHANGED <<now, up, reg, inFlight, runs, runLog, faulty>>

(* Whether the engine answers for an automation's occurrences.  One enabled
   while the engine registers has no entry before the end of the registration,
   and its entry starts from there. *)
Watched(a) ==
  enabled[a] /\ (reg.on => a \in reg.todo \/ nextDue[a] # Never)

Tick ==
  /\ now < MaxTime
  /\ now' = now + 1
  /\ owed' = [a \in Automation |->
                IF Watched(a) /\ now' \in Times[a] THEN owed[a] \cup {now'} ELSE owed[a]]
  /\ UNCHANGED <<up, enabled, evaluated, edits, engine, inFlight, runs, runLog, faulty>>

(* The shells are the session holder's and outlive the server: one just started,
   and one whose kill was lost on its way. *)
LeftBehind(r) ==
  CASE phase[r] = "starting" -> {session[r], "alive"}
    [] phase[r] \notin {"ended", "cut"} /\ session[r] = "dying" -> {"dying", "alive"}
    [] OTHER -> {session[r]}

(* What the file of the definitions is ahead of: the occurrence a pass has
   marked and not yet recorded as a run, and the report the registration has not
   yet recorded and a pass has marked past. *)
Exposed ==
  {due \in {pass.at} \X {pass.latest} : pass.stage \in {"due", "run"}} \cup
  {due \in {reg.at} \X reg.late : reg.stage = "missed" /\ due[2] <= evaluated[due[1]]}

Crash ==
  /\ up /\ faults < MaxFaults
  /\ faults' = faults + 1 /\ up' = FALSE
  /\ struck' = struck \cup Exposed
  /\ nextDue' = [a \in Automation |-> Never]
  /\ reg' = NoRegistration /\ pass' = NoPass
  /\ inFlight' = [a \in Automation |-> None]
  /\ phase' = [r \in Run |-> IF phase[r] \in {"none", "ended"} THEN phase[r] ELSE "cut"]
  /\ stopped' = [r \in Run |-> FALSE]
  /\ session' \in {left \in [Run -> {"none", "alive", "dying", "over"}] :
                      \A r \in Run : left[r] \in LeftBehind(r)}
  /\ queue' = <<>>
  /\ UNCHANGED <<now, definitions, auto, occurrence, log, missed>>

(* Mutant: the log is taken as it was saved. *)
LoadedAsSaved(entries) == entries

(* loadFromBackend: a run in progress when the server stopped is over. *)
Loaded(entries) ==
  [r \in Run |-> IF entries[r] = "running" THEN "finished" ELSE entries[r]]

Registration == [NoRegistration EXCEPT !.on = TRUE, !.now = now,
                   !.todo = {a \in Automation : enabled[a]}, !.from = evaluated]

Restart ==
  /\ ~ up /\ up' = TRUE
  /\ log' = Loaded(log)
  /\ reg' = Registration
  /\ UNCHANGED <<now, definitions, nextDue, pass, inFlight, runs, missed, queue, faulty>>

(* Before the server's start. *)
Init ==
  /\ now = 0 /\ up = FALSE
  /\ enabled = [a \in Automation |-> TRUE]
  /\ evaluated = [a \in Automation |-> 0]
  /\ nextDue = [a \in Automation |-> Never]
  /\ reg = NoRegistration /\ pass = NoPass
  /\ inFlight = [a \in Automation |-> None]
  /\ phase = [r \in Run |-> "none"] /\ auto = [r \in Run |-> None]
  /\ occurrence = [r \in Run |-> 0] /\ stopped = [r \in Run |-> FALSE]
  /\ session = [r \in Run |-> "none"]
  /\ log = [r \in Run |-> "none"] /\ queue = <<>>
  /\ missed = [a \in Automation |-> [t \in 1..MaxTime |-> 0]]
  /\ owed = [a \in Automation |-> {}]
  /\ struck = {} /\ edits = 0 /\ faults = 0

RunSteps(r) ==
  \/ Spawn(r) \/ SpawnFails(r) \/ TimeOut(r) \/ Stop(r)
  \/ ShellExits(r) \/ CommandExited(r)

EngineSteps ==
  \/ PassBegins \/ PassComes \/ PassEnds \/ MarkEvaluated \/ MarkFails
  \/ RunOccurrence \/ DropOccurrence \/ Resolved
  \/ MarkRegistered \/ MarkRegisteredFails \/ RegistrationEnds
  \/ \E a \in Automation : FireEntry(a) \/ RegisterEntry(a)

Next ==
  \/ WriteLog \/ EngineSteps
  \/ \E r \in Run : RunSteps(r)
  \/ \E a \in Automation : RunNow(a) \/ SetEnabled(a)
  \/ Tick \/ Crash \/ Restart

Spec == Init /\ [][Next]_vars

-----------------------------------------------------------------------------
Accounted(a, t) ==
  \/ missed[a][t] > 0
  \/ \E r \in Run : auto[r] = a /\ occurrence[r] = t /\ log[r] # "none"

Underway(a, t) ==
  \/ pass.at = a /\ (t \in pass.late \/ t = pass.latest)
  \/ reg.at = a /\ t \in reg.late

IsLost(a, t) == /\ t \in owed[a] /\ t <= evaluated[a]
                /\ ~ Accounted(a, t) /\ ~ Underway(a, t)

Lost == {due \in Automation \X (1..MaxTime) : IsLost(due[1], due[2])}

(* An occurrence that came due is never passed over in silence: once its
   automation is evaluated beyond it, the log on disk holds its run or its report,
   or a pass or the registration is about to write it, or it is one that a fault
   caught in their hands: the occurrence whose mark failed, or, when the server
   died, one the pass had marked before it was recorded and those whose report a
   pass had overtaken.  (The engine answers for what it watches: an automation
   enabled while it still registers the others is watched from the end of the
   registration.) *)
LossNeedsFault == Lost \subseteq struck

(* An occurrence is run at most once, even across deaths of the server; one
   that was run is never reported missed, and none is reported twice unless a
   fault came between. *)
OccurrenceOnce ==
  /\ \A r, other \in Run :
       r # other /\ occurrence[r] # 0 /\ auto[r] = auto[other]
         => occurrence[r] # occurrence[other]
  /\ \A a \in Automation, t \in 1..MaxTime :
       /\ missed[a][t] <= 1 + faults
       /\ missed[a][t] > 0 => \A r \in Run : auto[r] = a => occurrence[r] # t

InProgress == {r \in Run : phase[r] \in {"recording", "starting", "updating", "live"}}

(* A log entry says that a run is in progress exactly while one is, also after
   the server died in the middle of it. *)
LogTellsRuns ==
  up => \A r \in Run :
    /\ log[r] = "running" => r \in InProgress \/ phase[r] \in {"failing", "finishing"}
    /\ r \in Running => log[r] = "running"

(* While its server lives no shell of a run is left alone: it belongs to a run in
   progress, and once that run's start is over a stop asked for earlier has
   reached it.  A shell that a death of the server left behind runs on without a
   run, so without a longest duration; the log says that its run is over. *)
ShellsHaveRuns ==
  \A r \in Run : session[r] = "alive" =>
    \/ phase[r] \in {"updating", "live"} /\ (stopped[r] => phase[r] = "updating")
    \/ phase[r] = "cut" /\ (up => log[r] = "finished")

(* What openspec/specs/automations/spec.md:135 says: "A run SHALL have a maximum
   duration set on the automation [...]; a run that exceeds it SHALL be stopped
   and logged as timed out." *)
ShellsTimed == up => \A r \in Run : session[r] = "alive" => phase[r] # "cut"

(* The scheduler remembers every scheduled run that is in progress, so that two
   of an automation never overlap, and no other: only while its start is awaited
   or its end is still to be written, whatever order the two come in. *)
InFlightExact ==
  /\ \A r \in InProgress : occurrence[r] # 0 => inFlight[auto[r]] = r
  /\ \A a \in Automation : LET r == inFlight[a] IN
       r # None => /\ auto[r] = a
                   /\ \/ pass.run = r
                      \/ phase[r] \in {"live", "finishing"} /\ log[r] = "running"

(* What openspec/specs/automations/spec.md:163 says: "The server SHALL also
   bound how many runs of all automations may be in progress at once, and SHALL
   log a run that would exceed that bound as skipped." *)
RunsBounded == Cardinality(Running) <= MaxConcurrent
=============================================================================
