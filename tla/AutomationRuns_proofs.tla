------------------------ MODULE AutomationRuns_proofs ------------------------
(***************************************************************************)
(* Proofs about AutomationRuns, for any automations, schedules, runs and   *)
(* number of faults.  A run is recorded by writes that wait in a queue, so *)
(* the invariant says what each queued write is for: of a run at most one  *)
(* is queued, it is the one the run's phase waits for, and a report of     *)
(* missed occurrences is queued only while the pass, or the registration,  *)
(* waits for it.  A second invariant follows the occurrences of the        *)
(* schedules: at any time each is still to come, in the hands of a pass or *)
(* of the registration, reported or run, and those in none of these places *)
(* are ones that a fault struck.                                           *)
(***************************************************************************)
EXTENDS AutomationRuns, SequenceTheorems, FiniteSetTheorems, TLAPS

RunPhases == {"none", "skipping", "recording", "starting", "updating", "live",
              "failing", "finishing", "ended", "cut"}
Waiting == {"skipping", "recording", "updating", "failing", "finishing"}

(* What the run log is told of a run in a phase that waits for it. *)
Recording(ph) == IF ph \in {"recording", "updating"} THEN "running"
                 ELSE IF ph = "skipping" THEN "skipped" ELSE "finished"

Writes == [what : {"running", "skipped", "finished", "missed"},
           run : Run \cup {None}, auto : Automation \cup {None},
           times : SUBSET (1..MaxTime), by : {"run", "pass", "reg"}]

(* A pass has its fields, whatever they hold. *)
IsPass(p) ==
  \E Any : p \in [kind : Any, now : Any, todo : Any, at : Any,
                  stage : Any, late : Any, latest : Any, active : Any, run : Any]

PassOK(p) ==
  /\ IsPass(p)
  /\ p.at \in Automation \cup {None}
  /\ p.at = None => p.stage = "idle"
  /\ IF p.stage = "run" THEN p.run \in Run ELSE p.run = None

IsReg(g) ==
  \E Any : g \in [on : Any, now : Any, todo : Any, from : Any, at : Any,
                  stage : Any, late : Any]

RegOK(g) ==
  /\ IsReg(g)
  /\ g.at \in Automation \cup {None}
  /\ g.at = None => g.stage = "idle"

TypeOK ==
  /\ up \in BOOLEAN
  /\ phase \in [Run -> RunPhases]
  /\ auto \in [Run -> Automation \cup {None}]
  /\ DOMAIN occurrence = Run
  /\ stopped \in [Run -> BOOLEAN]
  /\ session \in [Run -> {"none", "alive", "dying", "over"}]
  /\ log \in [Run -> {"none", "running", "skipped", "finished"}]
  /\ queue \in Seq(Writes)
  /\ inFlight \in [Automation -> Run \cup {None}]
  /\ PassOK(pass) /\ RegOK(reg)

(* A queued write is what its run, or the pass, or the registration waits for. *)
Pending(w, ph, p, g) ==
  IF w.what = "missed"
  THEN /\ w.run = None
       /\ \/ w.by = "pass" /\ p.stage = "missed"
          \/ w.by = "reg" /\ g.stage = "missed"
  ELSE w.run \in Run /\ w.by = "run" /\ ph[w.run] \in Waiting
       /\ w.what = Recording(ph[w.run])

Same(v, w) == v.run = w.run /\ v.by = w.by

QueueOK(q, ph, p, g) ==
  \A i \in DOMAIN q : /\ Pending(q[i], ph, p, g)
                      /\ \A j \in DOMAIN q : Same(q[i], q[j]) => i = j

(* A server that is down holds nothing. *)
DownHoldsNothing ==
  ~ up => /\ queue = <<>> /\ pass.run = None
          /\ \A a \in Automation : inFlight[a] = None
          /\ \A r \in Run : phase[r] \in {"none", "ended", "cut"}

(* The run a pass waits for is of the automation the pass is at. *)
PassRun ==
  pass.stage = "run" => auto[pass.run] = pass.at /\ phase[pass.run] # "none"

Logged(r) ==
  /\ up /\ log[r] = "running" => r \in InProgress \/ phase[r] \in {"failing", "finishing"}
  /\ r \in Running => log[r] = "running"

Shell(r) ==
  /\ session[r] = "alive" =>
       \/ phase[r] \in {"updating", "live"} /\ (stopped[r] => phase[r] = "updating")
       \/ phase[r] = "cut" /\ log[r] \in {"running", "finished"}
          /\ (up => log[r] = "finished")
  /\ session[r] # "none" =>
       phase[r] \in {"updating", "live", "failing", "finishing", "ended", "cut"}
  /\ phase[r] \in {"starting", "updating", "live", "failing", "finishing"}
       => log[r] = "running"

Remembered(r) ==
  r \in InProgress => /\ auto[r] \in Automation
                      /\ occurrence[r] # 0 => inFlight[auto[r]] = r

Justified(a) ==
  inFlight[a] # None =>
    /\ auto[inFlight[a]] = a
    /\ \/ pass.run = inFlight[a]
       \/ phase[inFlight[a]] \in {"live", "finishing"} /\ log[inFlight[a]] = "running"

RunOK(r) == Logged(r) /\ Shell(r) /\ Remembered(r)

(* The inductive invariant. *)
RunsInv ==
  /\ TypeOK /\ QueueOK(queue, phase, pass, reg) /\ DownHoldsNothing /\ PassRun
  /\ \A r \in Run : RunOK(r)
  /\ \A a \in Automation : Justified(a)

-----------------------------------------------------------------------------
(* The queue. *)

LEMMA EmptyOK ==
  ASSUME NEW ph, NEW p, NEW g
  PROVE  <<>> \in Seq(Writes) /\ QueueOK(<<>>, ph, p, g)
  <1>1. DOMAIN <<>> = {}
    OBVIOUS
  <1> QED BY <1>1 DEF QueueOK

(* A write appended to the queue is the only one of its run.               *)
LEMMA AppendOK ==
  ASSUME NEW q \in Seq(Writes), NEW w \in Writes, NEW ph, NEW p, NEW g, NEW ph2, NEW p2, NEW g2,
         QueueOK(q, ph, p, g), Pending(w, ph2, p2, g2),
         \A i \in DOMAIN q : ~ Same(q[i], w),
         \A i \in DOMAIN q : Pending(q[i], ph, p, g) => Pending(q[i], ph2, p2, g2)
  PROVE  Append(q, w) \in Seq(Writes) /\ QueueOK(Append(q, w), ph2, p2, g2)
  <1> DEFINE q2 == Append(q, w)
  <1>1. q2 \in Seq(Writes) /\ DOMAIN q = 1..Len(q) /\ DOMAIN q2 = 1..(Len(q) + 1)
        /\ Len(q) \in Nat
    OBVIOUS
  <1>2. q2[Len(q) + 1] = w /\ \A i \in 1..Len(q) : q2[i] = q[i]
    OBVIOUS
  <1> HIDE DEF q2
  <1>3. \A i \in DOMAIN q2 : i \in DOMAIN q \/ i = Len(q) + 1
    BY <1>1
  <1>4. \A i \in DOMAIN q2 : Pending(q2[i], ph2, p2, g2)
    BY <1>1, <1>2, <1>3 DEF QueueOK
  <1>5. \A i, j \in DOMAIN q2 : Same(q2[i], q2[j]) => i = j
    BY <1>1, <1>2, <1>3 DEF QueueOK, Same
  <1> QED BY <1>1, <1>4, <1>5 DEF QueueOK, q2

(* The same of a step of the queue.                                        *)
LEMMA QueueGrows ==
  ASSUME queue \in Seq(Writes), QueueOK(queue, phase, pass, reg), NEW w \in Writes,
         queue' = Append(queue, w), Pending(w, phase', pass', reg'),
         \A i \in DOMAIN queue : /\ ~ Same(queue[i], w)
                                 /\ Pending(queue[i], phase', pass', reg')
  PROVE  queue' \in Seq(Writes) /\ QueueOK(queue, phase, pass, reg)'
  <1>1. \A i \in DOMAIN queue :
          Pending(queue[i], phase, pass, reg) => Pending(queue[i], phase', pass', reg')
    OBVIOUS
  <1>2. \A i \in DOMAIN queue : ~ Same(queue[i], w)
    OBVIOUS
  <1> QED BY <1>1, <1>2, AppendOK

(* What is left when the first write is done is of other runs.             *)
LEMMA TailOK ==
  ASSUME NEW q \in Seq(Writes), q # <<>>, NEW ph, NEW p, NEW g, NEW ph2, NEW p2, NEW g2,
         QueueOK(q, ph, p, g),
         \A w \in Writes : ~ Same(w, Head(q)) /\ Pending(w, ph, p, g)
                             => Pending(w, ph2, p2, g2)
  PROVE  /\ Tail(q) \in Seq(Writes) /\ QueueOK(Tail(q), ph2, p2, g2)
         /\ Head(q) \in Writes /\ Pending(Head(q), ph, p, g)
  <1>1. /\ Len(q) \in Nat \ {0} /\ DOMAIN q = 1..Len(q)
        /\ Tail(q) \in Seq(Writes) /\ DOMAIN Tail(q) = 1..(Len(q) - 1)
        /\ \A i \in 1..(Len(q) - 1) : Tail(q)[i] = q[i + 1]
    OBVIOUS
  <1>2. 1 \in DOMAIN q /\ Head(q) = q[1] /\ \A i \in DOMAIN q : q[i] \in Writes
    BY <1>1
  <1>3. \A i \in DOMAIN Tail(q) : i + 1 \in DOMAIN q /\ i + 1 # 1
    BY <1>1
  <1>4. \A i \in DOMAIN Tail(q) : Pending(Tail(q)[i], ph2, p2, g2)
    <2> SUFFICES ASSUME NEW i \in DOMAIN Tail(q) PROVE Pending(q[i + 1], ph2, p2, g2)
      BY <1>1
    <2>1. ~ Same(q[i + 1], Head(q)) /\ Pending(q[i + 1], ph, p, g) /\ q[i + 1] \in Writes
      BY <1>2, <1>3 DEF QueueOK
    <2> QED BY <2>1
  <1>5. \A i, j \in DOMAIN Tail(q) : Same(Tail(q)[i], Tail(q)[j]) => i = j
    <2> SUFFICES ASSUME NEW i \in DOMAIN Tail(q), NEW j \in DOMAIN Tail(q),
                        Same(Tail(q)[i], Tail(q)[j])
                 PROVE  i = j
      OBVIOUS
    <2>1. Same(q[i + 1], q[j + 1])
      BY <1>1
    <2>2. i + 1 = j + 1
      BY <1>3, <2>1 DEF QueueOK
    <2> QED BY <1>1, <2>2
  <1> QED BY <1>1, <1>2, <1>4, <1>5 DEF QueueOK

-----------------------------------------------------------------------------
(* What a step does to the pass. *)

LEMMA EntryDoneOK ==
  ASSUME NEW p, PassOK(p)
  PROVE  /\ PassOK(EntryDone(p)) /\ EntryDone(p).run = None
         /\ EntryDone(p).at = None /\ EntryDone(p).stage = "idle"
  <1>1. PICK Any : p \in [kind : Any, now : Any, todo : Any, at : Any,
                          stage : Any, late : Any, latest : Any, active : Any,
                          run : Any]
    BY DEF PassOK, IsPass
  <1> DEFINE More == Any \cup {None, "idle", {}, 0, FALSE}
  <1>2. EntryDone(p) \in [kind : More, now : More, todo : More, at : More, stage : More, late : More, latest : More,
                          active : More, run : More]
    BY <1>1 DEF EntryDone
  <1>3. IsPass(EntryDone(p))
    BY <1>2 DEF IsPass
  <1>4. /\ EntryDone(p).run = None /\ EntryDone(p).at = None
        /\ EntryDone(p).stage = "idle"
    BY <1>1 DEF EntryDone
  <1> QED BY <1>3, <1>4 DEF PassOK

LEMMA StageOK ==
  ASSUME NEW p, PassOK(p), p.at # None, p.stage # "run",
         NEW stage \in {"mark", "due"}, NEW p2, p2 = [p EXCEPT !.stage = stage]
  PROVE  PassOK(p2) /\ p2.run = None /\ p2.stage = stage
  <1>1. PICK Any : p \in [kind : Any, now : Any, todo : Any, at : Any,
                          stage : Any, late : Any, latest : Any, active : Any,
                          run : Any]
    BY DEF PassOK, IsPass
  <1> DEFINE More == Any \cup {stage}
  <1>2. p2 \in [kind : More, now : More, todo : More, at : More, stage : More, late : More, latest : More,
                active : More, run : More]
    BY <1>1
  <1>3. p2.run = p.run /\ p2.at = p.at /\ p2.stage = stage
    BY <1>1
  <1> QED BY <1>2, <1>3 DEF PassOK, IsPass

(* A pass that has not come to an entry, or none.                          *)
LEMMA FreshPassOK ==
  ASSUME NEW kind, NEW time, NEW todo
  PROVE  LET p == [kind |-> kind, now |-> time, todo |-> todo,
                   at |-> None, stage |-> "idle", late |-> {}, latest |-> 0,
                   active |-> FALSE, run |-> None]
         IN PassOK(p)
  <1> DEFINE Any == {kind, time, todo, None, "idle", {}, 0, FALSE}
             p == [kind |-> kind, now |-> time, todo |-> todo,
                   at |-> None, stage |-> "idle", late |-> {}, latest |-> 0,
                   active |-> FALSE, run |-> None]
  <1>1. p \in [kind : Any, now : Any, todo : Any,
               at : Any, stage : Any, late : Any, latest : Any, active : Any, run : Any]
    OBVIOUS
  <1>2. p.at = None /\ p.stage = "idle" /\ p.run = None
    OBVIOUS
  <1> QED BY <1>1, <1>2 DEF PassOK, IsPass

(* The same of a registration.                                             *)
LEMMA FreshRegOK ==
  ASSUME NEW on, NEW time, NEW todo, NEW from
  PROVE  LET g == [on |-> on, now |-> time, todo |-> todo, from |-> from,
                   at |-> None, stage |-> "idle", late |-> {}]
         IN RegOK(g)
  <1> DEFINE Any == {on, time, todo, from, None, "idle", {}}
             g == [on |-> on, now |-> time, todo |-> todo, from |-> from,
                   at |-> None, stage |-> "idle", late |-> {}]
  <1>1. g \in [on : Any, now : Any, todo : Any, from : Any, at : Any,
               stage : Any, late : Any]
    OBVIOUS
  <1>2. g.at = None /\ g.stage = "idle"
    OBVIOUS
  <1> QED BY <1>1, <1>2 DEF RegOK, IsReg

LEMMA RegisteredOK ==
  ASSUME NEW g, RegOK(g)
  PROVE  RegOK(Registered(g)) /\ Registered(g).at = None
  <1>1. PICK Any : g \in [on : Any, now : Any, todo : Any, from : Any, at : Any,
                          stage : Any, late : Any]
    BY DEF RegOK, IsReg
  <1> DEFINE More == Any \cup {None, "idle", {}}
  <1>2. Registered(g) \in [on : More, now : More, todo : More, from : More,
                           at : More, stage : More, late : More]
    BY <1>1 DEF Registered
  <1>3. Registered(g).at = None /\ Registered(g).stage = "idle"
    BY <1>1 DEF Registered
  <1> QED BY <1>2, <1>3 DEF RegOK, IsReg

-----------------------------------------------------------------------------
(* A step of the engine, or of the world, that leaves the runs alone: what *)
(* the pass is for may change only where nothing waits for it.             *)
LEMMA PassStep ==
  ASSUME RunsInv, up' = up, UNCHANGED <<runs, log, queue, inFlight>>,
         PassOK(pass'), pass'.run = pass.run,
         pass.stage = "missed" => pass'.stage = "missed",
         pass'.stage = "run" => pass.stage = "run" /\ pass'.at = pass.at,
         RegOK(reg'), reg.stage = "missed" => reg'.stage = "missed"
  PROVE  RunsInv'
  <1>1. UNCHANGED <<phase, auto, occurrence, stopped, session, log, queue, inFlight>>
    BY DEF runs
  <1>2. TypeOK' /\ DownHoldsNothing' /\ PassRun'
    BY <1>1 DEF RunsInv, TypeOK, DownHoldsNothing, PassRun
  <1>3. QueueOK(queue, phase, pass, reg)'
    BY <1>1 DEF RunsInv, QueueOK, Pending
  <1>4. \A r \in Run : RunOK(r)'
    BY <1>1 DEF RunsInv, RunOK, Logged, Shell, Remembered, InProgress, Running
  <1>5. \A a \in Automation : Justified(a)'
    BY <1>1 DEF RunsInv, Justified
  <1> QED BY <1>2, <1>3, <1>4, <1>5 DEF RunsInv

LEMMA SamePassStep ==
  ASSUME RunsInv, UNCHANGED <<up, runs, log, queue, inFlight, pass, reg>>
  PROVE  RunsInv'
  <1>1. PassOK(pass) /\ RegOK(reg)
    BY DEF RunsInv, TypeOK
  <1> QED BY <1>1, PassStep

LEMMA PassBeginsStep ==
  ASSUME RunsInv, PassBegins
  PROVE  RunsInv'
  <1>1. pass.run = None /\ pass.stage = "idle" /\ RegOK(reg)
    BY DEF PassBegins, NoPass, RunsInv, TypeOK
  <1>2. /\ up' = up /\ UNCHANGED <<runs, log, queue, inFlight, reg>>
        /\ pass' = [kind |-> "begun", now |-> now, todo |-> {},
                    at |-> None, stage |-> "idle", late |-> {}, latest |-> 0,
                    active |-> FALSE, run |-> None]
    BY DEF PassBegins, NoPass, runLog
  <1>3. PassOK(pass') /\ pass'.run = None /\ pass'.stage = "idle"
    BY <1>2, FreshPassOK
  <1> QED BY <1>1, <1>2, <1>3, PassStep

LEMMA PassComesStep ==
  ASSUME RunsInv, PassComes
  PROVE  RunsInv'
  <1> DEFINE todo == {a \in Automation : nextDue[a] <= pass.now}
  <1>1. /\ up' = up /\ UNCHANGED <<runs, log, queue, inFlight, reg>>
        /\ pass' = [pass EXCEPT !.kind = "fire", !.todo = todo]
    BY DEF PassComes, runLog
  <1>2. PassOK(pass) /\ RegOK(reg)
    BY DEF RunsInv, TypeOK
  <1> HIDE DEF todo
  <1>3. PICK Any : pass \in [kind : Any, now : Any, todo : Any, at : Any, stage : Any,
                             late : Any, latest : Any, active : Any, run : Any]
    BY <1>2 DEF PassOK, IsPass
  <1> DEFINE More == Any \cup {todo, "fire"}
  <1>4. pass' \in [kind : More, now : More, todo : More, at : More, stage : More,
                   late : More, latest : More, active : More, run : More]
    BY <1>1, <1>3
  <1>5. pass'.run = pass.run /\ pass'.at = pass.at /\ pass'.stage = pass.stage
    BY <1>1, <1>3
  <1>6. PassOK(pass')
    BY <1>2, <1>4, <1>5 DEF PassOK, IsPass
  <1> QED BY <1>1, <1>2, <1>5, <1>6, PassStep

LEMMA PassEndsStep ==
  ASSUME RunsInv, PassEnds
  PROVE  RunsInv'
  <1>1. pass.run = None /\ pass.stage = "idle" /\ RegOK(reg)
    BY DEF PassEnds, RunsInv, TypeOK, PassOK
  <1>2. up' = up /\ pass' = NoPass /\ UNCHANGED <<runs, log, queue, inFlight, reg>>
    BY DEF PassEnds, runLog
  <1>3. PassOK(pass') /\ pass'.run = None /\ pass'.stage = "idle"
    BY <1>2, FreshPassOK DEF NoPass
  <1> QED BY <1>1, <1>2, <1>3, PassStep

LEMMA MarkStep ==
  ASSUME RunsInv, MarkEvaluated \/ MarkFails \/ DropOccurrence
  PROVE  RunsInv'
  <1>1. pass.stage \in {"mark", "due"} /\ PassOK(pass) /\ RegOK(reg)
    BY DEF MarkEvaluated, MarkFails, DropOccurrence, RunsInv, TypeOK
  <1>2. pass.run = None /\ pass.at # None
    BY <1>1 DEF PassOK
  <1>3. up' = up /\ UNCHANGED <<runs, log, queue, inFlight, reg>>
    BY DEF MarkEvaluated, MarkFails, DropOccurrence, runLog
  <1>4. \/ pass' = EntryDone(pass)
        \/ pass' = [pass EXCEPT !.stage = "due"]
    BY DEF MarkEvaluated, MarkFails, DropOccurrence, AfterMark
  <1>5. PassOK(pass') /\ pass'.run = None /\ pass'.stage # "run"
    BY <1>1, <1>2, <1>4, EntryDoneOK, StageOK
  <1> QED BY <1>1, <1>2, <1>3, <1>5, PassStep

LEMMA MarkRegisteredStep ==
  ASSUME RunsInv, MarkRegistered \/ MarkRegisteredFails
  PROVE  RunsInv'
  <1>1. /\ up' = up /\ UNCHANGED <<runs, log, queue, inFlight, pass>>
        /\ reg.stage = "mark" /\ reg' = Registered(reg)
    BY DEF MarkRegistered, MarkRegisteredFails, runLog
  <1>2. PassOK(pass) /\ RegOK(reg)
    BY DEF RunsInv, TypeOK
  <1>3. RegOK(reg')
    BY <1>1, <1>2, RegisteredOK
  <1> QED BY <1>1, <1>2, <1>3, PassStep

(* What becomes of the pass when entries are deleted under it.             *)
LEMMA DeletedOK ==
  ASSUME RunsInv, up' = up, UNCHANGED <<runs, log, queue, inFlight>>,
         NEW todo, NEW active, pass' = [pass EXCEPT !.todo = todo, !.active = active],
         RegOK(reg'), reg.stage = "missed" => reg'.stage = "missed"
  PROVE  RunsInv'
  <1>1. PassOK(pass)
    BY DEF RunsInv, TypeOK
  <1>2. PICK Any : pass \in [kind : Any, now : Any, todo : Any,
                             at : Any, stage : Any, late : Any, latest : Any,
                             active : Any, run : Any]
    BY <1>1 DEF PassOK, IsPass
  <1> DEFINE More == Any \cup {todo, active}
  <1>3. pass' \in [kind : More, now : More, todo : More,
                   at : More, stage : More, late : More, latest : More,
                   active : More, run : More]
    BY <1>2
  <1>4. /\ pass'.run = pass.run /\ pass'.at = pass.at
        /\ pass'.stage = pass.stage
    BY <1>2
  <1>5. PassOK(pass')
    BY <1>1, <1>3, <1>4 DEF PassOK, IsPass
  <1> QED BY <1>4, <1>5, PassStep

LEMMA RegistrationEndsStep ==
  ASSUME RunsInv, RegistrationEnds
  PROVE  RunsInv'
  <1> DEFINE watched == {a \in Automation : enabled[a]}
             todo == pass.todo \cap watched
             active == pass.active /\ pass.at \in watched
  <1>1. /\ up' = up /\ UNCHANGED <<runs, log, queue, inFlight>>
        /\ pass' = [pass EXCEPT !.todo = todo, !.active = active]
        /\ reg' = NoRegistration /\ reg.at = None
    BY DEF RegistrationEnds, runLog
  <1>2. RegOK(reg') /\ reg.stage = "idle"
    BY <1>1, FreshRegOK DEF NoRegistration, RunsInv, TypeOK, RegOK
  <1> HIDE DEF todo, active
  <1> QED BY <1>1, <1>2, DeletedOK

LEMMA SetEnabledStep ==
  ASSUME RunsInv, NEW a \in Automation, SetEnabled(a)
  PROVE  RunsInv'
  <1> DEFINE todo == pass.todo \ {a}
             active == pass.active /\ pass.at # a
  <1>1. /\ up' = up /\ UNCHANGED <<runs, log, queue, inFlight, reg>>
        /\ PassOK(pass) /\ RegOK(reg)
    BY DEF SetEnabled, runLog, RunsInv, TypeOK
  <1>2. CASE pass' = pass
    BY <1>1, <1>2, PassStep
  <1>3. CASE pass' = [pass EXCEPT !.todo = todo, !.active = active]
    <2> HIDE DEF todo, active
    <2> QED BY <1>1, <1>3, DeletedOK
  <1> QED BY <1>2, <1>3 DEF SetEnabled

(* Coming to an entry whose missed occurrences, if any, are to be written. *)
LEMMA EnterStep ==
  ASSUME RunsInv, NEW a \in Automation, NEW late \in SUBSET (1..MaxTime),
         NEW latest, pass.at = None, up, Enter(a, late, latest),
         UNCHANGED <<up, runs, inFlight, reg>>
  PROVE  RunsInv'
  <1> DEFINE stage == IF late = {} THEN "mark" ELSE "missed"
             todo == pass.todo \ {a}
             w == [what |-> "missed", run |-> None, auto |-> a, times |-> late,
                   by |-> "pass"]
  <1>1. pass' = [pass EXCEPT !.todo = todo, !.at = a, !.active = TRUE,
                             !.late = late, !.latest = latest, !.stage = stage]
    BY DEF Enter
  <1>2. PassOK(pass) /\ pass.stage = "idle" /\ pass.run = None /\ RegOK(reg)
    BY DEF RunsInv, TypeOK, PassOK
  <1>3. stage \in {"mark", "missed"}
    OBVIOUS
  <1> HIDE DEF stage, todo
  <1>4. PassOK(pass') /\ pass'.run = None /\ pass'.stage = stage
    <2>1. PICK Any : pass \in [kind : Any, now : Any, todo : Any, at : Any, stage : Any, late : Any, latest : Any,
                               active : Any, run : Any]
      BY <1>2 DEF PassOK, IsPass
    <2> DEFINE More == Any \cup {todo, a, TRUE, late, latest, stage}
    <2>2. pass' \in [kind : More, now : More, todo : More, at : More, stage : More, late : More, latest : More,
                     active : More, run : More]
      BY <1>1, <2>1
    <2>3. pass'.run = None /\ pass'.at = a /\ pass'.stage = stage /\ a # None
      BY <1>1, <1>2, <2>1, AutomationAssumption
    <2> HIDE DEF More
    <2>4. IsPass(pass')
      BY <2>2 DEF IsPass
    <2> QED BY <1>3, <2>3, <2>4 DEF PassOK
  <1>5. CASE late = {}
    <2>1. UNCHANGED <<log, queue>>
      BY <1>5 DEF Enter, runLog
    <2> QED BY <1>2, <1>3, <1>4, <2>1, PassStep
  <1>6. CASE late # {}
    <2>1. queue' = Append(queue, w) /\ log' = log /\ stage = "missed"
      BY <1>6 DEF Enter, Enqueue, MissedWrite, stage
    <2>2. w \in Writes /\ Pending(w, phase, pass', reg') /\ w.by = "pass"
      BY <1>4, <2>1 DEF Writes, Pending
    <2>3. \A i \in DOMAIN queue :
            ~ Same(queue[i], w) /\ Pending(queue[i], phase, pass', reg')
      BY <1>2, <2>2 DEF RunsInv, QueueOK, Pending, Same
    <2>4. queue \in Seq(Writes) /\ QueueOK(queue, phase, pass, reg)
      BY DEF RunsInv, TypeOK
    <2>5. queue' \in Seq(Writes) /\ QueueOK(queue', phase, pass', reg')
      BY <2>1, <2>2, <2>3, <2>4, AppendOK
    <2>6. UNCHANGED <<phase, auto, occurrence, stopped, session, log, inFlight>>
      BY <2>1 DEF runs
    <2>7. TypeOK' /\ DownHoldsNothing' /\ PassRun'
      BY <1>3, <1>4, <2>5, <2>6 DEF RunsInv, TypeOK, DownHoldsNothing, PassRun
    <2>8. \A r \in Run : RunOK(r)'
      BY <2>6 DEF RunsInv, RunOK, Logged, Shell, Remembered, InProgress, Running
    <2>9. \A x \in Automation : Justified(x)'
      BY <1>2, <1>4, <2>6 DEF RunsInv, Justified
    <2> QED BY <2>5, <2>6, <2>7, <2>8, <2>9 DEF RunsInv
  <1> QED BY <1>5, <1>6

LEMMA FireEntryStep ==
  ASSUME RunsInv, NEW a \in Automation, FireEntry(a)
  PROVE  RunsInv'
  <1>0. PICK late \in SUBSET Times[a] : \E latest : Enter(a, late, latest)
    BY DEF FireEntry
  <1>1. PICK latest : Enter(a, late, latest)
    BY <1>0
  <1>2. late \in SUBSET (1..MaxTime)
    BY <1>1, AutomationAssumption
  <1>3. up /\ pass.at = None /\ UNCHANGED <<up, runs, inFlight, reg>>
    BY DEF FireEntry
  <1> QED BY <1>1, <1>2, <1>3, EnterStep

LEMMA RegisterEntryStep ==
  ASSUME RunsInv, NEW a \in Automation, RegisterEntry(a)
  PROVE  RunsInv'
  <1> DEFINE late == {t \in Times[a] : reg.from[a] < t /\ t <= reg.now}
             todo == reg.todo \ {a}
             w == [what |-> "missed", run |-> None, auto |-> a, times |-> late,
                   by |-> "reg"]
  <1>1. /\ up /\ up' = up /\ reg.at = None
        /\ UNCHANGED <<runs, inFlight, pass>>
    BY DEF RegisterEntry
  <1>2. PassOK(pass) /\ RegOK(reg) /\ reg.stage = "idle"
    BY <1>1 DEF RunsInv, TypeOK, RegOK
  <1>3. a # None /\ late \in SUBSET (1..MaxTime)
    BY AutomationAssumption
  <1>4. PICK Any : reg \in [on : Any, now : Any, todo : Any, from : Any, at : Any,
                            stage : Any, late : Any]
    BY <1>2 DEF RegOK, IsReg
  <1>5. \/ /\ reg' = [reg EXCEPT !.todo = todo] /\ UNCHANGED runLog
        \/ /\ reg' = [reg EXCEPT !.todo = todo, !.at = a, !.stage = "mark"]
           /\ UNCHANGED runLog
        \/ /\ reg' = [reg EXCEPT !.todo = todo, !.at = a, !.stage = "missed",
                                 !.late = late]
           /\ queue' = Append(queue, w) /\ UNCHANGED <<log, missed>>
    BY DEF RegisterEntry, Enqueue, MissedWrite
  <1> DEFINE More == Any \cup {todo, a, late, "mark", "missed"}
  <1> HIDE DEF late, todo
  <1>6. CASE reg' = [reg EXCEPT !.todo = todo] /\ UNCHANGED runLog
    <2>1. /\ reg' \in [on : More, now : More, todo : More, from : More, at : More,
                        stage : More, late : More]
          /\ reg'.at = None /\ reg'.stage = "idle"
      BY <1>1, <1>2, <1>4, <1>6
    <2>2. RegOK(reg')
      BY <2>1 DEF RegOK, IsReg
    <2> QED BY <1>1, <1>2, <1>6, <2>2, PassStep DEF runLog
  <1>7. CASE reg' = [reg EXCEPT !.todo = todo, !.at = a, !.stage = "mark"]
             /\ UNCHANGED runLog
    <2>1. /\ reg' \in [on : More, now : More, todo : More, from : More, at : More,
                        stage : More, late : More]
          /\ reg'.at = a
      BY <1>4, <1>7
    <2>2. RegOK(reg')
      BY <1>3, <2>1 DEF RegOK, IsReg
    <2> QED BY <1>1, <1>2, <1>7, <2>2, PassStep DEF runLog
  <1>8. CASE /\ reg' = [reg EXCEPT !.todo = todo, !.at = a, !.stage = "missed",
                                   !.late = late]
             /\ queue' = Append(queue, w) /\ UNCHANGED <<log, missed>>
    <2>0. /\ reg' \in [on : More, now : More, todo : More, from : More, at : More,
                        stage : More, late : More]
          /\ reg'.at = a /\ reg'.stage = "missed"
      BY <1>4, <1>8
    <2>1. RegOK(reg') /\ reg'.stage = "missed"
      BY <1>3, <2>0 DEF RegOK, IsReg
    <2>2. w \in Writes /\ Pending(w, phase, pass, reg') /\ w.by = "reg"
      BY <1>3, <2>1 DEF Writes, Pending
    <2>3. \A i \in DOMAIN queue :
            ~ Same(queue[i], w) /\ Pending(queue[i], phase, pass, reg')
      BY <1>2, <2>1, <2>2 DEF RunsInv, QueueOK, Pending, Same
    <2>4. queue \in Seq(Writes) /\ QueueOK(queue, phase, pass, reg)
      BY DEF RunsInv, TypeOK
    <2>5. queue' \in Seq(Writes) /\ QueueOK(queue', phase, pass, reg')
      BY <1>8, <2>2, <2>3, <2>4, AppendOK
    <2>6. UNCHANGED <<phase, auto, occurrence, stopped, session, log, inFlight, pass>>
      BY <1>1, <1>8 DEF runs
    <2>7. TypeOK' /\ DownHoldsNothing' /\ PassRun'
      BY <1>1, <2>1, <2>5, <2>6 DEF RunsInv, TypeOK, DownHoldsNothing, PassRun
    <2>8. \A r \in Run : RunOK(r)'
      BY <1>1, <2>6 DEF RunsInv, RunOK, Logged, Shell, Remembered, InProgress, Running
    <2>9. \A x \in Automation : Justified(x)'
      BY <2>6 DEF RunsInv, Justified
    <2> QED BY <2>5, <2>6, <2>7, <2>8, <2>9 DEF RunsInv
  <1> QED BY <1>5, <1>6, <1>7, <1>8

-----------------------------------------------------------------------------
(* A run is issued: nothing was known of its id.                           *)
LEMMA IssueFacts ==
  ASSUME RunsInv, up, up' = up, NEW r \in Run, phase[r] = "none",
         NEW ph \in {"skipping", "recording"},
         auto' \in [Run -> Automation \cup {None}],
         phase' \in [Run -> RunPhases], phase'[r] = ph,
         \A x \in Run \ {r} : phase'[x] = phase[x] /\ auto'[x] = auto[x],
         DOMAIN occurrence' = Run, UNCHANGED <<stopped, session, log>>,
         NEW w \in Writes, w.run = r, w.by = "run", w.what = Recording(ph),
         queue' = Append(queue, w), reg' = reg,
         inFlight' \in [Automation -> Run \cup {None}],
         PassOK(pass'), pass.stage = "missed" => pass'.stage = "missed"
  PROVE  /\ TypeOK' /\ QueueOK(queue, phase, pass, reg)' /\ DownHoldsNothing'
         /\ \A x \in Run : Logged(x)' /\ Shell(x)'
  <1>1. TypeOK /\ QueueOK(queue, phase, pass, reg) /\ \A x \in Run : RunOK(x)
    BY DEF RunsInv
  <1>2. /\ phase'[r] = ph
        /\ \A x \in Run \ {r} : phase'[x] = phase[x] /\ auto'[x] = auto[x]
    OBVIOUS
  <1>3. w \in Writes /\ w.run = r /\ queue' = Append(queue, w)
    OBVIOUS
  <1>4. Pending(w, phase', pass', reg')
    BY <1>2 DEF Pending, Recording, Waiting
  <1>5. \A i \in DOMAIN queue : queue[i].run # r /\ Pending(queue[i], phase', pass', reg')
    <2> SUFFICES ASSUME NEW i \in DOMAIN queue
                 PROVE  queue[i].run # r /\ Pending(queue[i], phase', pass', reg')
      OBVIOUS
    <2>1. Pending(queue[i], phase, pass, reg)
      BY <1>1 DEF QueueOK
    <2>2. queue[i].run # r
      BY <2>1, AutomationAssumption DEF Pending, Waiting
    <2> QED BY <1>2, <2>1, <2>2 DEF Pending
  <1>6. queue' \in Seq(Writes) /\ QueueOK(queue', phase', pass', reg')
    <2>1. queue \in Seq(Writes) /\ \A i \in DOMAIN queue : ~ Same(queue[i], w)
      BY <1>1, <1>3, <1>5 DEF TypeOK, Same
    <2> QED BY <1>1, <1>3, <1>4, <1>5, <2>1, AppendOK
  <1>7. TypeOK'
    BY <1>1, <1>2, <1>6 DEF TypeOK
  <1>8. DownHoldsNothing'
    BY DEF DownHoldsNothing
  <1>9. ASSUME NEW x \in Run PROVE Logged(x)' /\ Shell(x)'
    <2>1. RunOK(x)
      BY <1>1
    <2>2. CASE x = r
      BY <1>2, <2>1, <2>2
      DEF RunOK, Logged, Shell, InProgress, Running
    <2>3. CASE x # r
      BY <1>2, <2>1, <2>3
      DEF RunOK, Logged, Shell, InProgress, Running
    <2> QED BY <2>2, <2>3
  <1> QED BY <1>2, <1>6, <1>7, <1>8, <1>9

(* What the scheduler remembers has been issued.                           *)
LEMMA RememberedIssued ==
  ASSUME RunsInv, NEW a \in Automation, inFlight[a] # None
  PROVE  /\ inFlight[a] \in Run /\ phase[inFlight[a]] # "none"
         /\ auto[inFlight[a]] = a
  BY DEF RunsInv, TypeOK, Justified, PassRun, PassOK

(* Its automation, its phase and its first write, whichever that is.       *)
Issued(a, r, ph) ==
  /\ phase[r] = "none"
  /\ auto' \in [Run -> Automation \cup {None}] /\ auto'[r] = a
  /\ phase' \in [Run -> RunPhases] /\ phase'[r] = ph
  /\ \A x \in Run \ {r} : /\ phase'[x] = phase[x] /\ auto'[x] = auto[x]
                         /\ occurrence'[x] = occurrence[x]
  /\ DOMAIN occurrence' = Run /\ UNCHANGED <<stopped, session, log>>
  /\ \E w \in Writes : /\ w.run = r /\ w.by = "run" /\ w.what = Recording(ph)
                        /\ queue' = Append(queue, w)

LEMMA IssuedAs ==
  ASSUME RunsInv, NEW a \in Automation, NEW r \in Run, NEW time, IsNextRun(r),
         NEW ph \in {"skipping", "recording"}, NEW what, what = Recording(ph),
         auto' = [auto EXCEPT ![r] = a], phase' = [phase EXCEPT ![r] = ph],
         occurrence' = [occurrence EXCEPT ![r] = time],
         UNCHANGED <<stopped, session>>, Enqueue(EntryWrite(what, r))
  PROVE  Issued(a, r, ph)
  <1>1. phase[r] = "none" /\ TypeOK
    BY DEF IsNextRun, Unissued, RunsInv
  <1>2. /\ auto' \in [Run -> Automation \cup {None}] /\ auto'[r] = a
        /\ phase' \in [Run -> RunPhases] /\ phase'[r] = ph
        /\ \A x \in Run \ {r} : phase'[x] = phase[x] /\ auto'[x] = auto[x]
    BY <1>1 DEF TypeOK, RunPhases
  <1>3. /\ DOMAIN occurrence' = Run
        /\ \A x \in Run \ {r} : occurrence'[x] = occurrence[x]
    BY <1>1 DEF TypeOK
  <1> DEFINE w == [what |-> what, run |-> r, auto |-> a, times |-> {}, by |-> "run"]
  <1>4. queue' = Append(queue, w) /\ log' = log
    BY <1>2 DEF Enqueue, EntryWrite
  <1>5. w \in Writes /\ w.run = r /\ w.by = "run" /\ w.what = Recording(ph)
    BY DEF Writes, Recording
  <1> HIDE DEF w
  <1> QED BY <1>1, <1>2, <1>3, <1>4, <1>5 DEF Issued

LEMMA FireIssues ==
  ASSUME RunsInv, NEW a \in Automation, NEW time, NEW r \in Run, IsNextRun(r),
         Fire(a, time, r)
  PROVE  \E ph \in {"skipping", "recording"} : Issued(a, r, ph)
  <1>1. /\ auto' = [auto EXCEPT ![r] = a]
        /\ occurrence' = [occurrence EXCEPT ![r] = time]
        /\ UNCHANGED <<stopped, session>>
    BY DEF Fire
  <1>2. CASE phase' = [phase EXCEPT ![r] = "skipping"]
             /\ Enqueue(EntryWrite("skipped", r))
    <2>1. "skipped" = Recording("skipping")
      BY DEF Recording
    <2> QED BY <1>1, <1>2, <2>1, IssuedAs
  <1>3. CASE phase' = [phase EXCEPT ![r] = "recording"]
             /\ Enqueue(EntryWrite("running", r))
    <2>1. "running" = Recording("recording")
      BY DEF Recording
    <2> QED BY <1>1, <1>3, <2>1, IssuedAs
  <1> QED BY <1>2, <1>3 DEF Fire

LEMMA RunNowStep ==
  ASSUME RunsInv, NEW a \in Automation, RunNow(a)
  PROVE  RunsInv'
  <1>1. PICK r \in Run : IsNextRun(r) /\ Fire(a, 0, r)
    BY DEF RunNow
  <1>2. up /\ up' = up /\ UNCHANGED <<pass, reg, inFlight>>
    BY DEF RunNow, engine
  <1>3. PICK ph \in {"skipping", "recording"} : Issued(a, r, ph)
    BY <1>1, FireIssues
  <1>4. phase[r] = "none" /\ log' = log
    BY <1>3 DEF Issued
  <1>5. occurrence'[r] = 0 /\ \A x \in Run \ {r} : occurrence'[x] = occurrence[x]
    BY <1>1, <1>3 DEF Fire, Issued, RunsInv, TypeOK
  <1>6. PassOK(pass) /\ inFlight \in [Automation -> Run \cup {None}]
    BY DEF RunsInv, TypeOK
  <1>7. /\ TypeOK' /\ QueueOK(queue, phase, pass, reg)' /\ DownHoldsNothing'
        /\ \A x \in Run : Logged(x)' /\ Shell(x)'
        /\ phase'[r] = ph /\ auto'[r] = a
        /\ \A x \in Run \ {r} : phase'[x] = phase[x] /\ auto'[x] = auto[x]
    BY <1>2, <1>3, <1>6, IssueFacts DEF Issued
  <1>8. PassRun'
    BY <1>2, <1>4, <1>6, <1>7 DEF RunsInv, PassRun, PassOK
  <1>9. ASSUME NEW x \in Run PROVE Remembered(x)'
    BY <1>2, <1>5, <1>7 DEF RunsInv, RunOK, Remembered, InProgress
  <1>10. ASSUME NEW b \in Automation PROVE Justified(b)'
    <2> SUFFICES ASSUME inFlight[b] # None PROVE Justified(b)'
      BY <1>2 DEF Justified
    <2>1. inFlight[b] \in Run \ {r}
      BY <1>4, RememberedIssued
    <2> QED BY <1>2, <1>4, <1>7, <2>1 DEF RunsInv, Justified
  <1> QED BY <1>7, <1>8, <1>9, <1>10 DEF RunsInv, RunOK

LEMMA RunOccurrenceStep ==
  ASSUME RunsInv, RunOccurrence
  PROVE  RunsInv'
  <1> DEFINE a == pass.at
  <1>1. /\ up /\ up' = up /\ reg' = reg /\ pass.stage = "due" /\ PassOK(pass)
        /\ inFlight \in [Automation -> Run \cup {None}]
    BY DEF RunOccurrence, RunsInv, TypeOK
  <1>2. a \in Automation /\ pass.run = None
    BY <1>1 DEF PassOK
  <1>3. PICK r \in Run :
          /\ IsNextRun(r)
          /\ pass' = [pass EXCEPT !.stage = "run", !.run = r]
          /\ IF inFlight[a] # None THEN SkipOccurrence(a, r)
             ELSE /\ Fire(a, pass.latest, r)
                  /\ inFlight' = [inFlight EXCEPT ![a] = r]
    BY DEF RunOccurrence
  <1>4. phase[r] = "none"
    BY <1>3 DEF IsNextRun, Unissued
  <1>5. PassOK(pass') /\ pass'.run = r /\ pass'.at = a /\ pass'.stage = "run"
    <2>1. PICK Any : pass \in [kind : Any, now : Any, todo : Any, at : Any, stage : Any, late : Any, latest : Any,
                               active : Any, run : Any]
      BY <1>1 DEF PassOK, IsPass
    <2> DEFINE More == Any \cup {"run", r}
    <2>2. pass' \in [kind : More, now : More, todo : More, at : More, stage : More, late : More, latest : More,
                     active : More, run : More]
      BY <1>3, <2>1
    <2>3. pass'.run = r /\ pass'.at = a /\ pass'.stage = "run"
      BY <1>3, <2>1
    <2>4. a # None
      BY <1>2, AutomationAssumption
    <2> HIDE DEF More, a
    <2>5. IsPass(pass')
      BY <2>2 DEF IsPass
    <2> QED BY <1>2, <2>3, <2>4, <2>5 DEF PassOK
  <1>6. \A b \in Automation : inFlight[b] # None =>
          /\ inFlight[b] \in Run \ {r} /\ auto[inFlight[b]] = b
          /\ phase[inFlight[b]] \in {"live", "finishing"}
          /\ log[inFlight[b]] = "running"
    BY <1>2, <1>4, RememberedIssued DEF RunsInv, Justified
  <1> HIDE DEF a
  <1>7. CASE inFlight[a] # None
    <2>1. Issued(a, r, "skipping") /\ inFlight' = inFlight
      <3>1. "skipped" = Recording("skipping")
        BY DEF Recording
      <3> QED BY <1>2, <1>3, <1>7, <3>1, IssuedAs DEF SkipOccurrence
    <2>2. /\ \A x \in Run \ {r} : occurrence'[x] = occurrence[x]
          /\ log' = log
      BY <2>1 DEF Issued
    <2>4. /\ TypeOK' /\ QueueOK(queue, phase, pass, reg)' /\ DownHoldsNothing'
          /\ \A x \in Run : Logged(x)' /\ Shell(x)'
          /\ phase'[r] = "skipping" /\ auto'[r] = a
          /\ \A x \in Run \ {r} : phase'[x] = phase[x] /\ auto'[x] = auto[x]
      BY <1>1, <1>5, <2>1, IssueFacts DEF Issued
    <2>5. PassRun'
      BY <1>5, <2>4 DEF PassRun
    <2>6. ASSUME NEW x \in Run PROVE Remembered(x)'
      BY <2>1, <2>2, <2>4 DEF RunsInv, RunOK, Remembered, InProgress
    <2>7. ASSUME NEW b \in Automation PROVE Justified(b)'
      BY <1>6, <2>1, <2>2, <2>4 DEF Justified
    <2> QED BY <2>4, <2>5, <2>6, <2>7 DEF RunsInv, RunOK
  <1>8. CASE inFlight[a] = None
    <2>1. Fire(a, pass.latest, r) /\ inFlight' = [inFlight EXCEPT ![a] = r]
      BY <1>3, <1>8
    <2>2. PICK ph \in {"skipping", "recording"} : Issued(a, r, ph)
      BY <1>2, <1>3, <2>1, FireIssues
    <2>3. /\ \A x \in Run \ {r} : occurrence'[x] = occurrence[x]
          /\ log' = log
      BY <2>2 DEF Issued
    <2>5. /\ inFlight' \in [Automation -> Run \cup {None}] /\ inFlight'[a] = r
          /\ \A b \in Automation \ {a} : inFlight'[b] = inFlight[b]
      BY <1>1, <1>2, <2>1
    <2>6. /\ TypeOK' /\ QueueOK(queue, phase, pass, reg)' /\ DownHoldsNothing'
          /\ \A x \in Run : Logged(x)' /\ Shell(x)'
          /\ phase'[r] = ph /\ auto'[r] = a
          /\ \A x \in Run \ {r} : phase'[x] = phase[x] /\ auto'[x] = auto[x]
      BY <1>1, <1>5, <2>2, <2>5, IssueFacts DEF Issued
    <2>7. PassRun'
      BY <1>5, <2>6 DEF PassRun
    <2>8. ASSUME NEW x \in Run PROVE Remembered(x)'
      <3>1. CASE x = r
        BY <1>2, <2>5, <2>6, <3>1 DEF Remembered
      <3>2. CASE x # r
        <4>1. Remembered(x) /\ x # None
          BY AutomationAssumption DEF RunsInv, RunOK
        <4> QED BY <1>8, <2>3, <2>5, <2>6, <3>2, <4>1 DEF Remembered, InProgress
      <3> QED BY <3>1, <3>2
    <2>9. ASSUME NEW b \in Automation PROVE Justified(b)'
      <3>1. CASE b = a
        BY <1>5, <2>5, <2>6, <3>1 DEF Justified
      <3>2. CASE b # a
        BY <1>6, <2>3, <2>5, <2>6, <3>2 DEF Justified
      <3> QED BY <3>1, <3>2
    <2> QED BY <2>6, <2>7, <2>8, <2>9 DEF RunsInv, RunOK
  <1> QED BY <1>7, <1>8

-----------------------------------------------------------------------------
(* A run in progress asks for its next write: of its session, when it      *)
(* starts its shell, of its end otherwise.                                 *)
LEMMA WaitFacts ==
  ASSUME RunsInv, up, up' = up, UNCHANGED <<pass, reg, inFlight>>, NEW r \in Run,
         phase[r] \in {"starting", "live"},
         NEW ph \in {"updating", "failing", "finishing"},
         phase' = [phase EXCEPT ![r] = ph],
         NEW what, what = Recording(ph), Enqueue(EntryWrite(what, r)),
         UNCHANGED <<auto, occurrence>>, stopped' \in [Run -> BOOLEAN],
         session' \in [Run -> {"none", "alive", "dying", "over"}]
  PROVE  /\ TypeOK' /\ QueueOK(queue, phase, pass, reg)' /\ DownHoldsNothing' /\ PassRun'
         /\ phase'[r] = ph /\ \A x \in Run \ {r} : phase'[x] = phase[x]
         /\ log' = log /\ log[r] = "running"
  <1>1. TypeOK /\ QueueOK(queue, phase, pass, reg) /\ PassRun /\ RunOK(r)
    BY DEF RunsInv
  <1>2. /\ phase' \in [Run -> RunPhases] /\ phase'[r] = ph
        /\ \A x \in Run \ {r} : phase'[x] = phase[x]
    BY <1>1 DEF TypeOK, RunPhases
  <1>3. PICK w \in Writes : /\ w.run = r /\ w.by = "run" /\ w.what = Recording(ph)
                           /\ queue' = Append(queue, w)
    <2> DEFINE v == [what |-> what, run |-> r, auto |-> auto[r], times |-> {},
                     by |-> "run"]
    <2>1. queue' = Append(queue, v)
      BY DEF Enqueue, EntryWrite
    <2>2. v \in Writes /\ v.run = r /\ v.by = "run" /\ v.what = Recording(ph)
      BY <1>1 DEF Writes, Recording, TypeOK
    <2> HIDE DEF v
    <2> QED BY <2>1, <2>2
  <1>4. log' = log
    BY DEF Enqueue
  <1>5. Pending(w, phase', pass', reg')
    BY <1>2, <1>3 DEF Pending, Recording, Waiting
  <1>6. ASSUME NEW i \in DOMAIN queue
        PROVE  queue[i].run # r /\ Pending(queue[i], phase', pass', reg')
    <2>1. Pending(queue[i], phase, pass, reg)
      BY <1>1 DEF QueueOK
    <2>2. queue[i].run # r
      BY <2>1, AutomationAssumption DEF Pending, Waiting
    <2> QED BY <1>2, <2>1, <2>2 DEF Pending
  <1>7. queue' \in Seq(Writes) /\ QueueOK(queue', phase', pass', reg')
    <2>1. queue \in Seq(Writes) /\ QueueOK(queue, phase, pass, reg)
      BY <1>1 DEF TypeOK
    <2>2. \A i \in DOMAIN queue : /\ ~ Same(queue[i], w)
                                  /\ Pending(queue[i], phase', pass', reg')
      BY <1>3, <1>6 DEF Same
    <2> QED BY <1>3, <1>5, <2>1, <2>2, QueueGrows
  <1>8. TypeOK' /\ DownHoldsNothing'
    BY <1>1, <1>2, <1>4, <1>7 DEF TypeOK, DownHoldsNothing
  <1>9. PassRun'
    BY <1>1, <1>2 DEF PassRun, TypeOK, PassOK
  <1>10. log[r] = "running"
    BY <1>1 DEF RunOK, Logged, Running
  <1> QED BY <1>2, <1>4, <1>7, <1>8, <1>9, <1>10

LEMMA SpawnStep ==
  ASSUME RunsInv, NEW r \in Run, Spawn(r)
  PROVE  RunsInv'
  <1>1. /\ up /\ phase[r] = "starting" /\ phase' = [phase EXCEPT ![r] = "updating"]
        /\ session' = [session EXCEPT ![r] = "alive"]
        /\ Enqueue(EntryWrite("running", r))
        /\ UNCHANGED <<up, pass, reg, inFlight, auto, occurrence, stopped>>
    BY DEF Spawn, Goto, engine
  <1>2. "running" = Recording("updating")
    BY DEF Recording
  <1>3. /\ session' \in [Run -> {"none", "alive", "dying", "over"}]
        /\ \A x \in Run \ {r} : session'[x] = session[x]
        /\ stopped' \in [Run -> BOOLEAN]
    BY <1>1 DEF RunsInv, TypeOK
  <1>4. /\ TypeOK' /\ QueueOK(queue, phase, pass, reg)' /\ DownHoldsNothing' /\ PassRun'
        /\ phase'[r] = "updating" /\ \A x \in Run \ {r} : phase'[x] = phase[x]
        /\ log' = log /\ log[r] = "running"
    BY <1>1, <1>2, <1>3, WaitFacts
  <1>5. ASSUME NEW x \in Run PROVE RunOK(x)'
    <2>1. RunOK(x)
      BY DEF RunsInv
    <2>2. CASE x = r
      BY <1>1, <1>4, <2>1, <2>2
      DEF RunOK, Logged, Shell, Remembered, InProgress, Running
    <2>3. CASE x # r
      BY <1>1, <1>3, <1>4, <2>1, <2>3
      DEF RunOK, Logged, Shell, Remembered, InProgress, Running
    <2> QED BY <2>2, <2>3
  <1>6. ASSUME NEW a \in Automation PROVE Justified(a)'
    BY <1>1, <1>4 DEF RunsInv, TypeOK, Justified
  <1> QED BY <1>4, <1>5, <1>6 DEF RunsInv

(* A run ends, and its shell with it.                                      *)
LEMMA CompleteStep ==
  ASSUME RunsInv, up, NEW r \in Run, NEW from, NEW to,
         (from = "starting" /\ to = "failing") \/ (from = "live" /\ to = "finishing"),
         Complete(r, from, to),
         session' \in [Run -> {"none", "alive", "dying", "over"}],
         session'[r] # "alive", \A x \in Run \ {r} : session'[x] = session[x]
  PROVE  RunsInv'
  <1>1. /\ phase[r] = from /\ phase' = [phase EXCEPT ![r] = to]
        /\ stopped' = [stopped EXCEPT ![r] = FALSE]
        /\ Enqueue(EntryWrite("finished", r))
        /\ UNCHANGED <<up, pass, reg, inFlight, auto, occurrence>>
    BY DEF Complete, Goto, engine
  <1>2. /\ "finished" = Recording(to) /\ to \in {"failing", "finishing"}
        /\ from \in {"starting", "live"}
    BY DEF Recording
  <1>3. /\ stopped' \in [Run -> BOOLEAN]
        /\ \A x \in Run \ {r} : stopped'[x] = stopped[x]
    BY <1>1 DEF RunsInv, TypeOK
  <1>4. /\ TypeOK' /\ QueueOK(queue, phase, pass, reg)' /\ DownHoldsNothing' /\ PassRun'
        /\ phase'[r] = to /\ \A x \in Run \ {r} : phase'[x] = phase[x]
        /\ log' = log /\ log[r] = "running"
    BY <1>1, <1>2, <1>3, WaitFacts
  <1>5. ASSUME NEW x \in Run PROVE RunOK(x)'
    <2>1. RunOK(x)
      BY DEF RunsInv
    <2>2. CASE x = r
      BY <1>1, <1>2, <1>4, <2>1, <2>2
      DEF RunOK, Logged, Shell, Remembered, InProgress, Running
    <2>3. CASE x # r
      BY <1>1, <1>3, <1>4, <2>1, <2>3
      DEF RunOK, Logged, Shell, Remembered, InProgress, Running
    <2> QED BY <2>2, <2>3
  <1>6. ASSUME NEW a \in Automation PROVE Justified(a)'
    <2>1. Justified(a)
      BY DEF RunsInv
    <2> QED BY <1>1, <1>2, <1>4, <2>1 DEF RunsInv, TypeOK, Justified
  <1> QED BY <1>4, <1>5, <1>6 DEF RunsInv

LEMMA SpawnFailsStep ==
  ASSUME RunsInv, NEW r \in Run, SpawnFails(r)
  PROVE  RunsInv'
  <1>1. /\ up /\ Complete(r, "starting", "failing")
        /\ session' = session \/ session' = [session EXCEPT ![r] = "dying"]
    BY DEF SpawnFails
  <1>2. session[r] # "alive"
    BY <1>1 DEF Complete, Goto, RunsInv, RunOK, Shell
  <1>3. /\ session' \in [Run -> {"none", "alive", "dying", "over"}]
        /\ session'[r] # "alive" /\ \A x \in Run \ {r} : session'[x] = session[x]
    BY <1>1, <1>2 DEF RunsInv, TypeOK
  <1> QED BY <1>1, <1>3, CompleteStep

LEMMA CommandExitedStep ==
  ASSUME RunsInv, NEW r \in Run, CommandExited(r)
  PROVE  RunsInv'
  <1>1. /\ up /\ session[r] = "over" /\ Complete(r, "live", "finishing")
        /\ session' = session
    BY DEF CommandExited
  <1>2. session \in [Run -> {"none", "alive", "dying", "over"}]
    BY DEF RunsInv, TypeOK
  <1> QED BY <1>1, <1>2, CompleteStep

(* Shells are told to end, or end; a stop that finds none yet is noted.    *)
LEMMA SessionStep ==
  ASSUME RunsInv, up' = up,
         UNCHANGED <<pass, reg, phase, auto, occurrence, log, queue, inFlight>>,
         stopped' \in [Run -> BOOLEAN],
         session' \in [Run -> {"none", "alive", "dying", "over"}],
         \A x \in Run : /\ session'[x] # "none" => session[x] # "none"
                        /\ session'[x] = "alive" =>
                             session[x] = "alive" /\ stopped'[x] = stopped[x]
  PROVE  RunsInv'
  <1>1. TypeOK' /\ DownHoldsNothing' /\ PassRun' /\ QueueOK(queue, phase, pass, reg)'
    BY DEF RunsInv, TypeOK, DownHoldsNothing, PassRun, QueueOK, Pending
  <1>2. \A r \in Run : RunOK(r)'
    BY DEF RunsInv, RunOK, Logged, Shell, Remembered, InProgress, Running
  <1>3. \A a \in Automation : Justified(a)'
    BY DEF RunsInv, Justified
  <1> QED BY <1>1, <1>2, <1>3 DEF RunsInv

LEMMA ShellSteps ==
  ASSUME RunsInv, NEW r \in Run, TimeOut(r) \/ Stop(r) \/ ShellExits(r)
  PROVE  RunsInv'
  <1>1. /\ up' = up
        /\ UNCHANGED <<pass, reg, phase, auto, occurrence, log, queue, inFlight>>
    BY DEF TimeOut, Stop, ShellExits, engine, runLog
  <1>2. /\ stopped' = stopped \/ stopped' = [stopped EXCEPT ![r] = TRUE]
        /\ session' = Killed(r) \/ (ShellExits(r) /\ session' = [session EXCEPT ![r] = "over"])
    BY DEF TimeOut, Stop, ShellExits
  <1>0. ShellExits(r) => session[r] # "none"
    BY DEF ShellExits
  <1>3. /\ stopped' \in [Run -> BOOLEAN]
        /\ session' \in [Run -> {"none", "alive", "dying", "over"}]
        /\ session'[r] # "alive" /\ (session'[r] # "none" => session[r] # "none")
        /\ \A x \in Run \ {r} : session'[x] = session[x] /\ stopped'[x] = stopped[x]
    BY <1>2, <1>0 DEF Killed, RunsInv, TypeOK
  <1> QED BY <1>1, <1>3, SessionStep

-----------------------------------------------------------------------------
LEMMA WriteMissedStep ==
  ASSUME RunsInv, WriteLog, Head(queue).what = "missed"
  PROVE  RunsInv'
  <1> DEFINE w == Head(queue)
  <1>1. /\ up /\ queue # <<>> /\ queue' = Tail(queue)
        /\ UNCHANGED <<up, phase, auto, occurrence, stopped, session, log, inFlight>>
        /\ \/ /\ w.by = "reg" /\ pass' = pass
              /\ reg' = [reg EXCEPT !.stage = "mark"]
           \/ /\ w.by = "pass" /\ reg' = reg
              /\ pass' = IF pass.active THEN [pass EXCEPT !.stage = "mark"]
                         ELSE EntryDone(pass)
    BY DEF WriteLog, WriteMissed, runs
  <1>2. /\ queue \in Seq(Writes) /\ QueueOK(queue, phase, pass, reg)
        /\ PassOK(pass) /\ RegOK(reg)
    BY DEF RunsInv, TypeOK
  <1>3. Pending(w, phase, pass, reg) /\ w.what = "missed"
    BY <1>1, <1>2, TailOK
  <1>4. /\ w.run = None
        /\ \/ w.by = "pass" /\ pass.stage = "missed"
           \/ w.by = "reg" /\ reg.stage = "missed"
    BY <1>3 DEF Pending
  <1> HIDE DEF w
  <1>5. /\ PassOK(pass') /\ pass'.run = pass.run /\ RegOK(reg')
        /\ pass'.stage = "run" => pass' = pass
        /\ w.by # "pass" => pass' = pass
        /\ w.by # "reg" => reg' = reg
    <2>1. CASE w.by = "reg"
      <3>1. reg' = [reg EXCEPT !.stage = "mark"] /\ pass' = pass
        BY <1>1, <2>1
      <3>2. PICK Any : reg \in [on : Any, now : Any, todo : Any, from : Any, at : Any,
                                stage : Any, late : Any]
        BY <1>2 DEF RegOK, IsReg
      <3> DEFINE More == Any \cup {"mark"}
      <3>3. /\ reg' \in [on : More, now : More, todo : More, from : More, at : More,
                          stage : More, late : More]
            /\ reg'.at = reg.at
        BY <3>1, <3>2
      <3>4. reg.at \in Automation \cup {None} /\ reg.at # None
        BY <1>2, <1>4, <2>1 DEF RegOK
      <3>5. RegOK(reg')
        BY <3>3, <3>4 DEF RegOK, IsReg
      <3> QED BY <1>2, <2>1, <3>1, <3>5
    <2>2. CASE w.by = "pass"
      <3>1. /\ pass.stage = "missed" /\ reg' = reg
            /\ pass' = IF pass.active THEN [pass EXCEPT !.stage = "mark"]
                       ELSE EntryDone(pass)
        BY <1>1, <1>4, <2>2
      <3>2. pass.at # None /\ pass.run = None
        BY <1>2, <3>1 DEF PassOK
      <3>3. CASE pass.active
        BY <1>2, <2>2, <3>1, <3>2, <3>3, StageOK
      <3>4. CASE ~ pass.active
        BY <1>2, <2>2, <3>1, <3>2, <3>4, EntryDoneOK
      <3> QED BY <3>3, <3>4
    <2> QED BY <1>4, <2>1, <2>2
  <1>7. \A v \in Writes : ~ Same(v, w) /\ Pending(v, phase, pass, reg)
                             => Pending(v, phase, pass', reg')
    BY <1>4, <1>5 DEF Pending, Same
  <1>8. queue' \in Seq(Writes) /\ QueueOK(queue', phase, pass', reg')
    BY <1>1, <1>2, <1>7, TailOK DEF w
  <1>9. TypeOK' /\ QueueOK(queue, phase, pass, reg)' /\ DownHoldsNothing' /\ PassRun'
    BY <1>1, <1>5, <1>8 DEF RunsInv, TypeOK, DownHoldsNothing, PassRun
  <1>10. \A r \in Run : RunOK(r)'
    BY <1>1 DEF RunsInv, RunOK, Logged, Shell, Remembered, InProgress, Running
  <1>11. \A a \in Automation : Justified(a)'
    BY <1>1, <1>5 DEF RunsInv, Justified
  <1> QED BY <1>9, <1>10, <1>11 DEF RunsInv

LEMMA WriteEntryStep ==
  ASSUME RunsInv, WriteLog, Head(queue).what # "missed"
  PROVE  RunsInv'
  <1> DEFINE w == Head(queue)
             r == w.run
  <1>1. /\ up /\ queue # <<>> /\ queue' = Tail(queue)
        /\ UNCHANGED <<up, pass, reg, auto, occurrence, stopped>>
        /\ log' = [log EXCEPT ![r] = w.what]
        /\ phase' = [phase EXCEPT ![r] = Written(r)]
        /\ session' = IF phase[r] = "updating" /\ stopped[r] THEN Killed(r) ELSE session
        /\ inFlight' = Observed(w)
    BY DEF WriteLog, WriteEntry, runs
  <1>2. queue \in Seq(Writes) /\ QueueOK(queue, phase, pass, reg) /\ TypeOK /\ PassOK(pass)
    BY DEF RunsInv, TypeOK
  <1>3. Pending(w, phase, pass, reg) /\ w \in Writes
    BY <1>1, <1>2, TailOK
  <1>4. /\ r \in Run /\ phase[r] \in Waiting /\ w.what = Recording(phase[r])
        /\ w.by = "run"
        /\ r # None
    BY <1>3, AutomationAssumption DEF Pending
  <1> HIDE DEF w, r
  <1>5. /\ phase' \in [Run -> RunPhases] /\ phase'[r] = Written(r)
        /\ \A x \in Run \ {r} : phase'[x] = phase[x]
    BY <1>1, <1>2, <1>4 DEF TypeOK, RunPhases, Written
  <1>6. w.what \in {"running", "skipped", "finished"}
    BY <1>4 DEF Recording
  <1>7. /\ log' \in [Run -> {"none", "running", "skipped", "finished"}]
        /\ log'[r] = w.what /\ \A x \in Run \ {r} : log'[x] = log[x]
    BY <1>1, <1>2, <1>4, <1>6 DEF TypeOK
  <1>8. /\ session' \in [Run -> {"none", "alive", "dying", "over"}]
        /\ \A x \in Run \ {r} : session'[x] = session[x]
        /\ session'[r] = "alive" => /\ session[r] = "alive"
                                   /\ ~ (phase[r] = "updating" /\ stopped[r])
    BY <1>1, <1>2, <1>4 DEF TypeOK, Killed
  <1>9. /\ inFlight' \in [Automation -> Run \cup {None}]
        /\ \A a \in Automation :
             inFlight'[a] = IF inFlight[a] = r /\ pass.run # r /\ w.what # "running"
                            THEN None ELSE inFlight[a]
    BY <1>1, <1>2 DEF TypeOK, Observed, r
  <1>10. \A v \in Writes : ~ Same(v, w) /\ Pending(v, phase, pass, reg)
                              => Pending(v, phase', pass', reg')
    BY <1>1, <1>4, <1>5 DEF Pending, Same, r
  <1>11. queue' \in Seq(Writes) /\ QueueOK(queue', phase', pass', reg')
    BY <1>1, <1>2, <1>10, TailOK DEF r, w
  <1>12. TypeOK'
    BY <1>1, <1>2, <1>5, <1>7, <1>8, <1>9, <1>11 DEF TypeOK
  <1>13. DownHoldsNothing'
    BY <1>1 DEF DownHoldsNothing
  <1>14. PassRun'
    BY <1>1, <1>2, <1>4, <1>5 DEF RunsInv, PassRun, PassOK, Written, Waiting
  <1>15. ASSUME NEW x \in Run PROVE RunOK(x)'
    <2>1. RunOK(x)
      BY DEF RunsInv
    <2>2. CASE x = r
      <3>1. /\ phase[r] = "recording" => phase'[r] = "starting" /\ log'[r] = "running"
            /\ phase[r] = "updating" => phase'[r] = "live" /\ log'[r] = "running"
            /\ phase[r] \notin {"recording", "updating"}
                 => phase'[r] = "ended" /\ log'[r] # "running"
        BY <1>4, <1>5, <1>7 DEF Written, Recording, Waiting
      <3>2. Logged(x)'
        BY <2>2, <3>1 DEF Logged, InProgress, Running
      <3>3. Shell(x)'
        BY <1>1, <1>4, <1>8, <2>1, <2>2, <3>1 DEF RunOK, Shell, Waiting
      <3>4. Remembered(x)'
        <4> SUFFICES ASSUME phase'[r] \in {"starting", "live"}
                     PROVE  /\ auto[r] \in Automation
                            /\ occurrence[r] # 0 => inFlight'[auto[r]] = r
          BY <1>1, <2>2, <3>1 DEF Remembered, InProgress, Running
        <4>1. phase[r] \in {"recording", "updating"} /\ w.what = "running"
          BY <1>4, <3>1 DEF Recording
        <4>2. Remembered(r) /\ r \in InProgress
          BY <1>4, <2>1, <2>2, <4>1 DEF RunOK, InProgress, Running
        <4> QED BY <1>9, <4>1, <4>2 DEF Remembered
      <3> QED BY <2>2, <3>2, <3>3, <3>4 DEF RunOK
    <2>3. CASE x # r
      BY <1>1, <1>5, <1>7, <1>8, <1>9, <2>1, <2>3
      DEF RunOK, Logged, Shell, Remembered, InProgress, Running
    <2> QED BY <2>2, <2>3
  <1>16. ASSUME NEW a \in Automation PROVE Justified(a)'
    <2> SUFFICES ASSUME inFlight'[a] # None PROVE Justified(a)'
      BY DEF Justified
    <2>1. inFlight'[a] = inFlight[a] /\ inFlight[a] \in Run /\ Justified(a)
      BY <1>2, <1>9 DEF RunsInv, TypeOK
    <2>2. CASE inFlight[a] = r
      <3>1. pass.run = r \/ w.what = "running"
        BY <1>4, <1>9, <2>1, <2>2
      <3>2. pass.run = r
        BY <1>4, <2>1, <2>2, <3>1 DEF Justified, Waiting, Recording
      <3> QED BY <1>1, <2>1, <2>2, <3>2 DEF Justified
    <2>3. CASE inFlight[a] # r
      BY <1>1, <1>5, <1>7, <2>1, <2>3 DEF Justified
    <2> QED BY <2>2, <2>3
  <1> QED BY <1>1, <1>11, <1>12, <1>13, <1>14, <1>15, <1>16 DEF RunsInv

LEMMA ResolvedStep ==
  ASSUME RunsInv, Resolved
  PROVE  RunsInv'
  <1> DEFINE r == pass.run
             a == pass.at
  <1>1. /\ up /\ up' = up /\ pass.stage = "run"
        /\ phase[r] \in {"live", "finishing", "ended"}
        /\ inFlight' = IF inFlight[a] = r /\ log[r] # "running"
                       THEN [inFlight EXCEPT ![a] = None] ELSE inFlight
        /\ pass' = EntryDone(pass)
        /\ UNCHANGED <<phase, auto, occurrence, stopped, session, log, queue, reg>>
    BY DEF Resolved, runs, runLog
  <1>2. TypeOK /\ PassOK(pass) /\ \A x \in Run : RunOK(x)
    BY DEF RunsInv, TypeOK
  <1>3. r \in Run /\ a \in Automation /\ auto[r] = a
    BY <1>1, <1>2 DEF PassOK, RunsInv, PassRun
  <1>4. /\ PassOK(pass') /\ pass'.run = None /\ pass'.stage = "idle"
    BY <1>1, <1>2, EntryDoneOK
  <1>5. /\ inFlight' \in [Automation -> Run \cup {None}]
        /\ \A b \in Automation :
             inFlight'[b] = IF b = a /\ inFlight[a] = r /\ log[r] # "running"
                            THEN None ELSE inFlight[b]
    BY <1>1, <1>2, <1>3 DEF TypeOK
  <1> HIDE DEF r, a
  <1>6. TypeOK' /\ DownHoldsNothing' /\ PassRun'
    BY <1>1, <1>2, <1>4, <1>5 DEF TypeOK, DownHoldsNothing, PassRun
  <1>7. QueueOK(queue, phase, pass, reg)'
    BY <1>1 DEF RunsInv, QueueOK, Pending
  <1>8. ASSUME NEW x \in Run PROVE RunOK(x)'
    <2>1. Logged(x)' /\ Shell(x)'
      BY <1>1, <1>2 DEF RunOK, Logged, Shell, InProgress, Running
    <2>2. Remembered(x)'
      <3> SUFFICES ASSUME x \in InProgress PROVE Remembered(x)'
        BY <1>1 DEF Remembered, InProgress
      <3>1. auto[x] \in Automation /\ (occurrence[x] # 0 => inFlight[auto[x]] = x)
        BY <1>2 DEF RunOK, Remembered
      <3>2. x = r => log[x] = "running"
        BY <1>1, <1>2 DEF RunOK, Logged, InProgress, Running
      <3> QED BY <1>1, <1>5, <3>1, <3>2 DEF Remembered
    <2> QED BY <2>1, <2>2 DEF RunOK
  <1>9. ASSUME NEW b \in Automation PROVE Justified(b)'
    <2> SUFFICES ASSUME inFlight'[b] # None PROVE Justified(b)'
      BY DEF Justified
    <2>1. inFlight'[b] = inFlight[b] /\ Justified(b) /\ inFlight[b] # None
      BY <1>5 DEF RunsInv
    <2>2. CASE inFlight[b] = r
      <3>1. b = a
        BY <1>3, <2>1, <2>2 DEF Justified
      <3>2. log[r] = "running"
        BY <1>5, <2>1, <2>2, <3>1
      <3>3. phase[r] \in {"live", "finishing"}
        BY <1>1, <1>2, <1>3, <3>2 DEF RunOK, Logged, InProgress
      <3> QED BY <1>1, <2>1, <2>2, <3>2, <3>3 DEF Justified
    <2>3. CASE inFlight[b] # r
      BY <1>1, <2>1, <2>3 DEF Justified, r
    <2> QED BY <2>2, <2>3
  <1> QED BY <1>6, <1>7, <1>8, <1>9 DEF RunsInv

-----------------------------------------------------------------------------
(* A server that died, or starts again, holds nothing.                     *)
LEMMA CrashStep ==
  ASSUME RunsInv, Crash
  PROVE  RunsInv'
  <1>1. /\ pass' = [kind |-> "none", now |-> 0, todo |-> {}, at |-> None,
                    stage |-> "idle", late |-> {}, latest |-> 0, active |-> FALSE,
                    run |-> None]
        /\ reg' = [on |-> FALSE, now |-> 0, todo |-> {},
                   from |-> [a \in Automation |-> 0], at |-> None,
                   stage |-> "idle", late |-> {}]
        /\ up /\ up' = FALSE /\ queue' = <<>> /\ log' = log
        /\ auto' = auto /\ occurrence' = occurrence
    BY DEF Crash, NoPass, NoRegistration
  <1>2. PassOK(pass') /\ pass'.run = None /\ pass'.stage = "idle" /\ RegOK(reg')
    BY <1>1, FreshPassOK, FreshRegOK
  <1>3. /\ inFlight' \in [Automation -> Run \cup {None}]
        /\ \A a \in Automation : inFlight'[a] = None
    BY DEF Crash
  <1>4. /\ phase' \in [Run -> RunPhases]
        /\ \A r \in Run : /\ phase[r] \in {"none", "ended"} => phase'[r] = phase[r]
                          /\ phase[r] \notin {"none", "ended"} => phase'[r] = "cut"
    BY DEF Crash, RunPhases
  <1>5. /\ stopped' \in [Run -> BOOLEAN]
        /\ session' \in [Run -> {"none", "alive", "dying", "over"}]
        /\ \A r \in Run : session'[r] \in LeftBehind(r)
    BY DEF Crash
  <1>6. TypeOK'
    BY <1>1, <1>2, <1>3, <1>4, <1>5, EmptyOK DEF RunsInv, TypeOK
  <1>7. QueueOK(queue, phase, pass, reg)' /\ PassRun' /\ DownHoldsNothing'
    BY <1>1, <1>2, <1>3, <1>4, EmptyOK DEF PassRun, DownHoldsNothing
  <1>8. ASSUME NEW r \in Run PROVE RunOK(r)'
    <2>1. Shell(r) /\ session[r] \in {"none", "alive", "dying", "over"}
      BY DEF RunsInv, RunOK, TypeOK
    <2>2. /\ session'[r] = "alive" =>
               \/ session[r] = "alive"
               \/ phase[r] = "starting"
               \/ session[r] = "dying" /\ phase[r] \notin {"ended", "cut"}
          /\ session'[r] # "none" => session[r] # "none" \/ phase[r] = "starting"
      BY <1>5 DEF LeftBehind
    <2>3. Shell(r)'
      BY <1>1, <1>4, <2>1, <2>2 DEF Shell
    <2> QED BY <1>1, <1>4, <2>3
            DEF RunOK, Logged, Remembered, InProgress, Running
  <1>9. \A a \in Automation : Justified(a)'
    BY <1>3 DEF Justified
  <1> QED BY <1>6, <1>7, <1>8, <1>9 DEF RunsInv

LEMMA RestartStep ==
  ASSUME RunsInv, Restart
  PROVE  RunsInv'
  <1>1. /\ ~ up /\ up' = TRUE
        /\ reg' = [on |-> TRUE, now |-> now,
                   todo |-> {a \in Automation : enabled[a]}, from |-> evaluated,
                   at |-> None, stage |-> "idle", late |-> {}]
        /\ UNCHANGED <<phase, auto, occurrence, stopped, session, queue, inFlight, pass>>
    BY DEF Restart, Registration, NoRegistration, runs
  <1>2. PassOK(pass) /\ RegOK(reg')
    BY <1>1, FreshRegOK DEF RunsInv, TypeOK
  <1>3. /\ queue = <<>> /\ pass.run = None /\ \A a \in Automation : inFlight[a] = None
        /\ \A r \in Run : phase[r] \in {"none", "ended", "cut"}
    BY <1>1 DEF RunsInv, DownHoldsNothing
  <1>4. /\ log' \in [Run -> {"none", "running", "skipped", "finished"}]
        /\ \A r \in Run : /\ log'[r] # "running"
                          /\ log[r] \in {"running", "finished"} => log'[r] = "finished"
    BY DEF Restart, Loaded, RunsInv, TypeOK
  <1>5. TypeOK' /\ DownHoldsNothing'
    BY <1>1, <1>2, <1>4 DEF RunsInv, TypeOK, DownHoldsNothing
  <1>6. QueueOK(queue, phase, pass, reg)' /\ PassRun'
    BY <1>1, <1>2, <1>3, EmptyOK DEF RunsInv, PassRun
  <1>7. ASSUME NEW r \in Run PROVE RunOK(r)'
    <2>1. Shell(r)'
      BY <1>1, <1>3, <1>4 DEF RunsInv, RunOK, Shell
    <2> QED BY <1>1, <1>3, <1>4, <2>1
            DEF RunOK, Logged, Remembered, InProgress, Running
  <1>8. \A a \in Automation : Justified(a)'
    BY <1>1, <1>3 DEF Justified
  <1> QED BY <1>5, <1>6, <1>7, <1>8 DEF RunsInv

LEMMA InitOK == Init => RunsInv
  <1> SUFFICES ASSUME Init PROVE RunsInv
    OBVIOUS
  <1>1. PassOK(pass) /\ pass.run = None /\ pass.stage = "idle" /\ RegOK(reg)
    BY FreshPassOK, FreshRegOK DEF Init, NoPass, NoRegistration
  <1>2. /\ up = FALSE /\ queue = <<>> /\ queue \in Seq(Writes)
        /\ phase = [r \in Run |-> "none"] /\ auto = [r \in Run |-> None]
        /\ occurrence = [r \in Run |-> 0] /\ stopped = [r \in Run |-> FALSE]
        /\ session = [r \in Run |-> "none"] /\ log = [r \in Run |-> "none"]
        /\ inFlight = [a \in Automation |-> None]
    BY DEF Init
  <1>3. TypeOK /\ DownHoldsNothing
    BY <1>1, <1>2 DEF TypeOK, RunPhases, DownHoldsNothing
  <1>4. QueueOK(queue, phase, pass, reg) /\ PassRun
    BY <1>1, <1>2, EmptyOK DEF PassRun
  <1>5. \A r \in Run : RunOK(r)
    BY <1>2 DEF RunOK, Logged, Shell, Remembered, InProgress, Running
  <1>6. \A a \in Automation : Justified(a)
    BY <1>2 DEF Justified
  <1> QED BY <1>3, <1>4, <1>5, <1>6 DEF RunsInv

-----------------------------------------------------------------------------
(* The inductive invariant holds of every behaviour.                       *)
THEOREM RunsInvariant == Spec => []RunsInv
  <1>1. RunsInv /\ [Next]_vars => RunsInv'
    <2> SUFFICES ASSUME RunsInv, [Next]_vars PROVE RunsInv'
      OBVIOUS
    <2>1. CASE WriteLog
      BY <2>1, WriteMissedStep, WriteEntryStep
    <2>2. CASE Tick \/ UNCHANGED vars
      <3>1. UNCHANGED <<up, runs, log, queue, inFlight, pass, reg>>
        BY <2>2 DEF Tick, vars, runLog, engine, runs
      <3> QED BY <3>1, SamePassStep
    <2>3. CASE PassBegins \/ PassComes \/ PassEnds \/ RegistrationEnds
      BY <2>3, PassBeginsStep, PassComesStep, PassEndsStep, RegistrationEndsStep
    <2>4. CASE \/ MarkEvaluated \/ MarkFails \/ DropOccurrence
               \/ MarkRegistered \/ MarkRegisteredFails
      BY <2>4, MarkStep, MarkRegisteredStep
    <2>5. CASE RunOccurrence \/ Resolved
      BY <2>5, RunOccurrenceStep, ResolvedStep
    <2>6. CASE \E a \in Automation : FireEntry(a) \/ RegisterEntry(a)
      BY <2>6, FireEntryStep, RegisterEntryStep
    <2>7. CASE \E a \in Automation : RunNow(a) \/ SetEnabled(a)
      BY <2>7, RunNowStep, SetEnabledStep
    <2>8. CASE \E r \in Run : RunSteps(r)
      BY <2>8, SpawnStep, SpawnFailsStep, ShellSteps, CommandExitedStep DEF RunSteps
    <2>9. CASE Crash \/ Restart
      BY <2>9, CrashStep, RestartStep
    <2> QED BY <2>1, <2>2, <2>3, <2>4, <2>5, <2>6, <2>7, <2>8, <2>9
            DEF Next, EngineSteps
  <1> QED BY <1>1, InitOK, PTL DEF Spec

(* While the server runs, the log says that a run is in progress exactly   *)
(* while one is, whatever order the steps of the runs and the writes of    *)
(* the log take, and also after a death of the server                      *)
(* (automationService/runLog.ts, executor.ts).                             *)
THEOREM RunsLogTellsRuns == Spec => []LogTellsRuns
  <1>1. RunsInv => LogTellsRuns
    BY DEF RunsInv, RunOK, Logged, LogTellsRuns
  <1> QED BY <1>1, RunsInvariant, PTL

(* While the server lives no shell is without a run in progress, and a     *)
(* stop asked for while it was started has reached it; the log calls the   *)
(* run of a shell that a death left behind finished                        *)
(* (automationService/executor.ts, runLog.ts).                             *)
THEOREM RunsShellsHaveRuns == Spec => []ShellsHaveRuns
  <1>1. RunsInv => ShellsHaveRuns
    BY DEF RunsInv, RunOK, Shell, ShellsHaveRuns
  <1> QED BY <1>1, RunsInvariant, PTL

(* The scheduler remembers the scheduled runs that are in progress and no  *)
(* other, so that two of an automation never overlap                       *)
(* (automationService/scheduler.ts).                                       *)
THEOREM RunsInFlightExact == Spec => []InFlightExact
  <1>1. RunsInv => InFlightExact
    BY DEF RunsInv, RunOK, Remembered, Justified, InFlightExact, InProgress
  <1> QED BY <1>1, RunsInvariant, PTL
-----------------------------------------------------------------------------
(* What the schedule engine owes.  Each occurrence is at any time in one     *)
(* place: still to come, in the hands of the pass or of the registration,    *)
(* reported, or run.                                                         *)

PassType ==
  [kind : {"none", "begun", "fire"}, now : Nat, todo : SUBSET Automation,
   at : Automation \cup {None}, stage : {"idle", "missed", "mark", "due", "run"},
   late : SUBSET (1..MaxTime), latest : 0..MaxTime, active : BOOLEAN,
   run : Run \cup {None}]

RegType ==
  [on : BOOLEAN, now : Nat, todo : SUBSET Automation, from : [Automation -> Nat],
   at : Automation \cup {None}, stage : {"idle", "missed", "mark"},
   late : SUBSET (1..MaxTime)]

ScheduleType ==
  /\ now \in 0..MaxTime /\ faults \in Nat
  /\ enabled \in [Automation -> BOOLEAN]
  /\ evaluated \in [Automation -> 0..MaxTime]
  /\ nextDue \in [Automation -> 0..Never]
  /\ missed \in [Automation -> [1..MaxTime -> Nat]]
  /\ occurrence \in [Run -> 0..MaxTime]
  /\ owed \in [Automation -> SUBSET (1..MaxTime)]
  /\ pass \in PassType /\ reg \in RegType

(* The registration has yet to make its entry. *)
Registering(a) == a \in reg.todo

(* What the pass, or the registration, is about to report. *)
PassReports(a, t) == pass.at = a /\ pass.stage = "missed" /\ t \in pass.late
RegReports(a, t) == reg.at = a /\ reg.stage = "missed" /\ t \in reg.late
Reports(a, t) == PassReports(a, t) \/ RegReports(a, t)

(* What the pass has found in time and not yet handed over. *)
Carries(a, t) ==
  /\ pass.at = a /\ t = pass.latest
  /\ pass.stage \in {"missed", "mark", "due"}

PassShape ==
  /\ pass.now <= now /\ pass.latest <= pass.now
  /\ \A t \in pass.late : t <= pass.now
  /\ pass.at \notin pass.todo \cup reg.todo
  /\ \A a \in pass.todo : nextDue[a] <= pass.now
  /\ IF pass.at = None THEN pass.late = {} /\ pass.latest = 0
                       ELSE pass.now < nextDue[pass.at]
  /\ pass.latest \notin pass.late
  /\ pass.stage = "due" => pass.latest <= evaluated[pass.at]
  /\ pass.stage = "run" => occurrence[pass.run] = pass.latest
  /\ ~ up => pass.at = None /\ pass.stage = "idle" /\ pass.todo = {}

RegShape ==
  /\ reg.now <= now
  /\ \A t \in reg.late : t <= reg.now
  /\ reg.at \notin reg.todo
  /\ IF reg.at = None THEN reg.late = {} ELSE reg.now < nextDue[reg.at]
  /\ ~ reg.on => reg.at = None /\ reg.todo = {}
  /\ ~ up => ~ reg.on

(* A pass comes to an entry only for what comes after its registration. *)
Apart ==
  reg.at # None /\ reg.at = pass.at =>
    /\ \A t \in pass.late : reg.now < t
    /\ pass.latest = 0 \/ reg.now < pass.latest

(* A report in the queue is the one that is waited for. *)
ReportQueued ==
  \A i \in DOMAIN queue : queue[i].what = "missed" =>
    \/ queue[i].by = "pass" /\ queue[i].auto = pass.at /\ queue[i].times = pass.late
    \/ queue[i].by = "reg" /\ queue[i].auto = reg.at /\ queue[i].times = reg.late

(* The entry of an automation: it comes before all that is still to come. *)
EntryOK(a) ==
  /\ evaluated[a] <= now
  /\ nextDue[a] \in Times[a] \cup {Never}
  /\ ~ up \/ Registering(a) => nextDue[a] = Never
  /\ Registering(a) => reg.from[a] <= evaluated[a]
  /\ up => \A t \in Times[a] :
       t > now /\ (nextDue[a] # Never \/ (enabled[a] /\ ~ reg.on)) => nextDue[a] <= t

(* The reports of an automation. *)
ReportOK(a, t) ==
  /\ missed[a][t] <= 1 + faults
  /\ missed[a][t] > 0 => t <= now /\ t < nextDue[a] /\ ~ Carries(a, t)
  /\ ~ up \/ Registering(a) \/ Reports(a, t) => missed[a][t] <= faults
  /\ Registering(a) /\ missed[a][t] > 0 => t <= reg.now

(* The scheduled run r of automation a. *)
OccurrenceOK(r, a) ==
  auto[r] = a /\ occurrence[r] # 0 =>
    /\ occurrence[r] <= evaluated[a] /\ occurrence[r] < nextDue[a]
    /\ Registering(a) => occurrence[r] <= reg.from[a]
    /\ missed[a][occurrence[r]] = 0
    /\ ~ Reports(a, occurrence[r]) /\ ~ Carries(a, occurrence[r])
    /\ \A other \in Run : auto[other] = a /\ occurrence[other] = occurrence[r]
                            => other = r

(* What the engine has yet to mark, at most up to the occurrence. *)
Ahead(a, t) ==
  \/ nextDue[a] <= t
  \/ Registering(a) /\ reg.from[a] < t
  \/ PassReports(a, t)
  \/ Carries(a, t) /\ pass.stage # "due"

(* What an automation is owed: at or before now, and not evaluated while the
   engine has yet to see to it. *)
OwedOK(a) ==
  /\ owed[a] # {} => enabled[a]
  /\ \A t \in owed[a] :
       /\ t \in Times[a] /\ t <= now
       /\ Ahead(a, t) => evaluated[a] < t
       /\ pass.at = a /\ ~ pass.active /\ pass.stage # "run" => pass.now < t

Handed(a, t) ==
  /\ pass.at = a /\ t = pass.latest /\ pass.stage = "run"
  /\ phase[pass.run] \in {"skipping", "recording"}

Coming(a, t) ==
  IF up THEN \/ nextDue[a] <= t
             \/ Registering(a) /\ reg.from[a] < t
             \/ Reports(a, t) \/ Carries(a, t) \/ Handed(a, t)
        ELSE evaluated[a] < t

Gone == {due \in Automation \X (1..MaxTime) :
           /\ due[2] \in owed[due[1]]
           /\ ~ Accounted(due[1], due[2]) /\ ~ Coming(due[1], due[2])}

(* A run not begun is not in the log; one of an occurrence is of an automation. *)
RunShape(r) ==
  /\ phase[r] = "none" => log[r] = "none"
  /\ occurrence[r] # 0 => auto[r] \in Automation

ScheduleInv ==
  /\ ScheduleType /\ PassShape /\ RegShape /\ Apart /\ ReportQueued
  /\ \A a \in Automation : EntryOK(a)
  /\ \A r \in Run : RunShape(r)

OnceInv ==
  /\ \A a \in Automation, t \in 1..MaxTime : ReportOK(a, t)
  /\ \A r \in Run, a \in Automation : OccurrenceOK(r, a)

LossInv ==
  /\ \A a \in Automation : OwedOK(a)
  /\ Gone \subseteq struck

HistoryInv == ScheduleInv /\ OnceInv /\ LossInv

-----------------------------------------------------------------------------
(* The calendar. *)

(* Naturals are well ordered; so is what lies below a bound from above.    *)
LEMMA LeastExists ==
  ASSUME NEW S \in SUBSET Nat, S # {}
  PROVE  Least(S) \in S /\ \A other \in S : Least(S) <= other
  <1> DEFINE Below == {0..i : i \in S}
  <1>1. Below \subseteq FiniteSubsetsOf(Nat)
    <2>1. \A i \in S : 0..i \in SUBSET Nat
      OBVIOUS
    <2>2. \A i \in S : IsFiniteSet(0..i)
      BY FS_Interval
    <2> QED BY <2>1, <2>2 DEF FiniteSubsetsOf
  <1>2. PICK x \in Below : \A y \in Below : <<y, x>> \notin StrictSubsetOrdering(Nat)
    <2>1. Below # {}
      OBVIOUS
    <2>2. IsWellFoundedOn(StrictSubsetOrdering(Nat), FiniteSubsetsOf(Nat))
      BY FS_StrictSubsetOrderingWellFounded
    <2> HIDE DEF Below
    <2> QED BY <1>1, <2>1, <2>2, WFMin
  <1>3. PICK i \in S : x = 0..i
    OBVIOUS
  <1>4. ASSUME NEW j \in S, j < i PROVE FALSE
    <2>1. 0..j \in Below
      OBVIOUS
    <2>2. 0..j \subseteq 0..i /\ 0..j # 0..i
      BY <1>4
    <2>3. <<0..j, 0..i>> \in StrictSubsetOrdering(Nat)
      BY <2>2 DEF StrictSubsetOrdering
    <2> QED BY <1>2, <1>3, <2>1, <2>3
  <1>5. \E t \in S : \A other \in S : t <= other
    BY <1>4
  <1> QED BY <1>5 DEF Least

LEMMA GreatestExists ==
  ASSUME NEW bound \in Nat, NEW S \in SUBSET (0..bound), S # {}
  PROVE  Greatest(S) \in S /\ \A other \in S : other <= Greatest(S)
  <1> DEFINE Rest == {bound - t : t \in S}
  <1>1. Rest \in SUBSET Nat /\ Rest # {}
    <2>1. \A t \in S : t \in 0..bound
      OBVIOUS
    <2>2. \A t \in S : bound - t \in Nat
      BY <2>1
    <2>3. \A d \in Rest : d \in Nat
      BY <2>2
    <2> QED BY <2>3
  <1>2. PICK d \in Rest : \A other \in Rest : d <= other
    BY <1>1, LeastExists
  <1>3. PICK t \in S : d = bound - t
    OBVIOUS
  <1>4. \A other \in S : other <= t
    <2> SUFFICES ASSUME NEW other \in S PROVE other <= t
      OBVIOUS
    <2>1. d <= bound - other
      BY <1>2
    <2> QED BY <1>3, <2>1
  <1> QED BY <1>4 DEF Greatest

LEMMA NextAfterFacts ==
  ASSUME NEW a \in Automation, NEW x \in Nat
  PROVE  /\ NextAfter(a, x) \in Times[a] \cup {Never}
         /\ NextAfter(a, x) \in 0..Never
         /\ \A t \in Times[a] : t > x => NextAfter(a, x) <= t
         /\ \A t \in 1..MaxTime : t <= x => t < NextAfter(a, x)
         /\ x <= MaxTime => x < NextAfter(a, x)
  <1>1. MaxTime \in Nat /\ Never = MaxTime + 1 /\ Times[a] \subseteq 1..MaxTime
    BY AutomationAssumption DEF Never
  <1> DEFINE S == {t \in Times[a] : t > x} \cup {Never}
  <1>2. S \in SUBSET Nat /\ S # {}
    BY <1>1
  <1>3. NextAfter(a, x) \in S /\ \A other \in S : NextAfter(a, x) <= other
    BY <1>2, LeastExists DEF NextAfter
  <1> QED BY <1>1, <1>3

LEMMA LaterFacts ==
  ASSUME NEW x \in Nat, NEW y \in Nat
  PROVE  /\ Later(x, y) \in {x, y} /\ Later(x, y) \in Nat
         /\ x <= Later(x, y) /\ y <= Later(x, y)
  BY DEF Later

LEMMA Constants ==
  /\ MaxTime \in Nat /\ Never \in Nat /\ Never = MaxTime + 1
  /\ \A a \in Automation : Times[a] \subseteq 1..MaxTime
  /\ None \notin Automation /\ None \notin Run /\ Run \subseteq Nat
  BY AutomationAssumption DEF Never

-----------------------------------------------------------------------------
(* What the invariant says, in the terms the steps need. *)

LEMMA Facts ==
  ASSUME HistoryInv
  PROVE  /\ ScheduleInv /\ OnceInv /\ LossInv /\ ScheduleType
         /\ PassShape /\ RegShape /\ Apart /\ ReportQueued
         /\ MaxTime \in Nat /\ Never = MaxTime + 1 /\ None \notin Automation
         /\ now \in 0..MaxTime /\ faults \in Nat /\ enabled \in [Automation -> BOOLEAN]
         /\ evaluated \in [Automation -> 0..MaxTime]
         /\ nextDue \in [Automation -> 0..Never]
         /\ pass \in PassType /\ reg \in RegType
         /\ \A a \in Automation : Times[a] \subseteq 1..MaxTime
  BY Constants DEF HistoryInv, ScheduleInv, ScheduleType

LEMMA PassFacts ==
  ASSUME NEW p \in PassType
  PROVE  /\ p.now \in Nat /\ p.latest \in 0..MaxTime /\ p.late \in SUBSET (1..MaxTime)
         /\ p.todo \in SUBSET Automation /\ p.at \in Automation \cup {None}
         /\ p.active \in BOOLEAN
  BY DEF PassType

LEMMA RegFacts ==
  ASSUME NEW g \in RegType
  PROVE  /\ g.now \in Nat /\ g.late \in SUBSET (1..MaxTime)
         /\ g.todo \in SUBSET Automation /\ g.at \in Automation \cup {None}
         /\ g.from \in [Automation -> Nat] /\ g.on \in BOOLEAN
  BY DEF RegType

LEMMA AutomationFacts ==
  ASSUME HistoryInv, NEW a \in Automation
  PROVE  /\ EntryOK(a) /\ OwedOK(a) /\ owed[a] \in SUBSET (1..MaxTime)
         /\ evaluated[a] \in Nat /\ evaluated[a] <= now
         /\ nextDue[a] \in 0..Never /\ Times[a] \subseteq 1..MaxTime
         /\ reg.from[a] \in Nat
         /\ \A t \in 1..MaxTime : ReportOK(a, t) /\ missed[a][t] \in Nat
         /\ \A r \in Run : OccurrenceOK(r, a) /\ occurrence[r] \in 0..MaxTime
  <1>1. /\ ScheduleInv /\ ScheduleType /\ OnceInv /\ LossInv /\ MaxTime \in Nat
        /\ reg \in RegType
    BY Facts
  <1>2. EntryOK(a) /\ OwedOK(a)
    BY <1>1 DEF ScheduleInv, LossInv
  <1>3. /\ owed[a] \in SUBSET (1..MaxTime) /\ evaluated[a] \in 0..MaxTime
        /\ nextDue[a] \in 0..Never
        /\ \A t \in 1..MaxTime : missed[a][t] \in Nat
        /\ \A r \in Run : occurrence[r] \in 0..MaxTime
    BY <1>1 DEF ScheduleType
  <1>4. evaluated[a] \in Nat /\ evaluated[a] <= now
    BY <1>1, <1>2, <1>3 DEF EntryOK
  <1>5. reg.from[a] \in Nat
    BY <1>1, RegFacts
  <1> QED BY <1>1, <1>2, <1>3, <1>4, <1>5, Constants DEF OnceInv

(* Nothing more is gone when what is still owed was owed, and what was       *)
(* accounted for or coming is so now, or a fault has struck it.              *)
LEMMA StillAccounted ==
  ASSUME LossInv, struck \subseteq struck',
         \A a \in Automation, t \in 1..MaxTime :
           t \in owed'[a] /\ ~ Accounted(a, t)' /\ ~ Coming(a, t)' /\ <<a, t>> \notin struck'
             => t \in owed[a] /\ ~ Accounted(a, t) /\ ~ Coming(a, t)
  PROVE  (Gone \subseteq struck)'
  <1> SUFFICES ASSUME NEW due \in Automation \X (1..MaxTime), due \in Gone',
                      due \notin struck'
               PROVE  due \in Gone
    BY DEF Gone, LossInv
  <1>1. PICK a \in Automation, t \in 1..MaxTime : due = <<a, t>>
    OBVIOUS
  <1>2. t \in owed'[a] /\ ~ Accounted(a, t)' /\ ~ Coming(a, t)'
    BY <1>1 DEF Gone
  <1> QED BY <1>1, <1>2 DEF Gone

-----------------------------------------------------------------------------
(* Steps of the pass and of the registration. *)

LEMMA EntryDoneIs ==
  ASSUME NEW p \in PassType
  PROVE  /\ EntryDone(p) \in PassType /\ EntryDone(p).at = None
         /\ EntryDone(p).stage = "idle" /\ EntryDone(p).late = {}
         /\ EntryDone(p).latest = 0
         /\ EntryDone(p).kind = p.kind /\ EntryDone(p).now = p.now
         /\ EntryDone(p).todo = p.todo
  <1>1. 0 \in 0..MaxTime
    BY Constants
  <1>2. EntryDone(p) \in PassType
    BY <1>1 DEF PassType, EntryDone
  <1> QED BY <1>2 DEF PassType, EntryDone

LEMMA RegisteredIs ==
  ASSUME NEW g \in RegType
  PROVE  /\ Registered(g) \in RegType /\ Registered(g).at = None
         /\ Registered(g).stage = "idle" /\ Registered(g).late = {}
         /\ Registered(g).on = g.on /\ Registered(g).now = g.now
         /\ Registered(g).todo = g.todo /\ Registered(g).from = g.from
  <1>1. Registered(g) \in RegType
    BY DEF RegType, Registered
  <1> QED BY <1>1 DEF RegType, Registered

LEMMA NoPassIs ==
  /\ NoPass \in PassType /\ NoPass.kind = "none" /\ NoPass.now = 0
  /\ NoPass.todo = {} /\ NoPass.at = None /\ NoPass.stage = "idle" /\ NoPass.late = {}
  /\ NoPass.latest = 0 /\ NoPass.active = FALSE /\ NoPass.run = None
  BY Constants DEF PassType, NoPass

LEMMA NoRegistrationIs ==
  /\ NoRegistration \in RegType /\ NoRegistration.on = FALSE /\ NoRegistration.now = 0
  /\ NoRegistration.todo = {} /\ NoRegistration.at = None
  /\ NoRegistration.stage = "idle" /\ NoRegistration.late = {}
  BY DEF RegType, NoRegistration

(* An entry joins the queue. *)
LEMMA EntryQueued ==
  ASSUME queue \in Seq(Writes), ReportQueued, NEW w, queue' = Append(queue, w),
         w.what # "missed", pass'.at = pass.at, pass'.late = pass.late, reg' = reg
  PROVE  ReportQueued'
  <1>1. /\ Len(queue) \in Nat /\ DOMAIN queue = 1..Len(queue)
        /\ DOMAIN queue' = 1..(Len(queue) + 1)
        /\ queue'[Len(queue) + 1] = w
        /\ \A i \in 1..Len(queue) : queue'[i] = queue[i]
    OBVIOUS
  <1>2. \A i \in DOMAIN queue' : i \in DOMAIN queue \/ i = Len(queue) + 1
    BY <1>1
  <1> QED BY <1>1, <1>2 DEF ReportQueued

(* Reports that nothing waits for are not in the queue.                      *)
LEMMA NoReport ==
  ASSUME RunsInv
  PROVE  \A i \in DOMAIN queue : queue[i].what = "missed" =>
           \/ queue[i].by = "pass" /\ pass.stage = "missed"
           \/ queue[i].by = "reg" /\ reg.stage = "missed"
  BY DEF RunsInv, QueueOK, Pending

(* The queue stays, and so do the pass or the registration that wait.        *)
LEMMA ReportsStay ==
  ASSUME RunsInv, ReportQueued, queue' = queue,
         pass.stage = "missed" => pass'.at = pass.at /\ pass'.late = pass.late,
         reg.stage = "missed" => reg'.at = reg.at /\ reg'.late = reg.late
  PROVE  ReportQueued'
  BY NoReport DEF ReportQueued

historyVars == <<now, up, enabled, evaluated, nextDue, pass, reg, auto, occurrence, log,
                 missed, owed, struck, faults>>

(* Steps of runs whose first entry is in the log change nothing here.        *)
LEMMA OtherSteps ==
  ASSUME RunsInv, HistoryInv, UNCHANGED historyVars, ReportQueued',
         \A r \in Run : phase'[r] = phase[r] \/
           {phase[r], phase'[r]} \cap {"none", "skipping", "recording"} = {}
  PROVE  HistoryInv'
  <1>1. /\ UNCHANGED <<now, up, enabled, evaluated, nextDue, pass, reg, auto, occurrence,
                       log, missed, owed, struck, faults>>
        /\ ScheduleInv /\ OnceInv /\ LossInv
    BY DEF HistoryInv, historyVars
  <1>2. ScheduleInv'
    BY <1>1 DEF ScheduleInv, ScheduleType, PassShape, RegShape, Apart, EntryOK,
                Registering, RunShape
  <1>3. OnceInv'
    BY <1>1 DEF OnceInv, ReportOK, OccurrenceOK, Registering, Reports, PassReports,
                RegReports, Carries
  <1>4. \A a \in Automation : OwedOK(a)'
    BY <1>1 DEF LossInv, OwedOK, Ahead, Registering, PassReports, Carries
  <1>5. ASSUME NEW a \in Automation, NEW t \in 1..MaxTime
        PROVE  (Accounted(a, t) <=> Accounted(a, t)') /\ (Coming(a, t) => Coming(a, t)')
    <2>1. Accounted(a, t) <=> Accounted(a, t)'
      BY <1>1 DEF Accounted
    <2>2. Handed(a, t) => Handed(a, t)'
      <3>1. pass.stage = "run" => pass.run \in Run
        BY DEF RunsInv, TypeOK, PassOK
      <3> QED BY <1>1, <3>1 DEF Handed
    <2> QED BY <1>1, <2>1, <2>2
            DEF Coming, Registering, Reports, PassReports, RegReports, Carries
  <1>6. (Gone \subseteq struck)'
    BY <1>1, <1>5, StillAccounted
  <1> QED BY <1>2, <1>3, <1>4, <1>6 DEF HistoryInv, LossInv

LEMMA IdleSteps ==
  ASSUME RunsInv, HistoryInv, UNCHANGED <<historyVars, phase, queue>>
  PROVE  HistoryInv'
  <1>1. ReportQueued'
    BY DEF HistoryInv, ScheduleInv, ReportQueued, historyVars
  <1> QED BY <1>1, OtherSteps

LEMMA ProgressSteps ==
  ASSUME RunsInv, HistoryInv, NEW r \in Run,
         Spawn(r) \/ SpawnFails(r) \/ CommandExited(r)
  PROVE  HistoryInv'
  <1>1. /\ UNCHANGED historyVars
        /\ phase[r] \in {"starting", "live"}
        /\ \E to \in {"updating", "failing", "finishing"} :
             phase' = [phase EXCEPT ![r] = to]
        /\ \E what \in {"running", "finished"} :
             queue' = Append(queue, EntryWrite(what, r))
    BY DEF Spawn, SpawnFails, CommandExited, Complete, Goto, Enqueue, historyVars,
           definitions, engine, faulty
  <1>2. \A x \in Run : phase'[x] = phase[x] \/
          {phase[x], phase'[x]} \cap {"none", "skipping", "recording"} = {}
    BY <1>1 DEF RunsInv, TypeOK
  <1>3. ReportQueued'
    <2>1. PICK what \in {"running", "finished"} :
             queue' = Append(queue, EntryWrite(what, r))
      BY <1>1
    <2>2. EntryWrite(what, r).what # "missed"
      BY DEF EntryWrite
    <2>3. queue \in Seq(Writes) /\ ReportQueued
      BY DEF RunsInv, TypeOK, HistoryInv, ScheduleInv
    <2>4. pass' = pass /\ reg' = reg
      BY <1>1 DEF historyVars
    <2> QED BY <2>1, <2>2, <2>3, <2>4, EntryQueued
  <1> QED BY <1>1, <1>2, <1>3, OtherSteps

(* The pass goes on around the entries: it begins, looks for what is due, or *)
(* ends.                                                                     *)
LEMMA AroundHistory ==
  ASSUME RunsInv, HistoryInv, pass' \in PassType,
         UNCHANGED <<now, up, enabled, evaluated, nextDue, reg, auto, occurrence, phase,
                     log, missed, queue, owed, struck, faults>>,
         up, pass'.at = pass.at, pass'.stage = pass.stage, pass'.late = pass.late,
         pass'.latest = pass.latest,
         pass.at = None \/ (pass'.active = pass.active /\ pass'.run = pass.run),
         pass'.now = pass.now \/ (pass.at = None /\ pass'.now <= now),
         \A a \in pass'.todo : nextDue[a] <= pass'.now
  PROVE  HistoryInv'
  <1>1. /\ ScheduleInv /\ OnceInv /\ LossInv /\ ScheduleType /\ PassShape /\ RegShape
        /\ Apart /\ ReportQueued /\ None \notin Automation
        /\ nextDue \in [Automation -> 0..Never] /\ Never = MaxTime + 1 /\ MaxTime \in Nat
    BY Facts
  <1>2. /\ \A a : Registering(a)' <=> Registering(a)
        /\ \A a, t : PassReports(a, t)' <=> PassReports(a, t)
        /\ \A a, t : Reports(a, t)' <=> Reports(a, t)
        /\ \A a, t : Carries(a, t)' <=> Carries(a, t)
        /\ \A a \in Automation : \A t : Handed(a, t)' <=> Handed(a, t)
    BY <1>1 DEF Registering, PassReports, RegReports, Reports, Carries, Handed
  <1>3. PassShape'
    <2>1. pass'.todo \in SUBSET Automation /\ pass'.now \in Nat
      BY PassFacts
    <2>2. pass'.at \notin pass'.todo
      <3> SUFFICES ASSUME pass'.at \in pass'.todo PROVE FALSE
        OBVIOUS
      <3>1. pass.at \in Automation /\ nextDue[pass.at] <= pass'.now /\ pass.at # None
        BY <1>1, <2>1
      <3>2. pass.now < nextDue[pass.at] /\ pass'.now = pass.now
        BY <1>1, <3>1 DEF PassShape
      <3>3. nextDue[pass.at] \in Nat
        BY <1>1, <3>1
      <3> QED BY <2>1, <3>1, <3>2, <3>3
    <2>3. pass'.latest <= pass'.now /\ \A t \in pass'.late : t <= pass'.now
      <3>1. CASE pass'.now = pass.now
        BY <1>1, <3>1 DEF PassShape
      <3>2. CASE pass.at = None
        BY <1>1, <2>1, <3>2 DEF PassShape
      <3> QED BY <3>1, <3>2
    <2>4. pass'.now <= now
      BY <1>1 DEF PassShape
    <2>5. pass.at # None => pass'.now < nextDue[pass.at]
      BY <1>1 DEF PassShape
    <2>6. pass'.stage = "run" => pass'.run = pass.run
      BY DEF RunsInv, TypeOK, PassOK
    <2> QED BY <1>1, <2>2, <2>3, <2>4, <2>5, <2>6 DEF PassShape
  <1>4. ScheduleInv'
    <2>1. ScheduleType'
      BY <1>1 DEF ScheduleType
    <2>2. RegShape' /\ Apart'
      BY <1>1 DEF RegShape, Apart
    <2>3. ReportQueued'
      BY <1>1 DEF ReportQueued
    <2>4. \A a \in Automation : EntryOK(a)'
      BY <1>1, <1>2 DEF ScheduleInv, EntryOK
    <2> QED BY <1>1, <1>3, <2>1, <2>2, <2>3, <2>4 DEF ScheduleInv, RunShape
  <1>5. OnceInv'
    BY <1>1, <1>2 DEF OnceInv, ReportOK, OccurrenceOK
  <1>6. \A a \in Automation : OwedOK(a)'
    <2> SUFFICES ASSUME NEW a \in Automation PROVE OwedOK(a)'
      OBVIOUS
    <2>1. OwedOK(a)
      BY <1>1 DEF LossInv
    <2>2. pass.at = a => pass'.now = pass.now /\ pass'.active = pass.active
      BY <1>1
    <2> QED BY <1>2, <2>1, <2>2 DEF OwedOK, Ahead
  <1>7. ASSUME NEW a \in Automation, NEW t \in 1..MaxTime
        PROVE  (Accounted(a, t) <=> Accounted(a, t)') /\ (Coming(a, t) => Coming(a, t)')
    BY <1>2 DEF Accounted, Coming
  <1>8. (Gone \subseteq struck)'
    BY <1>1, <1>7, StillAccounted
  <1> QED BY <1>4, <1>5, <1>6, <1>8 DEF HistoryInv, LossInv

LEMMA PassBeginsHistory ==
  ASSUME RunsInv, HistoryInv, PassBegins
  PROVE  HistoryInv'
  <1>1. /\ UNCHANGED <<now, up, enabled, evaluated, nextDue, reg, auto, occurrence, phase,
                       log, missed, queue, owed, struck, faults>>
        /\ up /\ pass = NoPass
        /\ pass' = [NoPass EXCEPT !.kind = "begun", !.now = now]
    BY DEF PassBegins, definitions, runs, runLog, faulty
  <1>2. now \in Nat /\ now <= now /\ 0 \in 0..MaxTime
    BY Facts, Constants
  <1>3. /\ pass' \in PassType /\ pass'.at = None /\ pass'.stage = "idle"
        /\ pass'.late = {} /\ pass'.latest = 0 /\ pass'.active = FALSE
        /\ pass'.run = None /\ pass'.now = now /\ pass'.todo = {}
    BY <1>1, <1>2 DEF PassType, NoPass
  <1> QED BY <1>1, <1>2, <1>3, NoPassIs, AroundHistory

LEMMA PassComesHistory ==
  ASSUME RunsInv, HistoryInv, PassComes
  PROVE  HistoryInv'
  <1> DEFINE todo == {a \in Automation : nextDue[a] <= pass.now}
  <1>1. /\ UNCHANGED <<now, up, enabled, evaluated, nextDue, reg, auto, occurrence, phase,
                       log, missed, queue, owed, struck, faults>>
        /\ up /\ pass' = [pass EXCEPT !.kind = "fire", !.todo = todo]
    BY DEF PassComes, definitions, runs, runLog, faulty
  <1>2. todo \in SUBSET Automation /\ pass \in PassType
    BY Facts
  <1>3. \A a \in todo : nextDue[a] <= pass.now
    OBVIOUS
  <1> HIDE DEF todo
  <1>4. /\ pass' \in PassType /\ pass'.at = pass.at /\ pass'.stage = pass.stage
        /\ pass'.late = pass.late /\ pass'.latest = pass.latest
        /\ pass'.active = pass.active /\ pass'.run = pass.run
        /\ pass'.now = pass.now /\ pass'.todo = todo
    BY <1>1, <1>2 DEF PassType
  <1> QED BY <1>1, <1>3, <1>4, AroundHistory

LEMMA PassEndsHistory ==
  ASSUME RunsInv, HistoryInv, PassEnds
  PROVE  HistoryInv'
  <1>1. /\ UNCHANGED <<now, up, enabled, evaluated, nextDue, reg, auto, occurrence, phase,
                       log, missed, queue, owed, struck, faults>>
        /\ up /\ pass' = NoPass /\ pass.at = None
    BY DEF PassEnds, definitions, runs, runLog, faulty
  <1>2. /\ pass.stage = "idle" /\ pass.late = {} /\ pass.latest = 0
        /\ now \in Nat /\ 0 <= now
    BY <1>1, Facts DEF RunsInv, TypeOK, PassOK, PassShape
  <1> QED BY <1>1, <1>2, NoPassIs, AroundHistory

-----------------------------------------------------------------------------
(* Entries are made and deleted under the pass. *)

(* What may become of an entry, and of the pass that may be at it. *)
Refits(a) ==
  /\ evaluated[a] <= evaluated'[a] /\ evaluated'[a] <= now
  /\ nextDue'[a] \in Times[a] \cup {Never}
  /\ nextDue'[a] = nextDue[a] \/ (now < nextDue'[a] /\ ~ Registering(a))
  /\ a \in pass'.todo => nextDue'[a] = nextDue[a]
  /\ \A t \in Times[a] :
       t > now /\ (nextDue'[a] # Never \/ (enabled'[a] /\ ~ reg'.on)) => nextDue'[a] <= t
  /\ \/ owed'[a] = {}
     \/ /\ owed'[a] = owed[a] /\ enabled'[a] = enabled[a]
        /\ evaluated'[a] = evaluated[a] /\ nextDue'[a] <= nextDue[a]
        /\ pass.at = a => pass'.active = pass.active

SamePlace ==
  /\ pass' \in PassType /\ pass'.kind = pass.kind /\ pass'.now = pass.now
  /\ pass'.todo \subseteq pass.todo /\ pass'.at = pass.at /\ pass'.stage = pass.stage
  /\ pass'.late = pass.late /\ pass'.latest = pass.latest /\ pass'.run = pass.run

LEMMA PlaceKept ==
  ASSUME pass \in PassType, NEW todo \in SUBSET pass.todo, NEW active \in BOOLEAN,
         pass' = [pass EXCEPT !.todo = todo, !.active = active]
  PROVE  SamePlace /\ pass'.todo = todo /\ pass'.active = active
  BY DEF SamePlace, PassType

LEMMA ReconciledHistory ==
  ASSUME RunsInv, HistoryInv, up,
         UNCHANGED <<now, up, auto, occurrence, phase, log, missed, queue, struck, faults>>,
         enabled' \in [Automation -> BOOLEAN],
         evaluated' \in [Automation -> 0..MaxTime],
         nextDue' \in [Automation -> 0..Never],
         owed' \in [Automation -> SUBSET (1..MaxTime)],
         SamePlace, \A a \in Automation : Refits(a),
         \/ reg' = reg
         \/ reg.at = None /\ reg.todo = {} /\ reg' = NoRegistration
  PROVE  HistoryInv'
  <1>1. /\ ScheduleInv /\ OnceInv /\ LossInv /\ ScheduleType /\ PassShape /\ RegShape
        /\ Apart /\ ReportQueued /\ None \notin Automation /\ MaxTime \in Nat
        /\ Never = MaxTime + 1 /\ now \in 0..MaxTime /\ pass \in PassType /\ reg \in RegType
        /\ \A a \in Automation : Times[a] \subseteq 1..MaxTime
    BY Facts
  <1>2. /\ pass' \in PassType /\ pass'.kind = pass.kind /\ pass'.now = pass.now
        /\ pass'.todo \subseteq pass.todo /\ pass'.at = pass.at
        /\ pass'.stage = pass.stage /\ pass'.late = pass.late
        /\ pass'.latest = pass.latest /\ pass'.run = pass.run
    BY DEF SamePlace
  <1>3. /\ reg' \in RegType /\ reg'.at = reg.at /\ reg'.todo = reg.todo
        /\ \/ reg' = reg
           \/ reg.at = None /\ reg'.now = 0 /\ reg'.late = {} /\ ~ reg'.on
    BY <1>1, NoRegistrationIs
  <1>4. /\ \A a \in Automation : Registering(a)' <=> Registering(a)
        /\ \A a \in Automation : Registering(a) => reg' = reg
        /\ \A a \in Automation : \A t : PassReports(a, t)' <=> PassReports(a, t)
        /\ \A a \in Automation : \A t : Reports(a, t)' <=> Reports(a, t)
        /\ \A a \in Automation : \A t : Carries(a, t)' <=> Carries(a, t)
        /\ \A a \in Automation : \A t : Handed(a, t)' <=> Handed(a, t)
    BY <1>1, <1>2, <1>3
    DEF Registering, PassReports, RegReports, Reports, Carries, Handed
  <1>5. ASSUME NEW a \in Automation
        PROVE  /\ evaluated[a] \in Nat /\ evaluated'[a] \in Nat /\ nextDue[a] \in Nat
               /\ nextDue'[a] \in Nat /\ now \in Nat
               /\ EntryOK(a) /\ OwedOK(a) /\ owed[a] \in SUBSET (1..MaxTime)
               /\ evaluated[a] <= evaluated'[a] /\ evaluated'[a] <= now
               /\ nextDue'[a] \in Times[a] \cup {Never}
               /\ nextDue'[a] = nextDue[a] \/ (now < nextDue'[a] /\ ~ Registering(a))
               /\ \A t \in Times[a] :
                    t > now /\ (nextDue'[a] # Never \/ (enabled'[a] /\ ~ reg'.on))
                      => nextDue'[a] <= t
    BY <1>1, AutomationFacts DEF Refits
  <1>6. PassShape'
    <2>1. pass.now \in Nat /\ pass.latest \in Nat /\ pass.todo \in SUBSET Automation
      BY <1>1, PassFacts
    <2>2. pass.at # None => pass.at \in Automation /\ pass.now < nextDue'[pass.at]
      <3> SUFFICES ASSUME pass.at # None
                   PROVE  pass.at \in Automation /\ pass.now < nextDue'[pass.at]
        OBVIOUS
      <3>1. pass.at \in Automation /\ pass.now < nextDue[pass.at] /\ pass.now <= now
        BY <1>1 DEF PassShape, PassType
      <3> QED BY <1>5, <2>1, <3>1
    <2>3. pass.stage = "due" => pass.latest <= evaluated'[pass.at]
      <3> SUFFICES ASSUME pass.stage = "due" PROVE pass.latest <= evaluated'[pass.at]
        OBVIOUS
      <3>1. pass.at \in Automation /\ pass.latest <= evaluated[pass.at]
        BY <1>1, Constants DEF PassShape, RunsInv, TypeOK, PassOK
      <3> QED BY <1>5, <2>1, <3>1
    <2>4. \A a \in pass'.todo : nextDue'[a] <= pass.now
      BY <1>1, <1>2, <2>1 DEF PassShape, Refits
    <2> QED BY <1>1, <1>2, <1>3, <2>2, <2>3, <2>4 DEF PassShape
  <1>7. RegShape' /\ Apart'
    <2>1. CASE reg' = reg
      <3>1. reg.at # None => reg.now < nextDue'[reg.at]
        <4> SUFFICES ASSUME reg.at # None PROVE reg.now < nextDue'[reg.at]
          OBVIOUS
        <4>1. reg.at \in Automation /\ reg.now < nextDue[reg.at] /\ reg.now <= now
              /\ reg.now \in Nat
          BY <1>1, RegFacts DEF RegShape
        <4> QED BY <1>5, <4>1
      <3> QED BY <1>1, <1>2, <2>1, <3>1 DEF RegShape, Apart
    <2>2. CASE reg.at = None /\ reg.todo = {} /\ reg' = NoRegistration
      <3>1. 0 <= now
        BY <1>1
      <3> QED BY <1>1, <2>2, <3>1, NoRegistrationIs DEF RegShape, Apart
    <2> QED BY <2>1, <2>2
  <1>8. ScheduleInv'
    <2>1. ScheduleType'
      BY <1>1, <1>2, <1>3 DEF ScheduleType
    <2>2. ReportQueued'
      <3>1. reg.stage = "missed" => reg' = reg
        <4>1. reg.stage = "missed" => reg.at # None
          BY DEF RunsInv, TypeOK, RegOK
        <4> QED BY <4>1
      <3> QED BY <1>1, <1>2, <3>1, ReportsStay
    <2>3. ASSUME NEW a \in Automation PROVE EntryOK(a)'
      <3>1. Registering(a) => nextDue'[a] = Never /\ reg'.from[a] <= evaluated'[a]
        <4> SUFFICES ASSUME Registering(a)
                     PROVE  nextDue'[a] = Never /\ reg'.from[a] <= evaluated'[a]
          OBVIOUS
        <4>1. nextDue'[a] = nextDue[a] /\ reg' = reg /\ evaluated[a] <= evaluated'[a]
          BY <1>4, <1>5
        <4>2. nextDue[a] = Never /\ reg.from[a] <= evaluated[a] /\ reg.from[a] \in Nat
          BY <1>1, <1>5, RegFacts DEF EntryOK
        <4> QED BY <1>5, <4>1, <4>2
      <3> QED BY <1>4, <1>5, <3>1 DEF EntryOK
    <2> QED BY <1>1, <1>6, <1>7, <2>1, <2>2, <2>3 DEF ScheduleInv, RunShape
  <1>9. OnceInv'
    <2>1. ASSUME NEW a \in Automation, NEW t \in 1..MaxTime PROVE ReportOK(a, t)'
      <3>1. ReportOK(a, t)
        BY <1>1 DEF OnceInv
      <3>2. missed[a][t] > 0 => t < nextDue'[a]
        BY <1>1, <1>5, <3>1 DEF ReportOK
      <3>3. Registering(a) /\ missed[a][t] > 0 => t <= reg'.now
        BY <1>4, <3>1 DEF ReportOK
      <3> QED BY <1>4, <3>1, <3>2, <3>3 DEF ReportOK
    <2>2. ASSUME NEW r \in Run, NEW a \in Automation PROVE OccurrenceOK(r, a)'
      <3> SUFFICES ASSUME auto[r] = a, occurrence[r] # 0 PROVE OccurrenceOK(r, a)'
        BY DEF OccurrenceOK
      <3>1. OccurrenceOK(r, a) /\ occurrence[r] \in Nat
        BY AutomationFacts
      <3>2. occurrence[r] <= evaluated[a] /\ occurrence[r] < nextDue[a]
        BY <3>1 DEF OccurrenceOK
      <3>3. occurrence[r] <= evaluated'[a] /\ occurrence[r] < nextDue'[a]
        BY <1>5, <3>1, <3>2
      <3>4. Registering(a) => occurrence[r] <= reg'.from[a]
        BY <1>4, <3>1 DEF OccurrenceOK
      <3> QED BY <1>4, <3>1, <3>3, <3>4 DEF OccurrenceOK
    <2> QED BY <2>1, <2>2 DEF OnceInv
  <1>10. ASSUME NEW a \in Automation PROVE OwedOK(a)'
    <2>1. CASE owed'[a] = {}
      BY <2>1 DEF OwedOK
    <2>2. CASE /\ owed'[a] = owed[a] /\ enabled'[a] = enabled[a]
               /\ evaluated'[a] = evaluated[a] /\ nextDue'[a] <= nextDue[a]
               /\ pass.at = a => pass'.active = pass.active
      <3>1. ASSUME NEW t \in owed[a], Ahead(a, t)' PROVE Ahead(a, t)
        <4>1. t <= now /\ t \in Nat
          BY <1>5, <3>1 DEF OwedOK
        <4>2. nextDue'[a] <= t => nextDue[a] <= t
          BY <1>5, <4>1
        <4> QED BY <1>2, <1>4, <3>1, <4>2 DEF Ahead
      <3>2. OwedOK(a)
        BY <1>5
      <3> QED BY <1>2, <2>2, <3>1, <3>2 DEF OwedOK
    <2> QED BY <2>1, <2>2 DEF Refits
  <1>11. ASSUME NEW a \in Automation, NEW t \in 1..MaxTime, t \in owed'[a]
         PROVE  /\ t \in owed[a] /\ (Accounted(a, t) <=> Accounted(a, t)')
                /\ Coming(a, t) => Coming(a, t)'
    <2>1. owed'[a] = owed[a] /\ nextDue'[a] <= nextDue[a]
      BY <1>11 DEF Refits
    <2>2. nextDue[a] <= t => nextDue'[a] <= t
      BY <1>5, <2>1
    <2> QED BY <1>4, <1>11, <2>1, <2>2 DEF Accounted, Coming
  <1>12. (Gone \subseteq struck)'
    BY <1>1, <1>11, StillAccounted
  <1> QED BY <1>8, <1>9, <1>10, <1>12 DEF HistoryInv, LossInv

(* An entry made now comes before all that is still to come.                 *)
LEMMA NewEntry ==
  ASSUME HistoryInv, NEW a \in Automation
  PROVE  /\ Later(now, evaluated[a]) = now /\ Later(evaluated[a], now) = now
         /\ NextAfter(a, now) \in Times[a] \cup {Never}
         /\ NextAfter(a, now) \in 0..Never /\ now < NextAfter(a, now)
         /\ \A t \in Times[a] : t > now => NextAfter(a, now) <= t
  <1>1. now \in 0..MaxTime /\ MaxTime \in Nat
    BY Facts
  <1>2. evaluated[a] <= now /\ evaluated[a] \in Nat
    BY AutomationFacts
  <1>3. Later(now, evaluated[a]) = now /\ Later(evaluated[a], now) = now
    BY <1>1, <1>2 DEF Later
  <1> QED BY <1>1, <1>3, NextAfterFacts

LEMMA RegistrationEndsHistory ==
  ASSUME RunsInv, HistoryInv, RegistrationEnds
  PROVE  HistoryInv'
  <1> DEFINE watched == {a \in Automation : enabled[a]}
             todo == pass.todo \cap watched
             active == pass.active /\ pass.at \in watched
  <1>1. /\ UNCHANGED <<now, up, enabled, evaluated, auto, occurrence, phase, log,
                       missed, queue, owed, struck, faults>>
        /\ up /\ reg.at = None /\ reg.todo = {} /\ reg' = NoRegistration
        /\ nextDue' = Reconciled
        /\ pass' = [pass EXCEPT !.todo = todo, !.active = active]
    BY DEF RegistrationEnds, definitions, runs, runLog, faulty
  <1>2. /\ enabled \in [Automation -> BOOLEAN] /\ evaluated \in [Automation -> 0..MaxTime]
        /\ owed \in [Automation -> SUBSET (1..MaxTime)]
        /\ nextDue \in [Automation -> 0..Never] /\ PassShape
        /\ MaxTime \in Nat /\ Never = MaxTime + 1 /\ now \in 0..MaxTime /\ pass \in PassType
    BY Facts DEF ScheduleType
  <1>3. todo \in SUBSET pass.todo /\ active \in BOOLEAN
    BY <1>2 DEF PassType
  <1>4. nextDue' \in [Automation -> 0..Never] /\
        \A a \in Automation :
          \/ ~ enabled[a] /\ nextDue'[a] = Never
          \/ enabled[a] /\ nextDue[a] = Never /\ nextDue'[a] = NextAfter(a, now)
          \/ enabled[a] /\ nextDue[a] # Never /\ nextDue'[a] = nextDue[a]
    <2>1. nextDue' = [a \in Automation |->
            IF ~ enabled[a] THEN Never
            ELSE IF nextDue[a] = Never THEN NextAfter(a, now) ELSE nextDue[a]]
      BY <1>1, NewEntry DEF Reconciled
    <2>2. \A a \in Automation : NextAfter(a, now) \in 0..Never
      BY NewEntry
    <2>3. nextDue' \in [Automation -> 0..Never]
      BY <1>2, <2>1, <2>2
    <2> QED BY <2>1, <2>3
  <1>0. /\ SamePlace /\ pass'.todo = todo
        /\ \A a \in Automation :
             enabled[a] /\ pass.at = a => pass'.active = pass.active
    <2>1. SamePlace /\ pass'.todo = todo /\ pass'.active = active
      <3> HIDE DEF todo, active
      <3> QED BY <1>1, <1>2, <1>3, PlaceKept
    <2>2. ASSUME NEW a \in Automation, enabled[a], pass.at = a
          PROVE  pass'.active = pass.active
      <3>1. pass.active \in BOOLEAN /\ pass.at \in watched
        BY <1>2, <2>2 DEF PassType
      <3> QED BY <2>1, <3>1
    <2> QED BY <2>1, <2>2
  <1>5. ASSUME NEW a \in Automation PROVE Refits(a)
    <2>1. /\ EntryOK(a) /\ OwedOK(a) /\ evaluated[a] \in Nat /\ evaluated[a] <= now
          /\ nextDue[a] \in 0..Never
      BY AutomationFacts
    <2>2. ~ Registering(a)
      BY <1>1 DEF Registering
    <2>3. CASE ~ enabled[a] /\ nextDue'[a] = Never
      <3>1. owed'[a] = {}
        BY <1>1, <2>1, <2>3 DEF OwedOK
      <3>2. a \notin todo /\ now < Never
        BY <1>2, <2>3
      <3> HIDE DEF todo
      <3> QED BY <1>0, <1>1, <2>1, <2>2, <2>3, <3>1, <3>2 DEF Refits
    <2>4. CASE enabled[a] /\ nextDue[a] = Never /\ nextDue'[a] = NextAfter(a, now)
      <3>1. /\ NextAfter(a, now) \in Times[a] \cup {Never} /\ NextAfter(a, now) \in 0..Never
            /\ now < NextAfter(a, now)
            /\ \A t \in Times[a] : t > now => NextAfter(a, now) <= t
        BY NewEntry
      <3>2. a \notin todo
        <4>1. pass.now \in Nat /\ pass.now <= now
          BY <1>2, PassFacts DEF PassShape
        <4>2. a \in pass.todo => nextDue[a] <= pass.now
          BY <1>2 DEF PassShape
        <4> QED BY <1>2, <2>4, <4>1, <4>2
      <3>3. NextAfter(a, now) <= Never
        BY <1>2, <3>1
      <3> HIDE DEF todo
      <3> QED BY <1>0, <1>1, <2>1, <2>2, <2>4, <3>1, <3>2, <3>3 DEF Refits
    <2>5. CASE enabled[a] /\ nextDue[a] # Never /\ nextDue'[a] = nextDue[a]
      <3>1. nextDue[a] <= nextDue[a]
        BY <2>1
      <3> HIDE DEF todo
      <3> QED BY <1>0, <1>1, <2>1, <2>5, <3>1 DEF EntryOK, Refits
    <2> QED BY <1>4, <2>3, <2>4, <2>5
  <1> QED BY <1>0, <1>1, <1>2, <1>4, <1>5, ReconciledHistory

LEMMA SetEnabledHistory ==
  ASSUME RunsInv, HistoryInv, NEW a \in Automation, SetEnabled(a)
  PROVE  HistoryInv'
  <1> DEFINE todo == IF reg.on THEN pass.todo ELSE pass.todo \ {a}
             active == IF reg.on THEN pass.active ELSE pass.active /\ pass.at # a
  <1>1. /\ up /\ enabled' = [enabled EXCEPT ![a] = ~ @]
        /\ evaluated' = (IF enabled[a] THEN evaluated
                         ELSE [evaluated EXCEPT ![a] = Later(@, now)])
        /\ owed' = [owed EXCEPT ![a] = {}]
        /\ \/ reg.on /\ nextDue' = nextDue /\ pass' = pass
           \/ /\ ~ reg.on
              /\ nextDue' = [nextDue EXCEPT ![a] =
                   IF enabled[a] THEN Never ELSE NextAfter(a, evaluated'[a])]
              /\ pass' = [pass EXCEPT !.todo = @ \ {a}, !.active = @ /\ pass.at # a]
        /\ UNCHANGED <<now, up, reg, auto, occurrence, phase, log, missed, queue,
                       struck, faults>>
    BY DEF SetEnabled, runs, runLog, faulty
  <1>2. /\ enabled \in [Automation -> BOOLEAN] /\ evaluated \in [Automation -> 0..MaxTime]
        /\ owed \in [Automation -> SUBSET (1..MaxTime)]
        /\ nextDue \in [Automation -> 0..Never] /\ RegShape
        /\ MaxTime \in Nat /\ Never = MaxTime + 1 /\ now \in 0..MaxTime /\ pass \in PassType
    BY Facts DEF ScheduleType
  <1>3. /\ todo \in SUBSET pass.todo /\ active \in BOOLEAN
        /\ pass' = [pass EXCEPT !.todo = todo, !.active = active]
        /\ pass.at # a => active = pass.active
    <2>1. CASE reg.on
      <3>1. pass = [pass EXCEPT !.todo = pass.todo, !.active = pass.active]
        BY <1>2 DEF PassType
      <3>2. pass.active \in BOOLEAN
        BY <1>2 DEF PassType
      <3> QED BY <1>1, <2>1, <3>1, <3>2
    <2>2. CASE ~ reg.on
      <3>1. pass.active \in BOOLEAN
        BY <1>2 DEF PassType
      <3> QED BY <1>1, <2>2, <3>1
    <2> QED BY <2>1, <2>2
  <1>4. /\ enabled' \in [Automation -> BOOLEAN]
        /\ owed' \in [Automation -> SUBSET (1..MaxTime)]
        /\ owed'[a] = {}
        /\ \A b \in Automation \ {a} : enabled'[b] = enabled[b] /\ owed'[b] = owed[b]
        /\ enabled'[a] = ~ enabled[a]
    BY <1>1, <1>2
  <1>5. /\ Later(evaluated[a], now) = now
        /\ NextAfter(a, now) \in Times[a] \cup {Never} /\ NextAfter(a, now) \in 0..Never
        /\ now < NextAfter(a, now)
        /\ \A t \in Times[a] : t > now => NextAfter(a, now) <= t
    BY NewEntry
  <1>6. /\ evaluated' \in [Automation -> 0..MaxTime]
        /\ \A b \in Automation \ {a} : evaluated'[b] = evaluated[b]
        /\ enabled[a] => evaluated'[a] = evaluated[a]
        /\ ~ enabled[a] => evaluated'[a] = now
    BY <1>1, <1>2, <1>5
  <1>7. /\ nextDue' \in [Automation -> 0..Never]
        /\ \A b \in Automation \ {a} : nextDue'[b] = nextDue[b]
        /\ \/ reg.on /\ nextDue'[a] = nextDue[a]
           \/ ~ reg.on /\ enabled[a] /\ nextDue'[a] = Never
           \/ ~ reg.on /\ ~ enabled[a] /\ nextDue'[a] = NextAfter(a, now)
    BY <1>1, <1>2, <1>5, <1>6
  <1>0. /\ SamePlace /\ pass'.todo = todo
        /\ pass.at # a => pass'.active = pass.active
    <2>1. pass \in PassType
      BY <1>2
    <2> HIDE DEF todo, active
    <2>2. SamePlace /\ pass'.todo = todo /\ pass'.active = active
      BY <1>3, <2>1, PlaceKept
    <2> QED BY <1>3, <2>2
  <1>8. ASSUME NEW b \in Automation PROVE Refits(b)
    <2>1. /\ EntryOK(b) /\ evaluated[b] \in Nat /\ evaluated[b] <= now
          /\ nextDue[b] \in 0..Never
      BY AutomationFacts
    <2>2. CASE b # a
      <3>1. nextDue[b] <= nextDue[b]
        BY <2>1
      <3> HIDE DEF todo
      <3> QED BY <1>0, <1>1, <1>4, <1>6, <1>7, <2>1, <2>2, <3>1 DEF EntryOK, Refits
    <2>3. CASE b = a
      <3>1. evaluated[a] <= evaluated'[a] /\ evaluated'[a] <= now
        BY <1>2, <1>6, <2>1, <2>3
      <3>2. CASE reg.on
        BY <1>1, <1>4, <1>7, <2>1, <2>3, <3>1, <3>2 DEF EntryOK, Refits
      <3>3. CASE ~ reg.on
        <4>1. ~ Registering(a) /\ a \notin todo /\ now < Never
          BY <1>2, <3>3 DEF RegShape, Registering
        <4> HIDE DEF todo
        <4>2. CASE enabled[a] /\ nextDue'[a] = Never
          <5>1. now < nextDue'[a] /\ nextDue'[a] \in Times[a] \cup {Never}
            BY <4>1, <4>2
          <5>2. ~ (nextDue'[a] # Never \/ (enabled'[a] /\ ~ reg'.on))
            BY <1>4, <4>2
          <5>3. owed'[a] = {} /\ a \notin pass'.todo
            BY <1>0, <1>4, <4>1
          <5> QED BY <2>3, <3>1, <4>1, <5>1, <5>2, <5>3 DEF Refits
        <4>3. CASE ~ enabled[a] /\ nextDue'[a] = NextAfter(a, now)
          <5>1. /\ now < nextDue'[a] /\ nextDue'[a] \in Times[a] \cup {Never}
                /\ \A t \in Times[a] : t > now => nextDue'[a] <= t
            BY <1>5, <4>3
          <5>2. owed'[a] = {} /\ a \notin pass'.todo
            BY <1>0, <1>4, <4>1
          <5> QED BY <2>3, <3>1, <4>1, <5>1, <5>2 DEF Refits
        <4> QED BY <1>7, <3>3, <4>2, <4>3
      <3> QED BY <3>2, <3>3
    <2> QED BY <2>2, <2>3
  <1> QED BY <1>0, <1>1, <1>4, <1>6, <1>7, <1>8, ReconciledHistory

-----------------------------------------------------------------------------
(* The pass, or the registration, comes to an entry. *)

(* A report joins the queue behind those of the other.                       *)
LEMMA ReportJoins ==
  ASSUME RunsInv, HistoryInv, NEW a, NEW late, NEW by,
         queue' = Append(queue, MissedWrite(a, late, by)),
         \/ /\ by = "pass" /\ pass.stage # "missed" /\ reg' = reg
            /\ pass'.at = a /\ pass'.late = late
         \/ /\ by = "reg" /\ reg.stage # "missed" /\ pass' = pass
            /\ reg'.at = a /\ reg'.late = late
  PROVE  ReportQueued'
  <1> DEFINE w == MissedWrite(a, late, by)
  <1>1. w.auto = a /\ w.times = late /\ w.by = by
    BY DEF MissedWrite
  <1>2. queue \in Seq(Writes) /\ ReportQueued
    BY Facts DEF RunsInv, TypeOK
  <1> HIDE DEF w
  <1>3. /\ Len(queue) \in Nat /\ DOMAIN queue = 1..Len(queue)
        /\ DOMAIN queue' = 1..(Len(queue) + 1)
        /\ queue'[Len(queue) + 1] = w
        /\ \A i \in 1..Len(queue) : queue'[i] = queue[i]
    BY <1>2 DEF w
  <1>4. \A i \in DOMAIN queue' : i \in DOMAIN queue \/ i = Len(queue) + 1
    BY <1>3
  <1>5. \A i \in DOMAIN queue : queue[i].what = "missed" =>
          \/ queue[i].by = "pass" /\ pass.stage = "missed"
          \/ queue[i].by = "reg" /\ reg.stage = "missed"
    BY NoReport
  <1> QED BY <1>1, <1>2, <1>3, <1>4, <1>5 DEF ReportQueued

(* The pass is at the entry of automation a, with late to report and latest to
   hand over. *)
Entered(a, late, latest, next) ==
  /\ pass' \in PassType /\ pass'.kind = pass.kind /\ pass'.now = pass.now
  /\ pass'.todo = pass.todo \ {a} /\ pass'.at = a /\ pass'.active
  /\ pass'.late = late /\ pass'.latest = latest
  /\ pass'.stage = IF late = {} THEN "mark" ELSE "missed"
  /\ queue' = IF late = {} THEN queue ELSE Append(queue, MissedWrite(a, late, "pass"))
  /\ nextDue' = [nextDue EXCEPT ![a] = next]
  /\ UNCHANGED <<now, up, enabled, evaluated, reg, auto, occurrence, phase, log,
                 missed, owed, struck, faults>>

LEMMA EnteredHistory ==
  ASSUME RunsInv, HistoryInv, up, pass.at = None, NEW a \in Automation,
         a \in pass.todo, NEW late \in SUBSET (1..MaxTime), NEW latest \in 0..MaxTime,
         NEW next \in 0..Never, Entered(a, late, latest, next),
         next \in Times[a] \cup {Never}, pass.now < next,
         \A t \in Times[a] : t > pass.now => next <= t,
         \A t \in late : nextDue[a] <= t /\ t <= pass.now,
         latest # 0 => nextDue[a] <= latest /\ latest <= pass.now,
         latest \notin late,
         \A t \in Times[a] : nextDue[a] <= t => t \in late \/ t = latest \/ next <= t
  PROVE  HistoryInv'
  <1>1. /\ UNCHANGED <<now, up, enabled, evaluated, reg, auto, occurrence, phase, log,
                       missed, owed, struck, faults>>
        /\ nextDue' = [nextDue EXCEPT ![a] = next]
        /\ pass' \in PassType /\ pass'.kind = pass.kind /\ pass'.now = pass.now
        /\ pass'.todo = pass.todo \ {a} /\ pass'.at = a /\ pass'.active
        /\ pass'.late = late /\ pass'.latest = latest
        /\ pass'.stage \in {"mark", "missed"} /\ (late # {} => pass'.stage = "missed")
    BY DEF Entered
  <1>2. pass.stage = "idle"
    BY DEF RunsInv, TypeOK, PassOK
  <1>3. /\ ScheduleInv /\ OnceInv /\ LossInv /\ ScheduleType /\ PassShape /\ RegShape
        /\ Apart /\ ReportQueued /\ MaxTime \in Nat /\ Never = MaxTime + 1
        /\ None \notin Automation /\ Times[a] \subseteq 1..MaxTime
        /\ now \in 0..MaxTime /\ nextDue \in [Automation -> 0..Never] /\ faults \in Nat
    BY Facts
  <1>4. pass.now \in Nat /\ pass.now <= now /\ pass.todo \in SUBSET Automation
    BY Facts, PassFacts DEF PassShape
  <1>5. /\ nextDue'[a] = next /\ \A b \in Automation \ {a} : nextDue'[b] = nextDue[b]
        /\ nextDue' \in [Automation -> 0..Never]
    BY <1>1, <1>3
  <1>6. /\ EntryOK(a) /\ OwedOK(a) /\ owed[a] \in SUBSET (1..MaxTime)
        /\ nextDue[a] <= pass.now /\ nextDue[a] \in 1..MaxTime
        /\ ~ Registering(a) /\ nextDue[a] < next
    <2>1. EntryOK(a) /\ OwedOK(a) /\ owed[a] \in SUBSET (1..MaxTime)
      BY AutomationFacts
    <2>2. nextDue[a] <= pass.now
      BY <1>3 DEF PassShape
    <2>3. nextDue[a] \in 1..MaxTime
      BY <1>3, <1>4, <2>1, <2>2 DEF EntryOK
    <2> QED BY <1>3, <1>4, <2>1, <2>2, <2>3 DEF EntryOK
  <1>7. /\ \A b \in Automation : Registering(b)' <=> Registering(b)
        /\ \A b \in Automation : \A t : ~ PassReports(b, t) /\ ~ Carries(b, t) /\ ~ Handed(b, t)
        /\ \A b \in Automation : \A t : RegReports(b, t)' <=> RegReports(b, t)
        /\ \A t : PassReports(a, t)' => t \in late
        /\ \A t : Carries(a, t)' <=> t = latest
        /\ \A b \in Automation \ {a} : \A t : ~ PassReports(b, t)' /\ ~ Carries(b, t)'
    BY <1>1, <1>2 DEF Registering, PassReports, RegReports, Carries, Handed
  <1>8. ASSUME NEW t \in 1..MaxTime, nextDue[a] <= t
        PROVE  missed[a][t] = 0 /\ \A r \in Run : auto[r] = a => occurrence[r] # t
    <2>1. ReportOK(a, t) /\ missed[a][t] \in Nat
      BY AutomationFacts
    <2>2. missed[a][t] = 0
      BY <1>6, <1>8, <2>1 DEF ReportOK
    <2>3. ASSUME NEW r \in Run, auto[r] = a, occurrence[r] = t PROVE FALSE
      <3>1. OccurrenceOK(r, a)
        BY AutomationFacts
      <3>2. occurrence[r] < nextDue[a]
        BY <2>3, <3>1 DEF OccurrenceOK
      <3> QED BY <1>6, <1>8, <2>3, <3>2
    <2> QED BY <2>2, <2>3
  <1>9. ScheduleInv'
    <2>1. ScheduleType'
      BY <1>1, <1>3, <1>5 DEF ScheduleType
    <2>2. PassShape'
      <3>1. /\ latest <= pass.now
            /\ \A b \in pass.todo \ {a} : nextDue'[b] <= pass.now
            /\ a \notin (pass.todo \ {a}) \cup reg.todo
        BY <1>3, <1>4, <1>5, <1>6 DEF PassShape, Registering
      <3> QED BY <1>1, <1>3, <1>4, <1>5, <3>1 DEF PassShape
    <2>3. RegShape' /\ Apart'
      <3>1. CASE reg.at = a
        <4>1. reg.now < nextDue[a] /\ reg.now \in Nat
          BY <1>3, <3>1, Facts, RegFacts DEF RegShape
        <4>2. reg.now < next /\ (\A t \in late : reg.now < t)
              /\ (latest # 0 => reg.now < latest)
          BY <1>6, <4>1
        <4> QED BY <1>1, <1>3, <1>5, <3>1, <4>2 DEF RegShape, Apart
      <3>2. CASE reg.at # a
        <4>1. reg.at # None => reg.at \in Automation \ {a}
          BY <3>2, Facts, RegFacts
        <4> QED BY <1>1, <1>3, <1>5, <3>2, <4>1 DEF RegShape, Apart
      <3> QED BY <3>1, <3>2
    <2>4. ReportQueued'
      <3>1. CASE late = {}
        BY <1>1, <1>2, <3>1, Facts, ReportsStay DEF Entered
      <3>2. CASE late # {}
        <4>1. queue' = Append(queue, MissedWrite(a, late, "pass"))
          BY <3>2 DEF Entered
        <4> QED BY <1>1, <1>2, <4>1, ReportJoins
      <3> QED BY <3>1, <3>2
    <2>5. ASSUME NEW b \in Automation PROVE EntryOK(b)'
      <3>1. EntryOK(b)
        BY AutomationFacts
      <3>2. CASE b = a
        <4>1. \A t \in Times[a] : t > now => next <= t
          BY <1>3, <1>4
        <4> QED BY <1>1, <1>5, <1>6, <1>7, <3>1, <3>2, <4>1 DEF EntryOK
      <3>3. CASE b # a
        BY <1>1, <1>5, <1>7, <3>1, <3>3 DEF EntryOK
      <3> QED BY <3>2, <3>3
    <2> QED BY <1>1, <1>3, <2>1, <2>2, <2>3, <2>4, <2>5 DEF ScheduleInv, RunShape
  <1>10. OnceInv'
    <2>1. ASSUME NEW b \in Automation, NEW t \in 1..MaxTime PROVE ReportOK(b, t)'
      <3>1. ReportOK(b, t) /\ missed[b][t] \in Nat
        BY AutomationFacts
      <3>2. CASE b = a
        <4>1. missed[a][t] > 0 => t < next /\ ~ Carries(a, t)'
          <5>1. missed[a][t] > 0 => t < nextDue[a]
            BY <3>1, <3>2 DEF ReportOK
          <5> QED BY <1>6, <1>7, <5>1
        <4>2. Reports(a, t)' => missed[a][t] <= faults
          <5>1. t \in late => missed[a][t] = 0
            BY <1>8
          <5>2. RegReports(a, t) => missed[a][t] <= faults
            BY <3>1, <3>2 DEF ReportOK, Reports
          <5> QED BY <1>3, <1>7, <5>1, <5>2 DEF Reports
        <4> QED BY <1>1, <1>5, <1>6, <1>7, <3>1, <3>2, <4>1, <4>2 DEF ReportOK
      <3>3. CASE b # a
        <4>1. (Reports(b, t)' => Reports(b, t)) /\ ~ Carries(b, t)'
          BY <1>7, <3>3 DEF Reports
        <4> QED BY <1>1, <1>5, <1>7, <3>1, <3>3, <4>1 DEF ReportOK
      <3> QED BY <3>2, <3>3
    <2>2. ASSUME NEW r \in Run, NEW b \in Automation PROVE OccurrenceOK(r, b)'
      <3> SUFFICES ASSUME auto[r] = b, occurrence[r] # 0 PROVE OccurrenceOK(r, b)'
        BY <1>1 DEF OccurrenceOK
      <3>1. OccurrenceOK(r, b) /\ occurrence[r] \in 1..MaxTime
        BY AutomationFacts, <1>3
      <3>2. CASE b = a
        <4>1. ~ (nextDue[a] <= occurrence[r])
          BY <1>8, <3>1, <3>2
        <4>2. occurrence[r] < next
          BY <1>6, <3>1, <4>1
        <4>3. ~ Reports(a, occurrence[r])' /\ ~ Carries(a, occurrence[r])'
          BY <1>1, <1>3, <1>7, <3>1, <3>2, <4>1 DEF Reports, OccurrenceOK
        <4> QED BY <1>1, <1>5, <1>6, <1>7, <3>1, <3>2, <4>2, <4>3 DEF OccurrenceOK
      <3>3. CASE b # a
        <4>1. /\ Reports(b, occurrence[r])' => Reports(b, occurrence[r])
              /\ ~ Carries(b, occurrence[r])'
          BY <1>1, <1>7, <3>3 DEF Reports
        <4> QED BY <1>1, <1>5, <1>7, <3>1, <3>3, <4>1 DEF OccurrenceOK
      <3> QED BY <3>2, <3>3
    <2> QED BY <2>1, <2>2 DEF OnceInv
  <1>11. ASSUME NEW b \in Automation PROVE OwedOK(b)'
    <2>1. OwedOK(b) /\ owed[b] \in SUBSET (1..MaxTime)
      BY AutomationFacts
    <2>2. ASSUME NEW t \in owed[b], Ahead(b, t)' PROVE Ahead(b, t)
      <3>1. CASE b = a
        <4>1. t \in 1..MaxTime
          BY <2>1
        <4>2. next <= t \/ t \in late \/ t = latest => nextDue[a] <= t
          BY <1>6, <4>1
        <4> QED BY <1>5, <1>6, <1>7, <2>2, <3>1, <4>2 DEF Ahead
      <3>2. CASE b # a
        BY <1>1, <1>5, <1>7, <2>2, <3>2 DEF Ahead
      <3> QED BY <3>1, <3>2
    <2>3. pass'.at = b => pass'.active
      BY <1>1
    <2> QED BY <1>1, <2>1, <2>2, <2>3 DEF OwedOK
  <1>12. ASSUME NEW b \in Automation, NEW t \in 1..MaxTime, t \in owed'[b]
         PROVE  (Accounted(b, t) <=> Accounted(b, t)') /\ (Coming(b, t) => Coming(b, t)')
    <2>1. Accounted(b, t) <=> Accounted(b, t)'
      BY <1>1 DEF Accounted
    <2>2. Coming(b, t) => \/ nextDue[b] <= t
                          \/ Registering(b) /\ reg.from[b] < t
                          \/ RegReports(b, t)
      BY <1>7 DEF Coming, Reports
    <2>3. CASE b = a
      <3>1. t \in Times[a]
        BY <1>1, <1>6, <1>12, <2>3 DEF OwedOK
      <3>2. nextDue[a] <= t => t \in late \/ t = latest \/ next <= t
        BY <3>1
      <3>3. t \in late => PassReports(a, t)'
        BY <1>1 DEF PassReports
      <3> QED BY <1>1, <1>5, <1>6, <1>7, <2>1, <2>2, <2>3, <3>2, <3>3 DEF Coming, Reports
    <2>4. CASE b # a
      BY <1>1, <1>5, <1>7, <2>1, <2>2, <2>4 DEF Coming, Reports
    <2> QED BY <2>3, <2>4
  <1>13. (Gone \subseteq struck)'
    BY <1>1, <1>3, <1>12, StillAccounted
  <1> QED BY <1>9, <1>10, <1>11, <1>13 DEF HistoryInv, LossInv

LEMMA EnterEntered ==
  ASSUME pass \in PassType, NEW a \in Automation, NEW late \in SUBSET (1..MaxTime),
         NEW latest \in 0..MaxTime, NEW next, Enter(a, late, latest),
         nextDue' = [nextDue EXCEPT ![a] = next],
         UNCHANGED <<now, up, definitions, reg, auto, occurrence, phase, faulty>>
  PROVE  Entered(a, late, latest, next)
  <1> DEFINE stage == IF late = {} THEN "mark" ELSE "missed"
  <1>1. pass' = [pass EXCEPT !.todo = @ \ {a}, !.at = a, !.active = TRUE,
                             !.late = late, !.latest = latest, !.stage = stage]
    BY DEF Enter
  <1>2. stage \in {"mark", "missed"}
    OBVIOUS
  <1> HIDE DEF stage
  <1>3. /\ pass' \in PassType /\ pass'.stage = stage /\ pass'.at = a
        /\ pass'.late = late /\ pass'.latest = latest /\ pass'.kind = pass.kind
        /\ pass'.now = pass.now /\ pass'.todo = pass.todo \ {a}
        /\ pass'.active = TRUE
    BY <1>1, <1>2 DEF PassType
  <1>4. /\ queue' = (IF late = {} THEN queue ELSE Append(queue, MissedWrite(a, late, "pass")))
        /\ UNCHANGED <<log, missed>>
    BY DEF Enter, Enqueue, runLog
  <1> QED BY <1>3, <1>4 DEF Entered, definitions, stage, faulty

LEMMA FireEntryHistory ==
  ASSUME RunsInv, HistoryInv, NEW a \in Automation, FireEntry(a)
  PROVE  HistoryInv'
  <1> DEFINE due == {t \in Times[a] : nextDue[a] <= t /\ t <= pass.now}
             last == Greatest(due)
             next == NextAfter(a, pass.now)
  <1>1. /\ up /\ pass.at = None /\ a \in pass.todo
        /\ nextDue' = [nextDue EXCEPT ![a] = next]
        /\ UNCHANGED <<now, up, definitions, reg, auto, occurrence, phase, faulty>>
        /\ Enter(a, due \ {last}, last) \/ Enter(a, due, 0)
    BY DEF FireEntry, runs
  <1>2. /\ pass \in PassType /\ pass.now \in Nat /\ pass.now <= now /\ now \in 0..MaxTime
        /\ MaxTime \in Nat /\ Never = MaxTime + 1 /\ Times[a] \subseteq 1..MaxTime
        /\ nextDue[a] \in Times[a] \cup {Never} /\ nextDue[a] <= pass.now
    BY <1>1, Facts, PassFacts, AutomationFacts DEF PassShape, EntryOK
  <1>3. /\ next \in Times[a] \cup {Never} /\ next \in 0..Never
        /\ \A t \in Times[a] : t > pass.now => next <= t
        /\ pass.now < next
    BY <1>2, NextAfterFacts
  <1>4. nextDue[a] \in due /\ due \subseteq 0..pass.now /\ due \subseteq 1..MaxTime
    BY <1>2
  <1>5. last \in due
    BY <1>2, <1>4, GreatestExists
  <1> HIDE DEF next, last
  <1>6. \A t \in Times[a] : nextDue[a] <= t => t \in due \/ next <= t
    BY <1>2, <1>3
  <1>7. \A t \in due : nextDue[a] <= t /\ t <= pass.now
    OBVIOUS
  <1>8. CASE Enter(a, due \ {last}, last)
    <2>1. /\ due \ {last} \in SUBSET (1..MaxTime) /\ last \in 0..MaxTime
          /\ nextDue[a] <= last /\ last <= pass.now
      BY <1>4, <1>5
    <2>2. Entered(a, due \ {last}, last, next)
      BY <1>1, <1>2, <1>8, <2>1, EnterEntered
    <2>3. \A t \in Times[a] : nextDue[a] <= t => t \in due \ {last} \/ t = last \/ next <= t
      BY <1>6
    <2>4. \A t \in due \ {last} : nextDue[a] <= t /\ t <= pass.now
      BY <1>7
    <2>5. last \notin due \ {last}
      OBVIOUS
    <2> HIDE DEF due
    <2> QED BY <1>1, <1>3, <2>1, <2>2, <2>3, <2>4, <2>5, EnteredHistory
  <1>9. CASE Enter(a, due, 0)
    <2>1. due \in SUBSET (1..MaxTime) /\ 0 \in 0..MaxTime /\ 0 \notin due
      BY <1>2, <1>4
    <2>2. Entered(a, due, 0, next)
      BY <1>1, <1>2, <1>9, <2>1, EnterEntered
    <2>3. \A t \in Times[a] : nextDue[a] <= t => t \in due \/ t = 0 \/ next <= t
      BY <1>6
    <2> HIDE DEF due
    <2> QED BY <1>1, <1>3, <1>7, <2>1, <2>2, <2>3, EnteredHistory
  <1> QED BY <1>1, <1>8, <1>9

(* The registration has made the entry of automation a, with late to report. *)
EntryMade(a, late, next) ==
  /\ reg' \in RegType /\ reg'.on /\ reg'.now = reg.now /\ reg'.from = reg.from
  /\ reg'.todo = reg.todo \ {a} /\ reg'.late = late
  /\ \/ reg'.at = a /\ reg'.stage = IF late = {} THEN "mark" ELSE "missed"
     \/ reg'.at = None /\ reg'.stage = "idle" /\ late = {}
  /\ queue' = IF late = {} THEN queue ELSE Append(queue, MissedWrite(a, late, "reg"))
  /\ nextDue' = [nextDue EXCEPT ![a] = next]
  /\ UNCHANGED <<now, up, enabled, evaluated, pass, auto, occurrence, phase, log,
                 missed, owed, struck, faults>>

LEMMA EntryMadeHistory ==
  ASSUME RunsInv, HistoryInv, up, reg.on, reg.at = None, NEW a \in Automation,
         a \in reg.todo, NEW late \in SUBSET (1..MaxTime),
         NEW next \in 0..Never, EntryMade(a, late, next),
         next \in Times[a] \cup {Never}, reg.now < next, reg.from[a] < next,
         \A t \in Times[a] : t > now => next <= t,
         \A t \in late : reg.from[a] < t /\ t <= reg.now,
         \A t \in Times[a] : reg.from[a] < t => t \in late \/ next <= t
  PROVE  HistoryInv'
  <1>1. /\ UNCHANGED <<now, up, enabled, evaluated, pass, auto, occurrence, phase, log,
                       missed, owed, struck, faults>>
        /\ nextDue' = [nextDue EXCEPT ![a] = next]
        /\ reg' \in RegType /\ reg'.on /\ reg'.now = reg.now /\ reg'.from = reg.from
        /\ reg'.todo = reg.todo \ {a} /\ reg'.late = late /\ reg'.at \in {a, None}
        /\ reg'.stage = "missed" => reg'.at = a
        /\ late # {} => reg'.at = a /\ reg'.stage = "missed"
    BY DEF EntryMade
  <1>2. reg.stage = "idle"
    BY DEF RunsInv, TypeOK, RegOK
  <1>3. /\ ScheduleInv /\ OnceInv /\ LossInv /\ ScheduleType /\ PassShape /\ RegShape
        /\ Apart /\ ReportQueued /\ MaxTime \in Nat /\ Never = MaxTime + 1
        /\ None \notin Automation /\ Times[a] \subseteq 1..MaxTime
        /\ now \in 0..MaxTime /\ nextDue \in [Automation -> 0..Never] /\ faults \in Nat
        /\ reg \in RegType /\ pass \in PassType
    BY Facts
  <1>4. /\ pass.now \in Nat /\ pass.now <= now /\ pass.todo \in SUBSET Automation
        /\ reg.now \in Nat /\ reg.todo \in SUBSET Automation
        /\ pass.at \in Automation \cup {None}
    BY <1>3, PassFacts, RegFacts DEF PassShape
  <1>5. /\ nextDue'[a] = next /\ \A b \in Automation \ {a} : nextDue'[b] = nextDue[b]
        /\ nextDue' \in [Automation -> 0..Never]
    BY <1>1, <1>3
  <1>6. /\ EntryOK(a) /\ OwedOK(a) /\ owed[a] \in SUBSET (1..MaxTime)
        /\ Registering(a) /\ nextDue[a] = Never /\ reg.from[a] \in Nat
        /\ pass.at # a /\ a \notin pass.todo
    <2>1. /\ EntryOK(a) /\ OwedOK(a) /\ owed[a] \in SUBSET (1..MaxTime)
          /\ reg.from[a] \in Nat
      BY AutomationFacts
    <2>2. Registering(a) /\ nextDue[a] = Never
      BY <2>1 DEF Registering, EntryOK
    <2>3. pass.at # a
      BY <1>3 DEF PassShape
    <2>4. a \notin pass.todo
      <3> SUFFICES ASSUME a \in pass.todo PROVE FALSE
        OBVIOUS
      <3>1. nextDue[a] <= pass.now
        BY <1>3 DEF PassShape
      <3> QED BY <1>3, <1>4, <2>2, <3>1
    <2> QED BY <2>1, <2>2, <2>3, <2>4
  <1>7. /\ ~ Registering(a)'
        /\ \A b \in Automation \ {a} : Registering(b)' <=> Registering(b)
        /\ \A b \in Automation : \A t : ~ RegReports(b, t)
        /\ \A b \in Automation : \A t : PassReports(b, t)' <=> PassReports(b, t)
        /\ \A b \in Automation : \A t : Carries(b, t)' <=> Carries(b, t)
        /\ \A b \in Automation : \A t : Handed(b, t)' <=> Handed(b, t)
        /\ \A t : ~ PassReports(a, t) /\ ~ Carries(a, t) /\ ~ Handed(a, t)
        /\ \A t : RegReports(a, t)' <=> t \in late
        /\ \A b \in Automation \ {a} : \A t : ~ RegReports(b, t)'
    BY <1>1, <1>2, <1>3, <1>6
    DEF Registering, PassReports, RegReports, Carries, Handed
  <1>8. ScheduleInv'
    <2>1. ScheduleType'
      BY <1>1, <1>3, <1>5 DEF ScheduleType
    <2>2. PassShape'
      <3>1. \A b \in pass.todo : nextDue'[b] = nextDue[b]
        BY <1>4, <1>5, <1>6
      <3>2. pass.at # None => nextDue'[pass.at] = nextDue[pass.at]
        BY <1>4, <1>5, <1>6
      <3> QED BY <1>1, <1>3, <3>1, <3>2 DEF PassShape
    <2>3. RegShape' /\ Apart'
      BY <1>1, <1>3, <1>4, <1>5, <1>6 DEF RegShape, Apart
    <2>4. ReportQueued'
      <3>1. CASE late = {}
        BY <1>1, <1>2, <3>1, ReportsStay, <1>3 DEF EntryMade
      <3>2. CASE late # {}
        <4>1. queue' = Append(queue, MissedWrite(a, late, "reg"))
          BY <3>2 DEF EntryMade
        <4> QED BY <1>1, <1>2, <3>2, <4>1, ReportJoins
      <3> QED BY <3>1, <3>2
    <2>5. ASSUME NEW b \in Automation PROVE EntryOK(b)'
      <3>1. EntryOK(b)
        BY AutomationFacts
      <3>2. CASE b = a
        BY <1>1, <1>5, <1>7, <3>1, <3>2 DEF EntryOK
      <3>3. CASE b # a
        BY <1>1, <1>5, <1>7, <3>1, <3>3 DEF EntryOK
      <3> QED BY <3>2, <3>3
    <2> QED BY <1>1, <1>3, <2>1, <2>2, <2>3, <2>4, <2>5 DEF ScheduleInv, RunShape
  <1>9. OnceInv'
    <2>1. ASSUME NEW b \in Automation, NEW t \in 1..MaxTime PROVE ReportOK(b, t)'
      <3>1. ReportOK(b, t) /\ missed[b][t] \in Nat
        BY AutomationFacts
      <3>2. CASE b = a
        <4>1. missed[a][t] <= faults /\ (missed[a][t] > 0 => t <= reg.now)
          BY <1>6, <3>1, <3>2 DEF ReportOK
        <4>2. missed[a][t] > 0 => t < next
          BY <1>4, <4>1
        <4> QED BY <1>1, <1>5, <1>7, <3>1, <3>2, <4>1, <4>2 DEF ReportOK
      <3>3. CASE b # a
        <4>1. Reports(b, t)' => Reports(b, t)
          BY <1>7, <3>3 DEF Reports
        <4> QED BY <1>1, <1>5, <1>7, <3>1, <3>3, <4>1 DEF ReportOK
      <3> QED BY <3>2, <3>3
    <2>2. ASSUME NEW r \in Run, NEW b \in Automation PROVE OccurrenceOK(r, b)'
      <3> SUFFICES ASSUME auto[r] = b, occurrence[r] # 0 PROVE OccurrenceOK(r, b)'
        BY <1>1 DEF OccurrenceOK
      <3>1. OccurrenceOK(r, b) /\ occurrence[r] \in 1..MaxTime
        BY AutomationFacts, <1>3
      <3>2. CASE b = a
        <4>1. occurrence[r] <= reg.from[a]
          BY <1>6, <3>1, <3>2 DEF OccurrenceOK
        <4>2. occurrence[r] < next
          BY <1>6, <3>1, <4>1
        <4>3. ~ Reports(a, occurrence[r])'
          BY <1>1, <1>6, <1>7, <3>1, <4>1 DEF Reports
        <4> QED BY <1>1, <1>5, <1>7, <3>1, <3>2, <4>2, <4>3 DEF OccurrenceOK
      <3>3. CASE b # a
        <4>1. Reports(b, occurrence[r])' => Reports(b, occurrence[r])
          BY <1>1, <1>7, <3>3 DEF Reports
        <4> QED BY <1>1, <1>5, <1>7, <3>1, <3>3, <4>1 DEF OccurrenceOK
      <3> QED BY <3>2, <3>3
    <2> QED BY <2>1, <2>2 DEF OnceInv
  <1>10. ASSUME NEW b \in Automation PROVE OwedOK(b)'
    <2>1. OwedOK(b) /\ owed[b] \in SUBSET (1..MaxTime)
      BY AutomationFacts
    <2>2. ASSUME NEW t \in owed[b], Ahead(b, t)' PROVE Ahead(b, t)
      <3>1. CASE b = a
        <4>1. next <= t => reg.from[a] < t
          BY <1>6, <2>1, <3>1
        <4> QED BY <1>1, <1>5, <1>6, <1>7, <2>2, <3>1, <4>1 DEF Ahead
      <3>2. CASE b # a
        BY <1>1, <1>5, <1>7, <2>2, <3>2 DEF Ahead
      <3> QED BY <3>1, <3>2
    <2> QED BY <1>1, <2>1, <2>2 DEF OwedOK
  <1>11. ASSUME NEW b \in Automation, NEW t \in 1..MaxTime, t \in owed'[b]
         PROVE  (Accounted(b, t) <=> Accounted(b, t)') /\ (Coming(b, t) => Coming(b, t)')
    <2>1. Accounted(b, t) <=> Accounted(b, t)'
      BY <1>1 DEF Accounted
    <2>2. CASE b = a
      <3>1. t \in Times[a] /\ ~ (nextDue[a] <= t)
        BY <1>1, <1>3, <1>6, <1>11, <2>2 DEF OwedOK
      <3>2. Coming(a, t) => t \in late \/ next <= t
        BY <1>6, <1>7, <3>1 DEF Coming, Reports
      <3> QED BY <1>1, <1>5, <1>7, <2>1, <2>2, <3>2 DEF Coming, Reports
    <2>3. CASE b # a
      BY <1>1, <1>5, <1>7, <2>1, <2>3 DEF Coming, Reports
    <2> QED BY <2>2, <2>3
  <1>12. (Gone \subseteq struck)'
    BY <1>1, <1>3, <1>11, StillAccounted
  <1> QED BY <1>8, <1>9, <1>10, <1>12 DEF HistoryInv, LossInv

LEMMA RegisterEntryHistory ==
  ASSUME RunsInv, HistoryInv, NEW a \in Automation, RegisterEntry(a)
  PROVE  HistoryInv'
  <1> DEFINE due == {t \in Times[a] : reg.from[a] < t /\ t <= reg.now}
             next == NextAfter(a, Later(reg.now, reg.from[a]))
             from == Later(reg.now, reg.from[a])
  <1>1. /\ up /\ reg.on /\ reg.at = None /\ a \in reg.todo
        /\ nextDue' = [nextDue EXCEPT ![a] = next]
        /\ UNCHANGED <<now, up, definitions, pass, auto, occurrence, phase, faulty>>
        /\ \/ /\ reg.from[a] >= reg.now
              /\ reg' = [reg EXCEPT !.todo = @ \ {a}]
              /\ UNCHANGED runLog
           \/ /\ reg.from[a] < reg.now /\ due = {}
              /\ reg' = [reg EXCEPT !.todo = @ \ {a}, !.at = a, !.stage = "mark"]
              /\ UNCHANGED runLog
           \/ /\ reg.from[a] < reg.now /\ due # {}
              /\ reg' = [reg EXCEPT !.todo = @ \ {a}, !.at = a, !.stage = "missed",
                                    !.late = due]
              /\ Enqueue(MissedWrite(a, due, "reg"))
    BY DEF RegisterEntry, runs
  <1>2. /\ reg \in RegType /\ reg.now \in Nat /\ reg.now <= now /\ now \in 0..MaxTime
        /\ MaxTime \in Nat /\ Never = MaxTime + 1 /\ Times[a] \subseteq 1..MaxTime
        /\ reg.from[a] \in Nat /\ reg.from[a] <= now /\ reg.late = {} /\ reg.stage = "idle"
    <2>1. /\ reg \in RegType /\ now \in 0..MaxTime /\ RegShape
          /\ MaxTime \in Nat /\ Never = MaxTime + 1 /\ Times[a] \subseteq 1..MaxTime
      BY Facts
    <2>2. /\ reg.from[a] \in Nat /\ reg.from[a] <= evaluated[a] /\ evaluated[a] <= now
          /\ evaluated[a] \in Nat
      BY <1>1, AutomationFacts DEF EntryOK, Registering
    <2>3. reg.stage = "idle"
      BY <1>1 DEF RunsInv, TypeOK, RegOK
    <2> QED BY <1>1, <2>1, <2>2, <2>3, RegFacts DEF RegShape
  <1>3. /\ from \in {reg.now, reg.from[a]} /\ reg.now <= from /\ reg.from[a] <= from
    BY <1>2, LaterFacts
  <1>4. from \in Nat /\ from <= now /\ from <= MaxTime
    BY <1>2, <1>3
  <1>5. /\ next \in Times[a] \cup {Never} /\ next \in 0..Never
        /\ \A t \in Times[a] : t > from => next <= t
        /\ from < next
    BY <1>4, NextAfterFacts
  <1> HIDE DEF next, from
  <1>6. reg.now < next /\ reg.from[a] < next /\ \A t \in Times[a] : t > now => next <= t
    BY <1>2, <1>3, <1>4, <1>5
  <1>7. /\ \A t \in due : reg.from[a] < t /\ t <= reg.now
        /\ due \in SUBSET (1..MaxTime)
    BY <1>2
  <1>8. \A t \in Times[a] : reg.from[a] < t => t \in due \/ next <= t
    BY <1>2, <1>3, <1>5
  <1>9. reg.from[a] >= reg.now => due = {}
    BY <1>2
  <1> HIDE DEF due
  <1>10. EntryMade(a, due, next)
    <2>1. CASE reg.from[a] >= reg.now /\ reg' = [reg EXCEPT !.todo = @ \ {a}]
               /\ UNCHANGED runLog
      <3>1. /\ reg' \in RegType /\ reg'.on = reg.on /\ reg'.now = reg.now
            /\ reg'.from = reg.from /\ reg'.todo = reg.todo \ {a}
            /\ reg'.late = reg.late /\ reg'.at = reg.at /\ reg'.stage = reg.stage
        BY <1>2, <2>1 DEF RegType
      <3> QED BY <1>1, <1>2, <1>9, <2>1, <3>1 DEF EntryMade, definitions, faulty, runLog
    <2>2. CASE /\ due = {}
               /\ reg' = [reg EXCEPT !.todo = @ \ {a}, !.at = a, !.stage = "mark"]
               /\ UNCHANGED runLog
      <3>1. /\ reg' \in RegType /\ reg'.on = reg.on /\ reg'.now = reg.now
            /\ reg'.from = reg.from /\ reg'.todo = reg.todo \ {a}
            /\ reg'.late = reg.late /\ reg'.at = a /\ reg'.stage = "mark"
        BY <1>2, <2>2 DEF RegType
      <3> QED BY <1>1, <1>2, <2>2, <3>1 DEF EntryMade, definitions, faulty, runLog
    <2>3. CASE /\ due # {}
               /\ reg' = [reg EXCEPT !.todo = @ \ {a}, !.at = a, !.stage = "missed",
                                     !.late = due]
               /\ Enqueue(MissedWrite(a, due, "reg"))
      <3>1. /\ reg' \in RegType /\ reg'.on = reg.on /\ reg'.now = reg.now
            /\ reg'.from = reg.from /\ reg'.todo = reg.todo \ {a}
            /\ reg'.late = due /\ reg'.at = a /\ reg'.stage = "missed"
        BY <1>2, <1>7, <2>3 DEF RegType
      <3> QED BY <1>1, <1>2, <2>3, <3>1 DEF EntryMade, definitions, faulty, Enqueue
    <2> QED BY <1>1, <2>1, <2>2, <2>3
  <1> QED BY <1>1, <1>5, <1>6, <1>7, <1>8, <1>10, EntryMadeHistory

-----------------------------------------------------------------------------
(* Marks: the registration is done with an entry, and the pass goes on. *)

LEMMA AtSomeEntry ==
  ASSUME RunsInv
  PROVE  /\ pass.stage # "idle" => pass.at \in Automation /\ pass.at # None
         /\ reg.stage # "idle" => reg.at \in Automation /\ reg.at # None
  BY Constants DEF RunsInv, TypeOK, PassOK, RegOK

(* How far an automation was evaluated is only ever put forward.             *)
LEMMA Marked ==
  ASSUME evaluated \in [Automation -> 0..MaxTime], NEW at \in Automation,
         NEW time \in 0..MaxTime, evaluated' = [evaluated EXCEPT ![at] = Later(@, time)]
  PROVE  /\ evaluated' \in [Automation -> 0..MaxTime]
         /\ \A a \in Automation : evaluated[a] <= evaluated'[a]
         /\ \A a \in Automation \ {at} : evaluated'[a] = evaluated[a]
         /\ time <= evaluated'[at] /\ evaluated'[at] \in {evaluated[at], time}
  <1>1. MaxTime \in Nat /\ evaluated[at] \in Nat /\ time \in Nat
    BY Constants
  <1>2. /\ Later(evaluated[at], time) \in {evaluated[at], time}
        /\ evaluated[at] <= Later(evaluated[at], time)
        /\ time <= Later(evaluated[at], time)
    BY <1>1, LaterFacts
  <1> QED BY <1>1, <1>2

LEMMA RegisteredHistory ==
  ASSUME RunsInv, HistoryInv, up, reg.stage = "mark", reg' = Registered(reg),
         faults' \in {faults, faults + 1},
         UNCHANGED <<now, up, enabled, nextDue, pass, auto, occurrence, phase, log,
                     missed, queue, owed, struck>>,
         evaluated' \in [Automation -> 0..MaxTime],
         \A a \in Automation : evaluated[a] <= evaluated'[a],
         \A a \in Automation \ {reg.at} : evaluated'[a] = evaluated[a],
         evaluated'[reg.at] \in {evaluated[reg.at], reg.now}
  PROVE  HistoryInv'
  <1>1. /\ ScheduleInv /\ OnceInv /\ LossInv /\ ScheduleType /\ PassShape /\ RegShape
        /\ Apart /\ ReportQueued /\ MaxTime \in Nat /\ None \notin Automation
        /\ now \in 0..MaxTime /\ faults \in Nat /\ reg \in RegType /\ pass \in PassType
        /\ evaluated \in [Automation -> 0..MaxTime] /\ Never = MaxTime + 1
    BY Facts
  <1>2. /\ reg' \in RegType /\ reg'.at = None /\ reg'.stage = "idle" /\ reg'.late = {}
        /\ reg'.on = reg.on /\ reg'.now = reg.now /\ reg'.todo = reg.todo
        /\ reg'.from = reg.from
    BY <1>1, RegisteredIs
  <1>3. reg.at \in Automation /\ reg.at # None /\ reg.now \in Nat /\ reg.now <= now
    BY <1>1, AtSomeEntry, RegFacts DEF RegShape
  <1>4. faults' \in Nat /\ faults <= faults'
    BY <1>1
  <1>5. /\ \A a : Registering(a)' <=> Registering(a)
        /\ \A a \in Automation : \A t : ~ RegReports(a, t) /\ ~ RegReports(a, t)'
        /\ \A a \in Automation : \A t : PassReports(a, t)' <=> PassReports(a, t)
        /\ \A a \in Automation : \A t : Carries(a, t)' <=> Carries(a, t)
        /\ \A a \in Automation : \A t : Handed(a, t)' <=> Handed(a, t)
        /\ \A a \in Automation : \A t : Reports(a, t)' <=> Reports(a, t)
    BY <1>2 DEF Registering, PassReports, RegReports, Carries, Handed, Reports
  <1>6. ScheduleInv'
    <2>1. ScheduleType'
      BY <1>1, <1>2, <1>4 DEF ScheduleType
    <2>2. PassShape'
      <3>1. pass.stage = "due" => pass.latest <= evaluated'[pass.at]
        <4> SUFFICES ASSUME pass.stage = "due" PROVE pass.latest <= evaluated'[pass.at]
          OBVIOUS
        <4>1. pass.at \in Automation /\ pass.latest <= evaluated[pass.at] /\ pass.latest \in Nat
          BY <1>1, AtSomeEntry, PassFacts DEF PassShape
        <4> QED BY <1>1, <4>1
      <3> QED BY <1>1, <1>2, <3>1 DEF PassShape
    <2>3. RegShape' /\ Apart'
      <3>1. None \notin reg.todo
        BY <1>1, RegFacts
      <3> QED BY <1>1, <1>2, <3>1 DEF RegShape, Apart
    <2>4. ReportQueued'
      BY <1>1, ReportsStay
    <2>5. ASSUME NEW a \in Automation PROVE EntryOK(a)'
      <3>1. /\ EntryOK(a) /\ evaluated[a] \in Nat /\ evaluated[a] <= now
            /\ reg.from[a] \in Nat
        BY AutomationFacts
      <3>2. evaluated'[a] <= now /\ evaluated'[a] \in Nat
        BY <1>3, <3>1
      <3>3. Registering(a) => reg.from[a] <= evaluated'[a]
        BY <3>1, <3>2 DEF EntryOK
      <3> QED BY <1>2, <1>5, <3>1, <3>2, <3>3 DEF EntryOK
    <2> QED BY <1>1, <2>1, <2>2, <2>3, <2>4, <2>5 DEF ScheduleInv, RunShape
  <1>7. OnceInv'
    <2>1. ASSUME NEW a \in Automation, NEW t \in 1..MaxTime PROVE ReportOK(a, t)'
      <3>1. ReportOK(a, t) /\ missed[a][t] \in Nat
        BY AutomationFacts
      <3> QED BY <1>1, <1>2, <1>4, <1>5, <3>1 DEF ReportOK
    <2>2. ASSUME NEW r \in Run, NEW a \in Automation PROVE OccurrenceOK(r, a)'
      <3>1. OccurrenceOK(r, a) /\ occurrence[r] \in 0..MaxTime /\ evaluated[a] \in Nat
        BY AutomationFacts
      <3>2. occurrence[r] <= evaluated[a] => occurrence[r] <= evaluated'[a]
        BY <1>1, <3>1
      <3> QED BY <1>2, <1>5, <3>1, <3>2 DEF OccurrenceOK
    <2> QED BY <2>1, <2>2 DEF OnceInv
  <1>8. ASSUME NEW a \in Automation PROVE OwedOK(a)'
    <2>1. OwedOK(a) /\ owed[a] \in SUBSET (1..MaxTime) /\ nextDue[a] \in 0..Never
      BY AutomationFacts
    <2>2. ASSUME NEW t \in owed[a], Ahead(a, t)' PROVE evaluated'[a] < t
      <3>1. Ahead(a, t) /\ t \in 1..MaxTime
        BY <1>2, <1>5, <2>1, <2>2 DEF Ahead
      <3>2. evaluated[a] < t
        BY <2>1, <3>1 DEF OwedOK
      <3>3. a = reg.at => reg.now < t
        <4> SUFFICES ASSUME a = reg.at PROVE reg.now < t
          OBVIOUS
        <4>1. ~ Registering(a) /\ reg.now < nextDue[a]
          BY <1>1, <1>3 DEF RegShape, Registering
        <4>2. PassReports(a, t) => reg.now < t
          BY <1>1, <1>3 DEF PassReports, Apart
        <4>3. Carries(a, t) => reg.now < t
          BY <1>1, <1>3, <3>1 DEF Carries, Apart
        <4>4. nextDue[a] <= t => reg.now < t
          BY <1>1, <1>3, <2>1, <3>1, <4>1
        <4> QED BY <3>1, <4>1, <4>2, <4>3, <4>4 DEF Ahead
      <3> QED BY <3>2, <3>3
    <2> QED BY <2>1, <2>2 DEF OwedOK
  <1>9. ASSUME NEW a \in Automation, NEW t \in 1..MaxTime
        PROVE  (Accounted(a, t) <=> Accounted(a, t)') /\ (Coming(a, t) => Coming(a, t)')
    BY <1>2, <1>5 DEF Accounted, Coming
  <1>10. (Gone \subseteq struck)'
    BY <1>1, <1>9, StillAccounted
  <1> QED BY <1>6, <1>7, <1>8, <1>10 DEF HistoryInv, LossInv

LEMMA MarkRegisteredHistory ==
  ASSUME RunsInv, HistoryInv, MarkRegistered \/ MarkRegisteredFails
  PROVE  HistoryInv'
  <1>1. /\ up /\ reg.stage = "mark" /\ reg' = Registered(reg)
        /\ faults' \in {faults, faults + 1}
        /\ UNCHANGED <<now, up, enabled, nextDue, pass, auto, occurrence, phase, log,
                       missed, queue, owed, struck>>
        /\ \/ evaluated' = [evaluated EXCEPT ![reg.at] = Later(@, reg.now)]
           \/ evaluated' = evaluated
    BY DEF MarkRegistered, MarkRegisteredFails, runs, runLog, definitions, faulty
  <1>2. /\ evaluated \in [Automation -> 0..MaxTime] /\ reg.at \in Automation
        /\ now \in 0..MaxTime /\ reg \in RegType /\ RegShape /\ MaxTime \in Nat
    BY <1>1, Facts, AtSomeEntry
  <1>3. reg.now \in 0..MaxTime
    BY <1>2, RegFacts DEF RegShape
  <1>4. /\ evaluated' \in [Automation -> 0..MaxTime]
        /\ \A a \in Automation : evaluated[a] <= evaluated'[a]
        /\ \A a \in Automation \ {reg.at} : evaluated'[a] = evaluated[a]
        /\ evaluated'[reg.at] \in {evaluated[reg.at], reg.now}
    <2>1. CASE evaluated' = [evaluated EXCEPT ![reg.at] = Later(@, reg.now)]
      BY <1>2, <1>3, <2>1, Marked
    <2>2. CASE evaluated' = evaluated
      BY <1>2, <2>2
    <2> QED BY <1>1, <2>1, <2>2
  <1> QED BY <1>1, <1>4, RegisteredHistory

(* The pass is done with an entry.                                           *)
LEMMA LetGo ==
  ASSUME RunsInv, HistoryInv, up, pass.stage \notin {"idle", "missed"},
         pass' = EntryDone(pass), faults' \in {faults, faults + 1},
         UNCHANGED <<now, up, enabled, evaluated, nextDue, reg, auto, occurrence, phase,
                     log, missed, queue, owed>>
  PROVE  /\ ScheduleInv' /\ OnceInv' /\ \A a \in Automation : OwedOK(a)'
         /\ \A a \in Automation, t \in 1..MaxTime :
              /\ Accounted(a, t) <=> Accounted(a, t)'
              /\ Coming(a, t) => Coming(a, t)' \/ Carries(a, t) \/ Handed(a, t)
  <1>1. /\ ScheduleInv /\ OnceInv /\ LossInv /\ MaxTime \in Nat /\ None \notin Automation
        /\ ScheduleType /\ faults \in Nat /\ PassShape /\ RegShape /\ Apart
        /\ ReportQueued /\ now \in 0..MaxTime /\ pass \in PassType /\ reg \in RegType
    BY Facts
  <1>2. /\ pass' \in PassType /\ pass'.at = None /\ pass'.stage = "idle" /\ pass'.late = {}
        /\ pass'.latest = 0 /\ pass'.kind = pass.kind /\ pass'.now = pass.now
        /\ pass'.todo = pass.todo
    BY <1>1, EntryDoneIs
  <1>3. faults' \in Nat /\ faults <= faults'
    BY <1>1
  <1>4. /\ \A a : Registering(a)' <=> Registering(a)
        /\ \A a \in Automation : \A t : ~ PassReports(a, t) /\ ~ PassReports(a, t)'
        /\ \A a \in Automation : \A t : ~ Carries(a, t)'
        /\ \A a \in Automation : \A t : RegReports(a, t)' <=> RegReports(a, t)
        /\ \A a \in Automation : \A t : Reports(a, t)' <=> Reports(a, t)
    BY <1>1, <1>2 DEF Registering, PassReports, RegReports, Carries, Reports
  <1>5. ScheduleInv'
    <2>1. ScheduleType'
      BY <1>1, <1>2, <1>3 DEF ScheduleType
    <2>2. PassShape'
      <3>1. /\ None \notin pass.todo \cup reg.todo /\ pass.now \in Nat
            /\ pass.now <= now /\ 0 <= pass.now
        BY <1>1, PassFacts, RegFacts DEF PassShape
      <3> QED BY <1>1, <1>2, <3>1 DEF PassShape
    <2>3. RegShape' /\ Apart'
      BY <1>1, <1>2 DEF RegShape, Apart
    <2>4. ReportQueued'
      BY <1>1, ReportsStay
    <2>5. \A a \in Automation : EntryOK(a)'
      BY <1>1, <1>4 DEF ScheduleInv, EntryOK
    <2> QED BY <1>1, <2>1, <2>2, <2>3, <2>4, <2>5 DEF ScheduleInv, RunShape
  <1>6. OnceInv'
    <2>1. ASSUME NEW a \in Automation, NEW t \in 1..MaxTime PROVE ReportOK(a, t)'
      <3>1. ReportOK(a, t) /\ missed[a][t] \in Nat
        BY AutomationFacts
      <3> QED BY <1>1, <1>3, <1>4, <3>1 DEF ReportOK
    <2>2. ASSUME NEW r \in Run, NEW a \in Automation PROVE OccurrenceOK(r, a)'
      <3>1. OccurrenceOK(r, a)
        BY <1>1 DEF OnceInv
      <3> QED BY <1>4, <3>1 DEF OccurrenceOK
    <2> QED BY <2>1, <2>2 DEF OnceInv
  <1>7. ASSUME NEW a \in Automation PROVE OwedOK(a)'
    <2>1. OwedOK(a)
      BY <1>1 DEF LossInv
    <2> QED BY <1>1, <1>2, <1>4, <2>1 DEF OwedOK, Ahead
  <1>8. ASSUME NEW a \in Automation, NEW t \in 1..MaxTime
        PROVE  /\ Accounted(a, t) <=> Accounted(a, t)'
               /\ Coming(a, t) => Coming(a, t)' \/ Carries(a, t) \/ Handed(a, t)
    BY <1>4 DEF Accounted, Coming
  <1> QED BY <1>5, <1>6, <1>7, <1>8

LEMMA MarkFailsHistory ==
  ASSUME RunsInv, HistoryInv, MarkFails
  PROVE  HistoryInv'
  <1>1. /\ up /\ pass.stage = "mark" /\ pass' = EntryDone(pass) /\ faults' = faults + 1
        /\ struck' = struck \cup {<<pass.at, pass.latest>>}
        /\ UNCHANGED <<now, up, enabled, evaluated, nextDue, reg, auto, occurrence, phase,
                       log, missed, queue, owed>>
    BY DEF MarkFails, definitions, runs, runLog
  <1>2. /\ LossInv /\ ScheduleInv' /\ OnceInv' /\ \A a \in Automation : OwedOK(a)'
        /\ \A a \in Automation, t \in 1..MaxTime :
              /\ Accounted(a, t) <=> Accounted(a, t)'
              /\ Coming(a, t) => Coming(a, t)' \/ Carries(a, t) \/ Handed(a, t)
    BY <1>1, Facts, LetGo
  <1>3. (Gone \subseteq struck)'
    <2>1. \A a \in Automation, t \in 1..MaxTime :
            Carries(a, t) \/ Handed(a, t) => <<a, t>> \in struck'
      BY <1>1 DEF Carries, Handed
    <2>2. ASSUME NEW a \in Automation, NEW t \in 1..MaxTime, t \in owed'[a],
                 ~ Accounted(a, t)', ~ Coming(a, t)', <<a, t>> \notin struck'
          PROVE  t \in owed[a] /\ ~ Accounted(a, t) /\ ~ Coming(a, t)
      BY <1>1, <1>2, <2>1, <2>2
    <2>3. struck \subseteq struck' /\ LossInv
      BY <1>1, <1>2
    <2> QED BY <2>2, <2>3, StillAccounted
  <1> QED BY <1>2, <1>3 DEF HistoryInv, LossInv

LEMMA LetGoQuietly ==
  ASSUME RunsInv, HistoryInv, DropOccurrence \/ Resolved
  PROVE  HistoryInv'
  <1>1. /\ up /\ pass.stage \in {"due", "run"} /\ pass' = EntryDone(pass)
        /\ UNCHANGED <<now, up, enabled, evaluated, nextDue, reg, auto, occurrence, phase,
                       log, missed, queue, owed, struck, faults>>
        /\ \/ pass.stage = "due" /\ ~ (pass.active /\ enabled[pass.at])
           \/ pass.stage = "run" /\ phase[pass.run] \in {"live", "finishing", "ended"}
    BY DEF DropOccurrence, MayRun, Resolved, definitions, runs, runLog, faulty
  <1>2. /\ LossInv /\ ScheduleInv' /\ OnceInv' /\ \A a \in Automation : OwedOK(a)'
        /\ \A a \in Automation, t \in 1..MaxTime :
              /\ Accounted(a, t) <=> Accounted(a, t)'
              /\ Coming(a, t) => Coming(a, t)' \/ Carries(a, t) \/ Handed(a, t)
    BY <1>1, Facts, LetGo
  <1>3. ASSUME NEW a \in Automation, NEW t \in 1..MaxTime, t \in owed[a]
        PROVE  ~ Carries(a, t) /\ ~ Handed(a, t)
    <2>1. ~ Handed(a, t)
      BY <1>1 DEF Handed
    <2>2. ~ Carries(a, t)
      <3> SUFFICES ASSUME Carries(a, t) PROVE FALSE
        OBVIOUS
      <3>1. /\ pass.stage = "due" /\ pass.at = a /\ t = pass.latest
            /\ ~ (pass.active /\ enabled[a])
        BY <1>1 DEF Carries
      <3>2. OwedOK(a)
        BY AutomationFacts
      <3>3. enabled[a]
        BY <1>3, <3>2 DEF OwedOK
      <3>4. pass.now < t
        BY <1>3, <3>1, <3>2, <3>3 DEF OwedOK
      <3>5. t <= pass.now /\ pass.now \in Nat
        BY <3>1, Facts, PassFacts DEF PassShape
      <3> QED BY <3>4, <3>5
    <2> QED BY <2>1, <2>2
  <1>4. (Gone \subseteq struck)'
    <2>1. ASSUME NEW a \in Automation, NEW t \in 1..MaxTime, t \in owed'[a],
                 ~ Accounted(a, t)', ~ Coming(a, t)'
          PROVE  t \in owed[a] /\ ~ Accounted(a, t) /\ ~ Coming(a, t)
      BY <1>1, <1>2, <1>3, <2>1
    <2>2. struck \subseteq struck' /\ LossInv
      BY <1>1, <1>2
    <2> QED BY <2>1, <2>2, StillAccounted
  <1> QED BY <1>2, <1>4 DEF HistoryInv, LossInv

LEMMA MarkEvaluatedHistory ==
  ASSUME RunsInv, HistoryInv, MarkEvaluated
  PROVE  HistoryInv'
  <1> DEFINE at == pass.at
  <1>1. /\ up /\ pass.stage = "mark" /\ pass' = AfterMark(pass)
        /\ evaluated' = [evaluated EXCEPT ![at] = Later(@, pass.now)]
        /\ UNCHANGED <<now, up, enabled, nextDue, reg, auto, occurrence, phase, log,
                       missed, queue, owed, struck, faults>>
    BY DEF MarkEvaluated, runs, runLog, faulty
  <1>2. /\ ScheduleInv /\ OnceInv /\ LossInv /\ MaxTime \in Nat /\ None \notin Automation
        /\ ScheduleType /\ PassShape /\ RegShape /\ Apart /\ ReportQueued
        /\ pass \in PassType /\ reg \in RegType /\ Never = MaxTime + 1
        /\ now \in 0..MaxTime /\ evaluated \in [Automation -> 0..MaxTime]
    BY Facts
  <1>3. /\ at \in Automation /\ at # None /\ pass.now \in Nat /\ pass.now <= now
        /\ pass.latest \in Nat
    BY <1>1, <1>2, AtSomeEntry, PassFacts DEF PassShape
  <1>4. /\ pass' \in PassType /\ pass'.kind = pass.kind /\ pass'.now = pass.now
        /\ pass'.todo = pass.todo
        /\ \/ /\ pass'.at = at /\ pass'.stage = "due" /\ pass'.late = pass.late
              /\ pass'.latest = pass.latest /\ pass'.active = pass.active
           \/ /\ pass'.at = None /\ pass'.stage = "idle" /\ pass'.late = {}
              /\ pass'.latest = 0 /\ pass.latest = 0
    <2>1. CASE pass.latest # 0
      <3>1. pass' = [pass EXCEPT !.stage = "due"]
        BY <1>1, <2>1 DEF AfterMark
      <3> QED BY <1>2, <3>1 DEF PassType
    <2>2. CASE pass.latest = 0
      <3>1. pass' = EntryDone(pass)
        BY <1>1, <2>2 DEF AfterMark
      <3> QED BY <1>2, <2>2, <3>1, EntryDoneIs
    <2> QED BY <2>1, <2>2
  <1>5. /\ evaluated' \in [Automation -> 0..MaxTime]
        /\ \A a \in Automation : evaluated[a] <= evaluated'[a]
        /\ \A a \in Automation \ {at} : evaluated'[a] = evaluated[a]
        /\ pass.now <= evaluated'[at] /\ evaluated'[at] \in {evaluated[at], pass.now}
    <2>1. pass.now \in 0..MaxTime
      BY <1>2, <1>3
    <2> HIDE DEF at
    <2> QED BY <1>1, <1>2, <1>3, <2>1, Marked
  <1>6. /\ \A a : Registering(a)' <=> Registering(a)
        /\ \A a \in Automation : \A t : ~ PassReports(a, t)' /\ ~ PassReports(a, t)
        /\ \A a \in Automation : \A t : RegReports(a, t)' <=> RegReports(a, t)
        /\ \A a \in Automation : \A t : Reports(a, t)' <=> Reports(a, t)
        /\ \A a \in Automation : \A t : Carries(a, t)' => Carries(a, t) /\ pass'.stage = "due"
        /\ \A a \in Automation, t \in 1..MaxTime : Carries(a, t) => Carries(a, t)'
        /\ ~ Registering(at)
    BY <1>1, <1>2, <1>4
    DEF Registering, Reports, PassReports, RegReports, Carries, PassShape
  <1>7. pass.now < nextDue[at] /\ nextDue[at] \in 0..Never
    BY <1>2, <1>3, AutomationFacts DEF PassShape
  <1>8. ScheduleInv'
    <2>1. ScheduleType'
      BY <1>1, <1>2, <1>4, <1>5 DEF ScheduleType
    <2>2. PassShape'
      <3>1. CASE pass'.at = None
        <4>1. pass'.stage = "idle" /\ pass'.late = {} /\ pass'.latest = 0
          BY <1>3, <1>4, <3>1
        <4>2. None \notin pass.todo \cup reg.todo /\ 0 <= pass.now
          BY <1>2, <1>3, PassFacts, RegFacts
        <4> QED BY <1>1, <1>2, <1>4, <3>1, <4>1, <4>2 DEF PassShape
      <3>2. CASE pass'.at # None
        <4>1. /\ pass'.at = at /\ pass'.stage = "due" /\ pass'.late = pass.late
              /\ pass'.latest = pass.latest
          BY <1>4, <3>2
        <4>2. pass.latest <= evaluated'[at]
          <5>1. pass.latest <= pass.now
            BY <1>2 DEF PassShape
          <5> QED BY <1>2, <1>3, <1>5, <5>1
        <4> QED BY <1>1, <1>2, <1>4, <3>2, <4>1, <4>2 DEF PassShape
      <3> QED BY <3>1, <3>2
    <2>3. RegShape' /\ Apart'
      <3>1. pass'.at # None => pass'.at = pass.at /\ pass'.late = pass.late /\ pass'.latest = pass.latest
        BY <1>4
      <3> QED BY <1>1, <1>2, <3>1 DEF RegShape, Apart
    <2>4. ReportQueued'
      BY <1>1, <1>2, ReportsStay
    <2>5. ASSUME NEW a \in Automation PROVE EntryOK(a)'
      <3>1. EntryOK(a) /\ evaluated[a] <= now
        BY AutomationFacts
      <3>2. evaluated'[a] <= now
        BY <1>3, <1>5, <3>1
      <3>3. Registering(a) => evaluated'[a] = evaluated[a]
        BY <1>5, <1>6
      <3> QED BY <1>1, <1>6, <3>1, <3>2, <3>3 DEF EntryOK
    <2> QED BY <1>1, <1>2, <2>1, <2>2, <2>3, <2>4, <2>5 DEF ScheduleInv, RunShape
  <1>9. OnceInv'
    <2>1. ASSUME NEW a \in Automation, NEW t \in 1..MaxTime PROVE ReportOK(a, t)'
      <3>1. ReportOK(a, t)
        BY AutomationFacts
      <3> QED BY <1>1, <1>6, <3>1 DEF ReportOK
    <2>2. ASSUME NEW r \in Run, NEW a \in Automation PROVE OccurrenceOK(r, a)'
      <3>1. OccurrenceOK(r, a) /\ occurrence[r] \in 0..MaxTime /\ evaluated[a] \in Nat
        BY AutomationFacts
      <3>2. occurrence[r] <= evaluated[a] => occurrence[r] <= evaluated'[a]
        BY <1>2, <1>5, <3>1
      <3> QED BY <1>1, <1>6, <3>1, <3>2 DEF OccurrenceOK
    <2> QED BY <2>1, <2>2 DEF OnceInv
  <1>10. ASSUME NEW a \in Automation PROVE OwedOK(a)'
    <2>1. OwedOK(a) /\ owed[a] \in SUBSET (1..MaxTime)
      BY AutomationFacts
    <2>2. ASSUME NEW t \in owed[a], Ahead(a, t)' PROVE evaluated'[a] < t
      <3>1. nextDue[a] <= t \/ (Registering(a) /\ reg.from[a] < t)
        BY <1>1, <1>6, <2>2 DEF Ahead
      <3>2. evaluated[a] < t /\ t \in 1..MaxTime
        BY <2>1, <3>1 DEF OwedOK, Ahead
      <3>3. a = at => pass.now < t
        BY <1>2, <1>3, <1>6, <1>7, <3>1, <3>2
      <3> QED BY <1>5, <3>2, <3>3
    <2>3. pass'.at = a => pass'.active = pass.active /\ pass.at = a
      BY <1>2, <1>4
    <2> QED BY <1>1, <1>4, <2>1, <2>2, <2>3 DEF OwedOK
  <1>11. ASSUME NEW a \in Automation, NEW t \in 1..MaxTime
        PROVE  (Accounted(a, t) <=> Accounted(a, t)') /\ (Coming(a, t) => Coming(a, t)')
    <2>1. ~ Handed(a, t)
      BY <1>1 DEF Handed
    <2> QED BY <1>1, <1>6, <2>1 DEF Accounted, Coming
  <1>12. (Gone \subseteq struck)'
    BY <1>1, <1>2, <1>11, StillAccounted
  <1> QED BY <1>8, <1>9, <1>10, <1>12 DEF HistoryInv, LossInv

-----------------------------------------------------------------------------
(* Runs are issued, and the log is written. *)

LEMMA IssuedHistory ==
  ASSUME RunsInv, HistoryInv, up, NEW a \in Automation, NEW r \in Run,
         NEW ph \in {"skipping", "recording"}, Issued(a, r, ph),
         NEW time \in 0..MaxTime, occurrence' = [occurrence EXCEPT ![r] = time],
         UNCHANGED <<now, up, enabled, evaluated, nextDue, reg, missed, owed, struck,
                     faults>>,
         \/ time = 0 /\ pass' = pass
         \/ /\ pass.stage = "due" /\ pass.at = a /\ time = pass.latest
            /\ pass' = [pass EXCEPT !.stage = "run", !.run = r]
  PROVE  HistoryInv'
  <1>1. /\ phase[r] = "none" /\ phase'[r] = ph /\ auto'[r] = a /\ log' = log
        /\ \A x \in Run \ {r} : /\ phase'[x] = phase[x] /\ auto'[x] = auto[x]
                               /\ occurrence'[x] = occurrence[x]
    BY DEF Issued
  <1>2. /\ ScheduleInv /\ OnceInv /\ LossInv /\ MaxTime \in Nat /\ None \notin Automation
        /\ ScheduleType /\ PassShape /\ RegShape /\ Apart /\ ReportQueued
        /\ pass \in PassType /\ reg \in RegType /\ Never = MaxTime + 1
        /\ nextDue \in [Automation -> 0..Never] /\ now \in 0..MaxTime
        /\ occurrence \in [Run -> 0..MaxTime] /\ faults \in Nat
    BY Facts DEF ScheduleType
  <1>3. /\ pass' \in PassType /\ pass'.kind = pass.kind /\ pass'.now = pass.now
        /\ pass'.todo = pass.todo /\ pass'.at = pass.at
        /\ pass'.late = pass.late /\ pass'.latest = pass.latest
        /\ pass'.active = pass.active
        /\ \/ time = 0 /\ pass'.stage = pass.stage /\ pass'.run = pass.run
           \/ /\ pass.stage = "due" /\ pass.at = a /\ time = pass.latest
              /\ pass'.stage = "run" /\ pass'.run = r
    BY <1>2 DEF PassType
  <1>4. /\ \A b : Registering(b)' <=> Registering(b)
        /\ \A b \in Automation : \A t : PassReports(b, t)' <=> PassReports(b, t)
        /\ \A b \in Automation : \A t : RegReports(b, t)' <=> RegReports(b, t)
        /\ \A b \in Automation : \A t : Reports(b, t)' <=> Reports(b, t)
        /\ \A b \in Automation : \A t : Carries(b, t)' =>
             Carries(b, t) /\ pass'.stage = pass.stage
    BY <1>3 DEF Registering, Reports, PassReports, RegReports, Carries
  <1>5. pass.stage = "run" => /\ pass.run \in Run \ {r} /\ pass'.stage = "run"
                              /\ pass'.run = pass.run
    BY <1>1, <1>3 DEF RunsInv, PassRun, TypeOK, PassOK
  <1>6. occurrence' \in [Run -> 0..MaxTime] /\ occurrence'[r] = time
    BY <1>2
  <1>7. log[r] = "none" /\ \A b \in Automation : ~ (auto[r] = b /\ log[r] # "none")
    BY <1>1, <1>2 DEF ScheduleInv, RunShape
  <1>8. time # 0 => /\ pass.stage = "due" /\ pass.at = a /\ time = pass.latest
                    /\ Carries(a, time)
    BY <1>3 DEF Carries
  <1>9. ScheduleInv'
    <2>1. ScheduleType'
      BY <1>2, <1>3, <1>6 DEF ScheduleType
    <2>2. PassShape'
      <3>1. pass'.stage = "run" => occurrence'[pass'.run] = pass'.latest
        BY <1>1, <1>2, <1>3, <1>5, <1>6 DEF PassShape
      <3>2. pass'.stage = "due" => pass.stage = "due"
        BY <1>3
      <3> QED BY <1>2, <1>3, <3>1, <3>2 DEF PassShape
    <2>3. RegShape' /\ Apart'
      BY <1>2, <1>3 DEF RegShape, Apart
    <2>4. ReportQueued'
      <3>1. PICK w \in Writes : w.what = Recording(ph) /\ queue' = Append(queue, w)
        BY DEF Issued
      <3>2. w.what # "missed"
        BY <3>1 DEF Recording
      <3>3. queue \in Seq(Writes) /\ ReportQueued
        BY <1>2 DEF RunsInv, TypeOK, ScheduleInv
      <3> QED BY <1>3, <3>1, <3>2, <3>3, EntryQueued
    <2>5. \A b \in Automation : EntryOK(b)'
      BY <1>2, <1>4 DEF ScheduleInv, EntryOK
    <2>6. \A x \in Run : RunShape(x)'
      BY <1>1, <1>2 DEF ScheduleInv, RunShape
    <2> QED BY <2>1, <2>2, <2>3, <2>4, <2>5, <2>6 DEF ScheduleInv
  <1>10. OnceInv'
    <2>1. ASSUME NEW b \in Automation, NEW t \in 1..MaxTime PROVE ReportOK(b, t)'
      <3>1. ReportOK(b, t)
        BY AutomationFacts
      <3> QED BY <1>4, <3>1 DEF ReportOK
    <2>2. ASSUME NEW x \in Run, auto[x] = a, occurrence[x] = time, time # 0 PROVE FALSE
      BY <1>2, <1>8, <2>2 DEF OnceInv, OccurrenceOK
    <2>3. ASSUME NEW x \in Run, NEW b \in Automation PROVE OccurrenceOK(x, b)'
      <3> SUFFICES ASSUME auto'[x] = b, occurrence'[x] # 0 PROVE OccurrenceOK(x, b)'
        BY DEF OccurrenceOK
      <3>1. CASE x = r
        <4>1. b = a /\ time # 0 /\ occurrence'[x] = time /\ time \in 1..MaxTime
          BY <1>1, <1>2, <1>6, <3>1
        <4>2. /\ pass.stage = "due" /\ pass.at = a /\ time = pass.latest
              /\ pass'.stage = "run"
          BY <1>3, <4>1
        <4>3. /\ time <= evaluated[a] /\ time <= pass.now /\ pass.now < nextDue[a]
              /\ ~ Registering(a) /\ pass.now \in Nat
          BY <1>2, <4>2, PassFacts DEF PassShape, Registering
        <4>4. time < nextDue[a]
          BY <1>2, <4>3
        <4>5. missed[a][time] = 0
          <5>1. ReportOK(a, time) /\ missed[a][time] \in Nat
            BY <4>1, AutomationFacts
          <5> QED BY <1>8, <4>1, <5>1 DEF ReportOK
        <4>6. ~ Reports(a, time)'
          <5>1. ~ PassReports(a, time)
            BY <4>2 DEF PassReports
          <5>2. ~ RegReports(a, time)
            <6> SUFFICES ASSUME RegReports(a, time) PROVE FALSE
              OBVIOUS
            <6>1. reg.at = a /\ time \in reg.late
              BY DEF RegReports
            <6>2. reg.now < time /\ time <= reg.now /\ reg.now \in Nat
              BY <1>2, <4>1, <4>2, <6>1, RegFacts DEF Apart, RegShape
            <6> QED BY <6>2
          <5> QED BY <1>4, <5>1, <5>2 DEF Reports
        <4>7. ~ Carries(a, time)'
          BY <4>2 DEF Carries
        <4>8. \A other \in Run : auto'[other] = a /\ occurrence'[other] = time => other = r
          BY <1>1, <2>2, <4>1
        <4> QED BY <1>4, <3>1, <4>1, <4>3, <4>4, <4>5, <4>6, <4>7, <4>8 DEF OccurrenceOK
      <3>2. CASE x # r
        <4>1. auto[x] = b /\ occurrence'[x] = occurrence[x] /\ OccurrenceOK(x, b)
          BY <1>1, <1>2, <3>2 DEF OnceInv
        <4>2. ASSUME NEW other \in Run, auto'[other] = b, occurrence'[other] = occurrence[x]
              PROVE  other = x
          <5>1. CASE other = r
            <6>1. b = a /\ occurrence[x] = time /\ time # 0
              BY <1>1, <1>6, <3>2, <4>1, <4>2, <5>1
            <6> QED BY <2>2, <4>1, <6>1
          <5>2. CASE other # r
            BY <1>1, <4>1, <4>2, <5>2 DEF OccurrenceOK
          <5> QED BY <5>1, <5>2
        <4> QED BY <1>4, <4>1, <4>2 DEF OccurrenceOK
      <3> QED BY <3>1, <3>2
    <2> QED BY <2>1, <2>3 DEF OnceInv
  <1>11. ASSUME NEW b \in Automation PROVE OwedOK(b)'
    <2>1. OwedOK(b)
      BY <1>2 DEF LossInv
    <2>2. pass'.stage = pass.stage \/ pass'.stage = "run"
      BY <1>3
    <2>3. \A t : Ahead(b, t)' => Ahead(b, t)
      BY <1>4 DEF Ahead
    <2> QED BY <1>3, <2>1, <2>2, <2>3 DEF OwedOK
  <1>12. ASSUME NEW b \in Automation, NEW t \in 1..MaxTime
        PROVE  (Accounted(b, t) <=> Accounted(b, t)') /\ (Coming(b, t) => Coming(b, t)')
    <2>1. Accounted(b, t) <=> Accounted(b, t)'
      BY <1>1, <1>7 DEF Accounted
    <2>2. Carries(b, t) => Carries(b, t)' \/ Handed(b, t)'
      BY <1>1, <1>3 DEF Carries, Handed
    <2>3. Handed(b, t) => Handed(b, t)'
      BY <1>1, <1>3, <1>5 DEF Handed
    <2> QED BY <1>4, <2>1, <2>2, <2>3 DEF Coming
  <1>13. (Gone \subseteq struck)'
    BY <1>2, <1>12, StillAccounted
  <1> QED BY <1>9, <1>10, <1>11, <1>13 DEF HistoryInv, LossInv

LEMMA RunNowHistory ==
  ASSUME RunsInv, HistoryInv, NEW a \in Automation, RunNow(a)
  PROVE  HistoryInv'
  <1>1. PICK r \in Run : IsNextRun(r) /\ Fire(a, 0, r)
    BY DEF RunNow
  <1>2. PICK ph \in {"skipping", "recording"} : Issued(a, r, ph)
    BY <1>1, FireIssues
  <1>3. /\ up /\ pass' = pass /\ occurrence' = [occurrence EXCEPT ![r] = 0]
        /\ UNCHANGED <<now, up, enabled, evaluated, nextDue, reg, missed, owed, struck,
                       faults>>
    BY <1>1 DEF RunNow, Fire, Enqueue, engine, definitions, faulty
  <1>4. 0 \in 0..MaxTime
    BY Constants
  <1> QED BY <1>2, <1>3, <1>4, IssuedHistory

LEMMA RunOccurrenceHistory ==
  ASSUME RunsInv, HistoryInv, RunOccurrence
  PROVE  HistoryInv'
  <1> DEFINE a == pass.at
             time == pass.latest
  <1>1. PICK r \in Run :
          /\ IsNextRun(r)
          /\ pass' = [pass EXCEPT !.stage = "run", !.run = r]
          /\ SkipOccurrence(a, r) \/ Fire(a, time, r)
    BY DEF RunOccurrence
  <1>2. /\ up /\ pass.stage = "due"
        /\ UNCHANGED <<now, up, enabled, evaluated, nextDue, reg, owed, struck, faults>>
    BY DEF RunOccurrence, definitions, faulty
  <1>3. a \in Automation
    BY <1>2, AtSomeEntry
  <1>4. time \in 0..MaxTime
    BY Facts, PassFacts
  <1>5. occurrence' = [occurrence EXCEPT ![r] = time] /\ UNCHANGED missed
    BY <1>1 DEF SkipOccurrence, Fire, Enqueue
  <1>6. \E ph \in {"skipping", "recording"} : Issued(a, r, ph)
    <2>1. CASE SkipOccurrence(a, r)
      <3>1. "skipped" = Recording("skipping")
        BY DEF Recording
      <3>2. /\ auto' = [auto EXCEPT ![r] = a] /\ phase' = [phase EXCEPT ![r] = "skipping"]
            /\ UNCHANGED <<stopped, session>> /\ Enqueue(EntryWrite("skipped", r))
        BY <2>1 DEF SkipOccurrence
      <3> QED BY <1>1, <1>3, <1>5, <3>1, <3>2, IssuedAs
    <2>2. CASE Fire(a, time, r)
      BY <1>1, <1>3, <2>2, FireIssues
    <2> QED BY <1>1, <2>1, <2>2
  <1>7. PICK ph \in {"skipping", "recording"} : Issued(a, r, ph)
    BY <1>6
  <1>8. \/ time = 0 /\ pass' = pass
        \/ /\ pass.stage = "due" /\ pass.at = a /\ time = pass.latest
           /\ pass' = [pass EXCEPT !.stage = "run", !.run = r]
    BY <1>1, <1>2
  <1> HIDE DEF a, time
  <1> QED BY <1>2, <1>3, <1>4, <1>5, <1>7, <1>8, IssuedHistory

LEMMA QueueShrinks ==
  ASSUME queue \in Seq(Writes), queue # <<>>, queue' = Tail(queue)
  PROVE  \A i \in DOMAIN queue' : /\ i + 1 \in DOMAIN queue /\ queue'[i] = queue[i + 1]
                                  /\ i + 1 # 1
  <1>1. /\ Len(queue) \in Nat \ {0} /\ DOMAIN queue = 1..Len(queue)
        /\ DOMAIN queue' = 1..(Len(queue) - 1)
        /\ \A i \in 1..(Len(queue) - 1) : queue'[i] = queue[i + 1]
    OBVIOUS
  <1> QED BY <1>1

LEMMA HeadQueued ==
  ASSUME queue \in Seq(Writes), queue # <<>>
  PROVE  1 \in DOMAIN queue /\ Head(queue) = queue[1] /\ Head(queue) \in Writes
  <1>1. Len(queue) \in Nat \ {0} /\ DOMAIN queue = 1..Len(queue)
    OBVIOUS
  <1> QED BY <1>1

LEMMA WriteEntryHistory ==
  ASSUME RunsInv, HistoryInv, WriteLog, Head(queue).what # "missed"
  PROVE  HistoryInv'
  <1> DEFINE w == Head(queue)
             r == w.run
  <1>1. /\ up /\ queue # <<>> /\ queue' = Tail(queue)
        /\ UNCHANGED <<now, up, enabled, evaluated, nextDue, pass, reg, auto, occurrence,
                       missed, owed, struck, faults>>
        /\ log' = [log EXCEPT ![r] = w.what]
        /\ phase' = [phase EXCEPT ![r] = Written(r)]
    BY DEF WriteLog, WriteEntry, definitions, faulty
  <1>2. queue \in Seq(Writes) /\ QueueOK(queue, phase, pass, reg) /\ TypeOK
    BY DEF RunsInv, TypeOK
  <1>3. Pending(w, phase, pass, reg)
    BY <1>1, <1>2, HeadQueued DEF QueueOK
  <1>4. /\ r \in Run /\ phase[r] \in Waiting /\ w.what \in {"running", "skipped", "finished"}
    BY <1>3 DEF Pending, Recording
  <1> HIDE DEF w, r
  <1>5. /\ phase'[r] = Written(r) /\ log'[r] = w.what /\ log'[r] # "none"
        /\ \A x \in Run \ {r} : phase'[x] = phase[x] /\ log'[x] = log[x]
    BY <1>1, <1>2, <1>4 DEF TypeOK
  <1>6. phase'[r] \notin {"none", "skipping", "recording"} /\ phase[r] # "none"
    BY <1>4, <1>5 DEF Written, Waiting
  <1>7. /\ ScheduleInv /\ OnceInv /\ LossInv /\ ScheduleType /\ PassShape /\ RegShape
        /\ Apart /\ ReportQueued
    BY Facts
  <1>8. \A x \in Run : phase'[x] = "none" => log'[x] = "none"
    BY <1>5, <1>6, <1>7 DEF ScheduleInv, RunShape
  <1>9. ReportQueued'
    BY <1>1, <1>2, <1>7, QueueShrinks DEF ReportQueued
  <1>10. ScheduleInv'
    BY <1>1, <1>7, <1>8, <1>9
    DEF ScheduleInv, ScheduleType, PassShape, RegShape, Apart, EntryOK, Registering, RunShape
  <1>11. OnceInv'
    BY <1>1, <1>7 DEF OnceInv, ReportOK, OccurrenceOK, Registering, Reports, PassReports,
                      RegReports, Carries
  <1>12. \A a \in Automation : OwedOK(a)'
    BY <1>1, <1>7 DEF LossInv, OwedOK, Ahead, Registering, PassReports, Carries
  <1>13. ASSUME NEW a \in Automation, NEW t \in 1..MaxTime
         PROVE  /\ Accounted(a, t) => Accounted(a, t)'
                /\ Coming(a, t) => Coming(a, t)' \/ Accounted(a, t)'
    <2>1. Accounted(a, t) => Accounted(a, t)'
      BY <1>1, <1>5 DEF Accounted
    <2>2. Handed(a, t) => Handed(a, t)' \/ Accounted(a, t)'
      <3> SUFFICES ASSUME Handed(a, t) PROVE Handed(a, t)' \/ Accounted(a, t)'
        OBVIOUS
      <3>1. /\ pass.run \in Run /\ auto[pass.run] = a /\ occurrence[pass.run] = t
        BY <1>2, <1>7 DEF Handed, RunsInv, PassRun, TypeOK, PassOK, PassShape
      <3>2. CASE pass.run = r
        BY <1>1, <1>5, <3>1, <3>2 DEF Accounted
      <3>3. CASE pass.run # r
        BY <1>1, <1>5, <3>1, <3>3 DEF Handed
      <3> QED BY <3>2, <3>3
    <2> QED BY <1>1, <2>1, <2>2
            DEF Coming, Registering, Reports, PassReports, RegReports, Carries
  <1>14. (Gone \subseteq struck)'
    BY <1>1, <1>7, <1>13, StillAccounted
  <1> QED BY <1>10, <1>11, <1>12, <1>14 DEF HistoryInv, LossInv

(* A report is recorded: what was to be reported no longer is, and nothing
   else comes into the engine's hands. *)
Recorded(at, late) ==
  /\ up
  /\ missed' = [missed EXCEPT ![at] =
       [t \in 1..MaxTime |-> IF t \in late THEN @[t] + 1 ELSE @[t]]]
  /\ UNCHANGED <<now, up, enabled, evaluated, nextDue, auto, occurrence, phase, log,
                 owed, struck, faults>>
  /\ ~ Registering(at) /\ reg'.now = reg.now /\ reg'.from = reg.from
  /\ \A a \in Automation : Registering(a)' <=> Registering(a)
  /\ \A t \in late : /\ Reports(at, t) /\ ~ Reports(at, t)' /\ ~ Carries(at, t)
                      /\ t <= now /\ t < nextDue[at]
  /\ \A a \in Automation, t \in 1..MaxTime :
       /\ Reports(a, t)' => Reports(a, t)
       /\ Reports(a, t) => Reports(a, t)' \/ (a = at /\ t \in late)
       /\ Carries(a, t)' => Carries(a, t)
       /\ t \in owed[a] /\ Carries(a, t) => Carries(a, t)'
       /\ Handed(a, t) => Handed(a, t)'
       /\ Ahead(a, t)' => Ahead(a, t)
  /\ pass'.now = pass.now
  /\ \A a \in Automation : pass'.at = a =>
       pass.at = a /\ pass'.active = pass.active
       /\ (pass'.stage # "run" => pass.stage # "run")

(* A report of automation at is written, and leaves the hands that had it.   *)
LEMMA ReportWritten ==
  ASSUME HistoryInv, NEW at \in Automation, NEW late \in SUBSET (1..MaxTime),
         Recorded(at, late)
  PROVE  OnceInv' /\ (\A a \in Automation : OwedOK(a)') /\ (Gone \subseteq struck)'
  <1>0. /\ up
        /\ missed' = [missed EXCEPT ![at] =
             [t \in 1..MaxTime |-> IF t \in late THEN @[t] + 1 ELSE @[t]]]
        /\ UNCHANGED <<now, up, enabled, evaluated, nextDue, auto, occurrence, phase, log,
                       owed, struck, faults>>
        /\ ~ Registering(at) /\ reg'.now = reg.now /\ reg'.from = reg.from
        /\ \A a \in Automation : Registering(a)' <=> Registering(a)
        /\ \A t \in late : /\ Reports(at, t) /\ ~ Reports(at, t)' /\ ~ Carries(at, t)
                            /\ t <= now /\ t < nextDue[at]
        /\ \A a \in Automation, t \in 1..MaxTime :
             /\ Reports(a, t)' => Reports(a, t)
             /\ Reports(a, t) => Reports(a, t)' \/ (a = at /\ t \in late)
             /\ Carries(a, t)' => Carries(a, t)
             /\ t \in owed[a] /\ Carries(a, t) => Carries(a, t)'
             /\ Handed(a, t) => Handed(a, t)'
             /\ Ahead(a, t)' => Ahead(a, t)
        /\ pass'.now = pass.now
        /\ \A a \in Automation : pass'.at = a =>
             pass.at = a /\ pass'.active = pass.active
             /\ (pass'.stage # "run" => pass.stage # "run")
    BY DEF Recorded
  <1>1. /\ OnceInv /\ LossInv /\ MaxTime \in Nat /\ faults \in Nat
        /\ missed \in [Automation -> [1..MaxTime -> Nat]]
    BY <1>0, Facts DEF ScheduleType
  <1>2. \A a \in Automation, t \in 1..MaxTime :
          missed'[a][t] = IF a = at /\ t \in late THEN missed[a][t] + 1 ELSE missed[a][t]
    BY <1>0, <1>1
  <1>3. OnceInv'
    <2>1. ASSUME NEW a \in Automation, NEW t \in 1..MaxTime PROVE ReportOK(a, t)'
      <3>1. ReportOK(a, t) /\ missed[a][t] \in Nat
        BY <1>0, AutomationFacts
      <3>2. CASE a = at /\ t \in late
        <4>1. missed'[a][t] = missed[a][t] + 1 /\ missed[a][t] <= faults
          BY <1>0, <1>2, <3>1, <3>2 DEF ReportOK
        <4>2. /\ t <= now' /\ t < nextDue'[at] /\ ~ Carries(at, t)' /\ faults' = faults
              /\ ~ Reports(at, t)' /\ ~ Registering(at)' /\ up'
          BY <1>0, <3>2
        <4>3. missed'[a][t] <= 1 + faults /\ a = at
          BY <1>1, <3>1, <3>2, <4>1
        <4> QED BY <4>2, <4>3 DEF ReportOK
      <3>3. CASE ~ (a = at /\ t \in late)
        <4>1. missed'[a][t] = missed[a][t]
          BY <1>0, <1>2, <3>3
        <4> QED BY <1>0, <3>1, <4>1 DEF ReportOK
      <3> QED BY <1>0, <3>2, <3>3
    <2>2. ASSUME NEW r \in Run, NEW a \in Automation PROVE OccurrenceOK(r, a)'
      <3> SUFFICES ASSUME auto[r] = a, occurrence[r] # 0 PROVE OccurrenceOK(r, a)'
        BY <1>0 DEF OccurrenceOK
      <3>1. OccurrenceOK(r, a) /\ occurrence[r] \in 1..MaxTime
        BY <1>0, <1>1, AutomationFacts
      <3>2. missed'[a][occurrence[r]] = missed[a][occurrence[r]]
        BY <1>0, <1>2, <3>1 DEF OccurrenceOK
      <3>3. ~ Reports(a, occurrence[r])' /\ ~ Carries(a, occurrence[r])'
        BY <1>0, <3>1 DEF OccurrenceOK
      <3> QED BY <1>0, <3>1, <3>2, <3>3 DEF OccurrenceOK
    <2> QED BY <1>0, <2>1, <2>2 DEF OnceInv
  <1>4. ASSUME NEW a \in Automation PROVE OwedOK(a)'
    <2>1. OwedOK(a) /\ owed[a] \in SUBSET (1..MaxTime)
      BY <1>0, AutomationFacts
    <2> QED BY <1>0, <2>1 DEF OwedOK
  <1>5. ASSUME NEW a \in Automation, NEW t \in 1..MaxTime, t \in owed[a]
         PROVE  /\ Accounted(a, t) => Accounted(a, t)'
                /\ Coming(a, t) => Coming(a, t)' \/ Accounted(a, t)'
    <2>1. missed[a][t] \in Nat
      BY <1>0, <1>1
    <2>2. Accounted(a, t) => Accounted(a, t)'
      BY <1>0, <1>2, <2>1 DEF Accounted
    <2>3. Reports(a, t) => Reports(a, t)' \/ Accounted(a, t)'
      BY <1>0, <1>2, <2>1 DEF Accounted
    <2> QED BY <1>0, <1>5, <2>2, <2>3 DEF Coming
  <1>6. (Gone \subseteq struck)'
    BY <1>0, <1>1, <1>5, StillAccounted
  <1> QED BY <1>0, <1>3, <1>4, <1>6

(* The rest of the queue reports nothing for the one whose report is written. *)
LEMMA HeadReported ==
  ASSUME RunsInv, queue # <<>>, Head(queue).what = "missed", queue' = Tail(queue)
  PROVE  \A i \in DOMAIN queue' : /\ i + 1 \in DOMAIN queue /\ queue'[i] = queue[i + 1]
                                  /\ queue'[i].what = "missed"
                                       => queue'[i].by # Head(queue).by
  <1>1. queue \in Seq(Writes) /\ QueueOK(queue, phase, pass, reg)
    BY DEF RunsInv, TypeOK
  <1>2. 1 \in DOMAIN queue /\ Head(queue) = queue[1]
    BY <1>1, HeadQueued
  <1> SUFFICES ASSUME NEW i \in DOMAIN queue'
               PROVE  /\ i + 1 \in DOMAIN queue /\ queue'[i] = queue[i + 1]
                      /\ queue'[i].what = "missed" => queue'[i].by # Head(queue).by
    OBVIOUS
  <1>3. i + 1 \in DOMAIN queue /\ queue'[i] = queue[i + 1] /\ i + 1 # 1
    BY <1>1, QueueShrinks
  <1>4. /\ Pending(queue[1], phase, pass, reg) /\ Pending(queue[i + 1], phase, pass, reg)
        /\ ~ Same(queue[1], queue[i + 1])
    BY <1>1, <1>2, <1>3 DEF QueueOK
  <1> QED BY <1>2, <1>3, <1>4 DEF Pending, Same

LEMMA PassReportHistory ==
  ASSUME RunsInv, HistoryInv, WriteLog, Head(queue).what = "missed",
         Head(queue).by = "pass"
  PROVE  HistoryInv'
  <1> DEFINE w == Head(queue)
  <1>1. /\ up /\ queue # <<>> /\ queue' = Tail(queue)
        /\ UNCHANGED <<now, up, enabled, evaluated, nextDue, reg, auto, occurrence, phase,
                       log, owed, struck, faults>>
        /\ missed' = [missed EXCEPT ![w.auto] =
             [t \in 1..MaxTime |-> IF t \in w.times THEN @[t] + 1 ELSE @[t]]]
        /\ pass' = IF pass.active THEN [pass EXCEPT !.stage = "mark"] ELSE EntryDone(pass)
    BY DEF WriteLog, WriteMissed, runs, definitions, faulty
  <1>2. /\ queue \in Seq(Writes) /\ QueueOK(queue, phase, pass, reg) /\ ReportQueued
        /\ 1 \in DOMAIN queue /\ w = queue[1]
    BY <1>1, HeadQueued, Facts DEF RunsInv, TypeOK
  <1>3. pass.stage = "missed" /\ w.auto = pass.at /\ w.times = pass.late
    BY <1>2 DEF QueueOK, Pending, ReportQueued
  <1>4. /\ ScheduleInv /\ LossInv /\ MaxTime \in Nat /\ None \notin Automation
        /\ ScheduleType /\ PassShape /\ RegShape /\ Apart /\ now \in 0..MaxTime
        /\ pass \in PassType /\ reg \in RegType /\ Never = MaxTime + 1
        /\ missed \in [Automation -> [1..MaxTime -> Nat]]
    BY Facts DEF ScheduleType
  <1>0. PICK at \in Automation : at = pass.at
    BY <1>3, AtSomeEntry
  <1>5. /\ at # None /\ pass.late \in SUBSET (1..MaxTime)
        /\ pass.now \in Nat /\ pass.now <= now /\ pass.now < nextDue[at]
        /\ nextDue[at] \in 0..Never /\ pass.latest \in Nat
    BY <1>0, <1>3, <1>4, PassFacts, AutomationFacts DEF PassShape
  <1>6. /\ pass' \in PassType /\ pass'.kind = pass.kind /\ pass'.now = pass.now
        /\ pass'.todo = pass.todo
        /\ \/ /\ pass'.at = at /\ pass'.stage = "mark" /\ pass'.late = pass.late
              /\ pass'.latest = pass.latest /\ pass'.active = pass.active
           \/ /\ pass'.at = None /\ pass'.stage = "idle" /\ pass'.late = {}
              /\ pass'.latest = 0 /\ ~ pass.active
    <2>1. CASE pass.active
      BY <1>0, <1>1, <1>4, <2>1 DEF PassType
    <2>2. CASE ~ pass.active
      BY <1>0, <1>1, <1>4, <2>2, EntryDoneIs
    <2> QED BY <2>1, <2>2
  <1>7. missed' = [missed EXCEPT ![at] =
             [t \in 1..MaxTime |-> IF t \in pass.late THEN @[t] + 1 ELSE @[t]]]
    BY <1>0, <1>1, <1>3
  <1> HIDE DEF w
  <1>8. /\ \A a : Registering(a)' <=> Registering(a)
        /\ ~ Registering(at)
        /\ \A a \in Automation : \A t : RegReports(a, t)' <=> RegReports(a, t)
        /\ \A a \in Automation : \A t : PassReports(a, t) <=> a = at /\ t \in pass.late
        /\ \A a \in Automation : \A t : ~ PassReports(a, t)' /\ ~ Handed(a, t)
        /\ \A a \in Automation : \A t : Carries(a, t)' => Carries(a, t)
        /\ \A a \in Automation : \A t : Carries(a, t) => Carries(a, t)' \/ ~ pass.active
    BY <1>0, <1>1, <1>3, <1>4, <1>6
    DEF Registering, PassReports, RegReports, Carries, Handed, PassShape
  <1>9. ScheduleInv'
    <2>1. ScheduleType'
      <3>1. missed' \in [Automation -> [1..MaxTime -> Nat]]
        BY <1>0, <1>4, <1>5, <1>7
      <3> QED BY <1>0, <1>1, <1>4, <1>6, <3>1 DEF ScheduleType
    <2>2. PassShape'
      <3>1. CASE pass'.at = None
        <4>1. pass'.stage = "idle" /\ pass'.late = {} /\ pass'.latest = 0
          BY <1>0, <1>5, <1>6, <3>1
        <4>2. None \notin pass.todo \cup reg.todo /\ 0 <= pass.now
          BY <1>0, <1>4, <1>5, PassFacts, RegFacts
        <4> QED BY <1>0, <1>1, <1>4, <1>5, <1>6, <3>1, <4>1, <4>2 DEF PassShape
      <3>2. CASE pass'.at # None
        <4>1. /\ pass'.at = pass.at /\ pass'.stage = "mark" /\ pass'.late = pass.late
              /\ pass'.latest = pass.latest
          BY <1>0, <1>6, <3>2
        <4> QED BY <1>0, <1>1, <1>4, <1>6, <3>2, <4>1 DEF PassShape
      <3> QED BY <3>1, <3>2
    <2>3. RegShape' /\ Apart'
      <3>1. pass'.at # None =>
              pass'.at = pass.at /\ pass'.late = pass.late /\ pass'.latest = pass.latest
        BY <1>0, <1>6
      <3> QED BY <1>0, <1>1, <1>4, <3>1 DEF RegShape, Apart
    <2>4. ReportQueued'
      <3>1. ASSUME NEW i \in DOMAIN queue', queue'[i].what = "missed"
            PROVE  /\ queue'[i].by = "reg" /\ queue'[i].auto = reg.at
                   /\ queue'[i].times = reg.late
        <4>1. /\ i + 1 \in DOMAIN queue /\ queue'[i] = queue[i + 1]
              /\ queue'[i].by # "pass"
          BY <1>0, <1>1, <3>1, HeadReported
        <4> QED BY <1>0, <1>2, <3>1, <4>1 DEF ReportQueued
      <3> QED BY <1>0, <1>1, <3>1 DEF ReportQueued
    <2>5. \A a \in Automation : EntryOK(a)'
      BY <1>0, <1>1, <1>4, <1>8 DEF ScheduleInv, EntryOK
    <2> QED BY <1>0, <1>1, <1>4, <2>1, <2>2, <2>3, <2>4, <2>5 DEF ScheduleInv, RunShape
  <1>10. ASSUME NEW t \in pass.late
         PROVE  /\ Reports(at, t) /\ ~ Reports(at, t)' /\ ~ Carries(at, t)
                /\ t <= now /\ t < nextDue[at]
    <2>1. t \in 1..MaxTime /\ t <= pass.now /\ t # pass.latest
      BY <1>0, <1>4, <1>5 DEF PassShape
    <2>2. ~ RegReports(at, t)
      <3> SUFFICES ASSUME RegReports(at, t) PROVE FALSE
        OBVIOUS
      <3>1. reg.at = at /\ t \in reg.late
        BY DEF RegReports
      <3>2. reg.now < t /\ t <= reg.now /\ reg.now \in Nat
        BY <1>0, <1>4, <1>5, <3>1, RegFacts DEF Apart, RegShape
      <3> QED BY <2>1, <3>2
    <2>3. Reports(at, t) /\ ~ Reports(at, t)'
      BY <1>0, <1>5, <1>8, <2>2 DEF Reports
    <2> QED BY <1>0, <1>4, <1>5, <2>1, <2>3 DEF Carries
  <1>11. ASSUME NEW a \in Automation, NEW t \in 1..MaxTime
         PROVE  /\ Reports(a, t)' => Reports(a, t)
                /\ Reports(a, t) => Reports(a, t)' \/ (a = at /\ t \in pass.late)
                /\ Carries(a, t)' => Carries(a, t)
                /\ t \in owed[a] /\ Carries(a, t) => Carries(a, t)'
                /\ Handed(a, t) => Handed(a, t)'
                /\ Ahead(a, t)' => Ahead(a, t)
    <2>1. /\ Reports(a, t)' => Reports(a, t)
          /\ Reports(a, t) => Reports(a, t)' \/ (a = at /\ t \in pass.late)
      BY <1>0, <1>8 DEF Reports
    <2>2. t \in owed[a] /\ Carries(a, t) => Carries(a, t)'
      <3> SUFFICES ASSUME t \in owed[a], Carries(a, t), ~ pass.active PROVE FALSE
        BY <1>0, <1>8
      <3>1. pass.now < t /\ t <= pass.now
        BY <1>0, <1>3, <1>4 DEF Carries, PassShape, LossInv, OwedOK
      <3> QED BY <1>0, <1>5, <3>1
    <2>3. Ahead(a, t)' => Ahead(a, t)
      BY <1>0, <1>1, <1>3, <1>8 DEF Ahead
    <2> QED BY <1>0, <1>8, <2>1, <2>2, <2>3
  <1>12. \A a \in Automation : pass'.at = a =>
           pass.at = a /\ pass'.active = pass.active
           /\ (pass'.stage # "run" => pass.stage # "run")
    BY <1>0, <1>3, <1>4, <1>6
  <1>13. OnceInv' /\ (\A a \in Automation : OwedOK(a)') /\ (Gone \subseteq struck)'
    <2>1. /\ UNCHANGED <<now, up, enabled, evaluated, nextDue, auto, occurrence, phase,
                         log, owed, struck, faults>>
          /\ up /\ ~ Registering(at) /\ reg'.now = reg.now /\ reg'.from = reg.from
          /\ pass'.now = pass.now
          /\ \A a \in Automation : Registering(a)' <=> Registering(a)
      BY <1>1, <1>6, <1>8
    <2>2. Recorded(at, pass.late)
      BY <1>7, <1>10, <1>11, <1>12, <2>1 DEF Recorded
    <2> QED BY <1>4, <1>5, <2>2, ReportWritten
  <1> QED BY <1>0, <1>9, <1>13 DEF HistoryInv, LossInv

LEMMA RegReportHistory ==
  ASSUME RunsInv, HistoryInv, WriteLog, Head(queue).what = "missed",
         Head(queue).by = "reg"
  PROVE  HistoryInv'
  <1> DEFINE w == Head(queue)
  <1>1. /\ up /\ queue # <<>> /\ queue' = Tail(queue)
        /\ UNCHANGED <<now, up, enabled, evaluated, nextDue, pass, auto, occurrence, phase,
                       log, owed, struck, faults>>
        /\ missed' = [missed EXCEPT ![w.auto] =
             [t \in 1..MaxTime |-> IF t \in w.times THEN @[t] + 1 ELSE @[t]]]
        /\ reg' = [reg EXCEPT !.stage = "mark"]
    BY DEF WriteLog, WriteMissed, runs, definitions, faulty
  <1>2. /\ queue \in Seq(Writes) /\ QueueOK(queue, phase, pass, reg) /\ ReportQueued
        /\ 1 \in DOMAIN queue /\ w = queue[1]
    BY <1>1, HeadQueued, Facts DEF RunsInv, TypeOK
  <1>3. reg.stage = "missed" /\ w.auto = reg.at /\ w.times = reg.late
    BY <1>2 DEF QueueOK, Pending, ReportQueued
  <1>4. /\ ScheduleInv /\ LossInv /\ MaxTime \in Nat /\ None \notin Automation
        /\ ScheduleType /\ PassShape /\ RegShape /\ Apart /\ now \in 0..MaxTime
        /\ pass \in PassType /\ reg \in RegType /\ Never = MaxTime + 1
        /\ missed \in [Automation -> [1..MaxTime -> Nat]]
    BY Facts DEF ScheduleType
  <1>0. PICK at \in Automation : at = reg.at
    BY <1>3, AtSomeEntry
  <1>5. /\ at # None /\ reg.late \in SUBSET (1..MaxTime)
        /\ reg.now \in Nat /\ reg.now <= now /\ reg.now < nextDue[at]
        /\ nextDue[at] \in 0..Never /\ pass.latest \in Nat
    BY <1>0, <1>3, <1>4, PassFacts, RegFacts, AutomationFacts DEF RegShape
  <1>6. /\ reg' \in RegType /\ reg'.on = reg.on /\ reg'.now = reg.now
        /\ reg'.todo = reg.todo /\ reg'.from = reg.from /\ reg'.at = reg.at
        /\ reg'.late = reg.late /\ reg'.stage = "mark"
    BY <1>0, <1>1, <1>4 DEF RegType
  <1>7. missed' = [missed EXCEPT ![at] =
             [t \in 1..MaxTime |-> IF t \in reg.late THEN @[t] + 1 ELSE @[t]]]
    BY <1>0, <1>1, <1>3
  <1> HIDE DEF w
  <1>8. /\ \A a : Registering(a)' <=> Registering(a)
        /\ ~ Registering(at)
        /\ \A a \in Automation : \A t : RegReports(a, t) <=> a = at /\ t \in reg.late
        /\ \A a \in Automation : \A t : ~ RegReports(a, t)'
        /\ \A a \in Automation : \A t : PassReports(a, t)' <=> PassReports(a, t)
        /\ \A a \in Automation : \A t : Carries(a, t)' <=> Carries(a, t)
        /\ \A a \in Automation : \A t : Handed(a, t)' <=> Handed(a, t)
    BY <1>0, <1>1, <1>3, <1>4, <1>6
    DEF Registering, PassReports, RegReports, Carries, Handed, RegShape
  <1>9. ScheduleInv'
    <2>1. ScheduleType'
      <3>1. missed' \in [Automation -> [1..MaxTime -> Nat]]
        BY <1>0, <1>4, <1>5, <1>7
      <3> QED BY <1>0, <1>1, <1>4, <1>6, <3>1 DEF ScheduleType
    <2>2. PassShape'
      BY <1>0, <1>1, <1>4, <1>6 DEF PassShape
    <2>3. RegShape' /\ Apart'
      BY <1>0, <1>1, <1>4, <1>6 DEF RegShape, Apart
    <2>4. ReportQueued'
      <3>1. ASSUME NEW i \in DOMAIN queue', queue'[i].what = "missed"
            PROVE  /\ queue'[i].by = "pass" /\ queue'[i].auto = pass.at
                   /\ queue'[i].times = pass.late
        <4>1. /\ i + 1 \in DOMAIN queue /\ queue'[i] = queue[i + 1]
              /\ queue'[i].by # "reg"
          BY <1>0, <1>1, <3>1, HeadReported
        <4> QED BY <1>0, <1>2, <3>1, <4>1 DEF ReportQueued
      <3> QED BY <1>0, <1>1, <3>1 DEF ReportQueued
    <2>5. \A a \in Automation : EntryOK(a)'
      BY <1>0, <1>1, <1>4, <1>6, <1>8 DEF ScheduleInv, EntryOK
    <2> QED BY <1>0, <1>1, <1>4, <2>1, <2>2, <2>3, <2>4, <2>5 DEF ScheduleInv, RunShape
  <1>10. ASSUME NEW t \in reg.late
         PROVE  /\ Reports(at, t) /\ ~ Reports(at, t)' /\ ~ Carries(at, t)
                /\ t <= now /\ t < nextDue[at]
    <2>1. t \in 1..MaxTime /\ t <= reg.now
      BY <1>0, <1>4, <1>5 DEF RegShape
    <2>2. ~ PassReports(at, t) /\ ~ Carries(at, t)
      <3>1. CASE pass.at = at
        <4>1. /\ \A late \in pass.late : reg.now < late
              /\ pass.latest = 0 \/ reg.now < pass.latest
          BY <1>0, <1>4, <1>5, <3>1 DEF Apart
        <4>2. t \notin pass.late /\ t # pass.latest
          BY <1>0, <1>5, <2>1, <4>1
        <4> QED BY <4>2 DEF PassReports, Carries
      <3>2. CASE pass.at # at
        BY <3>2 DEF PassReports, Carries
      <3> QED BY <3>1, <3>2
    <2>3. Reports(at, t) /\ ~ Reports(at, t)'
      BY <1>0, <1>5, <1>8, <2>2 DEF Reports
    <2> QED BY <1>0, <1>4, <1>5, <2>1, <2>2, <2>3
  <1>11. ASSUME NEW a \in Automation, NEW t \in 1..MaxTime
         PROVE  /\ Reports(a, t)' => Reports(a, t)
                /\ Reports(a, t) => Reports(a, t)' \/ (a = at /\ t \in reg.late)
                /\ Carries(a, t)' => Carries(a, t)
                /\ t \in owed[a] /\ Carries(a, t) => Carries(a, t)'
                /\ Handed(a, t) => Handed(a, t)'
                /\ Ahead(a, t)' => Ahead(a, t)
    BY <1>0, <1>1, <1>6, <1>8 DEF Reports, Ahead
  <1>12. \A a \in Automation : pass'.at = a =>
           pass.at = a /\ pass'.active = pass.active
           /\ (pass'.stage # "run" => pass.stage # "run")
    BY <1>0, <1>1
  <1>13. OnceInv' /\ (\A a \in Automation : OwedOK(a)') /\ (Gone \subseteq struck)'
    <2>1. /\ UNCHANGED <<now, up, enabled, evaluated, nextDue, auto, occurrence, phase,
                         log, owed, struck, faults>>
          /\ up /\ ~ Registering(at) /\ reg'.now = reg.now /\ reg'.from = reg.from
          /\ pass'.now = pass.now
          /\ \A a \in Automation : Registering(a)' <=> Registering(a)
      BY <1>1, <1>6, <1>8
    <2>2. Recorded(at, reg.late)
      BY <1>7, <1>10, <1>11, <1>12, <2>1 DEF Recorded
    <2> QED BY <1>4, <1>5, <2>2, ReportWritten
  <1> QED BY <1>0, <1>9, <1>13 DEF HistoryInv, LossInv

LEMMA WriteLogHistory ==
  ASSUME RunsInv, HistoryInv, WriteLog
  PROVE  HistoryInv'
  <1>1. Head(queue).what = "missed" => Head(queue).by \in {"reg", "pass"}
    BY DEF WriteLog, WriteMissed
  <1> QED BY <1>1, WriteEntryHistory, PassReportHistory, RegReportHistory


-----------------------------------------------------------------------------
(* Time and faults.                                                          *)

LEMMA TickHistory ==
  ASSUME RunsInv, HistoryInv, Tick
  PROVE  HistoryInv'
  <1>1. /\ now < MaxTime /\ now' = now + 1
        /\ owed' = [a \in Automation |->
             IF Watched(a) /\ now' \in Times[a] THEN owed[a] \cup {now'} ELSE owed[a]]
        /\ UNCHANGED <<up, enabled, evaluated, nextDue, reg, pass, auto, occurrence, phase,
                       log, missed, queue, struck, faults>>
    BY DEF Tick, engine, runs, runLog, faulty
  <1>2. /\ ScheduleInv /\ OnceInv /\ LossInv /\ MaxTime \in Nat
        /\ ScheduleType /\ PassShape /\ RegShape /\ Apart /\ ReportQueued
        /\ now \in 0..MaxTime /\ pass.now \in Nat /\ pass.now <= now
        /\ reg.now \in Nat /\ reg.now <= now /\ Never = MaxTime + 1
        /\ owed \in [Automation -> SUBSET (1..MaxTime)]
        /\ \A a \in Automation : Times[a] \subseteq 1..MaxTime
    BY Facts, PassFacts, RegFacts DEF ScheduleType, PassShape, RegShape
  <1>3. now' \in 1..MaxTime /\ now < now'
    BY <1>1, <1>2
  <1>4. /\ \A a : Registering(a)' <=> Registering(a)
        /\ \A a, t : PassReports(a, t)' <=> PassReports(a, t)
        /\ \A a, t : Reports(a, t)' <=> Reports(a, t)
        /\ \A a, t : Carries(a, t)' <=> Carries(a, t)
        /\ \A a \in Automation : \A t : Handed(a, t)' <=> Handed(a, t)
    BY <1>1 DEF Registering, PassReports, RegReports, Reports, Carries, Handed
  <1>5. \A a \in Automation : \A t : Ahead(a, t)' <=> Ahead(a, t)
    BY <1>1, <1>4 DEF Ahead
  <1>6. ScheduleInv'
    <2>1. ScheduleType'
      <3>1. owed' \in [Automation -> SUBSET (1..MaxTime)]
        BY <1>1, <1>2, <1>3
      <3> QED BY <1>1, <1>2, <1>3, <3>1 DEF ScheduleType
    <2>2. PassShape' /\ RegShape'
      <3>1. pass.now <= now' /\ reg.now <= now'
        BY <1>2, <1>3
      <3> QED BY <1>1, <1>2, <3>1 DEF PassShape, RegShape
    <2>3. ASSUME NEW a \in Automation PROVE EntryOK(a)'
      <3>1. EntryOK(a) /\ evaluated[a] \in Nat
        BY AutomationFacts
      <3>2. evaluated[a] <= now'
        BY <1>2, <1>3, <3>1 DEF EntryOK
      <3>3. \A t \in Times[a] : t > now' => t > now
        BY <1>2, <1>3
      <3> QED BY <1>1, <1>4, <3>1, <3>2, <3>3 DEF EntryOK
    <2>4. ReportQueued' /\ Apart'
      BY <1>1, <1>2 DEF ReportQueued, Apart
    <2> QED BY <1>1, <1>2, <2>1, <2>2, <2>3, <2>4 DEF ScheduleInv, RunShape
  <1>7. OnceInv'
    <2>1. ASSUME NEW a \in Automation, NEW t \in 1..MaxTime PROVE ReportOK(a, t)'
      <3>1. ReportOK(a, t)
        BY <1>2 DEF OnceInv
      <3>2. t <= now => t <= now'
        BY <1>2, <1>3
      <3> QED BY <1>1, <1>4, <3>1, <3>2 DEF ReportOK
    <2>2. ASSUME NEW r \in Run, NEW a \in Automation PROVE OccurrenceOK(r, a)'
      <3>1. OccurrenceOK(r, a)
        BY <1>2 DEF OnceInv
      <3> QED BY <1>1, <1>4, <3>1 DEF OccurrenceOK
    <2> QED BY <2>1, <2>2 DEF OnceInv
  <1>8. \A a \in Automation : \A t \in owed'[a] : t \in owed[a] \/
          (t = now' /\ Watched(a) /\ t \in Times[a])
    BY <1>1
  <1>9. ASSUME NEW a \in Automation, NEW t \in Times[a], Watched(a), t = now'
        PROVE  evaluated[a] < t /\ Coming(a, t)'
    <2>1. EntryOK(a) /\ evaluated[a] \in Nat /\ reg.from[a] \in Nat
      BY AutomationFacts
    <2>2. evaluated[a] < t
      BY <1>2, <1>3, <1>9, <2>1 DEF EntryOK
    <2>3. CASE ~ up
      BY <1>1, <2>2, <2>3 DEF Coming
    <2>4. CASE up /\ Registering(a)
      <3>1. reg.from[a] < t
        BY <1>2, <2>1, <2>2, <2>4 DEF EntryOK
      <3> QED BY <1>1, <1>4, <2>2, <2>4, <3>1 DEF Coming
    <2>5. CASE up /\ ~ Registering(a)
      <3>1. nextDue[a] # Never \/ (enabled[a] /\ ~ reg.on)
        BY <1>9, <2>5 DEF Watched, Registering
      <3>2. nextDue[a] <= t
        BY <1>2, <1>3, <1>9, <2>1, <2>5, <3>1 DEF EntryOK
      <3> QED BY <1>1, <2>2, <2>5, <3>2 DEF Coming
    <2> QED BY <2>2, <2>3, <2>4, <2>5
  <1>10. ASSUME NEW a \in Automation PROVE OwedOK(a)'
    <2>1. OwedOK(a) /\ owed[a] \in SUBSET (1..MaxTime)
      BY AutomationFacts
    <2>2. owed'[a] # {} => enabled[a]
      BY <1>8, <2>1 DEF OwedOK, Watched
    <2>3. ASSUME NEW t \in owed'[a]
          PROVE /\ t \in Times[a] /\ t <= now'
                /\ Ahead(a, t) => evaluated[a] < t
                /\ pass.at = a /\ ~ pass.active /\ pass.stage # "run" => pass.now < t
      <3>1. CASE t \in owed[a]
        <4>1. t <= now => t <= now'
          BY <1>2, <1>3, <2>1, <3>1
        <4> QED BY <2>1, <3>1, <4>1 DEF OwedOK
      <3>2. CASE t = now' /\ Watched(a) /\ t \in Times[a]
        <4>1. evaluated[a] < t
          BY <1>9, <3>2
        <4>2. pass.now < t
          BY <1>2, <1>3, <3>2
        <4> QED BY <1>3, <3>2, <4>1, <4>2
      <3> QED BY <1>8, <3>1, <3>2
    <2> QED BY <1>1, <1>5, <2>2, <2>3 DEF OwedOK
  <1>11. ASSUME NEW a \in Automation, NEW t \in 1..MaxTime, t \in owed'[a],
                ~ Accounted(a, t)', ~ Coming(a, t)'
         PROVE  t \in owed[a] /\ ~ Accounted(a, t) /\ ~ Coming(a, t)
    <2>1. t \in owed[a]
      BY <1>8, <1>9, <1>11
    <2> QED BY <1>1, <1>4, <1>11, <2>1 DEF Accounted, Coming
  <1>12. (Gone \subseteq struck)'
    BY <1>1, <1>2, <1>11, StillAccounted
  <1> QED BY <1>6, <1>7, <1>10, <1>12 DEF HistoryInv, LossInv

(* What is neither marked nor in the log when the server dies is reported by *)
(* the next registration; what is marked and not in the log was exposed.     *)
LEMMA CrashHistory ==
  ASSUME RunsInv, HistoryInv, Crash
  PROVE  HistoryInv'
  <1>1. /\ up /\ ~ up' /\ faults' = faults + 1 /\ struck' = struck \cup Exposed
        /\ pass' = NoPass /\ reg' = NoRegistration /\ queue' = <<>>
        /\ nextDue' = [a \in Automation |-> Never]
        /\ phase' = [r \in Run |->
             IF phase[r] \in {"none", "ended"} THEN phase[r] ELSE "cut"]
        /\ UNCHANGED <<now, enabled, evaluated, auto, occurrence, log, missed, owed>>
    BY DEF Crash, definitions
  <1>2. /\ ScheduleInv /\ OnceInv /\ LossInv /\ MaxTime \in Nat /\ None \notin Automation
        /\ ScheduleType /\ faults \in Nat /\ now \in Nat /\ Never = MaxTime + 1
        /\ now \in 0..MaxTime
    BY Facts
  <1>3. /\ pass' \in PassType /\ pass'.now = 0 /\ pass'.todo = {}
        /\ pass'.at = None /\ pass'.stage = "idle" /\ pass'.late = {} /\ pass'.latest = 0
        /\ reg' \in RegType /\ reg'.on = FALSE /\ reg'.now = 0 /\ reg'.todo = {}
        /\ reg'.at = None /\ reg'.stage = "idle" /\ reg'.late = {}
    BY <1>1, NoPassIs, NoRegistrationIs
  <1>4. /\ \A a : ~ Registering(a)'
        /\ \A a, t : ~ Reports(a, t)' /\ ~ PassReports(a, t)' /\ ~ Carries(a, t)'
    BY <1>3 DEF Registering, Reports, PassReports, RegReports, Carries
  <1>5. \A a \in Automation : nextDue'[a] = Never
    BY <1>1
  <1>6. ScheduleInv'
    <2>1. ScheduleType'
      <3>1. faults' \in Nat /\ nextDue' \in [Automation -> 0..Never]
        BY <1>1, <1>2
      <3> QED BY <1>1, <1>2, <1>3, <3>1 DEF ScheduleType
    <2>2. PassShape' /\ RegShape' /\ Apart'
      <3>1. 0 <= now
        BY <1>2
      <3> QED BY <1>1, <1>2, <1>3, <3>1 DEF PassShape, RegShape, Apart
    <2>3. ReportQueued'
      <3>1. DOMAIN <<>> = {}
        OBVIOUS
      <3> QED BY <1>1, <3>1 DEF ReportQueued
    <2>4. \A a \in Automation : EntryOK(a)'
      BY <1>1, <1>2, <1>4, <1>5 DEF ScheduleInv, EntryOK
    <2>5. \A r \in Run : RunShape(r)'
      BY <1>1, <1>2 DEF ScheduleInv, RunShape
    <2> QED BY <2>1, <2>2, <2>3, <2>4, <2>5 DEF ScheduleInv
  <1>7. OnceInv'
    <2>1. ASSUME NEW a \in Automation, NEW t \in 1..MaxTime PROVE ReportOK(a, t)'
      <3>1. ReportOK(a, t) /\ missed[a][t] \in Nat
        BY AutomationFacts
      <3>2. missed[a][t] <= faults' /\ missed[a][t] <= 1 + faults'
        BY <1>1, <1>2, <3>1 DEF ReportOK
      <3>3. t < Never
        BY <1>2
      <3> QED BY <1>1, <1>4, <1>5, <3>1, <3>2, <3>3 DEF ReportOK
    <2>2. ASSUME NEW r \in Run, NEW a \in Automation PROVE OccurrenceOK(r, a)'
      <3>1. OccurrenceOK(r, a) /\ occurrence[r] < Never
        BY <1>2, AutomationFacts
      <3> QED BY <1>1, <1>4, <1>5, <3>1 DEF OccurrenceOK
    <2> QED BY <2>1, <2>2 DEF OnceInv
  <1>8. ASSUME NEW a \in Automation PROVE OwedOK(a)'
    <2>1. OwedOK(a) /\ owed[a] \in SUBSET (1..MaxTime)
      BY AutomationFacts
    <2>2. \A t \in owed[a] : ~ Ahead(a, t)'
      <3>1. \A t \in owed[a] : ~ (Never <= t)
        BY <1>2, <2>1
      <3> QED BY <1>4, <1>5, <3>1 DEF Ahead
    <2> QED BY <1>1, <1>2, <1>3, <2>1, <2>2 DEF OwedOK
  <1>9. (Gone \subseteq struck)'
    <2>1. ASSUME NEW a \in Automation, NEW t \in 1..MaxTime, t \in owed'[a],
                 ~ Accounted(a, t)', ~ Coming(a, t)', <<a, t>> \notin struck'
          PROVE  t \in owed[a] /\ ~ Accounted(a, t) /\ ~ Coming(a, t)
      <3>1. t \in owed[a] /\ ~ Accounted(a, t)
        BY <1>1, <2>1 DEF Accounted
      <3>2. ~ (evaluated[a] < t) /\ evaluated[a] \in Nat
        BY <1>1, <2>1, AutomationFacts DEF Coming
      <3>3. OwedOK(a) /\ t \in Nat
        BY AutomationFacts
      <3>4. ~ Ahead(a, t)
        BY <3>1, <3>2, <3>3 DEF OwedOK
      <3>5. <<a, t>> \notin Exposed
        BY <1>1, <2>1
      <3>6. ~ (a = pass.at /\ t = pass.latest /\ pass.stage \in {"due", "run"})
        BY <3>5 DEF Exposed
      <3>7. ~ RegReports(a, t)
        <4> SUFFICES ASSUME RegReports(a, t) PROVE FALSE
          OBVIOUS
        <4>1. a = reg.at /\ t \in reg.late /\ reg.stage = "missed" /\ t <= evaluated[a]
          BY <3>2, <3>3 DEF RegReports
        <4>2. <<a, t>> \in {reg.at} \X reg.late /\ <<a, t>>[1] = a /\ <<a, t>>[2] = t
          BY <4>1
        <4> QED BY <3>5, <4>1, <4>2 DEF Exposed
      <3>8. ~ Carries(a, t) /\ ~ Handed(a, t) /\ ~ Reports(a, t)
        BY <3>4, <3>6, <3>7 DEF Ahead, Carries, Handed, Reports
      <3> QED BY <1>1, <3>1, <3>4, <3>8 DEF Ahead, Coming
    <2> QED BY <1>1, <1>2, <2>1, StillAccounted
  <1> QED BY <1>6, <1>7, <1>8, <1>9 DEF HistoryInv, LossInv

LEMMA RegistrationIs ==
  ASSUME ScheduleType
  PROVE  /\ Registration \in RegType /\ Registration.on = TRUE
         /\ Registration.now = now /\ Registration.todo = {a \in Automation : enabled[a]}
         /\ Registration.from = evaluated /\ Registration.at = None
         /\ Registration.stage = "idle" /\ Registration.late = {}
  <1>1. now \in Nat /\ evaluated \in [Automation -> Nat]
    BY Constants DEF ScheduleType
  <1>2. {a \in Automation : enabled[a]} \in SUBSET Automation
    OBVIOUS
  <1> QED BY <1>1, <1>2 DEF RegType, Registration, NoRegistration

LEMMA RestartHistory ==
  ASSUME RunsInv, HistoryInv, Restart
  PROVE  HistoryInv'
  <1>1. /\ ~ up /\ up' /\ log' = Loaded(log) /\ reg' = Registration
        /\ UNCHANGED <<now, enabled, evaluated, nextDue, pass, auto, occurrence, phase,
                       missed, queue, owed, struck, faults>>
    BY DEF Restart, definitions, runs, faulty
  <1>2. /\ ScheduleInv /\ OnceInv /\ LossInv /\ None \notin Automation
        /\ ScheduleType /\ PassShape /\ faults \in Nat /\ now \in Nat /\ now \in 0..MaxTime
        /\ Never = MaxTime + 1 /\ MaxTime \in Nat /\ evaluated \in [Automation -> 0..MaxTime]
    BY Facts
  <1>3. /\ reg' \in RegType /\ reg'.on = TRUE /\ reg'.now = now
        /\ reg'.todo = {a \in Automation : enabled[a]} /\ reg'.from = evaluated
        /\ reg'.at = None /\ reg'.stage = "idle" /\ reg'.late = {}
    BY <1>1, <1>2, RegistrationIs
  <1>4. pass.at = None /\ pass.stage = "idle" /\ pass.todo = {}
    BY <1>1, <1>2 DEF PassShape
  <1>5. /\ \A a \in Automation : Registering(a)' <=> enabled[a]
        /\ \A a, t : ~ Reports(a, t)' /\ ~ PassReports(a, t)' /\ ~ Carries(a, t)'
    BY <1>1, <1>3, <1>4 DEF Registering, Reports, PassReports, RegReports, Carries
  <1>6. \A r \in Run : log'[r] = "none" <=> log[r] = "none"
    BY <1>1 DEF Loaded
  <1>7. \A a \in Automation : EntryOK(a) /\ nextDue[a] = Never
    BY <1>1, <1>2 DEF ScheduleInv, EntryOK
  <1>8. ScheduleInv'
    <2>1. ScheduleType'
      BY <1>1, <1>2, <1>3 DEF ScheduleType
    <2>2. PassShape' /\ RegShape' /\ Apart'
      <3>1. None \notin reg'.todo
        BY <1>2, <1>3
      <3> QED BY <1>1, <1>2, <1>3, <1>4, <3>1 DEF PassShape, RegShape, Apart
    <2>3. ReportQueued'
      <3>1. queue' = <<>> /\ DOMAIN <<>> = {}
        BY <1>1 DEF RunsInv, DownHoldsNothing
      <3> QED BY <3>1 DEF ReportQueued
    <2>4. ASSUME NEW a \in Automation PROVE EntryOK(a)'
      BY <1>1, <1>2, <1>3, <1>5, <1>7 DEF EntryOK
    <2>5. \A r \in Run : RunShape(r)'
      BY <1>1, <1>2, <1>6 DEF ScheduleInv, RunShape
    <2> QED BY <2>1, <2>2, <2>3, <2>4, <2>5 DEF ScheduleInv
  <1>9. OnceInv'
    <2>1. ASSUME NEW a \in Automation, NEW t \in 1..MaxTime PROVE ReportOK(a, t)'
      <3>1. ReportOK(a, t)
        BY <1>2 DEF OnceInv
      <3> QED BY <1>1, <1>3, <1>5, <3>1 DEF ReportOK
    <2>2. ASSUME NEW r \in Run, NEW a \in Automation PROVE OccurrenceOK(r, a)'
      <3>1. OccurrenceOK(r, a)
        BY <1>2 DEF OnceInv
      <3> QED BY <1>1, <1>3, <1>5, <3>1 DEF OccurrenceOK
    <2> QED BY <2>1, <2>2 DEF OnceInv
  <1>10. ASSUME NEW a \in Automation PROVE OwedOK(a)'
    <2>1. OwedOK(a) /\ owed[a] \in SUBSET (1..MaxTime)
      BY AutomationFacts
    <2>2. ASSUME NEW t \in owed[a], Ahead(a, t)' PROVE evaluated[a] < t
      <3>1. ~ (Never <= t)
        BY <1>2, <2>1
      <3> QED BY <1>1, <1>3, <1>5, <1>7, <2>2, <3>1 DEF Ahead
    <2> QED BY <1>1, <1>2, <1>4, <2>1, <2>2 DEF OwedOK
  <1>11. ASSUME NEW a \in Automation, NEW t \in 1..MaxTime, t \in owed[a]
         PROVE  (Accounted(a, t) <=> Accounted(a, t)') /\ (Coming(a, t) => Coming(a, t)')
    <2>1. Accounted(a, t) <=> Accounted(a, t)'
      BY <1>1, <1>6 DEF Accounted
    <2>2. enabled[a]
      BY <1>2, <1>11 DEF LossInv, OwedOK
    <2> QED BY <1>1, <1>3, <1>5, <2>1, <2>2 DEF Coming
  <1>12. (Gone \subseteq struck)'
    BY <1>1, <1>2, <1>11, StillAccounted
  <1> QED BY <1>8, <1>9, <1>10, <1>12 DEF HistoryInv, LossInv

LEMMA InitHistory == Init => HistoryInv
  <1> SUFFICES ASSUME Init PROVE HistoryInv
    OBVIOUS
  <1>1. /\ now = 0 /\ ~ up /\ faults = 0 /\ pass = NoPass /\ reg = NoRegistration
        /\ queue = <<>> /\ struck = {}
        /\ enabled = [a \in Automation |-> TRUE] /\ evaluated = [a \in Automation |-> 0]
        /\ nextDue = [a \in Automation |-> Never]
        /\ missed = [a \in Automation |-> [t \in 1..MaxTime |-> 0]]
        /\ owed = [a \in Automation |-> {}]
        /\ auto = [r \in Run |-> None] /\ occurrence = [r \in Run |-> 0]
        /\ log = [r \in Run |-> "none"]
    BY DEF Init
  <1>2. MaxTime \in Nat /\ Never = MaxTime + 1 /\ None \notin Automation
    BY Constants
  <1>3. ScheduleType
    <2>1. nextDue \in [Automation -> 0..Never]
      BY <1>1, <1>2
    <2>2. now \in 0..MaxTime /\ 0 \in 0..MaxTime
      BY <1>1, <1>2
    <2>3. pass \in PassType /\ reg \in RegType
      BY <1>1, NoPassIs, NoRegistrationIs
    <2> QED BY <1>1, <2>1, <2>2, <2>3 DEF ScheduleType
  <1>4. \A a, t : ~ Reports(a, t) /\ ~ Carries(a, t)
    BY <1>1, NoPassIs, NoRegistrationIs DEF Reports, PassReports, RegReports, Carries
  <1>5. ScheduleInv
    <2>1. PassShape /\ RegShape /\ Apart
      BY <1>1, NoPassIs, NoRegistrationIs DEF PassShape, RegShape, Apart
    <2>2. ReportQueued
      <3>1. DOMAIN <<>> = {}
        OBVIOUS
      <3> QED BY <1>1, <3>1 DEF ReportQueued
    <2>3. \A a \in Automation : EntryOK(a)
      BY <1>1, <1>2, NoRegistrationIs DEF EntryOK, Registering
    <2> QED BY <1>1, <1>3, <2>1, <2>2, <2>3 DEF ScheduleInv, RunShape
  <1>6. OnceInv
    <2>1. \A a \in Automation, t \in 1..MaxTime : ReportOK(a, t)
      BY <1>1, <1>2 DEF ReportOK
    <2>2. \A r \in Run, a \in Automation : OccurrenceOK(r, a)
      BY <1>1, <1>2 DEF OccurrenceOK
    <2> QED BY <2>1, <2>2 DEF OnceInv
  <1>7. LossInv
    <2>1. \A a \in Automation : OwedOK(a)
      BY <1>1 DEF OwedOK
    <2>2. Gone = {}
      BY <1>1 DEF Gone
    <2> QED BY <2>1, <2>2 DEF LossInv
  <1> QED BY <1>5, <1>6, <1>7 DEF HistoryInv

(* The second inductive invariant, over any number of deaths, failed writes  *)
(* and passes during a registration: an occurrence that came due is still to *)
(* come, in the hands of a pass or of the registration, in the log, or one   *)
(* that a fault struck there (scheduleEngine/scheduler.ts,                   *)
(* automationService/).  It rests on the first.                              *)
THEOREM HistoryInvariant == Spec => [](RunsInv /\ HistoryInv)
  <1>1. RunsInv /\ HistoryInv /\ [Next]_vars => HistoryInv'
    <2> SUFFICES ASSUME RunsInv, HistoryInv, [Next]_vars PROVE HistoryInv'
      OBVIOUS
    <2>1. CASE WriteLog
      BY <2>1, WriteLogHistory
    <2>2. CASE UNCHANGED vars \/ \E r \in Run : TimeOut(r) \/ Stop(r) \/ ShellExits(r)
      <3>1. UNCHANGED <<historyVars, phase, queue>>
        BY <2>2 DEF TimeOut, Stop, ShellExits, vars, historyVars, runLog, engine, runs,
                    definitions, faulty
      <3> QED BY <3>1, IdleSteps
    <2>3. CASE \E r \in Run : Spawn(r) \/ SpawnFails(r) \/ CommandExited(r)
      BY <2>3, ProgressSteps
    <2>4. CASE PassBegins \/ PassComes \/ PassEnds
      BY <2>4, PassBeginsHistory, PassComesHistory, PassEndsHistory
    <2>5. CASE MarkEvaluated \/ MarkFails \/ DropOccurrence \/ Resolved
      BY <2>5, MarkEvaluatedHistory, MarkFailsHistory, LetGoQuietly
    <2>6. CASE RunOccurrence
      BY <2>6, RunOccurrenceHistory
    <2>7. CASE MarkRegistered \/ MarkRegisteredFails \/ RegistrationEnds
      BY <2>7, MarkRegisteredHistory, RegistrationEndsHistory
    <2>8. CASE \E a \in Automation : FireEntry(a) \/ RegisterEntry(a)
      BY <2>8, FireEntryHistory, RegisterEntryHistory
    <2>9. CASE \E a \in Automation : RunNow(a) \/ SetEnabled(a)
      BY <2>9, RunNowHistory, SetEnabledHistory
    <2>10. CASE Tick \/ Crash \/ Restart
      BY <2>10, TickHistory, CrashHistory, RestartHistory
    <2> QED BY <2>1, <2>2, <2>3, <2>4, <2>5, <2>6, <2>7, <2>8, <2>9, <2>10
            DEF Next, EngineSteps, RunSteps
  <1> QED BY <1>1, InitHistory, RunsInvariant, PTL DEF Spec

(* An occurrence is run at most once, also across deaths of the server; one  *)
(* that was run is never reported missed, and a report is repeated only      *)
(* after a fault (scheduleEngine/scheduler.ts, automationService/).          *)
THEOREM RunsOccurrenceOnce == Spec => []OccurrenceOnce
  <1>1. HistoryInv => OccurrenceOnce
    <2> SUFFICES ASSUME HistoryInv PROVE OccurrenceOnce
      OBVIOUS
    <2>1. OnceInv /\ ScheduleInv /\ ScheduleType /\ MaxTime \in Nat
      BY Facts
    <2>2. ASSUME NEW a \in Automation, NEW t \in 1..MaxTime
          PROVE  /\ missed[a][t] <= 1 + faults
                 /\ missed[a][t] > 0 => \A r \in Run : auto[r] = a => occurrence[r] # t
      <3>1. ReportOK(a, t)
        BY <2>1 DEF OnceInv
      <3>2. ASSUME NEW r \in Run, auto[r] = a, occurrence[r] = t, missed[a][t] > 0
            PROVE  FALSE
        <4>1. t # 0 /\ OccurrenceOK(r, a)
          BY <2>1 DEF OnceInv
        <4> QED BY <3>2, <4>1 DEF OccurrenceOK
      <3> QED BY <3>1, <3>2 DEF ReportOK
    <2>3. ASSUME NEW r \in Run, NEW other \in Run, r # other, occurrence[r] # 0,
                 auto[r] = auto[other], occurrence[r] = occurrence[other]
          PROVE  FALSE
      <3>1. auto[r] \in Automation
        BY <2>1, <2>3 DEF ScheduleInv, RunShape
      <3> QED BY <2>1, <2>3, <3>1 DEF OnceInv, OccurrenceOK
    <2> QED BY <2>2, <2>3 DEF OccurrenceOnce
  <1> QED BY <1>1, HistoryInvariant, PTL

(* No occurrence that came due is passed over in silence, but those a fault  *)
(* caught in the hands of a pass or of the registration: also with passes    *)
(* that run over the entries of a registration under way                     *)
(* (scheduleEngine/scheduler.ts, automationService/runLog.ts).               *)
THEOREM RunsLossNeedsFault == Spec => []LossNeedsFault
  <1>1. HistoryInv => LossNeedsFault
    <2> SUFFICES ASSUME HistoryInv PROVE LossNeedsFault
      OBVIOUS
    <2>1. LossInv /\ MaxTime \in Nat
      BY Facts
    <2>2. ASSUME NEW a \in Automation, NEW t \in 1..MaxTime, IsLost(a, t)
          PROVE  <<a, t>> \in struck
      <3>1. t \in owed[a] /\ t <= evaluated[a] /\ ~ Accounted(a, t) /\ ~ Underway(a, t)
        BY <2>2 DEF IsLost
      <3>2. OwedOK(a) /\ evaluated[a] \in Nat
        BY AutomationFacts
      <3>3. ~ (evaluated[a] < t)
        BY <2>1, <3>1, <3>2
      <3>4. ~ Reports(a, t) /\ ~ Carries(a, t) /\ ~ Handed(a, t)
        BY <3>1 DEF Underway, Reports, PassReports, RegReports, Carries, Handed
      <3>5. ~ Coming(a, t)
        BY <3>1, <3>2, <3>3, <3>4 DEF OwedOK, Ahead, Coming
      <3>6. <<a, t>> \in Gone
        BY <3>1, <3>5 DEF Gone
      <3> QED BY <2>1, <3>6 DEF LossInv
    <2> QED BY <2>2 DEF Lost, LossNeedsFault
  <1> QED BY <1>1, HistoryInvariant, PTL
=============================================================================
