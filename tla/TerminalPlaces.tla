--------------------------- MODULE TerminalPlaces ---------------------------
(***************************************************************************)
(* Where a running terminal is shown.  Four parties keep their own account *)
(* of a terminal: the session holder owns its shell, the terminal service  *)
(* supervises it, the workspace records it and shows it in a panel, and    *)
(* the live-panel keeper looks for the ones no panel shows.  None of their *)
(* steps is atomic with another's: a shell starts before its panel, a kill *)
(* is sent before the close it belongs to is committed, an exit arrives    *)
(* when it arrives, and the server or the holder may die in between        *)
(* (packages/server-core: composition.ts, liveTerminalPanels.ts,           *)
(* sessionHolder/, workspaceProtocol.ts; a standalone server).             *)
(*                                                                         *)
(* Of the workspace three things are left: the open projects, what each   *)
(* session's record says, and how many panels show it.  A client's own     *)
(* panel.create and panel.update, which can show a session twice, are left *)
(* to WorkspaceStore.                                                      *)
(***************************************************************************)
EXTENDS Integers, FiniteSets

CONSTANTS Session,         \* ids, issued in order
          Project, Opened, \* projects; those open when the server starts
          Recovered,       \* the projects restarts make for shells they found
          MaxFaults,       \* bound: deaths of the server or of the holder
          None

(* What the workspace, the service and a creator know of a session. *)
Records == [project : Project, status : {"running", "exited", "interrupted"}]
Terms == [project : Project, status : {"running", "ended", "late", "lost"}]
Creations == [project : Project, by : {"client", "tool"},
              phase : {"asked", "attached"}]

ASSUME PlacesAssumption ==
  /\ Session \subseteq Nat
  /\ Opened \subseteq Project /\ Recovered \subseteq Project \ Opened
  /\ MaxFaults \in Nat /\ IsFiniteSet(Recovered) /\ Cardinality(Recovered) = MaxFaults
  /\ None \notin Project \cup Records \cup Terms \cup Creations

VARIABLES
  doc,        \* the workspace, saved before any commit is answered
  shell,      \* the holder: "none", "running", "signalled", "exited", "gone"
  term,       \* the service: None, or the session it supervises or shows
  creating,   \* the creator of a session, until it has placed it
  closing,    \* the close command between its kills and its commit, or None
  ending,     \* held sessions to be ended: their records were removed
  unseen,     \* the keeper: running terminals seen without a panel
  server,     \* "up", "down" or "reattaching"
  adopting,   \* held sessions still to be adopted
  faults

vars == <<doc, shell, term, creating, closing, ending, unseen, server,
          adopting, faults>>

Alive == {"running", "signalled"}

Recorded(d) == {s \in Session : d.record[s] # None}
RecordedIn(d, pr) == {s \in Recorded(d) : d.record[s].project = pr}
Shown(d, s) == d.panels[s] > 0

OpenProject(d, pr) == [d EXCEPT !.projects = @ \cup {pr}]

(* A panel for each, in its project's General folder, and a record for each
   that has none. *)
NewPanels(d, S, pr) ==
  [d EXCEPT
    !.record = [s \in Session |->
       IF s \in S /\ @[s] = None THEN [project |-> pr, status |-> "running"]
       ELSE @[s]],
    !.panels = [s \in Session |-> IF s \in S THEN @[s] + 1 ELSE @[s]]]

NewPanel(d, s, pr) == NewPanels(d, {s}, pr)

MarkExited(d, S) ==
  [d EXCEPT !.record = [s \in Session |->
     IF s \in S /\ @[s] # None /\ @[s].status = "running"
     THEN [@[s] EXCEPT !.status = "exited"] ELSE @[s]]]

(* Of a panel: its session's record goes too. *)
WithoutSessions(d, S) ==
  [d EXCEPT !.record = [s \in Session |-> IF s \in S THEN None ELSE @[s]],
            !.panels = [s \in Session |-> IF s \in S THEN 0 ELSE @[s]]]

WithoutProject(d, pr) ==
  [WithoutSessions(d, RecordedIn(d, pr)) EXCEPT !.projects = @ \ {pr}]

Supervised(t, s) == t[s] # None /\ t[s].status = "running"

(* runningSessionsWithoutPanel *)
PanelLess(d, t) == {s \in Session : Supervised(t, s) /\ ~ Shown(d, s)}

(* Every commit is looked at by the keeper as soon as it returns, and ends
   the held shells whose records it removed. *)
Commit(d, t) ==
  /\ doc' = d /\ term' = t
  /\ ending' = ending \cup (Recorded(doc) \ Recorded(d))
  /\ unseen' = PanelLess(d, t)

Signalled(S) ==
  [s \in Session |-> IF s \in S /\ Supervised(term, s) /\ shell[s] = "running"
                     THEN "signalled" ELSE shell[s]]

Unissued == {s \in Session : shell[s] = "none"}
IsNextId(s) == s \in Unissued /\ \A other \in Unissued : s <= other

Init ==
  /\ doc = [projects |-> Opened, record |-> [s \in Session |-> None],
            panels |-> [s \in Session |-> 0]]
  /\ shell = [s \in Session |-> "none"]
  /\ term = [s \in Session |-> None]
  /\ creating = [s \in Session |-> None]
  /\ closing = None
  /\ ending = {} /\ unseen = {} /\ adopting = {}
  /\ server = "up"
  /\ faults = 0

-----------------------------------------------------------------------------
(* Creation. *)

(* The shell starts at once; its creator hears of it later. *)
AskCreate(s, by, pr) ==
  /\ server = "up" /\ IsNextId(s)
  /\ pr \in doc.projects
  /\ shell' = [shell EXCEPT ![s] = "running"]
  /\ creating' = [creating EXCEPT ![s] =
                    [project |-> pr, by |-> by, phase |-> "asked"]]
  /\ UNCHANGED <<doc, term, closing, ending, unseen, server, adopting, faults>>

(* An exit frame that came before the reply's listener is delivered to it
   at once, when there is no record yet to mark. *)
Attach(s, early) ==
  /\ server = "up" /\ creating[s] # None /\ creating[s].phase = "asked"
  /\ early => shell[s] = "exited"
  /\ UNCHANGED shell

Attached(s, early) ==
  [term EXCEPT ![s] = [project |-> creating[s].project,
                       status |-> IF early THEN "ended" ELSE "running"]]

(* Of a terminal that has ended by now the new record will say running. *)
Placed(d, t, s, pr) ==
  Commit(NewPanel(d, s, pr),
         [t EXCEPT ![s].status = IF @ = "running" THEN @ ELSE "late"])

(* onSessionCreated runs as the client's session is attached; a project
   closed since then is made again. *)
PlaceForClient(s, early) ==
  LET pr == creating[s].project
  IN /\ Attach(s, early) /\ creating[s].by = "client"
     /\ Placed(OpenProject(doc, pr), Attached(s, early), s, pr)
     /\ creating' = [creating EXCEPT ![s] = None]
     /\ UNCHANGED <<closing, server, adopting, faults>>

(* A terminal opened by a tool is placed only after its opener is recorded. *)
AttachForTool(s, early) ==
  /\ Attach(s, early) /\ creating[s].by = "tool"
  /\ term' = Attached(s, early)
  /\ unseen' = IF early THEN PanelLess(doc, term') ELSE unseen
  /\ creating' = [creating EXCEPT ![s].phase = "attached"]
  /\ UNCHANGED <<doc, closing, ending, server, adopting, faults>>

(* Mutant: a terminal that has its record is given another panel. *)
PlaceAgainForTool(s) ==
  /\ server = "up" /\ creating[s] # None /\ creating[s].phase = "attached"
  /\ IF term[s].project \in doc.projects
     THEN Placed(doc, term, s, term[s].project) /\ UNCHANGED shell
     ELSE shell' = Signalled({s}) /\ UNCHANGED <<doc, term, ending, unseen>>
  /\ creating' = [creating EXCEPT ![s] = None]
  /\ UNCHANGED <<closing, server, adopting, faults>>

(* reconcileOpenedTerminal: placed, or ended when the workspace refuses. *)
PlaceForTool(s) ==
  /\ server = "up" /\ creating[s] # None /\ creating[s].phase = "attached"
  /\ IF s \notin Recorded(doc) /\ term[s].project \in doc.projects
     THEN Placed(doc, term, s, term[s].project) /\ UNCHANGED shell
     ELSE shell' = Signalled({s}) /\ UNCHANGED <<doc, term, ending, unseen>>
  /\ creating' = [creating EXCEPT ![s] = None]
  /\ UNCHANGED <<closing, server, adopting, faults>>

-----------------------------------------------------------------------------
(* Exits. *)
Exit(s) ==
  /\ shell[s] \in Alive
  /\ shell' = [shell EXCEPT ![s] = "exited"]
  /\ UNCHANGED <<doc, term, creating, closing, ending, unseen, server,
                 adopting, faults>>

(* Mutant: the exit is not recorded. *)
FinishUnmarked(S) ==
  /\ term' = [s \in Session |->
       IF s \in S /\ Supervised(term, s) THEN [term[s] EXCEPT !.status = "ended"]
       ELSE term[s]]
  /\ UNCHANGED <<doc, ending, unseen>>

(* finish() of each session, and the host's markExited, which commits, and
   is looked at, even when there is no record for it to mark. *)
Finish(S) ==
  LET over == {s \in S : Supervised(term, s)}
      t == [s \in Session |->
              IF s \in over THEN [term[s] EXCEPT !.status = "ended"] ELSE term[s]]
  IN IF over = {} THEN UNCHANGED <<doc, term, ending, unseen>>
     ELSE Commit(MarkExited(doc, over), t)

(* The holder lists a session that has ended until it is asked to end it. *)
DeliverExit(s) ==
  /\ server \in {"up", "reattaching"}
  /\ shell[s] = "exited" /\ Supervised(term, s)
  /\ Finish({s})
  /\ UNCHANGED <<shell, creating, closing, server, adopting, faults>>

(* releaseClosedHeldSessions: the holder ends the shell without a word, and
   whoever listens to it is told afterwards. *)
EndHeld(s) ==
  /\ server = "up" /\ s \in ending
  /\ shell' = [shell EXCEPT ![s] = "gone"]
  /\ ending' = ending \ {s}
  /\ IF Supervised(term, s)
     THEN /\ term' = [term EXCEPT ![s].status = "ended"]
          /\ doc' = MarkExited(doc, {s})
          /\ unseen' = PanelLess(doc', term')
     ELSE UNCHANGED <<doc, term, unseen>>
  /\ UNCHANGED <<creating, closing, server, adopting, faults>>

-----------------------------------------------------------------------------
(* Client commands. *)

(* The sessions a close ends are read, and killed, before it is applied. *)
CloseBegin(close, S) ==
  /\ server = "up" /\ closing = None
  /\ shell' = Signalled(S)
  /\ closing' = close
  /\ UNCHANGED <<doc, term, creating, ending, unseen, server, adopting, faults>>

CloseProjectBegin(pr) ==
  /\ pr \in doc.projects
  /\ CloseBegin([type |-> "project.close", project |-> pr], RecordedIn(doc, pr))

ClosePanelBegin(s) ==
  /\ Shown(doc, s)
  /\ CloseBegin([type |-> "panel.close", session |-> s], {s})

(* A panel is not closed while another shows its session. *)
CloseCommit ==
  /\ server = "up" /\ closing # None
  /\ \/ /\ closing.type = "project.close" /\ closing.project \in doc.projects
        /\ Commit(WithoutProject(doc, closing.project), term)
     \/ /\ closing.type = "panel.close" /\ doc.panels[closing.session] = 1
        /\ Commit(WithoutSessions(doc, {closing.session}), term)
  /\ closing' = None
  /\ UNCHANGED <<shell, creating, server, adopting, faults>>

(* The revision the client expected, or what it names, has gone. *)
CloseRefused ==
  /\ server = "up" /\ closing # None
  /\ closing' = None
  /\ UNCHANGED <<doc, shell, term, creating, ending, unseen, server, adopting,
                 faults>>

Moved(d, s, pr) == [d EXCEPT !.record[s].project = pr]

(* Mutant: the service does not follow the panel. *)
MovePanelAlone(s, pr) ==
  /\ server = "up" /\ doc.panels[s] = 1
  /\ pr \in doc.projects \ {doc.record[s].project}
  /\ Commit(Moved(doc, s, pr), term)
  /\ UNCHANGED <<shell, creating, closing, server, adopting, faults>>

(* A terminal moved to another project is rehomed as the move commits. *)
MovePanel(s, pr) ==
  /\ server = "up" /\ doc.panels[s] = 1
  /\ pr \in doc.projects \ {doc.record[s].project}
  /\ Commit(Moved(doc, s, pr),
            [term EXCEPT ![s] = IF @ = None THEN None ELSE [@ EXCEPT !.project = pr]])
  /\ UNCHANGED <<shell, creating, closing, server, adopting, faults>>

-----------------------------------------------------------------------------
(* The keeper's grace runs out for a terminal. *)

GraceEnds(s) ==
  /\ server = "up" /\ s \in unseen
  /\ LET waiting == PanelLess(doc, term)
         pr == term[s].project
     IN \/ /\ s \notin waiting
           /\ unseen' = waiting /\ UNCHANGED <<doc, shell, term, ending>>
        \/ /\ s \in waiting /\ pr \notin doc.projects
           /\ shell' = Signalled({s}) /\ unseen' = waiting \ {s}
           /\ UNCHANGED <<doc, term, ending>>
        \/ /\ s \in waiting /\ pr \in doc.projects
           /\ IF s \in Recorded(doc) /\ doc.record[s].project # pr
              THEN unseen' = waiting \ {s} /\ UNCHANGED <<doc, term, ending>>
              ELSE Commit(NewPanel(doc, s, pr), term)
           /\ UNCHANGED shell
  /\ UNCHANGED <<creating, closing, server, adopting, faults>>

-----------------------------------------------------------------------------
(* Deaths and the restart. *)
Crash ==
  /\ server # "down" /\ faults < MaxFaults
  /\ server' = "down" /\ faults' = faults + 1
  /\ term' = [s \in Session |-> None]
  /\ creating' = [s \in Session |-> None]
  /\ closing' = None /\ ending' = {} /\ unseen' = {} /\ adopting' = {}
  /\ UNCHANGED <<doc, shell>>

(* Every shell dies with its holder; a server is told of those it watches,
   and what it is asking for is refused. *)
HolderDies ==
  /\ faults < MaxFaults /\ \E s \in Session : shell[s] \in Alive
  /\ faults' = faults + 1
  /\ shell' = [s \in Session |-> IF shell[s] = "none" THEN "none" ELSE "gone"]
  /\ Finish(Session)
  /\ creating' = [s \in Session |->
       IF creating[s] # None /\ creating[s].phase = "asked" THEN None
       ELSE creating[s]]
  /\ UNCHANGED <<closing, server, adopting>>

Held == {s \in Session : shell[s] \in Alive \cup {"exited"}}

Interrupted(d) ==
  [d EXCEPT !.record = [s \in Session |->
     IF @[s] # None /\ @[s].status = "running"
     THEN [@[s] EXCEPT !.status = "interrupted"] ELSE @[s]]]

(* recoverStrays: those the workspace has room for, in one new project; it
   may refuse the project too. *)
Recover(d, strays, new) ==
  {d} \cup {NewPanels(OpenProject(d, new), S, new) :
              S \in IF strays = {} THEN {} ELSE SUBSET strays}

(* reconcileHeldTerminalSessions: what is held runs, or did until just now. *)
Reconcile(d, held) ==
  [d EXCEPT !.record = [s \in Session |->
     IF s \in held /\ @[s] # None /\ @[s].status = "interrupted"
     THEN [@[s] EXCEPT !.status = "running"] ELSE @[s]]]

(* restoreEndedSession: what has a record and no shell is shown as it ended. *)
Restored(d, held) ==
  [s \in Session |-> IF s \in Recorded(d) \ held
                     THEN [project |-> d.record[s].project, status |-> "ended"]
                     ELSE None]

(* Mutant: a shell without a record is left with the holder. *)
ReattachLeavingStrays ==
  LET d == Reconcile(Interrupted(doc), Held)
  IN /\ server = "down" /\ server' = "reattaching"
     /\ doc' = d
     /\ adopting' = Held \cap Recorded(d)
     /\ term' = Restored(d, Held)
     /\ UNCHANGED <<shell, creating, closing, ending, unseen, faults>>

Strays == {s \in Held \ Recorded(doc) : shell[s] \in Alive}

(* The repository is loaded, and what the holder lists is given a record or
   ended. *)
Reattach ==
  \E new \in Recovered \ doc.projects :
  \E recovered \in Recover(Interrupted(doc), Strays, new) :
    LET d == Reconcile(recovered, Held)
    IN /\ server = "down" /\ server' = "reattaching"
       /\ doc' = d
       /\ shell' = [s \in Session |-> IF s \in Held \ Recorded(d) THEN "gone"
                                      ELSE shell[s]]
       /\ adopting' = Held \cap Recorded(d)
       /\ term' = Restored(d, Held)
       /\ UNCHANGED <<creating, closing, ending, unseen, faults>>

(* One held session at a time.  The exit of one that has ended is replayed
   and recorded; of one whose holder died since, nothing is said. *)
Adopt(s) ==
  LET As(status) == [term EXCEPT ![s] =
                       [project |-> doc.record[s].project, status |-> status]]
  IN /\ server = "reattaching" /\ s \in adopting
     /\ adopting' = adopting \ {s}
     /\ \/ /\ shell[s] \in Alive
           /\ term' = As("running") /\ UNCHANGED <<doc, shell>>
        \/ /\ shell[s] = "exited"
           /\ term' = As("ended") /\ doc' = MarkExited(doc, {s})
           /\ UNCHANGED shell
        \/ /\ shell[s] = "gone"
           /\ term' = As("lost") /\ UNCHANGED <<doc, shell>>
     /\ UNCHANGED <<creating, closing, ending, unseen, server, faults>>

(* restoreWorkspaceOnStartup: a project without a terminal gets a shell and
   no panel for it, as long as the instance has ids. *)
ToSeed == {pr \in doc.projects : \A s \in RecordedIn(doc, pr) : ~ Shown(doc, s)}

Seedings ==
  {seeds \in UNION {[S -> ToSeed] : S \in SUBSET Unissued} :
     /\ \A s \in DOMAIN seeds, other \in Unissued \ DOMAIN seeds : s < other
     /\ \A s, other \in DOMAIN seeds : seeds[s] = seeds[other] => s = other
     /\ Cardinality(DOMAIN seeds) \in {Cardinality(ToSeed), Cardinality(Unissued)}}

WithSeeds(seeds) ==
  /\ shell' = [s \in Session |-> IF s \in DOMAIN seeds THEN "running" ELSE shell[s]]
  /\ term' = [s \in Session |->
       IF s \in DOMAIN seeds THEN [project |-> seeds[s], status |-> "running"]
       ELSE term[s]]

(* Mutant: nothing is looked at when the start is over. *)
StartWithoutLook ==
  /\ server = "reattaching" /\ adopting = {} /\ server' = "up"
  /\ \E seeds \in Seedings : WithSeeds(seeds)
  /\ UNCHANGED <<doc, creating, closing, ending, adopting, unseen, faults>>

Start ==
  /\ server = "reattaching" /\ adopting = {} /\ server' = "up"
  /\ \E seeds \in Seedings :
       WithSeeds(seeds) /\ unseen' = PanelLess(doc, term')
  /\ UNCHANGED <<doc, creating, closing, ending, adopting, faults>>

Next ==
  \/ \E s \in Session, by \in {"client", "tool"}, pr \in Project :
       AskCreate(s, by, pr)
  \/ \E s \in Session, early \in BOOLEAN :
       PlaceForClient(s, early) \/ AttachForTool(s, early)
  \/ \E s \in Session :
       PlaceForTool(s) \/ Exit(s) \/ DeliverExit(s) \/ EndHeld(s)
         \/ ClosePanelBegin(s) \/ GraceEnds(s) \/ Adopt(s)
  \/ \E pr \in Project : CloseProjectBegin(pr)
  \/ CloseCommit \/ CloseRefused
  \/ \E s \in Session, pr \in Project : MovePanel(s, pr)
  \/ Crash \/ HolderDies \/ Reattach \/ Start

(* The holder's reply to a creator comes, a timer fires, a start is carried
   through; a shell that was signalled exits.  No other shell need exit, and
   no exit need be told. *)
Fairness ==
  /\ \A s \in Session :
       /\ WF_vars(\E early \in BOOLEAN : PlaceForClient(s, early))
       /\ WF_vars(\E early \in BOOLEAN : AttachForTool(s, early))
       /\ WF_vars(PlaceForTool(s))
       /\ WF_vars(shell[s] = "signalled" /\ Exit(s))
       /\ WF_vars(GraceEnds(s))
       /\ WF_vars(Adopt(s))
  /\ WF_vars(Reattach) /\ WF_vars(Start)

Spec == Init /\ [][Next]_vars /\ Fairness

-----------------------------------------------------------------------------
(* A running terminal is supervised under the project the workspace records *)
(* it in, whatever was moved, recovered or placed meanwhile: a terminal the *)
(* two disagree about is refused to its clients and skipped by the keeper.  *)
HomesAgree ==
  \A s \in Recorded(doc) :
    Supervised(term, s) => term[s].project = doc.record[s].project

(* Its creator, the keeper and a restart may all give a terminal a panel,   *)
(* and only one of them does.                                               *)
OnePanelEach == \A s \in Session : doc.panels[s] <= 1

(* While the server is up it supervises every shell the holder runs, but    *)
(* for one being created: none is left running that nobody can reach.       *)
NoShellLost ==
  server = "up" => \A s \in Session :
    shell[s] \in Alive => Supervised(term, s) \/ creating[s] # None

(* A record says running of an ended terminal only when it was made late,   *)
(* after the exit, or the holder died between listing and adoption.         *)
StaleRecords ==
  server = "up" => \A s \in Recorded(doc) :
    doc.record[s].status = "running" =>
      term[s] # None /\ term[s].status \in {"running", "late", "lost"}

(* A shell that runs without a panel is given one, or ends: what its        *)
(* creator, a refused close or a crash left behind is always found.         *)
RunningIsShown ==
  \A s \in Session :
    (shell[s] \in Alive /\ ~ Shown(doc, s))
      ~> (shell[s] \notin Alive \/ Shown(doc, s))

(* The terminal-workspace specification: a terminal still running after its *)
(* project was closed is ended and no panel is created for it.              *)
NoPanelAfterClose ==
  [][\A s \in Session :
       (creating[s] # None /\ creating[s].project \notin doc.projects)
         => ~ Shown(doc', s)]_vars
=============================================================================
