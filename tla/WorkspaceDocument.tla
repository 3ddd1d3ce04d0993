------------------------- MODULE WorkspaceDocument -------------------------
(***************************************************************************)
(* The canonical workspace of one server and the commands that rewrite it, *)
(* from packages/server-core/src/workspace.ts: views hold projects in an   *)
(* order, projects hold folders, folders hold panels, and a terminal panel *)
(* shows a session of its project.  Half of the document is derived from   *)
(* the other half (a project's panel list, its active panel, its layout)   *)
(* and is rewritten by the reducer at the end of the commands that disturb *)
(* it, never by one function of the whole document.                        *)
(*                                                                         *)
(* A document is a record; a command is an operator from a document to the *)
(* draft it makes of it, beside an operator that says when the reducer     *)
(* does not throw.  Names, titles, colours, sidebars, notes, directions,   *)
(* weights and roots are left out: no property tells them apart.  Of a     *)
(* project's root only `awaiting` is left, whether it is still to start.   *)
(***************************************************************************)
EXTENDS Integers, FiniteSets, SequencesExt

CONSTANTS View, Project, Folder, Panel, Session,
          Link,                \* worktrees a linked folder can stand for
          AutomationSpace,     \* AUTOMATION_SPACE_PROJECT_ID
          AutomationLimit,     \* AUTOMATION_SPACE_TERMINAL_LIMIT
          None

ASSUME DocumentAssumption ==
  /\ AutomationSpace \notin Project
  /\ AutomationLimit \in Nat
  /\ None \notin View \cup Project \cup Folder \cup Panel \cup Session
                   \cup Link

(***************************************************************************)
(* Records by id.                                                          *)
(***************************************************************************)
With(f, x, v) == [y \in DOMAIN f \cup {x} |-> IF y = x THEN v ELSE f[y]]
Without(f, X) == [y \in DOMAIN f \ X |-> f[y]]

(* filter(): the elements of a list that are in S, in their order. *)
Filtered(s, S) ==
  LET kept[i \in 0 .. Len(s)] ==
        IF i = 0 THEN <<>>
        ELSE IF s[i] \in S THEN Append(kept[i - 1], s[i]) ELSE kept[i - 1]
  IN kept[Len(s)]

Removing(s, x) == Filtered(s, ToSet(s) \ {x})

(* A list with x put at a position, counted from 0 as splice() does. *)
Spliced(s, i, x) == InsertAt(s, i + 1, x)

(***************************************************************************)
(* Layouts: one stack, or one panel split off a stack of the others.       *)
(***************************************************************************)
Stack(ids, active) ==
  [kind |-> "stack", first |-> ids, rest |-> <<>>, active |-> active]

Split(p, others) ==
  [kind |-> "split", first |-> <<p>>, rest |-> others, active |-> p]

ValidLayout(layout, ids) ==
  /\ IsInjective(layout.first) /\ ToSet(layout.first) \subseteq ids
  /\ IsInjective(layout.rest) /\ ToSet(layout.rest) \subseteq ids
  /\ layout.active \in ToSet(layout.first) \cup {None}

(***************************************************************************)
(* What a project derives from its folders.                                *)
(***************************************************************************)
FoldersOf(d, pr) ==
  [i \in DOMAIN d.projects[pr].folderIds |->
     d.folders[d.projects[pr].folderIds[i]]]

DerivedPanels(d, pr) ==
  FlattenSeq([i \in DOMAIN FoldersOf(d, pr) |-> FoldersOf(d, pr)[i].panelIds])

DerivedLayout(d, pr, active) ==
  LET occupied == Filtered(d.projects[pr].folderIds,
                           {f \in DOMAIN d.folders : d.folders[f].panelIds # <<>>})
  IN IF Len(occupied) = 1 THEN d.folders[occupied[1]].layout
     ELSE Stack(DerivedPanels(d, pr), active)

DerivedActive(d, pr, asked) ==
  LET wanted == IF asked = None THEN d.projects[pr].active ELSE asked
      candidates == Filtered(d.projects[pr].folderIds,
                             {f \in DOMAIN d.folders : d.folders[f].active # None})
  IN IF wanted \in ToSet(DerivedPanels(d, pr)) THEN wanted
     ELSE IF candidates = <<>> THEN None ELSE d.folders[candidates[1]].active

SyncProject(d, pr, asked) ==
  LET active == DerivedActive(d, pr, asked)
  IN [d EXCEPT !.projects[pr].panelIds = DerivedPanels(d, pr),
               !.projects[pr].active = active,
               !.projects[pr].layout = DerivedLayout(d, pr, active)]

(***************************************************************************)
(* The helpers the commands share.                                         *)
(***************************************************************************)
NewFolder(pr, kind, link, creator) ==
  [project |-> pr, kind |-> kind, worktree |-> link, panelIds |-> <<>>,
   active |-> None, layout |-> Stack(<<>>, None),
   creator |-> creator, offer |-> None]

(* Mutant: a folder that is split stays split as it was. *)
WithFolderPanelsKeepingSplit(folder, ids, wanted) ==
  LET active == IF wanted \in ToSet(ids) THEN wanted
                ELSE IF ids = <<>> THEN None ELSE ids[1]
  IN [folder EXCEPT !.panelIds = ids, !.active = active,
        !.layout = IF @.kind = "split" THEN @ ELSE Stack(ids, active)]

WithFolderPanels(folder, ids, wanted) ==
  LET active == IF wanted \in ToSet(ids) THEN wanted
                ELSE IF ids = <<>> THEN None ELSE ids[1]
  IN [folder EXCEPT !.panelIds = ids, !.active = active,
                    !.layout = Stack(ids, active)]

RemoveFromFolder(d, f, p) ==
  [d EXCEPT !.folders[f] = WithFolderPanels(@, Removing(@.panelIds, p), @.active)]

(* A folder of the panel's own project; the target's offer of this panel
   is answered by the move. *)
MovePanelToFolder(d, p, f, i) ==
  LET panel == d.panels[p]
      left == IF f = panel.folder THEN d ELSE RemoveFromFolder(d, panel.folder, p)
      others == Removing(left.folders[f].panelIds, p)
      target == [left.folders[f] EXCEPT !.offer = IF @ = p THEN None ELSE @]
      moved == [left EXCEPT
                  !.folders[f] = WithFolderPanels(target, Spliced(others, i, p), p),
                  !.panels[p].folder = f]
  IN SyncProject(moved, panel.project, p)

ForgetPanelReferences(d, pr, p) ==
  [d EXCEPT !.folders = [f \in DOMAIN d.folders |->
     IF f \in ToSet(d.projects[pr].folderIds)
     THEN [d.folders[f] EXCEPT !.creator = IF @ = p THEN None ELSE @,
                               !.offer = IF @ = p THEN None ELSE @]
     ELSE d.folders[f]]]

GeneralFolder(d, pr) ==
  CHOOSE f \in ToSet(d.projects[pr].folderIds) : d.folders[f].kind = "general"

WithActiveProject(view, ids, active) ==
  [view EXCEPT !.projectIds = ids, !.activeProject = active]

Positions(s) == 0 .. Len(s)

(***************************************************************************)
(* validateWorkspace: what every committed document must satisfy.          *)
(***************************************************************************)
ViewsValid(d) ==
  /\ IsInjective(d.viewOrder) /\ ToSet(d.viewOrder) \subseteq DOMAIN d.views
  /\ \A v \in DOMAIN d.views :
       /\ \A pr \in ToSet(d.views[v].projectIds) :
            pr \in DOMAIN d.projects /\ d.projects[pr].view = v
       /\ d.views[v].activeProject \in ToSet(d.views[v].projectIds) \cup {None}

(* The links of a project are told apart; its panel list is its folders'. *)
ProjectFoldersValid(d, pr) ==
  LET listed == d.projects[pr].folderIds
      linked == {f \in ToSet(listed) : d.folders[f].worktree # None}
  IN /\ IsInjective(listed) /\ ToSet(listed) \subseteq DOMAIN d.folders
     /\ \A f \in ToSet(listed) : d.folders[f].project = pr
     /\ \E g \in ToSet(listed) :
          {g} = {f \in ToSet(listed) : d.folders[f].kind = "general"}
     /\ d.projects[pr].panelIds = DerivedPanels(d, pr)
     /\ \A f, g \in linked :
          d.folders[f].worktree = d.folders[g].worktree => f = g

ProjectValid(d, pr) ==
  LET project == d.projects[pr]
  IN /\ project.view \in DOMAIN d.views
     /\ project.awaiting => pr # AutomationSpace
     /\ \A p \in ToSet(project.panelIds) :
          p \in DOMAIN d.panels /\ d.panels[p].project = pr
     /\ project.active \in ToSet(project.panelIds) \cup {None}
     /\ ValidLayout(project.layout, ToSet(project.panelIds))
     /\ ProjectFoldersValid(d, pr)

FolderValid(d, f) ==
  LET folder == d.folders[f]
  IN /\ folder.project \in DOMAIN d.projects
     /\ f \in ToSet(d.projects[folder.project].folderIds)
     /\ folder.kind = "linked" <=> folder.worktree # None
     /\ IsInjective(folder.panelIds)
     /\ \A p \in ToSet(folder.panelIds) :
          p \in DOMAIN d.panels /\ d.panels[p].folder = f
     /\ folder.active \in ToSet(folder.panelIds) \cup {None}
     /\ ValidLayout(folder.layout, ToSet(folder.panelIds))
     /\ folder.creator # None =>
          /\ folder.creator \in DOMAIN d.panels
          /\ d.panels[folder.creator].project = folder.project
     /\ folder.offer # None =>
          /\ folder.offer \in DOMAIN d.panels
          /\ d.panels[folder.offer].project = folder.project
          /\ d.panels[folder.offer].folder # f

PanelValid(d, p) ==
  LET panel == d.panels[p]
  IN /\ panel.project \in DOMAIN d.projects
     /\ panel.folder \in DOMAIN d.folders
     /\ d.folders[panel.folder].project = panel.project
     /\ p \in ToSet(d.folders[panel.folder].panelIds)
     /\ panel.session # None =>
          /\ panel.session \in DOMAIN d.sessions
          /\ d.sessions[panel.session].project = panel.project

SessionValid(d, s) ==
  /\ d.sessions[s].project \in DOMAIN d.projects
  /\ ~ d.projects[d.sessions[s].project].awaiting

Valid(d) ==
  /\ ViewsValid(d)
  /\ AutomationSpace \in DOMAIN d.projects =>
       \A v \in DOMAIN d.views : AutomationSpace \notin ToSet(d.views[v].projectIds)
  /\ \A pr \in DOMAIN d.projects : ProjectValid(d, pr)
  /\ \A f \in DOMAIN d.folders : FolderValid(d, f)
  /\ \A p \in DOMAIN d.panels : PanelValid(d, p)
  /\ \A s \in DOMAIN d.sessions : SessionValid(d, s)

(***************************************************************************)
(* Views and projects.                                                     *)
(***************************************************************************)
InitialWorkspace(v) ==
  [viewOrder |-> <<v>>,
   views |-> [x \in {v} |-> [projectIds |-> <<>>, activeProject |-> None]],
   projects |-> <<>>, folders |-> <<>>, panels |-> <<>>, sessions |-> <<>>]

ViewCreate(d, v) ==
  [d EXCEPT !.viewOrder = Append(@, v),
            !.views = With(@, v, [projectIds |-> <<>>, activeProject |-> None])]

ViewCloseAllowed(d, v) ==
  d.views[v].projectIds = <<>> /\ Len(d.viewOrder) > 1

(* An empty view may still be the automation space's home. *)
ViewClose(d, v) ==
  LET order == Removing(d.viewOrder, v)
  IN [d EXCEPT !.viewOrder = order, !.views = Without(@, {v}),
               !.projects = [pr \in DOMAIN @ |->
                  IF @[pr].view = v THEN [@[pr] EXCEPT !.view = order[1]]
                  ELSE @[pr]]]

NewProject(v, f, awaiting) ==
  [view |-> v, awaiting |-> awaiting, folderIds |-> <<f>>,
   panelIds |-> <<>>, active |-> None, layout |-> Stack(<<>>, None)]

(* The server issues the General folder's id, f. *)
ProjectCreate(d, pr, v, f, awaiting) ==
  [d EXCEPT !.folders = With(@, f, NewFolder(pr, "general", None, None)),
            !.projects = With(@, pr, NewProject(v, f, awaiting)),
            !.views[v] = WithActiveProject(@, Append(@.projectIds, pr), pr)]

(* Not a command: only the server creates its automation space, unlisted. *)
EnsureAutomationSpace(d, f) ==
  [d EXCEPT !.folders = With(@, f, NewFolder(AutomationSpace, "general", None, None)),
            !.projects = With(@, AutomationSpace,
                              NewProject(d.viewOrder[1], f, FALSE))]

(* project.root.update, and a project.update that gives another root. *)
ProjectRootUpdate(d, pr) == [d EXCEPT !.projects[pr].awaiting = FALSE]

(* A project starts once. *)
ProjectStartAllowed(d, pr) == d.projects[pr].awaiting
ProjectStart(d, pr) == [d EXCEPT !.projects[pr].awaiting = FALSE]

ProjectActivate(d, pr) ==
  [d EXCEPT !.views[d.projects[pr].view].activeProject = pr]

(* Mutant: the target list is not cleared of the project first. *)
ProjectMoveUnfiltered(d, pr, v, i) ==
  LET from == d.views[d.projects[pr].view]
      to == d.views[v]
      left == Removing(from.projectIds, pr)
      next == IF from.activeProject # pr THEN from.activeProject
              ELSE IF left = <<>> THEN None ELSE left[1]
  IN [d EXCEPT
        !.views[d.projects[pr].view] = WithActiveProject(@, left, next),
        !.views[v] = WithActiveProject(to, Spliced(to.projectIds, i, pr), pr),
        !.projects[pr].view = v]

ProjectMove(d, pr, v, i) ==
  LET from == d.views[d.projects[pr].view]
      to == d.views[v]
      left == Removing(from.projectIds, pr)
      next == IF from.activeProject # pr THEN from.activeProject
              ELSE IF left = <<>> THEN None ELSE left[1]
  IN [d EXCEPT
        !.views[d.projects[pr].view] = WithActiveProject(@, left, next),
        !.views[v] = WithActiveProject(to, Spliced(Removing(to.projectIds, pr), i, pr), pr),
        !.projects[pr].view = v]

ProjectClose(d, pr) ==
  LET project == d.projects[pr]
      view == d.views[project.view]
      left == Removing(view.projectIds, pr)
      next == IF view.activeProject # pr THEN view.activeProject
              ELSE IF left = <<>> THEN None ELSE left[1]
  IN [d EXCEPT
        !.panels = Without(@, ToSet(project.panelIds)),
        !.folders = Without(@, ToSet(project.folderIds)),
        !.sessions = Without(@, {s \in DOMAIN @ : @[s].project = pr}),
        !.projects = Without(@, {pr}),
        !.views[project.view] = WithActiveProject(@, left, next)]

(***************************************************************************)
(* Folders.                                                                *)
(***************************************************************************)
FolderCreateAllowed(d, pr, link, creator) ==
  /\ pr # AutomationSpace
  /\ creator # None => link # None /\ d.panels[creator].project = pr

FolderCreate(d, pr, f, link, creator) ==
  LET kind == IF link = None THEN "plain" ELSE "linked"
  IN [d EXCEPT !.folders = With(@, f, NewFolder(pr, kind, link, creator)),
               !.projects[pr].folderIds = Append(@, f)]

FolderReorderAllowed(d, pr, ids) ==
  /\ Len(ids) = Len(d.projects[pr].folderIds)
  /\ IsInjective(ids) /\ ToSet(ids) \subseteq ToSet(d.projects[pr].folderIds)

FolderReorder(d, pr, ids) ==
  SyncProject([d EXCEPT !.projects[pr].folderIds = ids], pr, None)

FolderDeleteAllowed(d, f) ==
  d.folders[f].kind # "general" /\ d.folders[f].panelIds = <<>>

FolderDelete(d, f) ==
  [d EXCEPT !.folders = Without(@, {f}),
            !.projects[d.folders[f].project].folderIds = Removing(@, f)]

FolderLinkUpdate(d, f, link) == [d EXCEPT !.folders[f].worktree = link]

FolderOfferSetAllowed(d, f, p) ==
  d.panels[p].project = d.folders[f].project /\ d.panels[p].folder # f

FolderOfferSet(d, f, p) == [d EXCEPT !.folders[f].offer = p]

FolderOfferAccept(d, f) ==
  LET p == d.folders[f].offer
      others == Removing(d.folders[f].panelIds, p)
  IN MovePanelToFolder(d, p, f, Len(others))

FolderOfferDecline(d, f) == [d EXCEPT !.folders[f].offer = None]

(***************************************************************************)
(* Panels.                                                                 *)
(***************************************************************************)
NewPanelPlaced(d, p, pr, f, s) ==
  LET placed == [d EXCEPT
        !.panels = With(@, p, [project |-> pr, folder |-> f, session |-> s]),
        !.folders[f] = WithFolderPanels(@, Append(@.panelIds, p), p)]
  IN SyncProject(placed, pr, p)

(* A terminal panel names a session of its project, shown already or not. *)
PanelCreateAllowed(d, pr, f, s) ==
  /\ ~ d.projects[pr].awaiting
  /\ s # None => s \in DOMAIN d.sessions /\ d.sessions[s].project = pr
  /\ d.folders[f].project = pr

PanelCreate(d, p, pr, f, s) == NewPanelPlaced(d, p, pr, f, s)

PanelMoveToFolderAllowed(d, p, f) == d.folders[f].project = d.panels[p].project

(* Every field but the identity and the place of a panel may be patched,
   the session a terminal panel shows among them. *)
PanelUpdate(d, p, s) == [d EXCEPT !.panels[p].session = s]

PanelReorderAllowed(d, f, ids) ==
  /\ Len(ids) = Len(d.folders[f].panelIds)
  /\ IsInjective(ids) /\ ToSet(ids) \subseteq ToSet(d.folders[f].panelIds)

PanelReorder(d, f, ids) ==
  SyncProject([d EXCEPT !.folders[f] = WithFolderPanels(@, ids, @.active)],
              d.folders[f].project, None)

PanelSplit(d, p) ==
  LET f == d.panels[p].folder
  IN SyncProject([d EXCEPT !.folders[f].layout =
                    Split(p, Removing(d.folders[f].panelIds, p))],
                 d.panels[p].project, None)

(* Mutant: the project is not told which panel became active. *)
PanelActivateInFolder(d, p) ==
  LET f == d.panels[p].folder
  IN SyncProject([d EXCEPT !.folders[f].active = p,
                    !.folders[f].layout = IF @.kind = "stack"
                                          THEN Stack(d.folders[f].panelIds, p) ELSE @],
                 d.panels[p].project, None)

PanelActivate(d, p) ==
  LET f == d.panels[p].folder
  IN SyncProject([d EXCEPT !.folders[f].active = p,
                    !.folders[f].layout = IF @.kind = "stack"
                                          THEN Stack(d.folders[f].panelIds, p) ELSE @],
                 d.panels[p].project, p)

PanelMoveAllowed(d, p, pr) ==
  /\ AutomationSpace \notin {pr, d.panels[p].project}
  /\ ~ d.projects[pr].awaiting

(* To General of another project; the session's record goes along. *)
PanelMove(d, p, pr, i) ==
  LET panel == d.panels[p]
      g == GeneralFolder(d, pr)
      left == RemoveFromFolder(ForgetPanelReferences(d, panel.project, p),
                               panel.folder, p)
      put == [left EXCEPT
               !.folders[g] = WithFolderPanels(@, Spliced(@.panelIds, i, p), p),
               !.panels[p].project = pr, !.panels[p].folder = g,
               !.sessions = IF panel.session = None THEN @
                            ELSE [@ EXCEPT ![panel.session].project = pr]]
  IN IF pr = panel.project
     THEN MovePanelToFolder(d, p, panel.folder, i)
     ELSE SyncProject(SyncProject(put, panel.project, None), pr, p)

(* Mutant: folders keep what they say of the closed panel. *)
PanelCloseKeepingReferences(d, p) ==
  LET panel == d.panels[p]
      gone == [d EXCEPT !.panels = Without(@, {p}),
                        !.sessions = Without(@, {panel.session})]
      left == RemoveFromFolder(gone, panel.folder, p)
      asked == IF d.projects[panel.project].active = p
               THEN left.folders[panel.folder].active ELSE None
  IN SyncProject(left, panel.project, asked)

(* Closing the active panel hands focus to its folder's next panel. *)
PanelClose(d, p) ==
  LET panel == d.panels[p]
      gone == [d EXCEPT !.panels = Without(@, {p}),
                        !.sessions = Without(@, {panel.session})]
      left == RemoveFromFolder(ForgetPanelReferences(gone, panel.project, p),
                               panel.folder, p)
      asked == IF d.projects[panel.project].active = p
               THEN left.folders[panel.folder].active ELSE None
  IN SyncProject(left, panel.project, asked)

(***************************************************************************)
(* Terminal sessions.                                                      *)
(***************************************************************************)
LiveAutomationTerminals(d) ==
  {s \in DOMAIN d.sessions :
     d.sessions[s].project = AutomationSpace /\ d.sessions[s].status = "running"}

TerminalCreateAllowed(d, pr) ==
  /\ ~ d.projects[pr].awaiting
  /\ pr = AutomationSpace =>
       Cardinality(LiveAutomationTerminals(d)) < AutomationLimit

TerminalCreate(d, s, pr) ==
  [d EXCEPT !.sessions = With(@, s, [project |-> pr, status |-> "running"])]

TerminalCreatePanel(d, s, pr, p, f) ==
  NewPanelPlaced(TerminalCreate(d, s, pr), p, pr, f, s)

(* markInterrupted and markExited: only a running session changes. *)
TerminalMark(d, s, status) ==
  [d EXCEPT !.sessions[s].status = IF @ = "running" THEN status ELSE @]

(* A restart without a session holder: no terminal outlived its server. *)
DiscardStaleTerminalState(d) ==
  LET stale == {p \in DOMAIN d.panels : d.panels[p].session # None}
      hit == {pr \in DOMAIN d.projects :
                ToSet(d.projects[pr].panelIds) \cap stale # {}}
      Kept(folder) ==
        WithFolderPanels(
          [folder EXCEPT !.creator = IF @ \in stale THEN None ELSE @,
                         !.offer = IF @ \in stale THEN None ELSE @],
          Filtered(folder.panelIds, ToSet(folder.panelIds) \ stale), folder.active)
      cleared == [d EXCEPT
        !.panels = Without(@, stale),
        !.sessions = <<>>,
        !.folders = [f \in DOMAIN d.folders |->
                       IF d.folders[f].project \in hit THEN Kept(d.folders[f])
                       ELSE d.folders[f]]]
  IN [cleared EXCEPT !.projects = [pr \in DOMAIN d.projects |->
        IF pr \in hit THEN SyncProject(cleared, pr, None).projects[pr]
        ELSE d.projects[pr]]]
=============================================================================
