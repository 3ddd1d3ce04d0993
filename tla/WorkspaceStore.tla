--------------------------- MODULE WorkspaceStore ---------------------------
(***************************************************************************)
(* WorkspaceStore of packages/server-core/src/workspace.ts: one command at *)
(* a time is reduced on a draft of the committed document, the draft is    *)
(* validated as a whole, and it replaces the document or is thrown away    *)
(* with a conflict.  Every command a client or the host can send is an     *)
(* action; one the reducer itself throws on changes nothing and is left    *)
(* out.  The whole-document validation is a second line of defence behind  *)
(* the reducer's own checks: `dropped` remembers the command whose draft   *)
(* it refused, until the conflict is answered.  Four commands also leave   *)
(* fields of their own to the validation that the document leaves out:     *)
(* these come well formed or not.                                          *)
(***************************************************************************)
EXTENDS WorkspaceDocument

CONSTANTS FirstView,       \* the view of a new workspace
          MaxObjects,      \* bound: views, folders and panels
          Endings          \* how a session ends: "exited", "interrupted"

VARIABLES doc,             \* current
          dropped          \* the refused command, and if its fields were well formed, or None

vars == <<doc, dropped>>

ASSUME StoreAssumption ==
  /\ FirstView \in View /\ Endings \subseteq {"exited", "interrupted"}
  /\ None \notin [type : STRING, wellFormed : BOOLEAN]   \* no command

Init == doc = InitialWorkspace(FirstView) /\ dropped = None

(* The instance is bounded: a command that makes n objects needs room.  A
   project and its General folder count once; a second view takes the room
   of two, since it bears on no folder and no panel. *)
Room(n) ==
  2 * Cardinality(DOMAIN doc.views) + Cardinality(DOMAIN doc.folders)
    + Cardinality(DOMAIN doc.panels) + n <= MaxObjects

(* apply(): validate the draft, then install it or refuse the command.
   A committed document is well formed, so only the fields the command
   brings with it can be malformed. *)
ApplyWith(type, draft, wellFormed) ==
  /\ dropped = None
  /\ IF wellFormed /\ Valid(draft) THEN doc' = draft /\ UNCHANGED dropped
     ELSE UNCHANGED doc /\ dropped' = [type |-> type, wellFormed |-> wellFormed]

(* A command the reducer throws on when one of its fields is malformed. *)
Apply(type, draft) == ApplyWith(type, draft, TRUE)

(* apply() is synchronous: the conflict is answered before any other command. *)
Answer == dropped # None /\ dropped' = None /\ UNCHANGED doc

Projects == DOMAIN doc.projects \ {AutomationSpace}
Unissued == Folder \ DOMAIN doc.folders
Orders(s) == {t \in [1 .. Len(s) -> ToSet(s)] : IsInjective(t)}

-----------------------------------------------------------------------------
(* Views *)
CreateView == Room(2) /\ \E v \in View \ DOMAIN doc.views :
  Apply("view.create", ViewCreate(doc, v))

CloseView == \E v \in DOMAIN doc.views :
  ViewCloseAllowed(doc, v) /\ Apply("view.close", ViewClose(doc, v))

(* Projects *)
(* rootOrigin is left to the validation. *)
CreateProject == Room(1) /\
  \E pr \in Project \ DOMAIN doc.projects, v \in DOMAIN doc.views,
     f \in Unissued, awaiting, wellFormed \in BOOLEAN :
       ApplyWith("project.create", ProjectCreate(doc, pr, v, f, awaiting), wellFormed)

MakeAutomationSpace ==
  /\ Room(1) /\ AutomationSpace \notin DOMAIN doc.projects
  /\ \E f \in Unissued : Apply("system", EnsureAutomationSpace(doc, f))

UpdateRoot == \E pr \in Projects :
  Apply("project.root.update", ProjectRootUpdate(doc, pr))

StartProject == \E pr \in Projects :
  ProjectStartAllowed(doc, pr) /\ Apply("project.start", ProjectStart(doc, pr))

ActivateProject == \E pr \in Projects :
  Apply("project.activate", ProjectActivate(doc, pr))

MoveProject == \E pr \in Projects, v \in DOMAIN doc.views :
  \E i \in Positions(Removing(doc.views[v].projectIds, pr)) :
    Apply("project.move", ProjectMove(doc, pr, v, i))

CloseProject == \E pr \in Projects :
  Apply("project.close", ProjectClose(doc, pr))

(* Folders *)
CreateFolder == Room(1) /\
  \E pr \in Projects, f \in Unissued, link \in Link \cup {None},
     p \in DOMAIN doc.panels \cup {None} :
       /\ FolderCreateAllowed(doc, pr, link, p)
       /\ Apply("folder.create", FolderCreate(doc, pr, f, link, p))

ReorderFolders == \E pr \in DOMAIN doc.projects :
  \E ids \in Orders(doc.projects[pr].folderIds) :
    /\ FolderReorderAllowed(doc, pr, ids)
    /\ Apply("folder.reorder", FolderReorder(doc, pr, ids))

DeleteFolder == \E f \in DOMAIN doc.folders :
  FolderDeleteAllowed(doc, f) /\ Apply("folder.delete", FolderDelete(doc, f))

UpdateLink == \E f \in DOMAIN doc.folders, link \in Link :
  /\ doc.folders[f].kind = "linked"
  /\ Apply("folder.link.update", FolderLinkUpdate(doc, f, link))

SetOffer == \E f \in DOMAIN doc.folders, p \in DOMAIN doc.panels :
  /\ FolderOfferSetAllowed(doc, f, p)
  /\ Apply("folder.offer.set", FolderOfferSet(doc, f, p))

AcceptOffer == \E f \in DOMAIN doc.folders :
  /\ doc.folders[f].offer # None
  /\ Apply("folder.offer.accept", FolderOfferAccept(doc, f))

DeclineOffer == \E f \in DOMAIN doc.folders :
  /\ doc.folders[f].offer # None
  /\ Apply("folder.offer.decline", FolderOfferDecline(doc, f))

(* Panels.  The note and the metadata revision are left to the validation. *)
CreatePanel == Room(1) /\
  \E p \in Panel \ DOMAIN doc.panels, f \in DOMAIN doc.folders,
     s \in Session \cup {None}, wellFormed \in BOOLEAN :
       LET pr == doc.folders[f].project
       IN /\ PanelCreateAllowed(doc, pr, f, s)
          /\ s = None => wellFormed
          /\ ApplyWith("panel.create", PanelCreate(doc, p, pr, f, s), wellFormed)

MoveToFolder == \E p \in DOMAIN doc.panels, f \in DOMAIN doc.folders :
  /\ PanelMoveToFolderAllowed(doc, p, f)
  /\ \E i \in Positions(Removing(doc.folders[f].panelIds, p)) :
       Apply("panel.moveToFolder", MovePanelToFolder(doc, p, f, i))

(* The metadata revision counts past the safe integers, once it was given
   as the last of them. *)
UpdatePanel == \E p \in DOMAIN doc.panels, s \in Session, wellFormed \in BOOLEAN :
  /\ doc.panels[p].session # None
  /\ ApplyWith("panel.update", PanelUpdate(doc, p, s), wellFormed)

ReorderPanels == \E f \in DOMAIN doc.folders :
  \E ids \in Orders(doc.folders[f].panelIds) :
    /\ PanelReorderAllowed(doc, f, ids)
    /\ Apply("panel.reorder", PanelReorder(doc, f, ids))

(* The direction and the weight are left to the validation. *)
SplitPanel == \E p \in DOMAIN doc.panels, wellFormed \in BOOLEAN :
  ApplyWith("panel.split", PanelSplit(doc, p), wellFormed)

ActivatePanel == \E p \in DOMAIN doc.panels :
  Apply("panel.activate", PanelActivate(doc, p))

MovePanel == \E p \in DOMAIN doc.panels, pr \in DOMAIN doc.projects :
  /\ PanelMoveAllowed(doc, p, pr)
  /\ LET list == IF pr = doc.panels[p].project
                 THEN Removing(doc.folders[doc.panels[p].folder].panelIds, p)
                 ELSE doc.folders[GeneralFolder(doc, pr)].panelIds
     IN \E i \in Positions(list) : Apply("panel.move", PanelMove(doc, p, pr, i))

ClosePanel == \E p \in DOMAIN doc.panels :
  Apply("panel.close", PanelClose(doc, p))

(* Terminals *)
CreateTerminal == \E s \in Session \ DOMAIN doc.sessions, pr \in DOMAIN doc.projects :
  /\ TerminalCreateAllowed(doc, pr)
  /\ Apply("terminal.create", TerminalCreate(doc, s, pr))

CreateTerminalPanel == Room(1) /\
  \E s \in Session \ DOMAIN doc.sessions, p \in Panel \ DOMAIN doc.panels,
     f \in DOMAIN doc.folders :
       LET pr == doc.folders[f].project
       IN /\ TerminalCreateAllowed(doc, pr)
          /\ Apply("terminal.createPanel", TerminalCreatePanel(doc, s, pr, p, f))

MarkTerminal ==
  \E s \in DOMAIN doc.sessions, status \in Endings :
    Apply("terminal.mark", TerminalMark(doc, s, status))

(* A server without a session holder starts again. *)
Restart == Apply("system", DiscardStaleTerminalState(doc))

Next ==
  \/ CreateView \/ CloseView
  \/ CreateProject \/ MakeAutomationSpace \/ UpdateRoot \/ StartProject
  \/ ActivateProject \/ MoveProject \/ CloseProject
  \/ CreateFolder \/ ReorderFolders \/ DeleteFolder \/ UpdateLink
  \/ SetOffer \/ AcceptOffer \/ DeclineOffer
  \/ CreatePanel \/ MoveToFolder \/ UpdatePanel \/ ReorderPanels
  \/ SplitPanel \/ ActivatePanel \/ MovePanel \/ ClosePanel
  \/ CreateTerminal \/ CreateTerminalPanel \/ MarkTerminal \/ Restart
  \/ Answer

Spec == Init /\ [][Next]_vars

-----------------------------------------------------------------------------
(* A project is listed by the view it belongs to, once, and by no other: a *)
(* move or a view's close never loses it from every window.  The server's  *)
(* validation looks only the other way, from the lists to the projects.    *)
ProjectsListedOnce ==
  \A pr \in Projects, v \in DOMAIN doc.views :
    Cardinality({i \in DOMAIN doc.views[v].projectIds :
                   doc.views[v].projectIds[i] = pr})
      = IF v = doc.projects[pr].view THEN 1 ELSE 0

(* What a project derives is what its folders say now, whichever command   *)
(* came last: its panel list, its layout, and an active panel that is the  *)
(* active one of its own folder and exists as soon as any panel does.      *)
DerivedCurrent ==
  \A pr \in DOMAIN doc.projects :
    LET project == doc.projects[pr]
    IN /\ project.panelIds = DerivedPanels(doc, pr)
       /\ project.layout = DerivedLayout(doc, pr, project.active)
       /\ project.active = None <=> project.panelIds = <<>>
       /\ project.active # None =>
            doc.folders[doc.panels[project.active].folder].active = project.active

(* A layout shows every panel of its folder, once: none is unreachable. *)
LayoutsShowAll ==
  \A f \in DOMAIN doc.folders :
    LET shown == doc.folders[f].layout.first \o doc.folders[f].layout.rest
    IN IsInjective(shown) /\ ToSet(shown) = ToSet(doc.folders[f].panelIds)

(* Of a command whose own fields are well formed the reducer leaves only   *)
(* three mistakes to the validation behind it: a second folder for one     *)
(* worktree, a panel pointed at a session of another project, and a panel  *)
(* closed or moved while another shows its session.                        *)
SharedSession ==
  \E p, q \in DOMAIN doc.panels :
    p # q /\ doc.panels[p].session # None
          /\ doc.panels[p].session = doc.panels[q].session

OnlyKnownDrops ==
  dropped # None /\ dropped.wellFormed =>
    \/ dropped.type \in {"folder.create", "folder.link.update", "panel.update"}
    \/ dropped.type \in {"panel.close", "panel.move"} /\ SharedSession
=============================================================================
