------------------------ MODULE TerminalPlaces_proofs ------------------------
(***************************************************************************)
(* Proofs about TerminalPlaces, for any sessions, projects and number of   *)
(* deaths.  The four invariants need each other and an account of what a   *)
(* session's id may be in use for: one not issued is known to nobody, one  *)
(* just asked for is neither supervised nor recorded, and while a restart  *)
(* adopts, what it has still to adopt stands for what it has adopted.      *)
(***************************************************************************)
EXTENDS TerminalPlaces, TLAPS

(* What the keeper, the closes and the exits remember is not needed.       *)
Documents == [projects : SUBSET Project,
              record : [Session -> Records \cup {None}],
              panels : [Session -> Nat]]

TypeOK ==
  /\ doc \in Documents
  /\ shell \in [Session -> {"none", "running", "signalled", "exited", "gone"}]
  /\ term \in [Session -> Terms \cup {None}]
  /\ creating \in [Session -> Creations \cup {None}]
  /\ server \in {"up", "down", "reattaching"}

(* Creators are answered by a server that is up, and held sessions adopted
   by one that is not. *)
Phases ==
  /\ server # "up" => \A s \in Session : creating[s] = None
  /\ server # "reattaching" => adopting = {}
  /\ adopting \subseteq Recorded(doc)

Asked(s) == creating[s] # None /\ creating[s].phase = "asked"

Fresh(s) ==
  shell[s] = "none" => doc.record[s] = None /\ term[s] = None /\ creating[s] = None
Unplaced(s) == Asked(s) => doc.record[s] = None /\ term[s] = None
Opening(s) == creating[s] # None /\ ~ Asked(s) => term[s] # None
OnePanel(s) ==
  doc.panels[s] = 0 \/ (doc.panels[s] = 1 /\ doc.record[s] # None)
Home(s) ==
  doc.record[s] # None /\ Supervised(term, s)
    => term[s].project = doc.record[s].project
Watched(s) ==
  server # "down" /\ shell[s] \in Alive
    => Supervised(term, s) \/ Asked(s) \/ s \in adopting
Marked(s) ==
  server # "down" /\ doc.record[s] # None /\ doc.record[s].status = "running"
    => \/ s \in adopting
       \/ term[s] # None /\ term[s].status \in {"running", "late", "lost"}

Account(s) == /\ Fresh(s) /\ Unplaced(s) /\ Opening(s) /\ OnePanel(s)
              /\ Home(s) /\ Watched(s) /\ Marked(s)

(* The inductive invariant: Account is what is kept of one session. *)
PlacesInv == TypeOK /\ Phases /\ \A s \in Session : Account(s)

-----------------------------------------------------------------------------
(* Each change of the document is one, and changes what it says it does. *)

LEMMA NewPanelsType ==
  ASSUME NEW d \in Documents, NEW S, NEW pr \in Project
  PROVE  /\ NewPanels(d, S, pr) \in Documents
         /\ NewPanels(d, S, pr).projects = d.projects
         /\ \A s \in Session :
              /\ NewPanels(d, S, pr).record[s] =
                   IF s \in S /\ d.record[s] = None
                   THEN [project |-> pr, status |-> "running"] ELSE d.record[s]
              /\ NewPanels(d, S, pr).panels[s] =
                   IF s \in S THEN d.panels[s] + 1 ELSE d.panels[s]
  <1> DEFINE fresh == [project |-> pr, status |-> "running"]
             n == NewPanels(d, S, pr)
             record == [s \in Session |->
               IF s \in S /\ d.record[s] = None THEN fresh ELSE d.record[s]]
             panels == [s \in Session |->
               IF s \in S THEN d.panels[s] + 1 ELSE d.panels[s]]
  <1>1. n = [d EXCEPT !.record = record, !.panels = panels]
    BY DEF NewPanels, Documents
  <1>2. fresh \in Records
    BY DEF Records
  <1>3. record \in [Session -> Records \cup {None}]
    BY <1>2 DEF Documents
  <1>4. panels \in [Session -> Nat]
    BY DEF Documents
  <1> HIDE DEF record, panels, n, fresh
  <1>5. n \in Documents /\ n.projects = d.projects
           /\ n.record = record /\ n.panels = panels
    BY <1>1, <1>3, <1>4 DEF Documents
  <1> QED BY <1>5 DEF record, panels, n, fresh

LEMMA OpenProjectType ==
  ASSUME NEW d \in Documents, NEW pr \in Project
  PROVE  /\ OpenProject(d, pr) \in Documents
         /\ OpenProject(d, pr).record = d.record
         /\ OpenProject(d, pr).panels = d.panels
  BY DEF OpenProject, Documents

LEMMA MarkExitedType ==
  ASSUME NEW d \in Documents, NEW S
  PROVE  /\ MarkExited(d, S) \in Documents
         /\ MarkExited(d, S).panels = d.panels
         /\ \A s \in Session :
              /\ MarkExited(d, S).record[s] = None <=> d.record[s] = None
              /\ s \notin S => MarkExited(d, S).record[s] = d.record[s]
              /\ d.record[s] # None =>
                   /\ MarkExited(d, S).record[s].project = d.record[s].project
                   /\ s \in S => MarkExited(d, S).record[s].status # "running"
  <1> DEFINE m == MarkExited(d, S)
             over(s) == s \in S /\ d.record[s] # None /\ d.record[s].status = "running"
             record == [s \in Session |->
               IF over(s) THEN [project |-> d.record[s].project, status |-> "exited"]
               ELSE d.record[s]]
  <1>1. \A s \in Session : d.record[s] \in Records \cup {None}
    BY DEF Documents
  <1>2. \A s \in Session : over(s) =>
          [d.record[s] EXCEPT !.status = "exited"] =
            [project |-> d.record[s].project, status |-> "exited"]
    BY <1>1 DEF Records
  <1>3. [s \in Session |-> IF over(s) THEN [d.record[s] EXCEPT !.status = "exited"]
                           ELSE d.record[s]] = record
    BY <1>2
  <1>4. m = [d EXCEPT !.record = record]
    BY <1>3 DEF MarkExited
  <1>5. record \in [Session -> Records \cup {None}]
    BY <1>1 DEF Records
  <1> HIDE DEF record, m
  <1>6. m \in Documents /\ m.record = record /\ m.panels = d.panels
    BY <1>4, <1>5 DEF Documents
  <1>7. \A s \in Session : over(s) => record[s] # None
    BY <1>1, PlacesAssumption DEF record, Records
  <1>8. \A s \in Session : d.record[s] # None =>
           record[s].project = d.record[s].project
    BY <1>1 DEF record, Records
  <1>9. \A s \in Session : s \in S /\ d.record[s] # None =>
           record[s].status # "running"
    BY <1>1 DEF record, Records
  <1>10. \A s \in Session : ~ over(s) => record[s] = d.record[s]
    BY DEF record
  <1> QED BY <1>6, <1>7, <1>8, <1>9, <1>10 DEF m

LEMMA WithoutSessionsType ==
  ASSUME NEW d \in Documents, NEW S
  PROVE  /\ WithoutSessions(d, S) \in Documents
         /\ \A s \in Session :
              /\ WithoutSessions(d, S).record[s] =
                   IF s \in S THEN None ELSE d.record[s]
              /\ WithoutSessions(d, S).panels[s] =
                   IF s \in S THEN 0 ELSE d.panels[s]
  BY DEF WithoutSessions, Documents

LEMMA WithoutProjectType ==
  ASSUME NEW d \in Documents, NEW pr
  PROVE  /\ WithoutProject(d, pr) \in Documents
         /\ \A s \in Session :
              /\ WithoutProject(d, pr).record[s] =
                   IF s \in RecordedIn(d, pr) THEN None ELSE d.record[s]
              /\ WithoutProject(d, pr).panels[s] =
                   IF s \in RecordedIn(d, pr) THEN 0 ELSE d.panels[s]
  <1> DEFINE w == WithoutSessions(d, RecordedIn(d, pr))
  <1>1. w \in Documents
    BY WithoutSessionsType
  <1>2. /\ WithoutProject(d, pr) \in Documents
        /\ WithoutProject(d, pr).record = w.record
        /\ WithoutProject(d, pr).panels = w.panels
    BY <1>1 DEF WithoutProject, Documents
  <1> QED BY <1>2, WithoutSessionsType

LEMMA MovedType ==
  ASSUME NEW d \in Documents, NEW x \in Session, NEW pr \in Project,
         d.record[x] # None
  PROVE  /\ Moved(d, x, pr) \in Documents
         /\ Moved(d, x, pr).panels = d.panels
         /\ Moved(d, x, pr).record[x] =
              [project |-> pr, status |-> d.record[x].status]
         /\ \A s \in Session \ {x} : Moved(d, x, pr).record[s] = d.record[s]
  <1>1. d.record[x] \in Records
    BY DEF Documents
  <1>2. [d.record[x] EXCEPT !.project = pr] =
          [project |-> pr, status |-> d.record[x].status]
    BY <1>1 DEF Records
  <1>3. Moved(d, x, pr) = [d EXCEPT !.record =
          [d.record EXCEPT ![x] = [project |-> pr, status |-> d.record[x].status]]]
    BY <1>2 DEF Moved, Documents
  <1>4. [project |-> pr, status |-> d.record[x].status] \in Records
    BY <1>1 DEF Records
  <1> QED BY <1>3, <1>4 DEF Documents

-----------------------------------------------------------------------------
(* A session none of whose accounts a step changes is still accounted for. *)
LEMMA Untouched ==
  ASSUME NEW x \in Session, Account(x),
         doc'.record[x] = doc.record[x], doc'.panels[x] = doc.panels[x],
         shell'[x] = shell[x], term'[x] = term[x], creating'[x] = creating[x],
         server' = server, x \in adopting' <=> x \in adopting
  PROVE  Account(x)'
  BY DEF Account, Fresh, Unplaced, Opening, OnePanel, Home, Watched, Marked,
         Asked, Supervised

(* A shell whose id is the next one is asked for.                          *)
LEMMA AskCreateStep ==
  ASSUME PlacesInv, NEW s \in Session, NEW by \in {"client", "tool"},
         NEW pr \in Project, AskCreate(s, by, pr)
  PROVE  PlacesInv'
  <1> DEFINE new == [project |-> pr, by |-> by, phase |-> "asked"]
  <1>1. /\ server = "up" /\ shell[s] = "none"
        /\ shell' = [shell EXCEPT ![s] = "running"]
        /\ creating' = [creating EXCEPT ![s] = new]
        /\ UNCHANGED <<doc, term, server, adopting>>
    BY DEF AskCreate, IsNextId, Unissued
  <1>2. new \in Creations /\ new # None
    BY PlacesAssumption DEF Creations
  <1>3. TypeOK'
    BY <1>1, <1>2 DEF PlacesInv, TypeOK
  <1>4. Phases'
    BY <1>1 DEF PlacesInv, Phases, Recorded
  <1>5. ASSUME NEW x \in Session PROVE Account(x)'
    <2>1. CASE x = s
      <3>1. shell'[s] = "running" /\ creating'[s] = new
        BY <1>1 DEF PlacesInv, TypeOK
      <3>2. doc.record[s] = None /\ term[s] = None /\ OnePanel(s)
        BY <1>1 DEF PlacesInv, Account, Fresh
      <3> QED
        BY <1>1, <1>2, <2>1, <3>1, <3>2
        DEF Account, Fresh, Unplaced, Opening, OnePanel, Home, Watched, Marked,
            Asked, Supervised
    <2>2. CASE x # s
      BY <1>1, <2>2, Untouched DEF PlacesInv, TypeOK
    <2> QED BY <2>1, <2>2
  <1> QED BY <1>3, <1>4, <1>5 DEF PlacesInv

(* What a creator knows when it is answered.                               *)
LEMMA AttachFacts ==
  ASSUME PlacesInv, NEW s \in Session, NEW early \in BOOLEAN, Attach(s, early)
  PROVE  /\ server = "up" /\ adopting = {}
         /\ creating[s] \in Creations /\ Asked(s)
         /\ doc.record[s] = None /\ doc.panels[s] = 0 /\ term[s] = None
         /\ shell[s] # "none"
         /\ shell' = shell /\ (early => shell[s] = "exited")
         /\ Attached(s, early) \in [Session -> Terms \cup {None}]
         /\ Attached(s, early)[s] =
              [project |-> creating[s].project,
               status |-> IF early THEN "ended" ELSE "running"]
         /\ \A x \in Session \ {s} : Attached(s, early)[x] = term[x]
  <1>1. server = "up" /\ creating[s] # None /\ creating[s].phase = "asked"
    BY DEF Attach
  <1>2. creating[s] \in Creations
    BY <1>1 DEF PlacesInv, TypeOK
  <1>3. adopting = {}
    BY <1>1 DEF PlacesInv, Phases
  <1>4. doc.record[s] = None /\ term[s] = None /\ doc.panels[s] = 0 /\ shell[s] # "none"
    BY <1>1 DEF PlacesInv, Account, Unplaced, Asked, OnePanel, Fresh
  <1>5. [project |-> creating[s].project,
         status |-> IF early THEN "ended" ELSE "running"] \in Terms
    BY <1>2 DEF Creations, Terms
  <1>6. /\ Attached(s, early) \in [Session -> Terms \cup {None}]
        /\ Attached(s, early)[s] =
              [project |-> creating[s].project,
               status |-> IF early THEN "ended" ELSE "running"]
        /\ \A x \in Session \ {s} : Attached(s, early)[x] = term[x]
    BY <1>5 DEF Attached, PlacesInv, TypeOK
  <1>7. shell' = shell /\ (early => shell[s] = "exited")
    BY DEF Attach
  <1> QED BY <1>1, <1>2, <1>3, <1>4, <1>6, <1>7 DEF Asked

(* What placing a terminal that has no record leaves of the accounts.      *)
LEMMA PlacedFacts ==
  ASSUME NEW d \in Documents, NEW t \in [Session -> Terms \cup {None}],
         NEW s \in Session, t[s] # None, d.record[s] = None, d.panels[s] = 0,
         Placed(d, t, s, t[s].project)
  PROVE  /\ doc' \in Documents /\ term' \in [Session -> Terms \cup {None}]
         /\ doc'.record[s] = [project |-> t[s].project, status |-> "running"]
         /\ doc'.panels[s] = 1
         /\ term'[s] = [project |-> t[s].project,
                        status |-> IF t[s].status = "running" THEN "running"
                                   ELSE "late"]
         /\ \A x \in Session \ {s} :
              /\ doc'.record[x] = d.record[x] /\ doc'.panels[x] = d.panels[x]
              /\ term'[x] = t[x]
  <1>1. t[s] \in Terms
    OBVIOUS
  <1>2. t[s].project \in Project
    BY <1>1 DEF Terms
  <1>3. doc' = NewPanels(d, {s}, t[s].project)
    BY DEF Placed, Commit, NewPanel
  <1>4. /\ doc' \in Documents
        /\ doc'.record[s] = [project |-> t[s].project, status |-> "running"]
        /\ doc'.panels[s] = 1
        /\ \A x \in Session \ {s} :
              doc'.record[x] = d.record[x] /\ doc'.panels[x] = d.panels[x]
    BY <1>2, <1>3, NewPanelsType
  <1> DEFINE status == IF t[s].status = "running" THEN "running" ELSE "late"
  <1>5. [t[s] EXCEPT !.status = status] = [project |-> t[s].project, status |-> status]
    BY <1>1 DEF Terms
  <1>6. term' = [t EXCEPT ![s] = [t[s] EXCEPT !.status = status]]
    BY DEF Placed, Commit
  <1>7. [project |-> t[s].project, status |-> status] \in Terms
    BY <1>2 DEF Terms
  <1> HIDE DEF status
  <1>8. /\ term' \in [Session -> Terms \cup {None}]
        /\ term'[s] = [project |-> t[s].project, status |-> status]
        /\ \A x \in Session \ {s} : term'[x] = t[x]
    BY <1>5, <1>6, <1>7
  <1> QED BY <1>4, <1>8 DEF status

LEMMA PlaceForClientStep ==
  ASSUME PlacesInv, NEW s \in Session, NEW early \in BOOLEAN,
         PlaceForClient(s, early)
  PROVE  PlacesInv'
  <1> DEFINE pr == creating[s].project
             t == Attached(s, early)
             d == OpenProject(doc, pr)
  <1>1. /\ Attach(s, early) /\ Placed(d, t, s, pr)
        /\ creating' = [creating EXCEPT ![s] = None]
        /\ server' = server /\ adopting' = adopting
    BY DEF PlaceForClient
  <1>2. /\ server = "up" /\ adopting = {} /\ pr \in Project
        /\ doc.record[s] = None /\ doc.panels[s] = 0 /\ shell[s] # "none"
        /\ shell' = shell /\ (early => shell[s] = "exited")
        /\ t \in [Session -> Terms \cup {None}]
        /\ t[s] = [project |-> pr, status |-> IF early THEN "ended" ELSE "running"]
        /\ \A x \in Session \ {s} : t[x] = term[x]
    BY <1>1, AttachFacts DEF Creations
  <1>3. t[s] # None /\ t[s].project = pr /\ t[s] \in Terms
    BY <1>2, PlacesAssumption DEF Terms
  <1>4. d \in Documents /\ d.record = doc.record /\ d.panels = doc.panels
    BY <1>2, OpenProjectType DEF PlacesInv, TypeOK
  <1> HIDE DEF t, d, pr
  <1>5. /\ doc' \in Documents /\ term' \in [Session -> Terms \cup {None}]
        /\ doc'.record[s] = [project |-> pr, status |-> "running"]
        /\ doc'.panels[s] = 1
        /\ term'[s] = [project |-> pr,
                       status |-> IF early THEN "late" ELSE "running"]
        /\ \A x \in Session \ {s} :
              /\ doc'.record[x] = doc.record[x] /\ doc'.panels[x] = doc.panels[x]
              /\ term'[x] = term[x]
    BY <1>1, <1>2, <1>3, <1>4, PlacedFacts
  <1>6. /\ creating'[s] = None /\ creating' \in [Session -> Creations \cup {None}]
        /\ \A x \in Session \ {s} : creating'[x] = creating[x]
    BY <1>1 DEF PlacesInv, TypeOK
  <1>7. TypeOK'
    BY <1>1, <1>2, <1>5, <1>6 DEF PlacesInv, TypeOK
  <1>8. Phases'
    BY <1>1, <1>2 DEF Phases
  <1>9. ASSUME NEW x \in Session PROVE Account(x)'
    <2>1. CASE x = s
      <3>1. term'[s] # None /\ doc'.record[s] # None
        BY <1>2, <1>5, PlacesAssumption DEF Terms, Records
      <3> QED
        BY <1>2, <1>5, <1>6, <2>1, <3>1
        DEF Account, Fresh, Unplaced, Opening, OnePanel, Home, Watched, Marked,
            Asked, Supervised, Alive
    <2>2. CASE x # s
      BY <1>1, <1>2, <1>5, <1>6, <2>2, Untouched DEF PlacesInv
    <2> QED BY <2>1, <2>2
  <1> QED BY <1>7, <1>8, <1>9 DEF PlacesInv

LEMMA AttachForToolStep ==
  ASSUME PlacesInv, NEW s \in Session, NEW early \in BOOLEAN,
         AttachForTool(s, early)
  PROVE  PlacesInv'
  <1> DEFINE pr == creating[s].project
  <1>1. /\ Attach(s, early) /\ term' = Attached(s, early)
        /\ creating' = [creating EXCEPT ![s].phase = "attached"]
        /\ UNCHANGED <<doc, server, adopting>>
    BY DEF AttachForTool
  <1>2. /\ server = "up" /\ adopting = {} /\ creating[s] \in Creations
        /\ doc.record[s] = None /\ doc.panels[s] = 0 /\ shell[s] # "none"
        /\ shell' = shell /\ (early => shell[s] = "exited")
        /\ term' \in [Session -> Terms \cup {None}]
        /\ term'[s] = [project |-> pr, status |-> IF early THEN "ended" ELSE "running"]
        /\ \A x \in Session \ {s} : term'[x] = term[x]
    BY <1>1, AttachFacts
  <1>3. [creating[s] EXCEPT !.phase = "attached"] =
          [project |-> pr, by |-> creating[s].by, phase |-> "attached"]
    BY <1>2 DEF Creations
  <1>4. [project |-> pr, by |-> creating[s].by, phase |-> "attached"] \in Creations
    BY <1>2 DEF Creations
  <1>5. /\ creating' \in [Session -> Creations \cup {None}]
        /\ creating'[s].phase = "attached"
        /\ \A x \in Session \ {s} : creating'[x] = creating[x]
    BY <1>1, <1>3, <1>4 DEF PlacesInv, TypeOK
  <1>6. TypeOK'
    BY <1>1, <1>2, <1>5 DEF PlacesInv, TypeOK
  <1>7. Phases'
    BY <1>1, <1>2 DEF Phases
  <1>8. ASSUME NEW x \in Session PROVE Account(x)'
    <2>1. CASE x = s
      <3>1. term'[s] # None
        BY <1>2, <1>6, PlacesAssumption DEF TypeOK, Terms, Creations
      <3> QED
        BY <1>1, <1>2, <1>5, <2>1, <3>1
        DEF Account, Fresh, Unplaced, Opening, OnePanel, Home, Watched, Marked,
            Asked, Supervised, Alive
    <2>2. CASE x # s
      BY <1>1, <1>2, <1>5, <2>2, Untouched DEF PlacesInv
    <2> QED BY <2>1, <2>2
  <1> QED BY <1>6, <1>7, <1>8 DEF PlacesInv

(* A shell that is signalled was running, and one that is not supervised   *)
(* is not signalled.                                                       *)
LEMMA SignalledFacts ==
  ASSUME PlacesInv, NEW S, shell' = Signalled(S)
  PROVE  /\ shell' \in [Session -> {"none", "running", "signalled", "exited", "gone"}]
         /\ \A x \in Session :
              /\ shell'[x] = "none" <=> shell[x] = "none"
              /\ shell'[x] \in Alive <=> shell[x] \in Alive
  BY DEF Signalled, Alive, PlacesInv, TypeOK

(* Where only signals are sent and what the keeper remembers changes.      *)
LEMMA SignalStep ==
  ASSUME PlacesInv, NEW S, shell' = Signalled(S),
         UNCHANGED <<doc, term, creating, server, adopting>>
  PROVE  PlacesInv'
  <1>1. TypeOK'
    BY SignalledFacts DEF PlacesInv, TypeOK
  <1>2. Phases'
    BY DEF PlacesInv, Phases, Recorded
  <1>3. ASSUME NEW x \in Session PROVE Account(x)'
    BY SignalledFacts
    DEF PlacesInv, Account, Fresh, Unplaced, Opening, OnePanel, Home, Watched,
        Marked, Asked, Supervised
  <1> QED BY <1>1, <1>2, <1>3 DEF PlacesInv

LEMMA PlaceForToolStep ==
  ASSUME PlacesInv, NEW s \in Session, PlaceForTool(s)
  PROVE  PlacesInv'
  <1> DEFINE pr == term[s].project
  <1>1. /\ server = "up" /\ creating[s] # None /\ ~ Asked(s)
        /\ creating' = [creating EXCEPT ![s] = None]
        /\ server' = server /\ adopting' = adopting
    BY DEF PlaceForTool, Asked
  <1>2. /\ adopting = {} /\ term[s] # None /\ term[s] \in Terms
        /\ shell[s] # "none"
    BY <1>1 DEF PlacesInv, TypeOK, Phases, Account, Opening, Fresh
  <1>3. /\ creating'[s] = None /\ creating' \in [Session -> Creations \cup {None}]
        /\ \A x \in Session \ {s} : creating'[x] = creating[x]
    BY <1>1 DEF PlacesInv, TypeOK
  <1>4. Account(s) /\ TypeOK /\ Phases
    BY DEF PlacesInv
  <1>5. CASE s \notin Recorded(doc) /\ pr \in doc.projects
    <2>1. doc.record[s] = None /\ doc.panels[s] = 0
      BY <1>4, <1>5 DEF Recorded, Account, OnePanel
    <2>2. Placed(doc, term, s, pr) /\ shell' = shell
      BY <1>5 DEF PlaceForTool
    <2>3. /\ doc' \in Documents /\ term' \in [Session -> Terms \cup {None}]
          /\ doc'.record[s] = [project |-> pr, status |-> "running"]
          /\ doc'.panels[s] = 1
          /\ term'[s] = [project |-> pr,
                         status |-> IF term[s].status = "running" THEN "running"
                                    ELSE "late"]
          /\ \A x \in Session \ {s} :
                /\ doc'.record[x] = doc.record[x]
                /\ doc'.panels[x] = doc.panels[x] /\ term'[x] = term[x]
      BY <1>2, <1>4, <2>1, <2>2, PlacedFacts DEF TypeOK
    <2>4. TypeOK'
      BY <1>1, <1>3, <1>4, <2>2, <2>3 DEF TypeOK
    <2>5. Phases'
      BY <1>1, <1>2 DEF Phases
    <2>6. ASSUME NEW x \in Session PROVE Account(x)'
      <3>1. CASE x = s
        <4>1. term'[s] # None /\ doc'.record[s] # None
          BY <1>2, <2>3, PlacesAssumption DEF Terms, Records
        <4> QED
          BY <1>1, <1>2, <1>3, <1>4, <2>2, <2>3, <3>1, <4>1
          DEF Account, Fresh, Unplaced, Opening, OnePanel, Home, Watched, Marked,
              Asked, Supervised
      <3>2. CASE x # s
        BY <1>1, <1>3, <2>2, <2>3, <3>2, Untouched DEF PlacesInv
      <3> QED BY <3>1, <3>2
    <2> QED BY <2>4, <2>5, <2>6 DEF PlacesInv
  <1>6. CASE ~ (s \notin Recorded(doc) /\ pr \in doc.projects)
    <2>1. shell' = Signalled({s}) /\ UNCHANGED <<doc, term>>
      BY <1>6 DEF PlaceForTool
    <2>2. TypeOK'
      BY <1>1, <1>3, <1>4, <2>1, SignalledFacts DEF TypeOK
    <2>3. Phases'
      BY <1>1, <1>2 DEF Phases
    <2>4. ASSUME NEW x \in Session PROVE Account(x)'
      BY <1>1, <1>2, <1>3, <2>1, SignalledFacts
      DEF PlacesInv, Account, Fresh, Unplaced, Opening, OnePanel, Home, Watched,
          Marked, Asked, Supervised
    <2> QED BY <2>2, <2>3, <2>4 DEF PlacesInv
  <1> QED BY <1>5, <1>6

-----------------------------------------------------------------------------
LEMMA ExitStep ==
  ASSUME PlacesInv, NEW s \in Session, Exit(s)
  PROVE  PlacesInv'
  <1>1. /\ shell[s] \in Alive /\ shell' = [shell EXCEPT ![s] = "exited"]
        /\ UNCHANGED <<doc, term, creating, server, adopting>>
    BY DEF Exit
  <1>2. TypeOK'
    BY <1>1 DEF PlacesInv, TypeOK
  <1>3. Phases'
    BY <1>1 DEF PlacesInv, Phases, Recorded
  <1>4. \A x \in Session : /\ shell'[x] = "none" => shell[x] = "none"
                           /\ shell'[x] \in Alive => shell[x] \in Alive
    BY <1>1 DEF PlacesInv, TypeOK, Alive
  <1>5. ASSUME NEW x \in Session PROVE Account(x)'
    BY <1>1, <1>4
    DEF PlacesInv, Account, Fresh, Unplaced, Opening, OnePanel, Home, Watched,
        Marked, Asked, Supervised
  <1> QED BY <1>2, <1>3, <1>5 DEF PlacesInv

(* What ending sessions leaves of the accounts: those that were supervised *)
(* no longer are, and their records, if any, no longer say running.        *)
LEMMA FinishFacts ==
  ASSUME PlacesInv, NEW S \in SUBSET Session, Finish(S)
  PROVE  /\ doc' \in Documents /\ term' \in [Session -> Terms \cup {None}]
         /\ doc'.panels = doc.panels
         /\ \A x \in Session :
              /\ doc'.record[x] = None <=> doc.record[x] = None
              /\ doc.record[x] # None =>
                    doc'.record[x].project = doc.record[x].project
              /\ term'[x] = None <=> term[x] = None
              /\ IF x \in S /\ Supervised(term, x)
                 THEN /\ ~ Supervised(term', x)
                      /\ doc.record[x] # None => doc'.record[x].status # "running"
                 ELSE doc'.record[x] = doc.record[x] /\ term'[x] = term[x]
  <1> DEFINE over == {x \in S : Supervised(term, x)}
             Ended(x) == [project |-> term[x].project, status |-> "ended"]
             t == [x \in Session |->
                     IF x \in over THEN [term[x] EXCEPT !.status = "ended"]
                     ELSE term[x]]
  <1>1. \A x \in over : term[x] # None /\ term[x] \in Terms
    BY DEF PlacesInv, TypeOK, Supervised
  <1>2. \A x \in over : /\ [term[x] EXCEPT !.status = "ended"] = Ended(x)
                         /\ Ended(x) \in Terms /\ Ended(x) # None
    BY <1>1, PlacesAssumption DEF Terms
  <1>3. \A x \in Session : t[x] = IF x \in over THEN Ended(x) ELSE term[x]
    BY <1>2
  <1>4. t \in [Session -> Terms \cup {None}]
    <2>1. \A x \in Session : t[x] \in Terms \cup {None}
      BY <1>2, <1>3 DEF PlacesInv, TypeOK
    <2> QED BY <2>1
  <1>5. IF over = {} THEN term' = term /\ doc' = doc
        ELSE term' = t /\ doc' = MarkExited(doc, over)
    BY DEF Finish, Commit
  <1>6. doc \in Documents /\ term \in [Session -> Terms \cup {None}]
    BY DEF PlacesInv, TypeOK
  <1>7. \A x \in Session : x \in over <=> x \in S /\ Supervised(term, x)
    OBVIOUS
  <1> HIDE DEF over, t
  <1>8. /\ term' \in [Session -> Terms \cup {None}]
        /\ \A x \in Session :
             /\ term'[x] = None <=> term[x] = None
             /\ x \in over => ~ Supervised(term', x)
             /\ x \notin over => term'[x] = term[x]
    <2>1. CASE over = {}
      BY <1>5, <1>6, <2>1
    <2>2. CASE over # {}
      BY <1>1, <1>2, <1>3, <1>4, <1>5, <2>2 DEF Supervised
    <2> QED BY <2>1, <2>2
  <1>9. /\ doc' \in Documents /\ doc'.panels = doc.panels
         /\ \A x \in Session :
              /\ doc'.record[x] = None <=> doc.record[x] = None
              /\ doc.record[x] # None =>
                    doc'.record[x].project = doc.record[x].project
              /\ x \in over /\ doc.record[x] # None =>
                    doc'.record[x].status # "running"
              /\ x \notin over => doc'.record[x] = doc.record[x]
    <2>1. CASE over = {}
      BY <1>5, <1>6, <2>1
    <2>2. CASE over # {}
      BY <1>5, <1>6, <2>2, MarkExitedType
    <2> QED BY <2>1, <2>2
  <1> QED BY <1>7, <1>8, <1>9

(* Sessions end, and none whose shell runs on ended unasked.               *)
LEMMA FinishStep ==
  ASSUME PlacesInv, NEW S \in SUBSET Session, Finish(S),
         shell' \in [Session -> {"none", "running", "signalled", "exited", "gone"}],
         creating' \in [Session -> Creations \cup {None}],
         \A x \in Session :
           /\ shell'[x] = "none" => shell[x] = "none"
           /\ shell'[x] \in Alive => /\ shell[x] \in Alive /\ x \notin S
                                      /\ creating'[x] = creating[x]
           /\ creating'[x] = None \/ creating'[x] = creating[x],
         server' = server, adopting' = adopting
  PROVE  PlacesInv'
  <1>1. TypeOK'
    BY FinishFacts DEF PlacesInv, TypeOK
  <1>2. Phases'
    BY FinishFacts DEF PlacesInv, Phases, Recorded
  <1>3. ASSUME NEW x \in Session PROVE Account(x)'
    <2>1. Account(x)
      BY DEF PlacesInv
    <2>2. CASE x \in S /\ Supervised(term, x)
      BY <2>1, <2>2, FinishFacts
      DEF Account, Fresh, Unplaced, Opening, OnePanel, Home, Watched, Marked,
          Asked
    <2>3. CASE ~ (x \in S /\ Supervised(term, x))
      BY <2>1, <2>3, FinishFacts
      DEF Account, Fresh, Unplaced, Opening, OnePanel, Home, Watched, Marked,
          Asked, Supervised
    <2> QED BY <2>2, <2>3
  <1> QED BY <1>1, <1>2, <1>3 DEF PlacesInv

LEMMA DeliverExitStep ==
  ASSUME PlacesInv, NEW s \in Session, DeliverExit(s)
  PROVE  PlacesInv'
  <1>1. /\ shell[s] = "exited"
        /\ Finish({s}) /\ UNCHANGED <<shell, creating, server, adopting>>
    BY DEF DeliverExit
  <1>2. /\ shell' \in [Session -> {"none", "running", "signalled", "exited", "gone"}]
        /\ creating' \in [Session -> Creations \cup {None}]
    BY <1>1 DEF PlacesInv, TypeOK
  <1> QED BY <1>1, <1>2, FinishStep DEF Alive

LEMMA HolderDiesStep ==
  ASSUME PlacesInv, HolderDies
  PROVE  PlacesInv'
  <1>1. /\ shell' = [s \in Session |-> IF shell[s] = "none" THEN "none" ELSE "gone"]
        /\ Finish(Session) /\ UNCHANGED <<server, adopting>>
        /\ creating' = [s \in Session |->
             IF creating[s] # None /\ creating[s].phase = "asked" THEN None
             ELSE creating[s]]
    BY DEF HolderDies
  <1>2. /\ shell' \in [Session -> {"none", "running", "signalled", "exited", "gone"}]
        /\ creating' \in [Session -> Creations \cup {None}]
        /\ \A x \in Session :
             /\ shell'[x] \notin Alive
             /\ shell'[x] = "none" => shell[x] = "none"
             /\ creating'[x] = None \/ creating'[x] = creating[x]
    BY <1>1 DEF PlacesInv, TypeOK, Alive
  <1> QED BY <1>1, <1>2, FinishStep

LEMMA EndHeldStep ==
  ASSUME PlacesInv, NEW s \in Session, EndHeld(s)
  PROVE  PlacesInv'
  <1> DEFINE ended == [project |-> term[s].project, status |-> "ended"]
  <1>1. /\ server = "up" /\ shell' = [shell EXCEPT ![s] = "gone"]
        /\ UNCHANGED <<creating, server, adopting>>
    BY DEF EndHeld
  <1>2. /\ shell' \in [Session -> {"none", "running", "signalled", "exited", "gone"}]
        /\ shell'[s] = "gone" /\ \A x \in Session \ {s} : shell'[x] = shell[x]
    BY <1>1 DEF PlacesInv, TypeOK
  <1>3. CASE Supervised(term, s)
    <2>1. term[s] # None /\ term[s] \in Terms
      BY <1>3 DEF PlacesInv, TypeOK, Supervised
    <2>2. /\ [term[s] EXCEPT !.status = "ended"] = ended
          /\ ended \in Terms /\ ended # None
      BY <2>1, PlacesAssumption DEF Terms
    <2>3. term' = [term EXCEPT ![s] = ended]
      BY <1>3, <2>2 DEF EndHeld
    <2>4. /\ term' \in [Session -> Terms \cup {None}] /\ term'[s] = ended
          /\ \A x \in Session \ {s} : term'[x] = term[x]
      BY <2>2, <2>3 DEF PlacesInv, TypeOK
    <2>5. doc' = MarkExited(doc, {s})
      BY <1>3 DEF EndHeld
    <2>6. /\ doc' \in Documents /\ doc'.panels = doc.panels
          /\ \A x \in Session :
               /\ doc'.record[x] = None <=> doc.record[x] = None
               /\ x # s => doc'.record[x] = doc.record[x]
               /\ doc.record[x] # None =>
                    /\ doc'.record[x].project = doc.record[x].project
                    /\ x = s => doc'.record[x].status # "running"
      BY <2>5, MarkExitedType DEF PlacesInv, TypeOK
    <2>7. TypeOK'
      BY <1>1, <1>2, <2>4, <2>6 DEF PlacesInv, TypeOK
    <2>8. Phases'
      BY <1>1, <2>6 DEF PlacesInv, Phases, Recorded
    <2>9. ASSUME NEW x \in Session PROVE Account(x)'
      <3>1. CASE x = s
        BY <1>1, <1>2, <2>1, <2>2, <2>4, <2>6, <3>1
        DEF PlacesInv, Account, Fresh, Unplaced, Opening, OnePanel, Home,
            Watched, Marked, Asked, Supervised, Alive
      <3>2. CASE x # s
        BY <1>1, <1>2, <2>4, <2>6, <3>2, Untouched DEF PlacesInv
      <3> QED BY <3>1, <3>2
    <2> QED BY <2>7, <2>8, <2>9 DEF PlacesInv
  <1>4. CASE ~ Supervised(term, s)
    <2>1. term' = term /\ doc' = doc
      BY <1>4 DEF EndHeld
    <2>2. TypeOK'
      BY <1>1, <1>2, <2>1 DEF PlacesInv, TypeOK
    <2>3. Phases'
      BY <1>1, <2>1 DEF PlacesInv, Phases, Recorded
    <2>4. ASSUME NEW x \in Session PROVE Account(x)'
      <3>1. CASE x = s
        BY <1>1, <1>2, <2>1, <3>1
        DEF PlacesInv, Account, Fresh, Unplaced, Opening, OnePanel, Home,
            Watched, Marked, Asked, Supervised, Alive
      <3>2. CASE x # s
        BY <1>1, <1>2, <2>1, <3>2, Untouched DEF PlacesInv
      <3> QED BY <3>1, <3>2
    <2> QED BY <2>2, <2>3, <2>4 DEF PlacesInv
  <1> QED BY <1>3, <1>4

-----------------------------------------------------------------------------
(* A change of the document that takes records and their panels away.      *)
LEMMA RemovalStep ==
  ASSUME PlacesInv, doc' \in Documents, NEW S,
         \A x \in Session :
           /\ doc'.record[x] = IF x \in S THEN None ELSE doc.record[x]
           /\ doc'.panels[x] = IF x \in S THEN 0 ELSE doc.panels[x],
         server = "up", UNCHANGED <<shell, term, creating, server, adopting>>
  PROVE  PlacesInv'
  <1>1. TypeOK'
    BY DEF PlacesInv, TypeOK
  <1>2. Phases'
    BY DEF PlacesInv, Phases
  <1>3. ASSUME NEW x \in Session PROVE Account(x)'
    BY DEF PlacesInv, Account, Fresh, Unplaced, Opening, OnePanel, Home, Watched,
           Marked, Asked, Supervised
  <1> QED BY <1>1, <1>2, <1>3 DEF PlacesInv

LEMMA CloseCommitStep ==
  ASSUME PlacesInv, CloseCommit
  PROVE  PlacesInv'
  <1>1. server = "up" /\ UNCHANGED <<shell, creating, server, adopting>>
    BY DEF CloseCommit
  <1>2. doc \in Documents
    BY DEF PlacesInv, TypeOK
  <1>3. CASE Commit(WithoutProject(doc, closing.project), term)
    <2>1. doc' = WithoutProject(doc, closing.project) /\ term' = term
      BY <1>3 DEF Commit
    <2>2. /\ doc' \in Documents
          /\ \A x \in Session :
               /\ doc'.record[x] = IF x \in RecordedIn(doc, closing.project)
                                   THEN None ELSE doc.record[x]
               /\ doc'.panels[x] = IF x \in RecordedIn(doc, closing.project)
                                   THEN 0 ELSE doc.panels[x]
      BY <1>2, <2>1, WithoutProjectType
    <2> QED BY <1>1, <2>1, <2>2, RemovalStep
  <1>4. CASE Commit(WithoutSessions(doc, {closing.session}), term)
    <2>1. doc' = WithoutSessions(doc, {closing.session}) /\ term' = term
      BY <1>4 DEF Commit
    <2>2. /\ doc' \in Documents
          /\ \A x \in Session :
               /\ doc'.record[x] = IF x \in {closing.session} THEN None
                                   ELSE doc.record[x]
               /\ doc'.panels[x] = IF x \in {closing.session} THEN 0
                                   ELSE doc.panels[x]
      BY <1>2, <2>1, WithoutSessionsType
    <2> QED BY <1>1, <2>1, <2>2, RemovalStep
  <1> QED BY <1>3, <1>4 DEF CloseCommit

LEMMA MovePanelStep ==
  ASSUME PlacesInv, NEW s \in Session, NEW pr \in Project, MovePanel(s, pr)
  PROVE  PlacesInv'
  <1>1. /\ server = "up" /\ doc.panels[s] = 1
        /\ doc' = Moved(doc, s, pr)
        /\ term' = [term EXCEPT ![s] = IF @ = None THEN None
                                       ELSE [@ EXCEPT !.project = pr]]
        /\ UNCHANGED <<shell, creating, server, adopting>>
    BY DEF MovePanel, Commit
  <1>2. doc.record[s] # None /\ doc.record[s] \in Records
    BY <1>1 DEF PlacesInv, TypeOK, Documents, Account, OnePanel
  <1>3. /\ doc' \in Documents /\ doc'.panels = doc.panels
        /\ doc'.record[s] = [project |-> pr, status |-> doc.record[s].status]
        /\ \A x \in Session \ {s} : doc'.record[x] = doc.record[x]
    BY <1>1, <1>2, MovedType DEF PlacesInv, TypeOK
  <1>4. doc'.record[s] # None
    BY <1>2, <1>3, PlacesAssumption DEF Records
  <1> DEFINE moved == [project |-> pr, status |-> term[s].status]
  <1>5. term[s] # None =>
          /\ [term[s] EXCEPT !.project = pr] = moved
          /\ moved \in Terms /\ moved # None
    BY PlacesAssumption DEF PlacesInv, TypeOK, Terms
  <1>6. term' = [term EXCEPT ![s] = IF term[s] = None THEN None ELSE moved]
    BY <1>1, <1>5
  <1>7. /\ term' \in [Session -> Terms \cup {None}]
        /\ term'[s] = IF term[s] = None THEN None ELSE moved
        /\ \A x \in Session \ {s} : term'[x] = term[x]
    BY <1>5, <1>6 DEF PlacesInv, TypeOK
  <1>8. TypeOK'
    BY <1>1, <1>3, <1>7 DEF PlacesInv, TypeOK
  <1>9. Phases'
    BY <1>1, <1>2, <1>3, <1>4 DEF PlacesInv, Phases, Recorded
  <1>10. ASSUME NEW x \in Session PROVE Account(x)'
    <2>1. CASE x = s
      BY <1>1, <1>2, <1>3, <1>4, <1>5, <1>7, <2>1
      DEF PlacesInv, Account, Fresh, Unplaced, Opening, OnePanel, Home, Watched,
          Marked, Asked, Supervised
    <2>2. CASE x # s
      BY <1>1, <1>3, <1>7, <2>2, Untouched DEF PlacesInv
    <2> QED BY <2>1, <2>2
  <1> QED BY <1>8, <1>9, <1>10 DEF PlacesInv

-----------------------------------------------------------------------------
LEMMA GraceEndsStep ==
  ASSUME PlacesInv, NEW s \in Session, GraceEnds(s)
  PROVE  PlacesInv'
  <1> DEFINE pr == term[s].project
  <1>1. server = "up" /\ UNCHANGED <<creating, server, adopting>>
    BY DEF GraceEnds
  <1>2. CASE shell' = Signalled({s}) /\ UNCHANGED <<doc, term>>
    BY <1>1, <1>2, SignalStep
  <1>3. CASE UNCHANGED <<doc, shell, term>>
    BY <1>1, <1>3 DEF PlacesInv, TypeOK, Phases, Recorded, Account, Fresh,
       Unplaced, Opening, OnePanel, Home, Watched, Marked, Asked, Supervised
  <1>4. CASE /\ s \in PanelLess(doc, term) /\ shell' = shell
             /\ doc' = NewPanel(doc, s, pr) /\ term' = term
             /\ ~ (s \in Recorded(doc) /\ doc.record[s].project # pr)
    <2>1. Supervised(term, s) /\ doc.panels[s] = 0
      BY <1>4 DEF PanelLess, Shown, PlacesInv, TypeOK, Documents
    <2>2. term[s] # None /\ term[s] \in Terms /\ pr \in Project
      BY <2>1 DEF Supervised, PlacesInv, TypeOK, Terms
    <2>3. /\ doc' \in Documents
          /\ doc'.record[s] = IF doc.record[s] = None
                              THEN [project |-> pr, status |-> "running"]
                              ELSE doc.record[s]
          /\ doc'.panels[s] = 1
          /\ \A x \in Session \ {s} :
                doc'.record[x] = doc.record[x] /\ doc'.panels[x] = doc.panels[x]
      BY <1>4, <2>1, <2>2, NewPanelsType DEF NewPanel, PlacesInv, TypeOK
    <2>4. doc'.record[s] # None
      BY <2>2, <2>3, PlacesAssumption DEF Records
    <2>5. TypeOK'
      BY <1>1, <1>4, <2>3 DEF PlacesInv, TypeOK
    <2>6. Phases'
      BY <1>1 DEF PlacesInv, Phases
    <2>7. ASSUME NEW x \in Session PROVE Account(x)'
      <3>1. CASE x = s
        BY <1>1, <1>4, <2>1, <2>2, <2>3, <2>4, <3>1
        DEF PlacesInv, Account, Fresh, Unplaced, Opening, OnePanel, Home,
            Watched, Marked, Asked, Supervised
      <3>2. CASE x # s
        BY <1>1, <1>4, <2>3, <3>2, Untouched DEF PlacesInv
      <3> QED BY <3>1, <3>2
    <2> QED BY <2>5, <2>6, <2>7 DEF PlacesInv
  <1> QED BY <1>2, <1>3, <1>4 DEF GraceEnds, Commit

-----------------------------------------------------------------------------
LEMMA CrashStep ==
  ASSUME PlacesInv, Crash
  PROVE  PlacesInv'
  <1>1. /\ server' = "down" /\ adopting' = {} /\ UNCHANGED <<doc, shell>>
        /\ term' = [s \in Session |-> None] /\ creating' = [s \in Session |-> None]
    BY DEF Crash
  <1>2. TypeOK' /\ Phases'
    BY <1>1 DEF PlacesInv, TypeOK, Phases
  <1>3. ASSUME NEW x \in Session PROVE Account(x)'
    BY <1>1 DEF PlacesInv, Account, Fresh, Unplaced, Opening, OnePanel, Home,
       Watched, Marked, Asked, Supervised
  <1> QED BY <1>2, <1>3 DEF PlacesInv

(* A load leaves no record saying running.                                 *)
LEMMA InterruptedType ==
  ASSUME NEW d \in Documents
  PROVE  /\ Interrupted(d) \in Documents
         /\ Interrupted(d).panels = d.panels
         /\ \A s \in Session :
              /\ Interrupted(d).record[s] = None <=> d.record[s] = None
              /\ d.record[s] # None => Interrupted(d).record[s].status # "running"
  <1> DEFINE over(s) == d.record[s] # None /\ d.record[s].status = "running"
             cut(s) == [project |-> d.record[s].project, status |-> "interrupted"]
             record == [s \in Session |-> IF over(s) THEN cut(s) ELSE d.record[s]]
  <1>1. \A s \in Session : d.record[s] \in Records \cup {None}
    BY DEF Documents
  <1>2. \A s \in Session : over(s) =>
          /\ [d.record[s] EXCEPT !.status = "interrupted"] = cut(s)
          /\ cut(s) \in Records /\ cut(s) # None
    BY <1>1, PlacesAssumption DEF Records
  <1>3. Interrupted(d) = [d EXCEPT !.record = record]
    BY <1>2 DEF Interrupted
  <1>4. record \in [Session -> Records \cup {None}]
    BY <1>1, <1>2
  <1> HIDE DEF record
  <1>5. /\ Interrupted(d) \in Documents
        /\ Interrupted(d).record = record /\ Interrupted(d).panels = d.panels
    BY <1>3, <1>4 DEF Documents
  <1>6. ASSUME NEW s \in Session
        PROVE  /\ record[s] = None <=> d.record[s] = None
               /\ d.record[s] # None => record[s].status # "running"
    <2>1. record[s] = IF over(s) THEN cut(s) ELSE d.record[s]
      BY DEF record
    <2> QED BY <1>2, <2>1
  <1> QED BY <1>5, <1>6

(* A reconciliation makes records of held sessions say running, no others. *)
LEMMA ReconcileType ==
  ASSUME NEW d \in Documents, NEW held
  PROVE  /\ Reconcile(d, held) \in Documents
         /\ Reconcile(d, held).panels = d.panels
         /\ \A s \in Session :
              /\ Reconcile(d, held).record[s] = None <=> d.record[s] = None
              /\ s \notin held => Reconcile(d, held).record[s] = d.record[s]
  <1> DEFINE over(s) == s \in held /\ d.record[s] # None
                         /\ d.record[s].status = "interrupted"
             runs(s) == [project |-> d.record[s].project, status |-> "running"]
             record == [s \in Session |-> IF over(s) THEN runs(s) ELSE d.record[s]]
  <1>1. \A s \in Session : d.record[s] \in Records \cup {None}
    BY DEF Documents
  <1>2. \A s \in Session : over(s) =>
          /\ [d.record[s] EXCEPT !.status = "running"] = runs(s)
          /\ runs(s) \in Records /\ runs(s) # None
    BY <1>1, PlacesAssumption DEF Records
  <1>3. Reconcile(d, held) = [d EXCEPT !.record = record]
    BY <1>2 DEF Reconcile
  <1>4. record \in [Session -> Records \cup {None}]
    BY <1>1, <1>2
  <1> HIDE DEF record
  <1>5. /\ Reconcile(d, held) \in Documents
        /\ Reconcile(d, held).record = record
        /\ Reconcile(d, held).panels = d.panels
    BY <1>3, <1>4 DEF Documents
  <1>6. ASSUME NEW s \in Session
        PROVE  /\ record[s] = None <=> d.record[s] = None
               /\ s \notin held => record[s] = d.record[s]
    <2>1. record[s] = IF over(s) THEN runs(s) ELSE d.record[s]
      BY DEF record
    <2> QED BY <1>2, <2>1
  <1> QED BY <1>5, <1>6

LEMMA ReattachStep ==
  ASSUME PlacesInv, Reattach
  PROVE  PlacesInv'
  <1> DEFINE loaded == Interrupted(doc)
  <1>0. PICK new \in Recovered \ doc.projects :
          \E recovered \in Recover(loaded, Strays, new) :
             LET d == Reconcile(recovered, Held)
             IN /\ server = "down" /\ server' = "reattaching"
                /\ doc' = d
                /\ shell' = [s \in Session |-> IF s \in Held \ Recorded(d) THEN "gone"
                                               ELSE shell[s]]
                /\ adopting' = Held \cap Recorded(d)
                /\ term' = Restored(d, Held)
                /\ creating' = creating
    BY DEF Reattach
  <1>1. PICK recovered \in Recover(loaded, Strays, new) :
          /\ server = "down" /\ server' = "reattaching"
          /\ doc' = Reconcile(recovered, Held)
          /\ shell' = [s \in Session |-> IF s \in Held \ Recorded(doc') THEN "gone"
                                         ELSE shell[s]]
          /\ adopting' = Held \cap Recorded(doc')
          /\ term' = Restored(doc', Held)
          /\ creating' = creating
    BY <1>0
  <1>2. /\ loaded \in Documents /\ loaded.panels = doc.panels
        /\ \A s \in Session :
             /\ loaded.record[s] = None <=> doc.record[s] = None
             /\ doc.record[s] # None => loaded.record[s].status # "running"
    BY InterruptedType DEF PlacesInv, TypeOK
  <1>3. new \in Project
    BY PlacesAssumption
  <1>4. \A s \in Strays : s \in Held /\ doc.record[s] = None
    BY DEF Strays, Held, Recorded
  <1> HIDE DEF loaded
  <1>5. PICK placed \in SUBSET Strays :
          /\ recovered \in Documents
          /\ \A s \in Session :
               /\ recovered.record[s] =
                    IF s \in placed /\ loaded.record[s] = None
                    THEN [project |-> new, status |-> "running"]
                    ELSE loaded.record[s]
               /\ recovered.panels[s] =
                    IF s \in placed THEN doc.panels[s] + 1 ELSE doc.panels[s]
    <2>1. CASE recovered = loaded
      <3>1. {} \in SUBSET Strays
        OBVIOUS
      <3> QED BY <1>2, <2>1, <3>1
    <2>2. CASE recovered # loaded
      <3>1. PICK S \in SUBSET Strays :
              recovered = NewPanels(OpenProject(loaded, new), S, new)
        BY <2>2 DEF Recover
      <3>2. /\ OpenProject(loaded, new) \in Documents
            /\ OpenProject(loaded, new).record = loaded.record
            /\ OpenProject(loaded, new).panels = loaded.panels
        BY <1>2, <1>3, OpenProjectType
      <3>3. /\ recovered \in Documents
            /\ \A s \in Session :
                 /\ recovered.record[s] =
                      IF s \in S /\ loaded.record[s] = None
                      THEN [project |-> new, status |-> "running"]
                      ELSE loaded.record[s]
                 /\ recovered.panels[s] =
                      IF s \in S THEN doc.panels[s] + 1 ELSE doc.panels[s]
        <4> DEFINE opened == OpenProject(loaded, new)
        <4>1. recovered = NewPanels(opened, S, new) /\ opened \in Documents
          BY <3>1, <3>2
        <4>2. opened.record = loaded.record /\ opened.panels = doc.panels
          BY <1>2, <3>2
        <4> HIDE DEF opened
        <4> QED BY <1>3, <4>1, <4>2, NewPanelsType
      <3> QED BY <3>1, <3>3
    <2> QED BY <2>1, <2>2
  <1>6. /\ doc' \in Documents /\ doc'.panels = recovered.panels
        /\ \A s \in Session :
             /\ doc'.record[s] = None <=> recovered.record[s] = None
             /\ s \notin Held => doc'.record[s] = recovered.record[s]
    BY <1>1, <1>5, ReconcileType
  <1>7. [project |-> new, status |-> "running"] # None
    BY <1>3, PlacesAssumption DEF Records
  <1>8. \A s \in Session :
          /\ doc'.record[s] = None <=> doc.record[s] = None /\ s \notin placed
          /\ s \notin Held /\ doc'.record[s] # None =>
               doc'.record[s].status # "running"
          /\ doc'.panels[s] = IF s \in placed THEN doc.panels[s] + 1 ELSE doc.panels[s]
    BY <1>2, <1>4, <1>5, <1>6, <1>7
  <1>9. /\ shell' \in [Session -> {"none", "running", "signalled", "exited", "gone"}]
        /\ \A s \in Session :
             /\ shell'[s] = "none" => shell[s] = "none" /\ s \notin Held
             /\ shell'[s] \in Alive => s \in Held /\ doc'.record[s] # None
    BY <1>1 DEF PlacesInv, TypeOK, Held, Alive, Recorded
  <1>10. /\ term' \in [Session -> Terms \cup {None}]
         /\ \A s \in Session :
              /\ ~ Supervised(term', s)
              /\ s \notin Held /\ doc'.record[s] = None => term'[s] = None
    <2>1. \A s \in Recorded(doc') \ Held :
            [project |-> doc'.record[s].project, status |-> "ended"] \in Terms
      BY <1>6 DEF Documents, Recorded, Records, Terms
    <2>2. term' = [s \in Session |->
            IF s \in Recorded(doc') \ Held
            THEN [project |-> doc'.record[s].project, status |-> "ended"]
            ELSE None]
      BY <1>1 DEF Restored
    <2>3. term' \in [Session -> Terms \cup {None}]
      BY <2>1, <2>2
    <2> QED BY <2>2, <2>3 DEF Supervised, Recorded
  <1>11. \A s \in Session : creating[s] = None /\ creating'[s] = None
    BY <1>1 DEF PlacesInv, Phases
  <1>12. TypeOK'
    BY <1>1, <1>6, <1>9, <1>10 DEF PlacesInv, TypeOK
  <1>13. Phases'
    BY <1>1, <1>11 DEF Phases
  <1>14. ASSUME NEW x \in Session PROVE Account(x)'
    <2>1. Account(x) /\ (x \in adopting' <=> x \in Held /\ doc'.record[x] # None)
      BY <1>1 DEF PlacesInv, Recorded
    <2> QED
      BY <1>1, <1>4, <1>8, <1>9, <1>10, <1>11, <2>1
      DEF Account, Fresh, Unplaced, Opening, OnePanel, Home, Watched, Marked, Asked
  <1> QED BY <1>12, <1>13, <1>14 DEF PlacesInv

LEMMA AdoptStep ==
  ASSUME PlacesInv, NEW s \in Session, Adopt(s)
  PROVE  PlacesInv'
  <1> DEFINE As(status) == [project |-> doc.record[s].project, status |-> status]
  <1>1. /\ server = "reattaching" /\ s \in adopting /\ adopting' = adopting \ {s}
        /\ UNCHANGED <<creating, server>>
    BY DEF Adopt
  <1>2. doc.record[s] # None /\ doc.record[s] \in Records
    BY <1>1 DEF PlacesInv, Phases, TypeOK, Documents, Recorded
  <1>3. ASSUME NEW status \in {"running", "ended", "lost"},
               term' = [term EXCEPT ![s] = As(status)]
        PROVE  /\ term' \in [Session -> Terms \cup {None}]
               /\ term'[s] = As(status) /\ term'[s] # None
               /\ \A x \in Session \ {s} : term'[x] = term[x]
    <2>1. As(status) \in Terms /\ As(status) # None
      BY <1>2, PlacesAssumption DEF Records, Terms
    <2> QED BY <1>3, <2>1 DEF PlacesInv, TypeOK
  <1>4. shell[s] # "none"
    BY <1>2 DEF PlacesInv, Account, Fresh
  <1>5. CASE shell[s] \in Alive
    <2>1. term' = [term EXCEPT ![s] = As("running")] /\ UNCHANGED <<doc, shell>>
      BY <1>5 DEF Adopt, Alive
    <2>2. TypeOK' /\ Phases'
      BY <1>1, <1>3, <2>1 DEF PlacesInv, TypeOK, Phases, Recorded
    <2>3. ASSUME NEW x \in Session PROVE Account(x)'
      <3>1. CASE x = s
        BY <1>1, <1>2, <1>3, <1>4, <2>1, <3>1
        DEF PlacesInv, Account, Fresh, Unplaced, Opening, OnePanel, Home,
            Watched, Marked, Asked, Supervised, Phases
      <3>2. CASE x # s
        BY <1>1, <1>3, <2>1, <3>2, Untouched DEF PlacesInv
      <3> QED BY <3>1, <3>2
    <2> QED BY <2>2, <2>3 DEF PlacesInv
  <1>6. CASE shell[s] = "exited"
    <2>1. /\ term' = [term EXCEPT ![s] = As("ended")] /\ doc' = MarkExited(doc, {s})
          /\ shell' = shell
      BY <1>6 DEF Adopt, Alive
    <2>2. /\ doc' \in Documents /\ doc'.panels = doc.panels
          /\ \A x \in Session :
               /\ doc'.record[x] = None <=> doc.record[x] = None
               /\ x # s => doc'.record[x] = doc.record[x]
          /\ doc'.record[s].status # "running"
      BY <1>2, <2>1, MarkExitedType DEF PlacesInv, TypeOK
    <2>3. TypeOK' /\ Phases'
      BY <1>1, <1>3, <2>1, <2>2 DEF PlacesInv, TypeOK, Phases, Recorded
    <2>4. ASSUME NEW x \in Session PROVE Account(x)'
      <3>1. CASE x = s
        BY <1>1, <1>3, <1>6, <2>1, <2>2, <3>1
        DEF PlacesInv, Account, Fresh, Unplaced, Opening, OnePanel, Home,
            Watched, Marked, Asked, Supervised, Phases, Alive
      <3>2. CASE x # s
        BY <1>1, <1>3, <2>1, <2>2, <3>2, Untouched DEF PlacesInv
      <3> QED BY <3>1, <3>2
    <2> QED BY <2>3, <2>4 DEF PlacesInv
  <1>7. CASE shell[s] = "gone"
    <2>1. term' = [term EXCEPT ![s] = As("lost")] /\ UNCHANGED <<doc, shell>>
      BY <1>7 DEF Adopt, Alive
    <2>2. TypeOK' /\ Phases'
      BY <1>1, <1>3, <2>1 DEF PlacesInv, TypeOK, Phases, Recorded
    <2>3. ASSUME NEW x \in Session PROVE Account(x)'
      <3>1. CASE x = s
        BY <1>1, <1>2, <1>3, <1>7, <2>1, <3>1
        DEF PlacesInv, Account, Fresh, Unplaced, Opening, OnePanel, Home,
            Watched, Marked, Asked, Supervised, Phases, Alive
      <3>2. CASE x # s
        BY <1>1, <1>3, <2>1, <3>2, Untouched DEF PlacesInv
      <3> QED BY <3>1, <3>2
    <2> QED BY <2>2, <2>3 DEF PlacesInv
  <1> QED BY <1>5, <1>6, <1>7 DEF Adopt

LEMMA StartStep ==
  ASSUME PlacesInv, Start
  PROVE  PlacesInv'
  <1>1. PICK seeds \in Seedings : WithSeeds(seeds)
    BY DEF Start
  <1>2. /\ server = "reattaching" /\ adopting = {} /\ server' = "up"
        /\ UNCHANGED <<doc, creating, adopting>>
    BY DEF Start
  <1>3. PICK S \in SUBSET Unissued : seeds \in [S -> ToSeed]
    BY <1>1 DEF Seedings
  <1>4. \A s \in DOMAIN seeds : /\ seeds[s] \in Project
                               /\ s \in Session /\ shell[s] = "none"
    BY <1>3 DEF ToSeed, Unissued, PlacesInv, TypeOK, Documents
  <1>5. \A s \in DOMAIN seeds :
          /\ [project |-> seeds[s], status |-> "running"] \in Terms
          /\ [project |-> seeds[s], status |-> "running"] # None
    BY <1>4, PlacesAssumption DEF Terms
  <1>6. /\ shell' = [s \in Session |-> IF s \in DOMAIN seeds THEN "running" ELSE shell[s]]
        /\ term' = [s \in Session |->
             IF s \in DOMAIN seeds THEN [project |-> seeds[s], status |-> "running"]
             ELSE term[s]]
    BY <1>1 DEF WithSeeds
  <1>7. TypeOK' /\ Phases'
    BY <1>2, <1>5, <1>6 DEF PlacesInv, TypeOK, Phases
  <1>8. ASSUME NEW x \in Session PROVE Account(x)'
    <2>1. Account(x) /\ creating[x] = None
      BY <1>2 DEF PlacesInv, Phases
    <2>2. CASE x \in DOMAIN seeds
      <3>1. /\ doc.record[x] = None /\ shell'[x] = "running"
            /\ term'[x] = [project |-> seeds[x], status |-> "running"]
            /\ term'[x] # None
        BY <1>4, <1>5, <1>6, <2>1, <2>2 DEF Account, Fresh
      <3> QED
        BY <1>2, <2>1, <3>1
        DEF Account, Fresh, Unplaced, Opening, OnePanel, Home, Watched, Marked,
            Asked, Supervised
    <2>3. CASE x \notin DOMAIN seeds
      <3>1. shell'[x] = shell[x] /\ term'[x] = term[x]
        BY <1>6, <2>3
      <3> QED
        BY <1>2, <2>1, <3>1
        DEF Account, Fresh, Unplaced, Opening, OnePanel, Home, Watched, Marked,
            Asked, Supervised
    <2> QED BY <2>2, <2>3
  <1> QED BY <1>7, <1>8 DEF PlacesInv

-----------------------------------------------------------------------------
(* Nothing is known of any session at first, and no step forgets one.      *)
THEOREM PlacesInvariant == Spec => []PlacesInv
<1>1. Init => PlacesInv
  <2> SUFFICES ASSUME Init PROVE PlacesInv
    OBVIOUS
  <2>1. TypeOK /\ Phases
    BY PlacesAssumption DEF Init, TypeOK, Phases, Documents
  <2>2. ASSUME NEW s \in Session PROVE Account(s)
    BY DEF Init, Account, Fresh, Unplaced, Opening, OnePanel, Home, Watched,
       Marked, Asked, Supervised, Alive
  <2> QED BY <2>1, <2>2 DEF PlacesInv
<1>2. PlacesInv /\ [Next]_vars => PlacesInv'
  <2> SUFFICES ASSUME PlacesInv, [Next]_vars PROVE PlacesInv'
    OBVIOUS
  <2>1. CASE \E s \in Session, by \in {"client", "tool"}, pr \in Project :
               AskCreate(s, by, pr)
    BY <2>1, AskCreateStep
  <2>2. CASE \E s \in Session, early \in BOOLEAN : PlaceForClient(s, early)
    BY <2>2, PlaceForClientStep
  <2>3. CASE \E s \in Session, early \in BOOLEAN : AttachForTool(s, early)
    BY <2>3, AttachForToolStep
  <2>4. CASE \E s \in Session : PlaceForTool(s)
    BY <2>4, PlaceForToolStep
  <2>5. CASE \E s \in Session : Exit(s)
    BY <2>5, ExitStep
  <2>6. CASE \E s \in Session : DeliverExit(s)
    BY <2>6, DeliverExitStep
  <2>7. CASE \E s \in Session : EndHeld(s)
    BY <2>7, EndHeldStep
  <2>8. CASE \E s \in Session : ClosePanelBegin(s)
    BY <2>8, SignalStep DEF ClosePanelBegin, CloseBegin
  <2>9. CASE \E s \in Session : GraceEnds(s)
    BY <2>9, GraceEndsStep
  <2>10. CASE \E s \in Session : Adopt(s)
    BY <2>10, AdoptStep
  <2>11. CASE \E pr \in Project : CloseProjectBegin(pr)
    BY <2>11, SignalStep DEF CloseProjectBegin, CloseBegin
  <2>12. CASE CloseCommit
    BY <2>12, CloseCommitStep
  <2>13. CASE CloseRefused \/ UNCHANGED vars
    <3>1. UNCHANGED <<doc, shell, term, creating, server, adopting>>
      BY <2>13 DEF CloseRefused, vars
    <3> QED
      BY <3>1 DEF PlacesInv, TypeOK, Phases, Recorded, Account, Fresh, Unplaced,
         Opening, OnePanel, Home, Watched, Marked, Asked, Supervised
  <2>14. CASE \E s \in Session, pr \in Project : MovePanel(s, pr)
    BY <2>14, MovePanelStep
  <2>15. CASE Crash
    BY <2>15, CrashStep
  <2>16. CASE HolderDies
    BY <2>16, HolderDiesStep
  <2>17. CASE Reattach
    BY <2>17, ReattachStep
  <2>18. CASE Start
    BY <2>18, StartStep
  <2> QED
    BY <2>1, <2>2, <2>3, <2>4, <2>5, <2>6, <2>7, <2>8, <2>9, <2>10, <2>11,
       <2>12, <2>13, <2>14, <2>15, <2>16, <2>17, <2>18 DEF Next
<1> QED BY <1>1, <1>2, PTL DEF Spec

(* A terminal the service runs is under the project the workspace has it   *)
(* in: moves rehome it, the keeper and a restart place it where it is.     *)
THEOREM PlacesHomesAgree == Spec => []HomesAgree
<1>1. PlacesInv => HomesAgree
  BY DEF PlacesInv, Account, Home, HomesAgree, Recorded
<1> QED BY <1>1, PlacesInvariant, PTL

(* Of a creator, the keeper and a restart only one gives a terminal its    *)
(* panel.                                                                  *)
THEOREM PlacesOnePanelEach == Spec => []OnePanelEach
<1>1. PlacesInv => OnePanelEach
  BY DEF PlacesInv, Account, OnePanel, OnePanelEach
<1> QED BY <1>1, PlacesInvariant, PTL

(* A server that is up supervises every shell the holder runs, or a        *)
(* creator is waiting for it, whoever died before.                         *)
THEOREM PlacesNoShellLost == Spec => []NoShellLost
<1>1. PlacesInv => NoShellLost
  BY DEF PlacesInv, Phases, Account, Watched, Asked, NoShellLost
<1> QED BY <1>1, PlacesInvariant, PTL

(* A record that says running of a terminal that has ended was made after  *)
(* the exit, or its holder died between being listed and being adopted.    *)
THEOREM PlacesStaleRecords == Spec => []StaleRecords
<1>1. PlacesInv => StaleRecords
  BY DEF PlacesInv, Phases, Account, Marked, StaleRecords, Recorded
<1> QED BY <1>1, PlacesInvariant, PTL
=============================================================================
