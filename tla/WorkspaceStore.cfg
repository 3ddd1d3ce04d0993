SPECIFICATION Spec
CONSTANTS
  View = {v1, v2}
  Project = {p1, p2}
  Folder = {f1, f2, f3}
  Panel = {a, b}
  Session = {s, t}
  Link = {w}
  AutomationSpace = AutomationSpace
  AutomationLimit = 1
  None = None
  FirstView = v1
  MaxObjects = 6
  Endings = {"exited"}
SYMMETRY Sym
INVARIANTS
  ProjectsListedOnce
  DerivedCurrent
  LayoutsShowAll
  OnlyKnownDrops
CHECK_DEADLOCK FALSE
