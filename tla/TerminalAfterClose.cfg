SPECIFICATION Spec
CONSTANTS
  Project = {p1, p2, p3, p4}
  Opened = {p1, p2}
  Recovered = {p3, p4}
  Session = {1, 2}
  MaxFaults = 2
  None = None
PROPERTY NoPanelAfterClose
CHECK_DEADLOCK FALSE
