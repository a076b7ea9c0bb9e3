\* Three commands to two service objects, one after the other; one profile, direct mode.
CONSTANTS
  Profiles = {p1}
  Direct = Direct
  Clients = {c1, c2}
  Main = Main
  UI = UI
  Workers = {w1, w2, w3}
  Callers = {w1, w2, w3, Main, UI}
  None = None
  MaxService = 2
SPECIFICATION Spec
SYMMETRY Symmetry
INVARIANTS TypeOK NoClientLeaks OneProfile NoVpnAfterStop
CHECK_DEADLOCK FALSE
