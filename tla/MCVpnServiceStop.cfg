\* A start overtaken by a stop.
CONSTANTS
  Profiles = {p1}
  Direct = Direct
  Clients = {c1, c2}
  Main = Main
  UI = UI
  Workers = {w1, w2}
  Callers = {w1, w2, Main, UI}
  None = None
  MaxService = 1
SPECIFICATION Spec
SYMMETRY Symmetry
INVARIANT NoRelayAfterStop
CHECK_DEADLOCK FALSE
