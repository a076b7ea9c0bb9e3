\* Two connections, two URLs; a client that was prewarmed and one that was not.
CONSTANTS
  Users = {u1, u2}
  Urls = 2
SPECIFICATION Spec
INVARIANTS TypeOK WarmupAlone NewClientOnly
PROPERTIES AllEnd
CHECK_DEADLOCK FALSE
