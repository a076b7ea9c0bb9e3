\* Two API requests and one connection at a time; two proxies are built and
\* two CAs generated; the application may be killed at any moment.
CONSTANTS
  Hosts <- MCHosts
  Conns = {c1}
  Entries = {"http", "connect", "sockstls", "sockshttp"}
  Configs = {"none", "relay"}
  Requests = {r1, r2}
  None = None
  MaxProxies = 2
  MaxCAs = 3
SPECIFICATION Spec
SYMMETRY Symmetry
INVARIANTS TypeOK OneProxy SoundCA RouteSound
CHECK_DEADLOCK FALSE
