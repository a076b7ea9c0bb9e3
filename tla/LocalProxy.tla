----------------------------- MODULE LocalProxy -----------------------------
(***************************************************************************)
(* The local HTTP and SOCKS5 proxies (relay/mitm/proxy.go) and the choice  *)
(* of how a connection leaves them (relay/route/connect_route.go).         *)
(*                                                                         *)
(* A proxy is built with a coalescer and a CA, or with neither, and its    *)
(* connections keep both for their lifetime: closing the servers does not  *)
(* end a connection that was hijacked or came through SOCKS.  Whether      *)
(* Google is dialled directly is one flag for the process, which every     *)
(* connection reads when it determines its mode and most of them read      *)
(* again when they determine their route.                                  *)
(*                                                                         *)
(* What a host is, is in HostRules.                                        *)
(***************************************************************************)
EXTENDS HostRules

CONSTANTS Hosts,   \* hosts that clients ask for
          Conns,   \* client connections; an ended one is reused
          Entries  \* the kinds of connection there are

ASSUME LocalProxyAssumption ==
  Entries \subseteq {"http", "connect", "sockstls", "sockshttp"}

VARIABLES direct,  \* route.directEnabled
          proxy,   \* proxy[p]: the p-th proxy was built with a relay
          open,    \* proxies whose listeners are open
          alive,   \* proxies whose coalescer has not been stopped
          conn     \* conn[c]: where a connection is

proxies == <<proxy, open, alive>>
local == <<direct, proxies, conn>>

Proxies == DOMAIN proxy

NoConn == [pc |-> "none", entry |-> "none", host |-> <<>>, proxy |-> 0,
           mode |-> "none", via |-> "none", switched |-> FALSE]

LocalTypeOK ==
  /\ direct \in BOOLEAN
  /\ open \subseteq Proxies /\ alive \subseteq {p \in Proxies : proxy[p]}
  /\ \A c \in Conns :
       \/ conn[c] = NoConn
       \/ /\ conn[c].pc \in {"mode", "route", "request", "pipe"}
          /\ conn[c].entry \in Entries /\ conn[c].host \in Hosts
          /\ conn[c].proxy \in Proxies
          /\ conn[c].mode \in {"none", "direct", "relay", "directRelay"}
          /\ conn[c].via \in {"none", "fragment", "plain", "relay"}
          /\ conn[c].switched \in BOOLEAN

LocalInit ==
  /\ direct \in BOOLEAN
  /\ proxy = <<>> /\ open = {} /\ alive = {}
  /\ conn = [c \in Conns |-> NoConn]

-----------------------------------------------------------------------------
At(c, pc) == conn[c].pc = pc
Relay(c) == proxy[conn[c].proxy]
Domestic(c) == ShouldUseDomesticBypass(conn[c].host)
Goes(c, new) == conn' = [conn EXCEPT ![c] = new] /\ UNCHANGED <<direct, proxies>>
Ends(c) == Goes(c, NoConn)

\* SetDirectEnabled.  The connections between their two reads note it.
SetDirect(on) ==
  /\ direct' = on
  /\ conn' = [c \in Conns |->
       IF At(c, "route") /\ on # direct THEN [conn[c] EXCEPT !.switched = TRUE] ELSE conn[c]]

\* A client has connected, and said in clear or in its CONNECT or SOCKS
\* request where it wants to go.
Accept(c) ==
  /\ At(c, "none")
  /\ \E p \in open, e \in Entries, h \in Hosts :
       Goes(c, [NoConn EXCEPT !.pc = "mode", !.entry = e, !.host = h, !.proxy = p])

\* currentMode
Mode(c) == CASE direct /\ Relay(c) -> "directRelay"
             [] direct /\ ~Relay(c) -> "direct"
             [] ~direct /\ Relay(c) -> "relay"
             [] OTHER -> "disconnected"

ReadMode(c) ==
  /\ At(c, "mode")
  /\ IF Mode(c) = "disconnected" THEN Ends(c)
     ELSE IF conn[c].entry \in {"connect", "sockstls"}
     THEN Goes(c, [conn[c] EXCEPT !.pc = "route", !.mode = Mode(c)])
     ELSE Goes(c, [conn[c] EXCEPT !.pc = "request"])

\* Mutant: without a relay a route is not needed.
WayByMode(c) ==
  IF conn[c].mode = "direct" THEN "plain" ELSE ConnectRoute(conn[c].host, direct)

\* dialSOCKSBackend in relay mode only asks for domestic hosts.
AsksGoogle(c) == ~(conn[c].entry = "sockstls" /\ conn[c].mode = "relay")

\* handleConnect, dialSOCKSBackend: what has no bypass is dialled as it is
\* when there is no relay.
Way(c) ==
  LET route == ConnectRoute(conn[c].host, direct /\ AsksGoogle(c))
  IN  IF route = "relay" /\ conn[c].mode = "direct" THEN "plain" ELSE route

\* A bypass dials and pipes.  A dial that fails ends a CONNECT; a SOCKS
\* connection goes on to be intercepted, if there is a CA (a proxy has a CA
\* when it has a relay).  Interception is a leaf certificate for the host
\* and a handshake, which may fail.
Route(c) ==
  /\ At(c, "route")
  /\ \/ /\ Way(c) # "relay"
        /\ Goes(c, [conn[c] EXCEPT !.pc = "pipe", !.mode = "none", !.via = Way(c)])
     \/ /\ Relay(c)
        /\ Way(c) = "relay" \/ conn[c].entry = "sockstls"
        /\ Goes(c, [conn[c] EXCEPT !.pc = "request", !.mode = "none", !.switched = FALSE])
     \/ Ends(c)

\* A request has been carried that way.  An http connection's next request
\* is a connection of its own here; a SOCKS client may name another host in
\* each of its plain requests.
Carried(c, way) ==
  \/ Goes(c, [conn[c] EXCEPT !.via = way,
                !.pc = IF conn[c].entry = "http" THEN "pipe" ELSE "request"])
  \/ /\ conn[c].entry = "sockshttp"
     /\ \E h \in Hosts : Goes(c, [conn[c] EXCEPT !.host = h, !.via = "none"])

\* handleHTTP, handleMITMTLS and handleSOCKSHTTP: without a relay, plain; a
\* domestic host directly; else Submit, which a stopped coalescer refuses.
\* An event stream is answered here and kept alive.
Request(c) ==
  /\ At(c, "request")
  /\ IF ~Relay(c)
     THEN Goes(c, [conn[c] EXCEPT !.pc = "pipe", !.via = "plain"])
     ELSE \/ Domestic(c) /\ Carried(c, "plain")
          \/ /\ ~Domestic(c) /\ conn[c].proxy \in alive
             /\ Carried(c, "relay")
          \/ conn[c].entry \in {"connect", "sockstls"} /\ Goes(c, [conn[c] EXCEPT !.pc = "pipe"])

\* Clients and targets close, requests and dials fail.
Closed(c) == conn[c].pc \in {"request", "pipe"} /\ Ends(c)

Serve(c) == Accept(c) \/ ReadMode(c) \/ Route(c) \/ Request(c) \/ Closed(c)

-----------------------------------------------------------------------------
\* A connection of a proxy that has a relay leaves for a domestic host and no
\* other without it, and a domestic host never sees it, whichever entry and
\* whatever failed on the way.  A Google host's TLS leaves in one piece only
\* if direct mode was switched while the connection was between the reading
\* of its mode and the reading of its route (proxy.go:33-46, 270-330,
\* connect_route.go:34-42).
RouteSound == \A c \in Conns :
  /\ conn[c].via = "relay" => Relay(c) /\ ~Domestic(c)
  /\ conn[c].via = "plain" => ~Relay(c) \/ Domestic(c)
  /\ conn[c].via = "plain" /\ conn[c].entry \in {"connect", "sockstls"}
       => ~IsGoogleDomain(conn[c].host) \/ conn[c].switched
=============================================================================
