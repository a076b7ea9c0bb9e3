---------------------------- MODULE DesktopProofs ----------------------------
(***************************************************************************)
(* Desktop's types and its three safety properties, for any hosts,         *)
(* connections, API requests and numbers of proxies and CAs.               *)
(*                                                                         *)
(* Whoever starts a proxy holds guiMu from the check that none runs to the *)
(* end, so that a stop always finds the proxy it must stop: Started and    *)
(* OneUp.  A pair of files that a start has read is the installed one      *)
(* unless a writer was at them, and a writer beside a start or a running   *)
(* proxy is what `mixed' notes: FilesStill.  A connection's two readings   *)
(* of direct mode agree unless it was switched in between: ConnFit.        *)
(***************************************************************************)
EXTENDS Desktop, SequenceTheorems, TLAPS

ReqRecord == [pc : {"idle", "switch", "ping"} \cup Starting \cup Writing,
              ca : 0 .. cas, cert : 0 .. cas, proxy : Nat]

PlainTypes ==
  /\ direct \in BOOLEAN /\ mixed \in BOOLEAN
  /\ proxy \in Seq(BOOLEAN)
  /\ open \subseteq Proxies /\ alive \subseteq {p \in Proxies : proxy[p]}
  /\ guiMu \in Requests \cup {None}
  /\ server \in Proxies \cup {0} /\ coalescer \in Proxies \cup {0}
  /\ config \in Configs
  /\ cas \in 1 .. MaxCAs /\ cert \in 0 .. cas /\ key \in 0 .. cas
  /\ ca \in [cert : 0 .. cas, key : 0 .. cas]

ReqTypes ==
  /\ req \in [Requests -> ReqRecord]
  /\ \A r \in Requests : /\ req[r].proxy \in Proxies \cup {0}
                         /\ req[r].pc \in Starting <=> guiMu = r

GuiTypes == PlainTypes /\ ReqTypes

ConnRecord ==
  [pc : {"mode", "route", "request", "pipe"}, entry : Entries, host : Hosts, proxy : Nat,
   mode : {"none", "direct", "relay", "directRelay"}, via : {"none", "fragment", "plain", "relay"},
   switched : BOOLEAN]

\* What a connection has read, how it goes on, and by which way it leaves
ConnFit(n) ==
  LET relay == proxy[n.proxy]
      domestic == ShouldUseDomesticBypass(n.host)
      tls == n.entry \in {"connect", "sockstls"}
  IN  /\ n \in ConnRecord /\ n.proxy \in Proxies
      /\ n.pc \in {"mode", "route"} => n.via = "none"
      /\ n.pc = "route" =>
           /\ tls
           /\ n.mode = "direct" <=> ~relay
           /\ n.mode \in {"direct", "relay", "directRelay"}
           /\ ~n.switched => (direct <=> n.mode # "relay")
      /\ n.pc = "request" /\ tls => relay
      /\ n.via = "relay" => relay /\ ~domestic
      /\ n.via = "plain" => ~relay \/ domestic
      /\ n.via = "plain" /\ tls => ~IsGoogleDomain(n.host) \/ n.switched

Connections ==
  /\ conn = [c \in Conns |-> conn[c]]
  /\ \A c \in Conns : conn[c] = NoConn \/ ConnFit(conn[c])

\* While a proxy is being started, there is none.
Started ==
  /\ guiMu # None => server = 0 /\ coalescer = 0
  /\ \A r \in Requests :
       /\ Is(r, "publish") => /\ req[r].proxy # 0 /\ open = {req[r].proxy}
                              /\ proxy[req[r].proxy] => req[r].proxy \in alive
       /\ req[r].pc \in Starting \ {"publish"} => open = {}
       /\ req[r].pc \in Writing => req[r].proxy = 0
       /\ Is(r, "listen") /\ req[r].ca # 0 => req[r].cert = req[r].ca

\* Only what is up can be reached.
OneUp ==
  /\ guiMu = None => open = {server} \ {0}
  /\ \A p \in alive : (\E c \in Conns : conn[c].proxy = p) \/ (\E r \in Requests : req[r].proxy = p)
       => p \in open
  /\ coalescer = IF server # 0 /\ proxy[server] THEN server ELSE 0
  /\ coalescer \in alive \cup {0}

\* Without a note of it, nobody writes the files beside a start or a proxy.
FilesStill ==
  /\ \A p \in open : proxy[p] => ca.cert = ca.key /\ ca.key # 0
  /\ \A r \in Requests : req[r].pc \in Writing /\ (server # 0 \/ guiMu # None) => mixed
  /\ ~mixed => /\ \A r \in Requests :
                    /\ Is(r, "readKey") => req[r].cert = cert
                    /\ Is(r, "listen") /\ req[r].ca # 0 => req[r].cert = cert /\ req[r].ca = key
               /\ \A p \in open : proxy[p] => ca.cert = cert /\ ca.key = key

IInv == GuiTypes /\ Connections /\ Started /\ OneUp /\ FilesStill

-----------------------------------------------------------------------------
\* The invariant implies what the runs check.
LEMMA IInvTypes == IInv => TypeOK
<1> SUFFICES ASSUME IInv PROVE TypeOK
  OBVIOUS
<1>1. LocalTypeOK
  BY DEF IInv, GuiTypes, PlainTypes, ReqTypes, Connections, ConnFit, ConnRecord, LocalTypeOK
<1>2. ca.cert \in 0 .. cas /\ ca.key \in 0 .. cas
  BY DEF IInv, GuiTypes, PlainTypes, ReqTypes
<1>3. \A r \in Requests : /\ req[r].pc \in {"idle", "switch", "ping"} \cup Starting \cup Writing
                          /\ req[r].ca \in 0 .. cas /\ req[r].cert \in 0 .. cas
  BY DEF IInv, GuiTypes, PlainTypes, ReqTypes, ReqRecord
<1>4. QED
  BY <1>1, <1>2, <1>3 DEF IInv, GuiTypes, PlainTypes, ReqTypes, TypeOK

LEMMA IInvRoute == IInv => RouteSound
BY DEF IInv, Connections, ConnFit, NoConn, RouteSound, Relay, Domestic

LEMMA IInvCA == IInv => SoundCA
<1> SUFFICES ASSUME IInv PROVE SoundCA
  OBVIOUS
<1>1. server # 0 => server \in open
  BY DEF IInv, Started, OneUp
<1>2. ca.cert = cert /\ ca.key = key => ca = [cert |-> cert, key |-> key]
  BY DEF IInv, GuiTypes, PlainTypes, ReqTypes
<1>3. QED
  BY <1>1, <1>2 DEF IInv, FilesStill, SoundCA

LEMMA IInvProxy == IInv => OneProxy
<1> SUFFICES ASSUME IInv PROVE OneProxy
  OBVIOUS
<1>1. open = ({server} \ {0}) \cup Rising
  <2>1. CASE guiMu = None
    <3>1. Rising = {}
      BY <2>1, DesktopAssumption DEF IInv, GuiTypes, PlainTypes, ReqTypes, Rising, Is, Starting
    <3>2. QED
      BY <2>1, <3>1 DEF IInv, OneUp
  <2>2. CASE guiMu # None
    <3>1. guiMu \in Requests /\ req[guiMu].pc \in Starting
      BY <2>2 DEF IInv, GuiTypes, PlainTypes, ReqTypes
    <3>2. \A r \in Requests : Is(r, "publish") => r = guiMu
      BY DEF IInv, GuiTypes, PlainTypes, ReqTypes, Is, Starting
    <3>3. CASE req[guiMu].pc = "publish"
      BY <2>2, <3>1, <3>2, <3>3 DEF IInv, Started, Rising, Is
    <3>4. CASE req[guiMu].pc # "publish"
      BY <2>2, <3>1, <3>2, <3>4 DEF IInv, Started, Rising, Is, Starting
    <3>5. QED
      BY <3>3, <3>4
  <2>3. QED
    BY <2>1, <2>2
<1>2. QED
  BY <1>1 DEF IInv, OneUp, OneProxy

-----------------------------------------------------------------------------
LEMMA InitIInv == Init => IInv
<1> SUFFICES ASSUME Init PROVE IInv
  OBVIOUS
<1>1. proxy = <<>> /\ proxy \in Seq(BOOLEAN) /\ Proxies = {}
  BY DEF Init, LocalInit, Proxies
<1>2. GuiTypes
  <2>1. cas = 1 /\ MaxCAs \in Nat /\ MaxCAs >= 1
    BY DesktopAssumption DEF Init
  <2>2. /\ ca \in [cert : 0 .. cas, key : 0 .. cas] /\ cas \in 1 .. MaxCAs
        /\ cert \in 0 .. cas /\ key \in 0 .. cas
    BY <2>1 DEF Init, NoCA
  <2>3. /\ req \in [Requests -> ReqRecord]
        /\ \A r \in Requests : req[r].proxy = 0 /\ req[r].pc \notin Starting
    BY <2>1 DEF Init, Idle, Starting, ReqRecord
  <2>4. mixed \in BOOLEAN /\ guiMu = None /\ server = 0 /\ coalescer = 0 /\ config \in Configs
    BY DEF Init
  <2>5. direct \in BOOLEAN /\ open = {} /\ alive = {}
    BY DEF Init, LocalInit
  <2>6. QED
    BY <1>1, <2>2, <2>3, <2>4, <2>5, DesktopAssumption DEF GuiTypes, PlainTypes, ReqTypes
<1>3. Connections
  BY DEF Init, LocalInit, Connections
<1>4. Started /\ OneUp /\ FilesStill
  BY DEF Init, LocalInit, Started, OneUp, FilesStill, Idle, Is, Starting, Writing
<1>5. QED
  BY <1>2, <1>3, <1>4 DEF IInv

\* A step of one connection
LEMMA ConnectionStep ==
  ASSUME IInv, NEW c \in Conns, NEW new, new = NoConn \/ ConnFit(new),
         new.proxy \in alive => new.proxy \in open,
         conn' = [conn EXCEPT ![c] = new], UNCHANGED <<direct, proxies, gui, disk, req, mixed>>
  PROVE  IInv'
<1>1. UNCHANGED <<direct, proxy, open, alive, guiMu, server, coalescer, ca>>
  BY DEF proxies, gui
<1>2. UNCHANGED <<config, cert, key, cas, req, mixed, Proxies, ReqRecord>>
  BY <1>1 DEF disk, Proxies, ReqRecord
<1>3. GuiTypes' /\ Started' /\ FilesStill'
  BY <1>1, <1>2 DEF IInv, GuiTypes, PlainTypes, ReqTypes, Started, FilesStill, Is
<1>4. conn' = [d \in Conns |-> IF d = c THEN new ELSE conn[d]]
  BY DEF IInv, Connections
<1>5. Connections'
  BY <1>1, <1>2, <1>4 DEF IInv, Connections, ConnFit
<1>6. OneUp'
  BY <1>1, <1>2, <1>4 DEF IInv, OneUp
<1>7. QED
  BY <1>3, <1>5, <1>6 DEF IInv

\* A listener that is open is of a proxy that is up.
LEMMA AcceptInv ==
  ASSUME IInv, NEW c \in Conns, Accept(c), UNCHANGED <<gui, disk, req, mixed>> PROVE IInv'
<1>1. PICK p \in open, e \in Entries, h \in Hosts :
        Goes(c, [NoConn EXCEPT !.pc = "mode", !.entry = e, !.host = h, !.proxy = p])
  BY DEF Accept
<1>2. PICK new : new = [NoConn EXCEPT !.pc = "mode", !.entry = e, !.host = h, !.proxy = p]
  OBVIOUS
<1>3. p \in Proxies /\ p \in Nat
  BY DEF IInv, GuiTypes, PlainTypes, ReqTypes, Proxies
<1>4. ConnFit(new)
  BY <1>2, <1>3 DEF ConnFit, ConnRecord, NoConn
<1>5. new.proxy \in open
  BY <1>2 DEF NoConn
<1>6. QED
  BY <1>1, <1>2, <1>4, <1>5, ConnectionStep DEF Goes

\* Whatever a connection becomes, it stays at its proxy.
LEMMA GoesInv ==
  ASSUME IInv, NEW c \in Conns, NEW new, Goes(c, new), conn[c] # NoConn,
         new = NoConn \/ (ConnFit(new) /\ new.proxy = conn[c].proxy),
         UNCHANGED <<gui, disk, req, mixed>>
  PROVE  IInv'
<1>1. NoConn.proxy \notin alive
  BY DEF NoConn, IInv, GuiTypes, PlainTypes, ReqTypes, Proxies
<1>2. conn[c].proxy \in alive => conn[c].proxy \in open
  BY DEF IInv, OneUp
<1>3. QED
  BY <1>1, <1>2, ConnectionStep DEF Goes

LEMMA EndsInv ==
  ASSUME IInv, NEW c \in Conns, Ends(c), conn[c] # NoConn, UNCHANGED <<gui, disk, req, mixed>>
  PROVE  IInv'
BY GoesInv DEF Ends

LEMMA ReadModeInv ==
  ASSUME IInv, NEW c \in Conns, ReadMode(c), UNCHANGED <<gui, disk, req, mixed>> PROVE IInv'
<1>1. conn[c].pc = "mode" /\ conn[c] # NoConn
  BY DEF ReadMode, At, NoConn
<1>2. ConnFit(conn[c])
  BY <1>1 DEF IInv, Connections
<1>3. proxy[conn[c].proxy] \in BOOLEAN /\ direct \in BOOLEAN
  BY <1>2 DEF IInv, GuiTypes, PlainTypes, ReqTypes, ConnFit, Proxies
<1>4. CASE Ends(c)
  BY <1>1, <1>4, EndsInv
<1>5. CASE /\ Mode(c) # "disconnected" /\ conn[c].entry \in {"connect", "sockstls"}
           /\ Goes(c, [conn[c] EXCEPT !.pc = "route", !.mode = Mode(c)])
  <2>1. PICK new : new = [conn[c] EXCEPT !.pc = "route", !.mode = Mode(c)]
    OBVIOUS
  <2>2. /\ Mode(c) \in {"direct", "relay", "directRelay"}
        /\ Mode(c) = "direct" <=> ~proxy[conn[c].proxy]
        /\ direct <=> Mode(c) # "relay"
    <3>1. CASE direct /\ proxy[conn[c].proxy]
      BY <3>1 DEF Mode, Relay
    <3>2. CASE direct /\ ~proxy[conn[c].proxy]
      BY <3>2 DEF Mode, Relay
    <3>3. CASE ~direct /\ proxy[conn[c].proxy]
      BY <3>3 DEF Mode, Relay
    <3>4. CASE ~direct /\ ~proxy[conn[c].proxy]
      BY <1>5, <3>4 DEF Mode, Relay
    <3>5. QED
      BY <1>3, <3>1, <3>2, <3>3, <3>4
  <2>3. ConnFit(new) /\ new.proxy = conn[c].proxy
    BY <1>1, <1>2, <1>5, <2>1, <2>2 DEF ConnFit, ConnRecord
  <2>4. QED
    BY <1>1, <1>5, <2>1, <2>3, GoesInv
<1>6. CASE /\ conn[c].entry \notin {"connect", "sockstls"}
           /\ Goes(c, [conn[c] EXCEPT !.pc = "request"])
  <2>1. PICK new : new = [conn[c] EXCEPT !.pc = "request"]
    OBVIOUS
  <2>2. ConnFit(new) /\ new.proxy = conn[c].proxy
    BY <1>1, <1>2, <1>6, <2>1 DEF ConnFit, ConnRecord
  <2>3. QED
    BY <1>1, <1>6, <2>1, <2>2, GoesInv
<1>7. QED
  BY <1>4, <1>5, <1>6 DEF ReadMode

\* The route that is determined after the mode: if a Google host is dialled
\* plainly, direct mode has been switched off in between.
LEMMA WayFits ==
  ASSUME IInv, NEW c \in Conns, conn[c].pc = "route", ConnFit(conn[c])
  PROVE  /\ Way(c) \in {"fragment", "plain", "relay"}
         /\ Way(c) = "relay" => proxy[conn[c].proxy]
         /\ Way(c) = "plain" =>
              /\ ~proxy[conn[c].proxy] \/ Domestic(c)
              /\ ~IsGoogleDomain(conn[c].host) \/ conn[c].switched
<1>1. proxy[conn[c].proxy] \in BOOLEAN /\ direct \in BOOLEAN /\ conn[c].switched \in BOOLEAN
  BY DEF IInv, GuiTypes, PlainTypes, ReqTypes, ConnFit, ConnRecord, Proxies
<1>2. Domestic(c) => ~IsGoogleDomain(conn[c].host)
  BY DEF Domestic, ShouldUseDomesticBypass
<1>3. PICK on \in BOOLEAN : on = (direct /\ ~(conn[c].entry = "sockstls" /\ conn[c].mode = "relay"))
  BY <1>1
<1>4. /\ conn[c].mode \in {"direct", "relay", "directRelay"}
      /\ conn[c].mode = "direct" <=> ~proxy[conn[c].proxy]
      /\ ~conn[c].switched => (direct <=> conn[c].mode # "relay")
  BY DEF ConnFit
<1>5. Way(c) = IF ConnectRoute(conn[c].host, on) = "relay" /\ conn[c].mode = "direct" THEN "plain"
               ELSE ConnectRoute(conn[c].host, on)
  BY <1>3 DEF Way, AsksGoogle
<1>6. CASE on /\ IsGoogleDomain(conn[c].host)
  BY <1>5, <1>6 DEF ConnectRoute
<1>7. CASE ~(on /\ IsGoogleDomain(conn[c].host)) /\ Domestic(c)
  BY <1>2, <1>5, <1>7 DEF ConnectRoute, Domestic
<1>8. CASE ~(on /\ IsGoogleDomain(conn[c].host)) /\ ~Domestic(c)
  <2>1. ConnectRoute(conn[c].host, on) = "relay"
    BY <1>8 DEF ConnectRoute, Domestic
  <2>2. CASE conn[c].mode = "direct"
    <3>1. conn[c].switched \/ on
      BY <1>1, <1>3, <1>4, <2>2
    <3>2. QED
      BY <1>4, <1>5, <1>8, <2>1, <2>2, <3>1
  <2>3. CASE conn[c].mode # "direct"
    BY <1>1, <1>4, <1>5, <2>1, <2>3
  <2>4. QED
    BY <2>2, <2>3
<1>9. QED
  BY <1>6, <1>7, <1>8

LEMMA RouteInv ==
  ASSUME IInv, NEW c \in Conns, Route(c), UNCHANGED <<gui, disk, req, mixed>> PROVE IInv'
<1>1. conn[c].pc = "route" /\ conn[c] # NoConn
  BY DEF Route, At, NoConn
<1>2. ConnFit(conn[c])
  BY <1>1 DEF IInv, Connections
<1>3. CASE Ends(c)
  BY <1>1, <1>3, EndsInv
<1>4. CASE /\ Way(c) # "relay"
           /\ Goes(c, [conn[c] EXCEPT !.pc = "pipe", !.mode = "none", !.via = Way(c)])
  <2>1. PICK new : new = [conn[c] EXCEPT !.pc = "pipe", !.mode = "none", !.via = Way(c)]
    OBVIOUS
  <2>2. Way(c) \in {"fragment", "plain"}
    BY <1>1, <1>2, <1>4, WayFits
  <2>3. Way(c) = "plain" => /\ ~proxy[conn[c].proxy] \/ ShouldUseDomesticBypass(conn[c].host)
                            /\ ~IsGoogleDomain(conn[c].host) \/ conn[c].switched
    BY <1>1, <1>2, WayFits DEF Domestic
  <2>4. ConnFit(new) /\ new.proxy = conn[c].proxy
    BY <1>2, <2>1, <2>2, <2>3 DEF ConnFit, ConnRecord
  <2>5. QED
    BY <1>1, <1>4, <2>1, <2>4, GoesInv
<1>5. CASE /\ Relay(c)
           /\ Goes(c, [conn[c] EXCEPT !.pc = "request", !.mode = "none", !.switched = FALSE])
  <2>1. PICK new : new = [conn[c] EXCEPT !.pc = "request", !.mode = "none", !.switched = FALSE]
    OBVIOUS
  <2>2. ConnFit(new) /\ new.proxy = conn[c].proxy
    BY <1>1, <1>2, <1>5, <2>1 DEF ConnFit, ConnRecord, Relay
  <2>3. QED
    BY <1>1, <1>5, <2>1, <2>2, GoesInv
<1>6. QED
  BY <1>3, <1>4, <1>5 DEF Route

LEMMA CarriedInv ==
  ASSUME IInv, NEW c \in Conns, NEW way \in {"plain", "relay"}, conn[c].pc = "request",
         Relay(c), way = "plain" <=> Domestic(c), Carried(c, way), UNCHANGED <<gui, disk, req, mixed>>
  PROVE  IInv'
<1>1. conn[c] # NoConn /\ ConnFit(conn[c])
  BY DEF IInv, Connections, NoConn
<1>2. Domestic(c) => ~IsGoogleDomain(conn[c].host)
  BY DEF Domestic, ShouldUseDomesticBypass
<1>3. CASE \E to \in {"pipe", "request"} : Goes(c, [conn[c] EXCEPT !.via = way, !.pc = to])
  <2>1. PICK to \in {"pipe", "request"} : Goes(c, [conn[c] EXCEPT !.via = way, !.pc = to])
    BY <1>3
  <2>2. PICK new : new = [conn[c] EXCEPT !.via = way, !.pc = to]
    OBVIOUS
  <2>3. ConnFit(new) /\ new.proxy = conn[c].proxy
    BY <1>1, <1>2, <2>2 DEF ConnFit, ConnRecord, Relay, Domestic
  <2>4. QED
    BY <1>1, <2>1, <2>2, <2>3, GoesInv
<1>4. CASE \E h \in Hosts : Goes(c, [conn[c] EXCEPT !.host = h, !.via = "none"])
  <2>1. PICK h \in Hosts : Goes(c, [conn[c] EXCEPT !.host = h, !.via = "none"])
    BY <1>4
  <2>2. PICK new : new = [conn[c] EXCEPT !.host = h, !.via = "none"]
    OBVIOUS
  <2>3. ConnFit(new) /\ new.proxy = conn[c].proxy
    BY <1>1, <2>2 DEF ConnFit, ConnRecord
  <2>4. QED
    BY <1>1, <2>1, <2>2, <2>3, GoesInv
<1>5. QED
  BY <1>3, <1>4 DEF Carried

LEMMA RequestInv ==
  ASSUME IInv, NEW c \in Conns, Request(c), UNCHANGED <<gui, disk, req, mixed>> PROVE IInv'
<1>1. conn[c].pc = "request" /\ conn[c] # NoConn
  BY DEF Request, At, NoConn
<1>2. ConnFit(conn[c])
  BY <1>1 DEF IInv, Connections
<1>3. CASE ~Relay(c) /\ Goes(c, [conn[c] EXCEPT !.pc = "pipe", !.via = "plain"])
  <2>1. PICK new : new = [conn[c] EXCEPT !.pc = "pipe", !.via = "plain"]
    OBVIOUS
  <2>2. ConnFit(new) /\ new.proxy = conn[c].proxy
    BY <1>1, <1>2, <1>3, <2>1 DEF ConnFit, ConnRecord, Relay
  <2>3. QED
    BY <1>1, <1>3, <2>1, <2>2, GoesInv
<1>4. CASE Relay(c) /\ Domestic(c) /\ Carried(c, "plain")
  BY <1>1, <1>4, CarriedInv
<1>5. CASE Relay(c) /\ ~Domestic(c) /\ Carried(c, "relay")
  BY <1>1, <1>5, CarriedInv
<1>6. CASE Goes(c, [conn[c] EXCEPT !.pc = "pipe"])
  <2>1. PICK new : new = [conn[c] EXCEPT !.pc = "pipe"]
    OBVIOUS
  <2>2. ConnFit(new) /\ new.proxy = conn[c].proxy
    BY <1>1, <1>2, <2>1 DEF ConnFit, ConnRecord
  <2>3. QED
    BY <1>1, <1>6, <2>1, <2>2, GoesInv
<1>7. QED
  BY <1>3, <1>4, <1>5, <1>6 DEF Request

LEMMA ServeInv ==
  ASSUME IInv, NEW c \in Conns, Connection(c) PROVE IInv'
<1>1. UNCHANGED <<gui, disk, req, mixed>> /\ Serve(c)
  BY DEF Connection
<1>2. CASE Closed(c)
  <2>1. conn[c] # NoConn /\ Ends(c)
    BY <1>2 DEF Closed, NoConn
  <2>2. QED
    BY <1>1, <2>1, EndsInv
<1>3. QED
  BY <1>1, <1>2, AcceptInv, ReadModeInv, RouteInv, RequestInv DEF Serve

-----------------------------------------------------------------------------
\* A proxy more does not change what the connections' proxies are.
LEMMA ConnectionsKept ==
  ASSUME IInv, UNCHANGED <<direct, conn>>,
         \/ proxy' = proxy
         \/ \E relay \in BOOLEAN : proxy' = Append(proxy, relay)
  PROVE  Connections'
<1>1. Proxies \subseteq Proxies' /\ \A p \in Proxies : proxy'[p] = proxy[p]
  <2>1. proxy \in Seq(BOOLEAN) /\ Proxies = 1 .. Len(proxy) /\ Len(proxy) \in Nat
    BY DEF IInv, GuiTypes, PlainTypes, ReqTypes, Proxies
  <2>2. CASE proxy' = proxy
    BY <2>2 DEF Proxies
  <2>3. ASSUME NEW relay \in BOOLEAN, proxy' = Append(proxy, relay)
        PROVE  Proxies' = 1 .. Len(proxy) + 1 /\ \A p \in 1 .. Len(proxy) : proxy'[p] = proxy[p]
    <3>1. /\ Append(proxy, relay) \in Seq(BOOLEAN) /\ Len(Append(proxy, relay)) = Len(proxy) + 1
          /\ \A p \in 1 .. Len(proxy) : Append(proxy, relay)[p] = proxy[p]
      BY <2>1, AppendProperties
    <3>2. DOMAIN Append(proxy, relay) = 1 .. Len(Append(proxy, relay))
      BY <3>1, LenProperties
    <3>3. QED
      BY <2>3, <3>1, <3>2 DEF Proxies
  <2>4. QED
    BY <2>1, <2>2, <2>3
<1>2. SUFFICES ASSUME NEW c \in Conns, conn[c] # NoConn PROVE ConnFit(conn[c])'
  BY DEF IInv, Connections
<1>3. ConnFit(conn[c]) /\ conn[c].proxy \in Proxies
  BY <1>2 DEF IInv, Connections, ConnFit
<1>4. QED
  BY <1>1, <1>3 DEF ConnFit

\* A step of a request that starts nothing.  It may write the CA's files if
\* that is what it is there for.
LEMMA RequestStep ==
  ASSUME IInv, NEW r \in Requests, NEW new,
         new \in [pc : {"idle", "switch", "ping"} \cup Writing, ca : 0 .. cas, cert : 0 .. cas, proxy : Nat],
         req[r].pc \notin Starting, req' = [req EXCEPT ![r] = new],
         new.proxy = 0 \/ new.proxy \in open, new.pc \in Writing => req[r].pc \in Writing /\ new.proxy = 0,
         UNCHANGED <<local, gui, cas, mixed>>, config' \in Configs,
         cert' \in 0 .. cas, key' \in 0 .. cas,
         UNCHANGED <<cert, key>> \/ req[r].pc \in Writing
  PROVE  IInv'
<1>1. /\ UNCHANGED <<direct, proxy, open, alive, conn, Proxies>>
      /\ UNCHANGED <<guiMu, server, coalescer, ca, cas, mixed, ReqRecord>>
  BY DEF local, proxies, gui, Proxies, ReqRecord
<1>2. \A s \in Requests : req'[s] = IF s = r THEN new ELSE req[s]
  BY DEF IInv, GuiTypes, PlainTypes, ReqTypes
<1>3. new.pc \notin Starting /\ guiMu # r
  BY DEF IInv, GuiTypes, PlainTypes, ReqTypes, Starting, Writing
<1>4. GuiTypes'
  <2>1. req' \in [Requests -> ReqRecord]
    BY DEF IInv, GuiTypes, PlainTypes, ReqTypes, ReqRecord
  <2>2. \A s \in Requests : /\ req'[s].proxy \in Proxies \cup {0}
                            /\ req'[s].pc \in Starting <=> guiMu = s
    BY <1>2, <1>3 DEF IInv, GuiTypes, PlainTypes, ReqTypes
  <2>3. PlainTypes'
    BY <1>1 DEF IInv, GuiTypes, PlainTypes
  <2>4. QED
    BY <1>1, <2>1, <2>2, <2>3 DEF GuiTypes, ReqTypes
<1>5. Connections'
  BY <1>1, ConnectionsKept
<1>6. Started'
  BY <1>1, <1>2, <1>3 DEF IInv, Started, Is, Starting
<1>7. OneUp'
  <2>1. 0 \notin alive
    BY DEF IInv, GuiTypes, PlainTypes, ReqTypes, Proxies
  <2>2. QED
    BY <1>1, <1>2, <2>1 DEF IInv, OneUp
<1>8. FilesStill'
  <2>1. \A s \in Requests : req'[s].pc \in Writing => req[s].pc \in Writing
    BY <1>2
  <2>2. CASE UNCHANGED <<cert, key>>
    BY <1>1, <1>2, <1>3, <2>1, <2>2 DEF IInv, FilesStill, Is, Starting
  <2>3. CASE req[r].pc \in Writing /\ (server # 0 \/ guiMu # None)
    BY <1>1, <1>2, <2>1, <2>3 DEF IInv, FilesStill
  <2>4. CASE server = 0 /\ guiMu = None
    <3>1. open = {} /\ \A s \in Requests : req[s].pc \notin Starting
      BY <2>4, DesktopAssumption DEF IInv, OneUp, GuiTypes, PlainTypes, ReqTypes
    <3>2. \A s \in Requests : ~Is(s, "readKey")' /\ ~Is(s, "listen")'
      BY <1>2, <1>3, <3>1 DEF Is, Starting
    <3>3. QED
      BY <1>1, <2>4, <3>1, <3>2 DEF FilesStill
  <2>5. QED
    BY <2>2, <2>3, <2>4
<1>9. QED
  BY <1>4, <1>5, <1>6, <1>7, <1>8 DEF IInv

LEMMA IdleFits ==
  ASSUME IInv
  PROVE  /\ Idle \in [pc : {"idle"}, ca : 0 .. cas, cert : 0 .. cas, proxy : Nat]
         /\ \A r \in Requests : req[r] \in ReqRecord
         /\ UNCHANGED <<cert, key>> => cert' \in 0 .. cas /\ key' \in 0 .. cas
         /\ UNCHANGED config => config' \in Configs
BY DEF IInv, GuiTypes, PlainTypes, ReqTypes, Idle

LEMMA WriteCAInv == ASSUME IInv, NEW r \in Requests, WriteCA(r) PROVE IInv'
<1>1. UNCHANGED <<local, gui, config, cas, mixed>> /\ req[r].pc \in Writing
  BY DEF WriteCA, Is, Writing
<1>2. \/ Done(r)
      \/ \E to \in Writing : Step(r, [req[r] EXCEPT !.pc = to])
  BY DEF WriteCA, Writing
<1>3. req[r] \in [pc : Writing, ca : 0 .. cas, cert : 0 .. cas, proxy : Nat]
  BY <1>1, IdleFits DEF ReqRecord
<1>4. cert' \in 0 .. cas /\ key' \in 0 .. cas
  <2>1. cert \in 0 .. cas /\ key \in 0 .. cas /\ req[r].ca \in 0 .. cas /\ 0 \in 0 .. cas
    BY <1>3 DEF IInv, GuiTypes, PlainTypes, ReqTypes
  <2>2. cert' \in {cert, 0, req[r].ca} /\ key' \in {key, 0, req[r].ca}
    BY DEF WriteCA
  <2>3. QED
    BY <2>1, <2>2
<1>5. req[r].pc \notin Starting
  BY <1>1 DEF Starting, Writing
<1>6. config' \in Configs
  BY <1>1, IdleFits
<1>7. CASE Done(r)
  <2>1. PICK new : new = Idle
    OBVIOUS
  <2>2. /\ new \in [pc : {"idle", "switch", "ping"} \cup Writing, ca : 0 .. cas, cert : 0 .. cas, proxy : Nat]
        /\ new.proxy = 0 /\ new.pc \notin Writing
    BY <2>1, IdleFits DEF Idle, Writing
  <2>3. req' = [req EXCEPT ![r] = new]
    BY <1>7, <2>1 DEF Done, Step
  <2>4. QED
    BY <1>1, <1>4, <1>5, <1>6, <2>2, <2>3, RequestStep
<1>8. CASE \E to \in Writing : Step(r, [req[r] EXCEPT !.pc = to])
  <2>1. PICK to \in Writing : Step(r, [req[r] EXCEPT !.pc = to])
    BY <1>8
  <2>2. PICK new : new = [req[r] EXCEPT !.pc = to]
    OBVIOUS
  <2>3. /\ new \in [pc : {"idle", "switch", "ping"} \cup Writing, ca : 0 .. cas, cert : 0 .. cas, proxy : Nat]
        /\ new.proxy = req[r].proxy
    BY <1>3, <2>2
  <2>4. req[r].proxy = 0
    BY <1>1 DEF IInv, Started
  <2>5. QED
    BY <1>1, <1>4, <1>5, <1>6, <2>1, <2>2, <2>3, <2>4, RequestStep DEF Step
<1>9. QED
  BY <1>2, <1>7, <1>8

\* A request takes up or ends what it does without guiMu.
LEMMA MoveInv ==
  ASSUME IInv, NEW r \in Requests, NEW new,
         new \in [pc : {"idle", "switch", "ping"}, ca : {0}, cert : {0}, proxy : Nat],
         new.proxy = 0 \/ new.proxy \in open, req[r].pc \notin Starting, Step(r, new),
         UNCHANGED <<local, gui, cert, key, cas, mixed>>, config' \in Configs
  PROVE  IInv'
<1>1. new \in [pc : {"idle", "switch", "ping"} \cup Writing, ca : 0 .. cas, cert : 0 .. cas, proxy : Nat]
  BY DEF IInv, GuiTypes, PlainTypes, ReqTypes
<1>2. new.pc \notin Writing
  BY DEF Writing
<1>3. cert' \in 0 .. cas /\ key' \in 0 .. cas
  BY IdleFits
<1>4. QED
  BY <1>1, <1>2, <1>3, RequestStep DEF Step

LEMMA ActivateInv ==
  ASSUME IInv, NEW r \in Requests, Activate(r) \/ ActivateProfile(r) \/ Ping(r) \/ Pinged(r)
  PROVE  IInv'
<1>1. PICK new : /\ Step(r, new)
                 /\ \/ new = Idle
                    \/ new = [Idle EXCEPT !.pc = "switch"]
                    \/ Ping(r) /\ new = [Idle EXCEPT !.pc = "ping", !.proxy = coalescer]
  BY DEF Activate, ActivateProfile, Ping, Pinged, Done
<1>2. new \in [pc : {"idle", "switch", "ping"}, ca : {0}, cert : {0}, proxy : Nat]
  <2>1. coalescer \in Nat
    BY DEF IInv, GuiTypes, PlainTypes, ReqTypes, Proxies
  <2>2. CASE new = [Idle EXCEPT !.pc = "ping", !.proxy = coalescer]
    BY <2>1, <2>2 DEF Idle
  <2>3. CASE new = Idle
    BY <2>3 DEF Idle
  <2>4. CASE new = [Idle EXCEPT !.pc = "switch"]
    BY <2>4 DEF Idle
  <2>5. QED
    BY <1>1, <2>2, <2>3, <2>4
<1>3. new.proxy = 0 \/ new.proxy \in open
  <2>1. Ping(r) => coalescer \in open
    BY DEF Ping, IInv, OneUp
  <2>2. CASE Ping(r) /\ new = [Idle EXCEPT !.pc = "ping", !.proxy = coalescer]
    BY <2>1, <2>2 DEF Idle
  <2>3. CASE new = Idle
    BY <2>3 DEF Idle
  <2>4. CASE new = [Idle EXCEPT !.pc = "switch"]
    BY <2>4 DEF Idle
  <2>5. QED
    BY <1>1, <2>2, <2>3, <2>4
<1>4. req[r].pc \notin Starting
  BY DEF Activate, ActivateProfile, Ping, Pinged, Is, Starting
<1>5. UNCHANGED <<local, gui, cert, key, cas, mixed>> /\ config' \in Configs
  BY IdleFits DEF Activate, ActivateProfile, Ping, Pinged, disk
<1>6. QED
  BY <1>1, <1>2, <1>3, <1>4, <1>5, MoveInv

\* The configuration decides what a start does, and nothing that is kept.
LEMMA SaveConfigInv == ASSUME IInv, NEW r \in Requests, SaveConfig(r) PROVE IInv'
<1>1. /\ UNCHANGED <<direct, proxy, open, alive, conn, guiMu, server, coalescer, ca>>
      /\ UNCHANGED <<cert, key, cas, req, mixed, Proxies, ReqRecord>> /\ config' \in Configs
  BY DEF SaveConfig, local, proxies, gui, Proxies, ReqRecord
<1>2. GuiTypes' /\ Started' /\ OneUp' /\ FilesStill'
  BY <1>1 DEF IInv, GuiTypes, PlainTypes, ReqTypes, Started, OneUp, FilesStill, Is
<1>3. QED
  BY <1>1, <1>2, ConnectionsKept DEF IInv

\* A connection between its two readings notes that the mode was switched.
LEMMA SettingsInv == ASSUME IInv, NEW r \in Requests, Settings(r) PROVE IInv'
<1>1. /\ UNCHANGED <<proxy, open, alive, guiMu, server, coalescer, ca>>
      /\ UNCHANGED <<cert, key, cas, req, mixed, Proxies, ReqRecord>> /\ config' \in Configs
  BY DEF Settings, proxies, gui, Proxies, ReqRecord
<1>2. PICK on \in BOOLEAN : SetDirect(on)
  BY DEF Settings
<1>3. direct' = on
  BY <1>2 DEF SetDirect
<1>4. \A c \in Conns : conn'[c] = IF conn[c].pc = "route" /\ on # direct
                                  THEN [conn[c] EXCEPT !.switched = TRUE] ELSE conn[c]
  BY <1>2 DEF SetDirect, At
<1>5. conn' = [c \in Conns |-> conn'[c]]
  BY <1>2 DEF SetDirect
<1>6. ASSUME NEW c \in Conns PROVE /\ conn'[c] = NoConn \/ ConnFit(conn[c])'
                                   /\ conn'[c].proxy = conn[c].proxy
  <2>1. CASE conn[c].pc = "route" /\ on # direct
    <3>1. conn[c] # NoConn /\ ConnFit(conn[c])
      BY <2>1 DEF NoConn, IInv, Connections
    <3>2. PICK new : new = [conn[c] EXCEPT !.switched = TRUE]
      OBVIOUS
    <3>3. /\ new \in ConnRecord /\ new.switched = TRUE /\ new.pc = "route"
          /\ new.proxy = conn[c].proxy /\ new.entry = conn[c].entry /\ new.host = conn[c].host
          /\ new.mode = conn[c].mode /\ new.via = conn[c].via
      BY <2>1, <3>1, <3>2 DEF ConnFit, ConnRecord
    <3>4. conn'[c] = new
      BY <1>4, <2>1, <3>2
    <3>5. QED
      BY <1>1, <2>1, <3>1, <3>3, <3>4 DEF ConnFit
  <2>2. CASE conn[c].pc # "route" \/ on = direct
    <3>1. conn'[c] = conn[c]
      BY <1>4, <2>2
    <3>2. QED
      BY <1>1, <1>3, <2>2, <3>1 DEF IInv, Connections, ConnFit
  <2>3. QED
    BY <2>1, <2>2
<1>7. Connections'
  BY <1>5, <1>6 DEF Connections
<1>8. GuiTypes' /\ Started' /\ FilesStill'
  BY <1>1, <1>3 DEF IInv, GuiTypes, PlainTypes, ReqTypes, Started, FilesStill, Is
<1>9. OneUp'
  BY <1>1, <1>6 DEF IInv, OneUp
<1>10. QED
  BY <1>7, <1>8, <1>9 DEF IInv

-----------------------------------------------------------------------------
\* What a request of the invariant's types becomes
LEMMA StepTypes ==
  ASSUME IInv, NEW r \in Requests, NEW new,
         new \in ReqRecord,
         Step(r, new)
  PROVE  /\ req' \in [Requests -> ReqRecord]
         /\ \A s \in Requests : req'[s] = IF s = r THEN new ELSE req[s]
  BY DEF IInv, GuiTypes, PlainTypes, ReqTypes, Step

\* Whoever starts notes the writers that are at the files.
LEMMA StartInv == ASSUME IInv, NEW r \in Requests, Start(r) PROVE IInv'
<1>1. /\ UNCHANGED <<direct, proxy, open, alive, conn, Proxies>>
      /\ UNCHANGED <<server, coalescer, ca, config, cert, key, cas, ReqRecord>>
  BY DEF Start, local, proxies, disk, Proxies, ReqRecord
<1>2. guiMu = None /\ mixed' = (mixed \/ Others(r, Writing)) /\ req[r].pc = "idle"
  BY DEF Start, Is
<1>3. Connections' /\ mixed' \in BOOLEAN
  <2>1. mixed \in BOOLEAN /\ Others(r, Writing) \in BOOLEAN
    BY DEF IInv, GuiTypes, PlainTypes, ReqTypes, Others
  <2>2. QED
    BY <1>1, <1>2, <2>1, ConnectionsKept
<1>4. CASE UNCHANGED <<guiMu, req>>
  <2>1. GuiTypes' /\ Started' /\ OneUp'
    BY <1>1, <1>3, <1>4 DEF IInv, GuiTypes, PlainTypes, ReqTypes, Started, OneUp, Is
  <2>2. mixed => mixed'
    BY <1>2
  <2>3. FilesStill'
    BY <1>1, <1>4, <2>2 DEF IInv, FilesStill, Is
  <2>4. QED
    BY <1>3, <2>1, <2>3 DEF IInv
<1>5. CASE \E to \in {"listen", "readCert"} : server = 0 /\ guiMu' = r /\ Step(r, [Idle EXCEPT !.pc = to])
  <2>1. PICK to \in {"listen", "readCert"} : server = 0 /\ guiMu' = r /\ Step(r, [Idle EXCEPT !.pc = to])
    BY <1>5
  <2>2. PICK new : new = [Idle EXCEPT !.pc = to]
    OBVIOUS
  <2>3. /\ new \in ReqRecord
        /\ new.pc = to /\ new.ca = 0 /\ new.proxy = 0
    BY <2>2 DEF IInv, GuiTypes, PlainTypes, ReqTypes, ReqRecord, Idle, Starting
  <2>4. /\ req' \in [Requests -> ReqRecord]
        /\ \A s \in Requests : req'[s] = IF s = r THEN new ELSE req[s]
    BY <2>1, <2>2, <2>3, StepTypes
  <2>5. \A s \in Requests : req[s].pc \notin Starting
    BY <1>2, DesktopAssumption DEF IInv, GuiTypes, PlainTypes, ReqTypes
  <2>6. open = {} /\ coalescer = 0 /\ 0 \notin alive
    BY <1>2, <2>1 DEF IInv, OneUp, GuiTypes, PlainTypes, ReqTypes, Proxies
  <2>7. GuiTypes'
    <3>1. \A s \in Requests : /\ req'[s].proxy \in Proxies \cup {0}
                              /\ req'[s].pc \in Starting <=> guiMu' = s
      BY <2>1, <2>3, <2>4, <2>5 DEF IInv, GuiTypes, PlainTypes, ReqTypes, Starting
    <3>2. QED
      BY <1>1, <1>3, <2>1, <2>4, <3>1 DEF IInv, GuiTypes, PlainTypes, ReqTypes
  <2>8. Started'
    BY <1>1, <2>1, <2>3, <2>4, <2>5, <2>6 DEF IInv, Started, Is, Starting, Writing
  <2>9. OneUp'
    BY <1>1, <2>1, <2>3, <2>4, <2>6, DesktopAssumption DEF IInv, OneUp
  <2>10. FilesStill'
    <3>1. \A s \in Requests : req'[s].pc \in Writing => mixed'
      BY <1>2, <2>3, <2>4 DEF Others, Writing
    <3>2. \A s \in Requests : ~Is(s, "readKey")' /\ (Is(s, "listen")' => req'[s].ca = 0)
      BY <2>3, <2>4, <2>5 DEF Is, Starting
    <3>3. QED
      BY <1>1, <2>6, <3>1, <3>2 DEF FilesStill
  <2>11. QED
    BY <1>3, <2>7, <2>8, <2>9, <2>10 DEF IInv
<1>6. QED
  BY <1>4, <1>5 DEF Start

\* The one that holds guiMu goes on: nobody else is starting.
LEMMA OnlyStarter ==
  ASSUME IInv, NEW r \in Requests, req[r].pc \in Starting
  PROVE  /\ guiMu = r /\ server = 0 /\ coalescer = 0 /\ guiMu # None
         /\ \A s \in Requests : s # r => req[s].pc \notin Starting
  BY DesktopAssumption DEF IInv, GuiTypes, PlainTypes, ReqTypes, Started

LEMMA ReadCertInv == ASSUME IInv, NEW r \in Requests, ReadCert(r) PROVE IInv'
<1>1. /\ UNCHANGED <<direct, proxy, open, alive, conn, Proxies, guiMu, server, coalescer, ca>>
      /\ UNCHANGED <<config, cert, key, cas, mixed, ReqRecord>>
  BY DEF ReadCert, local, proxies, gui, disk, Proxies, ReqRecord
<1>2. PICK new : new = [req[r] EXCEPT !.pc = "readKey", !.cert = cert] /\ Step(r, new)
  BY DEF ReadCert
<1>3. req[r].pc = "readCert" /\ req[r].pc \in Starting
  BY DEF ReadCert, Is, Starting
<1>4. /\ new \in ReqRecord
      /\ new.pc = "readKey" /\ new.cert = cert /\ new.proxy = req[r].proxy
  BY <1>2 DEF IInv, GuiTypes, PlainTypes, ReqTypes, ReqRecord, Starting
<1>5. /\ req' \in [Requests -> ReqRecord]
      /\ \A s \in Requests : req'[s] = IF s = r THEN new ELSE req[s]
  BY <1>2, <1>4, StepTypes
<1>6. GuiTypes'
  <2>1. (\A s \in Requests : /\ req[s].proxy \in Proxies \cup {0}
                             /\ req[s].pc \in Starting <=> guiMu = s)'
    BY <1>1, <1>3, <1>4, <1>5 DEF IInv, GuiTypes, PlainTypes, ReqTypes, Starting
  <2>2. (req \in [Requests -> ReqRecord])'
    BY <1>1, <1>5
  <2>3. PlainTypes'
    BY <1>1 DEF IInv, GuiTypes, PlainTypes
  <2>4. QED
    BY <2>1, <2>2, <2>3 DEF GuiTypes, ReqTypes
<1>7. Started'
  BY <1>1, <1>3, <1>4, <1>5 DEF IInv, Started, Is, Starting, Writing
<1>8. OneUp'
  BY <1>1, <1>4, <1>5 DEF IInv, OneUp
<1>9. FilesStill'
  <2>1. \A s \in Requests : req'[s].pc \in Writing => req[s].pc \in Writing
    BY <1>4, <1>5 DEF Writing
  <2>2. \A s \in Requests : /\ Is(s, "readKey")' => s = r \/ Is(s, "readKey")
                            /\ Is(s, "listen")' => s # r /\ Is(s, "listen")
    BY <1>4, <1>5 DEF Is
  <2>3. req'[r].cert = cert
    BY <1>4, <1>5
  <2>4. \A s \in Requests : s # r => req'[s] = req[s]
    BY <1>5
  <2>5. /\ \A p \in open : proxy[p] => ca.cert = ca.key /\ ca.key # 0
        /\ \A s \in Requests : req'[s].pc \in Writing /\ (server # 0 \/ guiMu # None) => mixed
    BY <2>1 DEF IInv, FilesStill
  <2>6. ~mixed => \A s \in Requests :
                    /\ req'[s].pc = "readKey" => req'[s].cert = cert
                    /\ req'[s].pc = "listen" /\ req'[s].ca # 0 => req'[s].cert = cert /\ req'[s].ca = key
    <3>1. SUFFICES ASSUME ~mixed, NEW s \in Requests
                   PROVE  /\ req'[s].pc = "readKey" => req'[s].cert = cert
                          /\ req'[s].pc = "listen" /\ req'[s].ca # 0
                               => req'[s].cert = cert /\ req'[s].ca = key
      OBVIOUS
    <3>2. CASE s = r
      BY <1>4, <1>5, <2>3, <3>2
    <3>3. CASE s # r
      BY <2>4, <3>1, <3>3 DEF IInv, FilesStill, Is
    <3>4. QED
      BY <3>2, <3>3
  <2>7. QED
    BY <1>1, <2>5, <2>6 DEF IInv, FilesStill, Is
<1>10. QED
  BY <1>1, <1>6, <1>7, <1>8, <1>9, ConnectionsKept DEF IInv

\* A proxy more, and its coalescer if it has a relay
LEMMA NewProxy ==
  ASSUME IInv, NEW relay \in BOOLEAN, proxy' = Append(proxy, relay),
         alive' = IF relay THEN alive \cup {Len(proxy) + 1} ELSE alive
  PROVE  /\ proxy' \in Seq(BOOLEAN) /\ Proxies \subseteq Proxies'
         /\ Len(proxy) + 1 \in Proxies' /\ Len(proxy) + 1 \notin Proxies /\ Len(proxy) + 1 # 0
         /\ proxy'[Len(proxy) + 1] = relay
         /\ alive' \subseteq {p \in Proxies' : proxy'[p]}
         /\ alive' \subseteq alive \cup {Len(proxy) + 1}
<1>1. /\ proxy \in Seq(BOOLEAN) /\ Proxies = 1 .. Len(proxy) /\ Len(proxy) \in Nat
      /\ alive \subseteq {p \in Proxies : proxy[p]}
  BY DEF IInv, GuiTypes, PlainTypes, Proxies
<1>2. /\ proxy' \in Seq(BOOLEAN) /\ Len(proxy') = Len(proxy) + 1
      /\ \A p \in 1 .. Len(proxy) : proxy'[p] = proxy[p]
      /\ proxy'[Len(proxy) + 1] = relay
  BY <1>1, AppendProperties
<1>3. Proxies' = 1 .. Len(proxy) + 1
  BY <1>2, LenProperties DEF Proxies
<1>4. CASE relay
  <2>1. alive' = alive \cup {Len(proxy) + 1} /\ proxy'[Len(proxy) + 1]
    BY <1>2, <1>4
  <2>2. \A p \in alive : p \in 1 .. Len(proxy) /\ proxy'[p]
    BY <1>1, <1>2
  <2>3. QED
    BY <1>1, <1>2, <1>3, <2>1, <2>2
<1>5. CASE ~relay
  BY <1>1, <1>2, <1>3, <1>5
<1>6. QED
  BY <1>4, <1>5

\* A handler that ends without a proxy
LEMMA GiveUpInv ==
  ASSUME IInv, NEW r \in Requests, req[r].pc \in Starting \ {"publish"}, Finish(r),
         UNCHANGED <<direct, conn, open, server, coalescer, ca, disk, mixed>>,
         \/ UNCHANGED <<proxy, alive>>
         \/ \E relay \in BOOLEAN :
              proxy' = Append(proxy, relay)
              /\ alive' = IF relay THEN alive \cup {Len(proxy) + 1} ELSE alive
  PROVE  IInv'
<1>1. UNCHANGED <<config, cert, key, cas, ReqRecord>> /\ guiMu' = None
  BY DEF disk, Finish, ReqRecord
<1>2. PICK new : new = Idle /\ Step(r, new)
  BY DEF Finish, Done
<1>3. /\ new \in ReqRecord
      /\ new.pc = "idle" /\ new.proxy = 0
  BY <1>2 DEF IInv, GuiTypes, PlainTypes, ReqTypes, ReqRecord, Idle
<1>4. /\ req' \in [Requests -> ReqRecord]
      /\ \A s \in Requests : req'[s] = IF s = r THEN new ELSE req[s]
  BY <1>2, <1>3, StepTypes
<1>5. open = {} /\ server = 0 /\ coalescer = 0 /\ \A s \in Requests : req'[s].pc \notin Starting
  BY <1>3, <1>4, OnlyStarter DEF IInv, Started, Starting
<1>6. /\ proxy \in Seq(BOOLEAN) /\ Proxies = 1 .. Len(proxy) /\ Len(proxy) \in Nat
      /\ alive \subseteq {p \in Proxies : proxy[p]}
  BY DEF IInv, GuiTypes, PlainTypes, ReqTypes, Proxies
<1>7. /\ proxy' \in Seq(BOOLEAN) /\ alive' \subseteq {p \in Proxies' : proxy'[p]}
      /\ alive' \subseteq alive \cup {Len(proxy) + 1} /\ Proxies \subseteq Proxies'
  <2>1. CASE UNCHANGED <<proxy, alive>>
    BY <1>6, <2>1 DEF Proxies
  <2>2. ASSUME NEW relay \in BOOLEAN, proxy' = Append(proxy, relay),
               alive' = IF relay THEN alive \cup {Len(proxy) + 1} ELSE alive
        PROVE  /\ proxy' \in Seq(BOOLEAN) /\ alive' \subseteq {p \in Proxies' : proxy'[p]}
               /\ alive' \subseteq alive \cup {Len(proxy) + 1} /\ Proxies \subseteq Proxies'
    BY <2>2, NewProxy
  <2>3. QED
    BY <2>1, <2>2
<1>8. GuiTypes'
  <2>1. (\A s \in Requests : /\ req[s].proxy \in Proxies \cup {0}
                             /\ req[s].pc \in Starting <=> guiMu = s)'
    BY <1>1, <1>3, <1>4, <1>5, <1>7, DesktopAssumption DEF IInv, GuiTypes, PlainTypes, ReqTypes
  <2>2. (req \in [Requests -> ReqRecord])' /\ server = 0 /\ coalescer = 0 /\ open = {}
    BY <1>1, <1>4, <1>5
  <2>3. PlainTypes'
    BY <1>1, <1>7, <2>2 DEF IInv, GuiTypes, PlainTypes
  <2>4. QED
    BY <2>1, <2>2, <2>3 DEF GuiTypes, ReqTypes
<1>9. Started'
  BY <1>1, <1>3, <1>4, <1>5 DEF IInv, Started, Is, Starting, Writing
<1>10. OneUp'
  <2>1. \A c \in Conns : conn[c].proxy # Len(proxy) + 1
    BY <1>6 DEF IInv, Connections, ConnFit, NoConn
  <2>2. \A s \in Requests : req'[s].proxy # Len(proxy) + 1 /\ req'[s].proxy \in {0, req[s].proxy}
    BY <1>3, <1>4, <1>6 DEF IInv, GuiTypes, PlainTypes, ReqTypes
  <2>3. 0 \notin alive
    BY <1>6
  <2>4. QED
    BY <1>1, <1>5, <1>7, <2>1, <2>2, <2>3 DEF IInv, OneUp
<1>11. FilesStill'
  BY <1>1, <1>4, <1>5 DEF FilesStill, Is, Starting
<1>12. Connections'
  BY ConnectionsKept
<1>13. QED
  BY <1>8, <1>9, <1>10, <1>11, <1>12 DEF IInv

\* What the two files hold when both have been read
LEMMA ReadKeyInv == ASSUME IInv, NEW r \in Requests, ReadKey(r) PROVE IInv'
<1>1. req[r].pc = "readKey" /\ req[r].pc \in Starting
  BY DEF ReadKey, Is, Starting
<1>2. UNCHANGED <<direct, proxy, open, alive, conn, Proxies, server, coalescer, ca, disk, mixed>>
  BY DEF ReadKey, local, proxies, Proxies
<1>3. CASE Finish(r)
  BY <1>1, <1>2, <1>3, GiveUpInv
<1>4. CASE /\ Pair(req[r].cert, key) /\ UNCHANGED guiMu
           /\ Step(r, [req[r] EXCEPT !.pc = "listen", !.ca = key])
  <2>1. PICK new : new = [req[r] EXCEPT !.pc = "listen", !.ca = key]
    OBVIOUS
  <2>2. /\ new \in ReqRecord
        /\ new.pc = "listen" /\ new.ca = key /\ new.cert = key /\ new.cert = req[r].cert
        /\ new.proxy = req[r].proxy
    BY <1>4, <2>1 DEF IInv, GuiTypes, PlainTypes, ReqTypes, ReqRecord, Starting, Pair
  <2>3. /\ req' \in [Requests -> ReqRecord]
        /\ \A s \in Requests : req'[s] = IF s = r THEN new ELSE req[s]
    BY <1>4, <2>1, <2>2, StepTypes
  <2>4. UNCHANGED <<config, cert, key, cas, ReqRecord>>
    BY <1>2 DEF disk, ReqRecord
  <2>5. GuiTypes'
    <3>1. (\A s \in Requests : /\ req[s].proxy \in Proxies \cup {0}
                               /\ req[s].pc \in Starting <=> guiMu = s)'
      BY <1>1, <1>2, <1>4, <2>2, <2>3 DEF IInv, GuiTypes, ReqTypes, Starting
    <3>2. (req \in [Requests -> ReqRecord])' /\ UNCHANGED guiMu
      BY <1>4, <2>3, <2>4
    <3>3. PlainTypes'
      BY <1>2, <2>4, <3>2 DEF IInv, GuiTypes, PlainTypes
    <3>4. QED
      BY <3>1, <3>2, <3>3 DEF GuiTypes, ReqTypes
  <2>6. Started'
    BY <1>1, <1>2, <1>4, <2>2, <2>3 DEF IInv, Started, Is, Starting, Writing
  <2>7. OneUp'
    BY <1>2, <1>4, <2>2, <2>3 DEF IInv, OneUp
  <2>8. FilesStill'
    <3>1. \A s \in Requests : req'[s].pc \in Writing => req[s].pc \in Writing
      BY <2>2, <2>3 DEF Writing
    <3>2. \A s \in Requests : s # r => ~Is(s, "readKey")' /\ ~Is(s, "listen")'
      BY <1>1, <2>3, OnlyStarter DEF Is, Starting
    <3>3. ~Is(r, "readKey")' /\ (~mixed => req'[r].cert = cert)
      BY <1>1, <2>2, <2>3 DEF IInv, FilesStill, Is
    <3>4. QED
      BY <1>2, <1>4, <2>2, <2>3, <2>4, <3>1, <3>2, <3>3 DEF IInv, FilesStill
  <2>9. QED
    BY <1>2, <2>5, <2>6, <2>7, <2>8, ConnectionsKept DEF IInv
<1>5. QED
  BY <1>3, <1>4 DEF ReadKey

\* A proxy has been built, and its listeners are open.
LEMMA ListenInv == ASSUME IInv, NEW r \in Requests, Listen(r) PROVE IInv'
<1> DEFINE n == Len(proxy) + 1
<1>1. req[r].pc = "listen" /\ req[r].pc \in Starting
  BY DEF Listen, Is, Starting
<1>2. UNCHANGED <<direct, conn, server, coalescer, disk, mixed>>
  BY DEF Listen
<1>3. PICK relay \in BOOLEAN :
        /\ relay = (req[r].ca # 0)
        /\ proxy' = Append(proxy, relay)
        /\ alive' = IF relay THEN alive \cup {n} ELSE alive
  BY DEF Listen
<1>4. CASE Finish(r) /\ UNCHANGED <<open, ca>>
  BY <1>1, <1>2, <1>3, <1>4, GiveUpInv
<1>5. CASE /\ open' = open \cup {n}
           /\ ca' = [cert |-> req[r].cert, key |-> req[r].ca]
           /\ Step(r, [Idle EXCEPT !.pc = "publish", !.proxy = n])
           /\ UNCHANGED guiMu
  <2>1. UNCHANGED <<config, cert, key, cas, ReqRecord>>
    BY <1>2 DEF disk, ReqRecord
  <2>2. /\ proxy' \in Seq(BOOLEAN) /\ Proxies \subseteq Proxies'
        /\ n \in Proxies' /\ n \notin Proxies /\ n # 0 /\ proxy'[n] = relay
        /\ alive' \subseteq {p \in Proxies' : proxy'[p]} /\ alive' \subseteq alive \cup {n}
    BY <1>3, NewProxy
  <2>3. n \in Nat /\ 0 \in 0 .. cas
    BY DEF IInv, GuiTypes, PlainTypes
  <2>a. open = {} /\ open' = {n}
    BY <1>1, <1>5 DEF IInv, Started, OneUp, Starting
  <2> HIDE DEF n
  <2>4. PICK new : new = [Idle EXCEPT !.pc = "publish", !.proxy = n]
    OBVIOUS
  <2>5. new \in ReqRecord /\ new.pc = "publish" /\ new.proxy = n
    BY <2>3, <2>4 DEF ReqRecord, Idle, Starting
  <2>6. /\ req' \in [Requests -> ReqRecord]
        /\ \A s \in Requests : req'[s] = IF s = r THEN new ELSE req[s]
    BY <1>5, <2>4, <2>5, StepTypes
  <2>7. /\ guiMu = r /\ server = 0 /\ coalescer = 0 /\ guiMu # None
        /\ \A s \in Requests : s # r => req[s].pc \notin Starting
    BY <1>1, OnlyStarter
  <2>8. GuiTypes'
    <3>1. ReqTypes'
      BY <1>5, <2>1, <2>2, <2>5, <2>6, <2>7 DEF IInv, GuiTypes, ReqTypes, Starting
    <3>2. ca' \in [cert : 0 .. cas, key : 0 .. cas]
      BY <1>5 DEF IInv, GuiTypes, ReqTypes, ReqRecord
    <3>3. PlainTypes'
      BY <1>2, <1>5, <2>a, <2>1, <2>2, <3>2 DEF IInv, GuiTypes, PlainTypes
    <3>4. QED
      BY <3>1, <3>3 DEF GuiTypes
  <2>9. Started'
    BY <1>2, <1>3, <1>5, <2>a, <2>2, <2>5, <2>6, <2>7 DEF IInv, Started, Is, Starting, Writing
  <2>10. OneUp'
    <3>1. \A p \in alive : /\ \A c \in Conns : conn[c].proxy # p
                           /\ \A s \in Requests : req[s].proxy # p
      BY <2>a DEF IInv, OneUp
    <3>2. \A p \in alive' : (\E c \in Conns : conn[c].proxy = p) \/ (\E s \in Requests : req'[s].proxy = p)
            => p = n
      BY <2>2, <2>5, <2>6, <3>1
    <3>3. QED
      BY <1>2, <1>5, <2>a, <2>7, <3>2 DEF OneUp
  <2>11. FilesStill'
    <3>1. /\ relay => ca'.cert = ca'.key /\ ca'.key # 0
          /\ ~mixed /\ relay => ca'.cert = cert /\ ca'.key = key
      BY <1>1, <1>3, <1>5 DEF IInv, Started, FilesStill, Is
    <3>2. \A s \in Requests : req'[s].pc \in Writing => req[s].pc \in Writing
      BY <2>5, <2>6 DEF Writing
    <3>3. \A s \in Requests : ~Is(s, "readKey")' /\ ~Is(s, "listen")'
      BY <2>5, <2>6, <2>7 DEF Is, Starting
    <3>4. \A s \in Requests : req[s].pc \in Writing => mixed
      BY <2>7 DEF IInv, FilesStill
    <3>5. QED
      BY <1>2, <1>5, <2>a, <2>1, <2>2, <3>1, <3>2, <3>3, <3>4 DEF FilesStill
  <2>12. Connections'
    BY <1>2, <1>3, ConnectionsKept
  <2>13. QED
    BY <2>8, <2>9, <2>10, <2>11, <2>12 DEF IInv
<1>6. QED
  BY <1>3, <1>4, <1>5 DEF Listen

\* The proxy that has been started is the one to stop.
LEMMA PublishInv == ASSUME IInv, NEW r \in Requests, Publish(r) PROVE IInv'
<1> DEFINE p == req[r].proxy
<1>1. Is(r, "publish") /\ req[r].pc \in Starting
  BY DEF Publish, Is, Starting
<1>2. /\ UNCHANGED <<direct, proxy, open, alive, conn, Proxies, ca>>
      /\ UNCHANGED <<config, cert, key, cas, mixed, ReqRecord>>
      /\ server' = p /\ coalescer' = (IF proxy[p] THEN p ELSE 0) /\ guiMu' = None
  BY DEF Publish, Finish, local, proxies, disk, Proxies, ReqRecord
<1>3. p # 0 /\ p \in Proxies /\ open = {p} /\ (proxy[p] => p \in alive)
  BY <1>1 DEF IInv, GuiTypes, ReqTypes, Started
<1>4. PICK new : new = Idle /\ Step(r, new)
  BY DEF Publish, Finish, Done
<1>5. new \in ReqRecord /\ new.pc = "idle" /\ new.proxy = 0
  BY <1>4 DEF IInv, GuiTypes, PlainTypes, ReqRecord, Idle
<1>6. /\ req' \in [Requests -> ReqRecord]
      /\ \A s \in Requests : req'[s] = IF s = r THEN new ELSE req[s]
  BY <1>4, <1>5, StepTypes
<1>7. \A s \in Requests : req'[s].pc \notin Starting
  BY <1>1, <1>5, <1>6, OnlyStarter DEF Starting
<1>8. GuiTypes'
  <2>1. ReqTypes'
    BY <1>2, <1>5, <1>6, <1>7, DesktopAssumption DEF IInv, GuiTypes, ReqTypes
  <2>2. PlainTypes'
    BY <1>2, <1>3 DEF IInv, GuiTypes, PlainTypes
  <2>3. QED
    BY <2>1, <2>2 DEF GuiTypes
<1>9. Started'
  BY <1>2, <1>5, <1>6, <1>7 DEF IInv, Started, Is, Starting, Writing
<1>10. OneUp'
  <2>1. \A q \in alive : (\E c \in Conns : conn[c].proxy = q) \/ (\E s \in Requests : req'[s].proxy = q)
          => q = p
    <3>1. 0 \notin alive
      BY DEF IInv, GuiTypes, PlainTypes, Proxies
    <3>2. QED
      BY <1>3, <1>5, <1>6, <3>1 DEF IInv, OneUp
  <2>2. QED
    BY <1>2, <1>3, <2>1 DEF OneUp
<1>11. FilesStill'
  <2>1. \A s \in Requests : req'[s].pc \in Writing => mixed
    BY <1>1, <1>5, <1>6, OnlyStarter DEF IInv, FilesStill, Writing
  <2>2. \A s \in Requests : ~Is(s, "readKey")' /\ ~Is(s, "listen")'
    BY <1>7 DEF Is, Starting
  <2>3. QED
    BY <1>2, <2>1, <2>2 DEF IInv, FilesStill
<1>12. QED
  BY <1>2, <1>8, <1>9, <1>10, <1>11, ConnectionsKept DEF IInv

\* With guiMu free there is a proxy or none, and it is the one that stops.
LEMMA StopProxyInv ==
  ASSUME IInv, NEW r \in Requests, req[r].pc = "idle", guiMu = None, StopProxy, NEW new,
         new \in [pc : {"idle", "cert1"}, ca : 0 .. cas', cert : 0 .. cas', proxy : Nat],
         new.proxy \in {0, req[r].proxy}, new.pc = "cert1" => new.proxy = 0,
         Step(r, new), mixed' \in BOOLEAN,
         cas' = cas \/ (cas < MaxCAs /\ cas' = cas + 1),
         UNCHANGED <<direct, proxy, conn, guiMu, config, cert, key>>
  PROVE  IInv'
<1>1. Proxies' = Proxies /\ server' = 0 /\ coalescer' = 0 /\ ca' = NoCA
  BY DEF StopProxy, Proxies
<1>2. /\ \A s \in Requests : req'[s] = IF s = r THEN new ELSE req[s]
      /\ req' = [s \in Requests |-> req'[s]]
  BY DEF IInv, GuiTypes, ReqTypes, Step
<1>3. /\ cas \in Nat /\ cas' \in 1 .. MaxCAs
      /\ \A k \in 0 .. cas : k \in 0 .. cas'
      /\ 0 \in 0 .. cas'
  BY DesktopAssumption DEF IInv, GuiTypes, PlainTypes
<1>4. \A s \in Requests : req[s].pc \notin Starting /\ req'[s].pc \notin Starting
  BY <1>2, DesktopAssumption DEF IInv, GuiTypes, ReqTypes, Starting
<1>5. 0 \notin alive /\ alive \subseteq {p \in Proxies : proxy[p]}
  BY DEF IInv, GuiTypes, PlainTypes, Proxies
<1>6. open' = {} /\ alive' = alive \ {coalescer}
  BY DEF IInv, OneUp, StopProxy
<1>7. GuiTypes'
  <2>1. PlainTypes'
    BY <1>1, <1>3, <1>5, <1>6 DEF IInv, GuiTypes, PlainTypes, NoCA
  <2>2. \A s \in Requests : req'[s] \in ReqRecord'
    <3>1. new \in ReqRecord'
      BY DEF ReqRecord, Writing
    <3>2. \A s \in Requests : req[s] \in ReqRecord'
      BY <1>3 DEF IInv, GuiTypes, ReqTypes, ReqRecord
    <3>3. QED
      BY <1>2, <3>1, <3>2
  <2>3. \A s \in Requests : req'[s].proxy \in Proxies \cup {0}
    BY <1>2 DEF IInv, GuiTypes, ReqTypes
  <2>4. ReqTypes'
    BY <1>1, <1>2, <1>4, <2>2, <2>3, DesktopAssumption DEF ReqTypes
  <2>5. QED
    BY <2>1, <2>4 DEF GuiTypes
<1>8. Connections'
  BY ConnectionsKept
<1>9. Started'
  <2>1. \A s \in Requests : ~Is(s, "publish")' /\ ~Is(s, "listen")'
    BY <1>4 DEF Is, Starting
  <2>2. \A s \in Requests : req'[s].pc \in Writing => req'[s].proxy = 0
    BY <1>2 DEF IInv, Started, Writing
  <2>3. QED
    BY <1>1, <1>4, <1>6, <2>1, <2>2 DEF Started
<1>10. OneUp'
  <2>1. ASSUME NEW p \in alive, (\E c \in Conns : conn[c].proxy = p) \/ (\E s \in Requests : req[s].proxy = p)
        PROVE  p = coalescer
    BY <1>5, <2>1 DEF IInv, OneUp
  <2>2. \A p \in alive' : ~((\E c \in Conns : conn[c].proxy = p) \/ (\E s \in Requests : req'[s].proxy = p))
    BY <1>2, <1>5, <1>6, <2>1
  <2>3. QED
    BY <1>1, <1>6, <2>2 DEF OneUp
<1>11. FilesStill'
  <2>1. \A s \in Requests : ~Is(s, "readKey")' /\ ~Is(s, "listen")'
    BY <1>4 DEF Is, Starting
  <2>2. QED
    BY <1>1, <1>6, <2>1 DEF FilesStill
<1>12. QED
  BY <1>7, <1>8, <1>9, <1>10, <1>11 DEF IInv

LEMMA StopInv == ASSUME IInv, NEW r \in Requests, Stop(r) PROVE IInv'
<1>1. PICK new : new = req[r]
  OBVIOUS
<1>2. /\ new \in [pc : {"idle", "cert1"}, ca : 0 .. cas, cert : 0 .. cas, proxy : Nat]
      /\ new.pc = "idle"
  BY <1>1 DEF IInv, GuiTypes, ReqTypes, ReqRecord, Stop, Is
<1>3. Step(r, new) /\ mixed \in BOOLEAN
  BY <1>1 DEF IInv, GuiTypes, PlainTypes, ReqTypes, Stop, Step
<1>4. UNCHANGED <<direct, proxy, conn, guiMu, config, cert, key, cas, mixed>>
  BY DEF Stop, disk
<1>5. QED
  BY <1>1, <1>2, <1>3, <1>4, StopProxyInv DEF Stop, Is

LEMMA InitCAInv == ASSUME IInv, NEW r \in Requests, InitCA(r) PROVE IInv'
<1>1. PICK new : new = [Idle EXCEPT !.pc = "cert1", !.ca = cas + 1]
  OBVIOUS
<1>2. cas' = cas + 1 /\ cas + 1 \in 0 .. cas' /\ 0 \in 0 .. cas'
  BY DEF IInv, GuiTypes, PlainTypes, InitCA
<1>3. /\ new \in [pc : {"idle", "cert1"}, ca : 0 .. cas', cert : 0 .. cas', proxy : Nat]
      /\ new.proxy = 0
  BY <1>1, <1>2 DEF Idle
<1>4. mixed' \in BOOLEAN
  BY DEF InitCA, Others
<1>5. QED
  BY <1>1, <1>2, <1>3, <1>4, StopProxyInv DEF InitCA, Is

\* Nothing is left of a process that has ended but its files.
LEMMA CrashInv == ASSUME IInv, Crash PROVE IInv'
<1>1. /\ guiMu' = None /\ server' = 0 /\ coalescer' = 0 /\ ca' = NoCA
      /\ direct' \in BOOLEAN /\ proxy' = <<>> /\ open' = {} /\ alive' = {} /\ mixed' = FALSE
      /\ conn' = [c \in Conns |-> NoConn] /\ req' = [r \in Requests |-> Idle]
      /\ UNCHANGED <<config, cert, key, cas, ReqRecord>>
  BY DEF Crash, disk, ReqRecord
<1>2. GuiTypes'
  <2>1. proxy' \in Seq(BOOLEAN) /\ 0 \in 0 .. cas
    BY <1>1 DEF IInv, GuiTypes, PlainTypes
  <2>2. PlainTypes'
    BY <1>1, <2>1 DEF IInv, GuiTypes, PlainTypes, NoCA
  <2>3. \A r \in Requests : /\ req'[r] \in ReqRecord /\ req'[r].proxy = 0
                            /\ req'[r].pc \notin Starting
    BY <1>1, <2>1 DEF Idle, ReqRecord, Starting
  <2>4. ReqTypes'
    BY <1>1, <2>3, DesktopAssumption DEF ReqTypes
  <2>5. QED
    BY <2>2, <2>4 DEF GuiTypes
<1>3. Connections'
  BY <1>1 DEF Connections
<1>4. Started' /\ OneUp' /\ FilesStill'
  BY <1>1 DEF Started, OneUp, FilesStill, Idle, Is, Starting, Writing
<1>5. QED
  BY <1>2, <1>3, <1>4 DEF IInv

-----------------------------------------------------------------------------
\* Every step keeps the invariant.
LEMMA NextIInv == IInv /\ [Next]_vars => IInv'
<1> SUFFICES ASSUME IInv, [Next]_vars PROVE IInv'
  OBVIOUS
<1>1. CASE Crash
  BY <1>1, CrashInv
<1>2. ASSUME NEW r \in Requests, Handle(r) PROVE IInv'
  BY <1>2, StartInv, ReadCertInv, ReadKeyInv, ListenInv, PublishInv, StopInv, InitCAInv, WriteCAInv,
     ActivateInv, SaveConfigInv, SettingsInv DEF Handle
<1>3. ASSUME NEW c \in Conns, Connection(c) PROVE IInv'
  BY <1>3, ServeInv
<1>4. CASE UNCHANGED vars
  <2>1. /\ UNCHANGED <<direct, proxy, open, alive, conn, guiMu, server, coalescer, ca>>
        /\ UNCHANGED <<config, cert, key, cas, req, mixed, Proxies, ReqRecord>>
    BY <1>4 DEF vars, local, proxies, gui, disk, Proxies, ReqRecord
  <2>2. GuiTypes' /\ Started' /\ OneUp' /\ FilesStill'
    BY <2>1 DEF IInv, GuiTypes, PlainTypes, ReqTypes, Started, OneUp, FilesStill, Is
  <2>3. QED
    BY <2>1, <2>2, ConnectionsKept DEF IInv
<1>5. QED
  BY <1>1, <1>2, <1>3, <1>4 DEF Next

\* The invariant holds for any hosts, connections, API requests and bounds.
THEOREM DesktopInvariant == Spec => []IInv
<1>1. Init => IInv
  BY InitIInv
<1>2. IInv /\ [Next]_vars => IInv'
  BY NextIInv
<1>3. QED
  BY <1>1, <1>2, PTL DEF Spec

\* The control API, its files and the connections keep what the code
\* declares, and guiMu is held by the request that starts a proxy.
THEOREM DesktopTypeCorrect == Spec => []TypeOK
BY DesktopInvariant, IInvTypes, PTL

\* One proxy at most, and guiCoalescer is the one to stop: a stop takes the relay
\* from every connection made before it (/api/start, /api/stop, main.go).
THEOREM OneProxyRuns == Spec => []OneProxy
BY DesktopInvariant, IInvProxy, PTL

\* A relay proxy signs with the key of its certificate, and with the installed
\* CA unless an init-ca met another one or a start (mitm/cert.go, main.go).
THEOREM CAIsSound == Spec => []SoundCA
BY DesktopInvariant, IInvCA, PTL

\* A connection leaves by the way its host and its proxy ask for, whichever
\* entry it came by (mitm/proxy.go, route/connect_route.go).
THEOREM RoutesAreSound == Spec => []RouteSound
BY DesktopInvariant, IInvRoute, PTL
=============================================================================
