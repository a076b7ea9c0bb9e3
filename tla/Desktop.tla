------------------------------- MODULE Desktop -------------------------------
(***************************************************************************)
(* The desktop application's control API (platforms/desktop/main.go,       *)
(* newGUIHandler) over the local proxies: start, stop, the certificate     *)
(* authority, the configuration, direct mode and ping.  Every request has  *)
(* a goroutine of its own.  guiMu is held by stop for its whole body, by   *)
(* start from its first check to its end, and by init-ca only while it     *)
(* stops the proxy: the CA's two files are written afterwards, one after   *)
(* the other, and start reads them one after the other (mitm/cert.go).     *)
(*                                                                         *)
(* A CA is the number of its generation; the certificate and the key of    *)
(* one generation belong together.  The configuration is what start asks   *)
(* of it: no URLs, URLs without a key, or both.                            *)
(***************************************************************************)
EXTENDS LocalProxy

CONSTANTS Requests,  \* API requests at a time
          Configs,   \* what the configuration may have
          None,      \* guiMu is free
          MaxProxies, MaxCAs  \* bounds

ASSUME DesktopAssumption ==
  /\ None \notin Requests
  /\ "none" \in Configs /\ Configs \subseteq {"none", "keyless", "relay"}
  /\ {MaxProxies, MaxCAs} \subseteq Nat /\ MaxCAs >= 1

VARIABLES guiMu,        \* the request that holds it across steps
          server,       \* guiProxyServer and its listeners: the proxy, or 0
          coalescer,    \* guiCoalescer: the proxy it belongs to, or 0
          ca,           \* the CA the last proxy was built with, while it is up
          config,       \* config.env
          cert, key,    \* the CA's files: generation, or 0 for no usable PEM
          cas,          \* generations so far
          req,          \* req[r]: where a request is
          mixed         \* history: an init-ca met another, or a start, on the
                        \* files since the last one that met none

gui == <<guiMu, server, coalescer, ca>>
disk == <<config, cert, key, cas>>
vars == <<local, gui, disk, req, mixed>>

Idle == [pc |-> "idle", ca |-> 0, cert |-> 0, proxy |-> 0]
NoCA == [cert |-> 0, key |-> 0]

Starting == {"readCert", "readKey", "listen", "publish"}
Writing == {"cert1", "cert2", "key1", "key2"}

TypeOK ==
  /\ LocalTypeOK
  /\ guiMu \in Requests \cup {None}
  /\ {server, coalescer} \subseteq Proxies \cup {0}
  /\ config \in Configs
  /\ cas \in 1 .. MaxCAs /\ {cert, key} \subseteq 0 .. cas
  /\ {ca.cert, ca.key} \subseteq 0 .. cas /\ mixed \in BOOLEAN
  /\ \A r \in Requests :
       /\ req[r].pc \in {"idle", "switch", "ping"} \cup Starting \cup Writing
       /\ {req[r].ca, req[r].cert} \subseteq 0 .. cas
       /\ req[r].proxy \in Proxies \cup {0}
       /\ req[r].pc \in Starting <=> guiMu = r

Init ==
  /\ LocalInit
  /\ guiMu = None /\ server = 0 /\ coalescer = 0 /\ ca = NoCA
  /\ config \in Configs
  /\ cas = 1 /\ cert = 1 /\ key = 1
  /\ mixed = FALSE
  /\ req = [r \in Requests |-> Idle]

Is(r, pc) == req[r].pc = pc
Step(r, new) == req' = [req EXCEPT ![r] = new]
Done(r) == Step(r, Idle)
Others(r, pcs) == \E s \in Requests \ {r} : req[s].pc \in pcs

-----------------------------------------------------------------------------
(* /api/start                                                              *)

\* Takes the lock, reads the configuration and decides what to start.
Start(r) ==
  /\ Is(r, "idle") /\ guiMu = None /\ Len(proxy) < MaxProxies
  /\ IF server # 0
     THEN UNCHANGED <<guiMu, req>>
     ELSE \E asked \in BOOLEAN :
            LET directOnly == asked \/ (config = "none" /\ direct) IN
            IF directOnly \/ config = "relay"
            THEN /\ guiMu' = r
                 /\ Step(r, [Idle EXCEPT !.pc = IF directOnly THEN "listen" ELSE "readCert"])
            ELSE UNCHANGED <<guiMu, req>>
  /\ mixed' = (mixed \/ Others(r, Writing))
  /\ UNCHANGED <<local, server, coalescer, ca, disk>>

\* Mutant: the request ends without the deferred unlock.
FinishLocked(r) == UNCHANGED guiMu /\ Done(r)

\* The handler returns, whatever it answers.
Finish(r) == guiMu' = None /\ Done(r)

ReadCert(r) ==
  /\ Is(r, "readCert")
  /\ Step(r, [req[r] EXCEPT !.pc = "readKey", !.cert = cert])
  /\ UNCHANGED <<local, gui, disk, mixed>>

\* Mutant: the files are parsed, and not compared.
Matches(c, k) == c # 0 /\ k # 0

\* LoadCA: both parse, and X509KeyPair finds the key to be the certificate's.
Pair(c, k) == c # 0 /\ k # 0 /\ c = k

ReadKey(r) ==
  /\ Is(r, "readKey")
  /\ IF Pair(req[r].cert, key)
     THEN Step(r, [req[r] EXCEPT !.pc = "listen", !.ca = key]) /\ UNCHANGED guiMu
     ELSE Finish(r)
  /\ UNCHANGED <<local, server, coalescer, ca, disk, mixed>>

\* StartProxyWithSOCKSAndCoalescer: the coalescer runs before the listeners
\* are opened, and goes on running when one of them cannot be.
Listen(r) ==
  LET relay == req[r].ca # 0
      new == Len(proxy) + 1
  IN  /\ Is(r, "listen")
      /\ proxy' = Append(proxy, relay)
      /\ alive' = IF relay THEN alive \cup {new} ELSE alive
      /\ \/ /\ open' = open \cup {new}
            /\ ca' = [cert |-> req[r].cert, key |-> req[r].ca]
            /\ Step(r, [Idle EXCEPT !.pc = "publish", !.proxy = new])
            /\ UNCHANGED guiMu
         \/ Finish(r) /\ UNCHANGED <<open, ca>>
      /\ UNCHANGED <<direct, conn, server, coalescer, disk, mixed>>

\* defaultGUIProxyStarter, and the handler's last lines
Publish(r) ==
  /\ Is(r, "publish")
  /\ server' = req[r].proxy
  /\ coalescer' = IF proxy[req[r].proxy] THEN req[r].proxy ELSE 0
  /\ Finish(r)
  /\ UNCHANGED <<local, ca, disk, mixed>>

-----------------------------------------------------------------------------
(* /api/stop and /api/init-ca                                              *)

\* Mutant: the servers are closed, the coalescer is only forgotten.
StopServers ==
  /\ open' = open \ {server}
  /\ server' = 0 /\ coalescer' = 0 /\ ca' = NoCA
  /\ UNCHANGED alive

\* With guiMu.  Connections are not ended.
StopProxy ==
  /\ open' = open \ {server}
  /\ alive' = alive \ {coalescer}
  /\ server' = 0 /\ coalescer' = 0 /\ ca' = NoCA

Stop(r) ==
  /\ Is(r, "idle") /\ guiMu = None
  /\ StopProxy
  /\ UNCHANGED <<direct, proxy, conn, guiMu, disk, req, mixed>>

InitCA(r) ==
  /\ Is(r, "idle") /\ guiMu = None /\ cas < MaxCAs
  /\ StopProxy
  /\ cas' = cas + 1
  /\ Step(r, [Idle EXCEPT !.pc = "cert1", !.ca = cas + 1])
  /\ mixed' = Others(r, Writing)
  /\ UNCHANGED <<direct, proxy, conn, guiMu, config, cert, key>>

\* GenerateCA: each file is truncated and then written.  An error leaves
\* what has been done.
WriteCA(r) ==
  LET new == req[r].ca IN
  /\ \/ Is(r, "cert1") /\ cert' = 0 /\ Step(r, [req[r] EXCEPT !.pc = "cert2"]) /\ UNCHANGED key
     \/ Is(r, "cert2") /\ cert' = new /\ Step(r, [req[r] EXCEPT !.pc = "key1"]) /\ UNCHANGED key
     \/ Is(r, "key1") /\ key' = 0 /\ Step(r, [req[r] EXCEPT !.pc = "key2"]) /\ UNCHANGED cert
     \/ Is(r, "key2") /\ key' = new /\ Done(r) /\ UNCHANGED cert
     \/ req[r].pc \in Writing /\ Done(r) /\ UNCHANGED <<cert, key>>
  /\ UNCHANGED <<local, gui, config, cas, mixed>>

-----------------------------------------------------------------------------
(* Configuration, direct mode, ping                                        *)

\* /api/profiles/activate looks whether a proxy runs, and lets go of guiMu.
Activate(r) ==
  /\ Is(r, "idle") /\ guiMu = None /\ server = 0
  /\ Step(r, [Idle EXCEPT !.pc = "switch"])
  /\ UNCHANGED <<local, gui, disk, mixed>>

\* It writes the profile's settings over the configuration; the profile may
\* be unknown.
ActivateProfile(r) ==
  /\ Is(r, "switch")
  /\ config' \in Configs
  /\ Done(r)
  /\ UNCHANGED <<local, gui, cert, key, cas, mixed>>

\* /api/config looks at nothing.
SaveConfig(r) ==
  /\ Is(r, "idle")
  /\ config' \in Configs
  /\ UNCHANGED <<local, gui, cert, key, cas, req, mixed>>

\* /api/settings; it writes back the configuration that it has read, which
\* another's saving may have outdated, or emptied while it was under way.
Settings(r) ==
  /\ Is(r, "idle")
  /\ \E on \in BOOLEAN : SetDirect(on)
  /\ config' \in Configs
  /\ UNCHANGED <<proxies, gui, cert, key, cas, req, mixed>>

\* /api/ping takes the coalescer under guiMu and uses it without.
Ping(r) ==
  /\ Is(r, "idle") /\ guiMu = None /\ coalescer # 0
  /\ Step(r, [Idle EXCEPT !.pc = "ping", !.proxy = coalescer])
  /\ UNCHANGED <<local, gui, disk, mixed>>

Pinged(r) ==
  /\ Is(r, "ping")
  /\ Done(r)
  /\ UNCHANGED <<local, gui, disk, mixed>>

\* The application ends at any moment and is started again.
Crash ==
  /\ guiMu' = None /\ server' = 0 /\ coalescer' = 0 /\ ca' = NoCA
  /\ direct' \in BOOLEAN /\ proxy' = <<>> /\ open' = {} /\ alive' = {}
  /\ conn' = [c \in Conns |-> NoConn]
  /\ req' = [r \in Requests |-> Idle]
  /\ mixed' = FALSE
  /\ UNCHANGED disk

Handle(r) == \/ Start(r) \/ ReadCert(r) \/ ReadKey(r) \/ Listen(r) \/ Publish(r)
             \/ Stop(r) \/ InitCA(r) \/ WriteCA(r)
             \/ Activate(r) \/ ActivateProfile(r) \/ SaveConfig(r) \/ Settings(r)
             \/ Ping(r) \/ Pinged(r)

Connection(c) == Serve(c) /\ UNCHANGED <<gui, disk, req, mixed>>

Next == Crash \/ (\E r \in Requests : Handle(r)) \/ (\E c \in Conns : Connection(c))

Spec == Init /\ [][Next]_vars

-----------------------------------------------------------------------------
\* What a start in progress has brought up
Rising == {req[r].proxy : r \in {s \in Requests : Is(s, "publish")}}

\* One proxy at most: listeners are the running proxy's or the starting
\* one's, no connection and no ping reaches the relay through any other, and
\* the coalescer in guiCoalescer is the one to stop.  So a stop takes the relay
\* from every connection that was made before it; tunnelled and domestic traffic,
\* which needs no proxy, goes on (main.go:1228-1250, 1123-1139).
OneProxy ==
  LET up == ({server} \ {0}) \cup Rising
      users == {conn[c].proxy : c \in Conns} \cup {req[r].proxy : r \in Requests}
  IN  /\ open = up
      /\ users \cap alive \subseteq up
      /\ coalescer = IF server # 0 /\ proxy[server] THEN server ELSE 0
      /\ coalescer \in alive \cup {0}

\* A relay proxy signs with the key of its certificate, although the files
\* are written and read piece by piece, an init-ca may fail or be killed
\* between them, and two may run at once.  And it signs with the CA that is
\* installed, unless an init-ca met another one or a start on the files
\* (cert.go:67-91, 95-143, main.go:1121-1139).
SoundCA ==
  /\ \A p \in open : proxy[p] => ca.cert = ca.key /\ ca.key # 0
  /\ server # 0 /\ proxy[server] /\ ~mixed => ca = [cert |-> cert, key |-> key]
=============================================================================
