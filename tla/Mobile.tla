------------------------------- MODULE Mobile -------------------------------
(***************************************************************************)
(* The Go side of the Android app: the exported functions of               *)
(* platforms/mobile/mobile.go with the tunnel client they share            *)
(* (relay/tunnel/server.go, prewarm.go).  Each function holds mu, so it is *)
(* one step of its caller, taken when mu is free; only StartTunnel, which  *)
(* may wait for a warmup between taking over a prewarmed client and        *)
(* binding its port, is two.  WarmupTunnel and Ping do not take mu.        *)
(* The functions are relations on the state below; their callers are in    *)
(* VpnService.                                                             *)
(***************************************************************************)
EXTENDS FiniteSets

CONSTANTS Profiles,  \* relay profiles: URLs and key
          Direct,    \* direct mode, which has no profile
          Clients,   \* TunnelClient objects; a stopped one nobody holds is reused
          Callers,   \* threads that call into the Go code
          None

ASSUME MobileAssumption ==
  None \notin Profiles \cup Clients \cup Callers \cup {Direct} /\ Direct \notin Profiles \cup Clients

VARIABLES mu,        \* who is inside StartTunnel
          server,    \* server and listener: what it was started for
          tunEng,    \* the TUN engine: the client it dials with, or Direct
          active,    \* activeTunnel
          prewarm,   \* prewarmClient
          client,    \* the profile of each client that has not been stopped
          taken,     \* the client StartTunnel has in hand
          protector  \* a socket protector is set

mobile == <<mu, server, tunEng, active, prewarm, client, taken, protector>>

MobileTypeOK ==
  /\ mu \in Callers \cup {None}
  /\ server \in Profiles \cup {Direct, None}
  /\ tunEng \in Clients \cup {Direct, None}
  /\ {active, prewarm, taken} \subseteq Clients \cup {None}
  /\ client \in [Clients -> Profiles \cup {None}]
  /\ protector \in BOOLEAN
  /\ taken # None <=> mu # None

MobileInit ==
  /\ mu = None /\ server = None /\ tunEng = None
  /\ active = None /\ prewarm = None /\ taken = None
  /\ client = [c \in Clients |-> None] /\ protector = FALSE

Free(c) == client[c] = None /\ c \notin {tunEng, active, prewarm, taken}

\* IsRunning, under mu
IsRunning == server # None

Stopped(cs) == [c \in Clients |-> IF c \in cs THEN None ELSE client[c]]

\* StartDirect; a port in use is an error.
StartDirect(err) ==
  /\ mu = None
  /\ IF IsRunning THEN ~err /\ UNCHANGED server
     ELSE server' = IF err THEN None ELSE Direct
  /\ UNCHANGED <<mu, tunEng, active, prewarm, client, taken, protector>>

\* StartTunnel when it runs already
StartTunnelAgain ==
  /\ mu = None /\ IsRunning
  /\ UNCHANGED mobile

\* adoptOrCreateTunnelClient: a prewarmed client of the profile, or a new one
StartTunnel(t, p) ==
  /\ mu = None /\ ~IsRunning
  /\ mu' = t
  /\ IF prewarm # None /\ client[prewarm] = p
     THEN taken' = prewarm /\ prewarm' = None /\ UNCHANGED client
     ELSE /\ \E c \in {d \in Clients : Free(d)} :
               taken' = c /\ client' = [client EXCEPT ![c] = p]
          /\ UNCHANGED prewarm
  /\ UNCHANGED <<server, tunEng, active, protector>>

\* Mutant: an error leaves the mutex locked.
BindLocked(t, err) ==
  /\ mu = t
  /\ IF err
     THEN /\ active' = None /\ prewarm' = None /\ client' = Stopped({taken, prewarm})
          /\ UNCHANGED <<server, mu>>
     ELSE /\ server' = client[taken] /\ active' = taken /\ mu' = None
          /\ UNCHANGED <<prewarm, client>>
  /\ taken' = None
  /\ UNCHANGED <<tunEng, protector>>

\* The client becomes the active one and the port is bound.  If it cannot be,
\* StopActiveTunnel stops the client, and a prewarmed one with it.
Bind(t, err) ==
  /\ mu = t
  /\ mu' = None /\ taken' = None
  /\ IF err
     THEN /\ active' = None /\ prewarm' = None /\ client' = Stopped({taken, prewarm})
          /\ UNCHANGED server
     ELSE /\ server' = client[taken] /\ active' = taken
          /\ UNCHANGED <<prewarm, client>>
  /\ UNCHANGED <<tunEng, protector>>

\* Mutant: the TUN engine outlives its proxy.
StopKeepingTUN ==
  /\ mu = None
  /\ server' = None
  /\ active' = None /\ prewarm' = None /\ client' = Stopped({active, prewarm})
  /\ UNCHANGED <<mu, taken, tunEng, protector>>

\* Mutant: the prewarmed client is forgotten, not stopped.
StopForgetting ==
  /\ mu = None
  /\ server' = None
  /\ active' = None /\ prewarm' = None /\ client' = Stopped({active})
  /\ tunEng' = None
  /\ UNCHANGED <<mu, taken, protector>>

\* Stop
Stop ==
  /\ mu = None
  /\ server' = None
  /\ active' = None /\ prewarm' = None /\ client' = Stopped({active, prewarm})
  /\ tunEng' = None
  /\ UNCHANGED <<mu, taken, protector>>

\* An engine there is stopped first; a dup of the fd may fail.
AttachTUN(err) ==
  /\ mu = None
  /\ ~IsRunning => err
  /\ tunEng' = IF err THEN None ELSE IF active = None THEN Direct ELSE active
  /\ UNCHANGED <<mu, server, active, prewarm, client, taken, protector>>

\* Prewarm, under its own mutex
Prewarm(p) ==
  /\ IF prewarm # None /\ client[prewarm] = p THEN UNCHANGED <<prewarm, client>>
     ELSE \E c \in {d \in Clients : Free(d)} :
            prewarm' = c /\ client' = [Stopped({prewarm}) EXCEPT ![c] = p]
  /\ UNCHANGED <<mu, server, tunEng, active, taken, protector>>

\* SetSocketProtector, which takes no mutex
SetProtector(b) ==
  /\ protector' = b
  /\ UNCHANGED <<mu, server, tunEng, active, prewarm, client, taken>>
=============================================================================
