------------------------------ MODULE VpnProofs ------------------------------
(***************************************************************************)
(* Proofs about the VPN service and the TUN engine it hands its interface  *)
(* to.  VpnService, for any number of threads, profiles, clients and       *)
(* service objects: its types, that no tunnel client is lost, that the     *)
(* proxy, its client and the engine are of one profile, and that nothing   *)
(* is up after the last stop.  TunEngine, for any number of sockets, flows *)
(* and segments: its types, and that what a client sends reaches its own   *)
(* backend.                                                                *)
(***************************************************************************)
EXTENDS VpnService, TunEngine, SequenceTheorems, TLAPS

\* While StartTunnel waits for a warmup there is no proxy.
DownInside == mu # None => server = None /\ tunEng = None /\ active = None

\* A client in one of the three places is running, and in no other.
Places ==
  /\ \A c \in {active, prewarm, taken} \ {None} : client[c] \in Profiles
  /\ active # None => active # prewarm /\ active # taken
  /\ prewarm # None => prewarm # taken

\* The part of the invariant that is about the Go code alone
MobileInv == MobileTypeOK /\ DownInside /\ Places /\ NoClientLeaks /\ OneProfile

\* The fields of the service objects
FieldsInv ==
  /\ service \in Services /\ alive \in BOOLEAN /\ stopping \in BOOLEAN
  /\ startGeneration \in [Services -> Nat]
  /\ stopComplete \in [Services -> BOOLEAN]
  /\ vpnInterface \in [Services -> Workers \cup {None}]

\* The thread inside StartTunnel is the one that holds the mutex, and who is
\* about to start or to warm up knows what for.
Starting == {"check", "halt", "halting", "haltClose", "spawn", "enter", "start"}
ThreadInv ==
  /\ th \in [Callers -> [pc : Labels, on : Services, gen : Nat,
                         for : Profiles \cup {Direct, None}]]
  /\ mu # None => th[mu].pc = "bind"
  /\ \A t \in Callers : th[t].pc = "bind" => mu = t
  /\ \A t \in Callers : th[t].pc \in Starting => th[t].for \in Profiles \cup {Direct}
  /\ \A t \in Callers : th[t].pc = "prewarm" => th[t].for \in Profiles

IInv == MobileInv /\ FieldsInv /\ ThreadInv

-----------------------------------------------------------------------------
(* The Go functions, whoever calls them.                                   *)

\* Before the first call there is no proxy and no client.
LEMMA MobileStart == MobileInit => MobileInv
  BY MobileAssumption
     DEF MobileInit, MobileInv, MobileTypeOK, DownInside, Places, NoClientLeaks, OneProfile

\* StartDirect, in vain or not: a proxy of its own has no client.
LEMMA StartDirectKeeps ==
  ASSUME MobileInv, NEW err \in BOOLEAN, StartDirect(err)
  PROVE  MobileInv'
  BY MobileAssumption
     DEF StartDirect, IsRunning, MobileInv, MobileTypeOK, DownInside, Places,
         NoClientLeaks, OneProfile

\* The client is a new one, or it moves from prewarm to taken.
LEMMA StartTunnelKeeps ==
  ASSUME MobileInv, NEW t \in Callers, NEW p \in Profiles, StartTunnel(t, p)
  PROVE  MobileInv'
<1> USE MobileAssumption DEF StartTunnel, IsRunning, MobileInv, MobileTypeOK,
        DownInside, Places, NoClientLeaks, OneProfile
<1>1. CASE prewarm # None /\ client[prewarm] = p
  BY <1>1
<1>2. CASE ~(prewarm # None /\ client[prewarm] = p)
  BY <1>2 DEF Free
<1> QED BY <1>1, <1>2

\* The end of StartTunnel: the client in hand is active, or it is stopped with
\* the prewarmed one.
LEMMA BindKeeps ==
  ASSUME MobileInv, NEW t \in Callers, NEW err \in BOOLEAN, Bind(t, err)
  PROVE  MobileInv'
<1> USE MobileAssumption DEF Bind, Stopped, MobileInv, MobileTypeOK,
        DownInside, Places, NoClientLeaks, OneProfile
<1>1. CASE err
  BY <1>1
<1>2. CASE ~err
  BY <1>2
<1> QED BY <1>1, <1>2

\* Stop leaves no client but the one of a StartTunnel there cannot be.
LEMMA StopKeeps == ASSUME MobileInv, Stop PROVE MobileInv'
  BY MobileAssumption
     DEF Stop, Stopped, MobileInv, MobileTypeOK, DownInside, Places,
         NoClientLeaks, OneProfile

\* AttachTUN dials with the client that is active.
LEMMA AttachTUNKeeps ==
  ASSUME MobileInv, NEW err \in BOOLEAN, AttachTUN(err)
  PROVE  MobileInv'
  BY MobileAssumption
     DEF AttachTUN, IsRunning, MobileInv, MobileTypeOK, DownInside, Places,
         NoClientLeaks, OneProfile

\* Prewarm stops the client it replaces, and takes one nobody holds.
LEMMA PrewarmKeeps ==
  ASSUME MobileInv, NEW p \in Profiles, Prewarm(p)
  PROVE  MobileInv'
<1> USE MobileAssumption DEF Prewarm, Stopped, Free, MobileInv, MobileTypeOK,
        DownInside, Places, NoClientLeaks, OneProfile
<1>1. CASE prewarm # None /\ client[prewarm] = p
  BY <1>1
<1>2. CASE ~(prewarm # None /\ client[prewarm] = p)
  <2>1. PICK c \in Clients : /\ Free(c) /\ prewarm' = c
                             /\ client' = [Stopped({prewarm}) EXCEPT ![c] = p]
    BY <1>2
  <2>2. \A d \in Clients : client'[d] = IF d = c THEN p
                                        ELSE IF d = prewarm THEN None ELSE client[d]
    BY <2>1
  <2>3. MobileTypeOK'
    BY <2>1
  <2> QED BY <2>1, <2>2, <2>3
<1> QED BY <1>1, <1>2

\* The protector is nobody else's business.
LEMMA SetProtectorKeeps ==
  ASSUME MobileInv, NEW b \in BOOLEAN, SetProtector(b)
  PROVE  MobileInv'
  BY DEF SetProtector, MobileInv, MobileTypeOK, DownInside, Places,
         NoClientLeaks, OneProfile

\* Steps of the threads outside the Go code
LEMMA UnchangedKeeps == ASSUME MobileInv, UNCHANGED mobile PROVE MobileInv'
  BY DEF mobile, MobileInv, MobileTypeOK, DownInside, Places, NoClientLeaks, OneProfile

-----------------------------------------------------------------------------
(* The threads.                                                            *)

\* Where a thread goes after the two calls it has in common with others.
LEMMA AfterFacts ==
  /\ \A l \in DOMAIN AfterClear : AfterClear[l] \in Labels \ {"bind", "prewarm"}
  /\ \A l \in DOMAIN AfterClear : AfterClear[l] \in Starting => l \in Starting
  /\ \A l \in DOMAIN AfterStop : AfterStop[l] \in Labels \ {"bind", "prewarm"}
  /\ \A l \in DOMAIN AfterStop : AfterStop[l] \in Starting => l \in Starting
  /\ {"bind", "prewarm"} \cap (DOMAIN AfterClear \cup DOMAIN AfterStop) = {}
  BY DEF AfterClear, AfterStop, Labels, Starting

\* A thread that is not inside StartTunnel goes to a place where nothing is
\* asked of it, or where it has what is asked.
LEMMA GotoKeeps ==
  ASSUME MobileInv, ThreadInv, NEW t \in Callers, NEW l \in Labels, Goto(t, l), mu' = mu,
         th[t].pc # "bind", l \notin {"bind", "prewarm"},
         l \in Starting => th[t].pc \in Starting
  PROVE  ThreadInv'
  BY DEF MobileInv, MobileTypeOK, ThreadInv, Goto, Starting

\* A thread started for a profile, for direct mode or for a stop
LEMMA SpawnKeeps ==
  ASSUME MobileInv, ThreadInv, mu' = mu, th[Main].pc # "bind",
         NEW l \in {"enter", "stop"}, NEW s \in Services, NEW g \in Nat,
         NEW p \in Profiles \cup {Direct, None}, Spawn(l, s, g, p),
         l = "enter" => p # None
  PROVE  ThreadInv'
<1>1. PICK w \in Workers :
        /\ th[w].pc = "idle"
        /\ th' = [th EXCEPT ![Main].pc = "idle",
                            ![w] = [pc |-> l, on |-> s, gen |-> g, for |-> p]]
  BY DEF Spawn
<1>2. {"enter", "stop", "idle"} \subseteq Labels
  BY DEF Labels, AfterClear, AfterStop
<1> QED
  BY <1>1, <1>2, ServiceAssumption, MobileAssumption
     DEF MobileInv, MobileTypeOK, ThreadInv, Starting

\* A step that leaves the Go code and the fields alone but for its own thread
LEMMA MoveKeeps ==
  ASSUME IInv, NEW t \in Callers, NEW l \in Labels, Goto(t, l),
         UNCHANGED <<mobile, svc>>,
         th[t].pc # "bind", l \notin {"bind", "prewarm"},
         l \in Starting => th[t].pc \in Starting
  PROVE  IInv'
<1>1. MobileInv' /\ mu' = mu
  BY UnchangedKeeps DEF IInv, mobile
<1>2. FieldsInv'
  BY DEF IInv, FieldsInv, svc, fields
<1>3. ThreadInv'
  BY <1>1, GotoKeeps DEF IInv
<1> QED BY <1>1, <1>2, <1>3 DEF IInv

\* The process has just started.
LEMMA IInvInit == Init => IInv
<1> SUFFICES ASSUME Init PROVE IInv
  OBVIOUS
<1>1. MobileInv
  BY MobileStart DEF Init
<1>2. FieldsInv
  <2>1. 1 \in Services
    BY ServiceAssumption DEF Services
  <2> QED BY <2>1 DEF Init, FieldsInv
<1>3. "idle" \in Labels /\ "idle" \notin Starting
  BY DEF Labels, AfterClear, AfterStop, Starting
<1>4. ThreadInv
  BY <1>3, ServiceAssumption DEF Init, AtRest, MobileInit, ThreadInv, Services, Starting
<1> QED BY <1>1, <1>2, <1>4 DEF IInv

-----------------------------------------------------------------------------
(* The steps of the main thread                                            *)

\* One step for each thing the main thread does.
LEMMA MainKeeps == IInv /\ MainRuns => IInv'
<1> SUFFICES ASSUME IInv, MainRuns PROVE IInv'
  OBVIOUS
<1>m. MobileInv /\ FieldsInv /\ ThreadInv /\ Main \in Callers /\ Workers \subseteq Callers
  BY ServiceAssumption DEF IInv
<1>l. {"idle", "end", "check", "halt", "spawn", "destroy", "post"} \subseteq Labels
  BY DEF Labels, AfterClear, AfterStop
<1>1. ASSUME Create PROVE IInv'
  <2>1. MobileInv' /\ mu' = mu
    BY <1>1, <1>m, UnchangedKeeps DEF Create, mobile
  <2>2. service' \in Services
    BY <1>1, <1>m, ServiceAssumption DEF Create, FieldsInv, Services
  <2>3. FieldsInv'
    BY <1>1, <1>m, <2>2 DEF Create, FieldsInv
  <2>4. ThreadInv'
    BY <1>1, <1>m, <2>1 DEF Create, ThreadInv
  <2> QED BY <2>1, <2>3, <2>4 DEF IInv
<1>2. ASSUME NEW p \in Profiles \cup {Direct}, StartCommand(p) PROVE IInv'
  <2>1. MobileInv' /\ mu' = mu
    BY <1>2, <1>m, UnchangedKeeps DEF StartCommand, mobile
  <2>2. FieldsInv'
    BY <1>2, <1>m DEF StartCommand, FieldsInv
  <2>3. ThreadInv'
    <3>1. th[Main].pc = "idle" /\ th[Main].on \in Services /\ th[Main].gen \in Nat
      BY <1>2, <1>m DEF StartCommand, ThreadInv
    <3>2. /\ th' \in [Callers -> [pc : Labels, on : Services, gen : Nat,
                                  for : Profiles \cup {Direct, None}]]
          /\ th'[Main].pc = "check" /\ th'[Main].for = p
          /\ \A t \in Callers \ {Main} : th'[t] = th[t]
      BY <1>2, <1>m, <1>l DEF StartCommand, ThreadInv
    <3> QED BY <1>m, <2>1, <3>1, <3>2 DEF ThreadInv, MobileInv, MobileTypeOK
  <2> QED BY <2>1, <2>2, <2>3 DEF IInv
<1>3. ASSUME CheckRunning PROVE IInv'
  BY <1>3, <1>m, <1>l, MoveKeeps DEF CheckRunning, Starting
<1>4. ASSUME HaltClose PROVE IInv'
  <2>1. MobileInv' /\ mu' = mu
    BY <1>4, <1>m, UnchangedKeeps DEF HaltClose, mobile
  <2>2. FieldsInv'
    BY <1>4, <1>m DEF HaltClose, CloseInterface, FieldsInv, fields
  <2>3. ThreadInv'
    BY <1>4, <1>m, <1>l, <2>1, GotoKeeps DEF HaltClose, Starting
  <2> QED BY <2>1, <2>2, <2>3 DEF IInv
<1>5. ASSUME SpawnStart PROVE IInv'
  <2>1. MobileInv' /\ mu' = mu
    BY <1>5, <1>m, SetProtectorKeeps DEF SpawnStart, SetProtector
  <2>2. FieldsInv'
    BY <1>5, <1>m DEF SpawnStart, FieldsInv, svc, fields
  <2>3. th[Main].for \in Profiles \cup {Direct} /\ service \in Services
        /\ startGeneration[service] \in Nat
    BY <1>5, <1>m DEF SpawnStart, ThreadInv, Starting, FieldsInv
  <2>4. ThreadInv'
    BY <1>5, <1>m, <2>1, <2>3, SpawnKeeps, MobileAssumption DEF SpawnStart
  <2> QED BY <2>1, <2>2, <2>4 DEF IInv
<1>6. ASSUME NullCommand PROVE IInv'
  BY <1>6, <1>m, UnchangedKeeps DEF NullCommand, IInv, FieldsInv, ThreadInv, mobile
<1>7. ASSUME StopCommand PROVE IInv'
  <2>1. MobileInv' /\ mu' = mu
    BY <1>7, <1>m, UnchangedKeeps DEF StopCommand, mobile
  <2>2. FieldsInv'
    BY <1>7, <1>m DEF StopCommand, FieldsInv
  <2>3. service \in Services /\ startGeneration[service] + 1 \in Nat
    BY <1>m DEF FieldsInv
  <2>4. ThreadInv'
    BY <1>7, <1>m, <2>1, <2>3, SpawnKeeps DEF StopCommand
  <2> QED BY <2>1, <2>2, <2>4 DEF IInv
<1>8. ASSUME Destroy PROVE IInv'
  <2>1. MobileInv' /\ mu' = mu
    BY <1>8, <1>m, UnchangedKeeps DEF Destroy, mobile
  <2>2. FieldsInv'
    BY <1>8, <1>m DEF Destroy, FieldsInv
  <2>3. ASSUME stopComplete[service] PROVE ThreadInv'
    <3>1. th' = th
      BY <1>8, <2>3 DEF Destroy
    <3> QED BY <1>m, <2>1, <3>1 DEF ThreadInv
  <2>4. ASSUME ~stopComplete[service] PROVE ThreadInv'
    <3>1. th[Main].pc = "idle" /\ Goto(Main, "destroy")
      BY <1>8, <2>4 DEF Destroy
    <3> QED BY <1>m, <1>l, <2>1, <3>1, GotoKeeps DEF Starting
  <2>5. ThreadInv'
    BY <2>3, <2>4
  <2> QED BY <2>1, <2>2, <2>5 DEF IInv
<1>9. ASSUME DestroyClose PROVE IInv'
  <2>1. MobileInv' /\ mu' = mu
    BY <1>9, <1>m, UnchangedKeeps DEF DestroyClose, mobile
  <2>2. FieldsInv'
    BY <1>9, <1>m DEF DestroyClose, CloseInterface, FieldsInv
  <2>3. ThreadInv'
    BY <1>9, <1>m, <1>l, <2>1, GotoKeeps DEF DestroyClose, Starting
  <2> QED BY <2>1, <2>2, <2>3 DEF IInv
<1>10. ASSUME NEW w \in Workers, Posted(w) PROVE IInv'
  <2>1. MobileInv' /\ mu' = mu
    BY <1>10, <1>m, UnchangedKeeps DEF Posted, mobile
  <2>2. FieldsInv'
    BY <1>10, <1>m DEF Posted, FieldsInv
  <2>3. ThreadInv'
    BY <1>10, <1>m, <1>l, <2>1, GotoKeeps DEF Posted, Starting
  <2> QED BY <2>1, <2>2, <2>3 DEF IInv
<1> QED
  BY <1>1, <1>2, <1>3, <1>4, <1>5, <1>6, <1>7, <1>8, <1>9, <1>10 DEF MainRuns

-----------------------------------------------------------------------------
(* The calls of every thread, startRelay, and the user interface           *)

\* setSocketProtector(null) and stop(), wherever they are called
LEMMA CommonKeeps ==
  ASSUME IInv, NEW t \in Workers \cup {Main}, Unprotect(t) \/ StopRelay(t)
  PROVE  IInv'
<1>m. MobileInv /\ FieldsInv /\ ThreadInv /\ t \in Callers
  BY ServiceAssumption DEF IInv
<1>1. FieldsInv'
  BY <1>m DEF Unprotect, StopRelay, FieldsInv, svc, fields
<1>2. CASE Unprotect(t)
  <2>1. MobileInv' /\ mu' = mu
    BY <1>2, <1>m, SetProtectorKeeps DEF Unprotect, SetProtector
  <2>2. ThreadInv'
    BY <1>2, <1>m, <2>1, AfterFacts, GotoKeeps DEF Unprotect
  <2> QED BY <1>1, <2>1, <2>2 DEF IInv
<1>3. CASE StopRelay(t)
  <2>1. MobileInv' /\ mu' = mu
    BY <1>3, <1>m, StopKeeps DEF StopRelay, Stop
  <2>2. ThreadInv'
    BY <1>3, <1>m, <2>1, AfterFacts, GotoKeeps DEF StopRelay
  <2> QED BY <1>1, <2>1, <2>2 DEF IInv
<1> QED BY <1>2, <1>3

\* StartTunnel takes the mutex; the other two calls leave it free.
LEMMA StartRelayKeeps == ASSUME IInv, NEW w \in Workers, StartRelay(w) PROVE IInv'
<1>m. MobileInv /\ FieldsInv /\ ThreadInv /\ w \in Callers
  BY ServiceAssumption DEF IInv
<1>l. {"bind", "called", "failed"} \subseteq Labels
      /\ {"bind", "called", "failed"} \cap Starting = {}
  BY DEF Labels, AfterClear, AfterStop, Starting
<1>1. th[w].pc = "start" /\ th[w].for \in Profiles \cup {Direct} /\ UNCHANGED svc
  BY <1>m DEF StartRelay, ThreadInv, Starting
<1>2. FieldsInv'
  BY <1>1, <1>m DEF FieldsInv, svc, fields
<1>3. ASSUME NEW err \in BOOLEAN, StartDirect(err), Goto(w, IF err THEN "failed" ELSE "called")
      PROVE  IInv'
  <2>1. MobileInv' /\ mu' = mu
    BY <1>3, <1>m, StartDirectKeeps DEF StartDirect
  <2>2. ThreadInv'
    BY <1>1, <1>3, <1>m, <1>l, <2>1, GotoKeeps
  <2> QED BY <1>2, <2>1, <2>2 DEF IInv
<1>4. ASSUME StartTunnelAgain, Goto(w, "called") PROVE IInv'
  BY <1>1, <1>4, <1>m, <1>l, MoveKeeps DEF StartTunnelAgain
<1>5. ASSUME th[w].for \in Profiles, StartTunnel(w, th[w].for), Goto(w, "bind") PROVE IInv'
  <2>1. MobileInv' /\ mu = None /\ mu' = w
    BY <1>5, <1>m, StartTunnelKeeps DEF StartTunnel
  <2>2. ThreadInv'
    <3>1. /\ th' \in [Callers -> [pc : Labels, on : Services, gen : Nat,
                                  for : Profiles \cup {Direct, None}]]
          /\ th'[w].pc = "bind" /\ \A t \in Callers \ {w} : th'[t] = th[t]
      BY <1>5, <1>m, <1>l DEF Goto, ThreadInv
    <3>2. \A t \in Callers : th[t].pc # "bind"
      BY <1>m, <2>1, MobileAssumption DEF ThreadInv
    <3> QED BY <1>m, <1>l, <2>1, <3>1, <3>2 DEF ThreadInv
  <2> QED BY <1>2, <2>1, <2>2 DEF IInv
<1> QED
  BY <1>1, <1>3, <1>4, <1>5 DEF StartRelay

\* Whether the port is bound or not, the thread leaves StartTunnel.
LEMMA BindRelayKeeps == ASSUME IInv, NEW w \in Workers, BindRelay(w) PROVE IInv'
<1>m. MobileInv /\ FieldsInv /\ ThreadInv /\ w \in Callers
  BY ServiceAssumption DEF IInv
<1>l. {"called", "failed"} \subseteq Labels /\ {"called", "failed"} \cap Starting = {}
  BY DEF Labels, AfterClear, AfterStop, Starting
<1>1. PICK err \in BOOLEAN : Bind(w, err) /\ Goto(w, IF err THEN "failed" ELSE "called")
  BY DEF BindRelay
<1>2. MobileInv' /\ mu = w /\ mu' = None
  BY <1>1, <1>m, BindKeeps DEF Bind
<1>3. FieldsInv'
  BY <1>m DEF BindRelay, FieldsInv, svc, fields
<1>4. /\ th' \in [Callers -> [pc : Labels, on : Services, gen : Nat,
                              for : Profiles \cup {Direct, None}]]
      /\ th'[w].pc \in {"called", "failed"} /\ \A t \in Callers \ {w} : th'[t] = th[t]
  BY <1>1, <1>m, <1>l DEF Goto, ThreadInv
<1>5. ThreadInv'
  BY <1>2, <1>4, <1>m, <1>l DEF ThreadInv
<1> QED BY <1>2, <1>3, <1>5 DEF IInv

\* One step for each place of a start or stop thread.
LEMMA WorkerKeeps == ASSUME IInv, NEW w \in Workers, WorkerRuns(w) PROVE IInv'
<1>m. MobileInv /\ FieldsInv /\ ThreadInv /\ w \in Callers
  BY ServiceAssumption DEF IInv
<1>l. {"post", "start", "end", "ready", "fail", "establish", "undo", "established",
       "failed", "attach", "attached", "undoAll"} \subseteq Labels
  BY DEF Labels, AfterClear, AfterStop
<1>1. ASSUME CloseStopped(w) PROVE IInv'
  <2>1. MobileInv' /\ mu' = mu
    BY <1>1, <1>m, UnchangedKeeps DEF CloseStopped, mobile
  <2>2. FieldsInv'
    BY <1>1, <1>m DEF CloseStopped, CloseInterface, FieldsInv, fields
  <2>3. ThreadInv'
    BY <1>1, <1>m, <1>l, <2>1, GotoKeeps DEF CloseStopped, Starting
  <2> QED BY <2>1, <2>2, <2>3 DEF IInv
<1>2. ASSUME Enter(w) PROVE IInv'
  BY <1>2, <1>m, <1>l, MoveKeeps DEF Enter, Starting
<1>3. ASSUME Called(w) PROVE IInv'
  BY <1>3, <1>m, <1>l, MoveKeeps DEF Called, Starting
<1>4. ASSUME Failed(w) PROVE IInv'
  BY <1>4, <1>m, <1>l, MoveKeeps DEF Failed, Starting
<1>5. ASSUME Ready(w) PROVE IInv'
  BY <1>5, <1>m, <1>l, MoveKeeps DEF Ready, Starting
<1>6. ASSUME Establish(w) PROVE IInv'
  <2>1. MobileInv' /\ mu' = mu
    BY <1>6, <1>m, UnchangedKeeps DEF Establish, mobile
  <2>2. FieldsInv'
    BY <1>6, <1>m DEF Establish, FieldsInv, fields
  <2>3. ThreadInv'
    BY <1>6, <1>m, <1>l, <2>1, GotoKeeps DEF Establish, Starting
  <2> QED BY <2>1, <2>2, <2>3 DEF IInv
<1>7. ASSUME Established(w) PROVE IInv'
  BY <1>7, <1>m, <1>l, MoveKeeps DEF Established, Starting
<1>8. ASSUME Attach(w) PROVE IInv'
  <2>1. MobileInv' /\ mu' = mu
    BY <1>8, <1>m, UnchangedKeeps, AttachTUNKeeps DEF Attach, AttachTUN, mobile
  <2>2. FieldsInv'
    BY <1>8, <1>m DEF Attach, FieldsInv, svc, fields
  <2>3. ThreadInv'
    BY <1>8, <1>m, <1>l, <2>1, GotoKeeps DEF Attach, Starting
  <2> QED BY <2>1, <2>2, <2>3 DEF IInv
<1>9. ASSUME Attached(w) PROVE IInv'
  BY <1>9, <1>m, <1>l, MoveKeeps DEF Attached, Starting
<1>10. ASSUME UndoClose(w) PROVE IInv'
  <2>1. MobileInv' /\ mu' = mu
    BY <1>10, <1>m, UnchangedKeeps DEF UndoClose, mobile
  <2>2. FieldsInv'
    BY <1>10, <1>m DEF UndoClose, CloseInterface, FieldsInv
  <2>3. ThreadInv'
    BY <1>10, <1>m, <1>l, <2>1, GotoKeeps DEF UndoClose, Starting
  <2> QED BY <2>1, <2>2, <2>3 DEF IInv
<1> QED
  BY <1>1, <1>2, <1>3, <1>4, <1>5, <1>6, <1>7, <1>8, <1>9, <1>10,
     StartRelayKeeps, BindRelayKeeps DEF WorkerRuns

\* A warmup that overtakes a start or is overtaken by it
LEMMA WarmupKeeps ==
  ASSUME IInv, (\E p \in Profiles : Warmup(p)) \/ WarmupDone
  PROVE  IInv'
<1>m. MobileInv /\ FieldsInv /\ ThreadInv /\ UI \in Callers
  BY ServiceAssumption DEF IInv
<1>l. {"prewarm", "idle"} \subseteq Labels /\ {"prewarm", "idle"} \cap Starting = {}
  BY DEF Labels, AfterClear, AfterStop, Starting
<1>1. FieldsInv'
  BY <1>m DEF Warmup, WarmupDone, FieldsInv, svc, fields
<1>2. ASSUME NEW p \in Profiles, Warmup(p) PROVE IInv'
  <2>1. MobileInv' /\ mu' = mu
    BY <1>2, <1>m, UnchangedKeeps DEF Warmup, mobile
  <2>2. CASE UNCHANGED th
    BY <1>m, <1>1, <2>1, <2>2 DEF IInv, ThreadInv
  <2>3. CASE ~UNCHANGED th
    <3>1. th[UI].pc = "idle"
          /\ th' = [th EXCEPT ![UI].pc = "prewarm", ![UI].for = p]
      BY <1>2, <2>3 DEF Warmup
    <3>2. /\ th' \in [Callers -> [pc : Labels, on : Services, gen : Nat,
                                  for : Profiles \cup {Direct, None}]]
          /\ th'[UI].pc = "prewarm" /\ th'[UI].for = p
          /\ \A t \in Callers \ {UI} : th'[t] = th[t]
      BY <1>m, <1>l, <3>1 DEF ThreadInv
    <3>3. ThreadInv'
      BY <1>m, <1>l, <2>1, <3>1, <3>2 DEF ThreadInv, MobileInv, MobileTypeOK
    <3> QED BY <1>1, <2>1, <3>3 DEF IInv
  <2> QED BY <2>2, <2>3
<1>3. ASSUME WarmupDone PROVE IInv'
  <2>1. th[UI].for \in Profiles
    BY <1>3, <1>m DEF WarmupDone, ThreadInv
  <2>2. MobileInv' /\ mu' = mu
    BY <1>3, <1>m, <2>1, PrewarmKeeps DEF WarmupDone, Prewarm
  <2>3. ThreadInv'
    BY <1>3, <1>m, <1>l, <2>2, GotoKeeps DEF WarmupDone
  <2> QED BY <1>1, <2>2, <2>3 DEF IInv
<1> QED BY <1>2, <1>3

-----------------------------------------------------------------------------
(* What a start has put up, somebody will take down.                       *)

\* The main thread is about to spawn a start.
Spawning == {"check", "halt", "halting", "haltClose", "spawn"}

Threads == Workers \cup {Main}
Place(t) == IF t = Main THEN service ELSE th[t].on

\* A start that no later command of its object has overtaken
Owner(w) == w \in Workers /\ th[w].for # None /\ Current(w)

\* Each command of an object has a generation of its own.
Generations ==
  /\ \A w \in Workers : IF th[w].pc = "idle" THEN th[w].for = None
                        ELSE th[w].gen <= startGeneration[th[w].on]
  /\ \A v, w \in Workers :
       (th[v].pc # "idle" /\ th[w].pc # "idle" /\ th[v].on = th[w].on /\ th[v].gen = th[w].gen)
         => v = w
  /\ th[Main].pc \in Spawning =>
       \A w \in Workers : th[w].pc # "idle" /\ th[w].on = service => ~Current(w)

\* From these places a thread clears the protector, stops the engine or closes
\* the interface of its object - or finds that it is not overtaken.
Clears == DOMAIN AfterClear
Stops == Clears \cup DOMAIN AfterStop \cup {"attached"}
Closes == {"established", "attached", "stop", "stopping", "stopClose",
           "undoAll", "undoingAll", "undoClose", "fail", "failing", "failClose",
           "destroy", "destroying", "destroyClose"}

Minded(places) == \/ th[Main].pc \in Spawning
                  \/ \E w \in Workers : Owner(w)
                  \/ \E t \in Threads : th[t].pc \in places
MindedOn(s) == \/ th[Main].pc \in Spawning /\ service = s
               \/ \E w \in Workers : Owner(w) /\ th[w].on = s
               \/ \E t \in Threads : th[t].pc \in Closes /\ Place(t) = s

Cleanup ==
  /\ protector => Minded(Clears)
  /\ tunEng # None => Minded(Stops)
  /\ \A s \in Services : vpnInterface[s] # None => MindedOn(s)

\* Only the stop threads are for nothing.
Stoppers == {"idle", "stop", "stopping", "stopClose", "post", "end"}
StopThreads == \A w \in Workers : th[w].for = None => th[w].pc \in Stoppers

JInv == Generations /\ Cleanup /\ StopThreads

LEMMA WhoIsWho == Workers \subseteq Callers /\ Main \in Callers /\ Main \notin Workers
                  /\ UI \in Callers /\ UI \notin Threads
  BY ServiceAssumption DEF Threads

\* Numbers and places of the threads
LEMMA ThreadTypes ==
  ASSUME IInv
  PROVE  /\ \A w \in Workers : th[w].gen \in Nat /\ th[w].on \in Services
         /\ service \in Services /\ \A s \in Services : startGeneration[s] \in Nat
  BY WhoIsWho DEF IInv, ThreadInv, FieldsInv

\* A thread moves on, and nobody else: it gives up what it minds only when it
\* is not overtaken, or there is nothing left to mind.
LEMMA GoesOn ==
  ASSUME IInv, JInv, NEW t \in Threads, NEW l, Goto(t, l),
         UNCHANGED <<service, startGeneration>>,
         t \in Workers => th[t].pc # "idle" /\ l # "idle",
         t \in Workers /\ th[t].for = None => l \in Stoppers,
         t = Main => (th[Main].pc \in Spawning <=> l \in Spawning),
         protector' => protector /\ (th[t].pc \in Clears => l \in Clears \/ Owner(t)),
         tunEng' # None =>
           \/ tunEng # None /\ (th[t].pc \in Stops => l \in Stops \/ Owner(t))
           \/ l \in Stops,
         \A s \in Services : vpnInterface'[s] # None =>
           \/ /\ vpnInterface[s] # None
              /\ th[t].pc \in Closes /\ Place(t) = s => l \in Closes \/ Owner(t)
           \/ l \in Closes /\ Place(t) = s
  PROVE  JInv'
<1>1. /\ \A u \in Threads : /\ th'[u].on = th[u].on /\ th'[u].gen = th[u].gen
                            /\ th'[u].for = th[u].for
      /\ \A u \in Threads \ {t} : th'[u].pc = th[u].pc
      /\ th'[t].pc = l
  BY WhoIsWho DEF IInv, ThreadInv, Goto, Threads
<1>2. Main \in Threads /\ Workers \subseteq Threads /\ Main \notin Workers
  BY WhoIsWho DEF Threads
<1>3. \A w \in Workers : (th'[w].pc = "idle") <=> (th[w].pc = "idle")
  BY <1>1, <1>2
<1>4. (th'[Main].pc \in Spawning) <=> (th[Main].pc \in Spawning)
  BY <1>1, <1>2
<1>5. \A w \in Workers : Current(w)' <=> Current(w)
  BY <1>1, <1>2 DEF Current
<1>6. \A w \in Workers : Owner(w)' <=> Owner(w)
  BY <1>1, <1>2, <1>5 DEF Owner
<1>7. \A u \in Threads : Place(u)' = Place(u)
  BY <1>1 DEF Place
<1>8. Generations'
  <2>1. \A w \in Workers : IF th'[w].pc = "idle" THEN th'[w].for = None
                           ELSE th'[w].gen <= startGeneration'[th'[w].on]
    BY <1>1, <1>2, <1>3 DEF JInv, Generations
  <2>2. \A v, w \in Workers :
          (th'[v].pc # "idle" /\ th'[w].pc # "idle" /\ th'[v].on = th'[w].on
             /\ th'[v].gen = th'[w].gen) => v = w
    BY <1>1, <1>2, <1>3 DEF JInv, Generations
  <2>3. th'[Main].pc \in Spawning =>
          \A w \in Workers : th'[w].pc # "idle" /\ th'[w].on = service' => ~Current(w)'
    BY <1>1, <1>2, <1>3, <1>4, <1>5 DEF JInv, Generations
  <2> QED
    BY <2>1, <2>2, <2>3 DEF Generations
<1>9. ASSUME NEW places, Minded(places), th[t].pc \in places => l \in places \/ Owner(t)
      PROVE  Minded(places)'
  <2>1. CASE th[Main].pc \in Spawning
    BY <1>4, <2>1 DEF Minded
  <2>2. CASE \E w \in Workers : Owner(w)
    BY <1>6, <2>2 DEF Minded
  <2>3. CASE th[t].pc \in places /\ l \in places
    BY <1>1, <2>3 DEF Minded
  <2>4. CASE th[t].pc \in places /\ Owner(t)
    BY <1>6, <2>4 DEF Minded, Owner
  <2>5. CASE \E u \in Threads \ {t} : th[u].pc \in places
    BY <1>1, <2>5 DEF Minded
  <2> QED
    BY <1>9, <2>1, <2>2, <2>3, <2>4, <2>5 DEF Minded
<1>10. protector' => Minded(Clears)'
  BY <1>9 DEF JInv, Cleanup
<1>11. tunEng' # None => Minded(Stops)'
  <2>1. l \in Stops => Minded(Stops)'
    BY <1>1 DEF Minded
  <2> QED
    BY <1>9, <2>1 DEF JInv, Cleanup
<1>12. ASSUME NEW s \in Services, vpnInterface'[s] # None PROVE MindedOn(s)'
  <2>1. CASE l \in Closes /\ Place(t) = s
    BY <1>1, <1>7, <2>1 DEF MindedOn
  <2>2. CASE /\ vpnInterface[s] # None
             /\ th[t].pc \in Closes /\ Place(t) = s => l \in Closes \/ Owner(t)
    <3>1. MindedOn(s)
      BY <2>2 DEF JInv, Cleanup
    <3>2. CASE th[Main].pc \in Spawning /\ service = s
      BY <1>4, <3>2 DEF MindedOn
    <3>3. CASE \E w \in Workers : Owner(w) /\ th[w].on = s
      BY <1>1, <1>2, <1>6, <3>3 DEF MindedOn
    <3>4. CASE \E u \in Threads \ {t} : th[u].pc \in Closes /\ Place(u) = s
      BY <1>1, <1>7, <3>4 DEF MindedOn
    <3>5. CASE th[t].pc \in Closes /\ Place(t) = s /\ Owner(t)
      <4>1. t \in Workers /\ th[t].on = s
        BY <1>2, <3>5 DEF Owner, Place
      <4> QED
        BY <1>1, <1>2, <1>6, <3>5, <4>1 DEF MindedOn
    <3> QED
      BY <2>1, <2>2, <3>1, <3>2, <3>3, <3>4, <3>5 DEF MindedOn
  <2> QED
    BY <1>12, <2>1, <2>2
<1>13. StopThreads'
  BY <1>1, <1>2 DEF JInv, StopThreads
<1> QED
  BY <1>8, <1>10, <1>11, <1>12, <1>13 DEF JInv, Cleanup

\* None of the threads moves.
LEMMA AllStay ==
  ASSUME IInv, JInv, UNCHANGED <<startGeneration, protector, tunEng, vpnInterface>>,
         \A t \in Threads : th'[t] = th[t],
         service' = service \/ th[Main].pc = "idle"
  PROVE  JInv'
<1>1. Main \in Threads /\ Workers \subseteq Threads /\ Main \notin Workers
  BY WhoIsWho DEF Threads
<1>2. \A w \in Workers : (Current(w)' <=> Current(w)) /\ (Owner(w)' <=> Owner(w))
  BY <1>1 DEF Current, Owner
<1>3. "idle" \notin Spawning \cup Closes
  BY DEF Spawning, Closes
<1>4. th'[Main].pc \in Spawning => th[Main].pc \in Spawning /\ service' = service
  BY <1>1, <1>3
<1>5. \A t \in Threads : th[t].pc \in Closes => Place(t)' = Place(t)
  BY <1>1, <1>3 DEF Place
<1>6. Generations'
  <2>1. \A w \in Workers : IF th'[w].pc = "idle" THEN th'[w].for = None
                           ELSE th'[w].gen <= startGeneration'[th'[w].on]
    BY <1>1 DEF JInv, Generations
  <2>2. \A v, w \in Workers :
          (th'[v].pc # "idle" /\ th'[w].pc # "idle" /\ th'[v].on = th'[w].on
             /\ th'[v].gen = th'[w].gen) => v = w
    BY <1>1 DEF JInv, Generations
  <2>3. th'[Main].pc \in Spawning =>
          \A w \in Workers : th'[w].pc # "idle" /\ th'[w].on = service' => ~Current(w)'
    BY <1>1, <1>2, <1>4 DEF JInv, Generations
  <2> QED
    BY <2>1, <2>2, <2>3 DEF Generations
<1>7. \A places : Minded(places) => Minded(places)'
  BY <1>1, <1>2 DEF Minded
<1>8. ASSUME NEW s \in Services, MindedOn(s) PROVE MindedOn(s)'
  <2>1. CASE th[Main].pc \in Spawning /\ service = s
    BY <1>1, <1>3, <2>1 DEF MindedOn
  <2>2. CASE \E w \in Workers : Owner(w) /\ th[w].on = s
    BY <1>1, <1>2, <2>2 DEF MindedOn
  <2>3. CASE \E t \in Threads : th[t].pc \in Closes /\ Place(t) = s
    BY <1>1, <1>5, <2>3 DEF MindedOn
  <2> QED
    BY <1>8, <2>1, <2>2, <2>3 DEF MindedOn
<1>9. Cleanup'
  BY <1>7, <1>8 DEF JInv, Cleanup
<1>10. StopThreads'
  BY <1>1 DEF JInv, StopThreads
<1> QED
  BY <1>6, <1>9, <1>10 DEF JInv

\* A new command of the current object: nobody is of its generation yet, and
\* what concerns the other objects is as it was.
LEMMA NewCommand ==
  ASSUME IInv, JInv, th[Main].pc = "idle",
         startGeneration' = [startGeneration EXCEPT ![service] = @ + 1]
  PROVE  /\ \A w \in Workers : th[w].pc # "idle" /\ th[w].on = service =>
              th[w].gen < startGeneration'[service]
         /\ \A s \in Services \ {service} : startGeneration'[s] = startGeneration[s]
         /\ startGeneration'[service] = startGeneration[service] + 1
         /\ \A s \in Services : startGeneration[s] <= startGeneration'[s]
<1>1. startGeneration \in [Services -> Nat] /\ service \in Services
  BY DEF IInv, FieldsInv
<1>2. /\ startGeneration'[service] = startGeneration[service] + 1
      /\ \A s \in Services \ {service} : startGeneration'[s] = startGeneration[s]
  BY <1>1
<1>3. \A s \in Services : startGeneration[s] \in Nat
  BY <1>1
<1>4. \A s \in Services : startGeneration[s] <= startGeneration'[s]
  BY <1>2, <1>3
<1>5. \A w \in Workers : th[w].pc # "idle" /\ th[w].on = service =>
        th[w].gen < startGeneration'[service]
  BY <1>1, <1>2, <1>3, ThreadTypes DEF JInv, Generations
<1> QED
  BY <1>2, <1>4, <1>5

LEMMA StartCommandTidy ==
  ASSUME IInv, JInv, NEW p \in Profiles \cup {Direct}, StartCommand(p)
  PROVE  JInv'
<1>1. /\ th[Main].pc = "idle" /\ th' = [th EXCEPT ![Main].pc = "check", ![Main].for = p]
      /\ startGeneration' = [startGeneration EXCEPT ![service] = @ + 1]
      /\ UNCHANGED <<protector, tunEng, vpnInterface, service>>
  BY DEF StartCommand, mobile
<1>2. Main \in Threads /\ Workers \subseteq Threads /\ Main \notin Workers
  BY WhoIsWho DEF Threads
<1>3. th'[Main].pc = "check" /\ \A w \in Workers : th'[w] = th[w]
  BY <1>1, WhoIsWho DEF IInv, ThreadInv
<1>4. "check" \in Spawning /\ "idle" \notin Closes
  BY DEF Spawning, Closes
<1>5. /\ \A w \in Workers : th[w].pc # "idle" /\ th[w].on = service =>
           th[w].gen < startGeneration'[service]
      /\ \A s \in Services \ {service} : startGeneration'[s] = startGeneration[s]
      /\ \A s \in Services : startGeneration[s] <= startGeneration'[s]
  BY <1>1, NewCommand
<1>6. Generations'
  <2>1. ASSUME NEW w \in Workers
        PROVE  IF th'[w].pc = "idle" THEN th'[w].for = None
               ELSE th'[w].gen <= startGeneration'[th'[w].on]
    <3>1. IF th[w].pc = "idle" THEN th[w].for = None
          ELSE th[w].gen <= startGeneration[th[w].on]
      BY DEF JInv, Generations
    <3>2. /\ th[w].gen \in Nat /\ th[w].on \in Services /\ service \in Services
          /\ startGeneration[service] \in Nat
      BY ThreadTypes
    <3>3. th[w].on = service => startGeneration'[service] \in Nat
      BY <1>1, <3>2 DEF IInv, FieldsInv
    <3> QED
      BY <1>3, <1>5, <3>1, <3>2, <3>3
  <2>2. \A v, w \in Workers :
          (th'[v].pc # "idle" /\ th'[w].pc # "idle" /\ th'[v].on = th'[w].on
             /\ th'[v].gen = th'[w].gen) => v = w
    BY <1>3 DEF JInv, Generations
  <2>3. ASSUME NEW w \in Workers, th'[w].pc # "idle", th'[w].on = service' PROVE ~Current(w)'
    <3>1. th[w].gen < startGeneration'[service] /\ th[w].gen \in Nat
      BY <1>1, <1>3, <1>5, <2>3, ThreadTypes
    <3>2. startGeneration'[service] \in Nat
      BY <1>1 DEF IInv, FieldsInv
    <3>3. th[w].gen # startGeneration'[service]
      BY <3>1, <3>2
    <3>4. th'[w].gen # startGeneration'[th'[w].on]
      BY <1>1, <1>3, <2>3, <3>3
    <3> QED
      BY <3>4 DEF Current
  <2> QED
    BY <2>1, <2>2, <2>3 DEF Generations
<1>7. \A places : Minded(places)'
  BY <1>3, <1>4 DEF Minded
<1>8. ASSUME NEW s \in Services, MindedOn(s) PROVE MindedOn(s)'
  <2>1. CASE s = service
    BY <1>1, <1>3, <1>4, <2>1 DEF MindedOn
  <2>2. CASE s # service
    <3>1. CASE \E w \in Workers : Owner(w) /\ th[w].on = s
      <4>1. PICK w \in Workers : Owner(w) /\ th[w].on = s
        BY <3>1
      <4>2. Owner(w)'
        BY <1>3, <1>5, <2>2, <4>1 DEF Owner, Current
      <4> QED
        BY <1>3, <4>1, <4>2 DEF MindedOn
    <3>2. CASE \E t \in Threads : th[t].pc \in Closes /\ Place(t) = s
      <4>1. PICK t \in Threads : th[t].pc \in Closes /\ Place(t) = s
        BY <3>2
      <4>2. t \in Workers
        BY <1>1, <1>4, <4>1 DEF Threads
      <4>3. th'[t] = th[t] /\ Place(t)' = s
        BY <1>2, <1>3, <4>1, <4>2 DEF Place
      <4> QED
        BY <4>1, <4>3 DEF MindedOn
    <3> QED
      BY <1>8, <2>2, <3>1, <3>2 DEF MindedOn
  <2> QED
    BY <2>1, <2>2
<1>9. Cleanup'
  BY <1>1, <1>7, <1>8 DEF JInv, Cleanup
<1>10. StopThreads'
  BY <1>3 DEF JInv, StopThreads
<1> QED
  BY <1>6, <1>9, <1>10 DEF JInv

LEMMA StopCommandTidy == IInv /\ JInv /\ StopCommand => JInv'
<1> SUFFICES ASSUME IInv, JInv, StopCommand PROVE JInv'
  OBVIOUS
<1> DEFINE g == startGeneration[service] + 1
<1>1. /\ th[Main].pc = "idle" /\ Spawn("stop", service, g, None)
      /\ startGeneration' = [startGeneration EXCEPT ![service] = @ + 1]
      /\ UNCHANGED <<protector, tunEng, vpnInterface, service>>
  BY DEF StopCommand, mobile
<1>2. PICK n \in Workers :
        /\ th[n].pc = "idle"
        /\ th' = [th EXCEPT ![Main].pc = "idle",
                            ![n] = [pc |-> "stop", on |-> service, gen |-> g, for |-> None]]
  BY <1>1 DEF Spawn
<1>3. Main \in Threads /\ Workers \subseteq Threads /\ Main \notin Workers
  BY WhoIsWho DEF Threads
<1>4. /\ th'[Main].pc = "idle" /\ th'[n].pc = "stop" /\ th'[n].on = service
      /\ th'[n].gen = g /\ \A w \in Workers \ {n} : th'[w] = th[w]
  BY <1>2, WhoIsWho DEF IInv, ThreadInv
<1>5. "stop" \in Closes /\ "stop" \in Clears /\ "stop" \in Stops /\ "idle" \notin Closes
      /\ "idle" \notin Spawning
  BY DEF Closes, Clears, Stops, AfterClear, Spawning
<1>6. /\ \A w \in Workers : th[w].pc # "idle" /\ th[w].on = service =>
           th[w].gen < startGeneration'[service]
      /\ \A s \in Services \ {service} : startGeneration'[s] = startGeneration[s]
      /\ startGeneration'[service] = g
      /\ \A s \in Services : startGeneration[s] <= startGeneration'[s]
  BY <1>1, NewCommand
<1>7. service \in Services /\ startGeneration[service] \in Nat /\ g \in Nat
  BY ThreadTypes
<1> HIDE DEF g
<1>8. Generations'
  <2>1. ASSUME NEW w \in Workers
        PROVE  IF th'[w].pc = "idle" THEN th'[w].for = None
               ELSE th'[w].gen <= startGeneration'[th'[w].on]
    <3>1. CASE w = n
      BY <1>4, <1>6, <1>7, <3>1
    <3>2. CASE w # n
      <4>1. IF th[w].pc = "idle" THEN th[w].for = None
            ELSE th[w].gen <= startGeneration[th[w].on]
        BY DEF JInv, Generations
      <4>2. /\ th[w].gen \in Nat /\ th[w].on \in Services /\ th'[w] = th[w]
        BY <1>4, <3>2, ThreadTypes
      <4>3. th[w].pc # "idle" => th[w].gen <= startGeneration'[th[w].on]
        BY <1>6, <1>7, <4>1, <4>2
      <4> QED
        BY <4>1, <4>2, <4>3
    <3> QED
      BY <3>1, <3>2
  <2>2. ASSUME NEW v \in Workers, NEW w \in Workers,
               th'[v].pc # "idle", th'[w].pc # "idle", th'[v].on = th'[w].on,
               th'[v].gen = th'[w].gen
        PROVE  v = w
    <3>1. ASSUME NEW u \in Workers, u # n, th'[u].pc # "idle", th'[u].on = service
          PROVE  th'[u].gen # g
      <4>1. th[u].gen < g /\ th[u].gen \in Nat
        BY <1>4, <1>6, <3>1, ThreadTypes
      <4> QED
        BY <1>4, <1>7, <3>1, <4>1
    <3>2. CASE v = n \/ w = n
      BY <1>4, <2>2, <3>1, <3>2
    <3>3. CASE v # n /\ w # n
      BY <1>4, <2>2, <3>3 DEF JInv, Generations
    <3> QED
      BY <3>2, <3>3
  <2> QED
    BY <1>4, <1>5, <2>1, <2>2 DEF Generations
<1>9. Minded(Clears)' /\ Minded(Stops)'
  BY <1>3, <1>4, <1>5 DEF Minded
<1>10. ASSUME NEW s \in Services, MindedOn(s) PROVE MindedOn(s)'
  <2>1. CASE s = service
    <3>1. Place(n)' = service
      BY <1>3, <1>4 DEF Place
    <3> QED
      BY <1>3, <1>4, <1>5, <2>1, <3>1 DEF MindedOn
  <2>2. CASE s # service
    <3>1. CASE \E w \in Workers : Owner(w) /\ th[w].on = s
      <4>1. PICK w \in Workers : Owner(w) /\ th[w].on = s
        BY <3>1
      <4>2. w # n
        BY <1>2, <4>1 DEF Owner, JInv, Generations
      <4>3. Owner(w)'
        BY <1>4, <1>6, <2>2, <4>1, <4>2 DEF Owner, Current
      <4> QED
        BY <1>4, <4>1, <4>2, <4>3 DEF MindedOn
    <3>2. CASE \E t \in Threads : th[t].pc \in Closes /\ Place(t) = s
      <4>1. PICK t \in Threads : th[t].pc \in Closes /\ Place(t) = s
        BY <3>2
      <4>2. t \in Workers /\ t # n
        BY <1>1, <1>2, <1>5, <4>1 DEF Threads
      <4>3. th'[t] = th[t] /\ Place(t)' = s
        BY <1>3, <1>4, <4>1, <4>2 DEF Place
      <4> QED
        BY <4>1, <4>3 DEF MindedOn
    <3>3. th[Main].pc \notin Spawning
      BY <1>1, <1>5
    <3> QED
      BY <1>10, <3>1, <3>2, <3>3 DEF MindedOn
  <2> QED
    BY <2>1, <2>2
<1>11. Cleanup'
  BY <1>1, <1>9, <1>10 DEF JInv, Cleanup
<1>12. StopThreads'
  BY <1>4 DEF JInv, StopThreads, Stoppers
<1> QED
  BY <1>8, <1>11, <1>12 DEF JInv

LEMMA SpawnStartTidy == IInv /\ JInv /\ SpawnStart => JInv'
<1> SUFFICES ASSUME IInv, JInv, SpawnStart PROVE JInv'
  OBVIOUS
<1> DEFINE g == startGeneration[service]
           p == th[Main].for
<1>1. /\ th[Main].pc = "spawn" /\ Spawn("enter", service, g, p)
      /\ UNCHANGED <<tunEng, vpnInterface, service, startGeneration>>
  BY DEF SpawnStart, SetProtector, svc, fields
<1>2. PICK n \in Workers :
        /\ th[n].pc = "idle"
        /\ th' = [th EXCEPT ![Main].pc = "idle",
                            ![n] = [pc |-> "enter", on |-> service, gen |-> g, for |-> p]]
  BY <1>1 DEF Spawn
<1>3. Main \in Threads /\ Workers \subseteq Threads /\ Main \notin Workers
  BY WhoIsWho DEF Threads
<1>4. /\ th'[Main].pc = "idle" /\ th'[n].pc = "enter" /\ th'[n].on = service
      /\ th'[n].gen = g /\ th'[n].for = p /\ \A w \in Workers \ {n} : th'[w] = th[w]
  BY <1>2, WhoIsWho DEF IInv, ThreadInv
<1>5. "spawn" \in Spawning /\ "spawn" \notin Closes /\ "idle" \notin Spawning \cup Closes
  BY DEF Closes, Spawning
<1>6. p # None
  <2>1. p \in Profiles \cup {Direct}
    BY <1>1, WhoIsWho DEF IInv, ThreadInv, Starting
  <2> QED
    BY <2>1, MobileAssumption
<1>7. \A w \in Workers : th[w].pc # "idle" /\ th[w].on = service => th[w].gen # g
  BY <1>1, <1>5 DEF JInv, Generations, Current
<1>8. service \in Services /\ g \in Nat
  BY ThreadTypes
<1> HIDE DEF g, p
<1>9. Owner(n)'
  BY <1>1, <1>4, <1>6 DEF Owner, Current, g
<1>10. Generations'
  <2>1. \A w \in Workers : IF th'[w].pc = "idle" THEN th'[w].for = None
                           ELSE th'[w].gen <= startGeneration'[th'[w].on]
    BY <1>1, <1>4, <1>8 DEF JInv, Generations, g
  <2>2. \A v, w \in Workers :
          (th'[v].pc # "idle" /\ th'[w].pc # "idle" /\ th'[v].on = th'[w].on
             /\ th'[v].gen = th'[w].gen) => v = w
    BY <1>4, <1>7 DEF JInv, Generations
  <2> QED
    BY <1>4, <1>5, <2>1, <2>2 DEF Generations
<1>11. \A places : Minded(places)'
  BY <1>9 DEF Minded
<1>12. ASSUME NEW s \in Services, MindedOn(s) PROVE MindedOn(s)'
  <2>1. CASE s = service
    BY <1>4, <1>9, <2>1 DEF MindedOn
  <2>2. CASE s # service
    <3>1. CASE \E w \in Workers : Owner(w) /\ th[w].on = s
      <4>1. PICK w \in Workers : Owner(w) /\ th[w].on = s
        BY <3>1
      <4>2. w # n
        BY <1>2, <4>1 DEF Owner, JInv, Generations
      <4>3. Owner(w)'
        BY <1>1, <1>4, <4>1, <4>2 DEF Owner, Current
      <4> QED
        BY <1>4, <4>1, <4>2, <4>3 DEF MindedOn
    <3>2. CASE \E t \in Threads : th[t].pc \in Closes /\ Place(t) = s
      <4>1. PICK t \in Threads : th[t].pc \in Closes /\ Place(t) = s
        BY <3>2
      <4>2. t \in Workers /\ t # n
        BY <1>1, <1>2, <1>5, <4>1 DEF Threads
      <4>3. th'[t] = th[t] /\ Place(t)' = s
        BY <1>3, <1>4, <4>1, <4>2 DEF Place
      <4> QED
        BY <4>1, <4>3 DEF MindedOn
    <3> QED
      BY <1>12, <2>2, <3>1, <3>2 DEF MindedOn
  <2> QED
    BY <2>1, <2>2
<1>13. Cleanup'
  BY <1>1, <1>11, <1>12 DEF JInv, Cleanup
<1>14. StopThreads'
  BY <1>4, <1>6 DEF JInv, StopThreads
<1> QED
  BY <1>10, <1>13, <1>14 DEF JInv

\* A step that leaves the VPN, the objects and their numbers alone
LEMMA MovesOn ==
  ASSUME IInv, JInv, NEW w \in Workers, NEW l, Goto(w, l), th[w].pc # "idle", l # "idle",
         UNCHANGED <<service, startGeneration, protector, tunEng, vpnInterface>>,
         th[w].for = None => l \in Stoppers,
         th[w].pc \in Clears => l \in Clears \/ Owner(w),
         th[w].pc \in Stops => l \in Stops \/ Owner(w),
         th[w].pc \in Closes => l \in Closes \/ Owner(w)
  PROVE  JInv'
<1>1. w \in Threads /\ w # Main
  BY WhoIsWho DEF Threads
<1> QED
  BY <1>1, GoesOn

\* Which places have something to take down
LEMMA PlacesAre ==
  /\ Clears = {"halt", "destroy", "stop", "undo", "undoAll", "fail"}
  /\ Stops = Clears \cup {"halting", "destroying", "stopping", "undoing", "undoingAll",
                          "failing", "attached"}
  BY DEF Clears, Stops, AfterClear, AfterStop

\* A start thread from its first check to its end; its calls of Go between.
LEMMA WorkerTidy ==
  ASSUME IInv, JInv, NEW w \in Workers, WorkerRuns(w)
  PROVE  JInv'
<1> USE PlacesAre DEF Closes, Stoppers
<1>t. w \in Threads /\ w # Main /\ th[w].on \in Services
      /\ vpnInterface \in [Services -> Workers \cup {None}]
  BY WhoIsWho, ThreadTypes DEF Threads, IInv, FieldsInv
<1>s. th[w].for = None => th[w].pc \in Stoppers
  BY DEF JInv, StopThreads
<1>c. Current(w) /\ th[w].pc \notin Stoppers => Owner(w)
  BY <1>s DEF Owner
<1>p. Place(w) = th[w].on
  BY <1>t DEF Place
<1>1. CASE CloseStopped(w)
  <2>1. /\ th[w].pc = "stopClose" /\ Goto(w, "post")
        /\ UNCHANGED <<service, startGeneration, protector, tunEng>>
        /\ \A s \in Services : vpnInterface'[s] # None => vpnInterface[s] # None /\ s # th[w].on
    BY <1>1, <1>t DEF CloseStopped, CloseInterface, mobile, fields
  <2> QED BY <1>t, <1>p, <2>1, GoesOn DEF Spawning
<1>2. CASE Enter(w)
  BY <1>2, <1>s, <1>c, MovesOn DEF Enter, svc, fields, mobile
<1>3. CASE StartRelay(w)
  <2>1. UNCHANGED <<service, startGeneration, protector, tunEng, vpnInterface>>
    BY <1>3 DEF StartRelay, StartDirect, StartTunnel, StartTunnelAgain, svc, fields, mobile
  <2>2. th[w].pc = "start" /\ \E l \in {"failed", "called", "bind"} : Goto(w, l)
    BY <1>3 DEF StartRelay
  <2> QED BY <1>s, <2>1, <2>2, MovesOn
<1>4. CASE BindRelay(w)
  <2>1. UNCHANGED <<service, startGeneration, protector, tunEng, vpnInterface>>
    BY <1>4 DEF BindRelay, Bind, svc, fields
  <2>2. th[w].pc = "bind" /\ \E l \in {"failed", "called"} : Goto(w, l)
    BY <1>4 DEF BindRelay
  <2> QED BY <1>s, <2>1, <2>2, MovesOn
<1>5. CASE Called(w)
  BY <1>5, <1>s, <1>c, MovesOn DEF Called, svc, fields, mobile
<1>6. CASE Failed(w)
  BY <1>6, <1>s, <1>c, MovesOn DEF Failed, svc, fields, mobile
<1>7. CASE Ready(w)
  BY <1>7, <1>s, <1>c, MovesOn DEF Ready, svc, fields, mobile
<1>8. CASE Establish(w)
  <2>1. /\ th[w].pc = "establish"
        /\ UNCHANGED <<service, startGeneration, protector, tunEng>>
    BY <1>8 DEF Establish, fields, mobile
  <2>2. ASSUME NEW l \in {"established", "failed", "fail"}, Goto(w, l),
               \A s \in Services : vpnInterface'[s] # None =>
                 vpnInterface[s] # None \/ (l = "established" /\ s = th[w].on)
        PROVE  JInv'
    BY <1>t, <1>p, <1>s, <2>1, <2>2, GoesOn DEF Spawning
  <2>3. CASE vpnInterface' = [vpnInterface EXCEPT ![th[w].on] = w] /\ Goto(w, "established")
    BY <1>t, <2>2, <2>3
  <2>4. CASE vpnInterface' = [vpnInterface EXCEPT ![th[w].on] = None] /\ Goto(w, "failed")
    BY <1>t, <2>2, <2>4
  <2>5. CASE Goto(w, "fail") /\ UNCHANGED vpnInterface
    BY <1>t, <2>2, <2>5
  <2> QED BY <1>8, <2>3, <2>4, <2>5 DEF Establish
<1>9. CASE Established(w)
  BY <1>9, <1>s, <1>c, MovesOn DEF Established, svc, fields, mobile
<1>10. CASE Attach(w)
  <2>1. /\ th[w].pc = "attach"
        /\ UNCHANGED <<service, startGeneration, protector, vpnInterface>>
    BY <1>10 DEF Attach, AttachTUN, svc, fields, mobile
  <2>2. ASSUME NEW l \in {"fail", "failed", "attached"}, Goto(w, l),
               tunEng' # None => tunEng # None \/ l = "attached"
        PROVE  JInv'
    BY <1>t, <1>p, <1>s, <2>1, <2>2, GoesOn DEF Spawning
  <2>3. CASE Goto(w, "fail") /\ UNCHANGED mobile
    BY <2>2, <2>3 DEF mobile
  <2>4. ASSUME NEW err \in BOOLEAN, AttachTUN(err), Goto(w, IF err THEN "failed" ELSE "attached")
        PROVE  JInv'
    BY <2>2, <2>4 DEF AttachTUN
  <2> QED BY <1>10, <2>3, <2>4 DEF Attach
<1>11. CASE Attached(w)
  BY <1>11, <1>s, <1>c, MovesOn DEF Attached, svc, fields, mobile
<1>12. CASE UndoClose(w)
  <2>1. /\ th[w].pc \in {"undoClose", "failClose"} /\ Goto(w, "end")
        /\ UNCHANGED <<service, startGeneration, protector, tunEng>>
        /\ \A s \in Services : vpnInterface'[s] # None => vpnInterface[s] # None /\ s # th[w].on
    BY <1>12, <1>t DEF UndoClose, CloseInterface, mobile
  <2> QED BY <1>t, <1>p, <2>1, GoesOn DEF Spawning
<1> QED
  BY <1>1, <1>2, <1>3, <1>4, <1>5, <1>6, <1>7, <1>8, <1>9, <1>10, <1>11, <1>12 DEF WorkerRuns

\* setSocketProtector(null) and stop(), wherever they are called: the next place
\* minds whatever is still to be taken down.
LEMMA CallTidy ==
  ASSUME IInv, JInv, NEW t \in Threads, Unprotect(t) \/ StopRelay(t)
  PROVE  JInv'
<1> USE PlacesAre
<1>1. /\ t \in Workers /\ th[t].for = None => th[t].pc \in Stoppers
      /\ UNCHANGED <<service, startGeneration, vpnInterface>>
  BY DEF JInv, StopThreads, Unprotect, StopRelay, svc, fields
<1>2. CASE Unprotect(t)
  <2>1. /\ th[t].pc \in Clears /\ Goto(t, AfterClear[th[t].pc])
        /\ ~protector' /\ tunEng' = tunEng
    BY <1>2 DEF Unprotect, SetProtector, Clears
  <2>2. \A l \in Clears :
          /\ AfterClear[l] \in Stops /\ AfterClear[l] # "idle" /\ l # "idle"
          /\ l \in Stoppers => AfterClear[l] \in Stoppers
          /\ l \in Spawning <=> AfterClear[l] \in Spawning
          /\ l \in Closes => AfterClear[l] \in Closes
    BY DEF AfterClear, Stoppers, Spawning, Closes
  <2> QED BY <1>1, <2>1, <2>2, GoesOn
<1>3. CASE StopRelay(t)
  <2>1. /\ th[t].pc \in DOMAIN AfterStop /\ Goto(t, AfterStop[th[t].pc])
        /\ tunEng' = None /\ protector' = protector
    BY <1>3 DEF StopRelay, Stop
  <2>2. \A l \in DOMAIN AfterStop :
          /\ l \notin Clears /\ AfterStop[l] # "idle" /\ l # "idle"
          /\ l \in Stoppers => AfterStop[l] \in Stoppers
          /\ l \in Spawning <=> AfterStop[l] \in Spawning
          /\ l \in Closes => AfterStop[l] \in Closes
    BY DEF AfterStop, Stoppers, Spawning, Closes
  <2> QED BY <1>1, <2>1, <2>2, GoesOn
<1> QED BY <1>2, <1>3

\* The main thread, apart from the three commands above
LEMMA MainTidy == IInv /\ JInv /\ MainRuns => JInv'
<1> SUFFICES ASSUME IInv, JInv, MainRuns PROVE JInv'
  OBVIOUS
<1> USE PlacesAre DEF Closes, Stoppers, Spawning
<1>t. Main \in Threads /\ Main \notin Workers /\ service \in Services
      /\ vpnInterface \in [Services -> Workers \cup {None}] /\ Place(Main) = service
  BY WhoIsWho, ThreadTypes DEF Threads, IInv, FieldsInv, Place
<1>1. CASE Create
  BY <1>1, AllStay DEF Create, mobile
<1>2. CASE \E p \in Profiles \cup {Direct} : StartCommand(p)
  BY <1>2, StartCommandTidy
<1>3. CASE CheckRunning
  <2>1. /\ th[Main].pc = "check" /\ \E l \in {"halt", "spawn"} : Goto(Main, l)
        /\ UNCHANGED <<service, startGeneration, protector, tunEng, vpnInterface>>
    BY <1>3 DEF CheckRunning, svc, fields, mobile
  <2> QED BY <1>t, <2>1, GoesOn
<1>4. CASE HaltClose
  <2>1. /\ th[Main].pc = "haltClose" /\ Goto(Main, "spawn")
        /\ UNCHANGED <<service, startGeneration, protector, tunEng>>
        /\ \A s \in Services : vpnInterface'[s] # None => vpnInterface[s] # None
    BY <1>4, <1>t DEF HaltClose, CloseInterface, mobile, fields
  <2> QED BY <1>t, <2>1, GoesOn
<1>5. CASE SpawnStart
  BY <1>5, SpawnStartTidy
<1>6. CASE NullCommand
  BY <1>6, AllStay DEF NullCommand, mobile
<1>7. CASE StopCommand
  BY <1>7, StopCommandTidy
<1>8. CASE Destroy
  <2>1. /\ th[Main].pc = "idle"
        /\ UNCHANGED <<service, startGeneration, protector, tunEng, vpnInterface>>
    BY <1>8 DEF Destroy, mobile
  <2>2. CASE UNCHANGED th
    BY <2>1, <2>2, AllStay
  <2>3. CASE Goto(Main, "destroy")
    BY <1>t, <2>1, <2>3, GoesOn
  <2> QED BY <1>8, <2>2, <2>3 DEF Destroy
<1>9. CASE DestroyClose
  <2>1. /\ th[Main].pc = "destroyClose" /\ Goto(Main, "idle")
        /\ UNCHANGED <<service, startGeneration, protector, tunEng>>
        /\ \A s \in Services : vpnInterface'[s] # None => vpnInterface[s] # None /\ s # service
    BY <1>9, <1>t DEF DestroyClose, CloseInterface, mobile
  <2> QED BY <1>t, <2>1, GoesOn
<1>10. ASSUME NEW w \in Workers, Posted(w) PROVE JInv'
  BY <1>10, MovesOn DEF Posted, mobile
<1> QED
  BY <1>1, <1>2, <1>3, <1>4, <1>5, <1>6, <1>7, <1>8, <1>9, <1>10 DEF MainRuns

\* At the start nothing is up and no thread has begun.
LEMMA JInvInit == Init => JInv
<1> SUFFICES ASSUME Init PROVE JInv
  OBVIOUS
<1>1. /\ \A w \in Workers : th[w] = AtRest
      /\ th[Main] = AtRest /\ AtRest.pc = "idle" /\ AtRest.for = None
  BY WhoIsWho DEF Init, AtRest
<1>2. Generations
  BY <1>1 DEF Generations, Spawning
<1>3. Cleanup
  BY DEF Init, MobileInit, Cleanup
<1>4. StopThreads
  BY <1>1 DEF StopThreads, Stoppers
<1> QED
  BY <1>2, <1>3, <1>4 DEF JInv

LEMMA EveryStepTidy == IInv /\ JInv /\ [Next]_vars => JInv'
<1> SUFFICES ASSUME IInv, JInv, [Next]_vars PROVE JInv'
  OBVIOUS
<1>1. CASE UNCHANGED vars
  BY <1>1, AllStay DEF vars, mobile
<1>2. CASE (\E p \in Profiles : Warmup(p)) \/ WarmupDone
  <2>1. UNCHANGED <<service, startGeneration, protector, tunEng, vpnInterface>>
    BY <1>2 DEF Warmup, WarmupDone, Prewarm, mobile, svc, fields
  <2>2. \A t \in Threads : th'[t] = th[t]
    BY <1>2, WhoIsWho DEF Warmup, WarmupDone, Goto, IInv, ThreadInv, Threads
  <2> QED BY <2>1, <2>2, AllStay
<1> QED
  BY <1>1, <1>2, MainTidy, WorkerTidy, CallTidy DEF Next, Threads

-----------------------------------------------------------------------------
(* The theorems                                                            *)

\* The invariant holds throughout: one lemma for each disjunct of Next.
THEOREM Inductive == Spec => []IInv
<1>1. IInv /\ [Next]_vars => IInv'
  <2> SUFFICES ASSUME IInv, [Next]_vars PROVE IInv'
    OBVIOUS
  <2>1. CASE UNCHANGED vars
    BY <2>1, UnchangedKeeps
       DEF vars, mobile, IInv, FieldsInv, ThreadInv
  <2> QED BY <2>1, MainKeeps, WorkerKeeps, CommonKeeps, WarmupKeeps DEF Next
<1> QED BY <1>1, IInvInit, PTL DEF Spec

\* The types: of the Go state, of the fields of every service object and of
\* where each thread is; the mutex is held by who is inside StartTunnel.
THEOREM VpnTypeCorrect == Spec => []TypeOK
<1>1. IInv => TypeOK
  BY DEF IInv, MobileInv, FieldsInv, ThreadInv, TypeOK
<1> QED BY <1>1, Inductive, PTL

\* No TunnelClient is lost, however starts, stops, warmups and errors of
\* binding the port interleave (server.go:25-40, prewarm.go).
THEOREM NoClientIsLost == Spec => []NoClientLeaks
<1>1. IInv => NoClientLeaks
  BY DEF IInv, MobileInv
<1> QED BY <1>1, Inductive, PTL

\* Outside StartTunnel the proxy, its client and the TUN engine belong together
\* and no engine outlives its proxy, for any number of start and stop threads
\* (mobile.go:137-190, 249-263, 336-358).
THEOREM ProfilesAgree == Spec => []OneProfile
<1>1. IInv => OneProfile
  BY DEF IInv, MobileInv
<1> QED BY <1>1, Inductive, PTL
\* Whatever is up has somebody to take it down, throughout.
THEOREM SomebodyMinds == Spec => []JInv
<1>1. IInv /\ IInv' /\ JInv /\ [Next]_vars => JInv'
  BY EveryStepTidy
<1> QED BY <1>1, JInvInit, Inductive, PTL DEF Spec

\* When the last command was a stop and all threads are done, there is no
\* interface, no TUN engine and no socket protector, however many starts and
\* stops there were and wherever each was overtaken (RelayVpnService.kt:73-192).
THEOREM NothingAfterStop == Spec => []NoVpnAfterStop
<1>1. IInv /\ JInv => NoVpnAfterStop
  <2> SUFFICES ASSUME IInv, JInv, StoppedForGood,
                      \A w \in Workers : NotOvertaken(w) => th[w].on = service
               PROVE  /\ \A s \in DOMAIN vpnInterface : vpnInterface[s] = None
                      /\ tunEng = None /\ ~protector
    BY DEF NoVpnAfterStop
  <2>1. PICK v \in Workers : /\ th[v].for = None /\ th[v].pc = "end"
                             /\ th[v].on = service /\ Current(v)
    BY DEF StoppedForGood
  <2>2. \A t \in Threads : th[t].pc \in {"idle", "end"}
    BY DEF StoppedForGood, Quiet, Threads
  <2>3. ASSUME NEW w \in Workers, Owner(w) PROVE FALSE
    <3>1. th[w].pc = "end"
      BY <2>2, <2>3 DEF Owner, JInv, Generations, Threads
    <3>2. th[w].on = service
      BY <2>3, <3>1 DEF Owner, NotOvertaken
    <3>3. w = v
      BY <2>1, <2>3, <3>1, <3>2 DEF Owner, Current, JInv, Generations
    <3> QED BY <2>1, <2>3, <3>3 DEF Owner
  <2>4. th[Main].pc \notin Spawning
    BY <2>2 DEF Spawning, Threads
  <2>5. \A t \in Threads : th[t].pc \notin Clears \cup Stops \cup Closes
    BY <2>2, PlacesAre DEF Closes
  <2>6. ~Minded(Clears) /\ ~Minded(Stops) /\ \A s \in Services : ~MindedOn(s)
    BY <2>3, <2>4, <2>5 DEF Minded, MindedOn
  <2>7. DOMAIN vpnInterface = Services
    BY DEF IInv, FieldsInv
  <2> QED BY <2>6, <2>7 DEF JInv, Cleanup
<1> QED BY <1>1, Inductive, SomebodyMinds, PTL

-----------------------------------------------------------------------------
(* The engine: types, and what readLoop has in hand                        *)

Busy == {"find", "insert", "seg", "write", "rst", "unlink"}
Holding == {"seg", "write", "rst", "unlink"}

\* A packet of a connection its client has made; data has its bytes.
Sent(p) == p.inc <= cl[p.key].inc /\ (p.kind = "data" => p.n \in 1 .. NUp)

QueueTypes == q \in Seq(Packets) /\ \A i \in DOMAIN q : Sent(q[i])

SocketTypes ==
  /\ cl \in [Keys -> Sockets]
  /\ \A k \in Keys : cl[k].st # "closed" => 1 <= cl[k].inc

\* What is kept waits for the flush, which is done once; a closed flow is not
\* flushed.
FlowTypes(f) ==
  /\ flow[f] \in FlowState
  /\ flow[f].inc <= cl[flow[f].key].inc
  /\ Len(flow[f].pending) <= MaxPending
  /\ pc[f] = "flush" => ~flow[f].closed
  /\ ~flow[f].closed => flow[f].n <= NUp + 1 + MaxPending
  /\ ~flow[f].closed /\ pc[f] \in {"dial", "complete", "flush"} => flow[f].n <= NUp + 1

FlowsTypes ==
  /\ DOMAIN flow = {f \in Flows : pc[f] # "none"}
  /\ \A f \in DOMAIN flow : FlowTypes(f)
  /\ pc \in [Flows -> {"none", "dial", "shutdown", "complete", "flush", "pump", "read",
                       "fin", "remove", "end"}]
  /\ bridge \in [Flows -> {"none", "running", "ended"}]

TableTypes ==
  /\ table \in [Keys -> Flows \cup {NoFlow}]
  /\ \A k \in Keys : table[k] # NoFlow => table[k] \in DOMAIN flow /\ flow[table[k]].key = k

\* readLoop found the flow by the key; only readLoop registers another.  While it
\* writes, nobody touches the flow.
LoopTypes ==
  /\ rl = [pc |-> rl.pc, pkt |-> rl.pkt, flow |-> rl.flow]
  /\ rl.pc \in Busy \cup {"top", "read", "exited"}
  /\ rl.flow \in Flows \cup {NoFlow}
  /\ rl.pc \in Busy => rl.pkt \in Packets /\ Sent(rl.pkt)
  /\ rl.pc = "insert" => rl.pkt.kind = "syn"
  /\ rl.pc = "find" => rl.pkt.kind # "syn"
  /\ rl.pc = "rst" => rl.pkt.kind = "rst"
  /\ rl.pc = "seg" => rl.pkt.kind # "rst"
  /\ rl.pc \in Holding =>
       /\ rl.flow \in DOMAIN flow /\ flow[rl.flow].key = rl.pkt.key
       /\ table[rl.pkt.key] \in {rl.flow, NoFlow}
  /\ rl.pc = "write" =>
       /\ rl.pkt.kind = "data" /\ ~flow[rl.flow].closed /\ pc[rl.flow] # "flush"
       /\ rl.pkt.inc = flow[rl.flow].at /\ rl.pkt.n = flow[rl.flow].n

StopTypes ==
  /\ stop \in {"no", "cancelled", "closing", "wait", "returned"}
  /\ doomed \subseteq DOMAIN flow

EngineTypes == QueueTypes /\ SocketTypes /\ FlowsTypes /\ TableTypes /\ LoopTypes /\ StopTypes

-----------------------------------------------------------------------------
(* Facts about the types                                                   *)

LEMMA EngineNumbers ==
  /\ MaxPending \in Nat /\ MaxInc \in Nat /\ NUp \in Nat /\ MaxQueue \in Nat
  /\ NoFlow \notin Flows
  BY EngineAssumption

LEMMA SocketFacts ==
  ASSUME EngineTypes, NEW k \in Keys
  PROVE  /\ cl[k] \in Sockets /\ cl[k].st \in {"closed", "syn", "est", "fin"}
         /\ cl[k].inc \in 0 .. MaxInc /\ cl[k].sent \in 0 .. NUp /\ cl[k].acked \in 0 .. NUp
         /\ cl[k].inc \in Nat /\ cl[k].sent \in Nat /\ cl[k].acked \in Nat
  BY EngineNumbers DEF EngineTypes, SocketTypes, Sockets

LEMMA FlowFacts ==
  ASSUME EngineTypes, NEW f \in DOMAIN flow
  PROVE  /\ f \in Flows /\ f # NoFlow /\ flow[f] \in FlowState
         /\ flow[f].key \in Keys /\ flow[f].inc \in 1 .. MaxInc /\ flow[f].inc \in Nat
         /\ flow[f].at \in 1 .. MaxInc /\ flow[f].at \in Nat /\ flow[f].n \in Nat
         /\ flow[f].n \in 1 .. NUp + MaxPending + 2
         /\ flow[f].pending \in Seq(Segments) /\ flow[f].wrote \in Seq(Segments)
         /\ flow[f].synAck \in BOOLEAN /\ flow[f].closed \in BOOLEAN /\ flow[f].again \in BOOLEAN
         /\ flow[f].backend \in {"none", "open", "closed"}
         /\ Len(flow[f].pending) \in Nat /\ Len(flow[f].wrote) \in Nat
         /\ flow[f].inc <= cl[flow[f].key].inc
         /\ pc[f] # "none"
<1>1. f \in Flows /\ f # NoFlow /\ flow[f] \in FlowState /\ pc[f] # "none"
      /\ flow[f].inc <= cl[flow[f].key].inc
  BY EngineNumbers DEF EngineTypes, FlowsTypes, FlowTypes
<1>2. /\ flow[f].key \in Keys /\ flow[f].inc \in 1 .. MaxInc /\ flow[f].at \in 1 .. MaxInc
      /\ flow[f].n \in 1 .. NUp + MaxPending + 2
      /\ flow[f].pending \in Seq(Segments) /\ flow[f].wrote \in Seq(Segments)
      /\ flow[f].synAck \in BOOLEAN /\ flow[f].closed \in BOOLEAN /\ flow[f].again \in BOOLEAN
      /\ flow[f].backend \in {"none", "open", "closed"}
  BY <1>1 DEF FlowState
<1>3. Len(flow[f].pending) \in Nat /\ Len(flow[f].wrote) \in Nat
  BY <1>2, LenProperties
<1>4. flow[f].inc \in Nat /\ flow[f].at \in Nat /\ flow[f].n \in Nat
  BY <1>2, EngineNumbers
<1> QED BY <1>1, <1>2, <1>3, <1>4

LEMMA PacketFacts ==
  ASSUME NEW p \in Packets
  PROVE  /\ p.kind \in Kinds /\ p.key \in Keys /\ p.inc \in 1 .. MaxInc /\ p.inc \in Nat
         /\ p.n \in 0 .. NUp + 1 /\ p.n \in Nat
  BY EngineNumbers DEF Packets

LEMMA QueueFacts ==
  ASSUME EngineTypes
  PROVE  /\ Len(q) \in Nat /\ DOMAIN q = 1 .. Len(q)
         /\ \A i \in DOMAIN q : q[i] \in Packets /\ i \in Nat
  BY DEF EngineTypes, QueueTypes

LEMMA HandFacts ==
  ASSUME EngineTypes, rl.pc \in Busy
  PROVE  /\ rl.pkt \in Packets /\ rl.pkt.key \in Keys /\ rl.pkt.inc \in Nat /\ rl.pkt.n \in Nat
         /\ rl.pkt.inc \in 1 .. MaxInc
         /\ rl.pkt.inc <= cl[rl.pkt.key].inc /\ rl.pkt.kind \in Kinds
         /\ rl.pkt.kind = "data" => Arrived \in Segments /\ rl.pkt.n <= NUp
<1>1. rl.pkt \in Packets /\ Sent(rl.pkt)
  BY DEF EngineTypes, LoopTypes
<1>2. rl.pkt.kind = "data" => Arrived \in Segments /\ rl.pkt.n <= NUp
  BY <1>1, PacketFacts, EngineNumbers DEF Sent, Arrived, Segments
<1> QED BY <1>1, <1>2, PacketFacts DEF Sent

LEMMA TableFacts ==
  ASSUME EngineTypes, NEW k \in Keys
  PROVE  /\ table[k] \in Flows \cup {NoFlow}
         /\ table[k] # NoFlow => table[k] \in DOMAIN flow /\ flow[table[k]].key = k
  BY DEF EngineTypes, TableTypes

-----------------------------------------------------------------------------
(* What an action may leave as it is                                       *)

\* The clients' connections are only ever more.
ClientsGrow == \A k \in Keys : cl[k].inc <= cl'[k].inc

\* One flow changes, and stays the flow of its key and connection.
OnlyFlow(f) ==
  /\ DOMAIN flow' = DOMAIN flow
  /\ \A g \in DOMAIN flow : g # f => flow'[g] = flow[g]
  /\ flow'[f].key = flow[f].key /\ flow'[f].inc = flow[f].inc

\* ... and its goroutine moves.
OnlyMove(f) ==
  /\ pc' \in [Flows -> {"none", "dial", "shutdown", "complete", "flush", "pump", "read",
                        "fin", "remove", "end"}]
  /\ \A g \in Flows : g # f => pc'[g] = pc[g]
  /\ pc'[f] # "none"

\* A number of a connection stays one of those its client has made.
LEMMA GrowsStill ==
  ASSUME EngineTypes, ClientsGrow, SocketTypes', NEW k \in Keys, NEW i \in Nat, i <= cl[k].inc
  PROVE  i <= cl'[k].inc
<1>1. cl[k].inc \in Nat
  BY SocketFacts
<1>2. cl'[k].inc \in Nat
  BY EngineNumbers DEF SocketTypes, Sockets
<1>3. cl[k].inc <= cl'[k].inc
  BY DEF ClientsGrow
<1> QED BY <1>1, <1>2, <1>3

LEMMA NobodyGrows == ASSUME EngineTypes, cl' = cl PROVE ClientsGrow
  BY SocketFacts DEF ClientsGrow

LEMMA FlowsKeep ==
  ASSUME EngineTypes, ClientsGrow, SocketTypes', NEW f \in DOMAIN flow, OnlyFlow(f), OnlyMove(f),
         bridge' \in [Flows -> {"none", "running", "ended"}],
         FlowTypes(f)'
  PROVE  FlowsTypes'
<1>1. \A g \in DOMAIN flow : g # f => FlowTypes(g)'
  <2> SUFFICES ASSUME NEW g \in DOMAIN flow, g # f PROVE FlowTypes(g)'
    OBVIOUS
  <2>1. FlowTypes(g) /\ flow'[g] = flow[g] /\ pc'[g] = pc[g] /\ flow[g].key \in Keys
    BY FlowFacts DEF EngineTypes, FlowsTypes, OnlyFlow, OnlyMove
  <2>2. flow[g].inc <= cl'[flow[g].key].inc
    BY FlowFacts, GrowsStill
  <2> QED BY <2>1, <2>2 DEF FlowTypes
<1>2. DOMAIN flow' = {g \in Flows : pc'[g] # "none"}
  BY FlowFacts DEF EngineTypes, FlowsTypes, OnlyFlow, OnlyMove
<1> QED BY <1>1, <1>2 DEF FlowsTypes, OnlyFlow, OnlyMove

\* No flow changes.
LEMMA FlowsStay ==
  ASSUME EngineTypes, ClientsGrow, SocketTypes', UNCHANGED <<flow, pc, bridge>>
  PROVE  FlowsTypes'
<1>1. ASSUME NEW g \in DOMAIN flow PROVE FlowTypes(g)'
  <2>1. FlowTypes(g) /\ flow[g].key \in Keys
    BY FlowFacts DEF EngineTypes, FlowsTypes
  <2>2. flow[g].inc <= cl'[flow[g].key].inc
    BY FlowFacts, GrowsStill
  <2> QED BY <2>1, <2>2 DEF FlowTypes
<1> QED BY <1>1 DEF FlowsTypes, EngineTypes

\* A flow that stays as it is, whatever its goroutine does but reach the flush
LEMMA FlowMoves ==
  ASSUME EngineTypes, ClientsGrow, SocketTypes', NEW f \in DOMAIN flow, flow'[f] = flow[f],
         pc'[f] = pc[f] \/ pc'[f] \notin {"dial", "complete", "flush"}
  PROVE  FlowTypes(f)'
<1>1. FlowTypes(f) /\ flow[f].key \in Keys
  BY FlowFacts DEF EngineTypes, FlowsTypes
<1>2. flow[f].inc <= cl'[flow[f].key].inc
  BY FlowFacts, GrowsStill
<1> QED BY <1>1, <1>2 DEF FlowTypes

\* closeLocked changes two fields.
LEMMA CloseDoes ==
  ASSUME EngineTypes, NEW f \in DOMAIN flow, Close(f)
  PROVE  /\ OnlyFlow(f) /\ flow'[f] \in FlowState /\ flow'[f].closed
         /\ flow'[f].at = flow[f].at /\ flow'[f].n = flow[f].n
         /\ flow'[f].pending = flow[f].pending /\ flow'[f].wrote = flow[f].wrote
         /\ flow'[f].synAck = flow[f].synAck /\ flow'[f].again = flow[f].again
         /\ flow'[f].backend = "none" <=> flow[f].backend = "none"
<1>1. flow' = [flow EXCEPT ![f] = IF flow[f].closed THEN flow[f] ELSE Closed(flow[f])]
  BY DEF Close
<1>2. flow'[f] = IF flow[f].closed THEN flow[f] ELSE Closed(flow[f])
  BY <1>1
<1>3. DOMAIN flow' = DOMAIN flow /\ \A g \in DOMAIN flow : g # f => flow'[g] = flow[g]
  BY <1>1
<1>4. flow[f] \in FlowState
  BY FlowFacts
<1> HIDE DEF Close
<1>5. CASE flow[f].closed
  BY <1>2, <1>3, <1>4, <1>5 DEF OnlyFlow
<1>6. CASE ~flow[f].closed
  <2>1. flow'[f] = Closed(flow[f])
    BY <1>2, <1>6
  <2>2. /\ Closed(flow[f]) \in FlowState /\ Closed(flow[f]).closed
        /\ Closed(flow[f]).key = flow[f].key /\ Closed(flow[f]).inc = flow[f].inc
        /\ Closed(flow[f]).at = flow[f].at /\ Closed(flow[f]).n = flow[f].n
        /\ Closed(flow[f]).pending = flow[f].pending /\ Closed(flow[f]).wrote = flow[f].wrote
        /\ Closed(flow[f]).synAck = flow[f].synAck /\ Closed(flow[f]).again = flow[f].again
        /\ Closed(flow[f]).backend = "none" <=> flow[f].backend = "none"
    BY <1>4 DEF Closed, FlowState
  <2> QED BY <1>3, <2>1, <2>2 DEF OnlyFlow
<1> QED BY <1>5, <1>6

LEMMA ClosedTypes ==
  ASSUME EngineTypes, ClientsGrow, SocketTypes', NEW f \in DOMAIN flow, Close(f),
         pc'[f] # "flush"
  PROVE  FlowTypes(f)'
<1>1. FlowTypes(f) /\ flow[f].key \in Keys
  BY FlowFacts DEF EngineTypes, FlowsTypes
<1>2. flow[f].inc <= cl'[flow[f].key].inc
  BY FlowFacts, GrowsStill
<1>3. /\ OnlyFlow(f) /\ flow'[f] \in FlowState /\ flow'[f].closed
      /\ flow'[f].pending = flow[f].pending
  BY CloseDoes
<1> QED BY <1>1, <1>2, <1>3 DEF FlowTypes, OnlyFlow

\* The table keeps flows of the keys they are under.
LEMMA TableKeep ==
  ASSUME EngineTypes, table' \in [Keys -> Flows \cup {NoFlow}],
         \A k \in Keys : table'[k] \in {table[k], NoFlow},
         DOMAIN flow' = DOMAIN flow, \A g \in DOMAIN flow : flow'[g].key = flow[g].key
  PROVE  TableTypes'
  BY TableFacts DEF TableTypes

LEMMA UnlinkDoes ==
  ASSUME EngineTypes, NEW k \in Keys, Unlink(k)
  PROVE  /\ table' \in [Keys -> Flows \cup {NoFlow}]
         /\ \A j \in Keys : table'[j] = IF j = k THEN NoFlow ELSE table[j]
  BY DEF Unlink, EngineTypes, TableTypes

LEMMA LoopKeep ==
  ASSUME EngineTypes, ClientsGrow, SocketTypes', rl' = rl,
         \A k \in Keys : table'[k] \in {table[k], NoFlow},
         DOMAIN flow' = DOMAIN flow, \A g \in DOMAIN flow : flow'[g].key = flow[g].key,
         rl.pc = "write" => flow'[rl.flow] = flow[rl.flow] /\ pc'[rl.flow] # "flush"
  PROVE  LoopTypes'
<1>1. rl.pc \in Busy => rl.pkt.key \in Keys /\ Sent(rl.pkt)'
  <2> SUFFICES ASSUME rl.pc \in Busy PROVE rl.pkt.key \in Keys /\ Sent(rl.pkt)'
    OBVIOUS
  <2>1. rl.pkt.key \in Keys /\ rl.pkt.inc \in Nat /\ Sent(rl.pkt)
    BY HandFacts DEF EngineTypes, LoopTypes
  <2>2. rl.pkt.inc <= cl'[rl.pkt.key].inc
    BY <2>1, GrowsStill DEF Sent
  <2> QED BY <2>1, <2>2 DEF Sent
<1>2. rl.pc \in Holding =>
        /\ rl.flow \in DOMAIN flow' /\ flow'[rl.flow].key = rl.pkt.key
        /\ table'[rl.pkt.key] \in {rl.flow, NoFlow}
  BY <1>1 DEF EngineTypes, LoopTypes, Holding, Busy
<1> QED BY <1>1, <1>2 DEF EngineTypes, LoopTypes

LEMMA LoopTop ==
  ASSUME EngineTypes, Again \/ rl' = [pc |-> "exited", pkt |-> rl.pkt, flow |-> NoFlow]
                      \/ rl' = [pc |-> "read", pkt |-> rl.pkt, flow |-> NoFlow]
  PROVE  LoopTypes'
  BY DEF Again, LoopTypes, Busy, Holding

LEMMA StepDoes ==
  ASSUME EngineTypes, NEW l, NEW f, Step(l, f)
  PROVE  rl' = [pc |-> l, pkt |-> rl.pkt, flow |-> f]
  BY DEF Step, EngineTypes, LoopTypes

LEMMA MoveDoes ==
  ASSUME EngineTypes, NEW f \in DOMAIN flow,
         NEW l \in {"dial", "shutdown", "complete", "flush", "pump", "read", "fin", "remove",
                    "end"},
         Move(f, l)
  PROVE  OnlyMove(f) /\ pc'[f] = l
  BY FlowFacts DEF Move, OnlyMove, EngineTypes, FlowsTypes

-----------------------------------------------------------------------------
(* What a client does, and what an answer does to it                       *)

\* The queue is the same, or has one packet more of a connection made.
Queued == q' = q \/ \E p \in Packets : q' = Append(q, p) /\ Sent(p)'

LEMMA QueueKeep ==
  ASSUME EngineTypes, ClientsGrow, SocketTypes', Queued
  PROVE  QueueTypes'
<1>1. ASSUME NEW p \in Packets, Sent(p) PROVE Sent(p)'
  <2>1. p.inc <= cl'[p.key].inc
    BY <1>1, PacketFacts, GrowsStill DEF Sent
  <2> QED BY <1>1, <2>1 DEF Sent
<1>2. CASE q' = q
  <2>1. \A i \in DOMAIN q : q[i] \in Packets /\ Sent(q[i])
    BY QueueFacts DEF EngineTypes, QueueTypes
  <2>2. \A i \in DOMAIN q : \E r \in Packets : r = q[i] /\ Sent(r)'
    BY <1>1, <2>1
  <2> QED BY <1>2, <2>2 DEF QueueTypes, EngineTypes, Sent
<1>3. ASSUME NEW p \in Packets, q' = Append(q, p), Sent(p)' PROVE QueueTypes'
  <2>1. q \in Seq(Packets)
    BY DEF EngineTypes, QueueTypes
  <2>2. q' \in Seq(Packets) /\ DOMAIN q' = 1 .. Len(q) + 1 /\ q'[Len(q) + 1] = p
        /\ \A i \in 1 .. Len(q) : q'[i] = q[i]
    BY <1>3, <2>1
  <2>3. \A i \in DOMAIN q : q[i] \in Packets /\ Sent(q[i])
    BY QueueFacts DEF EngineTypes, QueueTypes
  <2>4. ASSUME NEW i \in DOMAIN q' PROVE \E r \in Packets : r = q'[i] /\ Sent(r)'
    BY <1>1, <1>3, <2>2, <2>3, QueueFacts
  <2> QED BY <2>2, <2>4 DEF QueueTypes, Sent
<1> QED BY <1>2, <1>3 DEF Queued

LEMMA PacketIs ==
  ASSUME EngineTypes, NEW k \in Keys, NEW kind \in Kinds, NEW n \in 0 .. NUp + 1,
         1 <= cl[k].inc
  PROVE  /\ Packet(kind, k, n) \in Packets
         /\ Packet(kind, k, n).kind = kind /\ Packet(kind, k, n).key = k
         /\ Packet(kind, k, n).inc = cl[k].inc /\ Packet(kind, k, n).n = n
  BY SocketFacts, EngineNumbers DEF Packet, Packets

\* One socket changes.
LEMMA SocketKeep ==
  ASSUME EngineTypes, NEW k \in Keys, NEW s \in Sockets, cl' = [cl EXCEPT ![k] = s],
         cl[k].inc <= s.inc, s.st # "closed" => 1 <= s.inc
  PROVE  /\ SocketTypes' /\ ClientsGrow /\ cl'[k] = s
         /\ \A j \in Keys : j # k => cl'[j] = cl[j]
<1>1. cl \in [Keys -> Sockets]
  BY DEF EngineTypes, SocketTypes
<1>2. cl' \in [Keys -> Sockets] /\ cl'[k] = s /\ \A j \in Keys : j # k => cl'[j] = cl[j]
  BY <1>1
<1>3. ClientsGrow
  BY <1>2, SocketFacts DEF ClientsGrow
<1> QED BY <1>2, <1>3 DEF EngineTypes, SocketTypes

LEMMA SocketStays ==
  ASSUME EngineTypes, cl' = cl
  PROVE  SocketTypes' /\ ClientsGrow
  BY NobodyGrows DEF EngineTypes, SocketTypes

\* The socket after its client's move, by field
LEMMA SocketBecomes ==
  ASSUME EngineTypes, NEW k \in Keys
  PROVE  /\ \A st \in {"closed", "syn", "est", "fin"} : [cl[k] EXCEPT !.st = st] \in Sockets
         /\ \A n \in 0 .. NUp : [cl[k] EXCEPT !.sent = n] \in Sockets
                              /\ [cl[k] EXCEPT !.acked = n] \in Sockets
  BY SocketFacts DEF Sockets

LEMMA StateChanges ==
  ASSUME EngineTypes, NEW k \in Keys, NEW st \in {"closed", "syn", "est", "fin"},
         cl' = [cl EXCEPT ![k].st = st], st # "closed" => 1 <= cl[k].inc
  PROVE  /\ SocketTypes' /\ ClientsGrow
         /\ cl'[k].st = st /\ cl'[k].inc = cl[k].inc /\ cl'[k].acked = cl[k].acked
         /\ cl'[k].sent = cl[k].sent /\ cl'[k].peer = cl[k].peer
         /\ \A j \in Keys : j # k => cl'[j] = cl[j]
<1> DEFINE s == [cl[k] EXCEPT !.st = st]
<1>1. s \in Sockets /\ s.st = st /\ s.inc = cl[k].inc /\ s.acked = cl[k].acked
      /\ s.sent = cl[k].sent /\ s.peer = cl[k].peer
  BY SocketBecomes, SocketFacts DEF Sockets
<1>2. cl' = [cl EXCEPT ![k] = s]
  OBVIOUS
<1> HIDE DEF s
<1>3. cl[k].inc <= s.inc
  BY <1>1, SocketFacts
<1>4. SocketTypes' /\ ClientsGrow /\ cl'[k] = s /\ \A j \in Keys : j # k => cl'[j] = cl[j]
  BY <1>1, <1>2, <1>3, SocketKeep
<1> QED BY <1>1, <1>4

LEMMA AckedChanges ==
  ASSUME EngineTypes, NEW k \in Keys, NEW n \in 0 .. NUp, cl' = [cl EXCEPT ![k].acked = n]
  PROVE  /\ SocketTypes' /\ ClientsGrow
         /\ cl'[k].st = cl[k].st /\ cl'[k].inc = cl[k].inc /\ cl'[k].acked = n
         /\ cl'[k].sent = cl[k].sent /\ cl'[k].peer = cl[k].peer
         /\ \A j \in Keys : j # k => cl'[j] = cl[j]
<1> DEFINE s == [cl[k] EXCEPT !.acked = n]
<1>1. s \in Sockets /\ s.st = cl[k].st /\ s.inc = cl[k].inc /\ s.acked = n
      /\ s.sent = cl[k].sent /\ s.peer = cl[k].peer
  BY SocketBecomes, SocketFacts DEF Sockets
<1>2. cl' = [cl EXCEPT ![k] = s]
  OBVIOUS
<1> HIDE DEF s
<1>3. cl[k].inc <= s.inc /\ (s.st # "closed" => 1 <= s.inc)
  BY <1>1, SocketFacts DEF EngineTypes, SocketTypes
<1>4. SocketTypes' /\ ClientsGrow /\ cl'[k] = s /\ \A j \in Keys : j # k => cl'[j] = cl[j]
  BY <1>1, <1>2, <1>3, SocketKeep
<1> QED BY <1>1, <1>4

LEMMA PeerChanges ==
  ASSUME EngineTypes, NEW k \in Keys, NEW f \in Flows, 1 <= cl[k].inc,
         cl' = [cl EXCEPT ![k].st = "est", ![k].peer = f]
  PROVE  /\ SocketTypes' /\ ClientsGrow
         /\ cl'[k].st = "est" /\ cl'[k].inc = cl[k].inc /\ cl'[k].acked = cl[k].acked
         /\ cl'[k].sent = cl[k].sent /\ cl'[k].peer = f
         /\ \A j \in Keys : j # k => cl'[j] = cl[j]
<1> DEFINE s == [cl[k] EXCEPT !.st = "est", !.peer = f]
<1>1. s \in Sockets /\ s.st = "est" /\ s.inc = cl[k].inc /\ s.acked = cl[k].acked
      /\ s.sent = cl[k].sent /\ s.peer = f
  BY SocketFacts DEF Sockets
<1>2. cl' = [cl EXCEPT ![k] = s]
  BY DEF EngineTypes, SocketTypes
<1> HIDE DEF s
<1>3. cl[k].inc <= s.inc
  BY <1>1, SocketFacts
<1>4. SocketTypes' /\ ClientsGrow /\ cl'[k] = s /\ \A j \in Keys : j # k => cl'[j] = cl[j]
  BY <1>1, <1>2, <1>3, SocketKeep
<1> QED BY <1>1, <1>4

\* What the engine's answers leave of the types
Answered(k) ==
  /\ SocketTypes' /\ ClientsGrow /\ Queued
  /\ \A j \in Keys : cl'[j].inc = cl[j].inc /\ (j # k => cl'[j] = cl[j])

LEMMA SilentTypes ==
  ASSUME EngineTypes, NEW k \in Keys, Silent
  PROVE  Answered(k)
  BY SocketStays DEF Silent, Answered, Queued

LEMMA RefuseTypes ==
  ASSUME EngineTypes, NEW k \in Keys, Refuse(k), 1 <= cl[k].inc
  PROVE  Answered(k)
<1> DEFINE p == Packet("rst", k, 0)
<1>1. p \in Packets /\ p.kind = "rst" /\ p.key = k /\ p.inc = cl[k].inc
  BY PacketIs, EngineNumbers DEF Kinds
<1>2. q' = Append(q, p) /\ cl' = cl
  BY DEF Refuse
<1> HIDE DEF p
<1>3. p.inc <= cl'[p.key].inc /\ p.kind # "data"
  BY <1>1, <1>2, SocketFacts
<1>4. Queued
  BY <1>1, <1>2, <1>3 DEF Queued, Sent
<1> QED BY <1>2, <1>4, SocketStays DEF Answered

LEMMA FlowIncs ==
  ASSUME EngineTypes, NEW f \in DOMAIN flow
  PROVE  flow[f].key \in Keys /\ 1 <= cl[flow[f].key].inc /\ flow[f].inc <= cl[flow[f].key].inc
  BY FlowFacts, SocketFacts, EngineNumbers

LEMMA SynAckTypes ==
  ASSUME EngineTypes, NEW f \in DOMAIN flow, NEW inc, SynAck(f, inc)
  PROVE  Answered(flow[f].key)
<1> DEFINE k == flow[f].key
<1>0. k \in Keys /\ 1 <= cl[k].inc /\ f \in Flows
  BY FlowIncs, FlowFacts
<1>1. CASE Silent
  BY <1>0, <1>1, SilentTypes
<1>2. CASE cl' = [cl EXCEPT ![k].st = "est", ![k].peer = f] /\ UNCHANGED q
  BY <1>0, <1>2, PeerChanges DEF Answered, Queued
<1>3. CASE Refuse(k)
  BY <1>0, <1>3, RefuseTypes
<1> QED BY <1>1, <1>2, <1>3 DEF SynAck

LEMMA AckTypes ==
  ASSUME EngineTypes, NEW f \in DOMAIN flow, NEW inc, NEW n \in Nat, Ack(f, inc, n)
  PROVE  Answered(flow[f].key)
<1> DEFINE k == flow[f].key
<1>0. k \in Keys /\ 1 <= cl[k].inc
  BY FlowIncs
<1>1. CASE cl' = cl /\ UNCHANGED q
  BY <1>0, <1>1, SilentTypes DEF Silent
<1>2. CASE cl' = [cl EXCEPT ![k].acked = n] /\ n <= cl[k].sent /\ UNCHANGED q
  <2>1. n \in 0 .. NUp
    BY <1>0, <1>2, SocketFacts, EngineNumbers
  <2> QED BY <1>0, <1>2, <2>1, AckedChanges DEF Answered, Queued
<1>3. CASE Refuse(k)
  BY <1>0, <1>3, RefuseTypes
<1> QED BY <1>1, <1>2, <1>3 DEF Ack

LEMMA EndTypes ==
  ASSUME EngineTypes, NEW f \in DOMAIN flow, NEW inc, Fin(f, inc) \/ Rst(f, inc)
  PROVE  Answered(flow[f].key)
<1> DEFINE k == flow[f].key
<1>0. k \in Keys /\ 1 <= cl[k].inc
  BY FlowIncs
<1>1. CASE cl' = cl /\ UNCHANGED q
  BY <1>0, <1>1, SilentTypes DEF Silent
<1>2. CASE cl' = [cl EXCEPT ![k].st = "closed"] /\ UNCHANGED q
  BY <1>0, <1>2, StateChanges DEF Answered, Queued
<1>3. CASE Refuse(k)
  BY <1>0, <1>3, RefuseTypes
<1> QED BY <1>1, <1>2, <1>3 DEF Fin, Rst

LEMMA AnsweredTypes ==
  ASSUME EngineTypes, NEW k, Answered(k)
  PROVE  QueueTypes' /\ SocketTypes' /\ ClientsGrow
  BY QueueKeep DEF Answered

-----------------------------------------------------------------------------
(* Every action keeps the types: the clients                               *)

LEMMA ClientSideTypes ==
  ASSUME EngineTypes, ClientsGrow, SocketTypes', Queued, UNCHANGED engine
  PROVE  EngineTypes'
<1>1. UNCHANGED <<table, flow, pc, bridge, rl, stop, doomed>>
  BY DEF engine
<1>2. table' \in [Keys -> Flows \cup {NoFlow}] /\ \A k \in Keys : table'[k] \in {table[k], NoFlow}
  BY <1>1 DEF EngineTypes, TableTypes
<1>3. rl.pc = "write" => pc'[rl.flow] # "flush"
  BY <1>1 DEF EngineTypes, LoopTypes
<1>4. LoopTypes'
  BY <1>1, <1>2, <1>3, LoopKeep
<1>5. FlowsTypes'
  BY <1>1, FlowsStay
<1>6. TableTypes'
  BY <1>1, <1>2, TableKeep
<1>7. QueueTypes'
  BY QueueKeep
<1>8. StopTypes'
  BY <1>1 DEF EngineTypes, StopTypes
<1> QED BY <1>4, <1>5, <1>6, <1>7, <1>8 DEF EngineTypes

\* What is sent is of the connection the client is on.
LEMMA PushTypes ==
  ASSUME EngineTypes, NEW k \in Keys, NEW kind \in Kinds, NEW n \in 0 .. NUp + 1,
         kind = "data" => n \in 1 .. NUp, cl[k].st # "closed",
         Push(Packet(kind, k, n)), SocketTypes', cl'[k].inc = cl[k].inc
  PROVE  Queued
<1>1. 1 <= cl[k].inc
  BY DEF EngineTypes, SocketTypes
<1> DEFINE p == Packet(kind, k, n)
<1>2. p \in Packets /\ p.kind = kind /\ p.key = k /\ p.inc = cl[k].inc /\ p.n = n
  BY <1>1, PacketIs
<1>3. q' = Append(q, p)
  BY DEF Push
<1> HIDE DEF p
<1>4. p.inc <= cl'[p.key].inc /\ (p.kind = "data" => p.n \in 1 .. NUp)
  BY <1>2, SocketFacts
<1> QED BY <1>2, <1>3, <1>4 DEF Queued, Sent

LEMMA ConnectTypes == ASSUME EngineTypes, NEW k \in Keys, Connect(k) PROVE EngineTypes'
<1> DEFINE s == [st |-> "syn", inc |-> cl[k].inc + 1, peer |-> NoFlow, sent |-> 0, acked |-> 0]
           p == [Packet("syn", k, 0) EXCEPT !.inc = @ + 1]
<1>1. s \in Sockets /\ s.inc = cl[k].inc + 1
  BY SocketFacts, EngineNumbers DEF Connect, Sockets
<1>2. cl' = [cl EXCEPT ![k] = s] /\ q' = Append(q, p)
  BY DEF Connect
<1>3. p \in Packets /\ p.inc = cl[k].inc + 1 /\ p.key = k /\ p.kind = "syn"
  BY SMTT(20), SocketFacts, EngineNumbers DEF Connect, Packet, Packets, Kinds
<1> HIDE DEF s, p
<1>0. cl[k].inc <= s.inc /\ 1 <= s.inc
  BY <1>1, SocketFacts
<1>4. SocketTypes' /\ ClientsGrow /\ cl'[k] = s
  BY <1>0, <1>1, <1>2, SocketKeep
<1>5. p.inc <= cl'[p.key].inc
  BY <1>1, <1>3, <1>4, SocketFacts
<1>6. Queued
  BY <1>2, <1>3, <1>5 DEF Queued, Sent
<1> QED BY <1>4, <1>6, ClientSideTypes DEF Connect

LEMMA SendDataTypes == ASSUME EngineTypes, NEW k \in Keys, SendData(k) PROVE EngineTypes'
<1> DEFINE s == [cl[k] EXCEPT !.sent = @ + 1]
<1>1. cl[k].sent + 1 \in 0 .. NUp /\ cl[k].sent + 1 \in 1 .. NUp /\ cl[k].sent + 1 \in 0 .. NUp + 1
  BY SocketFacts, EngineNumbers DEF SendData
<1>2. s \in Sockets /\ s.inc = cl[k].inc /\ s.st = cl[k].st
  BY <1>1, SocketFacts DEF Sockets
<1>3. cl' = [cl EXCEPT ![k] = s]
  BY DEF SendData
<1> HIDE DEF s
<1>4. cl[k].inc <= s.inc /\ (s.st # "closed" => 1 <= s.inc)
  BY <1>2, SocketFacts DEF EngineTypes, SocketTypes
<1>5. SocketTypes' /\ ClientsGrow /\ cl'[k].inc = cl[k].inc
  BY <1>2, <1>3, <1>4, SocketKeep
<1>6. Queued
  BY <1>1, <1>5, PushTypes DEF SendData, Kinds
<1> QED BY <1>5, <1>6, ClientSideTypes DEF SendData

LEMMA ResendTypes == ASSUME EngineTypes, NEW k \in Keys, Resend(k) PROVE EngineTypes'
<1>1. SocketTypes' /\ ClientsGrow /\ cl' = cl
  BY SocketStays DEF Resend
<1>2. CASE cl[k].st = "syn" /\ Push(Packet("syn", k, 0))
  <2>1. Queued
    BY <1>1, <1>2, EngineNumbers, PushTypes DEF Kinds
  <2> QED BY <1>1, <2>1, ClientSideTypes DEF Resend
<1>3. CASE /\ cl[k].st \in {"est", "fin"} /\ cl[k].acked < cl[k].sent
           /\ Push(Packet("data", k, cl[k].acked + 1))
  <2>1. cl[k].acked + 1 \in 1 .. NUp /\ cl[k].acked + 1 \in 0 .. NUp + 1
    BY <1>3, SocketFacts, EngineNumbers
  <2>2. Queued
    BY <1>1, <1>3, <2>1, PushTypes DEF Kinds
  <2> QED BY <1>1, <2>2, ClientSideTypes DEF Resend
<1>4. CASE cl[k].st = "fin" /\ Push(Packet("fin", k, cl[k].sent + 1))
  <2>1. cl[k].sent + 1 \in 0 .. NUp + 1
    BY SocketFacts, EngineNumbers
  <2>2. Queued
    BY <1>1, <1>4, <2>1, PushTypes DEF Kinds
  <2> QED BY <1>1, <2>2, ClientSideTypes DEF Resend
<1> QED BY <1>2, <1>3, <1>4 DEF Resend

LEMMA CloseSocketTypes == ASSUME EngineTypes, NEW k \in Keys, CloseSocket(k) PROVE EngineTypes'
<1>1. 1 <= cl[k].inc
  BY DEF CloseSocket, EngineTypes, SocketTypes
<1>2. SocketTypes' /\ ClientsGrow /\ cl'[k].inc = cl[k].inc
  BY <1>1, StateChanges DEF CloseSocket
<1>3. cl[k].sent + 1 \in 0 .. NUp + 1
  BY SocketFacts, EngineNumbers
<1>4. Queued
  BY <1>2, <1>3, PushTypes DEF CloseSocket, Kinds
<1> QED BY <1>2, <1>4, ClientSideTypes DEF CloseSocket

LEMMA AbortTypes == ASSUME EngineTypes, NEW k \in Keys, Abort(k) PROVE EngineTypes'
<1>1. SocketTypes' /\ ClientsGrow /\ cl'[k].inc = cl[k].inc
  BY StateChanges DEF Abort
<1>2. Queued
  BY <1>1, EngineNumbers, PushTypes DEF Abort, Kinds
<1> QED BY <1>1, <1>2, ClientSideTypes DEF Abort

LEMMA GiveUpTypes == ASSUME EngineTypes, NEW k \in Keys, GiveUp(k) PROVE EngineTypes'
<1>1. SocketTypes' /\ ClientsGrow
  BY StateChanges DEF GiveUp
<1> QED BY <1>1, ClientSideTypes DEF GiveUp, Queued

-----------------------------------------------------------------------------
(* The goroutine of a flow, and its bridge                                 *)

Stages == {"dial", "shutdown", "complete", "flush", "pump", "read", "fin", "remove", "end"}

\* The rest stays; what readLoop is writing to is left alone.
LEMMA FlowSideTypes ==
  ASSUME EngineTypes, NEW f \in DOMAIN flow, SocketTypes', ClientsGrow, QueueTypes',
         OnlyFlow(f), OnlyMove(f), FlowTypes(f)',
         bridge' \in [Flows -> {"none", "running", "ended"}],
         table' \in [Keys -> Flows \cup {NoFlow}],
         \A k \in Keys : table'[k] \in {table[k], NoFlow},
         UNCHANGED <<rl, stop>>, doomed' \subseteq doomed,
         rl.pc = "write" /\ rl.flow = f => flow'[f] = flow[f] /\ pc'[f] # "flush"
  PROVE  EngineTypes'
<1>1. FlowsTypes'
  BY FlowsKeep
<1>2. DOMAIN flow' = DOMAIN flow /\ \A g \in DOMAIN flow : flow'[g].key = flow[g].key
  BY DEF OnlyFlow
<1>3. TableTypes'
  BY <1>2, TableKeep
<1>4. rl.pc = "write" => flow'[rl.flow] = flow[rl.flow] /\ pc'[rl.flow] # "flush"
  <2> SUFFICES ASSUME rl.pc = "write", rl.flow # f
               PROVE  flow'[rl.flow] = flow[rl.flow] /\ pc'[rl.flow] # "flush"
    OBVIOUS
  <2>1. rl.flow \in DOMAIN flow /\ pc[rl.flow] # "flush"
    BY DEF EngineTypes, LoopTypes, Holding
  <2> QED BY <2>1, FlowFacts DEF OnlyFlow, OnlyMove
<1>5. LoopTypes'
  BY <1>2, <1>4, LoopKeep
<1>6. StopTypes'
  BY <1>2 DEF EngineTypes, StopTypes
<1> QED BY <1>1, <1>3, <1>5, <1>6 DEF EngineTypes

LEMMA SameTable ==
  ASSUME EngineTypes, table' = table
  PROVE  /\ table' \in [Keys -> Flows \cup {NoFlow}]
         /\ \A k \in Keys : table'[k] \in {table[k], NoFlow}
  BY DEF EngineTypes, TableTypes

LEMMA SameBridge ==
  ASSUME EngineTypes, bridge' = bridge
  PROVE  bridge' \in [Flows -> {"none", "running", "ended"}]
  BY DEF EngineTypes, FlowsTypes

LEMMA SameSide ==
  ASSUME EngineTypes, UNCHANGED <<cl, q>>
  PROVE  SocketTypes' /\ ClientsGrow /\ QueueTypes'
  BY SocketStays, QueueKeep DEF Queued

\* The goroutine moves and leaves its flow as it is.
LEMMA MoveTypes ==
  ASSUME EngineTypes, NEW f \in DOMAIN flow, NEW l \in Stages \ {"dial", "complete", "flush"},
         Move(f, l), flow' = flow, SocketTypes', ClientsGrow, QueueTypes',
         bridge' = bridge,
         table' = table \/ Unlink(flow[f].key),
         UNCHANGED <<rl, stop, doomed>>
  PROVE  EngineTypes'
<1>1. OnlyMove(f) /\ pc'[f] = l
  BY MoveDoes DEF Stages
<1>2. OnlyFlow(f) /\ flow'[f] = flow[f]
  BY DEF OnlyFlow
<1>3. FlowTypes(f)'
  BY <1>1, <1>2, FlowMoves DEF Stages
<1>4. /\ table' \in [Keys -> Flows \cup {NoFlow}]
      /\ \A k \in Keys : table'[k] \in {table[k], NoFlow}
  BY SameTable, UnlinkDoes, FlowFacts
<1> QED BY <1>1, <1>2, <1>3, <1>4, SameBridge, FlowSideTypes DEF Stages

\* The goroutine closes its flow.
LEMMA MoveCloseTypes ==
  ASSUME EngineTypes, NEW f \in DOMAIN flow, NEW l \in Stages \ {"flush"},
         Move(f, l), Close(f), SocketTypes', ClientsGrow, QueueTypes',
         bridge' = bridge,
         table' = table \/ Unlink(flow[f].key),
         UNCHANGED <<rl, stop, doomed>>, ~(rl.pc = "write" /\ rl.flow = f)
  PROVE  EngineTypes'
<1>1. OnlyMove(f) /\ pc'[f] = l
  BY MoveDoes DEF Stages
<1>2. OnlyFlow(f)
  BY CloseDoes
<1>3. FlowTypes(f)'
  BY <1>1, ClosedTypes DEF Stages
<1>4. /\ table' \in [Keys -> Flows \cup {NoFlow}]
      /\ \A k \in Keys : table'[k] \in {table[k], NoFlow}
  BY SameTable, UnlinkDoes, FlowFacts
<1> QED BY <1>1, <1>2, <1>3, <1>4, SameBridge, FlowSideTypes

LEMMA DialFailsTypes ==
  ASSUME EngineTypes, NEW f \in DOMAIN flow, DialFails(f) PROVE EngineTypes'
<1>1. SocketTypes' /\ ClientsGrow /\ QueueTypes'
  BY FlowIncs, EndTypes, AnsweredTypes DEF DialFails
<1> QED BY <1>1, MoveTypes DEF DialFails, Stages

LEMMA ShutdownTypes ==
  ASSUME EngineTypes, NEW f \in DOMAIN flow, Shutdown(f) PROVE EngineTypes'
<1>1. SocketTypes' /\ ClientsGrow /\ QueueTypes'
  BY SameSide DEF Shutdown
<1> QED BY <1>1, MoveCloseTypes DEF Shutdown, Stages, Held

LEMMA RemoveTypes ==
  ASSUME EngineTypes, NEW f \in DOMAIN flow, Remove(f) PROVE EngineTypes'
<1>1. SocketTypes' /\ ClientsGrow /\ QueueTypes'
  BY SameSide DEF Remove
<1> QED BY <1>1, MoveTypes DEF Remove, Stages

LEMMA PumpTypes ==
  ASSUME EngineTypes, NEW f \in DOMAIN flow, PumpCheck(f) \/ PumpRead(f) PROVE EngineTypes'
<1>1. SocketTypes' /\ ClientsGrow /\ QueueTypes'
  BY SameSide DEF PumpCheck, PumpRead
<1>2. \E l \in {"end", "read", "fin"} : Move(f, l)
  BY DEF PumpCheck, PumpRead
<1> QED BY <1>1, <1>2, MoveTypes DEF PumpCheck, PumpRead, Stages

LEMMA PumpFinTypes ==
  ASSUME EngineTypes, NEW f \in DOMAIN flow, PumpFin(f) PROVE EngineTypes'
<1>1. Answered(flow[f].key)
  BY FlowIncs, SilentTypes, EndTypes DEF PumpFin
<1> QED BY <1>1, AnsweredTypes, MoveCloseTypes DEF PumpFin, Stages, Held

LEMMA FlushErrorTypes ==
  ASSUME EngineTypes, NEW f \in DOMAIN flow, FlushError(f) PROVE EngineTypes'
<1>1. SocketTypes' /\ ClientsGrow /\ QueueTypes'
  BY SameSide DEF FlushError
<1>2. ~(rl.pc = "write" /\ rl.flow = f)
  BY DEF FlushError, EngineTypes, LoopTypes
<1> QED BY <1>1, <1>2, MoveCloseTypes DEF FlushError, Stages

LEMMA BridgeEndsTypes ==
  ASSUME EngineTypes, NEW f \in DOMAIN flow, BridgeEnds(f) PROVE EngineTypes'
<1>1. SocketTypes' /\ ClientsGrow /\ QueueTypes'
  BY SameSide DEF BridgeEnds
<1>2. OnlyFlow(f) /\ flow'[f] = flow[f] /\ pc' = pc
  BY DEF BridgeEnds, OnlyFlow
<1>3. OnlyMove(f)
  BY <1>2, FlowFacts DEF OnlyMove, EngineTypes, FlowsTypes
<1>4. FlowTypes(f)'
  BY <1>1, <1>2, FlowMoves
<1>5. bridge' \in [Flows -> {"none", "running", "ended"}]
  BY DEF BridgeEnds, EngineTypes, FlowsTypes
<1>6. rl.pc = "write" /\ rl.flow = f => pc'[f] # "flush"
  BY <1>2 DEF EngineTypes, LoopTypes
<1> QED BY <1>1, <1>2, <1>3, <1>4, <1>5, <1>6, SameTable, FlowSideTypes DEF BridgeEnds

LEMMA DialledTypes ==
  ASSUME EngineTypes, NEW f \in DOMAIN flow, Dialled(f) PROVE EngineTypes'
<1>1. SocketTypes' /\ ClientsGrow /\ QueueTypes'
  BY SameSide DEF Dialled
<1>2. CASE flow[f].closed
  BY <1>1, <1>2, MoveTypes DEF Dialled, Stages
<1>3. CASE ~flow[f].closed
  <2> DEFINE x == [flow[f] EXCEPT !.backend = "open"]
  <2>1. x \in FlowState /\ x.key = flow[f].key /\ x.inc = flow[f].inc
        /\ x.pending = flow[f].pending /\ x.closed = flow[f].closed /\ x.n = flow[f].n
    BY FlowFacts DEF FlowState
  <2>2. flow' = [flow EXCEPT ![f] = x]
    BY <1>3 DEF Dialled
  <2> HIDE DEF x
  <2>3. OnlyFlow(f) /\ flow'[f] = x
    BY <2>1, <2>2 DEF OnlyFlow
  <2>4. OnlyMove(f) /\ pc'[f] = "complete"
    BY <1>3, MoveDoes DEF Dialled
  <2>5. FlowTypes(f)'
    <3>1. FlowTypes(f) /\ pc[f] = "dial"
      BY DEF Dialled, EngineTypes, FlowsTypes
    <3>2. cl' = cl
      BY DEF Dialled
    <3> QED BY <1>3, <2>1, <2>3, <2>4, <3>1, <3>2 DEF FlowTypes
  <2>6. bridge' \in [Flows -> {"none", "running", "ended"}]
    BY <1>3 DEF Dialled, EngineTypes, FlowsTypes
  <2> QED BY <1>1, <2>3, <2>4, <2>5, <2>6, SameTable, FlowSideTypes DEF Dialled, Held
<1> QED BY <1>2, <1>3

LEMMA CompleteTypes ==
  ASSUME EngineTypes, NEW f \in DOMAIN flow, Complete(f) PROVE EngineTypes'
<1>1. Answered(flow[f].key)
  BY FlowIncs, SilentTypes, SynAckTypes DEF Complete
<1>2. SocketTypes' /\ ClientsGrow /\ QueueTypes'
  BY <1>1, AnsweredTypes
<1>3. CASE flow[f].closed
  BY <1>2, <1>3, MoveTypes DEF Complete, Stages
<1>4. CASE ~flow[f].closed
  <2> DEFINE x == [flow[f] EXCEPT !.synAck = TRUE]
  <2>1. x \in FlowState /\ x.key = flow[f].key /\ x.inc = flow[f].inc
        /\ x.pending = flow[f].pending /\ x.closed = flow[f].closed /\ x.n = flow[f].n
    BY FlowFacts DEF FlowState
  <2>2. flow' = [flow EXCEPT ![f] = x]
    BY <1>4 DEF Complete
  <2> HIDE DEF x
  <2>3. OnlyFlow(f) /\ flow'[f] = x
    BY <2>1, <2>2 DEF OnlyFlow
  <2>4. OnlyMove(f) /\ pc'[f] \in {"pump", "flush"}
    BY <1>4, MoveDoes DEF Complete
  <2>5. FlowTypes(f)'
    <3>1. FlowTypes(f) /\ pc[f] = "complete"
      BY DEF Complete, EngineTypes, FlowsTypes
    <3>2. x.inc <= cl'[x.key].inc
      BY <1>1, <2>1, FlowFacts DEF Answered
    <3> QED BY <1>4, <2>1, <2>3, <2>4, <3>1, <3>2 DEF FlowTypes
  <2> QED BY <1>2, <2>3, <2>4, <2>5, SameTable, SameBridge, FlowSideTypes DEF Complete, Held
<1> QED BY <1>3, <1>4

LEMMA FlushTypes ==
  ASSUME EngineTypes, NEW f \in DOMAIN flow, Flush(f) PROVE EngineTypes'
<1>1. FlowTypes(f) /\ pc[f] = "flush" /\ ~flow[f].closed
  BY DEF Flush, EngineTypes, FlowsTypes, FlowTypes
<1> DEFINE m == Len(flow[f].pending)
<1>2. m \in 0 .. MaxPending /\ flow[f].n \in 1 .. NUp + 1
  BY <1>1, FlowFacts, EngineNumbers DEF FlowTypes
<1>3. Answered(flow[f].key)
  <2>1. flow[f].n + m - 1 \in Nat
    BY <1>2, EngineNumbers
  <2> QED BY <2>1, FlowFacts, AckTypes DEF Flush
<1>4. SocketTypes' /\ ClientsGrow /\ QueueTypes'
  BY <1>3, AnsweredTypes
<1> DEFINE x == [flow[f] EXCEPT !.wrote = @ \o flow[f].pending, !.n = @ + m, !.pending = <<>>]
<1>5. flow' = [flow EXCEPT ![f] = x]
  BY DEF Flush
<1>6. /\ flow[f].wrote \o flow[f].pending \in Seq(Segments)
      /\ flow[f].n + m \in 1 .. NUp + MaxPending + 2 /\ flow[f].n + m <= NUp + 1 + MaxPending
      /\ <<>> \in Seq(Segments) /\ Len(<<>>) = 0
  <2>1. flow[f].wrote \o flow[f].pending \in Seq(Segments)
    BY FlowFacts
  <2>2. flow[f].n + m \in 1 .. NUp + MaxPending + 2 /\ flow[f].n + m <= NUp + 1 + MaxPending
    BY <1>2, EngineNumbers
  <2> QED BY <2>1, <2>2
<1> HIDE DEF m
<1>7. x \in FlowState /\ x.key = flow[f].key /\ x.inc = flow[f].inc
      /\ x.pending = <<>> /\ x.n = flow[f].n + m
  BY <1>6, FlowFacts DEF FlowState
<1> HIDE DEF x
<1>8. OnlyFlow(f) /\ flow'[f] = x
  BY <1>5, <1>7 DEF OnlyFlow
<1>9. OnlyMove(f) /\ pc'[f] = "pump"
  BY MoveDoes DEF Flush
<1>10. FlowTypes(f)'
  <2>1. x.inc <= cl'[x.key].inc
    BY <1>3, <1>7, FlowFacts DEF Answered
  <2> QED BY <1>6, <1>7, <1>8, <1>9, <2>1, EngineNumbers DEF FlowTypes
<1>11. ~(rl.pc = "write" /\ rl.flow = f)
  BY <1>1 DEF EngineTypes, LoopTypes
<1> QED BY <1>4, <1>8, <1>9, <1>10, <1>11, SameTable, SameBridge, FlowSideTypes DEF Flush

-----------------------------------------------------------------------------
(* Engine.Stop                                                             *)

LEMMA StopCloseTypes ==
  ASSUME EngineTypes, NEW f \in DOMAIN flow, StopClose(f) PROVE EngineTypes'
<1>1. SocketTypes' /\ ClientsGrow /\ QueueTypes'
  BY SameSide DEF StopClose
<1>2. OnlyFlow(f)
  BY CloseDoes DEF StopClose
<1>3. OnlyMove(f) /\ pc'[f] # "flush"
  BY FlowFacts DEF StopClose, Held, OnlyMove, EngineTypes, FlowsTypes
<1>4. FlowTypes(f)'
  BY <1>1, <1>3, ClosedTypes DEF StopClose
<1> QED BY <1>1, <1>2, <1>3, <1>4, SameTable, SameBridge, FlowSideTypes DEF StopClose, Held

LEMMA StopTypesKeep ==
  ASSUME EngineTypes, StopCancel \/ StopCollect \/ StopTun \/ StopReturn PROVE EngineTypes'
<1>1. UNCHANGED <<flow, pc, bridge, rl, cl, q>>
  BY DEF StopCancel, StopCollect, StopTun, StopReturn
<1>2. SocketTypes' /\ ClientsGrow /\ QueueTypes'
  BY <1>1, SameSide
<1>3. /\ table' \in [Keys -> Flows \cup {NoFlow}]
      /\ \A k \in Keys : table'[k] \in {table[k], NoFlow}
  BY DEF StopCancel, StopCollect, StopTun, StopReturn, EngineTypes, TableTypes
<1>4. FlowsTypes'
  BY <1>1, <1>2, FlowsStay
<1>5. TableTypes'
  BY <1>1, <1>3, TableKeep
<1>6. LoopTypes'
  <2>1. rl.pc = "write" => flow'[rl.flow] = flow[rl.flow] /\ pc'[rl.flow] # "flush"
    BY <1>1 DEF EngineTypes, LoopTypes
  <2> QED BY <1>1, <1>2, <1>3, <2>1, LoopKeep
<1>7. StopTypes'
  <2>1. doomed' \subseteq DOMAIN flow
    BY DEF StopCancel, StopCollect, StopTun, StopReturn, Registered, EngineTypes, TableTypes,
           StopTypes
  <2> QED BY <1>1, <2>1 DEF StopCancel, StopCollect, StopTun, StopReturn, EngineTypes, StopTypes
<1> QED BY <1>2, <1>4, <1>5, <1>6, <1>7 DEF EngineTypes

-----------------------------------------------------------------------------
(* readLoop                                                                *)

LEMMA LoopSideTypes ==
  ASSUME EngineTypes, NEW f \in DOMAIN flow, SocketTypes', ClientsGrow, QueueTypes',
         OnlyFlow(f), FlowTypes(f)',
         table' \in [Keys -> Flows \cup {NoFlow}],
         \A k \in Keys : table'[k] \in {table[k], NoFlow},
         UNCHANGED <<pc, bridge, stop, doomed>>, LoopTypes'
  PROVE  EngineTypes'
<1>1. OnlyMove(f)
  BY FlowFacts DEF OnlyMove, EngineTypes, FlowsTypes
<1>2. FlowsTypes'
  BY <1>1, FlowsKeep, SameBridge
<1>3. DOMAIN flow' = DOMAIN flow /\ \A g \in DOMAIN flow : flow'[g].key = flow[g].key
  BY DEF OnlyFlow
<1>4. TableTypes'
  BY <1>3, TableKeep
<1>5. StopTypes'
  BY <1>3 DEF EngineTypes, StopTypes
<1> QED BY <1>2, <1>4, <1>5 DEF EngineTypes

\* No flow changes.
LEMMA LoopOnlyTypes ==
  ASSUME EngineTypes, SocketTypes', ClientsGrow, QueueTypes',
         UNCHANGED <<flow, pc, bridge, stop, doomed>>,
         table' \in [Keys -> Flows \cup {NoFlow}],
         \A k \in Keys : table'[k] \in {table[k], NoFlow},
         LoopTypes'
  PROVE  EngineTypes'
<1>1. FlowsTypes'
  BY FlowsStay
<1>2. TableTypes'
  BY TableKeep
<1>3. StopTypes'
  BY DEF EngineTypes, StopTypes
<1> QED BY <1>1, <1>2, <1>3 DEF EngineTypes

LEMMA HandKept ==
  ASSUME EngineTypes, rl.pc \in Busy, ClientsGrow, SocketTypes'
  PROVE  \A p \in Packets : p = rl.pkt => Sent(p)'
<1> SUFFICES ASSUME NEW p \in Packets, p = rl.pkt PROVE Sent(p)'
  OBVIOUS
<1>1. Sent(p) /\ p.key \in Keys /\ p.inc \in Nat
  BY PacketFacts DEF EngineTypes, LoopTypes
<1>2. p.inc <= cl'[p.key].inc
  BY <1>1, GrowsStill DEF Sent
<1> QED BY <1>1, <1>2 DEF Sent

LEMMA CheckDoneTypes == ASSUME EngineTypes, CheckDone \/ ReadError PROVE EngineTypes'
<1>1. SocketTypes' /\ ClientsGrow /\ QueueTypes'
  BY SameSide DEF CheckDone, ReadError
<1>2. \E l \in {"exited", "read"} : Step(l, NoFlow)
  BY DEF CheckDone, ReadError
<1>3. LoopTypes'
  BY <1>2, StepDoes, LoopTop
<1> QED BY <1>1, <1>3, SameTable, LoopOnlyTypes DEF CheckDone, ReadError

LEMMA TailIs ==
  ASSUME EngineTypes, q # <<>>, q' = Tail(q)
  PROVE  /\ q' \in Seq(Packets) /\ Len(q) \in Nat /\ Len(q) >= 1 /\ Head(q) = q[1]
         /\ 1 \in DOMAIN q /\ Head(q) \in Packets /\ Sent(Head(q))
         /\ Len(q') = Len(q) - 1 /\ DOMAIN q' = 1 .. Len(q) - 1
         /\ \A i \in DOMAIN q' : i + 1 \in DOMAIN q /\ q'[i] = q[i + 1]
<1>1. q \in Seq(Packets)
  BY DEF EngineTypes, QueueTypes
<1>2. /\ q' \in Seq(Packets) /\ Len(q) \in Nat /\ Len(q) >= 1 /\ Head(q) = q[1]
      /\ 1 \in DOMAIN q /\ Len(q') = Len(q) - 1 /\ DOMAIN q' = 1 .. Len(q) - 1
      /\ \A i \in DOMAIN q' : i + 1 \in DOMAIN q /\ q'[i] = q[i + 1]
  BY <1>1
<1>3. Head(q) \in Packets /\ Sent(Head(q))
  BY <1>2, QueueFacts DEF EngineTypes, QueueTypes, Sent
<1> QED BY <1>2, <1>3

LEMMA ReadPacketTypes == ASSUME EngineTypes, ReadPacket PROVE EngineTypes'
<1>1. SocketTypes' /\ ClientsGrow /\ cl' = cl
  BY SocketStays DEF ReadPacket
<1>2. QueueTypes'
  <2>1. q' \in Seq(Packets) /\ \A i \in DOMAIN q' : i + 1 \in DOMAIN q /\ q'[i] = q[i + 1]
    BY TailIs DEF ReadPacket
  <2>2. \A i \in DOMAIN q : Sent(q[i])
    BY DEF EngineTypes, QueueTypes
  <2> QED BY <1>1, <2>1, <2>2 DEF QueueTypes, Sent
<1>3. LoopTypes'
  <2>1. CASE Again
    BY <2>1, LoopTop
  <2>2. CASE rl' = [pc |-> IF Head(q).kind = "syn" THEN "insert" ELSE "find",
                    pkt |-> Head(q), flow |-> NoFlow]
    <3>1. Head(q) \in Packets /\ Sent(Head(q))
      BY TailIs DEF ReadPacket
    <3> QED BY <1>1, <2>2, <3>1 DEF LoopTypes, Busy, Holding, Sent
  <2> QED BY <2>1, <2>2 DEF ReadPacket
<1> QED BY <1>1, <1>2, <1>3, SameTable, LoopOnlyTypes DEF ReadPacket

\* What readLoop finds is the flow of the packet's key.
LEMMA FoundTypes ==
  ASSUME EngineTypes, rl.pc \in {"insert", "find"}, table[rl.pkt.key] # NoFlow,
         NEW l \in {"seg", "rst"}, Step(l, table[rl.pkt.key]),
         l = "rst" <=> rl.pkt.kind = "rst",
         UNCHANGED <<table, flow, cl>>
  PROVE  LoopTypes'
<1>1. rl' = [pc |-> l, pkt |-> rl.pkt, flow |-> table[rl.pkt.key]]
  BY StepDoes
<1>2. rl.pkt \in Packets /\ rl.pkt.key \in Keys /\ Sent(rl.pkt)
  BY HandFacts DEF EngineTypes, LoopTypes, Busy
<1>3. table[rl.pkt.key] \in DOMAIN flow /\ flow[table[rl.pkt.key]].key = rl.pkt.key
      /\ table[rl.pkt.key] \in Flows
  BY <1>2, TableFacts, FlowFacts
<1> QED BY <1>1, <1>2, <1>3 DEF LoopTypes, Busy, Holding, Sent

LEMMA FindTypes == ASSUME EngineTypes, Find PROVE EngineTypes'
<1>1. SocketTypes' /\ ClientsGrow /\ QueueTypes'
  BY SameSide DEF Find
<1>2. LoopTypes'
  BY LoopTop, FoundTypes DEF Find
<1> QED BY <1>1, <1>2, SameTable, LoopOnlyTypes DEF Find

LEMMA NewFlowIs ==
  ASSUME EngineTypes, NEW p \in Packets
  PROVE  /\ NewFlow(p) \in FlowState /\ NewFlow(p).key = p.key /\ NewFlow(p).inc = p.inc
         /\ NewFlow(p).pending = <<>> /\ NewFlow(p).n = 1 /\ ~NewFlow(p).closed
         /\ NewFlow(p).wrote = <<>> /\ ~NewFlow(p).synAck /\ NewFlow(p).backend = "none"
<1>1. <<>> \in Seq(Segments) /\ 1 \in 1 .. NUp + MaxPending + 2
  BY EngineNumbers
<1> QED BY <1>1, PacketFacts DEF NewFlow, FlowState

\* A SYN makes a flow that was none before.
LEMMA InsertDoes ==
  ASSUME EngineTypes, Insert, table[rl.pkt.key] = NoFlow
  PROVE  \E f \in Flows :
           /\ f \notin DOMAIN flow /\ f # NoFlow
           /\ DOMAIN flow' = DOMAIN flow \cup {f} /\ flow'[f] = NewFlow(rl.pkt)
           /\ \A g \in DOMAIN flow : flow'[g] = flow[g]
           /\ table' = [table EXCEPT ![rl.pkt.key] = f]
           /\ pc' = [pc EXCEPT ![f] = "dial"]
           /\ Again /\ UNCHANGED <<bridge, stop, doomed, cl, q>>
<1>1. PICK f \in Flows :
            /\ pc[f] = "none"
            /\ table' = [table EXCEPT ![rl.pkt.key] = f]
            /\ flow' = [g \in DOMAIN flow \cup {f} |-> IF g = f THEN NewFlow(rl.pkt) ELSE flow[g]]
            /\ pc' = [pc EXCEPT ![f] = "dial"]
            /\ Again
  BY DEF Insert
<1>2. f \notin DOMAIN flow /\ f # NoFlow
  BY <1>1, FlowFacts, EngineNumbers
<1>3. DOMAIN flow' = DOMAIN flow \cup {f} /\ flow'[f] = NewFlow(rl.pkt)
      /\ \A g \in DOMAIN flow : flow'[g] = flow[g]
  BY <1>1, <1>2
<1> QED BY <1>1, <1>2, <1>3 DEF Insert

LEMMA InsertTypes == ASSUME EngineTypes, Insert PROVE EngineTypes'
<1>1. SocketTypes' /\ ClientsGrow /\ QueueTypes' /\ cl' = cl
  BY SameSide DEF Insert
<1>2. CASE table[rl.pkt.key] # NoFlow
  <2>1. rl.pkt.kind # "rst"
    BY DEF Insert, EngineTypes, LoopTypes
  <2>2. LoopTypes'
    BY <1>2, <2>1, FoundTypes DEF Insert
  <2> QED BY <1>1, <1>2, <2>2, SameTable, LoopOnlyTypes DEF Insert
<1>3. CASE table[rl.pkt.key] = NoFlow
  <2>1. PICK f \in Flows :
          /\ f \notin DOMAIN flow /\ f # NoFlow
          /\ DOMAIN flow' = DOMAIN flow \cup {f} /\ flow'[f] = NewFlow(rl.pkt)
          /\ \A g \in DOMAIN flow : flow'[g] = flow[g]
          /\ table' = [table EXCEPT ![rl.pkt.key] = f]
          /\ pc' = [pc EXCEPT ![f] = "dial"]
          /\ Again /\ UNCHANGED <<bridge, stop, doomed, cl, q>>
    BY <1>3, InsertDoes
  <2>2. rl.pkt \in Packets /\ rl.pkt.key \in Keys /\ Sent(rl.pkt)
    BY HandFacts DEF Insert, EngineTypes, LoopTypes, Busy
  <2>3. pc' \in [Flows -> {"none", "dial", "shutdown", "complete", "flush", "pump", "read",
                           "fin", "remove", "end"}]
        /\ pc'[f] = "dial" /\ \A g \in Flows : g # f => pc'[g] = pc[g]
    BY <2>1 DEF EngineTypes, FlowsTypes
  <2>4. DOMAIN flow' = {g \in Flows : pc'[g] # "none"}
    BY <2>1, <2>3 DEF EngineTypes, FlowsTypes
  <2>5. FlowTypes(f)'
    <3>1. /\ NewFlow(rl.pkt) \in FlowState /\ NewFlow(rl.pkt).key = rl.pkt.key
          /\ NewFlow(rl.pkt).inc = rl.pkt.inc /\ NewFlow(rl.pkt).pending = <<>>
          /\ NewFlow(rl.pkt).n = 1
      BY <2>2, NewFlowIs
    <3>2. Len(<<>>) = 0 /\ 1 <= NUp + 1 /\ 1 <= NUp + 1 + MaxPending /\ 0 <= MaxPending
      BY EngineNumbers
    <3> QED BY <1>1, <2>1, <2>2, <2>3, <3>1, <3>2 DEF FlowTypes, Sent
  <2>6. \A g \in DOMAIN flow : FlowTypes(g)'
    BY <1>1, <2>1, <2>3, FlowFacts, FlowMoves
  <2>7. FlowsTypes'
    BY <2>1, <2>3, <2>4, <2>5, <2>6, SameBridge DEF FlowsTypes
  <2>8. TableTypes'
    <3>1. flow'[f].key = rl.pkt.key
      BY <2>1, <2>2, NewFlowIs
    <3>2. table' \in [Keys -> Flows \cup {NoFlow}]
      BY <2>1 DEF EngineTypes, TableTypes
    <3>3. \A k \in Keys : table'[k] = IF k = rl.pkt.key THEN f ELSE table[k]
      BY <2>1 DEF EngineTypes, TableTypes
    <3> QED BY <2>1, <3>1, <3>2, <3>3, TableFacts DEF TableTypes
  <2>9. LoopTypes'
    BY <2>1, LoopTop
  <2>10. StopTypes'
    BY <2>1 DEF EngineTypes, StopTypes
  <2> QED BY <1>1, <2>7, <2>8, <2>9, <2>10 DEF EngineTypes
<1> QED BY <1>2, <1>3

\* What readLoop holds, once it has found a flow
LEMMA HeldFacts ==
  ASSUME EngineTypes, rl.pc \in Holding
  PROVE  /\ rl.flow \in DOMAIN flow /\ flow[rl.flow].key = rl.pkt.key
         /\ rl.pkt \in Packets /\ rl.pkt.key \in Keys /\ rl.pkt.inc \in Nat /\ rl.pkt.n \in Nat
         /\ rl.pkt.inc \in 1 .. MaxInc /\ 1 <= cl[rl.pkt.key].inc
         /\ rl.pkt.inc <= cl[rl.pkt.key].inc /\ rl.pkt.kind \in Kinds
         /\ rl.pkt.kind = "data" => Arrived \in Segments /\ rl.pkt.n <= NUp
<1>1. rl.pc \in Busy /\ rl.flow \in DOMAIN flow /\ flow[rl.flow].key = rl.pkt.key
  BY DEF EngineTypes, LoopTypes, Busy, Holding
<1>2. 1 <= cl[rl.pkt.key].inc
  BY <1>1, HandFacts, SocketFacts, EngineNumbers
<1> QED BY <1>1, <1>2, HandFacts

LEMMA SegSynTypes ==
  ASSUME EngineTypes, NEW f \in DOMAIN flow, Segment(f), ~flow[f].closed, SegSyn(f)
  PROVE  EngineTypes'
<1>1. Answered(flow[f].key)
  BY FlowFacts, SilentTypes, SynAckTypes DEF SegSyn
<1>2. SocketTypes' /\ ClientsGrow /\ QueueTypes'
  BY <1>1, AnsweredTypes
<1> DEFINE x == [flow[f] EXCEPT !.at = rl.pkt.inc, !.n = 1]
<1>3. flow' = [flow EXCEPT ![f] = x]
  BY DEF SegSyn
<1>4. rl.pkt.inc \in 1 .. MaxInc /\ 1 \in 1 .. NUp + MaxPending + 2
      /\ 1 <= NUp + 1 /\ 1 <= NUp + 1 + MaxPending
  BY HeldFacts, EngineNumbers DEF Segment, Holding
<1>5. x \in FlowState /\ x.key = flow[f].key /\ x.inc = flow[f].inc /\ x.n = 1
      /\ x.pending = flow[f].pending /\ x.closed = flow[f].closed
  BY <1>4, FlowFacts DEF FlowState
<1> HIDE DEF x
<1>6. OnlyFlow(f) /\ flow'[f] = x
  BY <1>3, <1>5 DEF OnlyFlow
<1>7. FlowTypes(f)'
  <2>1. FlowTypes(f) /\ pc' = pc
    BY DEF Segment, EngineTypes, FlowsTypes
  <2>2. x.inc <= cl'[x.key].inc
    BY <1>1, <1>5, FlowFacts DEF Answered
  <2> QED BY <1>4, <1>5, <1>6, <2>1, <2>2 DEF FlowTypes
<1>8. LoopTypes'
  BY LoopTop DEF SegSyn
<1> QED BY <1>2, <1>6, <1>7, <1>8, SameTable, LoopSideTypes DEF Segment, SegSyn

LEMMA SegDataTypes ==
  ASSUME EngineTypes, NEW f \in DOMAIN flow, Segment(f), ~flow[f].closed, rl.pkt.kind = "data",
         SegData(f)
  PROVE  EngineTypes'
<1> USE DEF Segment
<1>0. rl.pc \in Holding /\ rl.flow = f
  BY DEF Holding
<1>1. CASE ~InSequence(f)
  <2>1. Answered(flow[f].key)
    <3>1. flow[f].n - 1 \in Nat
      BY FlowFacts, EngineNumbers
    <3> QED BY <1>1, <3>1, FlowFacts, SilentTypes, AckTypes DEF SegData
  <2>2. SocketTypes' /\ ClientsGrow /\ QueueTypes'
    BY <2>1, AnsweredTypes
  <2> QED BY <1>1, <2>2, SameTable, LoopTop, LoopOnlyTypes DEF SegData
<1>2. CASE InSequence(f) /\ flow[f].backend = "none"
  <2>1. SocketTypes' /\ ClientsGrow /\ QueueTypes' /\ cl' = cl
    BY <1>2, SameSide DEF SegData, Silent
  <2>2. LoopTypes'
    BY <1>2, LoopTop DEF SegData
  <2>3. CASE Close(f) /\ Unlink(rl.pkt.key)
    <3>1. OnlyFlow(f)
      BY <2>3, CloseDoes
    <3>2. FlowTypes(f)'
      BY <2>1, <2>3, ClosedTypes DEF Held
    <3> QED BY <1>0, <2>1, <2>2, <2>3, <3>1, <3>2, HeldFacts, UnlinkDoes, LoopSideTypes
  <2>4. CASE /\ Len(flow[f].pending) < MaxPending
             /\ flow' = [flow EXCEPT ![f].pending = Append(@, Arrived),
                                     ![f].again = @ \/ Kept(f)]
             /\ UNCHANGED table
    <3> DEFINE s == Append(flow[f].pending, Arrived)
               b == flow[f].again \/ Kept(f)
               x == [flow[f] EXCEPT !.pending = s, !.again = b]
    <3>0. b \in BOOLEAN
      OBVIOUS
    <3>1. s \in Seq(Segments) /\ Len(s) = Len(flow[f].pending) + 1
      BY <1>0, FlowFacts, HeldFacts
    <3>2. flow' = [flow EXCEPT ![f] = x]
      BY <2>4
    <3>3. Len(s) <= MaxPending
      BY <2>4, <3>1, FlowFacts, EngineNumbers
    <3> HIDE DEF s, b
    <3>x. flow[f] \in FlowState
      BY FlowFacts
    <3>f. x.key = flow[f].key /\ x.inc = flow[f].inc /\ x.n = flow[f].n
          /\ x.pending = s /\ x.closed = flow[f].closed
      BY <3>x DEF FlowState
    <3>t. x \in FlowState
      BY <3>0, <3>1, <3>x DEF FlowState
    <3>4. x \in FlowState /\ x.key = flow[f].key /\ x.inc = flow[f].inc /\ x.n = flow[f].n
          /\ x.pending = s /\ x.closed = flow[f].closed
      BY <3>f, <3>t
    <3> HIDE DEF x
    <3>5. OnlyFlow(f) /\ flow'[f] = x
      BY <3>2, <3>4 DEF OnlyFlow
    <3>6. FlowTypes(f)'
      <4>1. FlowTypes(f) /\ pc' = pc
        BY DEF EngineTypes, FlowsTypes
      <4> QED BY <2>1, <3>3, <3>4, <3>5, <4>1 DEF FlowTypes
    <3> QED BY <2>1, <2>2, <2>4, <3>5, <3>6, SameTable, LoopSideTypes
  <2> QED BY <1>2, <2>3, <2>4 DEF SegData, Keep
<1>3. CASE InSequence(f) /\ flow[f].backend # "none"
  <2>1. Step("write", f) /\ UNCHANGED <<cl, q, table, flow>>
    BY <1>3 DEF SegData, Silent
  <2>2. SocketTypes' /\ ClientsGrow /\ QueueTypes'
    BY <2>1, SameSide
  <2>3. rl' = [pc |-> "write", pkt |-> rl.pkt, flow |-> f]
    BY <2>1, StepDoes
  <2>4. LoopTypes'
    <3>1. rl.pkt \in Packets /\ Sent(rl.pkt) /\ table[rl.pkt.key] \in {f, NoFlow}
          /\ flow[f].key = rl.pkt.key /\ f \in Flows
      BY <1>0, HeldFacts, FlowFacts DEF EngineTypes, LoopTypes, Busy, Holding
    <3>2. pc'[f] # "flush"
      BY DEF Held
    <3> QED BY <1>3, <2>1, <2>3, <3>1, <3>2 DEF LoopTypes, Busy, Holding, Sent, InSequence
  <2> QED BY <2>1, <2>2, <2>4, SameTable, LoopOnlyTypes
<1> QED BY <1>1, <1>2, <1>3

LEMMA SegFinDoes ==
  ASSUME EngineTypes, NEW f \in DOMAIN flow, ~flow[f].closed, SegFin(f),
         flow[f].n <= NUp + 1 + MaxPending
  PROVE  /\ OnlyFlow(f) /\ flow'[f] \in FlowState /\ flow'[f].closed
         /\ flow'[f].pending = flow[f].pending /\ flow'[f].wrote = flow[f].wrote
         /\ flow'[f].synAck = flow[f].synAck /\ flow'[f].again = flow[f].again
         /\ flow'[f].backend = "none" <=> flow[f].backend = "none"
<1> DEFINE x == [Closed(flow[f]) EXCEPT !.n = flow[f].n + 1]
<1>1. flow' = [flow EXCEPT ![f] = x]
  BY DEF SegFin
<1>2. flow[f].n + 1 \in 1 .. NUp + MaxPending + 2
  BY FlowFacts, EngineNumbers
<1>3. /\ Closed(flow[f]) \in FlowState /\ Closed(flow[f]).closed
      /\ Closed(flow[f]).key = flow[f].key /\ Closed(flow[f]).inc = flow[f].inc
      /\ Closed(flow[f]).n = flow[f].n
      /\ Closed(flow[f]).pending = flow[f].pending /\ Closed(flow[f]).wrote = flow[f].wrote
      /\ Closed(flow[f]).synAck = flow[f].synAck /\ Closed(flow[f]).again = flow[f].again
      /\ Closed(flow[f]).backend = "none" <=> flow[f].backend = "none"
  BY FlowFacts DEF Closed, FlowState
<1> HIDE DEF Closed
<1>4. /\ x \in FlowState /\ x.closed /\ x.key = flow[f].key /\ x.inc = flow[f].inc
      /\ x.pending = flow[f].pending /\ x.wrote = flow[f].wrote /\ x.synAck = flow[f].synAck
      /\ x.again = flow[f].again
      /\ x.backend = "none" <=> flow[f].backend = "none"
  BY <1>2, <1>3 DEF FlowState
<1> HIDE DEF x
<1> QED BY <1>1, <1>4 DEF OnlyFlow

LEMMA SegFinTypes ==
  ASSUME EngineTypes, NEW f \in DOMAIN flow, Segment(f), ~flow[f].closed, SegFin(f)
  PROVE  EngineTypes'
<1>0. rl.pc \in Holding /\ rl.flow = f
  BY DEF Holding, Segment
<1>1. Answered(flow[f].key)
  BY EndTypes DEF SegFin
<1>2. SocketTypes' /\ ClientsGrow /\ QueueTypes'
  BY <1>1, AnsweredTypes
<1>3. FlowTypes(f) /\ pc' = pc /\ pc[f] # "flush"
  BY DEF Segment, EngineTypes, FlowsTypes, Held
<1>4. /\ OnlyFlow(f) /\ flow'[f] \in FlowState /\ flow'[f].closed
      /\ flow'[f].pending = flow[f].pending
  BY <1>3, SegFinDoes DEF FlowTypes
<1>5. FlowTypes(f)'
  <2>1. flow'[f].inc <= cl'[flow'[f].key].inc
    BY <1>1, <1>4, FlowFacts DEF Answered, OnlyFlow
  <2> QED BY <1>3, <1>4, <2>1 DEF FlowTypes
<1>6. LoopTypes'
  BY LoopTop DEF SegFin
<1> QED BY <1>0, <1>2, <1>4, <1>5, <1>6, HeldFacts, UnlinkDoes, LoopSideTypes DEF Segment, SegFin

LEMMA SegmentTypes == ASSUME EngineTypes, NEW f \in DOMAIN flow, Segment(f) PROVE EngineTypes'
<1>1. CASE flow[f].closed
  <2>1. SocketTypes' /\ ClientsGrow /\ QueueTypes'
    BY <1>1, SameSide DEF Segment, Silent
  <2> QED BY <1>1, <2>1, LoopTop, SameTable, LoopOnlyTypes DEF Segment
<1> QED BY <1>1, SegSynTypes, SegDataTypes, SegFinTypes DEF Segment

\* What is written is counted.
LEMMA WriteDoes ==
  ASSUME EngineTypes, NEW f \in DOMAIN flow, Write(f)
  PROVE  /\ OnlyFlow(f) /\ flow'[f] \in FlowState
         /\ flow[f].n = rl.pkt.n /\ flow[f].n <= NUp /\ flow'[f].n = flow[f].n + 1
         /\ flow'[f].at = flow[f].at /\ flow'[f].closed = flow[f].closed
         /\ flow'[f].pending = flow[f].pending
         /\ flow'[f].wrote = Append(flow[f].wrote, Arrived)
         /\ flow'[f].synAck = flow[f].synAck /\ flow'[f].backend = flow[f].backend
         /\ flow'[f].again = (flow[f].again \/ Kept(f))
<1>1. rl.pc \in Holding /\ rl.flow = f /\ rl.pkt.kind = "data" /\ rl.pkt.n = flow[f].n
  BY DEF Write, Holding, EngineTypes, LoopTypes
<1>2. Arrived \in Segments /\ rl.pkt.n <= NUp
  BY <1>1, HeldFacts
<1> DEFINE s == Append(flow[f].wrote, Arrived)
           m == flow[f].n + 1
           b == flow[f].again \/ Kept(f)
           x == [flow[f] EXCEPT !.wrote = s, !.n = m, !.again = b]
<1>3. flow' = [flow EXCEPT ![f] = x]
  BY DEF Write
<1>4. s \in Seq(Segments) /\ m \in 1 .. NUp + MaxPending + 2
  BY <1>1, <1>2, FlowFacts, EngineNumbers
<1>5. s = Append(flow[f].wrote, Arrived) /\ m = flow[f].n + 1 /\ b \in BOOLEAN
      /\ b = (flow[f].again \/ Kept(f))
  OBVIOUS
<1> HIDE DEF s, m, b
<1>6. x \in FlowState /\ x.key = flow[f].key /\ x.inc = flow[f].inc /\ x.at = flow[f].at
      /\ x.n = m /\ x.closed = flow[f].closed /\ x.pending = flow[f].pending /\ x.wrote = s
      /\ x.synAck = flow[f].synAck /\ x.backend = flow[f].backend /\ x.again = b
  BY <1>4, <1>5, FlowFacts DEF FlowState
<1> HIDE DEF x
<1> QED BY <1>1, <1>2, <1>3, <1>5, <1>6 DEF OnlyFlow

LEMMA WriteTypes == ASSUME EngineTypes, NEW f \in DOMAIN flow, Write(f) PROVE EngineTypes'
<1>0. rl.pc \in Holding /\ rl.flow = f
  BY DEF Holding, Write
<1>1. Answered(flow[f].key)
  BY FlowFacts, AckTypes DEF Write
<1>2. SocketTypes' /\ ClientsGrow /\ QueueTypes'
  BY <1>1, AnsweredTypes
<1>3. FlowTypes(f) /\ pc' = pc
  BY DEF Write, EngineTypes, FlowsTypes
<1>4. /\ OnlyFlow(f) /\ flow'[f] \in FlowState /\ flow[f].n <= NUp /\ flow'[f].n = flow[f].n + 1
      /\ flow'[f].pending = flow[f].pending /\ flow'[f].closed = flow[f].closed
  BY WriteDoes
<1>5. FlowTypes(f)'
  <2>1. flow'[f].inc <= cl'[flow'[f].key].inc
    BY <1>1, <1>4, FlowFacts DEF Answered, OnlyFlow
  <2>2. flow'[f].n <= NUp + 1 /\ flow'[f].n <= NUp + 1 + MaxPending
    BY <1>4, FlowFacts, EngineNumbers
  <2> QED BY <1>3, <1>4, <2>1, <2>2 DEF FlowTypes
<1>6. LoopTypes'
  BY LoopTop DEF Write
<1> QED BY <1>2, <1>4, <1>5, <1>6, SameTable, LoopSideTypes DEF Write

LEMMA WriteErrorTypes ==
  ASSUME EngineTypes, NEW f \in DOMAIN flow, WriteError(f) PROVE EngineTypes'
<1>1. SocketTypes' /\ ClientsGrow /\ QueueTypes'
  BY SameSide DEF WriteError
<1>2. OnlyFlow(f)
  BY CloseDoes DEF WriteError
<1>3. pc'[f] # "flush"
  BY DEF WriteError, EngineTypes, LoopTypes
<1>4. FlowTypes(f)'
  BY <1>1, <1>3, ClosedTypes DEF WriteError
<1>5. LoopTypes'
  BY LoopTop DEF WriteError
<1> QED BY <1>1, <1>2, <1>4, <1>5, FlowFacts, UnlinkDoes, LoopSideTypes DEF WriteError

LEMMA ResetTypes == ASSUME EngineTypes, NEW f \in DOMAIN flow, Reset(f) PROVE EngineTypes'
<1>1. SocketTypes' /\ ClientsGrow /\ QueueTypes' /\ cl' = cl
  BY SameSide DEF Reset
<1>2. OnlyFlow(f) /\ rl.pc \in Holding /\ rl.pc \in Busy
  BY CloseDoes DEF Reset, Holding, Busy
<1>3. FlowTypes(f)'
  BY <1>1, ClosedTypes DEF Reset, Held
<1>4. rl' = [pc |-> "unlink", pkt |-> rl.pkt, flow |-> f]
  BY StepDoes DEF Reset
<1>5. LoopTypes'
  <2>1. rl.pkt \in Packets /\ Sent(rl.pkt) /\ table[rl.pkt.key] \in {f, NoFlow}
        /\ flow[f].key = rl.pkt.key /\ f \in Flows /\ table' = table
    BY <1>2, HeldFacts, FlowFacts DEF Reset, EngineTypes, LoopTypes
  <2> QED BY <1>1, <1>2, <1>4, <2>1 DEF LoopTypes, Busy, Holding, Sent, OnlyFlow
<1> QED BY <1>1, <1>2, <1>3, <1>5, SameTable, LoopSideTypes DEF Reset

LEMMA ResetUnlinkTypes ==
  ASSUME EngineTypes, NEW f \in DOMAIN flow, ResetUnlink(f) PROVE EngineTypes'
<1>1. SocketTypes' /\ ClientsGrow /\ QueueTypes'
  BY SameSide DEF ResetUnlink
<1>2. LoopTypes'
  BY LoopTop DEF ResetUnlink
<1> QED BY <1>1, <1>2, FlowFacts, UnlinkDoes, LoopOnlyTypes DEF ResetUnlink

-----------------------------------------------------------------------------
LEMMA TypesAtFirst == EngineInit => EngineTypes
<1> SUFFICES ASSUME EngineInit PROVE EngineTypes
  OBVIOUS
<1> USE DEF EngineInit
<1>1. QueueTypes
  BY DEF QueueTypes
<1>2. SocketTypes
  BY EngineNumbers DEF SocketTypes, Sockets
<1>3. FlowsTypes
  BY DEF FlowsTypes
<1>4. TableTypes
  BY DEF TableTypes
<1>5. LoopTypes
  BY DEF LoopTypes, Busy, Holding
<1>6. StopTypes
  BY DEF StopTypes
<1> QED BY <1>1, <1>2, <1>3, <1>4, <1>5, <1>6 DEF EngineTypes

LEMMA TypesKeep == EngineTypes /\ [EngineNext]_engineVars => EngineTypes'
<1> SUFFICES ASSUME EngineTypes, [EngineNext]_engineVars PROVE EngineTypes'
  OBVIOUS
<1>1. CASE ReadLoop
  BY <1>1, CheckDoneTypes, ReadPacketTypes, InsertTypes, FindTypes, SegmentTypes, WriteTypes,
     WriteErrorTypes, ResetTypes, ResetUnlinkTypes DEF ReadLoop
<1>2. ASSUME NEW f \in DOMAIN flow, FlowRuns(f) \/ PumpRead(f) \/ BridgeEnds(f)
      PROVE  EngineTypes'
  BY <1>2, DialledTypes, DialFailsTypes, ShutdownTypes, CompleteTypes, FlushTypes,
     FlushErrorTypes, PumpTypes, PumpFinTypes, RemoveTypes, BridgeEndsTypes DEF FlowRuns
<1>3. CASE StopCancel \/ Stopping
  BY <1>3, StopTypesKeep, StopCloseTypes DEF Stopping
<1>4. ASSUME NEW k \in Keys, Client(k) PROVE EngineTypes'
  BY <1>4, ConnectTypes, SendDataTypes, ResendTypes, CloseSocketTypes, AbortTypes, GiveUpTypes
     DEF Client
<1>5. CASE UNCHANGED engineVars
  <2>1. ClientsGrow /\ SocketTypes' /\ Queued /\ UNCHANGED engine
    BY <1>5, SocketStays DEF engineVars, engine, Queued
  <2> QED BY <2>1, ClientSideTypes
<1> QED BY <1>1, <1>2, <1>3, <1>4, <1>5 DEF EngineNext

LEMMA TypesAreTypes == EngineTypes => EngineTypeOK
<1> SUFFICES ASSUME EngineTypes PROVE EngineTypeOK
  OBVIOUS
<1>1. \A f \in DOMAIN flow : flow[f] \in FlowState
  BY FlowFacts
<1>2. \A i \in DOMAIN q : q[i] \in Packets
  BY QueueFacts
<1>3. doomed \subseteq Flows
  BY FlowFacts DEF EngineTypes, StopTypes
<1>4. rl.pc \in {"seg", "write", "rst", "unlink"} => rl.flow # NoFlow
  BY FlowFacts DEF EngineTypes, LoopTypes, Holding
<1> QED BY <1>1, <1>2, <1>3, <1>4
        DEF EngineTypeOK, EngineTypes, SocketTypes, FlowsTypes, TableTypes, LoopTypes, StopTypes,
            Busy

\* The engine keeps its types, whatever the clients repeat: a flow's numbering stays
\* within its segments and what it may keep, and what readLoop holds is there.
THEOREM EngineTypesHold == EngineSpec => []EngineTypes
<1>1. EngineInit => EngineTypes
  BY TypesAtFirst
<1>2. EngineTypes /\ [EngineNext]_engineVars => EngineTypes'
  BY TypesKeep
<1> QED BY <1>1, <1>2, PTL DEF EngineSpec

\* Type correctness of the TUN engine's model (engine.go, tcp.go), for any number of
\* sockets, flows and segments.
THEOREM EngineTypeCorrect == EngineSpec => []EngineTypeOK
  BY EngineTypesHold, TypesAreTypes, PTL

-----------------------------------------------------------------------------
(* What a client sends and where it goes.  A FIN or a reset of a key ends  *)
(* whatever flow readLoop would find for it, so what a packet meets is     *)
(* told by the packets before it.                                          *)

Killing == {"fin", "rst"}
Hand(k, kinds) == rl.pc \in Busy /\ rl.pkt.key = k /\ rl.pkt.kind \in kinds
Killer(k, i) == q[i].key = k /\ q[i].kind \in Killing
Killed(k) == Hand(k, Killing) \/ \E i \in DOMAIN q : Killer(k, i)

\* readLoop has the flow, or would find it.
Reaches(k, f) ==
  /\ f \in DOMAIN flow /\ flow[f].key = k /\ ~flow[f].closed
  /\ table[k] = f \/ (rl.pc \in {"seg", "write"} /\ rl.flow = f)

\* The next packet of k will meet a flow of a connection in S or none.
Fresh(k, S) ==
  \/ Hand(k, Killing)
  \/ /\ Hand(k, {"syn"}) => rl.pkt.inc \in S
     /\ \A f \in DOMAIN flow : Reaches(k, f) => flow[f].inc \in S

SynsIn(k, a, b, S) == \A i \in a .. b : q[i].key = k /\ q[i].kind = "syn" => q[i].inc \in S

\* ... and so will the one after the first m that wait.
After(k, m, S) ==
  \/ \E j \in 1 .. m : Killer(k, j) /\ SynsIn(k, j + 1, m, S)
  \/ SynsIn(k, 1, m, S) /\ Fresh(k, S)

\* A client's packets are of ever later connections, and readLoop has the flow of
\* the latest.
Ordered ==
  /\ \A i, j \in DOMAIN q : i < j /\ q[i].key = q[j].key => q[i].inc <= q[j].inc
  /\ \A i \in DOMAIN q : Hand(q[i].key, Kinds) => rl.pkt.inc <= q[i].inc
  /\ \A f \in DOMAIN flow, i \in DOMAIN q : q[i].key = flow[f].key => flow[f].inc <= q[i].inc
  /\ \A f \in DOMAIN flow : Hand(flow[f].key, Kinds) => flow[f].inc <= rl.pkt.inc
  /\ \A f, g \in DOMAIN flow : Reaches(flow[f].key, g) => flow[f].inc <= flow[g].inc

\* Data meets a flow of its own connection or none, as what is sent next will.
Routed ==
  /\ \A i \in DOMAIN q : q[i].kind = "data" => After(q[i].key, i - 1, {q[i].inc})
  /\ \A k \in Keys, f \in DOMAIN flow :
       Hand(k, {"data"}) /\ Reaches(k, f) => flow[f].inc = rl.pkt.inc
  /\ \A k \in Keys : cl[k].st = "est" => After(k, Len(q), {cl[k].inc})
  /\ \A k \in Keys : cl[k].st = "fin" => After(k, Len(q), {})

\* A flow that has answered a client that has left is about to be ended.
Left == TunOpen => \A k \in Keys, f \in DOMAIN flow :
  cl[k].st \in {"closed", "syn"} /\ Reaches(k, f) /\ flow[f].synAck => Killed(k)

\* A connection that has sent data sends no SYN again.
Used(f) == flow[f].wrote # <<>> \/ flow[f].pending # <<>>
Connecting(k, c) == cl[k].st = "syn" /\ cl[k].inc = c
NoSyn(k, c, m) == \A j \in DOMAIN q : j > m /\ q[j].key = k /\ q[j].kind = "syn" => q[j].inc # c
SynsFirst ==
  /\ \A f \in DOMAIN flow : Used(f) =>
       /\ NoSyn(flow[f].key, flow[f].inc, 0) /\ ~Connecting(flow[f].key, flow[f].inc)
       /\ (Hand(flow[f].key, {"syn"}) => rl.pkt.inc # flow[f].inc)
  /\ \A k \in Keys : Hand(k, {"data"}) => NoSyn(k, rl.pkt.inc, 0) /\ ~Connecting(k, rl.pkt.inc)
  /\ \A i \in DOMAIN q : q[i].kind = "data" =>
       NoSyn(q[i].key, q[i].inc, i) /\ ~Connecting(q[i].key, q[i].inc)

\* A flow has the data of its connection; unless a segment was kept again it is
\* written in order and counted.
OfInc(s, c) == \A i \in DOMAIN s : s[i].inc = c
Early == {"dial", "complete", "shutdown"}
HasBackend(f) == \/ flow[f].synAck \/ pc[f] \in {"complete", "flush"}
                 \/ rl.pc = "write" /\ rl.flow = f
Counted(f) ==
  /\ \A i \in DOMAIN flow[f].wrote : flow[f].wrote[i].n = i
  /\ flow[f].pending # <<>> =>
       /\ flow[f].wrote = <<>> /\ Len(flow[f].pending) = 1 /\ flow[f].pending[1].n = 1
  /\ ~flow[f].closed /\ flow[f].at = flow[f].inc => flow[f].n = Len(flow[f].wrote) + 1
FlowOK(f) ==
  /\ OfInc(flow[f].wrote, flow[f].inc) /\ OfInc(flow[f].pending, flow[f].inc)
  /\ HasBackend(f) => flow[f].backend # "none"
  /\ flow[f].backend = "none" => flow[f].wrote = <<>>
  /\ pc[f] \in Early => ~flow[f].synAck
  /\ pc[f] = "flush" => flow[f].pending # <<>>
  /\ flow[f].again => Used(f)
  /\ ~flow[f].again => Counted(f)
FlowsOK == \A f \in DOMAIN flow : FlowOK(f)

\* The flow a client has taken; what is acknowledged was written to it.
PeerOK(k) ==
  LET f == cl[k].peer IN
  /\ f # NoFlow =>
       /\ f \in DOMAIN flow /\ flow[f].key = k /\ flow[f].synAck /\ pc[f] # "flush"
       /\ (cl[k].inc = flow[f].inc => ~flow[f].again /\ flow[f].pending = <<>>)
  /\ cl[k].st = "syn" => cl[k].acked = 0
PeersOK == \A k \in Keys : PeerOK(k)

Upload == Ordered /\ Routed /\ Left /\ SynsFirst /\ FlowsOK /\ PeersOK /\ AckedWasWritten

-----------------------------------------------------------------------------
(* What almost every step leaves of it                                     *)

Pushes(k, kinds) == \E p \in Packets : q' = Append(q, p) /\ p.key = k /\ p.kind \in kinds

\* readLoop finds no other flow, and drops a FIN or a reset when there is none left.
RouteKept ==
  /\ DOMAIN flow' = DOMAIN flow
  /\ \A f \in DOMAIN flow : flow'[f].key = flow[f].key /\ flow'[f].inc = flow[f].inc
  /\ \A k \in Keys, f \in DOMAIN flow : Reaches(k, f)' => Reaches(k, f)
  /\ rl'.pc \in Busy => rl.pc \in Busy /\ rl'.pkt = rl.pkt
  /\ \A k \in Keys, f \in DOMAIN flow :
       Hand(k, Killing) /\ Reaches(k, f)' => rl'.pc \in Busy

\* A client sends what its state allows.
PushOK(p) ==
  /\ p.inc = cl'[p.key].inc
  /\ p.kind = "data" => cl[p.key].st \in {"est", "fin"} /\ cl'[p.key].inc = cl[p.key].inc
  /\ p.kind = "syn" => cl'[p.key].st = "syn"
QueueMove == q' = q \/ \E p \in Packets : q' = Append(q, p) /\ PushOK(p)

\* It leaves a flow it is using with a FIN or a reset.
SocketMove(k) ==
  /\ cl[k].inc <= cl'[k].inc
  /\ cl'[k].st \in {"est", "fin"} => cl'[k].inc = cl[k].inc
  /\ cl'[k].st = "est" => After(k, Len(q), {cl[k].inc})
  /\ cl'[k].st = "fin" => After(k, Len(q), {}) \/ Pushes(k, Killing)
  /\ cl'[k].st \in {"closed", "syn"} =>
       cl[k].st \in {"closed", "syn"} \/ After(k, Len(q), {}) \/ Pushes(k, Killing)
  /\ cl'[k].st = "syn" =>
       (cl[k].st = "syn" /\ cl'[k].inc = cl[k].inc) \/ cl[k].inc < cl'[k].inc
SocketsMove == \A k \in Keys : SocketMove(k)

\* The device does not open again; who answers a client that is gone is told so.
AnswerMove ==
  TunOpen' =>
    /\ TunOpen
    /\ \A f \in DOMAIN flow : flow'[f].synAck =>
         \/ flow[f].synAck
         \/ cl'[flow[f].key].st \in {"est", "fin"} \/ Pushes(flow[f].key, Killing)

\* A flow is given the data in hand.
UsedMove == \A f \in DOMAIN flow :
  Used(f)' => Used(f) \/ (Hand(flow[f].key, {"data"}) /\ rl.pkt.inc = flow[f].inc)

LEMMA HandKeep ==
  ASSUME RouteKept, NEW k, NEW kinds, Hand(k, kinds)'
  PROVE  Hand(k, kinds) /\ rl'.pkt = rl.pkt
  BY DEF RouteKept, Hand

LEMMA QueueGrows ==
  ASSUME EngineTypes, QueueMove
  PROVE  /\ Len(q) \in Nat /\ DOMAIN q = 1 .. Len(q)
         /\ \A i \in 1 .. Len(q) : q'[i] = q[i] /\ i \in DOMAIN q'
<1>1. q \in Seq(Packets)
  BY DEF EngineTypes, QueueTypes
<1>2. ASSUME NEW p, q' = Append(q, p)
      PROVE  \A i \in 1 .. Len(q) : q'[i] = q[i] /\ i \in DOMAIN q'
  BY <1>1, <1>2
<1>3. CASE q' = q
  BY <1>1, <1>3
<1> QED BY <1>1, <1>2, <1>3 DEF QueueMove

LEMMA PushesLast ==
  ASSUME EngineTypes, NEW k, NEW kinds, Pushes(k, kinds)
  PROVE  /\ Len(q') = Len(q) + 1 /\ Len(q) + 1 \in DOMAIN q'
         /\ q'[Len(q) + 1].key = k /\ q'[Len(q) + 1].kind \in kinds
<1>1. PICK p \in Packets : q' = Append(q, p) /\ p.key = k /\ p.kind \in kinds
  BY DEF Pushes
<1>2. q \in Seq(Packets)
  BY DEF EngineTypes, QueueTypes
<1> QED BY <1>1, <1>2

\* A killer that waits still does, or is in hand.
LEMMA FreshKept ==
  ASSUME RouteKept, NEW k \in Keys, NEW S, Fresh(k, S)
  PROVE  Fresh(k, S)'
<1>1. CASE Hand(k, Killing)
  <2>1. CASE rl'.pc \in Busy
    BY <1>1, <2>1 DEF RouteKept, Hand, Fresh
  <2>2. CASE rl'.pc \notin Busy
    BY <1>1, <2>2 DEF RouteKept, Hand, Fresh
  <2> QED BY <2>1, <2>2
<1>2. CASE /\ Hand(k, {"syn"}) => rl.pkt.inc \in S
           /\ \A f \in DOMAIN flow : Reaches(k, f) => flow[f].inc \in S
  <2>1. Hand(k, {"syn"})' => rl'.pkt.inc \in S
    BY <1>2, HandKeep
  <2>2. \A f \in DOMAIN flow' : Reaches(k, f)' => flow'[f].inc \in S
    BY <1>2 DEF RouteKept
  <2> QED BY <2>1, <2>2 DEF Fresh
<1> QED BY <1>1, <1>2 DEF Fresh

LEMMA SynsKept ==
  ASSUME EngineTypes, QueueMove, NEW k, NEW S, NEW a \in Nat, NEW b \in 0 .. Len(q), 1 <= a,
         SynsIn(k, a, b, S)
  PROVE  SynsIn(k, a, b, S)'
<1>1. \A i \in a .. b : i \in 1 .. Len(q) /\ q'[i] = q[i]
  BY QueueGrows
<1> QED BY <1>1 DEF SynsIn

LEMMA KillerKept ==
  ASSUME EngineTypes, QueueMove, NEW k, NEW i \in 1 .. Len(q), Killer(k, i)
  PROVE  Killer(k, i)' /\ i \in DOMAIN q'
  BY QueueGrows DEF Killer

LEMMA AfterKept ==
  ASSUME EngineTypes, RouteKept, QueueMove, NEW k \in Keys, NEW S, NEW m \in 0 .. Len(q),
         After(k, m, S)
  PROVE  After(k, m, S)'
<1>1. ASSUME NEW j \in 1 .. m, Killer(k, j), SynsIn(k, j + 1, m, S) PROVE After(k, m, S)'
  <2>1. j \in 1 .. Len(q) /\ j + 1 \in Nat /\ 1 <= j + 1
    BY QueueGrows
  <2> QED BY <1>1, <2>1, KillerKept, SynsKept DEF After
<1>2. CASE SynsIn(k, 1, m, S) /\ Fresh(k, S)
  BY <1>2, FreshKept, SynsKept DEF After
<1> QED BY <1>1, <1>2 DEF After

\* What is sent is of that connection, or ends it.
LEMMA AfterAll ==
  ASSUME EngineTypes, RouteKept, QueueMove, NEW k \in Keys, NEW S,
         After(k, Len(q), S) \/ Pushes(k, Killing),
         \A p \in Packets : q' = Append(q, p) /\ p.key = k /\ p.kind = "syn" => p.inc \in S
  PROVE  After(k, Len(q), S)'
<1>0. PICK m \in Nat : m = Len(q)
  BY QueueGrows
<1>1. CASE Pushes(k, Killing)
  <2>1. Killer(k, m + 1)' /\ Len(q') = m + 1 /\ m + 1 \in 1 .. m + 1
    BY <1>0, <1>1, PushesLast DEF Killer
  <2>2. SynsIn(k, m + 2, m + 1, S)'
    BY DEF SynsIn
  <2>3. After(k, m + 1, S)'
    BY <2>1, <2>2 DEF After
  <2> QED BY <2>1, <2>3
<1>2. CASE After(k, Len(q), S)
  <2>1. After(k, m, S)'
    BY <1>0, <1>2, AfterKept, QueueGrows
  <2>2. CASE q' = q
    BY <1>0, <2>1, <2>2
  <2>3. ASSUME NEW p \in Packets, q' = Append(q, p) PROVE After(k, Len(q), S)'
    <3>1. Len(q') = m + 1 /\ q'[m + 1] = p
      BY <1>0, <2>3 DEF EngineTypes, QueueTypes
    <3>2. ASSUME NEW a \in Nat, SynsIn(k, a, m, S)' PROVE SynsIn(k, a, m + 1, S)'
      <4>1. p.key = k /\ p.kind = "syn" => p.inc \in S
        BY <2>3
      <4>2. \A i \in a .. m + 1 : i \in a .. m \/ i = m + 1
        OBVIOUS
      <4> QED BY <3>1, <3>2, <4>1, <4>2 DEF SynsIn
    <3>3. ASSUME NEW j \in 1 .. m, Killer(k, j)', SynsIn(k, j + 1, m, S)'
          PROVE  After(k, m + 1, S)'
      <4>1. j \in 1 .. m + 1 /\ j + 1 \in Nat
        OBVIOUS
      <4> QED BY <3>2, <3>3, <4>1 DEF After
    <3>4. SynsIn(k, 1, m, S)' /\ Fresh(k, S)' => After(k, m + 1, S)'
      BY <3>2 DEF After
    <3>5. After(k, m + 1, S)'
      BY <2>1, <3>3, <3>4 DEF After
    <3> QED BY <3>1, <3>5
  <2> QED BY <2>2, <2>3 DEF QueueMove
<1> QED BY <1>1, <1>2

LEMMA AfterWider ==
  ASSUME NEW k, NEW m, NEW S, NEW T, S \subseteq T, After(k, m, S)
  PROVE  After(k, m, T)
  BY DEF After, SynsIn, Fresh

-----------------------------------------------------------------------------
(* ... and what it keeps then                                              *)

LEMMA QueueOr ==
  ASSUME EngineTypes, QueueMove, NEW j \in DOMAIN q'
  PROVE  \/ j \in DOMAIN q /\ q'[j] = q[j]
         \/ \E p \in Packets : q'[j] = p /\ j = Len(q) + 1 /\ q' = Append(q, p) /\ PushOK(p)
<1>1. q \in Seq(Packets)
  BY DEF EngineTypes, QueueTypes
<1>2. CASE q' = q
  BY <1>2
<1>3. ASSUME NEW p \in Packets, q' = Append(q, p), PushOK(p)
      PROVE  (j \in DOMAIN q /\ q'[j] = q[j]) \/ (q'[j] = p /\ j = Len(q) + 1)
  BY <1>1, <1>3
<1> QED BY <1>2, <1>3 DEF QueueMove

\* What a client sends is of its latest connection.
LEMMA Newest ==
  ASSUME EngineTypes, SocketsMove, NEW p \in Packets, PushOK(p)
  PROVE  /\ \A i \in DOMAIN q : q[i].key = p.key => q[i].inc <= p.inc
         /\ \A f \in DOMAIN flow : flow[f].key = p.key => flow[f].inc <= p.inc
         /\ Hand(p.key, Kinds) => rl.pkt.inc <= p.inc
<1>1. p.key \in Keys /\ p.inc \in Nat /\ p.inc = cl'[p.key].inc
  BY PacketFacts DEF PushOK
<1>2. cl[p.key].inc \in Nat /\ cl[p.key].inc <= p.inc
  BY <1>1, SocketFacts DEF SocketsMove, SocketMove
<1>3. ASSUME NEW i \in DOMAIN q, q[i].key = p.key PROVE q[i].inc <= p.inc
  <2>1. q[i].inc \in Nat /\ q[i].inc <= cl[p.key].inc
    BY <1>3, QueueFacts, PacketFacts DEF EngineTypes, QueueTypes, Sent
  <2> QED BY <1>1, <1>2, <2>1
<1>4. ASSUME NEW f \in DOMAIN flow, flow[f].key = p.key PROVE flow[f].inc <= p.inc
  BY <1>1, <1>2, <1>4, FlowFacts
<1>5. Hand(p.key, Kinds) => rl.pkt.inc <= p.inc
  BY <1>1, <1>2, HandFacts DEF Hand
<1> QED BY <1>3, <1>4, <1>5

LEMMA OrderedKept ==
  ASSUME EngineTypes, Ordered, RouteKept, QueueMove, SocketsMove
  PROVE  Ordered'
<1>0. /\ DOMAIN flow' = DOMAIN flow
      /\ \A f \in DOMAIN flow : flow'[f].key = flow[f].key /\ flow'[f].inc = flow[f].inc
      /\ \A f \in DOMAIN flow : flow[f].key \in Keys
  BY FlowFacts DEF RouteKept
<1>1. ASSUME NEW i \in DOMAIN q', NEW j \in DOMAIN q', i < j, q'[i].key = q'[j].key
      PROVE  q'[i].inc <= q'[j].inc
  <2>1. CASE j \in DOMAIN q /\ q'[j] = q[j]
    <3>1. i \in DOMAIN q /\ q'[i] = q[i]
      <4>1. Len(q) \in Nat /\ j \in 1 .. Len(q)
        BY <2>1, QueueGrows
      <4>2. i # Len(q) + 1
        BY <1>1, <4>1
      <4>3. (i \in DOMAIN q /\ q'[i] = q[i]) \/ i = Len(q) + 1
        BY QueueOr
      <4> QED BY <4>2, <4>3
    <3> QED BY <1>1, <2>1, <3>1 DEF Ordered
  <2>2. ASSUME NEW p \in Packets, q'[j] = p, j = Len(q) + 1, PushOK(p)
        PROVE  q'[i].inc <= q'[j].inc
    <3>1. i \in DOMAIN q /\ q'[i] = q[i]
      <4>1. Len(q) \in Nat
        BY QueueGrows
      <4>2. i # Len(q) + 1
        BY <1>1, <2>2, <4>1
      <4>3. (i \in DOMAIN q /\ q'[i] = q[i]) \/ i = Len(q) + 1
        BY QueueOr
      <4> QED BY <4>2, <4>3
    <3> QED BY <1>1, <2>2, <3>1, Newest
  <2> QED BY <2>1, <2>2, QueueOr
<1>2. ASSUME NEW j \in DOMAIN q', Hand(q[j].key, Kinds)'
      PROVE  rl'.pkt.inc <= q'[j].inc
  <2>1. CASE j \in DOMAIN q /\ q'[j] = q[j]
    <3>1. PICK k : k = q[j].key
      OBVIOUS
    <3>2. Hand(k, Kinds)'
      BY <1>2, <2>1, <3>1
    <3>3. Hand(k, Kinds) /\ rl'.pkt = rl.pkt
      BY <3>2, HandKeep
    <3> QED BY <2>1, <3>1, <3>3 DEF Ordered
  <2>2. ASSUME NEW p \in Packets, q'[j] = p, PushOK(p)
        PROVE  rl'.pkt.inc <= q'[j].inc
    <3>1. Hand(p.key, Kinds)'
      BY <1>2, <2>2
    <3>2. Hand(p.key, Kinds) /\ rl'.pkt = rl.pkt
      BY <3>1, HandKeep
    <3> QED BY <2>2, <3>2, Newest
  <2> QED BY <2>1, <2>2, QueueOr
<1>3. ASSUME NEW f \in DOMAIN flow, NEW j \in DOMAIN q', q'[j].key = flow'[f].key
      PROVE  flow'[f].inc <= q'[j].inc
  <2>1. CASE j \in DOMAIN q /\ q'[j] = q[j]
    BY <1>0, <1>3, <2>1 DEF Ordered
  <2>2. ASSUME NEW p \in Packets, q'[j] = p, PushOK(p)
        PROVE  flow'[f].inc <= q'[j].inc
    BY <1>0, <1>3, <2>2, Newest
  <2> QED BY <2>1, <2>2, QueueOr
<1>4. ASSUME NEW f \in DOMAIN flow, NEW k \in Keys, k = flow[f].key, Hand(k, Kinds)'
      PROVE  flow'[f].inc <= rl'.pkt.inc
  BY <1>0, <1>4, HandKeep DEF Ordered
<1>5. ASSUME NEW f \in DOMAIN flow, NEW g \in DOMAIN flow, NEW k \in Keys, k = flow[f].key,
             Reaches(k, g)'
      PROVE  flow'[f].inc <= flow'[g].inc
  BY <1>0, <1>5 DEF Ordered, RouteKept
<1>6. \A f \in DOMAIN flow' : Hand(flow[f].key, Kinds)' => flow'[f].inc <= rl'.pkt.inc
  BY <1>0, <1>4
<1>7. \A f, g \in DOMAIN flow' : Reaches(flow[f].key, g)' => flow'[f].inc <= flow'[g].inc
  BY <1>0, <1>5
<1> QED BY <1>0, <1>1, <1>2, <1>3, <1>6, <1>7 DEF Ordered


LEMMA PushIs ==
  ASSUME EngineTypes, QueueMove
  PROVE  \A p \in Packets : q' = Append(q, p) => PushOK(p)
<1>1. q \in Seq(Packets)
  BY DEF EngineTypes, QueueTypes
<1>2. ASSUME NEW p \in Packets, NEW r \in Packets, q' = Append(q, p), q' = Append(q, r)
      PROVE  p = r
  <2>1. Append(q, p)[Len(q) + 1] = p /\ Append(q, r)[Len(q) + 1] = r
    BY <1>1
  <2> QED BY <1>2, <2>1
<1>3. \A p \in Packets : q' = Append(q, p) => q' # q
  BY <1>1
<1> QED BY <1>2, <1>3 DEF QueueMove

\* Who is found by data, or may be by what is sent next
LEMMA RoutedKept ==
  ASSUME EngineTypes, Routed, RouteKept, QueueMove, SocketsMove
  PROVE  Routed'
<1>1. ASSUME NEW i \in DOMAIN q', q'[i].kind = "data",
             NEW p \in Packets, p = q'[i], NEW k \in Keys, k = p.key, NEW c, c = p.inc,
             NEW m \in Nat, m = i - 1
      PROVE  After(k, m, {c})'
  <2>1. CASE i \in DOMAIN q /\ q'[i] = q[i]
    <3>1. m \in 0 .. Len(q)
      BY <1>1, <2>1, QueueGrows
    <3>2. After(q[i].key, i - 1, {q[i].inc})
      BY <1>1, <2>1 DEF Routed
    <3>3. After(k, m, {c})
      BY <1>1, <2>1, <3>2
    <3> QED BY <3>1, <3>3, AfterKept
  <2>2. ASSUME i = Len(q) + 1, PushOK(p)
        PROVE  After(k, m, {c})'
    <3>1. m = Len(q) /\ cl[k].st \in {"est", "fin"} /\ cl[k].inc = c
      BY <1>1, <2>2, QueueGrows DEF PushOK
    <3>2. After(k, m, {c})
      BY <3>1, AfterWider DEF Routed
    <3> QED BY <3>1, <3>2, AfterKept, QueueGrows
  <2> QED BY <1>1, <2>1, <2>2, QueueOr
<1>2. ASSUME NEW k \in Keys, NEW f \in DOMAIN flow', Hand(k, {"data"})', Reaches(k, f)'
      PROVE  flow'[f].inc = rl'.pkt.inc
  <2>1. Hand(k, {"data"}) /\ rl'.pkt = rl.pkt
    BY <1>2, HandKeep
  <2> QED BY <1>2, <2>1 DEF Routed, RouteKept
<1>3. ASSUME NEW k \in Keys, cl'[k].st = "est", NEW c, c = cl'[k].inc PROVE After(k, Len(q), {c})'
  <2>1. After(k, Len(q), {c}) /\ cl'[k].st # "syn"
    BY <1>3 DEF SocketsMove, SocketMove
  <2>2. \A p \in Packets : q' = Append(q, p) /\ p.key = k => p.kind # "syn"
    BY <2>1, PushIs DEF PushOK
  <2> QED BY <2>1, <2>2, AfterAll
<1>4. ASSUME NEW k \in Keys, cl'[k].st = "fin" PROVE After(k, Len(q), {})'
  <2>1. (After(k, Len(q), {}) \/ Pushes(k, Killing)) /\ cl'[k].st # "syn"
    BY <1>4 DEF SocketsMove, SocketMove
  <2>2. \A p \in Packets : q' = Append(q, p) /\ p.key = k => p.kind # "syn"
    BY <2>1, PushIs DEF PushOK
  <2> QED BY <2>1, <2>2, AfterAll
<1>5. \A i \in DOMAIN q' : q'[i].kind = "data" => After(q[i].key, i - 1, {q[i].inc})'
  <2> SUFFICES ASSUME NEW i \in DOMAIN q', q'[i].kind = "data"
               PROVE  After(q[i].key, i - 1, {q[i].inc})'
    OBVIOUS
  <2>1. i \in Nat /\ 1 <= i /\ q'[i] \in Packets
    BY QueueGrows, QueueOr, QueueFacts
  <2>2. PICK p \in Packets : p = q'[i]
    BY <2>1
  <2>3. p.key \in Keys
    BY PacketFacts
  <2>4. PICK m \in Nat : m = i - 1
    BY <2>1
  <2>5. After(p.key, m, {p.inc})'
    BY <1>1, <2>2, <2>3, <2>4
  <2> QED BY <2>2, <2>4, <2>5
<1> QED BY <1>2, <1>3, <1>4, <1>5 DEF Routed

\* A killer is not let go while there is a flow it would end.
LEMMA KilledKept ==
  ASSUME EngineTypes, RouteKept, QueueMove, NEW k \in Keys, NEW f \in DOMAIN flow,
         Reaches(k, f)', Killed(k)
  PROVE  Killed(k)'
<1>1. CASE Hand(k, Killing)
  BY <1>1 DEF RouteKept, Hand, Killed
<1>2. ASSUME NEW i \in DOMAIN q, Killer(k, i) PROVE Killed(k)'
  BY <1>2, KillerKept, QueueGrows DEF Killed
<1> QED BY <1>1, <1>2 DEF Killed

LEMMA AfterNone ==
  ASSUME EngineTypes, NEW k, NEW f \in DOMAIN flow, Reaches(k, f), After(k, Len(q), {})
  PROVE  Killed(k)
<1>1. DOMAIN q = 1 .. Len(q)
  BY DEF EngineTypes, QueueTypes
<1> QED BY <1>1 DEF After, Fresh, Killed

LEMMA LeftKept ==
  ASSUME EngineTypes, Left, RouteKept, QueueMove, SocketsMove, AnswerMove
  PROVE  Left'
<1> SUFFICES ASSUME TunOpen', NEW k \in Keys, NEW f \in DOMAIN flow,
                    cl'[k].st \in {"closed", "syn"}, Reaches(k, f)', flow'[f].synAck
             PROVE  Killed(k)'
  BY DEF Left, RouteKept
<1>1. CASE Pushes(k, Killing)
  BY <1>1, PushesLast DEF Killed, Killer
<1>2. CASE ~Pushes(k, Killing)
  <2>1. Reaches(k, f) /\ flow[f].key = k /\ TunOpen
    BY DEF RouteKept, Reaches, AnswerMove
  <2>2. flow[f].synAck
    BY <1>2, <2>1 DEF AnswerMove
  <2>3. cl[k].st \in {"closed", "syn"} \/ After(k, Len(q), {})
    BY <1>2 DEF SocketsMove, SocketMove
  <2>4. Killed(k)
    BY <2>1, <2>2, <2>3, AfterNone DEF Left
  <2> QED BY <2>4, KilledKept
<1> QED BY <1>1, <1>2

LEMMA ConnectingKept ==
  ASSUME EngineTypes, SocketsMove, NEW k \in Keys, NEW c \in Nat, c <= cl[k].inc,
         ~Connecting(k, c)
  PROVE  ~Connecting(k, c)'
<1>1. cl[k].inc \in Nat
  BY SocketFacts
<1>2. cl'[k].st = "syn" =>
        (cl[k].st = "syn" /\ cl'[k].inc = cl[k].inc) \/ cl[k].inc < cl'[k].inc
  BY DEF SocketsMove, SocketMove
<1> QED BY <1>1, <1>2 DEF Connecting

\* A SYN is sent by a client that connects.
LEMMA NoSynKept ==
  ASSUME EngineTypes, QueueMove, SocketsMove, NEW k \in Keys, NEW c \in Nat, c <= cl[k].inc,
         NEW m \in Nat, NoSyn(k, c, m), ~Connecting(k, c)
  PROVE  NoSyn(k, c, m)' /\ ~Connecting(k, c)'
<1>1. ~Connecting(k, c)'
  BY ConnectingKept
<1>2. ASSUME NEW j \in DOMAIN q', j > m, q'[j].key = k, q'[j].kind = "syn" PROVE q'[j].inc # c
  <2>1. CASE j \in DOMAIN q /\ q'[j] = q[j]
    BY <1>2, <2>1 DEF NoSyn
  <2>2. ASSUME NEW p \in Packets, q'[j] = p, PushOK(p) PROVE q'[j].inc # c
    BY <1>1, <1>2, <2>2 DEF PushOK, Connecting
  <2> QED BY <1>2, <2>1, <2>2, QueueOr
<1> QED BY <1>1, <1>2 DEF NoSyn

LEMMA SynsFirstKept ==
  ASSUME EngineTypes, SynsFirst, RouteKept, QueueMove, SocketsMove, UsedMove
  PROVE  SynsFirst'
<1>1. ASSUME NEW k \in Keys, Hand(k, {"data"}), NEW c, c = rl.pkt.inc
      PROVE  NoSyn(k, c, 0)' /\ ~Connecting(k, c)'
  <2>1. c \in Nat /\ c <= cl[k].inc
    BY <1>1, HandFacts DEF Hand
  <2> QED BY <1>1, <2>1, NoSynKept DEF SynsFirst
<1>2. ASSUME NEW f \in DOMAIN flow, Used(f)', NEW k \in Keys, k = flow[f].key,
             NEW c \in Nat, c = flow[f].inc
      PROVE  NoSyn(k, c, 0)' /\ ~Connecting(k, c)' /\ (Hand(k, {"syn"})' => rl'.pkt.inc # c)
  <2>1. CASE Used(f)
    <3>1. NoSyn(k, c, 0) /\ ~Connecting(k, c) /\ (Hand(k, {"syn"}) => rl.pkt.inc # c)
      BY <1>2, <2>1 DEF SynsFirst
    <3>2. c <= cl[k].inc
      BY <1>2, FlowFacts
    <3> QED BY <3>1, <3>2, NoSynKept, HandKeep
  <2>2. CASE Hand(k, {"data"}) /\ rl.pkt.inc = c
    <3>1. ~Hand(k, {"syn"})'
      BY <2>2, HandKeep DEF Hand
    <3> QED BY <1>1, <2>2, <3>1
  <2> QED BY <1>2, <2>1, <2>2 DEF UsedMove
<1>3. ASSUME NEW k \in Keys, Hand(k, {"data"})'
      PROVE  NoSyn(k, rl.pkt.inc, 0)' /\ ~Connecting(k, rl.pkt.inc)'
  BY <1>1, <1>3, HandKeep
<1>4. ASSUME NEW i \in DOMAIN q', q'[i].kind = "data", NEW r \in Packets, r = q'[i]
      PROVE  NoSyn(r.key, r.inc, i)' /\ ~Connecting(r.key, r.inc)'
  <2>1. r.key \in Keys /\ r.inc \in Nat
    BY PacketFacts
  <2>2. CASE i \in DOMAIN q /\ q'[i] = q[i]
    <3>1. NoSyn(r.key, r.inc, i) /\ ~Connecting(r.key, r.inc) /\ i \in Nat
      BY <1>4, <2>2, QueueGrows DEF SynsFirst
    <3>2. r.inc <= cl[r.key].inc
      BY <1>4, <2>2 DEF EngineTypes, QueueTypes, Sent
    <3> QED BY <2>1, <3>1, <3>2, NoSynKept
  <2>3. CASE i = Len(q) + 1 /\ PushOK(r)
    <3>1. i \in Nat /\ ~Connecting(r.key, r.inc) /\ r.inc = cl[r.key].inc
      BY <1>4, <2>3, QueueGrows DEF PushOK, Connecting
    <3>2. ~Connecting(r.key, r.inc)'
      BY <2>1, <3>1, ConnectingKept
    <3>3. \A j \in DOMAIN q' : ~(j > i)
      BY <2>3, QueueGrows, QueueOr
    <3> QED BY <3>2, <3>3 DEF NoSyn
  <2> QED BY <1>4, <2>2, <2>3, QueueOr
<1>5. \A i \in DOMAIN q' : q'[i].kind = "data" =>
        NoSyn(q[i].key, q[i].inc, i)' /\ ~Connecting(q[i].key, q[i].inc)'
  <2> SUFFICES ASSUME NEW i \in DOMAIN q', q'[i].kind = "data"
               PROVE  NoSyn(q[i].key, q[i].inc, i)' /\ ~Connecting(q[i].key, q[i].inc)'
    OBVIOUS
  <2>1. PICK r \in Packets : r = q'[i]
    BY QueueOr, QueueFacts
  <2>2. NoSyn(r.key, r.inc, i)' /\ ~Connecting(r.key, r.inc)'
    BY <1>4, <2>1
  <2> QED BY <2>1, <2>2
<1>6. \A f \in DOMAIN flow' : Used(f)' =>
        /\ NoSyn(flow[f].key, flow[f].inc, 0)' /\ ~Connecting(flow[f].key, flow[f].inc)'
        /\ (Hand(flow[f].key, {"syn"})' => rl'.pkt.inc # flow'[f].inc)
  <2> SUFFICES ASSUME NEW f \in DOMAIN flow', Used(f)'
               PROVE  /\ NoSyn(flow[f].key, flow[f].inc, 0)'
                      /\ ~Connecting(flow[f].key, flow[f].inc)'
                      /\ (Hand(flow[f].key, {"syn"})' => rl'.pkt.inc # flow'[f].inc)
    OBVIOUS
  <2>1. f \in DOMAIN flow /\ flow'[f].key = flow[f].key /\ flow'[f].inc = flow[f].inc
    BY DEF RouteKept
  <2>2. PICK k \in Keys, c \in Nat : k = flow[f].key /\ c = flow[f].inc
    BY <2>1, FlowFacts
  <2>3. NoSyn(k, c, 0)' /\ ~Connecting(k, c)' /\ (Hand(k, {"syn"})' => rl'.pkt.inc # c)
    BY <1>2, <2>1, <2>2
  <2>4. k = flow'[f].key /\ c = flow'[f].inc
    BY <2>1, <2>2
  <2> QED BY <2>3, <2>4
<1> QED BY <1>3, <1>5, <1>6 DEF SynsFirst

-----------------------------------------------------------------------------
(* Flows, and who has taken them                                           *)

\* Nothing is given to the flow; it may be closed, or get its backend.
FlowQuiet(f) ==
  /\ flow'[f].key = flow[f].key /\ flow'[f].inc = flow[f].inc
  /\ flow'[f].wrote = flow[f].wrote /\ flow'[f].pending = flow[f].pending
  /\ flow'[f].again = flow[f].again /\ flow'[f].synAck = flow[f].synAck
  /\ flow[f].closed => flow'[f].closed
  /\ ~flow'[f].closed => flow'[f].at = flow[f].at /\ flow'[f].n = flow[f].n
  /\ flow[f].backend # "none" => flow'[f].backend # "none"
  /\ pc'[f] \in Early => pc[f] \in Early
  /\ pc'[f] = "complete" => pc[f] = "complete" \/ flow'[f].backend # "none"
  /\ pc'[f] = "flush" => pc[f] = "flush"
  /\ rl'.pc = "write" /\ rl'.flow = f =>
       (rl.pc = "write" /\ rl.flow = f) \/ flow'[f].backend # "none"
FlowsQuiet == \A f \in DOMAIN flow : FlowQuiet(f)

\* A flow that has answered stays what it is to who has taken it.
PeerFlow(f) ==
  flow[f].synAck =>
    /\ flow'[f].synAck /\ (pc'[f] = "flush" => pc[f] = "flush")
    /\ ~flow[f].again /\ flow[f].pending = <<>> => ~flow'[f].again /\ flow'[f].pending = <<>>
    /\ Len(flow[f].wrote) <= Len(flow'[f].wrote)
PeerFlows ==
  \A f \in DOMAIN flow : /\ f \in DOMAIN flow' /\ PeerFlow(f)
                         /\ flow'[f].key = flow[f].key /\ flow'[f].inc = flow[f].inc

\* A socket keeps its flow, is told of what is written, starts afresh or takes one.
SocketPeer(k) ==
  /\ cl'[k].st = "syn" => cl'[k].acked = 0
  /\ \/ cl'[k].peer = NoFlow /\ cl'[k].acked = 0
     \/ PeerOK(k)' /\ cl'[k].acked = 0
     \/ cl'[k].peer = cl[k].peer /\ cl'[k].inc = cl[k].inc /\ cl'[k].acked = cl[k].acked
     \/ /\ cl'[k].peer = cl[k].peer /\ cl'[k].inc = cl[k].inc /\ cl[k].peer # NoFlow
        /\ flow[cl[k].peer].inc = cl[k].inc
        /\ cl'[k].acked <= Len(flow'[cl[k].peer].wrote)
ClientMove == QueueMove /\ SocketsMove /\ \A k \in Keys : SocketPeer(k)

LEMMA QuietFlowOK ==
  ASSUME NEW f, FlowOK(f), FlowQuiet(f)
  PROVE  FlowOK(f)'
<1>1. OfInc(flow'[f].wrote, flow'[f].inc) /\ OfInc(flow'[f].pending, flow'[f].inc)
  BY DEF FlowOK, FlowQuiet
<1>2. HasBackend(f)' => flow'[f].backend # "none"
  BY DEF FlowOK, FlowQuiet, HasBackend
<1>3. ~flow'[f].again => Counted(f)'
  BY DEF FlowOK, FlowQuiet, Counted
<1>4. flow'[f].again => Used(f)'
  BY DEF FlowOK, FlowQuiet, Used
<1>5. /\ flow'[f].backend = "none" => flow'[f].wrote = <<>>
      /\ pc'[f] \in Early => ~flow'[f].synAck
      /\ pc'[f] = "flush" => flow'[f].pending # <<>>
  BY DEF FlowOK, FlowQuiet
<1>6. OfInc(flow[f].wrote, flow[f].inc)' /\ OfInc(flow[f].pending, flow[f].inc)'
  BY <1>1 DEF OfInc
<1> QED BY <1>2, <1>3, <1>4, <1>5, <1>6 DEF FlowOK

LEMMA QuietPeerFlow ==
  ASSUME EngineTypes, FlowsOK, NEW f \in DOMAIN flow, FlowQuiet(f)
  PROVE  PeerFlow(f)
  BY FlowFacts DEF FlowQuiet, PeerFlow

LEMMA PeersKept ==
  ASSUME EngineTypes, EngineTypes', PeersOK, AckedWasWritten, PeerFlows,
         \A k \in Keys : SocketPeer(k)
  PROVE  PeersOK' /\ AckedWasWritten'
<1>1. ASSUME NEW k \in Keys, NEW p, p = cl[k].peer, p # NoFlow,
             cl'[k].peer = p, cl'[k].inc = cl[k].inc
      PROVE  /\ p \in DOMAIN flow /\ p \in DOMAIN flow' /\ flow'[p].key = k
             /\ flow'[p].synAck /\ pc'[p] # "flush" /\ flow'[p].inc = flow[p].inc
             /\ cl[k].inc = flow[p].inc => ~flow'[p].again /\ flow'[p].pending = <<>>
             /\ Len(flow[p].wrote) <= Len(flow'[p].wrote)
  <2>1. /\ p \in DOMAIN flow /\ flow[p].key = k /\ flow[p].synAck /\ pc[p] # "flush"
        /\ (cl[k].inc = flow[p].inc => ~flow[p].again /\ flow[p].pending = <<>>)
    BY <1>1 DEF PeersOK, PeerOK
  <2> QED BY <2>1 DEF PeerFlows, PeerFlow
<1>2. ASSUME NEW k \in Keys PROVE PeerOK(k)'
  <2>1. cl'[k].st = "syn" => cl'[k].acked = 0
    BY DEF SocketPeer
  <2>2. CASE cl'[k].peer = cl[k].peer /\ cl'[k].inc = cl[k].inc
    BY <1>1, <2>1, <2>2 DEF PeerOK
  <2> QED BY <2>1, <2>2 DEF SocketPeer, PeerOK
<1>3. ASSUME NEW k \in Keys, cl'[k].acked > 0, NEW p, p = cl'[k].peer
      PROVE  /\ p \in DOMAIN flow' /\ flow'[p].key = k /\ flow'[p].inc = cl'[k].inc
             /\ ~flow'[p].again /\ cl'[k].acked <= Len(flow'[p].wrote)
  <2>1. cl'[k].peer = cl[k].peer /\ cl'[k].inc = cl[k].inc
    BY <1>3 DEF SocketPeer
  <2>2. CASE cl'[k].acked = cl[k].acked
    <3>1. /\ p \in DOMAIN flow /\ flow[p].inc = cl[k].inc /\ cl[k].acked <= Len(flow[p].wrote)
      BY <1>3, <2>1, <2>2 DEF AckedWasWritten
    <3>2. p # NoFlow
      BY <3>1, FlowFacts
    <3>3. Len(flow[p].wrote) <= Len(flow'[p].wrote) /\ ~flow'[p].again /\ p \in DOMAIN flow'
          /\ flow'[p].key = k /\ flow'[p].inc = flow[p].inc
      BY <1>1, <1>3, <2>1, <3>1, <3>2
    <3>4. Len(flow[p].wrote) \in Nat /\ cl[k].acked \in Nat
      BY <3>1, FlowFacts, SocketFacts
    <3>5. Len(flow'[p].wrote) \in Nat
      <4>1. flow'[p].wrote \in Seq(Segments)
        BY <3>3 DEF EngineTypes, FlowsTypes, FlowTypes, FlowState
      <4> QED BY <4>1
    <3> QED BY <2>1, <2>2, <3>1, <3>3, <3>4, <3>5
  <2>3. CASE /\ cl[k].peer # NoFlow /\ flow[cl[k].peer].inc = cl[k].inc
             /\ cl'[k].acked <= Len(flow'[cl[k].peer].wrote)
    BY <1>1, <1>3, <2>1, <2>3
  <2> QED BY <1>3, <2>1, <2>2, <2>3 DEF SocketPeer
<1> QED BY <1>2, <1>3 DEF PeersOK, AckedWasWritten

\* Every step but those that take a packet and make a flow
LEMMA UploadKept ==
  ASSUME EngineTypes, EngineTypes', Upload, RouteKept, ClientMove, AnswerMove, UsedMove,
         FlowsOK', PeerFlows
  PROVE  Upload'
  BY OrderedKept, RoutedKept, LeftKept, SynsFirstKept, PeersKept DEF Upload, ClientMove

\* ... and that give nothing to a flow
LEMMA QuietKept ==
  ASSUME EngineTypes, EngineTypes', Upload, RouteKept, ClientMove, FlowsQuiet,
         TunOpen' => TunOpen
  PROVE  Upload'
<1>1. AnswerMove
  BY DEF AnswerMove, FlowsQuiet, FlowQuiet
<1>2. UsedMove
  BY DEF UsedMove, Used, FlowsQuiet, FlowQuiet
<1>3. FlowsOK'
  BY QuietFlowOK DEF FlowsOK, FlowsQuiet, Upload, RouteKept
<1>4. PeerFlows
  BY QuietPeerFlow DEF PeerFlows, FlowsQuiet, FlowQuiet, Upload, RouteKept
<1> QED BY <1>1, <1>2, <1>3, <1>4, UploadKept

-----------------------------------------------------------------------------
(* What a client does, and what it does when it is told something          *)

LEMMA SocketRests ==
  ASSUME EngineTypes, Upload, NEW k \in Keys, cl'[k] = cl[k]
  PROVE  SocketMove(k) /\ SocketPeer(k)
<1>1. /\ cl[k].st = "est" => After(k, Len(q), {cl[k].inc})
      /\ cl[k].st = "fin" => After(k, Len(q), {})
  BY DEF Upload, Routed
<1>2. cl[k].st = "syn" => cl[k].acked = 0
  BY DEF Upload, PeersOK, PeerOK
<1>3. cl[k].inc <= cl[k].inc
  BY SocketFacts
<1> QED BY <1>1, <1>2, <1>3 DEF SocketMove, SocketPeer

LEMMA NobodyMoves ==
  ASSUME EngineTypes, Upload, UNCHANGED <<cl, q>>
  PROVE  ClientMove
  BY SocketRests DEF ClientMove, QueueMove, SocketsMove

\* One socket moves.
LEMMA OneMoves ==
  ASSUME EngineTypes, Upload, QueueMove, NEW k \in Keys, SocketMove(k), SocketPeer(k),
         \A j \in Keys : j # k => cl'[j] = cl[j]
  PROVE  ClientMove
  BY SocketRests DEF ClientMove, SocketsMove

LEMMA RefuseMoves ==
  ASSUME EngineTypes, Upload, NEW k \in Keys, 1 <= cl[k].inc, Refuse(k)
  PROVE  ClientMove /\ Pushes(k, Killing)
<1> DEFINE p == Packet("rst", k, 0)
<1>1. p \in Packets /\ p.kind = "rst" /\ p.key = k /\ p.inc = cl[k].inc
  BY PacketIs, EngineNumbers DEF Kinds
<1>2. q' = Append(q, p) /\ cl' = cl
  BY DEF Refuse
<1> HIDE DEF p
<1>3. PushOK(p)
  BY <1>1, <1>2 DEF PushOK
<1>4. Pushes(k, Killing)
  BY <1>1, <1>2 DEF Pushes, Killing
<1> QED BY <1>1, <1>2, <1>3, <1>4, SocketRests DEF ClientMove, QueueMove, SocketsMove

\* Who is told that segments have arrived has taken the flow they were written to.
LEMMA AckMoves ==
  ASSUME EngineTypes, Upload, NEW f \in DOMAIN flow, NEW inc, NEW n \in Nat, Ack(f, inc, n),
         Heard(f, inc) => flow[f].inc = inc /\ n <= Len(flow'[f].wrote)
  PROVE  ClientMove
<1> DEFINE k == flow[f].key
<1>0. k \in Keys /\ 1 <= cl[k].inc /\ f # NoFlow
  BY FlowIncs, FlowFacts
<1>1. CASE cl' = cl /\ UNCHANGED q
  BY <1>1, NobodyMoves
<1>2. CASE cl' = [cl EXCEPT ![k].acked = n] /\ n <= cl[k].sent /\ Heard(f, inc) /\ UNCHANGED q
  <2>1. n \in 0 .. NUp
    BY <1>0, <1>2, SocketFacts, EngineNumbers
  <2>2. /\ cl'[k].st = cl[k].st /\ cl'[k].inc = cl[k].inc /\ cl'[k].acked = n
        /\ cl'[k].peer = cl[k].peer /\ \A j \in Keys : j # k => cl'[j] = cl[j]
    BY <1>0, <1>2, <2>1, AckedChanges
  <2>3. cl[k].st \in {"est", "fin"} /\ cl[k].peer = f /\ cl[k].inc = inc
    BY <1>2 DEF Heard
  <2>4. SocketPeer(k)
    BY <1>0, <1>2, <2>2, <2>3 DEF SocketPeer
  <2>5. SocketMove(k)
    <3>1. /\ cl[k].st = "est" => After(k, Len(q), {cl[k].inc})
          /\ cl[k].st = "fin" => After(k, Len(q), {})
      BY <1>0 DEF Upload, Routed
    <3>2. cl[k].inc <= cl[k].inc
      BY <1>0, SocketFacts
    <3> QED BY <2>2, <2>3, <3>1, <3>2 DEF SocketMove
  <2>6. QueueMove
    BY <1>2 DEF QueueMove
  <2> HIDE DEF k
  <2> QED BY <1>0, <2>2, <2>4, <2>5, <2>6, OneMoves
<1>3. CASE Refuse(k)
  BY <1>0, <1>3, RefuseMoves
<1> QED BY <1>1, <1>2, <1>3 DEF Ack

\* A socket is closed by its client or by a last packet.
LEMMA ClosesMoves ==
  ASSUME EngineTypes, Upload, NEW k \in Keys, cl[k].st \in {"closed", "syn", "fin"},
         cl' = [cl EXCEPT ![k].st = "closed"], UNCHANGED q
  PROVE  ClientMove
<1>1. /\ cl'[k].st = "closed" /\ cl'[k].inc = cl[k].inc /\ cl'[k].acked = cl[k].acked
      /\ cl'[k].peer = cl[k].peer /\ \A j \in Keys : j # k => cl'[j] = cl[j]
  BY StateChanges
<1>2. cl[k].st = "fin" => After(k, Len(q), {})
  BY DEF Upload, Routed
<1>3. cl[k].inc <= cl[k].inc
  BY SocketFacts
<1>4. SocketMove(k)
  BY <1>1, <1>2, <1>3 DEF SocketMove
<1>5. SocketPeer(k)
  BY <1>1 DEF SocketPeer
<1> QED BY <1>1, <1>4, <1>5, OneMoves DEF QueueMove

LEMMA FinMoves ==
  ASSUME EngineTypes, Upload, NEW f \in DOMAIN flow, NEW inc, Fin(f, inc)
  PROVE  ClientMove
<1> DEFINE k == flow[f].key
<1>0. k \in Keys /\ 1 <= cl[k].inc
  BY FlowIncs
<1>1. CASE cl' = cl /\ UNCHANGED q
  BY <1>1, NobodyMoves
<1>2. CASE cl' = [cl EXCEPT ![k].st = "closed"] /\ cl[k].st = "fin" /\ UNCHANGED q
  BY <1>0, <1>2, ClosesMoves
<1>3. CASE Refuse(k)
  BY <1>0, <1>3, RefuseMoves
<1> QED BY <1>1, <1>2, <1>3 DEF Fin

\* A flow whose dial has failed has answered nobody.
LEMMA RstMoves ==
  ASSUME EngineTypes, Upload, NEW f \in DOMAIN flow, pc[f] \in Early, NEW inc, Rst(f, inc)
  PROVE  ClientMove
<1> DEFINE k == flow[f].key
<1>0. k \in Keys /\ f # NoFlow
  BY FlowFacts
<1>1. CASE cl' = cl /\ UNCHANGED q
  BY <1>1, NobodyMoves
<1>2. CASE /\ cl' = [cl EXCEPT ![k].st = "closed"] /\ UNCHANGED q
           /\ Heard(f, inc) \/ cl[k].st = "syn"
  <2>1. ~flow[f].synAck
    BY DEF Upload, FlowsOK, FlowOK
  <2>2. cl[k].peer # f
    BY <1>0, <2>1 DEF Upload, PeersOK, PeerOK
  <2>3. cl[k].st = "syn"
    BY <1>2, <2>2 DEF Heard
  <2> QED BY <1>0, <1>2, <2>3, ClosesMoves
<1> QED BY <1>1, <1>2 DEF Rst

\* A client that takes a flow has nothing before it that another would be found by.
LEMMA SynAckMoves ==
  ASSUME EngineTypes, Upload, NEW f \in DOMAIN flow, NEW k \in Keys, k = flow[f].key,
         NEW inc, SynAck(f, inc),
         TunOpen /\ cl[k].st = "syn" /\ cl[k].inc = inc =>
           After(k, Len(q), {inc}) /\ (cl'[k].peer = f /\ cl'[k].inc = inc => PeerOK(k)')
  PROVE  /\ ClientMove
         /\ TunOpen => cl'[k].st \in {"est", "fin"} \/ Pushes(k, Killing)
<1>0. 1 <= cl[k].inc /\ f \in Flows
  BY FlowIncs, FlowFacts
<1>1. CASE Silent /\ (TunOpen => cl[k].st \in {"est", "fin"})
  BY <1>1, NobodyMoves DEF Silent
<1>2. CASE Refuse(k)
  BY <1>0, <1>2, RefuseMoves
<1>3. CASE /\ TunOpen /\ cl[k].st = "syn" /\ cl[k].inc = inc
           /\ cl' = [cl EXCEPT ![k].st = "est", ![k].peer = f] /\ UNCHANGED q
  <2>1. /\ cl'[k].st = "est" /\ cl'[k].inc = cl[k].inc /\ cl'[k].acked = cl[k].acked
        /\ cl'[k].peer = f /\ \A j \in Keys : j # k => cl'[j] = cl[j]
    <3>1. cl' = [cl EXCEPT ![k].st = "est", ![k].peer = f]
      BY <1>3
    <3> QED BY <1>0, <3>1, PeerChanges
  <2>2. cl[k].acked = 0
    BY <1>3 DEF Upload, PeersOK, PeerOK
  <2>3. cl[k].inc <= cl[k].inc
    BY SocketFacts
  <2>4. After(k, Len(q), {cl[k].inc}) /\ PeerOK(k)'
    BY <1>3, <2>1
  <2>5. SocketMove(k)
    BY <2>1, <2>3, <2>4 DEF SocketMove
  <2>6. SocketPeer(k)
    BY <2>1, <2>2, <2>4 DEF SocketPeer
  <2> QED BY <1>3, <2>1, <2>5, <2>6, OneMoves DEF QueueMove
<1>4. cl[k].st \in {"closed", "syn", "est", "fin"}
  BY SocketFacts
<1> QED BY <1>1, <1>2, <1>3, <1>4 DEF SynAck, Strange

LEMMA PushMoves ==
  ASSUME EngineTypes, NEW k \in Keys, NEW kind \in Kinds, NEW n \in 0 .. NUp + 1,
         1 <= cl[k].inc, Push(Packet(kind, k, n)), cl'[k].inc = cl[k].inc,
         kind = "data" => cl[k].st \in {"est", "fin"}, kind = "syn" => cl'[k].st = "syn"
  PROVE  QueueMove /\ (kind \in Killing => Pushes(k, Killing))
<1> DEFINE p == Packet(kind, k, n)
<1>1. p \in Packets /\ p.kind = kind /\ p.key = k /\ p.inc = cl[k].inc
  BY PacketIs
<1>2. q' = Append(q, p)
  BY DEF Push
<1> HIDE DEF p
<1>3. PushOK(p)
  BY <1>1 DEF PushOK
<1> QED BY <1>1, <1>2, <1>3 DEF QueueMove, Pushes

LEMMA ConnectMoves == ASSUME EngineTypes, Upload, NEW k \in Keys, Connect(k) PROVE ClientMove
<1> DEFINE s == [st |-> "syn", inc |-> cl[k].inc + 1, peer |-> NoFlow, sent |-> 0, acked |-> 0]
           p == [Packet("syn", k, 0) EXCEPT !.inc = @ + 1]
<1>1. /\ s \in Sockets /\ s.inc = cl[k].inc + 1 /\ s.st = "syn" /\ s.peer = NoFlow
      /\ s.acked = 0 /\ cl[k].st = "closed"
  BY SocketFacts, EngineNumbers DEF Connect, Sockets
<1>2. cl' = [cl EXCEPT ![k] = s] /\ q' = Append(q, p)
  BY DEF Connect
<1>3. p \in Packets /\ p.inc = cl[k].inc + 1 /\ p.key = k /\ p.kind = "syn"
  BY SMTT(20), SocketFacts, EngineNumbers DEF Connect, Packet, Packets, Kinds
<1> HIDE DEF s, p
<1>4. cl[k].inc <= s.inc /\ 1 <= s.inc /\ cl[k].inc < s.inc
  BY <1>1, SocketFacts
<1>5. cl'[k] = s /\ \A j \in Keys : j # k => cl'[j] = cl[j]
  BY <1>1, <1>2, <1>4, SocketKeep
<1>6. PushOK(p)
  BY <1>1, <1>3, <1>5 DEF PushOK
<1>7. QueueMove
  BY <1>2, <1>3, <1>6 DEF QueueMove
<1>8. SocketMove(k) /\ SocketPeer(k)
  BY <1>1, <1>4, <1>5 DEF SocketMove, SocketPeer
<1> QED BY <1>5, <1>7, <1>8, OneMoves

LEMMA SendDataMoves == ASSUME EngineTypes, Upload, NEW k \in Keys, SendData(k) PROVE ClientMove
<1> DEFINE s == [cl[k] EXCEPT !.sent = @ + 1]
<1>1. cl[k].sent + 1 \in 0 .. NUp /\ cl[k].sent + 1 \in 0 .. NUp + 1 /\ cl[k].st = "est"
      /\ 1 <= cl[k].inc
  BY SocketFacts, EngineNumbers DEF SendData, EngineTypes, SocketTypes
<1>2. /\ s \in Sockets /\ s.inc = cl[k].inc /\ s.st = cl[k].st /\ s.peer = cl[k].peer
      /\ s.acked = cl[k].acked
  BY <1>1, SocketFacts DEF Sockets
<1>3. cl' = [cl EXCEPT ![k] = s]
  BY DEF SendData
<1> HIDE DEF s
<1>4. cl[k].inc <= s.inc /\ (s.st # "closed" => 1 <= s.inc)
  BY <1>1, <1>2, SocketFacts
<1>5. cl'[k] = s /\ \A j \in Keys : j # k => cl'[j] = cl[j]
  BY <1>2, <1>3, <1>4, SocketKeep
<1>6. QueueMove
  BY <1>1, <1>2, <1>5, PushMoves DEF SendData, Kinds
<1>7. After(k, Len(q), {cl[k].inc})
  BY <1>1 DEF Upload, Routed
<1>8. SocketMove(k) /\ SocketPeer(k)
  BY <1>1, <1>2, <1>4, <1>5, <1>7 DEF SocketMove, SocketPeer
<1> QED BY <1>5, <1>6, <1>8, OneMoves

LEMMA ResendMoves == ASSUME EngineTypes, Upload, NEW k \in Keys, Resend(k) PROVE ClientMove
<1>0. cl' = cl /\ cl[k].st # "closed" /\ 1 <= cl[k].inc
  BY DEF Resend, EngineTypes, SocketTypes
<1>1. cl[k].acked < cl[k].sent => cl[k].acked + 1 \in 0 .. NUp + 1
  BY SocketFacts, EngineNumbers
<1>2. cl[k].sent + 1 \in 0 .. NUp + 1 /\ 0 \in 0 .. NUp + 1
  BY SocketFacts, EngineNumbers
<1>3. QueueMove
  BY <1>0, <1>1, <1>2, PushMoves DEF Resend, Kinds
<1> QED BY <1>0, <1>3, SocketRests, OneMoves

LEMMA CloseSocketMoves ==
  ASSUME EngineTypes, Upload, NEW k \in Keys, CloseSocket(k) PROVE ClientMove
<1>1. 1 <= cl[k].inc /\ cl[k].sent + 1 \in 0 .. NUp + 1
  BY SocketFacts, EngineNumbers DEF CloseSocket, EngineTypes, SocketTypes
<1>2. /\ cl'[k].st = "fin" /\ cl'[k].inc = cl[k].inc /\ cl'[k].acked = cl[k].acked
      /\ cl'[k].peer = cl[k].peer /\ \A j \in Keys : j # k => cl'[j] = cl[j]
  BY <1>1, StateChanges DEF CloseSocket
<1>3. QueueMove /\ Pushes(k, Killing)
  BY <1>1, <1>2, PushMoves DEF CloseSocket, Kinds, Killing
<1>4. SocketMove(k) /\ SocketPeer(k)
  BY <1>2, <1>3, SocketFacts DEF SocketMove, SocketPeer
<1> QED BY <1>2, <1>3, <1>4, OneMoves

LEMMA AbortMoves == ASSUME EngineTypes, Upload, NEW k \in Keys, Abort(k) PROVE ClientMove
<1>1. 1 <= cl[k].inc /\ 0 \in 0 .. NUp + 1
  BY EngineNumbers DEF Abort, EngineTypes, SocketTypes
<1>2. /\ cl'[k].st = "closed" /\ cl'[k].inc = cl[k].inc /\ cl'[k].acked = cl[k].acked
      /\ cl'[k].peer = cl[k].peer /\ \A j \in Keys : j # k => cl'[j] = cl[j]
  BY StateChanges DEF Abort
<1>3. QueueMove /\ Pushes(k, Killing)
  BY <1>1, <1>2, PushMoves DEF Abort, Kinds, Killing
<1>4. SocketMove(k) /\ SocketPeer(k)
  BY <1>2, <1>3, SocketFacts DEF SocketMove, SocketPeer
<1> QED BY <1>2, <1>3, <1>4, OneMoves

LEMMA ClientMoves == ASSUME EngineTypes, Upload, NEW k \in Keys, Client(k) PROVE ClientMove
<1>1. CASE GiveUp(k)
  BY <1>1, ClosesMoves DEF GiveUp
<1> QED BY <1>1, ConnectMoves, SendDataMoves, ResendMoves, CloseSocketMoves, AbortMoves DEF Client

-----------------------------------------------------------------------------
(* What readLoop can find                                                  *)

\* Flows are only closed, and only taken out of the table.
Shrinks ==
  /\ DOMAIN flow' = DOMAIN flow
  /\ \A f \in DOMAIN flow : /\ flow'[f].key = flow[f].key /\ flow'[f].inc = flow[f].inc
                            /\ flow[f].closed => flow'[f].closed
  /\ \A k \in Keys : table'[k] \in {table[k], NoFlow}

LEMMA RouteSame == ASSUME EngineTypes, Shrinks, rl' = rl PROVE RouteKept
<1>1. ASSUME NEW k \in Keys, NEW f \in DOMAIN flow, Reaches(k, f)' PROVE Reaches(k, f)
  BY <1>1, FlowFacts DEF Reaches, Shrinks
<1> QED BY <1>1 DEF RouteKept, Shrinks, Hand

\* readLoop is done with a packet; after a FIN or a reset nothing is found.
LEMMA RouteDropped ==
  ASSUME EngineTypes, Shrinks, rl'.pc \notin Busy,
         rl.pc \in Busy /\ rl.pkt.kind \in Killing =>
           \A f \in DOMAIN flow : table'[rl.pkt.key] = f => flow'[f].closed
  PROVE  RouteKept
<1>1. ASSUME NEW k \in Keys, NEW f \in DOMAIN flow, Reaches(k, f)'
      PROVE  Reaches(k, f) /\ table'[k] = f /\ ~flow'[f].closed
  BY <1>1, FlowFacts DEF Reaches, Shrinks, Busy
<1>2. ASSUME NEW k \in Keys, NEW f \in DOMAIN flow, Hand(k, Killing), Reaches(k, f)' PROVE FALSE
  BY <1>1, <1>2 DEF Hand
<1> QED BY <1>1, <1>2 DEF RouteKept, Shrinks

\* ... or goes on with the flow it has found.
LEMMA RouteStep ==
  ASSUME EngineTypes, Shrinks, rl.pc \in Busy, NEW l \in Busy, NEW g,
         rl' = [pc |-> l, pkt |-> rl.pkt, flow |-> g],
         l \in {"seg", "write"} => (rl.pc = "seg" /\ rl.flow = g) \/ table[rl.pkt.key] = g
  PROVE  RouteKept
<1>1. ASSUME NEW k \in Keys, NEW f \in DOMAIN flow, Reaches(k, f)' PROVE Reaches(k, f)
  <2>1. f # NoFlow /\ ~flow[f].closed /\ flow[f].key = k /\ rl.pkt.key \in Keys
    BY <1>1, FlowFacts, HandFacts DEF Reaches, Shrinks
  <2>2. CASE table'[k] = f
    BY <2>1, <2>2 DEF Reaches, Shrinks
  <2>3. CASE l \in {"seg", "write"} /\ g = f
    BY <2>1, <2>3, TableFacts DEF Reaches
  <2> QED BY <1>1, <2>2, <2>3 DEF Reaches
<1> QED BY <1>1 DEF RouteKept, Shrinks, Hand

LEMMA ClientKept ==
  ASSUME EngineTypes, EngineTypes', Upload, UNCHANGED engine, ClientMove
  PROVE  Upload'
<1>1. UNCHANGED <<table, flow, pc, rl, stop>>
  BY DEF engine
<1>2. RouteKept
  BY <1>1, RouteSame DEF Shrinks
<1>3. FlowsQuiet
  BY <1>1 DEF FlowsQuiet, FlowQuiet
<1>4. TunOpen' => TunOpen
  BY <1>1 DEF TunOpen
<1> QED BY <1>2, <1>3, <1>4, QuietKept

-----------------------------------------------------------------------------
(* Steps that give nothing to a flow                                       *)

\* A goroutine moves on.
PcQuiet(g) == \/ pc'[g] = pc[g] \/ pc'[g] \in {"pump", "read", "fin", "remove", "end"}
              \/ pc[g] = "dial" /\ pc'[g] = "shutdown"
QuietFlows ==
  /\ flow' = flow \/ \E f \in DOMAIN flow : Close(f)
  /\ \A g \in DOMAIN flow : PcQuiet(g)
  /\ \A k \in Keys : table'[k] \in {table[k], NoFlow}
  /\ TunOpen' => TunOpen

LEMMA QuietShrinks == ASSUME EngineTypes, QuietFlows PROVE Shrinks
<1>1. CASE flow' = flow
  BY <1>1 DEF QuietFlows, Shrinks
<1>2. ASSUME NEW f \in DOMAIN flow, Close(f) PROVE Shrinks
  BY <1>2, CloseDoes DEF QuietFlows, Shrinks, OnlyFlow
<1> QED BY <1>1, <1>2 DEF QuietFlows

LEMMA QuietFrom ==
  ASSUME EngineTypes, QuietFlows, rl' = rl \/ rl'.pc # "write"
  PROVE  FlowsQuiet
<1>1. CASE flow' = flow
  BY <1>1 DEF QuietFlows, PcQuiet, FlowsQuiet, FlowQuiet, Early
<1>2. ASSUME NEW f \in DOMAIN flow, Close(f), NEW g \in DOMAIN flow PROVE FlowQuiet(g)
  <2>1. PcQuiet(g)
    BY DEF QuietFlows
  <2>2. CASE g # f
    <3>1. flow'[g] = flow[g]
      BY <1>2, <2>2, CloseDoes DEF OnlyFlow
    <3> QED BY <2>1, <3>1 DEF PcQuiet, FlowQuiet, Early
  <2>3. CASE g = f
    <3>1. /\ flow'[f].key = flow[f].key /\ flow'[f].inc = flow[f].inc /\ flow'[f].closed
          /\ flow'[f].at = flow[f].at /\ flow'[f].n = flow[f].n
          /\ flow'[f].pending = flow[f].pending /\ flow'[f].wrote = flow[f].wrote
          /\ flow'[f].synAck = flow[f].synAck /\ flow'[f].again = flow[f].again
          /\ flow'[f].backend = "none" <=> flow[f].backend = "none"
      BY <1>2, CloseDoes DEF OnlyFlow
    <3> QED BY <2>1, <2>3, <3>1 DEF PcQuiet, FlowQuiet, Early
  <2> QED BY <2>2, <2>3
<1> QED BY <1>1, <1>2 DEF QuietFlows, FlowsQuiet

LEMMA QuietSide ==
  ASSUME EngineTypes, EngineTypes', Upload, ClientMove, QuietFlows, rl' = rl
  PROVE  Upload'
  BY QuietShrinks, RouteSame, QuietFrom, QuietKept DEF QuietFlows

LEMMA QuietLoop ==
  ASSUME EngineTypes, EngineTypes', Upload, ClientMove, QuietFlows, rl'.pc \notin Busy,
         rl.pc \in Busy /\ rl.pkt.kind \in Killing =>
           \A f \in DOMAIN flow : table'[rl.pkt.key] = f => flow'[f].closed
  PROVE  Upload'
<1>1. rl'.pc # "write"
  BY DEF Busy
<1> QED BY <1>1, QuietShrinks, RouteDropped, QuietFrom, QuietKept DEF QuietFlows

\* A goroutine moves; the rest is as it was.
LEMMA MoveQuiet ==
  ASSUME EngineTypes, NEW f \in DOMAIN flow, NEW l \in Stages, Move(f, l),
         l \in {"pump", "read", "fin", "remove", "end"} \/ (pc[f] = "dial" /\ l = "shutdown"),
         flow' = flow \/ Close(f), table' = table \/ Unlink(flow[f].key), stop' = stop
  PROVE  QuietFlows
<1>1. OnlyMove(f) /\ pc'[f] = l
  BY MoveDoes DEF Stages
<1>2. \A g \in DOMAIN flow : PcQuiet(g)
  BY <1>1, FlowFacts DEF OnlyMove, PcQuiet
<1>3. \A k \in Keys : table'[k] \in {table[k], NoFlow}
  BY FlowFacts, UnlinkDoes
<1> QED BY <1>2, <1>3 DEF QuietFlows, TunOpen

LEMMA GoroutineQuiet ==
  ASSUME EngineTypes, EngineTypes', Upload, NEW f \in DOMAIN flow,
         \/ DialFails(f) \/ Shutdown(f) \/ FlushError(f) \/ PumpCheck(f) \/ PumpRead(f)
         \/ PumpFin(f) \/ Remove(f)
  PROVE  Upload'
<1>1. ClientMove
  <2>1. CASE DialFails(f)
    BY <2>1, RstMoves DEF DialFails, Early
  <2>2. CASE PumpFin(f)
    BY <2>2, FinMoves, NobodyMoves DEF PumpFin, Silent
  <2>3. CASE Shutdown(f) \/ FlushError(f) \/ PumpCheck(f) \/ PumpRead(f) \/ Remove(f)
    BY <2>3, NobodyMoves DEF Shutdown, FlushError, PumpCheck, PumpRead, Remove
  <2> QED BY <2>1, <2>2, <2>3
<1>2. QuietFlows /\ rl' = rl
  <2>1. CASE DialFails(f)
    BY <2>1, MoveQuiet DEF DialFails, Stages
  <2>2. CASE Shutdown(f)
    BY <2>2, MoveQuiet DEF Shutdown, Stages
  <2>3. CASE FlushError(f)
    BY <2>3, MoveQuiet DEF FlushError, Stages
  <2>4. CASE PumpCheck(f)
    BY <2>4, MoveQuiet DEF PumpCheck, Stages
  <2>5. CASE PumpRead(f)
    BY <2>5, MoveQuiet DEF PumpRead, Stages
  <2>6. CASE PumpFin(f)
    BY <2>6, MoveQuiet DEF PumpFin, Stages
  <2>7. CASE Remove(f)
    BY <2>7, MoveQuiet DEF Remove, Stages
  <2> QED BY <2>1, <2>2, <2>3, <2>4, <2>5, <2>6, <2>7
<1> QED BY <1>1, <1>2, QuietSide

LEMMA BridgeAndStopQuiet ==
  ASSUME EngineTypes, EngineTypes', Upload,
         \/ \E f \in DOMAIN flow : BridgeEnds(f) \/ StopClose(f)
         \/ StopCancel \/ StopCollect \/ StopTun \/ StopReturn
  PROVE  Upload'
<1> USE DEF BridgeEnds, StopClose, StopCancel, StopCollect, StopTun, StopReturn
<1>1. ClientMove
  BY NobodyMoves
<1>2. flow' = flow \/ \E f \in DOMAIN flow : Close(f)
  OBVIOUS
<1>3. pc' = pc /\ rl' = rl /\ (TunOpen' => TunOpen)
  BY DEF TunOpen
<1>4. \A k \in Keys : table'[k] \in {table[k], NoFlow}
  OBVIOUS
<1> QED BY <1>1, <1>2, <1>3, <1>4, QuietSide DEF QuietFlows, PcQuiet

\* readLoop, where it gives nothing to a flow
LEMMA LoopQuiet ==
  ASSUME EngineTypes, EngineTypes', Upload,
         \/ CheckDone \/ ReadError
         \/ \E f \in DOMAIN flow : WriteError(f) \/ ResetUnlink(f)
  PROVE  Upload'
<1>1. ClientMove
  BY NobodyMoves DEF CheckDone, ReadError, WriteError, ResetUnlink
<1>2. pc' = pc /\ (TunOpen' => TunOpen) /\ rl'.pc \notin Busy
  BY StepDoes DEF CheckDone, ReadError, WriteError, ResetUnlink, Again, Busy, TunOpen
<1>3. CASE CheckDone \/ ReadError
  <2>1. rl.pc \notin Busy /\ UNCHANGED <<flow, table>>
    BY <1>3 DEF CheckDone, ReadError, Busy
  <2>2. QuietFlows
    BY <1>2, <2>1 DEF QuietFlows, PcQuiet
  <2> QED BY <1>1, <1>2, <2>1, <2>2, QuietLoop
<1>4. ASSUME NEW f \in DOMAIN flow, WriteError(f) PROVE Upload'
  <2>1. \A k \in Keys : table'[k] \in {table[k], NoFlow}
    BY <1>4, FlowFacts, UnlinkDoes DEF WriteError
  <2>2. QuietFlows
    BY <1>2, <1>4, <2>1 DEF QuietFlows, PcQuiet, WriteError
  <2>3. rl.pkt.kind \notin Killing
    BY <1>4 DEF WriteError, EngineTypes, LoopTypes, Killing
  <2> QED BY <1>1, <1>2, <2>2, <2>3, QuietLoop
<1>5. ASSUME NEW f \in DOMAIN flow, ResetUnlink(f) PROVE Upload'
  <2>1. flow[f].key \in Keys /\ flow[f].key = rl.pkt.key
    BY <1>5, FlowFacts, HeldFacts DEF ResetUnlink, Holding
  <2>2. \A k \in Keys : table'[k] = IF k = rl.pkt.key THEN NoFlow ELSE table[k]
    BY <1>5, <2>1, UnlinkDoes DEF ResetUnlink
  <2>3. QuietFlows
    BY <1>2, <1>5, <2>2 DEF QuietFlows, PcQuiet, ResetUnlink
  <2>4. \A g \in DOMAIN flow : table'[rl.pkt.key] # g
    BY <2>1, <2>2, FlowFacts
  <2> QED BY <1>1, <1>2, <2>3, <2>4, QuietLoop
<1> QED BY <1>3, <1>4, <1>5

-----------------------------------------------------------------------------
(* readLoop finds a flow                                                   *)

LEMMA FoundQuiet ==
  ASSUME EngineTypes, EngineTypes', Upload, rl.pc \in {"find", "insert"},
         NEW l \in {"seg", "rst"}, Step(l, table[rl.pkt.key]), UNCHANGED <<table, flow, pc, stop, cl, q>>
  PROVE  Upload'
<1>1. rl' = [pc |-> l, pkt |-> rl.pkt, flow |-> table[rl.pkt.key]] /\ rl'.pc # "write"
  BY StepDoes
<1>2. QuietFlows
  BY DEF QuietFlows, PcQuiet, TunOpen
<1>3. RouteKept
  <2>1. l \in Busy /\ rl.pc \in Busy
    BY DEF Busy
  <2> QED BY <1>1, <1>2, <2>1, QuietShrinks, RouteStep
<1> QED BY <1>1, <1>2, <1>3, QuietFrom, NobodyMoves, QuietKept DEF QuietFlows

LEMMA FindKeeps == ASSUME EngineTypes, EngineTypes', Upload, Find PROVE Upload'
<1>1. CASE table[rl.pkt.key] = NoFlow
  <2>1. rl'.pc \notin Busy /\ UNCHANGED <<table, flow, pc, stop, cl, q>>
    BY <1>1 DEF Find, Again, Busy
  <2>2. QuietFlows
    BY <2>1 DEF QuietFlows, PcQuiet, TunOpen
  <2>3. \A f \in DOMAIN flow : table'[rl.pkt.key] # f
    BY <1>1, <2>1, FlowFacts
  <2> QED BY <2>1, <2>2, <2>3, NobodyMoves, QuietLoop
<1>2. CASE table[rl.pkt.key] # NoFlow
  BY <1>2, FoundQuiet DEF Find
<1> QED BY <1>1, <1>2

LEMMA ResetKeeps ==
  ASSUME EngineTypes, EngineTypes', Upload, NEW f \in DOMAIN flow, Reset(f) PROVE Upload'
<1>1. rl' = [pc |-> "unlink", pkt |-> rl.pkt, flow |-> f] /\ rl'.pc # "write" /\ rl.pc \in Busy
  BY StepDoes DEF Reset, Busy
<1>2. QuietFlows
  BY DEF Reset, QuietFlows, PcQuiet, TunOpen
<1>3. RouteKept
  <2>1. "unlink" \in Busy /\ "unlink" \notin {"seg", "write"}
    BY DEF Busy
  <2> QED BY <1>1, <1>2, <2>1, QuietShrinks, RouteStep
<1> QED BY <1>1, <1>2, <1>3, QuietFrom, NobodyMoves, QuietKept DEF QuietFlows, Reset

\* What readLoop has in hand and the flow it has found for it
LEMMA SegmentFacts ==
  ASSUME EngineTypes, NEW f \in DOMAIN flow, rl.pc \in {"seg", "write"}, rl.flow = f
  PROVE  /\ rl.pc \in Busy /\ flow[f].key = rl.pkt.key /\ rl.pkt.key \in Keys
         /\ \A g \in DOMAIN flow : table[rl.pkt.key] = g => g = f
         /\ ~flow[f].closed => Reaches(flow[f].key, f)
         /\ Hand(flow[f].key, {rl.pkt.kind}) /\ Hand(flow[f].key, Kinds)
<1>1. rl.pc \in Holding /\ rl.pc \in Busy
  BY DEF Holding, Busy
<1>2. flow[f].key = rl.pkt.key /\ rl.pkt.key \in Keys /\ rl.pkt.kind \in Kinds
  BY <1>1, HeldFacts
<1>3. table[rl.pkt.key] \in {f, NoFlow}
  BY <1>1 DEF EngineTypes, LoopTypes
<1> QED BY <1>1, <1>2, <1>3, FlowFacts DEF Reaches, Hand

LEMMA SegClosedKeeps ==
  ASSUME EngineTypes, EngineTypes', Upload, NEW f \in DOMAIN flow, Segment(f), flow[f].closed
  PROVE  Upload'
<1>1. rl'.pc \notin Busy /\ UNCHANGED <<table, flow, pc, stop, cl, q>>
  BY DEF Segment, Again, Busy, Silent
<1>2. QuietFlows
  BY <1>1 DEF QuietFlows, PcQuiet, TunOpen
<1>3. \A g \in DOMAIN flow : table'[rl.pkt.key] = g => flow'[g].closed
  BY <1>1, SegmentFacts DEF Segment
<1> QED BY <1>1, <1>2, <1>3, NobodyMoves, QuietLoop

LEMMA SegFinKeeps ==
  ASSUME EngineTypes, EngineTypes', Upload, NEW f \in DOMAIN flow, Segment(f), ~flow[f].closed,
         SegFin(f)
  PROVE  Upload'
<1>1. rl'.pc \notin Busy /\ UNCHANGED <<pc, stop>> /\ rl'.pc # "write"
  BY DEF Segment, SegFin, Again, Busy
<1>2. ClientMove
  BY FinMoves DEF SegFin
<1>3. /\ OnlyFlow(f) /\ flow'[f].closed
      /\ flow'[f].pending = flow[f].pending /\ flow'[f].wrote = flow[f].wrote
      /\ flow'[f].synAck = flow[f].synAck /\ flow'[f].again = flow[f].again
      /\ flow'[f].backend = "none" <=> flow[f].backend = "none"
  <2>1. flow[f].n <= NUp + 1 + MaxPending
    BY DEF EngineTypes, FlowsTypes, FlowTypes
  <2> QED BY <2>1, SegFinDoes
<1>4. Shrinks
  <2>1. \A k \in Keys : table'[k] \in {table[k], NoFlow}
    BY SegmentFacts, UnlinkDoes DEF Segment, SegFin
  <2> QED BY <1>3, <2>1 DEF Shrinks, OnlyFlow
<1>5. RouteKept
  <2>1. \A g \in DOMAIN flow : table'[rl.pkt.key] = g => flow'[g].closed
    BY SegmentFacts, UnlinkDoes, FlowFacts DEF Segment, SegFin
  <2> QED BY <1>1, <1>4, <2>1, RouteDropped
<1>6. FlowsQuiet
  <2>1. FlowQuiet(f)
    BY <1>1, <1>3 DEF FlowQuiet, OnlyFlow
  <2>2. \A g \in DOMAIN flow : g # f => FlowQuiet(g)
    BY <1>1, <1>3 DEF FlowQuiet, OnlyFlow
  <2> QED BY <2>1, <2>2 DEF FlowsQuiet
<1> QED BY <1>1, <1>2, <1>5, <1>6, QuietKept DEF TunOpen

\* Who has taken the flow that data has found knows what was written to it.
LEMMA PeerCounts ==
  ASSUME EngineTypes, Upload, NEW f \in DOMAIN flow, rl.pc \in {"seg", "write"}, rl.flow = f,
         rl.pkt.kind = "data", ~flow[f].closed, flow[f].at = rl.pkt.inc, Heard(f, rl.pkt.inc)
  PROVE  /\ flow[f].inc = rl.pkt.inc /\ ~flow[f].again /\ flow[f].pending = <<>>
         /\ flow[f].n = Len(flow[f].wrote) + 1
<1>1. flow[f].inc = rl.pkt.inc
  BY SegmentFacts DEF Upload, Routed
<1>2. f # NoFlow /\ flow[f].key \in Keys /\ cl[flow[f].key].peer = f
      /\ cl[flow[f].key].inc = flow[f].inc
  BY <1>1, FlowFacts DEF Heard
<1>3. ~flow[f].again /\ flow[f].pending = <<>>
  BY <1>2 DEF Upload, PeersOK, PeerOK
<1>4. Counted(f)
  BY <1>3 DEF Upload, FlowsOK, FlowOK
<1> QED BY <1>1, <1>3, <1>4 DEF Counted

\* Data that is not kept is acknowledged again, dropped, or goes on to be written.
LEMMA SegDataQuiet ==
  ASSUME EngineTypes, EngineTypes', Upload, NEW f \in DOMAIN flow, Segment(f), ~flow[f].closed,
         rl.pkt.kind = "data", SegData(f), ~InSequence(f) \/ flow[f].backend # "none"
  PROVE  Upload'
<1>0. rl.pc = "seg" /\ rl.flow = f /\ UNCHANGED <<pc, stop, table, flow>> /\ rl.pc \in Busy
  BY DEF Segment, SegData, Busy
<1>1. QuietFlows
  BY <1>0 DEF QuietFlows, PcQuiet, TunOpen
<1>2. CASE ~InSequence(f)
  <2>1. ClientMove
    <3>1. CASE rl.pkt.inc = flow[f].at /\ Ack(f, flow[f].at, flow[f].n - 1)
      <4>1. Heard(f, flow[f].at) =>
              flow[f].inc = flow[f].at /\ flow[f].n - 1 <= Len(flow'[f].wrote)
        BY <1>0, <3>1, PeerCounts, FlowFacts
      <4>2. flow[f].n - 1 \in Nat
        BY FlowFacts, EngineNumbers
      <4> QED BY <3>1, <4>1, <4>2, AckMoves
    <3>2. CASE Silent
      BY <3>2, NobodyMoves DEF Silent
    <3> QED BY <1>2, <3>1, <3>2 DEF SegData
  <2>2. rl'.pc \notin Busy /\ rl.pkt.kind \notin Killing
    BY <1>2 DEF SegData, Again, Busy, Killing
  <2> QED BY <1>1, <2>1, <2>2, QuietLoop
<1>3. CASE InSequence(f) /\ flow[f].backend # "none"
  <2>1. rl' = [pc |-> "write", pkt |-> rl.pkt, flow |-> f] /\ UNCHANGED <<cl, q>>
    BY <1>3, StepDoes DEF SegData, Silent
  <2>2. RouteKept
    <3>1. "write" \in Busy
      BY DEF Busy
    <3> QED BY <1>0, <1>1, <2>1, <3>1, QuietShrinks, RouteStep
  <2>3. FlowsQuiet
    BY <1>0, <1>3, <2>1 DEF FlowsQuiet, FlowQuiet
  <2> QED BY <1>0, <2>1, <2>2, <2>3, NobodyMoves, QuietKept DEF TunOpen
<1> QED BY <1>2, <1>3

-----------------------------------------------------------------------------
(* Steps that change one flow                                              *)

LEMMA OneGiven ==
  ASSUME EngineTypes, EngineTypes', Upload, RouteKept, ClientMove,
         NEW f \in DOMAIN flow, OnlyFlow(f), stop' = stop,
         \A g \in DOMAIN flow : g # f => pc'[g] = pc[g], rl'.pc = "write" => rl' = rl,
         TunOpen /\ flow'[f].synAck =>
           \/ flow[f].synAck
           \/ cl'[flow[f].key].st \in {"est", "fin"} \/ Pushes(flow[f].key, Killing),
         Used(f)' => Used(f) \/ (Hand(flow[f].key, {"data"}) /\ rl.pkt.inc = flow[f].inc),
         FlowOK(f)', PeerFlow(f)
  PROVE  Upload'
<1>1. \A g \in DOMAIN flow : g # f => flow'[g] = flow[g]
  BY DEF OnlyFlow
<1>2. \A g \in DOMAIN flow : g # f => FlowQuiet(g)
  BY <1>1 DEF FlowQuiet
<1>3. FlowsOK'
  <2>1. \A g \in DOMAIN flow : FlowOK(g)'
    BY <1>2, QuietFlowOK DEF Upload, FlowsOK
  <2> QED BY <2>1 DEF FlowsOK, OnlyFlow
<1>4. PeerFlows
  <2>1. \A g \in DOMAIN flow : PeerFlow(g)
    BY <1>2, QuietPeerFlow DEF Upload
  <2>2. \A g \in DOMAIN flow : flow'[g].key = flow[g].key /\ flow'[g].inc = flow[g].inc
    BY <1>1 DEF OnlyFlow
  <2> QED BY <2>1, <2>2 DEF PeerFlows, OnlyFlow
<1>5. AnswerMove
  BY <1>1 DEF AnswerMove, TunOpen
<1>6. UsedMove
  <2>1. ASSUME NEW g \in DOMAIN flow, g # f, Used(g)' PROVE Used(g)
    BY <1>1, <2>1 DEF Used
  <2> QED BY <2>1 DEF UsedMove
<1> QED BY <1>3, <1>4, <1>5, <1>6, UploadKept

\* What comes after the SYN in hand is of the client's latest connection.
LEMMA LatestInQueue ==
  ASSUME EngineTypes, Upload, NEW k \in Keys, Hand(k, Kinds), cl[k].inc = rl.pkt.inc,
         NEW i \in DOMAIN q, q[i].key = k
  PROVE  q[i].inc = cl[k].inc
<1>1. q[i].inc <= cl[k].inc
  BY DEF EngineTypes, QueueTypes, Sent
<1>2. rl.pkt.inc <= q[i].inc
  BY DEF Upload, Ordered
<1>3. q[i].inc \in Nat /\ cl[k].inc \in Nat
  BY QueueFacts, PacketFacts, SocketFacts
<1> QED BY <1>1, <1>2, <1>3

LEMMA SegSynDoes ==
  ASSUME EngineTypes, NEW f \in DOMAIN flow, SegSyn(f)
  PROVE  /\ OnlyFlow(f) /\ flow'[f].at = rl.pkt.inc /\ flow'[f].n = 1
         /\ flow'[f].wrote = flow[f].wrote /\ flow'[f].pending = flow[f].pending
         /\ flow'[f].again = flow[f].again /\ flow'[f].synAck = flow[f].synAck
         /\ flow'[f].closed = flow[f].closed /\ flow'[f].backend = flow[f].backend
<1>1. flow' = [flow EXCEPT ![f] = [flow[f] EXCEPT !.at = rl.pkt.inc, !.n = 1]]
  BY DEF SegSyn
<1>2. flow[f] \in FlowState
  BY FlowFacts
<1> QED BY <1>1, <1>2 DEF OnlyFlow, FlowState

\* The client may take the flow that has answered its SYN before: a FIN or a reset
\* is on its way.
LEMMA SegSynAnswer ==
  ASSUME EngineTypes, Upload, NEW f \in DOMAIN flow, Segment(f), ~flow[f].closed,
         rl.pkt.kind = "syn", SegSyn(f)
  PROVE  ClientMove
<1>0. rl.pc = "seg" /\ rl.flow = f /\ pc' = pc /\ pc[f] # "flush"
  BY DEF Segment, Held
<1>k. PICK k \in Keys : k = flow[f].key
  BY FlowFacts
<1>1. CASE ~flow[f].synAck
  BY <1>1, NobodyMoves DEF SegSyn, Silent
<1>2. CASE flow[f].synAck
  <2>0. SynAck(f, rl.pkt.inc)
    BY <1>2 DEF SegSyn
  <2>1. ASSUME TunOpen, cl[k].st = "syn", cl[k].inc = rl.pkt.inc
        PROVE  After(k, Len(q), {rl.pkt.inc}) /\ PeerOK(k)'
    <3>1. Reaches(k, f) /\ Hand(k, Kinds) /\ rl.pkt.key = k
      BY <1>0, <1>k, SegmentFacts
    <3>2. Killed(k)
      BY <1>2, <2>1, <3>1 DEF Upload, Left
    <3>3. PICK i \in DOMAIN q : Killer(k, i)
      BY <3>2 DEF Killed, Hand, Killing
    <3>4. SynsIn(k, i + 1, Len(q), {rl.pkt.inc})
      <4> SUFFICES ASSUME NEW j \in i + 1 .. Len(q), q[j].key = k PROVE q[j].inc = rl.pkt.inc
        BY DEF SynsIn
      <4>1. j \in DOMAIN q
        BY QueueFacts
      <4> QED BY <2>1, <3>1, <4>1, LatestInQueue
    <3>5. After(k, Len(q), {rl.pkt.inc})
      BY <3>3, <3>4, QueueFacts DEF After
    <3>6. cl' = [cl EXCEPT ![k].st = "est", ![k].peer = f]
      BY <1>k, <2>0, <2>1 DEF SynAck, Strange
    <3>7. cl'[k].peer = f /\ cl'[k].st = "est" /\ cl'[k].inc = cl[k].inc
      <4>1. 1 <= cl[k].inc /\ f \in Flows
        BY <1>k, FlowFacts, FlowIncs
      <4> QED BY <3>6, <4>1, PeerChanges
    <3>8. f \in DOMAIN flow' /\ flow'[f].key = k /\ flow'[f].synAck /\ pc'[f] # "flush"
          /\ flow'[f].inc = flow[f].inc /\ flow'[f].again = flow[f].again
          /\ flow'[f].pending = flow[f].pending
      BY <1>0, <1>2, <1>k, SegSynDoes DEF OnlyFlow
    <3>9. cl'[k].inc = rl.pkt.inc
      BY <2>1, <3>7
    <3>10. rl.pkt.inc = flow[f].inc => ~Used(f)
      BY <1>k, <3>1 DEF Upload, SynsFirst, Hand
    <3>11. rl.pkt.inc = flow[f].inc => ~flow[f].again /\ flow[f].pending = <<>>
      BY <3>10 DEF Used, Upload, FlowsOK, FlowOK
    <3> QED BY <3>5, <3>7, <3>8, <3>9, <3>11 DEF PeerOK
  <2> QED BY <1>k, <2>0, <2>1, SynAckMoves
<1> QED BY <1>1, <1>2

LEMMA SegSynKeeps ==
  ASSUME EngineTypes, EngineTypes', Upload, NEW f \in DOMAIN flow, Segment(f), ~flow[f].closed,
         rl.pkt.kind = "syn", SegSyn(f)
  PROVE  Upload'
<1>1. /\ rl'.pc \notin Busy /\ rl'.pc # "write" /\ UNCHANGED <<pc, stop, table>>
      /\ rl.pc = "seg" /\ rl.flow = f
  BY DEF Segment, SegSyn, Again, Busy
<1>2. RouteKept
  <2>1. Shrinks
    BY <1>1, SegSynDoes DEF Shrinks, OnlyFlow
  <2> QED BY <1>1, <2>1, RouteDropped DEF Killing
<1>3. FlowOK(f)'
  <2>1. FlowOK(f)
    BY DEF Upload, FlowsOK
  <2>2. flow'[f].at = flow'[f].inc => ~Used(f)
    BY <1>1, SegmentFacts, SegSynDoes DEF Upload, SynsFirst, Hand, OnlyFlow
  <2>3. ~flow'[f].again => Counted(f)'
    <3>1. flow'[f].at = flow'[f].inc => flow'[f].wrote = <<>>
      BY <2>2, SegSynDoes DEF Used
    <3> QED BY <2>1, <3>1, SegSynDoes DEF FlowOK, Counted
  <2>4. Used(f)' <=> Used(f)
    BY SegSynDoes DEF Used
  <2> QED BY <1>1, <2>1, <2>3, <2>4, SegSynDoes DEF FlowOK, HasBackend, OnlyFlow
<1>4. PeerFlow(f)
  <2>1. Len(flow[f].wrote) \in Nat
    BY FlowFacts
  <2> QED BY <1>1, <2>1, SegSynDoes DEF PeerFlow
<1>5. Used(f)' => Used(f)
  BY SegSynDoes DEF Used
<1> QED BY <1>1, <1>2, <1>3, <1>4, <1>5, SegSynAnswer, SegSynDoes, OneGiven

-----------------------------------------------------------------------------
(* Data is kept or written                                                 *)

\* Data in sequence is of the connection of its flow; if something waits, it waits too.
LEMMA InHand ==
  ASSUME EngineTypes, Upload, NEW f \in DOMAIN flow, rl.pc \in {"seg", "write"}, rl.flow = f,
         ~flow[f].closed, rl.pkt.kind = "data", InSequence(f)
  PROVE  /\ rl.pkt.inc = flow[f].inc /\ Arrived \in Segments /\ Arrived.inc = flow[f].inc
         /\ Arrived.n = flow[f].n /\ Hand(flow[f].key, {"data"})
         /\ ~flow[f].again => flow[f].n = Len(flow[f].wrote) + 1
         /\ ~flow[f].again /\ flow[f].pending # <<>> => Kept(f)
<1>1. Hand(flow[f].key, {"data"}) /\ Reaches(flow[f].key, f) /\ flow[f].key \in Keys
  BY SegmentFacts
<1>2. rl.pkt.inc = flow[f].inc
  BY <1>1 DEF Upload, Routed
<1>3. Arrived \in Segments /\ Arrived.inc = flow[f].inc /\ Arrived.n = flow[f].n
      /\ Arrived = [inc |-> flow[f].inc, n |-> flow[f].n]
  BY <1>2, HeldFacts DEF Holding, Arrived, InSequence
<1>4. FlowOK(f)
  BY DEF Upload, FlowsOK
<1>5. ~flow[f].again => flow[f].n = Len(flow[f].wrote) + 1
  BY <1>2, <1>4 DEF FlowOK, Counted, InSequence
<1>6. ASSUME ~flow[f].again, flow[f].pending # <<>> PROVE Kept(f)
  <2> DEFINE p == flow[f].pending
  <2>1. p \in Seq(Segments) /\ Len(p) = 1 /\ p[1].n = 1 /\ flow[f].wrote = <<>>
    BY <1>4, <1>6, FlowFacts DEF FlowOK, Counted
  <2>2. flow[f].n = 1
    BY <1>5, <1>6, <2>1
  <2>3. 1 \in DOMAIN p /\ p[1] \in Segments
    BY <2>1
  <2>4. p[1].inc = flow[f].inc
    BY <1>4, <2>3 DEF FlowOK, OfInc
  <2>5. p[1] = Arrived
    BY <1>3, <2>1, <2>2, <2>3, <2>4 DEF Segments
  <2> QED BY <2>3, <2>5 DEF Kept
<1> QED BY <1>1, <1>2, <1>3, <1>5, <1>6

\* One segment more
LEMMA AppendIs ==
  ASSUME NEW s \in Seq(Segments), NEW a \in Segments
  PROVE  /\ Append(s, a) # <<>> /\ Len(Append(s, a)) = Len(s) + 1 /\ Len(s) \in Nat
         /\ DOMAIN Append(s, a) = 1 .. Len(s) + 1 /\ DOMAIN s = 1 .. Len(s)
         /\ \A i \in DOMAIN s : Append(s, a)[i] = s[i]
         /\ Append(s, a)[Len(s) + 1] = a
  OBVIOUS

LEMMA OfIncAppend ==
  ASSUME NEW s \in Seq(Segments), NEW a \in Segments, NEW c, OfInc(s, c), a.inc = c
  PROVE  OfInc(Append(s, a), c)
<1> SUFFICES ASSUME NEW i \in 1 .. Len(s) + 1 PROVE Append(s, a)[i].inc = c
  BY AppendIs DEF OfInc
<1>1. CASE i = Len(s) + 1
  BY <1>1, AppendIs
<1>2. CASE i # Len(s) + 1
  BY <1>2, AppendIs DEF OfInc
<1> QED BY <1>1, <1>2

LEMMA AgainOnce ==
  ASSUME NEW f, flow'[f].again = (flow[f].again \/ Kept(f))
  PROVE  ~flow'[f].again <=> ~flow[f].again /\ ~Kept(f)
<1> DEFINE a == flow'[f].again
           b == flow[f].again
           c == Kept(f)
<1>1. a = (b \/ c)
  OBVIOUS
<1> HIDE DEF a, b, c
<1>2. ~a <=> ~b /\ ~c
  BY <1>1, Zenon
<1> QED BY <1>2 DEF a, b, c

Keeps(f) ==
  flow' = [flow EXCEPT ![f].pending = Append(@, Arrived), ![f].again = @ \/ Kept(f)]

LEMMA KeepDoes ==
  ASSUME EngineTypes, NEW f \in DOMAIN flow, Keeps(f)
  PROVE  /\ OnlyFlow(f) /\ flow'[f].pending = Append(flow[f].pending, Arrived)
         /\ flow'[f].again = (flow[f].again \/ Kept(f))
         /\ flow'[f].wrote = flow[f].wrote /\ flow'[f].at = flow[f].at
         /\ flow'[f].n = flow[f].n /\ flow'[f].synAck = flow[f].synAck
         /\ flow'[f].closed = flow[f].closed /\ flow'[f].backend = flow[f].backend
<1> DEFINE a == flow[f].again \/ Kept(f)
           p == Append(flow[f].pending, Arrived)
<1>1. flow' = [flow EXCEPT ![f] = [flow[f] EXCEPT !.pending = p, !.again = a]]
  BY DEF Keeps
<1>2. flow[f] \in FlowState
  BY FlowFacts
<1> HIDE DEF a, p
<1>3. flow'[f] = [flow[f] EXCEPT !.pending = p, !.again = a]
  BY <1>1
<1>4. /\ OnlyFlow(f) /\ flow'[f].pending = p /\ flow'[f].again = a
      /\ flow'[f].wrote = flow[f].wrote /\ flow'[f].at = flow[f].at
      /\ flow'[f].n = flow[f].n /\ flow'[f].synAck = flow[f].synAck
      /\ flow'[f].closed = flow[f].closed /\ flow'[f].backend = flow[f].backend
  BY <1>1, <1>2, <1>3 DEF OnlyFlow, FlowState
<1> QED BY <1>4 DEF a, p

LEMMA KeptFlowOK ==
  ASSUME EngineTypes, Upload, NEW f \in DOMAIN flow, rl.pc = "seg", rl.flow = f,
         ~flow[f].closed, rl.pkt.kind = "data", InSequence(f), flow[f].backend = "none",
         Keeps(f), pc' = pc, rl'.pc # "write"
  PROVE  FlowOK(f)' /\ Used(f)'
<1>0. FlowOK(f) /\ flow[f].pending \in Seq(Segments) /\ flow[f].wrote = <<>>
  BY FlowFacts DEF Upload, FlowsOK, FlowOK
<1>p. PICK p \in Seq(Segments) : p = flow[f].pending
  BY <1>0
<1>1. Arrived \in Segments /\ Arrived.inc = flow[f].inc /\ Arrived.n = flow[f].n
  BY InHand
<1>2. OfInc(Append(p, Arrived), flow[f].inc) /\ Append(p, Arrived) # <<>>
  <2>1. OfInc(p, flow[f].inc)
    BY <1>0, <1>p DEF FlowOK
  <2> QED BY <1>1, <2>1, OfIncAppend, AppendIs
<1>d. /\ flow'[f].pending = Append(p, Arrived) /\ flow'[f].wrote = flow[f].wrote
      /\ flow'[f].n = flow[f].n
  BY <1>p, KeepDoes
<1>3. Used(f)'
  BY <1>2, <1>d DEF Used
<1>4. ~flow'[f].again => Counted(f)'
  <2> SUFFICES ASSUME ~flow'[f].again PROVE Counted(f)'
    OBVIOUS
  <2>1. ~flow[f].again /\ ~Kept(f)
    BY KeepDoes, AgainOnce
  <2>2. flow[f].pending = <<>> /\ flow[f].n = 1
    BY <1>0, <2>1, InHand
  <2>3. Len(Append(p, Arrived)) = 1 /\ Append(p, Arrived)[1].n = 1
    BY <1>1, <1>p, <2>2, AppendIs
  <2> QED BY <1>0, <1>d, <2>2, <2>3 DEF Counted
<1>5. OfInc(flow'[f].pending, flow'[f].inc) /\ flow'[f].pending # <<>>
  BY <1>2, <1>d, KeepDoes DEF OnlyFlow
<1>6. HasBackend(f)' => HasBackend(f)
  BY KeepDoes DEF HasBackend
<1> QED BY <1>0, <1>3, <1>4, <1>5, <1>6, KeepDoes DEF FlowOK, OnlyFlow

LEMMA KeepKeeps ==
  ASSUME EngineTypes, EngineTypes', Upload, NEW f \in DOMAIN flow, Segment(f), ~flow[f].closed,
         rl.pkt.kind = "data", SegData(f), InSequence(f), flow[f].backend = "none"
  PROVE  Upload'
<1>1. /\ rl'.pc \notin Busy /\ rl'.pc # "write" /\ UNCHANGED <<pc, stop, cl, q>>
      /\ rl.pc = "seg" /\ rl.flow = f /\ Keep(f)
  BY DEF Segment, SegData, Again, Busy, Silent
<1>2. ClientMove
  BY <1>1, NobodyMoves
<1>3. CASE Len(flow[f].pending) < MaxPending
  <2>0. Keeps(f) /\ table' = table
    BY <1>1, <1>3 DEF Keep, Keeps
  <2>5. OnlyFlow(f) /\ flow'[f].synAck = flow[f].synAck
    BY <2>0, KeepDoes
  <2>1. RouteKept
    <3>1. Shrinks
      BY <2>0, <2>5, KeepDoes DEF Shrinks, OnlyFlow
    <3> QED BY <1>1, <3>1, RouteDropped DEF Killing
  <2>2. FlowOK(f)'
    BY <1>1, <2>0, KeptFlowOK
  <2>3. PeerFlow(f)
    BY DEF PeerFlow, Upload, FlowsOK, FlowOK, HasBackend
  <2>4. Hand(flow[f].key, {"data"}) /\ rl.pkt.inc = flow[f].inc
    BY <1>1, InHand
  <2> QED BY <1>1, <1>2, <2>1, <2>2, <2>3, <2>4, <2>5, OneGiven
<1>4. CASE ~(Len(flow[f].pending) < MaxPending)
  <2>1. Close(f) /\ Unlink(rl.pkt.key) /\ rl.pkt.key \in Keys
    BY <1>1, <1>4, SegmentFacts DEF Keep
  <2>2. QuietFlows
    BY <1>1, <2>1, UnlinkDoes DEF QuietFlows, PcQuiet, TunOpen
  <2> QED BY <1>1, <1>2, <2>2, QuietLoop DEF Killing
<1> QED BY <1>3, <1>4

LEMMA SegmentKeeps ==
  ASSUME EngineTypes, EngineTypes', Upload, NEW f \in DOMAIN flow, Segment(f)
  PROVE  Upload'
<1>1. CASE flow[f].closed
  BY <1>1, SegClosedKeeps
<1>2. CASE ~flow[f].closed
  <2>1. CASE rl.pkt.kind = "syn" /\ SegSyn(f)
    BY <1>2, <2>1, SegSynKeeps
  <2>2. CASE rl.pkt.kind = "data" /\ SegData(f)
    BY <1>2, <2>2, SegDataQuiet, KeepKeeps
  <2>3. CASE rl.pkt.kind = "fin" /\ SegFin(f)
    BY <1>2, <2>3, SegFinKeeps
  <2> QED BY <1>2, <2>1, <2>2, <2>3 DEF Segment
<1> QED BY <1>1, <1>2

LEMMA WrittenFlowOK ==
  ASSUME EngineTypes, Upload, NEW f \in DOMAIN flow, Write(f), ~flow[f].closed,
         rl.pkt.kind = "data", InSequence(f), pc[f] # "flush"
  PROVE  FlowOK(f)'
<1>0. rl.pc = "write" /\ rl.flow = f /\ rl'.pc # "write" /\ pc' = pc
  BY DEF Write, Again
<1>1. /\ FlowOK(f) /\ flow[f].wrote \in Seq(Segments) /\ flow[f].backend # "none"
  BY <1>0, FlowFacts DEF Upload, FlowsOK, FlowOK, HasBackend
<1>2. Arrived \in Segments /\ Arrived.inc = flow[f].inc /\ Arrived.n = flow[f].n
  BY <1>0, InHand
<1>w. PICK w \in Seq(Segments) : w = flow[f].wrote
  BY <1>1
<1>3. OfInc(Append(w, Arrived), flow[f].inc) /\ Append(w, Arrived) # <<>>
  <2>1. OfInc(w, flow[f].inc)
    BY <1>1, <1>w DEF FlowOK
  <2> QED BY <1>2, <2>1, OfIncAppend, AppendIs
<1>4. ~flow'[f].again => Counted(f)'
  <2> SUFFICES ASSUME ~flow'[f].again PROVE Counted(f)'
    OBVIOUS
  <2>1. ~flow[f].again /\ ~Kept(f)
    BY WriteDoes, AgainOnce
  <2>2. flow[f].pending = <<>> /\ flow[f].n = Len(w) + 1
    BY <1>0, <1>w, <2>1, InHand
  <2>3. \A i \in DOMAIN w : w[i].n = i
    BY <1>1, <1>w, <2>1 DEF FlowOK, Counted
  <2>4. ASSUME NEW i \in 1 .. Len(w) + 1 PROVE Append(w, Arrived)[i].n = i
    <3>1. CASE i = Len(w) + 1
      BY <1>2, <2>2, <3>1, AppendIs
    <3>2. CASE i # Len(w) + 1
      BY <1>2, <2>3, <3>2, AppendIs
    <3> QED BY <3>1, <3>2
  <2>5. \A i \in DOMAIN Append(w, Arrived) : Append(w, Arrived)[i].n = i
    BY <1>2, <2>4, AppendIs
  <2>6. flow'[f].n = Len(Append(w, Arrived)) + 1
    BY <1>2, <2>2, AppendIs, WriteDoes
  <2>7. flow'[f].wrote = Append(w, Arrived) /\ flow'[f].pending = <<>>
    BY <1>w, <2>2, WriteDoes
  <2> QED BY <2>5, <2>6, <2>7 DEF Counted
<1>5. OfInc(flow'[f].wrote, flow'[f].inc) /\ flow'[f].wrote # <<>>
  BY <1>3, <1>w, WriteDoes DEF OnlyFlow
<1> QED BY <1>0, <1>1, <1>4, <1>5, WriteDoes DEF FlowOK, HasBackend, OnlyFlow, Used

LEMMA WriteKeeps ==
  ASSUME EngineTypes, EngineTypes', Upload, NEW f \in DOMAIN flow, Write(f) PROVE Upload'
<1>1. /\ rl'.pc \notin Busy /\ rl'.pc # "write" /\ UNCHANGED <<pc, stop, table>>
      /\ rl.pc = "write" /\ rl.flow = f
  BY DEF Write, Again, Busy
<1>2. rl.pkt.kind = "data" /\ ~flow[f].closed /\ InSequence(f) /\ pc[f] # "flush"
  BY <1>1 DEF EngineTypes, LoopTypes, InSequence
<1>3. flow[f].wrote \in Seq(Segments) /\ Len(flow[f].wrote) \in Nat
      /\ Len(flow'[f].wrote) = Len(flow[f].wrote) + 1
  BY SMTT(20), <1>1, <1>2, FlowFacts, WriteDoes, InHand
<1>4. ClientMove
  <2>1. Heard(f, rl.pkt.inc) => flow[f].inc = rl.pkt.inc /\ flow[f].n <= Len(flow'[f].wrote)
    BY <1>1, <1>2, <1>3, PeerCounts DEF InSequence
  <2> QED BY <2>1, AckMoves, FlowFacts DEF Write
<1>5. RouteKept
  <2>1. Shrinks
    BY <1>1, WriteDoes DEF Shrinks, OnlyFlow
  <2> QED BY <1>1, <1>2, <2>1, RouteDropped DEF Killing
<1>6. PeerFlow(f)
  <2>1. flow[f].pending = <<>> => ~Kept(f)
    BY DEF Kept
  <2>2. ~flow'[f].again <=> ~flow[f].again /\ ~Kept(f)
    BY WriteDoes, AgainOnce
  <2>3. flow'[f].synAck = flow[f].synAck /\ flow'[f].pending = flow[f].pending
    BY WriteDoes
  <2> QED BY <1>1, <1>3, <2>1, <2>2, <2>3 DEF PeerFlow
<1>7. Hand(flow[f].key, {"data"}) /\ rl.pkt.inc = flow[f].inc
  BY <1>1, <1>2, InHand
<1> QED BY <1>1, <1>2, <1>4, <1>5, <1>6, <1>7, WrittenFlowOK, WriteDoes, OneGiven

-----------------------------------------------------------------------------
(* A flow gets its backend and answers its client                          *)

LEMMA DialledKeeps ==
  ASSUME EngineTypes, EngineTypes', Upload, NEW f \in DOMAIN flow, Dialled(f) PROVE Upload'
<1>0. ClientMove /\ rl' = rl /\ stop' = stop /\ table' = table /\ pc[f] = "dial"
  BY NobodyMoves DEF Dialled
<1>1. CASE flow[f].closed
  <2>1. flow' = flow /\ Move(f, "remove")
    BY <1>1 DEF Dialled
  <2>2. QuietFlows
    BY <1>0, <2>1, MoveQuiet DEF Stages
  <2> QED BY <1>0, <2>2, QuietSide
<1>2. CASE ~flow[f].closed
  <2>1. flow' = [flow EXCEPT ![f] = [flow[f] EXCEPT !.backend = "open"]] /\ Move(f, "complete")
    BY <1>2 DEF Dialled
  <2>2. OnlyMove(f) /\ pc'[f] = "complete"
    BY <2>1, MoveDoes
  <2>3. /\ OnlyFlow(f) /\ flow'[f].backend = "open"
        /\ flow'[f].wrote = flow[f].wrote /\ flow'[f].pending = flow[f].pending
        /\ flow'[f].again = flow[f].again /\ flow'[f].synAck = flow[f].synAck
        /\ flow'[f].closed = flow[f].closed /\ flow'[f].at = flow[f].at
        /\ flow'[f].n = flow[f].n
    BY <2>1, FlowFacts DEF OnlyFlow, FlowState
  <2>4. Shrinks
    BY <1>0, <2>3 DEF Shrinks, OnlyFlow
  <2>5. FlowQuiet(f)
    BY <1>0, <2>2, <2>3 DEF FlowQuiet, OnlyFlow, Early
  <2>6. \A g \in DOMAIN flow : g # f => FlowQuiet(g)
    BY <1>0, <2>2, <2>3, FlowFacts DEF FlowQuiet, OnlyFlow, OnlyMove
  <2> QED BY <1>0, <2>4, <2>5, <2>6, RouteSame, QuietKept DEF FlowsQuiet, TunOpen
<1> QED BY <1>1, <1>2

LEMMA CompleteDoes ==
  ASSUME EngineTypes, NEW f \in DOMAIN flow, Complete(f), ~flow[f].closed
  PROVE  /\ OnlyFlow(f) /\ flow'[f].synAck
         /\ flow'[f].wrote = flow[f].wrote /\ flow'[f].pending = flow[f].pending
         /\ flow'[f].again = flow[f].again /\ flow'[f].closed = flow[f].closed
         /\ flow'[f].at = flow[f].at /\ flow'[f].n = flow[f].n
         /\ flow'[f].backend = flow[f].backend
         /\ OnlyMove(f) /\ pc'[f] = (IF flow[f].pending = <<>> THEN "pump" ELSE "flush")
<1>1. flow' = [flow EXCEPT ![f] = [flow[f] EXCEPT !.synAck = TRUE]]
  BY DEF Complete
<1>2. OnlyMove(f) /\ pc'[f] = (IF flow[f].pending = <<>> THEN "pump" ELSE "flush")
  BY MoveDoes DEF Complete
<1> QED BY <1>1, <1>2, FlowFacts DEF OnlyFlow, FlowState

\* The client that takes the answer is on the connection of the flow, and what waits
\* or is in hand of this key comes after it.
LEMMA CompleteAnswer ==
  ASSUME EngineTypes, Upload, NEW f \in DOMAIN flow, Complete(f), ~flow[f].closed,
         NEW k \in Keys, k = flow[f].key
  PROVE  ClientMove /\ (TunOpen => cl'[k].st \in {"est", "fin"} \/ Pushes(k, Killing))
<1>0. SynAck(f, flow[f].inc)
  BY DEF Complete
<1> DEFINE inc == flow[f].inc
<1>1. ASSUME TunOpen, cl[k].st = "syn", cl[k].inc = inc
      PROVE  After(k, Len(q), {inc}) /\ (cl'[k].peer = f /\ cl'[k].inc = inc => PeerOK(k)')
  <2>0. inc \in Nat
    BY FlowFacts
  <2>1. SynsIn(k, 1, Len(q), {inc})
    <3> SUFFICES ASSUME NEW j \in DOMAIN q, q[j].key = k PROVE q[j].inc = inc
      BY QueueFacts DEF SynsIn
    <3>1. inc <= q[j].inc
      BY DEF Upload, Ordered
    <3>2. q[j].inc <= cl[k].inc
      BY DEF EngineTypes, QueueTypes, Sent
    <3>3. q[j].inc \in Nat
      BY QueueFacts, PacketFacts
    <3> QED BY <1>1, <2>0, <3>1, <3>2, <3>3
  <2>2. Hand(k, {"syn"}) => rl.pkt.inc = inc
    <3> SUFFICES ASSUME Hand(k, {"syn"}) PROVE rl.pkt.inc = inc
      OBVIOUS
    <3>1. rl.pc \in Busy /\ rl.pkt.key = k /\ Hand(k, Kinds)
      BY DEF Hand, Kinds
    <3>2. rl.pkt.inc \in Nat /\ rl.pkt.inc <= inc
      BY <1>1, <3>1, HandFacts
    <3>3. inc <= rl.pkt.inc
      BY <3>1 DEF Upload, Ordered
    <3> QED BY <2>0, <3>2, <3>3
  <2>3. ASSUME NEW g \in DOMAIN flow, Reaches(k, g) PROVE flow[g].inc = inc
    <3>1. inc <= flow[g].inc
      BY <2>3 DEF Upload, Ordered
    <3>2. flow[g].inc \in Nat /\ flow[g].inc <= inc
      BY <1>1, <2>3, FlowFacts DEF Reaches
    <3> QED BY <2>0, <3>1, <3>2
  <2>4. After(k, Len(q), {inc})
    BY <2>1, <2>2, <2>3 DEF After, Fresh
  <2>5. flow[f].pending = <<>> /\ ~flow[f].again
    <3>1. ~Used(f)
      BY <1>1 DEF Upload, SynsFirst, Connecting
    <3> QED BY <3>1 DEF Used, Upload, FlowsOK, FlowOK
  <2>6. cl' = [cl EXCEPT ![k].st = "est", ![k].peer = f]
    BY <1>0, <1>1 DEF SynAck, Strange
  <2>7. cl'[k].st = "est"
    <3>1. 1 <= cl[k].inc /\ f \in Flows
      BY FlowFacts, FlowIncs
    <3> QED BY <2>6, <3>1, PeerChanges
  <2>8. f \in DOMAIN flow' /\ flow'[f].key = k /\ flow'[f].synAck /\ pc'[f] # "flush"
        /\ ~flow'[f].again /\ flow'[f].pending = <<>>
    BY <2>5, CompleteDoes DEF OnlyFlow
  <2> QED BY <2>4, <2>7, <2>8 DEF PeerOK
<1> QED BY <1>0, <1>1, SynAckMoves

LEMMA CompleteKeeps ==
  ASSUME EngineTypes, EngineTypes', Upload, NEW f \in DOMAIN flow, Complete(f) PROVE Upload'
<1>0. rl' = rl /\ stop' = stop /\ table' = table /\ pc[f] = "complete"
  BY DEF Complete
<1>1. CASE flow[f].closed
  <2>1. ClientMove /\ flow' = flow /\ Move(f, "pump")
    BY <1>1, NobodyMoves DEF Complete, Silent
  <2>2. QuietFlows
    BY <1>0, <2>1, MoveQuiet DEF Stages
  <2> QED BY <1>0, <2>1, <2>2, QuietSide
<1>2. CASE ~flow[f].closed
  <2>k. PICK k \in Keys : k = flow[f].key
    BY FlowFacts
  <2>1. ClientMove /\ (TunOpen => cl'[k].st \in {"est", "fin"} \/ Pushes(k, Killing))
    BY <1>2, <2>k, CompleteAnswer
  <2>2. RouteKept
    <3>1. Shrinks
      BY <1>0, <1>2, CompleteDoes DEF Shrinks, OnlyFlow
    <3> QED BY <1>0, <3>1, RouteSame
  <2>3. FlowOK(f) /\ ~flow[f].synAck /\ flow[f].backend # "none"
    BY <1>0 DEF Upload, FlowsOK, FlowOK, Early, HasBackend
  <2>4. FlowOK(f)'
    <3>1. Counted(f) => Counted(f)'
      BY <1>2, CompleteDoes DEF Counted, OnlyFlow
    <3>2. Used(f)' <=> Used(f)
      BY <1>2, CompleteDoes DEF Used
    <3>3. pc'[f] \notin Early /\ (pc'[f] = "flush" => flow[f].pending # <<>>)
      BY <1>2, CompleteDoes DEF Early
    <3> QED BY <1>2, <2>3, <3>1, <3>2, <3>3, CompleteDoes DEF FlowOK, OnlyFlow
  <2>5. PeerFlow(f)
    BY <2>3 DEF PeerFlow
  <2>6. Used(f)' => Used(f)
    BY <1>2, CompleteDoes DEF Used
  <2>7. OnlyFlow(f) /\ \A g \in DOMAIN flow : g # f => pc'[g] = pc[g]
    BY <1>2, CompleteDoes, FlowFacts DEF OnlyMove
  <2> QED BY <1>0, <2>k, <2>1, <2>2, <2>4, <2>5, <2>6, <2>7, OneGiven
<1> QED BY <1>1, <1>2

LEMMA FlushDoes ==
  ASSUME EngineTypes, NEW f \in DOMAIN flow, Flush(f)
  PROVE  /\ OnlyFlow(f) /\ flow'[f].wrote = flow[f].wrote \o flow[f].pending
         /\ flow'[f].n = flow[f].n + Len(flow[f].pending) /\ flow'[f].pending = <<>>
         /\ flow'[f].again = flow[f].again /\ flow'[f].closed = flow[f].closed
         /\ flow'[f].at = flow[f].at /\ flow'[f].synAck = flow[f].synAck
         /\ flow'[f].backend = flow[f].backend
         /\ OnlyMove(f) /\ pc'[f] = "pump"
<1> DEFINE w == flow[f].wrote \o flow[f].pending
           m == flow[f].n + Len(flow[f].pending)
<1>1. flow' = [flow EXCEPT ![f] = [flow[f] EXCEPT !.wrote = w, !.n = m, !.pending = <<>>]]
  BY DEF Flush
<1>2. flow[f] \in FlowState
  BY FlowFacts
<1> HIDE DEF w, m
<1>3. /\ OnlyFlow(f) /\ flow'[f].wrote = w
      /\ flow'[f].n = m /\ flow'[f].pending = <<>>
      /\ flow'[f].again = flow[f].again /\ flow'[f].closed = flow[f].closed
      /\ flow'[f].at = flow[f].at /\ flow'[f].synAck = flow[f].synAck
      /\ flow'[f].backend = flow[f].backend
  BY <1>1, <1>2 DEF OnlyFlow, FlowState
<1>4. OnlyMove(f) /\ pc'[f] = "pump"
  BY MoveDoes DEF Flush
<1> QED BY <1>3, <1>4 DEF w, m

\* What is flushed comes after what was written, and is one segment unless something
\* was kept again.
LEMMA FlushedFlowOK ==
  ASSUME EngineTypes, Upload, NEW f \in DOMAIN flow, Flush(f)
  PROVE  FlowOK(f)' /\ Len(flow[f].wrote) <= Len(flow'[f].wrote)
<1>1. FlowOK(f) /\ flow[f].pending # <<>> /\ flow[f].backend # "none"
  BY DEF Flush, Upload, FlowsOK, FlowOK, HasBackend
<1>w. PICK w \in Seq(Segments) : w = flow[f].wrote
  BY FlowFacts
<1>p. PICK p \in Seq(Segments) : p = flow[f].pending
  BY FlowFacts
<1>c. PICK c \in Nat : c = flow[f].inc
  BY FlowFacts
<1>2. OfInc(w, c) /\ OfInc(p, c)
  BY <1>1, <1>w, <1>p, <1>c DEF FlowOK
<1>3. OfInc(w \o p, c)
  <2> SUFFICES ASSUME NEW i \in 1 .. Len(w) + Len(p) PROVE (w \o p)[i].inc = c
    BY DEF OfInc
  <2>1. CASE i <= Len(w)
    BY <1>2, <2>1 DEF OfInc
  <2>2. CASE Len(w) < i
    <3>1. i - Len(w) \in DOMAIN p /\ (w \o p)[i] = p[i - Len(w)]
      BY <2>2
    <3> QED BY <1>2, <3>1 DEF OfInc
  <2> QED BY <2>1, <2>2
<1>4. Len(w \o p) = Len(w) + Len(p) /\ Len(p) > 0 /\ Len(w) \in Nat /\ Len(p) \in Nat
  BY <1>1, <1>p
<1>5. flow'[f].wrote = w \o p /\ flow'[f].pending = <<>> /\ flow'[f].inc = c
  BY <1>w, <1>p, <1>c, FlushDoes DEF OnlyFlow
<1>6. ~flow'[f].again => Counted(f)'
  <2> SUFFICES ASSUME ~flow[f].again PROVE Counted(f)'
    BY FlushDoes
  <2>1. w = <<>> /\ Len(p) = 1 /\ p[1].n = 1
    BY <1>1, <1>w, <1>p DEF FlowOK, Counted
  <2>2. w \o p = p
    BY <2>1
  <2>3. \A i \in DOMAIN p : p[i].n = i
    BY <2>1
  <2>4. ~flow[f].closed /\ flow[f].at = c => flow[f].n = 1
    BY <1>1, <1>w, <1>c, <2>1 DEF FlowOK, Counted
  <2>5. ~flow'[f].closed /\ flow'[f].at = c => flow'[f].n = Len(p) + 1
    BY <1>p, <2>1, <2>4, FlushDoes
  <2> QED BY <1>5, <2>2, <2>3, <2>5 DEF Counted
<1>7. Used(f)'
  BY <1>4, <1>5 DEF Used
<1>8. flow'[f].backend # "none" /\ pc'[f] \notin Early \cup {"flush"}
  BY <1>1, FlushDoes DEF Early
<1>9. OfInc(flow'[f].wrote, flow'[f].inc) /\ OfInc(flow'[f].pending, flow'[f].inc)
  BY <1>3, <1>5 DEF OfInc
<1>10. Len(flow[f].wrote) <= Len(flow'[f].wrote)
  BY <1>w, <1>4, <1>5
<1> QED BY <1>6, <1>7, <1>8, <1>9, <1>10 DEF FlowOK

LEMMA FlushKeeps ==
  ASSUME EngineTypes, EngineTypes', Upload, NEW f \in DOMAIN flow, Flush(f) PROVE Upload'
<1>0. rl' = rl /\ stop' = stop /\ table' = table /\ pc[f] = "flush"
  BY DEF Flush
<1>1. flow[f].pending # <<>> /\ ~Heard(f, flow[f].at)
  <2>1. flow[f].pending # <<>>
    BY <1>0 DEF Upload, FlowsOK, FlowOK
  <2>2. ASSUME Heard(f, flow[f].at) PROVE FALSE
    <3>1. flow[f].key \in Keys /\ cl[flow[f].key].peer = f /\ f # NoFlow
      BY <2>2, FlowFacts DEF Heard
    <3> QED BY <1>0, <3>1 DEF Upload, PeersOK, PeerOK
  <2> QED BY <2>1, <2>2
<1>2. ClientMove
  <2>1. flow[f].n + Len(flow[f].pending) - 1 \in Nat
    BY FlowFacts, EngineNumbers
  <2> QED BY <1>1, <2>1, AckMoves DEF Flush
<1>3. RouteKept
  <2>1. Shrinks
    BY <1>0, FlushDoes DEF Shrinks, OnlyFlow
  <2> QED BY <1>0, <2>1, RouteSame
<1>4. PeerFlow(f)
  BY <1>1, FlushDoes, FlushedFlowOK DEF PeerFlow
<1>5. Used(f)
  BY <1>1 DEF Used
<1>6. OnlyFlow(f) /\ (flow'[f].synAck => flow[f].synAck)
      /\ \A g \in DOMAIN flow : g # f => pc'[g] = pc[g]
  BY FlushDoes, FlowFacts DEF OnlyMove
<1> QED BY <1>0, <1>2, <1>3, <1>4, <1>5, <1>6, FlushedFlowOK, OneGiven

-----------------------------------------------------------------------------
(* readLoop takes a packet                                                 *)

Taken == rl'.pc \in {"insert", "find"} /\ rl'.pkt = q[1]
Popped ==
  /\ q' \in Seq(Packets) /\ Len(q) \in Nat /\ Len(q) >= 1 /\ Len(q') = Len(q) - 1
  /\ DOMAIN q = 1 .. Len(q) /\ DOMAIN q' = 1 .. Len(q) - 1
  /\ \A i \in DOMAIN q' : q'[i] = q[i + 1]
  /\ UNCHANGED <<table, flow, pc, stop, cl>>
  /\ rl.pc = "read" /\ rl'.pc \notin {"seg", "write"}
  /\ Taken \/ (q[1].kind = "syn" /\ rl'.pc \notin Busy)

LEMMA ReadPops == ASSUME EngineTypes, ReadPacket PROVE Popped
<1>1. /\ rl.pc = "read" /\ q # <<>> /\ q' = Tail(q)
      /\ UNCHANGED <<table, flow, pc, stop, cl>>
  BY DEF ReadPacket
<1>2. /\ Head(q) = q[1] /\ DOMAIN q' = 1 .. Len(q) - 1 /\ Len(q') = Len(q) - 1 /\ Len(q) >= 1
      /\ q' \in Seq(Packets) /\ \A i \in DOMAIN q' : q'[i] = q[i + 1]
  BY <1>1, TailIs
<1>3. (Taken \/ (q[1].kind = "syn" /\ rl'.pc \notin Busy)) /\ rl'.pc \notin {"seg", "write"}
  BY <1>2 DEF ReadPacket, Again, Taken, Busy
<1> QED BY <1>1, <1>2, <1>3, QueueFacts DEF Popped

\* There was nothing in hand, and readLoop would find the same flows.
LEMMA PoppedHand ==
  ASSUME Popped, NEW k, NEW kinds
  PROVE  /\ ~Hand(k, kinds)
         /\ Hand(k, kinds)' => Taken /\ q[1].key = k /\ q[1].kind \in kinds
         /\ q[1].key = k /\ q[1].kind \in kinds /\ q[1].kind # "syn" => Hand(k, kinds)'
  BY DEF Popped, Hand, Taken, Busy

LEMMA PoppedReach ==
  ASSUME Popped, NEW k, NEW f
  PROVE  Reaches(k, f)' <=> Reaches(k, f)
  BY DEF Popped, Reaches

LEMMA PoppedSyns ==
  ASSUME Popped, NEW k, NEW S, NEW a \in Nat, NEW m \in 1 .. Len(q), SynsIn(k, a + 1, m, S)
  PROVE  SynsIn(k, a, m - 1, S)' \/ a = 0
<1> SUFFICES ASSUME a # 0, NEW j \in a .. m - 1, q'[j].key = k, q'[j].kind = "syn"
             PROVE  q'[j].inc \in S
  BY DEF SynsIn
<1>1. j \in DOMAIN q' /\ j + 1 \in a + 1 .. m
  BY DEF Popped
<1>2. q'[j] = q[j + 1]
  BY <1>1 DEF Popped
<1> QED BY <1>1, <1>2 DEF SynsIn

LEMMA PoppedKiller ==
  ASSUME Popped, NEW k, NEW j \in 1 .. Len(q), Killer(k, j)
  PROVE  \/ j = 1 /\ Hand(k, Killing)'
         \/ j > 1 /\ j - 1 \in DOMAIN q' /\ Killer(k, j - 1)'
<1>1. CASE j = 1
  <2>1. q[1].key = k /\ q[1].kind \in Killing /\ q[1].kind # "syn"
    BY <1>1 DEF Killer, Killing
  <2> QED BY <1>1, <2>1, PoppedHand
<1>2. CASE j # 1
  <2>1. j > 1 /\ j - 1 \in DOMAIN q' /\ q'[j - 1] = q[j]
    BY <1>2 DEF Popped
  <2> QED BY <2>1 DEF Killer
<1> QED BY <1>1, <1>2

LEMMA PoppedAfter ==
  ASSUME Popped, NEW k, NEW S, NEW m \in 1 .. Len(q), After(k, m, S)
  PROVE  After(k, m - 1, S)'
<1>0. Len(q) \in Nat /\ m \in Nat /\ m - 1 \in Nat
  BY DEF Popped
<1>1. ASSUME NEW j \in 1 .. m, Killer(k, j), SynsIn(k, j + 1, m, S)
      PROVE  After(k, m - 1, S)'
  <2>0. j \in 1 .. Len(q) /\ j \in Nat
    BY <1>0
  <2>s. SynsIn(k, j, m - 1, S)'
    BY <1>1, <2>0, PoppedSyns
  <2>1. CASE j = 1 /\ Hand(k, Killing)'
    BY <2>1, <2>s DEF After, Fresh
  <2>2. CASE j > 1 /\ Killer(k, j - 1)'
    <3>1. PICK i \in 1 .. m - 1 : i = j - 1
      BY <1>0, <2>0, <2>2
    <3>2. Killer(k, i)' /\ i + 1 = j
      BY <2>0, <2>2, <3>1
    <3>3. SynsIn(k, i + 1, m - 1, S)'
      BY <2>s, <3>2
    <3> QED BY <3>2, <3>3 DEF After
  <2> QED BY <1>1, <2>0, <2>1, <2>2, PoppedKiller
<1>2. ASSUME SynsIn(k, 1, m, S), Fresh(k, S) PROVE After(k, m - 1, S)'
  <2>1. SynsIn(k, 1, m - 1, S)'
    <3>1. SynsIn(k, 1 + 1, m, S)
      BY <1>2 DEF SynsIn
    <3> QED BY <3>1, PoppedSyns
  <2>2. \A f \in DOMAIN flow : Reaches(k, f) => flow[f].inc \in S
    BY <1>2, PoppedHand DEF Fresh
  <2>3. Hand(k, {"syn"})' => rl'.pkt.inc \in S
    <3>1. q[1].key = k /\ q[1].kind = "syn" => q[1].inc \in S
      BY <1>0, <1>2 DEF SynsIn
    <3> QED BY <3>1, PoppedHand DEF Taken
  <2>4. \A f \in DOMAIN flow' : Reaches(k, f)' => flow'[f].inc \in S
    BY <2>2, PoppedReach DEF Popped
  <2>5. Fresh(k, S)'
    BY <2>3, <2>4 DEF Fresh
  <2> QED BY <2>1, <2>5 DEF After
<1> QED BY <1>1, <1>2 DEF After

LEMMA PoppedRouted == ASSUME EngineTypes, Popped, Routed PROVE Routed'
<1>0. Len(q) \in Nat /\ Len(q) >= 1 /\ Len(q') = Len(q) - 1
  BY DEF Popped
<1>1. ASSUME NEW i \in DOMAIN q', q'[i].kind = "data", NEW k, k = q'[i].key,
             NEW c, c = q'[i].inc
      PROVE  After(k, i - 1, {c})'
  <2>1. i \in 1 .. Len(q) /\ i + 1 \in DOMAIN q /\ q'[i] = q[i + 1] /\ (i + 1) - 1 = i
    BY DEF Popped
  <2>2. After(q[i + 1].key, (i + 1) - 1, {q[i + 1].inc})
    BY <1>1, <2>1 DEF Routed
  <2>3. After(k, i, {c})
    BY <1>1, <2>1, <2>2
  <2> QED BY <2>1, <2>3, PoppedAfter
<1>2. ASSUME NEW k \in Keys, NEW f \in DOMAIN flow', Hand(k, {"data"})', Reaches(k, f)'
      PROVE  flow'[f].inc = rl'.pkt.inc
  <2>1. rl'.pkt = q[1] /\ q[1].key = k /\ q[1].kind = "data" /\ 1 \in DOMAIN q
    BY <1>0, <1>2, PoppedHand, QueueFacts DEF Taken
  <2>2. After(k, 1 - 1, {q[1].inc})
    BY <2>1 DEF Routed
  <2>3. Fresh(k, {q[1].inc})
    BY <2>2 DEF After
  <2>4. f \in DOMAIN flow /\ Reaches(k, f) /\ flow' = flow
    BY <1>2, PoppedReach DEF Popped
  <2> QED BY <2>1, <2>3, <2>4, PoppedHand DEF Fresh
<1>3. ASSUME NEW k, NEW S, After(k, Len(q), S) PROVE After(k, Len(q), S)'
  <2>1. PICK m \in 1 .. Len(q) : m = Len(q)
    BY <1>0
  <2>2. After(k, m - 1, S)'
    BY <1>3, <2>1, PoppedAfter
  <2>3. m - 1 = Len(q')
    BY <1>0, <2>1
  <2> QED BY <2>2, <2>3
<1>4. cl' = cl
  BY DEF Popped
<1>5. \A k \in Keys : cl'[k].st = "est" => After(k, Len(q), {cl[k].inc})'
  <2> SUFFICES ASSUME NEW k \in Keys, cl[k].st = "est", NEW c, c = cl[k].inc
               PROVE  After(k, Len(q), {c})'
    BY <1>4
  <2> QED BY <1>3 DEF Routed
<1>6. \A k \in Keys : cl'[k].st = "fin" => After(k, Len(q), {})'
  BY <1>3, <1>4 DEF Routed
<1> QED BY <1>1, <1>2, <1>5, <1>6 DEF Routed

LEMMA PoppedOrdered == ASSUME EngineTypes, Popped, Ordered PROVE Ordered'
<1>0. 1 \in DOMAIN q /\ \A i \in DOMAIN q' : i \in Nat /\ i + 1 \in DOMAIN q /\ q'[i] = q[i + 1]
                                             /\ 1 < i + 1 /\ flow' = flow
  BY DEF Popped
<1>1. ASSUME NEW i \in DOMAIN q', NEW j \in DOMAIN q', i < j, q'[i].key = q'[j].key
      PROVE  q'[i].inc <= q'[j].inc
  <2>1. i + 1 < j + 1
    BY <1>0, <1>1
  <2> QED BY <1>0, <1>1, <2>1 DEF Ordered
<1>2. ASSUME NEW i \in DOMAIN q', NEW k, k = q'[i].key, Hand(k, Kinds)'
      PROVE  rl'.pkt.inc <= q'[i].inc
  <2>1. rl'.pkt = q[1] /\ q[1].key = k
    BY <1>2, PoppedHand DEF Taken
  <2> QED BY <1>0, <1>2, <2>1 DEF Ordered
<1>3. ASSUME NEW f \in DOMAIN flow', NEW i \in DOMAIN q', q'[i].key = flow'[f].key
      PROVE  flow'[f].inc <= q'[i].inc
  BY <1>0, <1>3 DEF Ordered
<1>4. ASSUME NEW f \in DOMAIN flow', NEW k, k = flow'[f].key, Hand(k, Kinds)'
      PROVE  flow'[f].inc <= rl'.pkt.inc
  <2>1. rl'.pkt = q[1] /\ q[1].key = k /\ flow' = flow
    BY <1>4, PoppedHand DEF Taken, Popped
  <2> QED BY <1>0, <1>4, <2>1 DEF Ordered
<1>5. ASSUME NEW f \in DOMAIN flow', NEW g \in DOMAIN flow', NEW k, k = flow'[f].key,
             Reaches(k, g)'
      PROVE  flow'[f].inc <= flow'[g].inc
  <2>1. flow' = flow /\ Reaches(k, g)
    BY <1>5, PoppedReach DEF Popped
  <2> QED BY <1>5, <2>1 DEF Ordered
<1> QED BY <1>1, <1>2, <1>3, <1>4, <1>5 DEF Ordered

LEMMA PoppedLeft == ASSUME EngineTypes, Popped, Left PROVE Left'
<1> SUFFICES ASSUME TunOpen', NEW k \in Keys, NEW f \in DOMAIN flow',
                    cl'[k].st \in {"closed", "syn"}, Reaches(k, f)', flow'[f].synAck
             PROVE  Killed(k)'
  BY DEF Left
<1>1. Killed(k)
  BY PoppedReach DEF Left, Popped, TunOpen
<1>2. PICK j \in 1 .. Len(q) : Killer(k, j)
  BY <1>1, PoppedHand, QueueFacts DEF Killed
<1>3. CASE Hand(k, Killing)'
  BY <1>3 DEF Killed
<1>4. CASE j > 1 /\ j - 1 \in DOMAIN q' /\ Killer(k, j - 1)'
  <2>1. PICK i \in DOMAIN q' : i = j - 1
    BY <1>4
  <2> QED BY <1>4, <2>1 DEF Killed
<1> QED BY <1>2, <1>3, <1>4, PoppedKiller

LEMMA PoppedNoSyn ==
  ASSUME EngineTypes, Popped, NEW k, NEW c, NEW m \in Nat, NoSyn(k, c, m + 1)
  PROVE  NoSyn(k, c, m)'
<1> SUFFICES ASSUME NEW j \in DOMAIN q', j > m, q'[j].key = k, q'[j].kind = "syn"
             PROVE  q'[j].inc # c
  BY DEF NoSyn
<1>1. j + 1 \in DOMAIN q /\ j + 1 > m + 1 /\ q'[j] = q[j + 1]
  BY DEF Popped
<1> QED BY <1>1 DEF NoSyn

LEMMA PoppedSynsFirst == ASSUME EngineTypes, Popped, SynsFirst PROVE SynsFirst'
<1>0. flow' = flow /\ cl' = cl /\ 1 \in DOMAIN q
  BY DEF Popped
<1>1. ASSUME NEW f \in DOMAIN flow', Used(f)', NEW k, k = flow'[f].key,
             NEW c, c = flow'[f].inc
      PROVE  NoSyn(k, c, 0)' /\ ~Connecting(k, c)' /\ (Hand(k, {"syn"})' => rl'.pkt.inc # c)
  <2>1. NoSyn(k, c, 0) /\ ~Connecting(k, c)
    BY <1>0, <1>1 DEF SynsFirst, Used
  <2>2. NoSyn(k, c, 0 + 1)
    BY <2>1, QueueFacts DEF NoSyn
  <2>3. NoSyn(k, c, 0)'
    BY <2>2, PoppedNoSyn
  <2>4. q[1].key = k /\ q[1].kind = "syn" => q[1].inc # c
    BY <1>0, <2>1 DEF NoSyn
  <2> QED BY <1>0, <2>1, <2>3, <2>4, PoppedHand DEF Connecting, Taken
<1>2. ASSUME NEW k \in Keys, Hand(k, {"data"})', NEW c, c = rl'.pkt.inc
      PROVE  NoSyn(k, c, 0)' /\ ~Connecting(k, c)'
  <2>1. rl'.pkt = q[1] /\ q[1].key = k /\ q[1].kind = "data"
    BY <1>2, PoppedHand DEF Taken
  <2>2. NoSyn(k, c, 0 + 1) /\ ~Connecting(k, c)
    BY <1>0, <1>2, <2>1 DEF SynsFirst
  <2> QED BY <1>0, <2>2, PoppedNoSyn DEF Connecting
<1>3. ASSUME NEW i \in DOMAIN q', q'[i].kind = "data", NEW k, k = q'[i].key,
             NEW c, c = q'[i].inc
      PROVE  NoSyn(k, c, i)' /\ ~Connecting(k, c)'
  <2>1. i \in Nat /\ i + 1 \in DOMAIN q /\ q'[i] = q[i + 1]
    BY DEF Popped
  <2>2. NoSyn(k, c, i + 1) /\ ~Connecting(k, c)
    BY <1>3, <2>1 DEF SynsFirst
  <2> QED BY <1>0, <2>1, <2>2, PoppedNoSyn DEF Connecting
<1> QED BY <1>1, <1>2, <1>3 DEF SynsFirst

LEMMA ReadKeeps == ASSUME EngineTypes, EngineTypes', Upload, ReadPacket PROVE Upload'
<1>1. Popped
  BY ReadPops
<1>2. \A g \in DOMAIN flow : FlowQuiet(g)
  BY <1>1 DEF Popped, FlowQuiet
<1>3. FlowsOK'
  BY <1>1, <1>2, QuietFlowOK DEF Upload, FlowsOK, Popped
<1>4. PeerFlows
  BY <1>1, <1>2, QuietPeerFlow DEF Upload, PeerFlows, Popped
<1>5. \A k \in Keys : SocketPeer(k)
  BY <1>1, SocketRests DEF Popped
<1>6. PeersOK' /\ AckedWasWritten'
  BY <1>4, <1>5, PeersKept DEF Upload
<1> QED BY <1>1, <1>3, <1>6, PoppedOrdered, PoppedRouted, PoppedLeft, PoppedSynsFirst DEF Upload

-----------------------------------------------------------------------------
(* A SYN makes a flow                                                      *)

Made(f) ==
  /\ rl.pc = "insert" /\ rl.pkt.kind = "syn" /\ rl'.pc = "top"
  /\ f \in Flows /\ f \notin DOMAIN flow /\ f # NoFlow
  /\ DOMAIN flow' = DOMAIN flow \cup {f} /\ flow'[f] = NewFlow(rl.pkt)
  /\ flow'[f].key = rl.pkt.key /\ flow'[f].inc = rl.pkt.inc
  /\ \A g \in DOMAIN flow : flow'[g] = flow[g] /\ pc'[g] = pc[g]
  /\ \A k \in Keys : table'[k] = IF k = rl.pkt.key THEN f ELSE table[k]
  /\ table[rl.pkt.key] = NoFlow /\ pc'[f] = "dial"
  /\ UNCHANGED <<stop, cl, q>>

LEMMA InsertMakes ==
  ASSUME EngineTypes, Insert, table[rl.pkt.key] = NoFlow
  PROVE  \E f \in Flows : Made(f)
<1>1. PICK f \in Flows :
           /\ f \notin DOMAIN flow /\ f # NoFlow
           /\ DOMAIN flow' = DOMAIN flow \cup {f} /\ flow'[f] = NewFlow(rl.pkt)
           /\ \A g \in DOMAIN flow : flow'[g] = flow[g]
           /\ table' = [table EXCEPT ![rl.pkt.key] = f]
           /\ pc' = [pc EXCEPT ![f] = "dial"]
           /\ Again /\ UNCHANGED <<bridge, stop, doomed, cl, q>>
  BY InsertDoes
<1>2. rl.pc = "insert" /\ rl.pc \in Busy
  BY DEF Insert, Busy
<1>3. rl.pkt.kind = "syn" /\ rl.pkt \in Packets
  BY <1>2, HandFacts DEF EngineTypes, LoopTypes
<1>4. flow'[f].key = rl.pkt.key /\ flow'[f].inc = rl.pkt.inc
  BY <1>1, <1>3, NewFlowIs
<1>5. \A k \in Keys : table'[k] = IF k = rl.pkt.key THEN f ELSE table[k]
  BY <1>1 DEF EngineTypes, TableTypes
<1>6. pc'[f] = "dial" /\ \A g \in DOMAIN flow : pc'[g] = pc[g]
  BY <1>1, FlowFacts DEF EngineTypes, FlowsTypes
<1> QED BY <1>1, <1>2, <1>3, <1>4, <1>5, <1>6 DEF Made, Again

LEMMA MadeHand ==
  ASSUME EngineTypes, NEW f, Made(f)
  PROVE  /\ \A k, kinds : ~Hand(k, kinds)'
         /\ Hand(rl.pkt.key, Kinds) /\ Hand(rl.pkt.key, {"syn"})
         /\ \A k : ~Hand(k, Killing) /\ ~Hand(k, {"data"})
         /\ rl.pkt.key \in Keys /\ rl.pkt.inc \in Nat
  BY HandFacts DEF Made, Hand, Busy, Killing, Kinds

\* Of the key there was no flow; of the others the same is found.
LEMMA MadeReach ==
  ASSUME EngineTypes, NEW f, Made(f), NEW k \in Keys, NEW g \in DOMAIN flow', Reaches(k, g)'
  PROVE  \/ g = f /\ k = rl.pkt.key
         \/ g \in DOMAIN flow /\ k # rl.pkt.key /\ Reaches(k, g)
<1>1. table'[k] = g /\ flow'[g].key = k /\ ~flow'[g].closed
  BY DEF Reaches, Made
<1>2. CASE k = rl.pkt.key
  BY <1>1, <1>2 DEF Made
<1>3. CASE k # rl.pkt.key
  <2>1. table[k] = g /\ g # f
    BY <1>1, <1>3 DEF Made
  <2> QED BY <1>1, <1>3, <2>1 DEF Made, Reaches
<1> QED BY <1>2, <1>3

LEMMA MadeAfter ==
  ASSUME EngineTypes, NEW f, Made(f), NEW k \in Keys, NEW m, NEW S, After(k, m, S)
  PROVE  After(k, m, S)'
<1>1. q' = q
  BY DEF Made
<1>2. CASE \E j \in 1 .. m : Killer(k, j) /\ SynsIn(k, j + 1, m, S)
  BY <1>1, <1>2 DEF After, Killer, SynsIn
<1>3. CASE SynsIn(k, 1, m, S) /\ Fresh(k, S)
  <2>1. /\ Hand(k, {"syn"}) => rl.pkt.inc \in S
        /\ \A g \in DOMAIN flow : Reaches(k, g) => flow[g].inc \in S
    BY <1>3, MadeHand DEF Fresh
  <2>2. ASSUME NEW g \in DOMAIN flow', Reaches(k, g)' PROVE flow'[g].inc \in S
    <3>1. CASE g = f /\ k = rl.pkt.key
      BY <2>1, <3>1, MadeHand DEF Made
    <3>2. CASE g \in DOMAIN flow /\ Reaches(k, g)
      BY <2>1, <3>2 DEF Made
    <3> QED BY <2>2, <3>1, <3>2, MadeReach
  <2>3. Fresh(k, S)'
    BY <2>2, MadeHand DEF Fresh
  <2> QED BY <1>1, <1>3, <2>3 DEF After, SynsIn
<1> QED BY <1>2, <1>3 DEF After

LEMMA MadeOrdered == ASSUME EngineTypes, EngineTypes', NEW f, Made(f), Ordered PROVE Ordered'
<1>1. \A i, j \in DOMAIN q' : i < j /\ q'[i].key = q'[j].key => q'[i].inc <= q'[j].inc
  BY DEF Ordered, Made
<1>2. ASSUME NEW g \in DOMAIN flow', NEW i \in DOMAIN q', q'[i].key = flow'[g].key
      PROVE  flow'[g].inc <= q'[i].inc
  <2>1. CASE g = f
    <3>1. Hand(q[i].key, Kinds) /\ i \in DOMAIN q
      BY <1>2, <2>1, MadeHand DEF Made
    <3> QED BY <2>1, <3>1 DEF Ordered, Made
  <2>2. CASE g \in DOMAIN flow
    BY <1>2, <2>2 DEF Ordered, Made
  <2> QED BY <2>1, <2>2 DEF Made
<1>3. ASSUME NEW a \in DOMAIN flow', NEW b \in DOMAIN flow', NEW k \in Keys,
             k = flow'[a].key, Reaches(k, b)'
      PROVE  flow'[a].inc <= flow'[b].inc
  <2>1. CASE b = f /\ k = rl.pkt.key
    <3>1. CASE a = f
      BY <2>1, <3>1, MadeHand DEF Made
    <3>2. CASE a \in DOMAIN flow
      <4>1. Hand(flow[a].key, Kinds)
        BY <1>3, <2>1, <3>2, MadeHand DEF Made
      <4> QED BY <2>1, <3>2, <4>1 DEF Ordered, Made
    <3> QED BY <3>1, <3>2 DEF Made
  <2>2. CASE b \in DOMAIN flow /\ k # rl.pkt.key /\ Reaches(k, b)
    <3>1. a \in DOMAIN flow
      BY <1>3, <2>2 DEF Made
    <3>2. flow[a].key = k
      BY <1>3, <3>1 DEF Made
    <3> QED BY <2>2, <3>1, <3>2 DEF Ordered, Made
  <2> QED BY <1>3, <2>1, <2>2, MadeReach
<1>4. \A a \in DOMAIN flow' : flow'[a].key \in Keys
  BY DEF EngineTypes, FlowsTypes, FlowTypes, FlowState
<1> QED BY <1>1, <1>2, <1>3, <1>4, MadeHand DEF Ordered

LEMMA MadeRouted == ASSUME EngineTypes, NEW f, Made(f), Routed PROVE Routed'
<1>0. q' = q /\ cl' = cl
  BY DEF Made
<1>1. ASSUME NEW i \in DOMAIN q, q[i].kind = "data", NEW k \in Keys, k = q[i].key,
             NEW c, c = q[i].inc
      PROVE  After(k, i - 1, {c})'
  BY <1>1, MadeAfter DEF Routed
<1>2. \A i \in DOMAIN q : q[i].key \in Keys
  BY QueueFacts, PacketFacts
<1>3. \A k \in Keys : cl'[k].st = "est" => After(k, Len(q), {cl[k].inc})'
  <2> SUFFICES ASSUME NEW k \in Keys, cl[k].st = "est", NEW m, m = Len(q), NEW c, c = cl[k].inc
               PROVE  After(k, m, {c})'
    BY <1>0
  <2> QED BY MadeAfter DEF Routed
<1>4. \A k \in Keys : cl'[k].st = "fin" => After(k, Len(q), {})'
  <2> SUFFICES ASSUME NEW k \in Keys, cl[k].st = "fin", NEW m, m = Len(q)
               PROVE  After(k, m, {})'
    BY <1>0
  <2> QED BY MadeAfter DEF Routed
<1> QED BY <1>0, <1>1, <1>2, <1>3, <1>4, MadeHand DEF Routed

LEMMA MadeLeft == ASSUME EngineTypes, NEW f, Made(f), Left PROVE Left'
<1> SUFFICES ASSUME TunOpen', NEW k \in Keys, NEW g \in DOMAIN flow',
                    cl'[k].st \in {"closed", "syn"}, Reaches(k, g)', flow'[g].synAck
             PROVE  Killed(k)'
  BY DEF Left
<1>1. g # f
  BY DEF Made, NewFlow
<1>2. Reaches(k, g) /\ g \in DOMAIN flow
  BY <1>1, MadeReach
<1>3. Killed(k)
  BY <1>2 DEF Left, Made, TunOpen
<1> QED BY <1>3, MadeHand DEF Killed, Killer, Made

LEMMA MadeSynsFirst == ASSUME EngineTypes, NEW f, Made(f), SynsFirst PROVE SynsFirst'
<1>0. q' = q /\ cl' = cl
  BY DEF Made
<1>1. ASSUME NEW g \in DOMAIN flow', Used(g)'
      PROVE  NoSyn(flow[g].key, flow[g].inc, 0) /\ ~Connecting(flow[g].key, flow[g].inc)
             /\ flow'[g] = flow[g]
  <2>1. g # f
    BY <1>1 DEF Made, NewFlow, Used
  <2>2. g \in DOMAIN flow /\ flow'[g] = flow[g]
    BY <2>1 DEF Made
  <2> QED BY <1>1, <2>2 DEF SynsFirst, Used
<1>2. \A g \in DOMAIN flow' : Used(g)' =>
        NoSyn(flow[g].key, flow[g].inc, 0)' /\ ~Connecting(flow[g].key, flow[g].inc)'
        /\ flow'[g] = flow[g]
  BY <1>0, <1>1 DEF NoSyn, Connecting
<1>3. \A i \in DOMAIN q : q[i].kind = "data" =>
        NoSyn(q[i].key, q[i].inc, i)' /\ ~Connecting(q[i].key, q[i].inc)'
  BY <1>0 DEF SynsFirst, NoSyn, Connecting
<1> QED BY <1>0, <1>2, <1>3, MadeHand DEF SynsFirst, NoSyn, Connecting

LEMMA MadeKeeps == ASSUME EngineTypes, EngineTypes', Upload, NEW f, Made(f) PROVE Upload'
<1>1. \A g \in DOMAIN flow : FlowQuiet(g)
  BY DEF Made, FlowQuiet
<1>2. FlowOK(f)'
  <2>1. /\ flow'[f].wrote = <<>> /\ flow'[f].pending = <<>> /\ ~flow'[f].again
        /\ ~flow'[f].synAck /\ flow'[f].n = 1 /\ pc'[f] = "dial" /\ rl'.pc = "top"
    BY DEF Made, NewFlow
  <2>2. Counted(f)'
    BY <2>1 DEF Counted
  <2>3. ~HasBackend(f)'
    BY <2>1 DEF HasBackend
  <2>4. OfInc(flow'[f].wrote, flow'[f].inc) /\ OfInc(flow'[f].pending, flow'[f].inc)
    BY <2>1 DEF OfInc
  <2> QED BY <2>1, <2>2, <2>3, <2>4 DEF FlowOK
<1>3. FlowsOK'
  BY <1>1, <1>2, QuietFlowOK DEF Upload, FlowsOK, Made
<1>4. PeerFlows
  BY <1>1, QuietPeerFlow DEF Upload, PeerFlows, Made
<1>5. \A k \in Keys : SocketPeer(k)
  BY SocketRests DEF Made
<1>6. PeersOK' /\ AckedWasWritten'
  BY <1>4, <1>5, PeersKept DEF Upload
<1> QED BY <1>3, <1>6, MadeOrdered, MadeRouted, MadeLeft, MadeSynsFirst DEF Upload

LEMMA InsertKeeps == ASSUME EngineTypes, EngineTypes', Upload, Insert PROVE Upload'
<1>1. CASE table[rl.pkt.key] = NoFlow
  BY <1>1, InsertMakes, MadeKeeps
<1>2. CASE table[rl.pkt.key] # NoFlow
  <2>1. rl.pc = "insert" /\ Step("seg", table[rl.pkt.key])
        /\ UNCHANGED <<table, flow, pc, stop, cl, q>>
    BY <1>2 DEF Insert
  <2> QED BY <2>1, FoundQuiet
<1> QED BY <1>1, <1>2

-----------------------------------------------------------------------------
(* What clients send reaches the backends                                  *)

LEMMA UploadAtFirst == EngineInit => Upload
<1> SUFFICES ASSUME EngineInit PROVE Upload
  OBVIOUS
<1> USE DEF EngineInit
<1>0. DOMAIN flow = {} /\ DOMAIN q = {} /\ Len(q) = 0 /\ \A k, kinds : ~Hand(k, kinds)
  BY DEF Hand, Busy
<1>1. Ordered /\ Left /\ SynsFirst /\ FlowsOK
  BY <1>0 DEF Ordered, Left, SynsFirst, FlowsOK
<1>2. Routed
  BY <1>0 DEF Routed
<1>3. PeersOK /\ AckedWasWritten
  BY DEF PeersOK, PeerOK, AckedWasWritten
<1> QED BY <1>1, <1>2, <1>3 DEF Upload

LEMMA UploadKeeps == EngineTypes /\ EngineTypes' /\ Upload /\ [EngineNext]_engineVars => Upload'
<1> SUFFICES ASSUME EngineTypes, EngineTypes', Upload, [EngineNext]_engineVars PROVE Upload'
  OBVIOUS
<1>1. CASE UNCHANGED engineVars
  <2>1. UNCHANGED engine /\ UNCHANGED <<cl, q>>
    BY <1>1 DEF engineVars, engine
  <2> QED BY <2>1, NobodyMoves, ClientKept
<1>2. CASE ReadLoop
  BY <1>2, LoopQuiet, ReadKeeps, InsertKeeps, FindKeeps, SegmentKeeps, WriteKeeps, ResetKeeps
     DEF ReadLoop
<1>3. ASSUME NEW f \in DOMAIN flow, FlowRuns(f) \/ PumpRead(f) PROVE Upload'
  BY <1>3, GoroutineQuiet, DialledKeeps, CompleteKeeps, FlushKeeps DEF FlowRuns
<1>4. CASE (\E f \in DOMAIN flow : BridgeEnds(f)) \/ StopCancel \/ Stopping
  BY <1>4, BridgeAndStopQuiet DEF Stopping
<1>5. ASSUME NEW k \in Keys, Client(k) PROVE Upload'
  <2>1. UNCHANGED engine
    BY <1>5 DEF Client, Connect, SendData, Resend, CloseSocket, Abort, GiveUp
  <2> QED BY <1>5, <2>1, ClientMoves, ClientKept
<1> QED BY <1>1, <1>2, <1>3, <1>4, <1>5 DEF EngineNext

\* The backend of a flow is given, and keeps for the flush, only what was sent on the
\* connection whose SYN made the flow; what readLoop has in hand or will read next of
\* a connection finds no other's flow (tcp.go:74-131, engine.go:125-165).
THEOREM SegmentsReachTheirFlow == EngineSpec => []Upload
<1>1. EngineInit => EngineTypes /\ Upload
  BY TypesAtFirst, UploadAtFirst
<1>2. EngineTypes /\ Upload /\ [EngineNext]_engineVars => (EngineTypes /\ Upload)'
  BY TypesKeep, UploadKeeps
<1> QED BY <1>1, <1>2, PTL DEF EngineSpec

LEMMA UploadIsReliable == EngineTypes /\ Upload => UploadReliable
  BY DEF Upload, FlowsOK, FlowOK, OfInc, Counted, UploadReliable, UploadInOrder

\* Whatever the clients repeat, a backend is given the segments of its flow's
\* connection, in order and once unless one was kept again, and what a client is told
\* has arrived was written (tcp.go:211-247).
THEOREM UploadReachesBackend == EngineSpec => []UploadReliable
  BY EngineTypesHold, SegmentsReachTheirFlow, UploadIsReliable, PTL

=============================================================================
