----------------------------- MODULE VpnService -----------------------------
(***************************************************************************)
(* The Android VPN service (RelayVpnService.kt) on top of the Go code      *)
(* (Mobile).  The main thread handles start and stop commands, posted work *)
(* and onDestroy; each start and each stop does its work in a thread of    *)
(* its own, which compares the generation it was given with                *)
(* startGeneration now and then.  The user interface warms up profiles     *)
(* meanwhile.  A service destroyed is followed by a new object with fields *)
(* of its own; the Go state, and threads still running, are the process's. *)
(***************************************************************************)
EXTENDS Mobile, Naturals

CONSTANTS Main, UI,     \* the main thread, and the one that warms up
          Workers,      \* threads started by commands; each is used once
          MaxService    \* bound: service objects, one after the other

ASSUME ServiceAssumption ==
  /\ Callers = Workers \cup {Main, UI} /\ Main # UI /\ {Main, UI} \cap Workers = {}
  /\ MaxService \in Nat \ {0}

VARIABLES service,          \* the current service object
          alive,            \* it has been created and not destroyed
          stopping,         \* stopSelf has been called on it
          startGeneration,  \* fields, per service object
          stopComplete,
          vpnInterface,
          th                \* where each thread is

vars == <<mobile, service, alive, stopping, startGeneration, stopComplete,
          vpnInterface, th>>
fields == <<service, alive, stopping, startGeneration, stopComplete>>
svc == <<fields, vpnInterface>>

Services == 1 .. MaxService

\* The places where a thread calls setSocketProtector(null), stop() and, but
\* for one, closes the interface: where it goes after each of the two calls.
AfterClear == [halt |-> "halting", destroy |-> "destroying", stop |-> "stopping",
               undo |-> "undoing", undoAll |-> "undoingAll", fail |-> "failing"]
AfterStop == [halting |-> "haltClose", destroying |-> "destroyClose",
              stopping |-> "stopClose", undoing |-> "end",
              undoingAll |-> "undoClose", failing |-> "failClose"]
Labels == DOMAIN AfterClear \cup DOMAIN AfterStop \cup
          {AfterStop[l] : l \in DOMAIN AfterStop} \cup
          {"idle", "check", "spawn",                                   \* Main
           "prewarm",                                                  \* UI
           "enter", "start", "bind", "called", "failed", "ready",      \* startRelay
           "establish", "established", "attach", "attached",
           "post"}

TypeOK ==
  /\ MobileTypeOK
  /\ mu # None => th[mu].pc = "bind"
  /\ service \in Services /\ alive \in BOOLEAN /\ stopping \in BOOLEAN
  /\ startGeneration \in [Services -> Nat]
  /\ stopComplete \in [Services -> BOOLEAN]
  /\ vpnInterface \in [Services -> Workers \cup {None}]
  /\ th \in [Callers -> [pc : Labels, on : Services, gen : Nat,
                         for : Profiles \cup {Direct, None}]]

AtRest == [pc |-> "idle", on |-> 1, gen |-> 0, for |-> None]

Init ==
  /\ MobileInit
  /\ service = 1 /\ alive = FALSE /\ stopping = FALSE
  /\ startGeneration = [s \in Services |-> 0]
  /\ stopComplete = [s \in Services |-> FALSE]
  /\ vpnInterface = [s \in Services |-> None]
  /\ th = [t \in Callers |-> AtRest]

Goto(t, label) == th' = [th EXCEPT ![t].pc = label]
Current(t) == th[t].gen = startGeneration[th[t].on]

\* vpnInterface?.close(); vpnInterface = null
CloseInterface(s) == vpnInterface' = [vpnInterface EXCEPT ![s] = None]

Spawn(label, s, g, p) == \E w \in Workers :
  /\ th[w].pc = "idle"
  /\ th' = [th EXCEPT ![Main].pc = "idle", ![w] = [pc |-> label, on |-> s, gen |-> g, for |-> p]]

-----------------------------------------------------------------------------
(* The main thread                                                         *)

\* The system makes a service object for the first command.
Create ==
  /\ ~alive /\ th[Main].pc = "idle"
  /\ service < MaxService \/ startGeneration[service] = 0
  /\ service' = IF startGeneration[service] = 0 THEN service ELSE service + 1
  /\ alive' = TRUE /\ stopping' = FALSE
  /\ UNCHANGED <<mobile, startGeneration, stopComplete, vpnInterface, th>>

\* onStartCommand(ACTION_START)
StartCommand(p) ==
  /\ alive /\ th[Main].pc = "idle"
  /\ \E w \in Workers : th[w].pc = "idle"
  /\ stopComplete' = [stopComplete EXCEPT ![service] = FALSE]
  /\ startGeneration' = [startGeneration EXCEPT ![service] = @ + 1]
  /\ th' = [th EXCEPT ![Main].pc = "check", ![Main].for = p]
  /\ UNCHANGED <<mobile, service, alive, stopping, vpnInterface>>

CheckRunning ==
  /\ th[Main].pc = "check" /\ mu = None
  /\ Goto(Main, IF IsRunning THEN "halt" ELSE "spawn")
  /\ UNCHANGED <<mobile, svc>>

HaltClose ==
  /\ th[Main].pc = "haltClose"
  /\ CloseInterface(service)
  /\ Goto(Main, "spawn")
  /\ UNCHANGED <<mobile, fields>>

SpawnStart ==
  /\ th[Main].pc = "spawn"
  /\ SetProtector(TRUE)
  /\ Spawn("enter", service, startGeneration[service], th[Main].for)
  /\ UNCHANGED svc

\* A sticky service the system has restarted gets a null intent.
NullCommand ==
  /\ alive /\ th[Main].pc = "idle"
  /\ stopComplete' = [stopComplete EXCEPT ![service] = FALSE]
  /\ UNCHANGED <<mobile, service, alive, stopping, startGeneration, vpnInterface, th>>

\* stopRelay
StopCommand ==
  /\ alive /\ th[Main].pc = "idle"
  /\ ~stopComplete[service]
  /\ stopComplete' = [stopComplete EXCEPT ![service] = TRUE]
  /\ startGeneration' = [startGeneration EXCEPT ![service] = @ + 1]
  /\ Spawn("stop", service, startGeneration[service] + 1, None)
  /\ UNCHANGED <<mobile, service, alive, stopping, vpnInterface>>

\* onDestroy, after a stopSelf, under stopLock to its end
Destroy ==
  /\ alive /\ stopping /\ th[Main].pc = "idle"
  /\ IF stopComplete[service] THEN alive' = FALSE /\ UNCHANGED th
     ELSE Goto(Main, "destroy") /\ UNCHANGED alive
  /\ stopComplete' = [stopComplete EXCEPT ![service] = TRUE]
  /\ UNCHANGED <<mobile, service, stopping, startGeneration, vpnInterface>>

DestroyClose ==
  /\ th[Main].pc = "destroyClose"
  /\ CloseInterface(service)
  /\ alive' = FALSE
  /\ Goto(Main, "idle")
  /\ UNCHANGED <<mobile, service, stopping, startGeneration, stopComplete>>

\* ACTION_STOPPED and stopSelf, posted by a stop thread
Posted(w) ==
  /\ th[w].pc = "post" /\ th[Main].pc = "idle"
  /\ stopping' = (stopping \/ (alive /\ th[w].on = service))
  /\ Goto(w, "end")
  /\ UNCHANGED <<mobile, service, alive, startGeneration, stopComplete, vpnInterface>>

-----------------------------------------------------------------------------
(* A stop thread, and the calls it has in common with the others           *)

Unprotect(t) ==
  /\ th[t].pc \in DOMAIN AfterClear
  /\ SetProtector(FALSE)
  /\ Goto(t, AfterClear[th[t].pc])
  /\ UNCHANGED svc

StopRelay(t) ==
  /\ th[t].pc \in DOMAIN AfterStop
  /\ Stop
  /\ Goto(t, AfterStop[th[t].pc])
  /\ UNCHANGED svc

CloseStopped(w) ==
  /\ th[w].pc = "stopClose"
  /\ ~(th[w].on = service /\ th[Main].pc \in {"destroy", "destroying", "destroyClose"})
  /\ CloseInterface(th[w].on)
  /\ Goto(w, "post")
  /\ UNCHANGED <<mobile, fields>>

-----------------------------------------------------------------------------
(* startRelay                                                              *)

Enter(w) ==
  /\ th[w].pc = "enter"
  /\ Goto(w, IF Current(w) THEN "start" ELSE "end")
  /\ UNCHANGED <<mobile, svc>>

StartRelay(w) ==
  /\ th[w].pc = "start"
  /\ IF th[w].for = Direct
     THEN \E err \in BOOLEAN :
            StartDirect(err) /\ Goto(w, IF err THEN "failed" ELSE "called")
     ELSE \/ StartTunnelAgain /\ Goto(w, "called")
          \/ StartTunnel(w, th[w].for) /\ Goto(w, "bind")
  /\ UNCHANGED svc

BindRelay(w) ==
  /\ th[w].pc = "bind"
  /\ \E err \in BOOLEAN : Bind(w, err) /\ Goto(w, IF err THEN "failed" ELSE "called")
  /\ UNCHANGED svc

\* A thread whose command has been superseded leaves the relay as it is.
Called(w) ==
  /\ th[w].pc = "called"
  /\ Goto(w, IF Current(w) THEN "ready" ELSE "end")
  /\ UNCHANGED <<mobile, svc>>

\* failStart
Failed(w) ==
  /\ th[w].pc = "failed"
  /\ Goto(w, IF Current(w) THEN "fail" ELSE "end")
  /\ UNCHANGED <<mobile, svc>>

Ready(w) ==
  /\ th[w].pc = "ready"
  /\ Goto(w, IF Current(w) THEN "establish" ELSE "undo")
  /\ UNCHANGED <<mobile, svc>>

\* Builder.establish(), which fails without the user's consent, or throws
Establish(w) ==
  /\ th[w].pc = "establish"
  /\ \/ /\ vpnInterface' = [vpnInterface EXCEPT ![th[w].on] = w]
        /\ Goto(w, "established")
     \/ /\ vpnInterface' = [vpnInterface EXCEPT ![th[w].on] = None]
        /\ Goto(w, "failed")
     \/ Goto(w, "fail") /\ UNCHANGED vpnInterface
  /\ UNCHANGED <<mobile, fields>>

\* Mutant: the check between establish and attachTUN is left out.
EstablishedUnchecked(w) ==
  /\ th[w].pc = "established"
  /\ Goto(w, "attach")
  /\ UNCHANGED <<mobile, svc>>

Established(w) ==
  /\ th[w].pc = "established"
  /\ Goto(w, IF Current(w) THEN "attach" ELSE "undoAll")
  /\ UNCHANGED <<mobile, svc>>

\* A null vpnInterface throws.
Attach(w) ==
  /\ th[w].pc = "attach"
  /\ IF vpnInterface[th[w].on] = None
     THEN Goto(w, "fail") /\ UNCHANGED mobile
     ELSE \E err \in BOOLEAN :
            AttachTUN(err) /\ Goto(w, IF err THEN "failed" ELSE "attached")
  /\ UNCHANGED svc

\* ACTION_STARTED, unless it has been superseded
Attached(w) ==
  /\ th[w].pc = "attached"
  /\ Goto(w, IF vpnInterface[th[w].on] = None THEN "fail"
             ELSE IF Current(w) THEN "end" ELSE "undoAll")
  /\ UNCHANGED <<mobile, svc>>

\* Superseded late, or failed: the relay is stopped and, unless there cannot be
\* one, the interface closed.  After an error the service stops itself.
UndoClose(w) ==
  /\ th[w].pc \in {"undoClose", "failClose"}
  /\ CloseInterface(th[w].on)
  /\ stopping' = (stopping \/ (th[w].pc = "failClose" /\ alive /\ th[w].on = service))
  /\ Goto(w, "end")
  /\ UNCHANGED <<mobile, service, alive, startGeneration, stopComplete>>

-----------------------------------------------------------------------------
(* The user interface warms up a profile: the active client is looked at   *)
(* before the prewarm mutex is taken.                                      *)

Warmup(p) ==
  /\ th[UI].pc = "idle"
  /\ IF active = None THEN th' = [th EXCEPT ![UI].pc = "prewarm", ![UI].for = p]
     ELSE UNCHANGED th
  /\ UNCHANGED <<mobile, svc>>

WarmupDone ==
  /\ th[UI].pc = "prewarm"
  /\ Prewarm(th[UI].for)
  /\ Goto(UI, "idle")
  /\ UNCHANGED svc

-----------------------------------------------------------------------------
MainRuns == \/ Create \/ (\E p \in Profiles \cup {Direct} : StartCommand(p))
            \/ CheckRunning \/ HaltClose \/ SpawnStart
            \/ NullCommand \/ StopCommand \/ Destroy \/ DestroyClose
            \/ \E w \in Workers : Posted(w)
WorkerRuns(w) == \/ CloseStopped(w) \/ Enter(w) \/ StartRelay(w)
                 \/ BindRelay(w) \/ Called(w) \/ Failed(w) \/ Ready(w) \/ Establish(w)
                 \/ Established(w) \/ Attach(w) \/ Attached(w) \/ UndoClose(w)

Next == \/ MainRuns
        \/ \E w \in Workers : WorkerRuns(w)
        \/ \E t \in Workers \cup {Main} : Unprotect(t) \/ StopRelay(t)
        \/ (\E p \in Profiles : Warmup(p)) \/ WarmupDone

Spec == Init /\ [][Next]_vars

-----------------------------------------------------------------------------
\* A client that has not been stopped can be: it is the active one, the
\* prewarmed one or in the hands of StartTunnel (server.go:25-40, prewarm.go).
NoClientLeaks == \A c \in Clients :
  client[c] # None => c \in {active, prewarm, taken}

\* Outside StartTunnel the proxy, its client and the TUN engine are of one
\* profile, and an engine never outlives its proxy (mobile.go:137-190, 249-263,
\* 336-358).
OneProfile == mu = None =>
  /\ active # None => server = client[active]
  /\ server \in Profiles => active # None
  /\ tunEng # None => server # None /\ tunEng = (IF active = None THEN Direct ELSE active)

Quiet == th[Main].pc = "idle" /\ \A w \in Workers : th[w].pc \in {"idle", "end"}

\* The last command of the service was a stop, and every thread is done.
StoppedForGood == Quiet /\ \E w \in Workers :
  th[w].for = None /\ th[w].pc = "end" /\ th[w].on = service /\ Current(w)

\* w is a start that is done and no later command of its object has overtaken.
NotOvertaken(w) == th[w].pc = "end" /\ th[w].for # None /\ Current(w)

\* After a stop there is no interface, no TUN engine and no protector, however
\* far a start had come when it was overtaken (RelayVpnService.kt:73-179).
\* Only a start that no stop has overtaken on its own, destroyed object may have
\* gone on, since onDestroy leaves startGeneration as it is (182-192).
NoVpnAfterStop ==
  StoppedForGood /\ (\A w \in Workers : NotOvertaken(w) => th[w].on = service) =>
  /\ \A s \in DOMAIN vpnInterface : vpnInterface[s] = None
  /\ tunEng = None /\ ~protector

\* mobile.go:247: "Stop shuts down the relay proxy".  So there is none after it.
NoRelayAfterStop == StoppedForGood => server = None

=============================================================================
