---------------------------- MODULE TunnelWarmup ----------------------------
(***************************************************************************)
(* One tunnel client beside the flows it carries                           *)
(* (relay/tunnel/tunnel_client.go, prewarm.go): its warmup, which runs     *)
(* once in the background, its keepalive loop, the user's connections,     *)
(* which wait for the warmup at most once and abort it when their bridge   *)
(* begins, and the adoption of a client that was prewarmed before the      *)
(* proxy started, which changes its HTTP client.                           *)
(*                                                                         *)
(* A client made by the proxy itself is one that has been adopted already. *)
(* Time is left out but for the order of deadlines.  The warmup's 25 s run *)
(* out before those of an adoption that looks for it after they have begun *)
(* (else the adoption's are "ahead"), and before the first keepalive tick, *)
(* which comes 75 s after the loop: a goroutine that may run is taken to   *)
(* begin within 50 s.                                                      *)
(***************************************************************************)
EXTENDS Integers, FiniteSets

CONSTANTS Users,  \* connections: CONNECTs and the TUN's flows
          Urls    \* how many Apps Script URLs there are

ASSUME WarmupAssumption ==
  Urls \in Nat \ {0} /\ {"new", "done"} \cap Users = {}

VARIABLES pc,          \* the warmup's and the keepalive loop's
          uses,        \* the HTTP client of the request each has under way
          tries,       \* URLs the batch of each has gone to
          closes,      \* URLs the close of that batch's session has gone to
          cancelled,   \* the warmup's context, cancelled or timed out
          warmCancel,  \* c.warmCancel is set
          warmReady,   \* c.warmReady
          warmDone,    \* c.warmDone is closed
          once,        \* connectWarmOnce: "new", whom it runs for, "done"
          user,        \* user[u]: where a connection is
          tried,       \* URLs it has tried
          grace,       \* lastTraffic is less than 45 s old
          http,        \* c.client
          adopt,       \* adoptOrCreateTunnelClient
          ahead,       \* its 25 s began before those of the warmup
          stopped      \* stopCh is closed

probes == <<pc, uses, tries, closes>>
context == <<cancelled, warmCancel, warmReady, warmDone>>
users == <<once, user, tried, grace>>
owner == <<http, adopt, ahead, stopped>>
vars == <<probes, context, users, owner>>

Probes == {"warmup", "keepalive"}

\* runWarmup and keepaliveTick have the same shape, Probing: look whether the
\* user is busy (two atomics, one after the other), ping, ping the legacy way,
\* look again, open and close a session.
Asking == {"ping", "legacy", "deep", "closing"}
Probing == {"check", "grace", "recheck", "regrace"} \cup Asking
WarmupOnly == {"start", "store", "ready", "close"}
LoopOnly == {"off", "wait", "idle"}

TypeOK ==
  /\ pc \in [Probes -> Probing \cup {"over", "ended"} \cup WarmupOnly \cup LoopOnly]
  /\ pc["warmup"] \notin LoopOnly /\ pc["keepalive"] \notin WarmupOnly
  /\ uses \in [Probes -> {"none", "old", "new"}]
  /\ \A p \in Probes : uses[p] # "none" => pc[p] \in Asking
  /\ tries \in [Probes -> 0 .. Urls] /\ closes \in [Probes -> 0 .. Urls]
  /\ {cancelled, warmCancel, warmReady, warmDone, grace, ahead, stopped} \subseteq BOOLEAN
  /\ once \in Users \cup {"new", "done"}
  /\ user \in [Users -> {"idle", "once", "wait", "open", "add", "note", "read", "call", "bridge", "end"}]
  /\ tried \in [Users -> 0 .. Urls]
  /\ http \in {"old", "new"}
  /\ adopt \in {"no", "abort", "call", "wait", "use", "activate", "yes", "never"}

Init ==
  /\ \E prewarmed \in BOOLEAN :
       /\ pc = [p \in Probes |-> IF p = "warmup" THEN "start"
                                 ELSE IF prewarmed THEN "off" ELSE "wait"]
       /\ http = IF prewarmed THEN "old" ELSE "new"
       /\ adopt = IF prewarmed THEN "no" ELSE "yes"
  /\ uses = [p \in Probes |-> "none"]
  /\ tries = [p \in Probes |-> 0] /\ closes = [p \in Probes |-> 0]
  /\ cancelled = FALSE /\ warmCancel = FALSE /\ warmReady = FALSE /\ warmDone = FALSE
  /\ once = "new" /\ user = [u \in Users |-> "idle"] /\ tried = [u \in Users |-> 0]
  /\ grace = FALSE /\ ahead = FALSE /\ stopped = FALSE

-----------------------------------------------------------------------------
(* What the warmup and the keepalive loop have in common                   *)

\* activeBridges: the connections between their Add(1) and their Add(-1)
Active == {u \in Users : user[u] \in {"note", "read", "call", "bridge"}}

Goto(p, to) ==
  /\ pc' = [pc EXCEPT ![p] = to]
  /\ uses' = [uses EXCEPT ![p] = "none"]
  /\ tries' = [tries EXCEPT ![p] = 0] /\ closes' = [closes EXCEPT ![p] = 0]

\* A request is sent with the HTTP client of that moment; one whose context is
\* over is not.  The context of a close never is.
Ask(p, what) ==
  /\ pc' = [pc EXCEPT ![p] = what]
  /\ uses' = [uses EXCEPT ![p] =
                IF p = "warmup" /\ cancelled /\ what # "closing" THEN "none" ELSE http]
  /\ tries' = [tries EXCEPT ![p] = IF what = "deep" THEN @ + 1 ELSE @]
  /\ closes' = [closes EXCEPT ![p] = IF what = "closing" THEN @ + 1 ELSE 0]

\* userBusy reads the bridges and then the time of the last traffic.  Before
\* it looks again, a warmup looks whether its context has ended, and a
\* keepalive tick whether it is one of the deep ones.
Look(p) ==
  /\ pc[p] \in {"check", "recheck"}
  /\ \/ /\ Active # {}
        /\ Goto(p, "over")
     \/ /\ pc[p] = "recheck"
        /\ p = "warmup" => cancelled
        /\ Goto(p, "over")
     \/ /\ Active = {}
        /\ ~(p = "warmup" /\ pc[p] = "recheck" /\ cancelled)
        /\ Goto(p, IF pc[p] = "check" THEN "grace" ELSE "regrace")
  /\ UNCHANGED <<context, users, owner>>

Lull(p) ==
  /\ pc[p] \in {"grace", "regrace"}
  /\ IF grace THEN Goto(p, "over") ELSE Ask(p, IF pc[p] = "grace" THEN "ping" ELSE "deep")
  /\ UNCHANGED <<context, users, owner>>

\* Mutant: one URL too many.
NextUrlOnce(p) ==
  IF tries[p] <= Urls THEN Ask(p, "deep") ELSE Goto(p, "over")

NextUrl(p) == IF tries[p] < Urls THEN Ask(p, "deep") ELSE Goto(p, "over")

\* pingAllAppsScript asks the active URL, in two ways; the batch of the deep
\* warmup goes to each URL in turn.
Answer(p) ==
  /\ \/ pc[p] = "ping" /\ (Goto(p, "recheck") \/ Ask(p, "legacy"))
     \/ pc[p] = "legacy" /\ Goto(p, "recheck")
     \/ pc[p] = "deep" /\ (Goto(p, "over") \/ NextUrl(p))
  /\ UNCHANGED <<context, users, owner>>

\* The exit knows the session already: maybeCloseBatchOnRetry closes it, with
\* each URL in turn, before the batch goes to the next.
CloseExisting(p) ==
  /\ \/ pc[p] = "deep" /\ uses[p] # "none" /\ Ask(p, "closing")
     \/ pc[p] = "closing" /\ (NextUrl(p) \/ (closes[p] < Urls /\ Ask(p, "closing")))
  /\ UNCHANGED <<context, users, owner>>

-----------------------------------------------------------------------------
(* runWarmup                                                               *)

MakeContext ==
  /\ pc["warmup"] = "start"
  /\ Goto("warmup", "store")
  /\ UNCHANGED <<context, users, owner>>

StoreCancel ==
  /\ pc["warmup"] = "store"
  /\ warmCancel' = TRUE
  /\ Goto("warmup", "check")
  /\ UNCHANGED <<cancelled, warmReady, warmDone, users, owner>>

\* The context's 25 s are over.
Expire ==
  /\ pc["warmup"] \notin {"start", "ended"}
  /\ cancelled' = TRUE
  /\ UNCHANGED <<probes, warmCancel, warmReady, warmDone, users, owner>>

\* The deferred functions, the last one first
Unwind ==
  /\ \/ /\ pc["warmup"] = "over"
        /\ cancelled' = TRUE /\ warmCancel' = FALSE
        /\ Goto("warmup", "ready")
        /\ UNCHANGED <<warmReady, warmDone>>
     \/ /\ pc["warmup"] = "ready"
        /\ warmReady' = TRUE
        /\ Goto("warmup", "close")
        /\ UNCHANGED <<cancelled, warmCancel, warmDone>>
     \/ /\ pc["warmup"] = "close"
        /\ warmDone' = TRUE
        /\ Goto("warmup", "ended")
        /\ UNCHANGED <<cancelled, warmCancel, warmReady>>
  /\ UNCHANGED <<users, owner>>

-----------------------------------------------------------------------------
(* keepaliveLoop                                                           *)

\* It waits for the warmup, or for as long as that may take.
Await ==
  /\ pc["keepalive"] = "wait"
  /\ Goto("keepalive", IF stopped THEN "ended" ELSE "idle")
  /\ UNCHANGED <<context, users, owner>>

\* 75 s later, and again; by then the warmup's 25 s are over.
Tick ==
  /\ pc["keepalive"] = "idle" /\ (warmDone \/ cancelled)
  /\ Goto("keepalive", "check")
  /\ UNCHANGED <<context, users, owner>>

Ticked ==
  /\ pc["keepalive"] = "over"
  /\ Goto("keepalive", "idle")
  /\ UNCHANGED <<context, users, owner>>

\* With a tick and a stop at hand, the select takes either.
StopLoop ==
  /\ pc["keepalive"] = "idle" /\ stopped
  /\ Goto("keepalive", "ended")
  /\ UNCHANGED <<context, users, owner>>

-----------------------------------------------------------------------------
(* A connection                                                            *)

Move(u, to) == user' = [user EXCEPT ![u] = to]

\* waitWarmupBeforeFirstConnect.  A flow of the TUN has waited before.
Connect(u) ==
  /\ user[u] = "idle" /\ adopt = "yes"
  /\ Move(u, IF warmReady THEN "open" ELSE "once")
  /\ UNCHANGED <<probes, context, once, tried, grace, owner>>

\* connectWarmOnce: one connection waits, and the others for it.
Once(u) ==
  /\ user[u] = "once"
  /\ \/ once = "new" /\ once' = u /\ Move(u, "wait")
     \/ once = "done" /\ Move(u, "open") /\ UNCHANGED once
  /\ UNCHANGED <<probes, context, tried, grace, owner>>

\* Mutant: a wait that has timed out leaves the others waiting.
Abandon(u) ==
  /\ user[u] = "wait"
  /\ Move(u, "open")
  /\ once' = IF warmDone THEN "done" ELSE once
  /\ UNCHANGED <<probes, context, tried, grace, owner>>

\* The warmup is done, or 3 s are over.
WaitFirst(u) ==
  /\ user[u] = "wait"
  /\ Move(u, "open") /\ once' = "done"
  /\ UNCHANGED <<probes, context, tried, grace, owner>>

\* openSession: a URL whose failure is worth a retry is sent a close, and the
\* next one is tried.
Open(u) ==
  /\ user[u] = "open"
  /\ \/ Move(u, "add") /\ tried' = [tried EXCEPT ![u] = 0]
     \/ Move(u, "idle") /\ tried' = [tried EXCEPT ![u] = 0]
     \/ tried[u] + 1 < Urls /\ tried' = [tried EXCEPT ![u] = @ + 1] /\ UNCHANGED user
  /\ UNCHANGED <<probes, context, once, grace, owner>>

\* Mutant: the warmup is aborted before the bridge counts.
BeginAborted(u) ==
  /\ \/ user[u] = "add" /\ Move(u, "read") /\ UNCHANGED <<cancelled, grace>>
     \/ user[u] = "read" /\ Move(u, IF warmCancel THEN "call" ELSE "end") /\ UNCHANGED <<cancelled, grace>>
     \/ user[u] = "call" /\ cancelled' = TRUE /\ Move(u, "end") /\ UNCHANGED grace
     \/ user[u] = "end" /\ grace' = TRUE /\ Move(u, "bridge") /\ UNCHANGED cancelled
  /\ UNCHANGED <<probes, warmCancel, warmReady, warmDone, once, tried, owner>>

\* beginBridge: counts, notes the time, takes the cancel function, calls it.
BeginBridge(u) ==
  /\ \/ user[u] = "add" /\ Move(u, "note") /\ UNCHANGED <<cancelled, grace>>
     \/ user[u] = "note" /\ grace' = TRUE /\ Move(u, "read") /\ UNCHANGED cancelled
     \/ user[u] = "read" /\ Move(u, IF warmCancel THEN "call" ELSE "bridge") /\ UNCHANGED <<cancelled, grace>>
     \/ user[u] = "call" /\ cancelled' = TRUE /\ Move(u, "bridge") /\ UNCHANGED grace
  /\ UNCHANGED <<probes, warmCancel, warmReady, warmDone, once, tried, owner>>

EndBridge(u) ==
  /\ \/ user[u] = "bridge" /\ Move(u, "end") /\ UNCHANGED grace
     \/ user[u] = "end" /\ grace' = TRUE /\ Move(u, "idle")
  /\ UNCHANGED <<probes, context, once, tried, owner>>

\* 45 s without a bridge's beginning or end
Quiet ==
  /\ grace /\ grace' = FALSE
  /\ UNCHANGED <<probes, context, once, user, tried, owner>>

-----------------------------------------------------------------------------
(* adoptOrCreateTunnelClient, Stop                                         *)

\* abortWarmupForUser, before the 25 s of its wait begin
AbortWarmup(next) ==
  \/ /\ adopt = "abort" /\ adopt' = (IF warmCancel THEN "call" ELSE next)
     /\ ahead' = (pc["warmup"] = "start") /\ UNCHANGED cancelled
  \/ adopt = "call" /\ adopt' = next /\ cancelled' = TRUE /\ UNCHANGED ahead

\* Mutant: the client is taken over without waiting for its warmup.
AbortOnly == AbortWarmup("use")

\* The warmup is aborted and waited for ...
Abort == AbortWarmup("wait")

Waited ==
  /\ adopt = "wait" /\ (warmReady \/ warmDone \/ cancelled \/ ahead)
  /\ adopt' = "use" /\ UNCHANGED <<cancelled, ahead>>

\* ... the HTTP client is replaced, the keepalive loop started.
Adopt ==
  /\ \/ /\ \/ adopt = "no" /\ adopt' = "abort" /\ UNCHANGED <<cancelled, ahead>>
           \/ Abort
           \/ Waited
        /\ UNCHANGED <<http, probes>>
     \/ /\ adopt = "use" /\ adopt' = "activate" /\ http' = "new"
        /\ UNCHANGED <<cancelled, ahead, probes>>
     \/ /\ adopt = "activate" /\ adopt' = "yes" /\ Goto("keepalive", "wait")
        /\ UNCHANGED <<cancelled, ahead, http>>
  /\ UNCHANGED <<warmCancel, warmReady, warmDone, users, stopped>>

\* StopActiveTunnel, or StopPrewarm of a client nobody has adopted
Stop ==
  /\ adopt \in {"no", "yes"}
  /\ stopped' = TRUE
  /\ adopt' = IF adopt = "no" THEN "never" ELSE adopt
  /\ UNCHANGED <<probes, context, users, http, ahead>>

Probe(p) == Look(p) \/ Lull(p) \/ Answer(p) \/ CloseExisting(p)

Warmup == MakeContext \/ StoreCancel \/ Unwind \/ Probe("warmup")

Keepalive == Await \/ Ticked \/ StopLoop \/ Probe("keepalive")

Serve(u) == Once(u) \/ WaitFirst(u) \/ Open(u) \/ BeginBridge(u)

Next == \/ Warmup \/ Keepalive \/ Expire \/ Tick \/ Quiet \/ Adopt \/ Stop
        \/ \E u \in Users : Connect(u) \/ Serve(u) \/ EndBridge(u)

\* Goroutines run, requests end by their timeouts, a stopped loop's select
\* takes the stop when there is no tick; bridges need not end.
Fairness ==
  /\ WF_vars(Warmup) /\ WF_vars(Keepalive) /\ SF_vars(StopLoop)
  /\ \A u \in Users : WF_vars(Serve(u))

Spec == Init /\ [][Next]_vars /\ Fairness

-----------------------------------------------------------------------------
\* A ping or a batch of the warmup that its context has not ended
Live == pc["warmup"] \in Asking \ {"closing"} /\ ~cancelled

\* A warmup gives way: no ping and no batch of it is alive beside a bridge that
\* has begun, even if the bridge began before the warmup had stored its cancel
\* function or between its two looks at the traffic, nor beside a request of
\* the keepalive loop; only a close, which nothing cancels, may outlast it
\* (tunnel_client.go:125-157, 188-211, 291-297, 697-707).
WarmupAlone ==
  Live => /\ \A u \in Users : user[u] # "bridge"
          /\ pc["keepalive"] \notin Asking

\* Once a prewarmed client has been adopted, what it has under way on the HTTP
\* client from before the VPN protected its sockets is one request of its
\* warmup, and that is dead, or is a close; unless the adoption's look for
\* the warmup came before the warmup's first step, as then its wait may end
\* first (prewarm.go:76-82, tunnel_client.go:192-195).
NewClientOnly ==
  adopt \in {"activate", "yes"} =>
    \A p \in Probes : uses[p] = "old" =>
      p = "warmup" /\ (cancelled \/ pc[p] = "closing" \/ ahead)

\* The warmup ends whatever happens to its requests, a stopped keepalive loop
\* ends, and every connection gets past its wait and its opening.
AllEnd ==
  /\ []<>/\ pc["warmup"] = "ended" /\ warmReady /\ warmDone
         /\ stopped => pc["keepalive"] \in {"off", "ended"}
  /\ \A u \in Users : []<>(user[u] \in {"idle", "bridge", "end"})
=============================================================================
