------------------------------ MODULE Coalescer ------------------------------
(***************************************************************************)
(* The relay's request coalescer (relay/appscript/relay.go): callers of    *)
(* Submit, the run goroutine that groups what arrives within a window, and *)
(* one goroutine per flush that tries the Apps Script URLs in circular     *)
(* order from the sticky one.  The other end is Code.gs, whose doBatch_    *)
(* answers item by item.                                                   *)
(*                                                                         *)
(* A request is its name; the response to request i is i itself.           *)
(***************************************************************************)
EXTENDS Integers, Sequences, FiniteSets

CONSTANTS Items,      \* requests, each submitted once
          Large,      \* those too big to batch (largeUploadBypassBatch)
          Invalid,    \* those Code.gs answers with "bad url"
          Prio,       \* requestPriority of each
          MaxBatch,   \* maxBatch
          ChCap,      \* capacity of the channel
          Urls,       \* number of Apps Script URLs
          MaxFaults   \* bound: failed attempts and unreadable replies

ASSUME CoalescerAssumption ==
  /\ Large \subseteq Items /\ Invalid \subseteq Items
  /\ Prio \in [Items -> Nat]
  /\ {MaxBatch, ChCap, Urls} \subseteq Nat \ {0}
  /\ MaxFaults \in Nat
  /\ {"none", "error", "stopped"} \cap Items = {}

VARIABLES caller,   \* caller[i]: where the Submit of i is
          answer,   \* what it returned
          ch,       \* the channel of queued items
          runner,   \* the run goroutine: "idle" | "collect" | "exited"
          batch,    \* the batch being collected
          jobs,     \* the flush goroutines
          slot,     \* item.result: "none" or what waits in it
          stopped,  \* stopCh is closed
          active,   \* ActiveURLIdx
          faults    \* failed attempts so far

callers == <<caller, answer>>
vars == <<callers, ch, runner, batch, jobs, slot, stopped, active, faults>>

Elems(s) == {s[k] : k \in DOMAIN s}

\* A flush goroutine: its items, and how far it is in the circle of URLs.  A
\* single item is sent as itself, several as a batch; "new" has not read the
\* sticky index yet.
Job(s) == [items |-> s, st |-> "new", start |-> 0, tried |-> 0]
Singles(S) == {Job(<<i>>) : i \in S}
Target(j) == (j.start + j.tried) % Urls

Init ==
  /\ caller = [i \in Items |-> "new"]
  /\ answer = [i \in Items |-> "none"]
  /\ ch = <<>> /\ runner = "idle" /\ batch = <<>> /\ jobs = {}
  /\ slot = [i \in Items |-> "none"]
  /\ stopped = FALSE /\ active \in 0 .. Urls - 1 /\ faults = 0

-----------------------------------------------------------------------------
(* Submit                                                                  *)

Call(i) ==
  /\ caller[i] = "new"
  /\ caller' = [caller EXCEPT ![i] = "sending"]
  /\ UNCHANGED <<answer, ch, runner, batch, jobs, slot, stopped, active, faults>>

\* The channel blocks when full; with stopCh closed either branch may win.
Send(i) ==
  /\ caller[i] = "sending" /\ Len(ch) < ChCap
  /\ ch' = Append(ch, i)
  /\ caller' = [caller EXCEPT ![i] = "waiting"]
  /\ UNCHANGED <<answer, runner, batch, jobs, slot, stopped, active, faults>>

Receive(i) ==
  /\ caller[i] = "waiting" /\ slot[i] # "none"
  /\ answer' = [answer EXCEPT ![i] = slot[i]]
  /\ slot' = [slot EXCEPT ![i] = "none"]
  /\ caller' = [caller EXCEPT ![i] = "returned"]
  /\ UNCHANGED <<ch, runner, batch, jobs, stopped, active, faults>>

\* Mutant: once its item is queued, Submit waits for the result only.
QuitSending(i) ==
  /\ stopped /\ caller[i] = "sending"
  /\ answer' = [answer EXCEPT ![i] = "stopped"]
  /\ caller' = [caller EXCEPT ![i] = "returned"]
  /\ UNCHANGED <<ch, runner, batch, jobs, slot, stopped, active, faults>>

Quit(i) ==
  /\ stopped /\ caller[i] \in {"sending", "waiting"}
  /\ answer' = [answer EXCEPT ![i] = "stopped"]
  /\ caller' = [caller EXCEPT ![i] = "returned"]
  /\ UNCHANGED <<ch, runner, batch, jobs, slot, stopped, active, faults>>

-----------------------------------------------------------------------------
(* run                                                                     *)

\* Mutant: a large item is sent on its own and stays in the batch as well.
AdmitTwice == LET i == Head(ch) IN
  /\ ch' = Tail(ch)
  /\ IF i \in Large
     THEN jobs' = jobs \cup Singles({i}) /\ batch' = Append(batch, i)
     ELSE batch' = Append(batch, i) /\ UNCHANGED jobs

\* A received item bypasses the batch when it is large.
Admit == LET i == Head(ch) IN
  /\ ch' = Tail(ch)
  /\ IF i \in Large
     THEN jobs' = jobs \cup Singles({i}) /\ UNCHANGED batch
     ELSE batch' = Append(batch, i) /\ UNCHANGED jobs

Take ==
  /\ runner = "idle" /\ ch # <<>>
  /\ Admit
  /\ runner' = IF Head(ch) \in Large THEN "idle" ELSE "collect"
  /\ UNCHANGED <<callers, slot, stopped, active, faults>>

Collect ==
  /\ runner = "collect" /\ Len(batch) < MaxBatch /\ ch # <<>>
  /\ Admit
  /\ UNCHANGED <<callers, runner, slot, stopped, active, faults>>

\* prioritizeBatch: a stable sort by priority.
Before(s, k, l) == Prio[s[k]] < Prio[s[l]] \/ (Prio[s[k]] = Prio[s[l]] /\ k <= l)
Prioritized(s) ==
  [n \in DOMAIN s |-> s[CHOOSE k \in DOMAIN s :
                          Cardinality({l \in DOMAIN s : Before(s, l, k)}) = n]]

\* The window is over or the batch is full: a goroutine flushes it.
Emit ==
  /\ runner = "collect"
  /\ jobs' = jobs \cup {Job(Prioritized(batch))}
  /\ batch' = <<>>
  /\ runner' = "idle"
  /\ UNCHANGED <<callers, ch, slot, stopped, active, faults>>

\* run returns; what it was collecting is dropped, its callers see stopCh.  A
\* full batch is flushed before stopCh is looked at again.
RunnerStops ==
  /\ stopped
  /\ \/ runner = "idle"
     \/ runner = "collect" /\ Len(batch) < MaxBatch
  /\ runner' = "exited"
  /\ batch' = <<>>
  /\ UNCHANGED <<callers, ch, jobs, slot, stopped, active, faults>>

Stop ==
  /\ ~stopped
  /\ stopped' = TRUE
  /\ UNCHANGED <<callers, ch, runner, batch, jobs, slot, active, faults>>

-----------------------------------------------------------------------------
(* flush, flushSingle, RelayRequestMulti                                   *)

Begin(j) ==
  /\ j.st = "new"
  /\ jobs' = (jobs \ {j}) \cup {[j EXCEPT !.st = "try", !.start = active]}
  /\ UNCHANGED <<callers, ch, runner, batch, slot, stopped, active, faults>>

\* One buffered result per item: a second one would block the goroutine.
Deliver(j, result) ==
  /\ \A k \in DOMAIN j.items : slot[j.items[k]] = "none"
  /\ slot' = [i \in Items |->
                IF \E k \in DOMAIN j.items : j.items[k] = i
                THEN result[CHOOSE k \in DOMAIN j.items : j.items[k] = i]
                ELSE slot[i]]

\* The index sticks to the URL that answered, unless it is where the job
\* started.
Stick(j) == IF j.tried = 0
            THEN UNCHANGED active
            ELSE active' = Target(j)

\* The attempt fails - timeout, transport error, or for a single item any
\* unusable reply; the request may have been executed.  The same request goes
\* to the next URL; after the last one every item gets the error.
Fails(j, n) ==
  /\ j.st = "try"
  /\ faults + n <= MaxFaults
  /\ faults' = faults + n
  /\ IF j.tried + 1 < Urls
     THEN /\ jobs' = (jobs \ {j}) \cup {[j EXCEPT !.tried = @ + 1]}
          /\ UNCHANGED slot
     ELSE /\ Deliver(j, [k \in DOMAIN j.items |-> "error"])
          /\ jobs' = jobs \ {j}
  /\ UNCHANGED <<callers, ch, runner, batch, stopped, active>>

Single(j) == Len(j.items) = 1
Attempt(j) == /\ j.st = "try"
              /\ IF Single(j) /\ j.items[1] \in Invalid THEN Fails(j, 0) ELSE Fails(j, 1)

\* What doBatch_ fetches: the valid items in their order; of the first k items,
\* so many are fetched.
Fetches(s, k) == Cardinality({l \in 1 .. k : s[l] \notin Invalid})
Fetched(s) ==
  [n \in 1 .. Fetches(s, Len(s)) |->
     s[CHOOSE k \in DOMAIN s : s[k] \notin Invalid /\ Fetches(s, k) = n]]

\* Mutant: results taken from the fetches as they come, without the places of
\* the invalid items.
DoBatchShifted(s) ==
  [k \in DOMAIN s |-> IF k \in DOMAIN Fetched(s) THEN Fetched(s)[k] ELSE "error"]

\* Code.gs doBatch_: each result goes back to the place of its item.
DoBatch(s) ==
  [k \in DOMAIN s |-> IF s[k] \in Invalid THEN "error" ELSE Fetched(s)[Fetches(s, k)]]

\* The attempt succeeds.
Succeeds(j) ==
  /\ j.st = "try"
  /\ ~Single(j) \/ j.items[1] \notin Invalid
  /\ Deliver(j, DoBatch(j.items))
  /\ Stick(j)
  /\ jobs' = jobs \ {j}
  /\ UNCHANGED <<callers, ch, runner, batch, stopped, faults>>

\* Mutant: the fallback takes the batch apart and answers it as well.
ScatterAndFail(j) ==
  /\ j.st = "try" /\ ~Single(j)
  /\ faults < MaxFaults
  /\ faults' = faults + 1
  /\ Stick(j)
  /\ Deliver(j, [k \in DOMAIN j.items |-> "error"])
  /\ jobs' = (jobs \ {j}) \cup Singles(Elems(j.items))
  /\ UNCHANGED <<callers, ch, runner, batch, stopped>>

\* A batch is answered by something that is no batch (a quota page, a reply
\* of another length): every item is sent again on its own.
Scatter(j) ==
  /\ j.st = "try" /\ ~Single(j)
  /\ faults < MaxFaults
  /\ faults' = faults + 1
  /\ Stick(j)
  /\ jobs' = (jobs \ {j}) \cup Singles(Elems(j.items))
  /\ UNCHANGED <<callers, ch, runner, batch, slot, stopped>>

-----------------------------------------------------------------------------
Runner == Take \/ Collect \/ Emit \/ RunnerStops
Flush == \E j \in jobs : Begin(j) \/ Attempt(j) \/ Succeeds(j) \/ Scatter(j)
Submit(i) == Send(i) \/ Receive(i) \/ Quit(i)

Next == \/ \E i \in Items : Call(i) \/ Submit(i)
        \/ Runner \/ Flush \/ Stop

Spec == Init /\ [][Next]_vars

\* Goroutines are scheduled, a waiting sender is served in turn, and every
\* attempt ends: it has a timeout.  A timer fires even while items arrive.
Fairness == /\ \A i \in Items : SF_vars(Send(i)) /\ WF_vars(Receive(i)) /\ WF_vars(Quit(i))
            /\ WF_vars(Runner) /\ WF_vars(Flush) /\ WF_vars(RunnerStops)

FairSpec == Spec /\ Fairness

-----------------------------------------------------------------------------
IsJob(j) == /\ Elems(j.items) \subseteq Items /\ Len(j.items) \in 1 .. MaxBatch
            /\ j.st \in {"new", "try"} /\ j.start \in 0 .. Urls - 1 /\ j.tried \in 0 .. Urls - 1

Results == Items \cup {"none", "error", "stopped"}

\* Types; a large item is never part of a batch.
TypeOK ==
  /\ caller \in [Items -> {"new", "sending", "waiting", "returned"}]
  /\ answer \in [Items -> Results] /\ slot \in [Items -> Results \ {"stopped"}]
  /\ Elems(ch) \subseteq Items /\ Len(ch) <= ChCap
  /\ runner \in {"idle", "collect", "exited"}
  /\ Elems(batch) \subseteq Items \ Large /\ Len(batch) <= MaxBatch
  /\ (runner = "collect") = (batch # <<>>)
  /\ \A j \in jobs : IsJob(j) /\ (Single(j) \/ Elems(j.items) \cap Large = {})
  /\ stopped \in BOOLEAN
  /\ active \in 0 .. Urls - 1 /\ faults \in 0 .. MaxFaults

Distinct(s) == \A k, l \in DOMAIN s : s[k] = s[l] => k = l

\* An item is in one hand at a time - the channel, the batch, one flush - and
\* once there, and until it leaves the last of them nobody has answered it.
\* So item.result, with room for one, never blocks a flush goroutine
\* (relay.go:284, 363, 571, 580-594).
OneHand ==
  LET hands == {ch, batch} \cup {j.items : j \in jobs}
      holds(i) == {s \in hands : i \in Elems(s)}
  IN  /\ \A s \in hands : Distinct(s)
      /\ \A j, k \in jobs : Elems(j.items) \cap Elems(k.items) # {} => j = k
      /\ \A i \in Items : holds(i) # {} =>
           /\ Cardinality(holds(i)) = 1
           /\ slot[i] = "none"
           /\ answer[i] \in {"none", "stopped"}

\* Until Stop, nobody waits for an item that has been dropped.
NotForgotten ==
  ~stopped => \A i \in Items : caller[i] = "waiting" =>
     \/ slot[i] # "none"
     \/ i \in Elems(ch) \cup Elems(batch) \cup UNION {Elems(j.items) : j \in jobs}

\* Both: whoever waits for an item waits for something that happens once.
ItemAccounted == OneHand /\ NotForgotten

\* A caller is given the response to its own request or an error - however
\* the batch was sorted, split, or filtered by the script.
OwnAnswer == \A i \in Items :
  /\ answer[i] \in {"none", "error", "stopped"} \cup ({i} \ Invalid)
  /\ slot[i] \in {"none", "error"} \cup ({i} \ Invalid)

\* Every Submit returns, whether or not the coalescer is stopped meanwhile.
SubmitReturns == \A i \in Items : caller[i] = "sending" ~> caller[i] = "returned"

\* After Stop the goroutines are gone in the end.
StopDrains == stopped ~> runner = "exited" /\ jobs = {}

\* Both: a Stop at any moment strands neither callers nor goroutines.
EveryoneEnds == SubmitReturns /\ StopDrains
=============================================================================
