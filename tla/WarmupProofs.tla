---------------------------- MODULE WarmupProofs ----------------------------
(***************************************************************************)
(* TunnelWarmup's types and its two safety properties, for any set of      *)
(* connections and any number of URLs.                                     *)
(*                                                                         *)
(* A warmup that has looked and seen nobody, and a bridge that is there    *)
(* all the same, means that the bridge has counted itself after the look,  *)
(* has therefore found the cancel function, which is stored before the     *)
(* look, and has called it: GaveWay.  Whoever has waited for the warmup    *)
(* finds it over or its time run out, in both cases with its context       *)
(* ended: LoopLate for a keepalive tick, OldIsOver for an adoption whose   *)
(* time is not ahead of the warmup's.                                      *)
(***************************************************************************)
EXTENDS TunnelWarmup, TLAPS

\* The cancel function is there from the first look to the unwinding.
CancelStored == warmCancel <=> pc["warmup"] \in Probing \cup {"over"}

GaveWay ==
  pc["warmup"] \in Probing \ {"check"} /\ (\E u \in Users : user[u] = "bridge") => cancelled

\* Whoever sees the warmup ready or done sees its context ended.
EndedLate ==
  /\ pc["warmup"] \in {"ready", "close", "ended"} => cancelled
  /\ warmReady \/ warmDone => pc["warmup"] \in {"close", "ended"}

LoopLate == pc["keepalive"] \in Probing \cup {"over"} => cancelled

OldIsOver ==
  /\ adopt = "use" => cancelled \/ ahead
  /\ adopt \in {"activate", "yes"} => http = "new"
  /\ adopt \in {"use", "activate", "yes"} /\ uses["warmup"] = "old" =>
       cancelled \/ ahead \/ pc["warmup"] = "closing"
  /\ pc["keepalive"] # "off" => adopt = "yes"
  /\ uses["keepalive"] # "old"

\* A probe starts with the first URL, and so does a close.
Counted ==
  \A p \in Probes : /\ pc[p] \notin {"deep", "closing"} => tries[p] = 0
                    /\ pc[p] # "closing" => closes[p] = 0

IInv == TypeOK /\ Counted /\ CancelStored /\ GaveWay /\ EndedLate /\ LoopLate /\ OldIsOver

-----------------------------------------------------------------------------
\* A fresh client is in the invariant, prewarmed or not.
LEMMA InitIInv == Init => IInv
<1> SUFFICES ASSUME Init PROVE IInv
  OBVIOUS
<1>1. /\ pc["warmup"] = "start" /\ pc["keepalive"] \in {"off", "wait"}
      /\ pc = [p \in Probes |-> pc[p]] /\ http \in {"old", "new"}
      /\ adopt = "no" \/ (adopt = "yes" /\ http = "new")
      /\ pc["keepalive"] # "off" => adopt = "yes"
  BY DEF Init, Probes
<1>2. /\ uses = [p \in Probes |-> "none"] /\ tries = [p \in Probes |-> 0]
      /\ closes = [p \in Probes |-> 0] /\ ~ahead
      /\ once = "new" /\ user = [u \in Users |-> "idle"] /\ tried = [u \in Users |-> 0]
      /\ ~cancelled /\ ~warmCancel /\ ~warmReady /\ ~warmDone /\ ~grace /\ ~stopped
      /\ {cancelled, warmCancel, warmReady, warmDone, grace, ahead, stopped} \subseteq BOOLEAN
  BY DEF Init
<1>3. TypeOK /\ Counted
  BY <1>1, <1>2, WarmupAssumption DEF TypeOK, Counted, Probes, Probing, Asking, WarmupOnly, LoopOnly
<1>4. CancelStored /\ GaveWay /\ EndedLate /\ LoopLate /\ OldIsOver
  BY <1>1, <1>2 DEF CancelStored, GaveWay, EndedLate, LoopLate, OldIsOver, Probes, Probing, Asking
<1>5. QED
  BY <1>3, <1>4 DEF IInv

\* A step that moves one of the two goroutines without a request in hand
LEMMA GotoTypes ==
  ASSUME TypeOK, Counted, NEW p \in Probes,
         NEW to \in {"over", "ended"} \cup WarmupOnly \cup LoopOnly \cup (Probing \ Asking),
         p = "warmup" => to \notin LoopOnly, p = "keepalive" => to \notin WarmupOnly,
         Goto(p, to), UNCHANGED <<context, users, owner>>
  PROVE  /\ TypeOK' /\ Counted'
         /\ pc'[p] = to /\ uses'[p] = "none"
         /\ \A q \in Probes : q # p => pc'[q] = pc[q] /\ uses'[q] = uses[q]
  BY WarmupAssumption DEF TypeOK, Counted, Goto, context, users, owner, Probes, Probing, Asking, WarmupOnly, LoopOnly

LEMMA AskTypes ==
  ASSUME TypeOK, Counted, NEW p \in Probes, NEW what \in Asking,
         what \in {"ping", "legacy"} => pc[p] \notin {"deep", "closing"},
         what = "deep" => tries[p] < Urls, what = "closing" => closes[p] < Urls,
         Ask(p, what), UNCHANGED <<context, users, owner>>
  PROVE  /\ TypeOK' /\ Counted'
         /\ pc'[p] = what /\ uses'[p] \in {http, "none"}
         /\ p = "warmup" /\ cancelled /\ what # "closing" => uses'[p] = "none"
         /\ \A q \in Probes : q # p => pc'[q] = pc[q] /\ uses'[q] = uses[q]
  BY WarmupAssumption DEF TypeOK, Counted, Ask, context, users, owner, Probes, Probing, Asking, WarmupOnly, LoopOnly

-----------------------------------------------------------------------------
\* What the two goroutines have in common.  A move among the steps of a probe
LEMMA GotoInv ==
  ASSUME IInv, NEW p \in Probes, NEW to \in {"over", "grace", "recheck", "regrace"},
         pc[p] \in Probing, to # "over" /\ pc[p] = "check" => Active = {},
         Goto(p, to), UNCHANGED <<context, users, owner>>
  PROVE  IInv'
<1>1. TypeOK /\ Counted /\ CancelStored /\ GaveWay /\ EndedLate /\ LoopLate /\ OldIsOver
  BY DEF IInv
<1>2. /\ TypeOK' /\ Counted' /\ pc'[p] = to /\ uses'[p] = "none"
      /\ \A q \in Probes : q # p => pc'[q] = pc[q] /\ uses'[q] = uses[q]
  BY <1>1, GotoTypes DEF Probing, Asking, WarmupOnly, LoopOnly
<1>3. /\ UNCHANGED <<cancelled, warmCancel, warmReady, warmDone>>
      /\ UNCHANGED <<user, http, adopt, ahead>>
  BY DEF context, users, owner
<1>4. CancelStored' /\ EndedLate' /\ LoopLate'
  BY <1>1, <1>2, <1>3 DEF CancelStored, EndedLate, LoopLate, Probing, Asking, Probes
<1>5. OldIsOver'
  BY <1>1, <1>2, <1>3 DEF OldIsOver, Probing, Asking, Probes
<1>6. GaveWay'
  <2>1. CASE p = "warmup" /\ pc[p] = "check"
    BY <1>2, <1>3, <2>1 DEF GaveWay, Active, Probing, Asking
  <2>2. CASE p # "warmup" \/ pc[p] # "check"
    BY <1>1, <1>2, <1>3, <2>2 DEF GaveWay, Probing, Asking, Probes
  <2>3. QED
    BY <2>1, <2>2
<1>7. QED
  BY <1>2, <1>4, <1>5, <1>6 DEF IInv

\* A request: the adoption's HTTP client, or one of an ended context
LEMMA AskInv ==
  ASSUME IInv, NEW p \in Probes, NEW what \in Asking,
         pc[p] \in Probing \ {"check"},
         what \in {"ping", "legacy"} => pc[p] \notin {"deep", "closing"},
         what = "deep" => tries[p] < Urls, what = "closing" => closes[p] < Urls,
         Ask(p, what), UNCHANGED <<context, users, owner>>
  PROVE  IInv'
<1>1. TypeOK /\ Counted /\ CancelStored /\ GaveWay /\ EndedLate /\ LoopLate /\ OldIsOver
  BY DEF IInv
<1>2. /\ TypeOK' /\ Counted' /\ pc'[p] = what /\ uses'[p] \in {http, "none"}
      /\ p = "warmup" /\ cancelled /\ what # "closing" => uses'[p] = "none"
      /\ \A q \in Probes : q # p => pc'[q] = pc[q] /\ uses'[q] = uses[q]
  BY <1>1, AskTypes
<1>3. /\ UNCHANGED <<cancelled, warmCancel, warmReady, warmDone>>
      /\ UNCHANGED <<user, http, adopt, ahead>>
  BY DEF context, users, owner
<1>4. CancelStored' /\ EndedLate' /\ LoopLate' /\ GaveWay'
  BY <1>1, <1>2, <1>3 DEF CancelStored, EndedLate, LoopLate, GaveWay, Probing, Asking, Probes
<1>5. OldIsOver'
  BY <1>1, <1>2, <1>3 DEF OldIsOver, Probing, Asking, Probes
<1>6. QED
  BY <1>2, <1>4, <1>5 DEF IInv

LEMMA LookInv == ASSUME IInv, NEW p \in Probes, Look(p) PROVE IInv'
<1>1. pc[p] \in {"check", "recheck"} /\ UNCHANGED <<context, users, owner>>
  BY DEF Look
<1>2. CASE Goto(p, "over")
  BY <1>1, <1>2, GotoInv DEF Probing, Asking
<1>3. CASE Active = {} /\ pc[p] = "check" /\ Goto(p, "grace")
  BY <1>1, <1>3, GotoInv DEF Probing, Asking
<1>4. CASE pc[p] = "recheck" /\ Goto(p, "regrace")
  BY <1>1, <1>4, GotoInv DEF Probing, Asking
<1>5. QED
  BY <1>2, <1>3, <1>4 DEF Look

LEMMA LullInv == ASSUME IInv, NEW p \in Probes, Lull(p) PROVE IInv'
<1>1. pc[p] \in {"grace", "regrace"} /\ UNCHANGED <<context, users, owner>>
  BY DEF Lull
<1>2. CASE Goto(p, "over")
  BY <1>1, <1>2, GotoInv DEF Probing, Asking
<1>3. CASE Ask(p, "ping")
  BY <1>1, <1>3, AskInv DEF Probing, Asking
<1>4. CASE Ask(p, "deep")
  BY <1>1, <1>4, AskInv, WarmupAssumption DEF IInv, Counted, Probing, Asking
<1>5. QED
  BY <1>2, <1>3, <1>4 DEF Lull

LEMMA NextUrlInv ==
  ASSUME IInv, NEW p \in Probes, pc[p] \in {"deep", "closing"}, NextUrl(p),
         UNCHANGED <<context, users, owner>>
  PROVE  IInv'
<1>1. CASE tries[p] < Urls /\ Ask(p, "deep")
  BY <1>1, AskInv DEF Probing, Asking
<1>2. CASE Goto(p, "over")
  BY <1>2, GotoInv DEF Probing, Asking
<1>3. QED
  BY <1>1, <1>2 DEF NextUrl

LEMMA AnswerInv == ASSUME IInv, NEW p \in Probes, Answer(p) PROVE IInv'
<1>1. pc[p] \in Asking /\ UNCHANGED <<context, users, owner>>
  BY DEF Answer, Asking
<1>2. CASE Goto(p, "over") \/ Goto(p, "recheck")
  BY <1>1, <1>2, GotoInv DEF Probing, Asking
<1>3. CASE pc[p] = "ping" /\ Ask(p, "legacy")
  BY <1>1, <1>3, AskInv DEF Probing, Asking
<1>4. CASE pc[p] = "deep" /\ NextUrl(p)
  BY <1>1, <1>4, NextUrlInv
<1>5. QED
  BY <1>2, <1>3, <1>4 DEF Answer

\* A close may outlast what the warmup's context ends: it is not a ping or a batch.
LEMMA CloseExistingInv == ASSUME IInv, NEW p \in Probes, CloseExisting(p) PROVE IInv'
<1>1. pc[p] \in {"deep", "closing"} /\ UNCHANGED <<context, users, owner>>
  BY DEF CloseExisting
<1>2. CASE pc[p] = "deep" /\ Ask(p, "closing")
  BY <1>1, <1>2, AskInv, WarmupAssumption DEF IInv, Counted, Probing, Asking
<1>3. CASE closes[p] < Urls /\ Ask(p, "closing")
  BY <1>1, <1>3, AskInv DEF Probing, Asking
<1>4. CASE NextUrl(p)
  BY <1>1, <1>4, NextUrlInv
<1>5. QED
  BY <1>2, <1>3, <1>4 DEF CloseExisting

-----------------------------------------------------------------------------
\* The warmup's own steps and the keepalive loop's
LEMMA MakeContextInv == ASSUME IInv, MakeContext PROVE IInv'
<1>1. TypeOK /\ Counted /\ CancelStored /\ GaveWay /\ EndedLate /\ LoopLate /\ OldIsOver
  BY DEF IInv
<1>2. Goto("warmup", "store") /\ UNCHANGED <<context, users, owner>>
  BY DEF MakeContext
<1>3. /\ TypeOK' /\ Counted' /\ pc'["warmup"] = "store" /\ uses'["warmup"] = "none"
      /\ \A q \in Probes : q # "warmup" => pc'[q] = pc[q] /\ uses'[q] = uses[q]
  BY <1>1, <1>2, GotoTypes DEF Probes, Probing, Asking, WarmupOnly, LoopOnly
<1>4. /\ UNCHANGED <<cancelled, warmCancel, warmReady, warmDone>>
      /\ UNCHANGED <<user, http, adopt, ahead>>
  BY <1>2 DEF context, users, owner
<1>5. CancelStored' /\ GaveWay' /\ EndedLate' /\ LoopLate' /\ OldIsOver'
  BY <1>1, <1>3, <1>4 DEF MakeContext, CancelStored, EndedLate, LoopLate, OldIsOver, GaveWay, Probing, Asking, Probes
<1>6. QED
  BY <1>3, <1>5 DEF IInv

\* A tick finds the warmup done or its time run out, and so its context ended.
LEMMA TickInv == ASSUME IInv, Tick PROVE IInv'
<1>1. TypeOK /\ Counted /\ CancelStored /\ GaveWay /\ EndedLate /\ LoopLate /\ OldIsOver
  BY DEF IInv
<1>2. Goto("keepalive", "check") /\ UNCHANGED <<context, users, owner>>
  BY DEF Tick
<1>3. /\ TypeOK' /\ Counted' /\ pc'["keepalive"] = "check" /\ uses'["keepalive"] = "none"
      /\ \A q \in Probes : q # "keepalive" => pc'[q] = pc[q] /\ uses'[q] = uses[q]
  BY <1>1, <1>2, GotoTypes DEF Probes, Probing, Asking, WarmupOnly, LoopOnly
<1>4. /\ UNCHANGED <<cancelled, warmCancel, warmReady, warmDone>>
      /\ UNCHANGED <<user, http, adopt, ahead>>
  BY <1>2 DEF context, users, owner
<1>5. CancelStored' /\ GaveWay' /\ EndedLate' /\ LoopLate' /\ OldIsOver'
  BY <1>1, <1>3, <1>4 DEF Tick, CancelStored, EndedLate, LoopLate, OldIsOver, GaveWay, Probing, Asking, Probes
<1>6. QED
  BY <1>3, <1>5 DEF IInv

LEMMA TickedInv == ASSUME IInv, Ticked PROVE IInv'
<1>1. TypeOK /\ Counted /\ CancelStored /\ GaveWay /\ EndedLate /\ LoopLate /\ OldIsOver
  BY DEF IInv
<1>2. Goto("keepalive", "idle") /\ UNCHANGED <<context, users, owner>>
  BY DEF Ticked
<1>3. /\ TypeOK' /\ Counted' /\ pc'["keepalive"] = "idle" /\ uses'["keepalive"] = "none"
      /\ \A q \in Probes : q # "keepalive" => pc'[q] = pc[q] /\ uses'[q] = uses[q]
  BY <1>1, <1>2, GotoTypes DEF Probes, Probing, Asking, WarmupOnly, LoopOnly
<1>4. /\ UNCHANGED <<cancelled, warmCancel, warmReady, warmDone>>
      /\ UNCHANGED <<user, http, adopt, ahead>>
  BY <1>2 DEF context, users, owner
<1>5. CancelStored' /\ GaveWay' /\ EndedLate' /\ LoopLate' /\ OldIsOver'
  BY <1>1, <1>3, <1>4 DEF Ticked, CancelStored, EndedLate, LoopLate, OldIsOver, GaveWay, Probing, Asking, Probes
<1>6. QED
  BY <1>3, <1>5 DEF IInv

LEMMA StopLoopInv == ASSUME IInv, StopLoop PROVE IInv'
<1>1. TypeOK /\ Counted /\ CancelStored /\ GaveWay /\ EndedLate /\ LoopLate /\ OldIsOver
  BY DEF IInv
<1>2. Goto("keepalive", "ended") /\ UNCHANGED <<context, users, owner>>
  BY DEF StopLoop
<1>3. /\ TypeOK' /\ Counted' /\ pc'["keepalive"] = "ended" /\ uses'["keepalive"] = "none"
      /\ \A q \in Probes : q # "keepalive" => pc'[q] = pc[q] /\ uses'[q] = uses[q]
  BY <1>1, <1>2, GotoTypes DEF Probes, Probing, Asking, WarmupOnly, LoopOnly
<1>4. /\ UNCHANGED <<cancelled, warmCancel, warmReady, warmDone>>
      /\ UNCHANGED <<user, http, adopt, ahead>>
  BY <1>2 DEF context, users, owner
<1>5. CancelStored' /\ GaveWay' /\ EndedLate' /\ LoopLate' /\ OldIsOver'
  BY <1>1, <1>3, <1>4 DEF StopLoop, CancelStored, EndedLate, LoopLate, OldIsOver, GaveWay, Probing, Asking, Probes
<1>6. QED
  BY <1>3, <1>5 DEF IInv

LEMMA AwaitInv == ASSUME IInv, Await PROVE IInv'
<1>1. TypeOK /\ Counted /\ CancelStored /\ GaveWay /\ EndedLate /\ LoopLate /\ OldIsOver
  BY DEF IInv
<1>2. PICK to \in {"ended", "idle"} : Goto("keepalive", to)
  BY DEF Await
<1>3. pc["keepalive"] = "wait" /\ UNCHANGED <<context, users, owner>>
  BY DEF Await
<1>4. /\ TypeOK' /\ Counted' /\ pc'["keepalive"] = to /\ uses'["keepalive"] = "none"
      /\ \A q \in Probes : q # "keepalive" => pc'[q] = pc[q] /\ uses'[q] = uses[q]
  BY <1>1, <1>2, <1>3, GotoTypes DEF Probes, Probing, Asking, WarmupOnly, LoopOnly
<1>5. /\ UNCHANGED <<cancelled, warmCancel, warmReady, warmDone>>
      /\ UNCHANGED <<user, http, adopt, ahead>>
  BY <1>3 DEF context, users, owner
<1>6. CancelStored' /\ GaveWay' /\ EndedLate' /\ LoopLate' /\ OldIsOver'
  BY <1>1, <1>3, <1>4, <1>5 DEF CancelStored, EndedLate, LoopLate, OldIsOver, GaveWay,
     Probing, Asking, Probes
<1>7. QED
  BY <1>4, <1>6 DEF IInv

\* What a move of the warmup or the keepalive loop leaves in order
LEMMA GotoProbes ==
  ASSUME TypeOK, Counted, NEW p \in Probes,
         NEW to \in {"over", "ended"} \cup WarmupOnly \cup LoopOnly \cup (Probing \ Asking),
         p = "warmup" => to \notin LoopOnly, p = "keepalive" => to \notin WarmupOnly,
         Goto(p, to), UNCHANGED <<users, http>>,
         {cancelled', warmCancel', warmReady', warmDone', ahead', stopped'} \subseteq BOOLEAN,
         adopt' \in {"no", "abort", "call", "wait", "use", "activate", "yes", "never"}
  PROVE  /\ TypeOK' /\ Counted'
         /\ pc'[p] = to /\ uses'[p] = "none"
         /\ \A q \in Probes : q # p => pc'[q] = pc[q] /\ uses'[q] = uses[q]
  BY WarmupAssumption DEF TypeOK, Counted, Goto, users, Probes, Probing, Asking, WarmupOnly, LoopOnly

\* The cancel function is stored before the first look.
LEMMA StoreCancelInv == ASSUME IInv, StoreCancel PROVE IInv'
<1>1. TypeOK /\ Counted /\ CancelStored /\ GaveWay /\ EndedLate /\ LoopLate /\ OldIsOver
  BY DEF IInv
<1>2. /\ pc["warmup"] = "store" /\ warmCancel' = TRUE /\ Goto("warmup", "check")
      /\ UNCHANGED <<cancelled, warmReady, warmDone>>
      /\ UNCHANGED <<users, user, http, adopt, ahead, stopped>>
  BY DEF StoreCancel, users, owner
<1>3. /\ TypeOK' /\ Counted' /\ pc'["warmup"] = "check" /\ uses'["warmup"] = "none"
      /\ \A q \in Probes : q # "warmup" => pc'[q] = pc[q] /\ uses'[q] = uses[q]
  <2>1. /\ {cancelled', warmCancel', warmReady', warmDone', ahead', stopped'} \subseteq BOOLEAN
        /\ adopt' \in {"no", "abort", "call", "wait", "use", "activate", "yes", "never"}
    BY <1>1, <1>2 DEF TypeOK
  <2>2. QED
    BY <1>1, <1>2, <2>1, GotoProbes DEF Probes, Probing, Asking, WarmupOnly, LoopOnly
<1>4. CancelStored' /\ GaveWay' /\ EndedLate' /\ LoopLate' /\ OldIsOver'
  BY <1>1, <1>2, <1>3 DEF CancelStored, EndedLate, LoopLate, OldIsOver, GaveWay,
     Probing, Asking, Probes
<1>5. QED
  BY <1>3, <1>4 DEF IInv

\* The deferred functions: the context ends before anybody is told.
LEMMA UnwindInv == ASSUME IInv, Unwind PROVE IInv'
<1>1. TypeOK /\ Counted /\ CancelStored /\ GaveWay /\ EndedLate /\ LoopLate /\ OldIsOver
  BY DEF IInv
<1>2. PICK to \in {"ready", "close", "ended"} : Goto("warmup", to) /\
        \/ pc["warmup"] = "over" /\ to = "ready" /\ cancelled' /\ ~warmCancel'
           /\ cancelled' \in BOOLEAN /\ warmCancel' \in BOOLEAN
           /\ UNCHANGED <<warmReady, warmDone>>
        \/ pc["warmup"] = "ready" /\ to = "close" /\ warmReady' \in BOOLEAN
           /\ UNCHANGED <<cancelled, warmCancel, warmDone>>
        \/ pc["warmup"] = "close" /\ to = "ended" /\ warmDone' \in BOOLEAN
           /\ UNCHANGED <<cancelled, warmCancel, warmReady>>
  BY DEF Unwind
<1>3. UNCHANGED <<users, user, http, adopt, ahead, stopped>>
  BY DEF Unwind, users, owner
<1>4. /\ TypeOK' /\ Counted' /\ pc'["warmup"] = to /\ uses'["warmup"] = "none"
      /\ \A q \in Probes : q # "warmup" => pc'[q] = pc[q] /\ uses'[q] = uses[q]
  <2>1. /\ {cancelled', warmCancel', warmReady', warmDone', ahead', stopped'} \subseteq BOOLEAN
        /\ adopt' \in {"no", "abort", "call", "wait", "use", "activate", "yes", "never"}
    BY <1>1, <1>2, <1>3 DEF TypeOK
  <2>2. QED
    BY <1>1, <1>2, <1>3, <2>1, GotoProbes DEF Probes, Probing, Asking, WarmupOnly, LoopOnly
<1>5. EndedLate'
  BY <1>1, <1>2, <1>4 DEF EndedLate, Probing, Asking
<1>6. CancelStored' /\ GaveWay'
  BY <1>1, <1>2, <1>4 DEF CancelStored, GaveWay, Probing, Asking
<1>7. LoopLate' /\ OldIsOver'
  BY <1>1, <1>2, <1>3, <1>4 DEF LoopLate, OldIsOver, Probing, Asking, Probes
<1>8. QED
  BY <1>4, <1>5, <1>6, <1>7 DEF IInv

-----------------------------------------------------------------------------
\* The context runs out; an adoption and a keepalive loop have waited longer.
LEMMA ExpireInv == ASSUME IInv, Expire PROVE IInv'
<1>1. /\ cancelled' = TRUE
      /\ UNCHANGED <<pc, uses, tries, closes, warmCancel, warmReady, warmDone, once, user, tried, grace,
                    http, adopt, ahead, stopped>>
  BY DEF Expire, probes, users, owner
<1>2. TypeOK' /\ Counted'
  BY <1>1 DEF IInv, TypeOK, Counted
<1>3. CancelStored' /\ GaveWay' /\ EndedLate' /\ LoopLate' /\ OldIsOver'
  BY <1>1 DEF IInv, CancelStored, EndedLate, LoopLate, OldIsOver, GaveWay, Probing, Asking, Probes
<1>4. QED
  BY <1>2, <1>3 DEF IInv

\* The steps of a connection that neither begin a bridge nor end a context
LEMMA QuietUserInv ==
  ASSUME IInv, NEW u \in Users, NEW to \in {"idle", "once", "wait", "open", "add", "end"},
         UNCHANGED <<probes, context, owner>>,
         user' = [user EXCEPT ![u] = to] \/ user' = user,
         once' \in Users \cup {"new", "done"}, tried' \in [Users -> 0 .. Urls], grace' \in BOOLEAN
  PROVE  IInv'
<1>1. /\ UNCHANGED <<pc, uses, tries, closes, cancelled, warmCancel, warmReady, warmDone>>
      /\ UNCHANGED <<http, adopt, ahead, stopped>>
  BY DEF probes, context, owner
<1>2. user' \in [Users -> {"idle", "once", "wait", "open", "add", "note", "read", "call", "bridge", "end"}]
  BY DEF IInv, TypeOK
<1>3. TypeOK' /\ Counted'
  BY <1>1, <1>2 DEF IInv, TypeOK, Counted
<1>4. \A w \in Users : user'[w] = "bridge" => user[w] = "bridge"
  BY DEF IInv, TypeOK
<1>5. CancelStored' /\ GaveWay' /\ EndedLate' /\ LoopLate' /\ OldIsOver'
  BY <1>1, <1>4 DEF IInv, CancelStored, EndedLate, LoopLate, OldIsOver, GaveWay, Probing, Asking, Probes
<1>6. QED
  BY <1>3, <1>5 DEF IInv

LEMMA ConnectInv == ASSUME IInv, NEW u \in Users, Connect(u) PROVE IInv'
<1>1. PICK to \in {"open", "once"} : user' = [user EXCEPT ![u] = to]
  BY DEF Connect, Move
<1>2. UNCHANGED <<probes, context, owner, once, tried, grace>>
  BY DEF Connect
<1>3. QED
  BY <1>1, <1>2, QuietUserInv DEF IInv, TypeOK

LEMMA OnceInv == ASSUME IInv, NEW u \in Users, Once(u) PROVE IInv'
<1>1. PICK to \in {"wait", "open"} : user' = [user EXCEPT ![u] = to]
  BY DEF Once, Move
<1>2. once' \in Users \cup {"new", "done"}
  BY DEF Once, IInv, TypeOK
<1>3. UNCHANGED <<probes, context, owner, tried, grace>>
  BY DEF Once
<1>4. QED
  BY <1>1, <1>2, <1>3, QuietUserInv DEF IInv, TypeOK

LEMMA WaitFirstInv == ASSUME IInv, NEW u \in Users, WaitFirst(u) PROVE IInv'
<1>1. user' = [user EXCEPT ![u] = "open"] /\ once' = "done"
  BY DEF WaitFirst, Move
<1>2. UNCHANGED <<probes, context, owner, tried, grace>>
  BY DEF WaitFirst
<1>3. QED
  BY <1>1, <1>2, QuietUserInv DEF IInv, TypeOK

LEMMA OpenInv == ASSUME IInv, NEW u \in Users, Open(u) PROVE IInv'
<1>1. UNCHANGED <<probes, context, owner, once, grace>>
  BY DEF Open
<1>2. tried' \in [Users -> 0 .. Urls]
  BY WarmupAssumption DEF Open, IInv, TypeOK
<1>3. \/ user' = [user EXCEPT ![u] = "add"] \/ user' = [user EXCEPT ![u] = "idle"]
      \/ user' = user
  BY DEF Open, Move
<1>4. once' \in Users \cup {"new", "done"} /\ grace' \in BOOLEAN
  BY <1>1 DEF IInv, TypeOK
<1>5. QED
  BY <1>1, <1>2, <1>3, <1>4, QuietUserInv

LEMMA EndBridgeInv == ASSUME IInv, NEW u \in Users, EndBridge(u) PROVE IInv'
<1>1. UNCHANGED <<probes, context, owner, once, tried>>
  BY DEF EndBridge
<1>2. user' = [user EXCEPT ![u] = "end"] \/ user' = [user EXCEPT ![u] = "idle"]
  BY DEF EndBridge, Move
<1>3. /\ once' \in Users \cup {"new", "done"} /\ grace' \in BOOLEAN
      /\ tried' \in [Users -> 0 .. Urls]
  BY <1>1 DEF EndBridge, IInv, TypeOK
<1>4. QED
  BY <1>1, <1>2, <1>3, QuietUserInv

\* A bridge that finds no cancel function has no probing warmup beside it,
\* and one that finds it has ended the context before it begins.
LEMMA BeginBridgeInv == ASSUME IInv, NEW u \in Users, BeginBridge(u) PROVE IInv'
<1>1. TypeOK /\ Counted /\ CancelStored /\ GaveWay /\ EndedLate /\ LoopLate /\ OldIsOver
  BY DEF IInv
<1>2. /\ UNCHANGED <<pc, uses, tries, closes, warmCancel, warmReady, warmDone>>
      /\ UNCHANGED <<once, tried, http, adopt, ahead, stopped>>
  BY DEF BeginBridge, probes, owner
<1>3. PICK to \in {"note", "read", "call", "bridge"} :
        /\ user' = [user EXCEPT ![u] = to]
        /\ to = "bridge" => (user[u] = "read" /\ ~warmCancel) \/ cancelled'
  <2>1. CASE user[u] = "add"
    BY <2>1 DEF BeginBridge, Move
  <2>2. CASE user[u] = "note"
    BY <2>2 DEF BeginBridge, Move
  <2>3. CASE user[u] = "read" /\ warmCancel
    BY <2>3 DEF BeginBridge, Move
  <2>4. CASE user[u] = "read" /\ ~warmCancel
    BY <2>4 DEF BeginBridge, Move
  <2>5. CASE user[u] = "call"
    BY <2>5 DEF BeginBridge, Move
  <2>6. QED
    BY <2>1, <2>2, <2>3, <2>4, <2>5 DEF BeginBridge
<1>4. cancelled' \in BOOLEAN /\ grace' \in BOOLEAN /\ (cancelled => cancelled')
  <2>1. cancelled \in BOOLEAN /\ grace \in BOOLEAN
    BY <1>1 DEF TypeOK
  <2>2. \/ UNCHANGED <<cancelled, grace>>
        \/ grace' = TRUE /\ UNCHANGED cancelled
        \/ cancelled' = TRUE /\ UNCHANGED grace
    BY DEF BeginBridge
  <2>3. QED
    BY <2>1, <2>2
<1>5. TypeOK' /\ Counted'
  BY <1>1, <1>2, <1>3, <1>4 DEF TypeOK, Counted
<1>6. GaveWay'
  <2>1. CASE cancelled'
    BY <2>1 DEF GaveWay
  <2>2. CASE ~cancelled'
    <3>1. SUFFICES ASSUME pc["warmup"] \in Probing \ {"check"}, NEW w \in Users, user'[w] = "bridge"
                   PROVE  FALSE
      BY <1>2, <2>2 DEF GaveWay
    <3>2. ~cancelled /\ user[w] # "bridge" /\ warmCancel
      BY <1>1, <1>4, <2>2, <3>1 DEF GaveWay, CancelStored
    <3>3. w = u /\ to = "bridge"
      BY <1>1, <1>3, <3>1, <3>2 DEF TypeOK
    <3>4. QED
      BY <1>3, <2>2, <3>2, <3>3
  <2>3. QED
    BY <2>1, <2>2
<1>7. CancelStored' /\ EndedLate' /\ LoopLate' /\ OldIsOver'
  BY <1>1, <1>2, <1>4 DEF CancelStored, EndedLate, LoopLate, OldIsOver, Probing, Asking, Probes
<1>8. QED
  BY <1>5, <1>6, <1>7 DEF IInv

LEMMA QuietInv == ASSUME IInv, Quiet PROVE IInv'
<1>1. grace' = FALSE /\ UNCHANGED <<probes, context, owner, once, user, tried>>
  BY DEF Quiet
<1>2. UNCHANGED <<pc, uses, tries, closes, cancelled, warmCancel, warmReady, warmDone, http, adopt, ahead, stopped>>
  BY <1>1 DEF probes, context, owner
<1>3. TypeOK' /\ Counted'
  BY <1>1, <1>2 DEF IInv, TypeOK, Counted
<1>4. CancelStored' /\ GaveWay' /\ EndedLate' /\ LoopLate' /\ OldIsOver'
  BY <1>1, <1>2 DEF IInv, CancelStored, EndedLate, LoopLate, OldIsOver, GaveWay
<1>5. QED
  BY <1>3, <1>4 DEF IInv

-----------------------------------------------------------------------------
\* Whoever adopts has waited for the warmup, whose context has ended by then if
\* its time began before the adoption's, and starts the keepalive loop with the new HTTP client in place.
LEMMA AdoptInv == ASSUME IInv, Adopt PROVE IInv'
<1>1. TypeOK /\ Counted /\ CancelStored /\ GaveWay /\ EndedLate /\ LoopLate /\ OldIsOver
  BY DEF IInv
<1>2. UNCHANGED <<warmCancel, warmReady, warmDone, users, user, stopped>>
  BY DEF Adopt, users
<1>3. CASE adopt = "activate"
  <2>1. adopt' = "yes" /\ Goto("keepalive", "wait") /\ UNCHANGED <<cancelled, http, ahead>>
    BY <1>3 DEF Adopt, Abort, AbortWarmup, Waited
  <2>2. /\ {cancelled', warmCancel', warmReady', warmDone', ahead', stopped'} \subseteq BOOLEAN
        /\ adopt' \in {"no", "abort", "call", "wait", "use", "activate", "yes", "never"}
    BY <1>1, <1>2, <2>1 DEF TypeOK
  <2>3. /\ TypeOK' /\ Counted' /\ pc'["keepalive"] = "wait" /\ uses'["keepalive"] = "none"
        /\ \A q \in Probes : q # "keepalive" => pc'[q] = pc[q] /\ uses'[q] = uses[q]
    BY <1>1, <1>2, <2>1, <2>2, GotoProbes DEF Probes, Probing, Asking, WarmupOnly, LoopOnly
  <2>4. CancelStored' /\ GaveWay' /\ EndedLate' /\ LoopLate' /\ OldIsOver'
    BY <1>1, <1>2, <1>3, <2>1, <2>3 DEF CancelStored, EndedLate, LoopLate, OldIsOver, GaveWay,
       Probing, Asking, Probes
  <2>5. QED
    BY <2>3, <2>4 DEF IInv
<1>4. CASE adopt # "activate"
  <2>1. UNCHANGED <<pc, uses, tries, closes, once, tried, grace>>
    BY <1>2, <1>4 DEF Adopt, probes, users
  <2>2. /\ cancelled' \in BOOLEAN /\ (cancelled => cancelled')
        /\ http' \in {"old", "new"} /\ (http = "new" => http' = "new")
        /\ adopt' \in {"abort", "call", "wait", "use", "activate"}
        /\ ahead' \in BOOLEAN /\ (ahead' = ahead \/ adopt = "abort")
    <3>1. CASE adopt = "call"
      BY <1>1, <3>1 DEF Adopt, Abort, AbortWarmup, Waited, TypeOK
    <3>2. CASE adopt = "use"
      BY <1>1, <3>2 DEF Adopt, Abort, AbortWarmup, Waited, TypeOK
    <3>3. CASE adopt = "abort"
      BY <1>1, <3>3 DEF Adopt, Abort, AbortWarmup, Waited, TypeOK
    <3>4. CASE adopt \in {"no", "wait"}
      BY <1>1, <3>4 DEF Adopt, Abort, AbortWarmup, Waited, TypeOK
    <3>5. QED
      BY <1>4, <3>1, <3>2, <3>3, <3>4 DEF Adopt, Abort, AbortWarmup, Waited
  <2>3. adopt \in {"no", "abort", "call", "wait", "use"}
    BY <1>4 DEF Adopt, Abort, AbortWarmup, Waited
  <2>4. /\ adopt' = "use" => cancelled' \/ ahead'
        /\ adopt' = "activate" => adopt = "use" /\ http' = "new"
    BY <1>1, <1>4, <2>2 DEF Adopt, Abort, AbortWarmup, Waited, EndedLate
  <2>5. TypeOK' /\ Counted'
    BY <1>1, <1>2, <2>1, <2>2 DEF TypeOK, Counted
  <2>6. OldIsOver'
    BY <1>1, <2>1, <2>2, <2>3, <2>4 DEF OldIsOver
  <2>7. CancelStored' /\ GaveWay' /\ EndedLate' /\ LoopLate'
    BY <1>1, <1>2, <2>1, <2>2 DEF CancelStored, EndedLate, LoopLate, GaveWay
  <2>8. QED
    BY <2>5, <2>6, <2>7 DEF IInv
<1>5. QED
  BY <1>3, <1>4

LEMMA StopInv == ASSUME IInv, Stop PROVE IInv'
<1>1. /\ UNCHANGED <<pc, uses, tries, closes, cancelled, warmCancel, warmReady, warmDone>>
      /\ UNCHANGED <<once, user, tried, grace, http, ahead>>
      /\ stopped' \in BOOLEAN
      /\ (adopt = "no" /\ adopt' = "never") \/ (adopt = "yes" /\ adopt' = adopt)
  BY DEF Stop, probes, context, users
<1>2. TypeOK' /\ Counted'
  BY <1>1 DEF IInv, TypeOK, Counted
<1>3. CancelStored' /\ GaveWay' /\ EndedLate' /\ LoopLate' /\ OldIsOver'
  BY <1>1 DEF IInv, CancelStored, EndedLate, LoopLate, OldIsOver, GaveWay
<1>4. QED
  BY <1>2, <1>3 DEF IInv

\* Every step keeps the invariant.
LEMMA NextIInv == IInv /\ [Next]_vars => IInv'
<1> SUFFICES ASSUME IInv, [Next]_vars PROVE IInv'
  OBVIOUS
<1>1. CASE Warmup
  BY <1>1, MakeContextInv, StoreCancelInv, UnwindInv, LookInv, LullInv, AnswerInv, CloseExistingInv
  DEF Warmup, Probe, Probes
<1>2. CASE Keepalive
  BY <1>2, AwaitInv, TickedInv, StopLoopInv, LookInv, LullInv, AnswerInv, CloseExistingInv
  DEF Keepalive, Probe, Probes
<1>3. CASE Expire \/ Tick \/ Quiet \/ Adopt \/ Stop
  BY <1>3, ExpireInv, TickInv, QuietInv, AdoptInv, StopInv
<1>4. ASSUME NEW u \in Users, Connect(u) \/ Serve(u) \/ EndBridge(u) PROVE IInv'
  BY <1>4, ConnectInv, OnceInv, WaitFirstInv, OpenInv, BeginBridgeInv, EndBridgeInv DEF Serve
<1>5. CASE UNCHANGED vars
  BY <1>5 DEF vars, probes, context, users, owner, IInv, TypeOK, Counted, CancelStored, GaveWay,
     EndedLate, LoopLate, OldIsOver
<1>6. QED
  BY <1>1, <1>2, <1>3, <1>4, <1>5 DEF Next

\* The invariant holds for any connections and any number of URLs.
THEOREM WarmupInvariant == Spec => []IInv
<1>1. Init => IInv
  BY InitIInv
<1>2. IInv /\ [Next]_vars => IInv'
  BY NextIInv
<1>3. QED
  BY <1>1, <1>2, PTL DEF Spec

\* What the warmup, its keepalive loop, its connections and its adoption keep
\* is of the kinds the code declares, and no deep warmup asks more URLs than
\* there are.
THEOREM WarmupTypeCorrect == Spec => []TypeOK
<1>1. IInv => TypeOK
  BY DEF IInv
<1>2. QED
  BY <1>1, WarmupInvariant, PTL

\* No ping and no batch of a warmup that its context has not ended is alive
\* beside a bridge that has begun or beside a request of the keepalive loop,
\* though the closes of its session may be (runWarmup, beginBridge,
\* abortWarmup, bestEffortClose).
THEOREM WarmupGivesWay == Spec => []WarmupAlone
<1>1. IInv => WarmupAlone
  BY DEF IInv, WarmupAlone, Live, GaveWay, LoopLate, Probing, Asking
<1>2. QED
  BY <1>1, WarmupInvariant, PTL

\* Through the HTTP client of before the VPN an adopted client has at most one
\* request of its warmup under way, dead or a close, where the adoption looked
\* for the warmup after its first step (adoptOrCreateTunnelClient,
\* UseHTTPClient, ActivateKeepalive).
THEOREM AdoptedUsesNewClient == Spec => []NewClientOnly
<1>1. IInv => NewClientOnly
  BY DEF IInv, NewClientOnly, OldIsOver, Probes
<1>2. QED
  BY <1>1, WarmupInvariant, PTL

=============================================================================
