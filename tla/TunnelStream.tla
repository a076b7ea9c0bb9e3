---------------------------- MODULE TunnelStream ----------------------------
(***************************************************************************)
(* One opened tunnel session carrying a TCP byte stream each way           *)
(* (relay/tunnel/tunnel_bridge.go and Exchange in tunnel_client.go): the   *)
(* TX loop and the RX goroutine of the bridge, their batched exchanges     *)
(* with failover over the Apps Script URLs, a network that may lose or     *)
(* delay a request and lose its reply, and the exit, where the hub of      *)
(* ExitTunnel appears as its registry: one session, open or gone.          *)
(*                                                                         *)
(* Bytes are counted in units; unit k is the k-th of its direction.  The   *)
(* bridge's pending buffer always holds the units cut+1..rd of the local   *)
(* stream, so it is kept as the two counters.                              *)
(***************************************************************************)
EXTENDS Integers, Sequences, FiniteSets

CONSTANTS Chunk,      \* TunnelChunkSize, in units
          MaxBatch,   \* MaxTXPerBatch
          Urls,       \* number of Apps Script URLs
          Legacy,     \* deployments that do not know batches ("tb")
          NIn, NOut,  \* bound: length of the local and the remote stream
          MaxFaults,  \* bound: failed attempts and exit restarts
          MaxLate     \* bound: abandoned requests still travelling

ASSUME StreamAssumption ==
  /\ {Chunk, MaxBatch, Urls} \subseteq Nat \ {0}
  /\ Legacy \subseteq 0 .. Urls - 1
  /\ {NIn, NOut, MaxFaults, MaxLate} \subseteq Nat

VARIABLES rd, cut,    \* units read from local, units taken into tx ops
          localEnd,   \* how reading from local ended, if it did
          tx, rx,     \* where the TX loop and the RX goroutine are
          cause,      \* why the TX loop stopped
          cancelled,  \* the bridge's context
          rxFailed,   \* an error waits in the rxFailed channel
          delivered,  \* units written to local, in order
          ex,         \* ex[f]: the exchange flow f is in
          msg,        \* msg[f]: the current attempt's request
          late,       \* op lists of abandoned requests, still to be executed
          url,        \* TunnelSession.urlIdx
          faults,     \* failed attempts and restarts so far
          sess,       \* the exit's session: "open" | "gone"
          got, out,   \* units the target received; units read from it
          ghost       \* history: flows with an effect nobody was told of

bridge == <<rd, cut, localEnd, tx, rx, cause, cancelled, rxFailed, delivered>>
net == <<ex, msg, late, url, faults, ghost>>
exit == <<sess, got, out>>
vars == <<bridge, net, exit>>

Flows == {"tx", "rx", "close"}

TXOp(from, to) == [op |-> "tx", from |-> from, to |-> to]
RXOp == [op |-> "rx", from |-> 0, to |-> 0]
CloseOp == [op |-> "close", from |-> 0, to |-> 0]

IsOp(o) == /\ o.op \in {"tx", "rx", "close"}
           /\ o.from \in 0 .. NIn /\ o.to \in o.from .. NIn
IsOps(s) == \A i \in DOMAIN s : IsOp(s[i])

Idle == [st |-> "idle", ops |-> <<>>, mode |-> "batch", at |-> 1,
         start |-> 0, tried |-> 0, data |-> <<>>]
NoMsg == [st |-> "none", ops |-> <<>>, done |-> 0, data |-> <<>>]

TypeOK ==
  /\ rd \in 0 .. NIn /\ cut \in 0 .. rd
  /\ localEnd \in {"none", "eof", "error"} /\ cancelled \in BOOLEAN /\ rxFailed \in BOOLEAN
  /\ tx \in {"loop", "exchange", "wait", "closing", "ended"}
  /\ rx \in {"poll", "exchange", "ended"}
  /\ cause \in {"none", "done", "rx", "tx", "local", "ctx"}
  /\ \A i \in DOMAIN delivered : delivered[i] \in 1 .. NOut
  /\ \A f \in Flows :
       /\ ex[f].st \in {"idle", "busy", "ok", "err"}
       /\ ex[f].mode \in {"batch", "seq"}
       /\ ex[f].start \in 0 .. Urls - 1 /\ ex[f].tried \in 0 .. Urls - 1
       /\ IsOps(ex[f].ops)
       /\ msg[f].st \in {"none", "fly", "ok", "fail", "badurl"}
       /\ IsOps(msg[f].ops)
  /\ \A i \in DOMAIN late : IsOps(late[i])
  /\ url \in 0 .. Urls - 1
  /\ faults \in 0 .. MaxFaults
  /\ sess \in {"open", "gone"}
  /\ \A i \in DOMAIN got : got[i] \in 1 .. NIn
  /\ out \in 0 .. NOut
  /\ ghost \subseteq Flows

\* OpenSession has answered: the exit holds the session.
Init ==
  /\ rd = 0 /\ cut = 0 /\ localEnd = "none"
  /\ tx = "loop" /\ rx = "poll" /\ cause = "none"
  /\ cancelled = FALSE /\ rxFailed = FALSE /\ delivered = <<>>
  /\ ex = [f \in Flows |-> Idle] /\ msg = [f \in Flows |-> NoMsg]
  /\ late = <<>> /\ url \in 0 .. Urls - 1 /\ faults = 0 /\ ghost = {}
  /\ sess = "open" /\ got = <<>> /\ out = 0

-----------------------------------------------------------------------------
(* Exchange: one batch, URL after URL from the pinned one.                 *)

\* The request of the current attempt: the batch, or one op of it when the
\* batch was refused and the ops are sent one by one.
Request(x) == IF x.mode = "batch" THEN x.ops ELSE <<x.ops[x.at]>>
Posted(x) == [NoMsg EXCEPT !.st = "fly", !.ops = Request(x)]
Target(x) == (x.start + x.tried) % Urls

Start(f, ops) ==
  LET x == [Idle EXCEPT !.st = "busy", !.ops = ops, !.start = url,
                        !.mode = IF f = "close" THEN "seq" ELSE "batch"]
  IN  /\ ex' = [ex EXCEPT ![f] = x]
      /\ msg' = [msg EXCEPT ![f] = Posted(x)]
      /\ UNCHANGED <<late, url, faults, ghost>>

Flying(f) == ex[f].st = "busy" /\ msg[f].st = "fly"

\* An old deployment answers a batch with "bad url" and forwards nothing.
RefuseBatch(f) ==
  /\ Flying(f)
  /\ ex[f].mode = "batch" /\ Target(ex[f]) \in Legacy
  /\ msg' = [msg EXCEPT ![f].st = "badurl"]
  /\ UNCHANGED <<bridge, exit, ex, late, url, faults, ghost>>

\* Exchange then sends the ops one by one, starting at the pinned URL.
GoSequential(f) ==
  LET x == [ex[f] EXCEPT !.mode = "seq", !.at = 1, !.start = url, !.tried = 0] IN
  /\ ex[f].st = "busy" /\ msg[f].st = "badurl"
  /\ ex' = [ex EXCEPT ![f] = x]
  /\ msg' = [msg EXCEPT ![f] = Posted(x)]
  /\ UNCHANGED <<bridge, exit, late, url, faults, ghost>>

\* The reply of a completed request arrives: the URL is pinned, and the next
\* op is sent or the exchange is over.
Accept(f) ==
  LET x == [ex[f] EXCEPT !.data = @ \o msg[f].data]
      more == x.mode = "seq" /\ x.at < Len(x.ops)
      pinned == Target(x)
      next == [x EXCEPT !.at = @ + 1, !.start = pinned, !.tried = 0]
  IN  /\ ex[f].st = "busy" /\ msg[f].st = "ok"
      /\ url' = IF f = "close" THEN url ELSE pinned
      /\ ex' = [ex EXCEPT ![f] = IF more THEN next ELSE [x EXCEPT !.st = "ok"]]
      /\ msg' = [msg EXCEPT ![f] = IF more THEN Posted(next) ELSE NoMsg]
      /\ UNCHANGED <<bridge, exit, late, faults, ghost>>

\* The exit refused an op: not retried, the exchange fails.
Refused(f) ==
  /\ ex[f].st = "busy" /\ msg[f].st = "fail"
  /\ ex' = [ex EXCEPT ![f].st = "err"]
  /\ msg' = [msg EXCEPT ![f] = NoMsg]
  /\ UNCHANGED <<bridge, exit, late, url, faults, ghost>>

\* The client stops listening to an attempt: what the exit has not executed
\* yet vanishes, or travels on.  What it has executed nobody is told of.
Abandon(f) ==
  LET left == SubSeq(msg[f].ops, msg[f].done + 1, Len(msg[f].ops)) IN
  /\ ghost' = IF msg[f].done > 0 THEN ghost \cup {f} ELSE ghost
  /\ \/ UNCHANGED late
     \/ /\ msg[f].st = "fly" /\ left # <<>> /\ Len(late) < MaxLate
        /\ late' = Append(late, left)

\* A transport error, a timeout or a retryable body (a quota page, a failed
\* UrlFetch): the same request goes to the next URL, or the exchange fails
\* when there is none left or its own time is up.
Fault(f) ==
  LET x == [ex[f] EXCEPT !.tried = @ + 1] IN
  /\ ex[f].st = "busy" /\ msg[f].st \in {"fly", "ok", "fail", "badurl"}
  /\ faults < MaxFaults
  /\ faults' = faults + 1
  /\ Abandon(f)
  /\ \/ /\ ex[f].tried + 1 < Urls
        /\ ex' = [ex EXCEPT ![f] = x]
        /\ msg' = [msg EXCEPT ![f] = Posted(x)]
     \/ /\ ex' = [ex EXCEPT ![f].st = "err"]
        /\ msg' = [msg EXCEPT ![f] = NoMsg]
  /\ UNCHANGED <<bridge, exit, url>>

\* The bridge's context ends and takes its exchanges with it; the closing
\* exchange runs on a context of its own.
Cancelled(f) ==
  /\ f # "close" /\ cancelled
  /\ ex[f].st = "busy"
  /\ Abandon(f)
  /\ ex' = [ex EXCEPT ![f].st = "err"]
  /\ msg' = [msg EXCEPT ![f] = NoMsg]
  /\ UNCHANGED <<bridge, exit, url, faults>>

-----------------------------------------------------------------------------
(* The exit executes one op.                                               *)

Segment(from, n) == [i \in 1 .. n |-> from + i - 1]

Write(o) == /\ sess = "open" /\ o.op = "tx"
            /\ got' = got \o Segment(o.from, o.to - o.from + 1)
            /\ UNCHANGED <<sess, out>>

\* A read takes what is there, or nothing at its deadline.
Read(o, n) == /\ sess = "open" /\ o.op = "rx"
              /\ out' = out + n
              /\ UNCHANGED <<sess, got>>

Close(o) == /\ o.op = "close"
            /\ sess' = "gone"
            /\ UNCHANGED <<got, out>>

\* The session is unknown, the target reset it (after part of a write), or
\* its stream is at its end: it leaves the map, the op is answered with an
\* error.
Fails(o) == /\ \/ sess = "gone" /\ o.op # "close" /\ UNCHANGED got
               \/ /\ sess = "open" /\ o.op = "tx"
                  /\ \E n \in 0 .. o.to - o.from : got' = got \o Segment(o.from, n)
               \/ sess = "open" /\ o.op = "rx" /\ out = NOut /\ UNCHANGED got
            /\ sess' = "gone"
            /\ UNCHANGED out

\* handleBatch runs the ops in order and stops at the first that fails.
Execute(f) ==
  LET m == msg[f]
      o == m.ops[m.done + 1]
      ran(d) == [m EXCEPT !.done = @ + 1, !.data = @ \o d,
                          !.st = IF m.done + 1 = Len(m.ops) THEN "ok" ELSE "fly"]
  IN  /\ Flying(f) /\ m.done < Len(m.ops)
      /\ ~(ex[f].mode = "batch" /\ Target(ex[f]) \in Legacy)
      /\ \/ /\ Write(o) \/ Close(o)
            /\ msg' = [msg EXCEPT ![f] = ran(<<>>)]
         \/ \E n \in 0 .. NOut - out :
              Read(o, n) /\ msg' = [msg EXCEPT ![f] = ran(Segment(out + 1, n))]
         \/ Fails(o) /\ msg' = [msg EXCEPT ![f].st = "fail"]
      /\ UNCHANGED <<bridge, ex, late, url, faults, ghost>>

\* An abandoned request reaches the exit after all.
ExecuteLate ==
  \E i \in DOMAIN late :
    LET o == Head(late[i])
        rest == SubSeq(late, 1, i - 1) \o SubSeq(late, i + 1, Len(late))
    IN  /\ \/ /\ \/ Write(o) \/ Close(o)
                 \/ \E n \in 0 .. NOut - out : Read(o, n)
              /\ late' = IF Len(late[i]) = 1 THEN rest ELSE [late EXCEPT ![i] = Tail(@)]
           \/ Fails(o) /\ late' = rest
        /\ ghost' = ghost \cup {o.op}
        /\ UNCHANGED <<bridge, ex, msg, url, faults>>

\* The target's idle session is swept.  A live bridge polls far more often
\* than every two minutes, so only a session the bridge has left goes idle.
Sweep ==
  /\ tx = "ended" /\ sess = "open"
  /\ sess' = "gone"
  /\ UNCHANGED <<bridge, net, got, out>>

\* The exit restarts, or the Durable Object is evicted: sessions are kept in
\* memory only.
Restart ==
  /\ sess = "open" /\ faults < MaxFaults
  /\ sess' = "gone" /\ faults' = faults + 1
  /\ UNCHANGED <<bridge, ex, msg, late, url, ghost, got, out>>

-----------------------------------------------------------------------------
(* The TX loop.                                                            *)

localDone == localEnd # "none"
Pending == rd - cut
Full == Pending >= Chunk * MaxBatch
rest == <<rx, rxFailed, delivered>>

ReadLocal ==
  /\ tx = "loop" /\ ~localDone /\ ~Full
  /\ \/ \E n \in 1 .. Chunk : rd + n <= NIn /\ rd' = rd + n /\ UNCHANGED localEnd
     \/ rd = NIn /\ localEnd' = "eof" /\ UNCHANGED rd
  /\ UNCHANGED <<cut, tx, cause, cancelled, rest, net, exit>>

Stop(why) == /\ cancelled' = TRUE
             /\ cause' = why
             /\ tx' = "wait"

\* A local read error: the main read stops the bridge at once, the
\* coalescing read (absorbLocal) lets it send what it has first.
LocalError ==
  /\ tx = "loop" /\ ~localDone
  /\ \/ Stop("local") /\ UNCHANGED localEnd
     \/ localEnd' = "error" /\ UNCHANGED <<tx, cause, cancelled>>
  /\ UNCHANGED <<rd, cut, rest, net, exit>>

\* appendTXOps: full chunks first; a shorter tail only at the end of the
\* local stream or when there is nothing else to send.
Chunks == IF Pending \div Chunk < MaxBatch THEN Pending \div Chunk ELSE MaxBatch
\* Mutant: a tail op even when full chunks were all there was.
WithEmptyTail == Chunks < MaxBatch /\ (localDone \/ Chunks = 0)

WithTail == /\ Chunks < MaxBatch
            /\ Pending > Chunks * Chunk
            /\ localDone \/ Chunks = 0
Batch == [i \in 1 .. Chunks |-> TXOp(cut + (i - 1) * Chunk + 1, cut + i * Chunk)]
         \o (IF WithTail THEN <<TXOp(cut + Chunks * Chunk + 1, rd)>> ELSE <<>>)

\* flushTX, when the stream ended, the batch is full or txCoalesceMaxWait
\* passed.  Its second round (moreTX) never happens: a batch leaves less than
\* a chunk behind unless localDone.
Flush ==
  /\ tx = "loop" /\ Pending > 0
  /\ cut' = IF WithTail THEN rd ELSE cut + Chunks * Chunk
  /\ tx' = "exchange"
  /\ Start("tx", Batch)
  /\ UNCHANGED <<rd, localEnd, cause, cancelled, rest, exit>>

EndExchange(f) == /\ ex' = [ex EXCEPT ![f] = Idle]
                  /\ UNCHANGED <<msg, late, url, faults, ghost>>

\* Mutant: the bridge goes on after a batch that failed.
FlushedAnyway ==
  /\ tx = "exchange" /\ ex["tx"].st \in {"ok", "err"}
  /\ tx' = "loop"
  /\ EndExchange("tx")
  /\ UNCHANGED <<rd, cut, localEnd, cause, cancelled, rest, exit>>

Flushed ==
  /\ tx = "exchange" /\ ex["tx"].st \in {"ok", "err"}
  /\ IF ex["tx"].st = "ok"
     THEN tx' = "loop" /\ UNCHANGED <<cause, cancelled>>
     ELSE Stop("tx")
  /\ EndExchange("tx")
  /\ UNCHANGED <<rd, cut, localEnd, rest, exit>>

SeeRXFailed ==
  /\ tx = "loop" /\ rxFailed
  /\ rxFailed' = FALSE
  /\ Stop("rx")
  /\ UNCHANGED <<rd, cut, localEnd, rx, delivered, net, exit>>

SeeCancelled ==
  /\ tx = "loop" /\ cancelled
  /\ Stop("ctx")
  /\ UNCHANGED <<rd, cut, localEnd, rest, net, exit>>

Finish ==
  /\ tx = "loop" /\ localDone /\ Pending = 0
  /\ Stop("done")
  /\ UNCHANGED <<rd, cut, localEnd, rest, net, exit>>

\* Deferred: wait for the RX goroutine, then close the session.
CloseSession ==
  /\ tx = "wait" /\ rx = "ended"
  /\ tx' = "closing"
  /\ Start("close", <<CloseOp>>)
  /\ UNCHANGED <<rd, cut, localEnd, cause, cancelled, rest, exit>>

Closed ==
  /\ tx = "closing" /\ ex["close"].st \in {"ok", "err"}
  /\ tx' = "ended"
  /\ EndExchange("close")
  /\ UNCHANGED <<rd, cut, localEnd, cause, cancelled, rest, exit>>

-----------------------------------------------------------------------------
(* The RX goroutine.                                                       *)

\* Mutant: the RX goroutine does not look at its context.
PollAlways ==
  /\ rx = "poll"
  /\ rx' = "exchange"
  /\ Start("rx", <<RXOp>>)
  /\ UNCHANGED <<rd, cut, localEnd, tx, cause, cancelled, rxFailed, delivered, exit>>

Poll ==
  /\ rx = "poll" /\ ~cancelled
  /\ rx' = "exchange"
  /\ Start("rx", <<RXOp>>)
  /\ UNCHANGED <<rd, cut, localEnd, tx, cause, cancelled, rxFailed, delivered, exit>>

RXStop ==
  /\ rx = "poll" /\ cancelled
  /\ rx' = "ended"
  /\ UNCHANGED <<rd, cut, localEnd, tx, cause, cancelled, rxFailed, delivered, net, exit>>

\* fail(): nothing is reported once the context is over.
RXFail == rx' = "ended" /\ rxFailed' = ~cancelled /\ UNCHANGED delivered

\* Mutant: a short write is repeated from the start.
DeliveredAgain(data) ==
  delivered' = delivered \o (IF Len(data) > 1 THEN SubSeq(data, 1, 1) ELSE <<>>) \o data

\* What a completed poll writes to local.
Delivered(data) == delivered' = delivered \o data

\* Writing to local may fail; no deadline bounds it, so that it may also take for
\* ever (see Fairness).
WritingLocal == rx = "exchange" /\ ex["rx"].st = "ok" /\ ex["rx"].data # <<>>

Deliver ==
  /\ rx = "exchange" /\ ex["rx"].st \in {"ok", "err"}
  /\ \/ /\ ex["rx"].st = "ok"
        /\ rx' = "poll"
        /\ Delivered(ex["rx"].data)
        /\ UNCHANGED rxFailed
     \/ (ex["rx"].st = "err" \/ ex["rx"].data # <<>>) /\ RXFail
  /\ EndExchange("rx")
  /\ UNCHANGED <<rd, cut, localEnd, tx, cause, cancelled, exit>>

-----------------------------------------------------------------------------
\* The caller's context is cancelled: the tunnel is being stopped.
ParentCancel ==
  /\ ~cancelled /\ tx \in {"loop", "exchange"}
  /\ cancelled' = TRUE
  /\ UNCHANGED <<rd, cut, localEnd, tx, cause, rest, net, exit>>

TXLoop == Flushed \/ SeeRXFailed \/ SeeCancelled \/ Finish \/ CloseSession \/ Closed
RXLoop == Poll \/ RXStop \/ Deliver
Exchange(f) == RefuseBatch(f) \/ GoSequential(f) \/ Accept(f) \/ Refused(f) \/ Cancelled(f)

Next == \/ ReadLocal \/ LocalError \/ Flush \/ TXLoop
        \/ RXLoop
        \/ \E f \in Flows : Exchange(f) \/ Execute(f) \/ Fault(f)
        \/ ExecuteLate \/ Sweep \/ Restart \/ ParentCancel

Spec == Init /\ [][Next]_vars

\* Goroutines run, requests that are not lost are executed and answered
\* (every attempt has a timeout), and the exit's janitor sweeps.  That local
\* takes what is written to it is not assumed.
Fairness == /\ WF_vars(TXLoop \/ Flush) /\ WF_vars(~WritingLocal /\ RXLoop)
            /\ WF_vars(Sweep)
            /\ \A f \in Flows : WF_vars(Exchange(f) \/ Execute(f))

FairSpec == Spec /\ Fairness

-----------------------------------------------------------------------------
Elems(s) == {s[i] : i \in DOMAIN s}

\* The upload: a byte arrives for the first time only after the byte before
\* it, whatever is lost, late or sent again (the ops carry no sequence
\* numbers, so a batch sent again may repeat bytes); every byte arrives once
\* and in order as long as no attempt took effect without its reply being
\* accepted; and when the bridge ends because local is done, the target has
\* every byte the bridge read.
UploadFaithful ==
  /\ \A i \in DOMAIN got : got[i] = 1 \/ \E j \in 1 .. i - 1 : got[j] = got[i] - 1
  /\ "tx" \notin ghost => \A i \in DOMAIN got : got[i] = i
  /\ cause = "done" => 1 .. rd \subseteq Elems(got)

\* The download: local never sees a byte twice or out of order, whatever is
\* lost or late, and misses none as long as no poll was answered into the
\* void.
DownloadFaithful ==
  /\ \A i, j \in DOMAIN delivered : i < j => delivered[i] < delivered[j]
  /\ "rx" \notin ghost => \A i \in DOMAIN delivered : delivered[i] = i

\* Once the local side is done or the context is over, the bridge ends, and the
\* exit's session with it or swept after it; but for one thing: the RX goroutine is
\* in a write that local does not take, and the bridge waits for the RX goroutine
\* (tunnel_bridge.go:336, 69-72).  When that write ends, there is no other; and
\* what the bridge has to end for does not pass.
BridgeEnds ==
  []<>(localDone \/ cancelled =>
         (tx = "ended" /\ sess = "gone") \/ (tx = "wait" /\ WritingLocal))
=============================================================================
