----------------------------- MODULE StreamProofs -----------------------------
(***************************************************************************)
(* What TunnelStream promises of the bytes that go through one session,    *)
(* for streams, chunks and batches of any size and any number of URLs,     *)
(* faults and late requests.                                               *)
(***************************************************************************)
EXTENDS TunnelStream, SequenceTheorems, TLAPS

-----------------------------------------------------------------------------
(* The inductive invariant.                                                *)

OpT == {o \in [op : {"tx", "rx", "close"}, from : 0 .. NIn, to : 0 .. NIn] : o.from <= o.to}
ExT == [st : {"idle", "busy", "ok", "err"}, ops : Seq(OpT), mode : {"batch", "seq"},
        at : Nat, start : 0 .. Urls - 1, tried : 0 .. Urls - 1, data : Seq(1 .. NOut)]
MsgT == [st : {"none", "fly", "ok", "fail", "badurl"}, ops : Seq(OpT), done : Nat,
         data : Seq(1 .. NOut)]

BridgeTypes ==
  /\ rd \in 0 .. NIn /\ cut \in 0 .. rd
  /\ localEnd \in {"none", "eof", "error"} /\ cancelled \in BOOLEAN /\ rxFailed \in BOOLEAN
  /\ tx \in {"loop", "exchange", "wait", "closing", "ended"}
  /\ rx \in {"poll", "exchange", "ended"}
  /\ cause \in {"none", "done", "rx", "tx", "local", "ctx"}
  /\ delivered \in Seq(1 .. NOut)

NetTypes ==
  /\ ex \in [Flows -> ExT] /\ msg \in [Flows -> MsgT]
  /\ late \in Seq(Seq(OpT))
  /\ url \in 0 .. Urls - 1 /\ faults \in 0 .. MaxFaults
  /\ ghost \in SUBSET Flows

ExitTypes == sess \in {"open", "gone"} /\ got \in Seq(1 .. NIn) /\ out \in 0 .. NOut

\* g holds the units 1..m.
Has(g, m) == \A u \in 1 .. m : \E i \in DOMAIN g : g[i] = u

\* Ops that carry consecutive units.
Chain(ops) ==
  /\ ops # <<>>
  /\ \A k \in DOMAIN ops : ops[k].op = "tx" /\ 1 <= ops[k].from /\ ops[k].from <= ops[k].to
  /\ \A k \in DOMAIN ops : k + 1 \in DOMAIN ops => ops[k + 1].from = ops[k].to + 1

\* What one exchange looks like while it runs.
Attempt(x, m) ==
  /\ x.st # "idle" => x.ops # <<>>
  /\ x.st # "busy" => m.done = 0 /\ m.data = <<>>
  /\ x.st = "busy" =>
       /\ x.at \in 1 .. Len(x.ops)
       /\ m.ops = Request(x) /\ m.done \in 0 .. Len(m.ops)
       /\ m.st \in {"fly", "ok", "fail", "badurl"}
       /\ m.st = "ok" => m.done = Len(m.ops)
       /\ m.st # "ok" => m.done < Len(m.ops)
       /\ m.st = "badurl" => m.done = 0 /\ x.mode = "batch"
       /\ x.mode = "batch" /\ Target(x) \in Legacy => m.done = 0

\* Which exchange runs, and with what.
Phases ==
  /\ \A f \in Flows : Attempt(ex[f], msg[f])
  /\ tx = "exchange" <=> ex["tx"].st # "idle"
  /\ rx = "exchange" <=> ex["rx"].st # "idle"
  /\ tx = "closing" <=> ex["close"].st # "idle"
  /\ tx \in {"loop", "exchange"} => cause = "none"
  /\ ex["rx"].st # "idle" => ex["rx"].ops = <<RXOp>>
  /\ ex["close"].st # "idle" => ex["close"].ops = <<CloseOp>>
  /\ ex["tx"].st # "idle" =>
       Chain(ex["tx"].ops) /\ ex["tx"].ops[Len(ex["tx"].ops)].to = cut

\* An abandoned list of ops, when g has what precedes it.
Fits(s, g) == /\ s # <<>>
              /\ \/ Chain(s) /\ Has(g, s[1].from - 1)
                 \/ s = <<RXOp>> \/ s = <<CloseOp>>

\* Before an op reaches the exit the target has what precedes it.
InOrder ==
  /\ tx = "loop" \/ ex["tx"].st = "ok" => Has(got, cut)
  /\ cause = "done" => Has(got, rd)
  /\ ex["tx"].st # "idle" => Has(got, ex["tx"].ops[1].from - 1)
  /\ ex["tx"].st = "busy" =>
       /\ Has(got, msg["tx"].ops[1].from - 1)
       /\ msg["tx"].done > 0 => Has(got, msg["tx"].ops[msg["tx"].done].to)
  /\ \A i \in DOMAIN late : Fits(late[i], got)

\* The length of the upload as long as nothing was executed unnoticed.
Sent == IF ex["tx"].st = "busy"
        THEN IF msg["tx"].done = 0 THEN msg["tx"].ops[1].from - 1
             ELSE msg["tx"].ops[msg["tx"].done].to
        ELSE cut
Straight(g) == \A i \in DOMAIN g : g[i] = i
Exact ==
  "tx" \notin ghost =>
    /\ Straight(got)
    /\ sess = "open" /\ (tx = "loop" \/ ex["tx"].st \in {"busy", "ok"}) => Len(got) = Sent

\* A unit comes for the first time only after the one before it.
NoHole(g) == \A i \in DOMAIN g : g[i] = 1 \/ \E j \in 1 .. i - 1 : g[j] = g[i] - 1

\* Units d that are not in s, in the order in which they were read, when n
\* have been read.
Fresh(d, s, n) ==
  /\ \A j \in DOMAIN d : d[j] <= n /\ \A i \in DOMAIN s : s[i] < d[j]
  /\ \A i, j \in DOMAIN d : i < j => d[i] < d[j]

Follows(d, s) == \A j \in DOMAIN d : d[j] = Len(s) + j

Ascends ==
  /\ \A i, j \in DOMAIN delivered : i < j => delivered[i] < delivered[j]
  /\ \A i \in DOMAIN delivered : delivered[i] <= out
  /\ Fresh(ex["rx"].data, delivered, out) /\ Fresh(msg["rx"].data, delivered, out)
  /\ ex["rx"].st # "ok" => ex["rx"].data = <<>>
  /\ msg["rx"].done = 0 => msg["rx"].data = <<>>

Unbroken ==
  "rx" \notin ghost =>
    /\ \A i \in DOMAIN delivered : delivered[i] = i
    /\ rx # "ended" /\ ex["rx"].st # "err" =>
         /\ Follows(ex["rx"].data, delivered) /\ Follows(msg["rx"].data, delivered)
         /\ out = Len(delivered) + Len(ex["rx"].data) + Len(msg["rx"].data)

IInv == /\ BridgeTypes /\ NetTypes /\ ExitTypes /\ Phases /\ InOrder /\ Exact
        /\ NoHole(got) /\ Ascends /\ Unbroken

-----------------------------------------------------------------------------
(* Facts about ops and sequences of units.                                 *)

LEMMA OpTypes ==
  /\ RXOp \in OpT /\ CloseOp \in OpT
  /\ <<RXOp>> \in Seq(OpT) /\ <<CloseOp>> \in Seq(OpT)
  /\ Idle \in ExT /\ NoMsg \in MsgT
<1>1. RXOp \in OpT /\ CloseOp \in OpT
  BY StreamAssumption DEF RXOp, CloseOp, OpT
<1>2. <<>> \in Seq(OpT) /\ <<>> \in Seq(1 .. NOut)
  BY EmptySeq
<1>3. 0 \in 0 .. Urls - 1
  BY StreamAssumption
<1> QED
  BY <1>1, <1>2, <1>3 DEF Idle, NoMsg, ExT, MsgT

LEMMA SegmentIs ==
  ASSUME NEW a \in Nat, NEW n \in Nat, NEW M \in Nat, a >= 1, a + n - 1 <= M
  PROVE  /\ Segment(a, n) \in Seq(1 .. M) /\ Len(Segment(a, n)) = n
         /\ DOMAIN Segment(a, n) = 1 .. n
         /\ \A i \in 1 .. n : Segment(a, n)[i] = a + i - 1
  BY DEF Segment

\* A write of consecutive units, the first of which is in its turn.
LEMMA Extends ==
  ASSUME NEW g \in Seq(1 .. NIn), NEW a \in Nat, NEW n \in Nat, a >= 1, a + n - 1 <= NIn,
         Has(g, a - 1), NoHole(g)
  PROVE  LET h == g \o Segment(a, n) IN
         /\ NoHole(h) /\ Has(h, a + n - 1)
         /\ \A k \in Nat : Has(g, k) => Has(h, k)
         /\ Straight(g) /\ Len(g) = a - 1 => Straight(h) /\ Len(h) = a + n - 1
<1> DEFINE h == g \o Segment(a, n)
           l == Len(g)
<1>1. NIn \in Nat /\ l \in Nat /\ DOMAIN g = 1 .. l /\ a \in Nat /\ n \in Nat /\ a >= 1
  BY StreamAssumption
<1>2. /\ h \in Seq(1 .. NIn) /\ Len(h) = l + n /\ DOMAIN h = 1 .. l + n
      /\ \A i \in 1 .. l : h[i] = g[i]
      /\ \A i \in 1 .. n : h[l + i] = a + i - 1
  <2> DEFINE s == Segment(a, n)
  <2>1. s \in Seq(1 .. NIn) /\ Len(s) = n /\ \A i \in 1 .. n : s[i] = a + i - 1
    BY <1>1, SegmentIs
  <2> HIDE DEF s
  <2>2. h = g \o s
    BY DEF s
  <2> HIDE DEF h
  <2>3. h \in Seq(1 .. NIn) /\ Len(h) = l + n
    BY <2>1, <2>2, ConcatProperties
  <2>4. DOMAIN h = 1 .. l + n
    BY <2>3, <1>1
  <2>5. \A i \in 1 .. l : h[i] = g[i]
    BY <2>1, <2>2, <1>1
  <2>6. ASSUME NEW i \in 1 .. n PROVE h[l + i] = a + i - 1
    <3>1. l + i > l /\ l + i <= l + n /\ l + i \in Nat /\ l + i - l = i
      BY <1>1
    <3>2. h[l + i] = s[l + i - l]
      BY <3>1, <2>1, <2>2, <1>1
    <3> QED
      BY <3>1, <3>2, <2>1
  <2> QED
    BY <2>3, <2>4, <2>5, <2>6
<1> HIDE DEF h, l
<1>3. ASSUME NEW k \in Nat, Has(g, k) PROVE Has(h, k)
  <2> SUFFICES ASSUME NEW u \in 1 .. k PROVE \E i \in DOMAIN h : h[i] = u
    BY DEF Has
  <2>1. PICK i \in DOMAIN g : g[i] = u
    BY <1>3 DEF Has
  <2>2. i \in DOMAIN h /\ h[i] = u
    BY <2>1, <1>1, <1>2
  <2> QED
    BY <2>2
<1>4. Has(h, a + n - 1)
  <2> SUFFICES ASSUME NEW u \in 1 .. a + n - 1 PROVE \E i \in DOMAIN h : h[i] = u
    BY DEF Has
  <2>1. CASE u <= a - 1
    <3>1. PICK i \in DOMAIN g : g[i] = u
      BY <2>1, <1>1 DEF Has
    <3>2. i \in DOMAIN h /\ h[i] = u
      BY <3>1, <1>1, <1>2
    <3> QED
      BY <3>2
  <2>2. CASE u > a - 1
    <3>1. u - a + 1 \in 1 .. n /\ a + (u - a + 1) - 1 = u
      BY <2>2, <1>1
    <3>2. l + (u - a + 1) \in DOMAIN h
      BY <3>1, <1>1, <1>2
    <3>3. h[l + (u - a + 1)] = u
      BY <3>1, <1>2
    <3> QED
      BY <3>2, <3>3
  <2> QED
    BY <2>1, <2>2, <1>1
<1>5. NoHole(h)
  <2> SUFFICES ASSUME NEW i \in DOMAIN h
               PROVE  h[i] = 1 \/ \E j \in 1 .. i - 1 : h[j] = h[i] - 1
    BY DEF NoHole
  <2>i. i \in 1 .. l + n
    BY <1>2
  <2>1. CASE i <= l
    <3>1. i \in DOMAIN g /\ h[i] = g[i]
      BY <2>1, <2>i, <1>1, <1>2
    <3>2. CASE g[i] = 1
      BY <3>1, <3>2
    <3>3. CASE \E j \in 1 .. i - 1 : g[j] = g[i] - 1
      <4>1. PICK j \in 1 .. i - 1 : g[j] = g[i] - 1
        BY <3>3
      <4>2. h[j] = g[j]
        BY <2>1, <2>i, <1>1, <1>2
      <4> QED
        BY <4>1, <4>2, <3>1
    <3> QED
      BY <3>1, <3>2, <3>3 DEF NoHole
  <2>2. CASE i = l + 1
    <3>1. h[i] = a
      <4>1. 1 \in 1 .. n /\ a + 1 - 1 = a
        BY <2>2, <2>i, <1>1
      <4> QED
        BY <4>1, <2>2, <1>2
    <3>2. CASE a = 1
      BY <3>1, <3>2
    <3>3. CASE a > 1
      <4>0. a - 1 \in 1 .. a - 1
        BY <3>3, <1>1
      <4>1. PICK j \in DOMAIN g : g[j] = a - 1
        BY <4>0 DEF Has
      <4>2. j \in 1 .. i - 1 /\ h[j] = a - 1
        BY <4>1, <2>2, <1>1, <1>2
      <4> QED
        BY <3>1, <4>2
    <3> QED
      BY <3>2, <3>3, <1>1
  <2>3. CASE i > l + 1
    <3> DEFINE k == i - l
    <3>1. k \in 1 .. n /\ k - 1 \in 1 .. n /\ i = l + k /\ i - 1 = l + (k - 1)
      BY <2>3, <2>i, <1>1
    <3> HIDE DEF k
    <3>2. h[l + k] = a + k - 1 /\ h[l + (k - 1)] = a + (k - 1) - 1
      BY <3>1, <1>2
    <3>3. i - 1 \in 1 .. i - 1
      BY <2>3, <2>i, <1>1
    <3>4. h[i - 1] = h[i] - 1
      BY <3>2, <3>1, <1>1
    <3> QED
      BY <3>3, <3>4
  <2> QED
    BY <2>1, <2>2, <2>3, <2>i, <1>1
<1>6. ASSUME Straight(g), Len(g) = a - 1 PROVE Straight(h) /\ Len(h) = a + n - 1
  <2>1. l = a - 1
    BY <1>6 DEF l
  <2>2. ASSUME NEW i \in DOMAIN h PROVE h[i] = i
    <3>0. i \in 1 .. l + n
      BY <1>2
    <3>1. CASE i <= l
      <4>1. i \in DOMAIN g /\ h[i] = g[i]
        BY <3>0, <3>1, <1>1, <1>2
      <4> QED
        BY <4>1, <1>6 DEF Straight
    <3>2. CASE i > l
      <4>1. i - l \in 1 .. n /\ l + (i - l) = i /\ a + (i - l) - 1 = i
        BY <3>0, <3>2, <2>1, <1>1
      <4>2. h[l + (i - l)] = a + (i - l) - 1
        BY <4>1, <1>2
      <4> QED
        BY <4>1, <4>2
    <3> QED
      BY <3>0, <3>1, <3>2, <1>1
  <2>3. Len(h) = a + n - 1
    BY <2>1, <1>1, <1>2
  <2> QED
    BY <2>2, <2>3 DEF Straight
<1> QED
  BY <1>3, <1>4, <1>5, <1>6 DEF h

\* A request is made of the exchange's ops.
LEMMA RequestIs ==
  ASSUME NEW x \in ExT, x.at \in 1 .. Len(x.ops)
  PROVE  /\ Request(x) \in Seq(OpT) /\ Request(x) # <<>>
         /\ Posted(x) \in MsgT
         /\ Posted(x).st = "fly" /\ Posted(x).ops = Request(x)
         /\ Posted(x).done = 0 /\ Posted(x).data = <<>>
<1>1. x.ops \in Seq(OpT) /\ x.ops[x.at] \in OpT
  BY DEF ExT
<1>2. Request(x) \in Seq(OpT) /\ Request(x) # <<>>
  BY <1>1 DEF Request
<1>3. Posted(x) \in MsgT
  BY <1>2, OpTypes DEF Posted, MsgT
<1>4. /\ Posted(x).st = "fly" /\ Posted(x).ops = Request(x)
      /\ Posted(x).done = 0 /\ Posted(x).data = <<>>
  BY DEF Posted, NoMsg
<1> QED
  BY <1>2, <1>3, <1>4

\* Parts of a chain are chains.
LEMMA ChainParts ==
  ASSUME NEW ops \in Seq(OpT), Chain(ops), NEW k \in 1 .. Len(ops)
  PROVE  /\ Chain(<<ops[k]>>)
         /\ SubSeq(ops, k, Len(ops)) \in Seq(OpT)
         /\ SubSeq(ops, k, Len(ops))[1] = ops[k]
         /\ Chain(SubSeq(ops, k, Len(ops)))
<1>1. Len(ops) \in Nat /\ DOMAIN ops = 1 .. Len(ops) /\ ops[k] \in OpT
  OBVIOUS
<1>2. Chain(<<ops[k]>>)
  BY <1>1 DEF Chain
<1> DEFINE s == SubSeq(ops, k, Len(ops))
           n == Len(ops) - k + 1
<1>3. /\ s \in Seq(OpT) /\ Len(s) = n /\ DOMAIN s = 1 .. n /\ n \in Nat \ {0}
      /\ \A i \in 1 .. n : s[i] = ops[k + i - 1]
  BY <1>1
<1> HIDE DEF s
<1>4. ASSUME NEW i \in 1 .. n
      PROVE  s[i].op = "tx" /\ 1 <= s[i].from /\ s[i].from <= s[i].to
  <2>1. k + i - 1 \in DOMAIN ops /\ s[i] = ops[k + i - 1]
    BY <1>1, <1>3
  <2> QED
    BY <2>1 DEF Chain
<1>5. ASSUME NEW i \in 1 .. n, i + 1 \in 1 .. n
      PROVE  s[i + 1].from = s[i].to + 1
  <2> DEFINE j == k + i - 1
  <2>1. j \in DOMAIN ops /\ j + 1 \in DOMAIN ops /\ s[i] = ops[j] /\ k + (i + 1) - 1 = j + 1
    BY <1>1, <1>3, <1>5
  <2>2. s[i + 1] = ops[j + 1]
    BY <2>1, <1>3, <1>5
  <2> QED
    BY <2>1, <2>2 DEF Chain
<1>6. Chain(s)
  <2>1. s # <<>>
    BY <1>3
  <2> QED
    BY <2>1, <1>3, <1>4, <1>5 DEF Chain
<1>7. s[1] = ops[k]
  BY <1>1, <1>3
<1> QED
  BY <1>2, <1>3, <1>6, <1>7 DEF s

LEMMA Multiples ==
  ASSUME NEW i \in Nat, NEW j \in Nat, NEW c \in Nat, i <= j
  PROVE  i * c \in Nat /\ i * c <= j * c /\ (i + 1) * c = i * c + c
  OBVIOUS

\* The ops that a flush takes off the pending bytes.
LEMMA BatchIsChain ==
  ASSUME BridgeTypes, Pending > 0
  PROVE  LET end == IF WithTail THEN rd ELSE cut + Chunks * Chunk IN
         /\ Batch \in Seq(OpT) /\ Chain(Batch)
         /\ end \in cut .. rd
         /\ Batch[1].from = cut + 1 /\ Batch[Len(Batch)].to = end
<1> DEFINE q == Pending \div Chunk
           n == Chunks
<1>1. Pending \in Nat /\ rd \in Nat /\ cut \in Nat /\ rd = cut + Pending /\ rd <= NIn
  BY StreamAssumption DEF BridgeTypes, Pending
<1>2. Chunk \in Nat \ {0} /\ MaxBatch \in Nat \ {0}
  BY StreamAssumption
<1>3. q \in Nat /\ q * Chunk <= Pending /\ Pending < (q + 1) * Chunk
  BY <1>1, <1>2
<1>4. n \in Nat /\ n <= q /\ n <= MaxBatch
  BY <1>2, <1>3 DEF Chunks
<1> DEFINE at(i) == i * Chunk
<1>5. at(n) \in Nat /\ at(n) <= Pending
  <2> HIDE DEF n, q
  <2>1. n * Chunk \in Nat /\ n * Chunk <= q * Chunk
    BY <1>2, <1>3, <1>4, Multiples
  <2> QED
    BY <2>1, <1>1, <1>2, <1>3
<1>6. \A i \in 0 .. n : at(i) \in Nat /\ at(i) <= at(n)
  BY <1>2, <1>4, Multiples
<1>7. \A i \in 1 .. n : at(i - 1) \in Nat /\ at(i) = at(i - 1) + Chunk
  <2> SUFFICES ASSUME NEW i \in 1 .. n
               PROVE  at(i - 1) \in Nat /\ at(i) = at(i - 1) + Chunk
    OBVIOUS
  <2>1. i - 1 \in Nat /\ i - 1 + 1 = i
    BY <1>4
  <2> QED
    BY <2>1, <1>2, Multiples
<1> DEFINE full == [i \in 1 .. n |-> TXOp(cut + at(i - 1) + 1, cut + at(i))]
           tail == IF WithTail THEN <<TXOp(cut + at(n) + 1, rd)>> ELSE <<>>
           end  == IF WithTail THEN rd ELSE cut + at(n)
<1>8. Batch = full \o tail
  BY DEF Batch
<1>9. WithTail => at(n) < Pending
  BY DEF WithTail
<1>10. n = 0 => WithTail
  <2> SUFFICES ASSUME n = 0 PROVE WithTail
    OBVIOUS
  <2>1. Chunks * Chunk = 0
    BY <1>2
  <2> QED
    BY <2>1, <1>1, <1>2 DEF WithTail
<1>11. at(0) = 0
  BY <1>2
<1>12. SUFFICES /\ Batch \in Seq(OpT) /\ Chain(Batch)
                /\ end \in cut .. rd
                /\ Batch[1].from = cut + 1 /\ Batch[Len(Batch)].to = end
  OBVIOUS
<1> HIDE DEF at, n
<1>13. \A i \in 1 .. n :
        /\ full[i] \in OpT /\ full[i].op = "tx"
        /\ full[i].from = cut + at(i - 1) + 1 /\ full[i].to = cut + at(i)
        /\ 1 <= full[i].from /\ full[i].from <= full[i].to
  <2> SUFFICES ASSUME NEW i \in 1 .. n
               PROVE  /\ full[i] \in OpT /\ full[i].op = "tx"
                      /\ full[i].from = cut + at(i - 1) + 1 /\ full[i].to = cut + at(i)
                      /\ 1 <= full[i].from /\ full[i].from <= full[i].to
    OBVIOUS
  <2>1. at(i - 1) \in Nat /\ at(i) = at(i - 1) + Chunk /\ at(i) <= Pending
    BY <1>1, <1>4, <1>5, <1>6, <1>7
  <2>2. TXOp(cut + at(i - 1) + 1, cut + at(i)) \in OpT
    BY <2>1, <1>1, <1>2, StreamAssumption DEF TXOp, OpT
  <2> QED
    BY <2>1, <2>2, <1>1, <1>2 DEF TXOp
<1>14. full \in Seq(OpT) /\ Len(full) = n /\ DOMAIN full = 1 .. n
  BY <1>4, <1>13
<1> HIDE DEF full
<1>15. CASE WithTail
  <2> DEFINE op == TXOp(cut + at(n) + 1, rd)
  <2>1. /\ op \in OpT /\ op.op = "tx" /\ op.from = cut + at(n) + 1 /\ op.to = rd
        /\ 1 <= op.from /\ op.from <= op.to
    BY <1>15, <1>9, <1>1, <1>5, StreamAssumption DEF TXOp, OpT
  <2>2. Batch = full \o <<op>>
    BY <1>8, <1>15
  <2> HIDE DEF op
  <2>3. /\ Batch \in Seq(OpT) /\ Len(Batch) = n + 1 /\ Batch[n + 1] = op
        /\ \A i \in 1 .. n : Batch[i] = full[i]
    BY <2>1, <2>2, <1>4, <1>14
  <2>4. \A k \in 1 .. n + 1 : Batch[k].op = "tx" /\ 1 <= Batch[k].from /\ Batch[k].from <= Batch[k].to
    BY <2>3, <2>1, <1>13, <1>4
  <2>5. \A k \in 1 .. n : Batch[k + 1].from = Batch[k].to + 1
    <3> SUFFICES ASSUME NEW k \in 1 .. n PROVE Batch[k + 1].from = Batch[k].to + 1
      OBVIOUS
    <3>1. Batch[k].to = cut + at(k) /\ at(k) \in Nat
      <4>1. Batch[k] = full[k] /\ full[k].to = cut + at(k)
        BY <2>3, <1>13
      <4>2. k \in 0 .. n
        BY <1>4
      <4> QED
        BY <4>1, <4>2, <1>6
    <3>2. CASE k = n
      <4>1. Batch[k + 1].from = cut + at(n) + 1
        BY <3>2, <2>1, <2>3
      <4> QED
        BY <4>1, <3>1, <3>2
    <3>3. CASE k < n
      <4>1. k + 1 \in 1 .. n /\ k + 1 - 1 = k
        BY <3>3, <1>4
      <4> QED
        BY <4>1, <3>1, <2>3, <1>13, <1>1
    <3> QED
      BY <3>2, <3>3, <1>4
  <2>6. Batch[1].from = cut + 1
    <3>1. CASE n = 0
      BY <3>1, <2>1, <2>3, <1>11, <1>1
    <3>2. CASE n > 0
      <4>1. 1 \in 1 .. n /\ 1 - 1 = 0
        BY <3>2, <1>4
      <4>2. Batch[1] = full[1] /\ full[1].from = cut + at(1 - 1) + 1
        BY <4>1, <2>3, <1>13
      <4> QED
        BY <4>1, <4>2, <1>11, <1>1
    <3> QED
      BY <3>1, <3>2, <1>4
  <2>7. Chain(Batch)
    BY <2>3, <2>4, <2>5, <1>4 DEF Chain
  <2> QED
    BY <2>1, <2>3, <2>6, <2>7, <1>15, <1>1, <1>4
<1>16. CASE ~WithTail
  <2>1. Batch = full /\ n > 0
    BY <1>4, <1>14, <1>8, <1>10, <1>16
  <2>2. \A k \in 1 .. n - 1 : Batch[k + 1].from = Batch[k].to + 1
    <3> SUFFICES ASSUME NEW k \in 1 .. n - 1 PROVE Batch[k + 1].from = Batch[k].to + 1
      OBVIOUS
    <3>1. k + 1 \in 1 .. n /\ k \in 1 .. n /\ k + 1 - 1 = k
      BY <1>4
    <3> QED
      BY <3>1, <2>1, <1>13, <1>6, <1>1, <1>4
  <2>3. Batch[1].from = cut + 1
    BY <2>1, <1>13, <1>11, <1>1, <1>4
  <2>4. cut + at(n) \in cut .. rd /\ Batch[n].to = cut + at(n)
    BY <2>1, <1>13, <1>1, <1>5, <1>4
  <2> QED
    BY <2>1, <2>2, <2>3, <2>4, <1>13, <1>14, <1>16, <1>4 DEF Chain
<1> QED
  BY <1>15, <1>16

-----------------------------------------------------------------------------
(* Types.                                                                  *)

Types == BridgeTypes /\ NetTypes /\ ExitTypes

Waits == <<msg, late, url, faults, ghost>>

\* A step of the network alone.
LEMMA NetKept ==
  ASSUME Types, NetTypes', UNCHANGED <<bridge, exit>>
  PROVE  Types'
<1>1. BridgeTypes'
  BY DEF Types, BridgeTypes, bridge
<1>2. ExitTypes'
  BY DEF Types, ExitTypes, exit
<1> QED
  BY <1>1, <1>2 DEF Types

LEMMA StartTypes ==
  ASSUME Types, NEW f \in Flows, NEW ops \in Seq(OpT), ops # <<>>, Start(f, ops)
  PROVE  /\ NetTypes'
         /\ \A g \in Flows \ {f} : ex'[g] = ex[g] /\ msg'[g] = msg[g]
         /\ ex'[f].st = "busy" /\ ex'[f].ops = ops /\ ex'[f].at = 1 /\ ex'[f].data = <<>>
         /\ ex'[f].mode = (IF f = "close" THEN "seq" ELSE "batch")
         /\ msg'[f].ops = Request(ex'[f]) /\ msg'[f].ops \in Seq(OpT)
         /\ msg'[f].st = "fly" /\ msg'[f].done = 0 /\ msg'[f].data = <<>>
<1> DEFINE x == [Idle EXCEPT !.st = "busy", !.ops = ops, !.start = url,
                             !.mode = IF f = "close" THEN "seq" ELSE "batch"]
<1>1. x \in ExT
  BY OpTypes DEF Types, NetTypes, ExT
<1>2. /\ x.st = "busy" /\ x.ops = ops /\ x.at = 1 /\ x.data = <<>>
      /\ x.mode = (IF f = "close" THEN "seq" ELSE "batch")
  BY DEF Idle
<1> HIDE DEF x
<1>3. Posted(x) \in MsgT /\ Posted(x).ops = Request(x) /\ Request(x) \in Seq(OpT)
      /\ Posted(x).st = "fly" /\ Posted(x).done = 0 /\ Posted(x).data = <<>>
  BY <1>1, <1>2, RequestIs
<1>4. ex' = [ex EXCEPT ![f] = x] /\ msg' = [msg EXCEPT ![f] = Posted(x)]
      /\ UNCHANGED <<late, url, faults, ghost>>
  BY DEF Start, x
<1>5. NetTypes'
  BY <1>1, <1>3, <1>4 DEF Types, NetTypes
<1> QED
  BY <1>2, <1>3, <1>4, <1>5 DEF Types, NetTypes

LEMMA TargetType ==
  ASSUME NetTypes, NEW f \in Flows
  PROVE  Target(ex[f]) \in 0 .. Urls - 1
<1>1. ex[f] \in ExT
  BY DEF NetTypes
<1>2. Urls \in Nat \ {0}
  BY StreamAssumption
<1>3. ex[f].start \in Nat /\ ex[f].tried \in Nat
  BY <1>1, <1>2 DEF ExT
<1> QED
  BY <1>2, <1>3 DEF Target

\* What an op at the exit does, whoever has sent it.
LEMMA OpTypesKept ==
  ASSUME Types, NEW o \in OpT, o.op = "tx" => 1 <= o.from /\ o.from <= o.to
  PROVE  /\ Write(o) \/ Close(o) \/ Fails(o) => ExitTypes'
         /\ \A n \in 0 .. NOut - out :
              /\ Read(o, n) => ExitTypes'
              /\ Segment(out + 1, n) \in Seq(1 .. NOut)
<1>1. o.from \in Nat /\ o.to \in Nat /\ o.to <= NIn /\ NIn \in Nat /\ NOut \in Nat
  BY StreamAssumption DEF OpT
<1>2. ASSUME o.op = "tx", NEW n \in 0 .. o.to - o.from + 1
      PROVE  got \o Segment(o.from, n) \in Seq(1 .. NIn)
  <2>1. n \in Nat /\ o.from >= 1 /\ o.from + n - 1 <= NIn
    BY <1>1, <1>2
  <2>2. Segment(o.from, n) \in Seq(1 .. NIn)
    BY <1>1, <2>1, SegmentIs
  <2> QED
    BY <2>2 DEF Types, ExitTypes
<1>3. ASSUME Write(o) PROVE ExitTypes'
  <2>1. o.to - o.from + 1 \in 0 .. o.to - o.from + 1
    BY <1>1, <1>3 DEF Write
  <2> QED
    BY <1>2, <1>3, <2>1 DEF Write, Types, ExitTypes
<1>4. ASSUME Close(o) PROVE ExitTypes'
  BY <1>4 DEF Close, Types, ExitTypes
<1>5. ASSUME Fails(o) PROVE ExitTypes'
  <2>1. CASE UNCHANGED got
    BY <1>5, <2>1 DEF Fails, Types, ExitTypes
  <2>2. CASE o.op = "tx" /\ \E n \in 0 .. o.to - o.from : got' = got \o Segment(o.from, n)
    <3>1. PICK n \in 0 .. o.to - o.from : got' = got \o Segment(o.from, n)
      BY <2>2
    <3>2. n \in 0 .. o.to - o.from + 1
      BY <1>1
    <3> QED
      BY <3>1, <3>2, <2>2, <1>2, <1>5 DEF Fails, Types, ExitTypes
  <2> QED
    BY <2>1, <2>2, <1>5 DEF Fails
<1>6. ASSUME NEW n \in 0 .. NOut - out
      PROVE  /\ Read(o, n) => ExitTypes'
             /\ Segment(out + 1, n) \in Seq(1 .. NOut)
  <2>1. out \in Nat /\ out + n <= NOut /\ n \in Nat
    BY <1>1 DEF Types, ExitTypes
  <2>2. Segment(out + 1, n) \in Seq(1 .. NOut)
    BY <2>1, <1>1, SegmentIs
  <2> QED
    BY <2>1, <2>2, <1>1 DEF Read, Types, ExitTypes
<1> QED
  BY <1>3, <1>4, <1>5, <1>6

\* The ops of an exchange, of its request, and those that travel on.
LEMMA OpsOf ==
  ASSUME Types, Phases, NEW f \in Flows, ex[f].st = "busy"
  PROVE  LET x == ex[f] m == msg[f] IN
         /\ x.ops \in Seq(OpT) /\ m.ops \in Seq(OpT) /\ m.ops # <<>>
         /\ x.at \in 1 .. Len(x.ops)
         /\ m.ops = Request(x) /\ m.done \in 0 .. Len(m.ops)
         /\ f = "tx" => Chain(x.ops) /\ Chain(m.ops)
         /\ f = "rx" => m.ops = <<RXOp>> /\ x.ops = <<RXOp>>
         /\ f = "close" => m.ops = <<CloseOp>> /\ x.ops = <<CloseOp>>
<1>1. ex[f] \in ExT /\ msg[f] \in MsgT
  BY DEF Types, NetTypes
<1>2. /\ ex[f].ops \in Seq(OpT) /\ msg[f].ops \in Seq(OpT) /\ ex[f].at \in 1 .. Len(ex[f].ops)
      /\ msg[f].ops = Request(ex[f]) /\ msg[f].done \in 0 .. Len(msg[f].ops)
  BY <1>1 DEF Phases, Attempt, ExT, MsgT
<1>3. msg[f].ops # <<>>
  BY <1>1, <1>2, RequestIs
<1>4. msg[f].ops = ex[f].ops \/ msg[f].ops = <<ex[f].ops[ex[f].at]>>
  BY <1>2 DEF Request
<1>5. ASSUME f = "tx" PROVE Chain(ex[f].ops) /\ Chain(msg[f].ops)
  <2>1. Chain(ex[f].ops)
    BY <1>5 DEF Phases
  <2> QED
    BY <2>1, <1>2, <1>4, ChainParts
<1>6. ASSUME f = "rx" PROVE msg[f].ops = <<RXOp>> /\ ex[f].ops = <<RXOp>>
  <2>1. ex[f].ops = <<RXOp>>
    BY <1>6 DEF Phases
  <2> QED
    BY <2>1, <1>2, <1>4
<1>7. ASSUME f = "close" PROVE msg[f].ops = <<CloseOp>> /\ ex[f].ops = <<CloseOp>>
  <2>1. ex[f].ops = <<CloseOp>>
    BY <1>7 DEF Phases
  <2> QED
    BY <2>1, <1>2, <1>4
<1> QED
  BY <1>2, <1>3, <1>5, <1>6, <1>7

-----------------------------------------------------------------------------
(* Exchanges, step by step: the types, the phases, and what changes.       *)

\* Only flow f moves, from one state of its exchange to another.
Others(f) == \A g \in Flows \ {f} : ex'[g] = ex[g] /\ msg'[g] = msg[g]

LEMMA PhasesKept ==
  ASSUME Types, Phases, NEW f \in Flows, Others(f), UNCHANGED bridge,
         ex[f].st # "idle", ex'[f].st # "idle", ex'[f].ops = ex[f].ops,
         Attempt(ex'[f], msg'[f])
  PROVE  Phases'
BY DEF Phases, Others, Flows, bridge

\* A new attempt of an exchange whose next op is x.at.
LEMMA PostedFits ==
  ASSUME NEW x \in ExT, x.st = "busy", x.at \in 1 .. Len(x.ops)
  PROVE  Attempt(x, Posted(x)) /\ Posted(x) \in MsgT
<1>1. Request(x) # <<>> /\ Request(x) \in Seq(OpT)
  BY RequestIs
<1>2. x.ops # <<>>
  BY DEF ExT
<1> QED
  BY <1>1, <1>2, RequestIs DEF Attempt

LEMMA RefuseBatchIs ==
  ASSUME Types, Phases, NEW f \in Flows, RefuseBatch(f)
  PROVE  /\ Types' /\ Phases' /\ Others(f)
         /\ ex[f].st = "busy" /\ ex' = ex
         /\ msg'[f].done = msg[f].done /\ msg'[f].ops = msg[f].ops
         /\ msg'[f].data = msg[f].data
<1>1. ex[f] \in ExT /\ msg[f] \in MsgT /\ ex[f].st = "busy" /\ msg[f].st = "fly"
  BY DEF Types, NetTypes, RefuseBatch, Flying
<1>2. ex' = ex /\ msg' = [msg EXCEPT ![f].st = "badurl"] /\ ex[f].mode = "batch"
      /\ UNCHANGED <<bridge, exit, late, url, faults, ghost>>
  BY DEF RefuseBatch
<1>3. /\ msg'[f] \in MsgT /\ msg'[f].st = "badurl" /\ msg'[f].done = msg[f].done
      /\ msg'[f].ops = msg[f].ops /\ msg'[f].data = msg[f].data /\ Others(f)
  BY <1>1, <1>2 DEF Types, NetTypes, MsgT, Others
<1>4. Types'
  <2>1. msg' \in [Flows -> MsgT]
    BY <1>2, <1>3 DEF Types, NetTypes
  <2>2. NetTypes'
    BY <1>2, <2>1 DEF Types, NetTypes
  <2> QED
    BY <1>2, <2>2, NetKept
<1>5. Attempt(ex'[f], msg'[f])
  BY <1>1, <1>2, <1>3 DEF Phases, Attempt, RefuseBatch
<1>6. Phases'
  BY <1>1, <1>2, <1>3, <1>5, PhasesKept
<1> QED
  BY <1>1, <1>2, <1>3, <1>4, <1>6

LEMMA GoSequentialIs ==
  ASSUME Types, Phases, NEW f \in Flows, GoSequential(f)
  PROVE  /\ Types' /\ Phases' /\ Others(f)
         /\ ex[f].st = "busy" /\ msg[f].done = 0 /\ msg[f].ops = ex[f].ops
         /\ ex'[f].st = "busy" /\ ex'[f].ops = ex[f].ops /\ ex'[f].data = ex[f].data
         /\ msg'[f].done = 0 /\ msg'[f].data = <<>> /\ msg'[f].ops = <<ex[f].ops[1]>>
<1> DEFINE x == [ex[f] EXCEPT !.mode = "seq", !.at = 1, !.start = url, !.tried = 0]
<1>1. ex[f] \in ExT /\ msg[f] \in MsgT /\ ex[f].st = "busy" /\ msg[f].st = "badurl"
  BY DEF Types, NetTypes, GoSequential
<1>2. /\ x \in ExT /\ x.st = "busy" /\ x.ops = ex[f].ops /\ x.data = ex[f].data
      /\ x.mode = "seq" /\ x.at = 1
  <2>1. 0 \in 0 .. Urls - 1 /\ url \in 0 .. Urls - 1
    BY StreamAssumption DEF Types, NetTypes
  <2>2. x \in ExT
    BY <1>1, <2>1 DEF ExT
  <2> QED
    BY <1>1, <2>2 DEF ExT
<1> HIDE DEF x
<1>3. ex' = [ex EXCEPT ![f] = x] /\ msg' = [msg EXCEPT ![f] = Posted(x)]
      /\ UNCHANGED <<bridge, exit, late, url, faults, ghost>>
  BY DEF GoSequential, x
<1>4. x.at \in 1 .. Len(x.ops)
  BY <1>1, <1>2, OpsOf
<1>5. /\ Posted(x) \in MsgT /\ Attempt(x, Posted(x)) /\ Posted(x).ops = <<ex[f].ops[1]>>
      /\ Posted(x).done = 0 /\ Posted(x).data = <<>>
  BY <1>2, <1>4, PostedFits, RequestIs DEF Request
<1>6. ex'[f] = x /\ msg'[f] = Posted(x) /\ Others(f)
  BY <1>3 DEF Types, NetTypes, Others
<1>7. Types'
  BY <1>2, <1>3, <1>5 DEF Types, NetTypes, BridgeTypes, ExitTypes, bridge, exit
<1>8. Phases'
  BY <1>1, <1>2, <1>3, <1>5, <1>6, PhasesKept
<1>9. msg[f].done = 0 /\ msg[f].ops = ex[f].ops
  BY <1>1 DEF Phases, Attempt, Request
<1> QED
  BY <1>1, <1>2, <1>5, <1>6, <1>7, <1>8, <1>9

LEMMA AcceptIs ==
  ASSUME Types, Phases, NEW f \in Flows, Accept(f)
  PROVE  /\ Types' /\ Phases' /\ Others(f)
         /\ ex[f].st = "busy" /\ msg[f].done = Len(msg[f].ops)
         /\ ex'[f].ops = ex[f].ops /\ ex'[f].data = ex[f].data \o msg[f].data
         /\ msg'[f].done = 0 /\ msg'[f].data = <<>>
         /\ \/ /\ ex'[f].st = "busy" /\ ex[f].at + 1 \in DOMAIN ex[f].ops
               /\ ex[f].mode = "seq" /\ msg'[f].ops = <<ex[f].ops[ex[f].at + 1]>>
            \/ /\ ex'[f].st = "ok"
               /\ ex[f].mode = "batch" \/ ex[f].at = Len(ex[f].ops)
<1> DEFINE x == [ex[f] EXCEPT !.data = @ \o msg[f].data]
           more == x.mode = "seq" /\ x.at < Len(x.ops)
           pinned == Target(x)
           next == [x EXCEPT !.at = @ + 1, !.start = pinned, !.tried = 0]
           over == [x EXCEPT !.st = "ok"]
<1>1. ex[f] \in ExT /\ msg[f] \in MsgT /\ ex[f].st = "busy" /\ msg[f].st = "ok"
  BY DEF Types, NetTypes, Accept
<1>2. /\ ex[f].ops \in Seq(OpT) /\ ex[f].at \in 1 .. Len(ex[f].ops) /\ ex[f].ops # <<>>
      /\ msg[f].done = Len(msg[f].ops)
  BY <1>1, OpsOf DEF Phases, Attempt
<1>3. ex[f].data \o msg[f].data \in Seq(1 .. NOut)
  BY <1>1 DEF ExT, MsgT
<1>4. /\ x \in ExT /\ x.st = "busy" /\ x.ops = ex[f].ops /\ x.mode = ex[f].mode
      /\ x.at = ex[f].at /\ x.start = ex[f].start /\ x.tried = ex[f].tried
      /\ x.data = ex[f].data \o msg[f].data
  BY <1>1, <1>3 DEF ExT
<1>5. pinned \in 0 .. Urls - 1
  <2>1. pinned = Target(ex[f])
    BY <1>4 DEF Target
  <2> QED
    BY <2>1, TargetType DEF Types
<1> HIDE DEF x, pinned
<1>6. /\ url' = IF f = "close" THEN url ELSE pinned
      /\ ex' = [ex EXCEPT ![f] = IF more THEN next ELSE over]
      /\ msg' = [msg EXCEPT ![f] = IF more THEN Posted(next) ELSE NoMsg]
      /\ UNCHANGED <<bridge, exit, late, faults, ghost>>
  BY DEF Accept, x, pinned
<1>7. CASE more
  <2>1. /\ next \in ExT /\ next.st = "busy" /\ next.ops = x.ops /\ next.mode = "seq"
        /\ next.at = x.at + 1 /\ next.data = x.data
    <3>1. 0 \in 0 .. Urls - 1 /\ x.at \in Nat /\ x.at + 1 \in Nat
      BY <1>4, StreamAssumption DEF ExT
    <3>2. next \in ExT
      BY <1>4, <1>5, <3>1 DEF ExT
    <3> QED
      BY <1>4, <1>7, <3>2 DEF ExT
  <2> HIDE DEF next
  <2>2. next.at \in 1 .. Len(next.ops) /\ ex[f].at + 1 \in DOMAIN ex[f].ops
    BY <2>1, <1>2, <1>4, <1>7
  <2>3. /\ Posted(next) \in MsgT /\ Attempt(next, Posted(next))
        /\ Posted(next).ops = <<ex[f].ops[ex[f].at + 1]>>
        /\ Posted(next).done = 0 /\ Posted(next).data = <<>>
    BY <2>1, <2>2, <1>4, PostedFits, RequestIs DEF Request
  <2>4. ex'[f] = next /\ msg'[f] = Posted(next) /\ Others(f)
    BY <1>6, <1>7 DEF Types, NetTypes, Others
  <2>5. Types'
    BY <1>5, <1>6, <1>7, <2>1, <2>3 DEF Types, NetTypes, BridgeTypes, ExitTypes, bridge, exit
  <2>6. Phases'
    BY <1>1, <1>4, <1>6, <2>1, <2>3, <2>4, PhasesKept
  <2> QED
    BY <1>1, <1>2, <1>4, <1>7, <2>1, <2>2, <2>3, <2>4, <2>5, <2>6
<1>8. CASE ~more
  <2>1. over \in ExT /\ over.st = "ok" /\ over.ops = x.ops /\ over.data = x.data
    BY <1>4 DEF ExT
  <2> HIDE DEF over
  <2>2. NoMsg \in MsgT /\ NoMsg.done = 0 /\ NoMsg.data = <<>>
    BY OpTypes DEF NoMsg
  <2>3. ex'[f] = over /\ msg'[f] = NoMsg /\ Others(f)
    BY <1>6, <1>8 DEF Types, NetTypes, Others
  <2>4. Types'
    BY <1>5, <1>6, <1>8, <2>1, <2>2 DEF Types, NetTypes, BridgeTypes, ExitTypes, bridge, exit
  <2>5. Attempt(ex'[f], msg'[f])
    BY <1>2, <1>4, <2>1, <2>2, <2>3 DEF Attempt
  <2>6. Phases'
    BY <1>1, <1>4, <1>6, <2>1, <2>3, <2>5, PhasesKept
  <2>7. ex[f].mode = "batch" \/ ex[f].at = Len(ex[f].ops)
    BY <1>1, <1>2, <1>4, <1>8 DEF ExT
  <2> QED
    BY <1>1, <1>2, <1>4, <2>1, <2>2, <2>3, <2>4, <2>6, <2>7
<1> QED
  BY <1>7, <1>8

LEMMA RefusedIs ==
  ASSUME Types, Phases, NEW f \in Flows, Refused(f)
  PROVE  /\ Types' /\ Phases' /\ Others(f)
         /\ ex[f].st = "busy"
         /\ ex'[f].st = "err" /\ ex'[f].ops = ex[f].ops /\ ex'[f].data = ex[f].data
         /\ msg'[f].done = 0 /\ msg'[f].data = <<>>
<1>1. ex[f] \in ExT /\ ex[f].st = "busy" /\ NoMsg \in MsgT
      /\ NoMsg.done = 0 /\ NoMsg.data = <<>>
  BY OpTypes DEF Types, NetTypes, Refused, NoMsg
<1>2. ex' = [ex EXCEPT ![f].st = "err"] /\ msg' = [msg EXCEPT ![f] = NoMsg]
      /\ UNCHANGED <<bridge, exit, late, url, faults, ghost>>
  BY DEF Refused
<1>3. /\ ex'[f] \in ExT /\ ex'[f].st = "err" /\ ex'[f].ops = ex[f].ops
      /\ ex'[f].data = ex[f].data /\ msg'[f] = NoMsg /\ Others(f)
  BY <1>1, <1>2 DEF Types, NetTypes, ExT, Others
<1>4. Types'
  <2>1. ex' \in [Flows -> ExT] /\ msg' \in [Flows -> MsgT]
    BY <1>1, <1>2, <1>3 DEF Types, NetTypes
  <2>2. NetTypes'
    BY <1>2, <2>1 DEF Types, NetTypes
  <2> QED
    BY <1>2, <2>2, NetKept
<1>5. Attempt(ex'[f], msg'[f])
  BY <1>1, <1>3, OpsOf DEF Attempt, Phases
<1>6. Phases'
  BY <1>1, <1>2, <1>3, <1>5, PhasesKept
<1> QED
  BY <1>1, <1>3, <1>4, <1>6

\* What is left of an abandoned request.
LEMMA AbandonIs ==
  ASSUME Types, Phases, NEW f \in Flows, ex[f].st = "busy", Abandon(f)
  PROVE  /\ late' \in Seq(Seq(OpT)) /\ ghost' \in SUBSET Flows
         /\ ghost' = (IF msg[f].done > 0 THEN ghost \cup {f} ELSE ghost)
         /\ \/ late' = late
            \/ /\ msg[f].done + 1 \in 1 .. Len(msg[f].ops)
               /\ late' = Append(late, SubSeq(msg[f].ops, msg[f].done + 1, Len(msg[f].ops)))
<1> DEFINE left == SubSeq(msg[f].ops, msg[f].done + 1, Len(msg[f].ops))
<1>1. msg[f].ops \in Seq(OpT) /\ msg[f].done \in 0 .. Len(msg[f].ops)
  BY OpsOf
<1>2. left \in Seq(OpT)
  <2>1. msg[f].done \in Nat /\ Len(msg[f].ops) \in Nat
    BY <1>1
  <2> QED
    BY <1>1, <2>1, SubSeqProperties
<1>3. left # <<>> => msg[f].done + 1 \in 1 .. Len(msg[f].ops)
  BY <1>1
<1> HIDE DEF left
<1>4. ghost' = (IF msg[f].done > 0 THEN ghost \cup {f} ELSE ghost)
  BY DEF Abandon
<1>5. late' = late \/ (left # <<>> /\ late' = Append(late, left))
  BY DEF Abandon, left
<1>6. ghost' \in SUBSET Flows
  BY <1>4 DEF Types, NetTypes
<1>7. late' \in Seq(Seq(OpT))
  <2>1. late \in Seq(Seq(OpT))
    BY DEF Types, NetTypes
  <2> DEFINE S == Seq(OpT)
  <2>2. late \in Seq(S) /\ left \in S
    BY <1>2, <2>1
  <2> HIDE DEF S
  <2>3. late' \in Seq(S)
    BY <1>5, <2>2
  <2> QED
    BY <2>3 DEF S
<1> QED
  BY <1>3, <1>4, <1>5, <1>6, <1>7 DEF left

LEMMA FaultIs ==
  ASSUME Types, Phases, NEW f \in Flows, Fault(f)
  PROVE  /\ Types' /\ Phases' /\ Others(f) /\ Abandon(f)
         /\ ex[f].st = "busy"
         /\ ex'[f].ops = ex[f].ops /\ ex'[f].data = ex[f].data
         /\ msg'[f].done = 0 /\ msg'[f].data = <<>>
         /\ \/ ex'[f].st = "busy" /\ msg'[f].ops = msg[f].ops
            \/ ex'[f].st = "err"
<1> DEFINE x == [ex[f] EXCEPT !.tried = @ + 1]
           failed == [ex[f] EXCEPT !.st = "err"]
<1>1. ex[f] \in ExT /\ ex[f].st = "busy" /\ Abandon(f) /\ NoMsg \in MsgT
      /\ NoMsg.done = 0 /\ NoMsg.data = <<>>
  BY OpTypes DEF Types, NetTypes, Fault, NoMsg
<1>2. late' \in Seq(Seq(OpT)) /\ ghost' \in SUBSET Flows
  BY <1>1, AbandonIs
<1>3. faults' \in 0 .. MaxFaults /\ UNCHANGED <<bridge, exit, url>>
  BY StreamAssumption DEF Fault, Types, NetTypes
<1>4. CASE /\ ex[f].tried + 1 < Urls
           /\ ex' = [ex EXCEPT ![f] = x] /\ msg' = [msg EXCEPT ![f] = Posted(x)]
  <2>1. /\ x \in ExT /\ x.st = "busy" /\ x.ops = ex[f].ops /\ x.mode = ex[f].mode
        /\ x.at = ex[f].at /\ x.data = ex[f].data
    <3>1. ex[f].tried + 1 \in 0 .. Urls - 1
      <4>1. ex[f].tried \in Nat /\ Urls \in Nat
        BY <1>1, StreamAssumption DEF ExT
      <4> QED
        BY <1>4, <4>1
    <3> QED
      BY <1>1, <3>1 DEF ExT
  <2> HIDE DEF x
  <2>2. x.at \in 1 .. Len(x.ops) /\ msg[f].ops = Request(ex[f])
    BY <1>1, <2>1, OpsOf
  <2>3. /\ Posted(x) \in MsgT /\ Attempt(x, Posted(x)) /\ Posted(x).ops = msg[f].ops
        /\ Posted(x).done = 0 /\ Posted(x).data = <<>>
    BY <2>1, <2>2, PostedFits, RequestIs DEF Request
  <2>4. ex'[f] = x /\ msg'[f] = Posted(x) /\ Others(f)
    BY <1>4 DEF Types, NetTypes, Others
  <2>5. Types'
    BY <1>2, <1>3, <1>4, <2>1, <2>3 DEF Types, NetTypes, BridgeTypes, ExitTypes, bridge, exit
  <2>6. Phases'
    BY <1>1, <1>3, <2>1, <2>3, <2>4, PhasesKept
  <2> QED
    BY <1>1, <2>1, <2>3, <2>4, <2>5, <2>6
<1>5. CASE ex' = [ex EXCEPT ![f].st = "err"] /\ msg' = [msg EXCEPT ![f] = NoMsg]
  <2>1. /\ ex'[f] \in ExT /\ ex'[f].st = "err" /\ ex'[f].ops = ex[f].ops
        /\ ex'[f].data = ex[f].data /\ msg'[f] = NoMsg /\ Others(f)
    BY <1>1, <1>5 DEF Types, NetTypes, ExT, Others
  <2>2. Types'
    <3>1. ex' \in [Flows -> ExT] /\ msg' \in [Flows -> MsgT]
      BY <1>1, <1>5, <2>1 DEF Types, NetTypes
    <3> QED
      BY <1>2, <1>3, <3>1 DEF Types, NetTypes, BridgeTypes, ExitTypes, bridge, exit
  <2>3. Attempt(ex'[f], msg'[f])
    BY <1>1, <2>1, OpsOf DEF Attempt, Phases
  <2>4. Phases'
    BY <1>1, <1>3, <2>1, <2>3, PhasesKept
  <2> QED
    BY <1>1, <2>1, <2>2, <2>4
<1> QED
  BY <1>4, <1>5 DEF Fault

LEMMA CancelledIs ==
  ASSUME Types, Phases, NEW f \in Flows, Cancelled(f)
  PROVE  /\ Types' /\ Phases' /\ Others(f) /\ Abandon(f)
         /\ ex[f].st = "busy"
         /\ ex'[f].st = "err" /\ ex'[f].ops = ex[f].ops /\ ex'[f].data = ex[f].data
         /\ msg'[f].done = 0 /\ msg'[f].data = <<>>
<1>1. ex[f] \in ExT /\ ex[f].st = "busy" /\ Abandon(f) /\ NoMsg \in MsgT
      /\ NoMsg.done = 0 /\ NoMsg.data = <<>>
  BY OpTypes DEF Types, NetTypes, Cancelled, NoMsg
<1>2. ex' = [ex EXCEPT ![f].st = "err"] /\ msg' = [msg EXCEPT ![f] = NoMsg]
      /\ UNCHANGED <<bridge, exit, url, faults>>
  BY DEF Cancelled
<1>3. late' \in Seq(Seq(OpT)) /\ ghost' \in SUBSET Flows
  BY <1>1, AbandonIs
<1>4. /\ ex'[f] \in ExT /\ ex'[f].st = "err" /\ ex'[f].ops = ex[f].ops
      /\ ex'[f].data = ex[f].data /\ msg'[f] = NoMsg /\ Others(f)
  BY <1>1, <1>2 DEF Types, NetTypes, ExT, Others
<1>5. Types'
  <2>1. ex' \in [Flows -> ExT] /\ msg' \in [Flows -> MsgT]
    BY <1>1, <1>2, <1>4 DEF Types, NetTypes
  <2>2. NetTypes'
    BY <1>2, <1>3, <2>1 DEF Types, NetTypes
  <2> QED
    BY <1>2, <2>2, NetKept
<1>6. Attempt(ex'[f], msg'[f])
  BY <1>1, <1>4, OpsOf DEF Attempt, Phases
<1>7. Phases'
  BY <1>1, <1>2, <1>4, <1>6, PhasesKept
<1> QED
  BY <1>1, <1>4, <1>5, <1>7

LEMMA ExecuteIs ==
  ASSUME Types, Phases, NEW f \in Flows, Execute(f)
  PROVE  LET m == msg[f]
             o == m.ops[m.done + 1]
         IN  /\ Types' /\ Phases' /\ Others(f)
             /\ ex[f].st = "busy" /\ m.st = "fly" /\ ex' = ex /\ o \in OpT
             /\ m.done + 1 \in 1 .. Len(m.ops) /\ msg'[f].ops = m.ops
             /\ \/ /\ Write(o) \/ Close(o)
                   /\ msg'[f].done = m.done + 1 /\ msg'[f].data = m.data
                \/ \E n \in 0 .. NOut - out :
                     /\ Read(o, n)
                     /\ msg'[f].done = m.done + 1
                     /\ msg'[f].data = m.data \o Segment(out + 1, n)
                \/ /\ Fails(o)
                   /\ msg'[f].done = m.done /\ msg'[f].data = m.data
<1> DEFINE m == msg[f]
           o == m.ops[m.done + 1]
           ran(d) == [m EXCEPT !.done = @ + 1, !.data = @ \o d,
                               !.st = IF m.done + 1 = Len(m.ops) THEN "ok" ELSE "fly"]
<1>1. m \in MsgT /\ ex[f] \in ExT /\ ex[f].st = "busy" /\ m.st = "fly" /\ m.done < Len(m.ops)
      /\ ~(ex[f].mode = "batch" /\ Target(ex[f]) \in Legacy)
      /\ UNCHANGED <<bridge, ex, late, url, faults, ghost>>
  BY DEF Types, NetTypes, Execute, Flying
<1>2. m.ops \in Seq(OpT) /\ m.done \in 0 .. Len(m.ops) /\ m.ops = Request(ex[f])
  BY <1>1, OpsOf
<1>3. m.done + 1 \in 1 .. Len(m.ops) /\ o \in OpT
  BY <1>1, <1>2
<1>4. o.op = "tx" => 1 <= o.from /\ o.from <= o.to
  <2>1. f \in {"rx", "close"} => o = RXOp \/ o = CloseOp
    BY <1>1, <1>3, OpsOf
  <2>2. f \in {"rx", "close"} => o.op # "tx"
    BY <2>1 DEF RXOp, CloseOp
  <2>3. f = "tx" => Chain(m.ops)
    BY <1>1, OpsOf
  <2> QED
    BY <1>2, <1>3, <2>2, <2>3 DEF Flows, Chain
<1>5. ASSUME NEW d \in Seq(1 .. NOut)
      PROVE  /\ ran(d) \in MsgT /\ ran(d).ops = m.ops /\ ran(d).done = m.done + 1
             /\ ran(d).data = m.data \o d /\ Attempt(ex[f], ran(d))
  <2>1. m.data \o d \in Seq(1 .. NOut) /\ m.done + 1 \in Nat
    BY <1>1, <1>3, <1>5 DEF MsgT
  <2>2. ran(d) \in MsgT
    BY <1>1, <2>1 DEF MsgT
  <2>3. /\ ran(d).ops = m.ops /\ ran(d).done = m.done + 1 /\ ran(d).data = m.data \o d
        /\ ran(d).st = IF m.done + 1 = Len(m.ops) THEN "ok" ELSE "fly"
    BY <1>1 DEF MsgT
  <2> HIDE DEF ran
  <2>4. ex[f].at \in 1 .. Len(ex[f].ops) /\ ex[f].ops # <<>>
    BY <1>1, OpsOf
  <2> QED
    BY <1>1, <1>2, <1>3, <2>2, <2>3, <2>4 DEF Attempt
<1> HIDE DEF ran
<1>6. \/ /\ Write(o) \/ Close(o)
         /\ msg' = [msg EXCEPT ![f] = ran(<<>>)]
      \/ \E n \in 0 .. NOut - out :
           Read(o, n) /\ msg' = [msg EXCEPT ![f] = ran(Segment(out + 1, n))]
      \/ Fails(o) /\ msg' = [msg EXCEPT ![f].st = "fail"]
  BY DEF Execute, ran
<1>7. ASSUME NEW r \in MsgT, msg' = [msg EXCEPT ![f] = r], ExitTypes', Attempt(ex[f], r)
      PROVE  Types' /\ Phases' /\ Others(f) /\ msg'[f] = r
  <2>1. msg'[f] = r /\ Others(f)
    BY <1>1, <1>7 DEF Types, NetTypes, Others
  <2>2. Types'
    BY <1>1, <1>7 DEF Types, NetTypes, BridgeTypes, bridge
  <2>3. Phases'
    BY <1>1, <1>7, <2>1, PhasesKept
  <2> QED
    BY <2>1, <2>2, <2>3
<1>8. CASE /\ Write(o) \/ Close(o)
           /\ msg' = [msg EXCEPT ![f] = ran(<<>>)]
  <2>1. <<>> \in Seq(1 .. NOut) /\ m.data \o <<>> = m.data
    BY <1>1 DEF MsgT
  <2>2. ExitTypes'
    BY <1>3, <1>4, <1>8, OpTypesKept
  <2> QED
    BY <1>1, <1>3, <1>5, <1>7, <1>8, <2>1, <2>2
<1>9. CASE \E n \in 0 .. NOut - out :
             Read(o, n) /\ msg' = [msg EXCEPT ![f] = ran(Segment(out + 1, n))]
  <2>1. PICK n \in 0 .. NOut - out :
          Read(o, n) /\ msg' = [msg EXCEPT ![f] = ran(Segment(out + 1, n))]
    BY <1>9
  <2>2. ExitTypes' /\ Segment(out + 1, n) \in Seq(1 .. NOut)
    BY <1>3, <1>4, <2>1, OpTypesKept
  <2> QED
    BY <1>1, <1>3, <1>5, <1>7, <2>1, <2>2
<1>10. CASE Fails(o) /\ msg' = [msg EXCEPT ![f].st = "fail"]
  <2> DEFINE r == [m EXCEPT !.st = "fail"]
  <2>1. r \in MsgT /\ r.ops = m.ops /\ r.done = m.done /\ r.data = m.data /\ r.st = "fail"
    BY <1>1 DEF MsgT
  <2>2. msg' = [msg EXCEPT ![f] = r]
    BY <1>10
  <2> HIDE DEF r
  <2>3. Attempt(ex[f], r)
    BY <1>1, <1>2, <2>1, OpsOf DEF Attempt
  <2>4. ExitTypes'
    BY <1>3, <1>4, <1>10, OpTypesKept
  <2> QED
    BY <1>1, <1>3, <1>7, <1>10, <2>1, <2>2, <2>3, <2>4
<1> QED
  BY <1>6, <1>8, <1>9, <1>10

-----------------------------------------------------------------------------
(* What keeps the upload and the download in order.                        *)

Upload == InOrder /\ Exact /\ NoHole(got)
Download == Ascends /\ Unbroken

\* Nothing is written at the exit and no new request carries an upload.
LEMMA UploadKept ==
  ASSUME Types, Phases, Phases', Upload,
         got' = got, cut' = cut,
         sess' = "open" => sess = "open",
         "tx" \notin ghost' => "tx" \notin ghost,
         tx' = "loop" => tx = "loop" \/ ex["tx"].st = "ok",
         cause' = "done" => rd' = rd /\ (cause = "done" \/ (tx = "loop" /\ rd = cut)),
         ex'["tx"].st # "idle" => ex["tx"].st # "idle" /\ ex'["tx"].ops = ex["tx"].ops,
         ex'["tx"].st = "ok" => ex["tx"].st = "ok",
         ex'["tx"].st = "busy" =>
           /\ ex["tx"].st = "busy" /\ msg'["tx"].ops[1] = msg["tx"].ops[1]
           /\ msg'["tx"].done = 0 \/ (msg'["tx"].done = msg["tx"].done /\ msg'["tx"].ops = msg["tx"].ops)
           /\ msg'["tx"].done = msg["tx"].done \/ "tx" \in ghost',
         \A i \in DOMAIN late' : Fits(late'[i], got)
  PROVE  Upload'
<1>1. NoHole(got)'
  BY DEF Upload
<1>2. InOrder'
  <2>1. (tx = "loop" \/ ex["tx"].st = "ok" => Has(got, cut))'
    BY DEF Upload, InOrder
  <2>2. (cause = "done" => Has(got, rd))'
    BY DEF Upload, InOrder
  <2>3. (ex["tx"].st # "idle" => Has(got, ex["tx"].ops[1].from - 1))'
    BY DEF Upload, InOrder
  <2>4. (ex["tx"].st = "busy" =>
           /\ Has(got, msg["tx"].ops[1].from - 1)
           /\ msg["tx"].done > 0 => Has(got, msg["tx"].ops[msg["tx"].done].to))'
    BY DEF Upload, InOrder
  <2>5. (\A i \in DOMAIN late : Fits(late[i], got))'
    OBVIOUS
  <2> QED
    BY <2>1, <2>2, <2>3, <2>4, <2>5 DEF InOrder
<1>3. Exact'
  <2> SUFFICES ASSUME "tx" \notin ghost'
               PROVE  /\ Straight(got)'
                      /\ sess' = "open" /\ (tx' = "loop" \/ ex'["tx"].st \in {"busy", "ok"})
                         => Len(got') = Sent'
    BY DEF Exact
  <2>1. Straight(got)'
    BY DEF Upload, Exact
  <2>2. ASSUME sess' = "open", tx' = "loop" \/ ex'["tx"].st \in {"busy", "ok"}
        PROVE  Len(got') = Sent'
    <3>1. CASE ex'["tx"].st = "busy"
      <4>1. Sent' = Sent
        BY <3>1 DEF Sent
      <4> QED
        BY <4>1, <3>1, <2>2 DEF Upload, Exact
    <3>2. CASE ex'["tx"].st # "busy"
      <4>1. Sent' = cut
        BY <3>2 DEF Sent
      <4>2. tx = "loop" \/ ex["tx"].st = "ok"
        BY <3>2, <2>2
      <4>3. Sent = cut
        BY <4>2 DEF Sent, Phases
      <4> QED
        BY <4>1, <4>2, <4>3, <2>2 DEF Upload, Exact
    <3> QED
      BY <3>1, <3>2
  <2> QED
    BY <2>1, <2>2
<1> QED
  BY <1>1, <1>2, <1>3 DEF Upload

\* Nothing new is read for the download, or nobody will see it.
LEMMA DownloadKept ==
  ASSUME Types, Types', Download,
         delivered' = delivered, out <= out',
         ex'["rx"].data \in {ex["rx"].data, <<>>}, msg'["rx"].data \in {msg["rx"].data, <<>>},
         ex'["rx"].st # "ok" => ex'["rx"].data = <<>>,
         msg'["rx"].done = 0 => msg'["rx"].data = <<>>,
         "rx" \notin ghost' =>
           /\ "rx" \notin ghost /\ out' = out
           /\ ex'["rx"].data = ex["rx"].data /\ msg'["rx"].data = msg["rx"].data,
         rx' # "ended" /\ ex'["rx"].st # "err" => rx # "ended" /\ ex["rx"].st # "err"
  PROVE  Download'
<1>1. out \in Nat /\ out' \in Nat /\ (\A i \in DOMAIN delivered : delivered[i] \in Nat)
      /\ ex["rx"].data \in Seq(1 .. NOut) /\ msg["rx"].data \in Seq(1 .. NOut)
  <2>1. ex["rx"] \in ExT /\ msg["rx"] \in MsgT /\ NOut \in Nat
    BY StreamAssumption DEF Types, NetTypes, Flows
  <2>2. delivered \in Seq(1 .. NOut)
    BY DEF Types, BridgeTypes
  <2>3. ASSUME NEW i \in DOMAIN delivered PROVE delivered[i] \in Nat
    <3>1. i \in 1 .. Len(delivered)
      BY <2>2
    <3>2. delivered[i] \in 1 .. NOut
      BY <2>2, <3>1, ElementOfSeq
    <3> QED
      BY <3>2
  <2> QED
    BY <2>1, <2>3 DEF Types, ExitTypes, ExT, MsgT
<1>2. ASSUME NEW d \in Seq(1 .. NOut), NEW e, e \in {d, <<>>}, Fresh(d, delivered, out)
      PROVE  Fresh(e, delivered', out')
  <2>1. CASE e = d
    <3>1. \A j \in DOMAIN d : d[j] \in Nat
      BY <1>2, StreamAssumption
    <3> QED
      BY <3>1, <2>1, <1>1, <1>2 DEF Fresh
  <2>2. CASE e = <<>>
    BY <2>2 DEF Fresh
  <2> QED
    BY <1>2, <2>1, <2>2
<1>3. Fresh(ex'["rx"].data, delivered', out') /\ Fresh(msg'["rx"].data, delivered', out')
  BY <1>1, <1>2 DEF Download, Ascends
<1>4. \A i \in DOMAIN delivered' : delivered'[i] <= out'
  BY <1>1 DEF Download, Ascends
<1>5. Ascends'
  BY <1>3, <1>4 DEF Download, Ascends
<1>6. Unbroken'
  BY DEF Download, Unbroken
<1> QED
  BY <1>5, <1>6 DEF Download

\* A step of the bridge that leaves its exchanges and the exit alone.
LEMMA QuietKept ==
  ASSUME IInv, UNCHANGED <<net, exit, cut, delivered>>, BridgeTypes',
         tx' = "exchange" <=> tx = "exchange", tx' = "closing" <=> tx = "closing",
         rx' = "exchange" <=> rx = "exchange",
         tx' \in {"loop", "exchange"} => cause' = "none",
         tx' = "loop" => tx = "loop", rx' # "ended" => rx # "ended",
         cause' = "done" => rd' = rd /\ (cause = "done" \/ (tx = "loop" /\ rd = cut))
  PROVE  IInv'
<1>1. Types /\ Upload /\ Download /\ Phases
  BY DEF IInv, Types, Upload, Download
<1>2. UNCHANGED <<ex, msg, late, url, faults, ghost, sess, got, out>>
  BY DEF net, exit
<1>3. Types'
  BY <1>1, <1>2 DEF Types, NetTypes, ExitTypes
<1>4. Phases'
  BY <1>1, <1>2 DEF Phases
<1>5. Upload'
  BY <1>1, <1>2, <1>4, UploadKept DEF Upload, InOrder
<1>6. Download'
  <2>1. /\ ex["rx"].st # "ok" => ex["rx"].data = <<>>
        /\ msg["rx"].done = 0 => msg["rx"].data = <<>>
    BY <1>1 DEF Download, Ascends
  <2>2. out <= out'
    BY <1>1, <1>2, StreamAssumption DEF Types, ExitTypes
  <2> QED
    BY <1>1, <1>2, <1>3, <2>1, <2>2, DownloadKept
<1> QED
  BY <1>3, <1>4, <1>5, <1>6 DEF IInv, Types, Upload, Download
LEMMA ReadLocalKeeps == ASSUME IInv, ReadLocal PROVE IInv'
<1>1. /\ UNCHANGED <<cut, tx, cause, cancelled, rx, rxFailed, delivered, net, exit>>
      /\ tx = "loop"
  BY DEF ReadLocal, rest
<1>2. BridgeTypes'
  <2>1. rd' \in cut .. NIn /\ localEnd' \in {"none", "eof", "error"}
    BY StreamAssumption DEF ReadLocal, IInv, BridgeTypes
  <2> QED
    BY <2>1, <1>1 DEF IInv, BridgeTypes
<1>3. cause' = "none"
  BY <1>1 DEF IInv, Phases
<1> QED
  BY <1>1, <1>2, <1>3, QuietKept

LEMMA LocalErrorKeeps == ASSUME IInv, LocalError PROVE IInv'
<1>1. UNCHANGED <<rd, cut, rx, rxFailed, delivered, net, exit>> /\ tx = "loop" /\ cause = "none"
  BY DEF LocalError, rest, IInv, Phases
<1>2. \/ tx' = "wait" /\ cause' = "local"
      \/ tx' = tx /\ cause' = cause
  BY DEF LocalError, Stop
<1>3. BridgeTypes'
  BY <1>1 DEF LocalError, Stop, IInv, BridgeTypes
<1> QED
  BY <1>1, <1>2, <1>3, QuietKept

LEMMA SeeRXFailedKeeps == ASSUME IInv, SeeRXFailed PROVE IInv'
<1>1. UNCHANGED <<rd, cut, localEnd, rx, delivered, net, exit>> /\ tx = "loop"
      /\ tx' = "wait" /\ cause' = "rx"
  BY DEF SeeRXFailed, Stop
<1>2. BridgeTypes'
  BY DEF SeeRXFailed, Stop, IInv, BridgeTypes
<1> QED
  BY <1>1, <1>2, QuietKept

LEMMA SeeCancelledKeeps == ASSUME IInv, SeeCancelled PROVE IInv'
<1>1. UNCHANGED <<rd, cut, localEnd, rx, rxFailed, delivered, net, exit>> /\ tx = "loop"
      /\ tx' = "wait" /\ cause' = "ctx"
  BY DEF SeeCancelled, Stop, rest
<1>2. BridgeTypes'
  BY <1>1 DEF SeeCancelled, Stop, IInv, BridgeTypes
<1> QED
  BY <1>1, <1>2, QuietKept

LEMMA FinishKeeps == ASSUME IInv, Finish PROVE IInv'
<1>1. UNCHANGED <<rd, cut, localEnd, rx, rxFailed, delivered, net, exit>> /\ tx = "loop"
      /\ tx' = "wait" /\ cause' = "done" /\ Pending = 0
  BY DEF Finish, Stop, rest
<1>2. BridgeTypes'
  BY <1>1 DEF Finish, Stop, IInv, BridgeTypes
<1>3. rd = cut
  BY <1>1, StreamAssumption DEF Pending, IInv, BridgeTypes
<1> QED
  BY <1>1, <1>2, <1>3, QuietKept

LEMMA RXStopKeeps == ASSUME IInv, RXStop PROVE IInv'
<1>1. UNCHANGED <<rd, cut, localEnd, tx, cause, cancelled, rxFailed, delivered, net, exit>>
      /\ rx = "poll" /\ rx' = "ended"
  BY DEF RXStop
<1>2. BridgeTypes'
  BY <1>1 DEF IInv, BridgeTypes
<1>3. tx \in {"loop", "exchange"} => cause = "none"
  BY DEF IInv, Phases
<1>4. /\ UNCHANGED <<net, exit, cut, delivered>> /\ (rx' = "exchange" <=> rx = "exchange")
      /\ rx' # "ended" => rx # "ended"
  BY <1>1
<1>5. /\ tx' \in {"loop", "exchange"} => cause' = "none"
      /\ cause' = "done" => rd' = rd /\ cause = "done"
  BY <1>1, <1>3
<1> QED
  BY <1>1, <1>2, <1>4, <1>5, QuietKept

LEMMA ParentCancelKeeps == ASSUME IInv, ParentCancel PROVE IInv'
<1>1. UNCHANGED <<rd, cut, localEnd, tx, cause, rx, rxFailed, delivered, net, exit>>
  BY DEF ParentCancel, rest
<1>2. BridgeTypes'
  BY <1>1 DEF ParentCancel, IInv, BridgeTypes
<1>3. tx \in {"loop", "exchange"} => cause = "none"
  BY DEF IInv, Phases
<1>4. /\ UNCHANGED <<net, exit, cut, delivered>> /\ (rx' = "exchange" <=> rx = "exchange")
      /\ rx' # "ended" => rx # "ended"
  BY <1>1
<1>5. /\ tx' \in {"loop", "exchange"} => cause' = "none"
      /\ cause' = "done" => rd' = rd /\ cause = "done"
  BY <1>1, <1>3
<1> QED
  BY <1>1, <1>2, <1>4, <1>5, QuietKept

\* A session that leaves the exit.
LEMMA GoneKept ==
  ASSUME IInv, UNCHANGED <<bridge, ex, msg, late, url, ghost, got, out>>,
         faults' \in 0 .. MaxFaults, sess' = "gone"
  PROVE  IInv'
<1>1. Types /\ Upload /\ Download /\ Phases
  BY DEF IInv, Types, Upload, Download
<1>2. UNCHANGED <<rd, cut, localEnd, tx, rx, cause, cancelled, rxFailed, delivered>>
  BY DEF bridge
<1>3. Types'
  BY <1>1, <1>2 DEF Types, NetTypes, ExitTypes, BridgeTypes
<1>4. Phases'
  BY <1>1, <1>2 DEF Phases
<1>5. Upload'
  <2>1. \A i \in DOMAIN late' : Fits(late'[i], got)
    BY <1>1 DEF Upload, InOrder
  <2>2. sess' = "open" => sess = "open"
    OBVIOUS
  <2>3. cause' = "done" => rd' = rd /\ (cause = "done" \/ (tx = "loop" /\ rd = cut))
    BY <1>2
  <2> QED
    BY <1>1, <1>2, <1>4, <2>1, <2>2, <2>3, UploadKept
<1>6. Download'
  <2>1. /\ ex["rx"].st # "ok" => ex["rx"].data = <<>>
        /\ msg["rx"].done = 0 => msg["rx"].data = <<>>
    BY <1>1 DEF Download, Ascends
  <2>2. out <= out'
    BY <1>1, <1>2, StreamAssumption DEF Types, ExitTypes
  <2> QED
    BY <1>1, <1>2, <1>3, <2>1, <2>2, DownloadKept
<1> QED
  BY <1>3, <1>4, <1>5, <1>6 DEF IInv, Types, Upload, Download

LEMMA SweepKeeps == ASSUME IInv, Sweep PROVE IInv'
<1>1. UNCHANGED <<bridge, ex, msg, late, url, ghost, got, out>> /\ sess' = "gone"
      /\ faults' = faults
  BY DEF Sweep, net
<1>2. faults \in 0 .. MaxFaults
  BY DEF IInv, NetTypes
<1> QED
  BY <1>1, <1>2, GoneKept

LEMMA RestartKeeps == ASSUME IInv, Restart PROVE IInv'
<1>1. UNCHANGED <<bridge, ex, msg, late, url, ghost, got, out>> /\ sess' = "gone"
  BY DEF Restart
<1>2. faults' \in 0 .. MaxFaults
  BY StreamAssumption DEF Restart, IInv, NetTypes
<1> QED
  BY <1>1, <1>2, GoneKept

\* What a new exchange and its first request look like.
LEMMA StartFits ==
  ASSUME Types, NEW f \in Flows, NEW ops \in Seq(OpT), ops # <<>>, Start(f, ops)
  PROVE  Attempt(ex'[f], msg'[f])
<1>1. ex'[f] \in ExT /\ msg'[f] \in MsgT
  BY StartTypes DEF NetTypes
<1>2. /\ ex'[f].st = "busy" /\ ex'[f].ops = ops /\ ex'[f].at = 1
      /\ msg'[f].ops = Request(ex'[f]) /\ msg'[f].st = "fly" /\ msg'[f].done = 0
  BY StartTypes
<1>3. ex'[f].at \in 1 .. Len(ex'[f].ops)
  BY <1>2
<1>4. Request(ex'[f]) \in Seq(OpT) /\ Request(ex'[f]) # <<>>
  BY <1>1, <1>3, RequestIs
<1> QED
  BY <1>1, <1>2, <1>3, <1>4 DEF Attempt

LEMMA PollKeeps == ASSUME IInv, Poll PROVE IInv'
<1>1. Types /\ Upload /\ Download /\ Phases
  BY DEF IInv, Types, Upload, Download
<1>2. /\ UNCHANGED <<rd, cut, localEnd, tx, cause, cancelled, rxFailed, delivered, sess, got, out>>
      /\ UNCHANGED <<late, url, faults, ghost>>
      /\ rx = "poll" /\ rx' = "exchange" /\ Start("rx", <<RXOp>>)
  BY DEF Poll, exit, Start
<1>3. "rx" \in Flows /\ <<RXOp>> \in Seq(OpT) /\ <<RXOp>> # <<>>
  BY OpTypes DEF Flows
<1>4. /\ NetTypes' /\ Others("rx") /\ ex'["rx"].st = "busy" /\ ex'["rx"].ops = <<RXOp>>
      /\ ex'["rx"].data = <<>> /\ msg'["rx"].data = <<>> /\ msg'["rx"].done = 0
  BY <1>1, <1>2, <1>3, StartTypes DEF Others
<1>5. Types'
  BY <1>1, <1>2, <1>4 DEF Types, BridgeTypes, ExitTypes
<1>6. Attempt(ex'["rx"], msg'["rx"])
  BY <1>1, <1>2, <1>3, StartFits
<1>7. Phases'
  BY <1>1, <1>2, <1>4, <1>6 DEF Phases, Others, Flows
<1>8. ex'["tx"] = ex["tx"] /\ msg'["tx"] = msg["tx"]
  BY <1>4 DEF Others, Flows
<1>9. Upload'
  <2>1. \A i \in DOMAIN late' : Fits(late'[i], got)
    BY <1>1, <1>2 DEF Upload, InOrder
  <2> QED
    BY <1>1, <1>2, <1>7, <1>8, <2>1, UploadKept
<1>10. Download'
  <2>1. ex["rx"].st = "idle" /\ ex["rx"].data = <<>> /\ msg["rx"].data = <<>>
    BY <1>1, <1>2, <1>3 DEF Phases, Attempt, Download, Ascends
  <2>2. out <= out'
    BY <1>1, <1>2, StreamAssumption DEF Types, ExitTypes
  <2> QED
    BY <1>1, <1>2, <1>4, <1>5, <2>1, <2>2, DownloadKept
<1> QED
  BY <1>5, <1>7, <1>9, <1>10 DEF IInv, Types, Upload, Download

LEMMA CloseSessionKeeps == ASSUME IInv, CloseSession PROVE IInv'
<1>1. Types /\ Upload /\ Download /\ Phases
  BY DEF IInv, Types, Upload, Download
<1>2. /\ UNCHANGED <<rd, cut, localEnd, rx, cause, cancelled, rxFailed, delivered, sess, got, out>>
      /\ UNCHANGED <<late, url, faults, ghost>>
      /\ tx = "wait" /\ tx' = "closing" /\ Start("close", <<CloseOp>>)
  BY DEF CloseSession, exit, Start, rest
<1>3. "close" \in Flows /\ <<CloseOp>> \in Seq(OpT) /\ <<CloseOp>> # <<>>
  BY OpTypes DEF Flows
<1>4. /\ NetTypes' /\ Others("close") /\ ex'["close"].st = "busy"
      /\ ex'["close"].ops = <<CloseOp>>
  BY <1>1, <1>2, <1>3, StartTypes DEF Others
<1>5. Types'
  BY <1>1, <1>2, <1>4 DEF Types, BridgeTypes, ExitTypes
<1>6. Attempt(ex'["close"], msg'["close"])
  BY <1>1, <1>2, <1>3, StartFits
<1>7. Phases'
  BY <1>1, <1>2, <1>4, <1>6 DEF Phases, Others, Flows
<1>8. /\ ex'["tx"] = ex["tx"] /\ msg'["tx"] = msg["tx"]
      /\ ex'["rx"] = ex["rx"] /\ msg'["rx"] = msg["rx"]
  BY <1>4 DEF Others, Flows
<1>9. Upload'
  <2>1. \A i \in DOMAIN late' : Fits(late'[i], got)
    BY <1>1, <1>2 DEF Upload, InOrder
  <2> QED
    BY <1>1, <1>2, <1>7, <1>8, <2>1, UploadKept
<1>10. Download'
  <2>1. /\ ex["rx"].st # "ok" => ex["rx"].data = <<>>
        /\ msg["rx"].done = 0 => msg["rx"].data = <<>>
    BY <1>1 DEF Download, Ascends
  <2>2. out <= out'
    BY <1>1, <1>2, StreamAssumption DEF Types, ExitTypes
  <2> QED
    BY <1>1, <1>2, <1>5, <1>8, <2>1, <2>2, DownloadKept
<1> QED
  BY <1>5, <1>7, <1>9, <1>10 DEF IInv, Types, Upload, Download

LEMMA FlushKeeps == ASSUME IInv, Flush PROVE IInv'
<1>1. Types /\ Upload /\ Download /\ Phases
  BY DEF IInv, Types, Upload, Download
<1> DEFINE end == IF WithTail THEN rd ELSE cut + Chunks * Chunk
           ops == Batch
<1>2. /\ UNCHANGED <<rd, localEnd, rx, cause, cancelled, rxFailed, delivered, sess, got, out>>
      /\ UNCHANGED <<late, url, faults, ghost>>
      /\ tx = "loop" /\ tx' = "exchange" /\ Start("tx", ops) /\ cut' = end
  BY DEF Flush, exit, Start, rest
<1>3. /\ ops \in Seq(OpT) /\ Chain(ops) /\ end \in cut .. rd
      /\ ops[1].from = cut + 1 /\ ops[Len(ops)].to = end
  BY <1>1, BatchIsChain DEF Flush, Types
<1> HIDE DEF end, ops
<1>4. "tx" \in Flows /\ ops # <<>>
  BY <1>3 DEF Flows, Chain
<1>5. /\ NetTypes' /\ Others("tx") /\ ex'["tx"].st = "busy" /\ ex'["tx"].ops = ops
      /\ msg'["tx"].ops = ops /\ msg'["tx"].done = 0
  BY <1>1, <1>2, <1>3, <1>4, StartTypes DEF Others, Request
<1>6. cut \in Nat /\ cut' \in cut .. rd /\ cut' \in 0 .. rd' /\ rd \in Nat
  BY <1>1, <1>2, <1>3, StreamAssumption DEF Types, BridgeTypes
<1>7. Types'
  BY <1>1, <1>2, <1>5, <1>6 DEF Types, BridgeTypes, ExitTypes
<1>8. Attempt(ex'["tx"], msg'["tx"])
  BY <1>1, <1>2, <1>3, <1>4, StartFits
<1>9. Phases'
  <2>1. (ex["tx"].st # "idle" =>
           Chain(ex["tx"].ops) /\ ex["tx"].ops[Len(ex["tx"].ops)].to = cut)'
    BY <1>2, <1>3, <1>5
  <2>2. \A f \in Flows : Attempt(ex'[f], msg'[f])
    BY <1>1, <1>5, <1>8 DEF Phases, Others
  <2> QED
    BY <1>1, <1>2, <1>5, <2>1, <2>2 DEF Phases, Others, Flows
<1>10. cause = "none" /\ cause' = "none"
  BY <1>1, <1>2 DEF Phases
<1>11. Upload'
  <2>1. Has(got, cut) /\ NoHole(got)
    BY <1>1, <1>2 DEF Upload, InOrder
  <2>2. ops[1].from - 1 = cut
    BY <1>3, <1>6
  <2>3. InOrder'
    <3>1. \A i \in DOMAIN late' : Fits(late'[i], got)
      BY <1>1, <1>2 DEF Upload, InOrder
    <3> QED
      BY <1>2, <1>5, <1>10, <2>1, <2>2, <3>1 DEF InOrder
  <2>4. Exact'
    <3>1. Sent' = cut
      BY <1>5, <2>2 DEF Sent
    <3>2. Sent = cut
      BY <1>1, <1>2 DEF Sent, Phases
    <3> QED
      BY <1>1, <1>2, <3>1, <3>2 DEF Upload, Exact
  <2> QED
    BY <1>2, <2>1, <2>3, <2>4 DEF Upload
<1>12. Download'
  <2>0. ex'["rx"] = ex["rx"] /\ msg'["rx"] = msg["rx"]
    BY <1>5 DEF Others, Flows
  <2>1. /\ ex["rx"].st # "ok" => ex["rx"].data = <<>>
        /\ msg["rx"].done = 0 => msg["rx"].data = <<>>
    BY <1>1 DEF Download, Ascends
  <2>2. out <= out'
    BY <1>1, <1>2, StreamAssumption DEF Types, ExitTypes
  <2> QED
    BY <1>1, <1>2, <1>7, <2>0, <2>1, <2>2, DownloadKept
<1> QED
  BY <1>7, <1>9, <1>11, <1>12 DEF IInv, Types, Upload, Download

LEMMA EndIs ==
  ASSUME Types, NEW f \in Flows, EndExchange(f)
  PROVE  /\ NetTypes' /\ msg' = msg /\ UNCHANGED <<late, url, faults, ghost>>
         /\ \A g \in Flows \ {f} : ex'[g] = ex[g]
         /\ ex'[f].st = "idle" /\ ex'[f].data = <<>>
<1>1. ex' = [ex EXCEPT ![f] = Idle] /\ UNCHANGED <<msg, late, url, faults, ghost>>
  BY DEF EndExchange
<1>2. Idle \in ExT /\ Idle.st = "idle" /\ Idle.data = <<>>
  BY OpTypes DEF Idle
<1> QED
  BY <1>1, <1>2 DEF Types, NetTypes

LEMMA FlushedKeeps == ASSUME IInv, Flushed PROVE IInv'
<1>1. Types /\ Upload /\ Download /\ Phases
  BY DEF IInv, Types, Upload, Download
<1>2. /\ UNCHANGED <<rd, cut, localEnd, rx, rxFailed, delivered, sess, got, out>>
      /\ tx = "exchange" /\ EndExchange("tx")
  BY DEF Flushed, exit, rest
<1>3. \/ ex["tx"].st = "ok" /\ tx' = "loop" /\ UNCHANGED <<cause, cancelled>>
      \/ ex["tx"].st = "err" /\ tx' = "wait" /\ cause' = "tx" /\ cancelled' = TRUE
  BY DEF Flushed, Stop
<1>4. "tx" \in Flows /\ cause = "none"
  BY <1>1, <1>2 DEF Phases, Flows
<1>5. /\ NetTypes' /\ msg' = msg /\ UNCHANGED <<late, url, faults, ghost>>
      /\ ex'["rx"] = ex["rx"] /\ ex'["close"] = ex["close"] /\ ex'["tx"].st = "idle"
  BY <1>1, <1>2, <1>4, EndIs DEF Flows
<1>6. Types'
  BY <1>1, <1>2, <1>3, <1>5 DEF Types, BridgeTypes, ExitTypes
<1>7. Phases'
  <2>1. Attempt(ex'["tx"], msg'["tx"])
    BY <1>1, <1>3, <1>4, <1>5 DEF Phases, Attempt
  <2> QED
    BY <1>1, <1>2, <1>3, <1>4, <1>5, <2>1 DEF Phases, Flows
<1>8. Upload'
  <2>1. \A i \in DOMAIN late' : Fits(late'[i], got)
    BY <1>1, <1>5 DEF Upload, InOrder
  <2>2. cause' # "done"
    BY <1>3, <1>4
  <2> QED
    BY <1>1, <1>2, <1>3, <1>5, <1>7, <2>1, <2>2, UploadKept
<1>9. Download'
  <2>1. /\ ex["rx"].st # "ok" => ex["rx"].data = <<>>
        /\ msg["rx"].done = 0 => msg["rx"].data = <<>>
    BY <1>1 DEF Download, Ascends
  <2>2. out <= out'
    BY <1>1, <1>2, StreamAssumption DEF Types, ExitTypes
  <2> QED
    BY <1>1, <1>2, <1>5, <1>6, <2>1, <2>2, DownloadKept
<1> QED
  BY <1>6, <1>7, <1>8, <1>9 DEF IInv, Types, Upload, Download

LEMMA ClosedKeeps == ASSUME IInv, Closed PROVE IInv'
<1>1. Types /\ Upload /\ Download /\ Phases
  BY DEF IInv, Types, Upload, Download
<1>2. /\ UNCHANGED <<rd, cut, localEnd, rx, cause, cancelled, rxFailed, delivered, sess, got, out>>
      /\ tx = "closing" /\ tx' = "ended" /\ EndExchange("close")
      /\ ex["close"].st # "busy"
  BY DEF Closed, exit, rest
<1>4. "close" \in Flows
  BY DEF Flows
<1>5. /\ NetTypes' /\ msg' = msg /\ UNCHANGED <<late, url, faults, ghost>>
      /\ ex'["rx"] = ex["rx"] /\ ex'["tx"] = ex["tx"] /\ ex'["close"].st = "idle"
  BY <1>1, <1>2, <1>4, EndIs DEF Flows
<1>6. Types'
  BY <1>1, <1>2, <1>5 DEF Types, BridgeTypes, ExitTypes
<1>7. Phases'
  <2>1. Attempt(ex'["close"], msg'["close"])
    BY <1>1, <1>2, <1>4, <1>5 DEF Phases, Attempt
  <2> QED
    BY <1>1, <1>2, <1>4, <1>5, <2>1 DEF Phases, Flows
<1>8. Upload'
  <2>1. \A i \in DOMAIN late' : Fits(late'[i], got)
    BY <1>1, <1>5, <1>2 DEF Upload, InOrder
  <2> QED
    BY <1>1, <1>2, <1>5, <1>7, <2>1, UploadKept
<1>9. Download'
  <2>1. /\ ex["rx"].st # "ok" => ex["rx"].data = <<>>
        /\ msg["rx"].done = 0 => msg["rx"].data = <<>>
    BY <1>1 DEF Download, Ascends
  <2>2. out <= out'
    BY <1>1, <1>2, StreamAssumption DEF Types, ExitTypes
  <2> QED
    BY <1>1, <1>2, <1>5, <1>6, <2>1, <2>2, DownloadKept
<1> QED
  BY <1>6, <1>7, <1>8, <1>9 DEF IInv, Types, Upload, Download

\* What is delivered after what was delivered before.
LEMMA Delivers ==
  ASSUME NEW s \in Seq(1 .. NOut), NEW d \in Seq(1 .. NOut), NEW n \in Nat,
         \A i, j \in DOMAIN s : i < j => s[i] < s[j],
         \A i \in DOMAIN s : s[i] <= n,
         Fresh(d, s, n)
  PROVE  LET e == s \o d IN
         /\ Len(e) = Len(s) + Len(d)
         /\ \A i, j \in DOMAIN e : i < j => e[i] < e[j]
         /\ \A i \in DOMAIN e : e[i] <= n
         /\ Follows(d, s) /\ Straight(s) => Straight(e)
<1> DEFINE e == s \o d
           l == Len(s)
           k == Len(d)
<1>1. l \in Nat /\ k \in Nat /\ DOMAIN s = 1 .. l /\ DOMAIN d = 1 .. k
  OBVIOUS
<1>2. e \in Seq(1 .. NOut) /\ Len(e) = l + k
  BY ConcatProperties
<1>3. /\ \A i \in 1 .. l : e[i] = s[i]
      /\ \A i \in l + 1 .. l + k : i - l \in 1 .. k /\ e[i] = d[i - l]
  <2>1. ASSUME NEW i \in 1 .. l PROVE e[i] = s[i]
    BY <1>1
  <2>2. ASSUME NEW i \in l + 1 .. l + k PROVE i - l \in 1 .. k /\ e[i] = d[i - l]
    <3>1. i \in 1 .. l + k /\ i > l
      BY <1>1
    <3> QED
      BY <3>1, <1>1
  <2> QED
    BY <2>1, <2>2
<1>4. DOMAIN e = 1 .. l + k
  BY <1>1, <1>2
<1>5. /\ \A i \in 1 .. l : s[i] \in Nat
      /\ \A i \in 1 .. k : d[i] \in Nat
  <2>1. ASSUME NEW i \in 1 .. l PROVE s[i] \in Nat
    <3>1. s[i] \in 1 .. NOut
      BY ElementOfSeq
    <3> QED
      BY <3>1
  <2>2. ASSUME NEW i \in 1 .. k PROVE d[i] \in Nat
    <3>1. d[i] \in 1 .. NOut
      BY ElementOfSeq
    <3> QED
      BY <3>1
  <2> QED
    BY <2>1, <2>2
<1> HIDE DEF e
<1>6. ASSUME NEW i \in DOMAIN e PROVE e[i] <= n
  <2>1. CASE i \in 1 .. l
    BY <2>1, <1>1, <1>3
  <2>2. CASE i \in l + 1 .. l + k
    BY <2>2, <1>1, <1>3 DEF Fresh
  <2> QED
    BY <2>1, <2>2, <1>1, <1>4
<1>7. ASSUME NEW i \in DOMAIN e, NEW j \in DOMAIN e, i < j PROVE e[i] < e[j]
  <2>0. i \in 1 .. l + k /\ j \in 1 .. l + k
    BY <1>4
  <2>1. CASE j \in 1 .. l
    <3>1. i \in 1 .. l
      BY <2>0, <2>1, <1>1, <1>7
    <3> QED
      BY <2>1, <3>1, <1>1, <1>3, <1>7
  <2>2. CASE i \in 1 .. l /\ j \in l + 1 .. l + k
    <3>1. j - l \in DOMAIN d /\ e[j] = d[j - l]
      BY <2>2, <1>1, <1>3
    <3>2. e[i] = s[i] /\ i \in DOMAIN s
      BY <2>2, <1>1, <1>3
    <3> QED
      BY <3>1, <3>2 DEF Fresh
  <2>3. CASE i \in l + 1 .. l + k
    <3>1. j \in l + 1 .. l + k
      BY <2>0, <2>3, <1>1, <1>7
    <3>2. i - l \in 1 .. k /\ j - l \in 1 .. k /\ e[i] = d[i - l] /\ e[j] = d[j - l]
      BY <3>1, <2>3, <1>3
    <3>3. i - l < j - l
      BY <2>0, <1>1, <1>7
    <3> QED
      BY <3>2, <3>3, <1>1 DEF Fresh
  <2> QED
    BY <2>0, <2>1, <2>2, <2>3, <1>1
<1>8. ASSUME Follows(d, s), Straight(s) PROVE Straight(e)
  <2> SUFFICES ASSUME NEW i \in DOMAIN e PROVE e[i] = i
    BY DEF Straight
  <2>1. CASE i \in 1 .. l
    BY <2>1, <1>1, <1>3, <1>8 DEF Straight
  <2>2. CASE i \in l + 1 .. l + k
    <3>1. i - l \in 1 .. k /\ e[i] = d[i - l]
      BY <2>2, <1>3
    <3>2. d[i - l] = l + (i - l)
      BY <3>1, <1>1, <1>8 DEF Follows
    <3> QED
      BY <3>1, <3>2, <2>2, <1>1
  <2> QED
    BY <2>1, <2>2, <1>1, <1>4
<1> QED
  BY <1>2, <1>6, <1>7, <1>8 DEF e

LEMMA DeliverKeeps == ASSUME IInv, Deliver PROVE IInv'
<1>1. Types /\ Upload /\ Download /\ Phases
  BY DEF IInv, Types, Upload, Download
<1> DEFINE d == ex["rx"].data
<1>2. /\ UNCHANGED <<rd, cut, localEnd, tx, cause, cancelled, sess, got, out>>
      /\ rx = "exchange" /\ EndExchange("rx") /\ ex["rx"].st # "busy"
  BY DEF Deliver, exit
<1>3. \/ ex["rx"].st = "ok" /\ rx' = "poll" /\ delivered' = delivered \o d /\ UNCHANGED rxFailed
      \/ rx' = "ended" /\ rxFailed' = ~cancelled /\ UNCHANGED delivered
  BY DEF Deliver, Delivered, RXFail
<1>4. "rx" \in Flows /\ d \in Seq(1 .. NOut) /\ delivered \in Seq(1 .. NOut)
  BY <1>1 DEF Flows, Types, NetTypes, ExT, BridgeTypes
<1>5. /\ NetTypes' /\ msg' = msg /\ UNCHANGED <<late, url, faults, ghost>>
      /\ ex'["tx"] = ex["tx"] /\ ex'["close"] = ex["close"]
      /\ ex'["rx"].st = "idle" /\ ex'["rx"].data = <<>>
  BY <1>1, <1>2, <1>4, EndIs DEF Flows
<1>6. Types'
  <2>1. delivered' \in Seq(1 .. NOut)
    BY <1>3, <1>4, ConcatProperties
  <2>2. rxFailed' \in BOOLEAN /\ rx' \in {"poll", "exchange", "ended"}
    BY <1>1, <1>3 DEF Types, BridgeTypes
  <2> QED
    BY <1>1, <1>2, <1>5, <2>1, <2>2 DEF Types, BridgeTypes, ExitTypes
<1>7. msg["rx"].done = 0 /\ msg["rx"].data = <<>>
  BY <1>1, <1>2, <1>4 DEF Phases, Attempt
<1>8. Phases'
  <2>1. Attempt(ex'["rx"], msg'["rx"])
    BY <1>5, <1>7 DEF Attempt
  <2>2. rx' # "exchange"
    BY <1>3
  <2> QED
    BY <1>1, <1>2, <1>5, <2>1, <2>2 DEF Phases, Flows
<1>9. Upload'
  <2>1. \A i \in DOMAIN late' : Fits(late'[i], got)
    BY <1>1, <1>5 DEF Upload, InOrder
  <2> QED
    BY <1>1, <1>2, <1>5, <1>8, <2>1, UploadKept
<1>10. out \in Nat /\ out <= out' /\ NOut \in Nat
  BY <1>1, <1>2, StreamAssumption DEF Types, ExitTypes
<1>11. Download'
  <2>1. CASE rx' = "ended" /\ UNCHANGED delivered
    <3>1. Fresh(<<>>, delivered, out)
      BY DEF Fresh
    <3>2. Ascends'
      BY <1>1, <1>2, <1>5, <1>7, <2>1, <3>1 DEF Download, Ascends
    <3>3. Unbroken'
      BY <1>1, <1>5, <2>1 DEF Download, Unbroken
    <3> QED
      BY <3>2, <3>3 DEF Download
  <2>2. CASE ex["rx"].st = "ok" /\ rx' = "poll" /\ delivered' = delivered \o d
    <3> HIDE DEF d
    <3>1. /\ Len(delivered') = Len(delivered) + Len(d)
          /\ \A i, j \in DOMAIN delivered' : i < j => delivered'[i] < delivered'[j]
          /\ \A i \in DOMAIN delivered' : delivered'[i] <= out
          /\ Follows(d, delivered) /\ Straight(delivered) => Straight(delivered')
      <4>1. /\ \A i, j \in DOMAIN delivered : i < j => delivered[i] < delivered[j]
            /\ \A i \in DOMAIN delivered : delivered[i] <= out
            /\ Fresh(d, delivered, out)
        BY <1>1 DEF Download, Ascends, d
      <4> QED
        BY <1>4, <1>10, <2>2, <4>1, Delivers
    <3>2. Fresh(<<>>, delivered', out)
      BY DEF Fresh
    <3>3. Ascends'
      BY <1>2, <1>5, <1>7, <3>1, <3>2 DEF Ascends
    <3>4. Unbroken'
      <4> SUFFICES ASSUME "rx" \notin ghost'
                   PROVE  /\ Straight(delivered')
                          /\ Follows(<<>>, delivered')
                          /\ out = Len(delivered') + 0 + 0
        BY <1>2, <1>5, <1>7 DEF Unbroken, Straight
      <4>1. /\ Straight(delivered) /\ Follows(d, delivered)
            /\ out = Len(delivered) + Len(d) + Len(msg["rx"].data)
        BY <1>1, <1>2, <1>5, <2>2 DEF Download, Unbroken, Straight, d
      <4>2. Len(msg["rx"].data) = 0
        BY <1>7
      <4> QED
        BY <4>1, <4>2, <3>1, <1>4 DEF Follows
    <3> QED
      BY <3>3, <3>4 DEF Download
  <2> QED
    BY <1>3, <2>1, <2>2
<1> QED
  BY <1>6, <1>8, <1>9, <1>11 DEF IInv, Types, Upload, Download

\* A step of an exchange that leaves the exit alone.
LEMMA RefuseBatchKeeps ==
  ASSUME IInv, NEW f \in Flows, RefuseBatch(f) PROVE IInv'
<1>1. Types /\ Upload /\ Download /\ Phases
  BY DEF IInv, Types, Upload, Download
<1>2. /\ Types' /\ Phases' /\ Others(f) /\ ex' = ex
      /\ msg'[f].done = msg[f].done /\ msg'[f].ops = msg[f].ops
      /\ msg'[f].data = msg[f].data
  BY <1>1, RefuseBatchIs
<1>3. UNCHANGED <<rd, cut, localEnd, tx, rx, cause, cancelled, rxFailed, delivered,
                  sess, got, out, late, url, faults, ghost>>
  BY DEF RefuseBatch, bridge, exit
<1>4. /\ \A g \in Flows : msg'[g].done = msg[g].done /\ msg'[g].ops = msg[g].ops
                          /\ msg'[g].data = msg[g].data
      /\ "tx" \in Flows /\ "rx" \in Flows
  BY <1>2 DEF Others, Flows
<1>5. Upload'
  <2>1. \A i \in DOMAIN late' : Fits(late'[i], got)
    BY <1>1, <1>3 DEF Upload, InOrder
  <2> QED
    BY <1>1, <1>2, <1>3, <1>4, <2>1, UploadKept
<1>6. Download'
  <2>1. /\ ex["rx"].st # "ok" => ex["rx"].data = <<>>
        /\ msg["rx"].done = 0 => msg["rx"].data = <<>>
    BY <1>1 DEF Download, Ascends
  <2>2. out <= out'
    BY <1>1, <1>3, StreamAssumption DEF Types, ExitTypes
  <2> QED
    BY <1>1, <1>2, <1>3, <1>4, <2>1, <2>2, DownloadKept
<1> QED
  BY <1>2, <1>5, <1>6 DEF IInv, Types, Upload, Download

\* Before an attempt's only op is executed, or when the flow is not the
\* download, there is nothing new for the download.
LEMMA OneOp ==
  ASSUME Types, Phases, Download, ex["rx"].st = "busy"
  PROVE  /\ msg["rx"].ops = <<RXOp>> /\ msg["rx"].done \in {0, 1}
         /\ msg["rx"].st # "ok" => msg["rx"].done = 0 /\ msg["rx"].data = <<>>
         /\ ex["rx"].data = <<>> /\ ex["rx"].at = 1 /\ ex["rx"].ops = <<RXOp>>
<1>1. "rx" \in Flows
  BY DEF Flows
<1>2. msg["rx"].ops = <<RXOp>> /\ ex["rx"].ops = <<RXOp>> /\ msg["rx"].done \in 0 .. 1
      /\ ex["rx"].at \in 1 .. 1
  <2>1. Len(<<RXOp>>) = 1
    OBVIOUS
  <2> QED
    BY <1>1, <2>1, OpsOf
<1>3. msg["rx"].st # "ok" => msg["rx"].done < 1
  <2>1. msg["rx"].st # "ok" => msg["rx"].done < Len(<<RXOp>>)
    BY <1>1, <1>2 DEF Phases, Attempt
  <2> QED
    BY <2>1
<1>4. ex["rx"].data = <<>> /\ (msg["rx"].done = 0 => msg["rx"].data = <<>>)
  BY DEF Download, Ascends
<1> QED
  BY <1>2, <1>3, <1>4

\* The download when an exchange other than its own moves.
LEMMA DownloadApart ==
  ASSUME Types, Types', Download, NEW f \in Flows \ {"rx"}, Others(f),
         UNCHANGED <<delivered, rx, out>>, "rx" \notin ghost' => "rx" \notin ghost
  PROVE  Download'
<1>1. ex'["rx"] = ex["rx"] /\ msg'["rx"] = msg["rx"]
  BY DEF Others, Flows
<1>2. /\ ex["rx"].st # "ok" => ex["rx"].data = <<>>
      /\ msg["rx"].done = 0 => msg["rx"].data = <<>>
  BY DEF Download, Ascends
<1>3. out <= out'
  BY StreamAssumption DEF Types, ExitTypes
<1> QED
  BY <1>1, <1>2, <1>3, DownloadKept

\* The upload when an exchange other than its own moves.
LEMMA UploadApart ==
  ASSUME Types, Phases, Phases', Upload, NEW f \in Flows \ {"tx"}, Others(f),
         UNCHANGED <<got, cut, tx, cause, rd>>, sess' = "open" => sess = "open",
         "tx" \notin ghost' => "tx" \notin ghost,
         \A i \in DOMAIN late' : Fits(late'[i], got)
  PROVE  Upload'
<1>1. ex'["tx"] = ex["tx"] /\ msg'["tx"] = msg["tx"]
  BY DEF Others, Flows
<1> QED
  BY <1>1, UploadKept

LEMMA GoSequentialKeeps ==
  ASSUME IInv, NEW f \in Flows, GoSequential(f) PROVE IInv'
<1>1. Types /\ Upload /\ Download /\ Phases
  BY DEF IInv, Types, Upload, Download
<1>2. /\ Types' /\ Phases' /\ Others(f)
      /\ ex[f].st = "busy" /\ msg[f].done = 0 /\ msg[f].ops = ex[f].ops
      /\ ex'[f].st = "busy" /\ ex'[f].ops = ex[f].ops /\ ex'[f].data = ex[f].data
      /\ msg'[f].done = 0 /\ msg'[f].data = <<>> /\ msg'[f].ops = <<ex[f].ops[1]>>
  BY <1>1, GoSequentialIs
<1>3. UNCHANGED <<rd, cut, localEnd, tx, rx, cause, cancelled, rxFailed, delivered,
                  sess, got, out, late, url, faults, ghost>>
  BY DEF GoSequential, bridge, exit
<1>4. \A i \in DOMAIN late' : Fits(late'[i], got)
  BY <1>1, <1>3 DEF Upload, InOrder
<1>5. Upload'
  <2>1. CASE f = "tx"
    <3>1. msg'["tx"].ops[1] = msg["tx"].ops[1]
      BY <1>2, <2>1
    <3> QED
      BY <1>1, <1>2, <1>3, <1>4, <2>1, <3>1, UploadKept
  <2>2. CASE f # "tx"
    BY <1>1, <1>2, <1>3, <1>4, <2>2, UploadApart
  <2> QED
    BY <2>1, <2>2
<1>6. Download'
  <2>1. CASE f = "rx"
    <3>1. ex["rx"].data = <<>> /\ msg["rx"].data = <<>>
      BY <1>1, <1>2, <2>1 DEF Download, Ascends
    <3>2. out <= out'
      BY <1>1, <1>3, StreamAssumption DEF Types, ExitTypes
    <3> QED
      BY <1>1, <1>2, <1>3, <2>1, <3>1, <3>2, DownloadKept
  <2>2. CASE f # "rx"
    BY <1>1, <1>2, <1>3, <2>2, DownloadApart
  <2> QED
    BY <2>1, <2>2
<1> QED
  BY <1>2, <1>5, <1>6 DEF IInv, Types, Upload, Download

LEMMA RefusedKeeps ==
  ASSUME IInv, NEW f \in Flows, Refused(f) PROVE IInv'
<1>1. Types /\ Upload /\ Download /\ Phases
  BY DEF IInv, Types, Upload, Download
<1>2. /\ Types' /\ Phases' /\ Others(f)
      /\ ex[f].st = "busy"
      /\ ex'[f].st = "err" /\ ex'[f].ops = ex[f].ops /\ ex'[f].data = ex[f].data
      /\ msg'[f].done = 0 /\ msg'[f].data = <<>>
  BY <1>1, RefusedIs
<1>3. UNCHANGED <<rd, cut, localEnd, tx, rx, cause, cancelled, rxFailed, delivered,
                  sess, got, out, late, url, faults, ghost>>
      /\ msg[f].st = "fail"
  BY DEF Refused, bridge, exit
<1>4. \A i \in DOMAIN late' : Fits(late'[i], got)
  BY <1>1, <1>3 DEF Upload, InOrder
<1>5. Upload'
  <2>1. CASE f = "tx"
    BY <1>1, <1>2, <1>3, <1>4, <2>1, UploadKept
  <2>2. CASE f # "tx"
    BY <1>1, <1>2, <1>3, <1>4, <2>2, UploadApart
  <2> QED
    BY <2>1, <2>2
<1>6. Download'
  <2>1. CASE f = "rx"
    <3>1. ex["rx"].data = <<>> /\ msg["rx"].data = <<>>
      BY <1>1, <1>2, <1>3, <2>1, OneOp
    <3>2. out <= out'
      BY <1>1, <1>3, StreamAssumption DEF Types, ExitTypes
    <3> QED
      BY <1>1, <1>2, <1>3, <2>1, <3>1, <3>2, DownloadKept
  <2>2. CASE f # "rx"
    BY <1>1, <1>2, <1>3, <2>2, DownloadApart
  <2> QED
    BY <2>1, <2>2
<1> QED
  BY <1>2, <1>5, <1>6 DEF IInv, Types, Upload, Download

\* The op that comes next is in its turn.
LEMMA NextInTurn ==
  ASSUME Types, Phases, Upload, ex["tx"].st = "busy",
         msg["tx"].done + 1 \in 1 .. Len(msg["tx"].ops)
  PROVE  LET o == msg["tx"].ops[msg["tx"].done + 1] IN
         /\ o \in OpT /\ o.op = "tx" /\ 1 <= o.from /\ o.from <= o.to
         /\ Has(got, o.from - 1) /\ Sent = o.from - 1
<1> DEFINE m == msg["tx"]
           o == m.ops[m.done + 1]
<1>1. m.ops \in Seq(OpT) /\ m.done \in Nat /\ Chain(m.ops) /\ "tx" \in Flows
  <2>1. "tx" \in Flows
    BY DEF Flows
  <2> QED
    BY <2>1, OpsOf
<1>2. o \in OpT /\ o.op = "tx" /\ 1 <= o.from /\ o.from <= o.to
  BY <1>1 DEF Chain
<1>3. /\ Has(got, m.ops[1].from - 1)
      /\ m.done > 0 => Has(got, m.ops[m.done].to)
  BY DEF Upload, InOrder
<1>4. CASE m.done = 0
  BY <1>2, <1>3, <1>4 DEF Sent
<1>5. CASE m.done > 0
  <2>1. m.done \in DOMAIN m.ops /\ m.done + 1 \in DOMAIN m.ops
    BY <1>1, <1>5
  <2>2. o.from = m.ops[m.done].to + 1 /\ m.ops[m.done].to \in Nat
    <3>1. m.ops[m.done] \in OpT
      BY <1>1, <2>1
    <3>2. o.from = m.ops[m.done].to + 1
      BY <1>1, <2>1 DEF Chain
    <3> QED
      BY <3>1, <3>2, StreamAssumption DEF OpT
  <2>3. o.from - 1 = m.ops[m.done].to
    BY <2>2
  <2>4. Sent = m.ops[m.done].to
    BY <1>5 DEF Sent
  <2> QED
    BY <1>2, <1>3, <1>5, <2>3, <2>4
<1> QED
  BY <1>1, <1>4, <1>5

\* What an abandoned attempt leaves behind is in its turn.
LEMMA AbandonFits ==
  ASSUME IInv, NEW f \in Flows, ex[f].st = "busy", Abandon(f)
  PROVE  \A i \in DOMAIN late' : Fits(late'[i], got)
<1>1. Types /\ Upload /\ Phases
  BY DEF IInv, Types, Upload
<1> DEFINE m == msg[f]
           left == SubSeq(m.ops, m.done + 1, Len(m.ops))
<1>2. m.ops \in Seq(OpT) /\ m.done \in Nat
      /\ (f = "tx" => Chain(m.ops))
      /\ (f = "rx" => m.ops = <<RXOp>>) /\ (f = "close" => m.ops = <<CloseOp>>)
  BY <1>1, OpsOf
<1>3. late \in Seq(Seq(OpT)) /\ \A i \in DOMAIN late : Fits(late[i], got)
  BY <1>1 DEF Types, NetTypes, Upload, InOrder
<1>4. CASE late' = late
  BY <1>3, <1>4
<1>5. CASE m.done + 1 \in 1 .. Len(m.ops) /\ late' = Append(late, left)
  <2>1. left \in Seq(OpT)
    <3>1. m.done + 1 \in Nat /\ Len(m.ops) \in Nat
      BY <1>2
    <3> QED
      BY <1>2, <3>1, SubSeqProperties
  <2>2. Fits(left, got)
    <3>1. CASE f = "tx"
      <4>1. Chain(left) /\ left[1] = m.ops[m.done + 1]
        BY <1>2, <1>5, <3>1, ChainParts
      <4>2. Has(got, m.ops[m.done + 1].from - 1)
        BY <1>1, <1>5, <3>1, NextInTurn
      <4> HIDE DEF left
      <4> QED
        BY <4>1, <4>2 DEF Fits, Chain
    <3>2. CASE f \in {"rx", "close"}
      <4>1. PICK op \in {RXOp, CloseOp} : m.ops = <<op>>
        BY <1>2, <3>2
      <4>2. m.done + 1 = 1 /\ Len(m.ops) = 1
        BY <1>2, <1>5, <4>1
      <4>3. left = <<op>>
        <5>1. left = SubSeq(<<op>>, 1, 1)
          BY <4>1, <4>2
        <5>2. SubSeq(<<op>>, 1, 1) = <<op>>
          <6>1. <<op>> \in Seq(OpT) /\ Len(<<op>>) = 1
            BY OpTypes
          <6>2. /\ SubSeq(<<op>>, 1, 1) \in Seq(OpT) /\ Len(SubSeq(<<op>>, 1, 1)) = 1
                /\ SubSeq(<<op>>, 1, 1)[1] = <<op>>[1 + 1 - 1]
            BY <6>1, SubSeqProperties
          <6> DEFINE s == SubSeq(<<op>>, 1, 1)
          <6>3. s \in Seq(OpT) /\ Len(s) = 1 /\ s[1] = op
            BY <6>2
          <6> HIDE DEF s
          <6>4. s = <<op>>
            BY <6>3
          <6> QED
            BY <6>4 DEF s
        <5> QED
          BY <5>1, <5>2
      <4> HIDE DEF left
      <4> QED
        BY <4>3 DEF Fits
    <3> QED
      BY <3>1, <3>2 DEF Flows
  <2> HIDE DEF left
  <2> SUFFICES ASSUME NEW i \in DOMAIN late' PROVE Fits(late'[i], got)
    OBVIOUS
  <2>3. (i \in DOMAIN late /\ late'[i] = late[i]) \/ late'[i] = left
    BY <1>3, <1>5, <2>1
  <2> QED
    BY <1>3, <2>2, <2>3
<1> QED
  BY <1>1, <1>4, <1>5, AbandonIs

LEMMA CancelledKeeps ==
  ASSUME IInv, NEW f \in Flows, Cancelled(f) PROVE IInv'
<1>1. Types /\ Upload /\ Download /\ Phases
  BY DEF IInv, Types, Upload, Download
<1>2. /\ Types' /\ Phases' /\ Others(f) /\ Abandon(f)
      /\ ex[f].st = "busy"
      /\ ex'[f].st = "err" /\ ex'[f].ops = ex[f].ops /\ ex'[f].data = ex[f].data
      /\ msg'[f].done = 0 /\ msg'[f].data = <<>>
  BY <1>1, CancelledIs
<1>3. UNCHANGED <<rd, cut, localEnd, tx, rx, cause, cancelled, rxFailed, delivered,
                  sess, got, out>>
  BY DEF Cancelled, bridge, exit
<1>4. (\A i \in DOMAIN late' : Fits(late'[i], got))
      /\ ghost' = (IF msg[f].done > 0 THEN ghost \cup {f} ELSE ghost)
  BY <1>1, <1>2, AbandonFits, AbandonIs
<1>5. Upload'
  <2>1. CASE f = "tx"
    BY <1>1, <1>2, <1>3, <1>4, <2>1, UploadKept
  <2>2. CASE f # "tx"
    BY <1>1, <1>2, <1>3, <1>4, <2>2, UploadApart
  <2> QED
    BY <2>1, <2>2
<1>6. Download'
  <2>1. CASE f = "rx"
    <3>1. /\ ex["rx"].data = <<>> /\ msg["rx"].done \in {0, 1}
          /\ msg["rx"].done = 0 => msg["rx"].data = <<>>
      BY <1>1, <1>2, <2>1, OneOp DEF Download, Ascends
    <3>2. out <= out'
      BY <1>1, <1>3, StreamAssumption DEF Types, ExitTypes
    <3>3. "rx" \notin ghost' => msg["rx"].done = 0 /\ "rx" \notin ghost
      BY <3>1, <1>4, <2>1
    <3> QED
      BY <1>1, <1>2, <1>3, <2>1, <3>1, <3>2, <3>3, DownloadKept
  <2>2. CASE f # "rx"
    BY <1>1, <1>2, <1>3, <1>4, <2>2, DownloadApart
  <2> QED
    BY <2>1, <2>2
<1> QED
  BY <1>2, <1>5, <1>6 DEF IInv, Types, Upload, Download

LEMMA FaultKeeps ==
  ASSUME IInv, NEW f \in Flows, Fault(f) PROVE IInv'
<1>1. Types /\ Upload /\ Download /\ Phases
  BY DEF IInv, Types, Upload, Download
<1>2. /\ Types' /\ Phases' /\ Others(f) /\ Abandon(f)
      /\ ex[f].st = "busy"
      /\ ex'[f].ops = ex[f].ops /\ ex'[f].data = ex[f].data
      /\ msg'[f].done = 0 /\ msg'[f].data = <<>>
      /\ \/ ex'[f].st = "busy" /\ msg'[f].ops = msg[f].ops
         \/ ex'[f].st = "err"
  BY <1>1, FaultIs
<1>3. UNCHANGED <<rd, cut, localEnd, tx, rx, cause, cancelled, rxFailed, delivered,
                  sess, got, out>>
  BY DEF Fault, bridge, exit
<1>4. (\A i \in DOMAIN late' : Fits(late'[i], got))
      /\ ghost' = (IF msg[f].done > 0 THEN ghost \cup {f} ELSE ghost)
  BY <1>1, <1>2, AbandonFits, AbandonIs
<1>5. Upload'
  <2>1. CASE f = "tx"
    <3>1. msg["tx"].done \in Nat
      BY <1>1, <1>2, <2>1, OpsOf
    <3>2. msg["tx"].done = 0 \/ "tx" \in ghost'
      BY <3>1, <1>4, <2>1
    <3> QED
      BY <1>1, <1>2, <1>3, <1>4, <2>1, <3>2, UploadKept
  <2>2. CASE f # "tx"
    BY <1>1, <1>2, <1>3, <1>4, <2>2, UploadApart
  <2> QED
    BY <2>1, <2>2
<1>6. Download'
  <2>1. CASE f = "rx"
    <3>1. /\ ex["rx"].data = <<>> /\ msg["rx"].done \in {0, 1}
          /\ msg["rx"].done = 0 => msg["rx"].data = <<>>
      BY <1>1, <1>2, <2>1, OneOp DEF Download, Ascends
    <3>2. out <= out'
      BY <1>1, <1>3, StreamAssumption DEF Types, ExitTypes
    <3>3. "rx" \notin ghost' => msg["rx"].done = 0 /\ "rx" \notin ghost
      BY <3>1, <1>4, <2>1
    <3> QED
      BY <1>1, <1>2, <1>3, <2>1, <3>1, <3>2, <3>3, DownloadKept
  <2>2. CASE f # "rx"
    BY <1>1, <1>2, <1>3, <1>4, <2>2, DownloadApart
  <2> QED
    BY <2>1, <2>2
<1> QED
  BY <1>2, <1>5, <1>6 DEF IInv, Types, Upload, Download

LEMMA AcceptKeeps ==
  ASSUME IInv, NEW f \in Flows, Accept(f) PROVE IInv'
<1>1. Types /\ Upload /\ Download /\ Phases
  BY DEF IInv, Types, Upload, Download
<1> DEFINE goesOn == /\ ex'[f].st = "busy" /\ ex[f].at + 1 \in DOMAIN ex[f].ops
                     /\ ex[f].mode = "seq" /\ msg'[f].ops = <<ex[f].ops[ex[f].at + 1]>>
           over == /\ ex'[f].st = "ok"
                   /\ ex[f].mode = "batch" \/ ex[f].at = Len(ex[f].ops)
<1>2. /\ Types' /\ Phases' /\ Others(f)
      /\ ex[f].st = "busy" /\ msg[f].done = Len(msg[f].ops)
      /\ ex'[f].ops = ex[f].ops /\ ex'[f].data = ex[f].data \o msg[f].data
      /\ msg'[f].done = 0 /\ msg'[f].data = <<>>
      /\ goesOn \/ over
  BY <1>1, AcceptIs
<1>3. UNCHANGED <<rd, cut, localEnd, tx, rx, cause, cancelled, rxFailed, delivered,
                  sess, got, out, late, faults, ghost>>
  BY DEF Accept, bridge, exit
<1>4. \A i \in DOMAIN late' : Fits(late'[i], got)
  BY <1>1, <1>3 DEF Upload, InOrder
<1>5. Upload'
  <2>1. CASE f = "tx"
    <3> DEFINE x == ex["tx"]
               m == msg["tx"]
    <3>1. /\ x.ops \in Seq(OpT) /\ m.ops \in Seq(OpT) /\ m.ops # <<>> /\ x.at \in 1 .. Len(x.ops)
          /\ m.ops = Request(x) /\ Chain(x.ops) /\ x.ops[Len(x.ops)].to = cut
      BY <1>1, <1>2, <2>1, OpsOf DEF Phases
    <3>2. m.done > 0 /\ Len(m.ops) > 0
      BY <1>2, <2>1, <3>1
    <3>3. Has(got, m.ops[Len(m.ops)].to) /\ Sent = m.ops[Len(m.ops)].to
      BY <1>1, <1>2, <2>1, <3>2 DEF Upload, InOrder, Sent
    <3>4. Has(got, x.ops[1].from - 1)
      BY <1>1, <1>2, <2>1 DEF Upload, InOrder
    <3>5. tx = "exchange" /\ cause # "done"
      BY <1>1, <1>2, <2>1 DEF Phases
    <3>6. CASE goesOn
      <4>1. Len(m.ops) = 1 /\ m.ops[1] = x.ops[x.at]
        BY <2>1, <3>1, <3>6 DEF Request
      <4>2. msg'["tx"].ops[1] = x.ops[x.at + 1]
        BY <2>1, <3>6
      <4>3. x.ops[x.at + 1].from = x.ops[x.at].to + 1 /\ x.ops[x.at].to \in Nat
        <5>1. x.at \in DOMAIN x.ops /\ x.at + 1 \in DOMAIN x.ops /\ x.ops[x.at] \in OpT
          BY <2>1, <3>1, <3>6
        <5>2. x.ops[x.at + 1].from = x.ops[x.at].to + 1
          BY <3>1, <5>1 DEF Chain
        <5> QED
          BY <5>1, <5>2, StreamAssumption DEF OpT
      <4>4. msg'["tx"].ops[1].from - 1 = m.ops[Len(m.ops)].to
        BY <4>1, <4>2, <4>3
      <4>5. InOrder'
        BY <1>2, <1>3, <1>4, <2>1, <3>3, <3>4, <3>5, <3>6, <4>4 DEF InOrder
      <4>6. Sent' = Sent
        BY <1>2, <2>1, <3>3, <3>6, <4>4 DEF Sent
      <4>7. Exact'
        BY <1>1, <1>2, <1>3, <2>1, <4>6 DEF Upload, Exact
      <4> QED
        BY <1>1, <1>3, <4>5, <4>7 DEF Upload
    <3>7. CASE over
      <4>1. m.ops[Len(m.ops)] = x.ops[Len(x.ops)]
        <5>1. CASE x.mode = "batch"
          BY <5>1, <3>1 DEF Request
        <5>2. CASE x.mode # "batch"
          BY <5>2, <2>1, <3>1, <3>7 DEF Request
        <5> QED
          BY <5>1, <5>2
      <4>2. Has(got, cut) /\ Sent = cut
        BY <3>1, <3>3, <4>1
      <4>3. InOrder'
        BY <1>2, <1>3, <1>4, <2>1, <3>4, <3>5, <3>7, <4>2 DEF InOrder
      <4>4. Sent' = cut
        BY <1>3, <2>1, <3>7 DEF Sent
      <4>5. Exact'
        BY <1>1, <1>2, <1>3, <2>1, <4>2, <4>4 DEF Upload, Exact
      <4> QED
        BY <1>1, <1>3, <4>3, <4>5 DEF Upload
    <3> QED
      BY <1>2, <3>6, <3>7
  <2>2. CASE f # "tx"
    BY <1>1, <1>2, <1>3, <1>4, <2>2, UploadApart
  <2> QED
    BY <2>1, <2>2
<1>6. Download'
  <2>1. CASE f = "rx"
    <3>1. ex["rx"].data = <<>> /\ ex["rx"].at = 1 /\ ex["rx"].ops = <<RXOp>>
      BY <1>1, <1>2, <2>1, OneOp
    <3>2. ex'["rx"].st = "ok"
      <4>1. ~(ex["rx"].at + 1 \in DOMAIN ex["rx"].ops)
        BY <3>1
      <4> QED
        BY <1>2, <2>1, <4>1
    <3>3. msg["rx"].data \in Seq(1 .. NOut)
      BY <1>1 DEF Types, NetTypes, MsgT, Flows
    <3>4. ex'["rx"].data = msg["rx"].data /\ msg'["rx"].data = <<>>
      <4>1. ex'["rx"].data = <<>> \o msg["rx"].data
        BY <1>2, <2>1, <3>1
      <4> QED
        BY <1>2, <2>1, <3>3, <4>1
    <3>5. Fresh(<<>>, delivered, out) /\ Follows(<<>>, delivered)
      BY DEF Fresh, Follows
    <3>6. Ascends'
      BY <1>1, <1>2, <1>3, <2>1, <3>2, <3>4, <3>5 DEF Download, Ascends
    <3>7. Unbroken'
      <4>1. Len(<<>>) = 0 /\ Len(delivered) \in Nat /\ Len(msg["rx"].data) \in Nat
        BY <1>1, <3>3 DEF Types, BridgeTypes
      <4> QED
        BY <1>1, <1>2, <1>3, <2>1, <3>1, <3>2, <3>4, <3>5, <4>1 DEF Download, Unbroken
    <3> QED
      BY <3>6, <3>7 DEF Download
  <2>2. CASE f # "rx"
    BY <1>1, <1>2, <1>3, <2>2, DownloadApart
  <2> QED
    BY <2>1, <2>2
<1> QED
  BY <1>2, <1>5, <1>6 DEF IInv, Types, Upload, Download

-----------------------------------------------------------------------------
(* What the exit does.                                                     *)

ExitStep(o) == Write(o) \/ Close(o) \/ Fails(o) \/ \E n \in 0 .. NOut - out : Read(o, n)

InTurn(o, g) == o.op = "tx" => 1 <= o.from /\ o.from <= o.to /\ Has(g, o.from - 1)

LEMMA ExitStepIs ==
  ASSUME Types, NoHole(got), NEW o \in OpT, InTurn(o, got), ExitStep(o)
  PROVE  /\ NoHole(got')
         /\ \A k \in Nat : Has(got, k) => Has(got', k)
         /\ o.op # "tx" => got' = got
         /\ o.op # "rx" => out' = out
         /\ out <= out'
         /\ o.op = "tx" /\ Straight(got) /\ Len(got) = o.from - 1 => Straight(got')
         /\ sess' = "open" => sess = "open"
         /\ Write(o) => /\ o.op = "tx" /\ sess = "open" /\ Has(got', o.to)
                        /\ Straight(got) /\ Len(got) = o.from - 1 => Len(got') = o.to
         /\ Close(o) => o.op = "close" /\ sess' = "gone"
         /\ Fails(o) => sess' = "gone" /\ (got' = got \/ (sess = "open" /\ o.op = "tx"))
         /\ \A n \in 0 .. NOut - out : Read(o, n) => o.op = "rx" /\ out' = out + n
<1>1. /\ got \in Seq(1 .. NIn) /\ out \in Nat /\ NOut \in Nat /\ NIn \in Nat
      /\ o.from \in Nat /\ o.to \in Nat /\ o.to <= NIn
  BY StreamAssumption DEF Types, ExitTypes, OpT
<1> DEFINE wrote(n) == got \o Segment(o.from, n)
<1>2. ASSUME o.op = "tx", NEW n \in 0 .. o.to - o.from + 1
      PROVE  /\ NoHole(wrote(n)) /\ Has(wrote(n), o.from + n - 1)
             /\ \A k \in Nat : Has(got, k) => Has(wrote(n), k)
             /\ Straight(got) /\ Len(got) = o.from - 1
                => Straight(wrote(n)) /\ Len(wrote(n)) = o.from + n - 1
  <2>1. n \in Nat /\ o.from >= 1 /\ o.from + n - 1 <= NIn /\ Has(got, o.from - 1)
    BY <1>1, <1>2 DEF InTurn
  <2>2. LET h == got \o Segment(o.from, n) IN
        /\ NoHole(h) /\ Has(h, o.from + n - 1)
        /\ \A k \in Nat : Has(got, k) => Has(h, k)
        /\ Straight(got) /\ Len(got) = o.from - 1
           => Straight(h) /\ Len(h) = o.from + n - 1
    <3> DEFINE a == o.from
    <3>1. got \in Seq(1 .. NIn) /\ a \in Nat /\ n \in Nat /\ a >= 1 /\ a + n - 1 <= NIn
          /\ Has(got, a - 1) /\ NoHole(got)
      BY <1>1, <2>1
    <3> HIDE DEF a
    <3>2. LET h == got \o Segment(a, n) IN
          /\ NoHole(h) /\ Has(h, a + n - 1)
          /\ \A k \in Nat : Has(got, k) => Has(h, k)
          /\ Straight(got) /\ Len(got) = a - 1 => Straight(h) /\ Len(h) = a + n - 1
      BY <3>1, Extends
    <3> QED
      BY <3>2 DEF a
  <2> QED
    BY <2>2
<1> HIDE DEF wrote
<1>3. CASE Write(o)
  <2>1. /\ o.op = "tx" /\ sess = "open" /\ UNCHANGED <<sess, out>>
        /\ got' = wrote(o.to - o.from + 1)
    BY <1>3 DEF Write, wrote
  <2>2. /\ o.to - o.from + 1 \in 0 .. o.to - o.from + 1
        /\ o.from + (o.to - o.from + 1) - 1 = o.to
    BY <1>1, <2>1 DEF InTurn
  <2>3. ~Close(o) /\ ~Fails(o) /\ \A n \in 0 .. NOut - out : ~Read(o, n)
    BY <2>1 DEF Close, Fails, Read
  <2> QED
    BY <1>1, <1>2, <2>1, <2>2, <2>3
<1>4. CASE Close(o)
  <2>1. o.op = "close" /\ sess' = "gone" /\ UNCHANGED <<got, out>>
    BY <1>4 DEF Close
  <2>2. ~Write(o) /\ \A n \in 0 .. NOut - out : ~Read(o, n)
    BY <2>1 DEF Write, Read
  <2> QED
    BY <1>1, <2>1, <2>2
<1>5. CASE Fails(o)
  <2>1. sess' = "gone" /\ UNCHANGED out
    BY <1>5 DEF Fails
  <2>2. ~Write(o) /\ \A n \in 0 .. NOut - out : ~Read(o, n)
    BY <2>1 DEF Write, Read
  <2>3. Close(o) => o.op = "close"
    BY DEF Close
  <2>4. CASE got' = got
    BY <1>1, <2>1, <2>2, <2>3, <2>4
  <2>5. CASE sess = "open" /\ o.op = "tx" /\ \E n \in 0 .. o.to - o.from : got' = wrote(n)
    <3>1. PICK n \in 0 .. o.to - o.from : got' = wrote(n)
      BY <2>5
    <3>2. n \in 0 .. o.to - o.from + 1
      BY <1>1
    <3> QED
      BY <1>1, <1>2, <2>1, <2>2, <2>3, <2>5, <3>1, <3>2
  <2> QED
    BY <1>5, <2>4, <2>5 DEF Fails, wrote
<1>6. CASE \E n \in 0 .. NOut - out : Read(o, n)
  <2>1. PICK n \in 0 .. NOut - out : Read(o, n)
    BY <1>6
  <2>2. o.op = "rx" /\ sess = "open" /\ UNCHANGED <<sess, got>> /\ out' = out + n
    BY <2>1 DEF Read
  <2>3. ~Write(o) /\ ~Close(o) /\ ~Fails(o)
    BY <2>2 DEF Write, Close, Fails
  <2>4. \A j \in 0 .. NOut - out : Read(o, j) => out' = out + j
    BY DEF Read
  <2> QED
    BY <1>1, <2>2, <2>3, <2>4
<1> QED
  BY <1>3, <1>4, <1>5, <1>6 DEF ExitStep

LEMMA ChainStarts ==
  ASSUME NEW s \in Seq(OpT), Chain(s)
  PROVE  s[1] \in OpT /\ s[1].op = "tx" /\ 1 <= s[1].from /\ s[1].from <= s[1].to
         /\ s[1].from - 1 \in Nat /\ s[1].to \in Nat
<1>1. 1 \in DOMAIN s /\ s[1] \in OpT
  BY DEF Chain
<1>2. s[1].op = "tx" /\ 1 <= s[1].from /\ s[1].from <= s[1].to
  BY <1>1 DEF Chain
<1>3. s[1].from \in Nat /\ s[1].to \in Nat
  BY <1>1, StreamAssumption DEF OpT
<1> QED
  BY <1>1, <1>2, <1>3

LEMMA FitsMore ==
  ASSUME NEW s \in Seq(OpT), NEW g, NEW h, Fits(s, g), \A k \in Nat : Has(g, k) => Has(h, k)
  PROVE  Fits(s, h)
<1>1. CASE s = <<RXOp>> \/ s = <<CloseOp>>
  BY <1>1 DEF Fits
<1>2. CASE Chain(s) /\ Has(g, s[1].from - 1)
  <2>1. s[1].from - 1 \in Nat
    BY <1>2, ChainStarts
  <2> QED
    BY <1>2, <2>1 DEF Fits
<1> QED
  BY <1>1, <1>2 DEF Fits

LEMMA ExecuteKeeps ==
  ASSUME IInv, NEW f \in Flows, Execute(f) PROVE IInv'
<1>1. Types /\ Upload /\ Download /\ Phases
  BY DEF IInv, Types, Upload, Download
<1> DEFINE m == msg[f]
           o == m.ops[m.done + 1]
<1>2. /\ Types' /\ Phases' /\ Others(f)
      /\ ex[f].st = "busy" /\ m.st = "fly" /\ ex' = ex /\ o \in OpT
      /\ m.done + 1 \in 1 .. Len(m.ops) /\ msg'[f].ops = m.ops
      /\ \/ /\ Write(o) \/ Close(o)
            /\ msg'[f].done = m.done + 1 /\ msg'[f].data = m.data
         \/ \E n \in 0 .. NOut - out :
              /\ Read(o, n)
              /\ msg'[f].done = m.done + 1
              /\ msg'[f].data = m.data \o Segment(out + 1, n)
         \/ /\ Fails(o)
            /\ msg'[f].done = m.done /\ msg'[f].data = m.data
  BY <1>1, ExecuteIs
<1>3. UNCHANGED <<rd, cut, localEnd, tx, rx, cause, cancelled, rxFailed, delivered,
                  late, url, faults, ghost>>
  BY DEF Execute, bridge
<1>4. /\ f = "tx" => o.op = "tx" /\ 1 <= o.from /\ o.from <= o.to /\ Has(got, o.from - 1)
                     /\ Sent = o.from - 1 /\ m.done \in Nat
      /\ f = "rx" => o.op = "rx"
      /\ f = "close" => o.op = "close"
  <2>1. f = "tx" => o.op = "tx" /\ 1 <= o.from /\ o.from <= o.to /\ Has(got, o.from - 1)
                    /\ Sent = o.from - 1
    BY <1>1, <1>2, NextInTurn
  <2>2. m.done \in 0 .. Len(m.ops) /\ Len(m.ops) \in Nat
    BY <1>1, <1>2, OpsOf
  <2>3. f \in {"rx", "close"} => Len(m.ops) = 1 /\ m.done + 1 = 1
    <3>0. f \in {"rx", "close"} => m.ops = <<RXOp>> \/ m.ops = <<CloseOp>>
      BY <1>1, <1>2, OpsOf
    <3>1. f \in {"rx", "close"} => Len(m.ops) = 1
      BY <3>0
    <3> QED
      BY <1>2, <2>2, <3>1
  <2>4. (f = "rx" => o = RXOp) /\ (f = "close" => o = CloseOp)
    BY <1>1, <1>2, <2>3, OpsOf
  <2> QED
    BY <2>1, <2>2, <2>4 DEF RXOp, CloseOp
<1>5. InTurn(o, got) /\ ExitStep(o) /\ NoHole(got)
  BY <1>1, <1>2, <1>4 DEF InTurn, ExitStep, Upload, Flows
<1> HIDE DEF o
<1>6. /\ NoHole(got')
      /\ \A k \in Nat : Has(got, k) => Has(got', k)
      /\ o.op # "tx" => got' = got
      /\ o.op # "rx" => out' = out
      /\ out <= out'
      /\ sess' = "open" => sess = "open"
      /\ o.op = "tx" /\ Straight(got) /\ Len(got) = o.from - 1 => Straight(got')
  BY <1>1, <1>2, <1>5, ExitStepIs
<1>7. \A i \in DOMAIN late' : Fits(late'[i], got')
  <2> SUFFICES ASSUME NEW i \in DOMAIN late PROVE Fits(late[i], got')
    BY <1>3
  <2>1. late[i] \in Seq(OpT) /\ Fits(late[i], got)
    BY <1>1 DEF Types, NetTypes, Upload, InOrder
  <2> QED
    BY <1>6, <2>1, FitsMore
<1>8. Upload'
  <2>1. CASE f = "tx"
    <3>1. /\ Chain(ex["tx"].ops) /\ Chain(m.ops) /\ ex["tx"].ops \in Seq(OpT)
          /\ m.ops \in Seq(OpT) /\ tx = "exchange" /\ cause = "none"
      BY <1>1, <1>2, <2>1, OpsOf DEF Phases
    <3>2. \A s \in Seq(OpT) : Chain(s) /\ Has(got, s[1].from - 1) => Has(got', s[1].from - 1)
      <4> SUFFICES ASSUME NEW s \in Seq(OpT), Chain(s), Has(got, s[1].from - 1)
                   PROVE  Has(got', s[1].from - 1)
        OBVIOUS
      <4>3. s[1].from - 1 \in Nat
        BY ChainStarts
      <4> QED
        BY <4>3, <1>6
    <3>3. Has(got', ex["tx"].ops[1].from - 1) /\ Has(got', m.ops[1].from - 1)
      BY <1>1, <1>2, <2>1, <3>1, <3>2 DEF Upload, InOrder
    <3>4. "tx" \notin ghost => Straight(got) /\ (sess = "open" => Len(got) = o.from - 1)
      BY <1>1, <1>2, <1>4, <2>1 DEF Upload, Exact
    <3>5. CASE /\ Write(o)
               /\ msg'["tx"].done = m.done + 1
      <4>1. Has(got', o.to) /\ sess = "open"
            /\ (Straight(got) /\ Len(got) = o.from - 1 => Len(got') = o.to)
        BY <1>1, <1>2, <1>5, <3>5, ExitStepIs
      <4>2. msg'["tx"].ops[msg'["tx"].done] = o /\ msg'["tx"].ops[1] = m.ops[1]
        BY <1>2, <2>1, <3>5 DEF o
      <4>3. InOrder'
        BY <1>2, <1>3, <1>7, <2>1, <3>1, <3>3, <4>1, <4>2 DEF InOrder
      <4>4. Sent' = o.to
        <5>1. msg'["tx"].done # 0
          BY <1>4, <2>1, <3>5
        <5> QED
          BY <1>2, <2>1, <4>2, <5>1 DEF Sent
      <4>5. Exact'
        BY <1>3, <1>4, <1>6, <2>1, <3>4, <4>1, <4>4 DEF Exact
      <4> QED
        BY <1>6, <4>3, <4>5 DEF Upload
    <3>6. CASE /\ Fails(o)
               /\ msg'["tx"].done = m.done
      <4>1. sess' = "gone" /\ (got' = got \/ (sess = "open" /\ o.op = "tx"))
        BY <1>1, <1>2, <1>5, <3>6, ExitStepIs
      <4>2. m.done > 0 => Has(got', m.ops[m.done].to)
        <5> SUFFICES ASSUME m.done > 0 PROVE Has(got', m.ops[m.done].to)
          OBVIOUS
        <5>1. m.done \in DOMAIN m.ops
          BY <1>2, <1>4, <2>1, <3>1
        <5>2. m.ops[m.done].to \in Nat
          <6>1. m.ops[m.done] \in OpT
            BY <3>1, <5>1
          <6> QED
            BY <6>1, StreamAssumption DEF OpT
        <5>3. Has(got, m.ops[m.done].to)
          BY <1>1, <1>2, <2>1 DEF Upload, InOrder
        <5> QED
          BY <1>6, <5>2, <5>3
      <4>3. InOrder'
        BY <1>2, <1>3, <1>7, <2>1, <3>1, <3>3, <3>6, <4>2 DEF InOrder
      <4>4. Exact'
        BY <1>3, <1>4, <1>6, <2>1, <3>4, <4>1 DEF Exact
      <4> QED
        BY <1>6, <4>3, <4>4 DEF Upload
    <3>7. \/ Write(o) /\ msg'["tx"].done = m.done + 1
          \/ Fails(o) /\ msg'["tx"].done = m.done
      <4>1. ~Close(o) /\ \A n \in 0 .. NOut - out : ~Read(o, n)
        BY <1>4, <2>1 DEF Close, Read
      <4> QED
        BY <1>2, <2>1, <4>1 DEF o
    <3> QED
      BY <3>5, <3>6, <3>7
  <2>2. CASE f # "tx"
    <3>1. got' = got
      BY <1>4, <1>6, <2>2 DEF Flows
    <3> QED
      BY <1>1, <1>2, <1>3, <1>6, <1>7, <2>2, <3>1, UploadApart
  <2> QED
    BY <2>1, <2>2
<1>9. Download'
  <2>1. CASE f = "rx"
    <3>1. ex["rx"].data = <<>> /\ msg["rx"].done = 0 /\ msg["rx"].data = <<>> /\ o.op = "rx"
      BY <1>1, <1>2, <1>4, <2>1, OneOp
    <3>2. CASE \E n \in 0 .. NOut - out :
                 /\ Read(o, n)
                 /\ msg'["rx"].done = 1
                 /\ msg'["rx"].data = m.data \o Segment(out + 1, n)
      <4>1. PICK n \in 0 .. NOut - out :
                 /\ Read(o, n)
                 /\ msg'["rx"].done = 1
                 /\ msg'["rx"].data = m.data \o Segment(out + 1, n)
        BY <3>2
      <4>2. out' = out + n /\ n \in Nat /\ out \in Nat /\ NOut \in Nat /\ out + n <= NOut
        BY <1>1, <1>2, <1>5, <4>1, ExitStepIs, StreamAssumption DEF Types, ExitTypes
      <4> DEFINE s == Segment(out + 1, n)
      <4>3. /\ s \in Seq(1 .. NOut) /\ Len(s) = n /\ DOMAIN s = 1 .. n
            /\ \A j \in 1 .. n : s[j] = out + 1 + j - 1
        <5>1. out + 1 \in Nat /\ out + 1 >= 1 /\ out + 1 + n - 1 <= NOut
          BY <4>2
        <5> QED
          BY <4>2, <5>1, SegmentIs
      <4>4. msg'["rx"].data = s
        <5>1. msg'["rx"].data = <<>> \o s
          BY <2>1, <3>1, <4>1
        <5> HIDE DEF s
        <5> QED
          BY <4>3, <5>1
      <4> HIDE DEF s
      <4>5. \A i \in DOMAIN delivered : delivered[i] <= out /\ delivered[i] \in Nat
        <5>1. ASSUME NEW i \in DOMAIN delivered PROVE delivered[i] \in Nat
          <6>1. delivered \in Seq(1 .. NOut)
            BY <1>1 DEF Types, BridgeTypes
          <6>0. i \in 1 .. Len(delivered)
            BY <6>1
          <6>2. delivered[i] \in 1 .. NOut
            BY <6>0, <6>1, ElementOfSeq
          <6> QED
            BY <6>2
        <5> QED
          BY <1>1, <5>1 DEF Download, Ascends
      <4>6. Fresh(s, delivered, out')
        BY <4>2, <4>3, <4>5 DEF Fresh
      <4>7. Fresh(<<>>, delivered, out')
        BY DEF Fresh
      <4>8. Ascends'
        <5>1. \A i \in DOMAIN delivered : delivered[i] <= out'
          BY <4>2, <4>5
        <5>2. Fresh(ex'["rx"].data, delivered', out') /\ ex'["rx"].data = <<>>
          BY <1>2, <1>3, <3>1, <4>7
        <5>3. Fresh(msg'["rx"].data, delivered', out') /\ msg'["rx"].done = 1
          BY <1>3, <4>1, <4>4, <4>6
        <5>4. \A i, j \in DOMAIN delivered' : i < j => delivered'[i] < delivered'[j]
          BY <1>1, <1>3 DEF Download, Ascends
        <5> QED
          BY <1>3, <5>1, <5>2, <5>3, <5>4 DEF Ascends
      <4>9. Unbroken'
        <5> SUFFICES ASSUME "rx" \notin ghost', rx' # "ended" /\ ex'["rx"].st # "err"
                     PROVE  /\ Follows(<<>>, delivered) /\ Follows(s, delivered)
                            /\ out' = Len(delivered) + Len(<<>>) + Len(s)
          BY <1>1, <1>2, <1>3, <3>1, <4>4 DEF Download, Unbroken
        <5>1. out = Len(delivered) + Len(<<>>) + Len(<<>>) /\ Len(<<>>) = 0
          BY <1>1, <1>2, <1>3, <3>1 DEF Download, Unbroken
        <5>2. Len(delivered) \in Nat
          BY <1>1 DEF Types, BridgeTypes
        <5>3. out = Len(delivered) /\ out' = Len(delivered) + 0 + n
          BY <4>2, <5>1, <5>2
        <5>4. \A j \in 1 .. n : s[j] = Len(delivered) + j
          <6> SUFFICES ASSUME NEW j \in 1 .. n PROVE s[j] = Len(delivered) + j
            OBVIOUS
          <6>1. s[j] = out + 1 + j - 1
            BY <4>3
          <6>2. out + 1 + j - 1 = Len(delivered) + j
            BY <4>2, <5>2, <5>3
          <6> QED
            BY <6>1, <6>2
        <5>5. Follows(s, delivered) /\ Follows(<<>>, delivered)
          BY <4>3, <5>4 DEF Follows
        <5> QED
          BY <4>3, <5>1, <5>3, <5>5
      <4> QED
        BY <4>8, <4>9 DEF Download
    <3>3. CASE Fails(o) /\ msg'["rx"].done = 0 /\ msg'["rx"].data = <<>>
      <4>1. out' = out
        BY <3>3 DEF Fails
      <4> QED
        BY <1>1, <1>2, <1>3, <1>6, <3>1, <3>3, <4>1, DownloadKept
    <3>4. ~Write(o) /\ ~Close(o)
      BY <3>1 DEF Write, Close
    <3>5. m.done + 1 = 1
      BY <2>1, <3>1
    <3> QED
      BY <1>2, <2>1, <3>1, <3>2, <3>3, <3>4, <3>5 DEF o
  <2>2. CASE f # "rx"
    <3>1. out' = out
      BY <1>4, <1>6, <2>2 DEF Flows
    <3> QED
      BY <1>1, <1>2, <1>3, <2>2, <3>1, DownloadApart
  <2> QED
    BY <2>1, <2>2
<1> QED
  BY <1>2, <1>8, <1>9 DEF IInv, Types, Upload, Download

\* The requests that are left when one has been executed.
LEMMA Without ==
  ASSUME NEW S, NEW s \in Seq(S), NEW i \in DOMAIN s
  PROVE  LET r == SubSeq(s, 1, i - 1) \o SubSeq(s, i + 1, Len(s)) IN
         r \in Seq(S) /\ \A k \in DOMAIN r : \E j \in DOMAIN s : r[k] = s[j]
<1> DEFINE a == SubSeq(s, 1, i - 1)
           b == SubSeq(s, i + 1, Len(s))
           r == a \o b
<1>1. i \in 1 .. Len(s) /\ Len(s) \in Nat /\ i - 1 \in Nat
  OBVIOUS
<1>2. a \in Seq(S) /\ Len(a) = i - 1 /\ \A k \in 1 .. i - 1 : a[k] = s[k]
  BY <1>1
<1>3. b \in Seq(S) /\ Len(b) = Len(s) - i /\ \A k \in 1 .. Len(s) - i : b[k] = s[i + k]
  <2>1. b \in Seq(S) /\ Len(b) = Len(s) - i
    BY <1>1
  <2>2. ASSUME NEW k \in 1 .. Len(s) - i PROVE b[k] = s[i + k]
    <3>1. b[k] = s[(i + 1) + k - 1]
      <4> DEFINE m == i + 1
                 n == Len(s)
      <4>1. m \in Int /\ n \in Int /\ k \in 1 .. n - m + 1 /\ \A j \in m .. n : s[j] \in S
        BY <1>1
      <4> HIDE DEF m, n
      <4>2. SubSeq(s, m, n)[k] = s[m + k - 1]
        BY <4>1, SubSeqProperties
      <4> QED
        BY <4>2 DEF m, n
    <3>2. (i + 1) + k - 1 = i + k
      BY <1>1
    <3> QED
      BY <3>1, <3>2
  <2> QED
    BY <2>1, <2>2
<1> HIDE DEF a, b
<1>4. r \in Seq(S) /\ Len(r) = i - 1 + (Len(s) - i)
  BY <1>2, <1>3, ConcatProperties
<1>5. ASSUME NEW k \in DOMAIN r PROVE \E j \in DOMAIN s : r[k] = s[j]
  <2>0. k \in 1 .. Len(s) - 1
    BY <1>1, <1>4
  <2>1. CASE k <= i - 1
    <3>1. r[k] = a[k] /\ k \in DOMAIN s
      BY <2>0, <2>1, <1>1, <1>2, <1>3
    <3> QED
      BY <3>1, <2>0, <2>1, <1>1, <1>2
  <2>2. CASE k > i - 1
    <3> DEFINE j == k - (i - 1)
    <3>1. j \in 1 .. Len(s) - i /\ i + j \in DOMAIN s
      BY <2>0, <2>2, <1>1
    <3>2. r[k] = b[j]
      BY <2>0, <2>2, <1>1, <1>2, <1>3
    <3> QED
      BY <3>1, <3>2, <1>3
  <2> QED
    BY <2>0, <2>1, <2>2, <1>1
<1> QED
  BY <1>4, <1>5 DEF a, b

\* What is left of a chain after its first op.
LEMMA TailIs ==
  ASSUME NEW s \in Seq(OpT), Chain(s), Len(s) # 1
  PROVE  Tail(s) \in Seq(OpT) /\ Chain(Tail(s)) /\ Tail(s)[1].from - 1 = s[1].to
<1> DEFINE t == Tail(s)
<1>1. s # <<>> /\ Len(s) \in Nat /\ Len(s) > 1 /\ DOMAIN s = 1 .. Len(s)
  <2>1. s # <<>>
    BY DEF Chain
  <2>2. Len(s) \in Nat /\ Len(s) # 0 /\ DOMAIN s = 1 .. Len(s)
    BY <2>1
  <2> QED
    BY <2>1, <2>2
<1>2. t \in Seq(OpT) /\ Len(t) = Len(s) - 1 /\ \A k \in 1 .. Len(s) - 1 : t[k] = s[k + 1]
  BY <1>1
<1> HIDE DEF t
<1>3. t # <<>> /\ DOMAIN t = 1 .. Len(s) - 1
  BY <1>1, <1>2
<1>4. \A k \in DOMAIN t : t[k].op = "tx" /\ 1 <= t[k].from /\ t[k].from <= t[k].to
  <2> SUFFICES ASSUME NEW k \in DOMAIN t
               PROVE  t[k].op = "tx" /\ 1 <= t[k].from /\ t[k].from <= t[k].to
    OBVIOUS
  <2>1. t[k] = s[k + 1] /\ k + 1 \in DOMAIN s
    BY <1>1, <1>2, <1>3
  <2> QED
    BY <2>1 DEF Chain
<1>5. \A k \in DOMAIN t : k + 1 \in DOMAIN t => t[k + 1].from = t[k].to + 1
  <2> SUFFICES ASSUME NEW k \in DOMAIN t, k + 1 \in DOMAIN t
               PROVE  t[k + 1].from = t[k].to + 1
    OBVIOUS
  <2> DEFINE j == k + 1
  <2>1. t[k] = s[j] /\ t[k + 1] = s[j + 1] /\ j \in DOMAIN s /\ j + 1 \in DOMAIN s
    BY <1>1, <1>2, <1>3
  <2> HIDE DEF j
  <2> QED
    BY <2>1 DEF Chain
<1>6. t[1].from - 1 = s[1].to
  <2>1. t[1] = s[1 + 1] /\ 1 \in DOMAIN s /\ 1 + 1 \in DOMAIN s
    BY <1>1, <1>2
  <2>2. s[1 + 1].from = s[1].to + 1
    BY <2>1 DEF Chain
  <2>3. s[1].to \in Nat
    BY ChainStarts
  <2> QED
    BY <2>1, <2>2, <2>3
<1> QED
  BY <1>2, <1>3, <1>4, <1>5, <1>6 DEF Chain, t

LEMMA ExecuteLateKeeps == ASSUME IInv, ExecuteLate PROVE IInv'
<1>1. Types /\ Upload /\ Download /\ Phases
  BY DEF IInv, Types, Upload, Download
<1>2. PICK i \in DOMAIN late :
        LET o == Head(late[i])
            rem == SubSeq(late, 1, i - 1) \o SubSeq(late, i + 1, Len(late))
        IN  /\ \/ /\ \/ Write(o) \/ Close(o)
                     \/ \E n \in 0 .. NOut - out : Read(o, n)
                  /\ late' = IF Len(late[i]) = 1 THEN rem ELSE [late EXCEPT ![i] = Tail(@)]
               \/ Fails(o) /\ late' = rem
            /\ ghost' = ghost \cup {o.op}
            /\ UNCHANGED <<bridge, ex, msg, url, faults>>
  BY DEF ExecuteLate
<1> DEFINE s == late[i]
           o == Head(s)
           rem == SubSeq(late, 1, i - 1) \o SubSeq(late, i + 1, Len(late))
<1>3. UNCHANGED <<rd, cut, localEnd, tx, rx, cause, cancelled, rxFailed, delivered,
                  ex, msg, url, faults>>
      /\ ghost' = ghost \cup {o.op} /\ ExitStep(o)
      /\ \/ late' = rem
         \/ Len(s) # 1 /\ late' = [late EXCEPT ![i] = Tail(s)] /\ ~Fails(o)
         \/ Len(s) # 1 /\ late' = [late EXCEPT ![i] = Tail(s)] /\ Write(o)
         \/ Len(s) # 1 /\ late' = [late EXCEPT ![i] = Tail(s)] /\ (o.op # "tx")
  <2>1. /\ UNCHANGED <<bridge, ex, msg, url, faults>>
        /\ ghost' = ghost \cup {o.op}
        /\ \/ /\ \/ Write(o) \/ Close(o)
                 \/ \E n \in 0 .. NOut - out : Read(o, n)
              /\ late' = IF Len(s) = 1 THEN rem ELSE [late EXCEPT ![i] = Tail(s)]
           \/ Fails(o) /\ late' = rem
    BY <1>2
  <2> HIDE DEF o, rem, s
  <2>2. Close(o) \/ (\E n \in 0 .. NOut - out : Read(o, n)) => o.op # "tx"
    BY DEF Close, Read
  <2> QED
    BY <2>1, <2>2 DEF bridge, ExitStep
<1>4. late \in Seq(Seq(OpT)) /\ s \in Seq(OpT) /\ Fits(s, got)
  BY <1>1 DEF Types, NetTypes, Upload, InOrder
<1>5. o \in OpT /\ o = s[1] /\ InTurn(o, got)
  <2>1. CASE s = <<RXOp>> \/ s = <<CloseOp>>
    <3>1. o = RXOp \/ o = CloseOp
      BY <2>1
    <3>2. o = s[1]
      BY <2>1
    <3> QED
      BY <3>1, <3>2, OpTypes DEF RXOp, CloseOp, InTurn
  <2>2. CASE Chain(s) /\ Has(got, s[1].from - 1)
    <3>1. o = s[1]
      BY <1>4, <2>2 DEF Chain
    <3> HIDE DEF o
    <3> QED
      BY <1>4, <2>2, <3>1, ChainStarts DEF InTurn
  <2> QED
    BY <1>4, <2>1, <2>2 DEF Fits
<1> HIDE DEF o
<1>6. /\ NoHole(got')
      /\ \A k \in Nat : Has(got, k) => Has(got', k)
      /\ o.op # "tx" => got' = got
      /\ o.op # "rx" => out' = out
      /\ out <= out'
      /\ sess' = "open" => sess = "open"
      /\ Write(o) => o.op = "tx" /\ Has(got', o.to)
  BY <1>1, <1>3, <1>5, ExitStepIs DEF Upload
<1>7. rem \in Seq(Seq(OpT)) /\ \A k \in DOMAIN rem : \E j \in DOMAIN late : rem[k] = late[j]
  BY <1>4, Without
<1> HIDE DEF rem
<1>8. \A j \in DOMAIN late : late[j] \in Seq(OpT) /\ Fits(late[j], got')
  <2> SUFFICES ASSUME NEW j \in DOMAIN late
               PROVE  late[j] \in Seq(OpT) /\ Fits(late[j], got')
    OBVIOUS
  <2>1. late[j] \in Seq(OpT) /\ Fits(late[j], got)
    BY <1>1, <1>4 DEF Upload, InOrder
  <2> QED
    BY <1>6, <2>1, FitsMore
<1>9. late' \in Seq(Seq(OpT)) /\ \A k \in DOMAIN late' : Fits(late'[k], got')
  <2>1. CASE late' = rem
    BY <1>7, <1>8, <2>1
  <2>2. CASE Len(s) # 1 /\ late' = [late EXCEPT ![i] = Tail(s)] /\ (Write(o) \/ o.op # "tx")
    <3>1. Chain(s) /\ Has(got, s[1].from - 1)
      <4>1. s # <<RXOp>> /\ s # <<CloseOp>>
        BY <2>2
      <4> QED
        BY <1>4, <4>1 DEF Fits
    <3>2. o.op = "tx"
      BY <1>4, <1>5, <3>1, ChainStarts
    <3>3. Has(got', s[1].to)
      BY <1>5, <1>6, <2>2, <3>2
    <3>4. Tail(s) \in Seq(OpT) /\ Chain(Tail(s)) /\ Tail(s)[1].from - 1 = s[1].to
      BY <1>4, <2>2, <3>1, TailIs
    <3>5. Fits(Tail(s), got')
      BY <3>3, <3>4 DEF Fits, Chain
    <3> QED
      BY <1>4, <1>8, <2>2, <3>4, <3>5
  <2>3. ~Fails(o) => Write(o) \/ o.op # "tx"
    BY <1>3 DEF ExitStep, Close, Read
  <2> QED
    BY <1>3, <2>1, <2>2, <2>3
<1>10. Types'
  <2>1. o.op \in Flows
    BY <1>5 DEF OpT, Flows
  <2>2. NetTypes' /\ BridgeTypes'
    BY <1>1, <1>3, <1>9, <2>1 DEF Types, NetTypes, BridgeTypes
  <2>3. ExitTypes'
    <3>1. o.op = "tx" => 1 <= o.from /\ o.from <= o.to
      BY <1>5 DEF InTurn
    <3> QED
      BY <1>1, <1>3, <1>5, <3>1, OpTypesKept DEF ExitStep
  <2> QED
    BY <2>2, <2>3 DEF Types
<1>11. Phases'
  BY <1>1, <1>3 DEF Phases
<1>12. Upload'
  <2>1. CASE o.op = "tx"
    <3>1. Exact'
      BY <1>3, <2>1 DEF Exact
    <3>2. InOrder'
      <4>1. cut \in Nat /\ rd \in Nat
        BY <1>1, StreamAssumption DEF Types, BridgeTypes
      <4>2. (tx = "loop" \/ ex["tx"].st = "ok" => Has(got', cut)) /\ (cause = "done" => Has(got', rd))
        BY <1>1, <1>6, <4>1 DEF Upload, InOrder
      <4>3. ASSUME ex["tx"].st # "idle" PROVE Has(got', ex["tx"].ops[1].from - 1)
        <5>1. ex["tx"].ops \in Seq(OpT) /\ Chain(ex["tx"].ops)
          BY <1>1, <4>3 DEF Types, NetTypes, ExT, Phases, Flows
        <5> QED
          BY <1>1, <1>6, <4>3, <5>1, ChainStarts DEF Upload, InOrder
      <4>4. ASSUME ex["tx"].st = "busy"
            PROVE  /\ Has(got', msg["tx"].ops[1].from - 1)
                   /\ msg["tx"].done > 0 => Has(got', msg["tx"].ops[msg["tx"].done].to)
        <5>1. /\ msg["tx"].ops \in Seq(OpT) /\ Chain(msg["tx"].ops)
              /\ msg["tx"].done \in 0 .. Len(msg["tx"].ops)
          BY <1>1, <4>4, OpsOf DEF Flows
        <5>2. Has(got', msg["tx"].ops[1].from - 1)
          BY <1>1, <1>6, <4>4, <5>1, ChainStarts DEF Upload, InOrder
        <5>3. ASSUME msg["tx"].done > 0 PROVE Has(got', msg["tx"].ops[msg["tx"].done].to)
          <6>1. msg["tx"].ops[msg["tx"].done] \in OpT
            BY <5>1, <5>3
          <6>2. msg["tx"].ops[msg["tx"].done].to \in Nat
            BY <6>1, StreamAssumption DEF OpT
          <6> QED
            BY <1>1, <1>6, <4>4, <5>3, <6>2 DEF Upload, InOrder
        <5> QED
          BY <5>2, <5>3
      <4> QED
        BY <1>3, <1>9, <4>2, <4>3, <4>4 DEF InOrder
    <3> QED
      BY <1>6, <3>1, <3>2 DEF Upload
  <2>2. CASE o.op # "tx"
    <3>1. /\ got' = got /\ \A k \in DOMAIN late' : Fits(late'[k], got)
          /\ "tx" \notin ghost' => "tx" \notin ghost
      BY <1>3, <1>6, <1>9, <2>2
    <3> QED
      BY <1>1, <1>3, <1>6, <1>11, <3>1, UploadKept
  <2> QED
    BY <2>1, <2>2
<1>13. Download'
  <2>1. /\ ex["rx"].st # "ok" => ex["rx"].data = <<>>
        /\ msg["rx"].done = 0 => msg["rx"].data = <<>>
    BY <1>1 DEF Download, Ascends
  <2>2. "rx" \notin ghost' => "rx" \notin ghost /\ out' = out
    BY <1>3, <1>6
  <2> QED
    BY <1>1, <1>3, <1>6, <1>10, <2>1, <2>2, DownloadKept
<1> QED
  BY <1>10, <1>11, <1>12, <1>13 DEF IInv, Types, Upload, Download

-----------------------------------------------------------------------------
(* The theorems.                                                           *)

LEMMA InitHolds == Init => IInv
<1> SUFFICES ASSUME Init PROVE IInv
  OBVIOUS
<1>1. "tx" \in Flows /\ "rx" \in Flows /\ "close" \in Flows
  BY DEF Flows
<1>2. \A f \in Flows : ex[f] = Idle /\ msg[f] = NoMsg
  BY DEF Init
<1>3. /\ Idle.st = "idle" /\ Idle.data = <<>>
      /\ NoMsg.done = 0 /\ NoMsg.data = <<>>
  BY DEF Idle, NoMsg
<1>4. BridgeTypes /\ NetTypes /\ ExitTypes
  <2>1. <<>> \in Seq(1 .. NOut) /\ <<>> \in Seq(1 .. NIn) /\ <<>> \in Seq(Seq(OpT))
    BY EmptySeq
  <2>2. ex \in [Flows -> ExT] /\ msg \in [Flows -> MsgT]
    BY OpTypes DEF Init
  <2>3. BridgeTypes
    <3>1. rd \in 0 .. NIn /\ cut \in 0 .. rd
      BY StreamAssumption DEF Init
    <3>2. cancelled \in BOOLEAN /\ rxFailed \in BOOLEAN
      BY DEF Init
    <3>3. delivered \in Seq(1 .. NOut)
      BY <2>1 DEF Init
    <3>4. localEnd = "none" /\ tx = "loop" /\ rx = "poll" /\ cause = "none"
      BY DEF Init
    <3> QED
      BY <3>1, <3>2, <3>3, <3>4 DEF BridgeTypes
  <2>4. NetTypes
    BY <2>1, <2>2, StreamAssumption DEF Init, NetTypes
  <2>5. ExitTypes
    BY <2>1, StreamAssumption DEF Init, ExitTypes
  <2> QED
    BY <2>3, <2>4, <2>5
<1>5. Phases
  BY <1>1, <1>2, <1>3 DEF Init, Phases, Attempt
<1>6. InOrder
  <2>1. Has(got, cut)
    BY DEF Init, Has
  <2>2. DOMAIN late = {}
    BY DEF Init
  <2> QED
    BY <1>1, <1>2, <1>3, <2>1, <2>2 DEF Init, InOrder
<1>7. Exact /\ NoHole(got)
  BY <1>1, <1>2, <1>3 DEF Init, Exact, Straight, Sent, NoHole
<1>8. Ascends /\ Unbroken
  <2>1. ex["rx"].data = <<>> /\ msg["rx"].data = <<>> /\ delivered = <<>> /\ out = 0
    BY <1>1, <1>2, <1>3 DEF Init
  <2>2. Fresh(<<>>, delivered, out) /\ Follows(<<>>, delivered)
    BY DEF Fresh, Follows
  <2> QED
    BY <2>1, <2>2 DEF Ascends, Unbroken
<1> QED
  BY <1>4, <1>5, <1>6, <1>7, <1>8 DEF IInv

LEMMA NextKeeps == IInv /\ [Next]_vars => IInv'
<1> SUFFICES ASSUME IInv, [Next]_vars PROVE IInv'
  OBVIOUS
<1>1. CASE UNCHANGED vars
  <2>1. UNCHANGED <<rd, cut, localEnd, tx, rx, cause, cancelled, rxFailed, delivered, net, exit>>
    BY <1>1 DEF vars, bridge
  <2>2. BridgeTypes' /\ (tx \in {"loop", "exchange"} => cause = "none")
    BY <2>1 DEF IInv, BridgeTypes, Phases
  <2> QED
    BY <2>1, <2>2, QuietKept
<1>2. CASE ReadLocal \/ LocalError \/ Flush \/ TXLoop
  BY <1>2, ReadLocalKeeps, LocalErrorKeeps, FlushKeeps, FlushedKeeps, SeeRXFailedKeeps,
     SeeCancelledKeeps, FinishKeeps, CloseSessionKeeps, ClosedKeeps DEF TXLoop
<1>3. CASE RXLoop
  BY <1>3, PollKeeps, RXStopKeeps, DeliverKeeps DEF RXLoop
<1>4. CASE \E f \in Flows : Exchange(f) \/ Execute(f) \/ Fault(f)
  BY <1>4, RefuseBatchKeeps, GoSequentialKeeps, AcceptKeeps, RefusedKeeps, CancelledKeeps,
     ExecuteKeeps, FaultKeeps DEF Exchange
<1>5. CASE ExecuteLate \/ Sweep \/ Restart \/ ParentCancel
  BY <1>5, ExecuteLateKeeps, SweepKeeps, RestartKeeps, ParentCancelKeeps
<1> QED
  BY <1>1, <1>2, <1>3, <1>4, <1>5 DEF Next

\* The bridge, the exchanges and the exit stay in the states the code has.
THEOREM StreamInvariant == Spec => []IInv
<1> QED
  BY InitHolds, NextKeeps, PTL DEF Spec

LEMMA IInvTypes == IInv => TypeOK
<1> SUFFICES ASSUME IInv PROVE TypeOK
  OBVIOUS
<1>1. ASSUME NEW s \in Seq(OpT) PROVE IsOps(s)
  <2> SUFFICES ASSUME NEW i \in DOMAIN s PROVE IsOp(s[i])
    BY DEF IsOps
  <2>1. s[i] \in OpT
    OBVIOUS
  <2> QED
    BY <2>1, StreamAssumption DEF IsOp, OpT
<1>2. ASSUME NEW n \in Nat, NEW s \in Seq(1 .. n) PROVE \A i \in DOMAIN s : s[i] \in 1 .. n
  <2> SUFFICES ASSUME NEW i \in DOMAIN s PROVE s[i] \in 1 .. n
    OBVIOUS
  <2>1. i \in 1 .. Len(s)
    OBVIOUS
  <2> QED
    BY <2>1, ElementOfSeq
<1>3. (\A i \in DOMAIN got : got[i] \in 1 .. NIn) /\ (\A i \in DOMAIN delivered : delivered[i] \in 1 .. NOut)
  BY <1>2, StreamAssumption DEF IInv, ExitTypes, BridgeTypes
<1>4. ASSUME NEW f \in Flows
      PROVE  /\ ex[f].st \in {"idle", "busy", "ok", "err"}
             /\ ex[f].mode \in {"batch", "seq"}
             /\ ex[f].start \in 0 .. Urls - 1 /\ ex[f].tried \in 0 .. Urls - 1
             /\ IsOps(ex[f].ops)
             /\ msg[f].st \in {"none", "fly", "ok", "fail", "badurl"}
             /\ IsOps(msg[f].ops)
  <2>1. ex[f] \in ExT /\ msg[f] \in MsgT
    BY DEF IInv, NetTypes
  <2> QED
    BY <1>1, <2>1 DEF ExT, MsgT
<1>5. \A i \in DOMAIN late : IsOps(late[i])
  <2> SUFFICES ASSUME NEW i \in DOMAIN late PROVE IsOps(late[i])
    OBVIOUS
  <2>1. late[i] \in Seq(OpT)
    BY DEF IInv, NetTypes
  <2> QED
    BY <1>1, <2>1
<1>6. /\ url \in 0 .. Urls - 1 /\ faults \in 0 .. MaxFaults /\ ghost \subseteq Flows
      /\ sess \in {"open", "gone"} /\ out \in 0 .. NOut
  BY DEF IInv, NetTypes, ExitTypes
<1> QED
  BY <1>3, <1>4, <1>5, <1>6 DEF IInv, BridgeTypes, TypeOK

LEMMA IInvUpload == IInv => UploadFaithful
<1> SUFFICES ASSUME IInv PROVE UploadFaithful
  OBVIOUS
<1>1. \A i \in DOMAIN got : got[i] = 1 \/ \E j \in 1 .. i - 1 : got[j] = got[i] - 1
  BY DEF IInv, NoHole
<1>2. "tx" \notin ghost => \A i \in DOMAIN got : got[i] = i
  BY DEF IInv, Exact, Straight
<1>3. cause = "done" => 1 .. rd \subseteq Elems(got)
  BY DEF IInv, InOrder, Has, Elems
<1> QED
  BY <1>1, <1>2, <1>3 DEF UploadFaithful

LEMMA IInvDownload == IInv => DownloadFaithful
BY DEF IInv, Ascends, Unbroken, DownloadFaithful

\* The variables of the bridge, the exchanges and the exit keep their types.
THEOREM StreamTypes == Spec => []TypeOK
<1> QED
  BY StreamInvariant, IInvTypes, PTL

\* A byte reaches the target for the first time only after the one before it,
\* once and in order unless an attempt took effect without its reply being
\* accepted; a bridge that ends because local is done has sent all of it
\* (flushTX, Exchange's failover and the exit's handleBatch).
THEOREM UploadIsFaithful == Spec => []UploadFaithful
<1> QED
  BY StreamInvariant, IInvUpload, PTL

\* Local never sees a byte twice or out of order, and misses none unless a
\* poll was answered into the void (runRX and its exchanges).
THEOREM DownloadIsFaithful == Spec => []DownloadFaithful
<1> QED
  BY StreamInvariant, IInvDownload, PTL

=============================================================================
