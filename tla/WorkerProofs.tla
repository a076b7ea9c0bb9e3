----------------------------- MODULE WorkerProofs -----------------------------
(***************************************************************************)
(* What WorkerHub promises of the sessions it holds, for any number of     *)
(* requests, ids, sessions, bytes and evictions and any size of buffer,    *)
(* response and chunk.                                                     *)
(***************************************************************************)
EXTENDS WorkerHub, SequenceTheorems, FiniteSetTheorems, TLAPS

-----------------------------------------------------------------------------
(* Induction on a number, as a least counterexample.                       *)

LEMMA LeastNat ==
  ASSUME NEW S \in SUBSET Nat, S # {}
  PROVE  \E n \in S : \A m \in S : n <= m
<1> DEFINE T == {0 .. n : n \in S}
<1>1. IsWellFoundedOn(StrictSubsetOrdering(Nat), FiniteSubsetsOf(Nat))
  BY FS_StrictSubsetOrderingWellFounded
<1>2. T \subseteq FiniteSubsetsOf(Nat)
  <2> SUFFICES ASSUME NEW n \in S PROVE 0 .. n \in FiniteSubsetsOf(Nat)
    OBVIOUS
  <2>1. IsFiniteSet(0 .. n)
    BY FS_Interval
  <2> QED
    BY <2>1 DEF FiniteSubsetsOf
<1>3. T # {}
  OBVIOUS
<1> HIDE DEF T
<1>4. PICK t \in T : \A u \in T : ~ (<<u, t>> \in StrictSubsetOrdering(Nat))
  BY <1>1, <1>2, <1>3, WFMin
<1> USE DEF T
<1>5. PICK n \in S : t = 0 .. n
  OBVIOUS
<1>6. ASSUME NEW m \in S, m < n PROVE FALSE
  <2>1. 0 .. m \subseteq 0 .. n /\ 0 .. m # 0 .. n
    <3>1. n \in 0 .. n /\ n \notin 0 .. m
      BY <1>6
    <3> QED
      BY <1>6, <3>1
  <2>2. <<0 .. m, 0 .. n>> \in StrictSubsetOrdering(Nat)
    BY <2>1 DEF StrictSubsetOrdering
  <2> QED
    BY <2>2, <1>4, <1>5
<1> QED
  BY <1>6

-----------------------------------------------------------------------------
(* The bytes of a sequence of chunks.                                      *)

\* The recursion of FlattenSeq, up to n.
Flat(f, s, n) == f = [i \in 1 .. n |-> IF i = 1 THEN s[i] ELSE f[i - 1] \o s[i]]

LEMMA FlatUnique ==
  ASSUME NEW s, NEW n \in Nat, NEW f, NEW g, Flat(f, s, n), Flat(g, s, n)
  PROVE  f = g
<1> SUFFICES ASSUME f # g PROVE FALSE
  OBVIOUS
<1> DEFINE S == {i \in 1 .. n : f[i] # g[i]}
<1>0. /\ f = [i \in 1 .. n |-> f[i]] /\ g = [i \in 1 .. n |-> g[i]]
      /\ \A i \in 1 .. n : f[i] = IF i = 1 THEN s[i] ELSE f[i - 1] \o s[i]
      /\ \A i \in 1 .. n : g[i] = IF i = 1 THEN s[i] ELSE g[i - 1] \o s[i]
  BY DEF Flat
<1>1. S # {} /\ S \subseteq Nat
  BY <1>0
<1> HIDE DEF S
<1>2. PICK k \in S : \A m \in S : k <= m
  BY <1>1, LeastNat
<1>3. k \in 1 .. n /\ f[k] # g[k]
  BY <1>2 DEF S
<1>4. k # 1
  BY <1>0, <1>3
<1>5. k - 1 \in 1 .. n /\ ~(k <= k - 1)
  BY <1>3, <1>4
<1>6. f[k - 1] = g[k - 1]
  BY <1>2, <1>5 DEF S
<1>7. f[k] = f[k - 1] \o s[k] /\ g[k] = g[k - 1] \o s[k]
  BY <1>0, <1>3, <1>4
<1> QED
  BY <1>3, <1>6, <1>7

LEMMA FlatExists ==
  ASSUME NEW s, NEW n \in Nat
  PROVE  \E f : Flat(f, s, n)
<1> SUFFICES ASSUME ~\E f : Flat(f, s, n) PROVE FALSE
  OBVIOUS
<1> DEFINE S == {m \in Nat : ~\E f : Flat(f, s, m)}
<1>1. n \in S /\ S \subseteq Nat
  OBVIOUS
<1> HIDE DEF S
<1>2. PICK k \in S : \A m \in S : k <= m
  BY <1>1, LeastNat
<1>3. k \in Nat /\ ~\E f : Flat(f, s, k)
  BY <1>2 DEF S
<1>4. k # 0
  <2>1. Flat([i \in 1 .. 0 |-> 0], s, 0)
    BY DEF Flat
  <2> QED
    BY <1>3, <2>1
<1>5. k - 1 \in Nat /\ ~(k <= k - 1)
  BY <1>3, <1>4
<1>6. PICK f : Flat(f, s, k - 1)
  BY <1>2, <1>5 DEF S
<1> DEFINE g == [i \in 1 .. k |-> IF i < k THEN f[i]
                                  ELSE IF i = 1 THEN s[i] ELSE f[i - 1] \o s[i]]
<1>7. ASSUME NEW i \in 1 .. k PROVE g[i] = IF i = 1 THEN s[i] ELSE g[i - 1] \o s[i]
  <2>1. CASE i < k
    <3>1. i \in 1 .. k - 1 /\ g[i] = f[i]
      BY <1>3, <2>1
    <3>2. f[i] = IF i = 1 THEN s[i] ELSE f[i - 1] \o s[i]
      BY <1>6, <3>1 DEF Flat
    <3>3. i # 1 => i - 1 \in 1 .. k /\ i - 1 < k
      BY <1>3, <2>1
    <3> QED
      BY <3>1, <3>2, <3>3
  <2>2. CASE i = k
    <3>1. i # 1 => i - 1 \in 1 .. k /\ i - 1 < k
      BY <1>3, <2>2
    <3> QED
      BY <1>3, <2>2, <3>1
  <2> QED
    BY <1>3, <2>1, <2>2
<1>8. Flat(g, s, k)
  <2>1. g = [i \in 1 .. k |-> g[i]]
    OBVIOUS
  <2> HIDE DEF g
  <2> QED
    BY <1>7, <2>1 DEF Flat
<1> QED
  BY <1>3, <1>8

\* The bytes of the first n chunks, for every n.
LEMMA FlattenIs ==
  ASSUME NEW s, NEW n \in Nat, Len(s) = n, n # 0
  PROVE  \E f : Flat(f, s, n) /\ FlattenSeq(s) = f[n]
<1> DEFINE g == CHOOSE f : Flat(f, s, n)
<1>1. Flat(g, s, n)
  BY FlatExists
<1>2. FlattenSeq(s) = g[n]
  BY DEF FlattenSeq, Flat
<1> QED
  BY <1>1, <1>2

LEMMA FlattenEmpty == FlattenSeq(<<>>) = <<>>
BY DEF FlattenSeq

LEMMA FlattenType ==
  ASSUME NEW S, NEW s \in Seq(Seq(S))
  PROVE  FlattenSeq(s) \in Seq(S)
<1> DEFINE n == Len(s)
<1>0. n \in Nat /\ \A i \in 1 .. n : s[i] \in Seq(S)
  BY ElementOfSeq
<1>1. CASE n = 0
  <2>1. s = <<>>
    BY <1>1
  <2> QED
    BY <2>1, FlattenEmpty, EmptySeq
<1>2. CASE n # 0
  <2> HIDE DEF n
  <2>1. PICK f : Flat(f, s, n) /\ FlattenSeq(s) = f[n]
    BY <1>0, <1>2, FlattenIs DEF n
  <2>2. \A i \in 1 .. n : f[i] = IF i = 1 THEN s[i] ELSE f[i - 1] \o s[i]
    BY <2>1 DEF Flat
  <2> DEFINE B == {i \in 1 .. n : f[i] \notin Seq(S)}
  <2>3. B = {}
    <3> SUFFICES ASSUME B # {} PROVE FALSE
      OBVIOUS
    <3>1. B \subseteq Nat
      OBVIOUS
    <3> HIDE DEF B
    <3>2. PICK k \in B : \A m \in B : k <= m
      BY <3>1, LeastNat
    <3>3. k \in 1 .. n /\ f[k] \notin Seq(S)
      BY <3>2 DEF B
    <3>4. k # 1
      BY <1>0, <2>2, <3>3
    <3>5. k - 1 \in 1 .. n /\ ~(k <= k - 1)
      BY <1>0, <3>3, <3>4
    <3>6. f[k - 1] \in Seq(S)
      BY <3>2, <3>5 DEF B
    <3>7. f[k] = f[k - 1] \o s[k] /\ s[k] \in Seq(S)
      BY <1>0, <2>2, <3>3, <3>4
    <3> QED
      BY <3>3, <3>6, <3>7, ConcatProperties
  <2>4. n \in 1 .. n
    BY <1>0, <1>2
  <2> QED
    BY <2>1, <2>3, <2>4
<1> QED
  BY <1>1, <1>2

LEMMA FlattenAppend ==
  ASSUME NEW S, NEW s \in Seq(Seq(S)), NEW c \in Seq(S)
  PROVE  FlattenSeq(Append(s, c)) = FlattenSeq(s) \o c
<1> DEFINE n == Len(s)
           t == Append(s, c)
<1>0. n \in Nat /\ Len(t) = n + 1 /\ t[n + 1] = c /\ \A i \in 1 .. n : t[i] = s[i]
  OBVIOUS
<1> HIDE DEF t
<1>1. PICK f : Flat(f, t, n + 1) /\ FlattenSeq(t) = f[n + 1]
  BY <1>0, FlattenIs
<1>2. \A i \in 1 .. n + 1 : f[i] = IF i = 1 THEN t[i] ELSE f[i - 1] \o t[i]
  BY <1>1 DEF Flat
<1>3. CASE n = 0
  <2>1. s = <<>>
    BY <1>3
  <2>2. 1 \in 1 .. n + 1 /\ n + 1 = 1
    BY <1>3
  <2>3. f[1] = c
    BY <1>0, <1>2, <2>2
  <2>4. FlattenSeq(s) \o c = c
    BY <2>1, FlattenEmpty
  <2> QED
    BY <1>1, <2>2, <2>3, <2>4 DEF t
<1>4. CASE n # 0
  <2> DEFINE g == [i \in 1 .. n |-> f[i]]
  <2>1. \A i \in 1 .. n : g[i] = IF i = 1 THEN s[i] ELSE g[i - 1] \o s[i]
    <3> SUFFICES ASSUME NEW i \in 1 .. n PROVE g[i] = IF i = 1 THEN s[i] ELSE g[i - 1] \o s[i]
      OBVIOUS
    <3>1. i \in 1 .. n + 1 /\ (i # 1 => i - 1 \in 1 .. n)
      BY <1>0
    <3> QED
      BY <1>0, <1>2, <3>1
  <2>2. g = [i \in 1 .. n |-> g[i]]
    OBVIOUS
  <2>3. g[n] = f[n]
    BY <1>0, <1>4
  <2> HIDE DEF g
  <2>4. Flat(g, s, n)
    BY <2>1, <2>2 DEF Flat
  <2>5. PICK h : Flat(h, s, n) /\ FlattenSeq(s) = h[n]
    BY <1>0, <1>4, FlattenIs
  <2>6. g = h
    BY <1>0, <2>4, <2>5, FlatUnique
  <2>7. f[n + 1] = f[n] \o c
    <3>1. n + 1 \in 1 .. n + 1 /\ n + 1 # 1 /\ (n + 1) - 1 = n
      BY <1>0, <1>4
    <3>2. f[n + 1] = f[(n + 1) - 1] \o t[n + 1]
      BY <1>2, <3>1
    <3> QED
      BY <1>0, <3>1, <3>2
  <2> QED
    BY <1>1, <2>3, <2>5, <2>6, <2>7 DEF t
<1> QED
  BY <1>3, <1>4

LEMMA FlattenConcat ==
  ASSUME NEW S, NEW a \in Seq(Seq(S)), NEW b \in Seq(Seq(S))
  PROVE  FlattenSeq(a \o b) = FlattenSeq(a) \o FlattenSeq(b)
<1> DEFINE part(k) == SubSeq(b, 1, k)
           holds(k) == FlattenSeq(a \o part(k)) = FlattenSeq(a) \o FlattenSeq(part(k))
           B == {k \in 0 .. Len(b) : ~holds(k)}
<1>1. Len(b) \in Nat /\ part(Len(b)) = b
  OBVIOUS
<1>2. SUFFICES B = {}
  <2>1. Len(b) \in 0 .. Len(b)
    BY <1>1
  <2>2. B = {} => holds(Len(b))
    BY <2>1
  <2> HIDE DEF B
  <2> QED
    BY <1>1, <2>2
<1>3. \A k \in 0 .. Len(b) : part(k) \in Seq(Seq(S)) /\ Len(part(k)) = k
  OBVIOUS
<1>4. \A k \in 1 .. Len(b) : part(k) = Append(part(k - 1), b[k]) /\ b[k] \in Seq(S)
  <2> SUFFICES ASSUME NEW k \in 1 .. Len(b)
               PROVE  part(k) = Append(part(k - 1), b[k]) /\ b[k] \in Seq(S)
    OBVIOUS
  <2>1. b[k] \in Seq(S) /\ k \in 1 .. Len(b) /\ 1 \in 1 .. Len(b) /\ k \in 1 .. Len(b) /\ k - 1 \in 0 .. Len(b)
    BY <1>1, ElementOfSeq
  <2>2. part(k) = part(k - 1) \o <<b[k]>>
    BY <2>1, SubSeqRecursiveSecond
  <2>3. Append(part(k - 1), b[k]) = part(k - 1) \o <<b[k]>>
    BY <1>3, <2>1, AppendIsConcat
  <2> QED
    BY <2>1, <2>2, <2>3
<1>5. holds(0)
  <2>1. part(0) = <<>>
    BY <1>3
  <2>2. a \o <<>> = a /\ FlattenSeq(a) \in Seq(S)
    BY FlattenType
  <2>3. FlattenSeq(a) \o <<>> = FlattenSeq(a)
    BY <2>2
  <2> HIDE DEF part
  <2> QED
    BY <2>1, <2>2, <2>3, FlattenEmpty
<1> HIDE DEF part
<1> SUFFICES ASSUME B # {} PROVE FALSE
  OBVIOUS
<1>6. B \subseteq Nat
  OBVIOUS
<1> HIDE DEF B
<1>7. PICK k \in B : \A m \in B : k <= m
  BY <1>6, LeastNat
<1>8. k \in 0 .. Len(b) /\ ~holds(k)
  BY <1>7 DEF B
<1>9. k \in 1 .. Len(b) /\ k - 1 \in 0 .. Len(b) /\ ~(k <= k - 1)
  BY <1>1, <1>5, <1>8
<1>10. holds(k - 1)
  BY <1>7, <1>9 DEF B
<1>11. part(k) = Append(part(k - 1), b[k]) /\ b[k] \in Seq(S) /\ part(k - 1) \in Seq(Seq(S))
  BY <1>3, <1>4, <1>9
<1>12. a \o part(k) = Append(a \o part(k - 1), b[k]) /\ a \o part(k - 1) \in Seq(Seq(S))
  <2> DEFINE p == part(k - 1)
             e == b[k]
  <2>1. p \in Seq(Seq(S)) /\ e \in Seq(S) /\ part(k) = Append(p, e)
    BY <1>11
  <2> HIDE DEF p, e
  <2>2. <<e>> \in Seq(Seq(S)) /\ Append(p, e) = p \o <<e>>
    BY <2>1, AppendIsConcat
  <2>3. a \o p \in Seq(Seq(S)) /\ a \o (p \o <<e>>) = (a \o p) \o <<e>>
    <3>1. a \o p \in Seq(Seq(S))
      BY <2>1, ConcatProperties
    <3>2. a \o (p \o <<e>>) = (a \o p) \o <<e>>
      <4> DEFINE q == <<e>>
                 T == Seq(S)
      <4>1. a \in Seq(T) /\ p \in Seq(T) /\ q \in Seq(T)
        BY <2>1, <2>2
      <4> HIDE DEF q, T
      <4>2. (a \o p) \o q = a \o (p \o q)
        BY <4>1, ConcatAssociative
      <4> QED
        BY <4>2 DEF q
    <3> QED
      BY <3>1, <3>2
  <2>4. Append(a \o p, e) = (a \o p) \o <<e>>
    BY <2>1, <2>3, AppendIsConcat
  <2> QED
    BY <2>1, <2>2, <2>3, <2>4 DEF p, e
<1>13. FlattenSeq(a \o part(k)) = FlattenSeq(a \o part(k - 1)) \o b[k]
  BY <1>11, <1>12, FlattenAppend
<1>14. FlattenSeq(part(k)) = FlattenSeq(part(k - 1)) \o b[k]
  BY <1>11, FlattenAppend
<1>15. FlattenSeq(a) \in Seq(S) /\ FlattenSeq(part(k - 1)) \in Seq(S)
  BY <1>11, FlattenType
<1>16. (FlattenSeq(a) \o FlattenSeq(part(k - 1))) \o b[k] = FlattenSeq(a) \o (FlattenSeq(part(k - 1)) \o b[k])
  <2> DEFINE x == FlattenSeq(a)
             y == FlattenSeq(part(k - 1))
             z == b[k]
  <2>1. x \in Seq(S) /\ y \in Seq(S) /\ z \in Seq(S)
    BY <1>11, <1>15
  <2> HIDE DEF x, y, z
  <2>2. (x \o y) \o z = x \o (y \o z)
    BY <2>1, ConcatAssociative
  <2> QED
    BY <2>2 DEF x, y, z
<1> QED
  BY <1>8, <1>10, <1>13, <1>14, <1>16

LEMMA FlattenFirst ==
  ASSUME NEW S, NEW c \in Seq(S), NEW t \in Seq(Seq(S))
  PROVE  FlattenSeq(<<c>> \o t) = c \o FlattenSeq(t)
<1>1. <<c>> \in Seq(Seq(S)) /\ <<>> \in Seq(Seq(S)) /\ <<c>> = Append(<<>>, c)
  OBVIOUS
<1>2. FlattenSeq(<<c>>) = FlattenSeq(<<>>) \o c
  BY <1>1, FlattenAppend
<1>3. FlattenSeq(<<c>>) = c
  BY <1>2, FlattenEmpty
<1> QED
  BY <1>1, <1>3, FlattenConcat

-----------------------------------------------------------------------------
(* drainRX: where the response ends, and what is left.                     *)

\* The chunks that go whole are well defined.
LEMMA WholeIs ==
  ASSUME NEW S, NEW cs \in Seq(Seq(S)), MaxResp \in Nat
  PROVE  /\ Whole(cs) \in 0 .. Len(cs)
         /\ Len(Bytes(SubSeq(cs, 1, Whole(cs)))) <= MaxResp
         /\ Whole(cs) < Len(cs) => Len(Bytes(SubSeq(cs, 1, Whole(cs) + 1))) > MaxResp
<1> DEFINE size(k) == Len(Bytes(SubSeq(cs, 1, k)))
           Ends(i) == size(i) <= MaxResp /\ (i < Len(cs) => size(i + 1) > MaxResp)
<1>0. Len(cs) \in Nat
  OBVIOUS
<1>1. \A k \in 0 .. Len(cs) : size(k) \in Nat
  <2> SUFFICES ASSUME NEW k \in 0 .. Len(cs) PROVE size(k) \in Nat
    OBVIOUS
  <2>1. SubSeq(cs, 1, k) \in Seq(Seq(S))
    OBVIOUS
  <2>2. FlattenSeq(SubSeq(cs, 1, k)) \in Seq(S)
    BY <2>1, FlattenType
  <2> QED
    BY <2>2 DEF Bytes
<1>2. size(0) = 0
  <2>1. SubSeq(cs, 1, 0) = <<>> /\ Len(<<>>) = 0
    OBVIOUS
  <2>2. Bytes(SubSeq(cs, 1, 0)) = <<>>
    BY <2>1, FlattenEmpty DEF Bytes
  <2> QED
    BY <2>1, <2>2
<1> HIDE DEF size
<1>3. \E i \in 0 .. Len(cs) : Ends(i)
  <2>1. CASE size(Len(cs)) <= MaxResp
    <3>1. Len(cs) \in 0 .. Len(cs) /\ ~(Len(cs) < Len(cs))
      BY <1>0
    <3> QED
      BY <2>1, <3>1
  <2>2. CASE ~(size(Len(cs)) <= MaxResp)
    <3> DEFINE B == {k \in 0 .. Len(cs) : ~(size(k) <= MaxResp)}
    <3>1. B # {} /\ B \subseteq Nat
      <4>1. Len(cs) \in 0 .. Len(cs)
        BY <1>0
      <4>2. Len(cs) \in B
        BY <2>2, <4>1
      <4>3. \A k \in B : k \in Nat
        OBVIOUS
      <4> HIDE DEF B
      <4> QED
        BY <4>2, <4>3
    <3> HIDE DEF B
    <3>2. PICK k \in B : \A m \in B : k <= m
      BY <3>1, LeastNat
    <3>3. k \in 0 .. Len(cs) /\ ~(size(k) <= MaxResp)
      BY <3>2 DEF B
    <3>4. k # 0
      BY <1>2, <3>3
    <3>5. k - 1 \in 0 .. Len(cs) /\ ~(k <= k - 1) /\ (k - 1) + 1 = k
      BY <1>0, <3>3, <3>4
    <3>6. size(k - 1) <= MaxResp
      BY <3>2, <3>5 DEF B
    <3>7. size(k) > MaxResp
      BY <1>1, <3>3
    <3>8. Ends(k - 1)
      BY <3>5, <3>6, <3>7
    <3> QED
      BY <3>5, <3>8
  <2> QED
    BY <2>1, <2>2
<1>4. Whole(cs) = CHOOSE i \in 0 .. Len(cs) : Ends(i)
  BY DEF Whole, size
<1> HIDE DEF Ends
<1>5. Whole(cs) \in 0 .. Len(cs) /\ Ends(Whole(cs))
  BY <1>3, <1>4
<1> QED
  BY <1>5 DEF Ends, size

\* A sequence cut in two.
LEMMA CutIs ==
  ASSUME NEW S, NEW s \in Seq(S), NEW k \in 0 .. Len(s)
  PROVE  s = SubSeq(s, 1, k) \o SubSeq(s, k + 1, Len(s))
<1>1. 1 \in 1 .. Len(s) + 1 /\ k \in 1 - 1 .. Len(s) /\ Len(s) \in k .. Len(s) /\ Len(s) \in Nat
  OBVIOUS
<1>2. SubSeq(s, 1, k) \o SubSeq(s, k + 1, Len(s)) = SubSeq(s, 1, Len(s))
  BY <1>1, ConcatAdjacentSubSeq
<1> QED
  BY <1>2, SubSeqFull

\* What one response takes of chunks cs.
First(cs) == SubSeq(Bytes(cs), 1, IF Len(Bytes(cs)) < MaxResp THEN Len(Bytes(cs)) ELSE MaxResp)

\* What is answered and what is left are what was buffered.
LEMMA RestIs ==
  ASSUME NEW S, NEW cs \in Seq(Seq(S)), MaxResp \in Nat
  PROVE  /\ Rest(cs) \in Seq(Seq(S))
         /\ First(cs) \in Seq(S) /\ Bytes(Rest(cs)) \in Seq(S) /\ Bytes(cs) \in Seq(S)
         /\ Bytes(cs) = First(cs) \o Bytes(Rest(cs))
<1> DEFINE all == Bytes(cs)
           sent == First(cs)
<1>0. sent = SubSeq(all, 1, IF Len(all) < MaxResp THEN Len(all) ELSE MaxResp)
  BY DEF First
<1> DEFINE n == Whole(cs)
           pre == SubSeq(cs, 1, n)
           tail == SubSeq(cs, n + 1, Len(cs))
           P == Bytes(pre)
           room == MaxResp - Len(P)
<1>1. /\ n \in 0 .. Len(cs) /\ Len(cs) \in Nat /\ Len(P) <= MaxResp
      /\ n < Len(cs) => Len(Bytes(SubSeq(cs, 1, n + 1))) > MaxResp
  BY WholeIs
<1>2. Rest(cs) = IF tail = <<>> \/ room = 0 THEN tail
                 ELSE <<SubSeq(Head(tail), room + 1, Len(Head(tail)))>> \o Tail(tail)
  BY DEF Rest
<1> HIDE DEF n
<1>3. pre \in Seq(Seq(S)) /\ tail \in Seq(Seq(S)) /\ cs = pre \o tail
  <2>1. pre \in Seq(Seq(S)) /\ tail \in Seq(Seq(S))
    BY <1>1
  <2> QED
    BY <1>1, <2>1, CutIs
<1> HIDE DEF pre
<1> HIDE DEF sent
<1>4. all = P \o Bytes(tail) /\ P \in Seq(S) /\ Bytes(tail) \in Seq(S) /\ all \in Seq(S)
  BY <1>3, FlattenConcat, FlattenType DEF Bytes
<1> HIDE DEF all
<1>5. room \in Nat /\ Len(P) \in Nat
  BY <1>1, <1>4
<1>6. CASE tail = <<>>
  <2>1. Bytes(tail) = <<>>
    BY <1>6, FlattenEmpty DEF Bytes
  <2>2. all = P
    BY <1>4, <2>1
  <2>3. Len(all) <= MaxResp /\ Len(all) \in Nat
    BY <1>1, <1>4, <2>2
  <2>4. sent = all
    <3>1. (IF Len(all) < MaxResp THEN Len(all) ELSE MaxResp) = Len(all)
      BY <2>3
    <3>2. sent = SubSeq(all, 1, Len(all))
      BY <1>0, <3>1
    <3> QED
      BY <1>4, <3>2, SubSeqFull
  <2>5. Rest(cs) = tail
    BY <1>2, <1>6
  <2>6. all = all \o <<>>
    BY <1>4
  <2> QED
    BY <1>3, <1>4, <2>1, <2>4, <2>5, <2>6 DEF all, sent
<1>7. CASE tail # <<>>
  <2> DEFINE h == Head(tail)
             X == Bytes(Tail(tail))
             cut == SubSeq(h, room + 1, Len(h))
  <2>1. h \in Seq(S) /\ Tail(tail) \in Seq(Seq(S)) /\ tail = <<h>> \o Tail(tail)
    <3> HIDE DEF tail
    <3>1. Len(tail) \in Nat \ {0} /\ 1 \in 1 .. Len(tail) /\ Len(tail) \in 1 .. Len(tail)
      BY <1>3, <1>7
    <3>2. h \in Seq(S) /\ h = tail[1] /\ Tail(tail) \in Seq(Seq(S))
          /\ Tail(tail) = SubSeq(tail, 2, Len(tail))
      BY <1>3, <1>7, <3>1, HeadTailProperties, TailIsSubSeq
    <3>3. SubSeq(tail, 1, Len(tail)) = <<tail[1]>> \o SubSeq(tail, 1 + 1, Len(tail))
      BY <1>3, <3>1, SubSeqRecursiveFirst
    <3>4. SubSeq(tail, 1, Len(tail)) = tail /\ 1 + 1 = 2
      BY <1>3, SubSeqFull
    <3> QED
      BY <3>2, <3>3, <3>4
  <2>2. X \in Seq(S) /\ Bytes(tail) = h \o X
    BY <2>1, FlattenType, FlattenFirst DEF Bytes
  <2>3. n < Len(cs)
    BY <1>1, <1>7
  <2>4. Len(P) + Len(h) > MaxResp
    <3>1. n + 1 \in 1 .. Len(cs) /\ (n + 1) - 1 = n /\ 1 \in 1 .. Len(cs)
      BY <1>1, <2>3
    <3>2. h = cs[n + 1]
      BY <1>1, <2>3
    <3>3. SubSeq(cs, 1, n + 1) = pre \o <<cs[n + 1]>>
      BY <3>1, SubSeqRecursiveSecond DEF pre
    <3>4. pre \o <<h>> = Append(pre, h)
      BY <1>3, <2>1, AppendIsConcat
    <3>5. Bytes(SubSeq(cs, 1, n + 1)) = P \o h
      BY <1>3, <2>1, <3>2, <3>3, <3>4, FlattenAppend DEF Bytes
    <3>6. Len(P \o h) = Len(P) + Len(h)
      BY <1>4, <2>1, ConcatProperties
    <3> QED
      BY <1>1, <2>3, <3>5, <3>6
  <2> HIDE DEF tail, P
  <2>5. cut \in Seq(S) /\ Len(cut) = Len(h) - room
        /\ (\A i \in 1 .. Len(h) - room : cut[i] = h[room + i])
        /\ Len(h) \in Nat /\ room <= Len(h)
    <3>1. Len(h) \in Nat /\ room <= Len(h)
      BY <1>1, <1>5, <2>1, <2>4
    <3> HIDE DEF h, room
    <3>2. cut \in Seq(S) /\ Len(cut) = Len(h) - room
      BY <1>5, <2>1, <3>1
    <3>3. \A i \in 1 .. Len(h) - room : cut[i] = h[room + i]
      BY <1>5, <2>1, <3>1
    <3> QED
      BY <3>1, <3>2, <3>3
  <2> HIDE DEF h
  <2>6. Rest(cs) \in Seq(Seq(S)) /\ Bytes(Rest(cs)) = cut \o X
    <3>1. CASE room = 0
      <4>1. Rest(cs) = tail
        BY <1>2, <3>1
      <4>2. cut = h
        BY <2>1, <3>1, SubSeqFull
      <4> QED
        BY <1>3, <2>2, <4>1, <4>2
    <3>2. CASE room # 0
      <4>1. Rest(cs) = <<cut>> \o Tail(tail)
        BY <1>2, <1>7, <3>2 DEF h
      <4>2. Bytes(<<cut>> \o Tail(tail)) = cut \o X
        BY <2>1, <2>5, FlattenFirst DEF Bytes
      <4>3. <<cut>> \in Seq(Seq(S))
        BY <2>5
      <4>4. <<cut>> \o Tail(tail) \in Seq(Seq(S))
        BY <2>1, <4>3, ConcatProperties
      <4> QED
        BY <4>1, <4>2, <4>4
    <3> QED
      BY <3>1, <3>2
  <2> HIDE DEF X, cut
  <2>7. /\ Len(X) \in Nat /\ h \o X \in Seq(S) /\ Len(h \o X) = Len(h) + Len(X)
        /\ (\A i \in 1 .. Len(h) + Len(X) : (h \o X)[i] = IF i <= Len(h) THEN h[i] ELSE X[i - Len(h)])
        /\ cut \o X \in Seq(S) /\ Len(cut \o X) = (Len(h) - room) + Len(X)
        /\ (\A i \in 1 .. (Len(h) - room) + Len(X) : (cut \o X)[i] =
              IF i <= Len(h) - room THEN cut[i] ELSE X[i - (Len(h) - room)])
    <3>1. Len(X) \in Nat
      BY <2>2
    <3>2. /\ h \o X \in Seq(S) /\ Len(h \o X) = Len(h) + Len(X)
          /\ (\A i \in 1 .. Len(h) + Len(X) : (h \o X)[i] = IF i <= Len(h) THEN h[i] ELSE X[i - Len(h)])
      BY <2>1, <2>2, ConcatProperties
    <3>3. /\ cut \o X \in Seq(S) /\ Len(cut \o X) = Len(cut) + Len(X)
          /\ (\A i \in 1 .. Len(cut) + Len(X) : (cut \o X)[i] = IF i <= Len(cut) THEN cut[i] ELSE X[i - Len(cut)])
      BY <2>2, <2>5, ConcatProperties
    <3>4. Len(cut) = Len(h) - room
      BY <2>5
    <3> QED
      BY <3>1, <3>2, <3>3, <3>4
  <2>8. /\ Len(all) = Len(P) + (Len(h) + Len(X))
        /\ (\A i \in 1 .. Len(P) + (Len(h) + Len(X)) : all[i] =
              IF i <= Len(P) THEN P[i] ELSE (h \o X)[i - Len(P)])
    BY <1>4, <2>2, <2>7, ConcatProperties
  <2>9. MaxResp = Len(P) + room
    BY <1>5
  <2>10. MaxResp \in 0 .. Len(all) /\ ~(Len(all) < MaxResp)
    BY <1>5, <2>5, <2>7, <2>8, <2>9
  <2>11. sent = SubSeq(all, 1, MaxResp)
    BY <1>0, <2>10
  <2> DEFINE left == SubSeq(all, MaxResp + 1, Len(all))
  <2>12. all = sent \o left /\ sent \in Seq(S)
    <3>1. all = sent \o left
      BY <1>4, <2>10, <2>11, CutIs
    <3>2. \A i \in 1 .. MaxResp : all[i] \in S
      <4>1. \A i \in 1 .. MaxResp : i \in 1 .. Len(all)
        BY <1>4, <2>10
      <4> QED
        BY <1>4, <4>1, ElementOfSeq
    <3>3. SubSeq(all, 1, MaxResp) \in Seq(S)
      BY <1>4, <2>10, <3>2, SubSeqProperties
    <3> QED
      BY <2>11, <3>1, <3>3
  <2>13. left \in Seq(S) /\ Len(left) = Len(all) - MaxResp
         /\ \A i \in 1 .. Len(all) - MaxResp : left[i] = all[MaxResp + i]
    <3>1. Len(all) \in Nat /\ MaxResp + 1 \in 1 .. Len(all) + 1
      BY <1>4, <2>10
    <3> QED
      BY <1>4, <2>10, <3>1
  <2> HIDE DEF left
  <2>14. left = cut \o X
    <3> DEFINE m == (Len(h) - room) + Len(X)
    <3>1. Len(left) = m /\ Len(cut \o X) = m
      BY <1>5, <2>5, <2>7, <2>8, <2>9, <2>13
    <3>2. ASSUME NEW i \in 1 .. m PROVE left[i] = (cut \o X)[i]
      <4> HIDE DEF room
      <4>1. /\ i \in 1 .. Len(all) - MaxResp /\ MaxResp + i \in 1 .. Len(P) + (Len(h) + Len(X))
            /\ ~(MaxResp + i <= Len(P)) /\ (MaxResp + i) - Len(P) = room + i
            /\ room + i \in 1 .. Len(h) + Len(X)
        BY <1>5, <2>5, <2>7, <2>8, <2>9
      <4>2. left[i] = (h \o X)[room + i]
        BY <2>8, <2>13, <4>1
      <4>3. left[i] = IF room + i <= Len(h) THEN h[room + i] ELSE X[(room + i) - Len(h)]
        BY <2>7, <4>1, <4>2
      <4>4. CASE room + i <= Len(h)
        <5>1. i \in 1 .. Len(h) - room /\ i <= Len(h) - room
          BY <1>5, <2>5, <2>7, <4>4
        <5> QED
          BY <2>5, <2>7, <4>3, <4>4, <5>1
      <4>5. CASE ~(room + i <= Len(h))
        <5>1. ~(i <= Len(h) - room) /\ (room + i) - Len(h) = i - (Len(h) - room)
          BY <1>5, <2>5, <2>7, <4>5
        <5> QED
          BY <2>7, <4>3, <4>5, <5>1
      <4> QED
        BY <4>4, <4>5
    <3> HIDE DEF m
    <3> QED
      BY <2>7, <2>13, <3>1, <3>2, SeqEqual
  <2> QED
    BY <1>4, <2>6, <2>7, <2>12, <2>14 DEF all, sent
<1> QED
  BY <1>6, <1>7

-----------------------------------------------------------------------------
(* One session.                                                            *)

\* What a session keeps through every change of it.
Sound(s) ==
  /\ s \in Sessions
  /\ s.rxBytes = Len(Bytes(s.rxChunks))
  /\ s.taken \o Bytes(s.rxChunks) = [i \in 1 .. s.got |-> i]
  /\ s.drainWaiter => s.rxBytes >= Cap /\ ~s.closed
  /\ s.rxBytes < Cap + MaxChunk
  /\ s.pump = "reading" => s.rxBytes < Cap
  /\ (s.eof \/ s.readErr) => s.pump = "ended"
  /\ s.told => s.rxChunks = <<>> /\ s.pump = "ended"

LEMMA Positive ==
  /\ Cap \in Nat /\ MaxResp \in Nat /\ MaxChunk \in Nat /\ NBytes \in Nat
  /\ Cap > 0 /\ MaxResp > 0 /\ MaxChunk > 0 /\ NBytes > 0
BY HubAssumption

\* The bytes answered and those buffered are as many as were read.
LEMMA SoundCounts ==
  ASSUME NEW s, Sound(s)
  PROVE  /\ Bytes(s.rxChunks) \in Seq(1 .. NBytes) /\ s.taken \in Seq(1 .. NBytes)
         /\ Len(s.taken) \in Nat /\ s.rxBytes \in Nat /\ s.got \in Nat
         /\ Len(s.taken) + s.rxBytes = s.got
<1>1. s.rxChunks \in Seq(Seq(1 .. NBytes)) /\ s.taken \in Seq(1 .. NBytes) /\ s.got \in Nat
  BY Positive DEF Sound, Sessions
<1>2. Bytes(s.rxChunks) \in Seq(1 .. NBytes)
  BY <1>1, FlattenType DEF Bytes
<1> DEFINE b == Bytes(s.rxChunks)
           a == s.taken
<1>3. Len(a \o b) = Len(a) + Len(b)
  BY <1>1, <1>2, ConcatProperties
<1>4. Len(a) \in Nat /\ Len(b) \in Nat
  BY <1>1, <1>2
<1>5. Len([i \in 1 .. s.got |-> i]) = s.got
  BY <1>1
<1>6. s.rxBytes = Len(b) /\ a \o b = [i \in 1 .. s.got |-> i]
  BY DEF Sound
<1> HIDE DEF a, b
<1>7. Len(a) + s.rxBytes = s.got /\ s.rxBytes \in Nat
  BY <1>3, <1>4, <1>5, <1>6
<1> QED
  BY <1>1, <1>2, <1>4, <1>7 DEF a

LEMMA NewIsSound == None \notin Requests => Sound(New)
<1>1. Bytes(<<>>) = <<>> /\ Len(<<>>) = 0
  BY FlattenEmpty DEF Bytes
<1>2. New \in Sessions
  BY Positive DEF New, Sessions
<1>3. /\ New.rxChunks = <<>> /\ New.rxBytes = 0 /\ New.taken = <<>> /\ New.got = 0
      /\ New.eof = FALSE /\ New.readErr = FALSE /\ New.drainWaiter = FALSE
      /\ New.told = FALSE /\ New.pump = "check"
  BY DEF New
<1>4. <<>> \o <<>> = <<>> /\ [i \in 1 .. 0 |-> i] = <<>>
  OBVIOUS
<1>5. New.taken \o Bytes(New.rxChunks) = [i \in 1 .. New.got |-> i]
  BY <1>1, <1>3, <1>4
<1>6. New.rxBytes = Len(Bytes(New.rxChunks)) /\ New.rxBytes < Cap + MaxChunk
  BY <1>1, <1>3, Positive
<1> QED
  BY <1>2, <1>3, <1>5, <1>6 DEF Sound

\* A change that leaves the stream alone: the pump may end, a paused one may
\* be woken.
LEMMA SameIsSound ==
  ASSUME NEW s, Sound(s), NEW u \in Sessions,
         u.rxChunks = s.rxChunks, u.rxBytes = s.rxBytes, u.taken = s.taken, u.got = s.got,
         u.told = s.told, u.eof = s.eof, u.readErr = s.readErr,
         u.pump \in {s.pump, "ended"},
         u.drainWaiter => s.drainWaiter /\ u.closed = s.closed
  PROVE  Sound(u)
BY DEF Sound

LEMMA UnmadeIsSound ==
  ASSUME NEW s, Sound(s)
  PROVE  Sound(Unmade(s))
<1>1. s \in Sessions
  BY DEF Sound
<1>2. Unmade(s) \in Sessions
  BY <1>1 DEF Unmade, Sessions
<1>3. /\ Unmade(s).rxChunks = s.rxChunks /\ Unmade(s).rxBytes = s.rxBytes
      /\ Unmade(s).taken = s.taken /\ Unmade(s).got = s.got
      /\ Unmade(s).told = s.told /\ Unmade(s).eof = s.eof /\ Unmade(s).readErr = s.readErr
      /\ Unmade(s).pump = s.pump /\ Unmade(s).drainWaiter = FALSE
  BY <1>1 DEF Unmade, Sessions
<1> QED
  BY <1>2, <1>3, SameIsSound

\* A drain moves bytes from the buffer to what is answered and wakes the pump.
LEMMA DrainedIsSound ==
  ASSUME NEW s, Sound(s), s.rxChunks # <<>>
  PROVE  Sound(Drained(s)) /\ Drained(s).rxWaiter = s.rxWaiter
         /\ Drained(s).writeMu = s.writeMu /\ Drained(s).writer = s.writer
<1> DEFINE all == Bytes(s.rxChunks)
           sent == Sent(s)
           left == Bytes(Rest(s.rxChunks))
           bytes == s.rxBytes - Len(sent)
           want == s.drainWaiter /\ bytes >= Cap
           d == Drained(s)
           N == 1 .. NBytes
<1>1. s \in Sessions /\ s.rxChunks \in Seq(Seq(N))
  BY DEF Sound, Sessions
<1>2. /\ Rest(s.rxChunks) \in Seq(Seq(N)) /\ sent \in Seq(N) /\ left \in Seq(N)
      /\ all \in Seq(N) /\ all = sent \o left
  <2> DEFINE cs == s.rxChunks
  <2>1. sent = First(cs)
    BY DEF Sent, First
  <2>2. MaxResp \in Nat /\ all = Bytes(cs) /\ cs \in Seq(Seq(N)) /\ left = Bytes(Rest(cs))
    BY <1>1, Positive
  <2> HIDE DEF all, sent, left, N, cs
  <2>3. /\ Rest(cs) \in Seq(Seq(N)) /\ First(cs) \in Seq(N) /\ Bytes(Rest(cs)) \in Seq(N)
        /\ Bytes(cs) \in Seq(N) /\ Bytes(cs) = First(cs) \o Bytes(Rest(cs))
    BY <2>2, RestIs
  <2> QED
    BY <2>1, <2>2, <2>3 DEF cs
<1>3. /\ s.taken \in Seq(N) /\ Len(s.taken) \in Nat /\ s.rxBytes \in Nat /\ s.got \in Nat
      /\ Len(s.taken) + s.rxBytes = s.got
  BY SoundCounts
<1>4. Len(all) = Len(sent) + Len(left) /\ Len(sent) \in Nat /\ Len(left) \in Nat
  BY <1>2, ConcatProperties
<1>5. s.rxBytes = Len(all) /\ s.taken \o all = [i \in 1 .. s.got |-> i]
  BY DEF Sound
<1>6. bytes = Len(left) /\ bytes \in 0 .. NBytes /\ bytes <= s.rxBytes
  <2>1. s.rxBytes \in 0 .. NBytes
    BY <1>1 DEF Sessions
  <2> HIDE DEF all, sent, left
  <2> QED
    BY <1>4, <1>5, <2>1, Positive
<1>7. d = [s EXCEPT !.rxChunks = Rest(s.rxChunks), !.rxBytes = bytes,
                    !.taken = s.taken \o sent, !.drainWaiter = want]
  BY DEF Drained
<1>8. s.taken \o sent \in Seq(N) /\ (s.taken \o sent) \o left = s.taken \o all
  <2> HIDE DEF all, sent, left
  <2>1. s.taken \o sent \in Seq(N)
    BY <1>2, <1>3, ConcatProperties
  <2> DEFINE a == s.taken
  <2>2. a \in Seq(N)
    BY <1>3
  <2> HIDE DEF a, N
  <2>3. (a \o sent) \o left = a \o (sent \o left)
    BY <1>2, <2>2, ConcatAssociative
  <2> QED
    BY <1>2, <2>1, <2>3 DEF a
<1> HIDE DEF all, sent, left, bytes, d
<1>9. want \in BOOLEAN
  OBVIOUS
<1> HIDE DEF want
<1>10. d \in Sessions
  BY <1>1, <1>2, <1>6, <1>7, <1>8, <1>9 DEF Sessions
<1>11. /\ d.rxChunks = Rest(s.rxChunks) /\ d.rxBytes = bytes /\ d.taken = s.taken \o sent
       /\ d.drainWaiter = want
  BY <1>1, <1>7 DEF Sessions
<1>12. /\ d.got = s.got /\ d.closed = s.closed /\ d.pump = s.pump
       /\ d.eof = s.eof /\ d.readErr = s.readErr /\ d.told = s.told
  BY <1>1, <1>7 DEF Sessions
<1>13. d.rxWaiter = s.rxWaiter /\ d.writeMu = s.writeMu /\ d.writer = s.writer
  BY <1>1, <1>7 DEF Sessions
<1>14. d.rxBytes = Len(Bytes(d.rxChunks))
  BY <1>6, <1>11 DEF left
<1>15. d.taken \o Bytes(d.rxChunks) = [i \in 1 .. d.got |-> i]
  BY <1>5, <1>8, <1>11, <1>12 DEF left
<1>16. d.drainWaiter => d.rxBytes >= Cap /\ ~d.closed
  BY <1>11, <1>12 DEF want, Sound
<1>17. d.rxBytes < Cap + MaxChunk /\ (d.pump = "reading" => d.rxBytes < Cap)
  <2>1. s.rxBytes < Cap + MaxChunk /\ (s.pump = "reading" => s.rxBytes < Cap)
    BY DEF Sound
  <2> QED
    BY <1>3, <1>6, <1>11, <1>12, <2>1, Positive
<1>18. ((d.eof \/ d.readErr) => d.pump = "ended") /\ ~d.told
  BY <1>12 DEF Sound
<1> QED
  BY <1>10, <1>13, <1>14, <1>15, <1>16, <1>17, <1>18 DEF Sound, d

\* The session as the pump leaves it.
Looked(s) == IF s.closed THEN [s EXCEPT !.pump = "ended"]
             ELSE IF s.rxBytes >= Cap THEN [s EXCEPT !.pump = "paused", !.drainWaiter = TRUE]
             ELSE [s EXCEPT !.pump = "reading"]
Chunk(s, n) == [i \in 1 .. n |-> s.got + i]
HasRead(s, n) ==
  [s EXCEPT !.rxChunks = Append(@, Chunk(s, n)), !.rxBytes = @ + n, !.got = @ + n,
            !.pump = "check", !.rxWaiter = None]
HasEnded(s) == [s EXCEPT !.eof = TRUE, !.pump = "ended", !.rxWaiter = None]
HasFailed(s) == [s EXCEPT !.readErr = TRUE, !.pump = "ended", !.rxWaiter = None]

\* The pump pauses on a full buffer of an open session and reads on a lower one.
LEMMA LookedIsSound ==
  ASSUME NEW s, Sound(s), s.pump \in {"check", "paused"}
  PROVE  Sound(Looked(s)) /\ Looked(s).rxWaiter = s.rxWaiter
         /\ Looked(s).writeMu = s.writeMu /\ Looked(s).writer = s.writer
<1>1. s \in Sessions /\ s.rxBytes \in Nat /\ ~s.told /\ ~s.eof /\ ~s.readErr
  BY SoundCounts DEF Sound, Sessions
<1> DEFINE u == Looked(s)
<1>2. u \in Sessions
  BY <1>1 DEF Looked, Sessions
<1>3. /\ u.rxChunks = s.rxChunks /\ u.rxBytes = s.rxBytes /\ u.taken = s.taken
      /\ u.got = s.got /\ u.told = s.told /\ u.eof = s.eof /\ u.readErr = s.readErr
      /\ u.closed = s.closed
  BY <1>1 DEF Looked, Sessions
<1>4. u.rxWaiter = s.rxWaiter /\ u.writeMu = s.writeMu /\ u.writer = s.writer
  BY <1>1 DEF Looked, Sessions
<1>5. (u.pump = "reading" => u.rxBytes < Cap)
      /\ (u.drainWaiter => u.rxBytes >= Cap /\ ~u.closed)
  <2>1. CASE s.closed
    <3>1. u.pump = "ended" /\ u.drainWaiter = s.drainWaiter
      BY <1>1, <2>1 DEF Looked, Sessions
    <3> QED
      BY <1>3, <2>1, <3>1 DEF Sound
  <2>2. CASE ~s.closed /\ s.rxBytes >= Cap
    <3>1. u.pump = "paused"
      BY <1>1, <2>2 DEF Looked, Sessions
    <3> QED
      BY <1>3, <2>2, <3>1
  <2>3. CASE ~s.closed /\ ~(s.rxBytes >= Cap)
    <3>1. u.drainWaiter = s.drainWaiter
      BY <1>1, <2>3 DEF Looked, Sessions
    <3>2. s.rxBytes < Cap
      BY <1>1, <2>3, Positive
    <3> QED
      BY <1>3, <3>1, <3>2 DEF Sound
  <2> QED
    BY <2>1, <2>2, <2>3
<1> HIDE DEF u
<1>6. Sound(u)
  BY <1>1, <1>2, <1>3, <1>5 DEF Sound
<1> QED
  BY <1>4, <1>6 DEF u

\* What is read goes to the end of the buffer, which had room.
LEMMA HasReadIsSound ==
  ASSUME NEW s, Sound(s), s.pump = "reading", NEW n \in 1 .. MaxChunk, s.got + n <= NBytes,
         None \notin Requests
  PROVE  Sound(HasRead(s, n)) /\ HasRead(s, n).rxWaiter = None
         /\ HasRead(s, n).writeMu = s.writeMu /\ HasRead(s, n).writer = s.writer
<1> DEFINE N == 1 .. NBytes
           cs == s.rxChunks
           c == Chunk(s, n)
           u == HasRead(s, n)
<1>1. /\ s \in Sessions /\ cs \in Seq(Seq(N)) /\ s.rxBytes < Cap
      /\ ~s.eof /\ ~s.readErr /\ ~s.told
  BY DEF Sound, Sessions
<1>2. /\ Bytes(cs) \in Seq(N) /\ s.taken \in Seq(N) /\ Len(s.taken) \in Nat
      /\ s.rxBytes \in Nat /\ s.got \in Nat /\ Len(s.taken) + s.rxBytes = s.got
  BY SoundCounts
<1>3. n \in Nat /\ n <= MaxChunk /\ n >= 1
  BY Positive
<1>4. c \in Seq(N) /\ Len(c) = n /\ \A i \in 1 .. n : c[i] = s.got + i
  <2> DEFINE g == s.got
  <2>1. g \in Nat /\ g + n <= NBytes /\ NBytes \in Nat /\ n \in Nat
    BY <1>2, <1>3, Positive
  <2> HIDE DEF g
  <2>2. \A i \in 1 .. n : g + i \in 1 .. NBytes
    BY <2>1
  <2>3. \A i \in 1 .. n : s.got + i \in N
    BY <2>2 DEF g
  <2> QED
    BY <1>3, <2>3 DEF Chunk
<1>5. Append(cs, c) \in Seq(Seq(N))
  BY <1>1, <1>4
<1>6. Bytes(Append(cs, c)) = Bytes(cs) \o c
  BY <1>1, <1>4, FlattenAppend DEF Bytes
<1>7. s.rxBytes = Len(Bytes(cs)) /\ s.taken \o Bytes(cs) = [i \in 1 .. s.got |-> i]
  BY DEF Sound
<1>8. u = [s EXCEPT !.rxChunks = Append(cs, c), !.rxBytes = s.rxBytes + n,
                    !.got = s.got + n, !.pump = "check", !.rxWaiter = None]
  BY DEF HasRead
<1> HIDE DEF c, u
<1>9. s.rxBytes + n \in 0 .. NBytes /\ s.got + n \in 0 .. NBytes
  <2>1. s.got + n <= NBytes /\ NBytes \in Nat
    BY Positive
  <2> DEFINE b == s.rxBytes
             g == s.got
             a == Len(s.taken)
  <2>2. a \in Nat /\ b \in Nat /\ g \in Nat /\ a + b = g
    BY <1>2
  <2> HIDE DEF a, b, g
  <2>3. g + n <= NBytes
    BY <2>1 DEF g
  <2>4. b + n \in 0 .. NBytes /\ g + n \in 0 .. NBytes
    BY <1>3, <2>1, <2>2, <2>3
  <2> QED
    BY <2>4 DEF b, g
<1>10. u \in Sessions
  BY <1>1, <1>5, <1>8, <1>9 DEF Sessions
<1>11. /\ u.rxChunks = Append(cs, c) /\ u.rxBytes = s.rxBytes + n /\ u.got = s.got + n
       /\ u.pump = "check" /\ u.rxWaiter = None /\ u.taken = s.taken
  BY <1>1, <1>8 DEF Sessions
<1>12. /\ u.drainWaiter = s.drainWaiter /\ u.told = s.told
       /\ u.eof = s.eof /\ u.readErr = s.readErr /\ u.writeMu = s.writeMu
       /\ u.writer = s.writer
  BY <1>1, <1>8 DEF Sessions
<1>13. u.rxBytes = Len(Bytes(u.rxChunks))
  <2> DEFINE b == Bytes(cs)
  <2> HIDE DEF b
  <2>1. Len(b \o c) = Len(b) + Len(c)
    BY <1>2, <1>4, ConcatProperties DEF b
  <2> QED
    BY <1>4, <1>6, <1>7, <1>11, <2>1 DEF b
<1>14. u.taken \o Bytes(u.rxChunks) = [i \in 1 .. u.got |-> i]
  <2> DEFINE a == s.taken
             b == Bytes(cs)
             ab == a \o b
             g == s.got
  <2>1. a \in Seq(N) /\ b \in Seq(N) /\ g \in Nat /\ ab = [i \in 1 .. g |-> i]
        /\ c \in Seq(N) /\ \A i \in 1 .. n : c[i] = g + i
    BY <1>2, <1>4, <1>7
  <2> HIDE DEF a, b, g, N
  <2>2. a \o (b \o c) = ab \o c
    <3>1. a \in Seq(N) /\ b \in Seq(N) /\ c \in Seq(N)
      BY <2>1
    <3>2. (a \o b) \o c = a \o (b \o c)
      BY <3>1, ConcatAssociative
    <3> QED
      BY <3>2
  <2>3. ab \in Seq(N)
    BY <2>1, ConcatProperties
  <2> HIDE DEF ab
  <2>4. Len(ab) = g /\ \A i \in 1 .. g : ab[i] = i
    BY <2>1
  <2>5. ab \o c \in Seq(N) /\ Len(ab \o c) = g + n
        /\ \A i \in 1 .. g + n : (ab \o c)[i] = IF i <= g THEN ab[i] ELSE c[i - g]
    <3>1. c \in Seq(N) /\ Len(c) = n /\ Len(ab) = g
      BY <1>4, <2>1, <2>4
    <3>2. /\ ab \o c \in Seq(N) /\ Len(ab \o c) = Len(ab) + Len(c)
          /\ \A i \in 1 .. Len(ab) + Len(c) :
               (ab \o c)[i] = IF i <= Len(ab) THEN ab[i] ELSE c[i - Len(ab)]
      BY <2>3, <3>1, ConcatProperties
    <3> QED
      BY <3>1, <3>2
  <2>6. ASSUME NEW i \in 1 .. g + n PROVE (ab \o c)[i] = i
    <3>1. CASE i <= g
      <4>1. i \in 1 .. g
        BY <1>3, <2>1, <3>1
      <4> QED
        BY <2>4, <2>5, <3>1, <4>1
    <3>2. CASE ~(i <= g)
      <4>1. i - g \in 1 .. n /\ g + (i - g) = i
        BY <1>3, <2>1, <3>2
      <4> QED
        BY <2>1, <2>5, <3>2, <4>1
    <3> QED
      BY <3>1, <3>2
  <2>7. ab \o c = [i \in 1 .. g + n |-> i]
    <3> DEFINE w == ab \o c
    <3>1. w \in Seq(N) /\ Len(w) = g + n /\ \A i \in 1 .. g + n : w[i] = i
      BY <2>5, <2>6
    <3> HIDE DEF w
    <3>2. w = [i \in 1 .. g + n |-> i]
      BY <3>1
    <3> QED
      BY <3>2 DEF w
  <2> QED
    BY <1>6, <1>11, <2>2, <2>7 DEF a, b, g
<1>15. ~u.drainWaiter
  <2>1. s.drainWaiter => s.rxBytes >= Cap
    BY DEF Sound
  <2>2. Cap \in Nat
    BY Positive
  <2> QED
    BY <1>1, <1>2, <1>12, <2>1, <2>2
<1>16. u.rxBytes < Cap + MaxChunk
  BY <1>1, <1>2, <1>3, <1>11, Positive
<1> QED
  BY <1>1, <1>10, <1>11, <1>12, <1>13, <1>14, <1>15, <1>16 DEF Sound, u

LEMMA HasEndedIsSound ==
  ASSUME NEW s, Sound(s), s.pump = "reading", None \notin Requests
  PROVE  /\ Sound(HasEnded(s)) /\ HasEnded(s).rxWaiter = None
         /\ HasEnded(s).writeMu = s.writeMu /\ HasEnded(s).writer = s.writer
         /\ Sound(HasFailed(s)) /\ HasFailed(s).rxWaiter = None
         /\ HasFailed(s).writeMu = s.writeMu /\ HasFailed(s).writer = s.writer
<1>1. s \in Sessions
  BY DEF Sound
<1> DEFINE u == HasEnded(s)
           v == HasFailed(s)
<1>2. u \in Sessions /\ v \in Sessions
  BY <1>1 DEF HasEnded, HasFailed, Sessions
<1>3. /\ u.rxChunks = s.rxChunks /\ u.rxBytes = s.rxBytes /\ u.taken = s.taken
      /\ u.got = s.got /\ u.told = s.told /\ u.closed = s.closed
      /\ u.drainWaiter = s.drainWaiter /\ u.pump = "ended" /\ u.rxWaiter = None
      /\ u.writeMu = s.writeMu /\ u.writer = s.writer
  BY <1>1 DEF HasEnded, Sessions
<1>4. /\ v.rxChunks = s.rxChunks /\ v.rxBytes = s.rxBytes /\ v.taken = s.taken
      /\ v.got = s.got /\ v.told = s.told /\ v.closed = s.closed
      /\ v.drainWaiter = s.drainWaiter /\ v.pump = "ended" /\ v.rxWaiter = None
      /\ v.writeMu = s.writeMu /\ v.writer = s.writer
  BY <1>1 DEF HasFailed, Sessions
<1> HIDE DEF u, v
<1>5. Sound(u)
  BY <1>2, <1>3 DEF Sound
<1>6. Sound(v)
  BY <1>2, <1>4 DEF Sound
<1> QED
  BY <1>3, <1>4, <1>5, <1>6 DEF u, v

-----------------------------------------------------------------------------
(* The sessions and the requests on them.                                  *)

Thread == [pc : Labels, ops : Seq({"open", "tx", "rx", "close"}), id : Ids,
           obj : Objs \cup {None}, fails : BOOLEAN]

Waiting == {"rxWait", "rxWoken"}
Held == Waiting \cup {"txWait", "writing", "cancel", "closeWriter", "closeSocket"}

\* Whoever is at a session is at one that exists, and a request in progress has
\* an operation left.
Placed(t, x, ss) ==
  /\ x \in Thread
  /\ x.pc \in Held => x.obj \in DOMAIN ss
  /\ t \in Requests /\ x.pc # "idle" => x.ops # <<>>

\* The waiter of session o waits, and for that session.
Waits(x, o) == x.pc \in Waiting /\ x.obj = o

\* r holds the write mutex of a session whose writer is open.
Writes(r, s) == s.writeMu # <<>> /\ Head(s.writeMu) = r /\ s.writer = "open"

Store(ss) ==
  /\ DOMAIN ss \subseteq Objs /\ ss = [o \in DOMAIN ss |-> ss[o]]
  /\ \A o \in DOMAIN ss : Sound(ss[o])
Standing(ss, threads) ==
  /\ threads = [t \in Threads |-> threads[t]]
  /\ \A t \in Threads : Placed(t, threads[t], ss)
Waiters(ss, threads) ==
  \A o \in DOMAIN ss : ss[o].rxWaiter # None => Waits(threads[ss[o].rxWaiter], o)
\* w has left its write or is about to.
Writers(ss, threads, w) ==
  \A r \in Requests \ {w} : threads[r].pc = "writing" => Writes(r, ss[threads[r].obj])

Fine(ss, threads, w) ==
  Store(ss) /\ Standing(ss, threads) /\ Waiters(ss, threads) /\ Writers(ss, threads, w)

Named(ids, ss) ==
  /\ ids \in [Ids -> Objs \cup {None}]
  /\ \A i \in Ids : ids[i] # None => ids[i] \in DOMAIN ss

IInv ==
  /\ Named(sessions, sess) /\ Fine(sess, th, None) /\ SweepWillRun
  /\ alarm \in BOOLEAN /\ visited \subseteq Ids /\ evicted \in 0 .. MaxEvict

LEMMA Distinct ==
  /\ None \notin Requests /\ None \notin Objs /\ Alarm \notin Requests /\ Alarm # None
  /\ Alarm \in Threads /\ Requests \subseteq Threads
  /\ \A t \in Threads : t # Alarm => t \in Requests
BY HubAssumption DEF Threads

LEMMA WaiterIs ==
  ASSUME NEW s, Sound(s)
  PROVE  s \in Sessions /\ s.rxWaiter \in Requests \cup {None}
BY DEF Sound, Sessions

\* Anybody may be set aside.
LEMMA Weaker ==
  ASSUME NEW ss, NEW threads, NEW w, Fine(ss, threads, None)
  PROVE  Fine(ss, threads, w)
BY Distinct DEF Fine, Writers

\* Thread t goes somewhere else.
LEMMA MoveKeeps ==
  ASSUME NEW ss, NEW threads, NEW t \in Threads, Fine(ss, threads, t),
         NEW x, Placed(t, x, ss),
         \/ threads[t].pc \notin Waiting
         \/ x.pc \in Waiting /\ x.obj = threads[t].obj
         \/ \A o \in DOMAIN ss : ss[o].rxWaiter # t,
         x.pc = "writing" => Writes(t, ss[x.obj])
  PROVE  Fine(ss, [threads EXCEPT ![t] = x], None)
<1> DEFINE new == [threads EXCEPT ![t] = x]
<1>1. Store(ss) /\ Standing(ss, threads) /\ Waiters(ss, threads) /\ Writers(ss, threads, t)
  BY DEF Fine
<1>2. new[t] = x /\ \A u \in Threads \ {t} : new[u] = threads[u]
  BY <1>1 DEF Standing
<1>3. Standing(ss, new)
  <2>1. new = [u \in Threads |-> new[u]]
    BY <1>1 DEF Standing
  <2>2. \A u \in Threads : Placed(u, threads[u], ss)
    BY <1>1 DEF Standing
  <2> HIDE DEF new
  <2> QED
    BY <1>2, <2>1, <2>2 DEF Standing
<1> HIDE DEF new
<1>4. Waiters(ss, new)
  <2> SUFFICES ASSUME NEW o \in DOMAIN ss, ss[o].rxWaiter # None
               PROVE  Waits(new[ss[o].rxWaiter], o)
    BY DEF Waiters
  <2>1. Waits(threads[ss[o].rxWaiter], o) /\ ss[o].rxWaiter \in Requests
    BY <1>1, WaiterIs DEF Waiters, Store
  <2>2. CASE ss[o].rxWaiter = t
    BY <1>2, <2>1, <2>2 DEF Waits
  <2>3. CASE ss[o].rxWaiter # t
    BY <1>2, <2>1, <2>3, Distinct
  <2> QED
    BY <2>2, <2>3
<1>5. Writers(ss, new, None)
  <2> SUFFICES ASSUME NEW r \in Requests, new[r].pc = "writing"
               PROVE  Writes(r, ss[new[r].obj])
    BY DEF Writers
  <2>1. CASE r = t
    BY <1>2, <2>1
  <2>2. CASE r # t
    <3>1. new[r] = threads[r]
      BY <1>2, <2>2, Distinct
    <3> QED
      BY <1>1, <2>2, <3>1 DEF Writers
  <2> QED
    BY <2>1, <2>2
<1> QED
  BY <1>1, <1>3, <1>4, <1>5 DEF Fine, new

\* Session o changes.
LEMMA SessionKeeps ==
  ASSUME NEW ss, NEW threads, NEW w, Fine(ss, threads, w),
         NEW o \in DOMAIN ss, NEW s, Sound(s),
         \/ s.rxWaiter \in {None, ss[o].rxWaiter}
         \/ Waits(threads[s.rxWaiter], o),
         \A r \in Requests \ {w} :
           threads[r].pc = "writing" /\ threads[r].obj = o /\ Writes(r, ss[o]) => Writes(r, s)
  PROVE  Fine([ss EXCEPT ![o] = s], threads, w)
<1> DEFINE new == [ss EXCEPT ![o] = s]
<1>1. Store(ss) /\ Standing(ss, threads) /\ Waiters(ss, threads) /\ Writers(ss, threads, w)
  BY DEF Fine
<1>2. /\ DOMAIN new = DOMAIN ss /\ new[o] = s
      /\ \A p \in DOMAIN ss \ {o} : new[p] = ss[p]
      /\ new = [p \in DOMAIN new |-> new[p]]
  OBVIOUS
<1> HIDE DEF new
<1>3. Store(new)
  BY <1>1, <1>2 DEF Store
<1>4. Standing(new, threads)
  BY <1>1, <1>2 DEF Standing, Placed
<1>5. Waiters(new, threads)
  BY <1>1, <1>2 DEF Waiters
<1>6. Writers(new, threads, w)
  <2> SUFFICES ASSUME NEW r \in Requests \ {w}, threads[r].pc = "writing"
               PROVE  Writes(r, new[threads[r].obj])
    BY DEF Writers
  <2>1. Writes(r, ss[threads[r].obj])
    BY <1>1 DEF Writers
  <2>2. threads[r].obj \in DOMAIN ss
    BY <1>1, Distinct DEF Standing, Placed, Held
  <2> QED
    BY <1>2, <2>1, <2>2
<1> QED
  BY <1>3, <1>4, <1>5, <1>6 DEF Fine, new

\* The waiter of a session is woken.
LEMMA WakeKeeps ==
  ASSUME NEW ss, NEW w, Fine(ss, th, w), NEW o \in DOMAIN ss
  PROVE  /\ Fine(ss, Woken(ss[o]), w)
         /\ \A u \in Threads : \/ Woken(ss[o])[u] = th[u]
                               \/ /\ th[u].pc \in Waiting /\ u # Alarm
                                  /\ Woken(ss[o])[u].pc \in Waiting
<1> DEFINE q == ss[o].rxWaiter
           new == [th EXCEPT ![q].pc = "rxWoken"]
<1>1. Store(ss) /\ Standing(ss, th) /\ Waiters(ss, th) /\ Writers(ss, th, w)
  BY DEF Fine
<1>2. q \in Requests \cup {None} /\ (q # None => Waits(th[q], o))
  BY <1>1, WaiterIs DEF Store, Waiters
<1>3. CASE q = None
  BY <1>3 DEF Woken
<1>4. CASE q # None
  <2>1. q \in Threads /\ q \in Requests /\ th[q].pc \in Waiting /\ th[q].obj = o /\ q # Alarm
    BY <1>2, <1>4, Distinct DEF Waits
  <2> HIDE DEF q
  <2>2. new = [u \in Threads |-> new[u]] /\ new[q] = [th[q] EXCEPT !.pc = "rxWoken"]
        /\ \A u \in Threads \ {q} : new[u] = th[u]
    BY <1>1, <2>1 DEF Standing
  <2> HIDE DEF new
  <2>3. th[q] \in Thread
    BY <1>1, <2>1 DEF Standing, Placed
  <2>4. new[q] \in Thread /\ new[q].pc = "rxWoken" /\ new[q].ops = th[q].ops
        /\ new[q].obj = th[q].obj
    BY <2>2, <2>3 DEF Thread, Labels
  <2>5. Placed(q, new[q], ss)
    <3>1. Placed(q, th[q], ss)
      BY <1>1, <2>1 DEF Standing
    <3> QED
      BY <2>1, <2>4, <3>1 DEF Placed, Waiting, Held
  <2>6. Standing(ss, new)
    BY <1>1, <2>2, <2>5 DEF Standing
  <2>7. Waiters(ss, new)
    <3> SUFFICES ASSUME NEW p \in DOMAIN ss, ss[p].rxWaiter # None
                 PROVE  Waits(new[ss[p].rxWaiter], p)
      BY DEF Waiters
    <3>1. Waits(th[ss[p].rxWaiter], p) /\ ss[p].rxWaiter \in Threads
      BY <1>1, WaiterIs, Distinct DEF Waiters, Store
    <3>2. CASE ss[p].rxWaiter = q
      BY <2>4, <3>1, <3>2 DEF Waits, Waiting
    <3>3. CASE ss[p].rxWaiter # q
      BY <2>2, <3>1, <3>3
    <3> QED
      BY <3>2, <3>3
  <2>8. Writers(ss, new, w)
    <3> SUFFICES ASSUME NEW r \in Requests \ {w}, new[r].pc = "writing"
                 PROVE  Writes(r, ss[new[r].obj])
      BY DEF Writers
    <3>1. r # q
      BY <2>4
    <3>2. new[r] = th[r]
      BY <2>2, <3>1, Distinct
    <3> QED
      BY <1>1, <3>2 DEF Writers
  <2>9. Woken(ss[o]) = new
    BY <1>4 DEF Woken, new, q
  <2>10. \A u \in Threads : new[u] = th[u] \/ (th[u].pc \in Waiting /\ u # Alarm /\ new[u].pc \in Waiting)
    BY <2>1, <2>2, <2>4 DEF Waiting
  <2> QED
    BY <1>1, <2>6, <2>7, <2>8, <2>9, <2>10 DEF Fine
<1> QED
  BY <1>3, <1>4

\* A session is marked closed and its waiter woken; t, who closes it, goes on.
LEMMA UnmakeKeeps ==
  ASSUME NEW ss, NEW t \in Threads, Fine(ss, th, t), NEW o \in DOMAIN ss,
         NEW x, Placed(t, x, ss), x.pc = "cancel",
         \A p \in DOMAIN ss : ss[p].rxWaiter # t
  PROVE  Fine([ss EXCEPT ![o] = Unmade(@)], [Woken(ss[o]) EXCEPT ![t] = x], None)
<1>1. Fine(ss, Woken(ss[o]), t)
  BY WakeKeeps
<1> DEFINE threads == [Woken(ss[o]) EXCEPT ![t] = x]
<1>2. Fine(ss, threads, None)
  BY <1>1, MoveKeeps
<1> HIDE DEF threads
<1>3. Sound(ss[o]) /\ ss[o] \in Sessions
  BY <1>1 DEF Fine, Store, Sound
<1>4. Unmade(ss[o]).rxWaiter = None /\ Unmade(ss[o]).writeMu = ss[o].writeMu
      /\ Unmade(ss[o]).writer = ss[o].writer
  BY <1>3 DEF Unmade, Sessions
<1>5. Sound(Unmade(ss[o]))
  BY <1>3, UnmadeIsSound
<1>6. Fine([ss EXCEPT ![o] = Unmade(ss[o])], threads, None)
  BY <1>2, <1>4, <1>5, SessionKeeps DEF Writes
<1> QED
  BY <1>6 DEF threads

LEMMA AtRestIs ==
  AtRest \in Thread /\ AtRest.pc = "idle" /\ AtRest.obj = None /\ AtRest.fails = FALSE
<1>1. (CHOOSE i \in Ids : TRUE) \in Ids
  BY HubAssumption
<1> QED
  BY <1>1 DEF AtRest, Thread, Labels

\* A request that has its answer goes to its next operation or rests.
LEMMA AnsweredIs ==
  ASSUME NEW ss, NEW r \in Requests, Placed(r, th[r], ss), th[r].pc # "idle", NEW bad \in BOOLEAN
  PROVE  Placed(r, Answered(r, bad), ss) /\ Answered(r, bad).pc \in {"idle", "op"}
<1> DEFINE x == th[r]
           y == [x EXCEPT !.pc = "op", !.ops = Tail(@), !.obj = None, !.fails = FALSE]
           Ops == {"open", "tx", "rx", "close"}
<1>1. CASE bad \/ Len(x.ops) = 1
  <2>1. Answered(r, bad) = AtRest
    BY <1>1 DEF Answered
  <2> QED
    BY <2>1, AtRestIs DEF Placed, Held, Waiting
<1>2. CASE ~(bad \/ Len(x.ops) = 1)
  <2>1. Answered(r, bad) = y
    BY <1>2 DEF Answered
  <2>2. x \in Thread /\ x.ops # <<>> /\ x.ops \in Seq(Ops)
    BY Distinct DEF Placed, Thread
  <2>3. Tail(x.ops) \in Seq(Ops) /\ Tail(x.ops) # <<>>
    <3> DEFINE q == x.ops
    <3>1. q \in Seq(Ops) /\ q # <<>> /\ Len(q) # 1
      BY <1>2, <2>2
    <3> HIDE DEF q, Ops
    <3>2. Len(q) \in Nat /\ Len(q) # 0
      BY <3>1
    <3>3. Tail(q) \in Seq(Ops) /\ Len(Tail(q)) = Len(q) - 1
      BY <3>1, HeadTailProperties
    <3>4. Len(Tail(q)) # 0 /\ Len(<<>>) = 0
      BY <3>1, <3>2, <3>3
    <3>5. Tail(q) # <<>>
      BY <3>4
    <3> QED
      BY <3>3, <3>5 DEF q
  <2>4. y \in Thread /\ y.pc = "op" /\ y.ops = Tail(x.ops)
    BY <2>2, <2>3 DEF Thread, Labels
  <2> QED
    BY <2>1, <2>3, <2>4 DEF Placed, Held, Waiting
<1> QED
  BY <1>1, <1>2

\* A request ends an operation without touching a session.
LEMMA AnswerKeeps ==
  ASSUME NEW ss, NEW r \in Requests, Fine(ss, th, r), th[r].pc # "idle", NEW bad \in BOOLEAN,
         th[r].pc \notin Waiting \/ \A o \in DOMAIN ss : ss[o].rxWaiter # r
  PROVE  Fine(ss, [th EXCEPT ![r] = Answered(r, bad)], None)
<1>1. Placed(r, th[r], ss)
  BY Distinct DEF Fine, Standing
<1>2. Placed(r, Answered(r, bad), ss) /\ Answered(r, bad).pc \in {"idle", "op"}
  BY <1>1, AnsweredIs
<1> QED
  BY <1>2, Distinct, MoveKeeps

\* A session whose rx is in its waiter slot cannot have r there.
LEMMA NotWaiting ==
  ASSUME NEW ss, NEW threads, NEW w, Fine(ss, threads, w), NEW t \in Threads,
         threads[t].pc \notin Waiting
  PROVE  \A o \in DOMAIN ss : ss[o].rxWaiter # t
BY Distinct DEF Fine, Waiters, Waits, Threads

\* r closes whatever session its id has now.
LEMMA CloseIdKeeps ==
  ASSUME NEW r \in Requests, NEW ss, Fine(ss, th, r), Named(sessions, ss), th[r].pc # "idle",
         \A o \in DOMAIN ss : ss[o].rxWaiter # r, NEW bad \in BOOLEAN, CloseId(r, bad, ss)
  PROVE  Fine(sess', th', None) /\ Named(sessions', sess')
<1> DEFINE i == th[r].id
           o == sessions[i]
<1>1. Placed(r, th[r], ss) /\ r \in Threads /\ th = [t \in Threads |-> th[t]]
  BY Distinct DEF Fine, Standing
<1>2. i \in Ids /\ th[r] \in Thread
  BY <1>1 DEF Placed, Thread
<1>3. CASE o = None
  <2>1. sess' = ss /\ sessions' = sessions /\ th' = [th EXCEPT ![r] = Answered(r, bad)]
    BY <1>3 DEF CloseId, Answer
  <2>2. Fine(ss, [th EXCEPT ![r] = Answered(r, bad)], None)
    BY AnswerKeeps
  <2> QED
    BY <2>1, <2>2
<1>4. CASE o # None
  <2>1. o \in DOMAIN ss /\ o \in Objs
    BY <1>2, <1>4 DEF Named
  <2> DEFINE x == [th[r] EXCEPT !.pc = "cancel", !.obj = o, !.fails = bad]
  <2>2. /\ sessions' = [sessions EXCEPT ![i] = None] /\ sess' = [ss EXCEPT ![o] = Unmade(@)]
        /\ th' = [Woken(ss[o]) EXCEPT ![r].pc = "cancel", ![r].obj = o, ![r].fails = bad]
    BY <1>4 DEF CloseId
  <2>3. x \in Thread /\ x.pc = "cancel" /\ x.obj = o /\ x.ops = th[r].ops
    <3> HIDE DEF o
    <3> QED
      BY <1>2, <2>1 DEF Thread, Labels
  <2>4. Placed(r, x, ss)
    BY <1>1, <2>1, <2>3 DEF Placed
  <2>5. Woken(ss[o])[r] = th[r] /\ Fine(ss, Woken(ss[o]), r)
    <3>1. ss[o].rxWaiter # r
      BY <2>1
    <3>2. Woken(ss[o])[r] = th[r]
      BY <1>1, <3>1 DEF Woken
    <3> QED
      BY <2>1, <3>2, WakeKeeps
  <2>6. th' = [Woken(ss[o]) EXCEPT ![r] = x]
    <3>1. r \in DOMAIN Woken(ss[o])
      BY <1>1, <2>5 DEF Fine, Standing
    <3> HIDE DEF o
    <3> QED
      BY <2>2, <2>5, <3>1
  <2> HIDE DEF x
  <2>7. Fine(sess', th', None)
    <3>1. Fine([ss EXCEPT ![o] = Unmade(@)], [Woken(ss[o]) EXCEPT ![r] = x], None)
      <4> HIDE DEF o
      <4> QED
        BY <1>1, <2>1, <2>3, <2>4, UnmakeKeeps
    <3> QED
      BY <2>2, <2>6, <3>1
  <2>8. Named(sessions', sess')
    BY <2>2 DEF Named
  <2> QED
    BY <2>7, <2>8
<1> QED
  BY <1>3, <1>4

-----------------------------------------------------------------------------
(* What a step leaves alone.                                               *)

Arming == {"getAlarm", "setAlarm"}

\* Others than t stay where they are, or are woken.
OthersStay(t) ==
  \A u \in Threads \ {t} : th'[u] = th[u] \/ (u # Alarm /\ th[u].pc \in Waiting)

\* No id gets a session.
NoneAdded == \A i \in Ids : sessions'[i] # None => sessions[i] # None

\* Only who arms the alarm and the alarm itself bear on the sweep.
LEMMA WatchKeeps ==
  ASSUME SweepWillRun, NEW t \in Threads, OthersStay(t), NoneAdded, alarm' = alarm,
         th[t].pc \notin Arming, t = Alarm => th'[Alarm].pc # "idle"
  PROVE  SweepWillRun'
<1>1. SUFFICES ASSUME \E i \in Ids : sessions'[i] # None
               PROVE  \/ alarm' \/ th'[Alarm].pc # "idle"
                      \/ \E r \in Requests : th'[r].pc \in Arming
  BY DEF SweepWillRun, Arming
<1>2. \/ alarm \/ th[Alarm].pc # "idle"
      \/ \E r \in Requests : th[r].pc \in Arming
  BY <1>1 DEF SweepWillRun, Arming, NoneAdded
<1>3. CASE th[Alarm].pc # "idle"
  <2>1. CASE t = Alarm
    BY <2>1
  <2>2. CASE t # Alarm
    <3>1. th'[Alarm] = th[Alarm]
      BY <2>2, Distinct DEF OthersStay
    <3> QED
      BY <1>3, <3>1
  <2> QED
    BY <2>1, <2>2
<1>4. ASSUME NEW r \in Requests, th[r].pc \in Arming
      PROVE  th'[r].pc \in Arming
  <2>1. r # t /\ r \in Threads /\ th[r].pc \notin Waiting
    BY <1>4, Distinct DEF Arming, Waiting
  <2> QED
    BY <1>4, <2>1 DEF OthersStay
<1> QED
  BY <1>2, <1>3, <1>4

LEMMA MoveStays ==
  ASSUME NEW t \in Threads, NEW x, th = [u \in Threads |-> th[u]], th' = [th EXCEPT ![t] = x]
  PROVE  OthersStay(t) /\ th'[t] = x
BY DEF OthersStay

LEMMA CloseIdStays ==
  ASSUME NEW r \in Requests, NEW ss, Fine(ss, th, r), Named(sessions, ss),
         NEW bad \in BOOLEAN, CloseId(r, bad, ss)
  PROVE  OthersStay(r) /\ NoneAdded
<1> DEFINE i == th[r].id
           o == sessions[i]
<1>1. Placed(r, th[r], ss) /\ r \in Threads /\ th = [t \in Threads |-> th[t]]
  BY Distinct DEF Fine, Standing
<1>2. i \in Ids
  BY <1>1 DEF Placed, Thread
<1>3. CASE o = None
  <2>1. sessions' = sessions /\ th' = [th EXCEPT ![r] = Answered(r, bad)]
    BY <1>3 DEF CloseId, Answer
  <2> QED
    BY <1>1, <2>1, MoveStays DEF NoneAdded
<1>4. CASE o # None
  <2>1. o \in DOMAIN ss
    BY <1>2, <1>4 DEF Named
  <2>2. /\ sessions' = [sessions EXCEPT ![i] = None]
        /\ th' = [Woken(ss[o]) EXCEPT ![r].pc = "cancel", ![r].obj = o, ![r].fails = bad]
    BY <1>4 DEF CloseId
  <2>3. NoneAdded
    BY <2>2 DEF NoneAdded, Named
  <2>4. /\ Fine(ss, Woken(ss[o]), r)
        /\ \A u \in Threads : \/ Woken(ss[o])[u] = th[u]
                              \/ /\ th[u].pc \in Waiting /\ u # Alarm
                                 /\ Woken(ss[o])[u].pc \in Waiting
    BY <2>1, WakeKeeps
  <2>5. \A u \in Threads \ {r} : th'[u] = Woken(ss[o])[u]
    <3> DEFINE k == Woken(ss[o])
    <3>1. k = [u \in Threads |-> k[u]]
      BY <2>4 DEF Fine, Standing
    <3> HIDE DEF k
    <3> QED
      BY <2>2, <3>1 DEF k
  <2> QED
    BY <2>3, <2>4, <2>5 DEF OthersStay
<1> QED
  BY <1>3, <1>4

\* What IInv says of a thread.
LEMMA ThreadIs ==
  ASSUME IInv, NEW t \in Threads
  PROVE  /\ th = [u \in Threads |-> th[u]] /\ Placed(t, th[t], sess) /\ th[t] \in Thread
         /\ th[t].id \in Ids
         /\ th[t].pc \in Held => /\ th[t].obj \in DOMAIN sess /\ th[t].obj \in Objs
                                 /\ Sound(sess[th[t].obj]) /\ sess[th[t].obj] \in Sessions
BY DEF IInv, Fine, Standing, Store, Placed, Thread, Sound

LEMMA NamedIs ==
  ASSUME IInv, NEW i \in Ids, sessions[i] # None
  PROVE  /\ sessions[i] \in DOMAIN sess /\ sessions[i] \in Objs /\ Sound(sess[sessions[i]])
         /\ sess[sessions[i]] \in Sessions
BY DEF IInv, Named, Fine, Store, Sound

LEMMA IInvWeaker ==
  ASSUME IInv, NEW w
  PROVE  Fine(sess, th, w)
BY Weaker DEF IInv

-----------------------------------------------------------------------------
(* Steps of a request that change no session.                              *)

\* A request that is not at a session goes where it may.
LEMMA RequestMoves ==
  ASSUME IInv, NEW t \in Threads, NEW x, th' = [th EXCEPT ![t] = x],
         UNCHANGED <<sessions, sess, alarm, visited, evicted>>,
         Placed(t, x, sess), x.pc = "writing" => Writes(t, sess[x.obj]),
         th[t].pc \notin Waiting \/ (x.pc \in Waiting /\ x.obj = th[t].obj),
         th[t].pc \notin Arming \/ x.pc \in Arming \/ alarm,
         t = Alarm => x.pc # "idle"
  PROVE  IInv'
<1>1. Fine(sess, th, t) /\ th = [u \in Threads |-> th[u]]
  BY IInvWeaker, ThreadIs
<1>2. Fine(sess, [th EXCEPT ![t] = x], None)
  BY <1>1, MoveKeeps
<1>3. OthersStay(t) /\ NoneAdded /\ th'[t] = x
  BY <1>1, MoveStays DEF NoneAdded
<1>4. SweepWillRun'
  <2>1. CASE th[t].pc \notin Arming
    BY <1>3, <2>1, WatchKeeps DEF IInv
  <2>2. CASE alarm
    BY <2>2 DEF SweepWillRun
  <2>3. CASE th[t].pc \in Arming /\ x.pc \in Arming /\ t \in Requests
    BY <1>3, <2>3 DEF SweepWillRun, Arming
  <2>4. CASE t \notin Requests
    <3>1. t = Alarm /\ th'[Alarm].pc # "idle"
      BY <1>3, <2>4, Distinct
    <3> QED
      BY <3>1 DEF SweepWillRun
  <2> QED
    BY <2>1, <2>2, <2>3, <2>4
<1>5. Fine(sess', th', None)
  BY <1>2
<1> QED
  BY <1>4, <1>5 DEF IInv, Named

\* A label that needs nothing else.
LEMMA GotoIs ==
  ASSUME IInv, NEW t \in Threads, NEW l \in Labels, t \in Requests => th[t].pc # "idle",
         l \notin Held \/ th[t].pc \in Held
  PROVE  /\ Placed(t, [th[t] EXCEPT !.pc = l], sess)
         /\ [th[t] EXCEPT !.pc = l].pc = l /\ [th[t] EXCEPT !.pc = l].obj = th[t].obj
         /\ (Goto(t, l) => th' = [th EXCEPT ![t] = [th[t] EXCEPT !.pc = l]])
<1> DEFINE x == [th[t] EXCEPT !.pc = l]
<1>1. th[t] \in Thread /\ Placed(t, th[t], sess)
  BY ThreadIs
<1>2. x \in Thread /\ x.pc = l /\ x.obj = th[t].obj /\ x.ops = th[t].ops
  BY <1>1 DEF Thread
<1>3. Goto(t, l) => th' = [th EXCEPT ![t] = x]
  BY DEF Goto
<1> HIDE DEF x
<1>4. Placed(t, x, sess)
  BY <1>1, <1>2 DEF Placed
<1> QED
  BY <1>2, <1>3, <1>4 DEF x

LEMMA ArriveKeeps == ASSUME IInv, NEW r \in Requests, Arrive(r) PROVE IInv'
<1>1. PICK b \in Batches, i \in Ids :
        th' = [th EXCEPT ![r] = [AtRest EXCEPT !.pc = "op", !.ops = b, !.id = i]]
  BY DEF Arrive
<1> DEFINE x == [AtRest EXCEPT !.pc = "op", !.ops = b, !.id = i]
<1>2. b \in Seq({"open", "tx", "rx", "close"}) /\ b # <<>>
  BY HubAssumption
<1>3. x \in Thread /\ x.pc = "op" /\ x.ops = b
  BY <1>2, AtRestIs DEF Thread, Labels
<1>4. Placed(r, x, sess)
  BY <1>2, <1>3 DEF Placed, Held, Waiting
<1>5. th[r].pc = "idle" /\ th' = [th EXCEPT ![r] = x]
  BY <1>1 DEF Arrive
<1> HIDE DEF x
<1> QED
  BY <1>3, <1>4, <1>5, Distinct, RequestMoves DEF Arrive, Waiting, Arming

\* A request answers and nothing else changes.
LEMMA AnswerMoves ==
  ASSUME IInv, NEW r \in Requests, NEW bad \in BOOLEAN, Answer(r, bad),
         th[r].pc \notin Waiting, th[r].pc # "idle", th[r].pc \notin Arming \/ alarm,
         UNCHANGED <<sessions, sess, alarm, visited, evicted>>
  PROVE  IInv'
<1>1. Placed(r, th[r], sess)
  BY ThreadIs, Distinct
<1>2. Placed(r, Answered(r, bad), sess) /\ Answered(r, bad).pc \in {"idle", "op"}
  BY <1>1, AnsweredIs
<1>3. th' = [th EXCEPT ![r] = Answered(r, bad)]
  BY DEF Answer
<1> QED
  BY <1>2, <1>3, Distinct, RequestMoves

\* A request takes a label and nothing else changes.
LEMMA GotoMoves ==
  ASSUME IInv, NEW r \in Requests, NEW l \in Labels, Goto(r, l), th[r].pc # "idle",
         l \notin Held \/ th[r].pc \in Held,
         l = "writing" => Writes(r, sess[th[r].obj]),
         th[r].pc \notin Waiting \/ l \in Waiting,
         th[r].pc \notin Arming \/ l \in Arming,
         UNCHANGED <<sessions, sess, alarm, visited, evicted>>
  PROVE  IInv'
<1> DEFINE x == [th[r] EXCEPT !.pc = l]
<1>1. Placed(r, x, sess) /\ x.pc = l /\ x.obj = th[r].obj /\ th' = [th EXCEPT ![r] = x]
  BY Distinct, GotoIs
<1> HIDE DEF x
<1> QED
  BY <1>1, Distinct, RequestMoves

LEMMA UnknownKeeps == ASSUME IInv, NEW r \in Requests, Unknown(r) PROVE IInv'
<1>1. th[r].pc = "op" /\ Answer(r, TRUE)
  BY DEF Unknown, At
<1> QED
  BY <1>1, AnswerMoves DEF Unknown, Waiting, Arming

LEMMA OpenStartKeeps == ASSUME IInv, NEW r \in Requests, OpenStart(r) PROVE IInv'
<1>1. th[r].pc = "op" /\ UNCHANGED <<sessions, sess, alarm, visited, evicted>>
  BY DEF OpenStart, At
<1>2. CASE Answer(r, TRUE)
  BY <1>1, <1>2, AnswerMoves DEF Waiting, Arming
<1>3. CASE Goto(r, "connecting")
  <2>1. "connecting" \in Labels /\ "connecting" \notin Held
    BY DEF Labels, Held, Waiting
  <2> QED
    BY <1>1, <1>3, <2>1, GotoMoves DEF Waiting, Arming
<1> QED
  BY <1>2, <1>3 DEF OpenStart

LEMMA OpenFailsKeeps == ASSUME IInv, NEW r \in Requests, OpenFails(r) PROVE IInv'
<1>1. th[r].pc = "connecting" /\ Answer(r, TRUE)
  BY DEF OpenFails
<1> QED
  BY <1>1, AnswerMoves DEF OpenFails, Waiting, Arming

LEMMA GetAlarmKeeps == ASSUME IInv, NEW r \in Requests, GetAlarm(r) PROVE IInv'
<1>1. th[r].pc = "getAlarm" /\ UNCHANGED <<sessions, sess, alarm, visited, evicted>>
  BY DEF GetAlarm
<1>2. CASE alarm
  <2>1. Answer(r, FALSE)
    BY <1>2 DEF GetAlarm
  <2> QED
    BY <1>1, <1>2, <2>1, AnswerMoves DEF Waiting, Arming
<1>3. CASE ~alarm
  <2>1. Goto(r, "setAlarm")
    BY <1>3 DEF GetAlarm
  <2>2. "setAlarm" \in Labels /\ "setAlarm" \notin Held
    BY DEF Labels, Held, Waiting
  <2> QED
    BY <1>1, <2>1, <2>2, GotoMoves DEF Waiting, Arming
<1> QED
  BY <1>2, <1>3

LEMMA SetAlarmKeeps == ASSUME IInv, NEW r \in Requests, SetAlarm(r) PROVE IInv'
<1>1. th[r].pc = "setAlarm" /\ alarm' = TRUE /\ UNCHANGED <<sessions, sess, visited, evicted>>
      /\ th' = [th EXCEPT ![r] = Answered(r, FALSE)]
  BY DEF SetAlarm, Answer
<1>2. Fine(sess, th, r)
  BY IInvWeaker
<1>3. Fine(sess, [th EXCEPT ![r] = Answered(r, FALSE)], None)
  BY <1>1, <1>2, AnswerKeeps DEF Waiting
<1>4. Fine(sess', th', None)
  BY <1>1, <1>3
<1>5. SweepWillRun'
  BY <1>1 DEF SweepWillRun
<1> QED
  BY <1>1, <1>4, <1>5 DEF IInv, Named

\* A write starts with the mutex held and the writer open.
LEMMA TxWriteKeeps == ASSUME IInv, NEW r \in Requests, TxWrite(r) PROVE IInv'
<1>1. th[r].pc = "txWait" /\ Goto(r, "writing")
  BY DEF TxWrite
<1>2. Writes(r, sess[th[r].obj])
  BY DEF TxWrite, Holds, Writes
<1>3. "writing" \in Labels /\ th[r].pc \in Held
  BY <1>1 DEF Labels, Held
<1> QED
  BY <1>1, <1>2, <1>3, GotoMoves DEF TxWrite, Waiting, Arming

LEMMA RxTimeoutKeeps == ASSUME IInv, NEW r \in Requests, RxTimeout(r) PROVE IInv'
<1>1. th[r].pc = "rxWait" /\ Goto(r, "rxWoken")
  BY DEF RxTimeout
<1>2. "rxWoken" \in Labels /\ th[r].pc \in Held
  BY <1>1 DEF Labels, Held, Waiting
<1> QED
  BY <1>1, <1>2, GotoMoves DEF RxTimeout, Waiting, Arming

LEMMA FireKeeps == ASSUME IInv, Fire PROVE IInv'
<1>1. th[Alarm].pc = "idle" /\ Goto(Alarm, "sweep") /\ visited' = {}
      /\ UNCHANGED <<sessions, sess, evicted>> /\ alarm' = FALSE
  BY DEF Fire
<1> DEFINE x == [th[Alarm] EXCEPT !.pc = "sweep"]
<1>2. "sweep" \in Labels /\ "sweep" \notin Held
  BY DEF Labels, Held, Waiting
<1>3. Placed(Alarm, x, sess) /\ x.pc = "sweep" /\ th' = [th EXCEPT ![Alarm] = x]
  BY <1>1, <1>2, Distinct, GotoIs
<1> HIDE DEF x
<1>4. Fine(sess, [th EXCEPT ![Alarm] = x], None)
  BY <1>1, <1>3, Distinct, IInvWeaker, MoveKeeps DEF Waiting
<1>5. Fine(sess', th', None)
  BY <1>1, <1>3, <1>4
<1>6. th'[Alarm] = x
  BY <1>3, ThreadIs, Distinct
<1>7. SweepWillRun'
  BY <1>3, <1>6 DEF SweepWillRun
<1> QED
  BY <1>1, <1>5, <1>7 DEF IInv, Named

\* The alarm that ends sets the next one when a session is left.
LEMMA SweptKeeps == ASSUME IInv, Swept PROVE IInv'
<1>1. th[Alarm].pc = "sweep" /\ Goto(Alarm, "idle")
      /\ UNCHANGED <<sessions, sess, visited, evicted>>
      /\ alarm' = (alarm \/ \E i \in Ids : sessions[i] # None)
  BY DEF Swept
<1> DEFINE x == [th[Alarm] EXCEPT !.pc = "idle"]
<1>2. "idle" \in Labels /\ "idle" \notin Held
  BY DEF Labels, Held, Waiting
<1>3. Placed(Alarm, x, sess) /\ x.pc = "idle" /\ th' = [th EXCEPT ![Alarm] = x]
  BY <1>1, <1>2, Distinct, GotoIs
<1> HIDE DEF x
<1>4. Fine(sess, [th EXCEPT ![Alarm] = x], None)
  BY <1>1, <1>3, Distinct, IInvWeaker, MoveKeeps DEF Waiting
<1>5. Fine(sess', th', None)
  BY <1>1, <1>3, <1>4
<1>6. SweepWillRun'
  BY <1>1 DEF SweepWillRun
<1>7. alarm' \in BOOLEAN
  BY <1>1 DEF IInv
<1> QED
  BY <1>1, <1>5, <1>6, <1>7 DEF IInv, Named

-----------------------------------------------------------------------------
(* Steps at one session.                                                   *)

\* Thread t changes session o and goes on.
LEMMA StepKeeps ==
  ASSUME IInv, NEW t \in Threads, NEW x, th' = [th EXCEPT ![t] = x],
         NEW o \in DOMAIN sess, NEW s, Sound(s), sess' = [sess EXCEPT ![o] = s],
         UNCHANGED <<sessions, alarm, visited, evicted>>,
         Placed(t, x, sess), x.pc # "writing",
         s.rxWaiter \in {None, sess[o].rxWaiter} \/ (s.rxWaiter = t /\ Waits(x, o)),
         th[t].pc \notin Waiting \/ (th[t].obj = o /\ s.rxWaiter = None),
         \A r \in Requests \ {t} :
           th[r].pc = "writing" /\ th[r].obj = o /\ Writes(r, sess[o]) => Writes(r, s),
         th[t].pc \notin Arming, t = Alarm => x.pc # "idle"
  PROVE  IInv'
<1> DEFINE ss == [sess EXCEPT ![o] = s]
           new == [th EXCEPT ![t] = x]
<1>1. /\ Fine(sess, th, t) /\ th = [u \in Threads |-> th[u]] /\ Waiters(sess, th) /\ Store(sess)
      /\ DOMAIN ss = DOMAIN sess /\ ss[o] = s /\ \A p \in DOMAIN sess \ {o} : ss[p] = sess[p]
  BY IInvWeaker, ThreadIs DEF Fine
<1>2. new[t] = x /\ \A u \in Threads \ {t} : new[u] = th[u]
  BY <1>1
<1>3. Fine(ss, new, None)
  <2>1. CASE th[t].pc \notin Waiting
    <3>1. Fine(sess, new, None)
      BY <1>1, <2>1, MoveKeeps
    <3> HIDE DEF new
    <3>2. s.rxWaiter \in {None, sess[o].rxWaiter} \/ Waits(new[s.rxWaiter], o)
      BY <1>2
    <3>3. \A r \in Requests \ {None} :
            new[r].pc = "writing" /\ new[r].obj = o /\ Writes(r, sess[o]) => Writes(r, s)
      BY <1>2, Distinct
    <3> QED
      BY <3>1, <3>2, <3>3, SessionKeeps
  <2>2. CASE th[t].pc \in Waiting /\ th[t].obj = o /\ s.rxWaiter = None
    <3>1. Fine(ss, th, t)
      BY <1>1, <2>2, SessionKeeps
    <3>2. Placed(t, x, ss)
      BY <1>1 DEF Placed
    <3>3. \A p \in DOMAIN ss : ss[p].rxWaiter # t
      <4> SUFFICES ASSUME NEW p \in DOMAIN ss, ss[p].rxWaiter = t PROVE FALSE
        OBVIOUS
      <4>1. t # None
        BY Distinct DEF Threads
      <4>2. p # o /\ sess[p].rxWaiter = t /\ p \in DOMAIN sess
        BY <1>1, <2>2, <4>1
      <4>3. th[t].obj = p
        BY <1>1, <4>1, <4>2 DEF Waiters, Waits
      <4> QED
        BY <2>2, <4>2, <4>3
    <3> HIDE DEF ss
    <3> QED
      BY <3>1, <3>2, <3>3, MoveKeeps
  <2> QED
    BY <2>1, <2>2
<1>4. Fine(sess', th', None)
  BY <1>3
<1>5. Named(sessions', sess')
  BY <1>1 DEF IInv, Named
<1>6. SweepWillRun'
  <2>1. OthersStay(t) /\ th'[t] = x /\ NoneAdded
    BY <1>1, MoveStays DEF NoneAdded
  <2> QED
    BY <2>1, WatchKeeps DEF IInv
<1> QED
  BY <1>4, <1>5, <1>6 DEF IInv

\* Whoever holds the write mutex is the one who writes.
LEMMA OneWriter ==
  ASSUME NEW t, NEW o, Holds(t), th[t].obj = o, NEW r, Writes(r, sess[o])
  PROVE  r = t
BY DEF Holds, Writes

\* The write mutex of a session is asked for or given back, its writer closed.
LEMMA MutexIs ==
  ASSUME NEW s, Sound(s), NEW q \in Seq(Threads), NEW c \in {"open", "closed"}, NEW b \in BOOLEAN
  PROVE  /\ Sound([s EXCEPT !.writeMu = q]) /\ [s EXCEPT !.writeMu = q].writeMu = q
         /\ [s EXCEPT !.writeMu = q].rxWaiter = s.rxWaiter
         /\ [s EXCEPT !.writeMu = q].writer = s.writer
         /\ Sound([s EXCEPT !.writer = c, !.writeMu = q])
         /\ [s EXCEPT !.writer = c, !.writeMu = q].rxWaiter = s.rxWaiter
         /\ Sound([s EXCEPT !.stale = b, !.writeMu = q])
         /\ [s EXCEPT !.stale = b, !.writeMu = q].rxWaiter = s.rxWaiter
         /\ Sound([s EXCEPT !.socket = c]) /\ [s EXCEPT !.socket = c].rxWaiter = s.rxWaiter
         /\ [s EXCEPT !.socket = c].writeMu = s.writeMu /\ [s EXCEPT !.socket = c].writer = s.writer
         /\ Sound([s EXCEPT !.stale = b]) /\ [s EXCEPT !.stale = b].rxWaiter = s.rxWaiter
         /\ [s EXCEPT !.stale = b].writeMu = s.writeMu /\ [s EXCEPT !.stale = b].writer = s.writer
<1>1. s \in Sessions
  BY DEF Sound
<1> DEFINE u1 == [s EXCEPT !.writeMu = q]
           u2 == [s EXCEPT !.writer = c, !.writeMu = q]
           u3 == [s EXCEPT !.stale = b, !.writeMu = q]
           u4 == [s EXCEPT !.socket = c]
           u5 == [s EXCEPT !.stale = b]
           Same(u) == /\ u.rxChunks = s.rxChunks /\ u.rxBytes = s.rxBytes /\ u.taken = s.taken
                      /\ u.got = s.got /\ u.told = s.told /\ u.eof = s.eof
                      /\ u.readErr = s.readErr /\ u.pump = s.pump /\ u.closed = s.closed
                      /\ u.drainWaiter = s.drainWaiter
<1>2. u1 \in Sessions /\ Same(u1) /\ u1.rxWaiter = s.rxWaiter /\ u1.writer = s.writer
      /\ u1.writeMu = q
  BY <1>1 DEF Sessions
<1>3. u2 \in Sessions /\ Same(u2) /\ u2.rxWaiter = s.rxWaiter
  BY <1>1 DEF Sessions
<1>4. u3 \in Sessions /\ Same(u3) /\ u3.rxWaiter = s.rxWaiter
  BY <1>1 DEF Sessions
<1>5. u4 \in Sessions /\ Same(u4) /\ u4.rxWaiter = s.rxWaiter /\ u4.writeMu = s.writeMu
      /\ u4.writer = s.writer
  BY <1>1 DEF Sessions
<1>6. u5 \in Sessions /\ Same(u5) /\ u5.rxWaiter = s.rxWaiter /\ u5.writeMu = s.writeMu
      /\ u5.writer = s.writer
  BY <1>1 DEF Sessions
<1> HIDE DEF u1, u2, u3, u4, u5
<1>7. Sound(u1) /\ Sound(u2) /\ Sound(u3) /\ Sound(u4) /\ Sound(u5)
  BY <1>2, <1>3, <1>4, <1>5, <1>6, SameIsSound
<1> QED
  BY <1>2, <1>3, <1>4, <1>5, <1>6, <1>7 DEF u1, u2, u3, u4, u5

\* Who waits for the write mutex queues behind the one who writes.
LEMMA QueueIs ==
  ASSUME NEW q \in Seq(Threads), NEW t \in Threads
  PROVE  /\ Append(q, t) \in Seq(Threads)
         /\ q # <<>> => /\ Append(q, t) # <<>> /\ Head(Append(q, t)) = Head(q)
                        /\ Tail(q) \in Seq(Threads)
<1>1. Append(q, t) \in Seq(Threads) /\ (q # <<>> => Tail(q) \in Seq(Threads))
  OBVIOUS
<1>2. ASSUME q # <<>> PROVE Append(q, t) # <<>> /\ Head(Append(q, t)) = Head(q)
  <2>1. Len(q) \in Nat \ {0} /\ Len(Append(q, t)) = Len(q) + 1 /\ 1 \in 1 .. Len(q)
    BY <1>2
  <2>2. Append(q, t)[1] = q[1]
    BY <2>1
  <2> QED
    BY <1>2, <2>1, <2>2
<1> QED
  BY <1>1, <1>2

LEMMA CancelledKeeps == ASSUME IInv, NEW t \in Threads, Cancelled(t) PROVE IInv'
<1> DEFINE o == th[t].obj
           q == Append(sess[o].writeMu, t)
           s == [sess[o] EXCEPT !.writeMu = q]
           x == [th[t] EXCEPT !.pc = "closeWriter"]
<1>1. th[t].pc = "cancel" /\ Goto(t, "closeWriter")
      /\ UNCHANGED <<sessions, alarm, visited, evicted>>
      /\ sess' = [sess EXCEPT ![th[t].obj].writeMu = Append(@, t)]
  BY DEF Cancelled
<1>2. o \in DOMAIN sess /\ Sound(sess[o]) /\ sess[o] \in Sessions
  BY <1>1, ThreadIs DEF Held
<1>3. sess' = [sess EXCEPT ![o] = s]
  BY <1>1, <1>2
<1>4. sess[o].writeMu \in Seq(Threads)
  BY <1>2 DEF Sessions
<1> HIDE DEF o
<1>5. q \in Seq(Threads) /\ (sess[o].writeMu # <<>> => q # <<>> /\ Head(q) = Head(sess[o].writeMu))
  BY <1>4, QueueIs
<1> HIDE DEF q
<1>6. /\ Sound(s) /\ s.rxWaiter = sess[o].rxWaiter /\ s.writeMu = q
      /\ s.writer = sess[o].writer
  BY <1>2, <1>5, MutexIs
<1>7. Placed(t, x, sess) /\ x.pc = "closeWriter" /\ th' = [th EXCEPT ![t] = x]
  <2>1. "closeWriter" \in Labels /\ th[t].pc \in Held /\ th[t].pc # "idle"
    BY <1>1 DEF Labels, Held
  <2> QED
    BY <1>1, <2>1, GotoIs
<1> HIDE DEF s, x
<1>8. \A r \in Requests : Writes(r, sess[o]) => Writes(r, s)
  BY <1>5, <1>6 DEF Writes
<1> QED
  BY <1>1, <1>2, <1>3, <1>6, <1>7, <1>8, StepKeeps DEF Waiting, Arming

LEMMA CloseWriterKeeps == ASSUME IInv, NEW t \in Threads, CloseWriter(t) PROVE IInv'
<1> DEFINE o == th[t].obj
           q == Tail(sess[o].writeMu)
           s == [sess[o] EXCEPT !.writer = "closed", !.writeMu = q]
           x == [th[t] EXCEPT !.pc = "closeSocket"]
<1>1. /\ th[t].pc = "closeWriter" /\ Goto(t, "closeSocket") /\ Holds(t)
      /\ UNCHANGED <<sessions, alarm, visited, evicted>>
      /\ sess' = [sess EXCEPT ![th[t].obj].writer = "closed",
                              ![th[t].obj].writeMu = Tail(@)]
  BY DEF CloseWriter
<1>2. o \in DOMAIN sess /\ Sound(sess[o]) /\ sess[o] \in Sessions
  BY <1>1, ThreadIs DEF Held
<1>3. sess' = [sess EXCEPT ![o] = s]
  BY <1>1, <1>2 DEF Sessions
<1>4. sess[o].writeMu \in Seq(Threads) /\ sess[o].writeMu # <<>>
  BY <1>1, <1>2 DEF Sessions, Holds
<1>5. \A r \in Requests \ {t} : ~Writes(r, sess[o])
  BY <1>1, OneWriter
<1> HIDE DEF o
<1>6. q \in Seq(Threads)
  BY <1>4, QueueIs
<1> HIDE DEF q
<1>7. Sound(s) /\ s.rxWaiter = sess[o].rxWaiter
  BY <1>2, <1>6, MutexIs
<1>8. Placed(t, x, sess) /\ x.pc = "closeSocket" /\ th' = [th EXCEPT ![t] = x]
  <2>1. "closeSocket" \in Labels /\ th[t].pc \in Held /\ th[t].pc # "idle"
    BY <1>1 DEF Labels, Held
  <2> QED
    BY <1>1, <2>1, GotoIs
<1> HIDE DEF s, x
<1> QED
  BY <1>1, <1>2, <1>3, <1>5, <1>7, <1>8, StepKeeps DEF Waiting, Arming

LEMMA CloseSocketKeeps == ASSUME IInv, NEW t \in Threads, CloseSocket(t) PROVE IInv'
<1> DEFINE o == th[t].obj
           s == [sess[o] EXCEPT !.socket = "closed"]
           x == IF t = Alarm THEN [th[t] EXCEPT !.pc = "sweep", !.obj = None]
                ELSE Answered(t, th[t].fails)
<1>1. /\ th[t].pc = "closeSocket" /\ UNCHANGED <<sessions, alarm, visited, evicted>>
      /\ sess' = [sess EXCEPT ![th[t].obj].socket = "closed"]
  BY DEF CloseSocket
<1>2. o \in DOMAIN sess /\ Sound(sess[o]) /\ sess[o] \in Sessions
  BY <1>1, ThreadIs DEF Held
<1>3. sess' = [sess EXCEPT ![o] = s]
  BY <1>1
<1>4. /\ Sound(s) /\ s.rxWaiter = sess[o].rxWaiter /\ s.writeMu = sess[o].writeMu
      /\ s.writer = sess[o].writer
  <2> HIDE DEF o
  <2>1. <<>> \in Seq(Threads) /\ TRUE \in BOOLEAN
    OBVIOUS
  <2> QED
    BY <1>2, <2>1, MutexIs
<1>5. Placed(t, x, sess) /\ x.pc # "writing" /\ (t = Alarm => x.pc # "idle")
  <2>1. th[t] \in Thread /\ Placed(t, th[t], sess)
    BY ThreadIs
  <2>2. CASE t = Alarm
    <3>1. x = [th[t] EXCEPT !.pc = "sweep", !.obj = None]
      BY <2>2
    <3>2. x \in Thread /\ x.pc = "sweep"
      BY <2>1, <3>1 DEF Thread, Labels
    <3> QED
      BY <2>2, <3>2, Distinct DEF Placed, Held, Waiting
  <2>3. CASE t # Alarm
    <3>1. t \in Requests /\ th[t].fails \in BOOLEAN /\ x = Answered(t, th[t].fails)
      BY <2>1, <2>3, Distinct DEF Thread
    <3> QED
      BY <1>1, <2>1, <2>3, <3>1, AnsweredIs
  <2> QED
    BY <2>2, <2>3
<1>6. th' = [th EXCEPT ![t] = x]
  <2>1. CASE t = Alarm
    <3>1. th' = [th EXCEPT ![t].pc = "sweep", ![t].obj = None]
      BY <2>1 DEF CloseSocket
    <3>2. x = [th[t] EXCEPT !.pc = "sweep", !.obj = None]
      BY <2>1
    <3>3. th = [u \in Threads |-> th[u]]
      BY ThreadIs
    <3> HIDE DEF x
    <3> QED
      BY <3>1, <3>2, <3>3
  <2>2. CASE t # Alarm
    BY <2>2 DEF CloseSocket, Answer
  <2> QED
    BY <2>1, <2>2
<1> HIDE DEF o, s, x
<1>7. \A r \in Requests : Writes(r, sess[o]) => Writes(r, s)
  BY <1>4 DEF Writes
<1> QED
  BY <1>1, <1>2, <1>3, <1>4, <1>5, <1>6, <1>7, StepKeeps DEF Waiting, Arming

\* A tx finds its session and asks for the write mutex.
LEMMA TxStartKeeps == ASSUME IInv, NEW r \in Requests, TxStart(r) PROVE IInv'
<1> DEFINE o == sessions[th[r].id]
           q == Append(sess[o].writeMu, r)
           s == [sess[o] EXCEPT !.writeMu = q]
           x == [th[r] EXCEPT !.pc = "txWait", !.obj = o]
<1>1. /\ th[r].pc = "op" /\ o # None /\ UNCHANGED <<sessions, alarm, visited, evicted>>
      /\ sess' = [sess EXCEPT ![o].writeMu = Append(@, r)]
      /\ th' = [th EXCEPT ![r].pc = "txWait", ![r].obj = o]
  BY DEF TxStart, At
<1>2. /\ r \in Threads /\ th[r] \in Thread /\ Placed(r, th[r], sess) /\ th[r].id \in Ids
      /\ th = [u \in Threads |-> th[u]]
  BY Distinct, ThreadIs
<1>3. o \in DOMAIN sess /\ o \in Objs /\ Sound(sess[o]) /\ sess[o] \in Sessions
  BY <1>1, <1>2, NamedIs
<1> HIDE DEF o
<1>4. sess' = [sess EXCEPT ![o] = s]
  BY <1>1, <1>3
<1>5. sess[o].writeMu \in Seq(Threads)
  BY <1>3 DEF Sessions
<1>6. q \in Seq(Threads) /\ (sess[o].writeMu # <<>> => q # <<>> /\ Head(q) = Head(sess[o].writeMu))
  BY <1>2, <1>5, QueueIs
<1> HIDE DEF q
<1>7. /\ Sound(s) /\ s.rxWaiter = sess[o].rxWaiter /\ s.writeMu = q
      /\ s.writer = sess[o].writer
  BY <1>3, <1>6, MutexIs
<1>8. th' = [th EXCEPT ![r] = x]
  BY <1>1, <1>2
<1>9. x \in Thread /\ x.pc = "txWait" /\ x.obj = o /\ x.ops = th[r].ops
  BY <1>2, <1>3 DEF Thread, Labels
<1> HIDE DEF s, x
<1>10. Placed(r, x, sess)
  BY <1>1, <1>2, <1>3, <1>9 DEF Placed
<1>11. \A u \in Requests : Writes(u, sess[o]) => Writes(u, s)
  BY <1>6, <1>7 DEF Writes
<1> QED
  BY <1>1, <1>2, <1>3, <1>4, <1>7, <1>8, <1>9, <1>10, <1>11, Distinct, StepKeeps
  DEF Waiting, Arming

\* The write ends and the mutex goes to the next.
LEMMA TxEndKeeps == ASSUME IInv, NEW r \in Requests, TxEnd(r) PROVE IInv'
<1> DEFINE o == th[r].obj
           q == Tail(sess[o].writeMu)
           s == [sess[o] EXCEPT !.stale = FALSE, !.writeMu = q]
           x == Answered(r, FALSE)
<1>1. /\ th[r].pc = "writing" /\ UNCHANGED <<sessions, alarm, visited, evicted>>
      /\ sess' = [sess EXCEPT ![th[r].obj].stale = FALSE, ![th[r].obj].writeMu = Tail(@)]
      /\ th' = [th EXCEPT ![r] = x]
  BY DEF TxEnd, Answer
<1>2. /\ r \in Threads /\ Placed(r, th[r], sess)
      /\ o \in DOMAIN sess /\ Sound(sess[o]) /\ sess[o] \in Sessions
  BY <1>1, Distinct, ThreadIs DEF Held
<1>3. Writes(r, sess[o])
  BY <1>1, Distinct DEF IInv, Fine, Writers
<1>4. sess' = [sess EXCEPT ![o] = s]
  BY <1>1, <1>2 DEF Sessions
<1>5. sess[o].writeMu \in Seq(Threads) /\ sess[o].writeMu # <<>>
  BY <1>2, <1>3 DEF Sessions, Writes
<1>6. \A u \in Requests \ {r} : ~Writes(u, sess[o])
  BY <1>3 DEF Writes
<1> HIDE DEF o
<1>7. q \in Seq(Threads)
  BY <1>2, <1>5, QueueIs
<1> HIDE DEF q
<1>8. Sound(s) /\ s.rxWaiter = sess[o].rxWaiter
  BY <1>2, <1>7, MutexIs
<1>9. Placed(r, x, sess) /\ x.pc \in {"idle", "op"}
  BY <1>1, <1>2, AnsweredIs
<1> HIDE DEF s, x
<1> QED
  BY <1>1, <1>2, <1>4, <1>6, <1>8, <1>9, Distinct, StepKeeps DEF Waiting, Arming

LEMMA ClosesKeeps ==
  ASSUME IInv, NEW r \in Requests, NEW ss, Fine(ss, th, r), DOMAIN ss = DOMAIN sess,
         th[r].pc \notin Arming, th[r].pc # "idle", \A o \in DOMAIN ss : ss[o].rxWaiter # r,
         NEW bad \in BOOLEAN, CloseId(r, bad, ss), UNCHANGED <<alarm, visited, evicted>>
  PROVE  IInv'
<1>1. Named(sessions, ss)
  BY DEF IInv, Named
<1>2. Fine(sess', th', None) /\ Named(sessions', sess')
  BY <1>1, CloseIdKeeps
<1>3. OthersStay(r) /\ NoneAdded
  BY <1>1, CloseIdStays
<1>4. SweepWillRun'
  BY <1>3, Distinct, WatchKeeps DEF IInv
<1> QED
  BY <1>2, <1>4 DEF IInv

LEMMA OpCloseKeeps == ASSUME IInv, NEW r \in Requests, OpClose(r) PROVE IInv'
<1>1. th[r].pc = "op" /\ CloseId(r, FALSE, sess) /\ UNCHANGED <<alarm, visited, evicted>>
  BY DEF OpClose, At
<1>2. Fine(sess, th, r) /\ r \in Threads
  BY IInvWeaker, Distinct
<1>3. \A o \in DOMAIN sess : sess[o].rxWaiter # r
  BY <1>1, <1>2, NotWaiting DEF Waiting
<1> QED
  BY <1>1, <1>2, <1>3, ClosesKeeps DEF Arming

\* The write fails; the mutex goes to the next and the id's session is closed.
LEMMA TxFailKeeps == ASSUME IInv, NEW r \in Requests, TxFail(r) PROVE IInv'
<1> DEFINE o == th[r].obj
           q == Tail(sess[o].writeMu)
           s == [sess[o] EXCEPT !.writeMu = q]
           ss == [sess EXCEPT ![o].writeMu = Tail(@)]
<1>1. /\ th[r].pc \in {"writing", "txWait"} /\ UNCHANGED <<alarm, visited, evicted>>
      /\ CloseId(r, TRUE, ss)
      /\ (th[r].pc = "txWait" => Holds(r))
  BY DEF TxFail
<1>2. /\ r \in Threads /\ o \in DOMAIN sess /\ Sound(sess[o]) /\ sess[o] \in Sessions
  BY <1>1, Distinct, ThreadIs DEF Held
<1>3. sess[o].writeMu # <<>> /\ Head(sess[o].writeMu) = r
  BY <1>1, Distinct DEF IInv, Fine, Writers, Writes, Holds
<1>4. sess[o].writeMu \in Seq(Threads)
  BY <1>2 DEF Sessions
<1>5. \A u \in Requests \ {r} : ~Writes(u, sess[o])
  BY <1>3 DEF Writes
<1> HIDE DEF o
<1>6. q \in Seq(Threads)
  BY <1>2, <1>3, <1>4, QueueIs
<1>7. ss = [sess EXCEPT ![o] = s]
  BY <1>2
<1> HIDE DEF q
<1>8. Sound(s) /\ s.rxWaiter = sess[o].rxWaiter
  BY <1>2, <1>6, MutexIs
<1> HIDE DEF s, ss
<1>9. Fine(sess, th, r)
  BY IInvWeaker
<1>10. Fine([sess EXCEPT ![o] = s], th, r)
  BY <1>2, <1>5, <1>8, <1>9, SessionKeeps
<1>11. Fine(ss, th, r) /\ DOMAIN ss = DOMAIN sess
  BY <1>7, <1>10
<1>12. \A p \in DOMAIN ss : ss[p].rxWaiter # r
  BY <1>1, <1>2, <1>11, NotWaiting DEF Waiting
<1> QED
  BY <1>1, <1>11, <1>12, ClosesKeeps DEF Arming

\* What is buffered is answered; the end is told when nothing is.
LEMMA RxAnswerKeeps ==
  ASSUME IInv, NEW r \in Requests, NEW o \in DOMAIN sess, NEW s, Sound(s),
         s.writeMu = sess[o].writeMu, s.writer = sess[o].writer,
         s.rxWaiter \in {None, sess[o].rxWaiter},
         th[r].pc \in {"op", "rxWoken"},
         th[r].pc \notin Waiting \/ (th[r].obj = o /\ s.rxWaiter = None),
         RxAnswer(r, o, s), UNCHANGED <<alarm, visited, evicted>>
  PROVE  IInv'
<1>1. r \in Threads /\ Placed(r, th[r], sess) /\ Fine(sess, th, r) /\ Waiters(sess, th)
  BY Distinct, ThreadIs, IInvWeaker DEF Fine
<1> DEFINE x == Answered(r, FALSE)
<1>2. Placed(r, x, sess) /\ x.pc # "writing" /\ r # Alarm
  BY <1>1, Distinct, AnsweredIs
<1>3. th[r].pc \notin Arming
  BY DEF Arming
<1>4. CASE s.rxChunks # <<>>
  <2> DEFINE d == Drained(s)
  <2>1. /\ Sound(d) /\ d.rxWaiter = s.rxWaiter /\ d.writeMu = s.writeMu
        /\ d.writer = s.writer
    BY <1>4, DrainedIsSound
  <2>2. sess' = [sess EXCEPT ![o] = d] /\ th' = [th EXCEPT ![r] = x]
        /\ UNCHANGED sessions
    BY <1>4 DEF RxAnswer, Answer
  <2> HIDE DEF d, x
  <2>3. \A u \in Requests : Writes(u, sess[o]) => Writes(u, d)
    BY <2>1 DEF Writes
  <2> QED
    BY <1>1, <1>2, <1>3, <2>1, <2>2, <2>3, StepKeeps
<1>5. CASE s.rxChunks = <<>> /\ Terminal(s)
  <2> DEFINE u == [s EXCEPT !.told = TRUE]
             ss == [sess EXCEPT ![o] = u]
  <2>1. CloseId(r, TRUE, ss)
    BY <1>5 DEF RxAnswer
  <2>2. s \in Sessions
    BY DEF Sound
  <2>3. /\ u \in Sessions /\ u.rxChunks = s.rxChunks /\ u.rxBytes = s.rxBytes
        /\ u.taken = s.taken /\ u.got = s.got /\ u.eof = s.eof /\ u.readErr = s.readErr
        /\ u.pump = s.pump /\ u.closed = s.closed /\ u.drainWaiter = s.drainWaiter
        /\ u.rxWaiter = s.rxWaiter /\ u.writeMu = s.writeMu /\ u.writer = s.writer
    BY <2>2 DEF Sessions
  <2> HIDE DEF u
  <2>4. Sound(u)
    BY <1>5, <2>3 DEF Sound, Terminal
  <2>5. Fine(ss, th, r)
    BY <1>1, <2>3, <2>4, SessionKeeps DEF Writes
  <2>6. /\ DOMAIN ss = DOMAIN sess /\ ss[o] = u
        /\ \A p \in DOMAIN sess \ {o} : ss[p] = sess[p]
    OBVIOUS
  <2> HIDE DEF ss
  <2>7. \A p \in DOMAIN ss : ss[p].rxWaiter # r
    <3>1. CASE th[r].pc \notin Waiting
      BY <1>1, <2>5, <3>1, NotWaiting
    <3>2. CASE th[r].obj = o /\ s.rxWaiter = None
      <4> SUFFICES ASSUME NEW p \in DOMAIN ss, ss[p].rxWaiter = r PROVE FALSE
        OBVIOUS
      <4>1. r # None
        BY Distinct
      <4>2. p # o /\ sess[p].rxWaiter = r /\ p \in DOMAIN sess
        BY <2>3, <2>6, <3>2, <4>1
      <4>3. th[r].obj = p
        BY <1>1, <4>1, <4>2 DEF Waiters, Waits
      <4> QED
        BY <3>2, <4>2, <4>3
    <3> QED
      BY <3>1, <3>2
  <2> QED
    BY <1>3, <2>1, <2>5, <2>6, <2>7, ClosesKeeps
<1>6. CASE s.rxChunks = <<>> /\ ~Terminal(s)
  <2>1. sess' = [sess EXCEPT ![o] = s] /\ th' = [th EXCEPT ![r] = x]
        /\ UNCHANGED sessions
    BY <1>6 DEF RxAnswer, Answer
  <2> HIDE DEF x
  <2>2. \A u \in Requests : Writes(u, sess[o]) => Writes(u, s)
    BY DEF Writes
  <2> QED
    BY <1>1, <1>2, <1>3, <2>1, <2>2, StepKeeps
<1> QED
  BY <1>4, <1>5, <1>6

\* An rx is noticed, and its slot taken or cleared.
Slotted(s, w) == [s EXCEPT !.rxWaiter = w, !.stale = FALSE]

LEMMA SlotIs ==
  ASSUME NEW s, Sound(s), NEW w \in Requests \cup {None}
  PROVE  /\ Sound(Slotted(s, w)) /\ Slotted(s, w).rxWaiter = w
         /\ Slotted(s, w).writeMu = s.writeMu /\ Slotted(s, w).writer = s.writer
<1>1. s \in Sessions
  BY DEF Sound
<1> DEFINE u == Slotted(s, w)
<1>2. /\ u \in Sessions /\ u.rxChunks = s.rxChunks /\ u.rxBytes = s.rxBytes
      /\ u.taken = s.taken /\ u.got = s.got /\ u.eof = s.eof /\ u.readErr = s.readErr
      /\ u.pump = s.pump /\ u.closed = s.closed /\ u.drainWaiter = s.drainWaiter
      /\ u.told = s.told /\ u.rxWaiter = w /\ u.writeMu = s.writeMu /\ u.writer = s.writer
  BY <1>1 DEF Sessions, Slotted
<1> HIDE DEF u
<1>3. Sound(u)
  BY <1>2, SameIsSound
<1> QED
  BY <1>2, <1>3 DEF u

LEMMA RxStartKeeps == ASSUME IInv, NEW r \in Requests, RxStart(r) PROVE IInv'
<1> DEFINE o == sessions[th[r].id]
           s == [sess[o] EXCEPT !.stale = FALSE]
           x == [th[r] EXCEPT !.pc = "rxWait", !.obj = o]
           w == [s EXCEPT !.rxWaiter = r]
<1>1. th[r].pc = "op" /\ o # None /\ UNCHANGED <<alarm, visited, evicted>>
  BY DEF RxStart, At
<1>2. /\ r \in Threads /\ th[r] \in Thread /\ Placed(r, th[r], sess) /\ th[r].id \in Ids
      /\ th = [u \in Threads |-> th[u]]
  BY Distinct, ThreadIs
<1>3. o \in DOMAIN sess /\ o \in Objs /\ Sound(sess[o]) /\ sess[o] \in Sessions
  BY <1>1, <1>2, NamedIs
<1>4. \/ RxAnswer(r, o, s)
      \/ /\ sess' = [sess EXCEPT ![o] = w] /\ UNCHANGED sessions
         /\ th' = [th EXCEPT ![r].pc = "rxWait", ![r].obj = o]
  BY DEF RxStart
<1> HIDE DEF o
<1>5. /\ Sound(s) /\ s.rxWaiter = sess[o].rxWaiter /\ s.writeMu = sess[o].writeMu
      /\ s.writer = sess[o].writer
  <2>1. <<>> \in Seq(Threads) /\ FALSE \in BOOLEAN /\ "open" \in {"open", "closed"}
    OBVIOUS
  <2> QED
    BY <1>3, <2>1, MutexIs
<1>6. CASE RxAnswer(r, o, s)
  <2> HIDE DEF s
  <2> QED
    BY <1>1, <1>3, <1>5, <1>6, RxAnswerKeeps DEF Waiting
<1>7. CASE /\ sess' = [sess EXCEPT ![o] = w] /\ UNCHANGED sessions
           /\ th' = [th EXCEPT ![r].pc = "rxWait", ![r].obj = o]
  <2>1. w = Slotted(sess[o], r)
    BY <1>3 DEF Sessions, Slotted
  <2>2. Sound(w) /\ w.rxWaiter = r /\ w.writeMu = sess[o].writeMu /\ w.writer = sess[o].writer
    BY <1>3, <2>1, SlotIs
  <2>3. th' = [th EXCEPT ![r] = x]
    BY <1>2, <1>7
  <2>4. x \in Thread /\ x.pc = "rxWait" /\ x.obj = o /\ x.ops = th[r].ops
    BY <1>2, <1>3 DEF Thread, Labels
  <2> HIDE DEF x, w
  <2>5. Placed(r, x, sess) /\ Waits(x, o)
    BY <1>1, <1>2, <1>3, <2>4 DEF Placed, Waits, Waiting
  <2>6. \A u \in Requests : Writes(u, sess[o]) => Writes(u, w)
    BY <2>2 DEF Writes
  <2> QED
    BY <1>1, <1>2, <1>3, <1>7, <2>2, <2>3, <2>4, <2>5, <2>6, Distinct, StepKeeps
    DEF Waiting, Arming
<1> QED
  BY <1>4, <1>6, <1>7

LEMMA RxResumeKeeps == ASSUME IInv, NEW r \in Requests, RxResume(r) PROVE IInv'
<1> DEFINE o == th[r].obj
           s == Slotted(sess[o], None)
<1>1. th[r].pc = "rxWoken" /\ RxAnswer(r, o, s) /\ UNCHANGED <<alarm, visited, evicted>>
  BY DEF RxResume, Slotted
<1>2. r \in Threads /\ o \in DOMAIN sess /\ Sound(sess[o])
  BY <1>1, Distinct, ThreadIs DEF Held, Waiting
<1>3. th[r].obj = o
  OBVIOUS
<1> HIDE DEF o
<1>4. Sound(s) /\ s.rxWaiter = None /\ s.writeMu = sess[o].writeMu /\ s.writer = sess[o].writer
  BY <1>2, SlotIs
<1> HIDE DEF s
<1> QED
  BY <1>1, <1>2, <1>3, <1>4, RxAnswerKeeps

-----------------------------------------------------------------------------
(* Steps of a read pump, of time and of the platform.                      *)

LEMMA PumpKeeps ==
  ASSUME IInv, NEW o \in DOMAIN sess, NEW u, Sound(u), NEW threads \in {th, Woken(sess[o])},
         u.rxWaiter \in {None, sess[o].rxWaiter}, u.writeMu = sess[o].writeMu,
         u.writer = sess[o].writer, Pump(o, u, threads)
  PROVE  IInv'
<1>1. Fine(sess, th, None) /\ SweepWillRun /\ Named(sessions, sess)
  BY DEF IInv
<1>2. /\ Fine(sess, threads, None)
      /\ \A t \in Threads : \/ threads[t] = th[t]
                            \/ th[t].pc \in Waiting /\ t # Alarm
  BY <1>1, WakeKeeps
<1>3. Fine([sess EXCEPT ![o] = u], threads, None)
  BY <1>2, SessionKeeps DEF Writes
<1>4. sess' = [sess EXCEPT ![o] = u] /\ th' = threads /\ UNCHANGED <<sessions, alarm, visited, evicted>>
  BY DEF Pump
<1>5. Fine(sess', th', None)
  BY <1>3, <1>4
<1>6. Named(sessions', sess')
  BY <1>1, <1>4 DEF Named
<1>7. th'[Alarm] = th[Alarm]
      /\ \A r \in Requests : th[r].pc \in Arming => th'[r] = th[r]
  BY <1>2, <1>4, Distinct DEF Waiting, Arming
<1>8. SweepWillRun'
  BY <1>1, <1>4, <1>7 DEF SweepWillRun, Arming
<1> QED
  BY <1>4, <1>5, <1>6, <1>8 DEF IInv

LEMMA SoundIs == ASSUME IInv, NEW o \in DOMAIN sess PROVE Sound(sess[o])
BY DEF IInv, Fine, Store

LEMMA PumpRunsKeeps == ASSUME IInv, NEW o \in DOMAIN sess, PumpRuns(o) PROVE IInv'
<1> DEFINE s == sess[o]
<1>1. Sound(s) /\ None \notin Requests
  BY SoundIs, Distinct
<1>2. CASE PumpCheck(o)
  <2>1. s.pump \in {"check", "paused"} /\ Pump(o, Looked(s), th)
    BY <1>2 DEF PumpCheck, Looked
  <2>2. Sound(Looked(s)) /\ Looked(s).rxWaiter = s.rxWaiter /\ Looked(s).writeMu = s.writeMu
        /\ Looked(s).writer = s.writer
    BY <1>1, <2>1, LookedIsSound
  <2> QED
    BY <2>1, <2>2, PumpKeeps
<1>3. CASE PumpRead(o)
  <2>1. PICK n \in 1 .. MaxChunk : s.got + n <= NBytes /\ Pump(o, HasRead(s, n), Woken(s))
    BY <1>3 DEF PumpRead, HasRead, Chunk
  <2>2. s.pump = "reading"
    BY <1>3 DEF PumpRead
  <2>3. Sound(HasRead(s, n)) /\ HasRead(s, n).rxWaiter = None
        /\ HasRead(s, n).writeMu = s.writeMu /\ HasRead(s, n).writer = s.writer
    BY <1>1, <2>1, <2>2, HasReadIsSound
  <2> QED
    BY <2>1, <2>3, PumpKeeps
<1>4. CASE PumpDone(o)
  <2>1. s.pump = "reading" /\ Pump(o, HasEnded(s), Woken(s))
    BY <1>4 DEF PumpDone, HasEnded
  <2> QED
    BY <1>1, <2>1, HasEndedIsSound, PumpKeeps
<1>5. CASE PumpError(o)
  <2>1. s.pump = "reading" /\ Pump(o, HasFailed(s), Woken(s))
    BY <1>5 DEF PumpError, HasFailed
  <2> QED
    BY <1>1, <2>1, HasEndedIsSound, PumpKeeps
<1> QED
  BY <1>2, <1>3, <1>4, <1>5 DEF PumpRuns

LEMMA GoStaleKeeps == ASSUME IInv, NEW o \in DOMAIN sess, GoStale(o) PROVE IInv'
<1> DEFINE u == [sess[o] EXCEPT !.stale = TRUE]
<1>1. sess' = [sess EXCEPT ![o] = u] /\ UNCHANGED <<sessions, th, alarm, visited, evicted>>
  BY DEF GoStale
<1>2. Sound(sess[o])
  BY SoundIs
<1>3. /\ Sound(u) /\ u.rxWaiter = sess[o].rxWaiter /\ u.writeMu = sess[o].writeMu
      /\ u.writer = sess[o].writer
  <2>1. <<>> \in Seq(Threads) /\ TRUE \in BOOLEAN /\ "open" \in {"open", "closed"}
    OBVIOUS
  <2> QED
    BY <1>2, <2>1, MutexIs
<1> HIDE DEF u
<1>4. Pump(o, u, th)
  BY <1>1 DEF Pump
<1> QED
  BY <1>3, <1>4, PumpKeeps

\* The alarm closes a session as a request does.
LEMMA SweepKeeps == ASSUME IInv, NEW i \in Ids, Sweep(i) PROVE IInv'
<1> DEFINE o == sessions[i]
           x == [th[Alarm] EXCEPT !.pc = "cancel", !.obj = o]
<1>1. /\ th[Alarm].pc = "sweep" /\ o # None /\ visited' = visited \cup {i}
      /\ UNCHANGED <<alarm, evicted>>
  BY DEF Sweep
<1>2. /\ Alarm \in Threads /\ th[Alarm] \in Thread /\ Placed(Alarm, th[Alarm], sess)
      /\ th = [u \in Threads |-> th[u]] /\ Fine(sess, th, Alarm)
      /\ Named(sessions, sess) /\ SweepWillRun
  BY Distinct, ThreadIs, IInvWeaker DEF IInv
<1>3. o \in DOMAIN sess /\ o \in Objs
  BY <1>1, NamedIs
<1>4. CASE sess[o].stale
  <2>1. /\ sessions' = [sessions EXCEPT ![i] = None] /\ sess' = [sess EXCEPT ![o] = Unmade(@)]
        /\ th' = [Woken(sess[o]) EXCEPT ![Alarm].pc = "cancel", ![Alarm].obj = o]
    BY <1>4 DEF Sweep
  <2>2. Named(sessions', sess') /\ NoneAdded
    BY <1>2, <2>1 DEF Named, NoneAdded
  <2> HIDE DEF o
  <2>3. /\ Fine(sess, Woken(sess[o]), Alarm)
        /\ \A u \in Threads : \/ Woken(sess[o])[u] = th[u]
                              \/ /\ th[u].pc \in Waiting /\ u # Alarm
                                 /\ Woken(sess[o])[u].pc \in Waiting
    BY <1>2, <1>3, WakeKeeps
  <2> DEFINE k == Woken(sess[o])
  <2>4. k[Alarm] = th[Alarm] /\ k = [u \in Threads |-> k[u]]
    BY <1>2, <2>3 DEF Fine, Standing
  <2> HIDE DEF k
  <2>5. th' = [k EXCEPT ![Alarm] = x]
    BY <1>2, <2>1, <2>4 DEF k
  <2>6. x \in Thread /\ x.pc = "cancel" /\ x.obj = o
    BY <1>2, <1>3 DEF Thread, Labels
  <2>7. th'[Alarm] = x /\ \A u \in Threads \ {Alarm} : th'[u] = k[u]
    BY <1>2, <2>4, <2>5
  <2> HIDE DEF x
  <2>8. Placed(Alarm, x, sess)
    BY <1>3, <2>6, Distinct DEF Placed
  <2>9. \A p \in DOMAIN sess : sess[p].rxWaiter # Alarm
    BY <1>1, <1>2, NotWaiting DEF Waiting
  <2>10. Fine([sess EXCEPT ![o] = Unmade(@)], [Woken(sess[o]) EXCEPT ![Alarm] = x], None)
    BY <1>2, <1>3, <2>6, <2>8, <2>9, UnmakeKeeps
  <2>11. Fine(sess', th', None)
    BY <2>1, <2>5, <2>10 DEF k
  <2>12. SweepWillRun'
    BY <2>6, <2>7 DEF SweepWillRun
  <2> QED
    BY <1>1, <2>2, <2>11, <2>12 DEF IInv
<1>5. CASE ~sess[o].stale
  <2>1. UNCHANGED <<sessions, sess, th>>
    BY <1>5 DEF Sweep
  <2> QED
    BY <1>1, <2>1 DEF IInv, SweepWillRun, Named, Fine, Store, Standing, Waiters, Writers
<1> QED
  BY <1>4, <1>5

\* The session that opens was nobody's, and whoever opened it sees to the alarm.
LEMMA OpenedKeeps == ASSUME IInv, NEW r \in Requests, Opened(r) PROVE IInv'
<1>1. PICK o \in Objs :
        /\ Unused(o)
        /\ sess' = [p \in DOMAIN sess \cup {o} |-> IF p = o THEN New ELSE sess[p]]
        /\ sessions' = [sessions EXCEPT ![th[r].id] = o]
  BY DEF Opened
<1>2. th[r].pc = "connecting" /\ Goto(r, "getAlarm") /\ UNCHANGED <<alarm, visited, evicted>>
  BY DEF Opened
<1> DEFINE ss == [p \in DOMAIN sess \cup {o} |-> IF p = o THEN New ELSE sess[p]]
           x == [th[r] EXCEPT !.pc = "getAlarm"]
<1>3. /\ r \in Threads /\ th[r].id \in Ids /\ th = [u \in Threads |-> th[u]]
      /\ Fine(sess, th, None) /\ Named(sessions, sess)
  BY Distinct, ThreadIs DEF IInv
<1>4. Placed(r, x, sess) /\ x.pc = "getAlarm" /\ th' = [th EXCEPT ![r] = x]
  <2>1. "getAlarm" \in Labels /\ "getAlarm" \notin Held
    BY DEF Labels, Held, Waiting
  <2> QED
    BY <1>2, <1>3, <2>1, GotoIs
<1> HIDE DEF x
<1>5. /\ DOMAIN ss = DOMAIN sess \cup {o} /\ ss[o] = New
      /\ \A p \in DOMAIN sess : p # o => ss[p] = sess[p]
      /\ ss = [p \in DOMAIN ss |-> ss[p]]
  BY <1>1
<1> HIDE DEF ss
<1>a. ASSUME NEW u \in Threads, th[u].pc \in Held
      PROVE  th[u].obj \in DOMAIN sess /\ th[u].obj # o /\ ss[th[u].obj] = sess[th[u].obj]
  BY <1>1, <1>5, <1>a, ThreadIs DEF Unused
<1>6. Sound(New) /\ New.rxWaiter = None
  BY NewIsSound, Distinct DEF New
<1>7. Store(ss)
  BY <1>1, <1>3, <1>5, <1>6 DEF Fine, Store
<1>8. Standing(ss, th) /\ Placed(r, x, ss)
  BY <1>3, <1>4, <1>5 DEF Fine, Standing, Placed
<1>9. Waiters(ss, th)
  <2> SUFFICES ASSUME NEW p \in DOMAIN ss, ss[p].rxWaiter # None
               PROVE  Waits(th[ss[p].rxWaiter], p)
    BY DEF Waiters
  <2>1. p # o /\ p \in DOMAIN sess /\ ss[p] = sess[p]
    BY <1>5, <1>6
  <2> QED
    BY <1>3, <2>1 DEF Fine, Waiters
<1>10. Writers(ss, th, None)
  <2> SUFFICES ASSUME NEW u \in Requests, th[u].pc = "writing" PROVE Writes(u, ss[th[u].obj])
    BY DEF Writers
  <2>1. ss[th[u].obj] = sess[th[u].obj]
    BY <1>a, Distinct DEF Held
  <2>2. Writes(u, sess[th[u].obj])
    BY <1>3, Distinct DEF Fine, Writers
  <2> QED
    BY <2>1, <2>2
<1>11. Fine(ss, th, r)
  BY <1>7, <1>8, <1>9, <1>10, Weaker DEF Fine
<1>12. Fine(ss, [th EXCEPT ![r] = x], None)
  BY <1>2, <1>3, <1>4, <1>8, <1>11, MoveKeeps DEF Waiting
<1>13. sess' = ss
  BY <1>1 DEF ss
<1>14. Fine(sess', th', None)
  BY <1>4, <1>12, <1>13
<1>15. Named(sessions', sess')
  BY <1>1, <1>3, <1>5, <1>13 DEF Named
<1>16. SweepWillRun'
  BY <1>3, <1>4 DEF SweepWillRun
<1> QED
  BY <1>2, <1>14, <1>15, <1>16 DEF IInv

\* After an eviction there are sessions in memory no more.
LEMMA EvictKeeps == ASSUME IInv, Evict PROVE IInv'
<1> DEFINE gone(s) == [s EXCEPT !.pump = "ended", !.reader = "cancelled", !.writer = "closed",
                                !.socket = "closed", !.closed = TRUE, !.drainWaiter = FALSE,
                                !.rxWaiter = None, !.writeMu = <<>>]
           ss == [o \in DOMAIN sess |-> gone(sess[o])]
           rest == [t \in Threads |-> AtRest]
<1>1. /\ evicted' = evicted + 1 /\ evicted < MaxEvict /\ sessions' = [i \in Ids |-> None]
      /\ sess' = ss /\ th' = rest /\ alarm' = (alarm \/ th[Alarm].pc # "idle")
      /\ UNCHANGED visited
  BY DEF Evict
<1>2. ASSUME NEW o \in DOMAIN sess PROVE Sound(gone(sess[o])) /\ gone(sess[o]).rxWaiter = None
  <2> DEFINE s == sess[o]
             u == gone(s)
  <2>1. Sound(s) /\ s \in Sessions
    BY SoundIs DEF Sound
  <2> HIDE DEF s
  <2>2. u \in Sessions
    <3>1. [s EXCEPT !.pump = "ended", !.reader = "cancelled", !.writer = "closed",
                    !.socket = "closed"] \in Sessions
      BY <2>1 DEF Sessions
    <3> DEFINE v == [s EXCEPT !.pump = "ended", !.reader = "cancelled", !.writer = "closed",
                              !.socket = "closed"]
    <3>2. u = [v EXCEPT !.closed = TRUE, !.drainWaiter = FALSE, !.rxWaiter = None,
                        !.writeMu = <<>>]
      BY <2>1 DEF Sessions
    <3>3. v \in Sessions /\ <<>> \in Seq(Threads)
      BY <3>1
    <3> HIDE DEF v, u
    <3> QED
      BY <3>2, <3>3 DEF Sessions
  <2>3. /\ u.rxChunks = s.rxChunks /\ u.rxBytes = s.rxBytes /\ u.taken = s.taken
        /\ u.got = s.got /\ u.told = s.told /\ u.eof = s.eof /\ u.readErr = s.readErr
        /\ u.pump = "ended" /\ u.drainWaiter = FALSE /\ u.rxWaiter = None
    BY <2>1 DEF Sessions
  <2> HIDE DEF u
  <2>4. Sound(u)
    BY <2>1, <2>2, <2>3, SameIsSound
  <2> QED
    BY <2>3, <2>4 DEF u, s
<1>3. /\ DOMAIN ss = DOMAIN sess /\ ss = [o \in DOMAIN ss |-> ss[o]]
      /\ \A o \in DOMAIN ss : Sound(ss[o]) /\ ss[o].rxWaiter = None
  <2> HIDE DEF gone
  <2> QED
    BY <1>2
<1> HIDE DEF ss
<1>4. Store(ss)
  BY <1>3 DEF IInv, Fine, Store
<1>5. Standing(ss, rest)
  BY AtRestIs DEF Standing, Placed, Held, Waiting
<1>6. Waiters(ss, rest)
  BY <1>3 DEF Waiters
<1>7. Writers(ss, rest, None)
  BY AtRestIs, Distinct DEF Writers
<1>8. Fine(sess', th', None)
  BY <1>1, <1>4, <1>5, <1>6, <1>7 DEF Fine
<1>9. Named(sessions', sess')
  BY <1>1 DEF Named
<1>10. SweepWillRun'
  BY <1>1 DEF SweepWillRun
<1>11. evicted' \in 0 .. MaxEvict
  BY <1>1, HubAssumption DEF IInv
<1>12. alarm' \in BOOLEAN /\ visited' \subseteq Ids
  BY <1>1 DEF IInv
<1> QED
  BY <1>8, <1>9, <1>10, <1>11, <1>12 DEF IInv

-----------------------------------------------------------------------------
(* The hub.                                                                *)

LEMMA InitFine == Init => IInv
<1> SUFFICES ASSUME Init PROVE IInv
  OBVIOUS
<1>1. /\ sessions = [i \in Ids |-> None] /\ sess = <<>> /\ th = [t \in Threads |-> AtRest]
      /\ alarm = FALSE /\ visited = {} /\ evicted = 0
  BY DEF Init
<1>2. DOMAIN sess = {}
  BY <1>1
<1>3. Store(sess)
  <2>1. sess = [o \in DOMAIN sess |-> sess[o]]
    BY <1>1, <1>2
  <2> QED
    BY <1>2, <2>1 DEF Store
<1>4. Standing(sess, th) /\ Waiters(sess, th) /\ Writers(sess, th, None)
  BY <1>1, <1>2, AtRestIs, Distinct DEF Standing, Placed, Held, Waiting, Waiters, Writers
<1>5. Named(sessions, sess) /\ SweepWillRun
  BY <1>1 DEF Named, SweepWillRun
<1>6. alarm \in BOOLEAN /\ visited \subseteq Ids /\ evicted \in 0 .. MaxEvict
  <2>1. MaxEvict \in Nat
    BY HubAssumption
  <2>2. 0 \in 0 .. MaxEvict
    BY <2>1
  <2> QED
    BY <1>1, <2>2
<1> QED
  BY <1>3, <1>4, <1>5, <1>6 DEF IInv, Fine

LEMMA StutterKeeps == ASSUME IInv, UNCHANGED vars PROVE IInv'
BY DEF vars, IInv, SweepWillRun, Named, Fine, Store, Standing, Waiters, Writers

LEMMA NextKeeps == IInv /\ [Next]_vars => IInv'
<1> SUFFICES ASSUME IInv, [Next]_vars PROVE IInv'
  OBVIOUS
<1>1. ASSUME NEW r \in Requests, Arrive(r) \/ Request(r) \/ TxEnd(r) PROVE IInv'
  BY <1>1, ArriveKeeps, TxEndKeeps, UnknownKeeps, OpenStartKeeps, OpenFailsKeeps, OpenedKeeps,
     GetAlarmKeeps, SetAlarmKeeps, OpCloseKeeps, TxStartKeeps, TxWriteKeeps, TxFailKeeps,
     RxStartKeeps, RxTimeoutKeeps, RxResumeKeeps DEF Request
<1>2. ASSUME NEW t \in Threads, Closing(t) PROVE IInv'
  BY <1>2, CancelledKeeps, CloseWriterKeeps, CloseSocketKeeps DEF Closing
<1>3. ASSUME NEW o \in DOMAIN sess, PumpRuns(o) \/ GoStale(o) PROVE IInv'
  BY <1>3, PumpRunsKeeps, GoStaleKeeps
<1>4. CASE Fire \/ (\E i \in Ids : Sweep(i)) \/ Swept \/ Evict
  BY <1>4, FireKeeps, SweepKeeps, SweptKeeps, EvictKeeps
<1>5. CASE UNCHANGED vars
  BY <1>5, StutterKeeps
<1> QED
  BY <1>1, <1>2, <1>3, <1>4, <1>5 DEF Next

\* The sessions, and the requests, pumps and alarm at them, stay in the states
\* the code has.
THEOREM HubInvariant == Spec => []IInv
<1> QED
  BY InitFine, NextKeeps, PTL DEF Spec

LEMMA IInvTypes == IInv => TypeOK
<1> SUFFICES ASSUME IInv PROVE TypeOK
  OBVIOUS
<1>1. \A o \in DOMAIN sess : sess[o] \in Sessions
  BY SoundIs DEF Sound
<1>2. \A t \in Threads : th[t] \in Thread
  BY ThreadIs
<1>3. /\ sessions \in [Ids -> Objs \cup {None}] /\ DOMAIN sess \subseteq Objs
      /\ \A i \in Ids : sessions[i] # None => sessions[i] \in DOMAIN sess
  BY DEF IInv, Named, Fine, Store
<1> QED
  BY <1>1, <1>2, <1>3 DEF IInv, TypeOK, Thread

LEMMA IInvStream == IInv => FlowControl /\ StreamIsWhole
<1> SUFFICES ASSUME IInv PROVE FlowControl /\ StreamIsWhole
  OBVIOUS
<1>1. BufferBounded /\ PausedOnlyWhenFull /\ NothingSkipped
  BY SoundIs DEF BufferBounded, PausedOnlyWhenFull, NothingSkipped, Sound
<1>2. EndComesLast
  <2> SUFFICES ASSUME NEW o \in DOMAIN sess, sess[o].told
               PROVE  Len(sess[o].taken) = sess[o].got /\ sess[o].pump = "ended"
    BY DEF EndComesLast
  <2> DEFINE s == sess[o]
  <2>1. Sound(s)
    BY SoundIs
  <2>2. s.rxChunks = <<>> /\ s.pump = "ended" /\ s.rxBytes = Len(Bytes(s.rxChunks))
    BY <2>1 DEF Sound
  <2>3. Bytes(s.rxChunks) = <<>>
    BY <2>2, FlattenEmpty DEF Bytes
  <2>4. Len(s.taken) + s.rxBytes = s.got /\ Len(s.taken) \in Nat /\ s.got \in Nat
    BY <2>1, SoundCounts
  <2>5. s.rxBytes = 0
    BY <2>2, <2>3
  <2> HIDE DEF s
  <2>6. Len(s.taken) = s.got
    BY <2>4, <2>5
  <2> QED
    BY <2>2, <2>6 DEF s
<1> QED
  BY <1>1, <1>2 DEF FlowControl, StreamIsWhole

LEMMA IInvWrites == IInv => NoWriteIsCut
BY Distinct DEF IInv, Fine, Writers, Writes, NoWriteIsCut

LEMMA IInvSweep == IInv => SweepWillRun
BY DEF IInv

\* The hub's variables keep their types; an id is bound to a session that exists.
THEOREM HubTypes == Spec => []TypeOK
<1> QED
  BY HubInvariant, IInvTypes, PTL

\* The buffer of a session is bounded, and a pump is paused only while it is
\* full and the session open (startReadPump, drainRX, closeSession).
THEOREM FlowIsControlled == Spec => []FlowControl
<1>1. IInv => FlowControl
  BY IInvStream
<1> QED
  BY <1>1, HubInvariant, PTL

\* Whatever was read is answered once and in order or still buffered, and the
\* end is told after all of it (startReadPump, drainRX, rxTerminalResp).
THEOREM TheStreamIsWhole == Spec => []StreamIsWhole
<1>1. IInv => StreamIsWhole
  BY IInvStream
<1> QED
  BY <1>1, HubInvariant, PTL

\* No writer is closed under a write (AsyncMutex, opTX, closeSession).
THEOREM WritesAreNotCut == Spec => []NoWriteIsCut
<1> QED
  BY HubInvariant, IInvWrites, PTL

\* As long as an id has a session, an alarm is set, runs or is about to be set
\* (scheduleCleanup, alarm).
THEOREM TheSweepWillRun == Spec => []SweepWillRun
<1> QED
  BY HubInvariant, IInvSweep, PTL
=============================================================================
