--------------------------- MODULE CoalescerProofs ---------------------------
(***************************************************************************)
(* What Coalescer promises its callers, for any number of requests of any  *)
(* kind, any sizes of batch and queue, and any number of URLs and faults.  *)
(***************************************************************************)
EXTENDS Coalescer, SequenceTheorems, FiniteSetTheorems, TLAPS

-----------------------------------------------------------------------------
(* The inductive invariant.                                                *)

JobT == [items : Seq(Items), st : {"new", "try"},
         start : 0 .. Urls - 1, tried : 0 .. Urls - 1]

CallerTypes ==
  /\ caller \in [Items -> {"new", "sending", "waiting", "returned"}]
  /\ answer \in [Items -> Results] /\ slot \in [Items -> Results \ {"stopped"}]

QueueTypes ==
  /\ ch \in Seq(Items) /\ Len(ch) <= ChCap
  /\ runner \in {"idle", "collect", "exited"}
  /\ batch \in Seq(Items) /\ Elems(batch) \cap Large = {} /\ Len(batch) <= MaxBatch
  /\ (runner = "collect") = (batch # <<>>)

JobType(j) == /\ j \in JobT /\ Len(j.items) \in 1 .. MaxBatch
              /\ Single(j) \/ Elems(j.items) \cap Large = {}

CountTypes == /\ stopped \in BOOLEAN
              /\ active \in 0 .. Urls - 1 /\ faults \in 0 .. MaxFaults

\* i is in the channel c, the batch b or one of the flushes js.
Held(i, c, b, js) == i \in Elems(c) \/ i \in Elems(b) \/ \E j \in js : i \in Elems(j.items)

Meet(s, t) == Elems(s) \cap Elems(t) # {}

\* Nothing is held twice.
Apart(c, b, js) ==
  /\ Distinct(c) /\ Distinct(b) /\ \A j \in js : Distinct(j.items)
  /\ ~Meet(c, b)
  /\ \A j \in js : ~Meet(j.items, c) /\ ~Meet(j.items, b)
  /\ \A j, k \in js : Meet(j.items, k.items) => j = k

\* Who has not got into the channel yet has no result, and whoever is held
\* has none yet.
Open(i, held) ==
  /\ caller[i] \in {"new", "sending"} => ~held /\ slot[i] = "none"
  /\ caller[i] # "returned" => answer[i] = "none"
  /\ held => slot[i] = "none" /\ answer[i] \in {"none", "stopped"}

\* Until Stop, whoever waits is held or has an answer.
Expected(i, held) == ~stopped /\ caller[i] = "waiting" => slot[i] # "none" \/ held

Own(i) == /\ answer[i] \in {"none", "error", "stopped"} \cup ({i} \ Invalid)
          /\ slot[i] \in {"none", "error"} \cup ({i} \ Invalid)

IInv ==
  /\ CallerTypes /\ QueueTypes /\ CountTypes /\ \A j \in jobs : JobType(j)
  /\ Apart(ch, batch, jobs)
  /\ \A i \in Items : /\ Open(i, Held(i, ch, batch, jobs))
                      /\ Expected(i, Held(i, ch, batch, jobs))
                      /\ Own(i)

-----------------------------------------------------------------------------
(* Facts about sequences of items.                                         *)

LEMMA ElemsOf ==
  ASSUME NEW S, NEW s \in Seq(S)
  PROVE  Elems(s) \subseteq S /\ \A x : x \in Elems(s) <=> \E k \in 1 .. Len(s) : x = s[k]
BY DEF Elems

LEMMA Empty == Elems(<<>>) = {} /\ Distinct(<<>>)
BY DEF Elems, Distinct

LEMMA Alone ==
  ASSUME NEW i \in Items
  PROVE  /\ <<i>> \in Seq(Items) /\ Len(<<i>>) = 1 /\ <<i>>[1] = i
         /\ Elems(<<i>>) = {i} /\ Distinct(<<i>>)
BY DEF Elems, Distinct

LEMMA Appended ==
  ASSUME NEW s \in Seq(Items), NEW i \in Items
  PROVE  /\ Append(s, i) \in Seq(Items) /\ Len(Append(s, i)) = Len(s) + 1
         /\ Elems(Append(s, i)) = Elems(s) \cup {i}
         /\ Append(s, i) # <<>>
         /\ Distinct(s) /\ i \notin Elems(s) => Distinct(Append(s, i))
<1> DEFINE t == Append(s, i)
<1>1. /\ t \in Seq(Items) /\ Len(t) = Len(s) + 1 /\ t[Len(t)] = i
      /\ \A k \in 1 .. Len(s) : t[k] = s[k]
  BY AppendProperties
<1>2. Len(s) \in Nat /\ t # <<>>
  BY <1>1
<1> HIDE DEF t
<1>3. Elems(t) = Elems(s) \cup {i}
  <2>1. ASSUME NEW x \in Elems(t) PROVE x \in Elems(s) \cup {i}
    <3>1. PICK k \in 1 .. Len(t) : x = t[k]
      BY <1>1, <2>1, ElemsOf
    <3>2. k \in 1 .. Len(s) \/ k = Len(t)
      BY <1>1, <1>2
    <3> QED
      BY <1>1, <3>1, <3>2, ElemsOf
  <2>2. ASSUME NEW x \in Elems(s) PROVE x \in Elems(t)
    <3>1. PICK k \in 1 .. Len(s) : x = s[k]
      BY <2>2, ElemsOf
    <3>2. k \in 1 .. Len(t) /\ x = t[k]
      BY <1>1, <1>2, <3>1
    <3> QED
      BY <1>1, <3>2, ElemsOf
  <2>3. i \in Elems(t)
    <3>1. Len(t) \in 1 .. Len(t)
      BY <1>1, <1>2
    <3> QED
      BY <1>1, <3>1, ElemsOf
  <2> QED
    BY <2>1, <2>2, <2>3
<1>4. ASSUME Distinct(s), i \notin Elems(s) PROVE Distinct(t)
  <2> SUFFICES ASSUME NEW k \in DOMAIN t, NEW l \in DOMAIN t, t[k] = t[l] PROVE k = l
    BY DEF Distinct
  <2>1. DOMAIN t = 1 .. Len(t) /\ DOMAIN s = 1 .. Len(s)
    BY <1>1
  <2>2. (k \in 1 .. Len(s) \/ k = Len(t)) /\ (l \in 1 .. Len(s) \/ l = Len(t))
    BY <1>1, <1>2, <2>1
  <2>3. \A m \in 1 .. Len(s) : t[m] \in Elems(s)
    BY <1>1, ElemsOf
  <2> QED
    BY <1>1, <1>4, <2>1, <2>2, <2>3 DEF Distinct
<1> QED
  BY <1>1, <1>2, <1>3, <1>4 DEF t

LEMMA Taken ==
  ASSUME NEW s \in Seq(Items), s # <<>>
  PROVE  /\ Head(s) \in Items /\ Tail(s) \in Seq(Items) /\ Len(Tail(s)) = Len(s) - 1
         /\ Elems(s) = Elems(Tail(s)) \cup {Head(s)}
         /\ Distinct(s) => Distinct(Tail(s)) /\ Head(s) \notin Elems(Tail(s))
<1> DEFINE t == Tail(s)
<1>1. /\ Head(s) = s[1] /\ s[1] \in Items /\ t \in Seq(Items) /\ Len(t) = Len(s) - 1
      /\ \A k \in 1 .. Len(t) : t[k] = s[k + 1]
      /\ Len(s) \in Nat /\ Len(s) >= 1 /\ Len(t) \in Nat
  BY HeadTailProperties
<1> HIDE DEF t
<1>2. Elems(s) = Elems(t) \cup {Head(s)}
  <2>1. ASSUME NEW x \in Elems(s) PROVE x \in Elems(t) \cup {Head(s)}
    <3>1. PICK k \in 1 .. Len(s) : x = s[k]
      BY <2>1, ElemsOf
    <3>2. k = 1 \/ (k - 1 \in 1 .. Len(t) /\ t[k - 1] = s[k])
      BY <1>1
    <3> QED
      BY <1>1, <3>1, <3>2, ElemsOf
  <2>2. ASSUME NEW x \in Elems(t) PROVE x \in Elems(s)
    <3>1. PICK k \in 1 .. Len(t) : x = t[k]
      BY <1>1, <2>2, ElemsOf
    <3>2. k + 1 \in 1 .. Len(s) /\ x = s[k + 1]
      BY <1>1, <3>1
    <3> QED
      BY <3>2, ElemsOf
  <2>3. Head(s) \in Elems(s)
    <3>1. 1 \in 1 .. Len(s)
      BY <1>1
    <3> QED
      BY <1>1, <3>1, ElemsOf
  <2> QED
    BY <2>1, <2>2, <2>3
<1>3. ASSUME Distinct(s) PROVE Distinct(t) /\ Head(s) \notin Elems(t)
  <2>1. DOMAIN t = 1 .. Len(t) /\ DOMAIN s = 1 .. Len(s)
    BY <1>1
  <2>2. Distinct(t)
    <3> SUFFICES ASSUME NEW k \in DOMAIN t, NEW l \in DOMAIN t, t[k] = t[l] PROVE k = l
      BY DEF Distinct
    <3>1. k + 1 \in DOMAIN s /\ l + 1 \in DOMAIN s /\ s[k + 1] = s[l + 1]
      BY <1>1, <2>1
    <3>2. k + 1 = l + 1
      BY <1>3, <3>1 DEF Distinct
    <3> QED
      BY <2>1, <3>2
  <2>3. ASSUME Head(s) \in Elems(t) PROVE FALSE
    <3>1. PICK k \in 1 .. Len(t) : Head(s) = t[k]
      BY <1>1, <2>3, ElemsOf
    <3>2. k + 1 \in DOMAIN s /\ 1 \in DOMAIN s /\ s[k + 1] = s[1]
      BY <1>1, <2>1, <3>1
    <3>3. k + 1 = 1
      BY <1>3, <3>2 DEF Distinct
    <3> QED
      BY <3>3
  <2> QED
    BY <2>2, <2>3
<1> QED
  BY <1>1, <1>2, <1>3 DEF t

-----------------------------------------------------------------------------
(* prioritizeBatch only reorders, and doBatch_ gives each result its place. *)

LEMMA CountsGrow ==
  ASSUME NEW n \in Nat, NEW S \in SUBSET (1 .. n), NEW T \in SUBSET S
  PROVE  /\ Cardinality(S) \in 0 .. n /\ Cardinality(T) <= Cardinality(S)
         /\ S # {} => Cardinality(S) \in 1 .. n
         /\ T # S => Cardinality(T) # Cardinality(S)
<1>1. IsFiniteSet(1 .. n) /\ Cardinality(1 .. n) = n
  BY FS_Interval
<1>2. IsFiniteSet(S) /\ Cardinality(S) <= n
  BY <1>1, FS_Subset
<1>3. /\ IsFiniteSet(T) /\ Cardinality(T) <= Cardinality(S)
      /\ Cardinality(S) = Cardinality(T) => S = T
  BY <1>2, FS_Subset
<1>4. Cardinality(S) \in Nat /\ Cardinality(T) \in Nat
  BY <1>2, <1>3, FS_CardinalityType
<1>5. S # {} => Cardinality(S) # 0
  BY <1>2, FS_EmptySet
<1> DEFINE a == Cardinality(S)
           b == Cardinality(T)
<1>6. a \in Nat /\ b \in Nat /\ a <= n /\ b <= a /\ (S # {} => a # 0) /\ (T # S => b # a)
  BY <1>2, <1>3, <1>4, <1>5
<1> HIDE DEF a, b
<1>7. a \in 0 .. n /\ b <= a /\ (S # {} => a \in 1 .. n) /\ (T # S => b # a)
  BY <1>6
<1> QED
  BY <1>7 DEF a, b

Below(s, k) == {l \in DOMAIN s : Before(s, l, k)}

LEMMA RankIs ==
  ASSUME NEW s \in Seq(Items), NEW k \in DOMAIN s
  PROVE  Cardinality(Below(s, k)) \in 1 .. Len(s)
<1>1. DOMAIN s = 1 .. Len(s) /\ Len(s) \in Nat /\ s[k] \in Items /\ Prio[s[k]] \in Nat
  BY CoalescerAssumption
<1>2. k \in Below(s, k)
  BY <1>1 DEF Below, Before
<1>3. Below(s, k) \in SUBSET (1 .. Len(s))
  BY <1>1 DEF Below
<1> QED
  BY <1>1, <1>2, <1>3, CountsGrow

LEMMA RanksDiffer ==
  ASSUME NEW s \in Seq(Items), NEW k \in DOMAIN s, NEW l \in DOMAIN s,
         Cardinality(Below(s, k)) = Cardinality(Below(s, l))
  PROVE  k = l
<1>1. DOMAIN s = 1 .. Len(s) /\ Len(s) \in Nat /\ \A m \in DOMAIN s : m \in Nat /\ Prio[s[m]] \in Nat
  BY CoalescerAssumption
<1>2. ASSUME NEW x \in DOMAIN s, NEW y \in DOMAIN s, x # y, Before(s, x, y)
      PROVE  Cardinality(Below(s, x)) # Cardinality(Below(s, y))
  <2>1. ~Before(s, y, x)
    BY <1>1, <1>2 DEF Before
  <2>2. ASSUME NEW m \in DOMAIN s, Before(s, m, x) PROVE Before(s, m, y)
    BY <1>1, <1>2, <2>2 DEF Before
  <2>3. /\ Below(s, x) \in SUBSET Below(s, y) /\ Below(s, y) \in SUBSET (1 .. Len(s))
    BY <1>1, <2>2 DEF Below
  <2>4. Before(s, y, y)
    BY <1>1 DEF Before
  <2>5. Below(s, x) # Below(s, y)
    BY <2>1, <2>4 DEF Below
  <2> QED
    BY <1>1, <2>3, <2>5, CountsGrow
<1>3. Before(s, k, l) \/ Before(s, l, k)
  BY <1>1 DEF Before
<1> QED
  BY <1>2, <1>3

LEMMA PrioritizedIs ==
  ASSUME NEW s \in Seq(Items)
  PROVE  /\ Prioritized(s) \in Seq(Items) /\ Len(Prioritized(s)) = Len(s)
         /\ Elems(Prioritized(s)) = Elems(s)
         /\ Distinct(s) => Distinct(Prioritized(s))
<1> DEFINE rank == [k \in DOMAIN s |-> Cardinality(Below(s, k))]
           at(n) == CHOOSE k \in DOMAIN s : Cardinality({l \in DOMAIN s : Before(s, l, k)}) = n
           p == Prioritized(s)
<1>1. DOMAIN s = 1 .. Len(s) /\ Len(s) \in Nat
  OBVIOUS
<1>2. rank \in Injection(DOMAIN s, DOMAIN s)
  <2>1. rank \in [DOMAIN s -> DOMAIN s]
    BY <1>1, RankIs
  <2>2. \A k, l \in DOMAIN s : rank[k] = rank[l] => k = l
    BY RanksDiffer
  <2> HIDE DEF rank
  <2> QED
    BY <2>1, <2>2 DEF Injection, IsInjective
<1>3. rank \in Surjection(DOMAIN s, DOMAIN s)
  <2>1. IsFiniteSet(DOMAIN s)
    BY <1>1, FS_Interval
  <2> HIDE DEF rank
  <2> QED
    BY <1>2, <2>1, FS_Injection
<1>4. \A n \in DOMAIN s : at(n) \in DOMAIN s /\ rank[at(n)] = n
  <2> SUFFICES ASSUME NEW n \in DOMAIN s PROVE at(n) \in DOMAIN s /\ rank[at(n)] = n
    OBVIOUS
  <2>1. \E k \in DOMAIN s : rank[k] = n
    BY <1>3 DEF Surjection
  <2>2. \E k \in DOMAIN s : Cardinality({l \in DOMAIN s : Before(s, l, k)}) = n
    BY <2>1 DEF Below
  <2>3. at(n) \in DOMAIN s /\ Cardinality({l \in DOMAIN s : Before(s, l, at(n))}) = n
    BY <2>2
  <2> QED
    BY <2>3 DEF Below
<1>5. p = [n \in DOMAIN s |-> s[at(n)]]
  BY DEF Prioritized
<1>6. \A k, l \in DOMAIN s : rank[k] = rank[l] => k = l
  BY RanksDiffer
<1>7. \A k \in DOMAIN s : rank[k] \in DOMAIN s
  BY <1>1, RankIs
<1> HIDE DEF rank, at, p
<1>8. /\ p \in Seq(Items) /\ Len(p) = Len(s) /\ DOMAIN p = DOMAIN s
  <2>1. \A n \in 1 .. Len(s) : s[at(n)] \in Items
    BY <1>1, <1>4
  <2> QED
    BY <1>1, <1>5, <2>1
<1>9. \A n \in DOMAIN s : p[n] = s[at(n)]
  BY <1>5
<1>10. Elems(p) = Elems(s)
  <2>1. \A k \in DOMAIN s : at(rank[k]) = k
    BY <1>4, <1>6, <1>7
  <2> QED
    BY <1>4, <1>7, <1>8, <1>9, <2>1 DEF Elems
<1>11. ASSUME Distinct(s) PROVE Distinct(p)
  <2> SUFFICES ASSUME NEW k \in DOMAIN s, NEW l \in DOMAIN s, p[k] = p[l] PROVE k = l
    BY <1>8 DEF Distinct
  <2>1. at(k) = at(l)
    BY <1>4, <1>9, <1>11 DEF Distinct
  <2> QED
    BY <1>4, <2>1
<1> QED
  BY <1>8, <1>10, <1>11 DEF p

LEMMA DoBatchIs ==
  ASSUME NEW s \in Seq(Items), NEW k \in DOMAIN s
  PROVE  DoBatch(s)[k] \in {"error"} \cup ({s[k]} \ Invalid)
<1> DEFINE upto(n) == {l \in 1 .. n : s[l] \notin Invalid}
           at(n) == CHOOSE m \in DOMAIN s : s[m] \notin Invalid /\ Fetches(s, m) = n
<1>1. DOMAIN s = 1 .. Len(s) /\ Len(s) \in Nat
  OBVIOUS
<1>2. DoBatch(s)[k] = IF s[k] \in Invalid THEN "error" ELSE Fetched(s)[Fetches(s, k)]
  BY DEF DoBatch
<1>3. CASE s[k] \in Invalid
  BY <1>2, <1>3
<1>4. CASE s[k] \notin Invalid
  <2>1. \A n : Fetches(s, n) = Cardinality(upto(n))
    BY DEF Fetches
  <2>2. Fetches(s, k) \in 1 .. Fetches(s, Len(s))
    <3>1. upto(k) # {} /\ upto(k) \in SUBSET upto(Len(s)) /\ upto(Len(s)) \in SUBSET (1 .. Len(s))
          /\ upto(k) \in SUBSET (1 .. Len(s))
      BY <1>1, <1>4
    <3> HIDE DEF upto
    <3>2. /\ Cardinality(upto(Len(s))) \in 0 .. Len(s)
          /\ Cardinality(upto(k)) <= Cardinality(upto(Len(s)))
          /\ Cardinality(upto(k)) \in 1 .. Len(s)
      BY <1>1, <3>1, CountsGrow
    <3> QED
      BY <1>1, <2>1, <3>2
  <2>3. ASSUME NEW m \in DOMAIN s, NEW n \in DOMAIN s, m < n, s[n] \notin Invalid
        PROVE  Fetches(s, m) # Fetches(s, n)
    <3>1. /\ upto(m) \in SUBSET upto(n) /\ upto(n) \in SUBSET (1 .. Len(s))
          /\ upto(m) # upto(n)
      <4>1. n \in upto(n) /\ n \notin upto(m)
        BY <1>1, <2>3
      <4>2. upto(m) \in SUBSET upto(n) /\ upto(n) \in SUBSET (1 .. Len(s))
        BY <1>1, <2>3
      <4> QED
        BY <4>1, <4>2
    <3> HIDE DEF upto
    <3>2. Cardinality(upto(m)) # Cardinality(upto(n))
      BY <1>1, <3>1, CountsGrow
    <3> QED
      BY <2>1, <3>2
  <2>4. at(Fetches(s, k)) = k
    <3>1. /\ at(Fetches(s, k)) \in DOMAIN s /\ s[at(Fetches(s, k))] \notin Invalid
          /\ Fetches(s, at(Fetches(s, k))) = Fetches(s, k)
      BY <1>4
    <3> HIDE DEF at
    <3>2. at(Fetches(s, k)) < k \/ k < at(Fetches(s, k)) \/ at(Fetches(s, k)) = k
      BY <1>1, <3>1
    <3> QED
      BY <1>4, <2>3, <3>1, <3>2
  <2>5. Fetched(s)[Fetches(s, k)] = s[at(Fetches(s, k))]
    BY <2>2 DEF Fetched
  <2> QED
    BY <1>2, <1>4, <2>4, <2>5
<1> QED
  BY <1>3, <1>4

-----------------------------------------------------------------------------
(* How items pass from hand to hand.                                       *)

LEMMA JobIs ==
  ASSUME NEW s \in Seq(Items)
  PROVE  Job(s) \in JobT /\ Job(s).items = s /\ Job(s).st = "new"
<1>1. Urls \in Nat \ {0}
  BY CoalescerAssumption
<1>2. 0 \in 0 .. Urls - 1
  BY <1>1
<1> QED
  BY <1>2 DEF Job, JobT

LEMMA SingleType ==
  ASSUME NEW i \in Items
  PROVE  JobType(Job(<<i>>))
<1> DEFINE j == Job(<<i>>)
<1>1. <<i>> \in Seq(Items) /\ Len(<<i>>) = 1 /\ MaxBatch \in Nat \ {0}
  BY Alone, CoalescerAssumption
<1>2. j \in JobT /\ Len(j.items) = 1
  BY <1>1, JobIs
<1>3. 1 \in 1 .. MaxBatch
  BY <1>1
<1> HIDE DEF j
<1>4. JobType(j)
  BY <1>2, <1>3 DEF JobType, Single
<1> QED
  BY <1>4 DEF j

LEMMA SendApart ==
  ASSUME NEW c \in Seq(Items), NEW b, NEW js, NEW i \in Items,
         Apart(c, b, js), ~Held(i, c, b, js)
  PROVE  /\ Apart(Append(c, i), b, js)
         /\ \A x : Held(x, Append(c, i), b, js) <=> Held(x, c, b, js) \/ x = i
<1> DEFINE d == Append(c, i)
<1>1. Elems(d) = Elems(c) \cup {i} /\ Distinct(d)
  BY Appended DEF Apart, Held
<1> HIDE DEF d
<1>2. \A x : Held(x, d, b, js) <=> Held(x, c, b, js) \/ x = i
  BY <1>1 DEF Held
<1>3. Apart(d, b, js)
  BY <1>1 DEF Apart, Held, Meet
<1> QED
  BY <1>2, <1>3 DEF d

LEMMA BatchApart ==
  ASSUME NEW c \in Seq(Items), c # <<>>, NEW b \in Seq(Items), NEW js, Apart(c, b, js)
  PROVE  /\ Apart(Tail(c), Append(b, Head(c)), js)
         /\ \A x : Held(x, Tail(c), Append(b, Head(c)), js) <=> Held(x, c, b, js)
<1> DEFINE i == Head(c)
           d == Tail(c)
           e == Append(b, i)
<1>1. /\ i \in Items /\ Elems(c) = Elems(d) \cup {i} /\ Distinct(d) /\ i \notin Elems(d)
  BY Taken DEF Apart
<1>2. i \notin Elems(b)
  BY <1>1 DEF Apart, Meet
<1> HIDE DEF i, d
<1>3. Elems(e) = Elems(b) \cup {i} /\ Distinct(e)
  BY <1>1, <1>2, Appended DEF Apart
<1> HIDE DEF e
<1>4. \A x : Held(x, d, e, js) <=> Held(x, c, b, js)
  BY <1>1, <1>3 DEF Held
<1>5. Apart(d, e, js)
  <2>1. Distinct(d) /\ Distinct(e) /\ \A j \in js : Distinct(j.items)
    BY <1>1, <1>3 DEF Apart
  <2>2. ~Meet(d, e)
    BY <1>1, <1>3 DEF Apart, Meet
  <2>3. \A j \in js : ~Meet(j.items, d) /\ ~Meet(j.items, e)
    BY <1>1, <1>3 DEF Apart, Meet
  <2>4. \A j, k \in js : Meet(j.items, k.items) => j = k
    BY DEF Apart
  <2> QED
    BY <2>1, <2>2, <2>3, <2>4 DEF Apart
<1> QED
  BY <1>4, <1>5 DEF d, e, i

LEMMA AddApart ==
  ASSUME NEW c, NEW b, NEW js, NEW j, Apart(c, b, js), Distinct(j.items),
         ~Meet(j.items, c), ~Meet(j.items, b), \A k \in js : ~Meet(j.items, k.items)
  PROVE  /\ Apart(c, b, js \cup {j})
         /\ \A x : Held(x, c, b, js \cup {j}) <=> Held(x, c, b, js) \/ x \in Elems(j.items)
<1> DEFINE new == js \cup {j}
<1>1. \A k \in new : k \in js \/ k = j
  OBVIOUS
<1>2. js \subseteq new /\ j \in new
  OBVIOUS
<1> HIDE DEF new
<1>3. \A x : Held(x, c, b, new) <=> Held(x, c, b, js) \/ x \in Elems(j.items)
  BY <1>1, <1>2 DEF Held
<1>4. \A k, l \in new : Meet(k.items, l.items) => k = l
  <2> SUFFICES ASSUME NEW k \in new, NEW l \in new, Meet(k.items, l.items) PROVE k = l
    OBVIOUS
  <2>1. k \in js /\ l \in js => k = l
    BY DEF Apart
  <2>2. Meet(l.items, k.items)
    BY DEF Meet
  <2> QED
    BY <1>1, <2>1, <2>2
<1>5. Apart(c, b, new)
  BY <1>1, <1>4 DEF Apart
<1> QED
  BY <1>3, <1>5 DEF new

LEMMA JobApart ==
  ASSUME NEW c \in Seq(Items), c # <<>>, NEW b, NEW js, Apart(c, b, js)
  PROVE  /\ Apart(Tail(c), b, js \cup Singles({Head(c)}))
         /\ \A x : Held(x, Tail(c), b, js \cup Singles({Head(c)})) <=> Held(x, c, b, js)
<1> DEFINE i == Head(c)
           d == Tail(c)
           j == Job(<<i>>)
<1>1. /\ i \in Items /\ Elems(c) = Elems(d) \cup {i} /\ Distinct(d) /\ i \notin Elems(d)
  BY Taken DEF Apart
<1>2. Singles({i}) = {j}
  BY DEF Singles
<1> HIDE DEF i, d
<1>3. Elems(j.items) = {i} /\ Distinct(j.items)
  BY <1>1, Alone, JobIs
<1> HIDE DEF j
<1>4. Apart(d, b, js)
  BY <1>1 DEF Apart, Meet
<1>5. ~Meet(j.items, d) /\ ~Meet(j.items, b) /\ \A k \in js : ~Meet(j.items, k.items)
  BY <1>1, <1>3 DEF Apart, Meet
<1>6. /\ Apart(d, b, js \cup {j})
      /\ \A x : Held(x, d, b, js \cup {j}) <=> Held(x, d, b, js) \/ x \in Elems(j.items)
  BY <1>3, <1>4, <1>5, AddApart
<1>7. \A x : Held(x, c, b, js) <=> Held(x, d, b, js) \/ x = i
  BY <1>1 DEF Held
<1> QED
  BY <1>2, <1>3, <1>6, <1>7 DEF d, i

LEMMA EmitApart ==
  ASSUME NEW c, NEW b \in Seq(Items), NEW js, Apart(c, b, js)
  PROVE  /\ Apart(c, <<>>, js \cup {Job(Prioritized(b))})
         /\ \A x : Held(x, c, <<>>, js \cup {Job(Prioritized(b))}) <=> Held(x, c, b, js)
<1> DEFINE j == Job(Prioritized(b))
<1>1. Elems(j.items) = Elems(b) /\ Distinct(j.items)
  BY PrioritizedIs, JobIs DEF Apart
<1> HIDE DEF j
<1>2. Apart(c, <<>>, js)
  BY Empty DEF Apart, Meet
<1>3. ~Meet(j.items, c) /\ ~Meet(j.items, <<>>) /\ \A k \in js : ~Meet(j.items, k.items)
  BY <1>1, Empty DEF Apart, Meet
<1>4. /\ Apart(c, <<>>, js \cup {j})
      /\ \A x : Held(x, c, <<>>, js \cup {j}) <=> Held(x, c, <<>>, js) \/ x \in Elems(j.items)
  BY <1>1, <1>2, <1>3, AddApart
<1>5. \A x : Held(x, c, b, js) <=> Held(x, c, <<>>, js) \/ x \in Elems(b)
  BY Empty DEF Held
<1> QED
  BY <1>1, <1>4, <1>5 DEF j

LEMMA DropApart ==
  ASSUME NEW c, NEW b, NEW js, Apart(c, b, js)
  PROVE  Apart(c, <<>>, js) /\ \A x : Held(x, c, <<>>, js) => Held(x, c, b, js)
BY Empty DEF Apart, Meet, Held

LEMMA DoneApart ==
  ASSUME NEW c, NEW b, NEW js, NEW j \in js, Apart(c, b, js)
  PROVE  /\ Apart(c, b, js \ {j})
         /\ \A x : Held(x, c, b, js \ {j}) <=> Held(x, c, b, js) /\ x \notin Elems(j.items)
<1>1. Apart(c, b, js \ {j})
  BY DEF Apart
<1>2. \A x : Held(x, c, b, js \ {j}) <=> Held(x, c, b, js) /\ x \notin Elems(j.items)
  BY DEF Held, Apart, Meet
<1> QED
  BY <1>1, <1>2

LEMMA SwapApart ==
  ASSUME NEW c, NEW b, NEW js, NEW j \in js, NEW k, k.items = j.items, Apart(c, b, js)
  PROVE  /\ Apart(c, b, (js \ {j}) \cup {k})
         /\ \A x : Held(x, c, b, (js \ {j}) \cup {k}) <=> Held(x, c, b, js)
<1> DEFINE less == js \ {j}
<1>1. /\ Apart(c, b, less)
      /\ \A x : Held(x, c, b, less) <=> Held(x, c, b, js) /\ x \notin Elems(j.items)
  BY DoneApart
<1>2. \A l \in less : l \in js /\ l # j
  OBVIOUS
<1> HIDE DEF less
<1>3. Distinct(k.items) /\ ~Meet(k.items, c) /\ ~Meet(k.items, b)
  BY DEF Apart
<1>4. \A l \in less : ~Meet(k.items, l.items)
  BY <1>2 DEF Apart, Meet
<1>5. /\ Apart(c, b, less \cup {k})
      /\ \A x : Held(x, c, b, less \cup {k}) <=> Held(x, c, b, less) \/ x \in Elems(k.items)
  BY <1>1, <1>3, <1>4, AddApart
<1>6. \A x \in Elems(j.items) : Held(x, c, b, js)
  BY DEF Held
<1> QED
  BY <1>1, <1>5, <1>6 DEF less

LEMMA ScatterApart ==
  ASSUME NEW c, NEW b, NEW js, NEW j \in js, j.items \in Seq(Items), Apart(c, b, js)
  PROVE  /\ Apart(c, b, (js \ {j}) \cup Singles(Elems(j.items)))
         /\ \A x : Held(x, c, b, (js \ {j}) \cup Singles(Elems(j.items)))
                     <=> Held(x, c, b, js)
<1> DEFINE less == js \ {j}
           E == Elems(j.items)
           single == Singles(E)
           new == less \cup single
<1>1. /\ Apart(c, b, less)
      /\ \A x : Held(x, c, b, less) <=> Held(x, c, b, js) /\ x \notin E
  BY DoneApart
<1>2. \A l \in less : l \in js /\ l # j
  OBVIOUS
<1>3. E \subseteq Items /\ single = {Job(<<i>>) : i \in E}
  BY ElemsOf DEF Singles
<1>4. \A i \in E : Elems(Job(<<i>>).items) = {i} /\ Distinct(Job(<<i>>).items)
  BY <1>3, Alone, JobIs
<1>5. \A k \in single : \E i \in E : k = Job(<<i>>) /\ Elems(k.items) = {i} /\ Distinct(k.items)
  BY <1>3, <1>4
<1>6. \A i \in E : \E k \in single : Elems(k.items) = {i}
  BY <1>3, <1>4
<1>7. \A i \in E : i \notin Elems(c) /\ i \notin Elems(b) /\ \A l \in less : i \notin Elems(l.items)
  BY <1>2 DEF Apart, Meet
<1>8. \A k \in new : k \in less \/ k \in single
  OBVIOUS
<1>9. less \subseteq new /\ single \subseteq new
  OBVIOUS
<1>10. \A x \in E : Held(x, c, b, js)
  BY DEF Held
<1> HIDE DEF less, E, single, new
<1>11. \A x : Held(x, c, b, new) <=> Held(x, c, b, js)
  <2>1. ASSUME NEW x, Held(x, c, b, new) PROVE Held(x, c, b, js)
    <3>1. CASE Held(x, c, b, less)
      BY <1>1, <3>1
    <3>2. CASE \E k \in single : x \in Elems(k.items)
      BY <1>5, <1>10, <3>2
    <3> QED
      BY <1>8, <2>1, <3>1, <3>2 DEF Held
  <2>2. ASSUME NEW x, Held(x, c, b, js) PROVE Held(x, c, b, new)
    <3>1. CASE x \in E
      BY <1>6, <1>9, <3>1 DEF Held
    <3>2. CASE x \notin E
      BY <1>1, <1>9, <2>2, <3>2 DEF Held
    <3> QED
      BY <3>1, <3>2
  <2> QED
    BY <2>1, <2>2
<1>12. Apart(c, b, new)
  <2>1. Distinct(c) /\ Distinct(b) /\ ~Meet(c, b)
    BY <1>1 DEF Apart
  <2>2. ASSUME NEW k \in new
        PROVE  Distinct(k.items) /\ ~Meet(k.items, c) /\ ~Meet(k.items, b)
    <3>1. CASE k \in less
      BY <1>1, <3>1 DEF Apart
    <3>2. CASE k \in single
      BY <1>5, <1>7, <3>2 DEF Meet
    <3> QED
      BY <1>8, <3>1, <3>2
  <2>3. ASSUME NEW k \in new, NEW l \in new, Meet(k.items, l.items) PROVE k = l
    <3>1. CASE k \in less /\ l \in less
      BY <1>1, <2>3, <3>1 DEF Apart
    <3>2. CASE k \in single /\ l \in single
      BY <1>5, <2>3, <3>2 DEF Meet
    <3>3. CASE k \in less /\ l \in single
      BY <1>5, <1>7, <2>3, <3>3 DEF Meet
    <3>4. CASE k \in single /\ l \in less
      BY <1>5, <1>7, <2>3, <3>4 DEF Meet
    <3> QED
      BY <1>8, <3>1, <3>2, <3>3, <3>4
  <2> QED
    BY <2>1, <2>2, <2>3 DEF Apart
<1> QED
  BY <1>11, <1>12 DEF new, less, single, E

-----------------------------------------------------------------------------
(* What the steps of the state have in common.                             *)

\* A step that only passes items on, or drops some after Stop.
LEMMA PassedOn ==
  ASSUME IInv, UNCHANGED <<caller, answer, slot>>, stopped => stopped',
         \A i \in Items : Held(i, ch', batch', jobs') => Held(i, ch, batch, jobs),
         \A i \in Items : ~stopped' /\ Held(i, ch, batch, jobs) => Held(i, ch', batch', jobs')
  PROVE  /\ CallerTypes'
         /\ \A i \in Items : /\ Open(i, Held(i, ch, batch, jobs))'
                             /\ Expected(i, Held(i, ch, batch, jobs))'
                             /\ Own(i)'
<1>1. CallerTypes'
  BY DEF IInv, CallerTypes
<1> SUFFICES ASSUME NEW i \in Items
             PROVE  /\ Open(i, Held(i, ch, batch, jobs))'
                    /\ Expected(i, Held(i, ch, batch, jobs))'
                    /\ Own(i)'
  BY <1>1
<1> DEFINE old == Held(i, ch, batch, jobs)
           new == Held(i, ch', batch', jobs')
<1>2. Open(i, old) /\ Expected(i, old) /\ Own(i)
  BY DEF IInv
<1>3. (new => old) /\ (~stopped' /\ old => new)
  OBVIOUS
<1>4. caller' = caller /\ answer' = answer /\ slot' = slot /\ (~stopped' => ~stopped)
  OBVIOUS
<1> HIDE DEF old, new
<1>5. /\ caller'[i] \in {"new", "sending"} => ~new /\ slot'[i] = "none"
      /\ caller'[i] # "returned" => answer'[i] = "none"
      /\ new => slot'[i] = "none" /\ answer'[i] \in {"none", "stopped"}
  BY <1>2, <1>3, <1>4 DEF Open
<1>6. ~stopped' /\ caller'[i] = "waiting" => slot'[i] # "none" \/ new
  BY <1>2, <1>3, <1>4 DEF Expected
<1>7. Own(i)'
  BY <1>2, <1>4 DEF Own
<1> QED
  BY <1>5, <1>6, <1>7 DEF Open, Expected, new

\* A step of one caller, with the hands as they are.
LEMMA CallerMoves ==
  ASSUME IInv, NEW i \in Items, UNCHANGED <<ch, batch, jobs, runner, stopped, active, faults>>,
         CallerTypes',
         \A k \in Items \ {i} : caller'[k] = caller[k] /\ answer'[k] = answer[k]
                                /\ slot'[k] = slot[k],
         Open(i, Held(i, ch, batch, jobs))', Expected(i, Held(i, ch, batch, jobs))', Own(i)'
  PROVE  IInv'
<1>1. QueueTypes' /\ CountTypes' /\ Apart(ch, batch, jobs)'
  BY DEF IInv, QueueTypes, CountTypes
<1>2. (\A j \in jobs : JobType(j))'
  BY DEF IInv, JobType, Single
<1>3. ASSUME NEW k \in Items
      PROVE  /\ Open(k, Held(k, ch, batch, jobs))'
             /\ Expected(k, Held(k, ch, batch, jobs))'
             /\ Own(k)'
  <2>1. CASE k = i
    BY <2>1
  <2>2. CASE k # i
    <3> DEFINE h == Held(k, ch, batch, jobs)
    <3>1. Held(k, ch, batch, jobs)' = h
      OBVIOUS
    <3>2. Open(k, h) /\ Expected(k, h) /\ Own(k)
      BY DEF IInv
    <3> HIDE DEF h
    <3>3. caller'[k] = caller[k] /\ answer'[k] = answer[k] /\ slot'[k] = slot[k]
          /\ stopped' = stopped
      BY <2>2
    <3> QED
      BY <3>1, <3>2, <3>3 DEF Open, Expected, Own
  <2> QED
    BY <2>1, <2>2
<1> QED
  BY <1>1, <1>2, <1>3 DEF IInv

-----------------------------------------------------------------------------
(* Submit.                                                                 *)

LEMMA CallKeeps ==
  ASSUME IInv, NEW i \in Items, Call(i)
  PROVE  IInv'
<1>1. /\ caller[i] = "new" /\ caller' = [caller EXCEPT ![i] = "sending"]
      /\ answer' = answer /\ slot' = slot /\ UNCHANGED <<ch, batch, jobs, runner, stopped, active, faults>>
  BY DEF Call
<1>2. CallerTypes
  BY DEF IInv
<1>3. /\ CallerTypes' /\ caller'[i] = "sending" /\ answer'[i] = answer[i] /\ slot'[i] = slot[i]
      /\ \A k \in Items \ {i} : caller'[k] = caller[k] /\ answer'[k] = answer[k]
                                /\ slot'[k] = slot[k]
  <2>1. CallerTypes'
    BY <1>1, <1>2 DEF CallerTypes
  <2> QED
    BY <1>1, <1>2, <2>1 DEF CallerTypes
<1> DEFINE h == Held(i, ch, batch, jobs)
<1>4. Held(i, ch, batch, jobs)' = h
  BY <1>1
<1>5. Open(i, h) /\ Own(i)
  BY DEF IInv
<1> HIDE DEF h
<1>6. Open(i, Held(i, ch, batch, jobs))' /\ Expected(i, Held(i, ch, batch, jobs))' /\ Own(i)'
  BY <1>1, <1>3, <1>4, <1>5 DEF Open, Expected, Own
<1> QED
  BY <1>1, <1>3, <1>6, CallerMoves

LEMMA ReceiveKeeps ==
  ASSUME IInv, NEW i \in Items, Receive(i)
  PROVE  IInv'
<1>1. /\ caller[i] = "waiting" /\ slot[i] # "none"
      /\ caller' = [caller EXCEPT ![i] = "returned"]
      /\ answer' = [answer EXCEPT ![i] = slot[i]] /\ slot' = [slot EXCEPT ![i] = "none"]
      /\ UNCHANGED <<ch, batch, jobs, runner, stopped, active, faults>>
  BY DEF Receive
<1>2. CallerTypes /\ slot[i] \in Results /\ "none" \in Results \ {"stopped"}
  BY DEF IInv, CallerTypes, Results
<1>3. /\ CallerTypes' /\ caller'[i] = "returned" /\ answer'[i] = slot[i] /\ slot'[i] = "none"
      /\ \A k \in Items \ {i} : caller'[k] = caller[k] /\ answer'[k] = answer[k]
                                /\ slot'[k] = slot[k]
  <2>1. CallerTypes'
    BY <1>1, <1>2 DEF CallerTypes
  <2> QED
    BY <1>1, <1>2, <2>1 DEF CallerTypes
<1> DEFINE h == Held(i, ch, batch, jobs)
<1>4. Held(i, ch, batch, jobs)' = h
  BY <1>1
<1>5. Open(i, h) /\ Own(i)
  BY DEF IInv
<1> HIDE DEF h
<1>6. ~h
  BY <1>1, <1>5 DEF Open
<1>7. Open(i, Held(i, ch, batch, jobs))' /\ Expected(i, Held(i, ch, batch, jobs))' /\ Own(i)'
  BY <1>1, <1>3, <1>4, <1>5, <1>6 DEF Open, Expected, Own
<1> QED
  BY <1>1, <1>3, <1>7, CallerMoves

LEMMA QuitKeeps ==
  ASSUME IInv, NEW i \in Items, Quit(i)
  PROVE  IInv'
<1>1. /\ caller[i] \in {"sending", "waiting"}
      /\ caller' = [caller EXCEPT ![i] = "returned"]
      /\ answer' = [answer EXCEPT ![i] = "stopped"] /\ slot' = slot
      /\ UNCHANGED <<ch, batch, jobs, runner, stopped, active, faults>>
  BY DEF Quit
<1>2. CallerTypes /\ "stopped" \in Results
  BY DEF IInv, Results
<1>3. /\ CallerTypes' /\ caller'[i] = "returned" /\ answer'[i] = "stopped" /\ slot'[i] = slot[i]
      /\ \A k \in Items \ {i} : caller'[k] = caller[k] /\ answer'[k] = answer[k]
                                /\ slot'[k] = slot[k]
  <2>1. CallerTypes'
    BY <1>1, <1>2 DEF CallerTypes
  <2> QED
    BY <1>1, <1>2, <2>1 DEF CallerTypes
<1> DEFINE h == Held(i, ch, batch, jobs)
<1>4. Held(i, ch, batch, jobs)' = h
  BY <1>1
<1>5. Open(i, h) /\ Own(i)
  BY DEF IInv
<1> HIDE DEF h
<1>6. Open(i, Held(i, ch, batch, jobs))' /\ Expected(i, Held(i, ch, batch, jobs))' /\ Own(i)'
  BY <1>1, <1>3, <1>4, <1>5 DEF Open, Expected, Own
<1> QED
  BY <1>1, <1>3, <1>6, CallerMoves

LEMMA SendKeeps ==
  ASSUME IInv, NEW i \in Items, Send(i)
  PROVE  IInv'
<1>1. /\ caller[i] = "sending" /\ Len(ch) < ChCap /\ ch' = Append(ch, i)
      /\ caller' = [caller EXCEPT ![i] = "waiting"] /\ answer' = answer /\ slot' = slot
      /\ UNCHANGED <<batch, jobs, runner, stopped, active, faults>>
  BY DEF Send
<1>2. CallerTypes /\ QueueTypes /\ Apart(ch, batch, jobs) /\ ch \in Seq(Items)
  BY DEF IInv, QueueTypes
<1>3. /\ CallerTypes' /\ caller'[i] = "waiting" /\ answer'[i] = answer[i] /\ slot'[i] = slot[i]
      /\ \A k \in Items \ {i} : caller'[k] = caller[k] /\ answer'[k] = answer[k]
                                /\ slot'[k] = slot[k]
  <2>1. CallerTypes'
    BY <1>1, <1>2 DEF CallerTypes
  <2> QED
    BY <1>1, <1>2, <2>1 DEF CallerTypes
<1>4. QueueTypes'
  <2>1. ch' \in Seq(Items) /\ Len(ch') = Len(ch) + 1
    BY <1>1, <1>2, Appended
  <2>2. Len(ch) \in Nat /\ ChCap \in Nat
    BY <1>2, CoalescerAssumption
  <2>3. Len(ch') <= ChCap
    BY <1>1, <2>1, <2>2
  <2> QED
    BY <1>1, <1>2, <2>1, <2>3 DEF QueueTypes
<1>5. ~Held(i, ch, batch, jobs) /\ slot[i] = "none" /\ answer[i] = "none"
  BY <1>1 DEF IInv, Open
<1>6. /\ Apart(ch', batch, jobs)
      /\ \A x : Held(x, ch', batch, jobs) <=> Held(x, ch, batch, jobs) \/ x = i
  BY <1>1, <1>2, <1>5, SendApart
<1>7. ASSUME NEW k \in Items
      PROVE  /\ Open(k, Held(k, ch, batch, jobs))'
             /\ Expected(k, Held(k, ch, batch, jobs))'
             /\ Own(k)'
  <2> DEFINE h == Held(k, ch, batch, jobs)
             g == Held(k, ch', batch', jobs')
  <2>1. g <=> h \/ k = i
    BY <1>1, <1>6
  <2>2. Open(k, h) /\ Expected(k, h) /\ Own(k)
    BY DEF IInv
  <2>3. ~stopped' => ~stopped
    BY <1>1
  <2> HIDE DEF h, g
  <2>4. /\ caller'[k] \in {"new", "sending"} => ~g /\ slot'[k] = "none"
        /\ caller'[k] # "returned" => answer'[k] = "none"
        /\ g => slot'[k] = "none" /\ answer'[k] \in {"none", "stopped"}
    BY <1>3, <1>5, <2>1, <2>2 DEF Open
  <2>5. ~stopped' /\ caller'[k] = "waiting" => slot'[k] # "none" \/ g
    BY <1>3, <2>1, <2>2, <2>3 DEF Expected
  <2>6. Own(k)'
    BY <1>3, <2>2 DEF Own
  <2> QED
    BY <2>4, <2>5, <2>6 DEF Open, Expected, g
<1>8. (\A j \in jobs : JobType(j))' /\ CountTypes'
  BY <1>1 DEF IInv, JobType, Single, CountTypes
<1>9. Apart(ch, batch, jobs)'
  BY <1>1, <1>6
<1> QED
  BY <1>3, <1>4, <1>7, <1>8, <1>9 DEF IInv

-----------------------------------------------------------------------------
(* run.                                                                    *)

LEMMA AdmitKeeps ==
  ASSUME IInv, ch # <<>>, Admit, UNCHANGED <<callers, slot, stopped, active, faults>>,
         Len(batch) < MaxBatch, runner # "exited", runner = "idle" => batch = <<>>,
         runner' = (IF runner = "idle" /\ Head(ch) \in Large THEN "idle" ELSE "collect")
  PROVE  IInv'
<1> DEFINE i == Head(ch)
<1>1. /\ ch \in Seq(Items) /\ batch \in Seq(Items) /\ Apart(ch, batch, jobs)
      /\ UNCHANGED <<caller, answer, slot, stopped, active, faults>>
  BY DEF IInv, QueueTypes, callers
<1>2. /\ i \in Items /\ Tail(ch) \in Seq(Items) /\ Len(Tail(ch)) <= ChCap
  <2>1. i \in Items /\ Tail(ch) \in Seq(Items) /\ Len(Tail(ch)) = Len(ch) - 1
    BY <1>1, Taken
  <2>2. Len(ch) \in Nat /\ ChCap \in Nat /\ Len(ch) <= ChCap
    BY <1>1, CoalescerAssumption DEF IInv, QueueTypes
  <2> QED
    BY <2>1, <2>2
<1>3. CASE i \in Large
  <2>1. ch' = Tail(ch) /\ jobs' = jobs \cup Singles({i}) /\ batch' = batch /\ runner' = runner
    BY <1>3 DEF Admit, IInv, QueueTypes
  <2>2. /\ Apart(ch', batch', jobs')
        /\ \A x : Held(x, ch', batch', jobs') <=> Held(x, ch, batch, jobs)
    BY <1>1, <2>1, JobApart
  <2>3. QueueTypes'
    BY <1>2, <2>1 DEF IInv, QueueTypes
  <2>4. \A j \in jobs' : JobType(j)
    <3>1. JobType(Job(<<i>>))
      BY <1>2, SingleType
    <3>2. Singles({i}) = {Job(<<i>>)}
      BY DEF Singles
    <3> QED
      BY <2>1, <3>1, <3>2 DEF IInv
  <2>5. (\A j \in jobs : JobType(j))' /\ CountTypes' /\ Apart(ch, batch, jobs)'
    BY <1>1, <2>2, <2>4 DEF IInv, CountTypes, JobType, Single
  <2>6. /\ CallerTypes'
        /\ \A k \in Items : /\ Open(k, Held(k, ch, batch, jobs))'
                            /\ Expected(k, Held(k, ch, batch, jobs))'
                            /\ Own(k)'
    BY <1>1, <2>2, PassedOn
  <2> QED
    BY <2>3, <2>5, <2>6 DEF IInv
<1>4. CASE i \notin Large
  <2>1. ch' = Tail(ch) /\ batch' = Append(batch, i) /\ jobs' = jobs /\ runner' = "collect"
    BY <1>4 DEF Admit
  <2>2. /\ Apart(ch', batch', jobs')
        /\ \A x : Held(x, ch', batch', jobs') <=> Held(x, ch, batch, jobs)
    BY <1>1, <2>1, BatchApart
  <2>3. QueueTypes'
    <3>1. /\ batch' \in Seq(Items) /\ Len(batch') = Len(batch) + 1 /\ batch' # <<>>
          /\ Elems(batch') = Elems(batch) \cup {i}
      BY <1>1, <1>2, <2>1, Appended
    <3>2. Len(batch) \in Nat /\ MaxBatch \in Nat
      BY <1>1, CoalescerAssumption
    <3>3. Len(batch') <= MaxBatch
      BY <3>1, <3>2
    <3>4. Elems(batch') \cap Large = {}
      BY <1>4, <3>1 DEF IInv, QueueTypes
    <3> QED
      BY <1>2, <2>1, <3>1, <3>3, <3>4 DEF QueueTypes
  <2>4. (\A j \in jobs : JobType(j))' /\ CountTypes' /\ Apart(ch, batch, jobs)'
    BY <1>1, <2>1, <2>2 DEF IInv, CountTypes, JobType, Single
  <2>5. /\ CallerTypes'
        /\ \A k \in Items : /\ Open(k, Held(k, ch, batch, jobs))'
                            /\ Expected(k, Held(k, ch, batch, jobs))'
                            /\ Own(k)'
    BY <1>1, <2>2, PassedOn
  <2> QED
    BY <2>3, <2>4, <2>5 DEF IInv
<1> QED
  BY <1>3, <1>4

LEMMA TakeKeeps == IInv /\ Take => IInv'
<1> SUFFICES ASSUME IInv, Take PROVE IInv'
  OBVIOUS
<1>1. runner = "idle" /\ ch # <<>> /\ Admit /\ UNCHANGED <<callers, slot, stopped, active, faults>>
      /\ runner' = (IF runner = "idle" /\ Head(ch) \in Large THEN "idle" ELSE "collect")
  BY DEF Take
<1>2. batch = <<>>
  BY <1>1 DEF IInv, QueueTypes
<1>3. Len(batch) < MaxBatch
  BY <1>2, CoalescerAssumption
<1> QED
  BY <1>1, <1>2, <1>3, AdmitKeeps

LEMMA CollectKeeps == IInv /\ Collect => IInv'
<1> SUFFICES ASSUME IInv, Collect PROVE IInv'
  OBVIOUS
<1>1. runner = "collect" /\ ch # <<>> /\ Admit /\ UNCHANGED <<callers, slot, stopped, active, faults>>
      /\ runner' = runner /\ Len(batch) < MaxBatch
  BY DEF Collect
<1> QED
  BY <1>1, AdmitKeeps

LEMMA EmitKeeps == IInv /\ Emit => IInv'
<1> SUFFICES ASSUME IInv, Emit PROVE IInv'
  OBVIOUS
<1> DEFINE j == Job(Prioritized(batch))
<1>1. /\ runner = "collect" /\ jobs' = jobs \cup {j} /\ batch' = <<>> /\ runner' = "idle"
      /\ UNCHANGED <<caller, answer, ch, slot, stopped, active, faults>>
  BY DEF Emit, callers
<1>2. /\ batch \in Seq(Items) /\ Apart(ch, batch, jobs) /\ batch # <<>>
      /\ Len(batch) <= MaxBatch /\ Elems(batch) \cap Large = {} /\ Len(batch) \in Nat
  BY <1>1 DEF IInv, QueueTypes
<1>3. /\ Apart(ch', batch', jobs')
      /\ \A x : Held(x, ch', batch', jobs') <=> Held(x, ch, batch, jobs)
  BY <1>1, <1>2, EmitApart
<1>4. QueueTypes'
  <2>1. Len(<<>>) = 0 /\ <<>> \in Seq(Items) /\ Elems(<<>>) \cap Large = {} /\ 0 <= MaxBatch
    BY Empty, CoalescerAssumption
  <2> QED
    BY <1>1, <2>1 DEF IInv, QueueTypes
<1>5. JobType(j)
  <2>1. /\ j \in JobT /\ Len(j.items) = Len(batch) /\ Elems(j.items) = Elems(batch)
    BY <1>2, PrioritizedIs, JobIs
  <2>2. Len(batch) \in 1 .. MaxBatch
    <3>1. Len(batch) # 0 /\ MaxBatch \in Nat
      BY <1>2, EmptySeq, CoalescerAssumption
    <3> QED
      BY <1>2, <3>1
  <2> HIDE DEF j
  <2> QED
    BY <1>2, <2>1, <2>2 DEF JobType
<1> HIDE DEF j
<1>6. \A k \in jobs' : JobType(k)
  BY <1>1, <1>5 DEF IInv
<1>7. (\A k \in jobs : JobType(k))' /\ CountTypes' /\ Apart(ch, batch, jobs)'
  BY <1>1, <1>3, <1>6 DEF IInv, CountTypes, JobType, Single
<1>8. /\ CallerTypes'
      /\ \A i \in Items : /\ Open(i, Held(i, ch, batch, jobs))'
                          /\ Expected(i, Held(i, ch, batch, jobs))'
                          /\ Own(i)'
  BY <1>1, <1>3, PassedOn
<1> QED
  BY <1>4, <1>7, <1>8 DEF IInv

LEMMA RunnerStopsKeeps == IInv /\ RunnerStops => IInv'
<1> SUFFICES ASSUME IInv, RunnerStops PROVE IInv'
  OBVIOUS
<1>1. /\ stopped /\ batch' = <<>> /\ runner' = "exited"
      /\ UNCHANGED <<caller, answer, ch, jobs, slot, stopped, active, faults>>
  BY DEF RunnerStops, callers
<1>2. /\ Apart(ch', batch', jobs')
      /\ \A x : Held(x, ch', batch', jobs') => Held(x, ch, batch, jobs)
  BY <1>1, DropApart DEF IInv
<1>3. QueueTypes'
  <2>1. Len(<<>>) = 0 /\ <<>> \in Seq(Items) /\ Elems(<<>>) \cap Large = {} /\ 0 <= MaxBatch
    BY Empty, CoalescerAssumption
  <2> QED
    BY <1>1, <2>1 DEF IInv, QueueTypes
<1>4. (\A k \in jobs : JobType(k))' /\ CountTypes' /\ Apart(ch, batch, jobs)'
  BY <1>1, <1>2 DEF IInv, CountTypes, JobType, Single
<1>5. /\ CallerTypes'
      /\ \A i \in Items : /\ Open(i, Held(i, ch, batch, jobs))'
                          /\ Expected(i, Held(i, ch, batch, jobs))'
                          /\ Own(i)'
  BY <1>1, <1>2, PassedOn
<1> QED
  BY <1>3, <1>4, <1>5 DEF IInv

LEMMA StopKeeps == IInv /\ Stop => IInv'
<1> SUFFICES ASSUME IInv, Stop PROVE IInv'
  OBVIOUS
<1>1. /\ stopped' = TRUE
      /\ UNCHANGED <<caller, answer, ch, runner, batch, jobs, slot, active, faults>>
  BY DEF Stop, callers
<1>2. QueueTypes' /\ (\A k \in jobs : JobType(k))' /\ CountTypes' /\ Apart(ch, batch, jobs)'
  BY <1>1 DEF IInv, QueueTypes, CountTypes, JobType, Single
<1>3. /\ CallerTypes'
      /\ \A i \in Items : /\ Open(i, Held(i, ch, batch, jobs))'
                          /\ Expected(i, Held(i, ch, batch, jobs))'
                          /\ Own(i)'
  BY <1>1, PassedOn
<1> QED
  BY <1>2, <1>3 DEF IInv

-----------------------------------------------------------------------------
(* The flushes.                                                            *)

\* A flush goes on with the same items, or with one flush for each.
LEMMA JobsKept ==
  ASSUME IInv, UNCHANGED <<caller, answer, ch, runner, batch, slot, stopped>>, CountTypes',
         \A j \in jobs' : JobType(j), Apart(ch, batch, jobs'),
         \A x : Held(x, ch, batch, jobs') <=> Held(x, ch, batch, jobs)
  PROVE  IInv'
<1>1. QueueTypes'
  BY DEF IInv, QueueTypes
<1>2. (\A k \in jobs : JobType(k))' /\ Apart(ch, batch, jobs)'
  BY DEF JobType, Single
<1>3. \A x : Held(x, ch', batch', jobs') <=> Held(x, ch, batch, jobs)
  OBVIOUS
<1>4. /\ CallerTypes'
      /\ \A i \in Items : /\ Open(i, Held(i, ch, batch, jobs))'
                          /\ Expected(i, Held(i, ch, batch, jobs))'
                          /\ Own(i)'
  BY <1>3, PassedOn
<1> QED
  BY <1>1, <1>2, <1>4 DEF IInv

\* A flush ends, having given each of its items its own result or an error.
LEMMA JobEnds ==
  ASSUME IInv, NEW j \in jobs, NEW result, Deliver(j, result),
         \A k \in DOMAIN j.items : result[k] \in {"error"} \cup ({j.items[k]} \ Invalid),
         jobs' = jobs \ {j}, CountTypes',
         UNCHANGED <<caller, answer, ch, runner, batch, stopped>>
  PROVE  IInv'
<1>1. /\ j.items \in Seq(Items) /\ Distinct(j.items) /\ CallerTypes
      /\ Apart(ch, batch, jobs)
  BY DEF IInv, JobType, JobT, Apart
<1> DEFINE E == Elems(j.items)
<1>2. /\ Apart(ch, batch, jobs')
      /\ \A x : Held(x, ch, batch, jobs') <=> Held(x, ch, batch, jobs) /\ x \notin E
  BY <1>1, DoneApart
<1>3. slot' = [i \in Items |->
                 IF \E k \in DOMAIN j.items : j.items[k] = i
                 THEN result[CHOOSE k \in DOMAIN j.items : j.items[k] = i]
                 ELSE slot[i]]
  BY DEF Deliver
<1>4. \A i \in Items : i \notin E => slot'[i] = slot[i]
  BY <1>3 DEF Elems
<1>5. \A i \in Items : i \in E => slot'[i] \in {"error"} \cup ({i} \ Invalid)
  <2> SUFFICES ASSUME NEW i \in Items, i \in E
               PROVE  slot'[i] \in {"error"} \cup ({i} \ Invalid)
    OBVIOUS
  <2> DEFINE at == CHOOSE k \in DOMAIN j.items : j.items[k] = i
  <2>1. \E k \in DOMAIN j.items : j.items[k] = i
    BY DEF Elems
  <2>2. at \in DOMAIN j.items /\ j.items[at] = i
    BY <2>1
  <2>3. slot'[i] = result[at]
    BY <1>3, <2>1
  <2> HIDE DEF at
  <2> QED
    BY <2>2, <2>3
<1>6. "error" \notin Items /\ "none" \notin Items /\ "stopped" \notin Items
  BY CoalescerAssumption
<1>7. \A i \in E : Held(i, ch, batch, jobs)
  BY DEF Held
<1> HIDE DEF E
<1>8. slot' \in [Items -> Results \ {"stopped"}]
  <2>1. DOMAIN slot' = Items /\ slot' = [i \in Items |-> slot'[i]]
    BY <1>3
  <2>2. \A i \in Items : slot'[i] \in Results \ {"stopped"}
    BY <1>1, <1>4, <1>5, <1>6 DEF CallerTypes, Results
  <2> QED
    BY <2>1, <2>2
<1>9. CallerTypes'
  BY <1>1, <1>8 DEF CallerTypes
<1>10. QueueTypes' /\ (\A k \in jobs : JobType(k))' /\ Apart(ch, batch, jobs)'
  BY <1>2 DEF IInv, QueueTypes, JobType, Single
<1>11. ASSUME NEW i \in Items
       PROVE  /\ Open(i, Held(i, ch, batch, jobs))'
              /\ Expected(i, Held(i, ch, batch, jobs))'
              /\ Own(i)'
  <2> DEFINE h == Held(i, ch, batch, jobs)
             g == Held(i, ch', batch', jobs')
  <2>1. g <=> h /\ i \notin E
    BY <1>2
  <2>2. Open(i, h) /\ Expected(i, h) /\ Own(i) /\ (i \in E => h)
    BY <1>7 DEF IInv
  <2>3. /\ i \notin E => slot'[i] = slot[i]
        /\ i \in E => slot'[i] \in {"error"} \cup ({i} \ Invalid) /\ slot'[i] # "none"
    BY <1>4, <1>5, <1>6
  <2>4. caller'[i] = caller[i] /\ answer'[i] = answer[i] /\ stopped' = stopped
    OBVIOUS
  <2> HIDE DEF h, g
  <2>5. /\ caller'[i] \in {"new", "sending"} => ~g /\ slot'[i] = "none"
        /\ caller'[i] # "returned" => answer'[i] = "none"
        /\ g => slot'[i] = "none" /\ answer'[i] \in {"none", "stopped"}
    BY <2>1, <2>2, <2>3, <2>4 DEF Open
  <2>6. ~stopped' /\ caller'[i] = "waiting" => slot'[i] # "none" \/ g
    BY <2>1, <2>2, <2>3, <2>4 DEF Expected
  <2>7. Own(i)'
    BY <2>2, <2>3, <2>4 DEF Own
  <2> QED
    BY <2>5, <2>6, <2>7 DEF Open, Expected, g
<1> QED
  BY <1>9, <1>10, <1>11 DEF IInv

LEMMA BeginKeeps ==
  ASSUME IInv, NEW j \in jobs, Begin(j)
  PROVE  IInv'
<1> DEFINE k == [j EXCEPT !.st = "try", !.start = active]
<1>1. /\ jobs' = (jobs \ {j}) \cup {k}
      /\ UNCHANGED <<caller, answer, ch, runner, batch, slot, stopped, active, faults>>
  BY DEF Begin, callers
<1>2. JobType(j) /\ Apart(ch, batch, jobs) /\ CountTypes
  BY DEF IInv
<1>3. JobType(k) /\ k.items = j.items
  <2>1. j \in JobT /\ active \in 0 .. Urls - 1
    BY <1>2 DEF JobType, CountTypes
  <2>2. k \in JobT /\ k.items = j.items
    BY <2>1 DEF JobT
  <2> HIDE DEF k
  <2> QED
    BY <1>2, <2>2 DEF JobType, Single
<1> HIDE DEF k
<1>4. \A l \in jobs' : JobType(l)
  BY <1>1, <1>3 DEF IInv
<1>5. /\ Apart(ch, batch, jobs')
      /\ \A x : Held(x, ch, batch, jobs') <=> Held(x, ch, batch, jobs)
  BY <1>1, <1>2, <1>3, SwapApart
<1>6. CountTypes'
  BY <1>1, <1>2 DEF CountTypes
<1> QED
  BY <1>1, <1>4, <1>5, <1>6, JobsKept

LEMMA FailsKeeps ==
  ASSUME IInv, NEW j \in jobs, NEW n \in Nat, Fails(j, n)
  PROVE  IInv'
<1>1. /\ faults + n <= MaxFaults /\ faults' = faults + n
      /\ UNCHANGED <<caller, answer, ch, runner, batch, stopped, active>>
  BY DEF Fails, callers
<1>2. JobType(j) /\ Apart(ch, batch, jobs) /\ CountTypes /\ j \in JobT
  BY DEF IInv, JobType
<1>3. CountTypes'
  <2>1. faults \in Nat /\ MaxFaults \in Nat
    BY <1>2, CoalescerAssumption DEF CountTypes
  <2>2. faults' \in 0 .. MaxFaults
    BY <1>1, <2>1
  <2> QED
    BY <1>1, <1>2, <2>2 DEF CountTypes
<1>4. CASE j.tried + 1 < Urls
  <2> DEFINE k == [j EXCEPT !.tried = @ + 1]
  <2>1. jobs' = (jobs \ {j}) \cup {k} /\ slot' = slot
    BY <1>4 DEF Fails
  <2>2. JobType(k) /\ k.items = j.items
    <3>1. j.tried \in Nat /\ Urls \in Nat
      BY <1>2, CoalescerAssumption DEF JobT
    <3>2. j.tried + 1 \in 0 .. Urls - 1
      BY <1>4, <3>1
    <3>3. k \in JobT /\ k.items = j.items
      BY <1>2, <3>2 DEF JobT
    <3> HIDE DEF k
    <3> QED
      BY <1>2, <3>3 DEF JobType, Single
  <2> HIDE DEF k
  <2>3. \A l \in jobs' : JobType(l)
    BY <2>1, <2>2 DEF IInv
  <2>4. /\ Apart(ch, batch, jobs')
        /\ \A x : Held(x, ch, batch, jobs') <=> Held(x, ch, batch, jobs)
    BY <1>2, <2>1, <2>2, SwapApart
  <2> QED
    BY <1>1, <1>3, <2>1, <2>3, <2>4, JobsKept
<1>5. CASE ~(j.tried + 1 < Urls)
  <2> DEFINE r == [k \in DOMAIN j.items |-> "error"]
  <2>1. Deliver(j, r) /\ jobs' = jobs \ {j}
    BY <1>5 DEF Fails
  <2>2. \A k \in DOMAIN j.items : r[k] \in {"error"} \cup ({j.items[k]} \ Invalid)
    OBVIOUS
  <2> HIDE DEF r
  <2> QED
    BY <1>1, <1>3, <2>1, <2>2, JobEnds
<1> QED
  BY <1>4, <1>5

LEMMA AttemptKeeps ==
  ASSUME IInv, NEW j \in jobs, Attempt(j)
  PROVE  IInv'
<1>1. Fails(j, 0) \/ Fails(j, 1)
  BY DEF Attempt
<1>2. 0 \in Nat /\ 1 \in Nat
  OBVIOUS
<1> QED
  BY <1>1, <1>2, FailsKeeps

LEMMA StickType ==
  ASSUME NEW j \in JobT, CountTypes, Stick(j)
  PROVE  active' \in 0 .. Urls - 1
<1>1. CASE j.tried = 0
  BY <1>1 DEF Stick, CountTypes
<1>2. CASE j.tried # 0
  <2>1. active' = (j.start + j.tried) % Urls
    BY <1>2 DEF Stick, Target
  <2>2. Urls \in Nat \ {0}
    BY CoalescerAssumption
  <2>3. j.start \in Nat /\ j.tried \in Nat
    BY <2>2 DEF JobT
  <2> QED
    BY <2>1, <2>2, <2>3
<1> QED
  BY <1>1, <1>2

LEMMA SucceedsKeeps ==
  ASSUME IInv, NEW j \in jobs, Succeeds(j)
  PROVE  IInv'
<1>1. /\ Deliver(j, DoBatch(j.items)) /\ Stick(j) /\ jobs' = jobs \ {j}
      /\ UNCHANGED <<caller, answer, ch, runner, batch, stopped, faults>>
  BY DEF Succeeds, callers
<1>2. JobType(j) /\ CountTypes /\ j \in JobT /\ j.items \in Seq(Items)
  BY DEF IInv, JobType, JobT
<1>3. CountTypes'
  BY <1>1, <1>2, StickType DEF CountTypes
<1>4. \A k \in DOMAIN j.items :
        DoBatch(j.items)[k] \in {"error"} \cup ({j.items[k]} \ Invalid)
  BY <1>2, DoBatchIs
<1> QED
  BY <1>1, <1>3, <1>4, JobEnds

LEMMA ScatterKeeps ==
  ASSUME IInv, NEW j \in jobs, Scatter(j)
  PROVE  IInv'
<1>1. /\ faults < MaxFaults /\ faults' = faults + 1 /\ Stick(j)
      /\ jobs' = (jobs \ {j}) \cup Singles(Elems(j.items))
      /\ UNCHANGED <<caller, answer, ch, runner, batch, slot, stopped>>
  BY DEF Scatter, callers
<1>2. /\ JobType(j) /\ CountTypes /\ j \in JobT /\ j.items \in Seq(Items)
      /\ Apart(ch, batch, jobs)
  BY DEF IInv, JobType, JobT
<1>3. CountTypes'
  <2>1. faults \in Nat /\ MaxFaults \in Nat
    BY <1>2, CoalescerAssumption DEF CountTypes
  <2>2. faults' \in 0 .. MaxFaults
    BY <1>1, <2>1
  <2> QED
    BY <1>1, <1>2, <2>2, StickType DEF CountTypes
<1>4. ASSUME NEW l \in jobs' PROVE JobType(l)
  <2>1. CASE l \in jobs
    BY <2>1 DEF IInv
  <2>2. CASE l \notin jobs
    <3>1. PICK i \in Elems(j.items) : l = Job(<<i>>)
      BY <1>1, <2>2 DEF Singles
    <3>2. i \in Items
      BY <1>2, <3>1, ElemsOf
    <3> QED
      BY <3>1, <3>2, SingleType
  <2> QED
    BY <2>1, <2>2
<1>5. /\ Apart(ch, batch, jobs')
      /\ \A x : Held(x, ch, batch, jobs') <=> Held(x, ch, batch, jobs)
  BY <1>1, <1>2, ScatterApart
<1> QED
  BY <1>1, <1>3, <1>4, <1>5, JobsKept

-----------------------------------------------------------------------------
(* The invariant, and what it says of the runs' properties.                *)

LEMMA InitHolds == Init => IInv
<1> SUFFICES ASSUME Init PROVE IInv
  OBVIOUS
<1>1. {"none", "error", "stopped"} \cap Items = {} /\ Urls \in Nat \ {0}
      /\ MaxFaults \in Nat /\ ChCap \in Nat /\ MaxBatch \in Nat
  BY CoalescerAssumption
<1>2. CallerTypes
  BY DEF Init, CallerTypes, Results
<1>3. QueueTypes
  <2>1. Len(<<>>) = 0 /\ <<>> \in Seq(Items) /\ Elems(<<>>) \cap Large = {}
        /\ 0 <= MaxBatch /\ 0 <= ChCap
    BY <1>1, Empty
  <2> QED
    BY <2>1 DEF Init, QueueTypes
<1>4. CountTypes
  <2>1. stopped \in BOOLEAN
    BY DEF Init
  <2>2. active \in 0 .. Urls - 1 /\ faults \in 0 .. MaxFaults
    BY <1>1 DEF Init
  <2> QED
    BY <2>1, <2>2 DEF CountTypes
<1>5. \A j \in jobs : JobType(j)
  BY DEF Init
<1>6. Apart(ch, batch, jobs)
  BY Empty DEF Init, Apart, Meet
<1>7. ASSUME NEW i \in Items
      PROVE  Open(i, Held(i, ch, batch, jobs)) /\ Expected(i, Held(i, ch, batch, jobs)) /\ Own(i)
  <2>1. ~Held(i, ch, batch, jobs)
    BY Empty DEF Init, Held
  <2>2. caller[i] = "new" /\ answer[i] = "none" /\ slot[i] = "none"
    BY DEF Init
  <2> QED
    BY <2>1, <2>2 DEF Open, Expected, Own
<1> QED
  BY <1>2, <1>3, <1>4, <1>5, <1>6, <1>7 DEF IInv

LEMMA StutterKeeps == IInv /\ UNCHANGED vars => IInv'
<1> SUFFICES ASSUME IInv, UNCHANGED vars PROVE IInv'
  OBVIOUS
<1>1. UNCHANGED <<caller, answer, ch, runner, batch, jobs, slot, stopped, active, faults>>
  BY DEF vars, callers
<1>2. CountTypes' /\ \A j \in jobs' : JobType(j)
  BY <1>1 DEF IInv, CountTypes
<1>3. Apart(ch, batch, jobs') /\ \A x : Held(x, ch, batch, jobs') <=> Held(x, ch, batch, jobs)
  BY <1>1 DEF IInv
<1> QED
  BY <1>1, <1>2, <1>3, JobsKept

LEMMA NextKeeps == IInv /\ [Next]_vars => IInv'
<1> SUFFICES ASSUME IInv, [Next]_vars PROVE IInv'
  OBVIOUS
<1>1. ASSUME NEW i \in Items, Call(i) PROVE IInv'
  BY <1>1, CallKeeps
<1>2. ASSUME NEW i \in Items, Submit(i) PROVE IInv'
  BY <1>2, SendKeeps, ReceiveKeeps, QuitKeeps DEF Submit
<1>3. CASE Runner
  BY <1>3, TakeKeeps, CollectKeeps, EmitKeeps, RunnerStopsKeeps DEF Runner
<1>4. CASE Flush
  <2>1. PICK j \in jobs : Begin(j) \/ Attempt(j) \/ Succeeds(j) \/ Scatter(j)
    BY <1>4 DEF Flush
  <2> QED
    BY <2>1, BeginKeeps, AttemptKeeps, SucceedsKeeps, ScatterKeeps
<1>5. CASE Stop
  BY <1>5, StopKeeps
<1>6. CASE UNCHANGED vars
  BY <1>6, StutterKeeps
<1> QED
  BY <1>1, <1>2, <1>3, <1>4, <1>5, <1>6 DEF Next

\* However callers, the collecting goroutine, the flushes and Stop interleave
\* (relay.go:273-357, 505-576), the coalescer's state is as IInv says.
THEOREM CoalescerInvariant == Spec => []IInv
<1> QED
  BY InitHolds, NextKeeps, PTL DEF Spec

LEMMA TypesFollow == IInv => TypeOK
<1> SUFFICES ASSUME IInv PROVE TypeOK
  OBVIOUS
<1>1. Elems(ch) \subseteq Items /\ Elems(batch) \subseteq Items \ Large
  BY ElemsOf DEF IInv, QueueTypes
<1>2. ASSUME NEW j \in jobs PROVE IsJob(j) /\ (Single(j) \/ Elems(j.items) \cap Large = {})
  <2>1. JobType(j) /\ j \in JobT
    BY DEF IInv, JobType
  <2>2. /\ j.items \in Seq(Items) /\ j.st \in {"new", "try"} /\ j.start \in 0 .. Urls - 1
        /\ j.tried \in 0 .. Urls - 1
    BY <2>1 DEF JobT
  <2> QED
    BY <2>1, <2>2, ElemsOf DEF JobType, IsJob
<1> QED
  BY <1>1, <1>2 DEF IInv, CallerTypes, QueueTypes, CountTypes, TypeOK

LEMMA OneHandFollows == IInv => OneHand
<1> SUFFICES ASSUME IInv PROVE OneHand
  OBVIOUS
<1> DEFINE hands == {ch, batch} \cup {j.items : j \in jobs}
           holds(i) == {s \in hands : i \in Elems(s)}
<1>1. Apart(ch, batch, jobs)
  BY DEF IInv
<1>2. \A s \in hands : s = ch \/ s = batch \/ \E j \in jobs : s = j.items
  OBVIOUS
<1> HIDE DEF hands
<1>3. \A s \in hands : Distinct(s)
  BY <1>1, <1>2 DEF Apart
<1>4. \A j, k \in jobs : Elems(j.items) \cap Elems(k.items) # {} => j = k
  BY <1>1 DEF Apart, Meet
<1>5. ASSUME NEW i \in Items, holds(i) # {}
      PROVE  Cardinality(holds(i)) = 1 /\ slot[i] = "none" /\ answer[i] \in {"none", "stopped"}
  <2>1. PICK s \in hands : i \in Elems(s)
    BY <1>5
  <2>2. ASSUME NEW t \in hands, i \in Elems(t) PROVE t = s
    <3>1. Meet(t, s) /\ Meet(s, t)
      BY <2>1, <2>2 DEF Meet
    <3>2. CASE t \in {ch, batch} /\ s \in {ch, batch}
      BY <1>1, <3>1, <3>2 DEF Apart
    <3>3. CASE t \in {ch, batch} /\ \E j \in jobs : s = j.items
      BY <1>1, <3>1, <3>3 DEF Apart
    <3>4. CASE s \in {ch, batch} /\ \E j \in jobs : t = j.items
      BY <1>1, <3>1, <3>4 DEF Apart
    <3>5. CASE (\E j \in jobs : t = j.items) /\ (\E j \in jobs : s = j.items)
      BY <1>1, <3>1, <3>5 DEF Apart
    <3> QED
      BY <1>2, <3>2, <3>3, <3>4, <3>5
  <2>3. holds(i) = {s}
    BY <2>1, <2>2
  <2>4. Cardinality({s}) = 1
    BY FS_Singleton
  <2>5. Held(i, ch, batch, jobs)
    BY <1>2, <2>1 DEF Held
  <2> QED
    BY <2>3, <2>4, <2>5 DEF IInv, Open
<1> QED
  BY <1>3, <1>4, <1>5 DEF OneHand, hands

LEMMA NobodyForgotten == IInv => NotForgotten
<1> SUFFICES ASSUME IInv, ~stopped, NEW i \in Items, caller[i] = "waiting", slot[i] = "none"
             PROVE  i \in Elems(ch) \cup Elems(batch) \cup UNION {Elems(j.items) : j \in jobs}
  BY DEF NotForgotten
<1>1. Held(i, ch, batch, jobs)
  BY DEF IInv, Expected
<1> QED
  BY <1>1 DEF Held

\* The variables have their types, and a large request is never part of a
\* batch (relay.go:319-336, 407).
THEOREM CoalescerTypes == Spec => []TypeOK
<1> QED
  BY CoalescerInvariant, TypesFollow, PTL

\* From Submit to its answer an item is in exactly one of the channel, the
\* batch and the flushes, so the buffer of one in item.result is enough, and
\* until Stop none is dropped (relay.go:284-296, 560-596).
THEOREM EveryItemIsAccounted == Spec => []ItemAccounted
<1>1. IInv => ItemAccounted
  BY OneHandFollows, NobodyForgotten DEF ItemAccounted
<1> QED
  BY <1>1, CoalescerInvariant, PTL

\* Whatever the batch's order, the script's filter and the fallbacks do, a
\* caller gets the response to its own request or an error
\* (relay.go:366-370, 530-576; Code.gs:96-139).
THEOREM AnswersAreOwn == Spec => []OwnAnswer
<1>1. IInv => OwnAnswer
  BY DEF IInv, Own, OwnAnswer
<1> QED
  BY <1>1, CoalescerInvariant, PTL

=============================================================================
