----------------------------- MODULE DialProofs -----------------------------
(***************************************************************************)
(* Proofs about DirectDial for any finite set of fronts, any number of     *)
(* profiles and any goroutines: its types, that a dial leaves no           *)
(* connection behind, that only what has connected is remembered, and that *)
(* any ClientHello is cut as its profile promises.                         *)
(***************************************************************************)
EXTENDS DirectDial, FiniteSetTheorems, TLAPS

Answered == {"open", "down"}

\* The race: the attempts not yet collected are under way or have answered,
\* and of the collected ones the winner alone is open.
RaceOK(d) ==
  /\ try[d][Fast(d)] = "down" /\ Fast(d) \notin got[d]
  /\ \A c \in Pairs \ got[d] : try[d][c] \in Answered \cup {"dialing"}
  /\ \A c \in got[d] : IF c = kept[d] THEN try[d][c] = "open" ELSE try[d][c] \in {"down", "closed"}
  /\ IF kept[d] = NoPair THEN \A c \in got[d] : try[d][c] = "down" ELSE kept[d] \in got[d]

DialOK(d) ==
  /\ pc[d] \in {"idle", "rank", "load"} => try[d] = NotTried /\ got[d] = {} /\ kept[d] = NoPair
  /\ pc[d] = "fast" => /\ got[d] = {} /\ kept[d] = NoPair
                       /\ \A c \in Pairs : c # Fast(d) => try[d][c] = "none"
  /\ pc[d] = "race" => RaceOK(d)
  /\ pc[d] \in Kept => /\ kept[d] \in Pairs /\ got[d] = {}
                       /\ \A c \in Pairs : try[d][c] = IF c = kept[d] THEN "open" ELSE "none"
  /\ pc[d] = "failed" => kept[d] = NoPair /\ \A c \in Pairs : try[d][c] = "down"

IInv == TypeOK /\ \A d \in Dials : DialOK(d)

-----------------------------------------------------------------------------
\* Fronts and profiles are finitely many, so the race can be counted.
LEMMA PairsFinite == IsFiniteSet(Pairs)
<1>1. IsFiniteSet(Profiles)
  BY DialAssumption, FS_Interval DEF Profiles
<1> QED BY <1>1, DialAssumption, FS_Product DEF Pairs

\* The values before a dial.
LEMMA Defaults ==
  /\ 1 \in Profiles /\ First \in Fronts
  /\ NotTried \in [Pairs -> {"none", "dialing", "open", "down", "closed"}]
  /\ [d \in Dials |-> NotTried] \in [Dials -> [Pairs -> {"none", "dialing", "open", "down", "closed"}]]
  /\ [d \in Dials |-> {}] \in [Dials -> SUBSET Pairs]
<1>1. 1 \in Profiles /\ First \in Fronts
  BY DialAssumption DEF Profiles
<1>2. NotTried \in [Pairs -> {"none", "dialing", "open", "down", "closed"}]
  BY DEF NotTried
<1>3. [d \in Dials |-> {}] \in [Dials -> SUBSET Pairs]
  OBVIOUS
<1> HIDE DEF NotTried
<1> QED BY <1>1, <1>2, <1>3

\* As many results as candidates, none of them the fast path's: all of them.
LEMMA AllCollected ==
  ASSUME TypeOK, NEW d \in Dials, Fast(d) \notin got[d], Cardinality(got[d]) = Candidates
  PROVE  got[d] = Pairs \ {Fast(d)}
<1>1. Fast(d) \in Pairs /\ got[d] \in SUBSET (Pairs \ {Fast(d)})
  BY DEF TypeOK, Fast, Pairs
<1>2. IsFiniteSet(Pairs \ {Fast(d)}) /\ Cardinality(Pairs \ {Fast(d)}) = Candidates
  BY <1>1, PairsFinite, FS_RemoveElement DEF Candidates
<1> QED BY <1>1, <1>2, FS_Subset

\* What one dial does leaves the others alone.
LEMMA OthersKeep ==
  ASSUME \A e \in Dials : DialOK(e), TypeOK, NEW d \in Dials, NEW p,
         pc' = [pc EXCEPT ![d] = p] \/ UNCHANGED pc,
         \A e \in Dials \ {d} : /\ ranked'[e] = ranked[e] /\ front'[e] = front[e]
                                /\ try'[e] = try[e] /\ got'[e] = got[e] /\ kept'[e] = kept[e],
         DialOK(d)'
  PROVE  \A e \in Dials : DialOK(e)'
<1> SUFFICES ASSUME NEW e \in Dials \ {d} PROVE DialOK(e)'
  OBVIOUS
<1>1. /\ pc'[e] = pc[e] /\ ranked'[e] = ranked[e] /\ front'[e] = front[e]
      /\ try'[e] = try[e] /\ got'[e] = got[e] /\ kept'[e] = kept[e]
  BY DEF TypeOK
<1>2. DialOK(e)
  OBVIOUS
<1> QED BY <1>1, <1>2 DEF DialOK, RaceOK, Fast

-----------------------------------------------------------------------------
(* The steps of a dial.                                                    *)

\* A dial that starts has loaded nothing and dialled nothing.
LEMMA StartKeeps == ASSUME IInv, NEW d \in Dials, Start(d) PROVE IInv'
<1>1. TypeOK' /\ DialOK(d)'
  BY DEF IInv, TypeOK, DialOK, Start, Goto, Busy, Kept
<1> QED BY <1>1, OthersKeep DEF IInv, Start, Goto

\* The remembered pair is one of the pairs, whenever it is loaded.
LEMMA RankKeeps == ASSUME IInv, NEW d \in Dials, Rank(d) PROVE IInv'
<1>1. (IF remembered = NoPair THEN 1 ELSE remembered[2]) \in Profiles
  BY DialAssumption DEF IInv, TypeOK, Pairs, Profiles
<1>2. TypeOK'
  BY <1>1 DEF IInv, TypeOK, Rank, Goto, Busy
<1>3. DialOK(d)'
  BY DEF IInv, TypeOK, DialOK, Rank, Goto, Kept
<1> QED BY <1>2, <1>3, OthersKeep DEF IInv, Rank, Goto, TypeOK

\* The fast path is the only attempt.
LEMMA LoadFrontKeeps == ASSUME IInv, NEW d \in Dials, LoadFront(d) PROVE IInv'
<1> DEFINE f == IF remembered = NoPair THEN First ELSE remembered[1]
<1>1. f \in Fronts /\ <<f, ranked[d]>> \in Pairs
  BY DialAssumption DEF IInv, TypeOK, Pairs
<1>2. TypeOK'
  BY <1>1 DEF IInv, TypeOK, LoadFront, Goto, Busy, NotTried
<1>3. DialOK(d)'
  BY <1>1 DEF IInv, TypeOK, DialOK, LoadFront, Goto, Kept, NotTried, Fast
<1> QED BY <1>2, <1>3, OthersKeep DEF IInv, LoadFront, Goto, TypeOK

\* An attempt that answers was under way, so it is one of the fast path or of
\* the race not yet collected.
LEMMA DialledKeeps ==
  ASSUME IInv, NEW d \in Dials, NEW c \in Pairs, NEW r \in Answered, Dialled(d, c, r)
  PROVE  IInv'
<1>1. TypeOK'
  BY DEF IInv, TypeOK, Dialled, Answered
<1>2. pc[d] = "fast" \/ (pc[d] = "race" /\ c \notin got[d])
  BY DEF IInv, TypeOK, DialOK, RaceOK, Dialled, Busy, Kept, NotTried, Answered
<1>3. /\ pc' = pc /\ got' = got /\ kept' = kept /\ Fast(d)' = Fast(d)
      /\ try[d][c] = "dialing" /\ try'[d][c] = r
      /\ \A b \in Pairs \ {c} : try'[d][b] = try[d][b]
  BY DEF IInv, TypeOK, Dialled, Fast
<1>4. DialOK(d)'
  <2>1. CASE pc[d] = "fast"
    BY <1>3, <2>1 DEF IInv, DialOK, Kept
  <2>2. CASE pc[d] = "race" /\ c \notin got[d]
    <3>1. RaceOK(d) /\ Fast(d) \in Pairs /\ got[d] \subseteq Pairs
      BY <2>2 DEF IInv, TypeOK, DialOK, Fast, Pairs
    <3>2. RaceOK(d)'
      BY <1>3, <2>2, <3>1 DEF RaceOK, Answered
    <3> QED BY <1>3, <2>2, <3>2 DEF DialOK, Kept
  <2> QED BY <1>2, <2>1, <2>2
<1> QED BY <1>1, <1>4, OthersKeep DEF IInv, Dialled, TypeOK

\* The fast path has connected: its connection is the only one.
LEMMA FastWonKeeps == ASSUME IInv, NEW d \in Dials, FastWon(d) PROVE IInv'
<1>1. Fast(d) \in Pairs
  BY DEF IInv, TypeOK, Fast, Pairs
<1>2. TypeOK'
  BY <1>1, DialAssumption DEF IInv, TypeOK, FastWon, Forget, Goto, Busy, Profiles
<1>3. DialOK(d)'
  BY <1>1 DEF IInv, TypeOK, DialOK, FastWon, Forget, Goto, Kept, Fast
<1> QED BY <1>2, <1>3, OthersKeep DEF IInv, FastWon, Forget, Goto, TypeOK

LEMMA RaceKeeps == ASSUME IInv, NEW d \in Dials, Race(d) PROVE IInv'
<1>1. TypeOK'
  BY DEF IInv, TypeOK, Race, Goto, Busy
<1>2. DialOK(d)'
  BY DEF IInv, TypeOK, DialOK, RaceOK, Race, Goto, Kept, Fast, Answered, Pairs
<1> QED BY <1>1, <1>2, OthersKeep DEF IInv, Race, Goto, TypeOK

\* A result is collected: the first connection stays open, a later one not.
LEMMA CollectKeeps ==
  ASSUME IInv, NEW d \in Dials, NEW c \in Pairs, Collect(d, c)
  PROVE  IInv'
<1>1. TypeOK'
  BY DEF IInv, TypeOK, Collect
<1>2. RaceOK(d)
  BY DEF IInv, DialOK, Collect
<1>3. got'[d] = got[d] \cup {c} /\ Fast(d)' = Fast(d) /\ pc'[d] = "race"
  BY DEF IInv, TypeOK, Collect, Fast
<1>4. RaceOK(d)'
  <2>1. CASE try[d][c] = "open" /\ kept[d] = NoPair
    <3>1. kept'[d] = c /\ try' = try
      BY <2>1 DEF IInv, TypeOK, Collect
    <3> QED BY <1>2, <1>3, <2>1, <3>1, DialAssumption DEF RaceOK, Collect
  <2>2. CASE try[d][c] = "open" /\ kept[d] # NoPair
    <3>1. /\ kept' = kept /\ try'[d][c] = "closed"
          /\ \A b \in Pairs \ {c} : try'[d][b] = try[d][b]
      BY <2>2 DEF IInv, TypeOK, Collect
    <3> QED BY <1>2, <1>3, <2>2, <3>1 DEF RaceOK, Collect, IInv, TypeOK, Fast, Pairs
  <2>3. CASE try[d][c] = "down"
    BY <1>2, <1>3, <2>3, DialAssumption DEF RaceOK, Collect
  <2> QED BY <2>1, <2>2, <2>3 DEF Collect
<1>5. DialOK(d)'
  BY <1>3, <1>4 DEF DialOK, Kept
<1> QED BY <1>1, <1>5, OthersKeep DEF IInv, Collect, TypeOK

\* All results are in: what is open is the winner's.
LEMMA WonKeeps == ASSUME IInv, NEW d \in Dials, Won(d) PROVE IInv'
<1>1. RaceOK(d) /\ got[d] = Pairs \ {Fast(d)}
  BY AllCollected DEF IInv, DialOK, RaceOK, Won, RaceOver
<1>2. TypeOK'
  BY DialAssumption DEF IInv, TypeOK, Won, RaceOver, Forget, Goto, Busy, Profiles
<1>3. kept[d] \in Pairs /\ kept'[d] = kept[d] /\ got'[d] = {} /\ pc'[d] = "remember"
  BY DEF IInv, TypeOK, Won, Forget, Goto
<1>4. \A c \in Pairs : try'[d][c] = IF c = kept[d] THEN "open" ELSE "none"
  <2>1. \A c \in Pairs : try'[d][c] = IF try[d][c] = "open" THEN "open" ELSE "none"
    BY DEF IInv, TypeOK, Won, Forget
  <2>2. \A c \in Pairs : try[d][c] = "open" <=> c = kept[d]
    BY <1>1, <1>3 DEF RaceOK, Won
  <2> QED BY <2>1, <2>2
<1>5. DialOK(d)'
  BY <1>3, <1>4 DEF DialOK, Kept
<1> QED BY <1>2, <1>5, OthersKeep DEF IInv, Won, Forget, Goto, TypeOK

\* All results are in and none is a connection.
LEMMA LostKeeps == ASSUME IInv, NEW d \in Dials, Lost(d) PROVE IInv'
<1>1. RaceOK(d) /\ got[d] = Pairs \ {Fast(d)} /\ kept[d] = NoPair
  BY AllCollected DEF IInv, DialOK, RaceOK, Lost, RaceOver
<1>2. TypeOK'
  <2>1. CASE d \in Once \/ tries[d] = 2
    BY <2>1 DEF IInv, TypeOK, Lost, RaceOver, Goto, Busy
  <2>2. CASE ~(d \in Once \/ tries[d] = 2)
    <3>1. /\ pc' = [pc EXCEPT ![d] = "rank"] /\ tries' = [tries EXCEPT ![d] = 2]
          /\ try' = [try EXCEPT ![d] = NotTried] /\ got' = [got EXCEPT ![d] = {}]
          /\ UNCHANGED <<remembered, file, dir, ranked, front, kept>>
      BY <2>2 DEF Lost, Goto
    <3> QED BY <3>1, Defaults DEF IInv, TypeOK, Busy
  <2> QED BY <2>1, <2>2
<1>3. DialOK(d)'
  BY <1>1 DEF IInv, TypeOK, DialOK, RaceOK, Lost, RaceOver, Goto, Kept
<1> QED BY <1>2, <1>3, OthersKeep DEF IInv, Lost, Goto, TypeOK

\* What is remembered is the winner; nothing happens to connections.
LEMMA RememberKeeps ==
  ASSUME IInv, NEW d \in Dials, Remember(d) \/ Truncate(d) \/ Write(d) \/ Hello(d)
  PROVE  IInv'
<1>1. DialOK(d) /\ kept[d] \in Pairs /\ pc'[d] \in Kept
  BY DEF IInv, TypeOK, DialOK, Remember, Truncate, Write, Hello, Goto, Kept
<1>2. TypeOK'
  BY <1>1 DEF IInv, TypeOK, Remember, Truncate, Write, Hello, Goto, Busy
<1>3. DialOK(d)'
  BY <1>1 DEF IInv, TypeOK, DialOK, Remember, Truncate, Write, Hello, Goto, Kept
<1> QED BY <1>2, <1>3, OthersKeep DEF IInv, Remember, Truncate, Write, Hello, Goto

LEMMA HangUpKeeps == ASSUME IInv, NEW d \in Dials, HangUp(d) PROVE IInv'
<1>1. TypeOK'
  BY DialAssumption DEF IInv, TypeOK, HangUp, Goto, Busy, NotTried, Profiles
<1>2. DialOK(d)'
  BY DEF IInv, TypeOK, DialOK, HangUp, Goto, Kept
<1> QED BY <1>1, <1>2, OthersKeep DEF IInv, HangUp, Goto, TypeOK

\* SetCacheDir touches no dial, a restart ends them all.
LEMMA ProcessKeeps == ASSUME IInv, SetCacheDir \/ Restart PROVE IInv'
<1>1. CASE SetCacheDir
  <2>1. TypeOK'
    BY <1>1 DEF IInv, TypeOK, SetCacheDir, dialVars
  <2> QED BY <1>1, <2>1 DEF IInv, DialOK, RaceOK, Fast, SetCacheDir, dialVars
<1>2. CASE Restart
  <2>1. TypeOK'
    <3>0. dir' \in BOOLEAN
      BY <1>2 DEF Restart
    <3>1. /\ remembered' \in Pairs \cup {NoPair} /\ file' \in Pairs \cup {NoPair}
          /\ pc' \in [Dials -> Busy \cup {"idle", "use", "pipe", "failed"}] /\ tries' \in [Dials -> 0 .. 2]
      BY <1>2 DEF Restart, IInv, TypeOK, Busy
    <3>2. ranked' \in [Dials -> Profiles] /\ front' \in [Dials -> Fronts] /\ kept' \in [Dials -> Pairs \cup {NoPair}]
      BY <1>2, Defaults DEF Restart
    <3>3. /\ try' \in [Dials -> [Pairs -> {"none", "dialing", "open", "down", "closed"}]]
          /\ got' \in [Dials -> SUBSET Pairs]
      BY <1>2, Defaults, Zenon DEF Restart
    <3> QED BY <3>0, <3>1, <3>2, <3>3 DEF TypeOK, Pairs, Profiles, Busy
  <2>2. ASSUME NEW d \in Dials PROVE DialOK(d)'
    <3>1. pc'[d] = "idle" /\ try'[d] = NotTried' /\ got'[d] = {} /\ kept'[d] = NoPair
      BY <1>2 DEF Restart, NotTried, Pairs, Profiles
    <3> QED BY <3>1 DEF DialOK, Kept
  <2> QED BY <2>1, <2>2 DEF IInv
<1> QED BY <1>1, <1>2

-----------------------------------------------------------------------------
(* How a ClientHello is cut.                                               *)

\* Seven points are seven at most.
LEMMA SevenPoints ==
  ASSUME NEW a, NEW b, NEW c, NEW d, NEW e, NEW f, NEW g
  PROVE  IsFiniteSet({a, b, c, d, e, f, g}) /\ Cardinality({a, b, c, d, e, f, g}) <= 7
<1> DEFINE S == {a, b, c, d, e, f, g}
           F == <<a, b, c, d, e, f, g>>
<1>0. \A k \in Nat : IsFiniteSet(1 .. k) /\ Cardinality(1 .. k) = k
  BY FS_Interval
<1>1. IsFiniteSet(1 .. 7) /\ Cardinality(1 .. 7) = 7
  <2>1. 7 \in Nat
    OBVIOUS
  <2> QED BY <1>0, <2>1, Zenon
<1>2. F \in Surjection(1 .. 7, S)
  <2>1. F \in [1 .. 7 -> S]
    OBVIOUS
  <2>2. \A s \in S : \E i \in 1 .. 7 : F[i] = s
    <3>1. F[1] = a /\ F[2] = b /\ F[3] = c /\ F[4] = d /\ F[5] = e /\ F[6] = f /\ F[7] = g
      OBVIOUS
    <3>2. 1 \in 1 .. 7 /\ 2 \in 1 .. 7 /\ 3 \in 1 .. 7 /\ 4 \in 1 .. 7 /\ 5 \in 1 .. 7
          /\ 6 \in 1 .. 7 /\ 7 \in 1 .. 7
      OBVIOUS
    <3> HIDE DEF F
    <3> QED BY <3>1, <3>2
  <2> HIDE DEF F, S
  <2> QED BY <2>1, <2>2 DEF Surjection
<1> HIDE DEF F, S
<1>3. IsFiniteSet(S) /\ Cardinality(S) <= 7
  BY <1>1, <1>2, FS_Surjection
<1> QED BY <1>3 DEF S

\* Points strictly inside a write are no more than the points.
LEMMA InsideIs ==
  ASSUME NEW n, NEW S, IsFiniteSet(S), NEW k \in Nat, Cardinality(S) <= k
  PROVE  IsFiniteSet(Inside(n, S)) /\ Cardinality(Inside(n, S)) <= k
<1>1. Inside(n, S) \subseteq S
  BY DEF Inside
<1> QED BY <1>1, FS_Subset, FS_CardinalityType

LEMMA EqualIs ==
  ASSUME NEW n \in Nat, NEW chunks \in Nat \ {0}
  PROVE  IsFiniteSet(EqualSplits(n, chunks)) /\ Cardinality(EqualSplits(n, chunks)) <= chunks - 1
<1>1. CASE chunks <= 1
  BY <1>1, FS_EmptySet DEF EqualSplits
<1>2. CASE ~(chunks <= 1)
  <2> DEFINE F == [i \in 1 .. chunks - 1 |-> (n * i) \div chunks]
             S == {(n * i) \div chunks : i \in 1 .. chunks - 1}
  <2>1. F \in Surjection(1 .. chunks - 1, S)
    BY DEF Surjection
  <2>2. IsFiniteSet(1 .. chunks - 1) /\ Cardinality(1 .. chunks - 1) = chunks - 1
    BY <1>2, FS_Interval
  <2>3. EqualSplits(n, chunks) = Inside(n, S)
    BY <1>2 DEF EqualSplits
  <2> HIDE DEF F, S
  <2>4. IsFiniteSet(S) /\ Cardinality(S) <= chunks - 1
    BY <2>1, <2>2, FS_Surjection
  <2> QED BY <1>2, <2>3, <2>4, InsideIs
<1> QED BY <1>1, <1>2

LEMMA SniIs ==
  ASSUME NEW h
  PROVE  /\ IsFiniteSet(SniSplits(h)) /\ Cardinality(SniSplits(h)) <= 7
         /\ IsFiniteSet(SniSplits(h) \cup Inside(h.n, {1, 5}))
         /\ SniSplits(h) # {} => Cardinality(SniSplits(h) \cup Inside(h.n, {1, 5})) <= 7
<1> DEFINE S == {1, 5, h.hs - 8, h.hs - 1, h.hs + 1, h.hs + 7, h.he}
<1>1. IsFiniteSet(Inside(h.n, S)) /\ Cardinality(Inside(h.n, S)) <= 7
  BY SevenPoints, InsideIs
<1>2. IsFiniteSet(Inside(h.n, {1, 5}))
  <2>1. Inside(h.n, {1, 5}) \subseteq S
    BY DEF Inside
  <2>2. IsFiniteSet(S)
    BY SevenPoints
  <2> QED BY <2>1, <2>2, FS_Subset
<1>3. Inside(h.n, S) \cup Inside(h.n, {1, 5}) = Inside(h.n, S)
  BY DEF Inside
<1>4. SniSplits(h) = {} \/ SniSplits(h) = Inside(h.n, S)
  BY DEF SniSplits
<1> HIDE DEF S
<1>5. CASE SniSplits(h) = {}
  BY <1>2, <1>5, FS_EmptySet, FS_Union
<1>6. CASE SniSplits(h) = Inside(h.n, S)
  BY <1>1, <1>3, <1>6
<1> QED BY <1>4, <1>5, <1>6

\* The chunks of a write of two bytes or more are two, if the profile has two.
LEMMA ChunksFor ==
  ASSUME NEW cfg, cfg.chunks \in Nat \ {0}, NEW n \in Nat
  PROVE  /\ NumChunksFor(cfg, n) \in Nat \ {0}
         /\ NumChunksFor(cfg, n) <= cfg.chunks
         /\ n >= 2 /\ cfg.chunks > 1 => NumChunksFor(cfg, n) > 1
         /\ NumChunksFor(cfg, n) > 1 => n >= 2 /\ NumChunksFor(cfg, n) <= n
  BY DEF NumChunksFor

\* A random choice has the size asked for, or is of every point.
LEMMA RandomIs ==
  ASSUME NEW n \in Nat, NEW k \in Nat \ {0}, n >= 2, NEW cuts \in RandomSplits(n, k)
  PROVE  IsFiniteSet(cuts) /\ Cardinality(cuts) <= k /\ cuts # {}
<1>1. IsFiniteSet(1 .. n - 1) /\ Cardinality(1 .. n - 1) = n - 1
  BY FS_Interval
<1>2. CASE k >= n - 1
  <2>1. cuts = 1 .. n - 1
    BY <1>2 DEF RandomSplits
  <2>2. 1 \in cuts /\ n - 1 <= k
    BY <1>2, <2>1
  <2> QED BY <1>1, <2>1, <2>2
<1>3. CASE ~(k >= n - 1)
  <2>1. cuts \in SUBSET (1 .. n - 1) /\ Cardinality(cuts) = k
    BY <1>3 DEF RandomSplits, kSubset
  <2>2. IsFiniteSet(cuts)
    BY <1>1, <2>1, FS_Subset
  <2> QED BY <2>1, <2>2, FS_EmptySet
<1> QED BY <1>2, <1>3

\* The points a profile chooses are fewer than its chunks; a profile that looks
\* for the name has one in it, when there is room.
LEMMA ProfileIs ==
  ASSUME NEW p \in Profiles, NEW cfg \in Configs[p], NEW h \in Hellos
  PROVE  /\ IsFiniteSet(ProfileSplits(cfg, h))
         /\ Cardinality(ProfileSplits(cfg, h)) <= cfg.chunks - 1
         /\ cfg.splits \in {"sni", "sniOrEqual"} /\ h.he > h.hs + 1 =>
              \E s \in Inside(h.n, ProfileSplits(cfg, h)) : h.hs < s /\ s < h.he
<1>t. /\ cfg.chunks \in Nat \ {0} /\ cfg.splits \in {"none", "equal", "sni", "sniOrEqual"}
      /\ cfg.splits \in {"sni", "sniOrEqual"} => cfg.chunks >= 8
      /\ h.n \in Nat /\ h.hs \in Nat /\ h.he \in Nat /\ h.he <= h.n /\ (h.hs = 0 => h.he = 0)
  BY FragmentAssumption
<1>s. /\ IsFiniteSet(SniSplits(h)) /\ Cardinality(SniSplits(h)) <= 7
      /\ IsFiniteSet(SniSplits(h) \cup Inside(h.n, {1, 5}))
      /\ SniSplits(h) # {} => Cardinality(SniSplits(h) \cup Inside(h.n, {1, 5})) <= 7
  BY SniIs
<1>c. /\ Cardinality(SniSplits(h)) \in Nat
      /\ Cardinality(SniSplits(h) \cup Inside(h.n, {1, 5})) \in Nat
  BY <1>s, FS_CardinalityType
<1>w. h.he > h.hs + 1 =>
        /\ h.hs + 1 \in SniSplits(h) /\ h.hs + 1 \in Int /\ h.hs < h.hs + 1 /\ h.hs + 1 < h.he
        /\ h.hs + 1 \in Inside(h.n, SniSplits(h) \cup Inside(h.n, {1, 5}))
        /\ h.hs + 1 \in Inside(h.n, SniSplits(h))
  BY <1>t DEF SniSplits, Inside
<1>n. h.he > h.hs + 1 =>
        /\ SniSplits(h) # {}
        /\ \E s \in Inside(h.n, SniSplits(h)) : h.hs < s /\ s < h.he
        /\ \E s \in Inside(h.n, SniSplits(h) \cup Inside(h.n, {1, 5})) : h.hs < s /\ s < h.he
  BY <1>w
<1>b. /\ cfg.chunks >= 8 => Cardinality(SniSplits(h)) <= cfg.chunks - 1
      /\ cfg.chunks >= 8 /\ SniSplits(h) # {} =>
           Cardinality(SniSplits(h) \cup Inside(h.n, {1, 5})) <= cfg.chunks - 1
  BY <1>t, <1>s, <1>c
<1>1. CASE cfg.splits = "none"
  <2>1. ProfileSplits(cfg, h) = {}
    BY <1>1 DEF ProfileSplits
  <2> QED BY <1>1, <1>t, <2>1, FS_EmptySet
<1>2. CASE cfg.splits = "equal"
  <2>1. ProfileSplits(cfg, h) = EqualSplits(h.n, cfg.chunks)
    BY <1>2 DEF ProfileSplits
  <2> QED BY <1>2, <1>t, <2>1, EqualIs
<1>3. CASE cfg.splits = "sni"
  <2>1. ProfileSplits(cfg, h) = SniSplits(h)
    BY <1>3 DEF ProfileSplits
  <2> QED BY <1>3, <1>t, <1>s, <1>b, <1>n, <2>1
<1>4. CASE cfg.splits = "sniOrEqual"
  <2>1. CASE SniSplits(h) = {}
    <3>1. ProfileSplits(cfg, h) = EqualSplits(h.n, 8) /\ ~(h.he > h.hs + 1)
      BY <1>4, <1>n, <2>1 DEF ProfileSplits
    <3>2. IsFiniteSet(EqualSplits(h.n, 8)) /\ Cardinality(EqualSplits(h.n, 8)) <= 7
      BY <1>t, EqualIs
    <3>3. Cardinality(EqualSplits(h.n, 8)) \in Nat
      BY <3>2, FS_CardinalityType
    <3> QED BY <1>4, <1>t, <3>1, <3>2, <3>3
  <2>2. CASE SniSplits(h) # {}
    <3>1. ProfileSplits(cfg, h) = SniSplits(h) \cup Inside(h.n, {1, 5})
      BY <1>4, <2>2 DEF ProfileSplits
    <3> QED BY <1>4, <1>t, <1>s, <1>b, <1>n, <2>2, <3>1
  <2> QED BY <2>1, <2>2
<1> QED BY <1>1, <1>2, <1>3, <1>4, <1>t

\* However a ClientHello is cut, no chunk too many and the name in two.
LEMMA CutsAre ==
  ASSUME NEW p \in Profiles, NEW cfg \in Configs[p], NEW h \in Hellos, NEW cuts \in Cuts(cfg, h)
  PROVE  /\ Cardinality(cuts) + 1 <= cfg.chunks
         /\ h.n >= 2 /\ cfg.chunks > 1 => cuts # {}
         /\ cfg.splits \in {"sni", "sniOrEqual"} /\ h.he > h.hs + 1 =>
              \E s \in cuts : h.hs < s /\ s < h.he
<1> DEFINE points == Inside(h.n, ProfileSplits(cfg, h))
           m == NumChunksFor(cfg, h.n)
<1>t. /\ cfg.chunks \in Nat \ {0} /\ h.n \in Nat /\ h.hs \in Nat /\ h.he \in Nat /\ h.he <= h.n
      /\ cfg.splits \in {"sni", "sniOrEqual"} => cfg.chunks >= 8
  BY FragmentAssumption
<1>m. /\ m \in Nat \ {0} /\ m <= cfg.chunks
      /\ h.n >= 2 /\ cfg.chunks > 1 => m > 1
      /\ m > 1 => h.n >= 2
  BY <1>t, ChunksFor
<1>p. /\ IsFiniteSet(points) /\ Cardinality(points) <= cfg.chunks - 1
      /\ cfg.splits \in {"sni", "sniOrEqual"} /\ h.he > h.hs + 1 =>
           \E s \in points : h.hs < s /\ s < h.he
  BY <1>t, ProfileIs, InsideIs
<1>c. /\ m <= 1 => cuts = {}
      /\ m > 1 /\ points # {} => cuts = points
      /\ m > 1 /\ points = {} => cuts \in RandomSplits(h.n, m - 1)
  BY <1>m DEF Cuts
<1> HIDE DEF points, m
<1>1. CASE m <= 1
  <2>1. cuts = {} /\ Cardinality(cuts) = 0
    BY <1>1, <1>c, FS_EmptySet
  <2>2. cfg.splits \in {"sni", "sniOrEqual"} => ~(h.he > h.hs + 1)
    BY <1>1, <1>t, <1>m
  <2> QED BY <1>1, <1>t, <1>m, <2>1, <2>2
<1>2. CASE m > 1 /\ points # {}
  <2>1. Cardinality(points) \in Nat
    BY <1>p, FS_CardinalityType
  <2> QED BY <1>2, <1>t, <1>p, <1>c, <2>1
<1>3. CASE m > 1 /\ points = {}
  <2>1. IsFiniteSet(cuts) /\ Cardinality(cuts) <= m - 1 /\ cuts # {}
    BY <1>3, <1>t, <1>m, <1>c, RandomIs
  <2>2. Cardinality(cuts) \in Nat
    BY <2>1, FS_CardinalityType
  <2> QED BY <1>3, <1>t, <1>m, <1>p, <2>1, <2>2
<1> QED BY <1>1, <1>2, <1>3, <1>m

\* Only a write of a ClientHello leads to "pipe".
HelloInv == DOMAIN out = Dials /\ HelloIsCut

LEMMA HelloStart == Init => HelloInv
  BY DEF Init, HelloInv, HelloIsCut

LEMMA HelloKept == IInv /\ HelloInv /\ [Next]_vars => HelloInv'
<1> SUFFICES ASSUME IInv, HelloInv, [Next]_vars PROVE HelloInv'
  OBVIOUS
<1>1. ASSUME out' = out, \A e \in Dials : pc'[e] = "pipe" => pc[e] = "pipe" PROVE HelloInv'
  BY <1>1 DEF HelloInv, HelloIsCut
<1>2. ASSUME NEW d \in Dials, Hello(d) PROVE HelloInv'
  <2>1. PICK h \in Hellos, cfg \in Configs[kept[d][2]] : \E cuts \in Cuts(cfg, h) :
          out' = [out EXCEPT ![d] = [n |-> h.n, hs |-> h.hs, he |-> h.he, cfg |-> cfg, cuts |-> cuts]]
    BY <1>2 DEF Hello
  <2>2. PICK cuts \in Cuts(cfg, h) :
          out' = [out EXCEPT ![d] = [n |-> h.n, hs |-> h.hs, he |-> h.he, cfg |-> cfg, cuts |-> cuts]]
    BY <2>1
  <2>3. kept[d][2] \in Profiles
    BY <1>2 DEF Hello, IInv, DialOK, Kept, Pairs
  <2>4. /\ Cardinality(cuts) + 1 <= cfg.chunks
        /\ h.n >= 2 /\ cfg.chunks > 1 => cuts # {}
        /\ cfg.splits \in {"sni", "sniOrEqual"} /\ h.he > h.hs + 1 =>
             \E s \in cuts : h.hs < s /\ s < h.he
    BY <2>3, CutsAre
  <2>5. /\ out'[d] = [n |-> h.n, hs |-> h.hs, he |-> h.he, cfg |-> cfg, cuts |-> cuts]
        /\ DOMAIN out' = Dials /\ \A e \in Dials \ {d} : out'[e] = out[e]
    BY <2>2 DEF HelloInv
  <2>6. \A e \in Dials \ {d} : pc'[e] = pc[e]
    BY <1>2 DEF Hello, Goto, IInv, TypeOK
  <2> QED BY <2>4, <2>5, <2>6 DEF HelloInv, HelloIsCut
<1>3. ASSUME NEW d \in Dials, HangUp(d) PROVE HelloInv'
  <2>1. pc'[d] = "idle" /\ \A e \in Dials \ {d} : pc'[e] = pc[e] /\ out'[e] = out[e]
    BY <1>3 DEF HangUp, Goto, IInv, TypeOK, HelloInv
  <2>2. DOMAIN out' = Dials
    BY <1>3 DEF HangUp, HelloInv
  <2> QED BY <2>1, <2>2 DEF HelloInv, HelloIsCut
<1>4. CASE Restart
  <2>1. DOMAIN out' = Dials /\ \A e \in Dials : pc'[e] = "idle"
    BY <1>4 DEF Restart
  <2> QED BY <2>1 DEF HelloInv, HelloIsCut
<1>5. CASE SetCacheDir \/ UNCHANGED vars
  BY <1>1, <1>5 DEF SetCacheDir, vars, dialVars
<1>6. ASSUME NEW d \in Dials, Start(d) \/ Attempt(d) \/ Dialling(d) PROVE HelloInv'
  <2>1. out' = out
    BY <1>6 DEF Start, Attempt, Dialled, Dialling, Rank, LoadFront, FastWon, Race, Collect,
                Won, Lost, Remember, Truncate, Write
  <2>2. UNCHANGED pc \/ \E l : l # "pipe" /\ Goto(d, l)
    BY <1>6 DEF Start, Attempt, Dialled, Dialling, Rank, LoadFront, FastWon, Race, Collect,
                Won, Lost, Remember, Truncate, Write
  <2>3. \A e \in Dials : pc'[e] = "pipe" => pc[e] = "pipe"
    BY <2>2 DEF Goto, IInv, TypeOK
  <2> QED BY <1>1, <2>1, <2>3
<1> QED BY <1>2, <1>3, <1>4, <1>5, <1>6 DEF Next

-----------------------------------------------------------------------------
(* The invariant and what follows from it.                                 *)

LEMMA Initially == Init => IInv
<1> SUFFICES ASSUME Init PROVE IInv
  OBVIOUS
<1>1. TypeOK
  <2>0. dir \in BOOLEAN
    BY DEF Init
  <2>1. /\ remembered \in Pairs \cup {NoPair} /\ file \in Pairs \cup {NoPair}
        /\ pc \in [Dials -> Busy \cup {"idle", "use", "pipe", "failed"}] /\ tries \in [Dials -> 0 .. 2]
    BY DEF Init, Busy
  <2>2. ranked \in [Dials -> Profiles] /\ front \in [Dials -> Fronts] /\ kept \in [Dials -> Pairs \cup {NoPair}]
    BY Defaults DEF Init
  <2>3. /\ try \in [Dials -> [Pairs -> {"none", "dialing", "open", "down", "closed"}]]
        /\ got \in [Dials -> SUBSET Pairs]
    BY Defaults, Zenon DEF Init
  <2> QED BY <2>0, <2>1, <2>2, <2>3 DEF TypeOK
<1> QED BY <1>1 DEF IInv, DialOK, Init, Kept

LEMMA Invariance == IInv /\ [Next]_vars => IInv'
<1> SUFFICES ASSUME IInv, [Next]_vars PROVE IInv'
  OBVIOUS
<1>1. CASE UNCHANGED vars
  <2>1. TypeOK'
    BY <1>1 DEF IInv, TypeOK, vars, dialVars
  <2> QED BY <1>1, <2>1 DEF IInv, DialOK, RaceOK, Fast, vars, dialVars
<1>2. CASE SetCacheDir \/ Restart
  BY <1>2, ProcessKeeps
<1>3. ASSUME NEW d \in Dials, Start(d) \/ Attempt(d) \/ Dialling(d) \/ Hello(d) \/ HangUp(d)
      PROVE  IInv'
  <2>1. CASE Attempt(d)
    BY <2>1, DialledKeeps DEF Attempt, Answered
  <2>2. CASE Dialling(d)
    BY <2>2, RankKeeps, LoadFrontKeeps, FastWonKeeps, RaceKeeps, CollectKeeps, WonKeeps,
       LostKeeps, RememberKeeps DEF Dialling
  <2> QED BY <1>3, <2>1, <2>2, StartKeeps, RememberKeeps, HangUpKeeps
<1> QED BY <1>1, <1>2, <1>3 DEF Next

\* The variables keep their types, the remembered pair and the file included.
THEOREM DialTypeCorrect == Spec => []TypeOK
<1>1. IInv => TypeOK
  BY DEF IInv
<1> QED BY <1>1, Initially, Invariance, PTL DEF Spec

\* However many fronts and profiles race, and whatever answers after the cancel,
\* a dial that is over keeps one connection or none, and fails only when every
\* pair has failed (dialFragment).
THEOREM NoConnectionLeft == Spec => []NoConnLeft
<1>1. IInv => NoConnLeft
  BY DEF IInv, DialOK, NoConnLeft
<1> QED BY <1>1, Initially, Invariance, PTL DEF Spec

\* Only a pair that has connected enters memory or the file (rememberCandidate).
THEOREM WinnersRemembered == Spec => RememberedHasWon
<1> DEFINE Step ==
      /\ remembered' \notin {remembered, NoPair, file} => \E d \in Dials : try[d][remembered'] = "open"
      /\ file' \notin {file, NoPair} => \E d \in Dials : try[d][file'] = "open"
<1>1. ASSUME IInv, [Next]_vars PROVE Step
  <2>1. ASSUME NEW d \in Dials, Remember(d) \/ Write(d) PROVE Step
    <3>1. try[d][kept[d]] = "open"
      BY <1>1, <2>1 DEF IInv, DialOK, Remember, Write, Kept
    <3> QED BY <2>1, <3>1 DEF Remember, Write
  <2>2. CASE SetCacheDir \/ Restart
    BY <2>2 DEF SetCacheDir, Restart
  <2>3. CASE UNCHANGED <<remembered, file>>
    BY <2>3
  <2>4. ASSUME NEW d \in Dials, Truncate(d) PROVE Step
    BY <2>4 DEF Truncate
  <2> QED BY <1>1, <2>1, <2>2, <2>3, <2>4 DEF Next, Attempt, Dialling, Start, Rank, LoadFront, Dialled,
             FastWon, Race, Collect, Won, Lost, Hello, HangUp, vars
<1>2. IInv /\ [Next]_vars => [Step]_vars
  BY <1>1
<1> QED BY <1>2, Initially, Invariance, PTL DEF Spec, RememberedHasWon

\* Whatever a browser sends and whatever the profiles' chunks, a ClientHello
\* goes out in no more segments than the profile has chunks, and where the
\* profile looks for the server name, in none with all of it (fragment.go).
THEOREM HelloGoesInPieces == Spec => []HelloIsCut
<1>1. HelloInv => HelloIsCut
  BY DEF HelloInv
<1>2. IInv /\ HelloInv /\ [Next]_vars => IInv' /\ HelloInv'
  BY Invariance, HelloKept
<1> QED BY <1>1, <1>2, Initially, HelloStart, PTL DEF Spec
=============================================================================
