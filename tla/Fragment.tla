------------------------------ MODULE Fragment ------------------------------
(***************************************************************************)
(* How a direct connection cuts its first write, the TLS ClientHello, into *)
(* segments (relay/route/fragment.go).  A ClientHello is what the cutting  *)
(* looks at: its length n and the range hs..he-1 of the server name in it, *)
(* 0..0 when none is found.  A list of split points, sorted and without    *)
(* repetition in the code, is the set of the points.                       *)
(***************************************************************************)
EXTENDS Integers, FiniteSets, FiniteSetsExt

\* normalizeSplitPoints: what lies strictly inside a write of n bytes.
Inside(n, points) == {s \in points : 0 < s /\ s < n}

EqualSplits(n, chunks) ==
    IF chunks <= 1 THEN {} ELSE Inside(n, {(n * i) \div chunks : i \in 1 .. chunks - 1})

\* Mutant: the points around the server name, but none in it.
SniSplitsOutside(h) ==
    IF h.hs <= 0 \/ h.he <= h.hs THEN {} ELSE Inside(h.n, {1, 5, h.hs - 8, h.hs - 1, h.he})

SniSplits(h) ==
    IF h.hs <= 0 \/ h.he <= h.hs THEN {}
    ELSE Inside(h.n, {1, 5, h.hs - 8, h.hs - 1, h.hs + 1, h.hs + 7, h.he})

\* Any count of the points; the sets the random choice can end with.
RandomSplits(n, count) ==
    IF count >= n - 1 THEN {1 .. n - 1} ELSE kSubset(count, 1 .. n - 1)

NumChunksFor(cfg, n) == IF n < 2 THEN 1 ELSE IF cfg.chunks > n THEN n ELSE cfg.chunks

\* The Splits functions of the profiles; "none" is a profile without one.
ProfileSplits(cfg, h) ==
    CASE cfg.splits = "equal" -> EqualSplits(h.n, cfg.chunks)
      [] cfg.splits = "sni" -> SniSplits(h)
      [] cfg.splits = "sniOrEqual" ->
            IF SniSplits(h) = {} THEN EqualSplits(h.n, 8) ELSE SniSplits(h) \cup Inside(h.n, {1, 5})
      [] OTHER -> {}

\* The sets of points at which a first write of h may be cut.
Cuts(cfg, h) ==
    IF NumChunksFor(cfg, h.n) <= 1 THEN {{}}
    ELSE IF Inside(h.n, ProfileSplits(cfg, h)) # {} THEN {Inside(h.n, ProfileSplits(cfg, h))}
    ELSE RandomSplits(h.n, NumChunksFor(cfg, h.n) - 1)

=============================================================================
