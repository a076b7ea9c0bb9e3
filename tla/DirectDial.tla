----------------------------- MODULE DirectDial -----------------------------
(***************************************************************************)
(* Direct connections to Google domains (relay/route/direct.go,            *)
(* direct_profiles.go): the pair of front and profile that worked last is  *)
(* tried first; when it fails, all others race and the first to connect    *)
(* wins.  The winning pair is remembered in memory and, in a second step,  *)
(* in a file that outlives the process.  A dial is a goroutine; it ends    *)
(* with a connection whose first write is cut as in Fragment.              *)
(***************************************************************************)
EXTENDS Fragment

CONSTANTS Fronts,      \* DirectFronts
          First,       \* the first of them
          NProfiles,   \* directProfiles are 1 .. NProfiles, in order
          Configs,     \* Configs[p]: the fragmentations profile p stands for
          Hellos,      \* the ClientHellos a browser may send
          Dials,       \* goroutines that dial
          Once,        \* those of them that dial for SOCKS5, without a second try
          NoPair       \* nil

Profiles == 1 .. NProfiles
Pairs == Fronts \X Profiles

ASSUME DialAssumption == /\ IsFiniteSet(Fronts) /\ First \in Fronts
                         /\ Once \subseteq Dials
                         /\ NProfiles \in Nat \ {0}
                         /\ NoPair \notin Pairs

\* A profile that looks for the server name allows for all points around it;
\* a name that is found lies behind the headers and inside the write.
ASSUME FragmentAssumption ==
    /\ \A p \in Profiles : \A cfg \in Configs[p] :
          /\ cfg \in [chunks : Nat \ {0}, splits : {"none", "equal", "sni", "sniOrEqual"}]
          /\ cfg.splits \in {"sni", "sniOrEqual"} => cfg.chunks >= 8
    /\ \A h \in Hellos : /\ h \in [n : Nat, hs : Nat, he : Nat]
                         /\ h.he <= h.n /\ (h.hs = 0 => h.he = 0)

VARIABLES
    remembered,  \* the atomic pointer
    file,        \* the pair direct_candidate.txt holds, NoPair when missing or torn
    dir,         \* cacheDir is set
    pc, tries,
    ranked,      \* the profile rankedProfiles put first
    front,       \* the front of the fast path
    try,         \* try[d][c]: how far the attempt with pair c is
    got,         \* the attempts whose result dial d has taken from ch
    kept,        \* winner
    out          \* the ClientHello as written: its cuts

dialVars == <<pc, tries, ranked, front, try, got, kept, out>>
vars == <<remembered, file, dir, dialVars>>

NotTried == [c \in Pairs |-> "none"]
NoHello == [n |-> 0, cuts |-> {}]

\* The race tries every pair but the one of the fast path.
Fast(d) == <<front[d], ranked[d]>>
CandidatesAll == Cardinality(Pairs)    \* mutant: waits for the fast path's pair too
Candidates == Cardinality(Pairs) - 1

Goto(d, l) == pc' = [pc EXCEPT ![d] = l]

\* A dial that has won: its locals are gone, connections stay as they are.
Forget(d) ==
    /\ tries' = [tries EXCEPT ![d] = 0]
    /\ ranked' = [ranked EXCEPT ![d] = 1] /\ front' = [front EXCEPT ![d] = First]
    /\ try' = [try EXCEPT ![d] = [c \in Pairs |-> IF @[c] = "open" THEN "open" ELSE "none"]]
    /\ got' = [got EXCEPT ![d] = {}]

Init ==
    /\ remembered = NoPair /\ file = NoPair /\ dir = FALSE
    /\ pc = [d \in Dials |-> "idle"] /\ tries = [d \in Dials |-> 0]
    /\ ranked = [d \in Dials |-> 1] /\ front = [d \in Dials |-> First]
    /\ try = [d \in Dials |-> NotTried] /\ got = [d \in Dials |-> {}]
    /\ kept = [d \in Dials |-> NoPair] /\ out = [d \in Dials |-> NoHello]

-----------------------------------------------------------------------------
\* HandleDirectConnect dials a second time when the first fails, DialFragment
\* does not.
Start(d) ==
    /\ pc[d] = "idle"
    /\ Goto(d, "rank")
    /\ tries' = [tries EXCEPT ![d] = 1]
    /\ UNCHANGED <<remembered, file, dir, ranked, front, try, got, kept, out>>

\* The first load of the remembered pair gives the order of the profiles ...
Rank(d) ==
    /\ pc[d] = "rank"
    /\ ranked' = [ranked EXCEPT ![d] = IF remembered = NoPair THEN 1 ELSE remembered[2]]
    /\ Goto(d, "load")
    /\ UNCHANGED <<remembered, file, dir, tries, front, try, got, kept, out>>

\* ... the second one the front; then the fast path dials.
LoadFront(d) ==
    /\ pc[d] = "load"
    /\ LET f == IF remembered = NoPair THEN First ELSE remembered[1]
       IN /\ front' = [front EXCEPT ![d] = f]
          /\ try' = [try EXCEPT ![d] = [NotTried EXCEPT ![<<f, ranked[d]>>] = "dialing"]]
    /\ Goto(d, "fast")
    /\ UNCHANGED <<remembered, file, dir, tries, ranked, got, kept, out>>

\* dialDirect returns, connected or not; a cancelled one may have connected.
Dialled(d, c, result) ==
    /\ try[d][c] = "dialing"
    /\ try' = [try EXCEPT ![d][c] = result]
    /\ UNCHANGED <<remembered, file, dir, pc, tries, ranked, front, got, kept, out>>

FastWon(d) ==
    /\ pc[d] = "fast" /\ try[d][Fast(d)] = "open"
    /\ kept' = [kept EXCEPT ![d] = Fast(d)]
    /\ Goto(d, "remember")
    /\ Forget(d)
    /\ UNCHANGED <<remembered, file, dir, out>>

Race(d) ==
    /\ pc[d] = "fast" /\ try[d][Fast(d)] = "down"
    /\ try' = [try EXCEPT ![d] = [c \in Pairs |-> IF c = Fast(d) THEN "down" ELSE "dialing"]]
    /\ Goto(d, "race")
    /\ UNCHANGED <<remembered, file, dir, tries, ranked, front, got, kept, out>>

\* Mutant: a second connection is not closed.
CollectWithoutClose(d, c) ==
    /\ pc[d] = "race" /\ Cardinality(got[d]) < Candidates
    /\ c # Fast(d) /\ c \notin got[d] /\ try[d][c] \in {"open", "down"}
    /\ got' = [got EXCEPT ![d] = @ \cup {c}]
    /\ kept' = IF try[d][c] = "open" /\ kept[d] = NoPair THEN [kept EXCEPT ![d] = c] ELSE kept
    /\ UNCHANGED <<remembered, file, dir, pc, tries, ranked, front, try, out>>

\* r := <-ch: the first connection is kept, each later one closed.
Collect(d, c) ==
    /\ pc[d] = "race" /\ Cardinality(got[d]) < Candidates
    /\ c # Fast(d) /\ c \notin got[d] /\ try[d][c] \in {"open", "down"}
    /\ got' = [got EXCEPT ![d] = @ \cup {c}]
    /\ kept' = IF try[d][c] = "open" /\ kept[d] = NoPair THEN [kept EXCEPT ![d] = c] ELSE kept
    /\ try' = IF try[d][c] = "open" /\ kept[d] # NoPair THEN [try EXCEPT ![d][c] = "closed"] ELSE try
    /\ UNCHANGED <<remembered, file, dir, pc, tries, ranked, front, out>>

RaceOver(d) == pc[d] = "race" /\ Cardinality(got[d]) = Candidates

Won(d) ==
    /\ RaceOver(d) /\ kept[d] # NoPair
    /\ Goto(d, "remember")
    /\ Forget(d)
    /\ UNCHANGED <<remembered, file, dir, kept, out>>

\* Mutant: a retry without an end.
LostAgain(d) ==
    /\ RaceOver(d) /\ kept[d] = NoPair
    /\ Goto(d, "rank")
    /\ tries' = [tries EXCEPT ![d] = @ + 1]
    /\ try' = [try EXCEPT ![d] = NotTried] /\ got' = [got EXCEPT ![d] = {}]
    /\ UNCHANGED <<remembered, file, dir, ranked, front, kept, out>>

\* errAllProfilesFailed
Lost(d) ==
    /\ RaceOver(d) /\ kept[d] = NoPair
    /\ IF d \in Once \/ tries[d] = 2
       THEN Goto(d, "failed") /\ UNCHANGED <<tries, try, got>>
       ELSE /\ Goto(d, "rank")
            /\ tries' = [tries EXCEPT ![d] = 2]
            /\ try' = [try EXCEPT ![d] = NotTried] /\ got' = [got EXCEPT ![d] = {}]
    /\ UNCHANGED <<remembered, file, dir, ranked, front, kept, out>>

-----------------------------------------------------------------------------
\* rememberCandidate: the memory, then the file, which os.WriteFile truncates
\* and fills in two steps.
Remember(d) ==
    /\ pc[d] = "remember"
    /\ remembered' = kept[d]
    /\ Goto(d, IF dir THEN "truncate" ELSE "use")
    /\ UNCHANGED <<file, dir, tries, ranked, front, try, got, kept, out>>

Truncate(d) ==
    /\ pc[d] = "truncate"
    /\ file' = NoPair
    /\ Goto(d, "write")
    /\ UNCHANGED <<remembered, dir, tries, ranked, front, try, got, kept, out>>

\* Mutant: the file is written from memory, where another dial may have stored.
WriteRemembered(d) ==
    /\ pc[d] = "write"
    /\ file' \in {remembered, file} \cup (IF file # NoPair THEN {NoPair} ELSE {})
    /\ Goto(d, "use")
    /\ UNCHANGED <<remembered, dir, tries, ranked, front, try, got, kept, out>>

\* A write over another one leaves the tail of a longer text, which
\* loadRemembered does not take for a pair; an error is ignored.
Write(d) ==
    /\ pc[d] = "write"
    /\ file' \in {kept[d], file} \cup (IF file # NoPair THEN {NoPair} ELSE {})
    /\ Goto(d, "use")
    /\ UNCHANGED <<remembered, dir, tries, ranked, front, try, got, kept, out>>

\* fragmentConn.Write of the ClientHello, whose size the browser chooses.
Hello(d) ==
    /\ pc[d] = "use"
    /\ \E h \in Hellos, cfg \in Configs[kept[d][2]] : \E cuts \in Cuts(cfg, h) :
          out' = [out EXCEPT ![d] = [n |-> h.n, hs |-> h.hs, he |-> h.he, cfg |-> cfg, cuts |-> cuts]]
    /\ Goto(d, "pipe")
    /\ UNCHANGED <<remembered, file, dir, tries, ranked, front, try, got, kept>>

\* The end of either direction ends the pipe, and the handler closes.
HangUp(d) ==
    /\ pc[d] \in {"use", "pipe", "failed"}
    /\ Goto(d, "idle")
    /\ try' = [try EXCEPT ![d] = NotTried] /\ got' = [got EXCEPT ![d] = {}]
    /\ kept' = [kept EXCEPT ![d] = NoPair] /\ out' = [out EXCEPT ![d] = NoHello]
    /\ ranked' = [ranked EXCEPT ![d] = 1] /\ front' = [front EXCEPT ![d] = First]
    /\ tries' = [tries EXCEPT ![d] = 0]
    /\ UNCHANGED <<remembered, file, dir>>

\* loadRemembered takes what the file holds over what memory holds.
SetCacheDir ==
    /\ ~dir
    /\ dir' = TRUE
    /\ remembered' = IF file # NoPair THEN file ELSE remembered
    /\ UNCHANGED <<file, dialVars>>

\* The process ends anywhere and is started again: only the file is left.
Restart ==
    /\ remembered' = NoPair /\ dir' = FALSE
    /\ pc' = [d \in Dials |-> "idle"] /\ tries' = [d \in Dials |-> 0]
    /\ ranked' = [d \in Dials |-> 1] /\ front' = [d \in Dials |-> First]
    /\ try' = [d \in Dials |-> NotTried] /\ got' = [d \in Dials |-> {}]
    /\ kept' = [d \in Dials |-> NoPair] /\ out' = [d \in Dials |-> NoHello]
    /\ UNCHANGED file

-----------------------------------------------------------------------------
Attempt(d) == \E c \in Pairs, r \in {"open", "down"} : Dialled(d, c, r)

\* What dial d does until it has a connection or has failed.
Dialling(d) ==
    \/ Rank(d) \/ LoadFront(d) \/ FastWon(d) \/ Race(d)
    \/ \E c \in Pairs : Collect(d, c)
    \/ Won(d) \/ Lost(d) \/ Remember(d) \/ Truncate(d) \/ Write(d)

Next ==
    \/ \E d \in Dials : Start(d) \/ Attempt(d) \/ Dialling(d) \/ Hello(d) \/ HangUp(d)
    \/ SetCacheDir \/ Restart

Spec == Init /\ [][Next]_vars

\* Every attempt has a deadline, and goroutines that can run do.
FairSpec == Spec /\ \A d \in Dials : WF_vars(Attempt(d)) /\ WF_vars(Dialling(d))
-----------------------------------------------------------------------------
Busy == {"rank", "load", "fast", "race", "remember", "truncate", "write"}
Kept == {"remember", "truncate", "write", "use", "pipe"}

TypeOK ==
    /\ remembered \in Pairs \cup {NoPair}
    /\ file \in Pairs \cup {NoPair}
    /\ dir \in BOOLEAN
    /\ pc \in [Dials -> Busy \cup {"idle", "use", "pipe", "failed"}]
    /\ tries \in [Dials -> 0 .. 2]
    /\ ranked \in [Dials -> Profiles] /\ front \in [Dials -> Fronts]
    /\ try \in [Dials -> [Pairs -> {"none", "dialing", "open", "down", "closed"}]]
    /\ got \in [Dials -> SUBSET Pairs] /\ kept \in [Dials -> Pairs \cup {NoPair}]

\* A dial that is over has exactly the connection it returns, and each other
\* one that any attempt of the race made, even after the cancel, is closed; a
\* dial fails only when every pair was tried and failed (dialFragment).
NoConnLeft ==
    \A d \in Dials :
        /\ pc[d] \in Kept =>
              \A c \in Pairs : try[d][c] = IF c = kept[d] THEN "open" ELSE "none"
        /\ pc[d] = "failed" => \A c \in Pairs : try[d][c] = "down"

\* A pair that appears in memory is one that some dial holds a connection
\* with, or comes from the file; one that appears in the file is one that some
\* dial holds a connection with, whatever races and restarts (rememberCandidate).
RememberedHasWon ==
    [][/\ remembered' \notin {remembered, NoPair, file} => \E d \in Dials : try[d][remembered'] = "open"
       /\ file' \notin {file, NoPair} => \E d \in Dials : try[d][file'] = "open"]_vars

\* A ClientHello goes out in no more segments than the profile has chunks, and
\* where a profile looks for the server name, in no segment with all of it
\* (fragmentConn.Write, sniSplits).
HelloIsCut ==
    \A d \in Dials : pc[d] = "pipe" =>
        LET o == out[d]
        IN /\ Cardinality(o.cuts) + 1 <= o.cfg.chunks
           /\ o.n >= 2 /\ o.cfg.chunks > 1 => o.cuts # {}
           /\ o.cfg.splits \in {"sni", "sniOrEqual"} /\ o.he > o.hs + 1 =>
                 \E s \in o.cuts : o.hs < s /\ s < o.he

\* A dial comes back, with a connection or without (handleDirectConnect).
DialReturns == \A d \in Dials : pc[d] \in Busy ~> pc[d] \notin Busy

=============================================================================
