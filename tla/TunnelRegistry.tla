--------------------------- MODULE TunnelRegistry ---------------------------
(***************************************************************************)
(* What the exit's session hub promises, without threads or locks: a       *)
(* registry from session ids to connections, in which every connection     *)
(* lives one life.  It is dialled, then either becomes the one live        *)
(* session of a free id or is discarded; a live session that is            *)
(* unregistered drains and is closed.  An occupied id is never taken over, *)
(* and no connection is forgotten while it is open.                        *)
(***************************************************************************)
CONSTANTS Ids,      \* session ids
          Conns,    \* connections, one per successful dial
          None      \* "no connection"

VARIABLES live,     \* live[i]: the connection registered under id i, or None
          phase     \* phase[c]: where connection c is in its life

vars == <<live, phase>>

Phases == {"unused", "dialled", "live", "draining", "closed"}

TypeOK == /\ live \in [Ids -> Conns \cup {None}]
          /\ phase \in [Conns -> Phases]

Init == /\ live = [i \in Ids |-> None]
        /\ phase = [c \in Conns |-> "unused"]

Become(c, from, to) == /\ phase[c] = from
                       /\ phase' = [phase EXCEPT ![c] = to]

Dial(c) == Become(c, "unused", "dialled") /\ UNCHANGED live

Register(i, c) == /\ live[i] = None
                  /\ live' = [live EXCEPT ![i] = c]
                  /\ Become(c, "dialled", "live")

Discard(c) == Become(c, "dialled", "closed") /\ UNCHANGED live

Unregister(i) == /\ live[i] # None
                 /\ live' = [live EXCEPT ![i] = None]
                 /\ Become(live[i], "live", "draining")

Drain(c) == Become(c, "draining", "closed") /\ UNCHANGED live

Next == \/ \E c \in Conns : Dial(c) \/ Discard(c) \/ Drain(c)
        \/ \E i \in Ids, c \in Conns : Register(i, c)
        \/ \E i \in Ids : Unregister(i)

Spec == Init /\ [][Next]_vars

\* A dialled connection is not kept waiting, and a draining one is closed.
Settle(c) == Discard(c) \/ \E i \in Ids : Register(i, c)

FairSpec == /\ Spec
            /\ \A c \in Conns : WF_vars(Settle(c)) /\ WF_vars(Drain(c))
=============================================================================
