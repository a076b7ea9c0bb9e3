----------------------------- MODULE ExitTunnel -----------------------------
(***************************************************************************)
(* The exit node's tunnel hub (relay/exit/tunnel.go): a map from session   *)
(* ids to TCP connections, served by one goroutine per HTTP request and    *)
(* swept by one cleanup goroutine.  Each action is one critical section of *)
(* h.mu, or one acquisition or release of a session's writeMu / readMu;    *)
(* between two actions of a goroutine any other goroutine may run.         *)
(*                                                                         *)
(* A tunnelSession is created with exactly one net.Conn, so a session is   *)
(* named by its connection.  Payloads, deadlines and the wording of the    *)
(* replies are left out: a read or a write succeeds, times out or fails.   *)
(***************************************************************************)
CONSTANTS Ids,       \* session ids the clients use
          Conns,     \* connections; a successful dial takes an unused one
          Workers,   \* goroutines serving requests
          Janitor,   \* the cleanupLoop goroutine
          None       \* nil

ASSUME HubAssumption == /\ Janitor \notin Workers
                        /\ None \notin Conns \cup Workers \cup {Janitor}

VARIABLES sessions,  \* h.sessions: id -> connection or None
          conn,      \* conn[c]: "unused" | "open" | "closed"
          expired,   \* sessions whose lastSeen is before the cutoff
          wmu, rmu,  \* holder of writeMu and readMu of each session, or None
          pc,        \* where each goroutine is
          op, id,    \* the request it serves
          held,      \* the session or connection in its local variable
          stale      \* the ids cleanupLoop has still to close

vars == <<sessions, conn, expired, wmu, rmu, pc, op, id, held, stale>>
locks == <<wmu, rmu>>
request == <<op, id>>

Threads == Workers \cup {Janitor}
Ops == {"open", "tx", "rx", "close"}
PCs == {"idle", "lookup", "dial", "insert", "discard", "wlock", "write",
        "rlock", "read", "touch", "touchErr", "delete",
        "closeW", "closeR", "closeC", "next"}

\* Where a goroutine has a session or a connection in its local variable; it
\* is never nil there.
Holding == {"insert", "discard", "wlock", "write", "rlock", "read",
            "touch", "touchErr", "closeW", "closeR", "closeC"}
HeldOK == \A t \in Threads : pc[t] \in Holding => held[t] \in Conns

TypeOK ==
  /\ sessions \in [Ids -> Conns \cup {None}]
  /\ conn \in [Conns -> {"unused", "open", "closed"}]
  /\ expired \subseteq Conns
  /\ wmu \in [Conns -> Threads \cup {None}]
  /\ rmu \in [Conns -> Threads \cup {None}]
  /\ pc \in [Threads -> PCs]
  /\ op \in [Threads -> Ops]
  /\ id \in [Threads -> Ids]
  /\ held \in [Threads -> Conns \cup {None}]
  /\ stale \subseteq Ids
  /\ HeldOK

Registered(c) == \E i \in Ids : sessions[i] = c

Init ==
  /\ sessions = [i \in Ids |-> None]
  /\ conn = [c \in Conns |-> "unused"]
  /\ expired = {}
  /\ wmu = [c \in Conns |-> None]
  /\ rmu = [c \in Conns |-> None]
  /\ pc = [t \in Threads |-> "idle"]
  /\ op = [t \in Threads |-> "close"]
  /\ id \in [Threads -> Ids]
  /\ \A s, t \in Threads : id[s] = id[t]
  /\ held = [t \in Threads |-> None]
  /\ stale = {}

-----------------------------------------------------------------------------
At(t, label) == pc[t] = label
Goto(t, label) == pc' = [pc EXCEPT ![t] = label]

\* The handler answers; cleanupLoop goes on with the next stale id.  The
\* local session variable dies.
Return(t) == /\ Goto(t, IF t = Janitor THEN "next" ELSE "idle")
             /\ held' = [held EXCEPT ![t] = None]

\* A well-formed request arrives: "close" goes straight to h.close.
Receive(w, o, i) ==
  /\ At(w, "idle")
  /\ op' = [op EXCEPT ![w] = o]
  /\ id' = [id EXCEPT ![w] = i]
  /\ Goto(w, IF o = "close" THEN "delete" ELSE "lookup")
  /\ UNCHANGED <<sessions, conn, expired, locks, held, stale>>

\* Mutant: tx and rx without the check for an unknown session.
LookupUnchecked(w) ==
  LET s == sessions[id[w]] IN
  /\ At(w, "lookup")
  /\ \/ /\ op[w] = "open" /\ s = None
        /\ Goto(w, "dial") /\ UNCHANGED held
     \/ /\ op[w] # "open"
        /\ Goto(w, IF op[w] = "tx" THEN "wlock" ELSE "rlock")
        /\ held' = [held EXCEPT ![w] = s]
     \/ /\ op[w] = "open" /\ s # None
        /\ Return(w)
  /\ UNCHANGED <<sessions, conn, expired, locks, request, stale>>

\* h.get: "open" wants no session there, "tx" and "rx" want one.
Lookup(w) ==
  LET s == sessions[id[w]] IN
  /\ At(w, "lookup")
  /\ \/ /\ op[w] = "open" /\ s = None
        /\ Goto(w, "dial") /\ UNCHANGED held
     \/ /\ op[w] # "open" /\ s # None
        /\ Goto(w, IF op[w] = "tx" THEN "wlock" ELSE "rlock")
        /\ held' = [held EXCEPT ![w] = s]
     \/ /\ (op[w] = "open") = (s # None)
        /\ Return(w)
  /\ UNCHANGED <<sessions, conn, expired, locks, request, stale>>

\* The dial runs outside h.mu and fails or yields a new connection.
Dial(w) ==
  /\ At(w, "dial")
  /\ \/ Return(w) /\ UNCHANGED conn
     \/ \E c \in Conns : /\ conn[c] = "unused"
                         /\ conn' = [conn EXCEPT ![c] = "open"]
                         /\ held' = [held EXCEPT ![w] = c]
                         /\ Goto(w, "insert")
  /\ UNCHANGED <<sessions, expired, locks, request, stale>>

\* Mutant: the insert without the second look at the map.
InsertUnchecked(w) ==
  /\ At(w, "insert")
  /\ sessions' = [sessions EXCEPT ![id[w]] = held[w]]
  /\ Return(w)
  /\ UNCHANGED <<conn, expired, locks, request, stale>>

\* Under h.mu again: another open may have taken the id meanwhile.
Insert(w) ==
  /\ At(w, "insert")
  /\ IF sessions[id[w]] = None
     THEN /\ sessions' = [sessions EXCEPT ![id[w]] = held[w]]
          /\ Return(w)
     ELSE Goto(w, "discard") /\ UNCHANGED <<sessions, held>>
  /\ UNCHANGED <<conn, expired, locks, request, stale>>

\* The loser closes the connection nobody else has seen.
Discard(w) ==
  /\ At(w, "discard")
  /\ conn' = [conn EXCEPT ![held[w]] = "closed"]
  /\ Return(w)
  /\ UNCHANGED <<sessions, expired, locks, request, stale>>

LockWrite(w) ==
  /\ At(w, "wlock")
  /\ wmu[held[w]] = None
  /\ wmu' = [wmu EXCEPT ![held[w]] = w]
  /\ Goto(w, "write")
  /\ UNCHANGED <<sessions, conn, expired, rmu, request, held, stale>>

\* The write ends, at the latest at its deadline; on a closed connection it
\* fails.  writeMu is released before the outcome is looked at.
Write(w) ==
  /\ At(w, "write")
  /\ wmu' = [wmu EXCEPT ![held[w]] = None]
  /\ \/ conn[held[w]] = "open" /\ Goto(w, "touch")
     \/ Goto(w, "touchErr")
  /\ UNCHANGED <<sessions, conn, expired, rmu, request, held, stale>>

LockRead(w) ==
  /\ At(w, "rlock")
  /\ rmu[held[w]] = None
  /\ rmu' = [rmu EXCEPT ![held[w]] = w]
  /\ Goto(w, "read")
  /\ UNCHANGED <<sessions, conn, expired, wmu, request, held, stale>>

\* Data and a timeout both answer OK; end of stream and errors do not.
Read(w) ==
  /\ At(w, "read")
  /\ rmu' = [rmu EXCEPT ![held[w]] = None]
  /\ \/ conn[held[w]] = "open" /\ Goto(w, "touch")
     \/ Goto(w, "touchErr")
  /\ UNCHANGED <<sessions, conn, expired, wmu, request, held, stale>>

\* h.touch goes by id: it refreshes whatever session is there by now.
Touch(w) ==
  /\ pc[w] \in {"touch", "touchErr"}
  /\ expired' = expired \ {sessions[id[w]]}
  /\ IF At(w, "touch")
     THEN Return(w)
     ELSE /\ Goto(w, "delete")
          /\ held' = [held EXCEPT ![w] = None]
  /\ UNCHANGED <<sessions, conn, locks, request, stale>>

-----------------------------------------------------------------------------
(* h.close(id), run by handlers and by cleanupLoop.                        *)

\* Mutant: close that leaves the session in the map.
DeleteKeeping(t) ==
  LET s == sessions[id[t]] IN
  /\ At(t, "delete")
  /\ IF s = None
     THEN Return(t)
     ELSE held' = [held EXCEPT ![t] = s] /\ Goto(t, "closeW")
  /\ UNCHANGED <<sessions, conn, expired, locks, request, stale>>

\* The session leaves the map under h.mu, before its mutexes are taken.
Delete(t) ==
  LET s == sessions[id[t]] IN
  /\ At(t, "delete")
  /\ sessions' = [sessions EXCEPT ![id[t]] = None]
  /\ IF s = None
     THEN Return(t)
     ELSE held' = [held EXCEPT ![t] = s] /\ Goto(t, "closeW")
  /\ expired' = expired \ {s}
  /\ UNCHANGED <<conn, locks, request, stale>>

CloseLockWrite(t) ==
  /\ At(t, "closeW")
  /\ wmu[held[t]] = None
  /\ wmu' = [wmu EXCEPT ![held[t]] = t]
  /\ Goto(t, "closeR")
  /\ UNCHANGED <<sessions, conn, expired, rmu, request, held, stale>>

\* Mutant: close that does not wait for the reader.
CloseNoReadLock(t) ==
  /\ At(t, "closeR")
  /\ Goto(t, "closeC")
  /\ UNCHANGED <<sessions, conn, expired, locks, request, held, stale>>

CloseLockRead(t) ==
  /\ At(t, "closeR")
  /\ rmu[held[t]] = None
  /\ rmu' = [rmu EXCEPT ![held[t]] = t]
  /\ Goto(t, "closeC")
  /\ UNCHANGED <<sessions, conn, expired, wmu, request, held, stale>>

\* Mutant: writeMu is never released.
CloseKeepsLock(t) ==
  /\ At(t, "closeC")
  /\ conn' = [conn EXCEPT ![held[t]] = "closed"]
  /\ rmu' = [rmu EXCEPT ![held[t]] = None]
  /\ Return(t)
  /\ UNCHANGED <<sessions, expired, wmu, request, stale>>

CloseConn(t) ==
  /\ At(t, "closeC")
  /\ conn' = [conn EXCEPT ![held[t]] = "closed"]
  /\ rmu' = [rmu EXCEPT ![held[t]] = None]
  /\ wmu' = [wmu EXCEPT ![held[t]] = None]
  /\ Return(t)
  /\ UNCHANGED <<sessions, expired, request, stale>>

-----------------------------------------------------------------------------
(* cleanupLoop: the stale ids are collected under h.mu and closed, one by  *)
(* one and by id, after it is released.                                    *)

\* Time passes: a registered session has not been touched for long enough.
Expire(c) ==
  /\ Registered(c) /\ c \notin expired
  /\ expired' = expired \cup {c}
  /\ UNCHANGED <<sessions, conn, locks, pc, request, held, stale>>

Sweep ==
  /\ At(Janitor, "idle")
  /\ stale' = {i \in Ids : sessions[i] \in expired}
  /\ Goto(Janitor, "next")
  /\ UNCHANGED <<sessions, conn, expired, locks, request, held>>

SweepNext ==
  /\ At(Janitor, "next")
  /\ IF stale = {}
     THEN Goto(Janitor, "idle") /\ UNCHANGED <<id, stale>>
     ELSE \E i \in stale : /\ id' = [id EXCEPT ![Janitor] = i]
                           /\ stale' = stale \ {i}
                           /\ Goto(Janitor, "delete")
  /\ UNCHANGED <<sessions, conn, expired, locks, op, held>>

-----------------------------------------------------------------------------
Serve(w) == \/ Lookup(w) \/ Dial(w) \/ Insert(w) \/ Discard(w)
            \/ LockWrite(w) \/ Write(w) \/ LockRead(w) \/ Read(w) \/ Touch(w)

Close(t) == Delete(t) \/ CloseLockWrite(t) \/ CloseLockRead(t) \/ CloseConn(t)

Acquire(t) == \/ t \in Workers /\ (LockWrite(t) \/ LockRead(t))
              \/ CloseLockWrite(t) \/ CloseLockRead(t)

Next == \/ \E w \in Workers, o \in Ops, i \in Ids : Receive(w, o, i)
        \/ \E w \in Workers : Serve(w)
        \/ \E t \in Threads : Close(t)
        \/ \E c \in Conns : Expire(c)
        \/ Sweep
        \/ SweepNext

Spec == Init /\ [][Next]_vars

\* Goroutines are scheduled, dials, reads and writes end at their deadlines,
\* the ticker keeps ticking; sync.Mutex hands a contended lock to a waiter
\* that has waited too long, so a waiter that finds it free again and again
\* gets it.  Requests and the passing of time are not forced.
Fairness == /\ \A w \in Workers : WF_vars(Serve(w) \/ Close(w)) /\ SF_vars(Acquire(w))
            /\ WF_vars(Sweep \/ SweepNext \/ Close(Janitor)) /\ SF_vars(Acquire(Janitor))

FairSpec == Spec /\ Fairness

-----------------------------------------------------------------------------
Opening(t) == pc[t] \in {"insert", "discard"}
Closing(t) == pc[t] \in {"closeW", "closeR", "closeC"}
Owns(t, c) == (Opening(t) \/ Closing(t)) /\ held[t] = c

\* No connection leaks: every open connection is registered, or in the hands
\* of the open that dialled it, or in the hands of the h.close that removed
\* it.  The re-check under h.mu (tunnel.go:146-151) and the delete before the
\* close (230-233) are what this rests on.
NoLeak == \A c \in Conns :
  conn[c] = "open" => Registered(c) \/ \E t \in Threads : Owns(t, c)

\* A connection has one owner: a registered one is open, under one id, and
\* in nobody's hands; one in hand is in one goroutine's.  So net.Conn.Close
\* runs once per connection, and get never returns a session already closed.
OneOwner ==
  /\ \A i, j \in Ids : /\ sessions[i] # None => conn[sessions[i]] = "open"
                       /\ sessions[i] = sessions[j] /\ sessions[i] # None => i = j
  /\ \A t, u \in Threads : \A c \in Conns :
        Owns(t, c) => /\ conn[c] = "open"
                      /\ ~Registered(c)
                      /\ Owns(u, c) => t = u

\* A session's connection is closed only when no handler is inside Write or
\* Read on it: h.close waits for writeMu and readMu (tunnel.go:235-239).
CloseQuiesced == [][\A c \in Conns :
  conn[c] = "open" /\ conn'[c] = "closed" =>
    \A w \in Workers : held[w] = c => pc[w] \notin {"write", "read"}]_vars

\* Every request is answered: taking writeMu before readMu in h.close, and
\* never holding h.mu while waiting for either, cannot lock handlers out.
Answered == \A w \in Workers : pc[w] # "idle" ~> pc[w] = "idle"

\* An idle session is reclaimed: it is touched again or it leaves the map.
IdleReclaimed == \A c \in Conns :
  c \in expired /\ Registered(c) ~> c \notin expired \/ ~Registered(c)

\* Both: nobody waits for ever in the hub, and nothing idle stays in it.
HubLive == Answered /\ IdleReclaimed

\* The hub implements the registry: what a thread holds between dial and
\* insert is "dialled", what it holds between delete and Close "draining".
PhaseOf(c) == CASE conn[c] = "unused" -> "unused"
                [] conn[c] = "closed" -> "closed"
                [] OTHER -> IF Registered(c) THEN "live"
                            ELSE IF \E t \in Threads : Opening(t) /\ held[t] = c
                            THEN "dialled" ELSE "draining"

Registry == INSTANCE TunnelRegistry
              WITH live <- sessions, phase <- [c \in Conns |-> PhaseOf(c)]
Implements == Registry!FairSpec
=============================================================================
