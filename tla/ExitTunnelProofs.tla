-------------------------- MODULE ExitTunnelProofs --------------------------
(***************************************************************************)
(* Proofs about the hub of ExitTunnel for any sets of ids, connections and *)
(* handler goroutines: its state is well typed, no connection leaks, every *)
(* connection has one owner, none is closed under a reader or a writer,    *)
(* and every step is one of TunnelRegistry or leaves it alone.             *)
(***************************************************************************)
EXTENDS ExitTunnel, TLAPS

\* The strengthening: a goroutine that writes, reads or closes holds the
\* mutexes it took.
WriteLocked == \A t \in Threads :
  pc[t] \in {"write", "closeR", "closeC"} => wmu[held[t]] = t
ReadLocked == \A t \in Threads : pc[t] \in {"read", "closeC"} => rmu[held[t]] = t

\* A connection still in the hands of the open that dialled it is in nobody's
\* read or write, and no local variable holds a connection never dialled.
Using == {"wlock", "write", "rlock", "read"}
Unshared == \A t, u \in Threads :
  Opening(t) /\ pc[u] \in Using => held[t] # held[u]
Dialled == \A t \in Threads : pc[t] \in Holding => conn[held[t]] # "unused"

IInv == /\ TypeOK /\ WriteLocked /\ ReadLocked
        /\ OneOwner /\ NoLeak /\ Unshared /\ Dialled

\* Type correctness, with the local variables: every handler step keeps the
\* hub's variables in their types and never uses an unset session.
LEMMA TypeInit == Init => TypeOK
  BY HubAssumption DEF Init, TypeOK, HeldOK, Threads, Ops, PCs, Holding

LEMMA TypeStep == TypeOK /\ [Next]_vars => TypeOK'
<1> SUFFICES ASSUME TypeOK, [Next]_vars PROVE TypeOK'
  OBVIOUS
<1> USE HubAssumption DEF TypeOK, HeldOK, Threads, Ops, PCs, Holding, At, Goto, Return,
                          locks, request
<1>1. ASSUME NEW w \in Workers, NEW o \in Ops, NEW i \in Ids, Receive(w, o, i)
      PROVE TypeOK'
  BY <1>1 DEF Receive
<1>2. ASSUME NEW w \in Workers, Lookup(w) PROVE TypeOK'
  BY <1>2 DEF Lookup
<1>3. ASSUME NEW w \in Workers, Dial(w) PROVE TypeOK'
  BY <1>3 DEF Dial
<1>4. ASSUME NEW w \in Workers, Insert(w) PROVE TypeOK'
  BY <1>4 DEF Insert
<1>5. ASSUME NEW w \in Workers, Discard(w) PROVE TypeOK'
  BY <1>5 DEF Discard
<1>6. ASSUME NEW w \in Workers, LockWrite(w) \/ LockRead(w) PROVE TypeOK'
  BY <1>6 DEF LockWrite, LockRead
<1>7. ASSUME NEW w \in Workers, Write(w) \/ Read(w) PROVE TypeOK'
  BY <1>7 DEF Write, Read
<1>8. ASSUME NEW w \in Workers, Touch(w) PROVE TypeOK'
  BY <1>8 DEF Touch
<1>9. ASSUME NEW t \in Threads, Delete(t) PROVE TypeOK'
  BY <1>9 DEF Delete
<1>10. ASSUME NEW t \in Threads, CloseLockWrite(t) \/ CloseLockRead(t)
       PROVE TypeOK'
  BY <1>10 DEF CloseLockWrite, CloseLockRead
<1>11. ASSUME NEW t \in Threads, CloseConn(t) PROVE TypeOK'
  BY <1>11 DEF CloseConn
<1>12. ASSUME NEW c \in Conns, Expire(c) PROVE TypeOK'
  BY <1>12 DEF Expire
<1>13. CASE Sweep
  BY <1>13 DEF Sweep
<1>14. CASE SweepNext
  BY <1>14 DEF SweepNext
<1>15. CASE UNCHANGED vars
  BY <1>15 DEF vars
<1>16. QED
  BY <1>1, <1>2, <1>3, <1>4, <1>5, <1>6, <1>7, <1>8, <1>9, <1>10, <1>11, <1>12,
     <1>13, <1>14, <1>15 DEF Next, Serve, Close

-----------------------------------------------------------------------------
\* The mutexes: what a goroutine took it still holds while it writes, reads
\* or closes, because nobody else releases it.
LEMMA LockStep ==
  TypeOK /\ WriteLocked /\ ReadLocked /\ [Next]_vars => WriteLocked' /\ ReadLocked'
<1> SUFFICES ASSUME TypeOK, WriteLocked, ReadLocked, [Next]_vars
             PROVE  WriteLocked' /\ ReadLocked'
  OBVIOUS
<1> USE HubAssumption DEF TypeOK, HeldOK, WriteLocked, ReadLocked, Threads, Holding, At, Goto,
                          Return, locks, request
<1>1. ASSUME NEW w \in Workers, NEW o \in Ops, NEW i \in Ids, Receive(w, o, i) PROVE WriteLocked' /\ ReadLocked'
  BY <1>1 DEF Receive
<1>2. ASSUME NEW w \in Workers, Lookup(w) PROVE WriteLocked' /\ ReadLocked'
  BY <1>2 DEF Lookup
<1>3. ASSUME NEW w \in Workers, Dial(w) PROVE WriteLocked' /\ ReadLocked'
  BY <1>3 DEF Dial
<1>4. ASSUME NEW w \in Workers, Insert(w) PROVE WriteLocked' /\ ReadLocked'
  BY <1>4 DEF Insert
<1>5. ASSUME NEW w \in Workers, Discard(w) PROVE WriteLocked' /\ ReadLocked'
  BY <1>5 DEF Discard
<1>6. ASSUME NEW w \in Workers, LockWrite(w) \/ LockRead(w) PROVE WriteLocked' /\ ReadLocked'
  BY <1>6 DEF LockWrite, LockRead
<1>7. ASSUME NEW w \in Workers, Write(w) \/ Read(w) PROVE WriteLocked' /\ ReadLocked'
  BY <1>7 DEF Write, Read
<1>8. ASSUME NEW w \in Workers, Touch(w) PROVE WriteLocked' /\ ReadLocked'
  BY <1>8 DEF Touch
<1>9. ASSUME NEW t \in Threads, Delete(t) PROVE WriteLocked' /\ ReadLocked'
  BY <1>9 DEF Delete
<1>10. ASSUME NEW t \in Threads, CloseLockWrite(t) \/ CloseLockRead(t) PROVE WriteLocked' /\ ReadLocked'
  BY <1>10 DEF CloseLockWrite, CloseLockRead
<1>11. ASSUME NEW t \in Threads, CloseConn(t) PROVE WriteLocked' /\ ReadLocked'
  BY <1>11 DEF CloseConn
<1>12. ASSUME NEW c \in Conns, Expire(c) PROVE WriteLocked' /\ ReadLocked'
  BY <1>12 DEF Expire
<1>13. CASE Sweep
  BY <1>13 DEF Sweep
<1>14. CASE SweepNext
  BY <1>14 DEF SweepNext
<1>15. CASE UNCHANGED vars
  BY <1>15 DEF vars
<1>16. QED
  BY <1>1, <1>2, <1>3, <1>4, <1>5, <1>6, <1>7, <1>8, <1>9, <1>10, <1>11, <1>12,
     <1>13, <1>14, <1>15 DEF Next, Serve, Close

-----------------------------------------------------------------------------
\* Ownership: a connection passes from the dialling goroutine to the map and
\* from the map to the closing goroutine, one owner at a time.
LEMMA OwnerStep == TypeOK /\ OneOwner /\ [Next]_vars => OneOwner'
<1> SUFFICES ASSUME TypeOK, OneOwner, [Next]_vars PROVE OneOwner'
  OBVIOUS
<1> USE HubAssumption DEF TypeOK, OneOwner, Owns, Opening, Closing, Registered,
                          Threads, Holding, At, Goto, Return, locks, request
<1>1. ASSUME NEW w \in Workers, NEW o \in Ops, NEW i \in Ids, Receive(w, o, i) PROVE OneOwner'
  BY <1>1 DEF Receive
<1>2. ASSUME NEW w \in Workers, Lookup(w) PROVE OneOwner'
  BY <1>2 DEF Lookup
<1>3. ASSUME NEW w \in Workers, Dial(w) PROVE OneOwner'
  BY <1>3 DEF Dial
<1>4. ASSUME NEW w \in Workers, Insert(w) PROVE OneOwner'
  BY <1>4 DEF Insert
<1>5. ASSUME NEW w \in Workers, Discard(w) PROVE OneOwner'
  BY <1>5 DEF Discard
<1>6. ASSUME NEW w \in Workers, LockWrite(w) \/ LockRead(w) PROVE OneOwner'
  BY <1>6 DEF LockWrite, LockRead
<1>7. ASSUME NEW w \in Workers, Write(w) \/ Read(w) PROVE OneOwner'
  BY <1>7 DEF Write, Read
<1>8. ASSUME NEW w \in Workers, Touch(w) PROVE OneOwner'
  BY <1>8 DEF Touch
<1>9. ASSUME NEW t \in Threads, Delete(t) PROVE OneOwner'
  BY <1>9 DEF Delete
<1>10. ASSUME NEW t \in Threads, CloseLockWrite(t) \/ CloseLockRead(t) PROVE OneOwner'
  BY <1>10 DEF CloseLockWrite, CloseLockRead
<1>11. ASSUME NEW t \in Threads, CloseConn(t) PROVE OneOwner'
  BY <1>11 DEF CloseConn
<1>12. ASSUME NEW c \in Conns, Expire(c) PROVE OneOwner'
  BY <1>12 DEF Expire
<1>13. CASE Sweep
  BY <1>13 DEF Sweep
<1>14. CASE SweepNext
  BY <1>14 DEF SweepNext
<1>15. CASE UNCHANGED vars
  BY <1>15 DEF vars
<1>16. QED
  BY <1>1, <1>2, <1>3, <1>4, <1>5, <1>6, <1>7, <1>8, <1>9, <1>10, <1>11, <1>12,
     <1>13, <1>14, <1>15 DEF Next, Serve, Close

\* No leak: whoever takes an open connection out of one hand puts it in
\* another or closes it.
LEMMA LeakStep == TypeOK /\ OneOwner /\ NoLeak /\ [Next]_vars => NoLeak'
<1> SUFFICES ASSUME TypeOK, OneOwner, NoLeak, [Next]_vars PROVE NoLeak'
  OBVIOUS
<1> USE HubAssumption DEF TypeOK, HeldOK, NoLeak, OneOwner, Owns, Opening, Closing, Registered,
                          Threads, Holding, At, Goto, Return, locks, request
<1>1. ASSUME NEW w \in Workers, NEW o \in Ops, NEW i \in Ids, Receive(w, o, i) PROVE NoLeak'
  BY <1>1 DEF Receive
<1>2. ASSUME NEW w \in Workers, Lookup(w) PROVE NoLeak'
  BY <1>2 DEF Lookup
<1>3. ASSUME NEW w \in Workers, Dial(w) PROVE NoLeak'
  BY <1>3 DEF Dial
<1>4. ASSUME NEW w \in Workers, Insert(w) PROVE NoLeak'
  BY <1>4 DEF Insert
<1>5. ASSUME NEW w \in Workers, Discard(w) PROVE NoLeak'
  BY <1>5 DEF Discard
<1>6. ASSUME NEW w \in Workers, LockWrite(w) \/ LockRead(w) PROVE NoLeak'
  BY <1>6 DEF LockWrite, LockRead
<1>7. ASSUME NEW w \in Workers, Write(w) \/ Read(w) PROVE NoLeak'
  BY <1>7 DEF Write, Read
<1>8. ASSUME NEW w \in Workers, Touch(w) PROVE NoLeak'
  BY <1>8 DEF Touch
<1>9. ASSUME NEW t \in Threads, Delete(t) PROVE NoLeak'
  BY <1>9 DEF Delete
<1>10. ASSUME NEW t \in Threads, CloseLockWrite(t) \/ CloseLockRead(t) PROVE NoLeak'
  BY <1>10 DEF CloseLockWrite, CloseLockRead
<1>11. ASSUME NEW t \in Threads, CloseConn(t) PROVE NoLeak'
  BY <1>11 DEF CloseConn
<1>12. ASSUME NEW c \in Conns, Expire(c) PROVE NoLeak'
  BY <1>12 DEF Expire
<1>13. CASE Sweep
  BY <1>13 DEF Sweep
<1>14. CASE SweepNext
  BY <1>14 DEF SweepNext
<1>15. CASE UNCHANGED vars
  BY <1>15 DEF vars
<1>16. QED
  BY <1>1, <1>2, <1>3, <1>4, <1>5, <1>6, <1>7, <1>8, <1>9, <1>10, <1>11, <1>12,
     <1>13, <1>14, <1>15 DEF Next, Serve, Close

-----------------------------------------------------------------------------
\* A connection being opened is known to its dialler alone.
LEMMA UnsharedStep ==
  TypeOK /\ OneOwner /\ Unshared /\ Dialled /\ [Next]_vars => Unshared' /\ Dialled'
<1> SUFFICES ASSUME TypeOK, OneOwner, Unshared, Dialled, [Next]_vars
             PROVE  Unshared' /\ Dialled'
  OBVIOUS
<1> USE HubAssumption DEF TypeOK, HeldOK, OneOwner, Unshared, Dialled, Using, Owns, Opening,
                          Closing, Registered, Threads, Holding, At, Goto, Return, locks, request
<1>1. ASSUME NEW w \in Workers, NEW o \in Ops, NEW i \in Ids, Receive(w, o, i) PROVE Unshared' /\ Dialled'
  BY <1>1 DEF Receive
<1>2. ASSUME NEW w \in Workers, Lookup(w) PROVE Unshared' /\ Dialled'
  BY <1>2 DEF Lookup
<1>3. ASSUME NEW w \in Workers, Dial(w) PROVE Unshared' /\ Dialled'
  <2>1. CASE Return(w) /\ UNCHANGED conn
    BY <1>3, <2>1 DEF Dial
  <2>2. ASSUME NEW c \in Conns, conn[c] = "unused", conn' = [conn EXCEPT ![c] = "open"],
               held' = [held EXCEPT ![w] = c], Goto(w, "insert")
        PROVE  Unshared' /\ Dialled'
    \* Nobody's local variable can hold c: it had never been dialled.
    <3>1. \A t \in Threads : pc[t] \in Holding => held[t] # c
      BY <2>2
    <3>2. Unshared'
      BY <2>2, <3>1
    <3>3. Dialled'
      BY <2>2, <3>1
    <3>4. QED
      BY <3>2, <3>3
  <2>3. QED
    BY <1>3, <2>1, <2>2 DEF Dial
<1>4. ASSUME NEW w \in Workers, Insert(w) PROVE Unshared' /\ Dialled'
  BY <1>4 DEF Insert
<1>5. ASSUME NEW w \in Workers, Discard(w) PROVE Unshared' /\ Dialled'
  BY <1>5 DEF Discard
<1>6. ASSUME NEW w \in Workers, LockWrite(w) \/ LockRead(w) PROVE Unshared' /\ Dialled'
  BY <1>6 DEF LockWrite, LockRead
<1>7. ASSUME NEW w \in Workers, Write(w) \/ Read(w) PROVE Unshared' /\ Dialled'
  BY <1>7 DEF Write, Read
<1>8. ASSUME NEW w \in Workers, Touch(w) PROVE Unshared' /\ Dialled'
  BY <1>8 DEF Touch
<1>9. ASSUME NEW t \in Threads, Delete(t) PROVE Unshared' /\ Dialled'
  BY <1>9 DEF Delete
<1>10. ASSUME NEW t \in Threads, CloseLockWrite(t) \/ CloseLockRead(t) PROVE Unshared' /\ Dialled'
  BY <1>10 DEF CloseLockWrite, CloseLockRead
<1>11. ASSUME NEW t \in Threads, CloseConn(t) PROVE Unshared' /\ Dialled'
  BY <1>11 DEF CloseConn
<1>12. ASSUME NEW c \in Conns, Expire(c) PROVE Unshared' /\ Dialled'
  BY <1>12 DEF Expire
<1>13. CASE Sweep
  BY <1>13 DEF Sweep
<1>14. CASE SweepNext
  BY <1>14 DEF SweepNext
<1>15. CASE UNCHANGED vars
  BY <1>15 DEF vars
<1>16. QED
  BY <1>1, <1>2, <1>3, <1>4, <1>5, <1>6, <1>7, <1>8, <1>9, <1>10, <1>11, <1>12,
     <1>13, <1>14, <1>15 DEF Next, Serve, Close

LEMMA InitInv == Init => IInv
  BY TypeInit, HubAssumption
     DEF Init, IInv, HeldOK, WriteLocked, ReadLocked, OneOwner, NoLeak, Unshared, Dialled, Owns,
         Opening, Closing, Registered, Using, Holding, Threads

LEMMA StepInv == IInv /\ [Next]_vars => IInv'
  BY TypeStep, LockStep, OwnerStep, LeakStep, UnsharedStep DEF IInv

\* The inductive invariant holds in every reachable state.
THEOREM Invariance == Spec => []IInv
  BY InitInv, StepInv, PTL DEF Spec

\* The hub's variables stay in their types.
THEOREM TypeCorrect == Spec => []TypeOK
  BY Invariance, PTL DEF IInv

\* No connection is ever forgotten while it is open (tunnel.go:146-152, 229-241).
THEOREM NoConnectionLeaks == Spec => []NoLeak
  BY Invariance, PTL DEF IInv

\* Every connection has one owner, so it is closed once and no registered
\* session is a closed one.
THEOREM OwnersExclusive == Spec => []OneOwner
  BY Invariance, PTL DEF IInv

\* Close never runs under a reader or a writer of the same session.
LEMMA QuiescedStep ==
  IInv /\ [Next]_vars =>
    \A c \in Conns : conn[c] = "open" /\ conn'[c] = "closed" =>
      \A w \in Workers : held[w] = c => pc[w] \notin {"write", "read"}
<1> SUFFICES ASSUME IInv, [Next]_vars, NEW c \in Conns, conn[c] = "open", conn'[c] = "closed",
                    NEW w \in Workers, held[w] = c
             PROVE  pc[w] \notin {"write", "read"}
  OBVIOUS
<1> USE HubAssumption DEF IInv, TypeOK, Threads, At
<1>1. \/ \E v \in Workers : Discard(v)
      \/ \E t \in Threads : CloseConn(t)
  BY DEF Next, Serve, Close, Receive, Lookup, Dial, Insert, LockWrite, LockRead, Write, Read,
         Touch, Delete, CloseLockWrite, CloseLockRead, Expire, Sweep, SweepNext, vars
<1>2. ASSUME NEW v \in Workers, Discard(v) PROVE pc[w] \notin {"write", "read"}
  BY <1>2 DEF Discard, Unshared, Opening, Using, HeldOK, Holding
<1>3. ASSUME NEW t \in Threads, CloseConn(t) PROVE pc[w] \notin {"write", "read"}
  BY <1>3 DEF CloseConn, WriteLocked, ReadLocked, HeldOK, Holding
<1>4. QED
  BY <1>1, <1>2, <1>3

THEOREM CloseWaits == Spec => CloseQuiesced
  BY Invariance, QuiescedStep, PTL DEF Spec, CloseQuiesced

-----------------------------------------------------------------------------
(* The hub implements the registry.  A step that moves no connection from  *)
(* one hand to another leaves every phase as it is.                        *)

Phases == [c \in Conns |-> PhaseOf(c)]

\* Any step that keeps the map, the connections and who is opening what is a
\* stutter of the registry.
LEMMA Stutter ==
  ASSUME UNCHANGED <<sessions, conn>>,
         \A c \in Conns : (\E t \in Threads : Opening(t) /\ held[t] = c)'
                         <=> \E t \in Threads : Opening(t) /\ held[t] = c
  PROVE  UNCHANGED <<sessions, Phases>>
  BY DEF Phases, PhaseOf, Registered

LEMMA RefineInit == Init => Registry!Init
  BY DEF Init, Registry!Init, PhaseOf

LEMMA RefineStep == IInv /\ [Next]_vars => [Registry!Next]_<<sessions, Phases>>
<1> SUFFICES ASSUME IInv, [Next]_vars PROVE [Registry!Next]_<<sessions, Phases>>
  OBVIOUS
<1> USE HubAssumption DEF IInv, TypeOK, Threads, At, Goto, Return, locks, request
<1>1. ASSUME NEW w \in Workers, NEW o \in Ops, NEW i \in Ids, Receive(w, o, i)
      PROVE  UNCHANGED <<sessions, Phases>>
  BY <1>1, Stutter DEF Receive, Opening
<1>2. ASSUME NEW w \in Workers,
             Lookup(w) \/ LockWrite(w) \/ LockRead(w) \/ Write(w) \/ Read(w) \/ Touch(w)
      PROVE  UNCHANGED <<sessions, Phases>>
  BY <1>2, Stutter DEF Lookup, LockWrite, LockRead, Write, Read, Touch, Opening
<1>3. ASSUME NEW w \in Workers, Dial(w) PROVE [Registry!Next]_<<sessions, Phases>>
  <2>1. CASE UNCHANGED conn
    BY <1>3, <2>1, Stutter DEF Dial, Opening
  <2>2. ASSUME NEW c \in Conns, conn[c] = "unused", conn' = [conn EXCEPT ![c] = "open"],
               held' = [held EXCEPT ![w] = c], pc' = [pc EXCEPT ![w] = "insert"],
               UNCHANGED sessions
        PROVE  Registry!Dial(c)
    <3>1. PhaseOf(c) = "unused" /\ PhaseOf(c)' = "dialled"
      BY <2>2 DEF PhaseOf, Registered, OneOwner, Opening
    <3>2. \A d \in Conns \ {c} : PhaseOf(d)' = PhaseOf(d)
      BY <1>3, <2>2 DEF Dial, PhaseOf, Registered, Opening
    <3>3. QED
      BY <2>2, <3>1, <3>2 DEF Registry!Dial, Registry!Become
  <2>3. QED
    BY <1>3, <2>1, <2>2 DEF Dial, Registry!Next
<1>4. ASSUME NEW w \in Workers, Insert(w) PROVE [Registry!Next]_<<sessions, Phases>>
  <2>1. CASE sessions[id[w]] # None
    BY <1>4, <2>1, Stutter DEF Insert, Opening
  <2>2. CASE sessions[id[w]] = None
    <3>1. PICK c \in Conns : c = held[w] /\ Owns(w, c) /\ conn[c] = "open" /\ ~Registered(c)
      BY <1>4 DEF Insert, HeldOK, Holding, Owns, Opening, OneOwner
    <3>2. PhaseOf(c) = "dialled" /\ PhaseOf(c)' = "live"
      BY <1>4, <2>2, <3>1 DEF Insert, PhaseOf, Registered, Opening
    <3>3. \A d \in Conns \ {c} : PhaseOf(d)' = PhaseOf(d)
      BY <1>4, <2>2, <3>1 DEF Insert, PhaseOf, Registered, Opening
    <3>4. Registry!Register(id[w], c)
      BY <1>4, <2>2, <3>1, <3>2, <3>3 DEF Insert, Registry!Register, Registry!Become
    <3>5. QED
      BY <3>1, <3>4 DEF Registry!Next
  <2>3. QED
    BY <2>1, <2>2
<1>5. ASSUME NEW w \in Workers, Discard(w) PROVE [Registry!Next]_<<sessions, Phases>>
  <2>1. PICK c \in Conns : c = held[w] /\ Owns(w, c) /\ conn[c] = "open" /\ ~Registered(c)
    BY <1>5 DEF Discard, HeldOK, Holding, Owns, Opening, OneOwner
  <2>2. PhaseOf(c) = "dialled" /\ PhaseOf(c)' = "closed"
    BY <1>5, <2>1 DEF Discard, PhaseOf, Registered, Opening
  <2>3. \A d \in Conns \ {c} : PhaseOf(d)' = PhaseOf(d)
    BY <1>5, <2>1 DEF Discard, PhaseOf, Registered, Opening
  <2>4. Registry!Discard(c)
    BY <1>5, <2>1, <2>2, <2>3 DEF Discard, Registry!Discard, Registry!Become
  <2>5. QED
    BY <2>1, <2>4 DEF Registry!Next
<1>6. ASSUME NEW t \in Threads, Delete(t) PROVE [Registry!Next]_<<sessions, Phases>>
  <2>1. CASE sessions[id[t]] = None
    <3>1. UNCHANGED <<sessions, conn>>
      BY <1>6, <2>1 DEF Delete
    <3>2. QED
      BY <1>6, <2>1, <3>1, Stutter DEF Delete, Opening
  <2>2. CASE sessions[id[t]] # None
    <3>1. PICK c \in Conns : /\ c = sessions[id[t]] /\ conn[c] = "open"
                            /\ \A u \in Threads : ~(Opening(u) /\ held[u] = c)
      BY <1>6, <2>2 DEF Owns, OneOwner, Registered
    <3>2. PhaseOf(c) = "live" /\ PhaseOf(c)' = "draining"
      BY <1>6, <2>2, <3>1 DEF Delete, PhaseOf, Registered, Opening, OneOwner
    <3>3. \A d \in Conns \ {c} : PhaseOf(d)' = PhaseOf(d)
      BY <1>6, <2>2, <3>1 DEF Delete, PhaseOf, Registered, Opening
    <3>4. Registry!Unregister(id[t])
      BY <1>6, <2>2, <3>1, <3>2, <3>3 DEF Delete, Registry!Unregister, Registry!Become
    <3>5. QED
      BY <3>4 DEF Registry!Next
  <2>3. QED
    BY <2>1, <2>2
<1>7. ASSUME NEW t \in Threads, CloseLockWrite(t) \/ CloseLockRead(t)
      PROVE  UNCHANGED <<sessions, Phases>>
  BY <1>7, Stutter DEF CloseLockWrite, CloseLockRead, Opening
<1>8. ASSUME NEW t \in Threads, CloseConn(t) PROVE [Registry!Next]_<<sessions, Phases>>
  <2>1. PICK c \in Conns : /\ c = held[t] /\ Owns(t, c) /\ conn[c] = "open" /\ ~Registered(c)
                          /\ \A u \in Threads : ~(Opening(u) /\ held[u] = c)
    BY <1>8 DEF CloseConn, HeldOK, Holding, Owns, Opening, Closing, OneOwner
  <2>2. PhaseOf(c) = "draining" /\ PhaseOf(c)' = "closed"
    BY <1>8, <2>1 DEF CloseConn, PhaseOf, Registered, Opening
  <2>3. \A d \in Conns \ {c} : PhaseOf(d)' = PhaseOf(d)
    BY <1>8, <2>1 DEF CloseConn, PhaseOf, Registered, Opening
  <2>4. Registry!Drain(c)
    BY <1>8, <2>1, <2>2, <2>3 DEF CloseConn, Registry!Drain, Registry!Become
  <2>5. QED
    BY <2>1, <2>4 DEF Registry!Next
<1>9. ASSUME NEW c \in Conns, Expire(c) PROVE UNCHANGED <<sessions, Phases>>
  BY <1>9, Stutter DEF Expire, Opening
<1>10. CASE Sweep \/ SweepNext
  BY <1>10, Stutter DEF Sweep, SweepNext, Opening
<1>11. CASE UNCHANGED vars
  BY <1>11, Stutter DEF vars, Opening
<1>12. QED
  BY <1>1, <1>2, <1>3, <1>4, <1>5, <1>6, <1>7, <1>8, <1>9, <1>10, <1>11
     DEF Next, Serve, Close

\* The handlers and the cleanup loop together behave as one registry with
\* atomic operations: an id in use is never taken over, a session leaves the
\* map before its connection is closed.
THEOREM HubImplementsRegistry == Spec => Registry!Spec
<1>1. [Registry!Next]_<<sessions, Phases>> => [Registry!Next]_(Registry!vars)
  BY DEF Phases, Registry!vars
<1>2. IInv /\ [Next]_vars => [Registry!Next]_(Registry!vars)
  BY <1>1, RefineStep
<1>3. QED
  BY Invariance, RefineInit, <1>2, PTL DEF Spec, Registry!Spec
=============================================================================
