------------------------------ MODULE TunEngine ------------------------------
(***************************************************************************)
(* The TUN forwarder (relay/tun/engine.go, relay/tun/tcp.go): one readLoop *)
(* goroutine takes IPv4 packets from the TUN device and drives a userspace *)
(* TCP endpoint per flow; each flow has a goroutine that dials its backend *)
(* and then pumps it; Stop runs in a goroutine of the app.  The other side *)
(* of the device is the phone's kernel, which is modelled as the client.   *)
(*                                                                         *)
(* Every critical section of e.mu or of a flow's mu is one action, except  *)
(* that a backend Write is made with the flow's mu held.  The device keeps *)
(* packets in order.  Sequence numbers count segments from the SYN of one  *)
(* incarnation of the client's socket; bytes to the client are left out.   *)
(***************************************************************************)
EXTENDS Integers, Sequences, FiniteSets

CONSTANTS Keys,       \* flow keys: the client's sockets, by address and port
          Flows,      \* tcpFlow objects; each SYN that makes one takes a new one
          Tunnelled,  \* keys whose target NeedsTunnel; others are dialled plainly
          NoFlow,     \* nil
          MaxPending, \* maxPendingBytes, in segments
          MaxInc,     \* bound: connections a client makes on one key
          NUp,        \* bound: segments a client sends on one connection
          MaxQueue    \* bound: packets waiting in the device

ASSUME EngineAssumption ==
  /\ Tunnelled \subseteq Keys
  /\ NoFlow \notin Flows
  /\ {MaxPending, MaxInc, NUp, MaxQueue} \subseteq Nat

VARIABLES table,   \* e.flows
          flow,    \* the tcpFlow objects
          pc,      \* the goroutine of each flow: connect, then pumpBackend
          bridge,  \* RunTunnelBridge of each flow, on the other end of its pipe
          rl,      \* readLoop: where it is, its packet and its flow
          stop,    \* where Engine.Stop is
          doomed,  \* its local list of flows still to be closed
          cl,      \* the client's socket per key
          q        \* packets written by clients and not yet read

engineVars == <<table, flow, pc, bridge, rl, stop, doomed, cl, q>>
engine == <<table, flow, pc, bridge, rl, stop, doomed>>

Kinds == {"syn", "data", "fin", "rst"}
Segments == [inc : 1 .. MaxInc, n : 1 .. NUp]
Packets == [kind : Kinds, key : Keys, inc : 1 .. MaxInc, n : 0 .. NUp + 1]

\* inc: the SYN that made the flow.  at, n: clientSeq, the next segment
\* expected of an incarnation.  wrote: what the backend was given.  again, a
\* history: a segment was kept that had been kept before.
FlowState == [key : Keys, inc : 1 .. MaxInc, at : 1 .. MaxInc,
              n : 1 .. NUp + MaxPending + 2, pending : Seq(Segments),
              again : BOOLEAN, synAck : BOOLEAN, closed : BOOLEAN,
              backend : {"none", "open", "closed"}, wrote : Seq(Segments)]

\* peer: the flow whose SYN-ACK the socket has taken.
Sockets == [st : {"closed", "syn", "est", "fin"}, inc : 0 .. MaxInc,
            peer : Flows \cup {NoFlow}, sent : 0 .. NUp, acked : 0 .. NUp]

EngineTypeOK ==
  /\ table \in [Keys -> Flows \cup {NoFlow}]
  /\ DOMAIN flow = {f \in Flows : pc[f] # "none"}
  /\ \A f \in DOMAIN flow : flow[f] \in FlowState
  /\ pc \in [Flows -> {"none", "dial", "shutdown", "complete", "flush", "pump", "read",
                       "fin", "remove", "end"}]
  /\ bridge \in [Flows -> {"none", "running", "ended"}]
  /\ rl.pc \in {"top", "read", "insert", "find", "seg", "write", "rst", "unlink", "exited"}
  /\ rl.flow \in Flows \cup {NoFlow}
  /\ stop \in {"no", "cancelled", "closing", "wait", "returned"}
  /\ doomed \subseteq Flows
  /\ cl \in [Keys -> Sockets]
  /\ \A i \in DOMAIN q : q[i] \in Packets
  /\ rl.pc \in {"seg", "write", "rst", "unlink"} => rl.flow # NoFlow

EngineInit ==
  /\ table = [k \in Keys |-> NoFlow]
  /\ flow = <<>> /\ pc = [f \in Flows |-> "none"] /\ bridge = [f \in Flows |-> "none"]
  /\ rl = [pc |-> "top", pkt |-> NoFlow, flow |-> NoFlow]
  /\ stop = "no" /\ doomed = {}
  /\ cl = [k \in Keys |-> [st |-> "closed", inc |-> 0, peer |-> NoFlow, sent |-> 0, acked |-> 0]]
  /\ q = <<>>

Cancelled == stop # "no"
TunOpen == stop \in {"no", "cancelled", "closing"}

\* f.mu is held across a backend Write only.
Held(f) == (rl.pc = "write" /\ rl.flow = f) \/ (f \in DOMAIN flow /\ pc[f] = "flush")

-----------------------------------------------------------------------------
(* The client: a kernel socket.  It reacts to a packet of the engine at    *)
(* once; what it sends waits in the device.                                *)

Packet(kind, k, n) == [kind |-> kind, key |-> k, inc |-> cl[k].inc, n |-> n]
Push(p) == TunOpen /\ Len(q) < MaxQueue /\ q' = Append(q, p)

Connect(k) ==
  /\ cl[k].st = "closed" /\ cl[k].inc < MaxInc
  /\ cl' = [cl EXCEPT ![k] = [st |-> "syn", inc |-> @.inc + 1, peer |-> NoFlow,
                          sent |-> 0, acked |-> 0]]
  /\ TunOpen /\ Len(q) < MaxQueue
  /\ q' = Append(q, [Packet("syn", k, 0) EXCEPT !.inc = @ + 1])
  /\ UNCHANGED engine

SendData(k) ==
  /\ cl[k].st = "est" /\ cl[k].sent < NUp
  /\ cl' = [cl EXCEPT ![k].sent = @ + 1]
  /\ Push(Packet("data", k, cl[k].sent + 1))
  /\ UNCHANGED engine

\* An unanswered SYN, segment or FIN is sent again.
Resend(k) ==
  /\ \/ cl[k].st = "syn" /\ Push(Packet("syn", k, 0))
     \/ /\ cl[k].st \in {"est", "fin"} /\ cl[k].acked < cl[k].sent
        /\ Push(Packet("data", k, cl[k].acked + 1))
     \/ /\ cl[k].st = "fin" /\ cl[k].acked = cl[k].sent
        /\ Push(Packet("fin", k, cl[k].sent + 1))
  /\ UNCHANGED <<engine, cl>>

CloseSocket(k) ==
  /\ cl[k].st = "est"
  /\ cl' = [cl EXCEPT ![k].st = "fin"]
  /\ Push(Packet("fin", k, cl[k].sent + 1))
  /\ UNCHANGED engine

Abort(k) ==
  /\ cl[k].st \in {"est", "fin"}
  /\ cl' = [cl EXCEPT ![k].st = "closed"]
  /\ Push(Packet("rst", k, 0))
  /\ UNCHANGED engine

\* A socket closed while it connects, or tired of waiting, says nothing.
GiveUp(k) ==
  /\ cl[k].st \in {"syn", "fin"}
  /\ cl' = [cl EXCEPT ![k].st = "closed"]
  /\ UNCHANGED <<engine, q>>

Silent == UNCHANGED <<cl, q>>

\* A segment for no connection, or that acknowledges an earlier one while the
\* socket connects, is answered with a reset; the ACK an established socket
\* answers a strange one with changes nothing.  The sequence numbers of a flow
\* other than the peer, random from their start, are outside its window.
Refuse(k) == q' = Append(q, Packet("rst", k, 0)) /\ UNCHANGED cl
Strange(k, inc) == cl[k].st = "closed" \/ (cl[k].st = "syn" /\ cl[k].inc # inc)
Heard(f, inc) ==
  LET s == cl[flow[f].key] IN s.st \in {"est", "fin"} /\ s.peer = f /\ s.inc = inc

\* sendTCP(SYN|ACK) of flow f, that acknowledges the SYN of inc
SynAck(f, inc) ==
  LET k == flow[f].key IN
  IF ~TunOpen \/ cl[k].st \in {"est", "fin"} THEN Silent
  ELSE IF Strange(k, inc) THEN Refuse(k)
  ELSE cl' = [cl EXCEPT ![k].st = "est", ![k].peer = f] /\ UNCHANGED q

\* sendTCP(ACK): segments up to n have been taken.
Ack(f, inc, n) ==
  LET k == flow[f].key IN
  IF TunOpen /\ Strange(k, inc) THEN Refuse(k)
  ELSE /\ cl' = IF TunOpen /\ Heard(f, inc) /\ cl[k].acked < n /\ n <= cl[k].sent
                THEN [cl EXCEPT ![k].acked = n] ELSE cl
       /\ UNCHANGED q

\* sendTCP(FIN|ACK)
Fin(f, inc) ==
  LET k == flow[f].key IN
  IF TunOpen /\ Strange(k, inc) THEN Refuse(k)
  ELSE /\ cl' = IF TunOpen /\ Heard(f, inc) /\ cl[k].st = "fin"
                THEN [cl EXCEPT ![k].st = "closed"] ELSE cl
       /\ UNCHANGED q

\* sendTCP(RST|ACK)
Rst(f, inc) ==
  LET k == flow[f].key IN
  /\ cl' = IF TunOpen /\ (Heard(f, inc) \/ (cl[k].st = "syn" /\ cl[k].inc = inc))
           THEN [cl EXCEPT ![k].st = "closed"] ELSE cl
  /\ UNCHANGED q

-----------------------------------------------------------------------------
(* Flows                                                                   *)

\* Mutant: closeLocked that leaves the backend open.
ClosedKeepingBackend(fl) == [fl EXCEPT !.closed = TRUE]

\* closeLocked.  The bridge learns of it by its context and by its pipe.
Closed(fl) == [fl EXCEPT !.closed = TRUE,
                         !.backend = IF @ = "open" THEN "closed" ELSE @]

Close(f) == flow' = [flow EXCEPT ![f] = IF @.closed THEN @ ELSE Closed(@)]

\* removeFlow: by key, whatever flow is registered there.
Unlink(k) == table' = [table EXCEPT ![k] = NoFlow]

NewFlow(p) == [key |-> p.key, inc |-> p.inc, at |-> p.inc, n |-> 1, pending |-> <<>>,
               again |-> FALSE, synAck |-> FALSE, closed |-> FALSE, backend |-> "none", wrote |-> <<>>]

-----------------------------------------------------------------------------
(* readLoop                                                                *)

Arrived == [inc |-> rl.pkt.inc, n |-> rl.pkt.n]
Step(label, f) == rl' = [rl EXCEPT !.pc = label, !.flow = f]
Again == rl' = [pc |-> "top", pkt |-> NoFlow, flow |-> NoFlow]

CheckDone ==
  /\ rl.pc = "top"
  /\ Step(IF Cancelled THEN "exited" ELSE "read", NoFlow)
  /\ UNCHANGED <<table, flow, pc, bridge, stop, doomed, cl, q>>

\* A SYN is dropped once the engine is cancelled; that is looked at before
\* e.mu is taken.
ReadPacket ==
  /\ rl.pc = "read" /\ TunOpen /\ q # <<>>
  /\ q' = Tail(q)
  /\ LET p == Head(q) IN
       IF p.kind = "syn" /\ Cancelled
       THEN Again
       ELSE rl' = [pc |-> IF p.kind = "syn" THEN "insert" ELSE "find", pkt |-> p, flow |-> NoFlow]
  /\ UNCHANGED <<table, flow, pc, bridge, stop, doomed, cl>>

ReadError ==
  /\ rl.pc = "read" /\ ~TunOpen
  /\ Step("exited", NoFlow)
  /\ UNCHANGED <<table, flow, pc, bridge, stop, doomed, cl, q>>

Insert ==
  LET k == rl.pkt.key IN
  /\ rl.pc = "insert"
  /\ IF table[k] # NoFlow
     THEN Step("seg", table[k]) /\ UNCHANGED <<table, flow, pc>>
     ELSE \E f \in Flows :
            /\ pc[f] = "none"
            /\ table' = [table EXCEPT ![k] = f]
            /\ flow' = [g \in DOMAIN flow \cup {f} |-> IF g = f THEN NewFlow(rl.pkt) ELSE flow[g]]
            /\ pc' = [pc EXCEPT ![f] = "dial"]
            /\ Again
  /\ UNCHANGED <<bridge, stop, doomed, cl, q>>

\* Mutant: the lookup is not checked.
FindUnchecked ==
  LET f == table[rl.pkt.key] IN
  /\ rl.pc = "find"
  /\ Step(IF rl.pkt.kind = "rst" THEN "rst" ELSE "seg", f)
  /\ UNCHANGED <<table, flow, pc, bridge, stop, doomed, cl, q>>

\* A packet of no flow is dropped.
Find ==
  LET f == table[rl.pkt.key] IN
  /\ rl.pc = "find"
  /\ IF f = NoFlow THEN Again ELSE Step(IF rl.pkt.kind = "rst" THEN "rst" ELSE "seg", f)
  /\ UNCHANGED <<table, flow, pc, bridge, stop, doomed, cl, q>>

\* handleSegment.  A SYN that finds a flow restarts its numbering.
SegSyn(f) ==
  /\ flow' = [flow EXCEPT ![f].at = rl.pkt.inc, ![f].n = 1]
  /\ IF flow[f].synAck THEN SynAck(f, rl.pkt.inc) ELSE Silent
  /\ Again
  /\ UNCHANGED table

\* Mutant: any segment is in sequence.
InSequenceAlways(f) == TRUE

InSequence(f) == rl.pkt.inc = flow[f].at /\ rl.pkt.n = flow[f].n

Kept(f) == \E i \in DOMAIN flow[f].pending : flow[f].pending[i] = Arrived

\* Kept, not acknowledged, until there is a backend.
Keep(f) ==
  IF Len(flow[f].pending) < MaxPending
  THEN /\ flow' = [flow EXCEPT ![f].pending = Append(@, Arrived),
                               ![f].again = @ \/ Kept(f)]
       /\ UNCHANGED table
  ELSE Close(f) /\ Unlink(rl.pkt.key)

\* In sequence: it is written, with the mutex held.  Old: acknowledged again.
SegData(f) ==
  IF ~InSequence(f)
  THEN /\ IF rl.pkt.inc = flow[f].at /\ rl.pkt.n < flow[f].n
          THEN Ack(f, flow[f].at, flow[f].n - 1) ELSE Silent
       /\ Again
       /\ UNCHANGED <<table, flow>>
  ELSE IF flow[f].backend = "none"
  THEN Keep(f) /\ Again /\ Silent
  ELSE Step("write", f) /\ Silent /\ UNCHANGED <<table, flow>>

\* A FIN ends the flow, both ways.
SegFin(f) ==
  /\ flow' = [flow EXCEPT ![f] = [Closed(flow[f]) EXCEPT !.n = flow[f].n + 1]]
  /\ Unlink(rl.pkt.key)
  /\ Fin(f, rl.pkt.inc)
  /\ Again

Segment(f) ==
  /\ rl.pc = "seg" /\ rl.flow = f /\ ~Held(f)
  /\ IF flow[f].closed THEN Again /\ Silent /\ UNCHANGED <<table, flow>>
     ELSE \/ rl.pkt.kind = "syn" /\ SegSyn(f)
          \/ rl.pkt.kind = "data" /\ SegData(f)
          \/ rl.pkt.kind = "fin" /\ SegFin(f)
  /\ UNCHANGED <<pc, bridge, stop, doomed>>

\* What is written is taken by the socket of a plain flow or, from the pipe, by
\* the bridge, as long as it runs.  No deadline bounds the wait for it: whether
\* a Write ever ends is up to who reads (see Fairness).
Takes(f) == flow[f].key \in Tunnelled => bridge[f] = "running"

Write(f) ==
  /\ rl.pc = "write" /\ rl.flow = f
  /\ Takes(f)
  /\ flow' = [flow EXCEPT ![f].wrote = Append(@, Arrived), ![f].n = @ + 1,
                          ![f].again = @ \/ Kept(f)]
  /\ Ack(f, rl.pkt.inc, flow[f].n)
  /\ Again
  /\ UNCHANGED <<table, pc, bridge, stop, doomed>>

\* The peer of a plain flow has reset it.  A pipe is closed by closeLocked
\* only, and that waits for the mutex; nobody closes the bridge's end.
WriteError(f) ==
  /\ rl.pc = "write" /\ rl.flow = f
  /\ flow[f].key \notin Tunnelled
  /\ Close(f)
  /\ Unlink(flow[f].key)
  /\ Again
  /\ UNCHANGED <<pc, bridge, stop, doomed, cl, q>>

\* RST: shutdown, then removeFromEngine.
Reset(f) ==
  /\ rl.pc = "rst" /\ rl.flow = f /\ ~Held(f)
  /\ Close(f)
  /\ Step("unlink", f)
  /\ UNCHANGED <<table, pc, bridge, stop, doomed, cl, q>>

ResetUnlink(f) ==
  /\ rl.pc = "unlink" /\ rl.flow = f
  /\ Unlink(flow[f].key)
  /\ Again
  /\ UNCHANGED <<flow, pc, bridge, stop, doomed, cl, q>>

-----------------------------------------------------------------------------
(* The goroutine of a flow                                                 *)

Move(f, label) == pc' = [pc EXCEPT ![f] = label]

\* failConnect resets the client first and shuts the flow down then.
DialFails(f) ==
  /\ pc[f] = "dial"
  /\ Rst(f, flow[f].inc)
  /\ Move(f, "shutdown")
  /\ UNCHANGED <<table, flow, bridge, rl, stop, doomed>>

Shutdown(f) ==
  /\ pc[f] = "shutdown" /\ ~Held(f)
  /\ Close(f)
  /\ Move(f, "remove")
  /\ UNCHANGED <<table, bridge, rl, stop, doomed, cl, q>>

\* A flow closed meanwhile gets no backend: the connection is closed again.
Dialled(f) ==
  /\ pc[f] = "dial" /\ ~Held(f)
  /\ IF flow[f].closed
     THEN Move(f, "remove") /\ UNCHANGED <<flow, bridge>>
     ELSE /\ flow' = [flow EXCEPT ![f].backend = "open"]
          /\ bridge' = [bridge EXCEPT ![f] = IF flow[f].key \in Tunnelled THEN "running" ELSE @]
          /\ Move(f, "complete")
  /\ UNCHANGED <<table, rl, stop, doomed, cl, q>>

\* completeConnect: f.mu stays locked for flushPendingLocked.
Complete(f) ==
  /\ pc[f] = "complete" /\ ~Held(f)
  /\ IF flow[f].closed THEN Silent /\ Move(f, "pump") /\ UNCHANGED flow
     ELSE /\ SynAck(f, flow[f].inc)
          /\ flow' = [flow EXCEPT ![f].synAck = TRUE]
          /\ Move(f, IF flow[f].pending = <<>> THEN "pump" ELSE "flush")
  /\ UNCHANGED <<table, bridge, rl, stop, doomed>>

Flush(f) ==
  /\ pc[f] = "flush" /\ Takes(f)
  /\ flow' = [flow EXCEPT ![f].wrote = @ \o flow[f].pending,
                          ![f].n = @ + Len(flow[f].pending), ![f].pending = <<>>]
  /\ Ack(f, flow[f].at, flow[f].n + Len(flow[f].pending) - 1)
  /\ Move(f, "pump")
  /\ UNCHANGED <<table, bridge, rl, stop, doomed>>

FlushError(f) ==
  /\ pc[f] = "flush" /\ flow[f].key \notin Tunnelled
  /\ Close(f) /\ Unlink(flow[f].key)
  /\ Move(f, "pump")
  /\ UNCHANGED <<bridge, rl, stop, doomed, cl, q>>

PumpCheck(f) ==
  /\ pc[f] = "pump" /\ ~Held(f)
  /\ Move(f, IF flow[f].closed THEN "end" ELSE "read")
  /\ UNCHANGED <<table, flow, bridge, rl, stop, doomed, cl, q>>

\* The read ends when closeLocked closes the backend, or when the peer of a
\* plain flow is done.  Data read before is left out.
ReadEnds(f) == flow[f].backend = "closed" \/ flow[f].key \notin Tunnelled
PumpRead(f) ==
  /\ pc[f] = "read" /\ ReadEnds(f)
  /\ Move(f, "fin")
  /\ UNCHANGED <<table, flow, bridge, rl, stop, doomed, cl, q>>

PumpFin(f) ==
  /\ pc[f] = "fin" /\ ~Held(f)
  /\ IF flow[f].closed THEN Silent ELSE Fin(f, flow[f].at)
  /\ Close(f)
  /\ Move(f, "remove")
  /\ UNCHANGED <<table, bridge, rl, stop, doomed>>

Remove(f) ==
  /\ pc[f] = "remove"
  /\ Unlink(flow[f].key)
  /\ Move(f, "end")
  /\ UNCHANGED <<flow, bridge, rl, stop, doomed, cl, q>>

\* The bridge ends: its context is over, its pipe is closed, or the tunnel
\* session is.  It does not close its end of the pipe.
BridgeEnds(f) ==
  /\ bridge[f] = "running"
  /\ bridge' = [bridge EXCEPT ![f] = "ended"]
  /\ UNCHANGED <<table, flow, pc, rl, stop, doomed, cl, q>>

-----------------------------------------------------------------------------
(* Engine.Stop                                                             *)

StopCancel ==
  /\ stop = "no"
  /\ stop' = "cancelled"
  /\ UNCHANGED <<table, flow, pc, bridge, rl, doomed, cl, q>>

Registered == {table[k] : k \in Keys} \ {NoFlow}

StopCollect ==
  /\ stop = "cancelled"
  /\ doomed' = Registered
  /\ table' = [k \in Keys |-> NoFlow]
  /\ stop' = "closing"
  /\ UNCHANGED <<flow, pc, bridge, rl, cl, q>>

StopClose(f) ==
  /\ stop = "closing" /\ f \in doomed /\ ~Held(f)
  /\ Close(f)
  /\ doomed' = doomed \ {f}
  /\ UNCHANGED <<table, pc, bridge, rl, stop, cl, q>>

StopTun ==
  /\ stop = "closing" /\ doomed = {}
  /\ stop' = "wait"
  /\ UNCHANGED <<table, flow, pc, bridge, rl, doomed, cl, q>>

\* readLoop is waited for, three seconds at most.
StopReturn ==
  /\ stop = "wait"
  /\ stop' = "returned"
  /\ UNCHANGED <<table, flow, pc, bridge, rl, doomed, cl, q>>

-----------------------------------------------------------------------------
ReadLoop == \/ CheckDone \/ ReadPacket \/ ReadError \/ Insert \/ Find
            \/ \E f \in DOMAIN flow : Segment(f) \/ Write(f) \/ WriteError(f)
                                      \/ Reset(f) \/ ResetUnlink(f)
FlowRuns(f) == \/ Dialled(f) \/ DialFails(f) \/ Shutdown(f) \/ Complete(f) \/ Flush(f)
               \/ FlushError(f) \/ PumpCheck(f) \/ PumpFin(f) \/ Remove(f)
Stopping == StopCollect \/ (\E f \in DOMAIN flow : StopClose(f)) \/ StopTun \/ StopReturn
Client(k) == Connect(k) \/ SendData(k) \/ Resend(k) \/ CloseSocket(k) \/ Abort(k) \/ GiveUp(k)

EngineNext ==
  \/ ReadLoop
  \/ \E f \in DOMAIN flow : FlowRuns(f) \/ PumpRead(f) \/ BridgeEnds(f)
  \/ StopCancel \/ Stopping
  \/ \E k \in Keys : Client(k)

EngineSpec == EngineInit /\ [][EngineNext]_engineVars

\* Goroutines run, dials end at their timeouts, the bridge of a closed flow
\* ends.  A Write and a read of an open backend need not end, nor do clients
\* have to do anything.
Fairness == /\ WF_engineVars(rl.pc # "write" /\ ReadLoop) /\ WF_engineVars(Stopping)
            /\ \A f \in Flows :
                 /\ WF_engineVars(pc[f] # "flush" /\ f \in DOMAIN flow /\ FlowRuns(f))
                 /\ WF_engineVars(f \in DOMAIN flow /\ flow[f].backend = "closed" /\ PumpRead(f))
                 /\ WF_engineVars(f \in DOMAIN flow /\ flow[f].closed /\ BridgeEnds(f))

EngineFairSpec == EngineSpec /\ Fairness

\* ... and who reads from a backend goes on reading.
TakingSpec == /\ EngineFairSpec /\ WF_engineVars(ReadLoop)
              /\ \A f \in Flows : WF_engineVars(f \in DOMAIN flow /\ FlowRuns(f))

-----------------------------------------------------------------------------
\* A backend is given the segments of the connection that made its flow, in
\* order, whatever the client repeats and whichever connection it starts on the
\* same key (tcp.go:211-247); each once, unless one was kept again (234).
UploadInOrder == \A f \in DOMAIN flow : \A i \in DOMAIN flow[f].wrote :
  /\ flow[f].wrote[i].inc = flow[f].inc
  /\ ~flow[f].again => flow[f].wrote[i].n = i

\* What a client is told has arrived was written to the backend of the flow it has
\* taken, which is of its connection and keeps nothing again (tcp.go:237-247).
AckedWasWritten == \A k \in Keys : cl[k].acked > 0 =>
  LET p == cl[k].peer IN
  /\ p \in DOMAIN flow /\ flow[p].key = k /\ flow[p].inc = cl[k].inc
  /\ ~flow[p].again /\ cl[k].acked <= Len(flow[p].wrote)

\* Both: what the engine takes from a client reaches its backend.
UploadReliable == UploadInOrder /\ AckedWasWritten

\* Once closed, as it then stays, a flow is left by its goroutine and its bridge.
GoroutinesEnd == \A f \in Flows :
  []<>(f \in DOMAIN flow /\ flow[f].closed => pc[f] = "end" /\ bridge[f] # "running")

\* Once Stop has cancelled the engine, it returns.
StopReturns == []<>(Cancelled => stop = "returned")

\* No Write to a backend is left waiting for ever.
WritesEnd == /\ []<>(rl.pc # "write")
             /\ \A f \in Flows : []<>(pc[f] # "flush")

\* Closing a flow ends what runs for it, whatever other backends do; closing all of
\* them ends the engine if the peers of the backends read (tcp.go:193, 237).
EngineUnwinds == GoroutinesEnd /\ (WritesEnd => StopReturns)
=============================================================================
