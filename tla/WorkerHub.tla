------------------------------ MODULE WorkerHub ------------------------------
(***************************************************************************)
(* The Durable Object that holds tunnel sessions on Cloudflare             *)
(* (relay/deploy/cloudflare/worker.js, class TunnelHub).  Its handlers are *)
(* async functions: one step runs from one await to the next, and steps of *)
(* different requests, of the read pumps and of the alarm interleave.      *)
(*                                                                         *)
(* A request is a batch of operations on one session id.  Bytes from the   *)
(* remote are numbered in the order they are read; what a client sends is  *)
(* not told apart.  Sockets, storage and timers are the platform's.        *)
(***************************************************************************)
EXTENDS Integers, SequencesExt

CONSTANTS Requests,   \* requests in progress at a time; one that is answered
                      \* makes room for another
          Ids,        \* session ids
          Objs,       \* session objects
          None,       \* null
          Alarm,      \* the alarm handler, which closes sessions as requests do
          Batches,    \* the batches a request may carry
          Cap,        \* RX_BUFFER_CAP
          MaxResp,    \* MAX_RX_RESP_BYTES
          MaxChunk,   \* the largest chunk a read returns
          NBytes,     \* bound: bytes a remote sends
          MaxEvict    \* bound: evictions of the object

ASSUME HubAssumption ==
  /\ Alarm \notin Requests /\ None \notin Requests \cup Objs \cup {Alarm}
  /\ Batches \subseteq Seq({"open", "tx", "rx", "close"}) \ {<<>>} /\ Ids # {}
  /\ {Cap, MaxResp, MaxChunk, NBytes} \subseteq Nat \ {0} /\ MaxEvict \in Nat

Threads == Requests \cup {Alarm}

VARIABLES sessions,  \* this.sessions
          sess,      \* the session objects
          th,        \* where each request, and the alarm, is
          alarm,     \* an alarm is set in storage
          visited,   \* ids the running alarm has looked at
          evicted    \* evictions so far

vars == <<sessions, sess, th, alarm, visited, evicted>>

Sessions == [rxChunks : Seq(Seq(1 .. NBytes)), rxBytes : 0 .. NBytes, taken : Seq(1 .. NBytes),
             got : 0 .. NBytes, eof : BOOLEAN, readErr : BOOLEAN,
             rxWaiter : Requests \cup {None}, drainWaiter : BOOLEAN, closed : BOOLEAN,
             stale : BOOLEAN, told : BOOLEAN, writeMu : Seq(Threads),
             pump : {"check", "paused", "reading", "ended"},
             reader : {"open", "cancelled"}, writer : {"open", "closed"},
             socket : {"open", "closed"}]

Labels == {"idle", "op", "connecting", "getAlarm", "setAlarm", "txWait", "writing",
           "rxWait", "rxWoken", "cancel", "closeWriter", "closeSocket", "sweep"}

TypeOK ==
  /\ sessions \in [Ids -> Objs \cup {None}]
  /\ DOMAIN sess \subseteq Objs
  /\ \A o \in DOMAIN sess : sess[o] \in Sessions
  /\ \A t \in Threads : th[t] \in [pc : Labels, ops : Seq({"open", "tx", "rx", "close"}),
                                   id : Ids, obj : Objs \cup {None}, fails : BOOLEAN]
  /\ alarm \in BOOLEAN /\ visited \subseteq Ids /\ evicted \in 0 .. MaxEvict
  /\ \A i \in Ids : sessions[i] # None => sessions[i] \in DOMAIN sess

AtRest == [pc |-> "idle", ops |-> <<>>, id |-> CHOOSE i \in Ids : TRUE,
           obj |-> None, fails |-> FALSE]

Init ==
  /\ sessions = [i \in Ids |-> None] /\ sess = <<>>
  /\ th = [t \in Threads |-> AtRest]
  /\ alarm = FALSE /\ visited = {} /\ evicted = 0

New == [rxChunks |-> <<>>, rxBytes |-> 0, taken |-> <<>>, got |-> 0, eof |-> FALSE,
        readErr |-> FALSE, rxWaiter |-> None, drainWaiter |-> FALSE, closed |-> FALSE,
        stale |-> FALSE, told |-> FALSE, writeMu |-> <<>>, pump |-> "check",
        reader |-> "open", writer |-> "open", socket |-> "open"]

-----------------------------------------------------------------------------
(* Requests                                                                *)

Goto(t, label) == th' = [th EXCEPT ![t].pc = label]

\* An error ends the batch.
Answered(r, bad) ==
  IF bad \/ Len(th[r].ops) = 1 THEN AtRest
  ELSE [th[r] EXCEPT !.pc = "op", !.ops = Tail(@), !.obj = None, !.fails = FALSE]
Answer(r, bad) == th' = [th EXCEPT ![r] = Answered(r, bad)]

Arrive(r) ==
  /\ th[r].pc = "idle"
  /\ \E b \in Batches, i \in Ids :
       th' = [th EXCEPT ![r] = [AtRest EXCEPT !.pc = "op", !.ops = b, !.id = i]]
  /\ UNCHANGED <<sessions, sess, alarm, visited, evicted>>

At(r, op) == th[r].pc = "op" /\ Head(th[r].ops) = op

\* tx and rx on an id that has no session.
Unknown(r) ==
  /\ At(r, "tx") \/ At(r, "rx")
  /\ sessions[th[r].id] = None
  /\ Answer(r, TRUE)
  /\ UNCHANGED <<sessions, sess, alarm, visited, evicted>>

\* opOpen, up to the await of socket.opened
OpenStart(r) ==
  /\ At(r, "open")
  /\ IF sessions[th[r].id] # None THEN Answer(r, TRUE) ELSE Goto(r, "connecting")
  /\ UNCHANGED <<sessions, sess, alarm, visited, evicted>>

OpenFails(r) ==
  /\ th[r].pc = "connecting"
  /\ Answer(r, TRUE)
  /\ UNCHANGED <<sessions, sess, alarm, visited, evicted>>

\* An object nothing refers to any more is as good as a new one.
Unused(o) == o \in DOMAIN sess =>
  /\ sess[o].pump = "ended" /\ \A i \in Ids : sessions[i] # o
  /\ \A t \in Threads : th[t].obj # o

\* The session takes the id, whatever has it by now.
Opened(r) ==
  /\ th[r].pc = "connecting"
  /\ \E o \in Objs :
       /\ Unused(o)
       /\ sess' = [p \in DOMAIN sess \cup {o} |-> IF p = o THEN New ELSE sess[p]]
       /\ sessions' = [sessions EXCEPT ![th[r].id] = o]
  /\ Goto(r, "getAlarm")
  /\ UNCHANGED <<alarm, visited, evicted>>

\* scheduleCleanup
GetAlarm(r) ==
  /\ th[r].pc = "getAlarm"
  /\ IF alarm THEN Answer(r, FALSE) ELSE Goto(r, "setAlarm")
  /\ UNCHANGED <<sessions, sess, alarm, visited, evicted>>

SetAlarm(r) ==
  /\ th[r].pc = "setAlarm"
  /\ alarm' = TRUE
  /\ Answer(r, FALSE)
  /\ UNCHANGED <<sessions, sess, visited, evicted>>

-----------------------------------------------------------------------------
(* closeSession                                                            *)

\* wakeRX: the request in the waiter slot goes on; s is the changed session.
Woken(s) == IF s.rxWaiter = None THEN th
            ELSE [th EXCEPT ![s.rxWaiter].pc = "rxWoken"]

\* Mutant: a paused pump is not woken.
UnmadeKeepingPump(s) ==
  [s EXCEPT !.closed = TRUE, !.rxWaiter = None, !.reader = "cancelled"]

\* The session is marked, the waiters are woken and the reader is cancelled.
Unmade(s) == [s EXCEPT !.closed = TRUE, !.drainWaiter = FALSE, !.rxWaiter = None,
                       !.reader = "cancelled"]

\* r closes whatever session its id has now; "bad" is what it answers then.
CloseId(r, bad, ss) ==
  LET o == sessions[th[r].id] IN
  IF o = None
  THEN /\ sess' = ss /\ UNCHANGED sessions
       /\ Answer(r, bad)
  ELSE /\ sessions' = [sessions EXCEPT ![th[r].id] = None]
       /\ sess' = [ss EXCEPT ![o] = Unmade(@)]
       /\ th' = [Woken(ss[o]) EXCEPT ![r].pc = "cancel", ![r].obj = o, ![r].fails = bad]

OpClose(r) ==
  /\ At(r, "close")
  /\ CloseId(r, FALSE, sess)
  /\ UNCHANGED <<alarm, visited, evicted>>

\* The reader is cancelled; the writer is closed under writeMu.
Cancelled(t) ==
  /\ th[t].pc = "cancel"
  /\ sess' = [sess EXCEPT ![th[t].obj].writeMu = Append(@, t)]
  /\ Goto(t, "closeWriter")
  /\ UNCHANGED <<sessions, alarm, visited, evicted>>

Holds(t) == sess[th[t].obj].writeMu # <<>> /\ Head(sess[th[t].obj].writeMu) = t

\* Mutant: the writer is closed without the mutex.
CloseWriterAtOnce(t) ==
  /\ th[t].pc = "closeWriter"
  /\ sess' = [sess EXCEPT ![th[t].obj].writer = "closed",
                          ![th[t].obj].writeMu = Remove(@, t)]
  /\ Goto(t, "closeSocket")
  /\ UNCHANGED <<sessions, alarm, visited, evicted>>

CloseWriter(t) ==
  /\ th[t].pc = "closeWriter" /\ Holds(t)
  /\ sess' = [sess EXCEPT ![th[t].obj].writer = "closed",
                          ![th[t].obj].writeMu = Tail(@)]
  /\ Goto(t, "closeSocket")
  /\ UNCHANGED <<sessions, alarm, visited, evicted>>

CloseSocket(t) ==
  /\ th[t].pc = "closeSocket"
  /\ sess' = [sess EXCEPT ![th[t].obj].socket = "closed"]
  /\ IF t = Alarm THEN th' = [th EXCEPT ![t].pc = "sweep", ![t].obj = None]
     ELSE Answer(t, th[t].fails)
  /\ UNCHANGED <<sessions, alarm, visited, evicted>>

-----------------------------------------------------------------------------
(* tx                                                                      *)

TxStart(r) ==
  LET o == sessions[th[r].id] IN
  /\ At(r, "tx") /\ o # None
  /\ sess' = [sess EXCEPT ![o].writeMu = Append(@, r)]
  /\ th' = [th EXCEPT ![r].pc = "txWait", ![r].obj = o]
  /\ UNCHANGED <<sessions, alarm, visited, evicted>>

TxWrite(r) ==
  /\ th[r].pc = "txWait" /\ Holds(r) /\ sess[th[r].obj].writer = "open"
  /\ Goto(r, "writing")
  /\ UNCHANGED <<sessions, sess, alarm, visited, evicted>>

TxEnd(r) ==
  /\ th[r].pc = "writing"
  /\ sess' = [sess EXCEPT ![th[r].obj].stale = FALSE, ![th[r].obj].writeMu = Tail(@)]
  /\ Answer(r, FALSE)
  /\ UNCHANGED <<sessions, alarm, visited, evicted>>

\* A write fails, at once on a closed writer; the id's session is closed.
TxFail(r) ==
  LET o == th[r].obj IN
  /\ \/ th[r].pc = "writing"
     \/ th[r].pc = "txWait" /\ Holds(r) /\ sess[o].writer = "closed"
  /\ CloseId(r, TRUE, [sess EXCEPT ![o].writeMu = Tail(@)])
  /\ UNCHANGED <<alarm, visited, evicted>>

-----------------------------------------------------------------------------
(* rx                                                                      *)

Bytes(chunks) == FlattenSeq(chunks)

\* drainRX: what fits into one response is taken.
Sent(s) == LET all == Bytes(s.rxChunks) IN
  SubSeq(all, 1, IF Len(all) < MaxResp THEN Len(all) ELSE MaxResp)

\* Chunks go whole as long as they fit, then a part of the next.
Whole(chunks) == CHOOSE i \in 0 .. Len(chunks) :
  /\ Len(Bytes(SubSeq(chunks, 1, i))) <= MaxResp
  /\ i < Len(chunks) => Len(Bytes(SubSeq(chunks, 1, i + 1))) > MaxResp

\* Mutant: the rest of a chunk is dropped.
RestWholeChunks(chunks) ==
  LET room == MaxResp - Len(Bytes(SubSeq(chunks, 1, Whole(chunks)))) IN
  SubSeq(chunks, Whole(chunks) + (IF room > 0 THEN 2 ELSE 1), Len(chunks))

Rest(chunks) ==
  LET n    == Whole(chunks)
      room == MaxResp - Len(Bytes(SubSeq(chunks, 1, n)))
      tail == SubSeq(chunks, n + 1, Len(chunks))
  IN  IF tail = <<>> \/ room = 0 THEN tail
      ELSE <<SubSeq(Head(tail), room + 1, Len(Head(tail)))>> \o Tail(tail)

\* Mutant: a chunk that is cut is counted as if it were gone.
DrainedMiscounting(s) ==
  LET n == IF Rest(s.rxChunks) = <<>> THEN Len(s.rxChunks)
           ELSE Len(s.rxChunks) - Len(Rest(s.rxChunks)) + 1
      bytes == s.rxBytes - Len(Bytes(SubSeq(s.rxChunks, 1, n))) IN
  [s EXCEPT !.rxChunks = Rest(@), !.rxBytes = bytes,
            !.taken = @ \o Sent(s),
            !.drainWaiter = @ /\ bytes >= Cap]

\* Mutant: a paused pump is left paused.
DrainedQuietly(s) ==
  [s EXCEPT !.rxChunks = Rest(@), !.rxBytes = @ - Len(Sent(s)), !.taken = @ \o Sent(s)]

\* A paused pump is woken once there is room.
Drained(s) ==
  LET bytes == s.rxBytes - Len(Sent(s)) IN
  [s EXCEPT !.rxChunks = Rest(@), !.rxBytes = bytes, !.taken = @ \o Sent(s),
            !.drainWaiter = @ /\ bytes >= Cap]

Terminal(s) == s.rxChunks = <<>> /\ (s.readErr \/ s.eof)

\* What is buffered is answered first, the end only when nothing is.
RxAnswer(r, o, s) ==
  IF s.rxChunks # <<>>
  THEN /\ sess' = [sess EXCEPT ![o] = Drained(s)]
       /\ Answer(r, FALSE) /\ UNCHANGED sessions
  ELSE IF Terminal(s)
  THEN CloseId(r, TRUE, [sess EXCEPT ![o] = [s EXCEPT !.told = TRUE]])
  ELSE /\ sess' = [sess EXCEPT ![o] = s]
       /\ Answer(r, FALSE) /\ UNCHANGED sessions

RxStart(r) ==
  LET o == sessions[th[r].id]
      s == [sess[o] EXCEPT !.stale = FALSE] IN
  /\ At(r, "rx") /\ o # None
  /\ IF s.rxChunks # <<>> \/ Terminal(s)
     THEN RxAnswer(r, o, s)
     ELSE /\ sess' = [sess EXCEPT ![o] = [s EXCEPT !.rxWaiter = r]]
          /\ th' = [th EXCEPT ![r].pc = "rxWait", ![r].obj = o]
          /\ UNCHANGED sessions
  /\ UNCHANGED <<alarm, visited, evicted>>

RxTimeout(r) ==
  /\ th[r].pc = "rxWait"
  /\ Goto(r, "rxWoken")
  /\ UNCHANGED <<sessions, sess, alarm, visited, evicted>>

\* The slot is cleared, whoever waits in it now.
RxResume(r) ==
  LET o == th[r].obj IN
  /\ th[r].pc = "rxWoken"
  /\ RxAnswer(r, o, [sess[o] EXCEPT !.rxWaiter = None, !.stale = FALSE])
  /\ UNCHANGED <<alarm, visited, evicted>>

-----------------------------------------------------------------------------
(* The read pump                                                           *)

Pump(o, s, threads) == /\ sess' = [sess EXCEPT ![o] = s] /\ th' = threads
                       /\ UNCHANGED <<sessions, alarm, visited, evicted>>

\* Woken, it looks at the buffer again.
PumpCheck(o) ==
  LET s == sess[o] IN
  /\ s.pump = "check" \/ (s.pump = "paused" /\ ~s.drainWaiter)
  /\ Pump(o, IF s.closed THEN [s EXCEPT !.pump = "ended"]
             ELSE IF s.rxBytes >= Cap THEN [s EXCEPT !.pump = "paused", !.drainWaiter = TRUE]
             ELSE [s EXCEPT !.pump = "reading"], th)

PumpRead(o) ==
  LET s == sess[o] IN
  /\ s.pump = "reading" /\ s.reader = "open"
  /\ \E n \in 1 .. MaxChunk :
       /\ s.got + n <= NBytes
       /\ Pump(o, [s EXCEPT !.rxChunks = Append(@, [i \in 1 .. n |-> s.got + i]),
                            !.rxBytes = @ + n, !.got = @ + n, !.pump = "check",
                            !.rxWaiter = None],
               Woken(s))

\* The remote is done, or the reader is cancelled.
PumpDone(o) ==
  LET s == sess[o] IN
  /\ s.pump = "reading"
  /\ Pump(o, [s EXCEPT !.eof = TRUE, !.pump = "ended", !.rxWaiter = None], Woken(s))

PumpError(o) ==
  LET s == sess[o] IN
  /\ s.pump = "reading"
  /\ Pump(o, [s EXCEPT !.readErr = TRUE, !.pump = "ended", !.rxWaiter = None], Woken(s))

-----------------------------------------------------------------------------
(* The alarm, and the platform                                             *)

Fire ==
  /\ alarm /\ th[Alarm].pc = "idle"
  /\ alarm' = FALSE /\ visited' = {}
  /\ Goto(Alarm, "sweep")
  /\ UNCHANGED <<sessions, sess, evicted>>

Sweep(i) ==
  LET o == sessions[i] IN
  /\ th[Alarm].pc = "sweep" /\ o # None /\ i \notin visited
  /\ visited' = visited \cup {i}
  /\ IF sess[o].stale
     THEN /\ sessions' = [sessions EXCEPT ![i] = None]
          /\ sess' = [sess EXCEPT ![o] = Unmade(@)]
          /\ th' = [Woken(sess[o]) EXCEPT ![Alarm].pc = "cancel", ![Alarm].obj = o]
     ELSE UNCHANGED <<sessions, sess, th>>
  /\ UNCHANGED <<alarm, evicted>>

\* Mutant: an alarm goes off once.
SweptOnce ==
  /\ th[Alarm].pc = "sweep" /\ \A i \in Ids : sessions[i] # None => i \in visited
  /\ Goto(Alarm, "idle")
  /\ UNCHANGED <<sessions, sess, alarm, visited, evicted>>

Swept ==
  /\ th[Alarm].pc = "sweep" /\ \A i \in Ids : sessions[i] # None => i \in visited
  /\ alarm' = (alarm \/ \E i \in Ids : sessions[i] # None)
  /\ Goto(Alarm, "idle")
  /\ UNCHANGED <<sessions, sess, visited, evicted>>

\* Two minutes pass; the cutoff of a running alarm is taken when it starts.
\* An rx waits three seconds at most.
GoStale(o) ==
  /\ th[Alarm].pc = "idle" /\ ~sess[o].stale /\ ~sess[o].closed
  /\ \A r \in Requests : ~(th[r].pc \in {"rxWait", "rxWoken"} /\ th[r].obj = o)
  /\ sess' = [sess EXCEPT ![o].stale = TRUE]
  /\ UNCHANGED <<sessions, th, alarm, visited, evicted>>

\* The object is evicted: memory and sockets go, storage stays.
Evict ==
  /\ evicted < MaxEvict /\ evicted' = evicted + 1
  /\ sessions' = [i \in Ids |-> None]
  /\ sess' = [o \in DOMAIN sess |->
       [sess[o] EXCEPT !.pump = "ended", !.reader = "cancelled", !.writer = "closed",
                       !.socket = "closed", !.closed = TRUE, !.drainWaiter = FALSE,
                       !.rxWaiter = None, !.writeMu = <<>>]]
  /\ th' = [t \in Threads |-> AtRest]
  /\ alarm' = (alarm \/ th[Alarm].pc # "idle")  \* an interrupted alarm is run again
  /\ UNCHANGED visited

-----------------------------------------------------------------------------
Closing(t) == Cancelled(t) \/ CloseWriter(t) \/ CloseSocket(t)
Request(r) == \/ Unknown(r) \/ OpenStart(r) \/ OpenFails(r) \/ Opened(r) \/ GetAlarm(r)
              \/ SetAlarm(r) \/ OpClose(r) \/ TxStart(r) \/ TxWrite(r) \/ TxFail(r)
              \/ RxStart(r) \/ RxTimeout(r) \/ RxResume(r)
PumpRuns(o) == PumpCheck(o) \/ PumpRead(o) \/ PumpDone(o) \/ PumpError(o)

Next == \/ \E r \in Requests : Arrive(r) \/ Request(r) \/ TxEnd(r)
        \/ \E t \in Threads : Closing(t)
        \/ \E o \in DOMAIN sess : PumpRuns(o) \/ GoStale(o)
        \/ Fire \/ (\E i \in Ids : Sweep(i)) \/ Swept \/ Evict

Spec == Init /\ [][Next]_vars

\* A cancelled reader's read returns and timers fire; nothing is assumed of
\* remotes, which need neither send, read nor close.
Fairness ==
  /\ \A o \in Objs : /\ WF_vars(o \in DOMAIN sess /\ PumpCheck(o))
                     /\ WF_vars(o \in DOMAIN sess /\ sess[o].reader = "cancelled" /\ PumpDone(o))
  /\ \A r \in Requests : WF_vars(RxTimeout(r)) /\ WF_vars(RxResume(r))

FairSpec == Spec /\ Fairness

-----------------------------------------------------------------------------
\* What a session buffers for a client that does not ask for it is bounded,
\* whatever a pump, overlapping rx and closings do (worker.js:314-316).
BufferBounded == \A o \in DOMAIN sess : Len(Bytes(sess[o].rxChunks)) < Cap + MaxChunk

\* Every byte read is answered once and in order, or still buffered, though
\* responses cut chunks and several rx may drain (worker.js:364-400).
NothingSkipped == \A o \in DOMAIN sess :
  sess[o].taken \o Bytes(sess[o].rxChunks) = [i \in 1 .. sess[o].got |-> i]

\* A pump pauses only on a full buffer of an open session: the wake-up that
\* ends the pause is never lost (worker.js:324-328, 385-389, 493-497).
PausedOnlyWhenFull == \A o \in DOMAIN sess :
  sess[o].drainWaiter => sess[o].rxBytes >= Cap /\ ~sess[o].closed

\* Both: flow control, which must stop the pump and start it again.
FlowControl == BufferBounded /\ PausedOnlyWhenFull

\* A client is told of the end of the stream when it has been sent everything
\* before it, and nothing is read after (worker.js:468-482).
EndComesLast == \A o \in DOMAIN sess :
  sess[o].told => Len(sess[o].taken) = sess[o].got /\ sess[o].pump = "ended"

\* Both: the client receives the stream, whole and then its end.
StreamIsWhole == NothingSkipped /\ EndComesLast

\* A writer is closed when no write is under way (worker.js:499-512).
NoWriteIsCut == \A r \in Requests :
  th[r].pc = "writing" => sess[th[r].obj].writer = "open"

\* While there are sessions the idle sweep will run again: an alarm is set,
\* runs, or is about to be set by an open (worker.js:520-537).
SweepWillRun ==
  (\E i \in Ids : sessions[i] # None)
    => \/ alarm \/ th[Alarm].pc # "idle"
       \/ \E r \in Requests : th[r].pc \in {"getAlarm", "setAlarm"}

\* worker.js:491: the pump and the rx of a closed session "unwind instead of
\* hanging", even when a write to the remote never ends.
ClosedUnwinds == \A o \in Objs :
  o \in DOMAIN sess /\ sess[o].closed
    ~> /\ o \in DOMAIN sess /\ sess[o].pump = "ended"
       /\ \A r \in Requests : ~(th[r].pc = "rxWait" /\ th[r].obj = o)

=============================================================================
