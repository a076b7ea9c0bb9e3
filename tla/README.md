# Verification of Zyrln

Zyrln carries a user's traffic inside requests to Google Apps Script, which forwards
them to an exit (a VPS or a Cloudflare Worker). This directory holds TLA+ models of
the parts whose correctness depends on orders of events that tests hardly reach, the
TLC configurations that check them, and TLAPS proofs about eight of them: the exit
hub, the tunnel's byte stream, the relay's coalescer, the Cloudflare hub, the
Android VPN service, direct dials, the tunnel client's warmup and the desktop
application. Paths in this document are relative to `src/`.

## 1. The system

    phone apps --TUN--> tun engine --+
    browser --CONNECT--> proxy ------+--> tunnel bridge --> tunnel client --batches-->
                           |  +-- Google host: direct dial, fragmented -----> Google
                           |  +-- domestic host: plain dial ----------------> target
                           +--MITM--> coalescer -------------relay batches----------->
                  Apps Script (Code.gs) --> exit: VPS hub / Cloudflare hub --> target

| Component | Source | State it keeps | Operations |
|---|---|---|---|
| Exit tunnel hub | `relay/exit/tunnel.go` | sessions by id; per session a connection, two mutexes, time of last use | open, tx, rx, close; sweep every minute |
| Cloudflare hub | `relay/deploy/cloudflare/worker.js`, `TunnelHub` | the same in a Durable Object, plus a bounded read buffer, a read pump, an alarm | open, tx, rx, close, alarm |
| Tunnel bridge | `relay/tunnel/tunnel_bridge.go` | pending bytes, end of the local side, RX state | TX loop, RX goroutine |
| Tunnel client | `relay/tunnel/tunnel_client.go` | URL index of a session, sticky index; warmup, its cancel function, counts of bridges and calls, keepalive loop | OpenSession, Exchange, Close, Warmup, beginBridge, Stop |
| Coalescer | `relay/appscript/relay.go` | queue, batch, sticky URL index | Submit, run, flush, Stop |
| Apps Script | `relay/deploy/apps-script/Code.gs` | none | doPost: single, batch, tunnel |
| TUN engine | `relay/tun/engine.go`, `tcp.go` | flow table; per flow a TCP state and a backend | readLoop, connect, pump, Stop |
| Shared tunnel client | `relay/tunnel/server.go`, `prewarm.go` | the active and the prewarmed client | adopt, Prewarm, StopActiveTunnel |
| Mobile bindings | `platforms/mobile/mobile.go` | server, listener, TUN engine, log ring, under one mutex | StartTunnel, StartDirect, AttachTUN, Stop, ... |
| Android VPN service | `android/.../RelayVpnService.kt` | generation, stopComplete, interface | start and stop commands, onDestroy |
| Local proxies | `relay/mitm/proxy.go`, `proxy_helpers.go` | listeners, coalescer, CA; per connection its mode and route | CONNECT, plain HTTP, SOCKS5, interception |
| Certificate authority | `relay/mitm/cert.go` | two files; leaf certificates in memory | generate, load |
| Direct dials | `relay/route/direct.go`, `direct_profiles.go`, `fragment.go` | the pair of front and profile that worked last, in memory and in a file | dial, race, remember, fragment the first write |
| Host rules | `relay/route/domestic.go`, `connect_route.go` | domain lists, the direct-mode flag | route of a host |
| Desktop | `platforms/desktop/main.go` | server, listeners and coalescer under guiMu; configuration, profiles, log ring | HTTP API, polled by a page |

They interact by calls and shared memory within a process (the VPN service
calls the bindings, which own the TUN engine and the tunnel client; each TUN
flow and each CONNECT runs a bridge), and by HTTP requests between processes,
which may be lost, late, or repeated to another Apps Script deployment.

What is hard, and what makes each part correct:

* **Exit hub** - handlers, other closes and the sweep act on one session at
  once. No connection may leak, be closed twice or be closed under a reader or
  writer; every request must be answered; idle sessions must go.
* **Cloudflare hub** - every await lets others in; the object may be evicted.
  The buffer must stay bounded and its pump must be woken, what was read must
  be answered once and in order, the end last; a sweep must come again.
* **Bridge and exchange** - an attempt that timed out may have been executed,
  or be executed later, and is sent again to another URL; operations carry no
  sequence numbers. Bytes may be repeated but never skipped or reordered; the
  bridge and the session must end.
* **Coalescer** - callers, the collecting goroutine, flushes and Stop race.
  Every caller must get exactly one answer, its own.
* **TUN engine** - client segments, dials, the pump, resets and Stop in any
  order, and a kernel that repeats what is not answered. Each backend gets one
  connection's segments in order, nothing is acknowledged that was not written, a
  closed flow's goroutines end, Stop returns.
* **VPN service** - commands come faster than threads finish. The relay, its
  client and the TUN must be of one profile, nothing may be lost, and after a
  stop nothing may be left.
* **Warmup** - a background warmup, a keepalive loop, bridges and an adoption
  look at each other's flags with no common lock. The warmup must give way
  whoever came first, and nothing that still matters may go out through an HTTP
  client that has been replaced.
* **Direct dials** - a race's results come in any order, also after the cancel;
  two dials remember at once, in memory and in a file that a restart may find
  torn. One connection may survive, and only what worked may be remembered.
* **Desktop, local proxies, CA** - API requests run concurrently, and guiMu does
  not cover the CA's files. There must be one proxy at most, a stop must
  take the relay from every connection made before it, a proxy must never sign with a key
  that is not its certificate's, and no host may leave by the wrong way.

## 2. The modules

| Module | Models | Extends / composes |
|---|---|---|
| `TunnelRegistry` | what a hub promises: a registry of connections with a life cycle (abstract) | |
| `ExitTunnel` | `relay/exit/tunnel.go` | INSTANCE `TunnelRegistry` (refinement) |
| `ExitTunnelProofs` | theorems about `ExitTunnel` | EXTENDS `ExitTunnel` |
| `TunnelStream` | bridge, Exchange, lossy network, exit | the hub appears as one session |
| `StreamProofs` | theorems about `TunnelStream` | EXTENDS `TunnelStream` |
| `Coalescer` | coalescer, failover, `doBatch_` | |
| `CoalescerProofs` | theorems about `Coalescer` | EXTENDS `Coalescer` |
| `TunEngine` | TUN engine with a client kernel | |
| `WorkerHub` | Durable Object of `worker.js` | |
| `WorkerProofs` | theorems about `WorkerHub` | EXTENDS `WorkerHub` |
| `Mobile` | the exported Go functions, as relations on their state | |
| `VpnService` | the Android service and its threads | EXTENDS `Mobile` |
| `VpnProofs` | theorems about `VpnService` and `TunEngine` | EXTENDS both |
| `TunnelWarmup` | warmup, keepalive, opening and adoption of a tunnel client | |
| `WarmupProofs` | theorems about `TunnelWarmup` | EXTENDS `TunnelWarmup` |
| `Fragment` | where a ClientHello is cut, as operators | |
| `DirectDial` | dials to Google fronts and the remembered pair | EXTENDS `Fragment` |
| `DialProofs` | theorems about `DirectDial` | EXTENDS `DirectDial` |
| `HostRules` | which hosts are Google's, domestic, foreign, as operators | |
| `LocalProxy` | the connections of the local proxies | EXTENDS `HostRules` |
| `Desktop` | the desktop API, the CA's files, crash and restart | EXTENDS `LocalProxy` |
| `DesktopProofs` | theorems about `Desktop` and `LocalProxy` | EXTENDS `Desktop` |
| `MC*` | instances for TLC: symmetry, priorities, batches | |

An action is one critical section, or the code from one await, channel
operation or blocking call to the next; where a mutex is held across a blocking
call (the write to a TUN backend, the wait for the session mutexes in
`tunnelHub.close`, `StartTunnel`) the lock is modelled as held. Variables keep
the names of the code's fields. Next to some actions stands a *mutant*, the
same action with a plausible bug. Every property is violated when one of them
takes the place of its original, which shows that the run would notice.

**ExitTunnel.** `sessions`, `wmu`, `rmu` are the map and the mutexes; `conn` is
what became of each connection; `pc`, `op`, `id`, `held` are the local variables
of the handler goroutines and the janitor. Open is four steps (first look, dial,
second look with insert, discard), close is four (delete, two locks, close).
Time is the nondeterministic `Expire`, undone by `Touch`.

**TunnelStream.** Bytes are counted in units, so that `rd` and `cut` stand for
the pending buffer; `ex` is the exchange each loop is in, `msg` the attempt on
the network, `late` what was abandoned and may still be executed. `ghost` is a
history of effects that nobody was told of, needed to say when the upload is
exact. A deployment in `Legacy` refuses batches, and operations go one by one.
`WritingLocal` is the RX goroutine in its write to the local side, which may take
what is written, fail, or do neither.

**Coalescer.** `ch`, `batch`, `jobs` and `slot` are the channel, the collected
batch, the flush goroutines and each item's result channel. A request is a
name, and the answer to it is that name.

**TunEngine.** `table` is `e.flows`, `flow` the objects, `rl` the read loop,
`stop` the caller of Stop, `cl` the phone's sockets, which repeat a SYN, a segment
or a FIN as long as it is not answered. Sequence numbers count
segments from a SYN; `inc` tells one connection on a key from the next. A socket
hears the flow whose SYN-ACK it has taken (`peer`) and none that another SYN of the
same connection has made, whose sequence numbers are outside its window; what
no connection explains it resets. `again` is a history: a segment was kept for a
backend that had been kept before. `Write` and `Flush` need somebody who
reads: a plain peer may never, and the bridge does as long as it runs. Its
operators are called `Engine...` where `VpnService` has the plain name, since one
module holds the proofs about both.

**WorkerHub.** `sess` are the session objects with `rxChunks`, `rxWaiter`,
`drainWaiter` and so on, `th` where each request is between two awaits, `alarm`
the stored alarm. Eviction forgets everything but the alarm. A session object that
nothing refers to any more (`Unused`) serves as a new one.

**Mobile, VpnService.** Each function of the bindings runs under `mu` and is one
step, but StartTunnel, which may wait for a warmup, is two. The service has a
main thread and one thread per start and per stop, with a step between any two
looks at `startGeneration` or calls into Go.

**TunnelWarmup.** `pc` says where the warmup and the keepalive loop are, `user`
where each connection is: waiting in `connectWarmOnce`, opening a session, in
`beginBridge` - counting itself, noting the traffic, reading `warmCancel`, calling
it - or in its bridge. `closes` counts the closes that follow an exit's "session
exists": they have a context of their own, so that neither a bridge nor a deadline
ends them. `ahead` is a history: an adoption has looked for the warmup before the
warmup's first step, and its time may run out first. The two looks a probe takes at
the traffic and at the counts, and the two halves of storing `warmCancel`, are steps
of their own. `http` is the client's HTTP client, `uses` the one each request was
begun with, `adopt` the progress of `adoptOrCreateTunnelClient`.

**DirectDial, Fragment.** `try[d][c]` is how far dial `d` has come with pair `c`;
an attempt may connect after the race has been cancelled. `got` are the results
taken from the channel, of which the code only counts how many there are.
`remembered` is the atomic pointer, loaded twice per dial, `file` the cached pair,
which is truncated and then written; `Restart` reads it back. `Fragment` is pure:
the cuts of a write as a set of positions, for every kind of profile.

**HostRules.** A host is the sequence of its labels, so that a suffix is one of
whole labels. Each list of domains is represented by a few entries, with one that
is also a top-level domain; the expectations of `connect_route_test.go`,
`domestic_test.go` and `routing_matrix_test.go` are assumptions that TLC evaluates.

**LocalProxy, Desktop.** A connection reads the direct-mode flag for its mode
(`currentMode`) and most kinds read it again for their route; `switched` is a
history of the flag changing in between. It keeps the proxy it was accepted by,
as a hijacked or SOCKS connection does, after that proxy has been stopped. An API
request is a place in its handler. `guiMu` is a variable where start holds it from
its first check to its end; handlers that hold it for one step only test it. The
CA's two files are truncated, written and read in steps of their own, any of which
may be the last before an error or `Crash`. A CA is a generation; `mixed` is a
history: an init-ca was at the files together with another or with a start.

## 3. The runs

| Run | Bounds | Shows |
|---|---|---|
| `exit_hub` | one id, two connections, two handlers, the janitor | NoLeak, OneOwner, CloseQuiesced; HubLive: every request is answered and idle sessions go; Implements: the hub with its fairness is a registry with its own |
| `stream` | 3 units up in chunks of 2, batches of 2, 2 units down, two URLs of which one is an old deployment, one fault, one late request | UploadFaithful: no hole, exact unless an attempt took effect unnoticed, complete when the bridge ends normally; DownloadFaithful: in order, and nothing lost but what was answered into the void; BridgeEnds: bridge and session end, unless local never takes what is written to it |
| `coalescer` | three requests (one large, one invalid and of high priority), batch of 2, queue of 1, two URLs, two faults | ItemAccounted: an item is in exactly one hand until it is answered; OwnAnswer; EveryoneEnds: Submit returns, and Stop ends the goroutines |
| `tun_safety` | one plain key, two connections on it, two flow objects, two segments each, two packets queued, SYNs, data and FINs repeated | UploadReliable: a backend gets its connection's segments in order, each once unless one was kept twice, and nothing is acknowledged that was not written to the flow the client has taken |
| `tun_live` | one tunnelled key, one connection of one segment, SYN and data repeated, two flow objects | EngineUnwinds: a closed flow's goroutine and bridge end, whoever reads backends or does not; Stop returns if every write ends |
| `worker` | two requests at a time on one id, one session object used again when nothing refers to it, buffer of 2, chunks of 2, 3 bytes, an eviction; an open may come beside a sweep, with an alarm set and after an eviction | FlowControl: the buffer is bounded and its pump paused only while it is full; StreamIsWhole: read bytes are answered once, in order, before the end; NoWriteIsCut; SweepWillRun; ClosedUnwinds |
| `vpn` | three commands to two service objects, the second created when the first is destroyed, one profile and direct mode, two clients, every call may fail | NoClientLeaks, OneProfile, NoVpnAfterStop |
| `dial` | one front, three profiles standing for the kinds there are, two dialling goroutines, one of them with a second try, restarts at any time | NoConnLeft, RememberedHasWon, HelloIsCut, DialReturns |
| `desktop` | two API requests at a time, one connection after the other, two proxies, three CAs, a Google, a sanctioned and a domestic host, all four entries, every step may fail, a crash at any time | OneProxy, SoundCA, RouteSound |
| `warmup` | two connections, two URLs, a client that was prewarmed and one that was not | WarmupAlone, NewClientOnly; AllEnd: the warmup, every wait and opening, and a stopped keepalive loop end |
| `tun_stop` | one tunnelled key, with readers that go on reading | violated: StopReturns |
| `vpn_stop` | one start, one stop | violated: NoRelayAfterStop |

Each passing run also checks its module's TypeOK (`EngineTypeOK` in `tun_safety`).
`CHECK_DEADLOCK FALSE` stands where the modelled system ends (a bridge that has
ended, submitted requests, threads or proxies used up); `exit_hub` never ends and is
checked for deadlock.

*Why the bounds are enough.* The conflicts are between two actors over one object,
at most with a third to take its place: two handlers and the janitor, two
connections for one id, two flows for one key, two requests and the alarm, two start
threads and a stop thread. One id suffices in `exit_hub` because handlers of
different ids share only the map, and the theorems hold for any number. Two flow
objects are enough for a repeated SYN to make a second flow while the client has
taken the first, and two segments for one that is kept, repeated and followed. Three
units against a chunk of two give a full chunk and a tail; a buffer of two against a
total of three makes the pump pause and go on. Two dials suffice to remember against
each other, with one front of the two there are: that a pair of a new front and an
old profile does no harm is shown by `DialProofs`; three pairs give a fast path and
a race of two. Two API requests are a writer of the files and a start, or two
writers; three generations let two init-cas follow the installed CA, and two proxies
let a connection outlive its own. Faults, late requests, evictions, connections per
key, commands, proxies and CAs are the bounded counters, each named in the CONSTANTS
of its module; for the exit hub, the stream, the coalescer, the Cloudflare hub, the
TUN engine, the VPN service, direct dials, the warmup and the desktop the theorems
of section 4 hold for any values of them.

*Fairness.* Goroutines and handlers that can run do. Dials, reads with
deadlines, attempts with timeouts and timers end. Strong fairness is assumed for
taking a Go mutex and for sending on a Go channel, since both serve waiters in
turn (a starving mutex is handed over). In `WorkerHub` only timers, cancelled
reads and the pump's own steps are fair: a remote need not send, read or close. In
`TunnelStream` the local side need not take what is written to it, since
`local.Write` has no deadline; BridgeEnds names that wait as the one exception. In
`TunEngine` reads of an open backend, writes to a backend (`tcp.go:193, 237`, which have
no deadline either) and everything the client does are unfair: EngineUnwinds promises
the end of a closed flow's goroutines without it, and the return of Stop only to
those whose writes end. `tun_stop` assumes more, that readers go on reading, and Stop still
hangs. Requests, evictions, commands and the passing of time never have to
happen. In `DirectDial` every attempt of a dial ends, because each has a deadline.
In `TunnelWarmup` requests end by their timeouts. The warmup's 25 s have begun before
those of an adoption that finds its cancel function or comes later, so they run out
before; an adoption that came earlier is `ahead`. Before the first keepalive tick they
are over, because ticks are 75 s apart (`tunnel_client.go:20`). A stopped
keepalive loop gets strong fairness for noticing it: its select takes the stop
whenever there is no tick. Bridges need not end. The
`vpn` and `desktop` runs assume no fairness.

## 4. What is proved

`ExitTunnelProofs` holds for any sets of ids, connections and handlers, from
`HubAssumption` alone (the unset values are not among the sets and the janitor
is no handler):

* `TypeCorrect` - the type invariant, with the local variables: no handler
  goes on with an unset session;
* `NoConnectionLeaks`, `OwnersExclusive` - NoLeak and OneOwner;
* `CloseWaits` - the action property CloseQuiesced;
* `HubImplementsRegistry` - every step of the hub is a step of
  `TunnelRegistry` or leaves it alone (safety part).

*The argument.* NoLeak, OneOwner and CloseQuiesced are not inductive alone.
`IInv` adds that who writes, reads or closes holds the mutex it took
(`WriteLocked`, `ReadLocked`), that the connection an open has dialled is in
nobody's read or write (`Unshared`), and that no local variable holds a
connection never dialled (`Dialled`). A close reaches `net.Conn.Close` only
holding both mutexes, so nobody reads or writes; a delete under `h.mu` gives the
connection to one goroutine. There is a step for each action and under it one
for each conjunct that the action can disturb; `Invariance` collects them.

`StreamProofs` holds for streams of any length, any chunk and batch size, any number
of URLs with any of them old, and any number of faults and late requests, from
`StreamAssumption`: `StreamInvariant`, `StreamTypes`, `UploadIsFaithful` and
`DownloadIsFaithful`.

*The argument.* A batch that timed out lives on in `late`, and may run in whole, in
part or not at all while the bridge sends the same ops again. What saves the upload
is that the bridge never begins an exchange before it was told of the last one.
`InOrder` says so of every op list that may yet reach the exit, the one in hand and all
abandoned ones: it carries consecutive units, and the target already has whatever
precedes the first of them (`Fits`). So a late write repeats units, and never skips any
(`NoHole`). `Exact` counts: unless `ghost` notes
an effect that nobody was told of, the target has exactly what was cut and answered
(`Sent`, `Straight`). For the download, units leave the target ascending (`Ascends`),
and without a ghost each reply begins where the delivered ones end (`Unbroken`). `Phases`
ties an attempt on the network to its exchange: the ops it carries and how far they
have run. Each action has a lemma of what it does (`...Is`) and one of what it keeps
(`...Keeps`); `UploadKept`, `DownloadKept`, `QuietKept` and `GoneKept` are what several
share.

`VpnProofs`, in its first part, holds for any number of profiles, clients, start and
stop threads and service objects, from `MobileAssumption` and `ServiceAssumption`
(the sets do not overlap, and the callers are the workers, the main thread and the
user interface):

* `VpnTypeCorrect` - the type invariant; the mutex is held by the thread inside
  StartTunnel;
* `NoClientIsLost`, `ProfilesAgree` - NoClientLeaks and OneProfile;
* `SomebodyMinds`, `NothingAfterStop` - the invariant `JInv`, and NoVpnAfterStop.

*The argument.* `IInv` has a part for the Go code (`MobileInv`), which each
exported function keeps whoever calls it, and a part for the threads
(`ThreadInv`). The first adds that the three places of a client hold different,
running clients (`Places`), without which stopping one could strand another, and
that there is no proxy while StartTunnel waits (`DownInside`). The second says
that only the holder of `mu` is at "bind", and that whoever is about to start or
warm up has a profile to do it with.

After a stop nothing is up because, at any time, whatever is up has somebody to
take it down. That is `Cleanup` of `JInv`: while there is a protector, a TUN engine or
an interface of some object, either a start is about to be spawned, or one is not
overtaken (and is free to leave it up), or a thread is at a place from which it
takes down just that (`Clears`, `Stops`, `Closes`) or finds that it is not
overtaken. `Generations` says why the second case ends with a stop: every command
raises its object's counter, so no two threads of an object have the same
generation, and the one that is current after a stop is the stop's. A thread that
moves on must leave `Cleanup` true for what it alone minded (`GoesOn`); a new
command overtakes the starts of its own object only, and minds that object itself
(`StartCommandTidy`, `StopCommandTidy`, `SpawnStartTidy`).

The run `vpn` uses one profile, two clients,
two service objects and three commands; the theorems need none of these bounds.

The second part of `VpnProofs` is about `TunEngine`, for any keys, flows, tunnelled
keys, connections per key, segments, and sizes of the queue and of `pending`, from
`EngineAssumption` (the tunnelled keys are keys, the bounds are numbers):

* `EngineTypesHold`, `EngineTypeCorrect` - the invariant `EngineTypes` and the type
  invariant, whatever clients send again;
* `SegmentsReachTheirFlow`, `UploadReachesBackend` - the invariant `Upload`, and
  UploadReliable, whatever clients repeat, SYNs included, and whether or not writes end.

*The argument.* `EngineTypes` says what lets readLoop do without the engine's mutex
between its steps: the flow it found by the packet's key is still a flow of that key,
nobody but readLoop registers another under it, and while readLoop writes nobody
touches the flow (`LoopTypes`). That a flow's count stays in bounds needs that a flush
happens once, before which no segment is counted past what was kept (`FlowTypes`).

For the upload, `Upload` has seven parts. A client's packets wait in the order of its
connections, and readLoop finds under a key the flow of the latest connection it has
heard of (`Ordered`). So data meets a flow of its own connection, or none, or one that a
FIN or RST ahead of the data will have ended by then (`Routed`: `Fresh` for the next
packet, `After` for one behind others, `Killer` for what ends). For this a flow that has
answered a client now gone must have its FIN or RST on the way (`Left`), and a
connection that has sent data must send no SYN again, since that would restart the
numbering (`SynsFirst`). A repeated SYN can make a second flow of a connection while its
client has taken the first, or take data to a flow that is still dialling. There a
segment is kept, perhaps more than once, which is what `again` notes: without it the flow
has one segment kept at most and expects the one after the last written (`FlowOK`,
`Counted`); with it the client has not taken the flow, for the flow a client has taken
keeps nothing and is not being flushed (`PeerOK`). Hence what is acknowledged was
written (`AckedWasWritten`). Frame lemmas carry the parts over steps that do not
touch them: `ClientMove` and `AnswerMove` for what a client does by itself and in answer,
`RouteKept` for a step that leaves the ways as they are, `UsedMove` (with `UploadKept`,
`QuietKept`, `OneGiven`) for one that gives a flow data, `Popped...` for a packet taken and
`Made...` for a flow made.

`CoalescerProofs` holds for any requests of any size, validity and priority, any sizes of
batch and queue, and any number of URLs and faults, from `CoalescerAssumption`:
`CoalescerInvariant`, `CoalescerTypes`, `EveryItemIsAccounted` (ItemAccounted) and
`AnswersAreOwn` (OwnAnswer).

*The argument.* `Apart` says that the channel, the batch and the flushes hold no item
twice, in one of them or in two; `Open` that who has not been sent yet is held by none, and
that who is held has neither a result nor an answer, so that a flush always finds room
in `item.result`; `Expected` that until Stop whoever waits is held or has a result.
There is one lemma for each way an item passes on (`SendApart`, `BatchApart`, `JobApart`,
`EmitApart`, `DropApart`, `DoneApart`, `SwapApart`, `ScatterApart`), and `PassedOn`,
`JobsKept` and `JobEnds` say what a step that does so keeps. For OwnAnswer it matters
that sorting is a permutation: ranks differ, so on a finite set they are all taken
(`PrioritizedIs`); and that counting the valid items before an item finds its own place
among the fetches (`DoBatchIs`).

`WorkerProofs` holds for any ids, requests, session objects, batches, and buffer and
chunk sizes, from `HubAssumption`: `HubInvariant`, `HubTypes`, `FlowIsControlled`
(FlowControl), `TheStreamIsWhole` (StreamIsWhole), `WritesAreNotCut` (NoWriteIsCut)
and `TheSweepWillRun` (SweepWillRun). The assumption asks for batches that are not
empty, because the handler takes `body.ops` only when it has elements and otherwise
makes a single op of the body.

*The argument.* `IInv` speaks of each session object (`Sound`): the bytes counted
are those in the buffer, what was taken followed by what is buffered is all that was
read, the pump reads only below the cap, and the end is told only when the remote
has ended and the buffer is empty. That a drain splits the buffer without losing a
byte (`RestIs`) rests on two lemmas about flattening a sequence of chunks
(`FlattenAppend`, `FlattenConcat`), shown by the least length at which they could
fail (`LeastNat`). Of the whole object `Fine` says that a request is at a session
that exists and has an op to do (`Placed`), that a waiter slot belongs to a request
that waits for that session (`Waiters`), without which an end of stream could wake
one that is somewhere else, and that who is in the middle of a write holds the mutex
of a writer that is still open (`Writers`). An object that is opened again is
referred to by nobody, so none of these is disturbed (`Unused`). An action is
composed of changes to one session and moves of one request (`SessionKeeps`,
`MoveKeeps`, `WakeKeeps`, `CloseIdKeeps`, `PumpKeeps`).

`DialProofs` holds for any finite set of fronts, any number of profiles, and any
dialling goroutines, from `DialAssumption`: `DialTypeCorrect`, `NoConnectionLeft`
(NoConnLeft) and `WinnersRemembered` (the action property RememberedHasWon). With
`FragmentAssumption` - a profile that looks for the server name has eight chunks or
more, as p01 and p07 have, and a name that was found lies in the write -
`HelloGoesInPieces` (HelloIsCut), for any profiles and any ClientHello.

*The argument.* The race ends when as many results have been taken as there are
pairs but one. `AllCollected` turns the count into the set: the results are of
pairs other than the fast path's, and a subset of a finite set with as many
elements is that set. So nobody is left who could still connect, and of those
collected the winner alone is open (`RaceOK`). A pair is stored while its dial
holds the connection, which no other step takes away. For the ClientHello, each way
to choose points is counted: equal parts as the image of an interval
(`EqualIs`), the points around the name as seven at most (`SniIs`), a random choice by
its size (`RandomIs`); `CutsAre` puts them together.

`WarmupProofs` holds for any connections and any number of URLs, from
`WarmupAssumption`: `WarmupTypeCorrect`, `WarmupGivesWay` (WarmupAlone) and
`AdoptedUsesNewClient` (NewClientOnly).

*The argument.* The warmup stores its cancel function before it looks whether
anybody is there; a bridge counts itself before it reads the cancel function.
Whoever came second saw the other: a bridge there after the look has counted
itself after it, so it has found the function, or is about to call it (`GaveWay`
over `CancelStored`). A keepalive tick comes after the warmup has ended or its
deadline has passed (`EndedLate`, `LoopLate`), and an adoption waits for the same
before it replaces the HTTP client, so that what still uses the old one has been
cancelled, is a close, which nothing cancels, or belongs to a warmup whose time began
after the adoption's (`OldIsOver`).

`DesktopProofs` holds for any hosts, connections, entries, API requests and bounds, from
`DesktopAssumption`: `DesktopTypeCorrect`, `OneProxyRuns` (OneProxy), `CAIsSound`
(SoundCA) and `RoutesAreSound` (RouteSound).

*The argument.* Whoever starts a proxy holds guiMu from the check that there is
none to the end, so there is none while it is at it (`Started`), and a stop, which
needs guiMu, always finds the proxy it has to stop; what has been stopped or
leaked is no longer in `open`, and only a proxy in `open` gets connections or
pings (`OneUp`). A start accepts a pair only if it matches, so what it holds
between reading and listening is one generation; that it is the installed one
needs that nobody was writing, and a writer beside a start or a running proxy is
what `mixed` notes (`FilesStill`). For a connection, the mode it has read agrees
with the flag until that is switched (`ConnFit`), and `WayFits` goes through what
the second reading can make of it.

*Only model-checked:* all liveness, with the fairness part of the hub's refinement,
which is out of the prover's reach. Every invariant a passing run checks is a theorem.

## 5. Where the code departs from what it says

Two runs end in a violation.

* `tun_stop`: when a tunnelled flow's bridge has returned, nobody closes its end
  of the pipe (`relay/tun/tcp.go:142-159`). The next segment blocks readLoop in
  the pipe write with the flow's mutex held (205, 237), and Stop, which needs
  that mutex, never returns.
* `vpn_stop`: a start that comes back from `startTunnel` to find itself
  superseded returns without stopping the relay (`RelayVpnService.kt:82`). If
  the stop thread was faster, the proxy stays up.

The code has other behaviour that a reader should know of, which no run states.
Most of it is in the models; where it is not, that is said.

* `opOpen` of `worker.js` looks the id up before it awaits the socket and stores
  without looking again (273-301). Of two opens of one id the first session stays
  open out of reach. The Go hub has the second look.
* The socket protector is one per process, and a superseded start clears its
  successor's (`RelayVpnService.kt:90, 112, 137`). The VPN then runs with relay
  sockets that enter the TUN, which `mobile.go:317` says they bypass.
* `onDestroy` does not raise `startGeneration` (`RelayVpnService.kt:182-192`): a
  start that is on its way when a posted `stopSelf` destroys the object goes on,
  and may establish a VPN after the next object's stop. NoVpnAfterStop sets aside
  exactly those histories: the ones with a start on an earlier object that no
  later command of that object has overtaken.
* The fast path's front and profile come from two loads of the remembered pair,
  though `direct.go:162` says "the same remembered snapshot". Between the two
  another dial may store, and a pair is tried that nobody has remembered.
* init-ca stops the proxy because "old CA in memory would cause signature
  mismatch" (`main.go:1122`), but lets go of guiMu before it writes (1139). A
  proxy started in between signs with the old CA, or does not start, having read
  one old and one new file. `SoundCA` says what still holds.
* Activating a profile is refused while a proxy runs, but the look is taken
  before the profile is read and written (`main.go:1095`), so one may have been
  started in between. Configuration and profiles are read, changed and written
  back without a lock.
* A listener that cannot be opened leaves the coalescer's goroutines running
  (`proxy.go:129`), unreachable: `OneProxy` allows no more.
* The page that polls the log takes a smaller sequence number for a restart and
  means to resync, but stores the new number right after (`app.js:1212, 1225`), so
  the entries in between are not shown. Not modelled.
* The bridge ends when the local side is at its end (`tunnel_bridge.go:265`),
  so what a target answers after a half-close is lost, although line 41 says
  "until both sides finish".
* A failover stores the index it ended at whatever is there by then
  (`relay.go:161`), so the relay can leave a URL that has not failed (line 135).
* A segment repeated before its flow has a backend is kept and counted twice, and the
  backend is given it twice (`tcp.go:228-236`). It needs a flow made by a repeated SYN
  whose client has taken an earlier flow's answer and repeats its data.
  UploadReliable says what is left: such a backend gets segments of its own connection
  only, and the client takes none of them for acknowledged.
* A plain peer that stops reading blocks readLoop in `f.backend.Write` (`tcp.go:237`),
  or the flow's goroutine in a flush (193), with the flow's mutex held. No other packet
  is handled while readLoop waits, and Stop waits for the mutex (`engine.go:115`).
* A local side that stops reading keeps the RX goroutine in `local.Write`
  (`tunnel_bridge.go:336`). The bridge waits for that goroutine (69-72) before it closes its
  session, and its caller closes the local connection after the bridge only
  (`server.go:85`). The exit's sweep removes the session.
* A warmup whose exit knows the session already closes it with
  `context.Background()` (`tunnel_client.go:697-707, 741`). These requests, one per
  URL at most for each URL tried, outlast the warmup's 25 s, the abort by a bridge
  and an adoption, which replaces the HTTP client under them. An adoption that
  aborts before the warmup has stored its cancel function (192-195) aborts nothing
  and then waits; its 25 s may end before those of the warmup.
* `loadRemembered` takes whatever front the file holds (`direct_profiles.go:98-101`). A
  file of a build with other fronts gives a fast path that is none of the race's pairs, and the
  race then makes one attempt more than it collects. The model's file is of the same build.
* The exit's sweep closes the ids it has judged idle after it has let go of the
  mutex (`exit/tunnel.go:259-270`): a session touched or opened again in between is closed
  though it is not idle.
* `removeFromEngine` removes by key (`tcp.go:338-347`) and can take a successor
  out of the table; a SYN handled during Stop can leave a flow behind (66-81).
* `seg.seq+len <= clientSeq` (`tcp.go:222`) is no comparison modulo 2^32: after a
  wrap a repeated segment is not acknowledged again. The model counts segments
  and does not wrap.
* Two rx of one session can wait at once in `worker.js` and share the waiter
  slot (443-450), for instance when the first reply was lost. No data is lost, but
  the second may sleep until its timer.
* Two start threads can both establish; the first descriptor is overwritten and
  not closed (`RelayVpnService.kt:106`). A posted `stopSelf` can destroy a
  service that has been started again.

## 6. What is not modelled

* Packet layouts, checksums and the DNS forwarder (`relay/tun/ipv4.go`,
  `checksum.go`, `udp_dns.go`): byte layouts without state, which the repository's
  tests cover.
* The exit's HTTP relay (`relay/exit/main.go`) and the Worker's front with its
  choice of a pool member: one request, one fetch, nothing kept.
* X.509, the cache of leaf certificates, header rewriting, the SOCKS handshake:
  sequential code around the control flow that `LocalProxy` has.
* `ProbeDirectProfiles`, latency pings and the profile list's handlers: they keep
  nothing, or read, change and write one file in sequence.
* The log rings, the page, Android's activities and preferences, notifications,
  the split-tunnel choice: what they send is an input of the models, what they
  show is in none of the properties.
* Loading the bundled lists and normalising a host's text: `HostRules` starts
  from labels.
* `StartTunnel`'s checks of its arguments (`mobile.go:146-155`), which return before
  anything has changed, and `onRevoke`, which the service inherits: it stops the service,
  and `onDestroy` is modelled.
* `prependOpen`, the session that is opened with its first bytes: no caller in the
  repository uses it.
* The shared helpers (`relay/core`, `conn`, `netdial`, `log`), the install script and
  the build.
