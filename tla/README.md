# A TLA+ verification of rdma-bench

rdma-bench measures RDMA network cards. It has three parts:

- `src/test0-basic`: scripts that check a host and count how many objects a
  card can hold;
- `src/test1-performance`: *Collie*, which searches for workloads that make a
  card misbehave (Python, `search/`) and runs them with a C++ traffic engine
  (`traffic_engine/`);
- `src/test2-isolation`: *Husky*, which runs a victim and an attacker next to
  each other. Its own traffic engine (`src/rdma-backend`, program
  `rdma_main`) is a descendant of Collie's; a second program, `rdma_ctrl`,
  stresses the control verbs.

This directory holds TLA+ modules for the core of these programs, concurrent
and sequential, TLC configurations that check them on small instances, and TLAPS
proofs of their main safety properties for all instances. `PROJECT.json` maps every
definition to the lines of the source it models, and lists components, runs,
hazards, findings and theorems.

Checking: `tlc -config MCDatapathFlow.cfg MCDatapath` (and so on, see the
table of runs), `tlapm DatapathProofs.tla` (and the other modules of proofs).

## 1. The system

### Components, their state and their operations

| Component | State | Operations | What makes it correct |
|---|---|---|---|
| Connection handshake (`context.cpp`: Listen, AcceptHandler, Connect; Collie and Husky) | `num_of_recv_`, the endpoints with `activated_`, remote queue pair and memory id, `remote_mempools_`; a TCP connection per client and server | reserve endpoints, exchange host, memory and channel information, activate queue pairs, post the first receives, publish | endpoints are reserved exclusively; whoever may send has a ready partner; memory handles belong to the peer; both sides stay in step and end |
| Datapath (ClientDatapath, ServerDatapath, PostSend, PostRecv, PollEach, the handlers) | send and receive credits, `send_batch_size_`, the queues of the card | post batches, poll completions, replenish receives | credits mirror the queues of the card; no endpoint starves; a bounded run ends after what it promised |
| rdma_ctrl's phases and the victim's marks (IPCShm, TestThread, IPCThread, SetShmThread) | `_phase`, `_ready_num`, a lock, one shared word | update, notify, poll | threads stay within a phase of each other; marks are true, in order, complete |
| Resource tests of rdma_ctrl (CtxTest ... MrTest) | the queue of resources of each thread, the device's limit | allocate in batches, make room, allocate and free, free all | nothing leaks or is freed twice; the middle phase measures what it should |
| Memory regions and buffers (`memory.cpp`, PickNextBuffer) | a FIFO per region (Husky: a vector and `ret_idx_`), `current_buf_id_` | Mallocate, GetBuffer, PickNextBuffer from several threads | indices stay in range; buffers rotate |
| Set-up (InitDevice, InitMemory, InitTransport) | the vectors of protection domains, queues, endpoints | create in order, stop at the first failure | what the datapath relies on exists and is deep enough; nothing past a vector's end is used |
| Patterns and wire encoding (ParseReqFromStr, ParseRecvFromStr, connect_info) | the requests parsed so far | parse flags, taking a buffer for each element; convert byte order | what was asked for, or sent, is what is used |
| Search (`anneal.py`, `space.py`) | current and previous point, `anomaly_flag`, found feature sets | mutate, restart, generate and match feature sets | the search goes on, a feature set contains its anomaly and holds only anomalies |
| Engine of the search (`engine.py`) | remote processes, known only by the number of connected queue pairs | start, count queue pairs with retries, kill | a result belongs to the point that was started |
| Test runner of Husky (`runtest.py`, `rdma_monitor.py`) | counters of tests, remote processes | start victim, measure, start attacker, measure, clean up | every test cleans up; totals are right |
| Basic checks, script generation, monitors, logs | none to speak of | command wrappers, formatting | |

### How they interact

- A client and a server engine talk over TCP during the handshake, then only
  through the cards. Within a server, one listen thread creates a detached
  `AcceptHandler` thread per connection, while the datapath thread already
  runs; they share `endpoints_`, `num_of_recv_` and the memory pools, of which
  two are guarded by mutexes.
- `rdma_ctrl` runs `--thread` test threads and an IPC thread; `IPCShm` is
  shared between them, and one System V shared word with the victim, another
  process, which polls it.
- The Python programs start and kill the engines over ssh, and decide from the
  number of connected queue pairs whether they run.

### What is hard

Threads that read shared fields outside locks; a protocol whose ready message
precedes readiness; batches of which only one request is signaled; failures
half way through a handshake, a post or a set-up; a barrier written by hand;
notifications that overwrite each other; retries with a time limit. The list,
with lines, is under "hazards" in `PROJECT.json`.

## 2. Modules

| Module | What it is |
|---|---|
| `Handshake` | the handshake of any number of clients and servers, with failures and kills |
| `QpPairing` | abstract: blocks of endpoints are granted once and linked as a whole |
| `Datapath` | a client's and a server's datapath thread, their credits, and the cards |
| `Window` | abstract: a window per connected pair |
| `CtrlPhases` | rdma_ctrl's phases, IPC thread and victim |
| `CtrlResources` | what rdma_ctrl's test threads allocate and free in their phases |
| `Rounds` | abstract: nobody is more than one round ahead; `CtrlPhases` implements it, `CtrlResources` is built on it |
| `Context` | the set-up of an `rdma_context`, with failures, and the buffers its threads pick |
| `Search` | Collie's search: the walk, the feature sets, the engine that starts and kills traffic, the card |
| `MC...` | instances for TLC |
| `...Proofs` | theorems about the module of that name |
| `LockstepProofs`, `PairingProofs` | theorems about the conversation of `Handshake`, and what it leaves behind |

Operators with a comment `Faulty:` are plausible bugs. No action
uses them: each is put in the place of the definition below it to see that the
properties notice.

### Handshake

One action is what a thread does between two blocking `read()` calls, split
where another thread can see the middle: before the lock of the memory pools,
between the answer to a ChannelInfo and `Activate`, between two `PostRecv` of
the first batch, before `SetActivated`. The handler's locals are the record
`h[k]` of connection `k = <<client, server>>`, the client's `cl[c]`. A gid
stands for its process, a queue pair's number is its index. `sock[k]` holds the
messages under way and which ends are open; a read from a closed socket makes
the reader leave by its error path (`ClientOut`, `HandlerOut`). Collie's `main`
goes on after a failed `Connect` and Husky's stops: `ContinueOnFailure`.
`ClientKilled` is `killall` (every point of the search ends that way),
`ServerExit` is the server's `exit` on a bad completion. Activation and posting
may fail.

Not in the model: what a message carries beyond what these properties compare
(keys, addresses, LIDs), a TCP connection that hangs without closing, and a
process that restarts (the programs have no persistent state).

### Datapath

`client` and `server` are the program counters of the two loops. `ring[e]` is
the part of the send queue in the card, one record per signaled batch: the
slots that come free with its completion and the requests still to be sent.
`open[e]` are requests accepted without a signaled one behind them, which is
what a failed `ibv_post_send` leaves. The card, `NicSend`, takes requests in
order; with `TwoSided` each needs a posted receive. Flags of both engines are
constants: shared completion queue, reliable or lossy transport, `--iters`,
`--run_infinitely`. With `Faults`, posts fail half way and connections break.

Between `Handshake` and `Datapath` the interface is the property
`SendersArePaired`: a client endpoint that may send has a partner all of whose
receives are posted, which is `Datapath`'s initial state.

The counters `sent` and `completed` belong to the properties; they are capped at
`Iters`.

### CtrlPhases

`thread[t]` is where `TestThread` is, with the phase of its `Test`. `Update`
takes three steps: the test `phase == _phase` outside the lock (`UpdateTest`),
the count under the lock (`UpdateCount`), and for the last thread the
notification (`UpdateNotify`) and, a second later and still under the lock, the
next phase (`UpdatePhase`). `ipc` is `IPCThread`. The victim runs
`SetShmThread`. `Punctual` says that the victim polls within the second
`NotifyVictim` sleeps; the constant `Stale` is what the shared word holds from
an earlier run; `Faults` lets `shmget` or `shmat` fail, of either program
(`IpcInit`, `VictimFails`).

### CtrlResources

The five classes CtxTest, PdTest, CqTest, QpTest and MrTest run the same three
loops over different verbs, so one set of actions stands for all; `Kind` says
which, and only QpTest and MrTest have vectors of parent objects to index.
`job[t]` is where a thread is within its phase (`head`: it looks at the clock;
`batch`: it is about to allocate; `free`: it is about to free what it has just
allocated; `first`: the deallocation before the middle phase; `drain`: the last
phase), `queue[t]` is `_res_queue`. The device gives any object it does not
hold, also one freed just now, and refuses when it holds all of `Handles`. With
`Faults` any verb may fail. The order of phases between the threads is taken
from `Rounds`: a thread begins its next phase by `Rounds`' step, so nothing of
`IPCShm` is modelled twice. `overlap` is a history variable of the properties.

When the free before the middle phase fails, MiddlePhase returns and keeps the
object in the queue; when a free of the last phase fails the object has been
popped and is given up (`lost`); so are those of the middle loop.
QpTest creates as many receive queues as `--num_send_cq` says; `--num_recv_cq`
only has to be positive, and does not occur in the module.

### Context

`main` is where `rdma_context::Init` is; each of its loops is one step that may
stop after any number of rounds, because nothing else runs yet. The two engines
differ in how they allocate regions (Collie a pair per round, Husky all send
regions and one receive region) and in how a region hands out buffers (a FIFO,
or a vector with `ret_idx_`). A failed `Mallocate` ends the loop and not Init;
the other failures end Init. After Init each thread of `Threads` runs a small
program of picks (`thread[t]`): parse a pattern, announce a buffer for each of
`--buf_num`, post. `pick[t]` is how far it is within `PickNextBuffer`, one step
for each access to shared memory, so `current_buf_id_++` is a load and a store.
What is then compared with the pool's size (`Compared`) is the value stored or the
member read again, as the compiler likes; it matters only when picks overlap.
`raced` is a history variable: two picks have overlapped. An access outside a
vector or through a null pointer sets `fault` and stops the model, since nothing
can be said of the program afterwards.

What the threads do between picks is in `Handshake` and `Datapath`; here they
may pick at any time. A handler may return at any point between picks.

### Search

`at` is where `simulated_annealing` or a test is (kill, check, choose a point,
leave known sets, launch, await, monitor), `job` whose traffic it is: the point
of the walk (`search`), its forward traffic alone, its backward traffic alone, a
bound of one dimension (`test`), or the simplified point once more (`redo`).
`gen` is the state of `generate_mfs_from_traffic`: the traffic and the dimension
that are tested, the side, the answer at the lower bound, the simplified point
and the features so far. The constant `Card` is what `check_bone` says of each
point on each of several cards.

A point of the walk has a forward traffic and a backward one or a loopback; a
test has one or both. A traffic has three of its dimensions, one for each way the
code tests a dimension: by its optimum (`qp_num`), between two bounds
(`send_batch`), and between two bounds of which the lower depends on another
dimension (`send_wq_depth`). The lower bound of each is 0 and a step is 1.
`MatchOne` is `_match_mfs` as it is written: each part of a set may be matched by
either traffic of the point. The comment there says forward with forward and
backward with backward, and `MatchAligned` (Faulty) does that.

The engine is modelled queue pair by queue pair. `late[i]` of those of the i-th
traffic are still to come and `up[i]` are connected; they come up one by one
(`ComeUp`), and die in any number (`Die`). Those of earlier launches are `tardy`
and `strays`: a kill (`Kill`) may miss any number of those that are connected if
a command fails on one of the hosts, and any number of those that are not
there yet without a failure; they come up later (`ComeUpTardy`), on a port that
is free. The engine sees only the sum of all that are connected (`CheckRun`).
`blame` records for the properties what went wrong with the last launch.
`Strays` bounds the queue pairs that outlive a kill, all kills together
(`outlived`), and `Faults` the commands, looks and readings that fail. A queue
pair for host B alone is not counted on host A by the code, nor here: each
traffic has one end on host A, and a loopback two.

Not in the model: the log, the time limit, fixed points read from a file, the mix
of message sizes, and the accept rule (`anneal.py:325-334`): `prev_point` has been
the point since line 295, so accepting or not changes nothing.

## 3. Runs

| Run | Bounds | Shows |
|---|---|---|
| `handshake` | 3 Husky clients (one of 2 queue pairs, two of 1), 1 server of 3 endpoints, 2 buffers, 3 receives in batches of 2 | TypeOK; reservations are exclusive although more queue pairs are asked for than there are (SlotsExclusive); nobody else posts to an endpoint being filled (FirstBatchUndisturbed); who may send has a ready partner (SendersArePaired); PoolsOfThePeer; Lockstep; no incomplete context starts its datapath (RunsComplete); published endpoints never change (PublishedForGood); refinement of `QpPairing` |
| `handshake_hosts` | 1 Collie client, 2 servers | pools stay those of the peer although a failed host shifts their numbers; under fairness every Connect and AcceptHandler ends |
| `datapath_flow` | 2 endpoints, 4 send slots in batches of 2, 3 receives in batches of 2 | SendQueueFits, ReceiversMatch, nobody starves, refinement of `Window` |
| `datapath_faults` | Husky's loop: 1 of 2 endpoints connected, 2 receives, 3 iterations, lossy, shared queue, all faults | TypeOK; SendersMatch under failures; the loop ends (ClientEnds), and if it ends by itself only after `--iters` completions (AtLeastIters) |
| `datapath_iters` | Collie's loop: 2 endpoints, 2 send slots in batches of 2, 2 iterations | **violated**: queue pairs do not each send `--iters` batches |
| `ctrl_phases` | 3 threads, `--notify`, a word left by an earlier run, failing shared memory | TypeOK; NoFreeWhileAllocating; marks are true and in order (MarksTrue), none is missed (MarksComplete); both programs end (BothFinish); refinement of `Rounds` |
| `ctrl_detach` | 3 threads, no failures | **violated**: the victim reads detached memory |
| `ctrl_resources` | queue pairs: 2 threads, 3 objects, batches of 2, 2 domains and 3 queues, every verb may fail | TypeOK; IndexInRange; one owner per object (ObjectsOwned); EndsClean; RoomUnlessTaken; all threads return |
| `ctrl_room` | contexts: 2 threads, 3 objects, no failures | **violated**: there is room in the middle phase |
| `context` | 11 command lines: both engines, both sides, pools of 0, 1 and 2 buffers, 1 and 2 regions, more regions or hosts than protection domains; a handler and the datapath | TypeOK; Init ends well only with all it promises (ReadyComplete); what an undefined access needs (FaultsExplained); regions hand out their buffers in turn (BuffersInTurn) |
| `context_receives` | a server with the README's two receive patterns | **violated**: the server posts the patterns it was asked for |
| `search` | 5 cards, points of 2 traffics with 3 dimensions each (bounds 1, 1, 2), 2 points to draw from, 2 iterations, 1 queue pair that outlives a kill, 1 failure | TypeOK; what is monitored is exactly what was asked for, unless a process was late or has died or a test followed a failed clean-up (MeasuredAsAsked); a kept set contains its point, its simplified point is anomalous, and if one traffic or two are to blame it leaves out, or fits, anomalies only (FoundSound); the search ends (SearchEnds) |

Why these bounds suffice. In the handshake, interference needs two handlers of
one server, a client with more than one queue pair (an order of its own) and
one with a different number; a full server needs one request too many. A first
batch of 3 by 2 has a full and a partial post. In the datapath, two endpoints
are needed for the turn-taking and the shared queue, two batches in the send
queue for their order, and a number of receives that the batch does not divide.
For the phases, three threads are the least with one ahead, one behind and one
between. For the resources, one thread must be able to take the room of
another; a device of one object more than the threads lets a queue hold two;
batches of 2 have a middle, and vectors of 2 and 3 do not wrap together.
For the context, two threads are enough to overlap; two regions of two buffers
let the index and the FIFO both turn, and pools of unequal length come from a
failed Mallocate at any round. For the search, two iterations let a second
point meet the feature set of a first. The five cards: one traffic in a box open
above, one in a box that is not, a forward and a backward traffic in two
different boxes, a forward one and a loopback, and anomalies that are no box, in
which the simplified point need not be anomalous. The points to draw are one
with a backward traffic and one with a loopback; mutation leads everywhere from
there. One queue pair that outlives a kill is enough to make a count right
that should not be, and one failure is enough for a kill that leaves something behind, a process that dies
or a test that is misled; being late is not a failure. A queue's depth needs two
values above its lower bound for an interval to be neither a point nor
everything. The run has 332,453 states and takes two to three minutes.
Nothing depends on an identity beyond that, and what is proved (below)
holds for all sizes.

Deadlock is not checked: the programs end, and a server that failed stops.

### Fairness

`Handshake!FairSpec` is weakly fair to each client's main thread, each handler
and the listen thread: the scheduler runs every thread that is not blocked. It
assumes neither that a server starts nor that anybody dies. `Datapath!FairSpec`
is weakly fair to both loops, which never block, and to each endpoint's share of
the card; nothing forces a fault. `CtrlPhases!FairSpec` is weakly fair to every
thread; a thread waiting for the lock does so for at most the second the holder
sleeps. `CtrlResources!FairSpec` is weakly fair to every thread and to the
clock, by which the allocating loops end. `Search!FairSpec` is weakly fair to the
search, which is one thread whose calls return, and to queue pairs coming up, and
strongly fair to drawing a point outside the known sets: a random point is not
always within them if it need not be. `Context` has no liveness: picks
terminate by their shape, and its threads run for ever.

`Datapath` needs strong fairness once, for `ClientExit`: the completion with an
error of a broken queue pair stays in its completion queue, the loop polls that
queue again and again, and a queue hands out what it holds in order, so in some
poll the error is met.

## 4. Findings

- `--iters` says "Iterations one QP will send"
  (`test1-performance/traffic_engine/helper.cpp:53`). ClientDatapath counts turns
  of its loop, also those in which a queue pair had no credits
  (`context.cpp:940-944`).
- `rdma_ctrl.cpp:193` says "Dealloc one for capacity", and `rdma_ctrl.cpp:688`
  "wait for all threads finished". The loop there waits for a phase the thread's
  own Update has just seen, so a thread starts its middle phase while another is
  still in AllocPhase and takes the room; the middle phase of the thread that
  made it ends with its first allocation. A thread that had nothing to free
  takes it too. Without a failed free these are the only ways
  (RoomUnlessTaken), and the skew of phases is at most one (`Rounds`, proved).
- `rdma_context.cpp:144` (Husky) reads the shared word again after `shmdt` at
  line 170.
- `--receive=1_65536,2_4096_4096` is the example of
  `test1-performance/traffic_engine/README.md:37`, of two receive patterns.
  ParseRecvFromStr (`context.cpp:23-40`, and Husky's) takes the comma between
  them for a number and ends; a server posts the first only. ParseReqFromStr
  skips the comma.

What the checks showed besides, without a line of a document that says
otherwise:

- Overlapping picks are reachable on any server with a datapath and a handler:
  `current_buf_id_` can pass the size of the vector and stay beyond it, and a
  FIFO of one buffer can be popped when empty (`raced` in FaultsExplained).
- Without `--share_pd`, a second host or a region more than `--qp_num` reads past
  `pds_` (TooFewPds).
- A device name that is not found leads InitDevice to the last device of the list
  although it logs that it exits (`context.cpp:136`).
- A test that could not be set up answers -1, which its callers take for "still
  anomalous" (`anneal.py:466`): `misled` in FoundSound. The test of the
  simplified point at the end repairs the point, not the intervals.
- A feature set with a depth below its batch does not contain the point it was
  made from (`anneal.py:568`).
- `prev_point` already is the point when the accept rule runs
  (`anneal.py:295`, `325-334`), so the rule changes nothing.
- The comment "Forward-forward, backward-backward" (`anneal.py:1032`) is not
  what `_match_mfs` does: either traffic of a point may match each part of a set.
  A set of one traffic so leaves out points whose backward traffic alone fits,
  which is right when one traffic is to blame (LeavesOutAnomalies in FoundSound,
  which the match of the comment breaks: it would not even find the origin of a
  set made of the backward traffic). A set of two traffics in different boxes
  leaves out more points than are anomalous; only those that fit forward by
  forward and backward by backward are anomalous (FitsAlignedAnomalies).
- The engine's count can be right by accident, with a queue pair of a killed run
  in the place of one that has not come up. In the walk this takes a process that
  was not there yet when it was killed, since the walk stops after a clean-up that
  fails (`anneal.py:280`); in a test a process that survives is enough, since
  `is_anomalous` goes on (`anneal.py:463`). MeasuredAsAsked says that nothing
  else leads to it, but for a process that dies after the look.

Seen while reading, and not modelled: the loop that leaves known sets has no
bound (`anneal.py:291`; SearchEnds says when it ends); Point.mutate of an equal
pair of bounds does not end, uses the bounds of host A for B (`space.py:522-527`)
and looks for "MTU" in names in lower case (`space.py:531`); Collie's `main`
joins threads that were never started (`main.cpp:49`).

## 5. Proofs

All theorems hold for every value of the constants that satisfies the modules'
named assumptions (`HandshakeAssumption`, `DatapathAssumption`,
`CtrlAssumption`, `ResourceAssumption`, `ContextAssumption`,
`SearchAssumption`), which say no more than that sizes are numbers, positive
where the code needs it, that flags are Booleans, that a datapath thread is no
handler and that a queue may be as deep as the longest batch (`space.py:71`,
`space.py:76`).

**HandshakeProofs.** `TypeCorrect` is inductive by itself. `Exclusive`
(SlotsExclusive): with TypeOK it is inductive, because a reservation starts at
`num_of_recv_`, where by its second part all others end. The two facts needed
are that only `HandlerHost` reserves (`Unreserving`) and that a handler reserves
once. `Undisturbed` and `Permanent` need more: that an endpoint in no block was
never touched and that one is published only when its handler is past it. This
is `Ownership`, proved as `Owning`.

**LockstepProofs.** The messages of a connection are numbered: `Question(k, n)`
and `Answer(k, left, n)` are the n-th of the client and of the handler, and
`Sent` and `Heard` say how many a thread has sent from where it is. `Wire` says
that at most one message is under way, that it is the next one, and that the
locals of both sides fit the place they are at. It is inductive (`Conversing`)
with kills, exits and failures, because a side that ends takes the conversation
with it, and gives `InLockstep`. `NoStandoff` adds `Ends`: as long as both ends
are open and the two sides are at work there is a message on the wire. Hence a
blocked `read()` always has a message or a closed connection to come, or it is
the other side's turn and the other side is there. (That the other side takes
its turn is fairness, and TLC's.)

**PairingProofs.** `Blocks` says what a handler has written into its block so
far, down to the position it is at, and `Linking` the same of a client and the
endpoints of each of its servers. They are joined by `Confirmed`: a GoGo is on its way back
only when every endpoint of the block is published. Since nothing else lets a
client set `activated`, `Paired` (SendersArePaired) follows, with `PooledByPeer`
and `Completed`. For `Refines`, `HandlerHost` is a Grant, `ClientGoGo` an
Establish, a kill or a failed `Connect` of an engine that stops is a Drop, and
every other step stutters; `Linking` supplies what Establish asks for.

**DatapathProofs.** `Senders` (the shape of the variables and SendersMatch)
is inductive with and without faults, which gives `Matched`. SendQueueFits is
not inductive: that the credits suffice follows only if every batch occupies
exactly `SendBatch` slots and nothing is open, and that no receive is lost only
if there has been no fault; `Exact` says this, and `IInv` is both. From it follow `SendersFit`,
`ReceiversFit` and, step by step, `WindowImplemented` (assuming no faults).
`TypeCorrect` holds with faults, and says that no queue is overfilled. Its
invariant `Bounded` keeps books of the slots: `AddUp` says by a function of
partial sums, instead of a recursive definition, that the slots of all batches
in a queue and those after the last signaled request add up to `used`.
`IterationsDone` rests on `Turns`: what `iterations_left` has been lowered by is
at most what has completed, counting the poll that is under way.
`NoCreditDeadlock` says that without faults an endpoint can post, or something
that returns credits is possible: a completion, a request the card can carry
out, or a receive ServerDatapath can take back or post again. It assumes that a batch fits
the send queue (`SendBatch <= SendDepth`); otherwise nothing is ever posted.

**CtrlPhasesProofs.** The heart is `CountRight`: `_ready_num` is the number of
threads that have arrived in the present phase (a cardinality), it is below the
number of threads unless the lock is held, one thread at most notifies. With
`InPhase`, which bounds where a thread may be relative to the common phase, it
is inductive: `UpdateTest` reads the phase outside the lock, and what makes this
harmless is that the phase cannot change before this very thread is counted.
`TypeCorrect`, `FreeAfterAllocating` and `RoundsImplemented` follow. `TrueMarks`
adds `Printed` (what was printed is true for all later times) and `Readable`
(what the victim may read next would be true).
`CompleteMarks` adds `Counting` (the marks so far are 0, 1, ... in order) and
`InTime` (the word is the last mark or the one after it). It assumes what the
property is about: `--notify`, a victim that polls while the notifier sleeps
(`Punctual`), and a shared word that does not still say ready from an earlier
run. Without the last it is false, as TLC shows: the test goes off before the
victim is there. `NoDeadlock` adds `Held` (a lock that is taken has a holder): until all
threads have returned, one of them has a step, or the notifier sleeps for a
victim that has a word to read. It is the count again: with the lock free, some
thread has not arrived, and that thread can go on.

**CtrlResourcesProofs.** `Placed` is TypeOK and `Sound`, which says for each
thread where it can be in which phase and what holds of its indices there: below
the sizes before an allocation, at most the sizes between the allocation and the
wrapping. It is inductive and gives `TypeCorrect` and `IndicesRight`.
`OwnedAlways` adds `Partition` (an object is live if and only if it is lost or
some thread owns it, and none is owned twice) and `Distinct` (within a thread).
The lemmas PartitionGrows, PartitionShrinks and PartitionLoses say what one
object more or less does to it, Appended and Popped what it does to a queue.
`CleanEnd` adds that a thread that has drained its queue keeps it empty.
`RoomTaken` is a counting argument: `Balanced` says that the threads that have
made room and hold nothing are no more than the free objects and the threads
that took one without having made room, unless phases overlapped or a free
failed. `Close` and `Settled` say why only overlap can upset it: threads are at
most one round apart, and none allocates once another is past it.

**ContextProofs.** `Base` is TypeOK and `Seated`: a thread picks only when it
has something to pick, and its index is that of a region until it is stored. It
is inductive even when picks overlap, and gives `TypeCorrect`. `Built` adds what
Init leaves behind: `Made` (which vectors are complete at which stage, hence
`CompleteWhenReady`), `Sized` (the receive pool is not the longer one unless it
has a single region, so that an index that is right for it is right for the
other pool) and `LoneClient`. `Orderly` describes runs whose picks have not
overlapped: one thread at most picks, it knows how far it is (`PickRight`), and
between picks the index is inside the pool in use (`Rest`). BuffersInTurn is not
inductive, for it does not say that the first buffer follows the last; `Rotated`
does, and `Whole` says it of a region nobody is changing. `IInv` is `Built`,
FaultsExplained, and `Orderly` unless picks have overlapped; `Explained` and
`InOrder` follow.

**SearchProofs.** `Typed` is TypeOK and where in an iteration or a test the
counters are positive. `RightTraffic` adds `Asked`: no more of a launch is up or
to come than was asked for, traffic by traffic (`up[i] + late[i] <= Qps`); what is
left of earlier launches is explained by what went wrong at the last kill; and
in the walk nothing is connected after a clean-up that succeeded. Then a sum that
is right, with no strays in it, is right in each term, which is MeasuredAsAsked.
The cases it excepts are those in which it is false. `SetsSound` adds
`Generating`. `Origins` says that in the dimensions not tested yet each traffic of
the simplified point is still that of the point, and in those tested the point
fits (`Keeps`). `Understood` says what the tests have shown as long as none was
misled: if one traffic in a box is to blame (`OneBox`), it is the one being tested
and all values that fit so far are inside the box (`Covers`), or nothing has been
found to matter; if two are (`TwoBoxes`), each is in its box and covered as far
as tested. `Outcome` and `Learnt` are what the tests of one dimension may come to and
what they have shown: the answer for the lower bound is remembered while the
upper one is tested. The match with either traffic enters at the end: if one
traffic is to blame, any traffic that fits is in the box, whichever of the point
it is.

**Only model-checked:** liveness, which is beyond the prover (ClientsSettle,
HandlersReturn, NobodyStarves, ClientEnds, BothFinish, AllReturn, SearchEnds).
Every safety invariant, action property and refinement of a passing run is a
theorem, with the hypotheses named above. `NoStandoff`, `NoCreditDeadlock` and
`NoDeadlock` are the safety half of three of the liveness properties. They
spell out the guards, since ENABLED cannot be proved about.

## 6. Not modelled, and what is left

- Flags and `ParametersCheck` run once before anything else; their results are
  the constants of the modules.
- The byte order of connect_info: conversions of machine words. Fields of 8 and
  16 bits go through 32-bit conversions (`rdma_context.cpp:490`); `Handshake`
  carries the fields as they are meant.
- The throughput report (floating point over clock readings, only logged), log
  files, card counters and the formatting of command lines.
- The test runner of Husky (`runtest.py`): one thread in the shape of the
  engine that `Search` models, without its retries.
- `test0-basic`: scripts that compare outputs of commands, and a program that
  allocates and frees in one thread what `CtrlResources` does in several.
- In the search: fixed points read from a file, the mix of message sizes and its
  match, the time limit, and the accept rule, which changes nothing.

Left to do: the opcodes and sizes of requests, with the mix of message sizes,
in `Search`; that a thread of `Context` and of `CtrlResources` always has a
step, as theorems.
