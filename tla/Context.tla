------------------------------ MODULE Context ------------------------------
(***************************************************************************)
(* An rdma_context of the traffic engines: how Init builds it from the     *)
(* command line, where a failure leaves it, and how its threads take       *)
(* buffers from its two pools with PickNextBuffer.  The threads of a       *)
(* server, its datapath and an AcceptHandler for each connection, share    *)
(* the pool of receive buffers and one index without a lock; a client has  *)
(* one thread.                                                             *)
(*                                                                         *)
(* A step of a pick is one access to what threads share.  An access        *)
(* outside a vector or through a null pointer is a fault, after which      *)
(* nothing is said of the program.                                         *)
(***************************************************************************)
EXTENDS Integers, Sequences

CONSTANTS
  Settings,  \* the command lines
  Handlers,  \* AcceptHandler threads
  Datapath   \* the thread of ServerDatapath, or the main thread of a client

Threads == Handlers \cup {Datapath}

(* A command line, as far as it matters here.  pattern is --receive of a   *)
(* server and --request of a client: the elements of each request.         *)
Setting ==
  [husky : BOOLEAN, server : BOOLEAN, sharePd : BOOLEAN, shareCq : BOOLEAN,
   hosts : Nat \ {0}, qps : Nat \ {0}, mrs : Nat, bufs : Nat,
   cqDepth : Nat, recvDepth : Nat, pattern : Seq(Nat)]

ASSUME ContextAssumption ==
  /\ \A f \in Settings : f \in Setting
  /\ Datapath \notin Handlers

VARIABLES
  flags,   \* the command line
  main,    \* where Init is
  pds,     \* how many protection domains pds_ holds
  cqs,     \* how many pairs of queues send_cqs_ and recv_cqs_ hold
  ep,      \* endpoints_
  pool,    \* local_mempool_: a sequence of regions for each direction
  cur,     \* current_buf_id_
  thread,  \* what each thread does, and how far it is
  pick,    \* the PickNextBuffer it is in
  raced,   \* two picks have overlapped
  fault    \* the access that was undefined

setupVars == <<flags, main, pds, cqs, ep>>
pickVars == <<pool, cur, thread, pick, raced>>
vars == <<setupVars, pickVars, fault>>

NoBuffer == -1
Idle == [at |-> "no", id |-> 0, buf |-> NoBuffer]
Off == [at |-> "off", reqs |-> << >>, left |-> 0]

NumQps(f) == f.hosts * f.qps

Init ==
  /\ flags \in Settings
  /\ main = "device"
  /\ pds = 0
  /\ cqs = 0
  /\ ep = [e \in 0 .. (NumQps(flags) - 1) |-> "null"]
  /\ pool = [p \in 0 .. 1 |-> << >>]
  /\ cur = 0
  /\ thread = [t \in Threads |-> Off]
  /\ pick = [t \in Threads |-> Idle]
  /\ raced = FALSE
  /\ fault = "none"

-----------------------------------------------------------------------------
(* rdma_context::Init, one step for each loop.  A loop may fail after k of *)
(* its rounds.                                                             *)

(* InitDevice, which opens the last device if none has the name, and       *)
(* Husky's CheckDeviceParams.                                              *)
InitDevice ==
  /\ main = "device"
  /\ main' \in {"pds", "failed"}
  /\ UNCHANGED <<flags, pds, cqs, ep, pickVars, fault>>

NumPds == IF flags.sharePd THEN 1 ELSE flags.qps

AllocPds ==
  /\ main = "pds"
  /\ \E k \in 0 .. NumPds :
       /\ pds' = k
       /\ main' = IF k = NumPds THEN "regions" ELSE "failed"
  /\ UNCHANGED <<flags, cqs, ep, pickVars, fault>>

(* GetPd(i) is inside pds_. *)
HasPd(i) == flags.sharePd \/ i < pds

Region == [queue |-> [b \in 1 .. flags.bufs |-> b - 1], ret |-> 0]
Regions(n) == [i \in 1 .. n |-> Region]

(* Collie: the i-th round allocates a region of either pool.  A failed     *)
(* Mallocate ends the loop, and that is all.                               *)
CollieRegions ==
  /\ main = "regions"
  /\ ~ flags.husky
  /\ \E k \in 0 .. (2 * flags.mrs) :
       LET rounds == IF k < 2 * flags.mrs THEN k \div 2 + 1 ELSE flags.mrs
       IN  /\ \A i \in 0 .. (rounds - 1) : HasPd(i)
           /\ pool' = [p \in 0 .. 1 |-> Regions((k + 1 - p) \div 2)]
  /\ main' = "cqs"
  /\ UNCHANGED <<flags, pds, cqs, ep, cur, thread, pick, raced, fault>>

(* Husky: the regions of the send pool, and one of the receive pool. *)
HuskyRegions ==
  /\ main = "regions"
  /\ flags.husky
  /\ \E k \in 0 .. flags.mrs, n \in 0 .. 1 :
       LET rounds == IF k < flags.mrs THEN k + 1 ELSE k
       IN  /\ \A i \in 0 .. (rounds - 1) : HasPd(i)
           /\ pool' = [p \in 0 .. 1 |-> Regions(IF p = 0 THEN k ELSE n)]
  /\ main' = "cqs"
  /\ UNCHANGED <<flags, pds, cqs, ep, cur, thread, pick, raced, fault>>

(* More regions than protection domains. *)
NoPdForRegion ==
  /\ main = "regions"
  /\ \E i \in 0 .. (flags.mrs - 1) : ~ HasPd(i)
  /\ main' = "crashed"
  /\ fault' = "range"
  /\ UNCHANGED <<flags, pds, cqs, ep, pickVars>>

NumCqs == IF flags.shareCq THEN 1 ELSE NumQps(flags)

CreateCqs ==
  /\ main = "cqs"
  /\ \E k \in 0 .. NumCqs :
       /\ cqs' = k
       /\ main' = IF k = NumCqs THEN "transport" ELSE "failed"
  /\ UNCHANGED <<flags, pds, ep, pickVars, fault>>

\* Faulty: the loop ends with the failure, as that over the regions.
AfterQpsAnyway(k) == "ready"

AfterQps(k) == IF k = NumQps(flags) THEN "ready" ELSE "failed"

(* InitTransport.  ibv_create_qp fails for the k-th endpoint: the one      *)
(* before is deleted and stays in endpoints_.                              *)
InitTransport ==
  /\ main = "transport"
  /\ \E k \in 0 .. NumQps(flags) :
       /\ \A e \in DOMAIN ep : e <= k => HasPd(e)
       /\ ep' = [e \in DOMAIN ep |->
                   IF e >= k THEN "null"
                   ELSE IF e = k - 1 /\ k < NumQps(flags) THEN "deleted"
                   ELSE "live"]
       /\ main' = AfterQps(k)
  /\ UNCHANGED <<flags, pds, cqs, pickVars, fault>>

(* More hosts than protection domains. *)
NoPdForQp ==
  /\ main = "transport"
  /\ \E e \in DOMAIN ep : ~ HasPd(e)
  /\ main' = "crashed"
  /\ fault' = "range"
  /\ UNCHANGED <<flags, pds, cqs, ep, pickVars>>

InitStep ==
  \/ InitDevice \/ AllocPds
  \/ CollieRegions \/ HuskyRegions \/ NoPdForRegion
  \/ CreateCqs \/ InitTransport \/ NoPdForQp

-----------------------------------------------------------------------------
(* The threads.  thread[t].left is how many picks t has still to make      *)
(* before it looks at its program again.                                   *)

Pending(t) == thread[t].left > 0

(* A connection is accepted, or the datapath starts.  A client connects    *)
(* first.                                                                  *)
Start(t) ==
  /\ main = "ready"
  /\ thread[t].at = "off"
  /\ flags.server \/ t = Datapath
  /\ thread' = [thread EXCEPT ![t] =
       IF flags.server THEN [Off EXCEPT !.at = "parse"]
       ELSE [Off EXCEPT !.at = "announce", !.left = flags.bufs]]
  /\ UNCHANGED <<setupVars, pool, cur, pick, raced, fault>>

(* What is left of the text after n requests begins with a request.        *)
(* ParseRecvFromStr expects a number where the comma is that separates the *)
(* first from the second; ParseReqFromStr skips it.                        *)
Readable(n) == n < Len(flags.pattern) /\ (flags.server => n = 0)

(* ParseRecvFromStr and ParseReqFromStr: one more request, a buffer for    *)
(* each of its elements.                                                   *)
ParseOne(t) ==
  LET n == Len(thread[t].reqs)
  IN  /\ thread[t].at = "parse"
      /\ ~ Pending(t)
      /\ Readable(n)
      /\ thread' = [thread EXCEPT
           ![t].reqs = Append(@, flags.pattern[n + 1]),
           ![t].left = flags.pattern[n + 1]]
      /\ UNCHANGED <<setupVars, pool, cur, pick, raced, fault>>

(* A handler goes on to announce a buffer for each of --buf_num. *)
ParseDone(t) ==
  /\ thread[t].at = "parse"
  /\ ~ Pending(t)
  /\ ~ Readable(Len(thread[t].reqs))
  /\ thread' = IF t = Datapath THEN [thread EXCEPT ![t].at = "post"]
               ELSE [thread EXCEPT ![t].at = "announce", ![t].left = flags.bufs]
  /\ UNCHANGED <<setupVars, pool, cur, pick, raced, fault>>

(* Husky's handler picks again for the first batch. *)
FirstBatch(t) ==
  /\ flags.husky
  /\ t \in Handlers
  /\ thread[t].at = "announce"
  /\ ~ Pending(t)
  /\ thread' = [thread EXCEPT ![t].at = "post"]
  /\ UNCHANGED <<setupVars, pool, cur, pick, raced, fault>>

(* AcceptHandler returns, done or not. *)
HandlerReturns(t) ==
  /\ t \in Handlers
  /\ thread[t].at \in {"announce", "post"}
  /\ pick[t].at = "no"
  /\ thread' = [thread EXCEPT ![t] = Off]
  /\ UNCHANGED <<setupVars, pool, cur, pick, raced, fault>>

(* Connect returns, done or not.  It is called for the next host, or the   *)
(* datapath follows; Husky's client stops after a failure.                 *)
ConnectReturns ==
  LET t == Datapath
  IN  /\ thread[t].at = "announce"
      /\ pick[t].at = "no"
      /\ IF flags.husky /\ Pending(t)
         THEN thread' = [thread EXCEPT ![t] = [Off EXCEPT !.at = "stop"]]
         ELSE \/ thread' = [thread EXCEPT ![t].left = flags.bufs]
              \/ thread' = [thread EXCEPT ![t].left = 0, ![t].at = "parse"]
      /\ UNCHANGED <<setupVars, pool, cur, pick, raced, fault>>

(* ServerDatapath and ClientDatapath: new buffers for the elements of the  *)
(* requests, for ever.                                                     *)
Post(t) ==
  /\ thread[t].at = "post"
  /\ ~ Pending(t)
  /\ \E n \in DOMAIN thread[t].reqs : thread[t].reqs[n] > 0
  /\ thread' = [thread EXCEPT ![t].left = 1]
  /\ UNCHANGED <<setupVars, pool, cur, pick, raced, fault>>

-----------------------------------------------------------------------------
(* PickNextBuffer, and within it GetBuffer of the region. *)

(* The receive pool for all but the requests of a client. *)
PoolOf(t) == IF flags.server \/ thread[t].at = "announce" THEN 1 ELSE 0

(* A null result: AcceptHandler and Connect look at it, the others use it. *)
Nothing(t) ==
  IF thread[t].at # "announce"
  THEN /\ fault' = "null"
       /\ UNCHANGED thread
  ELSE /\ thread' = [thread EXCEPT ![t] =
            IF flags.server THEN Off
            ELSE IF flags.husky THEN [Off EXCEPT !.at = "stop"]
            ELSE [Off EXCEPT !.at = "parse"]]
       /\ UNCHANGED fault

PickNone(t) ==
  /\ pick[t].at = "no"
  /\ Pending(t)
  /\ pool[PoolOf(t)] = << >>
  /\ Nothing(t)
  /\ UNCHANGED <<setupVars, pool, cur, pick, raced>>

(* The index is read, and the region's address with it. *)
PickIndex(t) ==
  /\ pick[t].at = "no"
  /\ Pending(t)
  /\ pool[PoolOf(t)] # << >>
  /\ raced' = (raced \/ \E u \in Threads : pick[u].at # "no")
  /\ IF cur < Len(pool[PoolOf(t)])
     THEN /\ pick' = [pick EXCEPT ![t] = [Idle EXCEPT !.at = "front", !.id = cur]]
          /\ UNCHANGED fault
     ELSE /\ fault' = "range"
          /\ UNCHANGED pick
  /\ UNCHANGED <<setupVars, pool, cur, thread>>

RegionOf(t) == pool[PoolOf(t)][pick[t].id + 1]

(* GetBuffer of a region without buffers; its index is counted all the     *)
(* same.                                                                   *)
FrontOfNone(t) ==
  /\ pick[t].at = "front"
  /\ RegionOf(t).queue = << >>
  /\ pick' = [pick EXCEPT ![t].at = "load"]
  /\ UNCHANGED <<setupVars, pool, cur, thread, raced, fault>>

(* Collie: front(), pop() and push(). *)
Front(t) ==
  /\ pick[t].at = "front"
  /\ ~ flags.husky
  /\ RegionOf(t).queue # << >>
  /\ pick' = [pick EXCEPT ![t].at = "pop", ![t].buf = Head(RegionOf(t).queue)]
  /\ UNCHANGED <<setupVars, pool, cur, thread, raced, fault>>

SetRegion(t, r) == pool' = [pool EXCEPT ![PoolOf(t)][pick[t].id + 1] = r]

Pop(t) ==
  LET r == RegionOf(t)
  IN  /\ pick[t].at = "pop"
      /\ IF r.queue = << >>
         THEN /\ fault' = "range"
              /\ UNCHANGED <<pool, pick>>
         ELSE /\ SetRegion(t, [r EXCEPT !.queue = Tail(@)])
              /\ pick' = [pick EXCEPT ![t].at = "push"]
              /\ UNCHANGED fault
      /\ UNCHANGED <<setupVars, cur, thread, raced>>

\* Faulty: the buffer is not put back.
PushNothing(t) == UNCHANGED pool

PushBack(t) ==
  SetRegion(t, [RegionOf(t) EXCEPT !.queue = Append(@, pick[t].buf)])

Push(t) ==
  /\ pick[t].at = "push"
  /\ PushBack(t)
  /\ pick' = [pick EXCEPT ![t].at = "load"]
  /\ UNCHANGED <<setupVars, cur, thread, raced, fault>>

(* Husky: buffers_[ret_idx_++] of a vector, and back to its head. *)
Take(t) ==
  LET r == RegionOf(t)
  IN  /\ pick[t].at = "front"
      /\ flags.husky
      /\ r.queue # << >>
      /\ IF r.ret < Len(r.queue)
         THEN /\ SetRegion(t, [r EXCEPT !.ret = @ + 1])
              /\ pick' = [pick EXCEPT ![t].at = "turn",
                                      ![t].buf = r.queue[r.ret + 1]]
              /\ UNCHANGED fault
         ELSE /\ fault' = "range"
              /\ UNCHANGED <<pool, pick>>
      /\ UNCHANGED <<setupVars, cur, thread, raced>>

Turn(t) ==
  LET r == RegionOf(t)
  IN  /\ pick[t].at = "turn"
      /\ SetRegion(t, [r EXCEPT !.ret = IF @ = Len(r.queue) THEN 0 ELSE @])
      /\ pick' = [pick EXCEPT ![t].at = "load"]
      /\ UNCHANGED <<setupVars, cur, thread, raced, fault>>

(* current_buf_id_++ is a load and a store. *)
Load(t) ==
  /\ pick[t].at = "load"
  /\ pick' = [pick EXCEPT ![t].at = "store", ![t].id = cur + 1]
  /\ UNCHANGED <<setupVars, pool, cur, thread, raced, fault>>

Store(t) ==
  /\ pick[t].at = "store"
  /\ cur' = pick[t].id
  /\ pick' = [pick EXCEPT ![t].at = "wrap"]
  /\ UNCHANGED <<setupVars, pool, thread, raced, fault>>

(* What is compared with the size: the index as it was stored, or read     *)
(* again.                                                                  *)
Compared(t) == {pick[t].id, cur}

\* Faulty: the length is taken off whatever the index.
WrapBack(t) == {cur - Len(pool[PoolOf(t)])}

\* Faulty: the index wraps with the pool of the other direction.
WrapOther(t) ==
  {IF seen = Len(pool[1 - PoolOf(t)]) THEN 0 ELSE cur : seen \in Compared(t)}

Wrapped(t) ==
  {IF seen = Len(pool[PoolOf(t)]) THEN 0 ELSE cur : seen \in Compared(t)}

(* The index goes back to the first region, and the buffer to the caller. *)
Wrap(t) ==
  /\ pick[t].at = "wrap"
  /\ cur' \in Wrapped(t)
  /\ pick' = [pick EXCEPT ![t] = Idle]
  /\ IF pick[t].buf = NoBuffer THEN Nothing(t)
     ELSE /\ thread' = [thread EXCEPT ![t].left = @ - 1]
          /\ UNCHANGED fault
  /\ UNCHANGED <<setupVars, pool, raced>>

PickStep(t) ==
  \/ PickNone(t) \/ PickIndex(t)
  \/ FrontOfNone(t) \/ Front(t) \/ Pop(t) \/ Push(t) \/ Take(t) \/ Turn(t)
  \/ Load(t) \/ Store(t) \/ Wrap(t)

ThreadStep(t) ==
  \/ Start(t) \/ ParseOne(t) \/ ParseDone(t) \/ Post(t)
  \/ FirstBatch(t) \/ HandlerReturns(t)
  \/ PickStep(t)

Next ==
  /\ fault = "none"
  /\ InitStep \/ ConnectReturns \/ \E t \in Threads : ThreadStep(t)

Spec == Init /\ [][Next]_vars

-----------------------------------------------------------------------------
(* The type of every variable. *)
TypeOK ==
  /\ flags \in Settings
  /\ main \in {"device", "pds", "regions", "cqs", "transport", "ready",
               "failed", "crashed"}
  /\ pds \in Nat /\ cqs \in Nat
  /\ ep \in [0 .. (NumQps(flags) - 1) -> {"null", "live", "deleted"}]
  /\ pool \in [0 .. 1 -> Seq([queue : Seq(Nat), ret : Nat])]
  /\ cur \in Nat
  /\ thread \in [Threads ->
       [at : {"off", "parse", "announce", "post", "stop"},
        reqs : Seq(Nat), left : Nat]]
  /\ pick \in [Threads ->
       [at : {"no", "front", "pop", "push", "turn", "load", "store", "wrap"},
        id : Nat, buf : {NoBuffer} \cup Nat]]
  /\ raced \in BOOLEAN
  /\ fault \in {"none", "range", "null"}

-----------------------------------------------------------------------------
(* Safety. *)

(* Init succeeds only with every endpoint and its queues in place, and if  *)
(* --cq_depth holds the receives of all endpoints, each completion queue   *)
(* holds those of the endpoints that share it.                             *)
ReadyComplete ==
  main = "ready" =>
    /\ \A e \in DOMAIN ep :
         ep[e] = "live" /\ (IF flags.shareCq THEN 0 ELSE e) < cqs
    /\ flags.cqDepth >= NumQps(flags) * flags.recvDepth =>
         flags.cqDepth \div cqs
           >= (IF flags.shareCq THEN NumQps(flags) ELSE 1) * flags.recvDepth

(* Protection domains of their own need --mr_num within --qp_num and one   *)
(* host.                                                                   *)
TooFewPds == ~ flags.sharePd /\ (flags.mrs > flags.qps \/ flags.hosts > 1)

(* A pool or its regions are empty: Mallocate failed, or nothing was asked *)
(* for.                                                                    *)
NoBuffers == flags.bufs = 0 \/ \E p \in 0 .. 1 : pool[p] = << >>

(* Only two things lead an index out of its vector: flags without          *)
(* --share_pd that ask for more than there are, and picks that overlap.    *)
(* The pools may differ in length after a failed allocation, and still the *)
(* index they share is right for both.  Without overlap a null pointer     *)
(* comes from an empty pool only.                                          *)
FaultsExplained ==
  /\ fault = "range" => raced \/ TooFewPds
  /\ fault = "null" => raced \/ NoBuffers

InTurn(q) ==
  \A n \in 1 .. (Len(q) - 1) : q[n + 1] = (q[n] + 1) % flags.bufs

(* As long as picks do not overlap, a region keeps its buffers and hands   *)
(* them out in turn: "Pick a buffer in the order of FIFO".                 *)
BuffersInTurn ==
  raced \/ \A p \in 0 .. 1 : \A i \in DOMAIN pool[p] :
    LET q == pool[p][i].queue
    IN  \/ Len(q) = flags.bufs /\ InTurn(q)
        \/ \E t \in Threads :
             /\ pick[t].at = "push"
             /\ p = PoolOf(t) /\ i = pick[t].id + 1
             /\ Len(q) = flags.bufs - 1
             /\ InTurn(Append(q, pick[t].buf))

(* The traffic engine's README says of --receive=1_65536,2_4096_4096: "one *)
(* receive request (WQE) has one scatter-gather element (SGE) ...; then,   *)
(* one WQE has two SGE".  A server posts what it was asked to.             *)
ReceivesAsAsked ==
  \A t \in Threads : thread[t].at = "post" => thread[t].reqs = flags.pattern

=============================================================================
