------------------------------ MODULE Datapath ------------------------------
(***************************************************************************)
(* The datapath threads of a client and of a server of the traffic engines *)
(* and the credits they keep for every endpoint.  ClientDatapath posts     *)
(* batches of send requests while an endpoint has credits and takes the    *)
(* credits back when the batch's only signaled request completes.          *)
(* ServerDatapath posts receives for the credits it has and gets a credit  *)
(* back for every message received.                                        *)
(*                                                                         *)
(* Endpoint e of the client is connected to endpoint e of the server, as   *)
(* Handshake leaves them: the whole receive queue is posted.  The network  *)
(* cards and the verbs library are outside the program: they take requests *)
(* in order, a post may fail after the library took a prefix of the list,  *)
(* and a connection may break, if Faults says so.                          *)
(***************************************************************************)
EXTENDS Integers, Sequences

CONSTANTS
  N,              \* endpoints of either context
  Active,         \* the connected ones
  SendDepth,      \* --send_wq_depth
  RecvDepth,      \* --recv_wq_depth
  SendBatch,      \* --send_batch
  RecvBatch,      \* --recv_batch
  ShareCq,        \* --share_cq
  TwoSided,       \* requests are SENDs: each consumes a posted receive
  Reliable,       \* RC: a SEND waits for a receive; else it may be lost
  RunInfinitely,  \* --run_infinitely
  Iters,          \* --iters
  Husky,          \* TRUE: Husky's engine, FALSE: Collie's
  Faults          \* TRUE: posts and connections may fail

Eps == 0 .. (N - 1)
Cqs == IF ShareCq THEN {0} ELSE Eps
CqOf(e) == IF ShareCq THEN 0 ELSE e
LastCq == IF ShareCq THEN 0 ELSE N - 1

ASSUME DatapathAssumption ==
  /\ N \in Nat \ {0}
  /\ Active \subseteq Eps
  /\ SendDepth \in Nat \ {0}
  /\ RecvDepth \in Nat \ {0}
  /\ SendBatch \in Nat \ {0}
  /\ RecvBatch \in Nat \ {0}
  /\ Iters \in Nat
  /\ ShareCq \in BOOLEAN /\ TwoSided \in BOOLEAN /\ Reliable \in BOOLEAN
  /\ RunInfinitely \in BOOLEAN /\ Husky \in BOOLEAN /\ Faults \in BOOLEAN

VARIABLES
  client,         \* where ClientDatapath is, and iterations_left
  sendCredits,    \* sendCredits[e]: send_credits_ of client endpoint e
  sendBatchSize,  \* sendBatchSize[e]: its queue send_batch_size_
  ring,           \* ring[e]: the batches in its send queue, oldest first
  open,           \* open[e]: requests there that follow the last signaled
  used,           \* used[e]: slots of its send queue in use
  cBroken,        \* cBroken[e]: its queue pair is in the error state
  server,         \* where ServerDatapath is
  recvCredits,    \* recvCredits[e]: recv_credits_ of server endpoint e
  rq,             \* rq[e]: receives posted and not used
  rcqe,           \* rcqe[e]: completed receives that were not polled
  sBroken,        \* sBroken[e]: its queue pair is in the error state
  sent,           \* sent[e]: batches posted, counted up to Iters
  completed       \* requests the client saw completed, counted up to Iters

senderVars == <<sendCredits, sendBatchSize, ring, open, used>>
receiverVars == <<recvCredits, rq, rcqe>>
brokenVars == <<cBroken, sBroken>>
countVars == <<sent, completed>>
vars == <<client, senderVars, server, receiverVars, brokenVars, countVars>>

(* A batch in the send queue: the slots it takes until its completion is   *)
(* polled, and the requests of it the card has still to carry out.         *)
Batch == [slots : Nat, todo : Nat]
Nothing == [slots |-> 0, todo |-> 0]

Init ==
  /\ client = [at |-> "turn", i |-> 0, left |-> Iters, got |-> FALSE]
  /\ sendCredits = [e \in Eps |-> SendDepth]
  /\ sendBatchSize = [e \in Eps |-> << >>]
  /\ ring = [e \in Eps |-> << >>]
  /\ open = [e \in Eps |-> Nothing]
  /\ used = [e \in Eps |-> 0]
  /\ cBroken = [e \in Eps |-> FALSE]
  /\ server = [at |-> "post", i |-> 0]
  /\ recvCredits = [e \in Eps |-> 0]
  /\ rq = [e \in Eps |-> RecvDepth]
  /\ rcqe = [e \in Eps |-> 0]
  /\ sBroken = [e \in Eps |-> FALSE]
  /\ sent = [e \in Eps |-> 0]
  /\ completed = 0

UpTo(n, most) == IF n < most THEN n ELSE most

-----------------------------------------------------------------------------
(* The client: rdma_context::ClientDatapath. *)

TurnsLeft == RunInfinitely \/ client.left > 0

(* One turn of the loop starts.  Collie counts turns. *)
ClientTurn ==
  /\ client.at = "turn"
  /\ IF TurnsLeft
     THEN client' = [client EXCEPT !.at = "post", !.i = 0,
            !.left = IF Husky \/ RunInfinitely THEN @ ELSE @ - 1]
     ELSE client' = [client EXCEPT !.at = "done"]
  /\ UNCHANGED <<senderVars, server, receiverVars, brokenVars, countVars>>

(* On to the next endpoint, or to the completion queues after the last. *)
NextEndpoint ==
  IF client.i + 1 < N
  THEN client' = [client EXCEPT !.i = @ + 1]
  ELSE client' = [client EXCEPT !.at = "poll", !.i = 0, !.got = FALSE]

MayPost(e) == e \in Active /\ SendBatch <= sendCredits[e]

ClientSkip ==
  /\ client.at = "post"
  /\ ~ MayPost(client.i)
  /\ NextEndpoint
  /\ UNCHANGED <<senderVars, server, receiverVars, brokenVars, countVars>>

\* Faulty: every request of the batch is signaled.
AcceptedAllSignaled(e) ==
  [n \in 1 .. SendBatch |-> [slots |-> 1, todo |-> 1]]

(* What ibv_post_send makes of the batch: its last request is signaled. *)
Accepted(e) ==
  <<[slots |-> open[e].slots + SendBatch, todo |-> open[e].todo + SendBatch]>>

\* Faulty: a credit for a batch.
ChargeOne(e) == sendCredits' = [sendCredits EXCEPT ![e] = @ - 1]

Charge(e) == sendCredits' = [sendCredits EXCEPT ![e] = @ - SendBatch]

(* PostSend: the library takes the whole list. *)
ClientPost ==
  LET e == client.i
  IN  /\ client.at = "post"
      /\ MayPost(e)
      /\ used[e] + SendBatch <= SendDepth
      /\ Charge(e)
      /\ sendBatchSize' = [sendBatchSize EXCEPT ![e] = Append(@, SendBatch)]
      /\ ring' = [ring EXCEPT ![e] = @ \o Accepted(e)]
      /\ open' = [open EXCEPT ![e] = Nothing]
      /\ used' = [used EXCEPT ![e] = @ + SendBatch]
      /\ sent' = [sent EXCEPT ![e] = UpTo(@ + 1, Iters)]
      /\ NextEndpoint
      /\ UNCHANGED <<server, receiverVars, brokenVars, completed>>

\* Faulty: the credits are taken whatever the library says.
FailedPostChargesAll(e) == sendCredits' = [sendCredits EXCEPT ![e] = @ - SendBatch]

(* A failed post leaves the credits as they are. *)
FailedPost(e) == UNCHANGED sendCredits

(* PostSend: ibv_post_send fails, for want of room or for another reason,  *)
(* after it has taken n requests, none of them signaled.  Nobody looks at  *)
(* the result.                                                             *)
ClientPostFails ==
  LET e == client.i
  IN  /\ client.at = "post"
      /\ MayPost(e)
      /\ Faults \/ used[e] + SendBatch > SendDepth
      /\ \E n \in 0 .. (SendBatch - 1) :
           /\ used[e] + n <= SendDepth
           /\ open' = [open EXCEPT ![e] = [slots |-> @.slots + n,
                                          todo |-> @.todo + n]]
           /\ used' = [used EXCEPT ![e] = @ + n]
      /\ FailedPost(e)
      /\ NextEndpoint
      /\ UNCHANGED <<sendBatchSize, ring, server, receiverVars, brokenVars,
                     countVars>>

(* SendHandler: the credits of the oldest batch come back.  front() of an  *)
(* empty queue would be undefined; SendersMatch says it never is.          *)
SendHandler(e) ==
  /\ sendCredits' = [sendCredits EXCEPT ![e] = @ + Head(sendBatchSize[e])]
  /\ sendBatchSize' = [sendBatchSize EXCEPT ![e] = Tail(@)]

SendDone(e) == ring[e] # << >> /\ Head(ring[e]).todo = 0

(* PollEach: a good completion. *)
ClientPoll ==
  /\ client.at = "poll"
  /\ \E e \in Eps :
       /\ CqOf(e) = client.i
       /\ SendDone(e)
       /\ SendHandler(e)
       /\ used' = [used EXCEPT ![e] = @ - Head(ring[e]).slots]
       /\ ring' = [ring EXCEPT ![e] = Tail(@)]
       /\ completed' = UpTo(completed + SendBatch, Iters)
  /\ client' = [client EXCEPT !.got = TRUE]
  /\ UNCHANGED <<open, server, receiverVars, brokenVars, sent>>

\* Faulty: every poll counts.
EveryPoll == Husky /\ ~ RunInfinitely

\* Faulty: no poll counts.
NoPoll == FALSE

(* Husky counts the polls that found something. *)
Counted == Husky /\ client.got /\ ~ RunInfinitely

(* PollEach: the queue is empty. *)
ClientPolled ==
  /\ client.at = "poll"
  /\ \A e \in Eps : CqOf(e) = client.i => ~ SendDone(e)
  /\ LET left == IF Counted THEN client.left - 1 ELSE client.left
     IN  client' = IF client.i < LastCq
                   THEN [client EXCEPT !.i = @ + 1, !.left = left, !.got = FALSE]
                   ELSE [client EXCEPT !.at = "turn", !.i = 0, !.left = left,
                                       !.got = FALSE]
  /\ UNCHANGED <<senderVars, server, receiverVars, brokenVars, countVars>>

(* PollEach: a bad completion, exit(1).  A broken queue pair completes all *)
(* its requests with an error, the signaled and the others.                *)
ClientExit ==
  /\ client.at = "poll"
  /\ \E e \in Eps :
       /\ CqOf(e) = client.i
       /\ cBroken[e]
       /\ ~ SendDone(e)
       /\ ring[e] # << >> \/ open[e].todo > 0
  /\ client' = [client EXCEPT !.at = "exit"]
  /\ UNCHANGED <<senderVars, server, receiverVars, brokenVars, countVars>>

-----------------------------------------------------------------------------
(* The server: rdma_context::ServerDatapath. *)

NextReceiver ==
  IF server.i + 1 < N
  THEN server' = [server EXCEPT !.i = @ + 1]
  ELSE server' = [at |-> "poll", i |-> 0]

Replenishable(e) == e \in Active /\ recvCredits[e] > 0

ServerSkip ==
  /\ server.at = "post"
  /\ ~ Replenishable(server.i)
  /\ NextReceiver
  /\ UNCHANGED <<client, senderVars, receiverVars, brokenVars, countVars>>

(* PostRecv of as many receives as there are credits, at most a batch. *)
ServerPost ==
  LET e == server.i
      n == UpTo(recvCredits[e], RecvBatch)
  IN  /\ server.at = "post"
      /\ Replenishable(e)
      /\ rq[e] + rcqe[e] + n <= RecvDepth
      /\ recvCredits' = [recvCredits EXCEPT ![e] = @ - n]
      /\ rq' = [rq EXCEPT ![e] = @ + n]
      /\ UNCHANGED <<client, senderVars, server, rcqe, brokenVars, countVars>>

(* PostRecv fails after the library took k receives: credits stay, and the *)
(* loop turns to the next endpoint.                                        *)
ServerPostFails ==
  LET e == server.i
      n == UpTo(recvCredits[e], RecvBatch)
  IN  /\ server.at = "post"
      /\ Replenishable(e)
      /\ Faults \/ rq[e] + rcqe[e] + n > RecvDepth
      /\ \E k \in 0 .. (n - 1) :
           /\ rq[e] + rcqe[e] + k <= RecvDepth
           /\ rq' = [rq EXCEPT ![e] = @ + k]
      /\ NextReceiver
      /\ UNCHANGED <<client, senderVars, recvCredits, rcqe, brokenVars,
                     countVars>>

\* Faulty: a batch of credits for one message.
RecvHandlerBatch(e) ==
  recvCredits' = [recvCredits EXCEPT ![e] = @ + RecvBatch]

\* Faulty: no credit comes back.
RecvHandlerForgets(e) == UNCHANGED recvCredits

RecvHandler(e) == recvCredits' = [recvCredits EXCEPT ![e] = @ + 1]

ServerPoll ==
  /\ server.at = "poll"
  /\ \E e \in Eps :
       /\ CqOf(e) = server.i
       /\ rcqe[e] > 0
       /\ RecvHandler(e)
       /\ rcqe' = [rcqe EXCEPT ![e] = @ - 1]
  /\ UNCHANGED <<client, senderVars, server, rq, brokenVars, countVars>>

ServerPolled ==
  /\ server.at = "poll"
  /\ \A e \in Eps : CqOf(e) = server.i => rcqe[e] = 0
  /\ server' = IF server.i < LastCq
               THEN [server EXCEPT !.i = @ + 1]
               ELSE [at |-> "post", i |-> 0]
  /\ UNCHANGED <<client, senderVars, receiverVars, brokenVars, countVars>>

(* A bad completion: Collie's server ends with exit(0), Husky's hangs. *)
ServerExit ==
  /\ server.at = "poll"
  /\ \E e \in Eps :
       CqOf(e) = server.i /\ sBroken[e] /\ rcqe[e] = 0 /\ rq[e] > 0
  /\ server' = [server EXCEPT !.at = "stopped"]
  /\ UNCHANGED <<client, senderVars, receiverVars, brokenVars, countVars>>

-----------------------------------------------------------------------------
(* The network cards. *)

(* A stopped server: Collie's process has ended, Husky's thread is stuck   *)
(* and its queue pairs live on.                                            *)
Reachable(e) == ~ sBroken[e] /\ (server.at = "stopped" => Husky)

(* The message finds a receive; if there is none it waits in RC and is     *)
(* lost otherwise.  One-sided requests need none.                          *)
Delivered(e) ==
  \/ /\ TwoSided /\ rq[e] > 0 /\ Reachable(e)
     /\ rq' = [rq EXCEPT ![e] = @ - 1]
     /\ rcqe' = [rcqe EXCEPT ![e] = @ + 1]
  \/ /\ ~ TwoSided \/ ~ Reliable
     /\ UNCHANGED <<rq, rcqe>>

(* The oldest request of e is carried out. *)
NicSend(e) ==
  /\ ~ cBroken[e]
  /\ \/ \E n \in DOMAIN ring[e] :
          /\ ring[e][n].todo > 0
          /\ \A k \in 1 .. (n - 1) : ring[e][k].todo = 0
          /\ ring' = [ring EXCEPT ![e][n].todo = @ - 1]
          /\ UNCHANGED open
     \/ /\ \A n \in DOMAIN ring[e] : ring[e][n].todo = 0
        /\ open[e].todo > 0
        /\ open' = [open EXCEPT ![e].todo = @ - 1]
        /\ UNCHANGED ring
  /\ Delivered(e)
  /\ UNCHANGED <<client, sendCredits, sendBatchSize, used, server,
                 recvCredits, brokenVars, countVars>>

(* Retries are exhausted, or a message does not fit its receive. *)
ClientBreaks(e) ==
  /\ Faults
  /\ e \in Active
  /\ cBroken' = [cBroken EXCEPT ![e] = TRUE]
  /\ UNCHANGED <<client, senderVars, server, receiverVars, sBroken, countVars>>

ServerBreaks(e) ==
  /\ Faults
  /\ e \in Active
  /\ sBroken' = [sBroken EXCEPT ![e] = TRUE]
  /\ UNCHANGED <<client, senderVars, server, receiverVars, cBroken, countVars>>

-----------------------------------------------------------------------------
ClientStep ==
  \/ ClientTurn
  \/ ClientSkip
  \/ ClientPost
  \/ ClientPostFails
  \/ ClientPoll
  \/ ClientPolled
  \/ ClientExit

ServerStep ==
  \/ ServerSkip
  \/ ServerPost
  \/ ServerPostFails
  \/ ServerPoll
  \/ ServerPolled
  \/ ServerExit

Next ==
  \/ ClientStep
  \/ ServerStep
  \/ \E e \in Eps : NicSend(e) \/ ClientBreaks(e) \/ ServerBreaks(e)

Spec == Init /\ [][Next]_vars

(* Both threads run in endless loops that never block, a card sends what   *)
(* it can, and reports the requests of a broken queue pair sometime.       *)
FairSpec ==
  /\ Spec
  /\ WF_vars(ClientStep)
  /\ WF_vars(ServerStep)
  /\ SF_vars(ClientExit)
  /\ \A e \in Eps : WF_vars(NicSend(e))

-----------------------------------------------------------------------------
(* Types.  Husky may count below zero in the last turn. *)

ClientType ==
  [at : {"turn", "post", "poll", "done", "exit"}, i : Eps,
   left : IF Husky THEN Int ELSE 0 .. Iters, got : BOOLEAN]
ServerType == [at : {"post", "poll", "stopped"}, i : Eps]

(* The type of every variable. *)
TypeOK ==
  /\ client \in ClientType
  /\ sendCredits \in [Eps -> 0 .. SendDepth]
  /\ sendBatchSize \in [Eps -> Seq({SendBatch})]
  /\ ring \in [Eps -> Seq(Batch)]
  /\ open \in [Eps -> Batch]
  /\ used \in [Eps -> 0 .. SendDepth]
  /\ cBroken \in [Eps -> BOOLEAN]
  /\ server \in ServerType
  /\ recvCredits \in [Eps -> Nat]
  /\ rq \in [Eps -> 0 .. RecvDepth]
  /\ rcqe \in [Eps -> 0 .. RecvDepth]
  /\ sBroken \in [Eps -> BOOLEAN]
  /\ sent \in [Eps -> 0 .. Iters]
  /\ completed \in 0 .. Iters

-----------------------------------------------------------------------------
(* Safety. *)

(* The queue of batch sizes mirrors the signaled requests at the card: a   *)
(* completion always finds the batch it belongs to in the queue, and what  *)
(* the batches took is exactly what the credits lack - also when posts     *)
(* fail half way and connections break.                                    *)
SendersMatch ==
  \A e \in Eps :
    /\ Len(sendBatchSize[e]) = Len(ring[e])
    /\ sendCredits[e] + SendBatch * Len(sendBatchSize[e]) = SendDepth

(* As long as no post fails for another reason, an endpoint with credits   *)
(* for a batch has room for it: no post ever fails for want of room.       *)
SendQueueFits ==
  Faults \/ \A e \in Active :
    SendBatch <= sendCredits[e] => used[e] + SendBatch <= SendDepth

(* Every receive is either a credit, posted, or completed and not polled,  *)
(* so the receive queue is never posted beyond its depth.                  *)
ReceiversMatch ==
  Faults \/ \A e \in Eps : recvCredits[e] + rq[e] + rcqe[e] = RecvDepth

(* Husky's client ends its loop only after that many requests completed,   *)
(* "Send at least iterations msgs.".                                       *)
AtLeastIters == Husky /\ client.at = "done" => completed = Iters

(* --iters, "Iterations one QP will send": when the client ends by itself, *)
(* every connected queue pair has posted that many batches.                *)
EachQpSendsIters ==
  client.at = "done" => \A e \in Active : sent[e] = Iters

-----------------------------------------------------------------------------
(* Liveness, under FairSpec. *)

(* A client that runs for ever keeps sending on each of its endpoints: no  *)
(* credit is lost on either side, no endpoint is starved by the others.    *)
NobodyStarves ==
  \A e \in Active : []<><<client.i = e /\ ClientPost>>_vars

(* A client with --iters ends, whatever connections break and when the     *)
(* server has gone too.  Husky's, which counts completions, may post for   *)
(* ever in vain: failed posts leave requests without a signaled one in the *)
(* queue, until none fits.                                                 *)
ClientEnds ==
  \/ <>(client.at \in {"done", "exit"})
  \/ Husky /\ []<><<ClientPostFails>>_vars

-----------------------------------------------------------------------------
(* The credits implement a window on either side. *)
Flow == INSTANCE Window WITH
  inflight <- [e \in Eps |-> SendBatch * Len(ring[e])],
  ready <- rq,
  filled <- [e \in Eps |-> rcqe[e] + recvCredits[e]]

(* Without faults the datapath implements Window. *)
ImplementsWindow == Flow!Spec

=============================================================================
