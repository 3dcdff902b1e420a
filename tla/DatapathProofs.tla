--------------------------- MODULE DatapathProofs ---------------------------
(***************************************************************************)
(* Proofs about Datapath, for any number of endpoints, any depths, batches *)
(* and iterations.                                                         *)
(***************************************************************************)
EXTENDS Datapath, TLAPS

(* What the proofs need of the types: where the threads are, and queues of *)
(* batches.                                                                *)
ClientPlace ==
  [at : {"turn", "post", "poll", "done", "exit"}, i : Eps, left : Int,
   got : BOOLEAN]

Shape ==
  /\ client \in ClientPlace
  /\ server \in ServerType
  /\ sendCredits \in [Eps -> Int]
  /\ sendBatchSize \in [Eps -> Seq({SendBatch})]
  /\ ring \in [Eps -> Seq(Batch)]
  /\ open \in [Eps -> Batch]
  /\ used \in [Eps -> Int]
  /\ recvCredits \in [Eps -> Int]
  /\ rq \in [Eps -> Nat]
  /\ rcqe \in [Eps -> Nat]

LEMMA Sizes ==
  /\ 0 \in Eps /\ LastCq \in Eps
  /\ SendBatch \in Nat /\ SendBatch > 0
  /\ RecvBatch \in Nat /\ RecvBatch > 0
  /\ SendDepth \in Nat /\ RecvDepth \in Nat
  BY DatapathAssumption DEF Eps, LastCq

LEMMA EpsNext ==
  ASSUME NEW i \in Eps
  PROVE  /\ i + 1 < N => i + 1 \in Eps
         /\ i < LastCq => i + 1 \in Eps
  BY DatapathAssumption DEF Eps, LastCq

(* Where a thread goes from its place. *)
LEMMA Places ==
  ASSUME Shape
  PROVE  /\ client.i \in Eps /\ server.i \in Eps
         /\ NextEndpoint => client' \in ClientPlace
         /\ NextReceiver => server' \in ServerType
  <1>1. client \in ClientPlace /\ server \in ServerType
    BY DEF Shape
  <1>2. client.i \in Eps /\ server.i \in Eps
    BY <1>1 DEF ClientPlace, ServerType
  <1>3. ASSUME NEW j \in Eps
        PROVE  /\ [client EXCEPT !.i = j] \in ClientPlace
               /\ [server EXCEPT !.i = j] \in ServerType
    BY <1>1 DEF ClientPlace, ServerType
  <1>4. /\ [client EXCEPT !.at = "poll", !.i = 0, !.got = FALSE] \in ClientPlace
        /\ [at |-> "poll", i |-> 0] \in ServerType
    BY <1>1, Sizes DEF ClientPlace, ServerType
  <1> QED BY <1>2, <1>3, <1>4, EpsNext DEF NextEndpoint, NextReceiver

LEMMA BatchTimes ==
  ASSUME NEW n \in Nat
  PROVE  /\ SendBatch * n \in Nat
         /\ SendBatch * (n + 1) = SendBatch * n + SendBatch
         /\ SendBatch * 0 = 0
         /\ n > 0 => SendBatch * n >= SendBatch
  BY DatapathAssumption

(* The senders' invariant: the types, and the two queues in step. *)
Senders == Shape /\ SendersMatch

LEMMA InitSenders == Init => Senders
  <1> SUFFICES ASSUME Init PROVE Senders
    OBVIOUS
  <1>1. client \in ClientPlace /\ server \in ServerType
    BY Sizes, DatapathAssumption DEF Init, ClientPlace, ServerType
  <1>2. Nothing \in Batch
    BY DEF Nothing, Batch
  <1>3. Shape
    BY <1>1, <1>2, Sizes DEF Init, Shape
  <1>4. SendersMatch
    BY BatchTimes, Sizes DEF Init, SendersMatch
  <1> QED BY <1>3, <1>4 DEF Senders

(* Updates of functions and of queues stay in type. *)
LEMMA Update ==
  ASSUME NEW S, NEW T, NEW f \in [S -> T], NEW x \in S, NEW v \in T
  PROVE  [f EXCEPT ![x] = v] \in [S -> T]
  OBVIOUS

LEMMA Enqueue ==
  ASSUME NEW S, NEW q \in Seq(S), NEW x \in S
  PROVE  /\ q \o <<x>> \in Seq(S) /\ Len(q \o <<x>>) = Len(q) + 1
         /\ Append(q, x) \in Seq(S) /\ Len(Append(q, x)) = Len(q) + 1
  <1>1. <<x>> \in Seq(S) /\ Len(<<x>>) = 1
    OBVIOUS
  <1> QED BY <1>1

LEMMA Dequeue ==
  ASSUME NEW S, NEW q \in Seq(S), Len(q) > 0
  PROVE  /\ Head(q) \in S /\ Tail(q) \in Seq(S)
         /\ Len(Tail(q)) = Len(q) - 1
  OBVIOUS

LEMMA Later ==
  ASSUME NEW S, NEW q \in Seq(S), Len(q) > 0, NEW k \in 1 .. (Len(q) - 1)
  PROVE  Tail(q)[k] = q[k + 1]
  OBVIOUS

(* The facts of Senders about one endpoint. *)
LEMMA SenderFacts ==
  ASSUME Senders, NEW d \in Eps
  PROVE  /\ open[d] \in Batch /\ ring[d] \in Seq(Batch)
         /\ sendBatchSize[d] \in Seq({SendBatch})
         /\ sendCredits[d] \in Int /\ used[d] \in Int
         /\ Len(ring[d]) \in Nat /\ Len(sendBatchSize[d]) = Len(ring[d])
         /\ sendCredits[d] + SendBatch * Len(ring[d]) = SendDepth
  <1>1. /\ sendCredits \in [Eps -> Int]
        /\ sendBatchSize \in [Eps -> Seq({SendBatch})]
        /\ ring \in [Eps -> Seq(Batch)]
        /\ open \in [Eps -> Batch]
        /\ used \in [Eps -> Int]
    BY DEF Senders, Shape
  <1>2. /\ Len(sendBatchSize[d]) = Len(ring[d])
        /\ sendCredits[d] + SendBatch * Len(sendBatchSize[d]) = SendDepth
    BY DEF Senders, SendersMatch
  <1>3. ring[d] \in Seq(Batch)
    BY <1>1
  <1>4. Len(ring[d]) \in Nat
    BY <1>3
  <1> QED BY <1>1, <1>2, <1>3, <1>4

(* A batch that joins the queue, or a part of one, or one that leaves it. *)
LEMMA BatchJoins ==
  ASSUME NEW b \in Batch, NEW n \in Nat
  PROVE  [slots |-> b.slots + n, todo |-> b.todo + n] \in Batch
  <1>1. b.slots \in Nat /\ b.todo \in Nat
    BY DEF Batch
  <1>2. b.slots + n \in Nat /\ b.todo + n \in Nat
    BY <1>1
  <1> QED BY <1>2 DEF Batch

LEMMA BatchSends ==
  ASSUME NEW b \in Batch, b.todo > 0
  PROVE  /\ [b EXCEPT !.todo = @ - 1] \in Batch
         /\ [b EXCEPT !.todo = @ - 1].slots = b.slots
  <1>1. b.todo - 1 \in Nat
    BY DEF Batch
  <1> QED BY <1>1 DEF Batch

(* How Senders moves to the next state: nothing of it changes, *)
LEMMA SendersStay ==
  ASSUME Senders, client' \in ClientPlace, server' \in ServerType,
         open' \in [Eps -> Batch], used' \in [Eps -> Int],
         recvCredits' \in [Eps -> Int], rq' \in [Eps -> Nat],
         rcqe' \in [Eps -> Nat],
         UNCHANGED <<sendCredits, sendBatchSize>>,
         ring' \in [Eps -> Seq(Batch)],
         \A d \in Eps : Len(ring'[d]) = Len(ring[d])
  PROVE  Senders'
  <1>1. /\ sendCredits \in [Eps -> Int]
        /\ sendBatchSize \in [Eps -> Seq({SendBatch})]
    BY DEF Senders, Shape
  <1>2. Shape'
    BY <1>1 DEF Shape
  <1>3. SendersMatch'
    BY DEF Senders, SendersMatch
  <1> QED BY <1>2, <1>3 DEF Senders

(* or the queues of one endpoint grow or shrink in step with its credits. *)
LEMMA SendersMove ==
  ASSUME Senders, client' \in ClientPlace, NEW e \in Eps,
         open' \in [Eps -> Batch], used' \in [Eps -> Int],
         UNCHANGED <<server, receiverVars>>,
         NEW r \in Seq(Batch), NEW q \in Seq({SendBatch}), NEW c \in Int,
         Len(q) = Len(r), c + SendBatch * Len(r) = SendDepth,
         ring' = [ring EXCEPT ![e] = r],
         sendBatchSize' = [sendBatchSize EXCEPT ![e] = q],
         sendCredits' = [sendCredits EXCEPT ![e] = c]
  PROVE  Senders'
  <1>1. /\ sendCredits \in [Eps -> Int]
        /\ sendBatchSize \in [Eps -> Seq({SendBatch})]
        /\ ring \in [Eps -> Seq(Batch)]
        /\ server \in ServerType /\ recvCredits \in [Eps -> Int]
        /\ rq \in [Eps -> Nat] /\ rcqe \in [Eps -> Nat]
    BY DEF Senders, Shape
  <1>2. ring' \in [Eps -> Seq(Batch)]
    BY <1>1, Update
  <1>3. sendBatchSize' \in [Eps -> Seq({SendBatch})]
    BY <1>1, Update
  <1>4. sendCredits' \in [Eps -> Int]
    BY <1>1, Update
  <1>5. Shape'
    BY <1>1, <1>2, <1>3, <1>4 DEF Shape, receiverVars
  <1>6. ASSUME NEW d \in Eps
        PROVE  /\ Len(sendBatchSize'[d]) = Len(ring'[d])
               /\ sendCredits'[d] + SendBatch * Len(sendBatchSize'[d])
                    = SendDepth
    <2>1. CASE d = e
      <3>1. ring'[d] = r /\ sendBatchSize'[d] = q /\ sendCredits'[d] = c
        BY <1>1, <2>1
      <3> QED BY <3>1
    <2>2. CASE d # e
      <3>1. /\ ring'[d] = ring[d] /\ sendBatchSize'[d] = sendBatchSize[d]
            /\ sendCredits'[d] = sendCredits[d]
        BY <1>1, <2>2
      <3> QED BY <3>1 DEF Senders, SendersMatch
    <2> QED BY <2>1, <2>2
  <1> QED BY <1>5, <1>6 DEF Senders, SendersMatch

(* Steps of the client. *)
LEMMA ClientMoves ==
  ASSUME Senders, ClientTurn \/ ClientSkip \/ ClientPolled \/ ClientExit
  PROVE  client' \in ClientPlace
  <1>1. client \in ClientPlace /\ client.i \in Eps /\ client.left \in Int
    BY DEF Senders, Shape, ClientPlace
  <1>2. CASE ClientTurn
    <2>1. \A l \in Int :
            [client EXCEPT !.at = "post", !.i = 0, !.left = l] \in ClientPlace
      BY <1>1, Sizes DEF ClientPlace
    <2>2. [client EXCEPT !.at = "done"] \in ClientPlace
      BY <1>1 DEF ClientPlace
    <2>3. client.left - 1 \in Int
      BY <1>1
    <2>4. \/ client' = [client EXCEPT !.at = "done"]
          \/ client' = [client EXCEPT !.at = "post", !.i = 0,
                                      !.left = client.left]
          \/ client' = [client EXCEPT !.at = "post", !.i = 0,
                                      !.left = client.left - 1]
      BY <1>2 DEF ClientTurn
    <2> QED BY <1>1, <2>1, <2>2, <2>3, <2>4
  <1>3. CASE ClientSkip
    BY <1>3, Places DEF ClientSkip, Senders
  <1>4. CASE ClientPolled
    <2>1. PICK l \in Int :
            client' = IF client.i < LastCq
                      THEN [client EXCEPT !.i = @ + 1, !.left = l,
                                          !.got = FALSE]
                      ELSE [client EXCEPT !.at = "turn", !.i = 0, !.left = l,
                                          !.got = FALSE]
      <3> DEFINE l == IF Counted
                      THEN client.left - 1 ELSE client.left
      <3>1. l \in Int
        BY <1>1
      <3> QED BY <1>4, <3>1 DEF ClientPolled, Counted
    <2>2. client.i < LastCq => client.i + 1 \in Eps
      BY <1>1, EpsNext
    <2> QED BY <1>1, <2>1, <2>2, Sizes DEF ClientPlace
  <1>5. CASE ClientExit
    BY <1>1, <1>5 DEF ClientExit, ClientPlace
  <1> QED BY <1>2, <1>3, <1>4, <1>5

LEMMA ClientSenders ==
  ASSUME Senders, ClientStep
  PROVE  Senders'
  <1>1. /\ client \in ClientPlace /\ server \in ServerType
        /\ open \in [Eps -> Batch] /\ used \in [Eps -> Int]
        /\ ring \in [Eps -> Seq(Batch)] /\ recvCredits \in [Eps -> Int]
        /\ rq \in [Eps -> Nat] /\ rcqe \in [Eps -> Nat]
    BY DEF Senders, Shape
  <1>2. NextEndpoint => client' \in ClientPlace
    BY Places DEF Senders
  <1>3. client.i \in Eps
    BY <1>1 DEF ClientPlace
  <1>4. CASE ClientTurn \/ ClientSkip \/ ClientPolled \/ ClientExit
    <2>1. client' \in ClientPlace
      BY <1>4, ClientMoves
    <2>2. UNCHANGED <<senderVars, server, receiverVars>>
      BY <1>4 DEF ClientTurn, ClientSkip, ClientPolled, ClientExit
    <2> QED BY <1>1, <2>1, <2>2, SendersStay DEF senderVars, receiverVars
  <1>5. CASE ClientPost
    <2>1. PICK e \in Eps : e = client.i
      BY <1>3
    <2>2. /\ ring' = [ring EXCEPT ![e] = ring[e] \o Accepted(e)]
          /\ sendBatchSize' = [sendBatchSize EXCEPT
                                 ![e] = Append(sendBatchSize[e], SendBatch)]
          /\ open' = [open EXCEPT ![e] = Nothing]
          /\ sendCredits' = [sendCredits EXCEPT
                               ![e] = sendCredits[e] - SendBatch]
          /\ used' = [used EXCEPT ![e] = used[e] + SendBatch]
          /\ NextEndpoint /\ UNCHANGED <<server, receiverVars>>
      BY <1>5, <2>1 DEF ClientPost, Charge
    <2>3. PICK b \in Batch : Accepted(e) = <<b>>
      BY SenderFacts, BatchJoins, Sizes DEF Accepted
    <2>4. /\ ring[e] \o <<b>> \in Seq(Batch)
          /\ Len(ring[e] \o <<b>>) = Len(ring[e]) + 1
      BY SenderFacts, Enqueue
    <2>5. /\ Append(sendBatchSize[e], SendBatch) \in Seq({SendBatch})
          /\ Len(Append(sendBatchSize[e], SendBatch)) = Len(ring[e]) + 1
      BY SenderFacts, Enqueue
    <2>6. /\ SendBatch * (Len(ring[e]) + 1)
               = SendBatch * Len(ring[e]) + SendBatch
          /\ SendBatch * Len(ring[e]) \in Nat
      BY SenderFacts, BatchTimes
    <2>7. /\ sendCredits[e] - SendBatch \in Int
          /\ sendCredits[e] - SendBatch + SendBatch * (Len(ring[e]) + 1)
               = SendDepth
      BY <2>6, SenderFacts, Sizes
    <2>8. open' \in [Eps -> Batch] /\ used' \in [Eps -> Int]
      <3>1. Nothing \in Batch
        BY DEF Nothing, Batch
      <3>2. used[e] + SendBatch \in Int
        BY <1>1, Sizes
      <3> QED BY <1>1, <2>2, <3>1, <3>2, Update
    <2>9. ring' = [ring EXCEPT ![e] = ring[e] \o <<b>>]
      BY <2>2, <2>3
    <2> QED BY <1>2, <2>2, <2>4, <2>5, <2>7, <2>8, <2>9, SendersMove
  <1>6. CASE ClientPostFails
    <2>1. PICK n \in 0 .. (SendBatch - 1) :
            /\ open' = [open EXCEPT
                 ![client.i] = [slots |-> open[client.i].slots + n,
                                todo |-> open[client.i].todo + n]]
            /\ used' = [used EXCEPT ![client.i] = used[client.i] + n]
      BY <1>6 DEF ClientPostFails
    <2>2. n \in Nat
      BY Sizes
    <2>3. open' \in [Eps -> Batch]
      BY <1>1, <1>3, <2>1, <2>2, BatchJoins, Update
    <2>4. used' \in [Eps -> Int]
      <3>1. used[client.i] + n \in Int
        BY <1>1, <1>3, <2>2
      <3> QED BY <1>1, <1>3, <2>1, <3>1, Update
    <2>5. /\ UNCHANGED <<sendCredits, sendBatchSize, ring, server, receiverVars>>
          /\ client' \in ClientPlace
      BY <1>2, <1>6 DEF ClientPostFails, FailedPost
    <2> QED BY <1>1, <2>3, <2>4, <2>5, SendersStay DEF receiverVars
  <1>7. CASE ClientPoll
    <2>1. PICK e \in Eps :
            /\ SendDone(e)
            /\ sendCredits' = [sendCredits EXCEPT
                                 ![e] = sendCredits[e] + Head(sendBatchSize[e])]
            /\ sendBatchSize' = [sendBatchSize EXCEPT
                                   ![e] = Tail(sendBatchSize[e])]
            /\ used' = [used EXCEPT ![e] = used[e] - Head(ring[e]).slots]
            /\ ring' = [ring EXCEPT ![e] = Tail(ring[e])]
      BY <1>7 DEF ClientPoll, SendHandler
    <2>2. Len(ring[e]) > 0
      <3>1. ring[e] # << >>
        BY <2>1 DEF SendDone
      <3> QED BY <3>1, SenderFacts
    <2>3. /\ Head(ring[e]) \in Batch /\ Tail(ring[e]) \in Seq(Batch)
          /\ Len(Tail(ring[e])) = Len(ring[e]) - 1
      BY <2>2, SenderFacts, Dequeue
    <2>4. /\ Head(sendBatchSize[e]) = SendBatch
          /\ Tail(sendBatchSize[e]) \in Seq({SendBatch})
          /\ Len(Tail(sendBatchSize[e])) = Len(ring[e]) - 1
      <3>1. /\ Head(sendBatchSize[e]) \in {SendBatch}
            /\ Tail(sendBatchSize[e]) \in Seq({SendBatch})
            /\ Len(Tail(sendBatchSize[e])) = Len(ring[e]) - 1
        BY <2>2, SenderFacts, Dequeue
      <3> QED BY <3>1
    <2>5. sendCredits[e] + SendBatch + SendBatch * (Len(ring[e]) - 1)
            = SendDepth
      <3> DEFINE n == Len(ring[e]) - 1
      <3>1. n \in Nat /\ Len(ring[e]) = n + 1
        BY <2>2, SenderFacts
      <3>2. SendBatch * Len(ring[e]) = SendBatch * n + SendBatch
        BY <3>1, BatchTimes
      <3>3. SendBatch * n \in Nat
        BY <3>1, BatchTimes
      <3> QED BY <3>2, <3>3, SenderFacts, Sizes
    <2>6. open' \in [Eps -> Batch] /\ used' \in [Eps -> Int]
      <3>1. used[e] - Head(ring[e]).slots \in Int
        BY <1>1, <2>3 DEF Batch
      <3>2. UNCHANGED open
        BY <1>7 DEF ClientPoll
      <3> QED BY <1>1, <2>1, <3>1, <3>2, Update
    <2>7. client' \in ClientPlace /\ UNCHANGED <<server, receiverVars>>
      BY <1>1, <1>7 DEF ClientPoll, ClientPlace
    <2>8. sendCredits[e] + SendBatch \in Int
      BY SenderFacts, Sizes
    <2> QED BY <2>1, <2>3, <2>4, <2>5, <2>6, <2>7, <2>8, SendersMove
  <1> QED BY <1>4, <1>5, <1>6, <1>7 DEF ClientStep

(* Steps of the server, the cards and the faults. *)
LEMMA ServerSenders ==
  ASSUME Senders, ServerStep
  PROVE  Senders'
  <1>1. /\ client \in ClientPlace /\ server \in ServerType
        /\ open \in [Eps -> Batch] /\ used \in [Eps -> Int]
        /\ ring \in [Eps -> Seq(Batch)] /\ recvCredits \in [Eps -> Int]
        /\ rq \in [Eps -> Nat] /\ rcqe \in [Eps -> Nat]
    BY DEF Senders, Shape
  <1>2. /\ server.at \in {"post", "poll", "stopped"} /\ server.i \in Eps
        /\ NextReceiver => server' \in ServerType
    BY <1>1, Places DEF Senders, ServerType
  <1>4. UNCHANGED <<client, senderVars>>
    BY DEF ServerStep, ServerSkip, ServerPost, ServerPostFails, ServerPoll,
           ServerPolled, ServerExit
  <1>5. server' \in ServerType
    <2>1. CASE ServerSkip \/ ServerPostFails
      BY <1>2, <2>1 DEF ServerSkip, ServerPostFails
    <2>2. CASE ServerPost \/ ServerPoll
      BY <1>1, <2>2 DEF ServerPost, ServerPoll
    <2>3. CASE ServerPolled
      BY <1>1, <1>2, <2>3, EpsNext, Sizes DEF ServerPolled, ServerType
    <2>4. CASE ServerExit
      BY <1>1, <2>4 DEF ServerExit, ServerType
    <2> QED BY <2>1, <2>2, <2>3, <2>4 DEF ServerStep
  <1>6. /\ recvCredits' \in [Eps -> Int] /\ rq' \in [Eps -> Nat]
        /\ rcqe' \in [Eps -> Nat]
    <2>1. CASE ServerSkip \/ ServerPolled \/ ServerExit
      BY <1>1, <2>1 DEF ServerSkip, ServerPolled, ServerExit, receiverVars
    <2>2. CASE ServerPost
      <3> DEFINE n == UpTo(recvCredits[server.i], RecvBatch)
      <3>1. recvCredits[server.i] \in Int /\ rq[server.i] \in Nat
        BY <1>1, <1>2
      <3>2. n \in Nat
        BY <2>2, <3>1, Sizes DEF ServerPost, Replenishable, UpTo
      <3>3. /\ recvCredits' = [recvCredits EXCEPT
                                 ![server.i] = recvCredits[server.i] - n]
            /\ rq' = [rq EXCEPT ![server.i] = rq[server.i] + n]
            /\ rcqe' = rcqe
        BY <2>2 DEF ServerPost
      <3>4. recvCredits[server.i] - n \in Int /\ rq[server.i] + n \in Nat
        BY <3>1, <3>2
      <3> QED BY <1>1, <1>2, <3>3, <3>4, Update
    <2>3. CASE ServerPostFails
      <3> DEFINE n == UpTo(recvCredits[server.i], RecvBatch)
      <3>1. recvCredits[server.i] \in Int /\ rq[server.i] \in Nat
        BY <1>1, <1>2
      <3>2. n \in Nat
        BY <2>3, <3>1, Sizes DEF ServerPostFails, Replenishable, UpTo
      <3>3. PICK k \in 0 .. (n - 1) :
              rq' = [rq EXCEPT ![server.i] = rq[server.i] + k]
        BY <2>3 DEF ServerPostFails
      <3>4. rq[server.i] + k \in Nat
        BY <3>1, <3>2
      <3>5. UNCHANGED <<recvCredits, rcqe>>
        BY <2>3 DEF ServerPostFails
      <3> QED BY <1>1, <1>2, <3>3, <3>4, <3>5, Update
    <2>4. CASE ServerPoll
      <3>1. PICK e \in Eps :
              /\ rcqe[e] > 0
              /\ recvCredits' = [recvCredits EXCEPT ![e] = recvCredits[e] + 1]
              /\ rcqe' = [rcqe EXCEPT ![e] = rcqe[e] - 1]
        BY <2>4 DEF ServerPoll, RecvHandler
      <3>2. rq' = rq
        BY <2>4 DEF ServerPoll
      <3>3. recvCredits[e] + 1 \in Int /\ rcqe[e] - 1 \in Nat
        BY <1>1, <3>1
      <3> QED BY <1>1, <3>1, <3>2, <3>3, Update
    <2> QED BY <2>1, <2>2, <2>3, <2>4 DEF ServerStep
  <1> QED BY <1>1, <1>4, <1>5, <1>6, SendersStay DEF senderVars

(* What the card carries out next: from which batch, and to whom. *)
LEMMA CardSends ==
  ASSUME Senders, NEW e \in Eps, NicSend(e)
  PROVE  /\ open' \in [Eps -> Batch] /\ ring' \in [Eps -> Seq(Batch)]
         /\ \A d \in Eps : Len(ring'[d]) = Len(ring[d])
         /\ \A d \in Eps : \A n \in 1 .. Len(ring[d]) :
              ring'[d][n].slots = ring[d][n].slots
         /\ \A d \in Eps : open'[d].slots = open[d].slots
         /\ ring[e] # << >> \/ open[e].todo > 0
         /\ open[e] = Nothing => open' = open
  <1>1. /\ open \in [Eps -> Batch] /\ ring \in [Eps -> Seq(Batch)]
        /\ ring[e] \in Seq(Batch) /\ open[e] \in Batch
    BY DEF Senders, Shape
  <1>2. CASE \E n \in DOMAIN ring[e] :
               /\ ring[e][n].todo > 0
               /\ ring' = [ring EXCEPT ![e][n].todo = @ - 1]
               /\ UNCHANGED open
    <2>1. PICK n \in DOMAIN ring[e] :
            /\ ring[e][n].todo > 0
            /\ ring' = [ring EXCEPT ![e][n].todo = @ - 1]
            /\ UNCHANGED open
      BY <1>2
    <2> DEFINE r == [ring[e] EXCEPT ![n].todo = @ - 1]
    <2>2. /\ ring' = [ring EXCEPT ![e] = r]
          /\ DOMAIN ring[e] = 1 .. Len(ring[e]) /\ Len(ring[e]) \in Nat
          /\ ring[e][n] \in Batch
      BY <1>1, <2>1
    <2>3. /\ [ring[e][n] EXCEPT !.todo = @ - 1] \in Batch
          /\ [ring[e][n] EXCEPT !.todo = @ - 1].slots = ring[e][n].slots
      BY <2>1, <2>2, BatchSends
    <2>4. r \in Seq(Batch) /\ Len(r) = Len(ring[e])
      BY <1>1, <2>2, <2>3
    <2>5. \A k \in 1 .. Len(ring[e]) : r[k].slots = ring[e][k].slots
      BY <1>1, <2>2, <2>3
    <2>6. ring[e] # << >>
      BY <2>2
    <2> HIDE DEF r
    <2>7. ring' \in [Eps -> Seq(Batch)]
      BY <1>1, <2>2, <2>4, Update
    <2>8. \A d \in Eps : ring'[d] = IF d = e THEN r ELSE ring[d]
      BY <1>1, <2>2
    <2> QED BY <1>1, <2>1, <2>4, <2>5, <2>6, <2>7, <2>8
  <1>3. CASE /\ open[e].todo > 0
             /\ open' = [open EXCEPT ![e].todo = @ - 1]
             /\ UNCHANGED ring
    <2>1. /\ [open[e] EXCEPT !.todo = @ - 1] \in Batch
          /\ [open[e] EXCEPT !.todo = @ - 1].slots = open[e].slots
      BY <1>1, <1>3, BatchSends
    <2>2. open' = [open EXCEPT ![e] = [open[e] EXCEPT !.todo = @ - 1]]
      BY <1>1, <1>3
    <2>3. open' \in [Eps -> Batch]
      BY <1>1, <2>1, <2>2, Update
    <2>4. \A d \in Eps : open'[d].slots = open[d].slots
      BY <1>1, <2>1, <2>2
    <2>5. open[e] # Nothing
      BY <1>3 DEF Nothing
    <2> QED BY <1>1, <1>3, <2>3, <2>4, <2>5
  <1> QED BY <1>2, <1>3 DEF NicSend

LEMMA OtherSenders ==
  ASSUME Senders, NEW e \in Eps, NicSend(e) \/ ClientBreaks(e) \/ ServerBreaks(e)
  PROVE  Senders'
  <1>1. /\ client \in ClientPlace /\ server \in ServerType
        /\ open \in [Eps -> Batch] /\ used \in [Eps -> Int]
        /\ ring \in [Eps -> Seq(Batch)] /\ recvCredits \in [Eps -> Int]
        /\ rq \in [Eps -> Nat] /\ rcqe \in [Eps -> Nat]
    BY DEF Senders, Shape
  <1>2. CASE NicSend(e)
    <2>1. /\ open' \in [Eps -> Batch] /\ ring' \in [Eps -> Seq(Batch)]
          /\ \A d \in Eps : Len(ring'[d]) = Len(ring[d])
      BY <1>2, CardSends
    <2>2. UNCHANGED <<client, sendCredits, sendBatchSize, used, server,
                      recvCredits>> /\ Delivered(e)
      BY <1>2 DEF NicSend
    <2>3. rq' \in [Eps -> Nat] /\ rcqe' \in [Eps -> Nat]
      <3>1. rq[e] \in Nat /\ rcqe[e] \in Nat /\ rcqe[e] + 1 \in Nat
        BY <1>1
      <3>2. CASE /\ rq[e] > 0
                 /\ rq' = [rq EXCEPT ![e] = rq[e] - 1]
                 /\ rcqe' = [rcqe EXCEPT ![e] = rcqe[e] + 1]
        <4>1. rq[e] - 1 \in Nat
          BY <3>1, <3>2
        <4> QED BY <1>1, <3>1, <3>2, <4>1, Update
      <3>3. CASE UNCHANGED <<rq, rcqe>>
        BY <1>1, <3>3
      <3> QED BY <2>2, <3>2, <3>3 DEF Delivered
    <2> QED BY <1>1, <2>1, <2>2, <2>3, SendersStay
  <1>3. CASE ClientBreaks(e) \/ ServerBreaks(e)
    <2>1. UNCHANGED <<client, senderVars, server, receiverVars>>
      BY <1>3 DEF ClientBreaks, ServerBreaks
    <2> QED BY <1>1, <2>1, SendersStay DEF senderVars, receiverVars
  <1> QED BY <1>2, <1>3

LEMMA StutterSenders ==
  ASSUME Senders, UNCHANGED vars
  PROVE  Senders'
  <1>1. UNCHANGED <<client, senderVars, server, receiverVars>>
    BY DEF vars
  <1> QED BY <1>1 DEF Senders, Shape, SendersMatch, senderVars, receiverVars

(* Whatever posts fail and connections break, each endpoint's queue of     *)
(* batch sizes has one entry per signaled request at the card and accounts *)
(* for every credit that is missing: SendHandler never reads an empty      *)
(* queue.                                                                  *)
THEOREM Matched == Spec => []SendersMatch
  <1>1. Senders /\ [Next]_vars => Senders'
    BY ClientSenders, ServerSenders, OtherSenders, StutterSenders DEF Next
  <1>2. Senders => SendersMatch
    BY DEF Senders
  <1> QED BY InitSenders, <1>1, <1>2, PTL DEF Spec

-----------------------------------------------------------------------------
(* Without faults the accounts are exact: the send queue holds whole       *)
(* batches and every receive is in one of three places.                    *)
FullBatches(e) ==
  /\ open[e] = Nothing
  /\ used[e] = SendBatch * Len(ring[e])
  /\ \A n \in 1 .. Len(ring[e]) : ring[e][n].slots = SendBatch

AllReceives(e) ==
  recvCredits[e] >= 0 /\ recvCredits[e] + rq[e] + rcqe[e] = RecvDepth

Exact == \A e \in Eps : FullBatches(e) /\ AllReceives(e)

IInv == Senders /\ Exact

(* Credits for a batch are room for it. *)
LEMMA RoomForBatch ==
  ASSUME IInv, NEW e \in Eps
  PROVE  used[e] = SendDepth - sendCredits[e]
  <1>1. /\ sendCredits[e] + SendBatch * Len(ring[e]) = SendDepth
        /\ sendCredits[e] \in Int /\ Len(ring[e]) \in Nat
    BY SenderFacts DEF IInv
  <1>2. used[e] = SendBatch * Len(ring[e])
    BY DEF IInv, Exact, FullBatches
  <1>3. SendBatch * Len(ring[e]) \in Nat
    BY <1>1, BatchTimes
  <1> QED BY <1>1, <1>2, <1>3, Sizes

LEMMA NoFailures ==
  ASSUME IInv, ~ Faults
  PROVE  /\ ~ ClientPostFails /\ ~ ServerPostFails
         /\ \A e \in Eps : ~ ClientBreaks(e) /\ ~ ServerBreaks(e)
  <1>1. client.i \in Eps /\ server.i \in Eps
    BY Places DEF IInv, Senders
  <1>2. ~ ClientPostFails
    <2>1. PICK e \in Eps : e = client.i
      BY <1>1
    <2>2. used[e] = SendDepth - sendCredits[e] /\ sendCredits[e] \in Int
      BY RoomForBatch, SenderFacts DEF IInv
    <2>3. SendBatch <= sendCredits[e] => ~ (used[e] + SendBatch > SendDepth)
      BY <2>2, Sizes
    <2> QED BY <2>1, <2>3 DEF ClientPostFails, MayPost
  <1>3. ~ ServerPostFails
    <2>1. PICK e \in Eps : e = server.i
      BY <1>1
    <2>2. /\ recvCredits[e] + rq[e] + rcqe[e] = RecvDepth
          /\ recvCredits[e] \in Int /\ rq[e] \in Nat /\ rcqe[e] \in Nat
      BY DEF IInv, Exact, AllReceives, Senders, Shape
    <2>3. /\ UpTo(recvCredits[e], RecvBatch) <= recvCredits[e]
          /\ UpTo(recvCredits[e], RecvBatch) \in Int
      BY <2>2, Sizes DEF UpTo
    <2>4. ~ (rq[e] + rcqe[e] + UpTo(recvCredits[e], RecvBatch) > RecvDepth)
      BY <2>2, <2>3, Sizes
    <2> QED BY <2>1, <2>4 DEF ServerPostFails
  <1> QED BY <1>2, <1>3 DEF ClientBreaks, ServerBreaks

LEMMA InitExact == Init => Exact
  <1>1. SUFFICES ASSUME Init, NEW e \in Eps
                 PROVE  FullBatches(e) /\ AllReceives(e)
    BY DEF Exact
  <1>2. /\ ring[e] = << >> /\ used[e] = 0 /\ open[e] = Nothing
        /\ recvCredits[e] = 0 /\ rq[e] = RecvDepth /\ rcqe[e] = 0
    BY <1>1 DEF Init
  <1>3. SendBatch * 0 = 0
    BY BatchTimes
  <1> QED BY <1>2, <1>3, Sizes DEF FullBatches, AllReceives

(* The senders' accounts under each step that touches them. *)
LEMMA PostExact ==
  ASSUME IInv, ClientPost
  PROVE  \A e \in Eps : FullBatches(e)'
  <1>1. PICK c \in Eps : c = client.i
    BY Places DEF IInv, Senders
  <1>2. /\ open \in [Eps -> Batch] /\ used \in [Eps -> Int]
        /\ ring \in [Eps -> Seq(Batch)]
    BY DEF IInv, Senders, Shape
  <1>3. FullBatches(c)
    BY DEF IInv, Exact
  <1> DEFINE b == [slots |-> open[c].slots + SendBatch,
                   todo |-> open[c].todo + SendBatch]
  <1>4. b \in Batch /\ b.slots = SendBatch
    BY <1>3, Sizes DEF FullBatches, Nothing, Batch
  <1>5. /\ ring' = [ring EXCEPT ![c] = ring[c] \o <<b>>]
        /\ open' = [open EXCEPT ![c] = Nothing]
        /\ used' = [used EXCEPT ![c] = used[c] + SendBatch]
    BY <1>1 DEF ClientPost, Accepted
  <1> HIDE DEF b
  <1>6. TAKE e \in Eps
  <1>7. CASE e = c
    <2>1. /\ ring'[e] = ring[c] \o <<b>> /\ open'[e] = Nothing
          /\ used'[e] = used[c] + SendBatch
      BY <1>2, <1>5, <1>7
    <2>2. ring[c] \in Seq(Batch) /\ Len(ring[c]) \in Nat
      BY <1>2
    <2>3. Len(ring'[e]) = Len(ring[c]) + 1
      BY <1>4, <2>1, <2>2, Enqueue
    <2>4. SendBatch * Len(ring'[e]) = used'[e]
      BY <1>3, <2>1, <2>2, <2>3, BatchTimes DEF FullBatches
    <2>5. \A n \in 1 .. Len(ring'[e]) : ring'[e][n].slots = SendBatch
      <3>1. \A n \in 1 .. Len(ring'[e]) :
              ring'[e][n] = IF n <= Len(ring[c]) THEN ring[c][n] ELSE b
        BY <1>4, <2>1, <2>2, <2>3
      <3> QED BY <1>3, <1>4, <2>2, <2>3, <3>1 DEF FullBatches
    <2> QED BY <2>1, <2>4, <2>5 DEF FullBatches
  <1>8. CASE e # c
    <2>1. ring'[e] = ring[e] /\ open'[e] = open[e] /\ used'[e] = used[e]
      BY <1>2, <1>5, <1>8
    <2> QED BY <2>1 DEF IInv, Exact, FullBatches
  <1> QED BY <1>7, <1>8

LEMMA PollExact ==
  ASSUME IInv, ClientPoll
  PROVE  \A e \in Eps : FullBatches(e)'
  <1>1. PICK c \in Eps :
          /\ SendDone(c)
          /\ used' = [used EXCEPT ![c] = used[c] - Head(ring[c]).slots]
          /\ ring' = [ring EXCEPT ![c] = Tail(ring[c])]
    BY DEF ClientPoll
  <1>2. UNCHANGED open
    BY DEF ClientPoll
  <1>3. used \in [Eps -> Int] /\ ring \in [Eps -> Seq(Batch)]
    BY DEF IInv, Senders, Shape
  <1>4. FullBatches(c)
    BY DEF IInv, Exact
  <1>5. ring[c] \in Seq(Batch) /\ Len(ring[c]) \in Nat /\ Len(ring[c]) > 0
    BY <1>1, <1>3 DEF SendDone
  <1>6. TAKE e \in Eps
  <1>7. CASE e = c
    <2>1. ring'[e] = Tail(ring[c]) /\ used'[e] = used[c] - Head(ring[c]).slots
      BY <1>1, <1>3, <1>7
    <2>2. Head(ring[c]).slots = SendBatch
      BY <1>4, <1>5 DEF FullBatches
    <2> DEFINE n == Len(ring[c]) - 1
    <2>3. n \in Nat /\ Len(ring[c]) = n + 1 /\ Len(ring'[e]) = n
      BY <1>5, <2>1
    <2>4. /\ used[c] = SendBatch * n + SendBatch
          /\ SendBatch * n \in Nat
      BY <1>4, <2>3, BatchTimes DEF FullBatches
    <2>5. used'[e] = SendBatch * Len(ring'[e])
      BY <2>1, <2>2, <2>3, <2>4, Sizes
    <2>6. \A k \in 1 .. Len(ring'[e]) : ring'[e][k].slots = SendBatch
      <3>1. \A k \in 1 .. n : Tail(ring[c])[k] = ring[c][k + 1]
        BY <1>5, Later
      <3>2. \A k \in 1 .. n : k + 1 \in 1 .. Len(ring[c])
        BY <1>5
      <3> QED BY <1>4, <2>1, <2>3, <3>1, <3>2 DEF FullBatches
    <2> QED BY <1>2, <1>4, <1>7, <2>5, <2>6 DEF FullBatches
  <1>8. CASE e # c
    <2>1. ring'[e] = ring[e] /\ used'[e] = used[e]
      BY <1>1, <1>3, <1>8
    <2> QED BY <1>2, <2>1 DEF IInv, Exact, FullBatches
  <1> QED BY <1>7, <1>8

LEMMA SendExact ==
  ASSUME IInv, NEW c \in Eps, NicSend(c)
  PROVE  \A e \in Eps : FullBatches(e)'
  <1>1. /\ \A d \in Eps : Len(ring'[d]) = Len(ring[d])
        /\ \A d \in Eps : \A n \in 1 .. Len(ring[d]) :
             ring'[d][n].slots = ring[d][n].slots
        /\ open[c] = Nothing => open' = open
    BY CardSends DEF IInv
  <1>2. open' = open /\ used' = used
    BY <1>1 DEF IInv, Exact, FullBatches, NicSend
  <1> QED BY <1>1, <1>2 DEF IInv, Exact, FullBatches

(* The receivers' accounts under each step that touches them. *)
LEMMA ReplenishExact ==
  ASSUME IInv, ServerPost
  PROVE  /\ \A e \in Eps : AllReceives(e)'
         /\ \E n \in 1 .. recvCredits[server.i] :
              /\ rq' = [rq EXCEPT ![server.i] = rq[server.i] + n]
              /\ recvCredits' = [recvCredits EXCEPT
                                   ![server.i] = recvCredits[server.i] - n]
  <1>1. PICK c \in Eps : c = server.i
    BY Places DEF IInv, Senders
  <1>2. /\ recvCredits \in [Eps -> Int] /\ rq \in [Eps -> Nat]
        /\ rcqe \in [Eps -> Nat]
    BY DEF IInv, Senders, Shape
  <1>3. PICK n \in 1 .. recvCredits[c] : n = UpTo(recvCredits[c], RecvBatch)
    BY <1>1, <1>2, Sizes DEF ServerPost, Replenishable, UpTo
  <1>4. /\ recvCredits' = [recvCredits EXCEPT ![c] = recvCredits[c] - n]
        /\ rq' = [rq EXCEPT ![c] = rq[c] + n]
        /\ rcqe' = rcqe
    BY <1>1, <1>3 DEF ServerPost
  <1>5. ASSUME NEW e \in Eps
        PROVE  AllReceives(e)'
    <2>1. AllReceives(e)
      BY DEF IInv, Exact
    <2>2. CASE e = c
      BY <1>2, <1>4, <2>1, <2>2 DEF AllReceives
    <2>3. CASE e # c
      BY <1>2, <1>4, <2>1, <2>3 DEF AllReceives
    <2> QED BY <2>2, <2>3
  <1> QED BY <1>1, <1>4, <1>5

LEMMA RecvPollExact ==
  ASSUME IInv, ServerPoll
  PROVE  /\ \A e \in Eps : AllReceives(e)'
         /\ \A e \in Eps : rcqe'[e] + recvCredits'[e] = rcqe[e] + recvCredits[e]
  <1>1. PICK c \in Eps :
          /\ rcqe[c] > 0
          /\ recvCredits' = [recvCredits EXCEPT ![c] = recvCredits[c] + 1]
          /\ rcqe' = [rcqe EXCEPT ![c] = rcqe[c] - 1]
    BY DEF ServerPoll, RecvHandler
  <1>2. /\ recvCredits \in [Eps -> Int] /\ rq \in [Eps -> Nat]
        /\ rcqe \in [Eps -> Nat]
    BY DEF IInv, Senders, Shape
  <1>3. rq' = rq
    BY DEF ServerPoll
  <1>4. ASSUME NEW e \in Eps
        PROVE  /\ AllReceives(e)'
               /\ rcqe'[e] + recvCredits'[e] = rcqe[e] + recvCredits[e]
    <2>1. AllReceives(e)
      BY DEF IInv, Exact
    <2>2. CASE e = c
      BY <1>1, <1>2, <1>3, <2>1, <2>2 DEF AllReceives
    <2>3. CASE e # c
      BY <1>1, <1>2, <1>3, <2>1, <2>3 DEF AllReceives
    <2> QED BY <2>2, <2>3
  <1> QED BY <1>4

LEMMA DeliverExact ==
  ASSUME IInv, NEW c \in Eps, NicSend(c)
  PROVE  \A e \in Eps : AllReceives(e)'
  <1>1. /\ recvCredits \in [Eps -> Int] /\ rq \in [Eps -> Nat]
        /\ rcqe \in [Eps -> Nat]
    BY DEF IInv, Senders, Shape
  <1>2. recvCredits' = recvCredits
    BY DEF NicSend
  <1>3. CASE UNCHANGED <<rq, rcqe>>
    BY <1>2, <1>3 DEF IInv, Exact, AllReceives
  <1>4. CASE /\ rq' = [rq EXCEPT ![c] = rq[c] - 1]
             /\ rcqe' = [rcqe EXCEPT ![c] = rcqe[c] + 1]
    <2>1. TAKE e \in Eps
    <2>2. AllReceives(e)
      BY DEF IInv, Exact
    <2>3. CASE e = c
      BY <1>1, <1>2, <1>4, <2>2, <2>3 DEF AllReceives
    <2>4. CASE e # c
      BY <1>1, <1>2, <1>4, <2>2, <2>4 DEF AllReceives
    <2> QED BY <2>3, <2>4
  <1> QED BY <1>3, <1>4 DEF NicSend, Delivered

LEMMA StepExact ==
  ASSUME IInv, ~ Faults, [Next]_vars
  PROVE  IInv'
  <1>1. Senders'
    BY ClientSenders, ServerSenders, OtherSenders, StutterSenders DEF Next, IInv
  <1>2. CASE UNCHANGED <<senderVars, receiverVars>>
    BY <1>1, <1>2
       DEF IInv, Exact, FullBatches, AllReceives, senderVars, receiverVars
  <1>3. CASE ClientPost
    <2>1. UNCHANGED receiverVars
      BY <1>3 DEF ClientPost
    <2> QED BY <1>1, <1>3, <2>1, PostExact
            DEF IInv, Exact, AllReceives, receiverVars
  <1>4. CASE ClientPoll
    <2>1. UNCHANGED receiverVars
      BY <1>4 DEF ClientPoll
    <2> QED BY <1>1, <1>4, <2>1, PollExact
            DEF IInv, Exact, AllReceives, receiverVars
  <1>5. CASE ServerPost
    <2>1. UNCHANGED senderVars
      BY <1>5 DEF ServerPost
    <2> QED BY <1>1, <1>5, <2>1, ReplenishExact
            DEF IInv, Exact, FullBatches, senderVars
  <1>6. CASE ServerPoll
    <2>1. UNCHANGED senderVars
      BY <1>6 DEF ServerPoll
    <2> QED BY <1>1, <1>6, <2>1, RecvPollExact
            DEF IInv, Exact, FullBatches, senderVars
  <1>7. CASE \E e \in Eps : NicSend(e)
    BY <1>1, <1>7, SendExact, DeliverExact DEF IInv, Exact
  <1>8. CASE \/ ClientTurn \/ ClientSkip \/ ClientPolled \/ ClientExit
             \/ ServerSkip \/ ServerPolled \/ ServerExit \/ UNCHANGED vars
    <2>1. UNCHANGED <<senderVars, receiverVars>>
      BY <1>8 DEF ClientTurn, ClientSkip, ClientPolled, ClientExit, ServerSkip,
                  ServerPolled, ServerExit, vars
    <2> QED BY <1>2, <2>1
  <1> QED BY <1>3, <1>4, <1>5, <1>6, <1>7, <1>8, NoFailures
          DEF Next, ClientStep, ServerStep

LEMMA Accounts ==
  ASSUME ~ Faults
  PROVE  Spec => []IInv
  <1>1. Init => IInv
    BY InitSenders, InitExact DEF IInv
  <1>2. IInv /\ [Next]_vars => IInv'
    BY StepExact
  <1> QED BY <1>1, <1>2, PTL DEF Spec

(* While no post fails for a reason of its own, an endpoint that has       *)
(* credits for a batch has room for it in its send queue: PostSend never   *)
(* overruns the queue it was created with.                                 *)
THEOREM SendersFit == Spec => []SendQueueFits
  <1>1. CASE Faults
    <2>1. SendQueueFits
      BY <1>1 DEF SendQueueFits
    <2> QED BY <2>1, PTL
  <1>2. CASE ~ Faults
    <2>1. IInv => SendQueueFits
      <3>1. SUFFICES ASSUME IInv, NEW e \in Active,
                            SendBatch <= sendCredits[e]
                     PROVE  used[e] + SendBatch <= SendDepth
        BY DEF SendQueueFits
      <3>2. e \in Eps
        BY DatapathAssumption
      <3>3. used[e] = SendDepth - sendCredits[e] /\ sendCredits[e] \in Int
        BY <3>1, <3>2, RoomForBatch, SenderFacts DEF IInv
      <3> QED BY <3>1, <3>3, Sizes
    <2> QED BY <1>2, <2>1, Accounts, PTL
  <1> QED BY <1>1, <1>2

(* and each receive of an endpoint is a credit, posted or completed: none  *)
(* is lost or posted twice.                                                *)
THEOREM ReceiversFit == Spec => []ReceiversMatch
  <1>1. CASE Faults
    <2>1. ReceiversMatch
      BY <1>1 DEF ReceiversMatch
    <2> QED BY <2>1, PTL
  <1>2. CASE ~ Faults
    <2>1. IInv => ReceiversMatch
      BY DEF IInv, Exact, AllReceives, ReceiversMatch
    <2> QED BY <1>2, <2>1, Accounts, PTL
  <1> QED BY <1>1, <1>2

-----------------------------------------------------------------------------
(* The refinement of Window: what a step does to the three counts. *)
Inflight == [e \in Eps |-> SendBatch * Len(ring[e])]
Filled == [e \in Eps |-> rcqe[e] + recvCredits[e]]

LEMMA WindowIdle ==
  ASSUME Inflight' = Inflight, Filled' = Filled, rq' = rq
  PROVE  UNCHANGED Flow!vars
  BY DEF Flow!vars, Inflight, Filled

LEMMA WindowPost ==
  ASSUME IInv, ClientPost
  PROVE  Flow!Next
  <1>1. PICK c \in Eps : c = client.i
    BY Places DEF IInv, Senders
  <1>2. /\ ring \in [Eps -> Seq(Batch)] /\ c \in Active
        /\ used[c] + SendBatch <= SendDepth
    BY <1>1 DEF IInv, Senders, Shape, ClientPost, MayPost
  <1>3. PICK b \in Batch : Accepted(c) = <<b>>
    BY BatchJoins, SenderFacts, Sizes DEF IInv, Accepted
  <1>4. ring' = [ring EXCEPT ![c] = ring[c] \o <<b>>]
    BY <1>1, <1>3 DEF ClientPost
  <1>5. /\ SendBatch * Len(ring'[c]) = SendBatch * Len(ring[c]) + SendBatch
        /\ used[c] = SendBatch * Len(ring[c])
    <2>1. Len(ring'[c]) = Len(ring[c]) + 1 /\ Len(ring[c]) \in Nat
      BY <1>2, <1>4, Enqueue
    <2> QED BY <2>1, BatchTimes DEF IInv, Exact, FullBatches
  <1>6. Inflight' = [Inflight EXCEPT ![c] = Inflight[c] + SendBatch]
    <2>1. \A e \in Eps : e # c => ring'[e] = ring[e]
      BY <1>2, <1>4
    <2> QED BY <1>5, <2>1 DEF Inflight
  <1>7. rq' = rq /\ Filled' = Filled
    BY DEF ClientPost, receiverVars, Filled
  <1>8. Inflight[c] + SendBatch <= SendDepth
    BY <1>2, <1>5 DEF Inflight
  <1>9. Flow!Post(c)
    BY <1>2, <1>6, <1>7, <1>8 DEF Flow!Post, Inflight, Filled
  <1> QED BY <1>9 DEF Flow!Next

LEMMA WindowComplete ==
  ASSUME IInv, ClientPoll
  PROVE  Flow!Next
  <1>1. PICK c \in Eps :
          /\ SendDone(c)
          /\ ring' = [ring EXCEPT ![c] = Tail(ring[c])]
    BY DEF ClientPoll
  <1>2. ring \in [Eps -> Seq(Batch)]
    BY DEF IInv, Senders, Shape
  <1> DEFINE n == Len(ring[c]) - 1
  <1>3. n \in Nat /\ Len(ring[c]) = n + 1 /\ Len(ring'[c]) = n
    BY <1>1, <1>2 DEF SendDone
  <1> HIDE DEF n
  <1>4. /\ SendBatch * Len(ring'[c]) = SendBatch * Len(ring[c]) - SendBatch
        /\ SendBatch * Len(ring[c]) >= SendBatch
    <2>1. /\ SendBatch * (n + 1) = SendBatch * n + SendBatch
          /\ SendBatch * n \in Nat
      BY <1>3, BatchTimes
    <2> QED BY <1>3, <2>1, Sizes
  <1>5. Inflight' = [Inflight EXCEPT ![c] = Inflight[c] - SendBatch]
    <2>1. \A e \in Eps : e # c => ring'[e] = ring[e]
      BY <1>1, <1>2
    <2> QED BY <1>4, <2>1 DEF Inflight
  <1>6. rq' = rq /\ Filled' = Filled
    BY DEF ClientPoll, receiverVars, Filled
  <1>7. Inflight[c] >= SendBatch
    BY <1>4 DEF Inflight
  <1>8. Flow!Complete(c)
    BY <1>5, <1>6, <1>7 DEF Flow!Complete, Inflight, Filled
  <1> QED BY <1>8 DEF Flow!Next

LEMMA WindowReplenish ==
  ASSUME IInv, ServerPost
  PROVE  Flow!Next
  <1>1. PICK c \in Eps : c = server.i
    BY Places DEF IInv, Senders
  <1>2. /\ recvCredits \in [Eps -> Int] /\ rq \in [Eps -> Nat]
        /\ rcqe \in [Eps -> Nat]
    BY DEF IInv, Senders, Shape
  <1>3. PICK n \in 1 .. recvCredits[c] :
          /\ rq' = [rq EXCEPT ![c] = rq[c] + n]
          /\ recvCredits' = [recvCredits EXCEPT ![c] = recvCredits[c] - n]
    BY <1>1, ReplenishExact
  <1>4. rcqe' = rcqe /\ Inflight' = Inflight
    BY DEF ServerPost, senderVars, Inflight
  <1>5. AllReceives(c)
    BY DEF IInv, Exact
  <1>6. /\ n \in 1 .. (rcqe[c] + recvCredits[c])
        /\ rq[c] + n <= RecvDepth
    BY <1>2, <1>5, Sizes DEF AllReceives
  <1>7. Filled' = [Filled EXCEPT ![c] = Filled[c] - n]
    <2>1. \A e \in Eps : e # c => recvCredits'[e] = recvCredits[e]
      BY <1>2, <1>3
    <2>2. recvCredits'[c] = recvCredits[c] - n
      BY <1>2, <1>3
    <2>3. rcqe[c] + (recvCredits[c] - n) = (rcqe[c] + recvCredits[c]) - n
      BY <1>2
    <2>4. \A e \in Eps :
            rcqe'[e] + recvCredits'[e] =
              IF e = c THEN (rcqe[c] + recvCredits[c]) - n
              ELSE rcqe[e] + recvCredits[e]
      BY <1>4, <2>1, <2>2, <2>3
    <2> QED BY <2>4 DEF Filled
  <1>8. Filled[c] = rcqe[c] + recvCredits[c]
    BY DEF Filled
  <1>9. Flow!Replenish(c)
    BY <1>3, <1>4, <1>6, <1>7, <1>8 DEF Flow!Replenish, Inflight, Filled
  <1> QED BY <1>9 DEF Flow!Next

LEMMA WindowDeliver ==
  ASSUME IInv, NEW c \in Eps, NicSend(c)
  PROVE  Flow!Next \/ UNCHANGED Flow!vars
  <1>1. /\ ring \in [Eps -> Seq(Batch)] /\ recvCredits \in [Eps -> Int]
        /\ rq \in [Eps -> Nat] /\ rcqe \in [Eps -> Nat]
    BY DEF IInv, Senders, Shape
  <1>2. Inflight' = Inflight
    <2>1. \A d \in Eps : Len(ring'[d]) = Len(ring[d])
      BY CardSends DEF IInv
    <2> QED BY <2>1 DEF Inflight
  <1>3. recvCredits' = recvCredits
    BY DEF NicSend
  <1>4. Inflight[c] > 0
    <2>1. open[c].todo = 0
      BY DEF IInv, Exact, FullBatches, Nothing
    <2>2. ring[c] # << >>
      BY <2>1, CardSends DEF IInv
    <2>3. Len(ring[c]) \in Nat /\ Len(ring[c]) > 0
      BY <1>1, <2>2
    <2>4. SendBatch * Len(ring[c]) >= SendBatch
      BY <2>3, BatchTimes
    <2>5. SendBatch * Len(ring[c]) \in Nat
      BY <2>3, BatchTimes
    <2> QED BY <2>4, <2>5, Sizes DEF Inflight
  <1>5. CASE UNCHANGED <<rq, rcqe>>
    BY <1>2, <1>3, <1>5, WindowIdle DEF Filled
  <1>6. CASE /\ rq[c] > 0
             /\ rq' = [rq EXCEPT ![c] = rq[c] - 1]
             /\ rcqe' = [rcqe EXCEPT ![c] = rcqe[c] + 1]
    <2>1. Filled' = [Filled EXCEPT ![c] = Filled[c] + 1]
      <3>1. /\ \A e \in Eps : e # c => rcqe'[e] = rcqe[e]
            /\ rcqe'[c] = rcqe[c] + 1
        BY <1>1, <1>6
      <3>2. rcqe[c] + 1 + recvCredits[c] = rcqe[c] + recvCredits[c] + 1
        BY <1>1
      <3> QED BY <1>3, <3>1, <3>2 DEF Filled
    <2>2. Flow!Deliver(c)
      BY <1>2, <1>4, <1>6, <2>1 DEF Flow!Deliver, Inflight, Filled
    <2> QED BY <2>2 DEF Flow!Next
  <1> QED BY <1>5, <1>6 DEF NicSend, Delivered

(* While no post or connection fails, the two datapath threads and the     *)
(* cards implement Window: whatever the interleaving, every pair of        *)
(* endpoints keeps to its window on either side.                           *)
THEOREM WindowImplemented ==
  ASSUME ~ Faults
  PROVE  Spec => ImplementsWindow
  <1>1. Init => Flow!Init
    <2>1. ASSUME Init
          PROVE  /\ Inflight = [e \in Eps |-> 0]
                 /\ Filled = [e \in Eps |-> 0]
                 /\ rq = [e \in Eps |-> RecvDepth]
      <3>1. SendBatch * 0 = 0
        BY BatchTimes
      <3> QED BY <2>1, <3>1 DEF Init, Inflight, Filled
    <2> QED BY <2>1 DEF Flow!Init, Inflight, Filled
  <1>2. IInv /\ [Next]_vars => [Flow!Next]_(Flow!vars)
    <2> SUFFICES ASSUME IInv, [Next]_vars
                 PROVE  Flow!Next \/ UNCHANGED Flow!vars
      OBVIOUS
    <2>1. CASE UNCHANGED <<senderVars, receiverVars>>
      <3>1. Inflight' = Inflight /\ Filled' = Filled /\ rq' = rq
        BY <2>1 DEF Inflight, Filled, senderVars, receiverVars
      <3> QED BY <3>1, WindowIdle
    <2>2. CASE ServerPoll
      <3>1. Filled' = Filled
        BY <2>2, RecvPollExact DEF Filled
      <3>2. Inflight' = Inflight /\ rq' = rq
        BY <2>2 DEF ServerPoll, senderVars, Inflight
      <3> QED BY <3>1, <3>2, WindowIdle
    <2>3. CASE \/ ClientTurn \/ ClientSkip \/ ClientPolled \/ ClientExit
               \/ ServerSkip \/ ServerPolled \/ ServerExit \/ UNCHANGED vars
      <3>1. UNCHANGED <<senderVars, receiverVars>>
        BY <2>3 DEF ClientTurn, ClientSkip, ClientPolled, ClientExit,
                    ServerSkip, ServerPolled, ServerExit, vars
      <3> QED BY <2>1, <3>1
    <2> QED BY <2>2, <2>3, NoFailures, WindowPost, WindowComplete,
               WindowReplenish, WindowDeliver
            DEF Next, ClientStep, ServerStep
  <1> QED BY <1>1, <1>2, Accounts, PTL DEF Spec, ImplementsWindow, Flow!Spec

-----------------------------------------------------------------------------
(* The slots of a send queue.  The batches' slots add up to those in use,  *)
(* which is said without a sum: s[i] are the slots from batch i on, the    *)
(* requests after the last signaled one included.                          *)
AddUp(q, rest, total) ==
  \E s \in [1 .. (Len(q) + 1) -> Nat] :
    /\ s[1] = total /\ s[Len(q) + 1] = rest
    /\ \A i \in 1 .. Len(q) : s[i] = q[i].slots + s[i + 1]

LEMMA NoneAddUp == AddUp(<< >>, 0, 0)
  <1> DEFINE s == [i \in 1 .. (Len(<< >>) + 1) |-> 0]
  <1>1. s \in [1 .. (Len(<< >>) + 1) -> Nat] /\ s[1] = 0 /\ s[Len(<< >>) + 1] = 0
    OBVIOUS
  <1>2. \A i \in 1 .. Len(<< >>) : s[i] = << >>[i].slots + s[i + 1]
    OBVIOUS
  <1> QED BY <1>1, <1>2 DEF AddUp

(* Requests are added after the last batch, *)
LEMMA MoreAddUp ==
  ASSUME NEW q \in Seq(Batch), NEW n \in Nat, NEW u, AddUp(q, n, u),
         NEW k \in Nat
  PROVE  AddUp(q, n + k, u + k)
  <1>1. PICK s \in [1 .. (Len(q) + 1) -> Nat] :
          /\ s[1] = u /\ s[Len(q) + 1] = n
          /\ \A i \in 1 .. Len(q) : s[i] = q[i].slots + s[i + 1]
    BY DEF AddUp
  <1>2. /\ Len(q) \in Nat /\ 1 \in 1 .. (Len(q) + 1)
        /\ Len(q) + 1 \in 1 .. (Len(q) + 1)
        /\ \A i \in 1 .. Len(q) : i + 1 \in 1 .. (Len(q) + 1)
        /\ \A i \in 1 .. Len(q) : i \in 1 .. (Len(q) + 1)
    OBVIOUS
  <1> DEFINE z == [i \in 1 .. (Len(q) + 1) |-> s[i] + k]
  <1>3. \A i \in 1 .. (Len(q) + 1) : s[i] \in Nat /\ z[i] = s[i] + k
    OBVIOUS
  <1>4. z \in [1 .. (Len(q) + 1) -> Nat]
    BY <1>3
  <1>5. z[1] = u + k /\ z[Len(q) + 1] = n + k
    BY <1>1, <1>2, <1>3
  <1>6. \A i \in 1 .. Len(q) : z[i] = q[i].slots + z[i + 1]
    <2> TAKE i \in 1 .. Len(q)
    <2>1. q[i].slots \in Nat
      <3>1. q[i] \in Batch
        OBVIOUS
      <3> QED BY <3>1 DEF Batch
    <2>2. s[i] = q[i].slots + s[i + 1] /\ s[i] \in Nat /\ s[i + 1] \in Nat
      BY <1>1, <1>2, <1>3
    <2>3. z[i] = s[i] + k /\ z[i + 1] = s[i + 1] + k
      BY <1>2, <1>3
    <2> HIDE DEF z
    <2> QED BY <2>1, <2>2, <2>3
  <1> HIDE DEF z
  <1> QED BY <1>4, <1>5, <1>6 DEF AddUp

(* they become a batch, *)
LEMMA BatchAddUp ==
  ASSUME NEW q \in Seq(Batch), NEW b \in Batch, NEW u, AddUp(q, b.slots, u)
  PROVE  AddUp(q \o <<b>>, 0, u)
  <1>1. PICK s \in [1 .. (Len(q) + 1) -> Nat] :
          /\ s[1] = u /\ s[Len(q) + 1] = b.slots
          /\ \A i \in 1 .. Len(q) : s[i] = q[i].slots + s[i + 1]
    BY DEF AddUp
  <1> DEFINE r == q \o <<b>>
             z == [i \in 1 .. (Len(q) + 2) |-> IF i = Len(q) + 2 THEN 0 ELSE s[i]]
  <1>2. /\ Len(q) \in Nat /\ Len(r) = Len(q) + 1
        /\ \A i \in 1 .. Len(q) : r[i] = q[i]
        /\ r[Len(q) + 1] = b
    OBVIOUS
  <1>3. \A i \in 1 .. (Len(q) + 1) :
          /\ s[i] \in Nat /\ i \in 1 .. (Len(q) + 2) /\ i # Len(q) + 2
          /\ z[i] = s[i]
    BY <1>2
  <1>4. z[Len(q) + 2] = 0
    BY <1>2
  <1>5. z \in [1 .. (Len(q) + 2) -> Nat]
    <2>1. \A i \in 1 .. (Len(q) + 2) :
            i # Len(q) + 2 => i \in 1 .. (Len(q) + 1)
      BY <1>2
    <2> QED BY <1>3, <2>1
  <1> HIDE DEF z
  <1>6. z[1] = u /\ z[Len(r) + 1] = 0
    BY <1>1, <1>2, <1>3, <1>4
  <1>7. \A i \in 1 .. Len(r) : z[i] = r[i].slots + z[i + 1]
    <2> TAKE i \in 1 .. Len(r)
    <2>1. CASE i = Len(q) + 1
      <3>1. z[i] = b.slots /\ z[i + 1] = 0 /\ r[i].slots = b.slots
        BY <1>1, <1>2, <1>3, <1>4, <2>1
      <3>2. b.slots \in Nat
        BY DEF Batch
      <3> QED BY <3>1, <3>2
    <2>2. CASE i \in 1 .. Len(q)
      <3>1. i \in 1 .. (Len(q) + 1) /\ i + 1 \in 1 .. (Len(q) + 1)
        BY <1>2, <2>2
      <3>2. z[i] = s[i] /\ z[i + 1] = s[i + 1] /\ r[i] = q[i]
        BY <1>2, <1>3, <2>2, <3>1
      <3> QED BY <1>1, <2>2, <3>2
    <2> QED BY <1>2, <2>1, <2>2
  <1>8. Len(r) + 1 = Len(q) + 2
    BY <1>2
  <1> HIDE DEF r
  <1>9. AddUp(r, 0, u)
    BY <1>5, <1>6, <1>7, <1>8 DEF AddUp
  <1> QED BY <1>9 DEF r

(* and the oldest batch leaves. *)
LEMMA RestAddUp ==
  ASSUME NEW q \in Seq(Batch), NEW n, NEW u, AddUp(q, n, u), Len(q) > 0
  PROVE  /\ AddUp(Tail(q), n, u - Head(q).slots)
         /\ u - Head(q).slots \in Nat
  <1>1. PICK s \in [1 .. (Len(q) + 1) -> Nat] :
          /\ s[1] = u /\ s[Len(q) + 1] = n
          /\ \A i \in 1 .. Len(q) : s[i] = q[i].slots + s[i + 1]
    BY DEF AddUp
  <1> DEFINE r == Tail(q)
             z == [i \in 1 .. Len(q) |-> s[i + 1]]
  <1>2. /\ Len(q) \in Nat /\ Len(r) + 1 = Len(q) /\ Len(r) \in Nat
        /\ \A i \in 1 .. Len(r) : r[i] = q[i + 1]
        /\ Head(q) = q[1] /\ q[1] \in Batch
    BY Dequeue, Later
  <1>3. \A i \in 1 .. Len(q) :
          i + 1 \in 1 .. (Len(q) + 1) /\ s[i + 1] \in Nat /\ z[i] = s[i + 1]
    BY <1>2
  <1>4. z \in [1 .. (Len(r) + 1) -> Nat]
    BY <1>2, <1>3
  <1>5. u - Head(q).slots = s[2] /\ s[2] \in Nat
    <2>1. s[1] = q[1].slots + s[2] /\ s[2] \in Nat
      BY <1>1, <1>2, <1>3
    <2>2. q[1].slots \in Nat
      BY <1>2 DEF Batch
    <2> QED BY <1>1, <1>2, <2>1, <2>2
  <1>6. z[1] = s[2] /\ z[Len(r) + 1] = n
    BY <1>1, <1>2, <1>3
  <1>7. \A i \in 1 .. Len(r) : z[i] = r[i].slots + z[i + 1]
    <2> TAKE i \in 1 .. Len(r)
    <2>1. i \in 1 .. Len(q) /\ i + 1 \in 1 .. Len(q)
      BY <1>2
    <2>2. z[i] = s[i + 1] /\ z[i + 1] = s[(i + 1) + 1]
      BY <1>3, <2>1
    <2>3. s[i + 1] = q[i + 1].slots + s[(i + 1) + 1] /\ r[i] = q[i + 1]
      BY <1>1, <1>2, <2>1
    <2> QED BY <2>2, <2>3
  <1> HIDE DEF r, z
  <1>8. AddUp(r, n, s[2])
    BY <1>4, <1>6, <1>7 DEF AddUp
  <1> QED BY <1>5, <1>8 DEF r

(* What the card does to a batch is not to its slots. *)
LEMMA SameAddUp ==
  ASSUME NEW q \in Seq(Batch), NEW r \in Seq(Batch), NEW n, NEW u,
         AddUp(q, n, u), Len(r) = Len(q),
         \A i \in 1 .. Len(q) : r[i].slots = q[i].slots
  PROVE  AddUp(r, n, u)
  BY DEF AddUp


-----------------------------------------------------------------------------
(* The bounds of the counts: no depth is ever exceeded. *)
Left == IF Husky THEN Int ELSE 0 .. Iters

Slots(e) ==
  /\ AddUp(ring[e], open[e].slots, used[e])
  /\ used[e] \in 0 .. SendDepth
  /\ sendCredits[e] >= 0

Fits(e) == recvCredits[e] >= 0 /\ rq[e] + rcqe[e] <= RecvDepth

Rest ==
  /\ client.left \in Left
  /\ cBroken \in [Eps -> BOOLEAN] /\ sBroken \in [Eps -> BOOLEAN]
  /\ sent \in [Eps -> 0 .. Iters] /\ completed \in 0 .. Iters

Bounded ==
  Senders /\ Rest /\ (\A e \in Eps : Slots(e)) /\ (\A e \in Eps : Fits(e))

LEMMA BoundedType == Bounded => TypeOK
  <1> SUFFICES ASSUME Bounded PROVE TypeOK
    OBVIOUS
  <1>1. /\ client \in ClientPlace /\ server \in ServerType
        /\ sendCredits \in [Eps -> Int]
        /\ sendBatchSize \in [Eps -> Seq({SendBatch})]
        /\ ring \in [Eps -> Seq(Batch)] /\ open \in [Eps -> Batch]
        /\ used \in [Eps -> Int] /\ recvCredits \in [Eps -> Int]
        /\ rq \in [Eps -> Nat] /\ rcqe \in [Eps -> Nat]
    BY DEF Bounded, Senders, Shape
  <1>2. client \in ClientType
    <2>1. client.left \in Left
      BY DEF Bounded, Rest
    <2> QED BY <1>1, <2>1 DEF ClientPlace, ClientType, Left
  <1>3. sendCredits \in [Eps -> 0 .. SendDepth]
    <2>1. ASSUME NEW e \in Eps
          PROVE  sendCredits[e] \in 0 .. SendDepth
      <3>1. /\ sendCredits[e] + SendBatch * Len(ring[e]) = SendDepth
            /\ sendCredits[e] \in Int /\ Len(ring[e]) \in Nat
        BY SenderFacts DEF Bounded
      <3>2. SendBatch * Len(ring[e]) \in Nat
        BY <3>1, BatchTimes
      <3>3. sendCredits[e] >= 0
        BY DEF Bounded, Slots
      <3> QED BY <3>1, <3>2, <3>3, Sizes
    <2> QED BY <1>1, <2>1
  <1>4. used \in [Eps -> 0 .. SendDepth]
    BY <1>1 DEF Bounded, Slots
  <1>5. recvCredits \in [Eps -> Nat]
    BY <1>1 DEF Bounded, Fits
  <1>6. rq \in [Eps -> 0 .. RecvDepth] /\ rcqe \in [Eps -> 0 .. RecvDepth]
    <2>1. ASSUME NEW e \in Eps
          PROVE  rq[e] \in 0 .. RecvDepth /\ rcqe[e] \in 0 .. RecvDepth
      <3>1. rq[e] + rcqe[e] <= RecvDepth /\ rq[e] \in Nat /\ rcqe[e] \in Nat
        BY <1>1 DEF Bounded, Fits
      <3> QED BY <3>1, Sizes
    <2> QED BY <1>1, <2>1
  <1> QED BY <1>1, <1>2, <1>3, <1>4, <1>5, <1>6 DEF TypeOK, Bounded, Rest

LEMMA InitBounded == Init => Bounded
  <1> SUFFICES ASSUME Init PROVE Bounded
    OBVIOUS
  <1>1. Rest
    BY DatapathAssumption DEF Init, Rest, Left
  <1>2. ASSUME NEW e \in Eps
        PROVE  Slots(e) /\ Fits(e)
    <2>1. /\ ring[e] = << >> /\ open[e].slots = 0 /\ used[e] = 0
          /\ sendCredits[e] = SendDepth
          /\ recvCredits[e] = 0 /\ rq[e] = RecvDepth /\ rcqe[e] = 0
      BY <1>2 DEF Init, Nothing
    <2>2. Slots(e)
      BY <2>1, NoneAddUp, Sizes DEF Slots
    <2>3. Fits(e)
      BY <2>1, Sizes DEF Fits
    <2> QED BY <2>2, <2>3
  <1> QED BY <1>1, <1>2, InitSenders DEF Bounded

(* The turns that are left, and what is counted up to Iters. *)
LEMMA CountsTo ==
  ASSUME NEW n \in Nat
  PROVE  UpTo(n, Iters) \in 0 .. Iters
  BY DatapathAssumption DEF UpTo

LEMMA NextRest ==
  ASSUME Bounded, [Next]_vars
  PROVE  Rest'
  <1>1. /\ client \in ClientPlace /\ client.left \in Left /\ client.left \in Int
        /\ cBroken \in [Eps -> BOOLEAN] /\ sBroken \in [Eps -> BOOLEAN]
        /\ sent \in [Eps -> 0 .. Iters] /\ completed \in 0 .. Iters
        /\ client.i \in Eps /\ Iters \in Nat
    BY DatapathAssumption DEF Bounded, Rest, Senders, Shape, ClientPlace
  <1>2. /\ client' = client => client'.left = client.left
        /\ NextEndpoint => client'.left = client.left
    BY <1>1 DEF NextEndpoint, ClientPlace
  <1>3. CASE ClientTurn
    <2>1. client'.left \in Left
      <3>1. \/ client'.left = client.left
            \/ /\ client'.left = client.left - 1 /\ client.left > 0
               /\ ~ Husky
        BY <1>1, <1>3 DEF ClientTurn, TurnsLeft, ClientPlace
      <3> QED BY <1>1, <3>1 DEF Left
    <2> QED BY <1>1, <1>3, <2>1 DEF ClientTurn, Rest, brokenVars, countVars
  <1>4. CASE ClientPost
    <2>1. PICK c \in Eps : sent' = [sent EXCEPT ![c] = UpTo(sent[c] + 1, Iters)]
      BY <1>1, <1>4 DEF ClientPost
    <2>2. UpTo(sent[c] + 1, Iters) \in 0 .. Iters
      <3>1. sent[c] + 1 \in Nat
        BY <1>1
      <3> QED BY <3>1, CountsTo
    <2>3. sent' \in [Eps -> 0 .. Iters]
      BY <1>1, <2>1, <2>2, Update
    <2> QED BY <1>1, <1>2, <1>4, <2>3 DEF ClientPost, Rest, brokenVars
  <1>5. CASE ClientPoll
    <2>1. completed' = UpTo(completed + SendBatch, Iters)
      BY <1>5 DEF ClientPoll
    <2>2. completed' \in 0 .. Iters
      <3>1. completed + SendBatch \in Nat
        BY <1>1, Sizes
      <3> QED BY <2>1, <3>1, CountsTo
    <2>3. client'.left = client.left
      BY <1>1, <1>5 DEF ClientPoll, ClientPlace
    <2> QED BY <1>1, <1>5, <2>2, <2>3 DEF ClientPoll, Rest, brokenVars
  <1>6. CASE ClientPolled
    <2>1. client'.left \in Left
      <3>1. \/ client'.left = client.left
            \/ client'.left = client.left - 1 /\ Husky
        BY <1>1, <1>6 DEF ClientPolled, Counted, ClientPlace
      <3> QED BY <1>1, <3>1 DEF Left
    <2> QED BY <1>1, <1>6, <2>1 DEF ClientPolled, Rest, brokenVars, countVars
  <1>7. CASE ClientSkip \/ ClientPostFails
    BY <1>1, <1>2, <1>7
       DEF ClientSkip, ClientPostFails, Rest, brokenVars, countVars
  <1>8. CASE ClientExit
    <2>1. client'.left = client.left
      BY <1>1, <1>8 DEF ClientExit, ClientPlace
    <2> QED BY <1>1, <1>8, <2>1 DEF ClientExit, Rest, brokenVars, countVars
  <1>9. CASE ServerStep \/ UNCHANGED vars
    BY <1>1, <1>9 DEF ServerStep, ServerSkip, ServerPost, ServerPostFails,
         ServerPoll, ServerPolled, ServerExit, Rest, brokenVars, countVars, vars
  <1>10. ASSUME NEW e \in Eps, NicSend(e) \/ ClientBreaks(e) \/ ServerBreaks(e)
         PROVE  Rest'
    <2>1. UNCHANGED <<client, countVars>>
      BY <1>10 DEF NicSend, ClientBreaks, ServerBreaks
    <2>2. cBroken' \in [Eps -> BOOLEAN] /\ sBroken' \in [Eps -> BOOLEAN]
      BY <1>1, <1>10 DEF NicSend, ClientBreaks, ServerBreaks, brokenVars
    <2> QED BY <1>1, <2>1, <2>2 DEF Rest, countVars
  <1> QED BY <1>3, <1>4, <1>5, <1>6, <1>7, <1>8, <1>9, <1>10
          DEF Next, ClientStep

(* The send queue of one endpoint changes, those of the others do not. *)
LEMMA OtherSlots ==
  ASSUME Bounded, NEW c \in Eps, NEW d \in Eps \ {c},
         ring'[d] = ring[d], open'[d] = open[d], used'[d] = used[d],
         sendCredits'[d] = sendCredits[d]
  PROVE  Slots(d)'
  BY DEF Bounded, Slots

LEMMA PostSlots ==
  ASSUME Bounded, ClientPost
  PROVE  \A e \in Eps : Slots(e)'
  <1>1. PICK c \in Eps : c = client.i
    BY Places DEF Bounded, Senders
  <1>2. /\ open \in [Eps -> Batch] /\ used \in [Eps -> Int]
        /\ ring \in [Eps -> Seq(Batch)] /\ sendCredits \in [Eps -> Int]
    BY DEF Bounded, Senders, Shape
  <1> DEFINE b == [slots |-> open[c].slots + SendBatch,
                   todo |-> open[c].todo + SendBatch]
  <1>3. b \in Batch /\ b.slots = open[c].slots + SendBatch
    BY <1>2, BatchJoins, Sizes
  <1>4. /\ ring'[c] = ring[c] \o <<b>> /\ open'[c] = Nothing
        /\ used'[c] = used[c] + SendBatch
        /\ sendCredits'[c] = sendCredits[c] - SendBatch
        /\ SendBatch <= sendCredits[c] /\ used[c] + SendBatch <= SendDepth
    BY <1>1, <1>2 DEF ClientPost, Accepted, Charge, MayPost
  <1>5. \A d \in Eps \ {c} :
          /\ ring'[d] = ring[d] /\ open'[d] = open[d] /\ used'[d] = used[d]
          /\ sendCredits'[d] = sendCredits[d]
    BY <1>1, <1>2 DEF ClientPost, Charge
  <1> HIDE DEF b
  <1>6. AddUp(ring[c], open[c].slots, used[c]) /\ used[c] \in 0 .. SendDepth
    BY DEF Bounded, Slots
  <1>7. AddUp(ring[c], b.slots, used[c] + SendBatch)
    <2>1. ring[c] \in Seq(Batch) /\ open[c].slots \in Nat
      BY <1>2 DEF Batch
    <2> QED BY <1>3, <1>6, <2>1, MoreAddUp, Sizes
  <1>8. AddUp(ring[c] \o <<b>>, 0, used[c] + SendBatch)
    BY <1>2, <1>3, <1>7, BatchAddUp
  <1>9. used[c] + SendBatch \in 0 .. SendDepth /\ sendCredits[c] - SendBatch >= 0
    BY <1>2, <1>4, <1>6, Sizes
  <1>10. Slots(c)'
    BY <1>4, <1>8, <1>9 DEF Slots, Nothing
  <1> QED BY <1>5, <1>10, OtherSlots

LEMMA PostFailsSlots ==
  ASSUME Bounded, ClientPostFails
  PROVE  \A e \in Eps : Slots(e)'
  <1>1. PICK c \in Eps : c = client.i
    BY Places DEF Bounded, Senders
  <1>2. /\ open \in [Eps -> Batch] /\ used \in [Eps -> Int]
        /\ ring \in [Eps -> Seq(Batch)]
    BY DEF Bounded, Senders, Shape
  <1>3. PICK n \in 0 .. (SendBatch - 1) :
          /\ used[c] + n <= SendDepth
          /\ open' = [open EXCEPT ![c] = [slots |-> open[c].slots + n,
                                         todo |-> open[c].todo + n]]
          /\ used' = [used EXCEPT ![c] = used[c] + n]
    BY <1>1 DEF ClientPostFails
  <1>4. /\ open'[c].slots = open[c].slots + n /\ used'[c] = used[c] + n
        /\ \A d \in Eps \ {c} : open'[d] = open[d] /\ used'[d] = used[d]
        /\ n \in Nat
    BY <1>2, <1>3, Sizes
  <1>5. UNCHANGED <<ring, sendCredits>>
    BY DEF ClientPostFails, FailedPost
  <1>6. /\ AddUp(ring[c], open[c].slots, used[c]) /\ used[c] \in 0 .. SendDepth
        /\ sendCredits[c] >= 0
    BY DEF Bounded, Slots
  <1>7. AddUp(ring[c], open[c].slots + n, used[c] + n)
    <2>1. ring[c] \in Seq(Batch) /\ open[c].slots \in Nat
      BY <1>2 DEF Batch
    <2> QED BY <1>4, <1>6, <2>1, MoreAddUp
  <1>8. used[c] + n \in 0 .. SendDepth
    BY <1>3, <1>4, <1>6, Sizes
  <1>9. Slots(c)'
    BY <1>4, <1>5, <1>6, <1>7, <1>8 DEF Slots
  <1> QED BY <1>4, <1>5, <1>9, OtherSlots

LEMMA PollSlots ==
  ASSUME Bounded, ClientPoll
  PROVE  \A e \in Eps : Slots(e)'
  <1>1. PICK c \in Eps :
          /\ SendDone(c)
          /\ sendCredits' = [sendCredits EXCEPT
                               ![c] = sendCredits[c] + Head(sendBatchSize[c])]
          /\ used' = [used EXCEPT ![c] = used[c] - Head(ring[c]).slots]
          /\ ring' = [ring EXCEPT ![c] = Tail(ring[c])]
    BY DEF ClientPoll, SendHandler
  <1>2. /\ used \in [Eps -> Int] /\ ring \in [Eps -> Seq(Batch)]
        /\ sendCredits \in [Eps -> Int] /\ open' = open
        /\ sendBatchSize[c] \in Seq({SendBatch})
        /\ Len(sendBatchSize[c]) = Len(ring[c])
    BY SenderFacts DEF Bounded, Senders, Shape, ClientPoll
  <1>3. Len(ring[c]) > 0 /\ Head(sendBatchSize[c]) = SendBatch
    <2>1. Len(ring[c]) > 0
      BY <1>1, <1>2 DEF SendDone
    <2>2. Head(sendBatchSize[c]) \in {SendBatch}
      BY <1>2, <2>1, Dequeue
    <2> QED BY <2>1, <2>2
  <1>4. /\ AddUp(ring[c], open[c].slots, used[c]) /\ used[c] \in 0 .. SendDepth
        /\ sendCredits[c] >= 0
    BY DEF Bounded, Slots
  <1> DEFINE u == used[c] - Head(ring[c]).slots
  <1>5. AddUp(Tail(ring[c]), open[c].slots, u) /\ u \in Nat
    <2>1. ring[c] \in Seq(Batch)
      BY <1>2
    <2> QED BY <1>3, <1>4, <2>1, RestAddUp
  <1>6. u \in 0 .. SendDepth
    <2>1. Head(ring[c]) \in Batch
      BY <1>2, <1>3, Dequeue
    <2>2. Head(ring[c]).slots \in Nat
      BY <2>1 DEF Batch
    <2> QED BY <1>4, <1>5, <2>2, Sizes
  <1>7. ring'[c] = Tail(ring[c]) /\ used'[c] = u
    BY <1>1, <1>2
  <1>8. sendCredits'[c] >= 0
    <2>1. sendCredits'[c] = sendCredits[c] + SendBatch
      BY <1>1, <1>2, <1>3
    <2> QED BY <1>2, <1>4, <2>1, Sizes
  <1>9. \A d \in Eps \ {c} :
          /\ ring'[d] = ring[d] /\ used'[d] = used[d]
          /\ sendCredits'[d] = sendCredits[d]
    BY <1>1, <1>2
  <1> HIDE DEF u
  <1>10. Slots(c)'
    BY <1>2, <1>5, <1>6, <1>7, <1>8 DEF Slots
  <1> QED BY <1>2, <1>9, <1>10, OtherSlots

LEMMA SendSlots ==
  ASSUME Bounded, NEW c \in Eps, NicSend(c)
  PROVE  \A e \in Eps : Slots(e)'
  <1>1. /\ ring' \in [Eps -> Seq(Batch)] /\ ring \in [Eps -> Seq(Batch)]
        /\ \A d \in Eps : Len(ring'[d]) = Len(ring[d])
        /\ \A d \in Eps : \A n \in 1 .. Len(ring[d]) :
             ring'[d][n].slots = ring[d][n].slots
        /\ \A d \in Eps : open'[d].slots = open[d].slots
    BY CardSends DEF Bounded, Senders, Shape
  <1>2. UNCHANGED <<used, sendCredits>>
    BY DEF NicSend
  <1> TAKE e \in Eps
  <1>3. ring[e] \in Seq(Batch) /\ ring'[e] \in Seq(Batch)
    BY <1>1
  <1>4. Slots(e)
    BY DEF Bounded
  <1>5. AddUp(ring'[e], open[e].slots, used[e])
    BY <1>1, <1>3, <1>4, SameAddUp DEF Slots
  <1> QED BY <1>1, <1>2, <1>4, <1>5 DEF Slots


LEMMA NextSlots ==
  ASSUME Bounded, [Next]_vars
  PROVE  \A e \in Eps : Slots(e)'
  <1>1. CASE UNCHANGED <<ring, open, used, sendCredits>>
    BY <1>1 DEF Bounded, Slots
  <1>2. CASE \/ ClientTurn \/ ClientSkip \/ ClientPolled \/ ClientExit
             \/ ServerStep \/ UNCHANGED vars
             \/ \E e \in Eps : ClientBreaks(e) \/ ServerBreaks(e)
    <2>1. UNCHANGED senderVars
      BY <1>2 DEF ClientTurn, ClientSkip, ClientPolled, ClientExit, ServerStep,
           ServerSkip, ServerPost, ServerPostFails, ServerPoll, ServerPolled,
           ServerExit, ClientBreaks, ServerBreaks, vars
    <2> QED BY <1>1, <2>1 DEF senderVars
  <1> QED BY <1>2, PostSlots, PostFailsSlots, PollSlots, SendSlots
          DEF Next, ClientStep

(* The receives of one endpoint change, those of the others do not. *)
LEMMA FitsMoves ==
  ASSUME Bounded, NEW c \in Eps,
         \A d \in Eps \ {c} :
           /\ recvCredits'[d] = recvCredits[d]
           /\ rq'[d] = rq[d] /\ rcqe'[d] = rcqe[d],
         recvCredits'[c] >= 0, rq'[c] + rcqe'[c] <= RecvDepth
  PROVE  \A e \in Eps : Fits(e)'
  BY DEF Bounded, Fits

LEMMA NextFits ==
  ASSUME Bounded, [Next]_vars
  PROVE  \A e \in Eps : Fits(e)'
  <1>1. /\ recvCredits \in [Eps -> Int] /\ rq \in [Eps -> Nat]
        /\ rcqe \in [Eps -> Nat]
    BY DEF Bounded, Senders, Shape
  <1>2. CASE UNCHANGED receiverVars
    BY <1>2 DEF Bounded, Fits, receiverVars
  <1>3. PICK c \in Eps : c = server.i
    BY Places DEF Bounded, Senders
  <1> DEFINE n == UpTo(recvCredits[c], RecvBatch)
  <1>4. /\ recvCredits[c] \in Int /\ rq[c] \in Nat /\ rcqe[c] \in Nat
        /\ recvCredits[c] >= 0 /\ rq[c] + rcqe[c] <= RecvDepth
        /\ n \in Nat /\ n <= recvCredits[c]
    <2>1. /\ recvCredits[c] \in Int /\ rq[c] \in Nat /\ rcqe[c] \in Nat
          /\ recvCredits[c] >= 0 /\ rq[c] + rcqe[c] <= RecvDepth
      BY <1>1 DEF Bounded, Fits
    <2> QED BY <2>1, Sizes DEF UpTo
  <1>5. CASE ServerPost
    <2>1. /\ rq[c] + rcqe[c] + n <= RecvDepth
          /\ recvCredits'[c] = recvCredits[c] - n
          /\ rq'[c] = rq[c] + n /\ rcqe' = rcqe
          /\ \A d \in Eps \ {c} :
               recvCredits'[d] = recvCredits[d] /\ rq'[d] = rq[d]
      BY <1>1, <1>3, <1>5 DEF ServerPost
    <2> HIDE DEF n
    <2>2. /\ recvCredits'[c] >= 0 /\ rq'[c] + rcqe'[c] <= RecvDepth
      BY <1>4, <2>1, Sizes
    <2> QED BY <2>1, <2>2, FitsMoves
  <1>6. CASE ServerPostFails
    <2>1. PICK k \in 0 .. (n - 1) :
            /\ rq[c] + rcqe[c] + k <= RecvDepth
            /\ rq' = [rq EXCEPT ![c] = rq[c] + k]
      BY <1>3, <1>6 DEF ServerPostFails
    <2>2. UNCHANGED <<recvCredits, rcqe>> /\ k \in Nat
      BY <1>4, <1>6 DEF ServerPostFails
    <2>3. rq'[c] = rq[c] + k /\ \A d \in Eps \ {c} : rq'[d] = rq[d]
      BY <1>1, <2>1
    <2> HIDE DEF n
    <2>4. recvCredits'[c] >= 0 /\ rq'[c] + rcqe'[c] <= RecvDepth
      BY <1>4, <2>1, <2>2, <2>3, Sizes
    <2> QED BY <2>2, <2>3, <2>4, FitsMoves
  <1>7. CASE ServerPoll
    <2>1. PICK e \in Eps :
            /\ rcqe[e] > 0
            /\ recvCredits' = [recvCredits EXCEPT ![e] = recvCredits[e] + 1]
            /\ rcqe' = [rcqe EXCEPT ![e] = rcqe[e] - 1]
      BY <1>7 DEF ServerPoll, RecvHandler
    <2>2. /\ recvCredits'[e] = recvCredits[e] + 1 /\ rcqe'[e] = rcqe[e] - 1
          /\ \A d \in Eps \ {e} :
               recvCredits'[d] = recvCredits[d] /\ rcqe'[d] = rcqe[d]
          /\ rq' = rq
      BY <1>1, <1>7, <2>1 DEF ServerPoll
    <2>3. recvCredits[e] >= 0 /\ rq[e] + rcqe[e] <= RecvDepth
      BY DEF Bounded, Fits
    <2>4. recvCredits'[e] >= 0 /\ rq'[e] + rcqe'[e] <= RecvDepth
      BY <1>1, <2>2, <2>3, Sizes
    <2> QED BY <2>2, <2>4, FitsMoves
  <1>8. ASSUME NEW e \in Eps, NicSend(e)
        PROVE  \A d \in Eps : Fits(d)'
    <2>1. recvCredits' = recvCredits
      BY <1>8 DEF NicSend
    <2>2. CASE UNCHANGED <<rq, rcqe>>
      BY <1>2, <2>1, <2>2 DEF receiverVars
    <2>3. CASE /\ rq' = [rq EXCEPT ![e] = rq[e] - 1]
               /\ rcqe' = [rcqe EXCEPT ![e] = rcqe[e] + 1]
      <3>1. /\ rq'[e] = rq[e] - 1 /\ rcqe'[e] = rcqe[e] + 1
            /\ \A d \in Eps \ {e} : rq'[d] = rq[d] /\ rcqe'[d] = rcqe[d]
        BY <1>1, <2>3
      <3>2. recvCredits[e] >= 0 /\ rq[e] + rcqe[e] <= RecvDepth
        BY DEF Bounded, Fits
      <3>3. rq'[e] + rcqe'[e] <= RecvDepth
        BY <1>1, <3>1, <3>2, Sizes
      <3> QED BY <2>1, <3>1, <3>2, <3>3, FitsMoves
    <2> QED BY <1>8, <2>2, <2>3 DEF NicSend, Delivered
  <1>9. CASE \/ ClientStep \/ ServerSkip \/ ServerPolled \/ ServerExit
             \/ UNCHANGED vars
             \/ \E e \in Eps : ClientBreaks(e) \/ ServerBreaks(e)
    <2>1. UNCHANGED receiverVars
      BY <1>9 DEF ClientStep, ClientTurn, ClientSkip, ClientPost,
           ClientPostFails, ClientPoll, ClientPolled, ClientExit, ServerSkip,
           ServerPolled, ServerExit, ClientBreaks, ServerBreaks, vars
    <2> QED BY <1>2, <2>1
  <1> QED BY <1>5, <1>6, <1>7, <1>8, <1>9 DEF Next, ServerStep

LEMMA NextBounded == Bounded /\ [Next]_vars => Bounded'
  <1>1. Senders /\ [Next]_vars => Senders'
    BY ClientSenders, ServerSenders, OtherSenders, StutterSenders DEF Next
  <1> QED BY <1>1, NextRest, NextSlots, NextFits DEF Bounded

(* Every variable keeps its type, whatever fails: credits never go below   *)
(* zero or beyond the depth, and neither queue ever holds more than it was *)
(* created for.                                                            *)
THEOREM TypeCorrect == Spec => []TypeOK
  BY InitBounded, NextBounded, BoundedType, PTL DEF Spec

-----------------------------------------------------------------------------
(* Husky's iterations: each one counted saw a completion of its own.       *)
Turns ==
  /\ Husky /\ ~ RunInfinitely =>
       \/ completed = Iters
       \/ completed >= Iters - client.left + (IF client.got THEN 1 ELSE 0)
  /\ client.at = "done" => ~ RunInfinitely /\ client.left <= 0

LEMMA TurnsStay ==
  ASSUME Turns, completed' = completed, client' = client
  PROVE  Turns'
  BY DEF Turns

LEMMA NextTurns ==
  ASSUME TypeOK, Turns, [Next]_vars
  PROVE  Turns'
  <1>1. /\ client \in ClientPlace /\ client.left \in Int /\ client.got \in BOOLEAN
        /\ completed \in 0 .. Iters /\ Iters \in Nat /\ completed \in Int
    <2>1. client \in ClientType /\ completed \in 0 .. Iters /\ Iters \in Nat
      BY DatapathAssumption DEF TypeOK
    <2>2. client.left \in Int
      BY <2>1 DEF ClientType
    <2> QED BY <2>1, <2>2 DEF ClientType, ClientPlace
  <1>2. ASSUME completed' = completed, client'.left = client.left,
               client'.got = client.got \/ ~ client'.got,
               client'.at # "done"
        PROVE  Turns'
    BY <1>1, <1>2 DEF Turns
  <1>3. CASE ClientTurn
    <2>1. completed' = completed /\ client'.got = client.got
      BY <1>1, <1>3 DEF ClientTurn, countVars, ClientPlace
    <2>2. CASE TurnsLeft
      <3>1. /\ client'.at = "post"
            /\ Husky => client'.left = client.left
        BY <1>1, <1>3, <2>2 DEF ClientTurn, ClientPlace
      <3> QED BY <2>1, <3>1 DEF Turns
    <2>3. CASE ~ TurnsLeft
      <3>1. client'.left = client.left /\ client.left <= 0 /\ ~ RunInfinitely
        BY <1>1, <1>3, <2>3 DEF ClientTurn, TurnsLeft, ClientPlace
      <3> QED BY <2>1, <3>1 DEF Turns
    <2> QED BY <2>2, <2>3
  <1>4. CASE ClientSkip \/ ClientPost \/ ClientPostFails
    <2>1. NextEndpoint /\ completed' = completed /\ client.at = "post"
      BY <1>4 DEF ClientSkip, ClientPost, ClientPostFails, countVars
    <2>2. /\ client'.left = client.left /\ client'.at # "done"
          /\ client'.got = client.got \/ ~ client'.got
      BY <1>1, <2>1 DEF NextEndpoint, ClientPlace
    <2> QED BY <1>2, <2>1, <2>2
  <1>5. CASE ClientPoll
    <2>1. /\ completed' = UpTo(completed + SendBatch, Iters)
          /\ client'.left = client.left /\ client'.at = "poll" /\ client'.got
      BY <1>1, <1>5 DEF ClientPoll, ClientPlace
    <2>2. completed' = Iters \/ completed' = completed + SendBatch
      BY <2>1 DEF UpTo
    <2>3. completed = Iters => completed' = Iters
      BY <1>1, <2>1, Sizes DEF UpTo
    <2>4. CASE completed' = Iters
      BY <2>1, <2>4 DEF Turns
    <2>5. CASE completed' = completed + SendBatch /\ completed # Iters
      <3>1. Husky /\ ~ RunInfinitely =>
              completed' >= Iters - client.left + 1
        BY <1>1, <2>5, Sizes DEF Turns
      <3> QED BY <2>1, <3>1 DEF Turns
    <2> QED BY <2>2, <2>3, <2>4, <2>5
  <1>6. CASE ClientPolled
    <2>1. /\ completed' = completed /\ client'.at # "done" /\ ~ client'.got
          /\ client'.left = IF Counted THEN client.left - 1 ELSE client.left
      BY <1>1, <1>6 DEF ClientPolled, countVars, ClientPlace
    <2>2. CASE Counted
      <3>1. client.got /\ client'.left = client.left - 1
        BY <2>1, <2>2 DEF Counted
      <3> QED BY <1>1, <2>1, <3>1 DEF Turns
    <2>3. CASE ~ Counted
      BY <1>2, <2>1, <2>3
    <2> QED BY <2>2, <2>3
  <1>7. CASE ClientExit
    <2>1. /\ completed' = completed /\ client'.at # "done"
          /\ client'.left = client.left /\ client'.got = client.got
      BY <1>1, <1>7 DEF ClientExit, countVars, ClientPlace
    <2> QED BY <1>2, <2>1
  <1>8. CASE \/ ServerStep \/ UNCHANGED vars
             \/ \E e \in Eps : NicSend(e) \/ ClientBreaks(e) \/ ServerBreaks(e)
    <2>1. UNCHANGED <<client, completed>>
      BY <1>8 DEF ServerStep, ServerSkip, ServerPost, ServerPostFails,
           ServerPoll, ServerPolled, ServerExit, NicSend, ClientBreaks,
           ServerBreaks, vars, countVars
    <2> QED BY <2>1, TurnsStay
  <1> QED BY <1>3, <1>4, <1>5, <1>6, <1>7, <1>8 DEF Next, ClientStep

(* Husky's client ends its loop only after Iters requests completed, for   *)
(* any batch size and however its polls and the cards interleave.          *)
THEOREM IterationsDone == Spec => []AtLeastIters
  <1>1. Init => Turns
    <2> SUFFICES ASSUME Init PROVE Turns
      OBVIOUS
    <2>1. /\ client.left = Iters /\ ~ client.got /\ completed = 0
          /\ client.at = "turn"
      BY DEF Init
    <2> QED BY <2>1, DatapathAssumption DEF Turns
  <1>2. TypeOK /\ Turns => AtLeastIters
    <2> SUFFICES ASSUME TypeOK, Turns, Husky, client.at = "done"
                 PROVE  completed = Iters
      BY DEF AtLeastIters
    <2>1. /\ client.left \in Int /\ client.left <= 0 /\ ~ RunInfinitely
          /\ completed \in 0 .. Iters /\ Iters \in Nat
      <3>1. client \in ClientType
        BY DEF TypeOK
      <3>2. client.left \in Int
        BY <3>1 DEF ClientType
      <3> QED BY <3>2, DatapathAssumption DEF TypeOK, Turns
    <2>2. \/ completed = Iters
          \/ completed >= Iters - client.left + (IF client.got THEN 1 ELSE 0)
      BY <2>1 DEF Turns
    <2> QED BY <2>1, <2>2
  <1> QED BY <1>1, <1>2, NextTurns, TypeCorrect, PTL DEF Spec


-----------------------------------------------------------------------------
(* Without faults credits never run dry: every credit an endpoint lacks is *)
(* on its way back. *)

(* No connection breaks, and neither thread has seen a bad completion.     *)
Unharmed ==
  /\ client.at # "exit" /\ server.at # "stopped"
  /\ \A e \in Eps : ~ cBroken[e] /\ ~ sBroken[e]

(* The card has a request of e to carry out, and needs no receive or has   *)
(* one.                                                                    *)
CardCanSend(e) ==
  /\ ~ cBroken[e]
  /\ \E n \in DOMAIN ring[e] :
       ring[e][n].todo > 0 /\ \A k \in 1 .. (n - 1) : ring[e][k].todo = 0
  /\ ~ TwoSided \/ ~ Reliable \/ (rq[e] > 0 /\ Reachable(e))

(* ServerDatapath has a receive of e to take back or to post again.        *)
ServerCanPost(e) ==
  server.at # "stopped" /\ (rcqe[e] > 0 \/ recvCredits[e] > 0)

(* An endpoint has credits for a batch and room for it, or a completion    *)
(* that brings some back, or a request the card can carry out, or one that *)
(* waits for a receive only until ServerDatapath's next turn.              *)
CreditsReturn ==
  /\ client.at # "exit" /\ server.at # "stopped"
  /\ \A e \in Active :
       \/ MayPost(e) /\ used[e] + SendBatch <= SendDepth
       \/ SendDone(e)
       \/ CardCanSend(e)
       \/ ServerCanPost(e)

LEMMA NextUnharmed ==
  ASSUME IInv, ~ Faults, Unharmed, [Next]_vars
  PROVE  Unharmed'
  <1>1. /\ client \in ClientPlace /\ server \in ServerType
        /\ server.i \in Eps
    BY Places DEF IInv, Senders, Shape
  <1>2. UNCHANGED <<cBroken, sBroken>>
    BY NoFailures DEF Next, ClientStep, ServerStep, ClientTurn, ClientSkip,
         ClientPost, ClientPoll, ClientPolled, ClientExit, ServerSkip,
         ServerPost, ServerPoll, ServerPolled, ServerExit, NicSend, vars,
         brokenVars
  <1>3. ~ ClientExit /\ ~ ServerExit
    BY DEF Unharmed, ClientExit, ServerExit
  <1>4. client'.at # "exit"
    <2>1. CASE UNCHANGED client
      BY <2>1 DEF Unharmed
    <2>2. CASE ClientTurn \/ ClientPoll \/ ClientPolled
      BY <1>1, <2>2 DEF ClientTurn, ClientPoll, ClientPolled, ClientPlace
    <2>3. CASE NextEndpoint /\ client.at = "post"
      BY <1>1, <2>3 DEF NextEndpoint, ClientPlace
    <2>4. \/ ClientTurn \/ ClientPoll \/ ClientPolled \/ UNCHANGED client
          \/ NextEndpoint /\ client.at = "post"
      BY <1>3, NoFailures DEF Next, ClientStep, ServerStep, ClientSkip,
           ClientPost, ServerSkip, ServerPost, ServerPoll, ServerPolled,
           NicSend, vars
    <2> QED BY <2>1, <2>2, <2>3, <2>4
  <1>5. server'.at # "stopped"
    <2>1. CASE UNCHANGED server
      BY <2>1 DEF Unharmed
    <2>2. CASE ServerPolled
      BY <1>1, <2>2 DEF ServerPolled, ServerType
    <2>3. CASE NextReceiver /\ server.at = "post"
      BY <1>1, <2>3 DEF NextReceiver, ServerType
    <2>4. \/ ServerPolled \/ UNCHANGED server
          \/ NextReceiver /\ server.at = "post"
      BY <1>3, NoFailures DEF Next, ClientStep, ServerStep, ClientTurn,
           ClientSkip, ClientPost, ClientPoll, ClientPolled, ServerSkip,
           ServerPost, ServerPoll, NicSend, vars
    <2> QED BY <2>1, <2>2, <2>3, <2>4
  <1> QED BY <1>2, <1>4, <1>5 DEF Unharmed

LEMMA OnTheWayBack ==
  ASSUME SendBatch <= SendDepth, IInv, Unharmed
  PROVE  CreditsReturn
  <1> SUFFICES ASSUME NEW e \in Active, ~ MayPost(e), ~ SendDone(e),
                      ~ ServerCanPost(e)
               PROVE  CardCanSend(e)
    <2>1. ASSUME NEW e \in Active, MayPost(e)
          PROVE  used[e] + SendBatch <= SendDepth
      <3>1. e \in Eps /\ SendBatch <= sendCredits[e]
        BY <2>1, DatapathAssumption DEF MayPost
      <3>2. used[e] = SendDepth - sendCredits[e] /\ sendCredits[e] \in Int
        BY <3>1, RoomForBatch, SenderFacts DEF IInv
      <3> QED BY <3>1, <3>2, Sizes
    <2> QED BY <2>1 DEF CreditsReturn, Unharmed
  <1>1. /\ e \in Eps
        /\ sendCredits[e] \in Int /\ ring[e] \in Seq(Batch)
        /\ Len(ring[e]) \in Nat
        /\ sendCredits[e] + SendBatch * Len(ring[e]) = SendDepth
    <2>1. e \in Eps
      BY DatapathAssumption
    <2> QED BY <2>1, SenderFacts DEF IInv
  <1>2. Len(ring[e]) > 0
    <2>1. sendCredits[e] < SendBatch
      BY <1>1, Sizes DEF MayPost
    <2>2. Len(ring[e]) # 0
      BY <1>1, <2>1, BatchTimes, Sizes
    <2> QED BY <1>1, <2>2
  <1>3. /\ ring[e] # << >> /\ 1 \in DOMAIN ring[e]
        /\ Head(ring[e]) = ring[e][1] /\ ring[e][1] \in Batch
    BY <1>1, <1>2
  <1>4. ring[e][1].todo > 0
    <2>1. ring[e][1].todo \in Nat /\ ring[e][1].todo # 0
      BY <1>3 DEF SendDone, Batch
    <2> QED BY <2>1
  <1>5. rq[e] > 0
    <2>1. /\ recvCredits[e] \in Int /\ rq[e] \in Nat /\ rcqe[e] \in Nat
          /\ recvCredits[e] >= 0
          /\ recvCredits[e] + rq[e] + rcqe[e] = RecvDepth
      BY <1>1 DEF IInv, Exact, AllReceives, Senders, Shape
    <2>2. ~ (rcqe[e] > 0) /\ ~ (recvCredits[e] > 0)
      BY DEF ServerCanPost, Unharmed
    <2>3. RecvDepth \in Nat /\ RecvDepth > 0
      BY DatapathAssumption
    <2> QED BY <2>1, <2>2, <2>3
  <1>6. ~ cBroken[e] /\ Reachable(e)
    BY <1>1 DEF Unharmed, Reachable
  <1>7. \A k \in 1 .. (1 - 1) : ring[e][k].todo = 0
    OBVIOUS
  <1> QED BY <1>3, <1>4, <1>5, <1>6, <1>7 DEF CardCanSend

(* When nothing fails and the send queue has room for a batch at all, no   *)
(* endpoint of any number ever waits for credits that nobody will return,  *)
(* and neither thread ends with an error: SENDs that wait for receives,    *)
(* receives that wait for credits and credits that wait for completions    *)
(* never form a circle.                                                    *)
THEOREM NoCreditDeadlock ==
  ASSUME ~ Faults, SendBatch <= SendDepth
  PROVE  Spec => []CreditsReturn
  <1>1. Init => Unharmed
    BY DEF Init, Unharmed
  <1>2. IInv /\ Unharmed /\ [Next]_vars => Unharmed'
    BY NextUnharmed
  <1>3. IInv /\ Unharmed => CreditsReturn
    BY OnTheWayBack
  <1> QED BY <1>1, <1>2, <1>3, Accounts, PTL DEF Spec

=============================================================================
