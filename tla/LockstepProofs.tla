---------------------------- MODULE LockstepProofs ----------------------------
(***************************************************************************)
(* Proofs about the conversation of Handshake: that the two sides stay in  *)
(* lockstep, that what they exchange pairs their endpoints, and that the   *)
(* handshake implements QpPairing, for any clients, servers and sizes.     *)
(*                                                                         *)
(* The messages of a connection are numbered: the host information, BufNum *)
(* buffers, the queue pairs and GoGo.  The n-th message of either side is  *)
(* a function of n; the locals of its thread say how many it has sent.     *)
(* The operators take the locals and sockets they speak of as parameters,  *)
(* so that one formula serves the state before a step and the one after.   *)
(***************************************************************************)
EXTENDS HandshakeProofs, SequenceTheorems

(* The first endpoint the client of connection k keeps for its server. *)
Base(k) == k[2] * Qps[k[1]]

(* The n-th message of the client of connection k. *)
Question(k, n) ==
  IF n = 1 THEN HostMsg(Qps[k[1]], BufNum, k[1])
  ELSE IF n <= BufNum + 1 THEN MemMsg(k[1])
  ELSE IF n <= BufNum + 1 + Qps[k[1]] THEN ChanMsg(Base(k) + (n - BufNum - 2))
  ELSE GoGoMsg

(* The n-th answer of its handler, whose block starts at left. *)
Answer(k, left, n) ==
  IF n = 1 THEN HostMsg(Qps[k[1]], 0, k[2])
  ELSE IF n <= BufNum + 1 THEN MemMsg(k[2])
  ELSE IF n <= BufNum + 1 + Qps[k[1]] THEN ChanMsg(left + (n - BufNum - 2))
  ELSE GoGoMsg

(* The messages client c has sent in the Connect with the locals x. *)
Sent(c, x) ==
  IF x.pc = "host" THEN 1
  ELSE IF x.pc = "mem" THEN x.idx + 2
  ELSE IF x.pc = "chan" THEN BufNum + 2 + x.idx
  ELSE BufNum + 2 + Qps[c]

(* The messages the handler with the locals y has read and answered. *)
Heard(y) ==
  IF y.pc \in {"backlog", "host"} THEN 0
  ELSE IF y.pc \in {"mem", "push"} THEN y.idx + 1
  ELSE IF y.pc \in {"chan", "gogo"} THEN BufNum + 1 + (y.idx - y.left)
  ELSE BufNum + 2 + (y.idx - y.left)

(* Buffers of one process. *)
Filled(n, p) == [b \in 1 .. n |-> p]

Filling == {"chan", "activate", "first", "publish"}
Admitted == {"mem", "push", "gogo"} \cup Filling
AtWork == {"backlog", "host"} \cup Admitted

(* The locals of a client fit the place it is at. *)
ClientSane(c, x) ==
  /\ x.pc \in {"tcp", "host"} => x.idx = 0 /\ x.bufs = << >>
  /\ x.pc = "mem" => x.idx < BufNum /\ x.bufs = Filled(x.idx, x.connid)
  /\ x.pc = "chan" => x.idx < Qps[c]
  /\ x.pc = "gogo" => x.idx = Qps[c] - 1
  /\ x.pc \in {"mem", "chan", "gogo"} => x.gid = x.connid

(* The locals of a handler fit the place it is at: once its client is      *)
(* admitted, it knows the client and has a block as large as asked for.    *)
HandlerSane(k, y) ==
  /\ y.pc \in {"none", "backlog", "host"} =>
       y.qps = 0 /\ y.idx = 0 /\ y.bufs = << >>
  /\ y.pc = "failed" => y.qps \in {0, Qps[k[1]]}
  /\ y.pc \in Admitted \cup {"done"} =>
       y.qps = Qps[k[1]] /\ y.gid = k[1] /\ y.mems = BufNum
  /\ y.pc = "mem" => y.idx < BufNum /\ y.bufs = Filled(y.idx, k[1])
  /\ y.pc = "push" => y.idx = BufNum /\ y.bufs = Filled(BufNum, k[1])
  /\ y.pc \in Filling => y.left <= y.idx /\ y.idx < y.left + y.qps
  /\ y.pc \in {"gogo", "done"} => y.idx = y.left + y.qps

(* The client with the locals x is in Connect on connection k, has not     *)
(* turned to it yet.                                                       *)
Talking(k, x) == x.connid = k[2] /\ x.pc \in Reading
NotYet(k, x) == k[2] > x.connid \/ (k[2] = x.connid /\ x.pc = "tcp")

(* The answer on the wire is the one the client waits for. *)
Answered(k, x, y, w) ==
  \/ /\ w.toC = <<Answer(k, y.left, Sent(k[1], x))>>
     /\ y.qps = Qps[k[1]]
     /\ y.pc \in AtWork \cup {"done"} => Heard(y) = Sent(k[1], x)
  \/ w.toC = <<RejectMsg>> /\ x.pc = "host" /\ y.pc = "failed"

(* The message on the wire is the next one of the conversation, and the    *)
(* two sides agree on how far it is.                                       *)
InStep(k, x, y, w) ==
  /\ Len(w.toS) + Len(w.toC) <= 1
  /\ y.pc \in AtWork /\ w.toS # << >> =>
       w.toS = <<Question(k, Heard(y) + 1)>>
  /\ NotYet(k, x) => y = NewHandler /\ w = NewSocket
  /\ Talking(k, x) =>
       /\ x.pc # "host" => y.qps = Qps[k[1]]
       /\ y.pc \in AtWork /\ w.toS # << >> => Heard(y) + 1 = Sent(k[1], x)
       /\ w.toC # << >> => Answered(k, x, y, w)

Wire ==
  /\ \A c \in Clients : ClientSane(c, cl[c])
  /\ \A k \in Conn : HandlerSane(k, h[k])
  /\ \A k \in Conn : InStep(k, cl[k[1]], h[k], sock[k])

-----------------------------------------------------------------------------
(* Queues of one message, rows of one process. *)

(* Reading the only message and writing one. *)
LEMMA OneMessage ==
  ASSUME NEW a \in Seq(Msg), NEW b \in Seq(Msg), NEW m \in Msg,
         Len(a) + Len(b) <= 1, a # << >>
  PROVE  /\ a = <<Head(a)>> /\ Tail(a) = << >>
         /\ b = << >> /\ Append(b, m) = <<m>>
  <1>1. Len(a) = 1 /\ Len(b) = 0
    OBVIOUS
  <1>2. b = << >>
    BY <1>1
  <1>3. a = <<Head(a)>>
    <2>1. Head(a) \in Msg
      BY HeadTailProperties
    <2>2. <<Head(a)>> \in Seq(Msg) /\ Len(<<Head(a)>>) = 1
      BY <2>1
    <2>3. a[1] = <<Head(a)>>[1]
      BY <1>1
    <2> QED BY <1>1, <2>2, <2>3, SeqEqual
  <1>4. Tail(a) = << >>
    <2>1. Tail(a) \in Seq(Msg) /\ Len(Tail(a)) = 0
      BY <1>1
    <2> QED BY <2>1, EmptySeq
  <1> QED BY <1>2, <1>3, <1>4

LEMMA OneLong == \A m : Len(<<m>>) = 1 /\ Head(<<m>>) = m /\ <<m>> # << >>
  OBVIOUS

LEMMA FilledZero == \A p : Filled(0, p) = << >>
  BY DEF Filled

LEMMA FilledNext ==
  ASSUME NEW n \in Nat, NEW p \in Procs
  PROVE  Append(Filled(n, p), p) = Filled(n + 1, p)
  <1>0. \A j \in Nat : Filled(j, p) \in Seq(Procs) /\ Len(Filled(j, p)) = j
    BY DEF Filled
  <1> DEFINE a == Append(Filled(n, p), p)
             b == Filled(n + 1, p)
  <1>1. a \in Seq(Procs) /\ Len(a) = n + 1
    BY <1>0
  <1>2. b \in Seq(Procs) /\ Len(b) = n + 1
    BY <1>0
  <1>3. ASSUME NEW i \in 1 .. (n + 1)
        PROVE  a[i] = b[i]
    <2>1. b[i] = p
      BY DEF Filled
    <2>2. a[i] = p
      <3>1. CASE i = n + 1
        BY <3>1, <1>0
      <3>2. CASE i # n + 1
        <4>1. i \in 1 .. n
          BY <3>2
        <4>2. a[i] = Filled(n, p)[i]
          BY <4>1, <1>0
        <4> QED BY <4>1, <4>2 DEF Filled
      <3> QED BY <3>1, <3>2
    <2> QED BY <2>1, <2>2
  <1> HIDE DEF a, b
  <1>4. a = b
    BY <1>1, <1>2, <1>3, SeqEqual
  <1> QED BY <1>4 DEF a, b

(* The sizes are naturals, a client has a queue pair at least. *)
LEMMA Sizes ==
  ASSUME NEW k \in Conn
  PROVE  /\ k[1] \in Clients /\ k[2] \in Servers /\ k = <<k[1], k[2]>>
         /\ Qps[k[1]] \in Nat \ {0}
         /\ BufNum \in Nat \ {0}
         /\ Base(k) \in Nat
  BY HandshakeAssumption DEF Conn, Base, Servers

-----------------------------------------------------------------------------
(* One conversation: what the two sides may do to it. *)

(* The client reads its answer and sends its next message. *)
LEMMA ClientAsks ==
  ASSUME NEW k \in Conn, NEW x, NEW z, NEW y, NEW w, NEW v,
         InStep(k, x, y, w), Talking(k, x), Talking(k, z), z.pc # "host",
         Answered(k, x, y, w), ~ (w.toC = <<RejectMsg>> /\ x.pc = "host"
                                   /\ y.pc = "failed"),
         Sent(k[1], z) = Sent(k[1], x) + 1,
         v.toC = << >>, v.toS = <<Question(k, Sent(k[1], z))>>
  PROVE  InStep(k, z, y, v)
  <1>1. Len(v.toS) + Len(v.toC) <= 1
    OBVIOUS
  <1>2. ~ NotYet(k, z)
    BY Sizes, HandshakeAssumption
       DEF NotYet, Talking, Reading, Expected, Servers
  <1>3. /\ y.qps = Qps[k[1]]
        /\ y.pc \in AtWork => Heard(y) = Sent(k[1], x)
    BY DEF Answered
  <1> QED BY <1>1, <1>2, <1>3 DEF InStep, Talking

(* The handler reads a message and answers it. *)
LEMMA HandlerAnswers ==
  ASSUME NEW k \in Conn, NEW x, NEW y, NEW u, NEW w, NEW v,
         InStep(k, x, y, w), y.pc \in AtWork, w.toS # << >>,
         Heard(u) = Heard(y) + 1, u.pc \in AtWork \cup {"done"},
         u.qps = Qps[k[1]],
         v.toS = << >>, v.toC = <<Answer(k, u.left, Heard(u))>>
  PROVE  InStep(k, x, u, v)
  <1>1. Len(v.toS) + Len(v.toC) <= 1
    OBVIOUS
  <1>2. ~ NotYet(k, x)
    BY DEF InStep, NewHandler, AtWork, Admitted, Filling
  <1>3. Talking(k, x) => Heard(u) = Sent(k[1], x)
    BY DEF InStep
  <1> QED BY <1>1, <1>2, <1>3 DEF InStep, Answered

(* The handler goes on without touching the socket. *)
LEMMA HandlerMoves ==
  ASSUME NEW k \in Conn, NEW x, NEW y, NEW u, NEW w,
         InStep(k, x, y, w), y.pc \in AtWork, u.pc \in AtWork,
         Heard(u) = Heard(y), u.left = y.left, u.qps = y.qps
  PROVE  InStep(k, x, u, w)
  <1>1. ~ NotYet(k, x)
    BY DEF InStep, NewHandler, AtWork, Admitted, Filling
  <1>2. y.pc # "failed"
    BY DEF AtWork, Admitted, Filling
  <1> QED BY <1>1, <1>2 DEF InStep, Answered

(* The handler returns early: what it has answered stays on the wire. *)
LEMMA HandlerFails ==
  ASSUME NEW k \in Conn, NEW x, NEW y, NEW u, NEW w, NEW v,
         InStep(k, x, y, w), y.pc # "none", u.pc = "failed",
         u.left = y.left, u.qps = y.qps, v.toS = w.toS, v.toC = w.toC
  PROVE  InStep(k, x, u, v)
  <1>1. ~ NotYet(k, x)
    BY DEF InStep, NewHandler
  <1>2. u.pc \notin AtWork \cup {"done"}
    BY DEF AtWork, Admitted, Filling
  <1> QED BY <1>1, <1>2 DEF InStep, Answered

(* The handler rejects the client. *)
LEMMA HandlerRejects ==
  ASSUME NEW k \in Conn, NEW x \in ClientType, NEW y, NEW u, NEW w, NEW v,
         ClientSane(k[1], x), InStep(k, x, y, w),
         y.pc = "host", y.qps = 0, w.toS # << >>,
         u.pc = "failed", v.toS = << >>, v.toC = <<RejectMsg>>
  PROVE  InStep(k, x, u, v)
  <1>1. Len(v.toS) + Len(v.toC) <= 1
    OBVIOUS
  <1>2. ~ NotYet(k, x)
    BY DEF InStep, NewHandler
  <1>3. u.pc \notin AtWork \cup {"done"}
    BY DEF AtWork, Admitted, Filling
  <1>4. Talking(k, x) => x.pc = "host"
    <2>1. Talking(k, x) => Heard(y) + 1 = Sent(k[1], x)
      BY DEF InStep, AtWork
    <2>2. Heard(y) = 0
      BY DEF Heard
    <2> QED BY <2>1, <2>2, Sizes DEF Sent, ClientType
  <1> QED BY <1>1, <1>2, <1>3, <1>4 DEF InStep, Answered

(* The client is somewhere else after a step: it has left the connection   *)
(* or was not on it.                                                       *)
LEMMA ClientAway ==
  ASSUME NEW k \in Conn, NEW x, NEW z, NEW y, NEW w \in SocketType,
         NEW v \in SocketType,
         InStep(k, x, y, w), ~ Talking(k, z),
         NotYet(k, z) => NotYet(k, x) /\ v = w,
         v.toS = w.toS, v.toC = w.toC \/ v.toC = << >>
  PROVE  InStep(k, z, y, v)
  <1>1. Len(v.toS) + Len(v.toC) <= 1
    <2>1. Len(w.toC) \in Nat /\ Len(w.toS) \in Nat
      BY DEF SocketType
    <2>2. Len(v.toC) <= Len(w.toC) /\ Len(v.toC) \in Nat
      <3>1. CASE v.toC = << >>
        BY <3>1, <2>1
      <3>2. CASE v.toC = w.toC
        BY <3>2, <2>1
      <3> QED BY <3>1, <3>2
    <2>3. Len(w.toS) + Len(w.toC) <= 1
      BY DEF InStep
    <2>4. Len(v.toS) = Len(w.toS)
      OBVIOUS
    <2> DEFINE a == Len(w.toS)
               b == Len(w.toC)
               d == Len(v.toC)
    <2> HIDE DEF a, b, d
    <2>5. a \in Nat /\ b \in Nat /\ d \in Nat /\ d <= b /\ a + b <= 1
      BY <2>1, <2>2, <2>3 DEF a, b, d
    <2>6. a + d <= 1
      BY <2>5
    <2> QED BY <2>4, <2>6 DEF a, d
  <1> QED BY <1>1 DEF InStep

-----------------------------------------------------------------------------
(* A step of a client. *)

(* What is known of the connection a client is at. *)
LEMMA TalkingFacts ==
  ASSUME TypeOK, Wire, NEW c \in Clients
  PROVE  /\ At(c) \in Conn /\ At(c)[1] = c /\ At(c)[2] = cl[c].connid
         /\ InStep(At(c), cl[c], h[At(c)], sock[At(c)])
         /\ ClientSane(c, cl[c])
         /\ cl[c] \in ClientType /\ h[At(c)] \in HandlerType
         /\ sock[At(c)] \in SocketType
         /\ cl[c].connid \in Servers /\ cl[c].connid \in Procs
         /\ cl[c].idx \in Nat /\ c \in Procs
  <1>1. At(c) \in Conn /\ At(c)[1] = c /\ At(c)[2] = cl[c].connid
    BY AtConn DEF At
  <1> QED BY <1>1, AtConn, HandlerConn DEF Wire, ClientType, Procs

(* The answer a client reads, when it is of the type it waits for. *)
LEMMA ClientReadsAnswer ==
  ASSUME TypeOK, Wire, NEW c \in Clients, cl[c].pc \in Reading,
         sock[At(c)].toC # << >>
  PROVE  /\ Talking(At(c), cl[c])
         /\ Answered(At(c), cl[c], h[At(c)], sock[At(c)])
         /\ sock[At(c)].toC = <<Head(sock[At(c)].toC)>>
  <1>1. /\ At(c)[2] = cl[c].connid
        /\ InStep(At(c), cl[c], h[At(c)], sock[At(c)])
    BY TalkingFacts
  <1>2. Talking(At(c), cl[c])
    BY <1>1 DEF Talking
  <1>3. Answered(At(c), cl[c], h[At(c)], sock[At(c)])
    BY <1>1, <1>2 DEF InStep
  <1>4. \A m : <<m>> = <<Head(<<m>>)>>
    OBVIOUS
  <1> QED BY <1>2, <1>3, <1>4 DEF Answered

(* The socket after a client has read its message and written another. *)
LEMMA ClientReplySocket ==
  ASSUME TypeOK, Wire, NEW c \in Clients, NEW m \in Msg,
         sock[At(c)].toC # << >>, ClientReplies(c, m)
  PROVE  /\ sock'[At(c)].toC = << >> /\ sock'[At(c)].toS = <<m>>
         /\ \A k \in Conn \ {At(c)} : sock'[k] = sock[k]
  <1> DEFINE w == sock[At(c)]
  <1>1. /\ At(c) \in Conn /\ w \in SocketType /\ DOMAIN sock = Conn
        /\ w.toC \in Seq(Msg) /\ w.toS \in Seq(Msg)
        /\ Len(w.toC) + Len(w.toS) <= 1
    <2>1. At(c) \in Conn /\ w \in SocketType /\ DOMAIN sock = Conn
          /\ InStep(At(c), cl[c], h[At(c)], w)
      BY TalkingFacts DEF TypeOK
    <2>2. w.toC \in Seq(Msg) /\ w.toS \in Seq(Msg)
      BY <2>1 DEF SocketType
    <2>3. Len(w.toC) \in Nat /\ Len(w.toS) \in Nat
      BY <2>2
    <2>4. Len(w.toS) + Len(w.toC) <= 1
      BY <2>1 DEF InStep
    <2>5. \A a, b \in Nat : a + b <= 1 => b + a <= 1
      OBVIOUS
    <2> QED BY <2>1, <2>2, <2>3, <2>4, <2>5
  <1>2. Tail(w.toC) = << >> /\ Append(w.toS, m) = <<m>>
    BY <1>1, OneMessage
  <1>3. sock' = [sock EXCEPT ![At(c)] =
                   [w EXCEPT !.toC = << >>, !.toS = <<m>>]]
    BY <1>2 DEF ClientReplies, SetSocket
  <1> QED BY <1>1, <1>3 DEF SocketType

(* A step of a client on its connection. *)
LEMMA WireOfTalking ==
  ASSUME TypeOK, Wire, NEW c \in Clients, h' = h,
         \A d \in Clients \ {c} : cl'[d] = cl[d],
         \A k \in Conn \ {At(c)} : sock'[k] = sock[k],
         cl'[c].connid = cl[c].connid, cl'[c].pc # "tcp",
         ClientSane(c, cl'[c]),
         InStep(At(c), cl'[c], h[At(c)], sock'[At(c)])
  PROVE  Wire'
  <1>1. \A d \in Clients : ClientSane(d, cl'[d])
    BY DEF Wire
  <1>2. ASSUME NEW k \in Conn
        PROVE  InStep(k, cl'[k[1]], h'[k], sock'[k])
    <2>0. InStep(k, cl[k[1]], h[k], sock[k]) /\ k[1] \in Clients
      BY HandlerConn DEF Wire
    <2>1. CASE k = At(c)
      BY <2>1, TalkingFacts
    <2>2. CASE k[1] # c
      <3>1. k # At(c)
        BY <2>2, TalkingFacts
      <3> QED BY <3>1, <2>0, <2>2
    <2>3. CASE k[1] = c /\ k # At(c)
      <3>1. k[2] # cl[c].connid
        BY <2>3, Sizes, TalkingFacts
      <3>2. ~ Talking(k, cl'[c])
        BY <3>1 DEF Talking
      <3>3. NotYet(k, cl'[c]) => NotYet(k, cl[c])
        BY <3>1 DEF NotYet
      <3>4. sock'[k] = sock[k] /\ sock[k] \in SocketType
        BY <2>3, HandlerConn
      <3> QED BY <2>0, <2>3, <3>2, <3>3, <3>4, ClientAway
    <2> QED BY <2>1, <2>2, <2>3
  <1> QED BY <1>1, <1>2 DEF Wire

(* A step after which a client is on no connection. *)
LEMMA WireOfLeaving ==
  ASSUME TypeOK, Wire, TypeOK', NEW c \in Clients, h' = h,
         \A d \in Clients \ {c} : cl'[d] = cl[d],
         \A k \in Conn : k[1] # c => sock'[k] = sock[k],
         \A k \in Conn :
           k[1] = c => /\ sock'[k].toS = sock[k].toS
                       /\ sock'[k].toC \in {sock[k].toC, << >>}
                       /\ NotYet(k, cl[c]) => sock'[k] = sock[k],
         ClientSane(c, cl'[c]), cl'[c].pc \notin Reading,
         \A k \in Conn :
           k[1] = c /\ NotYet(k, cl'[c]) => NotYet(k, cl[c])
  PROVE  Wire'
  <1>1. \A d \in Clients : ClientSane(d, cl'[d])
    BY DEF Wire
  <1>2. ASSUME NEW k \in Conn
        PROVE  InStep(k, cl'[k[1]], h'[k], sock'[k])
    <2>0. InStep(k, cl[k[1]], h[k], sock[k]) /\ k[1] \in Clients
      BY HandlerConn DEF Wire
    <2>1. CASE k[1] # c
      BY <2>0, <2>1
    <2>2. CASE k[1] = c
      <3>1. ~ Talking(k, cl'[c])
        BY DEF Talking
      <3>2. sock[k] \in SocketType /\ sock'[k] \in SocketType
        BY DEF TypeOK
      <3> QED BY <2>0, <2>2, <3>1, <3>2, ClientAway
    <2> QED BY <2>1, <2>2
  <1> QED BY <1>1, <1>2 DEF Wire

(* The messages by their numbers. *)
LEMMA Questions ==
  ASSUME NEW k \in Conn
  PROVE  /\ Question(k, 1) = HostMsg(Qps[k[1]], BufNum, k[1])
         /\ \A i \in Nat : i < BufNum => Question(k, i + 2) = MemMsg(k[1])
         /\ \A j \in Nat :
              j < Qps[k[1]] => Question(k, BufNum + 2 + j) = ChanMsg(Base(k) + j)
         /\ Question(k, BufNum + 2 + Qps[k[1]]) = GoGoMsg
  BY Sizes DEF Question

LEMMA Answers ==
  ASSUME NEW k \in Conn, NEW left \in Nat
  PROVE  /\ Answer(k, left, 1) = HostMsg(Qps[k[1]], 0, k[2])
         /\ \A i \in Nat : i < BufNum => Answer(k, left, i + 2) = MemMsg(k[2])
         /\ \A j \in Nat :
              j < Qps[k[1]] => Answer(k, left, BufNum + 2 + j) = ChanMsg(left + j)
         /\ Answer(k, left, BufNum + 2 + Qps[k[1]]) = GoGoMsg
  BY Sizes DEF Answer

(* Every message of the client is a message. *)
LEMMA SlotMessages ==
  ASSUME TypeOK, NEW c \in Clients
  PROVE  /\ \A i \in Nat : /\ ClientSlot(c, i) = Base(At(c)) + i
                           /\ ChanMsg(Base(At(c)) + i) \in Msg
         /\ MemMsg(c) \in Msg /\ GoGoMsg \in Msg
  <1>1. At(c) \in Conn /\ At(c)[1] = c /\ At(c)[2] = cl[c].connid
    BY AtConn DEF At
  <1>2. Base(At(c)) \in Nat /\ Base(At(c)) = cl[c].connid * Qps[c]
    BY <1>1, Sizes DEF Base
  <1> DEFINE b == Base(At(c))
  <1>3. \A i \in Nat : ClientSlot(c, i) = b + i
    BY <1>2 DEF ClientSlot
  <1> HIDE DEF b
  <1>4. \A i \in Nat : b + i \in Nat
    BY <1>2 DEF b
  <1>5. \A i \in Nat : ChanMsg(b + i) \in Msg
    BY <1>4, MessageTypes DEF Procs
  <1>6. MemMsg(c) \in Msg /\ GoGoMsg \in Msg
    BY DEF MemMsg, GoGoMsg, Msg, Procs
  <1> QED BY <1>3, <1>5, <1>6 DEF b

(* What a client reads, by the place it is at. *)
LEMMA ClientHears ==
  ASSUME TypeOK, Wire, NEW c \in Clients, cl[c].pc \in Reading,
         sock[At(c)].toC # << >>
  PROVE  LET m == Head(sock[At(c)].toC)
             y == h[At(c)]
         IN  /\ cl[c].pc = "host" =>
                  \/ m = HostMsg(Qps[c], 0, cl[c].connid) /\ y.qps = Qps[c]
                  \/ m = RejectMsg /\ y.pc = "failed"
             /\ cl[c].pc = "mem" => m = MemMsg(cl[c].connid)
             /\ cl[c].pc = "chan" => m = ChanMsg(y.left + cl[c].idx)
             /\ cl[c].pc = "gogo" => m = GoGoMsg
             /\ cl[c].pc # "host" => y.qps = Qps[c]
  <1> DEFINE m == Head(sock[At(c)].toC)
             y == h[At(c)]
             x == cl[c]
  <1>1. /\ At(c) \in Conn /\ At(c)[1] = c /\ At(c)[2] = x.connid
        /\ x.idx \in Nat /\ ClientSane(c, x) /\ y.left \in Nat
        /\ InStep(At(c), x, y, sock[At(c)])
    BY TalkingFacts DEF HandlerType
  <1>2. /\ Talking(At(c), x) /\ Answered(At(c), x, y, sock[At(c)])
        /\ sock[At(c)].toC = <<m>>
    BY ClientReadsAnswer
  <1>3. x.pc # "host" => y.qps = Qps[c]
    BY <1>1, <1>2 DEF InStep
  <1> HIDE DEF m, x, y
  <1>4. \/ m = Answer(At(c), y.left, Sent(c, x)) /\ y.qps = Qps[c]
        \/ m = RejectMsg /\ x.pc = "host" /\ y.pc = "failed"
    <2>1. \A a, b : <<a>> = <<b>> => a = b
      OBVIOUS
    <2> QED BY <1>1, <1>2, <2>1 DEF Answered
  <1>5. x.pc = "host" => \/ m = HostMsg(Qps[c], 0, x.connid) /\ y.qps = Qps[c]
                         \/ m = RejectMsg /\ y.pc = "failed"
    BY <1>1, <1>4, Answers DEF Sent
  <1>6. x.pc = "mem" => m = MemMsg(x.connid)
    BY <1>1, <1>4, Answers DEF Sent, ClientSane
  <1>7. x.pc = "chan" => m = ChanMsg(y.left + x.idx)
    BY <1>1, <1>4, Answers DEF Sent, ClientSane
  <1>8. x.pc = "gogo" => m = GoGoMsg
    BY <1>1, <1>4, Answers DEF Sent, ClientSane
  <1> QED BY <1>3, <1>5, <1>6, <1>7, <1>8 DEF m, x, y

LEMMA WireHello ==
  ASSUME TypeOK, Wire, NEW c \in Clients, ClientHello(c)
  PROVE  Wire'
  <1> DEFINE x == cl[c]
             k == At(c)
             q == <<HostMsg(Qps[c], BufNum, c)>>
  <1>1. /\ k \in Conn /\ k[1] = c /\ k[2] = x.connid /\ x.connid \in Servers
        /\ InStep(k, x, h[k], sock[k]) /\ ClientSane(c, x)
        /\ x \in ClientType /\ DOMAIN h = Conn /\ DOMAIN sock = Conn
        /\ DOMAIN cl = Clients
    BY TalkingFacts DEF TypeOK
  <1>2. NotYet(k, x) /\ x.pc = "tcp"
    BY <1>1 DEF ClientHello, NotYet
  <1>3. h[k] = NewHandler
    BY <1>1, <1>2 DEF InStep
  <1>4. /\ h'[k] = [NewHandler EXCEPT !.pc = "backlog"]
        /\ \A l \in Conn \ {k} : h'[l] = h[l] /\ sock'[l] = sock[l]
        /\ sock'[k].toS = q /\ sock'[k].toC = << >>
        /\ cl'[c] = [x EXCEPT !.pc = "host"]
        /\ \A d \in Clients \ {c} : cl'[d] = cl[d]
    BY <1>1, <1>3 DEF ClientHello, SetHandler, SetSocket, SetClient
  <1>5. /\ cl'[c].pc = "host" /\ cl'[c].connid = x.connid
        /\ cl'[c].idx = x.idx /\ cl'[c].bufs = x.bufs
    BY <1>1, <1>4 DEF ClientType
  <1>6. ClientSane(c, cl'[c])
    BY <1>1, <1>2, <1>5 DEF ClientSane
  <1>7. h'[k].pc = "backlog" /\ h'[k].qps = 0 /\ h'[k].idx = 0
        /\ h'[k].bufs = << >>
    BY <1>4 DEF NewHandler
  <1>8. HandlerSane(k, h'[k])
    BY <1>7 DEF HandlerSane, Admitted, Filling
  <1>9. InStep(k, cl'[c], h'[k], sock'[k])
    <2>1. Len(sock'[k].toS) + Len(sock'[k].toC) <= 1
      BY <1>4
    <2>2. Heard(h'[k]) = 0 /\ Sent(c, cl'[c]) = 1
      BY <1>5, <1>7 DEF Heard, Sent
    <2>3. ~ NotYet(k, cl'[c])
      BY <1>1, <1>5, HandshakeAssumption DEF NotYet, Servers
    <2>4. sock'[k].toS = <<Question(k, 1)>>
      BY <1>1, <1>4, Questions
    <2> QED BY <1>1, <1>4, <1>5, <2>1, <2>2, <2>3, <2>4 DEF InStep
  <1> HIDE DEF x, k, q
  <1>10. ASSUME NEW l \in Conn, l # k
         PROVE  InStep(l, cl'[l[1]], h'[l], sock'[l])
    <2>0. InStep(l, cl[l[1]], h[l], sock[l]) /\ l[1] \in Clients
          /\ sock[l] \in SocketType
      BY HandlerConn DEF Wire
    <2>1. CASE l[1] # c
      BY <2>0, <2>1, <1>4, <1>10
    <2>2. CASE l[1] = c
      <3>1. l[2] # x.connid
        BY <2>2, <1>1, <1>10, Sizes
      <3>2. ~ Talking(l, cl'[c]) /\ (NotYet(l, cl'[c]) => NotYet(l, x))
        BY <3>1, <1>5 DEF Talking, NotYet
      <3> QED BY <2>0, <2>2, <3>2, <1>4, <1>10, ClientAway DEF x
    <2> QED BY <2>1, <2>2
  <1>11. \A d \in Clients : ClientSane(d, cl'[d])
    BY <1>4, <1>6 DEF Wire
  <1>12. \A l \in Conn : HandlerSane(l, h'[l])
    BY <1>4, <1>8 DEF Wire
  <1> QED BY <1>1, <1>9, <1>10, <1>11, <1>12 DEF Wire

LEMMA WireHost ==
  ASSUME TypeOK, Wire, NEW c \in Clients, ClientHost(c)
  PROVE  Wire'
  <1> DEFINE x == cl[c]
             k == At(c)
             m == Head(sock[k].toC)
             z == cl'[c]
  <1>0. x.pc = "host" /\ x.pc \in Reading /\ sock[k].toC # << >> /\ m.qps = Qps[c]
    BY DEF ClientHost, ClientReads, Reading, Expected
  <1>1. /\ k \in Conn /\ k[1] = c /\ k[2] = x.connid
        /\ InStep(k, x, h[k], sock[k]) /\ ClientSane(c, x)
        /\ x \in ClientType /\ DOMAIN cl = Clients /\ x.connid \in Procs
    BY TalkingFacts DEF TypeOK
  <1>2. m = HostMsg(Qps[c], 0, x.connid) /\ h[k].qps = Qps[c]
    <2>1. RejectMsg.qps = 0 /\ Qps[c] # 0
      BY HandshakeAssumption DEF RejectMsg, HostMsg
    <2> QED BY <1>0, <2>1, ClientHears
  <1>3. /\ z = [x EXCEPT !.pc = "mem", !.gid = x.connid]
        /\ \A d \in Clients \ {c} : cl'[d] = cl[d]
        /\ h' = h /\ ClientReplies(c, MemMsg(c))
    <2>1. m.gid = x.connid
      BY <1>2 DEF HostMsg
    <2> QED BY <1>1, <2>1 DEF ClientHost, SetClient, serverVars
  <1>4. /\ sock'[k].toC = << >> /\ sock'[k].toS = <<MemMsg(c)>>
        /\ \A l \in Conn \ {k} : sock'[l] = sock[l]
    BY <1>0, <1>3, ClientReplySocket, SlotMessages
  <1>5. /\ z.pc = "mem" /\ z.connid = x.connid /\ z.gid = x.connid
        /\ z.idx = x.idx /\ z.bufs = x.bufs
    BY <1>1, <1>3 DEF ClientType
  <1>6. ClientSane(c, z)
    BY <1>0, <1>1, <1>5, FilledZero, HandshakeAssumption DEF ClientSane
  <1>7. InStep(k, z, h[k], sock'[k])
    <2>1. Talking(k, x) /\ Answered(k, x, h[k], sock[k]) /\ Talking(k, z)
      BY <1>0, <1>1, <1>5, ClientReadsAnswer
         DEF Talking, Reading, Expected
    <2>2. Sent(c, x) = 1 /\ Sent(c, z) = 2
      BY <1>0, <1>1, <1>5 DEF Sent, ClientSane
    <2>3. sock[k].toC # <<RejectMsg>>
      <3>1. m # RejectMsg
        BY <1>2, HandshakeAssumption DEF RejectMsg, HostMsg
      <3>2. Head(<<RejectMsg>>) = RejectMsg
        OBVIOUS
      <3> QED BY <3>1, <3>2
    <2>4. MemMsg(c) = Question(k, 2)
      <3>1. 0 \in Nat /\ 0 < BufNum /\ 0 + 2 = 2
        BY HandshakeAssumption
      <3> QED BY <1>1, <3>1, Questions
    <2>5. z.pc # "host" /\ Sent(c, z) = Sent(c, x) + 1
      BY <1>5, <2>2
    <2> HIDE DEF x, k, m, z
    <2> QED BY <1>1, <1>4, <2>1, <2>2, <2>3, <2>4, <2>5, ClientAsks
  <1> QED BY <1>3, <1>4, <1>5, <1>6, <1>7, WireOfTalking

LEMMA WireMem ==
  ASSUME TypeOK, Wire, NEW c \in Clients, ClientMem(c)
  PROVE  Wire'
  <1> DEFINE x == cl[c]
             k == At(c)
             m == Head(sock[k].toC)
             z == cl'[c]
  <1>0. /\ x.pc = "mem" /\ x.pc \in Reading /\ sock[k].toC # << >>
        /\ x.idx + 1 < BufNum
    BY DEF ClientMem, ClientReads, Reading, Expected
  <1>1. /\ k \in Conn /\ k[1] = c /\ k[2] = x.connid
        /\ InStep(k, x, h[k], sock[k]) /\ ClientSane(c, x)
        /\ x \in ClientType /\ DOMAIN cl = Clients /\ x.connid \in Procs
        /\ x.idx \in Nat
    BY TalkingFacts DEF TypeOK
  <1>2. m.owner = x.connid
    <2>1. m = MemMsg(x.connid)
      BY <1>0, ClientHears
    <2> QED BY <2>1 DEF MemMsg
  <1>3. /\ z = [x EXCEPT !.idx = @ + 1, !.bufs = Append(@, x.connid)]
        /\ \A d \in Clients \ {c} : cl'[d] = cl[d]
        /\ h' = h /\ ClientReplies(c, MemMsg(c))
    BY <1>1, <1>2 DEF ClientMem, SetClient, serverVars
  <1>4. /\ sock'[k].toC = << >> /\ sock'[k].toS = <<MemMsg(c)>>
        /\ \A l \in Conn \ {k} : sock'[l] = sock[l]
    BY <1>0, <1>3, ClientReplySocket, SlotMessages
  <1>5. /\ z.pc = "mem" /\ z.connid = x.connid /\ z.gid = x.gid
        /\ z.idx = x.idx + 1 /\ z.bufs = Append(x.bufs, x.connid)
    BY <1>0, <1>1, <1>3 DEF ClientType
  <1>6. ClientSane(c, z)
    <2>1. Append(x.bufs, x.connid) = Filled(x.idx + 1, x.connid)
      BY <1>0, <1>1, FilledNext DEF ClientSane
    <2> QED BY <1>0, <1>1, <1>5, <2>1 DEF ClientSane
  <1>7. InStep(k, z, h[k], sock'[k])
    <2>1. Talking(k, x) /\ Answered(k, x, h[k], sock[k]) /\ Talking(k, z)
      BY <1>0, <1>1, <1>5, ClientReadsAnswer DEF Talking
    <2>2. Sent(c, x) = x.idx + 2 /\ Sent(c, z) = (x.idx + 1) + 2
      BY <1>0, <1>5 DEF Sent
    <2>3. MemMsg(c) = Question(k, (x.idx + 1) + 2)
      BY <1>0, <1>1, Questions
    <2>4. Sent(c, z) = Sent(c, x) + 1
      BY <1>1, <2>2
    <2> HIDE DEF x, k, m, z
    <2> QED BY <1>0, <1>1, <1>4, <1>5, <2>1, <2>2, <2>3, <2>4, ClientAsks
  <1> QED BY <1>3, <1>4, <1>5, <1>6, <1>7, WireOfTalking

LEMMA WirePool ==
  ASSUME TypeOK, Wire, NEW c \in Clients, ClientPool(c)
  PROVE  Wire'
  <1> DEFINE x == cl[c]
             k == At(c)
             z == cl'[c]
  <1>0. /\ x.pc = "mem" /\ x.pc \in Reading /\ sock[k].toC # << >>
        /\ x.idx + 1 = BufNum
    BY DEF ClientPool, ClientReads, Reading, Expected
  <1>1. /\ k \in Conn /\ k[1] = c /\ k[2] = x.connid
        /\ InStep(k, x, h[k], sock[k]) /\ ClientSane(c, x)
        /\ x \in ClientType /\ DOMAIN cl = Clients /\ x.idx \in Nat
    BY TalkingFacts DEF TypeOK
  <1>2. /\ z.pc = "chan" /\ z.connid = x.connid /\ z.gid = x.gid /\ z.idx = 0
        /\ \A d \in Clients \ {c} : cl'[d] = cl[d]
        /\ h' = h /\ ClientReplies(c, ChanMsg(Base(k) + 0))
    <2>1. ClientSlot(c, 0) = Base(k) + 0
      BY SlotMessages
    <2> QED BY <1>1, <2>1 DEF ClientPool, SetClient, serverVars, ClientType
  <1>3. /\ sock'[k].toC = << >> /\ sock'[k].toS = <<ChanMsg(Base(k) + 0)>>
        /\ \A l \in Conn \ {k} : sock'[l] = sock[l]
    <2>1. ChanMsg(Base(k) + 0) \in Msg
      BY SlotMessages
    <2> QED BY <1>0, <1>2, <2>1, ClientReplySocket
  <1>4. ClientSane(c, z)
    BY <1>0, <1>1, <1>2, HandshakeAssumption DEF ClientSane
  <1>5. InStep(k, z, h[k], sock'[k])
    <2>1. Talking(k, x) /\ Answered(k, x, h[k], sock[k]) /\ Talking(k, z)
      BY <1>0, <1>1, <1>2, ClientReadsAnswer DEF Talking, Reading, Expected
    <2>2. Sent(c, x) = x.idx + 2 /\ Sent(c, z) = BufNum + 2 + 0
      BY <1>0, <1>2 DEF Sent
    <2>3. ChanMsg(Base(k) + 0) = Question(k, BufNum + 2 + 0)
      BY <1>1, Questions, HandshakeAssumption
    <2>4. Sent(c, z) = Sent(c, x) + 1
      BY <1>0, <1>1, <2>2, HandshakeAssumption
    <2> HIDE DEF x, k, z
    <2> QED BY <1>0, <1>1, <1>2, <1>3, <2>1, <2>2, <2>3, <2>4, ClientAsks
  <1> QED BY <1>2, <1>3, <1>4, <1>5, WireOfTalking

LEMMA WireChan ==
  ASSUME TypeOK, Wire, NEW c \in Clients, ClientChan(c)
  PROVE  Wire'
  <1> DEFINE x == cl[c]
             k == At(c)
             z == cl'[c]
             b == Base(k)
             q == IF x.idx + 1 < Qps[c] THEN ChanMsg(b + (x.idx + 1)) ELSE GoGoMsg
  <1>0. /\ x.pc = "chan" /\ x.pc \in Reading /\ sock[k].toC # << >>
    BY DEF ClientChan, ClientReads, Reading, Expected
  <1>1. /\ k \in Conn /\ k[1] = c /\ k[2] = x.connid
        /\ InStep(k, x, h[k], sock[k]) /\ ClientSane(c, x)
        /\ x \in ClientType /\ DOMAIN cl = Clients
        /\ x.idx \in Nat /\ x.idx + 1 \in Nat /\ x.idx < Qps[c]
        /\ Qps[c] \in Nat /\ BufNum \in Nat
    BY <1>0, TalkingFacts, HandshakeAssumption DEF TypeOK, ClientSane
  <1>2. ClientReplies(c, q) /\ q \in Msg
    <2>1. /\ ClientSlot(c, x.idx + 1) = b + (x.idx + 1)
          /\ ChanMsg(b + (x.idx + 1)) \in Msg /\ GoGoMsg \in Msg
      BY <1>1, SlotMessages
    <2> QED BY <2>1 DEF ClientChan, ClientNextQp
  <1>3. /\ z.pc = IF x.idx + 1 < Qps[c] THEN "chan" ELSE "gogo"
        /\ z.idx = IF x.idx + 1 < Qps[c] THEN x.idx + 1 ELSE x.idx
        /\ z.connid = x.connid /\ z.gid = x.gid
        /\ \A d \in Clients \ {c} : cl'[d] = cl[d]
        /\ h' = h
    <2>1. h' = h
      BY DEF ClientChan, serverVars
    <2>2. cl' = [cl EXCEPT ![c] =
                   IF x.idx + 1 < Qps[c] THEN [x EXCEPT !.idx = @ + 1]
                                         ELSE [x EXCEPT !.pc = "gogo"]]
      BY DEF ClientChan, ClientNextQp, SetClient
    <2>3. \A d \in Clients \ {c} : cl'[d] = cl[d]
      BY <1>1, <2>2
    <2>4. CASE x.idx + 1 < Qps[c]
      <3>1. z = [x EXCEPT !.idx = x.idx + 1]
        BY <1>1, <2>2, <2>4
      <3> QED BY <3>1, <2>1, <2>3, <2>4, <1>0, <1>1 DEF ClientType
    <2>5. CASE ~ (x.idx + 1 < Qps[c])
      <3>1. z = [x EXCEPT !.pc = "gogo"]
        BY <1>1, <2>2, <2>5
      <3> QED BY <3>1, <2>1, <2>3, <2>5, <1>0, <1>1 DEF ClientType
    <2> QED BY <2>4, <2>5
  <1>4. /\ sock'[k].toC = << >> /\ sock'[k].toS = <<q>>
        /\ \A l \in Conn \ {k} : sock'[l] = sock[l]
    <2> HIDE DEF q
    <2> QED BY <1>0, <1>2, ClientReplySocket
  <1>5. ClientSane(c, z)
    BY <1>0, <1>1, <1>3 DEF ClientSane
  <1>6. InStep(k, z, h[k], sock'[k])
    <2>1. Talking(k, x) /\ Answered(k, x, h[k], sock[k]) /\ Talking(k, z)
      BY <1>0, <1>1, <1>3, ClientReadsAnswer DEF Talking, Reading, Expected
    <2>2. Sent(c, x) = BufNum + 2 + x.idx
      BY <1>0 DEF Sent
    <2>3. Sent(c, z) = BufNum + 2 + (x.idx + 1)
      BY <1>1, <1>3 DEF Sent
    <2>4. q = Question(k, BufNum + 2 + (x.idx + 1))
      <3>1. CASE x.idx + 1 < Qps[c]
        <4>1. Question(k, BufNum + 2 + (x.idx + 1)) = ChanMsg(b + (x.idx + 1))
          BY <3>1, <1>1, Questions
        <4> QED BY <3>1, <4>1
      <3>2. CASE ~ (x.idx + 1 < Qps[c])
        <4>1. x.idx + 1 = Qps[c]
          BY <3>2, <1>1
        <4>2. Question(k, BufNum + 2 + Qps[c]) = GoGoMsg
          BY <1>1, Questions
        <4> QED BY <3>2, <4>1, <4>2
      <3> QED BY <3>1, <3>2
    <2>5. Sent(c, z) = Sent(c, x) + 1
      BY <1>1, <2>2, <2>3
    <2>6. z.pc # "host"
      BY <1>3
    <2> HIDE DEF x, k, z, q
    <2> QED BY <1>0, <1>1, <1>4, <2>1, <2>3, <2>4, <2>5, <2>6, ClientAsks
  <1> HIDE DEF q
  <1>7. z.pc # "tcp"
    BY <1>3
  <1> QED BY <1>3, <1>4, <1>5, <1>6, <1>7, WireOfTalking

(* A client that turns to its next host, or ends, is on no connection. *)
LEMMA LeavingClient ==
  ASSUME TypeOK, Wire, NEW c \in Clients, NEW z, z \in {NextHost(c), Ended(c)}
  PROVE  /\ ClientSane(c, z) /\ z.pc \notin Reading
         /\ \A k \in Conn : NotYet(k, z) => NotYet(k, cl[c])
  <1> DEFINE x == cl[c]
  <1>1. x \in ClientType /\ x.connid \in Nat
    BY AtConn, HandshakeAssumption DEF ClientType, Servers
  <1>2. \A k \in Conn : k[2] \in Int
    BY Sizes, HandshakeAssumption DEF Servers
  <1>3. CASE z = NewConnect(x.connid + 1)
    <2>1. z.pc = "tcp" /\ z.connid = x.connid + 1 /\ z.idx = 0
          /\ z.bufs = << >>
      BY <1>3 DEF NewConnect
    <2>2. ClientSane(c, z) /\ z.pc \notin Reading
      BY <2>1 DEF ClientSane, Reading, Expected
    <2> QED BY <1>1, <1>2, <2>1, <2>2 DEF NotYet
  <1>4. CASE z.pc \in {"run", "exit"} /\ z.connid = x.connid
    BY <1>4 DEF ClientSane, Reading, Expected, NotYet
  <1>5. \/ z = NewConnect(x.connid + 1)
        \/ z.pc \in {"run", "exit"} /\ z.connid = x.connid
    <2>1. CASE z = Ended(c)
      BY <2>1, <1>1 DEF Ended, ClientType
    <2>2. CASE z = NextHost(c)
      BY <2>2, <1>1 DEF NextHost, ClientType
    <2> QED BY <2>1, <2>2
  <1> QED BY <1>3, <1>4, <1>5

(* The socket of a connection that has not started is a new one, and stays *)
(* so when a side closes it.                                               *)
LEMMA ClosedNew ==
  /\ [NewSocket EXCEPT !.cOpen = FALSE] = NewSocket
  /\ [NewSocket EXCEPT !.sOpen = FALSE] = NewSocket
  <1>1. /\ NewSocket \in SocketType
        /\ NewSocket.cOpen = FALSE /\ NewSocket.sOpen = FALSE
    BY NewTypes DEF NewSocket
  <1>2. ASSUME NEW w \in SocketType
        PROVE  /\ [w EXCEPT !.cOpen = w.cOpen] = w
               /\ [w EXCEPT !.sOpen = w.sOpen] = w
    BY DEF SocketType
  <1>3. /\ [NewSocket EXCEPT !.cOpen = NewSocket.cOpen] = NewSocket
        /\ [NewSocket EXCEPT !.sOpen = NewSocket.sOpen] = NewSocket
    BY <1>1, <1>2
  <1> QED BY <1>1, <1>3

(* Connect returns, with or without success. *)
LEMMA WireReturn ==
  ASSUME TypeOK, Wire, TypeOK', NEW c \in Clients,
         \/ ClientGoGo(c) \/ ClientActivateFails(c) \/ ClientOut(c)
  PROVE  Wire'
  <1> DEFINE k == At(c)
             w == sock[k]
  <1>1. /\ k \in Conn /\ DOMAIN cl = Clients /\ DOMAIN sock = Conn
        /\ w \in SocketType /\ ~ NotYet(k, cl[c]) /\ k[1] = c
    <2>1. cl[c].pc \in Reading
      BY DEF ClientGoGo, ClientActivateFails, ClientOut, ClientGivesUp,
             Reading, Expected
    <2>2. k \in Conn /\ k[2] = cl[c].connid /\ cl[c].connid \in Servers
          /\ w \in SocketType /\ k[1] = c
      BY TalkingFacts
    <2>3. ~ NotYet(k, cl[c])
      BY <2>1, <2>2, HandshakeAssumption
         DEF NotYet, Reading, Expected, Servers
    <2> QED BY <2>2, <2>3 DEF TypeOK
  <1>2. /\ h' = h
        /\ cl'[c] \in {NextHost(c), Ended(c)}
        /\ \A d \in Clients \ {c} : cl'[d] = cl[d]
    <2>1. ASSUME NEW eps, ConnectFailed(c, eps)
          PROVE  /\ cl'[c] \in {NextHost(c), Ended(c)}
                 /\ \A d \in Clients \ {c} : cl'[d] = cl[d]
      BY <1>1, <2>1 DEF ConnectFailed, SetClient
    <2>2. CASE ClientGoGo(c)
      BY <2>2, <1>1 DEF ClientGoGo, SetClient, serverVars
    <2>3. CASE ClientActivateFails(c)
      BY <2>1, <2>3 DEF ClientActivateFails, serverVars
    <2>4. CASE ClientOut(c)
      BY <2>1, <2>4 DEF ClientOut, serverVars
    <2> QED BY <2>2, <2>3, <2>4
  <1>3. /\ sock'[k].toS = w.toS /\ sock'[k].toC \in {w.toC, << >>}
        /\ \A l \in Conn \ {k} : sock'[l] = sock[l]
    <2>1. CASE ClientGoGo(c)
      <3>1. w.toC \in Seq(Msg) /\ w.toC # << >>
        BY <2>1, <1>1 DEF ClientGoGo, ClientReads, SocketType
      <3>2. Tail(w.toC) = << >>
        <4>1. w.toC = <<Head(w.toC)>>
          <5>1. cl[c].pc \in Reading
            BY <2>1 DEF ClientGoGo, Reading, Expected
          <5> QED BY <3>1, <5>1, ClientReadsAnswer
        <4>2. \A m : Tail(<<m>>) = << >>
          OBVIOUS
        <4> QED BY <4>1, <4>2
      <3>3. sock' = [sock EXCEPT ![k] =
                       [w EXCEPT !.toC = << >>, !.cOpen = FALSE]]
        BY <2>1, <3>2 DEF ClientGoGo, SetSocket
      <3> QED BY <1>1, <3>3 DEF SocketType
    <2>2. CASE ClientActivateFails(c) \/ ClientOut(c)
      BY <2>2, <1>1 DEF ClientActivateFails, ClientOut, ClientCloses,
                        SetSocket, SocketType
    <2> QED BY <2>1, <2>2
  <1> HIDE DEF k, w
  <1>4. \A l \in Conn : l[1] # c => sock'[l] = sock[l]
    BY <1>1, <1>3
  <1>5. \A l \in Conn :
          l[1] = c => /\ sock'[l].toS = sock[l].toS
                      /\ sock'[l].toC \in {sock[l].toC, << >>}
                      /\ NotYet(l, cl[c]) => sock'[l] = sock[l]
    BY <1>1, <1>3 DEF w
  <1>6. /\ ClientSane(c, cl'[c]) /\ cl'[c].pc \notin Reading
        /\ \A l \in Conn : NotYet(l, cl'[c]) => NotYet(l, cl[c])
    BY <1>2, LeavingClient
  <1> QED BY <1>2, <1>4, <1>5, <1>6, WireOfLeaving

LEMMA WireRetry ==
  ASSUME TypeOK, Wire, TypeOK', NEW c \in Clients, ClientRetry(c)
  PROVE  Wire'
  <1> DEFINE x == cl[c]
  <1>1. x \in ClientType /\ DOMAIN cl = Clients /\ ClientSane(c, x)
        /\ x.pc = "tcp"
    BY TalkingFacts DEF TypeOK, ClientRetry
  <1>2. /\ h' = h /\ sock' = sock
        /\ \A d \in Clients \ {c} : cl'[d] = cl[d]
        /\ cl'[c] \in {[x EXCEPT !.tries = @ + 1], NextHost(c), Ended(c)}
    <2>1. ASSUME NEW eps, ConnectFailed(c, eps)
          PROVE  /\ cl'[c] \in {NextHost(c), Ended(c)}
                 /\ \A d \in Clients \ {c} : cl'[d] = cl[d]
      BY <1>1, <2>1 DEF ConnectFailed, SetClient
    <2>2. CASE x.tries + 1 < MaxConnRetry
      BY <2>2, <1>1 DEF ClientRetry, SetClient, serverVars
    <2>3. CASE ~ (x.tries + 1 < MaxConnRetry)
      BY <2>1, <2>3, <1>1 DEF ClientRetry, serverVars
    <2> QED BY <2>2, <2>3
  <1>3. /\ ClientSane(c, cl'[c]) /\ cl'[c].pc \notin Reading
        /\ \A k \in Conn : NotYet(k, cl'[c]) => NotYet(k, x)
    <2>1. CASE cl'[c] = [x EXCEPT !.tries = @ + 1]
      <3>1. /\ cl'[c].pc = "tcp" /\ cl'[c].connid = x.connid
            /\ cl'[c].idx = x.idx /\ cl'[c].bufs = x.bufs
        BY <2>1, <1>1 DEF ClientType
      <3> QED BY <3>1, <1>1 DEF ClientSane, NotYet, Reading, Expected
    <2>2. CASE cl'[c] \in {NextHost(c), Ended(c)}
      BY <2>2, LeavingClient
    <2> QED BY <1>2, <2>1, <2>2
  <1> QED BY <1>2, <1>3, WireOfLeaving

LEMMA WireKilled ==
  ASSUME TypeOK, Wire, TypeOK', NEW c \in Clients, ClientKilled(c)
  PROVE  Wire'
  <1>1. /\ h' = h /\ cl'[c] = Ended(c)
        /\ \A d \in Clients \ {c} : cl'[d] = cl[d]
        /\ \A k \in Conn :
             sock'[k] = IF k[1] = c THEN [sock[k] EXCEPT !.cOpen = FALSE]
                                    ELSE sock[k]
    BY DEF ClientKilled, SetClient, serverVars, TypeOK
  <1>2. ASSUME NEW k \in Conn, k[1] = c
        PROVE  /\ sock'[k].toS = sock[k].toS /\ sock'[k].toC = sock[k].toC
               /\ NotYet(k, cl[c]) => sock'[k] = sock[k]
    <2>1. InStep(k, cl[c], h[k], sock[k]) /\ sock[k] \in SocketType
      BY <1>2, HandlerConn DEF Wire
    <2>2. sock'[k] = [sock[k] EXCEPT !.cOpen = FALSE]
      BY <1>1, <1>2
    <2>3. NotYet(k, cl[c]) => sock[k] = NewSocket
      BY <2>1 DEF InStep
    <2> QED BY <2>1, <2>2, <2>3, ClosedNew DEF SocketType
  <1>3. /\ ClientSane(c, cl'[c]) /\ cl'[c].pc \notin Reading
        /\ \A k \in Conn : NotYet(k, cl'[c]) => NotYet(k, cl[c])
    BY <1>1, LeavingClient
  <1> QED BY <1>1, <1>2, <1>3, WireOfLeaving

LEMMA WireClient ==
  ASSUME TypeOK, Wire, TypeOK', NEW c \in Clients,
         ClientStep(c) \/ ClientKilled(c)
  PROVE  Wire'
  BY WireHello, WireRetry, WireHost, WireMem, WirePool, WireChan, WireReturn,
     WireKilled DEF ClientStep

-----------------------------------------------------------------------------
(* A step of a handler. *)

LEMMA WireOfHandler ==
  ASSUME TypeOK, Wire, NEW k \in Conn, cl' = cl,
         \A l \in Conn \ {k} : h'[l] = h[l] /\ sock'[l] = sock[l],
         HandlerSane(k, h'[k]), InStep(k, cl[k[1]], h'[k], sock'[k])
  PROVE  Wire'
  <1>1. \A l \in Conn : HandlerSane(l, h'[l])
    BY DEF Wire
  <1>2. \A l \in Conn : InStep(l, cl[l[1]], h'[l], sock'[l])
    BY DEF Wire
  <1> QED BY <1>1, <1>2 DEF Wire

LEMMA HandlerFacts ==
  ASSUME TypeOK, Wire, NEW k \in Conn
  PROVE  /\ InStep(k, cl[k[1]], h[k], sock[k]) /\ HandlerSane(k, h[k])
         /\ ClientSane(k[1], cl[k[1]]) /\ cl[k[1]] \in ClientType
         /\ h[k] \in HandlerType /\ sock[k] \in SocketType
         /\ DOMAIN h = Conn /\ DOMAIN sock = Conn
         /\ h[k].idx \in Nat /\ h[k].left \in Nat /\ h[k].qps \in Nat
         /\ Qps[k[1]] \in Nat \ {0} /\ BufNum \in Nat \ {0}
         /\ k[1] \in Procs /\ k[1] \in Clients /\ k[2] \in Servers
  <1>1. k[1] \in Clients /\ h[k] \in HandlerType /\ sock[k] \in SocketType
        /\ k[2] \in Servers
    BY HandlerConn
  <1>2. cl[k[1]] \in ClientType /\ DOMAIN h = Conn /\ DOMAIN sock = Conn
    BY <1>1 DEF TypeOK
  <1>3. h[k].idx \in Nat /\ h[k].left \in Nat /\ h[k].qps \in Nat
    BY <1>1 DEF HandlerType
  <1> QED BY <1>1, <1>2, <1>3, Sizes DEF Wire, Procs

(* What a handler reads, by the place it is at. *)
LEMMA HandlerHears ==
  ASSUME TypeOK, Wire, NEW k \in Conn, h[k].pc \in Reading,
         sock[k].toS # << >>
  PROVE  LET m == Head(sock[k].toS)
             y == h[k]
         IN  /\ y.pc = "host" => m = HostMsg(Qps[k[1]], BufNum, k[1])
             /\ y.pc = "mem" => m = MemMsg(k[1])
             /\ y.pc = "chan" => m = ChanMsg(Base(k) + (y.idx - y.left))
             /\ y.pc = "gogo" => m = GoGoMsg
  <1> DEFINE m == Head(sock[k].toS)
             y == h[k]
  <1>1. /\ HandlerSane(k, y) /\ y.idx \in Nat /\ y.left \in Nat /\ y.qps \in Nat
        /\ Qps[k[1]] \in Nat /\ BufNum \in Nat
    BY HandlerFacts
  <1>2. m = Question(k, Heard(y) + 1)
    <2>1. y.pc \in AtWork
      BY DEF Reading, Expected, AtWork, Admitted, Filling
    <2>2. sock[k].toS = <<Question(k, Heard(y) + 1)>>
      BY <2>1, HandlerFacts DEF InStep
    <2> QED BY <2>2, OneLong
  <1> HIDE DEF m, y
  <1>3. CASE y.pc = "host"
    <2>1. Heard(y) + 1 = 1
      BY <1>3 DEF Heard
    <2> QED BY <1>2, <1>3, <2>1, Questions DEF m, y
  <1>4. CASE y.pc = "mem"
    <2>1. Heard(y) + 1 = y.idx + 2 /\ y.idx < BufNum
      BY <1>1, <1>4 DEF Heard, HandlerSane
    <2> QED BY <1>1, <1>2, <1>4, <2>1, Questions DEF m, y
  <1>5. CASE y.pc = "chan"
    <2>1. /\ y.left <= y.idx /\ y.idx < y.left + y.qps /\ y.qps = Qps[k[1]]
      BY <1>1, <1>5 DEF HandlerSane, Filling, Admitted
    <2>2. Heard(y) = BufNum + 1 + (y.idx - y.left)
      BY <1>5 DEF Heard
    <2> DEFINE j == y.idx - y.left
    <2>3. j \in Nat /\ j < Qps[k[1]]
      BY <1>1, <2>1
    <2> HIDE DEF j
    <2>4. Heard(y) + 1 = BufNum + 2 + j
      BY <1>1, <2>2, <2>3 DEF j
    <2> QED BY <1>2, <1>5, <2>3, <2>4, Questions DEF m, y, j
  <1>6. CASE y.pc = "gogo"
    <2>1. y.idx = y.left + y.qps /\ y.qps = Qps[k[1]]
      BY <1>1, <1>6 DEF HandlerSane, Admitted
    <2>2. Heard(y) = BufNum + 1 + (y.idx - y.left)
      BY <1>6 DEF Heard
    <2>3. Heard(y) + 1 = BufNum + 2 + Qps[k[1]]
      BY <1>1, <2>1, <2>2
    <2> QED BY <1>2, <1>6, <2>3, Questions DEF m, y
  <1> QED BY <1>3, <1>4, <1>5, <1>6 DEF Reading, Expected, m, y

(* The socket after a handler has read its message and answered. *)
LEMMA HandlerReplySocket ==
  ASSUME TypeOK, Wire, NEW k \in Conn, NEW m \in Msg, sock[k].toS # << >>,
         HandlerReplies(k, m) \/ HandlerRepliesAndCloses(k, m)
  PROVE  /\ sock'[k].toS = << >> /\ sock'[k].toC = <<m>>
         /\ \A l \in Conn \ {k} : sock'[l] = sock[l]
  <1> DEFINE w == sock[k]
  <1>1. /\ w \in SocketType /\ DOMAIN sock = Conn
        /\ w.toC \in Seq(Msg) /\ w.toS \in Seq(Msg)
        /\ Len(w.toS) + Len(w.toC) <= 1
    <2>1. w \in SocketType /\ DOMAIN sock = Conn
          /\ InStep(k, cl[k[1]], h[k], w)
      BY HandlerFacts
    <2>2. w.toC \in Seq(Msg) /\ w.toS \in Seq(Msg)
      BY <2>1 DEF SocketType
    <2>3. Len(w.toS) + Len(w.toC) <= 1
      BY <2>1 DEF InStep
    <2> QED BY <2>1, <2>2, <2>3
  <1>2. Tail(w.toS) = << >> /\ Append(w.toC, m) = <<m>>
    BY <1>1, OneMessage
  <1>3. CASE HandlerReplies(k, m)
    <2>1. sock' = [sock EXCEPT ![k] = [w EXCEPT !.toS = << >>, !.toC = <<m>>]]
      BY <1>2, <1>3 DEF HandlerReplies, SetSocket
    <2> QED BY <1>1, <2>1 DEF SocketType
  <1>4. CASE HandlerRepliesAndCloses(k, m)
    <2>1. sock' = [sock EXCEPT ![k] = [w EXCEPT !.toS = << >>, !.toC = <<m>>,
                                                !.sOpen = FALSE]]
      BY <1>2, <1>4 DEF HandlerRepliesAndCloses, SetSocket
    <2> QED BY <1>1, <2>1 DEF SocketType
  <1> QED BY <1>3, <1>4

LEMMA WireAccept ==
  ASSUME TypeOK, Wire, NEW k \in Conn, Accept(k)
  PROVE  Wire'
  <1> DEFINE y == h[k]
             u == h'[k]
  <1>1. /\ y.pc = "backlog" /\ u.pc = "host" /\ u.idx = y.idx
        /\ u.left = y.left /\ u.qps = y.qps /\ u.bufs = y.bufs
        /\ cl' = cl /\ sock' = sock
        /\ \A l \in Conn \ {k} : h'[l] = h[l]
    BY HandlerFacts DEF Accept, SetHandler, HandlerType, clientVars
  <1>2. HandlerSane(k, u)
    BY <1>1, HandlerFacts DEF HandlerSane, Admitted, Filling
  <1>3. InStep(k, cl[k[1]], u, sock[k])
    <2>1. Heard(u) = Heard(y) /\ y.pc \in AtWork /\ u.pc \in AtWork
      BY <1>1 DEF Heard, AtWork
    <2> HIDE DEF y, u
    <2>2. InStep(k, cl[k[1]], y, sock[k])
      BY HandlerFacts DEF y
    <2> QED BY <1>1, <2>1, <2>2, HandlerMoves
  <1> QED BY <1>1, <1>2, <1>3, WireOfHandler

LEMMA WireAdmission ==
  ASSUME TypeOK, Wire, NEW k \in Conn, HandlerHost(k)
  PROVE  Wire'
  <1> DEFINE y == h[k]
             u == h'[k]
             Q == Qps[k[1]]
             m == Head(sock[k].toS)
  <1>0. y.pc = "host" /\ y.pc \in Reading /\ sock[k].toS # << >>
    BY DEF HandlerHost, HandlerReads, Reading, Expected
  <1>1. /\ m = HostMsg(Q, BufNum, k[1])
        /\ m.qps = Q /\ m.mems = BufNum /\ m.gid = k[1] /\ BufNum > 0
    <2>1. m = HostMsg(Q, BufNum, k[1])
      BY <1>0, HandlerHears
    <2> QED BY <2>1, HandlerFacts DEF HostMsg
  <1>2. /\ u.pc = "mem" /\ u.qps = Q /\ u.mems = BufNum /\ u.gid = k[1]
        /\ u.idx = y.idx /\ u.bufs = y.bufs
        /\ \A l \in Conn \ {k} : h'[l] = h[l]
    BY <1>1, HandlerFacts DEF HandlerHost, SetHandler, HandlerType
  <1>3. cl' = cl /\ HandlerReplies(k, HostMsg(Q, 0, k[2]))
    BY <1>1 DEF HandlerHost, clientVars
  <1>4. HandlerSane(k, u)
    <2>1. y.idx = 0 /\ y.bufs = << >>
      BY <1>0, HandlerFacts DEF HandlerSane
    <2> QED BY <1>2, <2>1, FilledZero, HandlerFacts
            DEF HandlerSane, Admitted, Filling
  <1>5. /\ sock'[k].toS = << >> /\ sock'[k].toC = <<HostMsg(Q, 0, k[2])>>
        /\ \A l \in Conn \ {k} : sock'[l] = sock[l]
    <2>1. HostMsg(Q, 0, k[2]) \in Msg
      BY HandlerFacts DEF HostMsg, Msg, Procs
    <2> QED BY <1>0, <1>3, <2>1, HandlerReplySocket
  <1>6. InStep(k, cl[k[1]], u, sock'[k])
    <2>1. Heard(y) = 0 /\ Heard(u) = 1
      <3>1. y.idx = 0
        BY <1>0, HandlerFacts DEF HandlerSane
      <3> QED BY <1>0, <1>2, <3>1 DEF Heard
    <2>2. y.pc \in AtWork /\ u.pc \in AtWork
      BY <1>0, <1>2 DEF AtWork, Admitted
    <2>3. u.left \in Nat /\ InStep(k, cl[k[1]], y, sock[k])
      <3>1. u.left = numOfRecv[k[2]]
        BY HandlerFacts DEF HandlerHost, SetHandler, HandlerType
      <3> QED BY <3>1, HandlerFacts DEF TypeOK
    <2>4. Answer(k, u.left, 1) = HostMsg(Q, 0, k[2])
      BY <2>3, Answers
    <2> HIDE DEF y, u, Q
    <2>5. u.qps = Qps[k[1]] /\ Heard(u) = Heard(y) + 1
      BY <1>2, <2>1 DEF Q
    <2> QED BY <1>0, <1>5, <2>1, <2>2, <2>3, <2>4, <2>5, HandlerAnswers
  <1> QED BY <1>2, <1>3, <1>4, <1>5, <1>6, WireOfHandler

LEMMA WireReject ==
  ASSUME TypeOK, Wire, NEW k \in Conn, HandlerReject(k)
  PROVE  Wire'
  <1> DEFINE y == h[k]
             u == h'[k]
  <1>1. /\ y.pc = "host" /\ y.pc \in Reading /\ sock[k].toS # << >>
        /\ u.pc = "failed" /\ u.qps = y.qps
        /\ cl' = cl /\ HandlerRepliesAndCloses(k, RejectMsg)
        /\ \A l \in Conn \ {k} : h'[l] = h[l]
    BY HandlerFacts DEF HandlerReject, HandlerReads, SetHandler, HandlerType,
                        clientVars, Reading, Expected
  <1>2. y.qps = 0
    BY <1>1, HandlerFacts DEF HandlerSane
  <1>3. HandlerSane(k, u)
    BY <1>1, <1>2 DEF HandlerSane, Admitted, Filling
  <1>4. /\ sock'[k].toS = << >> /\ sock'[k].toC = <<RejectMsg>>
        /\ \A l \in Conn \ {k} : sock'[l] = sock[l]
    <2>1. RejectMsg \in Msg
      BY DEF RejectMsg, HostMsg, Msg
    <2> QED BY <1>1, <2>1, HandlerReplySocket
  <1>5. InStep(k, cl[k[1]], u, sock'[k])
    BY <1>1, <1>2, <1>4, HandlerFacts, HandlerRejects
  <1> QED BY <1>1, <1>3, <1>4, <1>5, WireOfHandler

LEMMA WireHandlerMem ==
  ASSUME TypeOK, Wire, NEW k \in Conn, HandlerMem(k)
  PROVE  Wire'
  <1> DEFINE y == h[k]
             u == h'[k]
             m == Head(sock[k].toS)
             p == IF y.idx + 1 < y.mems THEN "mem" ELSE "push"
  <1>0. y.pc = "mem" /\ y.pc \in Reading /\ sock[k].toS # << >>
    BY DEF HandlerMem, HandlerReads, Reading, Expected
  <1>1. /\ m.owner = k[1] /\ y.idx < BufNum /\ y.bufs = Filled(y.idx, k[1])
        /\ y.qps = Qps[k[1]] /\ y.gid = k[1] /\ y.mems = BufNum
        /\ y.idx \in Nat /\ BufNum \in Nat
    <2>1. m = MemMsg(k[1])
      BY <1>0, HandlerHears
    <2> QED BY <1>0, <2>1, HandlerFacts
            DEF MemMsg, HandlerSane, Admitted, Filling
  <1>2. /\ u.pc = p /\ u.idx = y.idx + 1 /\ u.left = y.left
        /\ u.qps = y.qps /\ u.gid = y.gid /\ u.mems = y.mems
        /\ u.bufs = Filled(y.idx + 1, k[1])
        /\ \A l \in Conn \ {k} : h'[l] = h[l]
    <2>1. Append(y.bufs, m.owner) = Filled(y.idx + 1, k[1])
      BY <1>1, FilledNext, HandlerFacts
    <2>2. h' = [h EXCEPT ![k] = [y EXCEPT
                  !.bufs = Append(@, m.owner), !.pc = p, !.idx = @ + 1]]
      BY DEF HandlerMem, SetHandler
    <2>3. h' = [h EXCEPT ![k] = [y EXCEPT
                  !.bufs = Filled(y.idx + 1, k[1]), !.pc = p,
                  !.idx = y.idx + 1]]
      BY <2>1, <2>2
    <2> HIDE DEF p
    <2> QED BY <2>3, HandlerFacts DEF HandlerType
  <1>3. cl' = cl /\ HandlerReplies(k, MemMsg(k[2]))
    BY DEF HandlerMem, clientVars
  <1>4. HandlerSane(k, u)
    <2>1. CASE p = "mem"
      <3>1. y.idx + 1 < BufNum
        BY <1>1, <2>1
      <3> QED BY <1>1, <1>2, <2>1, <3>1 DEF HandlerSane, Admitted, Filling
    <2>2. CASE p = "push"
      <3>1. y.idx + 1 = BufNum
        BY <1>1, <2>2
      <3> QED BY <1>1, <1>2, <2>2, <3>1 DEF HandlerSane, Admitted, Filling
    <2> QED BY <2>1, <2>2
  <1>5. /\ sock'[k].toS = << >> /\ sock'[k].toC = <<MemMsg(k[2])>>
        /\ \A l \in Conn \ {k} : sock'[l] = sock[l]
    <2>1. MemMsg(k[2]) \in Msg
      BY HandlerFacts DEF MemMsg, Msg, Procs
    <2> QED BY <1>0, <1>3, <2>1, HandlerReplySocket
  <1>6. InStep(k, cl[k[1]], u, sock'[k])
    <2>1. Heard(y) = y.idx + 1 /\ Heard(u) = y.idx + 2
      BY <1>0, <1>1, <1>2 DEF Heard
    <2>2. y.pc \in AtWork /\ u.pc \in AtWork
      BY <1>0, <1>2 DEF AtWork, Admitted
    <2>3. u.left \in Nat /\ InStep(k, cl[k[1]], y, sock[k])
      BY <1>2, HandlerFacts
    <2>4. Answer(k, u.left, y.idx + 2) = MemMsg(k[2])
      BY <2>3, <1>1, Answers
    <2>5. Heard(u) = Heard(y) + 1
      BY <1>1, <2>1
    <2> HIDE DEF y, u, p
    <2> QED BY <1>0, <1>1, <1>2, <1>5, <2>1, <2>2, <2>3, <2>4, <2>5,
               HandlerAnswers
  <1> QED BY <1>2, <1>3, <1>4, <1>5, <1>6, WireOfHandler

(* A step of a handler that leaves the socket alone. *)
LEMMA WireOfMoving ==
  ASSUME TypeOK, Wire, NEW k \in Conn, cl' = cl, sock' = sock,
         \A l \in Conn \ {k} : h'[l] = h[l],
         h[k].pc \in Admitted, h'[k].pc \in Admitted,
         h'[k].left = h[k].left, h'[k].qps = h[k].qps,
         h'[k].gid = h[k].gid, h'[k].mems = h[k].mems,
         Heard(h'[k]) = Heard(h[k]),
         h'[k].pc \notin {"mem", "push"},
         h'[k].pc \in Filling =>
           h'[k].left <= h'[k].idx /\ h'[k].idx < h'[k].left + h'[k].qps,
         h'[k].pc = "gogo" => h'[k].idx = h'[k].left + h'[k].qps
  PROVE  Wire'
  <1> DEFINE y == h[k]
             u == h'[k]
  <1>1. HandlerSane(k, u)
    <2>1. y.qps = Qps[k[1]] /\ y.gid = k[1] /\ y.mems = BufNum
      BY HandlerFacts DEF HandlerSane
    <2> QED BY <2>1 DEF HandlerSane, Admitted, Filling
  <1>2. InStep(k, cl[k[1]], u, sock[k])
    <2>1. y.pc \in AtWork /\ u.pc \in AtWork
      BY DEF AtWork
    <2>2. InStep(k, cl[k[1]], y, sock[k])
      BY HandlerFacts
    <2> HIDE DEF y, u
    <2> QED BY <2>1, <2>2, HandlerMoves DEF y, u
  <1> QED BY <1>1, <1>2, WireOfHandler

LEMMA WirePush ==
  ASSUME TypeOK, Wire, NEW k \in Conn, HandlerPush(k)
  PROVE  Wire'
  <1> DEFINE y == h[k]
             u == h'[k]
  <1>1. /\ y.pc = "push" /\ y.idx = BufNum /\ y.qps = Qps[k[1]]
        /\ y.left \in Nat /\ BufNum \in Nat /\ y.qps \in Nat \ {0}
    BY HandlerFacts DEF HandlerPush, HandlerSane, Admitted
  <1>2. /\ u.pc = "chan" /\ u.idx = y.left /\ u.left = y.left
        /\ u.qps = y.qps /\ u.gid = y.gid /\ u.mems = y.mems
        /\ \A l \in Conn \ {k} : h'[l] = h[l]
        /\ cl' = cl /\ sock' = sock
    BY HandlerFacts DEF HandlerPush, SetHandler, HandlerType, clientVars
  <1>3. Heard(u) = Heard(y)
    BY <1>1, <1>2 DEF Heard
  <1>4. u.left <= u.idx /\ u.idx < u.left + u.qps
    BY <1>1, <1>2
  <1> QED BY <1>1, <1>2, <1>3, <1>4, WireOfMoving DEF Admitted, Filling

LEMMA WireFilling ==
  ASSUME TypeOK, Wire, NEW k \in Conn,
         HandlerActivate(k) \/ HandlerFirstBatch(k)
  PROVE  Wire'
  <1> DEFINE y == h[k]
             u == h'[k]
  <1>1. y.pc \in {"activate", "first"} /\ cl' = cl /\ sock' = sock
    BY DEF HandlerActivate, HandlerFirstBatch, clientVars
  <1>2. PICK n, p :
          /\ p \in {"first", "publish"}
          /\ h' = [h EXCEPT ![k] = [y EXCEPT !.first = n, !.pc = p]]
    <2>1. CASE HandlerActivate(k)
      <3>1. h' = [h EXCEPT ![k] = [y EXCEPT !.pc = "first",
                                            !.first = RecvDepth]]
        BY <2>1 DEF HandlerActivate, SetHandler
      <3>2. [y EXCEPT !.pc = "first", !.first = RecvDepth]
              = [y EXCEPT !.first = RecvDepth, !.pc = "first"]
        BY HandlerFacts DEF HandlerType
      <3> QED BY <3>1, <3>2
    <2>2. CASE HandlerFirstBatch(k)
      <3> DEFINE n == y.first - AtMost(y.first, RecvBatch)
                 p == IF Current(k).credits - AtMost(y.first, RecvBatch) > 0
                      THEN "first" ELSE "publish"
      <3>1. h' = [h EXCEPT ![k] = [y EXCEPT !.first = n, !.pc = p]]
        BY <2>2 DEF HandlerFirstBatch, SetHandler
      <3>2. p \in {"first", "publish"}
        OBVIOUS
      <3> HIDE DEF n, p
      <3> QED BY <3>1, <3>2
    <2> QED BY <2>1, <2>2
  <1>3. /\ u.pc = p /\ u.idx = y.idx /\ u.left = y.left
        /\ u.qps = y.qps /\ u.gid = y.gid /\ u.mems = y.mems
        /\ \A l \in Conn \ {k} : h'[l] = h[l]
    BY <1>2, HandlerFacts DEF HandlerType
  <1>4. u.left <= u.idx /\ u.idx < u.left + u.qps
    <2>1. y.left <= y.idx /\ y.idx < y.left + y.qps
      BY <1>1, HandlerFacts DEF HandlerSane, Filling
    <2> QED BY <1>3, <2>1
  <1>5. Heard(u) = Heard(y)
    BY <1>1, <1>2, <1>3 DEF Heard
  <1> HIDE DEF y, u
  <1>6. y.pc \in Admitted /\ u.pc \in Filling /\ u.pc \in Admitted
    BY <1>1, <1>2, <1>3 DEF Admitted, Filling
  <1>7. u.pc \notin {"mem", "push", "gogo"}
    BY <1>2, <1>3
  <1> QED BY <1>1, <1>3, <1>4, <1>5, <1>6, <1>7, WireOfMoving DEF y, u

LEMMA WirePublish ==
  ASSUME TypeOK, Wire, NEW k \in Conn, HandlerPublish(k)
  PROVE  Wire'
  <1> DEFINE y == h[k]
             u == h'[k]
             p == IF y.idx + 1 < y.left + y.qps THEN "chan" ELSE "gogo"
  <1>1. /\ y.pc = "publish" /\ cl' = cl /\ sock' = sock
        /\ y.left <= y.idx /\ y.idx < y.left + y.qps
        /\ y.left \in Nat /\ y.idx \in Nat /\ y.qps \in Nat /\ BufNum \in Nat
    BY HandlerFacts DEF HandlerPublish, HandlerSane, Filling, clientVars
  <1>2. /\ u.pc = p /\ u.idx = y.idx + 1 /\ u.left = y.left
        /\ u.qps = y.qps /\ u.gid = y.gid /\ u.mems = y.mems
        /\ \A l \in Conn \ {k} : h'[l] = h[l]
    <2>1. h' = [h EXCEPT ![k] = [y EXCEPT !.idx = y.idx + 1, !.pc = p]]
      BY DEF HandlerPublish, SetHandler
    <2> HIDE DEF p
    <2> QED BY <2>1, HandlerFacts DEF HandlerType
  <1>3. Heard(u) = Heard(y)
    BY <1>1, <1>2 DEF Heard
  <1>4. /\ u.left <= u.idx
        /\ u.pc = "chan" => u.idx < u.left + u.qps
        /\ u.pc = "gogo" => u.idx = u.left + u.qps
    BY <1>1, <1>2
  <1>5. y.pc \in Admitted /\ u.pc \in Admitted /\ u.pc \in {"chan", "gogo"}
    BY <1>1, <1>2 DEF Admitted, Filling
  <1> HIDE DEF y, u, p
  <1>6. u.pc \in Filling => u.pc = "chan"
    BY <1>5 DEF Filling
  <1> QED BY <1>1, <1>2, <1>3, <1>4, <1>5, <1>6, WireOfMoving DEF y, u

LEMMA WireHandlerChan ==
  ASSUME TypeOK, Wire, NEW k \in Conn, HandlerChan(k)
  PROVE  Wire'
  <1> DEFINE y == h[k]
             u == h'[k]
             j == y.idx - y.left
  <1>0. y.pc = "chan" /\ y.pc \in Reading /\ sock[k].toS # << >>
    BY DEF HandlerChan, HandlerReads, Reading, Expected
  <1>1. /\ y.left <= y.idx /\ y.idx < y.left + y.qps /\ y.qps = Qps[k[1]]
        /\ y.gid = k[1] /\ y.mems = BufNum
        /\ y.left \in Nat /\ y.idx \in Nat /\ y.qps \in Nat /\ BufNum \in Nat
        /\ j \in Nat /\ j < Qps[k[1]]
    <2>1. /\ y.left <= y.idx /\ y.idx < y.left + y.qps /\ y.qps = Qps[k[1]]
          /\ y.gid = k[1] /\ y.mems = BufNum
          /\ y.left \in Nat /\ y.idx \in Nat /\ y.qps \in Nat
          /\ BufNum \in Nat
      BY <1>0, HandlerFacts DEF HandlerSane, Filling, Admitted
    <2> QED BY <2>1
  <1>2. /\ u.pc = "activate" /\ u.idx = y.idx /\ u.left = y.left
        /\ u.qps = y.qps /\ u.gid = y.gid /\ u.mems = y.mems
        /\ \A l \in Conn \ {k} : h'[l] = h[l]
        /\ cl' = cl /\ HandlerReplies(k, ChanMsg(y.idx))
    BY HandlerFacts DEF HandlerChan, SetHandler, HandlerType, clientVars
  <1>3. /\ sock'[k].toS = << >> /\ sock'[k].toC = <<ChanMsg(y.idx)>>
        /\ \A l \in Conn \ {k} : sock'[l] = sock[l]
    <2>1. ChanMsg(y.idx) \in Msg
      BY <1>1 DEF ChanMsg, Msg
    <2> QED BY <1>0, <1>2, <2>1, HandlerReplySocket
  <1>4. HandlerSane(k, u)
    BY <1>1, <1>2 DEF HandlerSane, Admitted, Filling
  <1>5. InStep(k, cl[k[1]], u, sock'[k])
    <2>1. Heard(y) = BufNum + 1 + j /\ Heard(u) = BufNum + 2 + j
      BY <1>0, <1>2 DEF Heard
    <2>2. y.pc \in AtWork /\ u.pc \in AtWork
      BY <1>0, <1>2 DEF AtWork, Admitted, Filling
    <2>3. u.left \in Nat /\ u.left = y.left /\ InStep(k, cl[k[1]], y, sock[k])
      BY <1>1, <1>2, HandlerFacts
    <2>4. y.left + j = y.idx
      BY <1>1
    <2> HIDE DEF j
    <2>5. Answer(k, u.left, BufNum + 2 + j) = ChanMsg(y.left + j)
      BY <1>1, <2>3, Answers
    <2>6. Heard(u) = Heard(y) + 1
      BY <1>1, <2>1
    <2> HIDE DEF y, u
    <2> QED BY <1>0, <1>1, <1>2, <1>3, <2>1, <2>2, <2>3, <2>4, <2>5, <2>6,
               HandlerAnswers
  <1> QED BY <1>2, <1>3, <1>4, <1>5, WireOfHandler

LEMMA WireHandlerGoGo ==
  ASSUME TypeOK, Wire, NEW k \in Conn, HandlerGoGo(k)
  PROVE  Wire'
  <1> DEFINE y == h[k]
             u == h'[k]
             Q == Qps[k[1]]
  <1>0. y.pc = "gogo" /\ y.pc \in Reading /\ sock[k].toS # << >>
    BY DEF HandlerGoGo, HandlerReads, Reading, Expected
  <1>1. /\ y.idx = y.left + y.qps /\ y.qps = Q
        /\ y.gid = k[1] /\ y.mems = BufNum
        /\ y.left \in Nat /\ y.qps \in Nat /\ BufNum \in Nat
    BY <1>0, HandlerFacts DEF HandlerSane, Admitted
  <1>2. /\ u.pc = "done" /\ u.idx = y.idx /\ u.left = y.left
        /\ u.qps = y.qps /\ u.gid = y.gid /\ u.mems = y.mems
        /\ \A l \in Conn \ {k} : h'[l] = h[l]
        /\ cl' = cl /\ HandlerRepliesAndCloses(k, GoGoMsg)
    BY HandlerFacts DEF HandlerGoGo, SetHandler, HandlerType, clientVars
  <1>3. /\ sock'[k].toS = << >> /\ sock'[k].toC = <<GoGoMsg>>
        /\ \A l \in Conn \ {k} : sock'[l] = sock[l]
    <2>1. GoGoMsg \in Msg
      BY DEF GoGoMsg, Msg
    <2> QED BY <1>0, <1>2, <2>1, HandlerReplySocket
  <1>4. HandlerSane(k, u)
    BY <1>1, <1>2 DEF HandlerSane, Admitted, Filling
  <1>5. InStep(k, cl[k[1]], u, sock'[k])
    <2>1. Heard(y) = BufNum + 1 + Q /\ Heard(u) = BufNum + 2 + Q
      BY <1>0, <1>1, <1>2 DEF Heard
    <2>2. y.pc \in AtWork /\ u.pc \in AtWork \cup {"done"}
      BY <1>0, <1>2 DEF AtWork, Admitted
    <2>3. u.left \in Nat /\ InStep(k, cl[k[1]], y, sock[k])
      BY <1>1, <1>2, HandlerFacts
    <2>4. Answer(k, u.left, BufNum + 2 + Q) = GoGoMsg
      BY <2>3, Answers
    <2>5. Heard(u) = Heard(y) + 1
      BY <1>1, <2>1
    <2> HIDE DEF y, u
    <2> QED BY <1>0, <1>1, <1>2, <1>3, <2>1, <2>2, <2>3, <2>4, <2>5,
               HandlerAnswers
  <1> QED BY <1>2, <1>3, <1>4, <1>5, WireOfHandler

LEMMA WireHandlerOut ==
  ASSUME TypeOK, Wire, NEW k \in Conn, HandlerOut(k)
  PROVE  Wire'
  <1> DEFINE y == h[k]
             u == h'[k]
  <1>0. y.pc # "none"
    BY DEF HandlerOut, HandlerGivesUp, Reading, Expected
  <1>1. /\ u.pc = "failed" /\ u.left = y.left /\ u.qps = y.qps
        /\ \A l \in Conn \ {k} : h'[l] = h[l] /\ sock'[l] = sock[l]
        /\ cl' = cl
        /\ sock'[k].toS = sock[k].toS /\ sock'[k].toC = sock[k].toC
    BY HandlerFacts DEF HandlerOut, SetHandler, HandlerType, HandlerCloses,
                        SetSocket, SocketType, clientVars
  <1>2. y.qps \in {0, Qps[k[1]]}
    <2>1. y.pc \in {"none", "backlog", "host", "failed"}
            \/ y.pc \in Admitted \cup {"done"}
      BY HandlerFacts DEF HandlerType, HandlerPc, Reading, Expected, Admitted,
                          Filling
    <2> QED BY <2>1, HandlerFacts DEF HandlerSane
  <1>3. HandlerSane(k, u)
    BY <1>1, <1>2 DEF HandlerSane, Admitted, Filling
  <1>4. InStep(k, cl[k[1]], u, sock'[k])
    BY <1>0, <1>1, HandlerFacts, HandlerFails
  <1> QED BY <1>1, <1>3, <1>4, WireOfHandler

LEMMA WireServerExit ==
  ASSUME TypeOK, Wire, NEW s \in Servers, ServerExit(s)
  PROVE  Wire'
  <1>1. /\ cl' = cl
        /\ \A k \in Conn :
             /\ h'[k] = IF k[2] = s /\ h[k].pc # "none"
                        THEN [h[k] EXCEPT !.pc = "failed"] ELSE h[k]
             /\ sock'[k] = IF k[2] = s THEN [sock[k] EXCEPT !.sOpen = FALSE]
                                       ELSE sock[k]
    BY DEF ServerExit, clientVars
  <1>2. ASSUME NEW k \in Conn
        PROVE  HandlerSane(k, h'[k]) /\ InStep(k, cl[k[1]], h'[k], sock'[k])
    <2> DEFINE y == h[k]
               u == h'[k]
    <2>0. /\ sock'[k].toS = sock[k].toS /\ sock'[k].toC = sock[k].toC
          /\ InStep(k, cl[k[1]], y, sock[k]) /\ HandlerSane(k, y)
      BY <1>1, HandlerFacts DEF SocketType
    <2>1. CASE k[2] # s
      BY <1>1, <2>0, <2>1
    <2>2. CASE k[2] = s /\ y.pc # "none"
      <3>1. u.pc = "failed" /\ u.left = y.left /\ u.qps = y.qps
        BY <1>1, <2>2, HandlerFacts DEF HandlerType
      <3>2. y.qps \in {0, Qps[k[1]]}
        <4>1. y.pc \in {"none", "backlog", "host", "failed"}
                \/ y.pc \in Admitted \cup {"done"}
          BY HandlerFacts DEF HandlerType, HandlerPc, Reading, Expected,
                              Admitted, Filling
        <4> QED BY <4>1, <2>0 DEF HandlerSane
      <3>3. HandlerSane(k, u)
        BY <3>1, <3>2 DEF HandlerSane, Admitted, Filling
      <3>4. InStep(k, cl[k[1]], u, sock'[k])
        BY <2>0, <2>2, <3>1, HandlerFails
      <3> QED BY <3>3, <3>4
    <2>3. CASE k[2] = s /\ y.pc = "none"
      <3>1. u = y
        BY <1>1, <2>3
      <3>2. NotYet(k, cl[k[1]]) => sock'[k] = NewSocket /\ y = NewHandler
        BY <1>1, <2>0, <2>3, ClosedNew DEF InStep
      <3>3. y.pc \notin AtWork \cup {"done"}
        BY <2>3 DEF AtWork, Admitted, Filling
      <3>4. InStep(k, cl[k[1]], y, sock'[k])
        BY <2>0, <3>2, <3>3 DEF InStep, Answered
      <3> QED BY <2>0, <3>1, <3>4
    <2> QED BY <2>1, <2>2, <2>3
  <1> QED BY <1>1, <1>2 DEF Wire

LEMMA WireHandler ==
  ASSUME TypeOK, Wire, NEW k \in Conn, Accept(k) \/ HandlerStep(k)
  PROVE  Wire'
  BY WireAccept, WireAdmission, WireReject, WireHandlerMem, WirePush,
     WireHandlerChan, WireFilling, WirePublish, WireHandlerGoGo,
     WireHandlerOut DEF HandlerStep

(* In every run, the two sides of every connection agree on how far their  *)
(* conversation is, and the message on the wire is the next one of it.     *)
THEOREM Conversing == Spec => []Wire
  <1>1. Init => Wire
    <2> SUFFICES ASSUME Init PROVE Wire
      OBVIOUS
    <2>1. \A k \in Conn : k[1] \in Clients /\ k[2] \in Nat
      BY Sizes, HandshakeAssumption DEF Servers
    <2>2. /\ \A c \in Clients : /\ cl[c].pc = "tcp" /\ cl[c].connid = 0
                                /\ cl[c].idx = 0 /\ cl[c].bufs = << >>
          /\ \A k \in Conn : h[k] = NewHandler /\ sock[k] = NewSocket
      BY DEF Init, NewConnect
    <2>3. \A c \in Clients : ClientSane(c, cl[c])
      BY <2>2 DEF ClientSane
    <2>4. /\ NewHandler.pc = "none" /\ NewHandler.qps = 0
          /\ NewHandler.idx = 0 /\ NewHandler.bufs = << >>
      BY DEF NewHandler
    <2>5. \A k \in Conn : HandlerSane(k, h[k])
      BY <2>2, <2>4 DEF HandlerSane, Admitted, Filling
    <2>6. /\ NewSocket.toS = << >> /\ NewSocket.toC = << >>
          /\ Len(NewSocket.toS) + Len(NewSocket.toC) <= 1
      BY DEF NewSocket
    <2>7. \A k \in Conn : ~ Talking(k, cl[k[1]])
      BY <2>1, <2>2 DEF Talking, Reading, Expected
    <2>8. \A k \in Conn : InStep(k, cl[k[1]], h[k], sock[k])
      BY <2>2, <2>4, <2>6, <2>7 DEF InStep, AtWork, Admitted, Filling
    <2> QED BY <2>3, <2>5, <2>8 DEF Wire
  <1>2. TypeOK /\ TypeOK' /\ Wire /\ [Next]_vars => Wire'
    <2> SUFFICES ASSUME TypeOK, TypeOK', Wire, [Next]_vars PROVE Wire'
      OBVIOUS
    <2>1. CASE \E c \in Clients : ClientStep(c) \/ ClientKilled(c)
      BY <2>1, WireClient
    <2>2. CASE \E s \in Servers : StartListen(s)
      BY <2>2 DEF StartListen, clientVars, Wire
    <2>3. CASE \E s \in Servers : ServerExit(s)
      BY <2>3, WireServerExit
    <2>4. CASE \E k \in Conn : Accept(k) \/ HandlerStep(k)
      BY <2>4, WireHandler
    <2>5. CASE UNCHANGED vars
      BY <2>5 DEF vars, Wire
    <2> QED BY <2>1, <2>2, <2>3, <2>4, <2>5 DEF Next
  <1> QED BY <1>1, <1>2, TypeCorrect, PTL DEF Spec

(* One message is in flight at most, and whoever reads it waits for one of *)
(* its type, whatever connections break and processes end.                 *)
THEOREM InLockstep == Spec => []Lockstep
  <1>1. TypeOK /\ Wire => Lockstep
    <2> SUFFICES ASSUME TypeOK, Wire PROVE Lockstep
      OBVIOUS
    <2>t. /\ \A n, m, g : HostMsg(n, m, g).type = "Host"
          /\ \A o : MemMsg(o).type = "Mem"
          /\ \A q : ChanMsg(q).type = "Chan"
          /\ GoGoMsg.type = "GoGo" /\ RejectMsg.type = "Host"
      BY DEF HostMsg, MemMsg, ChanMsg, GoGoMsg, RejectMsg
    <2>e. /\ Expected["host"] = "Host" /\ Expected["mem"] = "Mem"
          /\ Expected["chan"] = "Chan" /\ Expected["gogo"] = "GoGo"
          /\ Reading = {"host", "mem", "chan", "gogo"}
      BY DEF Expected, Reading
    <2>1. \A k \in Conn : Len(sock[k].toS) + Len(sock[k].toC) <= 1
      BY DEF Wire, InStep
    <2>2. ASSUME NEW c \in Clients, cl[c].pc \in Reading,
                 sock[At(c)].toC # << >>
          PROVE  ClientReads(c, Expected[cl[c].pc])
      BY <2>2, <2>t, <2>e, ClientHears DEF ClientReads
    <2>3. ASSUME NEW k \in Conn, h[k].pc \in Reading, sock[k].toS # << >>
          PROVE  HandlerReads(k, Expected[h[k].pc])
      BY <2>3, <2>t, <2>e, HandlerHears DEF HandlerReads
    <2> QED BY <2>1, <2>2, <2>3 DEF Lockstep
  <1> QED BY <1>1, TypeCorrect, Conversing, PTL


-----------------------------------------------------------------------------
(* Nobody waits for nobody. *)

(* The two ends of connection k: the client's is open as long as the       *)
(* client with the locals x is in Connect on it, the server's as long as   *)
(* its handler with the locals y is at work, and as long as both are, it   *)
(* is the turn of one: there is a message on the wire.                     *)
EndsMeet(k, x, y, w) ==
  /\ w.cOpen <=> Talking(k, x)
  /\ w.sOpen <=> y.pc \in AtWork
  /\ Talking(k, x) /\ y.pc \in AtWork => w.toS # << >> \/ w.toC # << >>

Ends == \A k \in Conn : EndsMeet(k, cl[k[1]], h[k], sock[k])

(* A client that waits for an answer gets one, or its server has closed    *)
(* the connection, or the question is there for a handler at work to read; *)
(* and a handler that waits for a question gets one, or its client has     *)
(* closed the connection, or is in Connect on it and has an answer to read.*)
NobodyWaitsInVain ==
  /\ \A c \in Clients :
       cl[c].pc \in Reading /\ sock[At(c)].toC = << >> =>
         \/ ~ sock[At(c)].sOpen
         \/ sock[At(c)].toS # << >> /\ h[At(c)].pc \in AtWork
  /\ \A k \in Conn :
       h[k].pc \in Reading /\ sock[k].toS = << >> =>
         \/ ~ sock[k].cOpen
         \/ Talking(k, cl[k[1]]) /\ sock[k].toC # << >>

(* A client moves, and at most its connection with it. *)
LEMMA EndsOfClient ==
  ASSUME TypeOK, Ends, NEW c \in Clients,
         \A d \in Clients \ {c} : cl'[d] = cl[d],
         \A k \in Conn \ {At(c)} : h'[k] = h[k] /\ sock'[k] = sock[k],
         cl'[c].pc \in Reading => cl'[c].connid = cl[c].connid,
         EndsMeet(At(c), cl'[c], h'[At(c)], sock'[At(c)])
  PROVE  Ends'
  <1> SUFFICES ASSUME NEW k \in Conn
               PROVE  EndsMeet(k, cl'[k[1]], h'[k], sock'[k])
    BY DEF Ends
  <1>1. EndsMeet(k, cl[k[1]], h[k], sock[k]) /\ k[1] \in Clients
    BY HandlerConn DEF Ends
  <1>2. CASE k = At(c)
    BY <1>2 DEF At
  <1>3. CASE k # At(c) /\ k[1] # c
    BY <1>1, <1>3
  <1>4. CASE k # At(c) /\ k[1] = c
    <2>1. k[2] # cl[c].connid
      BY <1>4, Sizes DEF At
    <2>2. ~ Talking(k, cl[c]) /\ ~ Talking(k, cl'[c])
      BY <2>1 DEF Talking
    <2> QED BY <1>1, <1>4, <2>2 DEF EndsMeet
  <1> QED BY <1>2, <1>3, <1>4

LEMMA EndsHello ==
  ASSUME TypeOK, Ends, NEW c \in Clients, ClientHello(c)
  PROVE  Ends'
  <1> DEFINE k == At(c)
             q == <<HostMsg(Qps[c], BufNum, c)>>
  <1>1. /\ k \in Conn /\ k[1] = c /\ k[2] = cl[c].connid
        /\ cl[c] \in ClientType /\ h[k] \in HandlerType
        /\ DOMAIN h = Conn /\ DOMAIN sock = Conn /\ DOMAIN cl = Clients
    BY AtConn, HandlerConn DEF TypeOK, At
  <1>2. /\ cl'[c] = [cl[c] EXCEPT !.pc = "host"]
        /\ h'[k] = [h[k] EXCEPT !.pc = "backlog"]
        /\ sock'[k] = [toS |-> q, toC |-> << >>, cOpen |-> TRUE,
                       sOpen |-> TRUE]
        /\ \A d \in Clients \ {c} : cl'[d] = cl[d]
        /\ \A l \in Conn \ {k} : h'[l] = h[l] /\ sock'[l] = sock[l]
    BY <1>1 DEF ClientHello, SetHandler, SetSocket, SetClient
  <1>3. /\ cl'[c].pc = "host" /\ cl'[c].connid = cl[c].connid
        /\ h'[k].pc = "backlog"
    BY <1>1, <1>2 DEF ClientType, HandlerType
  <1>4. EndsMeet(k, cl'[c], h'[k], sock'[k])
    <2>1. Talking(k, cl'[c]) /\ h'[k].pc \in AtWork
      BY <1>1, <1>3 DEF Talking, Reading, Expected, AtWork
    <2>2. sock'[k].cOpen /\ sock'[k].sOpen /\ sock'[k].toS # << >>
      BY <1>2, OneLong
    <2> QED BY <2>1, <2>2 DEF EndsMeet
  <1> HIDE DEF k, q
  <1> QED BY <1>2, <1>3, <1>4, EndsOfClient DEF k

(* The client reads a message that is not the last and answers. *)
LEMMA EndsReply ==
  ASSUME TypeOK, Wire, Ends, NEW c \in Clients,
         \/ ClientHost(c) \/ ClientMem(c) \/ ClientPool(c) \/ ClientChan(c)
  PROVE  Ends'
  <1> DEFINE k == At(c)
             x == cl[c]
  <1>1. /\ k \in Conn /\ k[1] = c /\ k[2] = x.connid
        /\ x \in ClientType /\ sock[k] \in SocketType
        /\ DOMAIN h = Conn /\ DOMAIN sock = Conn /\ DOMAIN cl = Clients
        /\ EndsMeet(k, x, h[k], sock[k])
    BY AtConn DEF TypeOK, At, Ends
  <1>2. /\ x.pc \in Reading /\ sock[k].toC # << >> /\ h' = h
        /\ \E m : ClientReplies(c, m)
    <2>1. CASE ClientHost(c) \/ ClientMem(c) \/ ClientPool(c)
      BY <2>1 DEF ClientHost, ClientMem, ClientPool, ClientReads, Reading,
                  Expected, serverVars
    <2>2. CASE ClientChan(c)
      BY <2>2 DEF ClientChan, ClientNextQp, ClientReads, Reading, Expected,
                  serverVars
    <2> QED BY <2>1, <2>2
  <1>3. /\ cl'[c].pc \in Reading /\ cl'[c].connid = x.connid
        /\ \A d \in Clients \ {c} : cl'[d] = cl[d]
    <2>1. CASE ClientHost(c) \/ ClientMem(c) \/ ClientPool(c)
      <3>1. CASE ClientHost(c)
        <4>1. cl' = [cl EXCEPT ![c] =
                       [x EXCEPT !.pc = "mem", !.gid = Head(sock[k].toC).gid]]
          BY <3>1 DEF ClientHost, SetClient
        <4> QED BY <1>1, <4>1 DEF ClientType, Reading, Expected
      <3>2. CASE ClientMem(c)
        <4>1. x.pc = "mem" /\ cl' = [cl EXCEPT ![c] =
                 [x EXCEPT !.idx = x.idx + 1,
                    !.bufs = Append(x.bufs, Head(sock[k].toC).owner)]]
          BY <1>1, <3>2 DEF ClientMem, SetClient, ClientType
        <4> QED BY <1>1, <4>1 DEF ClientType, Reading, Expected
      <3>3. CASE ClientPool(c)
        <4>1. cl' = [cl EXCEPT ![c] =
                 [x EXCEPT !.pc = "chan", !.idx = 0,
                    !.bufs = Append(x.bufs, Head(sock[k].toC).owner),
                    !.mem = Len(cPools[c])]]
          BY <3>3 DEF ClientPool, SetClient
        <4> QED BY <1>1, <4>1 DEF ClientType, Reading, Expected
      <3> QED BY <2>1, <3>1, <3>2, <3>3
    <2>2. CASE ClientChan(c)
      BY <1>1, <1>2, <2>2 DEF ClientChan, ClientNextQp, SetClient,
                  ClientType, Reading, Expected
    <2> QED BY <2>1, <2>2
  <1>4. /\ sock'[k].toS # << >>
        /\ sock'[k].cOpen = sock[k].cOpen /\ sock'[k].sOpen = sock[k].sOpen
        /\ \A l \in Conn \ {k} : sock'[l] = sock[l]
    <2>1. PICK m : ClientReplies(c, m)
      BY <1>2
    <2>2. sock' = [sock EXCEPT ![k] = [sock[k] EXCEPT
                     !.toC = Tail(@), !.toS = Append(@, m)]]
      BY <2>1 DEF ClientReplies, SetSocket
    <2>3. sock[k].toS \in Seq(Msg)
      BY <1>1 DEF SocketType
    <2>4. Append(sock[k].toS, m) # << >>
      BY <2>3
    <2> QED BY <1>1, <2>2, <2>4 DEF SocketType
  <1>5. EndsMeet(k, cl'[c], h'[k], sock'[k])
    <2>1. Talking(k, x) /\ Talking(k, cl'[c])
      BY <1>1, <1>2, <1>3 DEF Talking
    <2> QED BY <1>1, <1>2, <1>4, <2>1 DEF EndsMeet
  <1> QED BY <1>2, <1>3, <1>4, <1>5, EndsOfClient

(* Connect returns. *)
LEMMA EndsReturn ==
  ASSUME TypeOK, Wire, Ends, NEW c \in Clients,
         \/ ClientRetry(c) \/ ClientGoGo(c) \/ ClientActivateFails(c)
         \/ ClientOut(c)
  PROVE  Ends'
  <1> DEFINE k == At(c)
             x == cl[c]
  <1>1. /\ k \in Conn /\ k[1] = c /\ k[2] = x.connid
        /\ x \in ClientType /\ sock[k] \in SocketType
        /\ DOMAIN h = Conn /\ DOMAIN sock = Conn /\ DOMAIN cl = Clients
        /\ EndsMeet(k, x, h[k], sock[k])
    BY AtConn DEF TypeOK, At, Ends
  <1>2. /\ h' = h
        /\ cl'[c].pc \notin Reading
        /\ \A d \in Clients \ {c} : cl'[d] = cl[d]
    <2>1. ASSUME NEW eps, ConnectFailed(c, eps)
          PROVE  /\ cl'[c] \in {NextHost(c), Ended(c)}
                 /\ \A d \in Clients \ {c} : cl'[d] = cl[d]
      BY <1>1, <2>1 DEF ConnectFailed, SetClient
    <2>2. /\ h' = h
          /\ \/ cl'[c] \in {NextHost(c), Ended(c)}
             \/ cl'[c] = [x EXCEPT !.tries = @ + 1] /\ x.pc = "tcp"
          /\ \A d \in Clients \ {c} : cl'[d] = cl[d]
      <3>1. CASE ClientGoGo(c)
        BY <3>1, <1>1 DEF ClientGoGo, SetClient, serverVars
      <3>2. CASE ClientActivateFails(c)
        BY <2>1, <3>2 DEF ClientActivateFails, serverVars
      <3>3. CASE ClientOut(c)
        BY <2>1, <3>3 DEF ClientOut, serverVars
      <3>4. CASE ClientRetry(c) /\ x.tries + 1 < MaxConnRetry
        BY <3>4, <1>1 DEF ClientRetry, SetClient, serverVars
      <3>5. CASE ClientRetry(c) /\ ~ (x.tries + 1 < MaxConnRetry)
        BY <2>1, <3>5 DEF ClientRetry, serverVars
      <3> QED BY <3>1, <3>2, <3>3, <3>4, <3>5
    <2>3. cl'[c] = [x EXCEPT !.tries = @ + 1] /\ x.pc = "tcp"
            => cl'[c].pc = "tcp"
      BY <1>1 DEF ClientType
    <2>4. cl'[c] \in {NextHost(c), Ended(c)} => cl'[c].pc \notin Reading
      BY LeavingClient
    <2> QED BY <2>2, <2>3, <2>4 DEF Reading, Expected
  <1>3. /\ sock'[k].cOpen = FALSE /\ sock'[k].sOpen = sock[k].sOpen
        /\ \A l \in Conn \ {k} : sock'[l] = sock[l]
    <2>1. CASE ClientGoGo(c)
      BY <2>1, <1>1 DEF ClientGoGo, SetSocket, SocketType
    <2>2. CASE ClientActivateFails(c) \/ ClientOut(c)
      BY <2>2, <1>1 DEF ClientActivateFails, ClientOut, ClientCloses,
                        SetSocket, SocketType
    <2>3. CASE ClientRetry(c)
      <3>1. x.pc = "tcp" /\ sock' = sock
        BY <2>3 DEF ClientRetry
      <3>2. ~ Talking(k, x)
        BY <3>1 DEF Talking, Reading, Expected
      <3> QED BY <1>1, <3>1, <3>2 DEF EndsMeet, SocketType
    <2> QED BY <2>1, <2>2, <2>3
  <1>4. EndsMeet(k, cl'[c], h'[k], sock'[k])
    <2>1. ~ Talking(k, cl'[c])
      BY <1>2 DEF Talking
    <2> QED BY <1>1, <1>2, <1>3, <2>1 DEF EndsMeet
  <1> QED BY <1>2, <1>3, <1>4, EndsOfClient

LEMMA EndsKilled ==
  ASSUME TypeOK, Ends, NEW c \in Clients, ClientKilled(c)
  PROVE  Ends'
  <1>1. /\ h' = h /\ cl'[c] = Ended(c)
        /\ \A d \in Clients \ {c} : cl'[d] = cl[d]
        /\ \A k \in Conn :
             sock'[k] = IF k[1] = c THEN [sock[k] EXCEPT !.cOpen = FALSE]
                                    ELSE sock[k]
    BY DEF ClientKilled, SetClient, serverVars, TypeOK
  <1>2. cl'[c].pc = "exit"
    BY <1>1, AtConn DEF Ended, ClientType
  <1> SUFFICES ASSUME NEW k \in Conn
               PROVE  EndsMeet(k, cl'[k[1]], h'[k], sock'[k])
    BY DEF Ends
  <1>3. EndsMeet(k, cl[k[1]], h[k], sock[k]) /\ k[1] \in Clients
        /\ sock[k] \in SocketType
    BY HandlerConn DEF Ends
  <1>4. CASE k[1] # c
    BY <1>1, <1>3, <1>4
  <1>5. CASE k[1] = c
    <2>1. ~ Talking(k, cl'[c])
      BY <1>2 DEF Talking, Reading, Expected
    <2>2. sock'[k].cOpen = FALSE /\ sock'[k].sOpen = sock[k].sOpen
      BY <1>1, <1>3, <1>5 DEF SocketType
    <2> QED BY <1>1, <1>3, <1>5, <2>1, <2>2 DEF EndsMeet
  <1> QED BY <1>4, <1>5

(* Where a step leaves a handler. *)
LEMMA HandlerPcAfter ==
  ASSUME TypeOK, NEW k \in Conn
  PROVE  /\ HandlerHost(k) \/ HandlerMem(k) \/ HandlerChan(k) =>
              h'[k].pc \in {"mem", "push", "activate"}
         /\ HandlerReject(k) \/ HandlerGoGo(k) \/ HandlerOut(k) =>
              h'[k].pc \in {"failed", "done"}
         /\ (\/ Accept(k) \/ HandlerPush(k) \/ HandlerActivate(k)
             \/ HandlerFirstBatch(k) \/ HandlerPublish(k))
              => h'[k].pc \in {"host", "chan", "first", "publish", "gogo"}
  <1>1. DOMAIN h = Conn /\ h[k] \in HandlerType
    BY HandlerConn DEF TypeOK
  <1>2. ASSUME NEW r, SetHandler(k, r)
        PROVE  h'[k] = r
    BY <1>1, <1>2 DEF SetHandler
  <1>3. HandlerHost(k) => h'[k].pc \in {"mem", "push"}
    BY <1>1, <1>2 DEF HandlerHost, HandlerType
  <1>4. HandlerMem(k) => h'[k].pc \in {"mem", "push"}
    BY <1>1, <1>2 DEF HandlerMem, HandlerType
  <1>5. HandlerChan(k) => h'[k].pc = "activate"
    BY <1>1, <1>2 DEF HandlerChan, HandlerType
  <1>6. HandlerReject(k) \/ HandlerOut(k) => h'[k].pc = "failed"
    BY <1>1, <1>2 DEF HandlerReject, HandlerOut, HandlerType
  <1>7. HandlerGoGo(k) => h'[k].pc = "done"
    BY <1>1, <1>2 DEF HandlerGoGo, HandlerType
  <1>8. Accept(k) => h'[k].pc = "host"
    BY <1>1, <1>2 DEF Accept, HandlerType
  <1>9. HandlerPush(k) => h'[k].pc = "chan"
    BY <1>1, <1>2 DEF HandlerPush, HandlerType
  <1>10. HandlerActivate(k) => h'[k].pc = "first"
    BY <1>1, <1>2 DEF HandlerActivate, HandlerType
  <1>11. HandlerFirstBatch(k) => h'[k].pc \in {"first", "publish"}
    BY <1>1, <1>2 DEF HandlerFirstBatch, HandlerType
  <1>12. HandlerPublish(k) => h'[k].pc \in {"chan", "gogo"}
    BY <1>1, <1>2 DEF HandlerPublish, HandlerType
  <1> QED BY <1>3, <1>4, <1>5, <1>6, <1>7, <1>8, <1>9, <1>10, <1>11, <1>12

(* A handler moves. *)
LEMMA EndsHandler ==
  ASSUME TypeOK, Ends, NEW k \in Conn, Accept(k) \/ HandlerStep(k)
  PROVE  Ends'
  <1> DEFINE y == h[k]
             w == sock[k]
  <1>1. /\ DOMAIN h = Conn /\ DOMAIN sock = Conn
        /\ y \in HandlerType /\ w \in SocketType /\ w.toC \in Seq(Msg)
        /\ EndsMeet(k, cl[k[1]], y, w)
    BY HandlerConn DEF TypeOK, Ends, SocketType
  <1>2. /\ cl' = cl
        /\ \A l \in Conn \ {k} : h'[l] = h[l] /\ sock'[l] = sock[l]
    BY <1>1 DEF HandlerStep, Accept, HandlerHost, HandlerReject, HandlerMem,
         HandlerPush, HandlerChan, HandlerActivate, HandlerFirstBatch,
         HandlerPublish, HandlerGoGo, HandlerOut, HandlerReplies,
         HandlerRepliesAndCloses, HandlerCloses, SetHandler, SetSocket,
         clientVars
  <1>3. EndsMeet(k, cl[k[1]], h'[k], sock'[k])
    <2>1. CASE HandlerHost(k) \/ HandlerMem(k) \/ HandlerChan(k)
      <3>1. /\ y.pc \in AtWork /\ h'[k].pc \in AtWork
            /\ \E m : HandlerReplies(k, m)
        <4>1. h'[k].pc \in {"mem", "push", "activate"}
          BY <1>1, <2>1, HandlerPcAfter
        <4>2. y.pc \in {"host", "mem", "chan"} /\ \E m : HandlerReplies(k, m)
          BY <2>1 DEF HandlerHost, HandlerMem, HandlerChan
        <4> QED BY <4>1, <4>2 DEF AtWork, Admitted, Filling
      <3>2. PICK m : HandlerReplies(k, m)
        BY <3>1
      <3>3. Append(w.toC, m) # << >>
        BY <1>1
      <3>4. /\ sock'[k].toC # << >> /\ sock'[k].cOpen = w.cOpen
            /\ sock'[k].sOpen = w.sOpen
        BY <1>1, <3>2, <3>3 DEF HandlerReplies, SetSocket, SocketType
      <3> QED BY <1>1, <3>1, <3>4 DEF EndsMeet
    <2>2. CASE HandlerReject(k) \/ HandlerGoGo(k) \/ HandlerOut(k)
      <3>1. h'[k].pc \notin AtWork
        BY <2>2, HandlerPcAfter DEF AtWork, Admitted, Filling
      <3>2. /\ sock'[k].cOpen = w.cOpen /\ sock'[k].sOpen = FALSE
        <4>1. CASE HandlerReject(k)
          BY <1>1, <4>1 DEF HandlerReject, HandlerRepliesAndCloses, SetSocket,
                            SocketType
        <4>2. CASE HandlerGoGo(k)
          BY <1>1, <4>2 DEF HandlerGoGo, HandlerRepliesAndCloses, SetSocket,
                            SocketType
        <4>3. CASE HandlerOut(k)
          BY <1>1, <4>3 DEF HandlerOut, HandlerCloses, SetSocket, SocketType
        <4> QED BY <2>2, <4>1, <4>2, <4>3
      <3> QED BY <1>1, <3>1, <3>2 DEF EndsMeet
    <2>3. CASE \/ Accept(k) \/ HandlerPush(k) \/ HandlerActivate(k)
               \/ HandlerFirstBatch(k) \/ HandlerPublish(k)
      <3>1. sock' = sock /\ y.pc \in AtWork
        BY <2>3 DEF Accept, HandlerPush, HandlerActivate, HandlerFirstBatch,
                    HandlerPublish, AtWork, Admitted, Filling
      <3>2. h'[k].pc \in AtWork
        BY <2>3, HandlerPcAfter DEF AtWork, Admitted, Filling
      <3> QED BY <1>1, <3>1, <3>2 DEF EndsMeet
    <2> QED BY <2>1, <2>2, <2>3 DEF HandlerStep
  <1> QED BY <1>2, <1>3 DEF Ends

LEMMA EndsServerExit ==
  ASSUME TypeOK, Ends, NEW s \in Servers, ServerExit(s)
  PROVE  Ends'
  <1>1. /\ cl' = cl
        /\ \A k \in Conn :
             /\ h'[k] = IF k[2] = s /\ h[k].pc # "none"
                        THEN [h[k] EXCEPT !.pc = "failed"] ELSE h[k]
             /\ sock'[k] = IF k[2] = s THEN [sock[k] EXCEPT !.sOpen = FALSE]
                                       ELSE sock[k]
    BY DEF ServerExit, clientVars
  <1> SUFFICES ASSUME NEW k \in Conn
               PROVE  EndsMeet(k, cl[k[1]], h'[k], sock'[k])
    BY <1>1 DEF Ends
  <1>2. /\ EndsMeet(k, cl[k[1]], h[k], sock[k])
        /\ h[k] \in HandlerType /\ sock[k] \in SocketType
    BY HandlerConn DEF Ends
  <1>3. CASE k[2] # s
    BY <1>1, <1>2, <1>3
  <1>4. CASE k[2] = s
    <2>1. h'[k].pc \in {"none", "failed"}
      BY <1>1, <1>2, <1>4 DEF HandlerType
    <2>2. h'[k].pc \notin AtWork
      BY <2>1 DEF AtWork, Admitted, Filling
    <2>3. sock'[k].cOpen = sock[k].cOpen /\ sock'[k].sOpen = FALSE
      BY <1>1, <1>2, <1>4 DEF SocketType
    <2> QED BY <1>2, <2>2, <2>3 DEF EndsMeet
  <1> QED BY <1>3, <1>4

(* No client and handler wait for each other, whatever connections break   *)
(* and processes end: a blocked read() ends with a message or a closed     *)
(* connection, or it is the other side's turn, and the other side is there.*)
THEOREM NoStandoff == Spec => []NobodyWaitsInVain
  <1>1. Init => Ends
    <2> SUFFICES ASSUME Init, NEW k \in Conn
                 PROVE  EndsMeet(k, cl[k[1]], h[k], sock[k])
      BY DEF Ends
    <2>1. /\ cl[k[1]].pc = "tcp" /\ h[k].pc = "none"
          /\ sock[k].cOpen = FALSE /\ sock[k].sOpen = FALSE
      BY Sizes DEF Init, NewConnect, NewHandler, NewSocket
    <2> QED BY <2>1 DEF EndsMeet, Talking, Reading, Expected, AtWork, Admitted,
                        Filling
  <1>2. TypeOK /\ Wire /\ Ends /\ [Next]_vars => Ends'
    <2> SUFFICES ASSUME TypeOK, Wire, Ends, [Next]_vars PROVE Ends'
      OBVIOUS
    <2>1. CASE \E c \in Clients : ClientStep(c) \/ ClientKilled(c)
      BY <2>1, EndsHello, EndsReply, EndsReturn, EndsKilled DEF ClientStep
    <2>2. CASE \E s \in Servers : StartListen(s)
      BY <2>2 DEF StartListen, clientVars, Ends
    <2>3. CASE \E s \in Servers : ServerExit(s)
      BY <2>3, EndsServerExit
    <2>4. CASE \E k \in Conn : Accept(k) \/ HandlerStep(k)
      BY <2>4, EndsHandler
    <2>5. CASE UNCHANGED vars
      BY <2>5 DEF vars, Ends
    <2> QED BY <2>1, <2>2, <2>3, <2>4, <2>5 DEF Next
  <1>3. TypeOK /\ Ends => NobodyWaitsInVain
    <2> SUFFICES ASSUME TypeOK, Ends PROVE NobodyWaitsInVain
      OBVIOUS
    <2>1. ASSUME NEW c \in Clients, cl[c].pc \in Reading,
                 sock[At(c)].toC = << >>, sock[At(c)].sOpen
          PROVE  sock[At(c)].toS # << >> /\ h[At(c)].pc \in AtWork
      <3>1. /\ At(c) \in Conn /\ At(c)[1] = c /\ At(c)[2] = cl[c].connid
        BY AtConn DEF At
      <3>2. EndsMeet(At(c), cl[c], h[At(c)], sock[At(c)])
        BY <3>1 DEF Ends
      <3>3. Talking(At(c), cl[c])
        BY <2>1, <3>1 DEF Talking
      <3> QED BY <2>1, <3>2, <3>3 DEF EndsMeet
    <2>2. ASSUME NEW k \in Conn, h[k].pc \in Reading,
                 sock[k].toS = << >>, sock[k].cOpen
          PROVE  Talking(k, cl[k[1]]) /\ sock[k].toC # << >>
      <3>1. h[k].pc \in AtWork
        BY <2>2 DEF Reading, Expected, AtWork, Admitted, Filling
      <3> QED BY <2>2, <3>1 DEF Ends, EndsMeet
    <2> QED BY <2>1, <2>2 DEF NobodyWaitsInVain
  <1> QED BY <1>1, <1>2, <1>3, TypeCorrect, Conversing, PTL DEF Spec

=============================================================================
