----------------------------- MODULE PairingProofs -----------------------------
(***************************************************************************)
(* Proofs about what the conversation of Handshake leaves behind: the      *)
(* endpoints of the two sides that are linked, the pools they name, and    *)
(* that all this implements QpPairing.  Based on LockstepProofs.           *)
(***************************************************************************)
EXTENDS LockstepProofs

-----------------------------------------------------------------------------
(* The endpoints of a server. *)

Block(y) == y.left .. (y.left + y.qps - 1)

(* Endpoint i of the block of a handler is linked to the client's endpoint *)
(* of the same place, with its whole receive queue posted.                 *)
LinkedBack(k, y, i, e) ==
  /\ e.peer = k[1]
  /\ e.qpn = Base(k) + (i - y.left)
  /\ e.credits = 0

(* The handler with the locals y of connection k, whose server has the     *)
(* endpoints row and the given pools, has published what is below idx and  *)
(* prepared what is at idx.                                                *)
OnBlock(k, y, row, pools) ==
  /\ y.pc \in Filling \cup {"gogo", "done"} =>
       /\ \A i \in Block(y) : i < y.idx => row[i].activated
       /\ Registered(pools, y.mem, k[1])
  /\ y.pc \in {"activate", "first", "publish"} =>
       row[y.idx].qpn = Base(k) + (y.idx - y.left)
  /\ y.pc \in {"first", "publish"} => row[y.idx].peer = k[1]
  /\ y.pc = "publish" => row[y.idx].credits = 0
  /\ \A i \in Block(y) : row[i].activated => LinkedBack(k, y, i, row[i])

Blocks == \A k \in Conn : OnBlock(k, h[k], sEp[k[2]], sPools[k[2]])

(* The pool of a published endpoint is one of its peer. *)
ServerPools ==
  \A s \in Servers : \A i \in Slot :
    sEp[s][i].activated => Registered(sPools[s], sEp[s][i].mem, sEp[s][i].peer)

(* A published pool stays where it is. *)
LEMMA RegisteredLonger ==
  ASSUME NEW pools \in Seq(Buffers), NEW b \in Buffers, NEW id \in Int, NEW p,
         Registered(pools, id, p)
  PROVE  Registered(Append(pools, b), id, p)
  <1>1. id + 1 \in 1 .. Len(pools) /\ Len(pools) \in Nat
    BY DEF Registered
  <1>2. /\ id + 1 \in DOMAIN Append(pools, b)
        /\ Append(pools, b)[id + 1] = pools[id + 1]
    BY <1>1
  <1> QED BY <1>2 DEF Registered

LEMMA RegisteredLast ==
  ASSUME NEW pools \in Seq(Buffers), NEW p, Filled(BufNum, p) \in Buffers
  PROVE  Registered(Append(pools, Filled(BufNum, p)), Len(pools), p)
  <1> DEFINE b == Filled(BufNum, p)
  <1> HIDE DEF b
  <1>1. b \in Buffers
    BY DEF b
  <1>2. /\ Len(pools) + 1 \in DOMAIN Append(pools, b)
        /\ Append(pools, b)[Len(pools) + 1] = b
    BY <1>1
  <1> QED BY <1>2 DEF Registered, b, Filled

(* OnBlock speaks of the block and of the pool of the handler only. *)
LEMMA OnBlockFrame ==
  ASSUME NEW k, NEW y, NEW row, NEW next, NEW pools, NEW more,
         HandlerSane(k, y), y \in HandlerType, OnBlock(k, y, row, pools),
         \A i \in Block(y) : next[i] = row[i],
         \A id \in Int : Registered(pools, id, k[1]) => Registered(more, id, k[1])
  PROVE  OnBlock(k, y, next, more)
  <1>1. y.left \in Nat /\ y.idx \in Nat /\ y.qps \in Nat /\ y.mem \in Int
    BY DEF HandlerType
  <1>2. y.pc \in Filling => y.idx \in Block(y)
    BY <1>1 DEF HandlerSane, Block
  <1>3. y.pc \in {"activate", "first", "publish"} => next[y.idx] = row[y.idx]
    BY <1>2 DEF Filling
  <1> QED BY <1>1, <1>3 DEF OnBlock

(* A handler that ends, or has not been admitted, keeps what it published. *)
LEMMA OnBlockIdle ==
  ASSUME NEW k, NEW y, NEW u, NEW row, NEW pools, OnBlock(k, y, row, pools),
         u.pc \in {"backlog", "host", "mem", "push", "failed"},
         u.left = y.left, u.qps = y.qps
  PROVE  OnBlock(k, u, row, pools)
  BY DEF OnBlock, Block, LinkedBack, Filling

(* A step that changes one endpoint of one block only. *)
LEMMA BlocksLocal ==
  ASSUME TypeOK, SlotsExclusive, Wire, Blocks, NEW k \in Conn,
         \A l \in Conn \ {k} : h'[l] = h[l], sPools' = sPools,
         h[k].idx \in Reserved(k),
         \A s \in Servers, i \in Slot :
           s # k[2] \/ i # h[k].idx => sEp'[s][i] = sEp[s][i],
         OnBlock(k, h'[k], sEp'[k[2]], sPools[k[2]])
  PROVE  Blocks'
  <1>1. ASSUME NEW l \in Conn, l # k
        PROVE  OnBlock(l, h[l], sEp'[l[2]], sPools[l[2]])
    <2>1. /\ HandlerSane(l, h[l]) /\ h[l] \in HandlerType
          /\ OnBlock(l, h[l], sEp[l[2]], sPools[l[2]])
      BY HandlerConn DEF Wire, Blocks
    <2>2. ASSUME NEW i \in Block(h[l])
          PROVE  sEp'[l[2]][i] = sEp[l[2]][i]
      <3>1. i \in Reserved(l) /\ i \in Slot /\ l[2] \in Servers
        BY BlockSlots DEF Block, Reserved
      <3>2. l[2] # k[2] \/ i # h[k].idx
        BY <3>1, <1>1 DEF SlotsExclusive
      <3> QED BY <3>1, <3>2
    <2> QED BY <2>1, <2>2, OnBlockFrame
  <1> QED BY <1>1 DEF Blocks

(* An update of the endpoint a handler is at. *)
LEMMA SlotUpdate ==
  ASSUME TypeOK, SlotsExclusive, NEW k \in Conn, h[k].idx \in Reserved(k),
         NEW r, SetServerEp(k[2], h[k].idx, r)
  PROVE  /\ sEp'[k[2]][h[k].idx] = r
         /\ \A s \in Servers, i \in Slot :
              s # k[2] \/ i # h[k].idx => sEp'[s][i] = sEp[s][i]
         /\ \A i \in Reserved(k) :
              i # h[k].idx => sEp'[k[2]][i] = sEp[k[2]][i]
  <1>1. /\ k[2] \in Servers /\ h[k].idx \in Slot
        /\ sEp \in [Servers -> [Slot -> ServerEpType]]
        /\ \A i \in Reserved(k) : i \in Slot
    BY HandlerConn, BlockSlots DEF TypeOK
  <1> QED BY <1>1 DEF SetServerEp

(* What a handler with endpoints to fill knows of the one it is at. *)
LEMMA FillingFacts ==
  ASSUME TypeOK, SlotsExclusive, Ownership, Wire, NEW k \in Conn,
         h[k].pc \in Filling
  PROVE  /\ h[k].idx \in Reserved(k) /\ h[k].idx \in Slot
         /\ Current(k) \in ServerEpType
         /\ ~ Current(k).activated
         /\ h[k].gid = k[1] /\ h[k].qps = Qps[k[1]]
         /\ k[2] \in Servers
  <1>1. h[k].idx \in Reserved(k) /\ ~ Current(k).activated
    BY DEF Ownership, Owned, Filling, Reserved, Current
  <1>2. h[k].idx \in Slot /\ k[2] \in Servers
    BY <1>1, BlockSlots
  <1>3. Current(k) \in ServerEpType
    BY <1>2 DEF TypeOK, Current
  <1> QED BY <1>1, <1>2, <1>3, HandlerFacts DEF HandlerSane, Admitted

(* The pools stay, one endpoint that was not published changes. *)
LEMMA PoolsLocal ==
  ASSUME TypeOK, ServerPools, sPools' = sPools, NEW s \in Servers,
         NEW j \in Slot,
         \A t \in Servers, i \in Slot :
           t # s \/ i # j => sEp'[t][i] = sEp[t][i],
         sEp'[s][j].activated =>
           Registered(sPools[s], sEp'[s][j].mem, sEp'[s][j].peer)
  PROVE  ServerPools'
  BY DEF ServerPools

(* A step that prepares the endpoint a handler is at. *)
LEMMA BlocksWork ==
  ASSUME TypeOK, SlotsExclusive, Ownership, Wire, Blocks, ServerPools,
         NEW k \in Conn, h[k].pc \in Filling,
         \A l \in Conn \ {k} : h'[l] = h[l], sPools' = sPools,
         h'[k].pc \in {"activate", "first", "publish"},
         h'[k].left = h[k].left, h'[k].qps = h[k].qps,
         h'[k].idx = h[k].idx, h'[k].mem = h[k].mem,
         NEW r, SetCurrent(k, r), ~ r.activated,
         r.qpn = Base(k) + (h[k].idx - h[k].left),
         h'[k].pc \in {"first", "publish"} => r.peer = k[1],
         h'[k].pc = "publish" => r.credits = 0
  PROVE  Blocks' /\ ServerPools'
  <1> DEFINE y == h[k]
             u == h'[k]
             row == sEp[k[2]]
             next == sEp'[k[2]]
  <1>1. /\ y.idx \in Reserved(k) /\ y.idx \in Slot /\ k[2] \in Servers
        /\ OnBlock(k, y, row, sPools[k[2]])
    BY FillingFacts DEF Blocks
  <1>2. /\ next[y.idx] = r
        /\ \A s \in Servers, i \in Slot :
             s # k[2] \/ i # h[k].idx => sEp'[s][i] = sEp[s][i]
        /\ \A i \in Reserved(k) : i # y.idx => next[i] = row[i]
    BY <1>1, SlotUpdate DEF SetCurrent
  <1>3. /\ Block(u) = Block(y) /\ Block(y) = Reserved(k)
        /\ y.idx \in Int /\ \A i \in Reserved(k) : i \in Int
    BY <1>1 DEF Block, Reserved, Slot
  <1>4. OnBlock(k, u, next, sPools[k[2]])
    <2>1. \A i \in Block(u) : i < u.idx => next[i].activated
      BY <1>1, <1>2, <1>3 DEF OnBlock
    <2>2. Registered(sPools[k[2]], u.mem, k[1])
      BY <1>1 DEF OnBlock
    <2>3. \A i \in Block(u) : next[i].activated => LinkedBack(k, u, i, next[i])
      BY <1>1, <1>2, <1>3 DEF OnBlock, LinkedBack
    <2> QED BY <1>2, <2>1, <2>2, <2>3 DEF OnBlock
  <1>5. Blocks'
    BY <1>1, <1>2, <1>4, BlocksLocal
  <1>6. ServerPools'
    BY <1>1, <1>2, PoolsLocal
  <1> QED BY <1>5, <1>6

LEMMA BlocksChan ==
  ASSUME TypeOK, SlotsExclusive, Ownership, Wire, Blocks, ServerPools,
         NEW k \in Conn, HandlerChan(k)
  PROVE  Blocks' /\ ServerPools'
  <1> DEFINE q == Base(k) + (h[k].idx - h[k].left)
             r == [Current(k) EXCEPT !.qpn = q]
  <1>1. /\ h[k].pc = "chan" /\ h[k].pc \in Filling /\ h[k].pc \in Reading
        /\ sock[k].toS # << >>
    BY DEF HandlerChan, HandlerReads, Filling, Reading, Expected
  <1>2. Head(sock[k].toS).qpn = q
    <2>1. Head(sock[k].toS) = ChanMsg(q)
      BY <1>1, HandlerHears
    <2> QED BY <2>1 DEF ChanMsg
  <1>3. SetCurrent(k, r) /\ sPools' = sPools
    BY <1>2 DEF HandlerChan
  <1>4. r.qpn = q /\ ~ r.activated
    BY <1>1, FillingFacts DEF ServerEpType
  <1>5. /\ h'[k].pc = "activate" /\ h'[k].left = h[k].left
        /\ h'[k].qps = h[k].qps /\ h'[k].idx = h[k].idx
        /\ h'[k].mem = h[k].mem /\ \A l \in Conn \ {k} : h'[l] = h[l]
    BY HandlerFacts DEF HandlerChan, SetHandler, HandlerType
  <1> HIDE DEF r, q
  <1> QED BY <1>1, <1>3, <1>4, <1>5, BlocksWork DEF q

LEMMA BlocksActivate ==
  ASSUME TypeOK, SlotsExclusive, Ownership, Wire, Blocks, ServerPools,
         NEW k \in Conn, HandlerActivate(k)
  PROVE  Blocks' /\ ServerPools'
  <1> DEFINE r == [Current(k) EXCEPT !.peer = k[1]]
  <1>1. h[k].pc = "activate" /\ h[k].pc \in Filling
    BY DEF HandlerActivate, Filling
  <1>2. SetCurrent(k, r) /\ sPools' = sPools
    BY <1>1, FillingFacts DEF HandlerActivate
  <1>3. /\ r.peer = k[1] /\ ~ r.activated
        /\ r.qpn = Base(k) + (h[k].idx - h[k].left)
    BY <1>1, FillingFacts DEF ServerEpType, Blocks, OnBlock, Current
  <1>4. /\ h'[k].pc = "first" /\ h'[k].left = h[k].left
        /\ h'[k].qps = h[k].qps /\ h'[k].idx = h[k].idx
        /\ h'[k].mem = h[k].mem /\ \A l \in Conn \ {k} : h'[l] = h[l]
    BY HandlerFacts DEF HandlerActivate, SetHandler, HandlerType
  <1> HIDE DEF r
  <1> QED BY <1>1, <1>2, <1>3, <1>4, BlocksWork

LEMMA BlocksFirstBatch ==
  ASSUME TypeOK, SlotsExclusive, Ownership, Wire, Blocks, ServerPools,
         NEW k \in Conn, HandlerFirstBatch(k)
  PROVE  Blocks' /\ ServerPools'
  <1> DEFINE n == AtMost(h[k].first, RecvBatch)
             left == Current(k).credits - n
             r == [Current(k) EXCEPT !.credits = left]
             p == IF left > 0 THEN "first" ELSE "publish"
  <1>1. h[k].pc = "first" /\ h[k].pc \in Filling
    BY DEF HandlerFirstBatch, Filling
  <1>2. SetCurrent(k, r) /\ sPools' = sPools /\ left >= 0
    BY DEF HandlerFirstBatch
  <1>3. left \in Int
    <2>1. n \in Int
      BY HandlerFacts, HandshakeAssumption DEF HandlerType, AtMost
    <2> QED BY <1>1, <2>1, FillingFacts DEF ServerEpType
  <1>4. /\ h'[k].pc = p /\ h'[k].left = h[k].left
        /\ h'[k].qps = h[k].qps /\ h'[k].idx = h[k].idx
        /\ h'[k].mem = h[k].mem /\ \A l \in Conn \ {k} : h'[l] = h[l]
    BY HandlerFacts DEF HandlerFirstBatch, SetHandler, HandlerType
  <1> HIDE DEF left
  <1>5. /\ r.peer = k[1] /\ ~ r.activated /\ r.credits = left
        /\ r.qpn = Base(k) + (h[k].idx - h[k].left)
    BY <1>1, FillingFacts DEF ServerEpType, Blocks, OnBlock, Current
  <1>6. p = "publish" => left = 0
    BY <1>2, <1>3
  <1> HIDE DEF r
  <1> QED BY <1>1, <1>2, <1>4, <1>5, <1>6, BlocksWork

LEMMA BlocksPublish ==
  ASSUME TypeOK, SlotsExclusive, Ownership, Wire, Blocks, ServerPools,
         NEW k \in Conn, HandlerPublish(k)
  PROVE  Blocks' /\ ServerPools'
  <1> DEFINE y == h[k]
             u == h'[k]
             row == sEp[k[2]]
             next == sEp'[k[2]]
             r == [Current(k) EXCEPT !.activated = TRUE, !.mem = y.mem]
             p == IF y.idx + 1 < y.left + y.qps THEN "chan" ELSE "gogo"
  <1>1. /\ y.pc = "publish" /\ y.pc \in Filling /\ y.idx \in Nat
        /\ SetServerEp(k[2], y.idx, r) /\ sPools' = sPools
    BY HandlerFacts DEF HandlerPublish, Filling, SetCurrent
  <1>2. /\ y.idx \in Reserved(k) /\ y.idx \in Slot /\ k[2] \in Servers
        /\ OnBlock(k, y, row, sPools[k[2]])
    BY <1>1, FillingFacts DEF Blocks
  <1>3. /\ u.pc = p /\ u.left = y.left /\ u.qps = y.qps /\ u.idx = y.idx + 1
        /\ u.mem = y.mem /\ \A l \in Conn \ {k} : h'[l] = h[l]
    BY HandlerFacts DEF HandlerPublish, SetHandler, HandlerType
  <1>4. /\ r.activated /\ r.mem = y.mem /\ r.peer = k[1] /\ r.credits = 0
        /\ r.qpn = Base(k) + (y.idx - y.left)
        /\ Registered(sPools[k[2]], y.mem, k[1])
    <2>1. /\ Current(k).peer = k[1] /\ Current(k).credits = 0
          /\ Current(k).qpn = Base(k) + (y.idx - y.left)
          /\ Registered(sPools[k[2]], y.mem, k[1])
      BY <1>1, <1>2 DEF OnBlock, Current
    <2> QED BY <1>1, <2>1, FillingFacts DEF ServerEpType
  <1> HIDE DEF r
  <1>5. /\ next[y.idx] = r
        /\ \A s \in Servers, i \in Slot :
             s # k[2] \/ i # h[k].idx => sEp'[s][i] = sEp[s][i]
        /\ \A i \in Reserved(k) : i # y.idx => next[i] = row[i]
    BY <1>1, <1>2, SlotUpdate
  <1>6. /\ Block(u) = Block(y) /\ Block(y) = Reserved(k)
        /\ \A i \in Reserved(k) : i \in Int
    BY <1>2, <1>3 DEF Block, Reserved, Slot
  <1>7. OnBlock(k, u, next, sPools[k[2]])
    <2>1. \A i \in Block(u) : i < u.idx => next[i].activated
      <3>1. \A i \in Int : i < y.idx + 1 => i < y.idx \/ i = y.idx
        BY <1>1
      <3> QED BY <1>1, <1>2, <1>3, <1>4, <1>5, <1>6, <3>1 DEF OnBlock
    <2>2. Registered(sPools[k[2]], u.mem, k[1])
      BY <1>3, <1>4
    <2>3. \A i \in Block(u) : next[i].activated => LinkedBack(k, u, i, next[i])
      BY <1>2, <1>3, <1>4, <1>5, <1>6 DEF OnBlock, LinkedBack
    <2>4. u.pc \notin {"activate", "first", "publish"}
      BY <1>3
    <2> QED BY <2>1, <2>2, <2>3, <2>4 DEF OnBlock
  <1>8. Blocks'
    BY <1>1, <1>2, <1>3, <1>5, <1>7, BlocksLocal
  <1>9. ServerPools'
    BY <1>1, <1>2, <1>4, <1>5, PoolsLocal
  <1> QED BY <1>8, <1>9

LEMMA BlocksPush ==
  ASSUME TypeOK, SlotsExclusive, Ownership, Wire, Blocks, ServerPools,
         NEW k \in Conn, HandlerPush(k)
  PROVE  Blocks' /\ ServerPools'
  <1> DEFINE y == h[k]
             u == h'[k]
             pools == sPools[k[2]]
             more == Append(pools, Filled(BufNum, k[1]))
  <1>1. /\ y.pc = "push" /\ y.bufs = Filled(BufNum, k[1]) /\ k[2] \in Servers
        /\ y \in HandlerType /\ y.left \in Nat /\ y.qps \in Nat
        /\ pools \in Seq(Buffers) /\ Filled(BufNum, k[1]) \in Buffers
    <2>1. y.pc = "push" /\ y.bufs = Filled(BufNum, k[1])
      BY HandlerFacts DEF HandlerPush, HandlerSane
    <2> QED BY <2>1, HandlerFacts DEF HandlerType, TypeOK
  <1>2. /\ u.pc = "chan" /\ u.idx = y.left /\ u.left = y.left
        /\ u.qps = y.qps /\ u.mem = Len(pools)
        /\ \A l \in Conn \ {k} : h'[l] = h[l]
    BY HandlerFacts DEF HandlerPush, SetHandler, HandlerType
  <1>3. /\ sEp' = sEp /\ sPools'[k[2]] = more
        /\ \A s \in Servers \ {k[2]} : sPools'[s] = sPools[s]
    BY <1>1 DEF HandlerPush, TypeOK
  <1>4. /\ Registered(more, u.mem, k[1])
        /\ \A p : \A id \in Int :
             Registered(pools, id, p) => Registered(more, id, p)
    BY <1>1, <1>2, RegisteredLast, RegisteredLonger
  <1> HIDE DEF more, pools
  <1>5. \A p : \A s \in Servers : \A id \in Int :
          Registered(sPools[s], id, p) => Registered(sPools'[s], id, p)
    BY <1>3, <1>4 DEF pools
  <1>6. ASSUME NEW l \in Conn, l # k
        PROVE  OnBlock(l, h'[l], sEp'[l[2]], sPools'[l[2]])
    <2>1. /\ HandlerSane(l, h[l]) /\ h[l] \in HandlerType /\ l[2] \in Servers
          /\ OnBlock(l, h[l], sEp[l[2]], sPools[l[2]])
      BY HandlerFacts DEF Blocks
    <2> QED BY <1>2, <1>3, <1>5, <1>6, <2>1, OnBlockFrame
  <1>7. OnBlock(k, u, sEp'[k[2]], sPools'[k[2]])
    <2>1. \A i \in Block(u) : ~ sEp[k[2]][i].activated /\ ~ (i < u.idx)
      BY <1>1, <1>2 DEF Ownership, Owned, Fresh, Block
    <2> QED BY <1>2, <1>3, <1>4, <2>1 DEF OnBlock
  <1>8. ServerPools'
    <2>1. \A s \in Servers : \A i \in Slot : sEp[s][i].mem \in Int
      BY DEF TypeOK, ServerEpType
    <2> QED BY <1>3, <1>5, <2>1 DEF ServerPools
  <1> QED BY <1>6, <1>7, <1>8 DEF Blocks

(* The endpoints of a block that has just been reserved are fresh. *)
LEMMA BlocksAdmission ==
  ASSUME TypeOK, Ownership', Blocks, ServerPools, NEW k \in Conn,
         HandlerHost(k)
  PROVE  Blocks' /\ ServerPools'
  <1>1. /\ sEp' = sEp /\ sPools' = sPools
        /\ h'[k].pc \in {"mem", "push"}
        /\ \A l \in Conn \ {k} : h'[l] = h[l]
    BY DEF HandlerHost, SetHandler, TypeOK, HandlerType
  <1>2. \A i \in Block(h'[k]) : ~ sEp'[k[2]][i].activated
    BY <1>1 DEF Ownership, Owned, Fresh, Block
  <1>3. OnBlock(k, h'[k], sEp'[k[2]], sPools'[k[2]])
    BY <1>1, <1>2 DEF OnBlock, Filling
  <1> QED BY <1>1, <1>3 DEF Blocks, ServerPools

(* Steps that touch neither endpoints nor pools of a server. *)
LEMMA BlocksQuiet ==
  ASSUME Blocks, ServerPools, sEp' = sEp, sPools' = sPools,
         \A k \in Conn :
           \/ h'[k] = h[k]
           \/ /\ h'[k].left = h[k].left /\ h'[k].qps = h[k].qps
              /\ \/ h'[k].pc \in {"backlog", "host", "mem", "push", "failed"}
                 \/ /\ h[k].pc = "gogo" /\ h'[k].pc = "done"
                    /\ h'[k].idx = h[k].idx /\ h'[k].mem = h[k].mem
  PROVE  Blocks' /\ ServerPools'
  <1>1. ASSUME NEW k \in Conn
        PROVE  OnBlock(k, h'[k], sEp'[k[2]], sPools'[k[2]])
    <2>1. OnBlock(k, h[k], sEp[k[2]], sPools[k[2]])
      BY DEF Blocks
    <2>2. CASE /\ h'[k].left = h[k].left /\ h'[k].qps = h[k].qps
               /\ h[k].pc = "gogo" /\ h'[k].pc = "done"
               /\ h'[k].idx = h[k].idx /\ h'[k].mem = h[k].mem
      BY <2>1, <2>2 DEF OnBlock, Block, LinkedBack, Filling
    <2> QED BY <2>1, <2>2, OnBlockIdle
  <1> QED BY <1>1 DEF Blocks, ServerPools

LEMMA BlocksStep ==
  ASSUME TypeOK, SlotsExclusive, Ownership, Ownership', Wire, Blocks,
         ServerPools, [Next]_vars
  PROVE  Blocks' /\ ServerPools'
  <1>1. CASE \E k \in Conn : HandlerHost(k)
    BY <1>1, BlocksAdmission
  <1>2. CASE \E k \in Conn :
               HandlerPush(k) \/ HandlerChan(k) \/ HandlerActivate(k)
                 \/ HandlerFirstBatch(k) \/ HandlerPublish(k)
    BY <1>2, BlocksPush, BlocksChan, BlocksActivate, BlocksFirstBatch,
       BlocksPublish
  <1>3. CASE ~ \E k \in Conn :
               HandlerHost(k) \/ HandlerPush(k) \/ HandlerChan(k)
                 \/ HandlerActivate(k) \/ HandlerFirstBatch(k)
                 \/ HandlerPublish(k)
    <2>1. \A k \in Conn : h'[k].left = h[k].left /\ h'[k].qps = h[k].qps
      BY <1>3, StepUnreserving DEF Unreserving
    <2>2. /\ sEp' = sEp /\ sPools' = sPools
          /\ \A k \in Conn :
               \/ h'[k] = h[k]
               \/ h'[k].pc \in {"backlog", "host", "mem", "push", "failed"}
               \/ /\ h[k].pc = "gogo" /\ h'[k].pc = "done"
                  /\ h'[k].idx = h[k].idx /\ h'[k].mem = h[k].mem
      <3>h. DOMAIN h = Conn /\ \A k \in Conn : h[k] \in HandlerType
        BY DEF TypeOK
      <3>1. CASE \E c \in Clients : ClientStep(c) \/ ClientKilled(c)
        <4> PICK c \in Clients : ClientStep(c) \/ ClientKilled(c)
          BY <3>1
        <4>1. CASE ClientHello(c)
          BY <4>1, <3>h, AtConn DEF ClientHello, SetHandler, HandlerType
        <4>2. CASE ~ ClientHello(c)
          BY <4>2 DEF ClientStep, ClientRetry, ClientHost, ClientMem,
             ClientPool, ClientChan, ClientGoGo, ClientActivateFails,
             ClientOut, ClientKilled, serverVars
        <4> QED BY <4>1, <4>2
      <3>2. CASE \E s \in Servers : StartListen(s) \/ ServerExit(s)
        BY <3>2, <3>h DEF StartListen, ServerExit, HandlerType
      <3>3. ASSUME NEW k \in Conn,
                   Accept(k) \/ HandlerReject(k) \/ HandlerMem(k)
                     \/ HandlerGoGo(k) \/ HandlerOut(k)
            PROVE  /\ sEp' = sEp /\ sPools' = sPools
                   /\ \A l \in Conn \ {k} : h'[l] = h[l]
                   /\ \/ h'[k].pc \in {"host", "mem", "push", "failed"}
                      \/ /\ h[k].pc = "gogo" /\ h'[k].pc = "done"
                         /\ h'[k].idx = h[k].idx /\ h'[k].mem = h[k].mem
        <4>1. CASE Accept(k) \/ HandlerReject(k) \/ HandlerOut(k)
          BY <4>1, <3>h
             DEF Accept, HandlerReject, HandlerOut, SetHandler, HandlerType
        <4>2. CASE HandlerMem(k)
          BY <4>2, <3>h DEF HandlerMem, SetHandler, HandlerType
        <4>3. CASE HandlerGoGo(k)
          BY <4>3, <3>h DEF HandlerGoGo, SetHandler, HandlerType
        <4> QED BY <3>3, <4>1, <4>2, <4>3
      <3>4. CASE UNCHANGED vars
        BY <3>4 DEF vars
      <3>5. CASE \E k \in Conn : Accept(k) \/ HandlerStep(k)
        <4> PICK k \in Conn : Accept(k) \/ HandlerStep(k)
          BY <3>5
        <4>1. Accept(k) \/ HandlerReject(k) \/ HandlerMem(k)
                \/ HandlerGoGo(k) \/ HandlerOut(k)
          BY <1>3 DEF HandlerStep
        <4> QED BY <4>1, <3>3
      <3> QED BY <3>1, <3>2, <3>4, <3>5 DEF Next
    <2> QED BY <2>1, <2>2, BlocksQuiet
  <1> QED BY <1>1, <1>2, <1>3

(* In every run, what a server has published is linked back to the client  *)
(* it was reserved for, place by place, and names a pool of that client.   *)
THEOREM Publishing == Spec => [](Blocks /\ ServerPools)
  <1>1. Init => Blocks /\ ServerPools
    <2> SUFFICES ASSUME Init PROVE Blocks /\ ServerPools
      OBVIOUS
    <2>1. /\ \A k \in Conn : h[k] = NewHandler /\ k[2] \in Servers
          /\ \A s \in Servers : sEp[s] = [i \in Slot |-> NewServerEp]
      BY Sizes DEF Init
    <2>2. /\ NewHandler.pc = "none" /\ NewHandler.left = 0
          /\ NewHandler.qps = 0 /\ NewServerEp.activated = FALSE
      BY DEF NewHandler, NewServerEp
    <2>3. Block(NewHandler) = {}
      BY <2>2 DEF Block
    <2>4. Blocks
      BY <2>1, <2>2, <2>3 DEF Blocks, OnBlock, Filling
    <2> QED BY <2>1, <2>2, <2>4 DEF ServerPools
  <1>2. TypeOK /\ SlotsExclusive /\ Ownership /\ Ownership' /\ Wire
          /\ (Blocks /\ ServerPools) /\ [Next]_vars
          => (Blocks /\ ServerPools)'
    BY BlocksStep
  <1> QED BY <1>1, <1>2, TypeCorrect, Exclusive, Owning, Conversing, PTL
          DEF Spec

-----------------------------------------------------------------------------
(* The endpoints of a client. *)

(* A reserved block is never moved. *)
LEMMA BlockStays ==
  ASSUME TypeOK, Wire, [Next]_vars, NEW k \in Conn, h[k].qps > 0
  PROVE  h'[k].left = h[k].left /\ h'[k].qps = h[k].qps
  <1>1. ASSUME NEW l \in Conn, HandlerHost(l)
        PROVE  h'[k] = h[k]
    <2>1. h[l].pc = "host" /\ DOMAIN h = Conn
      BY <1>1, HandlerFacts DEF HandlerHost
    <2>2. h[l].qps = 0
      BY <2>1, HandlerFacts DEF HandlerSane
    <2> QED BY <1>1, <2>1, <2>2 DEF HandlerHost, SetHandler
  <1>2. CASE \A l \in Conn : ~ HandlerHost(l)
    BY <1>2, StepUnreserving DEF Unreserving
  <1> QED BY <1>1, <1>2

(* The GoGo a client has not read yet was sent when the last endpoint of   *)
(* its block was published.                                                *)
Confirmed ==
  \A k \in Conn :
    Talking(k, cl[k[1]]) /\ cl[k[1]].pc = "gogo" /\ sock[k].toC # << >>
      => \A i \in Block(h[k]) : sEp[k[2]][i].activated

(* Only the answer to GoGo reaches a client that waits for GoGo. *)
LEMMA GoGoAnswered ==
  ASSUME TypeOK, Wire, [Next]_vars, NEW k \in Conn,
         Talking(k, cl'[k[1]]), cl'[k[1]].pc = "gogo", sock'[k].toC # << >>,
         ~ HandlerGoGo(k)
  PROVE  /\ Talking(k, cl[k[1]]) /\ cl[k[1]].pc = "gogo"
         /\ sock[k].toC # << >>
  <1> DEFINE c == k[1]
  <1>0. /\ c \in Clients /\ k = <<c, k[2]>> /\ DOMAIN sock = Conn
        /\ DOMAIN cl = Clients /\ DOMAIN h = Conn
        /\ \A l \in Conn : sock[l] \in SocketType
        /\ \A d \in Clients : cl[d] \in ClientType
    BY Sizes DEF TypeOK
  <1>1. ASSUME NEW d \in Clients, d # c, ClientStep(d) \/ ClientKilled(d)
        PROVE  cl'[c] = cl[c] /\ sock'[k] = sock[k]
    <2>1. At(d) \in Conn /\ At(d) # k
      BY <1>0, <1>1, AtConn DEF At
    <2> QED BY <1>0, <1>1, <2>1
            DEF ClientStep, ClientKilled, ClientHello, ClientRetry, ClientHost,
                ClientMem, ClientPool, ClientChan, ClientNextQp, ClientGoGo,
                ClientActivateFails, ClientOut, ConnectFailed, SetClient,
                SetSocket, ClientReplies, ClientCloses
  <1>2. ASSUME ClientStep(c) \/ ClientKilled(c)
        PROVE  FALSE
    <2>1. CASE ClientChan(c)
      <3>1. SetClient(c, [cl[c] EXCEPT !.pc = "gogo"])
              => cl'[c].connid = cl[c].connid
        BY <1>0 DEF SetClient, ClientType
      <3>2. /\ ClientReplies(c, GoGoMsg) /\ At(c) = k
            /\ sock[At(c)].toC # << >>
        <4>1. CASE cl[c].idx + 1 < Qps[c]
          BY <1>0, <2>1, <4>1
             DEF ClientChan, ClientNextQp, SetClient, ClientType
        <4>2. CASE ~ (cl[c].idx + 1 < Qps[c])
          BY <1>0, <2>1, <3>1, <4>2
             DEF ClientChan, ClientNextQp, ClientReads, At, Talking
        <4> QED BY <4>1, <4>2
      <3>3. sock'[k].toC = << >>
        BY <1>0, <3>2, SlotMessages, ClientReplySocket
      <3> QED BY <3>3
    <2>2. cl'[c].pc # "gogo"
      <3>1. CASE ClientHello(c) \/ ClientHost(c) \/ ClientPool(c)
        BY <1>0, <3>1 DEF ClientHello, ClientHost, ClientPool, SetClient,
                          ClientType
      <3>2. CASE ClientMem(c)
        BY <1>0, <3>2 DEF ClientMem, SetClient, ClientType
      <3>3. CASE ClientRetry(c) /\ cl[c].tries + 1 < MaxConnRetry
        BY <1>0, <3>3 DEF ClientRetry, SetClient, ClientType
      <3>4. NextHost(c).pc # "gogo" /\ Ended(c).pc # "gogo"
        BY <1>0 DEF NextHost, NewConnect, Ended, ClientType
      <3>5. CASE ClientGoGo(c) \/ ClientActivateFails(c) \/ ClientOut(c)
                   \/ ClientKilled(c)
        BY <1>0, <3>4, <3>5 DEF ClientGoGo, ClientActivateFails, ClientOut,
           ClientKilled, ConnectFailed, SetClient
      <3>6. CASE ClientRetry(c) /\ ~ (cl[c].tries + 1 < MaxConnRetry)
        BY <1>0, <3>4, <3>6 DEF ClientRetry, ConnectFailed, SetClient
      <3> QED BY <1>2, <2>1, <3>1, <3>2, <3>3, <3>5, <3>6 DEF ClientStep
    <2> QED BY <2>2
  <1>3. CASE \E s \in Servers : StartListen(s) \/ ServerExit(s)
    BY <1>0, <1>3 DEF StartListen, ServerExit, clientVars, SocketType
  <1>4. ASSUME NEW l \in Conn, l # k, Accept(l) \/ HandlerStep(l)
        PROVE  cl' = cl /\ sock'[k] = sock[k]
    BY <1>0, <1>4
       DEF Accept, HandlerStep, HandlerHost, HandlerReject, HandlerMem,
           HandlerPush, HandlerChan, HandlerActivate, HandlerFirstBatch,
           HandlerPublish, HandlerGoGo, HandlerOut, SetSocket, HandlerReplies,
           HandlerRepliesAndCloses, HandlerCloses, clientVars
  <1>5. CASE \/ Accept(k) \/ HandlerPush(k) \/ HandlerActivate(k)
             \/ HandlerFirstBatch(k) \/ HandlerPublish(k) \/ HandlerOut(k)
    BY <1>0, <1>5
       DEF Accept, HandlerPush, HandlerActivate, HandlerFirstBatch,
           HandlerPublish, HandlerOut, HandlerCloses, SetSocket, clientVars,
           SocketType
  <1>6. ~ (HandlerHost(k) \/ HandlerReject(k) \/ HandlerMem(k) \/ HandlerChan(k))
    <2> SUFFICES ASSUME HandlerHost(k) \/ HandlerReject(k) \/ HandlerMem(k)
                          \/ HandlerChan(k)
                 PROVE  FALSE
      OBVIOUS
    <2>1. /\ cl' = cl /\ h[k].pc \in {"host", "mem", "chan"}
          /\ sock[k].toS # << >> /\ Head(sock[k].toS).type # "GoGo"
      BY DEF HandlerHost, HandlerReject, HandlerMem, HandlerChan,
             HandlerReads, clientVars
    <2>2. /\ h[k].pc \in AtWork /\ InStep(k, cl[c], h[k], sock[k])
          /\ cl[c].pc = "gogo"
      BY <2>1, HandlerFacts DEF AtWork, Admitted, Filling
    <2>3. Heard(h[k]) + 1 = Sent(c, cl[c])
      BY <2>1, <2>2 DEF InStep
    <2>4. Sent(c, cl[c]) = BufNum + 2 + Qps[c]
      BY <2>2 DEF Sent
    <2>5. sock[k].toS = <<Question(k, BufNum + 2 + Qps[c])>>
      BY <2>1, <2>2, <2>3, <2>4 DEF InStep
    <2>6. Head(sock[k].toS) = GoGoMsg
      BY <2>5, OneLong, Questions
    <2> QED BY <2>1, <2>6 DEF GoGoMsg
  <1>7. CASE UNCHANGED vars
    BY <1>7 DEF vars
  <1> QED BY <1>0, <1>1, <1>2, <1>3, <1>4, <1>5, <1>6, <1>7
          DEF Next, HandlerStep

LEMMA ConfirmedStep ==
  ASSUME TypeOK, SlotsExclusive, Ownership, Wire, Blocks, Confirmed,
         [Next]_vars
  PROVE  Confirmed'
  <1> SUFFICES ASSUME NEW k \in Conn,
                      Talking(k, cl'[k[1]]), cl'[k[1]].pc = "gogo",
                      sock'[k].toC # << >>, NEW i \in Block(h'[k])
               PROVE  sEp'[k[2]][i].activated
    BY DEF Confirmed
  <1>1. CASE HandlerGoGo(k)
    <2>1. /\ sEp' = sEp /\ h'[k].left = h[k].left /\ h'[k].qps = h[k].qps
          /\ h[k].pc = "gogo"
      BY <1>1, HandlerFacts DEF HandlerGoGo, SetHandler, HandlerType
    <2>2. h[k].idx = h[k].left + h[k].qps
      BY <2>1, HandlerFacts DEF HandlerSane
    <2>3. i \in Block(h[k]) /\ i < h[k].idx
      BY <2>1, <2>2, HandlerFacts DEF Block
    <2> QED BY <2>1, <2>3 DEF Blocks, OnBlock
  <1>2. CASE ~ HandlerGoGo(k)
    <2>1. /\ Talking(k, cl[k[1]]) /\ cl[k[1]].pc = "gogo"
          /\ sock[k].toC # << >>
      BY <1>2, GoGoAnswered
    <2>2. h[k].qps > 0
      <3>1. h[k].qps = Qps[k[1]]
        BY <2>1, HandlerFacts DEF InStep
      <3> QED BY <3>1, HandlerFacts
    <2>3. i \in Block(h[k]) /\ i \in Reserved(k)
      BY <2>2, BlockStays DEF Block, Reserved
    <2>4. sEp[k[2]][i].activated
      BY <2>1, <2>3 DEF Confirmed
    <2> QED BY <2>3, <2>4, PublishedStays, BlockSlots DEF Keeps
  <1> QED BY <1>1, <1>2

(* Endpoint i of client c, that may send, belongs to one of its            *)
(* connections, is linked to the endpoint of the same place in the block   *)
(* reserved for it, which is published, and names a pool of that server.   *)
Linked(c, i, e, pools, handlers, eps) ==
  \E k \in Conn :
    /\ k[1] = c
    /\ i - Base(k) \in 0 .. (Qps[c] - 1)
    /\ handlers[k].qps = Qps[c]
    /\ e.peer = k[2]
    /\ e.qpn = handlers[k].left + (i - Base(k))
    /\ eps[k[2]][e.qpn].activated
    /\ Registered(pools, e.mem, k[2])

(* Only endpoints of hosts the client is through with may send. *)
Behind(c, x, row) ==
  \A i \in Ep(c) :
    row[i].activated => i < x.connid * Qps[c] \/ x.pc = "run"

(* The pool is there when the channels are set up, and the endpoints set   *)
(* up so far are linked already, in order.                                 *)
Prepared(c, x, row, pools, left) ==
  x.pc \in {"chan", "gogo"} =>
    /\ Registered(pools, x.mem, x.connid)
    /\ \A j \in 0 .. (Qps[c] - 1) :
         j < x.idx \/ x.pc = "gogo" =>
           /\ row[x.connid * Qps[c] + j].peer = x.connid
           /\ row[x.connid * Qps[c] + j].qpn = left + j

(* A client that ends with its first failure has got all it asked for. *)
Complete(c, x, row) ==
  ~ ContinueOnFailure /\ x.pc # "exit" =>
    \A i \in Ep(c) :
      i < x.connid * Qps[c] \/ x.pc = "run" => row[i].activated

ClientLinking(c, x, row, pools, handlers, eps) ==
  /\ Behind(c, x, row)
  /\ Prepared(c, x, row, pools, handlers[<<c, x.connid>>].left)
  /\ Complete(c, x, row)
  /\ \A i \in Ep(c) :
       row[i].activated => Linked(c, i, row[i], pools, handlers, eps)

Linking ==
  \A c \in Clients : ClientLinking(c, cl[c], cEp[c], cPools[c], h, sEp)

(* The endpoints of a connection are among those of its client. *)
LEMMA SlotsOfClient ==
  ASSUME NEW c \in Clients, NEW s \in Servers
  PROVE  /\ s * Qps[c] \in Nat
         /\ (s + 1) * Qps[c] = s * Qps[c] + Qps[c]
         /\ \A j \in 0 .. (Qps[c] - 1) : s * Qps[c] + j \in Ep(c)
         /\ \A i \in Ep(c) : i \in Nat /\ i < NumServers * Qps[c]
  <1> DEFINE q == Qps[c]
             n == NumServers
  <1>1. q \in Nat \ {0} /\ n \in Nat /\ s \in Nat /\ s + 1 <= n
    BY HandshakeAssumption DEF Servers
  <1> HIDE DEF q, n
  <1>2. s * q \in Nat /\ (s + 1) * q = s * q + q /\ n * q \in Nat
    BY <1>1
  <1>3. (s + 1) * q <= n * q
    BY <1>1
  <1> DEFINE a == s * q
             b == n * q
  <1>4. a \in Nat /\ b \in Nat /\ a + q <= b /\ q \in Nat
    BY <1>1, <1>2, <1>3
  <1> HIDE DEF a, b
  <1>5. \A j \in 0 .. (q - 1) : a + j \in 0 .. (b - 1)
    BY <1>4
  <1>6. \A i \in 0 .. (b - 1) : i \in Nat /\ i < b
    BY <1>4
  <1> QED BY <1>2, <1>5, <1>6 DEF a, b, q, n, Ep

(* What links an endpoint outlives every step. *)
LEMMA LinkedStays ==
  ASSUME TypeOK, SlotsExclusive, Ownership, Wire, [Next]_vars,
         NEW c \in Clients, NEW i \in Ep(c), NEW e \in ClientEpType,
         NEW pools, NEW more,
         \A p : \A id \in Int : Registered(pools, id, p) => Registered(more, id, p),
         Linked(c, i, e, pools, h, sEp)
  PROVE  Linked(c, i, e, more, h', sEp')
  <1> PICK k \in Conn :
        /\ k[1] = c
        /\ i - Base(k) \in 0 .. (Qps[c] - 1)
        /\ h[k].qps = Qps[c]
        /\ e.peer = k[2]
        /\ e.qpn = h[k].left + (i - Base(k))
        /\ sEp[k[2]][e.qpn].activated
        /\ Registered(pools, e.mem, k[2])
    BY DEF Linked
  <1>1. h'[k].left = h[k].left /\ h'[k].qps = h[k].qps
    BY BlockStays, HandlerFacts
  <1>2. e.qpn \in Reserved(k)
    BY HandlerFacts DEF Reserved
  <1>3. sEp'[k[2]][e.qpn].activated
    BY <1>2, PublishedStays, BlockSlots DEF Keeps
  <1>4. e.mem \in Int
    BY DEF ClientEpType
  <1> QED BY <1>1, <1>3, <1>4 DEF Linked

(* The endpoints of a client that send after a step sent before it. *)
LEMMA LinkedKept ==
  ASSUME TypeOK, SlotsExclusive, Ownership, Wire, Linking, [Next]_vars,
         NEW c \in Clients,
         \A p : \A id \in Int :
           Registered(cPools[c], id, p) => Registered(cPools'[c], id, p),
         \A i \in Ep(c) : cEp'[c][i].activated => cEp'[c][i] = cEp[c][i]
  PROVE  \A i \in Ep(c) :
           cEp'[c][i].activated =>
             Linked(c, i, cEp'[c][i], cPools'[c], h', sEp')
  <1> SUFFICES ASSUME NEW i \in Ep(c), cEp'[c][i].activated
               PROVE  Linked(c, i, cEp'[c][i], cPools'[c], h', sEp')
    OBVIOUS
  <1>1. cEp'[c][i] = cEp[c][i] /\ cEp[c][i] \in ClientEpType
    BY DEF TypeOK
  <1>2. Linked(c, i, cEp[c][i], cPools[c], h, sEp)
    BY <1>1 DEF Linking, ClientLinking
  <1>3. Linked(c, i, cEp[c][i], cPools'[c], h', sEp')
    BY <1>1, <1>2, LinkedStays
  <1> QED BY <1>1, <1>3

(* The block of the connection a client sets up stays. *)
LEMMA BlockOfConnect ==
  ASSUME TypeOK, Wire, [Next]_vars, NEW c \in Clients,
         cl[c].pc \in {"mem", "chan", "gogo"}
  PROVE  /\ h[At(c)].qps = Qps[c]
         /\ h'[At(c)].left = h[At(c)].left /\ h'[At(c)].qps = h[At(c)].qps
  <1>1. Talking(At(c), cl[c]) /\ At(c) \in Conn /\ At(c)[1] = c
        /\ InStep(At(c), cl[c], h[At(c)], sock[At(c)])
    BY TalkingFacts DEF Talking, Reading, Expected
  <1>2. h[At(c)].qps = Qps[c]
    BY <1>1 DEF InStep
  <1> QED BY <1>1, <1>2, BlockStays, HandshakeAssumption

(* A step of somebody else. *)
LEMMA LinkingOther ==
  ASSUME TypeOK, SlotsExclusive, Ownership, Wire, Linking, [Next]_vars,
         NEW c \in Clients,
         cl'[c] = cl[c], cEp'[c] = cEp[c], cPools'[c] = cPools[c]
  PROVE  ClientLinking(c, cl'[c], cEp'[c], cPools'[c], h', sEp')
  <1>1. ClientLinking(c, cl[c], cEp[c], cPools[c], h, sEp)
    BY DEF Linking
  <1>2. cl[c].pc \in {"chan", "gogo"} =>
          h'[<<c, cl[c].connid>>].left = h[<<c, cl[c].connid>>].left
    BY BlockOfConnect DEF At
  <1>3. Prepared(c, cl'[c], cEp'[c], cPools'[c], h'[<<c, cl'[c].connid>>].left)
    BY <1>1, <1>2 DEF ClientLinking, Prepared
  <1> QED BY <1>1, <1>3, LinkedKept DEF ClientLinking

LEMMA LinkingOwn ==
  ASSUME TypeOK, SlotsExclusive, Ownership, Wire, Linking, [Next]_vars,
         NEW c \in Clients,
         \A d \in Clients \ {c} :
           cl'[d] = cl[d] /\ cEp'[d] = cEp[d] /\ cPools'[d] = cPools[d],
         ClientLinking(c, cl'[c], cEp'[c], cPools'[c], h', sEp')
  PROVE  Linking'
  <1>1. \A d \in Clients \ {c} :
          ClientLinking(d, cl'[d], cEp'[d], cPools'[d], h', sEp')
    BY LinkingOther
  <1> QED BY <1>1 DEF Linking

(* A step before the pool is published: the endpoints do not change.       *)
LEMMA LinkingBefore ==
  ASSUME TypeOK, SlotsExclusive, Ownership, Wire, Linking, [Next]_vars,
         NEW c \in Clients, cEp' = cEp, cPools' = cPools,
         \A d \in Clients \ {c} : cl'[d] = cl[d],
         cl'[c].connid = cl[c].connid,
         cl[c].pc \in {"tcp", "host", "mem"},
         cl'[c].pc \in {"tcp", "host", "mem"}
  PROVE  Linking'
  <1>1. ClientLinking(c, cl[c], cEp[c], cPools[c], h, sEp)
    BY DEF Linking
  <1>2. /\ Behind(c, cl'[c], cEp'[c]) /\ Complete(c, cl'[c], cEp'[c])
        /\ Prepared(c, cl'[c], cEp'[c], cPools'[c],
                    h'[<<c, cl'[c].connid>>].left)
    BY <1>1 DEF ClientLinking, Behind, Complete, Prepared
  <1> QED BY <1>2, LinkedKept, LinkingOwn DEF ClientLinking

(* Connect failed: the endpoints set up so far may stay, none of them may  *)
(* send.                                                                   *)
LEMMA LinkingFails ==
  ASSUME TypeOK, SlotsExclusive, Ownership, Wire, Linking, [Next]_vars,
         NEW c \in Clients, NEW eps, ConnectFailed(c, eps),
         \A i \in Ep(c) : eps[i].activated => eps[i] = cEp[c][i],
         cPools' = cPools, cl[c].pc \notin {"run", "exit"}
  PROVE  Linking'
  <1> DEFINE x == cl[c]
             z == cl'[c]
             row == cEp'[c]
  <1>1. /\ ClientLinking(c, x, cEp[c], cPools[c], h, sEp)
        /\ x \in ClientType /\ x.connid \in Servers /\ DOMAIN cl = Clients
        /\ DOMAIN cEp = Clients
    BY AtConn DEF Linking, TypeOK
  <1>2. /\ \A d \in Clients \ {c} : cl'[d] = cl[d] /\ cEp'[d] = cEp[d]
        /\ ContinueOnFailure => z = NextHost(c) /\ row = eps
        /\ ~ ContinueOnFailure => z = Ended(c) /\ row = NoEndpoints(c)
    BY <1>1 DEF ConnectFailed, SetClient
  <1>3. \A i \in Ep(c) : row[i].activated => row[i] = cEp[c][i]
    BY <1>2 DEF NoEndpoints, NewClientEp
  <1>4. /\ z.pc \notin {"chan", "gogo"}
        /\ ContinueOnFailure =>
             z.connid = x.connid + 1 \/ z.pc = "run"
        /\ ~ ContinueOnFailure => z.pc = "exit"
    BY <1>1, <1>2 DEF NextHost, NewConnect, Ended, ClientType
  <1>5. Behind(c, z, row)
    <2> SUFFICES ASSUME NEW i \in Ep(c), row[i].activated
                 PROVE  i < z.connid * Qps[c] \/ z.pc = "run"
      BY DEF Behind
    <2>1. i < x.connid * Qps[c]
      BY <1>1, <1>3 DEF ClientLinking, Behind
    <2>2. ContinueOnFailure
      BY <1>2 DEF NoEndpoints, NewClientEp
    <2>3. CASE z.connid = x.connid + 1
      <3> DEFINE a == x.connid * Qps[c]
                 b == z.connid * Qps[c]
      <3>1. a \in Nat /\ b = a + Qps[c] /\ Qps[c] \in Nat /\ i \in Nat /\ i < a
        BY <1>1, <2>1, <2>3, SlotsOfClient, HandshakeAssumption
      <3> HIDE DEF a, b
      <3>2. i < b
        BY <3>1
      <3> QED BY <3>2 DEF b
    <2> QED BY <1>4, <2>2, <2>3
  <1>6. Complete(c, z, row)
    BY <1>4 DEF Complete
  <1>7. Prepared(c, z, row, cPools'[c], h'[<<c, z.connid>>].left)
    BY <1>4 DEF Prepared
  <1> QED BY <1>2, <1>3, <1>5, <1>6, <1>7, LinkedKept, LinkingOwn
          DEF ClientLinking

LEMMA LinkingKilled ==
  ASSUME TypeOK, SlotsExclusive, Ownership, Wire, Linking, [Next]_vars,
         NEW c \in Clients, ClientKilled(c)
  PROVE  Linking'
  <1>1. /\ cPools' = cPools /\ cl'[c] = Ended(c) /\ cEp'[c] = NoEndpoints(c)
        /\ \A d \in Clients \ {c} : cl'[d] = cl[d] /\ cEp'[d] = cEp[d]
    BY DEF ClientKilled, SetClient, TypeOK
  <1>2. \A i \in Ep(c) : ~ cEp'[c][i].activated
    BY <1>1 DEF NoEndpoints, NewClientEp
  <1>3. cl'[c].pc = "exit"
    BY <1>1, AtConn DEF Ended, ClientType
  <1> QED BY <1>1, <1>2, <1>3, LinkingOwn
          DEF ClientLinking, Behind, Prepared, Complete

LEMMA LinkingPool ==
  ASSUME TypeOK, SlotsExclusive, Ownership, Wire, Linking, [Next]_vars,
         NEW c \in Clients, ClientPool(c)
  PROVE  Linking'
  <1> DEFINE x == cl[c]
             z == cl'[c]
             pools == cPools[c]
             bufs == Append(x.bufs, Head(sock[At(c)].toC).owner)
  <1>1. /\ x.pc = "mem" /\ x.pc \in Reading /\ sock[At(c)].toC # << >>
        /\ x.idx + 1 = BufNum /\ x.connid \in Procs /\ x.idx \in Nat
        /\ x.bufs = Filled(x.idx, x.connid) /\ x \in ClientType
        /\ pools \in Seq(Buffers) /\ DOMAIN cl = Clients
        /\ DOMAIN cPools = Clients
    BY TalkingFacts DEF ClientPool, ClientReads, Reading, Expected, ClientSane,
                        TypeOK
  <1>2. bufs = Filled(BufNum, x.connid) /\ bufs \in Buffers
    <2>1. Head(sock[At(c)].toC).owner = x.connid
      <3>1. Head(sock[At(c)].toC) = MemMsg(x.connid)
        BY <1>1, ClientHears
      <3> QED BY <3>1 DEF MemMsg
    <2>2. bufs = Filled(BufNum, x.connid)
      BY <1>1, <2>1, FilledNext
    <2>3. x.bufs \in Seq(Procs)
      BY <1>1 DEF ClientType, Buffers
    <2> QED BY <1>1, <2>1, <2>2, <2>3 DEF Buffers
  <1> HIDE DEF bufs
  <1>3. /\ z = [x EXCEPT !.pc = "chan", !.idx = 0, !.bufs = bufs,
                         !.mem = Len(pools)]
        /\ cPools'[c] = Append(pools, bufs) /\ cEp' = cEp
        /\ \A d \in Clients \ {c} : cl'[d] = cl[d] /\ cPools'[d] = cPools[d]
    BY <1>1 DEF ClientPool, SetClient, bufs
  <1>4. /\ z.pc = "chan" /\ z.idx = 0 /\ z.connid = x.connid
        /\ z.mem = Len(pools)
    BY <1>1, <1>3 DEF ClientType
  <1>5. /\ Registered(cPools'[c], z.mem, z.connid)
        /\ \A p : \A id \in Int :
             Registered(pools, id, p) => Registered(cPools'[c], id, p)
    BY <1>1, <1>2, <1>3, <1>4, RegisteredLast, RegisteredLonger
  <1>6. /\ Behind(c, z, cEp'[c]) /\ Complete(c, z, cEp'[c])
    BY <1>1, <1>3, <1>4 DEF Linking, ClientLinking, Behind, Complete
  <1>7. Prepared(c, z, cEp'[c], cPools'[c], h'[<<c, z.connid>>].left)
    BY <1>4, <1>5 DEF Prepared
  <1> QED BY <1>3, <1>5, <1>6, <1>7, LinkedKept, LinkingOwn DEF ClientLinking

LEMMA LinkingChan ==
  ASSUME TypeOK, SlotsExclusive, Ownership, Wire, Linking, [Next]_vars,
         NEW c \in Clients, ClientChan(c)
  PROVE  Linking'
  <1> DEFINE x == cl[c]
             z == cl'[c]
             row == cEp[c]
             a == x.connid * Qps[c]
             l == h[At(c)].left
             e == [row[a + x.idx] EXCEPT !.qpn = l + x.idx, !.peer = x.connid]
             q == Qps[c]
  <1>1. /\ x.pc = "chan" /\ x.pc \in Reading /\ sock[At(c)].toC # << >>
        /\ x \in ClientType /\ x.connid \in Servers /\ x.idx \in Nat
        /\ x.idx < q /\ x.gid = x.connid /\ q \in Nat \ {0}
        /\ DOMAIN cl = Clients /\ DOMAIN cEp = Clients
        /\ row \in [Ep(c) -> ClientEpType]
        /\ ClientLinking(c, x, row, cPools[c], h, sEp)
    BY TalkingFacts, HandshakeAssumption
       DEF ClientChan, ClientReads, Reading, Expected, ClientSane, TypeOK,
           Linking
  <1>2. /\ a \in Nat /\ a + x.idx \in Ep(c) /\ ClientSlot(c, x.idx) = a + x.idx
        /\ \A j \in 0 .. (q - 1) : a + j \in Ep(c)
        /\ \A i \in Ep(c) : i \in Nat
    BY <1>1, SlotsOfClient DEF ClientSlot
  <1>3. SetClientEp(c, a + x.idx, e)
    <2>1. Head(sock[At(c)].toC).qpn = l + x.idx
      <3>1. Head(sock[At(c)].toC) = ChanMsg(l + x.idx)
        BY <1>1, ClientHears
      <3> QED BY <3>1 DEF ChanMsg
    <2> QED BY <1>1, <1>2, <2>1 DEF ClientChan
  <1>4. row[a + x.idx] \in ClientEpType /\ ~ row[a + x.idx].activated
    <2>1. ~ (a + x.idx < a)
      <3> HIDE DEF a
      <3> QED BY <1>1, <1>2
    <2> QED BY <1>1, <1>2, <2>1 DEF ClientLinking, Behind
  <1>5. e.peer = x.connid /\ e.qpn = l + x.idx /\ ~ e.activated
    <2> DEFINE r == row[a + x.idx]
               n == l + x.idx
    <2>1. r \in ClientEpType /\ ~ r.activated
      BY <1>4
    <2> HIDE DEF r, n
    <2>2. /\ [r EXCEPT !.qpn = n, !.peer = x.connid].peer = x.connid
          /\ [r EXCEPT !.qpn = n, !.peer = x.connid].qpn = n
          /\ ~ [r EXCEPT !.qpn = n, !.peer = x.connid].activated
      BY <2>1 DEF ClientEpType
    <2> QED BY <2>2 DEF r, n
  <1> HIDE DEF e
  <1>6. /\ cEp'[c][a + x.idx] = e
        /\ \A i \in Ep(c) : i # a + x.idx => cEp'[c][i] = row[i]
        /\ \A d \in Clients \ {c} : cEp'[d] = cEp[d]
    BY <1>1, <1>2, <1>3 DEF SetClientEp
  <1>7. /\ z.connid = x.connid /\ z.mem = x.mem
        /\ z.pc = IF x.idx + 1 < q THEN "chan" ELSE "gogo"
        /\ z.pc = "chan" => z.idx = x.idx + 1
        /\ \A d \in Clients \ {c} : cl'[d] = cl[d]
        /\ cPools' = cPools
    BY <1>1 DEF ClientChan, ClientNextQp, SetClient, ClientType
  <1> HIDE DEF x, z
  <1>8. Behind(c, z, cEp'[c])
    BY <1>1, <1>5, <1>6, <1>7 DEF ClientLinking, Behind
  <1>9. Complete(c, z, cEp'[c])
    <2> SUFFICES ASSUME ~ ContinueOnFailure, NEW i \in Ep(c),
                        i < z.connid * Qps[c] \/ z.pc = "run"
                 PROVE  cEp'[c][i].activated
      BY DEF Complete
    <2>1. i < a
      BY <1>7
    <2>2. row[i].activated
      BY <1>1, <2>1 DEF ClientLinking, Complete
    <2> QED BY <1>4, <1>6, <2>2
  <1>10. Prepared(c, z, cEp'[c], cPools'[c], h'[<<c, z.connid>>].left)
    <2>1. h'[<<c, z.connid>>].left = l /\ <<c, x.connid>> = At(c)
      BY <1>1, <1>7, BlockOfConnect DEF At, x
    <2>2. Registered(cPools'[c], z.mem, z.connid)
      BY <1>1, <1>7 DEF ClientLinking, Prepared
    <2>3. ASSUME NEW j \in 0 .. (q - 1), j < z.idx \/ z.pc = "gogo"
          PROVE  cEp'[c][a + j].peer = x.connid /\ cEp'[c][a + j].qpn = l + j
      <3>1. CASE j = x.idx
        BY <1>5, <1>6, <3>1
      <3>2. CASE j # x.idx
        <4>1. j < x.idx
          BY <1>1, <1>7, <2>3, <3>2
        <4>2. row[a + j].peer = x.connid /\ row[a + j].qpn = l + j
          BY <1>1, <2>1, <4>1 DEF ClientLinking, Prepared
        <4>3. a + j \in Ep(c) /\ a + j # a + x.idx
          <5> HIDE DEF a
          <5> QED BY <1>1, <1>2, <3>2
        <4> QED BY <1>6, <4>2, <4>3
      <3> QED BY <3>1, <3>2
    <2> QED BY <1>7, <2>1, <2>2, <2>3 DEF Prepared
  <1>11. \A i \in Ep(c) : cEp'[c][i].activated => cEp'[c][i] = cEp[c][i]
    BY <1>5, <1>6
  <1> QED BY <1>6, <1>7, <1>8, <1>9, <1>10, <1>11, LinkedKept, LinkingOwn
          DEF ClientLinking, z

LEMMA LinkingGoGo ==
  ASSUME TypeOK, SlotsExclusive, Ownership, Wire, Linking, Confirmed,
         [Next]_vars, NEW c \in Clients, ClientGoGo(c)
  PROVE  Linking'
  <1> DEFINE x == cl[c]
             z == cl'[c]
             k == At(c)
             row == cEp[c]
             next == cEp'[c]
             q == Qps[c]
             a == x.connid * q
             b == (x.connid + 1) * q
  <1>1. /\ x.pc = "gogo" /\ x.pc \in Reading /\ sock[k].toC # << >>
        /\ x \in ClientType /\ x.connid \in Servers /\ q \in Nat \ {0}
        /\ k \in Conn /\ k[1] = c /\ k[2] = x.connid
        /\ InStep(k, x, h[k], sock[k])
        /\ DOMAIN cl = Clients /\ DOMAIN cEp = Clients
        /\ row \in [Ep(c) -> ClientEpType]
        /\ ClientLinking(c, x, row, cPools[c], h, sEp)
        /\ x.mem \in Nat \cup {-1}
    BY TalkingFacts, HandshakeAssumption
       DEF ClientGoGo, ClientReads, Reading, Expected, TypeOK, Linking,
           ClientType
  <1>2. /\ a \in Nat /\ b = a + q /\ Base(k) = a
        /\ \A j \in 0 .. (q - 1) : a + j \in Ep(c)
        /\ \A i \in Ep(c) : i \in Nat /\ i < NumServers * q
    BY <1>1, SlotsOfClient DEF Base
  <1>3. MySlots(c) = a .. (a + q - 1)
    <2>1. ClientSlot(c, 0) = a + 0 /\ ClientSlot(c, q - 1) = a + (q - 1)
      BY DEF ClientSlot
    <2> HIDE DEF a, q
    <2>2. a + 0 = a /\ a + (q - 1) = a + q - 1
      BY <1>1, <1>2
    <2> QED BY <2>1, <2>2 DEF MySlots, q
  <1> DEFINE e(i) == [row[i] EXCEPT !.activated = TRUE, !.mem = x.mem]
  <1>4. /\ \A i \in Ep(c) :
             next[i] = IF i \in MySlots(c) THEN e(i) ELSE row[i]
        /\ z = NextHost(c) /\ cPools' = cPools
        /\ \A d \in Clients \ {c} : cl'[d] = cl[d] /\ cEp'[d] = cEp[d]
    BY <1>1 DEF ClientGoGo, SetClient
  <1>5. \A i \in Ep(c) :
          /\ e(i) \in ClientEpType /\ e(i).activated /\ e(i).mem = x.mem
          /\ e(i).peer = row[i].peer /\ e(i).qpn = row[i].qpn
    <2>1. ASSUME NEW r \in ClientEpType
          PROVE  LET f == [r EXCEPT !.activated = TRUE, !.mem = x.mem]
                 IN  /\ f \in ClientEpType /\ f.activated /\ f.mem = x.mem
                     /\ f.peer = r.peer /\ f.qpn = r.qpn
      BY <1>1 DEF ClientEpType
    <2> QED BY <1>1, <2>1
  <1> HIDE DEF e
  <1>6. h[k].qps = q
    BY <1>1, BlockOfConnect
  <1>7. ASSUME NEW i \in Ep(c), i \in MySlots(c)
        PROVE  Linked(c, i, next[i], cPools[c], h, sEp)
    <2> DEFINE j == i - a
    <2>1. j \in 0 .. (q - 1) /\ i = a + j
      <3> HIDE DEF a, q
      <3> QED BY <1>1, <1>2, <1>3, <1>7
    <2>2. /\ row[i].peer = x.connid /\ row[i].qpn = h[k].left + j
          /\ Registered(cPools[c], x.mem, x.connid)
      BY <1>1, <2>1 DEF ClientLinking, Prepared, At
    <2>3. sEp[k[2]][h[k].left + j].activated
      <3>1. Talking(k, x)
        BY <1>1 DEF Talking
      <3>2. h[k].left + j \in Block(h[k])
        <4>1. h[k].left \in Nat
          BY <1>1, HandlerFacts
        <4> HIDE DEF j
        <4> QED BY <1>1, <1>6, <2>1, <4>1 DEF Block
      <3> QED BY <1>1, <3>1, <3>2 DEF Confirmed
    <2>4. i - Base(k) = j
      BY <1>2
    <2>5. next[i] = e(i)
      BY <1>4, <1>7
    <2>6. /\ next[i].peer = k[2] /\ next[i].qpn = h[k].left + j
          /\ next[i].mem = x.mem
      BY <1>1, <1>5, <2>2, <2>5
    <2> HIDE DEF j, x, k, q
    <2>7. /\ k[1] = c /\ h[k].qps = Qps[c] /\ i - Base(k) \in 0 .. (Qps[c] - 1)
          /\ next[i].qpn = h[k].left + (i - Base(k))
          /\ sEp[k[2]][next[i].qpn].activated
          /\ Registered(cPools[c], next[i].mem, k[2])
      BY <1>1, <1>6, <2>1, <2>2, <2>3, <2>4, <2>6 DEF q
    <2> QED BY <1>1, <2>6, <2>7 DEF Linked
  <1>8. ASSUME NEW i \in Ep(c), next[i].activated
        PROVE  Linked(c, i, next[i], cPools'[c], h', sEp')
    <2>1. next[i] \in ClientEpType
      BY <1>1, <1>4, <1>5
    <2>2. Linked(c, i, next[i], cPools[c], h, sEp)
      BY <1>1, <1>4, <1>7, <1>8 DEF ClientLinking
    <2> QED BY <1>4, <2>1, <2>2, LinkedStays
  <1>9. \/ z.connid = x.connid + 1 /\ z.pc = "tcp"
        \/ x.connid + 1 = NumServers /\ z.pc = "run"
    <2>1. x.connid \in Nat /\ x.connid < NumServers /\ NumServers \in Nat
      BY <1>1, HandshakeAssumption DEF Servers
    <2> QED BY <1>1, <1>4, <2>1 DEF NextHost, NewConnect, ClientType
  <1> HIDE DEF x, z, q
  <1>10. Behind(c, z, next)
    <2> SUFFICES ASSUME NEW i \in Ep(c), next[i].activated, z.pc # "run"
                 PROVE  i < z.connid * Qps[c]
      BY DEF Behind
    <2>1. i \in MySlots(c) \/ i < a
      BY <1>1, <1>4 DEF ClientLinking, Behind, q
    <2>2. i < b
      <3> HIDE DEF a, b
      <3> QED BY <1>1, <1>2, <1>3, <2>1
    <2> QED BY <1>9, <2>2 DEF q
  <1>11. Complete(c, z, next)
    <2> SUFFICES ASSUME ~ ContinueOnFailure, NEW i \in Ep(c),
                        i < z.connid * Qps[c] \/ z.pc = "run"
                 PROVE  next[i].activated
      BY DEF Complete
    <2>1. i < b
      BY <1>2, <1>9 DEF q
    <2>2. i \in MySlots(c) \/ i < a
      <3> HIDE DEF a, b
      <3> QED BY <1>1, <1>2, <1>3, <2>1
    <2>3. i < a => row[i].activated
      BY <1>1 DEF ClientLinking, Complete, q
    <2> QED BY <1>4, <1>5, <2>2, <2>3
  <1>12. Prepared(c, z, next, cPools'[c], h'[<<c, z.connid>>].left)
    BY <1>9 DEF Prepared
  <1> QED BY <1>4, <1>8, <1>10, <1>11, <1>12, LinkingOwn
          DEF ClientLinking, z

LEMMA LinkingStep ==
  ASSUME TypeOK, SlotsExclusive, Ownership, Wire, Linking, Confirmed,
         [Next]_vars
  PROVE  Linking'
  <1>1. CASE UNCHANGED clientVars
    BY <1>1, LinkingOther DEF clientVars, Linking
  <1>2. ASSUME NEW c \in Clients, ClientStep(c)
        PROVE  Linking'
    <2>0. /\ DOMAIN cl = Clients /\ cl[c] \in ClientType
          /\ cEp[c] \in [Ep(c) -> ClientEpType]
      BY DEF TypeOK
    <2>1. CASE ClientHello(c) \/ ClientHost(c) \/ ClientMem(c)
      <3>1. /\ cEp' = cEp /\ cPools' = cPools
            /\ \A d \in Clients \ {c} : cl'[d] = cl[d]
            /\ cl'[c].connid = cl[c].connid
            /\ cl[c].pc \in {"tcp", "host", "mem"}
            /\ cl'[c].pc \in {"host", "mem"}
        BY <2>0, <2>1
           DEF ClientHello, ClientHost, ClientMem, SetClient, ClientType
      <3> QED BY <3>1, LinkingBefore
    <2>2. CASE ClientRetry(c)
      <3>1. CASE cl[c].tries + 1 < MaxConnRetry
        <4>1. /\ cEp' = cEp /\ cPools' = cPools
              /\ \A d \in Clients \ {c} : cl'[d] = cl[d]
              /\ cl'[c].connid = cl[c].connid
              /\ cl[c].pc = "tcp" /\ cl'[c].pc = "tcp"
          BY <2>0, <2>2, <3>1 DEF ClientRetry, SetClient, ClientType
        <4> QED BY <4>1, LinkingBefore
      <3>2. CASE ~ (cl[c].tries + 1 < MaxConnRetry)
        <4>1. /\ ConnectFailed(c, cEp[c]) /\ cPools' = cPools
              /\ cl[c].pc = "tcp"
          BY <2>2, <3>2 DEF ClientRetry
        <4> QED BY <4>1, LinkingFails
      <3> QED BY <3>1, <3>2
    <2>3. CASE ClientOut(c)
      <3>1. /\ ConnectFailed(c, cEp[c]) /\ cPools' = cPools
            /\ cl[c].pc \notin {"run", "exit"}
        BY <2>3 DEF ClientOut, ClientGivesUp, Reading, Expected
      <3> QED BY <3>1, LinkingFails
    <2>4. CASE ClientActivateFails(c)
      <3> DEFINE i == ClientSlot(c, cl[c].idx)
                 n == Head(sock[At(c)].toC).qpn
                 eps == [cEp[c] EXCEPT ![i].qpn = n]
      <3>1. /\ ConnectFailed(c, eps) /\ cPools' = cPools
            /\ cl[c].pc = "chan"
        BY <2>4 DEF ClientActivateFails
      <3>2. ~ cEp[c][i].activated \/ i \notin Ep(c)
        <4> SUFFICES ASSUME i \in Ep(c), cEp[c][i].activated PROVE FALSE
          OBVIOUS
        <4>1. /\ i < cl[c].connid * Qps[c] /\ cl[c].idx \in Nat
              /\ cl[c].connid * Qps[c] \in Nat
          BY <3>1, TalkingFacts, SlotsOfClient
             DEF Linking, ClientLinking, Behind
        <4>2. i = cl[c].connid * Qps[c] + cl[c].idx
          BY DEF ClientSlot
        <4> DEFINE a == cl[c].connid * Qps[c]
                   j == cl[c].idx
        <4>3. i < a /\ i = a + j /\ a \in Nat /\ j \in Nat
          BY <4>1, <4>2
        <4> HIDE DEF i, a, j
        <4> QED BY <4>3
      <3>3. ASSUME NEW e \in Ep(c), eps[e].activated
            PROVE  eps[e] = cEp[c][e]
        <4>1. \A r \in ClientEpType :
                [r EXCEPT !.qpn = n].activated = r.activated
          BY DEF ClientEpType
        <4>2. e # i => eps[e] = cEp[c][e]
          BY <2>0
        <4>3. e = i => eps[e] = [cEp[c][i] EXCEPT !.qpn = n]
                         /\ cEp[c][i] \in ClientEpType
          BY <2>0
        <4> HIDE DEF eps, n, i
        <4> QED BY <3>2, <3>3, <4>1, <4>2, <4>3
      <3> HIDE DEF eps
      <3> QED BY <3>1, <3>3, LinkingFails
    <2> QED BY <1>2, <2>1, <2>2, <2>3, <2>4, LinkingPool, LinkingChan,
               LinkingGoGo DEF ClientStep
  <1>3. CASE \/ \E s \in Servers : StartListen(s) \/ ServerExit(s)
             \/ \E k \in Conn : Accept(k) \/ HandlerStep(k)
             \/ UNCHANGED vars
    BY <1>1, <1>3
       DEF StartListen, ServerExit, Accept, HandlerStep, HandlerHost,
           HandlerReject, HandlerMem, HandlerPush, HandlerChan,
           HandlerActivate, HandlerFirstBatch, HandlerPublish, HandlerGoGo,
           HandlerOut, vars, clientVars
  <1> QED BY <1>2, <1>3, LinkingKilled DEF Next

(* In every run, the endpoints of a client that may send are linked to     *)
(* published endpoints of the blocks reserved for it, in order.            *)
THEOREM Establishing == Spec => [](Linking /\ Confirmed)
  <1>1. Init => Linking /\ Confirmed
    <2> SUFFICES ASSUME Init PROVE Linking /\ Confirmed
      OBVIOUS
    <2>1. \A c \in Clients :
            /\ cl[c] = NewConnect(0)
            /\ \A i \in Ep(c) : cEp[c][i] = NewClientEp
      BY DEF Init
    <2>2. /\ NewConnect(0).connid = 0 /\ NewConnect(0).pc = "tcp"
          /\ NewClientEp.activated = FALSE
      BY DEF NewConnect, NewClientEp
    <2>3. ASSUME NEW c \in Clients
          PROVE  ClientLinking(c, cl[c], cEp[c], cPools[c], h, sEp)
      <3>1. \A i \in Ep(c) : ~ (i < 0 * Qps[c])
        BY HandshakeAssumption DEF Ep
      <3> QED BY <2>1, <2>2, <3>1
              DEF ClientLinking, Behind, Prepared, Complete
    <2>4. Confirmed
      BY <2>1, <2>2, Sizes DEF Confirmed
    <2> QED BY <2>3, <2>4 DEF Linking
  <1>2. TypeOK /\ SlotsExclusive /\ Ownership /\ Wire
          /\ (Blocks /\ ServerPools) /\ (Linking /\ Confirmed) /\ [Next]_vars
          => (Linking /\ Confirmed)'
    BY LinkingStep, ConfirmedStep
  <1> QED BY <1>1, <1>2, TypeCorrect, Exclusive, Owning, Conversing,
             Publishing, PTL DEF Spec

-----------------------------------------------------------------------------
(* The properties. *)

(* In every run, a client endpoint that may send is connected to a server  *)
(* endpoint that is connected back to it, published, and ready to receive. *)
THEOREM Paired == Spec => []SendersArePaired
  <1>1. TypeOK /\ SlotsExclusive /\ Wire /\ (Blocks /\ ServerPools)
          /\ (Linking /\ Confirmed) => SendersArePaired
    <2> SUFFICES ASSUME TypeOK, SlotsExclusive, Wire, Blocks, Linking,
                        NEW c \in Clients, NEW i \in Ep(c), cEp[c][i].activated
                 PROVE  LET e == cEp[c][i]
                            r == sEp[e.peer][e.qpn]
                        IN  /\ e.peer \in Servers /\ e.qpn \in Slot
                            /\ r.activated /\ r.peer = c /\ r.qpn = i
                            /\ r.credits = 0
      BY DEF SendersArePaired
    <2> DEFINE e == cEp[c][i]
               r == sEp[e.peer][e.qpn]
    <2>1. PICK k \in Conn :
            /\ k[1] = c
            /\ i - Base(k) \in 0 .. (Qps[c] - 1)
            /\ h[k].qps = Qps[c]
            /\ e.peer = k[2]
            /\ e.qpn = h[k].left + (i - Base(k))
            /\ sEp[k[2]][e.qpn].activated
            /\ Registered(cPools[c], e.mem, k[2])
      BY DEF Linking, ClientLinking, Linked
    <2>2. /\ h[k].left \in Nat /\ Base(k) \in Nat /\ i \in Int
          /\ k[2] \in Servers /\ Qps[c] \in Nat
      BY HandlerFacts, Sizes, HandshakeAssumption DEF Ep
    <2> HIDE DEF e
    <2>3. e.qpn \in Block(h[k]) /\ e.qpn \in Reserved(k)
      BY <2>1, <2>2 DEF Block, Reserved
    <2>4. e.qpn \in Slot
      BY <2>3, BlockSlots
    <2>5. LinkedBack(k, h[k], e.qpn, r)
      BY <2>1, <2>3 DEF Blocks, OnBlock
    <2>6. Base(k) + (e.qpn - h[k].left) = i
      BY <2>1, <2>2
    <2> QED BY <2>1, <2>2, <2>4, <2>5, <2>6 DEF LinkedBack, e
  <1> QED BY <1>1, TypeCorrect, Exclusive, Conversing, Publishing,
             Establishing, PTL

(* In every run, the pool of an endpoint in use, of either side, exists    *)
(* and holds buffers of the process the endpoint is connected to.          *)
THEOREM PooledByPeer == Spec => []PoolsOfThePeer
  <1>1. (Blocks /\ ServerPools) /\ (Linking /\ Confirmed) => PoolsOfThePeer
    <2> SUFFICES ASSUME ServerPools, Linking
                 PROVE  PoolsOfThePeer
      OBVIOUS
    <2>1. ASSUME NEW c \in Clients, NEW i \in Ep(c), cEp[c][i].activated
          PROVE  Registered(cPools[c], cEp[c][i].mem, cEp[c][i].peer)
      <3>1. Linked(c, i, cEp[c][i], cPools[c], h, sEp)
        BY <2>1 DEF Linking, ClientLinking
      <3> QED BY <3>1 DEF Linked
    <2> QED BY <2>1 DEF ServerPools, PoolsOfThePeer
  <1> QED BY <1>1, Publishing, Establishing, PTL

(* In every run of Husky's main, a client that starts its datapath has     *)
(* every one of its endpoints connected.                                   *)
THEOREM Completed == Spec => []RunsComplete
  <1>1. (Linking /\ Confirmed) => RunsComplete
    BY DEF Linking, ClientLinking, Complete, RunsComplete
  <1> QED BY <1>1, Establishing, PTL

-----------------------------------------------------------------------------
(* The refinement of QpPairing. *)

LEMMA Division ==
  ASSUME NEW i \in Nat, NEW q \in Nat \ {0}
  PROVE  \E s \in Nat, j \in 0 .. (q - 1) : i = s * q + j
  <1> DEFINE s == i \div q
             j == i % q
  <1>1. s \in Int /\ j \in 0 .. (q - 1) /\ i = q * s + j
    OBVIOUS
  <1> HIDE DEF s, j
  <1>2. s >= 0
    BY <1>1
  <1>3. i = s * q + j
    BY <1>1
  <1> QED BY <1>1, <1>2, <1>3

(* The endpoints of a client are those it keeps for its servers. *)
LEMMA EndpointsByServer ==
  ASSUME NEW c \in Clients
  PROVE  Pairing!Ep(c) = Ep(c)
  <1>1. ASSUME NEW i \in Ep(c)
        PROVE  \E s \in Servers, j \in 0 .. (Qps[c] - 1) : i = s * Qps[c] + j
    <2> DEFINE q == Qps[c]
               n == NumServers
    <2>1. q \in Nat \ {0} /\ n \in Nat \ {0}
      BY HandshakeAssumption
    <2>2. i \in Nat /\ i < n * q
      BY <2>1, HandshakeAssumption DEF Ep
    <2> HIDE DEF q, n
    <2>3. PICK s \in Nat, j \in 0 .. (q - 1) : i = s * q + j
      BY <2>1, <2>2, Division
    <2>4. s < n
      <3> SUFFICES ASSUME s >= n PROVE FALSE
        BY <2>1
      <3>1. s * q >= n * q
        BY <2>1
      <3> QED BY <2>1, <2>2, <2>3, <3>1
    <2> QED BY <2>1, <2>3, <2>4 DEF q, n, Servers
  <1>2. \A s \in Servers, j \in 0 .. (Qps[c] - 1) : s * Qps[c] + j \in Ep(c)
    BY SlotsOfClient
  <1> QED BY <1>1, <1>2 DEF Pairing!Ep

(* What QpPairing sees of the endpoints of a client and of its handlers. *)
Linkage(c, row) ==
  [i \in Ep(c) |->
     IF row[i].activated THEN <<row[i].peer, row[i].qpn>> ELSE << >>]
Linkages(rows) == [c \in Clients |-> Linkage(c, rows[c])]
Granted(handlers) ==
  [k \in Conn |-> IF handlers[k].qps > 0 THEN handlers[k].left ELSE -1]

LEMMA PairingState ==
  /\ Pairing!vars = <<numOfRecv, Granted(h), Linkages(cEp)>>
  /\ Pairing!vars' = <<numOfRecv', Granted(h'), Linkages(cEp')>>
  BY DEF Pairing!vars, Granted, Linkages, Linkage

LEMMA InitPairs == Init => Pairing!Init
  <1> SUFFICES ASSUME Init PROVE Pairing!Init
    OBVIOUS
  <1>1. NewHandler.qps = 0 /\ NewClientEp.activated = FALSE
    BY DEF NewHandler, NewClientEp
  <1>2. Linkages(cEp) = [c \in Clients |-> [i \in Pairing!Ep(c) |-> << >>]]
    BY <1>1, EndpointsByServer DEF Init, Linkages, Linkage
  <1>3. Granted(h) = [k \in Pairing!Conn |-> -1]
    BY <1>1 DEF Init, Granted, Pairing!Conn, Conn
  <1> QED BY <1>2, <1>3
          DEF Init, Pairing!Init, Linkages, Linkage, Granted

(* A step that QpPairing does not see. *)
LEMMA PairingStutters ==
  ASSUME numOfRecv' = numOfRecv,
         \A k \in Conn : h'[k].left = h[k].left /\ h'[k].qps = h[k].qps,
         \A c \in Clients : \A i \in Ep(c) :
           /\ cEp'[c][i].activated = cEp[c][i].activated
           /\ cEp[c][i].activated => cEp'[c][i] = cEp[c][i]
  PROVE  UNCHANGED Pairing!vars
  <1>1. Granted(h') = Granted(h)
    BY DEF Granted
  <1>2. ASSUME NEW c \in Clients
        PROVE  Linkage(c, cEp'[c]) = Linkage(c, cEp[c])
    BY DEF Linkage
  <1>3. Linkages(cEp') = Linkages(cEp)
    BY <1>2 DEF Linkages
  <1> QED BY <1>1, <1>3, PairingState

(* The admission grants the block. *)
LEMMA AdmissionGrants ==
  ASSUME TypeOK, Wire, Wire', NEW k \in Conn, HandlerHost(k)
  PROVE  Pairing!Grant(k[1], k[2])
  <1> PICK n \in Nat \ {0} :
        /\ numOfRecv[k[2]] + n <= Capacity
        /\ numOfRecv' = [numOfRecv EXCEPT ![k[2]] = @ + n]
        /\ h'[k].left = numOfRecv[k[2]]
        /\ h'[k].qps = n
        /\ \A l \in Conn \ {k} : h'[l] = h[l]
    BY HostReserves
  <1>1. /\ h[k].pc = "host" /\ h'[k].pc \in {"mem", "push"} /\ cEp' = cEp
    BY DEF HandlerHost, SetHandler, TypeOK, HandlerType, clientVars
  <1>2. n = Qps[k[1]] /\ h[k].qps = 0 /\ <<k[1], k[2]>> = k
    BY <1>1, HandlerFacts, Sizes DEF HandlerSane, Admitted, Wire
  <1>3. Granted(h)[k] = -1
    BY <1>2 DEF Granted
  <1>4. Granted(h') = [Granted(h) EXCEPT ![k] = numOfRecv[k[2]]]
    <2>1. \A l \in Conn \ {k} : Granted(h')[l] = Granted(h)[l]
      BY DEF Granted
    <2>2. n > 0
      OBVIOUS
    <2>3. Granted(h')[k] = numOfRecv[k[2]]
      BY <2>2 DEF Granted
    <2>4. /\ Granted(h) = [l \in Conn |-> Granted(h)[l]]
          /\ Granted(h') = [l \in Conn |-> Granted(h')[l]]
      BY DEF Granted
    <2> QED BY <2>1, <2>3, <2>4
  <1>5. Linkages(cEp') = Linkages(cEp)
    BY <1>1
  <1> QED BY <1>2, <1>3, <1>4, <1>5
          DEF Pairing!Grant, Granted, Linkages, Linkage

(* A client that is through with a host links its endpoints for it. *)
LEMMA GoGoEstablishes ==
  ASSUME TypeOK, Wire, Linking, NEW c \in Clients, ClientGoGo(c),
         NEW s \in Servers, s = cl[c].connid
  PROVE  Pairing!Establish(c, s)
  <1> DEFINE x == cl[c]
             q == Qps[c]
             a == s * q
             b == (s + 1) * q
             row == cEp[c]
             next == cEp'[c]
  <1>1. /\ x.pc = "gogo" /\ s \in Servers /\ q \in Nat \ {0}
        /\ At(c) = <<c, s>> /\ At(c) \in Conn
        /\ row \in [Ep(c) -> ClientEpType] /\ DOMAIN cEp = Clients
        /\ ClientLinking(c, x, row, cPools[c], h, sEp)
        /\ Talking(At(c), x) /\ InStep(At(c), x, h[At(c)], sock[At(c)])
        /\ x.mem \in Nat \cup {-1}
    BY TalkingFacts, HandshakeAssumption
       DEF ClientGoGo, TypeOK, Linking, At, Talking, Reading, Expected,
           ClientType
  <1>2. /\ a \in Nat /\ b = a + q
        /\ \A i \in Ep(c) : i \in Nat
    BY <1>1, SlotsOfClient
  <1>3. MySlots(c) = Pairing!Mine(c, s)
    <2>1. ClientSlot(c, 0) = a + 0 /\ ClientSlot(c, q - 1) = a + (q - 1)
      BY DEF ClientSlot
    <2>2. Pairing!Mine(c, s) = a .. (b - 1)
      BY DEF Pairing!Mine
    <2>3. a + 0 = a /\ a + (q - 1) = b - 1
      <3> HIDE DEF a, b, q
      <3> QED BY <1>1, <1>2
    <2> QED BY <2>1, <2>2, <2>3 DEF MySlots
  <1>4. \A i \in Pairing!Mine(c, s) : Linkages(cEp)[c][i] = << >> /\ i \in Ep(c)
    <2> SUFFICES ASSUME NEW i \in Pairing!Mine(c, s)
                 PROVE  Linkages(cEp)[c][i] = << >> /\ i \in Ep(c)
      OBVIOUS
    <2>1. i \in a .. (b - 1)
      BY DEF Pairing!Mine
    <2>2. i = a + (i - a) /\ i - a \in 0 .. (q - 1) /\ ~ (i < a)
      <3> HIDE DEF a, b, q
      <3> QED BY <1>1, <1>2, <2>1
    <2>3. i \in Ep(c)
      BY <1>1, <2>2, SlotsOfClient
    <2>4. ~ row[i].activated
      BY <1>1, <2>2, <2>3 DEF ClientLinking, Behind
    <2> QED BY <2>3, <2>4 DEF Linkages, Linkage
  <1>5. h[At(c)].qps = q /\ h[At(c)].left \in Nat
    BY <1>1, HandlerFacts DEF InStep, At
  <1>6. Granted(h)[At(c)] = h[At(c)].left
    BY <1>1, <1>5 DEF Granted
  <1>7. \A i \in Ep(c) :
          next[i] = IF i \in MySlots(c)
                    THEN [row[i] EXCEPT !.activated = TRUE, !.mem = x.mem]
                    ELSE row[i]
    BY <1>1 DEF ClientGoGo
  <1>8. ASSUME NEW i \in Ep(c)
        PROVE  Linkage(c, next)[i] =
                 IF i \in Pairing!Mine(c, s)
                 THEN <<s, h[At(c)].left + (i - a)>>
                 ELSE Linkage(c, row)[i]
    <2>1. CASE i \notin MySlots(c)
      BY <1>3, <1>7, <2>1 DEF Linkage
    <2>2. CASE i \in MySlots(c)
      <3>1. i \in a .. (b - 1)
        BY <1>3, <2>2 DEF Pairing!Mine
      <3>2. i = a + (i - a) /\ i - a \in 0 .. (q - 1)
        <4> HIDE DEF a, b, q
        <4> QED BY <1>1, <1>2, <3>1
      <3>3. row[i].peer = s /\ row[i].qpn = h[At(c)].left + (i - a)
        BY <1>1, <3>2 DEF ClientLinking, Prepared
      <3>4. \A r \in ClientEpType :
              LET f == [r EXCEPT !.activated = TRUE, !.mem = x.mem]
              IN  f.activated /\ f.peer = r.peer /\ f.qpn = r.qpn
        BY <1>1 DEF ClientEpType
      <3>5. /\ next[i].activated /\ next[i].peer = row[i].peer
            /\ next[i].qpn = row[i].qpn
        <4>1. next[i] = [row[i] EXCEPT !.activated = TRUE, !.mem = x.mem]
          BY <1>7, <2>2
        <4>2. row[i] \in ClientEpType
          BY <1>1
        <4> HIDE DEF row, next
        <4> QED BY <3>4, <4>1, <4>2
      <3> HIDE DEF a, next
      <3> QED BY <1>3, <2>2, <3>3, <3>5 DEF Linkage
    <2> QED BY <2>1, <2>2
  <1>9. Linkage(c, next) =
          [i \in Pairing!Ep(c) |->
             IF i \in Pairing!Mine(c, s)
             THEN <<s, Granted(h)[<<c, s>>] + (i - a)>>
             ELSE Linkages(cEp)[c][i]]
    <2>1. Linkages(cEp)[c] = Linkage(c, row)
      BY DEF Linkages
    <2>2. Linkage(c, next) = [i \in Ep(c) |-> Linkage(c, next)[i]]
      BY DEF Linkage
    <2> HIDE DEF a, next, row
    <2> QED BY <1>1, <1>6, <1>8, <2>1, <2>2, EndpointsByServer
  <1>10. Linkages(cEp') = [Linkages(cEp) EXCEPT ![c] = Linkage(c, next)]
    <2>1. \A d \in Clients \ {c} : cEp'[d] = cEp[d]
      BY <1>1 DEF ClientGoGo
    <2> QED BY <2>1 DEF Linkages
  <1>11. h' = h /\ numOfRecv' = numOfRecv
    BY DEF ClientGoGo, serverVars
  <1>12. Granted(h)[<<c, s>>] # -1
    BY <1>1, <1>5, <1>6
  <1>13. \A i \in Pairing!Mine(c, s) : Linkages(cEp)[c][i] = << >>
    BY <1>4
  <1>14. Linkages(cEp') =
           [Linkages(cEp) EXCEPT ![c] = [i \in Pairing!Ep(c) |->
              IF i \in Pairing!Mine(c, s)
              THEN <<s, Granted(h)[<<c, s>>] + (i - a)>> ELSE @[i]]]
    <2> HIDE DEF a, next
    <2>1. c \in DOMAIN Linkages(cEp)
      BY DEF Linkages
    <2> QED BY <1>9, <1>10, <2>1
  <1> HIDE DEF x, row, next, b
  <1> QED BY <1>11, <1>12, <1>13, <1>14
          DEF Pairing!Establish, Granted, Linkages, Linkage

(* The client's process ends: all its links are gone. *)
LEMMA EndDrops ==
  ASSUME NEW c \in Clients, h' = h, numOfRecv' = numOfRecv,
         cEp'[c] = NoEndpoints(c), \A d \in Clients \ {c} : cEp'[d] = cEp[d]
  PROVE  Pairing!Drop(c)
  <1>1. Linkage(c, cEp'[c]) = [i \in Pairing!Ep(c) |-> << >>]
    BY EndpointsByServer DEF Linkage, NoEndpoints, NewClientEp
  <1>2. Linkages(cEp') = [Linkages(cEp) EXCEPT ![c] = Linkage(c, cEp'[c])]
    BY DEF Linkages
  <1> QED BY <1>1, <1>2 DEF Pairing!Drop, Linkages, Linkage

(* A Connect that failed: where the process ends with it, the links go;    *)
(* where it does not, there are none that change.                          *)
LEMMA FailureRefines ==
  ASSUME TypeOK, NEW c \in Clients, NEW eps, ConnectFailed(c, eps),
         h' = h, numOfRecv' = numOfRecv,
         \A i \in Ep(c) :
           /\ eps[i].activated = cEp[c][i].activated
           /\ cEp[c][i].activated => eps[i] = cEp[c][i]
  PROVE  Pairing!Drop(c) \/ UNCHANGED Pairing!vars
  <1>0. DOMAIN cEp = Clients
    BY DEF TypeOK
  <1>1. CASE ContinueOnFailure
    <2>1. cEp' = [cEp EXCEPT ![c] = eps]
      BY <1>1 DEF ConnectFailed
    <2>2. ASSUME NEW d \in Clients, NEW i \in Ep(d)
          PROVE  /\ cEp'[d][i].activated = cEp[d][i].activated
                 /\ cEp[d][i].activated => cEp'[d][i] = cEp[d][i]
      BY <1>0, <2>1
    <2> QED BY <2>2, PairingStutters
  <1>2. CASE ~ ContinueOnFailure
    <2>1. /\ cEp'[c] = NoEndpoints(c)
          /\ \A d \in Clients \ {c} : cEp'[d] = cEp[d]
      BY <1>0, <1>2 DEF ConnectFailed
    <2> QED BY <2>1, EndDrops
  <1> QED BY <1>1, <1>2

(* An endpoint that is being set up is not linked yet. *)
LEMMA SlotNotLinked ==
  ASSUME TypeOK, Wire, Linking, NEW c \in Clients, cl[c].pc = "chan",
         ClientSlot(c, cl[c].idx) \in Ep(c)
  PROVE  ~ cEp[c][ClientSlot(c, cl[c].idx)].activated
  <1> DEFINE a == cl[c].connid * Qps[c]
             j == cl[c].idx
             i == ClientSlot(c, cl[c].idx)
  <1>1. i = a + j /\ a \in Nat /\ j \in Nat
    BY TalkingFacts, SlotsOfClient DEF ClientSlot
  <1>2. ~ (i < a)
    <2> HIDE DEF i, a, j
    <2> QED BY <1>1
  <1> QED BY <1>2 DEF Linking, ClientLinking, Behind

LEMMA ClientRefines ==
  ASSUME TypeOK, Wire, Linking, [Next]_vars, NEW c \in Clients, ClientStep(c)
  PROVE  Pairing!Next \/ UNCHANGED Pairing!vars
  <1>0. /\ DOMAIN cEp = Clients /\ cEp[c] \in [Ep(c) -> ClientEpType]
        /\ cl[c].connid \in Servers
    BY AtConn DEF TypeOK
  <1>1. /\ numOfRecv' = numOfRecv
        /\ \A k \in Conn : h'[k].left = h[k].left /\ h'[k].qps = h[k].qps
    <2>1. CASE ClientHello(c)
      BY <2>1, AtConn DEF ClientHello, SetHandler, TypeOK, HandlerType
    <2>2. CASE ~ ClientHello(c)
      BY <2>2 DEF ClientStep, ClientRetry, ClientHost, ClientMem, ClientPool,
         ClientChan, ClientGoGo, ClientActivateFails, ClientOut, serverVars
    <2> QED BY <2>1, <2>2
  <1>2. CASE cEp' = cEp
    BY <1>1, <1>2, PairingStutters
  <1>3. CASE ClientChan(c)
    <2> DEFINE i == ClientSlot(c, cl[c].idx)
               n == Head(sock[At(c)].toC).qpn
               e == [cEp[c][i] EXCEPT !.qpn = n, !.peer = cl[c].gid]
    <2>1. cEp' = [cEp EXCEPT ![c][i] = e] /\ cl[c].pc = "chan"
      BY <1>3 DEF ClientChan, SetClientEp
    <2>2. i \in Ep(c) => ~ cEp[c][i].activated /\ ~ e.activated
      <3> SUFFICES ASSUME i \in Ep(c)
                   PROVE  ~ cEp[c][i].activated /\ ~ e.activated
        OBVIOUS
      <3>1. ~ cEp[c][i].activated /\ cEp[c][i] \in ClientEpType
        BY <1>0, <2>1, SlotNotLinked
      <3>2. \A r \in ClientEpType :
              [r EXCEPT !.qpn = n, !.peer = cl[c].gid].activated = r.activated
        BY DEF ClientEpType
      <3> HIDE DEF i, n
      <3> QED BY <3>1, <3>2
    <2>3. \A d \in Clients \ {c} : cEp'[d] = cEp[d]
      BY <1>0, <2>1
    <2>4. \A j \in Ep(c) : cEp'[c][j] = IF j = i THEN e ELSE cEp[c][j]
      <3> HIDE DEF i, e
      <3> QED BY <1>0, <2>1
    <2>5. \A d \in Clients : \A j \in Ep(d) :
            /\ cEp'[d][j].activated = cEp[d][j].activated
            /\ cEp[d][j].activated => cEp'[d][j] = cEp[d][j]
      <3>1. /\ \A r \in ClientEpType : r.activated \in BOOLEAN
            /\ \A j \in Ep(c) : cEp[c][j] \in ClientEpType
        BY <1>0 DEF ClientEpType
      <3>2. i \in Ep(c) => e.activated = cEp[c][i].activated
        <4> SUFFICES ASSUME i \in Ep(c)
                     PROVE  e.activated = cEp[c][i].activated
          OBVIOUS
        <4>1. \A r \in ClientEpType :
                [r EXCEPT !.qpn = n, !.peer = cl[c].gid].activated = r.activated
          BY DEF ClientEpType
        <4> HIDE DEF i, n
        <4> QED BY <3>1, <4>1
      <3> HIDE DEF i, e
      <3> QED BY <2>2, <2>3, <2>4, <3>2
    <2> QED BY <1>1, <2>5, PairingStutters
  <1>4. CASE ClientGoGo(c)
    <2> PICK s \in Servers : s = cl[c].connid
      BY <1>0
    <2>1. Pairing!Establish(c, s)
      BY <1>4, GoGoEstablishes
    <2> QED BY <2>1 DEF Pairing!Next
  <1>5. CASE ClientRetry(c) \/ ClientOut(c) \/ ClientActivateFails(c)
    <2>1. h' = h
      BY <1>5 DEF ClientRetry, ClientOut, ClientActivateFails, serverVars
    <2>2. CASE ConnectFailed(c, cEp[c])
      BY <1>1, <2>1, <2>2, FailureRefines DEF Pairing!Next
    <2>3. CASE ClientActivateFails(c)
      <3> DEFINE i == ClientSlot(c, cl[c].idx)
                 n == Head(sock[At(c)].toC).qpn
                 eps == [cEp[c] EXCEPT ![i].qpn = n]
      <3>1. ConnectFailed(c, eps) /\ cl[c].pc = "chan"
        BY <2>3 DEF ClientActivateFails
      <3>2. i \in Ep(c) => ~ cEp[c][i].activated
        BY <3>1, SlotNotLinked
      <3>3. ASSUME NEW j \in Ep(c)
            PROVE  /\ eps[j].activated = cEp[c][j].activated
                   /\ cEp[c][j].activated => eps[j] = cEp[c][j]
        <4>1. \A r \in ClientEpType :
                [r EXCEPT !.qpn = n].activated = r.activated
          BY DEF ClientEpType
        <4>2. j # i => eps[j] = cEp[c][j]
          BY <1>0
        <4>3. j = i => eps[j] = [cEp[c][i] EXCEPT !.qpn = n]
                         /\ cEp[c][i] \in ClientEpType
          BY <1>0
        <4> HIDE DEF eps, n, i
        <4> QED BY <3>2, <4>1, <4>2, <4>3
      <3> HIDE DEF eps
      <3> QED BY <1>1, <2>1, <3>1, <3>3, FailureRefines DEF Pairing!Next
    <2>4. CASE ClientRetry(c) /\ cEp' # cEp
      <3>1. ConnectFailed(c, cEp[c])
        BY <2>4 DEF ClientRetry
      <3> QED BY <2>2, <3>1
    <2>5. CASE ClientOut(c)
      <3>1. ConnectFailed(c, cEp[c])
        BY <2>5 DEF ClientOut
      <3> QED BY <2>2, <3>1
    <2> QED BY <1>2, <1>5, <2>3, <2>4, <2>5
  <1>6. CASE ClientHello(c) \/ ClientHost(c) \/ ClientMem(c) \/ ClientPool(c)
    BY <1>2, <1>6 DEF ClientHello, ClientHost, ClientMem, ClientPool
  <1> QED BY <1>3, <1>4, <1>5, <1>6 DEF ClientStep

LEMMA StepRefines ==
  ASSUME TypeOK, Wire, Wire', Linking, [Next]_vars
  PROVE  [Pairing!Next]_(Pairing!vars)
  <1>1. ASSUME NEW c \in Clients, ClientKilled(c)
        PROVE  Pairing!Next
    <2>1. /\ h' = h /\ numOfRecv' = numOfRecv /\ cEp'[c] = NoEndpoints(c)
          /\ \A d \in Clients \ {c} : cEp'[d] = cEp[d]
      BY <1>1 DEF ClientKilled, serverVars, TypeOK
    <2> QED BY <2>1, EndDrops DEF Pairing!Next
  <1>2. ASSUME NEW k \in Conn, HandlerHost(k)
        PROVE  Pairing!Next
    BY <1>2, AdmissionGrants, Sizes DEF Pairing!Next
  <1>3. CASE /\ \A k \in Conn : ~ HandlerHost(k)
             /\ \A c \in Clients : ~ ClientStep(c) /\ ~ ClientKilled(c)
    <2>1. /\ numOfRecv' = numOfRecv
          /\ \A k \in Conn : h'[k].left = h[k].left /\ h'[k].qps = h[k].qps
      BY <1>3, StepUnreserving DEF Unreserving
    <2>2. cEp' = cEp
      BY <1>3 DEF Next, StartListen, ServerExit, Accept, HandlerStep,
         HandlerReject, HandlerMem, HandlerPush, HandlerChan, HandlerActivate,
         HandlerFirstBatch, HandlerPublish, HandlerGoGo, HandlerOut, vars,
         clientVars
    <2> QED BY <2>1, <2>2, PairingStutters
  <1> QED BY <1>1, <1>2, <1>3, ClientRefines

(* The handshake implements its promise: every run, seen through what was  *)
(* reserved and what may send, is a run of QpPairing.                      *)
THEOREM Refines == Spec => ImplementsPairing
  <1>1. Init => Pairing!Init
    BY InitPairs
  <1>2. TypeOK /\ Wire /\ Wire' /\ (Linking /\ Confirmed) /\ [Next]_vars
          => [Pairing!Next]_(Pairing!vars)
    BY StepRefines
  <1> QED BY <1>1, <1>2, TypeCorrect, Conversing, Establishing, PTL
          DEF Spec, ImplementsPairing, Pairing!Spec

=============================================================================
