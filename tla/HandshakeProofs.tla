--------------------------- MODULE HandshakeProofs ---------------------------
(***************************************************************************)
(* Proofs about Handshake, for any clients, servers, sizes and depths.     *)
(***************************************************************************)
EXTENDS Handshake, TLAPS

-----------------------------------------------------------------------------
(* Messages and sockets. *)

(* The four kinds of connect_info are messages. *)
LEMMA MessageTypes ==
  ASSUME NEW n \in Nat, NEW m \in Nat, NEW g \in Procs \cup {Nobody},
         NEW o \in Procs
  PROVE  /\ HostMsg(n, m, g) \in Msg
         /\ MemMsg(o) \in Msg
         /\ ChanMsg(n) \in Msg
         /\ GoGoMsg \in Msg
         /\ RejectMsg \in Msg
  BY DEF Msg, HostMsg, MemMsg, ChanMsg, GoGoMsg, RejectMsg

(* What a message of a type carries. *)
LEMMA MessageFields ==
  ASSUME NEW m \in Msg
  PROVE  /\ m.type = "Host" => /\ m.qps \in Nat
                               /\ m.mems \in Nat
                               /\ m.gid \in Procs \cup {Nobody}
         /\ m.type = "Mem" => m.owner \in Procs
         /\ m.type = "Chan" => m.qpn \in Nat
  BY DEF Msg

(* The socket of the running Connect is one of the connections. *)
LEMMA AtConn ==
  ASSUME TypeOK, NEW c \in Clients
  PROVE  /\ At(c) \in Conn
         /\ cl[c].connid \in Servers
         /\ cl[c].connid \in Procs
         /\ cl[c] \in ClientType
         /\ sock[At(c)] \in SocketType
  BY DEF TypeOK, At, Conn, ClientType, Procs

LEMMA HandlerConn ==
  ASSUME TypeOK, NEW k \in Conn
  PROVE  /\ k[1] \in Clients
         /\ k[2] \in Servers
         /\ k[2] \in Procs
         /\ h[k] \in HandlerType
         /\ sock[k] \in SocketType
  BY DEF TypeOK, Conn, Procs

(* Reading takes a message off a queue of messages. *)
LEMMA QueueTypes ==
  ASSUME NEW x \in SocketType, NEW m \in Msg
  PROVE  /\ x.toC # << >> => Head(x.toC) \in Msg /\ Tail(x.toC) \in Seq(Msg)
         /\ x.toS # << >> => Head(x.toS) \in Msg /\ Tail(x.toS) \in Seq(Msg)
         /\ Append(x.toC, m) \in Seq(Msg)
         /\ Append(x.toS, m) \in Seq(Msg)
  <1>1. x.toC \in Seq(Msg) /\ x.toS \in Seq(Msg)
    BY DEF SocketType
  <1> QED BY <1>1

(* A record of the right type keeps the variable it is written to typed. *)
LEMMA SetTypes ==
  ASSUME TypeOK
  PROVE  /\ \A c \in Clients, r \in ClientType :
              SetClient(c, r) => cl' \in [Clients -> ClientType]
         /\ \A k \in Conn, r \in HandlerType :
              SetHandler(k, r) => h' \in [Conn -> HandlerType]
         /\ \A k \in Conn, r \in SocketType :
              SetSocket(k, r) => sock' \in [Conn -> SocketType]
  BY DEF TypeOK, SetClient, SetHandler, SetSocket

(* The same for an endpoint, whether or not the index is one of its array. *)
LEMMA SetServerEpType ==
  ASSUME TypeOK, NEW s \in Servers, NEW i \in Nat, NEW r,
         i \in Slot => r \in ServerEpType, SetServerEp(s, i, r)
  PROVE  sEp' \in [Servers -> [Slot -> ServerEpType]]
  BY DEF TypeOK, SetServerEp

ClientEpsType(eps) ==
  /\ DOMAIN eps = Clients
  /\ \A c \in Clients : eps[c] \in [Ep(c) -> ClientEpType]

LEMMA SetClientEpType ==
  ASSUME TypeOK, NEW c \in Clients, NEW i \in Nat, NEW r,
         i \in Ep(c) => r \in ClientEpType, SetClientEp(c, i, r)
  PROVE  ClientEpsType(cEp')
  BY DEF TypeOK, SetClientEp, ClientEpsType

LEMMA ClientReplyType ==
  ASSUME TypeOK, NEW c \in Clients, NEW m \in Msg,
         sock[At(c)].toC # << >>, ClientReplies(c, m)
  PROVE  sock' \in [Conn -> SocketType]
  <1> DEFINE r == [sock[At(c)] EXCEPT !.toC = Tail(@), !.toS = Append(@, m)]
  <1>1. /\ Tail(sock[At(c)].toC) \in Seq(Msg)
        /\ Append(sock[At(c)].toS, m) \in Seq(Msg)
        /\ sock[At(c)] \in SocketType
    BY AtConn, QueueTypes
  <1>2. r \in SocketType
    BY <1>1 DEF SocketType
  <1> QED BY <1>2, AtConn, SetTypes DEF ClientReplies

LEMMA HandlerReplyType ==
  ASSUME TypeOK, NEW k \in Conn, NEW m \in Msg, sock[k].toS # << >>,
         HandlerReplies(k, m) \/ HandlerRepliesAndCloses(k, m)
  PROVE  sock' \in [Conn -> SocketType]
  <1> DEFINE r == [sock[k] EXCEPT !.toS = Tail(@), !.toC = Append(@, m)]
             q == [sock[k] EXCEPT !.toS = Tail(@), !.toC = Append(@, m),
                                  !.sOpen = FALSE]
  <1>1. /\ Tail(sock[k].toS) \in Seq(Msg)
        /\ Append(sock[k].toC, m) \in Seq(Msg)
        /\ sock[k] \in SocketType
    BY HandlerConn, QueueTypes
  <1>2. r \in SocketType /\ q \in SocketType
    BY <1>1 DEF SocketType
  <1> QED BY <1>2, SetTypes DEF HandlerReplies, HandlerRepliesAndCloses

LEMMA CloseTypes ==
  ASSUME TypeOK
  PROVE  /\ \A c \in Clients :
              ClientCloses(c) => sock' \in [Conn -> SocketType]
         /\ \A k \in Conn :
              HandlerCloses(k) => sock' \in [Conn -> SocketType]
  <1>1. ASSUME NEW k \in Conn
        PROVE  /\ [sock[k] EXCEPT !.cOpen = FALSE] \in SocketType
               /\ [sock[k] EXCEPT !.sOpen = FALSE] \in SocketType
    BY HandlerConn DEF SocketType
  <1> QED BY <1>1, AtConn, SetTypes DEF ClientCloses, HandlerCloses

-----------------------------------------------------------------------------
(* Types. *)

LEMMA NewTypes ==
  /\ NewHandler \in HandlerType
  /\ NewServerEp \in ServerEpType
  /\ NewClientEp \in ClientEpType
  /\ NewSocket \in SocketType
  /\ \A i \in Servers : NewConnect(i) \in ClientType
  BY HandshakeAssumption
     DEF NewHandler, HandlerType, HandlerPc, NewServerEp, ServerEpType,
         NewClientEp, ClientEpType, NewSocket, SocketType, NewConnect,
         ClientType, ClientPc, Buffers

LEMMA InitTypeOK == Init => TypeOK
  <1> SUFFICES ASSUME Init PROVE TypeOK OBVIOUS
  <1>1. 0 \in Servers
    BY HandshakeAssumption DEF Servers
  <1> QED BY <1>1, NewTypes DEF Init, TypeOK, Buffers

(* What the client's record becomes when Connect returns. *)
LEMMA NextHostTypes ==
  ASSUME TypeOK, NEW c \in Clients
  PROVE  /\ NextHost(c) \in ClientType
         /\ Ended(c) \in ClientType
         /\ NoEndpoints(c) \in [Ep(c) -> ClientEpType]
  <1>1. cl[c] \in ClientType
    BY AtConn
  <1>2. [cl[c] EXCEPT !.pc = "run"] \in ClientType /\ Ended(c) \in ClientType
    BY <1>1 DEF ClientType, ClientPc, Ended
  <1>3. cl[c].connid + 1 < NumServers => cl[c].connid + 1 \in Servers
    BY <1>1, HandshakeAssumption DEF ClientType, Servers
  <1> QED BY <1>2, <1>3, NewTypes DEF NextHost, NoEndpoints

LEMMA ConnectFailedType ==
  ASSUME TypeOK, NEW c \in Clients, NEW eps \in [Ep(c) -> ClientEpType],
         ConnectFailed(c, eps)
  PROVE  cl' \in [Clients -> ClientType] /\ ClientEpsType(cEp')
  BY NextHostTypes, SetTypes DEF ConnectFailed, TypeOK, ClientEpsType

(* Updates of a record that keep its type. *)
LEMMA ClientRecords ==
  ASSUME NEW x \in ClientType
  PROVE  /\ \A p \in ClientPc : [x EXCEPT !.pc = p] \in ClientType
         /\ [x EXCEPT !.tries = @ + 1] \in ClientType
         /\ [x EXCEPT !.idx = @ + 1] \in ClientType
         /\ \A b \in Buffers :
              [x EXCEPT !.idx = @ + 1, !.bufs = b] \in ClientType
         /\ \A b \in Buffers, n \in Nat, p \in ClientPc :
              [x EXCEPT !.pc = p, !.idx = 0, !.bufs = b, !.mem = n]
                \in ClientType
  <1>1. /\ \A p \in ClientPc : [x EXCEPT !.pc = p] \in ClientType
        /\ [x EXCEPT !.tries = @ + 1] \in ClientType
        /\ [x EXCEPT !.idx = @ + 1] \in ClientType
    BY DEF ClientType
  <1>2. ASSUME NEW b \in Buffers
        PROVE  [x EXCEPT !.idx = @ + 1, !.bufs = b] \in ClientType
    <2>1. x.idx + 1 \in Nat
      BY DEF ClientType
    <2> DEFINE n == x.idx + 1
    <2> HIDE DEF n
    <2>2. [x EXCEPT !.idx = n, !.bufs = b] \in ClientType
      BY <2>1 DEF ClientType, n
    <2> QED BY <2>2 DEF n
  <1>3. ASSUME NEW b \in Buffers, NEW n \in Nat, NEW p \in ClientPc
        PROVE  [x EXCEPT !.pc = p, !.idx = 0, !.bufs = b, !.mem = n]
                 \in ClientType
    BY DEF ClientType
  <1> QED BY <1>1, <1>2, <1>3

LEMMA ClientEpRecords ==
  ASSUME NEW e \in ClientEpType, NEW q \in Nat, NEW n \in Nat \cup {-1},
         NEW g \in Procs \cup {Nobody}
  PROVE  /\ [e EXCEPT !.qpn = q] \in ClientEpType
         /\ [e EXCEPT !.qpn = q, !.peer = g] \in ClientEpType
         /\ [e EXCEPT !.activated = TRUE, !.mem = n] \in ClientEpType
  BY DEF ClientEpType

(* A step of a client keeps every variable typed. *)
LEMMA ClientTypes ==
  ASSUME TypeOK, NEW c \in Clients, ClientStep(c)
  PROVE  TypeOK'
  <1> DEFINE x == cl[c]
             y == sock[At(c)]
  <1>0. /\ x \in ClientType
        /\ y \in SocketType
        /\ At(c) \in Conn
        /\ h[At(c)] \in HandlerType
        /\ c \in Procs
        /\ GoGoMsg \in Msg
        /\ Qps[c] \in Nat \ {0}
        /\ \A i \in Nat : ClientSlot(c, i) \in Nat
    <2>1. At(c) \in Conn /\ x \in ClientType /\ y \in SocketType
      BY AtConn
    <2>2. Qps[c] \in Nat /\ x.connid \in Nat
      BY <2>1, HandshakeAssumption DEF ClientType, Servers
    <2>3. \A i \in Nat : ClientSlot(c, i) \in Nat
      BY <2>2 DEF ClientSlot
    <2>4. GoGoMsg \in Msg
      BY DEF GoGoMsg, Msg
    <2> QED BY <2>1, <2>3, <2>4, HandshakeAssumption DEF TypeOK, Procs
  <1>1. CASE ClientHello(c)
    <2>1. sock' \in [Conn -> SocketType]
      <3>1. HostMsg(Qps[c], BufNum, c) \in Msg
        BY <1>0, HandshakeAssumption, MessageTypes
      <3>2. <<HostMsg(Qps[c], BufNum, c)>> \in Seq(Msg) /\ << >> \in Seq(Msg)
        BY <3>1
      <3>3. [toS |-> <<HostMsg(Qps[c], BufNum, c)>>, toC |-> << >>,
             cOpen |-> TRUE, sOpen |-> TRUE] \in SocketType
        BY <3>2 DEF SocketType
      <3> QED BY <3>3, <1>0, <1>1, SetTypes DEF ClientHello
    <2>2. h' \in [Conn -> HandlerType]
      <3>1. [h[At(c)] EXCEPT !.pc = "backlog"] \in HandlerType
        BY <1>0 DEF HandlerType, HandlerPc
      <3> QED BY <3>1, <1>0, <1>1, SetTypes DEF ClientHello
    <2>3. cl' \in [Clients -> ClientType]
      <3>1. [x EXCEPT !.pc = "host"] \in ClientType
        BY <1>0 DEF ClientType, ClientPc, Reading, Expected
      <3> QED BY <3>1, <1>1, SetTypes DEF ClientHello
    <2> QED BY <2>1, <2>2, <2>3, <1>1 DEF ClientHello, TypeOK
  <1>2. CASE ClientRetry(c)
    <2>1. [x EXCEPT !.tries = @ + 1] \in ClientType
      BY <1>0 DEF ClientType
    <2>2. cEp[c] \in [Ep(c) -> ClientEpType] /\ ClientEpsType(cEp)
      BY DEF TypeOK, ClientEpsType
    <2>3. cl' \in [Clients -> ClientType] /\ ClientEpsType(cEp')
      BY <2>1, <2>2, <1>2, SetTypes, ConnectFailedType
         DEF ClientRetry, ClientEpsType
    <2> QED BY <2>3, <1>2 DEF ClientRetry, TypeOK, serverVars, ClientEpsType
  <1>3. CASE ClientHost(c)
    <2>1. Head(y.toC) \in Msg /\ y.toC # << >> /\ MemMsg(c) \in Msg
      BY <1>0, <1>3, QueueTypes, MessageTypes DEF ClientHost, ClientReads
    <2>2. Head(y.toC).gid \in Procs \cup {Nobody}
      BY <2>1, <1>3, MessageFields DEF ClientHost, ClientReads
    <2>3. [x EXCEPT !.pc = "mem", !.gid = Head(y.toC).gid] \in ClientType
      BY <2>2, <1>0 DEF ClientType, ClientPc, Reading, Expected
    <2>4. cl' \in [Clients -> ClientType]
      BY <2>3, <1>3, SetTypes DEF ClientHost
    <2>5. sock' \in [Conn -> SocketType]
      BY <2>1, <1>3, ClientReplyType DEF ClientHost
    <2> QED BY <2>4, <2>5, <1>3 DEF ClientHost, TypeOK, serverVars
  <1>4. CASE ClientMem(c) \/ ClientPool(c)
    <2> DEFINE bufs == Append(x.bufs, Head(y.toC).owner)
    <2>1. Head(y.toC) \in Msg /\ y.toC # << >> /\ Head(y.toC).type = "Mem"
      BY <1>0, <1>4, QueueTypes DEF ClientMem, ClientPool, ClientReads
    <2>2. bufs \in Buffers
      <3>1. Head(y.toC).owner \in Procs
        BY <2>1, MessageFields
      <3>2. x.bufs \in Buffers
        BY <1>0 DEF ClientType
      <3> QED BY <3>1, <3>2 DEF Buffers
    <2>3. Len(cPools[c]) \in Nat /\ Append(cPools[c], bufs) \in Seq(Buffers)
      BY <2>2 DEF TypeOK
    <2>4. [x EXCEPT !.idx = @ + 1, !.bufs = bufs] \in ClientType
      <3> HIDE DEF x, bufs
      <3> QED BY <2>2, <1>0, ClientRecords
    <2>5. [x EXCEPT !.pc = "chan", !.idx = 0, !.bufs = bufs,
                    !.mem = Len(cPools[c])] \in ClientType
      <3> "chan" \in ClientPc
        BY DEF ClientPc, Reading, Expected
      <3> HIDE DEF x, bufs
      <3> QED BY <2>2, <2>3, <1>0, ClientRecords
    <2>6. cl' \in [Clients -> ClientType]
      BY <2>4, <2>5, <1>4, SetTypes DEF ClientMem, ClientPool
    <2>7. cPools' \in [Clients -> Seq(Buffers)]
      BY <2>3, <1>4 DEF ClientMem, ClientPool, TypeOK
    <2>8. sock' \in [Conn -> SocketType]
      <3>1. MemMsg(c) \in Msg /\ ChanMsg(ClientSlot(c, 0)) \in Msg
        BY <1>0, MessageTypes
      <3> QED BY <3>1, <2>1, <1>4, ClientReplyType DEF ClientMem, ClientPool
    <2> QED BY <2>6, <2>7, <2>8, <1>4
            DEF ClientMem, ClientPool, TypeOK, serverVars
  <1>5. CASE ClientChan(c)
    <2> DEFINE i == ClientSlot(c, x.idx)
               r == [cEp[c][i] EXCEPT !.qpn = Head(y.toC).qpn, !.peer = x.gid]
    <2>1. Head(y.toC) \in Msg /\ y.toC # << >> /\ Head(y.toC).type = "Chan"
      BY <1>0, <1>5, QueueTypes DEF ClientChan, ClientReads
    <2>2. Head(y.toC).qpn \in Nat
      BY <2>1, MessageFields
    <2>3. x.idx \in Nat /\ x.idx + 1 \in Nat /\ x.gid \in Procs \cup {Nobody}
      BY <1>0 DEF ClientType
    <2>4. i \in Ep(c) => r \in ClientEpType
      <3>1. i \in Ep(c) => cEp[c][i] \in ClientEpType
        BY DEF TypeOK
      <3> QED BY <3>1, <2>2, <2>3, ClientEpRecords
    <2>5. ClientEpsType(cEp')
      <3>1. SetClientEp(c, i, r) /\ i \in Nat
        BY <1>0, <2>3, <1>5 DEF ClientChan
      <3> HIDE DEF i, r
      <3> QED BY <3>1, <2>4, SetClientEpType
    <2>6. cl' \in [Clients -> ClientType]
      <3>1. /\ [x EXCEPT !.idx = @ + 1] \in ClientType
            /\ [x EXCEPT !.pc = "gogo"] \in ClientType
        BY <1>0 DEF ClientType, ClientPc, Reading, Expected
      <3> QED BY <3>1, <1>5, SetTypes DEF ClientChan, ClientNextQp
    <2>7. sock' \in [Conn -> SocketType]
      <3>1. ChanMsg(ClientSlot(c, x.idx + 1)) \in Msg /\ GoGoMsg \in Msg
        BY <1>0, <2>3, MessageTypes
      <3> QED BY <3>1, <2>1, <1>5, ClientReplyType DEF ClientChan, ClientNextQp
    <2> QED BY <2>5, <2>6, <2>7, <1>5
            DEF ClientChan, TypeOK, serverVars, ClientEpsType
  <1>6. CASE ClientGoGo(c)
    <2>1. ClientEpsType(cEp')
      <3>0. TypeOK
        OBVIOUS
      <3>1. ASSUME NEW i \in Ep(c)
            PROVE  /\ cEp[c][i] \in ClientEpType
                   /\ [cEp[c][i] EXCEPT !.activated = TRUE, !.mem = x.mem]
                        \in ClientEpType
        <4>1. cEp[c][i] \in ClientEpType /\ x.mem \in Nat \cup {-1}
          BY <1>0, <3>0 DEF TypeOK, ClientType
        <4> QED BY <4>1, ClientEpRecords
      <3> QED BY <3>1, <1>6 DEF ClientGoGo, TypeOK, ClientEpsType
    <2>2. cl' \in [Clients -> ClientType]
      BY <1>6, NextHostTypes, SetTypes DEF ClientGoGo
    <2>3. sock' \in [Conn -> SocketType]
      <3>1. Tail(y.toC) \in Seq(Msg)
        BY <1>0, <1>6, QueueTypes, MessageTypes DEF ClientGoGo, ClientReads
      <3>2. [y EXCEPT !.toC = Tail(@), !.cOpen = FALSE] \in SocketType
        BY <3>1, <1>0 DEF SocketType
      <3> QED BY <3>2, <1>0, <1>6, SetTypes DEF ClientGoGo
    <2> QED BY <2>1, <2>2, <2>3, <1>6
            DEF ClientGoGo, TypeOK, serverVars, ClientEpsType
  <1>7. CASE ClientActivateFails(c)
    <2> DEFINE i == ClientSlot(c, x.idx)
               eps == [cEp[c] EXCEPT ![i].qpn = Head(y.toC).qpn]
    <2>1. Head(y.toC) \in Msg /\ Head(y.toC).type = "Chan"
      BY <1>0, <1>7, QueueTypes, MessageTypes
         DEF ClientActivateFails, ClientReads
    <2>2. eps \in [Ep(c) -> ClientEpType]
      <3>1. Head(y.toC).qpn \in Nat
        BY <2>1, MessageFields
      <3>2. cEp[c] \in [Ep(c) -> ClientEpType]
        BY DEF TypeOK
      <3>3. i \in Ep(c) =>
              [cEp[c][i] EXCEPT !.qpn = Head(y.toC).qpn] \in ClientEpType
        BY <3>1, <3>2, ClientEpRecords
      <3> HIDE DEF y, i
      <3> QED BY <3>2, <3>3
    <2>3. cl' \in [Clients -> ClientType] /\ ClientEpsType(cEp')
      BY <2>2, <1>7, ConnectFailedType DEF ClientActivateFails
    <2>4. sock' \in [Conn -> SocketType]
      BY <1>7, CloseTypes DEF ClientActivateFails
    <2> QED BY <2>3, <2>4, <1>7
            DEF ClientActivateFails, TypeOK, serverVars, ClientEpsType
  <1>8. CASE ClientOut(c)
    <2>1. cEp[c] \in [Ep(c) -> ClientEpType]
      BY DEF TypeOK
    <2>2. cl' \in [Clients -> ClientType] /\ ClientEpsType(cEp')
      BY <2>1, <1>8, ConnectFailedType DEF ClientOut
    <2>3. sock' \in [Conn -> SocketType]
      BY <1>8, CloseTypes DEF ClientOut
    <2> QED BY <2>2, <2>3, <1>8
            DEF ClientOut, TypeOK, serverVars, ClientEpsType
  <1> QED BY <1>1, <1>2, <1>3, <1>4, <1>5, <1>6, <1>7, <1>8 DEF ClientStep

LEMMA HandlerRecords ==
  ASSUME NEW x \in HandlerType
  PROVE  /\ \A p \in HandlerPc : [x EXCEPT !.pc = p] \in HandlerType
         /\ \A p \in HandlerPc, l \in Nat, n \in Nat, m \in Nat,
              g \in Procs \cup {Nobody} :
              [x EXCEPT !.pc = p, !.left = l, !.qps = n, !.mems = m, !.gid = g]
                \in HandlerType
         /\ \A p \in HandlerPc, b \in Buffers :
              [x EXCEPT !.bufs = b, !.pc = p, !.idx = @ + 1] \in HandlerType
         /\ \A p \in HandlerPc, n \in Nat, i \in Nat :
              [x EXCEPT !.pc = p, !.mem = n, !.idx = i] \in HandlerType
         /\ \A p \in HandlerPc, n \in Nat :
              [x EXCEPT !.pc = p, !.first = n] \in HandlerType
         /\ \A p \in HandlerPc, n \in Nat :
              [x EXCEPT !.first = n, !.pc = p] \in HandlerType
         /\ \A p \in HandlerPc :
              [x EXCEPT !.idx = @ + 1, !.pc = p] \in HandlerType
  <1>1. \A p \in HandlerPc : [x EXCEPT !.pc = p] \in HandlerType
    BY DEF HandlerType
  <1>2. ASSUME NEW p \in HandlerPc, NEW l \in Nat, NEW n \in Nat,
               NEW m \in Nat, NEW g \in Procs \cup {Nobody}
        PROVE  [x EXCEPT !.pc = p, !.left = l, !.qps = n, !.mems = m,
                         !.gid = g] \in HandlerType
    BY DEF HandlerType
  <1> DEFINE j == x.idx + 1
  <1>3. j \in Nat
    BY DEF HandlerType
  <1> HIDE DEF j
  <1>4. ASSUME NEW p \in HandlerPc, NEW b \in Buffers
        PROVE  [x EXCEPT !.bufs = b, !.pc = p, !.idx = j] \in HandlerType
    BY <1>3 DEF HandlerType
  <1>5. ASSUME NEW p \in HandlerPc, NEW n \in Nat, NEW i \in Nat
        PROVE  [x EXCEPT !.pc = p, !.mem = n, !.idx = i] \in HandlerType
    BY DEF HandlerType
  <1>6. ASSUME NEW p \in HandlerPc, NEW n \in Nat
        PROVE  /\ [x EXCEPT !.pc = p, !.first = n] \in HandlerType
               /\ [x EXCEPT !.first = n, !.pc = p] \in HandlerType
    BY DEF HandlerType
  <1>7. ASSUME NEW p \in HandlerPc
        PROVE  [x EXCEPT !.idx = j, !.pc = p] \in HandlerType
    BY <1>3 DEF HandlerType
  <1> QED BY <1>1, <1>2, <1>4, <1>5, <1>6, <1>7 DEF j

LEMMA ServerEpRecords ==
  ASSUME NEW e \in ServerEpType
  PROVE  /\ \A q \in Nat : [e EXCEPT !.qpn = q] \in ServerEpType
         /\ \A g \in Procs \cup {Nobody} :
              [e EXCEPT !.peer = g] \in ServerEpType
         /\ \A n \in 0 .. RecvDepth :
              [e EXCEPT !.credits = n] \in ServerEpType
         /\ \A n \in Nat \cup {-1} :
              [e EXCEPT !.activated = TRUE, !.mem = n] \in ServerEpType
  BY DEF ServerEpType

(* A step of a handler keeps every variable typed. *)
LEMMA HandlerTypes ==
  ASSUME TypeOK, NEW k \in Conn, HandlerStep(k)
  PROVE  TypeOK'
  <1> DEFINE x == h[k]
             y == sock[k]
             e == Current(k)
             m == Head(y.toS)
  <1>0. /\ x \in HandlerType
        /\ y \in SocketType
        /\ k[2] \in Servers /\ k[2] \in Procs
        /\ x.left \in Nat /\ x.qps \in Nat /\ x.idx \in Nat /\ x.first \in Nat
        /\ x.mem \in Nat \cup {-1} /\ x.gid \in Procs \cup {Nobody}
        /\ x.bufs \in Buffers
        /\ x.idx \in Slot => e \in ServerEpType
        /\ RecvDepth \in Nat /\ RecvBatch \in Nat
        /\ GoGoMsg \in Msg /\ RejectMsg \in Msg
    <2>1. /\ x \in HandlerType /\ y \in SocketType
          /\ k[2] \in Servers /\ k[2] \in Procs
      BY HandlerConn
    <2>2. /\ x.left \in Nat /\ x.qps \in Nat /\ x.idx \in Nat
          /\ x.first \in Nat /\ x.mem \in Nat \cup {-1}
          /\ x.gid \in Procs \cup {Nobody} /\ x.bufs \in Buffers
      BY <2>1 DEF HandlerType
    <2>3. x.idx \in Slot => e \in ServerEpType
      BY <2>1 DEF TypeOK, Current
    <2>4. GoGoMsg \in Msg /\ RejectMsg \in Msg
      BY DEF GoGoMsg, RejectMsg, HostMsg, Msg
    <2> QED BY <2>1, <2>2, <2>3, <2>4, HandshakeAssumption
  <1>p. /\ "mem" \in HandlerPc /\ "push" \in HandlerPc
        /\ "chan" \in HandlerPc /\ "activate" \in HandlerPc
        /\ "first" \in HandlerPc /\ "publish" \in HandlerPc
        /\ "gogo" \in HandlerPc /\ "done" \in HandlerPc
        /\ "failed" \in HandlerPc
    BY DEF HandlerPc, Reading, Expected
  <1>m. y.toS # << >> => m \in Msg
    BY <1>0, QueueTypes
  <1> HIDE DEF x, y, e, m
  <1>1. CASE HandlerHost(k)
    <2>1. /\ m \in Msg /\ y.toS # << >> /\ m.qps \in Nat /\ m.mems \in Nat
          /\ m.gid \in Procs \cup {Nobody}
      BY <1>1, <1>m, MessageFields DEF HandlerHost, HandlerReads, m, y
    <2>2. numOfRecv' \in [Servers -> Nat] /\ numOfRecv[k[2]] \in Nat
      BY <2>1, <1>0, <1>1 DEF HandlerHost, Reserve, TypeOK, m, y
    <2>3. h' \in [Conn -> HandlerType]
      <3> DEFINE p == IF m.mems > 0 THEN "mem" ELSE "push"
      <3>1. SetHandler(k, [x EXCEPT !.pc = p, !.left = numOfRecv[k[2]],
                             !.qps = m.qps, !.mems = m.mems, !.gid = m.gid])
        BY <1>1 DEF HandlerHost, m, y, x
      <3>2. p \in HandlerPc
        BY <1>p
      <3> HIDE DEF p
      <3> QED BY <3>1, <3>2, <2>1, <2>2, <1>0, HandlerRecords, SetTypes
    <2>4. sock' \in [Conn -> SocketType]
      <3>1. HostMsg(m.qps, 0, k[2]) \in Msg
        BY <2>1, <1>0, MessageTypes
      <3> QED BY <3>1, <2>1, <1>1, HandlerReplyType DEF HandlerHost, m, y
    <2> QED BY <2>2, <2>3, <2>4, <1>1 DEF HandlerHost, TypeOK, clientVars
  <1>2. CASE HandlerReject(k)
    <2>1. h' \in [Conn -> HandlerType]
      BY <1>0, <1>p, <1>2, HandlerRecords, SetTypes DEF HandlerReject, x
    <2>2. sock' \in [Conn -> SocketType]
      BY <1>0, <1>2, HandlerReplyType DEF HandlerReject, HandlerReads
    <2> QED BY <2>1, <2>2, <1>2 DEF HandlerReject, TypeOK, clientVars
  <1>3. CASE HandlerMem(k)
    <2>1. m \in Msg /\ y.toS # << >> /\ m.owner \in Procs
      BY <1>3, <1>m, MessageFields DEF HandlerMem, HandlerReads, m, y
    <2>2. h' \in [Conn -> HandlerType]
      <3> DEFINE p == IF x.idx + 1 < x.mems THEN "mem" ELSE "push"
                 b == Append(x.bufs, m.owner)
      <3>1. SetHandler(k, [x EXCEPT !.bufs = b, !.pc = p, !.idx = @ + 1])
        BY <1>3 DEF HandlerMem, m, y, x
      <3>2. p \in HandlerPc /\ b \in Buffers
        BY <1>p, <1>0, <2>1 DEF Buffers
      <3> HIDE DEF p, b
      <3> QED BY <3>1, <3>2, <1>0, HandlerRecords, SetTypes
    <2>3. sock' \in [Conn -> SocketType]
      <3>1. MemMsg(k[2]) \in Msg
        BY <1>0 DEF MemMsg, Msg
      <3> QED BY <3>1, <2>1, <1>3, HandlerReplyType DEF HandlerMem, y
    <2> QED BY <2>2, <2>3, <1>3 DEF HandlerMem, TypeOK, clientVars
  <1>4. CASE HandlerPush(k)
    <2>1. /\ sPools' \in [Servers -> Seq(Buffers)]
          /\ Len(sPools[k[2]]) \in Nat
      BY <1>0, <1>4 DEF HandlerPush, TypeOK, x
    <2>2. h' \in [Conn -> HandlerType]
      <3>1. [x EXCEPT !.pc = "chan", !.mem = Len(sPools[k[2]]), !.idx = x.left]
              \in HandlerType
        BY <2>1, <1>0, <1>p, HandlerRecords
      <3> QED BY <3>1, <1>4, SetTypes DEF HandlerPush, x
    <2> QED BY <2>1, <2>2, <1>4 DEF HandlerPush, TypeOK, clientVars
  <1>5. CASE HandlerChan(k)
    <2>1. m \in Msg /\ y.toS # << >> /\ m.qpn \in Nat
      BY <1>5, <1>m, MessageFields DEF HandlerChan, HandlerReads, m, y
    <2>2. sEp' \in [Servers -> [Slot -> ServerEpType]]
      <3>1. SetServerEp(k[2], x.idx, [e EXCEPT !.qpn = m.qpn])
        BY <1>5 DEF HandlerChan, SetCurrent, e, m, x, y
      <3>2. x.idx \in Slot => [e EXCEPT !.qpn = m.qpn] \in ServerEpType
        BY <2>1, <1>0, ServerEpRecords
      <3> QED BY <3>1, <3>2, <1>0, SetServerEpType
    <2>3. h' \in [Conn -> HandlerType]
      BY <1>0, <1>p, <1>5, HandlerRecords, SetTypes DEF HandlerChan, x
    <2>4. sock' \in [Conn -> SocketType]
      <3>1. ChanMsg(x.idx) \in Msg
        BY <1>0 DEF ChanMsg, Msg
      <3> QED BY <3>1, <2>1, <1>5, HandlerReplyType DEF HandlerChan, x, y
    <2> QED BY <2>2, <2>3, <2>4, <1>5 DEF HandlerChan, TypeOK, clientVars
  <1>6. CASE HandlerActivate(k)
    <2>1. sEp' \in [Servers -> [Slot -> ServerEpType]]
      <3>1. SetServerEp(k[2], x.idx, [e EXCEPT !.peer = x.gid])
        BY <1>6 DEF HandlerActivate, SetCurrent, e, x
      <3>2. x.idx \in Slot => [e EXCEPT !.peer = x.gid] \in ServerEpType
        BY <1>0, ServerEpRecords
      <3> QED BY <3>1, <3>2, <1>0, SetServerEpType
    <2>2. h' \in [Conn -> HandlerType]
      BY <1>0, <1>p, <1>6, HandlerRecords, SetTypes DEF HandlerActivate, x
    <2> QED BY <2>1, <2>2, <1>6 DEF HandlerActivate, TypeOK, clientVars
  <1>7. CASE HandlerFirstBatch(k)
    <2> DEFINE n == AtMost(x.first, RecvBatch)
    <2>1. n \in Nat /\ x.first - n \in Nat
      BY <1>0 DEF AtMost
    <2> HIDE DEF n
    <2>2. /\ e.credits - n >= 0
          /\ SetServerEp(k[2], x.idx, [e EXCEPT !.credits = e.credits - n])
      BY <1>7 DEF HandlerFirstBatch, SetCurrent, e, x, n
    <2>3. sEp' \in [Servers -> [Slot -> ServerEpType]]
      <3>1. x.idx \in Slot => e.credits - n \in 0 .. RecvDepth
        <4> SUFFICES ASSUME x.idx \in Slot
                     PROVE  e.credits - n \in 0 .. RecvDepth
          OBVIOUS
        <4>1. e.credits \in 0 .. RecvDepth
          BY <1>0 DEF ServerEpType
        <4> QED BY <4>1, <2>1, <2>2, <1>0
      <3>2. x.idx \in Slot =>
              [e EXCEPT !.credits = e.credits - n] \in ServerEpType
        BY <3>1, <1>0, ServerEpRecords
      <3> QED BY <3>2, <2>2, <1>0, SetServerEpType
    <2>4. h' \in [Conn -> HandlerType]
      <3> DEFINE p == IF e.credits - n > 0 THEN "first" ELSE "publish"
      <3>1. SetHandler(k, [x EXCEPT !.first = x.first - n, !.pc = p])
        BY <1>7 DEF HandlerFirstBatch, e, x, n
      <3>2. p \in HandlerPc
        BY <1>p
      <3> HIDE DEF p
      <3> QED BY <3>1, <3>2, <2>1, <1>0, HandlerRecords, SetTypes
    <2> QED BY <2>3, <2>4, <1>7 DEF HandlerFirstBatch, TypeOK, clientVars
  <1>8. CASE HandlerPublish(k)
    <2>1. sEp' \in [Servers -> [Slot -> ServerEpType]]
      <3>1. SetServerEp(k[2], x.idx,
                        [e EXCEPT !.activated = TRUE, !.mem = x.mem])
        BY <1>8 DEF HandlerPublish, SetCurrent, e, x
      <3>2. x.idx \in Slot =>
              [e EXCEPT !.activated = TRUE, !.mem = x.mem] \in ServerEpType
        BY <1>0, ServerEpRecords
      <3> QED BY <3>1, <3>2, <1>0, SetServerEpType
    <2>2. h' \in [Conn -> HandlerType]
      <3> DEFINE p == IF x.idx + 1 < x.left + x.qps THEN "chan" ELSE "gogo"
      <3>1. SetHandler(k, [x EXCEPT !.idx = @ + 1, !.pc = p])
        BY <1>8 DEF HandlerPublish, x
      <3>2. p \in HandlerPc
        BY <1>p
      <3> HIDE DEF p
      <3> QED BY <3>1, <3>2, <1>0, HandlerRecords, SetTypes
    <2> QED BY <2>1, <2>2, <1>8 DEF HandlerPublish, TypeOK, clientVars
  <1>9. CASE HandlerGoGo(k)
    <2>1. h' \in [Conn -> HandlerType]
      BY <1>0, <1>p, <1>9, HandlerRecords, SetTypes DEF HandlerGoGo, x
    <2>2. sock' \in [Conn -> SocketType]
      BY <1>0, <1>9, HandlerReplyType DEF HandlerGoGo, HandlerReads
    <2> QED BY <2>1, <2>2, <1>9 DEF HandlerGoGo, TypeOK, clientVars
  <1>10. CASE HandlerOut(k)
    <2>1. h' \in [Conn -> HandlerType]
      BY <1>0, <1>p, <1>10, HandlerRecords, SetTypes DEF HandlerOut, x
    <2>2. sock' \in [Conn -> SocketType]
      BY <1>10, CloseTypes DEF HandlerOut
    <2> QED BY <2>1, <2>2, <1>10 DEF HandlerOut, TypeOK, clientVars
  <1> QED BY <1>1, <1>2, <1>3, <1>4, <1>5, <1>6, <1>7, <1>8, <1>9, <1>10
          DEF HandlerStep

(* So do the end of a process, a server that starts, and an accept(). *)
LEMMA ProcessTypes ==
  ASSUME TypeOK,
         \/ \E c \in Clients : ClientKilled(c)
         \/ \E s \in Servers : StartListen(s) \/ ServerExit(s)
         \/ \E k \in Conn : Accept(k)
  PROVE  TypeOK'
  <1>p. /\ "failed" \in HandlerPc /\ "host" \in HandlerPc
        /\ "listening" \in {"starting", "listening", "exited"}
    BY DEF HandlerPc, Reading, Expected
  <1>s. ASSUME NEW k \in Conn
        PROVE  /\ [sock[k] EXCEPT !.cOpen = FALSE] \in SocketType
               /\ [sock[k] EXCEPT !.sOpen = FALSE] \in SocketType
               /\ [h[k] EXCEPT !.pc = "failed"] \in HandlerType
               /\ [h[k] EXCEPT !.pc = "host"] \in HandlerType
               /\ h[k] \in HandlerType /\ sock[k] \in SocketType
    <2>1. /\ [sock[k] EXCEPT !.cOpen = FALSE] \in SocketType
          /\ [sock[k] EXCEPT !.sOpen = FALSE] \in SocketType
      BY HandlerConn DEF SocketType
    <2> QED BY <2>1, <1>p, HandlerConn, HandlerRecords
  <1>1. CASE \E c \in Clients : ClientKilled(c)
    <2> PICK c \in Clients : ClientKilled(c)
      BY <1>1
    <2>1. cl' \in [Clients -> ClientType]
      BY NextHostTypes, SetTypes DEF ClientKilled
    <2>2. sock' \in [Conn -> SocketType]
      BY <1>s DEF ClientKilled
    <2>3. ClientEpsType(cEp')
      BY NextHostTypes DEF ClientKilled, TypeOK, ClientEpsType
    <2> QED BY <2>1, <2>2, <2>3
            DEF ClientKilled, TypeOK, serverVars, ClientEpsType
  <1>2. CASE \E s \in Servers : StartListen(s)
    BY <1>2, <1>p DEF StartListen, TypeOK, clientVars
  <1>3. CASE \E s \in Servers : ServerExit(s)
    <2> PICK s \in Servers : ServerExit(s)
      BY <1>3
    <2>1. h' \in [Conn -> HandlerType] /\ sock' \in [Conn -> SocketType]
      BY <1>s DEF ServerExit
    <2> QED BY <2>1 DEF ServerExit, TypeOK, clientVars
  <1>4. CASE \E k \in Conn : Accept(k)
    <2> PICK k \in Conn : Accept(k)
      BY <1>4
    <2>1. h' \in [Conn -> HandlerType]
      BY <1>s, SetTypes DEF Accept
    <2> QED BY <2>1 DEF Accept, TypeOK, clientVars
  <1> QED BY <1>1, <1>2, <1>3, <1>4

(* Every variable keeps its type in every run of the handshake. *)
THEOREM TypeCorrect == Spec => []TypeOK
  <1>1. Init => TypeOK
    BY InitTypeOK
  <1>2. TypeOK /\ [Next]_vars => TypeOK'
    <2> SUFFICES ASSUME TypeOK, [Next]_vars PROVE TypeOK'
      OBVIOUS
    <2>1. CASE \E c \in Clients : ClientStep(c)
      BY <2>1, ClientTypes
    <2>2. CASE \E k \in Conn : HandlerStep(k)
      BY <2>2, HandlerTypes
    <2>3. CASE \/ \E c \in Clients : ClientKilled(c)
               \/ \E s \in Servers : StartListen(s) \/ ServerExit(s)
               \/ \E k \in Conn : Accept(k)
      BY <2>3, ProcessTypes
    <2>4. CASE UNCHANGED vars
      BY <2>4 DEF vars, TypeOK
    <2> QED BY <2>1, <2>2, <2>3, <2>4 DEF Next
  <1> QED BY <1>1, <1>2, PTL DEF Spec

-----------------------------------------------------------------------------
(* Reservations. *)

(* All but the admission of a client leave what every handler reserved.    *)
Unreserving ==
  /\ numOfRecv' = numOfRecv
  /\ \A k \in Conn : h'[k].left = h[k].left /\ h'[k].qps = h[k].qps

LEMMA StepUnreserving ==
  ASSUME TypeOK, [Next]_vars, \A k \in Conn : ~ HandlerHost(k)
  PROVE  Unreserving
  <1>h. \A k \in Conn : h[k] \in HandlerType
    BY DEF TypeOK
  <1>d. DOMAIN h = Conn
    BY DEF TypeOK
  <1>1. CASE \E c \in Clients : ClientStep(c) \/ ClientKilled(c)
    <2> PICK c \in Clients : ClientStep(c) \/ ClientKilled(c)
      BY <1>1
    <2>1. CASE ClientHello(c)
      BY <2>1, <1>h, <1>d, AtConn
         DEF ClientHello, SetHandler, HandlerType, Unreserving
    <2>2. CASE ~ ClientHello(c)
      <3>1. numOfRecv' = numOfRecv /\ h' = h
        BY <2>2 DEF ClientStep, ClientRetry, ClientHost, ClientMem,
           ClientPool, ClientChan, ClientGoGo, ClientActivateFails,
           ClientOut, ClientKilled, serverVars
      <3> QED BY <3>1 DEF Unreserving
    <2> QED BY <2>1, <2>2
  <1>2. CASE \E s \in Servers : StartListen(s) \/ ServerExit(s)
    BY <1>2, <1>h, <1>d DEF StartListen, ServerExit, HandlerType, Unreserving
  <1>3. CASE \E k \in Conn : Accept(k) \/ HandlerStep(k)
    <2> PICK k \in Conn : Accept(k) \/ HandlerStep(k)
      BY <1>3
    <2>1. /\ numOfRecv' = numOfRecv
          /\ h'[k].left = h[k].left /\ h'[k].qps = h[k].qps
          /\ \A l \in Conn \ {k} : h'[l] = h[l]
      <3>1. CASE Accept(k)
        BY <3>1, <1>h, <1>d DEF Accept, SetHandler, HandlerType
      <3>2. CASE HandlerReject(k)
        BY <3>2, <1>h, <1>d DEF HandlerReject, SetHandler, HandlerType
      <3>3. CASE HandlerMem(k)
        BY <3>3, <1>h, <1>d DEF HandlerMem, SetHandler, HandlerType
      <3>4. CASE HandlerPush(k)
        BY <3>4, <1>h, <1>d DEF HandlerPush, SetHandler, HandlerType
      <3>5. CASE HandlerChan(k)
        BY <3>5, <1>h, <1>d DEF HandlerChan, SetHandler, HandlerType
      <3>6. CASE HandlerActivate(k)
        BY <3>6, <1>h, <1>d DEF HandlerActivate, SetHandler, HandlerType
      <3>7. CASE HandlerFirstBatch(k)
        BY <3>7, <1>h, <1>d DEF HandlerFirstBatch, SetHandler, HandlerType
      <3>8. CASE HandlerPublish(k)
        BY <3>8, <1>h, <1>d DEF HandlerPublish, SetHandler, HandlerType
      <3>9. CASE HandlerGoGo(k)
        BY <3>9, <1>h, <1>d DEF HandlerGoGo, SetHandler, HandlerType
      <3>10. CASE HandlerOut(k)
        BY <3>10, <1>h, <1>d DEF HandlerOut, SetHandler, HandlerType
      <3> QED BY <3>1, <3>2, <3>3, <3>4, <3>5, <3>6, <3>7, <3>8, <3>9,
                 <3>10 DEF HandlerStep
    <2> QED BY <2>1, <1>d DEF Unreserving
  <1>4. CASE UNCHANGED vars
    BY <1>4 DEF vars, Unreserving
  <1> QED BY <1>1, <1>2, <1>3, <1>4 DEF Next

(* The admission: the new block starts where the last one ended. *)
LEMMA HostReserves ==
  ASSUME TypeOK, NEW k \in Conn, HandlerHost(k)
  PROVE  \E n \in Nat \ {0} :
           /\ numOfRecv[k[2]] + n <= Capacity
           /\ numOfRecv' = [numOfRecv EXCEPT ![k[2]] = @ + n]
           /\ h'[k].left = numOfRecv[k[2]]
           /\ h'[k].qps = n
           /\ \A l \in Conn \ {k} : h'[l] = h[l]
  <1> DEFINE m == Head(sock[k].toS)
  <1>1. m \in Msg /\ m.type = "Host"
    BY HandlerConn, QueueTypes, MessageTypes DEF HandlerHost, HandlerReads
  <1>2. m.qps \in Nat /\ m.qps > 0
    BY <1>1, MessageFields DEF HandlerHost
  <1>3. /\ numOfRecv[k[2]] + m.qps <= Capacity
        /\ numOfRecv' = [numOfRecv EXCEPT ![k[2]] = @ + m.qps]
    BY DEF HandlerHost, Fits, Reserve
  <1>4. /\ h'[k].left = numOfRecv[k[2]] /\ h'[k].qps = m.qps
        /\ \A l \in Conn \ {k} : h'[l] = h[l]
    BY DEF HandlerHost, SetHandler, TypeOK, HandlerType
  <1>5. m.qps \in Nat \ {0}
    BY <1>2
  <1> WITNESS m.qps \in Nat \ {0}
  <1> QED BY <1>3, <1>4

LEMMA ExclusiveStep ==
  ASSUME TypeOK, SlotsExclusive, [Next]_vars
  PROVE  SlotsExclusive'
  <1>1. CASE \A k \in Conn : ~ HandlerHost(k)
    BY <1>1, StepUnreserving DEF Unreserving, SlotsExclusive, Reserved
  <1>2. ASSUME NEW k \in Conn, HandlerHost(k)
        PROVE  SlotsExclusive'
    <2> PICK n \in Nat \ {0} :
          /\ numOfRecv[k[2]] + n <= Capacity
          /\ numOfRecv' = [numOfRecv EXCEPT ![k[2]] = @ + n]
          /\ h'[k].left = numOfRecv[k[2]]
          /\ h'[k].qps = n
          /\ \A l \in Conn \ {k} : h'[l] = h[l]
      BY <1>2, HostReserves
    <2> DEFINE r == numOfRecv
    <2>1. /\ k[2] \in Servers /\ \A s \in Servers : r[s] \in Nat
          /\ \A l \in Conn : l[2] \in Servers /\ h[l] \in HandlerType
      BY HandlerConn DEF TypeOK
    <2>2. \A s \in Servers : r[s] <= r'[s] /\ r'[s] \in Nat /\ r'[s] <= Capacity
      BY <2>1 DEF TypeOK, SlotsExclusive
    <2>3. \A l \in Conn \ {k} : Reserved(l)' = Reserved(l)
      BY DEF Reserved
    <2>4. Reserved(k)' = r[k[2]] .. (r'[k[2]] - 1)
      BY <2>1 DEF Reserved, TypeOK
    <2>5. \A l \in Conn : Reserved(l)' \subseteq 0 .. (r'[l[2]] - 1)
      <3>1. ASSUME NEW l \in Conn \ {k}
            PROVE  Reserved(l)' \subseteq 0 .. (r'[l[2]] - 1)
        <4>1. Reserved(l) \subseteq 0 .. (r[l[2]] - 1)
          BY DEF SlotsExclusive
        <4>2. 0 .. (r[l[2]] - 1) \subseteq 0 .. (r'[l[2]] - 1)
          BY <2>1, <2>2
        <4> QED BY <4>1, <4>2, <2>3
      <3>2. Reserved(k)' \subseteq 0 .. (r'[k[2]] - 1)
        BY <2>1, <2>2, <2>4
      <3> QED BY <3>1, <3>2
    <2>6. ASSUME NEW l \in Conn \ {k}, l[2] = k[2]
          PROVE  Reserved(l)' \cap Reserved(k)' = {}
      <3>1. Reserved(l) \subseteq 0 .. (r[k[2]] - 1)
        BY <2>6 DEF SlotsExclusive
      <3>2. (0 .. (r[k[2]] - 1)) \cap (r[k[2]] .. (r'[k[2]] - 1)) = {}
        BY <2>1
      <3> QED BY <3>1, <3>2, <2>3, <2>4
    <2>7. \A j, l \in Conn :
            j # l /\ j[2] = l[2] => Reserved(j)' \cap Reserved(l)' = {}
      BY <2>3, <2>6 DEF SlotsExclusive
    <2> QED BY <2>2, <2>5, <2>7 DEF SlotsExclusive
  <1> QED BY <1>1, <1>2

(* However the handlers interleave, whatever the clients ask for and       *)
(* wherever connections break: no server reserves more endpoints than it   *)
(* has, and none twice.                                                    *)
THEOREM Exclusive == Spec => []SlotsExclusive
  <1>1. Init => SlotsExclusive
    <2> SUFFICES ASSUME Init PROVE SlotsExclusive
      OBVIOUS
    <2>1. Capacity \in Nat
      BY HandshakeAssumption DEF Capacity
    <2>2. \A k \in Conn : k[2] \in Servers /\ Reserved(k) = {}
      BY DEF Init, Conn, Reserved, NewHandler
    <2> QED BY <2>1, <2>2 DEF Init, SlotsExclusive
  <1>2. TypeOK /\ SlotsExclusive /\ [Next]_vars => SlotsExclusive'
    BY ExclusiveStep
  <1> QED BY <1>1, <1>2, TypeCorrect, PTL DEF Spec

-----------------------------------------------------------------------------
(* The endpoints a handler works on. *)

Fresh(e) == ~ e.activated /\ e.credits = RecvDepth

(* A handler has published the endpoints of its block below idx, is at     *)
(* work on idx and has not touched those above.                            *)
Owned(x, row) ==
  /\ x.pc \in {"mem", "push"} =>
       /\ x.qps > 0
       /\ \A i \in x.left .. (x.left + x.qps - 1) : Fresh(row[i])
  /\ x.pc \in {"chan", "activate", "first", "publish"} =>
       /\ x.idx \in x.left .. (x.left + x.qps - 1)
       /\ \A i \in x.left .. (x.left + x.qps - 1) :
            i > x.idx => Fresh(row[i])
       /\ ~ row[x.idx].activated
       /\ x.pc \in {"chan", "activate"} => row[x.idx].credits = RecvDepth
       /\ x.pc = "first" => row[x.idx].credits = x.first

(* Nobody has touched the endpoints above num_of_recv_.                    *)
Ownership ==
  /\ \A k \in Conn : Owned(h[k], sEp[k[2]])
  /\ \A s \in Servers, i \in Slot : i >= numOfRecv[s] => Fresh(sEp[s][i])

LEMMA BlockSlots ==
  ASSUME TypeOK, SlotsExclusive, NEW k \in Conn, NEW i \in Reserved(k)
  PROVE  i \in Slot /\ i \in Nat /\ i < numOfRecv[k[2]] /\ k[2] \in Servers
  <1>1. /\ numOfRecv[k[2]] \in Nat /\ numOfRecv[k[2]] <= Capacity
        /\ k[2] \in Servers /\ Capacity \in Nat
    BY HandlerConn, HandshakeAssumption DEF TypeOK, SlotsExclusive, Capacity
  <1>2. i \in 0 .. (numOfRecv[k[2]] - 1)
    BY DEF SlotsExclusive
  <1> QED BY <1>1, <1>2 DEF Slot

(* A handler's part of the invariant depends on its own block only. *)
LEMMA OwnedFrame ==
  ASSUME NEW x \in HandlerType, NEW row, NEW next, Owned(x, row),
         \A i \in x.left .. (x.left + x.qps - 1) : next[i] = row[i]
  PROVE  Owned(x, next)
  BY DEF Owned, Fresh

(* A step that changes one handler and endpoints of its block only. *)
LEMMA OwnershipLocal ==
  ASSUME TypeOK, SlotsExclusive, Ownership, NEW k \in Conn,
         numOfRecv' = numOfRecv,
         \A l \in Conn \ {k} : h'[l] = h[l],
         \A s \in Servers, i \in Slot :
           s # k[2] \/ i \notin Reserved(k) => sEp'[s][i] = sEp[s][i],
         Owned(h'[k], sEp'[k[2]])
  PROVE  Ownership'
  <1>1. ASSUME NEW l \in Conn \ {k}
        PROVE  Owned(h'[l], sEp'[l[2]])
    <2>1. h[l] \in HandlerType /\ l[2] \in Servers /\ h'[l] = h[l]
      BY HandlerConn
    <2>2. ASSUME NEW i \in Reserved(l)
          PROVE  sEp'[l[2]][i] = sEp[l[2]][i]
      BY <2>1, BlockSlots DEF SlotsExclusive
    <2>3. Owned(h[l], sEp[l[2]])
      BY DEF Ownership
    <2> QED BY <2>1, <2>2, <2>3, OwnedFrame DEF Reserved
  <1>2. ASSUME NEW s \in Servers, NEW i \in Slot, i >= numOfRecv'[s]
        PROVE  Fresh(sEp'[s][i])
    <2>1. numOfRecv[s] \in Nat /\ i \in Int
      BY DEF TypeOK, Slot
    <2>2. s # k[2] \/ i \notin Reserved(k)
      BY <1>2, <2>1, BlockSlots
    <2> QED BY <1>2, <2>2 DEF Ownership, Fresh
  <1> QED BY <1>1, <1>2 DEF Ownership

(* The admission: the endpoints of the new block are fresh. *)
LEMMA OwnershipHost ==
  ASSUME TypeOK, SlotsExclusive, Ownership, NEW k \in Conn, HandlerHost(k)
  PROVE  Ownership'
  <1> PICK n \in Nat \ {0} :
        /\ numOfRecv[k[2]] + n <= Capacity
        /\ numOfRecv' = [numOfRecv EXCEPT ![k[2]] = @ + n]
        /\ h'[k].left = numOfRecv[k[2]]
        /\ h'[k].qps = n
        /\ \A l \in Conn \ {k} : h'[l] = h[l]
    BY HostReserves
  <1>1. /\ k[2] \in Servers /\ \A s \in Servers : numOfRecv[s] \in Nat
        /\ Capacity \in Nat
    BY HandlerConn, HandshakeAssumption DEF TypeOK, Capacity
  <1>2. h'[k].pc \in {"mem", "push"} /\ sEp' = sEp
    BY DEF HandlerHost, SetHandler, TypeOK, HandlerType
  <1>3. Owned(h'[k], sEp'[k[2]])
    <2>1. \A i \in numOfRecv[k[2]] .. (numOfRecv[k[2]] + n - 1) :
            Fresh(sEp[k[2]][i])
      BY <1>1 DEF Ownership, Slot
    <2> QED BY <1>2, <2>1 DEF Owned
  <1>4. \A l \in Conn \ {k} : Owned(h'[l], sEp'[l[2]])
    BY <1>2 DEF Ownership
  <1>5. \A s \in Servers, i \in Slot :
          i >= numOfRecv'[s] => Fresh(sEp'[s][i])
    <2>1. \A s \in Servers : numOfRecv'[s] >= numOfRecv[s] /\ numOfRecv'[s] \in Nat
      BY <1>1 DEF TypeOK
    <2> QED BY <1>1, <1>2, <2>1 DEF Ownership, Slot, Fresh
  <1> QED BY <1>3, <1>4, <1>5 DEF Ownership

(* A handler that does nothing to its endpoints, before it has any to fill *)
(* or after the last one.                                                  *)
LEMMA OwnedOutside ==
  ASSUME NEW x, NEW row,
         x.pc \notin {"mem", "push", "chan", "activate", "first", "publish"}
  PROVE  Owned(x, row)
  BY DEF Owned

LEMMA OwnershipHandler ==
  ASSUME TypeOK, SlotsExclusive, Ownership, NEW k \in Conn, HandlerStep(k)
  PROVE  Ownership'
  <1> DEFINE x == h[k]
             row == sEp[k[2]]
             B == x.left .. (x.left + x.qps - 1)
  <1>0. /\ x \in HandlerType /\ k[2] \in Servers /\ DOMAIN h = Conn
        /\ Owned(x, row)
        /\ x.left \in Nat /\ x.qps \in Nat /\ x.idx \in Nat /\ x.first \in Nat
        /\ RecvDepth \in Nat \ {0} /\ RecvBatch \in Nat \ {0}
    BY HandlerConn, HandshakeAssumption DEF TypeOK, Ownership, HandlerType
  <1>b. \A i \in B : i \in Slot /\ row[i] \in ServerEpType /\ i \in DOMAIN row
    BY <1>0, BlockSlots DEF TypeOK, Reserved
  <1>1. CASE HandlerHost(k)
    BY <1>1, OwnershipHost
  <1>2. CASE HandlerReject(k) \/ HandlerGoGo(k) \/ HandlerOut(k)
    <2>1. /\ numOfRecv' = numOfRecv /\ sEp' = sEp
          /\ \A l \in Conn \ {k} : h'[l] = h[l]
          /\ h'[k].pc \in {"failed", "done"}
      BY <1>0, <1>2 DEF HandlerReject, HandlerGoGo, HandlerOut, SetHandler,
                        HandlerType
    <2> QED BY <2>1, OwnedOutside, OwnershipLocal
  <1>3. CASE HandlerMem(k)
    <2>1. /\ numOfRecv' = numOfRecv /\ sEp' = sEp
          /\ \A l \in Conn \ {k} : h'[l] = h[l]
          /\ x.pc = "mem" /\ h'[k].pc \in {"mem", "push"}
          /\ h'[k].left = x.left /\ h'[k].qps = x.qps
      BY <1>0, <1>3 DEF HandlerMem, SetHandler, HandlerType
    <2>2. Owned(h'[k], sEp'[k[2]])
      BY <1>0, <2>1 DEF Owned
    <2> QED BY <2>1, <2>2, OwnershipLocal
  <1>4. CASE HandlerPush(k)
    <2>1. /\ numOfRecv' = numOfRecv /\ sEp' = sEp
          /\ \A l \in Conn \ {k} : h'[l] = h[l]
          /\ x.pc = "push" /\ h'[k].pc = "chan" /\ h'[k].idx = x.left
          /\ h'[k].left = x.left /\ h'[k].qps = x.qps
      BY <1>0, <1>4 DEF HandlerPush, SetHandler, HandlerType
    <2>2. Owned(h'[k], sEp'[k[2]])
      BY <1>0, <2>1 DEF Owned, Fresh
    <2> QED BY <2>1, <2>2, OwnershipLocal
  <1>5. CASE HandlerChan(k)
    <2>0. x.pc = "chan"
      BY <1>5 DEF HandlerChan
    <2>1. /\ numOfRecv' = numOfRecv
          /\ \A l \in Conn \ {k} : h'[l] = h[l]
          /\ h'[k].pc = "activate" /\ h'[k].idx = x.idx
          /\ h'[k].left = x.left /\ h'[k].qps = x.qps
      BY <1>0, <1>5 DEF HandlerChan, SetHandler, HandlerType
    <2>2. PICK q : sEp' = [sEp EXCEPT ![k[2]][x.idx] = [@ EXCEPT !.qpn = q]]
      BY <1>5 DEF HandlerChan, SetCurrent, SetServerEp, Current
    <2>3. x.idx \in B
      BY <1>0, <2>0 DEF Owned
    <2>4. /\ \A i \in B \ {x.idx} : sEp'[k[2]][i] = row[i]
          /\ sEp'[k[2]][x.idx] = [row[x.idx] EXCEPT !.qpn = q]
      BY <1>0, <1>b, <2>2, <2>3 DEF TypeOK
    <2>5. Owned(h'[k], sEp'[k[2]])
      <3>1. /\ sEp'[k[2]][x.idx].activated = row[x.idx].activated
            /\ sEp'[k[2]][x.idx].credits = row[x.idx].credits
        BY <1>b, <2>3, <2>4 DEF ServerEpType
      <3> QED BY <3>1, <1>0, <2>0, <2>1, <2>3, <2>4 DEF Owned, Fresh
    <2> QED BY <2>1, <2>2, <2>3, <2>5, <1>0, OwnershipLocal
            DEF TypeOK, Reserved
  <1>6. CASE HandlerActivate(k)
    <2>0. x.pc = "activate"
      BY <1>6 DEF HandlerActivate
    <2>1. /\ numOfRecv' = numOfRecv
          /\ \A l \in Conn \ {k} : h'[l] = h[l]
          /\ h'[k].pc = "first" /\ h'[k].idx = x.idx
          /\ h'[k].left = x.left /\ h'[k].qps = x.qps
          /\ h'[k].first = RecvDepth
      BY <1>0, <1>6 DEF HandlerActivate, SetHandler, HandlerType
    <2>2. sEp' = [sEp EXCEPT ![k[2]][x.idx] = [@ EXCEPT !.peer = x.gid]]
      BY <1>6 DEF HandlerActivate, SetCurrent, SetServerEp, Current
    <2>3. x.idx \in B
      BY <1>0, <2>0 DEF Owned
    <2>4. /\ \A i \in B \ {x.idx} : sEp'[k[2]][i] = row[i]
          /\ sEp'[k[2]][x.idx] = [row[x.idx] EXCEPT !.peer = x.gid]
      BY <1>0, <1>b, <2>2, <2>3 DEF TypeOK
    <2>5. Owned(h'[k], sEp'[k[2]])
      <3>1. /\ sEp'[k[2]][x.idx].activated = row[x.idx].activated
            /\ sEp'[k[2]][x.idx].credits = row[x.idx].credits
        BY <1>b, <2>3, <2>4 DEF ServerEpType
      <3> QED BY <3>1, <1>0, <2>0, <2>1, <2>3, <2>4 DEF Owned, Fresh
    <2> QED BY <2>1, <2>2, <2>3, <2>5, <1>0, OwnershipLocal
            DEF TypeOK, Reserved

  <1>7. CASE HandlerFirstBatch(k)
    <2> DEFINE n == AtMost(x.first, RecvBatch)
               r == row[x.idx].credits - n
    <2>0. x.pc = "first"
      BY <1>7 DEF HandlerFirstBatch
    <2>3. x.idx \in B /\ row[x.idx].credits = x.first
      BY <1>0, <2>0 DEF Owned
    <2>1. /\ numOfRecv' = numOfRecv
          /\ \A l \in Conn \ {k} : h'[l] = h[l]
          /\ h'[k].pc = IF r > 0 THEN "first" ELSE "publish"
          /\ h'[k].left = x.left /\ h'[k].qps = x.qps
          /\ h'[k].first = x.first - n /\ h'[k].idx = x.idx
      <3>1. h' = [h EXCEPT ![k] =
                    [x EXCEPT !.first = x.first - n,
                       !.pc = IF r > 0 THEN "first" ELSE "publish"]]
        BY <1>7 DEF HandlerFirstBatch, SetHandler, Current
      <3> HIDE DEF n, r
      <3>2. numOfRecv' = numOfRecv
        BY <1>7 DEF HandlerFirstBatch
      <3> QED BY <1>0, <3>1, <3>2 DEF HandlerType
    <2>2. sEp' = [sEp EXCEPT ![k[2]][x.idx] = [@ EXCEPT !.credits = r]]
      BY <1>7 DEF HandlerFirstBatch, SetCurrent, SetServerEp, Current
    <2> HIDE DEF n
    <2>4. /\ \A i \in B \ {x.idx} : sEp'[k[2]][i] = row[i]
          /\ sEp'[k[2]][x.idx] = [row[x.idx] EXCEPT !.credits = r]
      BY <1>0, <1>b, <2>2, <2>3 DEF TypeOK
    <2>5. Owned(h'[k], sEp'[k[2]])
      <3>1. /\ sEp'[k[2]][x.idx].activated = row[x.idx].activated
            /\ sEp'[k[2]][x.idx].credits = r
        BY <1>b, <2>3, <2>4 DEF ServerEpType
      <3> QED BY <3>1, <1>0, <2>0, <2>1, <2>3, <2>4 DEF Owned, Fresh
    <2> QED BY <2>1, <2>2, <2>3, <2>5, <1>0, OwnershipLocal
            DEF TypeOK, Reserved
  <1>8. CASE HandlerPublish(k)
    <2>0. x.pc = "publish"
      BY <1>8 DEF HandlerPublish
    <2>1. /\ numOfRecv' = numOfRecv
          /\ \A l \in Conn \ {k} : h'[l] = h[l]
          /\ h'[k].pc = IF x.idx + 1 < x.left + x.qps THEN "chan" ELSE "gogo"
          /\ h'[k].idx = x.idx + 1
          /\ h'[k].left = x.left /\ h'[k].qps = x.qps
      BY <1>0, <1>8 DEF HandlerPublish, SetHandler, HandlerType
    <2>2. sEp' = [sEp EXCEPT ![k[2]][x.idx] =
                    [@ EXCEPT !.activated = TRUE, !.mem = x.mem]]
      BY <1>8 DEF HandlerPublish, SetCurrent, SetServerEp, Current
    <2>3. x.idx \in B
      BY <1>0, <2>0 DEF Owned
    <2>4. \A i \in B \ {x.idx} : sEp'[k[2]][i] = row[i]
      BY <1>0, <1>b, <2>2, <2>3 DEF TypeOK
    <2>5. Owned(h'[k], sEp'[k[2]])
      <3>1. CASE x.idx + 1 < x.left + x.qps
        BY <3>1, <1>0, <2>0, <2>1, <2>3, <2>4 DEF Owned, Fresh
      <3>2. CASE ~ (x.idx + 1 < x.left + x.qps)
        BY <3>2, <2>1, OwnedOutside
      <3> QED BY <3>1, <3>2
    <2> QED BY <2>1, <2>2, <2>3, <2>5, <1>0, OwnershipLocal
            DEF TypeOK, Reserved
  <1> QED BY <1>1, <1>2, <1>3, <1>4, <1>5, <1>6, <1>7, <1>8 DEF HandlerStep

(* Clients, accept() and the end of a process touch no server endpoint. *)
LEMMA OwnershipElsewhere ==
  ASSUME TypeOK, Ownership,
         \/ \E c \in Clients : ClientStep(c) \/ ClientKilled(c)
         \/ \E s \in Servers : StartListen(s) \/ ServerExit(s)
         \/ \E k \in Conn : Accept(k)
         \/ UNCHANGED vars
  PROVE  Ownership' /\ sEp' = sEp
  <1>h. DOMAIN h = Conn /\ \A k \in Conn : h[k] \in HandlerType
    BY DEF TypeOK
  <1>1. /\ numOfRecv' = numOfRecv /\ sEp' = sEp
        /\ \A k \in Conn : h'[k] = h[k]
                          \/ h'[k].pc \in {"backlog", "host", "failed"}
    <2>1. CASE \E c \in Clients : ClientStep(c) \/ ClientKilled(c)
      <3> PICK c \in Clients : ClientStep(c) \/ ClientKilled(c)
        BY <2>1
      <3>1. CASE ClientHello(c)
        BY <3>1, <1>h, AtConn DEF ClientHello, SetHandler, HandlerType
      <3>2. CASE ~ ClientHello(c)
        BY <3>2 DEF ClientStep, ClientRetry, ClientHost, ClientMem,
           ClientPool, ClientChan, ClientGoGo, ClientActivateFails,
           ClientOut, ClientKilled, serverVars
      <3> QED BY <3>1, <3>2
    <2>2. CASE \E s \in Servers : StartListen(s) \/ ServerExit(s)
      BY <2>2, <1>h DEF StartListen, ServerExit, HandlerType
    <2>3. CASE \E k \in Conn : Accept(k)
      BY <2>3, <1>h DEF Accept, SetHandler, HandlerType
    <2>4. CASE UNCHANGED vars
      BY <2>4 DEF vars
    <2> QED BY <2>1, <2>2, <2>3, <2>4
  <1>2. \A k \in Conn : Owned(h'[k], sEp'[k[2]])
    BY <1>1, OwnedOutside DEF Ownership
  <1> QED BY <1>1, <1>2 DEF Ownership, Fresh

LEMMA OwnershipStep ==
  ASSUME TypeOK, SlotsExclusive, Ownership, [Next]_vars
  PROVE  Ownership'
  <1>1. CASE \E k \in Conn : HandlerStep(k)
    BY <1>1, OwnershipHandler
  <1>2. CASE \/ \E c \in Clients : ClientStep(c) \/ ClientKilled(c)
             \/ \E s \in Servers : StartListen(s) \/ ServerExit(s)
             \/ \E k \in Conn : Accept(k)
             \/ UNCHANGED vars
    BY <1>2, OwnershipElsewhere
  <1> QED BY <1>1, <1>2 DEF Next

(* In every run, handlers work on fresh endpoints of their own blocks. *)
THEOREM Owning == Spec => []Ownership
  <1>1. Init => Ownership
    <2> SUFFICES ASSUME Init PROVE Ownership
      OBVIOUS
    <2>1. \A k \in Conn : Owned(h[k], sEp[k[2]])
      <3>1. \A k \in Conn : h[k].pc = "none"
        BY DEF Init, NewHandler
      <3> QED BY <3>1 DEF Owned
    <2> QED BY <2>1 DEF Init, Ownership, Fresh, NewServerEp
  <1>2. TypeOK /\ SlotsExclusive /\ Ownership /\ [Next]_vars => Ownership'
    BY OwnershipStep
  <1> QED BY <1>1, <1>2, TypeCorrect, Exclusive, PTL DEF Spec

(* The endpoint a handler activates and fills is its own and not published *)
(* yet, and what is left of its first batch is what is left of its         *)
(* credits: ServerDatapath and the handlers never post to one queue.       *)
THEOREM Undisturbed == Spec => []FirstBatchUndisturbed
  <1>1. TypeOK /\ Ownership => FirstBatchUndisturbed
    BY DEF Ownership, Owned, FirstBatchUndisturbed, Reserved
  <1> QED BY <1>1, TypeCorrect, Owning, PTL

(* The step leaves the endpoints the servers have published as they are. *)
Keeps ==
  \A s \in Servers : \A i \in Slot :
    sEp[s][i].activated => sEp'[s][i] = sEp[s][i]

LEMMA PublishedStays ==
  ASSUME TypeOK, SlotsExclusive, Ownership, [Next]_vars
  PROVE  Keeps
  <1>1. CASE sEp' = sEp
    BY <1>1 DEF Keeps
  <1>2. ASSUME NEW k \in Conn,
               HandlerChan(k) \/ HandlerActivate(k)
                 \/ HandlerFirstBatch(k) \/ HandlerPublish(k)
        PROVE  Keeps
    <2>1. \A s \in Servers, i \in Slot :
            s # k[2] \/ i # h[k].idx => sEp'[s][i] = sEp[s][i]
      <3>0. sEp \in [Servers -> [Slot -> ServerEpType]] /\ k[2] \in Servers
        BY HandlerConn DEF TypeOK
      <3>1. ASSUME NEW r, SetServerEp(k[2], h[k].idx, r)
            PROVE  \A s \in Servers, i \in Slot :
                     s # k[2] \/ i # h[k].idx => sEp'[s][i] = sEp[s][i]
        BY <3>0, <3>1 DEF SetServerEp
      <3>2. CASE HandlerChan(k)
        BY <3>1, <3>2 DEF HandlerChan, SetCurrent
      <3>3. CASE HandlerActivate(k)
        BY <3>1, <3>3 DEF HandlerActivate, SetCurrent
      <3>4. CASE HandlerFirstBatch(k)
        BY <3>1, <3>4 DEF HandlerFirstBatch, SetCurrent
      <3>5. CASE HandlerPublish(k)
        BY <3>1, <3>5 DEF HandlerPublish, SetCurrent
      <3> QED BY <1>2, <3>2, <3>3, <3>4, <3>5
    <2>2. ~ sEp[k[2]][h[k].idx].activated
      <3>1. h[k].pc \in {"chan", "activate", "first", "publish"}
        BY <1>2 DEF HandlerChan, HandlerActivate, HandlerFirstBatch,
                    HandlerPublish
      <3> QED BY <3>1 DEF Ownership, Owned
    <2> QED BY <2>1, <2>2 DEF Keeps
  <1>3. ASSUME NEW k \in Conn,
               HandlerHost(k) \/ HandlerReject(k) \/ HandlerMem(k)
                 \/ HandlerPush(k) \/ HandlerGoGo(k) \/ HandlerOut(k)
        PROVE  sEp' = sEp
    BY <1>3 DEF HandlerHost, HandlerReject, HandlerMem, HandlerPush,
                HandlerGoGo, HandlerOut
  <1> QED BY <1>1, <1>2, <1>3, OwnershipElsewhere
          DEF Next, HandlerStep, Keeps

(* No step of anybody changes an endpoint a server has published. *)
THEOREM Permanent == Spec => PublishedForGood
  <1>1. TypeOK /\ SlotsExclusive /\ Ownership /\ [Next]_vars => [Keeps]_vars
    BY PublishedStays
  <1>2. Spec => [][Keeps]_vars
    BY <1>1, TypeCorrect, Exclusive, Owning, PTL DEF Spec
  <1> QED BY <1>2 DEF PublishedForGood, Keeps

=============================================================================
