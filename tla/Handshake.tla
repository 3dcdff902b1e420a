------------------------------ MODULE Handshake ------------------------------
(***************************************************************************)
(* The connection handshake of the traffic engines.  A client context      *)
(* calls Connect for one server after the other; every server runs one     *)
(* detached AcceptHandler thread per accepted TCP connection.  The two     *)
(* sides exchange connect_info messages in lockstep - host information,    *)
(* then one MemInfo per buffer, then one ChannelInfo per queue pair, then  *)
(* GoGo - and at the end the client's queue pairs may send.                *)
(*                                                                         *)
(* An action is what one thread does from the return of one blocking       *)
(* read() to the next, split where another thread of the server can see an *)
(* intermediate state: between the reply to a ChannelInfo and Activate,    *)
(* between two PostRecv calls of the first batch, before the lock of the   *)
(* remote memory pools.                                                    *)
(*                                                                         *)
(* A gid stands for the process that owns it, and a QP number is the index *)
(* of the endpoint in its context, so <<gid, qpn>> is the address of a     *)
(* queue pair.  A memory buffer is known by the process that registered it.*)
(***************************************************************************)
EXTENDS Integers, Sequences

CONSTANTS
  Clients,            \* client contexts
  NumServers,         \* hosts in the --connect list of every client
  Qps,                \* Qps[c]: --qp_num of client c, its num_per_host_
  NumHosts,           \* --host_num of the servers, their num_of_hosts_
  NumPerHost,         \* --qp_num of the servers, their num_per_host_
  BufNum,             \* --buf_num, the MemInfo messages of one connection
  RecvDepth,          \* --recv_wq_depth
  RecvBatch,          \* --recv_batch of the servers
  MaxConnRetry,       \* kMaxConnRetry
  ContinueOnFailure,  \* TRUE: Collie's main, FALSE: Husky's main
  Nobody              \* no process: the zeroed gid, an unset remote side

Servers == 0 .. (NumServers - 1)
Procs == Clients \cup Servers
Conn == Clients \X Servers
Capacity == NumHosts * NumPerHost
Slot == 0 .. (Capacity - 1)                     \* endpoints_ of a server
Ep(c) == 0 .. (NumServers * Qps[c] - 1)         \* endpoints_ of client c

ASSUME HandshakeAssumption ==
  /\ NumServers \in Nat \ {0}
  /\ Qps \in [Clients -> Nat \ {0}]
  /\ NumHosts \in Nat \ {0}
  /\ NumPerHost \in Nat \ {0}
  /\ BufNum \in Nat \ {0}
  /\ RecvDepth \in Nat \ {0}
  /\ RecvBatch \in Nat \ {0}
  /\ MaxConnRetry \in Nat \ {0}
  /\ ContinueOnFailure \in BOOLEAN
  /\ Clients \cap Servers = {}
  /\ Nobody \notin Procs

VARIABLES
  status,     \* status[s]: server s is starting, listening or exited
  numOfRecv,  \* numOfRecv[s]: num_of_recv_ of server s
  h,          \* h[k]: locals of the AcceptHandler of connection k
  sEp,        \* sEp[s][i]: endpoint i of server s
  sPools,     \* sPools[s]: remote_mempools_ of server s
  cl,         \* cl[c]: locals of the thread of client c
  cEp,        \* cEp[c][i]: endpoint i of client c
  cPools,     \* cPools[c]: remote_mempools_ of client c
  sock        \* sock[k]: the TCP connection k

serverVars == <<status, numOfRecv, h, sEp, sPools>>
clientVars == <<cl, cEp, cPools>>
vars == <<status, numOfRecv, h, sEp, sPools, cl, cEp, cPools, sock>>

-----------------------------------------------------------------------------
(* The connect_info messages; the type field is the union's tag. *)

HostMsg(n, m, g) == [type |-> "Host", qps |-> n, mems |-> m, gid |-> g]
MemMsg(o) == [type |-> "Mem", owner |-> o]
ChanMsg(q) == [type |-> "Chan", qpn |-> q]
GoGoMsg == [type |-> "GoGo"]

(* memset(info, 0): the rejection is a host message of zero queue pairs. *)
RejectMsg == HostMsg(0, 0, Nobody)

Msg ==
  [type : {"Host"}, qps : Nat, mems : Nat, gid : Procs \cup {Nobody}]
    \cup [type : {"Mem"}, owner : Procs]
    \cup [type : {"Chan"}, qpn : Nat]
    \cup [type : {"GoGo"}]

(* The type of message a thread blocked in read() compares with. *)
Expected == [host |-> "Host", mem |-> "Mem", chan |-> "Chan", gogo |-> "GoGo"]
Reading == DOMAIN Expected

ClientPc == Reading \cup {"tcp", "run", "exit"}
HandlerPc == Reading \cup {"none", "backlog", "push", "activate", "first",
                           "publish", "done", "failed"}

-----------------------------------------------------------------------------
At(c) == <<c, cl[c].connid>>                    \* the socket Connect works on

NewHandler == [pc |-> "none", left |-> 0, qps |-> 0, mems |-> 0, idx |-> 0,
               bufs |-> << >>, mem |-> -1, first |-> 0, gid |-> Nobody]
NewServerEp == [qpn |-> 0, peer |-> Nobody, credits |-> RecvDepth,
                activated |-> FALSE, mem |-> -1]
NewClientEp == [qpn |-> 0, peer |-> Nobody, activated |-> FALSE, mem |-> -1]
NewSocket == [toS |-> << >>, toC |-> << >>, cOpen |-> FALSE, sOpen |-> FALSE]

(* The locals of a Connect call to the host number i that has not started. *)
NewConnect(i) == [pc |-> "tcp", connid |-> i, idx |-> 0, tries |-> 0,
                  bufs |-> << >>, gid |-> Nobody, mem |-> -1]

Init ==
  /\ status = [s \in Servers |-> "starting"]
  /\ numOfRecv = [s \in Servers |-> 0]
  /\ h = [k \in Conn |-> NewHandler]
  /\ sEp = [s \in Servers |-> [i \in Slot |-> NewServerEp]]
  /\ sPools = [s \in Servers |-> << >>]
  /\ cl = [c \in Clients |-> NewConnect(0)]
  /\ cEp = [c \in Clients |-> [i \in Ep(c) |-> NewClientEp]]
  /\ cPools = [c \in Clients |-> << >>]
  /\ sock = [k \in Conn |-> NewSocket]

-----------------------------------------------------------------------------
(* One thread's record, one socket or one endpoint changes. *)

SetClient(c, r) == cl' = [cl EXCEPT ![c] = r]
SetHandler(k, r) == h' = [h EXCEPT ![k] = r]
SetSocket(k, r) == sock' = [sock EXCEPT ![k] = r]
SetClientEp(c, i, r) == cEp' = [cEp EXCEPT ![c][i] = r]
SetServerEp(s, i, r) == sEp' = [sEp EXCEPT ![s][i] = r]

(* Reading the next message and writing the answer, on either side. *)

ClientReads(c, type) ==
  /\ sock[At(c)].toC # << >>
  /\ Head(sock[At(c)].toC).type = type

ClientReplies(c, m) ==
  SetSocket(At(c), [sock[At(c)] EXCEPT !.toC = Tail(@), !.toS = Append(@, m)])

HandlerReads(k, type) ==
  /\ sock[k].toS # << >>
  /\ Head(sock[k].toS).type = type

HandlerReplies(k, m) ==
  SetSocket(k, [sock[k] EXCEPT !.toS = Tail(@), !.toC = Append(@, m)])

(* The last message of a handler: the reply, then close(). *)
HandlerRepliesAndCloses(k, m) ==
  SetSocket(k, [sock[k] EXCEPT !.toS = Tail(@), !.toC = Append(@, m),
                               !.sOpen = FALSE])

ClientCloses(c) == SetSocket(At(c), [sock[At(c)] EXCEPT !.cOpen = FALSE])
HandlerCloses(k) == SetSocket(k, [sock[k] EXCEPT !.sOpen = FALSE])

-----------------------------------------------------------------------------
(* The client: rdma_context::Connect, called by main for every host. *)

\* Faulty: the loop over the hosts runs once too often.
NextHostPastEnd(c) ==
  IF cl[c].connid + 1 <= NumServers
  THEN NewConnect(cl[c].connid + 1)
  ELSE [cl[c] EXCEPT !.pc = "run"]

NextHost(c) ==
  IF cl[c].connid + 1 < NumServers
  THEN NewConnect(cl[c].connid + 1)
  ELSE [cl[c] EXCEPT !.pc = "run"]

(* The process ends: its queue pairs are destroyed with it. *)
Ended(c) == [cl[c] EXCEPT !.pc = "exit"]
NoEndpoints(c) == [i \in Ep(c) |-> NewClientEp]

\* Faulty: main only logs the failure, whatever the engine.
ConnectFailedLogged(c, eps) ==
  /\ SetClient(c, NextHost(c))
  /\ cEp' = [cEp EXCEPT ![c] = eps]

(* Connect returned -1.  Collie's main logs it and goes on with the next   *)
(* host; Husky's main returns, which ends the process.                     *)
ConnectFailed(c, eps) ==
  IF ContinueOnFailure
  THEN SetClient(c, NextHost(c)) /\ cEp' = [cEp EXCEPT ![c] = eps]
  ELSE SetClient(c, Ended(c)) /\ cEp' = [cEp EXCEPT ![c] = NoEndpoints(c)]

(* ConnectionSetup succeeds once the server listens; the host message is   *)
(* written right away.                                                     *)
ClientHello(c) ==
  /\ cl[c].pc = "tcp"
  /\ status[cl[c].connid] = "listening"
  /\ SetHandler(At(c), [h[At(c)] EXCEPT !.pc = "backlog"])
  /\ SetSocket(At(c), [toS |-> <<HostMsg(Qps[c], BufNum, c)>>, toC |-> << >>,
                       cOpen |-> TRUE, sOpen |-> TRUE])
  /\ SetClient(c, [cl[c] EXCEPT !.pc = "host"])
  /\ UNCHANGED <<status, numOfRecv, sEp, sPools, cEp, cPools>>

(* One failed ConnectionSetup, of at most kMaxConnRetry. *)
ClientRetry(c) ==
  /\ cl[c].pc = "tcp"
  /\ status[cl[c].connid] # "listening"
  /\ IF cl[c].tries + 1 < MaxConnRetry
     THEN SetClient(c, [cl[c] EXCEPT !.tries = @ + 1]) /\ UNCHANGED cEp
     ELSE ConnectFailed(c, cEp[c])
  /\ UNCHANGED <<serverVars, cPools, sock>>

(* Reading the host reply of a server that accepts all the queue pairs and *)
(* sending the first buffer.                                               *)
ClientHost(c) ==
  /\ cl[c].pc = "host"
  /\ ClientReads(c, "Host")
  /\ LET m == Head(sock[At(c)].toC)
     IN  /\ m.qps = Qps[c]
         /\ SetClient(c, [cl[c] EXCEPT !.pc = "mem", !.gid = m.gid])
  /\ ClientReplies(c, MemMsg(c))
  /\ UNCHANGED <<serverVars, cEp, cPools>>

(* Endpoint number i of the connection client c is setting up. *)
ClientSlot(c, i) == cl[c].connid * Qps[c] + i
MySlots(c) == ClientSlot(c, 0) .. ClientSlot(c, Qps[c] - 1)

(* Reading a MemInfo that is not the last: the next buffer follows. *)
ClientMem(c) ==
  /\ cl[c].pc = "mem"
  /\ ClientReads(c, "Mem")
  /\ cl[c].idx + 1 < BufNum
  /\ SetClient(c, [cl[c] EXCEPT !.idx = @ + 1,
                     !.bufs = Append(@, Head(sock[At(c)].toC).owner)])
  /\ ClientReplies(c, MemMsg(c))
  /\ UNCHANGED <<serverVars, cEp, cPools>>

\* Faulty: one MemInfo too many is sent.
ClientPoolOneMore(c) ==
  /\ cl[c].pc = "mem"
  /\ ClientReads(c, "Mem")
  /\ cl[c].idx + 1 = BufNum
  /\ SetClient(c, [cl[c] EXCEPT !.pc = "chan", !.idx = 0])
  /\ ClientReplies(c, MemMsg(c))
  /\ UNCHANGED <<serverVars, cEp, cPools>>

\* Faulty: the pool is looked up by the number of the host.
ClientPoolByHost(c) ==
  /\ cl[c].pc = "mem"
  /\ ClientReads(c, "Mem")
  /\ cl[c].idx + 1 = BufNum
  /\ LET bufs == Append(cl[c].bufs, Head(sock[At(c)].toC).owner)
     IN  /\ SetClient(c, [cl[c] EXCEPT !.pc = "chan", !.idx = 0,
                                       !.bufs = bufs, !.mem = cl[c].connid])
         /\ cPools' = [cPools EXCEPT ![c] = Append(@, bufs)]
  /\ ClientReplies(c, ChanMsg(ClientSlot(c, 0)))
  /\ UNCHANGED <<serverVars, cEp>>

(* Reading the last MemInfo: the pool is published and the first           *)
(* ChannelInfo is sent.                                                    *)
ClientPool(c) ==
  /\ cl[c].pc = "mem"
  /\ ClientReads(c, "Mem")
  /\ cl[c].idx + 1 = BufNum
  /\ LET bufs == Append(cl[c].bufs, Head(sock[At(c)].toC).owner)
     IN  /\ SetClient(c, [cl[c] EXCEPT !.pc = "chan", !.idx = 0,
                                       !.bufs = bufs, !.mem = Len(cPools[c])])
         /\ cPools' = [cPools EXCEPT ![c] = Append(@, bufs)]
  /\ ClientReplies(c, ChanMsg(ClientSlot(c, 0)))
  /\ UNCHANGED <<serverVars, cEp>>

(* What follows the endpoint just connected: the next ChannelInfo, or GoGo *)
(* after the last one.                                                     *)
ClientNextQp(c) ==
  IF cl[c].idx + 1 < Qps[c]
  THEN /\ SetClient(c, [cl[c] EXCEPT !.idx = @ + 1])
       /\ ClientReplies(c, ChanMsg(ClientSlot(c, cl[c].idx + 1)))
  ELSE /\ SetClient(c, [cl[c] EXCEPT !.pc = "gogo"])
       /\ ClientReplies(c, GoGoMsg)

\* Faulty: every queue pair may send as soon as it is connected.
ClientChanAtOnce(c) ==
  /\ cl[c].pc = "chan"
  /\ ClientReads(c, "Chan")
  /\ SetClientEp(c, ClientSlot(c, cl[c].idx),
       [qpn |-> Head(sock[At(c)].toC).qpn, peer |-> cl[c].gid,
        activated |-> TRUE, mem |-> cl[c].mem])
  /\ ClientNextQp(c)
  /\ UNCHANGED <<serverVars, cPools>>

(* Reading one ChannelInfo: SetEndpointInfo and Activate. *)
ClientChan(c) ==
  /\ cl[c].pc = "chan"
  /\ ClientReads(c, "Chan")
  /\ LET i == ClientSlot(c, cl[c].idx)
     IN  SetClientEp(c, i, [cEp[c][i] EXCEPT
                              !.qpn = Head(sock[At(c)].toC).qpn,
                              !.peer = cl[c].gid])
  /\ ClientNextQp(c)
  /\ UNCHANGED <<serverVars, cPools>>

(* Reading GoGo: all queue pairs of this connection may send; the socket   *)
(* is closed and main turns to the next host.                              *)
ClientGoGo(c) ==
  /\ cl[c].pc = "gogo"
  /\ ClientReads(c, "GoGo")
  /\ cEp' = [cEp EXCEPT ![c] = [i \in Ep(c) |->
               IF i \in MySlots(c)
               THEN [cEp[c][i] EXCEPT !.activated = TRUE, !.mem = cl[c].mem]
               ELSE cEp[c][i]]]
  /\ SetClient(c, NextHost(c))
  /\ SetSocket(At(c), [sock[At(c)] EXCEPT !.toC = Tail(@), !.cOpen = FALSE])
  /\ UNCHANGED <<serverVars, cPools>>

(* SetEndpointInfo has run, then Activate fails: goto out. *)
ClientActivateFails(c) ==
  /\ cl[c].pc = "chan"
  /\ ClientReads(c, "Chan")
  /\ ConnectFailed(c, [cEp[c] EXCEPT
       ![ClientSlot(c, cl[c].idx)].qpn = Head(sock[At(c)].toC).qpn])
  /\ ClientCloses(c)
  /\ UNCHANGED <<serverVars, cPools>>

(* goto out: the read fails because the server closed the connection, the  *)
(* message has another type, the host reply accepts another number of      *)
(* queue pairs, or PickNextBuffer finds no buffer to offer next.           *)
ClientGivesUp(c) ==
  /\ cl[c].pc \in Reading
  /\ \/ sock[At(c)].toC = << >> /\ ~ sock[At(c)].sOpen
     \/ sock[At(c)].toC # << >> /\ ~ ClientReads(c, Expected[cl[c].pc])
     \/ sock[At(c)].toC # << >> /\ cl[c].pc = "host"
     \/ sock[At(c)].toC # << >> /\ cl[c].pc = "mem" /\ cl[c].idx + 1 < BufNum

\* Faulty: the socket stays open.
ClientOutLeaks(c) ==
  /\ ClientGivesUp(c)
  /\ ConnectFailed(c, cEp[c])
  /\ UNCHANGED <<serverVars, cPools, sock>>

ClientOut(c) ==
  /\ ClientGivesUp(c)
  /\ ClientCloses(c)
  /\ ConnectFailed(c, cEp[c])
  /\ UNCHANGED <<serverVars, cPools>>

(* The client process is killed, as the search and the isolation runner do *)
(* between two experiments: its sockets are closed with it.                *)
ClientKilled(c) ==
  /\ cl[c].pc # "exit"
  /\ SetClient(c, Ended(c))
  /\ cEp' = [cEp EXCEPT ![c] = NoEndpoints(c)]
  /\ sock' = [k \in Conn |->
                IF k[1] = c THEN [sock[k] EXCEPT !.cOpen = FALSE] ELSE sock[k]]
  /\ UNCHANGED <<serverVars, cPools>>

-----------------------------------------------------------------------------
(* The server: rdma_context::Listen and one AcceptHandler per connection. *)

StartListen(s) ==
  /\ status[s] = "starting"
  /\ status' = [status EXCEPT ![s] = "listening"]
  /\ UNCHANGED <<numOfRecv, h, sEp, sPools, clientVars, sock>>

(* The server process ends: it is killed, or ServerDatapath calls exit(0)  *)
(* after a bad completion while handlers are still at work.                *)
ServerExit(s) ==
  /\ status[s] # "exited"
  /\ status' = [status EXCEPT ![s] = "exited"]
  /\ h' = [k \in Conn |-> IF k[2] = s /\ h[k].pc # "none"
                          THEN [h[k] EXCEPT !.pc = "failed"] ELSE h[k]]
  /\ sock' = [k \in Conn |->
                IF k[2] = s THEN [sock[k] EXCEPT !.sOpen = FALSE] ELSE sock[k]]
  /\ UNCHANGED <<numOfRecv, sEp, sPools, clientVars>>

Accept(k) ==
  /\ h[k].pc = "backlog"
  /\ SetHandler(k, [h[k] EXCEPT !.pc = "host"])
  /\ UNCHANGED <<status, numOfRecv, sEp, sPools, clientVars, sock>>

\* Faulty: room for one queue pair.
FitsOne(s, n) == numOfRecv[s] < Capacity

(* The admission under numlock_: room for all the queue pairs. *)
Fits(s, n) == numOfRecv[s] + n <= Capacity

\* Faulty: num_of_recv_ counts connections.
ReserveOne(s, n) == numOfRecv' = [numOfRecv EXCEPT ![s] = @ + 1]

Reserve(s, n) == numOfRecv' = [numOfRecv EXCEPT ![s] = @ + n]

HandlerHost(k) ==
  /\ h[k].pc = "host"
  /\ HandlerReads(k, "Host")
  /\ LET m == Head(sock[k].toS)
     IN  /\ m.qps > 0
         /\ Fits(k[2], m.qps)
         /\ Reserve(k[2], m.qps)
         /\ SetHandler(k, [h[k] EXCEPT
              !.pc = IF m.mems > 0 THEN "mem" ELSE "push",
              !.left = numOfRecv[k[2]], !.qps = m.qps,
              !.mems = m.mems, !.gid = m.gid])
         /\ HandlerReplies(k, HostMsg(m.qps, 0, k[2]))
  /\ UNCHANGED <<status, sEp, sPools, clientVars>>

(* QP Overflow, request rejected. *)
HandlerReject(k) ==
  /\ h[k].pc = "host"
  /\ HandlerReads(k, "Host")
  /\ Head(sock[k].toS).qps > 0
  /\ ~ Fits(k[2], Head(sock[k].toS).qps)
  /\ SetHandler(k, [h[k] EXCEPT !.pc = "failed"])
  /\ HandlerRepliesAndCloses(k, RejectMsg)
  /\ UNCHANGED <<status, numOfRecv, sEp, sPools, clientVars>>

HandlerMem(k) ==
  /\ h[k].pc = "mem"
  /\ HandlerReads(k, "Mem")
  /\ SetHandler(k, [h[k] EXCEPT
       !.bufs = Append(@, Head(sock[k].toS).owner),
       !.pc = IF h[k].idx + 1 < h[k].mems THEN "mem" ELSE "push",
       !.idx = @ + 1])
  /\ HandlerReplies(k, MemMsg(k[2]))
  /\ UNCHANGED <<status, numOfRecv, sEp, sPools, clientVars>>

\* Faulty: size() instead of size() - 1.
HandlerPushPastEnd(k) ==
  /\ h[k].pc = "push"
  /\ sPools' = [sPools EXCEPT ![k[2]] = Append(@, h[k].bufs)]
  /\ SetHandler(k, [h[k] EXCEPT !.pc = "chan", !.mem = Len(sPools[k[2]]) + 1,
                                !.idx = h[k].left])
  /\ UNCHANGED <<status, numOfRecv, sEp, clientVars, sock>>

(* Under rmem_lock_: the pool is published, its index is the last one. *)
HandlerPush(k) ==
  /\ h[k].pc = "push"
  /\ sPools' = [sPools EXCEPT ![k[2]] = Append(@, h[k].bufs)]
  /\ SetHandler(k, [h[k] EXCEPT !.pc = "chan", !.mem = Len(sPools[k[2]]),
                                !.idx = h[k].left])
  /\ UNCHANGED <<status, numOfRecv, sEp, clientVars, sock>>

(* The endpoint the handler is at. *)
Current(k) == sEp[k[2]][h[k].idx]
SetCurrent(k, r) == SetServerEp(k[2], h[k].idx, r)

(* SetEndpointInfo and the reply, sent before the queue pair is ready. *)
HandlerChan(k) ==
  /\ h[k].pc = "chan"
  /\ HandlerReads(k, "Chan")
  /\ SetCurrent(k, [Current(k) EXCEPT !.qpn = Head(sock[k].toS).qpn])
  /\ SetHandler(k, [h[k] EXCEPT !.pc = "activate"])
  /\ HandlerReplies(k, ChanMsg(h[k].idx))
  /\ UNCHANGED <<status, numOfRecv, sPools, clientVars>>

\* Faulty: published before the first batch is posted.
HandlerActivateEarly(k) ==
  /\ h[k].pc = "activate"
  /\ SetCurrent(k, [Current(k) EXCEPT !.peer = h[k].gid, !.activated = TRUE])
  /\ SetHandler(k, [h[k] EXCEPT !.pc = "first", !.first = RecvDepth])
  /\ UNCHANGED <<status, numOfRecv, sPools, clientVars, sock>>

HandlerActivate(k) ==
  /\ h[k].pc = "activate"
  /\ SetCurrent(k, [Current(k) EXCEPT !.peer = h[k].gid])
  /\ SetHandler(k, [h[k] EXCEPT !.pc = "first", !.first = RecvDepth])
  /\ UNCHANGED <<status, numOfRecv, sPools, clientVars, sock>>

AtMost(a, b) == IF a < b THEN a ELSE b

\* Faulty: one batch, whatever the depth of the receive queue.
HandlerFirstBatchOnce(k) ==
  /\ h[k].pc = "first"
  /\ LET n == AtMost(h[k].first, RecvBatch)
     IN  /\ SetCurrent(k, [Current(k) EXCEPT !.credits = @ - n])
         /\ SetHandler(k, [h[k] EXCEPT !.first = @ - n, !.pc = "publish"])
  /\ UNCHANGED <<status, numOfRecv, sPools, clientVars, sock>>

(* One PostRecv of the first batch; it refuses to overdraw the credits. *)
HandlerFirstBatch(k) ==
  /\ h[k].pc = "first"
  /\ LET n == AtMost(h[k].first, RecvBatch)
         left == Current(k).credits - n
     IN  /\ left >= 0
         /\ SetCurrent(k, [Current(k) EXCEPT !.credits = left])
         /\ SetHandler(k, [h[k] EXCEPT !.first = @ - n,
              !.pc = IF left > 0 THEN "first" ELSE "publish"])
  /\ UNCHANGED <<status, numOfRecv, sPools, clientVars, sock>>

(* SetActivated, SetMemId: the endpoint now belongs to ServerDatapath. *)
HandlerPublish(k) ==
  /\ h[k].pc = "publish"
  /\ SetCurrent(k, [Current(k) EXCEPT !.activated = TRUE, !.mem = h[k].mem])
  /\ SetHandler(k, [h[k] EXCEPT !.idx = @ + 1,
       !.pc = IF h[k].idx + 1 < h[k].left + h[k].qps THEN "chan" ELSE "gogo"])
  /\ UNCHANGED <<status, numOfRecv, sPools, clientVars, sock>>

HandlerGoGo(k) ==
  /\ h[k].pc = "gogo"
  /\ HandlerReads(k, "GoGo")
  /\ SetHandler(k, [h[k] EXCEPT !.pc = "done"])
  /\ HandlerRepliesAndCloses(k, GoGoMsg)
  /\ UNCHANGED <<status, numOfRecv, sEp, sPools, clientVars>>

(* goto out: end of file, a message of another type, a host message of no  *)
(* queue pair, or a failure of PickNextBuffer, Activate or PostRecv.       *)
HandlerGivesUp(k) ==
  \/ /\ h[k].pc \in Reading
     /\ sock[k].toS = << >>
     /\ ~ sock[k].cOpen
  \/ /\ h[k].pc \in Reading
     /\ sock[k].toS # << >>
     /\ ~ HandlerReads(k, Expected[h[k].pc])
  \/ /\ h[k].pc = "host"
     /\ HandlerReads(k, "Host")
     /\ Head(sock[k].toS).qps <= 0
  \/ h[k].pc = "mem" /\ sock[k].toS # << >>
  \/ h[k].pc \in {"activate", "first"}

\* Faulty: the socket stays open.
HandlerOutLeaks(k) ==
  /\ HandlerGivesUp(k)
  /\ SetHandler(k, [h[k] EXCEPT !.pc = "failed"])
  /\ UNCHANGED <<status, numOfRecv, sEp, sPools, clientVars, sock>>

\* Faulty: the reservation is returned, the endpoints stay published.
HandlerOutReturns(k) ==
  /\ HandlerGivesUp(k)
  /\ SetHandler(k, [h[k] EXCEPT !.pc = "failed"])
  /\ HandlerCloses(k)
  /\ numOfRecv' = [numOfRecv EXCEPT ![k[2]] = @ - h[k].qps]
  /\ UNCHANGED <<status, sEp, sPools, clientVars>>

(* What the handler reserved and activated so far stays as it is. *)
HandlerOut(k) ==
  /\ HandlerGivesUp(k)
  /\ SetHandler(k, [h[k] EXCEPT !.pc = "failed"])
  /\ HandlerCloses(k)
  /\ UNCHANGED <<status, numOfRecv, sEp, sPools, clientVars>>

-----------------------------------------------------------------------------
ClientStep(c) ==
  \/ ClientHello(c)
  \/ ClientRetry(c)
  \/ ClientHost(c)
  \/ ClientMem(c)
  \/ ClientPool(c)
  \/ ClientChan(c)
  \/ ClientGoGo(c)
  \/ ClientActivateFails(c)
  \/ ClientOut(c)

HandlerStep(k) ==
  \/ HandlerHost(k)
  \/ HandlerReject(k)
  \/ HandlerMem(k)
  \/ HandlerPush(k)
  \/ HandlerChan(k)
  \/ HandlerActivate(k)
  \/ HandlerFirstBatch(k)
  \/ HandlerPublish(k)
  \/ HandlerGoGo(k)
  \/ HandlerOut(k)

Next ==
  \/ \E c \in Clients : ClientStep(c) \/ ClientKilled(c)
  \/ \E s \in Servers : StartListen(s) \/ ServerExit(s)
  \/ \E k \in Conn : Accept(k) \/ HandlerStep(k)

Spec == Init /\ [][Next]_vars

(* Every thread that can run does: the scheduler runs the client's main    *)
(* thread, the listen thread and every handler thread.  Nothing makes a    *)
(* server start to listen, nothing makes a process die.                    *)
FairSpec ==
  /\ Spec
  /\ \A c \in Clients : WF_vars(ClientStep(c))
  /\ \A k \in Conn : WF_vars(Accept(k)) /\ WF_vars(HandlerStep(k))

-----------------------------------------------------------------------------
(* Types. *)

Buffers == Seq(Procs)

HandlerType ==
  [pc : HandlerPc, left : Nat, qps : Nat, mems : Nat, idx : Nat,
   bufs : Buffers, mem : Nat \cup {-1}, first : Nat,
   gid : Procs \cup {Nobody}]
ServerEpType ==
  [qpn : Nat, peer : Procs \cup {Nobody}, credits : 0 .. RecvDepth,
   activated : BOOLEAN, mem : Nat \cup {-1}]
ClientType ==
  [pc : ClientPc, connid : Servers, idx : Nat, tries : Nat, bufs : Buffers,
   gid : Procs \cup {Nobody}, mem : Nat \cup {-1}]
ClientEpType ==
  [qpn : Nat, peer : Procs \cup {Nobody}, activated : BOOLEAN,
   mem : Nat \cup {-1}]
SocketType ==
  [toS : Seq(Msg), toC : Seq(Msg), cOpen : BOOLEAN, sOpen : BOOLEAN]

(* The type of every variable. *)
TypeOK ==
  /\ status \in [Servers -> {"starting", "listening", "exited"}]
  /\ numOfRecv \in [Servers -> Nat]
  /\ h \in [Conn -> HandlerType]
  /\ sEp \in [Servers -> [Slot -> ServerEpType]]
  /\ sPools \in [Servers -> Seq(Buffers)]
  /\ cl \in [Clients -> ClientType]
  /\ DOMAIN cEp = Clients
  /\ \A c \in Clients : cEp[c] \in [Ep(c) -> ClientEpType]
  /\ cPools \in [Clients -> Seq(Buffers)]
  /\ sock \in [Conn -> SocketType]

-----------------------------------------------------------------------------
(* Safety. *)

Reserved(k) == h[k].left .. (h[k].left + h[k].qps - 1)

(* The handlers of one server, however they interleave, never reserve more *)
(* endpoints than it has, never the same one twice, and none beyond        *)
(* num_of_recv_: the overflow check and the reservation are one critical   *)
(* section.                                                                *)
SlotsExclusive ==
  /\ \A s \in Servers : numOfRecv[s] <= Capacity
  /\ \A k \in Conn : Reserved(k) \subseteq 0 .. (numOfRecv[k[2]] - 1)
  /\ \A k, l \in Conn :
       k # l /\ k[2] = l[2] => Reserved(k) \cap Reserved(l) = {}

(* An endpoint a handler is still filling has not been published, so that  *)
(* ServerDatapath, which posts to published endpoints only, never posts to *)
(* it at the same time; and what is left of the first batch is what is     *)
(* left of the credits, so the first batch ends with no credit left.       *)
FirstBatchUndisturbed ==
  \A k \in Conn :
    h[k].pc \in {"activate", "first", "publish"} =>
      LET e == sEp[k[2]][h[k].idx]
      IN  /\ h[k].idx \in Reserved(k)
          /\ ~ e.activated
          /\ h[k].pc = "first" => e.credits = h[k].first

(* A client endpoint that may send is connected to a server endpoint that  *)
(* is connected back to it, published, and has its whole receive queue     *)
(* posted - although the server answers every ChannelInfo before its own   *)
(* queue pair is ready.  Hence no two senders share a receiver either.     *)
SendersArePaired ==
  \A c \in Clients : \A i \in Ep(c) :
    LET e == cEp[c][i]
    IN  e.activated =>
          /\ e.peer \in Servers
          /\ e.qpn \in Slot
          /\ LET r == sEp[e.peer][e.qpn]
             IN  r.activated /\ r.peer = c /\ r.qpn = i /\ r.credits = 0

Registered(pools, id, p) ==
  /\ id + 1 \in DOMAIN pools
  /\ pools[id + 1] = [b \in 1 .. BufNum |-> p]

(* The remote pool of an endpoint in use exists and holds buffers of the   *)
(* very process the endpoint is connected to, also after earlier Connect   *)
(* calls failed half way and while several handlers publish pools.         *)
PoolsOfThePeer ==
  /\ \A c \in Clients : \A i \in Ep(c) :
       cEp[c][i].activated =>
         Registered(cPools[c], cEp[c][i].mem, cEp[c][i].peer)
  /\ \A s \in Servers : \A i \in Slot :
       sEp[s][i].activated =>
         Registered(sPools[s], sEp[s][i].mem, sEp[s][i].peer)

(* The two sides of a connection stay in lockstep: one message in flight   *)
(* at most, and whoever reads it is waiting for a message of its type; the *)
(* "type error" branches of both sides are dead between these programs.    *)
Lockstep ==
  /\ \A k \in Conn : Len(sock[k].toS) + Len(sock[k].toC) <= 1
  /\ \A c \in Clients :
       cl[c].pc \in Reading /\ sock[At(c)].toC # << >> =>
         ClientReads(c, Expected[cl[c].pc])
  /\ \A k \in Conn :
       h[k].pc \in Reading /\ sock[k].toS # << >> =>
         HandlerReads(k, Expected[h[k].pc])

(* Husky starts its datapath threads only when every endpoint of the       *)
(* context is connected; Collie's main goes on with those it has.          *)
RunsComplete ==
  ContinueOnFailure
    \/ \A c \in Clients : cl[c].pc = "run" =>
         \A i \in Ep(c) : cEp[c][i].activated

(* A published server endpoint keeps its partner and its pool for the rest *)
(* of the run: no later handshake, of whatever client, touches it.         *)
PublishedForGood ==
  [][\A s \in Servers : \A i \in Slot :
       sEp[s][i].activated => sEp'[s][i] = sEp[s][i]]_vars

-----------------------------------------------------------------------------
(* Liveness, under FairSpec. *)

(* main gets through its list of hosts, whatever servers and connections   *)
(* do: no read() waits for ever, because the other side always answers or  *)
(* closes.                                                                 *)
ClientsSettle == \A c \in Clients : <>(cl[c].pc \in {"run", "exit"})

(* Every AcceptHandler returns. *)
HandlersReturn ==
  \A k \in Conn : h[k].pc = "host" ~> h[k].pc \in {"done", "failed"}

-----------------------------------------------------------------------------
(* The promise of the handshake is the specification QpPairing: a client's *)
(* endpoints are linked to a block of server endpoints of its own, all at  *)
(* once and in order.                                                      *)
Pairing == INSTANCE QpPairing WITH
  granted <- numOfRecv,
  block <- [k \in Conn |-> IF h[k].qps > 0 THEN h[k].left ELSE -1],
  link <- [c \in Clients |-> [i \in Ep(c) |->
             IF cEp[c][i].activated
             THEN <<cEp[c][i].peer, cEp[c][i].qpn>> ELSE << >>]]

(* The handshake implements QpPairing. *)
ImplementsPairing == Pairing!Spec

=============================================================================
