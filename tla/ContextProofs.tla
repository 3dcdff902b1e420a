--------------------------- MODULE ContextProofs ---------------------------
(***************************************************************************)
(* Proofs about Context, for all command lines and any number of handlers. *)
(***************************************************************************)
EXTENDS Context, TLAPS

Rgn == [queue : Seq(Nat), ret : Nat]
Programs ==
  [at : {"off", "parse", "announce", "post", "stop"}, reqs : Seq(Nat), left : Nat]
Picks ==
  [at : {"no", "front", "pop", "push", "turn", "load", "store", "wrap"},
   id : Nat, buf : {NoBuffer} \cup Nat]

-----------------------------------------------------------------------------
(* Types. *)

(* What the command line may be. *)
LEMMA FlagFacts ==
  ASSUME flags \in Settings
  PROVE  /\ flags.husky \in BOOLEAN /\ flags.server \in BOOLEAN
         /\ flags.sharePd \in BOOLEAN /\ flags.shareCq \in BOOLEAN
         /\ flags.hosts \in Nat \ {0} /\ flags.qps \in Nat \ {0}
         /\ flags.mrs \in Nat /\ flags.bufs \in Nat
         /\ flags.cqDepth \in Nat /\ flags.recvDepth \in Nat
         /\ flags.pattern \in Seq(Nat)
  BY ContextAssumption DEF Setting

LEMMA ProductFacts ==
  ASSUME NEW a \in Nat \ {0}, NEW b \in Nat \ {0}
  PROVE  a * b \in Nat \ {0} /\ (a = 1 => a * b = b)
  OBVIOUS

LEMMA SizeFacts ==
  ASSUME flags \in Settings
  PROVE  /\ NumQps(flags) \in Nat \ {0}
         /\ NumPds \in Nat \ {0} /\ NumCqs \in Nat \ {0}
  BY FlagFacts, ProductFacts DEF NumQps, NumPds, NumCqs

LEMMA TypeFacts ==
  ASSUME TypeOK
  PROVE  /\ pool \in [0 .. 1 -> Seq(Rgn)]
         /\ thread \in [Threads -> Programs]
         /\ pick \in [Threads -> Picks]
         /\ cur \in Nat /\ flags \in Settings /\ raced \in BOOLEAN
  BY DEF TypeOK, Rgn, Programs, Picks

LEMMA PoolOfFact ==
  ASSUME NEW t \in Threads
  PROVE  PoolOf(t) \in 0 .. 1
  BY DEF PoolOf

LEMMA RegionFact == flags \in Settings => Region \in Rgn
  BY FlagFacts DEF Region, Rgn

LEMMA RegionsFact ==
  ASSUME flags \in Settings, NEW n \in Nat
  PROVE  Regions(n) \in Seq(Rgn) /\ Len(Regions(n)) = n
         /\ DOMAIN Regions(n) = 1 .. n /\ \A i \in 1 .. n : Regions(n)[i] = Region
  BY RegionFact DEF Regions

(* A sequence of which one element is replaced. *)
LEMMA ReplaceOne ==
  ASSUME NEW S, NEW s \in Seq(S), NEW i \in DOMAIN s, NEW x \in S
  PROVE  /\ [s EXCEPT ![i] = x] \in Seq(S)
         /\ Len([s EXCEPT ![i] = x]) = Len(s)
  OBVIOUS

(* A region of a pool is replaced. *)
LEMMA NewRegion ==
  ASSUME NEW p \in 0 .. 1, pool \in [0 .. 1 -> Seq(Rgn)], NEW i \in DOMAIN pool[p],
         NEW r \in Rgn, pool' = [pool EXCEPT ![p][i] = r]
  PROVE  /\ pool' \in [0 .. 1 -> Seq(Rgn)]
         /\ \A q \in 0 .. 1 : /\ Len(pool'[q]) = Len(pool[q])
                              /\ DOMAIN pool'[q] = DOMAIN pool[q]
         /\ \A q \in 0 .. 1 : \A j \in DOMAIN pool[q] :
              pool'[q][j] = IF q = p /\ j = i THEN r ELSE pool[q][j]
  <1>1. pool' = [pool EXCEPT ![p] = [pool[p] EXCEPT ![i] = r]]
    OBVIOUS
  <1>2. pool[p] \in Seq(Rgn)
    OBVIOUS
  <1>3. /\ [pool[p] EXCEPT ![i] = r] \in Seq(Rgn)
        /\ Len([pool[p] EXCEPT ![i] = r]) = Len(pool[p])
    BY <1>2, ReplaceOne
  <1>4. DOMAIN [pool[p] EXCEPT ![i] = r] = DOMAIN pool[p]
    OBVIOUS
  <1>. QED
    BY <1>1, <1>3, <1>4

-----------------------------------------------------------------------------
(* TypeOK is inductive together with where a pick may be: a thread picks   *)
(* only when it has something to pick, after Init, and between PickIndex   *)
(* and Load its index is that of a region.                                 *)

AtRegion == {"front", "pop", "push", "turn"}

SeatedAt(t) ==
  /\ thread[t].at \in {"off", "stop"} => thread[t].left = 0
  /\ pick[t].at # "no" => thread[t].left > 0
  /\ pick[t].at \in AtRegion => pick[t].id < Len(pool[PoolOf(t)])
  /\ pick[t].at \in {"pop", "push", "turn"} => pick[t].buf \in Nat

Seated ==
  /\ main # "ready" => \A t \in Threads : thread[t].at = "off"
  /\ \A t \in Threads : SeatedAt(t)

Base == TypeOK /\ Seated

LEMMA BaseInit == Init => Base
  <1>. SUFFICES ASSUME Init PROVE Base
    OBVIOUS
  <1>1. pool \in [0 .. 1 -> Seq([queue : Seq(Nat), ret : Nat])]
    BY DEF Init
  <1>2. /\ thread \in [Threads ->
             [at : {"off", "parse", "announce", "post", "stop"},
              reqs : Seq(Nat), left : Nat]]
        /\ \A t \in Threads : thread[t].at = "off" /\ thread[t].left = 0
    BY DEF Init, Off
  <1>3. /\ pick \in [Threads ->
             [at : {"no", "front", "pop", "push", "turn", "load", "store", "wrap"},
              id : Nat, buf : {NoBuffer} \cup Nat]]
        /\ \A t \in Threads : pick[t].at = "no"
    BY DEF Init, Idle
  <1>4. TypeOK
    BY <1>1, <1>2, <1>3 DEF Init, TypeOK
  <1>5. Seated
    BY <1>2, <1>3 DEF Seated, SeatedAt, AtRegion
  <1>. QED
    BY <1>4, <1>5 DEF Base

(* Before Init is done no thread runs. *)
LEMMA Early ==
  ASSUME Base, main # "ready"
  PROVE  \A t \in Threads : /\ thread[t].at = "off" /\ thread[t].left = 0
                            /\ pick[t].at = "no"
  <1>. SUFFICES ASSUME NEW t \in Threads
                PROVE  /\ thread[t].at = "off" /\ thread[t].left = 0
                       /\ pick[t].at = "no"
    OBVIOUS
  <1>1. thread[t].at = "off"
    BY DEF Base, Seated
  <1>2. thread[t].left = 0
    BY <1>1 DEF Base, Seated, SeatedAt
  <1>3. pick[t].at = "no"
    BY <1>2 DEF Base, Seated, SeatedAt
  <1>. QED
    BY <1>1, <1>2, <1>3

(* A thread that runs or picks does so after Init. *)
LEMMA Later ==
  ASSUME Base, NEW t \in Threads,
         thread[t].at # "off" \/ Pending(t) \/ pick[t].at # "no"
  PROVE  main = "ready"
  BY Early DEF Pending

(* A step of Init keeps what the threads have. *)
LEMMA InitKeeps ==
  ASSUME Base, main # "ready", UNCHANGED <<thread, pick>>
  PROVE  Seated'
  <1>1. \A t \in Threads : /\ thread'[t].at = "off" /\ thread'[t].left = 0
                           /\ pick'[t].at = "no"
    BY Early
  <1>. QED
    BY <1>1 DEF Seated, SeatedAt, AtRegion

LEMMA BaseInitStep ==
  ASSUME Base, InitStep
  PROVE  Base'
  <1>1. main # "ready"
    BY DEF InitStep, InitDevice, AllocPds, CollieRegions, HuskyRegions,
           NoPdForRegion, CreateCqs, InitTransport, NoPdForQp
  <1>2. UNCHANGED <<flags, cur, thread, pick, raced>>
    BY DEF InitStep, InitDevice, AllocPds, CollieRegions, HuskyRegions,
           NoPdForRegion, CreateCqs, InitTransport, NoPdForQp, pickVars
  <1>3. Seated'
    BY <1>1, <1>2, InitKeeps
  <1>4. flags \in Settings
    BY DEF Base, TypeOK
  <1>5. NumPds \in Nat /\ NumCqs \in Nat
    BY <1>4, SizeFacts
  <1>6. pool' \in [0 .. 1 -> Seq(Rgn)]
    <2>1. CASE UNCHANGED pool
      BY <2>1, TypeFacts DEF Base
    <2>2. CASE CollieRegions
      <3>1. PICK k \in 0 .. (2 * flags.mrs) :
              pool' = [p \in 0 .. 1 |-> Regions((k + 1 - p) \div 2)]
        BY <2>2 DEF CollieRegions
      <3>2. \A p \in 0 .. 1 : (k + 1 - p) \div 2 \in Nat
        BY <1>4, FlagFacts
      <3>3. \A p \in 0 .. 1 : Regions((k + 1 - p) \div 2) \in Seq(Rgn)
        BY <1>4, <3>2, RegionsFact
      <3>. QED
        BY <3>1, <3>3
    <2>3. CASE HuskyRegions
      <3>1. PICK k \in 0 .. flags.mrs, n \in 0 .. 1 :
              pool' = [p \in 0 .. 1 |-> Regions(IF p = 0 THEN k ELSE n)]
        BY <2>3 DEF HuskyRegions
      <3>2. \A p \in 0 .. 1 : Regions(IF p = 0 THEN k ELSE n) \in Seq(Rgn)
        BY <1>4, FlagFacts, RegionsFact
      <3>. QED
        BY <3>1, <3>2
    <2>. QED
      BY <2>1, <2>2, <2>3
         DEF InitStep, InitDevice, AllocPds, NoPdForRegion, CreateCqs,
             InitTransport, NoPdForQp, pickVars
  <1>7. pds' \in Nat /\ cqs' \in Nat
    BY <1>5 DEF Base, TypeOK, InitStep, InitDevice, AllocPds, CollieRegions,
           HuskyRegions, NoPdForRegion, CreateCqs, InitTransport, NoPdForQp
  <1>8. ep' \in [0 .. (NumQps(flags) - 1) -> {"null", "live", "deleted"}]
    BY DEF Base, TypeOK, InitStep, InitDevice, AllocPds, CollieRegions,
           HuskyRegions, NoPdForRegion, CreateCqs, InitTransport, NoPdForQp
  <1>9. /\ main' \in {"device", "pds", "regions", "cqs", "transport", "ready",
                      "failed", "crashed"}
        /\ fault' \in {"none", "range", "null"}
    BY DEF Base, TypeOK, InitStep, InitDevice, AllocPds, CollieRegions,
           HuskyRegions, NoPdForRegion, CreateCqs, InitTransport, NoPdForQp,
           AfterQps
  <1>. QED
    BY <1>2, <1>3, <1>6, <1>7, <1>8, <1>9 DEF Base, TypeOK, Rgn

(* A step of one thread: what the others have is theirs, and pools keep    *)
(* their lengths.                                                          *)
LEMMA StepKeeps ==
  ASSUME Base, NEW t \in Threads, main = "ready", UNCHANGED setupVars,
         thread' \in [Threads -> Programs], pick' \in [Threads -> Picks],
         \A u \in Threads \ {t} : thread'[u] = thread[u] /\ pick'[u] = pick[u],
         pool' \in [0 .. 1 -> Seq(Rgn)],
         \A p \in 0 .. 1 : Len(pool'[p]) = Len(pool[p]),
         cur' \in Nat, raced' \in BOOLEAN, fault' \in {"none", "range", "null"},
         SeatedAt(t)'
  PROVE  Base'
  <1>1. UNCHANGED <<flags, main, pds, cqs, ep>>
    BY DEF setupVars
  <1>2. ASSUME NEW u \in Threads \ {t}
        PROVE  SeatedAt(u)'
    <2>1. SeatedAt(u)
      BY DEF Base, Seated
    <2>2. PoolOf(u)' = PoolOf(u)
      BY <1>1 DEF PoolOf
    <2>3. Len(pool'[PoolOf(u)']) = Len(pool[PoolOf(u)])
      BY <2>2, PoolOfFact
    <2>. QED
      BY <2>1, <2>2, <2>3 DEF SeatedAt
  <1>3. Seated'
    BY <1>1, <1>2 DEF Seated
  <1>4. TypeOK'
    BY <1>1 DEF Base, TypeOK, Programs, Picks, Rgn
  <1>. QED
    BY <1>3, <1>4 DEF Base

(* A step of a thread's program, between picks. *)
ProgramStep(t) ==
  \/ Start(t) \/ ParseOne(t) \/ ParseDone(t) \/ Post(t)
  \/ FirstBatch(t) \/ HandlerReturns(t)
  \/ t = Datapath /\ ConnectReturns

(* Only its own program changes, to one that has something to pick only    *)
(* when it runs, and no pick is under way.                                 *)
LEMMA ProgramFacts ==
  ASSUME Base, NEW t \in Threads, ProgramStep(t)
  PROVE  /\ main = "ready" /\ pick[t].at = "no"
         /\ UNCHANGED <<setupVars, pool, cur, pick, raced, fault>>
         /\ thread' \in [Threads -> Programs]
         /\ \A u \in Threads \ {t} : thread'[u] = thread[u]
         /\ thread'[t].at \in {"off", "stop"} => thread'[t].left = 0
  <1>1. /\ thread[t] \in Programs /\ flags.bufs \in Nat
        /\ flags.pattern \in Seq(Nat) /\ SeatedAt(t)
        /\ thread \in [Threads -> Programs]
    BY TypeFacts, FlagFacts DEF Base, Seated
  <1>0. Off \in Programs
    <2>1. << >> \in Seq(Nat)
      OBVIOUS
    <2>. QED
      BY <2>1 DEF Off, Programs
  <1>2. main = "ready"
    <2>1. CASE Start(t)
      BY <2>1 DEF Start
    <2>2. CASE ~ Start(t)
      <3>1. thread[t].at # "off"
        BY <2>2 DEF ProgramStep, ParseOne, ParseDone, Post, FirstBatch,
               HandlerReturns, ConnectReturns
      <3>. QED
        BY <3>1, Later
    <2>. QED
      BY <2>1, <2>2
  <1>3. pick[t].at = "no"
    <2>0. ~ Pending(t) => pick[t].at = "no"
      BY <1>1 DEF SeatedAt, Pending
    <2>1. CASE Start(t)
      <3>1. thread[t].at = "off"
        BY <2>1 DEF Start
      <3>2. thread[t].left = 0
        BY <1>1, <3>1 DEF SeatedAt
      <3>. QED
        BY <2>0, <3>2 DEF Pending
    <2>2. CASE ParseOne(t)
      BY <2>0, <2>2 DEF ParseOne
    <2>3. CASE ParseDone(t)
      BY <2>0, <2>3 DEF ParseDone
    <2>4. CASE Post(t)
      BY <2>0, <2>4 DEF Post
    <2>5. CASE FirstBatch(t)
      BY <2>0, <2>5 DEF FirstBatch
    <2>6. CASE HandlerReturns(t)
      BY <2>6 DEF HandlerReturns
    <2>7. CASE t = Datapath /\ ConnectReturns
      BY <2>7 DEF ConnectReturns
    <2>. QED
      BY <2>1, <2>2, <2>3, <2>4, <2>5, <2>6, <2>7 DEF ProgramStep
  <1>4. UNCHANGED <<setupVars, pool, cur, pick, raced, fault>>
    BY DEF ProgramStep, Start, ParseOne, ParseDone, Post, FirstBatch,
           HandlerReturns, ConnectReturns
  <1>5. \E th \in Programs :
          /\ thread' = [thread EXCEPT ![t] = th]
          /\ th.at \in {"off", "stop"} => th.left = 0
    <2>1. CASE Start(t)
      <3>. DEFINE th == IF flags.server THEN [Off EXCEPT !.at = "parse"]
                        ELSE [Off EXCEPT !.at = "announce", !.left = flags.bufs]
      <3>1. thread' = [thread EXCEPT ![t] = th]
        BY <2>1 DEF Start
      <3>2. th \in Programs /\ th.at \notin {"off", "stop"}
        <4>1. CASE flags.server
          BY <1>0, <4>1 DEF Programs
        <4>2. CASE ~ flags.server
          BY <1>0, <1>1, <4>2 DEF Programs
        <4>. QED
          BY <4>1, <4>2
      <3>. QED
        BY <3>1, <3>2
    <2>2. CASE ParseOne(t)
      <3>. DEFINE n == Len(thread[t].reqs)
                  th == [thread[t] EXCEPT !.reqs = Append(@, flags.pattern[n + 1]),
                                          !.left = flags.pattern[n + 1]]
      <3>1. thread' = [thread EXCEPT ![t] = th] /\ th.at = "parse"
        BY <1>1, <2>2 DEF ParseOne, Programs
      <3>2. n \in Nat /\ n < Len(flags.pattern)
        BY <1>1, <2>2 DEF ParseOne, Readable, Programs
      <3>3. flags.pattern[n + 1] \in Nat
        BY <1>1, <3>2
      <3>4. th \in Programs
        <4>1. thread[t].reqs \in Seq(Nat)
          BY <1>1 DEF Programs
        <4>2. Append(thread[t].reqs, flags.pattern[n + 1]) \in Seq(Nat)
          BY <3>3, <4>1
        <4>. QED
          BY <1>1, <3>3, <4>2 DEF Programs
      <3>. QED
        BY <3>1, <3>4
    <2>3. CASE ParseDone(t)
      <3>. DEFINE th == IF t = Datapath THEN [thread[t] EXCEPT !.at = "post"]
             ELSE [thread[t] EXCEPT !.at = "announce", !.left = flags.bufs]
      <3>1. thread' = [thread EXCEPT ![t] = th]
        BY <1>1, <2>3 DEF ParseDone
      <3>2. th \in Programs /\ th.at \notin {"off", "stop"}
        BY <1>1 DEF Programs
      <3>. QED
        BY <3>1, <3>2
    <2>4. CASE Post(t)
      <3>. DEFINE th == [thread[t] EXCEPT !.left = 1]
      <3>1. thread' = [thread EXCEPT ![t] = th] /\ thread[t].at = "post"
        BY <1>1, <2>4 DEF Post
      <3>2. th \in Programs /\ th.at \notin {"off", "stop"}
        BY <1>1, <3>1 DEF Programs
      <3>. QED
        BY <3>1, <3>2
    <2>5. CASE FirstBatch(t)
      <3>. DEFINE th == [thread[t] EXCEPT !.at = "post"]
      <3>1. thread' = [thread EXCEPT ![t] = th]
        BY <1>1, <2>5 DEF FirstBatch
      <3>2. th \in Programs /\ th.at \notin {"off", "stop"}
        BY <1>1 DEF Programs
      <3>. QED
        BY <3>1, <3>2
    <2>6. CASE HandlerReturns(t)
      <3>1. thread' = [thread EXCEPT ![t] = Off]
        BY <2>6 DEF HandlerReturns
      <3>2. Off \in Programs /\ Off.left = 0
        BY DEF Off, Programs
      <3>. QED
        BY <3>1, <3>2
    <2>7. CASE t = Datapath /\ ConnectReturns
      <3>. DEFINE th1 == [Off EXCEPT !.at = "stop"]
                  th2 == [thread[t] EXCEPT !.left = flags.bufs]
                  th3 == [thread[t] EXCEPT !.left = 0, !.at = "parse"]
      <3>1. /\ thread[t].at = "announce"
            /\ \E th \in {th1, th2, th3} : thread' = [thread EXCEPT ![t] = th]
        BY <1>1, <2>7 DEF ConnectReturns
      <3>2. /\ th1 \in Programs /\ th2 \in Programs /\ th3 \in Programs
            /\ th1.left = 0 /\ th3.at = "parse" /\ th2.at = "announce"
        BY <1>0, <1>1, <3>1 DEF Off, Programs
      <3>. QED
        BY <3>1, <3>2
    <2>. QED
      BY <2>1, <2>2, <2>3, <2>4, <2>5, <2>6, <2>7 DEF ProgramStep
  <1>. QED
    BY <1>1, <1>2, <1>3, <1>4, <1>5

LEMMA BaseProgramStep ==
  ASSUME Base, NEW t \in Threads, ProgramStep(t)
  PROVE  Base'
  <1>1. /\ main = "ready" /\ pick[t].at = "no"
        /\ UNCHANGED <<setupVars, pool, cur, pick, raced, fault>>
        /\ thread' \in [Threads -> Programs]
        /\ \A u \in Threads \ {t} : thread'[u] = thread[u]
        /\ thread'[t].at \in {"off", "stop"} => thread'[t].left = 0
    BY ProgramFacts
  <1>2. SeatedAt(t)'
    BY <1>1 DEF SeatedAt, AtRegion
  <1>3. /\ pick' \in [Threads -> Picks] /\ pool' \in [0 .. 1 -> Seq(Rgn)]
        /\ cur' \in Nat /\ raced' \in BOOLEAN
        /\ fault' \in {"none", "range", "null"}
    BY <1>1, TypeFacts DEF Base, TypeOK
  <1>. QED
    BY <1>1, <1>2, <1>3, StepKeeps

(* What a pick at a region finds there. *)
LEMMA RegionFacts ==
  ASSUME Base, NEW t \in Threads, pick[t].at \in AtRegion
  PROVE  /\ pick[t].id + 1 \in DOMAIN pool[PoolOf(t)]
         /\ RegionOf(t) \in Rgn
         /\ RegionOf(t) = pool[PoolOf(t)][pick[t].id + 1]
         /\ PoolOf(t) \in 0 .. 1
  <1>1. /\ pick[t] \in Picks /\ PoolOf(t) \in 0 .. 1
        /\ pool \in [0 .. 1 -> Seq(Rgn)]
    BY TypeFacts, PoolOfFact DEF Base
  <1>2. pick[t].id < Len(pool[PoolOf(t)])
    BY DEF Base, Seated, SeatedAt
  <1>3. pool[PoolOf(t)] \in Seq(Rgn) /\ pick[t].id \in Nat
    BY <1>1 DEF Picks
  <1>. QED
    BY <1>1, <1>2, <1>3 DEF RegionOf

(* The buffers of a region, and its index, are replaced. *)
LEMMA SetRegionFacts ==
  ASSUME Base, NEW t \in Threads, pick[t].at \in AtRegion,
         NEW r \in Rgn, SetRegion(t, r)
  PROVE  /\ pool' \in [0 .. 1 -> Seq(Rgn)]
         /\ \A q \in 0 .. 1 : /\ Len(pool'[q]) = Len(pool[q])
                              /\ DOMAIN pool'[q] = DOMAIN pool[q]
         /\ \A q \in 0 .. 1 : \A j \in DOMAIN pool[q] :
              pool'[q][j] = IF q = PoolOf(t) /\ j = pick[t].id + 1 THEN r
                            ELSE pool[q][j]
  <1>1. /\ pick[t].id + 1 \in DOMAIN pool[PoolOf(t)] /\ PoolOf(t) \in 0 .. 1
        /\ pool \in [0 .. 1 -> Seq(Rgn)]
    BY RegionFacts, TypeFacts DEF Base
  <1>2. pool' = [pool EXCEPT ![PoolOf(t)][pick[t].id + 1] = r]
    BY DEF SetRegion
  <1>3. \A p \in 0 .. 1 : \A i \in DOMAIN pool[p] :
          pool' = [pool EXCEPT ![p][i] = r] =>
            /\ pool' \in [0 .. 1 -> Seq(Rgn)]
            /\ \A q \in 0 .. 1 : /\ Len(pool'[q]) = Len(pool[q])
                                 /\ DOMAIN pool'[q] = DOMAIN pool[q]
            /\ \A q \in 0 .. 1 : \A j \in DOMAIN pool[q] :
                 pool'[q][j] = IF q = p /\ j = i THEN r ELSE pool[q][j]
    BY <1>1, NewRegion
  <1>. HIDE DEF NoBuffer
  <1>. QED
    BY <1>1, <1>2, <1>3

(* A null result: the program crashes, or goes on without anything to pick. *)
LEMMA NothingFacts ==
  ASSUME Base, NEW t \in Threads, Nothing(t), UNCHANGED flags
  PROVE  /\ thread' \in [Threads -> Programs]
         /\ \A u \in Threads \ {t} : thread'[u] = thread[u]
         /\ \/ fault' = "null" /\ thread' = thread
            \/ /\ fault' = fault /\ thread[t].at = "announce"
               /\ thread'[t].left = 0
               /\ thread'[t].at \in {"off", "stop", "parse"}
               /\ ~ flags.server => thread'[t].at # "off"
  <1>1. thread \in [Threads -> Programs]
    BY TypeFacts DEF Base
  <1>2. << >> \in Seq(Nat)
    OBVIOUS
  <1>3. CASE thread[t].at # "announce"
    BY <1>1, <1>3 DEF Nothing
  <1>4. CASE thread[t].at = "announce"
    <2>. DEFINE th == IF flags.server THEN Off
                      ELSE IF flags.husky THEN [Off EXCEPT !.at = "stop"]
                      ELSE [Off EXCEPT !.at = "parse"]
    <2>1. thread' = [thread EXCEPT ![t] = th] /\ fault' = fault
      BY <1>4 DEF Nothing
    <2>2. /\ th \in Programs /\ th.left = 0 /\ th.at \in {"off", "stop", "parse"}
          /\ ~ flags.server => th.at # "off"
      BY <1>2 DEF Off, Programs
    <2>. HIDE DEF th
    <2>. QED
      BY <1>1, <1>4, <2>1, <2>2
  <1>. QED
    BY <1>3, <1>4

LEMMA NewPick ==
  ASSUME Base, NEW t \in Threads, NEW pk \in Picks,
         pick' = [pick EXCEPT ![t] = pk]
  PROVE  /\ pick' \in [Threads -> Picks] /\ pick'[t] = pk
         /\ \A u \in Threads \ {t} : pick'[u] = pick[u]
  <1>1. pick \in [Threads -> Picks]
    BY TypeFacts DEF Base
  <1>. QED
    BY <1>1

(* How each step of a pick changes it. *)
LEMMA PickChanges ==
  ASSUME Base, NEW t \in Threads, PickStep(t)
  PROVE  /\ main = "ready" /\ UNCHANGED setupVars
         /\ pick' \in [Threads -> Picks]
         /\ \A u \in Threads \ {t} : pick'[u] = pick[u]
         /\ PickNone(t) => pick' = pick
         /\ PickIndex(t) =>
              \/ pick' = pick
              \/ pick'[t] = [at |-> "front", id |-> cur, buf |-> NoBuffer]
         /\ FrontOfNone(t) => pick'[t] = [pick[t] EXCEPT !.at = "load"]
         /\ Front(t) =>
              /\ RegionOf(t).queue # << >> /\ Head(RegionOf(t).queue) \in Nat
              /\ pick'[t] = [pick[t] EXCEPT !.at = "pop",
                                            !.buf = Head(RegionOf(t).queue)]
         /\ Pop(t) => \/ pick' = pick
                      \/ pick'[t] = [pick[t] EXCEPT !.at = "push"]
         /\ Push(t) => pick'[t] = [pick[t] EXCEPT !.at = "load"]
         /\ Take(t) =>
              \/ pick' = pick
              \/ /\ RegionOf(t).queue[RegionOf(t).ret + 1] \in Nat
                 /\ pick'[t] = [pick[t] EXCEPT !.at = "turn",
                      !.buf = RegionOf(t).queue[RegionOf(t).ret + 1]]
         /\ Turn(t) => pick'[t] = [pick[t] EXCEPT !.at = "load"]
         /\ Load(t) => pick'[t] = [pick[t] EXCEPT !.at = "store", !.id = cur + 1]
         /\ Store(t) => pick'[t] = [pick[t] EXCEPT !.at = "wrap"]
         /\ Wrap(t) => pick'[t] = Idle
  <1>. DEFINE P(pk) == pk \in Picks /\ pick' = [pick EXCEPT ![t] = pk]
  <1>1. ASSUME NEW pk, P(pk)
        PROVE  /\ pick' \in [Threads -> Picks] /\ pick'[t] = pk
               /\ \A u \in Threads \ {t} : pick'[u] = pick[u]
    BY <1>1, NewPick
  <1>2. /\ pick \in [Threads -> Picks] /\ pick[t] \in Picks /\ cur \in Nat
    BY TypeFacts DEF Base
  <1>3. main = "ready"
    <2>1. PickNone(t) \/ PickIndex(t) => Pending(t)
      BY DEF PickNone, PickIndex
    <2>2. ~ (PickNone(t) \/ PickIndex(t)) => pick[t].at # "no"
      BY DEF PickStep, FrontOfNone, Front, Pop, Push, Take, Turn, Load, Store, Wrap
    <2>. QED
      BY <2>1, <2>2, Later
  <1>4. UNCHANGED setupVars
    BY DEF PickStep, PickNone, PickIndex, FrontOfNone, Front, Pop, Push, Take,
           Turn, Load, Store, Wrap
  <1>5. PickNone(t) => pick' = pick
    BY DEF PickNone
  <1>6. PickIndex(t) => \/ pick' = pick
                        \/ P([at |-> "front", id |-> cur, buf |-> NoBuffer])
    BY <1>2 DEF PickIndex, Idle, Picks
  <1>7. FrontOfNone(t) => P([pick[t] EXCEPT !.at = "load"])
    BY <1>2 DEF FrontOfNone, Picks
  <1>8. Front(t) => /\ RegionOf(t).queue # << >>
                    /\ Head(RegionOf(t).queue) \in Nat
                    /\ P([pick[t] EXCEPT !.at = "pop",
                                         !.buf = Head(RegionOf(t).queue)])
    <2>. SUFFICES ASSUME Front(t)
                  PROVE  /\ RegionOf(t).queue # << >>
                         /\ Head(RegionOf(t).queue) \in Nat
                         /\ P([pick[t] EXCEPT !.at = "pop",
                                              !.buf = Head(RegionOf(t).queue)])
      OBVIOUS
    <2>1. RegionOf(t) \in Rgn
      BY RegionFacts DEF Front, AtRegion
    <2>2. RegionOf(t).queue \in Seq(Nat) /\ RegionOf(t).queue # << >>
      BY <2>1 DEF Rgn, Front
    <2>3. Head(RegionOf(t).queue) \in Nat
      BY <2>2
    <2>. QED
      BY <1>2, <2>2, <2>3 DEF Front, Picks
  <1>9. Pop(t) => pick' = pick \/ P([pick[t] EXCEPT !.at = "push"])
    BY <1>2 DEF Pop, Picks
  <1>10. Push(t) => P([pick[t] EXCEPT !.at = "load"])
    BY <1>2 DEF Push, Picks
  <1>11. Take(t) =>
           \/ pick' = pick
           \/ /\ RegionOf(t).queue[RegionOf(t).ret + 1] \in Nat
              /\ P([pick[t] EXCEPT !.at = "turn",
                      !.buf = RegionOf(t).queue[RegionOf(t).ret + 1]])
    <2>. SUFFICES ASSUME Take(t), pick' # pick
                  PROVE  /\ RegionOf(t).queue[RegionOf(t).ret + 1] \in Nat
                         /\ P([pick[t] EXCEPT !.at = "turn",
                               !.buf = RegionOf(t).queue[RegionOf(t).ret + 1]])
      OBVIOUS
    <2>1. RegionOf(t) \in Rgn
      BY RegionFacts DEF Take, AtRegion
    <2>2. RegionOf(t).queue \in Seq(Nat) /\ RegionOf(t).ret \in Nat
      BY <2>1 DEF Rgn
    <2>3. RegionOf(t).ret < Len(RegionOf(t).queue)
      BY DEF Take
    <2>4. RegionOf(t).queue[RegionOf(t).ret + 1] \in Nat
      BY <2>2, <2>3
    <2>. QED
      BY <1>2, <2>3, <2>4 DEF Take, Picks
  <1>12. Turn(t) => P([pick[t] EXCEPT !.at = "load"])
    BY <1>2 DEF Turn, Picks
  <1>13. Load(t) => P([pick[t] EXCEPT !.at = "store", !.id = cur + 1])
    <2>1. cur + 1 \in Nat
      BY <1>2
    <2>. QED
      BY <1>2, <2>1 DEF Load, Picks
  <1>14. Store(t) => P([pick[t] EXCEPT !.at = "wrap"])
    BY <1>2 DEF Store, Picks
  <1>15. Wrap(t) => P(Idle)
    BY <1>2 DEF Wrap, Idle, Picks
  <1>16. pick' = pick \/ \E pk \in Picks : P(pk)
    BY <1>5, <1>6, <1>7, <1>8, <1>9, <1>10, <1>11, <1>12, <1>13, <1>14, <1>15
       DEF PickStep
  <1>17. /\ pick' \in [Threads -> Picks]
         /\ \A u \in Threads \ {t} : pick'[u] = pick[u]
    BY <1>1, <1>2, <1>16
  <1>18. \A pk : P(pk) => pick'[t] = pk
    BY <1>1
  <1>. HIDE DEF P
  <1>. QED
    BY <1>3, <1>4, <1>5, <1>6, <1>7, <1>8, <1>9, <1>10, <1>11, <1>12, <1>13,
       <1>14, <1>15, <1>17, <1>18

(* How each step of a pick changes the region. *)
LEMMA RegionChanges ==
  ASSUME Base, NEW t \in Threads, PickStep(t)
  PROVE  /\ \/ pool' = pool
            \/ /\ pick[t].at \in {"pop", "push", "front", "turn"}
               /\ \E r \in Rgn : SetRegion(t, r)
         /\ pool' \in [0 .. 1 -> Seq(Rgn)]
         /\ \A p \in 0 .. 1 : /\ Len(pool'[p]) = Len(pool[p])
                              /\ DOMAIN pool'[p] = DOMAIN pool[p]
  <1>1. /\ pick[t] \in Picks /\ SeatedAt(t) /\ pool \in [0 .. 1 -> Seq(Rgn)]
    BY TypeFacts DEF Base, Seated
  <1>2. pick[t].at \in AtRegion =>
          /\ RegionOf(t) \in Rgn /\ RegionOf(t).queue \in Seq(Nat)
          /\ RegionOf(t).ret \in Nat
    BY RegionFacts DEF Rgn
  <1>3. \/ pool' = pool
        \/ pick[t].at \in AtRegion /\ \E r \in Rgn : SetRegion(t, r)
    <2>1. CASE Pop(t)
      <3>1. CASE RegionOf(t).queue = << >>
        BY <2>1, <3>1 DEF Pop
      <3>2. CASE RegionOf(t).queue # << >>
        <4>. DEFINE r == [RegionOf(t) EXCEPT !.queue = Tail(@)]
        <4>1. SetRegion(t, r) /\ pick[t].at \in AtRegion
          BY <2>1, <3>2 DEF Pop, AtRegion
        <4>2. Tail(RegionOf(t).queue) \in Seq(Nat)
          BY <1>2, <3>2, <4>1
        <4>3. r \in Rgn
          BY <1>2, <4>1, <4>2 DEF Rgn
        <4>. QED
          BY <4>1, <4>3
      <3>. QED
        BY <3>1, <3>2
    <2>2. CASE Push(t)
      <3>. DEFINE r == [RegionOf(t) EXCEPT !.queue = Append(@, pick[t].buf)]
      <3>1. SetRegion(t, r) /\ pick[t].at = "push"
        BY <2>2 DEF Push, PushBack
      <3>2. pick[t].buf \in Nat /\ RegionOf(t) \in Rgn
        BY <1>1, <1>2, <3>1 DEF SeatedAt, AtRegion
      <3>3. Append(RegionOf(t).queue, pick[t].buf) \in Seq(Nat)
        BY <3>2 DEF Rgn
      <3>4. r \in Rgn
        BY <3>2, <3>3 DEF Rgn
      <3>. QED
        BY <3>1, <3>4 DEF AtRegion
    <2>3. CASE Take(t)
      <3>1. CASE ~ RegionOf(t).ret < Len(RegionOf(t).queue)
        BY <2>3, <3>1 DEF Take
      <3>2. CASE RegionOf(t).ret < Len(RegionOf(t).queue)
        <4>. DEFINE r == [RegionOf(t) EXCEPT !.ret = @ + 1]
        <4>1. SetRegion(t, r) /\ pick[t].at \in AtRegion
          BY <2>3, <3>2 DEF Take, AtRegion
        <4>2. RegionOf(t).ret + 1 \in Nat
          BY <1>2, <4>1
        <4>3. r \in Rgn
          BY <1>2, <4>1, <4>2 DEF Rgn
        <4>. QED
          BY <4>1, <4>3
      <3>. QED
        BY <3>1, <3>2
    <2>4. CASE Turn(t)
      <3>. DEFINE r == [RegionOf(t) EXCEPT
                          !.ret = IF @ = Len(RegionOf(t).queue) THEN 0 ELSE @]
      <3>1. SetRegion(t, r) /\ pick[t].at \in AtRegion
        BY <2>4 DEF Turn, AtRegion
      <3>2. r \in Rgn
        BY <1>2, <3>1 DEF Rgn
      <3>. QED
        BY <3>1, <3>2
    <2>5. CASE ~ (Pop(t) \/ Push(t) \/ Take(t) \/ Turn(t))
      BY <2>5 DEF PickStep, PickNone, PickIndex, FrontOfNone, Front, Load, Store,
             Wrap
    <2>. QED
      BY <2>1, <2>2, <2>3, <2>4, <2>5
  <1>. QED
    <2>1. CASE pool' = pool
      BY <1>1, <2>1
    <2>2. CASE pick[t].at \in AtRegion /\ \E r \in Rgn : SetRegion(t, r)
      <3>1. PICK r \in Rgn : SetRegion(t, r)
        BY <2>2
      <3>2. /\ pool' \in [0 .. 1 -> Seq(Rgn)]
            /\ \A p \in 0 .. 1 : /\ Len(pool'[p]) = Len(pool[p])
                                 /\ DOMAIN pool'[p] = DOMAIN pool[p]
        BY <2>2, <3>1, SetRegionFacts
      <3>. QED
        BY <2>2, <3>1, <3>2 DEF AtRegion
    <2>. QED
      BY <1>3, <2>1, <2>2

LEMMA BasePickStep ==
  ASSUME Base, NEW t \in Threads, PickStep(t)
  PROVE  Base'
  <1>1. /\ main = "ready" /\ UNCHANGED setupVars
        /\ pick' \in [Threads -> Picks]
        /\ \A u \in Threads \ {t} : pick'[u] = pick[u]
    BY PickChanges
  <1>2. /\ pool \in [0 .. 1 -> Seq(Rgn)] /\ thread \in [Threads -> Programs]
        /\ thread[t] \in Programs /\ pick[t] \in Picks
        /\ pick \in [Threads -> Picks] /\ cur \in Nat /\ raced \in BOOLEAN
        /\ fault \in {"none", "range", "null"} /\ flags \in Settings
        /\ SeatedAt(t) /\ UNCHANGED flags
    BY <1>1, TypeFacts DEF Base, Seated, TypeOK, setupVars
  <1>3. ASSUME UNCHANGED thread, fault' \in {"none", "range", "null"},
               raced' \in BOOLEAN, cur' \in Nat, pool' \in [0 .. 1 -> Seq(Rgn)],
               \A p \in 0 .. 1 : Len(pool'[p]) = Len(pool[p]),
               pick'[t].at # "no" => pick[t].at # "no" \/ Pending(t),
               pick'[t].at \in AtRegion => pick'[t].id < Len(pool[PoolOf(t)]),
               pick'[t].at \in {"pop", "push", "turn"} => pick'[t].buf \in Nat
        PROVE  Base'
    <2>1. PoolOf(t)' = PoolOf(t) /\ PoolOf(t) \in 0 .. 1
      BY <1>2, <1>3, PoolOfFact DEF PoolOf
    <2>2. Len(pool'[PoolOf(t)']) = Len(pool[PoolOf(t)])
      BY <1>3, <2>1
    <2>3. thread'[t] = thread[t]
      BY <1>3
    <2>4. SeatedAt(t)'
      BY <1>2, <1>3, <2>1, <2>2, <2>3 DEF SeatedAt, Pending
    <2>. QED
      BY <1>1, <1>2, <1>3, <2>4, StepKeeps
  <1>4. ASSUME UNCHANGED <<pool, cur, raced>>, Nothing(t), pick'[t].at = "no"
        PROVE  Base'
    <2>1. /\ thread' \in [Threads -> Programs]
          /\ \A u \in Threads \ {t} : thread'[u] = thread[u]
          /\ \/ fault' = "null" /\ thread' = thread
             \/ fault' = fault /\ thread'[t].left = 0
      BY <1>2, <1>4, NothingFacts
    <2>2. SeatedAt(t)'
      BY <1>2, <1>4, <2>1 DEF SeatedAt, AtRegion
    <2>. QED
      BY <1>1, <1>2, <1>4, <2>1, <2>2, StepKeeps
  <1>5. /\ pool' \in [0 .. 1 -> Seq(Rgn)]
        /\ \A p \in 0 .. 1 : Len(pool'[p]) = Len(pool[p])
    BY RegionChanges
  <1>6. pick[t].at \in AtRegion =>
          /\ pick[t].id < Len(pool[PoolOf(t)])
          /\ RegionOf(t) \in Rgn
    BY <1>2, RegionFacts DEF SeatedAt
  <1>7. CASE PickNone(t)
    BY <1>1, <1>4, <1>7 DEF PickNone
  <1>8. CASE PickIndex(t)
    <2>1. raced' \in BOOLEAN
      BY <1>2, <1>8 DEF PickIndex
    <2>2. /\ UNCHANGED <<pool, cur, thread>> /\ pick[t].at = "no" /\ Pending(t)
          /\ fault' \in {"none", "range", "null"}
          /\ pick' = pick \/ cur < Len(pool[PoolOf(t)])
      BY <1>2, <1>8 DEF PickIndex
    <2>3. /\ pick'[t].at \in AtRegion => pick'[t].id < Len(pool[PoolOf(t)])
          /\ pick'[t].at \notin {"pop", "push", "turn"}
      <3>1. CASE pick' = pick
        BY <2>2, <3>1 DEF AtRegion
      <3>2. CASE pick' # pick
        <4>1. pick'[t] = [at |-> "front", id |-> cur, buf |-> NoBuffer]
          BY <1>8, <3>2, PickChanges
        <4>. QED
          BY <2>2, <3>2, <4>1
      <3>. QED
        BY <3>1, <3>2
    <2>. QED
      BY <1>2, <1>3, <2>1, <2>2, <2>3
  <1>9. CASE FrontOfNone(t)
    <2>1. /\ pick'[t].at = "load" /\ pick[t].at # "no"
          /\ UNCHANGED <<pool, cur, thread, raced, fault>>
      BY <1>2, <1>9, PickChanges DEF FrontOfNone, Picks
    <2>. QED
      BY <1>2, <1>3, <2>1 DEF AtRegion
  <1>10. CASE Front(t)
    <2>1. pick[t].at = "front" /\ UNCHANGED <<pool, cur, thread, raced, fault>>
      BY <1>10 DEF Front
    <2>2. pick'[t].id = pick[t].id /\ (pick'[t].at # "front" => pick'[t].buf \in Nat)
      <3>1. pick'[t] = [pick[t] EXCEPT !.at = "pop",
                                       !.buf = Head(RegionOf(t).queue)]
        BY <1>10, PickChanges
      <3>2. Head(RegionOf(t).queue) \in Nat
        BY <1>10, PickChanges
      <3>. QED
        BY <1>2, <3>1, <3>2 DEF Picks
    <2>. QED
      BY <1>2, <1>3, <1>6, <2>1, <2>2 DEF AtRegion
  <1>11. CASE Pop(t)
    <2>1. pick[t].at = "pop" /\ UNCHANGED <<cur, thread, raced>>
      BY <1>11 DEF Pop
    <2>2. pick'[t].id = pick[t].id /\ (pick'[t].at # "front" => pick'[t].buf \in Nat)
      <3>1. pick' = pick \/ pick'[t] = [pick[t] EXCEPT !.at = "push"]
        BY <1>11, PickChanges
      <3>. QED
        BY <1>2, <2>1, <3>1 DEF SeatedAt, Picks
    <2>3. fault' \in {"none", "range", "null"}
      BY <1>2, <1>11 DEF Pop
    <2>4. pick[t].id < Len(pool[PoolOf(t)])
      BY <1>6, <2>1 DEF AtRegion
    <2>. QED
      BY <1>2, <1>3, <1>5, <2>1, <2>2, <2>3, <2>4
  <1>12. CASE Push(t)
    <2>1. /\ pick[t].at = "push" /\ UNCHANGED <<cur, thread, raced, fault>>
          /\ PushBack(t)
      BY <1>12 DEF Push
    <2>2. pick'[t].at = "load"
      BY <1>2, <1>12, PickChanges DEF Picks
    <2>. QED
      BY <1>2, <1>3, <1>5, <2>1, <2>2 DEF AtRegion
  <1>13. CASE Take(t)
    <2>1. pick[t].at = "front" /\ UNCHANGED <<cur, thread, raced>>
      BY <1>13 DEF Take
    <2>2. pick'[t].id = pick[t].id /\ (pick'[t].at # "front" => pick'[t].buf \in Nat)
      <3>1. \/ pick' = pick
            \/ pick'[t] = [pick[t] EXCEPT !.at = "turn",
                             !.buf = RegionOf(t).queue[RegionOf(t).ret + 1]]
        BY <1>13, PickChanges
      <3>2. pick' # pick => RegionOf(t).queue[RegionOf(t).ret + 1] \in Nat
        BY <1>13, PickChanges
      <3>. QED
        BY <1>2, <2>1, <3>1, <3>2 DEF SeatedAt, Picks
    <2>3. fault' \in {"none", "range", "null"}
      BY <1>2, <1>13 DEF Take
    <2>4. pick[t].id < Len(pool[PoolOf(t)])
      BY <1>6, <2>1 DEF AtRegion
    <2>. QED
      BY <1>2, <1>3, <1>5, <2>1, <2>2, <2>3, <2>4
  <1>14. CASE Turn(t)
    <2>1. pick[t].at = "turn" /\ UNCHANGED <<cur, thread, raced, fault>>
      BY <1>14 DEF Turn
    <2>2. pick'[t].at = "load"
      BY <1>2, <1>14, PickChanges DEF Picks
    <2>. QED
      BY <1>2, <1>3, <1>5, <2>1, <2>2 DEF AtRegion
  <1>15. CASE Load(t)
    <2>1. /\ pick'[t].at = "store" /\ pick[t].at # "no"
          /\ UNCHANGED <<pool, cur, thread, raced, fault>>
      BY <1>2, <1>15, PickChanges DEF Load, Picks
    <2>. QED
      BY <1>2, <1>3, <2>1 DEF AtRegion
  <1>16. CASE Store(t)
    <2>1. /\ pick'[t].at = "wrap" /\ pick[t].at # "no" /\ cur' = pick[t].id
          /\ UNCHANGED <<pool, thread, raced, fault>>
      BY <1>2, <1>16, PickChanges DEF Store, Picks
    <2>2. cur' \in Nat
      BY <1>2, <2>1 DEF Picks
    <2>. QED
      BY <1>2, <1>3, <2>1, <2>2 DEF AtRegion
  <1>17. CASE Wrap(t)
    <2>1. /\ pick'[t].at = "no" /\ pick[t].at # "no"
          /\ UNCHANGED <<pool, raced>> /\ cur' \in Nat
      <3>1. /\ pick'[t].at = "no" /\ pick[t].at # "no"
            /\ UNCHANGED <<pool, raced>>
        BY <1>2, <1>17, PickChanges DEF Wrap, Idle
      <3>2. cur' \in {0, cur}
        BY <1>17 DEF Wrap, Wrapped
      <3>. QED
        BY <1>2, <3>1, <3>2
    <2>2. CASE pick[t].buf = NoBuffer
      <3>1. Nothing(t)
        BY <1>17, <2>2 DEF Wrap
      <3>2. /\ thread' \in [Threads -> Programs]
            /\ \A u \in Threads \ {t} : thread'[u] = thread[u]
            /\ \/ fault' = "null" /\ thread' = thread
               \/ fault' = fault /\ thread'[t].left = 0
        BY <1>2, <3>1, NothingFacts
      <3>3. SeatedAt(t)'
        BY <1>2, <2>1, <3>2 DEF SeatedAt, AtRegion
      <3>. QED
        BY <1>1, <1>2, <2>1, <3>2, <3>3, StepKeeps
    <2>3. CASE pick[t].buf # NoBuffer
      <3>1. /\ thread' = [thread EXCEPT ![t].left = @ - 1]
            /\ UNCHANGED fault
        BY <1>17, <2>3 DEF Wrap
      <3>2. thread[t].left - 1 \in Nat
        BY <1>2, <2>1 DEF SeatedAt, Programs
      <3>3. [thread[t] EXCEPT !.left = @ - 1] \in Programs
        BY <1>2, <3>2 DEF Programs
      <3>4. /\ thread' \in [Threads -> Programs]
            /\ \A u \in Threads \ {t} : thread'[u] = thread[u]
            /\ thread'[t].at = thread[t].at
        BY <1>2, <3>1, <3>3 DEF Programs
      <3>5. thread[t].at \notin {"off", "stop"}
        BY <1>2, <2>1 DEF SeatedAt, Programs
      <3>6. SeatedAt(t)'
        BY <2>1, <3>4, <3>5 DEF SeatedAt, AtRegion
      <3>. QED
        BY <1>1, <1>2, <2>1, <3>1, <3>4, <3>6, StepKeeps
    <2>. QED
      BY <2>2, <2>3
  <1>. QED
    BY <1>7, <1>8, <1>9, <1>10, <1>11, <1>12, <1>13, <1>14, <1>15, <1>16, <1>17
       DEF PickStep

LEMMA BaseStep == Base /\ [Next]_vars => Base'
  <1>. SUFFICES ASSUME Base, [Next]_vars PROVE Base'
    OBVIOUS
  <1>1. CASE InitStep
    BY <1>1, BaseInitStep
  <1>2. CASE ConnectReturns
    BY <1>2, BaseProgramStep DEF ProgramStep, Threads
  <1>3. ASSUME NEW t \in Threads, ThreadStep(t)
        PROVE  Base'
    BY <1>3, BaseProgramStep, BasePickStep DEF ThreadStep, ProgramStep
  <1>4. CASE UNCHANGED vars
    BY <1>4 DEF Base, TypeOK, Seated, SeatedAt, PoolOf, NumQps, vars, setupVars,
                pickVars
  <1>. QED
    BY <1>1, <1>2, <1>3, <1>4 DEF Next

(* TypeOK for every command line and any handlers: whatever fails and      *)
(* however picks overlap, the index of a pick under way is that of a       *)
(* region, and counts stay natural numbers.                                *)
THEOREM TypeCorrect == Spec => []TypeOK
  <1>1. Spec => []Base
    BY BaseInit, BaseStep, PTL DEF Spec
  <1>2. Base => TypeOK
    BY DEF Base
  <1>. QED
    BY <1>1, <1>2, PTL

-----------------------------------------------------------------------------
(* What Init has made, and what a client and the sizes of its pools are.   *)

Made ==
  /\ main \in {"regions", "cqs", "transport"} => pds = NumPds
  /\ main = "transport" => cqs = NumCqs
  /\ main = "ready" => cqs = NumCqs /\ \A e \in DOMAIN ep : ep[e] = "live"

(* The index the pools share is right for both: that of the receive pool   *)
(* is used first, and is not the longer one if it is longer than one.      *)
Sized == Len(pool[1]) <= Len(pool[0]) \/ Len(pool[1]) <= 1

LoneClient ==
  /\ main # "ready" => cur = 0
  /\ ~ flags.server =>
       /\ \A t \in Handlers : thread[t].at = "off"
       /\ thread[Datapath].at = "off" => cur = 0

Built == Base /\ Made /\ Sized /\ LoneClient

LEMMA BuiltInit == Init => Built
  <1>. SUFFICES ASSUME Init PROVE Built
    OBVIOUS
  <1>1. \A t \in Threads : thread[t].at = "off"
    BY DEF Init, Off
  <1>2. pool[0] = << >> /\ pool[1] = << >>
    BY DEF Init
  <1>3. Sized
    BY <1>2 DEF Sized
  <1>4. Made /\ LoneClient
    BY <1>1 DEF Init, Made, LoneClient, Threads
  <1>. QED
    BY <1>3, <1>4, BaseInit DEF Built

LEMMA BuiltInitStep ==
  ASSUME Built, InitStep
  PROVE  Built'
  <1>1. Base'
    BY BaseInitStep DEF Built
  <1>2. /\ main # "ready" /\ UNCHANGED <<flags, cur, thread, pick, raced>>
    BY DEF InitStep, InitDevice, AllocPds, CollieRegions, HuskyRegions,
           NoPdForRegion, CreateCqs, InitTransport, NoPdForQp, pickVars
  <1>3. LoneClient'
    BY <1>2 DEF Built, LoneClient
  <1>4. flags \in Settings /\ Base
    BY TypeFacts DEF Built, Base
  <1>5. Sized'
    <2>1. CASE UNCHANGED pool
      BY <2>1 DEF Built, Sized
    <2>2. CASE CollieRegions
      <3>1. PICK k \in 0 .. (2 * flags.mrs) :
              pool' = [p \in 0 .. 1 |-> Regions((k + 1 - p) \div 2)]
        BY <2>2 DEF CollieRegions
      <3>2. /\ (k + 1) \div 2 \in Nat /\ k \div 2 \in Nat
            /\ k \div 2 <= (k + 1) \div 2
        BY <1>4, FlagFacts
      <3>3. /\ Len(Regions((k + 1) \div 2)) = (k + 1) \div 2
            /\ Len(Regions(k \div 2)) = k \div 2
        BY <1>4, <3>2, RegionsFact
      <3>4. k \in Int /\ k + 1 - 0 = k + 1 /\ k + 1 - 1 = k
        OBVIOUS
      <3>5. /\ pool'[0] = Regions((k + 1) \div 2) /\ pool'[1] = Regions(k \div 2)
        BY <3>1, <3>4
      <3>. QED
        BY <3>2, <3>3, <3>5 DEF Sized
    <2>3. CASE HuskyRegions
      <3>1. PICK k \in 0 .. flags.mrs, n \in 0 .. 1 :
              pool' = [p \in 0 .. 1 |-> Regions(IF p = 0 THEN k ELSE n)]
        BY <2>3 DEF HuskyRegions
      <3>2. pool'[1] = Regions(n)
        BY <3>1
      <3>3. Len(Regions(n)) = n
        BY <1>4, RegionsFact
      <3>. QED
        BY <3>2, <3>3 DEF Sized
    <2>. QED
      BY <2>1, <2>2, <2>3
         DEF InitStep, InitDevice, AllocPds, NoPdForRegion, CreateCqs,
             InitTransport, NoPdForQp, pickVars
  <1>6. Made'
    <2>1. CASE InitDevice \/ AllocPds
      BY <1>2, <2>1 DEF InitDevice, AllocPds, Made, NumPds
    <2>2. CASE CollieRegions \/ HuskyRegions \/ NoPdForRegion \/ NoPdForQp
      BY <1>2, <2>2 DEF CollieRegions, HuskyRegions, NoPdForRegion, NoPdForQp,
             Built, Made, NumPds
    <2>3. CASE CreateCqs
      BY <1>2, <2>3 DEF CreateCqs, Built, Made, NumPds, NumCqs
    <2>4. CASE InitTransport
      <3>1. PICK k \in 0 .. NumQps(flags) :
              /\ ep' = [e \in DOMAIN ep |->
                          IF e >= k THEN "null"
                          ELSE IF e = k - 1 /\ k < NumQps(flags) THEN "deleted"
                          ELSE "live"]
              /\ main' = AfterQps(k)
        BY <2>4 DEF InitTransport
      <3>2. /\ main = "transport" /\ UNCHANGED <<flags, pds, cqs>>
            /\ DOMAIN ep = 0 .. (NumQps(flags) - 1) /\ NumQps(flags) \in Nat
        BY <1>4, <2>4, SizeFacts DEF InitTransport, Base, TypeOK
      <3>3. main' = "ready" => \A e \in DOMAIN ep' : ep'[e] = "live"
        BY <3>1, <3>2 DEF AfterQps
      <3>4. main' \in {"ready", "failed"}
        BY <3>1 DEF AfterQps
      <3>. QED
        BY <3>2, <3>3, <3>4 DEF Built, Made, NumCqs
    <2>. QED
      BY <2>1, <2>2, <2>3, <2>4 DEF InitStep
  <1>. QED
    BY <1>1, <1>3, <1>5, <1>6 DEF Built

LEMMA BuiltProgramStep ==
  ASSUME Built, NEW t \in Threads, ProgramStep(t)
  PROVE  Built'
  <1>1. /\ main = "ready" /\ UNCHANGED <<setupVars, pool, cur>>
        /\ \A u \in Threads \ {t} : thread'[u] = thread[u]
    BY ProgramFacts DEF Built
  <1>2. Base'
    BY BaseProgramStep DEF Built
  <1>6. flags' = flags /\ main' = main
    BY <1>1 DEF setupVars
  <1>3. Made' /\ Sized'
    BY <1>1 DEF Built, Made, Sized, setupVars, NumPds, NumCqs
  <1>4. CASE flags.server
    BY <1>1, <1>2, <1>3, <1>4, <1>6 DEF Built, LoneClient
  <1>5. CASE ~ flags.server
    <2>1. t = Datapath
      <3>1. thread[t].at = "off" => Start(t)
        BY DEF ProgramStep, ParseOne, ParseDone, Post, FirstBatch,
               HandlerReturns, ConnectReturns
      <3>2. Start(t) => t = Datapath
        BY <1>5 DEF Start
      <3>3. thread[t].at # "off" => t \notin Handlers
        BY <1>5 DEF Built, LoneClient
      <3>. QED
        BY <3>1, <3>2, <3>3 DEF Threads
    <2>2. \A u \in Handlers : u \in Threads \ {t}
      BY <2>1, ContextAssumption DEF Threads
    <2>3. thread'[t].at = "off" => FALSE
      <3>1. thread \in [Threads -> Programs] /\ ~ HandlerReturns(t)
        BY <2>1, TypeFacts, ContextAssumption DEF Built, Base, HandlerReturns
      <3>2. CASE Start(t)
        BY <1>5, <3>1, <3>2 DEF Start, Off
      <3>3. CASE ParseOne(t)
        BY <3>1, <3>3 DEF ParseOne, Programs
      <3>4. CASE ParseDone(t)
        BY <3>1, <3>4 DEF ParseDone, Programs
      <3>5. CASE Post(t)
        BY <3>1, <3>5 DEF Post, Programs
      <3>6. CASE FirstBatch(t)
        BY <3>1, <3>6 DEF FirstBatch, Programs
      <3>7. CASE ConnectReturns
        BY <2>1, <3>1, <3>7 DEF ConnectReturns, Off, Programs
      <3>. QED
        BY <3>1, <3>2, <3>3, <3>4, <3>5, <3>6, <3>7 DEF ProgramStep
    <2>. QED
      BY <1>1, <1>2, <1>3, <1>6, <2>1, <2>2, <2>3 DEF Built, LoneClient
  <1>. QED
    BY <1>4, <1>5

LEMMA BuiltPickStep ==
  ASSUME Built, NEW t \in Threads, PickStep(t)
  PROVE  Built'
  <1>0. Base
    BY DEF Built
  <1>1. /\ main = "ready" /\ flags' = flags /\ main' = main
        /\ UNCHANGED <<pds, cqs, ep>>
    BY <1>0, PickChanges DEF setupVars
  <1>2. \A p \in 0 .. 1 : Len(pool'[p]) = Len(pool[p])
    BY <1>0, RegionChanges
  <1>3. Sized' /\ Made'
    BY <1>1, <1>2 DEF Built, Sized, Made, NumCqs, NumPds
  <1>4. Base'
    BY <1>0, BasePickStep
  <1>5. LoneClient'
    <2>1. CASE flags.server
      BY <1>1, <2>1 DEF LoneClient
    <2>2. CASE ~ flags.server
      <3>1. /\ SeatedAt(t)
            /\ pick[t].at # "no" \/ Pending(t)
        BY <1>0 DEF Base, Seated, PickStep, PickNone, PickIndex, FrontOfNone,
               Front, Pop, Push, Take, Turn, Load, Store, Wrap
      <3>2. thread[t].at # "off"
        BY <3>1 DEF SeatedAt, Pending
      <3>3. t = Datapath
        BY <2>2, <3>2 DEF Built, LoneClient, Threads
      <3>4. \A u \in Threads \ {t} : thread'[u] = thread[u]
        <4>1. CASE Nothing(t)
          BY <1>0, <1>1, <4>1, NothingFacts
        <4>2. CASE thread' = thread
          BY <4>2
        <4>3. CASE thread' = [thread EXCEPT ![t].left = @ - 1]
          BY <1>0, <4>3, TypeFacts DEF Base
        <4>. QED
          BY <4>1, <4>2, <4>3 DEF PickStep, PickNone, PickIndex, FrontOfNone,
             Front, Pop, Push, Take, Turn, Load, Store, Wrap
      <3>5. thread'[t].at # "off"
        <4>1. CASE Nothing(t)
          BY <1>0, <1>1, <2>2, <3>2, <4>1, NothingFacts
        <4>2. CASE thread' = thread
          BY <3>2, <4>2
        <4>3. CASE thread' = [thread EXCEPT ![t].left = @ - 1]
          <5>1. thread \in [Threads -> Programs]
            BY <1>0, TypeFacts DEF Base
          <5>. QED
            BY <3>2, <4>3, <5>1 DEF Programs
        <4>. QED
          BY <4>1, <4>2, <4>3 DEF PickStep, PickNone, PickIndex, FrontOfNone,
             Front, Pop, Push, Take, Turn, Load, Store, Wrap
      <3>6. \A u \in Handlers : u \in Threads \ {t}
        BY <3>3, ContextAssumption DEF Threads
      <3>. QED
        BY <1>1, <3>3, <3>4, <3>5, <3>6 DEF Built, LoneClient
    <2>. QED
      BY <2>1, <2>2
  <1>. QED
    BY <1>3, <1>4, <1>5 DEF Built

LEMMA BuiltStep == Built /\ [Next]_vars => Built'
  <1>. SUFFICES ASSUME Built, [Next]_vars PROVE Built'
    OBVIOUS
  <1>1. CASE InitStep
    BY <1>1, BuiltInitStep
  <1>2. CASE ConnectReturns
    BY <1>2, BuiltProgramStep DEF ProgramStep, Threads
  <1>3. ASSUME NEW t \in Threads, ThreadStep(t)
        PROVE  Built'
    BY <1>3, BuiltProgramStep, BuiltPickStep DEF ThreadStep, ProgramStep
  <1>4. CASE UNCHANGED vars
    <2>1. Base'
      BY <1>4, BaseStep DEF Built
    <2>. QED
      BY <1>4, <2>1 DEF Built, Made, Sized, LoneClient, NumPds, NumCqs, NumQps,
         vars, setupVars, pickVars
  <1>. QED
    BY <1>1, <1>2, <1>3, <1>4 DEF Next

LEMMA BuiltAlways == Spec => []Built
  BY BuiltInit, BuiltStep, PTL DEF Spec

LEMMA DivFacts ==
  ASSUME NEW a \in Nat, NEW n \in Nat \ {0}, NEW d \in Nat, a >= n * d
  PROVE  a \div n >= d /\ (n = 1 => a \div n = a)
  OBVIOUS

(* Init succeeds only with every endpoint and its completion queues in     *)
(* place, and a --cq_depth that holds the receives of all endpoints is     *)
(* enough for each completion queue, shared or not.                        *)
THEOREM CompleteWhenReady == Spec => []ReadyComplete
  <1>1. Built => ReadyComplete
    <2>. SUFFICES ASSUME Built, main = "ready"
                  PROVE  ReadyComplete
      BY DEF ReadyComplete
    <2>1. /\ cqs = NumCqs /\ \A e \in DOMAIN ep : ep[e] = "live"
          /\ flags \in Settings /\ DOMAIN ep = 0 .. (NumQps(flags) - 1)
      BY DEF Built, Made, Base, TypeOK
    <2>2. /\ NumQps(flags) \in Nat \ {0} /\ flags.cqDepth \in Nat
          /\ flags.recvDepth \in Nat /\ NumQps(flags) * flags.recvDepth \in Nat
      BY <2>1, FlagFacts, SizeFacts
    <2>3. CASE flags.shareCq
      <3>1. cqs = 1
        BY <2>1, <2>3 DEF NumCqs
      <3>2. flags.cqDepth \div 1 = flags.cqDepth
        BY <2>2
      <3>. QED
        BY <2>1, <2>2, <2>3, <3>1, <3>2 DEF ReadyComplete
    <2>4. CASE ~ flags.shareCq
      <3>1. cqs = NumQps(flags)
        BY <2>1, <2>4 DEF NumCqs
      <3>2. flags.cqDepth >= NumQps(flags) * flags.recvDepth =>
              flags.cqDepth \div NumQps(flags) >= flags.recvDepth
        BY <2>2, DivFacts
      <3>. QED
        BY <2>1, <2>2, <2>4, <3>1, <3>2 DEF ReadyComplete
    <2>. QED
      BY <2>3, <2>4
  <1>. QED
    BY <1>1, BuiltAlways, PTL

-----------------------------------------------------------------------------
(* Buffers in turn.  InTurn relates neighbours only; that the first        *)
(* follows the last, which makes the turn go on, is in Rotated.            *)

Slot(k, n, b) == IF k + n - 1 < b THEN k + n - 1 ELSE k + n - 1 - b

Rotated(q, b) ==
  /\ q \in Seq(Nat) /\ Len(q) = b
  /\ \E k \in 0 .. b : \A n \in 1 .. b : q[n] = Slot(k, n, b)

LEMMA NewRotated ==
  ASSUME NEW b \in Nat
  PROVE  Rotated([n \in 1 .. b |-> n - 1], b)
  <1>. DEFINE q == [n \in 1 .. b |-> n - 1]
  <1>1. q \in Seq(Nat) /\ Len(q) = b
    OBVIOUS
  <1>2. \A n \in 1 .. b : q[n] = Slot(0, n, b)
    BY DEF Slot
  <1>. QED
    BY <1>1, <1>2 DEF Rotated

(* The first buffer is put behind the others. *)
LEMMA Rotation ==
  ASSUME NEW q, NEW b \in Nat, Rotated(q, b), q # << >>
  PROVE  Rotated(Append(Tail(q), Head(q)), b)
  <1>1. q \in Seq(Nat) /\ Len(q) = b /\ b > 0
    BY DEF Rotated
  <1>2. PICK k \in 0 .. b : \A n \in 1 .. b : q[n] = Slot(k, n, b)
    BY DEF Rotated
  <1>. DEFINE r == Append(Tail(q), Head(q))
              m == IF k = b THEN 1 ELSE k + 1
  <1>3. /\ r \in Seq(Nat) /\ Len(r) = b
        /\ \A n \in 1 .. b : r[n] = IF n < b THEN q[n + 1] ELSE q[1]
    <2>1. Tail(q) \in Seq(Nat) /\ Len(Tail(q)) = b - 1 /\ Head(q) = q[1]
      BY <1>1
    <2>2. \A n \in 1 .. (b - 1) : Tail(q)[n] = q[n + 1]
      BY <1>1
    <2>3. Head(q) \in Nat
      BY <1>1
    <2>4. r \in Seq(Nat) /\ Len(r) = b
      BY <1>1, <2>1, <2>3
    <2>5. \A n \in 1 .. b : r[n] = IF n < b THEN Tail(q)[n] ELSE Head(q)
      BY <1>1, <2>1, <2>3
    <2>. QED
      BY <1>1, <2>1, <2>2, <2>4, <2>5
  <1>4. m \in 0 .. b
    BY <1>1
  <1>5. ASSUME NEW n \in 1 .. b
        PROVE  r[n] = Slot(m, n, b)
    <2>1. CASE n < b
      <3>1. r[n] = Slot(k, n + 1, b)
        BY <1>2, <1>3, <2>1
      <3>. QED
        BY <1>1, <2>1, <3>1 DEF Slot
    <2>2. CASE n = b
      <3>1. r[n] = Slot(k, 1, b)
        BY <1>1, <1>2, <1>3, <2>2
      <3>. QED
        BY <1>1, <2>2, <3>1 DEF Slot
    <2>. QED
      BY <1>1, <2>1, <2>2
  <1>. HIDE DEF r, m
  <1>. QED
    BY <1>3, <1>4, <1>5 DEF Rotated, r

LEMMA ModFacts ==
  ASSUME NEW b \in Nat, NEW x \in 0 .. (b - 1)
  PROVE  (x + 1) % b = IF x + 1 = b THEN 0 ELSE x + 1
  OBVIOUS

LEMMA RotatedInTurn ==
  ASSUME flags \in Settings, NEW q, Rotated(q, flags.bufs)
  PROVE  InTurn(q)
  <1>. DEFINE b == flags.bufs
  <1>1. b \in Nat /\ Len(q) = b
    BY FlagFacts DEF Rotated
  <1>2. PICK k \in 0 .. b : \A n \in 1 .. b : q[n] = Slot(k, n, b)
    BY DEF Rotated
  <1>. SUFFICES ASSUME NEW n \in 1 .. (b - 1)
                PROVE  q[n + 1] = (q[n] + 1) % b
    BY <1>1 DEF InTurn
  <1>3. q[n] = Slot(k, n, b) /\ q[n + 1] = Slot(k, n + 1, b)
    BY <1>1, <1>2
  <1>. HIDE DEF b
  <1>4. /\ q[n] \in 0 .. (b - 1)
        /\ q[n + 1] = IF q[n] + 1 = b THEN 0 ELSE q[n] + 1
    BY <1>1, <1>3 DEF Slot
  <1>. QED
    BY <1>1, <1>4, ModFacts

-----------------------------------------------------------------------------
(* As long as picks do not overlap: the index is within the pool in use    *)
(* when nobody picks, a region nobody changes hands out its buffers in     *)
(* turn, and a pick under way knows how far it is.                         *)

Whole(r, b) ==
  /\ Rotated(r.queue, b)
  /\ r.ret = 0 \/ r.ret < b

Changing(t, p, i) ==
  pick[t].at \in {"push", "turn"} /\ p = PoolOf(t) /\ i = pick[t].id + 1

Rest == cur = 0 \/ cur < Len(pool[PoolOf(Datapath)])

PickRight(t) ==
  /\ pick[t].at \in AtRegion => pick[t].id = cur
  /\ pick[t].at \in AtRegion \cup {"load", "store"} => cur < Len(pool[PoolOf(t)])
  /\ pick[t].at = "store" => pick[t].id = cur + 1
  /\ pick[t].at = "wrap" => pick[t].id = cur /\ cur <= Len(pool[PoolOf(t)])
  /\ pick[t].at = "pop" => /\ RegionOf(t).queue # << >>
                           /\ pick[t].buf = Head(RegionOf(t).queue)
  /\ pick[t].at = "push" =>
       Whole([RegionOf(t) EXCEPT !.queue = Append(@, pick[t].buf)], flags.bufs)
  /\ pick[t].at = "turn" => /\ Rotated(RegionOf(t).queue, flags.bufs)
                            /\ RegionOf(t).ret <= flags.bufs
  /\ pick[t].at \in {"load", "store", "wrap"} /\ pick[t].buf = NoBuffer =>
       flags.bufs = 0

Orderly ==
  /\ \A t, u \in Threads : pick[t].at # "no" /\ pick[u].at # "no" => t = u
  /\ (\A t \in Threads : pick[t].at = "no") => Rest
  /\ \A t \in Threads : PickRight(t)
  /\ \A p \in 0 .. 1 : \A i \in DOMAIN pool[p] :
       (\A t \in Threads : ~ Changing(t, p, i)) => Whole(pool[p][i], flags.bufs)

LEMMA IdleRight ==
  ASSUME NEW t \in Threads, pick[t].at = "no"
  PROVE  PickRight(t) /\ \A p, i : ~ Changing(t, p, i)
  BY DEF PickRight, Changing, AtRegion

LEMMA OrderlyAtRest ==
  ASSUME \A t \in Threads : pick[t].at = "no", Rest,
         \A p \in 0 .. 1 : \A i \in DOMAIN pool[p] : Whole(pool[p][i], flags.bufs)
  PROVE  Orderly
  BY IdleRight DEF Orderly

(* One thread picks. *)
LEMMA OrderlyAfter ==
  ASSUME NEW t \in Threads, \A u \in Threads \ {t} : pick'[u].at = "no",
         pick'[t].at = "no" => Rest', PickRight(t)',
         \A p \in 0 .. 1 : \A i \in DOMAIN pool'[p] :
           ~ Changing(t, p, i)' => Whole(pool'[p][i], flags'.bufs)
  PROVE  Orderly'
  <1>1. ASSUME NEW u \in Threads \ {t}
        PROVE  PickRight(u)' /\ \A p, i : ~ Changing(u, p, i)'
    BY DEF PickRight, Changing, AtRegion
  <1>. QED
    BY <1>1 DEF Orderly

LEMMA OrderlyInit == Init => Orderly
  <1>. SUFFICES ASSUME Init PROVE Orderly
    OBVIOUS
  <1>1. /\ \A t \in Threads : pick[t].at = "no"
        /\ \A p \in 0 .. 1 : pool[p] = << >>
        /\ cur = 0
    BY DEF Init, Idle
  <1>2. \A p \in 0 .. 1 : DOMAIN pool[p] = {}
    BY <1>1
  <1>. QED
    BY <1>1, <1>2, OrderlyAtRest DEF Rest

LEMMA RegionWhole ==
  ASSUME flags \in Settings
  PROVE  Whole(Region, flags.bufs)
  <1>1. flags.bufs \in Nat
    BY FlagFacts
  <1>. QED
    BY <1>1, NewRotated DEF Whole, Region

LEMMA OrderlyInitStep ==
  ASSUME Built, Orderly, InitStep
  PROVE  Orderly'
  <1>1. /\ main # "ready" /\ UNCHANGED <<flags, cur, thread, pick, raced>>
    BY DEF InitStep, InitDevice, AllocPds, CollieRegions, HuskyRegions,
           NoPdForRegion, CreateCqs, InitTransport, NoPdForQp, pickVars
  <1>2. /\ Base /\ flags \in Settings /\ cur = 0
        /\ \A t \in Threads : pick[t].at = "no"
    BY <1>1, Early DEF Built, Base, TypeOK, LoneClient
  <1>3. \A n \in Nat : \A i \in DOMAIN Regions(n) :
          Whole(Regions(n)[i], flags.bufs)
    BY <1>2, RegionsFact, RegionWhole
  <1>4. \A p \in 0 .. 1 : \A i \in DOMAIN pool'[p] :
          Whole(pool'[p][i], flags.bufs)
    <2>1. CASE UNCHANGED pool
      <3>1. \A t \in Threads : \A p, i : ~ Changing(t, p, i)
        BY <1>2, IdleRight
      <3>. QED
        BY <2>1, <3>1 DEF Orderly
    <2>2. CASE CollieRegions
      <3>1. PICK k \in 0 .. (2 * flags.mrs) :
              pool' = [p \in 0 .. 1 |-> Regions((k + 1 - p) \div 2)]
        BY <2>2 DEF CollieRegions
      <3>2. \A p \in 0 .. 1 : (k + 1 - p) \div 2 \in Nat
        BY <1>2, FlagFacts
      <3>. QED
        BY <1>3, <3>1, <3>2
    <2>3. CASE HuskyRegions
      <3>1. PICK k \in 0 .. flags.mrs, n \in 0 .. 1 :
              pool' = [p \in 0 .. 1 |-> Regions(IF p = 0 THEN k ELSE n)]
        BY <2>3 DEF HuskyRegions
      <3>2. \A p \in 0 .. 1 : (IF p = 0 THEN k ELSE n) \in Nat
        BY <1>2, FlagFacts
      <3>. QED
        BY <1>3, <3>1, <3>2
    <2>. QED
      BY <2>1, <2>2, <2>3
         DEF InitStep, InitDevice, AllocPds, NoPdForRegion, CreateCqs,
             InitTransport, NoPdForQp, pickVars
  <1>6. \A t \in Threads : pick'[t].at = "no"
    BY <1>1, <1>2
  <1>7. \A t \in Threads : PickRight(t)' /\ \A p, i : ~ Changing(t, p, i)'
    BY <1>6 DEF PickRight, Changing, AtRegion
  <1>8. Rest'
    BY <1>1, <1>2 DEF Rest
  <1>. QED
    BY <1>1, <1>4, <1>6, <1>7, <1>8 DEF Orderly

(* A client's pool in use changes between picks only, and the index fits   *)
(* the next one.                                                           *)
LEMMA ProgramsMove ==
  ASSUME Built, Orderly, UNCHANGED <<flags, pool, cur, pick>>,
         NEW t \in Threads, ~ flags.server => t = Datapath /\ pick[t].at = "no",
         thread'[t].at = "announce" /\ ~ flags.server =>
           thread[t].at = "announce" \/ cur = 0,
         \A u \in Threads \ {t} : thread'[u] = thread[u]
  PROVE  Orderly'
  <1>1. CASE flags.server
    <2>1. \A u \in Threads : PoolOf(u)' = PoolOf(u)
      BY <1>1 DEF PoolOf
    <2>2. ASSUME NEW u \in Threads
          PROVE  /\ RegionOf(u)' = RegionOf(u)
                 /\ \A p, i : Changing(u, p, i)' = Changing(u, p, i)
      BY <2>1 DEF RegionOf, Changing
    <2>3. \A u \in Threads : PickRight(u)'
      BY <2>1, <2>2 DEF Orderly, PickRight
    <2>4. Rest' = Rest
      BY <2>1 DEF Rest, Threads
    <2>. QED
      BY <2>2, <2>3, <2>4 DEF Orderly
  <1>2. CASE ~ flags.server
    <2>1. t = Datapath /\ pick[t].at = "no"
      BY <1>2
    <2>2. \A u \in Threads : pick[u].at = "no"
      <3>1. ASSUME NEW u \in Handlers
            PROVE  pick[u].at = "no"
        <4>1. thread[u].at = "off" /\ u \in Threads
          BY <1>2, <3>1 DEF Built, LoneClient, Threads
        <4>2. SeatedAt(u)
          BY <4>1 DEF Built, Base, Seated
        <4>. QED
          BY <4>1, <4>2 DEF SeatedAt
      <3>. QED
        BY <2>1, <3>1 DEF Threads
    <2>3. \A p \in 0 .. 1 : \A i \in DOMAIN pool[p] : Whole(pool[p][i], flags.bufs)
      BY <2>2, IdleRight DEF Orderly
    <2>4. Rest
      BY <2>2 DEF Orderly
    <2>5. Rest'
      <3>1. /\ PoolOf(t) = IF thread[t].at = "announce" THEN 1 ELSE 0
            /\ PoolOf(t)' = IF thread'[t].at = "announce" THEN 1 ELSE 0
        BY <1>2 DEF PoolOf
      <3>2. /\ pool \in [0 .. 1 -> Seq(Rgn)] /\ cur \in Nat
            /\ Len(pool[0]) \in Nat /\ Len(pool[1]) \in Nat
        BY TypeFacts DEF Built, Base
      <3>3. cur = 0 \/ cur < Len(pool[PoolOf(t)])
        BY <2>1, <2>4 DEF Rest
      <3>4. CASE PoolOf(t)' = PoolOf(t)
        BY <2>1, <3>3, <3>4 DEF Rest
      <3>5. CASE PoolOf(t) = 0 /\ PoolOf(t)' = 1
        <4>1. cur = 0
          BY <1>2, <3>1, <3>5
        <4>. QED
          BY <4>1 DEF Rest
      <3>6. CASE PoolOf(t) = 1 /\ PoolOf(t)' = 0
        <4>1. cur = 0 \/ cur < Len(pool[0])
          BY <3>2, <3>3, <3>6 DEF Built, Sized
        <4>. QED
          BY <2>1, <3>6, <4>1 DEF Rest
      <3>. QED
        BY <3>1, <3>4, <3>5, <3>6
    <2>6. \A u \in Threads : PickRight(u)' /\ \A p, i : ~ Changing(u, p, i)'
      BY <2>2 DEF PickRight, Changing, AtRegion
    <2>7. \A u \in Threads : pick'[u].at = "no"
      BY <2>2
    <2>. QED
      BY <2>3, <2>5, <2>6, <2>7 DEF Orderly
  <1>. QED
    BY <1>1, <1>2

LEMMA ClientIsDatapath ==
  ASSUME Built, ~ flags.server, NEW t \in Threads, thread[t].at # "off"
  PROVE  t = Datapath
  BY DEF Built, LoneClient, Threads

LEMMA OrderlyProgramStep ==
  ASSUME Built, Orderly, NEW t \in Threads, ProgramStep(t)
  PROVE  Orderly'
  <1>1. /\ main = "ready" /\ pick[t].at = "no"
        /\ UNCHANGED <<setupVars, pool, cur, pick, raced, fault>>
        /\ \A u \in Threads \ {t} : thread'[u] = thread[u]
    BY ProgramFacts DEF Built
  <1>2. flags' = flags
    BY <1>1 DEF setupVars
  <1>3. CASE flags.server
    BY <1>1, <1>2, <1>3, ProgramsMove
  <1>4. CASE ~ flags.server
    <2>1. thread[t].at = "off" => Start(t)
      BY DEF ProgramStep, ParseOne, ParseDone, Post, FirstBatch, HandlerReturns,
             ConnectReturns
    <2>2. t = Datapath
      BY <1>4, <2>1, ClientIsDatapath DEF Start
    <2>3. thread[t].at = "off" => cur = 0
      BY <1>4, <2>2 DEF Built, LoneClient
    <2>4. thread[t].at # "off" /\ thread'[t].at = "announce" =>
            thread[t].at = "announce"
      <3>1. thread \in [Threads -> Programs] /\ t \notin Handlers
        BY <2>2, TypeFacts, ContextAssumption DEF Built, Base
      <3>2. CASE Start(t)
        BY <3>2 DEF Start
      <3>3. CASE ParseOne(t)
        BY <3>1, <3>3 DEF ParseOne, Programs
      <3>4. CASE ParseDone(t)
        BY <2>2, <3>1, <3>4 DEF ParseDone, Programs
      <3>5. CASE Post(t)
        BY <3>1, <3>5 DEF Post, Programs
      <3>6. CASE FirstBatch(t) \/ HandlerReturns(t)
        BY <3>1, <3>6 DEF FirstBatch, HandlerReturns
      <3>7. CASE ConnectReturns
        BY <2>2, <3>7 DEF ConnectReturns
      <3>. QED
        BY <3>2, <3>3, <3>4, <3>5, <3>6, <3>7 DEF ProgramStep
    <2>. QED
      BY <1>1, <1>2, <2>2, <2>3, <2>4, ProgramsMove
  <1>. QED
    BY <1>3, <1>4

(* What holds before a step of a pick that is under way. *)
LEMMA Picking ==
  ASSUME Built, Orderly, NEW t \in Threads, pick[t].at # "no"
  PROVE  /\ \A u \in Threads \ {t} : pick[u].at = "no"
         /\ PickRight(t) /\ SeatedAt(t) /\ pick[t] \in Picks
         /\ flags.bufs \in Nat /\ cur \in Nat
         /\ Len(pool[PoolOf(t)]) \in Nat /\ PoolOf(t) \in 0 .. 1
         /\ \A p \in 0 .. 1 : \A i \in DOMAIN pool[p] :
              ~ Changing(t, p, i) => Whole(pool[p][i], flags.bufs)
  <1>1. \A u \in Threads \ {t} : pick[u].at = "no"
    BY DEF Orderly
  <1>2. PickRight(t) /\ SeatedAt(t)
    BY DEF Orderly, Built, Base, Seated
  <1>3. /\ pick[t] \in Picks /\ flags.bufs \in Nat /\ cur \in Nat
        /\ pool \in [0 .. 1 -> Seq(Rgn)] /\ PoolOf(t) \in 0 .. 1
    BY TypeFacts, FlagFacts, PoolOfFact DEF Built, Base
  <1>4. Len(pool[PoolOf(t)]) \in Nat
    BY <1>3
  <1>5. \A u \in Threads \ {t} : \A p, i : ~ Changing(u, p, i)
    BY <1>1, IdleRight
  <1>6. \A p \in 0 .. 1 : \A i \in DOMAIN pool[p] :
          ~ Changing(t, p, i) => Whole(pool[p][i], flags.bufs)
    BY <1>5 DEF Orderly
  <1>. QED
    BY <1>1, <1>2, <1>3, <1>4, <1>6

(* The region a pick is at is whole until the pick changes it. *)
LEMMA AtWhole ==
  ASSUME Built, Orderly, NEW t \in Threads, pick[t].at \in {"front", "pop"}
  PROVE  /\ RegionOf(t) \in Rgn /\ Whole(RegionOf(t), flags.bufs)
         /\ pick[t].id + 1 \in DOMAIN pool[PoolOf(t)]
  <1>1. /\ pick[t].id + 1 \in DOMAIN pool[PoolOf(t)] /\ RegionOf(t) \in Rgn
        /\ RegionOf(t) = pool[PoolOf(t)][pick[t].id + 1] /\ PoolOf(t) \in 0 .. 1
    BY RegionFacts DEF Built, AtRegion
  <1>2. \A p, i : ~ Changing(t, p, i)
    BY DEF Changing
  <1>3. Whole(pool[PoolOf(t)][pick[t].id + 1], flags.bufs)
    BY <1>1, <1>2, Picking
  <1>. QED
    BY <1>1, <1>3

(* A step of a pick within its region, the others idle. *)
LEMMA WithinRegion ==
  ASSUME Built, Orderly, NEW t \in Threads, pick[t].at # "no",
         UNCHANGED <<flags, thread, pool>>,
         \A u \in Threads \ {t} : pick'[u] = pick[u],
         pick'[t].at \notin {"no", "push", "turn"},
         pick[t].at \notin {"push", "turn"}, PickRight(t)'
  PROVE  Orderly'
  <1>1. /\ \A u \in Threads \ {t} : pick'[u].at = "no"
        /\ \A p \in 0 .. 1 : \A i \in DOMAIN pool[p] :
             ~ Changing(t, p, i) => Whole(pool[p][i], flags.bufs)
    BY Picking
  <1>2. \A p, i : ~ Changing(t, p, i)
    BY DEF Changing
  <1>3. \A p \in 0 .. 1 : \A i \in DOMAIN pool'[p] :
          Whole(pool'[p][i], flags'.bufs)
    BY <1>1, <1>2
  <1>. QED
    BY <1>1, <1>3, OrderlyAfter

(* A step of a pick that changes its region to r. *)
LEMMA RegionStep ==
  ASSUME Built, Orderly, NEW t \in Threads, pick[t].at \in AtRegion,
         UNCHANGED <<flags, thread>>, NEW r \in Rgn, SetRegion(t, r),
         \A u \in Threads \ {t} : pick'[u] = pick[u],
         pick'[t].at # "no", pick'[t].id = pick[t].id, PickRight(t)',
         Whole(r, flags.bufs) \/ pick'[t].at \in {"push", "turn"}
  PROVE  Orderly'
  <1>1. /\ \A u \in Threads \ {t} : pick'[u].at = "no"
        /\ \A p \in 0 .. 1 : \A i \in DOMAIN pool[p] :
             ~ Changing(t, p, i) => Whole(pool[p][i], flags.bufs)
    BY Picking DEF AtRegion
  <1>2. /\ \A q \in 0 .. 1 : DOMAIN pool'[q] = DOMAIN pool[q]
        /\ \A q \in 0 .. 1 : \A j \in DOMAIN pool[q] :
             pool'[q][j] = IF q = PoolOf(t) /\ j = pick[t].id + 1 THEN r
                           ELSE pool[q][j]
    BY SetRegionFacts DEF Built
  <1>3. PoolOf(t)' = PoolOf(t)
    BY DEF PoolOf
  <1>4. ASSUME NEW p \in 0 .. 1, NEW i \in DOMAIN pool'[p], ~ Changing(t, p, i)'
        PROVE  Whole(pool'[p][i], flags'.bufs)
    <2>1. CASE p = PoolOf(t) /\ i = pick[t].id + 1
      <3>1. pick'[t].at \notin {"push", "turn"}
        BY <1>3, <1>4, <2>1 DEF Changing
      <3>. QED
        BY <1>2, <2>1, <3>1
    <2>2. CASE ~ (p = PoolOf(t) /\ i = pick[t].id + 1)
      <3>1. ~ Changing(t, p, i) /\ i \in DOMAIN pool[p]
        BY <1>2, <2>2 DEF Changing
      <3>2. Whole(pool[p][i], flags.bufs)
        BY <1>1, <3>1
      <3>3. pool'[p][i] = pool[p][i]
        BY <1>2, <2>2, <3>1
      <3>. QED
        BY <3>2, <3>3
    <2>. QED
      BY <2>1, <2>2
  <1>. QED
    BY <1>1, <1>4, OrderlyAfter

(* The region of a pick that has changed it. *)
LEMMA RegionAfter ==
  ASSUME Built, NEW t \in Threads, pick[t].at \in AtRegion,
         UNCHANGED <<flags, thread>>, NEW r \in Rgn, SetRegion(t, r),
         pick'[t].id = pick[t].id
  PROVE  /\ RegionOf(t)' = r /\ PoolOf(t)' = PoolOf(t)
         /\ Len(pool'[PoolOf(t)]) = Len(pool[PoolOf(t)])
  <1>1. PoolOf(t)' = PoolOf(t)
    BY DEF PoolOf
  <1>2. pick[t].id + 1 \in DOMAIN pool[PoolOf(t)] /\ PoolOf(t) \in 0 .. 1
    BY RegionFacts DEF Built
  <1>3. /\ Len(pool'[PoolOf(t)]) = Len(pool[PoolOf(t)])
        /\ pool'[PoolOf(t)][pick[t].id + 1] = r
    BY <1>2, SetRegionFacts DEF Built
  <1>. QED
    BY <1>1, <1>3 DEF RegionOf

(* A pick while no other is under way keeps the order, and goes wrong only *)
(* for want of buffers.                                                    *)
LEMMA OrderlyPickIndex ==
  ASSUME Built, Orderly, NEW t \in Threads, PickIndex(t), ~ raced'
  PROVE  Orderly' /\ fault' = fault
  <1>1. /\ pick[t].at = "no" /\ Pending(t) /\ pool[PoolOf(t)] # << >>
        /\ UNCHANGED <<setupVars, pool, cur, thread>>
        /\ \A u \in Threads : pick[u].at = "no"
    BY DEF PickIndex
  <1>2. /\ Rest /\ SeatedAt(t) /\ cur \in Nat
        /\ pool \in [0 .. 1 -> Seq(Rgn)] /\ PoolOf(t) \in 0 .. 1
    BY <1>1, TypeFacts, PoolOfFact DEF Orderly, Built, Base, Seated
  <1>3. PoolOf(t) = PoolOf(Datapath)
    <2>1. CASE flags.server
      BY <2>1 DEF PoolOf
    <2>2. CASE ~ flags.server
      <3>1. thread[t].at # "off"
        BY <1>1, <1>2 DEF SeatedAt, Pending
      <3>. QED
        BY <2>2, <3>1, ClientIsDatapath
    <2>. QED
      BY <2>1, <2>2
  <1>4. Len(pool[PoolOf(t)]) \in Nat \ {0}
    BY <1>1, <1>2
  <1>5. cur < Len(pool[PoolOf(t)])
    BY <1>2, <1>3, <1>4 DEF Rest
  <1>6. /\ pick' = [pick EXCEPT ![t] = [Idle EXCEPT !.at = "front", !.id = cur]]
        /\ fault' = fault
    BY <1>5 DEF PickIndex
  <1>7. /\ pick'[t] = [at |-> "front", id |-> cur, buf |-> NoBuffer]
        /\ \A u \in Threads \ {t} : pick'[u].at = "no"
    BY <1>1, <1>6, TypeFacts DEF Idle, Built, Base
  <1>8. PoolOf(t)' = PoolOf(t) /\ flags' = flags
    BY <1>1 DEF PoolOf, setupVars
  <1>9. PickRight(t)'
    BY <1>1, <1>5, <1>7, <1>8 DEF PickRight, AtRegion
  <1>10. \A p \in 0 .. 1 : \A i \in DOMAIN pool[p] : Whole(pool[p][i], flags.bufs)
    BY <1>1, IdleRight DEF Orderly
  <1>11. pick'[t].at # "no"
    BY <1>7
  <1>. QED
    BY <1>1, <1>6, <1>7, <1>8, <1>9, <1>10, <1>11, OrderlyAfter

LEMMA OrderlyFront ==
  ASSUME Built, Orderly, NEW t \in Threads, PickStep(t),
         FrontOfNone(t) \/ Front(t)
  PROVE  Orderly' /\ fault' = fault
  <1>0. /\ pick[t].at = "front" /\ UNCHANGED <<setupVars, pool, cur, thread, fault>>
    BY DEF FrontOfNone, Front
  <1>1. /\ PickRight(t) /\ pick[t] \in Picks /\ flags.bufs \in Nat
        /\ RegionOf(t) \in Rgn /\ Whole(RegionOf(t), flags.bufs)
    BY <1>0, Picking, AtWhole
  <1>2. flags' = flags /\ PoolOf(t)' = PoolOf(t)
    BY <1>0 DEF PoolOf, setupVars
  <1>3. \A u \in Threads \ {t} : pick'[u] = pick[u]
    BY PickChanges DEF Built
  <1>4. CASE FrontOfNone(t)
    <2>1. pick'[t].at = "load"
      <3>1. pick'[t] = [pick[t] EXCEPT !.at = "load"]
        BY <1>4, PickChanges DEF Built
      <3>. QED
        BY <1>1, <3>1 DEF Picks
    <2>2. flags.bufs = 0
      BY <1>1, <1>4 DEF FrontOfNone, Whole, Rotated
    <2>3. PickRight(t)'
      BY <1>0, <1>1, <1>2, <2>1, <2>2 DEF PickRight, AtRegion
    <2>. QED
      BY <1>0, <1>2, <1>3, <2>1, <2>3, WithinRegion
  <1>5. CASE Front(t)
    <2>1. /\ pick'[t].at = "pop" /\ pick'[t].id = pick[t].id
          /\ pick'[t].buf = Head(RegionOf(t).queue)
          /\ RegionOf(t).queue # << >>
      <3>1. /\ RegionOf(t).queue # << >>
            /\ pick'[t] = [pick[t] EXCEPT !.at = "pop",
                                          !.buf = Head(RegionOf(t).queue)]
        BY <1>5, PickChanges DEF Built
      <3>. QED
        BY <1>1, <3>1 DEF Picks
    <2>2. RegionOf(t)' = RegionOf(t)
      BY <1>0, <1>2, <2>1 DEF RegionOf
    <2>3. PickRight(t)'
      BY <1>0, <1>1, <1>2, <2>1, <2>2 DEF PickRight, AtRegion
    <2>. QED
      BY <1>0, <1>2, <1>3, <2>1, <2>3, WithinRegion
  <1>. QED
    BY <1>4, <1>5

LEMMA OrderlyPop ==
  ASSUME Built, Orderly, NEW t \in Threads, PickStep(t), Pop(t)
  PROVE  Orderly' /\ fault' = fault
  <1>. DEFINE r == [RegionOf(t) EXCEPT !.queue = Tail(@)]
  <1>0. pick[t].at = "pop" /\ UNCHANGED <<setupVars, cur, thread>>
    BY DEF Pop
  <1>1. /\ PickRight(t) /\ pick[t] \in Picks /\ flags.bufs \in Nat
        /\ RegionOf(t) \in Rgn /\ Whole(RegionOf(t), flags.bufs)
    BY <1>0, Picking, AtWhole
  <1>2. RegionOf(t).queue # << >> /\ pick[t].buf = Head(RegionOf(t).queue)
    BY <1>0, <1>1 DEF PickRight
  <1>3. SetRegion(t, r) /\ fault' = fault
    BY <1>2 DEF Pop
  <1>4. RegionOf(t).queue \in Seq(Nat) /\ Tail(RegionOf(t).queue) \in Seq(Nat)
    BY <1>1, <1>2 DEF Rgn
  <1>5. r \in Rgn /\ r.queue = Tail(RegionOf(t).queue) /\ r.ret = RegionOf(t).ret
    BY <1>1, <1>4 DEF Rgn
  <1>6. \A u \in Threads \ {t} : pick'[u] = pick[u]
    BY PickChanges DEF Built
  <1>7. /\ pick'[t].at = "push" /\ pick'[t].id = pick[t].id
        /\ pick'[t].buf = pick[t].buf
    <2>1. pick' = [pick EXCEPT ![t].at = "push"]
      BY <1>2 DEF Pop
    <2>. QED
      BY <1>1, <2>1, TypeFacts DEF Built, Base, Picks
  <1>. HIDE DEF r
  <1>8. /\ RegionOf(t)' = r /\ PoolOf(t)' = PoolOf(t) /\ flags' = flags
        /\ Len(pool'[PoolOf(t)]) = Len(pool[PoolOf(t)])
    BY <1>0, <1>3, <1>5, <1>7, RegionAfter DEF AtRegion, setupVars
  <1>9. Whole([r EXCEPT !.queue = Append(@, pick[t].buf)], flags.bufs)
    <2>1. Rotated(Append(Tail(RegionOf(t).queue), Head(RegionOf(t).queue)),
                  flags.bufs)
      BY <1>1, <1>2, Rotation DEF Whole
    <2>2. /\ [r EXCEPT !.queue = Append(@, pick[t].buf)].queue
               = Append(Tail(RegionOf(t).queue), Head(RegionOf(t).queue))
          /\ [r EXCEPT !.queue = Append(@, pick[t].buf)].ret = RegionOf(t).ret
      BY <1>2, <1>5 DEF Rgn
    <2>. QED
      BY <1>1, <2>1, <2>2 DEF Whole
  <1>10. PickRight(t)'
    BY <1>0, <1>1, <1>7, <1>8, <1>9 DEF PickRight, AtRegion
  <1>. QED
    BY <1>0, <1>3, <1>5, <1>6, <1>7, <1>8, <1>10, RegionStep DEF AtRegion

LEMMA OrderlyPush ==
  ASSUME Built, Orderly, NEW t \in Threads, PickStep(t), Push(t)
  PROVE  Orderly' /\ fault' = fault
  <1>. DEFINE r == [RegionOf(t) EXCEPT !.queue = Append(@, pick[t].buf)]
  <1>0. /\ pick[t].at = "push" /\ UNCHANGED <<setupVars, cur, thread, fault>>
        /\ SetRegion(t, r)
    BY DEF Push, PushBack
  <1>1. /\ PickRight(t) /\ pick[t] \in Picks /\ SeatedAt(t)
        /\ RegionOf(t) \in Rgn
    BY <1>0, Picking, RegionFacts DEF AtRegion, Built
  <1>2. pick[t].buf \in Nat /\ Whole(r, flags.bufs)
    BY <1>0, <1>1 DEF SeatedAt, PickRight
  <1>3. Append(RegionOf(t).queue, pick[t].buf) \in Seq(Nat)
    BY <1>1, <1>2 DEF Rgn
  <1>4. r \in Rgn
    BY <1>1, <1>3 DEF Rgn
  <1>5. \A u \in Threads \ {t} : pick'[u] = pick[u]
    BY PickChanges DEF Built
  <1>6. /\ pick'[t].at = "load" /\ pick'[t].id = pick[t].id
        /\ pick'[t].buf = pick[t].buf
    <2>1. pick'[t] = [pick[t] EXCEPT !.at = "load"]
      BY PickChanges DEF Built
    <2>. QED
      BY <1>1, <2>1 DEF Picks
  <1>. HIDE DEF r
  <1>7. /\ PoolOf(t)' = PoolOf(t) /\ flags' = flags
        /\ Len(pool'[PoolOf(t)]) = Len(pool[PoolOf(t)])
    BY <1>0, <1>4, <1>6, RegionAfter DEF AtRegion, setupVars
  <1>8. pick'[t].buf # NoBuffer
    BY <1>2, <1>6 DEF NoBuffer
  <1>9. PickRight(t)'
    BY <1>0, <1>1, <1>6, <1>7, <1>8 DEF PickRight, AtRegion
  <1>. QED
    BY <1>0, <1>2, <1>4, <1>5, <1>6, <1>7, <1>9, RegionStep DEF AtRegion

LEMMA OrderlyTake ==
  ASSUME Built, Orderly, NEW t \in Threads, PickStep(t), Take(t)
  PROVE  Orderly' /\ fault' = fault
  <1>. DEFINE r == [RegionOf(t) EXCEPT !.ret = @ + 1]
  <1>0. /\ pick[t].at = "front" /\ UNCHANGED <<setupVars, cur, thread>>
        /\ RegionOf(t).queue # << >>
    BY DEF Take
  <1>1. /\ PickRight(t) /\ pick[t] \in Picks /\ flags.bufs \in Nat
        /\ RegionOf(t) \in Rgn /\ Whole(RegionOf(t), flags.bufs)
    BY <1>0, Picking, AtWhole
  <1>2. /\ RegionOf(t).ret \in Nat /\ Len(RegionOf(t).queue) = flags.bufs
        /\ flags.bufs > 0
    BY <1>0, <1>1 DEF Rgn, Whole, Rotated
  <1>3. RegionOf(t).ret < Len(RegionOf(t).queue)
    BY <1>1, <1>2 DEF Whole
  <1>4. SetRegion(t, r) /\ fault' = fault
    BY <1>3 DEF Take
  <1>5. /\ r \in Rgn /\ r.queue = RegionOf(t).queue
        /\ r.ret = RegionOf(t).ret + 1
    <2>1. RegionOf(t).ret + 1 \in Nat
      BY <1>2
    <2>. QED
      BY <1>1, <2>1 DEF Rgn
  <1>6. \A u \in Threads \ {t} : pick'[u] = pick[u]
    BY PickChanges DEF Built
  <1>7. pick'[t].at = "turn" /\ pick'[t].id = pick[t].id
    <2>1. pick' = [pick EXCEPT ![t].at = "turn",
                     ![t].buf = RegionOf(t).queue[RegionOf(t).ret + 1]]
      BY <1>3 DEF Take
    <2>. QED
      BY <1>1, <2>1, TypeFacts DEF Built, Base, Picks
  <1>. HIDE DEF r
  <1>8. /\ RegionOf(t)' = r /\ PoolOf(t)' = PoolOf(t) /\ flags' = flags
        /\ Len(pool'[PoolOf(t)]) = Len(pool[PoolOf(t)])
    BY <1>0, <1>4, <1>5, <1>7, RegionAfter DEF AtRegion, setupVars
  <1>9. Rotated(r.queue, flags.bufs) /\ r.ret <= flags.bufs
    BY <1>1, <1>2, <1>3, <1>5 DEF Whole
  <1>10. PickRight(t)'
    BY <1>0, <1>1, <1>7, <1>8, <1>9 DEF PickRight, AtRegion
  <1>. QED
    BY <1>0, <1>4, <1>5, <1>6, <1>7, <1>8, <1>10, RegionStep DEF AtRegion

LEMMA OrderlyTurn ==
  ASSUME Built, Orderly, NEW t \in Threads, PickStep(t), Turn(t)
  PROVE  Orderly' /\ fault' = fault
  <1>. DEFINE r == [RegionOf(t) EXCEPT
                      !.ret = IF @ = Len(RegionOf(t).queue) THEN 0 ELSE @]
  <1>0. /\ pick[t].at = "turn" /\ UNCHANGED <<setupVars, cur, thread, fault>>
        /\ SetRegion(t, r)
    BY DEF Turn
  <1>1. /\ PickRight(t) /\ pick[t] \in Picks /\ SeatedAt(t)
        /\ RegionOf(t) \in Rgn /\ flags.bufs \in Nat
    BY <1>0, Picking, RegionFacts DEF AtRegion, Built
  <1>2. /\ Rotated(RegionOf(t).queue, flags.bufs) /\ RegionOf(t).ret <= flags.bufs
        /\ pick[t].buf \in Nat /\ RegionOf(t).ret \in Nat
        /\ Len(RegionOf(t).queue) = flags.bufs
    BY <1>0, <1>1 DEF SeatedAt, PickRight, Rotated, Rgn
  <1>3. /\ r \in Rgn /\ r.queue = RegionOf(t).queue
        /\ r.ret = IF RegionOf(t).ret = flags.bufs THEN 0 ELSE RegionOf(t).ret
    BY <1>1, <1>2 DEF Rgn
  <1>4. Whole(r, flags.bufs)
    BY <1>1, <1>2, <1>3 DEF Whole
  <1>5. \A u \in Threads \ {t} : pick'[u] = pick[u]
    BY PickChanges DEF Built
  <1>6. /\ pick'[t].at = "load" /\ pick'[t].id = pick[t].id
        /\ pick'[t].buf = pick[t].buf
    <2>1. pick'[t] = [pick[t] EXCEPT !.at = "load"]
      BY PickChanges DEF Built
    <2>. QED
      BY <1>1, <2>1 DEF Picks
  <1>. HIDE DEF r
  <1>7. /\ PoolOf(t)' = PoolOf(t) /\ flags' = flags
        /\ Len(pool'[PoolOf(t)]) = Len(pool[PoolOf(t)])
    BY <1>0, <1>3, <1>6, RegionAfter DEF AtRegion, setupVars
  <1>8. pick'[t].buf # NoBuffer
    BY <1>2, <1>6 DEF NoBuffer
  <1>9. PickRight(t)'
    BY <1>0, <1>1, <1>6, <1>7, <1>8 DEF PickRight, AtRegion
  <1>. QED
    BY <1>0, <1>3, <1>4, <1>5, <1>6, <1>7, <1>9, RegionStep DEF AtRegion

LEMMA OrderlyLoadStore ==
  ASSUME Built, Orderly, NEW t \in Threads, PickStep(t), Load(t) \/ Store(t)
  PROVE  Orderly' /\ fault' = fault
  <1>1. /\ UNCHANGED <<setupVars, pool, thread, fault>>
        /\ pick[t].at \in {"load", "store"}
    BY DEF Load, Store
  <1>2. /\ PickRight(t) /\ pick[t] \in Picks /\ cur \in Nat
        /\ Len(pool[PoolOf(t)]) \in Nat
    BY <1>1, Picking
  <1>3. flags' = flags /\ PoolOf(t)' = PoolOf(t)
    BY <1>1 DEF PoolOf, setupVars
  <1>4. \A u \in Threads \ {t} : pick'[u] = pick[u]
    BY PickChanges DEF Built
  <1>5. CASE Load(t)
    <2>1. /\ pick'[t].at = "store" /\ pick'[t].id = cur + 1
          /\ pick'[t].buf = pick[t].buf /\ pick[t].at = "load" /\ cur' = cur
      <3>1. /\ pick'[t] = [pick[t] EXCEPT !.at = "store", !.id = cur + 1]
            /\ pick[t].at = "load" /\ cur' = cur
        BY <1>5, PickChanges DEF Built, Load
      <3>. QED
        BY <1>2, <3>1 DEF Picks
    <2>2. PickRight(t)'
      BY <1>1, <1>2, <1>3, <2>1 DEF PickRight, AtRegion
    <2>. QED
      BY <1>1, <1>3, <1>4, <2>1, <2>2, WithinRegion
  <1>6. CASE Store(t)
    <2>1. /\ pick'[t].at = "wrap" /\ pick'[t].id = pick[t].id
          /\ pick'[t].buf = pick[t].buf /\ pick[t].at = "store"
          /\ cur' = pick[t].id
      <3>1. /\ pick'[t] = [pick[t] EXCEPT !.at = "wrap"]
            /\ pick[t].at = "store" /\ cur' = pick[t].id
        BY <1>6, PickChanges DEF Built, Store
      <3>. QED
        BY <1>2, <3>1 DEF Picks
    <2>2. pick[t].id = cur + 1 /\ cur < Len(pool[PoolOf(t)])
      BY <1>2, <2>1 DEF PickRight
    <2>3. cur' <= Len(pool[PoolOf(t)])
      BY <1>2, <2>1, <2>2
    <2>4. PickRight(t)'
      BY <1>1, <1>2, <1>3, <2>1, <2>3 DEF PickRight, AtRegion
    <2>. QED
      BY <1>1, <1>3, <1>4, <2>1, <2>4, WithinRegion
  <1>. QED
    BY <1>5, <1>6

LEMMA OrderlyWrap ==
  ASSUME Built, Orderly, NEW t \in Threads, PickStep(t), Wrap(t)
  PROVE  Orderly' /\ (fault' = fault \/ (fault' = "null" /\ flags.bufs = 0))
  <1>1. /\ pick[t].at = "wrap" /\ UNCHANGED <<setupVars, pool, raced>>
        /\ cur' \in Wrapped(t)
    BY DEF Wrap
  <1>2. /\ PickRight(t) /\ pick[t] \in Picks /\ cur \in Nat
        /\ Len(pool[PoolOf(t)]) \in Nat /\ SeatedAt(t)
        /\ \A u \in Threads \ {t} : pick[u].at = "no"
        /\ \A p \in 0 .. 1 : \A i \in DOMAIN pool[p] :
             ~ Changing(t, p, i) => Whole(pool[p][i], flags.bufs)
    BY <1>1, Picking
  <1>3. /\ flags' = flags /\ pool' = pool /\ Base
        /\ thread \in [Threads -> Programs]
    BY <1>1, TypeFacts DEF setupVars, Built, Base
  <1>4. \A u \in Threads : pick'[u].at = "no"
    <2>1. pick'[t] = Idle /\ \A u \in Threads \ {t} : pick'[u] = pick[u]
      BY PickChanges DEF Built
    <2>. QED
      BY <1>2, <2>1 DEF Idle
  <1>5. \A p \in 0 .. 1 : \A i \in DOMAIN pool'[p] :
          Whole(pool'[p][i], flags'.bufs)
    BY <1>1, <1>2, <1>3 DEF Changing
  <1>6. cur' = 0 \/ cur' < Len(pool[PoolOf(t)])
    BY <1>1, <1>2 DEF PickRight, Wrapped, Compared
  <1>7. /\ \A u \in Threads \ {t} : thread'[u] = thread[u]
        /\ \/ thread'[t].at = thread[t].at
           \/ thread[t].at = "announce" /\ thread'[t].at # "announce"
        /\ fault' = fault \/ (fault' = "null" /\ flags.bufs = 0)
    <2>1. CASE pick[t].buf = NoBuffer
      <3>1. Nothing(t) /\ flags.bufs = 0
        BY <1>1, <1>2, <2>1 DEF Wrap, PickRight
      <3>2. /\ \A u \in Threads \ {t} : thread'[u] = thread[u]
            /\ \/ fault' = "null" /\ thread' = thread
               \/ /\ fault' = fault /\ thread[t].at = "announce"
                  /\ thread'[t].at \in {"off", "stop", "parse"}
        BY <1>3, <3>1, NothingFacts
      <3>. QED
        BY <3>1, <3>2
    <2>2. CASE pick[t].buf # NoBuffer
      <3>1. thread' = [thread EXCEPT ![t].left = @ - 1] /\ fault' = fault
        BY <2>2 DEF Wrap
      <3>2. thread[t] \in Programs
        BY <1>3
      <3>3. \A u \in Threads \ {t} : thread'[u] = thread[u]
        BY <1>3, <3>1
      <3>4. thread'[t] = [thread[t] EXCEPT !.left = @ - 1]
        BY <1>3, <3>1
      <3>5. thread'[t].at = thread[t].at
        BY <3>2, <3>4 DEF Programs
      <3>. QED
        BY <3>1, <3>3, <3>5
    <2>. QED
      BY <2>1, <2>2
  <1>8. Rest'
    <2>1. CASE flags.server
      <3>1. PoolOf(t) = 1 /\ PoolOf(Datapath)' = 1
        BY <1>3, <2>1 DEF PoolOf
      <3>. QED
        BY <1>3, <1>6, <3>1 DEF Rest
    <2>2. CASE ~ flags.server
      <3>1. thread[t].at # "off"
        BY <1>1, <1>2 DEF SeatedAt
      <3>2. t = Datapath
        BY <2>2, <3>1, ClientIsDatapath
      <3>3. /\ PoolOf(t) = IF thread[t].at = "announce" THEN 1 ELSE 0
            /\ PoolOf(t)' = IF thread'[t].at = "announce" THEN 1 ELSE 0
        BY <1>3, <2>2 DEF PoolOf
      <3>4. CASE PoolOf(t)' = PoolOf(t)
        BY <1>3, <1>6, <3>2, <3>4 DEF Rest
      <3>5. CASE PoolOf(t)' # PoolOf(t)
        <4>1. PoolOf(t) = 1 /\ PoolOf(t)' = 0
          BY <1>7, <3>3, <3>5
        <4>2. cur' \in Nat /\ Len(pool[0]) \in Nat /\ Len(pool[1]) \in Nat
          <5>1. pool \in [0 .. 1 -> Seq(Rgn)]
            BY <1>3, TypeFacts DEF Base
          <5>. QED
            BY <1>1, <1>2, <5>1 DEF Wrapped, Compared
        <4>3. cur' = 0 \/ cur' < Len(pool[0])
          BY <1>6, <4>1, <4>2 DEF Built, Sized
        <4>. QED
          BY <1>3, <3>2, <4>1, <4>3 DEF Rest
      <3>. QED
        BY <3>4, <3>5
    <2>. QED
      BY <2>1, <2>2
  <1>9. PickRight(t)'
    BY <1>4 DEF PickRight, AtRegion
  <1>. QED
    BY <1>4, <1>5, <1>7, <1>8, <1>9, OrderlyAfter

LEMMA OrderlyPickNone ==
  ASSUME Built, Orderly, NEW t \in Threads, PickNone(t)
  PROVE  Orderly' /\ (fault' = fault \/ (fault' = "null" /\ NoBuffers))
  <1>1. /\ pick[t].at = "no" /\ Pending(t) /\ pool[PoolOf(t)] = << >>
        /\ UNCHANGED <<setupVars, pool, cur, pick, raced>> /\ Nothing(t)
    BY DEF PickNone
  <1>2. flags' = flags /\ Base /\ SeatedAt(t)
    BY <1>1 DEF setupVars, Built, Base, Seated
  <1>3. NoBuffers
    BY <1>1, PoolOfFact DEF NoBuffers
  <1>4. /\ \A u \in Threads \ {t} : thread'[u] = thread[u]
        /\ \/ fault' = "null" /\ thread' = thread
           \/ /\ fault' = fault /\ thread'[t].at \in {"off", "stop", "parse"}
    BY <1>1, <1>2, NothingFacts
  <1>5. ~ flags.server => t = Datapath
    BY <1>1, <1>2, ClientIsDatapath DEF SeatedAt, Pending
  <1>6. Orderly'
    BY <1>1, <1>2, <1>4, <1>5, ProgramsMove
  <1>. QED
    BY <1>3, <1>4, <1>6

LEMMA OrderlyPickStep ==
  ASSUME Built, Orderly, NEW t \in Threads, PickStep(t), ~ raced'
  PROVE  Orderly' /\ (fault' = fault \/ (fault' = "null" /\ NoBuffers))
  <1>1. flags.bufs = 0 => NoBuffers
    BY DEF NoBuffers
  <1>2. CASE PickNone(t)
    BY <1>2, OrderlyPickNone
  <1>3. CASE PickIndex(t)
    BY <1>3, OrderlyPickIndex
  <1>4. CASE FrontOfNone(t) \/ Front(t)
    BY <1>4, OrderlyFront
  <1>5. CASE Pop(t)
    BY <1>5, OrderlyPop
  <1>6. CASE Push(t)
    BY <1>6, OrderlyPush
  <1>7. CASE Take(t)
    BY <1>7, OrderlyTake
  <1>8. CASE Turn(t)
    BY <1>8, OrderlyTurn
  <1>9. CASE Load(t) \/ Store(t)
    BY <1>9, OrderlyLoadStore
  <1>10. CASE Wrap(t)
    BY <1>1, <1>10, OrderlyWrap
  <1>. QED
    BY <1>2, <1>3, <1>4, <1>5, <1>6, <1>7, <1>8, <1>9, <1>10 DEF PickStep

-----------------------------------------------------------------------------
(* The inductive invariant. *)

IInv ==
  /\ Built
  /\ raced \/ Orderly
  /\ FaultsExplained

LEMMA IInvInit == Init => IInv
  <1>1. Init => fault = "none"
    BY DEF Init
  <1>. QED
    BY <1>1, BuiltInit, OrderlyInit DEF IInv, FaultsExplained

(* With enough protection domains none is missed. *)
LEMMA EnoughPds ==
  ASSUME flags \in Settings, pds = NumPds, ~ TooFewPds
  PROVE  /\ \A i \in 0 .. (flags.mrs - 1) : HasPd(i)
         /\ \A e \in 0 .. (NumQps(flags) - 1) : HasPd(e)
  <1>1. /\ flags.mrs \in Nat /\ flags.qps \in Nat \ {0}
        /\ flags.hosts \in Nat \ {0} /\ flags.sharePd \in BOOLEAN
    BY FlagFacts
  <1>2. CASE flags.sharePd
    BY <1>2 DEF HasPd
  <1>3. CASE ~ flags.sharePd
    <2>1. pds = flags.qps /\ flags.mrs <= flags.qps /\ flags.hosts = 1
      BY <1>1, <1>3 DEF NumPds, TooFewPds
    <2>2. NumQps(flags) = flags.qps
      BY <1>1, <2>1, ProductFacts DEF NumQps
    <2>. QED
      BY <1>1, <2>1, <2>2 DEF HasPd
  <1>. QED
    BY <1>2, <1>3

LEMMA ExplainedInitStep ==
  ASSUME Built, fault = "none", InitStep
  PROVE  FaultsExplained'
  <1>1. UNCHANGED <<flags, raced>>
    BY DEF InitStep, InitDevice, AllocPds, CollieRegions, HuskyRegions,
           NoPdForRegion, CreateCqs, InitTransport, NoPdForQp, pickVars
  <1>2. CASE NoPdForRegion \/ NoPdForQp
    <2>1. /\ flags \in Settings /\ pds = NumPds
          /\ DOMAIN ep = 0 .. (NumQps(flags) - 1) /\ fault' = "range"
      BY <1>2 DEF NoPdForRegion, NoPdForQp, Built, Made, Base, TypeOK
    <2>2. TooFewPds
      BY <1>2, <2>1, EnoughPds DEF NoPdForRegion, NoPdForQp
    <2>3. TooFewPds'
      BY <1>1, <2>2 DEF TooFewPds
    <2>. QED
      BY <2>1, <2>3 DEF FaultsExplained
  <1>3. CASE ~ (NoPdForRegion \/ NoPdForQp)
    <2>1. fault' = "none"
      BY <1>3 DEF InitStep, InitDevice, AllocPds, CollieRegions, HuskyRegions,
             CreateCqs, InitTransport
    <2>. QED
      BY <2>1 DEF FaultsExplained
  <1>. QED
    BY <1>2, <1>3

LEMMA IInvStep == IInv /\ [Next]_vars => IInv'
  <1>. SUFFICES ASSUME IInv, [Next]_vars PROVE IInv'
    OBVIOUS
  <1>0. Built /\ Built' /\ raced \in BOOLEAN /\ (raced \/ Orderly)
    BY BuiltStep, TypeFacts DEF IInv, Built, Base
  <1>1. CASE fault = "none" /\ InitStep
    <2>1. raced' = raced
      BY <1>1 DEF InitStep, InitDevice, AllocPds, CollieRegions, HuskyRegions,
             NoPdForRegion, CreateCqs, InitTransport, NoPdForQp, pickVars
    <2>2. raced' \/ Orderly'
      BY <1>0, <1>1, <2>1, OrderlyInitStep
    <2>. QED
      BY <1>0, <1>1, <2>2, ExplainedInitStep DEF IInv
  <1>2. ASSUME fault = "none", NEW t \in Threads, ProgramStep(t)
        PROVE  IInv'
    <2>1. raced' = raced /\ fault' = "none"
      BY <1>0, <1>2, ProgramFacts DEF Built
    <2>2. raced' \/ Orderly'
      BY <1>0, <1>2, <2>1, OrderlyProgramStep
    <2>. QED
      BY <1>0, <2>1, <2>2 DEF IInv, FaultsExplained
  <1>3. ASSUME fault = "none", NEW t \in Threads, PickStep(t)
        PROVE  IInv'
    <2>1. CASE raced'
      BY <1>0, <2>1 DEF IInv, FaultsExplained
    <2>2. CASE ~ raced'
      <3>1. ~ raced
        <4>1. raced => raced'
          BY <1>3 DEF PickStep, PickNone, PickIndex, FrontOfNone, Front, Pop,
                 Push, Take, Turn, Load, Store, Wrap
        <4>. QED
          BY <2>2, <4>1
      <3>2. Orderly' /\ (fault' = "none" \/ (fault' = "null" /\ NoBuffers))
        <4>1. Built /\ Orderly
          BY <1>0, <3>1
        <4>2. Orderly' /\ (fault' = fault \/ (fault' = "null" /\ NoBuffers))
          BY <1>3, <2>2, <4>1, OrderlyPickStep
        <4>. QED
          BY <1>3, <4>2
      <3>3. NoBuffers => NoBuffers'
        <4>1. /\ flags' = flags /\ pool \in [0 .. 1 -> Seq(Rgn)]
              /\ pool' \in [0 .. 1 -> Seq(Rgn)]
              /\ \A p \in 0 .. 1 : Len(pool'[p]) = Len(pool[p])
          BY <1>0, <1>3, PickChanges, RegionChanges, TypeFacts
             DEF setupVars, Built, Base
        <4>2. \A p \in 0 .. 1 : pool[p] = << >> => pool'[p] = << >>
          BY <4>1
        <4>. QED
          BY <4>1, <4>2 DEF NoBuffers
      <3>. QED
        BY <1>0, <3>2, <3>3 DEF IInv, FaultsExplained
    <2>. QED
      BY <2>1, <2>2
  <1>4. CASE UNCHANGED vars
    BY <1>0, <1>4 DEF IInv, FaultsExplained, Orderly, Rest, PickRight, Changing,
         RegionOf, PoolOf, TooFewPds, NoBuffers, vars, setupVars, pickVars
  <1>. QED
    BY <1>1, <1>2, <1>3, <1>4 DEF Next, ThreadStep, ProgramStep, Threads

LEMMA IInvAlways == Spec => []IInv
  BY IInvInit, IInvStep, PTL DEF Spec

(* Whatever allocation fails, an access outside a vector needs picks that  *)
(* overlap or too few protection domains, and one through a null pointer   *)
(* needs picks that overlap or a pool without buffers.                     *)
THEOREM Explained == Spec => []FaultsExplained
  <1>1. IInv => FaultsExplained
    BY DEF IInv
  <1>. QED
    BY <1>1, IInvAlways, PTL

(* As long as picks do not overlap, every region of both pools hands out   *)
(* its buffers in turn, for any numbers of regions and buffers.            *)
THEOREM InOrder == Spec => []BuffersInTurn
  <1>1. IInv => BuffersInTurn
    <2>. SUFFICES ASSUME IInv, ~ raced, NEW p \in 0 .. 1, NEW i \in DOMAIN pool[p]
                  PROVE  LET q == pool[p][i].queue
                         IN  \/ Len(q) = flags.bufs /\ InTurn(q)
                             \/ \E t \in Threads :
                                  /\ pick[t].at = "push"
                                  /\ p = PoolOf(t) /\ i = pick[t].id + 1
                                  /\ Len(q) = flags.bufs - 1
                                  /\ InTurn(Append(q, pick[t].buf))
      BY DEF BuffersInTurn
    <2>. DEFINE q == pool[p][i].queue
    <2>1. Built /\ Orderly /\ flags \in Settings
      BY TypeFacts DEF IInv, Built, Base
    <2>2. CASE \A t \in Threads : ~ Changing(t, p, i)
      <3>1. Rotated(q, flags.bufs)
        BY <2>1, <2>2 DEF Orderly, Whole
      <3>. QED
        BY <2>1, <3>1, RotatedInTurn DEF Rotated
    <2>3. ASSUME NEW t \in Threads, Changing(t, p, i)
          PROVE  \/ Len(q) = flags.bufs /\ InTurn(q)
                 \/ /\ pick[t].at = "push" /\ p = PoolOf(t) /\ i = pick[t].id + 1
                    /\ Len(q) = flags.bufs - 1
                    /\ InTurn(Append(q, pick[t].buf))
      <3>1. /\ pick[t].at \in {"push", "turn"} /\ p = PoolOf(t)
            /\ i = pick[t].id + 1 /\ RegionOf(t) = pool[p][i] /\ PickRight(t)
            /\ RegionOf(t) \in Rgn /\ SeatedAt(t)
        BY <2>1, <2>3, Picking, RegionFacts DEF Changing, AtRegion, Built
      <3>2. CASE pick[t].at = "turn"
        <4>1. Rotated(q, flags.bufs)
          BY <3>1, <3>2 DEF PickRight
        <4>. QED
          BY <2>1, <4>1, RotatedInTurn DEF Rotated
      <3>3. CASE pick[t].at = "push"
        <4>1. q \in Seq(Nat) /\ pick[t].buf \in Nat
          BY <3>1, <3>3 DEF Rgn, SeatedAt
        <4>2. Rotated(Append(q, pick[t].buf), flags.bufs)
          BY <3>1, <3>3 DEF PickRight, Whole, Rgn
        <4>3. Len(q) = flags.bufs - 1
          BY <4>1, <4>2 DEF Rotated
        <4>. QED
          BY <2>1, <3>1, <3>3, <4>2, <4>3, RotatedInTurn
      <3>. QED
        BY <3>1, <3>2, <3>3
    <2>. QED
      BY <2>2, <2>3
  <1>. QED
    BY <1>1, IInvAlways, PTL
=============================================================================
