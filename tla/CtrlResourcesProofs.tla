------------------------ MODULE CtrlResourcesProofs ------------------------
(***************************************************************************)
(* Proofs about CtrlResources, for any number of threads and objects and   *)
(* any sizes of the vectors of parent objects.                             *)
(***************************************************************************)
EXTENDS CtrlResources, FiniteSetTheorems, TLAPS

Places == {"wait", "head", "batch", "free", "first", "drain", "returned"}

-----------------------------------------------------------------------------
(* Types. *)

LEMMA SizesPositive == \A v \in DOMAIN Sizes : Sizes[v] \in Nat \ {0}
  BY ResourceAssumption DEF Sizes, QpSizes, MrSizes, NoSizes

LEMMA JobFacts ==
  ASSUME TypeOK, NEW t \in Threads
  PROVE  /\ job[t] \in JobType
         /\ job[t].at \in Places /\ job[t].n \in 0 .. BatchCtrl
         /\ job[t].late \in BOOLEAN /\ job[t].room \in BOOLEAN
         /\ job[t].obj \in Handles \cup {None}
         /\ rounds[t] \in 0 .. 4 /\ queue[t] \in Seq(Handles)
         /\ idx[t] \in [DOMAIN Sizes -> Nat]
         /\ DOMAIN job = Threads /\ DOMAIN queue = Threads
         /\ DOMAIN idx = Threads /\ DOMAIN rounds = Threads
  BY DEF TypeOK, JobType, Places

(* A thread's job is replaced by another. *)
LEMMA NewJob ==
  ASSUME TypeOK, NEW t \in Threads, NEW j \in JobType,
         job' = [job EXCEPT ![t] = j]
  PROVE  job' \in [Threads -> JobType]
  BY DEF TypeOK

LEMMA NewQueue ==
  ASSUME TypeOK, NEW t \in Threads, NEW q \in Seq(Handles),
         queue' = [queue EXCEPT ![t] = q]
  PROVE  queue' \in [Threads -> Seq(Handles)]
  BY DEF TypeOK

LEMMA NewIdx ==
  ASSUME TypeOK, NEW t \in Threads, NEW f \in [DOMAIN Sizes -> Nat],
         idx' = [idx EXCEPT ![t] = f]
  PROVE  idx' \in [Threads -> [DOMAIN Sizes -> Nat]]
  BY DEF TypeOK

LEMMA Indices ==
  ASSUME NEW f \in [DOMAIN Sizes -> Nat]
  PROVE  /\ Used(f) \in [DOMAIN Sizes -> Nat]
         /\ Wrapped(f) \in [DOMAIN Sizes -> Nat]
         /\ \A v \in DOMAIN Sizes : Used(f)[v] = f[v] + 1
         /\ \A v \in DOMAIN Sizes :
              Wrapped(f)[v] = IF f[v] = Sizes[v] THEN 0 ELSE f[v]
  <1>1. DOMAIN f = DOMAIN Sizes
    OBVIOUS
  <1>2. Used(f) = [v \in DOMAIN Sizes |-> f[v] + 1]
    BY <1>1 DEF Used
  <1>3. Wrapped(f) = [v \in DOMAIN Sizes |->
                        IF f[v] = Sizes[v] THEN 0 ELSE f[v]]
    BY <1>1 DEF Wrapped
  <1>4. Used(f) \in [DOMAIN Sizes -> Nat]
    BY <1>2
  <1>5. Wrapped(f) \in [DOMAIN Sizes -> Nat]
    BY <1>3
  <1>6. \A v \in DOMAIN Sizes : Used(f)[v] = f[v] + 1
    BY <1>2
  <1>7. \A v \in DOMAIN Sizes :
          Wrapped(f)[v] = IF f[v] = Sizes[v] THEN 0 ELSE f[v]
    BY <1>3
  <1> QED BY <1>4, <1>5, <1>6, <1>7

LEMMA InitType == Init => TypeOK
  <1> SUFFICES ASSUME Init PROVE TypeOK
    OBVIOUS
  <1> DEFINE j == [at |-> "wait", n |-> 0, late |-> FALSE, room |-> FALSE,
                   obj |-> None]
  <1>1. j \in JobType
    BY ResourceAssumption DEF JobType
  <1>2. job = [t \in Threads |-> j]
    BY DEF Init
  <1>3. job \in [Threads -> JobType]
    BY <1>1, <1>2
  <1>4. /\ rounds \in [Threads -> 0 .. 4]
        /\ queue \in [Threads -> Seq(Handles)]
        /\ idx \in [Threads -> [DOMAIN Sizes -> Nat]]
    BY DEF Init, Barrier!Init
  <1> QED BY <1>3, <1>4 DEF Init, TypeOK

LEMMA BeginType ==
  ASSUME TypeOK, NEW t \in Threads, Begin(t)
  PROVE  TypeOK'
  <1>1. /\ rounds[t] \in 0 .. 4 /\ rounds[t] < 4
        /\ rounds' = [rounds EXCEPT ![t] = @ + 1]
    BY JobFacts DEF Begin, Barrier!Complete
  <1>2. rounds' \in [Threads -> 0 .. 4]
    BY <1>1 DEF TypeOK
  <1> DEFINE j == [at |-> Entry[rounds[t] + 1], n |-> 0, late |-> FALSE,
                   room |-> FALSE, obj |-> None]
             z == [v \in DOMAIN Sizes |-> 0]
  <1>3. Entry[rounds[t] + 1] \in Places
    BY <1>1 DEF Entry, Places
  <1>4. j \in JobType
    BY <1>3, ResourceAssumption DEF JobType, Places
  <1>5. job' = [job EXCEPT ![t] = j] /\ idx' = [idx EXCEPT ![t] = z]
    BY DEF Begin
  <1>6. job' \in [Threads -> JobType]
    BY <1>4, <1>5, NewJob
  <1>7. idx' \in [Threads -> [DOMAIN Sizes -> Nat]]
    BY <1>5, NewIdx
  <1>8. overlap' \in BOOLEAN
    BY DEF Begin
  <1> QED BY <1>2, <1>6, <1>7, <1>8 DEF TypeOK, Begin

LEMMA JobChange ==
  ASSUME TypeOK, NEW t \in Threads, NEW a \in Places
  PROVE  /\ [job[t] EXCEPT !.at = a] \in JobType
         /\ [job[t] EXCEPT !.late = TRUE] \in JobType
         /\ [job[t] EXCEPT !.at = a, !.room = TRUE] \in JobType
         /\ [job[t] EXCEPT !.at = a, !.obj = None] \in JobType
         /\ \A o \in Handles : [job[t] EXCEPT !.at = a, !.obj = o] \in JobType
         /\ \A n \in 0 .. BatchCtrl :
              /\ [job[t] EXCEPT !.at = a, !.n = n] \in JobType
              /\ [job[t] EXCEPT !.n = n, !.at = a] \in JobType
              /\ [job[t] EXCEPT !.n = n, !.at = a, !.obj = None] \in JobType
  BY JobFacts DEF JobType, Places

-----------------------------------------------------------------------------
(* Where a thread can be in which phase, and what holds of it there.  With *)
(* TypeOK this is inductive.                                               *)

Fresh(t) == \A v \in DOMAIN Sizes : idx[t][v] < Sizes[v]

Sound(t) ==
  /\ job[t].at \in {"batch", "free"} => job[t].n < BatchCtrl
  /\ job[t].at \in {"head", "batch"} => rounds[t] \in {1, 2}
  /\ job[t].at = "free" =>
       /\ rounds[t] = 2 /\ job[t].obj \in Handles
       /\ \A v \in DOMAIN Sizes : idx[t][v] <= Sizes[v]
  /\ job[t].at = "first" => rounds[t] = 2 /\ ~ job[t].room
  /\ job[t].at = "drain" => rounds[t] = 3
  /\ job[t].at = "returned" => rounds[t] = 4
  /\ job[t].at \in {"first", "head", "batch"} => Fresh(t)

Placed == TypeOK /\ \A t \in Threads : Sound(t)

(* What is not written for t stays sound of it. *)
LEMMA SoundKept ==
  ASSUME NEW t \in Threads, Sound(t), rounds'[t] = rounds[t],
         job'[t] = job[t], idx'[t] = idx[t]
  PROVE  Sound(t)'
  BY DEF Sound, Fresh

LEMMA InitPlaced == Init => Placed
  BY InitType DEF Init, Placed, Sound

LEMMA BeginPlaced ==
  ASSUME Placed, NEW t \in Threads, Begin(t)
  PROVE  Placed'
  <1>1. TypeOK' /\ TypeOK
    BY BeginType DEF Placed
  <1>2. /\ rounds[t] \in 0 .. 3
        /\ rounds' = [rounds EXCEPT ![t] = @ + 1]
    BY <1>1, JobFacts DEF Begin, Barrier!Complete
  <1>3. ASSUME NEW u \in Threads \ {t}
        PROVE  Sound(u)'
    <2>1. /\ rounds'[u] = rounds[u] /\ job'[u] = job[u] /\ idx'[u] = idx[u]
      BY <1>1, <1>2, JobFacts DEF Begin
    <2> QED BY <2>1, SoundKept DEF Placed
  <1>4. Sound(t)'
    <2>1. /\ rounds'[t] = rounds[t] + 1
          /\ job'[t].at = Entry[rounds[t] + 1] /\ ~ job'[t].room
          /\ idx'[t] = [v \in DOMAIN Sizes |-> 0]
      BY <1>1, <1>2, JobFacts DEF Begin
    <2>2. \/ rounds'[t] = 1 /\ job'[t].at = "head"
          \/ rounds'[t] = 2 /\ job'[t].at = "first"
          \/ rounds'[t] = 3 /\ job'[t].at = "drain"
          \/ rounds'[t] = 4 /\ job'[t].at = "returned"
      BY <1>2, <2>1 DEF Entry
    <2>3. Fresh(t)'
      BY <2>1, SizesPositive DEF Fresh
    <2> QED BY <2>1, <2>2, <2>3 DEF Sound
  <1> QED BY <1>1, <1>3, <1>4 DEF Placed

LEMMA Same ==
  ASSUME TypeOK, NEW t \in Threads
  PROVE  /\ job = [job EXCEPT ![t] = job[t]]
         /\ idx = [idx EXCEPT ![t] = idx[t]]
         /\ queue = [queue EXCEPT ![t] = queue[t]]
  BY DEF TypeOK

(* One thread moves within its phase. *)
LEMMA StepPlaced ==
  ASSUME Placed, NEW t \in Threads,
         NEW j \in JobType, job' = [job EXCEPT ![t] = j],
         NEW f \in [DOMAIN Sizes -> Nat], idx' = [idx EXCEPT ![t] = f],
         NEW q \in Seq(Handles), queue' = [queue EXCEPT ![t] = q],
         live' \subseteq Handles, lost' \subseteq Handles,
         UNCHANGED <<rounds, overlap>>, Sound(t)'
  PROVE  Placed'
  <1>1. TypeOK
    BY DEF Placed
  <1>2. TypeOK'
    <2>1. job' \in [Threads -> JobType]
      BY <1>1, NewJob
    <2>2. queue' \in [Threads -> Seq(Handles)]
      BY <1>1, NewQueue
    <2>3. idx' \in [Threads -> [DOMAIN Sizes -> Nat]]
      BY <1>1, NewIdx
    <2> QED BY <1>1, <2>1, <2>2, <2>3 DEF TypeOK
  <1>3. ASSUME NEW u \in Threads \ {t}
        PROVE  Sound(u)'
    <2>1. rounds'[u] = rounds[u] /\ job'[u] = job[u] /\ idx'[u] = idx[u]
      BY <1>1, JobFacts
    <2> QED BY <2>1, SoundKept DEF Placed
  <1> QED BY <1>2, <1>3 DEF Placed

(* The thread's own values after a step. *)
LEMMA Own ==
  ASSUME TypeOK, NEW t \in Threads,
         NEW j, job' = [job EXCEPT ![t] = j],
         NEW f, idx' = [idx EXCEPT ![t] = f],
         NEW q, queue' = [queue EXCEPT ![t] = q]
  PROVE  job'[t] = j /\ idx'[t] = f /\ queue'[t] = q
  BY JobFacts

(* The steps that change neither queue, index nor object. *)
LEMMA QuietPlaced ==
  ASSUME Placed, NEW t \in Threads,
         \/ TimeUp(t) \/ LoopHead(t) \/ NothingToFree(t)
         \/ FreeFirstFails(t) \/ Drained(t)
  PROVE  Placed'
  <1>1. TypeOK /\ Sound(t)
    BY DEF Placed
  <1>2. /\ job[t] \in JobType /\ job[t].at \in Places
        /\ idx[t] \in [DOMAIN Sizes -> Nat] /\ queue[t] \in Seq(Handles)
        /\ job[t].n \in 0 .. BatchCtrl /\ job[t].room \in BOOLEAN
    BY <1>1, JobFacts
  <1>3. /\ UNCHANGED <<rounds, queue, idx, live, lost, overlap>>
        /\ live \subseteq Handles /\ lost \subseteq Handles
    BY <1>1 DEF TimeUp, LoopHead, NothingToFree, FreeFirstFails, Drained, TypeOK
  <1>4. /\ idx' = [idx EXCEPT ![t] = idx[t]]
        /\ queue' = [queue EXCEPT ![t] = queue[t]]
    BY <1>1, <1>3, Same
  <1>5. ASSUME NEW j \in JobType, job' = [job EXCEPT ![t] = j],
               job'[t] = j => Sound(t)'
        PROVE  Placed'
    <2>1. job'[t] = j
      BY <1>1, <1>5, JobFacts
    <2>2. Sound(t)' /\ live' \subseteq Handles /\ lost' \subseteq Handles
      BY <1>3, <1>5, <2>1
    <2>3. UNCHANGED <<rounds, overlap>>
      BY <1>3
    <2> QED BY <1>2, <1>4, <1>5, <2>2, <2>3, StepPlaced
  <1>6. CASE TimeUp(t)
    <2> DEFINE j == [job[t] EXCEPT !.late = TRUE]
    <2>1. j \in JobType /\ job' = [job EXCEPT ![t] = j]
      BY <1>1, <1>2, <1>6, JobChange DEF TimeUp
    <2>2. j.at = job[t].at /\ j.n = job[t].n /\ j.obj = job[t].obj
          /\ j.room = job[t].room
      BY <1>2 DEF JobType
    <2>3. job'[t] = j => Sound(t)'
      BY <1>1, <1>3, <2>2 DEF Sound, Fresh
    <2> QED BY <1>5, <2>1, <2>3
  <1>7. CASE LoopHead(t)
    <2> DEFINE a == IF job[t].late THEN "wait" ELSE "batch"
               j == [job[t] EXCEPT !.at = a, !.n = 0]
    <2>0. a \in Places /\ 0 \in 0 .. BatchCtrl /\ 0 < BatchCtrl
      BY ResourceAssumption DEF Places
    <2>1. j \in JobType /\ job' = [job EXCEPT ![t] = j]
      BY <1>1, <1>2, <1>7, <2>0, JobChange DEF LoopHead
    <2>2. j.at \in {"wait", "batch"} /\ j.n = 0
      BY <1>2 DEF JobType
    <2>3. job'[t] = j => Sound(t)'
      BY <1>1, <1>3, <1>7, <2>0, <2>2 DEF LoopHead, Sound, Fresh
    <2> QED BY <1>5, <2>1, <2>3
  <1>8. CASE NothingToFree(t)
    <2> DEFINE j == [job[t] EXCEPT !.at = "head"]
    <2>1. j \in JobType /\ job' = [job EXCEPT ![t] = j]
      BY <1>1, <1>2, <1>8, JobChange DEF NothingToFree, Places
    <2>2. j.at = "head"
      BY <1>2 DEF JobType
    <2>3. job'[t] = j => Sound(t)'
      BY <1>1, <1>3, <1>8, <2>2 DEF NothingToFree, Sound, Fresh
    <2> QED BY <1>5, <2>1, <2>3
  <1>9. CASE FreeFirstFails(t) \/ Drained(t)
    <2> DEFINE j == [job[t] EXCEPT !.at = "wait"]
    <2>1. j \in JobType /\ job' = [job EXCEPT ![t] = j]
      BY <1>1, <1>2, <1>9, JobChange DEF FreeFirstFails, Drained, Places
    <2>2. j.at = "wait"
      BY <1>2 DEF JobType
    <2>3. job'[t] = j => Sound(t)'
      BY <2>2 DEF Sound
    <2> QED BY <1>5, <2>1, <2>3
  <1> QED BY <1>6, <1>7, <1>8, <1>9

LEMMA BatchEnds ==
  ASSUME NEW n \in 0 .. BatchCtrl, n < BatchCtrl
  PROVE  /\ n + 1 \in 0 .. BatchCtrl
         /\ InBatch(n + 1) \in {"head", "batch"}
         /\ InBatch(n + 1) = "batch" => n + 1 < BatchCtrl
  BY ResourceAssumption DEF InBatch

LEMMA FreshAgain ==
  ASSUME NEW f \in [DOMAIN Sizes -> Nat],
         \A v \in DOMAIN Sizes : f[v] <= Sizes[v]
  PROVE  \A v \in DOMAIN Sizes : Wrapped(f)[v] < Sizes[v]
  BY SizesPositive, Indices

LEMMA UsedUp ==
  ASSUME NEW f \in [DOMAIN Sizes -> Nat],
         \A v \in DOMAIN Sizes : f[v] < Sizes[v]
  PROVE  \A v \in DOMAIN Sizes : Used(f)[v] <= Sizes[v]
  BY SizesPositive, Indices

LEMMA AllocToQueuePlaced ==
  ASSUME Placed, NEW t \in Threads, AllocToQueue(t)
  PROVE  Placed'
  <1>1. /\ TypeOK /\ Sound(t)
        /\ job[t].at = "batch" /\ rounds[t] = 1
        /\ UNCHANGED <<rounds, lost, overlap>>
    BY DEF Placed, AllocToQueue
  <1>2. /\ job[t] \in JobType /\ idx[t] \in [DOMAIN Sizes -> Nat]
        /\ queue[t] \in Seq(Handles) /\ job[t].n \in 0 .. BatchCtrl
    BY <1>1, JobFacts
  <1>3. PICK o \in Handles \ live :
          live' = live \cup {o} /\ queue' = [queue EXCEPT ![t] = Append(@, o)]
    BY DEF AllocToQueue
  <1> DEFINE n == job[t].n + 1
             j == [job[t] EXCEPT !.n = n, !.at = InBatch(n)]
             f == Wrapped(Used(idx[t]))
             q == Append(queue[t], o)
  <1>4. /\ n \in 0 .. BatchCtrl /\ InBatch(n) \in {"head", "batch"}
        /\ InBatch(n) = "batch" => n < BatchCtrl
    BY <1>1, <1>2, BatchEnds DEF Sound
  <1>5. j \in JobType /\ job' = [job EXCEPT ![t] = j]
    BY <1>1, <1>4, JobChange DEF AllocToQueue, Places
  <1>6. /\ f \in [DOMAIN Sizes -> Nat] /\ idx' = [idx EXCEPT ![t] = f]
        /\ \A v \in DOMAIN Sizes : f[v] < Sizes[v]
    <2>1. Fresh(t)
      BY <1>1 DEF Sound
    <2>2. /\ Used(idx[t]) \in [DOMAIN Sizes -> Nat]
          /\ \A v \in DOMAIN Sizes : Used(idx[t])[v] <= Sizes[v]
      BY <1>2, <2>1, Indices, UsedUp DEF Fresh
    <2> QED BY <2>2, Indices, FreshAgain DEF AllocToQueue
  <1>7. q \in Seq(Handles) /\ queue' = [queue EXCEPT ![t] = q]
    BY <1>2, <1>3
  <1>8. live' \subseteq Handles /\ lost' \subseteq Handles
    BY <1>1, <1>3 DEF TypeOK
  <1>9. Sound(t)'
    <2>1. job'[t] = j /\ idx'[t] = f
      BY <1>1, <1>5, <1>6, JobFacts
    <2>2. j.n = n /\ j.at = InBatch(n)
      BY <1>2 DEF JobType
    <2>3. Fresh(t)'
      BY <1>6, <2>1 DEF Fresh
    <2> QED BY <1>1, <1>4, <2>1, <2>2, <2>3 DEF Sound
  <1> QED BY <1>1, <1>5, <1>6, <1>7, <1>8, <1>9, StepPlaced

LEMMA AllocToFreePlaced ==
  ASSUME Placed, NEW t \in Threads, AllocToFree(t)
  PROVE  Placed'
  <1>1. /\ TypeOK /\ Sound(t)
        /\ job[t].at = "batch" /\ rounds[t] = 2
        /\ UNCHANGED <<rounds, queue, lost, overlap>>
    BY DEF Placed, AllocToFree
  <1>2. /\ job[t] \in JobType /\ idx[t] \in [DOMAIN Sizes -> Nat]
        /\ queue[t] \in Seq(Handles)
    BY <1>1, JobFacts
  <1>3. PICK o \in Handles \ live :
          /\ live' = live \cup {o}
          /\ job' = [job EXCEPT ![t].at = "free", ![t].obj = o]
    BY DEF AllocToFree
  <1> DEFINE j == [job[t] EXCEPT !.at = "free", !.obj = o]
             f == Used(idx[t])
  <1>5. j \in JobType /\ job' = [job EXCEPT ![t] = j]
    BY <1>1, <1>3, JobChange DEF Places
  <1>6. /\ f \in [DOMAIN Sizes -> Nat] /\ idx' = [idx EXCEPT ![t] = f]
        /\ \A v \in DOMAIN Sizes : f[v] <= Sizes[v]
    <2>1. Fresh(t)
      BY <1>1 DEF Sound
    <2> QED BY <1>2, <2>1, Indices, UsedUp DEF Fresh, AllocToFree
  <1>7. queue' = [queue EXCEPT ![t] = queue[t]]
    BY <1>1, Same
  <1>8. live' \subseteq Handles /\ lost' \subseteq Handles
    BY <1>1, <1>3 DEF TypeOK
  <1>9. Sound(t)'
    <2>1. job'[t] = j /\ idx'[t] = f
      BY <1>1, <1>5, <1>6, JobFacts
    <2>2. j.n = job[t].n /\ j.at = "free" /\ j.obj = o
      BY <1>2 DEF JobType
    <2> QED BY <1>1, <1>6, <2>1, <2>2 DEF Sound
  <1> QED BY <1>1, <1>2, <1>5, <1>6, <1>7, <1>8, <1>9, StepPlaced

LEMMA AllocFailsPlaced ==
  ASSUME Placed, NEW t \in Threads, AllocFails(t)
  PROVE  Placed'
  <1>1. /\ TypeOK /\ Sound(t)
        /\ UNCHANGED <<rounds, queue, live, lost, overlap>>
    BY DEF Placed, AllocFails
  <1>2. /\ job[t] \in JobType /\ idx[t] \in [DOMAIN Sizes -> Nat]
        /\ queue[t] \in Seq(Handles)
    BY <1>1, JobFacts
  <1> DEFINE j == [job[t] EXCEPT !.at = "wait"]
             f == Used(idx[t])
  <1>3. j \in JobType /\ job' = [job EXCEPT ![t] = j]
    BY <1>1, JobChange DEF AllocFails, Places
  <1>4. f \in [DOMAIN Sizes -> Nat] /\ idx' = [idx EXCEPT ![t] = f]
    BY <1>2, Indices DEF AllocFails
  <1>5. queue' = [queue EXCEPT ![t] = queue[t]]
    BY <1>1, Same
  <1>6. live' \subseteq Handles /\ lost' \subseteq Handles
    BY <1>1 DEF TypeOK
  <1>7. Sound(t)'
    <2>1. job'[t].at = "wait"
      BY <1>1, <1>2, <1>3, JobFacts DEF JobType
    <2> QED BY <2>1 DEF Sound
  <1> QED BY <1>1, <1>2, <1>3, <1>4, <1>5, <1>6, <1>7, StepPlaced

LEMMA FreeAtOncePlaced ==
  ASSUME Placed, NEW t \in Threads, FreeAtOnce(t)
  PROVE  Placed'
  <1>1. /\ TypeOK /\ Sound(t) /\ job[t].at = "free"
        /\ UNCHANGED <<rounds, queue, lost, overlap>>
        /\ live' = live \ {job[t].obj}
    BY DEF Placed, FreeAtOnce
  <1>2. /\ job[t] \in JobType /\ idx[t] \in [DOMAIN Sizes -> Nat]
        /\ queue[t] \in Seq(Handles) /\ job[t].n \in 0 .. BatchCtrl
    BY <1>1, JobFacts
  <1> DEFINE n == job[t].n + 1
             j == [job[t] EXCEPT !.n = n, !.at = InBatch(n), !.obj = None]
             f == Wrapped(idx[t])
  <1>3. /\ n \in 0 .. BatchCtrl /\ InBatch(n) \in {"head", "batch"}
        /\ InBatch(n) = "batch" => n < BatchCtrl
    BY <1>1, <1>2, BatchEnds DEF Sound
  <1>4. j \in JobType /\ job' = [job EXCEPT ![t] = j]
    BY <1>1, <1>3, JobChange DEF FreeAtOnce, Places
  <1>5. /\ f \in [DOMAIN Sizes -> Nat] /\ idx' = [idx EXCEPT ![t] = f]
        /\ \A v \in DOMAIN Sizes : f[v] < Sizes[v]
    <2>1. \A v \in DOMAIN Sizes : idx[t][v] <= Sizes[v]
      BY <1>1 DEF Sound
    <2> QED BY <1>2, <2>1, Indices, FreshAgain DEF FreeAtOnce
  <1>6. queue' = [queue EXCEPT ![t] = queue[t]]
    BY <1>1, Same
  <1>7. live' \subseteq Handles /\ lost' \subseteq Handles
    BY <1>1 DEF TypeOK
  <1>8. Sound(t)'
    <2>1. job'[t] = j /\ idx'[t] = f
      BY <1>1, <1>4, <1>5, JobFacts
    <2>2. j.n = n /\ j.at = InBatch(n)
      BY <1>2 DEF JobType
    <2>3. Fresh(t)'
      BY <1>5, <2>1 DEF Fresh
    <2>4. rounds[t] = 2
      BY <1>1 DEF Sound
    <2> QED BY <1>1, <1>3, <2>1, <2>2, <2>3, <2>4 DEF Sound
  <1> QED BY <1>1, <1>2, <1>4, <1>5, <1>6, <1>7, <1>8, StepPlaced

LEMMA FreeAtOnceFailsPlaced ==
  ASSUME Placed, NEW t \in Threads, FreeAtOnceFails(t)
  PROVE  Placed'
  <1>1. /\ TypeOK /\ Sound(t) /\ job[t].at = "free"
        /\ UNCHANGED <<rounds, queue, idx, live, overlap>>
        /\ lost' = lost \cup {job[t].obj}
    BY DEF Placed, FreeAtOnceFails
  <1>2. /\ job[t] \in JobType /\ idx[t] \in [DOMAIN Sizes -> Nat]
        /\ queue[t] \in Seq(Handles)
    BY <1>1, JobFacts
  <1> DEFINE j == [job[t] EXCEPT !.at = "wait", !.obj = None]
  <1>3. j \in JobType /\ job' = [job EXCEPT ![t] = j]
    BY <1>1, JobChange DEF FreeAtOnceFails, Places
  <1>4. /\ idx' = [idx EXCEPT ![t] = idx[t]]
        /\ queue' = [queue EXCEPT ![t] = queue[t]]
    BY <1>1, Same
  <1>5. live' \subseteq Handles /\ lost' \subseteq Handles
    BY <1>1 DEF TypeOK, Sound
  <1>6. Sound(t)'
    <2>1. job'[t].at = "wait"
      BY <1>1, <1>2, <1>3, JobFacts DEF JobType
    <2> QED BY <2>1 DEF Sound
  <1> QED BY <1>1, <1>2, <1>3, <1>4, <1>5, <1>6, StepPlaced

LEMMA FreeFirstPlaced ==
  ASSUME Placed, NEW t \in Threads, FreeFirst(t)
  PROVE  Placed'
  <1>1. /\ TypeOK /\ Sound(t) /\ job[t].at = "first" /\ queue[t] # << >>
        /\ UNCHANGED <<rounds, idx, lost, overlap>>
        /\ live' = live \ {Head(queue[t])}
    BY DEF Placed, FreeFirst
  <1>2. /\ job[t] \in JobType /\ idx[t] \in [DOMAIN Sizes -> Nat]
        /\ queue[t] \in Seq(Handles)
    BY <1>1, JobFacts
  <1> DEFINE j == [job[t] EXCEPT !.at = "head", !.room = TRUE]
  <1>3. j \in JobType /\ job' = [job EXCEPT ![t] = j]
    BY <1>1, JobChange DEF FreeFirst, Places
  <1>4. /\ idx' = [idx EXCEPT ![t] = idx[t]]
        /\ queue' = [queue EXCEPT ![t] = Tail(queue[t])]
        /\ Tail(queue[t]) \in Seq(Handles)
    BY <1>1, <1>2, Same DEF FreeFirst
  <1>5. live' \subseteq Handles /\ lost' \subseteq Handles
    BY <1>1 DEF TypeOK
  <1>6. Sound(t)'
    <2>1. job'[t].at = "head"
      BY <1>1, <1>2, <1>3, JobFacts DEF JobType
    <2>2. rounds[t] = 2 /\ Fresh(t)'
      BY <1>1 DEF Sound, Fresh
    <2> QED BY <1>1, <2>1, <2>2 DEF Sound
  <1> QED BY <1>1, <1>2, <1>3, <1>4, <1>5, <1>6, StepPlaced

LEMMA DrainPlaced ==
  ASSUME Placed, NEW t \in Threads, Drain(t) \/ DrainFails(t)
  PROVE  Placed'
  <1>1. /\ TypeOK /\ Sound(t) /\ queue[t] # << >>
        /\ UNCHANGED <<rounds, job, idx, overlap>>
        /\ queue' = [queue EXCEPT ![t] = Tail(@)]
    BY DEF Placed, Drain, DrainFails
  <1>2. /\ job[t] \in JobType /\ idx[t] \in [DOMAIN Sizes -> Nat]
        /\ queue[t] \in Seq(Handles) /\ Head(queue[t]) \in Handles
        /\ Tail(queue[t]) \in Seq(Handles)
    BY <1>1, JobFacts
  <1>3. /\ job' = [job EXCEPT ![t] = job[t]]
        /\ idx' = [idx EXCEPT ![t] = idx[t]]
        /\ queue' = [queue EXCEPT ![t] = Tail(queue[t])]
    BY <1>1, Same
  <1>4. live' \subseteq Handles /\ lost' \subseteq Handles
    BY <1>1, <1>2 DEF TypeOK, Drain, DrainFails
  <1>5. Sound(t)'
    BY <1>1, SoundKept
  <1> QED BY <1>1, <1>2, <1>3, <1>4, <1>5, StepPlaced

LEMMA NextPlaced == Placed /\ [Next]_vars => Placed'
  <1> SUFFICES ASSUME Placed, [Next]_vars PROVE Placed'
    OBVIOUS
  <1>1. CASE UNCHANGED vars
    <2>1. TypeOK'
      BY <1>1 DEF Placed, TypeOK, vars
    <2>2. ASSUME NEW t \in Threads
          PROVE  Sound(t)'
      BY <1>1, SoundKept DEF Placed, vars
    <2> QED BY <2>1, <2>2 DEF Placed
  <1>2. ASSUME NEW t \in Threads, ThreadStep(t) \/ TimeUp(t)
        PROVE  Placed'
    <2>1. CASE Begin(t)
      BY <2>1, BeginPlaced
    <2>2. CASE TimeUp(t) \/ LoopHead(t) \/ NothingToFree(t)
                 \/ FreeFirstFails(t) \/ Drained(t)
      BY <2>2, QuietPlaced
    <2>3. CASE AllocToQueue(t)
      BY <2>3, AllocToQueuePlaced
    <2>4. CASE AllocToFree(t)
      BY <2>4, AllocToFreePlaced
    <2>5. CASE AllocFails(t)
      BY <2>5, AllocFailsPlaced
    <2>6. CASE FreeAtOnce(t)
      BY <2>6, FreeAtOncePlaced
    <2>7. CASE FreeAtOnceFails(t)
      BY <2>7, FreeAtOnceFailsPlaced
    <2>8. CASE FreeFirst(t)
      BY <2>8, FreeFirstPlaced
    <2>9. CASE Drain(t) \/ DrainFails(t)
      BY <2>9, DrainPlaced
    <2> QED BY <1>2, <2>1, <2>2, <2>3, <2>4, <2>5, <2>6, <2>7, <2>8, <2>9
            DEF ThreadStep, AllocPhase, MiddlePhase, DeallocPhase
  <1> QED BY <1>1, <1>2 DEF Next

LEMMA AlwaysPlaced == Spec => []Placed
  BY InitPlaced, NextPlaced, PTL DEF Spec

(* Every variable keeps its type: in particular the queues hold objects of *)
(* the device, and no batch is longer than kBatchCtrl.                     *)
THEOREM TypeCorrect == Spec => []TypeOK
  <1>1. Placed => TypeOK
    BY DEF Placed
  <1> QED BY <1>1, AlwaysPlaced, PTL

(* QpTest and MrTest index their vectors of parent objects within bounds,  *)
(* for any sizes and wherever an allocation or a deallocation fails.       *)
THEOREM IndicesRight == Spec => []IndexInRange
  <1>1. Placed => IndexInRange
    BY DEF Placed, Sound, Fresh, IndexInRange
  <1> QED BY <1>1, AlwaysPlaced, PTL

-----------------------------------------------------------------------------
(* Owners. *)

Elems(q) == {q[i] : i \in DOMAIN q}
Once(q) == \A i, j \in DOMAIN q : q[i] = q[j] => i = j

LEMMA Appended ==
  ASSUME NEW q \in Seq(Handles), NEW o \in Handles
  PROVE  /\ Elems(Append(q, o)) = Elems(q) \cup {o}
         /\ Once(q) /\ o \notin Elems(q) => Once(Append(q, o))
  <1>1. /\ DOMAIN q = 1 .. Len(q) /\ Len(q) \in Nat
        /\ DOMAIN Append(q, o) = 1 .. (Len(q) + 1)
        /\ \A i \in 1 .. Len(q) : Append(q, o)[i] = q[i]
        /\ Append(q, o)[Len(q) + 1] = o
    OBVIOUS
  <1>2. Elems(Append(q, o)) = Elems(q) \cup {o}
    BY <1>1 DEF Elems
  <1>3. Once(q) /\ o \notin Elems(q) => Once(Append(q, o))
    BY <1>1 DEF Elems, Once
  <1> QED BY <1>2, <1>3

LEMMA Popped ==
  ASSUME NEW q \in Seq(Handles), q # << >>, Once(q)
  PROVE  /\ Head(q) \in Elems(q)
         /\ Elems(Tail(q)) = Elems(q) \ {Head(q)}
         /\ Once(Tail(q))
  <1>1. /\ DOMAIN q = 1 .. Len(q) /\ Len(q) \in Nat \ {0}
        /\ DOMAIN Tail(q) = 1 .. (Len(q) - 1)
        /\ \A i \in 1 .. (Len(q) - 1) : Tail(q)[i] = q[i + 1]
        /\ Head(q) = q[1]
    OBVIOUS
  <1>2. Head(q) \in Elems(q)
    BY <1>1 DEF Elems
  <1>3. Elems(Tail(q)) \subseteq Elems(q) \ {Head(q)}
    <2> SUFFICES ASSUME NEW i \in 1 .. (Len(q) - 1)
                 PROVE  q[i + 1] \in Elems(q) \ {Head(q)}
      BY <1>1 DEF Elems
    <2>1. i + 1 \in 1 .. Len(q) /\ 1 \in 1 .. Len(q) /\ i + 1 # 1
      BY <1>1
    <2> QED BY <1>1, <2>1 DEF Elems, Once
  <1>4. ASSUME NEW i \in 1 .. Len(q), q[i] # q[1]
        PROVE  q[i] \in Elems(Tail(q))
    <2>1. i # 1
      BY <1>4
    <2>2. i - 1 \in 1 .. (Len(q) - 1)
      BY <1>1, <2>1
    <2>3. Tail(q)[i - 1] = q[(i - 1) + 1] /\ (i - 1) + 1 = i
      BY <1>1, <2>2
    <2> QED BY <1>1, <2>2, <2>3 DEF Elems
  <1>5. Once(Tail(q))
    <2> SUFFICES ASSUME NEW i \in 1 .. (Len(q) - 1),
                        NEW k \in 1 .. (Len(q) - 1), q[i + 1] = q[k + 1]
                 PROVE  i = k
      BY <1>1 DEF Once
    <2>1. i + 1 \in 1 .. Len(q) /\ k + 1 \in 1 .. Len(q)
      BY <1>1
    <2>2. i + 1 = k + 1
      BY <1>1, <2>1 DEF Once
    <2> QED BY <2>2
  <1>6. Elems(q) \ {Head(q)} \subseteq Elems(Tail(q))
    BY <1>1, <1>4 DEF Elems
  <1> QED BY <1>2, <1>3, <1>5, <1>6

Owns(t) == Queued(t) \cup Held(t)

Distinct(t) == Once(queue[t]) /\ Queued(t) \cap Held(t) = {}

(* The same, object by object. *)
Partition ==
  /\ \A o : o \in live <=> o \in lost \/ \E t \in Threads : o \in Owns(t)
  /\ \A t \in Threads : \A o \in Owns(t) :
       o \notin lost /\ \A u \in Threads \ {t} : o \notin Owns(u)

LEMMA OwnedParts ==
  ASSUME Partition, \A t \in Threads : Distinct(t)
  PROVE  ObjectsOwned
  <1>1. live = lost \cup UNION {Queued(t) \cup Held(t) : t \in Threads}
    <2>1. ASSUME NEW o \in live
          PROVE  o \in lost \cup UNION {Owns(t) : t \in Threads}
      <3>1. CASE o \in lost
        BY <3>1
      <3>2. ASSUME NEW t \in Threads, o \in Owns(t)
            PROVE  o \in UNION {Owns(u) : u \in Threads}
        BY <3>2, Zenon
      <3>3. o \in lost \/ \E t \in Threads : o \in Owns(t)
        BY <2>1 DEF Partition
      <3> QED BY <3>1, <3>2, <3>3
    <2>2. ASSUME NEW o \in lost \cup UNION {Owns(t) : t \in Threads}
          PROVE  o \in live
      <3>1. o \in lost \/ \E t \in Threads : o \in Owns(t)
        BY <2>2, Zenon
      <3> QED BY <3>1 DEF Partition
    <2>3. live = lost \cup UNION {Owns(t) : t \in Threads}
      BY <2>1, <2>2
    <2> QED BY <2>3 DEF Owns
  <1>2. ASSUME NEW t \in Threads
        PROVE  /\ \A i, j \in DOMAIN queue[t] :
                    queue[t][i] = queue[t][j] => i = j
               /\ Queued(t) \cap Held(t) = {}
    BY DEF Distinct, Once
  <1>3. ASSUME NEW t \in Threads
        PROVE  /\ (Queued(t) \cup Held(t)) \cap lost = {}
               /\ \A u \in Threads \ {t} :
                    (Queued(t) \cup Held(t)) \cap (Queued(u) \cup Held(u)) = {}
    BY DEF Partition, Owns
  <1> QED BY <1>1, <1>2, <1>3 DEF ObjectsOwned

LEMMA PartitionKept ==
  ASSUME Partition, \A u \in Threads : Owns(u)' = Owns(u),
         live' = live, lost' = lost
  PROVE  Partition'
  BY DEF Partition

LEMMA PartitionGrows ==
  ASSUME Partition, NEW t \in Threads, NEW o, o \notin live,
         \A u \in Threads \ {t} : Owns(u)' = Owns(u),
         Owns(t)' = Owns(t) \cup {o}, live' = live \cup {o}, lost' = lost
  PROVE  Partition'
  BY DEF Partition

LEMMA PartitionShrinks ==
  ASSUME Partition, NEW t \in Threads, NEW o \in Owns(t),
         \A u \in Threads \ {t} : Owns(u)' = Owns(u),
         Owns(t)' = Owns(t) \ {o}, live' = live \ {o}, lost' = lost
  PROVE  Partition'
  BY DEF Partition

LEMMA PartitionLoses ==
  ASSUME Partition, NEW t \in Threads, NEW o \in Owns(t),
         \A u \in Threads \ {t} : Owns(u)' = Owns(u),
         Owns(t)' = Owns(t) \ {o}, live' = live, lost' = lost \cup {o}
  PROVE  Partition'
  BY DEF Partition

Owned == Placed /\ Partition /\ \A t \in Threads : Distinct(t)

LEMMA QueuedElems == \A t \in Threads : Queued(t) = Elems(queue[t])
  BY DEF Queued, Elems

(* What the other threads own does not change. *)
LEMMA OthersKeep ==
  ASSUME TypeOK, NEW t \in Threads,
         NEW j, job' = [job EXCEPT ![t] = j],
         NEW q, queue' = [queue EXCEPT ![t] = q]
  PROVE  /\ \A u \in Threads \ {t} : Owns(u)' = Owns(u)
         /\ \A u \in Threads \ {t} : Distinct(u) => Distinct(u)'
         /\ Queued(t)' = Elems(q)
         /\ Held(t)' = IF j.at = "free" THEN {j.obj} ELSE {}
         /\ Distinct(t)' <=> Once(q) /\ Elems(q) \cap Held(t)' = {}
  <1>1. job'[t] = j /\ queue'[t] = q
    BY JobFacts
  <1>2. ASSUME NEW u \in Threads \ {t}
        PROVE  /\ Queued(u)' = Queued(u) /\ Held(u)' = Held(u)
               /\ Once(queue[u])' = Once(queue[u])
    <2>1. job'[u] = job[u] /\ queue'[u] = queue[u]
      BY JobFacts
    <2> QED BY <2>1 DEF Queued, Held, Once
  <1>3. /\ Queued(t)' = Elems(q)
        /\ Held(t)' = IF j.at = "free" THEN {j.obj} ELSE {}
        /\ Once(queue[t])' = Once(q)
    BY <1>1 DEF Queued, Held, Elems, Once
  <1>4. Distinct(t)' <=> Once(q) /\ Elems(q) \cap Held(t)' = {}
    BY <1>3 DEF Distinct
  <1> QED BY <1>2, <1>3, <1>4 DEF Owns, Distinct

LEMMA InitOwned == Init => Owned
  <1> SUFFICES ASSUME Init PROVE Owned
    OBVIOUS
  <1>1. \A t \in Threads : queue[t] = << >> /\ job[t].at = "wait"
    BY DEF Init
  <1>2. \A t \in Threads : Queued(t) = {} /\ Held(t) = {} /\ Once(queue[t])
    BY <1>1 DEF Queued, Held, Once
  <1>3. Partition /\ \A t \in Threads : Distinct(t)
    BY <1>2 DEF Init, Partition, Distinct, Owns
  <1> QED BY <1>3, InitPlaced DEF Owned

(* The steps that neither allocate nor free. *)
LEMMA IdleOwned ==
  ASSUME Owned, NEW t \in Threads,
         \/ Begin(t) \/ TimeUp(t) \/ LoopHead(t) \/ NothingToFree(t)
         \/ FreeFirstFails(t) \/ Drained(t) \/ AllocFails(t)
  PROVE  Partition' /\ \A u \in Threads : Distinct(u)'
  <1>1. TypeOK /\ UNCHANGED <<queue, live, lost>>
    BY DEF Owned, Placed, Begin, TimeUp, LoopHead, NothingToFree,
           FreeFirstFails, Drained, AllocFails
  <1>2. /\ \A u \in Threads \ {t} : job'[u] = job[u]
        /\ job'[t].at = "free" <=> job[t].at = "free"
        /\ job'[t].at = "free" => job'[t].obj = job[t].obj
    <2>1. CASE Begin(t)
      <3>1. rounds[t] \in 0 .. 3
        BY <1>1, <2>1, JobFacts DEF Begin, Barrier!Complete
      <3>2. job'[t].at = Entry[rounds[t] + 1] /\ job[t].at = "wait"
        BY <1>1, <2>1, JobFacts DEF Begin
      <3>3. job'[t].at # "free"
        BY <3>1, <3>2 DEF Entry
      <3>4. \A u \in Threads \ {t} : job'[u] = job[u]
        BY <1>1, <2>1, JobFacts DEF Begin
      <3> QED BY <3>2, <3>3, <3>4
    <2>2. CASE ~ Begin(t)
      <3>1. job[t] \in JobType /\ DOMAIN job = Threads
        BY <1>1, JobFacts
      <3> QED BY <2>2, <3>1 DEF TimeUp, LoopHead, NothingToFree,
                FreeFirstFails, Drained, AllocFails, JobType
    <2> QED BY <2>1, <2>2
  <1>3. \A u \in Threads : Held(u)' = Held(u) /\ Queued(u)' = Queued(u)
    BY <1>1, <1>2 DEF Held, Queued
  <1>4. Partition'
    <2>1. \A u \in Threads : Owns(u)' = Owns(u)
      BY <1>3 DEF Owns
    <2> QED BY <1>1, <2>1, PartitionKept DEF Owned
  <1>5. \A u \in Threads : Distinct(u)'
    BY <1>1, <1>3 DEF Distinct, Once, Owned
  <1> QED BY <1>4, <1>5

(* A thread's queue and job before a step. *)
LEMMA Mine ==
  ASSUME Owned, NEW t \in Threads
  PROVE  /\ TypeOK /\ Sound(t) /\ Once(queue[t])
         /\ queue[t] \in Seq(Handles) /\ job[t] \in JobType
         /\ Queued(t) = Elems(queue[t]) /\ Queued(t) \cap Held(t) = {}
         /\ Owns(t) = Queued(t) \cup Held(t)
         /\ \A o \in Owns(t) : o \in live
  BY JobFacts, QueuedElems DEF Owned, Placed, Distinct, Owns, Partition

LEMMA AllocToQueueOwned ==
  ASSUME Owned, NEW t \in Threads, AllocToQueue(t)
  PROVE  Partition' /\ \A u \in Threads : Distinct(u)'
  <1>1. PICK o \in Handles \ live :
          live' = live \cup {o} /\ queue' = [queue EXCEPT ![t] = Append(@, o)]
    BY DEF AllocToQueue
  <1> DEFINE n == job[t].n + 1
             j == [job[t] EXCEPT !.n = n, !.at = InBatch(n)]
             q == Append(queue[t], o)
  <1>2. /\ job' = [job EXCEPT ![t] = j] /\ queue' = [queue EXCEPT ![t] = q]
        /\ job[t].at = "batch" /\ lost' = lost
    BY <1>1 DEF AllocToQueue
  <1>3. /\ TypeOK /\ job[t] \in JobType /\ queue[t] \in Seq(Handles)
        /\ Once(queue[t]) /\ Queued(t) = Elems(queue[t])
        /\ Owns(t) = Queued(t) \cup Held(t) /\ \A x \in Owns(t) : x \in live
    BY Mine
  <1>4. j.at # "free"
    BY <1>3 DEF InBatch, JobType
  <1>5. Elems(q) = Elems(queue[t]) \cup {o} /\ Once(q)
    BY <1>1, <1>3, Appended
  <1> HIDE DEF j, q
  <1>6. Held(t) = {}
    BY <1>2 DEF Held
  <1>7. /\ Queued(t)' = Elems(q) /\ Held(t)' = {}
        /\ Distinct(t)' <=> Once(q) /\ Elems(q) \cap Held(t)' = {}
        /\ \A u \in Threads \ {t} : Owns(u)' = Owns(u)
        /\ \A u \in Threads \ {t} : Distinct(u) => Distinct(u)'
    BY <1>2, <1>3, <1>4, OthersKeep
  <1>8. Owns(t)' = Owns(t) \cup {o}
    BY <1>3, <1>5, <1>6, <1>7 DEF Owns
  <1>9. \A u \in Threads : Distinct(u)'
    BY <1>5, <1>7 DEF Owned
  <1>10. Partition'
    BY <1>1, <1>2, <1>7, <1>8, PartitionGrows DEF Owned
  <1> QED BY <1>9, <1>10

LEMMA AllocToFreeOwned ==
  ASSUME Owned, NEW t \in Threads, AllocToFree(t)
  PROVE  Partition' /\ \A u \in Threads : Distinct(u)'
  <1>1. PICK o \in Handles \ live :
          /\ live' = live \cup {o}
          /\ job' = [job EXCEPT ![t].at = "free", ![t].obj = o]
    BY DEF AllocToFree
  <1>2. /\ TypeOK /\ job[t] \in JobType /\ queue[t] \in Seq(Handles)
        /\ Once(queue[t]) /\ Queued(t) = Elems(queue[t])
        /\ Owns(t) = Queued(t) \cup Held(t) /\ \A x \in Owns(t) : x \in live
    BY Mine
  <1> DEFINE j == [job[t] EXCEPT !.at = "free", !.obj = o]
  <1>3. job' = [job EXCEPT ![t] = j] /\ j.at = "free" /\ j.obj = o
    BY <1>1, <1>2 DEF JobType
  <1>4. /\ queue' = [queue EXCEPT ![t] = queue[t]]
        /\ job[t].at = "batch" /\ lost' = lost
    BY <1>2, Same DEF AllocToFree
  <1> HIDE DEF j
  <1>5. Held(t) = {}
    BY <1>4 DEF Held
  <1>6. /\ Queued(t)' = Queued(t) /\ Held(t)' = {o}
        /\ Distinct(t)' <=> Once(queue[t]) /\ Elems(queue[t]) \cap Held(t)' = {}
        /\ \A u \in Threads \ {t} : Owns(u)' = Owns(u)
        /\ \A u \in Threads \ {t} : Distinct(u) => Distinct(u)'
    BY <1>2, <1>3, <1>4, OthersKeep
  <1>7. Owns(t)' = Owns(t) \cup {o}
    BY <1>5, <1>6 DEF Owns
  <1>8. \A u \in Threads : Distinct(u)'
    BY <1>1, <1>2, <1>6 DEF Owned
  <1>9. Partition'
    BY <1>1, <1>4, <1>6, <1>7, PartitionGrows DEF Owned
  <1> QED BY <1>8, <1>9

(* What the middle phase holds is freed, or given up. *)
LEMMA FreeAtOnceOwned ==
  ASSUME Owned, NEW t \in Threads, FreeAtOnce(t) \/ FreeAtOnceFails(t)
  PROVE  Partition' /\ \A u \in Threads : Distinct(u)'
  <1>1. /\ TypeOK /\ job[t] \in JobType /\ queue[t] \in Seq(Handles)
        /\ Once(queue[t]) /\ Queued(t) = Elems(queue[t])
        /\ Queued(t) \cap Held(t) = {}
        /\ Owns(t) = Queued(t) \cup Held(t) /\ Sound(t)
    BY Mine
  <1>2. job[t].at = "free" /\ queue' = queue
    BY DEF FreeAtOnce, FreeAtOnceFails
  <1>3. PICK j : job' = [job EXCEPT ![t] = j] /\ j.at # "free"
    <2>1. CASE FreeAtOnce(t)
      <3> DEFINE n == job[t].n + 1
                 j == [job[t] EXCEPT !.n = n, !.at = InBatch(n), !.obj = None]
      <3>1. job' = [job EXCEPT ![t] = j]
        BY <2>1 DEF FreeAtOnce
      <3>2. j.at # "free"
        BY <1>1 DEF InBatch, JobType
      <3> QED BY <3>1, <3>2
    <2>2. CASE FreeAtOnceFails(t)
      <3> DEFINE j == [job[t] EXCEPT !.at = "wait", !.obj = None]
      <3>1. job' = [job EXCEPT ![t] = j] /\ j.at # "free"
        BY <1>1, <2>2 DEF FreeAtOnceFails, JobType
      <3> QED BY <3>1
    <2> QED BY <2>1, <2>2
  <1>4. queue' = [queue EXCEPT ![t] = queue[t]] /\ Held(t) = {job[t].obj}
    BY <1>1, <1>2, Same DEF Held
  <1>5. /\ Queued(t)' = Queued(t) /\ Held(t)' = {}
        /\ Distinct(t)' <=> Once(queue[t]) /\ Elems(queue[t]) \cap Held(t)' = {}
        /\ \A u \in Threads \ {t} : Owns(u)' = Owns(u)
        /\ \A u \in Threads \ {t} : Distinct(u) => Distinct(u)'
    BY <1>1, <1>3, <1>4, OthersKeep
  <1>6. /\ job[t].obj \in Owns(t) /\ Owns(t)' = Owns(t) \ {job[t].obj}
    BY <1>1, <1>4, <1>5 DEF Owns
  <1>7. \A u \in Threads : Distinct(u)'
    BY <1>1, <1>5 DEF Owned
  <1>8. Partition'
    <2>1. CASE FreeAtOnce(t)
      <3>1. live' = live \ {job[t].obj} /\ lost' = lost
        BY <2>1 DEF FreeAtOnce
      <3> QED BY <1>5, <1>6, <3>1, PartitionShrinks DEF Owned
    <2>2. CASE FreeAtOnceFails(t)
      <3>1. live' = live /\ lost' = lost \cup {job[t].obj}
        BY <2>2 DEF FreeAtOnceFails
      <3> QED BY <1>5, <1>6, <3>1, PartitionLoses DEF Owned
    <2> QED BY <2>1, <2>2
  <1> QED BY <1>7, <1>8

(* The first object of the queue is freed, or given up. *)
LEMMA PopOwned ==
  ASSUME Owned, NEW t \in Threads,
         FreeFirst(t) \/ Drain(t) \/ DrainFails(t)
  PROVE  Partition' /\ \A u \in Threads : Distinct(u)'
  <1>1. /\ TypeOK /\ job[t] \in JobType /\ queue[t] \in Seq(Handles)
        /\ Once(queue[t]) /\ Queued(t) = Elems(queue[t])
        /\ Owns(t) = Queued(t) \cup Held(t)
    BY Mine
  <1> DEFINE o == Head(queue[t])
             q == Tail(queue[t])
  <1>2. /\ job[t].at # "free" /\ queue[t] # << >>
        /\ queue' = [queue EXCEPT ![t] = q]
    BY DEF FreeFirst, Drain, DrainFails
  <1>3. /\ o \in Elems(queue[t]) /\ Elems(q) = Elems(queue[t]) \ {o}
        /\ Once(q)
    BY <1>1, <1>2, Popped
  <1>4. PICK j : job' = [job EXCEPT ![t] = j] /\ j.at # "free"
    <2>1. CASE FreeFirst(t)
      <3> DEFINE j == [job[t] EXCEPT !.at = "head", !.room = TRUE]
      <3>1. job' = [job EXCEPT ![t] = j] /\ j.at # "free"
        BY <1>1, <2>1 DEF FreeFirst, JobType
      <3> QED BY <3>1
    <2>2. CASE Drain(t) \/ DrainFails(t)
      <3>1. job' = [job EXCEPT ![t] = job[t]]
        BY <1>1, <2>2, Same DEF Drain, DrainFails
      <3> QED BY <1>2, <3>1
    <2> QED BY <2>1, <2>2
  <1> HIDE DEF q, o
  <1>5. /\ Queued(t)' = Elems(q) /\ Held(t)' = {}
        /\ Distinct(t)' <=> Once(q) /\ Elems(q) \cap Held(t)' = {}
        /\ \A u \in Threads \ {t} : Owns(u)' = Owns(u)
        /\ \A u \in Threads \ {t} : Distinct(u) => Distinct(u)'
    BY <1>1, <1>2, <1>4, OthersKeep
  <1>6. Held(t) = {}
    BY <1>2 DEF Held
  <1>7. o \in Owns(t) /\ Owns(t)' = Owns(t) \ {o}
    BY <1>1, <1>3, <1>5, <1>6 DEF Owns
  <1>8. \A u \in Threads : Distinct(u)'
    BY <1>3, <1>5 DEF Owned
  <1>9. Partition'
    <2>1. CASE FreeFirst(t) \/ Drain(t)
      <3>1. live' = live \ {o} /\ lost' = lost
        BY <2>1 DEF FreeFirst, Drain, o
      <3> QED BY <1>5, <1>7, <3>1, PartitionShrinks DEF Owned
    <2>2. CASE DrainFails(t)
      <3>1. live' = live /\ lost' = lost \cup {o}
        BY <2>2 DEF DrainFails, o
      <3> QED BY <1>5, <1>7, <3>1, PartitionLoses DEF Owned
    <2> QED BY <2>1, <2>2
  <1> QED BY <1>8, <1>9

LEMMA NextOwned == Owned /\ [Next]_vars => Owned'
  <1> SUFFICES ASSUME Owned, [Next]_vars PROVE Owned'
    OBVIOUS
  <1>1. Placed'
    BY NextPlaced DEF Owned
  <1>2. CASE UNCHANGED vars
    <2>1. \A u \in Threads : Queued(u)' = Queued(u) /\ Held(u)' = Held(u)
      BY <1>2 DEF vars, Queued, Held
    <2>2. \A u \in Threads : Owns(u)' = Owns(u) /\ (Distinct(u) => Distinct(u)')
      BY <1>2, <2>1 DEF vars, Owns, Distinct, Once
    <2>3. Partition'
      BY <1>2, <2>2, PartitionKept DEF vars, Owned
    <2> QED BY <1>1, <2>2, <2>3 DEF Owned
  <1>3. ASSUME NEW t \in Threads, ThreadStep(t) \/ TimeUp(t)
        PROVE  Partition' /\ \A u \in Threads : Distinct(u)'
    <2>1. CASE \/ Begin(t) \/ TimeUp(t) \/ LoopHead(t) \/ NothingToFree(t)
               \/ FreeFirstFails(t) \/ Drained(t) \/ AllocFails(t)
      BY <2>1, IdleOwned
    <2>2. CASE AllocToQueue(t)
      BY <2>2, AllocToQueueOwned
    <2>3. CASE AllocToFree(t)
      BY <2>3, AllocToFreeOwned
    <2>4. CASE FreeAtOnce(t) \/ FreeAtOnceFails(t)
      BY <2>4, FreeAtOnceOwned
    <2>5. CASE FreeFirst(t) \/ Drain(t) \/ DrainFails(t)
      BY <2>5, PopOwned
    <2> QED BY <1>3, <2>1, <2>2, <2>3, <2>4, <2>5
            DEF ThreadStep, AllocPhase, MiddlePhase, DeallocPhase
  <1> QED BY <1>1, <1>2, <1>3 DEF Next, Owned

(* Every object the device holds has one owner: no test thread frees an    *)
(* object twice or one of another thread, and none is forgotten, for any   *)
(* number of threads, capacity and order of allocations and failures.      *)
THEOREM OwnedAlways == Spec => []ObjectsOwned
  <1>1. Owned => ObjectsOwned
    BY OwnedParts DEF Owned
  <1> QED BY <1>1, InitOwned, NextOwned, PTL DEF Spec

-----------------------------------------------------------------------------
(* The end. *)

(* A thread that has drained its queue has an empty one from then on. *)
Drying(t) ==
  /\ rounds[t] = 4 \/ (rounds[t] = 3 /\ job[t].at = "wait") => queue[t] = << >>
  /\ job[t].at = "returned" => rounds[t] = 4

LEMMA NextDrying ==
  ASSUME Placed, \A t \in Threads : Drying(t), [Next]_vars
  PROVE  \A t \in Threads : Drying(t)'
  <1>1. CASE UNCHANGED vars
    BY <1>1 DEF vars, Drying
  <1>2. ASSUME NEW t \in Threads, ThreadStep(t) \/ TimeUp(t)
        PROVE  \A u \in Threads : Drying(u)'
    <2>1. /\ TypeOK /\ Sound(t) /\ Drying(t) /\ job[t] \in JobType
          /\ rounds[t] \in 0 .. 4
          /\ DOMAIN job = Threads /\ DOMAIN queue = Threads
          /\ DOMAIN rounds = Threads
      BY JobFacts DEF Placed
    <2>2. CASE Begin(t)
      <3>1. /\ rounds[t] \in 0 .. 3 /\ job[t].at = "wait"
            /\ rounds'[t] = rounds[t] + 1 /\ queue' = queue
            /\ job'[t].at = Entry[rounds[t] + 1]
        BY <2>1, <2>2 DEF Begin, Barrier!Complete
      <3>2. \A u \in Threads \ {t} : job'[u] = job[u] /\ rounds'[u] = rounds[u]
        BY <2>1, <2>2 DEF Begin, Barrier!Complete
      <3>3. Drying(t)'
        BY <2>1, <3>1 DEF Drying, Entry
      <3> QED BY <3>1, <3>2, <3>3 DEF Drying
    <2>3. CASE ~ Begin(t)
      <3>1. /\ rounds' = rounds
            /\ \A u \in Threads \ {t} : job'[u] = job[u] /\ queue'[u] = queue[u]
        BY <1>2, <2>1, <2>3
           DEF TimeUp, ThreadStep, AllocPhase, MiddlePhase, DeallocPhase,
               LoopHead, AllocToQueue, AllocToFree, AllocFails, FreeAtOnce,
               FreeAtOnceFails, FreeFirst, FreeFirstFails, NothingToFree,
               Drain, DrainFails, Drained
      <3>2. Drying(t)'
        <4>1. CASE \/ TimeUp(t) \/ LoopHead(t) \/ AllocFails(t)
                   \/ FreeFirst(t) \/ FreeFirstFails(t) \/ NothingToFree(t)
          BY <2>1, <3>1, <4>1
             DEF Sound, Drying, TimeUp, LoopHead, AllocFails, FreeFirst,
                 FreeFirstFails, NothingToFree, JobType
        <4>2. CASE AllocToQueue(t)
          BY <2>1, <3>1, <4>2 DEF Sound, Drying, AllocToQueue, JobType, InBatch
        <4>3. CASE AllocToFree(t) \/ FreeAtOnce(t) \/ FreeAtOnceFails(t)
          BY <2>1, <3>1, <4>3
             DEF Sound, Drying, AllocToFree, FreeAtOnce, FreeAtOnceFails,
                 JobType, InBatch
        <4>4. CASE Drain(t) \/ DrainFails(t) \/ Drained(t)
          BY <2>1, <3>1, <4>4
             DEF Sound, Drying, Drain, DrainFails, Drained, JobType
        <4> QED BY <1>2, <2>3, <4>1, <4>2, <4>3, <4>4
                DEF ThreadStep, AllocPhase, MiddlePhase, DeallocPhase
      <3> QED BY <3>1, <3>2 DEF Drying
    <2> QED BY <2>2, <2>3
  <1> QED BY <1>1, <1>2 DEF Next

Dried == Owned /\ \A t \in Threads : Drying(t)

LEMMA InitDried == Init => Dried
  <1> SUFFICES ASSUME Init PROVE \A t \in Threads : Drying(t)
    BY InitOwned DEF Dried
  <1>1. \A t \in Threads : rounds[t] = 0 /\ job[t].at = "wait"
    BY DEF Init, Barrier!Init
  <1> QED BY <1>1 DEF Drying

LEMMA NextDried == Dried /\ [Next]_vars => Dried'
  <1> SUFFICES ASSUME Dried, [Next]_vars PROVE Dried'
    OBVIOUS
  <1>1. Owned'
    BY NextOwned DEF Dried
  <1>2. \A t \in Threads : Drying(t)'
    BY NextDrying DEF Dried, Owned
  <1> QED BY <1>1, <1>2 DEF Dried

(* When all test threads have returned, what is still allocated is what    *)
(* the device refused to free, for any number of failures.                 *)
THEOREM CleanEnd == Spec => []EndsClean
  <1>1. Dried => EndsClean
    <2> SUFFICES ASSUME Dried, \A t \in Threads : job[t].at = "returned"
                 PROVE  live = lost
      BY DEF EndsClean
    <2>1. \A t \in Threads : queue[t] = << >>
      BY DEF Dried, Drying
    <2>2. \A t \in Threads : Owns(t) = {}
      BY <2>1 DEF Owns, Queued, Held
    <2>3. \A o : o \in live <=> o \in lost
      BY <2>2 DEF Dried, Owned, Partition
    <2> QED BY <2>3
  <1> QED BY <1>1, InitDried, NextDried, PTL DEF Spec
-----------------------------------------------------------------------------
(* Room in the middle phase. *)

(* No thread is more than one round ahead, and unless phases overlap none  *)
(* allocates for its queue once another is in its middle phase.            *)
Close == \A t, u \in Threads : rounds[t] <= rounds[u] + 1

Settled ==
  ~ overlap =>
    \A t, u \in Threads : rounds[t] >= 2 => ~ Allocating(u)

(* The objects the device has left, the threads that have made room and    *)
(* may now ask for it, and those that have taken an object without.        *)
Free == Handles \ live
Waiting == {t \in Threads : Roomy(t) /\ job[t].at # "free"}
Taking == {t \in Threads : job[t].at = "free" /\ ~ job[t].room}

Balanced ==
  ~ overlap /\ lost = {} =>
    Cardinality(Waiting) <= Cardinality(Free) + Cardinality(Taking)

RoomInv == Owned /\ Close /\ Settled /\ Balanced

LEMMA FiniteParts ==
  /\ IsFiniteSet(Free) /\ IsFiniteSet(Waiting) /\ IsFiniteSet(Taking)
  /\ Cardinality(Free) \in Nat /\ Cardinality(Waiting) \in Nat
  /\ Cardinality(Taking) \in Nat
  <1>1. IsFiniteSet(Handles) /\ IsFiniteSet(Threads)
    BY ResourceAssumption
  <1>2. Free \subseteq Handles /\ Waiting \subseteq Threads /\ Taking \subseteq Threads
    BY DEF Free, Waiting, Taking
  <1>3. IsFiniteSet(Free) /\ IsFiniteSet(Waiting) /\ IsFiniteSet(Taking)
    BY <1>1, <1>2, FS_Subset
  <1> QED BY <1>3, FS_CardinalityType

LEMMA FinitePartsNext ==
  /\ IsFiniteSet(Free') /\ IsFiniteSet(Waiting') /\ IsFiniteSet(Taking')
  /\ Cardinality(Free') \in Nat /\ Cardinality(Waiting') \in Nat
  /\ Cardinality(Taking') \in Nat
  <1>1. IsFiniteSet(Handles) /\ IsFiniteSet(Threads)
    BY ResourceAssumption
  <1>2. /\ Free' \subseteq Handles /\ Waiting' \subseteq Threads
        /\ Taking' \subseteq Threads
    BY DEF Free, Waiting, Taking
  <1>3. IsFiniteSet(Free') /\ IsFiniteSet(Waiting') /\ IsFiniteSet(Taking')
    BY <1>1, <1>2, FS_Subset
  <1> QED BY <1>3, FS_CardinalityType

(* A step of t changes no other thread. *)
LEMMA OthersStay ==
  ASSUME TypeOK, NEW t \in Threads, ThreadStep(t) \/ TimeUp(t)
  PROVE  /\ \A u \in Threads \ {t} :
              job'[u] = job[u] /\ rounds'[u] = rounds[u]
         /\ lost \subseteq lost' /\ (overlap => overlap')
         /\ ~ Begin(t) => UNCHANGED <<rounds, overlap>>
  <1>1. CASE Begin(t)
    <2>1. /\ rounds' = [rounds EXCEPT ![t] = @ + 1] /\ lost' = lost
          /\ overlap => overlap'
      BY <1>1 DEF Begin, Barrier!Complete
    <2>2. \A u \in Threads \ {t} : job'[u] = job[u]
      BY <1>1, JobFacts DEF Begin
    <2> QED BY <1>1, <2>1, <2>2, JobFacts
  <1>2. CASE ~ Begin(t)
    <2>1. UNCHANGED <<rounds, overlap>> /\ lost \subseteq lost'
      BY <1>2 DEF TimeUp, ThreadStep, AllocPhase, MiddlePhase, DeallocPhase,
           LoopHead, AllocToQueue, AllocToFree, AllocFails, FreeAtOnce,
           FreeAtOnceFails, FreeFirst, FreeFirstFails, NothingToFree,
           Drain, DrainFails, Drained
    <2>2. \A u \in Threads \ {t} : job'[u] = job[u]
      BY <1>2, JobFacts DEF TimeUp, ThreadStep, AllocPhase, MiddlePhase,
           DeallocPhase, LoopHead, AllocToQueue, AllocToFree, AllocFails,
           FreeAtOnce, FreeAtOnceFails, FreeFirst, FreeFirstFails,
           NothingToFree, Drain, DrainFails, Drained
    <2> QED BY <2>1, <2>2
  <1> QED BY <1>1, <1>2

LEMMA NextClose ==
  ASSUME TypeOK, Close, NEW t \in Threads, ThreadStep(t) \/ TimeUp(t)
  PROVE  Close'
  <1>1. CASE Begin(t)
    <2>1. /\ \A u \in Threads : rounds[u] >= rounds[t]
          /\ rounds'[t] = rounds[t] + 1
          /\ \A u \in Threads \ {t} : rounds'[u] = rounds[u]
      BY <1>1, JobFacts DEF Begin, Barrier!Complete
    <2>2. \A u \in Threads : rounds[u] \in 0 .. 4
      BY JobFacts
    <2> SUFFICES ASSUME NEW a \in Threads, NEW b \in Threads
                 PROVE  rounds'[a] <= rounds'[b] + 1
      BY DEF Close
    <2>3. rounds[a] <= rounds[b] + 1 /\ rounds[a] \in Int /\ rounds[b] \in Int
      BY <2>2 DEF Close
    <2>4. CASE a = t
      BY <2>1, <2>2, <2>3, <2>4
    <2>5. CASE a # t
      <3>1. CASE b = t
        BY <2>1, <2>2, <2>3, <2>5, <3>1
      <3>2. CASE b # t
        BY <2>1, <2>3, <2>5, <3>2
      <3> QED BY <3>1, <3>2
    <2> QED BY <2>4, <2>5
  <1>2. CASE ~ Begin(t)
    BY <1>2, OthersStay DEF Close
  <1> QED BY <1>1, <1>2

LEMMA NextSettled ==
  ASSUME TypeOK, Close, Settled, NEW t \in Threads, ThreadStep(t) \/ TimeUp(t)
  PROVE  Settled'
  <1> SUFFICES ASSUME ~ overlap', NEW a \in Threads, NEW b \in Threads,
                      rounds'[a] >= 2
               PROVE  ~ Allocating(b)'
    BY DEF Settled
  <1>1. /\ \A u \in Threads \ {t} :
             job'[u] = job[u] /\ rounds'[u] = rounds[u]
        /\ ~ overlap
        /\ ~ Begin(t) => rounds' = rounds
    BY OthersStay
  <1>2. \A c \in Threads : rounds[c] >= 2 => \A u \in Threads : ~ Allocating(u)
    BY <1>1 DEF Settled
  <1>3. CASE Begin(t)
    <2>1. /\ rounds[t] \in 0 .. 4 /\ rounds'[t] = rounds[t] + 1
          /\ \A u \in Threads : rounds[u] >= rounds[t]
          /\ job[t].at = "wait"
          /\ rounds[t] = 1 => \A u \in Threads : ~ Allocating(u)
      <3>1. ~ (rounds[t] = 1 /\ \E u \in Threads : Allocating(u))
        BY <1>3 DEF Begin
      <3> QED BY <1>3, <3>1, JobFacts DEF Begin, Barrier!Complete
    <2>2. \A u \in Threads : rounds[u] \in 0 .. 4
      BY JobFacts
    <2>3. rounds[t] # 0
      <3> SUFFICES ASSUME rounds[t] = 0 PROVE FALSE
        OBVIOUS
      <3>1. a # t
        BY <2>1
      <3>2. rounds[a] >= 2
        BY <1>1, <3>1
      <3>3. rounds[a] <= rounds[t] + 1
        BY DEF Close
      <3> QED BY <2>2, <3>2, <3>3
    <2>4. \A u \in Threads : ~ Allocating(u)
      <3>1. CASE rounds[t] = 1
        BY <2>1, <3>1
      <3>2. CASE rounds[t] >= 2
        BY <1>2, <3>2
      <3> QED BY <2>1, <2>3, <3>1, <3>2
    <2>5. rounds'[t] # 1
      BY <2>1, <2>3
    <2> QED BY <1>1, <2>4, <2>5 DEF Allocating
  <1>4. CASE ~ Begin(t)
    <2>1. rounds[a] >= 2 /\ rounds'[b] = rounds[b]
      BY <1>1, <1>4
    <2>2. ~ Allocating(b)
      BY <1>2, <2>1
    <2>3. job[t].at = "wait" => FALSE
      BY <1>4 DEF TimeUp, ThreadStep, AllocPhase, MiddlePhase, DeallocPhase,
           LoopHead, AllocToQueue, AllocToFree, AllocFails, FreeAtOnce,
           FreeAtOnceFails, FreeFirst, FreeFirstFails, NothingToFree,
           Drain, DrainFails, Drained
    <2>4. CASE b = t
      BY <2>1, <2>2, <2>3, <2>4 DEF Allocating
    <2>5. CASE b # t
      BY <1>1, <2>1, <2>2, <2>5 DEF Allocating
    <2> QED BY <2>4, <2>5
  <1> QED BY <1>3, <1>4

(* More objects are left, fewer threads ask for one. *)
LEMMA BalanceKept ==
  ASSUME Balanced, lost \subseteq lost', overlap => overlap',
         Free \subseteq Free', Waiting' \subseteq Waiting,
         Taking \subseteq Taking'
  PROVE  Balanced'
  <1>1. /\ Cardinality(Free) <= Cardinality(Free')
        /\ Cardinality(Waiting') <= Cardinality(Waiting)
        /\ Cardinality(Taking) <= Cardinality(Taking')
    BY FiniteParts, FinitePartsNext, FS_Subset
  <1> QED BY <1>1, FiniteParts, FinitePartsNext DEF Balanced

LEMMA QuietBalanced ==
  ASSUME Owned, Balanced, NEW t \in Threads,
         \/ Begin(t) \/ TimeUp(t) \/ LoopHead(t) \/ NothingToFree(t)
         \/ FreeFirstFails(t) \/ Drained(t) \/ AllocFails(t) \/ Drain(t)
  PROVE  Balanced'
  <1>1. /\ TypeOK /\ Sound(t) /\ job[t] \in JobType /\ rounds[t] \in 0 .. 4
        /\ DOMAIN job = Threads
    BY JobFacts DEF Owned, Placed
  <1>2. /\ \A u \in Threads \ {t} :
             job'[u] = job[u] /\ rounds'[u] = rounds[u]
        /\ lost \subseteq lost' /\ (overlap => overlap')
    BY <1>1, OthersStay DEF ThreadStep, AllocPhase, MiddlePhase, DeallocPhase
  <1>3. live' \subseteq live
    BY DEF Begin, TimeUp, LoopHead, NothingToFree, FreeFirstFails, Drained,
           AllocFails, Drain
  <1>4. CASE Begin(t)
    <2>1. job[t].at = "wait" /\ ~ job'[t].room
      BY <1>1, <1>4 DEF Begin
    <2>2. Waiting' \subseteq Waiting /\ Taking \subseteq Taking'
      BY <1>2, <2>1 DEF Waiting, Taking, Roomy
    <2> QED BY <1>2, <1>3, <2>2, BalanceKept DEF Free
  <1>5. CASE ~ Begin(t)
    <2>1. /\ rounds' = rounds /\ job'[t].room = job[t].room
          /\ job[t].at = "free" <=> job'[t].at = "free"
      BY <1>1, <1>5 DEF TimeUp, LoopHead, NothingToFree, FreeFirstFails,
           Drained, AllocFails, Drain, JobType
    <2>2. Waiting' \subseteq Waiting /\ Taking \subseteq Taking'
      BY <1>2, <2>1 DEF Waiting, Taking, Roomy
    <2> QED BY <1>2, <1>3, <2>2, BalanceKept DEF Free
  <1> QED BY <1>4, <1>5

(* A free makes room, for the thread itself or for another. *)
LEMMA FreeFirstBalanced ==
  ASSUME Owned, Balanced, NEW t \in Threads, FreeFirst(t)
  PROVE  Balanced'
  <1> DEFINE o == Head(queue[t])
  <1>1. /\ TypeOK /\ Sound(t) /\ job[t] \in JobType /\ queue[t] \in Seq(Handles)
        /\ Queued(t) = Elems(queue[t]) /\ \A x \in Owns(t) : x \in live
        /\ Owns(t) = Queued(t) \cup Held(t) /\ Once(queue[t])
        /\ DOMAIN job = Threads /\ live \subseteq Handles
    BY Mine, JobFacts DEF TypeOK
  <1>2. /\ job[t].at = "first" /\ queue[t] # << >>
        /\ live' = live \ {o} /\ UNCHANGED <<rounds, lost, overlap>>
        /\ job'[t].at = "head"
        /\ \A u \in Threads \ {t} : job'[u] = job[u]
    BY <1>1 DEF FreeFirst, JobType
  <1>3. o \in live
    BY <1>1, <1>2, Popped
  <1> HIDE DEF o
  <1>4. Free' = Free \cup {o} /\ o \notin Free
    BY <1>1, <1>2, <1>3 DEF Free
  <1>5. Taking' = Taking
    BY <1>2 DEF Taking
  <1>6. Waiting' \subseteq Waiting \cup {t}
    BY <1>2 DEF Waiting, Roomy
  <1>7. Cardinality(Waiting') <= Cardinality(Waiting) + 1
    <2>1. /\ IsFiniteSet(Waiting \cup {t})
          /\ \/ Cardinality(Waiting \cup {t}) = Cardinality(Waiting) + 1
             \/ Cardinality(Waiting \cup {t}) = Cardinality(Waiting)
      BY FiniteParts, FS_AddElement
    <2>2. Cardinality(Waiting') <= Cardinality(Waiting \cup {t})
      BY <1>6, <2>1, FS_Subset
    <2> QED BY <2>1, <2>2, FiniteParts, FinitePartsNext
  <1>8. Cardinality(Free') = Cardinality(Free) + 1
    BY <1>4, FiniteParts, FS_AddElement
  <1> QED BY <1>2, <1>5, <1>7, <1>8, FiniteParts, FinitePartsNext DEF Balanced

(* An object that MiddlePhase takes is one its thread has made room for,   *)
(* or the thread is among those that take without.                         *)
LEMMA AllocToFreeBalanced ==
  ASSUME Owned, Balanced, NEW t \in Threads, AllocToFree(t)
  PROVE  Balanced'
  <1>1. TypeOK /\ job[t] \in JobType /\ DOMAIN job = Threads
    BY Mine, JobFacts
  <1>2. PICK o \in Handles \ live :
          /\ live' = live \cup {o}
          /\ job' = [job EXCEPT ![t].at = "free", ![t].obj = o]
    BY DEF AllocToFree
  <1>3. /\ job[t].at = "batch" /\ rounds[t] = 2
        /\ UNCHANGED <<rounds, lost, overlap>>
        /\ job'[t].at = "free" /\ job'[t].room = job[t].room
        /\ \A u \in Threads \ {t} : job'[u] = job[u]
    BY <1>1, <1>2 DEF AllocToFree, JobType
  <1>4. Free' = Free \ {o} /\ o \in Free
    BY <1>2 DEF Free
  <1>5. Cardinality(Free') = Cardinality(Free) - 1
    BY <1>4, FiniteParts, FS_RemoveElement
  <1>6. CASE job[t].room
    <2>1. Waiting' = Waiting \ {t} /\ t \in Waiting /\ Taking' = Taking
      BY <1>3, <1>6 DEF Waiting, Taking, Roomy
    <2>2. Cardinality(Waiting') = Cardinality(Waiting) - 1
      BY <2>1, FiniteParts, FS_RemoveElement
    <2> QED BY <1>3, <1>5, <2>1, <2>2, FiniteParts, FinitePartsNext DEF Balanced
  <1>7. CASE ~ job[t].room
    <2>1. Taking' = Taking \cup {t} /\ t \notin Taking /\ Waiting' = Waiting
      BY <1>3, <1>7 DEF Waiting, Taking, Roomy
    <2>2. Cardinality(Taking') = Cardinality(Taking) + 1
      BY <2>1, FiniteParts, FS_AddElement
    <2> QED BY <1>3, <1>5, <2>1, <2>2, FiniteParts, FinitePartsNext DEF Balanced
  <1> QED BY <1>6, <1>7

LEMMA FreeAtOnceBalanced ==
  ASSUME Owned, Balanced, NEW t \in Threads, FreeAtOnce(t)
  PROVE  Balanced'
  <1> DEFINE o == job[t].obj
             n == job[t].n + 1
  <1>1. /\ TypeOK /\ Sound(t) /\ job[t] \in JobType
        /\ Owns(t) = Queued(t) \cup Held(t) /\ \A x \in Owns(t) : x \in live
        /\ DOMAIN job = Threads /\ live \subseteq Handles
    BY Mine, JobFacts DEF TypeOK
  <1>2. /\ job[t].at = "free" /\ live' = live \ {o}
        /\ UNCHANGED <<rounds, lost, overlap>>
        /\ job'[t].at = InBatch(n) /\ job'[t].room = job[t].room
        /\ \A u \in Threads \ {t} : job'[u] = job[u]
    BY <1>1 DEF FreeAtOnce, JobType
  <1>3. rounds[t] = 2 /\ o \in Handles /\ job'[t].at # "free" /\ o \in live
    BY <1>1, <1>2 DEF Sound, InBatch, Held
  <1> HIDE DEF o, n
  <1>4. Free' = Free \cup {o} /\ o \notin Free
    BY <1>1, <1>2, <1>3 DEF Free
  <1>5. Cardinality(Free') = Cardinality(Free) + 1
    BY <1>4, FiniteParts, FS_AddElement
  <1>6. CASE job[t].room
    <2>1. Waiting' = Waiting \cup {t} /\ t \notin Waiting /\ Taking' = Taking
      BY <1>2, <1>3, <1>6 DEF Waiting, Taking, Roomy
    <2>2. Cardinality(Waiting') = Cardinality(Waiting) + 1
      BY <2>1, FiniteParts, FS_AddElement
    <2> QED BY <1>2, <1>5, <2>1, <2>2, FiniteParts, FinitePartsNext DEF Balanced
  <1>7. CASE ~ job[t].room
    <2>1. Taking' = Taking \ {t} /\ t \in Taking /\ Waiting' = Waiting
      BY <1>2, <1>3, <1>7 DEF Waiting, Taking, Roomy
    <2>2. Cardinality(Taking') = Cardinality(Taking) - 1
      BY <2>1, FiniteParts, FS_RemoveElement
    <2> QED BY <1>2, <1>5, <2>1, <2>2, FiniteParts, FinitePartsNext DEF Balanced
  <1> QED BY <1>6, <1>7

(* A thread that allocates for its queue does so before anybody is in the  *)
(* middle phase.                                                           *)
LEMMA AllocToQueueBalanced ==
  ASSUME Owned, Settled, NEW t \in Threads, AllocToQueue(t)
  PROVE  Balanced'
  <1> SUFFICES ASSUME ~ overlap'
               PROVE  Cardinality(Waiting') <= Cardinality(Free') + Cardinality(Taking')
    BY DEF Balanced
  <1>1. /\ Allocating(t) /\ UNCHANGED <<rounds, overlap>>
        /\ \A u \in Threads : rounds[u] # 2
    <2>1. Allocating(t) /\ UNCHANGED <<rounds, overlap>>
      BY DEF AllocToQueue, Allocating
    <2>2. \A u \in Threads : ~ (rounds[u] >= 2)
      BY <2>1 DEF Settled
    <2>3. \A u \in Threads : rounds[u] # 2
      BY <2>2
    <2> QED BY <2>1, <2>3
  <1>2. Waiting' = {}
    BY <1>1 DEF Waiting, Roomy
  <1>3. Cardinality(Waiting') = 0
    BY <1>2, FS_EmptySet
  <1> QED BY <1>3, FinitePartsNext

LEMMA NextRoom == RoomInv /\ [Next]_vars => RoomInv'
  <1> SUFFICES ASSUME RoomInv, [Next]_vars
               PROVE  Close' /\ Settled' /\ Balanced'
    BY NextOwned DEF RoomInv
  <1>1. TypeOK
    BY DEF RoomInv, Owned, Placed
  <1>2. CASE UNCHANGED vars
    <2>1. Close' /\ Settled'
      BY <1>2 DEF RoomInv, Close, Settled, Allocating, vars
    <2>2. Free' = Free /\ Waiting' = Waiting /\ Taking' = Taking
      BY <1>2 DEF vars, Free, Waiting, Taking, Roomy
    <2>3. Balanced'
      BY <1>2, <2>2, BalanceKept DEF RoomInv, vars
    <2> QED BY <2>1, <2>3
  <1>3. ASSUME NEW t \in Threads, ThreadStep(t) \/ TimeUp(t)
        PROVE  Close' /\ Settled' /\ Balanced'
    <2>1. Close' /\ Settled'
      BY <1>1, <1>3, NextClose, NextSettled DEF RoomInv
    <2>2. CASE \/ Begin(t) \/ TimeUp(t) \/ LoopHead(t) \/ NothingToFree(t)
               \/ FreeFirstFails(t) \/ Drained(t) \/ AllocFails(t) \/ Drain(t)
      BY <2>1, <2>2, QuietBalanced DEF RoomInv
    <2>3. CASE AllocToQueue(t)
      BY <2>1, <2>3, AllocToQueueBalanced DEF RoomInv
    <2>4. CASE AllocToFree(t)
      BY <2>1, <2>4, AllocToFreeBalanced DEF RoomInv
    <2>5. CASE FreeAtOnce(t)
      BY <2>1, <2>5, FreeAtOnceBalanced DEF RoomInv
    <2>6. CASE FreeFirst(t)
      BY <2>1, <2>6, FreeFirstBalanced DEF RoomInv
    <2>7. CASE FreeAtOnceFails(t) \/ DrainFails(t)
      <3>1. lost' # {}
        BY <2>7 DEF FreeAtOnceFails, DrainFails
      <3> QED BY <2>1, <3>1 DEF Balanced
    <2> QED BY <1>3, <2>2, <2>3, <2>4, <2>5, <2>6, <2>7
            DEF ThreadStep, AllocPhase, MiddlePhase, DeallocPhase
  <1> QED BY <1>2, <1>3 DEF Next

(* A thread that has freed an object for its middle phase runs out of room *)
(* in three ways only: phases have overlapped, a thread with nothing to    *)
(* free has taken an object, or a free has failed; for any number of       *)
(* threads and any capacity of the device.                                 *)
THEOREM RoomTaken == Spec => []RoomUnlessTaken
  <1>1. Init => RoomInv
    <2> SUFFICES ASSUME Init PROVE Close /\ Settled /\ Balanced
      BY InitOwned DEF RoomInv
    <2>1. \A u \in Threads : rounds[u] = 0
      BY DEF Init, Barrier!Init
    <2>2. Close /\ Settled
      BY <2>1 DEF Close, Settled
    <2>3. Waiting = {}
      BY <2>1 DEF Waiting, Roomy
    <2>4. Balanced
      BY <2>3, FS_EmptySet, FiniteParts DEF Balanced
    <2> QED BY <2>2, <2>4
  <1>2. RoomInv => RoomUnlessTaken
    <2> SUFFICES ASSUME RoomInv, NEW t \in Threads, Lacking(t),
                        ~ overlap, lost = {}
                 PROVE  Taking # {}
      BY DEF RoomUnlessTaken, Taking
    <2>1. Free = {} /\ Cardinality(Free) = 0
      BY FS_EmptySet DEF Lacking, Free
    <2>2. t \in Waiting
      BY DEF Lacking, Waiting
    <2>3. Cardinality(Waiting) # 0
      BY <2>2, FiniteParts, FS_EmptySet
    <2>4. Cardinality(Waiting) <= Cardinality(Free) + Cardinality(Taking)
      BY DEF RoomInv, Balanced
    <2>5. Cardinality(Taking) # 0
      BY <2>1, <2>3, <2>4, FiniteParts
    <2> QED BY <2>5, FS_EmptySet
  <1> QED BY <1>1, <1>2, NextRoom, PTL DEF Spec

=============================================================================
