---------------------------- MODULE CtrlResources ----------------------------
(***************************************************************************)
(* The resource tests of rdma_ctrl.  Each test thread allocates objects of *)
(* one kind - contexts, protection domains, completion queues, queue pairs *)
(* or memory regions - until a time is over or the device has no more,     *)
(* makes room for one and allocates and frees it over and over, then frees *)
(* all it has.  The threads share the device, and IPCShm keeps them within *)
(* a phase of each other: that is taken from its specification, Rounds,    *)
(* which CtrlPhases implements.                                            *)
(***************************************************************************)
EXTENDS Integers, Sequences, FiniteSets

CONSTANTS
  Threads,     \* the test threads, --thread of them
  Handles,     \* the objects the device can hold at a time
  None,        \* no object
  BatchCtrl,   \* kBatchCtrl
  Kind,        \* --test
  NumPd,       \* --num_pd
  NumSendCq,   \* --num_send_cq
  NumBuffer,   \* --num_buffer
  Faults       \* a verb may fail although the device has room

ASSUME ResourceAssumption ==
  /\ IsFiniteSet(Threads)
  /\ IsFiniteSet(Handles) /\ None \notin Handles
  /\ BatchCtrl \in Nat \ {0}
  /\ Kind \in {"context", "pd", "cq", "qp", "mr"}
  /\ NumPd \in Nat \ {0} /\ NumSendCq \in Nat \ {0}
  /\ NumBuffer \in Nat \ {0}
  /\ Faults \in BOOLEAN

VARIABLES
  rounds,   \* rounds[t]: the phases of IPCShm thread t was counted in
  job,      \* job[t]: where it is within its phase
  queue,    \* queue[t]: _res_queue
  idx,      \* idx[t][v]: its index in the vector v of parent objects
  live,     \* the objects the device holds
  lost,     \* those of them whose deallocation failed for good
  overlap   \* some middle phase has started while a thread was allocating

vars == <<rounds, job, queue, idx, live, lost, overlap>>

(* The vectors of parent objects the constructors fill. *)
QpSizes == [pd |-> NumPd, sendCq |-> NumSendCq, recvCq |-> NumSendCq]
MrSizes == [pd |-> NumPd, buffer |-> NumBuffer]
NoSizes == [v \in {} |-> 0]
Sizes == IF Kind = "qp" THEN QpSizes
         ELSE IF Kind = "mr" THEN MrSizes ELSE NoSizes

Barrier == INSTANCE Rounds WITH Last <- 4

Init ==
  /\ Barrier!Init
  /\ job = [t \in Threads |-> [at |-> "wait", n |-> 0, late |-> FALSE,
                               room |-> FALSE, obj |-> None]]
  /\ queue = [t \in Threads |-> << >>]
  /\ idx = [t \in Threads |-> [v \in DOMAIN Sizes |-> 0]]
  /\ live = {}
  /\ lost = {}
  /\ overlap = FALSE

Allocating(t) == rounds[t] = 1 /\ job[t].at # "wait"

(* Where AllocPhase, MiddlePhase and DeallocPhase start. *)
Entry == <<"head", "first", "drain", "returned">>

(* TestThread: counted by IPCShm, the thread starts its next phase. *)
Begin(t) ==
  /\ job[t].at = "wait"
  /\ Barrier!Complete(t)
  /\ job' = [job EXCEPT ![t] = [at |-> Entry[rounds[t] + 1], n |-> 0,
                   late |-> FALSE, room |-> FALSE, obj |-> None]]
  /\ idx' = [idx EXCEPT ![t] = [v \in DOMAIN Sizes |-> 0]]
  /\ overlap' = (overlap \/ (rounds[t] = 1 /\ \E u \in Threads : Allocating(u)))
  /\ UNCHANGED <<queue, live, lost>>

-----------------------------------------------------------------------------
(* The loop of AllocPhase and MiddlePhase. *)

(* The seconds of the phase are over. *)
TimeUp(t) ==
  /\ job[t].at \in {"head", "batch", "free"}
  /\ ~ job[t].late
  /\ job' = [job EXCEPT ![t].late = TRUE]
  /\ UNCHANGED <<rounds, queue, idx, live, lost, overlap>>

\* Faulty: a batch starts where the last one ended.
LoopHeadCountsOn(t) ==
  /\ job[t].at = "head"
  /\ job' = [job EXCEPT ![t].at = IF job[t].late THEN "wait" ELSE "batch"]
  /\ UNCHANGED <<rounds, queue, idx, live, lost, overlap>>

(* The time is looked at between two batches. *)
LoopHead(t) ==
  /\ job[t].at = "head"
  /\ job' = [job EXCEPT ![t].at = IF job[t].late THEN "wait" ELSE "batch",
                        ![t].n = 0]
  /\ UNCHANGED <<rounds, queue, idx, live, lost, overlap>>

InBatch(n) == IF n = BatchCtrl THEN "head" ELSE "batch"

Used(f) == [v \in DOMAIN f |-> f[v] + 1]
Wrapped(f) == [v \in DOMAIN f |-> IF f[v] = Sizes[v] THEN 0 ELSE f[v]]

(* AllocPhase: the object goes to the queue. *)
AllocToQueue(t) ==
  /\ rounds[t] = 1
  /\ job[t].at = "batch"
  /\ \E o \in Handles \ live :
       /\ live' = live \cup {o}
       /\ queue' = [queue EXCEPT ![t] = Append(@, o)]
  /\ idx' = [idx EXCEPT ![t] = Wrapped(Used(@))]
  /\ job' = [job EXCEPT ![t].n = @ + 1, ![t].at = InBatch(job[t].n + 1)]
  /\ UNCHANGED <<rounds, lost, overlap>>

(* MiddlePhase: the object is freed at once. *)
AllocToFree(t) ==
  /\ rounds[t] = 2
  /\ job[t].at = "batch"
  /\ \E o \in Handles \ live :
       /\ live' = live \cup {o}
       /\ job' = [job EXCEPT ![t].at = "free", ![t].obj = o]
  /\ idx' = [idx EXCEPT ![t] = Used(@)]
  /\ UNCHANGED <<rounds, queue, lost, overlap>>

(* A failure ends the phase. *)
AllocFails(t) ==
  /\ job[t].at = "batch"
  /\ live = Handles \/ Faults
  /\ job' = [job EXCEPT ![t].at = "wait"]
  /\ idx' = [idx EXCEPT ![t] = Used(@)]
  /\ UNCHANGED <<rounds, queue, live, lost, overlap>>

\* Faulty: the indices are never wrapped in the middle phase.
FreeAtOnceUnwrapped(t) ==
  /\ job[t].at = "free"
  /\ live' = live \ {job[t].obj}
  /\ job' = [job EXCEPT ![t].n = @ + 1, ![t].at = InBatch(job[t].n + 1),
                        ![t].obj = None]
  /\ UNCHANGED <<rounds, queue, idx, lost, overlap>>

FreeAtOnce(t) ==
  /\ job[t].at = "free"
  /\ live' = live \ {job[t].obj}
  /\ idx' = [idx EXCEPT ![t] = Wrapped(@)]
  /\ job' = [job EXCEPT ![t].n = @ + 1, ![t].at = InBatch(job[t].n + 1),
                        ![t].obj = None]
  /\ UNCHANGED <<rounds, queue, lost, overlap>>

FreeAtOnceFails(t) ==
  /\ Faults
  /\ job[t].at = "free"
  /\ lost' = lost \cup {job[t].obj}
  /\ job' = [job EXCEPT ![t].at = "wait", ![t].obj = None]
  /\ UNCHANGED <<rounds, queue, idx, live, overlap>>

-----------------------------------------------------------------------------
(* MiddlePhase, before its loop: "Dealloc one for capacity". *)

\* Faulty: the object stays in the queue.
FreeFirstKeeps(t) ==
  /\ job[t].at = "first"
  /\ queue[t] # << >>
  /\ live' = live \ {Head(queue[t])}
  /\ job' = [job EXCEPT ![t].at = "head", ![t].room = TRUE]
  /\ UNCHANGED <<rounds, queue, idx, lost, overlap>>

\* Faulty: the object is popped, but not freed.
FreeFirstPops(t) ==
  /\ job[t].at = "first"
  /\ queue[t] # << >>
  /\ queue' = [queue EXCEPT ![t] = Tail(@)]
  /\ job' = [job EXCEPT ![t].at = "head", ![t].room = TRUE]
  /\ UNCHANGED <<rounds, idx, live, lost, overlap>>

FreeFirst(t) ==
  /\ job[t].at = "first"
  /\ queue[t] # << >>
  /\ live' = live \ {Head(queue[t])}
  /\ queue' = [queue EXCEPT ![t] = Tail(@)]
  /\ job' = [job EXCEPT ![t].at = "head", ![t].room = TRUE]
  /\ UNCHANGED <<rounds, idx, lost, overlap>>

FreeFirstFails(t) ==
  /\ Faults
  /\ job[t].at = "first"
  /\ queue[t] # << >>
  /\ job' = [job EXCEPT ![t].at = "wait"]
  /\ UNCHANGED <<rounds, queue, idx, live, lost, overlap>>

NothingToFree(t) ==
  /\ job[t].at = "first"
  /\ queue[t] = << >>
  /\ job' = [job EXCEPT ![t].at = "head"]
  /\ UNCHANGED <<rounds, queue, idx, live, lost, overlap>>

-----------------------------------------------------------------------------
(* DeallocPhase. *)

Drain(t) ==
  /\ job[t].at = "drain"
  /\ queue[t] # << >>
  /\ queue' = [queue EXCEPT ![t] = Tail(@)]
  /\ live' = live \ {Head(queue[t])}
  /\ UNCHANGED <<rounds, job, idx, lost, overlap>>

\* Faulty: the object is queued for another try.
DrainFailsRetries(t) ==
  /\ Faults
  /\ job[t].at = "drain"
  /\ queue[t] # << >>
  /\ queue' = [queue EXCEPT ![t] = Append(Tail(@), Head(@))]
  /\ UNCHANGED <<rounds, job, idx, live, lost, overlap>>

\* Faulty: the phase ends with the first failure, as the others do.
DrainFailsEnds(t) ==
  /\ Faults
  /\ job[t].at = "drain"
  /\ queue[t] # << >>
  /\ queue' = [queue EXCEPT ![t] = Tail(@)]
  /\ lost' = lost \cup {Head(queue[t])}
  /\ job' = [job EXCEPT ![t].at = "wait"]
  /\ UNCHANGED <<rounds, idx, live, overlap>>

(* The object has been popped before its deallocation fails. *)
DrainFails(t) ==
  /\ Faults
  /\ job[t].at = "drain"
  /\ queue[t] # << >>
  /\ queue' = [queue EXCEPT ![t] = Tail(@)]
  /\ lost' = lost \cup {Head(queue[t])}
  /\ UNCHANGED <<rounds, job, idx, live, overlap>>

Drained(t) ==
  /\ job[t].at = "drain"
  /\ queue[t] = << >>
  /\ job' = [job EXCEPT ![t].at = "wait"]
  /\ UNCHANGED <<rounds, queue, idx, live, lost, overlap>>

-----------------------------------------------------------------------------
AllocPhase(t) == LoopHead(t) \/ AllocToQueue(t) \/ AllocFails(t)

MiddlePhase(t) ==
  \/ FreeFirst(t)
  \/ FreeFirstFails(t)
  \/ NothingToFree(t)
  \/ LoopHead(t)
  \/ AllocToFree(t)
  \/ AllocFails(t)
  \/ FreeAtOnce(t)
  \/ FreeAtOnceFails(t)

DeallocPhase(t) == Drain(t) \/ DrainFails(t) \/ Drained(t)

ThreadStep(t) ==
  Begin(t) \/ AllocPhase(t) \/ MiddlePhase(t) \/ DeallocPhase(t)

Next == \E t \in Threads : ThreadStep(t) \/ TimeUp(t)

Spec == Init /\ [][Next]_vars

(* Every thread is scheduled, and time passes. *)
FairSpec ==
  /\ Spec
  /\ \A t \in Threads : WF_vars(ThreadStep(t)) /\ WF_vars(TimeUp(t))

-----------------------------------------------------------------------------
JobType ==
  [at : {"wait", "head", "batch", "free", "first", "drain", "returned"},
   n : 0 .. BatchCtrl, late : BOOLEAN, room : BOOLEAN,
   obj : Handles \cup {None}]

(* The type of every variable. *)
TypeOK ==
  /\ rounds \in [Threads -> 0 .. 4]
  /\ job \in [Threads -> JobType]
  /\ queue \in [Threads -> Seq(Handles)]
  /\ idx \in [Threads -> [DOMAIN Sizes -> Nat]]
  /\ live \subseteq Handles
  /\ lost \subseteq Handles
  /\ overlap \in BOOLEAN

Queued(t) == {queue[t][i] : i \in DOMAIN queue[t]}
Held(t) == IF job[t].at = "free" THEN {job[t].obj} ELSE {}

(* Every object of the device has one owner: it is in the queue of one     *)
(* thread, once, or held in a middle phase, or given up after a failure.   *)
(* So no thread frees an object twice, nor one of another thread, although *)
(* the device may hand out a freed object at once again; and nothing leaks *)
(* but what could not be freed.                                            *)
ObjectsOwned ==
  /\ live = lost \cup UNION {Queued(t) \cup Held(t) : t \in Threads}
  /\ \A t \in Threads :
       /\ \A i, j \in DOMAIN queue[t] : queue[t][i] = queue[t][j] => i = j
       /\ Queued(t) \cap Held(t) = {}
       /\ (Queued(t) \cup Held(t)) \cap lost = {}
       /\ \A u \in Threads \ {t} :
            (Queued(t) \cup Held(t)) \cap (Queued(u) \cup Held(u)) = {}

(* When all threads have returned the device holds nothing but the objects *)
(* whose deallocation failed: one failure does not leave others behind.    *)
EndsClean ==
  (\A t \in Threads : job[t].at = "returned") => live = lost

(* The parent objects of a new object exist: the indices QpTest and MrTest *)
(* raise at each use are wrapped before the next, also after failures.     *)
IndexInRange ==
  \A t \in Threads : job[t].at = "batch" =>
    \A v \in DOMAIN Sizes : idx[t][v] < Sizes[v]

Roomy(t) == rounds[t] = 2 /\ job[t].room
Lacking(t) == Roomy(t) /\ job[t].at = "batch" /\ live = Handles

(* MiddlePhase: "Dealloc one for capacity".  A thread that has freed one   *)
(* object for it does not fail in the middle phase for want of room.       *)
RoomInMiddle == \A t \in Threads : ~ Lacking(t)

(* It does so in three ways only: phases have overlapped, a thread that had *)
(* nothing to free takes the room of another, or a free has failed.         *)
RoomUnlessTaken ==
  \A t \in Threads : Lacking(t) =>
    \/ overlap \/ lost # {}
    \/ \E u \in Threads : job[u].at = "free" /\ ~ job[u].room

(* Every thread gets through its phases, whatever fails. *)
AllReturn == <>(\A t \in Threads : job[t].at = "returned")

=============================================================================
