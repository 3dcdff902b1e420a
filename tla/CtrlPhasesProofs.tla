-------------------------- MODULE CtrlPhasesProofs --------------------------
(***************************************************************************)
(* Proofs about CtrlPhases, for any number of test threads.                *)
(***************************************************************************)
EXTENDS CtrlPhases, FiniteSetTheorems, TLAPS

(* The threads that were counted in the current phase. *)
Arrived == {t \in Threads : RoundsOf(t) = phase + 1}

(* A thread is counted in its own phase only, and that phase is the        *)
(* current one until it was: it is never more than one round ahead.        *)
InPhase(t) ==
  /\ thread[t].at = "lock" => thread[t].p = phase
  /\ thread[t].at = "notify" => thread[t].p = phase /\ lock
  /\ thread[t].at \in {"await", "work"} => thread[t].p < LastPhase
  /\ phase = -1 => thread[t] = [at |-> "update", p |-> 0]
  /\ phase >= 0 => RoundsOf(t) \in {phase, phase + 1}

CountRight ==
  /\ phase >= 0 => readyNum = Cardinality(Arrived)
  /\ phase = -1 => readyNum = 0 /\ ~ lock
  /\ lock => readyNum = Cardinality(Threads)
  /\ ~ lock => readyNum < Cardinality(Threads)
  /\ \A t, u \in Threads :
       thread[t].at = "notify" /\ thread[u].at = "notify" => t = u
  /\ ipc \in {"watch", "returned"} <=> phase >= 0

IInv == TypeOK /\ (\A t \in Threads : InPhase(t)) /\ CountRight

ThreadType ==
  [at : {"update", "lock", "notify", "await", "work", "returned"},
   p : 0 .. LastPhase]

LEMMA Sizes ==
  /\ Cardinality(Threads) \in Nat /\ Cardinality(Threads) > 0
  /\ LastPhase = 3 /\ Start = 0 /\ Ready = -1
  BY CtrlAssumption, FS_CardinalityType, FS_EmptySet DEF LastPhase, Start, Ready

LEMMA ThreadFacts ==
  ASSUME TypeOK, NEW t \in Threads
  PROVE  /\ thread \in [Threads -> ThreadType] /\ thread[t] \in ThreadType
         /\ thread[t].p \in 0 .. 3 /\ RoundsOf(t) \in 0 .. 4
         /\ phase \in -1 .. 4
         /\ thread[t].at \in {"update", "lock", "notify", "await", "work",
                              "returned"}
  <1>1. thread \in [Threads -> ThreadType] /\ phase \in -1 .. (LastPhase + 1)
    BY DEF TypeOK, ThreadType
  <1>2. /\ thread[t] \in ThreadType /\ thread[t].p \in 0 .. 3
        /\ thread[t].at \in {"update", "lock", "notify", "await", "work",
                             "returned"}
    BY <1>1, Sizes DEF ThreadType
  <1>3. RoundsOf(t) \in 0 .. 4
    BY <1>2 DEF RoundsOf
  <1> QED BY <1>1, <1>2, <1>3, Sizes

(* One thread moves, with its phase or without. *)
LEMMA Moves ==
  ASSUME TypeOK, NEW t \in Threads,
         NEW a \in {"update", "lock", "notify", "await", "work", "returned"},
         NEW q \in 0 .. LastPhase,
         thread' = [thread EXCEPT ![t] = [at |-> a, p |-> q]]
  PROVE  /\ thread' \in [Threads -> ThreadType]
         /\ thread'[t].at = a /\ thread'[t].p = q
         /\ RoundsOf(t)' = IF a \in {"update", "lock"} THEN q ELSE q + 1
         /\ \A u \in Threads : u # t =>
              thread'[u] = thread[u] /\ RoundsOf(u)' = RoundsOf(u)
  <1>1. thread \in [Threads -> ThreadType] /\ [at |-> a, p |-> q] \in ThreadType
    BY ThreadFacts DEF ThreadType
  <1>2. /\ thread' \in [Threads -> ThreadType]
        /\ thread'[t] = [at |-> a, p |-> q]
        /\ \A u \in Threads : u # t => thread'[u] = thread[u]
    BY <1>1
  <1> QED BY <1>2 DEF RoundsOf

LEMMA AtMoves ==
  ASSUME TypeOK, NEW t \in Threads,
         NEW a \in {"update", "lock", "notify", "await", "work", "returned"},
         thread' = [thread EXCEPT ![t].at = a]
  PROVE  thread' = [thread EXCEPT ![t] = [at |-> a, p |-> thread[t].p]]
  <1>1. thread \in [Threads -> ThreadType] /\ thread[t] \in ThreadType
    BY ThreadFacts
  <1>2. [thread[t] EXCEPT !.at = a] = [at |-> a, p |-> thread[t].p]
    BY <1>1 DEF ThreadType
  <1> QED BY <1>1, <1>2

LEMMA InitIInv == Init => IInv
  <1> SUFFICES ASSUME Init PROVE IInv
    OBVIOUS
  <1>1. thread \in [Threads -> ThreadType]
    BY Sizes DEF Init, ThreadType
  <1>2. victim \in [at : {"start", "absent", "poll", "detached", "failed",
                          "fault"},
                    last : {Ready} \cup 0 .. LastPhase,
                    marks : Seq(0 .. LastPhase)]
    BY DEF Init
  <1>3. TypeOK
    <2>1. /\ phase \in -1 .. (LastPhase + 1)
          /\ readyNum \in 0 .. Cardinality(Threads)
      BY Sizes DEF Init
    <2>2. word \in {Ready} \cup 0 .. LastPhase
      BY CtrlAssumption DEF Init
    <2>3. lock \in BOOLEAN
      BY DEF Init
    <2>4. ipc \in {"init", "check", "notify", "sleep", "watch", "returned",
                   "stuck", "crashed"}
      BY DEF Init
    <2> QED BY <1>1, <1>2, <2>1, <2>2, <2>3, <2>4 DEF TypeOK, ThreadType
  <1>4. \A t \in Threads : InPhase(t)
    BY DEF Init, InPhase
  <1>5. CountRight
    BY Sizes DEF Init, CountRight
  <1> QED BY <1>3, <1>4, <1>5 DEF IInv

(* The sets of threads that have arrived. *)
LEMMA ArrivedFacts ==
  /\ Arrived \subseteq Threads /\ IsFiniteSet(Arrived)
  /\ Cardinality(Arrived) \in Nat
  /\ Cardinality(Arrived) = Cardinality(Threads) => Arrived = Threads
  <1>1. Arrived \in SUBSET Threads
    BY DEF Arrived
  <1>2. /\ IsFiniteSet(Arrived)
        /\ Cardinality(Threads) = Cardinality(Arrived) => Threads = Arrived
    BY <1>1, CtrlAssumption, FS_Subset
  <1> QED BY <1>1, <1>2, FS_CardinalityType

(* A thread of the current phase is counted. *)
LEMMA OneArrives ==
  ASSUME IInv, NEW t \in Threads, thread[t].at = "lock",
         phase' = phase, RoundsOf(t)' = thread[t].p + 1,
         \A u \in Threads : u # t => RoundsOf(u)' = RoundsOf(u)
  PROVE  /\ phase >= 0 /\ Cardinality(Arrived') = readyNum + 1
         /\ RoundsOf(t)' = phase + 1
  <1>1. /\ phase >= 0 /\ thread[t].p = phase /\ phase \in Int
        /\ readyNum = Cardinality(Arrived)
    <2>1. phase \in -1 .. 4 /\ thread[t].p \in 0 .. 3
      BY ThreadFacts DEF IInv
    <2> QED BY <2>1 DEF IInv, InPhase, CountRight
  <1>2. RoundsOf(t) = phase
    BY <1>1 DEF RoundsOf
  <1>3. t \notin Arrived /\ Arrived' = Arrived \cup {t}
    <2>1. t \notin Arrived
      BY <1>1, <1>2 DEF Arrived
    <2>2. ASSUME NEW u \in Threads
          PROVE  u \in Arrived' <=> u \in Arrived \/ u = t
      <3>1. CASE u = t
        BY <1>1, <3>1 DEF Arrived
      <3>2. CASE u # t
        BY <3>2 DEF Arrived
      <3> QED BY <3>1, <3>2
    <2>3. Arrived' \subseteq Threads /\ Arrived \subseteq Threads
      BY DEF Arrived
    <2> QED BY <2>1, <2>2, <2>3
  <1> QED BY <1>1, <1>3, ArrivedFacts, FS_AddElement

(* The type of what a step does not change, and the rest of the types. *)
Others ==
  /\ word \in {Ready} \cup 0 .. LastPhase
  /\ victim \in [at : {"start", "absent", "poll", "detached", "failed",
                       "fault"},
                 last : {Ready} \cup 0 .. LastPhase,
                 marks : Seq(0 .. LastPhase)]

Core ==
  /\ phase \in -1 .. (LastPhase + 1)
  /\ readyNum \in 0 .. Cardinality(Threads)
  /\ lock \in BOOLEAN
  /\ ipc \in {"init", "check", "notify", "sleep", "watch", "returned",
              "stuck", "crashed"}

LEMMA Types ==
  /\ TypeOK <=> Others /\ Core /\ thread \in [Threads -> ThreadType]
  /\ TypeOK' <=> Others' /\ Core' /\ thread' \in [Threads -> ThreadType]
  BY DEF TypeOK, Others, Core, ThreadType

(* Update counts a thread that is not the last. *)
LEMMA CountStep ==
  ASSUME IInv, NEW t \in Threads, UpdateCount(t)
  PROVE  IInv'
  <1> DEFINE a == Counted(t)
  <1>1. TypeOK /\ Others /\ Core /\ InPhase(t)
    BY Types DEF IInv
  <1>2. /\ thread[t].at = "lock" /\ lock = FALSE /\ readyNum' = readyNum + 1
        /\ readyNum + 1 # Cardinality(Threads)
        /\ thread' = [thread EXCEPT ![t].at = a]
        /\ UNCHANGED <<word, phase, lock, ipc, victim>>
    BY <1>1 DEF UpdateCount, AllReady, Core
  <1>3. /\ a \in {"await", "returned"} /\ (a = "await" => thread[t].p < LastPhase)
        /\ thread[t].p \in 0 .. LastPhase
    BY <1>1, ThreadFacts, Sizes DEF Counted
  <1> HIDE DEF a
  <1>4. thread' = [thread EXCEPT ![t] = [at |-> a, p |-> thread[t].p]]
    BY <1>1, <1>2, <1>3, AtMoves
  <1>5. /\ thread' \in [Threads -> ThreadType]
        /\ thread'[t].at = a /\ thread'[t].p = thread[t].p
        /\ RoundsOf(t)' = thread[t].p + 1
        /\ \A u \in Threads : u # t =>
             thread'[u] = thread[u] /\ RoundsOf(u)' = RoundsOf(u)
    BY <1>1, <1>3, <1>4, Moves
  <1>6. /\ phase >= 0 /\ Cardinality(Arrived') = readyNum + 1
        /\ RoundsOf(t)' = phase + 1
    BY <1>2, <1>5, OneArrives
  <1>7. /\ readyNum \in Nat /\ readyNum < Cardinality(Threads)
        /\ phase \in Int
    BY <1>1, <1>2, Sizes DEF IInv, CountRight, Core
  <1>8. readyNum' \in 0 .. Cardinality(Threads)
        /\ readyNum' < Cardinality(Threads)
    BY <1>2, <1>7, Sizes
  <1>9. TypeOK'
    BY <1>1, <1>2, <1>5, <1>8, Types DEF Others, Core
  <1>10. ASSUME NEW u \in Threads
         PROVE  InPhase(u)'
    <2>1. CASE u = t
      BY <1>2, <1>3, <1>5, <1>6, <1>7, <2>1 DEF InPhase
    <2>2. CASE u # t
      <3>1. InPhase(u)
        BY DEF IInv
      <3> QED BY <1>2, <1>5, <2>2, <3>1 DEF InPhase
    <2> QED BY <2>1, <2>2
  <1>11. CountRight'
    <2>1. \A u \in Threads : thread'[u].at = "notify" => thread[u].at = "notify"
      BY <1>3, <1>5
    <2> QED BY <1>2, <1>6, <1>7, <1>8, <2>1 DEF IInv, CountRight
  <1> QED BY <1>9, <1>10, <1>11 DEF IInv

(* Update counts the last thread. *)
LEMMA NotifyStep ==
  ASSUME IInv, NEW t \in Threads, UpdateNotify(t)
  PROVE  IInv'
  <1>1. TypeOK /\ Others /\ Core /\ InPhase(t)
    BY Types DEF IInv
  <1>2. /\ thread[t].at = "lock" /\ lock = FALSE /\ lock' = TRUE
        /\ readyNum' = readyNum + 1
        /\ readyNum + 1 = Cardinality(Threads)
        /\ word' = phase
        /\ thread' = [thread EXCEPT ![t].at = "notify"]
        /\ UNCHANGED <<phase, ipc, victim>>
    BY <1>1 DEF UpdateNotify, AllReady, EndedPhase, Core
  <1>3. /\ thread[t].p \in 0 .. LastPhase /\ thread[t].p = phase
        /\ phase \in Int
    BY <1>1, <1>2, ThreadFacts, Sizes DEF InPhase
  <1>4. thread' = [thread EXCEPT ![t] = [at |-> "notify", p |-> thread[t].p]]
    BY <1>1, <1>2, AtMoves
  <1>5. /\ thread' \in [Threads -> ThreadType]
        /\ thread'[t].at = "notify" /\ thread'[t].p = thread[t].p
        /\ RoundsOf(t)' = thread[t].p + 1
        /\ \A u \in Threads : u # t =>
             thread'[u] = thread[u] /\ RoundsOf(u)' = RoundsOf(u)
    BY <1>1, <1>3, <1>4, Moves
  <1>6. /\ phase >= 0 /\ Cardinality(Arrived') = readyNum + 1
        /\ RoundsOf(t)' = phase + 1
    BY <1>2, <1>5, OneArrives
  <1>7. /\ readyNum' \in 0 .. Cardinality(Threads)
        /\ readyNum' = Cardinality(Threads)
    BY <1>2, Sizes
  <1>8. TypeOK'
    <2>1. word' \in {Ready} \cup 0 .. LastPhase
      BY <1>2, <1>3
    <2>2. Others'
      BY <1>1, <1>2, <2>1 DEF Others
    <2>3. Core'
      BY <1>1, <1>2, <1>7 DEF Core
    <2> QED BY <1>5, <2>2, <2>3, Types
  <1>9. ASSUME NEW u \in Threads
        PROVE  InPhase(u)'
    <2>1. CASE u = t
      BY <1>2, <1>3, <1>5, <1>6, <2>1 DEF InPhase
    <2>2. CASE u # t
      <3>1. InPhase(u)
        BY DEF IInv
      <3> QED BY <1>2, <1>5, <2>2, <3>1 DEF InPhase
    <2> QED BY <2>1, <2>2
  <1>10. \A u \in Threads : thread'[u].at = "notify" => u = t
    <2>1. \A u \in Threads : thread[u].at = "notify" => lock
      BY DEF IInv, InPhase
    <2> QED BY <1>2, <1>5, <2>1
  <1>11. CountRight'
    BY <1>2, <1>3, <1>6, <1>7, <1>10 DEF IInv, CountRight
  <1> QED BY <1>8, <1>9, <1>11 DEF IInv

(* The phase goes up: everybody has arrived, nobody in the next phase. *)
LEMMA PhaseStep ==
  ASSUME IInv, NEW t \in Threads, UpdatePhase(t)
  PROVE  IInv' /\ (\A u \in Threads : RoundsOf(u)' = phase + 1)
  <1> DEFINE a == Counted(t)
  <1>1. TypeOK /\ Others /\ Core /\ InPhase(t)
    BY Types DEF IInv
  <1>2. /\ thread[t].at = "notify" /\ phase' = phase + 1 /\ readyNum' = 0
        /\ lock' = FALSE
        /\ thread' = [thread EXCEPT ![t].at = a]
        /\ UNCHANGED <<word, ipc, victim>>
    BY DEF UpdatePhase, ResetCount
  <1>3. /\ a \in {"await", "returned"} /\ (a = "await" => thread[t].p < LastPhase)
        /\ thread[t].p \in 0 .. LastPhase
    BY <1>1, ThreadFacts, Sizes DEF Counted
  <1> HIDE DEF a
  <1>4. /\ thread[t].p = phase /\ lock = TRUE /\ phase >= 0
        /\ phase \in 0 .. LastPhase
    BY <1>1, <1>2, <1>3, Sizes DEF InPhase, Core
  <1>5. thread' = [thread EXCEPT ![t] = [at |-> a, p |-> thread[t].p]]
    BY <1>1, <1>2, <1>3, AtMoves
  <1>6. /\ thread' \in [Threads -> ThreadType]
        /\ thread'[t].at = a /\ thread'[t].p = thread[t].p
        /\ RoundsOf(t)' = thread[t].p + 1
        /\ \A u \in Threads : u # t =>
             thread'[u] = thread[u] /\ RoundsOf(u)' = RoundsOf(u)
    BY <1>1, <1>3, <1>5, Moves
  <1>7. \A u \in Threads : RoundsOf(u) = phase + 1
    <2>1. readyNum = Cardinality(Threads) /\ readyNum = Cardinality(Arrived)
      BY <1>4 DEF IInv, CountRight
    <2>2. Arrived = Threads
      BY <2>1, ArrivedFacts
    <2> QED BY <2>2 DEF Arrived
  <1>8. \A u \in Threads : RoundsOf(u)' = phase + 1
    BY <1>4, <1>6, <1>7
  <1>9. Arrived' = {} /\ Cardinality(Arrived') = 0
    <2>1. \A u \in Threads : RoundsOf(u)' # phase' + 1
      BY <1>2, <1>4, <1>8
    <2> QED BY <2>1, FS_EmptySet DEF Arrived
  <1>10. TypeOK'
    <2>1. /\ phase' \in -1 .. (LastPhase + 1)
          /\ readyNum' \in 0 .. Cardinality(Threads)
      BY <1>2, <1>4, Sizes
    <2>2. Core'
      BY <1>1, <1>2, <2>1 DEF Core
    <2>3. Others'
      BY <1>1, <1>2 DEF Others
    <2> QED BY <1>6, <2>2, <2>3, Types
  <1>11. \A u \in Threads : u # t => thread[u].at # "notify"
    BY <1>2 DEF IInv, CountRight
  <1>12. ASSUME NEW u \in Threads
         PROVE  InPhase(u)'
    <2>1. phase' >= 0 /\ phase' \in Int /\ RoundsOf(u)' = phase'
      BY <1>2, <1>4, <1>8
    <2>2. CASE u = t
      BY <1>2, <1>3, <1>6, <2>1, <2>2 DEF InPhase
    <2>3. CASE u # t
      <3>1. InPhase(u) /\ thread'[u] = thread[u] /\ RoundsOf(u) = phase + 1
        BY <1>6, <1>7, <2>3 DEF IInv
      <3>2. thread[u].at # "lock"
        BY <1>4, <3>1 DEF InPhase, RoundsOf
      <3> QED BY <1>2, <1>11, <2>1, <2>3, <3>1, <3>2 DEF InPhase
    <2> QED BY <2>2, <2>3
  <1>13. CountRight'
    <2>1. \A u \in Threads : thread'[u].at # "notify"
      BY <1>3, <1>6, <1>11
    <2>2. ipc \in {"watch", "returned"} /\ phase' >= 0 /\ phase' # -1
      BY <1>2, <1>4 DEF IInv, CountRight
    <2> QED BY <1>2, <1>9, <2>1, <2>2, Sizes DEF CountRight
  <1> QED BY <1>8, <1>10, <1>12, <1>13 DEF IInv

(* The other steps of a thread leave its rounds as they are. *)
LEMMA QuietStep ==
  ASSUME IInv, NEW t \in Threads, UpdateTest(t) \/ Enter(t) \/ Leave(t)
  PROVE  IInv' /\ (\A u \in Threads : RoundsOf(u)' = RoundsOf(u))
  <1>1. TypeOK /\ Others /\ Core /\ InPhase(t)
    BY Types DEF IInv
  <1>2. UNCHANGED <<word, phase, readyNum, lock, ipc, victim>>
    BY DEF UpdateTest, Enter, Leave
  <1>3. thread[t].p \in 0 .. 3 /\ thread[t].p \in 0 .. LastPhase /\ phase \in Int
    BY <1>1, ThreadFacts, Sizes
  <1>4. PICK a \in {"lock", "work", "update"}, q \in 0 .. LastPhase :
          /\ thread' = [thread EXCEPT ![t] = [at |-> a, p |-> q]]
          /\ RoundsOf(t) = IF a \in {"update", "lock"} THEN q ELSE q + 1
          /\ phase # -1
          /\ a = "lock" => q = phase
          /\ a = "work" => q < LastPhase
    <2>1. CASE UpdateTest(t)
      <3>1. /\ thread[t].at = "update" /\ thread[t].p = phase
            /\ thread' = [thread EXCEPT ![t].at = "lock"]
        BY <2>1 DEF UpdateTest, MyPhase
      <3>2. thread' = [thread EXCEPT ![t] = [at |-> "lock", p |-> thread[t].p]]
        BY <1>1, <3>1, AtMoves
      <3>3. phase # -1 /\ RoundsOf(t) = thread[t].p
        BY <1>3, <3>1 DEF RoundsOf
      <3> QED BY <1>3, <3>1, <3>2, <3>3
    <2>2. CASE Enter(t)
      <3>1. /\ thread[t].at = "await"
            /\ thread' = [thread EXCEPT ![t].at = "work"]
        BY <2>2 DEF Enter
      <3>2. thread' = [thread EXCEPT ![t] = [at |-> "work", p |-> thread[t].p]]
        BY <1>1, <3>1, AtMoves
      <3>3. phase # -1 /\ thread[t].p < LastPhase
        BY <1>1, <3>1 DEF InPhase
      <3> QED BY <1>3, <3>1, <3>2, <3>3 DEF RoundsOf
    <2>3. CASE Leave(t)
      <3>1. /\ thread[t].at = "work"
            /\ thread' = [thread EXCEPT
                 ![t] = [at |-> "update", p |-> thread[t].p + 1]]
        BY <2>3 DEF Leave
      <3>2. phase # -1 /\ thread[t].p < LastPhase
        BY <1>1, <3>1 DEF InPhase
      <3>3. thread[t].p + 1 \in 0 .. LastPhase
        BY <1>3, <3>2, Sizes
      <3> QED BY <3>1, <3>2, <3>3 DEF RoundsOf
    <2> QED BY <2>1, <2>2, <2>3
  <1>5. /\ thread' \in [Threads -> ThreadType]
        /\ thread'[t].at = a /\ thread'[t].p = q
        /\ RoundsOf(t)' = RoundsOf(t)
        /\ \A u \in Threads : u # t =>
             thread'[u] = thread[u] /\ RoundsOf(u)' = RoundsOf(u)
    BY <1>1, <1>4, Moves
  <1>6. \A u \in Threads : RoundsOf(u)' = RoundsOf(u)
    BY <1>5
  <1>7. TypeOK'
    BY <1>1, <1>2, <1>5, Types DEF Others, Core
  <1>8. ASSUME NEW u \in Threads
        PROVE  InPhase(u)'
    <2>1. InPhase(u)
      BY DEF IInv
    <2>2. CASE u = t
      BY <1>2, <1>4, <1>5, <2>1, <2>2 DEF InPhase
    <2>3. CASE u # t
      BY <1>2, <1>5, <2>1, <2>3 DEF InPhase
    <2> QED BY <2>2, <2>3
  <1>9. CountRight'
    <2>1. Arrived' = Arrived
      BY <1>2, <1>6 DEF Arrived
    <2>2. \A u \in Threads : thread'[u].at = "notify" => thread[u].at = "notify"
      BY <1>4, <1>5
    <2> QED BY <1>2, <2>1, <2>2 DEF IInv, CountRight
  <1> QED BY <1>6, <1>7, <1>8, <1>9 DEF IInv

(* The IPC thread and the victim move no thread. *)
LEMMA OtherStep ==
  ASSUME IInv, IpcStep \/ VictimStep \/ UNCHANGED vars
  PROVE  IInv' /\ (\A u \in Threads : RoundsOf(u)' = RoundsOf(u))
  <1>1. TypeOK /\ Others /\ Core /\ thread \in [Threads -> ThreadType]
    BY Types DEF IInv
  <1>2. UNCHANGED <<readyNum, lock, thread>>
    BY DEF IpcStep, IpcInit, IpcCheck, IpcNotify, IpcSetPhase, IpcReturn,
           VictimStep, VictimFails, VictimReady, VictimPoll,
           VictimReadsAgain, ctrlVars, vars
  <1>3. \A u \in Threads : RoundsOf(u)' = RoundsOf(u)
    BY <1>2 DEF RoundsOf
  <1>4. Others'
    <2>1. CASE IpcInit \/ IpcCheck \/ IpcSetPhase \/ IpcReturn \/ UNCHANGED vars
      <3>1. UNCHANGED <<word, victim>>
        BY <2>1 DEF IpcInit, IpcCheck, IpcSetPhase, IpcReturn, vars
      <3> QED BY <1>1, <3>1 DEF Others
    <2>2. CASE IpcNotify
      BY <1>1, <2>2, Sizes DEF IpcNotify, Others
    <2>3. CASE VictimReady
      <3>1. [victim EXCEPT !.at = "poll"] \in
              [at : {"start", "absent", "poll", "detached", "failed", "fault"},
               last : {Ready} \cup 0 .. LastPhase, marks : Seq(0 .. LastPhase)]
        BY <1>1 DEF Others
      <3> QED BY <2>3, <3>1 DEF VictimReady, Others
    <2>4. CASE VictimPoll
      <3>1. victim.marks \in Seq(0 .. LastPhase)
        BY <1>1 DEF Others
      <3>2. word \in 0 .. LastPhase =>
              Append(victim.marks, word) \in Seq(0 .. LastPhase)
        BY <3>1
      <3>3. word \in {Ready} \cup 0 .. LastPhase /\ word' = word
        BY <1>1, <2>4 DEF Others, VictimPoll
      <3>4. CASE word \in 0 .. LastPhase
        BY <2>4, <3>2, <3>3, <3>4 DEF VictimPoll, Others
      <3>5. CASE word \notin 0 .. LastPhase
        BY <1>1, <2>4, <3>3, <3>5 DEF VictimPoll, Others
      <3> QED BY <3>4, <3>5
    <2>5. CASE VictimReadsAgain
      BY <1>1, <2>5 DEF VictimReadsAgain, Others
    <2>6. CASE VictimFails
      <3>1. [victim EXCEPT !.at = "absent"] \in
              [at : {"start", "absent", "poll", "detached", "failed", "fault"},
               last : {Ready} \cup 0 .. LastPhase, marks : Seq(0 .. LastPhase)]
        BY <1>1 DEF Others
      <3> QED BY <1>1, <2>6, <3>1 DEF VictimFails, Others
    <2> QED BY <2>1, <2>2, <2>3, <2>4, <2>5, <2>6 DEF IpcStep, VictimStep
  <1>5. CASE IpcSetPhase
    <2>1. phase = -1 /\ readyNum = 0 /\ lock = FALSE /\ phase' = 0
      <3>1. ~ (phase >= 0) /\ phase \in -1 .. 4
        BY <1>5, <1>1, Sizes DEF IpcSetPhase, IInv, CountRight, Core
      <3>2. phase = -1
        BY <3>1
      <3> QED BY <1>1, <1>5, <3>2 DEF IpcSetPhase, IInv, CountRight, Core
    <2>2. \A u \in Threads : thread[u] = [at |-> "update", p |-> 0]
      BY <2>1 DEF IInv, InPhase
    <2>3. \A u \in Threads : RoundsOf(u)' = 0
      BY <1>2, <2>2 DEF RoundsOf
    <2>4. ipc' = "watch"
      BY <1>5 DEF IpcSetPhase
    <2>5. Core'
      BY <1>1, <1>2, <2>1, <2>4, Sizes DEF Core
    <2>6. \A u \in Threads : InPhase(u)'
      BY <1>2, <2>1, <2>2, <2>3 DEF InPhase
    <2>7. CountRight'
      <3>1. Arrived' = {}
        BY <2>1, <2>3 DEF Arrived
      <3> QED BY <1>2, <2>1, <2>2, <2>4, <3>1, FS_EmptySet, Sizes DEF CountRight
    <2> QED BY <1>1, <1>2, <1>3, <1>4, <2>5, <2>6, <2>7, Types DEF IInv
  <1>6. CASE ~ IpcSetPhase
    <2>1. phase' = phase
      BY <1>6 DEF IpcStep, IpcInit, IpcCheck, IpcNotify, IpcReturn,
             VictimStep, VictimFails, VictimReady, VictimPoll,
             VictimReadsAgain, ctrlVars,
             vars
    <2>2. /\ ipc' \in {"init", "check", "notify", "sleep", "watch",
                       "returned", "stuck", "crashed"}
          /\ ipc' \in {"watch", "returned"} <=> ipc \in {"watch", "returned"}
      BY <1>1, <1>6 DEF IpcStep, IpcInit, IpcCheck, IpcNotify, IpcReturn,
             VictimStep, VictimFails, VictimReady, VictimPoll,
             VictimReadsAgain, ctrlVars,
             vars, Core
    <2>3. Core'
      BY <1>1, <1>2, <2>1, <2>2 DEF Core
    <2>4. \A u \in Threads : InPhase(u)'
      BY <1>2, <1>3, <2>1 DEF IInv, InPhase
    <2>5. CountRight'
      <3>1. Arrived' = Arrived
        BY <1>3, <2>1 DEF Arrived
      <3> QED BY <1>2, <2>1, <2>2, <3>1 DEF IInv, CountRight
    <2> QED BY <1>1, <1>2, <1>3, <1>4, <2>3, <2>4, <2>5, Types DEF IInv
  <1> QED BY <1>5, <1>6

LEMMA NextIInv == IInv /\ [Next]_vars => IInv'
  BY CountStep, NotifyStep, PhaseStep, QuietStep, OtherStep
     DEF Next, ThreadStep, Update

LEMMA Invariance == Spec => []IInv
  BY InitIInv, NextIInv, PTL DEF Spec

(* Every variable keeps its type; in particular no more threads are        *)
(* counted than there are.                                                 *)
THEOREM TypeCorrect == Spec => []TypeOK
  <1>1. IInv => TypeOK
    BY DEF IInv
  <1> QED BY <1>1, Invariance, PTL

(* With any number of test threads, none frees its resources for good      *)
(* while another is still in AllocPhase.                                   *)
THEOREM FreeAfterAllocating == Spec => []NoFreeWhileAllocating
  <1>1. IInv => NoFreeWhileAllocating
    <2> SUFFICES ASSUME IInv, NEW t \in Threads, NEW u \in Threads,
                        Working(t, 2)
                 PROVE  RoundsOf(u) >= 2
      BY DEF NoFreeWhileAllocating
    <2>1. RoundsOf(t) = 3
      BY DEF Working, RoundsOf
    <2>2. /\ phase \in -1 .. 4 /\ RoundsOf(u) \in 0 .. 4
          /\ phase # -1
      BY ThreadFacts DEF IInv, InPhase, Working
    <2>3. RoundsOf(t) \in {phase, phase + 1} /\ RoundsOf(u) \in {phase, phase + 1}
      BY <2>2 DEF IInv, InPhase
    <2> QED BY <2>1, <2>2, <2>3
  <1> QED BY <1>1, Invariance, PTL

-----------------------------------------------------------------------------
(* A step of Next keeps every thread's rounds or completes one round of    *)
(* one thread, which is then not ahead of any other.                       *)
LEMMA RoundsStep ==
  ASSUME IInv, [Next]_vars
  PROVE  \/ \A u \in Threads : RoundsOf(u)' = RoundsOf(u)
         \/ \E t \in Threads :
              /\ RoundsOf(t) = phase /\ phase \in 0 .. LastPhase
              /\ RoundsOf(t)' = phase + 1
              /\ \A u \in Threads :
                   u # t => RoundsOf(u)' = RoundsOf(u)
  <1>1. CASE \E t \in Threads : UpdateCount(t) \/ UpdateNotify(t)
    <2>1. PICK t \in Threads : UpdateCount(t) \/ UpdateNotify(t)
      BY <1>1
    <2>2. PICK a \in {"await", "returned", "notify"} :
            /\ thread[t].at = "lock"
            /\ thread' = [thread EXCEPT ![t].at = a]
      BY <2>1 DEF UpdateCount, UpdateNotify, Counted
    <2>3. thread[t].p \in 0 .. LastPhase /\ thread[t].p = phase
      BY <2>2, ThreadFacts, Sizes DEF IInv, InPhase
    <2>4. thread' = [thread EXCEPT ![t] = [at |-> a, p |-> thread[t].p]]
      BY <2>2, AtMoves DEF IInv
    <2>5. /\ RoundsOf(t)' = thread[t].p + 1
          /\ \A u \in Threads : u # t => RoundsOf(u)' = RoundsOf(u)
      BY <2>3, <2>4, Moves DEF IInv
    <2>6. RoundsOf(t) = phase
      BY <2>2, <2>3 DEF RoundsOf
    <2> QED BY <2>3, <2>5, <2>6
  <1>2. CASE \E t \in Threads : UpdatePhase(t)
    <2>1. PICK t \in Threads : UpdatePhase(t)
      BY <1>2
    <2>2. \A u \in Threads : RoundsOf(u)' = phase + 1
      BY <2>1, PhaseStep
    <2>3. \A u \in Threads : RoundsOf(u) = phase + 1
      <3>1. thread[t].at = "notify" /\ InPhase(t) /\ thread[t].p \in 0 .. 3
        BY <2>1, ThreadFacts DEF UpdatePhase, IInv
      <3>2. lock /\ phase >= 0
        BY <3>1 DEF InPhase
      <3>3. readyNum = Cardinality(Threads) /\ readyNum = Cardinality(Arrived)
        BY <3>2 DEF IInv, CountRight
      <3>4. Arrived = Threads
        BY <3>3, ArrivedFacts
      <3> QED BY <3>4 DEF Arrived
    <2> QED BY <2>2, <2>3
  <1> QED BY <1>1, <1>2, QuietStep, OtherStep DEF Next, ThreadStep, Update

(* The phase counter, the count of ready threads and the lock implement    *)
(* Rounds: for any number of threads, none is ever more than one round     *)
(* ahead of another.                                                       *)
THEOREM RoundsImplemented == Spec => ImplementsRounds
  <1> DEFINE r == [t \in Threads |-> RoundsOf(t)]
  <1>1. Init => Barrier!Init
    BY DEF Init, Barrier!Init, RoundsOf
  <1>2. IInv /\ [Next]_vars => [Barrier!Next]_r
    <2> SUFFICES ASSUME IInv, [Next]_vars
                 PROVE  Barrier!Next \/ UNCHANGED r
      OBVIOUS
    <2>1. CASE \A u \in Threads : RoundsOf(u)' = RoundsOf(u)
      BY <2>1
    <2>2. CASE \E t \in Threads :
                 /\ RoundsOf(t) = phase /\ phase \in 0 .. LastPhase
                 /\ RoundsOf(t)' = phase + 1
                 /\ \A u \in Threads :
                      u # t => RoundsOf(u)' = RoundsOf(u)
      <3>1. PICK t \in Threads :
              /\ RoundsOf(t) = phase /\ phase \in 0 .. LastPhase
              /\ RoundsOf(t)' = phase + 1
              /\ \A u \in Threads : u # t => RoundsOf(u)' = RoundsOf(u)
        BY <2>2
      <3>2. r[t] < LastPhase + 1
        BY <3>1, Sizes
      <3>3. \A u \in Threads : r[u] >= r[t]
        <4>1. phase >= 0 /\ phase \in Int
          BY <3>1
        <4> QED BY <3>1, <4>1 DEF IInv, InPhase
      <3>4. r' = [r EXCEPT ![t] = r[t] + 1]
        BY <3>1
      <3> QED BY <3>2, <3>3, <3>4 DEF Barrier!Next, Barrier!Complete
    <2> QED BY <2>1, <2>2, RoundsStep
  <1> QED BY <1>1, <1>2, Invariance, PTL
          DEF Spec, ImplementsRounds, Barrier!Spec

-----------------------------------------------------------------------------
(* The victim's marks: what it has printed, and what it will read next.    *)
Printed ==
  /\ victim.at = "start" => victim.marks = << >> /\ victim.last = Ready
  /\ \A n \in 1 .. Len(victim.marks) :
       /\ victim.marks[n] <= victim.last
       /\ \A t \in Threads :
            victim.marks[n] >= 1 => RoundsOf(t) > victim.marks[n]
  /\ \A m, n \in 1 .. Len(victim.marks) :
       m < n => victim.marks[m] < victim.marks[n]

Readable ==
  victim.at = "poll" =>
    /\ victim.last <= word
    /\ word >= 1 => word <= phase /\ \A t \in Threads : RoundsOf(t) > word
    /\ ipc \in {"init", "check", "notify"} => word = Ready

MarksInv == IInv /\ Printed /\ Readable

LEMMA VictimFacts ==
  ASSUME IInv
  PROVE  /\ victim.marks \in Seq(0 .. 3) /\ Len(victim.marks) \in Nat
         /\ \A n \in 1 .. Len(victim.marks) : victim.marks[n] \in 0 .. 3
         /\ victim.last \in -1 .. 3 /\ word \in -1 .. 3 /\ phase \in -1 .. 4
         /\ \A t \in Threads : RoundsOf(t) \in 0 .. 4
  <1>1. Others /\ TypeOK
    BY Types DEF IInv
  <1>2. /\ victim.marks \in Seq(0 .. 3) /\ victim.last \in {-1} \cup 0 .. 3
        /\ word \in {-1} \cup 0 .. 3
    BY <1>1, Sizes DEF Others
  <1>3. phase \in -1 .. 4
    BY <1>1, Sizes DEF TypeOK
  <1>4. /\ Len(victim.marks) \in Nat
        /\ \A n \in 1 .. Len(victim.marks) : victim.marks[n] \in 0 .. 3
    BY <1>2
  <1> QED BY <1>1, <1>2, <1>3, <1>4, ThreadFacts

LEMMA RoundsGrow ==
  ASSUME IInv, [Next]_vars, NEW u \in Threads
  PROVE  RoundsOf(u)' >= RoundsOf(u)
  <1>1. RoundsOf(u) \in 0 .. 4
    BY ThreadFacts DEF IInv
  <1> QED BY <1>1, RoundsStep

(* What was printed stays true, and what is in the word unless it is       *)
(* written.                                                                *)
LEMMA StillTrue ==
  ASSUME MarksInv, [Next]_vars, victim' = victim
  PROVE  Printed'
  <1>1. \A n \in 1 .. Len(victim.marks), t \in Threads :
          victim.marks[n] >= 1 => RoundsOf(t)' > victim.marks[n]
    <2> SUFFICES ASSUME NEW n \in 1 .. Len(victim.marks), NEW t \in Threads,
                        victim.marks[n] >= 1
                 PROVE  RoundsOf(t)' > victim.marks[n]
      OBVIOUS
    <2>1. RoundsOf(t) > victim.marks[n] /\ RoundsOf(t)' >= RoundsOf(t)
      BY RoundsGrow DEF MarksInv, Printed
    <2>2. RoundsOf(t) \in 0 .. 4 /\ victim.marks[n] \in 0 .. 3
      BY VictimFacts DEF MarksInv
    <2>3. RoundsOf(t)' \in 0 .. 4
      <3>1. TypeOK'
        BY NextIInv DEF MarksInv, IInv
      <3>2. thread'[t].p \in 0 .. 3
        BY <3>1, Sizes DEF TypeOK
      <3> QED BY <3>2 DEF RoundsOf
    <2> QED BY <2>1, <2>2, <2>3
  <1> QED BY <1>1 DEF MarksInv, Printed

LEMMA StillReadable ==
  ASSUME MarksInv, [Next]_vars, victim' = victim, word' = word,
         ipc' \in {"init", "check", "notify"} =>
           ipc \in {"init", "check", "notify"}
  PROVE  Readable'
  <1> SUFFICES ASSUME victim.at = "poll"
               PROVE  /\ victim.last <= word
                      /\ word >= 1 =>
                           /\ word <= phase'
                           /\ \A t \in Threads : RoundsOf(t)' > word
                      /\ ipc' \in {"init", "check", "notify"} => word = Ready
    BY DEF Readable
  <1>1. /\ victim.last <= word
        /\ word >= 1 => word <= phase /\ \A t \in Threads : RoundsOf(t) > word
        /\ ipc \in {"init", "check", "notify"} => word = Ready
    BY DEF MarksInv, Readable
  <1>2. word >= 1 => word <= phase'
    <2>1. phase' = phase \/ phase' = phase + 1 \/ (phase' = 0 /\ phase = -1)
      <3>1. CASE IpcSetPhase
        <4>1. ipc = "sleep" /\ phase' = 0
          BY <3>1 DEF IpcSetPhase
        <4>2. ~ (phase >= 0)
          BY <4>1 DEF MarksInv, IInv, CountRight
        <4>3. phase \in -1 .. 4
          BY VictimFacts DEF MarksInv
        <4>4. phase = -1
          BY <4>2, <4>3
        <4> QED BY <4>1, <4>4
      <3>2. CASE ~ IpcSetPhase
        BY <3>2 DEF Next, IpcStep, IpcInit, IpcCheck, IpcNotify, IpcReturn,
               ThreadStep, Update, UpdateTest, UpdateCount, UpdateNotify,
               UpdatePhase, Enter, Leave, VictimStep, VictimFails, VictimReady,
               VictimPoll, VictimReadsAgain, ctrlVars, vars
      <3> QED BY <3>1, <3>2
    <2>2. word \in -1 .. 3 /\ phase \in -1 .. 4
      BY VictimFacts DEF MarksInv
    <2> QED BY <1>1, <2>1, <2>2
  <1>3. ASSUME word >= 1, NEW t \in Threads
        PROVE  RoundsOf(t)' > word
    <2>1. RoundsOf(t) > word /\ RoundsOf(t)' >= RoundsOf(t)
      BY <1>1, <1>3, RoundsGrow DEF MarksInv
    <2>2. RoundsOf(t) \in 0 .. 4 /\ word \in -1 .. 3
      BY VictimFacts DEF MarksInv
    <2>3. RoundsOf(t)' \in 0 .. 4
      <3>1. TypeOK'
        BY NextIInv DEF MarksInv, IInv
      <3>2. thread'[t].p \in 0 .. 3
        BY <3>1, Sizes DEF TypeOK
      <3> QED BY <3>2 DEF RoundsOf
    <2> QED BY <2>1, <2>2, <2>3
  <1> QED BY <1>1, <1>2, <1>3

(* The last thread writes the phase that has ended for everybody. *)
LEMMA NotifyReadable ==
  ASSUME MarksInv, NEW t \in Threads, UpdateNotify(t)
  PROVE  Readable'
  <1>1. /\ word' = phase /\ UNCHANGED <<phase, victim, ipc>>
        /\ thread[t].at = "lock" /\ readyNum + 1 = Cardinality(Threads)
        /\ lock' = TRUE
    BY DEF UpdateNotify, AllReady, EndedPhase
  <1>2. phase \in -1 .. 4 /\ phase >= 0
    <2>1. thread[t].p \in 0 .. 3 /\ thread[t].p = phase
      BY <1>1, ThreadFacts DEF MarksInv, IInv, InPhase
    <2> QED BY <2>1
  <1>3. \A u \in Threads : RoundsOf(u)' = phase + 1
    <2>1. IInv'
      BY NotifyStep DEF MarksInv
    <2>2. Cardinality(Arrived') = Cardinality(Threads)
      BY <1>1, <1>2, <2>1 DEF IInv, CountRight
    <2>3. Arrived' = Threads
      <3>1. Arrived' \in SUBSET Threads
        BY DEF Arrived
      <3> QED BY <2>2, <3>1, CtrlAssumption, FS_Subset
    <2> QED BY <1>1, <2>3 DEF Arrived
  <1>4. ipc \notin {"init", "check", "notify"}
    BY <1>2 DEF MarksInv, IInv, CountRight
  <1>5. victim.at = "poll" => victim.last <= phase
    <2>1. victim.at = "poll" =>
            victim.last <= word /\ (word >= 1 => word <= phase)
      BY DEF MarksInv, Readable
    <2>2. victim.last \in -1 .. 3 /\ word \in -1 .. 3
      BY VictimFacts DEF MarksInv
    <2> QED BY <1>2, <2>1, <2>2
  <1>6. \A u \in Threads : RoundsOf(u)' > phase
    BY <1>2, <1>3
  <1> QED BY <1>1, <1>2, <1>4, <1>5, <1>6 DEF Readable

(* The victim prints what it reads. *)
LEMMA PollPrints ==
  ASSUME MarksInv, VictimPoll
  PROVE  Printed' /\ Readable'
  <1>1. /\ victim.at = "poll" /\ word # victim.last
        /\ UNCHANGED <<word, ctrlVars>>
    BY DEF VictimPoll
  <1>2. \A u \in Threads : RoundsOf(u)' = RoundsOf(u)
    BY <1>1 DEF ctrlVars, RoundsOf
  <1>3. /\ victim.last < word
        /\ word >= 1 => word <= phase /\ \A t \in Threads : RoundsOf(t) > word
        /\ ipc \in {"init", "check", "notify"} => word = Ready
    <2>1. victim.last \in -1 .. 3 /\ word \in -1 .. 3
      BY VictimFacts DEF MarksInv
    <2> QED BY <1>1, <2>1 DEF MarksInv, Readable
  <1>4. word \in 0 .. 3
    <2>1. victim.last \in -1 .. 3 /\ word \in -1 .. 3
      BY VictimFacts DEF MarksInv
    <2> QED BY <1>3, <2>1
  <1>5. /\ victim'.at \in {"detached", "poll"} /\ victim'.last = word
        /\ victim'.marks = Append(victim.marks, word)
    BY <1>4, Sizes DEF VictimPoll
  <1> DEFINE k == Len(victim.marks)
  <1>6. /\ k \in Nat /\ Len(victim'.marks) = k + 1
        /\ victim'.marks[k + 1] = word
        /\ \A n \in 1 .. k : victim'.marks[n] = victim.marks[n]
        /\ \A n \in 1 .. k : victim.marks[n] \in 0 .. 3
    BY <1>4, <1>5, VictimFacts DEF MarksInv
  <1>7. \A n \in 1 .. k :
          /\ victim.marks[n] < word
          /\ \A t \in Threads :
               victim.marks[n] >= 1 => RoundsOf(t)' > victim.marks[n]
    <2>1. \A n \in 1 .. k : victim.marks[n] <= victim.last
      BY DEF MarksInv, Printed
    <2>2. victim.last \in -1 .. 3
      BY VictimFacts DEF MarksInv
    <2>3. \A n \in 1 .. k : victim.marks[n] < word
      BY <1>3, <1>4, <1>6, <2>1, <2>2
    <2> QED BY <1>2, <2>3 DEF MarksInv, Printed
  <1> HIDE DEF k
  <1>8. Printed'
    <2>1. ASSUME NEW n \in 1 .. (k + 1)
          PROVE  /\ victim'.marks[n] <= word
                 /\ \A t \in Threads :
                      victim'.marks[n] >= 1 => RoundsOf(t)' > victim'.marks[n]
      <3>1. CASE n = k + 1
        BY <1>2, <1>3, <1>4, <1>6, <3>1
      <3>2. CASE n \in 1 .. k
        BY <1>4, <1>6, <1>7, <3>2
      <3> QED BY <1>6, <3>1, <3>2
    <2>2. ASSUME NEW m \in 1 .. (k + 1), NEW n \in 1 .. (k + 1), m < n
          PROVE  victim'.marks[m] < victim'.marks[n]
      <3>1. m \in 1 .. k
        BY <1>6, <2>2
      <3>2. CASE n = k + 1
        BY <1>6, <1>7, <3>1, <3>2
      <3>3. CASE n \in 1 .. k
        <4>1. k = Len(victim.marks)
          BY DEF k
        <4> QED BY <1>6, <2>2, <3>1, <3>3, <4>1 DEF MarksInv, Printed
      <3> QED BY <1>6, <3>2, <3>3
    <2> QED BY <1>5, <1>6, <2>1, <2>2 DEF Printed
  <1>9. Readable'
    <2>1. word <= word
      BY <1>4
    <2> QED BY <1>1, <1>2, <1>3, <1>5, <2>1 DEF Readable, ctrlVars
  <1> QED BY <1>8, <1>9

LEMMA NextMarks == MarksInv /\ [Next]_vars => MarksInv'
  <1> SUFFICES ASSUME MarksInv, [Next]_vars
               PROVE  Printed' /\ Readable'
    BY NextIInv DEF MarksInv
  <1>1. CASE \E t \in Threads : UpdateNotify(t)
    <2>1. PICK t \in Threads : UpdateNotify(t)
      BY <1>1
    <2>2. victim' = victim
      BY <2>1 DEF UpdateNotify
    <2> QED BY <2>1, <2>2, NotifyReadable, StillTrue
  <1>2. CASE IpcNotify
    <2>1. /\ ipc = "notify" /\ ipc' = "sleep" /\ word' = 0 /\ victim' = victim
      BY <1>2, Sizes DEF IpcNotify
    <2>2. victim.at = "poll" => victim.last <= 0
      <3>1. victim.at = "poll" => victim.last <= word /\ word = -1
        BY <2>1, Sizes DEF MarksInv, Readable
      <3>2. victim.last \in -1 .. 3
        BY VictimFacts DEF MarksInv
      <3> QED BY <3>1, <3>2
    <2>3. Readable'
      BY <2>1, <2>2 DEF Readable
    <2> QED BY <2>1, <2>3, StillTrue
  <1>3. CASE VictimReady
    <2>1. /\ victim.at = "start" /\ word' = -1
          /\ victim' = [victim EXCEPT !.at = "poll"]
          /\ UNCHANGED ctrlVars
      BY <1>3, Sizes DEF VictimReady
    <2>2. victim.marks = << >> /\ victim.last = -1
      BY <2>1, Sizes DEF MarksInv, Printed
    <2>3. victim \in [at : {"start", "absent", "poll", "detached", "failed",
                            "fault"},
                      last : {Ready} \cup 0 .. LastPhase,
                      marks : Seq(0 .. LastPhase)]
      BY DEF MarksInv, IInv, TypeOK
    <2>4. victim'.at = "poll" /\ victim'.marks = << >> /\ victim'.last = -1
      BY <2>1, <2>2, <2>3
    <2>5. Printed'
      BY <2>4, Sizes DEF Printed
    <2>6. Readable'
      BY <2>1, <2>4, Sizes DEF Readable
    <2> QED BY <2>5, <2>6
  <1>4. CASE VictimPoll
    BY <1>4, PollPrints
  <1>5. CASE VictimReadsAgain
    <2>1. victim \in [at : {"start", "absent", "poll", "detached", "failed",
                            "fault"},
                      last : {Ready} \cup 0 .. LastPhase,
                      marks : Seq(0 .. LastPhase)]
      BY DEF MarksInv, IInv, TypeOK
    <2>2. /\ victim'.at = "fault" /\ victim'.marks = victim.marks
          /\ victim'.last = victim.last
      BY <1>5, <2>1 DEF VictimReadsAgain
    <2>3. \A u \in Threads : RoundsOf(u)' = RoundsOf(u)
      BY <1>5 DEF VictimReadsAgain, ctrlVars, RoundsOf
    <2> QED BY <2>2, <2>3 DEF MarksInv, Printed, Readable
  <1>6. CASE VictimFails
    <2>1. victim \in [at : {"start", "absent", "poll", "detached", "failed",
                            "fault"},
                      last : {Ready} \cup 0 .. LastPhase,
                      marks : Seq(0 .. LastPhase)]
      BY DEF MarksInv, IInv, TypeOK
    <2>2. /\ victim'.at = "absent" /\ victim'.marks = victim.marks
          /\ victim'.last = victim.last
      BY <1>6, <2>1 DEF VictimFails
    <2>3. \A u \in Threads : RoundsOf(u)' = RoundsOf(u)
      BY <1>6 DEF VictimFails, ctrlVars, RoundsOf
    <2> QED BY <2>2, <2>3 DEF MarksInv, Printed, Readable
  <1>7. CASE \/ IpcInit \/ IpcCheck \/ IpcSetPhase \/ IpcReturn
             \/ UNCHANGED vars
             \/ \E t \in Threads : \/ UpdateTest(t) \/ UpdateCount(t)
                                   \/ UpdatePhase(t) \/ Enter(t) \/ Leave(t)
    <2>1. UNCHANGED <<word, victim>>
      BY <1>7 DEF IpcInit, IpcCheck, IpcSetPhase, IpcReturn, vars, UpdateTest,
                  UpdateCount, UpdatePhase, Enter, Leave
    <2>2. ipc' \in {"init", "check", "notify"} =>
            ipc \in {"init", "check", "notify"}
      BY <1>7 DEF IpcInit, IpcCheck, IpcSetPhase, IpcReturn, vars, ctrlVars,
                  UpdateTest, UpdateCount, UpdatePhase, Enter, Leave
    <2> QED BY <2>1, <2>2, StillTrue, StillReadable
  <1> QED BY <1>1, <1>2, <1>3, <1>4, <1>5, <1>6, <1>7
          DEF Next, IpcStep, ThreadStep, Update, VictimStep

(* The victim's marks are true and in order, for any number of threads,    *)
(* whenever the victim starts and however late it polls.                   *)
THEOREM TrueMarks == Spec => []MarksTrue
  <1>1. Init => MarksInv
    <2>1. Init => Printed /\ Readable
      BY DEF Init, Printed, Readable
    <2> QED BY <2>1, InitIInv DEF MarksInv
  <1>2. MarksInv => MarksTrue
    <2> SUFFICES ASSUME MarksInv PROVE MarksTrue
      OBVIOUS
    <2>1. DOMAIN victim.marks = 1 .. Len(victim.marks)
      BY VictimFacts DEF MarksInv
    <2> QED BY <2>1 DEF MarksInv, Printed, MarksTrue
  <1> QED BY <1>1, <1>2, NextMarks, PTL DEF Spec

-----------------------------------------------------------------------------
(* The marks are counted: the victim has printed every number up to the    *)
(* last it read, and it was there before the test was let go.              *)
Counting ==
  /\ victim.at \in {"start", "absent"} =>
       ipc \in {"init", "check", "stuck"} /\ word # Ready /\ victim.last = Ready
  /\ Len(victim.marks) = victim.last + 1
  /\ \A n \in 1 .. Len(victim.marks) : victim.marks[n] = n - 1

(* A victim that polls in time is at most one mark behind the word, and    *)
(* not even that once the phase that the word announced has begun.         *)
InTime ==
  victim.at = "poll" =>
    /\ phase = -1 =>
         IF ipc = "sleep" THEN word = Start /\ victim.last \in {Ready, Start}
         ELSE word = Ready /\ victim.last = Ready
    /\ phase >= 0 /\ lock => word = phase /\ victim.last \in {phase - 1, phase}
    /\ phase >= 0 /\ ~ lock =>
         /\ victim.last = word
         /\ word = IF phase = 0 THEN 0 ELSE phase - 1

CountInv == IInv /\ Counting /\ InTime

(* A step that leaves the victim and the word alone. *)
LEMMA StillCounted ==
  ASSUME Counting, victim' = victim, word' = word,
         \/ ipc' \in {"init", "check", "stuck"}
         \/ victim.at \notin {"start", "absent"}
  PROVE  Counting'
  BY DEF Counting

LEMMA IpcCounts ==
  ASSUME Notify, Punctual, Stale # Ready, CountInv, IpcStep
  PROVE  Counting' /\ InTime'
  <1>1. phase = -1 <=> ipc \notin {"watch", "returned"}
    <2>1. phase \in -1 .. 4
      BY VictimFacts DEF CountInv
    <2>2. ipc \in {"watch", "returned"} <=> phase >= 0
      BY DEF CountInv, IInv, CountRight
    <2> QED BY <2>1, <2>2
  <1>2. CASE IpcInit
    <2>1. /\ ipc = "init" /\ ipc' \in {"check", "stuck"}
          /\ UNCHANGED <<word, phase, lock, victim>>
      BY <1>2 DEF IpcInit
    <2>2. Counting'
      BY <2>1, StillCounted DEF CountInv
    <2> QED BY <1>1, <2>1, <2>2 DEF CountInv, InTime
  <1>3. CASE IpcCheck
    <2>1. /\ ipc = "check" /\ ipc' = "notify" /\ word = Ready
          /\ UNCHANGED <<word, phase, lock, victim>>
      BY <1>3 DEF IpcCheck, CheckShm
    <2>2. victim.at \notin {"start", "absent"}
      BY <2>1 DEF CountInv, Counting
    <2>3. Counting'
      BY <2>1, <2>2, StillCounted DEF CountInv
    <2> QED BY <1>1, <2>1, <2>3 DEF CountInv, InTime
  <1>4. CASE IpcNotify
    <2>1. /\ ipc = "notify" /\ ipc' = "sleep" /\ word' = Start
          /\ UNCHANGED <<phase, lock, victim>>
      BY <1>4 DEF IpcNotify
    <2>2. Counting'
      BY <2>1 DEF CountInv, Counting
    <2>3. phase = -1
      BY <1>1, <2>1
    <2>4. victim.at = "poll" => victim.last = Ready
      BY <2>1, <2>3 DEF CountInv, InTime
    <2> QED BY <2>1, <2>2, <2>3, <2>4 DEF InTime
  <1>5. CASE IpcSetPhase
    <2>1. /\ ipc = "sleep" /\ ipc' = "watch" /\ phase' = 0
          /\ victim.at = "poll" => victim.last = word
          /\ UNCHANGED <<word, lock, victim>>
      BY <1>5 DEF IpcSetPhase, Noticed
    <2>2. Counting'
      BY <2>1 DEF CountInv, Counting
    <2>3. phase = -1 /\ ~ lock
      BY <1>1, <2>1 DEF CountInv, IInv, CountRight
    <2>4. victim.at = "poll" => word = 0
      BY <2>1, <2>3, Sizes DEF CountInv, InTime
    <2> QED BY <2>1, <2>2, <2>3, <2>4 DEF InTime
  <1>6. CASE IpcReturn
    <2>1. /\ ipc = "watch" /\ ipc' = "returned"
          /\ UNCHANGED <<word, phase, lock, victim>>
      BY <1>6 DEF IpcReturn
    <2>2. Counting'
      BY <2>1 DEF CountInv, Counting
    <2> QED BY <1>1, <2>1, <2>2 DEF CountInv, InTime
  <1> QED BY <1>2, <1>3, <1>4, <1>5, <1>6 DEF IpcStep

LEMMA ThreadCounts ==
  ASSUME Notify, Punctual, CountInv, NEW t \in Threads, ThreadStep(t)
  PROVE  Counting' /\ InTime'
  <1>1. UNCHANGED <<ipc, victim>>
    BY DEF ThreadStep, Update, UpdateTest, UpdateCount, UpdateNotify,
           UpdatePhase, Enter, Leave
  <1>2. phase \in -1 .. 4 /\ thread[t].p \in 0 .. 3 /\ InPhase(t)
    BY VictimFacts, ThreadFacts DEF CountInv, IInv
  <1>3. Counting /\ InTime
    BY DEF CountInv
  <1>4. CASE UpdateTest(t) \/ UpdateCount(t) \/ Enter(t) \/ Leave(t)
    <2>1. UNCHANGED <<word, phase, lock>>
      BY <1>4 DEF UpdateTest, UpdateCount, Enter, Leave
    <2> QED BY <1>1, <1>3, <2>1 DEF Counting, InTime
  <1>5. CASE UpdateNotify(t)
    <2>1. /\ thread[t].at = "lock" /\ ~ lock /\ lock' = TRUE /\ word' = phase
          /\ phase' = phase
      BY <1>5 DEF UpdateNotify, EndedPhase
    <2>2. phase >= 0 /\ phase \in Int /\ thread[t].p = phase
      BY <1>2, <2>1 DEF InPhase
    <2>3. victim.at \notin {"start", "absent"}
      <3>1. ipc \in {"watch", "returned"}
        BY <2>2 DEF CountInv, IInv, CountRight
      <3> QED BY <1>3, <3>1 DEF Counting
    <2>4. Counting'
      BY <1>1, <1>3, <2>3 DEF Counting
    <2>5. victim.at = "poll" => victim.last \in {phase - 1, phase}
      BY <1>3, <2>1, <2>2 DEF InTime
    <2> QED BY <1>1, <2>1, <2>2, <2>4, <2>5 DEF InTime
  <1>6. CASE UpdatePhase(t)
    <2>1. /\ thread[t].at = "notify" /\ lock' = FALSE /\ phase' = phase + 1
          /\ word' = word
          /\ victim.at = "poll" => victim.last = word
      BY <1>6 DEF UpdatePhase, Noticed
    <2>2. phase >= 0 /\ phase \in Int /\ lock
      BY <1>2, <2>1 DEF InPhase
    <2>3. Counting'
      BY <1>1, <1>3, <2>1 DEF Counting
    <2>4. victim.at = "poll" => word = phase
      BY <1>3, <2>2 DEF InTime
    <2> QED BY <1>1, <2>1, <2>2, <2>3, <2>4 DEF InTime
  <1> QED BY <1>4, <1>5, <1>6 DEF ThreadStep, Update

(* The victim reads the next number, never one further. *)
LEMMA PollCounts ==
  ASSUME CountInv, VictimPoll
  PROVE  Counting' /\ InTime'
  <1>1. /\ victim.at = "poll" /\ word # victim.last
        /\ UNCHANGED <<word, ctrlVars>>
    BY DEF VictimPoll
  <1>2. /\ phase \in -1 .. 4 /\ word \in -1 .. 3 /\ victim.last \in -1 .. 3
        /\ lock \in BOOLEAN
    BY VictimFacts DEF CountInv, IInv, TypeOK
  <1>3. word = victim.last + 1 /\ word \in 0 .. 3
    <2>1. CASE phase = -1
      BY <1>1, <1>2, <2>1, Sizes DEF CountInv, InTime
    <2>2. CASE phase >= 0
      <3>1. lock
        BY <1>1, <2>2 DEF CountInv, InTime
      <3> QED BY <1>1, <1>2, <2>2, <3>1 DEF CountInv, InTime
    <2> QED BY <1>2, <2>1, <2>2
  <1>4. /\ victim'.at \in {"detached", "poll"} /\ victim'.last = word
        /\ victim'.marks = Append(victim.marks, word)
    BY <1>3, Sizes DEF VictimPoll
  <1> DEFINE k == Len(victim.marks)
  <1>5. /\ k \in Nat /\ Len(victim'.marks) = k + 1
        /\ victim'.marks[k + 1] = word
        /\ \A n \in 1 .. k : victim'.marks[n] = victim.marks[n]
    BY <1>3, <1>4, VictimFacts DEF CountInv
  <1>6. k = word /\ (\A n \in 1 .. k : victim.marks[n] = n - 1)
    BY <1>3 DEF CountInv, Counting
  <1> HIDE DEF k
  <1>7. \A n \in 1 .. (k + 1) : victim'.marks[n] = n - 1
    <2> TAKE n \in 1 .. (k + 1)
    <2>1. CASE n = k + 1
      BY <1>5, <1>6, <2>1
    <2>2. CASE n \in 1 .. k
      BY <1>5, <1>6, <2>2
    <2> QED BY <1>5, <2>1, <2>2
  <1>8. Counting'
    BY <1>4, <1>5, <1>6, <1>7 DEF Counting
  <1>9. InTime'
    <2>1. UNCHANGED <<phase, lock, ipc, word>>
      BY <1>1 DEF ctrlVars
    <2>2. phase = -1 => ipc = "sleep" /\ word = Start
      BY <1>1 DEF CountInv, InTime
    <2>3. phase >= 0 => lock /\ word = phase
      BY <1>1 DEF CountInv, InTime
    <2> QED BY <1>2, <1>4, <2>1, <2>2, <2>3 DEF InTime
  <1> QED BY <1>8, <1>9

LEMMA VictimCounts ==
  ASSUME CountInv, VictimStep
  PROVE  Counting' /\ InTime'
  <1>1. victim \in [at : {"start", "absent", "poll", "detached", "failed",
                          "fault"},
                    last : {Ready} \cup 0 .. LastPhase,
                    marks : Seq(0 .. LastPhase)]
    BY DEF CountInv, IInv, TypeOK
  <1>2. CASE VictimReady
    <2>1. /\ victim.at = "start" /\ word' = Ready
          /\ victim'.at = "poll" /\ victim'.last = victim.last
          /\ victim'.marks = victim.marks
          /\ UNCHANGED ctrlVars
      BY <1>1, <1>2 DEF VictimReady
    <2>2. ipc \in {"init", "check", "stuck"} /\ victim.last = Ready
      BY <2>1 DEF CountInv, Counting
    <2>3. Counting'
      BY <2>1 DEF CountInv, Counting
    <2>4. phase = -1
      <3>1. phase \in -1 .. 4 /\ ~ (phase >= 0)
        BY <2>2, VictimFacts DEF CountInv, IInv, CountRight
      <3> QED BY <3>1
    <2> QED BY <2>1, <2>2, <2>3, <2>4 DEF InTime, ctrlVars
  <1>3. CASE VictimPoll
    BY <1>3, PollCounts
  <1>4. CASE VictimReadsAgain
    <2>1. /\ victim'.at = "fault" /\ victim'.last = victim.last
          /\ victim'.marks = victim.marks
      BY <1>1, <1>4 DEF VictimReadsAgain
    <2> QED BY <2>1 DEF CountInv, Counting, InTime
  <1>5. CASE VictimFails
    <2>1. /\ victim.at = "start" /\ victim'.at = "absent"
          /\ victim'.last = victim.last /\ victim'.marks = victim.marks
          /\ UNCHANGED <<word, ipc>>
      BY <1>1, <1>5 DEF VictimFails, ctrlVars
    <2> QED BY <2>1 DEF CountInv, Counting, InTime
  <1> QED BY <1>2, <1>3, <1>4, <1>5 DEF VictimStep

(* With --notify, with a victim that polls within the second NotifyVictim  *)
(* sleeps, and with a shared word that does not still say ready from an    *)
(* earlier run, the victim misses no mark, for any number of threads.      *)
THEOREM CompleteMarks ==
  ASSUME Notify, Punctual, Stale # Ready
  PROVE  Spec => []MarksComplete
  <1>1. Init => CountInv
    <2>1. Init => Counting /\ InTime
      BY Sizes DEF Init, Counting, InTime
    <2> QED BY <2>1, InitIInv DEF CountInv
  <1>2. CountInv /\ [Next]_vars => CountInv'
    <2> SUFFICES ASSUME CountInv, [Next]_vars
                 PROVE  Counting' /\ InTime'
      BY NextIInv DEF CountInv
    <2>1. CASE UNCHANGED vars
      BY <2>1 DEF CountInv, Counting, InTime, vars, ctrlVars
    <2> QED BY <2>1, IpcCounts, ThreadCounts, VictimCounts DEF Next
  <1>3. CountInv => MarksComplete
    <2> SUFFICES ASSUME CountInv PROVE MarksComplete
      OBVIOUS
    <2>1. DOMAIN victim.marks = 1 .. Len(victim.marks)
      BY VictimFacts DEF CountInv
    <2> QED BY <2>1 DEF CountInv, Counting, MarksComplete
  <1> QED BY <1>1, <1>2, <1>3, PTL DEF Spec


-----------------------------------------------------------------------------
(* Nobody waits on everybody. *)

(* The lock has a holder, and a thread returns after its last phase only.  *)
Held ==
  /\ lock => \E t \in Threads : thread[t].at = "notify"
  /\ \A t \in Threads : thread[t].at = "returned" => thread[t].p = LastPhase

(* The guards of the steps of a thread. *)
CanStep(t) ==
  \/ thread[t].at = "update" /\ MyPhase(t)
  \/ thread[t].at = "lock" /\ ~ lock
  \/ thread[t].at = "notify" /\ Noticed
  \/ thread[t].at = "await" /\ phase >= thread[t].p
  \/ thread[t].at = "work"

(* Once the phases have begun, and until every thread has returned, some   *)
(* thread has a step, or the one with the lock sleeps for a victim that    *)
(* has yet to read the word.                                               *)
NeverStuck ==
  phase >= 0 =>
    \/ \A t \in Threads : thread[t].at = "returned"
    \/ \E t \in Threads : CanStep(t)
    \/ victim.at = "poll" /\ word # victim.last

LEMMA ThreadHeld ==
  ASSUME IInv, Held, NEW t \in Threads, ThreadStep(t)
  PROVE  Held'
  <1>1. /\ thread \in [Threads -> ThreadType] /\ thread[t] \in ThreadType
        /\ thread[t].at \in {"update", "lock", "notify", "await", "work",
                             "returned"}
    BY ThreadFacts DEF IInv
  <1>2. \A u \in Threads : u # t => thread'[u] = thread[u]
    BY <1>1 DEF ThreadStep, Update, UpdateTest, UpdateCount, UpdateNotify,
                UpdatePhase, Enter, Leave
  <1>3. thread'[t].at = "returned" => thread'[t].p = LastPhase
    <2>1. CASE UpdateCount(t) \/ UpdatePhase(t)
      <3>1. thread' = [thread EXCEPT ![t].at = Counted(t)]
        BY <2>1 DEF UpdateCount, UpdatePhase
      <3>2. thread'[t].at = Counted(t) /\ thread'[t].p = thread[t].p
        BY <1>1, <3>1 DEF ThreadType
      <3> QED BY <3>2 DEF Counted
    <2>2. CASE UpdateTest(t) \/ UpdateNotify(t) \/ Enter(t) \/ Leave(t)
      <3>1. thread'[t].at \in {"lock", "notify", "work", "update"}
        BY <1>1, <2>2 DEF UpdateTest, UpdateNotify, Enter, Leave, ThreadType
      <3> QED BY <3>1
    <2> QED BY <2>1, <2>2 DEF ThreadStep, Update
  <1>4. lock' => \E u \in Threads : thread'[u].at = "notify"
    <2>1. CASE UpdateNotify(t)
      <3>1. thread'[t].at = "notify"
        BY <1>1, <2>1 DEF UpdateNotify, ThreadType
      <3> QED BY <3>1
    <2>2. CASE UpdatePhase(t)
      BY <2>2 DEF UpdatePhase
    <2>3. CASE UpdateTest(t) \/ UpdateCount(t) \/ Enter(t) \/ Leave(t)
      <3>1. lock' = lock /\ thread[t].at # "notify"
        BY <2>3 DEF UpdateTest, UpdateCount, Enter, Leave
      <3> QED BY <1>2, <3>1 DEF Held
    <2> QED BY <2>1, <2>2, <2>3 DEF ThreadStep, Update
  <1>5. \A u \in Threads :
          thread'[u].at = "returned" => thread'[u].p = LastPhase
    BY <1>2, <1>3 DEF Held
  <1> QED BY <1>4, <1>5 DEF Held

LEMMA StuckNowhere == IInv /\ Held => NeverStuck
  <1> SUFFICES ASSUME IInv, Held, phase >= 0,
                      NEW r \in Threads, thread[r].at # "returned",
                      ~ (victim.at = "poll" /\ word # victim.last)
               PROVE  \E t \in Threads : CanStep(t)
    BY DEF NeverStuck
  <1>1. CASE lock
    <2>1. PICK t \in Threads : thread[t].at = "notify"
      BY <1>1 DEF Held
    <2> QED BY <2>1 DEF CanStep, Noticed
  <1>2. CASE ~ lock
    <2>1. PICK t \in Threads : t \notin Arrived
      <3>1. /\ readyNum = Cardinality(Arrived)
            /\ readyNum < Cardinality(Threads)
            /\ readyNum \in Int
        BY <1>2, ArrivedFacts DEF IInv, CountRight
      <3> QED BY <3>1, ArrivedFacts, Sizes
    <2>2. /\ RoundsOf(t) = phase /\ InPhase(t) /\ phase \in 0 .. 4
          /\ thread[t].p \in 0 .. 3
          /\ thread[t].at \in {"update", "lock", "notify", "await", "work",
                               "returned"}
      BY <2>1, ThreadFacts DEF IInv, InPhase, Arrived
    <2>3. thread[t].at # "returned"
      <3> SUFFICES ASSUME thread[t].at = "returned" PROVE FALSE
        OBVIOUS
      <3>1. phase = 4
        BY <2>2, Sizes DEF Held, RoundsOf
      <3>2. /\ InPhase(r) /\ thread[r].p \in 0 .. 3
            /\ thread[r].at \in {"update", "lock", "notify", "await", "work",
                                 "returned"}
        BY ThreadFacts DEF IInv
      <3>3. RoundsOf(r) \in {4, 5} /\ ~ (thread[r].at = "notify")
        BY <1>2, <3>1, <3>2 DEF InPhase
      <3>4. thread[r].at \in {"await", "work"} => thread[r].p < 3
        BY <3>2, Sizes DEF InPhase
      <3> QED BY <3>2, <3>3, <3>4 DEF RoundsOf
    <2>4. thread[t].at # "notify"
      BY <1>2, <2>2 DEF InPhase
    <2>5. CASE thread[t].at = "await"
      <3>1. phase >= thread[t].p
        BY <2>2, <2>5 DEF RoundsOf
      <3> QED BY <2>5, <3>1 DEF CanStep
    <2>6. CASE thread[t].at = "update"
      BY <2>2, <2>6 DEF CanStep, MyPhase, RoundsOf
    <2>7. CASE thread[t].at \in {"lock", "work"}
      BY <1>2, <2>7 DEF CanStep
    <2> QED BY <2>2, <2>3, <2>4, <2>5, <2>6, <2>7
  <1> QED BY <1>1, <1>2

(* The threads of the test never wait for each other in a circle, for any  *)
(* number of them: neither the spinlock, nor the wait for one's own phase, *)
(* nor the wait before a phase's work can stop them all.                   *)
THEOREM NoDeadlock == Spec => []NeverStuck
  <1>1. Init => Held
    BY DEF Init, Held
  <1>2. IInv /\ Held /\ [Next]_vars => Held'
    <2> SUFFICES ASSUME IInv, Held, [Next]_vars PROVE Held'
      OBVIOUS
    <2>1. CASE IpcStep \/ VictimStep \/ UNCHANGED vars
      <3>1. UNCHANGED <<thread, lock>>
        BY <2>1 DEF IpcStep, IpcInit, IpcCheck, IpcNotify, IpcSetPhase,
                    IpcReturn, VictimStep, VictimFails, VictimReady, VictimPoll,
                    VictimReadsAgain, vars, ctrlVars
      <3> QED BY <3>1 DEF Held
    <2>2. CASE \E t \in Threads : ThreadStep(t)
      BY <2>2, ThreadHeld
    <2> QED BY <2>1, <2>2 DEF Next
  <1> QED BY <1>1, <1>2, Invariance, StuckNowhere, PTL DEF Spec

=============================================================================
