----------------------------- MODULE CtrlPhases -----------------------------
(***************************************************************************)
(* The phases of rdma_ctrl, Husky's test of the control verbs.  Its test   *)
(* threads allocate, then allocate and free, then free; IPCShm counts them *)
(* at the end of each phase and writes the phase to a word of shared       *)
(* memory, in which a victim application, measured meanwhile, looks for    *)
(* the marks it prints.                                                    *)
(***************************************************************************)
EXTENDS Integers, Sequences, FiniteSets

CONSTANTS
  Threads,   \* the test threads, --thread of them
  Notify,    \* --notify: wait until the victim has said it is ready
  Stale,     \* what the shared word holds before either program starts
  Punctual,  \* the victim polls within the second NotifyVictim sleeps
  Faults     \* shmget or shmat may fail

Start == 0       \* kShmStart
LastPhase == 3   \* kShmPhase3
Ready == -1      \* kShmVictimReady, 0xdeadbeef as an int

ASSUME CtrlAssumption ==
  /\ IsFiniteSet(Threads) /\ Threads # {}
  /\ Stale \in {Ready} \cup 0 .. LastPhase
  /\ Notify \in BOOLEAN /\ Punctual \in BOOLEAN /\ Faults \in BOOLEAN

VARIABLES
  word,      \* the shared word
  phase,     \* IPCShm::_phase
  readyNum,  \* IPCShm::_ready_num
  lock,      \* IPCShm::_lock is taken
  thread,    \* thread[t]: where TestThread is, and Test::_phase
  ipc,       \* where IPCThread is
  victim     \* where SetShmThread is, its last_val, and the marks it printed

ctrlVars == <<phase, readyNum, lock, thread, ipc>>
vars == <<word, ctrlVars, victim>>

Init ==
  /\ word = Stale
  /\ phase = -1
  /\ readyNum = 0
  /\ lock = FALSE
  /\ thread = [t \in Threads |-> [at |-> "update", p |-> 0]]
  /\ ipc = "init"
  /\ victim = [at |-> "start", last |-> Ready, marks |-> << >>]

(* NotifyVictim's sleep is over. *)
Noticed == Punctual /\ victim.at = "poll" => victim.last = word

-----------------------------------------------------------------------------
(* IPCThread. *)

(* ShmInit.  Its result is not looked at: without the memory the thread    *)
(* waits for ever in CheckShm, or takes the process down in NotifyVictim.  *)
IpcInit ==
  /\ ipc = "init"
  /\ \/ ipc' = IF Notify THEN "check" ELSE "notify"
     \/ Faults /\ ipc' = IF Notify THEN "stuck" ELSE "crashed"
  /\ UNCHANGED <<word, phase, readyNum, lock, thread, victim>>

\* Faulty: it does not wait for the victim.
AnyWord == TRUE

CheckShm == word = Ready

IpcCheck ==
  /\ ipc = "check"
  /\ CheckShm
  /\ ipc' = "notify"
  /\ UNCHANGED <<word, phase, readyNum, lock, thread, victim>>

IpcNotify ==
  /\ ipc = "notify"
  /\ word' = Start
  /\ ipc' = "sleep"
  /\ UNCHANGED <<phase, readyNum, lock, thread, victim>>

IpcSetPhase ==
  /\ ipc = "sleep"
  /\ Noticed
  /\ phase' = 0
  /\ ipc' = "watch"
  /\ UNCHANGED <<word, readyNum, lock, thread, victim>>

IpcReturn ==
  /\ ipc = "watch"
  /\ phase >= LastPhase
  /\ ipc' = "returned"
  /\ UNCHANGED <<word, phase, readyNum, lock, thread, victim>>

-----------------------------------------------------------------------------
(* TestThread. *)

Running == ipc # "crashed"

\* Faulty: a thread is counted in whatever phase the others are.
AnyPhase(t) == TRUE

(* Update is called in a loop until the phase is the thread's own. *)
MyPhase(t) == thread[t].p = phase

UpdateTest(t) ==
  /\ Running
  /\ thread[t].at = "update"
  /\ MyPhase(t)
  /\ thread' = [thread EXCEPT ![t].at = "lock"]
  /\ UNCHANGED <<word, phase, readyNum, lock, ipc, victim>>

Counted(t) == IF thread[t].p = LastPhase THEN "returned" ELSE "await"

\* Faulty: one thread is not waited for.
AllButOneReady == readyNum + 1 >= Cardinality(Threads) - 1

AllReady == readyNum + 1 = Cardinality(Threads)

(* Update: another thread is still to come. *)
UpdateCount(t) ==
  /\ Running
  /\ thread[t].at = "lock"
  /\ ~ lock
  /\ ~ AllReady
  /\ readyNum' = readyNum + 1
  /\ thread' = [thread EXCEPT ![t].at = Counted(t)]
  /\ UNCHANGED <<word, phase, lock, ipc, victim>>

\* Faulty: the phase is raised before the victim is told.
NextPhase == phase + 1

EndedPhase == phase

(* Update: the last thread tells the victim, and sleeps with the lock. *)
UpdateNotify(t) ==
  /\ Running
  /\ thread[t].at = "lock"
  /\ ~ lock
  /\ AllReady
  /\ lock' = TRUE
  /\ readyNum' = readyNum + 1
  /\ word' = EndedPhase
  /\ thread' = [thread EXCEPT ![t].at = "notify"]
  /\ UNCHANGED <<phase, ipc, victim>>

\* Faulty: the count of the phase is kept.
KeepCount == UNCHANGED readyNum

ResetCount == readyNum' = 0

UpdatePhase(t) ==
  /\ Running
  /\ thread[t].at = "notify"
  /\ Noticed
  /\ phase' = phase + 1
  /\ ResetCount
  /\ lock' = FALSE
  /\ thread' = [thread EXCEPT ![t].at = Counted(t)]
  /\ UNCHANGED <<word, ipc, victim>>

(* The loops that wait for the others before AllocPhase, MiddlePhase and   *)
(* DeallocPhase.                                                           *)
Enter(t) ==
  /\ Running
  /\ thread[t].at = "await"
  /\ phase >= thread[t].p
  /\ thread' = [thread EXCEPT ![t].at = "work"]
  /\ UNCHANGED <<word, phase, readyNum, lock, ipc, victim>>

(* The phase's work is done, Test::UpdatePhase. *)
Leave(t) ==
  /\ Running
  /\ thread[t].at = "work"
  /\ thread' = [thread EXCEPT ![t] = [at |-> "update", p |-> @.p + 1]]
  /\ UNCHANGED <<word, phase, readyNum, lock, ipc, victim>>

-----------------------------------------------------------------------------
(* SetShmThread of the victim. *)

(* shmget or shmat fails: the thread returns, the victim goes on without.  *)
VictimFails ==
  /\ victim.at = "start"
  /\ Faults
  /\ victim' = [victim EXCEPT !.at = "absent"]
  /\ UNCHANGED <<word, ctrlVars>>

VictimReady ==
  /\ victim.at = "start"
  /\ word' = Ready
  /\ victim' = [victim EXCEPT !.at = "poll"]
  /\ UNCHANGED ctrlVars

(* The word has changed: a mark is printed, or the thread gives up.  After *)
(* the last mark the memory is detached.                                   *)
VictimPoll ==
  /\ victim.at = "poll"
  /\ word # victim.last
  /\ victim' = IF word \in 0 .. LastPhase
               THEN [at |-> IF word = LastPhase THEN "detached" ELSE "poll",
                     last |-> word, marks |-> Append(victim.marks, word)]
               ELSE [victim EXCEPT !.at = "failed", !.last = word]
  /\ UNCHANGED <<word, ctrlVars>>

(* Seven seconds later the loop reads the word again, which is no longer   *)
(* mapped.                                                                 *)
VictimReadsAgain ==
  /\ victim.at = "detached"
  /\ victim' = [victim EXCEPT !.at = "fault"]
  /\ UNCHANGED <<word, ctrlVars>>

-----------------------------------------------------------------------------
IpcStep == IpcInit \/ IpcCheck \/ IpcNotify \/ IpcSetPhase \/ IpcReturn

Update(t) ==
  UpdateTest(t) \/ UpdateCount(t) \/ UpdateNotify(t) \/ UpdatePhase(t)

ThreadStep(t) == Update(t) \/ Enter(t) \/ Leave(t)

VictimStep == VictimFails \/ VictimReady \/ VictimPoll \/ VictimReadsAgain

Next ==
  \/ IpcStep
  \/ \E t \in Threads : ThreadStep(t)
  \/ VictimStep

Spec == Init /\ [][Next]_vars

(* Every thread is scheduled, and the lock is held for a second at most.   *)
FairSpec ==
  /\ Spec
  /\ WF_vars(IpcStep)
  /\ \A t \in Threads : WF_vars(ThreadStep(t))
  /\ WF_vars(VictimStep)

-----------------------------------------------------------------------------
(* The type of every variable. *)
TypeOK ==
  /\ word \in {Ready} \cup 0 .. LastPhase
  /\ phase \in -1 .. (LastPhase + 1)
  /\ readyNum \in 0 .. Cardinality(Threads)
  /\ lock \in BOOLEAN
  /\ thread \in [Threads ->
       [at : {"update", "lock", "notify", "await", "work", "returned"},
        p : 0 .. LastPhase]]
  /\ ipc \in {"init", "check", "notify", "sleep", "watch", "returned",
              "stuck", "crashed"}
  /\ victim \in [at : {"start", "absent", "poll", "detached", "failed",
                       "fault"},
                 last : {Ready} \cup 0 .. LastPhase,
                 marks : Seq(0 .. LastPhase)]

-----------------------------------------------------------------------------
(* Safety. *)

Working(t, p) == thread[t].at = "work" /\ thread[t].p = p

(* The rounds a thread has completed: the updates it was counted in. *)
RoundsOf(t) ==
  IF thread[t].at \in {"update", "lock"} THEN thread[t].p ELSE thread[t].p + 1

(* Nobody frees its resources in DeallocPhase while another thread is not  *)
(* done with AllocPhase, although the wait before a phase stops nobody.    *)
NoFreeWhileAllocating ==
  \A t, u \in Threads : Working(t, 2) => RoundsOf(u) >= 2

(* A mark of the victim is true: when it says that a phase has ended,      *)
(* every thread has ended it; and marks come in order, none twice.         *)
MarksTrue ==
  /\ \A n \in DOMAIN victim.marks : \A t \in Threads :
       victim.marks[n] >= 1 => RoundsOf(t) > victim.marks[n]
  /\ \A m, n \in DOMAIN victim.marks :
       m < n => victim.marks[m] < victim.marks[n]

(* With --notify and a victim that polls in time no mark is missed: they   *)
(* are a prefix of start, phase 1, phase 2, phase 3.                       *)
MarksComplete ==
  \A n \in DOMAIN victim.marks : victim.marks[n] = n - 1

(* SetShmThread, after the last mark: "Test over.  Wait for 5 seconds to   *)
(* exit the whole process"; it has no more business with the memory.       *)
NoReadAfterDetach == victim.at # "fault"

-----------------------------------------------------------------------------
(* Liveness, under FairSpec. *)

(* Without its shared memory the program cannot go on, nor without the     *)
(* victim's ready if it is to wait for it.                                 *)
Broken ==
  \/ ipc \in {"stuck", "crashed"}
  \/ victim.at = "absent" /\ ipc = "check" /\ word # Ready

(* Run returns, for every test thread and the IPC thread end, and the      *)
(* victim prints all its marks, unless the shared memory could not be had. *)
BothFinish ==
  <>(\/ Broken
     \/ /\ ipc = "returned"
        /\ \A t \in Threads : thread[t].at = "returned"
        /\ victim.at # "absent" => Len(victim.marks) = LastPhase + 1)

-----------------------------------------------------------------------------
(* The updates are the rounds of Rounds. *)
Barrier == INSTANCE Rounds WITH
  Last <- LastPhase + 1, rounds <- [t \in Threads |-> RoundsOf(t)]

ImplementsRounds == Barrier!Spec

=============================================================================
