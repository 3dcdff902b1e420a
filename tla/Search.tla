------------------------------- MODULE Search -------------------------------
(***************************************************************************)
(* Collie's search for the anomalies of a card: the loop of                *)
(* simulated_annealing, which draws points of the search space, runs their *)
(* traffic and looks at the counters; the generation of a minimal feature  *)
(* set after an anomaly; and the engine, which starts and kills processes  *)
(* over ssh and knows of them only how many queue pairs are connected on   *)
(* host A.                                                                 *)
(*                                                                         *)
(* A traffic has three of its dimensions, one for each way they are        *)
(* tested.  What is_anomalous kills after a test is killed again before    *)
(* the next one: one step stands for both.                                 *)
(***************************************************************************)
EXTENDS Integers, Sequences

CONSTANTS
  Bound,   \* the upper bound of each dimension; the lower one is 0
  Random,  \* the points that may be drawn at random
  Card,    \* Card[c][p]: what check_bone says of a point on the card c
  Iters,   \* iterations of the search
  Strays,  \* bound on queue pairs that outlive a kill, over all kills
  Faults   \* bound on kills, commands, looks and readings that fail

(* The order in which generate_mfs_from_traffic tests them. *)
Order == <<"qp_num", "send_batch", "send_wq_depth">>
Dims == {Order[k] : k \in DOMAIN Order}
Values(d) == 0 .. Bound[d]
Vectors ==
  {v \in [Dims -> UNION {Values(d) : d \in Dims}] :
     \A d \in Dims : v[d] \in Values(d)}

(* From host A to B, from B to A, from A to itself. *)
Traffic == [v : Vectors, dir : {"forward", "backward", "loopback"}]

(* The points of the search have a forward traffic and another one; tests  *)
(* have them too, or one of the two.                                       *)
FullPoint ==
  {p \in [1 .. 2 -> Traffic] : p[1].dir = "forward" /\ p[2].dir # "forward"}
Point == [1 .. 1 -> Traffic] \cup FullPoint
Alone(t) == [i \in 1 .. 1 |-> t]

Verdict == {"ok", "pause", "slow"}   \* 0, -1 and -2

kStageIterations == 2

(* A queue may be as deep as the longest batch. *)
ASSUME SearchAssumption ==
  /\ Bound \in [Dims -> Nat \ {0}]
  /\ Bound["send_batch"] <= Bound["send_wq_depth"]
  /\ Random \subseteq FullPoint /\ Random # {}
  /\ \A c \in DOMAIN Card : Card[c] \in [Point -> Verdict]
  /\ Iters \in Nat
  /\ Strays \in Nat
  /\ Faults \in Nat

VARIABLES
  card,     \* the card
  at,       \* where the search is in an iteration or a test
  job,      \* whose traffic: the search's, a test's, or the last test's
  left,     \* iterations to go
  flag,     \* anomaly_flag
  point,    \* point
  found,    \* _current_set
  gen,      \* the generation of a feature set
  up,       \* queue pairs of each traffic launched last that are connected
  late,     \* those of each that are still to come
  strays,   \* queue pairs launched earlier that are connected
  tardy,    \* those launched earlier that are still to come
  blame,    \* what has gone wrong with the last launch, for the properties
  outlived, \* queue pairs that have outlived a kill so far
  faults    \* what has failed so far

searchVars == <<card, left, flag, point, found>>
engineVars == <<up, late, strays, tardy, blame, outlived, faults>>
vars == <<at, job, searchVars, gen, engineVars>>

(* No queue pair of either traffic. *)
None == [i \in 1 .. 2 |-> 0]

(* i is the traffic and k the dimension that is tested, side the bound, low *)
(* the answer at the lower one, core the simplified point; misled says that *)
(* a test did not see what it asked for.                                    *)
Gen(p) == [i |-> 1, k |-> 1, side |-> "lower", low |-> FALSE, core |-> p,
           mfs |-> [i \in DOMAIN p |-> {}], misled |-> FALSE]
NoGen == Gen(CHOOSE p \in Random : TRUE)

Init ==
  /\ card \in DOMAIN Card
  /\ at = "clean"
  /\ job = "search"
  /\ left = Iters
  /\ flag = kStageIterations
  /\ point \in Random
  /\ found = {}
  /\ gen = NoGen
  /\ up = None /\ late = None
  /\ strays = 0 /\ tardy = 0
  /\ blame = {}
  /\ outlived = 0
  /\ faults = 0

(* The bound on failures. *)
Fails == faults < Faults /\ faults' = faults + 1

-----------------------------------------------------------------------------
(* The feature sets: an interval for each dimension of each traffic that   *)
(* matters, and for two traffics whether the second is a loopback.         *)

Within(v, f) == f.lo <= v[f.dim] /\ v[f.dim] <= f.hi

(* _mfs_match_traffic: the traffic t fits what the set r says of its j-th. *)
Fits(t, r, j) ==
  /\ \A f \in r.mfs[j] : Within(t.v, f)
  /\ j = 2 => ((t.dir = "loopback") <=> r.loopback)

\* Faulty: "Forward-forward, backward-backward".
MatchAligned(p, r) == \A j \in DOMAIN r.mfs : Fits(p[j], r, j)

(* _match_mfs: for each part of the set, either traffic of the point. *)
MatchOne(p, r) == \A j \in DOMAIN r.mfs : \E i \in DOMAIN p : Fits(p[i], r, j)

match_mfs(p) == \E r \in found : MatchOne(p, r)

Dim == Order[gen.k]
Tested == gen.core[gen.i]

(* The depth of a queue is tested from the batch on. *)
LowerBound(t, d) == IF d = "send_wq_depth" THEN t.v["send_batch"] ELSE 0

(* What a test runs: a bound in the place of the dimension's value. *)
TestPoint ==
  [gen.core EXCEPT ![gen.i].v[Dim] =
     IF gen.side = "lower" THEN LowerBound(Tested, Dim) ELSE Bound[Dim]]

(* The traffics the job runs; "forward" and "backward" are one alone. *)
Goal ==
  CASE job = "search" -> point
    [] job = "test" -> TestPoint
    [] job \in {"forward", "backward", "redo"} -> gen.core

(* The iteration is over. *)
NextIteration ==
  /\ left' = left - 1
  /\ at' = "clean"
  /\ job' = "search"

(* The set that is generated. *)
Features ==
  [mfs |-> gen.mfs,
   loopback |-> 2 \in DOMAIN gen.core /\ gen.core[2].dir = "loopback"]

NoFeatures(mfs) == \A i \in DOMAIN mfs : mfs[i] = {}

\* Faulty: the point is not tested again with all its simplifications.
KeepUntested(verdict) == TRUE

(* The simplified point must still be anomalous, one way or the other. *)
Keep(verdict) == verdict # "ok"

(* Back in simulated_annealing, with a feature set if it is to be kept and *)
(* is not empty.  The next point is a fresh one.                           *)
Generated(keep) ==
  /\ found' = IF keep /\ ~ NoFeatures(gen.mfs) THEN found \cup {Features}
              ELSE found
  /\ flag' = -1
  /\ gen' = NoGen
  /\ NextIteration
  /\ UNCHANGED <<card, point>>

-----------------------------------------------------------------------------
(* The engine.  What comes up or dies before a kill is as good as killed.  *)

(* Both ends of a loopback are on host A. *)
NumQps(t) == (t.v["qp_num"] + 1) * (IF t.dir = "loopback" THEN 2 ELSE 1)
Qps(p) == [i \in 1 .. 2 |-> IF i \in DOMAIN p THEN NumQps(p[i]) ELSE 0]
Total(n) == n[1] + n[2]

\* Faulty: something is connected.
AnyRun(n) == Total(up) + strays > 0 \/ n = 0

(* What check_run expects, in one of its ten looks: so many queue pairs,   *)
(* whoever's.                                                              *)
CheckRun(n) == Total(up) + strays = n

Running == at \in {"await", "monitor"}

(* A process comes up and connects a queue pair.  It does not come to that *)
(* if its port is taken.                                                   *)
ComeUp ==
  /\ Running
  /\ \E i \in 1 .. 2 :
       /\ late[i] > 0
       /\ late' = [late EXCEPT ![i] = @ - 1]
       /\ \/ up' = [up EXCEPT ![i] = @ + 1]
          \/ up' = up /\ strays > 0
  /\ UNCHANGED <<at, job, searchVars, gen, strays, tardy, blame, outlived, faults>>

(* One that was launched earlier does. *)
ComeUpTardy ==
  /\ at \notin {"clean", "done", "failed"}
  /\ tardy > 0
  /\ tardy' = tardy - 1
  /\ \/ strays' = strays + 1
     \/ strays' = strays /\ up # None
  /\ UNCHANGED <<at, job, searchVars, gen, up, late, blame, outlived, faults>>

(* A process exits, and with it some queue pairs; also one that never got  *)
(* to connect them.                                                        *)
Die ==
  /\ Running
  /\ \/ \E i \in 1 .. 2 : \E n \in 1 .. up[i] :
          up' = [up EXCEPT ![i] = @ - n] /\ UNCHANGED strays
     \/ \E n \in 1 .. strays : strays' = strays - n /\ UNCHANGED up
  /\ blame' = IF at = "monitor" THEN blame \cup {"died"} ELSE blame
  /\ Fails
  /\ UNCHANGED <<at, job, searchVars, gen, late, tardy, outlived>>

(* killall, process by process.  What is not under way yet may escape it,  *)
(* what is connected survives only if a kill fails; from now on it was     *)
(* launched earlier.                                                       *)
Kill ==
  /\ at = "clean"
  /\ at' = "check"
  /\ up' = None /\ late' = None
  /\ tardy' \in 0 .. (tardy + Total(late))
  /\ strays' \in 0 .. (strays + Total(up))
  /\ outlived' = outlived + strays' + tardy' /\ outlived' <= Strays
  /\ IF strays' > 0 THEN Fails ELSE UNCHANGED faults
  /\ blame' = (IF strays' > 0 THEN {"survived"} ELSE {})
              \cup (IF tardy' > 0 THEN {"late"} ELSE {})
  /\ UNCHANGED <<job, searchVars, gen>>

(* clean_process finds nothing. *)
Clean ==
  /\ at = "check"
  /\ CheckRun(0)
  /\ at' = CASE job # "search" -> "launch"
             [] job = "search" /\ left > 0 -> "choose"
             [] job = "search" /\ left = 0 -> "done"
  /\ UNCHANGED <<job, searchVars, gen, engineVars>>

\* Faulty: the search goes on as its tests do.
GoOn ==
  at' = CASE job # "search" -> "launch"
          [] job = "search" /\ left > 0 -> "choose"
          [] job = "search" /\ left = 0 -> "done"

(* The search ends, a test does not care. *)
NotClean ==
  at' = CASE job # "search" -> "launch"
          [] job = "search" /\ left > 0 -> "failed"
          [] job = "search" /\ left = 0 -> "done"

(* Or it does, or cannot look.  The last test keeps nothing. *)
CleanFails ==
  /\ at = "check"
  /\ IF CheckRun(0) THEN Fails ELSE UNCHANGED faults
  /\ \/ job # "redo" /\ NotClean /\ UNCHANGED <<job, searchVars, gen>>
     \/ job = "redo" /\ Generated(FALSE)
  /\ UNCHANGED <<up, late, strays, tardy, blame, outlived>>

(* run_scripts: the commands are given. *)
Launch ==
  /\ at = "launch"
  /\ late' = Qps(Goal)
  /\ at' = "await"
  /\ UNCHANGED <<job, searchVars, gen, up, strays, tardy, blame, outlived, faults>>

ComesUp ==
  /\ at = "await"
  /\ CheckRun(Total(Qps(Goal)))
  /\ at' = "monitor"
  /\ UNCHANGED <<job, searchVars, gen, engineVars>>

-----------------------------------------------------------------------------
(* simulated_annealing, up to the traffic. *)

(* Point.mutate: another value, and a queue as deep as the batch if it is  *)
(* the client's.                                                           *)
Mutated(t, d, n) ==
  LET v == [t.v EXCEPT ![d] = n]
  IN  [t EXCEPT !.v =
        IF d # "qp_num" /\ v["send_wq_depth"] < v["send_batch"]
        THEN [v EXCEPT !["send_wq_depth"] = v["send_batch"]] ELSE v]

\* Faulty: a step beyond the bounds.
BeyondBounds(d) == 0 .. (Bound[d] + 1)

(* The present value stands for the mutation of a dimension not here. *)
MutateValues(d) == Values(d)

Choose ==
  /\ at = "choose"
  /\ at' = "leave"
  /\ \/ /\ flag <= 0
        /\ point' \in Random
        /\ flag' = kStageIterations
     \/ /\ flag > 0
        /\ \E i \in DOMAIN point, d \in Dims : \E n \in MutateValues(d) :
             point' = [point EXCEPT ![i] = Mutated(point[i], d, n)]
        /\ UNCHANGED flag
  /\ UNCHANGED <<card, job, left, found, gen, engineVars>>

\* Faulty: the point is looked at again.
SamePoint == {point}

DrawnPoint == Random

(* A point of a known feature set is replaced by a random one. *)
Redraw ==
  /\ at = "leave"
  /\ match_mfs(point)
  /\ point' \in DrawnPoint
  /\ UNCHANGED <<at, job, card, left, flag, found, gen, engineVars>>

Leave ==
  /\ at = "leave"
  /\ ~ match_mfs(point)
  /\ at' = "launch"
  /\ UNCHANGED <<job, searchVars, gen, engineVars>>

-----------------------------------------------------------------------------
(* The generation of a feature set. *)

(* test_optimal_for_each leaves out a value that is the lower bound.       *)
Optimal == Dim = "qp_num"

StartWith(p, misled) == gen' = [Gen(p) EXCEPT !.misled = misled]

(* The next dimension, the next traffic, or the last test. *)
NextDim(core, features, misled) ==
  LET last == gen.k = Len(Order)
      more == gen.i + 1 \in DOMAIN gen.core
  IN  /\ gen' = [gen EXCEPT
           !.i = IF last /\ more THEN gen.i + 1 ELSE gen.i,
           !.k = IF last /\ more THEN 1 ELSE gen.k + 1,
           !.side = "lower", !.low = FALSE, !.core = core,
           !.mfs[gen.i] = gen.mfs[gen.i] \cup features, !.misled = misled]
      /\ job' = IF last /\ ~ more THEN "redo" ELSE "test"

SkipOptimal ==
  /\ at = "clean"
  /\ job = "test"
  /\ Optimal
  /\ Tested.v[Dim] = 0
  /\ NextDim(gen.core, {}, gen.misled)
  /\ UNCHANGED <<at, searchVars, engineVars>>

Feature(lo, hi) == {[dim |-> Dim, lo |-> lo, hi |-> hi]}

\* Faulty: the intervals are taken for the wrong side.
IntervalOther(value, low, upp) ==
  CASE low -> Feature(value, Bound[Dim])
    [] upp -> Feature(LowerBound(Tested, Dim), value)
    [] OTHER -> Feature(value, value)

Interval(value, low, upp) ==
  CASE low -> Feature(LowerBound(Tested, Dim), value)
    [] upp -> Feature(value, Bound[Dim])
    [] OTHER -> Feature(value, value)

(* Is the forward traffic enough, or the backward one?  Or it takes both.  *)
AnswerAlone(yes, misled) ==
  \/ /\ yes
     /\ StartWith(gen.core, misled)
     /\ job' = "test"
  \/ /\ ~ yes
     /\ job = "forward"
     /\ point[2].dir = "backward"
     /\ StartWith(Alone(point[2]), misled)
     /\ job' = "backward"
  \/ /\ ~ yes
     /\ job = "backward" \/ point[2].dir = "loopback"
     /\ StartWith(point, misled)
     /\ job' = "test"

(* If the smallest value is enough, or both bounds are, the point is       *)
(* simplified.                                                             *)
AnswerTest(yes, misled) ==
  LET value == Tested.v[Dim]
      simple == [gen.core EXCEPT ![gen.i].v[Dim] = LowerBound(Tested, Dim)]
  IN  \/ /\ Optimal
         /\ IF yes THEN NextDim(simple, {}, misled)
            ELSE NextDim(gen.core, Feature(value, Bound[Dim]), misled)
      \/ /\ ~ Optimal
         /\ gen.side = "lower"
         /\ gen' = [gen EXCEPT !.side = "upper", !.low = yes, !.misled = misled]
         /\ UNCHANGED job
      \/ /\ ~ Optimal
         /\ gen.side = "upper"
         /\ IF gen.low /\ yes THEN NextDim(simple, {}, misled)
            ELSE NextDim(gen.core, Interval(value, gen.low, yes), misled)

Answer(yes, misled) ==
  \/ job \in {"forward", "backward"} /\ AnswerAlone(yes, misled)
  \/ job = "test" /\ AnswerTest(yes, misled)

-----------------------------------------------------------------------------
(* What comes of the traffic. *)

Asking == job \in {"forward", "backward", "test"}

(* set_up_traffic fails: nothing more will come and the count is wrong, or *)
(* the looks were too early or failed.  The search goes on with the next   *)
(* iteration; is_anomalous answers -1, which is true; the last test keeps  *)
(* nothing.                                                                *)
GiveUp ==
  /\ at = "await"
  /\ IF late = None /\ tardy = 0 /\ ~ CheckRun(Total(Qps(Goal)))
     THEN UNCHANGED faults ELSE Fails
  /\ \/ /\ job = "search"
        /\ NextIteration
        /\ UNCHANGED <<card, flag, point, found, gen>>
     \/ /\ Asking
        /\ Answer(TRUE, TRUE)
        /\ at' = "clean"
        /\ UNCHANGED searchVars
     \/ /\ job = "redo"
        /\ Generated(FALSE)
  /\ UNCHANGED <<up, late, strays, tardy, blame, outlived>>

(* The traffic of the goal runs, all of it and nothing else. *)
AsAsked == up = Qps(Goal) /\ strays = 0

(* monitor and check_bone.  Counters that cannot be read are low; what is  *)
(* read of other traffic may be anything.                                  *)
Read(verdict, read) ==
  IF read THEN AsAsked => verdict = Card[card][Goal] ELSE verdict = "slow"

Measure ==
  /\ at = "monitor"
  /\ \E verdict \in Verdict, read \in BOOLEAN :
       LET misled == ~ read \/ ~ AsAsked IN
       /\ Read(verdict, read)
       /\ IF read THEN UNCHANGED faults ELSE Fails
       /\ \/ /\ job = "search"
             /\ verdict # "pause"
             /\ flag' = IF verdict = "ok" THEN flag - 1 ELSE -1
             /\ NextIteration
             /\ UNCHANGED <<card, point, found, gen>>
          \/ /\ job = "search"
             /\ verdict = "pause"
             /\ StartWith(Alone(point[1]), misled)
             /\ job' = "forward"
             /\ at' = "clean"
             /\ UNCHANGED searchVars
          \/ /\ Asking
             /\ Answer(verdict = "pause", gen.misled \/ misled)
             /\ at' = "clean"
             /\ UNCHANGED searchVars
          \/ /\ job = "redo"
             /\ Generated(Keep(verdict))
  /\ UNCHANGED <<up, late, strays, tardy, blame, outlived>>

-----------------------------------------------------------------------------
SearchStep ==
  \/ Kill \/ Clean \/ CleanFails \/ Launch \/ ComesUp
  \/ Choose \/ Redraw \/ Leave
  \/ SkipOptimal \/ GiveUp \/ Measure

Next == SearchStep \/ ComeUp \/ ComeUpTardy \/ Die

Spec == Init /\ [][Next]_vars

(* The search goes on, what is to come comes, and random points are not    *)
(* always within the known sets if there is one that is not.               *)
FairSpec ==
  /\ Spec
  /\ WF_vars(SearchStep)
  /\ WF_vars(ComeUp \/ ComeUpTardy)
  /\ SF_vars(Redraw /\ ~ match_mfs(point)')

-----------------------------------------------------------------------------
FeatureSet == [dim : Dims, lo : Nat, hi : Nat]
MfsType == [1 .. 1 -> SUBSET FeatureSet] \cup [1 .. 2 -> SUBSET FeatureSet]
Numbers == [1 .. 2 -> 0 .. 2 * (Bound["qp_num"] + 1)]

(* The type of every variable: a point stays within the space, wherever it *)
(* is mutated to, and no more queue pairs come up than there are.          *)
TypeOK ==
  /\ card \in DOMAIN Card
  /\ at \in {"clean", "check", "choose", "leave", "launch", "await", "monitor",
             "done", "failed"}
  /\ job \in {"search", "forward", "backward", "test", "redo"}
  /\ left \in 0 .. Iters
  /\ flag \in -1 .. kStageIterations
  /\ point \in FullPoint
  /\ found \subseteq [mfs : MfsType, loopback : BOOLEAN]
  /\ gen \in [i : 1 .. 2, k : 1 .. (Len(Order) + 1), side : {"lower", "upper"},
              low : BOOLEAN, core : Point, mfs : MfsType, misled : BOOLEAN]
  /\ gen.i \in DOMAIN gen.core /\ DOMAIN gen.mfs = DOMAIN gen.core
  /\ up \in Numbers /\ late \in Numbers
  /\ strays \in Nat /\ tardy \in Nat /\ strays + tardy <= Strays
  /\ blame \subseteq {"survived", "late", "died"}
  /\ outlived \in 0 .. Strays /\ faults \in 0 .. Faults

-----------------------------------------------------------------------------
(* Safety. *)

(* What is monitored is what was asked for, although the engine only       *)
(* counts, unless a process has died since, or a command that had been     *)
(* given up was still under way at the last kill; or, for a test, a        *)
(* process survived that kill.  A point of the walk is measured right      *)
(* whatever survives.                                                      *)
MeasuredAsAsked ==
  at = "monitor" =>
    \/ AsAsked
    \/ "died" \in blame
    \/ "late" \in blame
    \/ job # "search" /\ "survived" \in blame

InBox(v, box) == \A d \in Dims : v[d] \in box.lo[d] .. box.hi[d]

(* Boxes of any number of queue pairs from some number on. *)
Boxes ==
  {box \in [lo : Vectors, hi : Vectors] : box.hi["qp_num"] = Bound["qp_num"]}

Anomalous(c, p) == Card[c][p] = "pause"

(* The cards on which one traffic in a box is to blame, wherever it goes   *)
(* and whatever else there is.                                             *)
OneCulprit ==
  {c \in DOMAIN Card : \E box \in Boxes : \A p \in Point :
     Anomalous(c, p) <=> \E i \in DOMAIN p : InBox(p[i].v, box)}

(* Those on which it takes two traffics: a forward one in a box, and with  *)
(* it one of a certain direction in another box.                           *)
TwoCulprits ==
  {c \in DOMAIN Card :
     /\ \A t \in Traffic : ~ Anomalous(c, Alone(t))
     /\ \E dir \in {"backward", "loopback"}, one \in Boxes :
          /\ \A p \in FullPoint :
               Anomalous(c, p) => p[2].dir = dir /\ InBox(p[1].v, one)
          /\ \E two \in Boxes : \A p \in FullPoint :
               p[2].dir = dir /\ InBox(p[1].v, one) =>
                 (Anomalous(c, p) <=> InBox(p[2].v, two))}

(* A queue as deep as its batch, and as the longest batch tested. *)
DeepEnough(t) == t.v["send_wq_depth"] >= t.v["send_batch"]
FitsDeep(t, j) ==
  Fits(t, Features, j) /\ t.v["send_wq_depth"] >= gen.core[j].v["send_batch"]

(* The point the set was made from is in it. *)
HasOrigin == (\A i \in 1 .. 2 : DeepEnough(point[i])) => MatchOne(point, Features)

(* The simplified point is anomalous, whatever the tests before the last   *)
(* one have seen.                                                          *)
CoreSlow == Card[card][gen.core] # "ok"

(* If one traffic is to blame, every point the search will leave out for   *)
(* this set is anomalous: also one whose backward traffic fits.            *)
LeavesOutAnomalies ==
  card \in OneCulprit =>
    \A p \in FullPoint :
      (\A j \in DOMAIN gen.mfs : \E i \in 1 .. 2 : FitsDeep(p[i], j))
        => Anomalous(card, p)

(* If it takes two traffics, every point is that fits forward by forward   *)
(* and backward by backward.                                               *)
FitsAlignedAnomalies ==
  card \in TwoCulprits =>
    \A p \in FullPoint :
      (\A j \in DOMAIN gen.mfs : FitsDeep(p[j], j)) => Anomalous(card, p)

(* What is kept: the set contains the point it was made from if its queues *)
(* are as deep as their batches; the simplified point is anomalous, if the *)
(* last test has run and has been read; and if no test was misled and the  *)
(* anomalies are boxes, what is in it is anomalous, of the points whose    *)
(* queues are as deep as the batch tested.                                 *)
FoundSound ==
  [][found' # found =>
       /\ HasOrigin
       /\ AsAsked /\ faults' = faults => CoreSlow
       /\ ~ gen.misled => LeavesOutAnomalies /\ FitsAlignedAnomalies]_vars

-----------------------------------------------------------------------------
(* Liveness, under FairSpec. *)

(* The known sets are all that may be drawn. *)
Covered == \A p \in Random : match_mfs(p)

(* The search makes its iterations or gives up on the processes it cannot  *)
(* kill, or draws for ever a point that is not in the sets it knows, for   *)
(* there is none.                                                          *)
SearchEnds == <>(at \in {"done", "failed"} \/ Covered)

=============================================================================
