---------------------------- MODULE SearchProofs ----------------------------
(***************************************************************************)
(* Proofs about Search, for all bounds of the dimensions, all cards and    *)
(* any number of iterations, strays and failures.                          *)
(***************************************************************************)
EXTENDS Search, TLAPS

-----------------------------------------------------------------------------
(* The space. *)

LEMMA OrderFacts ==
  /\ Len(Order) = 3 /\ DOMAIN Order = 1 .. 3
  /\ Order[1] = "qp_num" /\ Order[2] = "send_batch" /\ Order[3] = "send_wq_depth"
  /\ \A j \in 1 .. 3 : Order[j] \in Dims
  BY DEF Order, Dims

LEMMA DimFacts == Dims = {"qp_num", "send_batch", "send_wq_depth"}
  <1>1. \A d \in Dims : d \in {Order[1], Order[2], Order[3]}
    BY OrderFacts DEF Dims
  <1>2. Order[1] \in Dims /\ Order[2] \in Dims /\ Order[3] \in Dims
    BY OrderFacts
  <1>. QED
    BY <1>1, <1>2, OrderFacts

LEMMA BoundFacts ==
  /\ \A d \in Dims : Bound[d] \in Nat \ {0}
  /\ Bound["send_batch"] <= Bound["send_wq_depth"]
  BY SearchAssumption

LEMMA VectorFacts ==
  ASSUME NEW v
  PROVE  v \in Vectors <=> v \in [Dims -> Nat] /\ \A d \in Dims : v[d] \in 0 .. Bound[d]
  <1>1. v \in Vectors =>
          v \in [Dims -> Nat] /\ \A d \in Dims : v[d] \in 0 .. Bound[d]
    BY BoundFacts DEF Vectors, Values
  <1>2. ASSUME v \in [Dims -> Nat], \A d \in Dims : v[d] \in 0 .. Bound[d]
        PROVE  v \in Vectors
    <2>1. \A d \in Dims : v[d] \in UNION {Values(e) : e \in Dims}
      BY <1>2 DEF Values
    <2>2. v \in [Dims -> UNION {Values(e) : e \in Dims}]
      BY <1>2, <2>1
    <2>. QED
      BY <1>2, <2>2 DEF Vectors, Values
  <1>. QED
    BY <1>1, <1>2

LEMMA TrafficFacts ==
  ASSUME NEW t \in Traffic
  PROVE  /\ t.v \in Vectors /\ t.dir \in {"forward", "backward", "loopback"}
         /\ t.v \in [Dims -> Nat] /\ \A d \in Dims : t.v[d] \in 0 .. Bound[d]
         /\ t = [v |-> t.v, dir |-> t.dir]
  <1>1. t.v \in Vectors /\ t.dir \in {"forward", "backward", "loopback"}
        /\ t = [v |-> t.v, dir |-> t.dir]
    BY DEF Traffic
  <1>. QED
    BY <1>1, VectorFacts

LEMMA PointFacts ==
  ASSUME NEW p \in Point
  PROVE  /\ DOMAIN p = 1 .. 1 \/ DOMAIN p = 1 .. 2
         /\ p \in [DOMAIN p -> Traffic]
         /\ \A i \in DOMAIN p : p[i] \in Traffic /\ i \in 1 .. 2
         /\ 1 \in DOMAIN p
         /\ 2 \in DOMAIN p <=> p \in FullPoint
  <1>1. CASE p \in [1 .. 1 -> Traffic]
    <2>1. DOMAIN p = 1 .. 1 /\ 2 \notin 1 .. 1 /\ 1 \in 1 .. 1
      BY <1>1
    <2>2. p \notin FullPoint
      <3>1. \A q \in FullPoint : DOMAIN q = 1 .. 2 /\ 2 \in 1 .. 2
        BY DEF FullPoint
      <3>. QED
        BY <2>1, <3>1
    <2>. QED
      BY <1>1, <2>1, <2>2
  <1>2. CASE p \in FullPoint
    <2>1. DOMAIN p = 1 .. 2 /\ 2 \in 1 .. 2 /\ 1 \in 1 .. 2
      BY <1>2 DEF FullPoint
    <2>. QED
      BY <1>2, <2>1 DEF FullPoint
  <1>. QED
    BY <1>1, <1>2 DEF Point

LEMMA FullFacts ==
  ASSUME NEW p \in FullPoint
  PROVE  /\ p \in Point /\ DOMAIN p = 1 .. 2 /\ p \in [1 .. 2 -> Traffic]
         /\ p[1] \in Traffic /\ p[2] \in Traffic
         /\ p[1].dir = "forward" /\ p[2].dir # "forward"
  BY DEF FullPoint, Point

LEMMA AloneFacts ==
  ASSUME NEW t \in Traffic
  PROVE  /\ Alone(t) \in Point /\ DOMAIN Alone(t) = 1 .. 1
         /\ Alone(t)[1] = t /\ 2 \notin DOMAIN Alone(t)
  BY DEF Alone, Point

(* A traffic and a point with another value in one dimension. *)
With(t, d, x) == [t EXCEPT !.v[d] = x]
PointWith(p, i, d, x) == [p EXCEPT ![i].v[d] = x]

LEMMA WithFacts ==
  ASSUME NEW t \in Traffic, NEW d \in Dims, NEW x \in 0 .. Bound[d]
  PROVE  /\ With(t, d, x) \in Traffic /\ With(t, d, x).dir = t.dir
         /\ With(t, d, x).v[d] = x
         /\ \A e \in Dims \ {d} : With(t, d, x).v[e] = t.v[e]
  <1>. DEFINE q == With(t, d, x)
  <1>1. q = [v |-> [t.v EXCEPT ![d] = x], dir |-> t.dir]
    BY DEF Traffic, With
  <1>2. q.v = [t.v EXCEPT ![d] = x] /\ q.dir = t.dir
    BY <1>1
  <1>3. t.v \in [Dims -> Nat] /\ \A e \in Dims : t.v[e] \in 0 .. Bound[e]
    BY TrafficFacts
  <1>4. q.v \in [Dims -> Nat] /\ q.v[d] = x
        /\ \A e \in Dims \ {d} : q.v[e] = t.v[e]
    BY <1>2, <1>3
  <1>5. q.v \in Vectors
    BY <1>3, <1>4, VectorFacts
  <1>6. q \in Traffic
    BY <1>1, <1>2, <1>5, TrafficFacts DEF Traffic
  <1>. QED
    BY <1>2, <1>4, <1>6

LEMMA ReplaceFacts ==
  ASSUME NEW p \in Point, NEW i \in DOMAIN p, NEW t \in Traffic, t.dir = p[i].dir
  PROVE  /\ [p EXCEPT ![i] = t] \in Point
         /\ DOMAIN [p EXCEPT ![i] = t] = DOMAIN p
         /\ [p EXCEPT ![i] = t][i] = t
         /\ \A j \in DOMAIN p \ {i} : [p EXCEPT ![i] = t][j] = p[j]
         /\ p \in FullPoint => [p EXCEPT ![i] = t] \in FullPoint
  <1>. DEFINE q == [p EXCEPT ![i] = t]
  <1>1. /\ DOMAIN q = DOMAIN p /\ q[i] = t
        /\ \A j \in DOMAIN p \ {i} : q[j] = p[j]
    OBVIOUS
  <1>2. q \in [DOMAIN p -> Traffic]
    BY PointFacts
  <1>3. \A j \in DOMAIN p : q[j].dir = p[j].dir
    BY <1>1
  <1>. HIDE DEF q
  <1>4. p \in FullPoint => q \in FullPoint
    <2>. SUFFICES ASSUME p \in FullPoint PROVE q \in FullPoint
      OBVIOUS
    <2>1. DOMAIN p = 1 .. 2 /\ p[1].dir = "forward" /\ p[2].dir # "forward"
      BY FullFacts
    <2>2. q \in [1 .. 2 -> Traffic] /\ q[1].dir = "forward" /\ q[2].dir # "forward"
      BY <1>2, <1>3, <2>1
    <2>. QED
      BY <2>2 DEF FullPoint
  <1>5. q \in Point
    <2>1. CASE p \in FullPoint
      BY <1>4, <2>1 DEF Point
    <2>2. CASE p \notin FullPoint
      BY <1>2, <2>2, PointFacts DEF Point
    <2>. QED
      BY <2>1, <2>2
  <1>6. QED
    BY <1>1, <1>4, <1>5 DEF q

LEMMA PointWithFacts ==
  ASSUME NEW p \in Point, NEW i \in DOMAIN p, NEW d \in Dims, NEW x \in 0 .. Bound[d]
  PROVE  /\ PointWith(p, i, d, x) \in Point
         /\ DOMAIN PointWith(p, i, d, x) = DOMAIN p
         /\ PointWith(p, i, d, x)[i] = With(p[i], d, x)
         /\ \A j \in DOMAIN p \ {i} : PointWith(p, i, d, x)[j] = p[j]
         /\ \A j \in DOMAIN p : PointWith(p, i, d, x)[j].dir = p[j].dir
  <1>1. PointWith(p, i, d, x) = [p EXCEPT ![i] = With(p[i], d, x)]
    BY DEF PointWith, With
  <1>2. p[i] \in Traffic
    BY PointFacts
  <1>. DEFINE t == With(p[i], d, x)
  <1>3. t \in Traffic /\ t.dir = p[i].dir
    BY <1>2, WithFacts
  <1>. HIDE DEF t
  <1>4. /\ [p EXCEPT ![i] = t] \in Point
        /\ DOMAIN [p EXCEPT ![i] = t] = DOMAIN p
        /\ [p EXCEPT ![i] = t][i] = t
        /\ \A j \in DOMAIN p \ {i} : [p EXCEPT ![i] = t][j] = p[j]
    BY <1>3, ReplaceFacts
  <1>5. PointWith(p, i, d, x) = [p EXCEPT ![i] = t]
    BY <1>1 DEF t
  <1>6. \A j \in DOMAIN p : PointWith(p, i, d, x)[j].dir = p[j].dir
    BY <1>3, <1>4, <1>5
  <1>. QED
    BY <1>4, <1>5, <1>6 DEF t

LEMMA LowerFacts ==
  ASSUME NEW t \in Traffic, NEW d \in Dims
  PROVE  /\ LowerBound(t, d) \in 0 .. Bound[d]
         /\ d # "send_wq_depth" => LowerBound(t, d) = 0
         /\ d = "send_wq_depth" => LowerBound(t, d) = t.v["send_batch"]
  <1>1. /\ t.v["send_batch"] \in 0 .. Bound["send_batch"]
        /\ Bound["send_batch"] \in Nat /\ Bound[d] \in Nat
    BY TrafficFacts, BoundFacts, DimFacts
  <1>. QED
    BY <1>1, BoundFacts DEF LowerBound

LEMMA MutatedFacts ==
  ASSUME NEW t \in Traffic, NEW d \in Dims, NEW n \in Values(d)
  PROVE  Mutated(t, d, n) \in Traffic /\ Mutated(t, d, n).dir = t.dir
  <1>. DEFINE w == [t.v EXCEPT ![d] = n]
              u == [w EXCEPT !["send_wq_depth"] = w["send_batch"]]
  <1>1. /\ t.v \in [Dims -> Nat] /\ \A e \in Dims : t.v[e] \in 0 .. Bound[e]
        /\ t = [v |-> t.v, dir |-> t.dir]
    BY TrafficFacts
  <1>2. w \in [Dims -> Nat] /\ \A e \in Dims : w[e] \in 0 .. Bound[e]
    BY <1>1, BoundFacts DEF Values
  <1>3. w \in Vectors
    BY <1>2, VectorFacts
  <1>4. u \in Vectors
    <2>1. w["send_batch"] \in 0 .. Bound["send_batch"]
      BY <1>2, DimFacts
    <2>2. w["send_batch"] \in 0 .. Bound["send_wq_depth"]
      BY <2>1, BoundFacts, DimFacts
    <2>. HIDE DEF w
    <2>3. w["send_batch"] \in Nat
      BY <1>2, DimFacts
    <2>4. /\ u \in [Dims -> Nat]
          /\ \A e \in Dims :
               u[e] = IF e = "send_wq_depth" THEN w["send_batch"] ELSE w[e]
      BY <1>2, <2>3
    <2>5. \A e \in Dims : u[e] \in 0 .. Bound[e]
      BY <1>2, <2>2, <2>4
    <2>. QED
      BY <2>4, <2>5, VectorFacts
  <1>5. \A x \in Vectors : [t EXCEPT !.v = x] \in Traffic
                           /\ [t EXCEPT !.v = x].dir = t.dir
    BY <1>1 DEF Traffic
  <1>6. Mutated(t, d, n) = [t EXCEPT !.v = w] \/ Mutated(t, d, n) = [t EXCEPT !.v = u]
    BY DEF Mutated
  <1>. HIDE DEF w, u
  <1>7. CASE Mutated(t, d, n) = [t EXCEPT !.v = w]
    BY <1>3, <1>5, <1>7
  <1>8. CASE Mutated(t, d, n) = [t EXCEPT !.v = u]
    BY <1>4, <1>5, <1>8
  <1>. QED
    BY <1>6, <1>7, <1>8

(* The queue pairs of a point. *)
Room == 2 * (Bound["qp_num"] + 1)

LEMMA QpsFacts ==
  ASSUME NEW p \in Point
  PROVE  /\ Qps(p) \in [1 .. 2 -> Nat]
         /\ \A i \in 1 .. 2 : Qps(p)[i] <= Room
         /\ Room \in Nat
  <1>1. Bound["qp_num"] \in Nat
    BY BoundFacts, DimFacts
  <1>2. Room \in Nat
    BY <1>1 DEF Room
  <1>3. ASSUME NEW t \in Traffic
        PROVE  NumQps(t) \in Nat /\ NumQps(t) <= Room
    <2>1. t.v["qp_num"] \in 0 .. Bound["qp_num"]
      BY TrafficFacts, DimFacts
    <2>2. /\ (t.v["qp_num"] + 1) * 1 = t.v["qp_num"] + 1
          /\ (t.v["qp_num"] + 1) * 2 = 2 * (t.v["qp_num"] + 1)
      BY <2>1
    <2>3. NumQps(t) = t.v["qp_num"] + 1 \/ NumQps(t) = 2 * (t.v["qp_num"] + 1)
      BY <2>2 DEF NumQps
    <2>. QED
      BY <1>1, <2>1, <2>3 DEF Room
  <1>4. \A i \in 1 .. 2 :
          Qps(p)[i] = IF i \in DOMAIN p THEN NumQps(p[i]) ELSE 0
    BY DEF Qps
  <1>5. \A i \in 1 .. 2 : Qps(p)[i] \in Nat /\ Qps(p)[i] <= Room
    BY <1>2, <1>3, <1>4, PointFacts
  <1>6. Qps(p) = [i \in 1 .. 2 |-> Qps(p)[i]]
    BY DEF Qps
  <1>. QED
    BY <1>2, <1>5, <1>6

-----------------------------------------------------------------------------
(* Types, and where counters and answers are used. *)

GenRecord ==
  [i : 1 .. 2, k : 1 .. (Len(Order) + 1), side : {"lower", "upper"},
   low : BOOLEAN, core : Point, mfs : MfsType, misled : BOOLEAN]

GenType ==
  {g \in GenRecord : g.i \in DOMAIN g.core /\ DOMAIN g.mfs = DOMAIN g.core}

WalkType ==
  /\ card \in DOMAIN Card
  /\ left \in 0 .. Iters
  /\ flag \in -1 .. kStageIterations
  /\ point \in FullPoint
  /\ found \subseteq [mfs : MfsType, loopback : BOOLEAN]

EngineType ==
  /\ up \in [1 .. 2 -> Nat] /\ late \in [1 .. 2 -> Nat]
  /\ \A i \in 1 .. 2 : up[i] + late[i] <= Room
  /\ strays \in Nat /\ tardy \in Nat
  /\ strays + tardy <= outlived /\ outlived \in 0 .. Strays
  /\ blame \subseteq {"survived", "late", "died"}
  /\ faults \in 0 .. Faults

PlaceType ==
  /\ at \in {"clean", "check", "choose", "leave", "launch", "await", "monitor",
             "done", "failed"}
  /\ job \in {"search", "forward", "backward", "test", "redo"}

Placed ==
  /\ at \notin {"clean", "check", "done", "failed"} \/ job # "search" => left > 0
  /\ at \in {"leave", "launch", "await", "monitor"} /\ job = "search" => flag > 0
  /\ at \in {"choose", "leave", "done", "failed"} => job = "search"
  /\ at \in {"check", "choose", "leave", "launch"} => up = None /\ late = None
  /\ job = "test" => gen.k \in 1 .. 3
  /\ job = "redo" => gen.k = 4 /\ gen.i + 1 \notin DOMAIN gen.core

Typed == PlaceType /\ WalkType /\ EngineType /\ gen \in GenType /\ Placed

LEMMA TypeParts ==
  PlaceType /\ WalkType /\ EngineType /\ gen \in GenType => TypeOK
  <1>. SUFFICES ASSUME PlaceType, WalkType, EngineType, gen \in GenType PROVE TypeOK
    OBVIOUS
  <1>1. Numbers = [1 .. 2 -> 0 .. Room]
    BY DEF Numbers, Room
  <1>2. Room \in Nat
    BY BoundFacts, DimFacts DEF Room
  <1>3. \A i \in 1 .. 2 : up[i] \in 0 .. Room /\ late[i] \in 0 .. Room
    BY <1>2 DEF EngineType
  <1>4. up \in Numbers /\ late \in Numbers
    BY <1>1, <1>3 DEF EngineType
  <1>5. strays + tardy <= Strays
    BY SearchAssumption DEF EngineType
  <1>. QED
    BY <1>4, <1>5 DEF TypeOK, PlaceType, WalkType, EngineType, GenType, GenRecord

LEMMA WalkKept ==
  ASSUME WalkType, UNCHANGED searchVars
  PROVE  WalkType'
  BY DEF WalkType, searchVars

LEMMA EngineKept ==
  ASSUME EngineType, UNCHANGED <<up, late, strays, tardy, blame, outlived>>,
         Fails \/ UNCHANGED faults
  PROVE  EngineType'
  <1>1. faults \in 0 .. Faults /\ Faults \in Nat
    BY SearchAssumption DEF EngineType
  <1>2. faults' \in 0 .. Faults
    BY <1>1 DEF Fails
  <1>. QED
    BY <1>2 DEF EngineType

LEMMA GenFacts ==
  ASSUME NEW g \in GenType
  PROVE  /\ g.i \in 1 .. 2 /\ g.k \in 1 .. 4 /\ g.side \in {"lower", "upper"}
         /\ g.low \in BOOLEAN /\ g.core \in Point
         /\ g.misled \in BOOLEAN
         /\ g.i \in DOMAIN g.core /\ DOMAIN g.mfs = DOMAIN g.core
         /\ g.mfs \in MfsType
         /\ \A j \in DOMAIN g.core : g.mfs[j] \in SUBSET FeatureSet
         /\ g.core[g.i] \in Traffic
  <1>1. /\ g.i \in 1 .. 2 /\ g.k \in 1 .. 4 /\ g.side \in {"lower", "upper"}
        /\ g.low \in BOOLEAN /\ g.core \in Point
        /\ g.misled \in BOOLEAN
        /\ g.i \in DOMAIN g.core /\ DOMAIN g.mfs = DOMAIN g.core
        /\ g.mfs \in MfsType
    BY OrderFacts DEF GenType, GenRecord
  <1>2. g.mfs \in [DOMAIN g.core -> SUBSET FeatureSet]
    BY <1>1 DEF MfsType
  <1>. QED
    BY <1>1, <1>2, PointFacts

LEMMA GenMakes ==
  ASSUME NEW i \in 1 .. 2, NEW k \in 1 .. 4, NEW side \in {"lower", "upper"},
         NEW low \in BOOLEAN, NEW core \in Point, NEW mfs \in MfsType,
         NEW misled \in BOOLEAN, i \in DOMAIN core, DOMAIN mfs = DOMAIN core
  PROVE  [i |-> i, k |-> k, side |-> side, low |-> low, core |-> core,
          mfs |-> mfs, misled |-> misled] \in GenType
  <1>1. [i |-> i, k |-> k, side |-> side, low |-> low, core |-> core,
         mfs |-> mfs, misled |-> misled] \in GenRecord
    BY OrderFacts DEF GenRecord
  <1>. QED
    BY <1>1 DEF GenType

(* No features yet. *)
Nothing(p) == [i \in DOMAIN p |-> {}]

(* The first test of a point. *)
Fresh(p, m) == [Gen(p) EXCEPT !.misled = m]

LEMMA GenOf ==
  ASSUME NEW p \in Point, NEW m \in BOOLEAN
  PROVE  /\ Fresh(p, m) \in GenType /\ Gen(p) \in GenType
         /\ Fresh(p, m).i = 1 /\ Fresh(p, m).k = 1
         /\ Fresh(p, m).side = "lower" /\ Fresh(p, m).core = p
         /\ Fresh(p, m).mfs = Nothing(p) /\ Fresh(p, m).misled = m
  <1>. DEFINE mfs == Nothing(p)
  <1>1. mfs \in MfsType /\ DOMAIN mfs = DOMAIN p
    BY PointFacts DEF MfsType, Nothing
  <1>2. Gen(p) = [i |-> 1, k |-> 1, side |-> "lower", low |-> FALSE, core |-> p,
                  mfs |-> mfs, misled |-> FALSE]
    BY DEF Gen, Nothing
  <1>3. Fresh(p, m) = [i |-> 1, k |-> 1, side |-> "lower", low |-> FALSE,
                       core |-> p, mfs |-> mfs, misled |-> m]
    <2>. HIDE DEF mfs
    <2>. DEFINE g == [i |-> 1, k |-> 1, side |-> "lower", low |-> FALSE,
                      core |-> p, mfs |-> mfs, misled |-> FALSE]
    <2>1. Fresh(p, m) = [g EXCEPT !.misled = m]
      BY <1>2 DEF Fresh
    <2>. QED
      BY <2>1
  <1>. HIDE DEF mfs
  <1>4. 1 \in DOMAIN p /\ 1 \in 1 .. 2 /\ 1 \in 1 .. 4
    BY PointFacts
  <1>5. Fresh(p, m) \in GenType
    BY <1>1, <1>3, <1>4, GenMakes
  <1>6. Gen(p) \in GenType
    BY <1>1, <1>2, <1>4, GenMakes
  <1>. QED
    BY <1>3, <1>5, <1>6 DEF mfs

LEMMA NoGenFacts == NoGen \in GenType
  <1>1. (CHOOSE p \in Random : TRUE) \in Point
    BY SearchAssumption, FullFacts
  <1>. QED
    BY <1>1, GenOf DEF NoGen

LEMMA DimInDims ==
  ASSUME gen.k \in 1 .. 3
  PROVE  Dim \in Dims /\ (Optimal <=> gen.k = 1)
  BY OrderFacts DEF Dim, Optimal

LEMMA FeatureFacts ==
  ASSUME gen.k \in 1 .. 3, NEW lo \in Nat, NEW hi \in Nat
  PROVE  Feature(lo, hi) \in SUBSET FeatureSet
  BY DimInDims DEF Feature, FeatureSet

(* The point with another value in the dimension that is tested; with the  *)
(* lower bound.                                                            *)
Variant(x) == PointWith(gen.core, gen.i, Dim, x)
Simple == Variant(LowerBound(Tested, Dim))

LEMMA TestFacts ==
  ASSUME gen \in GenType, gen.k \in 1 .. 3
  PROVE  /\ Dim \in Dims /\ Tested \in Traffic /\ gen.core \in Point
         /\ Bound[Dim] \in Nat /\ Bound[Dim] \in 0 .. Bound[Dim]
         /\ LowerBound(Tested, Dim) \in 0 .. Bound[Dim]
         /\ Tested.v[Dim] \in 0 .. Bound[Dim]
         /\ \A x \in 0 .. Bound[Dim] :
              /\ Variant(x) \in Point /\ DOMAIN Variant(x) = DOMAIN gen.core
              /\ Variant(x)[gen.i] = With(Tested, Dim, x)
              /\ \A j \in DOMAIN gen.core \ {gen.i} : Variant(x)[j] = gen.core[j]
              /\ \A j \in DOMAIN gen.core : Variant(x)[j].dir = gen.core[j].dir
         /\ TestPoint = Variant(IF gen.side = "lower" THEN LowerBound(Tested, Dim)
                                ELSE Bound[Dim])
         /\ TestPoint \in Point
         /\ Simple \in Point /\ DOMAIN Simple = DOMAIN gen.core
  <1>1. /\ Dim \in Dims /\ gen.core \in Point /\ Tested \in Traffic
        /\ gen.i \in DOMAIN gen.core
    BY GenFacts, DimInDims DEF Tested
  <1>2. /\ Bound[Dim] \in Nat /\ Bound[Dim] \in 0 .. Bound[Dim]
        /\ LowerBound(Tested, Dim) \in 0 .. Bound[Dim]
        /\ Tested.v[Dim] \in 0 .. Bound[Dim]
    BY <1>1, LowerFacts, BoundFacts, TrafficFacts
  <1>3. ASSUME NEW x \in 0 .. Bound[Dim]
        PROVE  /\ Variant(x) \in Point /\ DOMAIN Variant(x) = DOMAIN gen.core
               /\ Variant(x)[gen.i] = With(Tested, Dim, x)
               /\ \A j \in DOMAIN gen.core \ {gen.i} : Variant(x)[j] = gen.core[j]
               /\ \A j \in DOMAIN gen.core : Variant(x)[j].dir = gen.core[j].dir
    BY <1>1, PointWithFacts DEF Variant, Tested
  <1>4. TestPoint = Variant(IF gen.side = "lower" THEN LowerBound(Tested, Dim)
                            ELSE Bound[Dim])
    BY DEF TestPoint, Variant, PointWith
  <1>5. (IF gen.side = "lower" THEN LowerBound(Tested, Dim) ELSE Bound[Dim])
          \in 0 .. Bound[Dim]
    BY <1>2
  <1>6. TestPoint \in Point /\ Simple \in Point /\ DOMAIN Simple = DOMAIN gen.core
    BY <1>2, <1>3, <1>4, <1>5 DEF Simple
  <1>. QED
    BY <1>1, <1>2, <1>3, <1>4, <1>6

LEMMA GoalFacts == Typed => Goal \in Point
  <1>. SUFFICES ASSUME Typed PROVE Goal \in Point
    OBVIOUS
  <1>1. /\ point \in Point /\ gen.core \in Point
        /\ job \in {"search", "forward", "backward", "test", "redo"}
    BY FullFacts, GenFacts DEF Typed, PlaceType, WalkType
  <1>2. job = "test" => TestPoint \in Point
    BY TestFacts DEF Typed, Placed
  <1>. QED
    BY <1>1, <1>2 DEF Goal

LEMMA NextDimFacts ==
  ASSUME gen \in GenType, gen.k \in 1 .. 3, NEW core \in Point,
         DOMAIN core = DOMAIN gen.core,
         NEW features \in SUBSET FeatureSet, NEW misled \in BOOLEAN,
         NextDim(core, features, misled)
  PROVE  /\ gen' \in GenType /\ gen'.side = "lower"
         /\ gen'.core = core /\ gen'.misled = misled
         /\ \A j \in DOMAIN core :
              gen'.mfs[j] = IF j = gen.i THEN gen.mfs[j] \cup features ELSE gen.mfs[j]
         /\ \/ /\ gen.k < 3 /\ gen'.i = gen.i /\ gen'.k = gen.k + 1
               /\ job' = "test"
            \/ /\ gen.k = 3 /\ gen.i = 1 /\ 2 \in DOMAIN core
               /\ gen'.i = 2 /\ gen'.k = 1 /\ job' = "test"
            \/ /\ gen.k = 3 /\ gen.i + 1 \notin DOMAIN core
               /\ gen'.i = gen.i /\ gen'.k = 4 /\ job' = "redo"
  <1>. DEFINE last == gen.k = Len(Order)
              more == gen.i + 1 \in DOMAIN gen.core
              i == IF last /\ more THEN gen.i + 1 ELSE gen.i
              k == IF last /\ more THEN 1 ELSE gen.k + 1
              mfs == [gen.mfs EXCEPT ![gen.i] = gen.mfs[gen.i] \cup features]
  <1>1. gen' = [i |-> i, k |-> k, side |-> "lower", low |-> FALSE, core |-> core,
                mfs |-> mfs, misled |-> misled]
    BY DEF NextDim, GenType, GenRecord
  <1>2. /\ DOMAIN mfs = DOMAIN core /\ mfs \in MfsType
        /\ \A j \in DOMAIN core :
             mfs[j] = IF j = gen.i THEN gen.mfs[j] \cup features ELSE gen.mfs[j]
    <2>1. DOMAIN gen.mfs = DOMAIN core /\ gen.i \in DOMAIN core
      BY GenFacts
    <2>2. /\ DOMAIN mfs = DOMAIN core
          /\ \A j \in DOMAIN core :
               mfs[j] = IF j = gen.i THEN gen.mfs[j] \cup features ELSE gen.mfs[j]
      BY <2>1
    <2>3. \A j \in DOMAIN core : mfs[j] \in SUBSET FeatureSet
      BY <2>2, GenFacts
    <2>4. mfs \in [DOMAIN core -> SUBSET FeatureSet]
      <3>1. mfs = [j \in DOMAIN core |-> mfs[j]]
        BY <2>1
      <3>. HIDE DEF mfs
      <3>. QED
        BY <2>3, <3>1
    <2>5. DOMAIN core = 1 .. 1 \/ DOMAIN core = 1 .. 2
      BY PointFacts
    <2>. HIDE DEF mfs
    <2>. QED
      BY <2>2, <2>4, <2>5 DEF MfsType
  <1>3. gen.i \in 1 .. 2 /\ gen.i \in DOMAIN core /\ Len(Order) = 3
        /\ \A j \in DOMAIN core : j \in 1 .. 2
    BY GenFacts, OrderFacts, PointFacts
  <1>4. \/ gen.k < 3 /\ i = gen.i /\ k = gen.k + 1
        \/ gen.k = 3 /\ gen.i = 1 /\ 2 \in DOMAIN core /\ i = 2 /\ k = 1
        \/ gen.k = 3 /\ gen.i + 1 \notin DOMAIN core /\ i = gen.i /\ k = 4
    <2>1. CASE gen.k < 3
      BY <1>3, <2>1
    <2>2. CASE gen.k = 3 /\ gen.i + 1 \in DOMAIN core
      <3>1. gen.i = 1
        BY <1>3, <2>2
      <3>. QED
        BY <1>3, <2>2, <3>1
    <2>3. CASE gen.k = 3 /\ gen.i + 1 \notin DOMAIN core
      BY <1>3, <2>3
    <2>. QED
      BY <2>1, <2>2, <2>3
  <1>5. i \in 1 .. 2 /\ k \in 1 .. 4 /\ i \in DOMAIN core
    BY <1>3, <1>4
  <1>6. job' = IF last /\ ~ more THEN "redo" ELSE "test"
    BY DEF NextDim
  <1>7. \/ gen.k < 3 /\ job' = "test"
        \/ gen.k = 3 /\ 2 \in DOMAIN core /\ gen.i = 1 /\ job' = "test"
        \/ gen.k = 3 /\ gen.i + 1 \notin DOMAIN core /\ job' = "redo"
    BY <1>3, <1>4, <1>6
  <1>8. gen.k = 3 /\ gen.i = 1 /\ 2 \in DOMAIN core => ~ (gen.i + 1 \notin DOMAIN core)
    OBVIOUS
  <1>. HIDE DEF last, more, i, k, mfs
  <1>9. gen' \in GenType
    BY <1>1, <1>2, <1>5, GenMakes
  <1>10. /\ gen'.side = "lower" /\ gen'.core = core /\ gen'.misled = misled
         /\ gen'.mfs = mfs /\ gen'.i = i /\ gen'.k = k
    BY <1>1
  <1>. QED
    BY <1>2, <1>4, <1>7, <1>8, <1>9, <1>10

LEMMA IntervalFacts ==
  ASSUME gen \in GenType, gen.k \in 1 .. 3, NEW low \in BOOLEAN, NEW upp \in BOOLEAN
  PROVE  /\ Interval(Tested.v[Dim], low, upp) \in SUBSET FeatureSet
         /\ Feature(Tested.v[Dim], Bound[Dim]) \in SUBSET FeatureSet
  BY TestFacts, FeatureFacts DEF Interval

(* Where an answer leads, case by case. *)
AnswerEnough(yes, misled) ==
  /\ job \in {"forward", "backward"} /\ yes
  /\ gen' = Fresh(gen.core, misled) /\ job' = "test"

AnswerBackward(yes, misled) ==
  /\ job = "forward" /\ ~ yes /\ point[2].dir = "backward"
  /\ gen' = Fresh(Alone(point[2]), misled) /\ job' = "backward"

AnswerBoth(yes, misled) ==
  /\ job \in {"forward", "backward"} /\ ~ yes
  /\ job = "backward" \/ point[2].dir = "loopback"
  /\ gen' = Fresh(point, misled) /\ job' = "test"

AnswerUpper(yes, misled) ==
  /\ job = "test" /\ ~ Optimal /\ gen.side = "lower"
  /\ gen' = [gen EXCEPT !.side = "upper", !.low = yes, !.misled = misled]
  /\ job' = "test"

AnswerSimple(yes, misled) ==
  /\ job = "test" /\ yes
  /\ IF Optimal THEN TRUE ELSE gen.side = "upper" /\ gen.low
  /\ NextDim(Simple, {}, misled)

AnswerOptimal(yes, misled) ==
  /\ job = "test" /\ Optimal /\ ~ yes
  /\ NextDim(gen.core, Feature(Tested.v[Dim], Bound[Dim]), misled)

AnswerInterval(yes, misled) ==
  /\ job = "test" /\ ~ Optimal /\ gen.side = "upper" /\ ~ (gen.low /\ yes)
  /\ NextDim(gen.core, Interval(Tested.v[Dim], gen.low, yes), misled)

LEMMA AnswerCases ==
  ASSUME NEW yes \in BOOLEAN, NEW misled \in BOOLEAN, Answer(yes, misled)
  PROVE  \/ AnswerEnough(yes, misled) \/ AnswerBackward(yes, misled)
         \/ AnswerBoth(yes, misled) \/ AnswerUpper(yes, misled)
         \/ AnswerSimple(yes, misled) \/ AnswerOptimal(yes, misled)
         \/ AnswerInterval(yes, misled)
  <1>1. CASE job \in {"forward", "backward"} /\ AnswerAlone(yes, misled)
    BY <1>1 DEF AnswerAlone, StartWith, Fresh, AnswerEnough, AnswerBackward, AnswerBoth
  <1>2. CASE job = "test" /\ AnswerTest(yes, misled)
    BY <1>2 DEF AnswerTest, AnswerUpper, AnswerSimple, AnswerOptimal,
                AnswerInterval, Simple, Variant, PointWith
  <1>. QED
    BY <1>1, <1>2 DEF Answer

LEMMA UpperFacts ==
  ASSUME gen \in GenType, NEW yes \in BOOLEAN, NEW misled \in BOOLEAN,
         AnswerUpper(yes, misled)
  PROVE  /\ gen' \in GenType /\ gen'.i = gen.i /\ gen'.k = gen.k
         /\ gen'.side = "upper" /\ gen'.low = yes /\ gen'.core = gen.core
         /\ gen'.mfs = gen.mfs /\ gen'.misled = misled
  <1>1. gen' = [i |-> gen.i, k |-> gen.k, side |-> "upper", low |-> yes,
                core |-> gen.core, mfs |-> gen.mfs, misled |-> misled]
    BY DEF AnswerUpper, GenType, GenRecord
  <1>2. gen' \in GenType
    BY <1>1, GenFacts, GenMakes
  <1>. QED
    BY <1>1, <1>2

LEMMA AnswerTypes ==
  ASSUME Typed, job \in {"forward", "backward", "test"}, NEW yes \in BOOLEAN,
         NEW misled \in BOOLEAN, Answer(yes, misled)
  PROVE  /\ gen' \in GenType /\ job' \in {"backward", "test", "redo"}
         /\ job' = "test" => gen'.k \in 1 .. 3
         /\ job' = "redo" => gen'.k = 4 /\ gen'.i + 1 \notin DOMAIN gen'.core
  <1>. DEFINE P == /\ gen' \in GenType /\ job' \in {"backward", "test", "redo"}
                   /\ job' = "test" => gen'.k \in 1 .. 3
                   /\ job' = "redo" => gen'.k = 4 /\ gen'.i + 1 \notin DOMAIN gen'.core
  <1>1. /\ gen \in GenType /\ (job = "test" => gen.k \in 1 .. 3)
        /\ point \in Point /\ gen.core \in Point /\ point[2] \in Traffic
    BY FullFacts, GenFacts DEF Typed, Placed, WalkType
  <1>2. ASSUME NEW p \in Point, gen' = Fresh(p, misled), job' \in {"backward", "test"}
        PROVE  P
    <2>1. gen' \in GenType /\ gen'.k = 1
      BY <1>2, GenOf
    <2>. QED
      BY <1>2, <2>1
  <1>3. CASE AnswerEnough(yes, misled) \/ AnswerBackward(yes, misled)
             \/ AnswerBoth(yes, misled)
    <2>1. Alone(point[2]) \in Point
      BY <1>1, AloneFacts
    <2>. QED
      BY <1>1, <1>2, <1>3, <2>1 DEF AnswerEnough, AnswerBackward, AnswerBoth
  <1>4. CASE AnswerUpper(yes, misled)
    BY <1>1, <1>4, UpperFacts DEF AnswerUpper
  <1>5. ASSUME job = "test", NEW core \in Point, DOMAIN core = DOMAIN gen.core,
               NEW features \in SUBSET FeatureSet, NextDim(core, features, misled)
        PROVE  P
    <2>1. gen.k \in 1 .. 3 /\ gen \in GenType
      BY <1>1, <1>5
    <2>2. misled \in BOOLEAN /\ core \in Point /\ features \in SUBSET FeatureSet
          /\ DOMAIN core = DOMAIN gen.core /\ NextDim(core, features, misled)
      BY <1>5
    <2>. HIDE DEF P
    <2>3. /\ gen' \in GenType /\ gen'.core = core
          /\ \/ /\ gen.k < 3 /\ gen'.i = gen.i /\ gen'.k = gen.k + 1
                /\ job' = "test"
             \/ /\ gen.k = 3 /\ gen.i = 1 /\ 2 \in DOMAIN core
                /\ gen'.i = 2 /\ gen'.k = 1 /\ job' = "test"
             \/ /\ gen.k = 3 /\ gen.i + 1 \notin DOMAIN core
                /\ gen'.i = gen.i /\ gen'.k = 4 /\ job' = "redo"
      BY <2>1, <2>2, NextDimFacts
    <2>. QED
      BY <2>1, <2>3 DEF P
  <1>. HIDE DEF P
  <1>6. CASE AnswerSimple(yes, misled)
    <2>1. Simple \in Point /\ DOMAIN Simple = DOMAIN gen.core /\ {} \in SUBSET FeatureSet
      BY <1>1, <1>6, TestFacts DEF AnswerSimple
    <2>. QED
      BY <1>5, <1>6, <2>1 DEF AnswerSimple, P
  <1>7. CASE AnswerOptimal(yes, misled)
    <2>1. Feature(Tested.v[Dim], Bound[Dim]) \in SUBSET FeatureSet
      BY <1>1, <1>7, IntervalFacts DEF AnswerOptimal
    <2>. QED
      BY <1>1, <1>5, <1>7, <2>1 DEF AnswerOptimal, P
  <1>8. CASE AnswerInterval(yes, misled)
    <2>1. Interval(Tested.v[Dim], gen.low, yes) \in SUBSET FeatureSet
      BY <1>1, <1>8, GenFacts, IntervalFacts DEF AnswerInterval
    <2>. QED
      BY <1>1, <1>5, <1>8, <2>1 DEF AnswerInterval, P
  <1>. QED
    BY <1>3, <1>4, <1>6, <1>7, <1>8, AnswerCases DEF P

LEMMA GeneratedTypes ==
  ASSUME Typed, left > 0, NEW keep \in BOOLEAN, Generated(keep)
  PROVE  WalkType' /\ gen' \in GenType /\ at' = "clean" /\ job' = "search"
  <1>1. /\ WalkType /\ left' = left - 1 /\ left' \in 0 .. Iters
        /\ gen.mfs \in MfsType
    BY GenFacts, SearchAssumption DEF Typed, WalkType, Generated, NextIteration
  <1>2. Features \in [mfs : MfsType, loopback : BOOLEAN]
    BY <1>1 DEF Features
  <1>3. found' = found \/ found' = found \cup {Features}
    BY DEF Generated
  <1>4. found' \subseteq [mfs : MfsType, loopback : BOOLEAN]
    BY <1>1, <1>2, <1>3 DEF WalkType
  <1>5. /\ flag' = -1 /\ gen' = NoGen /\ at' = "clean" /\ job' = "search"
        /\ card' = card /\ point' = point
    BY DEF Generated, NextIteration
  <1>6. flag' \in -1 .. kStageIterations
    BY <1>5 DEF kStageIterations
  <1>7. WalkType'
    BY <1>1, <1>4, <1>5, <1>6 DEF WalkType
  <1>. QED
    BY <1>5, <1>7, NoGenFacts

LEMMA TypedInit == Init => Typed
  <1>. SUFFICES ASSUME Init PROVE Typed
    OBVIOUS
  <1>1. PlaceType
    BY DEF Init, PlaceType
  <1>2. WalkType
    BY SearchAssumption DEF Init, WalkType, kStageIterations
  <1>3. EngineType
    <2>1. Room \in Nat
      BY BoundFacts, DimFacts DEF Room
    <2>. QED
      BY <2>1, SearchAssumption DEF Init, None, EngineType
  <1>4. gen \in GenType
    BY NoGenFacts DEF Init
  <1>5. Placed
    BY DEF Init, Placed
  <1>. QED
    BY <1>1, <1>2, <1>3, <1>4, <1>5 DEF Typed

LEMMA SumFacts ==
  ASSUME NEW s \in Nat, NEW t \in Nat, NEW o \in Nat
  PROVE  /\ o + s + t \in Nat /\ s + t <= o + s + t
         /\ \A x \in Nat : x <= s /\ s + t <= o => x + t <= o
         /\ t > 0 /\ s + t <= o =>
              /\ t - 1 \in Nat
              /\ \A x \in {s, s + 1} : x \in Nat /\ x + (t - 1) <= o
  OBVIOUS

(* The steps of the engine. *)
LEMMA TypedUp ==
  ASSUME Typed, ComeUp \/ ComeUpTardy \/ Die \/ Kill
  PROVE  Typed'
  <1>1. /\ PlaceType /\ WalkType /\ EngineType /\ gen \in GenType /\ Placed
        /\ Room \in Nat /\ Strays \in Nat /\ Faults \in Nat
    BY SearchAssumption, BoundFacts, DimFacts DEF Typed, Room
  <1>2. UNCHANGED <<job, searchVars, gen>>
    BY DEF ComeUp, ComeUpTardy, Die, Kill
  <1>3. WalkType'
    BY <1>1, <1>2, WalkKept
  <1>4. UNCHANGED <<card, left, flag, point, found>>
    BY <1>2 DEF searchVars
  <1>5. CASE ComeUp
    <2>1. PICK i \in 1 .. 2 :
            /\ late[i] > 0 /\ late' = [late EXCEPT ![i] = @ - 1]
            /\ up' = [up EXCEPT ![i] = @ + 1] \/ up' = up
      BY <1>5 DEF ComeUp
    <2>2. UNCHANGED <<strays, tardy, blame, outlived, faults>>
          /\ at \in {"await", "monitor"} /\ at' = at
      BY <1>5 DEF ComeUp, Running
    <2>a. /\ up \in [1 .. 2 -> Nat] /\ late \in [1 .. 2 -> Nat]
          /\ \A j \in 1 .. 2 : up[j] + late[j] <= Room
      BY <1>1 DEF EngineType
    <2>b. /\ late' \in [1 .. 2 -> Nat] /\ late'[i] = late[i] - 1
          /\ \A j \in 1 .. 2 \ {i} : late'[j] = late[j]
      BY <2>1, <2>a
    <2>c. /\ up' \in [1 .. 2 -> Nat] /\ up'[i] \in {up[i], up[i] + 1}
          /\ \A j \in 1 .. 2 \ {i} : up'[j] = up[j]
      BY <2>1, <2>a
    <2>3. /\ up' \in [1 .. 2 -> Nat] /\ late' \in [1 .. 2 -> Nat]
          /\ \A j \in 1 .. 2 : up'[j] + late'[j] <= Room
      BY <1>1, <2>a, <2>b, <2>c
    <2>4. EngineType'
      BY <1>1, <2>2, <2>3 DEF EngineType
    <2>5. PlaceType' /\ Placed'
      BY <1>1, <1>2, <1>4, <2>2 DEF PlaceType, Placed
    <2>. QED
      BY <1>1, <1>2, <1>3, <2>4, <2>5 DEF Typed
  <1>6. CASE ComeUpTardy
    <2>1. /\ tardy > 0 /\ tardy' = tardy - 1 /\ strays' \in {strays, strays + 1}
          /\ UNCHANGED <<at, up, late, blame, outlived, faults>>
      BY <1>6 DEF ComeUpTardy
    <2>a. /\ strays \in Nat /\ tardy \in Nat /\ outlived \in Nat
          /\ strays + tardy <= outlived
      BY <1>1 DEF EngineType
    <2>b. strays' \in Nat /\ tardy' \in Nat /\ strays' + tardy' <= outlived
      <3>1. strays' \in {strays, strays + 1} /\ tardy' = tardy - 1 /\ tardy > 0
        BY <2>1
      <3>2. /\ tardy - 1 \in Nat
            /\ \A x \in {strays, strays + 1} : x \in Nat /\ x + (tardy - 1) <= outlived
        BY <2>a, <3>1, SumFacts
      <3>3. strays' \in Nat /\ strays' + (tardy - 1) <= outlived
        BY <3>1, <3>2
      <3>. QED
        BY <3>1, <3>2, <3>3
    <2>2. EngineType'
      BY <1>1, <2>1, <2>b DEF EngineType
    <2>3. PlaceType' /\ Placed'
      BY <1>1, <1>2, <1>4, <2>1 DEF PlaceType, Placed
    <2>. QED
      BY <1>1, <1>2, <1>3, <2>2, <2>3 DEF Typed
  <1>7. CASE Die
    <2>1. /\ \/ \E i \in 1 .. 2 : \E n \in 1 .. up[i] :
                  up' = [up EXCEPT ![i] = @ - n] /\ strays' = strays
             \/ \E n \in 1 .. strays : strays' = strays - n /\ up' = up
          /\ blame' \subseteq blame \cup {"died"} /\ Fails
          /\ UNCHANGED <<late, tardy, outlived>>
          /\ at \in {"await", "monitor"} /\ at' = at
      BY <1>7 DEF Die, Running
    <2>2. /\ up' \in [1 .. 2 -> Nat] /\ strays' \in Nat /\ strays' <= strays
          /\ \A i \in 1 .. 2 : up'[i] <= up[i]
      <3>1. up \in [1 .. 2 -> Nat] /\ strays \in Nat
        BY <1>1 DEF EngineType
      <3>2. ASSUME NEW i \in 1 .. 2, NEW n \in 1 .. up[i],
                   up' = [up EXCEPT ![i] = @ - n]
            PROVE  up' \in [1 .. 2 -> Nat] /\ \A j \in 1 .. 2 : up'[j] <= up[j]
        <4>1. /\ up'[i] = up[i] - n /\ \A j \in 1 .. 2 \ {i} : up'[j] = up[j]
              /\ up[i] \in Nat /\ up[i] - n \in Nat /\ up[i] - n <= up[i]
          BY <3>1, <3>2
        <4>2. up' \in [1 .. 2 -> Nat]
          BY <3>1, <3>2, <4>1
        <4>. QED
          BY <3>1, <4>1, <4>2
      <3>. QED
        BY <2>1, <3>1, <3>2
    <2>3. faults' \in 0 .. Faults
      BY <1>1, <2>1 DEF Fails, EngineType
    <2>4. \A i \in 1 .. 2 : up'[i] + late'[i] <= Room
      <3>. SUFFICES ASSUME NEW i \in 1 .. 2 PROVE up'[i] + late'[i] <= Room
        OBVIOUS
      <3>1. up'[i] \in Nat /\ up[i] \in Nat /\ late[i] \in Nat /\ late'[i] = late[i]
            /\ up'[i] <= up[i] /\ up[i] + late[i] <= Room
        BY <1>1, <2>1, <2>2 DEF EngineType
      <3>. QED
        BY <1>1, <3>1
    <2>5. strays' + tardy' <= outlived'
      <3>1. /\ strays \in Nat /\ tardy \in Nat /\ outlived \in Nat
            /\ strays + tardy <= outlived
        BY <1>1 DEF EngineType
      <3>2. strays' \in Nat /\ strays' <= strays /\ tardy' = tardy
            /\ outlived' = outlived
        BY <2>1, <2>2
      <3>. QED
        BY <3>1, <3>2, SumFacts
    <2>6. EngineType'
      BY <1>1, <2>1, <2>2, <2>3, <2>4, <2>5 DEF EngineType
    <2>7. PlaceType' /\ Placed'
      BY <1>1, <1>2, <1>4, <2>1 DEF PlaceType, Placed
    <2>. QED
      BY <1>1, <1>2, <1>3, <2>6, <2>7 DEF Typed
  <1>8. CASE Kill
    <2>1. /\ at = "clean" /\ at' = "check" /\ up' = None /\ late' = None
          /\ tardy' \in 0 .. (tardy + Total(late))
          /\ strays' \in 0 .. (strays + Total(up))
          /\ outlived' = outlived + strays' + tardy' /\ outlived' <= Strays
          /\ Fails \/ UNCHANGED faults
          /\ blame' \subseteq {"survived", "late", "died"}
      BY <1>8 DEF Kill
    <2>2. strays' \in Nat /\ tardy' \in Nat
      BY <2>1
    <2>a. outlived \in Nat
      BY <1>1 DEF EngineType
    <2>d. outlived' = outlived + strays' + tardy' /\ outlived' <= Strays
      BY <2>1
    <2>e. outlived' \in Nat /\ strays' + tardy' <= outlived'
      BY <2>2, <2>a, <2>d, SumFacts
    <2>3. outlived' \in 0 .. Strays /\ strays' + tardy' <= outlived'
      BY <1>1, <2>d, <2>e
    <2>4. faults' \in 0 .. Faults
      BY <1>1, <2>1 DEF Fails, EngineType
    <2>b. /\ up' \in [1 .. 2 -> Nat] /\ late' \in [1 .. 2 -> Nat]
          /\ \A i \in 1 .. 2 : up'[i] = 0 /\ late'[i] = 0
      BY <2>1 DEF None
    <2>c. \A i \in 1 .. 2 : up'[i] + late'[i] <= Room
      BY <1>1, <2>b
    <2>5. EngineType'
      BY <1>1, <2>1, <2>2, <2>3, <2>4, <2>b, <2>c DEF EngineType
    <2>6. PlaceType' /\ Placed'
      BY <1>1, <1>2, <1>4, <2>1 DEF PlaceType, Placed
    <2>. QED
      BY <1>1, <1>2, <1>3, <2>5, <2>6 DEF Typed
  <1>. QED
    BY <1>5, <1>6, <1>7, <1>8

LEMMA TypedEngine ==
  ASSUME Typed, Clean \/ Launch \/ ComesUp
  PROVE  Typed'
  <1>1. /\ PlaceType /\ WalkType /\ EngineType /\ gen \in GenType /\ Placed
        /\ left \in Nat
    BY SearchAssumption DEF Typed, WalkType
  <1>2. UNCHANGED <<job, searchVars, gen>>
    BY DEF Clean, Launch, ComesUp
  <1>3. WalkType'
    BY <1>1, <1>2, WalkKept
  <1>4. UNCHANGED <<card, left, flag, point, found>>
    BY <1>2 DEF searchVars
  <1>5. CASE Clean
    <2>1. /\ UNCHANGED <<up, late, strays, tardy, blame, outlived, faults>>
          /\ at = "check"
          /\ job # "search" => at' = "launch"
          /\ job = "search" /\ left > 0 => at' = "choose"
          /\ job = "search" /\ ~ left > 0 => at' = "done"
      <3>1. left > 0 \/ left = 0
        BY <1>1
      <3>. QED
        BY <1>5, <3>1 DEF Clean, engineVars
    <2>2. EngineType'
      BY <1>1, <2>1, EngineKept
    <2>3. PlaceType' /\ Placed'
      BY <1>1, <1>2, <1>4, <2>1 DEF PlaceType, Placed
    <2>. QED
      BY <1>1, <1>2, <1>3, <2>2, <2>3 DEF Typed
  <1>6. CASE Launch
    <2>1. /\ at = "launch" /\ at' = "await" /\ late' = Qps(Goal)
          /\ UNCHANGED <<up, strays, tardy, blame, outlived, faults>>
      BY <1>6 DEF Launch
    <2>2. up = None
      BY <1>1, <2>1 DEF Placed
    <2>3. Goal \in Point
      BY GoalFacts
    <2>4. /\ late' \in [1 .. 2 -> Nat] /\ Room \in Nat
          /\ \A i \in 1 .. 2 : late'[i] <= Room
      BY <2>1, <2>3, QpsFacts
    <2>5. \A i \in 1 .. 2 : up'[i] + late'[i] <= Room
      BY <2>1, <2>2, <2>4 DEF None
    <2>6. EngineType'
      BY <1>1, <2>1, <2>4, <2>5 DEF EngineType
    <2>7. PlaceType' /\ Placed'
      BY <1>1, <1>2, <1>4, <2>1 DEF PlaceType, Placed
    <2>. QED
      BY <1>1, <1>2, <1>3, <2>6, <2>7 DEF Typed
  <1>7. CASE ComesUp
    <2>1. EngineType'
      BY <1>1, <1>7, EngineKept DEF ComesUp, engineVars
    <2>2. PlaceType' /\ Placed'
      BY <1>1, <1>2, <1>4, <1>7 DEF PlaceType, Placed, ComesUp
    <2>. QED
      BY <1>1, <1>2, <1>3, <2>1, <2>2 DEF Typed
  <1>. QED
    BY <1>5, <1>6, <1>7

(* The steps of the walk. *)
LEMMA TypedWalk ==
  ASSUME Typed, Choose \/ Redraw \/ Leave
  PROVE  Typed'
  <1>1. /\ PlaceType /\ WalkType /\ EngineType /\ gen \in GenType /\ Placed
    BY DEF Typed
  <1>2. UNCHANGED <<job, gen, engineVars, card, left, found>>
    BY DEF Choose, Redraw, Leave, searchVars
  <1>3. EngineType' /\ UNCHANGED <<up, late>>
    BY <1>1, <1>2, EngineKept DEF engineVars
  <1>4. CASE Choose
    <2>1. /\ at = "choose" /\ at' = "leave"
          /\ \/ point' \in Random /\ flag' = kStageIterations
             \/ /\ flag > 0 /\ flag' = flag
                /\ \E i \in DOMAIN point, d \in Dims : \E n \in Values(d) :
                     point' = [point EXCEPT ![i] = Mutated(point[i], d, n)]
      BY <1>4 DEF Choose, MutateValues
    <2>2. ASSUME NEW i \in DOMAIN point, NEW d \in Dims, NEW n \in Values(d)
          PROVE  [point EXCEPT ![i] = Mutated(point[i], d, n)] \in FullPoint
      <3>1. point \in Point /\ point \in FullPoint
        BY <1>1, FullFacts DEF WalkType
      <3>2. point[i] \in Traffic
        BY <3>1, PointFacts
      <3>3. Mutated(point[i], d, n) \in Traffic
            /\ Mutated(point[i], d, n).dir = point[i].dir
        BY <3>2, MutatedFacts
      <3>. QED
        BY <3>1, <3>3, ReplaceFacts
    <2>3. point' \in FullPoint
      BY <2>1, <2>2, SearchAssumption
    <2>4. flag' \in -1 .. kStageIterations /\ flag' > 0
      BY <1>1, <2>1 DEF WalkType, kStageIterations
    <2>5. WalkType'
      BY <1>1, <1>2, <2>3, <2>4 DEF WalkType
    <2>6. PlaceType' /\ Placed'
      BY <1>1, <1>2, <1>3, <2>1, <2>4 DEF PlaceType, Placed
    <2>. QED
      BY <1>1, <1>2, <1>3, <2>5, <2>6 DEF Typed
  <1>5. CASE Redraw
    <2>1. point' \in FullPoint /\ UNCHANGED <<at, flag>>
      BY <1>5, SearchAssumption DEF Redraw, DrawnPoint
    <2>2. WalkType' /\ PlaceType' /\ Placed'
      BY <1>1, <1>2, <1>3, <2>1 DEF WalkType, PlaceType, Placed
    <2>. QED
      BY <1>1, <1>2, <1>3, <2>2 DEF Typed
  <1>6. CASE Leave
    <2>1. at = "leave" /\ at' = "launch" /\ UNCHANGED <<flag, point>>
      BY <1>6 DEF Leave, searchVars
    <2>2. WalkType' /\ PlaceType' /\ Placed'
      BY <1>1, <1>2, <1>3, <2>1 DEF WalkType, PlaceType, Placed
    <2>. QED
      BY <1>1, <1>2, <1>3, <2>2 DEF Typed
  <1>. QED
    BY <1>4, <1>5, <1>6

LEMMA TypedAnswer ==
  ASSUME Typed, job \in {"forward", "backward", "test"}, NEW yes \in BOOLEAN,
         NEW misled \in BOOLEAN, Answer(yes, misled),
         at' = "clean", UNCHANGED searchVars, EngineType'
  PROVE  Typed'
  <1>1. left' > 0
    BY DEF Typed, Placed, searchVars
  <1>2. /\ gen' \in GenType /\ job' \in {"backward", "test", "redo"}
        /\ job' = "test" => gen'.k \in 1 .. 3
        /\ job' = "redo" => gen'.k = 4 /\ gen'.i + 1 \notin DOMAIN gen'.core
    BY AnswerTypes
  <1>3. WalkType'
    BY WalkKept DEF Typed
  <1>4. PlaceType' /\ Placed'
    BY <1>1, <1>2 DEF PlaceType, Placed
  <1>. QED
    BY <1>2, <1>3, <1>4 DEF Typed

LEMMA TypedGenerated ==
  ASSUME Typed, left > 0, NEW keep \in BOOLEAN, Generated(keep), EngineType'
  PROVE  Typed'
  <1>1. WalkType' /\ gen' \in GenType /\ at' = "clean" /\ job' = "search"
    BY GeneratedTypes
  <1>2. PlaceType' /\ Placed'
    BY <1>1 DEF PlaceType, Placed
  <1>. QED
    BY <1>1, <1>2 DEF Typed

LEMMA TypedCleanFails ==
  ASSUME Typed, CleanFails
  PROVE  Typed'
  <1>1. /\ PlaceType /\ WalkType /\ EngineType /\ gen \in GenType /\ Placed
        /\ at = "check" /\ (Fails \/ UNCHANGED faults)
        /\ UNCHANGED <<up, late, strays, tardy, blame, outlived>>
    BY DEF Typed, CleanFails
  <1>2. EngineType'
    BY <1>1, EngineKept
  <1>3. CASE job = "redo" /\ Generated(FALSE)
    <2>1. left > 0
      BY <1>1, <1>3 DEF Placed
    <2>. QED
      BY <1>2, <1>3, <2>1, TypedGenerated
  <1>4. CASE job # "redo" /\ NotClean /\ UNCHANGED <<job, searchVars, gen>>
    <2>1. left \in Nat
      BY <1>1, SearchAssumption DEF WalkType
    <2>2. \/ job = "search" /\ at' \in {"failed", "done"}
          \/ job # "search" /\ at' = "launch"
      BY <1>4, <2>1 DEF NotClean
    <2>3. WalkType'
      BY <1>1, <1>4, WalkKept
    <2>4. PlaceType' /\ Placed'
      BY <1>1, <1>4, <2>2 DEF PlaceType, Placed, searchVars
    <2>. QED
      BY <1>1, <1>2, <1>4, <2>3, <2>4 DEF Typed
  <1>. QED
    BY <1>3, <1>4 DEF CleanFails

LEMMA TypedSkip ==
  ASSUME Typed, SkipOptimal
  PROVE  Typed'
  <1>1. /\ PlaceType /\ WalkType /\ EngineType /\ gen \in GenType /\ Placed
        /\ at = "clean" /\ job = "test" /\ NextDim(gen.core, {}, gen.misled)
        /\ UNCHANGED <<at, searchVars, engineVars>>
    BY DEF Typed, SkipOptimal
  <1>2. gen.k \in 1 .. 3 /\ left > 0
    BY <1>1 DEF Placed
  <1>3. /\ gen.core \in Point /\ {} \in SUBSET FeatureSet
        /\ gen.misled \in BOOLEAN
    BY <1>1, GenFacts
  <1>4. /\ gen' \in GenType /\ gen'.core = gen.core
        /\ \/ /\ gen.k < 3 /\ gen'.i = gen.i /\ gen'.k = gen.k + 1
              /\ job' = "test"
           \/ /\ gen.k = 3 /\ gen.i = 1 /\ 2 \in DOMAIN gen.core
              /\ gen'.i = 2 /\ gen'.k = 1 /\ job' = "test"
           \/ /\ gen.k = 3 /\ gen.i + 1 \notin DOMAIN gen.core
              /\ gen'.i = gen.i /\ gen'.k = 4 /\ job' = "redo"
    BY <1>1, <1>2, <1>3, NextDimFacts
  <1>5. /\ gen'.k \in 1 .. 4 /\ (job' = "test" => gen'.k \in 1 .. 3)
        /\ job' \in {"test", "redo"}
        /\ job' = "redo" => gen'.k = 4 /\ gen'.i + 1 \notin DOMAIN gen'.core
    BY <1>2, <1>4
  <1>6. WalkType' /\ EngineType' /\ left' > 0
    BY <1>1, <1>2, WalkKept, EngineKept DEF searchVars, engineVars
  <1>7. PlaceType' /\ Placed'
    BY <1>1, <1>5, <1>6 DEF PlaceType, Placed
  <1>. QED
    BY <1>4, <1>6, <1>7 DEF Typed

(* An iteration that ends without an anomaly. *)
LEMMA TypedIteration ==
  ASSUME Typed, left > 0, NextIteration, gen' = gen, WalkType', EngineType'
  PROVE  Typed'
  <1>1. PlaceType' /\ Placed'
    BY DEF PlaceType, Placed, NextIteration
  <1>. QED
    BY <1>1 DEF Typed

LEMMA TypedGiveUp ==
  ASSUME Typed, GiveUp
  PROVE  Typed'
  <1>1. /\ PlaceType /\ WalkType /\ EngineType /\ gen \in GenType /\ Placed
        /\ at = "await" /\ left > 0
        /\ Fails \/ UNCHANGED faults
        /\ UNCHANGED <<up, late, strays, tardy, blame, outlived>>
    BY DEF Typed, Placed, GiveUp
  <1>2. EngineType'
    BY <1>1, EngineKept
  <1>3. CASE job = "search" /\ NextIteration
             /\ UNCHANGED <<card, flag, point, found, gen>>
    <2>1. left' \in 0 .. Iters
      BY <1>1, <1>3, SearchAssumption DEF NextIteration, WalkType
    <2>2. WalkType'
      BY <1>1, <1>3, <2>1 DEF WalkType
    <2>. QED
      BY <1>1, <1>2, <1>3, <2>2, TypedIteration
  <1>4. CASE Asking /\ Answer(TRUE, TRUE) /\ at' = "clean" /\ UNCHANGED searchVars
    BY <1>2, <1>4, TypedAnswer DEF Asking
  <1>5. CASE job = "redo" /\ Generated(FALSE)
    BY <1>1, <1>2, <1>5, TypedGenerated
  <1>. QED
    BY <1>3, <1>4, <1>5 DEF GiveUp

(* What the counters are taken for. *)
Misled(read) == ~ read \/ ~ AsAsked

LEMMA TypedMeasure ==
  ASSUME Typed, Measure
  PROVE  Typed'
  <1>1. /\ PlaceType /\ WalkType /\ EngineType /\ gen \in GenType /\ Placed
        /\ at = "monitor" /\ left > 0
        /\ UNCHANGED <<up, late, strays, tardy, blame, outlived>>
    BY DEF Typed, Placed, Measure
  <1>2. PICK verdict \in Verdict, read \in BOOLEAN :
          /\ Fails \/ UNCHANGED faults
          /\ \/ /\ job = "search" /\ verdict # "pause"
                /\ flag' = IF verdict = "ok" THEN flag - 1 ELSE -1
                /\ NextIteration
                /\ UNCHANGED <<card, point, found, gen>>
             \/ /\ job = "search"
                /\ gen' = Fresh(Alone(point[1]), Misled(read))
                /\ job' = "forward" /\ at' = "clean" /\ UNCHANGED searchVars
             \/ /\ Asking
                /\ Answer(verdict = "pause", gen.misled \/ Misled(read))
                /\ at' = "clean" /\ UNCHANGED searchVars
             \/ /\ job = "redo"
                /\ Generated(Keep(verdict))
    BY DEF Measure, Fresh, StartWith, Misled
  <1>3. EngineType'
    BY <1>1, <1>2, EngineKept
  <1>4. gen.misled \in BOOLEAN
    BY <1>1, GenFacts
  <1>5. Misled(read) \in BOOLEAN /\ Keep(verdict) \in BOOLEAN
    BY DEF Misled, Keep
  <1>6. CASE /\ job = "search" /\ verdict # "pause"
             /\ flag' = IF verdict = "ok" THEN flag - 1 ELSE -1
             /\ NextIteration
             /\ UNCHANGED <<card, point, found, gen>>
    <2>1. left' \in 0 .. Iters
      BY <1>1, <1>6, SearchAssumption DEF NextIteration, WalkType
    <2>2. flag' \in -1 .. kStageIterations
      BY <1>1, <1>6 DEF Placed, WalkType, kStageIterations
    <2>3. WalkType'
      BY <1>1, <1>6, <2>1, <2>2 DEF WalkType
    <2>. QED
      BY <1>1, <1>3, <1>6, <2>3, TypedIteration
  <1>7. CASE /\ job = "search" /\ gen' = Fresh(Alone(point[1]), Misled(read))
             /\ job' = "forward" /\ at' = "clean" /\ UNCHANGED searchVars
    <2>1. Alone(point[1]) \in Point
      BY <1>1, FullFacts, AloneFacts DEF WalkType
    <2>2. gen' \in GenType
      BY <1>5, <1>7, <2>1, GenOf
    <2>3. WalkType' /\ left' > 0
      BY <1>1, <1>7, WalkKept DEF searchVars
    <2>4. PlaceType' /\ Placed'
      BY <1>7, <2>3 DEF PlaceType, Placed
    <2>. QED
      BY <1>3, <2>2, <2>3, <2>4 DEF Typed
  <1>8. CASE /\ Asking /\ Answer(verdict = "pause", gen.misled \/ Misled(read))
             /\ at' = "clean" /\ UNCHANGED searchVars
    <2>. DEFINE yes == verdict = "pause"
                misled == gen.misled \/ Misled(read)
    <2>1. yes \in BOOLEAN /\ misled \in BOOLEAN
      BY <1>4, <1>5
    <2>2. Answer(yes, misled)
      BY <1>8
    <2>. HIDE DEF yes, misled
    <2>. QED
      BY <1>3, <1>8, <2>1, <2>2, TypedAnswer DEF Asking
  <1>9. CASE job = "redo" /\ Generated(Keep(verdict))
    <2>. DEFINE keep == Keep(verdict)
    <2>1. keep \in BOOLEAN /\ Generated(keep)
      BY <1>5, <1>9
    <2>. HIDE DEF keep
    <2>. QED
      BY <1>1, <1>3, <2>1, TypedGenerated
  <1>. QED
    BY <1>2, <1>6, <1>7, <1>8, <1>9

LEMMA TypedStep == Typed /\ [Next]_vars => Typed'
  <1>. SUFFICES ASSUME Typed, [Next]_vars PROVE Typed'
    OBVIOUS
  <1>1. CASE UNCHANGED vars
    <2>1. UNCHANGED <<at, job, card, left, flag, point, found, gen, up, late,
                      strays, tardy, blame, outlived, faults>>
      BY <1>1 DEF vars, searchVars, engineVars
    <2>. QED
      BY <2>1 DEF Typed, PlaceType, WalkType, EngineType, Placed
  <1>2. CASE Next
    BY <1>2, TypedUp, TypedEngine, TypedWalk, TypedCleanFails, TypedSkip,
       TypedGiveUp, TypedMeasure DEF Next, SearchStep
  <1>. QED
    BY <1>1, <1>2

(* In every state every variable has its type: a point that is mutated,    *)
(* drawn or simplified stays within the space, a set has features of its   *)
(* dimensions only, and the counts stay within their bounds.               *)
THEOREM TypeCorrect == Spec => []TypeOK
  <1>1. Typed => TypeOK
    BY TypeParts DEF Typed
  <1>. QED
    BY <1>1, TypedInit, TypedStep, PTL DEF Spec

-----------------------------------------------------------------------------
(* What is measured.  The engine only counts, so the argument is that what *)
(* it may count of its own is never more than was asked for, and that      *)
(* there is nothing else to count.                                         *)
Asked ==
  /\ "late" \notin blame => tardy = 0
  /\ "late" \notin blame /\ "survived" \notin blame => strays = 0
  /\ "late" \notin blame /\ job = "search"
       /\ at \in {"choose", "leave", "launch", "await", "monitor"} => strays = 0
  /\ at \in {"await", "monitor"} =>
       \A i \in 1 .. 2 : up[i] + late[i] <= Qps(Goal)[i]
  /\ at = "monitor" /\ "died" \notin blame /\ strays = 0 => up = Qps(Goal)

LEMMA GoalKept ==
  ASSUME UNCHANGED <<job, point, gen>>
  PROVE  Goal' = Goal
  BY DEF Goal, TestPoint, Tested, Dim, LowerBound

LEMMA CountFacts ==
  ASSUME NEW n \in [1 .. 2 -> Nat], NEW m \in [1 .. 2 -> Nat],
         \A i \in 1 .. 2 : n[i] <= m[i], Total(n) = Total(m)
  PROVE  n = m
  <1>1. n[1] \in Nat /\ n[2] \in Nat /\ m[1] \in Nat /\ m[2] \in Nat
        /\ n[1] <= m[1] /\ n[2] <= m[2] /\ n[1] + n[2] = m[1] + m[2]
    BY DEF Total
  <1>2. n[1] = m[1] /\ n[2] = m[2]
    BY <1>1
  <1>3. \A i \in 1 .. 2 : n[i] = m[i]
    BY <1>2
  <1>. QED
    BY <1>3

(* The steps that leave the queue pairs and the blame alone. *)
LEMMA AskedKept ==
  ASSUME Asked, UNCHANGED <<up, late, strays, tardy, blame>>,
         at' \notin {"await", "monitor"},
         at' \in {"choose", "leave", "launch"} /\ job' = "search" /\ "late" \notin blame
           => strays = 0
  PROVE  Asked'
  BY DEF Asked

LEMMA AskedCounts ==
  ASSUME Typed, Asked, ComeUp \/ ComeUpTardy \/ Die
  PROVE  Asked'
  <1>1. /\ EngineType /\ UNCHANGED <<at, job, point, gen>>
        /\ up \in [1 .. 2 -> Nat] /\ late \in [1 .. 2 -> Nat]
        /\ strays \in Nat /\ tardy \in Nat
    BY DEF Typed, EngineType, ComeUp, ComeUpTardy, Die, searchVars
  <1>2. Goal' = Goal
    BY <1>1, GoalKept
  <1>. DEFINE q == Qps(Goal)
  <1>3. q \in [1 .. 2 -> Nat]
    BY GoalFacts, QpsFacts
  <1>4. Qps(Goal)' = q
    BY <1>2 DEF Qps
  <1>. HIDE DEF q
  <1>5. /\ "late" \notin blame => tardy = 0
        /\ "late" \notin blame /\ "survived" \notin blame => strays = 0
        /\ "late" \notin blame /\ job = "search"
             /\ at \in {"choose", "leave", "launch", "await", "monitor"} => strays = 0
        /\ at \in {"await", "monitor"} => \A i \in 1 .. 2 : up[i] + late[i] <= q[i]
        /\ at = "monitor" /\ "died" \notin blame /\ strays = 0 => up = q
    BY DEF Asked, q
  <1>6. CASE ComeUp
    <2>1. PICK i \in 1 .. 2 :
            /\ late[i] > 0 /\ late' = [late EXCEPT ![i] = @ - 1]
            /\ \/ up' = [up EXCEPT ![i] = @ + 1]
               \/ up' = up /\ strays > 0
      BY <1>6 DEF ComeUp
    <2>2. /\ UNCHANGED <<strays, tardy, blame>> /\ at \in {"await", "monitor"}
          /\ at' = at
      BY <1>6 DEF ComeUp, Running
    <2>3. /\ late' \in [1 .. 2 -> Nat] /\ late'[i] = late[i] - 1
          /\ \A j \in 1 .. 2 \ {i} : late'[j] = late[j]
      BY <1>1, <2>1
    <2>4. /\ up' \in [1 .. 2 -> Nat] /\ up'[i] \in {up[i], up[i] + 1}
          /\ \A j \in 1 .. 2 \ {i} : up'[j] = up[j]
      BY <1>1, <2>1
    <2>5. \A j \in 1 .. 2 : up'[j] + late'[j] <= q[j]
      BY <1>1, <1>3, <1>5, <2>2, <2>3, <2>4
    <2>6. ~ (at = "monitor" /\ "died" \notin blame /\ strays = 0)
      <3>. SUFFICES ASSUME up = q PROVE FALSE
        BY <1>5
      <3>1. up[i] + late[i] <= q[i] /\ up[i] = q[i]
        BY <1>5, <2>2
      <3>. QED
        BY <1>1, <1>3, <2>1, <3>1
    <2>. QED
      BY <1>1, <1>4, <1>5, <2>2, <2>5, <2>6 DEF Asked
  <1>7. CASE ComeUpTardy
    <2>1. /\ tardy > 0 /\ tardy' = tardy - 1
          /\ strays' \in {strays, strays + 1}
          /\ UNCHANGED <<up, late, blame>>
      BY <1>7 DEF ComeUpTardy
    <2>2. "late" \in blame /\ "late" \in blame'
      BY <1>1, <1>5, <2>1
    <2>3. strays' = 0 => strays = 0
      BY <1>1, <2>1
    <2>. QED
      BY <1>1, <1>4, <1>5, <2>1, <2>2, <2>3 DEF Asked
  <1>8. CASE Die
    <2>1. /\ \/ \E i \in 1 .. 2 : \E n \in 1 .. up[i] :
                  up' = [up EXCEPT ![i] = @ - n] /\ strays' = strays
             \/ \E n \in 1 .. strays : strays' = strays - n /\ up' = up
          /\ blame' = IF at = "monitor" THEN blame \cup {"died"} ELSE blame
          /\ UNCHANGED <<late, tardy>> /\ at \in {"await", "monitor"} /\ at' = at
      BY <1>8 DEF Die, Running
    <2>2. /\ strays' \in Nat /\ (strays = 0 => strays' = 0)
          /\ \A j \in 1 .. 2 : up'[j] + late'[j] <= q[j]
      <3>1. CASE \E i \in 1 .. 2 : \E n \in 1 .. up[i] :
                   up' = [up EXCEPT ![i] = @ - n] /\ strays' = strays
        <4>1. PICK i \in 1 .. 2 : \E n \in 1 .. up[i] :
                up' = [up EXCEPT ![i] = @ - n] /\ strays' = strays
          BY <3>1
        <4>2. PICK n \in 1 .. up[i] : up' = [up EXCEPT ![i] = @ - n]
          BY <4>1
        <4>3. /\ up'[i] = up[i] - n /\ \A j \in 1 .. 2 \ {i} : up'[j] = up[j]
              /\ up[i] \in Nat /\ n \in Nat
          BY <1>1, <4>2
        <4>4. \A j \in 1 .. 2 : up'[j] + late'[j] <= q[j]
          BY <1>1, <1>3, <1>5, <2>1, <4>3
        <4>. QED
          BY <1>1, <4>1, <4>4
      <3>2. CASE \E n \in 1 .. strays : strays' = strays - n /\ up' = up
        BY <1>1, <1>5, <2>1, <3>2
      <3>. QED
        BY <2>1, <3>1, <3>2
    <2>3. "late" \in blame' <=> "late" \in blame
      BY <2>1
    <2>4. "survived" \in blame' <=> "survived" \in blame
      BY <2>1
    <2>5. at' = "monitor" => "died" \in blame'
      BY <2>1
    <2>. QED
      BY <1>1, <1>4, <1>5, <2>1, <2>2, <2>3, <2>4, <2>5 DEF Asked
  <1>. QED
    BY <1>6, <1>7, <1>8

LEMMA AskedStep == Typed /\ Asked /\ [Next]_vars => Asked'
  <1>. SUFFICES ASSUME Typed, Asked, [Next]_vars PROVE Asked'
    OBVIOUS
  <1>1. /\ EngineType /\ up \in [1 .. 2 -> Nat] /\ late \in [1 .. 2 -> Nat]
        /\ strays \in Nat
    BY DEF Typed, EngineType
  <1>2. Qps(Goal) \in [1 .. 2 -> Nat]
    BY GoalFacts, QpsFacts
  <1>3. CASE UNCHANGED vars
    <2>1. UNCHANGED <<at, job, point, gen, up, late, strays, tardy, blame>>
      BY <1>3 DEF vars, searchVars, engineVars
    <2>2. Qps(Goal)' = Qps(Goal)
      BY <2>1, GoalKept DEF Qps
    <2>. QED
      BY <2>1, <2>2 DEF Asked
  <1>4. CASE Kill
    <2>1. /\ at' = "check"
          /\ tardy' \in 0 .. (tardy + Total(late))
          /\ strays' \in 0 .. (strays + Total(up))
          /\ blame' = (IF strays' > 0 THEN {"survived"} ELSE {})
                      \cup (IF tardy' > 0 THEN {"late"} ELSE {})
      BY <1>4 DEF Kill
    <2>2. strays' \in Nat /\ tardy' \in Nat
      BY <2>1
    <2>3. /\ "late" \notin blame' => tardy' = 0
          /\ "survived" \notin blame' => strays' = 0
      BY <2>1, <2>2
    <2>. QED
      BY <2>1, <2>3 DEF Asked
  <1>5. CASE Clean
    <2>1. /\ at = "check" /\ at' \in {"launch", "choose", "done"}
          /\ UNCHANGED <<job, up, late, strays, tardy, blame>>
          /\ Total(up) + strays = 0
      <3>1. left > 0 \/ left = 0
        BY SearchAssumption DEF Typed, WalkType
      <3>. QED
        BY <1>5, <3>1 DEF Clean, CheckRun, engineVars
    <2>2. strays = 0
      <3>1. up[1] \in Nat /\ up[2] \in Nat /\ up[1] + up[2] + strays = 0
        BY <1>1, <2>1 DEF Total
      <3>. QED
        BY <1>1, <3>1
    <2>. QED
      BY <2>1, <2>2, AskedKept
  <1>6. CASE CleanFails
    <2>1. /\ UNCHANGED <<up, late, strays, tardy, blame>>
          /\ at' \in {"launch", "failed", "done", "clean"}
          /\ at' = "launch" => job' # "search"
      <3>1. left > 0 \/ left = 0
        BY SearchAssumption DEF Typed, WalkType
      <3>. QED
        BY <1>6, <3>1 DEF CleanFails, NotClean, Generated, NextIteration
    <2>. QED
      BY <2>1, AskedKept
  <1>7. CASE Launch
    <2>1. /\ at = "launch" /\ at' = "await" /\ late' = Qps(Goal)
          /\ UNCHANGED <<job, point, gen, up, strays, tardy, blame>>
          /\ up = None
      BY <1>7 DEF Launch, searchVars, Typed, Placed
    <2>2. Qps(Goal)' = Qps(Goal)
      BY <2>1, GoalKept DEF Qps
    <2>3. \A i \in 1 .. 2 : up'[i] + late'[i] <= Qps(Goal)[i]
      BY <1>2, <2>1 DEF None
    <2>. QED
      BY <2>1, <2>2, <2>3 DEF Asked
  <1>8. CASE ComesUp
    <2>1. /\ at = "await" /\ at' = "monitor"
          /\ Total(up) + strays = Total(Qps(Goal))
          /\ UNCHANGED <<job, point, gen, up, late, strays, tardy, blame>>
      BY <1>8 DEF ComesUp, CheckRun, searchVars, engineVars
    <2>2. Qps(Goal)' = Qps(Goal)
      BY <2>1, GoalKept DEF Qps
    <2>3. strays = 0 => up = Qps(Goal)
      <3>. SUFFICES ASSUME strays = 0 PROVE up = Qps(Goal)
        OBVIOUS
      <3>1. Total(up) \in Nat
        BY <1>1 DEF Total
      <3>2. Total(up) = Total(Qps(Goal))
        BY <2>1, <3>1
      <3>3. \A i \in 1 .. 2 : up[i] + late[i] <= Qps(Goal)[i]
        BY <2>1 DEF Asked
      <3>4. \A i \in 1 .. 2 : up[i] <= Qps(Goal)[i]
        BY <1>1, <1>2, <3>3
      <3>. QED
        BY <1>1, <1>2, <3>2, <3>4, CountFacts
    <2>. QED
      BY <2>1, <2>2, <2>3 DEF Asked
  <1>9. CASE Choose \/ Redraw \/ Leave
    <2>1. /\ UNCHANGED <<job, up, late, strays, tardy, blame>>
          /\ at \in {"choose", "leave"} /\ at' \in {"leave", "launch"}
      BY <1>9 DEF Choose, Redraw, Leave, engineVars
    <2>2. job = "search" /\ "late" \notin blame => strays = 0
      BY <2>1 DEF Asked
    <2>. QED
      BY <2>1, <2>2, AskedKept
  <1>10. CASE SkipOptimal \/ GiveUp \/ Measure
    <2>1. /\ UNCHANGED <<up, late, strays, tardy, blame>> /\ at' = "clean"
      BY <1>10 DEF SkipOptimal, GiveUp, Measure, Generated, NextIteration, engineVars
    <2>. QED
      BY <2>1, AskedKept
  <1>. QED
    BY <1>3, <1>4, <1>5, <1>6, <1>7, <1>8, <1>9, <1>10, AskedCounts
       DEF Next, SearchStep

(* What is monitored is what was asked for, queue pair by queue pair and   *)
(* with nothing beside it, although check_run only compares a count, that  *)
(* processes of earlier launches add to: but for a process that died after *)
(* the look, a command still under way at the last kill or, in the tests,  *)
(* a process that survived that kill.                                      *)
THEOREM RightTraffic == Spec => []MeasuredAsAsked
  <1>1. Init => Asked
    BY DEF Init, Asked
  <1>2. Typed /\ Asked => MeasuredAsAsked
    <2>. SUFFICES ASSUME Typed, Asked, at = "monitor", "died" \notin blame,
                         "late" \notin blame,
                         job = "search" \/ "survived" \notin blame
                  PROVE  AsAsked
      BY DEF MeasuredAsAsked
    <2>1. strays = 0
      BY DEF Asked
    <2>. QED
      BY <2>1 DEF Asked, AsAsked
  <1>. QED
    BY <1>1, <1>2, TypedInit, TypedStep, AskedStep, PTL DEF Spec

-----------------------------------------------------------------------------
(* The feature sets.  First of one traffic that is tested, t, whose        *)
(* features in the dimensions before the k-th are m: points of m are       *)
(* inside the box b there.                                                 *)

Fit(v, m) == \A f \in m : Within(v, f)

Covers(b, t, m, k) ==
  \A v \in Vectors : Fit(v, m) =>
    \A j \in 1 .. 3 :
      /\ j < k
      /\ v[Order[j]] >= LowerBound(t, Order[j])
      => v[Order[j]] \in b.lo[Order[j]] .. b.hi[Order[j]]

(* In a dimension that is not tested yet, t is still its origin o, which   *)
(* fits if its queue is as deep as its batch.                              *)
Keeps(o, t, m, k) ==
  /\ o.dir = t.dir
  /\ \A j \in 1 .. 3 : j >= k => t.v[Order[j]] = o.v[Order[j]]
  /\ t.v["send_batch"] <= o.v["send_batch"]
  /\ DeepEnough(o) => Fit(o.v, m)

(* It depends on the box, in the dimension that is tested, whether the     *)
(* point is anomalous; or the point always is.                             *)
Decides(b) ==
  \A x \in 0 .. Bound[Dim] :
    Anomalous(card, Variant(x)) <=> InBox(With(Tested, Dim, x).v, b)
Indifferent == \A x \in 0 .. Bound[Dim] : Anomalous(card, Variant(x))

(* What the tests of a dimension may come to: the point goes on as core,   *)
(* with more features; and what they have shown if none was misled.        *)
Outcome(core, more) ==
  \/ core \in {gen.core, Simple} /\ more = {}
  \/ core = gen.core /\ more = Feature(Tested.v[Dim], Bound[Dim])
  \/ core = gen.core /\ \E low \in BOOLEAN, upp \in BOOLEAN :
                          more = Interval(Tested.v[Dim], low, upp)

Learnt(core, more) ==
  \/ /\ core = Simple /\ more = {}
     /\ Anomalous(card, Simple)
     /\ Optimal \/ Anomalous(card, Variant(Bound[Dim]))
  \/ /\ core = gen.core /\ more = {}
     /\ Optimal /\ Tested.v[Dim] = 0
  \/ /\ core = gen.core /\ more = Feature(Tested.v[Dim], Bound[Dim])
     /\ Optimal /\ ~ Anomalous(card, Simple)
  \/ /\ core = gen.core
     /\ \E low \in BOOLEAN, upp \in BOOLEAN :
          /\ more = Interval(Tested.v[Dim], low, upp) /\ ~ (low /\ upp)
          /\ low <=> Anomalous(card, Simple)
          /\ upp <=> Anomalous(card, Variant(Bound[Dim]))

LEMMA FitFacts ==
  ASSUME NEW v, NEW m, NEW more, NEW lo, NEW hi
  PROVE  /\ Fit(v, m \cup more) <=> Fit(v, m) /\ Fit(v, more)
         /\ Fit(v, {})
         /\ Fit(v, Feature(lo, hi)) <=> lo <= v[Dim] /\ v[Dim] <= hi
  BY DEF Fit, Feature, Within

LEMMA BoxFacts ==
  ASSUME NEW b \in Boxes, NEW d \in Dims
  PROVE  /\ b.lo[d] \in Nat /\ b.hi[d] \in 0 .. Bound[d]
         /\ b.hi["qp_num"] = Bound["qp_num"]
  <1>1. b.lo \in Vectors /\ b.hi \in Vectors /\ b.hi["qp_num"] = Bound["qp_num"]
    BY DEF Boxes
  <1>. QED
    BY <1>1, VectorFacts

LEMMA InBoxFacts ==
  ASSUME NEW b \in Boxes, NEW v \in Vectors, InBox(v, b), NEW d \in Dims
  PROVE  b.lo[d] <= v[d] /\ v[d] <= b.hi[d]
  BY BoxFacts, VectorFacts DEF InBox

(* What is simplified depends on the dimensions before only.               *)
LEMMA SimpleFacts ==
  ASSUME gen \in GenType, gen.k \in 1 .. 3
  PROVE  /\ Simple[gen.i] \in Traffic /\ Simple[gen.i].dir = Tested.dir
         /\ Simple[gen.i].v[Dim] = LowerBound(Tested, Dim)
         /\ \A e \in Dims \ {Dim} : Simple[gen.i].v[e] = Tested.v[e]
         /\ LowerBound(Simple[gen.i], Dim) = LowerBound(Tested, Dim)
         /\ \A j \in DOMAIN gen.core \ {gen.i} : Simple[j] = gen.core[j]
  <1>1. /\ Dim \in Dims /\ Tested \in Traffic
        /\ LowerBound(Tested, Dim) \in 0 .. Bound[Dim]
        /\ Simple[gen.i] = With(Tested, Dim, LowerBound(Tested, Dim))
        /\ \A j \in DOMAIN gen.core \ {gen.i} : Simple[j] = gen.core[j]
    BY TestFacts DEF Simple
  <1>2. /\ Simple[gen.i] \in Traffic /\ Simple[gen.i].dir = Tested.dir
        /\ Simple[gen.i].v[Dim] = LowerBound(Tested, Dim)
        /\ \A e \in Dims \ {Dim} : Simple[gen.i].v[e] = Tested.v[e]
    BY <1>1, WithFacts
  <1>3. LowerBound(Simple[gen.i], Dim) = LowerBound(Tested, Dim)
    <2>1. CASE Dim = "send_wq_depth"
      <3>1. "send_batch" \in Dims \ {Dim}
        BY <2>1, DimFacts
      <3>. QED
        BY <1>1, <1>2, <2>1, <3>1, LowerFacts
    <2>2. CASE Dim # "send_wq_depth"
      BY <1>1, <1>2, <2>2, LowerFacts
    <2>. QED
      BY <2>1, <2>2
  <1>. QED
    BY <1>1, <1>2, <1>3

(* What an anomaly at a bound says of the box. *)
LEMMA LowSays ==
  ASSUME gen \in GenType, gen.k \in 1 .. 3, NEW b \in Boxes, Decides(b),
         Anomalous(card, Simple)
  PROVE  InBox(Simple[gen.i].v, b) /\ b.lo[Dim] <= LowerBound(Tested, Dim)
  <1>1. /\ LowerBound(Tested, Dim) \in 0 .. Bound[Dim] /\ Dim \in Dims
        /\ Simple[gen.i] = With(Tested, Dim, LowerBound(Tested, Dim))
    BY TestFacts DEF Simple
  <1>2. InBox(Simple[gen.i].v, b)
    BY <1>1 DEF Decides, Simple
  <1>3. Simple[gen.i].v \in Vectors /\ Simple[gen.i].v[Dim] = LowerBound(Tested, Dim)
    BY SimpleFacts, TrafficFacts
  <1>. QED
    BY <1>1, <1>2, <1>3, InBoxFacts

LEMMA HighSays ==
  ASSUME gen \in GenType, gen.k \in 1 .. 3, NEW b \in Boxes, Decides(b),
         Anomalous(card, Variant(Bound[Dim]))
  PROVE  Bound[Dim] <= b.hi[Dim]
  <1>1. /\ Bound[Dim] \in 0 .. Bound[Dim] /\ Dim \in Dims /\ Tested \in Traffic
    BY TestFacts
  <1>2. InBox(With(Tested, Dim, Bound[Dim]).v, b)
    BY <1>1 DEF Decides
  <1>3. /\ With(Tested, Dim, Bound[Dim]) \in Traffic
        /\ With(Tested, Dim, Bound[Dim]).v[Dim] = Bound[Dim]
    BY <1>1, WithFacts
  <1>4. With(Tested, Dim, Bound[Dim]).v \in Vectors
    BY <1>3, TrafficFacts
  <1>. QED
    BY <1>1, <1>2, <1>3, <1>4, InBoxFacts

(* A value that fits is inside the box, in the dimension tested. *)
LEMMA LearntInside ==
  ASSUME gen \in GenType, gen.k \in 1 .. 3, NEW b \in Boxes, Decides(b),
         InBox(Tested.v, b), NEW core, NEW more, Learnt(core, more),
         NEW v \in Vectors, Fit(v, more), v[Dim] >= LowerBound(core[gen.i], Dim)
  PROVE  v[Dim] \in b.lo[Dim] .. b.hi[Dim]
  <1>. DEFINE value == Tested.v[Dim]
              low == LowerBound(Tested, Dim)
  <1>1. /\ Dim \in Dims /\ Bound[Dim] \in Nat /\ low \in Nat /\ low <= Bound[Dim]
        /\ value \in Nat /\ value <= Bound[Dim] /\ Tested.v \in Vectors
    BY TestFacts, TrafficFacts
  <1>2. v[Dim] \in Nat /\ v[Dim] <= Bound[Dim]
    BY <1>1, VectorFacts
  <1>3. /\ b.lo[Dim] \in Nat /\ b.hi[Dim] \in Nat
        /\ b.lo[Dim] <= value /\ value <= b.hi[Dim]
        /\ Optimal => b.hi[Dim] = Bound[Dim]
    BY <1>1, BoxFacts, InBoxFacts DEF Optimal
  <1>4. Anomalous(card, Simple) => b.lo[Dim] <= low
    BY LowSays
  <1>5. Anomalous(card, Variant(Bound[Dim])) => Bound[Dim] <= b.hi[Dim]
    BY HighSays
  <1>6. core = gen.core => v[Dim] >= low
    BY DEF Tested
  <1>7. core = Simple => v[Dim] >= low
    BY SimpleFacts
  <1>. HIDE DEF value, low
  <1>8. CASE /\ core = Simple /\ Anomalous(card, Simple)
             /\ Optimal \/ Anomalous(card, Variant(Bound[Dim]))
    BY <1>1, <1>2, <1>3, <1>4, <1>5, <1>7, <1>8
  <1>9. CASE Optimal /\ Tested.v[Dim] = 0
    BY <1>1, <1>2, <1>3, <1>9 DEF value
  <1>10. CASE more = Feature(Tested.v[Dim], Bound[Dim]) /\ Optimal
    <2>1. value <= v[Dim]
      BY <1>10, FitFacts DEF value
    <2>. QED
      BY <1>1, <1>2, <1>3, <1>10, <2>1
  <1>11. ASSUME NEW l \in BOOLEAN, NEW u \in BOOLEAN, ~ (l /\ u),
                more = Interval(Tested.v[Dim], l, u),
                l => Anomalous(card, Simple),
                u => Anomalous(card, Variant(Bound[Dim]))
         PROVE  v[Dim] \in b.lo[Dim] .. b.hi[Dim]
    <2>1. CASE l
      <3>1. more = Feature(low, value)
        BY <1>11, <2>1 DEF Interval, low, value
      <3>2. low <= v[Dim] /\ v[Dim] <= value
        BY <3>1, FitFacts
      <3>. QED
        BY <1>1, <1>2, <1>3, <1>4, <1>11, <2>1, <3>2
    <2>2. CASE ~ l /\ u
      <3>1. more = Feature(value, Bound[Dim])
        BY <1>11, <2>2 DEF Interval, value
      <3>2. value <= v[Dim]
        BY <3>1, FitFacts
      <3>. QED
        BY <1>1, <1>2, <1>3, <1>5, <1>11, <2>2, <3>2
    <2>3. CASE ~ l /\ ~ u
      <3>1. more = Feature(value, value)
        BY <1>11, <2>3 DEF Interval, value
      <3>2. value <= v[Dim] /\ v[Dim] <= value
        BY <3>1, FitFacts
      <3>. QED
        BY <1>1, <1>2, <1>3, <3>2
    <2>. QED
      BY <2>1, <2>2, <2>3
  <1>. QED
    BY <1>8, <1>9, <1>10, <1>11 DEF Learnt

(* One more dimension is tested. *)
LEMMA CoversMore ==
  ASSUME gen \in GenType, gen.k \in 1 .. 3, NEW b \in Boxes, Decides(b),
         InBox(Tested.v, b), Covers(b, Tested, gen.mfs[gen.i], gen.k),
         NEW core, NEW more, Learnt(core, more)
  PROVE  /\ InBox(core[gen.i].v, b)
         /\ Covers(b, core[gen.i], gen.mfs[gen.i] \cup more, gen.k + 1)
  <1>1. core \in {gen.core, Simple}
    BY DEF Learnt
  <1>2. InBox(core[gen.i].v, b)
    <2>1. CASE core = gen.core
      BY <2>1 DEF Tested
    <2>2. CASE core = Simple /\ Anomalous(card, Simple)
      BY <2>2, LowSays
    <2>. QED
      BY <2>1, <2>2 DEF Learnt
  <1>3. core[gen.i] \in Traffic /\ Tested \in Traffic
    BY <1>1, SimpleFacts, TestFacts DEF Tested
  <1>4. ASSUME NEW v \in Vectors, Fit(v, gen.mfs[gen.i] \cup more),
               NEW j \in 1 .. 3, j < gen.k + 1,
               v[Order[j]] >= LowerBound(core[gen.i], Order[j])
        PROVE  v[Order[j]] \in b.lo[Order[j]] .. b.hi[Order[j]]
    <2>1. Fit(v, gen.mfs[gen.i]) /\ Fit(v, more)
      BY <1>4, FitFacts
    <2>2. CASE j = gen.k
      <3>1. Order[j] = Dim
        BY <2>2 DEF Dim
      <3>. QED
        BY <1>4, <2>1, <3>1, LearntInside
    <2>3. CASE j # gen.k
      <3>1. j < gen.k /\ j \in 1 .. 2
        BY <1>4, <2>3
      <3>2. Order[j] \in Dims /\ Order[j] # "send_wq_depth"
        BY <3>1, OrderFacts
      <3>3. LowerBound(Tested, Order[j]) = LowerBound(core[gen.i], Order[j])
        BY <1>3, <3>2, LowerFacts
      <3>. QED
        BY <1>4, <2>1, <3>1, <3>3 DEF Covers
    <2>. QED
      BY <2>2, <2>3
  <1>. QED
    BY <1>2, <1>4 DEF Covers

(* If the point is always anomalous, nothing is found to matter. *)
LEMMA NothingMore ==
  ASSUME gen \in GenType, gen.k \in 1 .. 3, Indifferent,
         NEW core, NEW more, Learnt(core, more)
  PROVE  more = {}
  <1>1. Anomalous(card, Simple) /\ Anomalous(card, Variant(Bound[Dim]))
    BY TestFacts DEF Indifferent, Simple
  <1>. QED
    BY <1>1 DEF Learnt

(* The origin keeps its place in the set. *)
LEMMA KeepsMore ==
  ASSUME gen \in GenType, gen.k \in 1 .. 3, NEW o \in Traffic,
         Keeps(o, Tested, gen.mfs[gen.i], gen.k),
         NEW core, NEW more, Outcome(core, more)
  PROVE  Keeps(o, core[gen.i], gen.mfs[gen.i] \cup more, gen.k + 1)
  <1>1. /\ Dim \in Dims /\ Tested \in Traffic /\ Tested.v[Dim] \in Nat
        /\ Tested.v[Dim] <= Bound[Dim] /\ Dim = Order[gen.k]
        /\ o.v["send_batch"] \in Nat /\ o.v["send_wq_depth"] \in Nat
        /\ Tested.v["send_batch"] \in Nat
        /\ Bound[Dim] \in Nat /\ LowerBound(Tested, Dim) \in Nat
    BY TestFacts, TrafficFacts, DimFacts DEF Dim
  <1>2. /\ core[gen.i].dir = Tested.dir
        /\ \A e \in Dims \ {Dim} : core[gen.i].v[e] = Tested.v[e]
        /\ core[gen.i].v[Dim] \in {Tested.v[Dim], LowerBound(Tested, Dim)}
    <2>1. CASE core = gen.core
      BY <2>1 DEF Tested
    <2>2. CASE core = Simple
      BY <2>2, SimpleFacts
    <2>. QED
      BY <2>1, <2>2 DEF Outcome
  <1>3. o.v[Dim] = Tested.v[Dim]
    BY <1>1 DEF Keeps
  <1>4. \A j \in 1 .. 3 : j >= gen.k + 1 => core[gen.i].v[Order[j]] = o.v[Order[j]]
    <2>. SUFFICES ASSUME NEW j \in 1 .. 3, j >= gen.k + 1
                  PROVE  core[gen.i].v[Order[j]] = o.v[Order[j]]
      OBVIOUS
    <2>1. Tested.v[Order[j]] = o.v[Order[j]]
      BY DEF Keeps
    <2>2. Order[j] \in Dims \ {Dim}
      BY OrderFacts DEF Dim
    <2>. QED
      BY <1>2, <2>1, <2>2
  <1>5. core[gen.i].v["send_batch"] <= o.v["send_batch"]
    <2>1. "send_batch" \in Dims
      BY DimFacts
    <2>2. \/ core[gen.i].v["send_batch"] = Tested.v["send_batch"]
          \/ core[gen.i].v["send_batch"] = 0
      BY <1>1, <1>2, <2>1, LowerFacts
    <2>. QED
      BY <1>1, <2>2 DEF Keeps
  <1>6. DeepEnough(o) => LowerBound(Tested, Dim) <= o.v[Dim]
    <2>1. CASE Dim = "send_wq_depth"
      <3>1. LowerBound(Tested, Dim) = Tested.v["send_batch"]
        BY <1>1, <2>1, LowerFacts
      <3>2. Tested.v["send_batch"] <= o.v["send_batch"]
        BY DEF Keeps
      <3>. QED
        BY <1>1, <2>1, <3>1, <3>2 DEF DeepEnough
    <2>2. CASE Dim # "send_wq_depth"
      BY <1>1, <1>3, <2>2, LowerFacts
    <2>. QED
      BY <2>1, <2>2
  <1>7. DeepEnough(o) => Fit(o.v, more)
    <2>. SUFFICES ASSUME DeepEnough(o) PROVE Fit(o.v, more)
      OBVIOUS
    <2>1. LowerBound(Tested, Dim) <= o.v[Dim] /\ Tested.v[Dim] <= o.v[Dim]
          /\ o.v[Dim] <= Tested.v[Dim] /\ o.v[Dim] <= Bound[Dim]
      BY <1>1, <1>3, <1>6
    <2>2. \/ more = {}
          \/ more = Feature(Tested.v[Dim], Bound[Dim])
          \/ more = Feature(LowerBound(Tested, Dim), Tested.v[Dim])
          \/ more = Feature(Tested.v[Dim], Tested.v[Dim])
      BY DEF Outcome, Interval
    <2>. QED
      BY <2>1, <2>2, FitFacts
  <1>8. DeepEnough(o) => Fit(o.v, gen.mfs[gen.i] \cup more)
    BY <1>7, FitFacts DEF Keeps
  <1>9. o.dir = core[gen.i].dir
    BY <1>2 DEF Keeps
  <1>. QED
    BY <1>4, <1>5, <1>8, <1>9 DEF Keeps

-----------------------------------------------------------------------------
(* The generation of a set, g, on a card c whose anomalies are boxes.      *)

(* How far the j-th traffic has been tested. *)
Progress(g, j) == IF j < g.i THEN 4 ELSE IF j = g.i THEN g.k ELSE 1

Origins(p, g) ==
  \A j \in DOMAIN g.core : \E s \in 1 .. 2 :
    Keeps(p[s], g.core[j], g.mfs[j], Progress(g, j))

OneBox(c, b) ==
  \A p \in Point : Anomalous(c, p) <=> \E i \in DOMAIN p : InBox(p[i].v, b)

(* Only the traffic that is tested is in the box, or another one is and so *)
(* nothing has been found to matter.                                       *)
One(g, b) ==
  \/ /\ InBox(g.core[g.i].v, b)
     /\ Covers(b, g.core[g.i], g.mfs[g.i], g.k)
     /\ \A j \in DOMAIN g.core \ {g.i} : ~ InBox(g.core[j].v, b)
     /\ 2 \in DOMAIN g.core => g.i = 2
  \/ /\ \E j \in DOMAIN g.core \ {g.i} : InBox(g.core[j].v, b)
     /\ \A j \in DOMAIN g.core : g.mfs[j] = {}

Directions == {"backward", "loopback"}

TwoBoxes(c, dir, one, two) ==
  /\ \A t \in Traffic : ~ Anomalous(c, Alone(t))
  /\ \A p \in FullPoint :
       Anomalous(c, p) <=> p[2].dir = dir /\ InBox(p[1].v, one) /\ InBox(p[2].v, two)

(* Each traffic is in its box. *)
Two(g, dir, one, two) ==
  /\ 2 \in DOMAIN g.core /\ g.core[2].dir = dir
  /\ InBox(g.core[1].v, one) /\ InBox(g.core[2].v, two)
  /\ Covers(one, g.core[1], g.mfs[1], Progress(g, 1))
  /\ Covers(two, g.core[2], g.mfs[2], Progress(g, 2))

Understood(c, g) ==
  /\ \A b \in Boxes : OneBox(c, b) => One(g, b)
  /\ \A dir \in Directions, one \in Boxes, two \in Boxes :
       TwoBoxes(c, dir, one, two) => Two(g, dir, one, two)

(* What no test was misled about is known to be anomalous or not. *)
Generating ==
  /\ job = "forward" =>
       /\ gen.core = Alone(point[1])
       /\ ~ gen.misled => Anomalous(card, point)
  /\ job = "backward" =>
       /\ gen.core = Alone(point[2])
       /\ ~ gen.misled =>
            Anomalous(card, point) /\ ~ Anomalous(card, Alone(point[1]))
  /\ job \in {"test", "redo"} =>
       /\ Origins(point, gen)
       /\ ~ gen.misled => Understood(card, gen)
  /\ job = "test" /\ gen.side = "upper" =>
       /\ ~ Optimal
       /\ ~ gen.misled => (gen.low <=> Anomalous(card, Simple))

LEMMA NextFacts ==
  ASSUME gen \in GenType, gen.k \in 1 .. 3, NEW core \in {gen.core, Simple},
         NEW more \in SUBSET FeatureSet, NEW misled \in BOOLEAN,
         NextDim(core, more, misled)
  PROVE  /\ gen' \in GenType /\ gen'.core = core /\ gen'.side = "lower"
         /\ gen'.misled = misled /\ job' \in {"test", "redo"}
         /\ DOMAIN core = DOMAIN gen.core
         /\ \A j \in DOMAIN core \ {gen.i} : core[j] = gen.core[j]
         /\ gen'.mfs[gen.i] = gen.mfs[gen.i] \cup more
         /\ \A j \in DOMAIN core \ {gen.i} : gen'.mfs[j] = gen.mfs[j]
         /\ Progress(gen', gen.i) = gen.k + 1
         /\ \A j \in DOMAIN core \ {gen.i} : Progress(gen', j) = Progress(gen, j)
         /\ \/ gen'.i = gen.i /\ gen'.k = gen.k + 1
            \/ gen.i = 1 /\ 2 \in DOMAIN core /\ gen'.i = 2 /\ gen'.k = 1
  <1>1. /\ core \in Point /\ DOMAIN core = DOMAIN gen.core
        /\ \A j \in DOMAIN core \ {gen.i} : core[j] = gen.core[j]
        /\ gen.i \in DOMAIN core /\ gen.i \in 1 .. 2
        /\ \A j \in DOMAIN core : j \in 1 .. 2
    BY GenFacts, TestFacts, SimpleFacts, PointFacts
  <1>2. /\ gen' \in GenType /\ gen'.side = "lower"
        /\ gen'.core = core /\ gen'.misled = misled
        /\ \A j \in DOMAIN core :
             gen'.mfs[j] = IF j = gen.i THEN gen.mfs[j] \cup more ELSE gen.mfs[j]
        /\ \/ /\ gen.k < 3 /\ gen'.i = gen.i /\ gen'.k = gen.k + 1
              /\ job' = "test"
           \/ /\ gen.k = 3 /\ gen.i = 1 /\ 2 \in DOMAIN core
              /\ gen'.i = 2 /\ gen'.k = 1 /\ job' = "test"
           \/ /\ gen.k = 3 /\ gen.i + 1 \notin DOMAIN core
              /\ gen'.i = gen.i /\ gen'.k = 4 /\ job' = "redo"
    BY <1>1, NextDimFacts
  <1>3. /\ \/ gen'.i = gen.i /\ gen'.k = gen.k + 1
           \/ gen.k = 3 /\ gen.i = 1 /\ 2 \in DOMAIN core /\ gen'.i = 2 /\ gen'.k = 1
        /\ job' \in {"test", "redo"}
    BY <1>2
  <1>4. /\ gen'.mfs[gen.i] = gen.mfs[gen.i] \cup more
        /\ \A j \in DOMAIN core \ {gen.i} : gen'.mfs[j] = gen.mfs[j]
    BY <1>1, <1>2
  <1>5. Progress(gen', gen.i) = gen.k + 1
    BY <1>1, <1>3 DEF Progress
  <1>6. \A j \in DOMAIN core \ {gen.i} : Progress(gen', j) = Progress(gen, j)
    BY <1>1, <1>3 DEF Progress
  <1>. QED
    BY <1>1, <1>2, <1>3, <1>4, <1>5, <1>6

(* No feature of the box is known before the first test. *)
LEMMA CoversNothing ==
  ASSUME NEW b, NEW t, NEW m
  PROVE  Covers(b, t, m, 1)
  BY DEF Covers

(* A dimension more, of cards on which one traffic is to blame. *)
LEMMA OneNext ==
  ASSUME gen \in GenType, gen.k \in 1 .. 3, NEW core, NEW more \in SUBSET FeatureSet,
         NEW misled \in BOOLEAN, NextDim(core, more, misled), Learnt(core, more),
         NEW b \in Boxes, OneBox(card, b), One(gen, b)
  PROVE  One(gen', b)
  <1>1. core \in {gen.core, Simple}
    BY DEF Learnt
  <1>2. /\ gen'.core = core /\ DOMAIN core = DOMAIN gen.core
        /\ \A j \in DOMAIN core \ {gen.i} : core[j] = gen.core[j]
        /\ gen'.mfs[gen.i] = gen.mfs[gen.i] \cup more
        /\ \A j \in DOMAIN core \ {gen.i} : gen'.mfs[j] = gen.mfs[j]
        /\ \/ gen'.i = gen.i /\ gen'.k = gen.k + 1
           \/ gen.i = 1 /\ 2 \in DOMAIN core /\ gen'.i = 2 /\ gen'.k = 1
    BY <1>1, NextFacts
  <1>3. gen.i \in DOMAIN core /\ \A j \in DOMAIN core : j \in 1 .. 2
    BY <1>2, GenFacts, PointFacts
  <1>4. ASSUME NEW x \in 0 .. Bound[Dim]
        PROVE  /\ Variant(x) \in Point /\ DOMAIN Variant(x) = DOMAIN gen.core
               /\ Variant(x)[gen.i] = With(Tested, Dim, x)
               /\ \A j \in DOMAIN gen.core \ {gen.i} : Variant(x)[j] = gen.core[j]
               /\ Anomalous(card, Variant(x)) <=>
                    \E j \in DOMAIN gen.core : InBox(Variant(x)[j].v, b)
    BY TestFacts DEF OneBox
  <1>5. CASE /\ InBox(gen.core[gen.i].v, b)
             /\ Covers(b, gen.core[gen.i], gen.mfs[gen.i], gen.k)
             /\ \A j \in DOMAIN gen.core \ {gen.i} : ~ InBox(gen.core[j].v, b)
             /\ 2 \in DOMAIN gen.core => gen.i = 2
    <2>1. Decides(b)
      <3>. SUFFICES ASSUME NEW x \in 0 .. Bound[Dim]
                    PROVE  Anomalous(card, Variant(x)) <=> InBox(With(Tested, Dim, x).v, b)
        BY DEF Decides
      <3>. QED
        BY <1>2, <1>3, <1>4, <1>5
    <2>2. /\ InBox(core[gen.i].v, b)
          /\ Covers(b, core[gen.i], gen.mfs[gen.i] \cup more, gen.k + 1)
      BY <1>5, <2>1, CoversMore DEF Tested
    <2>3. gen'.i = gen.i /\ gen'.k = gen.k + 1
      BY <1>2, <1>5
    <2>. QED
      BY <1>2, <1>5, <2>2, <2>3 DEF One
  <1>6. CASE /\ \E j \in DOMAIN gen.core \ {gen.i} : InBox(gen.core[j].v, b)
             /\ \A j \in DOMAIN gen.core : gen.mfs[j] = {}
    <2>1. PICK o \in DOMAIN gen.core \ {gen.i} : InBox(gen.core[o].v, b)
      BY <1>6
    <2>2. Indifferent
      BY <1>4, <2>1 DEF Indifferent
    <2>3. more = {}
      BY <2>2, NothingMore
    <2>4. \A j \in DOMAIN core : gen'.mfs[j] = {}
      BY <1>2, <1>3, <1>6, <2>3
    <2>5. CASE gen'.i = gen.i
      BY <1>2, <2>1, <2>4, <2>5 DEF One
    <2>6. CASE gen.i = 1 /\ 2 \in DOMAIN core /\ gen'.i = 2 /\ gen'.k = 1
      <3>1. o = 2 /\ core[2] = gen.core[2]
        BY <1>2, <1>3, <2>1, <2>6
      <3>2. CASE InBox(core[1].v, b)
        BY <1>2, <1>3, <2>4, <2>6, <3>2 DEF One
      <3>3. CASE ~ InBox(core[1].v, b)
        <4>1. Covers(b, core[2], gen'.mfs[2], 1)
          BY CoversNothing
        <4>2. \A j \in DOMAIN core \ {2} : j = 1
          BY <1>3
        <4>. QED
          BY <1>2, <2>1, <2>6, <3>1, <3>3, <4>1, <4>2 DEF One
      <3>. QED
        BY <3>2, <3>3
    <2>. QED
      BY <1>2, <2>5, <2>6
  <1>. QED
    BY <1>5, <1>6 DEF One

(* And of those on which two are. *)
LEMMA TwoNext ==
  ASSUME gen \in GenType, gen.k \in 1 .. 3, NEW core, NEW more \in SUBSET FeatureSet,
         NEW misled \in BOOLEAN, NextDim(core, more, misled), Learnt(core, more),
         NEW dir \in Directions, NEW one \in Boxes, NEW two \in Boxes,
         TwoBoxes(card, dir, one, two), Two(gen, dir, one, two)
  PROVE  Two(gen', dir, one, two)
  <1>1. core \in {gen.core, Simple}
    BY DEF Learnt
  <1>2. /\ gen'.core = core /\ DOMAIN core = DOMAIN gen.core
        /\ \A j \in DOMAIN core \ {gen.i} : core[j] = gen.core[j]
        /\ gen'.mfs[gen.i] = gen.mfs[gen.i] \cup more
        /\ \A j \in DOMAIN core \ {gen.i} : gen'.mfs[j] = gen.mfs[j]
        /\ Progress(gen', gen.i) = gen.k + 1
        /\ \A j \in DOMAIN core \ {gen.i} : Progress(gen', j) = Progress(gen, j)
    BY <1>1, NextFacts
  <1>3. gen.i \in 1 .. 2 /\ 1 \in DOMAIN core /\ 2 \in DOMAIN core
        /\ gen.core \in Point
    BY <1>2, GenFacts, PointFacts DEF Two
  <1>. DEFINE b == IF gen.i = 1 THEN one ELSE two
  <1>4. /\ b \in Boxes /\ InBox(Tested.v, b)
        /\ Covers(b, Tested, gen.mfs[gen.i], gen.k)
    BY <1>3 DEF Two, Tested, Progress
  <1>5. Decides(b)
    <2>. SUFFICES ASSUME NEW x \in 0 .. Bound[Dim]
                  PROVE  Anomalous(card, Variant(x)) <=> InBox(With(Tested, Dim, x).v, b)
      BY DEF Decides
    <2>1. /\ Variant(x) \in Point /\ DOMAIN Variant(x) = DOMAIN gen.core
          /\ Variant(x)[gen.i] = With(Tested, Dim, x)
          /\ \A j \in DOMAIN gen.core \ {gen.i} : Variant(x)[j] = gen.core[j]
          /\ \A j \in DOMAIN gen.core : Variant(x)[j].dir = gen.core[j].dir
      BY TestFacts
    <2>2. Variant(x) \in FullPoint
      BY <1>2, <1>3, <2>1, PointFacts
    <2>3. Anomalous(card, Variant(x)) <=>
            /\ Variant(x)[2].dir = dir
            /\ InBox(Variant(x)[1].v, one) /\ InBox(Variant(x)[2].v, two)
      BY <2>2 DEF TwoBoxes
    <2>4. Variant(x)[2].dir = dir
      BY <1>2, <1>3, <2>1 DEF Two
    <2>5. CASE gen.i = 1
      <3>1. Variant(x)[2] = gen.core[2] /\ Variant(x)[1] = With(Tested, Dim, x)
        BY <1>2, <1>3, <2>1, <2>5
      <3>. QED
        BY <2>3, <2>4, <2>5, <3>1 DEF Two
    <2>6. CASE gen.i = 2
      <3>1. Variant(x)[1] = gen.core[1] /\ Variant(x)[2] = With(Tested, Dim, x)
        BY <1>2, <1>3, <2>1, <2>6
      <3>. QED
        BY <2>3, <2>4, <2>6, <3>1 DEF Two
    <2>. QED
      BY <1>3, <2>5, <2>6
  <1>. HIDE DEF b
  <1>6. /\ InBox(core[gen.i].v, b)
        /\ Covers(b, core[gen.i], gen.mfs[gen.i] \cup more, gen.k + 1)
    BY <1>4, <1>5, CoversMore
  <1>7. core[2].dir = dir
    <2>1. \A j \in DOMAIN gen.core : Simple[j].dir = gen.core[j].dir
      BY TestFacts DEF Simple
    <2>. QED
      BY <1>1, <1>2, <1>3, <2>1 DEF Two
  <1>8. CASE gen.i = 1
    <2>1. b = one
      BY <1>8 DEF b
    <2>2. /\ core[2] = gen.core[2] /\ gen'.mfs[2] = gen.mfs[2]
          /\ Progress(gen', 2) = Progress(gen, 2)
      BY <1>2, <1>3, <1>8
    <2>. QED
      BY <1>2, <1>3, <1>6, <1>7, <1>8, <2>1, <2>2 DEF Two
  <1>9. CASE gen.i = 2
    <2>1. b = two
      BY <1>9 DEF b
    <2>2. /\ core[1] = gen.core[1] /\ gen'.mfs[1] = gen.mfs[1]
          /\ Progress(gen', 1) = Progress(gen, 1)
      BY <1>2, <1>3, <1>9
    <2>. QED
      BY <1>2, <1>3, <1>6, <1>7, <1>9, <2>1, <2>2 DEF Two
  <1>. QED
    BY <1>3, <1>8, <1>9

LEMMA OriginsNext ==
  ASSUME gen \in GenType, gen.k \in 1 .. 3, NEW core, NEW more \in SUBSET FeatureSet,
         NEW misled \in BOOLEAN, NextDim(core, more, misled), Outcome(core, more),
         NEW p \in FullPoint, Origins(p, gen)
  PROVE  Origins(p, gen')
  <1>1. core \in {gen.core, Simple}
    BY DEF Outcome
  <1>2. /\ gen'.core = core /\ DOMAIN core = DOMAIN gen.core
        /\ \A j \in DOMAIN core \ {gen.i} : core[j] = gen.core[j]
        /\ gen'.mfs[gen.i] = gen.mfs[gen.i] \cup more
        /\ \A j \in DOMAIN core \ {gen.i} : gen'.mfs[j] = gen.mfs[j]
        /\ Progress(gen', gen.i) = gen.k + 1
        /\ \A j \in DOMAIN core \ {gen.i} : Progress(gen', j) = Progress(gen, j)
    BY <1>1, NextFacts
  <1>3. ASSUME NEW j \in DOMAIN core
        PROVE  \E s \in 1 .. 2 :
                 Keeps(p[s], core[j], gen'.mfs[j], Progress(gen', j))
    <2>1. PICK s \in 1 .. 2 :
            Keeps(p[s], gen.core[j], gen.mfs[j], Progress(gen, j))
      BY <1>2, <1>3 DEF Origins
    <2>2. CASE j # gen.i
      BY <1>2, <2>1, <2>2
    <2>3. CASE j = gen.i
      <3>1. p[s] \in Traffic
        BY FullFacts
      <3>2. Keeps(p[s], Tested, gen.mfs[gen.i], gen.k)
        BY <2>1, <2>3, GenFacts DEF Tested, Progress
      <3>3. Keeps(p[s], core[gen.i], gen.mfs[gen.i] \cup more, gen.k + 1)
        BY <3>1, <3>2, KeepsMore
      <3>. QED
        BY <1>2, <2>3, <3>3
    <2>. QED
      BY <2>2, <2>3
  <1>. QED
    BY <1>2, <1>3 DEF Origins

(* The next dimension. *)
LEMMA GeneratingNext ==
  ASSUME Typed, Generating, job = "test", UNCHANGED searchVars,
         NEW core, NEW more \in SUBSET FeatureSet,
         NEW misled \in BOOLEAN, NextDim(core, more, misled), Outcome(core, more),
         ~ misled => ~ gen.misled /\ Learnt(core, more)
  PROVE  Generating'
  <1>1. /\ gen \in GenType /\ gen.k \in 1 .. 3 /\ point \in FullPoint
        /\ point' = point /\ card' = card
    BY DEF Typed, Placed, WalkType, searchVars
  <1>2. /\ gen'.side = "lower" /\ gen'.misled = misled /\ job' \in {"test", "redo"}
    <2>1. core \in {gen.core, Simple}
      BY DEF Outcome
    <2>. QED
      BY <1>1, <2>1, NextFacts
  <1>3. Origins(point, gen')
    BY <1>1, OriginsNext DEF Generating
  <1>4. ~ misled => Understood(card, gen')
    <2>. SUFFICES ASSUME ~ misled PROVE Understood(card, gen')
      OBVIOUS
    <2>1. Understood(card, gen)
      BY DEF Generating
    <2>. QED
      BY <1>1, <2>1, OneNext, TwoNext DEF Understood
  <1>. QED
    BY <1>1, <1>2, <1>3, <1>4 DEF Generating

(* The first test of a point, which is known to be anomalous. *)
LEMMA GeneratingStart ==
  ASSUME Typed, UNCHANGED searchVars, job' = "test", NEW misled \in BOOLEAN,
         NEW core, gen' = Fresh(core, misled),
         core \in {Alone(point[1]), Alone(point[2]), point},
         ~ misled => /\ Anomalous(card, core)
                     /\ core = point => ~ Anomalous(card, Alone(point[1]))
  PROVE  Generating'
  <1>1. /\ point \in FullPoint /\ point \in Point /\ DOMAIN point = 1 .. 2
        /\ point[1] \in Traffic /\ point[2] \in Traffic
        /\ point' = point /\ card' = card
    BY FullFacts DEF Typed, WalkType, searchVars
  <1>2. core \in Point
    BY <1>1, AloneFacts
  <1>3. /\ gen' \in GenType /\ gen'.i = 1 /\ gen'.k = 1 /\ gen'.side = "lower"
        /\ gen'.core = core /\ gen'.mfs = Nothing(core) /\ gen'.misled = misled
    BY <1>2, GenOf
  <1>4. /\ \A j \in DOMAIN core : gen'.mfs[j] = {} /\ Progress(gen', j) = 1
        /\ 1 \in DOMAIN core
    <2>1. \A j \in DOMAIN core : j \in 1 .. 2
      BY <1>2, PointFacts
    <2>. QED
      BY <1>2, <1>3, <2>1, PointFacts DEF Nothing, Progress
  <1>5. Origins(point, gen')
    <2>. SUFFICES ASSUME NEW j \in DOMAIN core
                  PROVE  \E s \in 1 .. 2 : Keeps(point[s], core[j], {}, 1)
      BY <1>3, <1>4 DEF Origins
    <2>1. ASSUME NEW t \in Traffic
          PROVE  Keeps(t, t, {}, 1)
      <3>1. t.v["send_batch"] \in Nat
        BY TrafficFacts, DimFacts
      <3>. QED
        BY <3>1, FitFacts DEF Keeps
    <2>2. \E s \in 1 .. 2 : core[j] = point[s]
      <3>1. CASE core = point
        BY <1>1, <3>1
      <3>2. ASSUME NEW s \in 1 .. 2, core = Alone(point[s])
            PROVE  core[j] = point[s]
        <4>1. point[s] \in Traffic
          BY <1>1
        <4>2. j = 1 /\ core[1] = point[s]
          BY <3>2, <4>1, AloneFacts
        <4>. QED
          BY <4>2
      <3>. QED
        BY <3>1, <3>2
    <2>3. PICK s \in 1 .. 2 : core[j] = point[s]
      BY <2>2
    <2>4. point[s] \in Traffic
      BY <1>1
    <2>. QED
      BY <2>1, <2>3, <2>4
  <1>6. ASSUME ~ misled, NEW b \in Boxes, OneBox(card, b)
        PROVE  One(gen', b)
    <2>1. \E j \in DOMAIN core : InBox(core[j].v, b)
      BY <1>2, <1>6 DEF OneBox
    <2>2. CASE core = point
      <3>1. ~ InBox(point[1].v, b)
        <4>1. ~ Anomalous(card, Alone(point[1]))
          BY <1>6, <2>2
        <4>2. Alone(point[1]) \in Point /\ Alone(point[1])[1] = point[1]
              /\ 1 \in DOMAIN Alone(point[1])
          BY <1>1, AloneFacts
        <4>. QED
          BY <1>6, <4>1, <4>2 DEF OneBox
      <3>2. InBox(core[2].v, b) /\ 2 \in DOMAIN core \ {1}
        BY <1>1, <2>1, <2>2, <3>1
      <3>. QED
        BY <1>3, <1>4, <3>2 DEF One
    <2>3. CASE DOMAIN core = 1 .. 1
      <3>1. /\ InBox(core[1].v, b) /\ 2 \notin DOMAIN core
            /\ \A j \in DOMAIN core \ {1} : FALSE
        BY <2>1, <2>3
      <3>2. Covers(b, core[1], gen'.mfs[1], 1)
        BY CoversNothing
      <3>. QED
        BY <1>3, <3>1, <3>2 DEF One
    <2>4. core # point => DOMAIN core = 1 .. 1
      BY <1>1, AloneFacts
    <2>. QED
      BY <2>2, <2>3, <2>4
  <1>7. ASSUME ~ misled, NEW dir \in Directions, NEW one \in Boxes, NEW two \in Boxes,
               TwoBoxes(card, dir, one, two)
        PROVE  Two(gen', dir, one, two)
    <2>1. core = point
      BY <1>1, <1>7 DEF TwoBoxes
    <2>2. /\ point[2].dir = dir /\ InBox(point[1].v, one)
          /\ InBox(point[2].v, two)
      BY <1>1, <1>7, <2>1 DEF TwoBoxes
    <2>3. /\ Covers(one, core[1], gen'.mfs[1], 1)
          /\ Covers(two, core[2], gen'.mfs[2], 1)
      BY CoversNothing
    <2>4. 2 \in DOMAIN core /\ Progress(gen', 1) = 1 /\ Progress(gen', 2) = 1
      BY <1>1, <1>4, <2>1
    <2>. QED
      BY <1>3, <2>1, <2>2, <2>3, <2>4 DEF Two
  <1>8. ~ misled => Understood(card, gen')
    BY <1>6, <1>7 DEF Understood
  <1>. QED
    BY <1>1, <1>3, <1>5, <1>8 DEF Generating

LEMMA GeneratingSkip ==
  ASSUME Typed, Generating, SkipOptimal
  PROVE  Generating'
  <1>1. /\ job = "test" /\ Optimal /\ Tested.v[Dim] = 0
        /\ NextDim(gen.core, {}, gen.misled) /\ UNCHANGED searchVars
    BY DEF SkipOptimal
  <1>2. gen.misled \in BOOLEAN /\ {} \in SUBSET FeatureSet
    BY GenFacts DEF Typed
  <1>3. Outcome(gen.core, {}) /\ Learnt(gen.core, {})
    BY <1>1 DEF Outcome, Learnt
  <1>. QED
    BY <1>1, <1>2, <1>3, GeneratingNext

(* An answer that is not misled says whether the traffic is anomalous. *)
LEMMA GeneratingAnswer ==
  ASSUME Typed, Generating, job \in {"forward", "backward", "test"},
         NEW yes \in BOOLEAN, NEW misled \in BOOLEAN, Answer(yes, misled),
         UNCHANGED searchVars,
         ~ misled => ~ gen.misled /\ (yes <=> Anomalous(card, Goal))
  PROVE  Generating'
  <1>1. /\ gen \in GenType /\ (job = "test" => gen.k \in 1 .. 3)
        /\ point \in FullPoint /\ point' = point /\ card' = card
        /\ DOMAIN point = 1 .. 2 /\ point[1] \in Traffic /\ point[2] \in Traffic
    BY FullFacts DEF Typed, Placed, WalkType, searchVars
  <1>2. job = "test" =>
          /\ Goal = TestPoint
          /\ Origins(point, gen)
          /\ ~ misled => Understood(card, gen)
    BY DEF Goal, Generating
  <1>3. job \in {"forward", "backward"} => Goal = gen.core
    BY DEF Goal
  <1>4. 2 \in DOMAIN point /\ 2 \notin DOMAIN Alone(point[1])
        /\ 2 \notin DOMAIN Alone(point[2])
    BY <1>1, AloneFacts
  <1>5. CASE AnswerEnough(yes, misled)
    <2>1. /\ job \in {"forward", "backward"} /\ yes /\ job' = "test"
          /\ gen' = Fresh(gen.core, misled)
      BY <1>5 DEF AnswerEnough
    <2>2. gen.core \in {Alone(point[1]), Alone(point[2])}
      BY <2>1 DEF Generating
    <2>3. ~ misled => Anomalous(card, gen.core)
      BY <1>3, <2>1
    <2>4. gen.core # point
      BY <1>4, <2>2
    <2>. QED
      BY <2>1, <2>2, <2>3, <2>4, GeneratingStart
  <1>6. CASE AnswerBackward(yes, misled)
    <2>1. /\ job = "forward" /\ ~ yes /\ job' = "backward"
          /\ gen' = Fresh(Alone(point[2]), misled)
      BY <1>6 DEF AnswerBackward
    <2>2. gen'.core = Alone(point[2]) /\ gen'.misled = misled
      BY <1>1, <2>1, AloneFacts, GenOf
    <2>3. ~ misled => Anomalous(card, point) /\ ~ Anomalous(card, Alone(point[1]))
      BY <1>3, <2>1 DEF Generating
    <2>. QED
      BY <1>1, <2>1, <2>2, <2>3 DEF Generating
  <1>7. CASE AnswerBoth(yes, misled)
    <2>1. /\ job \in {"forward", "backward"} /\ ~ yes /\ job' = "test"
          /\ gen' = Fresh(point, misled)
      BY <1>7 DEF AnswerBoth
    <2>2. ~ misled => Anomalous(card, point) /\ ~ Anomalous(card, Alone(point[1]))
      BY <1>3, <2>1 DEF Generating
    <2>. QED
      BY <2>1, <2>2, GeneratingStart
  <1>8. CASE AnswerUpper(yes, misled)
    <2>1. /\ gen'.i = gen.i /\ gen'.k = gen.k /\ gen'.side = "upper"
          /\ gen'.low = yes /\ gen'.core = gen.core /\ gen'.mfs = gen.mfs
          /\ gen'.misled = misled
          /\ job = "test" /\ job' = "test" /\ ~ Optimal /\ gen.side = "lower"
      BY <1>1, <1>8, UpperFacts DEF AnswerUpper
    <2>2. Simple' = Simple /\ ~ Optimal'
      BY <2>1 DEF Simple, Variant, PointWith, Tested, Optimal, Dim, LowerBound
    <2>3. TestPoint = Simple
      BY <1>1, <2>1, TestFacts DEF Simple
    <2>4. ~ gen'.misled => (gen'.low <=> Anomalous(card', Simple'))
      BY <1>1, <1>2, <2>1, <2>2, <2>3
    <2>5. Origins(point', gen') /\ (~ gen'.misled => Understood(card', gen'))
      BY <1>1, <1>2, <2>1 DEF Origins, Understood, One, Two, Progress
    <2>. QED
      BY <2>1, <2>2, <2>4, <2>5 DEF Generating
  <1>9. CASE AnswerSimple(yes, misled)
    <2>1. /\ job = "test" /\ yes /\ NextDim(Simple, {}, misled)
          /\ IF Optimal THEN TRUE ELSE gen.side = "upper" /\ gen.low
      BY <1>9 DEF AnswerSimple
    <2>2. ~ misled => Learnt(Simple, {})
      <3>. SUFFICES ASSUME ~ misled PROVE Learnt(Simple, {})
        OBVIOUS
      <3>1. Anomalous(card, TestPoint) /\ ~ gen.misled
        BY <1>2, <2>1
      <3>2. CASE Optimal
        <4>1. gen.side = "lower"
          BY <1>1, <2>1, <3>2, GenFacts DEF Generating
        <4>2. TestPoint = Simple
          BY <1>1, <2>1, <4>1, TestFacts DEF Simple
        <4>. QED
          BY <3>1, <3>2, <4>2 DEF Learnt
      <3>3. CASE ~ Optimal
        <4>1. gen.side = "upper" /\ gen.low
          BY <2>1, <3>3
        <4>2. TestPoint = Variant(Bound[Dim])
          BY <1>1, <2>1, <4>1, TestFacts
        <4>3. Anomalous(card, Simple)
          BY <2>1, <3>1, <4>1 DEF Generating
        <4>. QED
          BY <3>1, <4>2, <4>3 DEF Learnt
      <3>. QED
        BY <3>2, <3>3
    <2>3. Outcome(Simple, {}) /\ {} \in SUBSET FeatureSet
      BY DEF Outcome
    <2>. QED
      BY <2>1, <2>2, <2>3, GeneratingNext
  <1>10. CASE AnswerOptimal(yes, misled)
    <2>. DEFINE more == Feature(Tested.v[Dim], Bound[Dim])
    <2>1. job = "test" /\ Optimal /\ ~ yes /\ NextDim(gen.core, more, misled)
      BY <1>10 DEF AnswerOptimal
    <2>2. more \in SUBSET FeatureSet
      BY <1>1, <2>1, IntervalFacts
    <2>3. ~ misled => Learnt(gen.core, more)
      <3>. SUFFICES ASSUME ~ misled PROVE Learnt(gen.core, more)
        OBVIOUS
      <3>1. ~ Anomalous(card, TestPoint)
        BY <1>2, <2>1
      <3>2. gen.side = "lower"
        BY <1>1, <2>1, GenFacts DEF Generating
      <3>3. TestPoint = Simple
        BY <1>1, <2>1, <3>2, TestFacts DEF Simple
      <3>. QED
        BY <2>1, <3>1, <3>3 DEF Learnt
    <2>4. Outcome(gen.core, more)
      BY DEF Outcome
    <2>. HIDE DEF more
    <2>. QED
      BY <2>1, <2>2, <2>3, <2>4, GeneratingNext
  <1>11. CASE AnswerInterval(yes, misled)
    <2>. DEFINE more == Interval(Tested.v[Dim], gen.low, yes)
    <2>1. /\ job = "test" /\ gen.side = "upper" /\ ~ (gen.low /\ yes)
          /\ NextDim(gen.core, more, misled) /\ gen.low \in BOOLEAN
      BY <1>1, <1>11, GenFacts DEF AnswerInterval
    <2>2. more \in SUBSET FeatureSet
      BY <1>1, <2>1, IntervalFacts
    <2>3. ~ misled => Learnt(gen.core, more)
      <3>. SUFFICES ASSUME ~ misled PROVE Learnt(gen.core, more)
        OBVIOUS
      <3>1. (yes <=> Anomalous(card, TestPoint)) /\ ~ gen.misled
        BY <1>2, <2>1
      <3>2. gen.low <=> Anomalous(card, Simple)
        BY <2>1, <3>1 DEF Generating
      <3>3. TestPoint = Variant(Bound[Dim])
        BY <1>1, <2>1, TestFacts
      <3>. QED
        BY <2>1, <3>1, <3>2, <3>3 DEF Learnt
    <2>4. Outcome(gen.core, more)
      BY <2>1 DEF Outcome
    <2>. HIDE DEF more
    <2>. QED
      BY <2>1, <2>2, <2>3, <2>4, GeneratingNext
  <1>. QED
    BY <1>5, <1>6, <1>7, <1>8, <1>9, <1>10, <1>11, AnswerCases

(* What is read from the counters. *)
LEMMA ReadFacts ==
  ASSUME NEW verdict \in Verdict, NEW read \in BOOLEAN, Read(verdict, read),
         ~ Misled(read)
  PROVE  verdict = Card[card][Goal] /\ (verdict = "pause" <=> Anomalous(card, Goal))
  BY DEF Misled, Read, Anomalous

LEMMA GeneratingElse ==
  ASSUME Generating, job' = "search" \/ UNCHANGED <<job, searchVars, gen>>
  PROVE  Generating'
  <1>1. CASE job' = "search"
    BY <1>1 DEF Generating
  <1>2. CASE UNCHANGED <<job, searchVars, gen>>
    BY <1>2 DEF Generating, searchVars, Optimal, Simple, Variant, PointWith,
                Tested, Dim, LowerBound
  <1>. QED
    BY <1>1, <1>2

LEMMA GeneratingStep == Typed /\ Generating /\ [Next]_vars => Generating'
  <1>. SUFFICES ASSUME Typed, Generating, [Next]_vars PROVE Generating'
    OBVIOUS
  <1>1. CASE UNCHANGED vars
    <2>1. UNCHANGED <<job, searchVars, gen>>
      BY <1>1 DEF vars
    <2>. QED
      BY <2>1, GeneratingElse
  <1>2. CASE \/ Kill \/ Clean \/ CleanFails \/ Launch \/ ComesUp
             \/ ComeUp \/ ComeUpTardy \/ Die
    <2>1. job' = "search" \/ UNCHANGED <<job, searchVars, gen>>
      BY <1>2 DEF Kill, Clean, CleanFails, Launch, ComesUp, ComeUp, ComeUpTardy,
                  Die, Generated, NextIteration
    <2>. QED
      BY <2>1, GeneratingElse
  <1>3. CASE Choose \/ Redraw \/ Leave
    <2>1. job' = "search"
      BY <1>3 DEF Choose, Redraw, Leave, Typed, Placed
    <2>. QED
      BY <2>1, GeneratingElse
  <1>4. CASE SkipOptimal
    BY <1>4, GeneratingSkip
  <1>5. CASE GiveUp
    <2>1. CASE Asking /\ Answer(TRUE, TRUE) /\ UNCHANGED searchVars
      BY <2>1, GeneratingAnswer DEF Asking
    <2>2. CASE job' = "search"
      BY <2>2, GeneratingElse
    <2>. QED
      BY <1>5, <2>1, <2>2 DEF GiveUp, Generated, NextIteration
  <1>6. CASE Measure
    <2>1. PICK verdict \in Verdict, read \in BOOLEAN :
            /\ Read(verdict, read)
            /\ \/ job' = "search"
               \/ /\ job = "search" /\ verdict = "pause"
                  /\ gen' = Fresh(Alone(point[1]), Misled(read))
                  /\ job' = "forward" /\ UNCHANGED searchVars
               \/ /\ Asking
                  /\ Answer(verdict = "pause", gen.misled \/ Misled(read))
                  /\ UNCHANGED searchVars
      BY <1>6 DEF Measure, Fresh, StartWith, Misled, Generated, NextIteration
    <2>2. ~ Misled(read) => (verdict = "pause" <=> Anomalous(card, Goal))
      BY <2>1, ReadFacts
    <2>3. CASE job' = "search"
      BY <2>3, GeneratingElse
    <2>4. CASE /\ job = "search" /\ verdict = "pause"
               /\ gen' = Fresh(Alone(point[1]), Misled(read))
               /\ job' = "forward" /\ UNCHANGED searchVars
      <3>1. /\ point[1] \in Traffic /\ point' = point /\ card' = card
            /\ Goal = point /\ Misled(read) \in BOOLEAN
        BY <2>4, FullFacts DEF Typed, WalkType, searchVars, Goal, Misled
      <3>2. gen'.core = Alone(point[1]) /\ gen'.misled = Misled(read)
        BY <2>4, <3>1, AloneFacts, GenOf
      <3>3. ~ gen'.misled => Anomalous(card, point)
        BY <2>2, <2>4, <3>1, <3>2
      <3>. QED
        BY <2>4, <3>1, <3>2, <3>3 DEF Generating
    <2>5. CASE /\ Asking
               /\ Answer(verdict = "pause", gen.misled \/ Misled(read))
               /\ UNCHANGED searchVars
      <3>. DEFINE yes == verdict = "pause"
                  misled == gen.misled \/ Misled(read)
      <3>1. yes \in BOOLEAN /\ misled \in BOOLEAN
        OBVIOUS
      <3>2. ~ misled => ~ gen.misled /\ (yes <=> Anomalous(card, Goal))
        BY <2>2
      <3>3. Answer(yes, misled)
        BY <2>5
      <3>. HIDE DEF yes, misled
      <3>. QED
        BY <2>5, <3>1, <3>2, <3>3, GeneratingAnswer DEF Asking
    <2>. QED
      BY <2>1, <2>3, <2>4, <2>5
  <1>. QED
    BY <1>1, <1>2, <1>3, <1>4, <1>5, <1>6 DEF Next, SearchStep

-----------------------------------------------------------------------------
(* The sets that are found. *)

(* After the last test. *)
LEMMA Complete ==
  ASSUME Typed, Generating, job = "redo"
  PROVE  /\ gen \in GenType /\ gen.k = 4 /\ point \in FullPoint
         /\ \A j \in DOMAIN gen.core : Progress(gen, j) = 4 /\ j \in 1 .. 2
         /\ Origins(point, gen) /\ (~ gen.misled => Understood(card, gen))
  <1>1. /\ gen \in GenType /\ gen.k = 4 /\ gen.i + 1 \notin DOMAIN gen.core
        /\ point \in FullPoint
        /\ Origins(point, gen) /\ (~ gen.misled => Understood(card, gen))
    BY DEF Typed, Placed, WalkType, Generating
  <1>2. \A j \in DOMAIN gen.core : j \in 1 .. 2
    BY <1>1, GenFacts, PointFacts
  <1>3. gen.i \in 1 .. 2 /\ gen.i \in DOMAIN gen.core /\ 1 \in DOMAIN gen.core
    BY <1>1, GenFacts, PointFacts
  <1>4. \A j \in DOMAIN gen.core : j <= gen.i
    BY <1>1, <1>2, <1>3
  <1>. QED
    BY <1>1, <1>2, <1>3, <1>4 DEF Progress

LEMMA FitsFacts ==
  ASSUME NEW t, NEW j
  PROVE  Fits(t, Features, j) <=>
           /\ Fit(t.v, gen.mfs[j])
           /\ j = 2 => (t.dir = "loopback" <=>
                          2 \in DOMAIN gen.core /\ gen.core[2].dir = "loopback")
  BY DEF Fits, Features, Fit

LEMMA OriginFound ==
  ASSUME Typed, Generating, job = "redo"
  PROVE  HasOrigin
  <1>1. /\ gen \in GenType /\ point \in FullPoint /\ Origins(point, gen)
        /\ DOMAIN gen.mfs = DOMAIN gen.core /\ DOMAIN point = 1 .. 2
    BY Complete, GenFacts, FullFacts
  <1>2. ASSUME \A s \in 1 .. 2 : DeepEnough(point[s]), NEW j \in DOMAIN gen.mfs
        PROVE  \E s \in DOMAIN point : Fits(point[s], Features, j)
    <2>1. PICK s \in 1 .. 2 :
            Keeps(point[s], gen.core[j], gen.mfs[j], Progress(gen, j))
      BY <1>1, <1>2 DEF Origins
    <2>2. point[s].dir = gen.core[j].dir /\ Fit(point[s].v, gen.mfs[j])
      BY <1>2, <2>1 DEF Keeps
    <2>. QED
      BY <1>1, <1>2, <2>2, FitsFacts
  <1>3. DOMAIN Features.mfs = DOMAIN gen.mfs
    BY DEF Features
  <1>. QED
    BY <1>2, <1>3 DEF HasOrigin, MatchOne

(* Every dimension is covered. *)
LEMMA CoversAll ==
  ASSUME NEW b \in Boxes, NEW c \in Traffic, NEW m, Covers(b, c, m, 4),
         NEW t \in Traffic, Fit(t.v, m), t.v["send_wq_depth"] >= c.v["send_batch"]
  PROVE  InBox(t.v, b)
  <1>1. \A j \in 1 .. 3 : t.v[Order[j]] >= LowerBound(c, Order[j])
    <2>. SUFFICES ASSUME NEW j \in 1 .. 3
                  PROVE  t.v[Order[j]] >= LowerBound(c, Order[j])
      OBVIOUS
    <2>1. Order[j] \in Dims /\ t.v[Order[j]] \in Nat
      BY OrderFacts, TrafficFacts
    <2>2. CASE Order[j] = "send_wq_depth"
      BY <2>1, <2>2, LowerFacts
    <2>3. CASE Order[j] # "send_wq_depth"
      BY <2>1, <2>3, LowerFacts
    <2>. QED
      BY <2>2, <2>3
  <1>2. t.v \in Vectors /\ \A j \in 1 .. 3 : j < 4
    BY TrafficFacts
  <1>3. \A j \in 1 .. 3 : t.v[Order[j]] \in b.lo[Order[j]] .. b.hi[Order[j]]
    BY <1>1, <1>2 DEF Covers
  <1>4. \A d \in Dims : d = Order[1] \/ d = Order[2] \/ d = Order[3]
    BY DimFacts, OrderFacts
  <1>5. 1 \in 1 .. 3 /\ 2 \in 1 .. 3 /\ 3 \in 1 .. 3
    OBVIOUS
  <1>. QED
    BY <1>3, <1>4, <1>5 DEF InBox

LEMMA OneFound ==
  ASSUME Typed, Generating, job = "redo", ~ gen.misled, ~ NoFeatures(gen.mfs)
  PROVE  LeavesOutAnomalies
  <1>1. /\ gen \in GenType /\ Understood(card, gen) /\ gen.k = 4
        /\ DOMAIN gen.mfs = DOMAIN gen.core /\ gen.i \in DOMAIN gen.core
        /\ gen.core[gen.i] \in Traffic /\ card \in DOMAIN Card
    BY Complete, GenFacts DEF Typed, WalkType
  <1>2. ASSUME NEW b \in Boxes, OneBox(card, b), NEW p \in FullPoint,
               \A j \in DOMAIN gen.mfs : \E i \in 1 .. 2 : FitsDeep(p[i], j)
        PROVE  Anomalous(card, p)
    <2>1. One(gen, b)
      BY <1>1, <1>2 DEF Understood
    <2>2. Covers(b, gen.core[gen.i], gen.mfs[gen.i], 4)
      BY <1>1, <2>1 DEF One, NoFeatures
    <2>3. PICK i \in 1 .. 2 : FitsDeep(p[i], gen.i)
      BY <1>1, <1>2
    <2>4. p[i] \in Traffic /\ p \in Point /\ DOMAIN p = 1 .. 2
      BY FullFacts
    <2>5. InBox(p[i].v, b)
      BY <1>1, <2>2, <2>3, <2>4, CoversAll, FitsFacts DEF FitsDeep
    <2>. QED
      BY <1>2, <2>4, <2>5 DEF OneBox
  <1>3. card \in OneCulprit => \E b \in Boxes : OneBox(card, b)
    BY DEF OneCulprit, OneBox
  <1>. QED
    BY <1>2, <1>3 DEF LeavesOutAnomalies

LEMMA TwoFacts ==
  ASSUME NEW c \in TwoCulprits
  PROVE  \E dir \in Directions, one \in Boxes, two \in Boxes :
           TwoBoxes(c, dir, one, two)
  <1>1. /\ \A t \in Traffic : ~ Anomalous(c, Alone(t))
        /\ \E dir \in Directions, one \in Boxes :
             /\ \A p \in FullPoint :
                  Anomalous(c, p) => p[2].dir = dir /\ InBox(p[1].v, one)
             /\ \E two \in Boxes : \A p \in FullPoint :
                  p[2].dir = dir /\ InBox(p[1].v, one) =>
                    (Anomalous(c, p) <=> InBox(p[2].v, two))
    BY DEF TwoCulprits, Directions
  <1>2. PICK dir \in Directions, one \in Boxes :
          /\ \A p \in FullPoint :
               Anomalous(c, p) => p[2].dir = dir /\ InBox(p[1].v, one)
          /\ \E two \in Boxes : \A p \in FullPoint :
               p[2].dir = dir /\ InBox(p[1].v, one) =>
                 (Anomalous(c, p) <=> InBox(p[2].v, two))
    BY <1>1
  <1>3. PICK two \in Boxes : \A p \in FullPoint :
          p[2].dir = dir /\ InBox(p[1].v, one) =>
            (Anomalous(c, p) <=> InBox(p[2].v, two))
    BY <1>2
  <1>4. TwoBoxes(c, dir, one, two)
    BY <1>1, <1>2, <1>3 DEF TwoBoxes
  <1>. QED
    BY <1>4

LEMMA TwoFound ==
  ASSUME Typed, Generating, job = "redo", ~ gen.misled
  PROVE  FitsAlignedAnomalies
  <1>1. /\ gen \in GenType /\ Understood(card, gen)
        /\ DOMAIN gen.mfs = DOMAIN gen.core /\ gen.core \in Point
        /\ \A j \in DOMAIN gen.core : Progress(gen, j) = 4 /\ gen.core[j] \in Traffic
        /\ 1 \in DOMAIN gen.core
    BY Complete, GenFacts, PointFacts
  <1>2. ASSUME NEW dir \in Directions, NEW one \in Boxes, NEW two \in Boxes,
               TwoBoxes(card, dir, one, two), NEW p \in FullPoint,
               \A j \in DOMAIN gen.mfs : FitsDeep(p[j], j)
        PROVE  Anomalous(card, p)
    <2>1. Two(gen, dir, one, two)
      BY <1>1, <1>2 DEF Understood
    <2>2. /\ 2 \in DOMAIN gen.core /\ gen.core[2].dir = dir
          /\ Covers(one, gen.core[1], gen.mfs[1], 4)
          /\ Covers(two, gen.core[2], gen.mfs[2], 4)
      BY <1>1, <2>1 DEF Two
    <2>3. FitsDeep(p[1], 1) /\ FitsDeep(p[2], 2)
      BY <1>1, <1>2, <2>2
    <2>4. /\ p[1] \in Traffic /\ p[2] \in Traffic /\ p[2].dir # "forward"
          /\ p[2].dir \in {"forward", "backward", "loopback"}
      BY FullFacts, TrafficFacts
    <2>5. InBox(p[1].v, one)
      BY <1>1, <2>2, <2>3, <2>4, CoversAll, FitsFacts DEF FitsDeep
    <2>6. InBox(p[2].v, two)
      BY <1>1, <2>2, <2>3, <2>4, CoversAll, FitsFacts DEF FitsDeep
    <2>7. p[2].dir = dir
      <3>1. p[2].dir = "loopback" <=> gen.core[2].dir = "loopback"
        BY <2>2, <2>3, FitsFacts DEF FitsDeep
      <3>. QED
        BY <2>2, <2>4, <3>1 DEF Directions
    <2>. QED
      BY <1>2, <2>5, <2>6, <2>7 DEF TwoBoxes
  <1>. QED
    BY <1>2, TwoFacts DEF FitsAlignedAnomalies

(* The only step that finds a set is the one after the last test, if that  *)
(* has shown that the simplified point is anomalous.                       *)
LEMMA FoundBy ==
  ASSUME Typed, Next, found' # found
  PROVE  /\ job = "redo" /\ ~ NoFeatures(gen.mfs)
         /\ AsAsked /\ faults' = faults => Card[card][gen.core] # "ok"
  <1>1. Measure
    BY DEF Next, SearchStep, searchVars, Kill, Clean, CleanFails, Launch, ComesUp,
           Choose, Redraw, Leave, SkipOptimal, GiveUp, Measure, ComeUp,
           ComeUpTardy, Die, Generated
  <1>2. PICK verdict \in Verdict, read \in BOOLEAN :
          /\ Read(verdict, read)
          /\ IF read THEN UNCHANGED faults ELSE Fails
          /\ job = "redo" /\ Generated(Keep(verdict))
    BY <1>1 DEF Measure, searchVars
  <1>3. ~ NoFeatures(gen.mfs) /\ Keep(verdict)
    BY <1>2 DEF Generated
  <1>4. faults \in Nat
    BY DEF Typed, EngineType
  <1>5. faults' = faults => read
    BY <1>2, <1>4 DEF Fails
  <1>6. AsAsked /\ faults' = faults => verdict = Card[card][gen.core]
    <2>1. Goal = gen.core
      BY <1>2 DEF Goal
    <2>. QED
      BY <1>2, <1>5, <2>1 DEF Read
  <1>. QED
    BY <1>2, <1>3, <1>6 DEF Keep

(* Of any card and whatever fails, when a set of features is found: the    *)
(* point it was made from is in it, by the match with either traffic that  *)
(* the walk leaves points out with; the simplified point is anomalous if   *)
(* the last test measured what was asked for; and if no test was misled,   *)
(* all that the set leaves out is anomalous if one traffic is to blame for *)
(* the card's anomalies, and all that fits it traffic by traffic if it     *)
(* takes two.                                                              *)
THEOREM SetsSound == Spec => FoundSound
  <1>1. Init => Generating
    BY DEF Init, Generating
  <1>2. Typed /\ Generating /\ [Next]_vars =>
          [found' # found =>
             /\ HasOrigin
             /\ AsAsked /\ faults' = faults => CoreSlow
             /\ ~ gen.misled => LeavesOutAnomalies /\ FitsAlignedAnomalies]_vars
    <2>. SUFFICES ASSUME Typed, Generating, Next, found' # found
                  PROVE  /\ HasOrigin
                         /\ AsAsked /\ faults' = faults => CoreSlow
                         /\ ~ gen.misled => LeavesOutAnomalies /\ FitsAlignedAnomalies
      OBVIOUS
    <2>1. /\ job = "redo" /\ ~ NoFeatures(gen.mfs)
          /\ AsAsked /\ faults' = faults => Card[card][gen.core] # "ok"
      BY FoundBy
    <2>. QED
      BY <2>1, OriginFound, OneFound, TwoFound DEF CoreSlow
  <1>. QED
    BY <1>1, <1>2, TypedInit, TypedStep, GeneratingStep, PTL DEF Spec, FoundSound

=============================================================================
