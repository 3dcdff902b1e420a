------------------------------ MODULE MCSearch ------------------------------
(* Small instances of Search for TLC. *)
EXTENDS Search

MCBound == [d \in Dims |-> IF d = "send_wq_depth" THEN 2 ELSE 1]

Vec(qps, batch, depth) ==
  [d \in Dims |-> CASE d = "qp_num" -> qps
                    [] d = "send_batch" -> batch
                    [] d = "send_wq_depth" -> depth]
Two(v, dir, w) ==
  [i \in 1 .. 2 |-> IF i = 1 THEN [v |-> v, dir |-> "forward"]
                    ELSE [v |-> w, dir |-> dir]]

MCRandom ==
  {Two(Vec(0, 0, 1), "backward", Vec(0, 1, 2)),
   Two(Vec(0, 1, 0), "loopback", Vec(0, 0, 1))}

(* A card whose anomalies are the points of a predicate. *)
CardOf(Bad(_)) ==
  [p \in Point |-> IF Bad(p) THEN "pause"
                   ELSE IF \E i \in DOMAIN p : p[i].v["send_wq_depth"] = 0
                   THEN "slow" ELSE "ok"]

(* Some traffic of a deep queue; of long batches. *)
Deep(p) == \E i \in DOMAIN p : p[i].v["send_wq_depth"] >= 1
Batched(p) ==
  \E i \in DOMAIN p : p[i].v["send_batch"] = 1 /\ p[i].v["send_wq_depth"] = 2

(* A forward traffic of middling depth against another one. *)
Against(p, dir) ==
  /\ DOMAIN p = 1 .. 2 /\ p[2].dir = dir
  /\ p[1].v["send_wq_depth"] <= 1 /\ p[2].v["send_wq_depth"] >= 1
Meeting(p) == Against(p, "backward")
Looping(p) == Against(p, "loopback")

(* Anomalies that are no box. *)
Crossed(p) ==
  \E i \in DOMAIN p : (p[i].v["send_batch"] = 1) = (p[i].v["send_wq_depth"] = 2)

MCCard ==
  <<CardOf(Deep), CardOf(Batched), CardOf(Meeting), CardOf(Looping),
    CardOf(Crossed)>>
=============================================================================
