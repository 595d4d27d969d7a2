----------------------------- MODULE MCTaskBoard -----------------------------
(* Instances of TaskBoard for TLC. *)
EXTENDS TaskBoard, TLC

CONSTANTS t1, t2, t3, c1, c2

\* Ids of tasks and connections of agents are interchangeable.
Symmetry == Permutations({t1, t2, t3}) \cup Permutations({c1, c2})

Once == [k \in Kinds |-> IF k = "complete" THEN 1 ELSE 0]

\* A task is completed, and one thing more happens.
Mixed == {[Once EXCEPT ![k] = @ + 1] : k \in Kinds}
=============================================================================
