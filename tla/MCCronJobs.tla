----------------------------- MODULE MCCronJobs -----------------------------
(* Instances of CronJobs for TLC. *)
EXTENDS CronJobs, TLC

CONSTANTS o1, o2, once, hourly

Quiet == [k \in Kinds |-> 0]

Plus(limit, k) == [limit EXCEPT ![k] = @ + 1]

\* An edit or a removal, and one thing more; or a run-now and one thing more.
Pairs == {Plus(Plus(Quiet, j), k) : j \in {"edit", "remove"}, k \in Kinds}
           \cup {Plus(Plus(Quiet, "now"), k) : k \in {"now", "delete"}}
           \cup {Plus(Plus(Quiet, k), "crash") : k \in {"resume", "delete"}}
\* Nothing but two run-nows.
Presses == {Plus(Plus(Quiet, "now"), "now")}
=============================================================================
