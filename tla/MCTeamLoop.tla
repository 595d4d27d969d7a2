---------------------------- MODULE MCTeamLoop ----------------------------
(* Instances of TeamLoop for TLC: ld leads, ta and tb are teammates. *)
EXTENDS TeamLoop, TLC

CONSTANTS ld, ta, tb

None == [k \in Kinds |-> 0]

OneRow == [None EXCEPT !["write"] = 1]

\* Nothing goes wrong around the loops: two rows, or one and a failed turn.
Calm == {[None EXCEPT !["write"] = 2], [OneRow EXCEPT !["fail"] = 1]}

\* One row, a stop or a crash, and one more thing that goes wrong.
Faults == {[OneRow EXCEPT ![j] = 1, ![k] = 1] : j \in {"stop", "crash"}, k \in Kinds}

\* Members come and go around one row, or around a user turn and a stop.
Members == {OneRow, [None EXCEPT !["direct"] = 1, !["stop"] = 1]}

Quiet == {OneRow}
CrashOnce == {[OneRow EXCEPT !["crash"] = 1]}

\* Teammates that start alike are interchangeable.
Teammates == Permutations({ta, tb})
=============================================================================
