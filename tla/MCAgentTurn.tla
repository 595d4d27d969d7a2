---------------------------- MODULE MCAgentTurn ----------------------------
(* Instances of AgentTurn for TLC. *)
EXTENDS AgentTurn, TLC

CONSTANTS c1, c2

None == [k \in Kinds |-> 0]

Plus(limit, k) == [limit EXCEPT ![k] = @ + 1]

TwoCalls == {Plus(Plus(None, "send"), k) : k \in {"send", "warm"}}

\* Two calls, one of them a message, and two things that cut in.
Mixed == {Plus(Plus(two, j), k) : two \in TwoCalls, j \in Kinds \ {"send", "warm"}, k \in {"cancel", "kill"}}

TwoSends == {Plus(Plus(Plus(None, "send"), "send"), k) : k \in {"kill", "idle"}}
=============================================================================
