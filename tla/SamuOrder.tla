----------------------------- MODULE SamuOrder -----------------------------
(***************************************************************************)
(* What a build promises about order, whatever its queues and counters:    *)
(* an edge is settled (built, or found not to need it) only once the edges *)
(* that produce its inputs are, its command starts only then, and runs at  *)
(* most once; an edge that failed stays failed, so nothing that depends on *)
(* it is ever started or settled.                                          *)
(***************************************************************************)
EXTENDS FiniteSets

CONSTANTS Edges, Needs      \* Needs[e]: the edges that produce inputs of e

VARIABLE state              \* of each edge

Init == state = [e \in Edges |-> "waiting"]

Ready(e, settled) == \A f \in Needs[e] : state[f] = "settled" \/ f \in settled

(* A set of edges turns out to need no command. *)
Skip(S) ==
    /\ S # {}
    /\ \A e \in S : state[e] = "waiting" /\ Ready(e, S)
    /\ state' = [e \in Edges |-> IF e \in S THEN "settled" ELSE state[e]]

Start(e) ==
    /\ state[e] = "waiting" /\ Ready(e, {})
    /\ state' = [state EXCEPT ![e] = "running"]

Succeed(e) ==
    /\ state[e] = "running"
    /\ state' = [state EXCEPT ![e] = "settled"]

(* A command fails, or cannot be started at all. *)
Fail(e) ==
    /\ state[e] = "running" \/ (state[e] = "waiting" /\ Ready(e, {}))
    /\ state' = [state EXCEPT ![e] = "failed"]

Next ==
    \/ \E S \in SUBSET Edges : Skip(S)
    \/ \E e \in Edges : Start(e) \/ Succeed(e) \/ Fail(e)

Spec == Init /\ [][Next]_state
=============================================================================
