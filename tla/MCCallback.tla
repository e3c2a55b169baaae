----------------------------- MODULE MCCallback -----------------------------
(* Instances of Callback for TLC. *)
EXTENDS Callback, TLC

(* One host's clock is ahead of the others' by all that Slack allows. *)
OneAhead ==
    LET fast == CHOOSE h \in Hosts : TRUE
    IN  [h \in Hosts |-> IF h = fast THEN Slack ELSE 0]

NoEnv == {}

Symmetry == Permutations(Requests) \cup Permutations(States) \cup Permutations(Profiles)
=============================================================================
