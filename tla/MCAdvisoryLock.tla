--------------------------- MODULE MCAdvisoryLock ---------------------------
(* Instances of AdvisoryLock for TLC. *)
EXTENDS AdvisoryLock

CONSTANTS s1, s2, p1, p2, p3, k1, k2

(* Two callers share a store, the third has one of its own. *)
TwoAndOne == [p \in Callers |-> IF p = p3 THEN s2 ELSE s1]

OneEach == [k \in Keys |-> IF k = k1 THEN 1 ELSE 2]

(* p1 and p2 share k1; p2 and p3 can wait for each other. *)
Crossing ==
    [p \in Callers |-> IF p = p1 THEN {k1} ELSE {k1, k2}]

FaultsOfEach ==
    [s \in Stores |-> IF s = s1 THEN {"timeout", "acquire"} ELSE {"timeout", "break"}]
=============================================================================
