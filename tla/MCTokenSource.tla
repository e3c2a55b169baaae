--------------------------- MODULE MCTokenSource ---------------------------
(* Instances of TokenSource for TLC. *)
EXTENDS TokenSource, TLC

(* Every source asks for any of the instance's rows. *)
AllWanted == [s \in Sources |-> Characters]

(* No source's Save is used. *)
NoSaves == [s \in Sources |-> {}]

(* Save is used with tokens of any character. *)
AllSaves == [s \in Sources |-> Characters]

NoEnv == {}

Symmetry ==
    Permutations(Callers) \cup Permutations(Sources) \cup Permutations(Characters)
=============================================================================
