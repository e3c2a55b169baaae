--------------------------- MODULE MCProfileStore ---------------------------
(* The instance of ProfileStore for TLC, and MatchScopes over short lists. *)
EXTENDS ProfileStore, MatchScopes

Lists == UNION {[1..n -> {"a", "b", "c"}] : n \in 0..4}

(* On lists of one length both comparisons of MatchScopes say whether the  *)
(* elements are the same, repeated ones counted; beyond twenty elements it *)
(* still does (the long lists are short ones, padded).                     *)
ASSUME ComparisonsAgree ==
    \A x, y \in Lists :
        Len(x) = Len(y) =>
            /\ ElementsMatchByLoop(x, y) <=> SameElements(x, y)
            /\ ElementsMatchByMap(x, y) <=> SameElements(x, y)
            /\ MatchScopes(x, y) <=> SameElements(x, y)

ASSUME LongListsMatch ==
    \A x, y \in Lists :
        LET Padded(s) == s \o [i \in 1..(21 - Len(s)) |-> "a"]
        IN Len(x) = 3 => (MatchScopes(Padded(x), Padded(y)) <=> SameElements(Padded(x), Padded(y)))
=============================================================================
