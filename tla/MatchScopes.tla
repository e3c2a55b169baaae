----------------------------- MODULE MatchScopes -----------------------------
(***************************************************************************)
(* MatchScopes of DataStore.go: whether two lists hold the same elements,  *)
(* each as often, in any order.  Long lists are compared by counting,      *)
(* short ones by pairing off each element with the first that is left.     *)
(***************************************************************************)
EXTENDS Integers, FiniteSets, SequencesExt, Functions

Occurrences(s, e) == Cardinality({i \in DOMAIN s : s[i] = e})

(* What both comparisons are for. *)
SameElements(x, y) ==
    \A e \in ToSet(x) \cup ToSet(y) : Occurrences(x, e) = Occurrences(y, e)

(* visited grows by the first unvisited equal of each element of x. *)
ElementsMatchByLoop(x, y) ==
    LET Left(visited, e) == {j \in DOMAIN y \ visited : y[j] = e}
        Visit(acc, e) ==
          IF ~acc.match \/ Left(acc.visited, e) = {}
          THEN [acc EXCEPT !.match = FALSE]
          ELSE [acc EXCEPT !.visited = @ \cup {Min(Left(@, e))}]
    IN FoldLeft(Visit, [match |-> TRUE, visited |-> {}], x).match

(* diff counts the elements of x; those of y are taken off it, and a count *)
(* that has come to zero is deleted.                                       *)
ElementsMatchByMap(x, y) ==
    LET TakeOff(acc, e) ==
          IF ~acc.match \/ e \notin DOMAIN acc.diff
          THEN [acc EXCEPT !.match = FALSE]
          ELSE IF acc.diff[e] = 1
               THEN [acc EXCEPT !.diff = Restrict(@, DOMAIN @ \ {e})]
               ELSE [acc EXCEPT !.diff[e] = @ - 1]
        counted == [e \in ToSet(x) |-> Occurrences(x, e)]
        end == FoldLeft(TakeOff, [match |-> TRUE, diff |-> counted], y)
    IN end.match /\ DOMAIN end.diff = {}

MatchScopes(x, y) ==
    /\ Len(x) = Len(y)
    /\ IF Len(x) > 20 THEN ElementsMatchByMap(x, y) ELSE ElementsMatchByLoop(x, y)
=============================================================================
