---------------------------- MODULE LockService ----------------------------
(***************************************************************************)
(* What GLock and GUnlock are for, apart from mutexes, sessions, pools and *)
(* the server: processes that take turns at working under an id.  Nobody   *)
(* is kept to its lock by force.  A process can lose its standing, and     *)
(* whatever it held with it; it never gets it back.                        *)
(***************************************************************************)

CONSTANTS
    Stores, \* processes
    Ids     \* what they lock

VARIABLES
    held, \* held[s]: the ids s works under
    void  \* processes whose locks mean nothing any more

vars == <<held, void>>

Init ==
    /\ held = [s \in Stores |-> {}]
    /\ void = {}

(* Again, too: the goroutines of one process are not kept apart. *)
Acquire(s, i) ==
    /\ s \notin void
    /\ \A t \in Stores \ {s} : i \notin held[t]
    /\ held' = [held EXCEPT ![s] = @ \cup {i}]
    /\ UNCHANGED void

Release(s, i) ==
    /\ held' = [held EXCEPT ![s] = @ \ {i}]
    /\ UNCHANGED void

Forfeit(s) ==
    /\ void' = void \cup {s}
    /\ held' = [held EXCEPT ![s] = {}]

Next ==
    \E s \in Stores :
        \/ \E i \in Ids : Acquire(s, i) \/ Release(s, i)
        \/ Forfeit(s)

Spec == Init /\ [][Next]_vars
=============================================================================
