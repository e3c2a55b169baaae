---------------------------- MODULE AdvisoryLock ----------------------------
(***************************************************************************)
(* PGStore.GLock and GUnlock: locks that processes take from PostgreSQL    *)
(* through one connection, which a store takes from its pool at the first  *)
(* GLock and never gives back, under the store's Go mutex.  The server     *)
(* grants a lock to a session, as often as it asks; a session that ends    *)
(* loses all of its locks.  Other statements use the rest of the pool.     *)
(*                                                                         *)
(* A panic is recovered by the caller's goroutine, as net/http does for a  *)
(* handler: the call ends, its deferred Unlock is run.                     *)
(***************************************************************************)
EXTENDS Integers, FiniteSets

CONSTANTS
    Stores,    \* PGStore values, each in a process of its own
    Callers,   \* goroutines
    Home,      \* Home[p]: the store p uses
    Keys,      \* values passed to GLock
    Ids,       \* bigints
    Advise,    \* Advise[k]: the id of k (crc32 of a string), or None for a type that has none
    Uses,      \* Uses[p]: the keys p locks
    Querying,  \* the callers that run other statements too
    PoolSize,  \* pool_max_conns
    Faults,    \* Faults[s]: the faults that s meets
    None

FaultKinds == {"break",    \* the lock connection breaks
               "timeout",  \* the minute given to a statement of GLock or GUnlock passes
               "acquire"}  \* the pool cannot open a connection

LockCall == [op : {"lock", "unlock"}, key : Keys, step : {"mutex", "acquire", "exec"}]

Query == [op : {"query"}, step : {"wait", "run"}]

ASSUME ConstantsAssumption ==
    /\ Home \in [Callers -> Stores]
    /\ Advise \in [Keys -> Ids \cup {None}]
    /\ None \notin Ids \cup Callers \cup LockCall \cup Query
    /\ IsFiniteSet(Callers) /\ IsFiniteSet(Keys)
    /\ Uses \in [Callers -> SUBSET Keys]
    /\ Querying \subseteq Callers
    /\ PoolSize \in Nat \ {0}
    /\ Faults \in [Stores -> SUBSET FaultKinds]

VARIABLES
    mutex,    \* mutex[s]: the caller inside x.Lock()
    session,  \* session[s]: x.lock is nil, a connection, or one that has been closed
    taken,    \* taken[s]: connections out of the pool of s
    granted,  \* granted[s][i]: how often the server has granted i to the session of s
    believes, \* believes[p]: keys p has locked and not begun to unlock
    call,     \* call[p]: the call p is making, or None
    misled    \* history: stores where a GLock has returned without its lock

vars == <<mutex, session, taken, granted, believes, call, misled>>

Init ==
    /\ mutex = [s \in Stores |-> None]
    /\ session = [s \in Stores |-> "nil"]
    /\ taken = [s \in Stores |-> 0]
    /\ granted = [s \in Stores |-> [i \in Ids |-> 0]]
    /\ believes = [p \in Callers |-> {}]
    /\ call = [p \in Callers |-> None]
    /\ misled = {}

-----------------------------------------------------------------------------

At(p, step) == call[p] # None /\ call[p].step = step

(* p is at this step of GLock or GUnlock. *)
Doing(p, op, step) == At(p, step) /\ call[p].op = op

Goto(p, step) == call' = [call EXCEPT ![p].step = step]

Id(p) == Advise[call[p].key]

(* Every way out of GLock and GUnlock, a panic too, runs x.Unlock(). *)
Leave(p) ==
    /\ call' = [call EXCEPT ![p] = None]
    /\ mutex' = [mutex EXCEPT ![Home[p]] = None]

Believe(p) == believes' = [believes EXCEPT ![p] = @ \cup {call[p].key}]

HasConnection(s) == taken[s] < PoolSize

Take(s) == taken' = [taken EXCEPT ![s] = @ + 1]

-----------------------------------------------------------------------------
(* The calls.                                                              *)

CallGLock(p, k) ==
    /\ call[p] = None
    /\ k \in Uses[p] \ believes[p]
    /\ call' = [call EXCEPT ![p] = [op |-> "lock", key |-> k, step |-> "mutex"]]
    /\ UNCHANGED <<mutex, session, taken, granted, believes, misled>>

(* The application unlocks what it has locked. *)
CallGUnlock(p, k) ==
    /\ call[p] = None
    /\ k \in believes[p]
    /\ believes' = [believes EXCEPT ![p] = @ \ {k}]
    /\ call' = [call EXCEPT ![p] = [op |-> "unlock", key |-> k, step |-> "mutex"]]
    /\ UNCHANGED <<mutex, session, taken, granted, misled>>

LockReconnects(p) ==
    /\ At(p, "mutex")
    /\ mutex[Home[p]] = None
    /\ mutex' = [mutex EXCEPT ![Home[p]] = p]
    /\ Goto(p, IF call[p].op = "lock" /\ session[Home[p]] # "open"
               THEN "acquire" ELSE "exec")
    /\ UNCHANGED <<session, taken, granted, believes, misled>>

Lock(p) ==
    /\ At(p, "mutex")
    /\ mutex[Home[p]] = None
    /\ mutex' = [mutex EXCEPT ![Home[p]] = p]
    /\ Goto(p, IF call[p].op = "lock" /\ session[Home[p]] = "nil"
               THEN "acquire" ELSE "exec")
    /\ UNCHANGED <<session, taken, granted, believes, misled>>

(* x.pool.Acquire, without a deadline. *)
Acquire(p) ==
    /\ At(p, "acquire")
    /\ HasConnection(Home[p])
    /\ Take(Home[p])
    /\ session' = [session EXCEPT ![Home[p]] = "open"]
    /\ Goto(p, "exec")
    /\ UNCHANGED <<mutex, granted, believes, misled>>

(* The minute, which began before the wait, is over: Ping fails, panic. *)
AcquireLate(p) ==
    /\ "timeout" \in Faults[Home[p]]
    /\ At(p, "acquire")
    /\ HasConnection(Home[p])
    /\ Take(Home[p])
    /\ session' = [session EXCEPT ![Home[p]] = "open"]
    /\ Leave(p)
    /\ UNCHANGED <<granted, believes, misled>>

(* GLock returns as if it had the lock. *)
AcquireFails(p) ==
    /\ "acquire" \in Faults[Home[p]]
    /\ At(p, "acquire")
    /\ Leave(p)
    /\ Believe(p)
    /\ misled' = misled \cup {Home[p]}
    /\ UNCHANGED <<session, taken, granted>>

(* The connection is nil or closed, or the key is of no known type. *)
Panic(p) ==
    /\ At(p, "exec")
    /\ session[Home[p]] # "open" \/ Id(p) = None
    /\ Leave(p)
    /\ UNCHANGED <<session, taken, granted, believes, misled>>

(* A context that ends closes the connection its statement is using. *)
TimesOut(p) ==
    /\ "timeout" \in Faults[Home[p]]
    /\ At(p, "exec")
    /\ session[Home[p]] = "open"
    /\ session' = [session EXCEPT ![Home[p]] = "closed"]
    /\ Leave(p)
    /\ UNCHANGED <<taken, granted, believes, misled>>

-----------------------------------------------------------------------------
(* pg_advisory_lock and pg_advisory_unlock.                                *)

Blockers(s, i) == {t \in Stores \ {s} : granted[t][i] > 0}

Executes(p, op) ==
    /\ Doing(p, op, "exec")
    /\ session[Home[p]] = "open"
    /\ Id(p) # None

TryLock(p) ==
    /\ Executes(p, "lock")
    /\ granted' = [granted EXCEPT ![Home[p]][Id(p)] =
                     IF Blockers(Home[p], Id(p)) = {} THEN @ + 1 ELSE @]
    /\ Leave(p)
    /\ Believe(p)
    /\ UNCHANGED <<session, taken, misled>>

GrantLock(p) ==
    /\ Executes(p, "lock")
    /\ Blockers(Home[p], Id(p)) = {}
    /\ granted' = [granted EXCEPT ![Home[p]][Id(p)] = @ + 1]
    /\ Leave(p)
    /\ Believe(p)
    /\ UNCHANGED <<session, taken, misled>>

(* Sessions each of which waits for the next. *)
Deadlocked(C) ==
    /\ \A s \in C : \E p \in Callers : Home[p] = s /\ Executes(p, "lock")
    /\ C = UNION {Blockers(Home[p], Id(p)) :
                    p \in {q \in Callers : Home[q] \in C /\ Executes(q, "lock")}}

(* The server finds a deadlock: an error, the session goes on. *)
LockRefused(p) ==
    /\ Executes(p, "lock")
    /\ \E C \in SUBSET Stores : Home[p] \in C /\ Deadlocked(C)
    /\ Leave(p)
    /\ UNCHANGED <<session, taken, granted, believes, misled>>

ReleaseLockOutright(p) ==
    /\ Executes(p, "unlock")
    /\ granted' = [granted EXCEPT ![Home[p]][Id(p)] = 0]
    /\ Leave(p)
    /\ UNCHANGED <<session, taken, believes, misled>>

(* Unlocking what is not held is a warning, which Exec does not report. *)
ReleaseLock(p) ==
    /\ Executes(p, "unlock")
    /\ granted' = [granted EXCEPT ![Home[p]][Id(p)] = IF @ > 0 THEN @ - 1 ELSE 0]
    /\ Leave(p)
    /\ UNCHANGED <<session, taken, believes, misled>>

Break(s) ==
    /\ "break" \in Faults[s]
    /\ session[s] = "open"
    /\ session' = [session EXCEPT ![s] = "closed"]
    /\ UNCHANGED <<mutex, taken, granted, believes, call, misled>>

(* The server finds that the session has ended. *)
EndSession(s) ==
    /\ session[s] = "closed"
    /\ granted' = [granted EXCEPT ![s] = [i \in Ids |-> 0]]
    /\ UNCHANGED <<mutex, session, taken, believes, call, misled>>

-----------------------------------------------------------------------------
(* Statements: Connection, and Transaction through pgx.BeginTxFunc.        *)

CallQuery(p) ==
    /\ p \in Querying
    /\ call[p] = None
    /\ call' = [call EXCEPT ![p] = [op |-> "query", step |-> "wait"]]
    /\ UNCHANGED <<mutex, session, taken, granted, believes, misled>>

StartQuery(p) ==
    /\ At(p, "wait")
    /\ HasConnection(Home[p])
    /\ Take(Home[p])
    /\ Goto(p, "run")
    /\ UNCHANGED <<mutex, session, granted, believes, misled>>

FinishQueryLeaks(p) ==
    /\ At(p, "run")
    /\ call' = [call EXCEPT ![p] = None]
    /\ UNCHANGED <<mutex, session, taken, granted, believes, misled>>

(* With or without an error, the connection goes back to the pool. *)
FinishQuery(p) ==
    /\ At(p, "run")
    /\ taken' = [taken EXCEPT ![Home[p]] = @ - 1]
    /\ call' = [call EXCEPT ![p] = None]
    /\ UNCHANGED <<mutex, session, granted, believes, misled>>

-----------------------------------------------------------------------------

(* A caller that waits for the mutex or for a connection.                  *)
Served(p) == Lock(p) \/ Acquire(p) \/ StartQuery(p)

Step(p) ==
    \/ AcquireFails(p) \/ AcquireLate(p) \/ Panic(p) \/ TimesOut(p)
    \/ GrantLock(p) \/ LockRefused(p) \/ ReleaseLock(p)
    \/ FinishQuery(p)

Next ==
    \/ \E p \in Callers :
         \/ \E k \in Keys : CallGLock(p, k) \/ CallGUnlock(p, k)
         \/ CallQuery(p)
         \/ Served(p)
         \/ Step(p)
    \/ \E s \in Stores : Break(s) \/ EndSession(s)

Spec == Init /\ [][Next]_vars

(* Statements come back or run into their minute; sync.Mutex and the pool  *)
(* serve those who wait in turn.                                           *)
FairSpec ==
    /\ Spec
    /\ \A p \in Callers : WF_vars(Step(p)) /\ SF_vars(Served(p))

-----------------------------------------------------------------------------
(* Properties.                                                             *)

Runners(s) == {p \in Callers : Home[p] = s /\ At(p, "run")}

(* The variables hold values of their types; whoever is past the mutex     *)
(* holds it; and the connections out of a pool are those of the statements *)
(* being run and the one for locks.                                        *)
TypeOK ==
    /\ mutex \in [Stores -> Callers \cup {None}]
    /\ session \in [Stores -> {"nil", "open", "closed"}]
    /\ taken \in [Stores -> 0..PoolSize]
    /\ granted \in [Stores -> [Ids -> Nat]]
    /\ believes \in [Callers -> SUBSET Keys]
    /\ misled \subseteq Stores
    /\ call \in [Callers -> LockCall \cup Query \cup {None}]
    /\ \A p \in Callers :
         At(p, "acquire") \/ At(p, "exec") => mutex[Home[p]] = p
    /\ \A s \in Stores :
         taken[s] = Cardinality(Runners(s)) + (IF session[s] = "nil" THEN 0 ELSE 1)

(* p has locked k, or has not finished to give it back. *)
Holds(p, k) ==
    \/ k \in believes[p]
    \/ call[p] # None /\ call[p].op = "unlock" /\ call[p].key = k

Holders(s, i) ==
    {h \in Callers \X Keys : Home[h[1]] = s /\ Advise[h[2]] = i /\ Holds(h[1], h[2])}

(* As long as the connection of a store lives, the server has granted no    *)
(* lock more often than callers of the store hold it: none is left behind. *)
(* And exactly as often, so that no caller works under a lock that another *)
(* one's GUnlock, timeout or panic has given away, unless some GLock of    *)
(* the store has returned without its lock: the GUnlock that answers it    *)
(* gives another caller's away.                                            *)
GrantsAreHeld ==
    \A s \in Stores, i \in Ids :
        session[s] = "open" =>
            /\ granted[s][i] <= Cardinality(Holders(s, i))
            /\ s \notin misled => granted[s][i] = Cardinality(Holders(s, i))

Trusted(s) == session[s] = "open" /\ s \notin misled

(* Callers of two stores never work under the same lock at the same time,  *)
(* as long as both stores have the connection their locks were granted to. *)
Exclusion ==
    \A p, q \in Callers : \A j \in believes[p], k \in believes[q] :
        Home[p] # Home[q] /\ Advise[j] = Advise[k]
          => ~Trusted(Home[p]) \/ ~Trusted(Home[q])

(* A store whose lock connection is lost never claims a lock again: GLock  *)
(* panics, so nobody begins to work under a lock the server has forgotten. *)
LostStoresLockNothing ==
    [][\A p \in Callers :
         session[Home[p]] = "closed" => believes'[p] \subseteq believes[p]]_vars

(* Every GLock and GUnlock comes back: one that waits at the server with   *)
(* the mutex that the holder's GUnlock needs is ended by its minute or by  *)
(* the server's deadlock check; and every statement gets a connection,     *)
(* although one of the pool is never given back.                           *)
CallsReturn == \A p \in Callers : []<>(call[p] = None)

-----------------------------------------------------------------------------
(* The abstract specification.                                             *)

(* s has never returned from a GLock without its lock, nor lost a session. *)
Sound(s) == session[s] # "closed" /\ s \notin misled

(* The ids that callers of s work under. *)
Working(s) == {Advise[k] : k \in UNION {believes[p] : p \in {q \in Callers : Home[q] = s}}}

Service == INSTANCE LockService WITH
    held <- [s \in Stores |-> IF Sound(s) THEN Working(s) ELSE {}],
    void <- {s \in Stores : ~Sound(s)}

(* Whatever goroutines share a session, time out, panic or unlock, stores  *)
(* take turns as the service promises: one begins to work under an id only *)
(* while no other does, and one that has lost its session, or has been     *)
(* told of a lock it does not have, counts for nothing from then on.       *)
KeepsService == Service!Spec
=============================================================================
