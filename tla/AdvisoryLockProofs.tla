------------------------- MODULE AdvisoryLockProofs -------------------------
(***************************************************************************)
(* The safety properties of AdvisoryLock, and that it implements           *)
(* LockService, for any number of stores, callers and keys and under every *)
(* fault.                                                                  *)
(***************************************************************************)
EXTENDS AdvisoryLock, FiniteSetTheorems, TLAPS

Types ==
    /\ mutex \in [Stores -> Callers \cup {None}]
    /\ session \in [Stores -> {"nil", "open", "closed"}]
    /\ taken \in [Stores -> Int]
    /\ granted \in [Stores -> [Ids -> Nat]]
    /\ believes \in [Callers -> SUBSET Keys]
    /\ misled \subseteq Stores
    /\ call \in [Callers -> LockCall \cup Query \cup {None}]

Inside(p) == At(p, "acquire") \/ At(p, "exec")

MutexHeld == \A p \in Callers : Inside(p) => mutex[Home[p]] = p

(* A connection is taken once, by a GLock. *)
TakesOnce ==
    \A p \in Callers :
        At(p, "acquire") => call[p].op = "lock" /\ session[Home[p]] = "nil"

(* What p is about to lock, or gives back, it does not hold; and what it   *)
(* holds is a lock, where none was only claimed.                           *)
Claims ==
    \A p \in Callers :
        /\ call[p] \in LockCall => call[p].key \notin believes[p]
        /\ \A k \in Keys : Holds(p, k) /\ Home[p] \notin misled => Advise[k] # None

CallInv == Types /\ MutexHeld /\ TakesOnce /\ Claims

LEMMA CallInit == Init => CallInv
BY ConstantsAssumption
   DEF Init, CallInv, Types, MutexHeld, TakesOnce, Claims, Inside, At, Holds

(* The step a call is at says which call it is. *)
LEMMA Calling ==
    ASSUME Types, NEW p \in Callers, call[p] # None
    PROVE  /\ call[p].step \in {"mutex", "acquire", "exec"} <=> call[p] \in LockCall
           /\ call[p].step \in {"wait", "run"} <=> call[p] \in Query
           /\ call[p].op \in {"lock", "unlock"} <=> call[p] \in LockCall
           /\ call[p].op = "query" <=> call[p] \in Query
BY DEF Types, LockCall, Query

USE DEF CallInv, Types, MutexHeld, TakesOnce, Claims, Inside, At, Holds

LEMMA LockCallGoes ==
    ASSUME Types, NEW p \in Callers, call[p] \in LockCall,
           NEW step \in {"mutex", "acquire", "exec"}, Goto(p, step)
    PROVE  /\ call' \in [Callers -> LockCall \cup Query \cup {None}]
           /\ call'[p] \in LockCall /\ call'[p] # None
           /\ call'[p].op = call[p].op /\ call'[p].key = call[p].key /\ call'[p].step = step
           /\ \A q \in Callers \ {p} : call'[q] = call[q]
<1>1. /\ call'[p] = [call[p] EXCEPT !.step = step]
      /\ \A q \in Callers \ {p} : call'[q] = call[q]
  BY DEF Goto
<1>2. /\ call'[p] \in LockCall
      /\ call'[p].op = call[p].op /\ call'[p].key = call[p].key /\ call'[p].step = step
  BY <1>1 DEF LockCall
<1>3. call' \in [Callers -> LockCall \cup Query \cup {None}]
  BY <1>1, <1>2 DEF Goto
<1> QED BY <1>1, <1>2, <1>3, ConstantsAssumption

(* p returns from GLock or GUnlock, with new beliefs or without. *)
LEMMA LeaveKeeps ==
    ASSUME CallInv, NEW p \in Callers, Inside(p), Leave(p),
           session' \in [Stores -> {"nil", "open", "closed"}],
           taken' \in [Stores -> Int], granted' \in [Stores -> [Ids -> Nat]],
           \A s \in Stores \ {Home[p]} : session'[s] = session[s],
           misled \subseteq misled', misled' \subseteq Stores,
           \/ UNCHANGED believes
           \/ /\ Believe(p)
              /\ call[p].op = "lock"
              /\ Advise[call[p].key] # None \/ Home[p] \in misled'
    PROVE  CallInv'
<1> USE ConstantsAssumption
<1>1. /\ call[p] \in LockCall /\ call[p].key \in Keys /\ Home[p] \in Stores
      /\ mutex[Home[p]] = p
    BY Calling DEF LockCall
<1>2. /\ call' = [call EXCEPT ![p] = None] /\ mutex' = [mutex EXCEPT ![Home[p]] = None]
      /\ \A q \in Callers \ {p} : call'[q] = call[q] /\ believes'[q] = believes[q]
      /\ call'[p] = None
    BY DEF Leave, Believe
<1>3. Types'
  <2>1. mutex' \in [Stores -> Callers \cup {None}]
    BY <1>1, <1>2
  <2>2. believes' \in [Callers -> SUBSET Keys]
    <3>1. CASE UNCHANGED believes
      BY <3>1
    <3>2. CASE Believe(p)
      <4>1. believes' = [believes EXCEPT ![p] = believes[p] \cup {call[p].key}]
        BY <3>2 DEF Believe
      <4>2. believes[p] \cup {call[p].key} \subseteq Keys
        BY <1>1
      <4> QED BY <4>1, <4>2
    <3> QED BY <3>1, <3>2
  <2>3. call' \in [Callers -> LockCall \cup Query \cup {None}]
    BY <1>2
  <2> QED BY <2>1, <2>2, <2>3
<1>4. \A q \in Callers : Inside(q)' => Inside(q) /\ q # p /\ Home[q] # Home[p]
    BY <1>1, <1>2
<1>5. MutexHeld'
    BY <1>1, <1>2, <1>4
<1>6. TakesOnce'
    BY <1>1, <1>2, <1>4
<1>7. Claims'
  <2> SUFFICES ASSUME NEW q \in Callers
               PROVE  /\ call'[q] \in LockCall => call'[q].key \notin believes'[q]
                      /\ \A k \in Keys : Holds(q, k)' /\ Home[q] \notin misled' => Advise[k] # None
    OBVIOUS
  <2>1. CASE q # p
    BY <2>1, <1>2
  <2>2. CASE q = p
    BY <2>2, <1>1, <1>2 DEF Believe
  <2> QED BY <2>1, <2>2
<1> QED BY <1>3, <1>5, <1>6, <1>7

LEMMA CallNext == CallInv /\ [Next]_vars => CallInv'
<1> SUFFICES ASSUME CallInv, [Next]_vars PROVE CallInv'
    OBVIOUS
<1> USE ConstantsAssumption
<1>1. ASSUME NEW p \in Callers, NEW k \in Keys, CallGLock(p, k) PROVE CallInv'
    BY <1>1 DEF CallGLock, LockCall
<1>2. ASSUME NEW p \in Callers, NEW k \in Keys, CallGUnlock(p, k) PROVE CallInv'
    BY <1>2 DEF CallGUnlock, LockCall
<1>3. ASSUME NEW p \in Callers, CallQuery(p) PROVE CallInv'
    BY <1>3 DEF CallQuery, Query, LockCall
<1>4. ASSUME NEW p \in Callers, Lock(p) PROVE CallInv'
  <2> DEFINE s == Home[p]
  <2>1. /\ call[p] \in LockCall /\ s \in Stores /\ mutex[s] = None
        /\ mutex' = [mutex EXCEPT ![s] = p]
        /\ UNCHANGED <<session, taken, granted, believes, misled>>
    BY <1>4, Calling DEF Lock
  <2>2. PICK step \in {"acquire", "exec"} :
            /\ Goto(p, step)
            /\ step = "acquire" => call[p].op = "lock" /\ session[s] = "nil"
    BY <1>4 DEF Lock
  <2>3. /\ call' \in [Callers -> LockCall \cup Query \cup {None}]
        /\ call'[p] \in LockCall /\ call'[p] # None
        /\ call'[p].op = call[p].op /\ call'[p].key = call[p].key /\ call'[p].step = step
        /\ \A q \in Callers \ {p} : call'[q] = call[q]
    BY <2>1, <2>2, LockCallGoes
  <2>4. Types'
    BY <2>1, <2>3
  <2>5. MutexHeld' /\ TakesOnce'
    <3> SUFFICES ASSUME NEW q \in Callers
                 PROVE  /\ Inside(q)' => mutex'[Home[q]] = q
                        /\ At(q, "acquire")' => call'[q].op = "lock" /\ session[Home[q]] = "nil"
      BY <2>1
    <3>1. CASE q = p
      BY <3>1, <2>1, <2>2, <2>3
    <3>2. CASE q # p
      BY <3>2, <2>1, <2>3
    <3> QED BY <3>1, <3>2
  <2>6. Claims'
    BY <2>1, <2>3 DEF LockCall
  <2> QED BY <2>4, <2>5, <2>6
<1>5. ASSUME NEW p \in Callers, Acquire(p) PROVE CallInv'
  <2> DEFINE s == Home[p]
  <2>1. /\ call[p] \in LockCall /\ s \in Stores /\ mutex[s] = p
        /\ session' = [session EXCEPT ![s] = "open"]
        /\ taken' = [taken EXCEPT ![s] = @ + 1]
        /\ Goto(p, "exec")
        /\ UNCHANGED <<mutex, granted, believes, misled>>
    BY <1>5, Calling DEF Acquire, Take
  <2>3. /\ call' \in [Callers -> LockCall \cup Query \cup {None}]
        /\ call'[p] \in LockCall /\ call'[p] # None
        /\ call'[p].op = call[p].op /\ call'[p].key = call[p].key /\ call'[p].step = "exec"
        /\ \A q \in Callers \ {p} : call'[q] = call[q]
    BY <2>1, LockCallGoes
  <2>4. Types'
    BY <2>1, <2>3
  <2>5. MutexHeld' /\ TakesOnce'
    <3>1. \A q \in Callers : At(q, "acquire")' => q # p /\ At(q, "acquire") /\ Home[q] # s
      BY <2>1, <2>3
    <3> QED BY <2>1, <2>3, <3>1
  <2>6. Claims'
    <3> SUFFICES ASSUME NEW q \in Callers
                 PROVE  /\ call'[q] \in LockCall => call'[q].key \notin believes[q]
                        /\ \A k \in Keys : Holds(q, k)' /\ Home[q] \notin misled => Advise[k] # None
      BY <2>1
    <3>1. \A k \in Keys : Holds(q, k)' <=> Holds(q, k)
      <4>1. CASE q = p
        BY <4>1, <2>1, <2>3
      <4>2. CASE q # p
        <5>1. call'[q] = call[q]
          BY <4>2, <2>3
        <5> QED BY <5>1, <2>1
      <4> QED BY <4>1, <4>2
    <3>2. call'[q] \in LockCall <=> call[q] \in LockCall
      BY <2>1, <2>3
    <3>3. call[q] \in LockCall => call'[q].key = call[q].key
      BY <2>1, <2>3
    <3> QED BY <3>1, <3>2, <3>3
  <2> QED BY <2>4, <2>5, <2>6
<1>6. ASSUME NEW p \in Callers, AcquireLate(p) PROVE CallInv'
    BY <1>6, LeaveKeeps, SMTT(30) DEF AcquireLate, Take
<1>7. ASSUME NEW p \in Callers, AcquireFails(p) PROVE CallInv'
    BY <1>7, LeaveKeeps, SMTT(30) DEF AcquireFails
<1>8. ASSUME NEW p \in Callers, Panic(p) PROVE CallInv'
    BY <1>8, LeaveKeeps DEF Panic
<1>9. ASSUME NEW p \in Callers, TimesOut(p) PROVE CallInv'
    BY <1>9, LeaveKeeps DEF TimesOut
<1>10. ASSUME NEW p \in Callers, GrantLock(p) PROVE CallInv'
  <2>1. call[p] \in LockCall /\ Id(p) \in Ids /\ Home[p] \in Stores
    BY <1>10, Calling DEF GrantLock, Executes, Doing, Id, LockCall
  <2>2. granted' \in [Stores -> [Ids -> Nat]]
    BY <1>10, <2>1 DEF GrantLock
  <2> QED BY <1>10, <2>1, <2>2, LeaveKeeps DEF GrantLock, Executes, Doing, Id
<1>11. ASSUME NEW p \in Callers, LockRefused(p) PROVE CallInv'
    BY <1>11, LeaveKeeps DEF LockRefused, Executes, Doing
<1>12. ASSUME NEW p \in Callers, ReleaseLock(p) PROVE CallInv'
  <2>1. call[p] \in LockCall /\ Id(p) \in Ids /\ Home[p] \in Stores
    BY <1>12, Calling DEF ReleaseLock, Executes, Doing, Id, LockCall
  <2>2. granted' \in [Stores -> [Ids -> Nat]]
    BY <1>12, <2>1 DEF ReleaseLock
  <2> QED BY <1>12, <2>1, <2>2, LeaveKeeps DEF ReleaseLock, Executes, Doing
<1>13. ASSUME NEW p \in Callers, StartQuery(p) PROVE CallInv'
    BY <1>13, Calling DEF StartQuery, Take, Goto, Query, LockCall
<1>14. ASSUME NEW p \in Callers, FinishQuery(p) PROVE CallInv'
    BY <1>14, Calling DEF FinishQuery, Query, LockCall
<1>15. ASSUME NEW s \in Stores, Break(s) PROVE CallInv'
    BY <1>15 DEF Break
<1>16. ASSUME NEW s \in Stores, EndSession(s) PROVE CallInv'
    BY <1>16 DEF EndSession
<1>17. CASE UNCHANGED vars
    BY <1>17 DEF vars
<1> QED BY <1>1, <1>2, <1>3, <1>4, <1>5, <1>6, <1>7, <1>8, <1>9, <1>10, <1>11, <1>12,
       <1>13, <1>14, <1>15, <1>16, <1>17 DEF Next, Served, Step

-----------------------------------------------------------------------------
(* Grants and holders.                                                     *)

HIDE DEF Holds, CallInv, Types, MutexHeld, TakesOnce, Claims, Inside, At

(* While the connection of a store is not lost, its grants are those of    *)
(* its holders; and a lock is granted to one session at a time.            *)
Grants ==
    /\ \A s \in Stores, i \in Ids : session[s] = "nil" => granted[s][i] = 0
    /\ \A s, t \in Stores, i \in Ids : granted[s][i] > 0 /\ granted[t][i] > 0 => s = t
    /\ \A s \in Stores, i \in Ids :
         session[s] # "closed" =>
            /\ granted[s][i] <= Cardinality(Holders(s, i))
            /\ s \notin misled => granted[s][i] = Cardinality(Holders(s, i))

LEMMA HoldersFinite ==
    ASSUME NEW s \in Stores, NEW i \in Ids
    PROVE  IsFiniteSet(Holders(s, i)) /\ Cardinality(Holders(s, i)) \in Nat
<1>1. IsFiniteSet(Callers \X Keys)
  BY ConstantsAssumption, FS_Product
<1>2. Holders(s, i) \subseteq Callers \X Keys
  BY DEF Holders
<1> QED BY <1>1, <1>2, FS_Subset, FS_CardinalityType

LEMMA HoldersSame ==
    ASSUME \A p \in Callers, k \in Keys : Holds(p, k)' <=> Holds(p, k)
    PROVE  \A s \in Stores, i \in Ids : Holders(s, i)' = Holders(s, i)
<1> TAKE s \in Stores, i \in Ids
<1>1. \A h \in Callers \X Keys : Holds(h[1], h[2])' <=> Holds(h[1], h[2])
  OBVIOUS
<1> QED BY <1>1 DEF Holders

(* One more holder, of the lock with the id of k. *)
LEMMA HoldersGain ==
    ASSUME NEW p \in Callers, NEW k \in Keys, ~Holds(p, k), Holds(p, k)',
           \A q \in Callers, j \in Keys :
               q # p \/ j # k => (Holds(q, j)' <=> Holds(q, j))
    PROVE  \A s \in Stores, i \in Ids :
               Cardinality(Holders(s, i))' =
                 Cardinality(Holders(s, i)) + (IF s = Home[p] /\ i = Advise[k] THEN 1 ELSE 0)
<1> TAKE s \in Stores, i \in Ids
<1>1. \A h \in Callers \X Keys : h # <<p, k>> => (Holds(h[1], h[2])' <=> Holds(h[1], h[2]))
  OBVIOUS
<1>2. CASE s = Home[p] /\ i = Advise[k]
  <2>1. Holders(s, i)' = Holders(s, i) \cup {<<p, k>>}
    BY <1>1, <1>2 DEF Holders
  <2>2. <<p, k>> \notin Holders(s, i)
    BY DEF Holders
  <2>3. Cardinality(Holders(s, i) \cup {<<p, k>>}) = Cardinality(Holders(s, i)) + 1
    BY <2>2, HoldersFinite, FS_AddElement
  <2> QED BY <1>2, <2>1, <2>3
<1>3. CASE ~(s = Home[p] /\ i = Advise[k])
  <2>1. Holders(s, i)' = Holders(s, i)
    BY <1>1, <1>3 DEF Holders
  <2> QED BY <1>3, <2>1, HoldersFinite
<1> QED BY <1>2, <1>3

LEMMA HoldersLose ==
    ASSUME NEW p \in Callers, NEW k \in Keys, Holds(p, k), ~Holds(p, k)',
           \A q \in Callers, j \in Keys :
               q # p \/ j # k => (Holds(q, j)' <=> Holds(q, j))
    PROVE  \A s \in Stores, i \in Ids :
               /\ Cardinality(Holders(s, i))' =
                     Cardinality(Holders(s, i)) - (IF s = Home[p] /\ i = Advise[k] THEN 1 ELSE 0)
               /\ s = Home[p] /\ i = Advise[k] => Cardinality(Holders(s, i)) > 0
<1> TAKE s \in Stores, i \in Ids
<1>1. \A h \in Callers \X Keys : h # <<p, k>> => (Holds(h[1], h[2])' <=> Holds(h[1], h[2]))
  OBVIOUS
<1>2. CASE s = Home[p] /\ i = Advise[k]
  <2>1. Holders(s, i)' = Holders(s, i) \ {<<p, k>>}
    BY <1>1, <1>2 DEF Holders
  <2>2. <<p, k>> \in Holders(s, i)
    BY <1>2 DEF Holders
  <2>3. Cardinality(Holders(s, i) \ {<<p, k>>}) = Cardinality(Holders(s, i)) - 1
    BY <2>2, HoldersFinite, FS_RemoveElement
  <2>4. Cardinality(Holders(s, i)) # 0
    BY <2>2, HoldersFinite, FS_EmptySet
  <2> QED BY <1>2, <2>1, <2>3, <2>4, HoldersFinite
<1>3. CASE ~(s = Home[p] /\ i = Advise[k])
  <2>1. Holders(s, i)' = Holders(s, i)
    BY <1>1, <1>3 DEF Holders
  <2> QED BY <1>3, <2>1, HoldersFinite
<1> QED BY <1>2, <1>3

(* A holder in a store that knows no failure holds a lock the server has   *)
(* granted.                                                                *)
LEMMA HolderHasGrant ==
    ASSUME CallInv, Grants, NEW p \in Callers, NEW k \in Keys, Holds(p, k),
           session[Home[p]] # "closed", Home[p] \notin misled
    PROVE  Home[p] \in Stores /\ Advise[k] \in Ids /\ granted[Home[p]][Advise[k]] > 0
<1>1. Home[p] \in Stores /\ Advise[k] \in Ids
  BY ConstantsAssumption DEF CallInv, Claims
<1>2. <<p, k>> \in Holders(Home[p], Advise[k])
  BY DEF Holders
<1>3. Cardinality(Holders(Home[p], Advise[k])) > 0
  BY <1>1, <1>2, HoldersFinite, FS_EmptySet
<1> QED BY <1>1, <1>3 DEF Grants

LEMMA GrantsInit == Init => Grants
<1> SUFFICES ASSUME Init PROVE Grants
  OBVIOUS
<1>1. ASSUME NEW s \in Stores, NEW i \in Ids PROVE Holders(s, i) = {}
  BY ConstantsAssumption DEF Init, Holders, Holds
<1>2. ASSUME NEW s \in Stores, NEW i \in Ids
      PROVE  Cardinality(Holders(s, i)) = 0 /\ granted[s][i] = 0
  <2>1. Cardinality(Holders(s, i)) = 0
    BY <1>1, FS_EmptySet
  <2> QED BY <2>1 DEF Init
<1> QED BY <1>2 DEF Grants

(* A step that leaves holders and grants alone. *)
LEMMA QuietKeeps ==
    ASSUME Grants, \A p \in Callers, k \in Keys : Holds(p, k)' <=> Holds(p, k),
           UNCHANGED granted, misled \subseteq misled',
           \A s \in Stores : \/ session'[s] = session[s]
                             \/ session[s] = "nil" /\ session'[s] = "open"
                             \/ session'[s] = "closed"
    PROVE  Grants'
BY HoldersSame DEF Grants

(* The call of p ends and changes no belief. *)
LEMMA LeaveHolds ==
    ASSUME CallInv, NEW p \in Callers, Inside(p), Leave(p), UNCHANGED believes,
           NEW k, k = call[p].key
    PROVE  /\ call[p] \in LockCall /\ k \in Keys
           /\ \/ /\ call[p].op = "lock"
                 /\ \A q \in Callers, j \in Keys : Holds(q, j)' <=> Holds(q, j)
              \/ /\ call[p].op = "unlock"
                 /\ Holds(p, k) /\ ~Holds(p, k)'
                 /\ \A q \in Callers, j \in Keys :
                       q # p \/ j # k => (Holds(q, j)' <=> Holds(q, j))
<1>1. call[p] \in LockCall /\ call[p] # None /\ k \in Keys
  BY Calling DEF CallInv, Types, Inside, At, LockCall
<1>2. call[p].op \in {"lock", "unlock"} /\ k \notin believes[p]
  BY <1>1 DEF LockCall, CallInv, Claims
<1>3. call'[p] = None /\ \A q \in Callers \ {p} : call'[q] = call[q]
  BY DEF Leave, CallInv, Types
<1>4. \A q \in Callers \ {p}, j \in Keys : Holds(q, j)' <=> Holds(q, j)
  BY <1>3 DEF Holds
<1>5. \A j \in Keys : Holds(p, j)' <=> j \in believes[p]
  BY <1>3 DEF Holds
<1>6. CASE call[p].op = "lock"
  BY <1>1, <1>4, <1>5, <1>6 DEF Holds
<1>7. CASE call[p].op = "unlock"
  <2>1. Holds(p, k) /\ ~Holds(p, k)'
    BY <1>1, <1>2, <1>5, <1>7 DEF Holds
  <2>2. \A j \in Keys \ {k} : Holds(p, j)' <=> Holds(p, j)
    BY <1>5, <1>7 DEF Holds
  <2> QED BY <1>1, <1>4, <1>7, <2>1, <2>2
<1> QED BY <1>2, <1>6, <1>7

(* The call of p ends and it believes that it has its lock. *)
LEMMA BelieveHolds ==
    ASSUME CallInv, NEW p \in Callers, Inside(p), Leave(p), Believe(p), call[p].op = "lock",
           NEW k, k = call[p].key
    PROVE  /\ k \in Keys
           /\ ~Holds(p, k) /\ Holds(p, k)'
           /\ \A q \in Callers, j \in Keys :
                 q # p \/ j # k => (Holds(q, j)' <=> Holds(q, j))
<1>1. call[p] \in LockCall /\ call[p] # None /\ k \in Keys
  BY Calling DEF CallInv, Types, Inside, At, LockCall
<1>2. k \notin believes[p]
  BY <1>1 DEF CallInv, Claims
<1>3. /\ call'[p] = None /\ \A q \in Callers \ {p} : call'[q] = call[q]
      /\ believes'[p] = believes[p] \cup {k}
      /\ \A q \in Callers \ {p} : believes'[q] = believes[q]
  BY DEF Leave, Believe, CallInv, Types
<1>4. \A q \in Callers \ {p}, j \in Keys : Holds(q, j)' <=> Holds(q, j)
  BY <1>3 DEF Holds
<1>5. \A j \in Keys : (Holds(p, j) <=> j \in believes[p]) /\ (Holds(p, j)' <=> j \in believes'[p])
  BY <1>1, <1>3 DEF Holds
<1> QED BY <1>1, <1>2, <1>3, <1>4, <1>5

(* A GUnlock that ends without the server: its connection is lost, or was  *)
(* never there, or the lock has no id.                                     *)
LEMMA GivesUpKeeps ==
    ASSUME CallInv, Grants, NEW p \in Callers, Inside(p), Leave(p), UNCHANGED believes,
           UNCHANGED granted, UNCHANGED misled,
           \/ session'[Home[p]] = "closed" /\ session[Home[p]] # "nil"
           \/ /\ UNCHANGED session
              /\ \/ session[Home[p]] = "nil" \/ call[p].op = "lock"
                 \/ Advise[call[p].key] = None,
           \A s \in Stores \ {Home[p]} : session'[s] = session[s]
    PROVE  Grants'
<1>1. CASE \A q \in Callers, k \in Keys : Holds(q, k)' <=> Holds(q, k)
  BY <1>1, QuietKeeps
<1>2. CASE ~\A q \in Callers, k \in Keys : Holds(q, k)' <=> Holds(q, k)
  <2>0. PICK k : k = call[p].key
    OBVIOUS
  <2>1. /\ call[p].op = "unlock" /\ k \in Keys
        /\ Holds(p, k) /\ ~Holds(p, k)'
        /\ \A q \in Callers, j \in Keys :
              q # p \/ j # k => (Holds(q, j)' <=> Holds(q, j))
    BY <1>2, <2>0, LeaveHolds
  <2>2. \A s \in Stores, i \in Ids :
          /\ Cardinality(Holders(s, i))' =
               Cardinality(Holders(s, i)) - (IF s = Home[p] /\ i = Advise[k] THEN 1 ELSE 0)
          /\ s = Home[p] /\ i = Advise[k] => Cardinality(Holders(s, i)) > 0
    BY <2>1, HoldersLose
  <2>3. session[Home[p]] = "nil" => Home[p] \in misled
    BY <2>1, HolderHasGrant DEF Grants
  <2>4. Advise[k] = None => Advise[k] \notin Ids
    BY ConstantsAssumption
  <2> SUFFICES ASSUME NEW s \in Stores, NEW i \in Ids, session'[s] # "closed"
               PROVE  /\ granted[s][i] <= Cardinality(Holders(s, i))'
                      /\ s \notin misled => granted[s][i] = Cardinality(Holders(s, i))'
    BY DEF Grants
  <2>5. session[s] = session'[s]
    BY DEF Grants
  <2>6. CASE s = Home[p] /\ i = Advise[k]
    <3>1. session[s] = "nil" /\ s \in misled
      BY <2>0, <2>1, <2>3, <2>4, <2>5, <2>6
    <3> QED BY <3>1, <2>2, <2>6, HoldersFinite DEF Grants
  <2>7. CASE ~(s = Home[p] /\ i = Advise[k])
    BY <2>2, <2>5, <2>7, HoldersFinite DEF Grants
  <2> QED BY <2>6, <2>7
<1> QED BY <1>1, <1>2

LEMMA GrantsNext == CallInv /\ Grants /\ [Next]_vars => Grants'
<1> SUFFICES ASSUME CallInv, Grants, [Next]_vars PROVE Grants'
    OBVIOUS
<1>1. ASSUME NEW p \in Callers, NEW k \in Keys, CallGLock(p, k) PROVE Grants'
  BY <1>1, QuietKeeps DEF CallGLock, CallInv, Types, Holds
<1>2. ASSUME NEW p \in Callers, NEW k \in Keys, CallGUnlock(p, k) PROVE Grants'
  <2>1. ASSUME NEW q \in Callers, NEW j \in Keys PROVE Holds(q, j)' <=> Holds(q, j)
    BY <1>2, ConstantsAssumption DEF CallGUnlock, CallInv, Types, Holds, LockCall
  <2> QED BY <1>2, <2>1, QuietKeeps DEF CallGUnlock
<1>3. ASSUME NEW p \in Callers, CallQuery(p) \/ FinishQuery(p) PROVE Grants'
  <2>1. ASSUME NEW q \in Callers, NEW j \in Keys PROVE Holds(q, j)' <=> Holds(q, j)
    BY <1>3, Calling DEF CallQuery, FinishQuery, CallInv, Types, Holds, At, Query
  <2> QED BY <1>3, <2>1, QuietKeeps DEF CallQuery, FinishQuery
<1>4. ASSUME NEW p \in Callers, Lock(p) PROVE Grants'
  <2>1. call[p] \in LockCall /\ \E step \in {"acquire", "exec"} : Goto(p, step)
    BY <1>4, Calling DEF Lock, At, CallInv
  <2>2. ASSUME NEW q \in Callers, NEW j \in Keys PROVE Holds(q, j)' <=> Holds(q, j)
    BY <1>4, <2>1, LockCallGoes, ConstantsAssumption DEF Lock, CallInv, Holds
  <2> QED BY <1>4, <2>2, QuietKeeps DEF Lock
<1>5. ASSUME NEW p \in Callers, Acquire(p) PROVE Grants'
  <2>1. call[p] \in LockCall
    BY <1>5, Calling DEF Acquire, At, CallInv
  <2>2. ASSUME NEW q \in Callers, NEW j \in Keys PROVE Holds(q, j)' <=> Holds(q, j)
    BY <1>5, <2>1, LockCallGoes, ConstantsAssumption DEF Acquire, CallInv, Holds
  <2>3. \A s \in Stores : session'[s] = session[s] \/ (session[s] = "nil" /\ session'[s] = "open")
    <3>1. session[Home[p]] = "nil"
      BY <1>5 DEF Acquire, CallInv, TakesOnce
    <3>2. session' = [session EXCEPT ![Home[p]] = "open"]
      BY <1>5 DEF Acquire
    <3> QED BY <3>1, <3>2 DEF CallInv, Types
  <2> QED BY <1>5, <2>2, <2>3, QuietKeeps DEF Acquire
<1>6. ASSUME NEW p \in Callers, AcquireLate(p) PROVE Grants'
  <2>1. /\ Inside(p) /\ Leave(p) /\ call[p].op = "lock" /\ UNCHANGED <<believes, granted, misled>>
    BY <1>6 DEF AcquireLate, Inside, CallInv, TakesOnce
  <2>2. \A s \in Stores : session'[s] = session[s] \/ (session[s] = "nil" /\ session'[s] = "open")
    <3>1. session[Home[p]] = "nil"
      BY <1>6 DEF AcquireLate, CallInv, TakesOnce
    <3>2. session' = [session EXCEPT ![Home[p]] = "open"]
      BY <1>6 DEF AcquireLate
    <3> QED BY <3>1, <3>2 DEF CallInv, Types
  <2>3. \A q \in Callers, j \in Keys : Holds(q, j)' <=> Holds(q, j)
    <3>1. PICK k : k = call[p].key
      OBVIOUS
    <3> QED BY <2>1, <3>1, LeaveHolds
  <2> QED BY <2>1, <2>2, <2>3, QuietKeeps
<1>7. ASSUME NEW p \in Callers, AcquireFails(p) PROVE Grants'
  <2>0. PICK k : k = call[p].key
    OBVIOUS
  <2>1. /\ Inside(p) /\ Leave(p) /\ Believe(p) /\ call[p].op = "lock"
        /\ session[Home[p]] = "nil"
        /\ misled' = misled \cup {Home[p]}
        /\ UNCHANGED <<session, granted>>
    BY <1>7 DEF AcquireFails, Inside, CallInv, TakesOnce
  <2>2. k \in Keys /\ ~Holds(p, k) /\ Holds(p, k)'
        /\ \A q \in Callers, j \in Keys :
              q # p \/ j # k => (Holds(q, j)' <=> Holds(q, j))
    BY <2>0, <2>1, BelieveHolds
  <2>3. \A s \in Stores, i \in Ids :
          Cardinality(Holders(s, i))' =
            Cardinality(Holders(s, i)) + (IF s = Home[p] /\ i = Advise[k] THEN 1 ELSE 0)
    BY <2>2, HoldersGain
  <2>4. ASSUME NEW s \in Stores, NEW i \in Ids, session'[s] # "closed"
        PROVE  /\ granted[s][i] <= Cardinality(Holders(s, i))'
               /\ s \notin misled' => granted[s][i] = Cardinality(Holders(s, i))'
    BY <2>1, <2>3, <2>4, HoldersFinite DEF Grants, CallInv, Types
  <2> QED BY <2>1, <2>4 DEF Grants
<1>8. ASSUME NEW p \in Callers, Panic(p) PROVE Grants'
  <2>1. CASE session[Home[p]] = "closed"
    BY <1>8, <2>1, GivesUpKeeps DEF Panic, Inside
  <2>2. CASE session[Home[p]] # "closed"
    BY <1>8, <2>2, GivesUpKeeps, ConstantsAssumption DEF Panic, Inside, Id, CallInv, Types
  <2> QED BY <2>1, <2>2
<1>9. ASSUME NEW p \in Callers, TimesOut(p) PROVE Grants'
  BY <1>9, GivesUpKeeps, ConstantsAssumption DEF TimesOut, Inside, CallInv, Types
<1>10. ASSUME NEW p \in Callers, GrantLock(p) PROVE Grants'
  <2>0. PICK k : k = call[p].key
    OBVIOUS
  <2> DEFINE s == Home[p]  i == Advise[k]
  <2>1. /\ Inside(p) /\ Leave(p) /\ Believe(p) /\ call[p].op = "lock"
        /\ session[s] = "open" /\ i # None
        /\ \A t \in Stores \ {s} : ~(granted[t][i] > 0)
        /\ granted' = [granted EXCEPT ![s][i] = @ + 1]
        /\ UNCHANGED <<session, misled>>
    BY <1>10, <2>0 DEF GrantLock, Executes, Doing, Inside, Blockers, Id
  <2>2. k \in Keys /\ ~Holds(p, k) /\ Holds(p, k)'
        /\ \A q \in Callers, j \in Keys :
              q # p \/ j # k => (Holds(q, j)' <=> Holds(q, j))
    BY <2>0, <2>1, BelieveHolds
  <2>3. \A t \in Stores, j \in Ids :
          Cardinality(Holders(t, j))' =
            Cardinality(Holders(t, j)) + (IF t = s /\ j = i THEN 1 ELSE 0)
    BY <2>2, HoldersGain
  <2>4. s \in Stores /\ i \in Ids
    BY <2>1, <2>2, ConstantsAssumption
  <2> HIDE DEF s, i
  <2>5. \A t \in Stores, j \in Ids :
          granted[t][j] \in Nat
            /\ granted'[t][j] = IF t = s /\ j = i THEN granted[t][j] + 1 ELSE granted[t][j]
    BY <2>1, <2>4 DEF CallInv, Types
  <2> QED BY <2>1, <2>3, <2>4, <2>5, HoldersFinite DEF Grants
<1>11. ASSUME NEW p \in Callers, LockRefused(p) PROVE Grants'
  BY <1>11, GivesUpKeeps DEF LockRefused, Executes, Doing, Inside
<1>12. ASSUME NEW p \in Callers, ReleaseLock(p) PROVE Grants'
  <2>0. PICK k : k = call[p].key
    OBVIOUS
  <2> DEFINE s == Home[p]  i == Advise[k]
  <2>1. /\ Inside(p) /\ Leave(p) /\ call[p].op = "unlock"
        /\ session[s] = "open" /\ i # None
        /\ granted' = [granted EXCEPT ![s][i] = IF @ > 0 THEN @ - 1 ELSE 0]
        /\ UNCHANGED <<session, believes, misled>>
    BY <1>12, <2>0 DEF ReleaseLock, Executes, Doing, Inside, Id
  <2>2. k \in Keys /\ Holds(p, k) /\ ~Holds(p, k)'
        /\ \A q \in Callers, j \in Keys :
              q # p \/ j # k => (Holds(q, j)' <=> Holds(q, j))
    BY <2>0, <2>1, LeaveHolds
  <2>3. \A t \in Stores, j \in Ids :
          /\ Cardinality(Holders(t, j))' =
               Cardinality(Holders(t, j)) - (IF t = s /\ j = i THEN 1 ELSE 0)
          /\ t = s /\ j = i => Cardinality(Holders(t, j)) > 0
    BY <2>2, HoldersLose
  <2>4. s \in Stores /\ i \in Ids
    BY <2>1, <2>2, ConstantsAssumption
  <2> HIDE DEF s, i
  <2>5. \A t \in Stores, j \in Ids :
          granted[t][j] \in Nat
            /\ granted'[t][j] = IF t = s /\ j = i /\ granted[t][j] > 0
                                THEN granted[t][j] - 1 ELSE granted[t][j]
    BY <2>1, <2>4 DEF CallInv, Types
  <2> QED BY <2>1, <2>3, <2>4, <2>5, HoldersFinite DEF Grants
<1>13. ASSUME NEW p \in Callers, StartQuery(p) PROVE Grants'
  <2>1. ASSUME NEW q \in Callers, NEW j \in Keys PROVE Holds(q, j)' <=> Holds(q, j)
    BY <1>13, Calling DEF StartQuery, Goto, CallInv, Types, Holds, At, Query
  <2> QED BY <1>13, <2>1, QuietKeeps DEF StartQuery
<1>15. ASSUME NEW s \in Stores, Break(s) PROVE Grants'
  BY <1>15, QuietKeeps DEF Break, Holds, CallInv, Types
<1>16. ASSUME NEW s \in Stores, EndSession(s) PROVE Grants'
  <2>1. \A t \in Stores, i \in Ids : Holders(t, i)' = Holders(t, i)
    BY <1>16, HoldersSame DEF EndSession, Holds
  <2>2. \A t \in Stores, i \in Ids :
          granted'[t][i] = IF t = s THEN 0 ELSE granted[t][i]
    BY <1>16 DEF EndSession, CallInv, Types
  <2> QED BY <1>16, <2>1, <2>2 DEF EndSession, Grants
<1>17. CASE UNCHANGED vars
  BY <1>17, QuietKeeps DEF vars, Holds
<1> QED BY <1>1, <1>2, <1>3, <1>4, <1>5, <1>6, <1>7, <1>8, <1>9, <1>10, <1>11, <1>12,
       <1>13, <1>15, <1>16, <1>17 DEF Next, Served, Step

-----------------------------------------------------------------------------
(* The pool.                                                               *)

Pool ==
    \A s \in Stores :
        /\ taken[s] \in 0..PoolSize
        /\ taken[s] = Cardinality(Runners(s)) + (IF session[s] = "nil" THEN 0 ELSE 1)

LEMMA RunnersFinite ==
    ASSUME NEW s \in Stores
    PROVE  IsFiniteSet(Runners(s)) /\ Cardinality(Runners(s)) \in Nat
<1>1. Runners(s) \subseteq Callers
  BY DEF Runners
<1> QED BY <1>1, ConstantsAssumption, FS_Subset, FS_CardinalityType

LEMMA PoolInit == Init => Pool
<1> SUFFICES ASSUME Init PROVE Pool
  OBVIOUS
<1>1. ASSUME NEW s \in Stores PROVE Cardinality(Runners(s)) = 0
  <2>1. Runners(s) = {}
    BY ConstantsAssumption DEF Init, Runners, At
  <2> QED BY <2>1, FS_EmptySet
<1>2. ASSUME NEW s \in Stores PROVE taken[s] = 0 /\ session[s] = "nil"
  BY DEF Init
<1> QED BY <1>1, <1>2, ConstantsAssumption DEF Pool

(* A step after which the same callers run statements. *)
LEMMA SameRunners ==
    ASSUME Pool, \A p \in Callers : At(p, "run")' <=> At(p, "run"),
           UNCHANGED taken, \A s \in Stores : session'[s] = "nil" <=> session[s] = "nil"
    PROVE  Pool'
<1>1. ASSUME NEW s \in Stores PROVE Runners(s)' = Runners(s)
  BY DEF Runners
<1> QED BY <1>1 DEF Pool

(* The connection for locks is taken, by a caller that runs no statement. *)
LEMMA TakesLockConnection ==
    ASSUME Types, Pool, NEW t \in Stores, session[t] = "nil", HasConnection(t), Take(t),
           session' = [session EXCEPT ![t] = "open"],
           \A p \in Callers : At(p, "run")' <=> At(p, "run")
    PROVE  Pool'
<1>1. ASSUME NEW s \in Stores PROVE Runners(s)' = Runners(s)
  BY <1>1 DEF Runners
<1>2. ASSUME NEW s \in Stores
      PROVE  taken'[s] = (IF s = t THEN taken[s] + 1 ELSE taken[s])
               /\ session'[s] = (IF s = t THEN "open" ELSE session[s])
  BY DEF Take, Types
<1> QED BY <1>1, <1>2, ConstantsAssumption, RunnersFinite DEF Pool, HasConnection

LEMMA PoolNext == CallInv /\ Pool /\ [Next]_vars => Pool'
<1> SUFFICES ASSUME CallInv, Pool, [Next]_vars PROVE Pool'
    OBVIOUS
<1>1. ASSUME NEW p \in Callers, Leave(p), Inside(p)
      PROVE  \A q \in Callers : At(q, "run")' <=> At(q, "run")
  BY <1>1, ConstantsAssumption DEF Leave, Inside, At, CallInv, Types
<1>2. ASSUME NEW p \in Callers, NEW k \in Keys, CallGLock(p, k) \/ CallGUnlock(p, k)
      PROVE  Pool'
  <2>1. PICK op \in {"lock", "unlock"} :
          /\ call[p] = None
          /\ call' = [call EXCEPT ![p] = [op |-> op, key |-> k, step |-> "mutex"]]
          /\ UNCHANGED <<taken, session>>
    BY <1>2 DEF CallGLock, CallGUnlock
  <2>2. ASSUME NEW q \in Callers PROVE At(q, "run")' <=> At(q, "run")
    BY <2>1 DEF At, CallInv, Types
  <2> QED BY <2>1, <2>2, SameRunners
<1>3. ASSUME NEW p \in Callers, CallQuery(p) PROVE Pool'
  BY <1>3, SameRunners, ConstantsAssumption DEF CallQuery, At, CallInv, Types, Query
<1>4. ASSUME NEW p \in Callers, Lock(p) PROVE Pool'
  <2>1. call[p] \in LockCall /\ \E step \in {"acquire", "exec"} : Goto(p, step)
    BY <1>4, Calling DEF Lock, At, CallInv
  <2>2. ASSUME NEW q \in Callers PROVE At(q, "run")' <=> At(q, "run")
    BY <1>4, <2>1, LockCallGoes DEF Lock, CallInv, At
  <2> QED BY <1>4, <2>2, SameRunners DEF Lock
<1>5. ASSUME NEW p \in Callers, Acquire(p) PROVE Pool'
  <2>1. call[p] \in LockCall /\ Goto(p, "exec")
    BY <1>5, Calling DEF Acquire, At, CallInv
  <2>2. ASSUME NEW q \in Callers PROVE At(q, "run")' <=> At(q, "run")
    BY <1>5, <2>1, LockCallGoes DEF Acquire, CallInv, At
  <2>3. Home[p] \in Stores /\ session[Home[p]] = "nil"
    BY <1>5, ConstantsAssumption DEF Acquire, CallInv, TakesOnce
  <2> QED BY <1>5, <2>2, <2>3, TakesLockConnection DEF Acquire, CallInv
<1>6. ASSUME NEW p \in Callers, AcquireLate(p) PROVE Pool'
  <2>1. Home[p] \in Stores /\ session[Home[p]] = "nil" /\ Inside(p) /\ Leave(p)
    BY <1>6, ConstantsAssumption DEF AcquireLate, CallInv, TakesOnce, Inside
  <2> QED BY <1>6, <1>1, <2>1, TakesLockConnection DEF AcquireLate, CallInv
<1>7. ASSUME NEW p \in Callers,
             AcquireFails(p) \/ Panic(p) \/ GrantLock(p) \/ LockRefused(p) \/ ReleaseLock(p)
      PROVE  Pool'
  <2>1. Inside(p) /\ Leave(p) /\ UNCHANGED <<taken, session>>
    BY <1>7 DEF AcquireFails, Panic, GrantLock, LockRefused, ReleaseLock, Executes, Doing, Inside
  <2> QED BY <2>1, <1>1, SameRunners
<1>8. ASSUME NEW p \in Callers, TimesOut(p) PROVE Pool'
  <2>1. \A s \in Stores : session'[s] = "nil" <=> session[s] = "nil"
    BY <1>8 DEF TimesOut, CallInv, Types
  <2> QED BY <1>8, <1>1, <2>1, SameRunners DEF TimesOut, Inside
<1>9. ASSUME NEW p \in Callers, StartQuery(p) PROVE Pool'
  <2> DEFINE t == Home[p]
  <2>1. call[p] \in Query /\ t \in Stores /\ p \notin Runners(t)
    BY <1>9, Calling, ConstantsAssumption DEF StartQuery, At, CallInv, Runners
  <2>2. At(p, "run")' /\ \A q \in Callers \ {p} : At(q, "run")' <=> At(q, "run")
    BY <1>9, <2>1, ConstantsAssumption DEF StartQuery, Goto, At, CallInv, Types, Query
  <2>3. Runners(t)' = Runners(t) \cup {p} /\ \A s \in Stores \ {t} : Runners(s)' = Runners(s)
    BY <2>2 DEF Runners
  <2>4. Cardinality(Runners(t))' = Cardinality(Runners(t)) + 1
    BY <2>1, <2>3, RunnersFinite, FS_AddElement
  <2>5. ASSUME NEW s \in Stores
        PROVE  taken'[s] = (IF s = t THEN taken[s] + 1 ELSE taken[s]) /\ session'[s] = session[s]
    BY <1>9 DEF StartQuery, Take, CallInv, Types
  <2>6. taken[t] < PoolSize
    BY <1>9 DEF StartQuery, HasConnection
  <2>7. ASSUME NEW s \in Stores
        PROVE  Cardinality(Runners(s))' =
                 Cardinality(Runners(s)) + (IF s = t THEN 1 ELSE 0)
    BY <2>1, <2>3, <2>4, RunnersFinite
  <2> HIDE DEF t
  <2> QED BY <2>1, <2>5, <2>6, <2>7, ConstantsAssumption, RunnersFinite DEF Pool
<1>10. ASSUME NEW p \in Callers, FinishQuery(p) PROVE Pool'
  <2> DEFINE t == Home[p]
  <2>1. call[p] \in Query /\ t \in Stores /\ p \in Runners(t)
    BY <1>10, Calling, ConstantsAssumption DEF FinishQuery, At, CallInv, Runners
  <2>2. ~At(p, "run")' /\ \A q \in Callers \ {p} : At(q, "run")' <=> At(q, "run")
    BY <1>10, <2>1 DEF FinishQuery, At, CallInv, Types
  <2>3. Runners(t)' = Runners(t) \ {p} /\ \A s \in Stores \ {t} : Runners(s)' = Runners(s)
    BY <2>2 DEF Runners
  <2>4. Cardinality(Runners(t))' = Cardinality(Runners(t)) - 1 /\ Cardinality(Runners(t))' \in Nat
    BY <2>1, <2>3, RunnersFinite, FS_RemoveElement, FS_CardinalityType
  <2>5. ASSUME NEW s \in Stores
        PROVE  taken'[s] = (IF s = t THEN taken[s] - 1 ELSE taken[s]) /\ session'[s] = session[s]
    BY <1>10 DEF FinishQuery, CallInv, Types
  <2>7. ASSUME NEW s \in Stores
        PROVE  Cardinality(Runners(s))' =
                 Cardinality(Runners(s)) - (IF s = t THEN 1 ELSE 0)
               /\ Cardinality(Runners(s))' \in Nat
    BY <2>1, <2>3, <2>4, RunnersFinite
  <2> HIDE DEF t
  <2> QED BY <2>1, <2>5, <2>7, ConstantsAssumption, RunnersFinite DEF Pool
<1>11. ASSUME NEW s \in Stores, Break(s) \/ EndSession(s) PROVE Pool'
  <2>1. \A t \in Stores : session'[t] = "nil" <=> session[t] = "nil"
    BY <1>11 DEF Break, EndSession, CallInv, Types
  <2> QED BY <1>11, <2>1, SameRunners DEF Break, EndSession, At
<1>12. CASE UNCHANGED vars
  BY <1>12, SameRunners DEF vars, At
<1> QED BY <1>2, <1>3, <1>4, <1>5, <1>6, <1>7, <1>8, <1>9, <1>10, <1>11, <1>12
    DEF Next, Served, Step

-----------------------------------------------------------------------------
(* The theorems.                                                           *)

LEMMA GrantsInvariant == Spec => [](CallInv /\ Grants)
<1>1. CallInv /\ Grants /\ [Next]_vars => CallInv' /\ Grants'
  BY CallNext, GrantsNext
<1> QED BY <1>1, CallInit, GrantsInit, PTL DEF Spec

(* The type invariant, the count of the pool's connections included. *)
THEOREM TypeCorrect == Spec => []TypeOK
<1>1. CallInv /\ Pool => TypeOK
  BY DEF CallInv, Types, Pool, TypeOK, MutexHeld, Inside
<1>2. CallInv /\ Pool /\ [Next]_vars => CallInv' /\ Pool'
  BY CallNext, PoolNext
<1> QED BY <1>1, <1>2, CallInit, PoolInit, PTL DEF Spec

(* GrantsAreHeld for any number of callers and keys: GLock and GUnlock keep *)
(* count although callers share one session, time out and panic.           *)
THEOREM GrantsCorrect == Spec => []GrantsAreHeld
<1>1. Grants => GrantsAreHeld
  BY DEF Grants, GrantsAreHeld
<1> QED BY <1>1, GrantsInvariant, PTL

(* Exclusion for any number of stores. *)
THEOREM ExclusionCorrect == Spec => []Exclusion
<1>1. ASSUME CallInv, Grants PROVE Exclusion
  <2> SUFFICES ASSUME NEW p \in Callers, NEW q \in Callers,
                      NEW j \in believes[p], NEW k \in believes[q],
                      Home[p] # Home[q], Advise[j] = Advise[k],
                      Trusted(Home[p]), Trusted(Home[q])
               PROVE  FALSE
    BY DEF Exclusion
  <2>1. j \in Keys /\ k \in Keys /\ Holds(p, j) /\ Holds(q, k)
    BY <1>1 DEF CallInv, Types, Holds
  <2>2. granted[Home[p]][Advise[j]] > 0 /\ granted[Home[q]][Advise[j]] > 0
        /\ Home[p] \in Stores /\ Home[q] \in Stores /\ Advise[j] \in Ids
    BY <1>1, <2>1, HolderHasGrant DEF Trusted
  <2> QED BY <1>1, <2>2 DEF Grants
<1> QED BY <1>1, GrantsInvariant, PTL

(* LostStoresLockNothing, of every step of the code. *)
THEOREM LostCorrect == Spec => LostStoresLockNothing
<1>1. ASSUME CallInv, [Next]_vars, NEW p \in Callers, session[Home[p]] = "closed"
      PROVE  believes'[p] \subseteq believes[p]
  <2>1. ASSUME NEW q \in Callers, Believe(q), session[Home[q]] # "closed"
        PROVE  believes'[p] = believes[p]
    BY <1>1, <2>1 DEF Believe, CallInv, Types
  <2>2. ASSUME NEW q \in Callers, AcquireFails(q) PROVE believes'[p] = believes[p]
    BY <1>1, <2>1, <2>2 DEF AcquireFails, CallInv, TakesOnce
  <2>3. ASSUME NEW q \in Callers, GrantLock(q) PROVE believes'[p] = believes[p]
    BY <2>1, <2>3 DEF GrantLock, Executes
  <2>4. ASSUME NEW q \in Callers, NEW k \in Keys, CallGUnlock(q, k)
        PROVE  believes'[p] \subseteq believes[p]
    BY <1>1, <2>4 DEF CallGUnlock, CallInv, Types
  <2>5. CASE UNCHANGED believes
    BY <2>5
  <2> QED BY <1>1, <2>2, <2>3, <2>4, <2>5
      DEF Next, Served, Step, vars, CallGLock, CallQuery, Lock, Acquire, StartQuery, AcquireLate,
          Panic, TimesOut, LockRefused, ReleaseLock, FinishQuery, Break, EndSession
<1>2. CallInv /\ [Next]_vars =>
        [\A p \in Callers :
           session[Home[p]] = "closed" => believes'[p] \subseteq believes[p]]_vars
  BY <1>1
<1> QED BY <1>2, GrantsInvariant, PTL DEF Spec, LostStoresLockNothing

-----------------------------------------------------------------------------
(* AdvisoryLock implements LockService.                                    *)

HeldBy(s) == IF Sound(s) THEN Working(s) ELSE {}

(* A step of the service, or none. *)
Serves == Service!Next \/ UNCHANGED Service!vars

(* What stores work under follows from what their callers believe. *)
LEMMA WorkingSame ==
    ASSUME NEW s \in Stores, \A p \in Callers : Home[p] = s => believes'[p] = believes[p]
    PROVE  Working(s)' = Working(s)
BY DEF Working

LEMMA WorkingHas ==
    ASSUME NEW s \in Stores, NEW i
    PROVE  i \in Working(s) <=>
             \E p \in Callers : \E k \in believes[p] : Home[p] = s /\ Advise[k] = i
BY DEF Working

(* A step that leaves beliefs alone, and no store less sound. *)
LEMMA QuietService ==
    ASSUME UNCHANGED believes, \A s \in Stores : Sound(s)' <=> Sound(s)
    PROVE  UNCHANGED Service!vars
<1>1. \A s \in Stores : HeldBy(s)' = HeldBy(s)
  BY WorkingSame DEF HeldBy
<1>2. UNCHANGED [s \in Stores |-> IF Sound(s) THEN Working(s) ELSE {}]
  BY <1>1 DEF HeldBy
<1>3. UNCHANGED {s \in Stores : ~Sound(s)}
  OBVIOUS
<1> QED BY <1>2, <1>3 DEF Service!vars

(* One store stops being sound; what its callers believe matters no more. *)
LEMMA ForfeitService ==
    ASSUME NEW s \in Stores, ~Sound(s)',
           \A t \in Stores \ {s} : Sound(t)' <=> Sound(t),
           \A p \in Callers : Home[p] # s => believes'[p] = believes[p]
    PROVE  Serves
<1>1. \A t \in Stores \ {s} : HeldBy(t)' = HeldBy(t)
  BY WorkingSame DEF HeldBy
<1>2. HeldBy(s)' = {}
  BY DEF HeldBy
<1>3. [t \in Stores |-> IF Sound(t) THEN Working(t) ELSE {}]' =
        [[t \in Stores |-> IF Sound(t) THEN Working(t) ELSE {}] EXCEPT ![s] = {}]
  BY <1>1, <1>2 DEF HeldBy
<1>4. {t \in Stores : ~Sound(t)}' = {t \in Stores : ~Sound(t)} \cup {s}
  OBVIOUS
<1>5. Service!Forfeit(s)
  BY <1>3, <1>4 DEF Service!Forfeit
<1> QED BY <1>5 DEF Serves, Service!Next

(* One caller of s comes to believe in k, or stops: only s is concerned,   *)
(* and only the id of k.                                                   *)
LEMMA OneBelief ==
    ASSUME NEW p \in Callers, NEW s \in Stores, s = Home[p], NEW k \in Keys,
           \A q \in Callers \ {p} : believes'[q] = believes[q],
           \A t \in Stores : Sound(t)' <=> Sound(t)
    PROVE  /\ UNCHANGED {t \in Stores : ~Sound(t)}
           /\ ~Sound(s) => Serves
           /\ Sound(s) =>
                [t \in Stores |-> IF Sound(t) THEN Working(t) ELSE {}]' =
                  [[t \in Stores |-> IF Sound(t) THEN Working(t) ELSE {}]
                     EXCEPT ![s] = Working(s)']
<1>1. UNCHANGED {t \in Stores : ~Sound(t)}
  OBVIOUS
<1>2. \A t \in Stores \ {s} : HeldBy(t)' = HeldBy(t)
  BY WorkingSame DEF HeldBy
<1>3. ASSUME ~Sound(s) PROVE Serves
  <2>1. \A t \in Stores : HeldBy(t)' = HeldBy(t)
    BY <1>2, <1>3 DEF HeldBy
  <2>2. UNCHANGED [t \in Stores |-> IF Sound(t) THEN Working(t) ELSE {}]
    BY <2>1 DEF HeldBy
  <2> QED BY <1>1, <2>2 DEF Serves, Service!vars
<1>4. ASSUME Sound(s)
      PROVE  [t \in Stores |-> IF Sound(t) THEN Working(t) ELSE {}]' =
               [[t \in Stores |-> IF Sound(t) THEN Working(t) ELSE {}] EXCEPT ![s] = Working(s)']
  BY <1>2, <1>4 DEF HeldBy
<1> QED BY <1>1, <1>3, <1>4

(* What another store works under is granted to it, and blocks this one.   *)
LEMMA WorkingBlocks ==
    ASSUME CallInv, Grants, NEW s \in Stores, NEW t \in Stores \ {s},
           NEW i \in Ids, i \in HeldBy(t)
    PROVE  t \in Blockers(s, i)
<1>1. Sound(t) /\ i \in Working(t)
  BY DEF HeldBy
<1>2. PICK q \in Callers : \E k \in believes[q] : Home[q] = t /\ Advise[k] = i
  BY <1>1, WorkingHas
<1> PICK k \in believes[q] : Home[q] = t /\ Advise[k] = i
  BY <1>2
<1>3. k \in Keys /\ Holds(q, k)
  BY DEF CallInv, Types, Holds
<1>4. granted[t][i] > 0
  BY <1>1, <1>3, HolderHasGrant DEF Sound
<1> QED BY <1>4 DEF Blockers

LEMMA GrantServes ==
    ASSUME CallInv, Grants, NEW p \in Callers, GrantLock(p)
    PROVE  Serves
<1> DEFINE k == call[p].key  s == Home[p]
<1>1. /\ call[p] \in LockCall /\ k \in Keys /\ s \in Stores /\ Advise[k] \in Ids
      /\ Blockers(s, Advise[k]) = {} /\ UNCHANGED <<session, misled>>
      /\ believes' = [believes EXCEPT ![p] = @ \cup {k}]
      /\ believes \in [Callers -> SUBSET Keys]
  BY Calling, ConstantsAssumption
     DEF GrantLock, Executes, Doing, At, Id, CallInv, Types, LockCall, Believe
<1> HIDE DEF k, s
<1>2. /\ \A q \in Callers \ {p} : believes'[q] = believes[q]
      /\ believes'[p] = believes[p] \cup {k}
      /\ \A t \in Stores : Sound(t)' <=> Sound(t)
  BY <1>1 DEF Sound
<1>3. s = Home[p]
  BY DEF s
<1>4. CASE ~Sound(s)
  BY <1>1, <1>2, <1>3, <1>4, OneBelief
<1>5. CASE Sound(s)
  <2>1. Working(s)' = Working(s) \cup {Advise[k]}
    BY <1>1, <1>2, <1>3 DEF Working
  <2>2. \A t \in Stores \ {s} : Advise[k] \notin HeldBy(t)
    BY <1>1, WorkingBlocks
  <2>3. Service!Acquire(s, Advise[k])
    <3>1. s \notin {t \in Stores : ~Sound(t)}
      BY <1>5
    <3>2. \A t \in Stores \ {s} :
            Advise[k] \notin [u \in Stores |-> IF Sound(u) THEN Working(u) ELSE {}][t]
      BY <2>2 DEF HeldBy
    <3>3. [u \in Stores |-> IF Sound(u) THEN Working(u) ELSE {}][s] = Working(s)
      BY <1>1, <1>5
    <3>4. /\ UNCHANGED {t \in Stores : ~Sound(t)}
          /\ [t \in Stores |-> IF Sound(t) THEN Working(t) ELSE {}]' =
               [[t \in Stores |-> IF Sound(t) THEN Working(t) ELSE {}]
                  EXCEPT ![s] = Working(s)']
      BY <1>1, <1>2, <1>3, <1>5, OneBelief
    <3> QED BY <2>1, <3>1, <3>2, <3>3, <3>4 DEF Service!Acquire
  <2> QED BY <1>1, <2>3 DEF Serves, Service!Next
<1> QED BY <1>4, <1>5

LEMMA UnlockServes ==
    ASSUME CallInv, NEW p \in Callers, NEW k \in Keys, CallGUnlock(p, k)
    PROVE  Serves
<1>1. PICK s \in Stores : s = Home[p]
  BY ConstantsAssumption
<1>2. /\ UNCHANGED <<session, misled>>
      /\ \A q \in Callers \ {p} : believes'[q] = believes[q]
      /\ believes'[p] = believes[p] \ {k} /\ k \in believes[p]
      /\ \A t \in Stores : Sound(t)' <=> Sound(t)
  BY DEF CallGUnlock, CallInv, Types, Sound
<1>3. CASE ~Sound(s)
  BY <1>1, <1>2, <1>3, OneBelief
<1>4. CASE Sound(s) /\ Advise[k] \in Working(s)'
  <2>1. Working(s)' = Working(s)
    BY <1>1, <1>2, <1>4 DEF Working
  <2>2. UNCHANGED [t \in Stores |-> IF Sound(t) THEN Working(t) ELSE {}]
    BY <1>1, <1>2, <1>4, <2>1, OneBelief
  <2> QED BY <1>1, <1>2, <2>2, OneBelief DEF Serves, Service!vars
<1>5. CASE Sound(s) /\ Advise[k] \notin Working(s)' /\ Advise[k] \in Ids
  <2>1. Working(s)' = Working(s) \ {Advise[k]}
    BY <1>1, <1>2, <1>5 DEF Working
  <2>2. [t \in Stores |-> IF Sound(t) THEN Working(t) ELSE {}][s] = Working(s)
    BY <1>5
  <2>3. Service!Release(s, Advise[k])
    <3>1. /\ UNCHANGED {t \in Stores : ~Sound(t)}
          /\ [t \in Stores |-> IF Sound(t) THEN Working(t) ELSE {}]' =
               [[t \in Stores |-> IF Sound(t) THEN Working(t) ELSE {}]
                  EXCEPT ![s] = Working(s)']
      BY <1>1, <1>2, <1>5, OneBelief
    <3> QED BY <2>1, <2>2, <3>1 DEF Service!Release
  <2> QED BY <1>5, <2>3 DEF Serves, Service!Next
<1>6. Sound(s) => Advise[k] \in Ids
  BY <1>1, <1>2, ConstantsAssumption DEF CallInv, Claims, Holds, Sound
<1> QED BY <1>3, <1>4, <1>5, <1>6

LEMMA ServiceStep ==
    ASSUME CallInv, Grants, [Next]_vars
    PROVE  Serves
<1>0. /\ session \in [Stores -> {"nil", "open", "closed"}]
      /\ \A p \in Callers : Home[p] \in Stores
  BY ConstantsAssumption DEF CallInv, Types
<1>1. ASSUME UNCHANGED <<believes, misled>>,
             \A s \in Stores : session'[s] = "closed" <=> session[s] = "closed"
      PROVE  Serves
  BY <1>1, QuietService DEF Serves, Sound
<1>2. ASSUME NEW p \in Callers,
             \/ \E k \in Keys : CallGLock(p, k)
             \/ CallQuery(p) \/ Lock(p) \/ StartQuery(p) \/ Panic(p) \/ LockRefused(p)
             \/ ReleaseLock(p) \/ FinishQuery(p)
      PROVE  Serves
  BY <1>1, <1>2 DEF CallGLock, CallQuery, Lock, StartQuery, Panic, LockRefused, ReleaseLock,
     FinishQuery
<1>3. ASSUME NEW p \in Callers, Acquire(p) \/ AcquireLate(p)
      PROVE  Serves
  <2>1. session[Home[p]] = "nil"
    BY <1>3 DEF Acquire, AcquireLate, CallInv, TakesOnce
  <2>2. session' = [session EXCEPT ![Home[p]] = "open"] /\ UNCHANGED <<believes, misled>>
    BY <1>3 DEF Acquire, AcquireLate
  <2> QED BY <1>0, <1>1, <2>1, <2>2
<1>4. ASSUME NEW p \in Callers, AcquireFails(p)
      PROVE  Serves
  <2>1. /\ \A q \in Callers \ {p} : believes'[q] = believes[q]
        /\ UNCHANGED session /\ misled' = misled \cup {Home[p]}
    BY <1>4 DEF AcquireFails, Believe, CallInv, Types
  <2>2. /\ ~Sound(Home[p])'
        /\ \A t \in Stores \ {Home[p]} : Sound(t)' <=> Sound(t)
    BY <2>1 DEF Sound
  <2> QED BY <1>0, <2>1, <2>2, ForfeitService
<1>5. ASSUME NEW s \in Stores, session' = [session EXCEPT ![s] = "closed"],
             UNCHANGED <<believes, misled>>
      PROVE  Serves
  <2>1. ~Sound(s)' /\ \A t \in Stores \ {s} : Sound(t)' <=> Sound(t)
    BY <1>0, <1>5 DEF Sound
  <2> QED BY <1>5, <2>1, ForfeitService
<1>6. ASSUME NEW p \in Callers, TimesOut(p)
      PROVE  Serves
  BY <1>0, <1>5, <1>6 DEF TimesOut
<1>7. ASSUME NEW s \in Stores, Break(s)
      PROVE  Serves
  BY <1>5, <1>7 DEF Break
<1>8. ASSUME (\E s \in Stores : EndSession(s)) \/ UNCHANGED vars
      PROVE  Serves
  BY <1>1, <1>8 DEF EndSession, vars
<1> QED BY <1>2, <1>3, <1>4, <1>6, <1>7, <1>8, GrantServes, UnlockServes
        DEF Next, Served, Step

(* Stores take turns as LockService promises, for any number of stores,    *)
(* goroutines and keys and under every fault: each step of GLock and       *)
(* GUnlock, of the server and of a fault is one of the service's or none.  *)
THEOREM ServiceIsKept == Spec => KeepsService
<1>1. Init => Service!Init
  <2> SUFFICES ASSUME Init PROVE Service!Init
    OBVIOUS
  <2>1. \A s \in Stores : Sound(s) /\ Working(s) = {}
    BY DEF Init, Sound, Working
  <2> QED BY <2>1 DEF Service!Init
<1>2. CallInv /\ Grants /\ [Next]_vars => [Service!Next]_(Service!vars)
  BY ServiceStep DEF Serves
<1> QED BY <1>1, <1>2, GrantsInvariant, PTL DEF Spec, KeepsService, Service!Spec
=============================================================================
