----------------------------- MODULE TokenVault -----------------------------
(***************************************************************************)
(* What the library owes its user about refresh tokens, apart from how     *)
(* token sources and the callback bring it about.  A refresh token that    *)
(* the SSO has given out is on its way to a row, in a row, or given up     *)
(* knowingly; a row never goes back to an earlier token of its grant; and  *)
(* while a token is on its way nobody makes the SSO retire it.             *)
(*                                                                         *)
(* TokenSource and Callback implement it, each with its own rows.          *)
(***************************************************************************)
EXTENDS Naturals, TLAPS

CONSTANTS
    Keys,    \* rows that can exist
    Tokens,  \* refresh tokens
    Grant,   \* Grant[r]: the authorization r descends from
    Order,   \* Order[r]: the place of r in the order of issue
    None

VARIABLES
    row,      \* row[k]: the refresh token stored at k, or None
    live,     \* tokens the SSO honours
    pending,  \* tokens received and not yet stored
    lost      \* tokens given up

vars == <<row, live, pending, lost>>

Stored == {row[k] : k \in {j \in Keys : row[j] # None}}

Init ==
    /\ row = [k \in Keys |-> None]
    /\ live = {}
    /\ pending = {}
    /\ lost = {}

(* r takes the place of an older token of its grant, or displaces another  *)
(* grant's.                                                                *)
Put(k, r) ==
    /\ row[k] # None /\ Grant[row[k]] = Grant[r] => Order[row[k]] < Order[r]
    /\ row' = [row EXCEPT ![k] = r]
    /\ lost' = lost \cup (IF row[k] # None /\ Grant[row[k]] # Grant[r]
                          THEN {row[k]} ELSE {})

(* The SSO gives out r, and retires the one it honoured of that grant; r   *)
(* is received, or lost on the way, or at once stored.                     *)
Issue(r) ==
    /\ r \notin live
    /\ \A t \in Stored \cup pending : Grant[t] = Grant[r] => Order[t] < Order[r]
    /\ \A t \in pending : Grant[t] # Grant[r]
    /\ live' = {t \in live : Grant[t] # Grant[r]} \cup {r}
    /\ \/ pending' = pending \cup {r} /\ UNCHANGED <<row, lost>>
       \/ lost' = lost \cup {r} /\ UNCHANGED <<row, pending>>
       \/ \E k \in Keys : Put(k, r) /\ UNCHANGED pending

Save(k, r) ==
    /\ r \in pending
    /\ pending' = pending \ {r}
    /\ Put(k, r)
    /\ UNCHANGED live

Lose(R) ==
    /\ pending' = pending \ R
    /\ lost' = lost \cup R
    /\ UNCHANGED <<row, live>>

Erase(K) ==
    /\ row' = [k \in Keys |-> IF k \in K THEN None ELSE row[k]]
    /\ lost' = lost \cup {row[k] : k \in {j \in K : row[j] # None}}
    /\ UNCHANGED <<live, pending>>

Revoke(r) ==
    /\ live' = live \ {r}
    /\ UNCHANGED <<row, pending, lost>>

Next ==
    \/ \E r \in Tokens : Issue(r)
    \/ \E k \in Keys, r \in pending : Save(k, r)
    \/ \E R \in SUBSET pending : Lose(R)
    \/ \E K \in SUBSET Keys : Erase(K)
    \/ \E r \in live : Revoke(r)

Spec == Init /\ [][Next]_vars

-----------------------------------------------------------------------------
(* What the vault is for.                                                  *)

(* The SSO honours no refresh token that is nowhere. *)
NothingVanishes == live \subseteq Stored \cup pending \cup lost

(* While a token is pending, the SSO honours no other one of its grant, so *)
(* that none is saved over another that could still be used.               *)
PendingIsLast == \A p \in pending, t \in live : Grant[t] = Grant[p] => t = p

VaultInv ==
    /\ row = [k \in Keys |-> row[k]]
    /\ pending \subseteq Tokens
    /\ NothingVanishes
    /\ PendingIsLast

LEMMA VaultInvariant ==
    ASSUME None \notin Tokens
    PROVE  Spec => []VaultInv
<1>1. Init => VaultInv
  BY DEF Init, VaultInv, NothingVanishes, PendingIsLast
<1>2. VaultInv /\ [Next]_vars => VaultInv'
  <2> SUFFICES ASSUME VaultInv, [Next]_vars PROVE VaultInv'
    OBVIOUS
  <2> USE DEF VaultInv, NothingVanishes, PendingIsLast, Stored
  <2>1. ASSUME NEW r \in Tokens, Issue(r) PROVE VaultInv'
    <3>1. PendingIsLast'
      BY <2>1 DEF Issue, Put
    <3>2. row' = [k \in Keys |-> row'[k]]
      BY <2>1 DEF Issue, Put
    <3>3. CASE UNCHANGED row
      <4>1. pending' \subseteq Tokens /\ Stored' = Stored
        <5>1. Stored' = Stored
          BY <3>3
        <5>2. pending' = pending \cup {r} \/ pending' = pending
          BY <2>1 DEF Issue
        <5> QED BY <5>1, <5>2
      <4>2. r \in Stored' \cup pending' \cup lost'
        <5>1. CASE pending' = pending \cup {r} \/ lost' = lost \cup {r}
          BY <5>1
        <5>2. ASSUME NEW k \in Keys, Put(k, r) PROVE r \in Stored'
          BY <5>2 DEF Put
        <5> QED BY <2>1, <5>1, <5>2 DEF Issue
      <4>3. pending \cup lost \subseteq pending' \cup lost'
        BY <2>1 DEF Issue, Put
      <4>4. live' \subseteq live \cup {r}
        BY <2>1 DEF Issue
      <4>5. NothingVanishes'
        BY <4>1, <4>2, <4>3, <4>4
      <4> QED BY <3>1, <3>2, <4>1, <4>5
    <3>4. ASSUME NEW k \in Keys, Put(k, r), UNCHANGED pending 
          PROVE  NothingVanishes' /\ pending' \subseteq Tokens
      <4>1. r \in Stored'
        BY <3>4 DEF Put
      <4>2. \A t \in live' : t = r \/ (t \in live /\ Grant[t] # Grant[r])
        BY <2>1 DEF Issue
      <4>3. \A t \in Stored : Grant[t] # Grant[r] => t \in Stored' \cup lost'
        BY <3>4 DEF Put
      <4>4. pending \cup lost \subseteq pending' \cup lost'
        BY <3>4 DEF Put
      <4> QED BY <3>4, <4>1, <4>2, <4>3, <4>4
    <3> QED BY <2>1, <3>1, <3>2, <3>3, <3>4 DEF Issue
  <2>2. ASSUME NEW k \in Keys, NEW r \in pending, Save(k, r) PROVE VaultInv'
    <3>1. r \in Tokens /\ r \in Stored' /\ row' = [j \in Keys |-> row'[j]]
      BY <2>2 DEF Save, Put
    <3>2. \A t \in Stored : Grant[t] # Grant[r] => t \in Stored' \cup lost'
      BY <2>2 DEF Save, Put
    <3>3. \A t \in live : Grant[t] = Grant[r] => t = r
      BY <2>2
    <3>4. live' = live /\ pending' = pending \ {r} /\ lost \subseteq lost'
      BY <2>2 DEF Save, Put
    <3> QED BY <3>1, <3>2, <3>3, <3>4
  <2>3. ASSUME NEW R \in SUBSET pending, Lose(R) PROVE VaultInv'
    BY <2>3 DEF Lose
  <2>4. ASSUME NEW K \in SUBSET Keys, Erase(K) PROVE VaultInv'
    BY <2>4 DEF Erase
  <2>5. ASSUME NEW r \in live, Revoke(r) PROVE VaultInv'
    BY <2>5 DEF Revoke
  <2>6. CASE UNCHANGED vars
    BY <2>6 DEF vars
  <2> QED BY <2>1, <2>2, <2>3, <2>4, <2>5, <2>6 DEF Next
<1> QED BY <1>1, <1>2, PTL DEF Spec

(* Whatever implements the vault loses no refresh token the SSO still      *)
(* honours without knowing it.                                             *)
THEOREM VaultLosesNothing ==
    ASSUME None \notin Tokens
    PROVE  Spec => []NothingVanishes
<1>1. VaultInv => NothingVanishes
  BY DEF VaultInv
<1> QED BY <1>1, VaultInvariant, PTL
=============================================================================
