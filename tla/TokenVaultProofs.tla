-------------------------- MODULE TokenVaultProofs --------------------------
(* TokenSource implements TokenVault, for every value of its constants.    *)
EXTENDS TokenGrantProofs

(* The abstract rows. *)
Refreshes == [c \in Characters |-> IF db[c] = None THEN None ELSE db[c].refresh]

-----------------------------------------------------------------------------

(* Every refresh token anybody keeps is one the vault knows. *)
LEMMA TokensAreIssuable ==
    ASSUME TypeOK, GrantIInv
    PROVE  Stored \cup Flying \cup live \subseteq Issuable
<1>1. Stored \cup Flying \cup live \subseteq Id
  BY TokensAreIds DEF Held, TypeOK
<1>2. \A r \in Stored \cup Flying \cup live : r.grant <= issued /\ r.n <= issued
  BY DEF GrantIInv, GrantInv, OnlyIssued, Held
<1>3. issued \in Nat /\ issued <= MaxTokens /\ MaxTokens \in Nat
  BY ConstantsAssumption DEF TypeOK
<1> QED BY <1>1, <1>2, <1>3 DEF Issuable, Id

LEMMA VaultStored ==
    ASSUME TypeOK
    PROVE  Vault!Stored = Stored
<1>1. \A c \in Characters : db[c] # None => db[c].refresh \in Id
  BY DEF TypeOK, Row
<1>2. \A c \in Characters : Refreshes[c] # None <=> db[c] # None
  BY <1>1, ConstantsAssumption DEF Refreshes
<1>3. Vault!Stored = {Refreshes[c] : c \in {d \in Characters : Refreshes[d] # None}}
  BY DEF Vault!Stored, Refreshes
<1>4. Vault!Stored = {Refreshes[c] : c \in {d \in Characters : db[d] # None}}
  BY <1>2, <1>3
<1> QED BY <1>4 DEF Stored, Refreshes

(* The table with one row replaced, as Put sees it. *)
LEMMA PutStep ==
    ASSUME TypeOK, GrantIInv, NEW c \in Characters, NEW r \in Issuable,
           db[c] # None /\ db[c].refresh.grant = r.grant => db[c].refresh.n < r.n,
           db'[c] # None, db'[c].refresh = r,
           \A d \in Characters \ {c} : db'[d] = db[d],
           dropped' = dropped \cup Displaced(db')
    PROVE  Vault!Put(c, r)
<1>1. \A d \in Characters : db[d] # None => db[d].refresh \in Issuable /\ db[d].refresh \in Id
  BY TokensAreIssuable DEF Stored, TypeOK, Row
<1>2. Refreshes[c] # None <=> db[c] # None
  BY <1>1, ConstantsAssumption DEF Refreshes
<1>3. Displaced(db') = IF db[c] # None /\ db[c].refresh.grant # r.grant
                       THEN {db[c].refresh} ELSE {}
  BY DEF Displaced
<1>4. /\ Refreshes[c] # None => Refreshes[c] = db[c].refresh
      /\ Refreshes' = [Refreshes EXCEPT ![c] = r]
  BY <1>2 DEF Refreshes
<1>5. \A t \in Issuable : /\ [x \in Issuable |-> x.grant][t] = t.grant
                          /\ [x \in Issuable |-> x.n][t] = t.n
  OBVIOUS
<1> QED BY <1>1, <1>2, <1>3, <1>4, <1>5 DEF Vault!Put, Refreshes

(* A step that moves no refresh token. *)
LEMMA QuietStep ==
    ASSUME \A c \in Characters :
             /\ db'[c] # None <=> db[c] # None
             /\ db'[c] # None => db'[c].refresh = db[c].refresh,
           \A p \in Callers : Unsaved(p)' = Unsaved(p),
           live' = live, dropped' = dropped
    PROVE  UNCHANGED Vault!vars
<1>1. Refreshes' = Refreshes
  BY DEF Refreshes
<1>2. Flying' = Flying
  BY DEF Flying
<1> QED BY <1>1, <1>2 DEF Vault!vars, Refreshes

(* Calls that end with their tokens unsaved. *)
LEMMA LoseStep ==
    ASSUME TypeOK, GrantIInv, NEW P \in SUBSET Callers,
           \A p \in P : ~InFlight(p)',
           \A p \in Callers \ P : call'[p] = call[p],
           db' = db, live' = live,
           dropped' = dropped \cup UNION {Unsaved(p) : p \in P}
    PROVE  Vault!Next
<1> DEFINE R == UNION {Unsaved(p) : p \in P}
<1>1. R \in SUBSET Flying
  BY DEF Flying
<1>2. \A p \in Callers \ P : Unsaved(p)' = Unsaved(p)
  BY DEF Unsaved, InFlight
<1>3. \A p \in P : Unsaved(p)' = {}
  BY DEF Unsaved
<1>4. \A p \in Callers \ P, q \in P : Unsaved(p) \cap Unsaved(q) = {}
  BY DEF Unsaved, GrantIInv, GrantInv, OneFlightPerGrant
<1>5. Flying' = Flying \ R
  BY <1>2, <1>3, <1>4 DEF Flying
<1>6. Refreshes' = Refreshes
  BY DEF Refreshes
<1>7. Vault!Lose(R)
  BY <1>5, <1>6 DEF Vault!Lose, Refreshes
<1> QED BY <1>1, <1>7 DEF Vault!Next

(* A statement that stores the refresh token of a call. *)
LEMMA SaveStep ==
    ASSUME TypeOK, GrantIInv, NEW p \in Callers, NEW c \in Characters,
           InFlight(p), ~InFlight(p)',
           \A q \in Callers \ {p} : call'[q] = call[q],
           db'[c] # None, db'[c].refresh = call[p].new.refresh,
           \A d \in Characters \ {c} : db'[d] = db[d],
           dropped' = dropped \cup Displaced(db'),
           live' = live
    PROVE  Vault!Next
<1>1. call[p].new.refresh \in Flying
  BY DEF Flying, Unsaved
<1> PICK r \in Issuable : r = call[p].new.refresh
  BY <1>1, TokensAreIssuable
<1>2. Unsaved(p) = {r} /\ Unsaved(p)' = {}
  BY DEF Unsaved
<1>3. \A q \in Callers \ {p} : Unsaved(q)' = Unsaved(q) /\ r \notin Unsaved(q)
  BY DEF Unsaved, InFlight, GrantIInv, GrantInv, OneFlightPerGrant
<1>4. Flying' = Flying \ {r}
  BY <1>2, <1>3 DEF Flying
<1>5. db[c] # None /\ db[c].refresh.grant = r.grant => db[c].refresh.n < r.n
  BY DEF GrantIInv, GrantInv, FlightIsTip, Held, Stored
<1>6. Vault!Put(c, r)
  BY <1>5, PutStep
<1>7. Vault!Save(c, r)
  BY <1>1, <1>4, <1>6 DEF Vault!Save
<1> QED BY <1>1, <1>7 DEF Vault!Next

(* A refresh token the SSO gives out: newer than every other of its grant, *)
(* none of which is in flight, and alone honoured.                         *)
LEMMA IssueStep ==
    ASSUME TypeOK, GrantIInv, NEW r \in Issuable, r.n = issued + 1,
           \A t \in Flying : t.grant # r.grant,
           live' = {t \in live : t.grant # r.grant} \cup {r},
           \/ Flying' = Flying \cup {r} /\ db' = db /\ dropped' = dropped
           \/ Flying' = Flying /\ db' = db /\ dropped' = dropped \cup {r}
           \/ Flying' = Flying /\ \E c \in Characters : Vault!Put(c, r)
    PROVE  Vault!Next
<1>1. issued \in Nat
  BY DEF TypeOK
<1>2. \A t \in Stored \cup Flying \cup live : t \in Issuable /\ t.n \in Nat /\ t.n <= issued
  BY TokensAreIssuable DEF Issuable, GrantIInv, GrantInv, OnlyIssued, Held
<1>3. \A t \in Issuable : /\ [x \in Issuable |-> x.grant][t] = t.grant
                          /\ [x \in Issuable |-> x.n][t] = t.n
  OBVIOUS
<1>4. r \notin live
  BY <1>1, <1>2
<1>5. live' = {t \in live : [x \in Issuable |-> x.grant][t] # [x \in Issuable |-> x.grant][r]}
                \cup {r}
  BY <1>2, <1>3
<1>6. \A t \in Vault!Stored \cup Flying :
        [x \in Issuable |-> x.grant][t] = [x \in Issuable |-> x.grant][r]
          => [x \in Issuable |-> x.n][t] < [x \in Issuable |-> x.n][r]
  BY <1>1, <1>2, <1>3, VaultStored
<1>7. \A t \in Flying : [x \in Issuable |-> x.grant][t] # [x \in Issuable |-> x.grant][r]
  BY <1>2, <1>3
<1>8. Vault!Issue(r)
  <2>1. CASE Flying' = Flying \cup {r} /\ db' = db /\ dropped' = dropped
    BY <2>1, <1>4, <1>5, <1>6, <1>7 DEF Vault!Issue
  <2>2. CASE Flying' = Flying /\ db' = db /\ dropped' = dropped \cup {r}
    BY <2>2, <1>4, <1>5, <1>6, <1>7 DEF Vault!Issue
  <2>3. CASE Flying' = Flying /\ \E c \in Characters : Vault!Put(c, r)
    BY <2>3, <1>4, <1>5, <1>6, <1>7 DEF Vault!Issue
  <2> QED BY <2>1, <2>2, <2>3
<1> QED BY <1>8 DEF Vault!Next

-----------------------------------------------------------------------------
(* The steps that issue or store a token.                                  *)

LEMMA RotatedKeepsVault ==
    ASSUME TypeOK, GrantIInv, NEW p \in Callers, RefreshRotated(p) \/ RefreshLost(p)
    PROVE  Vault!Next
<1>1. /\ Presented(p) \in Held \cap live /\ Presented(p) \in Id
      /\ issued \in Nat /\ issued' = issued + 1 /\ issued < MaxTokens
      /\ live' = (live \ {Presented(p)}) \cup {Fresh(p)}
      /\ db' = db
      /\ call[p] # None /\ call[p].step = "refresh"
      /\ ~InFlight(p)
  BY DEF RefreshRotated, RefreshLost, Rotate, Honoured, Refreshing, Presented, At, Held,
         Cached, TypeOK, InFlight, UnsavedSteps, Src, Call, Pair
<1>2. Fresh(p) \in Issuable
  <2>1. Presented(p).grant <= issued /\ Presented(p).grant \in Nat
    BY <1>1 DEF GrantIInv, GrantInv, OnlyIssued, Id
  <2> QED BY <1>1, <2>1, ConstantsAssumption DEF Fresh, Issuable, Id
<1> PICK r \in Issuable : r = Fresh(p)
  BY <1>2
<1>3. r.grant = Presented(p).grant /\ r.n = issued + 1
  BY DEF Fresh
<1>4. \A t \in Flying : t.grant # r.grant
  BY <1>1, <1>3, HeldLiveGrantIsNotInFlight DEF Flying, Unsaved
<1>5. live' = {t \in live : t.grant # r.grant} \cup {r}
  BY <1>1, <1>3 DEF GrantIInv, GrantInv, OneLivePerGrant
<1>6. CASE RefreshRotated(p)
  <2>1. /\ call'[p] = [step |-> "persistRefresh", src |-> Src(p),
                       new |-> [access |-> r, refresh |-> r]]
        /\ \A q \in Callers \ {p} : call'[q] = call[q]
    BY <1>6 DEF RefreshRotated, Answered, TypeOK
  <2>2. call'[p] \in Call
    <3>1. r \in Id /\ Src(p) \in Sources
      BY <1>1, ConstantsAssumption DEF Issuable, Id, Src, TypeOK, Call
    <3> QED BY <2>1, <3>1 DEF Call, Steps, WriteSteps, Pair
  <2>3. Unsaved(p)' = {r} /\ Unsaved(p) = {}
    BY <1>1, <2>1, <2>2, ConstantsAssumption DEF Unsaved, InFlight, UnsavedSteps
  <2>4. \A q \in Callers \ {p} : Unsaved(q)' = Unsaved(q)
    BY <2>1 DEF Unsaved, InFlight
  <2>5. Flying' = Flying \cup {r}
    BY <2>3, <2>4 DEF Flying
  <2>6. dropped' = dropped
    BY <1>6 DEF RefreshRotated, history
  <2> QED BY <1>1, <1>3, <1>4, <1>5, <2>5, <2>6, IssueStep
<1>7. CASE RefreshLost(p)
  <2>1. call'[p] = None /\ \A q \in Callers \ {p} : call'[q] = call[q]
    BY <1>7 DEF RefreshLost, Return, TypeOK
  <2>2. \A q \in Callers : Unsaved(q)' = Unsaved(q)
    BY <1>1, <2>1 DEF Unsaved, InFlight
  <2>3. Flying' = Flying
    BY <2>2 DEF Flying
  <2>4. dropped' = dropped \cup {r}
    BY <1>7 DEF RefreshLost
  <2> QED BY <1>1, <1>3, <1>4, <1>5, <2>3, <2>4, IssueStep
<1> QED BY <1>6, <1>7

(* The first token of a grant is one to issue. *)
LEMMA FirstPairIsIssuable ==
    ASSUME TypeOK, GrantIInv, NEW c \in Characters, issued < MaxTokens
    PROVE  /\ FirstPair(c).refresh \in Issuable
           /\ \A t \in Held \cup Flying \cup live : t.grant # FirstPair(c).refresh.grant
           /\ FirstPair(c).refresh.n = issued + 1
<1>1. issued \in Nat /\ MaxTokens \in Nat
  BY ConstantsAssumption DEF TypeOK
<1>2. FirstPair(c).refresh = [who |-> c, grant |-> issued + 1, n |-> issued + 1]
  BY DEF FirstPair
<1>3. \A t \in Held \cup Flying \cup live : t.grant \in Nat /\ t.grant <= issued
  BY FirstPairIsNew
<1> QED BY <1>1, <1>2, <1>3 DEF Issuable

LEMMA AuthorizeKeepsVault ==
    ASSUME TypeOK, GrantIInv, NEW c \in Characters, Authorize(c)
    PROVE  Vault!Next
<1>1. issued < MaxTokens
  BY DEF Authorize
<1> PICK r \in Issuable : r = FirstPair(c).refresh
  BY <1>1, FirstPairIsIssuable
<1>2. r.n = issued + 1 /\ \A t \in Held \cup Flying \cup live : t.grant # r.grant
  BY <1>1, FirstPairIsIssuable
<1>3. live' = {t \in live : t.grant # r.grant} \cup {r}
  BY <1>2 DEF Authorize
<1>4. Flying' = Flying
  BY DEF Authorize, control, Flying, Unsaved, InFlight
<1>5. db \in Tables /\ FirstPair(c) \in Pair
  BY FirstPairIsNew DEF TypeOK, Tables
<1>6. /\ db'[c] # None /\ db'[c].refresh = r
      /\ \A d \in Characters \ {c} : db'[d] = db[d]
  BY <1>5, CreateCharacterRefresh DEF Authorize
<1>7. db[c] # None => db[c].refresh.grant # r.grant
  BY <1>2 DEF Held, Stored
<1>8. Vault!Put(c, r)
  BY <1>6, <1>7, PutStep DEF Authorize
<1> QED BY <1>2, <1>3, <1>4, <1>8, IssueStep

LEMMA CallSaveKeepsVault ==
    ASSUME TypeOK, GrantIInv, NEW p \in Callers, NEW s \in Sources, CallSave(p, s)
    PROVE  Vault!Next
<1> PICK c \in Saved[s] :
      /\ live' = live \cup {FirstPair(c).refresh}
      /\ call' = [call EXCEPT ![p] =
                    [step |-> "saveLock", src |-> s, new |-> FirstPair(c)]]
  BY DEF CallSave
<1>1. issued < MaxTokens /\ c \in Characters
  BY ConstantsAssumption DEF CallSave
<1> PICK r \in Issuable : r = FirstPair(c).refresh
  BY <1>1, FirstPairIsIssuable
<1>2. r.n = issued + 1 /\ \A t \in Held \cup Flying \cup live : t.grant # r.grant
  BY <1>1, FirstPairIsIssuable
<1>3. live' = {t \in live : t.grant # r.grant} \cup {r}
  BY <1>2
<1>4. /\ call[p] = None
      /\ call'[p] = [step |-> "saveLock", src |-> s, new |-> FirstPair(c)]
      /\ \A q \in Callers \ {p} : call'[q] = call[q]
  BY DEF CallSave, TypeOK
<1>5. call'[p] \in Call
  BY <1>1, <1>4, FirstPairIsNew DEF Call, Steps, WaitSteps
<1>6. Unsaved(p)' = {r} /\ Unsaved(p) = {}
  BY <1>4, <1>5, ConstantsAssumption DEF Unsaved, InFlight, UnsavedSteps
<1>7. \A q \in Callers \ {p} : Unsaved(q)' = Unsaved(q)
  BY <1>4 DEF Unsaved, InFlight
<1>8. Flying' = Flying \cup {r}
  BY <1>6, <1>7 DEF Flying
<1>9. db' = db /\ dropped' = dropped
  BY DEF CallSave, history
<1> QED BY <1>2, <1>3, <1>8, <1>9, IssueStep

LEMMA PersistRefreshKeepsVault ==
    ASSUME TypeOK, GrantIInv, NEW p \in Callers, PersistRefresh(p)
    PROVE  Vault!Next
<1>1. /\ call[p] # None /\ call[p].step = "persistRefresh" /\ InFlight(p)
      /\ db \in Tables /\ call[p].new.refresh \in Id
      /\ character[Src(p)] \in Handle /\ character[Src(p)].who \in Characters
  BY DEF PersistRefresh, At, InFlight, UnsavedSteps, TypeOK, Tables, Call, Pair, NewSteps,
         Src, Handle
<1>2. ~InFlight(p)' /\ \A q \in Callers \ {p} : call'[q] = call[q]
  BY <1>1 DEF PersistRefresh, Reported, Return, Goto, InFlight, UnsavedSteps, TypeOK, Call
<1>3. live' = live
  BY DEF PersistRefresh, sso
<1>4. CASE Names(character[Src(p)])
  <2> PICK c \in Characters : c = character[Src(p)].who
    BY <1>1
  <2>1. /\ db'[c] # None /\ db'[c].refresh = call[p].new.refresh
        /\ \A d \in Characters \ {c} : db'[d] = db[d]
    BY <1>1, <1>4, UpdateRefreshTokenRefresh DEF PersistRefresh
  <2>2. dropped' = dropped \cup Displaced(db')
    BY <1>4 DEF PersistRefresh
  <2> QED BY <1>1, <1>2, <1>3, <2>1, <2>2, SaveStep
<1>5. CASE ~Names(character[Src(p)])
  <2>1. db' = db
    BY <1>5 DEF PersistRefresh, UpdateRefreshToken
  <2>2. Displaced(db') = {}
    BY <2>1 DEF Displaced
  <2>3. dropped' = dropped \cup UNION {Unsaved(q) : q \in {p}}
    BY <1>5, <2>2 DEF PersistRefresh
  <2>4. {p} \in SUBSET Callers /\ \A q \in {p} : ~InFlight(q)'
    BY <1>2
  <2> QED BY <1>2, <1>3, <2>1, <2>3, <2>4, LoseStep
<1> QED BY <1>4, <1>5

LEMMA CreateKeepsVault ==
    ASSUME TypeOK, GrantIInv, NEW p \in Callers, Create(p)
    PROVE  Vault!Next
<1>1. /\ call[p] # None /\ call[p].step = "create" /\ InFlight(p)
      /\ db \in Tables /\ call[p].new \in Pair /\ call[p].new.access.who \in Characters
  BY DEF Create, At, InFlight, UnsavedSteps, TypeOK, Tables, Call, Pair, Id, NewSteps, Src
<1>2. ~InFlight(p)' /\ \A q \in Callers \ {p} : call'[q] = call[q]
  BY <1>1 DEF Create, Return, InFlight, TypeOK
<1> PICK c \in Characters : c = call[p].new.access.who
  BY <1>1
<1>3. /\ db'[c] # None /\ db'[c].refresh = call[p].new.refresh
      /\ \A d \in Characters \ {c} : db'[d] = db[d]
  BY <1>1, CreateCharacterRefresh DEF Create
<1>4. dropped' = dropped \cup Displaced(db') /\ live' = live
  BY DEF Create, sso
<1> QED BY <1>1, <1>2, <1>3, <1>4, SaveStep

LEMMA DeleteKeepsVault ==
    ASSUME TypeOK, GrantIInv, NEW c \in Characters, DeleteCharacter(c)
    PROVE  Vault!Next
<1>1. /\ db' = [db EXCEPT ![c] = None] /\ db[c] # None
      /\ UNCHANGED <<live, call>>
      /\ dropped' = dropped \cup Displaced(db')
  BY DEF DeleteCharacter, sso, control
<1>2. Displaced(db') = {db[c].refresh}
  BY <1>1 DEF Displaced, TypeOK
<1>3. db[c].refresh # None
  BY <1>1, ConstantsAssumption DEF TypeOK, Row
<1>4. /\ Refreshes' = [k \in Characters |-> IF k \in {c} THEN None ELSE Refreshes[k]]
      /\ {Refreshes[k] : k \in {j \in {c} : Refreshes[j] # None}} = {db[c].refresh}
  BY <1>1, <1>3 DEF Refreshes, TypeOK
<1>5. Flying' = Flying
  BY <1>1 DEF Flying, Unsaved, InFlight
<1>6. Vault!Erase({c})
  BY <1>1, <1>2, <1>4, <1>5 DEF Vault!Erase, Refreshes
<1> QED BY <1>6 DEF Vault!Next

-----------------------------------------------------------------------------
(* Every step.                                                             *)

(* A step of one call that moves no refresh token. *)
LEMMA QuietCall ==
    ASSUME TypeOK, NEW p \in Callers,
           ~InFlight(p), ~InFlight(p)',
           \A q \in Callers \ {p} : call'[q] = call[q],
           \A c \in Characters :
             /\ db'[c] # None <=> db[c] # None
             /\ db'[c] # None => db'[c].refresh = db[c].refresh,
           live' = live, dropped' = dropped
    PROVE  UNCHANGED Vault!vars
<1>1. \A q \in Callers : Unsaved(q)' = Unsaved(q)
  BY DEF Unsaved, InFlight
<1> QED BY <1>1, QuietStep

(* A call that ends without saving its token. *)
LEMMA LoseCall ==
    ASSUME TypeOK, GrantIInv, NEW p \in Callers, Return(p), db' = db, live' = live,
           dropped' = dropped \cup Unsaved(p)
    PROVE  Vault!Next
<1>1. {p} \in SUBSET Callers /\ \A q \in {p} : ~InFlight(q)'
  BY DEF Return, InFlight, TypeOK
<1>2. \A q \in Callers \ {p} : call'[q] = call[q]
  BY DEF Return, TypeOK
<1>3. dropped' = dropped \cup UNION {Unsaved(q) : q \in {p}}
  OBVIOUS
<1> QED BY <1>1, <1>2, <1>3, LoseStep

LEMMA VaultStep ==
    TypeOK /\ GrantIInv /\ [Next]_vars => [Vault!Next]_(Vault!vars)
<1> SUFFICES ASSUME TypeOK, GrantIInv, [Next]_vars
             PROVE  Vault!Next \/ UNCHANGED Vault!vars
  OBVIOUS
<1>0. /\ call \in [Callers -> Call \cup {None}] /\ db \in Tables
  BY DEF TypeOK, Tables
<1>1. ASSUME NEW p \in Callers, NEW s \in Sources, CallToken(p, s)
      PROVE  UNCHANGED Vault!vars
  BY <1>0, <1>1, QuietCall DEF CallToken, InFlight, UnsavedSteps, sso, history
<1>2. ASSUME NEW p \in Callers, Lock(p)
      PROVE  UNCHANGED Vault!vars
  <2>1. /\ call[p] # None /\ call[p].step \in WaitSteps
        /\ \A q \in Callers \ {p} : call'[q] = call[q]
        /\ UNCHANGED <<db, live, dropped>>
    BY <1>0, <1>2 DEF Lock, Goto, sso, history
  <2>2. PICK x \in Steps :
          /\ call' = [call EXCEPT ![p].step = x]
          /\ x \in UnsavedSteps <=> call[p].step \in UnsavedSteps
    <3>1. CASE call[p].step = "saveLock"
      BY <1>2, <3>1 DEF Lock, Goto, Steps, UnsavedSteps
    <3>2. CASE call[p].step = "lock"
      <4>1. FirstStep(Src(p)) \in {"refresh", "load", "find"}
        BY DEF FirstStep
      <4> QED BY <1>2, <3>2, <4>1 DEF Lock, Goto, Steps, UnsavedSteps
    <3> QED BY <2>1, <3>1, <3>2 DEF WaitSteps
  <2>3. call'[p] = [call[p] EXCEPT !.step = x] /\ call[p] \in Call /\ call'[p] \in Call
    BY <1>0, <2>1, <2>2 DEF Call
  <2>4. call'[p] # None /\ call'[p].new = call[p].new /\ call'[p].step = x
    BY <2>3, ConstantsAssumption DEF Call
  <2>5. \A q \in Callers : Unsaved(q)' = Unsaved(q)
    BY <2>1, <2>2, <2>4 DEF Unsaved, InFlight
  <2> QED BY <2>1, <2>5, QuietStep
<1>3. ASSUME NEW p \in Callers,
             \/ Find(p) \/ FindFails(p) \/ Load(p) \/ LoadFails(p) \/ UseCached(p)
             \/ RefreshKept(p) \/ RefreshUnreachable(p) \/ RefreshRefused(p)
             \/ Validate(p) \/ ValidateFails(p)
      PROVE  UNCHANGED Vault!vars
  <2>1. /\ call[p] # None /\ call[p].step \in {"find", "load", "refresh", "validate"}
        /\ UNCHANGED <<db, live, dropped>>
        /\ \A q \in Callers \ {p} : call'[q] = call[q]
    BY <1>0, <1>3 DEF Find, FindFails, Load, LoadFails, UseCached, RefreshKept,
       RefreshUnreachable, RefreshRefused, Validate, ValidateFails, Honoured, Refreshing,
       Answered, At, Goto, Return, sso, history
  <2>2. call'[p] # None =>
          call'[p].step \in {"load", "refresh", "validate", "deactivate", "persistAccess"}
    BY <1>0, <1>3 DEF Find, FindFails, Load, LoadFails, UseCached, RefreshKept,
       RefreshUnreachable, RefreshRefused, Validate, ValidateFails, Honoured, Refreshing,
       Answered, At, Goto, Return, Call
  <2>3. ~InFlight(p) /\ ~InFlight(p)'
    BY <2>1, <2>2 DEF InFlight, UnsavedSteps
  <2> QED BY <2>1, <2>3, QuietCall
<1>4. ASSUME NEW p \in Callers, Deactivate(p) \/ PersistAccess(p)
      PROVE  UNCHANGED Vault!vars
  <2>1. /\ ~InFlight(p) /\ ~InFlight(p)'
        /\ \A q \in Callers \ {p} : call'[q] = call[q]
        /\ UNCHANGED <<live, dropped>>
    BY <1>0, <1>4 DEF Deactivate, PersistAccess, At, Return, InFlight, UnsavedSteps, sso,
       history
  <2>2. \A c \in Characters :
          /\ db'[c] # None <=> db[c] # None
          /\ db'[c] # None => db'[c].refresh = db[c].refresh
    <3>1. CASE Deactivate(p)
      BY <1>0, <3>1, UpdateActiveStateRefresh DEF Deactivate, TypeOK, At, Src, Call
    <3>2. CASE PersistAccess(p)
      <4>1. call[p].new.access \in Id
        BY <1>0, <3>2 DEF PersistAccess, At, TypeOK, NewSteps, Call, Pair
      <4>2. character[Src(p)] \in Handle
        BY <1>0, <3>2 DEF PersistAccess, At, TypeOK, Src, Call
      <4> QED BY <1>0, <3>2, <4>1, <4>2, UpdateAccessTokenRefresh DEF PersistAccess
    <3> QED BY <1>4, <3>1, <3>2
  <2> QED BY <2>1, <2>2, QuietCall
<1>5. ASSUME NEW p \in Callers, SaveValidate(p)
      PROVE  UNCHANGED Vault!vars
  <2>1. /\ call[p] \in Call /\ call[p].step = "saveValidate"
        /\ call'[p] = [call[p] EXCEPT !.step = "create"]
        /\ \A q \in Callers \ {p} : call'[q] = call[q]
        /\ UNCHANGED <<db, live, dropped>>
    BY <1>0, <1>5 DEF SaveValidate, At, Goto, sso
  <2>2. call'[p] \in Call /\ call'[p].new = call[p].new /\ call'[p].step = "create"
    BY <2>1 DEF Call, Steps
  <2>3. \A q \in Callers : Unsaved(q)' = Unsaved(q)
    BY <2>1, <2>2, ConstantsAssumption DEF Unsaved, InFlight, UnsavedSteps
  <2> QED BY <2>1, <2>3, QuietStep
<1>6. ASSUME NEW p \in Callers, WriteAborted(p) \/ Panic(p) \/ SaveFails(p)
      PROVE  Vault!Next
  BY <1>6, LoseCall DEF WriteAborted, Panic, SaveFails, sso
<1>7. ASSUME NEW s \in Sources, Crash(s)
      PROVE  Vault!Next
  <2> DEFINE P == {q \in Callers : call[q] # None /\ call[q].src = s}
  <2>1. \A q \in P : ~InFlight(q)'
    BY <1>0, <1>7 DEF Crash, CallsOf, InFlight
  <2>2. \A q \in Callers \ P : call'[q] = call[q]
    BY <1>0, <1>7 DEF Crash, CallsOf
  <2>3. /\ UNCHANGED <<db, live>>
        /\ dropped' = dropped \cup UNION {Unsaved(p) : p \in P}
    BY <1>7 DEF Crash, CallsOf, sso
  <2> QED BY <2>1, <2>2, <2>3, LoseStep
<1>8. ASSUME NEW r \in live, Revoke(r)
      PROVE  Vault!Next
  <2>1. Flying' = Flying /\ Refreshes' = Refreshes
    BY <1>8 DEF Revoke, control, Flying, Unsaved, InFlight, Refreshes
  <2>2. Vault!Revoke(r)
    BY <1>8, <2>1 DEF Revoke, Vault!Revoke, Refreshes
  <2> QED BY <2>2 DEF Vault!Next
<1>9. ASSUME \/ \E s \in Sources : NewTokenSource(s)
             \/ \E s \in Sources, c \in Characters : CharacterSource(s, c)
             \/ \E a \in HeldAccess : Expire(a)
             \/ UNCHANGED vars
      PROVE  UNCHANGED Vault!vars
  <2>1. UNCHANGED <<db, live, call, dropped>>
    BY <1>9 DEF NewTokenSource, CharacterSource, Expire, vars, sso, control, history
  <2> QED BY <2>1, QuietStep DEF Unsaved, InFlight
<1>10. ASSUME NEW p \in Callers, NEW s \in Sources, CallSave(p, s)
       PROVE  Vault!Next
  BY <1>10, CallSaveKeepsVault
<1>11. ASSUME NEW p \in Callers,
              RefreshRotated(p) \/ RefreshLost(p) \/ PersistRefresh(p) \/ Create(p)
       PROVE  Vault!Next
  BY <1>11, RotatedKeepsVault, PersistRefreshKeepsVault, CreateKeepsVault
<1>12. ASSUME NEW c \in Characters, Authorize(c) \/ DeleteCharacter(c)
       PROVE  Vault!Next
  BY <1>12, AuthorizeKeepsVault, DeleteKeepsVault
<1> QED BY <1>1, <1>2, <1>3, <1>4, <1>5, <1>6, <1>7, <1>8, <1>9, <1>10, <1>11, <1>12
        DEF Next, Step

(* Token sources keep every refresh token as the vault promises: each step *)
(* of Token() and Save(), and each fault, is one of the vault's or none.   *)
THEOREM VaultIsKept == Spec => KeepsVault
<1>1. Init => Vault!Init
  BY DEF Init, Vault!Init, Flying, Unsaved, InFlight
<1>2. TypeOK /\ GrantIInv /\ [Next]_vars => [Vault!Next]_(Vault!vars)
  BY VaultStep
<1> QED BY <1>1, <1>2, GrantInvariant, PTL DEF Spec, KeepsVault, Vault!Spec
=============================================================================
