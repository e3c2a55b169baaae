------------------------- MODULE TokenSourceProofs -------------------------
(***************************************************************************)
(* Types, verified tokens, the sources' locks, and, as long as Save is not *)
(* used, whose the tokens are: theorems about TokenSource.                 *)
(***************************************************************************)
EXTENDS TokenSource, TLAPS

(* The statements on evesso.characters turn a table into a table. *)
Tables == [Characters -> Row \cup {None}]

LEMMA UpdateRefreshTokenType ==
    ASSUME db \in Tables, NEW h \in Handle \cup {None}, NEW t \in Id
    PROVE  UpdateRefreshToken(h, t) \in Tables
BY DEF Tables, UpdateRefreshToken, Names, Row

LEMMA UpdateAccessTokenType ==
    ASSUME db \in Tables, NEW h \in Handle \cup {None}, NEW t \in Id
    PROVE  UpdateAccessToken(h, t) \in Tables
BY DEF Tables, UpdateAccessToken, Names, Row

LEMMA UpdateActiveStateType ==
    ASSUME db \in Tables, NEW h \in Handle \cup {None}, NEW b \in BOOLEAN
    PROVE  UpdateActiveState(h, b) \in Tables
BY DEF Tables, UpdateActiveState, Names, Row

LEMMA CreateCharacterType ==
    ASSUME db \in Tables, NEW c \in Characters, NEW pair \in Pair
    PROVE  CreateCharacter(c, pair) \in Tables
BY DEF Tables, CreateCharacter, Row, Pair, Id

(* What a statement displaces was stored. *)
LEMMA DisplacedType ==
    ASSUME db \in Tables, NEW db2
    PROVE  Displaced(db2) \subseteq Id
BY DEF Tables, Displaced, Row

LEMMA MissedType ==
    ASSUME TypeOK, NEW p \in Callers
    PROVE  Missed(p) \subseteq Id
BY DEF TypeOK, Missed, Src, Call, Pair

(* The calls that an update can find itself overtaken in. *)
Writers == {q \in Callers : call[q] # None /\ call[q].step \in WriteSteps}

LEMMA UpdatingType ==
    ASSUME NEW c \in Characters
    PROVE  Updating(c) \subseteq Writers
BY DEF Updating, Writers

(* Its own update behind it, a call is no longer overtaken. *)
LEMMA OvertakeType ==
    ASSUME TypeOK, NEW p \in Callers, Overtake(p)
    PROVE  overtaken' \subseteq Writers \ {p}
BY DEF TypeOK, Overtake, Updating, Writers

(* A step by any action keeps the variables in their types. *)
LEMMA TypeStep == TypeOK /\ [Next]_vars => TypeOK'
<1> SUFFICES ASSUME TypeOK, [Next]_vars PROVE TypeOK'
  OBVIOUS
<1> USE ConstantsAssumption DEF TypeOK, Tables, sso, mem, control, history, At, Src, Goto, Return,
        Call, Steps, WaitSteps, WriteSteps, NewSteps
<1>1. ASSUME NEW p \in Callers, NEW s \in Sources, CallToken(p, s)
      PROVE  TypeOK'
  BY <1>1 DEF CallToken
<1>2. ASSUME NEW p \in Callers, NEW s \in Sources, CallSave(p, s)
      PROVE  TypeOK'
  BY <1>2 DEF CallSave, FirstPair, Id, Pair
<1>3. ASSUME NEW p \in Callers, Lock(p)
      PROVE  TypeOK'
  BY <1>3 DEF Lock, FirstStep
<1>4. ASSUME NEW p \in Callers, Find(p)
      PROVE  TypeOK'
  BY <1>4 DEF Find, Handle, Row, Matches
<1>5. ASSUME NEW p \in Callers, FindFails(p)
      PROVE  TypeOK'
  BY <1>5 DEF FindFails
<1>6. ASSUME NEW p \in Callers, Load(p)
      PROVE  TypeOK'
  <2>1. /\ Src(p) \in Sources
        /\ db[character[Src(p)].who] \in Row
    BY <1>6 DEF Load, Handle, Names
  <2> DEFINE pair == [access  |-> db[character[Src(p)].who].access,
                      refresh |-> db[character[Src(p)].who].refresh]
  <2>2. pair \in Pair
    BY <2>1 DEF Row, Pair
  <2>3. token' = [token EXCEPT ![Src(p)] = pair]
    BY <1>6 DEF Load
  <2> HIDE DEF pair
  <2>4. /\ call[p] # None /\ call[p].step = "load"
        /\ call' = [call EXCEPT ![p].step = "refresh"]
        /\ UNCHANGED <<db, overtaken, sso, character, lock, history>>
    BY <1>6 DEF Load
  <2> QED BY <2>1, <2>2, <2>3, <2>4
<1>7. ASSUME NEW p \in Callers, LoadFails(p)
      PROVE  TypeOK'
  BY <1>7 DEF LoadFails
<1>8. ASSUME NEW p \in Callers, UseCached(p)
      PROVE  TypeOK'
  BY <1>8 DEF UseCached
<1>9. ASSUME NEW p \in Callers, RefreshKept(p)
      PROVE  TypeOK'
  <2>1. Src(p) \in Sources /\ Presented(p) \in Id /\ issued' \in 0..MaxTokens
    BY <1>9 DEF RefreshKept, Honoured, Refreshing, Presented, Answered, Pair
  <2>2. Fresh(p) \in Id
    BY <2>1 DEF Fresh, Id
  <2>3. [access |-> Fresh(p), refresh |-> Presented(p)] \in Pair
    BY <2>1, <2>2 DEF Pair
  <2>4. call' \in [Callers -> Call \cup {None}]
    BY <1>9, <2>1, <2>3 DEF RefreshKept, Answered
  <2>5. overtaken' \subseteq Writers'
    BY <1>9 DEF RefreshKept, Answered, Honoured, Refreshing, Writers
  <2> QED BY <1>9, <2>1, <2>3, <2>4, <2>5 DEF RefreshKept, Answered, Writers
<1>10. ASSUME NEW p \in Callers, RefreshRotated(p)
      PROVE  TypeOK'
  <2>1. Src(p) \in Sources /\ Presented(p) \in Id /\ issued' \in 0..MaxTokens
    BY <1>10 DEF RefreshRotated, Honoured, Refreshing, Presented, Pair
  <2>2. Fresh(p) \in Id
    BY <2>1 DEF Fresh, Id
  <2>3. [access |-> Fresh(p), refresh |-> Fresh(p)] \in Pair
    BY <2>2 DEF Pair
  <2>4. call' \in [Callers -> Call \cup {None}]
    BY <1>10, <2>1, <2>3 DEF RefreshRotated, Answered
  <2>5. live' \subseteq Id
    BY <1>10, <2>2 DEF RefreshRotated, Rotate
  <2> QED BY <1>10, <2>1, <2>3, <2>4, <2>5 DEF RefreshRotated, Answered
<1>11. ASSUME NEW p \in Callers, RefreshLost(p)
      PROVE  TypeOK'
  <2>1. Presented(p) \in Id /\ issued' \in 0..MaxTokens
    BY <1>11 DEF RefreshLost, Honoured, Refreshing, Presented, Rotate, Pair
  <2>2. Fresh(p) \in Id
    BY <2>1 DEF Fresh, Id
  <2>3. live' \subseteq Id /\ dropped' \subseteq Id
    BY <1>11, <2>2 DEF RefreshLost, Rotate
  <2>4. missed' \subseteq Id
    BY <1>11, <2>1 DEF RefreshLost
  <2>5. overtaken' \subseteq Writers'
    BY <1>11 DEF RefreshLost, Honoured, Refreshing, Writers
  <2> QED BY <1>11, <2>1, <2>3, <2>4, <2>5 DEF RefreshLost, Rotate, Writers
<1>12. ASSUME NEW p \in Callers, RefreshUnreachable(p)
      PROVE  TypeOK'
  BY <1>12 DEF RefreshUnreachable, Refreshing
<1>13. ASSUME NEW p \in Callers, RefreshRefused(p)
      PROVE  TypeOK'
  BY <1>13 DEF RefreshRefused, Refreshing
<1>14. ASSUME NEW p \in Callers, Deactivate(p)
      PROVE  TypeOK'
  <2>1. db' \in Tables
    BY <1>14, UpdateActiveStateType DEF Deactivate
  <2>2. overtaken' \subseteq Writers'
    BY <1>14, OvertakeType DEF Deactivate, Writers
  <2> QED BY <1>14, <2>1, <2>2 DEF Deactivate, Writers
<1>15. ASSUME NEW p \in Callers, PersistRefresh(p)
      PROVE  TypeOK'
  <2>1. call[p].new \in Pair
    BY <1>15 DEF PersistRefresh
  <2>2. db' \in Tables
    BY <1>15, <2>1, UpdateRefreshTokenType DEF PersistRefresh, Pair
  <2>3. dropped' \subseteq Id
    BY <1>15, <2>1, DisplacedType DEF PersistRefresh, Unsaved, InFlight, Pair
  <2>4. missed' \subseteq Id
    BY <1>15, MissedType DEF PersistRefresh, Reported
  <2>5. overtaken' \subseteq Writers'
    BY <1>15, OvertakeType DEF PersistRefresh, Reported, Writers
  <2>6. /\ call' \in [Callers -> Call \cup {None}] /\ lock' \in [Sources -> Callers \cup {None}]
        /\ \A q \in Callers :
             /\ call'[q] # None => (call'[q].new # None <=> call'[q].step \in NewSteps)
             /\ call'[q] # None /\ call'[q].step = "refresh" => token[call'[q].src] # None
    BY <1>15 DEF PersistRefresh, Reported
  <2> QED BY <1>15, <2>1, <2>2, <2>3, <2>4, <2>5, <2>6 DEF PersistRefresh, Writers
<1>16. ASSUME NEW p \in Callers, Validate(p)
      PROVE  TypeOK'
  BY <1>16 DEF Validate, Pair
<1>17. ASSUME NEW p \in Callers, ValidateFails(p)
      PROVE  TypeOK'
  BY <1>17, MissedType DEF ValidateFails
<1>18. ASSUME NEW p \in Callers, PersistAccess(p)
      PROVE  TypeOK'
  <2>1. call[p].new \in Pair
    BY <1>18 DEF PersistAccess
  <2>2. db' \in Tables
    BY <1>18, <2>1, UpdateAccessTokenType DEF PersistAccess, Pair
  <2>3. missed' \subseteq Id
    BY <1>18, MissedType DEF PersistAccess
  <2>4. overtaken' \subseteq Writers'
    BY <1>18, OvertakeType DEF PersistAccess, Writers
  <2> QED BY <1>18, <2>1, <2>2, <2>3, <2>4 DEF PersistAccess, Writers
<1>19. ASSUME NEW p \in Callers, WriteAborted(p)
      PROVE  TypeOK'
  BY <1>19, MissedType DEF WriteAborted, Unsaved, InFlight, Pair, UnsavedSteps
<1>20. ASSUME NEW p \in Callers, Panic(p)
      PROVE  TypeOK'
  BY <1>20, MissedType DEF Panic, Unsaved, InFlight, Pair, UnsavedSteps
<1>21. ASSUME NEW p \in Callers, SaveValidate(p)
      PROVE  TypeOK'
  BY <1>21 DEF SaveValidate, Pair
<1>22. ASSUME NEW p \in Callers, SaveFails(p)
      PROVE  TypeOK'
  BY <1>22 DEF SaveFails, Unsaved, InFlight, Pair, UnsavedSteps
<1>23. ASSUME NEW p \in Callers, Create(p)
      PROVE  TypeOK'
  <2>1. call[p].new \in Pair /\ call[p].new.access.who \in Characters
    BY <1>23 DEF Create, Pair, Id
  <2>2. db' \in Tables
    BY <1>23, <2>1, CreateCharacterType DEF Create
  <2>3. dropped' \subseteq Id
    BY <1>23, DisplacedType DEF Create
  <2>4. overtaken' \subseteq Writers'
    BY <1>23, <2>1, UpdatingType DEF Create, Writers
  <2> QED BY <1>23, <2>1, <2>2, <2>3, <2>4 DEF Create, Writers
<1>24. ASSUME NEW s \in Sources, NewTokenSource(s)
      PROVE  TypeOK'
  BY <1>24 DEF NewTokenSource, InUse
<1>25. ASSUME NEW s \in Sources, NEW c \in Characters, CharacterSource(s, c)
      PROVE  TypeOK'
  BY <1>25 DEF CharacterSource, InUse, Handle, Row
<1>26. ASSUME NEW s \in Sources, Crash(s)
      PROVE  TypeOK'
  <2>1. dropped' \subseteq Id
    BY <1>26 DEF Crash, CallsOf, Unsaved, InFlight, UnsavedSteps, Pair
  <2>2. missed' \subseteq Id
    BY <1>26, MissedType DEF Crash, CallsOf
  <2>3. overtaken' \subseteq Writers'
    BY <1>26 DEF Crash, CallsOf, Writers
  <2> QED BY <1>26, <2>1, <2>2, <2>3 DEF Crash, CallsOf, Writers
<1>27. ASSUME NEW c \in Characters, Authorize(c)
      PROVE  TypeOK'
  <2>1. FirstPair(c) \in Pair
    BY DEF FirstPair, Pair, Id
  <2>2. db' \in Tables
    BY <1>27, <2>1, CreateCharacterType DEF Authorize
  <2>3. dropped' \subseteq Id
    BY <1>27, DisplacedType DEF Authorize
  <2>4. overtaken' \subseteq Writers'
    BY <1>27, UpdatingType DEF Authorize, Writers
  <2> QED BY <1>27, <2>1, <2>2, <2>3, <2>4 DEF Authorize, Pair, Writers
<1>28. ASSUME NEW c \in Characters, DeleteCharacter(c)
      PROVE  TypeOK'
  <2>1. overtaken' \subseteq Writers'
    BY <1>28, UpdatingType DEF DeleteCharacter, Writers
  <2> QED BY <1>28, <2>1, DisplacedType DEF DeleteCharacter, Writers
<1>29. ASSUME NEW r \in live, Revoke(r)
      PROVE  TypeOK'
  BY <1>29 DEF Revoke, Id
<1>30. ASSUME NEW a \in HeldAccess, Expire(a)
      PROVE  TypeOK'
  BY <1>30 DEF Expire, HeldAccess, Row, Pair
<1>31. ASSUME UNCHANGED vars
      PROVE  TypeOK'
  BY <1>31 DEF vars
<1> QED
  BY <1>1, <1>2, <1>3, <1>4, <1>5, <1>6, <1>7, <1>8, <1>9, <1>10, <1>11, <1>12, <1>13, <1>14, <1>15, <1>16, <1>17, <1>18, <1>19, <1>20, <1>21, <1>22, <1>23, <1>24, <1>25, <1>26, <1>27, <1>28, <1>29, <1>30, <1>31 DEF Next, Step

(* The type invariant of every behaviour. *)
THEOREM TypeCorrect == Spec => []TypeOK
<1>1. Init => TypeOK
  BY ConstantsAssumption DEF Init, TypeOK, At
<1>2. TypeOK /\ [Next]_vars => TypeOK'
  BY TypeStep
<1> QED BY <1>1, <1>2, PTL DEF Spec

-----------------------------------------------------------------------------
(* Only verified access tokens are stored, cached or about to be.          *)

(* VerifiedTokens and the two points at which a call is about to store the *)
(* access token it carries.                                                *)
VerifiedInv ==
    /\ VerifiedTokens
    /\ \A p \in Callers :
         call[p] # None /\ call[p].step \in {"persistAccess", "create"}
           => call[p].new.access \in verified

(* What the access column holds after each statement. *)
LEMMA UpdateRefreshTokenAccess ==
    ASSUME db \in Tables, NEW h \in Handle \cup {None}, NEW t \in Id,
           NEW c \in Characters, UpdateRefreshToken(h, t)[c] # None
    PROVE  db[c] # None /\ UpdateRefreshToken(h, t)[c].access = db[c].access
BY ConstantsAssumption DEF Tables, UpdateRefreshToken, Names, Row

LEMMA UpdateActiveStateAccess ==
    ASSUME db \in Tables, NEW h \in Handle \cup {None}, NEW b \in BOOLEAN,
           NEW c \in Characters, UpdateActiveState(h, b)[c] # None
    PROVE  db[c] # None /\ UpdateActiveState(h, b)[c].access = db[c].access
BY ConstantsAssumption DEF Tables, UpdateActiveState, Names, Row

LEMMA UpdateAccessTokenAccess ==
    ASSUME db \in Tables, NEW h \in Handle \cup {None}, NEW t \in Id,
           NEW c \in Characters, UpdateAccessToken(h, t)[c] # None
    PROVE  /\ db[c] # None
           /\ UpdateAccessToken(h, t)[c].access \in {t, db[c].access}
BY ConstantsAssumption DEF Tables, UpdateAccessToken, Names, Row

LEMMA CreateCharacterAccess ==
    ASSUME db \in Tables, NEW d \in Characters, NEW pair \in Pair,
           NEW c \in Characters, CreateCharacter(d, pair)[c] # None
    PROVE  \/ CreateCharacter(d, pair)[c].access = pair.access
           \/ db[c] # None /\ CreateCharacter(d, pair)[c].access = db[c].access
BY ConstantsAssumption DEF Tables, CreateCharacter, Row

LEMMA VerifiedStep == TypeOK /\ VerifiedInv /\ [Next]_vars => VerifiedInv'
<1> SUFFICES ASSUME TypeOK, VerifiedInv, [Next]_vars PROVE VerifiedInv'
  OBVIOUS
<1> USE ConstantsAssumption DEF TypeOK, Tables, VerifiedInv, VerifiedTokens,
        sso, mem, control, history, At, Src, Goto, Return, Call
<1>1. ASSUME NEW p \in Callers, NEW s \in Sources, CallToken(p, s)
      PROVE  VerifiedInv'
  BY <1>1 DEF CallToken
<1>2. ASSUME NEW p \in Callers, NEW s \in Sources, CallSave(p, s)
      PROVE  VerifiedInv'
  BY <1>2 DEF CallSave
<1>3. ASSUME NEW p \in Callers, Lock(p)
      PROVE  VerifiedInv'
  BY <1>3 DEF Lock, FirstStep
<1>4. ASSUME NEW p \in Callers, Load(p)
      PROVE  VerifiedInv'
  <2>1. /\ Src(p) \in Sources /\ character[Src(p)].who \in Characters
        /\ db[character[Src(p)].who] # None
    BY <1>4 DEF Load, Handle, Names
  <2> DEFINE pair == [access  |-> db[character[Src(p)].who].access,
                      refresh |-> db[character[Src(p)].who].refresh]
  <2>2. pair.access \in verified
    BY <2>1
  <2>3. /\ token' = [token EXCEPT ![Src(p)] = pair]
        /\ call[p] # None /\ call[p].step = "load"
        /\ call' = [call EXCEPT ![p].step = "refresh"]
        /\ UNCHANGED <<db, sso, character, lock, history>>
    BY <1>4 DEF Load
  <2> HIDE DEF pair
  <2> QED BY <2>1, <2>2, <2>3
<1>5. ASSUME NEW p \in Callers, Find(p)
      PROVE  VerifiedInv'
  BY <1>5 DEF Find
<1>6. ASSUME NEW p \in Callers, FindFails(p)
      PROVE  VerifiedInv'
  BY <1>6 DEF FindFails
<1>7. ASSUME NEW p \in Callers, LoadFails(p)
      PROVE  VerifiedInv'
  BY <1>7 DEF LoadFails
<1>8. ASSUME NEW p \in Callers, UseCached(p)
      PROVE  VerifiedInv'
  BY <1>8 DEF UseCached
<1>9. ASSUME NEW p \in Callers, RefreshKept(p)
      PROVE  VerifiedInv'
  BY <1>9 DEF RefreshKept, Honoured, Refreshing, Answered
<1>10. ASSUME NEW p \in Callers, RefreshRotated(p)
      PROVE  VerifiedInv'
  BY <1>10 DEF RefreshRotated, Honoured, Refreshing, Answered
<1>11. ASSUME NEW p \in Callers, RefreshLost(p)
      PROVE  VerifiedInv'
  BY <1>11 DEF RefreshLost
<1>12. ASSUME NEW p \in Callers, RefreshUnreachable(p)
      PROVE  VerifiedInv'
  BY <1>12 DEF RefreshUnreachable
<1>13. ASSUME NEW p \in Callers, RefreshRefused(p)
      PROVE  VerifiedInv'
  BY <1>13 DEF RefreshRefused
<1>14. ASSUME NEW p \in Callers, ValidateFails(p)
      PROVE  VerifiedInv'
  BY <1>14 DEF ValidateFails
<1>15. ASSUME NEW p \in Callers, Validate(p)
      PROVE  VerifiedInv'
  BY <1>15 DEF Validate
<1>16. ASSUME NEW p \in Callers, WriteAborted(p)
      PROVE  VerifiedInv'
  BY <1>16 DEF WriteAborted
<1>17. ASSUME NEW p \in Callers, Panic(p)
      PROVE  VerifiedInv'
  BY <1>17 DEF Panic
<1>18. ASSUME NEW p \in Callers, SaveValidate(p)
      PROVE  VerifiedInv'
  BY <1>18 DEF SaveValidate
<1>19. ASSUME NEW p \in Callers, SaveFails(p)
      PROVE  VerifiedInv'
  BY <1>19 DEF SaveFails
<1>20. ASSUME NEW p \in Callers, Deactivate(p)
      PROVE  VerifiedInv'
  <2>1. ASSUME NEW c \in Characters, db'[c] # None
        PROVE  db[c] # None /\ db'[c].access = db[c].access
    BY <1>20, <2>1, UpdateActiveStateAccess DEF Deactivate
  <2> QED BY <1>20, <2>1 DEF Deactivate
<1>21. ASSUME NEW p \in Callers, PersistRefresh(p)
      PROVE  VerifiedInv'
  <2>1. call[p].new.refresh \in Id
    BY <1>21 DEF PersistRefresh, Pair, NewSteps
  <2>2. ASSUME NEW c \in Characters, db'[c] # None
        PROVE  db[c] # None /\ db'[c].access = db[c].access
    BY <1>21, <2>1, <2>2, UpdateRefreshTokenAccess DEF PersistRefresh
  <2>3. /\ UNCHANGED <<token, verified>>
        /\ \/ call' = [call EXCEPT ![p].step = "validate"]
           \/ call' = [call EXCEPT ![p] = None]
    BY <1>21 DEF PersistRefresh, Reported
  <2>4. \A c \in Characters : db'[c] # None => db'[c].access \in verified'
    BY <2>2, <2>3
  <2>5. \A q \in Callers :
          call'[q] # None /\ call'[q].step \in {"persistAccess", "create"}
            => call'[q].new.access \in verified'
    <3>1. ASSUME NEW q \in Callers \ {p}
          PROVE  call'[q] = call[q]
      BY <2>3
    <3>2. call'[p] = None \/ call'[p].step = "validate"
      BY <1>21, <2>3 DEF PersistRefresh, TypeOK, Call
    <3> QED BY <2>3, <3>1, <3>2
  <2> QED BY <2>3, <2>4, <2>5
<1>22. ASSUME NEW p \in Callers, PersistAccess(p)
      PROVE  VerifiedInv'
  <2>1. call[p].new.access \in Id /\ call[p].new.access \in verified
    BY <1>22 DEF PersistAccess, Pair, NewSteps
  <2>2. ASSUME NEW c \in Characters, db'[c] # None
        PROVE  db[c] # None /\ db'[c].access \in {call[p].new.access, db[c].access}
    BY <1>22, <2>1, <2>2, UpdateAccessTokenAccess DEF PersistAccess
  <2> QED BY <1>22, <2>1, <2>2 DEF PersistAccess
<1>23. ASSUME NEW p \in Callers, Create(p)
      PROVE  VerifiedInv'
  <2>1. /\ call[p].new \in Pair
        /\ call[p].new.access.who \in Characters
        /\ call[p].new.access \in verified
    BY <1>23 DEF Create, Pair, Id, NewSteps
  <2>2. ASSUME NEW c \in Characters, db'[c] # None
        PROVE  db'[c].access \in verified
    BY <1>23, <2>1, <2>2, CreateCharacterAccess DEF Create
  <2>3. /\ UNCHANGED verified /\ call' = [call EXCEPT ![p] = None]
        /\ token' = [token EXCEPT ![Src(p)] = call[p].new] \/ UNCHANGED token
    BY <1>23 DEF Create
  <2>4. \A s \in Sources : token'[s] # None => token'[s].access \in verified
    BY <2>1, <2>3
  <2> QED BY <2>2, <2>3, <2>4
<1>24. ASSUME NEW s \in Sources, NewTokenSource(s)
      PROVE  VerifiedInv'
  BY <1>24 DEF NewTokenSource
<1>25. ASSUME NEW s \in Sources, NEW c \in Characters, CharacterSource(s, c)
      PROVE  VerifiedInv'
  BY <1>25 DEF CharacterSource
<1>26. ASSUME NEW s \in Sources, Crash(s)
      PROVE  VerifiedInv'
  BY <1>26 DEF Crash
<1>27. ASSUME NEW c \in Characters, Authorize(c)
      PROVE  VerifiedInv'
  <2>1. FirstPair(c) \in Pair
    BY DEF FirstPair, Pair, Id
  <2>2. ASSUME NEW d \in Characters, db'[d] # None
        PROVE  db'[d].access \in verified'
    BY <1>27, <2>1, <2>2, CreateCharacterAccess DEF Authorize
  <2> QED BY <1>27, <2>2 DEF Authorize
<1>28. ASSUME NEW c \in Characters, DeleteCharacter(c)
      PROVE  VerifiedInv'
  BY <1>28 DEF DeleteCharacter
<1>29. ASSUME NEW r \in live, Revoke(r)
      PROVE  VerifiedInv'
  BY <1>29 DEF Revoke
<1>30. ASSUME NEW a \in HeldAccess, Expire(a)
      PROVE  VerifiedInv'
  BY <1>30 DEF Expire
<1>31. ASSUME UNCHANGED vars
      PROVE  VerifiedInv'
  BY <1>31 DEF vars
<1> QED
  BY <1>1, <1>2, <1>3, <1>4, <1>5, <1>6, <1>7, <1>8, <1>9, <1>10, <1>11, <1>12, <1>13, <1>14, <1>15, <1>16, <1>17, <1>18, <1>19, <1>20, <1>21, <1>22, <1>23, <1>24, <1>25, <1>26, <1>27, <1>28, <1>29, <1>30, <1>31 DEF Next, Step

(* An access token is stored, or handed out from a cache, only after       *)
(* validateAccessToken has accepted it.                                    *)
THEOREM OnlyVerifiedTokens == Spec => []VerifiedTokens
<1>1. Init => VerifiedInv
  BY DEF Init, VerifiedInv, VerifiedTokens
<1>2. TypeOK /\ VerifiedInv /\ [Next]_vars => VerifiedInv'
  BY VerifiedStep
<1>3. VerifiedInv => VerifiedTokens
  BY DEF VerifiedInv
<1> QED BY <1>1, <1>2, <1>3, TypeCorrect, PTL DEF Spec

-----------------------------------------------------------------------------
(* One caller of a source at a time is past its lock.                      *)

LockInv ==
    \A p \in Callers :
        call[p] # None /\ call[p].step \notin WaitSteps => lock[Src(p)] = p

(* A step of a call leaves the others alone, and ends it or keeps it. *)
LEMMA StepShape ==
    ASSUME TypeOK, NEW p \in Callers, Step(p)
    PROVE  /\ call[p] # None /\ call[p].step \notin WaitSteps
           /\ \A q \in Callers \ {p} : call'[q] = call[q]
           /\ \/ call'[p] = None /\ lock' = [lock EXCEPT ![Src(p)] = None]
              \/ call'[p].src = call[p].src /\ UNCHANGED lock
<1>1. /\ call \in [Callers -> Call \cup {None}]
      /\ call[p] # None => call[p] = [step |-> call[p].step, src |-> call[p].src, new |-> call[p].new]
    BY DEF TypeOK, Call
<1>2. ASSUME NEW x, Goto(p, x), call[p] # None
      PROVE  call'[p].src = call[p].src /\ \A q \in Callers \ {p} : call'[q] = call[q]
    BY <1>1, <1>2 DEF Goto
<1>3. ASSUME Return(p)
      PROVE  /\ call'[p] = None /\ \A q \in Callers \ {p} : call'[q] = call[q]
             /\ lock' = [lock EXCEPT ![Src(p)] = None]
    BY <1>1, <1>3 DEF Return
<1>4. ASSUME NEW x, NEW y, Answered(p, x, y)
      PROVE  call'[p].src = call[p].src /\ \A q \in Callers \ {p} : call'[q] = call[q]
    BY <1>1, <1>4 DEF Answered, Src
<1>5. CASE Find(p) \/ Load(p) \/ RefreshRefused(p) \/ Validate(p) \/ SaveValidate(p)
    BY <1>2, <1>5 DEF Find, Load, RefreshRefused, Refreshing, Validate, SaveValidate, At, WaitSteps
<1>6. CASE RefreshKept(p) \/ RefreshRotated(p)
    BY <1>4, <1>6 DEF RefreshKept, RefreshRotated, Honoured, Refreshing, At, WaitSteps
<1>7. CASE PersistRefresh(p)
    BY <1>2, <1>3, <1>7 DEF PersistRefresh, Reported, At, WaitSteps
<1>8. CASE \/ FindFails(p) \/ LoadFails(p) \/ UseCached(p) \/ RefreshLost(p)
           \/ RefreshUnreachable(p) \/ Deactivate(p) \/ ValidateFails(p) \/ PersistAccess(p)
           \/ WriteAborted(p) \/ Panic(p) \/ SaveFails(p) \/ Create(p)
  <2>1. Return(p)
    BY <1>8 DEF FindFails, LoadFails, UseCached, RefreshLost, RefreshUnreachable, Deactivate,
            ValidateFails, PersistAccess, WriteAborted, Panic, SaveFails, Create
  <2>2. call[p] # None /\ call[p].step \notin WaitSteps
    BY <1>8 DEF FindFails, LoadFails, UseCached, RefreshLost, RefreshUnreachable, Deactivate,
            ValidateFails, PersistAccess, WriteAborted, Panic, SaveFails, Create, Honoured,
            Refreshing, At, WaitSteps, WriteSteps
  <2> QED BY <1>3, <2>1, <2>2
<1> QED BY <1>5, <1>6, <1>7, <1>8 DEF Step

LEMMA LockNext == TypeOK /\ LockInv /\ [Next]_vars => LockInv'
<1> SUFFICES ASSUME TypeOK, LockInv, [Next]_vars PROVE LockInv'
    OBVIOUS
<1> USE ConstantsAssumption
<1>0. /\ call \in [Callers -> Call \cup {None}] /\ lock \in [Sources -> Callers \cup {None}]
      /\ \A q \in Callers : call[q] # None => call[q].src \in Sources
    BY DEF TypeOK, Call
<1>1. ASSUME NEW p \in Callers, NEW s \in Sources, CallToken(p, s) \/ CallSave(p, s) PROVE LockInv'
    BY <1>0, <1>1 DEF CallToken, CallSave, LockInv, Src, WaitSteps
<1>2. ASSUME NEW p \in Callers, Lock(p) PROVE LockInv'
  <2>1. /\ call[p] # None /\ lock[Src(p)] = None /\ lock' = [lock EXCEPT ![Src(p)] = p]
        /\ call'[p].src = call[p].src
        /\ \A q \in Callers \ {p} : call'[q] = call[q]
    BY <1>0, <1>2 DEF Lock, Goto, Call
  <2> QED BY <1>0, <2>1 DEF LockInv, Src
<1>3. ASSUME NEW p \in Callers, Step(p) PROVE LockInv'
  <2>1. /\ call[p] # None /\ lock[Src(p)] = p
        /\ \A q \in Callers \ {p} : call'[q] = call[q]
        /\ \/ call'[p] = None /\ lock' = [lock EXCEPT ![Src(p)] = None]
           \/ call'[p].src = call[p].src /\ UNCHANGED lock
    BY <1>3, StepShape DEF LockInv
  <2> QED BY <1>0, <2>1 DEF LockInv, Src
<1>4. ASSUME NEW s \in Sources, Crash(s) PROVE LockInv'
    BY <1>0, <1>4 DEF Crash, CallsOf, LockInv, Src
<1>5. CASE UNCHANGED <<call, lock>>
    BY <1>5 DEF LockInv, Src
<1>6. ASSUME NEW s \in Sources,
             NewTokenSource(s) \/ \E c \in Characters : CharacterSource(s, c)
      PROVE  LockInv'
    BY <1>5, <1>6 DEF NewTokenSource, CharacterSource, control
<1>7. ASSUME NEW c \in Characters, Authorize(c) \/ DeleteCharacter(c) PROVE LockInv'
    BY <1>5, <1>7 DEF Authorize, DeleteCharacter, control
<1>8. CASE (\E r \in live : Revoke(r)) \/ (\E a \in HeldAccess : Expire(a)) \/ UNCHANGED vars
    BY <1>5, <1>8 DEF Revoke, Expire, control, vars
<1> QED BY <1>1, <1>2, <1>3, <1>4, <1>6, <1>7, <1>8 DEF Next

LEMMA LockInvariant == Spec => [](TypeOK /\ LockInv)
<1>1. Init => LockInv
    BY DEF Init, LockInv
<1> QED BY <1>1, LockNext, TypeCorrect, PTL DEF Spec

(* o.Lock() works: of the callers of one source at most one is past it,    *)
(* however calls end, a panic and a crash included.                        *)
OneCallPastLock ==
    \A p, q \in Callers :
        /\ call[p] # None /\ call[p].step \notin WaitSteps
        /\ call[q] # None /\ call[q].step \notin WaitSteps
        /\ Src(p) = Src(q)
        => p = q

THEOREM CallsAreSerial == Spec => []OneCallPastLock
<1>1. LockInv => OneCallPastLock
    BY DEF LockInv, OneCallPastLock
<1> QED BY <1>1, LockInvariant, PTL

(* A call past the lock ends, or goes on past it. *)
LEMMA StepKeepsPlace ==
    ASSUME TypeOK, NEW p \in Callers, Step(p)
    PROVE  \/ call'[p] = None /\ lock' = [lock EXCEPT ![Src(p)] = None]
           \/ /\ call'[p] # None /\ call'[p].step \notin WaitSteps
              /\ call'[p].src = call[p].src /\ UNCHANGED lock
<1>1. call \in [Callers -> Call \cup {None}]
    BY DEF TypeOK
<1>2. call[p] # None /\ call[p] \in Call
    BY <1>1, StepShape
<1>3. ASSUME NEW c \in Call, c.step \notin WaitSteps, c.src = call[p].src,
             call' = [call EXCEPT ![p] = c]
      PROVE  call'[p] # None /\ call'[p].step \notin WaitSteps /\ call'[p].src = call[p].src
    BY <1>1, <1>3, ConstantsAssumption
<1>4. ASSUME NEW x \in Steps \ WaitSteps, Goto(p, x)
      PROVE  call'[p] # None /\ call'[p].step \notin WaitSteps /\ call'[p].src = call[p].src
  <2>1. /\ [call[p] EXCEPT !.step = x] \in Call
        /\ [call[p] EXCEPT !.step = x].step = x
        /\ [call[p] EXCEPT !.step = x].src = call[p].src
    BY <1>2 DEF Call
  <2> QED BY <1>3, <1>4, <2>1 DEF Goto
<1>5. ASSUME NEW x \in Steps \ WaitSteps, NEW y \in Pair, Answered(p, x, y)
      PROVE  call'[p] # None /\ call'[p].step \notin WaitSteps /\ call'[p].src = call[p].src
  <2>1. [step |-> x, src |-> Src(p), new |-> y] \in Call
    BY <1>2 DEF Call, Src
  <2> QED BY <1>3, <1>5, <2>1 DEF Answered, Src
<1>6. CASE Find(p) \/ Load(p) \/ RefreshRefused(p) \/ Validate(p) \/ SaveValidate(p)
  <2>1. PICK x \in Steps \ WaitSteps : Goto(p, x)
    BY <1>6 DEF Find, Load, RefreshRefused, Validate, SaveValidate, Steps, WaitSteps, WriteSteps
  <2>2. UNCHANGED lock
    BY <1>6 DEF Find, Load, RefreshRefused, Validate, SaveValidate
  <2> QED BY <1>4, <2>1, <2>2
<1>7. CASE RefreshKept(p) \/ RefreshRotated(p)
  <2>1. Presented(p) \in Id /\ issued \in Nat /\ UNCHANGED lock
    BY <1>2, <1>7 DEF RefreshKept, RefreshRotated, Honoured, Refreshing, At, Presented, TypeOK,
            Call, Src, Pair
  <2>2. Fresh(p) \in Id
    BY <2>1 DEF Fresh, Id
  <2>3. \E x \in Steps \ WaitSteps, y \in Pair : Answered(p, x, y)
    BY <1>7, <2>1, <2>2 DEF RefreshKept, RefreshRotated, Steps, WaitSteps, WriteSteps, Pair
  <2> QED BY <1>5, <2>1, <2>3
<1>8. CASE PersistRefresh(p)
  <2>1. CASE Goto(p, "validate") /\ UNCHANGED lock
    BY <1>4, <2>1 DEF Steps, WaitSteps
  <2>2. CASE Return(p)
    BY <1>1, <2>2 DEF Return
  <2> QED BY <1>8, <2>1, <2>2 DEF PersistRefresh, Reported
<1>9. CASE \/ FindFails(p) \/ LoadFails(p) \/ UseCached(p) \/ RefreshLost(p)
           \/ RefreshUnreachable(p) \/ Deactivate(p) \/ ValidateFails(p) \/ PersistAccess(p)
           \/ WriteAborted(p) \/ Panic(p) \/ SaveFails(p) \/ Create(p)
  <2>1. Return(p)
    BY <1>9 DEF FindFails, LoadFails, UseCached, RefreshLost, RefreshUnreachable, Deactivate,
            ValidateFails, PersistAccess, WriteAborted, Panic, SaveFails, Create
  <2> QED BY <1>1, <2>1 DEF Return
<1> QED BY <1>6, <1>7, <1>8, <1>9 DEF Step

(* A lock that is held is held by a call under way that has got past it:   *)
(* no return, no error and no panic leaves o.Lock() taken (token.go:117),  *)
(* which is what the liveness property CallsReturn rests on.               *)
LocksAreInUse ==
    \A s \in Sources : lock[s] # None =>
        /\ call[lock[s]] # None
        /\ call[lock[s]].step \notin WaitSteps
        /\ Src(lock[s]) = s

LEMMA InUseNext == TypeOK /\ LocksAreInUse /\ [Next]_vars => LocksAreInUse'
<1> SUFFICES ASSUME TypeOK, LocksAreInUse, [Next]_vars, NEW s \in Sources, lock'[s] # None
             PROVE  /\ call'[lock'[s]] # None
                    /\ call'[lock'[s]].step \notin WaitSteps
                    /\ call'[lock'[s]].src = s
    BY DEF LocksAreInUse, Src
<1>0. /\ call \in [Callers -> Call \cup {None}] /\ lock \in [Sources -> Callers \cup {None}]
      /\ \A q \in Callers : call[q] # None => call[q] \in Call /\ call[q].src \in Sources
      /\ lock[s] # None =>
           /\ lock[s] \in Callers /\ call[lock[s]] # None
           /\ call[lock[s]].step \notin WaitSteps /\ call[lock[s]].src = s
    BY DEF TypeOK, Call, LocksAreInUse, Src
<1>1. ASSUME UNCHANGED lock, lock[s] # None => call'[lock[s]] = call[lock[s]]
      PROVE  /\ call'[lock'[s]] # None
             /\ call'[lock'[s]].step \notin WaitSteps
             /\ call'[lock'[s]].src = s
    BY <1>0, <1>1
<1>2. ASSUME NEW p \in Callers, NEW t \in Sources, CallToken(p, t) \/ CallSave(p, t)
      PROVE  UNCHANGED lock /\ (lock[s] # None => call'[lock[s]] = call[lock[s]])
    BY <1>0, <1>2 DEF CallToken, CallSave
<1>3. ASSUME NEW p \in Callers, Lock(p)
      PROVE  /\ call'[lock'[s]] # None
             /\ call'[lock'[s]].step \notin WaitSteps
             /\ call'[lock'[s]].src = s
  <2>1. PICK x \in Steps \ WaitSteps :
          /\ Goto(p, x) /\ call[p] # None
          /\ lock[Src(p)] = None /\ lock' = [lock EXCEPT ![Src(p)] = p]
    BY <1>3 DEF Lock, FirstStep, Steps, WaitSteps
  <2>2. /\ [call[p] EXCEPT !.step = x] \in Call
        /\ [call[p] EXCEPT !.step = x].step = x
        /\ [call[p] EXCEPT !.step = x].src = call[p].src
    BY <1>0, <2>1 DEF Call
  <2>3. /\ call'[p] = [call[p] EXCEPT !.step = x]
        /\ \A q \in Callers \ {p} : call'[q] = call[q]
    BY <1>0, <2>1 DEF Goto
  <2>4. CASE s = Src(p)
    BY <1>0, <2>1, <2>2, <2>3, <2>4, ConstantsAssumption DEF Src
  <2>5. CASE s # Src(p)
    <3>1. lock'[s] = lock[s]
      BY <1>0, <2>1, <2>5
    <3>2. call'[p] # None /\ call'[p].step \notin WaitSteps /\ call'[p].src = call[p].src
      BY <2>1, <2>2, <2>3, ConstantsAssumption
    <3> QED BY <1>0, <2>3, <3>1, <3>2
  <2> QED BY <2>4, <2>5
<1>4. ASSUME NEW p \in Callers, Step(p)
      PROVE  /\ call'[lock'[s]] # None
             /\ call'[lock'[s]].step \notin WaitSteps
             /\ call'[lock'[s]].src = s
  <2>1. /\ call[p] # None /\ \A q \in Callers \ {p} : call'[q] = call[q]
    BY <1>4, StepShape
  <2>2. CASE call'[p] = None /\ lock' = [lock EXCEPT ![Src(p)] = None]
    <3>1. s # Src(p) /\ lock'[s] = lock[s]
      BY <1>0, <2>2
    <3> QED BY <1>0, <2>1, <3>1 DEF Src
  <2>3. CASE /\ call'[p] # None /\ call'[p].step \notin WaitSteps
             /\ call'[p].src = call[p].src /\ UNCHANGED lock
    BY <1>0, <2>1, <2>3
  <2> QED BY <1>4, <2>2, <2>3, StepKeepsPlace
<1>5. ASSUME NEW t \in Sources, Crash(t)
      PROVE  /\ call'[lock'[s]] # None
             /\ call'[lock'[s]].step \notin WaitSteps
             /\ call'[lock'[s]].src = s
    BY <1>0, <1>5 DEF Crash, CallsOf
<1>6. ASSUME \/ \E t \in Sources :
                  NewTokenSource(t) \/ \E c \in Characters : CharacterSource(t, c)
             \/ \E c \in Characters : Authorize(c) \/ DeleteCharacter(c)
             \/ \E r \in live : Revoke(r)
             \/ \E a \in HeldAccess : Expire(a)
             \/ UNCHANGED vars
      PROVE  UNCHANGED <<call, lock>>
    BY <1>6 DEF NewTokenSource, CharacterSource, Authorize, DeleteCharacter, Revoke, Expire,
            control, vars
<1> QED BY <1>1, <1>2, <1>3, <1>4, <1>5, <1>6 DEF Next

THEOREM LocksAreReleased == Spec => []LocksAreInUse
<1>1. Init => LocksAreInUse
    BY DEF Init, LocksAreInUse
<1> QED BY <1>1, InUseNext, TypeCorrect, PTL DEF Spec

-----------------------------------------------------------------------------
(* Whose the tokens are, as long as the application does not use Save.     *)

SaveIsUnused == \A s \in Sources : Saved[s] = {}

PairOf(c, pair) == pair.access.who = c /\ pair.refresh.who = c

(* Src(p)'s character, where p carries tokens: they are its character's.   *)
OwnCall(p) ==
    /\ call[p].step \notin {"saveLock", "saveValidate", "create"}
    /\ call[p].step = "find" => token[Src(p)] = None
    /\ call[p].step = "deactivate" => character[Src(p)] # None
    /\ call[p].new # None =>
         character[Src(p)] # None /\ PairOf(character[Src(p)].who, call[p].new)

(* The tokens of a row are its character's, and those of a source and its  *)
(* calls are its character's; a source that looks it up has no tokens yet, *)
(* and no other call that carries any: it has the lock.  A call that was   *)
(* refused had a token to present, so its source knows its row.            *)
OwnInv ==
    /\ \A c \in Characters : db[c] # None => PairOf(c, db[c])
    /\ \A s \in Sources :
         token[s] # None => character[s] # None /\ PairOf(character[s].who, token[s])
    /\ \A p \in Callers : call[p] # None => OwnCall(p)

(* What the statements write of a row. *)
LEMMA UpdateRefreshTokenOwn ==
    ASSUME db \in Tables, NEW h \in Handle, NEW t \in Id, t.who = h.who,
           \A c \in Characters : db[c] # None => PairOf(c, db[c])
    PROVE  \A c \in Characters : UpdateRefreshToken(h, t)[c] # None
             => PairOf(c, UpdateRefreshToken(h, t)[c])
BY ConstantsAssumption DEF Tables, UpdateRefreshToken, Names, Row, PairOf, Handle

LEMMA UpdateAccessTokenOwn ==
    ASSUME db \in Tables, NEW h \in Handle, NEW t \in Id, t.who = h.who,
           \A c \in Characters : db[c] # None => PairOf(c, db[c])
    PROVE  \A c \in Characters : UpdateAccessToken(h, t)[c] # None
             => PairOf(c, UpdateAccessToken(h, t)[c])
BY ConstantsAssumption DEF Tables, UpdateAccessToken, Names, Row, PairOf, Handle

LEMMA UpdateActiveStateOwn ==
    ASSUME db \in Tables, NEW h \in Handle \cup {None}, NEW b \in BOOLEAN,
           \A c \in Characters : db[c] # None => PairOf(c, db[c])
    PROVE  \A c \in Characters : UpdateActiveState(h, b)[c] # None
             => PairOf(c, UpdateActiveState(h, b)[c])
BY ConstantsAssumption DEF Tables, UpdateActiveState, Names, Row, PairOf

LEMMA CreateCharacterOwn ==
    ASSUME db \in Tables, NEW d \in Characters, NEW pair \in Pair, PairOf(d, pair),
           \A c \in Characters : db[c] # None => PairOf(c, db[c])
    PROVE  \A c \in Characters : CreateCharacter(d, pair)[c] # None
             => PairOf(c, CreateCharacter(d, pair)[c])
BY ConstantsAssumption DEF Tables, CreateCharacter, Row, PairOf

(* A step of p that gives no source other tokens or another character. *)
LEMMA OwnCallStep ==
    ASSUME TypeOK, OwnInv, NEW p \in Callers,
           \A q \in Callers \ {p} : call'[q] = call[q],
           UNCHANGED <<token, character>>,
           \A c \in Characters : db'[c] # None => PairOf(c, db'[c]),
           call'[p] # None => OwnCall(p)'
    PROVE  OwnInv'
<1>1. \A s \in Sources : token'[s] = token[s] /\ character'[s] = character[s]
    OBVIOUS
<1>2. ASSUME NEW q \in Callers, q # p, call'[q] # None PROVE OwnCall(q)'
  <2>1. call'[q] = call[q] /\ OwnCall(q)
    BY <1>2 DEF OwnInv
  <2> QED BY <2>1 DEF OwnCall, Src
<1> QED BY <1>1, <1>2 DEF OwnInv

(* A step of p past the lock that gives p's source tokens of its character. *)
LEMMA OwnSourceStep ==
    ASSUME TypeOK, LockInv, OwnInv, NEW p \in Callers, Step(p),
           UNCHANGED db,
           \A s \in Sources \ {Src(p)} : token'[s] = token[s] /\ character'[s] = character[s],
           token'[Src(p)] # None =>
             character'[Src(p)] # None /\ PairOf(character'[Src(p)].who, token'[Src(p)]),
           call'[p] # None => OwnCall(p)'
    PROVE  OwnInv'
<1>1. /\ call[p] # None /\ call[p].step \notin WaitSteps
      /\ \A q \in Callers \ {p} : call'[q] = call[q]
    BY StepShape
<1>2. ASSUME NEW q \in Callers, q # p, call'[q] # None PROVE OwnCall(q)'
  <2>1. call'[q] = call[q] /\ OwnCall(q) /\ Src(q) \in Sources
    BY <1>1, <1>2 DEF OwnInv, TypeOK, Call, Src
  <2>2. CASE Src(q) = Src(p)
    <3>1. call[q].step \in WaitSteps
      BY <1>1, <1>2, <2>1, <2>2 DEF LockInv
    <3>2. call[q].new = None /\ call[q].step \notin {"find", "deactivate"}
      BY <1>2, <2>1, <3>1 DEF OwnCall, TypeOK, NewSteps, WaitSteps
    <3> QED BY <2>1, <3>2 DEF OwnCall, Src
  <2>3. CASE Src(q) # Src(p)
    BY <2>1, <2>3 DEF OwnCall, Src
  <2> QED BY <2>2, <2>3
<1> QED BY <1>2 DEF OwnInv

LEMMA OwnNext ==
    ASSUME SaveIsUnused
    PROVE  TypeOK /\ TypeOK' /\ LockInv /\ OwnInv /\ [Next]_vars => OwnInv'
<1> SUFFICES ASSUME TypeOK, TypeOK', LockInv, OwnInv, [Next]_vars PROVE OwnInv'
    OBVIOUS
<1> USE ConstantsAssumption DEF sso, mem, control, history
<1>0. /\ call \in [Callers -> Call \cup {None}] /\ db \in Tables
      /\ character \in [Sources -> Handle \cup {None}] /\ token \in [Sources -> Pair \cup {None}]
      /\ \A q \in Callers : call[q] # None => Src(q) \in Sources /\ OwnCall(q)
      /\ \A c \in Characters : db[c] # None => PairOf(c, db[c])
    BY DEF TypeOK, Call, Tables, Src, OwnInv
<1>1. ASSUME NEW p \in Callers, Return(p)
      PROVE  call'[p] = None /\ \A q \in Callers \ {p} : call'[q] = call[q]
    BY <1>0, <1>1 DEF Return
<1>2. ASSUME NEW p \in Callers,
             NEW x \in Steps \ {"find", "deactivate", "saveLock", "saveValidate", "create"},
             Goto(p, x), call[p] # None, UNCHANGED character
      PROVE  /\ call'[p] # None => OwnCall(p)'
             /\ \A q \in Callers \ {p} : call'[q] = call[q]
  <2>1. call'[p] = [call[p] EXCEPT !.step = x] /\ \A q \in Callers \ {p} : call'[q] = call[q]
    BY <1>0, <1>2 DEF Goto
  <2>2. call'[p].step = x /\ call'[p].src = call[p].src /\ call'[p].new = call[p].new
    BY <1>0, <1>2, <2>1 DEF Call
  <2>3. OwnCall(p)
    BY <1>0, <1>2
  <2> QED BY <1>2, <2>1, <2>2, <2>3 DEF OwnCall, Src
<1>3. ASSUME NEW p \in Callers, NEW s \in Sources, CallToken(p, s) PROVE OwnInv'
  <2>1. /\ UNCHANGED <<token, character, db>>
        /\ call'[p] = [step |-> "lock", src |-> s, new |-> None]
        /\ \A q \in Callers \ {p} : call'[q] = call[q]
    BY <1>0, <1>3 DEF CallToken
  <2>2. OwnCall(p)'
    BY <2>1 DEF OwnCall
  <2> QED BY <1>0, <2>1, <2>2, OwnCallStep
<1>4. ASSUME NEW p \in Callers, NEW s \in Sources, CallSave(p, s) PROVE OwnInv'
    BY <1>4 DEF CallSave, SaveIsUnused
<1>5. ASSUME NEW p \in Callers, Lock(p) PROVE OwnInv'
  <2>1. /\ call[p] # None /\ call[p].step = "lock" /\ call[p] \in Call /\ OwnCall(p)
        /\ UNCHANGED <<token, character, db>>
        /\ Goto(p, FirstStep(Src(p)))
    BY <1>0, <1>5 DEF Lock, WaitSteps, OwnCall
  <2>2. /\ call'[p].step = FirstStep(Src(p)) /\ call'[p].src = call[p].src
        /\ call'[p].new = call[p].new
        /\ \A q \in Callers \ {p} : call'[q] = call[q]
    BY <1>0, <2>1 DEF Goto, Call
  <2>3. OwnCall(p)'
    BY <2>1, <2>2 DEF OwnCall, FirstStep, Src
  <2> QED BY <1>0, <2>1, <2>2, <2>3, OwnCallStep
<1>6. ASSUME NEW p \in Callers, Find(p) PROVE OwnInv'
  <2>1. /\ call[p] # None /\ call[p].step = "find" /\ Goto(p, "load")
        /\ UNCHANGED <<token, db>> /\ Src(p) \in Sources
    BY <1>0, <1>6 DEF Find, At
  <2>2. \A s \in Sources \ {Src(p)} : token'[s] = token[s] /\ character'[s] = character[s]
    BY <1>0, <1>6 DEF Find
  <2>3. token'[Src(p)] = None /\ call[p].new = None
    BY <1>0, <2>1 DEF OwnCall, TypeOK, NewSteps
  <2>4. OwnCall(p)'
    BY <1>0, <2>1, <2>3 DEF Goto, OwnCall, Src, Call
  <2> QED BY <1>6, <2>1, <2>2, <2>3, <2>4, OwnSourceStep DEF Step
<1>7. ASSUME NEW p \in Callers, Load(p) PROVE OwnInv'
  <2> DEFINE h == character[Src(p)]
  <2>1. /\ call[p] # None /\ call[p].step = "load" /\ Goto(p, "refresh")
        /\ UNCHANGED <<character, db>> /\ Src(p) \in Sources
        /\ h \in Handle /\ h # None /\ h.who \in Characters /\ db[h.who] # None
    BY <1>0, <1>7 DEF Load, At, Names, Handle
  <2>2. token' = [token EXCEPT ![Src(p)] = [access |-> db[h.who].access, refresh |-> db[h.who].refresh]]
    BY <1>7 DEF Load
  <2>3. PairOf(h.who, token'[Src(p)])
    BY <1>0, <2>1, <2>2 DEF PairOf
  <2>4. \A s \in Sources \ {Src(p)} : token'[s] = token[s]
    BY <1>0, <2>2
  <2>5. OwnCall(p)'
    <3>1. call[p].new = None
      BY <2>1 DEF TypeOK, NewSteps
    <3> QED BY <1>0, <2>1, <3>1 DEF Goto, OwnCall, Src, Call
  <2> QED BY <1>7, <2>1, <2>3, <2>4, <2>5, OwnSourceStep DEF Step
<1>8. ASSUME NEW p \in Callers,
             \/ FindFails(p) \/ LoadFails(p) \/ UseCached(p) \/ RefreshLost(p)
             \/ RefreshUnreachable(p) \/ ValidateFails(p) \/ WriteAborted(p)
             \/ Panic(p) \/ SaveFails(p)
      PROVE OwnInv'
  <2>1. Return(p) /\ UNCHANGED <<db, token, character>>
    BY <1>8 DEF FindFails, LoadFails, UseCached, RefreshLost, RefreshUnreachable,
            ValidateFails, WriteAborted, Panic, SaveFails
  <2> QED BY <1>0, <1>1, <2>1, OwnCallStep
<1>9. ASSUME NEW p \in Callers, RefreshKept(p) \/ RefreshRotated(p) PROVE OwnInv'
  <2>1. /\ call[p] # None /\ call[p].step = "refresh" /\ Src(p) \in Sources
        /\ token[Src(p)] # None /\ character[Src(p)] # None
        /\ Presented(p).who = character[Src(p)].who
        /\ UNCHANGED <<db, token, character>>
    BY <1>0, <1>9 DEF RefreshKept, RefreshRotated, Honoured, Refreshing, At, TypeOK, Presented,
            OwnInv, PairOf
  <2>2. PICK x \in {"persistRefresh", "validate"}, r \in {Presented(p), Fresh(p)} :
          call' = [call EXCEPT ![p] = [step |-> x, src |-> Src(p),
                                       new |-> [access |-> Fresh(p), refresh |-> r]]]
    BY <1>9 DEF RefreshKept, RefreshRotated, Answered
  <2>3. /\ call'[p].step = x /\ call'[p].src = Src(p)
        /\ call'[p].new.access = Fresh(p) /\ call'[p].new.refresh = r
        /\ \A q \in Callers \ {p} : call'[q] = call[q]
    BY <1>0, <2>2
  <2>4. OwnCall(p)'
    BY <2>1, <2>3 DEF OwnCall, PairOf, Fresh, Src
  <2> QED BY <1>0, <2>1, <2>3, <2>4, OwnCallStep
<1>10. ASSUME NEW p \in Callers, RefreshRefused(p) PROVE OwnInv'
  <2>1. /\ call[p] # None /\ Goto(p, "deactivate") /\ UNCHANGED <<db, token, character>>
        /\ call[p].step = "refresh" /\ token[Src(p)] # None
    BY <1>10 DEF RefreshRefused, Refreshing, At, TypeOK
  <2>2. character[Src(p)] # None /\ call[p].new = None
    BY <1>0, <2>1 DEF OwnInv, TypeOK, NewSteps
  <2>3. /\ call'[p].step = "deactivate" /\ call'[p].src = call[p].src /\ call'[p].new = None
        /\ \A q \in Callers \ {p} : call'[q] = call[q]
    BY <1>0, <2>1, <2>2 DEF Goto, Call
  <2>4. OwnCall(p)'
    BY <2>1, <2>2, <2>3 DEF OwnCall, Src
  <2> QED BY <1>0, <2>1, <2>3, <2>4, OwnCallStep
<1>11. ASSUME NEW p \in Callers, Deactivate(p) PROVE OwnInv'
  <2>1. /\ Return(p) /\ UNCHANGED <<token, character>> /\ call[p] # None
        /\ db' = UpdateActiveState(character[Src(p)], FALSE)
    BY <1>11 DEF Deactivate, At
  <2>2. \A c \in Characters : db'[c] # None => PairOf(c, db'[c])
    BY <1>0, <2>1, UpdateActiveStateOwn
  <2> QED BY <1>1, <2>1, <2>2, OwnCallStep
<1>12. ASSUME NEW p \in Callers, PersistRefresh(p) PROVE OwnInv'
  <2>1. /\ call[p] # None /\ call[p].new \in Pair /\ Src(p) \in Sources
        /\ character[Src(p)] \in Handle
        /\ PairOf(character[Src(p)].who, call[p].new)
        /\ UNCHANGED <<token, character>>
        /\ db' = UpdateRefreshToken(character[Src(p)], call[p].new.refresh)
    BY <1>0, <1>12 DEF PersistRefresh, At, TypeOK, NewSteps, Call, OwnCall
  <2>2. \A c \in Characters : db'[c] # None => PairOf(c, db'[c])
    BY <1>0, <2>1, UpdateRefreshTokenOwn DEF Pair, PairOf
  <2>3. Goto(p, "validate") \/ Return(p)
    BY <1>12 DEF PersistRefresh, Reported
  <2> QED BY <1>1, <1>2, <2>1, <2>2, <2>3, OwnCallStep DEF Steps
<1>13. ASSUME NEW p \in Callers, Validate(p) PROVE OwnInv'
  <2>1. /\ call[p] # None /\ Goto(p, "persistAccess") /\ UNCHANGED <<db, token, character>>
    BY <1>13 DEF Validate, At
  <2> QED BY <1>0, <1>2, <2>1, OwnCallStep DEF Steps, WriteSteps
<1>14. ASSUME NEW p \in Callers, PersistAccess(p) PROVE OwnInv'
  <2>1. /\ call[p] # None /\ call[p].new \in Pair /\ Src(p) \in Sources
        /\ call[p].step \notin WaitSteps
        /\ character[Src(p)] \in Handle
        /\ PairOf(character[Src(p)].who, call[p].new)
        /\ UNCHANGED character
        /\ Return(p)
        /\ token' = token \/ token' = [token EXCEPT ![Src(p)] = call[p].new]
        /\ db' = UpdateAccessToken(character[Src(p)], call[p].new.access)
    BY <1>0, <1>14 DEF PersistAccess, At, TypeOK, NewSteps, Call, OwnCall, WaitSteps
  <2>2. \A c \in Characters : db'[c] # None => PairOf(c, db'[c])
    BY <1>0, <2>1, UpdateAccessTokenOwn DEF Pair, PairOf
  <2>3. ASSUME NEW s \in Sources, token'[s] # None
        PROVE  character[s] # None /\ PairOf(character[s].who, token'[s])
    BY <1>0, <2>1, <2>3 DEF OwnInv
  <2>4. ASSUME NEW q \in Callers, call'[q] # None PROVE OwnCall(q)'
    <3>1. q # p /\ call'[q] = call[q] /\ OwnCall(q) /\ Src(q) \in Sources
      BY <1>0, <1>1, <2>1, <2>4
    <3>2. call[q].step = "find" => Src(q) # Src(p)
      BY <2>1, <2>4, <3>1 DEF LockInv, WaitSteps
    <3>3. call[q].step = "find" => token'[Src(q)] = token[Src(q)]
      BY <1>0, <2>1, <3>1, <3>2
    <3> QED BY <2>1, <3>1, <3>3 DEF OwnCall, Src
  <2> QED BY <2>1, <2>2, <2>3, <2>4 DEF OwnInv
<1>15. ASSUME NEW p \in Callers, SaveValidate(p) \/ Create(p) PROVE OwnInv'
    BY <1>0, <1>15 DEF SaveValidate, Create, At, OwnCall
<1>16. ASSUME NEW s \in Sources,
              ~InUse(s), token' = [token EXCEPT ![s] = None], UNCHANGED <<db, call>>,
              \A t \in Sources \ {s} : character'[t] = character[t]
       PROVE  OwnInv'
  <2>1. ASSUME NEW q \in Callers, call'[q] # None PROVE OwnCall(q)'
    <3>1. Src(q) # s /\ Src(q) \in Sources /\ call'[q] = call[q] /\ OwnCall(q)
      BY <1>0, <1>16, <2>1 DEF InUse, Src
    <3> QED BY <1>0, <1>16, <3>1 DEF OwnCall, Src
  <2> QED BY <1>0, <1>16, <2>1 DEF OwnInv
<1>17. ASSUME NEW s \in Sources, NewTokenSource(s) PROVE OwnInv'
    BY <1>0, <1>16, <1>17 DEF NewTokenSource
<1>18. ASSUME NEW s \in Sources, NEW c \in Characters, CharacterSource(s, c) PROVE OwnInv'
    BY <1>0, <1>16, <1>18 DEF CharacterSource
<1>19. ASSUME NEW s \in Sources, Crash(s) PROVE OwnInv'
  <2>1. ASSUME NEW q \in Callers, call'[q] # None PROVE OwnCall(q)'
    <3>1. Src(q) # s /\ Src(q) \in Sources /\ call'[q] = call[q] /\ OwnCall(q)
      BY <1>0, <1>19, <2>1 DEF Crash, CallsOf, Src
    <3> QED BY <1>0, <1>19, <3>1 DEF OwnCall, Src, Crash
  <2> QED BY <1>0, <1>19, <2>1 DEF OwnInv, Crash
<1>20. ASSUME UNCHANGED <<token, character, call>>,
              \A c \in Characters : db'[c] # None => PairOf(c, db'[c])
       PROVE  OwnInv'
    BY <1>20 DEF OwnInv, OwnCall, Src
<1>21. ASSUME NEW c \in Characters, Authorize(c) PROVE OwnInv'
  <2>1. FirstPair(c) \in Pair /\ PairOf(c, FirstPair(c))
    BY DEF FirstPair, Pair, Id, PairOf, TypeOK
  <2>2. \A d \in Characters : db'[d] # None => PairOf(d, db'[d])
    BY <1>0, <1>21, <2>1, CreateCharacterOwn DEF Authorize
  <2> QED BY <1>20, <1>21, <2>2 DEF Authorize
<1>22. ASSUME NEW c \in Characters, DeleteCharacter(c) PROVE OwnInv'
  <2>1. \A d \in Characters : db'[d] # None => PairOf(d, db'[d])
    BY <1>0, <1>22 DEF DeleteCharacter, Tables
  <2> QED BY <1>20, <1>22, <2>1 DEF DeleteCharacter
<1>23. CASE (\E r \in live : Revoke(r)) \/ (\E a \in HeldAccess : Expire(a)) \/ UNCHANGED vars
    BY <1>0, <1>20, <1>23 DEF Revoke, Expire, vars
<1> QED BY <1>3, <1>4, <1>5, <1>6, <1>7, <1>8, <1>9, <1>10, <1>11, <1>12, <1>13, <1>14, <1>15,
           <1>17, <1>18, <1>19, <1>21, <1>22, <1>23 DEF Next, Step

LEMMA OwnInvariant == ASSUME SaveIsUnused PROVE Spec => [](TypeOK /\ LockInv /\ OwnInv)
<1>1. Init => OwnInv
    BY DEF Init, OwnInv
<1>2. TypeOK /\ TypeOK' /\ LockInv /\ OwnInv /\ [Next]_vars => OwnInv'
    BY OwnNext
<1> QED BY <1>1, <1>2, LockInvariant, PTL DEF Spec

(* Where the application does not use Save, no source ever refreshes with, *)
(* or writes back, a token of another character than its row's, whatever   *)
(* rows are deleted, created again, looked up by name or shared by sources *)
(* and whatever fails: Find runs under the lock, and only without tokens.  *)
THEOREM TokensAreOwn == ASSUME SaveIsUnused PROVE Spec => []OwnTokens
<1>1. OwnInv => OwnTokens
    BY DEF OwnInv, OwnTokens, PairOf
<1> QED BY <1>1, OwnInvariant, PTL

(* Where the application does not use Save, a call that is about to write  *)
(* knows the character it writes for: the panic of run FindSavePanic needs *)
(* Save (token.go:195).                                                    *)
THEOREM WritersKnowTheirRow == ASSUME SaveIsUnused PROVE Spec => []RefreshHasARow
<1>1. TypeOK /\ OwnInv => RefreshHasARow
    BY DEF TypeOK, OwnInv, OwnCall, RefreshHasARow, WriteSteps, NewSteps
<1> QED BY <1>1, OwnInvariant, PTL
=============================================================================
