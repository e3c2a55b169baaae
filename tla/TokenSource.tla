---------------------------- MODULE TokenSource ----------------------------
(***************************************************************************)
(* The life of a character's tokens: ssoTokenSource (token.go) over the    *)
(* character rows of the store (evessopg/Character.go, Profile.go), with   *)
(* the SSO token endpoint as environment.                                  *)
(*                                                                         *)
(* A source caches one oauth2 token pair and serialises its callers with a *)
(* lock.  A refresh is several steps: the SSO answers, the rotated refresh *)
(* token is written, the new access token is verified and then written,    *)
(* and only then is the cache replaced.  Other sources, the SSO, the       *)
(* authorization callback and the application act between any two.         *)
(***************************************************************************)
EXTENDS Naturals

CONSTANTS
    Characters,  \* grant keys: (profile, character_id, name, owner, scopes)
    Sources,     \* ssoTokenSource instances
    Callers,     \* goroutines that call Token() or Save()
    Wanted,      \* Wanted[s]: the keys the (profile, name, scopes) query of s covers
    Saved,       \* Saved[s]: the keys whose tokens the application passes to s.Save
    Env,         \* the faults and events an instance includes
    MaxTokens,   \* bound on the tokens the SSO issues
    None

EnvKinds == {"store",   \* a statement fails, or its acknowledgement is lost
             "verify",  \* validateAccessToken rejects a token the SSO issued
             "outage",  \* the SSO answers a live refresh token with a non-2xx status
             "lost",    \* the SSO's answer to a refresh never arrives
             "crash",   \* the process that hosts a source stops
             "revoke",  \* the user revokes a grant
             "delete"}  \* the application deletes a character

(* A token by what distinguishes it: whose it is, the authorization it     *)
(* descends from, and its place in the order of issue.                     *)
Id == [who : Characters, grant : Nat, n : Nat]

(* oauth2.Token. *)
Pair == [access : Id, refresh : Id]

(* A row of evesso.characters; id is its generated primary key. *)
Row == [id : Nat, active : BOOLEAN, access : Id, refresh : Id]

(* A *Character held in memory: the methods only use its primary key. *)
Handle == [who : Characters, id : Nat]

(* Where a call stands: before a lock, before a query, or before an answer. *)
WaitSteps  == {"lock", "saveLock"}
WriteSteps == {"deactivate", "persistRefresh", "persistAccess"}
Steps == WaitSteps \cup WriteSteps
           \cup {"find", "load", "refresh", "validate", "saveValidate", "create"}

(* The steps at which a call carries a token pair of its own. *)
NewSteps == {"persistRefresh", "validate", "persistAccess",
             "saveLock", "saveValidate", "create"}

(* The steps at which the refresh token of that pair is not yet stored. *)
UnsavedSteps == {"persistRefresh", "saveLock", "saveValidate", "create"}

(* The steps of a refresh at which the SSO has answered. *)
AnsweredSteps == {"persistRefresh", "validate", "persistAccess"}

Call == [step : Steps, src : Sources, new : Pair \cup {None}]

ASSUME ConstantsAssumption ==
    /\ Wanted \in [Sources -> SUBSET Characters]
    /\ Saved \in [Sources -> SUBSET Characters]
    /\ Env \subseteq EnvKinds
    /\ MaxTokens \in Nat
    /\ None \notin Id
    /\ None \notin Pair
    /\ None \notin Row
    /\ None \notin Handle
    /\ None \notin Call
    /\ None \notin Callers

VARIABLES
    db,        \* db[c]: the row with key c, or None
    live,      \* refresh tokens the SSO honours
    issued,    \* number of tokens the SSO has issued
    expired,   \* access tokens past their expiry
    token,     \* token[s]: o.token
    character, \* character[s]: o.character
    lock,      \* lock[s]: the caller inside o.Lock()
    call,      \* call[p]: the call p is making, or None
    overtaken, \* calls whose row another writer has committed to since their update began
    verified,  \* history: access tokens validateAccessToken has accepted
    revoked,   \* history: refresh tokens that died with a grant its user revoked
    dropped,   \* history: refresh tokens given up by a fault or replaced on purpose
    missed     \* history: rotated refresh tokens whose successor has not reached the cache

sso     == <<live, issued, expired>>
mem     == <<token, character>>
control == <<lock, call>>
history == <<verified, revoked, dropped, missed>>
vars    == <<db, overtaken, sso, mem, control, history>>

Init ==
    /\ db = [c \in Characters |-> None]
    /\ live = {}
    /\ issued = 0
    /\ expired = {}
    /\ token = [s \in Sources |-> None]
    /\ character = [s \in Sources |-> None]
    /\ lock = [s \in Sources |-> None]
    /\ call = [p \in Callers |-> None]
    /\ overtaken = {}
    /\ verified = {}
    /\ revoked = {}
    /\ dropped = {}
    /\ missed = {}

-----------------------------------------------------------------------------
(* Statements on evesso.characters: the table after each of them.          *)

(* The WHERE id = c.ID of every update finds a row.  When it does not, the *)
(* update changes nothing and reports no error.                            *)
Names(h) == h # None /\ db[h.who] # None /\ db[h.who].id = h.id

UpdateRefreshTokenByCharacter(h, r) ==
    IF h # None /\ db[h.who] # None THEN [db EXCEPT ![h.who].refresh = r] ELSE db

UpdateRefreshToken(h, r) ==
    IF Names(h) THEN [db EXCEPT ![h.who].refresh = r] ELSE db

UpdateAccessToken(h, a) ==
    IF Names(h) THEN [db EXCEPT ![h.who].access = a] ELSE db

UpdateActiveState(h, active) ==
    IF Names(h) THEN [db EXCEPT ![h.who].active = active] ELSE db

(* insert ... on conflict do update set refresh_token. *)
CreateCharacter(c, pair) ==
    [db EXCEPT ![c] =
        IF db[c] = None
        THEN [id |-> pair.access.n, active |-> TRUE,
              access |-> pair.access, refresh |-> pair.refresh]
        ELSE [db[c] EXCEPT !.refresh = pair.refresh]]

(* The refresh tokens that leave a table when it becomes db2 other than by *)
(* a rotation within their own grant.                                      *)
Displaced(db2) ==
    {db[c].refresh : c \in {d \in Characters :
        /\ db[d] # None
        /\ db2[d] = None \/ db2[d].refresh.grant # db[d].refresh.grant}}

-----------------------------------------------------------------------------
(* Calls and their lock.                                                   *)

At(p, step) == call[p] # None /\ call[p].step = step

Src(p) == call[p].src

Goto(p, step) == call' = [call EXCEPT ![p].step = step]

(* A refresh is under way with the pair the SSO answered. *)
Answered(p, step, pair) ==
    call' = [call EXCEPT ![p] = [step |-> step, src |-> Src(p), new |-> pair]]

ReturnKeepsLock(p) ==
    /\ call' = [call EXCEPT ![p] = None]
    /\ UNCHANGED lock

(* Every return, and every panic, runs the deferred o.Unlock(). *)
Return(p) ==
    /\ call' = [call EXCEPT ![p] = None]
    /\ lock' = [lock EXCEPT ![Src(p)] = None]

InUse(s) == \E p \in Callers : call[p] # None /\ call[p].src = s

InFlight(p) == call[p] # None /\ call[p].step \in UnsavedSteps

(* Every statement that writes a row is a repeatable-read transaction or an *)
(* upsert: an update of that row whose snapshot was taken before it commits *)
(* gets SQLSTATE 40001.  The updates of row c that may have theirs:         *)
Updating(c) ==
    {p \in Callers : /\ call[p] # None
                     /\ call[p].step \in WriteSteps
                     /\ Names(character[Src(p)])
                     /\ character[Src(p)].who = c}

(* p's update, which names a row or none, has committed. *)
Overtake(p) ==
    overtaken' = (overtaken \ {p}) \cup
        (IF Names(character[Src(p)]) THEN Updating(character[Src(p)].who) \ {p} ELSE {})

(* The refresh token of o.token, if p carries its successor. *)
Missed(p) ==
    IF /\ call[p] # None
       /\ call[p].step \in AnsweredSteps
       /\ token[Src(p)] # None
       /\ call[p].new.refresh # token[Src(p)].refresh
    THEN {token[Src(p)].refresh} ELSE {}

(* The refresh token p carries, if no row holds it yet. *)
Unsaved(p) == IF InFlight(p) THEN {call[p].new.refresh} ELSE {}

-----------------------------------------------------------------------------
(* Token().                                                                *)

CallToken(p, s) ==
    /\ call[p] = None
    /\ call' = [call EXCEPT ![p] = [step |-> "lock", src |-> s, new |-> None]]
    /\ UNCHANGED <<db, overtaken, sso, mem, lock, history>>

FirstStep(s) ==
    IF token[s] # None THEN "refresh"
    ELSE IF character[s] # None THEN "load" ELSE "find"

LockWithoutValidation(p) ==
    /\ call[p] # None
    /\ call[p].step \in WaitSteps
    /\ lock[Src(p)] = None
    /\ lock' = [lock EXCEPT ![Src(p)] = p]
    /\ Goto(p, IF call[p].step = "saveLock" THEN "create" ELSE FirstStep(Src(p)))
    /\ UNCHANGED <<db, overtaken, sso, mem, history>>

Lock(p) ==
    /\ call[p] # None
    /\ call[p].step \in WaitSteps
    /\ lock[Src(p)] = None
    /\ lock' = [lock EXCEPT ![Src(p)] = p]
    /\ Goto(p, IF call[p].step = "saveLock" THEN "saveValidate"
               ELSE FirstStep(Src(p)))
    /\ UNCHANGED <<db, overtaken, sso, mem, history>>

(* The rows FindCharacter's where clause selects.  A nil scope list is sent *)
(* as NULL and selects nothing: Wanted[s] is then empty.                    *)
Matches(s) == {c \in Wanted[s] : db[c] # None /\ db[c].active}

(* GetCharacter: the query is read with pgxscan.Get, which fails unless it *)
(* returns exactly one row.                                                *)
Find(p) ==
    /\ At(p, "find")
    /\ \E c \in Characters :
         /\ Matches(Src(p)) = {c}
         /\ character' = [character EXCEPT
                            ![Src(p)] = [who |-> c, id |-> db[c].id]]
    /\ Goto(p, "load")
    /\ UNCHANGED <<db, overtaken, sso, token, lock, history>>

FindFails(p) ==
    /\ At(p, "find")
    /\ "store" \in Env \/ ~ \E c \in Characters : Matches(Src(p)) = {c}
    /\ Return(p)
    /\ UNCHANGED <<db, overtaken, sso, mem, history>>

(* Character.Token(): the stored pair becomes o.token. *)
Load(p) ==
    /\ At(p, "load")
    /\ Names(character[Src(p)])
    /\ LET row == db[character[Src(p)].who]
       IN  token' = [token EXCEPT
                       ![Src(p)] = [access |-> row.access, refresh |-> row.refresh]]
    /\ Goto(p, "refresh")
    /\ UNCHANGED <<db, overtaken, sso, character, lock, history>>

LoadFails(p) ==
    /\ At(p, "load")
    /\ "store" \in Env \/ ~Names(character[Src(p)])
    /\ Return(p)
    /\ UNCHANGED <<db, overtaken, sso, mem, history>>

UseCachedFallsThrough(p) ==
    /\ At(p, "refresh")
    /\ token[Src(p)].access \notin expired
    /\ Goto(p, "validate")
    /\ UNCHANGED <<db, overtaken, sso, mem, lock, history>>

(* oauth2 hands back an unexpired token as it is: neither comparison in    *)
(* Token() sees a change and o.token is returned.                          *)
UseCached(p) ==
    /\ At(p, "refresh")
    /\ token[Src(p)].access \notin expired
    /\ Return(p)
    /\ UNCHANGED <<db, overtaken, sso, mem, history>>

-----------------------------------------------------------------------------
(* The SSO's token endpoint, as the oauth2 library presents it.            *)

Presented(p) == token[Src(p)].refresh

Refreshing(p) == At(p, "refresh") /\ token[Src(p)].access \in expired

Honoured(p) ==
    /\ Refreshing(p)
    /\ Presented(p) \in live
    /\ issued < MaxTokens
    /\ issued' = issued + 1

(* The next token of the grant the presented one belongs to. *)
Fresh(p) == [who |-> Presented(p).who, grant |-> Presented(p).grant, n |-> issued + 1]

(* Only the new one of a rotated pair is honoured from now on. *)
Rotate(p) == live' = (live \ {Presented(p)}) \cup {Fresh(p)}

RefreshKeptUnverified(p) ==
    /\ Honoured(p)
    /\ Answered(p, "persistAccess", [access |-> Fresh(p), refresh |-> Presented(p)])
    /\ UNCHANGED <<db, overtaken, live, expired, mem, lock, history>>

(* A new access token under the same refresh token. *)
RefreshKept(p) ==
    /\ Honoured(p)
    /\ Answered(p, "validate", [access |-> Fresh(p), refresh |-> Presented(p)])
    /\ UNCHANGED <<db, overtaken, live, expired, mem, lock, history>>

RefreshRotatedUnsaved(p) ==
    /\ Honoured(p)
    /\ Rotate(p)
    /\ Answered(p, "validate", [access |-> Fresh(p), refresh |-> Fresh(p)])
    /\ UNCHANGED <<db, overtaken, expired, mem, lock, history>>

RefreshRotatedCachesEarly(p) ==
    /\ Honoured(p)
    /\ Rotate(p)
    /\ Answered(p, "persistRefresh", [access |-> Fresh(p), refresh |-> Fresh(p)])
    /\ token' = [token EXCEPT ![Src(p)].refresh = Fresh(p)]
    /\ UNCHANGED <<db, overtaken, expired, character, lock, history>>

(* A new access token and a new refresh token. *)
RefreshRotated(p) ==
    /\ Honoured(p)
    /\ Rotate(p)
    /\ Answered(p, "persistRefresh", [access |-> Fresh(p), refresh |-> Fresh(p)])
    /\ UNCHANGED <<db, overtaken, expired, mem, lock, history>>

(* The SSO has rotated, the caller sees only a transport error. *)
RefreshLost(p) ==
    /\ "lost" \in Env
    /\ Honoured(p)
    /\ Rotate(p)
    /\ dropped' = dropped \cup {Fresh(p)}
    /\ missed' = missed \cup {Presented(p)}
    /\ Return(p)
    /\ UNCHANGED <<db, overtaken, expired, mem, verified, revoked>>

(* The request never reaches the SSO: an error, but no RetrieveError. *)
RefreshUnreachable(p) ==
    /\ Refreshing(p)
    /\ Return(p)
    /\ UNCHANGED <<db, overtaken, sso, mem, history>>

(* Any non-2xx answer is a RetrieveError. *)
RefreshRefused(p) ==
    /\ Refreshing(p)
    /\ Presented(p) \notin live \/ "outage" \in Env
    /\ Goto(p, "deactivate")
    /\ UNCHANGED <<db, overtaken, sso, mem, lock, history>>

-----------------------------------------------------------------------------
(* What Token() does with the answer.  A statement may commit and still    *)
(* report an error when its acknowledgement is lost.                       *)

Reported(p, next) ==
    \/ Goto(p, next) /\ UNCHANGED <<lock, missed>>
    \/ "store" \in Env /\ Return(p) /\ missed' = missed \cup Missed(p)

Deactivate(p) ==
    /\ At(p, "deactivate")
    /\ character[Src(p)] # None
    /\ db' = UpdateActiveState(character[Src(p)], FALSE)
    /\ Overtake(p)
    /\ Return(p)
    /\ UNCHANGED <<sso, mem, history>>

PersistRefresh(p) ==
    /\ At(p, "persistRefresh")
    /\ character[Src(p)] # None
    /\ db' = UpdateRefreshToken(character[Src(p)], call[p].new.refresh)
    /\ dropped' = dropped \cup Displaced(db')
                    \cup (IF Names(character[Src(p)]) THEN {} ELSE Unsaved(p))
    /\ Overtake(p)
    /\ Reported(p, "validate")
    /\ UNCHANGED <<sso, mem, verified, revoked>>

Validate(p) ==
    /\ At(p, "validate")
    /\ verified' = verified \cup {call[p].new.access}
    /\ Goto(p, "persistAccess")
    /\ UNCHANGED <<db, overtaken, sso, mem, lock, revoked, dropped, missed>>

(* The caller gets the error; o.token keeps the pair it had. *)
ValidateFails(p) ==
    /\ At(p, "validate")
    /\ "verify" \in Env
    /\ missed' = missed \cup Missed(p)
    /\ Return(p)
    /\ UNCHANGED <<db, overtaken, sso, mem, verified, revoked, dropped>>

PersistAccessWholeRow(p) ==
    /\ At(p, "persistAccess")
    /\ character[Src(p)] # None
    /\ LET h == character[Src(p)]
       IN  db' = IF Names(h) THEN [db EXCEPT ![h.who].access = call[p].new.access,
                                             ![h.who].refresh = call[p].new.refresh]
                 ELSE db
    /\ token' = [token EXCEPT ![Src(p)] = call[p].new]
    /\ Overtake(p)
    /\ Return(p)
    /\ UNCHANGED <<sso, character, history>>

PersistAccessKeepsCache(p) ==
    /\ At(p, "persistAccess")
    /\ character[Src(p)] # None
    /\ db' = UpdateAccessToken(character[Src(p)], call[p].new.access)
    /\ Overtake(p)
    /\ Return(p)
    /\ UNCHANGED <<sso, mem, history>>

(* The cache is replaced only when the update reports success. *)
PersistAccess(p) ==
    /\ At(p, "persistAccess")
    /\ character[Src(p)] # None
    /\ db' = UpdateAccessToken(character[Src(p)], call[p].new.access)
    /\ \/ token' = [token EXCEPT ![Src(p)] = call[p].new] /\ UNCHANGED missed
       \/ "store" \in Env /\ missed' = missed \cup Missed(p) /\ UNCHANGED token
    /\ Overtake(p)
    /\ Return(p)
    /\ UNCHANGED <<sso, character, verified, revoked, dropped>>

(* The transaction fails, or another writer of the row has overtaken it: it *)
(* rolls back and the call returns its error.                               *)
WriteAborted(p) ==
    /\ call[p] # None
    /\ call[p].step \in WriteSteps
    /\ character[Src(p)] # None
    /\ "store" \in Env \/ p \in overtaken
    /\ dropped' = dropped \cup Unsaved(p)
    /\ missed' = missed \cup Missed(p)
    /\ overtaken' = overtaken \ {p}
    /\ Return(p)
    /\ UNCHANGED <<db, sso, mem, verified, revoked>>

(* Save() sets o.token without o.character: the update is a method call on *)
(* a nil interface.                                                        *)
Panic(p) ==
    /\ call[p] # None
    /\ call[p].step \in WriteSteps
    /\ character[Src(p)] = None
    /\ dropped' = dropped \cup Unsaved(p)
    /\ missed' = missed \cup Missed(p)
    /\ overtaken' = overtaken \ {p}
    /\ Return(p)
    /\ UNCHANGED <<db, sso, mem, verified, revoked>>

-----------------------------------------------------------------------------
(* Save(): the application has exchanged a code itself.                    *)

(* The first pair of a new grant for c. *)
FirstPair(c) ==
    LET t == [who |-> c, grant |-> issued + 1, n |-> issued + 1]
    IN  [access |-> t, refresh |-> t]

CallSave(p, s) ==
    /\ call[p] = None
    /\ issued < MaxTokens
    /\ issued' = issued + 1
    /\ \E c \in Saved[s] :
         /\ live' = live \cup {FirstPair(c).refresh}
         /\ call' = [call EXCEPT ![p] =
                       [step |-> "saveLock", src |-> s, new |-> FirstPair(c)]]
    /\ UNCHANGED <<db, overtaken, expired, mem, lock, history>>

SaveValidate(p) ==
    /\ At(p, "saveValidate")
    /\ verified' = verified \cup {call[p].new.access}
    /\ Goto(p, "create")
    /\ UNCHANGED <<db, overtaken, sso, mem, lock, revoked, dropped, missed>>

(* validate, newCharacterClaims, GetProfile or the insert fails. *)
SaveFails(p) ==
    /\ \/ At(p, "saveValidate") /\ "verify" \in Env
       \/ At(p, "create") /\ "store" \in Env
    /\ dropped' = dropped \cup Unsaved(p)
    /\ Return(p)
    /\ UNCHANGED <<db, overtaken, sso, mem, verified, revoked, missed>>

CreateUnlessPresent(p) ==
    /\ At(p, "create")
    /\ LET c == call[p].new.access.who
       IN  /\ db' = IF db[c] = None THEN CreateCharacter(c, call[p].new) ELSE db
           /\ overtaken' = overtaken \cup Updating(c)
    /\ token' = [token EXCEPT ![Src(p)] = call[p].new]
    /\ Return(p)
    /\ UNCHANGED <<sso, character, history>>

Create(p) ==
    /\ At(p, "create")
    /\ db' = CreateCharacter(call[p].new.access.who, call[p].new)
    /\ dropped' = dropped \cup Displaced(db')
    /\ overtaken' = overtaken \cup Updating(call[p].new.access.who)
    /\ \/ token' = [token EXCEPT ![Src(p)] = call[p].new]
       \/ "store" \in Env /\ UNCHANGED token
    /\ Return(p)
    /\ UNCHANGED <<sso, character, verified, revoked, missed>>

-----------------------------------------------------------------------------
(* The application, the callback, the user, time and crashes.              *)

(* A completed authorization: the callback stores a verified token of a    *)
(* new grant.  Its own steps are in module Callback.                       *)
Authorize(c) ==
    /\ issued < MaxTokens
    /\ issued' = issued + 1
    /\ live' = live \cup {FirstPair(c).refresh}
    /\ verified' = verified \cup {FirstPair(c).access}
    /\ db' = CreateCharacter(c, FirstPair(c))
    /\ dropped' = dropped \cup Displaced(db')
    /\ overtaken' = overtaken \cup Updating(c)
    /\ UNCHANGED <<expired, mem, control, revoked, missed>>

(* EVESSO.TokenSource: a new source that looks its character up by name. *)
NewTokenSource(s) ==
    /\ ~InUse(s)
    /\ token' = [token EXCEPT ![s] = None]
    /\ character' = [character EXCEPT ![s] = None]
    /\ UNCHANGED <<db, overtaken, sso, control, history>>

CharacterSourceReusesToken(s, c) ==
    /\ ~InUse(s)
    /\ db[c] # None
    /\ character' = [character EXCEPT ![s] = [who |-> c, id |-> db[c].id]]
    /\ UNCHANGED <<db, overtaken, sso, token, control, history>>

(* EVESSO.CharacterSource: a new source for a row the application has read. *)
CharacterSource(s, c) ==
    /\ ~InUse(s)
    /\ db[c] # None
    /\ token' = [token EXCEPT ![s] = None]
    /\ character' = [character EXCEPT ![s] = [who |-> c, id |-> db[c].id]]
    /\ UNCHANGED <<db, overtaken, sso, control, history>>

DeleteCharacter(c) ==
    /\ "delete" \in Env
    /\ db[c] # None
    /\ db' = [db EXCEPT ![c] = None]
    /\ dropped' = dropped \cup Displaced(db')
    /\ overtaken' = overtaken \cup Updating(c)
    /\ UNCHANGED <<sso, mem, control, verified, revoked, missed>>

Revoke(r) ==
    /\ "revoke" \in Env
    /\ r \in live
    /\ live' = live \ {r}
    /\ revoked' = revoked \cup {r}
    /\ UNCHANGED <<db, overtaken, issued, expired, mem, control, verified, dropped, missed>>

(* Access tokens somebody still holds. *)
HeldAccess ==
    {db[c].access : c \in {d \in Characters : db[d] # None}}
      \cup {token[s].access : s \in {t \in Sources : token[t] # None}}

Expire(a) ==
    /\ a \in HeldAccess \ expired
    /\ expired' = expired \cup {a}
    /\ UNCHANGED <<db, overtaken, live, issued, mem, control, history>>

CallsOf(s) == {p \in Callers : call[p] # None /\ call[p].src = s}

(* The process that hosts s stops: its calls and its memory are gone. *)
Crash(s) ==
    /\ "crash" \in Env
    /\ call' = [p \in Callers |-> IF p \in CallsOf(s) THEN None ELSE call[p]]
    /\ dropped' = dropped \cup UNION {Unsaved(p) : p \in CallsOf(s)}
    /\ missed' = missed \cup UNION {Missed(p) : p \in CallsOf(s)}
    /\ overtaken' = overtaken \ CallsOf(s)
    /\ lock' = [lock EXCEPT ![s] = None]
    /\ token' = [token EXCEPT ![s] = None]
    /\ character' = [character EXCEPT ![s] = None]
    /\ UNCHANGED <<db, sso, verified, revoked>>

-----------------------------------------------------------------------------

(* What the holder of the lock, and nobody else, can do next. *)
Step(p) ==
    \/ Find(p) \/ FindFails(p) \/ Load(p) \/ LoadFails(p) \/ UseCached(p)
    \/ RefreshKept(p) \/ RefreshRotated(p) \/ RefreshLost(p)
    \/ RefreshUnreachable(p) \/ RefreshRefused(p)
    \/ Deactivate(p) \/ PersistRefresh(p) \/ Validate(p) \/ ValidateFails(p)
    \/ PersistAccess(p) \/ WriteAborted(p) \/ Panic(p)
    \/ SaveValidate(p) \/ SaveFails(p) \/ Create(p)

Next ==
    \/ \E p \in Callers :
         \/ \E s \in Sources : CallToken(p, s) \/ CallSave(p, s)
         \/ Lock(p)
         \/ Step(p)
    \/ \E s \in Sources :
         \/ NewTokenSource(s)
         \/ \E c \in Characters : CharacterSource(s, c)
         \/ Crash(s)
    \/ \E c \in Characters : Authorize(c) \/ DeleteCharacter(c)
    \/ \E r \in live : Revoke(r)
    \/ \E a \in HeldAccess : Expire(a)

Spec == Init /\ [][Next]_vars

(* Statements and requests come back (an error included), and sync.RWMutex *)
(* does not starve a waiter.                                               *)
FairSpec ==
    /\ Spec
    /\ \A p \in Callers : WF_vars(Step(p)) /\ SF_vars(Lock(p))

-----------------------------------------------------------------------------
(* Properties.                                                             *)

(* The variables hold values of their types, a call carries a token pair   *)
(* of its own exactly from the SSO's answer on, and none asks the SSO      *)
(* without a cached one.                                                   *)
TypeOK ==
    /\ db \in [Characters -> Row \cup {None}]
    /\ live \subseteq Id
    /\ issued \in 0..MaxTokens
    /\ expired \subseteq Id
    /\ token \in [Sources -> Pair \cup {None}]
    /\ character \in [Sources -> Handle \cup {None}]
    /\ lock \in [Sources -> Callers \cup {None}]
    /\ call \in [Callers -> Call \cup {None}]
    /\ \A p \in Callers :
         /\ call[p] # None => (call[p].new # None <=> call[p].step \in NewSteps)
         /\ At(p, "refresh") => token[Src(p)] # None
    /\ verified \subseteq Id
    /\ revoked \subseteq Id
    /\ overtaken \subseteq {p \in Callers : call[p] # None /\ call[p].step \in WriteSteps}
    /\ dropped \subseteq Id
    /\ missed \subseteq Id

(* Every access token that a row holds or that Token() can return from its *)
(* cache has passed validateAccessToken, whatever writes failed, whichever *)
(* source or Save wrote it (the claim of Character.go:155-159, which lets  *)
(* a stored token be read back without a check).                           *)
VerifiedTokens ==
    /\ \A c \in Characters : db[c] # None => db[c].access \in verified
    /\ \A s \in Sources : token[s] # None => token[s].access \in verified

(* Where refresh tokens are: in rows, in caches, in calls whose write has   *)
(* been made, and in calls that have yet to write them.                    *)
Stored  == {db[c].refresh : c \in {d \in Characters : db[d] # None}}
Cached  == {token[s].refresh : s \in {t \in Sources : token[t] # None}}
Passing == {call[p].new.refresh : p \in {q \in Callers :
              call[q] # None /\ call[q].step \in {"validate", "persistAccess"}}}
Flying  == UNION {Unsaved(p) : p \in Callers}

(* No live refresh token silently disappears: each is in a row, or carried *)
(* by a call that is about to store it, or was given up by a recorded      *)
(* fault (a failed write, a lost answer, a crash, a panic, a deleted row)  *)
(* or replaced by another grant.  In particular a token that fails         *)
(* verification never costs the rotated refresh token: Token() stores it   *)
(* first.                                                                  *)
NoSilentLoss == live \subseteq dropped \cup Stored \cup Flying

(* Within a grant the refresh token of a row only moves to a later one. *)
RowsMoveForward ==
    \A c \in Characters :
        (/\ db[c] # None
         /\ db'[c] # None
         /\ db'[c].refresh.grant = db[c].refresh.grant)
          => db'[c].refresh.n >= db[c].refresh.n

(* Sources that rotate the same grant and write at different speeds never  *)
(* put an older refresh token back over a newer one.                       *)
MonotoneStore == [][RowsMoveForward]_vars

(* A row and every token used for it belong to one character: what a       *)
(* source refreshes and writes back is never another character's.          *)
OwnTokens ==
    /\ \A c \in Characters :
         db[c] # None => db[c].access.who = c /\ db[c].refresh.who = c
    /\ \A s \in Sources :
         token[s] # None /\ character[s] # None
           => token[s].refresh.who = character[s].who

(* A character is marked inactive only when its user revoked a grant: the  *)
(* reading README.md:218 and README.md:477 give of an inactive row.        *)
InactiveMeansRevoked ==
    \A c \in Characters :
        db[c] # None /\ ~db[c].active => \E r \in revoked : r.who = c

(* What the code does provide, for a source that is the only one of its    *)
(* characters and an SSO that answers live tokens.  A call marks its       *)
(* character inactive only if the very refresh token it presented had been *)
(* revoked, or had been rotated by a call that was cut short before it     *)
(* replaced the cache: a lost answer, a rejected token, a crash, a write   *)
(* that failed or that a re-authorization or a deletion overtook.  An      *)
(* inactive row has had such a token.  Re-authorizations and deletions at  *)
(* any other moment, and callers that wait for each other, do no harm.     *)
InactiveHasACause ==
    /\ \A p \in Callers :
         At(p, "deactivate") => Presented(p) \in revoked \cup missed
    /\ \A c \in Characters :
         db[c] # None /\ ~db[c].active => \E r \in revoked \cup missed : r.who = c

(* When some active row satisfies a TokenSource's request, its look-up     *)
(* finds a row (README.md:201: Valid() tells whether a character already   *)
(* satisfies the scope set).                                               *)
SatisfyingCharacterIsFound ==
    \A p \in Callers :
        At(p, "find") /\ Matches(Src(p)) # {}
          => \E c \in Characters : Matches(Src(p)) = {c}

(* A completed authorization leaves its row active (README.md:477: an      *)
(* inactive character is skipped until it is re-authorized).               *)
AuthorizationActivates ==
    [][\A c \in Characters : Authorize(c) => db'[c].active]_vars

(* A refreshed token can be written back: the source knows the row it      *)
(* belongs to (README.md:17: re-persisting the rotated refresh token       *)
(* happens behind the source).                                             *)
RefreshHasARow ==
    \A p \in Callers :
        call[p] # None /\ call[p].step \in WriteSteps => character[Src(p)] # None

(* Every call returns, on every error path, with two callers competing for *)
(* the lock.                                                               *)
CallsReturn == \A p \in Callers : call[p] # None ~> call[p] = None

-----------------------------------------------------------------------------
(* The inductive invariant behind NoSilentLoss and MonotoneStore.          *)

Held == Stored \cup Cached \cup Passing

(* Nobody knows a token the SSO has not issued. *)
OnlyIssued ==
    \A r \in Held \cup Flying \cup live : r.grant <= issued /\ r.n <= issued

(* The SSO honours one refresh token of a grant at a time. *)
OneLivePerGrant ==
    \A r1, r2 \in live : r1.grant = r2.grant => r1 = r2

(* Two calls never carry refresh tokens of one grant. *)
OneFlightPerGrant ==
    \A p, q \in Callers :
        InFlight(p) /\ InFlight(q) /\ p # q
          => call[p].new.refresh.grant # call[q].new.refresh.grant

(* A refresh token in flight is newer than every other one of its grant,   *)
(* and no other one of its grant is honoured.                              *)
FlightIsTip ==
    \A p \in Callers : InFlight(p) =>
        LET r == call[p].new.refresh
        IN  /\ \A h \in Held : h.grant = r.grant => h.n < r.n
            /\ \A l \in live : l.grant = r.grant => l = r

GrantInv ==
    /\ OnlyIssued
    /\ OneLivePerGrant
    /\ OneFlightPerGrant
    /\ FlightIsTip

-----------------------------------------------------------------------------
(* The abstract specification.                                             *)

Issuable == [who : Characters, grant : 0..MaxTokens, n : 0..MaxTokens]

Vault == INSTANCE TokenVault WITH
    Keys    <- Characters,
    Tokens  <- Issuable,
    Grant   <- [r \in Issuable |-> r.grant],
    Order   <- [r \in Issuable |-> r.n],
    row     <- [c \in Characters |-> IF db[c] = None THEN None ELSE db[c].refresh],
    pending <- Flying,
    lost    <- dropped

(* Whatever sources, callers, faults and the SSO do, rows and tokens on    *)
(* their way to them behave as the vault promises: each step of Token()    *)
(* and Save() is one of the vault's, or none.                              *)
KeepsVault == Vault!Spec
=============================================================================
