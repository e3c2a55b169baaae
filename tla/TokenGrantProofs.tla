-------------------------- MODULE TokenGrantProofs --------------------------
(***************************************************************************)
(* Refresh tokens are neither lost nor put back: NoSilentLoss and          *)
(* MonotoneStore of TokenSource, for every value of its constants.  And,   *)
(* with one source, a row is marked inactive only for a token that was     *)
(* revoked or that a call cut short has left behind: InactiveHasACause.    *)
(***************************************************************************)
EXTENDS TokenSourceProofs

(* What each step keeps, and what it must not do to a row. *)
GrantIInv == GrantInv /\ NoSilentLoss

Kept == GrantIInv' /\ RowsMoveForward

-----------------------------------------------------------------------------
(* Facts about the sets of refresh tokens.                                 *)

(* Every refresh token anybody has is a token. *)
LEMMA TokensAreIds ==
    ASSUME TypeOK
    PROVE  Held \subseteq Id /\ Flying \subseteq Id
<1> USE DEF TypeOK, Call, NewSteps, UnsavedSteps
<1>1. Stored \subseteq Id
  BY DEF Stored, Row
<1>2. Cached \subseteq Id
  BY DEF Cached, Pair
<1>3. Passing \subseteq Id
  BY DEF Passing, Pair
<1>4. Flying \subseteq Id
  BY DEF Flying, Unsaved, InFlight, Pair
<1> QED BY <1>1, <1>2, <1>3, <1>4 DEF Held

(* A row whose refresh token changes grant, or that goes, displaces it. *)
LEMMA DisplacedHas ==
    ASSUME NEW db2, NEW c \in Characters, db[c] # None,
           db2[c] = None \/ db2[c].refresh.grant # db[c].refresh.grant
    PROVE  db[c].refresh \in Displaced(db2)
BY DEF Displaced

(* What the refresh column holds after each statement. *)
LEMMA UpdateAccessTokenRefresh ==
    ASSUME db \in Tables, NEW h \in Handle \cup {None}, NEW t \in Id,
           NEW c \in Characters
    PROVE  LET db2 == UpdateAccessToken(h, t)
           IN  /\ db2[c] # None <=> db[c] # None
               /\ db2[c] # None => db2[c].refresh = db[c].refresh
BY ConstantsAssumption DEF Tables, UpdateAccessToken, Names, Row

LEMMA UpdateActiveStateRefresh ==
    ASSUME db \in Tables, NEW h \in Handle \cup {None}, NEW b \in BOOLEAN,
           NEW c \in Characters
    PROVE  LET db2 == UpdateActiveState(h, b)
           IN  /\ db2[c] # None <=> db[c] # None
               /\ db2[c] # None => db2[c].refresh = db[c].refresh
BY ConstantsAssumption DEF Tables, UpdateActiveState, Names, Row

LEMMA UpdateRefreshTokenRefresh ==
    ASSUME db \in Tables, NEW h \in Handle, NEW t \in Id, Names(h),
           NEW c \in Characters
    PROVE  LET db2 == UpdateRefreshToken(h, t)
           IN  /\ c = h.who => db2[c] # None /\ db2[c].refresh = t
               /\ c # h.who => db2[c] = db[c]
BY ConstantsAssumption DEF Tables, UpdateRefreshToken, Names, Row

LEMMA CreateCharacterRefresh ==
    ASSUME db \in Tables, NEW d \in Characters, NEW pair \in Pair,
           NEW c \in Characters
    PROVE  LET db2 == CreateCharacter(d, pair)
           IN  /\ c = d => db2[c] # None /\ db2[c].refresh = pair.refresh
               /\ c # d => db2[c] = db[c]
<1>2. CASE c = d /\ db[d] = None
  <2>1. CreateCharacter(d, pair)[c] =
          [id |-> pair.access.n, active |-> TRUE,
           access |-> pair.access, refresh |-> pair.refresh]
    BY <1>2 DEF Tables, CreateCharacter
  <2>2. CreateCharacter(d, pair)[c] \in Row
    BY <2>1 DEF Row, Pair, Id
  <2>3. CreateCharacter(d, pair)[c].refresh = pair.refresh
    BY <2>1
  <2>4. CreateCharacter(d, pair)[c] # None
    BY <2>2, ConstantsAssumption
  <2> QED BY <1>2, <2>3, <2>4
<1>3. CASE c = d /\ db[d] # None
  <2>1. CreateCharacter(d, pair)[c] = [db[d] EXCEPT !.refresh = pair.refresh]
    BY <1>3 DEF Tables, CreateCharacter
  <2>2. db[d] \in Row
    BY <1>3 DEF Tables
  <2>3. CreateCharacter(d, pair)[c] \in Row
    BY <2>1, <2>2 DEF Row, Pair
  <2> QED BY <1>3, <2>1, <2>2, <2>3, ConstantsAssumption DEF Row
<1>4. CASE c # d
  BY <1>4 DEF Tables, CreateCharacter
<1> QED BY <1>2, <1>3, <1>4

(* A step that moves no refresh token to a new place and gives up the ones *)
(* it drops keeps everything.                                              *)
LEMMA Frame ==
    ASSUME TypeOK, GrantIInv,
           \A c \in Characters : db'[c] # None =>
              db[c] # None /\ db'[c].refresh = db[c].refresh,
           \A c \in Characters : db[c] # None =>
              db'[c] # None \/ db[c].refresh \in dropped',
           \A s \in Sources : token'[s] # None => token'[s].refresh \in Held,
           \A p \in Callers : InFlight(p)' =>
              InFlight(p) /\ call'[p].new.refresh = call[p].new.refresh,
           \A p \in Callers :
              call'[p] # None /\ call'[p].step \in {"validate", "persistAccess"}
                => call'[p].new.refresh \in Held,
           \A p \in Callers : InFlight(p) =>
              InFlight(p)' \/ call[p].new.refresh \in dropped',
           live' \subseteq live, dropped \subseteq dropped',
           issued' \in Nat, issued' >= issued
    PROVE  Kept
<1>1. Held' \subseteq Held
  BY DEF Held, Stored, Cached, Passing
<1>2. Flying' \subseteq Flying
  BY DEF Flying, Unsaved
<1>3. Stored \subseteq Stored' \cup dropped'
  BY DEF Stored
<1>4. Flying \subseteq Flying' \cup dropped'
  BY DEF Flying, Unsaved
<1>5. NoSilentLoss'
  BY <1>3, <1>4 DEF NoSilentLoss, GrantIInv
<1>6. OnlyIssued'
  <2>1. \A r \in Held \cup Flying \cup live :
          r.grant \in Nat /\ r.n \in Nat /\ r.grant <= issued /\ r.n <= issued
    BY TokensAreIds DEF GrantIInv, GrantInv, OnlyIssued, TypeOK, Id
  <2>2. issued \in Nat
    BY DEF TypeOK
  <2> QED BY <1>1, <1>2, <2>1, <2>2 DEF OnlyIssued
<1>7. OneLivePerGrant'
  BY DEF GrantIInv, GrantInv, OneLivePerGrant
<1>8. OneFlightPerGrant'
  BY DEF GrantIInv, GrantInv, OneFlightPerGrant
<1>9. FlightIsTip'
  BY <1>1 DEF GrantIInv, GrantInv, FlightIsTip
<1>10. RowsMoveForward
  BY DEF RowsMoveForward, TypeOK, Row, Id
<1> QED BY <1>5, <1>6, <1>7, <1>8, <1>9, <1>10 DEF Kept, GrantIInv, GrantInv

-----------------------------------------------------------------------------
(* The steps at which the SSO issues a refresh token, and those that store *)
(* one.                                                                    *)

(* No call in flight shares its grant with a live token that is held. *)
LEMMA HeldLiveGrantIsNotInFlight ==
    ASSUME TypeOK, GrantIInv, NEW t \in Held \cap live,
           NEW p \in Callers, InFlight(p)
    PROVE  call[p].new.refresh.grant # t.grant
<1> SUFFICES ASSUME call[p].new.refresh.grant = t.grant PROVE FALSE
  OBVIOUS
<1>1. t.n < call[p].new.refresh.n /\ t = call[p].new.refresh
  BY DEF GrantIInv, GrantInv, FlightIsTip
<1>2. t.n \in Nat
  BY TokensAreIds DEF Id
<1> QED BY <1>1, <1>2

LEMMA RotatedStep ==
    ASSUME TypeOK, GrantIInv, NEW p \in Callers, RefreshRotated(p)
    PROVE  Kept
<1> DEFINE pres == Presented(p)
           r    == Fresh(p)
<1>1. /\ pres \in Held \cap live
      /\ issued \in Nat /\ issued' = issued + 1
      /\ call \in [Callers -> Call \cup {None}]
      /\ call[p] # None /\ call[p].step = "refresh"
      /\ ~InFlight(p)
  BY DEF RefreshRotated, Honoured, Refreshing, Presented, At, Held, Cached, TypeOK,
         InFlight, UnsavedSteps, Src, Call
<1>2. /\ r \in Id /\ r.grant = pres.grant /\ r.n = issued + 1
      /\ pres \in Id
  BY <1>1, TokensAreIds DEF Fresh, Id
<1>3. /\ InFlight(p)' /\ call'[p].new.refresh = r
      /\ \A q \in Callers \ {p} : call'[q] = call[q]
  <2>1. /\ call'[p] = [step |-> "persistRefresh", src |-> Src(p),
                       new |-> [access |-> r, refresh |-> r]]
        /\ \A q \in Callers \ {p} : call'[q] = call[q]
    BY <1>1 DEF RefreshRotated, Answered
  <2>2. Src(p) \in Sources
    BY <1>1 DEF Src, Call
  <2>3. call'[p] \in Call
    BY <1>2, <2>1, <2>2 DEF Call, Steps, WriteSteps, Pair
  <2>4. call'[p] # None
    BY <2>3, ConstantsAssumption
  <2> QED BY <2>1, <2>4 DEF InFlight, UnsavedSteps
<1>4. Held' \subseteq Held
  BY <1>3 DEF RefreshRotated, mem, Held, Stored, Cached, Passing, InFlight, UnsavedSteps
<1>5. Flying' = Flying \cup {r}
  BY <1>1, <1>3 DEF Flying, Unsaved, InFlight
<1>6. live' = (live \ {pres}) \cup {r}
  BY DEF RefreshRotated, Rotate
<1>7. OnlyIssued'
  <2>1. \A x \in Held \cup Flying \cup live :
          x.grant \in Nat /\ x.n \in Nat /\ x.grant <= issued /\ x.n <= issued
    BY TokensAreIds DEF GrantIInv, GrantInv, OnlyIssued, TypeOK, Id
  <2>2. r.grant <= issued
    BY <1>1, <1>2, <2>1
  <2> QED BY <1>1, <1>2, <1>4, <1>5, <1>6, <2>1, <2>2 DEF OnlyIssued
<1>8. OneLivePerGrant'
  BY <1>1, <1>2, <1>6 DEF GrantIInv, GrantInv, OneLivePerGrant
<1>9. \A q \in Callers \ {p} : InFlight(q)' =>
        InFlight(q) /\ call'[q] = call[q] /\ call[q].new.refresh.grant # r.grant
  BY <1>1, <1>2, <1>3, HeldLiveGrantIsNotInFlight DEF InFlight
<1>10. OneFlightPerGrant'
  BY <1>3, <1>9 DEF GrantIInv, GrantInv, OneFlightPerGrant
<1>11. FlightIsTip'
  <2>1. \A h \in Held' : h.n < r.n
    BY <1>1, <1>2, <1>4, TokensAreIds DEF GrantIInv, GrantInv, OnlyIssued, Id
  <2>2. \A l \in live' : l.grant = r.grant => l = r
    BY <1>1, <1>2, <1>6 DEF GrantIInv, GrantInv, OneLivePerGrant
  <2>3. ASSUME NEW q \in Callers, q # p, InFlight(q)'
        PROVE  LET x == call'[q].new.refresh
               IN  /\ \A h \in Held' : h.grant = x.grant => h.n < x.n
                   /\ \A l \in live' : l.grant = x.grant => l = x
    BY <1>4, <1>6, <1>9, <2>3 DEF GrantIInv, GrantInv, FlightIsTip
  <2> QED BY <1>3, <2>1, <2>2, <2>3 DEF FlightIsTip
<1>12. NoSilentLoss'
  BY <1>5, <1>6 DEF RefreshRotated, history, mem, GrantIInv, NoSilentLoss, Stored
<1>13. RowsMoveForward
  BY DEF RefreshRotated, RowsMoveForward, TypeOK, Row, Id
<1> QED BY <1>7, <1>8, <1>10, <1>11, <1>12, <1>13 DEF Kept, GrantIInv, GrantInv

LEMMA LostStep ==
    ASSUME TypeOK, GrantIInv, NEW p \in Callers, RefreshLost(p)
    PROVE  Kept
<1> DEFINE pres == Presented(p)
           r    == Fresh(p)
<1>1. /\ pres \in Held \cap live
      /\ issued \in Nat /\ issued' = issued + 1
  BY DEF RefreshLost, Honoured, Refreshing, Presented, At, Held, Cached, TypeOK, Src, Call
<1>2. /\ r \in Id /\ r.grant = pres.grant /\ r.n = issued + 1
      /\ pres \in Id
  BY <1>1, TokensAreIds DEF Fresh, Id
<1>3. /\ call'[p] = None
      /\ \A q \in Callers \ {p} : call'[q] = call[q]
  BY DEF RefreshLost, Return, TypeOK
<1>4. Held' \subseteq Held
  BY <1>3 DEF RefreshLost, mem, Held, Stored, Cached, Passing
<1>5. ~InFlight(p) /\ Flying' = Flying
  BY <1>3 DEF RefreshLost, Honoured, Refreshing, At, Flying, Unsaved, InFlight, UnsavedSteps
<1>6. live' = (live \ {pres}) \cup {r}
  BY DEF RefreshLost, Rotate
<1>7. OnlyIssued'
  <2>1. \A x \in Held \cup Flying \cup live :
          x.grant \in Nat /\ x.n \in Nat /\ x.grant <= issued /\ x.n <= issued
    BY TokensAreIds DEF GrantIInv, GrantInv, OnlyIssued, TypeOK, Id
  <2>2. r.grant <= issued
    BY <1>1, <1>2, <2>1
  <2> QED BY <1>1, <1>2, <1>4, <1>5, <1>6, <2>1, <2>2 DEF OnlyIssued
<1>8. OneLivePerGrant'
  BY <1>1, <1>2, <1>6 DEF GrantIInv, GrantInv, OneLivePerGrant
<1>9. \A q \in Callers : InFlight(q)' =>
        InFlight(q) /\ call'[q] = call[q] /\ call[q].new.refresh.grant # r.grant
  BY <1>1, <1>2, <1>3, HeldLiveGrantIsNotInFlight DEF InFlight
<1>10. OneFlightPerGrant'
  BY <1>9 DEF GrantIInv, GrantInv, OneFlightPerGrant
<1>11. FlightIsTip'
  BY <1>4, <1>6, <1>9 DEF GrantIInv, GrantInv, FlightIsTip
<1>12. NoSilentLoss'
  BY <1>5, <1>6 DEF RefreshLost, mem, GrantIInv, NoSilentLoss, Stored
<1>13. RowsMoveForward
  BY DEF RefreshLost, RowsMoveForward, TypeOK, Row, Id
<1> QED BY <1>7, <1>8, <1>10, <1>11, <1>12, <1>13 DEF Kept, GrantIInv, GrantInv

(* What a statement keeps that stores the refresh token of p's call in row *)
(* c, or that finds no row and so drops it: p is in flight no longer.      *)
LEMMA LandStep ==
    ASSUME TypeOK, TypeOK', GrantIInv, NEW p \in Callers, NEW c \in Characters,
           InFlight(p), ~InFlight(p)',
           \A q \in Callers \ {p} : call'[q] = call[q],
           call'[p] # None /\ call'[p].step \in {"validate", "persistAccess"}
             => call'[p].new = call[p].new,
           \/ db'[c] # None /\ db'[c].refresh = call[p].new.refresh
           \/ db'[c] = db[c] /\ call[p].new.refresh \in dropped',
           \A d \in Characters \ {c} : db'[d] = db[d],
           \A s \in Sources :
             token'[s] # None => token'[s].refresh \in Held \cup Unsaved(p),
           dropped \cup Displaced(db') \subseteq dropped',
           live' = live, issued' = issued
    PROVE  Kept
<1> DEFINE r == call[p].new.refresh
<1>1. /\ Held \subseteq Id /\ Flying \subseteq Id /\ Held' \subseteq Id
      /\ r \in Flying /\ Unsaved(p) = {r}
  BY TokensAreIds DEF Flying, Unsaved, Held, Stored, Cached, Passing, TypeOK, Row, Pair,
     Call, NewSteps
<1>2. Held' \subseteq Held \cup {r}
  BY <1>1 DEF Held, Stored, Cached, Passing
<1>3. \A q \in Callers : InFlight(q)' =>
        /\ q # p /\ InFlight(q) /\ call'[q] = call[q]
        /\ call[q].new.refresh.grant # r.grant
  BY DEF InFlight, GrantIInv, GrantInv, OneFlightPerGrant
<1>4. Flying' \subseteq Flying /\ Flying \subseteq Flying' \cup {r}
  BY <1>1, <1>3 DEF Flying, Unsaved, InFlight
<1>5. OnlyIssued'
  BY <1>1, <1>2, <1>4 DEF GrantIInv, GrantInv, OnlyIssued
<1>6. OneLivePerGrant'
  BY DEF GrantIInv, GrantInv, OneLivePerGrant
<1>7. OneFlightPerGrant'
  BY <1>3 DEF GrantIInv, GrantInv, OneFlightPerGrant
<1>8. FlightIsTip'
  BY <1>2, <1>3 DEF GrantIInv, GrantInv, FlightIsTip
<1>9. ASSUME db[c] # None, db[c].refresh.grant = r.grant
      PROVE  db[c].refresh.n < r.n /\ db[c].refresh \notin live
  <2>1. db[c].refresh \in Held
    BY <1>9 DEF Held, Stored
  <2>2. db[c].refresh.n < r.n
    BY <1>9, <2>1 DEF GrantIInv, GrantInv, FlightIsTip
  <2>3. db[c].refresh # r
    BY <1>1, <2>1, <2>2 DEF Id
  <2> QED BY <1>9, <2>2, <2>3 DEF GrantIInv, GrantInv, FlightIsTip
<1>10. NoSilentLoss'
  <2>1. r \in Stored' \cup dropped'
    BY DEF Stored
  <2>2. ASSUME NEW d \in Characters, db[d] # None, db[d].refresh \in live
        PROVE  db[d].refresh \in dropped' \cup Stored'
    <3>1. CASE db'[d] = db[d]
      BY <2>2, <3>1 DEF Stored
    <3>2. CASE d = c /\ db'[c].refresh = r
      <4>1. db'[c].refresh.grant # db[c].refresh.grant
        BY <1>9, <2>2, <3>2
      <4>2. db[c].refresh \in Displaced(db')
        BY <2>2, <3>2, <4>1, DisplacedHas
      <4> QED BY <3>2, <4>2
    <3> QED BY <3>1, <3>2
  <2>3. live \cap Stored \subseteq dropped' \cup Stored'
    BY <2>2 DEF Stored
  <2> QED BY <1>4, <2>1, <2>3 DEF GrantIInv, NoSilentLoss
<1>11. RowsMoveForward
  <2>1. ASSUME NEW d \in Characters, db[d] # None, db'[d] # None,
               db'[d].refresh.grant = db[d].refresh.grant
        PROVE  db'[d].refresh.n >= db[d].refresh.n
    <3>1. db[d].refresh \in Id /\ r \in Id
      BY <1>1, <2>1 DEF Held, Stored
    <3>2. CASE d # c
      BY <2>1, <3>1, <3>2 DEF Id
    <3>3. CASE d = c
      BY <1>9, <2>1, <3>1, <3>3 DEF Id
    <3> QED BY <3>2, <3>3
  <2> QED BY <2>1 DEF RowsMoveForward
<1> QED BY <1>5, <1>6, <1>7, <1>8, <1>10, <1>11 DEF Kept, GrantIInv, GrantInv

LEMMA PersistRefreshStep ==
    ASSUME TypeOK, TypeOK', GrantIInv, NEW p \in Callers, PersistRefresh(p)
    PROVE  Kept
<1> DEFINE c == character[Src(p)].who
<1>1. /\ call[p] # None /\ call[p].step = "persistRefresh" /\ InFlight(p)
      /\ db \in Tables /\ call[p].new \in Pair /\ call[p].new.refresh \in Id
      /\ character[Src(p)] \in Handle /\ c \in Characters
  BY DEF PersistRefresh, At, InFlight, UnsavedSteps, TypeOK, Tables, Call, Pair, NewSteps,
         Src, Handle
<1>2. /\ ~InFlight(p)'
      /\ \A q \in Callers \ {p} : call'[q] = call[q]
      /\ call'[p] # None => call'[p].step = "validate" /\ call'[p].new = call[p].new
  BY <1>1 DEF PersistRefresh, Reported, Return, Goto, InFlight, UnsavedSteps, TypeOK, Call
<1>3. \/ db'[c] # None /\ db'[c].refresh = call[p].new.refresh
      \/ db'[c] = db[c] /\ call[p].new.refresh \in dropped'
  <2>1. CASE Names(character[Src(p)])
    BY <1>1, <2>1, UpdateRefreshTokenRefresh DEF PersistRefresh
  <2>2. CASE ~Names(character[Src(p)])
    BY <1>1, <2>2 DEF PersistRefresh, UpdateRefreshToken, Unsaved
  <2> QED BY <2>1, <2>2
<1>4. \A d \in Characters \ {c} : db'[d] = db[d]
  <2>1. CASE Names(character[Src(p)])
    BY <1>1, <2>1, UpdateRefreshTokenRefresh DEF PersistRefresh
  <2>2. CASE ~Names(character[Src(p)])
    BY <2>2 DEF PersistRefresh, UpdateRefreshToken
  <2> QED BY <2>1, <2>2
<1>5. /\ dropped \cup Displaced(db') \subseteq dropped'
      /\ live' = live /\ issued' = issued
      /\ \A s \in Sources :
           token'[s] # None => token'[s].refresh \in Held \cup Unsaved(p)
  BY DEF PersistRefresh, mem, sso, Held, Cached
<1> HIDE DEF c
<1> QED BY <1>1, <1>2, <1>3, <1>4, <1>5, LandStep

LEMMA CreateStep ==
    ASSUME TypeOK, TypeOK', GrantIInv, NEW p \in Callers, Create(p)
    PROVE  Kept
<1> DEFINE c == call[p].new.access.who
<1>1. /\ call[p] # None /\ call[p].step = "create" /\ InFlight(p)
      /\ db \in Tables /\ call[p].new \in Pair /\ c \in Characters
      /\ Src(p) \in Sources
  BY DEF Create, At, InFlight, UnsavedSteps, TypeOK, Tables, Call, Pair, Id, NewSteps, Src
<1>2. /\ call'[p] = None /\ ~InFlight(p)'
      /\ \A q \in Callers \ {p} : call'[q] = call[q]
  BY <1>1 DEF Create, Return, InFlight, TypeOK
<1>3. /\ db'[c] # None /\ db'[c].refresh = call[p].new.refresh
      /\ \A d \in Characters \ {c} : db'[d] = db[d]
  BY <1>1, CreateCharacterRefresh DEF Create
<1>4. ASSUME NEW s \in Sources, token'[s] # None
      PROVE  token'[s].refresh \in Held \cup Unsaved(p)
  BY <1>1, <1>4 DEF Create, Held, Cached, Unsaved, TypeOK
<1>5. /\ dropped \cup Displaced(db') \subseteq dropped'
      /\ live' = live /\ issued' = issued
  BY DEF Create, sso
<1> HIDE DEF c
<1> QED BY <1>1, <1>2, <1>3, <1>4, <1>5, LandStep
(* A new grant: its first token is newer than, and of no grant of, any     *)
(* other.                                                                  *)
LEMMA FirstPairIsNew ==
    ASSUME TypeOK, GrantIInv, NEW c \in Characters
    PROVE  /\ FirstPair(c) \in Pair
           /\ FirstPair(c).refresh.grant = issued + 1
           /\ FirstPair(c).refresh.n = issued + 1
           /\ \A x \in Held \cup Flying \cup live :
                /\ x.grant \in Nat /\ x.n \in Nat
                /\ x.grant <= issued /\ x.n <= issued
<1>1. issued \in Nat
  BY DEF TypeOK
<1>2. FirstPair(c) \in Pair
  BY <1>1 DEF FirstPair, Pair, Id
<1>3. \A x \in Held \cup Flying \cup live : x \in Id
  BY TokensAreIds DEF TypeOK
<1>4. FirstPair(c).refresh.grant = issued + 1 /\ FirstPair(c).refresh.n = issued + 1
  BY DEF FirstPair
<1> QED BY <1>2, <1>3, <1>4 DEF GrantIInv, GrantInv, OnlyIssued, Id

LEMMA AuthorizeStep ==
    ASSUME TypeOK, GrantIInv, NEW c \in Characters, Authorize(c)
    PROVE  Kept
<1> DEFINE r == FirstPair(c).refresh
<1>1. /\ FirstPair(c) \in Pair /\ r \in Id
      /\ r.grant = issued + 1 /\ r.n = issued + 1
      /\ issued \in Nat /\ issued' = issued + 1
      /\ db \in Tables
  BY FirstPairIsNew DEF Authorize, TypeOK, Tables, Pair
<1>2. \A x \in Held \cup Flying \cup live :
        x.grant \in Nat /\ x.n \in Nat /\ x.grant <= issued /\ x.n <= issued
  BY FirstPairIsNew
<1>3. /\ db'[c] # None /\ db'[c].refresh = r
      /\ \A d \in Characters \ {c} : db'[d] = db[d]
  BY <1>1, CreateCharacterRefresh DEF Authorize
<1>4. UNCHANGED <<token, call>> /\ live' = live \cup {r}
  BY DEF Authorize, mem, control
<1> HIDE DEF r
<1>5. Held' \subseteq Held \cup {r} /\ Flying' = Flying
  BY <1>3, <1>4 DEF Held, Stored, Cached, Passing, Flying, Unsaved, InFlight
<1>6. \A q \in Callers : InFlight(q)' =>
        /\ InFlight(q) /\ call'[q].new.refresh = call[q].new.refresh
        /\ call[q].new.refresh.grant # r.grant
  <2>1. \A q \in Callers : InFlight(q) => call[q].new.refresh \in Flying
    BY DEF Flying, Unsaved
  <2> QED BY <1>1, <1>2, <1>4, <2>1 DEF InFlight
<1>7. OnlyIssued'
  BY <1>1, <1>2, <1>4, <1>5 DEF OnlyIssued
<1>8. OneLivePerGrant'
  BY <1>1, <1>2, <1>4 DEF GrantIInv, GrantInv, OneLivePerGrant
<1>9. OneFlightPerGrant'
  BY <1>6 DEF GrantIInv, GrantInv, OneFlightPerGrant
<1>10. FlightIsTip'
  BY <1>4, <1>5, <1>6 DEF GrantIInv, GrantInv, FlightIsTip
<1>11. ASSUME NEW d \in Characters, db[d] # None
       PROVE  /\ db[d].refresh \in Stored' \cup dropped'
              /\ db'[d] = db[d] \/ db'[d].refresh.grant # db[d].refresh.grant
  <2>1. CASE d # c
    BY <1>3, <1>11, <2>1 DEF Stored
  <2>2. CASE d = c
    <3>1. db'[c].refresh.grant # db[c].refresh.grant
      BY <1>1, <1>2, <1>3, <1>11, <2>2 DEF Held, Stored
    <3> QED BY <1>11, <2>2, <3>1, DisplacedHas DEF Authorize
  <2> QED BY <2>1, <2>2
<1>12. NoSilentLoss'
  <2>1. Stored \subseteq Stored' \cup dropped'
    BY <1>11 DEF Stored
  <2>2. r \in Stored' /\ dropped \subseteq dropped'
    BY <1>3 DEF Stored, Authorize
  <2> QED BY <1>4, <1>5, <2>1, <2>2 DEF GrantIInv, NoSilentLoss
<1>13. RowsMoveForward
  <2>1. \A d \in Characters : db[d] # None => db[d].refresh \in Id
    BY DEF TypeOK, Row
  <2> QED BY <1>11, <2>1 DEF RowsMoveForward, Id
<1> QED BY <1>7, <1>8, <1>9, <1>10, <1>12, <1>13 DEF Kept, GrantIInv, GrantInv

LEMMA CallSaveStep ==
    ASSUME TypeOK, TypeOK', GrantIInv, NEW p \in Callers, NEW s \in Sources, CallSave(p, s)
    PROVE  Kept
<1> PICK c \in Saved[s] :
      /\ live' = live \cup {FirstPair(c).refresh}
      /\ call' = [call EXCEPT ![p] =
                    [step |-> "saveLock", src |-> s, new |-> FirstPair(c)]]
  BY DEF CallSave
<1> DEFINE r == FirstPair(c).refresh
<1>1. /\ c \in Characters /\ r \in Id
      /\ r.grant = issued + 1 /\ r.n = issued + 1
      /\ issued \in Nat /\ issued' = issued + 1
  BY ConstantsAssumption, FirstPairIsNew DEF CallSave, TypeOK, Pair
<1>2. \A x \in Held \cup Flying \cup live :
        x.grant \in Nat /\ x.n \in Nat /\ x.grant <= issued /\ x.n <= issued
  BY <1>1, FirstPairIsNew
<1>3. /\ ~InFlight(p)
      /\ call'[p] = [step |-> "saveLock", src |-> s, new |-> FirstPair(c)]
      /\ \A q \in Callers \ {p} : call'[q] = call[q]
  BY DEF CallSave, InFlight, TypeOK
<1>4. InFlight(p)' /\ call'[p].new.refresh = r
  <2>1. FirstPair(c) \in Pair
    BY <1>1, FirstPairIsNew
  <2>2. call'[p] \in Call
    BY <1>3, <2>1 DEF Call, Steps, WaitSteps
  <2> QED BY <1>3, <2>2, ConstantsAssumption DEF InFlight, UnsavedSteps
<1>5. UNCHANGED <<db, token, dropped>> /\ live' = live \cup {r}
  BY DEF CallSave, mem, history
<1> HIDE DEF r
<1>6. Held' \subseteq Held /\ Stored' = Stored
  BY <1>3, <1>5 DEF Held, Stored, Cached, Passing
<1>7. Flying' = Flying \cup {r}
  BY <1>3, <1>4 DEF Flying, Unsaved, InFlight
<1>8. \A q \in Callers \ {p} : InFlight(q)' =>
        /\ InFlight(q) /\ call'[q].new.refresh = call[q].new.refresh
        /\ call[q].new.refresh.grant # r.grant
  <2>1. \A q \in Callers : InFlight(q) => call[q].new.refresh \in Flying
    BY DEF Flying, Unsaved
  <2> QED BY <1>1, <1>2, <1>3, <2>1 DEF InFlight
<1>9. OnlyIssued'
  BY <1>1, <1>2, <1>5, <1>6, <1>7 DEF OnlyIssued
<1>10. OneLivePerGrant'
  BY <1>1, <1>2, <1>5 DEF GrantIInv, GrantInv, OneLivePerGrant
<1>11. OneFlightPerGrant'
  BY <1>4, <1>8 DEF GrantIInv, GrantInv, OneFlightPerGrant
<1>12. FlightIsTip'
  <2>1. ASSUME NEW q \in Callers, q # p, InFlight(q)'
        PROVE  LET x == call'[q].new.refresh
               IN  /\ \A h \in Held' : h.grant = x.grant => h.n < x.n
                   /\ \A l \in live' : l.grant = x.grant => l = x
    BY <1>5, <1>6, <1>8, <2>1 DEF GrantIInv, GrantInv, FlightIsTip
  <2>2. /\ \A h \in Held' : h.grant # r.grant
        /\ \A l \in live' : l.grant = r.grant => l = r
    BY <1>1, <1>2, <1>5, <1>6
  <2> QED BY <1>4, <2>1, <2>2 DEF FlightIsTip
<1>13. NoSilentLoss'
  BY <1>5, <1>6, <1>7 DEF GrantIInv, NoSilentLoss
<1>14. RowsMoveForward
  BY <1>5 DEF RowsMoveForward, TypeOK, Row, Id
<1> QED BY <1>9, <1>10, <1>11, <1>12, <1>13, <1>14 DEF Kept, GrantIInv, GrantInv
-----------------------------------------------------------------------------
(* A step of one call that moves no refresh token.                         *)

LEMMA CallStep ==
    ASSUME TypeOK, GrantIInv, NEW p \in Callers,
           \A q \in Callers \ {p} : call'[q] = call[q],
           InFlight(p)' => InFlight(p) /\ call'[p].new.refresh = call[p].new.refresh,
           InFlight(p) => InFlight(p)' \/ call[p].new.refresh \in dropped',
           call'[p] # None /\ call'[p].step \in {"validate", "persistAccess"}
             => call'[p].new.refresh \in Held,
           \A c \in Characters :
             /\ db'[c] # None <=> db[c] # None
             /\ db'[c] # None => db'[c].refresh = db[c].refresh,
           \A s \in Sources : token'[s] # None => token'[s].refresh \in Held,
           dropped \subseteq dropped',
           live' = live, issued' \in {issued, issued + 1}
    PROVE  Kept
<1>1. \A q \in Callers : InFlight(q)' =>
        InFlight(q) /\ call'[q].new.refresh = call[q].new.refresh
  BY DEF InFlight
<1>2. \A q \in Callers : InFlight(q) =>
        InFlight(q)' \/ call[q].new.refresh \in dropped'
  BY DEF InFlight
<1>3. ASSUME NEW q \in Callers, call'[q] # None,
             call'[q].step \in {"validate", "persistAccess"}
      PROVE  call'[q].new.refresh \in Held
  BY <1>3 DEF Held, Passing
<1>4. issued' \in Nat /\ issued' >= issued
  BY DEF TypeOK
<1> QED BY <1>1, <1>2, <1>3, <1>4, Frame

LEMMA GrantStep == TypeOK /\ TypeOK' /\ GrantIInv /\ [Next]_vars => Kept
<1> SUFFICES ASSUME TypeOK, TypeOK', GrantIInv, [Next]_vars PROVE Kept
  OBVIOUS
<1>0. /\ call \in [Callers -> Call \cup {None}] /\ token \in [Sources -> Pair \cup {None}]
      /\ issued \in Nat /\ db \in Tables
  BY DEF TypeOK, Tables
<1>h. \A s \in Sources : token[s] # None => token[s].refresh \in Held
  BY DEF Held, Cached
<1> USE <1>0, <1>h, CallStep DEF sso, mem, control, history, At, Src, Goto, Return, InFlight, UnsavedSteps,
       Call, WaitSteps, WriteSteps
<1>1. ASSUME NEW p \in Callers, NEW s \in Sources, CallToken(p, s)
      PROVE  Kept
  BY <1>1 DEF CallToken
<1>2. ASSUME NEW p \in Callers, NEW s \in Sources, CallSave(p, s)
      PROVE  Kept
  BY <1>2, CallSaveStep
<1>3. ASSUME NEW p \in Callers, Lock(p)
      PROVE  Kept
  <2>1. /\ call[p] # None /\ call[p].step \in WaitSteps
        /\ call'[p].new = call[p].new
        /\ call'[p].step \in {"saveValidate", "refresh", "load", "find"}
        /\ call'[p].step = "saveValidate" => call[p].step = "saveLock"
        /\ call[p].step = "saveLock" => call'[p].step = "saveValidate"
    BY <1>3 DEF Lock, FirstStep
  <2>2. call'[p] # None
    <3>1. PICK x \in Steps : call'[p] = [call[p] EXCEPT !.step = x]
      BY <1>3 DEF Lock, FirstStep, Steps
    <3>2. call'[p] \in Call
      BY <2>1, <3>1
    <3> QED BY <3>2, ConstantsAssumption
  <2>3. /\ \A q \in Callers \ {p} : call'[q] = call[q]
        /\ UNCHANGED <<db, token, live, issued, dropped>>
    BY <1>3 DEF Lock
  <2> QED BY <2>1, <2>2, <2>3
<1>4. ASSUME NEW p \in Callers, Find(p)
      PROVE  Kept
  BY <1>4 DEF Find
<1>5. ASSUME NEW p \in Callers, FindFails(p)
      PROVE  Kept
  BY <1>5 DEF FindFails
<1>6. ASSUME NEW p \in Callers, Load(p)
      PROVE  Kept
  <2>1. ASSUME NEW s \in Sources, token'[s] # None
        PROVE  token'[s].refresh \in Held
    <3>1. CASE s # Src(p)
      BY <1>6, <2>1, <3>1 DEF Load, Held, Cached, TypeOK
    <3>2. CASE s = Src(p)
      <4> DEFINE h == character[Src(p)]
      <4>0. Names(h) /\ h \in Handle \cup {None}
        BY <1>6, <3>2 DEF Load, TypeOK
      <4>1. /\ h.who \in Characters /\ db[h.who] # None
            /\ token' = [token EXCEPT ![Src(p)] = [access  |-> db[h.who].access,
                                                   refresh |-> db[h.who].refresh]]
        <5>1. h.who \in Characters /\ db[h.who] # None
          BY <4>0 DEF Names, Handle
        <5>2. token' = [token EXCEPT ![Src(p)] = [access  |-> db[h.who].access,
                                                 refresh |-> db[h.who].refresh]]
          BY <1>6 DEF Load
        <5> QED BY <5>1, <5>2
      <4>2. token'[s].refresh = db[h.who].refresh
        BY <2>1, <3>2, <4>1 DEF TypeOK
      <4> QED BY <4>1, <4>2 DEF Held, Stored
    <3> QED BY <3>1, <3>2
  <2>2. /\ call[p] # None /\ call[p].step = "load"
        /\ call' = [call EXCEPT ![p].step = "refresh"]
        /\ UNCHANGED <<db, live, issued, dropped>>
    BY <1>6 DEF Load
  <2> QED BY <2>1, <2>2
<1>7. ASSUME NEW p \in Callers, LoadFails(p)
      PROVE  Kept
  BY <1>7 DEF LoadFails
<1>8. ASSUME NEW p \in Callers, UseCached(p)
      PROVE  Kept
  BY <1>8 DEF UseCached
<1>9. ASSUME NEW p \in Callers, RefreshKept(p)
      PROVE  Kept
  <2>1. Presented(p) \in Held
    BY <1>9 DEF RefreshKept, Honoured, Refreshing, Presented, TypeOK
  <2>2. call'[p].new.refresh = Presented(p) /\ call'[p].step = "validate"
    BY <1>9 DEF RefreshKept, Honoured, Refreshing, Answered
  <2>3. \A q \in Callers \ {p} : call'[q] = call[q]
    BY <1>9 DEF RefreshKept, Answered
  <2>4. ~InFlight(p) /\ ~InFlight(p)'
    BY <1>9, <2>2 DEF RefreshKept, Honoured, Refreshing
  <2> QED BY <1>9, <2>1, <2>2, <2>3, <2>4 DEF RefreshKept, Honoured
<1>10. ASSUME NEW p \in Callers, RefreshRotated(p)
      PROVE  Kept
  BY <1>10, RotatedStep
<1>11. ASSUME NEW p \in Callers, RefreshLost(p)
      PROVE  Kept
  BY <1>11, LostStep
<1>12. ASSUME NEW p \in Callers, RefreshUnreachable(p)
      PROVE  Kept
  BY <1>12 DEF RefreshUnreachable, Refreshing
<1>13. ASSUME NEW p \in Callers, RefreshRefused(p)
      PROVE  Kept
  BY <1>13 DEF RefreshRefused, Refreshing
<1>14. ASSUME NEW p \in Callers, Deactivate(p)
      PROVE  Kept
  <2>1. \A c \in Characters :
          /\ db'[c] # None <=> db[c] # None
          /\ db'[c] # None => db'[c].refresh = db[c].refresh
    <3>1. /\ character[Src(p)] \in Handle \cup {None}
          /\ db' = UpdateActiveState(character[Src(p)], FALSE)
      BY <1>14 DEF Deactivate, TypeOK
    <3> QED BY <3>1, UpdateActiveStateRefresh
  <2> QED BY <1>14, <2>1 DEF Deactivate
<1>15. ASSUME NEW p \in Callers, PersistRefresh(p)
      PROVE  Kept
  BY <1>15, PersistRefreshStep
<1>16. ASSUME NEW p \in Callers, Validate(p)
      PROVE  Kept
  <2>1. call[p].new.refresh \in Held
    BY <1>16 DEF Validate, Held, Passing
  <2>2. call'[p].new = call[p].new
    BY <1>16 DEF Validate
  <2> QED BY <1>16, <2>1, <2>2 DEF Validate
<1>17. ASSUME NEW p \in Callers, ValidateFails(p)
      PROVE  Kept
  BY <1>17 DEF ValidateFails
<1>18. ASSUME NEW p \in Callers, PersistAccess(p)
      PROVE  Kept
  <2>1. \A c \in Characters :
          /\ db'[c] # None <=> db[c] # None
          /\ db'[c] # None => db'[c].refresh = db[c].refresh
    <3>1. character[Src(p)] \in Handle \cup {None}
      BY <1>18 DEF PersistAccess, TypeOK
    <3>2. call[p].new.access \in Id
      BY <1>18 DEF PersistAccess, TypeOK, Pair, NewSteps
    <3>3. db' = UpdateAccessToken(character[Src(p)], call[p].new.access)
      BY <1>18 DEF PersistAccess
    <3> QED BY <3>1, <3>2, <3>3, UpdateAccessTokenRefresh
  <2>2. call[p].new.refresh \in Held
    BY <1>18 DEF PersistAccess, Held, Passing
  <2>3. ASSUME NEW s \in Sources, token'[s] # None
        PROVE  token'[s].refresh \in Held
    BY <1>18, <2>2, <2>3 DEF PersistAccess
  <2> QED BY <1>18, <2>1, <2>3 DEF PersistAccess
<1>19. ASSUME NEW p \in Callers, WriteAborted(p)
      PROVE  Kept
  BY <1>19 DEF WriteAborted, Unsaved
<1>20. ASSUME NEW p \in Callers, Panic(p)
      PROVE  Kept
  BY <1>20 DEF Panic, Unsaved
<1>21. ASSUME NEW p \in Callers, SaveValidate(p)
      PROVE  Kept
  <2>1. /\ call[p] # None /\ call[p].step = "saveValidate"
        /\ call'[p] = [call[p] EXCEPT !.step = "create"]
        /\ \A q \in Callers \ {p} : call'[q] = call[q]
        /\ UNCHANGED <<db, token, live, issued, dropped>>
    BY <1>21 DEF SaveValidate
  <2>2. call[p] \in Call
    BY <2>1
  <2>3. call'[p] \in Call
    BY <2>1, <2>2 DEF Steps
  <2>4. /\ call'[p] # None /\ call'[p].step = "create"
        /\ call'[p].new.refresh = call[p].new.refresh
    BY <2>1, <2>2, <2>3, ConstantsAssumption
  <2> QED BY <2>1, <2>4
<1>22. ASSUME NEW p \in Callers, SaveFails(p)
      PROVE  Kept
  BY <1>22 DEF SaveFails, Unsaved
<1>23. ASSUME NEW p \in Callers, Create(p)
      PROVE  Kept
  BY <1>23, CreateStep
<1>24. ASSUME NEW s \in Sources, NewTokenSource(s)
      PROVE  Kept
  BY <1>24, Frame DEF NewTokenSource, Held, Passing
<1>25. ASSUME NEW s \in Sources, NEW c \in Characters, CharacterSource(s, c)
      PROVE  Kept
  BY <1>25, Frame DEF CharacterSource, Held, Passing
<1>26. ASSUME NEW s \in Sources, Crash(s)
      PROVE  Kept
  <2>1. ASSUME NEW p \in Callers
        PROVE  /\ call'[p] # None => call'[p] = call[p]
               /\ InFlight(p) => InFlight(p)' \/ call[p].new.refresh \in dropped'
    BY <1>26 DEF Crash, Unsaved
  <2>2. \A t \in Sources : token'[t] # None => token'[t] = token[t]
    BY <1>26 DEF Crash
  <2>3. UNCHANGED <<db, live, issued>> /\ dropped \subseteq dropped'
    BY <1>26 DEF Crash
  <2> QED BY <2>1, <2>2, <2>3, Frame DEF Held, Passing
<1>27. ASSUME NEW c \in Characters, Authorize(c)
      PROVE  Kept
  BY <1>27, AuthorizeStep
<1>28. ASSUME NEW c \in Characters, DeleteCharacter(c)
      PROVE  Kept
  <2>1. ASSUME NEW d \in Characters, db[d] # None, db'[d] = None
        PROVE  db[d].refresh \in dropped'
    BY <1>28, <2>1, DisplacedHas DEF DeleteCharacter
  <2>2. \A d \in Characters : db'[d] # None => db'[d] = db[d]
    BY <1>28 DEF DeleteCharacter, TypeOK
  <2>3. UNCHANGED <<token, call, live, issued>> /\ dropped \subseteq dropped'
    BY <1>28 DEF DeleteCharacter
  <2> QED BY <2>1, <2>2, <2>3, Frame DEF Held, Passing
<1>29. ASSUME NEW r \in live, Revoke(r)
      PROVE  Kept
  BY <1>29, Frame DEF Revoke, Held, Passing
<1>30. ASSUME NEW a \in HeldAccess, Expire(a)
      PROVE  Kept
  BY <1>30, Frame DEF Expire, Held, Passing
<1>31. ASSUME UNCHANGED vars
      PROVE  Kept
  BY <1>31, Frame DEF vars, Held, Passing
<1> QED
  BY <1>1, <1>2, <1>3, <1>4, <1>5, <1>6, <1>7, <1>8, <1>9, <1>10, <1>11, <1>12, <1>13, <1>14, <1>15, <1>16, <1>17, <1>18, <1>19, <1>20, <1>21, <1>22, <1>23, <1>24, <1>25, <1>26, <1>27, <1>28, <1>29, <1>30, <1>31 DEF Next, Step

-----------------------------------------------------------------------------

LEMMA GrantInvariant == Spec => [](TypeOK /\ GrantIInv)
<1>1. Init => GrantIInv
  BY DEF Init, GrantIInv, GrantInv, OnlyIssued, OneLivePerGrant, OneFlightPerGrant,
     FlightIsTip, NoSilentLoss, Held, Stored, Cached, Passing, Flying, Unsaved, InFlight
<1>2. TypeOK /\ TypeOK' /\ GrantIInv /\ [Next]_vars => GrantIInv'
  BY GrantStep DEF Kept
<1> QED BY <1>1, <1>2, TypeCorrect, PTL DEF Spec

(* A live refresh token is stored, about to be stored, or was given up by  *)
(* a recorded fault or a newer authorization.                              *)
THEOREM RefreshTokensAreKept == Spec => []NoSilentLoss
<1>1. TypeOK /\ GrantIInv => NoSilentLoss
  BY DEF GrantIInv
<1> QED BY <1>1, GrantInvariant, PTL

(* The SSO honours one refresh token of a grant, and the one a call is     *)
(* about to store is it.                                                   *)
THEOREM GrantsAdvance == Spec => []GrantInv
<1>1. TypeOK /\ GrantIInv => GrantInv
  BY DEF GrantIInv
<1> QED BY <1>1, GrantInvariant, PTL

(* No source puts an older refresh token of a grant back over a newer one. *)
THEOREM StoreIsMonotone == Spec => MonotoneStore
<1>1. (TypeOK /\ GrantIInv) /\ (TypeOK /\ GrantIInv)' /\ [Next]_vars => [RowsMoveForward]_vars
  BY GrantStep DEF Kept
<1> QED BY <1>1, GrantInvariant, PTL DEF Spec, MonotoneStore

-----------------------------------------------------------------------------
(* Inactive has a cause, where one source refreshes.                       *)

(* One source, whose Save is not used, and an SSO that answers the tokens  *)
(* it honours.  Every other fault may happen.                              *)
SoleSource ==
    /\ \A s, t \in Sources : s = t
    /\ SaveIsUnused
    /\ "outage" \notin Env

(* The SSO would refuse r only because r died with a revoked grant or has  *)
(* been rotated by a call that was cut short.                              *)
Honest(r) == r \in live \cup revoked \cup missed

(* Such a token of c there has been. *)
Explained(c) == \E r \in revoked \cup missed : r.who = c

(* The SSO has answered p, and o.token is not replaced yet. *)
AfterAnswer(p) == call[p] # None /\ call[p].step \in {"persistRefresh", "validate", "persistAccess"}

(* A row's refresh token is good, or a call is about to replace it. *)
RowHonest(c) ==
    /\ db[c].active \/ Explained(c)
    /\ \/ Honest(db[c].refresh)
       \/ \E p \in Callers : At(p, "persistRefresh") /\ db[c].refresh = token[Src(p)].refresh

(* A source's refresh token is good, or a call is about to replace it, and *)
(* the row that has the same one is the row the source updates.            *)
SourceHonest(s) ==
    /\ Honest(token[s].refresh) \/ \E p \in Callers : AfterAnswer(p) /\ Src(p) = s
    /\ \A c \in Characters :
         db[c] # None /\ db[c].refresh = token[s].refresh => Names(character[s])

CallHonest(p) ==
    /\ call[p].new # None =>
         /\ token[Src(p)] # None
         /\ Honest(call[p].new.refresh)
         /\ \A c \in Characters :
              db[c] # None /\ db[c].refresh = call[p].new.refresh => Names(character[Src(p)])
    /\ call[p].step = "deactivate" =>
         token[Src(p)] # None /\ token[Src(p)].refresh \in revoked \cup missed

HonestInv ==
    /\ \A c \in Characters : db[c] # None => RowHonest(c)
    /\ \A s \in Sources : token[s] # None => SourceHonest(s)
    /\ \A p \in Callers : call[p] # None => CallHonest(p)

SoleInv == TypeOK /\ LockInv /\ OwnInv /\ GrantIInv /\ HonestInv

(* The updates keep the primary keys of the rows, and the rows. *)
LEMMA UpdatesKeepRows ==
    ASSUME db \in Tables, NEW h \in Handle \cup {None}, NEW t \in Id,
           NEW db2 \in {UpdateRefreshToken(h, t), UpdateAccessToken(h, t)},
           NEW c \in Characters
    PROVE  /\ db2[c] # None <=> db[c] # None
           /\ db[c] # None => db2[c].id = db[c].id
BY ConstantsAssumption DEF Tables, UpdateRefreshToken, UpdateAccessToken, Names, Row

LEMMA UpdateActiveStateKeys ==
    ASSUME db \in Tables, NEW h \in Handle \cup {None}, NEW b \in BOOLEAN,
           NEW c \in Characters
    PROVE  /\ UpdateActiveState(h, b)[c] # None <=> db[c] # None
           /\ db[c] # None => UpdateActiveState(h, b)[c].id = db[c].id
BY ConstantsAssumption DEF Tables, UpdateActiveState, Names, Row

LEMMA UpdateRefreshTokenElse ==
    ASSUME db \in Tables, NEW h \in Handle, NEW t \in Id, NEW c \in Characters, db[c] # None
    PROVE  LET db2 == UpdateRefreshToken(h, t)
           IN  /\ db2[c].active = db[c].active
               /\ db2[c].refresh = IF Names(h) /\ c = h.who THEN t ELSE db[c].refresh
BY ConstantsAssumption DEF Tables, UpdateRefreshToken, Names, Row

LEMMA UpdateAccessTokenElse ==
    ASSUME db \in Tables, NEW h \in Handle \cup {None}, NEW t \in Id,
           NEW c \in Characters, db[c] # None
    PROVE  UpdateAccessToken(h, t)[c].active = db[c].active
BY ConstantsAssumption DEF Tables, UpdateAccessToken, Names, Row

LEMMA UpdateActiveStateElse ==
    ASSUME db \in Tables, NEW h \in Handle \cup {None}, NEW b \in BOOLEAN,
           NEW c \in Characters, db[c] # None
    PROVE  \/ UpdateActiveState(h, b)[c].active = db[c].active
           \/ h # None /\ c = h.who
BY ConstantsAssumption DEF Tables, UpdateActiveState, Names, Row

(* While p is past the lock the others wait for it, with no tokens. *)
LEMMA OthersWait ==
    ASSUME SoleSource, SoleInv, NEW p \in Callers, call[p] # None,
           call[p].step \notin WaitSteps, NEW q \in Callers, q # p, call[q] # None
    PROVE  call[q].step = "lock" /\ call[q].new = None
<1>1. Src(p) = Src(q)
    BY DEF SoleSource, SoleInv, TypeOK, Call, Src
<1>2. call[q].step \in WaitSteps
    BY <1>1 DEF SoleInv, LockInv
<1>3. call[q].step = "lock"
    BY <1>2 DEF SoleInv, OwnInv, OwnCall, WaitSteps
<1> QED BY <1>3 DEF SoleInv, TypeOK, NewSteps

LEMMA Alone ==
    ASSUME SoleSource, SoleInv, NEW p \in Callers, call[p] # None,
           call[p].step \notin WaitSteps
    PROVE  /\ Src(p) \in Sources /\ \A s \in Sources : s = Src(p)
           /\ call[p].step # "persistRefresh" =>
                \A c \in Characters : db[c] # None => Honest(db[c].refresh)
           /\ ~AfterAnswer(p) /\ token[Src(p)] # None => Honest(token[Src(p)].refresh)
<1>1. Src(p) \in Sources /\ \A s \in Sources : s = Src(p)
    BY DEF SoleSource, SoleInv, TypeOK, Call, Src
<1>2. \A q \in Callers : At(q, "persistRefresh") \/ AfterAnswer(q) => q = p
    BY OthersWait DEF At, AfterAnswer
<1>3. ASSUME call[p].step # "persistRefresh", NEW c \in Characters, db[c] # None
      PROVE  Honest(db[c].refresh)
    BY <1>2, <1>3 DEF SoleInv, HonestInv, RowHonest, At
<1>4. ASSUME ~AfterAnswer(p), token[Src(p)] # None PROVE Honest(token[Src(p)].refresh)
    BY <1>1, <1>2, <1>4 DEF SoleInv, HonestInv, SourceHonest
<1> QED BY <1>1, <1>3, <1>4

(* The row with a source's or a call's token is its character's row. *)
LEMMA SameTokenSameRow ==
    ASSUME OwnInv, NEW c \in Characters, db[c] # None
    PROVE  /\ \A s \in Sources : token[s] # None /\ db[c].refresh = token[s].refresh
                => c = character[s].who
           /\ \A p \in Callers :
                call[p] # None /\ call[p].new # None /\ db[c].refresh = call[p].new.refresh
                  => c = character[Src(p)].who
BY DEF OwnInv, OwnCall, PairOf

(* What a step of p past the lock must show. *)
LEMMA HonestStep ==
    ASSUME SoleSource, SoleInv, NEW p \in Callers, Step(p),
           \A c \in Characters : db'[c] # None => RowHonest(c)',
           NEW s \in Sources, s = Src(p), token'[s] # None => SourceHonest(s)',
           call'[p] # None => CallHonest(p)'
    PROVE  HonestInv'
<1>1. /\ call[p] # None /\ call[p].step \notin WaitSteps
      /\ \A q \in Callers \ {p} : call'[q] = call[q]
    BY StepShape DEF SoleInv
<1>2. ASSUME NEW q \in Callers, q # p, call'[q] # None PROVE CallHonest(q)'
  <2>1. call'[q].step = "lock" /\ call'[q].new = None
    BY <1>1, <1>2, OthersWait
  <2> QED BY <2>1 DEF CallHonest
<1>3. \A t \in Sources : t = s
    BY <1>1, Alone
<1> QED BY <1>2, <1>3 DEF HonestInv

(* Steps of a call that leave rows, tokens and grants as they are. *)
LEMMA HonestQuiet ==
    ASSUME SoleSource, SoleInv, NEW p \in Callers, Step(p),
           ~AfterAnswer(p), ~AfterAnswer(p)',
           UNCHANGED <<db, live, revoked, missed, token>>,
           token[Src(p)] # None => UNCHANGED character,
           call'[p] # None => CallHonest(p)'
    PROVE  HonestInv'
<1>s. PICK s \in Sources : s = Src(p)
    BY StepShape, Alone DEF SoleInv
<1>1. /\ call[p] # None /\ call[p].step \notin WaitSteps /\ call[p].step # "persistRefresh"
    BY StepShape DEF SoleInv, AfterAnswer
<1>2. /\ \A c \in Characters : db[c] # None => Honest(db[c].refresh)
      /\ token[s] # None => Honest(token[s].refresh)
    BY <1>1, <1>s, Alone
<1>3. \A r : Honest(r) => Honest(r)'
    BY DEF Honest
<1>4. ASSUME NEW c \in Characters, db'[c] # None PROVE RowHonest(c)'
    BY <1>2, <1>3, <1>4 DEF RowHonest, Explained, SoleInv, HonestInv, Honest
<1>5. ASSUME token'[s] # None PROVE SourceHonest(s)'
    BY <1>2, <1>3, <1>5, <1>s DEF SourceHonest, SoleInv, HonestInv, Names, Honest
<1> QED BY <1>s, <1>4, <1>5, HonestStep

(* A call that is cut short has the token it leaves behind in missed.      *)
LEMMA CutShort ==
    ASSUME SoleSource, SoleInv, NEW p \in Callers, Step(p), token[Src(p)] # None,
           live \subseteq live', revoked \subseteq revoked', missed \cup Missed(p) \subseteq missed'
    PROVE  token[Src(p)].refresh \in live' \cup revoked' \cup missed'
<1>1. call[p] # None /\ call[p].step \notin WaitSteps
    BY StepShape DEF SoleInv
<1>2. CASE AfterAnswer(p)
  <2>1. CallHonest(p) /\ call[p].new # None
    BY <1>2 DEF SoleInv, HonestInv, TypeOK, AfterAnswer, NewSteps
  <2>2. CASE call[p].new.refresh = token[Src(p)].refresh
    BY <2>1, <2>2 DEF CallHonest, Honest
  <2>3. CASE call[p].new.refresh # token[Src(p)].refresh
    BY <1>2, <2>3 DEF Missed, AfterAnswer, AnsweredSteps
  <2> QED BY <2>2, <2>3
<1>3. CASE ~AfterAnswer(p)
    BY <1>1, <1>3, Alone DEF Honest
<1> QED BY <1>2, <1>3

(* A call that returns without having changed a row or its cache.          *)
LEMMA HonestReturn ==
    ASSUME SoleSource, SoleInv, NEW p \in Callers, Step(p), call'[p] = None,
           UNCHANGED <<db, token, character>>,
           revoked \subseteq revoked', missed \subseteq missed', \A r : Honest(r) => Honest(r)',
           token[Src(p)] # None => token[Src(p)].refresh \in live' \cup revoked' \cup missed'
    PROVE  HonestInv'
<1>1. /\ call[p] # None /\ call[p].step \notin WaitSteps
    BY StepShape DEF SoleInv
<1>2. PICK s \in Sources : s = Src(p)
    BY <1>1, Alone
<1>3. ASSUME NEW c \in Characters, db'[c] # None PROVE RowHonest(c)'
  <2>1. RowHonest(c)
    BY <1>3 DEF SoleInv, HonestInv
  <2>2. (db[c].active \/ Explained(c))'
    BY <2>1 DEF RowHonest, Explained
  <2>3. CASE Honest(db[c].refresh)
    BY <2>2, <2>3 DEF RowHonest, Honest
  <2>4. ASSUME NEW q \in Callers, At(q, "persistRefresh"), db[c].refresh = token[Src(q)].refresh
        PROVE  RowHonest(c)'
    <3>1. q = p /\ token[Src(p)] # None
      BY <1>1, <2>4, OthersWait DEF At, SoleInv, HonestInv, CallHonest, TypeOK, NewSteps
    <3> QED BY <2>2, <2>4, <3>1 DEF RowHonest, Honest
  <2> QED BY <2>1, <2>3, <2>4 DEF RowHonest
<1>4. ASSUME token'[s] # None PROVE SourceHonest(s)'
    BY <1>2, <1>4 DEF SourceHonest, SoleInv, HonestInv, Names, Honest
<1> QED BY <1>2, <1>3, <1>4, HonestStep

LEMMA HonestLoad ==
    ASSUME SoleSource, SoleInv, NEW p \in Callers, Load(p)
    PROVE  HonestInv'
<1>1. PICK s \in Sources : s = Src(p)
    BY DEF Load, At, SoleInv, TypeOK, Call, Src
<1> DEFINE h == character[s]
<1>2. /\ call[p] # None /\ call[p].step = "load" /\ call[p].new = None
      /\ Names(h) /\ h.who \in Characters
      /\ UNCHANGED <<db, live, revoked, missed, character>>
      /\ token' = [token EXCEPT ![s] = [access |-> db[h.who].access, refresh |-> db[h.who].refresh]]
      /\ Goto(p, "refresh")
    BY <1>1 DEF Load, At, SoleInv, TypeOK, NewSteps, Names, Handle, sso, history
<1>3. \A c \in Characters : db[c] # None => Honest(db[c].refresh)
    BY <1>2, Alone DEF WaitSteps
<1>4. token'[s].refresh = db[h.who].refresh /\ db[h.who] # None
    BY <1>2 DEF SoleInv, TypeOK, Names
<1>5. ASSUME NEW c \in Characters, db'[c] # None PROVE RowHonest(c)'
    BY <1>2, <1>3, <1>5 DEF RowHonest, Explained, SoleInv, HonestInv, Honest
<1>6. SourceHonest(s)'
    BY <1>2, <1>3, <1>4 DEF SourceHonest, Honest, Names
<1>7. CallHonest(p)'
    BY <1>2 DEF CallHonest, Goto, SoleInv, TypeOK, Call
<1> QED BY <1>1, <1>5, <1>6, <1>7, HonestStep DEF Step

LEMMA HonestKept ==
    ASSUME SoleSource, SoleInv, NEW p \in Callers, RefreshKept(p)
    PROVE  HonestInv'
<1>1. PICK s \in Sources : s = Src(p)
    BY DEF RefreshKept, Honoured, Refreshing, At, SoleInv, TypeOK, Call, Src
<1>2. /\ call[p] # None /\ call[p].step = "refresh" /\ token[s] # None
      /\ UNCHANGED <<db, live, revoked, missed, character, token>>
      /\ token[s].refresh \in live
      /\ call' = [call EXCEPT ![p] = [step |-> "validate", src |-> s,
                    new |-> [access |-> Fresh(p), refresh |-> token[s].refresh]]]
    BY <1>1 DEF RefreshKept, Honoured, Refreshing, At, SoleInv, TypeOK, Presented, Answered,
                mem, history
<1>3. /\ call'[p].step = "validate" /\ call'[p].src = s
      /\ call'[p].new.refresh = token[s].refresh
    BY <1>2 DEF SoleInv, TypeOK
<1>4. \A c \in Characters : db[c] # None => Honest(db[c].refresh)
    BY <1>2, Alone DEF WaitSteps
<1>5. ASSUME NEW c \in Characters, db'[c] # None PROVE RowHonest(c)'
    BY <1>2, <1>4, <1>5 DEF RowHonest, Explained, SoleInv, HonestInv, Honest
<1>6. SourceHonest(s)'
    BY <1>2 DEF SourceHonest, SoleInv, HonestInv, Honest, Names
<1>7. CallHonest(p)'
    BY <1>2, <1>3, <1>6 DEF CallHonest, SourceHonest, Honest, Names, Src
<1> QED BY <1>1, <1>5, <1>6, <1>7, HonestStep DEF Step

LEMMA HonestRotated ==
    ASSUME SoleSource, SoleInv, TypeOK', NEW p \in Callers, RefreshRotated(p)
    PROVE  HonestInv'
<1>1. PICK s \in Sources : s = Src(p)
    BY DEF RefreshRotated, Honoured, Refreshing, At, SoleInv, TypeOK, Call, Src
<1>2. PICK r : r = Fresh(p)
    OBVIOUS
<1>3. /\ call[p] # None /\ call[p].step = "refresh" /\ token[s] # None
      /\ UNCHANGED <<db, revoked, missed, character, token>>
      /\ token[s].refresh \in live
      /\ live' = (live \ {token[s].refresh}) \cup {r}
      /\ call' = [call EXCEPT ![p] = [step |-> "persistRefresh", src |-> s,
                    new |-> [access |-> r, refresh |-> r]]]
    BY <1>1, <1>2 DEF RefreshRotated, Honoured, Refreshing, At, SoleInv, TypeOK, Presented,
                Answered, Rotate, mem, history
<1>4. /\ call'[p].step = "persistRefresh" /\ call'[p].src = s
      /\ call'[p].new.refresh = r
    BY <1>3 DEF SoleInv, TypeOK
<1>5. call'[p] # None /\ At(p, "persistRefresh")' /\ AfterAnswer(p)' /\ Src(p)' = s
  <2>1. r \in Id
    BY <1>1, <1>2, <1>3 DEF SoleInv, TypeOK, Fresh, Presented, Pair, Id
  <2>2. [step |-> "persistRefresh", src |-> s, new |-> [access |-> r, refresh |-> r]] \in Call
    BY <2>1 DEF Call, Steps, WriteSteps, Pair
  <2>3. call'[p] = [step |-> "persistRefresh", src |-> s, new |-> [access |-> r, refresh |-> r]]
    BY <1>3 DEF SoleInv, TypeOK
  <2> QED BY <1>4, <2>2, <2>3, ConstantsAssumption DEF At, AfterAnswer, Src
<1>6. \A c \in Characters : db[c] # None => Honest(db[c].refresh) /\ db[c].refresh # r
  <2>1. \A c \in Characters : db[c] # None => db[c].refresh \in Held
    BY DEF Held, Stored
  <2>2. r.n = issued + 1 /\ issued \in Nat
    BY <1>2 DEF Fresh, SoleInv, TypeOK
  <2>3. \A x \in Held : x.n <= issued /\ x.n \in Nat
    BY TokensAreIds DEF SoleInv, GrantIInv, GrantInv, OnlyIssued, Id
  <2>4. \A c \in Characters : db[c] # None => db[c].refresh # r
    BY <2>1, <2>2, <2>3
  <2> QED BY <1>3, <2>4, Alone DEF WaitSteps
<1>7. ASSUME NEW c \in Characters, db'[c] # None PROVE RowHonest(c)'
  <2>1. db[c].active \/ Explained(c)
    BY <1>3, <1>7 DEF SoleInv, HonestInv, RowHonest
  <2>2. CASE db[c].refresh = token[s].refresh
    BY <1>3, <1>5, <2>1, <2>2 DEF RowHonest, Explained
  <2>3. CASE db[c].refresh # token[s].refresh
    BY <1>3, <1>6, <1>7, <2>1, <2>3 DEF RowHonest, Explained, Honest
  <2> QED BY <2>2, <2>3
<1>8. SourceHonest(s)'
    BY <1>3, <1>5 DEF SourceHonest, SoleInv, HonestInv, Names
<1>9. CallHonest(p)'
    BY <1>3, <1>4, <1>5, <1>6 DEF CallHonest, Honest
<1> QED BY <1>1, <1>7, <1>8, <1>9, HonestStep DEF Step

LEMMA HonestRefused ==
    ASSUME SoleSource, SoleInv, NEW p \in Callers, RefreshRefused(p)
    PROVE  HonestInv'
<1>1. PICK s \in Sources : s = Src(p)
    BY DEF RefreshRefused, Refreshing, At, SoleInv, TypeOK, Call, Src
<1>2. /\ call[p] # None /\ call[p].step = "refresh" /\ call[p].new = None /\ token[s] # None
      /\ UNCHANGED <<db, live, revoked, missed, character, token>>
      /\ token[s].refresh \notin live
      /\ Goto(p, "deactivate")
    BY <1>1 DEF RefreshRefused, Refreshing, At, SoleInv, TypeOK, NewSteps, Presented, sso, mem,
                history, SoleSource
<1>3. token[s].refresh \in revoked \cup missed
    BY <1>1, <1>2, Alone DEF AfterAnswer, WaitSteps, Honest
<1>4. /\ call'[p].step = "deactivate" /\ call'[p].src = s /\ call'[p].new = None
    BY <1>1, <1>2 DEF Goto, SoleInv, TypeOK, Call, Src
<1>5. CallHonest(p)' /\ ~AfterAnswer(p)' /\ ~AfterAnswer(p)
    BY <1>2, <1>3, <1>4 DEF CallHonest, AfterAnswer, Src
<1> QED BY <1>2, <1>5, HonestQuiet DEF Step

(* The rows, the source and p's call after a statement of p on its row. *)
LEMMA HonestDeactivate ==
    ASSUME SoleSource, SoleInv, NEW p \in Callers, Deactivate(p)
    PROVE  HonestInv'
<1>1. PICK s \in Sources : s = Src(p)
    BY DEF Deactivate, At, SoleInv, TypeOK, Call, Src
<1> DEFINE h == character[s]
<1>2. /\ call[p] # None /\ call[p].step = "deactivate" /\ h \in Handle \cup {None}
      /\ h # None /\ Explained(h.who)
      /\ db \in Tables /\ db' = UpdateActiveState(h, FALSE)
      /\ UNCHANGED <<live, revoked, missed, character, token>>
      /\ call'[p] = None
  <2>1. /\ call[p] # None /\ call[p].step = "deactivate" /\ CallHonest(p)
        /\ UNCHANGED <<live, revoked, missed, character, token>>
    BY DEF Deactivate, At, SoleInv, HonestInv, sso, mem, history
  <2>2. token[s] # None /\ token[s].refresh \in revoked \cup missed /\ h # None
    BY <1>1, <2>1 DEF CallHonest, Deactivate
  <2>3. Explained(h.who)
    BY <2>2 DEF Explained, SoleInv, OwnInv, PairOf
  <2> QED BY <1>1, <2>1, <2>2, <2>3 DEF Deactivate, SoleInv, TypeOK, Tables, Return
<1>3. /\ \A c \in Characters : db[c] # None => Honest(db[c].refresh)
      /\ token[s] # None => Honest(token[s].refresh)
    BY <1>1, <1>2, Alone DEF WaitSteps, AfterAnswer
<1>4. \A c \in Characters :
        /\ db'[c] # None <=> db[c] # None
        /\ db[c] # None => db'[c].id = db[c].id
        /\ db'[c] # None => db'[c].refresh = db[c].refresh
        /\ db[c] # None => db'[c].active = db[c].active \/ c = h.who
  <2>1. db \in Tables /\ h \in Handle \cup {None} /\ FALSE \in BOOLEAN
    BY <1>2
  <2>2. ASSUME NEW c \in Characters
        PROVE  /\ db'[c] # None <=> db[c] # None
               /\ db[c] # None => db'[c].id = db[c].id
    BY <1>2, <2>1, <2>2, UpdateActiveStateKeys
  <2>3. ASSUME NEW c \in Characters, db'[c] # None
        PROVE  db'[c].refresh = db[c].refresh
    BY <1>2, <2>1, <2>3, UpdateActiveStateRefresh
  <2>4. ASSUME NEW c \in Characters, db[c] # None
        PROVE  db'[c].active = db[c].active \/ c = h.who
    BY <1>2, <2>1, <2>4, UpdateActiveStateElse
  <2> QED BY <2>2, <2>3, <2>4
<1>5. ASSUME NEW c \in Characters, db'[c] # None PROVE RowHonest(c)'
  <2>1. db[c] # None /\ (db[c].active \/ Explained(c))
    BY <1>4, <1>5 DEF SoleInv, HonestInv, RowHonest
  <2>2. db'[c].active \/ Explained(c)
    BY <1>2, <1>4, <2>1
  <2>3. Honest(db'[c].refresh)
    BY <1>3, <1>4, <1>5, <2>1
  <2> QED BY <1>2, <2>2, <2>3 DEF RowHonest, Explained, Honest
<1>6. Names(h) => Names(h)'
    BY <1>2, <1>4 DEF Names, Handle
<1>7. ASSUME token'[s] # None PROVE SourceHonest(s)'
  <2>1. Honest(token[s].refresh)' /\ SourceHonest(s)
    BY <1>2, <1>3, <1>7 DEF SoleInv, HonestInv, Honest
  <2>2. ASSUME NEW c \in Characters, db'[c] # None, db'[c].refresh = token[s].refresh
        PROVE  Names(h)
    BY <1>4, <2>1, <2>2 DEF SourceHonest
  <2> QED BY <1>2, <1>6, <2>1, <2>2 DEF SourceHonest, Honest
<1> QED BY <1>1, <1>2, <1>5, <1>7, HonestStep DEF Step

LEMMA HonestPersistRefresh ==
    ASSUME SoleSource, SoleInv, TypeOK', NEW p \in Callers, PersistRefresh(p)
    PROVE  HonestInv'
<1>1. PICK s \in Sources : s = Src(p)
    BY DEF PersistRefresh, At, SoleInv, TypeOK, Call, Src
<1> DEFINE h == character[s]  r == call[p].new.refresh
<1>2. /\ call[p] # None /\ call[p].step = "persistRefresh" /\ call[p].new # None
      /\ h \in Handle /\ h # None /\ r \in Id
      /\ db \in Tables /\ db' = UpdateRefreshToken(h, r)
      /\ UNCHANGED <<live, revoked, character, token>>
      /\ missed \subseteq missed'
      /\ CallHonest(p)
    BY <1>1 DEF PersistRefresh, Reported, At, SoleInv, TypeOK, Tables, Pair,
                NewSteps, HonestInv, sso, mem, Call
<1>3. \A x : Honest(x) => Honest(x)'
    BY <1>2 DEF Honest
<1>4. \A c \in Characters :
        /\ db'[c] # None <=> db[c] # None
        /\ db[c] # None =>
             /\ db'[c].id = db[c].id /\ db'[c].active = db[c].active
             /\ db'[c].refresh = IF Names(h) /\ c = h.who THEN r ELSE db[c].refresh
    BY <1>2, UpdatesKeepRows, UpdateRefreshTokenElse
<1>5. Names(h) => Names(h)'
    BY <1>2, <1>4 DEF Names, Handle
<1>6. ASSUME NEW c \in Characters, db'[c] # None PROVE RowHonest(c)'
  <2>1. db[c] # None /\ (db[c].active \/ Explained(c))
    BY <1>4, <1>6 DEF SoleInv, HonestInv, RowHonest
  <2>2. db'[c].active \/ Explained(c)'
    BY <1>2, <1>4, <2>1 DEF Explained
  <2>3. CASE Names(h) /\ c = h.who
    BY <1>2, <1>4, <2>1, <2>2, <2>3 DEF RowHonest, CallHonest, Honest
  <2>4. CASE ~(Names(h) /\ c = h.who)
    <3>1. db[c].refresh = token[s].refresh /\ token[s] # None => Names(h) /\ c = h.who
      BY <2>1, SameTokenSameRow DEF SoleInv, HonestInv, SourceHonest
    <3>2. \A q \in Callers : At(q, "persistRefresh") => Src(q) = s /\ token[s] # None
      BY <1>1, <1>2, OthersWait DEF At, WaitSteps, CallHonest
    <3>3. Honest(db[c].refresh)
      BY <2>1, <2>4, <3>1, <3>2 DEF SoleInv, HonestInv, RowHonest
    <3> QED BY <1>2, <1>4, <2>1, <2>2, <2>4, <3>3 DEF RowHonest, Honest
  <2> QED BY <2>3, <2>4
<1>7. token'[s] # None => \A c \in Characters :
        db'[c] # None /\ db'[c].refresh = token'[s].refresh => Names(h)'
    BY <1>2, <1>4, <1>5 DEF SourceHonest, SoleInv, HonestInv
<1>8. CASE Goto(p, "validate") /\ UNCHANGED missed
  <2>1. /\ call'[p].step = "validate" /\ call'[p].src = s /\ call'[p].new = call[p].new
        /\ call'[p] # None /\ AfterAnswer(p)' /\ Src(p)' = s
    <3>1. call'[p] = [call[p] EXCEPT !.step = "validate"] /\ call[p] \in Call
      BY <1>2, <1>8 DEF Goto, SoleInv, TypeOK
    <3>2. /\ call'[p].step = "validate" /\ call'[p].src = s /\ call'[p].new = call[p].new
          /\ call'[p] \in Call
      BY <1>1, <3>1 DEF Call, Steps, Src
    <3> QED BY <3>2, ConstantsAssumption DEF AfterAnswer, Src
  <2>2. ASSUME token'[s] # None PROVE SourceHonest(s)'
    BY <1>2, <1>7, <2>1, <2>2 DEF SourceHonest
  <2>3. CallHonest(p)'
    BY <1>1, <1>2, <1>3, <1>4, <1>5, <2>1 DEF CallHonest, Honest, Src
  <2> QED BY <1>1, <1>6, <2>2, <2>3, HonestStep DEF Step
<1>9. CASE Return(p) /\ missed' = missed \cup Missed(p)
  <2>1. call'[p] = None
    BY <1>9 DEF Return, SoleInv, TypeOK
  <2>2. token[s] # None => token[s].refresh \in live' \cup revoked' \cup missed'
    BY <1>1, <1>2, <1>9, CutShort DEF Step
  <2>3. ASSUME token'[s] # None PROVE SourceHonest(s)'
    BY <1>2, <1>7, <2>2, <2>3 DEF SourceHonest, Honest
  <2> QED BY <1>1, <1>6, <2>1, <2>3, HonestStep DEF Step
<1> QED BY <1>8, <1>9 DEF PersistRefresh, Reported

LEMMA HonestValidate ==
    ASSUME SoleSource, SoleInv, TypeOK', NEW p \in Callers, Validate(p)
    PROVE  HonestInv'
<1>1. PICK s \in Sources : s = Src(p)
    BY DEF Validate, At, SoleInv, TypeOK, Call, Src
<1>2. /\ call[p] # None /\ call[p].step = "validate" /\ CallHonest(p)
      /\ UNCHANGED <<db, live, revoked, missed, character, token>>
      /\ Goto(p, "persistAccess")
    BY DEF Validate, At, SoleInv, HonestInv, sso, mem
<1>3. /\ call'[p].step = "persistAccess" /\ call'[p].src = s /\ call'[p].new = call[p].new
      /\ call'[p] # None /\ AfterAnswer(p)' /\ Src(p)' = s
  <2>1. call'[p] = [call[p] EXCEPT !.step = "persistAccess"] /\ call[p] \in Call
    BY <1>2 DEF Goto, SoleInv, TypeOK
  <2>2. /\ call'[p].step = "persistAccess" /\ call'[p].src = s /\ call'[p].new = call[p].new
        /\ call'[p] \in Call
    BY <1>1, <2>1 DEF Call, Steps, WriteSteps, Src
  <2> QED BY <2>2, ConstantsAssumption DEF AfterAnswer, Src
<1>4. \A c \in Characters : db[c] # None => Honest(db[c].refresh)
    BY <1>2, Alone DEF WaitSteps
<1>5. ASSUME NEW c \in Characters, db'[c] # None PROVE RowHonest(c)'
    BY <1>2, <1>4, <1>5 DEF RowHonest, Explained, SoleInv, HonestInv, Honest
<1>6. ASSUME token'[s] # None PROVE SourceHonest(s)'
    BY <1>2, <1>3, <1>6 DEF SourceHonest, SoleInv, HonestInv, Names
<1>7. CallHonest(p)'
    BY <1>1, <1>2, <1>3 DEF CallHonest, Honest, Names, Src
<1> QED BY <1>1, <1>5, <1>6, <1>7, HonestStep DEF Step

LEMMA HonestPersistAccess ==
    ASSUME SoleSource, SoleInv, NEW p \in Callers, PersistAccess(p)
    PROVE  HonestInv'
<1>1. PICK s \in Sources : s = Src(p)
    BY DEF PersistAccess, At, SoleInv, TypeOK, Call, Src
<1> DEFINE h == character[s]
<1>2. /\ call[p] # None /\ call[p].step = "persistAccess" /\ CallHonest(p)
      /\ call[p].new # None /\ call[p].new \in Pair /\ call[p].new.access \in Id
      /\ h \in Handle /\ db \in Tables
      /\ db' = UpdateAccessToken(h, call[p].new.access)
      /\ UNCHANGED <<live, revoked, character>>
      /\ missed \subseteq missed'
      /\ call'[p] = None
    BY <1>1 DEF PersistAccess, Return, At, SoleInv, TypeOK, Tables, Pair,
                NewSteps, HonestInv, sso, Call
<1>3. \A c \in Characters : db[c] # None => Honest(db[c].refresh)
    BY <1>2, Alone DEF WaitSteps
<1>4. \A c \in Characters :
        /\ db'[c] # None <=> db[c] # None
        /\ db[c] # None =>
             /\ db'[c].id = db[c].id /\ db'[c].active = db[c].active
             /\ db'[c].refresh = db[c].refresh
    BY <1>2, UpdatesKeepRows, UpdateAccessTokenElse, UpdateAccessTokenRefresh
<1>5. Names(h) => Names(h)'
    BY <1>2, <1>4 DEF Names, Handle
<1>6. ASSUME NEW c \in Characters, db'[c] # None PROVE RowHonest(c)'
    BY <1>2, <1>3, <1>4, <1>6 DEF RowHonest, Explained, SoleInv, HonestInv, Honest
<1>7. CASE token' = [token EXCEPT ![s] = call[p].new]
  <2>1. token'[s] = call[p].new
    BY <1>7 DEF SoleInv, TypeOK
  <2>2. SourceHonest(s)'
    BY <1>1, <1>2, <1>4, <1>5, <2>1 DEF SourceHonest, CallHonest, Honest
  <2> QED BY <1>1, <1>2, <1>6, <2>2, HonestStep DEF Step
<1>8. CASE UNCHANGED token /\ missed' = missed \cup Missed(p)
  <2>1. token[s] # None => token[s].refresh \in live' \cup revoked' \cup missed'
    BY <1>1, <1>2, <1>8, CutShort DEF Step
  <2>2. ASSUME token'[s] # None PROVE SourceHonest(s)'
    BY <1>2, <1>4, <1>5, <1>8, <2>1, <2>2 DEF SourceHonest, SoleInv, HonestInv, Honest
  <2> QED BY <1>1, <1>2, <1>6, <2>2, HonestStep DEF Step
<1> QED BY <1>1, <1>7, <1>8 DEF PersistAccess

LEMMA HonestLost ==
    ASSUME SoleSource, SoleInv, NEW p \in Callers, RefreshLost(p)
    PROVE  HonestInv'
<1>1. /\ UNCHANGED <<db, token, character, revoked>>
      /\ live' = (live \ {Presented(p)}) \cup {Fresh(p)}
      /\ missed' = missed \cup {Presented(p)}
      /\ call'[p] = None
    BY DEF RefreshLost, Rotate, Return, mem, SoleInv, TypeOK
<1>2. \A r : Honest(r) => Honest(r)'
    BY <1>1 DEF Honest
<1> QED BY <1>1, <1>2, HonestReturn DEF Step, Presented

(* A write that is aborted, a token that is rejected. *)
LEMMA HonestCutShort ==
    ASSUME SoleSource, SoleInv, NEW p \in Callers, WriteAborted(p) \/ ValidateFails(p)
    PROVE  HonestInv'
<1>1. /\ UNCHANGED <<db, live, token, character, revoked>>
      /\ missed' = missed \cup Missed(p)
      /\ call'[p] = None
    BY DEF WriteAborted, ValidateFails, Return, sso, mem, SoleInv, TypeOK
<1>2. \A r : Honest(r) => Honest(r)'
    BY <1>1 DEF Honest
<1>3. token[Src(p)] # None => token[Src(p)].refresh \in live' \cup revoked' \cup missed'
    BY <1>1, CutShort DEF Step
<1> QED BY <1>1, <1>2, <1>3, HonestReturn DEF Step

(* A source that is not given tokens by Save knows the row of those it has. *)
LEMMA NoPanic ==
    ASSUME SoleSource, SoleInv, NEW p \in Callers
    PROVE  ~ (Panic(p) \/ SaveValidate(p) \/ SaveFails(p) \/ Create(p))
<1>1. ~ (SaveValidate(p) \/ SaveFails(p) \/ Create(p))
    BY DEF SaveValidate, SaveFails, Create, At, SoleInv, OwnInv, OwnCall
<1>2. ~ Panic(p)
  <2> SUFFICES ASSUME Panic(p) PROVE FALSE
    OBVIOUS
  <2>1. call[p] # None /\ call[p].step \in WriteSteps /\ character[Src(p)] = None
    BY DEF Panic
  <2>2. OwnCall(p) /\ CallHonest(p) /\ Src(p) \in Sources
    BY <2>1 DEF SoleInv, OwnInv, HonestInv, TypeOK, Call, Src
  <2>3. call[p].step = "deactivate" \/ call[p].new # None
    BY <2>1 DEF WriteSteps, NewSteps, SoleInv, TypeOK
  <2>4. token[Src(p)] # None
    BY <2>2, <2>3 DEF CallHonest
  <2> QED BY <2>1, <2>2, <2>4 DEF SoleInv, OwnInv, PairOf
<1> QED BY <1>1, <1>2

LEMMA HonestCall ==
    ASSUME SoleSource, SoleInv, TypeOK', NEW p \in Callers, Step(p)
    PROVE  HonestInv'
<1>1. ASSUME UNCHANGED <<db, live, revoked, missed, token, character>>, Return(p), ~AfterAnswer(p)
      PROVE  HonestInv'
  <2>1. call'[p] = None
    BY <1>1 DEF Return, SoleInv, TypeOK
  <2> QED BY <1>1, <2>1, HonestQuiet DEF AfterAnswer
<1>2. CASE FindFails(p) \/ LoadFails(p) \/ UseCached(p) \/ RefreshUnreachable(p)
    BY <1>1, <1>2 DEF FindFails, LoadFails, UseCached, RefreshUnreachable, Refreshing, At,
            AfterAnswer, sso, mem, history
<1>3. CASE Find(p)
  <2>1. /\ call[p] # None /\ call[p].step = "find" /\ call[p].new = None
        /\ token[Src(p)] = None /\ Goto(p, "load")
        /\ UNCHANGED <<db, live, revoked, missed, token>>
    BY <1>3 DEF Find, At, SoleInv, TypeOK, NewSteps, OwnInv, OwnCall, sso, history
  <2>2. call'[p].step = "load" /\ call'[p].new = None
    BY <2>1 DEF Goto, SoleInv, TypeOK, Call
  <2> QED BY <2>1, <2>2, HonestQuiet DEF CallHonest, AfterAnswer
<1> QED BY <1>2, <1>3, NoPanic, HonestLost, HonestCutShort, HonestLoad, HonestKept,
           HonestRotated, HonestRefused, HonestDeactivate, HonestPersistRefresh,
           HonestValidate, HonestPersistAccess DEF Step

(* Every refresh token of a call or a cache is held or in flight. *)
LEMMA KnownTokens ==
    ASSUME TypeOK
    PROVE  /\ \A s \in Sources : token[s] # None => token[s].refresh \in Held
           /\ \A p \in Callers :
                call[p] # None /\ call[p].new # None /\ call[p].step # "deactivate"
                  => call[p].new.refresh \in Held \cup Flying
<1>1. ASSUME NEW p \in Callers, call[p] # None, call[p].new # None
      PROVE  call[p].new.refresh \in Held \cup Flying
  <2>1. call[p].step \in UnsavedSteps \/ call[p].step \in {"validate", "persistAccess"}
    BY <1>1 DEF TypeOK, NewSteps, UnsavedSteps
  <2>2. CASE call[p].step \in UnsavedSteps
    BY <1>1, <2>2 DEF Flying, Unsaved, InFlight
  <2>3. CASE call[p].step \in {"validate", "persistAccess"}
    BY <1>1, <2>3 DEF Held, Passing
  <2> QED BY <2>1, <2>2, <2>3
<1> QED BY <1>1 DEF Held, Cached

(* What a step that is not of a call past the lock must show: it leaves    *)
(* the sources and the answered calls alone, and a row it writes gets a    *)
(* good token nobody else has.                                             *)
LEMMA HonestFrame ==
    ASSUME SoleInv, UNCHANGED <<token, character>>,
           \A r : Honest(r) => Honest(r)',
           revoked \subseteq revoked', missed \subseteq missed',
           \A p \in Callers :
             /\ AfterAnswer(p) => call'[p] = call[p]
             /\ \/ call'[p] = call[p]
                \/ call'[p].new = None /\ call'[p].step # "deactivate",
           \A c \in Characters : db'[c] # None /\ db'[c] # db[c] =>
             /\ db'[c].active \/ Explained(c)'
             /\ Honest(db[c].refresh)'
             /\ db'[c].refresh \notin Held \cup Flying
    PROVE  HonestInv'
<1>1. ASSUME NEW c \in Characters, db'[c] # None PROVE RowHonest(c)'
  <2>1. CASE db'[c] # db[c]
    BY <1>1, <2>1 DEF RowHonest, Explained
  <2>2. CASE db'[c] = db[c] /\ Honest(db[c].refresh)
    BY <1>1, <2>2 DEF RowHonest, Explained, SoleInv, HonestInv, Honest
  <2>3. CASE db'[c] = db[c] /\ ~Honest(db[c].refresh)
    <3>1. RowHonest(c)
      BY <1>1, <2>3 DEF SoleInv, HonestInv
    <3>2. PICK p \in Callers : At(p, "persistRefresh") /\ db[c].refresh = token[Src(p)].refresh
      BY <2>3, <3>1 DEF RowHonest
    <3>3. call'[p] = call[p]
      BY <3>2 DEF AfterAnswer, At
    <3>4. At(p, "persistRefresh")' /\ db'[c].refresh = token'[Src(p)'].refresh
      BY <2>3, <3>2, <3>3 DEF At, Src
    <3> QED BY <2>3, <3>1, <3>4 DEF RowHonest, Explained
  <2> QED BY <2>1, <2>2, <2>3
<1>2. ASSUME NEW s \in Sources, token'[s] # None PROVE SourceHonest(s)'
  <2>1. SourceHonest(s) /\ token[s].refresh \in Held
    BY <1>2, KnownTokens DEF SoleInv, HonestInv
  <2>2. Honest(token[s].refresh)' \/ \E p \in Callers : (AfterAnswer(p) /\ Src(p) = s)'
    BY <2>1 DEF SourceHonest, AfterAnswer, Src
  <2>3. ASSUME NEW c \in Characters, db'[c] # None, db'[c].refresh = token[s].refresh
        PROVE  Names(character[s])'
    BY <1>2, <2>1, <2>3, SameTokenSameRow DEF SourceHonest, SoleInv, Names
  <2> QED BY <2>2, <2>3 DEF SourceHonest, Honest
<1>3. ASSUME NEW p \in Callers, call'[p] # None PROVE CallHonest(p)'
  <2>1. CASE call'[p].new = None /\ call'[p].step # "deactivate"
    BY <2>1 DEF CallHonest
  <2>2. CASE call'[p] = call[p]
    <3>1. CallHonest(p) /\ Src(p)' = Src(p)
      BY <1>3, <2>2 DEF SoleInv, HonestInv, Src
    <3>2. ASSUME call[p].new # None, NEW c \in Characters, db'[c] # None,
                 db'[c].refresh = call[p].new.refresh
          PROVE  Names(character[Src(p)])'
      <4>1. call[p].new.refresh \in Held \cup Flying
        BY <1>3, <2>2, <3>2, KnownTokens DEF SoleInv, TypeOK, NewSteps
      <4>2. db'[c] = db[c] /\ Names(character[Src(p)]) /\ c = character[Src(p)].who
        BY <1>3, <2>2, <3>1, <3>2, <4>1, SameTokenSameRow DEF CallHonest, SoleInv
      <4> QED BY <3>1, <4>2 DEF Names
    <3> QED BY <2>2, <3>1, <3>2 DEF CallHonest
  <2> QED BY <2>1, <2>2
<1> QED BY <1>1, <1>2, <1>3 DEF HonestInv

(* Where no call is under way and no token cached, the rows remain.        *)
LEMMA HonestNewSource ==
    ASSUME SoleSource, SoleInv, NEW s \in Sources, ~InUse(s),
           UNCHANGED <<db, live, revoked, missed, call>>, token' = [token EXCEPT ![s] = None]
    PROVE  HonestInv'
<1>1. \A p \in Callers : call[p] = None
  BY DEF InUse, SoleSource, SoleInv, TypeOK, Call
<1>2. \A t \in Sources : token'[t] = None
  BY DEF SoleSource, SoleInv, TypeOK
<1>3. \A c \in Characters : db[c] # None => (db[c].active \/ Explained(c)) /\ Honest(db[c].refresh)
  BY <1>1 DEF SoleInv, HonestInv, RowHonest, At
<1> QED BY <1>1, <1>2, <1>3 DEF HonestInv, RowHonest, Explained, Honest

(* A crash of the only source ends every call. *)
LEMMA HonestCrash ==
    ASSUME SoleSource, SoleInv, NEW s \in Sources, Crash(s)
    PROVE  HonestInv'
<1>1. /\ UNCHANGED <<db, live, revoked>>
      /\ missed' = missed \cup UNION {Missed(p) : p \in CallsOf(s)}
      /\ token' = [token EXCEPT ![s] = None]
      /\ call' = [p \in Callers |-> IF p \in CallsOf(s) THEN None ELSE call[p]]
    BY DEF Crash, sso
<1>2. \A p \in Callers : call[p] # None => p \in CallsOf(s) /\ Src(p) = s
    BY DEF CallsOf, SoleSource, SoleInv, TypeOK, Call, Src
<1>3. (\A t \in Sources : token'[t] = None) /\ \A p \in Callers : call'[p] = None
    BY <1>1, <1>2 DEF SoleSource, SoleInv, TypeOK
<1>4. ASSUME NEW c \in Characters, db'[c] # None PROVE RowHonest(c)'
  <2>1. RowHonest(c)
    BY <1>1, <1>4 DEF SoleInv, HonestInv
  <2>2. (db[c].active \/ Explained(c))'
    BY <1>1, <2>1 DEF RowHonest, Explained
  <2>3. CASE Honest(db[c].refresh)
    BY <1>1, <2>2, <2>3 DEF RowHonest, Honest
  <2>4. ASSUME NEW q \in Callers, At(q, "persistRefresh"), db[c].refresh = token[Src(q)].refresh
        PROVE  RowHonest(c)'
    <3>1. call[q] # None /\ call[q].new # None /\ CallHonest(q) /\ q \in CallsOf(s)
      BY <1>2, <2>4 DEF At, SoleInv, HonestInv, TypeOK, NewSteps
    <3>2. CASE call[q].new.refresh = token[Src(q)].refresh
      BY <1>1, <2>2, <2>4, <3>1, <3>2 DEF RowHonest, Honest, CallHonest
    <3>3. CASE call[q].new.refresh # token[Src(q)].refresh
      <4>1. Missed(q) = {db[c].refresh}
        BY <2>4, <3>1, <3>3 DEF Missed, AnsweredSteps, At, CallHonest
      <4> QED BY <1>1, <2>2, <3>1, <4>1 DEF RowHonest, Honest
    <3> QED BY <3>2, <3>3
  <2> QED BY <2>1, <2>3, <2>4 DEF RowHonest
<1> QED BY <1>3, <1>4 DEF HonestInv

LEMMA HonestLock ==
    ASSUME SoleSource, SoleInv, NEW p \in Callers, Lock(p)
    PROVE  HonestInv'
<1>1. /\ call[p] # None /\ call[p].step = "lock" /\ call[p].new = None /\ call[p] \in Call
      /\ Goto(p, FirstStep(Src(p)))
      /\ UNCHANGED <<db, live, revoked, missed, token, character>>
  BY DEF Lock, WaitSteps, SoleInv, TypeOK, NewSteps, OwnInv, OwnCall, sso, mem, history
<1>2. /\ call'[p].step = FirstStep(Src(p)) /\ call'[p].new = None
      /\ \A q \in Callers \ {p} : call'[q] = call[q]
  BY <1>1 DEF Goto, SoleInv, TypeOK, Call
<1> QED BY <1>1, <1>2, HonestFrame DEF FirstStep, AfterAnswer, Honest

LEMMA HonestAuthorize ==
    ASSUME SoleInv, NEW c \in Characters, Authorize(c)
    PROVE  HonestInv'
<1> DEFINE r == FirstPair(c).refresh
<1>1. /\ UNCHANGED <<token, character, call, revoked, missed>>
      /\ live' = live \cup {r} /\ db' = CreateCharacter(c, FirstPair(c))
      /\ FirstPair(c) \in Pair /\ db \in Tables
  BY FirstPairIsNew DEF Authorize, mem, control, SoleInv, TypeOK, Tables
<1>2. r \notin Held \cup Flying
  <2>1. issued \in Nat /\ r.n = issued + 1
    BY FirstPairIsNew DEF SoleInv, TypeOK
  <2>2. \A x \in Held \cup Flying : x.n \in Nat /\ x.n <= issued
    BY FirstPairIsNew DEF SoleInv
  <2> QED BY <2>1, <2>2
<1>3. /\ db'[c] # None /\ db'[c].refresh = r
      /\ \A d \in Characters \ {c} : db'[d] = db[d]
  BY <1>1, CreateCharacterRefresh
<1>4. db'[c].active \/ Explained(c)'
  <2>1. db'[c] = IF db[c] = None
                 THEN [id |-> FirstPair(c).access.n, active |-> TRUE,
                       access |-> FirstPair(c).access, refresh |-> r]
                 ELSE [db[c] EXCEPT !.refresh = r]
    BY <1>1 DEF CreateCharacter, Tables
  <2>2. CASE db[c] = None
    BY <2>1, <2>2
  <2>3. CASE db[c] # None
    BY <1>1, <2>1, <2>3 DEF Tables, Row, SoleInv, HonestInv, RowHonest, Explained
  <2> QED BY <2>2, <2>3
<1>5. \A x : Honest(x) => Honest(x)'
  BY <1>1 DEF Honest
<1>6. Honest(db[c].refresh)'
  BY <1>1, <1>3 DEF Honest
<1> HIDE DEF r
<1> QED BY <1>1, <1>2, <1>3, <1>4, <1>5, <1>6, HonestFrame

LEMMA HonestNext ==
    ASSUME SoleSource
    PROVE  SoleInv /\ TypeOK' /\ [Next]_vars => HonestInv'
<1> SUFFICES ASSUME SoleInv, TypeOK', [Next]_vars PROVE HonestInv'
  OBVIOUS
<1>1. ASSUME NEW p \in Callers, NEW s \in Sources, CallToken(p, s) PROVE HonestInv'
  <2>1. /\ call[p] = None /\ UNCHANGED <<db, live, revoked, missed, token, character>>
        /\ call'[p] = [step |-> "lock", src |-> s, new |-> None]
        /\ \A q \in Callers \ {p} : call'[q] = call[q]
    BY <1>1 DEF CallToken, SoleInv, TypeOK, sso, mem, history
  <2> QED BY <2>1, HonestFrame DEF AfterAnswer, Honest
<1>2. ASSUME NEW p \in Callers, NEW s \in Sources, CallSave(p, s) PROVE HonestInv'
  BY <1>2 DEF CallSave, SoleSource, SaveIsUnused
<1>3. ASSUME NEW s \in Sources, NewTokenSource(s) PROVE HonestInv'
  BY <1>3, HonestNewSource DEF NewTokenSource, sso, control, history
<1>4. ASSUME NEW s \in Sources, NEW c \in Characters, CharacterSource(s, c) PROVE HonestInv'
  BY <1>4, HonestNewSource DEF CharacterSource, sso, control, history
<1>5. ASSUME NEW s \in Sources, Crash(s) PROVE HonestInv'
  BY <1>5, HonestCrash
<1>6. ASSUME NEW c \in Characters, DeleteCharacter(c) PROVE HonestInv'
  <2>1. /\ UNCHANGED <<live, revoked, missed, token, character, call>>
        /\ \A d \in Characters : db'[d] # None => db'[d] = db[d]
    BY <1>6 DEF DeleteCharacter, sso, mem, control, SoleInv, TypeOK
  <2> QED BY <2>1, HonestFrame DEF Honest
<1>7. ASSUME NEW r \in live, Revoke(r) PROVE HonestInv'
  <2>1. /\ UNCHANGED <<db, token, character, call>>
        /\ live' = live \ {r} /\ revoked' = revoked \cup {r} /\ missed' = missed
    BY <1>7 DEF Revoke, mem, control
  <2>2. \A x : Honest(x) => Honest(x)'
    BY <2>1 DEF Honest
  <2> QED BY <2>1, <2>2, HonestFrame
<1>8. ASSUME NEW a \in HeldAccess, Expire(a) PROVE HonestInv'
  <2>1. UNCHANGED <<db, live, revoked, missed, token, character, call>>
    BY <1>8 DEF Expire, mem, control, history
  <2> QED BY <2>1, HonestFrame DEF Honest
<1>9. ASSUME UNCHANGED vars PROVE HonestInv'
  <2>1. UNCHANGED <<db, live, revoked, missed, token, character, call>>
    BY <1>9 DEF vars, sso, mem, control, history
  <2> QED BY <2>1, HonestFrame DEF Honest
<1> QED BY <1>1, <1>2, <1>3, <1>4, <1>5, <1>6, <1>7, <1>8, <1>9, HonestLock, HonestAuthorize,
           HonestCall DEF Next

LEMMA HonestInvariant == ASSUME SoleSource PROVE Spec => []SoleInv
<1> DEFINE Known == TypeOK /\ LockInv /\ OwnInv /\ GrantIInv
<1>1. Spec => []Known
  <2>1. SaveIsUnused
    BY DEF SoleSource
  <2> QED BY <2>1, OwnInvariant, GrantInvariant, PTL
<1>2. Init => HonestInv
  BY DEF Init, HonestInv
<1>3. Known /\ Known' /\ HonestInv /\ [Next]_vars => HonestInv'
  BY HonestNext DEF SoleInv
<1>4. Known /\ HonestInv => SoleInv
  BY DEF SoleInv
<1> HIDE DEF Known
<1> QED BY <1>1, <1>2, <1>3, <1>4, PTL DEF Spec

(* With one source and an SSO that answers live tokens, a call marks its   *)
(* character inactive only if the token it presented had been revoked or   *)
(* rotated by a call that was cut short, and an inactive row has had such  *)
(* a token: for any number of characters and callers, under every other    *)
(* fault, and with re-authorizations and deletions between any two steps   *)
(* of a refresh, the ones that overtake its updates included.  Both        *)
(* hypotheses are needed: a second source is left with a retired token     *)
(* when no call was cut short, and an outage refuses a live one            *)
(* (token.go:134-143).                                                     *)
THEOREM InactiveIsExplained ==
    ASSUME SoleSource PROVE Spec => []InactiveHasACause
<1>1. SoleInv => InactiveHasACause
  BY DEF SoleInv, HonestInv, RowHonest, Explained, CallHonest, InactiveHasACause, At, Presented
<1> QED BY <1>1, HonestInvariant, PTL
=============================================================================
