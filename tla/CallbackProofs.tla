--------------------------- MODULE CallbackProofs ---------------------------
(* Theorems about Callback, for every value of its constants. *)
EXTENDS Callback, TLAPS

Tables == [Profiles -> [Characters -> Row \cup {None}]]

(* The upsert of CreateCharacter touches one row. *)
LEMMA UpsertRow ==
    ASSUME characters \in Tables, NEW pr \in Profiles, NEW k \in Code,
           NEW p \in Profiles, NEW c \in Characters
    PROVE  Upsert(pr, k)[p][c] =
             IF p = pr /\ c = k.who
             THEN IF characters[pr][c] = None
                  THEN [access |-> k, refresh |-> k, data |-> k.state]
                  ELSE [characters[pr][c] EXCEPT !.refresh = k]
             ELSE characters[p][c]
BY DEF Tables, Upsert, Code

LEMMA UpsertType ==
    ASSUME characters \in Tables, NEW pr \in Profiles, NEW k \in Code
    PROVE  Upsert(pr, k) \in Tables
<1>1. ASSUME NEW p \in Profiles, NEW c \in Characters
      PROVE  Upsert(pr, k)[p][c] \in Row \cup {None}
  <2>1. [access |-> k, refresh |-> k, data |-> k.state] \in Row
    BY DEF Row, Code
  <2>2. characters[pr][c] # None => [characters[pr][c] EXCEPT !.refresh = k] \in Row
    BY <1>1 DEF Tables, Row
  <2>3. characters[p][c] \in Row \cup {None}
    BY <1>1 DEF Tables
  <2> QED BY <1>1, <2>1, <2>2, <2>3, UpsertRow
<1> QED BY <1>1 DEF Upsert, Tables

LEMMA StoredType ==
    ASSUME characters \in Tables
    PROVE  Stored \subseteq Code
BY DEF Stored, StoredIn, Tables, Row

LEMMA TypeStep == TypeOK /\ [Next]_vars => TypeOK'
<1> SUFFICES ASSUME TypeOK, [Next]_vars PROVE TypeOK'
  OBVIOUS
<1>0. /\ characters \in Tables
      /\ Stored \subseteq Code
      /\ \A q \in Requests : request[q] # None => request[q].code \in Code
      /\ codes \subseteq Code
  BY StoredType DEF TypeOK, Tables
<1> USE <1>0, ConstantsAssumption DEF TypeOK, store, sso, At, Asked, Host, Goto, Answer, Request, Steps
<1>1. ASSUME NEW q \in Requests, NEW k \in codes, NEW h \in Hosts, Arrive(q, k, h)
      PROVE  TypeOK'
  BY <1>1 DEF Arrive
<1>2. ASSUME NEW q \in Requests, FindPKCE(q)
      PROVE  TypeOK'
  BY <1>2 DEF FindPKCE
<1>3. ASSUME NEW q \in Requests, FindPKCEFails(q)
      PROVE  TypeOK'
  BY <1>3 DEF FindPKCEFails
<1>4. ASSUME NEW q \in Requests, GetProfile(q)
      PROVE  TypeOK'
  BY <1>4 DEF GetProfile
<1>5. ASSUME NEW q \in Requests, GetProfileFails(q)
      PROVE  TypeOK'
  BY <1>5 DEF GetProfileFails
<1>6. ASSUME NEW q \in Requests, Destroy(q)
      PROVE  TypeOK'
  BY <1>6 DEF Destroy
<1>7. ASSUME NEW q \in Requests, DestroyFails(q)
      PROVE  TypeOK'
  BY <1>7 DEF DestroyFails
<1>8. ASSUME NEW q \in Requests, CheckAge(q)
      PROVE  TypeOK'
  BY <1>8 DEF CheckAge
<1>9. ASSUME NEW q \in Requests, TimedOut(q)
      PROVE  TypeOK'
  BY <1>9 DEF TimedOut
<1>10. ASSUME NEW q \in Requests, Exchange(q)
      PROVE  TypeOK'
  <2>1. request' \in [Requests -> Request \cup {None}]
    <3>1. request[q] \in Request
      BY <1>10 DEF Exchange
    <3>2. [request[q] EXCEPT !.step = "verify"] \in Request
      BY <3>1
    <3>3. Goto(q, "verify") => request' \in [Requests -> Request \cup {None}]
      BY <3>2
    <3>4. Answer(q) => request' \in [Requests -> Request \cup {None}]
      OBVIOUS
    <3> QED BY <1>10, <3>3, <3>4 DEF Exchange
  <2>2. ASSUME NEW r \in Requests, request'[r] # None PROVE request'[r].code \in codes
    <3>1. \/ request'[r] = request[r]
          \/ r = q /\ request[q] \in Request /\ request'[q] = [request[q] EXCEPT !.step = "verify"]
      BY <1>10, <2>2 DEF Exchange
    <3> QED BY <2>2, <3>1
  <2>3. spent' \subseteq codes /\ dropped' \subseteq Code
    BY <1>10 DEF Exchange
  <2> QED BY <1>10, <2>1, <2>2, <2>3 DEF Exchange
<1>11. ASSUME NEW q \in Requests, ExchangeFails(q)
      PROVE  TypeOK'
  BY <1>11 DEF ExchangeFails
<1>12. ASSUME NEW q \in Requests, Verify(q)
      PROVE  TypeOK'
  BY <1>12 DEF Verify
<1>13. ASSUME NEW q \in Requests, VerifyFails(q)
      PROVE  TypeOK'
  BY <1>13 DEF VerifyFails, Carried
<1>14. ASSUME NEW q \in Requests, CreateCharacter(q)
      PROVE  TypeOK'
  <2>1. characters' \in Tables
    BY <1>14, UpsertType DEF CreateCharacter, Pkce
  <2>2. dropped' \subseteq Code
    BY <1>14 DEF CreateCharacter
  <2>3. request' \in [Requests -> Request \cup {None}]
    BY <1>14 DEF CreateCharacter
  <2>4. \A r \in Requests : request'[r] # None => request'[r].code \in codes
    BY <1>14 DEF CreateCharacter
  <2> QED BY <1>14, <2>1, <2>2, <2>3, <2>4 DEF CreateCharacter, Tables
<1>15. ASSUME NEW q \in Requests, CreateCharacterFails(q)
      PROVE  TypeOK'
  BY <1>15 DEF CreateCharacterFails, Carried
<1>16. ASSUME NEW q \in Requests, CleanAndRedirect(q)
      PROVE  TypeOK'
  BY <1>16 DEF CleanAndRedirect, Stale
<1>17. ASSUME NEW h \in Hosts, NEW pr \in Profiles, NEW st \in States, CreatePKCE(h, pr, st)
      PROVE  TypeOK'
  <2>1. [profile |-> pr, host |-> h] \in Pkce
    BY DEF Pkce
  <2> QED BY <1>17, <2>1 DEF CreatePKCE
<1>18. ASSUME NEW h \in Hosts, CleanPKCE(h)
      PROVE  TypeOK'
  BY <1>18 DEF CleanPKCE, Stale
<1>19. ASSUME NEW h \in Hosts, Crash(h)
      PROVE  TypeOK'
  BY <1>19 DEF Crash, Carried
<1>20. ASSUME NEW st \in States, NEW c \in Characters, LogIn(st, c)
      PROVE  TypeOK'
  BY <1>20 DEF LogIn, Code
<1>21. ASSUME NEW pr \in Profiles, DeleteProfile(pr)
      PROVE  TypeOK'
  <2>1. characters' \in Tables
    BY <1>21 DEF DeleteProfile, Tables
  <2> QED BY <1>21, <2>1 DEF DeleteProfile, Tables
<1>22. ASSUME Tick
      PROVE  TypeOK'
  BY <1>22 DEF Tick, Older
<1>23. ASSUME UNCHANGED vars
      PROVE  TypeOK'
  BY <1>23 DEF vars
<1> QED
  BY <1>1, <1>2, <1>3, <1>4, <1>5, <1>6, <1>7, <1>8, <1>9, <1>10, <1>11, <1>12, <1>13, <1>14,
     <1>15, <1>16, <1>17, <1>18, <1>19, <1>20, <1>21, <1>22, <1>23 DEF Next, Step

(* The type invariant of every behaviour. *)
THEOREM TypeCorrect == Spec => []TypeOK
<1>1. Init => TypeOK
  BY ConstantsAssumption DEF Init, TypeOK
<1>2. TypeOK /\ [Next]_vars => TypeOK'
  BY TypeStep
<1> QED BY <1>1, <1>2, PTL DEF Spec
-----------------------------------------------------------------------------
(* A state is spent before its code is exchanged.                          *)

(* Only CreatePKCE puts a row into evesso.pkces, and only one that has     *)
(* never been.                                                             *)
LEMMA RowsAreNew ==
    ASSUME TypeOK, [Next]_vars, NEW st \in pkces', st \notin pkces
    PROVE  origin[st] = None /\ request' = request
<1> USE DEF store, sso, TypeOK
<1>1. ASSUME NEW q \in Requests, Step(q)
      PROVE  FALSE
  BY <1>1 DEF Step, FindPKCE, FindPKCEFails, GetProfile, GetProfileFails, Destroy,
     DestroyFails, CheckAge, TimedOut, Exchange, ExchangeFails, Verify, VerifyFails,
     CreateCharacter, CreateCharacterFails, CleanAndRedirect
<1>2. ASSUME NEW q \in Requests, NEW k \in codes, NEW h \in Hosts, Arrive(q, k, h)
      PROVE  FALSE
  BY <1>2 DEF Arrive
<1>3. ASSUME NEW h \in Hosts, NEW pr \in Profiles, NEW x \in States, CreatePKCE(h, pr, x)
      PROVE  origin[st] = None /\ request' = request
  BY <1>3 DEF CreatePKCE
<1>4. ASSUME NEW h \in Hosts, CleanPKCE(h) \/ Crash(h)
      PROVE  FALSE
  BY <1>4 DEF CleanPKCE, Crash
<1>5. ASSUME NEW x \in States, NEW c \in Characters, LogIn(x, c)
      PROVE  FALSE
  BY <1>5 DEF LogIn
<1>6. ASSUME NEW pr \in Profiles, DeleteProfile(pr)
      PROVE  FALSE
  BY <1>6 DEF DeleteProfile
<1>7. ASSUME Tick \/ UNCHANGED vars
      PROVE  FALSE
  BY <1>7 DEF Tick, vars
<1> QED BY <1>1, <1>2, <1>3, <1>4, <1>5, <1>6, <1>7 DEF Next

(* A request comes to be past Destroy only by Destroy, which leaves no row *)
(* of its state.                                                           *)
LEMMA PastDestroy ==
    ASSUME TypeOK, [Next]_vars, NEW q \in Requests,
           request'[q] # None, request'[q].step \in SpentSteps
    PROVE  /\ request[q] # None /\ request'[q].code = request[q].code
           /\ request[q].step \in SpentSteps \/ Asked(q) \notin pkces'
<1> USE DEF TypeOK, At, Asked, Goto, Answer, Request, SpentSteps
<1>1. ASSUME NEW r \in Requests, Step(r)
      PROVE  /\ request[q] # None /\ request'[q].code = request[q].code
             /\ request[q].step \in SpentSteps \/ Asked(q) \notin pkces'
  BY <1>1 DEF Step, FindPKCE, FindPKCEFails, GetProfile, GetProfileFails, Destroy,
     DestroyFails, CheckAge, TimedOut, Exchange, ExchangeFails, Verify, VerifyFails,
     CreateCharacter, CreateCharacterFails, CleanAndRedirect
<1>2. ASSUME NEW r \in Requests, NEW k \in codes, NEW h \in Hosts, Arrive(r, k, h)
      PROVE  request'[q] = request[q]
  BY <1>2 DEF Arrive
<1>3. ASSUME NEW h \in Hosts, Crash(h)
      PROVE  request'[q] = request[q]
  BY <1>3 DEF Crash
<1>4. ASSUME \/ \E h \in Hosts : CleanPKCE(h)
             \/ \E h \in Hosts, pr \in Profiles, st \in States : CreatePKCE(h, pr, st)
             \/ \E st \in States, c \in Characters : LogIn(st, c)
             \/ \E pr \in Profiles : DeleteProfile(pr)
             \/ Tick
             \/ UNCHANGED vars
      PROVE  request'[q] = request[q]
  BY <1>4 DEF CleanPKCE, CreatePKCE, LogIn, DeleteProfile, Tick, vars
<1> QED BY <1>1, <1>2, <1>3, <1>4 DEF Next

(* From Destroy on no request, on whatever host and whatever fails, can    *)
(* find the state that is being handled.                                   *)
THEOREM StateIsSpent == Spec => []StateIsSpentFirst
<1>1. Init => StateIsSpentFirst
  BY DEF Init, StateIsSpentFirst
<1>2. TypeOK /\ StateIsSpentFirst /\ [Next]_vars => StateIsSpentFirst'
  <2> SUFFICES ASSUME TypeOK, StateIsSpentFirst, [Next]_vars,
                      NEW q \in Requests,
                      request'[q] # None, request'[q].step \in SpentSteps
               PROVE  Asked(q)' \notin pkces'
    BY DEF StateIsSpentFirst
  <2>1. /\ request[q] # None /\ Asked(q)' = Asked(q)
        /\ request[q].step \in SpentSteps \/ Asked(q) \notin pkces'
    BY PastDestroy DEF Asked
  <2>2. CASE request[q].step \in SpentSteps
    <3>1. Asked(q) \notin pkces
      BY <2>1, <2>2 DEF StateIsSpentFirst
    <3>2. Asked(q) \in States /\ origin[Asked(q)] # None
      BY <2>1 DEF TypeOK, Asked, Code
    <3> QED BY <2>1, <3>1, <3>2, RowsAreNew
  <2> QED BY <2>1, <2>2
<1> QED BY <1>1, <1>2, TypeCorrect, PTL DEF Spec

-----------------------------------------------------------------------------
(* Clocks.                                                                 *)

(* Two hosts never read ages further apart than Slack. *)
LEMMA SeenTogether ==
    ASSUME TypeOK, NEW st \in States, origin[st] # None, NEW g \in Hosts, NEW h \in Hosts
    PROVE  /\ Seen(g, st) \in Int /\ Seen(h, st) \in Int
           /\ Seen(g, st) - Seen(h, st) <= Slack
           /\ age[st] - Seen(h, st) <= Slack
<1>1. origin[st].host \in Hosts /\ age[st] \in Nat
  BY DEF TypeOK, Pkce
<1>2. /\ Offset[g] - Offset[h] <= Slack
      /\ Offset[origin[st].host] - Offset[h] <= Slack
      /\ Offset[g] \in Int /\ Offset[h] \in Int /\ Offset[origin[st].host] \in Int
      /\ Slack \in Nat
  BY <1>1, ConstantsAssumption
<1> QED BY <1>1, <1>2 DEF Seen

(* What one host sweeps, no host would find. *)
LEMMA StaleIsLost ==
    ASSUME TypeOK, NEW g \in Hosts, NEW st \in Stale(g), NEW h \in Hosts
    PROVE  ~Findable(h, st)
<1>1. st \in States /\ origin[st] # None /\ Seen(g, st) > Window + Slack
  BY DEF Stale, TypeOK
<1>2. Seen(g, st) \in Int /\ Seen(h, st) \in Int /\ Seen(g, st) - Seen(h, st) <= Slack
  BY <1>1, SeenTogether
<1>3. Window \in Nat /\ Slack \in Nat
  BY ConstantsAssumption
<1> QED BY <1>1, <1>2, <1>3 DEF Findable

(* The sweep of one host takes nothing a callback on another could find,   *)
(* as long as the clocks agree to within Slack.                            *)
THEOREM SweepIsSafe == Spec => SweepSparesFindable
<1> DEFINE Sweeps == (\E h \in Hosts : CleanPKCE(h)) \/ (\E q \in Requests : CleanAndRedirect(q))
<1>1. ASSUME TypeOK, Sweeps, NEW st \in pkces \ pkces', NEW h \in Hosts
      PROVE  ~Findable(h, st)
  <2>1. PICK g \in Hosts : st \in Stale(g)
    <3>1. ASSUME NEW g \in Hosts, CleanPKCE(g)
          PROVE  st \in Stale(g)
      BY <1>1, <3>1 DEF CleanPKCE
    <3>2. ASSUME NEW q \in Requests, CleanAndRedirect(q)
          PROVE  Host(q) \in Hosts /\ st \in Stale(Host(q))
      BY <1>1, <3>2 DEF CleanAndRedirect, TypeOK, Request, Host, At
    <3> QED BY <1>1, <3>1, <3>2
  <2> QED BY <1>1, <2>1, StaleIsLost
<1>2. TypeOK => (Sweeps => \A st \in pkces \ pkces', h \in Hosts : ~Findable(h, st))
  BY <1>1
<1> QED BY <1>2, TypeCorrect, PTL DEF SweepSparesFindable

(* No exchange begins for a row that has outlived its window by more than  *)
(* the clocks differ.                                                      *)
THEOREM ExchangesAreFresh == Spec => ExchangeIsFresh
<1>1. ASSUME TypeOK, [Next]_vars, NEW q \in Requests,
             ~At(q, "exchange"), At(q, "exchange")'
      PROVE  age[Asked(q)] <= Window + Slack
  <2> USE DEF TypeOK, At, Goto, Answer, Request
  <2>1. ASSUME NEW r \in Requests, Step(r)
        PROVE  CheckAge(q)
    BY <1>1, <2>1 DEF Step, FindPKCE, FindPKCEFails, GetProfile, GetProfileFails, Destroy,
       DestroyFails, CheckAge, TimedOut, Exchange, ExchangeFails, Verify, VerifyFails,
       CreateCharacter, CreateCharacterFails, CleanAndRedirect
  <2>2. ASSUME \/ \E r \in Requests, k \in codes, h \in Hosts : Arrive(r, k, h)
               \/ \E h \in Hosts : CleanPKCE(h) \/ Crash(h)
               \/ \E h \in Hosts, pr \in Profiles, st \in States : CreatePKCE(h, pr, st)
               \/ \E st \in States, c \in Characters : LogIn(st, c)
               \/ \E pr \in Profiles : DeleteProfile(pr)
               \/ Tick
               \/ UNCHANGED vars
        PROVE  FALSE
    BY <1>1, <2>2 DEF Arrive, Crash, CleanPKCE, CreatePKCE, LogIn, DeleteProfile, Tick, vars
  <2>3. CheckAge(q)
    BY <1>1, <2>1, <2>2 DEF Next
  <2>4. Host(q) \in Hosts /\ Asked(q) \in States /\ origin[Asked(q)] # None
    BY <1>1, <2>3 DEF CheckAge, Host, Asked, Code
  <2>5. /\ Seen(Host(q), Asked(q)) <= Window
        /\ Seen(Host(q), Asked(q)) \in Int
        /\ age[Asked(q)] - Seen(Host(q), Asked(q)) <= Slack
    BY <1>1, <2>3, <2>4, SeenTogether DEF CheckAge
  <2>6. age[Asked(q)] \in Nat /\ Window \in Nat /\ Slack \in Nat
    BY <1>1, <2>4, ConstantsAssumption
  <2> QED BY <2>5, <2>6
<1>2. TypeOK /\ [Next]_vars =>
        [\A q \in Requests :
           (~At(q, "exchange") /\ At(q, "exchange")') => age[Asked(q)] <= Window + Slack]_vars
  BY <1>1
<1> QED BY <1>2, TypeCorrect, PTL DEF Spec, ExchangeIsFresh
-----------------------------------------------------------------------------
(* Where authorizations land.                                              *)

(* LandsInItsProfile, and that the states rows descend from have been made. *)
LandsInv ==
    /\ LandsInItsProfile
    /\ \A pr \in Profiles, c \in Characters :
         characters[pr][c] # None =>
            /\ origin[characters[pr][c].refresh.state] # None
            /\ origin[characters[pr][c].data] # None

LEMMA LandsStep == TypeOK /\ LandsInv /\ [Next]_vars => LandsInv'
<1> SUFFICES ASSUME TypeOK, LandsInv, [Next]_vars PROVE LandsInv'
  OBVIOUS
<1> USE DEF LandsInv, LandsInItsProfile, store, sso
<1>1. ASSUME UNCHANGED <<profiles, origin, characters>>
      PROVE  LandsInv'
  BY <1>1
<1>2. ASSUME NEW q \in Requests, Step(q), ~CreateCharacter(q)
      PROVE  LandsInv'
  BY <1>1, <1>2 DEF Step, FindPKCE, FindPKCEFails, GetProfile, GetProfileFails, Destroy,
     DestroyFails, CheckAge, TimedOut, Exchange, ExchangeFails, Verify, VerifyFails,
     CreateCharacterFails, CleanAndRedirect
<1>3. ASSUME NEW q \in Requests, CreateCharacter(q)
      PROVE  LandsInv'
  <2> DEFINE k  == request[q].code
             pr == origin[k.state].profile
  <2>1. /\ k \in Code /\ origin[k.state] # None /\ pr \in Profiles /\ pr \in profiles
        /\ characters \in Tables /\ characters' = Upsert(pr, k)
        /\ UNCHANGED <<profiles, origin>>
    BY <1>3 DEF CreateCharacter, At, Asked, TypeOK, Tables
  <2>2. ASSUME NEW p \in Profiles, NEW c \in Characters, characters'[p][c] # None
        PROVE  \/ characters'[p][c] = characters[p][c]
               \/ /\ p = pr
                  /\ characters'[p][c].refresh = k
                  /\ \/ characters'[p][c].data = k.state
                     \/ /\ characters[p][c] # None
                        /\ characters'[p][c].data = characters[p][c].data
    <3>1. characters[p][c] \in Row \cup {None}
      BY <2>1, <2>2 DEF Tables
    <3> HIDE DEF k, pr
    <3>2. characters'[p][c] =
            IF p = pr /\ c = k.who
            THEN IF characters[pr][c] = None
                 THEN [access |-> k, refresh |-> k, data |-> k.state]
                 ELSE [characters[pr][c] EXCEPT !.refresh = k]
            ELSE characters[p][c]
      BY <2>1, <2>2, UpsertRow
    <3> QED BY <3>1, <3>2 DEF Row
  <2>3. ASSUME NEW p \in Profiles, NEW c \in Characters, characters'[p][c] # None
        PROVE  /\ p \in profiles
               /\ origin[characters'[p][c].refresh.state].profile = p
               /\ origin[characters'[p][c].data].profile = p
               /\ origin[characters'[p][c].refresh.state] # None
               /\ origin[characters'[p][c].data] # None
    <3>1. CASE characters'[p][c] = characters[p][c]
      BY <2>3, <3>1
    <3>2. CASE characters'[p][c] # characters[p][c]
      <4>1. /\ p = pr /\ characters'[p][c].refresh.state = k.state
            /\ \/ characters'[p][c].data = k.state
               \/ /\ characters[p][c] # None
                  /\ characters'[p][c].data = characters[p][c].data
        BY <2>2, <2>3, <3>2
      <4>2. p \in profiles /\ origin[k.state].profile = p /\ origin[k.state] # None
        BY <2>1, <4>1
      <4> HIDE DEF k, pr
      <4> QED BY <4>1, <4>2
    <3> QED BY <3>1, <3>2
  <2>4. UNCHANGED <<profiles, origin>>
    BY <2>1
  <2> HIDE DEF k, pr
  <2> QED BY ONLY <2>3, <2>4 DEF LandsInv, LandsInItsProfile
<1>4. ASSUME NEW q \in Requests, NEW k \in codes, NEW h \in Hosts, Arrive(q, k, h)
      PROVE  LandsInv'
  BY <1>1, <1>4 DEF Arrive
<1>5. ASSUME NEW h \in Hosts, NEW pr \in Profiles, NEW st \in States, CreatePKCE(h, pr, st)
      PROVE  LandsInv'
  <2>1. \A x \in States : origin[x] # None => origin'[x] = origin[x]
    BY <1>5 DEF CreatePKCE, TypeOK
  <2>2. ASSUME NEW p \in Profiles, NEW c \in Characters, characters[p][c] # None
        PROVE  characters[p][c].refresh.state \in States /\ characters[p][c].data \in States
    BY <2>2 DEF TypeOK, Row, Code
  <2> QED BY <1>5, <2>1, <2>2 DEF CreatePKCE
<1>6. ASSUME NEW h \in Hosts, CleanPKCE(h) \/ Crash(h)
      PROVE  LandsInv'
  BY <1>1, <1>6 DEF CleanPKCE, Crash
<1>7. ASSUME NEW st \in States, NEW c \in Characters, LogIn(st, c)
      PROVE  LandsInv'
  BY <1>1, <1>7 DEF LogIn
<1>8. ASSUME NEW pr \in Profiles, DeleteProfile(pr)
      PROVE  LandsInv'
  <2>1. ASSUME NEW p \in Profiles, NEW c \in Characters, characters'[p][c] # None
        PROVE  p # pr /\ characters'[p][c] = characters[p][c]
    BY <1>8, <2>1 DEF DeleteProfile, TypeOK
  <2> QED BY <1>8, <2>1 DEF DeleteProfile
<1>9. ASSUME Tick \/ UNCHANGED vars
      PROVE  LandsInv'
  BY <1>1, <1>9 DEF Tick, vars
<1> QED BY <1>2, <1>3, <1>4, <1>5, <1>6, <1>7, <1>8, <1>9 DEF Next

(* Whoever logs in, and whenever, the character is stored in the profile   *)
(* its row was made for, and goes with that profile.                       *)
THEOREM AuthorizationsLand == Spec => []LandsInItsProfile
<1>1. Init => LandsInv
  BY DEF Init, LandsInv, LandsInItsProfile
<1>2. TypeOK /\ LandsInv /\ [Next]_vars => LandsInv'
  BY LandsStep
<1>3. LandsInv => LandsInItsProfile
  BY DEF LandsInv
<1> QED BY <1>1, <1>2, <1>3, TypeCorrect, PTL DEF Spec

-----------------------------------------------------------------------------
(* Grants the SSO has handed out.                                          *)

LEMMA GrantStep == TypeOK /\ NoGrantLost /\ [Next]_vars => NoGrantLost'
<1> SUFFICES ASSUME TypeOK, NoGrantLost, [Next]_vars PROVE NoGrantLost'
  OBVIOUS
<1> DEFINE Carrying == UNION {Carried(q) : q \in Requests}
<1>1. ASSUME spent' \subseteq spent \cup dropped' \cup Carrying',
             dropped \subseteq dropped',
             Stored \subseteq Stored' \cup dropped',
             \A q \in Requests : Carried(q) \subseteq Carrying' \cup Stored' \cup dropped'
      PROVE  NoGrantLost'
  BY <1>1 DEF NoGrantLost
<1>2. ASSUME NEW q \in Requests, \A r \in Requests \ {q} : request'[r] = request[r]
      PROVE  /\ \A r \in Requests \ {q} : Carried(r) \subseteq Carrying'
             /\ Carried(q)' \subseteq Carrying'
  BY <1>2 DEF Carried
<1>3. UNCHANGED characters => Stored' = Stored
  BY DEF Stored, StoredIn
<1> USE <1>1, <1>2, <1>3 DEF store, sso, At, Goto, Answer, TypeOK, Request
<1>4. ASSUME NEW q \in Requests,
             FindPKCE(q) \/ FindPKCEFails(q) \/ GetProfile(q) \/ GetProfileFails(q)
               \/ Destroy(q) \/ DestroyFails(q) \/ CheckAge(q) \/ TimedOut(q)
               \/ ExchangeFails(q) \/ CleanAndRedirect(q)
      PROVE  NoGrantLost'
  <2>1. \A r \in Requests \ {q} : request'[r] = request[r]
    BY <1>4 DEF FindPKCE, FindPKCEFails, GetProfile, GetProfileFails, Destroy,
       DestroyFails, CheckAge, TimedOut, ExchangeFails, CleanAndRedirect
  <2>2. Carried(q) = {}
    BY <1>4 DEF FindPKCE, FindPKCEFails, GetProfile, GetProfileFails, Destroy,
       DestroyFails, CheckAge, TimedOut, ExchangeFails, CleanAndRedirect, Carried
  <2>3. UNCHANGED <<characters, spent, dropped>>
    BY <1>4 DEF FindPKCE, FindPKCEFails, GetProfile, GetProfileFails, Destroy,
       DestroyFails, CheckAge, TimedOut, ExchangeFails, CleanAndRedirect
  <2> HIDE DEF Carrying
  <2> QED BY <2>1, <2>2, <2>3
<1>5. ASSUME NEW q \in Requests, Exchange(q)
      PROVE  NoGrantLost'
  <2>1. \A r \in Requests \ {q} : request'[r] = request[r]
    BY <1>5 DEF Exchange
  <2>2. Carried(q) = {} /\ spent' = spent \cup {request[q].code} /\ dropped \subseteq dropped'
    BY <1>5 DEF Exchange, Carried
  <2>3. request[q].code \in dropped' \cup Carried(q)'
    <3>1. CASE request' = [request EXCEPT ![q].step = "verify"]
      <4>1. request[q] \in Request /\ request'[q] = [request[q] EXCEPT !.step = "verify"]
        BY <1>5, <3>1 DEF Exchange
      <4>2. request'[q] \in Request
        BY <4>1 DEF Steps
      <4> QED BY <4>1, <4>2, ConstantsAssumption DEF Carried
    <3>2. CASE dropped' = dropped \cup {request[q].code}
      BY <3>2
    <3> QED BY <1>5, <3>1, <3>2 DEF Exchange
  <2>4. UNCHANGED characters
    BY <1>5 DEF Exchange
  <2> HIDE DEF Carrying
  <2> QED BY <2>1, <2>2, <2>3, <2>4
<1>6. ASSUME NEW q \in Requests, Verify(q)
      PROVE  NoGrantLost'
  <2>1. \A r \in Requests \ {q} : request'[r] = request[r]
    BY <1>6 DEF Verify
  <2>2. Carried(q)' = Carried(q)
    <3>1. /\ request[q] \in Request /\ request[q].step = "verify"
          /\ request'[q] = [request[q] EXCEPT !.step = "create"]
      BY <1>6 DEF Verify
    <3>2. request'[q] \in Request
      BY <3>1 DEF Steps
    <3> QED BY <3>1, <3>2, ConstantsAssumption DEF Carried
  <2>3. UNCHANGED <<characters, spent, dropped>>
    BY <1>6 DEF Verify
  <2> HIDE DEF Carrying
  <2> QED BY <2>1, <2>2, <2>3
<1>7. ASSUME NEW q \in Requests, VerifyFails(q) \/ CreateCharacterFails(q)
      PROVE  NoGrantLost'
  <2>1. \A r \in Requests \ {q} : request'[r] = request[r]
    BY <1>7 DEF VerifyFails, CreateCharacterFails
  <2>2. /\ UNCHANGED <<characters, spent>>
        /\ dropped' = dropped \cup Carried(q)
    BY <1>7 DEF VerifyFails, CreateCharacterFails
  <2> HIDE DEF Carrying
  <2> QED BY <2>1, <2>2
<1>8. ASSUME NEW q \in Requests, CreateCharacter(q)
      PROVE  NoGrantLost'
  <2>1. \A r \in Requests \ {q} : request'[r] = request[r]
    BY <1>8 DEF CreateCharacter
  <2>2. PICK k \in Code, pr \in Profiles :
        /\ spent' = spent /\ dropped' = dropped \cup (Stored \ Stored')
        /\ Carried(q) = {k}
        /\ characters \in Tables /\ characters' = Upsert(pr, k)
    <3>1. request[q].code \in Code /\ origin[request[q].code.state].profile \in Profiles
      <4>1. request[q] # None /\ request[q].code \in codes
        BY <1>8 DEF CreateCharacter, At
      <4>2. /\ request[q].code \in Code
            /\ origin[request[q].code.state] \in Pkce
        BY <4>1 DEF Code
      <4> QED BY <4>2 DEF Pkce
    <3> QED BY <1>8, <3>1 DEF CreateCharacter, Carried, Asked, Tables
  <2>3. k \in Stored'
    <3>1. k.who \in Characters /\ characters[pr][k.who] \in Row \cup {None}
      BY <2>2 DEF Code, Tables
    <3>2. characters'[pr][k.who] =
            IF characters[pr][k.who] = None
            THEN [access |-> k, refresh |-> k, data |-> k.state]
            ELSE [characters[pr][k.who] EXCEPT !.refresh = k]
      BY <2>2, <3>1, UpsertRow
    <3>3. /\ characters'[pr][k.who] \in Row
          /\ characters'[pr][k.who].refresh = k
      <4>1. [access |-> k, refresh |-> k, data |-> k.state] \in Row
        BY <2>2 DEF Row, Code
      <4>2. characters[pr][k.who] # None =>
              /\ [characters[pr][k.who] EXCEPT !.refresh = k] \in Row
              /\ [characters[pr][k.who] EXCEPT !.refresh = k].refresh = k
        BY <2>2, <3>1 DEF Row
      <4>3. CASE characters[pr][k.who] = None
        BY <3>2, <4>1, <4>3
      <4>4. CASE characters[pr][k.who] # None
        BY <3>2, <4>2, <4>4
      <4> QED BY <4>3, <4>4
    <3>4. characters'[pr][k.who] # None
      BY <3>3, ConstantsAssumption
    <3>5. k \in StoredIn(pr)'
      BY <3>1, <3>3, <3>4 DEF StoredIn
    <3> QED BY <2>2, <3>5 DEF Stored
  <2> HIDE DEF Carrying
  <2> QED BY <2>1, <2>2, <2>3
<1>9. ASSUME NEW q \in Requests, NEW k \in codes, NEW h \in Hosts, Arrive(q, k, h)
      PROVE  NoGrantLost'
  <2>1. \A r \in Requests \ {q} : request'[r] = request[r]
    BY <1>9 DEF Arrive
  <2>2. Carried(q) = {} /\ UNCHANGED <<characters, spent, dropped>>
    BY <1>9 DEF Arrive, Carried
  <2> HIDE DEF Carrying
  <2> QED BY <2>1, <2>2
<1>10. ASSUME NEW h \in Hosts, Crash(h)
       PROVE  NoGrantLost'
  <2>1. ASSUME NEW q \in Requests
        PROVE  Carried(q) \subseteq Carrying' \cup dropped'
    <3>1. CASE request[q] # None /\ request[q].host = h
      BY <1>10, <3>1 DEF Crash
    <3>2. CASE ~(request[q] # None /\ request[q].host = h)
      BY <1>10, <3>2 DEF Crash, Carried
    <3> QED BY <3>1, <3>2
  <2>2. UNCHANGED <<characters, spent>> /\ dropped \subseteq dropped'
    BY <1>10 DEF Crash
  <2> HIDE DEF Carrying
  <2> QED BY <2>1, <2>2
<1>11. ASSUME UNCHANGED <<request, spent>>, dropped \subseteq dropped',
              Stored \subseteq Stored' \cup dropped'
       PROVE  NoGrantLost'
  <2>1. Carrying' = Carrying
    BY <1>11 DEF Carried
  <2>2. \A q \in Requests : Carried(q) \subseteq Carrying
    OBVIOUS
  <2> HIDE DEF Carrying
  <2> QED BY <1>11, <2>1, <2>2
<1>12. ASSUME NEW pr \in Profiles, DeleteProfile(pr)
       PROVE  NoGrantLost'
  BY <1>11, <1>12 DEF DeleteProfile
<1>13. ASSUME \/ \E h \in Hosts, pr \in Profiles, st \in States : CreatePKCE(h, pr, st)
              \/ \E h \in Hosts : CleanPKCE(h)
              \/ \E st \in States, c \in Characters : LogIn(st, c)
              \/ Tick
              \/ UNCHANGED vars
       PROVE  NoGrantLost'
  <2>1. UNCHANGED <<request, spent, dropped, characters>>
    BY <1>13 DEF CreatePKCE, CleanPKCE, LogIn, Tick, vars
  <2> QED BY <1>11, <2>1
<1> QED
  BY <1>4, <1>5, <1>6, <1>7, <1>8, <1>9, <1>10, <1>12, <1>13 DEF Next, Step

(* What the SSO has granted is stored, about to be, replaced by a later    *)
(* authorization, or lost to a fault the handler reported.                 *)
THEOREM GrantsAreKept == Spec => []NoGrantLost
<1>1. Init => NoGrantLost
  BY DEF Init, NoGrantLost
<1>2. TypeOK /\ NoGrantLost /\ [Next]_vars => NoGrantLost'
  BY GrantStep
<1> QED BY <1>1, <1>2, TypeCorrect, PTL DEF Spec

-----------------------------------------------------------------------------
(* Callback implements TokenVault.                                         *)

Carrying == UNION {Carried(q) : q \in Requests}

(* The abstract rows. *)
Refreshes == [j \in Profiles \X Characters |->
                IF characters[j[1]][j[2]] = None THEN None
                ELSE characters[j[1]][j[2]].refresh]

(* Where an exchanged grant is: in one request, or in the row of whoever   *)
(* logged in.                                                              *)
PlaceInv ==
    /\ \A pr \in Profiles, c \in Characters :
         characters[pr][c] # None =>
            /\ characters[pr][c].refresh \in spent
            /\ characters[pr][c].refresh.who = c
    /\ \A q \in Requests : Carried(q) \subseteq spent \ Stored
    /\ \A q, r \in Requests : q # r => Carried(q) \cap Carried(r) = {}
    /\ codes \subseteq Issuable

Refines == PlaceInv' /\ (Vault!Next \/ UNCHANGED Vault!vars)

LEMMA VaultMaps ==
    ASSUME TypeOK, PlaceInv
    PROVE  /\ Vault!Stored = Stored
           /\ Stored \cup Carrying \cup spent \subseteq Issuable
           /\ \A j \in Profiles \X Characters :
                Refreshes[j] # None <=> characters[j[1]][j[2]] # None
<1>1. Stored \cup Carrying \subseteq spent /\ spent \subseteq Issuable
  BY DEF PlaceInv, Stored, StoredIn, Carrying, TypeOK
<1>2. \A pr \in Profiles, c \in Characters :
        characters[pr][c] # None => characters[pr][c].refresh # None
  BY ConstantsAssumption DEF TypeOK, Row
<1>3. \A j \in Profiles \X Characters :
        Refreshes[j] # None <=> characters[j[1]][j[2]] # None
  BY <1>2 DEF Refreshes
<1>4. Vault!Stored = {Refreshes[j] : j \in {i \in Profiles \X Characters : Refreshes[i] # None}}
  BY DEF Vault!Stored, Refreshes
<1>5. ASSUME NEW x PROVE x \in Vault!Stored <=> x \in Stored
  <2>1. ASSUME x \in Vault!Stored PROVE x \in Stored
    <3>1. PICK j \in Profiles \X Characters : Refreshes[j] # None /\ x = Refreshes[j]
      BY <1>4, <2>1
    <3>2. x = characters[j[1]][j[2]].refresh /\ characters[j[1]][j[2]] # None
      BY <1>3, <3>1 DEF Refreshes
    <3> QED BY <3>1, <3>2 DEF Stored, StoredIn
  <2>2. ASSUME x \in Stored PROVE x \in Vault!Stored
    <3>1. PICK pr \in Profiles, c \in Characters :
            characters[pr][c] # None /\ x = characters[pr][c].refresh
      BY <2>2 DEF Stored, StoredIn
    <3>2. <<pr, c>> \in Profiles \X Characters /\ Refreshes[<<pr, c>>] = x
      BY <3>1 DEF Refreshes
    <3>3. Refreshes[<<pr, c>>] # None
      BY <1>3, <3>1, <3>2
    <3> QED BY <1>4, <3>2, <3>3
  <2> QED BY <2>1, <2>2
<1> QED BY <1>1, <1>3, <1>5

(* A step after which every grant is where it was. *)
LEMMA QuietStep ==
    ASSUME PlaceInv,
           \A q \in Requests : Carried(q)' = Carried(q),
           UNCHANGED <<characters, spent, dropped>>,
           codes' \subseteq Issuable
    PROVE  Refines
<1>1. Stored' = Stored
  BY DEF Stored, StoredIn
<1>2. Refreshes' = Refreshes /\ Carrying' = Carrying
  BY DEF Refreshes, Carrying
<1>3. UNCHANGED Vault!vars
  BY <1>2 DEF Vault!vars, Refreshes, Carrying
<1> QED BY <1>1, <1>3 DEF Refines, PlaceInv

(* Requests that end without storing what they carry. *)
LEMMA LoseStep ==
    ASSUME PlaceInv, NEW Q \in SUBSET Requests,
           \A q \in Q : Carried(q)' = {},
           \A q \in Requests \ Q : Carried(q)' = Carried(q),
           UNCHANGED <<characters, spent, codes>>,
           dropped' = dropped \cup UNION {Carried(q) : q \in Q}
    PROVE  Refines
<1> DEFINE R == UNION {Carried(q) : q \in Q}
<1>1. Stored' = Stored /\ Refreshes' = Refreshes
  BY DEF Stored, StoredIn, Refreshes
<1>2. R \in SUBSET Carrying /\ Carrying' = Carrying \ R
  BY DEF Carrying, PlaceInv
<1>3. PlaceInv'
  BY <1>1 DEF PlaceInv
<1>4. Vault!Lose(R)
  BY <1>1, <1>2 DEF Vault!Lose, Refreshes, Carrying
<1>5. Vault!Next
  BY <1>2, <1>4 DEF Vault!Next, Carrying
<1> QED BY <1>3, <1>5 DEF Refines

LEMMA ExchangeKeepsVault ==
    ASSUME TypeOK, PlaceInv, NEW q \in Requests, Exchange(q)
    PROVE  Refines
<1>1. /\ request[q] \in Request /\ request[q].step = "exchange"
      /\ request[q].code \in codes \ spent
      /\ UNCHANGED <<characters, codes>>
      /\ spent' = spent \cup {request[q].code}
      /\ \A r \in Requests \ {q} : request'[r] = request[r]
  BY DEF Exchange, At, store, TypeOK, Goto, Answer
<1> PICK k \in Issuable : k = request[q].code
  BY <1>1 DEF PlaceInv
<1>2. Stored' = Stored /\ Refreshes' = Refreshes
  BY <1>1 DEF Stored, StoredIn, Refreshes
<1>3. Carried(q) = {} /\ \A r \in Requests \ {q} : Carried(r)' = Carried(r)
  BY <1>1 DEF Carried
<1>4. k \notin Stored \cup Carrying \cup spent
  BY <1>1 DEF PlaceInv, Stored, StoredIn, Carrying
<1>5. \/ Carried(q)' = {k} /\ dropped' = dropped
      \/ Carried(q)' = {} /\ dropped' = dropped \cup {k}
  <2>1. CASE Goto(q, "verify") /\ UNCHANGED dropped
    <3>1. request'[q] = [request[q] EXCEPT !.step = "verify"]
      BY <1>1, <2>1 DEF Goto, TypeOK
    <3>2. request'[q] \in Request /\ request'[q].step = "verify" /\ request'[q].code = k
      BY <1>1, <3>1 DEF Request, Steps
    <3> QED BY <2>1, <3>2, ConstantsAssumption DEF Carried
  <2>2. CASE Answer(q) /\ dropped' = dropped \cup {k}
    BY <2>2 DEF Answer, TypeOK, Carried
  <2> QED BY <2>1, <2>2 DEF Exchange
<1>6. PlaceInv'
  BY <1>1, <1>2, <1>3, <1>4, <1>5 DEF PlaceInv, Carrying
<1>7. \A t \in Issuable : [x \in Issuable |-> x][t] = t
  OBVIOUS
<1>8. Carrying' = Carrying \cup Carried(q)'
  BY <1>3 DEF Carrying
<1>9. /\ \A t \in Vault!Stored \cup Carrying :
           [x \in Issuable |-> x][t] # [x \in Issuable |-> x][k]
      /\ spent' = {t \in spent : [x \in Issuable |-> x][t] # [x \in Issuable |-> x][k]} \cup {k}
  BY <1>1, <1>4, <1>7, VaultMaps
<1>10. Vault!Issue(k)
  <2>1. CASE Carrying' = Carrying \cup {k} /\ dropped' = dropped
    BY <1>2, <1>4, <1>9, <2>1 DEF Vault!Issue, Refreshes, Carrying
  <2>2. CASE Carrying' = Carrying /\ dropped' = dropped \cup {k}
    BY <1>2, <1>4, <1>9, <2>2 DEF Vault!Issue, Refreshes, Carrying
  <2> QED BY <1>5, <1>8, <2>1, <2>2
<1>11. Vault!Next
  BY <1>10 DEF Vault!Next
<1> QED BY <1>6, <1>11 DEF Refines

(* A grant is in one row at most: that of who logged in, in the profile of *)
(* its state.                                                              *)
LEMMA GrantsHaveAPlace ==
    ASSUME LandsInv, PlaceInv,
           NEW p \in Profiles, NEW c \in Characters, characters[p][c] # None,
           NEW o \in Profiles, NEW d \in Characters, characters[o][d] # None,
           characters[p][c].refresh = characters[o][d].refresh
    PROVE  p = o /\ c = d
BY DEF LandsInv, LandsInItsProfile, PlaceInv

LEMMA UpsertPlaces ==
    ASSUME characters \in Tables, NEW pr \in Profiles, NEW k \in Code,
           characters' = Upsert(pr, k)
    PROVE  /\ characters'[pr][k.who] # None /\ characters'[pr][k.who].refresh = k
           /\ \A p \in Profiles, d \in Characters :
                p # pr \/ d # k.who => characters'[p][d] = characters[p][d]
<1>1. k.who \in Characters /\ characters[pr][k.who] \in Row \cup {None}
  BY DEF Code, Tables
<1>2. characters'[pr][k.who] = IF characters[pr][k.who] = None
                               THEN [access |-> k, refresh |-> k, data |-> k.state]
                               ELSE [characters[pr][k.who] EXCEPT !.refresh = k]
  BY <1>1, UpsertRow
<1>3. /\ [access |-> k, refresh |-> k, data |-> k.state] \in Row
      /\ [access |-> k, refresh |-> k, data |-> k.state].refresh = k
  BY DEF Row, Code
<1>4. characters[pr][k.who] # None =>
        /\ [characters[pr][k.who] EXCEPT !.refresh = k] \in Row
        /\ [characters[pr][k.who] EXCEPT !.refresh = k].refresh = k
  BY <1>1 DEF Row
<1>5. characters'[pr][k.who] \in Row /\ characters'[pr][k.who].refresh = k
  <2>1. CASE characters[pr][k.who] = None
    BY <1>2, <1>3, <2>1
  <2>2. CASE characters[pr][k.who] # None
    BY <1>2, <1>4, <2>2
  <2> QED BY <2>1, <2>2
<1>6. \A p \in Profiles, d \in Characters :
        p # pr \/ d # k.who => characters'[p][d] = characters[p][d]
  <2>1. ASSUME NEW p \in Profiles, NEW d \in Characters, p # pr \/ d # k.who
        PROVE  Upsert(pr, k)[p][d] = characters[p][d]
    BY <1>1, <2>1 DEF Upsert, Tables
  <2> QED BY <2>1
<1> QED BY <1>5, <1>6, ConstantsAssumption

(* What the upsert displaces is what its row had. *)
LEMMA DisplacedHere ==
    ASSUME LandsInv, PlaceInv, NEW pr \in Profiles, NEW c \in Characters, NEW k,
           k \notin Stored,
           characters'[pr][c] # None, characters'[pr][c].refresh = k,
           \A p \in Profiles, d \in Characters :
             p # pr \/ d # c => characters'[p][d] = characters[p][d]
    PROVE  /\ Stored' \subseteq Stored \cup {k}
           /\ Stored \ Stored' = IF characters[pr][c] # None
                                 THEN {characters[pr][c].refresh} ELSE {}
<1>1. \A p \in Profiles, d \in Characters :
        characters[p][d] # None => characters[p][d].refresh \in Stored
  BY DEF Stored, StoredIn
<1>2. \A p \in Profiles, d \in Characters :
        characters'[p][d] # None => characters'[p][d].refresh \in Stored'
  BY DEF Stored, StoredIn
<1>3. \A x \in Stored : \E p \in Profiles, d \in Characters :
        characters[p][d] # None /\ x = characters[p][d].refresh
  BY DEF Stored, StoredIn
<1>4. \A x \in Stored' : \E p \in Profiles, d \in Characters :
        characters'[p][d] # None /\ x = characters'[p][d].refresh
  BY DEF Stored, StoredIn
<1>5. Stored' \subseteq Stored \cup {k}
  BY <1>1, <1>4
<1>6. ASSUME characters[pr][c] # None
      PROVE  characters[pr][c].refresh \in Stored \ Stored'
  <2>1. ASSUME NEW p \in Profiles, NEW d \in Characters, characters'[p][d] # None
        PROVE  characters'[p][d].refresh # characters[pr][c].refresh
    <3>1. CASE p = pr /\ d = c
      BY <1>1, <1>6, <3>1
    <3>2. CASE p # pr \/ d # c
      BY <1>6, <2>1, <3>2, GrantsHaveAPlace
    <3> QED BY <3>1, <3>2
  <2> QED BY <1>1, <1>4, <1>6, <2>1
<1>7. ASSUME NEW x \in Stored \ Stored'
      PROVE  characters[pr][c] # None /\ x = characters[pr][c].refresh
  <2>1. PICK p \in Profiles, d \in Characters :
          characters[p][d] # None /\ x = characters[p][d].refresh
    BY <1>3, <1>7
  <2>2. p = pr /\ d = c
    BY <1>2, <1>7, <2>1
  <2> QED BY <2>1, <2>2
<1> QED BY <1>5, <1>6, <1>7

(* The upsert is the vault's Put. *)
LEMMA PutStep ==
    ASSUME TypeOK, LandsInv, PlaceInv,
           NEW pr \in Profiles, NEW c \in Characters, NEW k \in Issuable,
           k \notin Stored,
           characters'[pr][c] # None, characters'[pr][c].refresh = k,
           \A p \in Profiles, d \in Characters :
             p # pr \/ d # c => characters'[p][d] = characters[p][d],
           dropped' = dropped \cup (Stored \ Stored')
    PROVE  \E j \in Profiles \X Characters : Vault!Put(j, k)
<1> PICK j \in Profiles \X Characters : j = <<pr, c>>
  OBVIOUS
<1>1. j[1] = pr /\ j[2] = c
  OBVIOUS
<1>2. /\ Refreshes[j] # None <=> characters[pr][c] # None
      /\ Refreshes[j] # None => Refreshes[j] = characters[pr][c].refresh
  BY <1>1, VaultMaps DEF Refreshes
<1>3. Refreshes[j] # None => Refreshes[j] \in Issuable /\ Refreshes[j] # k
  <2>1. characters[pr][c] # None => characters[pr][c].refresh \in Stored
    BY DEF Stored, StoredIn
  <2> QED BY <1>2, <2>1, VaultMaps
<1>4. \A t \in Issuable : [x \in Issuable |-> x][t] = t
  OBVIOUS
<1>5. Refreshes[j] # None =>
        [x \in Issuable |-> x][Refreshes[j]] # [x \in Issuable |-> x][k]
  BY <1>3, <1>4
<1>6. Stored \ Stored' = IF Refreshes[j] # None THEN {Refreshes[j]} ELSE {}
  BY <1>2, DisplacedHere
<1>7. Refreshes' = [Refreshes EXCEPT ![j] = k]
  <2>1. ASSUME NEW i \in Profiles \X Characters
        PROVE  Refreshes'[i] = IF i = j THEN k ELSE Refreshes[i]
    <3>1. i[1] \in Profiles /\ i[2] \in Characters /\ i = <<i[1], i[2]>>
      OBVIOUS
    <3>2. Refreshes'[i] = IF characters'[i[1]][i[2]] = None THEN None
                          ELSE characters'[i[1]][i[2]].refresh
      BY DEF Refreshes
    <3>3. Refreshes[i] = IF characters[i[1]][i[2]] = None THEN None
                         ELSE characters[i[1]][i[2]].refresh
      BY DEF Refreshes
    <3>4. CASE i = j
      BY <1>1, <3>2, <3>4
    <3>5. CASE i # j
      <4>1. i[1] # pr \/ i[2] # c
        BY <3>1, <3>5
      <4> QED BY <3>1, <3>2, <3>3, <3>5, <4>1
    <3> QED BY <3>4, <3>5
  <2> QED BY <2>1 DEF Refreshes
<1> QED BY <1>5, <1>6, <1>7 DEF Vault!Put, Refreshes

LEMMA CreateKeepsVault ==
    ASSUME TypeOK, LandsInv, PlaceInv, NEW q \in Requests, CreateCharacter(q)
    PROVE  Refines
<1>1. /\ request[q] # None /\ request[q].step = "create" /\ Carried(q) = {request[q].code}
      /\ request[q].code \in codes /\ request[q].code \in Code
      /\ origin[request[q].code.state].profile \in Profiles
  BY DEF CreateCharacter, At, Carried, TypeOK, Pkce, Code
<1> PICK k \in Code, pr \in Profiles, c \in Characters :
      k = request[q].code /\ pr = origin[k.state].profile /\ c = k.who
  BY <1>1 DEF Code
<1>2. k \in Issuable /\ k \in Carrying /\ k \in spent /\ k \notin Stored
  BY <1>1 DEF PlaceInv, Carrying
<1>3. /\ characters \in Tables /\ characters' = Upsert(pr, k)
      /\ UNCHANGED <<spent, codes>>
      /\ dropped' = dropped \cup (Stored \ Stored')
  BY DEF CreateCharacter, Asked, TypeOK, Tables, sso
<1>4. /\ Carried(q)' = {}
      /\ \A r \in Requests \ {q} : Carried(r)' = Carried(r) /\ k \notin Carried(r)
  <2>1. \A r \in Requests \ {q} : request'[r] = request[r]
    BY DEF CreateCharacter, Goto, Answer, TypeOK
  <2>2. request'[q] # None => request'[q].step = "clean"
    BY <1>1 DEF CreateCharacter, Goto, Answer, TypeOK, Request
  <2> QED BY <1>1, <2>1, <2>2 DEF Carried, PlaceInv
<1>5. Carrying' = Carrying \ {k}
  BY <1>1, <1>4 DEF Carrying
<1>6. /\ characters'[pr][c] # None /\ characters'[pr][c].refresh = k
      /\ \A p \in Profiles, d \in Characters :
           p # pr \/ d # c => characters'[p][d] = characters[p][d]
  <2>1. /\ characters'[pr][k.who] # None /\ characters'[pr][k.who].refresh = k
        /\ \A p \in Profiles, d \in Characters :
             p # pr \/ d # k.who => characters'[p][d] = characters[p][d]
    <3>1. characters \in Tables
      BY <1>3
    <3>2. characters' = Upsert(pr, k)
      BY <1>3
    <3> QED BY ONLY <3>1, <3>2, pr \in Profiles, k \in Code, UpsertPlaces
  <2> QED BY ONLY <2>1, c = k.who
<1>7. Stored' \subseteq Stored \cup {k}
  BY ONLY LandsInv, PlaceInv, pr \in Profiles, c \in Characters, <1>2, <1>6, DisplacedHere
<1>8. PlaceInv'
  <2>1. \A p \in Profiles, d \in Characters :
          characters'[p][d] # None =>
            characters'[p][d].refresh \in spent' /\ characters'[p][d].refresh.who = d
    <3>1. ASSUME NEW p \in Profiles, NEW d \in Characters, characters'[p][d] # None
          PROVE  characters'[p][d].refresh \in spent /\ characters'[p][d].refresh.who = d
      <4>1. CASE p = pr /\ d = c
        BY <1>2, <1>6, <4>1
      <4>2. CASE p # pr \/ d # c
        <5>1. characters'[p][d] = characters[p][d]
          BY <1>6, <4>2
        <5> QED BY <3>1, <5>1 DEF PlaceInv
      <4> QED BY <4>1, <4>2
    <3> QED BY <1>3, <3>1
  <2> QED BY <1>3, <1>4, <1>7, <2>1 DEF PlaceInv
<1>9. PICK j \in Profiles \X Characters : Vault!Put(j, k)
  BY <1>2, <1>3, <1>6, PutStep
<1>10. Vault!Save(j, k)
  BY <1>2, <1>3, <1>5, <1>9 DEF Vault!Save, Carrying
<1>11. Vault!Next
  BY <1>2, <1>10 DEF Vault!Next, Carrying
<1> QED BY <1>8, <1>11 DEF Refines

LEMMA DeleteKeepsVault ==
    ASSUME TypeOK, LandsInv, PlaceInv, NEW pr \in Profiles, DeleteProfile(pr)
    PROVE  Refines
<1> DEFINE K == {pr} \X Characters
<1>1. /\ characters' = [characters EXCEPT ![pr] = [c \in Characters |-> None]]
      /\ UNCHANGED <<request, spent, codes>>
      /\ dropped' = dropped \cup (Stored \ Stored')
  BY DEF DeleteProfile, sso
<1>2. \A p \in Profiles, c \in Characters :
        characters'[p][c] = IF p = pr THEN None ELSE characters[p][c]
  BY <1>1 DEF TypeOK
<1>3. Stored' \subseteq Stored
  BY <1>2 DEF Stored, StoredIn
<1>4. Carrying' = Carrying /\ \A q \in Requests : Carried(q)' = Carried(q)
  BY <1>1 DEF Carrying, Carried
<1>5. PlaceInv'
  <2>1. \A p \in Profiles, c \in Characters :
          characters'[p][c] # None => p # pr /\ characters'[p][c] = characters[p][c]
    BY <1>2
  <2> QED BY <1>1, <1>3, <1>4, <2>1 DEF PlaceInv
<1>6. Stored \ Stored' = {Refreshes[i] : i \in {j \in K : Refreshes[j] # None}}
  <2>1. ASSUME NEW x \in Stored \ Stored'
        PROVE  x \in {Refreshes[i] : i \in {j \in K : Refreshes[j] # None}}
    <3>1. PICK p \in Profiles, c \in Characters :
            characters[p][c] # None /\ x = characters[p][c].refresh
      BY DEF Stored, StoredIn
    <3>2. CASE p # pr
      BY <1>2, <3>1, <3>2 DEF Stored, StoredIn
    <3>3. CASE p = pr
      <4>1. <<p, c>> \in K /\ <<p, c>> \in Profiles \X Characters
        BY <3>3
      <4>2. Refreshes[<<p, c>>] # None /\ Refreshes[<<p, c>>] = x
        BY <3>1, <4>1, VaultMaps DEF Refreshes
      <4> QED BY <4>1, <4>2
    <3> QED BY <3>2, <3>3
  <2>2. ASSUME NEW j \in K, Refreshes[j] # None
        PROVE  Refreshes[j] \in Stored \ Stored'
    <3>1. PICK c \in Characters : j = <<pr, c>>
      OBVIOUS
    <3>2. characters[pr][c] # None /\ Refreshes[j] = characters[pr][c].refresh
      BY <2>2, <3>1, VaultMaps DEF Refreshes
    <3>3. ASSUME NEW p \in Profiles, NEW d \in Characters, characters'[p][d] # None
          PROVE  characters'[p][d].refresh # characters[pr][c].refresh
      BY <1>2, <3>2, <3>3, GrantsHaveAPlace
    <3> QED BY <3>2, <3>3 DEF Stored, StoredIn
  <2> QED BY <2>1, <2>2
<1>7. Refreshes' = [j \in Profiles \X Characters |-> IF j \in K THEN None ELSE Refreshes[j]]
  <2>1. ASSUME NEW j \in Profiles \X Characters
        PROVE  /\ j[1] \in Profiles /\ j[2] \in Characters
               /\ j \in K <=> j[1] = pr
    OBVIOUS
  <2> QED BY <1>2, <2>1 DEF Refreshes
<1>8. Vault!Erase(K)
  <2> HIDE DEF K
  <2> QED BY <1>1, <1>4, <1>6, <1>7 DEF Vault!Erase, Refreshes, Carrying
<1>9. Vault!Next
  <2>1. K \in SUBSET (Profiles \X Characters)
    OBVIOUS
  <2> HIDE DEF K
  <2> QED BY <1>8, <2>1 DEF Vault!Next
<1> QED BY <1>5, <1>9 DEF Refines

LEMMA VaultStep ==
    TypeOK /\ LandsInv /\ PlaceInv /\ [Next]_vars => Refines
<1> SUFFICES ASSUME TypeOK, LandsInv, PlaceInv, [Next]_vars PROVE Refines
  OBVIOUS
<1>0. codes \subseteq Issuable
  BY DEF PlaceInv
<1>1. ASSUME NEW q \in Requests, \A r \in Requests \ {q} : request'[r] = request[r]
      PROVE  \A r \in Requests \ {q} : Carried(r)' = Carried(r)
  BY <1>1 DEF Carried
<1>2. ASSUME NEW q \in Requests,
             FindPKCE(q) \/ FindPKCEFails(q) \/ GetProfile(q) \/ GetProfileFails(q)
               \/ Destroy(q) \/ DestroyFails(q) \/ CheckAge(q) \/ TimedOut(q)
               \/ ExchangeFails(q) \/ CleanAndRedirect(q)
      PROVE  Refines
  <2>1. /\ request[q] \in Request /\ request[q] # None
        /\ request[q].step \in {"find", "profile", "destroy", "check", "exchange", "clean"}
        /\ UNCHANGED <<characters, codes, spent, dropped>>
        /\ \A r \in Requests \ {q} : request'[r] = request[r]
    BY <1>2 DEF FindPKCE, FindPKCEFails, GetProfile, GetProfileFails, Destroy,
       DestroyFails, CheckAge, TimedOut, ExchangeFails, CleanAndRedirect, At, Goto, Answer,
       store, sso, TypeOK
  <2>2. request'[q] # None =>
          request'[q].step \in {"profile", "destroy", "check", "exchange"}
    BY <1>2, <2>1 DEF FindPKCE, FindPKCEFails, GetProfile, GetProfileFails, Destroy,
       DestroyFails, CheckAge, TimedOut, ExchangeFails, CleanAndRedirect, Goto, Answer,
       TypeOK, Request
  <2>3. Carried(q)' = Carried(q)
    BY <2>1, <2>2 DEF Carried
  <2> QED BY <1>0, <1>1, <2>1, <2>3, QuietStep
<1>3. ASSUME NEW q \in Requests, Verify(q)
      PROVE  Refines
  <2>1. /\ request[q] \in Request /\ request[q] # None /\ request[q].step = "verify"
        /\ request'[q] = [request[q] EXCEPT !.step = "create"]
        /\ UNCHANGED <<characters, codes, spent, dropped>>
        /\ \A r \in Requests \ {q} : request'[r] = request[r]
    BY <1>3 DEF Verify, At, Goto, store, sso, TypeOK
  <2>2. request'[q] \in Request
    BY <2>1 DEF Request, Steps
  <2>3. Carried(q)' = Carried(q)
    BY <2>1, <2>2, ConstantsAssumption DEF Carried, Request
  <2> QED BY <1>0, <1>1, <2>1, <2>3, QuietStep
<1>4. ASSUME NEW q \in Requests, VerifyFails(q) \/ CreateCharacterFails(q)
      PROVE  Refines
  <2>1. /\ \A r \in Requests \ {q} : request'[r] = request[r]
        /\ request'[q] = None
        /\ UNCHANGED <<characters, codes, spent>>
        /\ dropped' = dropped \cup Carried(q)
    BY <1>4 DEF VerifyFails, CreateCharacterFails, Answer, store, sso, TypeOK
  <2>2. {q} \in SUBSET Requests /\ Carried(q)' = {}
    BY <2>1 DEF Carried
  <2>3. dropped' = dropped \cup UNION {Carried(r) : r \in {q}}
    BY <2>1
  <2> QED BY <1>1, <2>1, <2>2, <2>3, LoseStep
<1>5. ASSUME NEW q \in Requests, Exchange(q) \/ CreateCharacter(q)
      PROVE  Refines
  BY <1>5, ExchangeKeepsVault, CreateKeepsVault
<1>6. ASSUME NEW q \in Requests, NEW k \in codes, NEW h \in Hosts, Arrive(q, k, h)
      PROVE  Refines
  <2>1. /\ request[q] = None
        /\ request'[q] = [step |-> "find", code |-> k, host |-> h]
        /\ UNCHANGED <<characters, codes, spent, dropped>>
        /\ \A r \in Requests \ {q} : request'[r] = request[r]
    BY <1>6 DEF Arrive, store, sso, TypeOK
  <2>2. Carried(q)' = Carried(q)
    BY <2>1 DEF Carried
  <2> QED BY <1>0, <1>1, <2>1, <2>2, QuietStep
<1>7. ASSUME NEW h \in Hosts, Crash(h)
      PROVE  Refines
  <2> DEFINE Q == {r \in Requests : request[r] # None /\ request[r].host = h}
  <2>1. /\ \A q \in Q : Carried(q)' = {}
        /\ \A q \in Requests \ Q : Carried(q)' = Carried(q)
    BY <1>7 DEF Crash, Carried
  <2>2. /\ UNCHANGED <<characters, spent, codes>>
        /\ dropped' = dropped \cup UNION {Carried(q) : q \in Q}
    BY <1>7 DEF Crash, store, sso
  <2> QED BY <2>1, <2>2, LoseStep
<1>8. ASSUME NEW pr \in Profiles, DeleteProfile(pr)
      PROVE  Refines
  BY <1>8, DeleteKeepsVault
<1>9. ASSUME NEW st \in States, NEW c \in Characters, LogIn(st, c)
      PROVE  Refines
  <2>1. [state |-> st, who |-> c, n |-> issued + 1] \in Issuable
    BY <1>9, ConstantsAssumption DEF LogIn, Issuable, TypeOK
  <2>2. UNCHANGED <<characters, spent, dropped, request>> /\ codes' \subseteq Issuable
    BY <1>0, <1>9, <2>1 DEF LogIn, store
  <2> QED BY <2>2, QuietStep DEF Carried
<1>10. ASSUME \/ \E h \in Hosts, pr \in Profiles, st \in States : CreatePKCE(h, pr, st)
              \/ \E h \in Hosts : CleanPKCE(h)
              \/ Tick
              \/ UNCHANGED vars
       PROVE  Refines
  <2>1. UNCHANGED <<characters, spent, dropped, request, codes>>
    BY <1>10 DEF CreatePKCE, CleanPKCE, Tick, vars, store, sso
  <2> QED BY <1>0, <2>1, QuietStep DEF Carried
<1> QED BY <1>2, <1>3, <1>4, <1>5, <1>6, <1>7, <1>8, <1>9, <1>10 DEF Next, Step

(* The callback keeps every grant it exchanges as the vault promises: each *)
(* step of a request, and each fault, is one of the vault's or none.       *)
THEOREM VaultIsKept == Spec => KeepsVault
<1>1. Init => PlaceInv /\ LandsInv /\ Vault!Init
  <2>1. Init => PlaceInv /\ LandsInv
    BY DEF Init, PlaceInv, LandsInv, LandsInItsProfile, Carried
  <2>2. Init => Vault!Init
    BY DEF Init, Vault!Init, Carried
  <2> QED BY <2>1, <2>2
<1>2. TypeOK /\ LandsInv /\ [Next]_vars => LandsInv'
  BY LandsStep
<1>3. TypeOK /\ LandsInv /\ PlaceInv /\ [Next]_vars
        => PlaceInv' /\ [Vault!Next]_(Vault!vars)
  BY VaultStep DEF Refines
<1> QED BY <1>1, <1>2, <1>3, TypeCorrect, PTL DEF Spec, KeepsVault, Vault!Spec

(* The reference data of a row survives an upsert, whichever code it is of. *)
LEMMA UpsertKeepsData ==
  ASSUME characters \in Tables, NEW o \in Profiles, NEW k \in Code,
         characters' = Upsert(o, k), NEW pr \in Profiles, NEW c \in Characters,
         characters[pr][c] # None
  PROVE  characters'[pr][c].data = characters[pr][c].data
<1>1. characters[pr][c] \in Row /\ k.who \in Characters
  BY DEF Tables, Code
<1>2. CASE pr = o /\ c = k.who
  <2>1. characters'[pr][c] = [characters[pr][c] EXCEPT !.refresh = k]
    BY <1>1, <1>2 DEF Upsert, Tables
  <2> QED BY <1>1, <2>1 DEF Row
<1>3. CASE ~(pr = o /\ c = k.who)
  <2>1. characters'[pr][c] = characters[pr][c]
    BY <1>1, <1>3 DEF Upsert, Tables
  <2> QED BY <2>1
<1> QED BY <1>2, <1>3

(* Re-authorizing never touches the reference data of a row.               *)
THEOREM DataIsKept == Spec => DataIsWriteOnce
<1> DEFINE Same == \A pr \in Profiles, c \in Characters :
                     characters[pr][c] # None /\ characters'[pr][c] # None
                       => characters'[pr][c].data = characters[pr][c].data
<1>1. ASSUME TypeOK, NEW q \in Requests, CreateCharacter(q)
      PROVE  Same
  <2>1. /\ request[q].code \in Code /\ origin[request[q].code.state].profile \in Profiles
        /\ characters \in Tables
        /\ characters' = Upsert(origin[request[q].code.state].profile, request[q].code)
    BY <1>1 DEF CreateCharacter, At, Asked, TypeOK, Pkce, Code, Tables
  <2>2. PICK k \in Code, o \in Profiles : characters' = Upsert(o, k)
    BY <2>1
  <2> QED BY <2>1, <2>2, UpsertKeepsData
<1>2. ASSUME TypeOK, NEW pr \in Profiles, DeleteProfile(pr)
      PROVE  Same
  BY <1>2 DEF DeleteProfile, TypeOK
<1>3. ASSUME UNCHANGED characters
      PROVE  Same
  BY <1>3
<1>4. TypeOK /\ [Next]_vars => [Same]_vars
  <2> HIDE DEF Same
  <2> QED BY <1>1, <1>2, <1>3 DEF Next, Step, Arrive, FindPKCE, FindPKCEFails, GetProfile,
     GetProfileFails, Destroy, DestroyFails, CheckAge, TimedOut, Exchange, ExchangeFails,
     Verify, VerifyFails, CreateCharacterFails, CleanAndRedirect, CreatePKCE, CleanPKCE,
     LogIn, Tick, Crash, store
<1> QED BY <1>4, TypeCorrect, PTL DEF Spec, DataIsWriteOnce

-----------------------------------------------------------------------------
(* Requests that compete for a state do not waste it.                      *)

(* No statement fails, the SSO takes every code it issued, no host stops   *)
(* and no profile is deleted; answers may be lost and tokens rejected.     *)
CodesAreTaken == Env \subseteq {"lost", "verify"}

(* A request has deleted the row of st and will exchange its code. *)
Taking(q, st) ==
    /\ request[q] # None
    /\ request[q].step \in {"check", "exchange"}
    /\ Asked(q) = st

Taken(st) == (\E k \in spent : k.state = st) \/ (\E q \in Requests : Taking(q, st))

(* A row a host finds out of time has outlived the window, less what the   *)
(* clocks differ.                                                          *)
LEMMA OutOfTime ==
    ASSUME TypeOK, NEW h \in Hosts, NEW st \in States, origin[st] # None,
           Seen(h, st) > Window
    PROVE  ~(age[st] <= Window - Slack)
<1>1. origin[st].host \in Hosts /\ age[st] \in Nat
  BY DEF TypeOK, Pkce
<1>2. /\ Offset[h] - Offset[origin[st].host] <= Slack
      /\ Offset[h] \in Int /\ Offset[origin[st].host] \in Int
      /\ Slack \in Nat /\ Window \in Nat
  BY <1>1, ConstantsAssumption
<1> QED BY <1>1, <1>2 DEF Seen

(* Rows only grow older, and one that is made is in the table. *)
LEMMA RowsAge ==
    ASSUME TypeOK, [Next]_vars, NEW st \in States, origin'[st] # None, st \notin pkces'
    PROVE  origin[st] # None /\ age[st] <= age'[st]
<1>0. age \in [States -> Nat] /\ origin \in [States -> Pkce \cup {None}]
  BY DEF TypeOK
<1>1. ASSUME UNCHANGED <<origin, age>> PROVE origin[st] # None /\ age[st] <= age'[st]
  BY <1>0, <1>1
<1>2. ASSUME NEW q \in Requests, Step(q) PROVE UNCHANGED <<origin, age>>
  BY <1>2 DEF Step, FindPKCE, FindPKCEFails, GetProfile, GetProfileFails, Destroy,
     DestroyFails, CheckAge, TimedOut, Exchange, ExchangeFails, Verify, VerifyFails,
     CreateCharacter, CreateCharacterFails, CleanAndRedirect, store
<1>3. ASSUME NEW h \in Hosts, NEW pr \in Profiles, NEW x \in States, CreatePKCE(h, pr, x)
      PROVE  origin[st] # None /\ age[st] <= age'[st]
  BY <1>0, <1>3 DEF CreatePKCE
<1>4. ASSUME Tick PROVE origin[st] # None /\ age[st] <= age'[st]
  BY <1>0, <1>4 DEF Tick, Older, store
<1>5. ASSUME \/ \E q \in Requests, k \in codes, h \in Hosts : Arrive(q, k, h)
             \/ \E h \in Hosts : CleanPKCE(h) \/ Crash(h)
             \/ \E x \in States, c \in Characters : LogIn(x, c)
             \/ \E pr \in Profiles : DeleteProfile(pr)
             \/ UNCHANGED vars
      PROVE  UNCHANGED <<origin, age>>
  BY <1>5 DEF Arrive, CleanPKCE, Crash, LogIn, DeleteProfile, vars, store
<1> QED BY <1>1, <1>2, <1>3, <1>4, <1>5 DEF Next

(* A row that goes in time was taken by a request. *)
LEMMA RowTaken ==
    ASSUME CodesAreTaken, TypeOK, [Next]_vars, NEW st \in pkces, st \notin pkces',
           age[st] <= Window - Slack
    PROVE  \E q \in Requests : Taking(q, st)'
<1>0. st \in States /\ origin[st] # None
  BY DEF TypeOK
<1>1. ASSUME NEW h \in Hosts PROVE st \notin Stale(h)
  <2> SUFFICES ASSUME st \in Stale(h) PROVE FALSE
    OBVIOUS
  <2>1. Seen(h, st) > Window + Slack /\ Seen(h, st) \in Int
    BY <1>0, <1>1, SeenTogether DEF Stale
  <2>2. Seen(h, st) > Window
    BY <2>1, ConstantsAssumption
  <2> QED BY <1>0, <2>2, OutOfTime
<1>2. ASSUME NEW q \in Requests, CleanAndRedirect(q) PROVE FALSE
  <2>1. Host(q) \in Hosts
    BY <1>2 DEF CleanAndRedirect, At, TypeOK, Request, Host
  <2> QED BY <1>1, <1>2, <2>1 DEF CleanAndRedirect
<1>3. ASSUME NEW q \in Requests, Destroy(q) PROVE Taking(q, st)'
  <2>1. /\ st = Asked(q) /\ request[q] # None
        /\ Goto(q, "check")
    BY <1>3 DEF Destroy, CodesAreTaken, At
  <2>2. request[q] \in Request /\ request'[q] = [request[q] EXCEPT !.step = "check"]
    BY <2>1 DEF Goto, TypeOK
  <2>3. request'[q] \in Request /\ request'[q].step = "check" /\ request'[q].code = request[q].code
    BY <2>2 DEF Request, Steps
  <2> QED BY <2>1, <2>3, ConstantsAssumption DEF Taking, Asked
<1>4. ASSUME NEW q \in Requests, Step(q), ~CleanAndRedirect(q), ~Destroy(q) PROVE FALSE
  BY <1>4 DEF Step, FindPKCE, FindPKCEFails, GetProfile, GetProfileFails,
     DestroyFails, CheckAge, TimedOut, Exchange, ExchangeFails, Verify, VerifyFails,
     CreateCharacter, CreateCharacterFails, store
<1>5. ASSUME NEW h \in Hosts, CleanPKCE(h) PROVE FALSE
  BY <1>1, <1>5 DEF CleanPKCE
<1>6. ASSUME \/ \E q \in Requests, k \in codes, h \in Hosts : Arrive(q, k, h)
             \/ \E h \in Hosts, pr \in Profiles, x \in States : CreatePKCE(h, pr, x)
             \/ \E h \in Hosts : Crash(h)
             \/ \E x \in States, c \in Characters : LogIn(x, c)
             \/ \E pr \in Profiles : DeleteProfile(pr)
             \/ Tick
             \/ UNCHANGED vars
      PROVE  FALSE
  BY <1>6 DEF Arrive, CreatePKCE, Crash, LogIn, DeleteProfile, Tick, vars, store, CodesAreTaken
<1> QED BY <1>2, <1>3, <1>4, <1>5, <1>6 DEF Next

(* A request that has taken a row exchanges its code, unless it finds the  *)
(* row out of time.                                                        *)
LEMMA TakerGoesOn ==
    ASSUME CodesAreTaken, TypeOK, [Next]_vars, NEW st \in States, origin[st] # None,
           age[st] <= Window - Slack, NEW q \in Requests, Taking(q, st)
    PROVE  Taken(st)'
<1>0. /\ request[q] \in Request /\ request[q] # None /\ request[q].code.state = st
      /\ request[q].step \in {"check", "exchange"} /\ Host(q) \in Hosts
  BY DEF Taking, Asked, TypeOK, Request, Host
<1>1. ASSUME request'[q] = request[q] PROVE Taken(st)'
  BY <1>0, <1>1 DEF Taken, Taking, Asked
<1>2. ASSUME NEW r \in Requests, Step(r), r # q PROVE request'[q] = request[q]
  BY <1>2 DEF Step, FindPKCE, FindPKCEFails, GetProfile, GetProfileFails, Destroy,
     DestroyFails, CheckAge, TimedOut, Exchange, ExchangeFails, Verify, VerifyFails,
     CreateCharacter, CreateCharacterFails, CleanAndRedirect, Goto, Answer, TypeOK
<1>3. ASSUME Step(q) PROVE CheckAge(q) \/ TimedOut(q) \/ Exchange(q) \/ ExchangeFails(q)
  BY <1>0, <1>3 DEF Step, FindPKCE, FindPKCEFails, GetProfile, GetProfileFails, Destroy,
     DestroyFails, Verify, VerifyFails, CreateCharacter, CreateCharacterFails,
     CleanAndRedirect, At
<1>4. ASSUME CheckAge(q) PROVE Taken(st)'
  <2>1. request'[q] = [request[q] EXCEPT !.step = "exchange"]
    BY <1>4 DEF CheckAge, Goto, TypeOK
  <2>2. request'[q] \in Request /\ request'[q].step = "exchange" /\ request'[q].code = request[q].code
    BY <1>0, <2>1 DEF Request, Steps
  <2> QED BY <1>0, <2>2, ConstantsAssumption DEF Taken, Taking, Asked
<1>5. ASSUME TimedOut(q) PROVE FALSE
  BY <1>0, <1>5, OutOfTime DEF TimedOut, Asked
<1>6. ASSUME Exchange(q) \/ ExchangeFails(q) PROVE request[q].code \in spent'
  BY <1>6 DEF Exchange, ExchangeFails, CodesAreTaken, sso
<1>7. ASSUME NEW r \in Requests, NEW k \in codes, NEW h \in Hosts, Arrive(r, k, h)
      PROVE  request'[q] = request[q]
  BY <1>0, <1>7 DEF Arrive, TypeOK
<1>8. ASSUME \/ \E h \in Hosts : CleanPKCE(h) \/ Crash(h)
             \/ \E h \in Hosts, pr \in Profiles, x \in States : CreatePKCE(h, pr, x)
             \/ \E x \in States, c \in Characters : LogIn(x, c)
             \/ \E pr \in Profiles : DeleteProfile(pr)
             \/ Tick
             \/ UNCHANGED vars
      PROVE  request'[q] = request[q]
  BY <1>8 DEF CleanPKCE, Crash, CreatePKCE, LogIn, DeleteProfile, Tick, vars, CodesAreTaken
<1>9. request[q].code \in spent' => Taken(st)'
  BY <1>0 DEF Taken
<1> QED BY <1>1, <1>2, <1>3, <1>4, <1>5, <1>6, <1>7, <1>8, <1>9 DEF Next

LEMMA SpentGrows == ASSUME [Next]_vars PROVE spent \subseteq spent'
<1>1. ASSUME NEW q \in Requests, Step(q) PROVE spent \subseteq spent'
  BY <1>1 DEF Step, FindPKCE, FindPKCEFails, GetProfile, GetProfileFails, Destroy,
     DestroyFails, CheckAge, TimedOut, Exchange, ExchangeFails, Verify, VerifyFails,
     CreateCharacter, CreateCharacterFails, CleanAndRedirect, sso
<1> QED BY <1>1 DEF Next, Arrive, CreatePKCE, CleanPKCE, Crash, LogIn, DeleteProfile, Tick, vars, sso

(* However many requests on however many hosts race for one state, with    *)
(* clocks that differ by up to Slack, a row that goes within its window    *)
(* (less that Slack) has its code exchanged: the loser of a race never     *)
(* takes it from a winner that then gives up.                              *)
THEOREM StatesAreUsed == ASSUME CodesAreTaken PROVE Spec => []NoStateWasted
<1>1. Init => NoStateWasted
  BY DEF Init, NoStateWasted
<1>2. TypeOK /\ NoStateWasted /\ [Next]_vars => NoStateWasted'
  <2> SUFFICES ASSUME TypeOK, NoStateWasted, [Next]_vars, NEW st \in States,
                      origin'[st] # None, st \notin pkces', age'[st] <= Window - Slack
               PROVE  Taken(st)'
    BY DEF NoStateWasted, Taken, Taking, Asked
  <2>1. origin[st] # None /\ age[st] <= age'[st]
    BY RowsAge
  <2>2. age[st] <= Window - Slack
    <3>1. age[st] \in Int /\ age'[st] \in Int /\ Window \in Int /\ Slack \in Int
      BY TypeStep, ConstantsAssumption DEF TypeOK
    <3> QED BY <2>1, <3>1
  <2>3. CASE st \in pkces
    BY <2>2, <2>3, RowTaken DEF Taken
  <2>4. CASE st \notin pkces
    <3>1. Taken(st)
      BY <2>1, <2>2, <2>4 DEF NoStateWasted, Taken, Taking
    <3> QED BY <2>1, <2>2, <3>1, SpentGrows, TakerGoesOn DEF Taken
  <2> QED BY <2>3, <2>4
<1> QED BY <1>1, <1>2, TypeCorrect, PTL DEF Spec
=============================================================================
