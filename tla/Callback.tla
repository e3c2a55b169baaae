------------------------------ MODULE Callback ------------------------------
(***************************************************************************)
(* The authorization round trip: a PKCE row is created for a profile, the  *)
(* user authorizes at the SSO, and the browser comes back with a code and  *)
(* a state to the callback handler of any host (EVESSO.ServeHTTP, and the  *)
(* same steps in EVESSO.LocalhostAuth).  The handler reads the row, reads  *)
(* its profile, deletes the row, checks its age, exchanges the code,       *)
(* verifies the token, stores the character and sweeps old rows, each in a *)
(* statement or request of its own.                                        *)
(*                                                                         *)
(* Time is the age of each row, in units in which Window is the 5 minutes  *)
(* and Slack the 1 second of the code.  A host reads an age through its    *)
(* own clock; created_at was read from the clock of the host that made the *)
(* row.                                                                    *)
(***************************************************************************)
EXTENDS Integers

CONSTANTS
    Profiles,    \* profile ids, all of them stored at the start
    States,      \* generated values of evesso.pkces.state
    Characters,  \* (character_id, name, owner, scopes) of a verified token
    Hosts,       \* machines that share the store
    Offset,      \* Offset[h]: how far the clock of h is ahead
    Requests,    \* callback requests under way at one time
    Env,         \* the faults an instance includes
    Window,      \* validity of a row: 5 minutes
    Slack,       \* what CleanPKCE waits beyond that: 1 second
    MaxAge,      \* ages are not told apart from here on
    MaxCodes,    \* bound on the authorizations users complete
    None

EnvKinds == {"store",   \* a statement fails or is cancelled with its request
             "sso",     \* the SSO refuses a code it issued, or is not reached
             "lost",    \* the SSO's answer to an exchange never arrives
             "verify",  \* verify or newCharacterClaims rejects the token
             "crash",   \* a host stops
             "delete"}  \* the application deletes a profile

(* What an authorization code stands for, and the grant it is exchanged    *)
(* for: the request it answers, who logged in, and its place in the order  *)
(* of authorizations.                                                      *)
Code == [state : States, who : Characters, n : Nat]

(* The immutable columns of a row of evesso.pkces. *)
Pkce == [profile : Profiles, host : Hosts]

(* A row of evesso.characters: the grant of each token column, and the     *)
(* state whose reference data it carries.                                  *)
Row == [access : Code, refresh : Code, data : States]

Steps == {"find", "profile", "destroy", "check",
          "exchange", "verify", "create", "clean"}

(* The steps after the row has been deleted. *)
SpentSteps == {"check", "exchange", "verify", "create", "clean"}

Request == [step : Steps, code : Code, host : Hosts]

ASSUME ConstantsAssumption ==
    /\ Offset \in [Hosts -> Int]
    /\ \A g, h \in Hosts : Offset[g] - Offset[h] <= Slack
    /\ Env \subseteq EnvKinds
    /\ Window \in Nat \ {0}
    /\ Slack \in Nat
    /\ MaxAge \in Nat
    /\ MaxAge > Window + 2 * Slack
    /\ MaxCodes \in Nat
    /\ None \notin Code
    /\ None \notin Pkce
    /\ None \notin Row
    /\ None \notin Request

VARIABLES
    profiles,   \* the rows of evesso.profiles
    pkces,      \* the rows of evesso.pkces, by state
    origin,     \* origin[st]: the columns of the row made with st, or None
    age,        \* age[st]: time since that row was made
    characters, \* characters[pr][c]: the row of c in pr, or None
    codes,      \* codes the SSO has sent back through browsers
    issued,     \* how many
    spent,      \* codes the SSO has exchanged
    request,    \* request[q]: a callback request, or None
    dropped     \* history: grants a fault has lost or a newer one replaced

store == <<profiles, pkces, origin, characters>>
sso   == <<codes, issued, spent>>
vars  == <<store, age, sso, request, dropped>>

Init ==
    /\ profiles = Profiles
    /\ pkces = {}
    /\ origin = [st \in States |-> None]
    /\ age = [st \in States |-> 0]
    /\ characters = [pr \in Profiles |-> [c \in Characters |-> None]]
    /\ codes = {}
    /\ issued = 0
    /\ spent = {}
    /\ request = [q \in Requests |-> None]
    /\ dropped = {}

-----------------------------------------------------------------------------
(* Rows and clocks.                                                        *)

(* time.Now() on h, less created_at. *)
Seen(h, st) == age[st] + Offset[h] - Offset[origin[st].host]

(* created_at > now - 5min, in FindPKCE. *)
Findable(h, st) == st \in pkces /\ Seen(h, st) < Window

StaleWithoutSlack(h) == {st \in pkces : Seen(h, st) >= Window}

StaleBackwards(h) == {st \in pkces : Seen(h, st) < Window + Slack}

(* created_at < now - (5min + 1s), in CleanPKCE. *)
Stale(h) == {st \in pkces : Seen(h, st) > Window + Slack}

CreateForAnyProfile(pr, k) ==
    LET home == IF \E p \in Profiles : characters[p][k.who] # None
                THEN CHOOSE p \in Profiles : characters[p][k.who] # None
                ELSE pr
        row == characters[home][k.who]
    IN  [characters EXCEPT ![home][k.who] =
            IF row = None THEN [access |-> k, refresh |-> k, data |-> k.state]
            ELSE [row EXCEPT !.refresh = k]]

CreateOverwrites(pr, k) ==
    [characters EXCEPT ![pr][k.who] =
        [access |-> k, refresh |-> k, data |-> k.state]]

CreateUnlessPresent(pr, k) ==
    [characters EXCEPT ![pr][k.who] =
        IF @ = None THEN [access |-> k, refresh |-> k, data |-> k.state] ELSE @]

(* The characters after the upsert of Profile.CreateCharacter. *)
Upsert(pr, k) ==
    [characters EXCEPT ![pr][k.who] =
        IF @ = None THEN [access |-> k, refresh |-> k, data |-> k.state]
        ELSE [@ EXCEPT !.refresh = k]]

(* The grants stored: of a profile, and of all. *)
StoredIn(pr) ==
    {characters[pr][c].refresh : c \in {d \in Characters : characters[pr][d] # None}}

Stored == UNION {StoredIn(pr) : pr \in Profiles}

-----------------------------------------------------------------------------
(* A request and the handler that serves it.                               *)

At(q, step) == request[q] # None /\ request[q].step = step

Asked(q) == request[q].code.state

Host(q) == request[q].host

Goto(q, step) == request' = [request EXCEPT ![q].step = step]

Answer(q) == request' = [request EXCEPT ![q] = None]

(* The grant q has got and not yet stored. *)
Carried(q) ==
    IF request[q] # None /\ request[q].step \in {"verify", "create"}
    THEN {request[q].code} ELSE {}

(* The browser delivers a code, to any host and possibly again. *)
Arrive(q, k, h) ==
    /\ request[q] = None
    /\ request' = [request EXCEPT ![q] = [step |-> "find", code |-> k, host |-> h]]
    /\ UNCHANGED <<store, age, sso, dropped>>

FindPKCE(q) ==
    /\ At(q, "find")
    /\ Findable(Host(q), Asked(q))
    /\ Goto(q, "profile")
    /\ UNCHANGED <<store, age, sso, dropped>>

FindPKCERetries(q) ==
    /\ At(q, "find")
    /\ "store" \in Env \/ ~Findable(Host(q), Asked(q))
    /\ Goto(q, "find")
    /\ UNCHANGED <<store, age, sso, dropped>>

FindPKCEFails(q) ==
    /\ At(q, "find")
    /\ "store" \in Env \/ ~Findable(Host(q), Asked(q))
    /\ Answer(q)
    /\ UNCHANGED <<store, age, sso, dropped>>

GetProfile(q) ==
    /\ At(q, "profile")
    /\ origin[Asked(q)].profile \in profiles
    /\ Goto(q, "destroy")
    /\ UNCHANGED <<store, age, sso, dropped>>

GetProfileFails(q) ==
    /\ At(q, "profile")
    /\ "store" \in Env \/ origin[Asked(q)].profile \notin profiles
    /\ Answer(q)
    /\ UNCHANGED <<store, age, sso, dropped>>

DestroyIgnoresErrors(q) ==
    /\ At(q, "destroy")
    /\ \/ pkces' = pkces \ {Asked(q)}
       \/ "store" \in Env /\ UNCHANGED pkces
    /\ Goto(q, "check")
    /\ UNCHANGED <<profiles, origin, characters, age, sso, dropped>>

(* Deleting a row that another request has deleted is no error.  A delete  *)
(* may commit and still be reported as failed.                             *)
Destroy(q) ==
    /\ At(q, "destroy")
    /\ pkces' = pkces \ {Asked(q)}
    /\ \/ Goto(q, "check")
       \/ "store" \in Env /\ Answer(q)
    /\ UNCHANGED <<profiles, origin, characters, age, sso, dropped>>

(* The delete is a repeatable-read transaction: one that overlaps another  *)
(* delete of the row (a request's, a sweep's, its profile's) is aborted.   *)
(* Any delete since the row was found is taken to overlap.                 *)
DestroyFails(q) ==
    /\ At(q, "destroy")
    /\ "store" \in Env \/ Asked(q) \notin pkces
    /\ Answer(q)
    /\ UNCHANGED <<store, age, sso, dropped>>

CheckAgeSkipped(q) ==
    /\ At(q, "check")
    /\ Goto(q, "exchange")
    /\ UNCHANGED <<store, age, sso, dropped>>

(* time.Since(pkce.Time()) > 5*time.Minute is not the case. *)
CheckAge(q) ==
    /\ At(q, "check")
    /\ Seen(Host(q), Asked(q)) <= Window
    /\ Goto(q, "exchange")
    /\ UNCHANGED <<store, age, sso, dropped>>

TimedOutEarly(q) ==
    /\ At(q, "check")
    /\ Seen(Host(q), Asked(q)) > 0
    /\ Answer(q)
    /\ UNCHANGED <<store, age, sso, dropped>>

TimedOut(q) ==
    /\ At(q, "check")
    /\ Seen(Host(q), Asked(q)) > Window
    /\ Answer(q)
    /\ UNCHANGED <<store, age, sso, dropped>>

(* The SSO exchanges a code once. *)
Exchange(q) ==
    /\ At(q, "exchange")
    /\ request[q].code \notin spent
    /\ spent' = spent \cup {request[q].code}
    /\ \/ Goto(q, "verify") /\ UNCHANGED dropped
       \/ "lost" \in Env /\ Answer(q) /\ dropped' = dropped \cup {request[q].code}
    /\ UNCHANGED <<store, age, codes, issued>>

ExchangeFails(q) ==
    /\ At(q, "exchange")
    /\ "sso" \in Env \/ request[q].code \in spent
    /\ Answer(q)
    /\ UNCHANGED <<store, age, sso, dropped>>

Verify(q) ==
    /\ At(q, "verify")
    /\ Goto(q, "create")
    /\ UNCHANGED <<store, age, sso, dropped>>

VerifyFails(q) ==
    /\ At(q, "verify")
    /\ "verify" \in Env
    /\ dropped' = dropped \cup Carried(q)
    /\ Answer(q)
    /\ UNCHANGED <<store, age, sso>>

CreateCharacterRetries(q) ==
    /\ At(q, "create")
    /\ origin[Asked(q)].profile \in profiles
    /\ characters' = Upsert(origin[Asked(q)].profile, request[q].code)
    /\ dropped' = dropped \cup (Stored \ Stored')
    /\ \/ Goto(q, "clean")
       \/ "store" \in Env /\ Goto(q, "create")
    /\ UNCHANGED <<profiles, pkces, origin, age, sso>>

(* The foreign key of a character needs its profile. *)
CreateCharacter(q) ==
    /\ At(q, "create")
    /\ origin[Asked(q)].profile \in profiles
    /\ characters' = Upsert(origin[Asked(q)].profile, request[q].code)
    /\ dropped' = dropped \cup (Stored \ Stored')
    /\ \/ Goto(q, "clean")
       \/ "store" \in Env /\ Answer(q)
    /\ UNCHANGED <<profiles, pkces, origin, age, sso>>

CreateCharacterFails(q) ==
    /\ At(q, "create")
    /\ "store" \in Env \/ origin[Asked(q)].profile \notin profiles
    /\ dropped' = dropped \cup Carried(q)
    /\ Answer(q)
    /\ UNCHANGED <<store, age, sso>>

(* The sweep's error is ignored; the browser is redirected either way. *)
CleanAndRedirect(q) ==
    /\ At(q, "clean")
    /\ \/ pkces' = pkces \ Stale(Host(q))
       \/ "store" \in Env /\ UNCHANGED pkces
    /\ Answer(q)
    /\ UNCHANGED <<profiles, origin, characters, age, sso, dropped>>

-----------------------------------------------------------------------------
(* The application, users, time and crashes.                               *)

CreatePKCEUnstamped(h, pr, st) ==
    /\ pr \in profiles
    /\ origin[st] = None
    /\ origin' = [origin EXCEPT ![st] = [profile |-> None, host |-> h]]
    /\ pkces' = pkces \cup {st}
    /\ UNCHANGED <<profiles, characters, age, sso, request, dropped>>

(* Profile.CreatePKCE on h; AuthURL and AuthUrl make the link from its row. *)
CreatePKCE(h, pr, st) ==
    /\ pr \in profiles
    /\ origin[st] = None
    /\ origin' = [origin EXCEPT ![st] = [profile |-> pr, host |-> h]]
    /\ pkces' = pkces \cup {st}
    /\ UNCHANGED <<profiles, characters, age, sso, request, dropped>>

(* CleanPKCE called by the application on h. *)
CleanPKCE(h) ==
    /\ pkces' = pkces \ Stale(h)
    /\ UNCHANGED <<profiles, origin, characters, age, sso, request, dropped>>

(* A user follows the link for st and logs in as c: once, again, or late. *)
LogIn(st, c) ==
    /\ origin[st] # None
    /\ issued < MaxCodes
    /\ issued' = issued + 1
    /\ codes' = codes \cup {[state |-> st, who |-> c, n |-> issued + 1]}
    /\ UNCHANGED <<store, age, spent, request, dropped>>

(* The rows of a profile go with it. *)
DeleteProfile(pr) ==
    /\ "delete" \in Env
    /\ pr \in profiles
    /\ profiles' = profiles \ {pr}
    /\ pkces' = {st \in pkces : origin[st].profile # pr}
    /\ characters' = [characters EXCEPT ![pr] = [c \in Characters |-> None]]
    /\ dropped' = dropped \cup (Stored \ Stored')
    /\ UNCHANGED <<origin, age, sso, request>>

Older(st) == IF origin[st] # None /\ age[st] < MaxAge THEN age[st] + 1 ELSE age[st]

Tick ==
    /\ age' = [st \in States |-> Older(st)]
    /\ UNCHANGED <<store, sso, request, dropped>>

(* The requests h was serving are gone. *)
Crash(h) ==
    /\ "crash" \in Env
    /\ request' = [q \in Requests |->
                     IF request[q] # None /\ request[q].host = h THEN None ELSE request[q]]
    /\ dropped' = dropped \cup
         UNION {Carried(q) : q \in {r \in Requests : request[r] # None /\ request[r].host = h}}
    /\ UNCHANGED <<store, age, sso>>

-----------------------------------------------------------------------------

(* What a handler can do next. *)
Step(q) ==
    \/ FindPKCE(q) \/ FindPKCEFails(q)
    \/ GetProfile(q) \/ GetProfileFails(q)
    \/ Destroy(q) \/ DestroyFails(q)
    \/ CheckAge(q) \/ TimedOut(q)
    \/ Exchange(q) \/ ExchangeFails(q)
    \/ Verify(q) \/ VerifyFails(q)
    \/ CreateCharacter(q) \/ CreateCharacterFails(q)
    \/ CleanAndRedirect(q)

Next ==
    \/ \E q \in Requests :
         \/ \E k \in codes, h \in Hosts : Arrive(q, k, h)
         \/ Step(q)
    \/ \E h \in Hosts :
         \/ \E pr \in Profiles, st \in States : CreatePKCE(h, pr, st)
         \/ CleanPKCE(h)
         \/ Crash(h)
    \/ \E st \in States, c \in Characters : LogIn(st, c)
    \/ \E pr \in Profiles : DeleteProfile(pr)
    \/ Tick

Spec == Init /\ [][Next]_vars

(* What a handler does by itself.  The exchange is left out: it runs under *)
(* r.ctx with a client that has no timeout (autoconfig.go:189-190), so     *)
(* only the SSO can end it.                                                *)
OwnStep(q) == Step(q) /\ ~At(q, "exchange")

(* Statements come back (an error included), tokens are verified with the  *)
(* keys at hand, time passes, and the application calls CleanPKCE          *)
(* periodically (README.md:416).                                           *)
FairSpec ==
    /\ Spec
    /\ \A q \in Requests : WF_vars(OwnStep(q))
    /\ \A h \in Hosts : WF_vars(CleanPKCE(h))
    /\ WF_vars(Tick)

-----------------------------------------------------------------------------
(* Properties.                                                             *)

(* The variables hold values of their types; a code answers a state that   *)
(* has been made, a request carries a code the SSO has issued, and a row   *)
(* has the columns it was made with.                                       *)
TypeOK ==
    /\ profiles \subseteq Profiles
    /\ pkces \subseteq {st \in States : origin[st] # None}
    /\ origin \in [States -> Pkce \cup {None}]
    /\ age \in [States -> 0..MaxAge]
    /\ characters \in [Profiles -> [Characters -> Row \cup {None}]]
    /\ codes \subseteq {k \in Code : origin[k.state] # None}
    /\ issued \in 0..MaxCodes
    /\ spent \subseteq codes
    /\ request \in [Requests -> Request \cup {None}]
    /\ \A q \in Requests : request[q] # None => request[q].code \in codes
    /\ dropped \subseteq Code

(* An authorization lands in the profile its row was made for, whoever     *)
(* logs in, and a character of another profile is left alone (README.md:   *)
(* 243); nothing outlives its profile.                                     *)
LandsInItsProfile ==
    \A pr \in Profiles, c \in Characters :
        characters[pr][c] # None =>
            /\ pr \in profiles
            /\ origin[characters[pr][c].refresh.state].profile = pr
            /\ origin[characters[pr][c].data].profile = pr

(* A state is deleted before its code is exchanged: from then on no        *)
(* request can find it, whatever fails afterwards (autoconfig.go:177-181). *)
StateIsSpentFirst ==
    \A q \in Requests :
        request[q] # None /\ request[q].step \in SpentSteps => Asked(q) \notin pkces

(* No grant silently disappears: each code the SSO has exchanged is        *)
(* stored, or carried by a request that is about to store it, or was lost  *)
(* to a recorded fault or replaced by a later one.                         *)
NoGrantLost ==
    spent \subseteq dropped \cup Stored \cup UNION {Carried(q) : q \in Requests}

(* Requests that compete for one state do not waste it: a row that has     *)
(* gone in time has had a code exchanged, or a request that took it is     *)
(* about to.  (Where nothing fails and no profile is deleted.)             *)
NoStateWasted ==
    \A st \in States :
        origin[st] # None /\ st \notin pkces /\ age[st] <= Window - Slack =>
            \/ \E k \in spent : k.state = st
            \/ \E q \in Requests : /\ request[q] # None
                                   /\ request[q].step \in {"check", "exchange"}
                                   /\ Asked(q) = st

(* No exchange begins for a row older than its 5 minutes by more than the  *)
(* clocks differ, however long the statements before it took.              *)
ExchangeIsFresh ==
    [][\A q \in Requests :
         (~At(q, "exchange") /\ At(q, "exchange")') => age[Asked(q)] <= Window + Slack]_vars

(* A sweep, on any host, takes no row that a callback on any host could    *)
(* still find: the second by which CleanPKCE outwaits FindPKCE covers the  *)
(* clocks of the hosts.                                                    *)
SweepSparesFindable ==
    [][(\E h \in Hosts : CleanPKCE(h)) \/ (\E q \in Requests : CleanAndRedirect(q))
         => \A st \in pkces \ pkces', h \in Hosts : ~Findable(h, st)]_vars

(* Re-authorizing a character leaves the reference data of its row alone   *)
(* (README.md:383-388): data changes only by way of no row at all.         *)
DataIsWriteOnce ==
    [][\A pr \in Profiles, c \in Characters :
         characters[pr][c] # None /\ characters'[pr][c] # None
           => characters'[pr][c].data = characters[pr][c].data]_vars

(* A callback request is answered, on every error path, or waits for the   *)
(* SSO's answer to its exchange: that is the only place at which it may    *)
(* wait forever, and once past it the request is answered.                 *)
RequestsAnswered ==
    \A q \in Requests :
        /\ request[q] # None ~> (request[q] = None \/ At(q, "exchange"))
        /\ (At(q, "verify") \/ At(q, "create") \/ At(q, "clean")) ~> request[q] = None

(* Every PKCE row goes, whether or not its user ever comes back.           *)
RowsGo == \A st \in States : st \in pkces ~> st \notin pkces

-----------------------------------------------------------------------------
(* The abstract specification.                                             *)

Issuable == [state : States, who : Characters, n : 1..MaxCodes]

Vault == INSTANCE TokenVault WITH
    Keys    <- Profiles \X Characters,
    Tokens  <- Issuable,
    Grant   <- [k \in Issuable |-> k],
    Order   <- [k \in Issuable |-> k.n],
    row     <- [j \in Profiles \X Characters |->
                  IF characters[j[1]][j[2]] = None THEN None
                  ELSE characters[j[1]][j[2]].refresh],
    live    <- spent,
    pending <- UNION {Carried(q) : q \in Requests},
    lost    <- dropped

(* The callback, whatever fails in it or happens beside it, brings the     *)
(* grant it exchanges into a row as the vault promises.                    *)
KeepsVault == Vault!Spec
=============================================================================
