# evesso in TLA+

A verification project for `evesso`, a Go library that authorizes EVE Online
characters through the SSO (OAuth2 with PKCE), keeps their tokens in PostgreSQL and
refreshes them. It holds TLA+ modules translated from the source, TLC instances that
check them, and proofs that TLAPS checks. Paths below are those of the repository.

## 1. The system

| Component | Source | State it keeps | Operations |
|---|---|---|---|
| Token source | `token.go` | cached token pair, character handle, a lock | `Token`, `Valid`, `RequestEditor`, `Save`, `AuthURL` |
| Authorization callback | `autoconfig.go:159-218` | nothing between requests | `ServeHTTP` |
| Character rows | `Character.go`, `Profile.go`, `PGStore.go` | `evesso.characters` | upsert, three updates, read tokens, look-ups, delete |
| Profiles and PKCE rows | `Profile.go`, `PKCE.go`, `PGStore.go` | `evesso.profiles`, `evesso.pkces` | create, find, rename, delete, sweep |
| Statements | `PGStore.go:54-114` | connection pool | `Query`, `Connection`, `Transaction` |
| Advisory locks | `PGStore.go:116-192` | one pinned connection, a mutex | `GLock`, `GUnlock` |
| Local sign-in server | `autoconfig.go:219-343` | a server, two channels, a 5 minute context | `LocalhostAuth` |
| Start-up and keys | `autoconfig.go:45-94`, `117-123` | endpoints, JWKS cache | `AutoConfig`, `verify` |
| Scope matching | `DataStore.go:105-159` | none | `MatchScopes` |
| SSH dialer | `internal/utils/sshproxy.go` | per dial: a goroutine, a channel | `DialTimeout`, `DialContext` |
| `tokengen` | `cmd/tokengen/main.go` | none of its own | find or create the profile `default`, then sign in |
| The rest | `config.go`, `runner.go`, `scopes_gen.go`, `internal/gen`, `errors.go` | none | I/O, generated code |

How they interact. The application asks for an authorization URL: `CreatePKCE` makes a
row in `evesso.pkces` with a random state and the profile it is for. The user logs in at
the SSO, whose redirect brings a code and the state to the callback, on any host that
shares the database. The callback finds the row, reads its profile, deletes the row,
checks its age, exchanges the code, verifies the access token against the SSO's keys and
upserts the character. From then on any number of token sources, in any number of
processes, load the token pair from the row, refresh it at the SSO when the access token
has expired, and write what changed back to the row. Sources share nothing but the row:
each has a lock of its own.

What is hard:

- **A refresh is not atomic.** The SSO may retire the refresh token it was given as it
  answers. From then until `UpdateRefreshToken` commits, the only good token is in one
  process's memory; between that and the end of the call the row is ahead of the cache.
- **Sources race.** Two sources of one character read, refresh and write with no common
  lock; so do a refresh and a re-authorization.
- **Callbacks race and are repeated.** A redirect can be delivered twice, to two hosts;
  deleting a row that has gone is no error.
- **Statements are separate.** Every statement is a transaction of its own, so the
  profile, the row or the character can go between two steps of a handler, and any of
  them can commit without its acknowledgement.
- **Clocks.** Rows are stamped by one host and judged by others.
- **Everything is under a lock**, so an error path that kept it would stop the process.
- **Values are shared.** Goroutines rename through one `Profile`; goroutines of one store
  share the database session its advisory locks belong to, and its connection pool.

What makes each part correct:

- Token source: only verified access tokens are stored or cached; a rotated refresh
  token is stored before anything else can return; a row never goes back within a grant;
  a row and the tokens written to it are one character's; a character is marked inactive
  only for a token that was revoked, or that a refresh cut short has left behind; calls return.
- Callback: an authorization lands in the profile it was made for; a state is spent
  before its code; an exchanged grant is stored or accounted for; a sweep takes nothing
  that could still be used; every request is answered unless the SSO never ends its exchange;
  every row goes.
- Profiles: a name has one row, whoever creates it; a `Profile` at rest has a name that is
  its row's own; `tokengen` gets its profile and leaves no row behind.
- Local sign-in server: it returns, with nil only when nothing is at work and something
  was handled or the time is over, and it leaves its port free.
- Advisory locks: what the server has granted is what callers hold; two stores never both
  hold a lock; nobody waits for ever; no connection is leaked.
- Scope matching: both comparisons are equality of bags.
- Over all of it: a refresh token that the SSO honours is on its way to a row, in a row, or
  given up knowingly. That is module `TokenVault`, which two of the others implement.
  What locks are for is module `LockService`, which a third does.

The hazards, each at its line and with the properties that cover it, are in
`PROJECT.json`.

## 2. Modules

| Module | What it is |
|---|---|
| `TokenVault` | abstract: what the library owes its user about refresh tokens |
| `TokenSource` | token sources, the rows they share, the SSO's token endpoint |
| `MCTokenSource` | its TLC instances |
| `TokenSourceProofs` | type correctness, verified tokens, the lock of a source, own tokens |
| `TokenGrantProofs` | the refresh-token invariant and what follows from it; why a row is inactive |
| `TokenVaultProofs` | `TokenSource` implements `TokenVault` |
| `Callback` | PKCE rows, callback requests on several hosts, clocks |
| `MCCallback` | its TLC instances |
| `CallbackProofs` | its safety properties; `Callback` implements `TokenVault` |
| `LocalhostAuth` | the local sign-in server: call, server goroutine, handlers, Shutdown |
| `LocalhostAuthProofs` | its safety properties |
| `LockService` | abstract: processes that take turns at working under an id |
| `AdvisoryLock` | `GLock`, `GUnlock`, the sessions behind them, the connection pool |
| `MCAdvisoryLock` | its TLC instance |
| `AdvisoryLockProofs` | its safety properties; `AdvisoryLock` implements `LockService` |
| `ProfileStore` | profile rows, shared `Profile` values, `tokengen` |
| `MCProfileStore` | its TLC instance, and `MatchScopes` over short and long lists |
| `ProfileStoreProofs` | its safety properties |
| `MatchScopes` | the two comparisons of `DataStore.go:105-159` as folds |

### TokenVault

The abstract specification has four variables: `row`, the refresh token in each row;
`live`, the tokens the SSO honours; `pending`, the tokens somebody has received and not yet
stored; and `lost`, those that were given up. Its steps are single ones: `Issue` (the SSO
gives out a token, retires the one of that grant it honoured, and the token becomes
pending, lost on the way, or stored at once), `Save`, `Lose`, `Erase`, `Revoke`. Two
conditions carry the weight. A token is put only over an older one of its grant or over
another grant's, which is then recorded as lost. And the SSO is made to issue only while no
token of the same grant is pending, so that nobody retires a token another is about to store.

`TokenSource!KeepsVault` and `Callback!KeepsVault` say that each implements it:

| Vault | `TokenSource` | `Callback` |
|---|---|---|
| keys | characters | profile and character |
| `row` | the refresh column of `db` | the refresh column of `characters` |
| `live` | `live` | `spent`: codes the SSO has exchanged |
| `pending` | pairs of calls between the SSO's answer and the update or upsert | codes of requests between exchange and upsert |
| `lost` | `dropped` | `dropped` |
| order within a grant | order of issue | each code is a grant of its own |
| `Issue` | `RefreshRotated`, `RefreshLost`, `CallSave`, `Authorize` | `Exchange` |
| `Save` | `PersistRefresh`, `Create` | `CreateCharacter` |
| `Lose` | failed writes and verifications of `Save`, panics, crashes | `VerifyFails`, `CreateCharacterFails`, `Crash` |
| `Erase` | `DeleteCharacter` | `DeleteProfile` |

Everything else is a stutter: many steps of many calls are one step of the vault.

### TokenSource

A token is `[who, grant, n]`: whose it is, which authorization it descends from, and its
place in the order of issue. That is all the properties tell apart; the strings and the
JWT are left out. `db[c]` is the row with identity key `c`, which stands for
`(profile, character_id, name, owner, scopes)`; its `id` is the generated primary key, so
that a row deleted and created again is not the one an old handle names. `token[s]`,
`character[s]` and `lock[s]` are the fields of the source `s`; `call[p]` is where the
goroutine `p` stands in `Token` or `Save` and the pair it got.

| Action | Code |
|---|---|
| `CallToken`, `Lock`, `FirstStep` | `token.go:117-120`; `Valid` and `RequestEditor` are calls of `Token` |
| `Find`, `FindFails` | `GetCharacter`, `Profile.FindCharacter`, `pgxscan.Get` wanting exactly one row |
| `Load`, `LoadFails` | `Character.Token` |
| `UseCached` | oauth2 hands back an unexpired token |
| `RefreshKept`, `RefreshRotated`, `RefreshLost`, `RefreshUnreachable`, `RefreshRefused` | the answers of the SSO as oauth2 presents them |
| `Deactivate` | `token.go:135-144` |
| `PersistRefresh` | `token.go:147-153` |
| `Validate`, `ValidateFails` | `token.go:154-159` |
| `PersistAccess` | `token.go:160-164` |
| `WriteAborted` | a transaction fails, or another writer of the row has overtaken it |
| `Panic` | an update through the nil `o.character` that `Save` leaves |
| `CallSave`, `SaveValidate`, `Create`, `SaveFails` | `Save` |
| `Authorize` | a completed authorization, whose own steps are module `Callback` |
| `NewTokenSource`, `CharacterSource` | the two constructors |

`Env` says which faults an instance has: failing statements (with or without effect),
failing verification, an SSO that answers a live token with an error status, lost answers,
crashes, revocations and deletions.

Every update is a repeatable-read transaction (`PGStore.go:105-114`): it is refused when
anybody else has committed to its row since it began. `overtaken` holds the calls to which
that has happened, whoever the other writer is: another call's update, the upsert of an
authorization or of `Save` (`Profile.go:139`), or a deletion. `WriteAborted` is then possible
with no fault in `Env`, and always possible with `"store"`.

`verified`, `revoked`, `dropped` and `missed` are history; the last three hold refresh
tokens. `revoked` are those that died with a revoked grant. `missed` are those that were
rotated by a call which did not live to replace its source's cache. `dropped` records each
refresh token that a named fault loses (a failed or unaddressed write, a lost answer, a
crash, a panic, a deleted row) or that another authorization replaces: `NoSilentLoss` says
that no live token goes missing in any other way. Both records are made by the actions that stand for the
faults, so the properties that mention them say that there is no other way to lose a token or
to leave one behind, and not that these ways are closed.

### Callback

A PKCE row is its `state`; `origin[st]` keeps its profile and the host that stamped it,
`age[st]` the time since. A host reads an age through `Offset`, how far its clock is
ahead. `request[q]` is a callback being served: `step` is the statement it is about to
run, in the order of `ServeHTTP`: find, profile, destroy, check, exchange, verify, create,
clean. Each has an action for success and one for failure; `Destroy` and `CreateCharacter`
may also commit and be reported as failed. A code is `[state, who, n]`; a link can be
followed more than once, and a code can be delivered more than once and to any host. The
handler inside `LocalhostAuth` (`autoconfig.go:233-295`) takes the same steps.

`Stale` and `Findable` are the `where` clauses of `CleanPKCE` and `FindPKCE`; `Upsert` is
the statement of `CreateCharacter`, with its conflict clause; `DeleteProfile` cascades.

### LocalhostAuth

`main` is the call (opening, waiting in its `select`, in `Shutdown` before and after a
first look at the connections, returned), `server` the goroutine that listens, `errs` and
`stop` the contents of the two channels, `due` whether the context's 5 minutes are over,
`request[q]` a connection and its handler: connected, working, in its deferred send,
answered, or closed or refused.

| Action | Code |
|---|---|
| `Open`, `OpenFails` | `autoconfig.go:220-333` |
| `ServeFailed`, `Stopped`, `TimedOut` | the three cases of the `select`, any ready one of which may be taken |
| `Poll` in `Quiesced` and `StillBusy`, `GiveUp` | `srv.Shutdown(ctx)`: waits for `Serve`, looks for idle connections before it looks at its context |
| `Listen`, `ListenFails`, `ServerClosed` | the server goroutine, `autoconfig.go:309-330` |
| `Handle`, `Finish`, `Send` | the handler, `autoconfig.go:233-295`, its send deferred to the end |

`Finish` stands for all that a handler does (the steps of `Callback`), and may never come.

### AdvisoryLock

`mutex[s]` is the `sync.Mutex` of the store `s`; `session[s]` its `x.lock`: nil, a live
connection, or one that is closed but still there, since nothing ever sets the field back.
`taken[s]` counts the connections out of its pool, the pinned one among them. `granted[s][i]`
is the server's count for the advisory lock `i` in the session of `s`: a session is granted a
lock as often as it asks, blocks only on other sessions, and loses all when it ends.
`believes[p]` are the keys that caller `p` has locked and not begun to unlock.

| Action | Code |
|---|---|
| `CallGLock`, `CallGUnlock`, `Lock` | `PGStore.go:116-121`, `158-162` |
| `Acquire`, `AcquireFails`, `AcquireLate` | `PGStore.go:121-131`: the wait for a connection has no deadline, but the minute has begun |
| `Panic` | a nil or dead connection, or a key of no known type |
| `GrantLock`, `ReleaseLock` | `pg_advisory_lock`, `pg_advisory_unlock`, with the `Ping` before them |
| `LockRefused` | the server's deadlock check picks this session |
| `TimesOut`, `Break`, `EndSession` | the context of a minute ends and pgx closes the connection; the connection breaks; the server notices |
| `CallQuery`, `StartQuery`, `FinishQuery` | `Connection` and `Transaction` |

What the code does, and the properties say as it is: `GLock` returns silently without a lock
when no connection can be had (`PGStore.go:123-125`), so `GrantsAreHeld` is exact only for a
store where that never happened; goroutines of one store share a session and are not kept
apart at all, so `Exclusion` is about two stores; after the session is lost every `GLock`
panics until the process ends.

`KeepsService` says the same as a refinement. `LockService` has two variables: `held`, the
ids each process works under, and `void`, the processes whose locks mean nothing any more.
Its steps are `Acquire` (only while no other process holds the id), `Release` and `Forfeit`.
A store is void once it has lost its session or returned from a `GLock` without its lock
(`Sound`); until then it holds the ids its callers believe they have (`Working`). `Acquire`
is `GrantLock`, `Release` the beginning of a `GUnlock`, `Forfeit` whatever makes a store
unsound: waiting, refusals, statements, panics and ends of sessions are stutters.

### ProfileStore

`name[i]` is the row of a profile, `had[i]` (history) the names it has had; `value[v]` is a
`Profile` in memory, which several goroutines may hold, and `mutex[v]` its mutex; `call[p]`
a `Rename` or `NewProfile` under way, `run[t]` where a `tokengen` process stands.

| Action | Code |
|---|---|
| `NewProfile` | `PGStore.go:256-280`, over the unique index of `1_init.up.sql:14` |
| `ReadProfile` | `AllProfiles`, `GetProfile`, `FindProfile` |
| `RenameLocks`, `RenameCommits`, `RenameFails` | `Profile.Rename`: the field is set before the statement and set back when it fails |
| `DeleteProfile` | `Profile.Delete`, `PGStore.DeleteProfile` |
| `FindsDefault`, `MissesDefault`, `CreatesDefault`, `Dies`, `Restarts` | `cmd/tokengen/main.go:23-34` |

A `Rename` whose commit goes unheard restores the old name although the row has the new
one: `SettledNames` therefore asks for a name the row has or had. A `Rename` of a row that is
gone changes nothing and reports success. `GetName` reads the field without the mutex and may
see a name whose statement has not run; no property is about a `Profile` being renamed.

### MatchScopes

`ElementsMatchByLoop` and `ElementsMatchByMap` are folds over one list, `MatchScopes` chooses
between them by length. `ComparisonsAgree` and `LongListsMatch` in `MCProfileStore` are
assumptions that TLC evaluates: the first over all pairs of lists of equal length up to four
of three elements, the second over lists of 21, where the other comparison is chosen. Nothing
in the repository calls it; applications may.

## 3. What TLC checks

| Run | Question | Bounds |
|---|---|---|
| `TokenFaults` | types, verified tokens, `GrantInv`, no silent loss, monotone store, refinement of `TokenVault`, under every fault but a revocation | 1 character, 2 sources, 2 callers, 3 tokens |
| `TokenSaves` | no silent loss, verified tokens and calls that return when `Save` is used too, under every fault but outages and deletions | 1 character, 1 source, 2 callers, 3 tokens, fair |
| `TokenSingle` | why a character is marked inactive, and that tokens stay with their character, for one source under every fault but an outage | 2 characters, 1 source, 2 callers, 3 tokens |
| `CallbackFaults` | profile, spent state, kept grants, write-once data, refinement of `TokenVault`, under every fault | 2 profiles, 2 states, 2 requests, 2 codes |
| `CallbackClocks` | no wasted state, fresh exchanges, safe sweeps; requests are answered or wait for their exchange, rows go | 1 state, 2 requests, 2 codes, 2 hosts whose clocks differ by `Slack`, fair |
| `SignIn` | it returns; nil means quiet and has a cause; the port comes free; somebody is answered | 3 connections, fair |
| `Locks` | granted is held, exclusion, a lost session locks nothing, refinement of `LockService`, calls return, no connection leaks | 2 stores, 3 callers, 2 locks, 2 connections in a pool, fair |
| `Profiles` | one row per name, settled names, no stray rows, `tokengen` settles; `MatchScopes` | 4 ids, 2 names, 2 values, 2 goroutines, 2 `tokengen` processes, 3 changes, fair |

Why these bounds. Two sources and two callers are what a race on a row or on a lock
takes. Three tokens are an authorization, a rotation and a second rotation or a second
authorization: enough for a cache to be one behind, and for two grants to meet, also
in the middle of an update. A fourth token was tried in `TokenSingle` and found nothing new.
Two requests and two states are two deliveries of one
redirect, and two redirects. The properties of `CallbackClocks` are about one state each;
a window of 2 and a slack of 1 make "inside", "between the limits" and "past both"
different ages on both clocks, and no guard tells ages beyond `MaxAge` apart.
`TokenSingle` gives its source a query that covers both rows, as a query by name and
scopes may. Three connections in `SignIn` are one that is received from the channel, one
that fills it and one that blocks. `Locks` has two callers of one store, so that they meet at
the mutex, the session and the pool, and one of another, crossing the locks of the second so
that each can wait for the other; each store has faults of its own kind, which keeps the
combination small. Its pool of 2 is the least that works at all: with `pool_max_conns=1` the
pinned connection is the whole pool, and no statement of the process runs again.
`Profiles` has two names, the least with something to rename to, and two goroutines on a
`Profile`; `MaxChanges` of 3 is a profile created and two renames that overlap, and 4 ids are
one more than changes, so that a fresh one is always left. Ids that were never used are alike:
`FreshIds` takes one of them. Symmetry is used in the runs that check no liveness.

Every property of a passing run has a mutant: an operator beside the definition it
replaces, which changes it as a bug in that code would, and under which TLC finds the
property violated.

### What the code does otherwise than it says

Each of these runs ends in a violation that the code really produces.

| Run | What it shows |
|---|---|
| `FindTwoSources` | a second source for a character still has the refresh token the first rotated away, and marks the character inactive (`token.go:134`) |
| `FindReauthorize` | re-authorizing an inactive character does not make it active (`Profile.go:139`), against README.md:477-478 |
| `FindSavePanic` | after `Save` on a new source the first refresh calls a method on a nil character (`token.go:195`) |
| `FindAmbiguous` | `Valid()` is false because two rows satisfy the scopes (`Profile.go:107`, `PGStore.go:87`), against README.md:201 |

`TokenSingle` is the other side of the first: with one source, an SSO that answers and no
`Save`, a call marks a character inactive only for a refresh token that its user revoked or
that a refresh cut short has left behind. The second cause is real, and needs nobody's
revocation. A refresh is cut short when

- an answer is lost after the SSO has rotated, or the process stops before the row has the
  new token: the row keeps the retired one;
- the verification fails after the update (`token.go:156`): the row has the new refresh
  token, the cache still the old one, and the source presents that next;
- a write fails, or reports failure although it committed;
- or, with no fault at all, a re-authorization's upsert or a deletion commits while
  `UpdateRefreshToken` or `UpdateAccessToken` of the row is under way. The update is aborted, the
  cache keeps the retired token (`token.go:149-151`), the next `Token()` is refused, and the
  row that was just re-authorized is marked inactive.

`InactiveHasACause` says that these are all. Two things are outside it, and break
properties of `TokenSingle` when `Env` and `Saved` let them in:

- any error status of the token endpoint, a 500 included, marks the character inactive
  (`token.go:137`): add `"outage"` to `Env`;
- after `Save` of another character's token, a refresh writes it into the row of the
  source's own character (`token.go:191-195`): set `Saved <- AllSaves`.

## 4. Fairness

`TokenSource!FairSpec`: every step of a call that holds the lock is weakly fair. Each is a
statement or a request; statements run under a context or answer, and the refresh goes
through the client of `AutoConfig`, which by default has a timeout of 5 minutes, so an answer or an
error comes. Taking the lock is strongly fair: `sync.RWMutex` does not starve a waiter.

`Callback!FairSpec`: every step of a request is weakly fair but the exchange: `ServeHTTP`
exchanges with `r.ctx` and the default client (`autoconfig.go:189-190`), which has no timeout,
so that only the SSO can end it. `RequestsAnswered` therefore says that the exchange is the
one place where a request may wait for ever: before it, a request is answered or gets there,
and after it, it is answered. Time passes, and the application calls `CleanPKCE`
periodically, as README.md:416 asks; `RowsGo` is not true without it. Crashes, logins,
deliveries and faults are never fair.

`LocalhostAuth!FairSpec`: the call and the goroutine run, 5 minutes pass, and a send that
finds room is made. `GiveUp` has a fairness of its own because `Shutdown` selects on its
context after every poll. Handlers and the browser are not fair: `Returns` holds although
a handler may work, or be stuck in its send, for ever.

`AdvisoryLock!FairSpec`: a statement comes back, or its context of one minute ends it
(`PGStore.go:119`, `161`): weakly fair. Waiting for the mutex or for a connection is strongly
fair: `sync.Mutex` hands itself to a starving waiter and `pgxpool` serves in turn. Calling is
never fair: a holder may keep its lock for ever, and `CallsReturn` holds all the same, because
of the minute; one step of `Step` is always possible for a caller at the server.

`ProfileStore!FairSpec`: a `tokengen` that died is started again, and a statement repeated
again and again does not fail every time: strong fairness of the two ways to succeed. Both
are needed, since whether the row is there can change between the two statements.

## 5. What is proved

All theorems hold for every value of the constants that satisfies `ConstantsAssumption`:
any sets of characters, sources and callers (or profiles, states, hosts and requests),
any set of faults, any bound on tokens or codes. Four have a hypothesis on the constants
besides, without which they are false; each names it as a definition and says below why.

- `TokenSourceProofs!TypeCorrect`: `TypeOK` is inductive. It includes that a call has a
  pair of its own exactly from the SSO's answer on, which the other proofs use.
- `TokenSourceProofs!OnlyVerifiedTokens`: `VerifiedTokens` alone is not inductive, since a
  call about to run `UpdateAccessToken` or `Create` carries the token those will store.
  The strengthening adds that a call past its verification carries a verified token.
- `TokenSourceProofs!CallsAreSerial`, `LocksAreReleased`: the lock of a source belongs to
  the one call past it (`LockInv`), and conversely a lock that is taken is taken by a call under
  way past it (`LocksAreInUse`), after every error, panic and crash.
- `TokenSourceProofs!TokensAreOwn`, `WritersKnowTheirRow`, for `SaveIsUnused`: `OwnInv` says
  that a row's tokens are its character's, and those of a source and of its calls its
  character's. It needs `LockInv`: a call that looks a character up replaces
  `character[s]`, which no other call of the source may then be using. With `Save` both are
  false, as run `FindSavePanic` and the third item under it show.
- `TokenGrantProofs!GrantsAdvance`: `GrantInv` is the heart. Per grant, the SSO honours one
  refresh token; at most one call carries a refresh token of the grant that no row has yet;
  and while it does, that token is newer than every other one in a row, a cache or a call,
  and none of those is honoured, so nobody else can rotate. This is what serialises the
  writers of a row although they share no lock.
- `TokenGrantProofs!StoreIsMonotone`: from `GrantInv`, whatever `UpdateRefreshToken` writes
  is newer than the row it writes to, within the grant.
- `TokenGrantProofs!RefreshTokensAreKept`: `NoSilentLoss`, by one step per action; a live
  token leaves a row only by a rotation, whose successor is in flight, or into `dropped`.
- `TokenGrantProofs!InactiveIsExplained`, for `SoleSource` (one source, no `Save`, no outage):
  `HonestInv` says that the refresh token in a row, a source or a call is one the SSO honours,
  or is in `revoked` or `missed`, or a call past the SSO's answer is about to replace it; and that a
  row which has the same refresh token as a source is the row the source's handle names, so
  that the replacing reaches both. It takes the lock, own tokens and `GrantInv`. A call
  that ends before it has replaced the cache has, by `CutShort`, the token it leaves behind in
  `missed`; that no other call can leave one behind is what the proof is about. A second
  source (run `FindTwoSources`) and an outage each break it. Re-authorizations and deletions
  are in the theorem; where they overtake an update, that update's token is among the causes.
- `CallbackProofs!TypeCorrect`, and on top of it:
  `StateIsSpent` (a state is never made twice, so what is deleted stays deleted),
  `ExchangesAreFresh` (the age check and the difference of the clocks),
  `SweepIsSafe` (the sweep's limit is beyond the look-up's by what clocks differ),
  `AuthorizationsLand` (strengthened by: what a row of `characters` came from has an
  origin), `GrantsAreKept`, and `DataIsKept` (an upsert touches one column of one row).
- `CallbackProofs!StatesAreUsed`, for `CodesAreTaken`: `NoStateWasted`, which is inductive as it
  stands. A row that goes within its window (less `Slack`) went to a request, since no sweep of
  any host takes it by then; that request exchanges the code, unless its own check finds the
  row out of time, and then by any clock the window is over. A failing statement, a host that
  stops, a deleted profile or a code the SSO refuses does waste a state, hence the hypothesis.
- `LocalhostAuthProofs`: one inductive invariant. `Shutdown` has been called exactly on the
  ways that lead through it, only then does the goroutine report nil, and an element in
  `stopChannel` means that a handler has run; from it `NothingIsCutOff`,
  `SuccessHasACause` and `PortIsReleased` for any number of connections.

- `AdvisoryLockProofs`: `CallInv` says that a caller past the mutex holds it, so that one at
  a time changes the session, that only a `GLock` of a store with no session takes one, and
  that nobody locks what it holds. With `Pool`, that the connections out of a pool are those
  of running statements and the pinned one, it is inductive and gives `TypeOK`; with `Grants`,
  that two stores never share a lock and that what is granted is counted by its holders,
  unlocks in flight included, it gives `GrantsAreHeld` and `Exclusion`: a caller that believes
  it has a lock is a holder, so its store was granted it. `LostCorrect` needs that a closed
  session is never replaced.
- `AdvisoryLockProofs!ServiceIsKept`: `AdvisoryLock` implements `LockService`. What one caller
  believes changes at most one id of its store, or the store becomes unsound; and while a store
  is sound and works under an id, `Grants` gives that its session was granted it, so that the
  server grants it to no other. Under the mapping a stale grant, which the server has not
  cleared yet, blocks others but is no `held` of the void store.
- `ProfileStoreProofs`: `NamesInv` adds to the types that a `Rename` past its lock is the only
  one on its `Profile` and carries, as the name to restore, one the row has had; every other
  `Profile` at rest has such a name. `SettledNames` and the uniqueness of names follow.
- `ProfileStoreProofs!NoStraysCorrect`, `OneProfileCorrect`: `StraysInv` counts. The rows there
  ever were, the calls in progress, and one more while the name `default` is vacant, are
  at most one more than the changes of the application: creating the default row fills the vacancy,
  and only a change, which pays for it, makes a vacancy again. Without changes there is one
  row, which every run of `tokengen` goes on with.
- `TokenVault!VaultLosesNothing`: the abstract specification keeps every live token stored,
  pending or lost. Its invariant adds that while a token is pending no other of its grant is live, so
  that a save never puts one over a token still good.
- `TokenVaultProofs!VaultIsKept`, `CallbackProofs!VaultIsKept`: the refinements, for every
  value of the constants. Both are one lemma per kind of vault step (put, lose, erase, issue,
  stutter), stated over the mapped variables, and one step per action that cites it. For the
  token source `GrantInv` gives the two conditions of the vault: what is saved is newer
  than the row, and nobody rotates a grant with a token in flight. For the callback `PlaceInv`
  does: a stored code has been spent and stands at the character that logged in, and no two
  requests carry one code; with `LandsInItsProfile`, a stored code is nowhere else, so that an
  upsert that displaces it loses exactly that one.

Assumed: that clocks of hosts differ by at most `Slack`, 1 second
(`ConstantsAssumption`); with more, `SweepSparesFindable` is false. That `gen_random_uuid`
does not repeat. That the SSO treats a code and a rotated refresh token as spent.

Also assumed, in `AdvisoryLock` and `ProfileStore`: finitely many callers and keys, and an id
that is left (`Cardinality(Ids) > MaxChanges`), which bounds only the instances.

Only model-checked: liveness, which is out of the prover's reach (`CallsReturn`,
`RequestsAnswered`, `RowsGo`, `Returns`, `SomebodyIsAnswered`, `RunsSettle`), and `MatchScopes`:
what a fold computes for every list is induction over data, which the prover cannot do.
Every safety invariant and action property of a passing run is a theorem.

## 6. What is abstracted, and what is not modelled

- A statement is one step; waiting for a row lock is not a state of its own. A repeatable-read
  conflict is possible wherever the row may have changed since the statement began: since
  the call reached its update (`WriteAborted`), since the row was found (`DestroyFails`). An
  upsert is no transaction of that kind and is never refused. In `ProfileStore` a conflict is
  one of the failing statements of `"store"`.
- The connection pool has its limit in `AdvisoryLock` only; elsewhere an acquisition that
  waits is a step that has not happened yet.
- In `AdvisoryLock` a `Ping` is part of the step after it, a panic is recovered by the
  caller's goroutine (as `net/http` does), and a lock's key is its id: two strings with one
  crc32 are two keys with one `Advise`, which the theorems allow. A statement of a session
  that stays alive is refused only by the deadlock check, so an unlock never is: an
  administrator's cancel or a `statement_timeout` that ends `pg_advisory_unlock`
  (`PGStore.go:170`) is left out.
- `misled` records the stores where a `GLock` returned without its lock: `GrantsAreHeld` does
  not exclude what follows from that, as section 2 says.
- `Callback` delivers only codes that the SSO has issued, for the state they were issued for.
- Signature, issuer, audience, skew and claims checks are one outcome, accepted or not.
- `Character.Token` reads the stored access token without a check; that its expiry is
  unreadable is the same as expired.
- The mutex of a `Character` is not modelled: a handle is used by one source, under that
  source's lock. The fields `UpdateRefreshToken` and `UpdateAccessToken` set before their
  statement are read by nobody before `Character.Token` loads them again.
- `AuthURL` and `AuthUrl` add no state beyond `CreatePKCE`.

Not modelled:

- `internal/utils/sshproxy.go`: the package is internal and nothing in the repository dials
  through it, so no behaviour of the program depends on it.
- `AutoConfig` (`autoconfig.go:45-94`): one goroutine's sequence of start-up requests, with no
  state that anybody else sees before it returns; the key cache is a library's, and
  verification may fail at any time in every module.
- `config.go` and `runner.go` are I/O; `scopes_gen.go` is generated, `internal/gen` the
  build-time program that does it; nothing uses the values of `errors.go`.
- Reads that return what a row holds and are called by nothing that changes state:
  `PGStore.FindCharacter`, `GetPKCE`, `AllCharacters`, and the getters.

## 7. Order of the work, and what is left

`TokenSource`, `Callback` and `LocalhostAuth` came first: they carry the library's own
logic. `TokenVault` joins the first two, `AdvisoryLock`, `ProfileStore` and
`MatchScopes` cover the rest of the store, and `LockService` says what its locks are for.
Of what is modelled, only what section 5 names as model-checked is not proved; section 6
says what is not modelled.
