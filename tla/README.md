# powerbrake-backend in TLA+

Specifications of the powerbrake backend (NestJS / TypeScript, one Node 20
process, Postgres through Prisma, Redis through one ioredis connection, Resend
for mail, R2 for objects), model-checked with TLC and proved with TLAPS. Paths
below are relative to the repository, whose root is `src/`.

## The system

A request enters through a controller, which validates it and calls one use
case. A use case loads a `User` aggregate from a repository, changes it, and
saves it. The aggregate's methods raise domain events; the repository's `save`
(or an explicit `dispatchEvent`) hands them to subscribers, which write the
audit log. JavaScript runs one stretch of code between two `await`s at a time,
so races are between awaited calls, not between instructions; everything below
is about what may happen between them.

| component | state | operations | hard parts |
|---|---|---|---|
| domain-event bus (`core/events`, `core/entities/aggregate-root.ts`) | static list of marked aggregates; each aggregate's event list | raise, mark, dispatch by identity | shared by all requests, marks by identity but holds objects; lost on restart |
| `User` aggregate (`domain/user/enterprise`) | role, status, password, name, avatar, addresses | updateRole, toggleActive, updatePassword, resetPassword, update, login, logout, requestPasswordReset | every load is a new object |
| users repository (`infra/database/prisma/repositories/user`) | users row; `user:{id}:details` in Redis | findById (cache-aside), findByEmail, save, create, list | stale fill, concurrent update and del, one of the two failing, lost update |
| user use cases (`domain/user/application`) | none | one per route | awaits between load and save; several writes without a transaction |
| sessions (`infra/auth`, `infra/cryptography`) | `refresh_token:{jti}` keys with a TTL; JWTs at clients | create, validate, revoke, revokeAllForUser(Except) | scan, read, delete is not atomic; JWTs outlive and are outlived by sessions; any JWT is a bearer and refreshes |
| audit log (`domain/audit-log`) | audit rows | nine subscribers, create, list by cursor | nobody awaits the insert; a rejection ends the process |
| addresses, avatars (`shared/address`, `shared/avatar`) | address and avatar rows, objects in R2 | upsertManyForUser, attachAvatarToUser, upload | object without row; cache not purged |
| WatchedList (`core/entities`) | current, initial, new, removed | add, remove, update, equals | arrays shared by reference; no route reaches the operations that change it |
| resilience (`shared/utils`, mailer, storage) | breaker state, attempts | execute, retry, time out | late answers, retries of what was done |
| rate limiter (`shared/rate-limit`) | counters in Redis and memory, a map of limiters | consume | fallback on a failing Redis, windows of two stores, limiters made on first use and shared by routes |
| authorisation (`infra/auth/casl`) | none; the role is the JWT's | rules per role, policy handlers | the last matching rule decides; roles go stale in JWTs, and refreshes copy them |
| HTTP layer (`infra/http`) | none | guards, pipes, controllers, error filters | which of several refusals a request meets |
| listings (`list-audit-logs`, `list-users`) | `users:page:*` in Redis | cursor pages, numbered pages | rows inserted during a walk, ties, commits out of the order of stamps, pages no write purges |
| health, logging, start-up | none | | |

What makes each correct:

* bus: an event is handed over at most once and in order; an aggregate is
  stranded only behind a marked twin; completed work leaves no mark.
* repository: the cache only ever holds rows the database held, and agrees with
  it in the end; one request at a time, it cannot be told from a plain row.
* sessions: a session ends only by its owner's doing or by time, does not come
  back, and a password change ends those that existed.
* audit: what is dispatched is recorded unless the process ends.
* addresses: a list is replaced as a whole and by requests for its user only, an
  answered replacement leaves nothing of what stood before it, and replacements
  that wait for each other end.
* authorisation: profiles and passwords are their owners'; roles are given by
  those whose row is or was privileged, and nothing but a refresh keeps a role
  that the row has lost.
* rate limits: an address passes no more often than its windows allow.
* listings: a page holds what was asked for, a walk meets every entry once.
* calls to services: they end, however the service behaves; who waits for a
  breaker's test is woken; a row names an object that is there.

## Modules

| module | stands for |
|---|---|
| `EventDelivery` | what the bus promises: events wait in order, are handed over together, never twice |
| `DomainEvents` | the bus: one record for the static state, one function per static method |
| `DomainEventsProofs` | its theorems |
| `UserRow` | a user's row, what requests ask for, and the domain methods on it |
| `AccountService` | what clients would like: edits of the current row and a gapless trail, which by itself tells every row |
| `UserRequests` | the use cases that load one user, over row, cache, bus (an instance of `DomainEvents`) and audit inserts |
| `UserRequestsProofs` | its theorems, citing those of `DomainEventsProofs` through an instance |
| `Sessions` | RefreshTokenService and the use cases that create and revoke sessions |
| `SessionsProofs` | its theorems |
| `ExternalCalls` | ResendMailer and R2Storage under breaker, retries and timeout, with the three requests that call them |
| `ExternalCallsProofs` | its theorems |
| `UserDetails` | create-user and edit-user over a users row and its addresses |
| `UserDetailsProofs` | its theorems |
| `Permissions` | the CASL rules of the roles and how CASL decides by them |
| `HttpLayer` | the fourteen routes with their guards, pipes and filters, and what served requests do to roles and JWTs |
| `HttpLayerProofs` | its theorems and those of `Permissions` |
| `RateLimiter` | RateLimitGuard and RateLimitService over Redis and memory |
| `RateLimiterProofs` | its theorems |
| `Listings` | list-audit-logs and list-users while accounts and entries are created |
| `ListingsProofs` | its theorems |
| `MCDomainEvents`, `MCUserRequests`, `MCSessions`, `MCExternalCalls`, `MCUserDetails`, `MCHttpLayer`, `MCRateLimiter`, `MCListings` | constants for TLC |

`UserRequests` composes the bus with the requests, `HttpLayer` the permissions
with the routes. The others stand alone: they share no key, row or service with
`UserRequests` that their properties read. `HttpLayer` takes a whole request for
one step; what happens between its awaits is in the other modules.

### The bus

`bus.events[a]` is `_domainEvents` of object `a`, `bus.marked` is
`markedAggregates`, `bus.dispatched` the calls made to subscribers. The order of
the array is left out: `find` and `findIndex` look an identity up, and
`UniqueMark` (proved) says there is at most one. Several objects may
have one identity (`IdOf`), as several requests load one user.

### Requests on users

A request `r` is also the aggregate object it loads and, since each of these use
cases raises at most one event, its event. `pc[r]` names the call it awaits:

    idle -> get -> (select -> set) -> loaded -> saving -> done
         -> selectByEmail ----------> loaded -> done

`EditAndSave` is the stretch from the domain method to the two calls of `save`;
`update[r]` and `purge[r]` are those two promises, answered in any order;
`CompleteSave` is the stretch after `Promise.all`. `NoteAndDispatch` is login,
logout and forgotten password. Hashing, signing and what login and logout do to
Redis are awaits that change nothing here (`Sessions` has them); they may still
fail (`Fail`). `RejectUpdate` covers an update that was written and whose answer
was lost. `InsertAuditRow` is the insert a subscriber started; a rejection is
unhandled, and Node 20 then ends the process (`RejectAuditInsert`). `EndProcess`
empties the bus, fails requests in flight, and leaves calls already sent free to
arrive or not.

edit-user raises `UserUpdated` only if it changed something, and saves in any case
(`Raises`): such a save still dispatches whichever aggregate of the user is
marked. Only its name is kept here, the one field it shares with no other table.

Only name, role, status and password are kept of a row: they are what different
requests write, and `save` writes them all, which is what makes stale aggregates
matter. A stale or rejected write, not a value, is what the properties are about.
Redis executes the commands of its one connection in order; the model lets them
be executed in any order, which includes that one.

### Sessions

`sessions` is the set of `refresh_token:*` keys; a `Tick` of the clock drops the
expired ones. `tokens` are the JWTs handed out, with the `exp` they are signed
with. Nothing in a JWT says whether it was issued as an access or a refresh token,
and nobody asks: `JwtStrategy` takes any as bearer, `refresh-user-token` refreshes
any whose session is live, so a request here may present any of them. A revocation lists keys (`ListKeys`), reads their owners one `get` at a
time (`ReadOwner`) and deletes what the filter kept (`DeleteKeys`); other
requests run in between. Saving the password is one step here.

### Calls to mail and storage

`breaker[s]` is the `CircuitBreakerService` of a service, made once per process;
its policy is cockatiel's, modelled as the code uses it (a consecutive breaker,
half open after a delay, others wait for the test). `retryWithBackoff` runs
inside it, so one call to the breaker is up to `Retries` attempts, each raced by
`promiseWithTimeout`. The race cancels nothing: a call that lost it is counted
in `late[r][o]` and may still be performed (`Land`), after the request has
retried, failed or gone on. `held` is what the services hold. An upload draws
its key once, before the first attempt (`Key`), so its retries write one object;
its row follows (`InsertAvatar`). `check` of the storage health indicator uploads and deletes
through the same breaker. `emails.send` of Resend 4.5.2 resolves with an error
in its result, which `send` does not read (`AnswerWithError`). How long waits
are, and the jitter, are left out: a timer fires some time. A restart of the
process is not modelled here; breaker and attempts would begin anew.

    idle -> execute -> (waiting -> execute) -> trying -> (backoff -> trying)
         -> insert (avatars) or execute (health check, to delete) -> done

### Users and addresses

`users` and `address` are the two tables; an address carries the request that
wrote it (`by`), which stands for its generated id. create-user looks the e-mail
up (`FindByEmail`) and inserts (`Insert`); the column is unique, so the loser of
a race gets an error. edit-user reads the addresses (`FindMany`), and if they
differ (`HasChanged`) replaces them in a transaction. Postgres runs it READ
COMMITTED: `Delete` fixes the rows it sees, `DeleteRow` takes them one by one in
any order, waits for one that another transaction has taken (`locked`) and passes
over one that is gone, `Commit` shows the new ones. Transactions that wait for each
other in a circle are found, and one of them is rolled back (`DetectDeadlock`).
`stood` remembers what a delete found, for `StandingAddressesGo`.
The watcher compares address by address, in the order the rows come, so an equal
list of addresses may count as changed. The name of edit-user, its event and the
cache are in `UserRequests`; avatars are left out; save touches no address.

### Routes, permissions and JWTs

`Permissions` has the rule lists of `permissions.ts` and CASL's decision: of the
rules that match, the last one. A rule with a condition matches a question about
the type of subject, which is how the routes without `own` ask. In `HttpLayer` a
route is a record of what its decorators say; `Status` follows a request through
`JwtAuthGuard`, rate limit, CSRF, `CaslAbilityGuard`, `ParseUuidPipe`, the body's
pipe, the use case's errors and `UserErrorFilter`, in that order. `rows` are the
users' roles and statuses, `tokens` the unexpired JWTs with the role they carry
and what is `left` of them: login reads the role from the row, refresh copies it
from the JWT presented, which may be any with a live session, and `JwtEncrypter`
signs its own hour over whatever lifetime was asked for (`Encrypt`). Whether a
session is live is a flaw of the request here and a set of keys in `Sessions`: a
client may always have one that is, since each refresh makes its own session.
Three things are history: `since[u]`, for how long `u`'s row has been as it is;
`held[u]`, the roles it had while active; and the `lineage` of a JWT, "renewed" if
it comes from a refresh since its user's row last changed. A reset link's JWT is
signed with the same key and names no role or jti: as bearer it fails in
`JwtStrategy.validate`, whose `ZodError` is answered 422 (`Guard`). Flaws of a
request other than who makes it are a small set.

### Rate limits

`limits` is one record: the store chosen when the service was constructed, the
limiters in the Map, and the count of each store for each limiter and address.
Redis counts a consume, loses its answer, or fails (`Answers`); in the last two
cases the insurance limiter in memory counts and judges. A window of a store ends
at any moment after its first attempt; a restart empties memory, keeps Redis and
chooses the store again. `windows` counts the windows that a busy period, which
ends when no window is running, may have drawn on.

### Listings

An audit entry is stamped by the subscriber and arrives later (`CreateAuditLog`,
`Insert`), so entries appear in `log` out of the order of their stamps. A user is
stamped when the request makes it (`MakeUser`) and is in the table when its insert
commits (`CreateAccount`), so users too may arrive out of order, or tie. A walk is
a client that follows `nextCursor`; `FindMany` is Prisma's cursor query, in which
rows of one timestamp come in any order, another one each time (`Following`,
`First`). Pages of users are ordered by `createdAt`, ties in any order
(`UsersOn`). Resolving the e-mail, finding the page and naming the actors are
separate awaits. Clients list users by page number beside it: `list` returns the
cached rows where the use case expects a pair of rows and total, so a cached page
ends in an error until its TTL is over (`GetCachedPage`).

## Checks

| run | instance | shows |
|---|---|---|
| `bus` | 3 objects, 2 identities, 4 events | marks have events, at most once, orphans only behind a twin, implements `EventDelivery` |
| `users_concurrent` | 3 requests (two on one user), role edit or read, 1 crash, rejected database and Redis calls | types, marks are unfinished saves, cache holds committed rows, drives the bus as `DomainEvents` |
| `users_serial` | 3 requests, ten inputs of all nine kinds, one in flight per user, mails may fail | implements `AccountService`; the trail tells how each row came to be |
| `users_fair` | 2 requests on one user, every service may fail, 1 crash, fairness | requests settle, the cache becomes fresh, dispatched events are audited |
| `users_lost_event` | 2 edits of one user | violated: a completed save dispatches its event |
| `sessions` | 4 requests, 2 users, 3 jtis, rejected Redis calls, expiry | types, sessions end by their owner, a change ends those standing, ended for good |
| `sessions_logout` | login, refresh, logout | violated: logout ends the refresh token |
| `calls` | 3 requests (two uploads and a health check, or an upload and two mails), 2 attempts, breaker at 1, fairness | types, avatar rows name stored objects, those who wait have a test to wait for, every request settles |
| `details` | 3 requests, 2 of them with one e-mail, lists of no or two addresses, rejected calls, fairness | types, addresses are whole, replaced by their user only, what stood before a replacement goes, one creation per e-mail, an answered creation is complete, every request settles, deadlocks among them |
| `http` | 2 users, accounts of 2 roles, callers of all 4, 2 JWTs at a time, JWTs of one hour and refresh tokens that ask for two | types, stale roles are renewed ones, only the privileged appoint, profiles are their owners', answers are as described |
| `limits` | 3 routes over 2 limiters (2 points and 1), 1 address, 5 windows to a busy period, Redis failing at will, restarts | attempts are limited |
| `listings` | 3 entries, 2 users, 1 walk a row at a time, 1 lister of pages of one user, 2 timestamps, rejected calls | types, pages list what matches, walks are exact but for ties, users are listed as they are |

Bounds. Two overlapping requests on one user are what every race here needs, a
third one on another user shows that identities do not mix (`users_concurrent`,
`users_serial`); one crash splits any save; three sessions of two users let a
scan see its own, a foreign and a later session. `MaxInFlight` and `MaxCrashes`
bound `UserRequests`, `MaxTime` bounds `Sessions`; requests end, so deadlock is
not checked where they do. The lifetimes (an hour, a week) are scaled to 1 and 2
hours. The breaker's
threshold of 3 is scaled to 1, so that one request opens it, one tests it and one
waits for the test; two attempts make one retry. Three requests on addresses are
a creation and two edits of that user, or creations that race for an e-mail
beside an edit; a list of two can be told from part of it. `ExternalCalls` and
`UserDetails` need no bound on steps: every request ends. In `http` ages replace
the clock, so no hour is the last one; `Long` is one JWT lifetime and one hour,
the first age at which `StaleRolesAreRenewed` says anything, and `MaxTokens` lets a
client hold a JWT and the one it was refreshed to, or two callers one each. In `limits` two limiters, one of
them shared by two routes, and a point more than one tell an attempt that passes
from one that does not; addresses never meet in a count, so there is one.
`MaxWindows` of 5 lets both stores start over while a client is busy. In
`listings` three entries and two timestamps make a tie beside an entry that is
not tied, and pages of one row put a cursor between any two; with one lister a
page is cached by its earlier request. `MCSessions`, `MCHttpLayer` and
`MCListings` use symmetry: no definition tells their symmetric ids apart, and
those runs check no liveness.

Fairness. `FairSpec` asks that the event loop runs what it can, that Redis and
Postgres answer each call (or reject it), that Redis enforces its TTL, and that
audit inserts are answered. In `ExternalCalls` timers fire (each attempt has a
timeout, each retry a backoff), the event loop runs what it can and the database
answers; of the mail and storage services, and of an open breaker's cooling
down, nothing is assumed. In `UserDetails` the database answers each call: a
transaction that waits for a row goes on once it is free, and one of those that
wait for each other is rolled back, as Postgres does after `deadlock_timeout`. Nothing is assumed
of clients, failures or crashes. `Sessions`, `HttpLayer`, `RateLimiter` and
`Listings` state safety only and assume no fairness.

Violated runs. Each states what a comment, test or API description says and
finds the code doing otherwise; `PROJECT.json` quotes the lines. Marking by
identity loses the second of two overlapping edits' events (`users_lost_event`);
a refresh hands the old refresh token back under a session that logout does not
know (`sessions_logout`).

Behaviours the models have and no property denies:

* `save` purges the cache concurrently with its update, so a reader may refill
  it with the old row (`CacheBecomesFresh` says for how long).
* A login or refresh under way when a revocation lists the keys survives it
  (`ChangeEndsStandingSessions` is about the sessions standing then).
* Any JWT is a bearer and any refreshes: an access token may be refreshed, though
  the API description says "using a valid refresh token", and a refresh token may
  call the routes. The access token of a refresh has a session of its own, so a
  demoted or deactivated user who refreshes every hour keeps the old role without
  end (`StaleRolesAreRenewed` says that this is the only way to keep one).
* The JWT of a reset link as bearer is answered 422, which some routes do not
  describe; `AnswersAsDescribed` excepts it.
* Refresh tokens are announced for a week (`token.service.ts:32`) and signed for
  an hour (`jwt-encrypter.ts:13`).
* Of two overlapping edits of one user's addresses the second does not see, and
  so keeps, what the first inserted after the second began to delete: the user has
  both lists. Two such edits may also deadlock, and one of them end in a 500.
* A creation whose addresses fail leaves a user without any, and the retry is
  refused as a duplicate.
* An error Resend reports in its result is taken for success
  (`AnswerWithError`); a put of the health check that timed out may land after
  its delete.
* A cached page of users cannot be answered until its TTL expires: the repository
  returns rows without a total (the e2e tests ask for each page once). A page
  below 1 asks for a negative `skip` and ends in a 500.
* Entries that tie with a cursor may be missed by a walk or met twice.
* A MANAGER may create and appoint an ADMIN, and the last one may be demoted.
* The API descriptions omit the 429 of limited routes, the 403 of refresh and
  password, the 400 and 401 of the upload, the 400 of the audit list, and the other
  errors of forgotten and reset passwords; `Described` names the seven routes that
  `AnswersAsDescribed` is about.
* `RateLimitGuard` catches the refusal it has itself thrown, and overwrites
  `Retry-After` with 60.
* `toPrisma` leaves a null avatar out, so an avatar cannot be cleared.

## Proofs

For every value of the constants TLAPS proves the safety properties of the bus,
of the composed requests, of sessions, of calls to services, of creations and
addresses, of routes and JWTs, of rate limits and of listings. The argument:

* `BusInv` (`DomainEventsProofs`) strengthens "dispatched at most once" with: no
  list repeats an event, and no two lists share one. Without it, handing over a
  list could repeat an event. It is kept by the three functions every bus step is
  made of (`AddKeepsBusInv`, `DispatchKeepsBusInv`, `RestartKeepsBusInv`).
  `OrphansHaveATwin` and `BusDelivers` then follow action by action.
* `IInv` (`UserRequestsProofs`) is `Types`, `Held` (a pending update has an
  edit and a row under it), `BusUse` (the bus satisfies `BusInv`, and a request
  that has not saved or noted has raised nothing), `MarkedIsUnfinished` and
  `Committed`. `BusUse` is what makes each raise fresh, hence each step a step of
  `DomainEvents`; through that refinement the requests inherit the order of the
  bus (`RequestsKeepBusOrder`). `AuditedWasPermitted` adds that only a request
  raises its own event and what it loaded stands from then on: whoever hands the
  event over, it tells an edit that was permitted, of a row the database held. (It
  may tell an edit whose update was rejected: that is what a stale mark does.)
* `SerialInv` (`UserRequestsProofs`) is what holds besides under `Serial`: a user's
  requests one at a time, no rejected database or Redis call, no crash. `Calm`
  (a save under way awaits its own two calls), `OneAtATime`, `Asked`, `Current` (a
  loaded row is the stored one, or its edit is stored), `CacheIsCurrent` (the entry
  is the stored row, or its purge is under way) and `OwnEvent` (the bus holds the
  event of each save under way, marked, and nothing else). `AccountService` is
  implemented because of the last three: an edit happens where its update
  arrives, its entry where the save is dispatched, and between them it is `Owed`.
  `TrailsTellRows` then is an invariant of `AccountService` itself, kept by each of
  its steps. The hypotheses are needed: TLC refutes the refinement if requests
  of a user overlap (lost updates), if the update or the purge is rejected (a
  failed edit's event stays marked, a stale entry is edited), or if the process
  ends between a commit and its dispatch. `OrderlySavesAreDispatched` needs less:
  with crashes allowed, a save that is answered has still dispatched its event.
  So `users_lost_event` needs the overlap, or a rejected call, that it has.
* `NobodyIsStuck` and `RequestsAdvance` are the safety half of `RequestsSettle`,
  with no hypothesis: a request in flight has a step of its own or a call to be
  answered, at most seven are ahead of it, each of them takes it nearer its end
  and nobody else's step takes it back. `NobodyWaitsInVain` and `CallsAdvance` say
  the same of calls to services, where `Ahead` counts the attempts left; only the
  end of a half-open breaker's test sends those who waited for it one step back,
  to ask the breaker again. `WaitsForOneThatGoesOn` and `DetailsAdvance` are that of
  `DetailsSettle`: who waits for a row waits for one of the same user; following
  those who wait one arrives at one with a step to take, or at a circle, and the
  smallest set closed under waiting is a deadlock that `DetectDeadlock` ends. Each
  step takes its request nearer its end or leaves its delete fewer rows. What
  remains to TLC is that fairness makes such steps happen.
* `IInv` (`SessionsProofs`) is `TypeOK`, `Known` (a jti that a key, a token or a
  request names was stored once, so a later session gets another), `Owned` (all
  that name a session agree on its user), `Chosen` (a revocation spares its
  current session, a logout dooms no other one) and `Covered` (sessions found
  standing by a password change and still alive are yet to be read, or will be
  deleted, or are the current one). `SessionsEndByTheirOwner` rests on `Owned`
  and `Chosen`, `ChangesEndSessions` on `Covered`, `EndedSessionsStayEnded` on a
  jti being drawn once.
* `IInv` (`ExternalCallsProofs`) adds `Calls` (which calls a request makes), `Lates`
  (attempts that timed out are attempts of the call that is made; only a health
  check has late deletes), `Stored` (an object is there from the answer its row is
  made of) and `Tests` (a half-open breaker has a tester that is running). Two
  testers may run at once, an old one whose breaker another call reopened and a
  new one; `Tests` speaks of the one the breaker names. `Settling` is the heart:
  whatever the outcome, the breaker leaves half-open if it was tested, and wakes
  those that waited.
* `IInv` (`UserDetailsProofs`) adds `Routes` (which use case awaits which call),
  `Written` and `Whole` for the address table, `Ours` for each transaction, `Apart`
  and `Created`. A transaction deletes whole lists because it began with all
  committed addresses of a user and loses only rows that another one deleted, and
  with each of them its whole list: `Ours` says so of the rows it has before it
  and those it has taken (`Taken`), and that what stood and is still there is among
  them, from which `WhatStoodIsGone` follows. `Apart`: no row is deleted by two
  transactions (`RowsAreDeletedOnce`).
* `IInv` (`HttpLayerProofs`) adds `Sound` to `TypeOK`: a JWT names a role its
  user's row had while active, and if the row says something else by now, the JWT
  comes from a refresh, or `since[u]` and what is `left` of it add up to at most one
  lifetime, which an hour keeps, moving one into the other. A refresh copies the
  role of a JWT that is `Sound`, and a written row makes every JWT of its user an
  old one of age 0. The tables of permissions are worked out role by role from the
  rule lists.
* `RateLimiterProofs`: `Spare` and `Within` say how many attempts the windows drawn
  on still allow, store by store; an attempt that passes spends one of them, and a
  window that ends is paid for by the next one.
* `ListingsProofs`: `Past` (what a walk has met lies before its cursor),
  `Continues` (an entry not met that was there at the start is still to come),
  `Matches` and `Stands` (where a walk is, and that only ties were met twice or
  missed) and `ReadSince` (what a request read of the users was so since it
  began: the table with its first n users does not change while users are added),
  each kept action by action.

`UniqueMark`, `EventDispatchedOnce` and `ClosedBelowThreshold` are parts of these
invariants: they are proved, and no run lists them.

Assumptions used: `IdOfAssumption`, `RequestsAssumption`, `SessionsAssumption`,
`CallsAssumption`, `DetailsAssumption`, `HttpAssumption`, `LimiterAssumption` and
`ListingsAssumption`, evaluated by TLC on every run of those modules.

Only model-checked: liveness (`RequestsSettle`, `CacheBecomesFresh`,
`DispatchedIsAudited`, `CallsSettle`, `DetailsSettle`), which TLAPS does not
reach: it proves that steps are there to be taken and lead on, not that they are
taken. `SavedEditIsDispatched` and `LogoutEndsRefreshToken` are false of the code.

## Plan

Done: the bus, requests on users (with the name of edit-user and `UserUpdated`),
sessions, calls to mail and storage, creation and addresses, routes with
permissions and JWTs, rate limits, listings. Left:

1. Attaching an avatar to its user (`avatars.user_id`, which nothing reads), in
   `UserDetails`.
2. Progress of the loops of `Sessions`: a scan reads and deletes a finite set.

## Not modelled

* `WatchedList`: no route reaches the operations that change a list after it was
  made; `update` and `equals` as edit-user uses them are `HasChanged`.
* DTOs, presenters, cookies and their attributes, logging, environment parsing,
  module wiring, generated code: they keep no state, and no property here depends
  on what they say.
* The values of names, e-mails, passwords and tokens, and the strength of what is
  hashed or signed.
