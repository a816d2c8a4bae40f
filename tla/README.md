# Verification of Hexagonal Auth Service

TLA+ models of the authentication service in `src/`, the TLC runs that check
them on small instances, and TLAPS proofs of their main properties for every
instance.  All definitions are translated from the Python code; `PROJECT.json`
maps each of them to its lines.

## The system

A FastAPI process answers HTTP requests.  Each request builds one use case with
one SQLAlchemy `AsyncSession`, loads entities from PostgreSQL, lets the domain
code change them, saves them, commits, and then publishes the events that the
entities collected.  The requests are coroutines of one event loop (of several
processes when deployed so): they interleave at every `await`.  Three stores
outlive a request: the tables `users`, `one_time_tokens` and `refresh_tokens`,
the Redis list `auth:events`, and the list of notifications in the process.

| component | state | operations | what is hard, and what makes it correct |
|---|---|---|---|
| **Repositories, transaction** (`repositories/*.py`, `transaction.py`) | three tables with a `version` column; row locks; the entities in memory with their `__version` | `get_by_*`, `save`, `delete`, begin, commit, rollback | Between the SELECT and the UPDATE other requests commit.  A version must identify a row's content; no update may be lost. |
| **Refresh-token sessions** (`cases/user/{login,refresh_token,revoke_token}.py`, `entities/refresh_token.py`, `services/refresh_token_rotation.py`) | rows of `refresh_tokens` (`revoked_at`, `replaced_by_id`, `expires_at`); the tokens clients hold | login opens a session, refresh rotates its token, revoke ends it | Two refreshes of one token; refresh against revoke; a failure between the two saves; an unacknowledged commit; expiry between the read and the answer.  A session is one line of tokens with one tip; an ended session stays ended; a client's token is stored. |
| **Event publisher, audit log** (`event_publisher.py`, `redis/event_queue.py`, `events/*.py`) | the Redis list | route by class, push, read a page | Publishing after the commit and outside the transaction: events are lost, never invented; their order is that of independent requests.  LLEN and LRANGE are two commands. |
| **Accounts** (`cases/user/{register,verify_email,change_password,password_recover_request,password_recover}.py`, `entities/user.py`) | rows of `users`; the events an entity has collected | register, verify, change and recover the password, log in | Unique email against concurrent registrations and other spellings; repeated registration before the verification; recovery against change; stale entities.  One account per email, verified by one token, its password settled until then; what is committed is what was decided on. |
| **One-time tokens** (`entities/one_time_token.py`) | rows of `one_time_tokens` | create, use for one purpose | Used at most once, for its purpose, before it expires; several may be outstanding. |
| **Notification queue** (`notification_queue.py`) | a list in the process | push, take all | A restart between the commit and the delivery loses the only copy of a token; one that leaves must be committed. |
| **Validators, hashing** (`validators/*.py`, `core/utils/security.py`) | none | normalise, validate, hash, compare | Normalisation is applied to what is stored and not to what is looked up or compared; two limits of different units. |
| **Client metadata and risk policy** (`dependencies/security.py`, `refresh_token_security_policy.py`) | none | read the headers, score the change of client | The metadata is not stored, so the policy compares with nothing, and what it makes of that decides who is suspected; the suspicion is published after the commit, and may be lost there. |
| **Access tokens** (`access_token/*.py`) | none (JWT) | issue, verify | They stay valid after revocation, deactivation and password change until they expire. |
| **HTTP API** (`routers/auth.py`, `routers/events.py`) | none | status codes, the events page | Every BaseError of a route has one status; anything else is a 500.  Pages move while they are read. |
| **Composition root** (`nexus.py`, `dependencies/cases.py`), engine and pool | singletons of the process, what FastAPI caches per request, the pool | resolve the parts of a use case, one provider at a time in a pool of threads | Transaction and repositories on one session, no session for two requests, connections given back. |
| **Migrations** (`migrations/`, `docker-compose.yaml`) | the schema, `alembic_version` | upgrade, downgrade, start, restart and stop the service | Failure or crash between two statements; databases with rows; downgrades that must undo upgrades; runs beside a service that is up, and restarts that check nothing. |
| **Settings, ports, DTOs** | none | | constants and declarations |

## The modules

| module | models | proofs |
|---|---|---|
| `Table` | one PostgreSQL table behind a repository: committed rows, uncommitted rows, row locks, and the statements of `save` and `delete` | used by the others |
| `Repository`, `MCRepository` | any of the three repositories, used by any number of sessions in any order | `RepositoryProofs` |
| `SessionChains` | abstract specification: what token rotation promises | `SessionChainsProofs` |
| `RefreshSessions`, `MCRefreshSessions` | login, refresh, revoke over two tables and the audit log; implements `SessionChains` | `RefreshSessionsProofs`, all safety properties |
| `Accounts`, `MCAccounts` | abstract specification: what may happen to accounts and their one-time tokens | `AccountsProofs`, all properties |
| `AccountLifecycle`, `MCAccountLifecycle` | register, verify, log in, change, ask for a recovery, recover, over `users` and `one_time_tokens`, with the notifications and the audit log; implements `Accounts` | `AccountLifecycleProofs`, all safety properties |
| `UserEntity`, `MCUserEntity` | the aggregate `User`: every method of it, its events, validators and hashing | `DomainProofs`, all properties |
| `AuditLog`, `MCAuditLog` | push, LLEN and LRANGE, the in-memory queue, and the walk over the events pages | `AuditLogProofs`, all properties |
| `ClientMetadata`, `MCClientMetadata` | headers, client metadata, what becomes of it in the tokens, the risk policy, and the revocations that ask it | `DomainProofs`, all properties |
| `RequestScope` | dependency resolution per request, the transaction on a connection of the pool | `RequestScopeProofs`, all safety properties |
| `Migrations` | the Alembic scripts and runs, and the service that starts after and runs beside them | |

`Table` is instantiated twice by `RefreshSessions` (users, refresh tokens) and
by `AccountLifecycle` (users, one-time tokens).  These two are the use cases in
detail; what they leave to a free choice is in the modules below them:
`UserEntity` for the entity, `ClientMetadata` for the policy that a revocation asks,
`AuditLog` for what becomes of the events, `RequestScope` for the assumption
that a request has one session of its own.

The abstract specifications state what they assume of their constants as a
definition (`ChainsAssumption`, `AccountsAssumption`): a theorem about them has
it as its hypothesis, so that a module that instantiates them can prove it of
what it puts in their place.  `MCAccounts` has TLC evaluate the second.
`DomainProofs` extends `UserEntity` and `ClientMetadata`, which have no names in
common and nothing to do with each other, but that both are the domain layer.

Every safety property that a passing run checks on a module with constants is a
theorem as well.

### Table and Repository

`table[id]` is the committed row.  PostgreSQL lets one transaction at a time
have an uncommitted version of a row, so `draft[id]` and `holder[id]` (the
writer) suffice.  `Visible` is what a SELECT of a READ COMMITTED transaction
returns: its own write, else the committed row.  A write waits for the lock
(`Unlocked`) and its WHERE clause, `id` and `version = expected_version`, is
evaluated on the newest committed row (`Matches`); no match is `rowcount != 1`,
`ConcurrencyError` (`Conflict`).  The row locks, the visibility rule and the
rollback of lost connections are PostgreSQL's and marked external.

`Repository` adds the sessions: `Open`, `Load`, `Create`, `Mutate`, `Save`,
`Remove`, `Refuse`, `CloseOk`, `CloseError`.  `entity[x][id].version = 0` is an
entity without `__version`, which `save` inserts with version 1.  Domain code
is any change of the data.  `base` and `known` are history.

### RefreshSessions

A request is at `pc[r]`, named after the statement it is about to run.  Code
between two awaits is one action: `UseAndRotate` is `use()`,
`RefreshTokenRotationService.rotate` and the pull of the events.

| step | code | next |
|---|---|---|
| `idle` | the request arrives; `get_by_email` or `get_by_string` returns (`LoginSelect`, `TokenSelect`) or finds nothing | `login`, `use`, `respond` |
| `login` | `assert_can_login` raises (`LoginRefused`) or a token is made (`LoginCreate`) | `respond`, `save_user` |
| `save_user` | `user_repo.save` | `insert`, or conflict |
| `use` | `use()` or `revoke()`: `UseReplaced`, `UseInvalid`, `UseAndRotate`, `Revoke` | `reuse`, `respond`, `save_token` |
| `save_token` | UPDATE of the presented token | `insert` (refresh), `commit` (revoke), or conflict |
| `insert` | INSERT of the new token | `commit` |
| `commit` | `__aexit__`: `CommitRefresh` returns at once, `CommitAndPublish` goes on | `respond`, `publish` |
| `reuse` | the second transaction, in the `except RefreshTokenReuse` clause | `publish` |
| `publish` | `EventPublisher.publish`, one push at a time | `respond` |
| `respond` | the answer is sent, or lost | `idle` |

Failures: `DbFailure` (a statement fails or the connection breaks before the
commit), `CommitUnacknowledged` (it breaks while the commit is answered: the
commit took effect and the request fails), `PushFails` (Redis fails before or
after it appended the event), `ResponseLost`, and `Crash` (the process dies:
open transactions roll back, tables and log stay).  A client presents only tokens it
was given (`delivered`), or an unknown string (`NoToken`).

`identity[t]` holds what `create()` sets once: user, expiry and, as history,
the session, which is the login's first token.  The clock moves in ticks; all
readings of one step see the same tick.  A token is its own raw string and
hash.  The expected password, `active` and `is_email_verified` are a free
choice of `LoginRefused` or `LoginCreate`.  The entity that `get_by_string`
returns has no client metadata, so `assess_risk` finds a threat in every
revocation and `Revoke` always collects the security event.

### SessionChains

`chain[t]` is a token's user, session, revocation and successor.  `Open`,
`Rotate` and `End` are all that may happen to it.  In `RefreshSessions` it is
`ChainView`, computed from the committed rows; `ImplementsSessionChains` says
that every commit is one of the three and nothing else shows.

### Accounts and AccountLifecycle

`Accounts` has what the rows of `users` and `one_time_tokens` mean, and one
action per effect a use case may have: `Register`, `Reissue` (a second
registration before the verification), `Verify`, `RequestRecovery`, `Recover`,
`Change`.  It may start with verified accounts (`Past`).

`AccountLifecycle` is built like `RefreshSessions`; the steps are

| step | code | next |
|---|---|---|
| `idle` | the request arrives and its first SELECT returns: by email (`SelectByEmail`, `EmailNotFound`), by the subject of the access token (`SelectByAccessToken`, `AccessExpired`), by one-time token (`SelectToken`, `TokenNotFound`) | `decide`, `load_user`, `respond` |
| `load_user` | the user of the one-time token: selectinload or `get_by_id` | `decide` |
| `decide` | the checks and mutations of the entities: `Refused` with the first error in the order of the code, or `AcceptNewUser`, `AcceptOldUser`, `AcceptUpdate`, `AcceptLogin` | `respond`, `save_user` |
| `save_user` | `InsertUser`, `InsertUserFails` (unique index), `UpdateUser`, `UpdateUserConflict` | `save_token`, `commit`, `respond` |
| `save_token` | `InsertToken`, `UpdateToken`, `UpdateTokenConflict` | `commit`, `respond` |
| `commit`, `publish`, `respond` | as in `RefreshSessions`; a notification goes to the list of the process, any other event to Redis | |

An email is an address and whether it was sent in its normal spelling: the
lookup compares what was sent, the row holds the normal form.  A password is a
word and whether it has blanks around it; a hash is the word.  `Deliver` takes
the notifications to their users' mailboxes and is external: no code of the
repository calls `get_all`.  `Crash` loses them.  `users.active` is left out
because no use case changes it (`UserEntity` has it).

### UserEntity

One action per method.  Outcomes are results of a call: `ok`, `no` (a False of
`verify_password`) or the exception.  `given` is the last password the entity
accepted, `pulled` the events that use cases have taken.  Words have a length
in characters and one in bytes, because `validate_password` limits the first
(8 to 255) and bcrypt, from the 5.0 that `pyproject.toml` asks for, refuses
more than 72 of the second.

### AuditLog

`log` is the Redis list.  A request for a page is four commands: LLEN and
LRANGE for the entries (`ReadItems`), LLEN and LRANGE again for the probe of
the next page (`Probe`); pushes come between any two.  `walked` and `origin`
are history: what an operator who follows the links has seen, and how long the
list was when he began.  An entry of an unknown type is one that another
version of the program wrote and `deserialize` refuses.

### ClientMetadata

A client is its headers.  `row` holds what `domain2orm` keeps of an entity,
that is no metadata, and its version; metadata is compared after a round trip
through the row, so the policy gets `None` for the token.  A revocation goes
through the awaits of `RevokeTokenCase`: `Assess` reads the row, revokes the
entity and asks the policy, whose suspicion goes into the request's list of
events; `Save` is the versioned UPDATE, which locks the row, or `Conflict`;
`Commit` makes it visible, and its answer may be lost; `Publish` hands the
suspicion to the queue (`reports`).  `Fail` ends the request at any await; the
death of the process is `Fail` of every request.  After the commit that loses
the suspicion, and `RedisEventQueue.push` skips it when it does get there, being
no `DomainEvent` (see `DocReuseAudited.cfg`).  So what is claimed of a
revocation by another client is that it was suspected, not that anybody hears of
it.  `issuedTo`, `revokedBy` and `suspected` are history; the last two are set by
the commit.  Logins and rotations are one step each here.

### RequestScope

`BuildUseCase(u)` are the providers of a use case's ports, in the order of its
constructor (`RegisterPorts` and so on), as `build_use_case` wires them.
`parts[r]` is what a request still has to get of them; FastAPI gets its head,
after what the head depends on and the request does not have yet (`Needs`,
`Missing`), and keeps every object for the request (`cache`).  Each call is a
step, because providers are plain functions that run in a pool of threads: the
calls of different requests interleave, and within the lazy singletons' (`Look`,
`Make`, `ReturnGlobal`) two threads may both find none, both make one, and
return the one that was assigned last.  `objects` counts sessions and
singletons and so tells them apart.  The `ValueError`s of `build_use_case` end
the import, which is the assumption `EveryPortProvided`; that no constructor
asks for one thing twice is `EveryPortOnce`.  Both are about the tables of the
code and evaluated in the run.

### Migrations

A table is its columns, indexes and cascade; scripts are sequences of
statements, translated from `upgrade()` and `downgrade()`.  One Alembic run is
one transaction (`env.py`) and may go through several scripts; `work` is what it
has done and not committed.  `Refused` is PostgreSQL's: a NOT NULL column for
existing rows, a table that is missing or that others refer to.  `ComposeUp` is
the run in compose's container `migrate`, `Run` one by hand or by `make
migrate`.  Only the first is what `StartAuth` waits for
(`service_completed_successfully`); afterwards the service may die and be
restarted without any check (`AuthDies`, `Restart`).  A run by hand may begin
while the service is up: the service inserts beside it (`Insert`), where the
table is the one its models know and the run has not locked it (`Locks`).  That
there is one run of Alembic at a time is an abstraction; nothing enforces it.
There is no MC module because there are no constants.

## The runs

| run | instance | states | shows |
|---|---|---|---|
| `repository` | 2 rows, 2 sessions, 2 contents, `MaxVersion` 3 | 203 575 | `NoLostUpdate`, `VersionIdentifiesRow`, `VersionsGrow` |
| `refresh_sessions` | 1 user, 3 tokens, 2 requests, 1 tick | 392 926 | the safety of the sessions, and the refinement |
| `refresh_sessions_live` | 1 user, 2 tokens, 2 requests, no clock | 19 872 | `EveryRequestAnswered` |
| `accounts` | 3 accounts, one of them old, 5 one-time tokens, 2 emails, 2 passwords | 334 | what `Accounts` promises |
| `registration` | an empty database, 1 email in 2 spellings, 2 passwords (one too weak), 2 requests at a time, 3 in all | 324 914 | races of registration and verification implement `Accounts` |
| `recovery` | 1 verified account, 2 passwords, 2 requests at a time, 4 in all, 1 tick | 598 609 | logins, changes and recoveries commit what they decided, and the refinement |
| `audit_log` | pages of 2, lists of 3 to 7 entries, 1 reader, 3 types of events | 14 985 | the pages and the walk over them |
| `user_entity` | 5 words at the limits, 1 blank, 5 events | 62 632 | the events tell the state; failing calls leave no trace |
| `client_metadata` | 2 tokens, 7 clients, 2 revocations at a time | 325 641 | foreign revocations are suspected; reports are true, and made once |
| `migrations` | all 6 scripts, both directions, any rows, a service that is up or not | 17 835 | the schema and the service fit |
| `request_scope` | 2 requests at a time, 3 in all, 8 use cases, a pool of 1 | 365 755 | one session per request; connections come back, and nobody waits for one for ever |
| `doc_verified_email` | a smaller `registration` | | a docstring that the code does not meet |

The type invariants (`TypeOK`, `AccountsTypeOK`) are a property of
`refresh_sessions` only; all are proved but that of `Migrations`, which can be
added to the INVARIANTS of its run.  Further configurations, which are not
among the runs: `LiveAccounts.cfg` checks `EveryRequestAnswered` on
`MCAccountLifecycle`, and the other `Doc*.cfg` show one statement each that does
not hold (see below), on the MC module of their component.

Bounds.  `Tokens` bounds the tokens ever made: a request that may need a key
starts only while one is left for it (`RoomForToken`, `Room`), so that no
request is stuck for want of one.  Three refresh tokens let a session rotate
twice, two sessions exist side by side, and two requests race for one token
while a third key is free for each.  `MaxVersion` 3 allows two updates of a row,
one on a stale version.  A lifetime of 0 makes a token expire at the next tick
(the code compares `now > expires_at`, and `now <= expires_at` for one-time
tokens); with `MaxTime` 1 every step of a request happens before, at and after
expiry.  `AccessLifetime` 1 does the same for access tokens, which are refused
at their expiry.  Two requests at a time suffice for the races because requests
share only the rows, the unique index, the log and the pool: a row, an index key
and the pool of one connection have one holder, and whoever comes third waits
like the second.  `MaxArrivals` bounds the requests of a behaviour: three let a
registration race another and both be followed by a verification; four let a
login and a recovery request run before a change and a recovery race.
In `client_metadata` two tokens let a session be rotated once or two exist side
by side, and two revocations of a token race each other and its rotation.
`MaxEvents` lets every method of the entity follow every other.  `MaxLog` 7 is
three full pages of two and one entry more, from lists that begin with less
than a page.  In `migrations` nothing is bounded: a table has rows or not.
Behaviours end, so deadlock is not checked, where arrivals or tokens run out:
`registration`, `recovery`, `request_scope` and `client_metadata`.  It is
checked everywhere else.

Safety of `refresh_sessions`:

* `OneTipPerSession`: two refreshes of one token cannot both succeed.
* `RotationWellFormed`: a committed successor exists, belongs to the same user
  and session, is the successor of one token only, and was made in time.
* `DeliveredPersisted`: clients hold stored tokens only.
* `RefusalsJustified`: conflict, reuse and TokenError are true when they are
  read, although they were decided on older rows.
* `AuditTruthful`: the log tells only what was committed, nothing twice, and a
  session's creation before the revocation of its first token.
* `RevokedRowsFrozen`: nobody writes a revoked row.
* `EndedForGood`: an ended session never has a usable token again.
* `ImplementsSessionChains`: the refinement.

Safety of the accounts:

* `UniqueEmail`, `VerifiedByOneToken`, `RecoveryNeedsVerification`,
  `PasswordSettledUntilVerified` are the promises of `Accounts`, and
  `ImplementsAccounts` says that the committed rows of `AccountLifecycle` keep
  them: every commit is one action of `Accounts` on the rows of that moment.
* `CommitsWhatItDecided`: the rows a request read are still the committed ones
  when it commits, so that a login with the old password does not overtake a
  change, and a recovery token is used once.
* `NotifiedPersisted`: a token that leaves the server is committed.
* `HoldersNeverWait`: a request that others wait for waits for nobody, over
  both tables and the unique index.
* `RefusalsJustified`: each refusal is true when it is read.
* `AuditWithinFacts`: the log tells of no more than happened.

Of the other modules:

* `EventsTellState`, `RequestsMatchStory`: the pulled and pending events of a
  user, replayed, give its state, and requests are made only in the states
  that allow them.  `AcceptedPasswordOpens`: the stripped password that was
  accepted opens the account.  `FailedCallsChangeNothing`.
* `PageIsSnapshot`: a page shows the log of one moment.  `LinksLeadSomewhere`,
  `WalkMissesNothing`: a link leads to a page with entries, and following the
  links to the end shows every entry that was there at the beginning.
* `DifferentClientSuspected`: a committed revocation by another client than the
  one the token was issued to was found suspicious.  `ReportsMatchRevocations`:
  what is reported is a committed revocation by that client, once per token,
  however revocations and rotations race.
* `SchemaMatchesRevision`: the tables are those of `alembic_version` after any
  failure, whatever way led there.  `ServesOnModels`: while the service runs,
  over restarts and failed runs, the tables are those of its models, unless
  somebody has downgraded them by hand and not upgraded since, which nothing
  keeps from a service that is up.  `UpgradesKeepAccounts`: no upgrade loses the
  rows of users or sessions, those inserted during the run included.
* `OneSessionPerUseCase`, `SessionsAreOwn`: the transaction and the repositories
  of a request share one session, and no other request has it.
  `ConnectionsAccounted`: a request holds a connection only inside a
  transaction.  `PoolNeverStarves`: whoever waits for a connection gets one, or
  gives up, even if Redis never answers the others again.

Fairness.  `FairSpec` of `RefreshSessions` and `AccountLifecycle` assumes weak
fairness of the steps a request takes by itself (the event loop resumes a
coroutine whose awaited result is there, and PostgreSQL and Redis answer or
fail, which is an assumption about them: neither client sets a timeout) and
strong fairness of its saves (the waiters for a PostgreSQL row lock
are served in turn, so that a save whose lock is freed again and again is
executed).  `RequestScope` assumes weak fairness of the end of a transaction,
as its statements are answered or its connection breaks, and of taking a
connection that is free.  It assumes nothing of Redis, whose client sets no
timeout (`redis/client.py:8-12`), so a request may stay in `Publish` for ever,
nor of the pool's timeout.  Weak fairness suffices there because `MaxArrivals`
bounds how often others can be faster; that the pool passes over nobody for ever
under endless load is asyncio's and SQLAlchemy's, and not shown.  No fairness is
assumed of failures, crashes, new requests or the clock.

### Where the code and its documentation differ

| configuration | what the code does |
|---|---|
| `DocVerifiedEmail.cfg` (run `doc_verified_email`) | `get_by_email` compares the email as it was sent, the row holds the stripped lower-case one.  A registration with the email of a verified account in other capitals meets the unique index and is a 500, not `UserAlreadyExists` (`register.py:46-47`). |
| `DocRotationAudited.cfg` | A successful refresh publishes no event (`refresh_token.py:92`), although use cases are said to publish after the commit (`src/README.md:76-78`). |
| `DocReuseAudited.cfg` | `RefreshTokenReuseDetected` and `SuspiciousRefreshTokenRevocation` are not `DomainEvent`s; `RedisEventQueue.push` drops them (`event_publisher.py:17`). |
| `DocRevokedReuseDetected.cfg` | A revoked token that has no successor is refused with `TokenError`, not `RefreshTokenReuse` (`src/README.md:27-28`). |
| `DocConflictIs409.cfg` | `ConcurrencyError` is answered 400 or 401, not 409 (`src/README.md:30-31`). |
| `DocChange.cfg` | The new password is compared with the old one before `strip()` and stored after it: a "change" to the same password with a blank added is accepted (`entities/user.py:167-168`). |
| `DocNextPage.cfg` | The next page is probed for one entry; if `deserialize` refuses that entry there is no link, although older entries remain (`events.py:88`). |
| `DocPasswordFailure.cfg` | A password within `validate_password`'s characters and beyond bcrypt's 72 bytes fails with a `ValueError`, not `PasswordValidationError` (`validators/password.py:41`). |
| `DocMatchingMetadata.cfg` | Client metadata is not stored, so every revocation is found suspicious, and published as such, also by the client the token was issued to (`test_revoke_token.py:56-68`). |
| `DocMigrationsApply.cfg` | `5a61177eee13` adds NOT NULL columns without a default: the upgrade of a database with rows fails (`src/README.md:161`). |

## The proofs

All theorems hold for any sets of users, tokens, requests and sessions and any
bounds; the assumptions (`RepositoryAssumption`, `ChainsAssumption`,
`SessionsAssumption`, `AccountsAssumption`, `LifecycleAssumption`,
`UserEntityAssumption`, `ClientAssumption`, `ScopeAssumption`,
`AuditLogAssumption`) only say that the "none" values are not elements, that
numbers are natural, and what the headers of clients and the accounts and
entries of the past are. `FinitenessAssumption` (a process has finitely many
requests and tokens) is used where entries are counted, and so is the
finiteness in `ScopeAssumption`; `EveryPortProvided` and `EveryPortOnce` are
facts about the code's tables that TLC evaluates. Every inductive invariant was
checked by TLC on the runs of its module before it was proved.

* **RepositoryProofs.**  `NoLostUpdate` is not inductive: that the base of a
  writer is the committed row follows from its version only if a version
  identifies a row.  The invariant `IInv` adds that writers hold a draft newer
  than the committed row, that no entity is newer than the row it may replace,
  and that keys in use are known.  Theorems: `TypeCorrect`, `UpdatesNotLost`,
  `VersionsIdentify`, `RowsGrowNewer`.
* **SessionChainsProofs.**  The invariant adds to `OneTip` that a session is
  named after an issued token and that an unrevoked token has no successor.
  Theorems: `SessionsNeverFork`, `SessionsEndForGood`.
* **RefreshSessionsProofs.**  The invariant `IInv` says where each request may
  be for its operation (`StepsMatchOps`); that what it loaded is the committed
  row or one of a smaller version, and unrevoked once it goes on
  (`ReadsNotNewer`); that a token in the making is its own (`NewTokensPrivate`);
  that from the save to the commit it holds the row it decided on
  (`WritesHeld`), and that no row else is locked (`HoldersWrite`).  The actions
  fall into a few kinds (leaving, committing, quiet ones, and the writes), each
  with its lemma.  From it: `RevokedFrozen`; `CommitEffects`, what a commit
  does to the rows; `Implements`, since each commit is then `Open`, `Rotate` or
  `End`; `SessionsKeepOneTip`, which carries `SessionsNeverFork` over through
  the refinement; `StoredSessionsEndForGood`, which does the same for
  `SessionsEndForGood`; `ClientTokensStored`.

  Three more parts of the invariant carry three more theorems.
  `RotationsWellFormed` needs `NewTokensInTime`: a successor in the making was
  made while its predecessor was alive, although it is stored later.  `RefusalsAreTrue` needs that what a request has seen of a spent
  token is final (`SeenFinal`): a revoked row is frozen, and a successor in it
  stays, so a refusal decided on an old row is still true when the client reads
  it.  `AuditIsTruthful` is about the time between the commit and the push:
  `PendingTrue` says that every event that a request has still to push is true
  of the committed rows, told by nobody else and in order, and
  `DeliveredLogged`, `LoginTold` and `SessionsKnown` that the answer, the
  login's event and the session's name go together.
* **AccountLifecycleProofs.**  `CommitsWhatItDecided` is about the commit alone;
  to hold there the invariant `IInv` must follow each request from its first
  SELECT.  `RequestShapes` is what a request knows at each step from its own
  variables: which entities it has loaded, what it decided, what it may have in
  its list of events.  `ReadsNotNewer` says that the committed rows are
  those it read, or have grown from them by what the methods of the entities
  may do.
  `KeysPrivate` says that a generated key is in the hands of one request,
  `WritesHeld` that from the save to the commit its rows are locked over what
  it read, `HoldersWrite` that nobody else holds a lock, `NewEmailsFree` that
  an inserted email is unique among the committed and the uncommitted rows.
  `TokensStored`, `AccessVerified` and `PublishesCommitted` are what answers,
  access tokens and events rest on.  Each holds only with the others: the rows
  that a request has locked are those it read (`WritesHeld`) because its UPDATE
  matched a version and a version identifies a row (`ReadsNotNewer`).
  Theorems: `TypeCorrect`, `Invariant`, `CommitsAreDecided`, `NoDeadlock` (who
  waits for a token's row has its user's row locked, so the holder of the token,
  whose user is the same and saved before, could not hold it), `TokensThatLeaveWork`, `RefusalsAreTrue`; `Refinement`,
  where each commit is matched with one of the six actions of `Accounts` and
  every other step with a stutter; and `AuditIsFactual`.  The last counts:
  `ClaimsBacked` says, for each account and each kind of event, that the
  entries in the log and those still to be published by committed requests
  together are not more than what the tables show; a push moves an event from
  the one to the other, a failed push loses it, and only a commit adds one, with
  the change of the row that backs it.

  The last part carries the theorems of `AccountsProofs` over to the rows that
  concurrent requests commit: `AccountConstants` proves `AccountsAssumption` for
  addresses and words, `FollowsAccounts` is `Refinement` as `AccountsProofs`
  reads it, and `StoredEmailsUnique`, `StoredVerifiedOnce`,
  `StoredRecoveriesVerified` and `StoredPasswordsSettled` follow.  The runs
  check these four on `Accounts` only.
* **RequestScopeProofs.**  `OneSessionPerUseCase` is about a request that has all
  its parts; the invariant is about one that is getting them.
  `NothingForgotten` says that what it does not have yet is still to be got,
  `PartsArePorts` that `get_session` is never asked for by itself, so that it
  is called once per request and before anything that works on the session,
  `FoundSet` that a global which a thread has found set stays so, and
  `OnOwnSession` that whatever it has on a session is on that of its cache.
  `SessionsAreOwn` is inductive with the types, sessions being numbered.
  `HeldInTransaction` and `ConnectionsAddUp` do the counting of the pool.
  Theorems: `TypeCorrect`, `PartsOnOneSession`, `NoSharedSession`,
  `NoConnectionLost`, for any number of requests and any size of the pool.
* **DomainProofs.**  `UserEntity`: every step is quiet or one of five kinds that tell one
  event each (`Kinds`, `StepKinds`), and an event goes to the end of the story
  (`TellsAtTheEnd`), while a pull leaves it as it is (`QuietKeepsStory`).
  `EventsTellState` and `RequestsMatchStory` are inductive, the second with the
  first: the guard `is_email_verified` is what the story says.  `StoredIsGiven`
  is added for `AcceptedPasswordOpens`: the stored hash is of the stripped
  password and within bcrypt's limit.  Theorems: `TypeCorrect`,
  `EventsAreTheState`, `RequestsInOrder`, `AcceptedOpens`,
  `FailuresLeaveNoTrace`, for any words, lengths, limits and stories.

  `ClientMetadata` (`MetadataSpec`): the invariant is `ReportsInv`.
  `NobodyTrusted` says that the policy finds a risk in every client when the
  token comes from a row, so every committed revocation was suspected
  (`RevocationsSuspected`); that is why those by another client are, and why
  those by the same client are too.  A report is about a token that has met its
  end (`ReportsFinal`), which needs that a token that can still be revoked has
  no successor (`UnrevokedIsLast`), and of a revocation under way that the
  version it expects is that of an unrevoked row or gone for ever, and after its
  UPDATE that it alone holds that row (`RevocationsExpect`, `OneHolds`).
  Theorems: `ReportsTypeCorrect`, `EveryRevocationSuspected`,
  `DifferentClientsSuspected`, `ReportsAreOfRevocations`.
* **AccountsProofs.**  The three invariants are inductive together with the type
  invariant (`AccountsInv`).  None is so alone: that a registration does not
  verify an account retroactively needs that tokens belong to accounts, which
  `RecoveryNeedsVerification` says, and `PasswordsSettled` needs it to exclude a
  recovery before the verification.  Theorems: `EmailsUnique`,
  `OneTokenVerifies`, `RecoveriesVerified`, `PasswordsSettled`.
* **AuditLogProofs.**  The first part is about slices: what LRANGE with its
  negative indices, the reversal and the Python slices give, entry by entry.
  `QueuesAgree` follows: for every list, offset and limit `RedisEventQueue`
  returns what the in-memory queue of the tests returns.  `IInv` says that
  entry i of the log is the i-th push and that a reader's items are the page of
  the log as long as LLEN said, a prefix of the present one; `PagesAreSnapshots`
  and `NoEmptyPages` follow.  `WalksMissNothing` adds what a reader has covered
  page by page; it assumes that every entry of the past can be read, without
  which it is false (`DocNextPage.cfg`).

Only model-checked:

* `EveryRequestAnswered` and `PoolNeverStarves`: liveness under fairness is out of
  this prover's reach.
* `Migrations`: the module has no constants and its run visits all of its
  states, so there is nothing that a proof would add.

## Not modelled

Components with status `not_modelled` or `partly` in `PROJECT.json`, with their
reasons.  Within the modelled ones:

* the strings of tokens, hashes and emails (an email is well-formed or not), the
  JSON of events, logging, templates and the layout of answers;
* collisions of `uuid4` and of random tokens;
* access tokens that are invalid for another reason than their expiry: they end
  in the same answer;
* the status codes of the account routes, which are one per route;
* PostgreSQL isolation other than READ COMMITTED, which the engine uses;
* `get_all_by_user` and `delete` of users, which no use case calls (`delete` is
  in `Repository`), and so the cascades, which are only in the schema;
* settings and their validation, Docker health checks, the set-up of clients.
