# PulseForge in TLA+

PulseForge collects telemetry events from services, opens an incident when
failures repeat, and lets a team acknowledge and resolve it. It is a FastAPI
backend over PostgreSQL and a Next.js frontend. These modules model what its
handlers do to shared state, one SQL statement at a time, and TLC and TLAPS
check and prove what a team relies on. Paths below are relative to
`src/backend/app/` unless they start with `src/`.

## 1. The system

Every handler is a synchronous function that FastAPI runs in a thread of its
own, with a database session of its own (`db/session.py`, autoflush off).
PostgreSQL runs at its default level, READ COMMITTED: a SELECT sees what is
committed when it starts and its own transaction's writes; an INSERT or UPDATE
waits for an open transaction that wrote the same row or unique key. So every
two statements of a handler are a place where others may commit.

| Component | State | Operations | What makes it correct |
| --- | --- | --- | --- |
| Event ingestion (`api/v1/events.py`) | `events`, `api_keys.last_used_at` | ingest | a delivery, however often it is repeated, is stored once and answered truthfully |
| Incident detection (`modules/incidents/service.py`) | `incidents`, `incident_events` | evaluate an event | one active incident per service and type; evidence for each; none missed at the threshold |
| Incident handling (`api/v1/incidents.py`) | `incidents`, `audit_logs` | acknowledge, resolve | no state without someone who caused it; resolved stays resolved |
| Authentication sessions (`api/v1/auth.py`) | `users`, `refresh_tokens`, `password_reset_tokens` | register, login, refresh, logout, logout-all, change, forget and reset the password, revoke a session | a token is continued once and a replay ends the sessions; a reset token works once; a bulk revocation ends all it met |
| Membership and roles (`api/v1/members.py`, `organizations.py`, `modules/organizations/permissions.py`) | `organization_members` | create an organization, add, change and remove members | one owner; nobody acts beyond the role in the table |
| API keys (`api/v1/api_keys.py`, `api/dependencies.py`) | `api_keys` | create, rotate, revoke, authenticate | only the owner issues keys; a dead key lets nothing in; every key issued or revoked is on record |
| Services (`api/v1/services.py`) | `services` | create, update, delete by cascade | nothing is left that belongs to a deleted service; a disabled one takes no deliveries |
| Rate limiter (`core/rate_limit.py`) | buckets of one process | check, reset | never more than the limit in a window, up to a thread's stall; no rejection without cause; an honest Retry-After |
| Audit log (`modules/audit_logs/service.py`) | `audit_logs` | record, in the caller's transaction | an entry exists exactly if its change was committed |
| Frontend session (`src/frontend/lib/api.ts`, `src/frontend/app/page.tsx`, `src/frontend/hooks/use-workspace.ts`) | access token, generation and refresh in flight of each tab, the cookie they share | bootstrap, api, refresh, login, logout, logoutAll | a call fails only if the session is over; who signs in stays so, who signs out is out |

The components meet in the database and in few calls: ingestion is entered
through the key's authentication and the rate limiter and calls detection in
its own transaction; every handler that a user calls is entered through the
session's authentication and the role check; most write an audit entry in
their own transaction. There are no queues, no background jobs and no
callbacks. In the browser the tabs share a cookie and nothing else, and what
they have asked for is answered in any order, late or never. What is hard is
therefore concurrency (two requests, two snapshots), stale reads, duplicate
deliveries, retries, lost answers and crashes between the statements of one
transaction. `PROJECT.json` lists each hazard at its line.

## 2. The modules

| Module | What it is |
| --- | --- |
| `Telemetry` | the data both sides share: event, fingerprint, window, severity |
| `IncidentBoard` | the abstract specification: every committed request is one atomic step |
| `IncidentEngine` | ingestion, detection, acknowledge and resolve, one statement per step |
| `MCIncidentEngine` | the instances that TLC checks |
| `IncidentBoard_proofs` | proofs about the board |
| `IncidentEngine_proofs` | the inductive invariant of the handlers, and what rests on it: answers, detection, escalation, audit |
| `IncidentRefinement_proofs` | the handlers implement the board, and keep its promises |
| `SessionBook` | the abstract specification of sessions: logins, each continued by one token at a time; `AuthSessions` and the server of `FrontendSession` both implement it |
| `AuthSessions` | the handlers of `/auth` that write, one statement per step |
| `MCAuthSessions` | the instances that TLC checks |
| `AuthSessions_proofs` | the inductive invariant, the audit log, and that the handlers keep the book |
| `Permissions` | the roles, what each may do, and whom each may manage |
| `Members` | the handlers of `/organizations` and their members that write, one statement per step; EXTENDS `Permissions` |
| `Workspace` | services, API keys and deliveries, composed with `Members`, whose roles they go by |
| `MCWorkspace` | the instance that TLC checks |
| `Members_proofs`, `Workspace_proofs` | their inductive invariants, and that the workspace keeps `Members` |
| `RateLimiter` | the limiter of one process, with the threads that check at once |
| `MCRateLimiter`, `RateLimiter_proofs` | the instance that TLC checks; what the limiter promises, for any policy |
| `FrontendSession` | the tabs of one browser, their cookie, and the server as they see it |
| `MCFrontendSession`, `FrontendSession_proofs` | the instances that TLC checks; the shared refresh, the calls that nothing comes in between of, and the book, for any number of tabs |

### IncidentEngine and the code

An event row is identified by the request that inserts it, an incident by the
request that creates it. `pc[r]` says where the handler of `r` stands:

| Step | Code | From, to |
| --- | --- | --- |
| `Lookup` | SELECT of the stored delivery, `events.py:44` | new, to inserting or known |
| `CommitLastUsed`, `AnswerDuplicate` | commit of `last_used_at`, then `find_incident_id`, `events.py:51-58` | known, answering, duplicate |
| `Flush` | INSERT and UPDATE of `last_used_at`, `events.py:73-92` | inserting, to flushed, or to answering after the unique constraint failed |
| `FindActive` | `service.py:41-49` | flushed, to committing or counting |
| `CountMatching` | `service.py:51-62` | counting, to committing or creating |
| `CreateIncident` | INSERT in a savepoint, `service.py:64-86` | creating, to collecting or beaten |
| `JoinWinner` | `service.py:86-95` | beaten, to committing or failed |
| `CollectMatching` | `service.py:97-110` | collecting, to committing |
| `Commit` | `events.py:95`: links and severity are written by the flush of the commit, since autoflush is off | committing, to accepted |
| `Crash` | the connection is lost: PostgreSQL rolls back | any open transaction, to failed |
| `ReadToAcknowledge`, `CommitAcknowledge` | `incidents.py:53-60`, `60-75` | idle, acknowledging, done or failed |
| `ReadToResolve`, `CommitResolve` | `incidents.py:85-87`, `87-103` | idle, resolving, done |

Three guards stand for PostgreSQL's waits. `KeyFree`: the flush writes
`last_used_at`, so it locks the row of the key until the transaction ends, and
deliveries under one key go one after the other from there on. The guard on
`SameDelivery` in `Flush`: an insert waits for an uncommitted equal key. The
guard of `CreateIncident`, and the one on `Rivals` in `CommitAcknowledge`: so
does a write that meets the partial unique index `unique_active_incident`. A
waiting flush does not hold the row of its key in the model, so a delivery
under the same key may overtake it: the model allows more than the database.

Left out: message, metadata and trace identifiers, which no decision looks at;
the key's authentication and the rate limit, which come before `Lookup`
(`Workspace` and `RateLimiter` have them); the user's role, which comes before
`Read`; the deletion of services, which is in `Workspace`. `strip` and
`normalize` are constants, functions from the client's spellings to what the
code stores, so redeliveries in another spelling are redeliveries.

### IncidentBoard

The board says what a team may rely on without knowing the handlers: an event
is accepted in one step, with no incident, filed under one of its fingerprint,
or opening one with its evidence; an incident is acknowledged or resolved in
one step. It is weak where the code is weak: a failure may be accepted without
an incident at the threshold, it may be filed under an incident resolved
meanwhile, and a resolved incident may be acknowledged. `Board` in
`IncidentEngine` maps the committed rows to it and hides open transactions.

### AuthSessions and the code

One account, with its sessions, its reset tokens and the audit entries of its
credentials. Statements of different accounts meet in no row and no guard, so
more accounts are more copies of the module. A row is named after the request
that inserts it, and appears when that request commits. All lines are of
`api/v1/auth.py` unless another file is named.

| Step | Code | From, to |
| --- | --- | --- |
| `Send` | a client sends what it can: tokens it was given, whatever became of them | idle, sent |
| `Register` | INSERT, commit, unique e-mail, 148-168 | sent, to done or refused |
| `CheckPassword`, `issue_session` | SELECT and verification, 186-197; INSERT and commit, 202-203 | sent, issuing, done; or refused, with its audit entry |
| `LockToken` | SELECT FOR UPDATE of a refresh or a logout, and the checks on the row, 224-241, 255-264 | sent, to rotating, replayed, expiring, closing or done |
| `Rotate` | the old token revoked and its successor inserted, 242-246 | rotating, done |
| `CloseSession` | UPDATE of one session, for an expired token, a logout, or a revocation, 238-241, 261-262, 424-426 | expiring or closing, to refused or done |
| `LoadUser`, `get_current_user` | the user, then the session behind the access token, `api/dependencies.py`; the checks of change-password on the user read, 278-287 | sent, loaded, and on |
| `ReadSession` | the session to revoke, read without a lock | choosing, to closing or done |
| `LockReset` | SELECT FOR UPDATE of a reset token, 348-366 | sent, to surveying or refused |
| `Survey`, `LockRow`, `Sweep` | `revoke_user_sessions`, 108-113: snapshot, row after row, then the commit with the new password, the used token and the audit entries | replayed or surveying, sweeping, done or refused |
| `SurveyResets`, `LockRow`, `ReplaceResets` | `forgot_password`, 304-327: the same for reset tokens, then the new one | sent, withdrawing, done |
| `Crash`, `BreakDeadlock` | the rollback of `db/session.py`; PostgreSQL's choice of a victim | to failed |
| `Expire` | `expires_at` is reached | |

`held` is the set of rows an open transaction has locked, and `Free` is the
wait of SELECT FOR UPDATE and of UPDATE. A bulk UPDATE under READ COMMITTED
meets the rows committed when it starts and no others: `sweep` is that
snapshot, kept after the request as history. When it waited for a row it goes
by what the other transaction committed, and since revoked rows stay revoked
it makes no difference whether it then writes the row or skips it. The last
statement of a handler and its commit are one step where no other transaction
can tell: `autoflush` is off, so writes to loaded objects happen in the
commit. `origin` is history too: the login a session descends from.

Left out: `last_used_at`, IP address and user agent, which no decision looks
at; the rate limit, which comes first; `is_active`, which no operation
changes; the organizations among which an audit entry is repeated; the expiry
of the access token itself, whose session is looked up at every request.

`SessionBook` is what a user may rely on: `SignIn` opens a login, `Rotate`
replaces its token by one never issued before, `End` ends any set of logins,
for ever. `Book` maps to it the committed rows, and to each login its live
token (`CurrentToken`). Where the code is weak so is the book: it does not say
that `End` ends every login.

### Members, Workspace and the code

`Members` has `create_organization` (`api/v1/organizations.py:15`), `add_member`,
`update_member_role` and `remove_member` (`api/v1/members.py`), and `Workspace`
the handlers of `api/v1/services.py` and `api/v1/api_keys.py` that write and
`get_ingestion_api_key` (`api/dependencies.py:69`), all on tables they share.
None of them locks what it reads, so the roles and rows that a write relies on
may be stale:

| Step | Code | Read, then relied on |
| --- | --- | --- |
| `require_permission` | SELECT of the user's membership and its check, `permissions.py:13` | the actor's role |
| `select_existing`, `add_member` | the friendly check, then the INSERT, which the unique constraint decides, `members.py:70-117` | the role to be given |
| `get_target_member` | SELECT of the row and the checks, `members.py:33-46`; the user's own row is in the identity map and keeps the role read first | the target's role |
| `update_member_role`, `remove_member` | the flush of audit entry and UPDATE, or the DELETE, with the commit | both roles |
| `get_tenant_resource`, `check_role` | the row, joined with the membership, then the role: two SELECTs | service or key |
| `create_service`, `update_service`, `delete_service` | INSERT, UPDATE of the fields that are set and differ, DELETE with its cascade | the service |
| `create_service_api_key`, `revoke_api_key`, `select_service`, `rotate_api_key` | `api_keys.py`; a rotation reads the service once more, then writes old key, new key and entry in one flush | the key, the service |
| `select_key`, `get_ingestion_api_key`, `ingest_event` | key, then service and all checks, then the flush of the delivery | the key, the service |
| `Expire` | `expires_at` is reached; a rotated key has that of its origin (`chain`) | |

SQLAlchemy writes only the columns of a loaded row that changed, raises when an
UPDATE meets no row and is content when a DELETE does; the foreign keys refuse
the child of a row that is gone. These are the three ways a write may find that
others came first, and each is a branch of its action. `seen` and `row` are what
a handler has read. `given`, `by` and `barred` are history: the first role of a
member, who gave the present one, and what was dead when a delivery was sent.
`RevocationIsFinal` is about that moment: a delivery that was under way when its
key was revoked may still be stored, and the code checks nothing again. A crash
between two statements writes nothing, so that it is the same as a request that
stops; there is no action for it.

Left out: GET handlers; names, hashes and prefixes of keys; the fields of a
service that no decision looks at (its slug and status are kept); the audit
entries of services and organizations; users are registered throughout.

### RateLimiter and the code

`check` (`core/rate_limit.py:47-61`) reads the clock (`ReadClock`), then takes the
lock; the section under it is one step, with the removal of idle buckets at
every `Period`-th check (1 000 in the code, line 52) and the removal of what is out of the
window. `Tick` moves the clock, and keeps no thread between clock and lock for
longer than `Patience`: the code bounds this by nothing, and so every property
is stated up to that bound. A second has two ticks, so that the rounding up of
`Retry-After` is seen. `reset` starts the history anew. `admitted` and
`rejected` are history. The functions that make keys from addresses and
identities are left out, as a key is a constant here; so are several worker
processes, whose limiters share nothing and each keep the promise for
themselves.

### FrontendSession and the code

Each tab has an instance of `lib/api.ts`: `accessToken`, `sessionGeneration`,
`refreshInFlight`. JavaScript runs a tab up to its next await, so a step is the
code between two awaits, and everything the tab waits for may come in between.
`jar` is the refresh cookie that the browser keeps for all of them. A request
takes token and cookie when it starts (`Start`, `refreshSession`), takes effect at
the server (`ServeCall`, `ServeRefresh`: rotation, replay, revocation as
`AuthSessions` has them, in one step), and its answer arrives (`Succeed`, `Reuse`,
`Reject`, `ArriveRefresh`, `ArriveLogin`, `ArriveLogout`), with the rest of its body
read after another await (`ReadRefresh`, `ReadLogin`). Every request may be lost
before or after it took effect (`LoseCall`, `LoseRefresh`), a busy page may be
reloaded (`Reload`), a token may expire, a session may be ended from elsewhere.
A request that was sent and then given up, by a loss or a reload, cannot be taken
back: it may reach the server at any later time, and nobody reads the answer
(`ServeLateCall`, `ServeLateRefresh`; `GiveUpCalls` and `GiveUpRefreshes` keep those
that still matter). A late refresh rotates the cookie away, a late login opens a
session nobody has.

Of the functions that a call runs, `bootstrap` is what starts a page, `api` what is
asked for beside it while it loads, `dashboard` what the page that is shown asks for.
They differ in what the page does with a 401 (`Reject`): `api` itself clears the tab
only if the generation is still that of the call; bootstrap and `loadDashboard` clear it
in any case and show the form. After a bootstrap that was lost (screen `retry`) the form
offers Retry connection and stays usable, so that a bootstrap and a login of one tab may
be under way together.

| Action | Code, in `lib/api.ts` |
| --- | --- |
| `Reuse`, `refreshSession` | the first 401 of a call: another token is there, or the shared refresh, 130-142, 114-121 |
| `Clears`, `Reject` | the call fails; api clears the tab if it is still about its session, 144-149; bootstrap and the dashboard clear it in any case, `app/page.tsx:40`, `60-63`, `hooks/use-workspace.ts:36` |
| `ArriveRefresh`, `ReadRefresh`, `LoseRefresh` | 94-112 with its two comparisons of the generation, before the body is read and in the error path |
| `ArriveLogin`, `ReadLogin` | 154-165 |
| `ArriveLogout` | 181-188 |
| `Allowed` | what `app/page.tsx` shows, and so lets its user do, 76-78, 145 |
| `ServeLateCall`, `ServeLateRefresh` | the requests of 97, 129, 156 and 183 after the page has given them up |

`undisturbed` is history: the calls that nothing came in between of. What counts
as coming in between is written next to the steps (`Disturb`, `SignChange`,
`Quiet`): a request or an answer lost, a request that arrives late, a session ended
elsewhere, a refresh of another tab, a sign-in or sign-out that was open when the call
started or is asked for after it, a token that expires too late for the call to ask for
another. Calls of api that are open when a user signs in are not among these. The
properties are about these calls, since about
the others the code promises nothing. That an expiry counts was found by letting
all tokens expire: `api` repeats a call once, so a call whose
new token expires before the repetition is answered fails with 401 and clears the
tab, whoever has signed in there. `Expire` therefore disturbs such late calls, and
the login of their tab with them.

`LoginHolds` has one exception, which `Reject` makes (`undone`): a 401 of a call from
before the sign-in that bootstrap or the dashboard gets to see clears the tab, since
`page.tsx:40` and `60-63` do not look at the generation. Retry connection makes it easy
to reach: the bootstrap is repeated, the user signs in meanwhile, and is signed out when
its answer arrives. The code does go wrong there; no text in the repository promises
otherwise, so no run states it as a violation. What `LoginHolds` shows is that api's
check of the generation, and the two comparisons of the refresh, keep all other late
answers from doing the same.

`Book` maps the sessions of the server to `SessionBook`: `issued` are the sessions
there have been, `current` is the live token of each login. The server of this
module takes one step to a request where `AuthSessions` takes several; that both
implement the same book says that they agree on what happens to a login and its tokens.
`changePassword` is `logoutAll` with a body, and `register` is followed by a login;
neither has an action of its own.

## 3. What the runs show

| Run | Instance | Shows |
| --- | --- | --- |
| `IngestRaces` | 4 deliveries, 2 keys, 5 payloads, threshold 2, window 1 | `OneEventPerDelivery`, `IncidentHasEvidence`, `LinksAgree`, `AnswersAreTrue`, `BoardSpec` |
| `IncidentLifecycle` | 3 deliveries, 2 clicks, 2 keys, threshold 1 | `TypeOK`, `OneActivePerFingerprint`, `CriticalEscalates`, `AuditAccountsForIncidents`, `BoardSpec` |
| `IncidentDetection` | 3 deliveries, 3 keys of 2 services, threshold 2 | `ThresholdDetected`, and the liveness property `EveryDeliveryEnds` |
| `ParallelKeys` | 2 deliveries, 2 keys | violates `ParallelFailuresOpenIncident` |
| `AcknowledgeResolved` | 1 delivery, 2 clicks | violates `ResolvedStaysResolved` |
| `SessionRotation` | 3 requests, 2 devices | `OneLivePerLogin`, `ReplayEndsSuccessor`, `BulkUpdatesReach`, `BookSpec`, and the liveness property `EveryRequestEnds` |
| `SessionCredentials` | 3 requests, 1 device and 1 reset token that may expire, 2 passwords, every operation | `TypeOK`, `ResetTokenSingleUse`, `AuditAccountsForPasswords` |
| `SessionLogoutAll` | 2 requests, 1 device | violates `LogoutAllRevokesEverySession` |
| `SessionOldPassword` | 2 requests, 1 device, 2 passwords | violates `SessionsHavePassword` |
| `Workspace` | 4 users, 2 organizations, 3 members, 1 service, 1 key; 2 requests about members and 3 about service and key, 3 of them at once | `TypeOK`, `OneOwner`, `AdminsComeFromOwner`, `AuditAccountsForRoles`, `RevocationIsFinal`, `KeysComeFromOwner`, `AuditAccountsForKeys`, `NothingOutlivesService` |
| `RateLimiter` | 2 threads, 2 policies (2 in 3 ticks, 1 in 2), every second check removes idle buckets, a stall of 1, 4 ticks | `TypeOK`, `LimitUpToStall`, `NoSpuriousRejection`, `RetryIsHonest` |
| `FrontendSession` | 2 tabs, 3 calls; a session at the start that may be revoked, a token that may expire, a call that may be given up and still arrive | `TypeOK`, `UndisturbedCallsSucceed`, `LogoutIsComplete`, `LoginHolds`, and the liveness property `EveryCallSettles` |

`IngestRaces` needs four deliveries: two to reach the threshold, one that
races them for the incident, one redelivery. Its payloads lie inside, at the
edge of and outside the window. `IncidentLifecycle` has a threshold of one, so
that incidents exist early and three of them can follow one another while two
clicks act. In the code the threshold is 5 and the window 60 seconds; no
definition depends on their values, and the proofs cover all of them.
The instances of `AuthSessions` have three requests because its hazards need
three: a refresh, a replay of its token, and one that ends sessions meanwhile;
or two bulk updates that lock two devices in opposite orders and a third that
holds one of them. `Offered` bounds what clients of an instance send and
`ShortLived` the rows that may expire: both only make an instance smaller, and
no proof restricts them.
`Workspace` lets three requests run (`Load`), of both kinds together: a
hazard of these handlers needs a reader, a writer that comes in between, and
for the audit log a third that reads what the two left. `Ordered` and `Offered`
hold one call of each kind, by the owner, by an admin and by someone who may
not, and on the row another call creates or deletes.
`RateLimiter` needs a stall, a bucket that is full, one that falls idle with a
reading at its edge, and a rejection that is rounded: four ticks (`Horizon`)
cover a window and one tick beyond. In `FrontendSession` three calls are a
login or a bootstrap, a call that meets the 401, and a logout, a second login or
a call of the other tab between them. `Revocable` holds the session of the start
and `ShortLived` the token of the first call: when it expires, the two others may
share a refresh, or one of them signs out while the other refreshes. `Late` holds the
second call: one before it can make the session that it ends late, one after it can be
disturbed by it. The run has 760 000 states. With more tokens short-lived or more calls
late (`ShortLived = {1, 2}`, `Late = {1, 2, 3}`) TLC has checked the properties on
up to 1.3 million, too, which is too long for a run that is to be repeated; the proofs
depend on neither.
Symmetry is used where no property distinguishes the permuted constants and
none is a liveness property. Deadlock is checked in every run: `Rest` lets
the system stop only when everything sent has been answered.

The four violations are disagreements between the code and what it says of
itself. `ParallelKeys`: two failures sent at once under two keys of a service
reach the threshold and open no incident, because each count misses the
other's uncommitted row; the concurrency test expects exactly one, and passes
on SQLite, which serialises writers. `ThresholdDetected` shows how far the
promise does hold: with a single key the row lock of the key orders the
counts. `AcknowledgeResolved`: the status is checked on a row read without a
lock, so an acknowledgement can reactivate an incident that was resolved after
the read, although the handler says resolved incidents cannot be acknowledged.
`SessionLogoutAll`: a refresh commits while the bulk update of logout-all
waits for its row; the update finds the old row revoked and has never met the
successor, so the device stays signed in, where the test of logout-all
(`src/backend/tests/test_auth_sessions.py:196`) expects every session revoked.
`BulkUpdatesReach` shows what does hold: all it met is ended.
`SessionOldPassword`: a login verifies the old password and issues its session
after a change of the password has ended all sessions, where the test at line
214 of that file expects the old password to open none.

Fairness: a handler that has started keeps running and a lock that stays free
is granted (`WF` on `Handle` and `FinishClick`, and on `Handle` in `AuthSessions`);
nothing is assumed of clients or of crashes, nor of the first statement of a
delivery or a click. Weak fairness is enough and
justified: threads are scheduled by the operating system and PostgreSQL wakes
the waiters of a transaction when it ends. `AuthSessions` adds `WF` of
`BreakDeadlock`: two bulk updates may wait for each other, and PostgreSQL
aborts one of them after `deadlock_timeout`; `EveryRequestEnds` then needs
that no request that has ended keeps a lock, and that no wait is left that is
neither free nor part of a deadlock. `FrontendSession` has `WF` of all `Handle`
together: as long as the server can answer, an answer can arrive or a tab can go on,
one of these happens; since no call takes steps without end, fairness to each call
would add nothing. `fetch` has no timeout in this code, so that it
ends is an assumption about browser and network and not about `api.ts`;
`EveryCallSettles` says that the calls which wait for one another's refresh add
no wait of their own: again and again no call is open. Late requests are under no
fairness, they may never arrive. `Members`, `Workspace` and `RateLimiter` state no fairness:
their handlers wait for nothing but short locks.

## 4. What is proved

For every set of requests, keys, payloads and clicks, and every threshold and
window (`ASSUME`s in `Telemetry` and `IncidentEngine`: the threshold is
positive, there are finitely many requests, `strip` and `normalize` yield
identifiers and types, and `None` is no row):

* `BoardCorrect`: the board keeps `OneActivePerFingerprint`, `LinksAgree` and
  `IncidentHasEvidence`.
* `Invariance`, with `TypeCorrect`, `OneActive` and `OneEvent`: the handlers
  keep an inductive invariant `IInv`. The properties are not inductive alone:
  a commit publishes what the transaction decided several statements earlier,
  so `HandlerInv` says for every open transaction in what respect that is
  still true: what it holds is blank, or an incident of its own fingerprint it
  joined, or one it created, with a batch of visible matching events that
  contains its own and reaches the threshold. Others' commits only add events,
  and nothing ever changes an event or an incident's fingerprint, which is
  why the count cannot shrink before the batch is collected (`MatchingGrows`).
  `OneTransactionPerKey` is the lock.
* `Implements`: `Spec => BoardSpec`. A commit maps to `Accept`, a click's
  commit to `Acknowledge` or `Resolve`, every other step to a stutter.
* `PromisesKept`: `LinksAgree` and `IncidentHasEvidence` hold of the handlers
  because they hold of the board.

For every set of requests, devices, reset tokens and passwords, whatever is
offered and may expire (`ASSUME`s in `AuthSessions`: rows of different kinds
are different and none is `None`, there are finitely many requests):

* `SessionsInvariance`, with `SessionTypes`, `OneLive`, `ReplayEnds`,
  `SweepsReach` and `SingleUse`: the handlers keep an inductive invariant
  `IInv`. What a transaction has read of a row that it holds stays true until
  it ends (`Refreshing`, `Resetting`), because locks are exclusive
  (`LocksExclusive`) and no step changes a row that others hold (`Isolated`,
  the lemma that every step of every handler shares). For `ReplayEnds` the
  snapshot of a replay must have met the successor: `ReplayMeets` says so,
  and needs that a refused token was revoked by a commit that came before the
  snapshot. For `OneLive`: a successor appears in the step that revokes the
  token it came from, and that token was live, since its row was held.
* `KeepsTheBook`: `Spec => BookSpec`. `issue_session` maps to `SignIn`,
  `Rotate` to `Rotate`, `CloseSession` and `Sweep` to `End` of the logins they
  end, every other step to a stutter (`SessionEffect` has the cases).

* `PasswordsLogged`: `AuditAccountsForPasswords`, entry by entry (`Logged`): only a
  check of the password refuses a login, and only the commit of a sweep ends a
  change of the password (`Enters`).

Of the incidents, from their `IInv`:

* `TrueAnswers`: a delivery that was found stored stays stored (`StepPersists`),
  and an answer names the incident of a link that is there when it is given;
  links stay.
* `Escalation`: the commit of a critical event writes `SEV_1`, and no later write
  lowers it: the handlers of clicks write the columns they change and no others.
* `Detection`: `ThresholdDetected`. The count of a failure is taken several
  statements before its commit; `FewKept` says that it stays below the threshold
  until then, because whoever could add to it needs the lock of the same key
  (`MatchingStays`).
* `LogIsComplete`: `Audited`, which adds to the property that a click which has
  read an assignee knows that there is one, since assignees are replaced and
  never removed.
* `LinksKept`: `LinksAgree`, from the board.

For every set of users, organizations, members, services, keys and calls
(`ASSUME`s in `Members` and `Workspace`: at the start every organization has its
owner, and nobody else has that role):

* `MembersInvariance`. Roles that were read may be stale, so the invariant says in
  what respect they are not (`Permitted`, `Writing`): who read that he is the owner
  is the owner, and a target that was read as no owner will never be one. Each
  step keeps this of all others because a row never changes its user, its
  organization, or from or to an owner (`Evolves`).
* `LeavesMembers`: `Spec => MembersSpec`, the composition: services, keys and
  deliveries change nothing of the members. `OneOwnerForEver`,
  `AdminsAreTheOwners` and `RolesAreAccountedFor` follow for the workspace.
* `WorkspaceInvariance`, with `TypeCorrectness`, `RevocationHolds`,
  `KeysAreTheOwners`, `KeysAreAccountedFor` and `DeletionIsComplete`: what a
  handler relies on is what no statement changes: the organization of a row, the
  service of a key, who owns an organization, that what is revoked stays so and
  that a row once gone does not return (`RowsStay`).

For every number of threads, every policy, period and stall:

* `LimiterInvariance`, with `TypeCorrectness`, `LimitHolds`, `RejectionsAreDue` and
  `RetriesAreHonest`. The invariant (`Good`) ties a bucket to the history: it is a
  suffix of what was let through (`Held`), what is missing of it is out of the
  window up to a stall (`Forgotten`), and a full bucket binds the rejections since
  (`Binding`). The readings in a bucket are not sorted, so that the proofs speak of
  positions and never of an order.

For any number of tabs and calls, whatever is lost, reloaded or late:

* `FrontendInvariance`, with `TypeCorrectness` and `RefreshesAreShared`: the refresh
  of a tab belongs to a call of the tab that waits for it (`Owned`), and nobody
  waits for one that is over (`NobodyForgotten`).
* `UndisturbedInvariance`, with `CallsSucceed`, `LogoutLeavesNothing` and
  `LoginsHold`. The three properties speak of calls that have ended, so the
  invariant has to say what every answer still under way may do to the tab and to
  the cookie. `Base` says it of all calls: the token that a call may yet bring is in
  use nowhere, and issued exactly if the server has served it (`Fresh`); browser and
  requests hold only what was issued (`Issued`); a login has one live token
  (`OneLive`); no call is of a generation to come (`Generations`); who was denied
  had a token that is no longer good (`Denials`). `Promise` says it of the
  undisturbed ones: nobody else changes the session (`Alone`), and `CallKept`,
  `LoginKept` and `LogoutKept` follow a call, a login and a logout to their end.
  Requests that were given up are part of `Base` (`GivenUp`): what they may yet bring is
  issued by nobody else, so that a late one meets the book as any other does, and
  `CallEffectIs` and `RefreshEffectIs` say once what a request does, late or not.
  Their core is `Kept`, the three ways in which a call is safe: it has the token of
  its tab and one more attempt; the tab has got a good token and the call has one more
  attempt; or it has that good token already. A login that has ended must also vouch
  for the older calls of its tab, since a 401 of one of them that is taken to be about
  the new session would clear it: while the answer of the login is read, each that is
  current has been accepted or asks for the first time with the token of the tab
  (`Asks`), and later it has been accepted or is `Kept` (`Safe`). A step in which
  bootstrap or the dashboard clears the tab takes the login out of `undisturbed`. There
  is one lemma to an action (`ReusePromise`, `SettlePromise`, ...), with what no step
  undoes (`Moves`, `Grows`) stated once.
* `ServerKeepsTheBook`: `Spec => BookSpec`, from `Base`. A login maps to `SignIn`, a
  refresh with a good cookie to `Rotate`, a logout, `logoutAll`, a replay and
  `EndElsewhere` to `End`, and whatever the tabs do to a stutter. `Fresh` gives that a
  token was never issued before, `OneLive` that `current` is one token. With
  `KeepsTheBook` of `AuthSessions`: what is proved of the browser rests on a server
  that does no more than the book the handlers keep.

The assumptions are those of `FrontendSession`: calls are numbered, the session of the
start is no call, and `None` is neither a token nor a record.

Only model-checked: liveness (`EveryDeliveryEnds`, `EveryRequestEnds`,
`EveryCallSettles`), which the prover cannot establish under fairness. Every
invariant, every refinement and every action property that a passing run checks is
proved; `BookSpec` of `FrontendSession` is proved and belongs to no run.

## 5. Not modelled, and what is left

* Pages and components of the frontend, apart from what they let the user call:
  they show a copy of what the API answers.
* Configuration, middleware, error bodies, the health probe, migrations, the demo
  script and containers: they keep no state that two requests share.
* The connection pool and its timeouts: no code handles them.
* The audit entries that no property is about (`PROJECT.json`, component Audit log).
* Hazards without a property have a note in `PROJECT.json`: failures that arrive in
  reverse order of `occurred_at`, identifiers of spaces, two reset tokens left by
  two forgot-password requests, the 401 that `change-password` gives to a mistyped
  password, and the late 401 in bootstrap or the dashboard. They are what the code
  does, and nothing in the repository says otherwise. An admin whose change of a
  member commits after the owner made that member an admin has no property either;
  there `src/backend/docs/rbac.md:17` does say otherwise, and the race is in `Members`.
* Partly covered, with a note at the hazard: a delivery under way when its key is
  revoked, a successor key issued while the old one is revoked, a refresh that starts
  after a logout, and refreshes of two tabs with one cookie.

What would come next: `FrontendSession` composed with the statements of
`AuthSessions` instead of a server that answers in one step, which the common book
stands in for; several worker processes over one limiter, if the limiter is ever
moved out of the process.
