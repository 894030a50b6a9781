# A verification project for rubrica-back

Rubrica is a service for electronic signatures: documents are uploaded, frozen
into signature requests, signed by authenticated people and kept with an audit
ledger, under a commercial plan per tenant. This directory holds TLA+ models of
the parts of it where correctness depends on more than one actor, the TLC runs
that check them on small instances, and TLAPS proofs for every size.

    SignatureWorkflow        the Core API's workflow: rows, locks, storage
      RequestLifecycle       the abstract life of a signature request
      SignatureWorkflowProofs
    BillingWebhook           the billing account, provider events, checkout
    TenantTeam               the team of a tenant, composed with billing
      BillingHistory         what has happened to the plan, for one invariant
      BillingProofs          proofs about the three
    AuthSession              sessions and password resets of the Auth API
      SessionRegistry        what a session promises to a browser
      AuthSessionProofs
    MfaChallenge             the second factor: tickets, TOTP, recovery codes
      MfaChallengeProofs
    AccountProvisioning      registration and invitation across Auth and Core
      AccountProvisioningProofs
    TenantIdentity           conversion to a business, lifetime access
      TenantIdentityProofs
    SerproAuthorization      signing with a Serpro ID certificate
    WorkspaceRescue          a personal workspace for a suspended person
    ReadAccess               who may read a document or a request
    InMemoryWorkflow         the development backend of the workflow
    ObjectMigration          the operator's tools that move and save objects
      ObjectMigrationProofs
    CrudService              the services of generated domains
    DomainScaffold           the domain generator
    PlatformRules            identifiers, prices, quotes and notices
    ServiceProofs            proofs about SerproAuthorization, WorkspaceRescue,
                             ReadAccess, InMemoryWorkflow, CrudService,
                             DomainScaffold and PlatformRules
    MC*.tla, MC*_*.cfg       instances for TLC, one cfg per run
    PROJECT.json             runs, mutants, map to the source, hazards

Run `tlc -config MCSignatureWorkflow_signing.cfg MCSignatureWorkflow` for a run
and `tlapm SignatureWorkflowProofs.tla` for the proofs of a module.

## 1. The system

Four FastAPI services (Core, Auth, Eventing, Notification) and a worker stub
share one kernel package. Each API runs gunicorn with two uvicorn workers
(`apps/*/dockerfile`); the handlers are `async def` with blocking calls, so a worker
serves one request at a time (the Serpro ID endpoints are plain functions and run
in threads), and the workers run at once against PostgreSQL at READ COMMITTED,
through SQLAlchemy sessions with `autoflush=False` and `expire_on_commit=False`.
Redis keeps sessions, challenges and idempotency records. Binaries live in
`DocumentStorage` (a directory or a Cloudflare R2 bucket), outside every database
transaction.

| component | state it keeps | operations | what makes it correct |
|---|---|---|---|
| signature workflow (`signature_request/database_workflow_service.py`) | `documents`, `document_versions`, `signature_requests`, `signers`, `signatures`, `audit_events` | create/version/delete a document; create/open/cancel a request; add/revoke signers; rotate the link; view, decline, sign; download | a request completes exactly with its last signature; every signature has authority when it commits; artifacts accumulate stamps; the ledger tells the truth; open requests keep their document |
| document storage (`document/storage.py`) | objects by random key | put, get, discard_uncommitted | every committed row has its binary; failures discard only their own object |
| billing allowances (`billing/billing_service.py`) | `billing_accounts` | consume_signature, consume_document | the free allowance is exact and never passed |
| billing webhooks and checkout (same file, `providers/`) | `billing_accounts`, `billing_events`, `billing_payments` | receive_webhook, create_checkout, create_portal, synchronize_account | an event takes effect once; an old event never overwrites a newer one; grace is granted once |
| tenants and teams (`tenant/tenant_service.py`) | `tenants`, `tenant_members` | provision, invite, change roles and teams, reconcile after a downgrade | one tenant per owner; always an active administrator; the team stays within the plan |
| Serpro ID (`serproid_service.py`) | a one-time state in Redis | start and finish an authorization | a state is used once, for the request it was made for, by the signer's own certificate |
| Serpro timestamp (`serpro_timestamp_service.py`) | none | apply a timestamp | no timestamp, no signature and no charge |
| sessions (Auth `sessions/`) | token pairs, session sets, challenge tickets and counters in Redis | login, refresh, logout, logout everywhere, challenges | a rotated token is never accepted again; an ended session never comes back; a ticket is tried a bounded number of times |
| accounts (Auth `accounts/`, `users/`) | `users`, `user_identifiers`, `account_tokens` | register, verify, invite, recover, reset | a token works once; every owner has a workspace; identifiers are valid in both services |
| MFA (Auth `mfa/`) | TOTP secrets and last step, recovery codes | set up, confirm, challenge, regenerate, reset | a recovery code opens one session |
| in-memory workflow (`workflow_service.py`) | dictionaries under one lock | as the database service | it keeps the same life cycle, or the tests that use it show nothing |
| domain generator (`bootstrap/`) | source files, migrations, `routes.py`, `loader.py` | generate a domain, apply its migration | the tree can be imported at any moment; migrations run |
| generated services (`shared_kernel/persistence/crud_service.py`) | a table, an association table, or a dictionary | create, read, update, delete, restore, link | a deleted row stays deleted; a link somebody else made is not lost |
| operator's tools (`toolbox/seeds`, `toolbox/operations`, `backup_export.py`) | the rows and objects of the services | move and back up objects, convert tenants, grant lifetime access, reconcile | nothing is lost when a tool is killed, repeated, or runs beside the API |
| notification delivery (Notification) | idempotency records in Redis | accept a delivery | see section 9 |
| outbox and projections (Eventing), worker | `outbox` | append | see section 9 |

How they interact: the workflow calls billing inside its own transaction (so the
account row is locked until the workflow commits), asks the tenant service who
may act, writes to the storage before it commits, and calls the Notification API
after it has committed. Billing webhooks and team changes run in the same
database and take the same account row lock. The Auth API asks the Core API to
provision a tenant while it registers a user, and the Core API asks the Auth API
for a user while it invites one, each with an HTTP timeout and while its own
transaction is open.

What is hard: transactions that interleave between a check and a commit; rows
that are read without a lock; two resources (database and object store) written
without a common transaction; a crash, or a lost answer, between the two; the
clock, which no lock holds back; locks taken in different orders. PROJECT.json
lists these as hazards with the line where each bites.

## 2. SignatureWorkflow

### State

One tenant. Each table is a variable: `document`, `request` and `signer` are
functions from identifiers to rows (`"absent"` before the insert, since the
identifier is chosen at random), the append-only tables `versions`, `signatures`
and `audit` are sets of rows. `account` is the billing account, `members` the
users for whom `tenant_service.require_role` succeeds, `objects`/`lastKey` the
object store, `mailed` the invitations handed to the Notification API. `tx[w]` is
the call that worker `w` has in flight.

Data are reduced to what the properties tell apart. A PDF is the set of signers
whose stamps it carries; a hash comparison is a comparison of versions; a signing
link is its generation number; expiry is a flag that the clock sets; the plan is
one of `free`, `base`, `business` (any product with business features) and
`lifetime`. The company representative's tenant is the document's own and a
business tenant, the other values being refused before anything is read.

### Actions

A handler that locks its rows, reads and writes them in one go is one action
(`AddSigner`, `CancelRequest`, `RevokeSignerLink`, `View`, `Decline`): the row
lock makes it atomic for everybody who locks the same row, and other sessions see
only its commit. A handler that

* reads a row it does not lock and depends on it later (`create_request`,
  `open_request`),
* waits for a second lock (`delete_document`, `sign`), or
* writes an object before it commits (`create_document`, `add_version`, `sign`),

is a call in `tx[w]`: it begins in one action and commits in another, and every
other worker may step in between. Row locks are not variables: a row is locked
exactly while a call that locked it is in flight, so `DocumentLocked`,
`RequestLocked` and `AccountLocked` are read off `tx`. PostgreSQL's foreign key
check is modelled where it matters: inserting a request takes `FOR KEY SHARE` on
the document and therefore waits for `add_version` and `delete_document`
(`CreateRequestCommit`).

`Fail` is any exception before the commit: the transaction rolls back, and the
`except` branch discards the object, unless the bucket's retention refuses.
`Crash` is the death of the process: the database rolls back, the object stays.
With `LostCommits` a commit may succeed while its caller sees an error. The
clock (`Expire`, `GraceLapses`), the billing module (`ChangePlan`, under the
account's lock) and the tenant module (`ChangeMembership`, under none) act as the
environment. The audit rows that a handler writes with no request (uploads,
deletions of documents) and the `authorization.failed` row, which its own
exception rolls back, are left out.

### What is checked

| run | instance | properties |
|---|---|---|
| `signing` | 2 workers, 1 document, 1 request, 2 users, evidence and Serpro ID modes, a user whose membership changes, lost answers to COMMIT | `TypeOK`, `ChecksStillHold`, `CompletionIsExact`, `ArtifactsAccumulate`, `LedgerMatchesRows`, `SignedUnderAuthority`, `ImplementsLifecycle` |
| `documents` | 2 workers, 1 request on a document with 2 versions, 2 link rotations, free and business plans, 3 objects | `OpenRequestHasDocument`, `StorageMatchesRows`, `InvitationsFollowCommit` |
| `progress` | 2 workers, 2 requests, 3 objects, free plan with one signature, `FairSpec` | `FreeAllowanceIsExact`, `CallsEnd` |
| `download` | as `signing`; expected violation | `DownloadShowsEveryStamp` |

Several checked properties are conjunctions of named parts, each with its comment
in the module (`StorageMatchesRows` is `RecordsAreStored` and `NoObjectLeaks`).

`ImplementsLifecycle` says that, whatever is in flight, what another session can
read of a request moves only by the atomic steps of `RequestLifecycle`: created
as a draft, given signers while a draft, opened with at least one, signed by
expected signers one at a time and completed in the step of the last one,
cancelled alone or with its document, and never moved again.

The bounds. Two workers are enough for every conflict the code can have, since no
handler involves more than one other party per lock; the deadlock run needs two
requests so that two calls can hold different rows. Two signers make "the last
but one" and "the last" differ. Two versions make a version that is no longer
current. `MaxKey` bounds uploads, `MaxLink` rotations; when keys run out the
object store refuses, which is a path of the code. Deadlock checking is off
because a bounded instance ends; `CallsEnd` looks for real deadlocks instead.

Fairness. `FairSpec` assumes strong fairness of `Advance(w)`: a worker process
that is not killed is scheduled, and PostgreSQL queues lock requests, so a call
that can get its lock again and again gets it. No fairness is assumed of new
calls, of the clock, or of other modules. Crashes and failures are allowed at any
time and not required.

### What disagrees

* `signed_document` orders by `SignatureEntity.id desc`; the ids are uuid4, so the
  row it picks may be any signature of the request and its artifact may lack
  later stamps (`download`).
* `open_request` does not lock the document and `add_version` does not lock the
  requests: if their transactions overlap, an open request ends up on a document
  with a newer version, which the refusal in `add_version` is there to exclude. No
  run is kept for it. Signing still uses the frozen version, which
  `SignedUnderAuthority` and `OpenRequestHasDocument` confirm.
* the `except` branches cannot tell a failed commit from one whose answer was
  lost, and in the second case delete the binary of a committed row. The rows
  themselves stay right (`signing` runs with `LostCommits = TRUE`), but
  `StorageMatchesRows` does not hold then, and `documents` sets it to `FALSE`.

Observations that are not violations: a declined signer may still sign (sign does
not look at it), a declined or revoked signer keeps a request open until it is
cancelled, and a draft may be created for a document that is being deleted (it
can never be opened, `OpenRequestHasDocument`).

## 3. BillingWebhook and TenantTeam

### State

`BillingWebhook` has one tenant and the Stripe account that pays for it. `account`
is the row of `billing_accounts` with the columns access depends on: status,
product, subscription, customer, end of the grace period, stamp of the last event
applied, file counter and usage period. `ledger` is the status column of
`billing_events`, `payments` that of `billing_payments`, `member` the rows of
`tenant_members`. `tx[w]` is the call of worker `w`, with the copy of the account
that its SQLAlchemy session holds (`seen`). The provider is the environment:
`subs` (its subscriptions), `sessions` (checkout pages), `customers`, `events` (what
it has emitted, with a creation time that several events may share) and `acked`
(events answered with 2xx, which it does not send again).

Amounts, currencies, dates that are only displayed, e-mails and the business tax
identity are left out; what remains of the identity is that fetching it may fail
with 503 (`IdentityUnavailable`). Time is a small counter.

### Actions

`receive_webhook` is three transactions with reads before them, and the model
keeps each of these seams:

| action | code |
|---|---|
| `ReceiveDuplicate`, `Receive` | the status of the event and the tenant are read; an invoice names no tenant and is looked up by customer |
| `Record`, `RecordDuplicate` | first commit: the event is `received`; a concurrent delivery meets the unique constraint and answers as a duplicate |
| `Process`, `ProcessDuplicate` | second transaction: the event row is locked and the account read, without a lock |
| `Apply` | `_apply_event` locks the account, changes the session's copy, reconciles the team, settles the event, commits and answers |
| `ApplyFails`, `MarkFailed` | the exception, and the third transaction, which writes `failed` |
| `Crash` | the process dies anywhere in between |

Two facts about SQLAlchemy decide what `Apply` does. `SELECT ... FOR UPDATE` on a
row the session already holds takes the lock but does not refresh the object, so
`Applied` works on `seen`, not on `account`. And `UPDATE` writes only the columns
whose values changed, so `Merged` keeps what other transactions wrote to the
others: this is why an upload counted in between survives a delivery that does not
touch the counter.

`create_checkout` and `synchronize_account` call Stripe between their reads and
their commits and are two actions each; the second holds the account's lock.
`ConsumeDocument` is the upload's file counter. `Pay`, `Renew`, `Recover` and `Move`
are what a customer and Stripe do, each emitting the events Stripe documents for
it; they are external to the repository and modelled from the events the handler
accepts. A subscription has any status that `_subscription_status` tells apart
(`ProviderStatus`): it may start on trial or with its first payment open, and end in a
status the code does not know; the constant `Statuses` says which of them an instance
goes through.

`TenantTeam` extends this with the handlers that change the team. Additions and
invitations ask the Auth API while they hold the account's lock (two actions);
`update_team` and `update_member_role` are atomic under it; `team`, the page that
lists the members, reads the plan, then the members, and suspends members without
any lock (three actions). `Reconciled` runs inside the webhook's transaction.

`BillingHistory` adds two history variables that no handler reads. `overtaken`: a
delivery has committed changes it judged from an old copy of the plan's columns.
`overruled`: an invoice or a checkout has changed the plan after the last subscription
event that was processed. `PlanIsCurrent` says that nothing else keeps a settled
account from showing its newest subscription event.

### What is checked

| run | instance | properties |
|---|---|---|
| `settle` | 1 worker, 3 subscription events of a business plan, 5 statuses, crashes, failures, lost answers, `FairSpec` | `AccountIsCurrent`, `EventsSettle` |
| `grace` | 2 workers, 3 invoice events, 3 instants, 1 file | `PaymentsAreRecorded`, `GraceIsNotExtended`, `UsageResetsOncePerPeriod` |
| `seats` | 2 workers, 3 members, 2 subscription events, `HistorySpec` | `PlanIsCurrent`, `SeatsAreWithinPlan` |

Two workers are what the deployment has, and what the properties of `grace` and
`seats` are about. Where a delivery may really do harm because its session's copy is
out of date, the property says so: `CommitsOldCopy` names the call that commits and the
columns whose copy is old, at that very step, and everything else stays forbidden. So

* `GraceIsNotExtended` lets a delivery open a running grace period again only if it read
  the account before the failure, or the deadline, was written;
* `UsageResetsOncePerPeriod` lets the file counter go back only when a later period
  begins, and lets a later period begin only at zero, unless the period, or the counter,
  has moved since the delivery's read. An upload that commits between a delivery's read
  and its lock, which the run reaches, is this second case;
* `SeatsAreWithinPlan` says that a change to a single seat leaves one active member, and
  names its two exceptions: a copy of another plan (`CopyShowsPlan`) and a team without
  an active administrator, which `reconcile_single_member_plan` leaves alone;
* `PlanIsCurrent` has its two causes from `BillingHistory`.

`settle` has one worker on purpose: it shows that the handler is exactly right, without
any exception, when deliveries of one tenant do not overlap, whatever their order,
their repetition, and the point where a delivery fails or its process dies; and
`EventsSettle` is false with two (below).

The bounds. Three events give an older, a newer and one of equal stamp, and three
invoice events a payment, a failed renewal and its recovery or a second failure; two
deliveries overlap as soon as there are two events. Three instants let a grace
period of one day begin, run and end, and a second and a third billing period follow the
first. Three members exceed the two seats the instance gives the intermediate plan. Two
customers and three events are too many states for one run: `grace` has one customer, so
that the exception of `PaymentsAreRecorded` is used only by the theorem
`PaymentsRecorded`. The same holds for `overruled`, since `seats` has subscription
events only, and for the statuses that the runs leave out (`trialing`, `incomplete`,
`incomplete_expired`, others): the theorems cover them.

Fairness. `FairSpec` assumes that Stripe sends an event again until it is answered,
that a call that can go on does, that an operation which can succeed again and
again at last does (a database that stays broken settles nothing), and that
gunicorn ends a worker that hangs. No fairness is assumed of the provider's
changes, the clock, checkouts or synchronisations.

### What disagrees

With two workers the model reaches the following states, which the properties
except by name or which no run is about:

* The staleness check compares with the stamp in the session's copy, read before
  the lock, so of two events in flight the older can be applied last (`Apply`;
  `overtaken`).
* In the same way the invoices of two renewals in flight may both begin a period later
  than the one in their copies: the older, committed last, resets the file counter again
  and sets the period back. And two failed invoices may both open the grace period, the
  later commit setting the deadline anew (`CommitsOldCopy`).
* The team page may suspend the second of two administrators while that one's
  `update_team` suspends the first, and the tenant has no active administrator left
  (`ReadTeamCommit`).
* Two deliveries of one event: the one that fails writes `failed` over the
  `processed` of the other (`MarkFailed`), and the event is applied again when it is
  sent again.
* A second delivery is answered as a duplicate while the first is in flight
  (`RecordDuplicate`); if the first then fails, nothing sends the event again.
* `invoice.payment_failed` is applied whatever its age: one that arrives after
  `unpaid` or `canceled` opens a new grace period (`InvoiceFailed`).
* Two concurrent checkouts create two customers of which the account keeps one
  (`CheckoutCommit`); an invoice of the other is marked as processed with no
  payment recorded (`Apply` with `known` false).
* An upload that commits while `invoice.paid` of a new period is being applied is counted
  in the new period when the delivery's copy shows a counter of 0, since the UPDATE then
  leaves the column alone; and it is lost when another delivery has already begun that
  period, since the reset writes 0 from a copy older than the upload.
* A delivery whose session copied the account before another one changed its plan has
  its copy judged by `reconcile_single_member_plan`, whose limit may be that of the
  old plan: two members stay active on a plan of one. It takes a row that became
  `past_due` meanwhile and a grace period that ends while an addition is under way, so
  an event and a status more than the run `seats` has (two workers, two members, three
  events and `MaxTime = 2` show it). `SingleSeatIsEnforced` is about the calls whose copy
  shows the plan of the row.
* A late `invoice.payment_failed` also leaves the account `past_due` though the
  newest event says otherwise: an invoice or a checkout may always change what the last
  subscription event said (`overruled`).

## 4. The Auth API: AuthSession, SessionRegistry, MfaChallenge

### State and actions

`AuthSession` has one account. Redis is one variable per kind of key: `session`
(`session:<id>`, with the token pair it names and the `token_version` it was given),
`access`, `refresh` and `used` (the pairs that have such a key), `index`
(`user:<id>:sessions`). `version` is the `token_version` of the users row, `reset`
the password reset tokens. A pair is the access and the refresh token minted
together, numbered in the order of minting; `owner` says for which session.
`known` holds the pairs some response carried, since a client can only present
those.

An action is one Redis command, one Lua script, or one database transaction, so a
handler is several: `login` is `Login`, `StoreSession`, `ListSession`; `refresh`
reads (`Refresh`) and then rotates by script (`Rotate`) or revokes (`Revoke`);
`logout_all` reads the set (`LogoutAll`), loads and revokes one session at a time
(`LoadNext`, `Revoke`) and deletes the set (`FinishLogoutAll`). `ResetPassword`
locks its token and `CommitReset` writes. A key may reach its time to live
(`Expire`) and a worker may die between any two commands (`Crash`).

`MfaChallenge` is what stands between the password and the session: tickets and
their attempt counters in Redis, the users row and the recovery codes in
PostgreSQL. A batch of eight codes is one code, since what matters is which batch
it is of. `Challenge` counts first, `ReadTicket` loads, `Verify` locks the row,
checks the code and deletes the ticket, `CommitChallenge` marks the code. `Setup`,
`ReadForCodes` and `WriteCodes` are setup, confirm and regenerate, which do not lock
the row when they read it.

### What is checked

| run | instance | properties |
|---|---|---|
| `sessions` | 2 workers, 2 sessions, 2 reset tokens, 4 pairs | `SessionsAreSound`, `ResetHoldsItsToken`, `ImplementsRegistry` |
| `challenge` | 2 workers, 2 tickets, limit 2, 2 batches, 2 steps | `AttemptsAreBounded`, `RecoveryCodeOpensOneSession` |

`ImplementsRegistry` is the refinement of `SessionRegistry`: whatever overlaps, a
session that ended is never live again and a pair is replaced once, by a fresh one.
It is what the script's second look at the session is for: without it a refresh
brings a revoked session back. `SessionsAreSound` adds that `logout_all` ends what
it found also when a refresh rotates a session after `logout_all` has loaded its old
keys. `ResetHoldsItsToken` is the reset's row lock; `AttemptsAreBounded` that counting
first and deleting both keys in one command keeps the limit, however requests for
one ticket overlap; `RecoveryCodeOpensOneSession` that a code works once also when
it is sent twice at once with two tickets.

The bounds. Four pairs allow a login, a rotation of it, a second login and a
rotation of that, which every overlap of two handlers needs; the attempt limit is
2 in place of 5, since only "below", "at" and "beyond" differ. The counters of
failed logins by address are left out.

### What disagrees

The models reach these states, for which no run is kept:

* A login that lists its session after `logout_all` read the set survives, and its
  entry is deleted with the rest, so the next `logout_all` does not see it either.
* Two resets with two tokens both write the version they read plus one, so an
  increment is lost; every older session is refused all the same.
* Two recovery requests at once both leave a live token.
* One ticket can open two sessions, when two requests read it before either deletes
  it and prove it with different codes. Each session still costs a valid code.
* `regenerate_recovery_codes` writes back the TOTP step it read without a lock: a
  step used by a challenge in between can be used again.
* Two confirmations or regenerations at once leave two batches of codes.

## 5. Across the services: AccountProvisioning

### State and actions

The Auth API has `users`, `documents` (`user_identifiers`) and `token`
(`account_tokens`), the Core API `members` (memberships of tenants that were
provisioned, created, or that invite). `calls` and `invites` are HTTP requests that
nobody serves yet: a handler blocks its worker, so one that waits for the
other service serves nobody, and a request that its caller has given up on may
still be served. `inbox` holds the tokens whose mail was accepted.

`Register`, `CallCore`, `MailLink`, `CommitRegister` is a registration, in one
transaction that is open during both calls; `CallTimeout` is its HTTP timeout.
`AskForUser`, `AuthInvite`, `CommitLink`, `MailAfter`, `JoinTeam` is an invitation,
which commits before it mails and answers the Core API after that. `Provision` is
`provision_owner`. `ListMissing`, `ProvisionMissing` and `ReconcileMembershipUuids` are the
operator's commands. E-mail and document are unique: an insert waits for the
transaction that holds the key.

### What is checked

`accounts` (2 e-mails, 1 document, 2 Auth workers, 1 Core worker, 2 user ids, 2
tokens, `FairSpec`) checks

* `ServicesAgree`: rows are well formed; every account that registered administers a
  workspace under its own id; a team member's row names the account that has the
  e-mail. No transaction spans the two databases, so this rests on the order of
  the calls and the commits;
* `RequestsEnd`: the services cannot wait for each other for ever.

One Core worker and two Auth workers let every worker of both services wait at
once. Fairness: a request that runs is run on (the process is scheduled, and
`httpx` ends every wait); nothing is assumed of new requests or of the service of
waiting ones, so it is the timeout alone that makes `RequestsEnd` true.

### What disagrees

`docs/MVP_TENANT_BILLING_EMAIL_FLOW.md:21` calls provisioning idempotent by the
owner's e-mail. The lookup goes by the user's id, which the next attempt draws
anew: if a registration times out and the Core API still provisions, the second
registration gets a second workspace and the first stays without an account. The
activation mail of a registration that then rolls back names a token that does not
exist. Two first registrations of one e-mail are serialised by its unique index.

## 6. TenantIdentity and WorkspaceRescue

`TenantIdentity` has the rows of `tenants` and `billing_accounts` that carry a legal
identity, and transactions that lock them one by one in the order of their code
(`LockOrder`; the memberships that the migration also locks nobody else here asks for):
the administrator's `convert_to_business` and the operator's
`migrate_business_tenant` lock the tenant, a billing event the account and then the
tenant, the lifetime command the tenant and then the account. `DeadlockDetected` is
PostgreSQL's. `tenants` (2 tenants, 2 CNPJs, 2 workers, 3 transactions, `FairSpec`)
checks

* `BusinessKeepsCnpj`: a business stays one, under the CNPJ it was converted with;
* `IdentityIsAudited`: a tenant is a business exactly if it has a CNPJ, the audit
  trail has one conversion for it, and the lifetime grants add up to the flag;
* `TransactionsEnd`: each transaction ends in spite of the opposite lock orders.
  Fairness is that a transaction which can go on does; the detection of deadlocks
  is needed, and without it the run fails.

Three transactions let two overlap after a first has changed something.

`WorkspaceRescue` is `create_personal_after_suspension` against administrators who
suspend, reactivate and add seats. `RescueIsForTheSuspended` (run `platform`) says that
a workspace is opened only while every membership that the call found is suspended.

What disagrees: two tenants that convert to one CNPJ at once both succeed, because
each looks at committed rows and there is no unique constraint; and two calls of one
suspended person open two workspaces, since `FOR UPDATE` locks the rows that exist
and not the one the other call inserts.

## 7. The other components: run `platform`

These components share no state with each other. `MCPlatform` puts them into one
instance: its initial state picks one of them (`part`), and only that one moves.

| module | models | property | what it shows |
|---|---|---|---|
| `SerproAuthorization` | start, redirect, callback, token exchange, the signature at Serpro under the request's lock | `SealIsSound` | one authorization signs once, for the request as it was, by the signer's own certificate, though callbacks repeat and overlap and the request is cancelled, declined, expired or given another link |
| `ReadAccess` | the lists, single reads and signing-link doors as predicates over one person's relation to a request | `DoorsAgree` | the document list shows what opens and only that, the request list agrees with the single read, and the doors of a link agree with each other, but for the two cases below |
| `InMemoryWorkflow` | every method of the development backend | `DoubleKeepsLifecycle`, `OpenCaseMatchesPaper` | it implements `RequestLifecycle`, like the database service; an open request is at its document's version |
| `ObjectMigration` | `migrate_documents_to_r2`, `reorganize_r2_documents`, `backup_export`, beside uploads | `ObjectsAreSafe`, `ToolsReportTheTruth` | nothing is lost when a tool is killed and run again, and what it reports was read back |
| `CrudService` | load and commit of every operation of a generated service, and its in-memory variant | `CommitsKeepOthersWork` | a relational commit brings back no deleted row and removes no link it had not seen |
| `DomainScaffold` | the generator's checks, its files one by one, migrations, `routes.py`, `loader.py` | `GeneratedDomainWorks` | the tree imports at any moment, migrations run, the restarted API serves the domain |
| `PlatformRules` | check digits, allowances, price tables, checkout and portal, notices | `IdentifiersAgree`, `BillingPageIsHonest` | rules computed twice agree |
| `WorkspaceRescue` | see section 6 | `RescueIsForTheSuspended` | |

`ReadAccess` and `PlatformRules` are pure: a state is one case and the property
compares two computations on it. Their cases are enumerated by `MCReaders` and
`MCQuestions`: every combination of the fields that the code reads, and identifiers
that repeat a pattern of three digits.

SQLAlchemy again decides what `CrudService` does: a commit sends only the columns
that differ from what was loaded (`ChangedColumns`) and, for a relation, only the
difference (`RelationDelta`).

The bounds: two workers, rescuers or callers wherever the code runs concurrently; two
versions and an artifact, of which one of each is old, and four runs of the tools,
so that a move, a killed run, its repetition and a clean-up fit; three forms over
four domains, two of which share an entity name and one of which is called like an
association table; five CRUD requests on two rows; three authorizations; a row of five
calls (`Horizon`), one more than the largest allowance.

What disagrees, and is excepted by name in the properties:

* Two forms at once fork the migrations or lose lines of `routes.py`; two domains with
  one entity name ("tag" and "tags") replace each other's router.
* Two forms for one domain that are in progress at once plan the same migration file,
  and the second `write_text` replaces the first one's text. A third form may have been
  checked against the first text: it creates the domain `posts_tags`, and the second text
  turns out to create the association table of that name too, so its migration does not
  run. With the form for `posts` that comes first it takes four, one more than the run has,
  and was found while proving that migrations run; the ghost `replaced` marks the case and
  `MigrationsRun` excepts it.
* A member who sends a request on a colleague's document finds it in his list and is
  refused when he opens it, and the colleague opens what his list does not show: the list
  asks who sent the request, the access check who made the document
  (`AskedDifferently`).
* An administrator who is a signer himself is served the bytes when his page is not.
* For the plan it already has, an unpaid account is refused by checkout and by the
  portal.
* The generated in-memory service is keyed by UUID and its router passes text, so
  every read of one item answers 404 (`Found`). A create with a parent fails with 500,
  before anything is stored: the parent's UUID is no text (`MemoryCreate`). So an item
  can be created without a parent, listed, and linked, and nothing else.
* `reorganize_r2_documents` may set the document to an older version than the newest,
  if one is uploaded between its two reads.
* A killed run of `migrate_documents_to_r2` cannot be resumed, since the key it wrote
  is taken; the objects stay readable.

## 8. Proofs

The theorems hold for all sets of workers, sessions, documents, users and so on, and
for all bounds; the assumptions are the named `ASSUME`s of the modules (types of the
constants, a bound that is a natural number, a placeholder that is no member of the
set it stands outside of), which TLC evaluates on every run. A theorem with a further
hypothesis says so in its `ASSUME`, and below why the hypothesis is needed.

The method is the same everywhere. `IndInv` is the conjunction of named parts; TLC
checked it on a small instance before it was proved. Where a module has many
actions, they are classified once by their effect on the rows (a lemma per action
gives its effect), and each further invariant is proved from the effects, not from
the actions. A fact that carries the checks of the *other* calls over a step is a
lemma of its own, because every action needs it.

### SignatureWorkflowProofs

`TypeCorrect`, `CompletionCorrect`, `SigningAuthorised` and `ChecksHold` come from
`IndInv`. Neither `CompletionIsExact` nor the authority of a signature is inductive:
both depend on what a call in flight has checked. `IndInv` adds

* `CallsAreWellFormed`: a call carries the identifiers its kind needs;
* `LocksAreExclusive`: a locked row has one holder;
* `ChecksStillHold`: what a call checked when it began is still true, because the
  locks it holds cover every row its checks depend on. This is the heart of the
  argument;
* `RowsAreLinked`: requests name stored versions, drafts have no signatures;
* `RowsOfSigned`: the signature rows of a request are those of its signed signers.

`UndisturbedChecks` carries the checks of every other call over a step: it asks only
that the rows this call locked or read have not moved, which `LocksAreExclusive` and
the guards give.

On top of it, from the effects of a step on the rows (`Effect`, `StepEffect`), `RowInv`
gives `OpenRequestsKeepDocuments`, `LedgerTellsTheRows` and `ArtifactsChain`. It adds
that the stamps of an artifact are signatures of its request (or a later artifact
need not contain an earlier one) and that only signers are revoked. The same effects
are the steps of `RequestLifecycle`: `WorkflowImplementsLifecycle` maps each of them
to an atomic step or a stutter.

From the effects on the calls (`CallEffect`), `CallInv` gives `InvitationsAreCommitted`
and `AllowanceIsExact`. It adds that a link about to be mailed is committed, that what
a call will charge still fits (the account's row is locked from the check on), and
that the signatures are finitely many, without which they cannot be counted.

`StorageIsConsistent` is about `StorageMatchesRows` and assumes `~LostCommits`. With a
COMMIT whose answer is lost, `discard_uncommitted` deletes the object of a row that
was committed, and `RecordsAreStored` is false: the module keeps the parameter because
the code cannot exclude it. The `documents` run checks the same case.

### AuthSessionProofs

`SessionsSound`, `ResetHoldsToken` and the refinement `SessionsImplementRegistry`.
`IndInv` adds to `TypeOK` that a call that is about to store a session is alone with an
identifier that was never stored (or a late store would revive an ended session, which
the registry forbids); that the pair under a session's key was minted for this session
(or ending one would break another); that of what `logout_all` found, all it is done
with has ended; and that a reset holds a live token nobody else uses. A refinement
step is then one of `Open`, `Replace`, `End` or a stutter, action by action.

### MfaChallengeProofs

`AttemptsBounded` and `CodeOpensOneSession`, for finitely many workers
(`WorkersAssumption`; the argument counts them). The limit itself is not inductive,
since a success deletes the counter while other requests are between the counter and
their check. `AttemptsCover` says what is: the codes tried plus the requests that may
still try one stay within the limit, and while the ticket lives the counter covers
every request it let in. `CodesAreSpent`: one request at a time is between the check
of a recovery code and its commit, and a code that opened a session is consumed or
replaced.

### TenantIdentityProofs

`IdentityAudited` and `BusinessCnpjKept`. A transaction decides before it writes, so
`IndInv` adds `DecisionsStillHold` (it still holds its tenant's lock, and the row it
decided from has not moved) and, for that, `LocksAreExclusive`, though two kinds of
transaction lock the same two rows in opposite orders.

### AccountProvisioningProofs

`ServicesStayInAgreement`. No transaction spans the two services, so the invariant
follows a request across them: an e-mail without a committed account is inserted by
one transaction at a time (`HeldOnce`, the unique index), a request that Core has
answered has its workspace (`SoundCalls`), a member who is about to join is named by
the id of the committed account (`JoinersAreUsers`), and no step takes a workspace or
an account id away.

### BillingProofs

About `TeamSpec`, the composition of `BillingWebhook` and `TenantTeam`, and, for
`AccountBecomesCurrent`, `HistorySpec`; the lemma `BillingSpecIsTeamSpec` carries the
former to the runs of `BillingWebhook` alone. None of the theorems has a hypothesis: they
hold for any number of workers, whose calls overlap as they like, and for all kinds of
event, statuses, plans, members, customers and bounds.

| theorem | what it rests on |
|---|---|
| `BaseInvariant` | the rows, the calls in flight and the provider's subscriptions are well formed and linked |
| `NewcomersAreSeated` | `SeatInv`: the tenant's lock has one holder, and the seat an admission counted is still free |
| `SeatsStayWithinPlan` | a subscription event names its tenant (`SubscriptionsAreKnown`), so the cut is always attempted, and the plan the call judged is the one the merged row then shows (`MergedRow`, from `CopyShowsPlan`) |
| `PaymentsRecorded` | `CustomerInv`: while there is one customer, every delivery in flight has found its tenant |
| `GraceKept`, `UsageResetOnce` | no invariant: what one step does to the row follows from the columns its copy has right (`ApplyMoves`) |
| `AccountBecomesCurrent` | `HistoryInv`, below |

`HistoryInv` says what remains true until a delivery is overtaken, where the endpoint is
sent subscription events at all. `SettledAreOlder`: no
report, that is no subscription event, that was settled is newer than the account's
stamp. `NewestShowsSubscription`: the newest report of a subscription shows it as it is.
Until an invoice or a checkout overrules it, the account shows what a report of its
stamp or a newer one shows (`AccountShowsReport`), and so does the answer that a
synchronisation holds (`AnswerShowsReport`), because a stamp is always that of a report
of the account's subscription (`StampIsOfSubscription`). Once all reports are settled,
the first says that no report is newer than the stamp, and the third finds one of that
stamp: `PlanIsCurrent`. The argument needs no order among the deliveries; that a call
judged from a current copy of four columns (`PlanColumns`) is all it takes from them.

### ObjectMigrationProofs

`NothingIsLost` and `ReportsAreTrue`, for any number of runs of the tools beside the
service. The invariant says for each phase of a tool what it relies on: rows keep
their key while `migrate` or `reorganize` works on them, what a phase is done with is
good under the key it will name, and the clean-up's list and the objects its own run
moved are disjoint.

### ServiceProofs

Seven modules that share no state. `AllDoorsAgree` is a case analysis over every
possible reader; it compares the routes of the desk with each other and those of a link
with each other, outside the cases that section 7 names. `RescuedAreSuspended` rests on `LockedAreSuspended`: the rows a call
found are suspended from the moment it has locked them. `OpenCasesMatch` and
`DoubleImplementsLifecycle` are about the in-memory workflow, under its one lock: a
request that is being created and read its document before the lock is checked
again under it. `SealsAreSound` needs that a callback's attempt is the signer's, is
taken by one callback, and that the certificate's holder was compared with the
subject of the authorization before anything is signed.

`OthersWorkIsKept` is about the generated services, for any number of workers, rows
and tags. Its invariant `CrudInv` says of a request between load and commit that a
create has its id for itself, that the row of any other operation is in the table,
that only delete and restore send `deleted_at`, and that the relation it will write is
the one computed from the single read it made. `CrudAssumption` says only what the
rows and the requests of the generated schemas look like.

`GeneratedDomainsWork` is the whole of `GeneratedDomainWorks`, for any number of workers,
forms and domains; `TreeImports` is its part about imports. Each conjunct has an invariant
of its own:

* `ScaffoldInv`: what precedes the rest of a form's list of files is on disk (`Written`),
  what a form read of `routes.py` and `loader.py` names files that are there, and nothing
  is removed;
* `CountInv`: the migrations on disk and the ones still planned are no more than the
  forms, so their numbers stay within `MaxForms + 1`;
* `GraphInv`: a migration builds on a smaller number, and runs from the moment it is
  planned, unless a file was replaced. `Ancestors` is the smallest set closed under
  `BuildsOn`, and a new migration leaves the ancestors of the others as they were,
  because none of them builds on it;
* `HeadInv`: while no two forms overlapped, the one in progress builds on the only head
  and has the next number. That a graph with migrations has a head needs the largest
  of their numbers (`LargestNumber`), which is where well-founded induction comes in;
* `RegisterInv`: `routes.py` never imports a domain twice, and while no two forms
  overlapped, what a form read is still what is in the file when it writes.

`ScaffoldAssumption` says that the forms name domains and that the placeholder `NoFile`
is none of them.

`IdentifiersAlwaysAgree` and `BillingPageKeepsItsWord` are about `PlatformRules`, for all
identifiers of nine or twelve digits, all accounts and all price tables, where the run
has patterns of digits and small allowances. Their invariant is only that a question is
one of `Questions` (`CasesAreAsked`); the content is in the lemmas about the recursive
functions. `RulesAssumption` types the constants: a digit is one, an account is a member
of `BillingAccounts`, a plan's limit is a number, and `None` is no value of a field.
The functions are recursive over a bounded set, so each is first shown to exist
(`KeptExists`, `SumExists`), by taking the smallest argument at which it would not. Then:

* `Only` keeps a text that has nothing to drop (`AllIsKept`), and if what Auth kept is all
  digits, Core kept the same (`DigitsAreAll`), so that both test one number;
* the weighted sums are numbers (`TotalIsNumber`), and those of the code and of the
  reference are one sum (`CpfTotals`, `CnpjTotals`); then each of the eleven remainders
  decides alike (`CpfDigitIsCongruent`, `CnpjDigitIsCongruent`), ten, one and zero included;
* the k-th call in a row is granted exactly as long as k is at most the quote
  (`SignaturesServed`, `DocumentsServed`): the row of calls that the code makes and the
  row that is expected agree call by call (`SameCalls`). `Horizon` only bounds how far
  the row is followed, and the theorem holds for each;
* of the doors, prices and notices, a case analysis (`DoorIsOpen`, `PriceIsKnown`,
  `TextIsSent`). A purchase needs that a price names one product, which the price ids,
  being the triples they were configured for, give.

### Left to TLC

Liveness under fairness, which is out of the prover's reach: `CallsEnd`, `EventsSettle`,
`RequestsEnd`, `TransactionsEnd`; and `AccountIsCurrent`, the statement for one worker that
has no exceptions, in place of which `PlanIsCurrent` is proved for all. Every other
property of a passing run is stated by a theorem, under the hypotheses the tables name.

## 9. What is not modelled, and the plan

Not modelled, and why:

* PDF parsing, rendering and validation, the text of e-mails, encryption and digests,
  and the ASN.1 exchange with the timestamp authority: pure functions or I/O without
  a protocol. What they decide (a stamp, a refusal, a failure) is in the models.
* The outbox and the projections: events can be registered and nothing in the
  repository publishes them, so there is no protocol to check.
* Notification delivery beyond what its callers see. The service mounts only the
  router that hands a message with its idempotency key to the mail provider;
  `infrastructure/providers.py`, with the idempotency records in Redis, imports
  `shared_kernel.media`, which is not in the repository.
* The worker stub, the contact form, health checks, migrations of the schema, the
  developer's toolbox and the deployment files.
* Within modelled components: `update_preferences`, the counters of failed logins by
  address, TOTP codes of the step before and after the clock's, and characters that
  `isdigit` accepts and `int` refuses.

Next: compositions of the allowance of `SignatureWorkflow` with `BillingWebhook`'s plan
changes in place of `ChangePlan`, and of `AuthSession`'s login with `MfaChallenge`.
