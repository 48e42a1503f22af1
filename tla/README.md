# authia: verification project

authia is a server-side authentication core in TypeScript: a kernel that dispatches
actions, a session layer, two plugins (e-mail and password, OAuth), PostgreSQL storage, a
delivery provider for mails, and adapters for Node, Bun and Deno. This directory holds
TLA+ models of these parts and of how they are composed, the TLC configurations that check
them, and TLAPS proofs of the safety of each of them. Paths below are relative to the
repository's `packages/` unless they start with `docs/` or `audits/`.

    tlc -config SessionsSafety.cfg MCSessions     # one run
    tlapm SessionsProofs.tla                      # one proof module

`PROJECT.json` lists the components, the runs, the hazards with the properties that cover
them, the source lines of every definition, the divergences found, and for every checked
property one plausible mistake in the code that it notices.

## 1. The system

### Components, state and operations

| Component | State | Operations |
|---|---|---|
| Kernel, `core/src/kernel`, `core/src/policies` | none of its own | `handle`: owner of the action, validation of the session, policies, the action; `runTransaction` for refresh, logout, logoutAll |
| Session layer, `core/src/session` | table `sessions` (`current_token_id`, verifier, `last_rotated_at`, `expires_at`, `idle_expires_at`, `revoked_at`) | `issueSession`, `validateSession`, `refreshSession`, `revokeSession`, `revokeAllSessions` |
| E-mail and password plugin, `core/src/plugins/email-password` | tables `users`, `local_identities`, `password_reset_tokens`, `email_verification_tokens`, `verified_emails`, `sessions` | sign-up, sign-in, request and completion of a password reset, request and completion of e-mail verification |
| OAuth plugin, `core/src/plugins/oauth` | tables `oauth_states`, `oauth_identities`, `users`, `sessions` | `startOAuth`, `finishOAuth` |
| Storage, `storage-postgres` | the connection pool and the transaction on each connection | `beginTransaction` and the repositories |
| Delivery provider, `delivery-provider` | attempts in flight, telemetry | `executeWithPolicy` over an SMTP or HTTP transport; mapping of failures |
| Start-up validation, `core/src/startup`, the plugins' `validateConfig`, the adapters' `validate...Config` | how far the composition has come | configuration checks, in the order of `examples/cycle2-compose.ts` |
| Schema compatibility, `storage-postgres/src/migrations` | the tables found so far, over a database others may migrate | `ensureCompatibleSchema` |
| Adapters, `node-adapter`, `bun-adapter`, `deno-adapter` | none; the client keeps a cookie and a bearer token | `parseRequest`, `applyResult` |
| Default cryptography, `crypto-default` | none | hashing, token generation, comparison |
| Contracts, `contracts`; examples | none | types; wiring |

A request enters through an adapter, which turns it into a `RequestContext`; the kernel
finds the action's owner, validates the session if one is needed, asks the policies and
runs the action. Actions call repositories, and through `beginTransaction` run several
of them in one PostgreSQL transaction. Everything a component remembers is in the database:
requests, on one server or on several, meet only there. The mail provider and the OAuth
provider are outside services that may answer late, wrongly or never.

### What is hard

* **Interleaving.** Every handler is a chain of awaits. What it read before one of them
  (the session row, the clock, the password hash, the absence of an identity) may be stale
  after it. The code relies on conditional UPDATEs, unique keys and READ COMMITTED row locks.
* **Partial failure.** Any await may fail. Some writes are outside the transaction on
  purpose (a reset token before its mail, the consumption of an OAuth state before the code
  exchange), and a COMMIT may fail after the server has carried it out.
* **Lost answers.** A reply may not reach its client, a mail may arrive although the send
  was reported as failed, an attempt the timer gave up may still be accepted.
* **Waiting.** Statements wait for row locks and unique keys, two `logoutAll` of one user
  may deadlock, calls wait for a pooled connection without a limit, a mail provider may
  never answer.
* **Configuration.** What a plugin, the kernel, an adapter and the database each take for
  granted is checked in four places before anything is served, and by nobody afterwards.
* **Credentials the client keeps.** A cookie or bearer token outlives the session, the answer
  that should have replaced it, and the process that issued it.
* **Time.** Expiry, idle time-out and rotation are decided on a clock read before the write.

### What makes each component correct

* *Sessions*: a token opens at most one session and only while it is current; a rotation
  succeeds once per token; a revocation is final and takes effect; every request is answered.
* *Transactions*: a caller told of success has its writes applied and one told of a rollback
  has not; no connection is leaked or handed out dirty.
* *OAuth*: a state yields at most one login, on its own provider and within its lifetime; a
  subject belongs to one user whatever callbacks race; no user is left without an identity.
* *Accounts*: a reset is all or nothing; tokens take effect once, for their own purpose and
  address; an address belongs to one user.
* *Delivery*: success is never invented; a message is sent twice only when in doubt; the
  policy bounds what is tried.
* *Start-up, kernel and adapters*: an accepted configuration gives every routed request one
  owner; nothing runs that the policies did not allow; a client is neither left signed in by a
  logout nor locked out by a credential that is no longer good.

## 2. The modules

Everywhere an action is the code from one await to the next, a request carries what it has
read, and an open transaction's writes are kept apart from the committed tables until the
action `Commit`. A statement that needs a row or key another transaction holds is disabled
until that ends: the wait of READ COMMITTED. Model values stand for tokens, ids, addresses and
passwords; a token stands for its hash and for what that verifies, since hashing is
deterministic in the code and each call may fail (`Fail`). Definitions named `<D>If...` are
plausible mistakes in `<D>` that no action uses; they document which property notices them.

**Sessions** (`core/src/session/*`, the built-in actions of `kernel/auth-kernel.ts`,
`storage-postgres/src/repositories/sessions-repository.ts`). `store` is the committed table;
of a request, `op` and `cred` are its context, `snap` is the row `validateSession`
returned, `at` the clock `refreshSession` read, `fresh` the token it generated, `want` the rows
its UPDATE has still to lock, `pend` those it has written and so locked, `reply` the
`AuthResult`. `Present`/`PresentNothing`/`SignIn` are arrivals; `FindSession` and
`CheckExpiry` are `validateSession`; `PolicyRefuses`/`PoliciesAllow` the kernel's policies;
`StartRefresh` and `StartRevocation` the code up to the UPDATE; `UpdateRow` the UPDATE
reaching one more row (so that a `logoutAll` over several rows can meet another half way);
`Commit`, `CommitFails`, `Fail` and `DeadlockAbort` the ends of the transaction; `Receive` and
`Abandon` a reply that arrives and one that does not, or a server that dies. `issued`,
`retired`, `delivered` and `arrival` are history variables. A client presents only tokens
it has received.

**SessionRegistry** is the abstract specification of the sessions table: open, rotate to an
unused token, revoke sessions of one user, and nothing else. Sessions implements it with
`table` mapped to the listed columns of `store`.

**Transactions** (`storage-postgres/src/transactions.ts`, `database.ts`). A call of
`beginTransaction` takes a connection (`Connect`), runs BEGIN, the caller's function
(`StatementFails`, `Returns`, `Throws`), COMMIT or ROLLBACK, and gives the connection back or
destroys it. `server` and `work` are the server's side of each connection, which differ from
what the client believes: a failed statement voids the transaction, a COMMIT of a void
transaction answers without an error, a connection may `Break` at any time, a COMMIT's answer
may be lost. **TransactionOutcome** is the promise to callers: applied or discarded for good;
told "value" only if applied, told "error" or of a rollback only if discarded. The other
modules use the outcome this one establishes (`Publish` or roll back, then answer) instead of
repeating the connections.

**OAuth** (`core/src/plugins/oauth/plugin.ts` and its two repositories). `StartOAuth`,
`CreateState`; `FinishOAuth`, `Consume` (outside any transaction), `Exchange`, then `Lookup`,
`CreateUser`, `CreateIdentity`, `IssueSession`, `Commit`. `CreateIdentity` that meets a
duplicate rolls back and goes to `Lookup` with `retry` set, where it creates nothing.
`pendUser`/`pendKey` are the uncommitted rows. The provider answers with any subject. A
callback may arrive repeatedly and on any provider's path.

**Accounts** (`core/src/plugins/email-password/plugin.ts` and its repositories). The six
actions share their awaits: `FindIdentity`, `CheckPassword`, `IsVerified`, `GenerateToken`,
`CreateToken`, `Deliver`; `Consume`, `UpdatePassword`, `RevokeAll`, `MarkVerified`;
`CreateUser`, `CreateIdentity`, `IssueSession`; `Commit`. `tx` is what the open transaction
has written. Sign-in reads and checks outside the transaction that issues its session.

**IdentityDirectory** is the abstract specification of both identity tables: a key is linked to
a user of its own once, and for good. OAuth implements it with keys (provider, subject),
Accounts with keys that are addresses.

**Delivery** (`delivery-provider/src/policy/execute-with-policy.ts`, `errors.ts`). `Dispatch`
starts an attempt; it ends by `Confirm`, `Refuse`, `LoseAnswer` or `TimeOut`, the last leaving
the message in flight, where `Accept` may still take it; `Catch` is the catch block with the
mapping of failures, the telemetry and the choice between return and backoff. A telemetry
callback may throw wherever it is called. The fields of an error that
`mapTransportFailure` looks at are kept, with values from every class it tells apart.

**Startup** (`core/src/startup/validate-startup.ts`, `validateConfig` of both plugins,
`node-adapter/src/validate-node-config.ts`, `storage-postgres/src/migrations/ensure-compatible-schema.ts`,
`examples/cycle2-compose.ts`). A configuration is a record of what the checks look at: method,
path and transport of each entrypoint, the OAuth providers, the plugins with the actions they
list, the runtime's redirect capability. Every refusal has the same effect, so the checks before
the first await are one predicate, `Accepted`, the conjunction of a named one per check.
`Compose`, `CheckTables`, `CheckColumns` and `Serve` follow the composition from await to await;
`QueryFails` and `Restart` are its faults, and `Migrate` creates tables while it looks at them.

**Gateway** (`parseRequest` and `applyResult` of the adapters, `kernel/auth-kernel.ts`,
`policies/*`, `session/transport-mutations.ts`) extends Startup with what the accepted
application does. `ParseRequest` is the adapter's rejections in their order, `Entry` the kernel up to its
first await; neither sees anything shared, so `Arrive` is one step. `ValidateSession`,
`CheckCsrf`, `AskPolicy` and `PoliciesAllow` are the kernel's awaits; `IssueSession`,
`PluginAnswers`, `GetSession`, `Extend`, `Rotate`, `Logout`, `LogoutAll` and `Fails` the
action. `Deliver` is `applyResult`, which turns a redirect the runtime cannot send into
`RUNTIME_MISCONFIGURED`, and the client that keeps what it is sent; `Lose` an answer that
does not arrive. `jar` and `held` are the client's cookie and bearer token; a cookie is read by its
name and kept by name and path. A browser sends its cookie always (`Sends`), client code its token
when it wants. A configuration the start-up refuses for good reason could make the kernel throw,
where a token is compared or a policy redirects without a location; the model has these paths too. `SessionEnds` and
`ProcessRestarts` happen at any time. The session layer is here what SessionRegistry says of it,
and what Sessions is shown to implement, with one user: Gateway too implements SessionRegistry
(`Listed`), and so does Accounts for the sessions its sign-ins open and its resets revoke.

**MC...** modules define the small instances and the symmetry sets; **...Proofs** modules hold
the theorems. The constants' assumptions (`ConfigAssumption`, `NoneAssumption`, ...) are
stated where the constants are declared and evaluated by every run.

## 3. The runs

| Run | Instance | Checks |
|---|---|---|
| `sessions_races` | 2 requests, 1 session, 3 tokens, clock 0..3 | `Coherent` (the inductive invariant), `OneRotationPerToken`, `ServedOnlyWhatWasLive`, `ImplementsRegistry`, `RotatesWhenDue`, `FreshTokenIsCurrent`, `RevocationIsFinal` |
| `sessions_logout` | 2 requests, 2 sessions of 1 user, 3 tokens, clock 0..2, lifetimes 2, threshold 1 | `LogoutTakesEffect` |
| `sessions_contention` | 2 requests, 2 sessions of 1 user, 2 tokens, a standing clock, rotation always due | `EveryRequestIsAnswered` |
| `sessions_losing_refresh` | as `sessions_races` | a divergence, section 6 |
| `transactions` | 3 calls, 2 connections | `Coherent`, `PoolIsClean`, `CommitsOwnWork`, `PromiseKept`, `EveryCallIsAnswered` |
| `oauth` | 2 requests, 2 states, 2 providers, 1 subject each, 2 users, clock 0..1 | `Coherent`, `OneLoginPerState`, `LoginAnswersItsStart`, `NoOrphanUsers`, `ServedAsCanonicalUser`, `CollisionsResolve`, `ImplementsDirectory`, `EveryRequestIsAnswered` |
| `accounts_safety` | 2 requests of all six actions, 2 addresses, 2 passwords, 2 users, 2 sessions, 2 tokens, lifetime 1, clock 0..1 | `Coherent`, `NoOrphanUsers`, `VerifiedByToken`, `TokensTakeEffectOnce`, `ResetIsAtomic`, `PasswordsChangeByToken`, `ImplementsDirectory` |
| `accounts_progress` | 2 requests, all actions but sign-in, 1 address, 1 password, 2 users, 2 sessions, 2 tokens, a standing clock | `EveryRequestIsAnswered` |
| `accounts_stale_session` | sign-up, sign-in and the reset actions, 1 token | a divergence, section 6 |
| `delivery` | both channels, -1, 0 or 3 retries, with and without time-out and throwing telemetry; an empty backoff sequence | `SuccessIsConfirmed`, `DuplicatesNeedDoubt`, `PermanentFailuresEndIt`, `TelemetryTellsResult`, `EveryCallReturns` |
| `delivery_network_failure` | one HTTP policy | a divergence, section 6 |
| `gateway` | 23 configurations, 4 of them accepted; 2 tables; 2 requests, 1 session, 2 tokens, 4 envelopes | `ServesOnWholeSchema`, `EveryEntrypointIsServed`, `StaleClientsCanSignIn`, `EffectsAreAuthorised`, `SignOutClearsClient` |

What they show: `sessions_races` that stale snapshots do no harm to tokens and revocations
(only the idle time, section 6), that nobody is served an expired session, and that the table is what the
registry promises; `sessions_logout` that a logout answered success, of one row or of two, has taken
effect, whether sign-ins, refreshes that extend or rotate, another logout or the end of a lifetime
came in between; `sessions_contention` that row locks, and the deadlock of two `logoutAll`, leave no
request unanswered; `transactions` that a failure at any statement neither leaks a connection
nor tells a caller something untrue; `oauth` that repeated, misdirected and racing callbacks
end in one user and one login; `accounts_safety` that token, password and revocation come together,
and that a token is good once, in its lifetime, for its own kind and address; `accounts_progress` that
two resets, or two verifications, which hold a token each and wait for the same row, are both
answered; `delivery` that late and lost answers never turn into an invented success or an
unexplained duplicate, and that each pause is one the policy names; `gateway` that what start-up
accepts, the kernel and the adapter can serve, and that a client's stale or doubled credentials
neither get past the policies nor lock it out.

**Why the bounds are enough.** Conflicts in this code are between two transactions: a
statement sees at most one uncommitted writer of its row or key, so two requests meet in
every order, and since a request's slot is used again after its reply, more than two requests
act in one behaviour. In `sessions_races` one session and three tokens allow two rotations, a losing
swap and a token that is presented after it was replaced; a clock of three steps passes the rotation
threshold (1), the idle time-out (2) and the absolute lifetime (3). In `sessions_logout` two sessions
are what a `logoutAll` needs to be half way through its rows, the third token lets a refresh rotate one of them
meanwhile, and the clock passes the threshold and both lifetimes. In `sessions_contention` only the waiting
matters: two sessions of one user are what two `logoutAll` need to lock in opposite orders, and both tokens
are in use once both sessions are open, so that a refresh writes there only while one of them is. That a
revocation leaves other users alone is part of `RegistryRefinement`, proved for any number of users. Two
states and two providers are what a callback needs to be answered for the wrong one (the theorems
cover several subjects); two users what a lost race needs to leave an orphan. Two passwords and two
tokens let a second reset overtake a first, and two addresses let a token be presented for the wrong
one. In `accounts_progress` two tokens of one address are what two requests need to wait for one
identity or verification. Three calls on two connections make one call wait, and inherit a connection another
left. Four attempts outlast the backoff sequence of two. When a bound on ids, users or tokens is
reached, generating one fails, which the code can always do (`Exhausted`, `Fail`). The clock's bound
only stops time; nothing waits for it.

The configurations of `gateway` are one accepted deployment for each way of carrying credentials
(bearer, cookie for a domain behind a proxy, both, a public origin that no Origin header equals), and
for each check of the start-up one that only that check refuses. If the check were dropped the configuration would be served
and break one of the run's properties: a route, a provider, a flow or a request that nothing can serve
(`EveryEntrypointIsServed`), a cookie that signing out does not clear (`SignOutClearsClient`), or a
client that cannot sign in again (`StaleClientsCanSignIn`). There are two exceptions. That the
providers in use are configured is checked twice, by the OAuth plugin and by the core, so that one of the checks
covers for the other. And a runtime that trusts one forwarded header alone could be served: `parseRequest`
asks only whether any is trusted. Two tables let a migration come between two queries. The
four envelopes tell apart the origin policy's cases, the forwarded headers and the bodies; the
theorems cover all.

**Views.** Three runs compare states by a VIEW, which leaves out only what no later step and no
property of the run reads. `RaceView`: everything about a request answered other than success.
`LogoutView`: of a request that was answered, all but the token it was given, unless it is a logout
answered success, and the table at a request's arrival unless it is a `logoutAll`. `TablesView` (`accounts_safety`): what an
answered request carried, and of one in flight the identity it has read, its clock and the table
at its arrival where the rest of its action does not use them.

**Deadlock** is checked in every run: a finished transaction call or delivery stutters
explicitly, and the other components always have a next request to take or can restart.

**Fairness.** *Sessions, OAuth, Accounts*: weak fairness of each request's own steps (the event
loop resumes a settled promise and the database answers a statement that waits for nothing);
strong fairness of the statements that wait for a lock, since PostgreSQL grants a lock in the
order it was asked for, so one that can proceed again and again does; weak fairness of
PostgreSQL's deadlock detection; and weak fairness of failing when a bound is exhausted. No
fairness is assumed of faults, clients, the clock, or of which branch an outside service
takes. *Transactions*: weak fairness of each call's own steps; nothing need fail for a call
to proceed. *Delivery*: weak fairness of the loop, of `sleep` and of the time-out's timer, none of the
provider, so only the time-out ends a wait, and `EveryCallReturns` claims nothing without one.
*Gateway*: none; its properties are about safety, and that requests are answered is checked
where their awaits are modelled.

## 4. What is proved

For every value of the constants that satisfies the stated assumptions (any number of
requests, sessions, users, addresses, tokens, states, providers, connections, tables; any
lifetimes; any configuration that has its type, with any number of plugins and policies):

| Module | Theorem | Statement |
|---|---|---|
| SessionsProofs | `Coherence`, `TypeCorrectness` | the inductive invariant `Coherent`, and `TypeOK` |
| | `RegistryRefinement` | `Spec => Registry!Spec` |
| | `UnambiguousTokens`, `RevocationFinality` | a token opens one session at most and is never current again; `RevocationIsFinal` |
| | `Accountability`, `Timeliness` | the second and third layer of the invariant |
| | `OneRotation`, `ServedLive`, `LogoutEffect`, `RotationDueness`, `FreshTokens` | `OneRotationPerToken`, `ServedOnlyWhatWasLive`, `LogoutTakesEffect`, `RotatesWhenDue`, `FreshTokenIsCurrent` |
| | `DeadlocksAreOfLogoutAlls`, `RequestsGoOn` | `OnlyLogoutAllsDeadlock`, `RequestsAdvance` |
| SessionRegistry | `RegistryInvariant` | the abstract registry keeps tokens unambiguous |
| TransactionsProofs | `Agreement` | the inductive invariant `Coherent` |
| | `PoolStaysClean`, `OwnWorkOnly`, `TruthIsTold` | `PoolIsClean`, `CommitsOwnWork`, `Spec => Promise!Spec` |
| | `CallsGoOn` | `CallsAdvance` |
| TransactionOutcome | `OutcomeInvariant` | callers are told the truth |
| OAuthProofs | `Coherence` | the inductive invariant `Coherent` |
| | `OneLogin`, `LoginsAnswer`, `NoOrphans`, `CanonicalUser`, `OneRetryIsEnough` | the five safety properties of the run `oauth` |
| | `DirectoryRefinement`, `OneSubjectPerUser` | `Spec => Directory!Spec`; a subject has one user and a user one subject |
| | `CallbacksNeverDeadlock`, `CallbacksAdvance` | `WaitsAreShort`, `RequestsAdvance` |
| AccountsProofs | `Coherence` | the inductive invariant `Coherent` |
| | `TokensOnce`, `NoOrphans`, `VerifiedByOwnToken` | `TokensTakeEffectOnce`, `NoOrphanUsers`, `VerifiedByToken` |
| | `AtomicReset`, `PasswordChanges`, `DirectoryRefinement` | `ResetIsAtomic`, `PasswordsChangeByToken`, `Spec => Directory!Spec` |
| | `OneAddressPerUser` | an address has one user and a user one address |
| | `RevocationsAreOwn`, `OwnResetsRevoke`, `RegistryRefinement` | `RevokesOwn`, `OnlyOwnResetsRevoke`, `Spec => Registry!Spec` |
| | `RequestsNeverDeadlock`, `RequestsGoOn` | `NoDeadlock`, `RequestsAdvance` |
| GatewayProofs | `WholeSchema`, `EntrypointsAreServed` | `ServesOnWholeSchema`, `EveryEntrypointIsServed` |
| | `OnlyAuthorisedEffects`, `SignOutIsComplete`, `NobodyIsLockedOut` | `EffectsAreAuthorised`, `SignOutClearsClient`, `StaleClientsCanSignIn` |
| | `BuiltInsActOnSessions`, `RegistryRefinement` | `BuiltInsHaveSessions`, `Spec => Registry!Spec` |
| DeliveryProofs | `Coherence` | the inductive invariant `Coherent` |
| | `NoSuccessIsSynthesized`, `DuplicatesAreDoubtful`, `PermanentFailuresAreFinal`, `TelemetryAgrees` | `SuccessIsConfirmed`, `DuplicatesNeedDoubt`, `PermanentFailuresEndIt`, `TelemetryTellsResult` |
| | `CallsAdvance` | `CallAdvances`: a measure bounds the steps of a call |

**Assumptions.** `None` is none of the values it is an absent case of (`NoneAssumption`,
`AbsenceAssumption`), lifetimes are positive naturals and the clock's bound a natural
(`ConfigAssumption` of Sessions, `StateTtlAssumption`, `BoundsAssumption`). Configurations
have the type `AuthConfig`, which leaves no required entrypoint out (`ConfigAssumption` of Startup),
and the tables are a sequence (`TablesAssumption`). A delivery policy has the type of
`PolicyConfig`, with any integers, negative ones included (`PoliciesAssumption`); an API refuses
with a status from 300 to 599 and an SMTP server with a reply code from 400 to 599
(`RefusalsAssumption`), as the protocols have it. Nothing is assumed finite.

Some theorems state properties that no run lists: what they say is beyond the questions the runs
ask, but TLC agreed with each on the instances of the component's runs before it was proved.

**The argument for sessions.** `TokensAreUnambiguous` is not inductive: a COMMIT would break it
if the row it publishes carried a token somebody else has, or were not based on the row it
replaces. `Coherent` adds what excludes that. `LocksAreExclusive`: no two transactions hold
one row. `PendingIsCurrent`: a held row differs from the committed one only in what the
statement sets, because nobody else can have written it since. `TargetsExist`: the rows a
statement is still to reach exist and have the requester's user. `TokensAccounted`: a generated
token is in one place, the request that generated it, or a row, or the retired ones. Each step
has a lemma for the request that moves and one frame lemma for those that do not; arrivals and
faults only forget. The refinement is then immediate: only a COMMIT changes the table, and
`PendingIsCurrent` says which registry step it is. That tokens are unambiguous and
`RevocationIsFinal` are inherited from the registry.

The other session properties are about what a request was told, so they need to know what it
has seen. A second layer, `Accountable`, says it of each request in flight: a token being written is known to
nobody else (`SecretUntilCommitted`), the times in rows are bounded by the clock that wrote
them (`RowsAreDated`), and what a request has read was in the table when it arrived or came later
and is still there, was replaced, or was revoked (`Remembers`). `OneRotationPerToken` and `ServedOnlyWhatWasLive`
follow, the latter also for expiry, because `validateSession` compares the row it read with a clock no earlier
than the arrival; and `LogoutTakesEffect` because the sessions at its arrival are either among the rows
its statement still wants or ended. The third layer, `Timely`, orders the clock a refresh
has read against the rotation it replaces, from which `RotatesWhenDue`: a token is replaced only
when it is a threshold old, and an idle update that leaves it was decided before it was.

**The argument for transactions.** `PoolIsClean` needs to know what the server holds for a
connection in the pool, which depends on how the last call left it. `ServerAgrees` states, for
each place a call can be, what the server has of it: up to its end a call without a failure has
its transaction open on its own connection, unless the connection is broken, and nobody
else's; and what a call was told is what became of it. A COMMIT therefore applies one call's work, and
the mapping `Outcome` takes each step to a step of TransactionOutcome or a stutter.

**The argument for OAuth.** `StatesAreSpentOnce` follows a state from its start to its one
consumption: a request past `Consume` is the only one on its state, so the login it commits is
the first. `UsersAreLinked` and `OpenTransaction` tie uncommitted users to uncommitted
identities, and an open key excludes the identity's being committed; so COMMIT creates the two
together, and after a duplicate is reported, and in every later transaction, the winner's
identity is there: one retry is enough.

**The argument for accounts.** The six actions read, wait and write in different tables, but one
invariant serves them all. `InPlace`: a request past an await has what that await gives it.
`HasWritten`: what its open transaction has written is still hidden and still its own.
`StillHolds`: what it read or consumed is still so, because a lock of its own keeps others from
it. `Apart`: two open transactions write different rows, keys and tokens. `TablesAgree`: every committed user has
one identity, every used token its effect. `ConsumedInTime`: a token in use had not expired at the clock its request
read, which is the second half of `TokensTakeEffectOnce`. One lemma per kind of step shows these for the request that
moves, one frame lemma for the others; COMMIT is the only step that touches both.

**The argument for start-up and gateway.** `Composed`: past its first stage the configuration is
accepted, and the tables looked at so far are whole, which `Migrate` cannot undo. From an
accepted configuration alone follow that a route resolves to its own action, that an action has one
owner, that each provider in use has all its callback needs, and that where something answers with a redirect
the runtime can send it; so no request in flight is answered `RUNTIME_MISCONFIGURED` by `applyResult`, or has thrown
where the kernel compares or redirects. `Handled` says of each request at each await what the adapter, the kernel and the
policies have established by then, and that its context belongs to the request as it was sent;
`Told` what its answer may be. `ClientKeeps`: where all entrypoints use one transport, the client never
has a credential of the other, so a stale one is no obstacle to a sign-in.

The sessions under Gateway need an invariant of their own. `Rowed`: a live or ended session keeps its
row, and no two have one token. `Validated`: past `ValidateSession` a built-in action other than a
logout has a session, whatever happened to it since; so a rotation finds a row, if only an ended one.
Each step then issues, rotates or ends sessions (`SessionStep`), which are the steps of the registry.

**The argument for delivery.** `InPlace`: a call that goes on has an attempt left, and a call that sleeps a pause of its policy. `RetriesAreDue`:
an attempt that was followed by another failed with something retryable, and if the provider has
its message all the same, with one of the failures that leave that open. `ConfirmationsEndIt`: a confirmed
attempt is the last one, unless telemetry threw. `EventsKeepUp`: each finished attempt has one event. What
makes it go through is that `MapTransportFailure` calls none of the permanent failures, and never an
uncertain outcome, retryable; that is a lemma for every status and reply.

**Waiting.** Where requests wait for each other's rows and keys, a circle of them would be a
deadlock. An OAuth INSERT that waits for a key waits for one transaction, which is past its own INSERT
and waits for nobody (`WaitsAreShort`). In Accounts a token is consumed before an address or a
verification is locked, and whoever has locked one of those waits no more; hence every set of
requests has a member that waits for none of them (`NoDeadlock`). In Sessions a deadlock is possible, and
the run `sessions_contention` has `DeadlockAbort` end it; `OnlyLogoutAllsDeadlock` says that
every member of a circle is a `logoutAll` and has another of the same user in it: every other request locks
one row and then commits, so it may wait for the circle but nobody in the circle waits for it.

**Progress without fairness.** Liveness is out of the prover's reach, but the part of it that
is about the code's own control flow is a step property. A measure `StepsLeft` counts the awaits
before the answer: six in Sessions and Transactions, five in Accounts, eight in OAuth, whose
collision is looked up once more, and in Delivery a number the policy bounds. Every step of a call
lowers it (`RequestsAdvance`, `CallsAdvance`, `CallAdvances`); in Sessions a step of the UPDATE may
instead leave it one row fewer to reach. No retry therefore goes on for ever, whatever fails and
whatever the others do, and a connection of the pool is held for five steps at most. What TLC adds
is that fairness takes the steps that are left.

**One table, three users.** Sessions, Accounts and Gateway each implement SessionRegistry. For
Accounts that needs `RevokesOwn`, a second layer over `Coherent`: the sessions a reset has marked belong
to the user whose token it consumed. `OnlyOwnResetsRevoke` follows: nobody's reset signs somebody
else out.

**Only model-checked.** All liveness properties (`EveryRequestIsAnswered`, `EveryCallIsAnswered`,
`EveryCallReturns`), since fairness and ENABLED are beyond the prover, and the three runs that
expect a violation, which are counterexamples.

## 5. What is not modelled

* *Default cryptography*: a token is drawn once, a verifier accepts what it was derived from. That
  two random values differ and that a hash cannot be inverted is taken for granted.
* *Contracts* are types; those of the configuration, the request context and the results are
  record sets of Startup and Gateway. The storage ports are modelled by what their repositories do.
* *HTTP statuses and the bodies of answers*, and *the form of `redirectTo`*, which is one of the
  ways a body is incomplete.
* *Examples*: the composition is in Startup. The fake OAuth provider and mail transport of the
  demonstration are not modelled.
* *Clocks of several servers that disagree*: one clock is modelled. A skewed clock is like
  one read earlier, except that it may also be ahead.
* *The fields of forms, the texts of errors, redirects, URLs*: a rejected body is one action.
* *An unhandled `error` event of the pool*: it ends the process. Its effect on requests is
  `Abandon` and `Leave`.
* *Row order of a statement that updates several rows*: any order, as PostgreSQL promises none.

## 6. Where code and documents disagree

* `sessions_losing_refresh`: the design document says that the losing refresh of a race does
  not extend the idle lifetime and returns `unauthenticated`. A refresh that decided just
  before rotation was due, and writes after another one has rotated the session, updates the
  row unconditionally (`core/src/session/refresh-session.ts:38`) and answers success with the
  replaced token.
* `accounts_stale_session`: "revokes all existing sessions". A sign-in with the old password
  that commits between the reset's revocation and its COMMIT keeps its session.
* `delivery_network_failure`: network failures over HTTP are to be retryable. `fetch` rejects
  with an error that has neither status nor code and is taken for a permanent SMTP failure.

Met while reading, without a run of their own. Design is
`docs/superpowers/specs/2026-03-13-typescript-auth-core-design.md`:

* "Rotation is due when more than 24 hours have elapsed" (design, line 181): `refreshSession` rotates at
  exactly the threshold too (`>=`, `core/src/session/refresh-session.ts:35`). `RotatesWhenDue` follows the code.
* "one `phase: 'attempt'` event per attempt" (the delivery design, `docs/superpowers/specs/2026-03-13-smtp-api-delivery-provider-design.md:147`):
  only an attempt that is retried has one (`delivery-provider/src/policy/execute-with-policy.ts:52`).
* "`applyResult` emits `Set-Cookie`" on a success with cookie transport (design, line 78): it passes on
  `responseMutations.setCookies` (`node-adapter/src/apply-result.ts:21`), and no code of the core fills it when it
  issues or rotates a session. The token is in the result's body, and a host must make the cookie of it; so does the model's client.
* Clearing uses "the same cookie name, domain, and path as issuance" (design, line 198):
  `createClearCookieMutation` (`core/src/session/transport-mutations.ts`) names no domain, so it does not clear a
  cookie that was set for one. `SignOutClearsClient` excepts that case.
* "Startup validation parses `publicOrigin` as an absolute origin-only URL" (design, line 63): a URL that is no
  origin, such as one with a final slash, passes `validateNodeConfig`, and the CSRF policy then denies every
  request: the configuration `Slash` of MCGateway. `StaleClientsCanSignIn` excepts it.
* A request URL or a forwarded origin other than `publicOrigin` gives `RUNTIME_MISCONFIGURED`, and forwarded headers, once
  trusted, "must both be present" (design, lines 64-66): `parseRequest` (`node-adapter/src/parse-request.ts:84-96`) refuses
  one trusted header without the other and compares them when both are there, but accepts a request that has neither,
  and never compares the request's URL.
  `EveryEntrypointIsServed` states what the code does.

## 7. Plan

Done: Sessions with SessionRegistry, Transactions with TransactionOutcome, OAuth and Accounts with
IdentityDirectory, Delivery, Startup and Gateway, and the safety properties of all of them
proved. Still to come, most important first:

1. A composition of Sessions with the sign-ins and resets of Accounts over one `sessions`
   table: resets against refreshes and `logoutAll` in flight.
2. The statuses of `applyResult` and the redirects of OAuth's callbacks, which the client acts on.
3. Two servers with clocks that disagree.
