# Verification of the ads-tech backend

TLA+ models of the NestJS backend in `src/` (PostgreSQL through TypeORM, Redis
sessions, OAuth sign-in, workspaces, plans and entitlements), TLC
configurations that check them on small instances, and TLAPS proofs, for
instances of any size, of what matters most.

Paths below are relative to `src/src/` unless they begin with `src/`.

## 1. Inventory

The backend is one NestJS process, of which several may run. It keeps nothing
in memory between requests: its state is in PostgreSQL, in Redis, and in the
cookies and tokens its clients hold. Everything that can go wrong therefore
goes wrong between two calls of a request to one of these stores.

| Part | State it uses | Operations | What is hard | What makes it right |
| --- | --- | --- | --- | --- |
| `SessionService` (`auth/session.service.ts`), called by `AuthService`, `AuthController` and `JwtStrategy` | Redis: a key per session (owner, refresh hash) with a TTL; a set of session ids per user with a TTL of its own | create, rotate, exists, revoke, revokeAll | each but create is several Redis calls; keys expire; calls fail or lose their answer | a refresh token is exchanged once; a logout is final; the index covers the sessions |
| `WorkspaceMembersService` and the guards (`workspaces/`) | `workspace_members`, read with `users`, `workspaces`, the subscription and the plan's limit | invite, accept, decline | transactions of two isolation levels over one table; a count that limits an insert | the seat limit; the owner; what transactions do is what the rules say |
| `WorkspacesService` | `workspaces` | update (the others read) | the guard's entity is saved later, statement by statement | an update changes what it was asked to |
| `UsersService`, `AuthService` | `users`, `oauth_accounts`, and the rows of a personal workspace | sign-up, login, find-or-create of an OAuth user, purge | lookups outside the transaction that relies on them; a compensation across PostgreSQL and Redis | users are whole; one user per address; identities join verified addresses only |
| OAuth state, guards, handoff (`auth/oauth/`) | a cookie per browser and provider; Redis: a key per handoff code | start, callback, exchange | tabs of one browser share the cookie; responses arrive late or never; a callback is opened elsewhere; a callback the guard does not validate | a validated sign-in ends where it began; tokens are handed out once |
| `PlanSeedService`, `database/seeds/plan.seed.ts` | `plans`, `plan_entitlements`, `subscriptions` | the seed each process runs before it serves | processes of one or several versions start at once; row locks; an UPDATE that waits goes on with the rows it had found | the plans of one version active; one open subscription; no seed waits for ever |
| `EntitlementService`, `CurrentSubscriptionService` | reads `subscriptions`, `plan_entitlements`, `workspace_members`, `ad_accounts`, `usage_events` | check, assertCanConsume | what is checked is not reserved; the period may end between the reads; boundaries | seats are never exceeded; what is metered, by what was granted at once and no more; use counts when it happens; a warning comes before a refusal |
| strategies, `oauth-http.ts` | none | fetch a profile | a provider that fails, or never answers | - |
| `workspace-resource.ts`, six entity files, `UsersController` | - | no caller, or none that is registered | - | - |

How they meet: `AuthController` calls `AuthService`, which calls `UsersService`
(PostgreSQL) and then `SessionService` (Redis), with no transaction across the
two; `JwtAuthGuard` reads Redis and then PostgreSQL before the handler of every
guarded route; `WorkspaceMemberGuard` loads the workspace that
`WorkspacesService` saves and the role that `inviteByEmail` relies on;
`inviteByEmail` and `acceptInvitation` pass their transaction to
`EntitlementService`; the seed writes the plans that sign-up looks up and the
subscriptions that the checks look up.

`PROJECT.json` lists every component, every hazard at its line, and which
property catches it; hazards with a note instead say why none does.

## 2. Modules

| Module | Models | Lines of TLA+ that state it |
| --- | --- | --- |
| `Sessions` | `SessionService` and its callers, one step per Redis call | the actions `Create` .. `DeleteAll` |
| `SessionLifecycle` | abstract: a session is opened once, exchanged while live, closed for good | all |
| `WorkspaceMembers` | invite, accept, decline, as the start and the commit of transactions | `Guard` .. `DeclineCommit` |
| `SeatRules` | abstract: invitations reserve seats, answers keep or give them back | all |
| `WorkspaceSettings` | PATCH of a workspace, one step per statement | `Load`, `Compare`, `Update` |
| `Accounts` | sign-up, login and OAuth find-or-create, one step per statement or transaction | `SignupFind` .. `Purge` |
| `Directory` | abstract: an address is registered once, for one user, an identity belongs to one user, nothing is taken back | all |
| `OAuthFlow` | entry point, callback, handoff and exchange, one step per message and call | `Start` .. `Exchange` |
| `PlanSeeding` | the seed transaction, one step per statement, in several processes | `Begin` .. `Commit` |
| `Catalogue` | abstract: a deployment replaces what was on offer when it began and gives a subscription to those without, at one stroke | all |
| `Entitlements` | checks of a metered or a counted resource, one step per statement, with time and the subscriptions a workspace has one after the other | `Ask` .. `Decide`, `SeedFinds`, `SeedCommits` |
| `...Proofs` | the proofs about the module of that name | |
| `SumTheorems` | lemmas about sums over finite sets, for the proofs about `Entitlements` | |
| `MC...` | the instance TLC checks: model values and symmetry | |

An operator whose name says it is wrong (`FitsUncompared`, `NoOthers`,
`TakenAddress`, ...) is the form the definition after it would have with a
plausible mistake in the code; no specification uses one. Each property has
such a form that breaks it.

### Sessions

A Redis command, a MULTI block and a script run at one stroke; between two of
them any other request may run and time may pass. So a request is a little
state machine whose `pc` names the call it makes next. `delivered` chooses
whether the answer of a call that writes arrives; when it does not, or the next
call fails (`Drop`), the request ends with an error and what was applied stays.
`ioredis` sends a command again when the connection breaks before the answer:
for the script that second run finds another hash and returns 0, which is the
same as a lost answer.

Expiry is `Tick`: it takes one from every TTL. A token is its number in its
session (random secrets do not repeat; SHA-256 is taken as injective). Three
variables are history: `loggedOut`, and `raced` and `lagging`, which name the
two situations in which a session leaves the reach of logout-all.

### WorkspaceMembers

One workspace suffices, since no statement reads or writes two. `inviteByEmail`
and `acceptInvitation` run SERIALIZABLE, `declineInvitation` READ COMMITTED.
A transaction is its reads (`...Begin`) and its write and commit (`...Commit`).
PostgreSQL's serializable isolation is modelled by what it guarantees here: each
such transaction counts all member rows of the workspace and writes one, so of
two that overlap each has read what the other writes, and the second to commit
fails. `stale` holds the transactions this happens to, and those whose row was
changed since they read it. A real database may abort more (`Abort`), never
fewer. Administration (`Disable`, `Environment`) stands for the changes of rows
that the entities provide for and no code in `src/` makes.

### WorkspaceSettings

TypeORM's `save` of a loaded entity reads the row by its id, compares every
column, and updates those that differ. None of it, nor the guard's read before
it, is in a transaction with the others. `overtaken` is history: the columns
others changed after a request read them. `SetStatus` stands for suspending a
workspace, which the entity provides for and the guard reads.

### Accounts

A request remembers in `req` what it has read. A transaction that only inserts
is one step: it succeeds whole, or a unique index (`TakenEmail`, `Taken`) or a
failure (`Abort`) rolls it back. Its later lookup of the plan is part of the
transaction, and fails by `Abort`. `Grant` is the session in Redis, whose call
may fail and have been applied. Passwords are not compared: any login of a user
who has one may succeed. An e-mail address is its lower-case form, which the
service makes before every read and write. A profile is whatever a strategy may
return: any address, or none (Kakao's users may withhold it), verified or not.

`Directory` sees the users of each address (`owners`), not only which addresses
are registered: a second user for an address is no step of it. It also says that
nothing registered is ever taken back. That is so only
because `purgeNewlyCreatedUser` never succeeds (run `accounts_purge`): with a
purge that worked, an address would be free again after a failed sign-up, and
`Directory` would need an action for it, which is what its mutant shows.

### OAuthFlow

The states the server signs are not stored: `made` (the provider in the payload),
`fresh` (not expired) and `home` (history: the browser it was made in) are facts
about them. The cookie is set with the redirect, and cleared by the response of
the callback when that arrives (`Respond`), whatever it then holds. A tab that is
`away` at the provider may come back, be left, or be reopened in any browser.
`disturbed` is history: tabs whose cookie another tab or the browser changed.

The guard validates a callback whose path ends in `/callback` (`Callback`). The
router takes more spellings of the route (a slash at the end, other letter case);
for those the guard does as at the entry point: it validates nothing and makes a
new state, which the response leaves in the cookie (`CallbackUnchecked`; `next`
is what a response leaves there, nothing after a validated callback).

### PlanSeeding

READ COMMITTED: a statement sees what is committed when it begins and its own
transaction's writes; it waits for the transaction that holds a row it writes, or has
inserted a key it inserts. `lock` is the holder of each plan row; what a transaction
has written becomes visible at `Commit`. The UPDATE that retires the other versions is
two kinds of step: `FindOthers` is its snapshot, the rows that are there when it
begins, and `Retire` takes them one by one, in any order, waiting for each that
another holds. A row that is committed while it waits is not among them. So when two
new versions start at once, the later leaves the Starter plan of the earlier active
beside its own: their upserts are of different rows, and when the earlier commits, the
UPDATE of the later is already waiting. The plans after the first are not concerned in
a database that had plans, for by then the later seed has waited.

The INSERT of the backfill takes its keys at one stroke. Plan entitlements are written
only under their plan's lock and are left out.

Seeds of one version take their rows in one order. Those of two versions do not:
each begins with the row of its own Starter, which the other then retires. So they
can wait for each other, and PostgreSQL's deadlock detector ends that: `WaitsFor`
is its graph, `Circle` a cycle, `Victim` the transaction it fails. `canceled` and
`known` are history: the subscriptions that ended after a seed looked for open ones,
and the versions that were there when it began.

`Catalogue` is what the tables promise whoever reads them: a deployment puts its
version of every plan on offer, nothing else that was not, and of what was on offer
nothing that was there when the deployment began. It need not see what came since;
that is all it leaves to deployments that overlap, in databases with plans and
without. The refinement mapping is the committed state: the active versions of each
plan, the versions that are there (`Present`), and who has a subscription.

### Entitlements

One workspace and one resource: metered (`AI_REQUESTS`, `AI_TOKENS`: the usage events
of the period) or counted (`AD_ACCOUNTS`); seats are in `WorkspaceMembers`, where the
check runs in a SERIALIZABLE transaction of its caller. A check takes the time
(`Ask`), reads the current subscription and the entitlement of its plan (`Find`; the
seed writes the entitlements of its version again at each start, but with the same
limits, so the two reads are one step), and then the usage (`Decide`). A plan is its
limit: a number, `Unlimited` (a null `limit_value`) or `NotConfigured` (no row, which
fails like a missing subscription). `check` by itself reads what `Ask`, `Find` and
`Decide` read.

Time is a clock of instants, and an event has the instant it occurred at. A period
is `Month` long, any positive length: `setUTCMonth` makes it exactly as long as the
month it begins in, for it carries the days a shorter month lacks into the next.
A subscription begins at sign-up with any plan, may be ended (`EndSubscription`,
which the entities provide for), and is then replaced by the backfill with the
Starter plan: `SeedFinds` sees that none is open and takes the time, `SeedCommits`
inserts. One that is open though its period is over is not replaced, as in the code.

What a caller does with a grant is external (`Use`, `GiveUp`): the repository has
the tables and the check, and no code yet that writes them. `peak` and `warned` are
history.

## 3. Runs

| Run | Instance | Shows |
| --- | --- | --- |
| `sessions_safety` | 2 users, 2 sessions, 2 requests, TTL 2, 2 tokens | `RotationIsLinear`, `LogoutIsFinal`, `IndexCoversSessions`, `LogoutAllEndsIndexed` |
| `sessions_liveness` | 1 user, 2 sessions, 1 request | `Reclaimed`; refinement of `SessionLifecycle` |
| `sessions_login_race` | 1 user, 2 sessions, 2 requests, no refresh | **violation**: logout-all misses a session opened while it runs |
| `members_safety` | 3 users, 3 requests, 2 seats | `SeatsWithinLimit`, `OwnerKept`, `AcceptsOpenInvitation`; refinement of `SeatRules` |
| `members_decline` | 2 users, 2 requests | **violation**: a decline deletes a membership |
| `settings_safety` | 2 columns and the status, 2 values, 2 requests | `PreparedAsAsked` |
| `settings_lost_update` | the same | **violation**: a PATCH sets back another's columns, or the status |
| `accounts_safety` | 2 users, 2 addresses, 2 identities, 3 requests | `OneUserPerAddress`, `UsersAreWhole`, `LinksAreVerified`; refinement of `Directory` |
| `accounts_purge` | 2 users, 2 requests | **violation**: the compensation of a failed sign-up never takes effect |
| `oauth_safety` | 3 tabs in 2 browsers, 3 providers (2 configured), 3 states, 1 code | `EndsWhereItBegan`, `UndisturbedReturns`, `HandedOutOnce` |
| `seeding_rollout` | 2 processes of version 2, 1 of version 3, 1 workspace, a database without plans, with version 1, or with 1 and 2 | `OneActiveVersion`, `SameVersionInTurn`, `CirclesCrossVersions`, `StarterDecides`, `OneOpenSubscription`, `BackfillCovers`, `SeedsEnd`; refinement of `Catalogue` |
| `entitlements_safety` | 2 callers, requests of 0 or 1, 3 instants, periods of 2, plans of 5 (Starter), 6, unlimited and not configured | `OvershootBounded`, `UseCountsAtOnce`, `WarnedFirst` |

Bounds, and why they are enough. Every property relates at most two requests (or tabs,
or processes); two of each give every interleaving of two multi-step operations, and a
third where one more must be able to disturb them. Two sessions let a logout-all see
one and miss the other. A TTL of 2 lets two keys with the same TTL run out at
different times. `MaxTokens` 2 gives a first and a second token, so a token can be
good, old, and raced for. Two seats are the limit of Starter: the owner, and one seat
that two invitations race for. Versions 2 and 3 over a database with version 1 are two
rollouts that overlap; over 1 and 2 they are one rollout beside restarts of the old
version, and over none the first deployments. One workspace is enough there:
subscriptions of two have in common only that one INSERT waits for all its keys, and
the theorems cover any number. Limits of 5 and 6 are the smallest with room for one
more caller between the warning and the limit (four fifths of 5 is 4), and 6 makes the
backfill a downgrade; three instants and periods of two give an instant in a period,
the one it ends at, and periods that overlap because the first was ended early.
`MaxUsed` bounds only what is used of an unlimited resource. `States` and `Codes` are
used up, never reused, which bounds a behaviour: three states are two sign-ins that
overlap and one state more, from a third or from a callback that was not validated;
one code is enough, since codes have nothing in common, and the theorems cover any
number of both; `MaxTime` ends the clock. Nothing else is bounded: TTLs, counters and
sets are finite in the code's own terms.

`CHECK_DEADLOCK` is on everywhere: in every reachable state a request may begin,
fail, or time may pass.

Fairness. `sessions_liveness` assumes `WF_vars(Tick)`: Redis's clock does not
stop. No request is assumed to make progress. `seeding_rollout` assumes
`SF_vars(Seed(i))`: a statement that can run is run, and one that waits for a row
lock gets it in turn, because PostgreSQL queues those who wait for a row and hands
it to the first; weak fairness would let a process that keeps restarting overtake
for ever, which that queue excludes. It also assumes that some transaction of a
circle fails (`WF_vars(\E i : Victim(i))`), which PostgreSQL's detector sees to
after `deadlock_timeout`; without it `SeedsEnd` fails for two versions. Nothing is
assumed of `Abort`, `Stop` or `Begin`.

`WarnedFirst` is about requests of one unit. It claims nothing of limits whose fifth
leaves less room than the other callers may use at the same time: of three callers
with a limit of two, two can be granted one unit each, unwarned, and the third is
refused. Nor of limits of which a single request is four fifths, such as zero: a
request granted under an earlier plan may be used in the period of a lower one, where
no check has seen it coming. A period that begins with usage from before it counts as
warned (`SeedCommits`), for the first check there sees it. The threshold is modelled
as exact: the float product `limit * 0.8`, rounded up, is the same number for every
limit below 2^50, and no model checks that. Nor does `WarnedFirst` say that a warning
does not come too early; what the threshold is, is `FourFifthsIsCeiling`.

`OneActiveVersion` claims of a database that had plans: in every committed state all
plans of some version are active, no Pro plan of another, and a Starter plan of another
only when neither version was there at first. `EndsWhereItBegan` is about tabs whose
callback was validated, beside others whose was not.

`OvershootBounded` is tight: each caller but one may have been granted its request
before the others used theirs.

## 4. What the code does otherwise

Four runs refute what a text of the repository says; `PROJECT.json` quotes it.

- **logout-all and a login** (`auth/session.service.ts:133`). The index is read with
  SMEMBERS and deleted in a later MULTI. A session created in between loses its
  entry: it survives this logout-all, and every later one. The refresh that renews
  the session and then, in a call of its own, the index (line 99) has the same
  effect when that call is lost and the index runs out first; `lagging` is the
  exception `IndexCoversSessions` makes for it.
- **declining what was accepted** (`workspaces/workspace-members.service.ts:120`). The
  row is found as an invitation and deleted by its id, in a READ COMMITTED
  transaction: accepted in between, it is deleted as a membership.
- **saving the guard's entity** (`workspaces/workspaces.service.ts:67`). A PATCH of the
  name sets back a timezone another PATCH has just changed, and reopens a workspace
  that was suspended after the guard looked.
- **taking back a failed sign-up** (`users/users.service.ts:188`). The subscription the
  sign-up created has a RESTRICT foreign key to the workspace, so the delete is
  refused, always, and `AuthService.signup` swallows the error.

Others that no text of the repository contradicts are noted as hazards: the
subscription of a workspace is never renewed, and the backfill does not replace one
that is open but has run out (`database/seeds/plan.seed.ts:85`), so a month after
sign-up every invitation is refused; and `invitation.joinedAt = undefined` does not
clear the column; a user with a known identity is refused when the provider gives no
address; a profile request that is never answered never ends
(`auth/oauth/oauth-http.ts:38`); two new versions that start at once may leave two
Starter plans active until the next start (`database/seeds/plan.seed.ts:43`); and a
callback whose path the router takes but which does not end in `/callback` is not
validated (`auth/oauth/oauth.guards.ts:28`). And one that no behaviour shows:
`src/README.md:62` says schema synchronization is disabled in every environment,
`app.module.ts:29` sets `synchronize: true`.

## 5. Proofs

TLAPS checks these for every value of the constants that meets the named
assumptions of the module (`TTLAssumption`, `UsersAssumption`, ...), all of which
only say that sets are finite where they are counted, numbers are natural, and
the values that stand for nothing are none of the others.

**Sessions** (`SessionsProofs`, any number of users, sessions, requests and tokens,
any TTL). None of the properties is inductive. `Inv` adds: a session has an owner
once it has a token (`Born`); the index of a user holds that user's sessions
(`IndexOwned`); grants and requests name tokens that are not from the future
(`GrantsOld`, `ReqToken`), which is what makes two exchanges of one token differ
in the hash the script compares; a request keeps the owner it read (`ReqOwner`);
and a logout-all that is about to delete has read all of the index but what was
added since, and all it owes (`SnapCovers`), which carries `IndexCoversSessions`
over the deletion. One lemma per action, then `Invariance`. From it follow
`TypeCorrect`, `TokensExchangedOnce`, `LoggedOutForGood`, `IndexCovers`,
`LogoutAllCovers` (the action property) and `StoreRefinesLifecycle` (every step
is a step of `SessionLifecycle` or a stutter: `LifecycleStep`).

**WorkspaceMembers** (`WorkspaceMembersProofs`, any number of users and requests, any
limit). `SnapshotHolds` says that what a transaction has read still holds while it
is not in `stale`: its row is as it was, and for an invitation a seat is free.
That is the argument of serializable isolation, and the seat limit follows by
counting (`SeatsGrow`, `SeatsShrink`). `SeatsBounded`, `OwnerStays`, `AcceptsOpen`,
and `TransactionsRefineRules`.

**WorkspaceSettings** (`WorkspaceSettingsProofs`, any columns, values and requests).
`Fresh`: the entity a request holds is what it asks for over what the row has, in
every column not overtaken; `Exact`: what `save` found to differ is what differs.
`UpdatesAsAsked` follows.

**Accounts** (`AccountsProofs`, any users, addresses, identities and requests).
`Inv` adds to `OneUserPerAddress` and `UsersAreWhole` that each request is
`Good`: what it has read and still relies on is so, in particular the user a link
is for has the address the request asks about. That holds over the steps of the
others because the tables only grow, and they only grow because no purge deletes
anything (`PurgeRefused`, from the row each user has in `subscriptions`: the finding
`accounts_purge`, here for every instance). `OneUserEach` and `UsersWhole` are parts
of `Inv`; `StoreSteps` names the three ways the tables change, and `LinksVerified` and
`TablesImplementDirectory` follow from it: an insert for a free address makes its user
the first and only owner (`InsertRegisters`).

**OAuthFlow** (`OAuthFlowProofs`, any tabs, browsers, providers, states and codes).
`Inv` adds what the cookie is good for: a state in a cookie was made for that slot's
provider in that browser (`StatesKnown`), a tab under way that nothing crossed has
its state in its cookie, and one that passed `Valid` is at home (`Holds`); that a
response brings a state of its own provider and browser, or none (`Brings`); and that a
code that was handed out is no longer stored (`CodesSpent`). Every response that
sets or clears the cookie disturbs the other tabs of its slot, which is why `Holds`
survives it. `EndsAtHome`, `Returns` and `HandsOutOnce` follow.

**PlanSeeding** (`PlanSeedingProofs`, any number of processes, versions and
workspaces). `Activates` and `Held` say that a transaction holds the rows it has
written and which they are by its `pc`; two of one version would both hold their
Starter row (`OneAtATime`). The heart is `Account`: the rows a transaction has written
and those its UPDATE has found and has still to write. Every plan it has begun to
retire has there all versions it knew at its start (`Sees`, `Knows`), and every row of
the plan that is active now (`Covers`), with one exception, the Starter rows that came
since, when its own version is new. What is found is held by the time the UPDATE ends
(`Finds`). In a database that had plans a seed past Starter holds the Starter rows of
all versions that were there from the start (`HoldsStarter`), so only one is past
Starter (`OnePastStarter`): for the plans after the first nothing is committed between
its UPDATE's snapshot and its own commit. So what a commit leaves active is its own
version and at most Starter rows of others that came meanwhile (`CommittedPlans`), and
the claims of the others survive. `Inserts` (no two backfills insert for one
workspace) and `Found` (a workspace a backfill listed has a subscription, will get
one, or lost its own) give `OneSubscriptionEach` and `NobodyForgotten`. The assumption
that a database which had plans had a version deployed last (`DeploymentAssumption`)
is needed by the initial state only.

**Waiting** (also `PlanSeedingProofs`). `WaitInv` adds to `Inv` which rows a lock can
be on (`Locks`): those its holder has activated, or the other versions of a plan it is
past. Who is waited for has begun, so two seeds that wait for each other hold
something each, and two of one version cannot: `CirclesCross`. In a database that
had plans only one seed is past Starter (`OnePastStarter`),
and who is waited for over Pro or over an insert is past Starter: `StarterWins`. So a
deadlock is always about the first plan and its victim has done nothing else.

**The seeds implement Catalogue** (`SeedsImplementCatalogue`). Every step but a commit, a
sign-up or a cancellation leaves the committed tables alone, and what a seed knew at
its start (`known`) changes only when it begins and ends (`BeginOrAbort`). A commit
activates its own two rows and no other, and by `Sees` retires every row of the versions
it knew (`CommitDeploys`), with plans before it or without. The subscriptions need
`NotThere`: a workspace that does not exist yet has none, so a sign-up gives the first.

**Entitlements** (`EntitlementsProofs`, any non-empty finite set of callers, any
limits, any period). A bound on usage is not inductive, since a caller that was
granted may use any time later. `Within` bounds usage *and what is owed*: `Owed` are
those that were granted, and those that have read a subscription and will find room
when they read the usage. A caller moves from one summand to the other when it uses;
a check that grants, one that finds, or an account that is disconnected makes a
caller owed only when usage and its request fit the limit, and then the rest is at
most one request of each other caller (`FoundFits`, `DisconnectFits`). Three things
break this and have parts of their own: time that leaves the period, a seed whose
period begins earlier than its commit (`WithinSeed`: the same bound from the time it
took), and usage while no period runs (`Late`: there each caller has used at most one
request and can use nothing more before it asks again, `Spent`). `NoFuture` says no event lies
ahead of the clock, `CallsKnown` and `SubKnown` what a check and the subscription
remember. `OvershootInvariant` is their conjunction and gives `LimitOvershoot`.
`Unannounced` bounds usage and grants by the threshold in the same way while there was no
warning; with the fifth above it as room for the others, a refusal contradicts it
(`WarnsFirst`; `FourFifthsRounds` turns the premises, which speak of the limit only, into
facts about the threshold). `CountsAtOnce` needs the types only: now is in the period if the
subscription is current, and the event adds to its sum.

**Sums** (`SumTheorems`). What a sum is when one summand or the set changes takes an
induction over the set, and the induction theorems of the library take an operator,
which the installed provers cannot instantiate. The lemmas do without: among the
subsets for which a statement fails there would be a minimal one (`Minimal`, from the
well-foundedness of strict inclusion), and taking one element out contradicts it. The
definition of `SumFunctionOnSet` is a recursive function, so first it has to be shown to
exist (`RecursExists`, `RecursAgree`); then `SumWithout`, `SumAdds`, `SumBound` and the
others hold for every finite set.

Only model-checked: the liveness properties `Reclaimed` and `SeedsEnd`, which need
fairness, out of reach of the prover. Every other property of a passing run, each
invariant, each action property and each refinement, is a theorem.

## 6. Not modelled

`UsersController` and `UsersService.update`/`remove` (registered in no module);
`workspace-resource.ts` (two stateless helpers nobody calls); the entities of
advertising, campaigns, insights, performance, publishing and reporting (tables
without operations); the application shell; formats, validation messages, JWT
signing and password hashing (libraries, and no property is about them); the
requests to the providers (I/O: one step, `SignIn`, that succeeds, fails or never
happens); limits and sums that are no safe integers; a TTL of zero.

`OAuthFlow`, `Accounts` and `Sessions` are not composed. `SignIn` calls the second
and then the third and shares no state with either: a composition would repeat what
each says of its own part, at the product of their states.

## 7. Plan

Order: what loses or grants access first, then what counts, then what starts up.

1. Done: `Sessions`, `WorkspaceMembers`, their abstract specifications and proofs;
   `WorkspaceSettings` and its proofs; `Accounts` with `Directory` and its proofs;
   `OAuthFlow` and its proofs; `PlanSeeding` with `Catalogue` and its proofs;
   `Entitlements` and its proofs, with `SumTheorems`.
2. When the code has them: who records usage (idempotency keys, retries) and who
   renews a subscription, which `Entitlements` now leaves to its environment; the
   services that will use `workspace-resource.ts` and the advertising tables.
3. Small: a TTL of zero, which `SessionService` accepts and Redis refuses.
