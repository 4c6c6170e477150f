# TLA+ models of reproit-cloud

This directory is a verification development for the server in `src/`: TLA+
modules translated from the Rust and SQL, TLC configurations that check them on
small instances, and TLAPS proofs. `PROJECT.json` is its index: components,
runs, the map from definitions to source lines, findings, hazards, theorems.

    tlc -workers 2 -config ShardSafety.cfg MCShardQueue    # one run
    tlapm ShardQueueProofs.tla                             # the proofs

## The system

A Rust server over PostgreSQL. A control database holds organizations,
identities, keys, the tenant registry and routing hints; every tenant has a
database of its own and a scope of an object store. Nothing spans two of these
in one transaction, several server instances and many workers run at once, and
every `await` between two statements is a place where a process can stop or
another one can step in. That is where the models look.

| Component | State | Operations | What makes it hard | What makes it correct |
|---|---|---|---|---|
| Shard queue (`jobs/worker.rs`, `db/tenant/jobs.rs`, `lib.rs`) | `jobs`, `shards`, the hint `tenant_pending_shards` | submit, claim, heartbeat, result, finalize, requeue | workers that die or come back, late and lost posts, a hint in another database, reads that are stale when used | a result is credited to the latest claim, a job finishes when complete, work is served |
| Scheduler (`jobs/scheduler.rs`) | none (pure) | `may_claim`, `claim_score`, `claim_order` | starvation, fairness, ties | overtaking is bounded, a hog yields |
| Evidence (`ingest/evidence.rs`, `db/tenant/telemetry.rs`) | `evidence`, `app_storage_usage`, blobs | reserve, upload, compensate | row and object are not written together, a failed put may leave bytes; quota under concurrency | the counter is the sum of the rows, no object without a row |
| Captures (`captures.rs`, `db/tenant/captures.rs`) | `captures`, `capture_files`, blobs | create, approve, put file, complete | two-statement checks, overlapping uploads onto one key, review link expiry | uploaded rows are backed by the declared contents |
| Retention, project and sample deletion (`operations.rs`, `auth/projects.rs`, `triage/mod.rs`) | the same tables | delete blobs, then rows (the sample: rows, then blobs) | a failure or crash half way, uploads meanwhile | a broken-off deletion can be repeated |
| Ingest (`ingest/mod.rs`, `db/tenant/telemetry.rs`, `db/schema.rs`) | errors, processed batches, traffic, four read models, outbox | `post_events`, prune, delete a sample, migrate and backfill | duplicate delivery, counters kept by increments and by a row trigger, a backfill that may be interrupted | counters equal a scan; a batch counts once |
| Grouping, impact (`ingest/buckets.rs`, `ingest/impact.rs`, `ingest/cohorts.rs`) | none (reads) | the ranked bucket list, its fix status and discriminators | computed from the read models, not from the rows | the list says what the rows say |
| Triage, resolution (`triage/`, `sweep.rs`, `ingest/replay.rs`) | triage rows, resolution status and events | edits, verified replays, `evaluate`, sweep | sweeps against edits, a crash between event, ticket and baseline | no change unlogged, a human verdict stands |
| Integrations (`integrations/`) | `bucket_tickets`, outbox leases | file, link, close, reopen | a crash after the external call, lease expiry, a tracker that is replaced, a configuration that cannot be read | an owed ticket is filed, a regression is open |
| Tenancy (`tenancy/`, `operations.rs`) | registry rows, resolver cache, pools | provision, reconcile, resolve, suspend, offboard | stale cache entries, partial provisioning, a crash at every step | active means complete; inactive is not served for long |
| Organizations, identity (`auth/`, `db/control/`) | users, members, invitations, sessions, device codes | invite, accept, change role, seat, sign up, reset, device login | handlers that read, decide and write; blind writes; failed reads taken for "none" | an owner remains, seats are not overbooked, a reset ends sessions |
| Projects, API keys (`auth/projects.rs`, `auth/mod.rs`, `ingest/mod.rs`, `db/control/credentials.rs`) | project rows, `api_keys` | create, rotate, delete | rows in two databases; compensation; overlapping rotations; numbers that repeat in every tenant | a project has working keys, a key dies with its project |
| Cloud-run ledger (`ingest/replay.rs`, `integrations/dispatch.rs`) | `cloud_runs` | dispatch, complete, expire | late, repeated and missing reports | not modelled |
| HTTP, protocol | none | routing, validation | not concurrent | not modelled |

Interactions: `submit_job` writes a tenant database and then the control
plane's hint; a claim reads the hint, then each tenant, then claims in one;
ingest feeds the read models that the list and the sweep evaluate, and the
outbox that the integrations drain; the sweep closes and reopens the tickets;
project deletion removes the objects that evidence and captures recorded and the
rows under the read models; the resolver stands before all of them.

## Modules

`ShardQueue` models the durable queue. A variable is a column (`state`,
`owner` = `claimed_by`, `attempts`, `hint`) or the program counter of a handler
(`req[w]` is a claim request, `checking`/`writing` a result handler inside
`maybe_finalize`, `marking` a `submit_job` before its hint mark); an action is
one SQL statement with the code up to the next await, and is named after the
function that issues it. `running` and `posts` are what workers hold and what
is on the wire. `stale` stands for heartbeats older than the requeue threshold.
`credited` (which claim's result was recorded) and `grants` (who claimed a shard,
under which id) are history variables. Worker ids: an embedded worker is
`embedded-<i>`, which every server process uses again; a remote worker sends a
stable `worker_id` (`IdOf`) or, as `scripts/worker-poll.sh` does, none, and gets one
minted per claim (`Minted`; the attempt number stands for the mint). `SharedIds` are
the ids under which two claims of one shard may be presented. `beating` holds the
heartbeat tasks that outlive their run: they are detached, and a run that panics
does not abort its own. Left open: which admitted candidate a claim tries first,
which is `Scheduler`'s subject. Abstracted: the engine run is an outcome from
`Outcomes`; setting an already running shard to running when an embedded run starts
changes nothing; `pending_jobs`' LIMIT 256 is not reached. `Faults` selects failures:
`mark` (a hint write fails), `load` (the load read fails and counts as zero), `drop`
(a tenant, a claim request or a result handler is cut off), `crash` (a worker or a
post is lost), `panic` (an embedded run dies, its heartbeat does not).

`ShardLease` is the promise: shards are leased to one holder at a time, under
growing epochs, completed once by the holder of the current epoch, or by an earlier
one that presents the same shared id, and a job finishes only when all are done.
`ShardQueue` maps rows to leases, `attempts` to epochs and `SharedIds` to the shared
ids (`ImplementsLease`).

`Scheduler` holds the policy of `jobs/scheduler.rs` with the code's constants,
over the candidates `gather_candidates` builds, driven by submissions, claims,
results and time. A claim is a single step. Scores are integers: the code's
`f64` arithmetic is exact for these magnitudes. `Unlimited` stands for
`u32::MAX`, beyond any load.

`Sorting` is `slice::sort_by` of the standard library, as the scheduler and the
bucket list call it: an element's place is the number of elements before it. The
proofs show that this is a sort, for any finite set and any strict total order.

`Artifacts` models customer bytes and the rows that account for them: evidence
(reserve, put, compensate), captures (create, approve, the steps of `put_file`, the
two of `complete`), the retention pass, the deletion of a project and that of the
onboarding sample (`delete_sample_bucket`, which deletes the rows first). Every
object is one unit of quota; contents are `a` (the declared hash) or `b`. A put is
not atomic. The local store writes and copies onto the live key, which truncates
what is there (`partial`) until the copy ends; a put that reports an error, or whose
process stops, has left nothing, a part or the whole object, since the answer of a
remote store may be what was lost. The first `SELECT` of `add_capture_file` takes no
lock, so it is an action of its own. History variables: `raced` (written while a
deletion had the key in hand), `stray` (left by a put that reported an error, or by a
sample deletion that failed), `torn` (files whose last reservation overlapped another
upload of them) and `removal.gone`. The revocation of API keys inside project deletion
is only a place where it can fail: keys live in the control plane. The backfill of the
usage counter when the schema is applied runs in one transaction with the exchange of
its trigger, which locks the table, and is a scan of the rows: no step of the model.

`Resolution` holds `triage/resolution.rs` as pure operators: `evaluate` decides
from a bucket's occurrences, the builds' first appearances and the traffic after
the fix whether it is active, resolving, resolved or regressed. `Telemetry` and
`Lifecycle` extend it, one evaluating it on rows and on read models, the other in
the sweep.

`Telemetry` is one app's tenant database under ingest. A count table is a total
function with 0 for no row; a batch is a constant sequence of frames. `post_events`
is a transaction: it begins (`inflight`, which fixes its `now()`), and commits or
fails as a whole; the lock on the batch id makes commits of one batch take turns.
The row trigger of `db/schema.rs` runs after each `DELETE`, once per deleted row
on the table *without* all of them, as PostgreSQL does for an AFTER trigger.
Retention (age), project deletion and the two-statement deletion of a sample
bucket all go through it. The migration has three steps (table creation with its
first backfill, the loop over rows without a bucket, the second backfill) that a
restart may separate. Writers, deletions and the clock start when it is done: a server
that writes to a tenant while it is migrated is not modelled. The bucket
list (`bucket_list`: score, ranking, discriminators with `K_ANON`, status) and the
detail view's `compute_resolution` are operators over the state. Abstracted:
bucket ids are an injective image of the structural identity (message
normalisation is not modelled), edges are one count, scores are integers in
hundredths, the logarithm of the blast factor goes in steps of five percent and
the half-lives of the recency factor in whole ones. `landed` (when a batch last took
effect) and `cut` (a migration was interrupted inside its loop) are history variables.

`Lifecycle` follows one bucket from its first occurrence: production batches with
and without it, triage by people (`post_triage`) and by verified replays
(`post_replay_results`, `post_verified_fix` and, a step later,
`advance_triage_unless_wontfix`), the sweep as five steps (list the anchored
buckets, evaluate, record the event, close or reopen the ticket, write the
baseline), and filing through the outbox or a request (`file_look`,
`create_issue`, `link_ticket`, with the lease of the outbox row around it). Issues are
open or closed and belong to a tracker; `put_integration` may exchange or remove the
project's tracker (`tracker`) at any time, and a process may have one from its
environment (`env`). `resolve_for` reads it as the code does: a failed
read counts as no row. The hooks send the id in the link to the tracker of the moment,
so they may name nothing there. `event` is the latest row of the log. The customer's CI
is whoever posts replays. One server process: a crash ends sweep, drains and requests
at once. With several instances the sweep of each one would log a transition of its
own; that is outside the model. `missed` records the hooks that did not take effect,
and why.

`Tenancy` is the registry, the provider's databases, the object scopes and one
server's memory. Provisioning is one action per step of `provision`, run by a
signup and by the reconciler; the local provider names a database after its
organization (number 0), the hosted one makes a new project each time it does not
find one. A request reads the mapping cache, the control plane, the pool cache,
then uses the store; suspension and the two offboardings (the request of an owner,
the operator's command, which cannot reach the server's caches) run beside it.
`left` (when an organization last was active), `made` (databases made so far),
`manual` (an operator set a status before provisioning ended) and `leftover` (a
deletion that was overtaken, or whose failed step was only warned of) are history
variables.

`Accounts` is one team and every user's personal workspace. A handler that reads,
decides and then writes is a record in `requests` between its steps; a handler
that is one deciding statement is one action. `upsert_org_invitation` is two, its
count and its insert: the lock of the organization's row (`Locked`) keeps other
invitations out from between them, and nobody else. A read that fails ends most
handlers; `remove_member`, `set_member_role`, `set_seat`, `login` and `verify_email`
take it for "none" or 0 and go on (`blind`). A session remembers the number of the
password it was made with. An e-mail address is its user, and an invitation is
presented with its current link. `unchecked` (a seat taken on too low a count, or on
none), `ousted` (an owner taken by a write that did not see it was the last),
`slipped` (a login that passed its check before a reset) and `unseen` (a user with a
workspace of whom a request saw none) are history variables: see the limits below.

`Projects` is the life of projects and their keys in several organizations: the
project row in the tenant database, numbered by that database's serial, and the
keys in the control plane. Creation compensates a failed mint, rotation and
deletion just stop. `shown`, `retired`, `late`, `broken` and `struck` are history
variables; `struck` holds the projects whose keys another organization's request
took, which `OnlyThisProjectsKeys` says cannot happen and `tenant_keys` shows. The key
that an overlapping rotation minted stays alive beside the one answered later; only
keys older than a rotation are retired by it. Key expiry is left out (nothing sets it).

Each `*Proofs` module holds the theorems about its component; `MC*` modules the
instances.

## Runs

| Run | Result | Shows |
|---|---|---|
| `shard_safety` | pass | `FinishedJobComplete`, `OnlyClaimantCredited`, `LaneCapSlack`, `ImplementsLease` for three Mac shards, an embedded worker and a remote one with a stable id, with all faults but `load` |
| `shard_liveness` | pass | `StrandedRecovers`, `CompleteJobsFinalize`, `ServedOrUnhinted` under `Fairness`, with `load`, `crash` and `panic` and a remote worker that sends no id |
| `hint_race` | violation | `PendingIsServed`: a submission between a poller's count and its clear is unmarked for good, with no fault at all |
| `scheduler` | pass | `OvertakingIsBounded`, `HogYields`, `RowOrderIsIrrelevant` |
| `artifacts` | pass | `UsageExact`, `DeletionIsRetryable` and, with two overlapping uploads, `DeclaredFilesIntact`, `ApprovedProjectFixed`, with every fault |
| `telemetry` | pass | `ReadModelsExact`, `WindowsExact` (counters equal a scan of the rows), `OncePerHorizon`, and of the list `SurfacedAreGroups`, `RegressedFirst`, `ListAgreesWithDetail` |
| `retention_deletes` | violation | `ExpiredErrorsGo`: when all remaining errors of a bucket with two or more expire in one pass, the trigger writes NULL into a NOT NULL column and the pass aborts, now and at every later hour |
| `lifecycle` | pass | `StatusChangesAreLogged`, `TicketOwed`, `RegressedTicketIsOpen`, `WontfixStands` with a crash, a failed call or a failed read anywhere, and trackers that are replaced |
| `tenancy` | pass | `ActiveIsComplete`, `InactiveNotServed`, `OffboardLeavesNothing`, `ReconcileFinishes` for both providers, with a crash or a failed call anywhere |
| `accounts` | pass | `SeatsNotOverbooked`, `OwnerRemains`, `ResetEndsSessions`, `SingleUse` with two overlapping requests and a failed read or a request that stops |
| `projects` | pass | `ProjectHasKeys`, `KeysDieWithProject`, `RotationRetires` for two organizations, with a failed call or a request that stops half-way |
| `tenant_keys` | violation | `OnlyThisProjectsKeys`: deleting a project deletes the keys of the equally numbered project of another organization |

`shard_safety`, `artifacts`, `tenancy`, `accounts` and `scheduler` check a type
invariant too.

## Where code and comments disagree

The repository states more than the code keeps in fourteen places. `PROJECT.json`
quotes the sentences. Three are the violations above. For the others the property of
a passing run states what *is* kept, with exactly this exception; without the
exception TLC finds it violated.

| Property | Said | What happens |
|---|---|---|
| `PendingIsServed` | the hint "must never under-include" (`worker.rs:212`) | count and clear are two statements; a mark between them is lost |
| `OnlyClaimantCredited` | results are "bound to the claimant" (`worker.rs:74`) | they are bound to a worker id, and ids repeat: a late result of an earlier claim under the same id is recorded, and the current claim's refused |
| `LaneCapSlack` | "a HARD per-tenant Mac lane cap" (`scheduler.rs:16`) | the gate reads a count that other claims overtake: fewer than the cap plus the number of workers |
| `StrandedRecovers` | the heartbeat is "killed when the run finishes" (`worker.rs:505`) | not when it panics: the heartbeat goes on, and the shard stays running until the server stops |
| `ExpiredErrorsGo` | retention prunes by age and is retried (`schema.rs:80`, `operations.rs:223`) | the pass aborts for good |
| `ReadModelsExact` | an interrupted migration "retries the same version safely" (`schema.rs:483`) | interrupted in its loop (`cut`), it leaves summaries that count too little |
| `ListAgreesWithDetail` | "resolution cannot drift" (`bucket_api.rs:67`) | the list dates occurrences by hour and misses a recurrence in the hour of the fix |
| `TicketOwed` | "when a NEW bucket appears for a configured app, file an" issue (`integrations/mod.rs:7`) | a failed read counts as no configuration, and the drain completes the outbox row |
| `RegressedTicketIsOpen` | "recurrence reopens it" (`integrations/mod.rs:12`) | after the tracker was replaced the hook names nothing, or another issue |
| `ActiveIsComplete` | provisioning is idempotent, a race reuses the project (`provider.rs:42`, `361`) | two provisioners at the hosted provider make two, and the tenant may be active over the one without schema |
| `OnlyThisProjectsKeys` | "only this project's keys" (`integration_tests.rs:457`) | keys are selected by a number that every tenant uses |
| `OwnerRemains` | "the last owner cannot be demoted" (`organizations.rs:601`) | it can, by two demotions at once, a failed read, or an addition or acceptance that overwrites the role |
| `SeatsNotOverbooked` | an organization "can't seat more members than its plan allows" (`organizations.rs:715`) | a grant counts members only, and outside the lock of the invitations |
| `SingleUse` | a workspace is made "exactly once" (`auth/mod.rs:454`) | two requests that find none make two, and so does one that cannot read it |

What the code does not promise either is an exception too, and worth knowing:

- an upload to a capture counts evidence and capture files against the quota, but
  evidence is admitted on its own counter alone; a capture can be completed with a
  file that is not there, because an upload admitted before may replace its verified
  row between the check and the completing write (`README.md:111` of the repository
  says otherwise);
- an object loses its row when its put reported an error and had stored something all
  the same (`remove_evidence` deletes the row), when the upload wrote while a deletion
  had the key in hand, and when a sample deletion, which deletes the rows first, fails
  or stops; a declared file may be partial under a row that says uploaded when two
  uploads of it overlapped, until another upload replaces it, and missing when a
  project deletion took it and stopped;
- the app limit is counted before the row is written, and two creations at once overrun
  it;
- a crash between `create_issue` and `link_ticket` leaves an issue without a link,
  and the retry files a second one; a sweep that stops between event and baseline
  logs the event again, and one that stops after closing a ticket leaves it closed
  if the bug recurs before the next pass;
- `first_seen` and `last_seen` of a summary may span more than the remaining rows,
  because they are recomputed only when an end by id goes; hourly windows drift
  when a batch's deployment is not the build its findings name;
- a tenant whose status an operator sets by hand may be active half-provisioned;
  offboarding warns of, and goes on after, objects or databases that could not be
  deleted;
- a login that checked the old password before a reset creates its session after it.

## Bounds and fairness

Three shards and two workers are enough for a shard to be requeued, claimed again
and completed while its first claimant still holds a token and a sibling is pending.
`MaxAttempts` bounds losses and late heartbeats: the shard of one seed may be lost or
late once, and so has a first and a second claimant, under one stable id or two; the
others are claimed once. The liveness run drops one shard to keep the behaviour graph
small. `hint_race` needs two jobs of one tenant and no loss. The scheduler's clock has
the instants around the largest possible overtaking (24 600 s). The `artifacts` run has
three uploads for a quota of two, one of them expired and of the sample bucket, and one
declared file next to `manifest.json` with two `put_file` requests. `Focus` lets it
explore evidence and captures side by side, not at once (they meet only in the quota and
in the deletion of the project; the proofs cover both at once), follows a behaviour until a second evidence object is lost, and gives the manifest one content. The plain
seeds of a job, `put_file` requests, plain uploads and trackers are interchangeable
(`SYMMETRY`), never in a liveness run.

`telemetry` has two buckets on two builds: two legacy rows of a bug on the old
build, for the backfill, and three batches: its recurrence on the build that claims
the fix (sent twice, beside a sample), sample data without a deployment, and clean
traffic; with two open transactions, and a clock of two hours in which retention and
the retry horizon pass. `K_ANON` = 2 so that one row more or less
decides. `NotCut` stops a behaviour once an interrupted migration has completed:
nothing is claimed of it. `lifecycle` has one bucket, one filing task, three
batches, two trackers, two edits (a triage, a replay, or a tracker exchanged), two issues
and one fault: enough to resolve, regress, and be edited during a sweep or a replay. No
tracker is in the environment there; the theorems hold with any. `tenancy` has an established and a new organization, caches of
one entry (so the two evict each other), two commands or deletions, two requests,
two activities at a time and one fault, for either provider. `accounts` has three
users, one of them new, in a team with one owner, with two, or with an owner and a
member while the third is invited; two seats, three calls of which two may be open, and
one fault. `projects` and `tenant_keys` have two organizations (interchangeable) with a
limit of one project each, five calls of which two may be open, and one fault.

Deadlock is checked where something is always possible; in `scheduler`,
`artifacts`, `telemetry`, `retention_deletes`, `lifecycle`, `tenancy`, `accounts`,
`projects` and `tenant_keys` the system may be done: users need not call, and the clock
ends.

Fairness. Embedded workers and the poll script loop without end; a run ends
because of `SHARD_TIMEOUT`; handlers of a live server run on; the requeue sweep
runs every minute; a heartbeat that no task renews ages by itself. So claim steps, run
ends, result handlers, marks, sweeps and the ageing of *unattended* heartbeats are weakly
fair. The heartbeat task that a panicked run leaves behind attends its shard, need not
ever end, and is excepted in `StrandedRecovers`; the Mac lane that it occupies is in
`ServedOrUnhinted`. No fault is fair, and
nothing makes a *particular* candidate be claimed. `Telemetry`'s `FairSpec` makes
time and the retention pass, which a task repeats every hour, weakly fair; only
`retention_deletes` uses it, and its counterexample takes the pass again and again.

## Proofs

Eight modules of theorems, one for each component. They hold for any sets of
tenants, jobs, users, uploads, organizations and so on, any bounds on calls and
faults, and any faults, from the named assumption of the component's module only.

| Module | Proved of every behaviour | Inductive invariant |
|---|---|---|
| `ShardQueueProofs` | `TypeOK`, `FinishedJobComplete`, `OnlyClaimantCredited`, `LaneCapSlack`, `ImplementsLease` | `QueueInv`, `LaneInv` |
| `ArtifactsProofs` | `TypeOK`, `UsageExact`, `DeletionIsRetryable`, `DeclaredFilesIntact`, `ApprovedProjectFixed` | `ArtifactInv` |
| `LifecycleProofs` | `TicketOwed`, `RegressedTicketIsOpen`, `StatusChangesAreLogged`, `WontfixStands` | `LifecycleInv` |
| `ProjectsProofs` | `ProjectHasKeys`, `KeysDieWithProject`, `RotationRetires`, and `UniqueProjectsHaveKeys` | `ProjectsInv` |
| `AccountsProofs` | `TypeOK`, `OwnerRemains`, `ResetEndsSessions`, `SingleUse`, `SeatsNotOverbooked` | `AccountsInv` |
| `TenancyProofs` | `TypeOK`, `ActiveIsComplete`, `InactiveNotServed`, `OffboardLeavesNothing`, `ReconcileFinishes` | `TenancyInv` |
| `TelemetryProofs` | `OncePerHorizon`, `ReadModelsExact`, `WindowsExact`, `SurfacedAreGroups`, `ListAgreesWithDetail`, `RegressedFirst` | `HorizonInv`, `ModelsInv`, `TrafficInv` |
| `SchedulerProofs` | `TypeOK`, `OvertakingIsBounded`, `HogYields`, `RowOrderIsIrrelevant`; about the comparator and the sort, for any candidates | `IInv` |

So every invariant and every action property of the passing runs is also a theorem, but
for the types of `telemetry`, `lifecycle` and `projects`, which the proofs state and the
runs do not.

Hardly any of the properties is inductive as it stands. What each needs:

*Shard queue.* `OnlyClaimantCredited` needs that a token passing the fence is
the latest claim's or bears a shared id (`FenceIsCurrent`). A minted id names its claim;
an embedded id that one worker has for itself does so because that worker polls only when
it runs nothing (`PollersAreFree`), so it cannot claim a shard again while it holds an
older token for it. No other id tells the two apart, and `grants` says who claimed under
it (`TokensAreGranted`, `OwnerIsGranted`). So where every remote worker is minted an id
and one server process runs (`SharedIds` is empty), results are credited to the latest
claim only.
`FinishedJobComplete` needs that what a handler in `maybe_finalize` has seen
stays true (`CheckedAreTerminal`, `WrittenAreComplete`): terminal states are
never left, because claims start from pending, requeues and results from
running, and a job's shards are all inserted with it (`ShardsWithJob`). For the
refinement each action is shown to be a lease step or invisible to the lease.
`LaneCapSlack` is proved by a budget: the running Mac shards of a tenant and the
workers whose open request was admitted for one of them together stay below the
cap plus the number of workers. A request is admitted only when the running
shards alone are below the cap, and a claim exchanges its admission for a shard.
The theorem assumes finitely many workers and that the load can be read.

*Artifacts.* `UsageExact` needs that an upload has no row before it reserves.
`DeletionIsRetryable` needs that nothing is at the key of an upload before its put, nor
after a failed one that left nothing (`UnwrittenBeforePut`, `UndoneAreStray`), and that a
retention pass and the two deletions still hold in hand whatever they have yet to delete
(`SweptAreGone`, `RemovalHasAll`, `SampleHasAll`). `DeclaredFilesIntact` needs that an
upload past its hash check carries the declared contents (`CheckedBodies`), and of each
file whose uploads never overlapped that at most one is past its reservation, that the row
is unmarked until its put has ended, and that what is about to be marked has been written
(`FilesGuarded`).

*Lifecycle.* The steps of a sweep pass are tied to the log: a pass about to
record has seen a change, and one about to touch the ticket or write the baseline
finds its change at the end of the log. A closed ticket is then never behind both
log and baseline, because a regression reopens it before it becomes the baseline, unless the hook failed or
went to another tracker;
and an issue that waits for its link is nobody else's, and open unless a hook with another
ticket's id went to its tracker.

*Projects.* Every request owns something: a creation its project and its unshown
first key, a rotation the browser keys it saw, a deletion the row once only late
keys are left. `ProjectHasKeys` follows from `Endowed`, which says this of every
project whose keys nothing but its own requests has touched. `UniqueProjectsHaveKeys`
says which these are at least: the projects whose number no other organization has handed
out (`StruckHaveNamesakes`).

*Accounts.* `OwnerRemains` needs that a request about to take an owner away has read the
role, and another owner beside it, unless its read failed (`OwnersRead`): whoever then
loses the last one is recorded in `ousted`. `SingleUse` needs that a request about to make
a workspace is the user's only one and the user has none (`NeedIsReal`, `NeedIsUnique`), but
for the users in `unseen`. `SeatsNotOverbooked` needs that an invitation about to be
inserted, and a grant that is not blind, has counted a seat that was free (`SeatsRead`); an
acceptance exchanges the seat of an invitation for the seat of a member.

*Tenancy.* Provisioning is in order (`InOrder`): whoever is past a step finds its
result in the row, and in the one database as long as that stands. Mappings in
the cache and in requests were read while the organization was active
(`MappingsAreRecent`). A deletion past a step has left nothing of it
(`DeletionInOrder`). The proof refuted an earlier form of `ReconcileFinishes`,
which excepted only organizations whose deletion is under way: a deletion drops
the database, its `delete_org` fails and it ends; the reconciler's schema step
then fails on a tenant that nobody deletes any more. TLC finds this with two
faults, the run has one; the exception is now the dropped database itself
(`Dropped`), which the proof covers for any number of faults.

*Telemetry.* An id on record carries the time of its last transaction, and stays
on record until the horizon has passed or the project is deleted (`HorizonInv`).

`ModelsInv` says more than exactness. The backfill only adds missing rows, so it
is right only if what it finds is all or nothing: until the migration is done the
models are empty or exact, the windows and bucket counts are empty as long as rows
have no bucket, and a first pass finds all rows without a bucket or none
(`EmptyOrExact`). This is what an interruption inside the loop breaks, and why `cut`
is excepted. Afterwards they are exact (`AllExact`). The difficult step is a
deletion: the trigger runs once per row and sees none of the deleted rows, so in the
middle a summary describes neither the old table nor the new one (`Midway`: its
count is right for the rows that have not had their turn, and it has their ends
until one of these goes, then the ends of the rows that stay). `DeletionIsExact`
carries this from row to row, for any rows a statement deletes, unless the trigger
aborts it as in `retention_deletes`. `SurfacedAreGroups` follows from the exact
counts.

`ListAgreesWithDetail` also needs `TrafficInv`: every build that rows name has a
traffic row, because a commit writes the traffic before the errors and the schema
script adds what is missing; then the list's hours and the detail's rows put the same
builds after the fix, and differ only in the hour in which it appeared.

`RegressedFirst` is a bound on the factors (each is a percentage) and the fact that
the list is sorted. It showed something: the comment on `BOOST_REGRESSED` (120)
derives the claim from the sum of the weights, 115, but a bucket that nobody has
touched collects 12 more, 127 in all. The claim is true because no severity class
weighs less than 0.3, so a regression has 132 at least; the margin is 5, and the
boost alone does not give it.

*Scheduler.* For any candidates: the comparator of `claim_order` is a strict weak
order whose ties are exactly equal scores, deadlines and tenants; the clock does
not reorder; a candidate is passed only by work at most 24 600 s younger plus 30 s
per shard its tenant has above its share; a hog comes second; any permutation of the
rows is ranked to the same scores, deadlines and tenants. The invariants of the runs
follow for any jobs and loads from `IInv`: nothing is pending or running of a job that
was not submitted, so every candidate has an age.

Induction and recursion are used in first-order form, since the library's own take
an operator: a set of numbers with 0 and every successor holds them all
(`SetInduction`), and a step function has an orbit (`Recursion`). From these come the
stages of a deletion (`DeletionStages`), the sums of the timeline (`SumType`, by the
number of elements) and the sort (`SortBySorts`: the number of predecessors is an
injection into as many places, hence onto them).

The assumptions: counts and caps are natural numbers, positive where the code
makes them so; values that stand for "no row" are no rows; roles and builds at the
start are ones of the instance, with an owner among them; sets that are counted
(users, uploads, files, jobs, buckets, builds) are finite; rows and findings are well
formed, older rows have no bucket yet, and severities are the five of the code. TLC
evaluates them on every run.

Only model-checked: liveness under fairness (`StrandedRecovers`, `CompleteJobsFinalize`,
`ServedOrUnhinted`), and the three violations.

## Plan

1. Done: `ShardLease`, `ShardQueue`, `Scheduler`, `Artifacts`, `Resolution`,
   `Telemetry`, `Lifecycle`, `Tenancy`, `Accounts`, `Projects`; their proofs.
2. Next, in the model: several server instances in the sweep of `Lifecycle`, and the
   cloud-run ledger.
3. Next, in the proofs: one statement of the types of `Telemetry`, of which
   `HorizonTypes`, `TableTypes` and `TrafficInv` hold parts.

## Not modelled

- The wire protocol (`src/protocol`): pure validation shared with the CLI; and the
  experimental backend, which is not part of the server.
- The cloud-run ledger: two guarded updates of one row that no other component reads,
  around a dispatch to the customer's CI.
- Federated login, cookies, renames, the self-host bootstrap.
- The single-tenant provider and `tenant_due_work`, which only a hosted policy
  schedules.
- Routing tables, rate limits, mail, password hashing, object store signing and
  path confinement, the static site: no state of their own.
- Message normalisation, fixtures, histograms, packages and exports of the reads.
- The trackers' and the CI's APIs, the database provider, the engine process:
  external, modelled by the outcomes the server can see.
