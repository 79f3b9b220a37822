# Verification of ahara-infra

TLA+ models of the stateful parts of this repository, checked by TLC on small
instances, with proofs that the TLA+ proof system checks for instances of any
size. The reference is the code (paths below are under the repository root);
`PROJECT.json` says, definition by definition, which lines each one models.

## 1. The system

ahara-infra is the platform under a number of small projects: Terraform layers
(`infrastructure/terraform`: control, network, services) and the Rust Lambdas
they deploy (`backend/`, shared crates in `crates/`). The Lambdas are where
state changes under concurrency and failure. Lambda runs any number of
invocations of a function at once, kills one at its timeout (900 s for
db-migrate), and retries asynchronous events; S3 and EventBridge deliver at
least once and in no order.

| component | state | operations | what is hard | what makes it correct |
|---|---|---|---|---|
| **db-migrate**, operations (`backend/db-migrate/src/main.rs`) | the project's PostgreSQL database (its schema, `schema_migrations`), the `ahara_ops` database (advisory locks, `migration_audit`, `seed_runs`), S3 files | `migrate` (S3 event or manual), `rollback`, `seed`, `drop`, `noop`, `restore` | concurrent invocations; the lock is on one session and the work on another; kill between any two awaits; lost replies of COMMIT; DROP against other sessions | rows and schema move together; one body at a time; filename order; an Ok or an audited success is true; no lock for ever |
| **db-migrate**, role credentials (same file) | PostgreSQL roles and passwords, SSM parameters | `ensure_database` before migrate, noop, restore | no lock; check-then-create; password set in PostgreSQL and published to SSM in separate calls; any SSM error looks like "missing" | credentials in SSM work after invocations that returned Ok; a later run repairs what a killed one left |
| **pipeline-status** (`backend/pipeline-status`) | DynamoDB: registry, jobs | `record`, one per EventBridge event | duplicates, reordering, redrives, ties of timestamps | the item is the latest event taken in; the end of an attempt stands |
| **db-migrate-truenas** (`backend/db-migrate-truenas`) | roles and SSM parameters on the home server's PostgreSQL | `ensure_database` per registered database, `backfill_url` | no lock, no login check | as above; the URL parameter agrees with the password |
| **ci-ingest** (`backend/ci-ingest`) | PostgreSQL: runs, scans, batches; a client cached per container | report, batch, scan start, scan complete, `init_schema` | retries and reordering of start, batch and complete; schema migration by concurrent cold starts; the cached client outliving its connection | upserts are idempotent; a completed scan stays completed; migration applied once |
| **og-server** (`backend/og-server`) | caches: CDN, DB client, S3 manifest | `handler` | outage of the database or of S3, cached results of a degraded resolution | a degraded answer is cached for the short time only |
| **komodo-proxy** (`backend/komodo-proxy`) | variables, stacks in Komodo | a list of actions | stops at the first failure, retried as a whole | a retry completes what the first run began |
| **grafana-dashboard-bootstrap** | Grafana service account and tokens, SSM | rotate the deployer token | delete, create and store are three calls | SSM holds a live token |
| **grafana-dashboard-deploy** | Grafana folders and dashboards | upsert a repository's dashboards, prune the others | two deploys at once, of one repository, or of two that use one folder or one uid | a successful deploy leaves the manifest's dashboards, and those of others alone |
| **db-migrate**, library (`ops.rs`, `storage.rs`) | the same database, on a client its caller keeps; a `FileStore` | `migrate`, `noop`, `rollback`, `seed`, `acquire_lock`, `release_lock`, `ensure_database` | no operation takes the lock; an early return leaves its transaction on the client | an Ok is true; rows and schema move together; only the two known early returns spoil the client |
| **ahara-lambda-telemetry** (`crates/ahara-lambda-telemetry`) | queued spans, metrics and lines, per container | `call` of the event service, `force_flush` | a container is frozen, or reclaimed, from one answer to the next event; a flush fails; the runtime answers by itself | when the service returns, nothing is held back but what a flush reported |
| **auth-trigger** | a client map cached per container | `handler` | the cache is never refreshed | |
| cors-handler, ops-dashboard, ahara-lambda-http | none of their own | request to response | | |

### Interactions

* A project's pipeline uploads `migrations/<project>/NNN.sql`; S3 sends one
  EventBridge event per object; each starts one `migrate` of *all* files. So
  concurrent migrates of one project are the normal case, and the advisory lock
  of `acquire_lock` is what makes them safe.
* db-migrate writes `/ahara/db/<project>/*` to SSM; the project's Lambdas
  (ci-ingest and og-server among them) read them and connect. db-migrate itself
  reads them back in `connect_as_app`, which is how it notices staleness.
* grafana-dashboard-bootstrap writes the token that grafana-dashboard-deploy
  reads. Komodo-proxy reads what db-migrate-truenas writes.
* The telemetry crate wraps the handler of pipeline-status (so far of no other
  Lambda of this repository): it flushes before the answer is out.
* The library of db-migrate is what its integration tests call, one database at a
  time or several at once; the deployed binary is `main.rs` and shares no code with it.
* Terraform registers pipelines in the registry that pipeline-status reads;
  ops-dashboard reads what pipeline-status writes.

`PROJECT.json` "hazards" lists, at its line, everything found that a test would
hardly reach, and the property that covers it or why none does.

## 2. The modules

    SchemaLedger <--implements-- DbMigrate <-- MCDbMigrate, DbMigrateProofs
    SchemaLedger <--implements-- MigrationLibrary <-- MCMigrationLibrary, MigrationLibraryProofs
                                 RoleCredentials <-- MCRoleCredentials, RoleCredentialsProofs
                                 CiIngest <-- MCCiIngest, CiIngestProofs
                                 OgServer <-- MCOgServer, OgServerProofs
    PipelineStatus <-- ObservedStatus <-- MCPipelineStatus, PipelineStatusProofs
    LambdaTelemetry <--INSTANCE-- ObservedStatus
    Invocation <-- TrueNasRoles <-- KomodoProxy <-- MCKomodoProxy, KomodoProxyProofs
    Invocation <-- DashboardToken <-- Dashboards <-- MCDashboards, DashboardsProofs

An arrow that says nothing is EXTENDS. `KomodoProxy`, `Dashboards` and
`ObservedStatus` compose two parts each and have the specifications.
MC modules only give the constants values. Operators marked "Mutant" are
plausible bugs of the definition after them; no specification uses them.

### DbMigrate

One action per awaited call that matters, for each of `Procs` invocations of one
project. `pc[p]` is the call the invocation makes next, `alive` says whether its
process still runs.

| code | model |
|---|---|
| `handler`, `handle_s3_event`, `handle_manual_event` | `Start` |
| `ensure_database`, `create_database_if_missing`, `grant_schema_access` | `EnsureDatabase`, `CreateIfMissing`, `GrantSchemaAccess` (roles: module RoleCredentials) |
| `connect_as_app`, `connect_to(db_name)` | `Connect`; `conn[p]` is that session |
| `acquire_lock`, `release_lock` | `AcquireLock`, `ReleaseLock`; `lock` |
| `migrate` | `LocalTracking ListFiles LoadApplied ReadNext ApplyFile CommitFile MigrateComplete` |
| `rollback` | `LoadForRollback RollbackNext DownFile CommitDown RollbackComplete` |
| `seed` | `ListSeeds SeedNext SeedComplete` |
| `noop` | `LocalTracking NoopQuery NoopRead NoopInsert` |
| `drop_db` | `TerminateSessions DropDatabase` |
| `restore` | `TerminateSessions DropDatabase RecreateDatabase Connect LoadDump LocalTracking ListFiles BaselineNext BaselineComplete` |
| `audit` | `Audit` (successes; failing is only logged) |
| `?`, `return Err` | `Fail`, the error half of `Reply` |

The `?` in a body goes to `release_lock`, before the lock it ends the
invocation (`Throw`). A call whose effect lands may still report an error
(`Reply` with `Faulty`). `Refused` lists the calls that *must* fail in a state
(checksum mismatch, unique violation, killed session, missing database...).

Failures: `Die` at any point leaves `pc` at the call in flight. The server may
still execute it once (actions whose guard is `Sent`, not `At`) until it notices
(`DbSessionEnds`, which rolls the transaction back). The ops session ends after
that, or, for an invocation in `Severed`, at any time, also while it runs
(`OpsSessionEnds`): tokio-postgres reports a lost connection to whoever awaits
the client next, and nothing awaits the ops client until an `audit` or
`release_lock`, whose errors are dropped.

Data: a file is its rank in filename order, a content stands for its checksum
(no collisions), a file's SQL is the integer `effect[f]`: how often the change
is in the schema. `vouched` marks what the code cannot know: files whose effect
was asserted by a noop or came with a dump that has no rows.

### SchemaLedger

What db-migrate promises, without processes or failures: `Apply`, `Revert`,
`Vouch`, `Wipe`, `Load`, each atomic in row and effect. `ImplementsLedger` of
DbMigrate and of MigrationLibrary maps `recorded <- Tracked`: the two programs,
which share no code, keep the same promise.

### MigrationLibrary

`ops.rs` over a `FileStore`, one action per statement. It differs from DbMigrate
where the code does:

| code | model |
|---|---|
| a client that the caller keeps | `sess[c]`: ready, in a transaction, in a failed one, closed; it outlives the call |
| `acquire_lock`, `release_lock` around a call, or not | `workload.guarded`; `Return` ends the call and releases |
| `list_files`, `read_file` of the store in `&dyn FileStore` | `call[c].store`, one per call; it is borrowed, so it does not change |
| `execute_migration_sql`, `rollback_migration_file` | `ExecuteSql InsertRow CommitFile`, `ExecuteSql DeleteRow CommitDown` |
| `?` after the INSERT or the DELETE, whatever the server error (a lost race, a timeout, a file that changed the table) | `Throw` without a ROLLBACK: `sess[c]` becomes "aborted" (`InsertRow`, `FailInTxn`), and it stays so |
| `release_lock` on such a client | refused (`Return`): the lock stays held |
| error of the file's own SQL | `RunSql`: ROLLBACK, and the session is ready |

Callers are external and make any calls (`Call`; `MaxCalls` bounds them). A
connection may end before a statement, or between two calls when the caller drops
its client (`Disconnect`), or between a statement's effect and its reply (`Reply`).
Statements fail anywhere (`Fail`, `FailInTxn`), except `release_lock` outside a
failed transaction: a server that is there answers it. `MigrationLibraryAssumption` says what the callers owe: who
rolls back without the lock has the database to itself.

### RoleCredentials

`ensure_database`'s roles and parameters, as `main.rs` has it (`version` =
"lambda") or as `ops.rs` has it ("library": it creates what is missing and never
repairs). A password is the number of the
`generate_password` that made it. Reading a role's parameters is one step
(they are never deleted, so a read that misses one could have happened at one
moment); writing them is one step each. `SsmComplete` may answer "missing"
whenever calls can fail (`is_err()`).

### PipelineStatus

`record` for one execution. The Step Functions side is external: attempts that
run, end once, may be pending and redriven. `sent` only grows and any event in
it may be read again at any time, which is redelivery, delay and reordering in
one. `Supersedes` is `STATUS_CONDITION`. `validate` and the source filter are
not modelled: every event in `sent` passes them.

### LambdaTelemetry and ObservedStatus

What the crate's event service does around a handler: `Start`, `Finish`,
`CloseSpan` (`drop(span)`, the moment the crate's own span is queued), `Flush`
of each provider in the order of `force_flush`, and the service returns
("answering"). lambda_runtime is external and has a part in it that the
flush cannot reach: it keeps a span of its own open around the service, which
is queued when the answer is out and the container about to be frozen (`Answer`),
and it answers an event that does not deserialize (`Reject`) and a handler that
panics (`Panic`) by itself, without any flush ("lost"). `Export` is a thread of
the SDK, `Replace` a container that is reclaimed. Queues are reduced to whether they hold anything. `ObservedStatus` is
pipeline-status' `main.rs`: each action of `record` happens together with the
telemetry step of the container it is in, and a reclaimed container takes its
invocation with it.

### Invocation

What the four Lambdas of the last two compositions share: an invocation is at the
call it makes next, a reply may be lost, a killed invocation's call may still
land. `alone` is a history variable: no rival ran at the same time or began
since. The runtime is external. `Crews` is a bound: which invocations run in one
behaviour.

### TrueNasRoles

`ensure_database` of db-migrate-truenas: as RoleCredentials, one action per call,
with four PutParameters per role (`Publish`) and the URL that an older role may
lack (`BackfillUrl`). Nobody logs in with the credentials; that parameters are
there is all the code looks at (`CredentialsComplete`). `Init` is a new
database, or one that an earlier invocation left at any of its calls
(`Histories`). Rotations overlap and SSM fails to show what is there, as in the
code. The history variable `clashed` remembers which invocations rotated a role
so (`Clash`): while another rotation of the same role was under way, or because
SSM answered with an error for complete parameters. `CompleteIsKept` holds of every
behaviour and says that nothing else replaces a password in use; the other
properties speak of a role until it sees its first clash, whatever happens to the
other role. Grants are left out (idempotent).

### KomodoProxy

komodo-proxy beside it: `handler`'s loop is `NextAction` and `Abort`, each
action of a request one call to Komodo. SetVariables makes two per variable:
`CreateVariable`, and on any error of it, that of a lost reply too,
`UpdateVariable`; `NextVariable` is its loop. `Resolve` reads one
"ssm:" value per step, in any order (a HashMap). The history variable `sound`
says that the parameters were complete, with a URL, whenever the request began
to read an environment. A result with `success: false`
is `result[p] = "err"`. One stack, and the app role's URL and password as the
values it needs.

### DashboardToken

grafana-dashboard-bootstrap: one action per call to Grafana. `Init` is whatever
earlier rotations left. Retries of the health check are one wait that succeeds
or fails.

### Dashboards

grafana-dashboard-deploy, with DashboardToken's rotations under it:

| code | model |
|---|---|
| `handler`, `validate_request` | `StartDeploy` |
| `grafana_token`, `prepare_dashboard` | `ReadToken` (`invalid`: some dashboard of the request does not validate) |
| `ensure_folder` | `GetFolder WriteFolder`; the title is the request's own, and retitles a folder that has another one |
| `upsert_dashboard` | `UpsertDashboard`; the GET before it only chooses "created" or "updated" |
| `prune_dashboards` | `Search PruneDashboard` |
| `request_json`, `decode_response` | `Authorized`, `FailDeploy` (401, 404, 409) |

A dashboard is its repo tags, its folder and who wrote it. `Written` adds the
project's tag to those the JSON has of its own, as `add_managed_tags` does, and
replaces whatever has the uid (`overwrite`), another project's dashboard too.
Nothing in the code keeps two deploys out of each other's way, so `alone` is
about those that do clash (`Clash`): another title for the same folder, one
project or a tag for the other's, or a dashboard that one wants and the other
wants, or may delete. Deploys of other projects into the same folder do not clash.

### CiIngest

| code | model |
|---|---|
| `ensure_client`, `get_client` | `Receive`, `Connect`, `Fail`; `client` |
| `init_schema` | `AcquireLock CreateTracking CheckApplied RunSql InsertVersion CommitSchema Unlock` |
| `upsert_build`, `start_quality_scan`, `complete_quality_scan` | `UpsertBuild StartQualityScan CompleteQualityScan` |
| `ingest_batch` | `IngestChecks` (the three tables below `ci_run`), `IngestFindings` (the three below `quality_scan` that hold the item), `IngestSources` (two tables in one statement) |
| health, errors, 404 | `Health`, `Refuse` |

A failed attempt of `init_schema` returns early and drops its client. The
server ends that session a little later, and it holds the lock until then: lock
owner `Lingering`. A killed container's last call may still land (actions
without `c \in alive`) until `SessionEnds`. Requests are arbitrary: any order,
any number, also after a 200. `acks` remembers what was answered 200.

### OgServer

`handler` behind its CDN. `mode` is fixed per project: manifest, database, or
neither. `client[c]` and `doc[c]` are what a container caches for its lifetime,
`cdn[p]` what the CDN holds. An answer is reduced to where its tags come from,
whether it is cached for a day, and (history) which call failed while it was
resolved. The store comes and goes at any moment (`Outage`, `Recover`).

## 3. The runs

| run | instance | shows |
|---|---|---|
| history | 2 invocations of migrate, rollback, noop; 2 files, 2 contents; kills and failures; every initial history and bucket | `LedgerMatchesSchema`, `InFilenameOrder`, `RollbackReachesTarget`, `OkMeansRecorded` |
| restore | 2 invocations of migrate, seed, drop, restore; 2 files, one of them seed and rollback file too; one upload or deletion at any time | `RestoreAndSeedComplete`, `AuditTellsTruth`, `ImplementsLedger` |
| progress | 2 invocations of migrate, rollback, drop; 1 file; one of them may lose its lock while it runs; kills and failures; under `FairSpec` | `MutualExclusion`, `AppliedAtMostOnce`, `EveryInvocationEnds` |
| migration_library | 2 callers without the lock, or 2 with it, or 1 alone; 2 calls, 2 files, 2 contents, 2 stores, 5 histories; failing statements (in a transaction too), ending connections; under `FairSpec` | `OkMeansDone`, `StaysUsable`, `ImplementsLedger`, `EveryCallReturns` |
| credential_faults | 2, of the Lambda or of the library, with kills and errors | `TypeOK`, `CredentialsConverge`, `AppSelfHeals` |
| reader_staleness | 3, no faults | violates `SelfHealing`, see Findings |
| pipeline_status | 2 containers and 1 redrive without telemetry, or 1 container with metrics or with all signals; 2 instants, 2 ways to fail | `ItemIsLatest`, `NothingHeldBack`, `TerminalIsFinalWithinAttempt`, `WrittenOnce` |
| ci_ingest | 3 cold containers and health requests, or 2 warm ones and reports, checks, findings, sources, starts and completions of 1 run, scan and path, 2 commits; kills and failures; under `FairSpec` | `TypeOK`, `ApplyIsAlone`, `MigratedOnce`, `AnsweredIsStored`, `SourcesFollowScan`, `EveryRequestEnds` |
| og_caches | 2 containers, a routed and an unrouted path, each of the three modes, under `FairSpec` | `LoadFailureIsBrief`, `NoTemplateLeaks`, `OutageIsForgotten` |
| og_stale_client | the same with a database, without fairness | violates `FailureIsBrief`, see Findings |
| komodo_proxy | 2 `ensure_database`, or 1 beside a proxy, or 2 proxies; kills and errors, every history | `TypeOK`, `CompleteMeansCurrent`, `OkMeansUsable`, `CompleteIsKept`, `DeployedWorks`, `DeployFollowsEnvironment` |
| dashboards | 2 rotations, or 2 deploys, or 1 of each; 2 projects, 4 dashboards, 2 folders, 2 titles, 7 requests; kills and errors, every history | `TypeOK`, `RotationHeals`, `DeployIsThere`, `PruneSparesOthers` |

Every type invariant is proved; the runs of RoleCredentials, CiIngest, KomodoProxy
and Dashboards check theirs too, the others leave it to the proof.

**Bounds.** Two invocations suffice for every pairwise race, and a third starts
from what they left because `Init` ranges over all histories the database can
have; the reader's credentials, where a third invocation does not repair what
two left, have three. Two files are the least with an order, a prefix and a
middle; two contents, where *history* compares them, are the least with a
mismatch. A migrate reads each content once, so a replacement before the read is
another initial bucket, and one after it is not seen; uploads and deletions
during the run, which the listing can see, are in *restore* (`MaxUploads` = 1).
One redrive and two instants give every tie and every inversion that
`STATUS_CONDITION` compares: it only looks at whether attempts and orders are
less, equal or greater. Cold starts of ci-ingest have three containers: one that
holds the lock, one that waits, one that was killed or whose dropped session
lingers. Its tables are keyed by run or scan and no statement relates two keys,
so one of each is enough; two commits are the least for a start that is retried
with another one. Requests of its warm containers are split over three workloads
(`Crews`), each with the start or report they depend on: batches of different
tables do not interact. The path of a batch is one: partial batches do not
exist, a batch is one statement. og-server's paths do not interact except
through a container's caches; one that a route matches and one that none does
are its two kinds. In *komodo_proxy* and *dashboards* the third, repairing
invocation is the one that meets what `Init` left (`Histories`, `InitToken`,
dashboards by `Earlier`). Their crews are pairs: Terraform lets two deploys run
at once, and neither a proxy nor a deploy writes what the other Lambda of its
module reads, so a pair of those and one of the others add nothing to one of
each. The requests of *dashboards* are A's into its folder, with pruning, and with
two dashboards into another one; B's into A's folder, which does not clash; three of
B's that clash (with A's tag, with a dashboard of A's, with another title for
the folder), and one that is invalid. Four dashboards are what they need: what
A writes, what it prunes, one with both tags, and B's; the second folder is where
what a project moved away from is. A
library's caller keeps nothing between calls but the session, and `Init` has
what earlier calls left in the tables, so two calls are a race, or one call
after another on one client. The two stores differ in a file, the histories in
that file's content. In *pipeline_status* telemetry keeps containers apart, so
one container has all of it, and races and redrives are met without.

**Symmetry** is over interchangeable invocations, used in safety runs only.

**Deadlock** is checked in every run; `Terminated` is the one intended end.

**Fairness** (`FairSpec`). Weak fairness of each living invocation's own steps:
a Lambda that runs gets CPU and its calls answer or fail, within the 900 s
timeout, which `Die` stands for. Weak fairness of the server noticing dead
sessions: PostgreSQL's TCP keepalive. No fairness for starting, failing, dying
or uploading. Waiting is in the guards: `AcquireLock` needs the lock free,
`ApplyFile` the row free, so progress rests on somebody letting go. In CiIngest
containers keep coming for the lock, so `AcquireLock` has strong fairness:
PostgreSQL queues lock requests and grants them in order. Sessions of killed
containers and of dropped clients end. In MigrationLibrary a caller awaits its
call (weak fairness of its steps and of the refusals that must come), and
waiting for the lock or for a row has strong fairness for the same reason:
PostgreSQL grants both in the order in which they were asked for. In OgServer a
container's own steps and the expiry of what the CDN holds (`s-maxage`) are
weakly fair; outages, recoveries, visits and recycling are not.

**Severed.** `MutualExclusion` is about the invocations that are not in `Severed`,
and holds for every `Severed`: who keeps its session has the lock, so two are under
it at once only if one has lost its ops session. The ledger and the results
(`LedgerMatchesSchema`, `OkMeansRecorded` and the others) are stated for
`Severed = {}`. Otherwise they are false of the code, which never checks that it
still holds the lock; what remains then is `AppliedAtMostOnce`.

## 4. The proofs

`DbMigrateProofs` proves, for any sets of invocations, contents, rollback and
seed files, any number of files and any mix of operations:

* `TypeCorrect`: `Spec => []TypeOK`.
* `LockExcludes`: `Spec => []MutualExclusion`, for every `Severed`.
* `LedgerIsSound`: `Spec => []LedgerMatchesSchema`, if `Severed = {}`.
* `ImplementsTheLedger`: `Spec => ImplementsLedger`, if `Severed = {}`.
* what each operation promises, if `Severed = {}`: `FilesGoInInOrder` (`InFilenameOrder`),
  `OkIsRecorded` (`OkMeansRecorded`), `RollbackIsComplete`
  (`RollbackReachesTarget`), `RestoreAndSeedAreComplete`
  (`RestoreAndSeedComplete`), `AuditIsTrue` (`AuditTellsTruth`);
* `AppliedOnce` (`AppliedAtMostOnce`), with severed sessions too.

The argument. Types first, with `LocalsOK` (where each local has been set).
`MutualExclusion` is inductive: only `acquire_lock` leads into the calls under the
lock (`OnlyTheLockEnters`), and a session in order ends after them. For the ledger, an invariant about the database alone does not
survive: what an open transaction will commit must fit the rows *then*. So
`LedgerInv` adds what each pc guarantees while it holds the lock (`Guarded`, `HolderOK`): at
`commit` the row of `cur` is absent, at `undo` what the DELETE matched is still
there, at `dump` the database is empty. Since only the holder is in a body, no
other invocation can disturb that, and the step of a *dead* holder is covered by
the same clauses. The refinement reads the ledger step off each action;
everything that only moves an invocation is a stutter.

An operation's promise is about the end of a loop, so `WorkInv` says at each call
how far the loop has come: of migrate, that what it has passed is recorded with
the checksum it read; of rollback, that every row after the target is still ahead;
of restore and seed, what is baselined and planted so far. It is stated of calls
inside the lock, and `OutsideTheLock` shows that no step of another invocation
changes what it is about. `PlanInv` ties each call to the operation it belongs
to. `AuditIsTrue` is read off the same clauses at the call before the audit.
`AppliedOnce` cannot use the lock. Its invariant `OnceInv` is what PostgreSQL
guarantees alone: no two open transactions hold the row of one file, and one
that is about to commit collides with no row that is there.

`MigrationLibraryProofs` proves, for any clients, files, stores, histories and
workloads that `MigrationLibraryAssumption` allows: `LibraryTypeCorrect`,
`LibraryStaysUsable` (`Spec => StaysUsable`, an action property) and `LibraryImplementsTheLedger`
(`Spec => ImplementsLedger`). Where nobody takes the lock, what an open
transaction will commit must still fit the rows when it does. So
`LedgerOK` says of each client what holds between two of its statements: an
inserted row is its transaction's alone (`HeldOK`), what a rollback has yet to undo
is recorded (`RollbackOK`), and, for a client that is `Exclusive`, under the
lock or alone, what a migrate did not find is not (`MigrateOK`). `OthersKeep` shows
that no other client's step disturbs this: without the lock because UNIQUE
makes the second INSERT wait and then fail and nobody else rolls back, with it
because one client is inside. `LibraryOkMeansDone` (`Spec => []OkMeansDone`) adds
what a call has done so far (`AllDone`); without the lock it survives the other
callers because rows are then only added (`OthersStayDone`), and where
somebody rolls back the caller is alone (`ActiveAlone`).

`RoleCredentialsProofs` proves `TypeOK`, `CredentialsConverge` and `AppSelfHeals` for
any number of invocations. Nothing is locked, so no invariant says what the
credentials are; `CredentialsInv` says who still owes the repair if they do
not work. In the Lambda that is an invocation with its final login before it, or one
whose login is going to fail: whoever changed the password last, or the parameter
last, is one of them. In the library it is the one invocation that created the
role and has not yet published all of it.

`PipelineStatusProofs` proves the type invariant and the three properties of
`record` for any number of invocations, redrives and instants. `ItemIsLatest` is not
inductive: that a terminal event is never refused in favour of a later event that
is not one rests on what Step Functions emits (`EmittedOK`: one end per attempt,
nothing later than it), which is proved of the model of the execution.

The same module lifts that to the deployed Lambda: `ObservingIsTransparent`
shows `ObservedSpec => Spec` (every observed step is a step of `record` or a
stutter), so `ItemIsLatest` holds of it (`ObservedItemStaysLatest`).
`NothingIsHeldBack` is inductive with what each stage leaves unflushed
(`TelemetryInv`); answers that passed by the flush leave anything, and the next
flush of that container makes up for it.

`CiIngestProofs` proves `ApplyIsAlone` and `MigratedOnce` for any number of
containers and requests. The inductive invariant `ColdInv` adds to them who
holds the lock (`HoldsLock`: whoever is past `AcquireLock` and before `Unlock`,
and only they) and what its holder knows (`KnowsVersion`: inside the
transaction the version is still missing, at `unlock` it is there). Everything
that serves requests leaves these variables alone (`ServeIsCold`). Of the rows it
proves `TypeOK`, `AnsweredIsStored` and `SourcesFollowScan`. `RowInv` is those three
together: rows are only added and a scan never changes its commit (`RowsGrow`),
so what an answer promised stays (`StoredStays`); and a request that is answered
has stored what it promises in that same statement (`ServeStores`).

`OgServerProofs` proves `TypeOK`, `NoTemplateLeaks` and `LoadFailureIsBrief`,
and `FailureIsBrief` for platforms where no project runs with a database:
the violation found below is the only one of its kind. Its invariant says of each
answer in the CDN what its history allows (`Fits`), and ties each container's pc
to the project's mode (`ModeOK`).

`DashboardsProofs` proves `TypeOK` and `PruneSparesOthers` for any dashboards,
folders, titles, requests and invocations of the two Lambdas. The invariant adds to
the types that a dashboard was there at first or is as its writer's request
makes it (`DashOK`), and what a deploy has left to prune: dashboards with its own
project's tag that it was not asked for, or what a deploy that clashes with it has
put in their place (`PlanOK`), so none that it wrote. `RotationHeals` and
`DeployIsThere` hold at the end of an invocation that was `alone`; `HealOK` and
`ThereOK` say what each of its calls has made true by then. A rotation leaves the
account and the tokens as its last call left them. A deploy shares its folder with
others: `OthersDeployElsewhere` shows that the writes and prunes of a deploy that
does not clash touch none of its dashboards, tag none for its project and leave its
folder's title, and `NoNewClash` that two deploys do not come to clash
while both run (what carries a project's tag changes under them).

`KomodoProxyProofs` proves all six properties of TrueNasRoles and KomodoProxy, for any
invocations of both Lambdas and any lists of actions. Nobody tries a role's
credentials there; what vouches for them is the order of the four
PutParameters. `database` is the last, so until it is there a role is incomplete and,
as long as it has seen no clash, at most one invocation rotates it, whose progress
`ProcOK` follows; from then on nobody does (`RoleOK`, per role: `OneRole` keeps the
roles apart). `RotationsOK` holds of every behaviour: an invocation about to rotate
a complete role, and any two that rotate the same role at once, are in
`clashed`; this is `CompleteIsKept`. What works keeps working with the same password until a clash, and
a proxy that begins to read from complete parameters resolves every value to that
password, whatever runs between its reads (`ProxyOK`). `RequestOK` ties the actions
done and left to the request, so that "has set the environment" and "has
deployed after that" follow each action.

Assumptions are the ASSUMEs of the modules: the constants have the types their
comments say and the model values differ.

The refutation runs aside, everything a run checks of safety is also proved. Only
model-checked: liveness (`EveryInvocationEnds`, `EveryCallReturns`,
`EveryRequestEnds`, `OutageIsForgotten`), since fairness and ENABLED are out of the
prover's reach, and with it that nothing deadlocks. Some theorems are conditional,
and deliberately so, because what they exclude the code does not prevent:
`AppSelfHeals`, `RotationHeals`, `DeployIsThere` and `DeployFollowsEnvironment` speak of
invocations that were `alone`; `CompleteMeansCurrent`, `OkMeansUsable` and
`DeployedWorks` of a role without a clash; the ledger of DbMigrate of `Severed = {}`.
The excluded steps are in the models all the same. That there are cases left is
seen in the runs, where each property is violated once its mutant replaces the
code's definition.

## 5. Findings

* **Stale reader credentials are not healed** (`SelfHealing`, run
  *reader_staleness*). The comment at `backend/db-migrate/src/main.rs:523`
  promises repair of "missing or stale" credentials of a role. For the reader
  role only missing ones are. Two invocations that find the reader's parameters
  incomplete rotate its password in one order and publish in the other;
  PostgreSQL and SSM then disagree, and `ensure_reader_role` is content because
  both parameters exist.

* **A failed query is cached for a day** (`FailureIsBrief`, run
  *og_stale_client*). The comment at `backend/og-server/src/main.rs:519` promises
  the short cache on database failure. It holds when the connection cannot be
  made. Once a container has a client, `ensure_client` keeps it, also after its
  connection has ended; `query_og` turns the query's error into `None`, and the
  path's route still matches. So the default tags go out with
  `s-maxage=86400`, and that container goes on doing so after the database is
  back.

## 6. Not modelled, and the plan

Left out for good:

* cors-handler, ahara-lambda-http: stateless, headers and routes of one request.
* ops-dashboard: read-only queries over DynamoDB and CloudWatch.
* auth-trigger: it writes nothing. Its one piece of state, the client map, is
  loaded once per container and only Terraform changes it; nothing in the
  repository says what a warm container owes a changed map.
* of ahara-lambda-telemetry, the HTTP service (`http.rs`: the order of `event.rs`),
  what lines and metrics say, and `adoption.rs`, a scan of source files.
* `lock_id`'s arithmetic: two projects whose names collide share a lock, which is
  only slower; a name that hashes to `i64::MIN` would have to be constructed.
* the audit and seed_runs rows of the library (so it is "partly" modelled):
  their failure is swallowed and nothing reads them. (DbMigrate models the Lambda's audit.)
* Terraform (declarative), formatting, logging, TLS, grants (idempotent, no
  property reads them), checksum collisions, listings of over 1000 objects.

What is left to prove, in this order:

1. That the findings are all there is to find: the reader's credentials of
   the Lambda under the assumption that no two rotations of them clash, as for
   TrueNasRoles; og-server with a database as long as no client outlives it.
2. Abstract specifications for the components that have none: of ci-ingest's
   rows (sets that only grow, a commit per scan), of credentials (a password
   and what is published of it), each with its refinement.
3. The possibility halves of liveness that are safety: that whoever waits for a
   lock or a row waits for somebody who can still let go of it.
