------------------------------ MODULE CiIngest ------------------------------
(***************************************************************************)
(* The ci-ingest Lambda (backend/ci-ingest/src/main.rs, src/db.rs).  A     *)
(* container without a client connects and runs init_schema under an       *)
(* advisory lock before it serves; then it keeps the client and each       *)
(* request is one SQL statement.                                           *)
(*                                                                         *)
(* Reporters (the projects' CI) are external: every request may come at    *)
(* any time, any number of times, in any order.  A container serves one    *)
(* request at a time (AWS Lambda), so the mutex in ensure_client never     *)
(* blocks.  An attempt of init_schema that fails drops its client; the     *)
(* server may notice late, and holds the lock until it does (Lingering).   *)
(*                                                                         *)
(* One repository.  Rows are reduced to what relates them: keys, the       *)
(* scan's commit, status and completion.  The three tables below ci_run    *)
(* are one, and so are the three below quality_scan whose statements       *)
(* differ only in columns.                                                 *)
(***************************************************************************)
EXTENDS Naturals

CONSTANTS Containers, Runs, Scans, Commits,
          Paths,      \* the items of a batch
          Workloads,  \* who serves what: see Init
          Faulty,     \* may a call fail, or its reply be lost?
          NoOne, Lingering, NoRow

ASSUME CiIngestAssumption ==
    /\ {NoOne, Lingering} \cap Containers = {} /\ NoOne # Lingering
    /\ NoRow \notin [run : Runs, commit : Commits, status : {"pending", "complete"},
                     completed : BOOLEAN]
    /\ Workloads \subseteq [crew : SUBSET Containers, warm : BOOLEAN,
                            kinds : SUBSET {"health", "report", "checks", "start",
                                            "complete", "findings", "sources"}]
    /\ Faulty \in BOOLEAN

VARIABLES
    workload,  \* one of Workloads, for the whole behaviour
    lock,      \* the session that holds the advisory lock 8104202026
    tracking,  \* ci_schema_migration exists
    recorded,  \* it has the version 001_engineering_quality.sql
    schema,    \* how many times that file's SQL was committed
    pc,        \* the call each container makes next
    alive,     \* the containers whose process runs
    client,    \* each container's cached client
    req,       \* the request each container serves
    builds,    \* ci_run: its run_ids
    checks,    \* ci_check, test_suite, coverage_file
    scan,      \* quality_scan
    findings,  \* quality_file_metric, quality_function_metric, quality_finding
    sources,   \* quality_source
    links,     \* quality_scan_source
    acks       \* history: the requests answered 200, where that is a promise

schemaVars == <<lock, tracking, recorded, schema>>
rowVars    == <<builds, checks, scan, findings, sources, links>>
vars == <<workload, lock, tracking, recorded, schema, pc, alive, client, req,
          builds, checks, scan, findings, sources, links, acks>>

\* The reporter names the status: pending at a start, complete at a completion.
ScanRow == [run : Runs, commit : Commits, status : {"pending", "complete"},
            completed : BOOLEAN]
Batches == SUBSET Paths \ {{}}

\* The requests the handler routes.  validate_batch refuses an empty batch.
Requests == [kind : {"health"}]
            \cup [kind : {"report"}, run : Runs]
            \cup [kind : {"checks"}, run : Runs, items : Batches]
            \cup [kind : {"start"}, scan : Scans, run : Runs, commit : Commits]
            \cup [kind : {"complete"}, scan : Scans]
            \cup [kind : {"findings", "sources"}, scan : Scans, items : Batches]

Idle == [kind |-> "idle"]

\* The awaits of get_client and init_schema, in order.
Txn  == {"sql", "insert", "commit"}
Held == {"table", "check", "unlock"} \cup Txn
Cold == {"connect", "lock"} \cup Held

\* The containers of the workload's crew are there, either as they start or,
\* once the file is applied, with a client each.
Init ==
    /\ workload \in Workloads
    /\ lock = NoOne
    /\ tracking \in BOOLEAN /\ recorded \in {FALSE, tracking}
    /\ workload.warm => recorded
    /\ schema = IF recorded THEN 1 ELSE 0
    /\ alive = workload.crew
    /\ pc = [c \in Containers |-> IF c \in alive THEN "idle" ELSE "gone"]
    /\ client = [c \in Containers |-> IF c \in alive /\ workload.warm THEN "cached" ELSE "none"]
    /\ req = [c \in Containers |-> Idle]
    /\ builds = {} /\ checks = {} /\ scan = [s \in Scans |-> NoRow]
    /\ findings = {} /\ sources = {} /\ links = {}
    /\ acks = {}
-----------------------------------------------------------------------------
(* Requests and clients.                                                   *)

Goto(c, n) == pc' = [pc EXCEPT ![c] = n]

\* ensure_client: `guard.is_none()` decides, not whether the client works.
Receive(c) ==
    /\ c \in alive /\ pc[c] = "idle"
    /\ \E m \in Requests : m.kind \in workload.kinds /\ req' = [req EXCEPT ![c] = m]
    /\ Goto(c, IF client[c] = "none" THEN "connect" ELSE "serve")
    /\ UNCHANGED <<schemaVars, rowVars, alive, client, acks>>

\* A statement has taken effect and leaves the lock as l.  Its reply arrives;
\* or it does not, the attempt fails (`?`) and drops its client, whose session
\* lives on for a while; or nobody is there any more.
Reply(c, n, l) ==
    \/ /\ c \in alive /\ Goto(c, n)
       /\ lock' = l /\ UNCHANGED req
    \/ /\ c \in alive /\ Faulty
       /\ Goto(c, "idle") /\ req' = [req EXCEPT ![c] = Idle]
       /\ lock' = IF l = c THEN Lingering ELSE l
    \/ /\ c \notin alive /\ Goto(c, "adrift")
       /\ lock' = l /\ UNCHANGED req

Connect(c) ==
    /\ c \in alive /\ pc[c] = "connect"
    /\ Reply(c, "lock", lock)
    /\ UNCHANGED <<rowVars, tracking, recorded, schema, alive, client, acks>>

\* Mutant: pg_try_advisory_lock, its answer ignored.
TryLock(c) ==
    /\ pc[c] = "lock"
    /\ Reply(c, "table", IF lock = NoOne THEN c ELSE lock)
    /\ UNCHANGED <<rowVars, tracking, recorded, schema, alive, client, acks>>

AcquireLock(c) ==
    /\ pc[c] = "lock" /\ lock = NoOne
    /\ Reply(c, "table", c)
    /\ UNCHANGED <<rowVars, tracking, recorded, schema, alive, client, acks>>

CreateTracking(c) ==
    /\ pc[c] = "table"
    /\ tracking' = TRUE
    /\ Reply(c, "check", lock)
    /\ UNCHANGED <<rowVars, recorded, schema, alive, client, acks>>

\* Mutant: the file is applied by every cold start.
ApplyAlways(c) ==
    /\ c \in alive /\ pc[c] = "check"
    /\ Reply(c, "sql", lock)
    /\ UNCHANGED <<rowVars, tracking, recorded, schema, alive, client, acks>>

CheckApplied(c) ==
    /\ c \in alive /\ pc[c] = "check"
    /\ Reply(c, IF recorded THEN "unlock" ELSE "sql", lock)
    /\ UNCHANGED <<rowVars, tracking, recorded, schema, alive, client, acks>>

\* BEGIN and the file's SQL; the INSERT of its version.  Nobody sees them
\* before the COMMIT; an error is followed by ROLLBACK.
RunSql(c) ==
    /\ c \in alive /\ pc[c] = "sql"
    /\ Reply(c, "insert", lock)
    /\ UNCHANGED <<rowVars, tracking, recorded, schema, alive, client, acks>>

InsertVersion(c) ==
    /\ c \in alive /\ pc[c] = "insert"
    /\ Reply(c, "commit", lock)
    /\ UNCHANGED <<rowVars, tracking, recorded, schema, alive, client, acks>>

CommitSchema(c) ==
    /\ pc[c] = "commit"
    /\ recorded' = TRUE /\ schema' = schema + 1
    /\ Reply(c, "unlock", lock)
    /\ UNCHANGED <<rowVars, tracking, alive, client, acks>>

\* Mutant: the lock is left to the session, which now outlives init_schema.
KeepLock(c) ==
    /\ c \in alive /\ pc[c] = "unlock"
    /\ Goto(c, "serve") /\ client' = [client EXCEPT ![c] = "cached"]
    /\ UNCHANGED <<schemaVars, rowVars, alive, req, acks>>

\* init_schema returns Ok and ensure_client caches the client.
Unlock(c) ==
    /\ pc[c] = "unlock" /\ lock = c
    /\ Reply(c, "serve", NoOne)
    /\ client' = [client EXCEPT ![c] = IF pc'[c] = "serve" THEN "cached" ELSE @]
    /\ UNCHANGED <<rowVars, tracking, recorded, schema, alive, acks>>

\* A call of get_client fails.
Fail(c) ==
    /\ Faulty /\ c \in alive /\ pc[c] \in Cold
    /\ Goto(c, "idle") /\ req' = [req EXCEPT ![c] = Idle]
    /\ lock' = IF lock = c THEN Lingering ELSE lock
    /\ UNCHANGED <<rowVars, tracking, recorded, schema, alive, client, acks>>

\* A cached connection ends: nobody replaces it.
Break(c) ==
    /\ Faulty /\ client[c] = "cached"
    /\ client' = [client EXCEPT ![c] = "broken"]
    /\ UNCHANGED <<schemaVars, rowVars, pc, alive, req, acks>>

\* The container is killed (a timeout, or reclaimed while idle).
Die(c) ==
    /\ Faulty /\ c \in alive
    /\ alive' = alive \ {c}
    /\ UNCHANGED <<schemaVars, rowVars, pc, client, req, acks>>

\* The server ends the session of a container that is gone, and of a client
\* that was dropped.
SessionEnds(c) ==
    /\ c \notin alive /\ pc[c] # "gone"
    /\ Goto(c, "gone") /\ req' = [req EXCEPT ![c] = Idle]
    /\ lock' = IF lock = c THEN NoOne ELSE lock
    /\ UNCHANGED <<rowVars, tracking, recorded, schema, alive, client, acks>>

LingeringEnds ==
    /\ lock = Lingering /\ lock' = NoOne
    /\ UNCHANGED <<rowVars, tracking, recorded, schema, pc, alive, client, req, acks>>
-----------------------------------------------------------------------------
(* The handlers: one statement each, which takes effect as a whole.        *)

Serves(c, kind) == pc[c] = "serve" /\ client[c] = "cached" /\ req[c].kind = kind

\* A 200 promises that the rows are there; of sources, only when the start of
\* their scan was answered (see IngestSources); of a completion nothing that
\* lasts, since a restart takes it back.
Promises(m) ==
    /\ m.kind # "complete"
    /\ m.kind = "sources" => \E a \in acks : a.kind = "start" /\ a.scan = m.scan

\* The answer arrives, or is lost.
Answer(c) ==
    /\ req' = [req EXCEPT ![c] = Idle]
    /\ \/ /\ c \in alive /\ Goto(c, "idle")
          /\ acks' = IF Promises(req[c]) THEN acks \cup {req[c]} ELSE acks
       \/ /\ c \in alive /\ Faulty /\ Goto(c, "idle")
          /\ UNCHANGED acks
       \/ /\ c \notin alive /\ Goto(c, "adrift")
          /\ UNCHANGED acks
    /\ UNCHANGED <<schemaVars, alive, client>>

\* GET /health: a client was cached, whether it works or not.
Health(c) ==
    /\ pc[c] = "serve" /\ c \in alive /\ req[c].kind = "health"
    /\ Answer(c) /\ UNCHANGED rowVars

UpsertBuild(c) ==
    /\ Serves(c, "report")
    /\ builds' = builds \cup {req[c].run}
    /\ Answer(c) /\ UNCHANGED <<checks, scan, findings, sources, links>>

\* Mutant: the rows do not get the run they belong to.
ChecksWithoutRun(c) ==
    /\ Serves(c, "checks") /\ req[c].run \in builds
    /\ checks' = checks \cup req[c].items
    /\ Answer(c) /\ UNCHANGED <<builds, scan, findings, sources, links>>

\* One of the three batches below ci_run.
IngestChecks(c) ==
    /\ Serves(c, "checks") /\ req[c].run \in builds
    /\ checks' = checks \cup ({req[c].run} \X req[c].items)
    /\ Answer(c) /\ UNCHANGED <<builds, scan, findings, sources, links>>

Pending(m) == [run |-> m.run, commit |-> m.commit, status |-> "pending", completed |-> FALSE]

\* Mutants: the conflict also updates the commit; the row is deleted first,
\* and its children with it (ON DELETE CASCADE).
RestartedCommit(row, m)  == [row EXCEPT !.status = "pending", !.completed = FALSE,
                                        !.commit = m.commit]
StartReplaces(c) ==
    /\ Serves(c, "start") /\ req[c].run \in builds
    /\ scan' = [scan EXCEPT ![req[c].scan] = Pending(req[c])]
    /\ findings' = {f \in findings : f[1] # req[c].scan}
    /\ links' = {l \in links : l.scan # req[c].scan}
    /\ Answer(c) /\ UNCHANGED <<builds, checks, sources>>

\* ON CONFLICT (scan_id) DO UPDATE: run, repo and commit keep their values.
Restarted(row, m) == [row EXCEPT !.status = "pending", !.completed = FALSE]

\* The foreign key to ci_run is checked for a new row only.
StartQualityScan(c) ==
    LET m == req[c] IN
    /\ Serves(c, "start")
    /\ \/ /\ scan[m.scan] = NoRow /\ m.run \in builds
          /\ scan' = [scan EXCEPT ![m.scan] = Pending(m)]
       \/ /\ scan[m.scan] # NoRow
          /\ scan' = [scan EXCEPT ![m.scan] = Restarted(@, m)]
    /\ Answer(c) /\ UNCHANGED <<builds, checks, findings, sources, links>>

\* An UPDATE of no row is answered 404.
CompleteQualityScan(c) ==
    LET m == req[c] IN
    /\ Serves(c, "complete") /\ scan[m.scan] # NoRow
    /\ scan' = [scan EXCEPT ![m.scan].status = "complete", ![m.scan].completed = TRUE]
    /\ Answer(c) /\ UNCHANGED <<builds, checks, findings, sources, links>>

\* One of the three batches below quality_scan whose rows hold the item.
IngestFindings(c) ==
    /\ Serves(c, "findings") /\ scan[req[c].scan] # NoRow
    /\ findings' = findings \cup ({req[c].scan} \X req[c].items)
    /\ Answer(c) /\ UNCHANGED <<builds, checks, scan, sources, links>>

\* The sources go under the commit of the scan's row, and are linked unless
\* the scan has a link for the path.  Without a row the statement inserts
\* nothing, and is answered 200 all the same.
IngestSources(c) ==
    LET m   == req[c]
        new == {[scan |-> m.scan, commit |-> scan[m.scan].commit, path |-> p] : p \in m.items}
        old == {l.path : l \in {k \in links : k.scan = m.scan}}
    IN
    /\ Serves(c, "sources")
    /\ \/ scan[m.scan] = NoRow /\ UNCHANGED <<sources, links>>
       \/ /\ scan[m.scan] # NoRow
          /\ sources' = sources \cup {[commit |-> n.commit, path |-> n.path] : n \in new}
          /\ links' = links \cup {n \in new : n.path \notin old}
    /\ Answer(c) /\ UNCHANGED <<builds, checks, scan, findings>>

\* 404, or an error: the client is broken, or a parent row is missing.
Refuse(c) ==
    LET m == req[c] IN
    /\ c \in alive /\ pc[c] = "serve" /\ m.kind # "health"
    /\ \/ client[c] = "broken" \/ Faulty
       \/ m.kind = "checks" /\ m.run \notin builds
       \/ m.kind = "start" /\ scan[m.scan] = NoRow /\ m.run \notin builds
       \/ m.kind \in {"complete", "findings"} /\ scan[m.scan] = NoRow
    /\ Goto(c, "idle") /\ req' = [req EXCEPT ![c] = Idle]
    /\ UNCHANGED <<schemaVars, rowVars, alive, client, acks>>

Terminated == (\A c \in Containers : pc[c] = "gone") /\ UNCHANGED vars

Migrate(c) ==
    \/ Connect(c) \/ AcquireLock(c) \/ CreateTracking(c) \/ CheckApplied(c)
    \/ RunSql(c) \/ InsertVersion(c) \/ CommitSchema(c) \/ Unlock(c)

Serve(c) ==
    \/ Health(c) \/ UpsertBuild(c) \/ IngestChecks(c) \/ StartQualityScan(c)
    \/ CompleteQualityScan(c) \/ IngestFindings(c) \/ IngestSources(c) \/ Refuse(c)

Next ==
    /\ UNCHANGED workload
    /\ \/ \E c \in Containers : Receive(c) \/ Migrate(c) \/ Serve(c)
                                \/ Fail(c) \/ Break(c) \/ Die(c) \/ SessionEnds(c)
       \/ LingeringEnds
       \/ Terminated

Spec == Init /\ [][Next]_vars

\* A container that serves a request runs, and the server notices sessions
\* whose client is gone.  PostgreSQL grants its locks in the order in which
\* they were requested: whoever waits is not overtaken for ever.
FairSpec ==
    /\ Spec
    /\ \A c \in Containers :
         /\ WF_vars(c \in alive /\ (Migrate(c) \/ Serve(c)) /\ UNCHANGED workload)
         /\ SF_vars(c \in alive /\ AcquireLock(c) /\ UNCHANGED workload)
         /\ WF_vars(SessionEnds(c) /\ UNCHANGED workload)
    /\ WF_vars(LingeringEnds /\ UNCHANGED workload)
-----------------------------------------------------------------------------
(* Properties.                                                             *)

\* What the tables, the containers and the requests can hold.
TypeOK ==
    /\ lock \in Containers \cup {NoOne, Lingering}
    /\ tracking \in BOOLEAN /\ recorded \in BOOLEAN /\ schema \in Nat
    /\ pc \in [Containers -> {"idle", "serve", "adrift", "gone"} \cup Cold]
    /\ alive \subseteq Containers
    /\ client \in [Containers -> {"none", "cached", "broken"}]
    /\ req \in [Containers -> Requests \cup {Idle}]
    /\ builds \subseteq Runs /\ checks \subseteq Runs \X Paths
    /\ scan \in [Scans -> ScanRow \cup {NoRow}]
    /\ findings \subseteq Scans \X Paths
    /\ sources \subseteq [commit : Commits, path : Paths]
    /\ links \subseteq [scan : Scans, commit : Commits, path : Paths]
    /\ acks \subseteq Requests

\* Check-then-act under the advisory lock (db.rs:12-50): the answer of the
\* SELECT is still true while the migration's transaction runs, and nobody
\* else runs one, whatever was killed or lingers.
ApplyIsAlone ==
    \A c \in Containers : pc[c] \in Txn =>
        /\ ~recorded
        /\ \A d \in Containers : pc[d] \in Held => d = c

\* The migration is committed once, together with its version, and every
\* client a container has cached was initialised on it.
MigratedOnce ==
    /\ schema = IF recorded THEN 1 ELSE 0
    /\ \A c \in Containers : client[c] # "none" => recorded

\* A request that was answered 200 is in the tables and stays there, whatever
\* is retried, reordered or restarted after it.
AnsweredIsStored ==
    \A m \in acks :
        CASE m.kind = "report"   -> m.run \in builds
          [] m.kind = "checks"   -> {m.run} \X m.items \subseteq checks
          [] m.kind = "findings" -> {m.scan} \X m.items \subseteq findings
          [] m.kind = "sources"  -> \A p \in m.items : \E l \in links :
                                       l.scan = m.scan /\ l.path = p
          [] m.kind = "start"    -> scan[m.scan] # NoRow
          [] OTHER -> TRUE

\* The sources a scan links are those of the commit its row names, for every
\* order of starts, restarts and batches, although each statement copies the
\* commit of that moment.
SourcesFollowScan ==
    \A l \in links : /\ scan[l.scan] # NoRow /\ scan[l.scan].commit = l.commit
                     /\ [commit |-> l.commit, path |-> l.path] \in sources

\* Every request is answered or its container is gone: a cold start waits for
\* the lock only as long as somebody will let go of it.
EveryRequestEnds ==
    \A c \in Containers : pc[c] # "idle" ~> pc[c] \in {"idle", "gone"}
=============================================================================
