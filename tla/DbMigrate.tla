----------------------------- MODULE DbMigrate -----------------------------
(***************************************************************************)
(* The db-migrate Lambda (backend/db-migrate/src/main.rs): the six         *)
(* operations on one project's database, run by concurrent invocations     *)
(* that serialise on a PostgreSQL advisory lock.                           *)
(*                                                                         *)
(* The lock belongs to a session on the ahara_ops database; the work is    *)
(* done on another session.  An invocation killed at the Lambda timeout    *)
(* leaves both behind: the statement it had sent may still take effect,    *)
(* and the server ends the two sessions when it notices, the one with the  *)
(* work first unless the invocation is in Severed.                         *)
(*                                                                         *)
(* One project: lock_id gives every project its own lock.  A migration     *)
(* file is its rank in filename order; a content is a model value and      *)
(* stands for its own checksum.  Roles and SSM are module RoleCredentials. *)
(***************************************************************************)
EXTENDS Integers

CONSTANTS Procs,          \* Lambda invocations, one event each
          NFiles,         \* migration files the project may ever have
          Contents,       \* what a file may contain
          RollbackFiles,  \* the files with a counterpart under rollback/
          SeedFiles,      \* the files under seed/
          Ops,            \* the operations requested
          MaxUploads,     \* bound: changes to the bucket after the start
          Severed,        \* whose ops session may end before the work has
          Faulty,         \* may a call fail, or its reply be lost?
          Absent, NoRow, NoProc

Files == 1..NFiles

ASSUME DbMigrateAssumption ==
    /\ NFiles \in Nat /\ MaxUploads \in Nat
    /\ RollbackFiles \subseteq Files /\ SeedFiles \subseteq Files
    /\ Ops \subseteq {"migrate", "rollback", "seed", "drop", "noop", "restore"}
    /\ Faulty \in BOOLEAN
    /\ Absent \notin Contents /\ NoProc \notin Procs
    /\ NoRow \notin [sum : Contents, noop : BOOLEAN]

VARIABLES
    bucket,   \* S3: the content of each file of migrations/<project>/
    uploads,  \* changes to the bucket so far
    exists,   \* pg_database has the project's database
    tracking, \* it has the table schema_migrations
    rows,     \* that table's committed rows
    effect,   \* how many times each file's change is in the schema
    vouched,  \* files whose effect somebody vouched for: noop, or a dump
    planted,  \* seed files executed on this database
    lock,     \* the invocation whose ops session holds the advisory lock
    pc,       \* the call each invocation makes next
    alive,    \* the invocations whose process runs
    req,      \* each invocation's operation and target
    conn,     \* each invocation's session on the project's database
    files,    \* the files its loop ranges over
    cur,      \* the file its loop is at
    seen,     \* migrate: the rows read before the loop (`applied`)
    got,      \* the contents read; rollback: the row the DELETE matched
    result,   \* what it returns
    audit     \* migration_audit: the successes recorded

storeVars == <<bucket, uploads>>
dbVars    == <<exists, tracking, rows, effect, vouched, planted>>
loopVars  == <<files, cur, seen, got>>
callVars  == <<lock, alive, req, conn, audit>>
vars == <<bucket, uploads, exists, tracking, rows, effect, vouched, planted,
          lock, pc, alive, req, conn, files, cur, seen, got, result, audit>>

Row == [sum : Contents, noop : BOOLEAN]

\* The calls awaited before acquire_lock, and those between it and
\* release_lock.
PreLock == {"ensure", "create", "grant", "listseed", "connect", "lock"}
Body == {"track", "list", "load", "read", "apply", "commit",
         "rbload", "rbread", "down", "undo", "seed",
         "nquery", "nread", "ninsert",
         "terminate", "drop", "recreate", "reconnect", "dump", "base",
         "audit", "release"}
Pcs == {"idle", "done", "gone"} \cup PreLock \cup Body

\* The statements that need the session on the project's database.
Statements == {"track", "load", "apply", "commit", "rbload", "down", "undo",
               "seed", "nquery", "ninsert", "dump", "base"}

NoRows  == [f \in Files |-> NoRow]
Nothing == [f \in Files |-> Absent]
Present == {f \in Files : bucket[f] # Absent}
Tracked == {f \in Files : rows[f] # NoRow}

\* The database is missing, or as invocations before these left it.
Init ==
    /\ bucket \in [Files -> Contents \cup {Absent}] /\ uploads = 0
    /\ exists \in BOOLEAN /\ tracking \in {FALSE, exists}
    /\ rows \in {NoRows} \cup (IF tracking THEN [Files -> Row \cup {NoRow}] ELSE {})
    /\ effect = [f \in Files |-> IF rows[f] # NoRow /\ ~rows[f].noop THEN 1 ELSE 0]
    /\ vouched = {f \in Tracked : rows[f].noop} /\ planted = {}
    /\ lock = NoProc
    /\ pc = [p \in Procs |-> "idle"] /\ alive = Procs
    /\ req = [p \in Procs |-> [op |-> "none", target |-> 0]]
    /\ conn = [p \in Procs |-> "none"]
    /\ files = [p \in Procs |-> {}] /\ cur = [p \in Procs |-> 0]
    /\ seen = [p \in Procs |-> Nothing] /\ got = [p \in Procs |-> Nothing]
    /\ result = [p \in Procs |-> "none"]
    /\ audit = {}
-----------------------------------------------------------------------------
(* How a call ends.                                                        *)

Goto(p, n) == pc' = [pc EXCEPT ![p] = n]

\* The body's value is Ok: on to release_lock.
Finish(p) == Goto(p, "release") /\ result' = [result EXCEPT ![p] = "ok"]

\* `?`: out of the body to release_lock, or out of the handler before it.
Throw(p) ==
    /\ Goto(p, IF pc[p] \in Body THEN "release" ELSE "done")
    /\ result' = [result EXCEPT ![p] = "err"]

\* The statement has taken effect; its reply arrives, or does not.
Reply(p, n) ==
    \/ p \in alive /\ Goto(p, n) /\ UNCHANGED result
    \/ (p \notin alive \/ Faulty) /\ Throw(p)

At(p, n)   == pc[p] = n /\ p \in alive
Sent(p, n) == pc[p] = n /\ (n \in Statements => conn[p] = "open")

\* Mutants: the loop loses its first file; the break compares with < only.
NextUpSkips(p)   == {f \in files[p] : f > cur[p] + 1}
NextDownStops(p) == {f \in files[p] : f < cur[p] /\ f > req[p].target + 1}

NextUp(p)   == {f \in files[p] : f > cur[p]}
NextDown(p) == {f \in files[p] : f < cur[p] /\ f > req[p].target}

IsLeast(f, S)    == f \in S /\ \A g \in S : f <= g
IsGreatest(f, S) == f \in S /\ \A g \in S : f >= g

\* An open transaction of q holds the row of f (uncommitted INSERT or DELETE).
Holds(q, f) ==
    /\ conn[q] = "open" /\ cur[q] = f
    /\ pc[q] = "commit" \/ (pc[q] = "undo" /\ got[q][f] # Absent)
RowFree(f) == \A q \in Procs : ~Holds(q, f)
-----------------------------------------------------------------------------
(* The handler up to the lock.                                             *)

\* Mutant: drop does not take the lock.
FirstDropUnlocked ==
    [op \in {"migrate", "noop", "restore", "rollback", "seed", "drop"} |->
        CASE op \in {"migrate", "noop", "restore"} -> "ensure"
          [] op = "rollback" -> "connect"
          [] op = "seed" -> "listseed"
          [] OTHER -> "terminate"]

First == [op \in {"migrate", "noop", "restore", "rollback", "seed", "drop"} |->
            CASE op \in {"migrate", "noop", "restore"} -> "ensure"
              [] op = "rollback" -> "connect"
              [] op = "seed" -> "listseed"
              [] OTHER -> "lock"]

Targets(op) == CASE op = "rollback" -> 0..NFiles   \* 0: no target
                 [] op = "noop" -> Files
                 [] OTHER -> {0}

Start(p) ==
    /\ pc[p] = "idle"
    /\ \E op \in Ops : \E t \in Targets(op) :
         /\ req' = [req EXCEPT ![p] = [op |-> op, target |-> t]]
         /\ Goto(p, First[op])
    /\ UNCHANGED <<storeVars, dbVars, loopVars, lock, alive, conn, result, audit>>

EnsureDatabase(p) ==
    /\ At(p, "ensure")
    /\ Goto(p, IF exists THEN "grant" ELSE "create")
    /\ UNCHANGED <<storeVars, dbVars, loopVars, callVars, result>>

\* Check and CREATE are two statements, and no lock is held.
CreateIfMissing(p) ==
    /\ Sent(p, "create") /\ ~exists
    /\ exists' = TRUE
    /\ Reply(p, "grant")
    /\ UNCHANGED <<storeVars, loopVars, callVars, tracking, rows, effect,
                   vouched, planted>>

GrantSchemaAccess(p) ==
    /\ At(p, "grant") /\ exists
    /\ Goto(p, IF req[p].op = "restore" THEN "lock" ELSE "connect")
    /\ UNCHANGED <<storeVars, dbVars, loopVars, callVars, result>>

ListSeeds(p) ==
    /\ At(p, "listseed")
    /\ IF SeedFiles = {}
       THEN Goto(p, "done") /\ result' = [result EXCEPT ![p] = "ok"]
       ELSE Goto(p, "connect") /\ UNCHANGED result
    /\ files' = [files EXCEPT ![p] = SeedFiles]
    /\ UNCHANGED <<storeVars, dbVars, callVars, cur, seen, got>>

\* connect_as_app before the lock; restore's connect_to after the CREATE.
Connect(p) ==
    /\ At(p, "connect") \/ At(p, "reconnect")
    /\ exists
    /\ conn' = [conn EXCEPT ![p] = "open"]
    /\ Goto(p, IF pc[p] = "connect" THEN "lock" ELSE "dump")
    /\ UNCHANGED <<storeVars, dbVars, loopVars, lock, alive, req, result, audit>>

\* Mutant: restore loads the dump into the database as it is.
UnderLockInPlace(op) == IF op = "restore" THEN "reconnect" ELSE "track"

UnderLock(op) == CASE op \in {"migrate", "noop"} -> "track"
                   [] op = "rollback" -> "rbload"
                   [] op = "seed" -> "seed"
                   [] OTHER -> "terminate"

\* A dead invocation's backend keeps its place in the lock queue.
AcquireLock(p) ==
    /\ pc[p] = "lock" /\ lock = NoProc
    /\ lock' = p
    /\ Goto(p, IF p \in alive THEN UnderLock(req[p].op) ELSE "release")
    /\ UNCHANGED <<storeVars, dbVars, loopVars, alive, req, conn, result, audit>>

\* Mutant: the error path returns before release_lock.
ReleaseOnlyOnOk(p) ==
    /\ At(p, "release")
    /\ lock' = IF result[p] = "ok" THEN NoProc ELSE lock
    /\ conn' = [conn EXCEPT ![p] = "none"]
    /\ Goto(p, "done")
    /\ UNCHANGED <<storeVars, dbVars, loopVars, alive, req, result, audit>>

\* release_lock, then the return drops both clients and all locals.
ReleaseLock(p) ==
    /\ At(p, "release")
    /\ lock' = IF lock = p THEN NoProc ELSE lock
    /\ conn' = [conn EXCEPT ![p] = "none"]
    /\ files' = [files EXCEPT ![p] = {}] /\ cur' = [cur EXCEPT ![p] = 0]
    /\ seen' = [seen EXCEPT ![p] = Nothing]
    /\ got' = [got EXCEPT ![p] = Nothing]
    /\ Goto(p, "done")
    /\ UNCHANGED <<storeVars, dbVars, alive, req, result, audit>>
-----------------------------------------------------------------------------
(* migrate                                                                 *)

LocalTracking(p) ==
    /\ Sent(p, "track")
    /\ tracking' = TRUE
    /\ Reply(p, IF req[p].op = "noop" THEN "nquery" ELSE "list")
    /\ UNCHANGED <<storeVars, loopVars, callVars, exists, rows, effect, vouched,
                   planted>>

ListFiles(p) ==
    /\ At(p, "list")
    /\ files' = [files EXCEPT ![p] = Present]
    /\ Goto(p, IF req[p].op = "migrate" THEN "load" ELSE "base")
    /\ UNCHANGED <<storeVars, dbVars, callVars, cur, seen, got, result>>

\* Mutant: only the file name is compared.
LoadAppliedNames(p) ==
    /\ At(p, "load") /\ Sent(p, "load") /\ tracking
    /\ seen' = [seen EXCEPT ![p] =
                  [f \in Files |-> IF f \in Tracked THEN bucket[f] ELSE Absent]]
    /\ Goto(p, "read")
    /\ UNCHANGED <<storeVars, dbVars, callVars, files, cur, got, result>>

LoadApplied(p) ==
    /\ At(p, "load") /\ Sent(p, "load") /\ tracking
    /\ seen' = [seen EXCEPT ![p] =
                  [f \in Files |-> IF f \in Tracked THEN rows[f].sum ELSE Absent]]
    /\ Goto(p, "read")
    /\ UNCHANGED <<storeVars, dbVars, callVars, files, cur, got, result>>

\* Read the next file: skip it when recorded with this checksum, apply it
\* when not recorded.  (Another checksum is an error: Refused.)
ReadNext(p) ==
    /\ At(p, "read")
    /\ \E f \in Files :
         /\ IsLeast(f, NextUp(p))
         /\ bucket[f] # Absent
         /\ seen[p][f] \in {Absent, bucket[f]}
         /\ cur' = [cur EXCEPT ![p] = f]
         /\ got' = [got EXCEPT ![p][f] = bucket[f]]
         /\ Goto(p, IF seen[p][f] = Absent THEN "apply" ELSE "read")
    /\ UNCHANGED <<storeVars, dbVars, callVars, files, seen, result>>

MigrateComplete(p) ==
    /\ At(p, "read") /\ NextUp(p) = {}
    /\ Finish(p)
    /\ UNCHANGED <<storeVars, dbVars, callVars, loopVars>>

\* Mutants: no UNIQUE (filename); the audit row is written before the COMMIT.
ApplyNoUnique(p) ==
    /\ At(p, "apply") /\ Sent(p, "apply") /\ tracking
    /\ Goto(p, "commit")
    /\ UNCHANGED <<storeVars, dbVars, callVars, loopVars, result>>
ApplyAuditsFirst(p) ==
    /\ At(p, "apply") /\ Sent(p, "apply") /\ tracking
    /\ Goto(p, "audit")
    /\ UNCHANGED <<storeVars, dbVars, callVars, loopVars, result>>

\* BEGIN; the file's SQL; INSERT the row: nothing visible before the COMMIT,
\* but the INSERT waits for, then collides with, another row of this name.
ApplyFile(p) ==
    /\ At(p, "apply") /\ Sent(p, "apply") /\ tracking
    /\ RowFree(cur[p]) /\ rows[cur[p]] = NoRow
    /\ Goto(p, "commit")
    /\ UNCHANGED <<storeVars, dbVars, callVars, loopVars, result>>

CommitFile(p) ==
    /\ Sent(p, "commit")
    /\ rows' = [rows EXCEPT ![cur[p]] = [sum |-> got[p][cur[p]], noop |-> FALSE]]
    /\ effect' = [effect EXCEPT ![cur[p]] = @ + 1]
    /\ Reply(p, "audit")
    /\ UNCHANGED <<storeVars, callVars, loopVars, exists, tracking, vouched, planted>>

\* A failed audit write is only logged.  The per-file operations go back to
\* their loop, the others return.
Audit(p) ==
    /\ At(p, "audit")
    /\ audit' \in {audit \cup {<<req[p].op, cur[p]>>}} \cup (IF Faulty THEN {audit} ELSE {})
    /\ CASE req[p].op = "migrate"  -> Goto(p, "read") /\ UNCHANGED result
         [] req[p].op = "rollback" -> Goto(p, "rbread") /\ UNCHANGED result
         [] req[p].op = "seed"     -> Goto(p, "seed") /\ UNCHANGED result
         [] OTHER                  -> Finish(p)
    /\ UNCHANGED <<storeVars, dbVars, loopVars, lock, alive, req, conn>>
-----------------------------------------------------------------------------
(* rollback, seed, noop                                                    *)

LoadForRollback(p) ==
    /\ At(p, "rbload") /\ Sent(p, "rbload") /\ tracking
    /\ files' = [files EXCEPT ![p] = Tracked]
    /\ cur' = [cur EXCEPT ![p] = NFiles + 1]
    /\ IF Tracked = {} THEN Finish(p) ELSE Goto(p, "rbread") /\ UNCHANGED result
    /\ UNCHANGED <<storeVars, dbVars, callVars, seen, got>>

RollbackNext(p) ==
    /\ At(p, "rbread")
    /\ \E f \in RollbackFiles :
         IsGreatest(f, NextDown(p)) /\ cur' = [cur EXCEPT ![p] = f]
    /\ Goto(p, "down")
    /\ UNCHANGED <<storeVars, dbVars, callVars, files, seen, got, result>>

RollbackComplete(p) ==
    /\ At(p, "rbread") /\ NextDown(p) = {}
    /\ Finish(p)
    /\ UNCHANGED <<storeVars, dbVars, callVars, loopVars>>

\* BEGIN; the rollback SQL; DELETE, whose row count nobody looks at.
DownFile(p) ==
    /\ At(p, "down") /\ Sent(p, "down") /\ tracking
    /\ RowFree(cur[p])
    /\ got' = [got EXCEPT ![p][cur[p]] =
                 IF cur[p] \in Tracked THEN rows[cur[p]].sum ELSE Absent]
    /\ Goto(p, "undo")
    /\ UNCHANGED <<storeVars, dbVars, callVars, files, cur, seen, result>>

\* Mutant: the row is not deleted with its change.
CommitDownKeepsRow(p) ==
    /\ Sent(p, "undo")
    /\ effect' = [effect EXCEPT ![cur[p]] = @ - 1]
    /\ Reply(p, "audit")
    /\ UNCHANGED <<storeVars, callVars, loopVars, exists, tracking, rows,
                   vouched, planted>>

CommitDown(p) ==
    /\ Sent(p, "undo")
    /\ rows' = IF got[p][cur[p]] = Absent THEN rows ELSE [rows EXCEPT ![cur[p]] = NoRow]
    /\ effect' = [effect EXCEPT ![cur[p]] = @ - 1]
    /\ Reply(p, "audit")
    /\ UNCHANGED <<storeVars, callVars, loopVars, exists, tracking, vouched, planted>>

SeedNext(p) ==
    /\ Sent(p, "seed")
    /\ \E f \in Files :
         /\ IsLeast(f, NextUp(p))
         /\ cur' = [cur EXCEPT ![p] = f]
         /\ planted' = planted \cup {f}
    /\ Reply(p, "audit")
    /\ UNCHANGED <<storeVars, callVars, exists, tracking, rows, effect, vouched,
                   files, seen, got>>

SeedComplete(p) ==
    /\ At(p, "seed") /\ NextUp(p) = {}
    /\ Finish(p)
    /\ UNCHANGED <<storeVars, dbVars, callVars, loopVars>>

NoopQuery(p) ==
    /\ At(p, "nquery") /\ Sent(p, "nquery") /\ tracking
    /\ IF req[p].target \in Tracked THEN Finish(p)
       ELSE Goto(p, "nread") /\ UNCHANGED result
    /\ UNCHANGED <<storeVars, dbVars, callVars, loopVars>>

NoopRead(p) ==
    /\ At(p, "nread") /\ bucket[req[p].target] # Absent
    /\ cur' = [cur EXCEPT ![p] = req[p].target]
    /\ got' = [got EXCEPT ![p][req[p].target] = bucket[req[p].target]]
    /\ Goto(p, "ninsert")
    /\ UNCHANGED <<storeVars, dbVars, callVars, files, seen, result>>

\* The row `INSERT ... noop = TRUE` writes, and what it vouches for.
RecordNoop(p, f, c) ==
    /\ rows' = [rows EXCEPT ![f] = [sum |-> c, noop |-> TRUE]]
    /\ vouched' = vouched \cup {f}

NoopInsert(p) ==
    /\ Sent(p, "ninsert") /\ tracking
    /\ RowFree(cur[p]) /\ rows[cur[p]] = NoRow
    /\ RecordNoop(p, cur[p], got[p][cur[p]])
    /\ Reply(p, "audit")
    /\ UNCHANGED <<storeVars, callVars, loopVars, exists, tracking, effect, planted>>
-----------------------------------------------------------------------------
(* drop and restore                                                        *)

\* pg_terminate_backend on every session of the database.
TerminateSessions(p) ==
    /\ Sent(p, "terminate")
    /\ conn' = [q \in Procs |-> IF conn[q] = "open" THEN "killed" ELSE conn[q]]
    /\ Reply(p, "drop")
    /\ UNCHANGED <<storeVars, dbVars, loopVars, lock, alive, req, audit>>

\* DROP DATABASE fails while anybody is connected.
DropDatabase(p) ==
    /\ Sent(p, "drop") /\ \A q \in Procs : conn[q] # "open"
    /\ exists' = FALSE /\ tracking' = FALSE
    /\ rows' = NoRows /\ effect' = [f \in Files |-> 0]
    /\ vouched' = {} /\ planted' = {}
    /\ Reply(p, IF req[p].op = "drop" THEN "audit" ELSE "recreate")
    /\ UNCHANGED <<storeVars, loopVars, callVars>>

RecreateDatabase(p) ==
    /\ Sent(p, "recreate") /\ ~exists
    /\ exists' = TRUE
    /\ Reply(p, "reconnect")
    /\ UNCHANGED <<storeVars, loopVars, callVars, tracking, rows, effect,
                   vouched, planted>>

\* The dump holds the changes of some files, and either the rows that record
\* them or (a dump that predates the tracking table) no schema_migrations.
LoadDump(p) ==
    /\ Sent(p, "dump")
    /\ \E there \in SUBSET Files :
         /\ effect' = [f \in Files |-> IF f \in there THEN effect[f] + 1 ELSE effect[f]]
         /\ \/ /\ ~tracking /\ tracking' = TRUE
               /\ \E sums \in [there -> Contents] :
                    rows' = [f \in Files |-> IF f \in there
                                THEN [sum |-> sums[f], noop |-> FALSE] ELSE NoRow]
               /\ UNCHANGED vouched
            \/ /\ vouched' = vouched \cup there
               /\ UNCHANGED <<tracking, rows>>
    /\ Reply(p, "track")
    /\ UNCHANGED <<storeVars, loopVars, callVars, exists, planted>>

BaselineNext(p) ==
    /\ Sent(p, "base") /\ tracking
    /\ \E f \in Files :
         /\ IsLeast(f, NextUp(p))
         /\ cur' = [cur EXCEPT ![p] = f]
         /\ \/ /\ f \in Tracked
               /\ Reply(p, "base")
               /\ UNCHANGED <<rows, vouched, got>>
            \/ /\ f \notin Tracked /\ bucket[f] # Absent /\ RowFree(f)
               /\ got' = [got EXCEPT ![p][f] = bucket[f]]
               /\ RecordNoop(p, f, bucket[f])
               /\ Reply(p, "base")
    /\ UNCHANGED <<storeVars, callVars, exists, tracking, effect, planted, files, seen>>

BaselineComplete(p) ==
    /\ At(p, "base") /\ NextUp(p) = {}
    /\ cur' = [cur EXCEPT ![p] = 0]
    /\ Goto(p, "audit")
    /\ UNCHANGED <<storeVars, dbVars, callVars, files, seen, got, result>>
-----------------------------------------------------------------------------
(* Failures, and the environment.                                          *)

\* The calls that must fail in this state.
Refused(p) ==
    \/ pc[p] \in Statements /\ conn[p] # "open"
    \/ pc[p] \in {"grant", "connect", "reconnect"} /\ ~exists
    \/ pc[p] \in {"create", "recreate"} /\ exists
    \/ pc[p] = "drop" /\ \E q \in Procs : conn[q] = "open"
    \/ pc[p] \in {"load", "rbload", "apply", "down", "nquery", "ninsert", "base"} /\ ~tracking
    \/ pc[p] \in {"apply", "ninsert"} /\ cur[p] \in Tracked
    \/ pc[p] = "nread" /\ req[p].target \notin Present
    \/ pc[p] = "rbread" /\ \E f \in Files \ RollbackFiles : IsGreatest(f, NextDown(p))
    \/ pc[p] = "read" /\ \E f \in Files :
         /\ IsLeast(f, NextUp(p))
         /\ f \notin Present \/ seen[p][f] \notin {Absent, bucket[f]}
    \/ pc[p] = "base" /\ \E f \in Files \ (Present \cup Tracked) : IsLeast(f, NextUp(p))

Fail(p) ==
    /\ p \in alive /\ pc[p] \in (PreLock \cup Body) \ {"audit", "release"}
    /\ Faulty \/ Refused(p)
    /\ Throw(p)
    /\ conn' = [conn EXCEPT ![p] = IF pc[p] \in Body THEN @ ELSE "none"]
    /\ UNCHANGED <<storeVars, dbVars, loopVars, lock, alive, req, audit>>

\* The Lambda times out or is killed.
Die(p) ==
    /\ Faulty /\ p \in alive /\ pc[p] \notin {"idle", "done"}
    /\ alive' = alive \ {p}
    /\ UNCHANGED <<storeVars, dbVars, loopVars, lock, pc, req, conn, result, audit>>

\* The server notices that the client is gone: an open transaction is rolled
\* back, a statement in flight is not executed.
DbSessionEnds(p) ==
    /\ p \notin alive /\ pc[p] \notin {"idle", "done", "gone"}
    /\ conn' = [conn EXCEPT ![p] = "none"]
    /\ Goto(p, "gone")
    /\ UNCHANGED <<storeVars, dbVars, loopVars, lock, alive, req, result, audit>>

\* The ops session ends and PostgreSQL frees its advisory lock.  The handler
\* of a running invocation does not notice: nothing awaits that client until
\* an audit write or release_lock, whose errors are swallowed.
OpsSessionEnds(p) ==
    /\ lock = p
    /\ pc[p] = "gone" \/ p \in Severed
    /\ lock' = NoProc
    /\ UNCHANGED <<storeVars, dbVars, loopVars, pc, alive, req, conn, result, audit>>

Upload(f, c) ==
    /\ uploads < MaxUploads /\ bucket[f] # c
    /\ bucket' = [bucket EXCEPT ![f] = c] /\ uploads' = uploads + 1
    /\ UNCHANGED <<dbVars, loopVars, callVars, pc, result>>

Terminated == (\A p \in Procs : pc[p] \in {"done", "gone"}) /\ UNCHANGED vars

Step(p) ==
    \/ EnsureDatabase(p) \/ CreateIfMissing(p) \/ GrantSchemaAccess(p)
    \/ ListSeeds(p) \/ Connect(p) \/ AcquireLock(p) \/ ReleaseLock(p)
    \/ LocalTracking(p) \/ ListFiles(p) \/ LoadApplied(p) \/ ReadNext(p)
    \/ MigrateComplete(p) \/ ApplyFile(p) \/ CommitFile(p) \/ Audit(p)
    \/ LoadForRollback(p) \/ RollbackNext(p) \/ RollbackComplete(p)
    \/ DownFile(p) \/ CommitDown(p) \/ SeedNext(p) \/ SeedComplete(p)
    \/ NoopQuery(p) \/ NoopRead(p) \/ NoopInsert(p)
    \/ TerminateSessions(p) \/ DropDatabase(p) \/ RecreateDatabase(p)
    \/ LoadDump(p) \/ BaselineNext(p) \/ BaselineComplete(p)

Next ==
    \/ \E p \in Procs : Start(p) \/ Step(p) \/ Fail(p) \/ Die(p)
                        \/ DbSessionEnds(p) \/ OpsSessionEnds(p)
    \/ \E f \in Files, c \in Contents \cup {Absent} : Upload(f, c)
    \/ Terminated

Spec == Init /\ [][Next]_vars

\* A running invocation gets CPU and answers; the server reaps dead sessions
\* (TCP keepalive).  Starting, dying, failing and uploading are nobody's duty.
FairSpec ==
    /\ Spec
    /\ \A p \in Procs :
         /\ WF_vars(p \in alive /\ (Step(p) \/ (Refused(p) /\ Fail(p))))
         /\ WF_vars(DbSessionEnds(p))
         /\ WF_vars(pc[p] = "gone" /\ OpsSessionEnds(p))
-----------------------------------------------------------------------------
(* Properties.                                                             *)

\* The values that the stores and each invocation's locals take.
TypeOK ==
    /\ bucket \in [Files -> Contents \cup {Absent}] /\ uploads \in Nat
    /\ exists \in BOOLEAN /\ tracking \in BOOLEAN
    /\ rows \in [Files -> Row \cup {NoRow}] /\ effect \in [Files -> Int]
    /\ vouched \subseteq Files /\ planted \subseteq Files
    /\ lock \in Procs \cup {NoProc}
    /\ pc \in [Procs -> Pcs] /\ alive \subseteq Procs
    /\ req \in [Procs -> [op : Ops \cup {"none"}, target : 0..NFiles]]
    /\ conn \in [Procs -> {"none", "open", "killed"}]
    /\ files \in [Procs -> SUBSET Files] /\ cur \in [Procs -> 0..(NFiles + 1)]
    /\ seen \in [Procs -> [Files -> Contents \cup {Absent}]]
    /\ got \in [Procs -> [Files -> Contents \cup {Absent}]]
    /\ result \in [Procs -> {"none", "ok", "err"}]
    /\ audit \subseteq Ops \X (0..(NFiles + 1))

\* An invocation whose ops session ends after its work holds the advisory lock
\* at every call between acquire_lock and release_lock, the calls of a killed
\* one included, whatever sessions the others lose: two invocations are under
\* the lock at once only if one of them has lost its ops session there.
MutualExclusion == \A p \in Procs \ Severed : pc[p] \in Body => lock = p

\* schema_migrations tells what the schema holds: a file that nobody vouched
\* for has its change in the schema exactly when it has a row, and then once.
\* (BEGIN; sql; INSERT; COMMIT against kills, lost replies and restarts.)
LedgerMatchesSchema ==
    Severed = {} => \A f \in Files \ vouched :
                  effect[f] = IF f \in Tracked THEN 1 ELSE 0

\* Even when the lock is lost under a running invocation, UNIQUE (filename)
\* keeps a file from being applied on top of itself.
AppliedAtMostOnce == \A f \in Files \ vouched : effect[f] <= 1

ReturnsOk(p, op) == pc[p] = "release" /\ result[p] = "ok" /\ req[p].op = op

\* A migrate that returns Ok leaves every file it listed recorded with the
\* checksum of the content it read, whoever applied it and whenever.
OkMeansRecorded ==
    Severed = {} => \A p \in Procs : ReturnsOk(p, "migrate") =>
        \A f \in files[p] : f \in Tracked /\ rows[f].sum = got[p][f]

\* Files go in in filename order: when a file's transaction commits, every
\* listed file that sorts before it is recorded.
InFilenameOrder ==
    Severed = {} => \A p \in Procs : pc[p] = "commit" =>
        \A f \in files[p] : f < cur[p] => f \in Tracked

\* A rollback that returns Ok leaves no row after its target.
RollbackReachesTarget ==
    Severed = {} => \A p \in Procs : ReturnsOk(p, "rollback") =>
        \A f \in Tracked : f <= req[p].target

\* A restore that returns Ok leaves every listed migration recorded, so the
\* next upload does not apply to the dump what the dump already holds; a seed
\* that returns Ok has run every seed file on the database as it is now.
RestoreAndSeedComplete ==
    Severed = {} => \A p \in Procs :
        /\ ReturnsOk(p, "restore") => files[p] \subseteq Tracked
        /\ ReturnsOk(p, "seed") => files[p] \subseteq planted

\* What the audit row <<op, f>> says of the database.
AuditSays(op, f) ==
    CASE op = "migrate"  -> f \in Tracked /\ ~rows[f].noop
      [] op = "noop"     -> f \in Tracked /\ rows[f].noop
      [] op = "rollback" -> f \notin Tracked
      [] op = "seed"     -> f \in planted
      [] op = "drop"     -> Tracked = {}
      [] op = "restore"  -> exists /\ tracking

\* A success enters migration_audit only when it is true of the database.
AuditTellsTruth ==
    [][Severed = {} => \A e \in audit' \ audit : AuditSays(e[1], e[2])]_vars

\* What the Lambda promises its projects (module SchemaLedger): whatever is
\* killed or retried, rows and schema change together, one file at a time, and
\* a dump goes into an empty database.
Ledger == INSTANCE SchemaLedger WITH recorded <- Tracked
ImplementsLedger == Ledger!Spec

\* Every invocation that starts returns or is reaped: it waits for the lock
\* or for a row only as long as somebody will let go of it.
EveryInvocationEnds ==
    \A p \in Procs : pc[p] # "idle" ~> pc[p] \in {"done", "gone"}
============================================================================
