-------------------------- MODULE MigrationLibrary --------------------------
(***************************************************************************)
(* The library of db-migrate (backend/db-migrate/src/ops.rs, storage.rs):  *)
(* migrate, noop, rollback and seed over a FileStore, on a client that the *)
(* caller brings and keeps.  Against main.rs (module DbMigrate) three      *)
(* things differ: no operation takes the advisory lock, so a caller may    *)
(* (acquire_lock, release_lock) or may not; the session outlives the call, *)
(* with whatever transaction an early return left on it; and each call     *)
(* brings its own store, which does not change while it is borrowed.       *)
(*                                                                         *)
(* Callers are external: they make any calls in any order.  A connection   *)
(* that ends takes the open transaction and the lock with it, and stays    *)
(* ended.  Audit and seed_runs rows are left out: their failure is         *)
(* swallowed and nothing reads them.                                       *)
(***************************************************************************)
EXTENDS Integers

CONSTANTS Clients,        \* tokio_postgres clients, one caller each
          NFiles,         \* migration files, by rank in filename order
          Contents,       \* what a file may contain; it is its own checksum
          RollbackFiles,  \* the files with a counterpart under rollback/
          SeedFiles,      \* the files under seed/
          Stores,         \* the file stores that callers may bring
          Histories,      \* the rows that earlier callers may have left
          Workloads,      \* who calls what, with the lock or without
          MaxCalls,       \* bound: calls made in one behaviour
          Faulty,         \* may statements fail and connections end?
          Absent, NoRow, NoOne

Files == 1..NFiles
Row   == [sum : Contents, noop : BOOLEAN]

\* Who rolls back without the lock must have the database to itself.
ASSUME MigrationLibraryAssumption ==
    /\ NFiles \in Nat /\ MaxCalls \in Nat /\ Faulty \in BOOLEAN
    /\ RollbackFiles \subseteq Files /\ SeedFiles \subseteq Files
    /\ Absent \notin Contents /\ NoOne \notin Clients /\ NoRow \notin Row
    /\ Stores \subseteq [Files -> Contents \cup {Absent}]
    /\ Histories \subseteq [Files -> Row \cup {NoRow}]
    /\ Workloads \subseteq [crew : SUBSET Clients, guarded : BOOLEAN,
                            ops : SUBSET {"migrate", "noop", "rollback", "seed"}]
    /\ \A w \in Workloads : "rollback" \in w.ops =>
          w.guarded \/ \A c, d \in w.crew : c = d

VARIABLES
    workload, \* one of Workloads, for the whole behaviour
    tracking, \* the database has the table schema_migrations
    rows,     \* that table's committed rows
    effect,   \* how many times each file's change is in the schema
    vouched,  \* the files that a noop vouched for
    planted,  \* the seed files executed
    lock,     \* the client whose session holds the advisory lock
    sess,     \* each client's session: "ready", in a transaction ("txn"),
              \* in one that failed ("aborted"), or "closed"
    calls,    \* calls made so far
    pc,       \* the statement each call makes next
    call,     \* its operation, target and store
    list,     \* the files its loop ranges over
    cur,      \* the file its loop is at
    seen,     \* migrate: the rows read before the loop (`applied`)
    hit,      \* rollback: did the DELETE match a row?
    result    \* what it returns

dbVars   == <<tracking, rows, effect, vouched, planted>>
loopVars == <<list, cur, seen, hit>>
callVars == <<workload, calls, call>>
Nothing  == [f \in Files |-> Absent]
NoCall   == [op |-> "none", target |-> 0, store |-> Nothing]
vars == <<workload, tracking, rows, effect, vouched, planted, lock, sess,
          calls, pc, call, list, cur, seen, hit, result>>

Tracked == {f \in Files : rows[f] # NoRow}
Listed(store) == {f \in Files : store[f] # Absent}

\* Statements outside a transaction, calls on the store, statements inside.
Single == {"track", "load", "nquery", "ninsert", "rbload", "seed"}
Reads  == {"list", "read", "rbread"}
InTxn  == {"insert", "commit", "delete", "undo"}
Pcs    == {"idle", "lock", "sql", "down", "return"} \cup Single \cup Reads \cup InTxn

\* The database is new, or as earlier callers left it.
Init ==
    /\ workload \in Workloads
    /\ tracking \in BOOLEAN
    /\ rows \in IF tracking THEN Histories ELSE {[f \in Files |-> NoRow]}
    /\ effect = [f \in Files |-> IF rows[f] # NoRow /\ ~rows[f].noop THEN 1 ELSE 0]
    /\ vouched = {f \in Tracked : rows[f].noop} /\ planted = {}
    /\ lock = NoOne /\ sess = [c \in Clients |-> "ready"]
    /\ calls = 0 /\ pc = [c \in Clients |-> "idle"]
    /\ call = [c \in Clients |-> NoCall]
    /\ list = [c \in Clients |-> {}] /\ cur = [c \in Clients |-> 0]
    /\ seen = [c \in Clients |-> Nothing] /\ hit = [c \in Clients |-> FALSE]
    /\ result = [c \in Clients |-> "none"]
-----------------------------------------------------------------------------
(* How a statement ends.                                                   *)

Goto(c, n) == pc' = [pc EXCEPT ![c] = n]

Finish(c) == Goto(c, "return") /\ result' = [result EXCEPT ![c] = "ok"]
Throw(c)  == Goto(c, "return") /\ result' = [result EXCEPT ![c] = "err"]

\* The server ends the session; its transaction and its lock are gone.
Close(c) ==
    /\ sess' = [sess EXCEPT ![c] = "closed"]
    /\ lock' = IF lock = c THEN NoOne ELSE lock

\* The statement took effect and left the session as s; its reply arrives, or
\* the connection ends first.
Reply(c, n, s) ==
    \/ /\ Goto(c, n) /\ sess' = [sess EXCEPT ![c] = s]
       /\ UNCHANGED <<lock, result>>
    \/ Faulty /\ Throw(c) /\ Close(c)

At(c, n, s) == pc[c] = n /\ sess[c] = s

\* A file's row, uncommitted, in the open transaction of d.
Holds(d, f) ==
    sess[d] = "txn" /\ cur[d] = f /\ (pc[d] = "commit" \/ (pc[d] = "undo" /\ hit[d]))
RowFree(f)  == \A d \in Clients : ~Holds(d, f)

NextUp(c)   == {f \in list[c] : f > cur[c]}
NextDown(c) == {f \in list[c] : f < cur[c] /\ f > call[c].target}

IsLeast(f, S)    == f \in S /\ \A g \in S : f <= g
IsGreatest(f, S) == f \in S /\ \A g \in S : f >= g
-----------------------------------------------------------------------------
(* The callers.                                                            *)

First(op) == CASE op \in {"migrate", "noop"} -> "track"
               [] op = "rollback" -> "rbload"
               [] OTHER -> "seed"

Targets(op) == CASE op = "rollback" -> 0..NFiles   \* 0: no target
                 [] op = "noop" -> Files
                 [] OTHER -> {0}

\* What is under rollback/ and seed/ is the same in every store.
Brought(op) == IF op \in {"migrate", "noop"} THEN Stores ELSE {Nothing}

Call(c) ==
    /\ c \in workload.crew /\ pc[c] = "idle" /\ calls < MaxCalls
    /\ \E op \in workload.ops : \E t \in Targets(op), s \in Brought(op) :
         /\ call' = [call EXCEPT ![c] = [op |-> op, target |-> t, store |-> s]]
         /\ list' = [list EXCEPT ![c] = IF op = "seed" THEN SeedFiles ELSE {}]
         /\ Goto(c, IF workload.guarded THEN "lock" ELSE First(op))
    /\ calls' = calls + 1
    /\ UNCHANGED <<workload, dbVars, lock, sess, cur, seen, hit, result>>

AcquireLock(c) ==
    /\ At(c, "lock", "ready") /\ lock = NoOne
    /\ \/ /\ lock' = c /\ Goto(c, First(call[c].op)) /\ UNCHANGED <<sess, result>>
       \/ /\ Faulty /\ Throw(c) /\ Close(c)
    /\ UNCHANGED <<dbVars, loopVars, callVars>>

\* Mutant: the caller releases after a success only.
ReturnKeepsLock(c) ==
    /\ pc[c] = "return"
    /\ lock' = IF lock = c /\ result[c] = "ok" THEN NoOne ELSE lock
    /\ list' = [list EXCEPT ![c] = {}] /\ cur' = [cur EXCEPT ![c] = 0]
    /\ seen' = [seen EXCEPT ![c] = Nothing] /\ hit' = [hit EXCEPT ![c] = FALSE]
    /\ call' = [call EXCEPT ![c] = NoCall] /\ result' = [result EXCEPT ![c] = "none"]
    /\ Goto(c, "idle")
    /\ UNCHANGED <<workload, calls, dbVars, sess>>

\* The call's value is returned and its locals dropped; then release_lock,
\* which PostgreSQL refuses in a failed transaction.
Return(c) ==
    /\ pc[c] = "return"
    /\ lock' = IF lock = c /\ sess[c] = "ready" THEN NoOne ELSE lock
    /\ list' = [list EXCEPT ![c] = {}] /\ cur' = [cur EXCEPT ![c] = 0]
    /\ seen' = [seen EXCEPT ![c] = Nothing] /\ hit' = [hit EXCEPT ![c] = FALSE]
    /\ call' = [call EXCEPT ![c] = NoCall] /\ result' = [result EXCEPT ![c] = "none"]
    /\ Goto(c, "idle")
    /\ UNCHANGED <<workload, calls, dbVars, sess>>
-----------------------------------------------------------------------------
(* migrate                                                                 *)

LocalTracking(c) ==
    /\ At(c, "track", "ready")
    /\ tracking' = TRUE
    /\ Reply(c, IF call[c].op = "noop" THEN "nquery" ELSE "list", "ready")
    /\ UNCHANGED <<rows, effect, vouched, planted, loopVars, callVars>>

ListFiles(c) ==
    /\ pc[c] = "list"
    /\ list' = [list EXCEPT ![c] = Listed(call[c].store)]
    /\ Goto(c, "load")
    /\ UNCHANGED <<dbVars, callVars, lock, sess, cur, seen, hit, result>>

\* Mutant: only the names are loaded.
LoadNames(c) ==
    /\ At(c, "load", "ready") /\ tracking
    /\ seen' = [seen EXCEPT ![c] =
                  [f \in Files |-> IF f \in Tracked THEN call[c].store[f] ELSE Absent]]
    /\ Goto(c, "read")
    /\ UNCHANGED <<dbVars, callVars, lock, sess, list, cur, hit, result>>

LoadApplied(c) ==
    /\ At(c, "load", "ready") /\ tracking
    /\ seen' = [seen EXCEPT ![c] =
                  [f \in Files |-> IF f \in Tracked THEN rows[f].sum ELSE Absent]]
    /\ Goto(c, "read")
    /\ UNCHANGED <<dbVars, callVars, lock, sess, list, cur, hit, result>>

\* apply_migration_file up to the transaction.  Another checksum: Refused.
ReadNext(c) ==
    /\ pc[c] = "read"
    /\ \E f \in Files :
         /\ IsLeast(f, NextUp(c))
         /\ seen[c][f] \in {Absent, call[c].store[f]}
         /\ cur' = [cur EXCEPT ![c] = f]
         /\ Goto(c, IF seen[c][f] = Absent THEN "sql" ELSE "read")
    /\ UNCHANGED <<dbVars, callVars, lock, sess, list, seen, hit, result>>

MigrateComplete(c) ==
    /\ pc[c] = "read" /\ NextUp(c) = {}
    /\ Finish(c)
    /\ UNCHANGED <<dbVars, loopVars, callVars, lock, sess>>

\* Mutant: an error of the file's SQL returns without a ROLLBACK.
RunSqlNoRollback(c, n) ==
    \/ Reply(c, n, "txn")
    \/ Throw(c) /\ sess' = [sess EXCEPT ![c] = "aborted"] /\ UNCHANGED lock

\* BEGIN and the file's SQL.  An error of that SQL is followed by ROLLBACK.
RunSql(c, n) ==
    \/ Reply(c, n, "txn")
    \/ Throw(c) /\ UNCHANGED <<lock, sess>>

ExecuteSql(c) ==
    /\ \/ At(c, "sql", "ready") /\ RunSql(c, "insert")
       \/ At(c, "down", "ready") /\ RunSql(c, "delete")
    /\ UNCHANGED <<dbVars, loopVars, callVars>>

\* Mutant: no UNIQUE (filename).
InsertAnyway(c) ==
    /\ At(c, "insert", "txn") /\ RowFree(cur[c])
    /\ Reply(c, "commit", "txn")
    /\ UNCHANGED <<dbVars, loopVars, callVars>>

\* The INSERT waits for an uncommitted row of its name, then collides with a
\* committed one: `?` returns, and nobody rolls the failed transaction back.
InsertRow(c) ==
    /\ At(c, "insert", "txn") /\ RowFree(cur[c])
    /\ \/ /\ rows[cur[c]] = NoRow
          /\ Reply(c, "commit", "txn")
       \/ /\ rows[cur[c]] # NoRow
          /\ Throw(c) /\ sess' = [sess EXCEPT ![c] = "aborted"]
          /\ UNCHANGED lock
    /\ UNCHANGED <<dbVars, loopVars, callVars>>

CommitFile(c) ==
    /\ At(c, "commit", "txn")
    /\ rows' = [rows EXCEPT ![cur[c]] = [sum |-> call[c].store[cur[c]], noop |-> FALSE]]
    /\ effect' = [effect EXCEPT ![cur[c]] = @ + 1]
    /\ Reply(c, "read", "ready")
    /\ UNCHANGED <<tracking, vouched, planted, loopVars, callVars>>
-----------------------------------------------------------------------------
(* noop, rollback, seed                                                    *)

NoopQuery(c) ==
    /\ At(c, "nquery", "ready") /\ tracking
    /\ IF call[c].target \in Tracked THEN Finish(c)
       ELSE Goto(c, "ninsert") /\ UNCHANGED result
    /\ UNCHANGED <<dbVars, loopVars, callVars, lock, sess>>

\* The file is found in the store and read; the INSERT is its own transaction.
NoopInsert(c) ==
    LET f == call[c].target IN
    /\ At(c, "ninsert", "ready") /\ f \in Listed(call[c].store)
    /\ RowFree(f) /\ rows[f] = NoRow
    /\ rows' = [rows EXCEPT ![f] = [sum |-> call[c].store[f], noop |-> TRUE]]
    /\ vouched' = vouched \cup {f}
    /\ \/ Finish(c) /\ UNCHANGED <<lock, sess>>
       \/ Faulty /\ Throw(c) /\ Close(c)
    /\ UNCHANGED <<tracking, effect, planted, loopVars, callVars>>

LoadForRollback(c) ==
    /\ At(c, "rbload", "ready") /\ tracking
    /\ list' = [list EXCEPT ![c] = Tracked]
    /\ cur' = [cur EXCEPT ![c] = NFiles + 1]
    /\ IF Tracked = {} THEN Finish(c) ELSE Goto(c, "rbread") /\ UNCHANGED result
    /\ UNCHANGED <<dbVars, callVars, lock, sess, seen, hit>>

RollbackNext(c) ==
    /\ pc[c] = "rbread"
    /\ \E f \in RollbackFiles :
         IsGreatest(f, NextDown(c)) /\ cur' = [cur EXCEPT ![c] = f]
    /\ Goto(c, "down")
    /\ UNCHANGED <<dbVars, callVars, lock, sess, list, seen, hit, result>>

RollbackComplete(c) ==
    /\ pc[c] = "rbread" /\ NextDown(c) = {}
    /\ Finish(c)
    /\ UNCHANGED <<dbVars, loopVars, callVars, lock, sess>>

\* How many rows the DELETE matched is not looked at.
DeleteRow(c) ==
    /\ At(c, "delete", "txn") /\ RowFree(cur[c])
    /\ hit' = [hit EXCEPT ![c] = cur[c] \in Tracked]
    /\ Reply(c, "undo", "txn")
    /\ UNCHANGED <<dbVars, callVars, list, cur, seen>>

CommitDown(c) ==
    /\ At(c, "undo", "txn")
    /\ rows' = IF hit[c] THEN [rows EXCEPT ![cur[c]] = NoRow] ELSE rows
    /\ effect' = [effect EXCEPT ![cur[c]] = @ - 1]
    /\ Reply(c, "rbread", "ready")
    /\ UNCHANGED <<tracking, vouched, planted, loopVars, callVars>>

\* A seed file is one batch, and with it one transaction.
SeedNext(c) ==
    /\ At(c, "seed", "ready")
    /\ \E f \in Files :
         /\ IsLeast(f, NextUp(c))
         /\ cur' = [cur EXCEPT ![c] = f]
         /\ planted' = planted \cup {f}
    /\ Reply(c, "seed", "ready")
    /\ UNCHANGED <<tracking, rows, effect, vouched, callVars, list, seen, hit>>

SeedComplete(c) ==
    /\ pc[c] = "seed" /\ NextUp(c) = {}
    /\ Finish(c)
    /\ UNCHANGED <<dbVars, loopVars, callVars, lock, sess>>
-----------------------------------------------------------------------------
(* Failures.                                                               *)

\* The calls that must fail in this state.
Refused(c) ==
    \/ pc[c] \in (Single \ {"seed"}) \cup {"lock", "sql", "down"} /\ sess[c] # "ready"
    \/ pc[c] = "seed" /\ NextUp(c) # {} /\ sess[c] # "ready"
    \/ pc[c] \in InTxn /\ sess[c] # "txn"
    \/ pc[c] \in {"load", "nquery", "rbload"} /\ ~tracking
    \/ pc[c] = "ninsert" /\ \/ call[c].target \in Tracked
                            \/ call[c].target \notin Listed(call[c].store)
    \/ pc[c] = "read" /\ \E f \in Files :
         IsLeast(f, NextUp(c)) /\ seen[c][f] \notin {Absent, call[c].store[f]}
    \/ pc[c] = "rbread" /\ \E f \in Files \ RollbackFiles : IsGreatest(f, NextDown(c))

\* A statement of its own, or a read of the store, fails, and the session is
\* none the worse.
Fail(c) ==
    /\ \/ Refused(c)
       \/ Faulty /\ pc[c] \in Single \cup Reads \cup {"lock"}
    /\ Throw(c)
    /\ UNCHANGED <<dbVars, loopVars, callVars, lock, sess>>

\* A statement of the transaction fails.  A refused COMMIT rolls back; after the
\* INSERT or the DELETE `?` returns, and nobody does.
FailInTxn(c) ==
    /\ Faulty /\ pc[c] \in InTxn /\ sess[c] = "txn"
    /\ Throw(c)
    /\ sess' = [sess EXCEPT ![c] = IF pc[c] \in {"commit", "undo"} THEN "ready"
                                  ELSE "aborted"]
    /\ UNCHANGED <<dbVars, loopVars, callVars, lock>>

\* Or the caller drops its client.  The next statement notices, if there is one.
Disconnect(c) ==
    /\ Faulty /\ pc[c] # "return" /\ sess[c] # "closed"
    /\ Close(c)
    /\ UNCHANGED <<dbVars, loopVars, callVars, pc, result>>

Terminated ==
    /\ calls = MaxCalls /\ \A c \in workload.crew : pc[c] = "idle"
    /\ UNCHANGED vars

Step(c) ==
    \/ AcquireLock(c) \/ Return(c) \/ LocalTracking(c) \/ ListFiles(c)
    \/ LoadApplied(c) \/ ReadNext(c) \/ MigrateComplete(c) \/ ExecuteSql(c)
    \/ InsertRow(c) \/ CommitFile(c) \/ NoopQuery(c) \/ NoopInsert(c)
    \/ LoadForRollback(c) \/ RollbackNext(c) \/ RollbackComplete(c)
    \/ DeleteRow(c) \/ CommitDown(c) \/ SeedNext(c) \/ SeedComplete(c)

Next ==
    \/ \E c \in Clients : Call(c) \/ Step(c) \/ Fail(c) \/ FailInTxn(c) \/ Disconnect(c)
    \/ Terminated

Spec == Init /\ [][Next]_vars

\* A caller awaits its call, and statements answer or fail.  Locks are granted
\* in the order in which they were asked for.
FairSpec ==
    /\ Spec
    /\ \A c \in Clients :
         /\ WF_vars(Step(c) \/ (Refused(c) /\ Fail(c)))
         /\ SF_vars(AcquireLock(c) \/ InsertRow(c) \/ DeleteRow(c) \/ NoopInsert(c))
-----------------------------------------------------------------------------
(* Properties.                                                             *)

\* The values of the tables, the sessions and the locals of each call.
TypeOK ==
    /\ workload \in Workloads /\ calls \in 0..MaxCalls
    /\ tracking \in BOOLEAN /\ rows \in [Files -> Row \cup {NoRow}]
    /\ effect \in [Files -> Int] /\ vouched \subseteq Files /\ planted \subseteq Files
    /\ lock \in Clients \cup {NoOne}
    /\ sess \in [Clients -> {"ready", "txn", "aborted", "closed"}]
    /\ pc \in [Clients -> Pcs]
    /\ call \in [Clients -> [op : {"none", "migrate", "noop", "rollback", "seed"},
                            target : 0..NFiles, store : Stores \cup {Nothing}]]
    /\ list \in [Clients -> SUBSET Files] /\ cur \in [Clients -> 0..(NFiles + 1)]
    /\ seen \in [Clients -> [Files -> Contents \cup {Absent}]]
    /\ hit \in [Clients -> BOOLEAN] /\ result \in [Clients -> {"none", "ok", "err"}]

\* The library promises what the Lambda does (module SchemaLedger), without a
\* lock as long as nobody rolls back beside others: UNIQUE (filename), in the
\* transaction of the change, is enough (ops.rs:376-399).
Ledger == INSTANCE SchemaLedger WITH recorded <- Tracked
ImplementsLedger == Ledger!Spec

\* A call that returns Ok on a session that is still there has done what it is
\* for, although `applied` was read once and others may have run since:
\* migrate recorded every file of its store with that store's checksum, noop
\* its target, rollback left nothing after its target, seed ran every file.
OkMeansDone ==
    \A c \in Clients :
        pc[c] = "return" /\ result[c] = "ok" /\ sess[c] = "ready" =>
            CASE call[c].op = "migrate"  -> \A f \in Listed(call[c].store) :
                        f \in Tracked /\ rows[f].sum = call[c].store[f]
              [] call[c].op = "noop"     -> call[c].target \in Tracked
              [] call[c].op = "rollback" -> \A f \in Tracked : f <= call[c].target
              [] OTHER                   -> SeedFiles \subseteq planted

\* A client can be used again after whatever a file's SQL did: what leaves it in
\* a failed transaction is the library's own INSERT or DELETE, whose error
\* returns before a ROLLBACK (ops.rs:391, 662).  With the lock, or alone, that
\* INSERT has at least not lost a race.  No call leaves a transaction open, and
\* the lock outlives a call only with such a failed transaction.
StaysUsable ==
    [][\A c \in Clients :
          /\ sess'[c] = "aborted" /\ sess[c] # "aborted" => pc[c] \in {"insert", "delete"}
          /\ At(c, "insert", "txn") /\ cur[c] \in Tracked =>
                ~workload.guarded /\ \E d \in workload.crew : d # c
          /\ pc'[c] \in {"idle", "return"} => sess'[c] # "txn"
          /\ pc'[c] = "idle" /\ lock' = c => sess'[c] = "aborted"]_vars

\* Who waits for the lock behind a client in a failed transaction.
Stuck(c) == pc[c] = "lock" /\ \E d \in Clients : lock = d /\ sess[d] = "aborted"

\* Every call returns, unless it waits behind such a client: it waits for the
\* lock, or for the row of another transaction, only as long as somebody will
\* let go of it, whatever fails.
EveryCallReturns ==
    \A c \in Clients : pc[c] # "idle" ~> pc[c] = "idle" \/ Stuck(c)
=============================================================================
