--------------------------- MODULE CiIngestProofs ---------------------------
(***************************************************************************)
(* Proofs about CiIngest, for any number of containers and requests.       *)
(*                                                                         *)
(* ApplyIsAlone and MigratedOnce need each other, and both need HoldsLock: *)
(* a session between pg_advisory_lock and pg_advisory_unlock has the lock, *)
(* also when its container is gone or its reply never came.                *)
(*                                                                         *)
(* The rows (RowInv) do not rest on init_schema: their statements are      *)
(* atomic, and what matters is what none of them takes back.               *)
(***************************************************************************)
EXTENDS CiIngest, TLAPS

\* The part of the type that init_schema rests on.
ColdType ==
    /\ lock \in Containers \cup {NoOne, Lingering}
    /\ recorded \in BOOLEAN /\ schema \in Nat
    /\ pc \in [Containers -> {"idle", "serve", "adrift", "gone"} \cup Cold]
    /\ client \in [Containers -> {"none", "cached", "broken"}]

\* Whoever is inside init_schema's critical section has the lock.
HoldsLock == \A c \in Containers : pc[c] \in Held => lock = c

\* Where the version was looked up, what is known of it.
KnowsVersion ==
    \A c \in Containers : /\ pc[c] \in Txn => ~recorded
                          /\ pc[c] = "unlock" => recorded

ColdInv == ColdType /\ HoldsLock /\ KnowsVersion /\ MigratedOnce

coldVars == <<lock, tracking, recorded, schema, pc, client>>

\* A row's statement touches nothing that init_schema uses, save that its
\* container goes on to its next request.
LEMMA ServeIsCold ==
    ASSUME ColdType, NEW c \in Containers, Serve(c)
    PROVE  /\ UNCHANGED <<lock, recorded, schema, client>>
           /\ \E n \in {"idle", "adrift"} : pc' = [pc EXCEPT ![c] = n]
  <1>1. CASE Refuse(c)
      BY <1>1 DEF Refuse, Goto, schemaVars
  <1>2. ASSUME Answer(c)
        PROVE  /\ UNCHANGED <<lock, recorded, schema, client>>
               /\ \E n \in {"idle", "adrift"} : pc' = [pc EXCEPT ![c] = n]
      BY <1>2 DEF Answer, Goto, schemaVars
  <1>3. CASE ~Refuse(c)
    <2>1. Answer(c)
        BY <1>3 DEF Serve, Health, UpsertBuild, IngestChecks, StartQualityScan,
                    CompleteQualityScan, IngestFindings, IngestSources
    <2> QED
        BY <2>1, <1>2
  <1> QED
      BY <1>1, <1>3

\* Leaving the critical section, or staying out of it, keeps the invariant
\* when only a lock that c held changes hands.
LEMMA MoveOut ==
    ASSUME ColdInv, NEW c \in Containers,
           NEW n \in {"idle", "serve", "adrift", "gone", "connect", "lock"},
           pc' = [pc EXCEPT ![c] = n],
           lock' = lock \/ (lock = c /\ lock' \in {NoOne, Lingering}),
           UNCHANGED <<recorded, schema, client>>
    PROVE  ColdInv'
  <1> USE CiIngestAssumption
  <1>1. /\ pc'[c] = n
        /\ \A d \in Containers : d # c => pc'[d] = pc[d]
      BY DEF ColdInv, ColdType
  <1>2. ColdType'
      BY DEF ColdInv, ColdType, Cold
  <1>3. HoldsLock'
      BY <1>1 DEF ColdInv, HoldsLock, Held, Txn
  <1>4. KnowsVersion'
      BY <1>1 DEF ColdInv, KnowsVersion, Txn
  <1>5. MigratedOnce'
      BY DEF ColdInv, MigratedOnce
  <1> QED
      BY <1>2, <1>3, <1>4, <1>5 DEF ColdInv

\* Each step of the critical section: c is the only one inside.
LEMMA MigrateStep ==
    ASSUME ColdInv, NEW c \in Containers, Migrate(c)
    PROVE  ColdInv'
  <1> USE CiIngestAssumption
  <1>1. CASE Connect(c)
    <2>1. /\ UNCHANGED <<recorded, schema, client>>
          /\ lock' = lock \/ (lock = c /\ lock' = Lingering)
          /\ \E n \in {"idle", "adrift", "lock"} : pc' = [pc EXCEPT ![c] = n]
        BY <1>1 DEF Connect, Reply, Goto, ColdInv, ColdType
    <2> QED
        BY <2>1, MoveOut
  <1>2. CASE AcquireLock(c)
    <2>1. UNCHANGED <<recorded, schema, client>> /\ lock = NoOne
        BY <1>2 DEF AcquireLock
    <2>2. /\ \E n \in {"table", "idle", "adrift"} : pc' = [pc EXCEPT ![c] = n]
          /\ lock' \in {c, Lingering}
          /\ pc' = [pc EXCEPT ![c] = "table"] => lock' = c
        BY <1>2 DEF AcquireLock, Reply, Goto, ColdInv, ColdType
    <2>3. \A d \in Containers : pc[d] \notin Held
        BY <2>1 DEF ColdInv, HoldsLock
    <2>4. ColdType'
        BY <2>1, <2>2 DEF ColdInv, ColdType, Cold, Held
    <2>5. HoldsLock'
      <3> SUFFICES ASSUME NEW d \in Containers, pc'[d] \in Held
                   PROVE  lock' = d
          BY DEF HoldsLock
      <3>1. PICK n \in {"table", "idle", "adrift"} : pc' = [pc EXCEPT ![c] = n]
          BY <2>2
      <3>2. d = c
          BY <2>3, <3>1 DEF ColdInv, ColdType
      <3>3. n = "table"
          BY <3>1, <3>2 DEF ColdInv, ColdType, Held, Txn
      <3> QED
          BY <2>2, <3>1, <3>2, <3>3
    <2>6. KnowsVersion' /\ MigratedOnce'
        BY <2>1, <2>2 DEF ColdInv, ColdType, KnowsVersion, MigratedOnce, Txn
    <2> QED
        BY <2>4, <2>5, <2>6 DEF ColdInv
  <1>3. ASSUME NEW n \in Held, pc[c] \in Held, Reply(c, n, lock),
               UNCHANGED <<recorded, schema, client>>,
               n \in Txn => ~recorded, n = "unlock" => recorded
        PROVE  ColdInv'
    <2>1. lock = c
        BY <1>3 DEF ColdInv, HoldsLock
    <2>2. CASE pc' = [pc EXCEPT ![c] = n] /\ lock' = lock
      <3>1. ColdType' /\ HoldsLock'
          BY <1>3, <2>1, <2>2 DEF ColdInv, ColdType, HoldsLock, Cold
      <3>2. KnowsVersion' /\ MigratedOnce'
          BY <1>3, <2>2 DEF ColdInv, ColdType, KnowsVersion, MigratedOnce
      <3> QED
          BY <3>1, <3>2 DEF ColdInv
    <2>3. CASE pc' = [pc EXCEPT ![c] = "idle"] /\ lock' = Lingering
        BY <1>3, <2>1, <2>3, MoveOut
    <2>4. CASE pc' = [pc EXCEPT ![c] = "adrift"] /\ lock' = lock
        BY <1>3, <2>4, MoveOut
    <2> QED
        BY <1>3, <2>1, <2>2, <2>3, <2>4 DEF Reply, Goto
  <1>4. CASE CreateTracking(c)
      BY <1>4, <1>3 DEF CreateTracking, Held, Txn
  <1>5. CASE CheckApplied(c)
    <2> DEFINE n == IF recorded THEN "unlock" ELSE "sql"
    <2>1. n \in Held /\ (n \in Txn => ~recorded) /\ (n = "unlock" => recorded)
        BY DEF Held, Txn
    <2>2. pc[c] \in Held /\ Reply(c, n, lock) /\ UNCHANGED <<recorded, schema, client>>
        BY <1>5 DEF CheckApplied, Held
    <2> QED
        BY <2>1, <2>2, <1>3
  <1>6. CASE RunSql(c) \/ InsertVersion(c)
    <2>1. ~recorded
        BY <1>6 DEF RunSql, InsertVersion, ColdInv, KnowsVersion, Txn
    <2> QED
        BY <1>6, <2>1, <1>3 DEF RunSql, InsertVersion, Held, Txn
  <1>7. CASE CommitSchema(c)
    <2>1. ~recorded /\ lock = c /\ recorded' /\ schema' = 1
        BY <1>7 DEF CommitSchema, ColdInv, ColdType, HoldsLock, KnowsVersion,
                    MigratedOnce, Held, Txn
    <2>2. \A d \in Containers : pc[d] \in Held => d = c
        BY <2>1 DEF ColdInv, HoldsLock
    <2>3. /\ \E n \in {"unlock", "idle", "adrift"} : pc' = [pc EXCEPT ![c] = n]
          /\ lock' \in {c, Lingering}
          /\ pc' = [pc EXCEPT ![c] = "unlock"] => lock' = c
        BY <1>7, <2>1 DEF CommitSchema, Reply, Goto, ColdInv, ColdType
    <2>4. UNCHANGED client
        BY <1>7 DEF CommitSchema
    <2>5. ColdType' /\ MigratedOnce'
        BY <2>1, <2>3, <2>4 DEF ColdInv, ColdType, MigratedOnce, Cold, Held
    <2>6. HoldsLock' /\ KnowsVersion'
        BY <2>1, <2>2, <2>3 DEF ColdInv, ColdType, HoldsLock, KnowsVersion, Held, Txn
    <2> QED
        BY <2>5, <2>6 DEF ColdInv
  <1>8. CASE Unlock(c)
    <2>1. /\ lock = c /\ recorded /\ lock' = NoOne /\ UNCHANGED <<recorded, schema>>
          /\ client' \in [Containers -> {"none", "cached", "broken"}]
          /\ \E n \in {"serve", "idle", "adrift"} : pc' = [pc EXCEPT ![c] = n]
        BY <1>8 DEF Unlock, Reply, Goto, ColdInv, ColdType, KnowsVersion
    <2>2. \A d \in Containers : pc[d] \in Held => d = c
        BY <2>1 DEF ColdInv, HoldsLock
    <2>3. ColdType' /\ MigratedOnce'
        BY <2>1 DEF ColdInv, ColdType, MigratedOnce, Cold
    <2>4. HoldsLock' /\ KnowsVersion'
        BY <2>1, <2>2 DEF ColdInv, ColdType, HoldsLock, KnowsVersion, Held, Txn
    <2> QED
        BY <2>3, <2>4 DEF ColdInv
  <1> QED
      BY <1>1, <1>2, <1>4, <1>5, <1>6, <1>7, <1>8 DEF Migrate

\* The invariant is inductive.
LEMMA ColdInductive == ColdInv /\ [Next]_vars => ColdInv'
  <1> SUFFICES ASSUME ColdInv, [Next]_vars
               PROVE  ColdInv'
      OBVIOUS
  <1> USE CiIngestAssumption
  <1>1. ASSUME NEW c \in Containers, Receive(c)
        PROVE  ColdInv'
    <2>1. /\ UNCHANGED <<lock, recorded, schema, client>>
          /\ \E n \in {"connect", "serve"} : pc' = [pc EXCEPT ![c] = n]
        BY <1>1 DEF Receive, Goto, schemaVars
    <2> QED
        BY <2>1, MoveOut
  <1>2. ASSUME NEW c \in Containers, Serve(c)
        PROVE  ColdInv'
      BY <1>2, ServeIsCold, MoveOut DEF ColdInv
  <1>3. ASSUME NEW c \in Containers, Fail(c) \/ SessionEnds(c)
        PROVE  ColdInv'
    <2>1. /\ UNCHANGED <<recorded, schema, client>>
          /\ \E n \in {"idle", "gone"} : pc' = [pc EXCEPT ![c] = n]
          /\ lock' = lock \/ (lock = c /\ lock' \in {NoOne, Lingering})
        BY <1>3 DEF Fail, SessionEnds, Goto
    <2> QED
        BY <2>1, MoveOut
  <1>4. ASSUME NEW c \in Containers, Break(c)
        PROVE  ColdInv'
    <2>1. ColdType' /\ MigratedOnce'
        BY <1>4 DEF Break, schemaVars, ColdInv, ColdType, MigratedOnce
    <2>2. HoldsLock' /\ KnowsVersion'
        BY <1>4 DEF Break, schemaVars, ColdInv, HoldsLock, KnowsVersion
    <2> QED
        BY <2>1, <2>2 DEF ColdInv
  <1>5. CASE LingeringEnds
    <2>1. /\ lock = Lingering /\ lock' = NoOne
          /\ UNCHANGED <<recorded, schema, pc, client>>
        BY <1>5 DEF LingeringEnds
    <2>2. ColdType' /\ HoldsLock'
        BY <2>1 DEF ColdInv, ColdType, HoldsLock
    <2> QED
        BY <2>1, <2>2 DEF ColdInv, KnowsVersion, MigratedOnce
  <1>6. CASE UNCHANGED coldVars
      BY <1>6 DEF coldVars, ColdInv, ColdType, HoldsLock, KnowsVersion, MigratedOnce
  <1>7. ASSUME NEW c \in Containers, Die(c)
        PROVE  ColdInv'
      BY <1>7, <1>6 DEF Die, schemaVars, coldVars
  <1> QED
      BY <1>1, <1>2, <1>3, <1>4, <1>5, <1>6, <1>7, MigrateStep
         DEF Next, Terminated, vars, coldVars

\* Whatever the tables are like when the first containers come.
LEMMA ColdInit == Init => ColdInv
  <1> SUFFICES ASSUME Init
               PROVE  ColdInv
      OBVIOUS
  <1>1. recorded \in BOOLEAN
      BY DEF Init
  <1>2. ColdType
      BY <1>1 DEF Init, ColdType
  <1>3. HoldsLock /\ KnowsVersion
      BY DEF Init, HoldsLock, KnowsVersion, Held, Txn
  <1>4. MigratedOnce
      BY DEF Init, MigratedOnce
  <1> QED
      BY <1>2, <1>3, <1>4 DEF ColdInv

-----------------------------------------------------------------------------
(***************************************************************************)
(* The rows.  What a statement has stored it leaves stored (RowsGrow): no  *)
(* handler deletes, and a scan keeps its commit.                           *)
(***************************************************************************)
RowType ==
    /\ tracking \in BOOLEAN /\ alive \subseteq Containers
    /\ req \in [Containers -> Requests \cup {Idle}]
    /\ builds \subseteq Runs /\ checks \subseteq Runs \X Paths
    /\ scan \in [Scans -> ScanRow \cup {NoRow}]
    /\ findings \subseteq Scans \X Paths
    /\ sources \subseteq [commit : Commits, path : Paths]
    /\ links \subseteq [scan : Scans, commit : Commits, path : Paths]
    /\ acks \subseteq Requests

\* What a 200 to m promises.
Stored(m) ==
    /\ m.kind = "report" => m.run \in builds
    /\ m.kind = "checks" => {m.run} \X m.items \subseteq checks
    /\ m.kind = "findings" => {m.scan} \X m.items \subseteq findings
    /\ m.kind = "sources" => \A p \in m.items : \E l \in links : l.scan = m.scan /\ l.path = p
    /\ m.kind = "start" => scan[m.scan] # NoRow

RowInv == RowType /\ (\A m \in acks : Stored(m)) /\ SourcesFollowScan

RowsGrow ==
    /\ builds \subseteq builds' /\ checks \subseteq checks' /\ findings \subseteq findings'
    /\ sources \subseteq sources' /\ links \subseteq links'
    /\ \A s \in Scans : scan[s] # NoRow => scan'[s] # NoRow /\ scan'[s].commit = scan[s].commit

\* What a request of each kind carries.
LEMMA Asks ==
    ASSUME NEW m \in Requests \cup {Idle}
    PROVE  /\ m.kind = "report" => m.run \in Runs
           /\ m.kind = "checks" => m.run \in Runs /\ m.items \subseteq Paths
           /\ m.kind = "start" => m.scan \in Scans /\ m.run \in Runs /\ m.commit \in Commits
           /\ m.kind = "complete" => m.scan \in Scans
           /\ m.kind \in {"findings", "sources"} => m.scan \in Scans /\ m.items \subseteq Paths
           /\ m.kind # "idle" => m \in Requests
  <1>1. CASE m = Idle
      BY <1>1 DEF Idle
  <1>2. ASSUME m \in [kind : {"health"}] PROVE m.kind = "health"
      BY <1>2
  <1>3. ASSUME m \in [kind : {"report"}, run : Runs] PROVE m.kind = "report" /\ m.run \in Runs
      BY <1>3
  <1>4. ASSUME m \in [kind : {"checks"}, run : Runs, items : Batches]
        PROVE  m.kind = "checks" /\ m.run \in Runs /\ m.items \subseteq Paths
      BY <1>4 DEF Batches
  <1>5. ASSUME m \in [kind : {"start"}, scan : Scans, run : Runs, commit : Commits]
        PROVE  m.kind = "start" /\ m.scan \in Scans /\ m.run \in Runs /\ m.commit \in Commits
      BY <1>5
  <1>6. ASSUME m \in [kind : {"complete"}, scan : Scans]
        PROVE  m.kind = "complete" /\ m.scan \in Scans
      BY <1>6
  <1>7. ASSUME m \in [kind : {"findings", "sources"}, scan : Scans, items : Batches]
        PROVE  m.kind \in {"findings", "sources"} /\ m.scan \in Scans /\ m.items \subseteq Paths
      BY <1>7 DEF Batches
  <1>8. QED
      BY <1>1, <1>2, <1>3, <1>4, <1>5, <1>6, <1>7 DEF Requests

\* What was stored before a step is stored after it.
LEMMA StoredStays ==
    ASSUME RowType, RowsGrow, NEW m \in Requests, Stored(m)
    PROVE  Stored(m)'
  <1>1. m.kind = "start" => m.scan \in Scans
      BY Asks
  <1>2. QED
      BY <1>1 DEF Stored, RowsGrow

\* A handler is one statement: it stores what its answer promises, and the
\* rows of the others stay.
LEMMA ServeStores ==
    ASSUME RowInv, NEW c \in Containers, Serve(c), ~Refuse(c), NEW m, m = req[c]
    PROVE  /\ Answer(c) /\ m \in Requests /\ RowsGrow /\ SourcesFollowScan'
           /\ Promises(m) => Stored(m)'
           /\ builds' \subseteq Runs /\ checks' \subseteq Runs \X Paths
           /\ scan' \in [Scans -> ScanRow \cup {NoRow}]
           /\ findings' \subseteq Scans \X Paths
           /\ sources' \subseteq [commit : Commits, path : Paths]
           /\ links' \subseteq [scan : Scans, commit : Commits, path : Paths]
  <1> USE DEF RowInv, RowType
  <1>0. m \in Requests \cup {Idle}
      OBVIOUS
  <1>1. CASE Health(c)
    <2>1. m.kind = "health" /\ UNCHANGED rowVars /\ Answer(c)
        BY <1>1 DEF Health
    <2>2. QED
        BY <1>0, <2>1, Asks DEF rowVars, RowsGrow, SourcesFollowScan, Stored
  <1>2. CASE UpsertBuild(c)
    <2>1. /\ m.kind = "report" /\ Answer(c) /\ builds' = builds \cup {m.run}
          /\ UNCHANGED <<checks, scan, findings, sources, links>>
        BY <1>2 DEF UpsertBuild, Serves
    <2>2. m.run \in Runs /\ m \in Requests
        BY <1>0, <2>1, Asks
    <2>3. QED
        BY <2>1, <2>2 DEF RowsGrow, SourcesFollowScan, Stored
  <1>3. CASE IngestChecks(c)
    <2>1. /\ m.kind = "checks" /\ Answer(c) /\ checks' = checks \cup ({m.run} \X m.items)
          /\ UNCHANGED <<builds, scan, findings, sources, links>>
        BY <1>3 DEF IngestChecks, Serves
    <2>2. m.run \in Runs /\ m.items \subseteq Paths /\ m \in Requests
        BY <1>0, <2>1, Asks
    <2>3. {m.run} \X m.items \subseteq Runs \X Paths
        BY <2>2
    <2>4. QED
        BY <2>1, <2>2, <2>3 DEF RowsGrow, SourcesFollowScan, Stored
  <1>4. ASSUME NEW s \in Scans, NEW row \in ScanRow, scan' = [scan EXCEPT ![s] = row],
               scan[s] # NoRow => row.commit = scan[s].commit,
               UNCHANGED <<builds, checks, findings, sources, links>>
        PROVE  /\ RowsGrow /\ SourcesFollowScan' /\ scan'[s] # NoRow
               /\ scan' \in [Scans -> ScanRow \cup {NoRow}]
    <2>1. row # NoRow
        BY CiIngestAssumption DEF ScanRow
    <2>2. RowsGrow /\ scan'[s] # NoRow /\ scan' \in [Scans -> ScanRow \cup {NoRow}]
        BY <1>4, <2>1 DEF RowsGrow
    <2>3. \A l \in links : l.scan \in Scans
        OBVIOUS
    <2>4. SourcesFollowScan'
        BY <1>4, <2>2, <2>3 DEF SourcesFollowScan, RowsGrow
    <2>5. QED
        BY <2>2, <2>4
  <1>5. CASE StartQualityScan(c)
    <2>1. /\ m.kind = "start" /\ Answer(c)
          /\ UNCHANGED <<builds, checks, findings, sources, links>>
        BY <1>5 DEF StartQualityScan, Serves
    <2>2. m.scan \in Scans /\ m.run \in Runs /\ m.commit \in Commits /\ m \in Requests
        BY <1>0, <2>1, Asks
    <2>3. CASE scan[m.scan] = NoRow
      <3>1. scan' = [scan EXCEPT ![m.scan] = Pending(m)]
          BY <1>5, <2>3 DEF StartQualityScan
      <3>2. Pending(m) \in ScanRow
          BY <2>2 DEF Pending, ScanRow
      <3>3. RowsGrow /\ SourcesFollowScan' /\ scan'[m.scan] # NoRow
            /\ scan' \in [Scans -> ScanRow \cup {NoRow}]
          BY <1>4, <2>1, <2>2, <2>3, <3>1, <3>2
      <3>4. QED
          BY <2>1, <2>2, <3>3 DEF Stored
    <2>4. CASE scan[m.scan] # NoRow
      <3>1. scan' = [scan EXCEPT ![m.scan] = Restarted(scan[m.scan], m)]
          BY <1>5, <2>4 DEF StartQualityScan
      <3>2. scan[m.scan] \in ScanRow
          BY <2>2, <2>4
      <3>3. /\ Restarted(scan[m.scan], m) \in ScanRow
            /\ Restarted(scan[m.scan], m).commit = scan[m.scan].commit
          BY <3>2 DEF Restarted, ScanRow
      <3>4. RowsGrow /\ SourcesFollowScan' /\ scan'[m.scan] # NoRow
            /\ scan' \in [Scans -> ScanRow \cup {NoRow}]
          BY <1>4, <2>1, <2>2, <3>1, <3>3
      <3>5. QED
          BY <2>1, <2>2, <3>4 DEF Stored
    <2>5. QED
        BY <2>3, <2>4
  <1>6. CASE CompleteQualityScan(c)
    <2>1. /\ m.kind = "complete" /\ Answer(c) /\ scan[m.scan] # NoRow
          /\ UNCHANGED <<builds, checks, findings, sources, links>>
          /\ scan' = [scan EXCEPT ![m.scan].status = "complete", ![m.scan].completed = TRUE]
        BY <1>6 DEF CompleteQualityScan, Serves
    <2>2. m.scan \in Scans /\ m \in Requests
        BY <1>0, <2>1, Asks
    <2> DEFINE row == [scan[m.scan] EXCEPT !.status = "complete", !.completed = TRUE]
    <2>3. scan[m.scan] \in ScanRow
        BY <2>1, <2>2
    <2>4. row \in ScanRow /\ row.commit = scan[m.scan].commit
        BY <2>3 DEF ScanRow
    <2>5. scan' = [scan EXCEPT ![m.scan] = row]
        BY <2>1, <2>2
    <2>6. RowsGrow /\ SourcesFollowScan' /\ scan' \in [Scans -> ScanRow \cup {NoRow}]
        BY <1>4, <2>1, <2>2, <2>4, <2>5
    <2>7. QED
        BY <2>1, <2>2, <2>6 DEF Promises
  <1>7. CASE IngestFindings(c)
    <2>1. /\ m.kind = "findings" /\ Answer(c)
          /\ findings' = findings \cup ({m.scan} \X m.items)
          /\ UNCHANGED <<builds, checks, scan, sources, links>>
        BY <1>7 DEF IngestFindings, Serves
    <2>2. m.scan \in Scans /\ m.items \subseteq Paths /\ m \in Requests
        BY <1>0, <2>1, Asks
    <2>3. {m.scan} \X m.items \subseteq Scans \X Paths
        BY <2>2
    <2>4. QED
        BY <2>1, <2>2, <2>3 DEF RowsGrow, SourcesFollowScan, Stored
  <1>8. CASE IngestSources(c)
    <2>1. m.kind = "sources" /\ Answer(c) /\ UNCHANGED <<builds, checks, scan, findings>>
        BY <1>8 DEF IngestSources, Serves
    <2>2. m.scan \in Scans /\ m.items \subseteq Paths /\ m \in Requests
        BY <1>0, <2>1, Asks
    <2>3. CASE scan[m.scan] = NoRow
      <3>1. UNCHANGED <<sources, links>>
          BY <1>8, <2>3 DEF IngestSources
      <3>2. ~Promises(m)
        <4>1. ASSUME NEW a \in acks, a.kind = "start", a.scan = m.scan PROVE FALSE
            BY <2>3, <4>1 DEF Stored
        <4>2. QED
            BY <2>1, <4>1 DEF Promises
      <3>3. QED
          BY <2>1, <2>2, <3>1, <3>2 DEF RowsGrow, SourcesFollowScan
    <2>4. CASE scan[m.scan] # NoRow
      <3> DEFINE k   == scan[m.scan].commit
                 new == {[scan |-> m.scan, commit |-> k, path |-> p] : p \in m.items}
                 old == {l.path : l \in {x \in links : x.scan = m.scan}}
      <3>1. /\ sources' = sources \cup {[commit |-> n.commit, path |-> n.path] : n \in new}
            /\ links' = links \cup {n \in new : n.path \notin old}
          BY <1>8, <2>4 DEF IngestSources
      <3>2. k \in Commits
        <4>1. scan[m.scan] \in ScanRow
            BY <2>2, <2>4
        <4>2. QED
            BY <4>1 DEF ScanRow
      <3>3. \A n \in new : /\ n \in [scan : Scans, commit : Commits, path : Paths]
                           /\ n.scan = m.scan /\ n.commit = k
          BY <2>2, <3>2
      <3>4. /\ sources' \subseteq [commit : Commits, path : Paths]
            /\ links' \subseteq [scan : Scans, commit : Commits, path : Paths]
          BY <3>1, <3>3
      <3>5. RowsGrow
          BY <2>1, <3>1 DEF RowsGrow
      <3>6. SourcesFollowScan'
        <4>1. ASSUME NEW l \in links
              PROVE  /\ scan[l.scan] # NoRow /\ scan[l.scan].commit = l.commit
                     /\ [commit |-> l.commit, path |-> l.path] \in sources'
            BY <3>1 DEF SourcesFollowScan
        <4>2. ASSUME NEW n \in new
              PROVE  /\ scan[n.scan] # NoRow /\ scan[n.scan].commit = n.commit
                     /\ [commit |-> n.commit, path |-> n.path] \in sources'
            BY <2>4, <3>1, <3>3
        <4>3. QED
            BY <2>1, <3>1, <4>1, <4>2 DEF SourcesFollowScan
      <3>7. ASSUME NEW p \in m.items
            PROVE  \E l \in links' : l.scan = m.scan /\ l.path = p
        <4>1. CASE p \in old
            BY <3>1, <4>1
        <4>2. CASE p \notin old
          <5>1. [scan |-> m.scan, commit |-> k, path |-> p] \in links'
              BY <3>1, <4>2
          <5>2. QED
              BY <5>1
        <4>3. QED
            BY <4>1, <4>2
      <3>8. Stored(m)'
          BY <2>1, <3>7 DEF Stored
      <3>9. QED
          BY <2>1, <2>2, <3>4, <3>5, <3>6, <3>8
    <2>5. QED
        BY <2>3, <2>4
  <1>9. QED
      BY <1>1, <1>2, <1>3, <1>5, <1>6, <1>7, <1>8 DEF Serve

LEMMA RowsInductive == RowInv /\ [Next]_vars => RowInv'
  <1> SUFFICES ASSUME RowInv, [Next]_vars PROVE RowInv'
      OBVIOUS
  <1> USE DEF RowInv
  <1>1. ASSUME UNCHANGED <<rowVars, acks>>, tracking' \in BOOLEAN, alive' \subseteq Containers,
               req' \in [Containers -> Requests \cup {Idle}]
        PROVE  RowInv'
    <2>1. RowType'
        BY <1>1 DEF RowType, rowVars
    <2>2. QED
        BY <1>1, <2>1 DEF rowVars, Stored, SourcesFollowScan
  <1>2. ASSUME NEW c \in Containers, Serve(c), ~Refuse(c) PROVE RowInv'
    <2>0. PICK m : m = req[c]
        OBVIOUS
    <2>1. /\ Answer(c) /\ m \in Requests /\ RowsGrow /\ SourcesFollowScan'
          /\ Promises(m) => Stored(m)'
          /\ builds' \subseteq Runs /\ checks' \subseteq Runs \X Paths
          /\ scan' \in [Scans -> ScanRow \cup {NoRow}]
          /\ findings' \subseteq Scans \X Paths
          /\ sources' \subseteq [commit : Commits, path : Paths]
          /\ links' \subseteq [scan : Scans, commit : Commits, path : Paths]
        BY <1>2, <2>0, ServeStores
    <2>2. /\ acks' = acks \/ (Promises(m) /\ acks' = acks \cup {m})
          /\ req' = [req EXCEPT ![c] = Idle] /\ UNCHANGED <<tracking, alive>>
        BY <2>0, <2>1 DEF Answer, schemaVars
    <2>3. RowType'
        BY <2>1, <2>2 DEF RowType
    <2>4. \A a \in acks : Stored(a)'
        BY <2>1, StoredStays DEF RowType
    <2>5. \A a \in acks' : Stored(a)'
        BY <2>1, <2>2, <2>4
    <2>6. QED
        BY <2>1, <2>3, <2>5
  <1>3. ASSUME NEW c \in Containers, Refuse(c) \/ Receive(c) \/ Migrate(c) \/ Fail(c)
                                     \/ Break(c) \/ Die(c) \/ SessionEnds(c)
        PROVE  RowInv'
    <2>1. UNCHANGED <<rowVars, acks>>
        BY <1>3 DEF Refuse, Receive, Migrate, Connect, AcquireLock, CreateTracking, CheckApplied,
                    RunSql, InsertVersion, CommitSchema, Unlock, Fail, Break, Die, SessionEnds
    <2>2. /\ tracking' \in {tracking, TRUE} /\ alive' \subseteq alive
          /\ \E m \in Requests \cup {Idle} : req' = req \/ req' = [req EXCEPT ![c] = m]
        BY <1>3 DEF Refuse, Receive, Migrate, Connect, AcquireLock, CreateTracking, CheckApplied,
                    RunSql, InsertVersion, CommitSchema, Unlock, Fail, Break, Die, SessionEnds,
                    Reply, schemaVars
    <2>3. QED
        BY <1>1, <2>1, <2>2 DEF RowType
  <1>4. CASE LingeringEnds \/ UNCHANGED vars
      BY <1>1, <1>4 DEF LingeringEnds, vars, rowVars, RowType
  <1>5. QED
      BY <1>2, <1>3, <1>4 DEF Next, Serve, Terminated

LEMMA RowsInit == Init => RowInv
  <1> SUFFICES ASSUME Init PROVE RowInv
      OBVIOUS
  <1>1. workload.crew \in SUBSET Containers
      BY CiIngestAssumption DEF Init
  <1>2. RowType
      BY <1>1 DEF Init, RowType
  <1>3. QED
      BY <1>2 DEF Init, RowInv, SourcesFollowScan
-----------------------------------------------------------------------------
\* At most one container is applying the schema, and what it read of the
\* version still holds (db.rs:12-50).
THEOREM ColdStartsExclude == Spec => []ApplyIsAlone
  <1>1. ColdInv => ApplyIsAlone
    <2> SUFFICES ASSUME ColdInv, NEW c \in Containers, pc[c] \in Txn
                 PROVE  ~recorded /\ \A d \in Containers : pc[d] \in Held => d = c
        BY DEF ApplyIsAlone
    <2> QED
        BY DEF ColdInv, HoldsLock, KnowsVersion, Held
  <1> QED
      BY <1>1, ColdInit, ColdInductive, PTL DEF Spec

\* The schema is committed once, with its version, and before any container
\* serves with a client of its own.
THEOREM SchemaMigratedOnce == Spec => []MigratedOnce
  <1>1. ColdInv => MigratedOnce
      BY DEF ColdInv
  <1> QED
      BY <1>1, ColdInit, ColdInductive, PTL DEF Spec

\* What the tables, the containers and the requests hold keeps its type.
THEOREM IngestTypeCorrect == Spec => []TypeOK
  <1>1. ColdInv /\ RowInv => TypeOK
      BY DEF ColdInv, ColdType, RowInv, RowType, TypeOK
  <1>2. QED
      BY <1>1, ColdInit, ColdInductive, RowsInit, RowsInductive, PTL DEF Spec

\* A 200 is kept: no later request, in any order and however often it is sent,
\* takes away what was answered for (db.rs: no statement deletes, and every
\* INSERT of a key that is there leaves or updates its row).
THEOREM AnswersAreKept == Spec => []AnsweredIsStored
  <1>1. RowInv => AnsweredIsStored
    <2> SUFFICES ASSUME RowInv, NEW m \in acks
                 PROVE  CASE m.kind = "report"   -> m.run \in builds
                          [] m.kind = "checks"   -> {m.run} \X m.items \subseteq checks
                          [] m.kind = "findings" -> {m.scan} \X m.items \subseteq findings
                          [] m.kind = "sources"  -> \A p \in m.items : \E l \in links :
                                                       l.scan = m.scan /\ l.path = p
                          [] m.kind = "start"    -> scan[m.scan] # NoRow
                          [] OTHER -> TRUE
        BY DEF AnsweredIsStored
    <2>1. Stored(m)
        BY DEF RowInv
    <2>2. QED
        BY <2>1 DEF Stored
  <1>2. QED
      BY <1>1, RowsInit, RowsInductive, PTL DEF Spec

\* Every source a scan links is of the commit the scan's row names, and is
\* there: a restart never changes the commit, so a copy of it never is stale.
THEOREM SourcesStayOfTheirCommit == Spec => []SourcesFollowScan
  <1>1. RowInv => SourcesFollowScan
      BY DEF RowInv
  <1>2. QED
      BY <1>1, RowsInit, RowsInductive, PTL DEF Spec
=============================================================================
