--------------------------- MODULE DbMigrateProofs ---------------------------
(***************************************************************************)
(* Proofs about DbMigrate, for any invocations, files and contents.        *)
(*                                                                         *)
(* Types and locals first; then the ledger: what an open transaction will  *)
(* commit fits the rows as long as its invocation holds the lock           *)
(* (LedgerInv).  What an operation has to show when it returns is said call*)
(* by call, of the one invocation that holds the lock (WorkInv); that this *)
(* one is undisturbed is LedgerInv again.  AppliedAtMostOnce needs no lock:*)
(* it rests on the row an open transaction holds (OnceInv).                *)
(***************************************************************************)
EXTENDS DbMigrate, TLAPS

\* What a step relies on in the locals of an invocation: its event names an
\* operation, and a statement that inserts a row has a file and its content.
LocalsOK ==
    \A p \in Procs :
        /\ pc[p] # "idle" => req[p].op \in Ops
        /\ req[p].op = "noop" => req[p].target \in Files
        /\ pc[p] \in {"nquery", "nread"} => req[p].op = "noop"
        /\ pc[p] \in {"apply", "commit", "ninsert"} =>
               cur[p] \in Files /\ got[p][cur[p]] \in Contents

LEMMA TypeInductive == Spec => [](TypeOK /\ LocalsOK)
<1> USE DbMigrateAssumption
<1>1. Init => TypeOK /\ LocalsOK
  <2> SUFFICES ASSUME Init PROVE TypeOK /\ LocalsOK
    OBVIOUS
  <2>1. rows \in [Files -> Row \cup {NoRow}]
    BY DEF Init, NoRows
  <2>2. effect \in [Files -> Int] /\ vouched \subseteq Files
    BY DEF Init, Tracked
  <2>3. bucket \in [Files -> Contents \cup {Absent}] /\ exists \in BOOLEAN /\ tracking \in BOOLEAN
    BY DEF Init
  <2>4. /\ seen \in [Procs -> [Files -> Contents \cup {Absent}]]
        /\ got \in [Procs -> [Files -> Contents \cup {Absent}]]
    BY DEF Init, Nothing
  <2>5. req \in [Procs -> [op : Ops \cup {"none"}, target : 0..NFiles]] /\ LocalsOK
    BY DEF Init, LocalsOK
  <2>6. QED
    BY <2>1, <2>2, <2>3, <2>4, <2>5 DEF Init, TypeOK, Pcs
<1>2. TypeOK /\ LocalsOK /\ [Next]_vars => (TypeOK /\ LocalsOK)'
  <2> SUFFICES ASSUME TypeOK, LocalsOK, [Next]_vars PROVE TypeOK' /\ LocalsOK'
    OBVIOUS
  <2> USE DEF TypeOK, Files, Row, NoRows, Nothing, Present, Tracked, Pcs, PreLock, Body,
              Goto, Throw, Finish, Reply, At, Sent, NextUp, NextDown, IsLeast, IsGreatest,
              storeVars, dbVars, loopVars, callVars
  <2>1. ASSUME NEW p \in Procs, EnsureDatabase(p) PROVE TypeOK' /\ LocalsOK'
    <3>1. TypeOK'
      BY <2>1 DEF EnsureDatabase
    <3>2. LocalsOK'
      BY <2>1 DEF EnsureDatabase, LocalsOK
    <3>3. QED
      BY <3>1, <3>2
  <2>2. ASSUME NEW p \in Procs, CreateIfMissing(p) PROVE TypeOK' /\ LocalsOK'
    <3>1. TypeOK'
      BY <2>2 DEF CreateIfMissing
    <3>2. LocalsOK'
      BY <2>2 DEF CreateIfMissing, LocalsOK
    <3>3. QED
      BY <3>1, <3>2
  <2>3. ASSUME NEW p \in Procs, GrantSchemaAccess(p) PROVE TypeOK' /\ LocalsOK'
    <3>1. TypeOK'
      BY <2>3 DEF GrantSchemaAccess
    <3>2. LocalsOK'
      BY <2>3 DEF GrantSchemaAccess, LocalsOK
    <3>3. QED
      BY <3>1, <3>2
  <2>4. ASSUME NEW p \in Procs, ListSeeds(p) PROVE TypeOK' /\ LocalsOK'
    <3>1. TypeOK'
      BY <2>4 DEF ListSeeds
    <3>2. LocalsOK'
      BY <2>4 DEF ListSeeds, LocalsOK
    <3>3. QED
      BY <3>1, <3>2
  <2>5. ASSUME NEW p \in Procs, Connect(p) PROVE TypeOK' /\ LocalsOK'
    <3>1. TypeOK'
      BY <2>5 DEF Connect
    <3>2. LocalsOK'
      BY <2>5 DEF Connect, LocalsOK
    <3>3. QED
      BY <3>1, <3>2
  <2>6. ASSUME NEW p \in Procs, AcquireLock(p) PROVE TypeOK' /\ LocalsOK'
    <3>1. TypeOK'
      BY <2>6 DEF AcquireLock, UnderLock
    <3>2. LocalsOK'
      BY <2>6 DEF AcquireLock, UnderLock, LocalsOK
    <3>3. QED
      BY <3>1, <3>2
  <2>7. ASSUME NEW p \in Procs, ReleaseLock(p) PROVE TypeOK' /\ LocalsOK'
    <3>1. TypeOK'
      BY <2>7 DEF ReleaseLock
    <3>2. LocalsOK'
      BY <2>7 DEF ReleaseLock, LocalsOK
    <3>3. QED
      BY <3>1, <3>2
  <2>8. ASSUME NEW p \in Procs, LocalTracking(p) PROVE TypeOK' /\ LocalsOK'
    <3>1. TypeOK'
      BY <2>8 DEF LocalTracking
    <3>2. LocalsOK'
      BY <2>8 DEF LocalTracking, LocalsOK
    <3>3. QED
      BY <3>1, <3>2
  <2>9. ASSUME NEW p \in Procs, ListFiles(p) PROVE TypeOK' /\ LocalsOK'
    <3>1. TypeOK'
      BY <2>9 DEF ListFiles
    <3>2. LocalsOK'
      BY <2>9 DEF ListFiles, LocalsOK
    <3>3. QED
      BY <3>1, <3>2
  <2>10. ASSUME NEW p \in Procs, LoadApplied(p) PROVE TypeOK' /\ LocalsOK'
    <3>1. TypeOK'
      BY <2>10 DEF LoadApplied
    <3>2. LocalsOK'
      BY <2>10 DEF LoadApplied, LocalsOK
    <3>3. QED
      BY <3>1, <3>2
  <2>11. ASSUME NEW p \in Procs, ReadNext(p) PROVE TypeOK' /\ LocalsOK'
    <3>1. TypeOK'
      BY <2>11 DEF ReadNext
    <3>2. LocalsOK'
      BY <2>11 DEF ReadNext, LocalsOK
    <3>3. QED
      BY <3>1, <3>2
  <2>12. ASSUME NEW p \in Procs, MigrateComplete(p) PROVE TypeOK' /\ LocalsOK'
    <3>1. TypeOK'
      BY <2>12 DEF MigrateComplete
    <3>2. LocalsOK'
      BY <2>12 DEF MigrateComplete, LocalsOK
    <3>3. QED
      BY <3>1, <3>2
  <2>13. ASSUME NEW p \in Procs, ApplyFile(p) PROVE TypeOK' /\ LocalsOK'
    <3>1. TypeOK'
      BY <2>13 DEF ApplyFile
    <3>2. LocalsOK'
      BY <2>13 DEF ApplyFile, LocalsOK
    <3>3. QED
      BY <3>1, <3>2
  <2>14. ASSUME NEW p \in Procs, CommitFile(p) PROVE TypeOK' /\ LocalsOK'
    <3>1. TypeOK'
      <4>1. cur[p] \in Files /\ got[p][cur[p]] \in Contents
        BY <2>14 DEF CommitFile, LocalsOK
      <4>2. /\ rows' = [rows EXCEPT ![cur[p]] = [sum |-> got[p][cur[p]], noop |-> FALSE]]
            /\ effect' = [effect EXCEPT ![cur[p]] = @ + 1]
        BY <2>14 DEF CommitFile
      <4>3. rows' \in [Files -> Row \cup {NoRow}] /\ effect' \in [Files -> Int]
        BY <4>1, <4>2
      <4>4. Reply(p, "audit")
        BY <2>14 DEF CommitFile
      <4>5. pc' \in [Procs -> Pcs] /\ result' \in [Procs -> {"none", "ok", "err"}]
        BY <4>4
      <4>6. QED
        BY <2>14, <4>3, <4>5 DEF CommitFile
    <3>2. LocalsOK'
      BY <2>14 DEF CommitFile, LocalsOK
    <3>3. QED
      BY <3>1, <3>2
  <2>15. ASSUME NEW p \in Procs, Audit(p) PROVE TypeOK' /\ LocalsOK'
    <3>1. TypeOK'
      <4>1. req[p].op \in Ops
        BY <2>15 DEF Audit, LocalsOK
      <4>2. audit' \subseteq Ops \X (0..(NFiles + 1))
        BY <2>15, <4>1 DEF Audit
      <4>3. /\ \E n \in {"read", "rbread", "seed", "release"} : pc' = [pc EXCEPT ![p] = n]
            /\ result' = result \/ result' = [result EXCEPT ![p] = "ok"]
        BY <2>15 DEF Audit
      <4>4. pc' \in [Procs -> Pcs] /\ result' \in [Procs -> {"none", "ok", "err"}]
        <5>1. PICK n \in {"read", "rbread", "seed", "release"} : pc' = [pc EXCEPT ![p] = n]
          BY <4>3
        <5>2. n \in Pcs
          OBVIOUS
        <5>3. pc' \in [Procs -> Pcs]
          BY <5>1, <5>2
        <5>4. QED
          BY <4>3, <5>3
      <4>5. QED
        BY <2>15, <4>2, <4>4 DEF Audit
    <3>2. LocalsOK'
      BY <2>15 DEF Audit, LocalsOK
    <3>3. QED
      BY <3>1, <3>2
  <2>16. ASSUME NEW p \in Procs, LoadForRollback(p) PROVE TypeOK' /\ LocalsOK'
    <3>1. TypeOK'
      <4>1. files' \in [Procs -> SUBSET Files] /\ cur' \in [Procs -> 0..(NFiles + 1)]
        BY <2>16 DEF LoadForRollback
      <4>2. pc' \in [Procs -> Pcs] /\ result' \in [Procs -> {"none", "ok", "err"}]
        BY <2>16 DEF LoadForRollback
      <4>3. QED
        BY <4>1, <4>2, <2>16 DEF LoadForRollback
    <3>2. LocalsOK'
      BY <2>16 DEF LoadForRollback, LocalsOK
    <3>3. QED
      BY <3>1, <3>2
  <2>17. ASSUME NEW p \in Procs, RollbackNext(p) PROVE TypeOK' /\ LocalsOK'
    <3>1. TypeOK'
      BY <2>17 DEF RollbackNext
    <3>2. LocalsOK'
      BY <2>17 DEF RollbackNext, LocalsOK
    <3>3. QED
      BY <3>1, <3>2
  <2>18. ASSUME NEW p \in Procs, RollbackComplete(p) PROVE TypeOK' /\ LocalsOK'
    <3>1. TypeOK'
      BY <2>18 DEF RollbackComplete
    <3>2. LocalsOK'
      BY <2>18 DEF RollbackComplete, LocalsOK
    <3>3. QED
      BY <3>1, <3>2
  <2>19. ASSUME NEW p \in Procs, DownFile(p) PROVE TypeOK' /\ LocalsOK'
    <3>1. TypeOK'
      BY <2>19 DEF DownFile
    <3>2. LocalsOK'
      BY <2>19 DEF DownFile, LocalsOK
    <3>3. QED
      BY <3>1, <3>2
  <2>20. ASSUME NEW p \in Procs, CommitDown(p) PROVE TypeOK' /\ LocalsOK'
    <3>1. TypeOK'
      <4>1. /\ rows' = IF got[p][cur[p]] = Absent THEN rows ELSE [rows EXCEPT ![cur[p]] = NoRow]
            /\ effect' = [effect EXCEPT ![cur[p]] = @ - 1]
            /\ Reply(p, "audit")
        BY <2>20 DEF CommitDown
      <4>2. rows' \in [Files -> Row \cup {NoRow}]
        BY <4>1
      <4>3. effect' \in [Files -> Int]
        <5>1. CASE cur[p] \in Files
          BY <4>1, <5>1
        <5>2. CASE cur[p] \notin Files
          BY <4>1, <5>2
        <5>3. QED
          BY <5>1, <5>2
      <4>4. pc' \in [Procs -> Pcs] /\ result' \in [Procs -> {"none", "ok", "err"}]
        BY <4>1
      <4>5. QED
        BY <2>20, <4>2, <4>3, <4>4 DEF CommitDown
    <3>2. LocalsOK'
      BY <2>20 DEF CommitDown, LocalsOK
    <3>3. QED
      BY <3>1, <3>2
  <2>21. ASSUME NEW p \in Procs, SeedNext(p) PROVE TypeOK' /\ LocalsOK'
    <3>1. TypeOK'
      <4>1. files' \in [Procs -> SUBSET Files] /\ cur' \in [Procs -> 0..(NFiles + 1)]
        BY <2>21 DEF SeedNext
      <4>2. pc' \in [Procs -> Pcs] /\ result' \in [Procs -> {"none", "ok", "err"}]
        BY <2>21 DEF SeedNext
      <4>3. QED
        BY <4>1, <4>2, <2>21 DEF SeedNext
    <3>2. LocalsOK'
      BY <2>21 DEF SeedNext, LocalsOK
    <3>3. QED
      BY <3>1, <3>2
  <2>22. ASSUME NEW p \in Procs, SeedComplete(p) PROVE TypeOK' /\ LocalsOK'
    <3>1. TypeOK'
      BY <2>22 DEF SeedComplete
    <3>2. LocalsOK'
      BY <2>22 DEF SeedComplete, LocalsOK
    <3>3. QED
      BY <3>1, <3>2
  <2>23. ASSUME NEW p \in Procs, NoopQuery(p) PROVE TypeOK' /\ LocalsOK'
    <3>1. TypeOK'
      BY <2>23 DEF NoopQuery
    <3>2. LocalsOK'
      BY <2>23 DEF NoopQuery, LocalsOK
    <3>3. QED
      BY <3>1, <3>2
  <2>24. ASSUME NEW p \in Procs, NoopRead(p) PROVE TypeOK' /\ LocalsOK'
    <3>1. TypeOK'
      BY <2>24 DEF NoopRead, LocalsOK
    <3>2. LocalsOK'
      BY <2>24 DEF NoopRead, LocalsOK
    <3>3. QED
      BY <3>1, <3>2
  <2>25. ASSUME NEW p \in Procs, NoopInsert(p) PROVE TypeOK' /\ LocalsOK'
    <3>1. TypeOK'
      <4>1. cur[p] \in Files /\ got[p][cur[p]] \in Contents
        BY <2>25 DEF NoopInsert, LocalsOK
      <4>2. RecordNoop(p, cur[p], got[p][cur[p]]) /\ Reply(p, "audit")
        BY <2>25 DEF NoopInsert
      <4>3. rows' \in [Files -> Row \cup {NoRow}] /\ vouched' \subseteq Files
        BY <4>1, <4>2 DEF RecordNoop
      <4>4. pc' \in [Procs -> Pcs] /\ result' \in [Procs -> {"none", "ok", "err"}]
        BY <4>2
      <4>5. QED
        BY <2>25, <4>3, <4>4 DEF NoopInsert
    <3>2. LocalsOK'
      BY <2>25 DEF NoopInsert, RecordNoop, LocalsOK
    <3>3. QED
      BY <3>1, <3>2
  <2>26. ASSUME NEW p \in Procs, TerminateSessions(p) PROVE TypeOK' /\ LocalsOK'
    <3>1. TypeOK'
      BY <2>26 DEF TerminateSessions
    <3>2. LocalsOK'
      BY <2>26 DEF TerminateSessions, LocalsOK
    <3>3. QED
      BY <3>1, <3>2
  <2>27. ASSUME NEW p \in Procs, DropDatabase(p) PROVE TypeOK' /\ LocalsOK'
    <3>1. TypeOK'
      <4>1. rows' \in [Files -> Row \cup {NoRow}]
        BY <2>27 DEF DropDatabase
      <4>2. effect' \in [Files -> Int]
        BY <2>27 DEF DropDatabase
      <4>3. pc' \in [Procs -> Pcs] /\ result' \in [Procs -> {"none", "ok", "err"}]
        BY <2>27 DEF DropDatabase
      <4>4. QED
        BY <4>1, <4>2, <4>3, <2>27 DEF DropDatabase
    <3>2. LocalsOK'
      BY <2>27 DEF DropDatabase, LocalsOK
    <3>3. QED
      BY <3>1, <3>2
  <2>28. ASSUME NEW p \in Procs, RecreateDatabase(p) PROVE TypeOK' /\ LocalsOK'
    <3>1. TypeOK'
      BY <2>28 DEF RecreateDatabase
    <3>2. LocalsOK'
      BY <2>28 DEF RecreateDatabase, LocalsOK
    <3>3. QED
      BY <3>1, <3>2
  <2>29. ASSUME NEW p \in Procs, LoadDump(p) PROVE TypeOK' /\ LocalsOK'
    <3>1. TypeOK'
      <4>1. PICK there \in SUBSET Files :
               /\ effect' = [f \in Files |-> IF f \in there THEN effect[f] + 1 ELSE effect[f]]
               /\ \/ /\ tracking' = TRUE
                     /\ \E sums \in [there -> Contents] :
                          rows' = [f \in Files |-> IF f \in there
                                      THEN [sum |-> sums[f], noop |-> FALSE] ELSE NoRow]
                     /\ UNCHANGED vouched
                  \/ vouched' = vouched \cup there /\ UNCHANGED <<tracking, rows>>
        BY <2>29 DEF LoadDump
      <4>2. /\ effect' \in [Files -> Int]
            /\ vouched' \subseteq Files
            /\ tracking' \in BOOLEAN
        <5>1. effect' \in [Files -> Int]
          BY <4>1
        <5>2. vouched' \subseteq Files
          BY <4>1
        <5>3. tracking' \in BOOLEAN
          BY <4>1, Zenon
        <5>4. QED
          BY <5>1, <5>2, <5>3
      <4>3. CASE UNCHANGED rows
        BY <2>29, <4>2, <4>3 DEF LoadDump
      <4>4. ASSUME NEW sums \in [there -> Contents],
                   rows' = [f \in Files |-> IF f \in there
                               THEN [sum |-> sums[f], noop |-> FALSE] ELSE NoRow]
            PROVE  TypeOK'
        <5>1. \A f \in there : [sum |-> sums[f], noop |-> FALSE] \in Row
          OBVIOUS
        <5>2. rows' \in [Files -> Row \cup {NoRow}]
          BY <4>4, <5>1 DEF Row
        <5>3. QED
          BY <2>29, <4>2, <5>2 DEF LoadDump
      <4>5. QED
        BY <4>1, <4>3, <4>4
    <3>2. LocalsOK'
      BY <2>29 DEF LoadDump, LocalsOK
    <3>3. QED
      BY <3>1, <3>2
  <2>30. ASSUME NEW p \in Procs, BaselineNext(p) PROVE TypeOK' /\ LocalsOK'
    <3>1. TypeOK'
      <4>1. PICK f \in Files :
               /\ cur' = [cur EXCEPT ![p] = f]
               /\ \/ UNCHANGED <<rows, vouched, got>>
                  \/ /\ bucket[f] # Absent
                     /\ got' = [got EXCEPT ![p][f] = bucket[f]]
                     /\ RecordNoop(p, f, bucket[f])
               /\ Reply(p, "base")
        BY <2>30 DEF BaselineNext
      <4>2. cur' \in [Procs -> 0..(NFiles + 1)]
        BY <4>1
      <4>3. /\ vouched' \subseteq Files
            /\ rows' \in [Files -> Row \cup {NoRow}]
            /\ got' \in [Procs -> [Files -> Contents \cup {Absent}]]
        <5>1. CASE UNCHANGED <<rows, vouched, got>>
          BY <5>1
        <5>2. ASSUME bucket[f] # Absent, got' = [got EXCEPT ![p][f] = bucket[f]],
                     RecordNoop(p, f, bucket[f])
              PROVE  /\ vouched' \subseteq Files
                     /\ rows' \in [Files -> Row \cup {NoRow}]
                     /\ got' \in [Procs -> [Files -> Contents \cup {Absent}]]
          <6>1. bucket[f] \in Contents
            BY <5>2
          <6>2. vouched' \subseteq Files /\ rows' \in [Files -> Row \cup {NoRow}]
            BY <5>2, <6>1 DEF RecordNoop
          <6>3. got' \in [Procs -> [Files -> Contents \cup {Absent}]]
            BY <5>2, <6>1
          <6>4. QED
            BY <6>2, <6>3
        <5>3. QED
          BY <4>1, <5>1, <5>2
      <4>4. pc' \in [Procs -> Pcs] /\ result' \in [Procs -> {"none", "ok", "err"}]
        BY <4>1
      <4>5. QED
        BY <2>30, <4>2, <4>3, <4>4 DEF BaselineNext
    <3>2. LocalsOK'
      BY <2>30 DEF BaselineNext, RecordNoop, LocalsOK
    <3>3. QED
      BY <3>1, <3>2
  <2>31. ASSUME NEW p \in Procs, BaselineComplete(p) PROVE TypeOK' /\ LocalsOK'
    <3>1. TypeOK'
      BY <2>31 DEF BaselineComplete
    <3>2. LocalsOK'
      BY <2>31 DEF BaselineComplete, LocalsOK
    <3>3. QED
      BY <3>1, <3>2
  <2>32. ASSUME NEW p \in Procs, Start(p) PROVE TypeOK' /\ LocalsOK'
    <3>1. TypeOK'
      BY <2>32 DEF Start, First, Targets
    <3>2. LocalsOK'
      BY <2>32 DEF Start, First, Targets, LocalsOK
    <3>3. QED
      BY <3>1, <3>2
  <2>33. ASSUME NEW p \in Procs, Fail(p) PROVE TypeOK' /\ LocalsOK'
    <3>1. TypeOK'
      BY <2>33 DEF Fail
    <3>2. LocalsOK'
      BY <2>33 DEF Fail, LocalsOK
    <3>3. QED
      BY <3>1, <3>2
  <2>34. ASSUME NEW p \in Procs, Die(p) PROVE TypeOK' /\ LocalsOK'
    <3>1. TypeOK'
      BY <2>34 DEF Die
    <3>2. LocalsOK'
      BY <2>34 DEF Die, LocalsOK
    <3>3. QED
      BY <3>1, <3>2
  <2>35. ASSUME NEW p \in Procs, DbSessionEnds(p) PROVE TypeOK' /\ LocalsOK'
    <3>1. TypeOK'
      BY <2>35 DEF DbSessionEnds
    <3>2. LocalsOK'
      <4>1. \A q \in Procs : pc'[q] = pc[q] \/ pc'[q] = "gone"
        BY <2>35 DEF DbSessionEnds
      <4>2. pc[p] # "idle" /\ UNCHANGED <<req, cur, got>>
        BY <2>35 DEF DbSessionEnds
      <4>3. QED
        BY <2>35, <4>1, <4>2 DEF LocalsOK, DbSessionEnds
    <3>3. QED
      BY <3>1, <3>2
  <2>36. ASSUME NEW p \in Procs, OpsSessionEnds(p) PROVE TypeOK' /\ LocalsOK'
    <3>1. TypeOK'
      BY <2>36 DEF OpsSessionEnds
    <3>2. LocalsOK'
      BY <2>36 DEF OpsSessionEnds, LocalsOK
    <3>3. QED
      BY <3>1, <3>2
  <2>37. ASSUME NEW f \in Files, NEW c \in Contents \cup {Absent}, Upload(f, c)
        PROVE  TypeOK' /\ LocalsOK'
    BY <2>37 DEF Upload, LocalsOK
  <2>38. CASE UNCHANGED vars
    BY <2>38 DEF vars, LocalsOK
  <2>39. QED
    BY <2>1, <2>2, <2>3, <2>4, <2>5, <2>6, <2>7, <2>8, <2>9, <2>10, <2>11, <2>12, <2>13,
       <2>14, <2>15, <2>16, <2>17, <2>18, <2>19, <2>20, <2>21, <2>22, <2>23, <2>24, <2>25,
       <2>26, <2>27, <2>28, <2>29, <2>30, <2>31, <2>32, <2>33, <2>34, <2>35, <2>36, <2>37,
       <2>38 DEF Next, Step, Terminated
<1>3. QED
  BY <1>1, <1>2, PTL DEF Spec

(***************************************************************************)
(* While no ops session ends before its work (Severed = {}), what the one  *)
(* under the lock has established at each of its calls: a transaction that *)
(* inserts a row has none to collide with, a DELETE matched, the rows a    *)
(* rollback has not come to are still there, a dump is loaded into a       *)
(* database that is as DROP and CREATE left it.                            *)
(***************************************************************************)
HolderOK(p) ==
    /\ pc[p] = "commit" => cur[p] \notin Tracked
    /\ pc[p] \in {"down", "undo"} => cur[p] \in Tracked
    /\ pc[p] = "undo" => got[p][cur[p]] # Absent
    /\ pc[p] \in {"rbread", "down", "undo"} \/ (pc[p] = "audit" /\ req[p].op = "rollback") =>
           \A f \in files[p] : f < cur[p] => f \in Tracked
    /\ pc[p] \in {"recreate", "reconnect", "dump"} =>
           rows = NoRows /\ effect = [f \in Files |-> 0]
    /\ pc[p] \in Body \ {"rbload", "rbread", "down", "undo", "audit", "release"} =>
           req[p].op # "rollback"

Guarded == \A p \in Procs : pc[p] \in Body => lock = p
Ledgered == \A f \in Files \ vouched : effect[f] = IF f \in Tracked THEN 1 ELSE 0
LedgerInv == Guarded /\ Ledgered /\ \A p \in Procs : HolderOK(p)

\* No row of schema_migrations is the absence of one.
LEMMA RowIsNotNoRow ==
    \A c \in Contents : [sum |-> c, noop |-> FALSE] # NoRow
<1> SUFFICES ASSUME NEW c \in Contents PROVE [sum |-> c, noop |-> FALSE] # NoRow
  OBVIOUS
<1>1. [sum |-> c, noop |-> FALSE] \in [sum : Contents, noop : BOOLEAN]
  OBVIOUS
<1>2. QED
  BY <1>1, DbMigrateAssumption

LEMMA LedgerInductive ==
    ASSUME Severed = {}
    PROVE  Spec => []LedgerInv
<1> USE DbMigrateAssumption
<1>1. Init => LedgerInv
  BY DEF Init, LedgerInv, Guarded, Ledgered, HolderOK, Tracked, Body, NoRows
<1>2. TypeOK /\ LocalsOK /\ LedgerInv /\ [Next]_vars => LedgerInv'
  <2> SUFFICES ASSUME TypeOK, LocalsOK, LedgerInv, [Next]_vars PROVE LedgerInv'
    OBVIOUS
  <2> USE DEF TypeOK, PreLock, Body,
              Goto, Throw, Finish, Reply, At, Sent,
              storeVars, dbVars, loopVars, callVars
  <2>1. ASSUME NEW p \in Procs, EnsureDatabase(p) PROVE LedgerInv'
    <3>1. Guarded'
      BY <2>1 DEF EnsureDatabase, LedgerInv, Guarded
    <3>2. Ledgered'
      BY <2>1 DEF EnsureDatabase, LedgerInv, Ledgered, Tracked
    <3>3. ASSUME NEW q \in Procs PROVE HolderOK(q)'
      BY <2>1 DEF EnsureDatabase, LedgerInv, Guarded, HolderOK, Tracked
    <3>4. QED
      BY <3>1, <3>2, <3>3 DEF LedgerInv
  <2>2. ASSUME NEW p \in Procs, CreateIfMissing(p) PROVE LedgerInv'
    <3>1. Guarded'
      BY <2>2 DEF CreateIfMissing, LedgerInv, Guarded
    <3>2. Ledgered'
      BY <2>2 DEF CreateIfMissing, LedgerInv, Ledgered, Tracked
    <3>3. ASSUME NEW q \in Procs PROVE HolderOK(q)'
      BY <2>2 DEF CreateIfMissing, LedgerInv, Guarded, HolderOK, Tracked
    <3>4. QED
      BY <3>1, <3>2, <3>3 DEF LedgerInv
  <2>3. ASSUME NEW p \in Procs, GrantSchemaAccess(p) PROVE LedgerInv'
    <3>1. Guarded'
      BY <2>3 DEF GrantSchemaAccess, LedgerInv, Guarded
    <3>2. Ledgered'
      BY <2>3 DEF GrantSchemaAccess, LedgerInv, Ledgered, Tracked
    <3>3. ASSUME NEW q \in Procs PROVE HolderOK(q)'
      BY <2>3 DEF GrantSchemaAccess, LedgerInv, Guarded, HolderOK, Tracked
    <3>4. QED
      BY <3>1, <3>2, <3>3 DEF LedgerInv
  <2>4. ASSUME NEW p \in Procs, ListSeeds(p) PROVE LedgerInv'
    <3>1. Guarded'
      BY <2>4 DEF ListSeeds, LedgerInv, Guarded
    <3>2. Ledgered'
      BY <2>4 DEF ListSeeds, LedgerInv, Ledgered, Tracked
    <3>3. ASSUME NEW q \in Procs PROVE HolderOK(q)'
      BY <2>4 DEF ListSeeds, LedgerInv, Guarded, HolderOK, Tracked
    <3>4. QED
      BY <3>1, <3>2, <3>3 DEF LedgerInv
  <2>5. ASSUME NEW p \in Procs, Connect(p) PROVE LedgerInv'
    <3>1. Guarded'
      BY <2>5 DEF Connect, LedgerInv, Guarded
    <3>2. Ledgered'
      BY <2>5 DEF Connect, LedgerInv, Ledgered, Tracked
    <3>3. ASSUME NEW q \in Procs PROVE HolderOK(q)'
      BY <2>5 DEF Connect, LedgerInv, Guarded, HolderOK, Tracked
    <3>4. QED
      BY <3>1, <3>2, <3>3 DEF LedgerInv
  <2>6. ASSUME NEW p \in Procs, AcquireLock(p) PROVE LedgerInv'
    <3>1. Guarded'
      BY <2>6 DEF AcquireLock, UnderLock, LedgerInv, Guarded
    <3>2. Ledgered'
      BY <2>6 DEF AcquireLock, UnderLock, LedgerInv, Ledgered, Tracked
    <3>3. ASSUME NEW q \in Procs PROVE HolderOK(q)'
      BY <2>6 DEF AcquireLock, UnderLock, LedgerInv, Guarded, HolderOK, Tracked
    <3>4. QED
      BY <3>1, <3>2, <3>3 DEF LedgerInv
  <2>7. ASSUME NEW p \in Procs, ReleaseLock(p) PROVE LedgerInv'
    <3>1. Guarded'
      BY <2>7 DEF ReleaseLock, LedgerInv, Guarded
    <3>2. Ledgered'
      BY <2>7 DEF ReleaseLock, LedgerInv, Ledgered, Tracked
    <3>3. ASSUME NEW q \in Procs PROVE HolderOK(q)'
      BY <2>7 DEF ReleaseLock, LedgerInv, Guarded, HolderOK, Tracked
    <3>4. QED
      BY <3>1, <3>2, <3>3 DEF LedgerInv
  <2>8. ASSUME NEW p \in Procs, LocalTracking(p) PROVE LedgerInv'
    <3>1. Guarded'
      BY <2>8 DEF LocalTracking, LedgerInv, Guarded
    <3>2. Ledgered'
      BY <2>8 DEF LocalTracking, LedgerInv, Ledgered, Tracked
    <3>3. ASSUME NEW q \in Procs PROVE HolderOK(q)'
      BY <2>8 DEF LocalTracking, LedgerInv, Guarded, HolderOK, Tracked
    <3>4. QED
      BY <3>1, <3>2, <3>3 DEF LedgerInv
  <2>9. ASSUME NEW p \in Procs, ListFiles(p) PROVE LedgerInv'
    <3>1. Guarded'
      BY <2>9 DEF ListFiles, LedgerInv, Guarded
    <3>2. Ledgered'
      BY <2>9 DEF ListFiles, LedgerInv, Ledgered, Tracked
    <3>3. ASSUME NEW q \in Procs PROVE HolderOK(q)'
      BY <2>9 DEF ListFiles, LedgerInv, Guarded, HolderOK, Tracked
    <3>4. QED
      BY <3>1, <3>2, <3>3 DEF LedgerInv
  <2>10. ASSUME NEW p \in Procs, LoadApplied(p) PROVE LedgerInv'
    <3>1. Guarded'
      BY <2>10 DEF LoadApplied, LedgerInv, Guarded
    <3>2. Ledgered'
      BY <2>10 DEF LoadApplied, LedgerInv, Ledgered, Tracked
    <3>3. ASSUME NEW q \in Procs PROVE HolderOK(q)'
      BY <2>10 DEF LoadApplied, LedgerInv, Guarded, HolderOK, Tracked
    <3>4. QED
      BY <3>1, <3>2, <3>3 DEF LedgerInv
  <2>11. ASSUME NEW p \in Procs, ReadNext(p) PROVE LedgerInv'
    <3>1. Guarded'
      BY <2>11 DEF ReadNext, LedgerInv, Guarded
    <3>2. Ledgered'
      BY <2>11 DEF ReadNext, LedgerInv, Ledgered, Tracked
    <3>3. ASSUME NEW q \in Procs PROVE HolderOK(q)'
      BY <2>11 DEF ReadNext, LedgerInv, Guarded, HolderOK, Tracked
    <3>4. QED
      BY <3>1, <3>2, <3>3 DEF LedgerInv
  <2>12. ASSUME NEW p \in Procs, MigrateComplete(p) PROVE LedgerInv'
    <3>1. Guarded'
      BY <2>12 DEF MigrateComplete, LedgerInv, Guarded
    <3>2. Ledgered'
      BY <2>12 DEF MigrateComplete, LedgerInv, Ledgered, Tracked
    <3>3. ASSUME NEW q \in Procs PROVE HolderOK(q)'
      BY <2>12 DEF MigrateComplete, LedgerInv, Guarded, HolderOK, Tracked
    <3>4. QED
      BY <3>1, <3>2, <3>3 DEF LedgerInv
  <2>13. ASSUME NEW p \in Procs, ApplyFile(p) PROVE LedgerInv'
    <3>1. Guarded'
      BY <2>13 DEF ApplyFile, LedgerInv, Guarded
    <3>2. Ledgered'
      BY <2>13 DEF ApplyFile, LedgerInv, Ledgered, Tracked
    <3>3. ASSUME NEW q \in Procs PROVE HolderOK(q)'
      BY <2>13 DEF ApplyFile, LedgerInv, Guarded, HolderOK, Tracked
    <3>4. QED
      BY <3>1, <3>2, <3>3 DEF LedgerInv
  <2>14. ASSUME NEW p \in Procs, CommitFile(p) PROVE LedgerInv'
    <3>1. Guarded'
      BY <2>14 DEF CommitFile, LedgerInv, Guarded
    <3>2. Ledgered'
      <4>1. cur[p] \in Files /\ cur[p] \notin Tracked
        BY <2>14 DEF CommitFile, LocalsOK, LedgerInv, HolderOK
      <4>2. [sum |-> got[p][cur[p]], noop |-> FALSE] # NoRow
        <5>1. got[p][cur[p]] \in Contents
          BY <2>14 DEF CommitFile, LocalsOK
        <5>2. QED
          BY <5>1, RowIsNotNoRow
      <4>3. Tracked' = Tracked \cup {cur[p]}
        BY <2>14, <4>1, <4>2 DEF CommitFile, Tracked
      <4>4. QED
        BY <2>14, <4>1, <4>3 DEF CommitFile, LedgerInv, Ledgered
    <3>3. ASSUME NEW q \in Procs PROVE HolderOK(q)'
      <4>1. pc[p] \in Body /\ \A r \in Procs \ {p} : pc[r] \notin Body
        BY <2>14 DEF CommitFile, LedgerInv, Guarded
      <4>2. HolderOK(p)
        BY DEF LedgerInv
      <4>8. CASE q = p
        BY <2>14, <4>2, <4>8 DEF CommitFile, LedgerInv, HolderOK, Tracked
      <4>9. CASE q # p
        <5>1. pc'[q] \notin Body
          BY <2>14, <4>1, <4>9 DEF CommitFile
        <5>2. QED
          BY <5>1 DEF HolderOK
      <4>10. QED
        BY <4>8, <4>9
    <3>4. QED
      BY <3>1, <3>2, <3>3 DEF LedgerInv
  <2>15. ASSUME NEW p \in Procs, Audit(p) PROVE LedgerInv'
    <3>1. Guarded'
      BY <2>15 DEF Audit, LedgerInv, Guarded
    <3>2. Ledgered'
      BY <2>15 DEF Audit, LedgerInv, Ledgered, Tracked
    <3>3. ASSUME NEW q \in Procs PROVE HolderOK(q)'
      BY <2>15 DEF Audit, LedgerInv, Guarded, HolderOK, Tracked
    <3>4. QED
      BY <3>1, <3>2, <3>3 DEF LedgerInv
  <2>16. ASSUME NEW p \in Procs, LoadForRollback(p) PROVE LedgerInv'
    <3>1. Guarded'
      BY <2>16 DEF LoadForRollback, LedgerInv, Guarded
    <3>2. Ledgered'
      BY <2>16 DEF LoadForRollback, LedgerInv, Ledgered, Tracked
    <3>3. ASSUME NEW q \in Procs PROVE HolderOK(q)'
      BY <2>16 DEF LoadForRollback, LedgerInv, Guarded, HolderOK, Tracked
    <3>4. QED
      BY <3>1, <3>2, <3>3 DEF LedgerInv
  <2>17. ASSUME NEW p \in Procs, RollbackNext(p) PROVE LedgerInv'
    <3>1. Guarded'
      BY <2>17 DEF RollbackNext, LedgerInv, Guarded
    <3>2. Ledgered'
      BY <2>17 DEF RollbackNext, LedgerInv, Ledgered, Tracked
    <3>3. ASSUME NEW q \in Procs PROVE HolderOK(q)'
      <4>1. pc[p] \in Body /\ \A r \in Procs \ {p} : pc[r] \notin Body
        BY <2>17 DEF RollbackNext, LedgerInv, Guarded
      <4>2. HolderOK(p)
        BY DEF LedgerInv
      <4>8. CASE q = p
        <5>1. PICK f \in RollbackFiles :
                 f \in files[p] /\ f < cur[p] /\ cur' = [cur EXCEPT ![p] = f]
          BY <2>17 DEF RollbackNext, IsGreatest, NextDown
        <5>2. \A g \in files[p] : g < cur[p] => g \in Tracked
          BY <2>17, <4>2 DEF RollbackNext, HolderOK
        <5>3. f \in Tracked /\ \A g \in files[p] : g < f => g \in Tracked
          <6>1. files[p] \subseteq Int /\ cur[p] \in Int
            BY DEF Files
          <6>2. QED
            BY <5>1, <5>2, <6>1
        <5>4. UNCHANGED <<rows, files>> /\ pc'[p] = "down" /\ cur'[p] = f
          BY <2>17, <5>1 DEF RollbackNext
        <5>5. QED
          BY <4>8, <5>3, <5>4 DEF HolderOK, Tracked
      <4>9. CASE q # p
        <5>1. pc'[q] \notin Body
          BY <2>17, <4>1, <4>9 DEF RollbackNext
        <5>2. QED
          BY <5>1 DEF HolderOK
      <4>10. QED
        BY <4>8, <4>9
    <3>4. QED
      BY <3>1, <3>2, <3>3 DEF LedgerInv
  <2>18. ASSUME NEW p \in Procs, RollbackComplete(p) PROVE LedgerInv'
    <3>1. Guarded'
      BY <2>18 DEF RollbackComplete, LedgerInv, Guarded
    <3>2. Ledgered'
      BY <2>18 DEF RollbackComplete, LedgerInv, Ledgered, Tracked
    <3>3. ASSUME NEW q \in Procs PROVE HolderOK(q)'
      BY <2>18 DEF RollbackComplete, LedgerInv, Guarded, HolderOK, Tracked
    <3>4. QED
      BY <3>1, <3>2, <3>3 DEF LedgerInv
  <2>19. ASSUME NEW p \in Procs, DownFile(p) PROVE LedgerInv'
    <3>1. Guarded'
      BY <2>19 DEF DownFile, LedgerInv, Guarded
    <3>2. Ledgered'
      BY <2>19 DEF DownFile, LedgerInv, Ledgered, Tracked
    <3>3. ASSUME NEW q \in Procs PROVE HolderOK(q)'
      <4>1. pc[p] \in Body /\ \A r \in Procs \ {p} : pc[r] \notin Body
        BY <2>19 DEF DownFile, LedgerInv, Guarded
      <4>2. HolderOK(p)
        BY DEF LedgerInv
      <4>8. CASE q = p
        <5>1. cur[p] \in Tracked /\ \A f \in files[p] : f < cur[p] => f \in Tracked
          BY <2>19, <4>2 DEF DownFile, HolderOK
        <5>2. rows[cur[p]].sum \in Contents
          BY <5>1 DEF Tracked, Row
        <5>3. got'[p][cur[p]] # Absent
          BY <2>19, <5>1, <5>2 DEF DownFile, Tracked
        <5>4. UNCHANGED <<rows, cur, files>> /\ pc'[p] = "undo"
          BY <2>19 DEF DownFile
        <5>5. QED
          BY <4>8, <5>1, <5>3, <5>4 DEF HolderOK, Tracked
      <4>9. CASE q # p
        <5>1. pc'[q] \notin Body
          BY <2>19, <4>1, <4>9 DEF DownFile
        <5>2. QED
          BY <5>1 DEF HolderOK
      <4>10. QED
        BY <4>8, <4>9
    <3>4. QED
      BY <3>1, <3>2, <3>3 DEF LedgerInv
  <2>20. ASSUME NEW p \in Procs, CommitDown(p) PROVE LedgerInv'
    <3>1. Guarded'
      BY <2>20 DEF CommitDown, LedgerInv, Guarded
    <3>2. Ledgered'
      <4>1. cur[p] \in Tracked /\ got[p][cur[p]] # Absent
        BY <2>20 DEF CommitDown, LedgerInv, HolderOK
      <4>2. cur[p] \in Files /\ Tracked' = Tracked \ {cur[p]}
        BY <2>20, <4>1 DEF CommitDown, Tracked
      <4>3. QED
        BY <2>20, <4>1, <4>2 DEF CommitDown, LedgerInv, Ledgered
    <3>3. ASSUME NEW q \in Procs PROVE HolderOK(q)'
      BY <2>20 DEF CommitDown, LedgerInv, Guarded, HolderOK, Tracked
    <3>4. QED
      BY <3>1, <3>2, <3>3 DEF LedgerInv
  <2>21. ASSUME NEW p \in Procs, SeedNext(p) PROVE LedgerInv'
    <3>1. Guarded'
      BY <2>21 DEF SeedNext, LedgerInv, Guarded
    <3>2. Ledgered'
      BY <2>21 DEF SeedNext, LedgerInv, Ledgered, Tracked
    <3>3. ASSUME NEW q \in Procs PROVE HolderOK(q)'
      BY <2>21 DEF SeedNext, LedgerInv, Guarded, HolderOK, Tracked
    <3>4. QED
      BY <3>1, <3>2, <3>3 DEF LedgerInv
  <2>22. ASSUME NEW p \in Procs, SeedComplete(p) PROVE LedgerInv'
    <3>1. Guarded'
      BY <2>22 DEF SeedComplete, LedgerInv, Guarded
    <3>2. Ledgered'
      BY <2>22 DEF SeedComplete, LedgerInv, Ledgered, Tracked
    <3>3. ASSUME NEW q \in Procs PROVE HolderOK(q)'
      BY <2>22 DEF SeedComplete, LedgerInv, Guarded, HolderOK, Tracked
    <3>4. QED
      BY <3>1, <3>2, <3>3 DEF LedgerInv
  <2>23. ASSUME NEW p \in Procs, NoopQuery(p) PROVE LedgerInv'
    <3>1. Guarded'
      BY <2>23 DEF NoopQuery, LedgerInv, Guarded
    <3>2. Ledgered'
      BY <2>23 DEF NoopQuery, LedgerInv, Ledgered, Tracked
    <3>3. ASSUME NEW q \in Procs PROVE HolderOK(q)'
      BY <2>23 DEF NoopQuery, LedgerInv, Guarded, HolderOK, Tracked
    <3>4. QED
      BY <3>1, <3>2, <3>3 DEF LedgerInv
  <2>24. ASSUME NEW p \in Procs, NoopRead(p) PROVE LedgerInv'
    <3>1. Guarded'
      BY <2>24 DEF NoopRead, LedgerInv, Guarded
    <3>2. Ledgered'
      BY <2>24 DEF NoopRead, LedgerInv, Ledgered, Tracked
    <3>3. ASSUME NEW q \in Procs PROVE HolderOK(q)'
      BY <2>24 DEF NoopRead, LedgerInv, Guarded, HolderOK, Tracked
    <3>4. QED
      BY <3>1, <3>2, <3>3 DEF LedgerInv
  <2>25. ASSUME NEW p \in Procs, NoopInsert(p) PROVE LedgerInv'
    <3>1. Guarded'
      BY <2>25 DEF NoopInsert, RecordNoop, LedgerInv, Guarded
    <3>2. Ledgered'
      BY <2>25 DEF NoopInsert, RecordNoop, LedgerInv, Ledgered, Tracked
    <3>3. ASSUME NEW q \in Procs PROVE HolderOK(q)'
      <4>1. pc[p] \in Body /\ \A r \in Procs \ {p} : pc[r] \notin Body
        BY <2>25 DEF NoopInsert, LedgerInv, Guarded
      <4>2. HolderOK(p)
        BY DEF LedgerInv
      <4>8. CASE q = p
        BY <2>25, <4>2, <4>8 DEF NoopInsert, RecordNoop, LedgerInv, HolderOK, Tracked
      <4>9. CASE q # p
        <5>1. pc'[q] \notin Body
          BY <2>25, <4>1, <4>9 DEF NoopInsert
        <5>2. QED
          BY <5>1 DEF HolderOK
      <4>10. QED
        BY <4>8, <4>9
    <3>4. QED
      BY <3>1, <3>2, <3>3 DEF LedgerInv
  <2>26. ASSUME NEW p \in Procs, TerminateSessions(p) PROVE LedgerInv'
    <3>1. Guarded'
      BY <2>26 DEF TerminateSessions, LedgerInv, Guarded
    <3>2. Ledgered'
      BY <2>26 DEF TerminateSessions, LedgerInv, Ledgered, Tracked
    <3>3. ASSUME NEW q \in Procs PROVE HolderOK(q)'
      BY <2>26 DEF TerminateSessions, LedgerInv, Guarded, HolderOK, Tracked
    <3>4. QED
      BY <3>1, <3>2, <3>3 DEF LedgerInv
  <2>27. ASSUME NEW p \in Procs, DropDatabase(p) PROVE LedgerInv'
    <3>1. Guarded'
      BY <2>27 DEF DropDatabase, LedgerInv, Guarded
    <3>2. Ledgered'
      <4>1. Tracked' = {} /\ effect' = [f \in Files |-> 0] /\ vouched' = {}
        BY <2>27 DEF DropDatabase, Tracked, NoRows
      <4>2. QED
        BY <4>1 DEF Ledgered
    <3>3. ASSUME NEW q \in Procs PROVE HolderOK(q)'
      <4>1. pc[p] \in Body /\ \A r \in Procs \ {p} : pc[r] \notin Body
        BY <2>27 DEF DropDatabase, LedgerInv, Guarded
      <4>2. HolderOK(p)
        BY DEF LedgerInv
      <4>8. CASE q = p
        BY <2>27, <4>2, <4>8 DEF DropDatabase, NoRows, LedgerInv, HolderOK, Tracked
      <4>9. CASE q # p
        <5>1. pc'[q] \notin Body
          BY <2>27, <4>1, <4>9 DEF DropDatabase
        <5>2. QED
          BY <5>1 DEF HolderOK
      <4>10. QED
        BY <4>8, <4>9
    <3>4. QED
      BY <3>1, <3>2, <3>3 DEF LedgerInv
  <2>28. ASSUME NEW p \in Procs, RecreateDatabase(p) PROVE LedgerInv'
    <3>1. Guarded'
      BY <2>28 DEF RecreateDatabase, LedgerInv, Guarded
    <3>2. Ledgered'
      BY <2>28 DEF RecreateDatabase, LedgerInv, Ledgered, Tracked
    <3>3. ASSUME NEW q \in Procs PROVE HolderOK(q)'
      <4>1. pc[p] \in Body /\ \A r \in Procs \ {p} : pc[r] \notin Body
        BY <2>28 DEF RecreateDatabase, LedgerInv, Guarded
      <4>2. HolderOK(p)
        BY DEF LedgerInv
      <4>8. CASE q = p
        BY <2>28, <4>2, <4>8 DEF RecreateDatabase, LedgerInv, HolderOK, Tracked
      <4>9. CASE q # p
        <5>1. pc'[q] \notin Body
          BY <2>28, <4>1, <4>9 DEF RecreateDatabase
        <5>2. QED
          BY <5>1 DEF HolderOK
      <4>10. QED
        BY <4>8, <4>9
    <3>4. QED
      BY <3>1, <3>2, <3>3 DEF LedgerInv
  <2>29. ASSUME NEW p \in Procs, LoadDump(p) PROVE LedgerInv'
    <3>1. Guarded'
      BY <2>29 DEF LoadDump, LedgerInv, Guarded
    <3>2. Ledgered'
      <4>1. rows = NoRows /\ effect = [f \in Files |-> 0]
        BY <2>29 DEF LoadDump, LedgerInv, HolderOK
      <4>2. Tracked = {}
        BY <4>1 DEF Tracked, NoRows
      <4>3. PICK there \in SUBSET Files :
               /\ effect' = [f \in Files |-> IF f \in there THEN effect[f] + 1 ELSE effect[f]]
               /\ \/ /\ \E sums \in [there -> Contents] :
                          rows' = [f \in Files |-> IF f \in there
                                      THEN [sum |-> sums[f], noop |-> FALSE] ELSE NoRow]
                     /\ UNCHANGED vouched
                  \/ vouched' = vouched \cup there /\ UNCHANGED rows
        BY <2>29 DEF LoadDump
      <4>4. effect' = [f \in Files |-> IF f \in there THEN 1 ELSE 0]
        BY <4>1, <4>3
      <4>5. CASE vouched' = vouched \cup there /\ UNCHANGED rows
        BY <4>2, <4>4, <4>5 DEF Ledgered, Tracked
      <4>6. ASSUME NEW sums \in [there -> Contents],
                   rows' = [f \in Files |-> IF f \in there
                               THEN [sum |-> sums[f], noop |-> FALSE] ELSE NoRow]
            PROVE  Ledgered'
        <5>1. \A f \in there : [sum |-> sums[f], noop |-> FALSE] # NoRow
          BY RowIsNotNoRow
        <5>2. Tracked' = there
          BY <4>6, <5>1 DEF Tracked
        <5>3. QED
          BY <4>4, <5>2 DEF Ledgered
      <4>7. QED
        BY <4>3, <4>5, <4>6
    <3>3. ASSUME NEW q \in Procs PROVE HolderOK(q)'
      <4>1. pc[p] \in Body /\ \A r \in Procs \ {p} : pc[r] \notin Body
        BY <2>29 DEF LoadDump, LedgerInv, Guarded
      <4>2. HolderOK(p)
        BY DEF LedgerInv
      <4>8. CASE q = p
        BY <2>29, <4>2, <4>8 DEF LoadDump, LedgerInv, HolderOK, Tracked
      <4>9. CASE q # p
        <5>1. pc'[q] \notin Body
          BY <2>29, <4>1, <4>9 DEF LoadDump
        <5>2. QED
          BY <5>1 DEF HolderOK
      <4>10. QED
        BY <4>8, <4>9
    <3>4. QED
      BY <3>1, <3>2, <3>3 DEF LedgerInv
  <2>30. ASSUME NEW p \in Procs, BaselineNext(p) PROVE LedgerInv'
    <3>1. Guarded'
      BY <2>30 DEF BaselineNext, RecordNoop, LedgerInv, Guarded
    <3>2. Ledgered'
      BY <2>30 DEF BaselineNext, RecordNoop, LedgerInv, Ledgered, Tracked
    <3>3. ASSUME NEW q \in Procs PROVE HolderOK(q)'
      BY <2>30 DEF BaselineNext, RecordNoop, LedgerInv, Guarded, HolderOK, Tracked
    <3>4. QED
      BY <3>1, <3>2, <3>3 DEF LedgerInv
  <2>31. ASSUME NEW p \in Procs, BaselineComplete(p) PROVE LedgerInv'
    <3>1. Guarded'
      BY <2>31 DEF BaselineComplete, LedgerInv, Guarded
    <3>2. Ledgered'
      BY <2>31 DEF BaselineComplete, LedgerInv, Ledgered, Tracked
    <3>3. ASSUME NEW q \in Procs PROVE HolderOK(q)'
      BY <2>31 DEF BaselineComplete, LedgerInv, Guarded, HolderOK, Tracked
    <3>4. QED
      BY <3>1, <3>2, <3>3 DEF LedgerInv
  <2>32. ASSUME NEW p \in Procs, Start(p) PROVE LedgerInv'
    <3>1. Guarded'
      BY <2>32 DEF Start, First, Targets, LedgerInv, Guarded
    <3>2. Ledgered'
      BY <2>32 DEF Start, First, Targets, LedgerInv, Ledgered, Tracked
    <3>3. ASSUME NEW q \in Procs PROVE HolderOK(q)'
      BY <2>32 DEF Start, First, Targets, LedgerInv, Guarded, HolderOK, Tracked
    <3>4. QED
      BY <3>1, <3>2, <3>3 DEF LedgerInv
  <2>33. ASSUME NEW p \in Procs, Fail(p) PROVE LedgerInv'
    <3>1. Guarded'
      BY <2>33 DEF Fail, LedgerInv, Guarded
    <3>2. Ledgered'
      BY <2>33 DEF Fail, LedgerInv, Ledgered, Tracked
    <3>3. ASSUME NEW q \in Procs PROVE HolderOK(q)'
      BY <2>33 DEF Fail, LedgerInv, Guarded, HolderOK, Tracked
    <3>4. QED
      BY <3>1, <3>2, <3>3 DEF LedgerInv
  <2>34. ASSUME NEW p \in Procs, Die(p) PROVE LedgerInv'
    <3>1. Guarded'
      BY <2>34 DEF Die, LedgerInv, Guarded
    <3>2. Ledgered'
      BY <2>34 DEF Die, LedgerInv, Ledgered, Tracked
    <3>3. ASSUME NEW q \in Procs PROVE HolderOK(q)'
      BY <2>34 DEF Die, LedgerInv, Guarded, HolderOK, Tracked
    <3>4. QED
      BY <3>1, <3>2, <3>3 DEF LedgerInv
  <2>35. ASSUME NEW p \in Procs, DbSessionEnds(p) PROVE LedgerInv'
    <3>1. Guarded'
      BY <2>35 DEF DbSessionEnds, LedgerInv, Guarded
    <3>2. Ledgered'
      BY <2>35 DEF DbSessionEnds, LedgerInv, Ledgered, Tracked
    <3>3. ASSUME NEW q \in Procs PROVE HolderOK(q)'
      BY <2>35 DEF DbSessionEnds, LedgerInv, Guarded, HolderOK, Tracked
    <3>4. QED
      BY <3>1, <3>2, <3>3 DEF LedgerInv
  <2>36. ASSUME NEW p \in Procs, OpsSessionEnds(p) PROVE LedgerInv'
    <3>1. Guarded'
      BY <2>36 DEF OpsSessionEnds, LedgerInv, Guarded
    <3>2. Ledgered'
      BY <2>36 DEF OpsSessionEnds, LedgerInv, Ledgered, Tracked
    <3>3. ASSUME NEW q \in Procs PROVE HolderOK(q)'
      BY <2>36 DEF OpsSessionEnds, LedgerInv, Guarded, HolderOK, Tracked
    <3>4. QED
      BY <3>1, <3>2, <3>3 DEF LedgerInv
  <2>37. ASSUME NEW f \in Files, NEW c \in Contents \cup {Absent}, Upload(f, c)
        PROVE  LedgerInv'
    BY <2>37 DEF Upload, LedgerInv, Guarded, Ledgered, HolderOK, Tracked
  <2>38. CASE UNCHANGED vars
    BY <2>38 DEF vars, LedgerInv, Guarded, Ledgered, HolderOK, Tracked
  <2>39. QED
    BY <2>1, <2>2, <2>3, <2>4, <2>5, <2>6, <2>7, <2>8, <2>9, <2>10, <2>11, <2>12, <2>13,
       <2>14, <2>15, <2>16, <2>17, <2>18, <2>19, <2>20, <2>21, <2>22, <2>23, <2>24, <2>25,
       <2>26, <2>27, <2>28, <2>29, <2>30, <2>31, <2>32, <2>33, <2>34, <2>35, <2>36, <2>37,
       <2>38 DEF Next, Step, Terminated
<1>3. QED
  BY <1>1, <1>2, TypeInductive, PTL DEF Spec

(***************************************************************************)
(* What an invocation has done at each of its calls.                       *)
(***************************************************************************)

\* The calls that come before the first file of a loop.
BeforeLoop == {"idle"} \cup PreLock \cup
              {"track", "list", "load", "terminate", "drop", "recreate", "reconnect", "dump"}

\* Which operation makes a call, and what it has not touched yet.
PlanOK(p) ==
    /\ pc[p] \in {"load", "read", "apply", "commit"} => req[p].op = "migrate"
    /\ pc[p] \in {"rbload", "rbread", "down", "undo"} => req[p].op = "rollback"
    /\ pc[p] = "seed" => req[p].op = "seed"
    /\ pc[p] \in {"nquery", "nread", "ninsert"} => req[p].op = "noop"
    /\ pc[p] \in {"terminate", "drop"} => req[p].op \in {"drop", "restore"}
    /\ pc[p] \in {"recreate", "reconnect", "dump", "base"} => req[p].op = "restore"
    /\ pc[p] = "list" => req[p].op \in {"migrate", "restore"}
    /\ pc[p] = "track" => req[p].op \in {"migrate", "noop", "restore"}
    /\ pc[p] \in BeforeLoop => cur[p] = 0
    /\ pc[p] \notin {"release", "done", "gone"} => result[p] = "none"

\* The operation is at one of these calls, or at the audit write after it.
In(p, op, calls) == pc[p] \in calls \/ (pc[p] = "audit" /\ req[p].op = op)

Recorded(p, f) == f \in Tracked /\ rows[f].sum = got[p][f]

\* migrate: what the loop has passed is recorded with the checksum it read,
\* and what the table said before the loop is what it says now.
MigrateOK(p) ==
    /\ In(p, "migrate", {"read"}) =>
           \A f \in files[p] : f <= cur[p] => Recorded(p, f)
    /\ pc[p] \in {"apply", "commit"} =>
           \A f \in files[p] : f < cur[p] => Recorded(p, f)
    /\ In(p, "migrate", {"read", "apply", "commit"}) =>
           \A f \in Files : seen[p][f] # Absent =>
               f \in Tracked /\ rows[f].sum = seen[p][f]
    /\ In(p, "migrate", {}) => cur[p] \in Tracked /\ ~rows[cur[p]].noop
    /\ ReturnsOk(p, "migrate") => \A f \in files[p] : Recorded(p, f)

\* rollback: every row after the target is still ahead of the loop.
RollbackOK(p) ==
    /\ In(p, "rollback", {"rbread"}) =>
           \A f \in Tracked : f > req[p].target => f \in files[p] /\ f < cur[p]
    /\ pc[p] \in {"down", "undo"} =>
           \A f \in Tracked : f > req[p].target => f \in files[p] /\ f <= cur[p]
    /\ In(p, "rollback", {}) => cur[p] \notin Tracked
    /\ ReturnsOk(p, "rollback") => \A f \in Tracked : f <= req[p].target

\* seed: what the loop has passed is planted.
SeedOK(p) ==
    /\ In(p, "seed", {"seed"}) => \A f \in files[p] : f <= cur[p] => f \in planted
    /\ In(p, "seed", {}) => cur[p] \in planted
    /\ ReturnsOk(p, "seed") => files[p] \subseteq planted

\* restore: what the baseline has passed is recorded; nobody drops the
\* database or its table again.
RestoreOK(p) ==
    /\ In(p, "restore", {"reconnect", "dump", "base"}) => exists
    /\ pc[p] \in {"track", "list"} /\ req[p].op = "restore" => exists
    /\ In(p, "restore", {"base"}) => tracking
    /\ pc[p] = "list" /\ req[p].op = "restore" => tracking
    /\ pc[p] = "base" => \A f \in files[p] : f <= cur[p] => f \in Tracked
    /\ In(p, "restore", {}) => files[p] \subseteq Tracked
    /\ ReturnsOk(p, "restore") => files[p] \subseteq Tracked

\* noop and drop make one change, and it is there when it is audited.
SingleOK(p) ==
    /\ In(p, "noop", {}) => cur[p] \in Tracked /\ rows[cur[p]].noop
    /\ In(p, "drop", {}) => Tracked = {}

WorkOK(p) == MigrateOK(p) /\ RollbackOK(p) /\ SeedOK(p) /\ RestoreOK(p) /\ SingleOK(p)
PlanInv == \A p \in Procs : PlanOK(p)
WorkInv == \A p \in Procs : WorkOK(p)


(***************************************************************************)
(* A step of one invocation, and what it leaves alone of another's: all    *)
(* but the session, which pg_terminate_backend ends.                       *)
(***************************************************************************)
Acts(p) == Start(p) \/ Step(p) \/ Fail(p) \/ Die(p) \/ DbSessionEnds(p) \/ OpsSessionEnds(p)

Untouched(q) ==
    /\ pc'[q] = pc[q] /\ req'[q] = req[q] /\ result'[q] = result[q]
    /\ files'[q] = files[q] /\ cur'[q] = cur[q]
    /\ seen'[q] = seen[q] /\ got'[q] = got[q]

LEMMA OthersKeepLocals ==
    ASSUME TypeOK, NEW p \in Procs, NEW q \in Procs \ {p}, Acts(p)
    PROVE  Untouched(q)
<1> USE DEF TypeOK, Untouched, Goto, Throw, Finish, Reply, storeVars, dbVars, loopVars, callVars
<1>1. CASE EnsureDatabase(p)
  BY <1>1 DEF EnsureDatabase
<1>2. CASE CreateIfMissing(p)
  BY <1>2 DEF CreateIfMissing
<1>3. CASE GrantSchemaAccess(p)
  BY <1>3 DEF GrantSchemaAccess
<1>4. CASE ListSeeds(p)
  BY <1>4 DEF ListSeeds
<1>5. CASE Connect(p)
  BY <1>5 DEF Connect
<1>6. CASE AcquireLock(p)
  BY <1>6 DEF AcquireLock
<1>7. CASE ReleaseLock(p)
  BY <1>7 DEF ReleaseLock
<1>8. CASE LocalTracking(p)
  BY <1>8 DEF LocalTracking
<1>9. CASE ListFiles(p)
  BY <1>9 DEF ListFiles
<1>10. CASE LoadApplied(p)
  BY <1>10 DEF LoadApplied
<1>11. CASE ReadNext(p)
  BY <1>11 DEF ReadNext
<1>12. CASE MigrateComplete(p)
  BY <1>12 DEF MigrateComplete
<1>13. CASE ApplyFile(p)
  BY <1>13 DEF ApplyFile
<1>14. CASE CommitFile(p)
  BY <1>14 DEF CommitFile
<1>15. CASE Audit(p)
  BY <1>15 DEF Audit
<1>16. CASE LoadForRollback(p)
  BY <1>16 DEF LoadForRollback
<1>17. CASE RollbackNext(p)
  BY <1>17 DEF RollbackNext
<1>18. CASE RollbackComplete(p)
  BY <1>18 DEF RollbackComplete
<1>19. CASE DownFile(p)
  BY <1>19 DEF DownFile
<1>20. CASE CommitDown(p)
  BY <1>20 DEF CommitDown
<1>21. CASE SeedNext(p)
  BY <1>21 DEF SeedNext
<1>22. CASE SeedComplete(p)
  BY <1>22 DEF SeedComplete
<1>23. CASE NoopQuery(p)
  BY <1>23 DEF NoopQuery
<1>24. CASE NoopRead(p)
  BY <1>24 DEF NoopRead
<1>25. CASE NoopInsert(p)
  BY <1>25 DEF NoopInsert
<1>26. CASE TerminateSessions(p)
  BY <1>26 DEF TerminateSessions
<1>27. CASE DropDatabase(p)
  BY <1>27 DEF DropDatabase
<1>28. CASE RecreateDatabase(p)
  BY <1>28 DEF RecreateDatabase
<1>29. CASE LoadDump(p)
  BY <1>29 DEF LoadDump
<1>30. CASE BaselineNext(p)
  BY <1>30 DEF BaselineNext
<1>31. CASE BaselineComplete(p)
  BY <1>31 DEF BaselineComplete
<1>32. CASE Start(p)
  BY <1>32 DEF Start
<1>33. CASE Fail(p)
  BY <1>33 DEF Fail
<1>34. CASE Die(p)
  BY <1>34 DEF Die
<1>35. CASE DbSessionEnds(p)
  BY <1>35 DEF DbSessionEnds
<1>36. CASE OpsSessionEnds(p)
  BY <1>36 DEF OpsSessionEnds
<1>37. QED
  BY <1>1, <1>2, <1>3, <1>4, <1>5, <1>6, <1>7, <1>8, <1>9, <1>10, <1>11, <1>12, <1>13,
     <1>14, <1>15, <1>16, <1>17, <1>18, <1>19, <1>20, <1>21, <1>22, <1>23, <1>24, <1>25,
     <1>26, <1>27, <1>28, <1>29, <1>30, <1>31, <1>32, <1>33, <1>34, <1>35, <1>36 DEF Acts,
     Step

\* Only acquire_lock leads an invocation into the calls under the lock, and the
\* lock changes hands only there, at release_lock and when a session ends.
LEMMA OnlyTheLockEnters ==
    ASSUME TypeOK, NEW p \in Procs, Acts(p),
           ~(AcquireLock(p) \/ ReleaseLock(p) \/ OpsSessionEnds(p))
    PROVE  lock' = lock /\ (pc'[p] \in Body => pc[p] \in Body)
<1> USE DEF TypeOK, Goto, Throw, Finish, Reply, At, Sent, PreLock, Body, callVars
<1>1. CASE EnsureDatabase(p)
  BY <1>1 DEF EnsureDatabase
<1>2. CASE CreateIfMissing(p)
  BY <1>2 DEF CreateIfMissing
<1>3. CASE GrantSchemaAccess(p)
  BY <1>3 DEF GrantSchemaAccess
<1>4. CASE ListSeeds(p)
  BY <1>4 DEF ListSeeds
<1>5. CASE Connect(p)
  BY <1>5 DEF Connect
<1>6. CASE LocalTracking(p)
  BY <1>6 DEF LocalTracking
<1>7. CASE ListFiles(p)
  BY <1>7 DEF ListFiles
<1>8. CASE LoadApplied(p)
  BY <1>8 DEF LoadApplied
<1>9. CASE ReadNext(p)
  BY <1>9 DEF ReadNext
<1>10. CASE MigrateComplete(p)
  BY <1>10 DEF MigrateComplete
<1>11. CASE ApplyFile(p)
  BY <1>11 DEF ApplyFile
<1>12. CASE CommitFile(p)
  BY <1>12 DEF CommitFile
<1>13. CASE Audit(p)
  BY <1>13 DEF Audit
<1>14. CASE LoadForRollback(p)
  BY <1>14 DEF LoadForRollback
<1>15. CASE RollbackNext(p)
  BY <1>15 DEF RollbackNext
<1>16. CASE RollbackComplete(p)
  BY <1>16 DEF RollbackComplete
<1>17. CASE DownFile(p)
  BY <1>17 DEF DownFile
<1>18. CASE CommitDown(p)
  BY <1>18 DEF CommitDown
<1>19. CASE SeedNext(p)
  BY <1>19 DEF SeedNext
<1>20. CASE SeedComplete(p)
  BY <1>20 DEF SeedComplete
<1>21. CASE NoopQuery(p)
  BY <1>21 DEF NoopQuery
<1>22. CASE NoopRead(p)
  BY <1>22 DEF NoopRead
<1>23. CASE NoopInsert(p)
  BY <1>23 DEF NoopInsert
<1>24. CASE TerminateSessions(p)
  BY <1>24 DEF TerminateSessions
<1>25. CASE DropDatabase(p)
  BY <1>25 DEF DropDatabase
<1>26. CASE RecreateDatabase(p)
  BY <1>26 DEF RecreateDatabase
<1>27. CASE LoadDump(p)
  BY <1>27 DEF LoadDump
<1>28. CASE BaselineNext(p)
  BY <1>28 DEF BaselineNext
<1>29. CASE BaselineComplete(p)
  BY <1>29 DEF BaselineComplete
<1>30. CASE Start(p)
  <2>1. PICK op \in Ops : pc' = [pc EXCEPT ![p] = First[op]]
    BY <1>30 DEF Start
  <2>2. op \in {"migrate", "rollback", "seed", "drop", "noop", "restore"}
    BY DbMigrateAssumption
  <2>3. First[op] \in {"ensure", "connect", "listseed", "lock"}
    BY <2>2 DEF First
  <2>4. QED
    BY <1>30, <2>1, <2>3 DEF Start
<1>31. CASE Fail(p)
  BY <1>31 DEF Fail
<1>32. CASE Die(p)
  BY <1>32 DEF Die
<1>33. CASE DbSessionEnds(p)
  BY <1>33 DEF DbSessionEnds
<1>34. QED
  BY <1>1, <1>2, <1>3, <1>4, <1>5, <1>6, <1>7, <1>8, <1>9, <1>10, <1>11, <1>12, <1>13,
     <1>14, <1>15, <1>16, <1>17, <1>18, <1>19, <1>20, <1>21, <1>22, <1>23, <1>24,
     <1>25, <1>26, <1>27, <1>28, <1>29, <1>30, <1>31, <1>32, <1>33 DEF Acts, Step

LEMMA PlanInductive == Spec => []PlanInv
<1> USE DbMigrateAssumption
<1>1. Init => PlanInv
  BY DEF Init, PlanInv, PlanOK, BeforeLoop, PreLock
<1>2. TypeOK /\ LocalsOK /\ PlanInv /\ [Next]_vars => PlanInv'
  <2> SUFFICES ASSUME TypeOK, LocalsOK, PlanInv, [Next]_vars PROVE PlanInv'
    OBVIOUS
  <2>1. ASSUME NEW p \in Procs, Acts(p) PROVE PlanInv'
    <3>1. ASSUME NEW q \in Procs \ {p} PROVE PlanOK(q)'
      <4>1. Untouched(q) /\ PlanOK(q)
        BY <2>1, OthersKeepLocals DEF PlanInv
      <4>2. QED
        BY <4>1 DEF Untouched, PlanOK
    <3>2. PlanOK(p)'
      <4>0. PlanOK(p)
        BY DEF PlanInv
      <4> USE DEF TypeOK, PlanOK, BeforeLoop, PreLock, Body, Goto, Throw, Finish, Reply, At, Sent,
                  storeVars, dbVars, loopVars, callVars
      <4>1. CASE EnsureDatabase(p)
        BY <4>0, <4>1 DEF EnsureDatabase
      <4>2. CASE CreateIfMissing(p)
        BY <4>0, <4>2 DEF CreateIfMissing
      <4>3. CASE GrantSchemaAccess(p)
        BY <4>0, <4>3 DEF GrantSchemaAccess
      <4>4. CASE ListSeeds(p)
        BY <4>0, <4>4 DEF ListSeeds
      <4>5. CASE Connect(p)
        BY <4>0, <4>5 DEF Connect
      <4>6. CASE AcquireLock(p)
        BY <4>0, <4>6 DEF AcquireLock, UnderLock, LocalsOK
      <4>7. CASE ReleaseLock(p)
        BY <4>0, <4>7 DEF ReleaseLock
      <4>8. CASE LocalTracking(p)
        BY <4>0, <4>8 DEF LocalTracking
      <4>9. CASE ListFiles(p)
        BY <4>0, <4>9 DEF ListFiles
      <4>10. CASE LoadApplied(p)
        BY <4>0, <4>10 DEF LoadApplied
      <4>11. CASE ReadNext(p)
        BY <4>0, <4>11 DEF ReadNext
      <4>12. CASE MigrateComplete(p)
        BY <4>0, <4>12 DEF MigrateComplete
      <4>13. CASE ApplyFile(p)
        BY <4>0, <4>13 DEF ApplyFile
      <4>14. CASE CommitFile(p)
        BY <4>0, <4>14 DEF CommitFile
      <4>15. CASE Audit(p)
        BY <4>0, <4>15 DEF Audit
      <4>16. CASE LoadForRollback(p)
        BY <4>0, <4>16 DEF LoadForRollback
      <4>17. CASE RollbackNext(p)
        BY <4>0, <4>17 DEF RollbackNext
      <4>18. CASE RollbackComplete(p)
        BY <4>0, <4>18 DEF RollbackComplete
      <4>19. CASE DownFile(p)
        BY <4>0, <4>19 DEF DownFile
      <4>20. CASE CommitDown(p)
        BY <4>0, <4>20 DEF CommitDown
      <4>21. CASE SeedNext(p)
        BY <4>0, <4>21 DEF SeedNext
      <4>22. CASE SeedComplete(p)
        BY <4>0, <4>22 DEF SeedComplete
      <4>23. CASE NoopQuery(p)
        BY <4>0, <4>23 DEF NoopQuery
      <4>24. CASE NoopRead(p)
        BY <4>0, <4>24 DEF NoopRead
      <4>25. CASE NoopInsert(p)
        BY <4>0, <4>25 DEF NoopInsert
      <4>26. CASE TerminateSessions(p)
        BY <4>0, <4>26 DEF TerminateSessions
      <4>27. CASE DropDatabase(p)
        BY <4>0, <4>27 DEF DropDatabase
      <4>28. CASE RecreateDatabase(p)
        BY <4>0, <4>28 DEF RecreateDatabase
      <4>29. CASE LoadDump(p)
        BY <4>0, <4>29 DEF LoadDump
      <4>30. CASE BaselineNext(p)
        BY <4>0, <4>30 DEF BaselineNext
      <4>31. CASE BaselineComplete(p)
        BY <4>0, <4>31 DEF BaselineComplete
      <4>32. CASE Start(p)
        BY <4>0, <4>32 DEF Start, First, Targets
      <4>33. CASE Fail(p)
        BY <4>0, <4>33 DEF Fail
      <4>34. CASE Die(p)
        BY <4>0, <4>34 DEF Die
      <4>35. CASE DbSessionEnds(p)
        BY <4>0, <4>35 DEF DbSessionEnds
      <4>36. CASE OpsSessionEnds(p)
        BY <4>0, <4>36 DEF OpsSessionEnds
      <4>37. QED
        BY <2>1, <4>1, <4>2, <4>3, <4>4, <4>5, <4>6, <4>7, <4>8, <4>9, <4>10, <4>11,
           <4>12, <4>13, <4>14, <4>15, <4>16, <4>17, <4>18, <4>19, <4>20, <4>21, <4>22,
           <4>23, <4>24, <4>25, <4>26, <4>27, <4>28, <4>29, <4>30, <4>31, <4>32, <4>33,
           <4>34, <4>35, <4>36 DEF Acts, Step
    <3>3. QED
      BY <3>1, <3>2 DEF PlanInv
  <2>2. ASSUME NEW f \in Files, NEW c \in Contents \cup {Absent}, Upload(f, c)
        PROVE  PlanInv'
    BY <2>2 DEF Upload, PlanInv, PlanOK, loopVars, callVars
  <2>3. CASE UNCHANGED vars
    BY <2>3 DEF vars, PlanInv, PlanOK
  <2>4. QED
    BY <2>1, <2>2, <2>3 DEF Next, Acts, Terminated
<1>3. QED
  BY <1>1, <1>2, TypeInductive, PTL DEF Spec

\* Before and after the lock an invocation changes nothing that the one under
\* the lock relies on.
LEMMA OutsideTheLock ==
    ASSUME TypeOK, NEW p \in Procs, Acts(p), pc[p] \notin Body
    PROVE  UNCHANGED <<rows, planted, tracking>> /\ (exists => exists')
<1> USE DEF Body, At, Sent, dbVars
<1>1. CASE EnsureDatabase(p)
  BY <1>1 DEF EnsureDatabase
<1>2. CASE CreateIfMissing(p)
  BY <1>2 DEF CreateIfMissing
<1>3. CASE GrantSchemaAccess(p)
  BY <1>3 DEF GrantSchemaAccess
<1>4. CASE ListSeeds(p)
  BY <1>4 DEF ListSeeds
<1>5. CASE Connect(p)
  BY <1>5 DEF Connect
<1>6. CASE AcquireLock(p)
  BY <1>6 DEF AcquireLock
<1>7. CASE ReleaseLock(p)
  BY <1>7 DEF ReleaseLock
<1>8. CASE LocalTracking(p)
  BY <1>8 DEF LocalTracking
<1>9. CASE ListFiles(p)
  BY <1>9 DEF ListFiles
<1>10. CASE LoadApplied(p)
  BY <1>10 DEF LoadApplied
<1>11. CASE ReadNext(p)
  BY <1>11 DEF ReadNext
<1>12. CASE MigrateComplete(p)
  BY <1>12 DEF MigrateComplete
<1>13. CASE ApplyFile(p)
  BY <1>13 DEF ApplyFile
<1>14. CASE CommitFile(p)
  BY <1>14 DEF CommitFile
<1>15. CASE Audit(p)
  BY <1>15 DEF Audit
<1>16. CASE LoadForRollback(p)
  BY <1>16 DEF LoadForRollback
<1>17. CASE RollbackNext(p)
  BY <1>17 DEF RollbackNext
<1>18. CASE RollbackComplete(p)
  BY <1>18 DEF RollbackComplete
<1>19. CASE DownFile(p)
  BY <1>19 DEF DownFile
<1>20. CASE CommitDown(p)
  BY <1>20 DEF CommitDown
<1>21. CASE SeedNext(p)
  BY <1>21 DEF SeedNext
<1>22. CASE SeedComplete(p)
  BY <1>22 DEF SeedComplete
<1>23. CASE NoopQuery(p)
  BY <1>23 DEF NoopQuery
<1>24. CASE NoopRead(p)
  BY <1>24 DEF NoopRead
<1>25. CASE NoopInsert(p)
  BY <1>25 DEF NoopInsert
<1>26. CASE TerminateSessions(p)
  BY <1>26 DEF TerminateSessions
<1>27. CASE DropDatabase(p)
  BY <1>27 DEF DropDatabase
<1>28. CASE RecreateDatabase(p)
  BY <1>28 DEF RecreateDatabase
<1>29. CASE LoadDump(p)
  BY <1>29 DEF LoadDump
<1>30. CASE BaselineNext(p)
  BY <1>30 DEF BaselineNext
<1>31. CASE BaselineComplete(p)
  BY <1>31 DEF BaselineComplete
<1>32. CASE Start(p)
  BY <1>32 DEF Start
<1>33. CASE Fail(p)
  BY <1>33 DEF Fail
<1>34. CASE Die(p)
  BY <1>34 DEF Die
<1>35. CASE DbSessionEnds(p)
  BY <1>35 DEF DbSessionEnds
<1>36. CASE OpsSessionEnds(p)
  BY <1>36 DEF OpsSessionEnds
<1>37. QED
  BY <1>1, <1>2, <1>3, <1>4, <1>5, <1>6, <1>7, <1>8, <1>9, <1>10, <1>11, <1>12, <1>13,
     <1>14, <1>15, <1>16, <1>17, <1>18, <1>19, <1>20, <1>21, <1>22, <1>23, <1>24, <1>25,
     <1>26, <1>27, <1>28, <1>29, <1>30, <1>31, <1>32, <1>33, <1>34, <1>35, <1>36 DEF Acts,
     Step


LEMMA WorkInductive ==
    ASSUME Severed = {}
    PROVE  Spec => []WorkInv
<1> USE DbMigrateAssumption
<1>1. Init => WorkInv
  BY DEF Init, WorkInv, WorkOK, MigrateOK, RollbackOK, SeedOK, RestoreOK, SingleOK, In,
     ReturnsOk
<1>2. TypeOK /\ LocalsOK /\ LedgerInv /\ PlanInv /\ WorkInv /\ [Next]_vars => WorkInv'
  <2> SUFFICES ASSUME TypeOK, LocalsOK, LedgerInv, PlanInv, WorkInv, [Next]_vars PROVE WorkInv'
    OBVIOUS
  <2>1. ASSUME NEW p \in Procs, Acts(p) PROVE WorkInv'
    <3>1. ASSUME NEW q \in Procs \ {p} PROVE WorkOK(q)'
      <4>1. Untouched(q) /\ WorkOK(q)
        BY <2>1, OthersKeepLocals DEF WorkInv
      <4>2. CASE pc[q] \in Body
        <5>1. pc[p] \notin Body
          BY <4>2 DEF LedgerInv, Guarded
        <5>2. UNCHANGED <<rows, planted, tracking>> /\ (exists => exists')
          BY <2>1, <5>1, OutsideTheLock
        <5>3. QED
          BY <4>1, <5>2 DEF Untouched, WorkOK, MigrateOK, RollbackOK, SeedOK, RestoreOK,
             SingleOK, In, ReturnsOk, Recorded, Tracked
      <4>3. CASE pc[q] \notin Body
        BY <4>1, <4>3 DEF Body, Untouched, WorkOK, MigrateOK, RollbackOK, SeedOK,
           RestoreOK, SingleOK, In, ReturnsOk
      <4>4. QED
        BY <4>2, <4>3
    <3>2. WorkOK(p)'
      <4>0. PlanOK(p) /\ WorkOK(p) /\ HolderOK(p)
        BY DEF PlanInv, WorkInv, LedgerInv
      <4> USE DEF TypeOK, Goto, Throw, Finish, Reply, At, Sent,
                  storeVars, dbVars, loopVars, callVars
      <4>1. ASSUME EnsureDatabase(p) \/ CreateIfMissing(p) \/ GrantSchemaAccess(p) \/
                   ListSeeds(p) \/ Connect(p) \/ AcquireLock(p) \/ ReleaseLock(p) \/
                   LocalTracking(p) \/ LoadApplied(p) \/ ApplyFile(p) \/ Audit(p) \/
                   DownFile(p) \/ NoopQuery(p) \/ NoopRead(p) \/ TerminateSessions(p) \/
                   RecreateDatabase(p) \/ LoadDump(p) \/ Start(p) \/ Fail(p) \/ Die(p) \/
                   DbSessionEnds(p) \/ OpsSessionEnds(p)
            PROVE  WorkOK(p)'
        <5> USE <4>0 DEF PlanOK, BeforeLoop, PreLock, Body, Files, WorkOK, MigrateOK, RollbackOK,
                        SeedOK, RestoreOK, SingleOK, In, ReturnsOk, Recorded, Tracked
        <5>1. CASE EnsureDatabase(p)
          BY <5>1 DEF EnsureDatabase
        <5>2. CASE CreateIfMissing(p)
          BY <5>2 DEF CreateIfMissing
        <5>3. CASE GrantSchemaAccess(p)
          BY <5>3 DEF GrantSchemaAccess
        <5>4. CASE ListSeeds(p)
          BY <5>4 DEF ListSeeds
        <5>5. CASE Connect(p)
          BY <5>5 DEF Connect
        <5>6. CASE AcquireLock(p)
          BY <5>6 DEF AcquireLock, UnderLock, LocalsOK
        <5>7. CASE ReleaseLock(p)
          BY <5>7 DEF ReleaseLock
        <5>8. CASE LocalTracking(p)
          BY <5>8 DEF LocalTracking
        <5>9. CASE LoadApplied(p)
          BY <5>9 DEF LoadApplied
        <5>10. CASE ApplyFile(p)
          BY <5>10 DEF ApplyFile
        <5>11. CASE Audit(p)
          BY <5>11 DEF Audit
        <5>12. CASE DownFile(p)
          BY <5>12 DEF DownFile
        <5>13. CASE NoopQuery(p)
          BY <5>13 DEF NoopQuery
        <5>14. CASE NoopRead(p)
          BY <5>14 DEF NoopRead
        <5>15. CASE TerminateSessions(p)
          BY <5>15 DEF TerminateSessions
        <5>16. CASE RecreateDatabase(p)
          BY <5>16 DEF RecreateDatabase
        <5>17. CASE LoadDump(p)
          BY <5>17 DEF LoadDump
        <5>18. CASE Start(p)
          BY <5>18 DEF Start, First, Targets
        <5>19. CASE Fail(p)
          BY <5>19 DEF Fail
        <5>20. CASE Die(p)
          BY <5>20 DEF Die
        <5>21. CASE DbSessionEnds(p)
          BY <5>21 DEF DbSessionEnds
        <5>22. CASE OpsSessionEnds(p)
          BY <5>22 DEF OpsSessionEnds
        <5>23. QED
          BY <4>1, <5>1, <5>2, <5>3, <5>4, <5>5, <5>6, <5>7, <5>8, <5>9, <5>10, <5>11,
             <5>12, <5>13, <5>14, <5>15, <5>16, <5>17, <5>18, <5>19, <5>20, <5>21, <5>22
      <4>2. CASE ListFiles(p)
        <5>1. MigrateOK(p)' /\ RollbackOK(p)' /\ SeedOK(p)' /\ SingleOK(p)'
          BY <4>0, <4>2 DEF ListFiles, PlanOK, Body, WorkOK, MigrateOK, RollbackOK,
             SeedOK, SingleOK, In, ReturnsOk, Tracked
        <5>2. RestoreOK(p)'
          <6>1. /\ pc[p] = "list" /\ pc'[p] \in {"load", "base"} /\ req'[p] = req[p]
                /\ cur'[p] = 0 /\ files'[p] \subseteq Files
                /\ pc'[p] = "base" => req[p].op = "restore"
                /\ UNCHANGED <<exists, tracking>>
            BY <4>0, <4>2 DEF ListFiles, PlanOK, BeforeLoop, Present
          <6>2. pc'[p] = "base" => exists /\ tracking
            BY <4>0, <6>1 DEF WorkOK, RestoreOK
          <6>3. \A f \in files'[p] : ~(f <= 0)
            BY <6>1 DEF Files
          <6>4. QED
            BY <6>1, <6>2, <6>3 DEF RestoreOK, In, ReturnsOk
        <5>3. QED
          BY <5>1, <5>2 DEF WorkOK
      <4>3. CASE ReadNext(p)
        <5>1. RollbackOK(p)' /\ SeedOK(p)' /\ RestoreOK(p)' /\ SingleOK(p)'
          BY <4>0, <4>3 DEF ReadNext, PlanOK, Body, WorkOK, RollbackOK, SeedOK, RestoreOK,
             SingleOK, In, ReturnsOk, Tracked
        <5>2. MigrateOK(p)'
          <6>1. PICK f \in Files :
                   /\ IsLeast(f, NextUp(p))
                   /\ bucket[f] # Absent /\ seen[p][f] \in {Absent, bucket[f]}
                   /\ cur' = [cur EXCEPT ![p] = f]
                   /\ got' = [got EXCEPT ![p][f] = bucket[f]]
                   /\ pc' = [pc EXCEPT ![p] = IF seen[p][f] = Absent THEN "apply" ELSE "read"]
            BY <4>3 DEF ReadNext
          <6>2. pc[p] = "read" /\ UNCHANGED <<files, seen, rows, req>>
            BY <4>3 DEF ReadNext
          <6>3. \A g \in files[p] : g < f => g <= cur[p]
            BY <6>1 DEF IsLeast, NextUp, Files
          <6>4. \A g \in files[p] : g < f => Recorded(p, g)'
            <7>1. \A g \in files[p] : g < f => Recorded(p, g)
              BY <4>0, <6>2, <6>3 DEF WorkOK, MigrateOK, In
            <7>2. \A g \in files[p] : g < f => got'[p][g] = got[p][g]
              BY <6>1 DEF Files
            <7>3. QED
              BY <6>2, <7>1, <7>2 DEF Recorded, Tracked
          <6>5. \A g \in Files : seen[p][g] # Absent => g \in Tracked /\ rows[g].sum = seen[p][g]
            BY <4>0, <6>2 DEF WorkOK, MigrateOK, In
          <6>6. seen[p][f] # Absent => Recorded(p, f)'
            BY <6>1, <6>2, <6>5 DEF Recorded, Tracked
          <6>7. /\ cur'[p] = f /\ files'[p] = files[p] /\ f \in Files
                /\ pc'[p] = IF seen[p][f] = Absent THEN "apply" ELSE "read"
            BY <6>1, <6>2
          <6>8. \A g \in files[p] : g <= f => g < f \/ g = f
            BY DEF Files
          <6>9. QED
            BY <6>2, <6>4, <6>5, <6>6, <6>7, <6>8 DEF MigrateOK, In, ReturnsOk, Tracked
        <5>3. QED
          BY <5>1, <5>2 DEF WorkOK
      <4>4. CASE MigrateComplete(p)
        <5>1. RollbackOK(p)' /\ SeedOK(p)' /\ RestoreOK(p)' /\ SingleOK(p)'
          BY <4>0, <4>4 DEF MigrateComplete, PlanOK, Body, WorkOK, RollbackOK, SeedOK,
             RestoreOK, SingleOK, In, ReturnsOk, Tracked
        <5>2. MigrateOK(p)'
          <6>1. /\ pc[p] = "read" /\ NextUp(p) = {} /\ pc'[p] = "release"
                /\ UNCHANGED <<files, cur, got, rows, req>>
            BY <4>4 DEF MigrateComplete, dbVars
          <6>2. \A f \in files[p] : f <= cur[p]
            BY <6>1 DEF NextUp, Files
          <6>3. \A f \in files[p] : Recorded(p, f)
            BY <4>0, <6>1, <6>2 DEF WorkOK, MigrateOK, In
          <6>4. QED
            BY <6>1, <6>3 DEF MigrateOK, In, ReturnsOk, Recorded, Tracked
        <5>3. QED
          BY <5>1, <5>2 DEF WorkOK
      <4>5. CASE CommitFile(p)
        <5>1. RollbackOK(p)' /\ SeedOK(p)' /\ RestoreOK(p)' /\ SingleOK(p)'
          BY <4>0, <4>5 DEF CommitFile, PlanOK, Body, WorkOK, RollbackOK, SeedOK,
             RestoreOK, SingleOK, In, ReturnsOk, Tracked
        <5>2. MigrateOK(p)'
          <6>1. /\ pc[p] = "commit" /\ UNCHANGED <<files, cur, got, seen, req>>
                /\ rows' = [rows EXCEPT ![cur[p]] = [sum |-> got[p][cur[p]], noop |-> FALSE]]
                /\ pc'[p] \in {"audit", "release"}
                /\ pc'[p] = "release" => result'[p] = "err"
            BY <4>5 DEF CommitFile, Body
          <6>2. cur[p] \in Files /\ cur[p] \notin Tracked /\ got[p][cur[p]] \in Contents
            BY <4>0, <6>1 DEF LocalsOK, HolderOK
          <6>3. rows'[cur[p]] = [sum |-> got[p][cur[p]], noop |-> FALSE]
            BY <6>1, <6>2
          <6>4. Recorded(p, cur[p])' /\ ~rows'[cur[p]].noop
            BY <6>1, <6>2, <6>3, RowIsNotNoRow DEF Recorded, Tracked
          <6>5. \A f \in Tracked : rows'[f] = rows[f] /\ f \in Tracked'
            BY <6>1, <6>2 DEF Tracked
          <6>6. \A f \in files[p] : f < cur[p] => Recorded(p, f)'
            BY <4>0, <6>1, <6>5 DEF WorkOK, MigrateOK, Recorded
          <6>7. \A f \in Files : seen[p][f] # Absent => f \in Tracked' /\ rows'[f].sum = seen[p][f]
            BY <4>0, <6>1, <6>5 DEF WorkOK, MigrateOK, In
          <6>8. \A f \in files[p] : f <= cur[p] => f < cur[p] \/ f = cur[p]
            BY <6>2 DEF Files
          <6>9. QED
            BY <6>1, <6>4, <6>6, <6>7, <6>8 DEF MigrateOK, In, ReturnsOk, Recorded
        <5>3. QED
          BY <5>1, <5>2 DEF WorkOK
      <4>6. CASE LoadForRollback(p)
        <5>1. MigrateOK(p)' /\ SeedOK(p)' /\ RestoreOK(p)' /\ SingleOK(p)'
          BY <4>0, <4>6 DEF LoadForRollback, PlanOK, Body, WorkOK, MigrateOK, SeedOK,
             RestoreOK, SingleOK, In, ReturnsOk, Tracked
        <5>2. RollbackOK(p)'
          <6>1. /\ pc[p] = "rbload" /\ files'[p] = Tracked /\ cur'[p] = NFiles + 1
                /\ UNCHANGED <<rows, req>>
                /\ pc'[p] = IF Tracked = {} THEN "release" ELSE "rbread"
            BY <4>6 DEF LoadForRollback, dbVars
          <6>2. \A f \in Tracked : f < NFiles + 1
            BY DEF Tracked, Files
          <6>3. QED
            BY <6>1, <6>2 DEF RollbackOK, In, ReturnsOk, Tracked
        <5>3. QED
          BY <5>1, <5>2 DEF WorkOK
      <4>7. CASE RollbackNext(p)
        <5>1. MigrateOK(p)' /\ SeedOK(p)' /\ RestoreOK(p)' /\ SingleOK(p)'
          BY <4>0, <4>7 DEF RollbackNext, PlanOK, Body, WorkOK, MigrateOK, SeedOK,
             RestoreOK, SingleOK, In, ReturnsOk, Tracked
        <5>2. RollbackOK(p)'
          <6>1. PICK f \in RollbackFiles :
                   IsGreatest(f, NextDown(p)) /\ cur' = [cur EXCEPT ![p] = f]
            BY <4>7 DEF RollbackNext
          <6>2. pc[p] = "rbread" /\ pc'[p] = "down" /\ UNCHANGED <<rows, files, req>>
            BY <4>7 DEF RollbackNext, dbVars
          <6>3. \A g \in Tracked : g > req[p].target => g \in NextDown(p)
            BY <4>0, <6>2 DEF WorkOK, RollbackOK, In, NextDown
          <6>4. \A g \in NextDown(p) : g <= f /\ g \in files[p]
            BY <6>1 DEF IsGreatest, NextDown, Files
          <6>5. cur'[p] = f
            BY <6>1
          <6>6. QED
            BY <6>2, <6>3, <6>4, <6>5 DEF RollbackOK, In, ReturnsOk, Tracked
        <5>3. QED
          BY <5>1, <5>2 DEF WorkOK
      <4>8. CASE RollbackComplete(p)
        <5>1. MigrateOK(p)' /\ SeedOK(p)' /\ RestoreOK(p)' /\ SingleOK(p)'
          BY <4>0, <4>8 DEF RollbackComplete, PlanOK, Body, WorkOK, MigrateOK, SeedOK,
             RestoreOK, SingleOK, In, ReturnsOk, Tracked
        <5>2. RollbackOK(p)'
          <6>1. /\ pc[p] = "rbread" /\ NextDown(p) = {} /\ pc'[p] = "release"
                /\ UNCHANGED <<rows, req>>
            BY <4>8 DEF RollbackComplete, dbVars
          <6>2. \A f \in Tracked : ~(f > req[p].target)
            BY <4>0, <6>1 DEF WorkOK, RollbackOK, In, NextDown
          <6>3. \A f \in Tracked : f <= req[p].target
            BY <6>2 DEF Tracked, Files
          <6>4. QED
            BY <6>1, <6>3 DEF RollbackOK, In, ReturnsOk, Tracked
        <5>3. QED
          BY <5>1, <5>2 DEF WorkOK
      <4>9. CASE CommitDown(p)
        <5>1. MigrateOK(p)' /\ SeedOK(p)' /\ RestoreOK(p)' /\ SingleOK(p)'
          BY <4>0, <4>9 DEF CommitDown, PlanOK, Body, WorkOK, MigrateOK, SeedOK,
             RestoreOK, SingleOK, In, ReturnsOk, Tracked
        <5>2. RollbackOK(p)'
          <6>1. /\ pc[p] = "undo" /\ UNCHANGED <<files, cur, req>>
                /\ rows' = IF got[p][cur[p]] = Absent THEN rows ELSE [rows EXCEPT ![cur[p]] = NoRow]
                /\ pc'[p] \in {"audit", "release"}
                /\ pc'[p] = "release" => result'[p] = "err"
            BY <4>9 DEF CommitDown, Body
          <6>2. cur[p] \in Tracked /\ got[p][cur[p]] # Absent
            BY <4>0, <6>1 DEF HolderOK
          <6>3. Tracked' = Tracked \ {cur[p]}
            BY <6>1, <6>2 DEF Tracked
          <6>4. \A f \in Tracked : f > req[p].target => f \in files[p] /\ f <= cur[p]
            BY <4>0, <6>1 DEF WorkOK, RollbackOK
          <6>5. \A f \in Tracked : f <= cur[p] => f < cur[p] \/ f = cur[p]
            BY <6>2 DEF Tracked, Files
          <6>6. QED
            BY <6>1, <6>3, <6>4, <6>5 DEF RollbackOK, In, ReturnsOk
        <5>3. QED
          BY <5>1, <5>2 DEF WorkOK
      <4>10. CASE SeedNext(p)
        <5>1. MigrateOK(p)' /\ RollbackOK(p)' /\ RestoreOK(p)' /\ SingleOK(p)'
          BY <4>0, <4>10 DEF SeedNext, PlanOK, Body, WorkOK, MigrateOK, RollbackOK,
             RestoreOK, SingleOK, In, ReturnsOk, Tracked
        <5>2. SeedOK(p)'
          <6>1. PICK f \in Files :
                   /\ IsLeast(f, NextUp(p))
                   /\ cur' = [cur EXCEPT ![p] = f]
                   /\ planted' = planted \cup {f}
            BY <4>10 DEF SeedNext
          <6>2. /\ pc[p] = "seed" /\ UNCHANGED <<files, req>>
                /\ pc'[p] \in {"audit", "release"}
                /\ pc'[p] = "release" => result'[p] = "err"
            BY <4>10 DEF SeedNext, Body
          <6>3. \A g \in files[p] : g <= f => g <= cur[p] \/ g = f
            BY <6>1 DEF IsLeast, NextUp, Files
          <6>4. \A g \in files[p] : g <= cur[p] => g \in planted
            BY <4>0, <6>2 DEF WorkOK, SeedOK, In
          <6>5. cur'[p] = f
            BY <6>1
          <6>6. QED
            BY <6>1, <6>2, <6>3, <6>4, <6>5 DEF SeedOK, In, ReturnsOk
        <5>3. QED
          BY <5>1, <5>2 DEF WorkOK
      <4>11. CASE SeedComplete(p)
        <5>1. MigrateOK(p)' /\ RollbackOK(p)' /\ RestoreOK(p)' /\ SingleOK(p)'
          BY <4>0, <4>11 DEF SeedComplete, PlanOK, Body, WorkOK, MigrateOK, RollbackOK,
             RestoreOK, SingleOK, In, ReturnsOk, Tracked
        <5>2. SeedOK(p)'
          <6>1. /\ pc[p] = "seed" /\ NextUp(p) = {} /\ pc'[p] = "release"
                /\ UNCHANGED <<files, cur, planted, req>>
            BY <4>11 DEF SeedComplete, dbVars
          <6>2. \A f \in files[p] : f <= cur[p]
            BY <6>1 DEF NextUp, Files
          <6>3. files[p] \subseteq planted
            BY <4>0, <6>1, <6>2 DEF WorkOK, SeedOK, In
          <6>4. QED
            BY <6>1, <6>3 DEF SeedOK, In, ReturnsOk
        <5>3. QED
          BY <5>1, <5>2 DEF WorkOK
      <4>12. CASE NoopInsert(p)
        <5>1. MigrateOK(p)' /\ RollbackOK(p)' /\ SeedOK(p)' /\ RestoreOK(p)'
          BY <4>0, <4>12 DEF NoopInsert, PlanOK, Body, WorkOK, MigrateOK, RollbackOK,
             SeedOK, RestoreOK, In, ReturnsOk, Tracked
        <5>2. SingleOK(p)'
          <6>1. /\ pc[p] = "ninsert" /\ UNCHANGED <<cur, req>>
                /\ rows' = [rows EXCEPT ![cur[p]] = [sum |-> got[p][cur[p]], noop |-> TRUE]]
            BY <4>12 DEF NoopInsert, RecordNoop
          <6>2. cur[p] \in Files /\ got[p][cur[p]] \in Contents /\ req[p].op = "noop"
            BY <4>0, <6>1 DEF LocalsOK, PlanOK
          <6>3. rows'[cur[p]] = [sum |-> got[p][cur[p]], noop |-> TRUE]
            BY <6>1, <6>2
          <6>4. [sum |-> got[p][cur[p]], noop |-> TRUE] \in [sum : Contents, noop : BOOLEAN]
            BY <6>2
          <6>5. cur[p] \in Tracked' /\ rows'[cur[p]].noop
            BY <6>2, <6>3, <6>4 DEF Tracked
          <6>6. QED
            BY <6>1, <6>2, <6>5 DEF SingleOK, In
        <5>3. QED
          BY <5>1, <5>2 DEF WorkOK
      <4>13. CASE DropDatabase(p)
        <5>1. MigrateOK(p)' /\ RollbackOK(p)' /\ SeedOK(p)' /\ RestoreOK(p)'
          BY <4>0, <4>13 DEF DropDatabase, PlanOK, Body, WorkOK, MigrateOK, RollbackOK,
             SeedOK, RestoreOK, In, ReturnsOk, Tracked
        <5>2. SingleOK(p)'
          <6>1. pc[p] = "drop" /\ UNCHANGED req /\ req[p].op \in {"drop", "restore"}
            BY <4>0, <4>13 DEF DropDatabase, PlanOK
          <6>2. Tracked' = {}
            BY <4>13 DEF DropDatabase, Tracked, NoRows
          <6>3. pc'[p] = "audit" => req[p].op = "drop"
            BY <4>13, <6>1 DEF DropDatabase, Body
          <6>4. QED
            BY <6>1, <6>2, <6>3 DEF SingleOK, In
        <5>3. QED
          BY <5>1, <5>2 DEF WorkOK
      <4>14. CASE BaselineNext(p)
        <5>1. MigrateOK(p)' /\ RollbackOK(p)' /\ SeedOK(p)' /\ SingleOK(p)'
          BY <4>0, <4>14 DEF BaselineNext, PlanOK, Body, WorkOK, MigrateOK, RollbackOK,
             SeedOK, SingleOK, In, ReturnsOk, Tracked
        <5>2. RestoreOK(p)'
          <6>1. PICK f \in Files :
                   /\ IsLeast(f, NextUp(p))
                   /\ cur' = [cur EXCEPT ![p] = f]
                   /\ \/ f \in Tracked /\ UNCHANGED rows
                      \/ bucket[f] # Absent /\ RecordNoop(p, f, bucket[f])
            BY <4>14 DEF BaselineNext
          <6>2. /\ pc[p] = "base" /\ UNCHANGED <<files, req, exists, tracking>>
                /\ pc'[p] \in {"base", "release"}
                /\ pc'[p] = "release" => result'[p] = "err"
            BY <4>14 DEF BaselineNext, Body
          <6>3. Tracked' = Tracked \cup {f}
            <7>1. CASE f \in Tracked /\ UNCHANGED rows
              BY <7>1 DEF Tracked
            <7>2. CASE bucket[f] # Absent /\ RecordNoop(p, f, bucket[f])
              <8>1. bucket[f] \in Contents
                BY <7>2
              <8>2. [sum |-> bucket[f], noop |-> TRUE] \in [sum : Contents, noop : BOOLEAN]
                BY <8>1
              <8>3. rows' = [rows EXCEPT ![f] = [sum |-> bucket[f], noop |-> TRUE]]
                BY <7>2 DEF RecordNoop
              <8>4. [sum |-> bucket[f], noop |-> TRUE] # NoRow
                BY <8>2
              <8>5. QED
                BY <8>3, <8>4 DEF Tracked
            <7>3. QED
              BY <6>1, <7>1, <7>2
          <6>4. \A g \in files[p] : g <= f => g <= cur[p] \/ g = f
            BY <6>1 DEF IsLeast, NextUp, Files
          <6>5. exists /\ tracking /\ \A g \in files[p] : g <= cur[p] => g \in Tracked
            BY <4>0, <6>2 DEF WorkOK, RestoreOK, In
          <6>6. cur'[p] = f
            BY <6>1
          <6>7. QED
            BY <6>2, <6>3, <6>4, <6>5, <6>6 DEF RestoreOK, In, ReturnsOk
        <5>3. QED
          BY <5>1, <5>2 DEF WorkOK
      <4>15. CASE BaselineComplete(p)
        <5>1. MigrateOK(p)' /\ RollbackOK(p)' /\ SeedOK(p)' /\ SingleOK(p)'
          BY <4>0, <4>15 DEF BaselineComplete, PlanOK, Body, WorkOK, MigrateOK,
             RollbackOK, SeedOK, SingleOK, In, ReturnsOk, Tracked
        <5>2. RestoreOK(p)'
          <6>1. /\ pc[p] = "base" /\ NextUp(p) = {} /\ pc'[p] = "audit"
                /\ UNCHANGED <<files, rows, exists, tracking, req>>
            BY <4>15 DEF BaselineComplete, dbVars
          <6>2. \A f \in files[p] : f <= cur[p]
            BY <6>1 DEF NextUp, Files
          <6>3. exists /\ tracking /\ files[p] \subseteq Tracked
            BY <4>0, <6>1, <6>2 DEF WorkOK, RestoreOK, In
          <6>4. QED
            BY <6>1, <6>3 DEF RestoreOK, In, ReturnsOk, Tracked
        <5>3. QED
          BY <5>1, <5>2 DEF WorkOK
      <4>16. QED
        BY <2>1, <4>1, <4>2, <4>3, <4>4, <4>5, <4>6, <4>7, <4>8, <4>9, <4>10, <4>11,
           <4>12, <4>13, <4>14, <4>15 DEF Acts, Step
    <3>3. QED
      BY <3>1, <3>2 DEF WorkInv
  <2>2. ASSUME NEW f \in Files, NEW c \in Contents \cup {Absent}, Upload(f, c)
        PROVE  WorkInv'
    BY <2>2 DEF Upload, dbVars, loopVars, callVars, WorkInv, WorkOK, MigrateOK,
       RollbackOK, SeedOK, RestoreOK, SingleOK, In, ReturnsOk, Recorded, Tracked
  <2>3. CASE UNCHANGED vars
    BY <2>3 DEF vars, WorkInv, WorkOK, MigrateOK, RollbackOK, SeedOK, RestoreOK, SingleOK,
       In, ReturnsOk, Recorded, Tracked
  <2>4. QED
    BY <2>1, <2>2, <2>3 DEF Next, Acts, Terminated
<1>3. QED
  BY <1>1, <1>2, TypeInductive, LedgerInductive, PlanInductive, PTL DEF Spec

(***************************************************************************)
(* What PostgreSQL alone guarantees, whoever holds the advisory lock: an   *)
(* open transaction that inserts a row collides with none, no two hold the *)
(* row of one file, and without the table there are no rows.               *)
(***************************************************************************)
InsertsCollideWithNone ==
    \A p \in Procs : pc[p] = "commit" /\ conn[p] = "open" => cur[p] \notin Tracked /\ tracking
OneHolder == \A p, q \in Procs : \A f \in Files : Holds(p, f) /\ Holds(q, f) => p = q
NoTableNoRows == ~tracking => Tracked = {}
AppliedWhenTracked ==
    \A f \in Files \ vouched : effect[f] <= (IF f \in Tracked THEN 1 ELSE 0)
OnceInv == InsertsCollideWithNone /\ OneHolder /\ NoTableNoRows /\ AppliedWhenTracked

LEMMA OnceInductive == Spec => []OnceInv
<1> USE DbMigrateAssumption
<1>1. Init => OnceInv
  BY DEF Init, OnceInv, InsertsCollideWithNone, OneHolder, Holds, NoTableNoRows,
     AppliedWhenTracked, Tracked, NoRows
<1>2. TypeOK /\ LocalsOK /\ OnceInv /\ [Next]_vars => OnceInv'
  <2> SUFFICES ASSUME TypeOK, LocalsOK, OnceInv, [Next]_vars PROVE OnceInv'
    OBVIOUS
  <2> USE DEF TypeOK, OnceInv, Goto, Throw, Finish, Reply, At, Sent, Body, PreLock,
              storeVars, dbVars, loopVars, callVars
  <2>1. ASSUME NEW p \in Procs, EnsureDatabase(p) PROVE OnceInv'
    BY <2>1 DEF EnsureDatabase, InsertsCollideWithNone, OneHolder, Holds, NoTableNoRows,
       AppliedWhenTracked, Tracked
  <2>2. ASSUME NEW p \in Procs, CreateIfMissing(p) PROVE OnceInv'
    <3>1. InsertsCollideWithNone'
      BY <2>2 DEF CreateIfMissing, InsertsCollideWithNone, Tracked, Holds, RowFree
    <3>2. OneHolder'
      <4>1. \A q \in Procs : \A f \in Files : Holds(q, f)' => Holds(q, f)
        BY <2>2 DEF CreateIfMissing, Holds
      <4>2. QED
        BY <4>1 DEF OneHolder
    <3>3. NoTableNoRows'
      BY <2>2 DEF CreateIfMissing, NoTableNoRows, Tracked, Holds, RowFree
    <3>4. AppliedWhenTracked'
      BY <2>2 DEF CreateIfMissing, AppliedWhenTracked, Tracked, Holds, RowFree
    <3>5. QED
      BY <3>1, <3>2, <3>3, <3>4
  <2>3. ASSUME NEW p \in Procs, GrantSchemaAccess(p) PROVE OnceInv'
    BY <2>3 DEF GrantSchemaAccess, InsertsCollideWithNone, OneHolder, Holds,
       NoTableNoRows, AppliedWhenTracked, Tracked
  <2>4. ASSUME NEW p \in Procs, ListSeeds(p) PROVE OnceInv'
    <3>1. InsertsCollideWithNone' /\ OneHolder'
      BY <2>4 DEF ListSeeds, InsertsCollideWithNone, OneHolder, Holds, Tracked
    <3>2. NoTableNoRows' /\ AppliedWhenTracked'
      BY <2>4 DEF ListSeeds, NoTableNoRows, AppliedWhenTracked, Tracked
    <3>3. QED
      BY <3>1, <3>2
  <2>5. ASSUME NEW p \in Procs, Connect(p) PROVE OnceInv'
    <3>1. InsertsCollideWithNone'
      BY <2>5 DEF Connect, InsertsCollideWithNone, Tracked, Holds, RowFree
    <3>2. OneHolder'
      <4>1. \A q \in Procs : \A f \in Files : Holds(q, f)' => Holds(q, f)
        BY <2>5 DEF Connect, Holds
      <4>2. QED
        BY <4>1 DEF OneHolder
    <3>3. NoTableNoRows'
      BY <2>5 DEF Connect, NoTableNoRows, Tracked, Holds, RowFree
    <3>4. AppliedWhenTracked'
      BY <2>5 DEF Connect, AppliedWhenTracked, Tracked, Holds, RowFree
    <3>5. QED
      BY <3>1, <3>2, <3>3, <3>4
  <2>6. ASSUME NEW p \in Procs, AcquireLock(p) PROVE OnceInv'
    BY <2>6 DEF AcquireLock, UnderLock, InsertsCollideWithNone, OneHolder, Holds,
       NoTableNoRows, AppliedWhenTracked, Tracked
  <2>7. ASSUME NEW p \in Procs, ReleaseLock(p) PROVE OnceInv'
    BY <2>7 DEF ReleaseLock, InsertsCollideWithNone, OneHolder, Holds, NoTableNoRows,
       AppliedWhenTracked, Tracked
  <2>8. ASSUME NEW p \in Procs, LocalTracking(p) PROVE OnceInv'
    <3>1. InsertsCollideWithNone'
      BY <2>8 DEF LocalTracking, InsertsCollideWithNone, Tracked, Holds, RowFree
    <3>2. OneHolder'
      <4>1. \A q \in Procs : \A f \in Files : Holds(q, f)' => Holds(q, f)
        BY <2>8 DEF LocalTracking, Holds
      <4>2. QED
        BY <4>1 DEF OneHolder
    <3>3. NoTableNoRows'
      BY <2>8 DEF LocalTracking, NoTableNoRows, Tracked, Holds, RowFree
    <3>4. AppliedWhenTracked'
      BY <2>8 DEF LocalTracking, AppliedWhenTracked, Tracked, Holds, RowFree
    <3>5. QED
      BY <3>1, <3>2, <3>3, <3>4
  <2>9. ASSUME NEW p \in Procs, ListFiles(p) PROVE OnceInv'
    BY <2>9 DEF ListFiles, InsertsCollideWithNone, OneHolder, Holds, NoTableNoRows,
       AppliedWhenTracked, Tracked
  <2>10. ASSUME NEW p \in Procs, LoadApplied(p) PROVE OnceInv'
    BY <2>10 DEF LoadApplied, InsertsCollideWithNone, OneHolder, Holds, NoTableNoRows,
       AppliedWhenTracked, Tracked
  <2>11. ASSUME NEW p \in Procs, ReadNext(p) PROVE OnceInv'
    BY <2>11 DEF ReadNext, InsertsCollideWithNone, OneHolder, Holds, NoTableNoRows,
       AppliedWhenTracked, Tracked
  <2>12. ASSUME NEW p \in Procs, MigrateComplete(p) PROVE OnceInv'
    BY <2>12 DEF MigrateComplete, InsertsCollideWithNone, OneHolder, Holds, NoTableNoRows,
       AppliedWhenTracked, Tracked
  <2>13. ASSUME NEW p \in Procs, ApplyFile(p) PROVE OnceInv'
    <3>1. InsertsCollideWithNone'
      BY <2>13 DEF ApplyFile, InsertsCollideWithNone, Tracked, Holds, RowFree
    <3>2. OneHolder'
      BY <2>13 DEF ApplyFile, OneHolder, Tracked, Holds, RowFree
    <3>3. NoTableNoRows'
      BY <2>13 DEF ApplyFile, NoTableNoRows, Tracked, Holds, RowFree
    <3>4. AppliedWhenTracked'
      BY <2>13 DEF ApplyFile, AppliedWhenTracked, Tracked, Holds, RowFree
    <3>5. QED
      BY <3>1, <3>2, <3>3, <3>4
  <2>14. ASSUME NEW p \in Procs, CommitFile(p) PROVE OnceInv'
    <3>1. /\ pc[p] = "commit" /\ conn[p] = "open" /\ cur[p] \in Files
          /\ cur[p] \notin Tracked /\ tracking /\ got[p][cur[p]] \in Contents
      BY <2>14 DEF CommitFile, Statements, LocalsOK, InsertsCollideWithNone
    <3>2. /\ rows' = [rows EXCEPT ![cur[p]] = [sum |-> got[p][cur[p]], noop |-> FALSE]]
          /\ effect' = [effect EXCEPT ![cur[p]] = @ + 1]
          /\ UNCHANGED <<tracking, vouched, conn, cur, got>>
          /\ pc'[p] \notin {"commit", "undo"} /\ \A q \in Procs \ {p} : pc'[q] = pc[q]
      BY <2>14 DEF CommitFile
    <3>3. Tracked' = Tracked \cup {cur[p]}
      <4>1. [sum |-> got[p][cur[p]], noop |-> FALSE] # NoRow
        BY <3>1, RowIsNotNoRow
      <4>2. QED
        BY <3>1, <3>2, <4>1 DEF Tracked
    <3>4. InsertsCollideWithNone'
      <4>1. \A q \in Procs \ {p} : pc[q] = "commit" /\ conn[q] = "open" => cur[q] # cur[p]
        BY <3>1 DEF OneHolder, Holds
      <4>2. QED
        BY <3>2, <3>3, <4>1 DEF InsertsCollideWithNone
    <3>5. OneHolder'
      <4>1. \A q \in Procs : \A f \in Files : Holds(q, f)' => Holds(q, f)
        BY <3>2 DEF Holds
      <4>2. QED
        BY <4>1 DEF OneHolder
    <3>6. NoTableNoRows'
      BY <3>1, <3>2 DEF NoTableNoRows
    <3>7. AppliedWhenTracked'
      BY <3>1, <3>2, <3>3 DEF AppliedWhenTracked
    <3>8. QED
      BY <3>4, <3>5, <3>6, <3>7
  <2>15. ASSUME NEW p \in Procs, Audit(p) PROVE OnceInv'
    <3>1. InsertsCollideWithNone'
      BY <2>15 DEF Audit, InsertsCollideWithNone, Tracked, Holds, RowFree
    <3>2. OneHolder'
      <4>1. \A q \in Procs : \A f \in Files : Holds(q, f)' => Holds(q, f)
        BY <2>15 DEF Audit, Holds
      <4>2. QED
        BY <4>1 DEF OneHolder
    <3>3. NoTableNoRows'
      BY <2>15 DEF Audit, NoTableNoRows, Tracked, Holds, RowFree
    <3>4. AppliedWhenTracked'
      BY <2>15 DEF Audit, AppliedWhenTracked, Tracked, Holds, RowFree
    <3>5. QED
      BY <3>1, <3>2, <3>3, <3>4
  <2>16. ASSUME NEW p \in Procs, LoadForRollback(p) PROVE OnceInv'
    <3>1. InsertsCollideWithNone'
      BY <2>16 DEF LoadForRollback, InsertsCollideWithNone, Tracked, Holds, RowFree
    <3>2. OneHolder'
      <4>1. \A q \in Procs : \A f \in Files : Holds(q, f)' => Holds(q, f)
        BY <2>16 DEF LoadForRollback, Holds
      <4>2. QED
        BY <4>1 DEF OneHolder
    <3>3. NoTableNoRows'
      BY <2>16 DEF LoadForRollback, NoTableNoRows, Tracked, Holds, RowFree
    <3>4. AppliedWhenTracked'
      BY <2>16 DEF LoadForRollback, AppliedWhenTracked, Tracked, Holds, RowFree
    <3>5. QED
      BY <3>1, <3>2, <3>3, <3>4
  <2>17. ASSUME NEW p \in Procs, RollbackNext(p) PROVE OnceInv'
    BY <2>17 DEF RollbackNext, InsertsCollideWithNone, OneHolder, Holds, NoTableNoRows,
       AppliedWhenTracked, Tracked
  <2>18. ASSUME NEW p \in Procs, RollbackComplete(p) PROVE OnceInv'
    BY <2>18 DEF RollbackComplete, InsertsCollideWithNone, OneHolder, Holds,
       NoTableNoRows, AppliedWhenTracked, Tracked
  <2>19. ASSUME NEW p \in Procs, DownFile(p) PROVE OnceInv'
    <3>1. InsertsCollideWithNone'
      BY <2>19 DEF DownFile, InsertsCollideWithNone, Tracked, Holds, RowFree
    <3>2. OneHolder'
      BY <2>19 DEF DownFile, OneHolder, Tracked, Holds, RowFree
    <3>3. NoTableNoRows'
      BY <2>19 DEF DownFile, NoTableNoRows, Tracked, Holds, RowFree
    <3>4. AppliedWhenTracked'
      BY <2>19 DEF DownFile, AppliedWhenTracked, Tracked, Holds, RowFree
    <3>5. QED
      BY <3>1, <3>2, <3>3, <3>4
  <2>20. ASSUME NEW p \in Procs, CommitDown(p) PROVE OnceInv'
    <3>1. InsertsCollideWithNone'
      BY <2>20 DEF CommitDown, InsertsCollideWithNone, Tracked, Holds, RowFree
    <3>2. OneHolder'
      <4>1. \A q \in Procs : \A f \in Files : Holds(q, f)' => Holds(q, f)
        BY <2>20 DEF CommitDown, Holds
      <4>2. QED
        BY <4>1 DEF OneHolder
    <3>3. NoTableNoRows'
      BY <2>20 DEF CommitDown, NoTableNoRows, Tracked, Holds, RowFree
    <3>4. AppliedWhenTracked'
      BY <2>20 DEF CommitDown, AppliedWhenTracked, Tracked, Holds, RowFree
    <3>5. QED
      BY <3>1, <3>2, <3>3, <3>4
  <2>21. ASSUME NEW p \in Procs, SeedNext(p) PROVE OnceInv'
    BY <2>21 DEF SeedNext, InsertsCollideWithNone, OneHolder, Holds, NoTableNoRows,
       AppliedWhenTracked, Tracked
  <2>22. ASSUME NEW p \in Procs, SeedComplete(p) PROVE OnceInv'
    BY <2>22 DEF SeedComplete, InsertsCollideWithNone, OneHolder, Holds, NoTableNoRows,
       AppliedWhenTracked, Tracked
  <2>23. ASSUME NEW p \in Procs, NoopQuery(p) PROVE OnceInv'
    <3>1. InsertsCollideWithNone'
      BY <2>23 DEF NoopQuery, InsertsCollideWithNone, Tracked, Holds, RowFree
    <3>2. OneHolder'
      <4>1. \A q \in Procs : \A f \in Files : Holds(q, f)' => Holds(q, f)
        BY <2>23 DEF NoopQuery, Holds
      <4>2. QED
        BY <4>1 DEF OneHolder
    <3>3. NoTableNoRows'
      BY <2>23 DEF NoopQuery, NoTableNoRows, Tracked, Holds, RowFree
    <3>4. AppliedWhenTracked'
      BY <2>23 DEF NoopQuery, AppliedWhenTracked, Tracked, Holds, RowFree
    <3>5. QED
      BY <3>1, <3>2, <3>3, <3>4
  <2>24. ASSUME NEW p \in Procs, NoopRead(p) PROVE OnceInv'
    BY <2>24 DEF NoopRead, InsertsCollideWithNone, OneHolder, Holds, NoTableNoRows,
       AppliedWhenTracked, Tracked
  <2>25. ASSUME NEW p \in Procs, NoopInsert(p) PROVE OnceInv'
    <3>1. InsertsCollideWithNone'
      BY <2>25 DEF NoopInsert, RecordNoop, InsertsCollideWithNone, Tracked, Holds, RowFree
    <3>2. OneHolder'
      <4>1. \A q \in Procs : \A f \in Files : Holds(q, f)' => Holds(q, f)
        BY <2>25 DEF NoopInsert, RecordNoop, Holds
      <4>2. QED
        BY <4>1 DEF OneHolder
    <3>3. NoTableNoRows'
      BY <2>25 DEF NoopInsert, RecordNoop, NoTableNoRows, Tracked, Holds, RowFree
    <3>4. AppliedWhenTracked'
      BY <2>25 DEF NoopInsert, RecordNoop, AppliedWhenTracked, Tracked, Holds, RowFree
    <3>5. QED
      BY <3>1, <3>2, <3>3, <3>4
  <2>26. ASSUME NEW p \in Procs, TerminateSessions(p) PROVE OnceInv'
    <3>1. InsertsCollideWithNone'
      BY <2>26 DEF TerminateSessions, InsertsCollideWithNone, Tracked, Holds, RowFree
    <3>2. OneHolder'
      <4>1. \A q \in Procs : \A f \in Files : Holds(q, f)' => Holds(q, f)
        BY <2>26 DEF TerminateSessions, Holds
      <4>2. QED
        BY <4>1 DEF OneHolder
    <3>3. NoTableNoRows'
      BY <2>26 DEF TerminateSessions, NoTableNoRows, Tracked, Holds, RowFree
    <3>4. AppliedWhenTracked'
      BY <2>26 DEF TerminateSessions, AppliedWhenTracked, Tracked, Holds, RowFree
    <3>5. QED
      BY <3>1, <3>2, <3>3, <3>4
  <2>27. ASSUME NEW p \in Procs, DropDatabase(p) PROVE OnceInv'
    <3>1. InsertsCollideWithNone'
      BY <2>27 DEF DropDatabase, InsertsCollideWithNone, Tracked, Holds, RowFree
    <3>2. OneHolder'
      <4>1. \A q \in Procs : \A f \in Files : Holds(q, f)' => Holds(q, f)
        BY <2>27 DEF DropDatabase, Holds
      <4>2. QED
        BY <4>1 DEF OneHolder
    <3>3. NoTableNoRows'
      <4>1. Tracked' = {}
        BY <2>27 DEF DropDatabase, Tracked, NoRows
      <4>2. QED
        BY <4>1 DEF NoTableNoRows
    <3>4. AppliedWhenTracked'
      BY <2>27 DEF DropDatabase, AppliedWhenTracked, Tracked, Holds, RowFree
    <3>5. QED
      BY <3>1, <3>2, <3>3, <3>4
  <2>28. ASSUME NEW p \in Procs, RecreateDatabase(p) PROVE OnceInv'
    <3>1. InsertsCollideWithNone'
      BY <2>28 DEF RecreateDatabase, InsertsCollideWithNone, Tracked, Holds, RowFree
    <3>2. OneHolder'
      <4>1. \A q \in Procs : \A f \in Files : Holds(q, f)' => Holds(q, f)
        BY <2>28 DEF RecreateDatabase, Holds
      <4>2. QED
        BY <4>1 DEF OneHolder
    <3>3. NoTableNoRows'
      BY <2>28 DEF RecreateDatabase, NoTableNoRows, Tracked, Holds, RowFree
    <3>4. AppliedWhenTracked'
      BY <2>28 DEF RecreateDatabase, AppliedWhenTracked, Tracked, Holds, RowFree
    <3>5. QED
      BY <3>1, <3>2, <3>3, <3>4
  <2>29. ASSUME NEW p \in Procs, LoadDump(p) PROVE OnceInv'
    <3>1. InsertsCollideWithNone'
      BY <2>29 DEF LoadDump, InsertsCollideWithNone, Tracked, Holds, RowFree
    <3>2. OneHolder'
      <4>1. \A q \in Procs : \A f \in Files : Holds(q, f)' => Holds(q, f)
        BY <2>29 DEF LoadDump, Holds
      <4>2. QED
        BY <4>1 DEF OneHolder
    <3>3. NoTableNoRows'
      BY <2>29 DEF LoadDump, NoTableNoRows, Tracked, Holds, RowFree
    <3>4. AppliedWhenTracked'
      <4>1. PICK there \in SUBSET Files :
               /\ effect' = [f \in Files |-> IF f \in there THEN effect[f] + 1 ELSE effect[f]]
               /\ \/ /\ ~tracking
                     /\ \E sums \in [there -> Contents] :
                          rows' = [f \in Files |-> IF f \in there
                                      THEN [sum |-> sums[f], noop |-> FALSE] ELSE NoRow]
                     /\ UNCHANGED vouched
                  \/ vouched' = vouched \cup there /\ UNCHANGED rows
        BY <2>29 DEF LoadDump
      <4>2. CASE vouched' = vouched \cup there /\ UNCHANGED rows
        BY <4>1, <4>2 DEF AppliedWhenTracked, Tracked
      <4>3. ASSUME ~tracking, UNCHANGED vouched, NEW sums \in [there -> Contents],
                   rows' = [f \in Files |-> IF f \in there
                               THEN [sum |-> sums[f], noop |-> FALSE] ELSE NoRow]
            PROVE  AppliedWhenTracked'
        <5>1. \A f \in there : [sum |-> sums[f], noop |-> FALSE] # NoRow
          BY RowIsNotNoRow
        <5>2. Tracked' = there
          BY <4>3, <5>1 DEF Tracked
        <5>3. \A f \in Files \ vouched : effect[f] <= 0
          BY <4>3 DEF NoTableNoRows, AppliedWhenTracked
        <5>4. QED
          BY <4>1, <4>3, <5>2, <5>3 DEF AppliedWhenTracked
      <4>4. QED
        BY <4>1, <4>2, <4>3
    <3>5. QED
      BY <3>1, <3>2, <3>3, <3>4
  <2>30. ASSUME NEW p \in Procs, BaselineNext(p) PROVE OnceInv'
    <3>1. InsertsCollideWithNone'
      BY <2>30 DEF BaselineNext, RecordNoop, InsertsCollideWithNone, Tracked, Holds,
         RowFree
    <3>2. OneHolder'
      BY <2>30 DEF BaselineNext, RecordNoop, OneHolder, Tracked, Holds, RowFree
    <3>3. NoTableNoRows'
      BY <2>30 DEF BaselineNext, RecordNoop, NoTableNoRows, Tracked, Holds, RowFree
    <3>4. AppliedWhenTracked'
      BY <2>30 DEF BaselineNext, RecordNoop, AppliedWhenTracked, Tracked, Holds, RowFree
    <3>5. QED
      BY <3>1, <3>2, <3>3, <3>4
  <2>31. ASSUME NEW p \in Procs, BaselineComplete(p) PROVE OnceInv'
    BY <2>31 DEF BaselineComplete, InsertsCollideWithNone, OneHolder, Holds,
       NoTableNoRows, AppliedWhenTracked, Tracked
  <2>32. ASSUME NEW p \in Procs, Start(p) PROVE OnceInv'
    BY <2>32 DEF Start, First, InsertsCollideWithNone, OneHolder, Holds, NoTableNoRows,
       AppliedWhenTracked, Tracked
  <2>33. ASSUME NEW p \in Procs, Fail(p) PROVE OnceInv'
    <3>1. InsertsCollideWithNone'
      BY <2>33 DEF Fail, InsertsCollideWithNone, Tracked, Holds, RowFree
    <3>2. OneHolder'
      <4>1. \A q \in Procs : \A f \in Files : Holds(q, f)' => Holds(q, f)
        BY <2>33 DEF Fail, Holds
      <4>2. QED
        BY <4>1 DEF OneHolder
    <3>3. NoTableNoRows'
      BY <2>33 DEF Fail, NoTableNoRows, Tracked, Holds, RowFree
    <3>4. AppliedWhenTracked'
      BY <2>33 DEF Fail, AppliedWhenTracked, Tracked, Holds, RowFree
    <3>5. QED
      BY <3>1, <3>2, <3>3, <3>4
  <2>34. ASSUME NEW p \in Procs, Die(p) PROVE OnceInv'
    BY <2>34 DEF Die, InsertsCollideWithNone, OneHolder, Holds, NoTableNoRows,
       AppliedWhenTracked, Tracked
  <2>35. ASSUME NEW p \in Procs, DbSessionEnds(p) PROVE OnceInv'
    <3>1. InsertsCollideWithNone'
      BY <2>35 DEF DbSessionEnds, InsertsCollideWithNone, Tracked, Holds, RowFree
    <3>2. OneHolder'
      <4>1. \A q \in Procs : \A f \in Files : Holds(q, f)' => Holds(q, f)
        BY <2>35 DEF DbSessionEnds, Holds
      <4>2. QED
        BY <4>1 DEF OneHolder
    <3>3. NoTableNoRows'
      BY <2>35 DEF DbSessionEnds, NoTableNoRows, Tracked, Holds, RowFree
    <3>4. AppliedWhenTracked'
      BY <2>35 DEF DbSessionEnds, AppliedWhenTracked, Tracked, Holds, RowFree
    <3>5. QED
      BY <3>1, <3>2, <3>3, <3>4
  <2>36. ASSUME NEW p \in Procs, OpsSessionEnds(p) PROVE OnceInv'
    BY <2>36 DEF OpsSessionEnds, InsertsCollideWithNone, OneHolder, Holds, NoTableNoRows,
       AppliedWhenTracked, Tracked
  <2>37. ASSUME NEW f \in Files, NEW c \in Contents \cup {Absent}, Upload(f, c)
        PROVE  OnceInv'
    BY <2>37 DEF Upload, InsertsCollideWithNone, OneHolder, Holds, NoTableNoRows,
       AppliedWhenTracked, Tracked
  <2>38. CASE UNCHANGED vars
    BY <2>38 DEF vars, InsertsCollideWithNone, OneHolder, Holds, NoTableNoRows,
       AppliedWhenTracked, Tracked
  <2>39. QED
    BY <2>1, <2>2, <2>3, <2>4, <2>5, <2>6, <2>7, <2>8, <2>9, <2>10, <2>11, <2>12, <2>13,
       <2>14, <2>15, <2>16, <2>17, <2>18, <2>19, <2>20, <2>21, <2>22, <2>23, <2>24, <2>25,
       <2>26, <2>27, <2>28, <2>29, <2>30, <2>31, <2>32, <2>33, <2>34, <2>35, <2>36, <2>37,
       <2>38 DEF Next, Step, Terminated
<1>3. QED
  BY <1>1, <1>2, TypeInductive, PTL DEF Spec

(***************************************************************************)
(* The theorems.                                                           *)
(***************************************************************************)

\* Every reachable state of db-migrate is well typed.
THEOREM TypeCorrect == Spec => []TypeOK
<1>1. QED
  BY TypeInductive, PTL

\* pg_advisory_lock excludes, for any Severed: an invocation whose ops session
\* outlasts its work holds the lock at every call between acquire_lock and
\* release_lock, also while others lose theirs.
THEOREM LockExcludes == Spec => []MutualExclusion
<1>1. Init => MutualExclusion
  BY DEF Init, MutualExclusion, Body
<1>2. TypeOK /\ MutualExclusion /\ [Next]_vars => MutualExclusion'
  <2> SUFFICES ASSUME TypeOK, MutualExclusion, [Next]_vars,
                      NEW q \in Procs \ Severed, pc'[q] \in Body
               PROVE  lock' = q
    BY DEF MutualExclusion, Body
  <2>1. pc[q] \in Body => lock = q
    BY DEF MutualExclusion
  <2>2. ASSUME NEW p \in Procs, Acts(p) PROVE lock' = q
    <3>1. q # p => pc'[q] = pc[q]
      BY <2>2, OthersKeepLocals DEF Untouched
    <3>2. CASE AcquireLock(p)
      BY <2>1, <3>1, <3>2, DbMigrateAssumption DEF AcquireLock
    <3>3. CASE ReleaseLock(p)
      BY <2>1, <3>1, <3>3 DEF ReleaseLock, Goto, TypeOK, Body
    <3>4. CASE OpsSessionEnds(p)
      BY <2>1, <3>1, <3>4 DEF OpsSessionEnds, Body
    <3>5. CASE ~(AcquireLock(p) \/ ReleaseLock(p) \/ OpsSessionEnds(p))
      BY <2>1, <2>2, <3>1, <3>5, OnlyTheLockEnters
    <3>6. QED
      BY <3>2, <3>3, <3>4, <3>5
  <2>3. CASE \E f \in Files, c \in Contents \cup {Absent} : Upload(f, c)
    BY <2>1, <2>3 DEF Upload, callVars
  <2>4. CASE UNCHANGED vars
    BY <2>1, <2>4 DEF vars
  <2>5. QED
    BY <2>2, <2>3, <2>4 DEF Next, Acts, Terminated
<1>3. QED
  BY <1>1, <1>2, TypeInductive, PTL DEF Spec

\* schema_migrations tells the truth about the schema, for any number of
\* invocations and files, whatever is killed, retried or fails.
THEOREM LedgerIsSound == Spec => []LedgerMatchesSchema
<1>1. CASE Severed # {}
  <2>1. LedgerMatchesSchema
    BY <1>1 DEF LedgerMatchesSchema
  <2>2. QED
    BY <2>1, PTL
<1>2. CASE Severed = {}
  <2>1. LedgerInv => LedgerMatchesSchema
    BY DEF LedgerInv, Ledgered, LedgerMatchesSchema
  <2>2. Spec => []LedgerInv
    BY <1>2, LedgerInductive
  <2>3. QED
    BY <2>1, <2>2, PTL
<1>3. QED
  BY <1>1, <1>2

\* The Lambda implements the ledger it promises: every step is a step of
\* SchemaLedger or leaves rows and schema alone.
THEOREM ImplementsTheLedger ==
    ASSUME Severed = {}
    PROVE  Spec => ImplementsLedger
<1> USE DbMigrateAssumption
<1>1. Init => Ledger!Init
  BY DEF Init, Ledger!Init, Tracked, NoRows
<1>2. TypeOK /\ LocalsOK /\ LedgerInv /\ [Next]_vars => [Ledger!Next]_Ledger!vars
  <2> SUFFICES ASSUME TypeOK, LocalsOK, LedgerInv, [Next]_vars
               PROVE  Ledger!Next \/ UNCHANGED <<rows, effect, vouched>>
    BY DEF Ledger!vars, Tracked
  <2>1. ASSUME NEW p \in Procs, CommitFile(p) PROVE Ledger!Apply(cur[p]) /\ cur[p] \in Files
    <3>1. cur[p] \in Files /\ cur[p] \notin Tracked /\ got[p][cur[p]] \in Contents
      BY <2>1 DEF CommitFile, Sent, LocalsOK, LedgerInv, HolderOK
    <3>2. Tracked' = Tracked \cup {cur[p]}
      <4>1. [sum |-> got[p][cur[p]], noop |-> FALSE] # NoRow
        BY <3>1, RowIsNotNoRow
      <4>2. QED
        BY <2>1, <3>1, <4>1 DEF CommitFile, Tracked, TypeOK
    <3>3. QED
      BY <2>1, <3>1, <3>2 DEF CommitFile, Ledger!Apply
  <2>2. ASSUME NEW p \in Procs, CommitDown(p) PROVE Ledger!Revert(cur[p]) /\ cur[p] \in Files
    <3>1. cur[p] \in Tracked /\ got[p][cur[p]] # Absent
      BY <2>2 DEF CommitDown, Sent, LedgerInv, HolderOK
    <3>2. cur[p] \in Files /\ Tracked' = Tracked \ {cur[p]}
      BY <2>2, <3>1 DEF CommitDown, Tracked, TypeOK
    <3>3. QED
      BY <2>2, <3>1, <3>2 DEF CommitDown, Ledger!Revert
  <2>3. ASSUME NEW f \in Files, NEW c \in Contents, NEW p \in Procs,
               f \notin Tracked, RecordNoop(p, f, c), UNCHANGED effect
        PROVE  Ledger!Vouch(f)
    <3>1. [sum |-> c, noop |-> TRUE] # NoRow
      <4>1. [sum |-> c, noop |-> TRUE] \in [sum : Contents, noop : BOOLEAN]
        OBVIOUS
      <4>2. QED
        BY <4>1
    <3>2. Tracked' = Tracked \cup {f}
      BY <2>3, <3>1 DEF RecordNoop, Tracked, TypeOK
    <3>3. QED
      BY <2>3, <3>2 DEF RecordNoop, Ledger!Vouch
  <2>4. ASSUME NEW p \in Procs, NoopInsert(p) PROVE \E f \in Files : Ledger!Vouch(f)
    <3>1. cur[p] \in Files /\ cur[p] \notin Tracked /\ got[p][cur[p]] \in Contents
      BY <2>4 DEF NoopInsert, Sent, LocalsOK, Tracked
    <3>2. QED
      BY <2>3, <2>4, <3>1 DEF NoopInsert
  <2>5. ASSUME NEW p \in Procs, BaselineNext(p)
        PROVE  (\E f \in Files : Ledger!Vouch(f)) \/ UNCHANGED <<rows, effect, vouched>>
    <3>1. PICK f \in Files :
             \/ UNCHANGED <<rows, vouched>>
             \/ f \notin Tracked /\ bucket[f] # Absent /\ RecordNoop(p, f, bucket[f])
      BY <2>5 DEF BaselineNext
    <3>2. UNCHANGED effect
      BY <2>5 DEF BaselineNext
    <3>3. bucket[f] # Absent => bucket[f] \in Contents
      BY DEF TypeOK
    <3>4. QED
      BY <2>3, <3>1, <3>2, <3>3
  <2>6. ASSUME NEW p \in Procs, DropDatabase(p) PROVE Ledger!Wipe
    <3>1. Tracked' = {}
      BY <2>6 DEF DropDatabase, Tracked, NoRows
    <3>2. QED
      BY <2>6, <3>1 DEF DropDatabase, Ledger!Wipe
  <2>7. ASSUME NEW p \in Procs, LoadDump(p) PROVE \E there \in SUBSET Files : Ledger!Load(there)
    <3>1. rows = NoRows /\ effect = [f \in Files |-> 0]
      BY <2>7 DEF LoadDump, Sent, LedgerInv, HolderOK
    <3>2. Tracked = {}
      BY <3>1 DEF Tracked, NoRows
    <3>3. PICK there \in SUBSET Files :
             /\ effect' = [f \in Files |-> IF f \in there THEN effect[f] + 1 ELSE effect[f]]
             /\ \/ /\ \E sums \in [there -> Contents] :
                        rows' = [f \in Files |-> IF f \in there
                                    THEN [sum |-> sums[f], noop |-> FALSE] ELSE NoRow]
                   /\ UNCHANGED vouched
                \/ vouched' = vouched \cup there /\ UNCHANGED rows
      BY <2>7 DEF LoadDump
    <3>4. effect' = [f \in Files |-> IF f \in there THEN 1 ELSE 0]
      BY <3>1, <3>3
    <3>5. CASE vouched' = vouched \cup there /\ UNCHANGED rows
      BY <3>1, <3>2, <3>4, <3>5 DEF Ledger!Load, Tracked
    <3>6. ASSUME NEW sums \in [there -> Contents], UNCHANGED vouched,
                 rows' = [f \in Files |-> IF f \in there
                             THEN [sum |-> sums[f], noop |-> FALSE] ELSE NoRow]
          PROVE  Ledger!Load(there)
      <4>1. \A f \in there : [sum |-> sums[f], noop |-> FALSE] # NoRow
        BY RowIsNotNoRow
      <4>2. Tracked' = there
        BY <3>6, <4>1 DEF Tracked
      <4>3. QED
        BY <3>1, <3>2, <3>4, <3>6, <4>2 DEF Ledger!Load
    <3>7. QED
      BY <3>3, <3>5, <3>6
  <2>8. ASSUME NEW p \in Procs, 
               EnsureDatabase(p) \/ CreateIfMissing(p) \/ GrantSchemaAccess(p) \/ ListSeeds(p) \/
               Connect(p) \/ AcquireLock(p) \/ ReleaseLock(p) \/ LocalTracking(p) \/
               ListFiles(p) \/ LoadApplied(p) \/ ReadNext(p) \/ MigrateComplete(p) \/
               ApplyFile(p) \/ Audit(p) \/ LoadForRollback(p) \/ RollbackNext(p) \/
               RollbackComplete(p) \/ DownFile(p) \/ SeedNext(p) \/ SeedComplete(p) \/
               NoopQuery(p) \/ NoopRead(p) \/ TerminateSessions(p) \/ RecreateDatabase(p) \/
               BaselineComplete(p) \/ Start(p) \/ Fail(p) \/ Die(p) \/
               DbSessionEnds(p) \/ OpsSessionEnds(p)
        PROVE  UNCHANGED <<rows, effect, vouched>>
    BY <2>8 DEF dbVars, EnsureDatabase, CreateIfMissing, GrantSchemaAccess, ListSeeds,
       Connect, AcquireLock, ReleaseLock, LocalTracking, ListFiles, LoadApplied, ReadNext,
       MigrateComplete, ApplyFile, Audit, LoadForRollback, RollbackNext, RollbackComplete,
       DownFile, SeedNext, SeedComplete, NoopQuery, NoopRead, TerminateSessions,
       RecreateDatabase, BaselineComplete, Start, Fail, Die, DbSessionEnds, OpsSessionEnds
  <2>9. ASSUME NEW f \in Files, NEW c \in Contents \cup {Absent}, Upload(f, c)
        PROVE  UNCHANGED <<rows, effect, vouched>>
    BY <2>9 DEF Upload, dbVars
  <2>10. CASE UNCHANGED vars
    BY <2>10 DEF vars
  <2>11. QED
    BY <2>1, <2>2, <2>4, <2>5, <2>6, <2>7, <2>8, <2>9, <2>10 DEF Next, Step, Terminated,
       Ledger!Next
<1>3. QED
  BY <1>1, <1>2, TypeInductive, LedgerInductive, PTL DEF Spec, ImplementsLedger,
     Ledger!Spec

\* Files go in in filename order, for any number of files and invocations.
THEOREM FilesGoInInOrder == Spec => []InFilenameOrder
<1>1. CASE Severed # {}
  <2>1. InFilenameOrder
    BY <1>1 DEF InFilenameOrder
  <2>2. QED
    BY <2>1, PTL
<1>2. CASE Severed = {}
  <2>1. WorkInv => InFilenameOrder
    BY DEF WorkInv, WorkOK, MigrateOK, Recorded, InFilenameOrder
  <2>2. Spec => []WorkInv
    BY <1>2, WorkInductive
  <2>3. QED
    BY <2>1, <2>2, PTL
<1>3. QED
  BY <1>1, <1>2

\* A migrate that returns Ok has recorded every file it listed, with the
\* checksum of what it read.
THEOREM OkIsRecorded == Spec => []OkMeansRecorded
<1>1. CASE Severed # {}
  <2>1. OkMeansRecorded
    BY <1>1 DEF OkMeansRecorded
  <2>2. QED
    BY <2>1, PTL
<1>2. CASE Severed = {}
  <2>1. WorkInv => OkMeansRecorded
    BY DEF WorkInv, WorkOK, MigrateOK, Recorded, OkMeansRecorded
  <2>2. Spec => []WorkInv
    BY <1>2, WorkInductive
  <2>3. QED
    BY <2>1, <2>2, PTL
<1>3. QED
  BY <1>1, <1>2

\* A rollback that returns Ok leaves no row after its target.
THEOREM RollbackIsComplete == Spec => []RollbackReachesTarget
<1>1. CASE Severed # {}
  <2>1. RollbackReachesTarget
    BY <1>1 DEF RollbackReachesTarget
  <2>2. QED
    BY <2>1, PTL
<1>2. CASE Severed = {}
  <2>1. WorkInv => RollbackReachesTarget
    BY DEF WorkInv, WorkOK, RollbackOK, RollbackReachesTarget
  <2>2. Spec => []WorkInv
    BY <1>2, WorkInductive
  <2>3. QED
    BY <2>1, <2>2, PTL
<1>3. QED
  BY <1>1, <1>2

\* A restore that returns Ok has baselined every listed migration, a seed that
\* returns Ok has planted every seed file.
THEOREM RestoreAndSeedAreComplete == Spec => []RestoreAndSeedComplete
<1>1. CASE Severed # {}
  <2>1. RestoreAndSeedComplete
    BY <1>1 DEF RestoreAndSeedComplete
  <2>2. QED
    BY <2>1, PTL
<1>2. CASE Severed = {}
  <2>1. WorkInv => RestoreAndSeedComplete
    BY DEF WorkInv, WorkOK, RestoreOK, SeedOK, RestoreAndSeedComplete
  <2>2. Spec => []WorkInv
    BY <1>2, WorkInductive
  <2>3. QED
    BY <2>1, <2>2, PTL
<1>3. QED
  BY <1>1, <1>2

\* No row of migration_audit tells of a success that the database contradicts.
THEOREM AuditIsTrue == Spec => AuditTellsTruth
<1>1. ASSUME Severed = {}, TypeOK, LocalsOK, WorkInv, [Next]_vars
      PROVE  \A e \in audit' \ audit : AuditSays(e[1], e[2])
  <2>1. CASE audit' = audit
    BY <2>1
  <2>2. CASE audit' # audit
    <3>1. ASSUME NEW p \in Procs,
                 EnsureDatabase(p) \/ CreateIfMissing(p) \/ GrantSchemaAccess(p) \/ ListSeeds(p)
                 \/ Connect(p) \/ AcquireLock(p) \/ ReleaseLock(p) \/ LocalTracking(p) \/
                 ListFiles(p) \/ LoadApplied(p) \/ ReadNext(p) \/ MigrateComplete(p) \/
                 ApplyFile(p) \/ CommitFile(p) \/ LoadForRollback(p) \/ RollbackNext(p) \/
                 RollbackComplete(p) \/ DownFile(p) \/ CommitDown(p) \/ SeedNext(p) \/
                 SeedComplete(p) \/ NoopQuery(p) \/ NoopRead(p) \/ NoopInsert(p) \/
                 TerminateSessions(p) \/ DropDatabase(p) \/ RecreateDatabase(p) \/ LoadDump(p) \/
                 BaselineNext(p) \/ BaselineComplete(p) \/ Start(p) \/ Fail(p) \/ Die(p) \/
                 DbSessionEnds(p) \/ OpsSessionEnds(p)
          PROVE  audit' = audit
      BY <3>1 DEF callVars, EnsureDatabase, CreateIfMissing, GrantSchemaAccess, ListSeeds,
         Connect, AcquireLock, ReleaseLock, LocalTracking, ListFiles, LoadApplied, ReadNext,
         MigrateComplete, ApplyFile, CommitFile, LoadForRollback, RollbackNext,
         RollbackComplete, DownFile, CommitDown, SeedNext, SeedComplete, NoopQuery, NoopRead,
         NoopInsert, TerminateSessions, DropDatabase, RecreateDatabase, LoadDump,
         BaselineNext, BaselineComplete, Start, Fail, Die, DbSessionEnds, OpsSessionEnds
    <3>2. PICK p \in Procs : Audit(p)
      BY <1>1, <2>2, <3>1 DEF Next, Step, Upload, Terminated, vars, callVars
    <3>3. pc[p] = "audit" /\ audit' \subseteq audit \cup {<<req[p].op, cur[p]>>}
      BY <3>2 DEF Audit, At
    <3>4. req[p].op \in {"migrate", "rollback", "seed", "drop", "noop", "restore"}
      BY <1>1, <3>3, DbMigrateAssumption DEF LocalsOK
    <3>5. WorkOK(p)
      BY <1>1 DEF WorkInv
    <3>6. AuditSays(req[p].op, cur[p])
      BY <3>3, <3>4, <3>5 DEF WorkOK, MigrateOK, RollbackOK, SeedOK, RestoreOK, SingleOK,
         In, AuditSays
    <3>7. QED
      BY <3>3, <3>6
  <2>3. QED
    BY <2>1, <2>2
<1>2. CASE Severed # {}
  <2>1. Severed = {} => \A e \in audit' \ audit : AuditSays(e[1], e[2])
    BY <1>2
  <2>2. QED
    BY <2>1, PTL DEF Spec, AuditTellsTruth
<1>3. CASE Severed = {}
  <2>1. Spec => []WorkInv
    BY <1>3, WorkInductive
  <2>2. TypeOK /\ LocalsOK /\ WorkInv /\ [Next]_vars =>
            (Severed = {} => \A e \in audit' \ audit : AuditSays(e[1], e[2]))
    BY <1>1, <1>3
  <2>3. QED
    BY <2>1, <2>2, TypeInductive, PTL DEF Spec, AuditTellsTruth
<1>4. QED
  BY <1>2, <1>3

\* A file nobody vouched for is never applied on top of itself, even when the
\* lock is lost under a running invocation.
THEOREM AppliedOnce == Spec => []AppliedAtMostOnce
<1>1. TypeOK /\ OnceInv => AppliedAtMostOnce
  BY DEF TypeOK, OnceInv, AppliedWhenTracked, AppliedAtMostOnce
<1>2. QED
  BY <1>1, TypeInductive, OnceInductive, PTL
==============================================================================
