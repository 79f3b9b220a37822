----------------------- MODULE MigrationLibraryProofs -----------------------
(***************************************************************************)
(* Proofs about MigrationLibrary, for any clients, files, stores and       *)
(* workloads.                                                              *)
(*                                                                         *)
(* That the rows of schema_migrations and the schema move together rests   *)
(* on two exclusions.  Of a row that is about to be committed PostgreSQL   *)
(* lets nobody else insert or delete one of its name (HeldOK): that is     *)
(* enough for migrate and noop.  A rollback trusts the list of rows it has *)
(* read, so it needs the lock, or nobody beside it, from the list to the   *)
(* last COMMIT (GuardOK, RollbackOK).  A migrate that has as much to       *)
(* itself finds no row it did not know of (MigrateOK), so its INSERT loses *)
(* no race; whatever else fails, the lock stays behind with a failed       *)
(* transaction only (UsableOK).                                            *)
(*                                                                         *)
(* That an Ok means what it says (AllDone) follows the loops: what a loop  *)
(* has passed is done (MigrateDone, RollbackDone, SeedDone), and a row     *)
(* that somebody else's step adds or deletes does not undo it.             *)
(***************************************************************************)
EXTENDS MigrationLibrary, TLAPS

\* The steps of one client.
Act(a) == Call(a) \/ Step(a) \/ Fail(a) \/ FailInTxn(a) \/ Disconnect(a)

\* What a step relies on in the locals of a call.
CallOK(c) ==
    /\ pc[c] # "idle" => c \in workload.crew /\ call[c].op \in workload.ops
    /\ call[c].op = "noop" => call[c].target \in Files
    /\ pc[c] = "track" => call[c].op \in {"migrate", "noop"}
    /\ pc[c] \in {"nquery", "ninsert"} => call[c].op = "noop"
    /\ pc[c] \in {"rbload", "rbread", "down", "delete", "undo"} => call[c].op = "rollback"
    /\ pc[c] \in {"load", "read", "sql", "insert", "commit"} =>
           list[c] \subseteq Listed(call[c].store)
    /\ pc[c] \in {"sql", "insert", "commit"} =>
           cur[c] \in Files /\ call[c].store[cur[c]] \in Contents
    /\ pc[c] \in {"down", "delete", "undo"} => cur[c] \in Files
    /\ sess[c] = "txn" => pc[c] \in InTxn

CallsOK == \A c \in Clients : CallOK(c)


\* Where each call is and how its session stands.
ControlOK ==
    /\ lock \in Clients \cup {NoOne}
    /\ sess \in [Clients -> {"ready", "txn", "aborted", "closed"}]
    /\ pc \in [Clients -> Pcs]
    /\ result \in [Clients -> {"none", "ok", "err"}]

LEMMA ReplyTypes ==
    ASSUME ControlOK, NEW c \in Clients, NEW n \in Pcs, NEW s \in {"ready", "txn"},
           Reply(c, n, s)
    PROVE  ControlOK'
  <1>1. "return" \in Pcs
      BY DEF Pcs
  <1>2. CASE Goto(c, n) /\ sess' = [sess EXCEPT ![c] = s] /\ UNCHANGED <<lock, result>>
      BY <1>2 DEF ControlOK, Goto
  <1>3. CASE Throw(c) /\ Close(c)
      BY <1>1, <1>3 DEF ControlOK, Throw, Close, Goto
  <1>4. QED
      BY <1>2, <1>3 DEF Reply

LEMMA ThrowTypes ==
    ASSUME ControlOK, NEW c \in Clients, Throw(c) \/ Finish(c),
           \/ UNCHANGED <<lock, sess>>
           \/ \E s \in {"ready", "aborted"} :
                 sess' = [sess EXCEPT ![c] = s] /\ UNCHANGED lock
           \/ Close(c)
    PROVE  ControlOK'
  <1>1. "return" \in Pcs
      BY DEF Pcs
  <1>2. pc' \in [Clients -> Pcs] /\ result' \in [Clients -> {"none", "ok", "err"}]
      BY <1>1 DEF ControlOK, Throw, Finish, Goto
  <1>3. lock' \in Clients \cup {NoOne} /\ sess' \in [Clients -> {"ready", "txn", "aborted", "closed"}]
      BY DEF ControlOK, Close
  <1>4. QED
      BY <1>2, <1>3 DEF ControlOK

LEMMA StoreHolds ==
    ASSUME NEW s \in Stores \cup {Nothing}, NEW f \in Listed(s)
    PROVE  f \in Files /\ s[f] \in Contents
  BY MigrationLibraryAssumption DEF Listed, Nothing

LEMMA LibraryTypes == Spec => [](TypeOK /\ CallsOK)
  <1> USE MigrationLibraryAssumption
  <1>1. Init => TypeOK /\ CallsOK
    <2> SUFFICES ASSUME Init PROVE TypeOK /\ CallsOK
        OBVIOUS
    <2>1. workload \in Workloads /\ tracking \in BOOLEAN /\ rows \in [Files -> Row \cup {NoRow}]
        BY DEF Init
    <2>2. effect \in [Files -> Int] /\ vouched \subseteq Files
        BY DEF Init, Tracked
    <2>3. call \in [Clients -> [op : {"none", "migrate", "noop", "rollback", "seed"},
                               target : 0..NFiles, store : Stores \cup {Nothing}]]
        BY DEF Init, NoCall, Nothing
    <2>4. seen \in [Clients -> [Files -> Contents \cup {Absent}]]
        BY DEF Init, Nothing
    <2>5. CallsOK
        BY DEF Init, CallsOK, CallOK, NoCall
    <2>6. QED
        BY <2>1, <2>2, <2>3, <2>4, <2>5 DEF Init, TypeOK, Pcs
  <1>2. TypeOK /\ CallsOK /\ [Next]_vars => TypeOK' /\ CallsOK'
    <2> SUFFICES ASSUME TypeOK, CallsOK, [Next]_vars PROVE TypeOK' /\ CallsOK'
        OBVIOUS
    <2>0. ControlOK
        BY DEF TypeOK, ControlOK
    <2> USE DEF TypeOK, Files, At, dbVars, loopVars, callVars
    <2>1. ASSUME NEW c \in Clients, AcquireLock(c) PROVE TypeOK' /\ CallsOK'
      <3>1. ControlOK'
        <4>1. CASE lock' = c /\ Goto(c, First(call[c].op)) /\ UNCHANGED <<sess, result>>
            BY <2>0, <4>1 DEF ControlOK, Goto, First, Pcs, Single
        <4>2. CASE Throw(c) /\ Close(c)
            BY <4>2, <2>0, ThrowTypes
        <4>3. QED
            BY <2>1, <4>1, <4>2 DEF AcquireLock
      <3>2. TypeOK'
          BY <2>1, <3>1 DEF AcquireLock, First, ControlOK
      <3>3. ASSUME NEW d \in Clients PROVE CallOK(d)'
          BY <2>1
             DEF AcquireLock, First, CallsOK, CallOK, Pcs, Single, Reads, InTxn, Goto,
                 Finish, Throw, Close, Reply, Listed, Nothing
      <3>4. QED
          BY <3>2, <3>3 DEF CallsOK
    <2>2. ASSUME NEW c \in Clients, Return(c) PROVE TypeOK' /\ CallsOK'
      <3>1. ControlOK'
          BY <2>0, <2>2 DEF Return, ControlOK, Goto, Pcs
      <3>2. /\ list' \in [Clients -> SUBSET Files] /\ cur' \in [Clients -> 0..(NFiles + 1)]
            /\ seen' \in [Clients -> [Files -> Contents \cup {Absent}]]
            /\ hit' \in [Clients -> BOOLEAN]
            /\ call' \in [Clients -> [op : {"none", "migrate", "noop", "rollback", "seed"},
                                      target : 0..NFiles, store : Stores \cup {Nothing}]]
        <4>1. NoCall \in [op : {"none", "migrate", "noop", "rollback", "seed"},
                         target : 0..NFiles, store : Stores \cup {Nothing}]
            BY DEF NoCall
        <4>2. Nothing \in [Files -> Contents \cup {Absent}]
            BY DEF Nothing
        <4>3. QED
            BY <2>2, <4>1, <4>2 DEF Return
      <3>3. TypeOK'
          BY <2>2, <3>1, <3>2 DEF Return, ControlOK
      <3>4. ASSUME NEW d \in Clients PROVE CallOK(d)'
          BY <2>2 DEF Return, CallsOK, CallOK, NoCall, InTxn, Goto
      <3>5. QED
          BY <3>3, <3>4 DEF CallsOK
    <2>3. ASSUME NEW c \in Clients, LocalTracking(c) PROVE TypeOK' /\ CallsOK'
      <3>1. ControlOK'
          BY <2>3, <2>0, ReplyTypes DEF LocalTracking, Pcs, Single, Reads, InTxn
      <3>2. tracking' \in BOOLEAN
          BY <2>3 DEF LocalTracking
      <3>3. TypeOK'
          BY <2>3, <3>1, <3>2 DEF LocalTracking, ControlOK
      <3>4. ASSUME NEW d \in Clients PROVE CallOK(d)'
          BY <2>3
             DEF LocalTracking, CallsOK, CallOK, Pcs, Single, Reads, InTxn, Goto,
                 Finish, Throw, Close, Reply, Listed, Nothing
      <3>5. QED
          BY <3>3, <3>4 DEF CallsOK
    <2>4. ASSUME NEW c \in Clients, ListFiles(c) PROVE TypeOK' /\ CallsOK'
      <3>1. TypeOK'
          BY <2>4
             DEF ListFiles, Pcs, Single, Reads, InTxn, Goto, Finish, Throw, Close,
                 Reply, Listed, Nothing
      <3>2. ASSUME NEW d \in Clients PROVE CallOK(d)'
          BY <2>4
             DEF ListFiles, CallsOK, CallOK, Pcs, Single, Reads, InTxn, Goto, Finish,
                 Throw, Close, Reply, Listed, Nothing
      <3>3. QED
          BY <3>1, <3>2 DEF CallsOK
    <2>5. ASSUME NEW c \in Clients, LoadApplied(c) PROVE TypeOK' /\ CallsOK'
      <3>1. ControlOK'
          BY <2>0, <2>5 DEF LoadApplied, ControlOK, Goto, Pcs, Reads
      <3>2. seen' \in [Clients -> [Files -> Contents \cup {Absent}]]
          BY <2>5 DEF LoadApplied, Tracked, Row
      <3>3. TypeOK'
          BY <2>5, <3>1, <3>2 DEF LoadApplied, ControlOK
      <3>4. ASSUME NEW d \in Clients PROVE CallOK(d)'
          BY <2>5
             DEF LoadApplied, CallsOK, CallOK, Pcs, Single, Reads, InTxn, Goto, Finish,
                 Throw, Close, Reply, Listed, Nothing
      <3>5. QED
          BY <3>3, <3>4 DEF CallsOK
    <2>6. ASSUME NEW c \in Clients, ReadNext(c) PROVE TypeOK' /\ CallsOK'
      <3>1. TypeOK'
          BY <2>6
             DEF ReadNext, Pcs, Single, Reads, InTxn, Goto, Finish, Throw, Close, Reply,
                 Listed, Nothing
      <3>2. ASSUME NEW d \in Clients PROVE CallOK(d)'
        <4>1. PICK f \in Files :
                 /\ IsLeast(f, NextUp(c))
                 /\ cur' = [cur EXCEPT ![c] = f]
                 /\ Goto(c, IF seen[c][f] = Absent THEN "sql" ELSE "read")
            BY <2>6 DEF ReadNext
        <4>2. call[c].store[f] \in Contents
          <5>1. f \in Listed(call[c].store)
              BY <2>6, <4>1 DEF ReadNext, IsLeast, NextUp, CallsOK, CallOK
          <5>2. call[c].store \in Stores \cup {Nothing}
              OBVIOUS
          <5>3. QED
              BY <5>1, <5>2, StoreHolds
        <4>3. CASE d = c
          <5>1. list[c] \subseteq Listed(call[c].store) /\ sess[c] # "txn" /\ pc[c] = "read"
              BY <2>6 DEF ReadNext, CallsOK, CallOK, InTxn
          <5>2. pc'[c] \in {"sql", "read"} /\ cur'[c] = f
              BY <4>1 DEF Goto
          <5>3. QED
              BY <2>6, <4>2, <4>3, <5>1, <5>2 DEF ReadNext, CallsOK, CallOK, InTxn
        <4>4. CASE d # c
            BY <2>6, <4>1, <4>4 DEF ReadNext, CallsOK, CallOK, Goto, InTxn
        <4>5. QED
            BY <4>3, <4>4
      <3>3. QED
          BY <3>1, <3>2 DEF CallsOK
    <2>7. ASSUME NEW c \in Clients, MigrateComplete(c) PROVE TypeOK' /\ CallsOK'
      <3>1. TypeOK'
          BY <2>7
             DEF MigrateComplete, Pcs, Single, Reads, InTxn, Goto, Finish, Throw, Close,
                 Reply, Listed, Nothing
      <3>2. ASSUME NEW d \in Clients PROVE CallOK(d)'
          BY <2>7
             DEF MigrateComplete, CallsOK, CallOK, Pcs, Single, Reads, InTxn, Goto,
                 Finish, Throw, Close, Reply, Listed, Nothing
      <3>3. QED
          BY <3>1, <3>2 DEF CallsOK
    <2>8. ASSUME NEW c \in Clients, ExecuteSql(c) PROVE TypeOK' /\ CallsOK'
      <3>1. ControlOK'
          BY <2>8, <2>0, ReplyTypes, ThrowTypes
             DEF ExecuteSql, RunSql, Pcs, Single, Reads, InTxn
      <3>2. TypeOK'
          BY <2>8, <3>1 DEF ExecuteSql, RunSql, ControlOK
      <3>3. ASSUME NEW d \in Clients PROVE CallOK(d)'
        <4>1. CASE pc[c] = "sql"
            BY <2>8, <4>1
               DEF ExecuteSql, RunSql, CallsOK, CallOK, Pcs, Single, Reads, InTxn, Goto,
                   Throw, Close, Reply
        <4>2. CASE pc[c] = "down"
            BY <2>8, <4>2
               DEF ExecuteSql, RunSql, CallsOK, CallOK, Pcs, Single, Reads, InTxn, Goto,
                   Throw, Close, Reply
        <4>3. QED
            BY <2>8, <4>1, <4>2 DEF ExecuteSql
      <3>4. QED
          BY <3>2, <3>3 DEF CallsOK
    <2>9. ASSUME NEW c \in Clients, InsertRow(c) PROVE TypeOK' /\ CallsOK'
      <3>1. ControlOK'
          BY <2>9, <2>0, ReplyTypes, ThrowTypes DEF InsertRow, Pcs, Single, Reads, InTxn
      <3>2. TypeOK'
          BY <2>9, <3>1 DEF InsertRow, ControlOK
      <3>3. ASSUME NEW d \in Clients PROVE CallOK(d)'
          BY <2>9
             DEF InsertRow, CallsOK, CallOK, Pcs, Single, Reads, InTxn, Goto, Finish,
                 Throw, Close, Reply, Listed, Nothing
      <3>4. QED
          BY <3>2, <3>3 DEF CallsOK
    <2>10. ASSUME NEW c \in Clients, CommitFile(c) PROVE TypeOK' /\ CallsOK'
      <3>1. ControlOK'
          BY <2>10, <2>0, ReplyTypes DEF CommitFile, Pcs, Single, Reads, InTxn
      <3>2. rows' \in [Files -> Row \cup {NoRow}] /\ effect' \in [Files -> Int]
        <4>1. cur[c] \in Files /\ call[c].store[cur[c]] \in Contents
            BY <2>10 DEF CommitFile, CallsOK, CallOK
        <4>2. [sum |-> call[c].store[cur[c]], noop |-> FALSE] \in Row
            BY <4>1 DEF Row
        <4>3. effect[cur[c]] + 1 \in Int
            BY <4>1
        <4>4. QED
            BY <2>10, <4>1, <4>2, <4>3 DEF CommitFile
      <3>3. TypeOK'
          BY <2>10, <3>1, <3>2 DEF CommitFile, ControlOK
      <3>4. ASSUME NEW d \in Clients PROVE CallOK(d)'
          BY <2>10
             DEF CommitFile, CallsOK, CallOK, Pcs, Single, Reads, InTxn, Goto, Finish,
                 Throw, Close, Reply, Listed, Nothing
      <3>5. QED
          BY <3>3, <3>4 DEF CallsOK
    <2>11. ASSUME NEW c \in Clients, NoopQuery(c) PROVE TypeOK' /\ CallsOK'
      <3>1. TypeOK'
          BY <2>11
             DEF NoopQuery, Pcs, Single, Reads, InTxn, Goto, Finish, Throw, Close,
                 Reply, Listed, Nothing
      <3>2. ASSUME NEW d \in Clients PROVE CallOK(d)'
          BY <2>11
             DEF NoopQuery, CallsOK, CallOK, Pcs, Single, Reads, InTxn, Goto, Finish,
                 Throw, Close, Reply, Listed, Nothing
      <3>3. QED
          BY <3>1, <3>2 DEF CallsOK
    <2>12. ASSUME NEW c \in Clients, NoopInsert(c) PROVE TypeOK' /\ CallsOK'
      <3>1. ControlOK'
          BY <2>12, <2>0, ThrowTypes DEF NoopInsert
      <3>2. rows' \in [Files -> Row \cup {NoRow}] /\ vouched' \subseteq Files
        <4>1. call[c].target \in Files /\ call[c].store[call[c].target] \in Contents
            BY <2>12, StoreHolds DEF NoopInsert, CallsOK, CallOK
        <4>2. [sum |-> call[c].store[call[c].target], noop |-> TRUE] \in Row
            BY <4>1 DEF Row
        <4>3. QED
            BY <2>12, <4>1, <4>2 DEF NoopInsert
      <3>3. TypeOK'
          BY <2>12, <3>1, <3>2 DEF NoopInsert, ControlOK
      <3>4. ASSUME NEW d \in Clients PROVE CallOK(d)'
          BY <2>12
             DEF NoopInsert, CallsOK, CallOK, Pcs, Single, Reads, InTxn, Goto, Finish,
                 Throw, Close, Reply, Listed, Nothing
      <3>5. QED
          BY <3>3, <3>4 DEF CallsOK
    <2>13. ASSUME NEW c \in Clients, LoadForRollback(c) PROVE TypeOK' /\ CallsOK'
      <3>1. ControlOK'
          BY <2>0, <2>13 DEF LoadForRollback, ControlOK, Finish, Goto, Pcs, Reads
      <3>2. list' \in [Clients -> SUBSET Files] /\ cur' \in [Clients -> 0..(NFiles + 1)]
          BY <2>13 DEF LoadForRollback, Tracked
      <3>3. TypeOK'
          BY <2>13, <3>1, <3>2 DEF LoadForRollback, ControlOK
      <3>4. ASSUME NEW d \in Clients PROVE CallOK(d)'
          BY <2>13
             DEF LoadForRollback, CallsOK, CallOK, Pcs, Single, Reads, InTxn, Goto,
                 Finish, Throw, Close, Reply, Listed, Nothing
      <3>5. QED
          BY <3>3, <3>4 DEF CallsOK
    <2>14. ASSUME NEW c \in Clients, RollbackNext(c) PROVE TypeOK' /\ CallsOK'
      <3>1. TypeOK'
          BY <2>14
             DEF RollbackNext, Pcs, Single, Reads, InTxn, Goto, Finish, Throw, Close,
                 Reply, Listed, Nothing
      <3>2. ASSUME NEW d \in Clients PROVE CallOK(d)'
          BY <2>14
             DEF RollbackNext, CallsOK, CallOK, Pcs, Single, Reads, InTxn, Goto, Finish,
                 Throw, Close, Reply, Listed, Nothing
      <3>3. QED
          BY <3>1, <3>2 DEF CallsOK
    <2>15. ASSUME NEW c \in Clients, RollbackComplete(c) PROVE TypeOK' /\ CallsOK'
      <3>1. TypeOK'
          BY <2>15
             DEF RollbackComplete, Pcs, Single, Reads, InTxn, Goto, Finish, Throw,
                 Close, Reply, Listed, Nothing
      <3>2. ASSUME NEW d \in Clients PROVE CallOK(d)'
          BY <2>15
             DEF RollbackComplete, CallsOK, CallOK, Pcs, Single, Reads, InTxn, Goto,
                 Finish, Throw, Close, Reply, Listed, Nothing
      <3>3. QED
          BY <3>1, <3>2 DEF CallsOK
    <2>16. ASSUME NEW c \in Clients, DeleteRow(c) PROVE TypeOK' /\ CallsOK'
      <3>1. ControlOK'
          BY <2>16, <2>0, ReplyTypes DEF DeleteRow, Pcs, Single, Reads, InTxn
      <3>2. hit' \in [Clients -> BOOLEAN]
          BY <2>16 DEF DeleteRow
      <3>3. TypeOK'
          BY <2>16, <3>1, <3>2 DEF DeleteRow, ControlOK
      <3>4. ASSUME NEW d \in Clients PROVE CallOK(d)'
          BY <2>16
             DEF DeleteRow, CallsOK, CallOK, Pcs, Single, Reads, InTxn, Goto, Finish,
                 Throw, Close, Reply, Listed, Nothing
      <3>5. QED
          BY <3>3, <3>4 DEF CallsOK
    <2>17. ASSUME NEW c \in Clients, CommitDown(c) PROVE TypeOK' /\ CallsOK'
      <3>1. ControlOK'
          BY <2>17, <2>0, ReplyTypes DEF CommitDown, Pcs, Single, Reads, InTxn
      <3>2. rows' \in [Files -> Row \cup {NoRow}] /\ effect' \in [Files -> Int]
        <4>1. cur[c] \in Files
            BY <2>17 DEF CommitDown, CallsOK, CallOK
        <4>2. effect[cur[c]] - 1 \in Int
            BY <4>1
        <4>3. QED
            BY <2>17, <4>1, <4>2 DEF CommitDown
      <3>3. TypeOK'
          BY <2>17, <3>1, <3>2 DEF CommitDown, ControlOK
      <3>4. ASSUME NEW d \in Clients PROVE CallOK(d)'
          BY <2>17
             DEF CommitDown, CallsOK, CallOK, Pcs, Single, Reads, InTxn, Goto, Finish,
                 Throw, Close, Reply, Listed, Nothing
      <3>5. QED
          BY <3>3, <3>4 DEF CallsOK
    <2>18. ASSUME NEW c \in Clients, SeedNext(c) PROVE TypeOK' /\ CallsOK'
      <3>1. ControlOK'
          BY <2>18, <2>0, ReplyTypes DEF SeedNext, Pcs, Single, Reads, InTxn
      <3>2. cur' \in [Clients -> 0..(NFiles + 1)] /\ planted' \subseteq Files
          BY <2>18 DEF SeedNext
      <3>3. TypeOK'
          BY <2>18, <3>1, <3>2 DEF SeedNext, ControlOK
      <3>4. ASSUME NEW d \in Clients PROVE CallOK(d)'
        <4>1. UNCHANGED <<call, list, workload>> /\ \E f \in Files : cur' = [cur EXCEPT ![c] = f]
            BY <2>18 DEF SeedNext
        <4>2. \/ Goto(c, "seed") /\ sess' = [sess EXCEPT ![c] = "ready"]
              \/ Goto(c, "return") /\ sess' = [sess EXCEPT ![c] = "closed"]
            BY <2>18 DEF SeedNext, Reply, Throw, Close
        <4>3. c \in workload.crew /\ call[c].op \in workload.ops
            BY <2>18 DEF SeedNext, CallsOK, CallOK
        <4>4. CASE d = c
            BY <4>1, <4>2, <4>3, <4>4 DEF CallsOK, CallOK, Goto, InTxn
        <4>5. CASE d # c
            BY <4>1, <4>2, <4>5 DEF CallsOK, CallOK, Goto
        <4>6. QED
            BY <4>4, <4>5
      <3>5. QED
          BY <3>3, <3>4 DEF CallsOK
    <2>19. ASSUME NEW c \in Clients, SeedComplete(c) PROVE TypeOK' /\ CallsOK'
      <3>1. TypeOK'
          BY <2>19
             DEF SeedComplete, Pcs, Single, Reads, InTxn, Goto, Finish, Throw, Close,
                 Reply, Listed, Nothing
      <3>2. ASSUME NEW d \in Clients PROVE CallOK(d)'
          BY <2>19
             DEF SeedComplete, CallsOK, CallOK, Pcs, Single, Reads, InTxn, Goto, Finish,
                 Throw, Close, Reply, Listed, Nothing
      <3>3. QED
          BY <3>1, <3>2 DEF CallsOK
    <2>20. ASSUME NEW c \in Clients, Call(c) PROVE TypeOK' /\ CallsOK'
      <3>1. TypeOK'
          BY <2>20
             DEF Call, First, Targets, Brought, Pcs, Single, Reads, InTxn, Goto, Finish,
                 Throw, Close, Reply, Listed, Nothing
      <3>2. ASSUME NEW d \in Clients PROVE CallOK(d)'
          BY <2>20
             DEF Call, First, Targets, Brought, CallsOK, CallOK, Pcs, Single, Reads,
                 InTxn, Goto, Finish, Throw, Close, Reply, Listed, Nothing
      <3>3. QED
          BY <3>1, <3>2 DEF CallsOK
    <2>21. ASSUME NEW c \in Clients, Fail(c) PROVE TypeOK' /\ CallsOK'
      <3>1. TypeOK'
          BY <2>21
             DEF Fail, Refused, Pcs, Single, Reads, InTxn, Goto, Finish, Throw, Close,
                 Reply, Listed, Nothing
      <3>2. ASSUME NEW d \in Clients PROVE CallOK(d)'
          BY <2>21
             DEF Fail, Refused, CallsOK, CallOK, Pcs, Single, Reads, InTxn, Goto,
                 Finish, Throw, Close, Reply, Listed, Nothing
      <3>3. QED
          BY <3>1, <3>2 DEF CallsOK
    <2>22. ASSUME NEW c \in Clients, Disconnect(c) PROVE TypeOK' /\ CallsOK'
      <3>1. TypeOK'
          BY <2>22
             DEF Disconnect, Pcs, Single, Reads, InTxn, Goto, Finish, Throw, Close,
                 Reply, Listed, Nothing
      <3>2. ASSUME NEW d \in Clients PROVE CallOK(d)'
          BY <2>22
             DEF Disconnect, CallsOK, CallOK, Pcs, Single, Reads, InTxn, Goto, Finish,
                 Throw, Close, Reply, Listed, Nothing
      <3>3. QED
          BY <3>1, <3>2 DEF CallsOK
    <2>23. ASSUME NEW c \in Clients, FailInTxn(c) PROVE TypeOK' /\ CallsOK'
      <3>1. ControlOK'
          BY <2>23, <2>0, ThrowTypes DEF FailInTxn
      <3>2. TypeOK'
          BY <2>23, <3>1 DEF FailInTxn, ControlOK
      <3>3. ASSUME NEW d \in Clients PROVE CallOK(d)'
          BY <2>23 DEF FailInTxn, CallsOK, CallOK, InTxn, Goto, Throw
      <3>4. QED
          BY <3>2, <3>3 DEF CallsOK
    <2>24. CASE UNCHANGED vars
        BY <2>24 DEF vars, CallsOK, CallOK
    <2>25. QED
        BY <2>1, <2>2, <2>3, <2>4, <2>5, <2>6, <2>7, <2>8, <2>9, <2>10, <2>11, <2>12,
           <2>13, <2>14, <2>15, <2>16, <2>17, <2>18, <2>19, <2>20, <2>21, <2>22, <2>23, <2>24
        DEF Next, Step, Terminated
  <1>3. QED
      BY <1>1, <1>2, PTL DEF Spec

\* A call under way, on a session that is still there.
Live(c) == pc[c] \notin {"idle", "lock", "return"} /\ sess[c] # "closed"

\* Nobody else changes the database during a call of c.
Exclusive(c) == workload.guarded \/ \A d \in workload.crew : d = c

\* The lock is held from the first statement to the last.
GuardOK == \A c \in Clients : Live(c) /\ workload.guarded => lock = c

\* An uncommitted row is its transaction's alone, and new if it was inserted.
HeldOK ==
    /\ \A c \in Clients : pc[c] = "commit" /\ sess[c] = "txn" => cur[c] \notin Tracked
    /\ \A c, d \in Clients : \A f \in Files : Holds(c, f) /\ Holds(d, f) => c = d

\* What a rollback has yet to undo is recorded.
RollbackOK(c) ==
    Live(c) =>
      /\ pc[c] \in {"rbread", "down", "delete", "undo"} =>
             \A f \in list[c] : f < cur[c] => f \in Tracked
      /\ pc[c] \in {"down", "delete", "undo"} => cur[c] \in Tracked
      /\ pc[c] = "undo" => hit[c]

\* What a migrate did not find, and has not yet reached, is not recorded.
MigrateOK(c) ==
    Live(c) /\ Exclusive(c) =>
      /\ pc[c] \in {"read", "sql", "insert", "commit"} =>
             \A f \in Files : f > cur[c] /\ seen[c][f] = Absent => f \notin Tracked
      /\ pc[c] \in {"sql", "insert"} => cur[c] \notin Tracked

\* Who keeps the lock between calls is stuck in a failed transaction.
UsableOK(c) ==
    /\ sess[c] = "closed" => lock # c
    /\ pc[c] = "idle" /\ lock = c => sess[c] = "aborted"

LedgerOK ==
    /\ GuardOK /\ HeldOK
    /\ \A c \in Clients : RollbackOK(c) /\ MigrateOK(c) /\ UsableOK(c)

\* What a step of a may do: to its session and the others' locals,
Frame(a) ==
    /\ workload' = workload
    /\ sess'[a] = "aborted" /\ sess[a] # "aborted" => pc[a] \in {"insert", "delete"}
    /\ \A d \in Clients : d # a =>
          /\ pc'[d] = pc[d] /\ sess'[d] = sess[d] /\ call'[d] = call[d]
          /\ list'[d] = list[d] /\ cur'[d] = cur[d] /\ seen'[d] = seen[d]
          /\ hit'[d] = hit[d]

\* to the lock,
LockStep(a) ==
    \/ lock' = lock
    \/ lock = a /\ lock' = NoOne
    \/ lock = NoOne /\ lock' = a

\* to the committed rows,
RowStep(a) ==
    \/ Tracked' = Tracked
    \/ \E f \in Files :
         /\ Tracked' = Tracked \cup {f} /\ Live(a)
         /\ RowFree(f) \/ (Holds(a, f) /\ pc[a] = "commit")
    \/ /\ Tracked' = Tracked \ {cur[a]} /\ Live(a)
       /\ pc[a] = "undo" /\ call[a].op = "rollback"

\* to its own uncommitted row,
HoldStep(a) ==
    \A f \in Files : Holds(a, f)' => Holds(a, f) \/ \A d \in Clients : ~Holds(d, f)

\* and what it owes about its own locals.
OwnOK(a) ==
    /\ Live(a) /\ workload.guarded => lock = a
    /\ pc[a] = "commit" /\ sess[a] = "txn" => cur[a] \notin Tracked
    /\ RollbackOK(a) /\ MigrateOK(a) /\ UsableOK(a)

LEMMA LiveAlone ==
    ASSUME GuardOK, CallsOK, NEW c \in Clients, NEW d \in Clients, Live(c), Live(d), Exclusive(c)
    PROVE  c = d
  BY DEF GuardOK, Live, Exclusive, CallsOK, CallOK

\* In steps that change no row, the rows are what they were.
LEMMA SameRows == ASSUME UNCHANGED rows PROVE Tracked' = Tracked
  BY DEF Tracked

LEMMA StepEffect ==
    ASSUME TypeOK, CallsOK, LedgerOK, NEW a \in Clients,
           Act(a)
    PROVE  Frame(a) /\ LockStep(a) /\ RowStep(a) /\ HoldStep(a)
  <1> USE MigrationLibraryAssumption
     DEF TypeOK, Goto, Finish, Throw, Close, Reply, At, dbVars, loopVars, callVars
  <1>1. ASSUME AcquireLock(a) PROVE Frame(a) /\ LockStep(a) /\ RowStep(a) /\ HoldStep(a)
    <2>1. Frame(a) /\ LockStep(a)
        BY <1>1 DEF AcquireLock, First, Frame, LockStep
    <2>2. RowStep(a)
        BY <1>1, SameRows DEF AcquireLock, RowStep
    <2>3. HoldStep(a)
        BY <1>1 DEF AcquireLock, First, Holds, HoldStep
    <2>4. QED
        BY <2>1, <2>2, <2>3
  <1>2. ASSUME Return(a) PROVE Frame(a) /\ LockStep(a) /\ RowStep(a) /\ HoldStep(a)
    <2>1. Frame(a) /\ LockStep(a)
        BY <1>2 DEF Return, Frame, LockStep
    <2>2. RowStep(a)
        BY <1>2, SameRows DEF Return, RowStep
    <2>3. HoldStep(a)
        BY <1>2 DEF Return, Holds, HoldStep
    <2>4. QED
        BY <2>1, <2>2, <2>3
  <1>3. ASSUME LocalTracking(a) PROVE Frame(a) /\ LockStep(a) /\ RowStep(a) /\ HoldStep(a)
    <2>1. Frame(a) /\ LockStep(a)
        BY <1>3 DEF LocalTracking, Frame, LockStep
    <2>2. RowStep(a)
        BY <1>3, SameRows DEF LocalTracking, RowStep
    <2>3. HoldStep(a)
        BY <1>3 DEF LocalTracking, Holds, HoldStep
    <2>4. QED
        BY <2>1, <2>2, <2>3
  <1>4. ASSUME ListFiles(a) PROVE Frame(a) /\ LockStep(a) /\ RowStep(a) /\ HoldStep(a)
    <2>1. Frame(a) /\ LockStep(a)
        BY <1>4 DEF ListFiles, Frame, LockStep
    <2>2. RowStep(a)
        BY <1>4, SameRows DEF ListFiles, RowStep
    <2>3. HoldStep(a)
        BY <1>4 DEF ListFiles, Holds, HoldStep
    <2>4. QED
        BY <2>1, <2>2, <2>3
  <1>5. ASSUME LoadApplied(a) PROVE Frame(a) /\ LockStep(a) /\ RowStep(a) /\ HoldStep(a)
    <2>1. Frame(a) /\ LockStep(a)
        BY <1>5 DEF LoadApplied, Frame, LockStep
    <2>2. RowStep(a)
        BY <1>5, SameRows DEF LoadApplied, RowStep
    <2>3. HoldStep(a)
        BY <1>5 DEF LoadApplied, Holds, HoldStep
    <2>4. QED
        BY <2>1, <2>2, <2>3
  <1>6. ASSUME ReadNext(a) PROVE Frame(a) /\ LockStep(a) /\ RowStep(a) /\ HoldStep(a)
    <2>1. Frame(a) /\ LockStep(a)
        BY <1>6 DEF ReadNext, Frame, LockStep
    <2>2. RowStep(a)
        BY <1>6, SameRows DEF ReadNext, RowStep
    <2>3. HoldStep(a)
        BY <1>6 DEF ReadNext, Holds, HoldStep
    <2>4. QED
        BY <2>1, <2>2, <2>3
  <1>7. ASSUME MigrateComplete(a) PROVE Frame(a) /\ LockStep(a) /\ RowStep(a) /\ HoldStep(a)
    <2>1. Frame(a) /\ LockStep(a)
        BY <1>7 DEF MigrateComplete, Frame, LockStep
    <2>2. RowStep(a)
        BY <1>7, SameRows DEF MigrateComplete, RowStep
    <2>3. HoldStep(a)
        BY <1>7 DEF MigrateComplete, Holds, HoldStep
    <2>4. QED
        BY <2>1, <2>2, <2>3
  <1>8. ASSUME ExecuteSql(a) PROVE Frame(a) /\ LockStep(a) /\ RowStep(a) /\ HoldStep(a)
    <2>1. Frame(a) /\ LockStep(a)
        BY <1>8 DEF ExecuteSql, RunSql, Frame, LockStep
    <2>2. RowStep(a)
        BY <1>8, SameRows DEF ExecuteSql, RowStep
    <2>3. HoldStep(a)
        BY <1>8 DEF ExecuteSql, RunSql, Holds, HoldStep
    <2>4. QED
        BY <2>1, <2>2, <2>3
  <1>9. ASSUME InsertRow(a) PROVE Frame(a) /\ LockStep(a) /\ RowStep(a) /\ HoldStep(a)
    <2>1. Frame(a) /\ LockStep(a)
        BY <1>9 DEF InsertRow, Frame, LockStep
    <2>2. RowStep(a)
        BY <1>9, SameRows DEF InsertRow, RowStep
    <2>3. HoldStep(a)
        BY <1>9 DEF InsertRow, Holds, HoldStep, RowFree
    <2>4. QED
        BY <2>1, <2>2, <2>3
  <1>10. ASSUME CommitFile(a) PROVE Frame(a) /\ LockStep(a) /\ RowStep(a) /\ HoldStep(a)
    <2>1. Frame(a) /\ LockStep(a)
        BY <1>10 DEF CommitFile, Frame, LockStep
    <2>2. RowStep(a)
      <3>1. cur[a] \in Files /\ call[a].store[cur[a]] \in Contents
          BY <1>10 DEF CommitFile, CallsOK, CallOK
      <3>2. [sum |-> call[a].store[cur[a]], noop |-> FALSE] # NoRow
        <4>1. [sum |-> call[a].store[cur[a]], noop |-> FALSE] \in Row
            BY <3>1 DEF Row
        <4>2. QED
            BY <4>1
      <3>3. Tracked' = Tracked \cup {cur[a]}
          BY <1>10, <3>1, <3>2 DEF CommitFile, Tracked
      <3>4. QED
          BY <1>10, <3>1, <3>3 DEF CommitFile, RowStep, Live, Holds
    <2>3. HoldStep(a)
        BY <1>10 DEF CommitFile, Holds, HoldStep
    <2>4. QED
        BY <2>1, <2>2, <2>3
  <1>11. ASSUME NoopQuery(a) PROVE Frame(a) /\ LockStep(a) /\ RowStep(a) /\ HoldStep(a)
    <2>1. Frame(a) /\ LockStep(a)
        BY <1>11 DEF NoopQuery, Frame, LockStep
    <2>2. RowStep(a)
        BY <1>11, SameRows DEF NoopQuery, RowStep
    <2>3. HoldStep(a)
        BY <1>11 DEF NoopQuery, Holds, HoldStep
    <2>4. QED
        BY <2>1, <2>2, <2>3
  <1>12. ASSUME NoopInsert(a) PROVE Frame(a) /\ LockStep(a) /\ RowStep(a) /\ HoldStep(a)
    <2>1. Frame(a) /\ LockStep(a)
        BY <1>12 DEF NoopInsert, Frame, LockStep
    <2>2. RowStep(a)
      <3> DEFINE f == call[a].target
      <3>1. f \in Files /\ call[a].store[f] \in Contents
          BY <1>12, StoreHolds DEF NoopInsert, CallsOK, CallOK
      <3>2. [sum |-> call[a].store[f], noop |-> TRUE] # NoRow
        <4>1. [sum |-> call[a].store[f], noop |-> TRUE] \in Row
            BY <3>1 DEF Row
        <4>2. QED
            BY <4>1
      <3>3. Tracked' = Tracked \cup {f}
          BY <1>12, <3>1, <3>2 DEF NoopInsert, Tracked
      <3>4. QED
          BY <1>12, <3>1, <3>3 DEF NoopInsert, RowStep, Live
    <2>3. HoldStep(a)
        BY <1>12 DEF NoopInsert, Holds, HoldStep
    <2>4. QED
        BY <2>1, <2>2, <2>3
  <1>13. ASSUME LoadForRollback(a) PROVE Frame(a) /\ LockStep(a) /\ RowStep(a) /\ HoldStep(a)
    <2>1. Frame(a) /\ LockStep(a)
        BY <1>13 DEF LoadForRollback, Frame, LockStep
    <2>2. RowStep(a)
        BY <1>13, SameRows DEF LoadForRollback, RowStep
    <2>3. HoldStep(a)
        BY <1>13 DEF LoadForRollback, Holds, HoldStep
    <2>4. QED
        BY <2>1, <2>2, <2>3
  <1>14. ASSUME RollbackNext(a) PROVE Frame(a) /\ LockStep(a) /\ RowStep(a) /\ HoldStep(a)
    <2>1. Frame(a) /\ LockStep(a)
        BY <1>14 DEF RollbackNext, Frame, LockStep
    <2>2. RowStep(a)
        BY <1>14, SameRows DEF RollbackNext, RowStep
    <2>3. HoldStep(a)
        BY <1>14 DEF RollbackNext, Holds, HoldStep
    <2>4. QED
        BY <2>1, <2>2, <2>3
  <1>15. ASSUME RollbackComplete(a) PROVE Frame(a) /\ LockStep(a) /\ RowStep(a) /\ HoldStep(a)
    <2>1. Frame(a) /\ LockStep(a)
        BY <1>15 DEF RollbackComplete, Frame, LockStep
    <2>2. RowStep(a)
        BY <1>15, SameRows DEF RollbackComplete, RowStep
    <2>3. HoldStep(a)
        BY <1>15 DEF RollbackComplete, Holds, HoldStep
    <2>4. QED
        BY <2>1, <2>2, <2>3
  <1>16. ASSUME DeleteRow(a) PROVE Frame(a) /\ LockStep(a) /\ RowStep(a) /\ HoldStep(a)
    <2>1. Frame(a) /\ LockStep(a)
        BY <1>16 DEF DeleteRow, Frame, LockStep
    <2>2. RowStep(a)
        BY <1>16, SameRows DEF DeleteRow, RowStep
    <2>3. HoldStep(a)
        BY <1>16 DEF DeleteRow, Holds, HoldStep, RowFree
    <2>4. QED
        BY <2>1, <2>2, <2>3
  <1>17. ASSUME CommitDown(a) PROVE Frame(a) /\ LockStep(a) /\ RowStep(a) /\ HoldStep(a)
    <2>1. Frame(a) /\ LockStep(a)
        BY <1>17 DEF CommitDown, Frame, LockStep
    <2>2. RowStep(a)
      <3>1. cur[a] \in Files /\ call[a].op = "rollback"
          BY <1>17 DEF CommitDown, CallsOK, CallOK
      <3>2. Tracked' = Tracked \/ Tracked' = Tracked \ {cur[a]}
          BY <1>17, <3>1 DEF CommitDown, Tracked
      <3>3. QED
          BY <1>17, <3>1, <3>2 DEF CommitDown, RowStep, Live
    <2>3. HoldStep(a)
        BY <1>17 DEF CommitDown, Holds, HoldStep
    <2>4. QED
        BY <2>1, <2>2, <2>3
  <1>18. ASSUME SeedNext(a) PROVE Frame(a) /\ LockStep(a) /\ RowStep(a) /\ HoldStep(a)
    <2>1. Frame(a) /\ LockStep(a)
        BY <1>18 DEF SeedNext, Frame, LockStep
    <2>2. RowStep(a)
        BY <1>18, SameRows DEF SeedNext, RowStep
    <2>3. HoldStep(a)
        BY <1>18 DEF SeedNext, Holds, HoldStep
    <2>4. QED
        BY <2>1, <2>2, <2>3
  <1>19. ASSUME SeedComplete(a) PROVE Frame(a) /\ LockStep(a) /\ RowStep(a) /\ HoldStep(a)
    <2>1. Frame(a) /\ LockStep(a)
        BY <1>19 DEF SeedComplete, Frame, LockStep
    <2>2. RowStep(a)
        BY <1>19, SameRows DEF SeedComplete, RowStep
    <2>3. HoldStep(a)
        BY <1>19 DEF SeedComplete, Holds, HoldStep
    <2>4. QED
        BY <2>1, <2>2, <2>3
  <1>20. ASSUME Call(a) PROVE Frame(a) /\ LockStep(a) /\ RowStep(a) /\ HoldStep(a)
    <2>1. Frame(a) /\ LockStep(a)
        BY <1>20 DEF Call, First, Frame, LockStep
    <2>2. RowStep(a)
        BY <1>20, SameRows DEF Call, RowStep
    <2>3. HoldStep(a)
        BY <1>20 DEF Call, First, Holds, HoldStep
    <2>4. QED
        BY <2>1, <2>2, <2>3
  <1>21. ASSUME Fail(a) PROVE Frame(a) /\ LockStep(a) /\ RowStep(a) /\ HoldStep(a)
    <2>1. Frame(a) /\ LockStep(a)
        BY <1>21 DEF Fail, Frame, LockStep
    <2>2. RowStep(a)
        BY <1>21, SameRows DEF Fail, RowStep
    <2>3. HoldStep(a)
        BY <1>21 DEF Fail, Holds, HoldStep
    <2>4. QED
        BY <2>1, <2>2, <2>3
  <1>22. ASSUME Disconnect(a) PROVE Frame(a) /\ LockStep(a) /\ RowStep(a) /\ HoldStep(a)
    <2>1. Frame(a) /\ LockStep(a)
        BY <1>22 DEF Disconnect, Frame, LockStep
    <2>2. RowStep(a)
        BY <1>22, SameRows DEF Disconnect, RowStep
    <2>3. HoldStep(a)
        BY <1>22 DEF Disconnect, Holds, HoldStep
    <2>4. QED
        BY <2>1, <2>2, <2>3
  <1>23. ASSUME FailInTxn(a) PROVE Frame(a) /\ LockStep(a) /\ RowStep(a) /\ HoldStep(a)
    <2>1. Frame(a) /\ LockStep(a)
        BY <1>23 DEF FailInTxn, Frame, LockStep, InTxn
    <2>2. RowStep(a)
        BY <1>23, SameRows DEF FailInTxn, RowStep
    <2>3. HoldStep(a)
        BY <1>23 DEF FailInTxn, Holds, HoldStep
    <2>4. QED
        BY <2>1, <2>2, <2>3
  <1>24. QED
      BY <1>1, <1>2, <1>3, <1>4, <1>5, <1>6, <1>7, <1>8, <1>9, <1>10, <1>11, <1>12, <1>13,
         <1>14, <1>15, <1>16, <1>17, <1>18, <1>19, <1>20, <1>21, <1>22, <1>23
         DEF Act, Step

LEMMA StepOwes ==
    ASSUME TypeOK, CallsOK, LedgerOK, NEW a \in Clients,
           Act(a)
    PROVE  OwnOK(a)'
  <1>0. OwnOK(a) /\ CallOK(a)
      BY DEF LedgerOK, HeldOK, GuardOK, OwnOK, CallsOK
  <1> USE MigrationLibraryAssumption
     DEF TypeOK, Goto, Finish, Throw, Close, Reply, At, dbVars, loopVars, callVars
  <1>1. ASSUME AcquireLock(a) PROVE OwnOK(a)'
      BY <1>0, <1>1, SameRows
         DEF AcquireLock, First, OwnOK, Live, Exclusive, RollbackOK, MigrateOK, UsableOK
  <1>2. ASSUME Return(a) PROVE OwnOK(a)'
    <2>1. sess[a] \in {"ready", "aborted", "closed"} /\ sess' = sess
        BY <1>0, <1>2 DEF Return, CallOK, InTxn
    <2>2. UsableOK(a)'
        BY <1>0, <1>2, <2>1 DEF Return, OwnOK, UsableOK
    <2>3. QED
        BY <1>0, <1>2, <2>2, SameRows
           DEF Return, OwnOK, Live, Exclusive, RollbackOK, MigrateOK
  <1>3. ASSUME LocalTracking(a) PROVE OwnOK(a)'
      BY <1>0, <1>3, SameRows
         DEF LocalTracking, OwnOK, Live, Exclusive, RollbackOK, MigrateOK, UsableOK
  <1>4. ASSUME ListFiles(a) PROVE OwnOK(a)'
      BY <1>0, <1>4, SameRows
         DEF ListFiles, OwnOK, Live, Exclusive, RollbackOK, MigrateOK, UsableOK
  <1>5. ASSUME LoadApplied(a) PROVE OwnOK(a)'
    <2>1. \A f \in Files : seen'[a][f] = Absent => f \notin Tracked
        BY <1>5 DEF LoadApplied, Tracked, Row
    <2>2. QED
        BY <1>0, <1>5, <2>1, SameRows
           DEF LoadApplied, OwnOK, Live, Exclusive, RollbackOK, MigrateOK, UsableOK
  <1>6. ASSUME ReadNext(a) PROVE OwnOK(a)'
    <2>1. PICK f \in Files :
             /\ IsLeast(f, NextUp(a))
             /\ cur' = [cur EXCEPT ![a] = f]
             /\ Goto(a, IF seen[a][f] = Absent THEN "sql" ELSE "read")
        BY <1>6 DEF ReadNext
    <2>2. f > cur[a] /\ cur'[a] = f
        BY <2>1 DEF IsLeast, NextUp
    <2>3. pc'[a] = "read" \/ (pc'[a] = "sql" /\ seen[a][f] = Absent)
        BY <2>1
    <2>4. Tracked' = Tracked
        BY <1>6, SameRows DEF ReadNext
    <2>5. \A g \in Files : g > f => g > cur[a]
        BY <2>2 DEF Files
    <2>6. /\ pc[a] = "read" /\ UNCHANGED <<workload, lock, call>> /\ sess' = sess
          /\ seen' = seen
        BY <1>6 DEF ReadNext
    <2>7. MigrateOK(a)'
        BY <1>0, <2>2, <2>3, <2>4, <2>5, <2>6 DEF OwnOK, Live, Exclusive, MigrateOK
    <2>8. QED
        BY <1>0, <2>3, <2>6, <2>7
           DEF OwnOK, Live, Exclusive, RollbackOK, MigrateOK, UsableOK
  <1>7. ASSUME MigrateComplete(a) PROVE OwnOK(a)'
      BY <1>0, <1>7, SameRows
         DEF MigrateComplete, OwnOK, Live, Exclusive, RollbackOK, MigrateOK, UsableOK
  <1>8. ASSUME ExecuteSql(a) PROVE OwnOK(a)'
      BY <1>0, <1>8, SameRows
         DEF ExecuteSql, RunSql, OwnOK, Live, Exclusive, RollbackOK, MigrateOK, UsableOK
  <1>9. ASSUME InsertRow(a) PROVE OwnOK(a)'
    <2>1. cur[a] \in Files /\ a \in workload.crew /\ Tracked' = Tracked
        BY <1>0, <1>9, SameRows DEF InsertRow, CallOK
    <2>2. CASE rows[cur[a]] = NoRow /\ Reply(a, "commit", "txn")
        BY <1>0, <1>9, <2>1, <2>2
           DEF InsertRow, Tracked, OwnOK, Live, Exclusive, RollbackOK, MigrateOK,
               UsableOK
    <2>3. CASE /\ rows[cur[a]] # NoRow
               /\ Throw(a) /\ sess' = [sess EXCEPT ![a] = "aborted"]
               /\ UNCHANGED lock
      <3>1. ~Exclusive(a)
          BY <1>0, <1>9, <2>1, <2>3 DEF InsertRow, Tracked, OwnOK, Live, MigrateOK
      <3>2. QED
          BY <1>0, <1>9, <2>1, <2>3, <3>1
             DEF InsertRow, OwnOK, Live, Exclusive, RollbackOK, MigrateOK, UsableOK
    <2>4. QED
        BY <1>9, <2>2, <2>3 DEF InsertRow
  <1>10. ASSUME CommitFile(a) PROVE OwnOK(a)'
    <2>1. Tracked' \subseteq Tracked \cup {cur[a]} /\ cur[a] \in Files
        BY <1>0, <1>10 DEF CommitFile, Tracked, CallOK
    <2>2. QED
        BY <1>0, <1>10, <2>1
           DEF CommitFile, OwnOK, Live, Exclusive, RollbackOK, MigrateOK, UsableOK
  <1>11. ASSUME NoopQuery(a) PROVE OwnOK(a)'
      BY <1>0, <1>11, SameRows
         DEF NoopQuery, OwnOK, Live, Exclusive, RollbackOK, MigrateOK, UsableOK
  <1>12. ASSUME NoopInsert(a) PROVE OwnOK(a)'
      BY <1>0, <1>12 DEF NoopInsert, OwnOK, Live, Exclusive, RollbackOK, MigrateOK, UsableOK
  <1>13. ASSUME LoadForRollback(a) PROVE OwnOK(a)'
    <2>1. list'[a] = Tracked /\ Tracked' = Tracked
        BY <1>13, SameRows DEF LoadForRollback
    <2>2. QED
        BY <1>0, <1>13, <2>1
           DEF LoadForRollback, OwnOK, Live, Exclusive, RollbackOK, MigrateOK, UsableOK
  <1>14. ASSUME RollbackNext(a) PROVE OwnOK(a)'
    <2>1. PICK f \in RollbackFiles :
             IsGreatest(f, NextDown(a)) /\ cur' = [cur EXCEPT ![a] = f]
        BY <1>14 DEF RollbackNext
    <2>2. f \in list[a] /\ f < cur[a] /\ cur'[a] = f /\ f \in Files
        BY <2>1 DEF IsGreatest, NextDown
    <2>3. \A g \in list[a] : g \in Nat
        BY DEF Files
    <2>4. \A g \in list[a] : g < f => g < cur[a]
        BY <2>2, <2>3 DEF Files
    <2>5. Tracked' = Tracked
        BY <1>14, SameRows DEF RollbackNext
    <2>6. /\ pc[a] = "rbread" /\ pc'[a] = "down" /\ UNCHANGED <<workload, lock>>
          /\ sess' = sess /\ list' = list
        BY <1>14 DEF RollbackNext
    <2>7. RollbackOK(a)'
        BY <1>0, <2>2, <2>4, <2>5, <2>6 DEF OwnOK, Live, RollbackOK
    <2>8. QED
        BY <1>0, <2>6, <2>7 DEF OwnOK, Live, Exclusive, MigrateOK, UsableOK
  <1>15. ASSUME RollbackComplete(a) PROVE OwnOK(a)'
      BY <1>0, <1>15, SameRows
         DEF RollbackComplete, OwnOK, Live, Exclusive, RollbackOK, MigrateOK, UsableOK
  <1>16. ASSUME DeleteRow(a) PROVE OwnOK(a)'
    <2>1. cur[a] \in Tracked /\ Tracked' = Tracked
        BY <1>0, <1>16, SameRows DEF DeleteRow, OwnOK, Live, RollbackOK
    <2>2. hit'[a]
        BY <1>16, <2>1 DEF DeleteRow
    <2>3. /\ pc[a] = "delete" /\ sess[a] = "txn"
          /\ UNCHANGED <<workload, cur, list>>
        BY <1>16 DEF DeleteRow
    <2>4. \/ pc'[a] = "undo" /\ sess'[a] = "txn" /\ lock' = lock
          \/ pc'[a] = "return" /\ sess'[a] = "closed" /\ lock' # a
        BY <1>16 DEF DeleteRow
    <2>5. QED
        BY <1>0, <2>1, <2>2, <2>3, <2>4
           DEF OwnOK, Live, Exclusive, RollbackOK, MigrateOK, UsableOK
  <1>17. ASSUME CommitDown(a) PROVE OwnOK(a)'
    <2>1. \A f \in Tracked : f # cur[a] => f \in Tracked'
        BY <1>17 DEF CommitDown, Tracked
    <2>2. \A g \in list[a] : g < cur[a] => g # cur[a]
        BY <1>0, <1>17 DEF CommitDown, CallOK, Files
    <2>3. QED
        BY <1>0, <1>17, <2>1, <2>2
           DEF CommitDown, OwnOK, Live, Exclusive, RollbackOK, MigrateOK, UsableOK
  <1>18. ASSUME SeedNext(a) PROVE OwnOK(a)'
      BY <1>0, <1>18, SameRows
         DEF SeedNext, OwnOK, Live, Exclusive, RollbackOK, MigrateOK, UsableOK
  <1>19. ASSUME SeedComplete(a) PROVE OwnOK(a)'
      BY <1>0, <1>19, SameRows
         DEF SeedComplete, OwnOK, Live, Exclusive, RollbackOK, MigrateOK, UsableOK
  <1>20. ASSUME Call(a) PROVE OwnOK(a)'
      BY <1>0, <1>20, SameRows
         DEF Call, First, OwnOK, Live, Exclusive, RollbackOK, MigrateOK, UsableOK
  <1>21. ASSUME Fail(a) PROVE OwnOK(a)'
      BY <1>0, <1>21, SameRows
         DEF Fail, OwnOK, Live, Exclusive, RollbackOK, MigrateOK, UsableOK
  <1>22. ASSUME Disconnect(a) PROVE OwnOK(a)'
      BY <1>0, <1>22, SameRows
         DEF Disconnect, OwnOK, Live, Exclusive, RollbackOK, MigrateOK, UsableOK
  <1>23. ASSUME FailInTxn(a) PROVE OwnOK(a)'
      BY <1>0, <1>23, SameRows
         DEF FailInTxn, OwnOK, Live, Exclusive, RollbackOK, MigrateOK, UsableOK
  <1>24. QED
      BY <1>1, <1>2, <1>3, <1>4, <1>5, <1>6, <1>7, <1>8, <1>9, <1>10, <1>11, <1>12, <1>13,
         <1>14, <1>15, <1>16, <1>17, <1>18, <1>19, <1>20, <1>21, <1>22, <1>23
         DEF Act, Step

LEMMA OthersKeep ==
    ASSUME TypeOK, CallsOK, LedgerOK, NEW a \in Clients, NEW d \in Clients, d # a,
           Frame(a), LockStep(a), RowStep(a), HoldStep(a)
    PROVE  OwnOK(d)'
  <1>0. OwnOK(d) /\ CallOK(d)
      BY DEF LedgerOK, HeldOK, GuardOK, OwnOK, CallsOK
  <1>1. (Live(d) <=> Live(d)') /\ (Exclusive(d) <=> Exclusive(d)')
      BY DEF Frame, Live, Exclusive
  <1>2. (Live(d) /\ workload.guarded => lock = d)'
      BY <1>0, <1>1, MigrationLibraryAssumption DEF OwnOK, Frame, LockStep
  <1>3. (pc[d] = "commit" /\ sess[d] = "txn" => cur[d] \notin Tracked)'
    <2> SUFFICES ASSUME pc[d] = "commit", sess[d] = "txn", cur[d] \in Tracked' PROVE FALSE
        BY DEF Frame
    <2>1. cur[d] \in Files /\ cur[d] \notin Tracked /\ Holds(d, cur[d])
        BY <1>0 DEF OwnOK, CallOK, Holds
    <2>2. PICK f \in Files :
             /\ Tracked' = Tracked \cup {f}
             /\ RowFree(f) \/ (Holds(a, f) /\ pc[a] = "commit")
        BY <2>1 DEF RowStep
    <2>3. Holds(d, f)
        BY <2>1, <2>2
    <2>4. QED
        BY <2>2, <2>3 DEF RowFree, LedgerOK, HeldOK
  <1>4. RollbackOK(d)'
    <2> SUFFICES ASSUME Live(d), pc[d] \in {"rbread", "down", "delete", "undo"}
                 PROVE  Tracked \subseteq Tracked'
        BY <1>0, <1>1 DEF OwnOK, RollbackOK, Frame
    <2>1. Exclusive(d)
        BY <1>0, MigrationLibraryAssumption DEF CallOK, Exclusive, TypeOK
    <2>2. ~Live(a)
        BY <2>1, LiveAlone DEF LedgerOK
    <2>3. QED
        BY <2>2 DEF RowStep
  <1>5. MigrateOK(d)'
    <2> SUFFICES ASSUME Live(d), Exclusive(d) PROVE Tracked' = Tracked
        BY <1>0, <1>1 DEF OwnOK, MigrateOK, Frame
    <2>1. ~Live(a)
        BY LiveAlone DEF LedgerOK
    <2>2. QED
        BY <2>1 DEF RowStep
  <1>6. UsableOK(d)'
      BY <1>0, MigrationLibraryAssumption DEF OwnOK, UsableOK, Frame, LockStep
  <1>7. QED
      BY <1>2, <1>3, <1>4, <1>5, <1>6 DEF OwnOK

LEMMA LedgerIsKept == Spec => []LedgerOK
  <1>1. Init => LedgerOK
    <2> SUFFICES ASSUME Init PROVE LedgerOK
        OBVIOUS
    <2>1. \A c \in Clients : pc[c] = "idle" /\ sess[c] = "ready" /\ lock # c
        BY MigrationLibraryAssumption DEF Init
    <2>2. QED
        BY <2>1 DEF LedgerOK, GuardOK, HeldOK, Holds, RollbackOK, MigrateOK, UsableOK, Live
  <1>2. TypeOK /\ CallsOK /\ LedgerOK /\ [Next]_vars => LedgerOK'
    <2> SUFFICES ASSUME TypeOK, CallsOK, LedgerOK, [Next]_vars PROVE LedgerOK'
        OBVIOUS
    <2>1. CASE UNCHANGED vars
        BY <2>1 DEF vars, LedgerOK, GuardOK, HeldOK, Holds, RollbackOK, MigrateOK, UsableOK,
                    Live, Exclusive, Tracked
    <2>2. ASSUME NEW a \in Clients, Act(a)
          PROVE  LedgerOK'
      <3>1. Frame(a) /\ LockStep(a) /\ RowStep(a) /\ HoldStep(a) /\ OwnOK(a)'
          BY <2>2, StepEffect, StepOwes
      <3>2. ASSUME NEW d \in Clients PROVE OwnOK(d)'
          BY <3>1, OthersKeep
      <3>3. ASSUME NEW c \in Clients, NEW d \in Clients, NEW f \in Files,
                   Holds(c, f)', Holds(d, f)'
            PROVE  c = d
        <4>1. \A e \in Clients : e # a => (Holds(e, f)' <=> Holds(e, f))
            BY <3>1 DEF Frame, Holds
        <4>2. Holds(a, f)' => Holds(a, f) \/ \A e \in Clients : ~Holds(e, f)
            BY <3>1 DEF HoldStep
        <4>3. QED
            BY <3>3, <4>1, <4>2 DEF LedgerOK, HeldOK
      <3>4. QED
          BY <3>2, <3>3 DEF LedgerOK, GuardOK, HeldOK, OwnOK
    <2>3. QED
        BY <2>1, <2>2 DEF Act, Next, Terminated
  <1>3. QED
      BY <1>1, <1>2, LibraryTypes, PTL DEF Spec

(***************************************************************************)
(* What a call that is going to return Ok has done so far.  It stays done: *)
(* nobody overwrites a row, and nobody deletes one beside a call that      *)
(* somebody else's rollback could disturb.                                 *)
(***************************************************************************)
ReturnsOk(c) == pc[c] = "return" /\ result[c] = "ok"
Active(c) == (Live(c) \/ ReturnsOk(c)) /\ sess[c] # "closed"

\* Which operation makes a call, and that its loop starts before the first file.
Planned(c) ==
    /\ pc[c] \in {"list", "load", "read", "sql", "insert", "commit"} => call[c].op = "migrate"
    /\ pc[c] \in {"load", "read", "sql", "insert", "commit"} =>
           Listed(call[c].store) \subseteq list[c]
    /\ pc[c] = "seed" => call[c].op = "seed"
    /\ call[c].op = "seed" => list[c] = SeedFiles
    /\ pc[c] \in {"idle", "lock", "track", "list", "load"} => cur[c] = 0

Done(c, f) == f \in Tracked /\ rows[f].sum = call[c].store[f]

\* migrate: what the loop has passed is recorded with this store's checksum,
\* and what the table said before the loop it still says.
MigrateDone(c) ==
    /\ pc[c] \in {"read", "sql", "insert", "commit"} =>
           /\ \A f \in list[c] : f < cur[c] \/ (f = cur[c] /\ pc[c] = "read") => Done(c, f)
           /\ \A f \in Files : seen[c][f] # Absent =>
                  f \in Tracked /\ rows[f].sum = seen[c][f]
    /\ ReturnsOk(c) /\ call[c].op = "migrate" =>
           \A f \in Listed(call[c].store) : Done(c, f)

NoopDone(c) == ReturnsOk(c) /\ call[c].op = "noop" => call[c].target \in Tracked

\* rollback: the rows after the target are all ahead of the loop.
RollbackDone(c) ==
    /\ pc[c] = "rbread" =>
           \A f \in Tracked : f > call[c].target => f \in list[c] /\ f < cur[c]
    /\ pc[c] \in {"down", "delete", "undo"} =>
           \A f \in Tracked : f > call[c].target => f \in list[c] /\ f <= cur[c]
    /\ ReturnsOk(c) /\ call[c].op = "rollback" => \A f \in Tracked : f <= call[c].target

SeedDone(c) ==
    /\ pc[c] = "seed" => \A f \in list[c] : f <= cur[c] => f \in planted
    /\ ReturnsOk(c) /\ call[c].op = "seed" => SeedFiles \subseteq planted

DoneOK(c) ==
    Active(c) =>
      /\ workload.guarded => lock = c
      /\ MigrateDone(c) /\ NoopDone(c) /\ RollbackDone(c) /\ SeedDone(c)

AllDone == \A c \in Clients : Planned(c) /\ DoneOK(c)

\* What a step of a leaves behind of what was done before it.
Keeps(a) ==
    /\ planted \subseteq planted'
    /\ \A f \in Tracked : f \in Tracked' => rows'[f] = rows[f]
    /\ \A d \in Clients : d # a => result'[d] = result[d]

LEMMA StepKeeps ==
    ASSUME TypeOK, CallsOK, LedgerOK, NEW a \in Clients,
           Act(a)
    PROVE  Keeps(a)
  <1> USE DEF TypeOK, Goto, Finish, Throw, Close, Reply, At, dbVars, loopVars, callVars, Keeps
  <1>1. ASSUME AcquireLock(a) PROVE Keeps(a)
      BY <1>1, SameRows DEF AcquireLock, First
  <1>2. ASSUME Return(a) PROVE Keeps(a)
      BY <1>2, SameRows DEF Return, NoCall
  <1>3. ASSUME LocalTracking(a) PROVE Keeps(a)
      BY <1>3, SameRows DEF LocalTracking
  <1>4. ASSUME ListFiles(a) PROVE Keeps(a)
      BY <1>4, SameRows DEF ListFiles
  <1>5. ASSUME LoadApplied(a) PROVE Keeps(a)
      BY <1>5, SameRows DEF LoadApplied
  <1>6. ASSUME ReadNext(a) PROVE Keeps(a)
      BY <1>6, SameRows DEF ReadNext
  <1>7. ASSUME MigrateComplete(a) PROVE Keeps(a)
      BY <1>7, SameRows DEF MigrateComplete
  <1>8. ASSUME ExecuteSql(a) PROVE Keeps(a)
      BY <1>8, SameRows DEF ExecuteSql, RunSql
  <1>9. ASSUME InsertRow(a) PROVE Keeps(a)
      BY <1>9, SameRows DEF InsertRow
  <1>10. ASSUME CommitFile(a) PROVE Keeps(a)
    <2>1. cur[a] \notin Tracked /\ rows' = [rows EXCEPT
              ![cur[a]] = [sum |-> call[a].store[cur[a]], noop |-> FALSE]]
        BY <1>10 DEF CommitFile, LedgerOK, HeldOK
    <2>2. \A f \in Tracked : rows'[f] = rows[f]
        BY <2>1 DEF Tracked
    <2>3. QED
        BY <1>10, <2>2 DEF CommitFile
  <1>11. ASSUME NoopQuery(a) PROVE Keeps(a)
      BY <1>11, SameRows DEF NoopQuery
  <1>12. ASSUME NoopInsert(a) PROVE Keeps(a)
    <2>1. \A f \in Tracked : rows'[f] = rows[f]
        BY <1>12 DEF NoopInsert, Tracked
    <2>2. QED
        BY <1>12, <2>1 DEF NoopInsert
  <1>13. ASSUME LoadForRollback(a) PROVE Keeps(a)
      BY <1>13, SameRows DEF LoadForRollback
  <1>14. ASSUME RollbackNext(a) PROVE Keeps(a)
      BY <1>14, SameRows DEF RollbackNext
  <1>15. ASSUME RollbackComplete(a) PROVE Keeps(a)
      BY <1>15, SameRows DEF RollbackComplete
  <1>16. ASSUME DeleteRow(a) PROVE Keeps(a)
      BY <1>16, SameRows DEF DeleteRow
  <1>17. ASSUME CommitDown(a) PROVE Keeps(a)
    <2>1. \A f \in Tracked : f \in Tracked' => rows'[f] = rows[f]
        BY <1>17 DEF CommitDown, Tracked
    <2>2. QED
        BY <1>17, <2>1 DEF CommitDown
  <1>18. ASSUME SeedNext(a) PROVE Keeps(a)
      BY <1>18, SameRows DEF SeedNext
  <1>19. ASSUME SeedComplete(a) PROVE Keeps(a)
      BY <1>19, SameRows DEF SeedComplete
  <1>20. ASSUME Call(a) PROVE Keeps(a)
      BY <1>20, SameRows DEF Call, First, Targets, Brought
  <1>21. ASSUME Fail(a) PROVE Keeps(a)
      BY <1>21, SameRows DEF Fail
  <1>22. ASSUME Disconnect(a) PROVE Keeps(a)
      BY <1>22, SameRows DEF Disconnect
  <1>23. ASSUME FailInTxn(a) PROVE Keeps(a)
      BY <1>23, SameRows DEF FailInTxn
  <1>24. QED
      BY <1>1, <1>2, <1>3, <1>4, <1>5, <1>6, <1>7, <1>8, <1>9, <1>10, <1>11, <1>12, <1>13,
         <1>14, <1>15, <1>16, <1>17, <1>18, <1>19, <1>20, <1>21, <1>22, <1>23 DEF Act, Step

LEMMA StepPlans ==
    ASSUME TypeOK, CallsOK, NEW a \in Clients, Planned(a),
           Act(a)
    PROVE  Planned(a)'
  <1> USE MigrationLibraryAssumption
     DEF TypeOK, Goto, Finish, Throw, Close, Reply, At, loopVars, callVars, CallsOK, CallOK, Planned
  <1>1. ASSUME AcquireLock(a) PROVE Planned(a)'
    <2>0. workload.ops \in SUBSET {"migrate", "noop", "rollback", "seed"}
        OBVIOUS
    <2>1. call[a].op \in {"migrate", "noop", "rollback", "seed"}
        BY <1>1, <2>0 DEF AcquireLock
    <2>2. pc'[a] = First(call[a].op) \/ pc'[a] = "return"
        BY <1>1 DEF AcquireLock
    <2>3. pc[a] = "lock" /\ UNCHANGED <<call, list, cur>>
        BY <1>1 DEF AcquireLock
    <2>4. QED
        BY <2>1, <2>2, <2>3 DEF First
  <1>2. ASSUME Return(a) PROVE Planned(a)'
      BY <1>2 DEF Return, NoCall
  <1>3. ASSUME LocalTracking(a) PROVE Planned(a)'
      BY <1>3 DEF LocalTracking
  <1>4. ASSUME ListFiles(a) PROVE Planned(a)'
      BY <1>4 DEF ListFiles
  <1>5. ASSUME LoadApplied(a) PROVE Planned(a)'
      BY <1>5 DEF LoadApplied
  <1>6. ASSUME ReadNext(a) PROVE Planned(a)'
      BY <1>6 DEF ReadNext
  <1>7. ASSUME MigrateComplete(a) PROVE Planned(a)'
      BY <1>7 DEF MigrateComplete
  <1>8. ASSUME ExecuteSql(a) PROVE Planned(a)'
      BY <1>8 DEF ExecuteSql, RunSql
  <1>9. ASSUME InsertRow(a) PROVE Planned(a)'
      BY <1>9 DEF InsertRow
  <1>10. ASSUME CommitFile(a) PROVE Planned(a)'
      BY <1>10 DEF CommitFile
  <1>11. ASSUME NoopQuery(a) PROVE Planned(a)'
      BY <1>11 DEF NoopQuery
  <1>12. ASSUME NoopInsert(a) PROVE Planned(a)'
      BY <1>12 DEF NoopInsert
  <1>13. ASSUME LoadForRollback(a) PROVE Planned(a)'
      BY <1>13 DEF LoadForRollback
  <1>14. ASSUME RollbackNext(a) PROVE Planned(a)'
      BY <1>14 DEF RollbackNext
  <1>15. ASSUME RollbackComplete(a) PROVE Planned(a)'
      BY <1>15 DEF RollbackComplete
  <1>16. ASSUME DeleteRow(a) PROVE Planned(a)'
      BY <1>16 DEF DeleteRow
  <1>17. ASSUME CommitDown(a) PROVE Planned(a)'
      BY <1>17 DEF CommitDown
  <1>18. ASSUME SeedNext(a) PROVE Planned(a)'
      BY <1>18 DEF SeedNext
  <1>19. ASSUME SeedComplete(a) PROVE Planned(a)'
      BY <1>19 DEF SeedComplete
  <1>20. ASSUME Call(a) PROVE Planned(a)'
      BY <1>20 DEF Call, First, Targets, Brought
  <1>21. ASSUME Fail(a) PROVE Planned(a)'
      BY <1>21 DEF Fail
  <1>22. ASSUME Disconnect(a) PROVE Planned(a)'
      BY <1>22 DEF Disconnect
  <1>23. ASSUME FailInTxn(a) PROVE Planned(a)'
      BY <1>23 DEF FailInTxn
  <1>24. QED
      BY <1>1, <1>2, <1>3, <1>4, <1>5, <1>6, <1>7, <1>8, <1>9, <1>10, <1>11, <1>12, <1>13,
         <1>14, <1>15, <1>16, <1>17, <1>18, <1>19, <1>20, <1>21, <1>22, <1>23 DEF Act, Step

LEMMA StepDoes ==
    ASSUME TypeOK, CallsOK, LedgerOK, NEW a \in Clients, Planned(a), DoneOK(a),
           Act(a)
    PROVE  DoneOK(a)'
  <1>0. CallOK(a) /\ OwnOK(a)
      BY DEF CallsOK, LedgerOK, HeldOK, GuardOK, OwnOK
  <1> USE MigrationLibraryAssumption
     DEF TypeOK, Goto, Finish, Throw, Close, Reply, At, dbVars, loopVars, callVars
  <1>1. ASSUME AcquireLock(a) PROVE DoneOK(a)'
    <2>1. CASE lock' = a /\ pc' = [pc EXCEPT ![a] = First(call[a].op)]
      <3>1. pc'[a] \in {"track", "rbload", "seed"} /\ pc[a] = "lock" /\ UNCHANGED <<cur, list>>
          BY <1>1, <2>1 DEF AcquireLock, First
      <3>2. \A f \in list'[a] : ~(f <= cur'[a])
          BY <3>1 DEF Planned, Files
      <3>3. QED
          BY <2>1, <3>1, <3>2 DEF DoneOK, ReturnsOk, MigrateDone, NoopDone, RollbackDone,
             SeedDone
    <2>2. CASE Throw(a)
        BY <2>2 DEF DoneOK, Active, Live, ReturnsOk
    <2>3. QED
        BY <1>1, <2>1, <2>2 DEF AcquireLock
  <1>2. ASSUME Return(a) PROVE DoneOK(a)'
      BY <1>0, <1>2, SameRows DEF Return, NoCall, CallOK, OwnOK, Planned, DoneOK, Active,
         Live, ReturnsOk, MigrateDone, NoopDone, RollbackDone, SeedDone, Done
  <1>3. ASSUME LocalTracking(a) PROVE DoneOK(a)'
      BY <1>0, <1>3, SameRows DEF LocalTracking, CallOK, OwnOK, Planned, DoneOK, Active,
         Live, ReturnsOk, MigrateDone, NoopDone, RollbackDone, SeedDone, Done
  <1>4. ASSUME ListFiles(a) PROVE DoneOK(a)'
      BY <1>0, <1>4, SameRows DEF ListFiles, CallOK, OwnOK, Planned, DoneOK, Active, Live,
         ReturnsOk, MigrateDone, NoopDone, RollbackDone, SeedDone, Done
  <1>5. ASSUME LoadApplied(a) PROVE DoneOK(a)'
    <2>1. /\ pc[a] = "load" /\ pc'[a] = "read" /\ sess[a] = "ready"
          /\ UNCHANGED <<workload, lock, call, rows, list, cur>>
          /\ \A f \in Files : seen'[a][f] = IF f \in Tracked THEN rows[f].sum ELSE Absent
        BY <1>5 DEF LoadApplied
    <2>2. workload.guarded => lock = a
        BY <2>1 DEF DoneOK, Active, Live
    <2>3. \A f \in list[a] : ~(f <= cur[a])
        BY <2>1 DEF Planned, Files
    <2>4. MigrateDone(a)'
        BY <2>1, <2>3, SameRows DEF MigrateDone, ReturnsOk, Files
    <2>5. QED
        BY <2>1, <2>2, <2>4 DEF DoneOK, ReturnsOk, NoopDone, RollbackDone, SeedDone
  <1>6. ASSUME ReadNext(a) PROVE DoneOK(a)'
    <2>1. PICK f \in Files :
             /\ IsLeast(f, NextUp(a))
             /\ seen[a][f] \in {Absent, call[a].store[f]}
             /\ cur' = [cur EXCEPT ![a] = f]
             /\ pc' = [pc EXCEPT ![a] = IF seen[a][f] = Absent THEN "sql" ELSE "read"]
        BY <1>6 DEF ReadNext
    <2>2. /\ pc[a] = "read" /\ UNCHANGED <<workload, lock, sess, call, rows, list, seen>>
          /\ cur'[a] = f /\ pc'[a] = IF seen[a][f] = Absent THEN "sql" ELSE "read"
        BY <1>6, <2>1 DEF ReadNext
    <2> SUFFICES ASSUME Active(a)
                 PROVE  (workload.guarded => lock = a) /\ MigrateDone(a)'
        BY <2>2 DEF DoneOK, Active, Live, ReturnsOk, NoopDone, RollbackDone, SeedDone
    <2>3. MigrateDone(a) /\ (workload.guarded => lock = a)
        BY DEF DoneOK
    <2>4. \A g \in list[a] : g < f => g <= cur[a]
        BY <2>1 DEF IsLeast, NextUp, Files
    <2>5. \A g \in list[a] : g < f => g < cur[a] \/ g = cur[a]
        BY <2>4 DEF Files
    <2>6. \A g \in list[a] : g < f => Done(a, g)
        BY <2>2, <2>3, <2>5 DEF MigrateDone
    <2>7. seen[a][f] # Absent => Done(a, f)
        BY <2>1, <2>2, <2>3 DEF MigrateDone, Done
    <2>8. QED
        BY <2>2, <2>3, <2>6, <2>7, SameRows DEF MigrateDone, ReturnsOk, Done
  <1>7. ASSUME MigrateComplete(a) PROVE DoneOK(a)'
    <2>1. /\ pc[a] = "read" /\ pc'[a] = "return" /\ NextUp(a) = {}
          /\ UNCHANGED <<workload, lock, sess, call, rows, list, cur>>
        BY <1>7 DEF MigrateComplete
    <2> SUFFICES ASSUME Active(a)
                 PROVE  (workload.guarded => lock = a) /\ MigrateDone(a)'
        BY <2>1 DEF DoneOK, Active, Live, ReturnsOk, NoopDone, RollbackDone, SeedDone,
           Planned
    <2>2. MigrateDone(a) /\ (workload.guarded => lock = a)
        BY DEF DoneOK
    <2>3. \A f \in list[a] : f < cur[a] \/ f = cur[a]
        BY <2>1 DEF NextUp, Files
    <2>4. \A f \in Listed(call[a].store) : Done(a, f)
        BY <2>1, <2>2, <2>3 DEF MigrateDone, Planned
    <2>5. QED
        BY <2>1, <2>2, <2>4, SameRows DEF MigrateDone, Done
  <1>8. ASSUME ExecuteSql(a) PROVE DoneOK(a)'
      BY <1>0, <1>8, SameRows DEF ExecuteSql, RunSql, CallOK, OwnOK, Planned, DoneOK,
         Active, Live, ReturnsOk, MigrateDone, NoopDone, RollbackDone, SeedDone, Done
  <1>9. ASSUME InsertRow(a) PROVE DoneOK(a)'
      BY <1>0, <1>9, SameRows DEF InsertRow, CallOK, OwnOK, Planned, DoneOK, Active, Live,
         ReturnsOk, MigrateDone, NoopDone, RollbackDone, SeedDone, Done
  <1>10. ASSUME CommitFile(a) PROVE DoneOK(a)'
    <2>1. /\ pc[a] = "commit" /\ sess[a] = "txn"
          /\ rows' = [rows EXCEPT ![cur[a]] =
                        [sum |-> call[a].store[cur[a]], noop |-> FALSE]]
          /\ UNCHANGED <<workload, call, list, cur, seen>>
        BY <1>10 DEF CommitFile
    <2>2. CASE pc'[a] = "read" /\ UNCHANGED lock
      <3>1. MigrateDone(a) /\ (workload.guarded => lock = a)
          BY <2>1 DEF DoneOK, Active, Live
      <3>2. cur[a] \in Files /\ call[a].store[cur[a]] \in Contents /\ cur[a] \notin Tracked
          BY <1>0, <2>1 DEF CallOK, OwnOK
      <3>3. rows'[cur[a]] = [sum |-> call[a].store[cur[a]], noop |-> FALSE]
          BY <2>1, <3>2
      <3>4. [sum |-> call[a].store[cur[a]], noop |-> FALSE] # NoRow
        <4>1. [sum |-> call[a].store[cur[a]], noop |-> FALSE] \in Row
            BY <3>2 DEF Row
        <4>2. QED
            BY <4>1
      <3>5. Done(a, cur[a])'
          BY <2>1, <3>2, <3>3, <3>4 DEF Done, Tracked
      <3>6. \A f \in Tracked : f \in Tracked' /\ rows'[f] = rows[f]
          BY <2>1, <3>2 DEF Tracked
      <3>7. MigrateDone(a)'
          BY <2>1, <2>2, <3>1, <3>5, <3>6 DEF MigrateDone, ReturnsOk, Done
      <3>8. QED
          BY <2>1, <2>2, <3>1, <3>7 DEF DoneOK, ReturnsOk, NoopDone, RollbackDone,
             SeedDone
    <2>3. CASE Throw(a)
        BY <2>3 DEF DoneOK, Active, Live, ReturnsOk
    <2>4. QED
        BY <1>10, <2>2, <2>3 DEF CommitFile
  <1>11. ASSUME NoopQuery(a) PROVE DoneOK(a)'
      BY <1>0, <1>11, SameRows DEF NoopQuery, CallOK, OwnOK, Planned, DoneOK, Active,
         Live, ReturnsOk, MigrateDone, NoopDone, RollbackDone, SeedDone, Done
  <1>12. ASSUME NoopInsert(a) PROVE DoneOK(a)'
    <2>1. /\ pc[a] = "ninsert" /\ sess[a] = "ready" /\ call[a].op = "noop"
          /\ rows' = [rows EXCEPT ![call[a].target] =
                        [sum |-> call[a].store[call[a].target], noop |-> TRUE]]
          /\ call[a].target \in Listed(call[a].store) /\ UNCHANGED <<workload, call>>
        BY <1>0, <1>12 DEF NoopInsert, CallOK
    <2>2. CASE pc'[a] = "return" /\ UNCHANGED lock
      <3>1. workload.guarded => lock = a
          BY <2>1 DEF DoneOK, Active, Live
      <3>2. call[a].target \in Files /\ call[a].store[call[a].target] \in Contents
          BY <2>1, StoreHolds
      <3>3. [sum |-> call[a].store[call[a].target], noop |-> TRUE] # NoRow
        <4>1. [sum |-> call[a].store[call[a].target], noop |-> TRUE] \in Row
            BY <3>2 DEF Row
        <4>2. QED
            BY <4>1
      <3>4. call[a].target \in Tracked'
          BY <2>1, <3>2, <3>3 DEF Tracked
      <3>5. QED
          BY <2>1, <2>2, <3>1, <3>4 DEF DoneOK, ReturnsOk, MigrateDone, NoopDone,
             RollbackDone, SeedDone
    <2>3. CASE result'[a] = "err" /\ pc'[a] = "return"
        BY <2>3 DEF DoneOK, Active, Live, ReturnsOk
    <2>4. QED
        BY <1>12, <2>2, <2>3 DEF NoopInsert
  <1>13. ASSUME LoadForRollback(a) PROVE DoneOK(a)'
    <2>1. /\ pc[a] = "rbload" /\ sess[a] = "ready" /\ call[a].op = "rollback"
          /\ list'[a] = Tracked /\ cur'[a] = NFiles + 1
          /\ pc'[a] = IF Tracked = {} THEN "return" ELSE "rbread"
          /\ UNCHANGED <<workload, lock, call, rows>>
        BY <1>0, <1>13 DEF LoadForRollback, CallOK
    <2>2. workload.guarded => lock = a
        BY <2>1 DEF DoneOK, Active, Live
    <2>3. \A f \in Tracked : f < NFiles + 1
        BY DEF Tracked, Files
    <2>4. Tracked' = Tracked
        BY <2>1, SameRows
    <2>5. RollbackDone(a)'
      <3>1. CASE Tracked = {}
          BY <2>1, <2>4, <3>1 DEF RollbackDone
      <3>2. CASE Tracked # {}
          BY <2>1, <2>3, <2>4, <3>2 DEF RollbackDone, ReturnsOk
      <3>3. QED
          BY <3>1, <3>2
    <2>6. QED
        BY <2>1, <2>2, <2>5 DEF DoneOK, MigrateDone, NoopDone, SeedDone, ReturnsOk
  <1>14. ASSUME RollbackNext(a) PROVE DoneOK(a)'
    <2>1. PICK f \in RollbackFiles :
             IsGreatest(f, NextDown(a)) /\ cur' = [cur EXCEPT ![a] = f]
        BY <1>14 DEF RollbackNext
    <2>2. /\ pc[a] = "rbread" /\ pc'[a] = "down" /\ cur'[a] = f
          /\ UNCHANGED <<workload, lock, sess, call, rows, list>>
        BY <1>14, <2>1 DEF RollbackNext
    <2> SUFFICES ASSUME Active(a)
                 PROVE  (workload.guarded => lock = a) /\ RollbackDone(a)'
        BY <2>2 DEF DoneOK, Active, Live, ReturnsOk, MigrateDone, NoopDone, SeedDone
    <2>3. RollbackDone(a) /\ (workload.guarded => lock = a)
        BY DEF DoneOK
    <2>4. \A g \in Tracked : g > call[a].target => g \in NextDown(a)
        BY <2>2, <2>3 DEF RollbackDone, NextDown
    <2>5. \A g \in NextDown(a) : g <= f /\ g \in list[a]
        BY <2>1 DEF IsGreatest, NextDown, Files
    <2>6. QED
        BY <2>2, <2>3, <2>4, <2>5, SameRows DEF RollbackDone, ReturnsOk
  <1>15. ASSUME RollbackComplete(a) PROVE DoneOK(a)'
    <2>1. /\ pc[a] = "rbread" /\ pc'[a] = "return" /\ NextDown(a) = {}
          /\ call[a].op = "rollback"
          /\ UNCHANGED <<workload, lock, sess, call, rows>>
        BY <1>0, <1>15 DEF RollbackComplete, CallOK
    <2> SUFFICES ASSUME Active(a)
                 PROVE  (workload.guarded => lock = a) /\ RollbackDone(a)'
        BY <2>1 DEF DoneOK, Active, Live, ReturnsOk, MigrateDone, NoopDone, SeedDone
    <2>2. RollbackDone(a) /\ (workload.guarded => lock = a)
        BY DEF DoneOK
    <2>3. \A f \in Tracked : ~(f > call[a].target)
        BY <2>1, <2>2 DEF RollbackDone, NextDown
    <2>4. \A f \in Tracked : f <= call[a].target
        BY <2>3 DEF Tracked, Files
    <2>5. QED
        BY <2>1, <2>2, <2>4, SameRows DEF RollbackDone
  <1>16. ASSUME DeleteRow(a) PROVE DoneOK(a)'
      BY <1>0, <1>16, SameRows DEF DeleteRow, CallOK, OwnOK, Planned, DoneOK, Active,
         Live, ReturnsOk, MigrateDone, NoopDone, RollbackDone, SeedDone, Done
  <1>17. ASSUME CommitDown(a) PROVE DoneOK(a)'
    <2>1. /\ pc[a] = "undo" /\ sess[a] = "txn" /\ hit[a] /\ cur[a] \in Files
          /\ rows' = IF hit[a] THEN [rows EXCEPT ![cur[a]] = NoRow] ELSE rows
          /\ UNCHANGED <<workload, call, list, cur>>
        BY <1>0, <1>17 DEF CommitDown, CallOK, OwnOK, RollbackOK, Live
    <2>2. CASE pc'[a] = "rbread" /\ UNCHANGED lock
      <3>1. RollbackDone(a) /\ (workload.guarded => lock = a)
          BY <2>1 DEF DoneOK, Active, Live
      <3>2. Tracked' = Tracked \ {cur[a]}
          BY <2>1 DEF Tracked
      <3>3. \A f \in Tracked : f <= cur[a] => f < cur[a] \/ f = cur[a]
          BY <2>1 DEF Tracked, Files
      <3>4. RollbackDone(a)'
          BY <2>1, <2>2, <3>1, <3>2, <3>3 DEF RollbackDone, ReturnsOk
      <3>5. QED
          BY <2>1, <2>2, <3>1, <3>4 DEF DoneOK, ReturnsOk, MigrateDone, NoopDone, SeedDone
    <2>3. CASE Throw(a)
        BY <2>3 DEF DoneOK, Active, Live, ReturnsOk
    <2>4. QED
        BY <1>17, <2>2, <2>3 DEF CommitDown
  <1>18. ASSUME SeedNext(a) PROVE DoneOK(a)'
    <2>1. PICK f \in Files :
             /\ IsLeast(f, NextUp(a))
             /\ cur' = [cur EXCEPT ![a] = f]
             /\ planted' = planted \cup {f}
        BY <1>18 DEF SeedNext
    <2>2. /\ pc[a] = "seed" /\ sess[a] = "ready" /\ cur'[a] = f
          /\ UNCHANGED <<workload, call, list>>
        BY <1>18, <2>1 DEF SeedNext
    <2>3. CASE pc'[a] = "seed" /\ UNCHANGED lock
      <3>1. SeedDone(a) /\ (workload.guarded => lock = a)
          BY <2>2 DEF DoneOK, Active, Live
      <3>2. \A g \in list[a] : g <= f => g <= cur[a] \/ g = f
          BY <2>1 DEF IsLeast, NextUp, Files
      <3>3. SeedDone(a)'
          BY <2>1, <2>2, <2>3, <3>1, <3>2 DEF SeedDone, ReturnsOk
      <3>4. QED
          BY <2>2, <2>3, <3>1, <3>3 DEF DoneOK, ReturnsOk, MigrateDone, NoopDone,
             RollbackDone
    <2>4. CASE Throw(a)
        BY <2>4 DEF DoneOK, Active, Live, ReturnsOk
    <2>5. QED
        BY <1>18, <2>3, <2>4 DEF SeedNext
  <1>19. ASSUME SeedComplete(a) PROVE DoneOK(a)'
    <2>1. /\ pc[a] = "seed" /\ pc'[a] = "return" /\ NextUp(a) = {} /\ call[a].op = "seed"
          /\ list[a] = SeedFiles /\ UNCHANGED <<workload, lock, sess, call, planted>>
        BY <1>19 DEF SeedComplete, Planned
    <2> SUFFICES ASSUME Active(a)
                 PROVE  (workload.guarded => lock = a) /\ SeedDone(a)'
        BY <2>1 DEF DoneOK, Active, Live, ReturnsOk, MigrateDone, NoopDone, RollbackDone
    <2>2. SeedDone(a) /\ (workload.guarded => lock = a)
        BY DEF DoneOK
    <2>3. \A f \in list[a] : f <= cur[a]
        BY <2>1 DEF NextUp, Files
    <2>4. QED
        BY <2>1, <2>2, <2>3 DEF SeedDone
  <1>20. ASSUME Call(a) PROVE DoneOK(a)'
    <2>1. /\ pc[a] = "idle" /\ UNCHANGED <<workload, cur>> /\ list'[a] \subseteq Files
          /\ pc'[a] \in IF workload.guarded THEN {"lock"} ELSE {"track", "rbload", "seed"}
        BY <1>20 DEF Call, First
    <2>2. \A f \in list'[a] : ~(f <= cur'[a])
        BY <2>1 DEF Planned, Files
    <2>3. CASE workload.guarded
        BY <2>1, <2>3 DEF DoneOK, Active, Live, ReturnsOk
    <2>4. CASE ~workload.guarded
        BY <2>1, <2>2, <2>4 DEF DoneOK, ReturnsOk, MigrateDone, NoopDone, RollbackDone,
           SeedDone
    <2>5. QED
        BY <2>3, <2>4
  <1>21. ASSUME Fail(a) PROVE DoneOK(a)'
      BY <1>0, <1>21, SameRows DEF Fail, CallOK, OwnOK, Planned, DoneOK, Active, Live,
         ReturnsOk, MigrateDone, NoopDone, RollbackDone, SeedDone, Done
  <1>22. ASSUME Disconnect(a) PROVE DoneOK(a)'
      BY <1>0, <1>22, SameRows DEF Disconnect, CallOK, OwnOK, Planned, DoneOK, Active,
         Live, ReturnsOk, MigrateDone, NoopDone, RollbackDone, SeedDone, Done
  <1>23. ASSUME FailInTxn(a) PROVE DoneOK(a)'
      BY <1>0, <1>23, SameRows DEF FailInTxn, CallOK, OwnOK, Planned, DoneOK, Active,
         Live, ReturnsOk, MigrateDone, NoopDone, RollbackDone, SeedDone, Done
  <1>24. QED
      BY <1>1, <1>2, <1>3, <1>4, <1>5, <1>6, <1>7, <1>8, <1>9, <1>10, <1>11, <1>12, <1>13,
         <1>14, <1>15, <1>16, <1>17, <1>18, <1>19, <1>20, <1>21, <1>22, <1>23 DEF Act, Step


\* Nobody else changes the rows while a call is active that holds the lock, or
\* that may meet a rollback.
LEMMA ActiveAlone ==
    ASSUME CallsOK, GuardOK, NEW c \in Clients, NEW d \in Clients, Active(c), DoneOK(c), CallOK(c),
           pc[c] # "idle", Live(d), workload.guarded \/ "rollback" \in workload.ops, TypeOK
    PROVE  c = d
  <1>1. CASE workload.guarded
      BY <1>1 DEF DoneOK, GuardOK
  <1>2. CASE ~workload.guarded
    <2>1. c \in workload.crew /\ d \in workload.crew
        BY DEF CallsOK, CallOK, Live
    <2>2. QED
        BY <1>2, <2>1, MigrationLibraryAssumption DEF TypeOK
  <1>3. QED
      BY <1>1, <1>2

LEMMA OthersStayDone ==
    ASSUME TypeOK, CallsOK, LedgerOK, NEW a \in Clients, NEW d \in Clients, d # a,
           DoneOK(d), Frame(a), LockStep(a), RowStep(a), Keeps(a)
    PROVE  DoneOK(d)'
  <1>1. (Active(d)' <=> Active(d)) /\ (ReturnsOk(d)' <=> ReturnsOk(d))
      BY DEF Frame, Keeps, Active, Live, ReturnsOk
  <1> SUFFICES ASSUME Active(d)
               PROVE  /\ (workload.guarded => lock = d)'
                      /\ MigrateDone(d)' /\ NoopDone(d)' /\ RollbackDone(d)' /\ SeedDone(d)'
      BY <1>1 DEF DoneOK
  <1>2. /\ MigrateDone(d) /\ NoopDone(d) /\ RollbackDone(d) /\ SeedDone(d)
        /\ workload.guarded => lock = d
      BY DEF DoneOK
  <1>3. pc[d] # "idle" /\ CallOK(d)
      BY DEF Active, Live, ReturnsOk, CallsOK
  <1>4. (workload.guarded => lock = d)'
      BY <1>2, MigrationLibraryAssumption DEF Frame, LockStep
  <1>5. Tracked \subseteq Tracked'
    <2> SUFFICES ASSUME ~(Tracked \subseteq Tracked') PROVE FALSE
        OBVIOUS
    <2>1. Live(a) /\ call[a].op = "rollback" /\ pc[a] # "idle"
        BY DEF RowStep, Live
    <2>2. "rollback" \in workload.ops
        BY <2>1 DEF CallsOK, CallOK
    <2>3. QED
        BY <1>3, <2>1, <2>2, ActiveAlone DEF LedgerOK
  <1>6. \A f \in Tracked : f \in Tracked' /\ rows'[f] = rows[f]
      BY <1>5 DEF Keeps
  <1>7. ASSUME call[d].op = "rollback" PROVE Tracked' = Tracked
    <2>1. "rollback" \in workload.ops
        BY <1>3, <1>7 DEF CallOK
    <2>2. ~Live(a)
        BY <1>3, <2>1, ActiveAlone DEF LedgerOK
    <2>3. QED
        BY <2>2 DEF RowStep
  <1>8. MigrateDone(d)'
      BY <1>1, <1>2, <1>6 DEF Frame, MigrateDone, Done
  <1>9. NoopDone(d)'
      BY <1>1, <1>2, <1>5 DEF Frame, NoopDone
  <1>10. RollbackDone(d)'
      BY <1>1, <1>2, <1>3, <1>7 DEF Frame, RollbackDone, CallOK
  <1>11. SeedDone(d)'
      BY <1>1, <1>2 DEF Frame, Keeps, SeedDone
  <1>12. QED
      BY <1>4, <1>8, <1>9, <1>10, <1>11

LEMMA CallsDoTheirWork == Spec => []AllDone
  <1>1. Init => AllDone
    <2> SUFFICES ASSUME Init, NEW c \in Clients PROVE Planned(c) /\ DoneOK(c)
        BY DEF AllDone
    <2>1. pc[c] = "idle" /\ cur[c] = 0 /\ call[c].op = "none"
        BY DEF Init, NoCall
    <2>2. QED
        BY <2>1 DEF Planned, DoneOK, Active, Live, ReturnsOk
  <1>2. TypeOK /\ CallsOK /\ LedgerOK /\ AllDone /\ [Next]_vars => AllDone'
    <2> SUFFICES ASSUME TypeOK, CallsOK, LedgerOK, AllDone, [Next]_vars PROVE AllDone'
        OBVIOUS
    <2>1. ASSUME NEW a \in Clients, Act(a)
          PROVE  AllDone'
      <3>1. Frame(a) /\ LockStep(a) /\ RowStep(a) /\ Keeps(a)
          BY <2>1, StepEffect, StepKeeps
      <3>2. Planned(a)' /\ DoneOK(a)'
          BY <2>1, StepPlans, StepDoes DEF AllDone
      <3>3. ASSUME NEW d \in Clients, d # a PROVE Planned(d)' /\ DoneOK(d)'
        <4>1. Planned(d)'
            BY <3>1, <3>3 DEF AllDone, Planned, Frame
        <4>2. DoneOK(d)'
            BY <3>1, <3>3, OthersStayDone DEF AllDone
        <4>3. QED
            BY <4>1, <4>2
      <3>4. QED
          BY <3>2, <3>3 DEF AllDone
    <2>2. CASE UNCHANGED vars
        BY <2>2 DEF vars, AllDone, Planned, DoneOK, Active, Live, ReturnsOk, MigrateDone,
           NoopDone, RollbackDone, SeedDone, Done, Tracked
    <2>3. QED
        BY <2>1, <2>2 DEF Act, Next, Terminated
  <1>3. QED
      BY <1>1, <1>2, LibraryTypes, LedgerIsKept, PTL DEF Spec

-----------------------------------------------------------------------------
\* The sessions, the tables and the locals of each call keep their types: the
\* locals that ops.rs computes are ranks of files, contents and flags.
THEOREM LibraryTypeCorrect == Spec => []TypeOK
  BY LibraryTypes, PTL

\* Only the library's own INSERT or DELETE leaves a client in a failed
\* transaction, and with the lock or alone that INSERT has lost no race; no call
\* leaves a transaction open, and none but one that failed so keeps the lock.
THEOREM LibraryStaysUsable == Spec => StaysUsable
  <1>1. /\ TypeOK /\ CallsOK /\ LedgerOK /\ CallsOK' /\ LedgerOK' /\ [Next]_vars
        => [\A c \in Clients :
              /\ sess'[c] = "aborted" /\ sess[c] # "aborted" => pc[c] \in {"insert", "delete"}
              /\ At(c, "insert", "txn") /\ cur[c] \in Tracked =>
                    ~workload.guarded /\ \E d \in workload.crew : d # c
              /\ pc'[c] \in {"idle", "return"} => sess'[c] # "txn"
              /\ pc'[c] = "idle" /\ lock' = c => sess'[c] = "aborted"]_vars
    <2> SUFFICES ASSUME TypeOK, CallsOK, LedgerOK, CallsOK', LedgerOK', Next, NEW c \in Clients
                 PROVE  /\ sess'[c] = "aborted" /\ sess[c] # "aborted" =>
                              pc[c] \in {"insert", "delete"}
                        /\ At(c, "insert", "txn") /\ cur[c] \in Tracked =>
                              ~workload.guarded /\ \E d \in workload.crew : d # c
                        /\ pc'[c] \in {"idle", "return"} => sess'[c] # "txn"
                        /\ pc'[c] = "idle" /\ lock' = c => sess'[c] = "aborted"
        OBVIOUS
    <2>1. sess'[c] = "aborted" /\ sess[c] # "aborted" => pc[c] \in {"insert", "delete"}
      <3>1. CASE UNCHANGED vars
          BY <3>1 DEF vars
      <3>2. ASSUME NEW a \in Clients, Act(a)
            PROVE  sess'[c] = "aborted" /\ sess[c] # "aborted" => pc[c] \in {"insert", "delete"}
          BY <3>2, StepEffect DEF Frame
      <3>3. QED
          BY <3>1, <3>2 DEF Act, Next, Terminated
    <2>2. At(c, "insert", "txn") /\ cur[c] \in Tracked =>
              ~workload.guarded /\ \E d \in workload.crew : d # c
        BY DEF At, LedgerOK, MigrateOK, Live, Exclusive
    <2>3. pc'[c] \in {"idle", "return"} => sess'[c] # "txn"
        BY DEF CallsOK, CallOK, InTxn
    <2>4. pc'[c] = "idle" /\ lock' = c => sess'[c] = "aborted"
        BY DEF LedgerOK, UsableOK
    <2>5. QED
        BY <2>1, <2>2, <2>3, <2>4
  <1>2. QED
      BY <1>1, LibraryTypes, LedgerIsKept, PTL DEF Spec, StaysUsable

\* A call that returns Ok has done what it is for, whoever else calls: migrate
\* recorded its whole store, noop its file, rollback left nothing after its
\* target, seed ran every file.
THEOREM LibraryOkMeansDone == Spec => []OkMeansDone
  <1>1. TypeOK /\ CallsOK /\ AllDone => OkMeansDone
    <2> SUFFICES ASSUME TypeOK, CallsOK, AllDone, NEW c \in Clients,
                        pc[c] = "return", result[c] = "ok", sess[c] = "ready"
                 PROVE  CASE call[c].op = "migrate"  -> \A f \in Listed(call[c].store) :
                                 f \in Tracked /\ rows[f].sum = call[c].store[f]
                          [] call[c].op = "noop"     -> call[c].target \in Tracked
                          [] call[c].op = "rollback" -> \A f \in Tracked : f <= call[c].target
                          [] OTHER                   -> SeedFiles \subseteq planted
        BY DEF OkMeansDone
    <2>1. MigrateDone(c) /\ NoopDone(c) /\ RollbackDone(c) /\ SeedDone(c) /\ ReturnsOk(c)
        BY DEF AllDone, DoneOK, Active, ReturnsOk
    <2>2. call[c].op \in {"migrate", "noop", "rollback", "seed"}
        BY MigrationLibraryAssumption DEF CallsOK, CallOK, TypeOK
    <2>3. QED
        BY <2>1, <2>2 DEF MigrateDone, NoopDone, RollbackDone, SeedDone, Done
  <1>2. QED
      BY <1>1, LibraryTypes, CallsDoTheirWork, PTL

\* Each step of the library is a step of the ledger or none: the COMMIT of a
\* migrate applies a file that has no row, that of a rollback reverts one that
\* has, the INSERT of a noop vouches for one.
THEOREM LibraryImplementsTheLedger == Spec => ImplementsLedger
  <1> USE MigrationLibraryAssumption
  <1>1. Init => Ledger!Init
    <2> SUFFICES ASSUME Init PROVE Ledger!Init
        OBVIOUS
    <2>1. vouched = {f \in Tracked : rows[f].noop} /\ Tracked \subseteq Files
        BY DEF Init, Tracked
    <2>2. \A f \in Files : f \in Tracked \ vouched <=> (rows[f] # NoRow /\ ~rows[f].noop)
        BY <2>1 DEF Tracked
    <2>3. effect = [f \in Files |-> IF f \in Tracked \ vouched THEN 1 ELSE 0]
        BY <2>2 DEF Init
    <2>4. QED
        BY <2>1, <2>3 DEF Ledger!Init
  <1>2. TypeOK /\ CallsOK /\ LedgerOK /\ [Next]_vars => [Ledger!Next]_(Ledger!vars)
    <2> SUFFICES ASSUME TypeOK, CallsOK, LedgerOK, [Next]_vars
                 PROVE  Ledger!Next \/ UNCHANGED <<Tracked, effect, vouched>>
        BY DEF Ledger!vars
    <2>1. ASSUME NEW c \in Clients, CommitFile(c) PROVE Ledger!Apply(cur[c]) /\ cur[c] \in Files
      <3>1. cur[c] \in Files /\ call[c].store[cur[c]] \in Contents /\ cur[c] \notin Tracked
          BY <2>1 DEF CommitFile, At, CallsOK, CallOK, LedgerOK, HeldOK
      <3>2. [sum |-> call[c].store[cur[c]], noop |-> FALSE] # NoRow
        <4>1. [sum |-> call[c].store[cur[c]], noop |-> FALSE] \in Row
            BY <3>1 DEF Row
        <4>2. QED
            BY <4>1
      <3>3. Tracked' = Tracked \cup {cur[c]}
          BY <2>1, <3>1, <3>2 DEF CommitFile, Tracked, TypeOK
      <3>4. QED
          BY <2>1, <3>1, <3>3 DEF CommitFile, Ledger!Apply
    <2>2. ASSUME NEW c \in Clients, CommitDown(c) PROVE Ledger!Revert(cur[c]) /\ cur[c] \in Files
      <3>1. cur[c] \in Tracked /\ hit[c]
          BY <2>2 DEF CommitDown, At, LedgerOK, RollbackOK, Live
      <3>2. Tracked' = Tracked \ {cur[c]}
          BY <2>2, <3>1 DEF CommitDown, Tracked, TypeOK
      <3>3. QED
          BY <2>2, <3>1, <3>2 DEF CommitDown, Ledger!Revert, Tracked
    <2>3. ASSUME NEW c \in Clients, NoopInsert(c) PROVE \E f \in Files : Ledger!Vouch(f)
      <3> DEFINE f == call[c].target
      <3>1. f \in Files /\ call[c].store[f] \in Contents /\ rows[f] = NoRow
          BY <2>3, StoreHolds DEF NoopInsert, At, CallsOK, CallOK, TypeOK
      <3>2. [sum |-> call[c].store[f], noop |-> TRUE] # NoRow
        <4>1. [sum |-> call[c].store[f], noop |-> TRUE] \in Row
            BY <3>1 DEF Row
        <4>2. QED
            BY <4>1
      <3>3. Tracked' = Tracked \cup {f}
          BY <2>3, <3>1, <3>2 DEF NoopInsert, Tracked, TypeOK
      <3>4. QED
          BY <2>3, <3>1, <3>3 DEF NoopInsert, Ledger!Vouch, Tracked
    <2>4. CASE UNCHANGED <<rows, effect, vouched>>
        BY <2>4, SameRows
    <2>5. ASSUME NEW c \in Clients, Step(c),
                 ~CommitFile(c), ~CommitDown(c), ~NoopInsert(c)
          PROVE  UNCHANGED <<rows, effect, vouched>>
        BY <2>5
           DEF Step, AcquireLock, Return, LocalTracking, ListFiles, LoadApplied,
               ReadNext,
                    MigrateComplete, ExecuteSql, InsertRow, NoopQuery, LoadForRollback,
                    RollbackNext, RollbackComplete, DeleteRow, SeedNext, SeedComplete, dbVars
    <2>6. ASSUME NEW c \in Clients, Call(c) \/ Fail(c) \/ FailInTxn(c) \/ Disconnect(c)
          PROVE  UNCHANGED <<rows, effect, vouched>>
        BY <2>6 DEF Call, Fail, FailInTxn, Disconnect, dbVars
    <2>7. QED
        BY <2>1, <2>2, <2>3, <2>4, <2>5, <2>6 DEF Next, Terminated, vars, Ledger!Next
  <1>3. QED
      BY <1>1, <1>2, LibraryTypes, LedgerIsKept, PTL DEF Spec, ImplementsLedger, Ledger!Spec
=============================================================================
