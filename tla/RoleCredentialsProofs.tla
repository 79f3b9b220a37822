------------------------ MODULE RoleCredentialsProofs ------------------------
(***************************************************************************)
(* Proofs about RoleCredentials, for any number of invocations, in the     *)
(* Lambda's version and in the library's.                                  *)
(*                                                                         *)
(* Nothing is locked, so no invariant says what the credentials are.  It   *)
(* says who still owes the repair if they do not work: in the Lambda an    *)
(* invocation that has its final login before it (LambdaInv), in the       *)
(* library the one that created the role (LibraryInv).                     *)
(***************************************************************************)
EXTENDS RoleCredentials, TLAPS

\* An invocation that returned is over; one that returned Ok was not killed.
ResultIsFinal ==
    \A p \in Procs : /\ result[p] # "none" => pc[p] = "done"
                     /\ result[p] = "ok" => p \in alive

(***************************************************************************)
(* The Lambda.  Once an invocation is past the app role, the database      *)
(* parameter is there and stays.  And either the app's credentials work or *)
(* somebody owes a repair: an invocation that is not yet at its final      *)
(* login, one whose login is going to fail, one that did not return Ok.    *)
(***************************************************************************)
DatabaseNamed ==
    \A p \in Procs :
        role[p] = "reader" \/ repaired[p] \/ pc[p] \in {"served", "read", "login"} =>
            <<"app", "database">> \in named

LogsIn(p) == secret[p] # None /\ secret[p] = password["app"]

Owes(p) ==
    \/ result[p] = "err" \/ p \notin alive
    \/ pc[p] \notin {"done", "login"}
    \/ pc[p] = "login" /\ ~LogsIn(p)

LambdaInv ==
    version = "lambda" =>
        /\ DatabaseNamed
        /\ Works("app") \/ \E p \in Procs : Owes(p)

(***************************************************************************)
(* The Lambda on its own.  As long as the invocation that started last     *)
(* started alone, nobody else runs; what it is going to log in with is     *)
(* what SSM still says.                                                    *)
(***************************************************************************)
SoloInv ==
    version = "lambda" /\ solo # NoProc =>
        /\ \A q \in Procs \ {solo} : ~Running(q)
        /\ pc[solo] = "login" =>
               secret[solo] = IF <<"app", "username">> \in named THEN secure["app"] ELSE None
        /\ result[solo] = "ok" => Works("app")

(***************************************************************************)
(* The library never rotates.  A role's password is set once, by the one   *)
(* invocation that then publishes it: the role works, or that invocation   *)
(* is still publishing, or it failed.                                      *)
(***************************************************************************)
Publishes(p, r) == pc[p] \in Puts /\ role[p] = r

PublishedSoFar(p) ==
    pc[p] \in Puts =>
        /\ password[role[p]] # None /\ secret[p] = password[role[p]]
        /\ pc[p] # "username" => <<role[p], "username">> \in named
        /\ pc[p] = "database" => role[p] = "app" /\ secure["app"] = secret[p]

Served(p) ==
    /\ role[p] = "reader" \/ pc[p] = "served" => password["app"] # None
    /\ role[p] = "reader" /\ pc[p] = "served" => password["reader"] # None
    /\ result[p] = "ok" => \A r \in Roles : password[r] # None

RoleServed(r) ==
    \/ password[r] = None \/ Works(r)
    \/ \E p \in Procs : Publishes(p, r) \/ result[p] = "err" \/ p \notin alive

LibraryInv ==
    version = "library" =>
        /\ \A p \in Procs : /\ pc[p] \notin {"complete", "rotate", "read", "login"}
                            /\ ~repaired[p] /\ PublishedSoFar(p) /\ Served(p)
        /\ \A r \in Roles : RoleServed(r)

CredentialsInv == ResultIsFinal /\ LambdaInv /\ SoloInv /\ LibraryInv


LEMMA TypeInductive == Spec => []TypeOK
<1> USE RoleCredentialsAssumption
<1>1. Init => TypeOK
  BY DEF Init, TypeOK, Roles, None
<1>2. TypeOK /\ [Next]_vars => TypeOK'
  <2> SUFFICES ASSUME TypeOK, [Next]_vars PROVE TypeOK'
    OBVIOUS
  <2> USE DEF TypeOK, Goto, Return, Reply, At, Calls, Puts, store, Roles
  <2>1. ASSUME NEW p \in Procs, Start(p), UNCHANGED version PROVE TypeOK'
    BY <2>1 DEF Start
  <2>2. ASSUME NEW p \in Procs, RoleExists(p), UNCHANGED version PROVE TypeOK'
    BY <2>2 DEF RoleExists
  <2>3. ASSUME NEW p \in Procs, CreateRole(p), UNCHANGED version PROVE TypeOK'
    BY <2>3 DEF CreateRole, SetPassword
  <2>4. ASSUME NEW p \in Procs, RotateRole(p), UNCHANGED version PROVE TypeOK'
    BY <2>4 DEF RotateRole, SetPassword
  <2>5. ASSUME NEW p \in Procs, SsmComplete(p), UNCHANGED version PROVE TypeOK'
    BY <2>5 DEF SsmComplete
  <2>6. ASSUME NEW p \in Procs, PublishUsername(p), UNCHANGED version PROVE TypeOK'
    BY <2>6 DEF PublishUsername
  <2>7. ASSUME NEW p \in Procs, PublishPassword(p), UNCHANGED version PROVE TypeOK'
    BY <2>7 DEF PublishPassword
  <2>8. ASSUME NEW p \in Procs, PublishDatabase(p), UNCHANGED version PROVE TypeOK'
    BY <2>8 DEF PublishDatabase
  <2>9. ASSUME NEW p \in Procs, NextRole(p), UNCHANGED version PROVE TypeOK'
    BY <2>9 DEF NextRole
  <2>10. ASSUME NEW p \in Procs, ReadCredentials(p), UNCHANGED version PROVE TypeOK'
    BY <2>10 DEF ReadCredentials, None
  <2>11. ASSUME NEW p \in Procs, VerifyLogin(p), UNCHANGED version PROVE TypeOK'
    BY <2>11 DEF VerifyLogin
  <2>12. ASSUME NEW p \in Procs, Fail(p), UNCHANGED version PROVE TypeOK'
    BY <2>12 DEF Fail
  <2>13. ASSUME NEW p \in Procs, Die(p), UNCHANGED version PROVE TypeOK'
    BY <2>13 DEF Die
  <2>14. ASSUME NEW p \in Procs, Vanish(p), UNCHANGED version PROVE TypeOK'
    BY <2>14 DEF Vanish
  <2>15. CASE UNCHANGED vars
    BY <2>15 DEF vars
  <2>16. QED
    BY <2>1, <2>2, <2>3, <2>4, <2>5, <2>6, <2>7, <2>8, <2>9, <2>10, <2>11, <2>12, <2>13,
       <2>14, <2>15 DEF Next, Step, Terminated
<1>3. QED
  BY <1>1, <1>2, PTL DEF Spec

LEMMA CredentialsInductive == Spec => []CredentialsInv
<1> USE RoleCredentialsAssumption
<1>1. Init => CredentialsInv
  <2> SUFFICES ASSUME Init PROVE CredentialsInv
    OBVIOUS
  <2>1. ResultIsFinal
    BY DEF Init, ResultIsFinal
  <2>2. LambdaInv
    BY DEF Init, LambdaInv, DatabaseNamed, Owes
  <2>3. SoloInv
    BY DEF Init, SoloInv
  <2>4. LibraryInv
    BY DEF Init, LibraryInv, PublishedSoFar, Served, RoleServed, Works, Complete, Puts,
       Roles, None
  <2>5. QED
    BY <2>1, <2>2, <2>3, <2>4 DEF CredentialsInv
<1>2. TypeOK /\ CredentialsInv /\ [Next]_vars => CredentialsInv'
  <2> SUFFICES ASSUME TypeOK, CredentialsInv, [Next]_vars PROVE CredentialsInv'
    OBVIOUS
  <2> USE DEF TypeOK, CredentialsInv, Goto, Return, Reply, At, Calls, Puts, store, Roles, None
  <2>1. ASSUME NEW p \in Procs, Start(p), UNCHANGED version PROVE CredentialsInv'
    <3>1. ResultIsFinal'
      BY <2>1 DEF Start, ResultIsFinal, Running
    <3>2. LambdaInv'
      BY <2>1 DEF Start, LambdaInv, DatabaseNamed, Owes, LogsIn, Works, Complete, Running
    <3>3. SoloInv'
      <4>1. /\ solo' = IF \E q \in Procs : Running(q) THEN NoProc ELSE p
            /\ pc[p] = "idle" /\ pc' = [pc EXCEPT ![p] = "exists"]
            /\ UNCHANGED result
        BY <2>1 DEF Start
      <4>2. CASE \E q \in Procs : Running(q)
        BY <4>1, <4>2 DEF SoloInv
      <4>3. CASE \A q \in Procs : ~Running(q)
        <5>1. solo' = p /\ pc'[p] = "exists" /\ result'[p] # "ok"
          BY <4>1, <4>3 DEF ResultIsFinal
        <5>2. \A q \in Procs \ {p} : ~Running(q)'
          BY <4>1, <4>3 DEF Running
        <5>3. QED
          BY <5>1, <5>2 DEF SoloInv
      <4>4. QED
        BY <4>2, <4>3
    <3>4. LibraryInv'
      BY <2>1 DEF Start, LibraryInv, PublishedSoFar, Served, RoleServed, Publishes, Works,
         Complete, Running
    <3>5. QED
      BY <3>1, <3>2, <3>3, <3>4
  <2>2. ASSUME NEW p \in Procs, RoleExists(p), UNCHANGED version PROVE CredentialsInv'
    <3>1. ResultIsFinal'
      BY <2>2 DEF RoleExists, ResultIsFinal
    <3>2. LambdaInv'
      BY <2>2 DEF RoleExists, LambdaInv, DatabaseNamed, Owes, LogsIn, Works, Complete
    <3>3. SoloInv'
      BY <2>2 DEF RoleExists, SoloInv, Running, Works, Complete
    <3>4. LibraryInv'
      BY <2>2 DEF RoleExists, LibraryInv, PublishedSoFar, Served, RoleServed, Publishes,
         Works, Complete
    <3>5. QED
      BY <3>1, <3>2, <3>3, <3>4
  <2>3. ASSUME NEW p \in Procs, CreateRole(p), UNCHANGED version PROVE CredentialsInv'
    <3>1. ResultIsFinal'
      BY <2>3 DEF CreateRole, SetPassword, ResultIsFinal
    <3>2. LambdaInv'
      BY <2>3 DEF CreateRole, SetPassword, LambdaInv, DatabaseNamed, Owes, LogsIn, Works,
         Complete
    <3>3. SoloInv'
      BY <2>3 DEF CreateRole, SetPassword, SoloInv, Running, Works, Complete
    <3>4. LibraryInv'
      BY <2>3 DEF CreateRole, SetPassword, LibraryInv, PublishedSoFar, Served, RoleServed,
         Publishes, Works, Complete
    <3>5. QED
      BY <3>1, <3>2, <3>3, <3>4
  <2>4. ASSUME NEW p \in Procs, RotateRole(p), UNCHANGED version PROVE CredentialsInv'
    <3>1. ResultIsFinal'
      BY <2>4 DEF RotateRole, SetPassword, ResultIsFinal
    <3>2. LambdaInv'
      BY <2>4 DEF RotateRole, SetPassword, LambdaInv, DatabaseNamed, Owes, LogsIn, Works,
         Complete
    <3>3. SoloInv'
      <4>1. Running(p) /\ solo' = solo /\ \A q \in Procs \ {p} : pc'[q] = pc[q]
        BY <2>4 DEF RotateRole, SetPassword, Running
      <4>2. CASE solo = p
        BY <2>4, <4>1, <4>2 DEF RotateRole, SetPassword, ResultIsFinal, SoloInv, Running
      <4>3. CASE solo # p
        BY <2>4, <4>1, <4>3 DEF SoloInv
      <4>4. QED
        BY <4>2, <4>3
    <3>4. LibraryInv'
      BY <2>4 DEF RotateRole, SetPassword, LibraryInv, PublishedSoFar, Served, RoleServed,
         Publishes, Works, Complete
    <3>5. QED
      BY <3>1, <3>2, <3>3, <3>4
  <2>5. ASSUME NEW p \in Procs, SsmComplete(p), UNCHANGED version PROVE CredentialsInv'
    <3>1. ResultIsFinal'
      BY <2>5 DEF SsmComplete, ResultIsFinal
    <3>2. LambdaInv'
      BY <2>5 DEF SsmComplete, LambdaInv, DatabaseNamed, Owes, LogsIn, Works, Complete
    <3>3. SoloInv'
      BY <2>5 DEF SsmComplete, SoloInv, Running, Works, Complete
    <3>4. LibraryInv'
      BY <2>5 DEF SsmComplete, LibraryInv, PublishedSoFar, Served, RoleServed, Publishes,
         Works, Complete
    <3>5. QED
      BY <3>1, <3>2, <3>3, <3>4
  <2>6. ASSUME NEW p \in Procs, PublishUsername(p), UNCHANGED version PROVE CredentialsInv'
    <3>1. ResultIsFinal'
      BY <2>6 DEF PublishUsername, ResultIsFinal
    <3>2. LambdaInv'
      BY <2>6 DEF PublishUsername, LambdaInv, DatabaseNamed, Owes, LogsIn, Works, Complete
    <3>3. SoloInv'
      BY <2>6 DEF PublishUsername, SoloInv, Running, Works, Complete
    <3>4. LibraryInv'
      BY <2>6 DEF PublishUsername, LibraryInv, PublishedSoFar, Served, RoleServed,
         Publishes, Works, Complete
    <3>5. QED
      BY <3>1, <3>2, <3>3, <3>4
  <2>7. ASSUME NEW p \in Procs, PublishPassword(p), UNCHANGED version PROVE CredentialsInv'
    <3>1. ResultIsFinal'
      BY <2>7 DEF PublishPassword, ResultIsFinal
    <3>2. LambdaInv'
      BY <2>7 DEF PublishPassword, LambdaInv, DatabaseNamed, Owes, LogsIn, Works, Complete
    <3>3. SoloInv'
      <4>1. Running(p) /\ solo' = solo /\ \A q \in Procs \ {p} : pc'[q] = pc[q]
        BY <2>7 DEF PublishPassword, Running
      <4>2. CASE solo = p
        BY <2>7, <4>1, <4>2 DEF PublishPassword, ResultIsFinal, SoloInv, Running
      <4>3. CASE solo # p
        BY <2>7, <4>1, <4>3 DEF SoloInv
      <4>4. QED
        BY <4>2, <4>3
    <3>4. LibraryInv'
      BY <2>7 DEF PublishPassword, LibraryInv, PublishedSoFar, Served, RoleServed,
         Publishes, Works, Complete
    <3>5. QED
      BY <3>1, <3>2, <3>3, <3>4
  <2>8. ASSUME NEW p \in Procs, PublishDatabase(p), UNCHANGED version PROVE CredentialsInv'
    <3>1. ResultIsFinal'
      BY <2>8 DEF PublishDatabase, ResultIsFinal
    <3>2. LambdaInv'
      BY <2>8 DEF PublishDatabase, LambdaInv, DatabaseNamed, Owes, LogsIn, Works, Complete
    <3>3. SoloInv'
      BY <2>8 DEF PublishDatabase, SoloInv, Running, Works, Complete
    <3>4. LibraryInv'
      BY <2>8 DEF PublishDatabase, LibraryInv, PublishedSoFar, Served, RoleServed,
         Publishes, Works, Complete
    <3>5. QED
      BY <3>1, <3>2, <3>3, <3>4
  <2>9. ASSUME NEW p \in Procs, NextRole(p), UNCHANGED version PROVE CredentialsInv'
    <3>1. ResultIsFinal'
      BY <2>9 DEF NextRole, ResultIsFinal
    <3>2. LambdaInv'
      BY <2>9 DEF NextRole, LambdaInv, DatabaseNamed, Owes, LogsIn, Works, Complete
    <3>3. SoloInv'
      BY <2>9 DEF NextRole, SoloInv, Running, Works, Complete
    <3>4. LibraryInv'
      <4>1. /\ pc[p] = "served" /\ UNCHANGED <<version, password, secure, named, secret, repaired, alive>>
            /\ \A q \in Procs \ {p} : pc'[q] = pc[q] /\ result'[q] = result[q] /\ role'[q] = role[q]
            /\ \/ /\ role[p] = "app" /\ role'[p] = "reader" /\ pc'[p] = "exists"
                  /\ result'[p] = result[p]
               \/ /\ role[p] = "reader" \/ repaired[p]
                  /\ role'[p] = "app" /\ pc'[p] \in {"read", "done"}
                  /\ version = "library" => pc'[p] = "done"
        BY <2>9 DEF NextRole
      <4>2. SUFFICES ASSUME version = "library" PROVE LibraryInv'
        BY <4>1 DEF LibraryInv
      <4>3. \A q \in Procs : /\ pc[q] \notin {"complete", "rotate", "read", "login"}
                             /\ ~repaired[q] /\ PublishedSoFar(q) /\ Served(q)
        BY <4>2 DEF LibraryInv
      <4>4. ASSUME NEW q \in Procs
            PROVE  /\ pc'[q] \notin {"complete", "rotate", "read", "login"} /\ ~repaired'[q]
                   /\ PublishedSoFar(q)' /\ Served(q)'
        <5>1. CASE q = p
          BY <4>1, <4>2, <4>3, <5>1 DEF PublishedSoFar, Served, ResultIsFinal
        <5>2. CASE q # p
          BY <4>1, <4>3, <5>2 DEF PublishedSoFar, Served
        <5>3. QED
          BY <5>1, <5>2
      <4>5. result[p] # "err"
        BY <4>1 DEF ResultIsFinal
      <4>6. ASSUME NEW r \in Roles PROVE RoleServed(r)'
        <5>1. RoleServed(r)
          BY <4>2 DEF LibraryInv
        <5>2. \A q \in Procs : Publishes(q, r) => Publishes(q, r)'
          BY <4>1 DEF Publishes
        <5>3. QED
          BY <4>1, <4>5, <5>1, <5>2 DEF RoleServed, Works, Complete
      <4>7. QED
        BY <4>4, <4>6 DEF LibraryInv
    <3>5. QED
      BY <3>1, <3>2, <3>3, <3>4
  <2>10. ASSUME NEW p \in Procs, ReadCredentials(p), UNCHANGED version PROVE CredentialsInv'
    <3>1. ResultIsFinal'
      BY <2>10 DEF ReadCredentials, None, ResultIsFinal
    <3>2. LambdaInv'
      BY <2>10 DEF ReadCredentials, None, LambdaInv, DatabaseNamed, Owes, LogsIn, Works,
         Complete
    <3>3. SoloInv'
      BY <2>10 DEF ReadCredentials, None, SoloInv, Running, Works, Complete
    <3>4. LibraryInv'
      BY <2>10 DEF ReadCredentials, None, LibraryInv, PublishedSoFar, Served, RoleServed,
         Publishes, Works, Complete
    <3>5. QED
      BY <3>1, <3>2, <3>3, <3>4
  <2>11. ASSUME NEW p \in Procs, VerifyLogin(p), UNCHANGED version PROVE CredentialsInv'
    <3>1. ResultIsFinal'
      BY <2>11 DEF VerifyLogin, ResultIsFinal
    <3>2. LambdaInv'
      <4>1. /\ pc[p] = "login" /\ UNCHANGED <<password, secure, named, role, secret, alive>>
            /\ \A q \in Procs \ {p} : pc'[q] = pc[q] /\ result'[q] = result[q]
                                      /\ repaired'[q] = repaired[q]
            /\ \/ LogsIn(p) /\ pc'[p] = "done" /\ repaired'[p] = repaired[p]
               \/ pc'[p] = "done" /\ result'[p] = "err" /\ repaired'[p] = repaired[p]
               \/ pc'[p] = "rotate"
        BY <2>11 DEF VerifyLogin, LogsIn
      <4>2. version = "lambda" => DatabaseNamed'
        BY <4>1 DEF LambdaInv, DatabaseNamed
      <4>3. Works("app") => Works("app")'
        BY <4>1 DEF Works, Complete
      <4>4. \A q \in Procs : Owes(q) => Owes(q)'
        BY <4>1 DEF ResultIsFinal, Owes, LogsIn
      <4>5. QED
        BY <4>2, <4>3, <4>4, <2>11 DEF LambdaInv
    <3>3. SoloInv'
      <4>1. /\ pc[p] = "login" /\ pc'[p] # "login" /\ solo' = solo
            /\ \A q \in Procs \ {p} : pc'[q] = pc[q]
            /\ result'[p] = "ok" => LogsIn(p)
            /\ UNCHANGED <<password, secure, named>>
        BY <2>11 DEF VerifyLogin, LogsIn, ResultIsFinal
      <4>2. CASE solo = p
        <5>1. version = "lambda" /\ result'[p] = "ok" => Works("app")'
          BY <4>1, <4>2 DEF LogsIn, SoloInv, LambdaInv, DatabaseNamed, Works, Complete
        <5>2. QED
          BY <2>11, <4>1, <4>2, <5>1 DEF SoloInv, Running
      <4>3. CASE solo # p
        BY <2>11, <4>1, <4>3 DEF SoloInv, Running
      <4>4. QED
        BY <4>2, <4>3
    <3>4. LibraryInv'
      BY <2>11 DEF VerifyLogin, LibraryInv, PublishedSoFar, Served, RoleServed, Publishes,
         Works, Complete
    <3>5. QED
      BY <3>1, <3>2, <3>3, <3>4
  <2>12. ASSUME NEW p \in Procs, Fail(p), UNCHANGED version PROVE CredentialsInv'
    <3>1. ResultIsFinal'
      BY <2>12 DEF Fail, ResultIsFinal, Running
    <3>2. LambdaInv'
      BY <2>12 DEF Fail, LambdaInv, DatabaseNamed, Owes, LogsIn, Works, Complete, Running
    <3>3. SoloInv'
      BY <2>12 DEF Fail, SoloInv, Running, Works, Complete
    <3>4. LibraryInv'
      BY <2>12 DEF Fail, LibraryInv, PublishedSoFar, Served, RoleServed, Publishes, Works,
         Complete, Running
    <3>5. QED
      BY <3>1, <3>2, <3>3, <3>4
  <2>13. ASSUME NEW p \in Procs, Die(p), UNCHANGED version PROVE CredentialsInv'
    <3>1. ResultIsFinal'
      BY <2>13 DEF Die, ResultIsFinal, Running
    <3>2. LambdaInv'
      BY <2>13 DEF Die, LambdaInv, DatabaseNamed, Owes, LogsIn, Works, Complete, Running
    <3>3. SoloInv'
      BY <2>13 DEF Die, SoloInv, Running, Works, Complete
    <3>4. LibraryInv'
      BY <2>13 DEF Die, LibraryInv, PublishedSoFar, Served, RoleServed, Publishes, Works,
         Complete, Running
    <3>5. QED
      BY <3>1, <3>2, <3>3, <3>4
  <2>14. ASSUME NEW p \in Procs, Vanish(p), UNCHANGED version PROVE CredentialsInv'
    <3>1. ResultIsFinal'
      BY <2>14 DEF Vanish, ResultIsFinal, Running
    <3>2. LambdaInv'
      BY <2>14 DEF Vanish, LambdaInv, DatabaseNamed, Owes, LogsIn, Works, Complete,
         Running
    <3>3. SoloInv'
      BY <2>14 DEF Vanish, SoloInv, Running, Works, Complete
    <3>4. LibraryInv'
      BY <2>14 DEF Vanish, LibraryInv, PublishedSoFar, Served, RoleServed, Publishes,
         Works, Complete, Running
    <3>5. QED
      BY <3>1, <3>2, <3>3, <3>4
  <2>15. CASE UNCHANGED vars
    BY <2>15 DEF vars, ResultIsFinal, LambdaInv, DatabaseNamed, Owes, LogsIn, SoloInv,
       Running, LibraryInv, PublishedSoFar, Served, RoleServed, Publishes, Works, Complete
  <2>16. QED
    BY <2>1, <2>2, <2>3, <2>4, <2>5, <2>6, <2>7, <2>8, <2>9, <2>10, <2>11, <2>12, <2>13,
       <2>14, <2>15 DEF Next, Step, Terminated
<1>3. QED
  BY <1>1, <1>2, TypeInductive, PTL DEF Spec


(***************************************************************************)
(* The theorems.                                                           *)
(***************************************************************************)

\* Every reachable state of the role credentials is well typed.
THEOREM TypeCorrect == Spec => []TypeOK
<1>1. QED
  BY TypeInductive, PTL

\* However any number of invocations interleave: when all of them returned Ok,
\* what SSM says of the app role is what PostgreSQL accepts; in the library
\* the same holds of the reader.
THEOREM Converges == Spec => []CredentialsConverge
<1>1. TypeOK /\ CredentialsInv => CredentialsConverge
  <2> SUFFICES ASSUME TypeOK, CredentialsInv, \A p \in Procs : result[p] = "ok"
               PROVE  Works("app") /\ (version = "library" => Works("reader"))
    BY DEF CredentialsConverge
  <2> USE RoleCredentialsAssumption DEF CredentialsInv
  <2>1. \A p \in Procs : pc[p] = "done" /\ p \in alive
    BY DEF ResultIsFinal
  <2>2. CASE version = "lambda"
    <3>1. \A p \in Procs : ~Owes(p)
      BY <2>1 DEF Owes
    <3>2. QED
      BY <2>2, <3>1 DEF LambdaInv
  <2>3. CASE version = "library"
    <3>1. \A r \in Roles : password[r] # None
      BY <2>3 DEF LibraryInv, Served
    <3>2. \A r \in Roles : RoleServed(r)
      BY <2>3 DEF LibraryInv
    <3>3. \A r \in Roles : Works(r)
      BY <2>1, <3>1, <3>2 DEF RoleServed, Publishes, Puts
    <3>4. QED
      BY <3>3 DEF Roles
  <2>4. QED
    BY <2>2, <2>3 DEF TypeOK
<1>2. QED
  BY <1>1, TypeInductive, CredentialsInductive, PTL

\* A Lambda invocation that had the project to itself repairs the app's
\* credentials, whatever the ones before it have left.
THEOREM SelfHeals == Spec => []AppSelfHeals
<1>1. CredentialsInv => AppSelfHeals
  BY DEF CredentialsInv, SoloInv, AppSelfHeals
<1>2. QED
  BY <1>1, CredentialsInductive, PTL
==============================================================================
