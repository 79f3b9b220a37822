-------------------------- MODULE RoleCredentials --------------------------
(***************************************************************************)
(* ensure_database of db-migrate (backend/db-migrate/src/main.rs): every   *)
(* migrate, noop and restore first makes sure, with no lock held, that the *)
(* project's app and reader roles exist and that SSM holds passwords that  *)
(* work.  Concurrent invocations interleave at every await.                *)
(*                                                                         *)
(* One project.  A password is the number of the call of generate_password *)
(* that made it.  The user names and the database name never vary, so of   *)
(* those parameters only the presence counts.  Reading a role's parameters *)
(* one after the other is one step: they are never deleted, so a read that *)
(* misses one could all have happened at that moment.                      *)
(*                                                                         *)
(* ensure_database of the library (ops.rs) is the same program without     *)
(* what repairs: a role that exists is taken to be served, and nobody logs *)
(* in.  Which of the two runs is `version`.                                *)
(***************************************************************************)
EXTENDS Naturals

CONSTANTS Procs,     \* Lambda invocations
          Versions,  \* the programs run: "lambda", "library"
          Faulty,    \* may a call fail, its reply be lost, the Lambda be killed?
          NoProc

ASSUME RoleCredentialsAssumption ==
    /\ Versions \subseteq {"lambda", "library"}
    /\ Faulty \in BOOLEAN
    /\ Procs # {} /\ NoProc \notin Procs

Roles == {"app", "reader"}
None  == 0   \* no password: no such role, no such parameter

VARIABLES
    version,   \* one of Versions, for the whole behaviour
    made,      \* passwords generated so far
    password,  \* PostgreSQL: the password of each role
    secure,    \* SSM: the password parameter of each role
    named,     \* SSM: the other parameters present, <<role, parameter>>
    pc,        \* the call each invocation makes next
    alive,     \* the invocations whose process runs
    role,      \* the role it is working on
    secret,    \* the password it generated, or read to log in with
    repaired,  \* is it past the rotation of repair_app_credentials_if_stale?
    result,    \* what ensure_database returned
    solo       \* history: the invocation that started last, if it started alone

store == <<made, password, secure, named>>
vars  == <<version, made, password, secure, named, pc, alive, role, secret, repaired,
           result, solo>>

Puts  == {"username", "put", "database"}
Calls == {"exists", "create", "complete", "rotate", "read", "login", "served"} \cup Puts
Running(p) == pc[p] \in Calls

\* The project is new, or was served before: both roles work.
Init ==
    /\ version \in Versions
    /\ made \in {0, 2}
    /\ password = IF made = 0 THEN [r \in Roles |-> None]
                  ELSE [r \in Roles |-> IF r = "app" THEN 1 ELSE 2]
    /\ secure = password
    /\ named = IF made = 0 THEN {} ELSE {<<"app", "username">>, <<"app", "database">>,
                                         <<"reader", "username">>}
    /\ pc = [p \in Procs |-> "idle"] /\ alive = Procs
    /\ role = [p \in Procs |-> "app"] /\ secret = [p \in Procs |-> None]
    /\ repaired = [p \in Procs |-> FALSE] /\ result = [p \in Procs |-> "none"]
    /\ solo = NoProc
-----------------------------------------------------------------------------
Goto(p, n) == pc' = [pc EXCEPT ![p] = n]

Return(p, r) == Goto(p, "done") /\ result' = [result EXCEPT ![p] = r]

\* The call has taken effect; its reply arrives, or does not.
Reply(p, n) ==
    \/ p \in alive /\ Goto(p, n) /\ UNCHANGED result
    \/ (p \notin alive \/ Faulty) /\ Return(p, "err")

At(p, n) == pc[p] = n /\ p \in alive

Complete(r) ==
    /\ secure[r] # None /\ <<r, "username">> \in named
    /\ r = "app" => <<r, "database">> \in named

\* What PostgreSQL accepts is what SSM says.
Works(r) == password[r] # None /\ secure[r] = password[r] /\ Complete(r)

Start(p) ==
    /\ pc[p] = "idle"
    /\ Goto(p, "exists")
    /\ solo' = IF \E q \in Procs : Running(q) THEN NoProc ELSE p
    /\ UNCHANGED <<store, alive, role, secret, repaired, result>>

\* Mutant: the missing role is nobody's case.
RoleMissing(p) ==
    /\ At(p, "exists")
    /\ Goto(p, IF password[role[p]] = None THEN "missing" ELSE "complete")
    /\ UNCHANGED <<store, alive, role, secret, repaired, result, solo>>

RoleExists(p) ==
    /\ At(p, "exists")
    /\ Goto(p, CASE password[role[p]] = None -> "create"
                 [] version = "lambda" -> "complete"
                 [] OTHER -> "served")
    /\ UNCHANGED <<store, alive, role, secret, repaired, result, solo>>

\* CREATE ROLE or ALTER ROLE with a password nobody has seen before.
SetPassword(p) ==
    /\ made' = made + 1
    /\ password' = [password EXCEPT ![role[p]] = made + 1]
    /\ secret' = [secret EXCEPT ![p] = made + 1]
    /\ Reply(p, "username")
    /\ UNCHANGED <<secure, named, alive, role, repaired, solo>>

\* Mutant: the library publishes what it generated although the role is there.
CreateOrReplace(p) ==
    /\ pc[p] = "create"
    /\ IF password[role[p]] = None THEN SetPassword(p)
       ELSE /\ made' = made + 1 /\ secret' = [secret EXCEPT ![p] = made + 1]
            /\ Reply(p, "username")
            /\ UNCHANGED <<password, secure, named, alive, role, repaired, solo>>

\* The check and the CREATE are two statements.
CreateRole(p) == pc[p] = "create" /\ password[role[p]] = None /\ SetPassword(p)

RotateRole(p) == pc[p] = "rotate" /\ SetPassword(p)

\* is_err() of any GetParameter means incomplete, that of a throttled one too.
SsmComplete(p) ==
    /\ At(p, "complete")
    /\ \/ Complete(role[p]) /\ Goto(p, "served")
       \/ (~Complete(role[p]) \/ Faulty) /\ Goto(p, "rotate")
    /\ UNCHANGED <<store, alive, role, secret, repaired, result, solo>>

PublishUsername(p) ==
    /\ pc[p] = "username"
    /\ named' = named \cup {<<role[p], "username">>}
    /\ Reply(p, "put")
    /\ UNCHANGED <<made, password, secure, alive, role, secret, repaired, solo>>

PublishPassword(p) ==
    /\ pc[p] = "put"
    /\ secure' = [secure EXCEPT ![role[p]] = secret[p]]
    /\ Reply(p, IF role[p] = "app" THEN "database" ELSE "served")
    /\ UNCHANGED <<made, password, named, alive, role, secret, repaired, solo>>

PublishDatabase(p) ==
    /\ pc[p] = "database"
    /\ named' = named \cup {<<role[p], "database">>}
    /\ Reply(p, "served")
    /\ UNCHANGED <<made, password, secure, alive, role, secret, repaired, solo>>

\* The app role is served: on to the reader role.  The reader role is served:
\* grants, and (not in the library) on to the check of the app's credentials.
NextRole(p) ==
    /\ At(p, "served")
    /\ IF role[p] = "app" /\ ~repaired[p]
       THEN role' = [role EXCEPT ![p] = "reader"] /\ Goto(p, "exists") /\ UNCHANGED result
       ELSE /\ role' = [role EXCEPT ![p] = "app"]
            /\ IF version = "lambda" THEN Goto(p, "read") /\ UNCHANGED result
               ELSE Return(p, "ok")
    /\ UNCHANGED <<store, alive, secret, repaired, solo>>

\* connect_as_app: both parameters are read first, the login comes later.
ReadCredentials(p) ==
    /\ At(p, "read")
    /\ secret' = [secret EXCEPT ![p] =
                    IF <<"app", "username">> \in named THEN secure["app"] ELSE None]
    /\ Goto(p, "login")
    /\ UNCHANGED <<store, alive, role, repaired, result, solo>>

\* Mutant: what SSM holds is taken to be good.
TrustStored(p) ==
    /\ At(p, "login") /\ secret[p] # None
    /\ Return(p, "ok")
    /\ UNCHANGED <<store, alive, role, secret, repaired, solo>>

\* A login that fails, for whatever reason, is answered with a rotation; the
\* second one that fails ends the invocation.
VerifyLogin(p) ==
    /\ At(p, "login")
    /\ \/ /\ secret[p] # None /\ secret[p] = password["app"]
          /\ Return(p, "ok") /\ UNCHANGED repaired
       \/ /\ secret[p] = None \/ secret[p] # password["app"] \/ Faulty
          /\ IF repaired[p] THEN Return(p, "err") /\ UNCHANGED repaired
             ELSE /\ repaired' = [repaired EXCEPT ![p] = TRUE]
                  /\ Goto(p, "rotate") /\ UNCHANGED result
    /\ UNCHANGED <<store, alive, role, secret, solo>>

\* Any other call that fails ends the invocation: CREATE ROLE of a role that
\* is there by now, or a fault.
Fail(p) ==
    /\ At(p, pc[p]) /\ Running(p)
    /\ Faulty \/ (pc[p] = "create" /\ password[role[p]] # None)
    /\ Return(p, "err")
    /\ UNCHANGED <<store, alive, role, secret, repaired, solo>>

\* The Lambda is killed; the call it had sent still lands, or never does.
Die(p) ==
    /\ Faulty /\ p \in alive /\ Running(p)
    /\ alive' = alive \ {p}
    /\ UNCHANGED <<store, pc, role, secret, repaired, result, solo>>
Vanish(p) ==
    /\ p \notin alive /\ Running(p)
    /\ Return(p, "err")
    /\ UNCHANGED <<store, alive, role, secret, repaired, solo>>

Step(p) ==
    \/ RoleExists(p) \/ CreateRole(p) \/ RotateRole(p) \/ SsmComplete(p)
    \/ PublishUsername(p) \/ PublishPassword(p) \/ PublishDatabase(p)
    \/ NextRole(p) \/ ReadCredentials(p) \/ VerifyLogin(p)

Terminated == (\A p \in Procs : pc[p] = "done") /\ UNCHANGED vars

Next ==
    /\ UNCHANGED version
    /\ \/ \E p \in Procs : Start(p) \/ Step(p) \/ Fail(p) \/ Die(p) \/ Vanish(p)
       \/ Terminated

Spec == Init /\ [][Next]_vars
-----------------------------------------------------------------------------
\* The values that PostgreSQL, SSM and each invocation's locals take.
TypeOK ==
    /\ version \in Versions
    /\ made \in Nat /\ password \in [Roles -> Nat] /\ secure \in [Roles -> Nat]
    /\ named \subseteq Roles \X {"username", "database"}
    /\ pc \in [Procs -> Calls \cup {"idle", "done"}] /\ alive \subseteq Procs
    /\ role \in [Procs -> Roles] /\ secret \in [Procs -> Nat]
    /\ repaired \in [Procs -> BOOLEAN]
    /\ result \in [Procs -> {"none", "ok", "err"}]
    /\ solo \in Procs \cup {NoProc}

\* When every invocation that ran has returned Ok, the app role's credentials
\* in SSM work, however the invocations interleaved; in the library, where
\* nothing is rotated, the reader's too.
CredentialsConverge ==
    (\A p \in Procs : result[p] = "ok") =>
        /\ Works("app")
        /\ version = "library" => Works("reader")

\* A Lambda invocation that had the project to itself and returned Ok leaves
\* app credentials that work, whatever kills, faults and races had left before.
AppSelfHeals ==
    version = "lambda" /\ solo # NoProc /\ result[solo] = "ok" => Works("app")

\* "Self-healing: if a role already exists but its SSM credentials are missing
\* or stale, rotate the role's password with ALTER ROLE and republish all SSM
\* params" (main.rs:523): then both roles' credentials work after such an
\* invocation.
SelfHealing == solo # NoProc /\ result[solo] = "ok" => \A r \in Roles : Works(r)
=============================================================================
