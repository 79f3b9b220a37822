---------------------------- MODULE TrueNasRoles ----------------------------
(***************************************************************************)
(* The db-migrate-truenas Lambda (backend/db-migrate-truenas/src/main.rs): *)
(* ensure_database for one registered database.  As in RoleCredentials     *)
(* nothing is locked, but here SSM also holds an assembled URL, and nobody *)
(* tries the credentials: parameters that are there are believed.          *)
(*                                                                         *)
(* A password is the number of the generate_password that made it; a URL   *)
(* is the password inside it.  Grants are idempotent and left out.  A      *)
(* role's parameters are read in one step: they are never deleted.         *)
(***************************************************************************)
EXTENDS Invocation

CONSTANTS Procs   \* the invocations of this Lambda

ASSUME TrueNasAssumption == Procs \subseteq Invocations

Roles == {"app", "reader"}
None  == 0

VARIABLES
    database,  \* pg_database has it
    made,      \* passwords generated so far
    password,  \* PostgreSQL: the password of each role
    url,       \* SSM: the password in each role's url
    secure,    \* SSM: each role's password parameter
    named,     \* SSM: the other parameters present, <<role, parameter>>
    role,      \* the role each invocation is working on
    secret,    \* the password it generated, or read
    clashed    \* history: the rotations, <<invocation, role>>, that overlapped
               \* another of that role, or that an SSM error brought about

store == <<database, made, password, url, secure, named>>
roleVars == <<store, role, secret, clashed>>

Names == {"username", "database"}
Calls == {"find", "createdb", "exists", "create", "complete", "rotate", "url",
          "username", "put", "database", "stored", "fetch", "backfill", "served"}

\* What the parameters of a role are after the first k calls of its first
\* publication; or before the URL was published, with the rest.
Histories == {[url |-> k >= 1, secure |-> k >= 3,
               named |-> {n \in Names : k >= IF n = "username" THEN 2 ELSE 4}] : k \in 0..4}
             \cup {[url |-> FALSE, secure |-> TRUE, named |-> Names]}

\* A new database, or what an invocation left that ended anywhere.
InitRoles ==
    /\ database \in BOOLEAN
    /\ \E had \in {{}, {"app"}, Roles}, left \in [Roles -> Histories] :
          LET pw(r) == IF r = "app" THEN 1 ELSE 2
          IN  /\ ~database => had = {}
              /\ had = Roles => left["app"].named = Names
              /\ password = [r \in Roles |-> IF r \in had THEN pw(r) ELSE None]
              /\ url = [r \in Roles |-> IF r \in had /\ left[r].url THEN pw(r) ELSE None]
              /\ secure = [r \in Roles |-> IF r \in had /\ left[r].secure THEN pw(r) ELSE None]
              /\ named = {rn \in had \X Names : rn[2] \in left[rn[1]].named}
    /\ made = 2
    /\ role = [p \in Procs |-> "app"] /\ secret = [p \in Procs |-> None]
    /\ clashed = {}
-----------------------------------------------------------------------------
Complete(r) == secure[r] # None /\ {r} \X Names \subseteq named

\* What PostgreSQL accepts is what SSM says, in both places.
Works(r) == Complete(r) /\ secure[r] = password[r] /\ url[r] = password[r]

Start(p) ==
    /\ Begin(p, "find", {}) /\ UNCHANGED roleVars

\* create_database_if_missing: a SELECT, then the CREATE.
FindDatabase(p) ==
    /\ At(p, "find") /\ Proceed(p, IF database THEN "exists" ELSE "createdb")
    /\ UNCHANGED roleVars

CreateDatabase(p) ==
    /\ pc[p] = "createdb" /\ ~database
    /\ database' = TRUE
    /\ Reply(p, "exists")
    /\ UNCHANGED <<made, password, url, secure, named, role, secret, clashed>>

RoleExists(p) ==
    /\ At(p, "exists")
    /\ Proceed(p, IF password[role[p]] = None THEN "create" ELSE "complete")
    /\ UNCHANGED roleVars

\* Mutant: a missing URL makes the parameters incomplete.
UrlIsRequired(p) ==
    /\ At(p, "complete")
    /\ Proceed(p, IF Complete(role[p]) /\ url[role[p]] # None THEN "stored" ELSE "rotate")
    /\ UNCHANGED roleVars

Rotates(q, r) ==
    role[q] = r /\ pc[q] \in {"rotate", "url", "username", "put", "database"}

\* The rotations of r that clash when p decides on one.
Clash(p, r) ==
    LET rivals == {q \in Procs : Rotates(q, r)} IN
    IF rivals # {} \/ Complete(r) THEN (rivals \cup {p}) \X {r} ELSE {}

\* is_err() of any GetParameter means incomplete, that of a throttled one too.
CredentialsComplete(p) ==
    LET r == role[p] IN
    /\ At(p, "complete")
    /\ \/ Complete(r) /\ Proceed(p, "stored") /\ UNCHANGED clashed
       \/ /\ ~Complete(r) \/ Faulty
          /\ Proceed(p, "rotate")
          /\ clashed' = clashed \cup Clash(p, r)
    /\ UNCHANGED <<store, role, secret>>

SetPassword(p) ==
    /\ made' = made + 1
    /\ password' = [password EXCEPT ![role[p]] = made + 1]
    /\ secret' = [secret EXCEPT ![p] = made + 1]
    /\ Reply(p, "url")
    /\ UNCHANGED <<database, url, secure, named, role, clashed>>

CreateRole(p) == pc[p] = "create" /\ password[role[p]] = None /\ SetPassword(p)
RotateRole(p) == pc[p] = "rotate" /\ SetPassword(p)

PutUrl(p) ==
    /\ url' = [url EXCEPT ![role[p]] = secret[p]]
    /\ UNCHANGED <<database, made, password, secure, named, role, secret, clashed>>

PutName(p, n) ==
    /\ named' = named \cup {<<role[p], n>>}
    /\ UNCHANGED <<database, made, password, url, secure, role, secret, clashed>>

PutPassword(p) ==
    /\ secure' = [secure EXCEPT ![role[p]] = secret[p]]
    /\ UNCHANGED <<database, made, password, url, named, role, secret, clashed>>

\* Mutant: the names first, the secrets after them.
PublishNamesFirst(p) ==
    \/ pc[p] = "url" /\ PutName(p, "username") /\ Reply(p, "username")
    \/ pc[p] = "username" /\ PutName(p, "database") /\ Reply(p, "put")
    \/ pc[p] = "put" /\ PutPassword(p) /\ Reply(p, "database")
    \/ pc[p] = "database" /\ PutUrl(p) /\ Reply(p, "served")

\* publish_role_credentials: four PutParameters.
Publish(p) ==
    \/ pc[p] = "url" /\ PutUrl(p) /\ Reply(p, "username")
    \/ pc[p] = "username" /\ PutName(p, "username") /\ Reply(p, "put")
    \/ pc[p] = "put" /\ PutPassword(p) /\ Reply(p, "database")
    \/ pc[p] = "database" /\ PutName(p, "database") /\ Reply(p, "served")

\* Mutant: the URL gets a password of its own.
BackfillGenerates(p) ==
    \/ /\ At(p, "stored")
       /\ Proceed(p, IF url[role[p]] # None THEN "served" ELSE "fetch")
       /\ UNCHANGED roleVars
    \/ /\ At(p, "fetch") /\ Proceed(p, "backfill")
       /\ made' = made + 1 /\ secret' = [secret EXCEPT ![p] = made + 1]
       /\ UNCHANGED <<database, password, url, secure, named, role, clashed>>
    \/ pc[p] = "backfill" /\ PutUrl(p) /\ Reply(p, "served")

\* backfill_url: is the URL there (an error says no); which password is
\* published; put the URL.
BackfillUrl(p) ==
    \/ /\ At(p, "stored")
       /\ \/ url[role[p]] # None /\ Proceed(p, "served")
          \/ (url[role[p]] = None \/ Faulty) /\ Proceed(p, "fetch")
       /\ UNCHANGED roleVars
    \/ /\ At(p, "fetch") /\ Proceed(p, "backfill")
       /\ secret' = [secret EXCEPT ![p] = secure[role[p]]]
       /\ UNCHANGED <<store, role, clashed>>
    \/ pc[p] = "backfill" /\ PutUrl(p) /\ Reply(p, "served")

\* On to the reader role; then grants, and Ok.
NextRole(p) ==
    /\ At(p, "served")
    /\ \/ /\ role[p] = "app"
          /\ role' = [role EXCEPT ![p] = "reader"]
          /\ Proceed(p, "exists")
       \/ role[p] = "reader" /\ Return(p, "ok") /\ UNCHANGED role
    /\ UNCHANGED <<store, secret, clashed>>

\* Another call fails: a CREATE of what is there by now, or a fault.
Fail(p) ==
    /\ At(p, pc[p]) /\ Running(p)
    /\ \/ Faulty
       \/ pc[p] = "createdb" /\ database
       \/ pc[p] = "create" /\ password[role[p]] # None
    /\ Return(p, "err")
    /\ UNCHANGED roleVars

EnsureDatabase(p) ==
    \/ Start(p) \/ FindDatabase(p) \/ CreateDatabase(p) \/ RoleExists(p) \/ CredentialsComplete(p)
    \/ CreateRole(p) \/ RotateRole(p) \/ Publish(p) \/ BackfillUrl(p) \/ NextRole(p)
    \/ Fail(p)
-----------------------------------------------------------------------------
\* The values that PostgreSQL, SSM and each invocation's locals take; a
\* conjunct of the type invariant of KomodoProxy.
RolesTypeOK ==
    /\ database \in BOOLEAN /\ made \in Nat
    /\ password \in [Roles -> Nat] /\ url \in [Roles -> Nat] /\ secure \in [Roles -> Nat]
    /\ named \subseteq Roles \X Names
    /\ role \in [Procs -> Roles] /\ secret \in [Procs -> Nat]
    /\ clashed \subseteq Procs \X Roles

\* A role with a clash is one of which two rotations overlapped (main.rs:355-364
\* decides without a lock), or one that was rotated because SSM failed to read
\* what is there (main.rs:189).
Clashed(r) == \E p \in Procs : <<p, r>> \in clashed

\* Nobody tries the credentials, so their presence has to vouch for them: as
\* long as a role has seen no clash, complete parameters are its own, whatever
\* was killed or failed between ALTER ROLE and the last PutParameter
\* (main.rs:204-298), and whatever has happened to the other role.
CompleteMeansCurrent ==
    \A r \in Roles : ~Clashed(r) /\ Complete(r) =>
        /\ secure[r] = password[r]
        /\ url[r] \in {password[r], None}

\* Once an invocation has returned Ok, each role has parameters and a URL that
\* work until that role sees a clash: kills, failures and rotations of the
\* other role take nothing away (main.rs:348-376, 429-478).
OkMeansUsable ==
    (\E p \in Procs : result[p] = "ok") => \A r \in Roles : Clashed(r) \/ Works(r)

\* Whoever replaces a password that consumers hold, one whose parameters are
\* complete, does it with a rotation that clashed: a missing URL alone rotates
\* nothing (main.rs:358-360), nor does a rotation that had the role to itself.
CompleteIsKept ==
    [][\A r \in Roles : Complete(r) /\ password'[r] # password[r] =>
          \E p \in Procs : role[p] = r /\ pc[p] = "rotate" /\ <<p, r>> \in clashed]_roleVars
=============================================================================
