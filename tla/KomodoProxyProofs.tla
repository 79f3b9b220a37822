--------------------------- MODULE KomodoProxyProofs ---------------------------
(***************************************************************************)
(* Proofs about TrueNasRoles and KomodoProxy, for any invocations of both  *)
(* Lambdas and any requests.                                               *)
(*                                                                         *)
(* Nobody locks a role and nobody tries its credentials.  What stands in   *)
(* for both is the order of the four PutParameters (RolesInv): the last of *)
(* them decides whether a role is complete, so one that rotates is alone   *)
(* with its role until it has written them all, unless rotations clash;    *)
(* what is said of a role ends with its first clash.  Which rotations may  *)
(* clash is an invariant of its own (RotationsOK), without that condition. *)
(* A proxy that begins to read sound parameters resolves every value to    *)
(* the same password (ProxyOK), whatever happened before its first read    *)
(* and however its reads are interleaved with backfills.                   *)
(***************************************************************************)
EXTENDS KomodoProxy, SequenceTheorems, TLAPS

Steps == Calls \cup ProxyCalls

RuntimeOK ==
    /\ pc \in [Invocations -> Steps \cup {"idle", "done"}]
    /\ alive \subseteq Invocations /\ alone \in [Invocations -> BOOLEAN]
    /\ result \in [Invocations -> {"none", "ok", "err"}]

(***************************************************************************)
(* The roles.  A rotation that does not clash is decided only where the    *)
(* parameters are incomplete, and `database` is the last of them to be     *)
(* written: until then whoever rotates a role is alone with it, and from   *)
(* then on nobody rotates it again.                                        *)
(***************************************************************************)
Rotating    == {"rotate", "url", "username", "put", "database"}
Backfilling == {"stored", "fetch", "backfill"}
WithRole    == Rotating \cup Backfilling \cup {"complete", "served"}

On(p, r, S)  == role[p] = r /\ pc[p] \in S
Published(r) == <<r, "database">> \in named

RoleOK(r) ==
    /\ password[r] = None => /\ secure[r] = None /\ url[r] = None /\ ~Published(r)
                             /\ \A p \in Procs : ~On(p, r, WithRole)
    /\ Published(r) => /\ Complete(r) /\ secure[r] = password[r]
                       /\ url[r] \in {password[r], None}
                       /\ \A p \in Procs : ~On(p, r, Rotating)
    /\ \A p, q \in Procs : On(p, r, Rotating) /\ On(q, r, Rotating) => p = q

\* What an invocation knows of its role, and of the app role once past it.
WorkOK(p) ==
    LET r == role[p] IN
    /\ pc[p] \in {"url", "username", "put", "database"} => secret[p] = password[r]
    /\ pc[p] \in {"username", "put", "database"} => url[r] = password[r]
    /\ pc[p] \in {"put", "database"} => <<r, "username">> \in named
    /\ pc[p] = "database" => secure[r] = password[r]
    /\ pc[p] \in Backfilling => Published(r)
    /\ pc[p] = "backfill" => secret[p] = password[r]
    /\ pc[p] = "served" => Works(r)

Trusted(r) == Clashed(r) \/ Works(r)

ProcOK(p) ==
    /\ Clashed(role[p]) \/ WorkOK(p)
    /\ role[p] = "reader" => Trusted("app")
    /\ result[p] = "ok" => Trusted("app") /\ Trusted("reader")

RolesInv == (\A r \in Roles : Clashed(r) \/ RoleOK(r)) /\ (\A p \in Procs : ProcOK(p))

\* Which rotations clash: two of one role, and one of a complete role.
RotationsOK ==
    \A r \in Roles :
        /\ password[r] = None => secure[r] = None /\ \A p \in Procs : ~On(p, r, WithRole)
        /\ \A p, q \in Procs : On(p, r, Rotating) /\ On(q, r, Rotating) => p = q \/ <<p, r>> \in clashed
        /\ \A p \in Procs : On(p, r, {"rotate"}) /\ Complete(r) => <<p, r>> \in clashed

(***************************************************************************)
(* The proxies.  What is left of a request is its end.                     *)
(***************************************************************************)
HasDeployed(p) == \E i, j \in 1..Done(p) :
                    i < j /\ request[p][i] = "environment" /\ request[p][j] = "deploy"

AtAction(call, action) ==
    CASE call = "resolve" -> Resolves(action)
      [] call = "update"  -> action = "variables"
      [] OTHER            -> call = action

RequestOK(p) ==
    /\ pc[p] = "idle" => resolved[p] = Empty
    /\ alone[p] \/ sound[p] \/ pc[p] # "idle" => request[p] \in Requests
    /\ alone[p] => pc[p] # "idle" /\ \A q \in Proxies \ {p} : ~Running(q)
    /\ pc[p] # "idle" =>
          /\ Done(p) \in Nat
          /\ \A i \in 1..Len(left[p]) : left[p][i] = request[p][Done(p) + i]
    /\ Running(p) => /\ left[p] # <<>>
                     /\ AtAction(pc[p], left[p][1])
    /\ pc[p] \in {"variables", "update"} => towrite[p] # <<>>
    /\ pc[p] = "environment" => \A r \in Refs : resolved[p][r] # None
    /\ result[p] = "ok" => pc[p] = "done" /\ left[p] = <<>>

\* What a proxy that is alone has set is what it wrote; and what it has read
\* from sound parameters works.
HasRead(p) == left[p] # <<>> /\ left[p][1] = "environment" /\ resolved[p] # Empty

ProxyOK(p) ==
    /\ alone[p] /\ HasSet(p) => env = wrote[p] /\ \A r \in Refs : wrote[p][r] # None
    /\ sound[p] /\ ~Clashed("app") =>
          /\ HasSet(p) => Works("app")
          /\ HasRead(p) => Works("app") /\ \A r \in Refs : resolved[p][r] \in {None, password["app"]}
          /\ alone[p] /\ HasSet(p) => \A r \in Refs : env[r] = password["app"]
          /\ alone[p] /\ HasDeployed(p) => \A r \in Refs : deployed[r] = password["app"]

ProxiesOK == \A p \in Proxies : RequestOK(p) /\ ProxyOK(p)

-----------------------------------------------------------------------------
LEMMA Words ==
    Steps = {"find", "createdb", "exists", "create", "complete", "rotate", "url", "username",
             "put", "database", "stored", "fetch", "backfill", "served", "resolve",
             "update", "variables", "environment", "servers", "deploy"}
  BY DEF Steps, Calls, ProxyCalls, Actions

\* How a call ends: at call n, or done, and for nobody else.
Moves(p, n) ==
    /\ alone' = alone
    /\ \A q \in Invocations : q # p => pc'[q] = pc[q] /\ result'[q] = result[q]
    /\ \/ pc'[p] = n /\ n # "ok" /\ result'[p] = result[p]
       \/ pc'[p] = "done" /\ (result'[p] = "ok" => n = "ok")

LEMMA CallEnds ==
    ASSUME RuntimeOK, NEW p \in Invocations, NEW n \in Steps \cup {"ok"},
           Proceed(p, n) \/ Reply(p, n) \/ Return(p, "err")
    PROVE  RuntimeOK' /\ Moves(p, n)
  <1>1. CASE pc' = [pc EXCEPT ![p] = n] /\ n # "ok" /\ UNCHANGED <<alive, result, alone>>
      BY <1>1 DEF RuntimeOK, Moves
  <1>2. CASE n = "ok" /\ Return(p, "ok")
      BY <1>2 DEF RuntimeOK, Return, Moves
  <1>3. CASE Return(p, "err")
      BY <1>3 DEF RuntimeOK, Return, Moves
  <1>4. QED
      BY <1>1, <1>2, <1>3 DEF Proceed, Reply

LEMMA CompleteIs ==
    ASSUME NEW r
    PROVE  /\ Complete(r) <=> secure[r] # None /\ <<r, "username">> \in named /\ Published(r)
           /\ Complete(r)' <=> secure'[r] # None /\ <<r, "username">> \in named' /\ Published(r)'
  BY DEF Complete, Names, Published

\* A step that leaves what r's credentials are in PostgreSQL and in SSM.
Leaves(r) ==
    /\ password'[r] = password[r] /\ url'[r] = url[r] /\ secure'[r] = secure[r]
    /\ \A n \in Names : <<r, n>> \in named' <=> <<r, n>> \in named

LEMMA SameCredentials ==
    ASSUME NEW r, Leaves(r)
    PROVE  /\ password'[r] = password[r] /\ url'[r] = url[r] /\ secure'[r] = secure[r]
           /\ <<r, "username">> \in named' <=> <<r, "username">> \in named
           /\ Published(r)' <=> Published(r)
           /\ Complete(r)' <=> Complete(r)
           /\ Works(r)' <=> Works(r)
  <1>1. /\ <<r, "username">> \in named' <=> <<r, "username">> \in named
        /\ Published(r)' <=> Published(r)
      BY DEF Leaves, Names, Published
  <1>2. Complete(r)' <=> Complete(r)
      BY <1>1, CompleteIs DEF Leaves
  <1>3. QED
      BY <1>1, <1>2 DEF Leaves, Works

\* The locals of the others.
OthersStay(p) == \A q \in Procs : q # p =>
    pc'[q] = pc[q] /\ result'[q] = result[q] /\ role'[q] = role[q] /\ secret'[q] = secret[q]

ClashesStay == \A r \in Roles : Clashed(r) => Clashed(r)'

\* A step of p that writes no role's credentials.
LEMMA QuietStep ==
    ASSUME RolesTypeOK, RolesInv, NEW p \in Procs, OthersStay(p), ClashesStay,
           NEW t \in Roles, t = role'[p],
           \A r \in Roles : Leaves(r),
           ProcOK(p)',
           pc'[p] \in WithRole => password[t] # None,
           pc'[p] \in Rotating =>
               \/ pc[p] \in Rotating /\ role[p] = t
               \/ ~Published(t) /\ \A q \in Procs : ~On(q, t, Rotating)
    PROVE  RolesInv'
  <1>1. ASSUME NEW r \in Roles, ~Clashed(r)' PROVE RoleOK(r)'
    <2>1. /\ password'[r] = password[r] /\ url'[r] = url[r] /\ secure'[r] = secure[r]
          /\ (Published(r)' <=> Published(r)) /\ (Complete(r)' <=> Complete(r))
        BY <1>1, SameCredentials
    <2>2. RoleOK(r)
        BY <1>1 DEF RolesInv, ClashesStay
    <2>3. ASSUME NEW q \in Procs, On(q, r, WithRole)'
          PROVE  password[r] # None
        BY <1>1, <2>2, <2>3 DEF RoleOK, On, OthersStay
    <2>4. ASSUME NEW q \in Procs, On(q, r, Rotating)'
          PROVE  ~Published(r) /\ \A s \in Procs : On(s, r, Rotating)' => s = q
        BY <1>1, <2>2, <2>4 DEF RoleOK, On, OthersStay
    <2>5. QED
        BY <2>1, <2>2, <2>3, <2>4 DEF RoleOK
  <1>2. ASSUME NEW q \in Procs, q # p PROVE ProcOK(q)'
    <2>1. /\ pc'[q] = pc[q] /\ result'[q] = result[q] /\ role'[q] = role[q]
          /\ secret'[q] = secret[q] /\ role[q] \in Roles /\ ProcOK(q)
        BY <1>2 DEF OthersStay, RolesInv, RolesTypeOK
    <2>2. \A r \in Roles :
             /\ password'[r] = password[r] /\ url'[r] = url[r] /\ secure'[r] = secure[r]
             /\ <<r, "username">> \in named' <=> <<r, "username">> \in named
             /\ (Published(r)' <=> Published(r)) /\ (Works(r)' <=> Works(r))
        BY SameCredentials
    <2>3. WorkOK(q) => WorkOK(q)'
        BY <2>1, <2>2 DEF WorkOK
    <2>4. \A r \in Roles : Trusted(r) => Trusted(r)'
        BY <2>2 DEF Trusted, ClashesStay
    <2>5. QED
        BY <2>1, <2>3, <2>4 DEF ProcOK, ClashesStay, Roles
  <1>3. QED
      BY <1>1, <1>2 DEF RolesInv

\* A step of the one that creates or rotates r: nobody else relies on r.
LEMMA AloneWithRole ==
    ASSUME RolesTypeOK, RolesInv, NEW p \in Procs, NEW r \in Roles, r = role[p],
           ~Clashed(r)', ClashesStay,
           pc[p] \in Rotating \/ password[r] = None,
           OthersStay(p), role'[p] = role[p],
           \A s \in Roles : s # r => Leaves(s)
    PROVE  /\ \A q \in Procs : q # p => ProcOK(q)' /\ ~On(q, r, Rotating) /\ ~On(q, r, Rotating)'
           /\ \A s \in Roles : s # r => Clashed(s)' \/ RoleOK(s)'
           /\ \A s \in Roles : Works(s) => s # r /\ Works(s)' /\ password'[s] = password[s]
           /\ ~Published(r) /\ (r = "reader" => Trusted("app")')
           /\ result[p] # "ok"
  <1>1. RoleOK(r) /\ ProcOK(p) /\ ~Clashed(r)
      BY DEF RolesInv, ClashesStay
  <1>2. ~Published(r) /\ ~Works(r) /\ \A q \in Procs : q # p => ~On(q, r, Rotating)
      BY <1>1, CompleteIs DEF RoleOK, On, Works, WithRole
  <1>3. \A q \in Procs : q # p => ~On(q, r, WithRole \ {"complete"})
    <2>1. ASSUME NEW q \in Procs, q # p, On(q, r, Backfilling \cup {"served"}) PROVE FALSE
      <3>1. WorkOK(q)
          BY <1>1, <2>1 DEF RolesInv, ProcOK, On
      <3>2. QED
          BY <1>2, <2>1, <3>1 DEF WorkOK, On
    <2>2. QED
        BY <1>2, <2>1 DEF On, WithRole
  <1>4. \A s \in Roles : s # r =>
           /\ password'[s] = password[s] /\ url'[s] = url[s] /\ secure'[s] = secure[s]
           /\ <<s, "username">> \in named' <=> <<s, "username">> \in named
           /\ (Published(s)' <=> Published(s)) /\ (Complete(s)' <=> Complete(s))
           /\ (Works(s)' <=> Works(s))
      BY SameCredentials
  <1>5. /\ \A s \in Roles : Works(s) => s # r /\ Works(s)' /\ password'[s] = password[s]
        /\ \A s \in Roles : Trusted(s) => s # r /\ Trusted(s)'
      BY <1>1, <1>2, <1>4 DEF Trusted, ClashesStay
  <1>6. ASSUME NEW q \in Procs, q # p PROVE ProcOK(q)'
    <2>1. /\ pc'[q] = pc[q] /\ result'[q] = result[q] /\ role'[q] = role[q]
          /\ secret'[q] = secret[q] /\ role[q] \in Roles /\ ProcOK(q)
        BY <1>6 DEF OthersStay, RolesInv, RolesTypeOK
    <2>2. CASE role[q] = r
      <3>1. WorkOK(q)'
          BY <1>3, <1>6, <2>1, <2>2 DEF WorkOK, On, WithRole, Rotating, Backfilling
      <3>2. QED
          BY <1>5, <2>1, <2>2, <3>1 DEF ProcOK, Roles
    <2>3. CASE role[q] # r
      <3>1. WorkOK(q) => WorkOK(q)'
          BY <1>4, <2>1, <2>3 DEF WorkOK
      <3>2. QED
          BY <1>5, <2>1, <2>3, <3>1 DEF ProcOK, ClashesStay, Roles
    <2>4. QED
        BY <2>2, <2>3
  <1>7. ASSUME NEW s \in Roles, s # r, ~Clashed(s)' PROVE RoleOK(s)'
    <2>1. \A q \in Procs : On(q, s, WithRole)' => On(q, s, WithRole)
        BY <1>7 DEF On, OthersStay
    <2>2. \A q \in Procs : On(q, s, Rotating)' => On(q, s, Rotating)
        BY <1>7 DEF On, OthersStay
    <2>3. RoleOK(s)
        BY <1>7 DEF RolesInv, ClashesStay
    <2>4. QED
        BY <1>4, <1>7, <2>1, <2>2, <2>3 DEF RoleOK
  <1>8. \A q \in Procs : q # p => ~On(q, r, Rotating)'
      BY <1>2 DEF On, OthersStay
  <1>9. /\ r = "reader" => Trusted("app")'
        /\ result[p] # "ok"
      BY <1>1, <1>2, <1>5 DEF ProcOK, Roles
  <1>10. QED
      BY <1>2, <1>5, <1>6, <1>7, <1>8, <1>9

\* What works keeps working, with the password it has, until there is a clash.
WorksOn == \A r \in Roles : Works(r) => Clashed(r)' \/ (Works(r)' /\ password'[r] = password[r])

\* Whatever p does on a role with a clash, the other role sees nothing of it.
LEMMA ClashedStep ==
    ASSUME RolesTypeOK, RolesInv, NEW p \in Procs, OthersStay(p), ClashesStay,
           NEW r \in Roles, r = role[p], Clashed(r)', \A s \in Roles : s # r => Leaves(s),
           \/ role'[p] = role[p]
           \/ role[p] = "app" /\ role'[p] = "reader" /\ pc'[p] \notin WithRole,
           result'[p] = "ok" => result[p] = "ok" \/ role[p] = "reader"
    PROVE  RolesInv' /\ WorksOn
  <1>1. \A s \in Roles : s # r =>
           /\ password'[s] = password[s] /\ url'[s] = url[s] /\ secure'[s] = secure[s]
           /\ <<s, "username">> \in named' <=> <<s, "username">> \in named
           /\ (Published(s)' <=> Published(s)) /\ (Complete(s)' <=> Complete(s))
           /\ (Works(s)' <=> Works(s))
      BY SameCredentials
  <1>2. WorksOn /\ \A s \in Roles : Trusted(s) => Trusted(s)'
      BY <1>1 DEF WorksOn, Trusted, ClashesStay
  <1>3. ASSUME NEW s \in Roles, ~Clashed(s)' PROVE RoleOK(s)'
    <2>1. RoleOK(s) /\ s # r
        BY <1>3 DEF RolesInv, ClashesStay
    <2>2. \A q \in Procs : /\ On(q, s, WithRole)' => On(q, s, WithRole)
                           /\ On(q, s, Rotating)' => On(q, s, Rotating)
        BY <2>1 DEF On, OthersStay, WithRole, Rotating
    <2>3. QED
        BY <1>1, <2>1, <2>2 DEF RoleOK
  <1>4. ASSUME NEW q \in Procs, q # p PROVE ProcOK(q)'
    <2>1. /\ pc'[q] = pc[q] /\ result'[q] = result[q] /\ role'[q] = role[q]
          /\ secret'[q] = secret[q] /\ role[q] \in Roles /\ ProcOK(q)
        BY <1>4 DEF OthersStay, RolesInv, RolesTypeOK
    <2>2. role[q] # r /\ WorkOK(q) => WorkOK(q)'
        BY <1>1, <2>1 DEF WorkOK
    <2>3. QED
        BY <1>2, <2>1, <2>2 DEF ProcOK, ClashesStay, Roles
  <1>5. ProcOK(p)'
    <2>1. ProcOK(p) /\ role[p] \in Roles
        BY DEF RolesInv, RolesTypeOK
    <2>2. role[p] = "app" => Trusted("app")'
        BY DEF Trusted
    <2>3. role[p] = "reader" => Trusted("app")' /\ Trusted("reader")'
        BY <1>2, <2>1 DEF ProcOK, Trusted, Roles
    <2>4. pc'[p] \notin WithRole => WorkOK(p)'
        BY DEF WorkOK, WithRole, Rotating, Backfilling
    <2>5. result[p] = "ok" => Trusted("app")' /\ Trusted("reader")'
        BY <1>2, <2>1 DEF ProcOK, Roles
    <2>6. QED
        BY <2>1, <2>2, <2>3, <2>4, <2>5 DEF ProcOK, Roles
  <1>6. QED
      BY <1>2, <1>3, <1>4, <1>5 DEF RolesInv

\* Of the others a step of p changes nothing, and it keeps all types.
Typed(p) ==
    /\ RuntimeOK' /\ RolesTypeOK' /\ OthersStay(p)
    /\ \A q \in Invocations : q # p =>
          pc'[q] = pc[q] /\ result'[q] = result[q] /\ alone'[q] = alone[q]

LEMMA RolesTyped ==
    ASSUME RuntimeOK, RolesTypeOK, NEW p \in Procs, EnsureDatabase(p)
    PROVE  Typed(p) /\ clashed \subseteq clashed'
  <1> p \in Invocations /\ Procs \subseteq Invocations
      BY KomodoAssumption
  <1> USE DEF roleVars, store
  <1>a. ASSUME NEW n \in Steps \cup {"ok"}, Proceed(p, n) \/ Reply(p, n) \/ Return(p, "err"),
               RolesTypeOK', \A q \in Procs : q # p => role'[q] = role[q] /\ secret'[q] = secret[q]
        PROVE  Typed(p)
      BY <1>a, CallEnds DEF Moves, Typed, OthersStay
  <1>1. CASE Start(p)
    <2>1. /\ pc' = [pc EXCEPT ![p] = "find"] /\ UNCHANGED <<alive, result, roleVars>>
          /\ alone' = [q \in Invocations |-> IF q = p THEN TRUE ELSE alone[q]]
        BY <1>1 DEF Start, Begin, RuntimeOK
    <2>2. RuntimeOK'
        BY <2>1, Words DEF RuntimeOK
    <2>3. QED
        BY <2>1, <2>2 DEF Typed, OthersStay, RuntimeOK, RolesTypeOK
  <1>2. CASE FindDatabase(p)
      BY <1>2, <1>a, Words DEF FindDatabase, RolesTypeOK
  <1>3. CASE CreateDatabase(p)
      BY <1>3, <1>a, Words DEF CreateDatabase, RolesTypeOK
  <1>4. CASE RoleExists(p)
    <2>1. PICK n \in {"create", "complete"} : Proceed(p, n)
        BY <1>4 DEF RoleExists
    <2>2. QED
        BY <1>4, <1>a, <2>1, Words DEF RoleExists, RolesTypeOK
  <1>5. CASE CredentialsComplete(p)
    <2>1. PICK n \in {"stored", "rotate"} : Proceed(p, n)
        BY <1>5 DEF CredentialsComplete
    <2>2. clashed \subseteq clashed' /\ clashed' \subseteq Procs \X Roles
      <3>1. clashed' = clashed \/ clashed' = clashed \cup Clash(p, role[p])
          BY <1>5 DEF CredentialsComplete
      <3>2. Clash(p, role[p]) \subseteq Procs \X Roles
          BY DEF Clash, RolesTypeOK
      <3>3. QED
          BY <3>1, <3>2 DEF RolesTypeOK
    <2>3. RolesTypeOK'
        BY <1>5, <2>2 DEF CredentialsComplete, RolesTypeOK
    <2>4. QED
        BY <1>5, <1>a, <2>1, <2>2, <2>3, Words DEF CredentialsComplete
  <1>6. CASE CreateRole(p) \/ RotateRole(p)
    <2>1. SetPassword(p)
        BY <1>6 DEF CreateRole, RotateRole
    <2>2. RolesTypeOK'
        BY <2>1 DEF SetPassword, RolesTypeOK
    <2>3. QED
        BY <1>a, <2>1, <2>2, Words DEF SetPassword, RolesTypeOK
  <1>7. CASE Publish(p)
    <2>1. PICK n \in {"username", "put", "database", "served"} : Reply(p, n)
        BY <1>7 DEF Publish
    <2>2. PutUrl(p) \/ PutPassword(p) \/ \E m \in Names : PutName(p, m)
        BY <1>7 DEF Publish, Names
    <2>3. CASE \E m \in Names : PutName(p, m)
        BY <1>a, <2>1, <2>3, Words DEF PutName, RolesTypeOK
    <2>4. CASE PutUrl(p) \/ PutPassword(p)
        BY <1>a, <2>1, <2>4, Words DEF PutUrl, PutPassword, RolesTypeOK
    <2>5. QED
        BY <2>2, <2>3, <2>4
  <1>8. CASE BackfillUrl(p)
    <2>1. PICK n \in {"served", "fetch", "backfill"} : Proceed(p, n) \/ Reply(p, n)
        BY <1>8 DEF BackfillUrl
    <2>2. \/ UNCHANGED roleVars
          \/ secret' = [secret EXCEPT ![p] = secure[role[p]]] /\ UNCHANGED <<store, role, clashed>>
          \/ PutUrl(p)
        BY <1>8 DEF BackfillUrl
    <2>3. RolesTypeOK'
        BY <2>2 DEF RolesTypeOK, PutUrl
    <2>4. QED
        BY <1>a, <2>1, <2>2, <2>3, Words DEF PutUrl, RolesTypeOK
  <1>9. CASE NextRole(p)
    <2>1. PICK n \in {"exists", "ok"} : Proceed(p, n)
        BY <1>9 DEF NextRole, Proceed
    <2>2. role' = role \/ role' = [role EXCEPT ![p] = "reader"]
        BY <1>9 DEF NextRole
    <2>3. RolesTypeOK'
        BY <1>9, <2>2 DEF NextRole, RolesTypeOK, Roles
    <2>4. QED
        BY <1>9, <1>a, <2>1, <2>2, <2>3, Words DEF NextRole, RolesTypeOK
  <1>10. CASE Fail(p)
      BY <1>10, <1>a DEF Fail, RolesTypeOK
  <1>11. QED
      BY <1>1, <1>2, <1>3, <1>4, <1>5, <1>6, <1>7, <1>8, <1>9, <1>10 DEF EnsureDatabase

\* A step is about one role, and at most goes on to the next.
LEMMA OneRole ==
    ASSUME RuntimeOK, RolesTypeOK, NEW p \in Procs, EnsureDatabase(p)
    PROVE  /\ \A s \in Roles : s # role[p] => Leaves(s)
           /\ \/ role'[p] = role[p]
              \/ role[p] = "app" /\ role'[p] = "reader" /\ pc'[p] \notin WithRole
           /\ result'[p] = "ok" => result[p] = "ok" \/ role[p] = "reader"
  <1> p \in Invocations /\ Procs \subseteq Invocations
      BY KomodoAssumption
  <1> USE DEF roleVars, store
  <1>1. \A s \in Roles : s # role[p] => Leaves(s)
    <2>1. CASE UNCHANGED <<password, url, secure, named>>
        BY <2>1 DEF Leaves
    <2>2. CASE SetPassword(p)
        BY <2>2 DEF SetPassword, Leaves, RolesTypeOK
    <2>3. CASE PutUrl(p) \/ PutPassword(p) \/ \E n \in Names : PutName(p, n)
        BY <2>3 DEF PutUrl, PutPassword, PutName, Leaves, RolesTypeOK
    <2>4. Publish(p) => PutUrl(p) \/ PutPassword(p) \/ \E n \in Names : PutName(p, n)
        BY DEF Publish, Names
    <2>5. BackfillUrl(p) => PutUrl(p) \/ UNCHANGED <<password, url, secure, named>>
        BY DEF BackfillUrl
    <2>6. CASE \/ Start(p) \/ FindDatabase(p) \/ CreateDatabase(p) \/ RoleExists(p)
               \/ CredentialsComplete(p) \/ NextRole(p) \/ Fail(p)
        BY <2>1, <2>6 DEF Start, FindDatabase, CreateDatabase, RoleExists, CredentialsComplete,
                          NextRole, Fail
    <2>7. QED
        BY <2>1, <2>2, <2>3, <2>4, <2>5, <2>6 DEF EnsureDatabase, CreateRole, RotateRole
  <1>2. CASE NextRole(p)
    <2>1. CASE role[p] = "app" /\ role'[p] = "reader" /\ Proceed(p, "exists")
        BY <1>1, <2>1, CallEnds, Words DEF Moves, WithRole, Rotating, Backfilling
    <2>2. CASE role[p] = "reader" /\ role' = role
        BY <1>1, <2>2
    <2>3. QED
        BY <1>2, <2>1, <2>2 DEF NextRole, RolesTypeOK
  <1>3. CASE ~NextRole(p)
    <2>1. role' = role
        BY <1>3 DEF EnsureDatabase, Start, FindDatabase, CreateDatabase, RoleExists,
                    CredentialsComplete, CreateRole, RotateRole, SetPassword, Publish, BackfillUrl,
                    PutUrl, PutName, PutPassword, Fail
    <2>2. result'[p] = "ok" => result[p] = "ok"
      <3>1. CASE \E n \in Calls : Proceed(p, n) \/ Reply(p, n)
          BY <3>1, CallEnds, Words DEF Moves, Calls, Steps
      <3>2. CASE result' = result \/ Return(p, "err")
          BY <3>2 DEF Return, RuntimeOK
      <3>3. CASE Start(p) \/ Fail(p)
          BY <3>2, <3>3 DEF Start, Begin, Fail
      <3>4. QED
          BY <1>3, <3>1, <3>3
             DEF EnsureDatabase, FindDatabase, CreateDatabase, RoleExists, CredentialsComplete,
                 CreateRole, RotateRole, SetPassword, Publish, BackfillUrl, Calls
    <2>3. QED
        BY <1>1, <2>1, <2>2
  <1>4. QED
      BY <1>2, <1>3

LEMMA UnclashedStep ==
    ASSUME RuntimeOK, RolesTypeOK, RolesInv, NEW p \in Procs, EnsureDatabase(p),
           NEW r \in Roles, r = role[p], ~Clashed(r)'
    PROVE  RolesInv' /\ WorksOn
  <1> p \in Invocations /\ Procs \subseteq Invocations /\ r \in Roles
      BY KomodoAssumption DEF RolesTypeOK
  <1> USE DEF roleVars, store
  <1>0. /\ Typed(p) /\ OthersStay(p) /\ role'[p] \in Roles
        /\ ClashesStay /\ clashed \subseteq clashed'
      BY RolesTyped DEF Typed, RolesTypeOK, ClashesStay, Clashed
  <1>i. RoleOK(r) /\ WorkOK(p) /\ ProcOK(p) /\ ~Clashed(r)'
      BY <1>0 DEF RolesInv, ProcOK, ClashesStay
  \* Where the credentials stay as they are.
  <1>q. ASSUME UNCHANGED <<password, url, secure, named>>
        PROVE  /\ \A s \in Roles : Leaves(s) /\ (Works(s)' <=> Works(s)) /\ (Published(s)' <=> Published(s))
               /\ WorksOn /\ \A s \in Roles : Trusted(s) => Trusted(s)'
      BY <1>0, <1>q, SameCredentials DEF Leaves, WorksOn, Trusted, ClashesStay
  <1>1. ASSUME UNCHANGED <<password, url, secure, named, role, secret>>,
               pc'[p] \notin WithRole, result'[p] = "ok" => result[p] = "ok"
        PROVE  RolesInv' /\ WorksOn
    <2>1. ProcOK(p)'
        BY <1>1, <1>i, <1>q DEF ProcOK, WorkOK, Trusted, WithRole, Rotating, Backfilling, Roles
    <2>2. QED
        BY <1>0, <1>1, <1>q, <2>1, QuietStep DEF WithRole
  <1>2. CASE Start(p) \/ FindDatabase(p) \/ CreateDatabase(p) \/ Fail(p)
    <2>1. UNCHANGED <<password, url, secure, named, role, secret>>
        BY <1>2 DEF Start, FindDatabase, CreateDatabase, Fail
    <2>2. pc'[p] \notin WithRole /\ (result'[p] = "ok" => result[p] = "ok")
      <3>1. CASE Start(p)
          BY <3>1 DEF Start, Begin, RuntimeOK, WithRole, Rotating, Backfilling
      <3>2. CASE FindDatabase(p) \/ CreateDatabase(p)
        <4>1. PICK n \in {"exists", "createdb"} : Proceed(p, n) \/ Reply(p, n)
            BY <3>2 DEF FindDatabase, CreateDatabase
        <4>2. QED
            BY <4>1, CallEnds, Words DEF Moves, WithRole, Rotating, Backfilling
      <3>3. CASE Fail(p)
          BY <3>3 DEF Fail, Return, RuntimeOK, WithRole, Rotating, Backfilling
      <3>4. QED
          BY <1>2, <3>1, <3>2, <3>3
    <2>3. QED
        BY <1>1, <2>1, <2>2
  <1>3. CASE RoleExists(p)
    <2>1. PICK n \in {"create", "complete"} :
             Proceed(p, n) /\ (n = "complete" => password[r] # None)
        BY <1>3 DEF RoleExists
    <2>2. Moves(p, n) /\ UNCHANGED <<password, url, secure, named, role, secret>>
        BY <1>3, <2>1, CallEnds, Words DEF RoleExists
    <2>3. /\ pc'[p] \in {"create", "complete", "done"}
          /\ result'[p] = "ok" => result[p] = "ok"
          /\ pc'[p] = "complete" => password[r] # None
        BY <2>1, <2>2 DEF Moves
    <2>4. ProcOK(p)'
        BY <1>i, <1>q, <2>2, <2>3 DEF ProcOK, WorkOK, Trusted, Backfilling, Roles
    <2>5. QED
        BY <1>0, <1>q, <2>2, <2>3, <2>4, QuietStep DEF WithRole, Rotating, Backfilling
  <1>4. CASE CredentialsComplete(p)
    <2>1. pc[p] = "complete" /\ UNCHANGED <<password, url, secure, named, role, secret>>
        BY <1>4 DEF CredentialsComplete, At
    <2>2. PICK n \in {"stored", "rotate"} :
             /\ Proceed(p, n)
             /\ n = "stored" => Complete(r)
             /\ n = "rotate" => ~Complete(r) /\ ~\E q \in Procs : Rotates(q, r)
      <3>1. CASE Complete(r) /\ Proceed(p, "stored")
          BY <3>1
      <3>2. CASE Proceed(p, "rotate") /\ clashed' = clashed \cup Clash(p, r)
        <4>1. <<p, r>> \notin clashed'
            BY <1>i DEF Clashed
        <4>2. ~Complete(r) /\ {q \in Procs : Rotates(q, r)} = {}
            BY <3>2, <4>1 DEF Clash
        <4>3. QED
            BY <3>2, <4>2
      <3>3. QED
          BY <1>4, <3>1, <3>2 DEF CredentialsComplete
    <2>3. /\ pc'[p] \in {n, "done"} /\ (result'[p] = "ok" => result[p] = "ok")
        BY <2>2, CallEnds, Words DEF Moves
    <2>4. password[r] # None
        BY <1>i, <2>1 DEF RoleOK, On, WithRole
    <2>5. Published(r) => Complete(r)
        BY <1>i DEF RoleOK
    <2>6. Complete(r) => Published(r)
        BY CompleteIs
    <2>7. n = "rotate" => ~Published(r) /\ \A q \in Procs : ~On(q, r, Rotating)
        BY <2>2, <2>5 DEF On, Rotates, Rotating
    <2>8. ProcOK(p)'
        BY <1>i, <1>q, <2>1, <2>2, <2>3, <2>6 DEF ProcOK, WorkOK, Trusted, Backfilling, Roles
    <2>9. QED
        BY <1>0, <1>q, <2>1, <2>2, <2>3, <2>4, <2>7, <2>8, QuietStep
           DEF WithRole, Rotating, Backfilling
  <1>5. ASSUME pc[p] \in Rotating \/ password[r] = None, role'[p] = r,
               \A s \in Roles : s # r => Leaves(s),
               ProcOK(p)', RoleOK(r)'
        PROVE  RolesInv' /\ WorksOn
    <2>0. PICK s \in Roles : s = r
        OBVIOUS
    <2>1. /\ \A q \in Procs : q # p => ProcOK(q)'
          /\ \A t \in Roles : t # s => Clashed(t)' \/ RoleOK(t)'
          /\ \A t \in Roles : Works(t) => t # s /\ Works(t)' /\ password'[t] = password[t]
        BY <1>0, <1>5, <1>i, <2>0, AloneWithRole
    <2>2. RolesInv'
        BY <1>5, <2>0, <2>1 DEF RolesInv
    <2>3. QED
        BY <2>1, <2>2 DEF WorksOn
  <1>6. CASE CreateRole(p) \/ RotateRole(p)
    <2>1. /\ pc[p] = "rotate" \/ password[r] = None
          /\ made \in Nat /\ password' = [password EXCEPT ![r] = made + 1] /\ secret'[p] = made + 1
          /\ UNCHANGED <<url, secure, named, role>> /\ Reply(p, "url")
        BY <1>6 DEF CreateRole, RotateRole, SetPassword, RolesTypeOK
    <2>2. pc'[p] \in {"url", "done"} /\ (result'[p] = "ok" => result[p] = "ok")
        BY <2>1, CallEnds, Words DEF Moves
    <2>3. password'[r] = made + 1 /\ made + 1 # None
          /\ \A s \in Roles : s # r => Leaves(s)
        BY <2>1 DEF RolesTypeOK, Leaves, None
    <2>4. PICK s \in Roles : s = r
        OBVIOUS
    <2>5. /\ \A q \in Procs : q # p => ~On(q, s, Rotating)'
          /\ ~Published(s) /\ (s = "reader" => Trusted("app")') /\ result[p] # "ok"
        BY <1>0, <1>i, <2>1, <2>3, <2>4, AloneWithRole DEF Rotating
    <2>6. RoleOK(s)'
        BY <2>1, <2>3, <2>4, <2>5 DEF RoleOK, Published
    <2>7. ProcOK(p)'
        BY <2>1, <2>2, <2>3, <2>4, <2>5 DEF ProcOK, WorkOK, Trusted, Backfilling
    <2>8. RoleOK(r)'
        BY <2>1, <2>4, <2>6 DEF RoleOK
    <2>9. QED
        BY <1>5, <2>1, <2>3, <2>7, <2>8 DEF Rotating
  <1>7. CASE Publish(p)
    <2>0. PICK s \in Roles : s = r
        OBVIOUS
    <2>1. pc[p] \in {"url", "username", "put", "database"} /\ UNCHANGED <<password, role, secret>>
        BY <1>7 DEF Publish, PutUrl, PutName, PutPassword
    <2>2. \A t \in Roles : t # r => Leaves(t)
        BY <1>7 DEF Publish, PutUrl, PutName, PutPassword, RolesTypeOK, Leaves, Names
    <2>3. /\ \A q \in Procs : q # p => ~On(q, s, Rotating)'
          /\ ~Published(s) /\ (s = "reader" => Trusted("app")') /\ result[p] # "ok"
        BY <1>0, <1>i, <2>0, <2>1, <2>2, AloneWithRole DEF Rotating
    <2>4. secret[p] = password[s] /\ password[s] # None /\ password'[s] = password[s]
        BY <1>i, <2>0, <2>1 DEF ProcOK, WorkOK, Trusted, RoleOK, On, WithRole, Rotating
    <2>5. CASE pc[p] = "url"
      <3>1. url'[s] = secret[p] /\ UNCHANGED <<secure, named>> /\ Reply(p, "username")
          BY <1>7, <2>0, <2>5 DEF Publish, PutUrl, RolesTypeOK
      <3>2. pc'[p] \in {"username", "done"} /\ (result'[p] = "ok" => result[p] = "ok")
          BY <3>1, CallEnds, Words DEF Moves
      <3>3. RoleOK(s)'
          BY <2>3, <2>4, <3>1 DEF RoleOK, Published
      <3>4. ProcOK(p)'
          BY <2>0, <2>1, <2>3, <2>4, <3>1, <3>2 DEF ProcOK, WorkOK, Trusted, Backfilling
      <3>5. QED
          BY <1>5, <2>0, <2>1, <2>2, <3>3, <3>4 DEF Rotating, RoleOK
    <2>6. CASE pc[p] = "username"
      <3>1. /\ named' = named \cup {<<s, "username">>} /\ UNCHANGED <<url, secure>>
            /\ Reply(p, "put")
          BY <1>7, <2>0, <2>6 DEF Publish, PutName
      <3>2. pc'[p] \in {"put", "done"} /\ (result'[p] = "ok" => result[p] = "ok")
          BY <3>1, CallEnds, Words DEF Moves
      <3>3. ~Published(s)'
          BY <2>3, <3>1 DEF Published
      <3>4. RoleOK(s)'
          BY <2>3, <2>4, <3>1, <3>3 DEF RoleOK
      <3>5. ProcOK(p)'
          BY <1>i, <2>0, <2>1, <2>3, <2>4, <2>6, <3>1, <3>2 DEF ProcOK, WorkOK, Trusted, Backfilling
      <3>6. QED
          BY <1>5, <2>0, <2>1, <2>2, <3>4, <3>5 DEF Rotating, RoleOK
    <2>7. CASE pc[p] = "put"
      <3>1. secure'[s] = secret[p] /\ UNCHANGED <<url, named>> /\ Reply(p, "database")
          BY <1>7, <2>0, <2>7 DEF Publish, PutPassword, RolesTypeOK
      <3>2. pc'[p] \in {"database", "done"} /\ (result'[p] = "ok" => result[p] = "ok")
          BY <3>1, CallEnds, Words DEF Moves
      <3>3. RoleOK(s)'
          BY <2>3, <2>4, <3>1 DEF RoleOK, Published
      <3>4. ProcOK(p)'
          BY <1>i, <2>0, <2>1, <2>3, <2>4, <2>7, <3>1, <3>2 DEF ProcOK, WorkOK, Trusted, Backfilling
      <3>5. QED
          BY <1>5, <2>0, <2>1, <2>2, <3>3, <3>4 DEF Rotating, RoleOK
    <2>8. CASE pc[p] = "database"
      <3>1. /\ named' = named \cup {<<s, "database">>} /\ UNCHANGED <<url, secure>>
            /\ Reply(p, "served")
          BY <1>7, <2>0, <2>8 DEF Publish, PutName
      <3>2. pc'[p] \in {"served", "done"} /\ (result'[p] = "ok" => result[p] = "ok")
          BY <3>1, CallEnds, Words DEF Moves
      <3>3. /\ url[s] = password[s] /\ <<s, "username">> \in named /\ secure[s] = password[s]
          BY <1>i, <2>0, <2>8 DEF ProcOK, WorkOK, Trusted
      <3>4. Complete(s)' /\ Works(s)'
          BY <2>4, <3>1, <3>3, CompleteIs DEF Works, Published
      <3>5. \A q \in Procs : ~On(q, s, Rotating)'
          BY <2>3, <3>2 DEF On, Rotating
      <3>6. RoleOK(s)'
          BY <2>4, <3>1, <3>3, <3>4, <3>5 DEF RoleOK
      <3>7. ProcOK(p)'
          BY <2>0, <2>1, <2>3, <3>2, <3>4 DEF ProcOK, WorkOK, Trusted, Backfilling
      <3>8. QED
          BY <1>5, <2>0, <2>1, <2>2, <3>6, <3>7 DEF Rotating, RoleOK
    <2>9. QED
        BY <2>1, <2>5, <2>6, <2>7, <2>8
  <1>8. CASE BackfillUrl(p)
    <2>0. PICK s \in Roles : s = r
        OBVIOUS
    <2>1. pc[p] \in Backfilling /\ UNCHANGED <<password, secure, named, role>>
        BY <1>8 DEF BackfillUrl, At, Backfilling, PutUrl
    <2>2. Published(s)
        BY <1>i, <2>0, <2>1 DEF ProcOK, WorkOK, Trusted
    <2>3. /\ Complete(s) /\ secure[s] = password[s] /\ url[s] \in {password[s], None}
          /\ password[s] # None /\ \A q \in Procs : ~On(q, s, Rotating)
        BY <1>i, <2>0, <2>2 DEF RoleOK
    <2>4. CASE pc[p] = "stored"
      <3>1. UNCHANGED <<url, secret>>
          BY <1>8, <2>4 DEF BackfillUrl, At
      <3>2. PICK n \in {"served", "fetch"} : Proceed(p, n) /\ (n = "served" => url[r] # None)
          BY <1>8, <2>4 DEF BackfillUrl, At
      <3>3. pc'[p] \in {n, "done"} /\ (result'[p] = "ok" => result[p] = "ok")
          BY <3>2, CallEnds, Words DEF Moves
      <3>4. n = "served" => Works(s)
          BY <2>0, <2>3, <3>2 DEF Works
      <3>5. ProcOK(p)'
          BY <1>i, <1>q, <2>0, <2>1, <2>2, <3>1, <3>2, <3>3, <3>4 DEF ProcOK, WorkOK, Trusted, Backfilling, Roles
      <3>6. QED
          BY <1>0, <1>q, <2>0, <2>1, <2>3, <3>1, <3>2, <3>3, <3>5, QuietStep DEF Rotating
    <2>5. CASE pc[p] = "fetch"
      <3>1. secret'[p] = secure[r] /\ UNCHANGED url /\ Proceed(p, "backfill")
          BY <1>8, <2>5 DEF BackfillUrl, At, RolesTypeOK
      <3>2. pc'[p] \in {"backfill", "done"} /\ (result'[p] = "ok" => result[p] = "ok")
          BY <3>1, CallEnds, Words DEF Moves
      <3>3. ProcOK(p)'
          BY <1>i, <1>q, <2>0, <2>1, <2>2, <2>3, <3>1, <3>2 DEF ProcOK, WorkOK, Trusted, Backfilling, Roles
      <3>4. QED
          BY <1>0, <1>q, <2>0, <2>1, <2>3, <3>1, <3>2, <3>3, QuietStep DEF Rotating
    <2>6. CASE pc[p] = "backfill"
      <3>1. /\ url' = [url EXCEPT ![r] = secret[p]] /\ UNCHANGED secret /\ Reply(p, "served")
          BY <1>8, <2>6 DEF BackfillUrl, At, PutUrl
      <3>2. pc'[p] \in {"served", "done"} /\ (result'[p] = "ok" => result[p] = "ok")
          BY <3>1, CallEnds, Words DEF Moves
      <3>3. url'[s] = password[s]
          BY <1>i, <2>0, <2>6, <3>1 DEF ProcOK, WorkOK, Trusted, RolesTypeOK
      <3>4. /\ \A t \in Roles : (Published(t)' <=> Published(t)) /\ (Complete(t)' <=> Complete(t))
            /\ \A t \in Roles : t # s => url'[t] = url[t]
          BY <2>0, <2>1, <3>1 DEF Published, Complete, RolesTypeOK
      <3>5. Works(s)' /\ \A t \in Roles : Works(t) => Works(t)'
          BY <2>1, <2>3, <3>3, <3>4 DEF Works
      <3>6. \A q \in Procs : ~On(q, s, Rotating)'
          BY <1>0, <2>3, <3>2 DEF On, Rotating, OthersStay
      <3>7. RoleOK(s)'
          BY <2>1, <2>3, <3>3, <3>4, <3>6 DEF RoleOK
      <3>8. ASSUME NEW t \in Roles, t # s, ~Clashed(t)' PROVE RoleOK(t)'
        <4>1. \A q \in Procs : /\ On(q, t, WithRole)' => On(q, t, WithRole)
                               /\ On(q, t, Rotating)' => On(q, t, Rotating)
            BY <1>0, <2>0, <2>1, <3>8 DEF On, OthersStay
        <4>2. RoleOK(t)
            BY <1>0, <3>8 DEF RolesInv, ClashesStay
        <4>3. QED
            BY <2>1, <3>4, <3>8, <4>1, <4>2 DEF RoleOK
      <3>9. ProcOK(p)'
          BY <1>0, <1>i, <2>0, <2>1, <3>2, <3>5
             DEF ProcOK, WorkOK, Trusted, ClashesStay, Backfilling, Roles
      <3>10. ASSUME NEW q \in Procs, q # p PROVE ProcOK(q)'
        <4>1. /\ pc'[q] = pc[q] /\ result'[q] = result[q] /\ role'[q] = role[q]
              /\ secret'[q] = secret[q] /\ role[q] \in Roles /\ ProcOK(q)
            BY <1>0, <3>10 DEF OthersStay, RolesInv, RolesTypeOK
        <4>2. pc[q] \in Rotating => role[q] # s
            BY <2>3 DEF On
        <4>3. WorkOK(q) => WorkOK(q)'
            BY <2>1, <3>4, <3>5, <4>1, <4>2 DEF WorkOK, Rotating
        <4>4. QED
            BY <1>0, <3>5, <4>1, <4>3 DEF ProcOK, Trusted, ClashesStay, Roles
      <3>11. QED
          BY <2>1, <3>5, <3>7, <3>8, <3>9, <3>10 DEF RolesInv, WorksOn
    <2>7. QED
        BY <2>1, <2>4, <2>5, <2>6 DEF Backfilling
  <1>9. CASE NextRole(p)
    <2>1. /\ pc[p] = "served" /\ UNCHANGED <<password, url, secure, named, secret>>
        BY <1>9 DEF NextRole, At
    <2>2. Works(r)
        BY <1>i, <2>1 DEF ProcOK, WorkOK, Trusted
    <2>3. CASE r = "app"
      <3>1. role'[p] = "reader" /\ Proceed(p, "exists")
          BY <1>9, <2>3 DEF NextRole, RolesTypeOK
      <3>2. pc'[p] \in {"exists", "done"} /\ (result'[p] = "ok" => result[p] = "ok")
          BY <3>1, CallEnds, Words DEF Moves
      <3>3. ProcOK(p)'
          BY <1>i, <1>q, <2>1, <2>2, <2>3, <3>1, <3>2 DEF ProcOK, WorkOK, Trusted, Backfilling, Roles
      <3>4. QED
          BY <1>0, <1>q, <2>1, <3>2, <3>3, QuietStep DEF WithRole, Rotating, Backfilling
    <2>4. CASE r = "reader"
      <3>1. role' = role /\ pc'[p] = "done"
          BY <1>9, <2>4 DEF NextRole, Return, RuntimeOK
      <3>2. Trusted("app")
          BY <1>i, <2>4 DEF ProcOK
      <3>3. ProcOK(p)'
          BY <1>q, <2>1, <2>2, <2>4, <3>1, <3>2 DEF ProcOK, WorkOK, Trusted, Backfilling, Roles
      <3>4. QED
          BY <1>0, <1>q, <2>1, <3>1, <3>3, QuietStep DEF WithRole, Rotating, Backfilling
    <2>5. QED
        BY <2>3, <2>4 DEF Roles
  <1>10. QED
      BY <1>2, <1>3, <1>4, <1>6, <1>7, <1>8, <1>9 DEF EnsureDatabase

LEMMA RolesStep ==
    ASSUME RuntimeOK, RolesTypeOK, RolesInv, NEW p \in Procs, EnsureDatabase(p)
    PROVE  RolesInv' /\ WorksOn
  <1>1. OthersStay(p) /\ ClashesStay
      BY RolesTyped DEF Typed, ClashesStay, Clashed
  <1>2. PICK r \in Roles : r = role[p]
      BY DEF RolesTypeOK
  <1>3. CASE Clashed(r)'
      BY <1>1, <1>2, <1>3, OneRole, ClashedStep
  <1>4. CASE ~Clashed(r)'
      BY <1>2, <1>4, UnclashedStep
  <1>5. QED
      BY <1>3, <1>4

\* The rotations that do not clash are alone with their roles.
LEMMA RotationsStay ==
    ASSUME RotationsOK, NEW p \in Procs, OthersStay(p), clashed \subseteq clashed',
           NEW t \in Roles, t = role'[p],
           \A s \in Roles : password'[s] = None => password[s] = None /\ secure'[s] = None,
           pc'[p] \in WithRole => password'[t] # None,
           pc'[p] \in Rotating =>
               \/ pc[p] \in Rotating /\ role[p] = t
               \/ \A q \in Procs : q # p /\ On(q, t, Rotating) => {p, q} \X {t} \subseteq clashed',
           \A s \in Roles : Complete(s)' => Complete(s) \/ (On(p, s, Rotating) /\ pc'[p] # "rotate"),
           pc'[p] = "rotate" => \/ pc[p] = "rotate" /\ role[p] = t
                                \/ Complete(t)' => <<p, t>> \in clashed'
    PROVE  RotationsOK'
  <1>1. ASSUME NEW r \in Roles, password'[r] = None
        PROVE  secure'[r] = None /\ \A q \in Procs : ~On(q, r, WithRole)'
      BY <1>1 DEF RotationsOK, On, OthersStay
  <1>2. ASSUME NEW r \in Roles, NEW s \in Procs, NEW q \in Procs, s # q,
               On(s, r, Rotating)', On(q, r, Rotating)'
        PROVE  <<s, r>> \in clashed'
    <2>1. CASE On(s, r, Rotating) /\ On(q, r, Rotating)
        BY <1>2, <2>1 DEF RotationsOK
    <2>2. CASE p \in {s, q} /\ t = r /\ ~On(p, r, Rotating)
        BY <1>2, <2>2 DEF On, OthersStay
    <2>3. QED
        BY <1>2, <2>1, <2>2 DEF On, OthersStay
  <1>3. ASSUME NEW r \in Roles, NEW q \in Procs, On(q, r, {"rotate"})', Complete(r)'
        PROVE  <<q, r>> \in clashed'
    <2>1. CASE q = p
        BY <1>3, <2>1 DEF On, RotationsOK
    <2>2. CASE q # p
      <3>1. On(q, r, {"rotate"}) /\ On(q, r, Rotating)
          BY <1>3, <2>2 DEF On, OthersStay, Rotating
      <3>2. QED
          BY <1>3, <2>2, <3>1 DEF RotationsOK
    <2>3. QED
        BY <2>1, <2>2
  <1>4. QED
      BY <1>1, <1>2, <1>3 DEF RotationsOK

LEMMA RotationsStep ==
    ASSUME RuntimeOK, RolesTypeOK, RotationsOK, NEW p \in Procs, EnsureDatabase(p)
    PROVE  RotationsOK'
  <1> DEFINE r == role[p]
  <1> p \in Invocations /\ Procs \subseteq Invocations /\ r \in Roles
      BY KomodoAssumption DEF RolesTypeOK
  <1> USE DEF roleVars, store
  <1>0. OthersStay(p) /\ role'[p] \in Roles /\ clashed \subseteq clashed'
      BY RolesTyped DEF Typed, RolesTypeOK
  <1>n. ASSUME NEW n \in Steps \cup {"ok"}, Proceed(p, n) \/ Reply(p, n)
        PROVE  pc'[p] \in {n, "done"} /\ (pc'[p] = n => n # "ok")
      BY <1>n, CallEnds, Words DEF Moves
  <1>1. \A s \in Roles : password[s] = None => secure[s] = None /\ ~Complete(s)
      BY DEF RotationsOK, Complete
  <1>q. UNCHANGED <<secure, named>> => \A s \in Roles : Complete(s)' <=> Complete(s)
      BY DEF Complete
  <1>2. CASE \/ Start(p) \/ FindDatabase(p) \/ CreateDatabase(p) \/ NextRole(p) \/ Fail(p)
    <2>1. UNCHANGED <<password, secure, named>> /\ pc'[p] \notin WithRole \cup Rotating
      <3>1. CASE Start(p)
          BY <3>1 DEF Start, Begin, RuntimeOK, WithRole, Rotating, Backfilling
      <3>2. CASE Fail(p)
          BY <3>2 DEF Fail, Return, RuntimeOK, WithRole, Rotating, Backfilling
      <3>3. CASE NextRole(p)
        <4>1. PICK n \in {"exists", "ok"} : Proceed(p, n)
            BY <3>3 DEF NextRole, Proceed
        <4>2. QED
            BY <1>n, <3>3, <4>1, Words DEF NextRole, WithRole, Rotating, Backfilling
      <3>4. CASE FindDatabase(p) \/ CreateDatabase(p)
        <4>1. PICK n \in {"exists", "createdb"} : Proceed(p, n) \/ Reply(p, n)
            BY <3>4 DEF FindDatabase, CreateDatabase
        <4>2. QED
            BY <1>n, <3>4, <4>1, Words DEF FindDatabase, CreateDatabase, WithRole, Rotating, Backfilling
      <3>5. QED
          BY <1>2, <3>1, <3>2, <3>3, <3>4
    <2>2. QED
        BY <1>0, <1>1, <1>q, <2>1, RotationsStay DEF Rotating
  <1>3. CASE RoleExists(p)
    <2>1. PICK n \in {"create", "complete"} : Proceed(p, n) /\ (n = "complete" => password[r] # None)
        BY <1>3 DEF RoleExists
    <2>2. UNCHANGED <<password, secure, named, role>> /\ pc'[p] \in {n, "done"}
        BY <1>n, <1>3, <2>1, Words DEF RoleExists
    <2>3. QED
        BY <1>0, <1>1, <1>q, <2>1, <2>2, RotationsStay DEF WithRole, Rotating, Backfilling
  <1>4. CASE CredentialsComplete(p)
    <2>1. pc[p] = "complete" /\ UNCHANGED <<password, secure, named, role>>
        BY <1>4 DEF CredentialsComplete, At
    <2>2. password[r] # None
        BY <2>1 DEF RotationsOK, On, WithRole
    <2>3. CASE Proceed(p, "stored")
      <3>1. pc'[p] \in {"stored", "done"}
          BY <1>n, <2>3, Words
      <3>2. QED
          BY <1>0, <1>1, <1>q, <2>1, <2>2, <3>1, RotationsStay DEF WithRole, Rotating, Backfilling
    <2>4. CASE Proceed(p, "rotate") /\ clashed' = clashed \cup Clash(p, r)
      <3>1. pc'[p] \in {"rotate", "done"}
          BY <1>n, <2>4, Words
      <3>2. \A q \in Procs : On(q, r, Rotating) => Rotates(q, r)
          BY DEF On, Rotating, Rotates
      <3>3. /\ \A q \in Procs : On(q, r, Rotating) => {p, q} \X {r} \subseteq clashed'
            /\ Complete(r) => <<p, r>> \in clashed'
          BY <2>4, <3>2 DEF Clash
      <3>4. QED
          BY <1>0, <1>1, <1>q, <2>1, <2>2, <3>1, <3>3, RotationsStay DEF WithRole
    <2>5. QED
        BY <1>4, <2>3, <2>4 DEF CredentialsComplete
  <1>5. CASE CreateRole(p) \/ RotateRole(p)
    <2>1. /\ pc[p] = "rotate" \/ password[r] = None
          /\ made \in Nat /\ password' = [password EXCEPT ![r] = made + 1]
          /\ UNCHANGED <<secure, named, role>> /\ Reply(p, "url")
        BY <1>5 DEF CreateRole, RotateRole, SetPassword, RolesTypeOK
    <2>2. pc'[p] \in {"url", "done"}
        BY <1>n, <2>1, Words
    <2>3. \/ pc[p] \in Rotating
          \/ \A q \in Procs : ~On(q, r, Rotating)
        BY <2>1 DEF RotationsOK, On, WithRole, Rotating
    <2>4. password'[r] # None /\ \A s \in Roles : s # r => password'[s] = password[s]
        BY <2>1 DEF RolesTypeOK, None
    <2>5. /\ \A s \in Roles : password'[s] = None => password[s] = None /\ secure'[s] = None
          /\ \A s \in Roles : Complete(s)' => Complete(s)
        BY <1>1, <1>q, <2>1, <2>4
    <2>6. PICK t \in Roles : t = role'[p]
        BY <1>0
    <2>7. role[p] = t /\ password'[t] # None
        BY <2>1, <2>4, <2>6
    <2>8. QED
        BY <1>0, <2>2, <2>3, <2>5, <2>6, <2>7, RotationsStay
  <1>6. CASE Publish(p)
    <2>1. /\ pc[p] \in {"url", "username", "put", "database"} /\ UNCHANGED <<password, role>>
          /\ \E n \in {"username", "put", "database", "served"} : Reply(p, n)
        BY <1>6 DEF Publish, PutUrl, PutName, PutPassword
    <2>2. pc'[p] \in {"username", "put", "database", "served", "done"}
        BY <1>n, <2>1, Words
    <2>3. On(p, r, Rotating) /\ password[r] # None
        BY <2>1 DEF RotationsOK, On, WithRole, Rotating
    <2>4. \A s \in Roles : s # r => Leaves(s)
        BY <1>6, OneRole
    <2>5. \A s \in Roles : s # r => secure'[s] = secure[s] /\ (Complete(s)' <=> Complete(s))
        BY <2>4, SameCredentials
    <2>6. QED
        BY <1>0, <1>1, <2>1, <2>2, <2>3, <2>5, RotationsStay DEF On
  <1>7. CASE BackfillUrl(p)
    <2>1. pc[p] \in Backfilling /\ UNCHANGED <<password, secure, named, role>>
        BY <1>7 DEF BackfillUrl, At, Backfilling, PutUrl
    <2>2. password[r] # None
        BY <2>1 DEF RotationsOK, On, WithRole
    <2>3. \E n \in {"served", "fetch", "backfill"} : Proceed(p, n) \/ Reply(p, n)
        BY <1>7 DEF BackfillUrl
    <2>4. pc'[p] \in {"served", "fetch", "backfill", "done"}
        BY <1>n, <2>3, Words
    <2>5. QED
        BY <1>0, <1>1, <1>q, <2>1, <2>2, <2>4, RotationsStay DEF Rotating
  <1>8. QED
      BY <1>2, <1>3, <1>4, <1>5, <1>6, <1>7 DEF EnsureDatabase

-----------------------------------------------------------------------------
ProxyType ==
    /\ stack \in BOOLEAN /\ env \in Values /\ deployed \in Values /\ variable \in Values
    /\ request \in [Proxies -> Requests \cup {NoRequest}]
    /\ left \in [Proxies -> Seq(Actions)] /\ towrite \in [Proxies -> Seq(Refs)]
    /\ resolved \in [Proxies -> Values] /\ wrote \in [Proxies -> Values]
    /\ sound \in [Proxies -> BOOLEAN]

LEMMA Disjoint ==
    /\ Procs \subseteq Invocations /\ Proxies \subseteq Invocations
    /\ \A p \in Procs : \A q \in Proxies : p # q
    /\ Requests \subseteq Seq(Actions) /\ \A q \in Requests : q # <<>> /\ q[1] \in Actions
  BY KomodoAssumption

\* What ends an invocation, or is none of its business, keeps what is said of
\* the roles
LEMMA RolesStay ==
    ASSUME RolesTypeOK, RolesInv, RotationsOK, UNCHANGED roleVars,
           \A p \in Procs : /\ pc'[p] = pc[p] \/ pc'[p] = "done"
                            /\ result'[p] = result[p] \/ result'[p] # "ok"
    PROVE  RolesInv' /\ RotationsOK'
  <1> USE DEF roleVars, store
  <1>1. \A r \in Roles : Leaves(r)
      BY DEF Leaves
  <1>2. \A r \in Roles : /\ (Works(r)' <=> Works(r)) /\ (Published(r)' <=> Published(r))
                         /\ (Complete(r)' <=> Complete(r)) /\ (Clashed(r)' <=> Clashed(r))
      BY <1>1, SameCredentials DEF Clashed
  <1>3. ASSUME NEW r \in Roles, ~Clashed(r) PROVE RoleOK(r)'
    <2>1. \A p \in Procs : /\ On(p, r, Rotating)' => On(p, r, Rotating)
                           /\ On(p, r, WithRole)' => On(p, r, WithRole)
        BY DEF On, WithRole, Rotating, Backfilling
    <2>2. RoleOK(r)
        BY <1>3 DEF RolesInv
    <2>3. QED
        BY <1>2, <2>1, <2>2 DEF RoleOK
  <1>4. ASSUME NEW p \in Procs PROVE ProcOK(p)'
    <2>1. ProcOK(p) /\ role[p] \in Roles
        BY DEF RolesInv, RolesTypeOK
    <2>2. \/ pc'[p] = pc[p]
          \/ pc'[p] \notin {"url", "username", "put", "database", "backfill", "served"} \cup Backfilling
        BY DEF Backfilling
    <2>3. WorkOK(p) => WorkOK(p)'
        BY <1>2, <2>1, <2>2 DEF WorkOK
    <2>4. QED
        BY <1>2, <2>1, <2>3 DEF ProcOK, Trusted, Roles
  <1>5. RotationsOK'
    <2>1. ASSUME NEW r \in Roles, NEW p \in Procs
          PROVE  /\ On(p, r, Rotating)' => On(p, r, Rotating)
                 /\ On(p, r, WithRole)' => On(p, r, WithRole)
                 /\ On(p, r, {"rotate"})' => On(p, r, {"rotate"})
        BY DEF On, WithRole, Rotating, Backfilling
    <2>2. QED
        BY <1>2, <2>1 DEF RotationsOK
  <1>6. QED
      BY <1>2, <1>3, <1>4, <1>5 DEF RolesInv

\* and of the proxies.
LEMMA ProxiesStay ==
    ASSUME ProxiesOK, UNCHANGED proxyVars,
           \A p \in Proxies :
              /\ alone'[p] = alone[p]
              /\ \/ pc'[p] = pc[p] /\ result'[p] = result[p]
                 \/ Running(p) /\ pc'[p] = "done" /\ result'[p] # "ok",
           ClashesStay, WorksOn
    PROVE  ProxiesOK'
  <1> USE DEF proxyVars, komodo, locals
  <1>1. ASSUME NEW p \in Proxies PROVE RequestOK(p)'
    <2>1. /\ request' = request /\ left' = left /\ resolved' = resolved /\ sound' = sound
          /\ towrite' = towrite /\ RequestOK(p) /\ alone'[p] = alone[p] /\ Done(p)' = Done(p)
        BY DEF ProxiesOK, Done
    <2>2. \A q \in Proxies : ~Running(q) => ~Running(q)'
        BY DEF Running
    <2>3. CASE pc'[p] = pc[p] /\ result'[p] = result[p]
        BY <2>1, <2>2, <2>3 DEF RequestOK, Running
    <2>4. CASE Running(p) /\ pc'[p] = "done" /\ result'[p] # "ok"
        BY <2>1, <2>2, <2>4 DEF RequestOK, Running
    <2>5. QED
        BY <2>3, <2>4
  <1>2. ASSUME NEW p \in Proxies PROVE ProxyOK(p)'
    <2>1. /\ ProxyOK(p) /\ (HasSet(p)' <=> HasSet(p)) /\ (HasDeployed(p)' <=> HasDeployed(p))
          /\ (HasRead(p)' <=> HasRead(p))
        BY DEF ProxiesOK, HasSet, HasDeployed, HasRead, Done
    <2>2. ~Clashed("app")' =>
             ~Clashed("app") /\ (Works("app") => Works("app")' /\ password'["app"] = password["app"])
        BY DEF ClashesStay, WorksOn, Roles
    <2>3. HasDeployed(p) => HasSet(p)
        BY DEF HasDeployed, HasSet
    <2>4. QED
        BY <2>1, <2>2, <2>3 DEF ProxyOK
  <1>3. QED
      BY <1>1, <1>2 DEF ProxiesOK

-----------------------------------------------------------------------------
\* Of a proxy's step the others see nothing, except that they are not alone.
LEMMA OtherProxies ==
    ASSUME RuntimeOK, ProxyType, ProxiesOK, UNCHANGED roleVars, NEW p \in Proxies, Serve(p),
           NEW q \in Proxies, q # p
    PROVE  RequestOK(q)' /\ ProxyOK(q)'
  <1> p \in Invocations /\ q \in Invocations
      BY Disjoint
  <1> USE DEF roleVars, store, komodo, locals
  <1>1. RequestOK(q) /\ ProxyOK(q)
      BY DEF ProxiesOK
  <1>2. pc'[q] = pc[q] /\ result'[q] = result[q] /\ ~alone'[q]
    <2>1. CASE StartProxy(p)
        BY <2>1 DEF StartProxy, Begin, RuntimeOK
    <2>2. CASE Running(p) /\ alone' = alone /\ pc'[q] = pc[q] /\ result'[q] = result[q]
        BY <1>1, <2>2 DEF RequestOK
    <2>3. ASSUME NEW n, Proceed(p, n) \/ Reply(p, n) \/ Return(p, "err")
          PROVE  alone' = alone /\ pc'[q] = pc[q] /\ result'[q] = result[q]
        BY <2>3 DEF Proceed, Reply, Return, RuntimeOK
    <2>4. CASE Resolve(p) \/ FailAction(p)
        BY <2>2, <2>3, <2>4 DEF Resolve, FailAction, Abort, At, Running
    <2>5. CASE NextAction(p) /\ Running(p)
        BY <2>2, <2>3, <2>5 DEF NextAction
    <2>6. CASE CreateVariable(p) \/ UpdateVariable(p)
        BY <2>2, <2>3, <2>5, <2>6 DEF CreateVariable, UpdateVariable, NextVariable, Running
    <2>7. CASE SetEnvironment(p) \/ ListServers(p) \/ CreateStack(p) \/ DeployStack(p)
        BY <2>5, <2>7 DEF SetEnvironment, ListServers, CreateStack, DeployStack, Running, At
    <2>8. QED
        BY <2>1, <2>4, <2>6, <2>7 DEF Serve
  <1>3. /\ request'[q] = request[q] /\ left'[q] = left[q] /\ resolved'[q] = resolved[q]
        /\ wrote'[q] = wrote[q] /\ sound'[q] = sound[q] /\ towrite'[q] = towrite[q]
      BY DEF Serve, StartProxy, Resolve, BeginsToRead, SetEnvironment, CreateVariable, UpdateVariable,
             NextVariable, ListServers, CreateStack, DeployStack, FailAction, Abort, NextAction, ProxyType
  <1>4. RequestOK(q)'
      BY <1>1, <1>2, <1>3 DEF RequestOK, Running, Done
  <1>5. ProxyOK(q)'
    <2>1. /\ HasSet(q)' <=> HasSet(q)
          /\ HasDeployed(q)' <=> HasDeployed(q)
          /\ HasRead(q)' <=> HasRead(q)
        BY <1>3 DEF HasSet, HasDeployed, HasRead, Done
    <2>2. (Works("app")' <=> Works("app")) /\ (Clashed("app")' <=> Clashed("app"))
        BY DEF Works, Complete, Clashed
    <2>3. QED
        BY <1>1, <1>2, <1>3, <2>1, <2>2 DEF ProxyOK
  <1>6. QED
      BY <1>4, <1>5

\* The first of what is left is the next one that is done.
LEMMA NextActionDoes ==
    ASSUME RuntimeOK, ProxyType, NEW p \in Proxies, RequestOK(p), Running(p), NextAction(p),
           UNCHANGED request
    PROVE  /\ RuntimeOK' /\ alone' = alone
           /\ left' \in [Proxies -> Seq(Actions)] /\ resolved' \in [Proxies -> Values]
           /\ towrite' \in [Proxies -> Seq(Refs)]
           /\ RequestOK(p)' /\ resolved'[p] = Empty
           /\ HasSet(p)' <=> HasSet(p) \/ left[p][1] = "environment"
           /\ HasDeployed(p)' <=> HasDeployed(p) \/ (HasSet(p) /\ left[p][1] = "deploy")
  <1> p \in Invocations
      BY Disjoint
  <1> DEFINE rest == Tail(left[p])
  <1>1. left[p] \in Seq(Actions) /\ left[p] # <<>> /\ request[p] \in Seq(Actions)
        /\ result[p] # "ok" /\ pc[p] # "idle" /\ pc[p] # "done"
      BY Disjoint DEF ProxyType, RequestOK, Running
  <1>2. /\ rest \in Seq(Actions) /\ Len(rest) = Len(left[p]) - 1
        /\ \A i \in 1..Len(rest) : rest[i] = left[p][i + 1]
      BY <1>1, HeadTailProperties
  <1>3. left'[p] = rest /\ resolved'[p] = Empty
        /\ left' \in [Proxies -> Seq(Actions)] /\ resolved' \in [Proxies -> Values]
        /\ towrite' \in [Proxies -> Seq(Refs)]
      BY <1>2 DEF NextAction, ProxyType, rest, Empty, Values, None
  <1>4. /\ Len(left[p]) \in Nat /\ Len(rest) \in Nat /\ Len(request[p]) \in Nat
        /\ Done(p) \in Nat /\ Len(left[p]) > 0
        /\ \A i \in 1..Len(left[p]) : left[p][i] = request[p][Done(p) + i]
      BY <1>1, <1>2 DEF RequestOK
  <1> HIDE DEF rest
  <1>5. Done(p)' = Done(p) + 1 /\ request[p][Done(p) + 1] = left[p][1]
    <2>1. Done(p) = Len(request[p]) - Len(left[p]) /\ Done(p)' = Len(request[p]) - Len(rest)
        BY <1>3 DEF Done
    <2>2. 1 \in 1..Len(left[p])
        BY <1>4
    <2>3. ASSUME NEW a \in Nat, NEW b \in Nat, NEW c \in Nat, b = c - 1
          PROVE  a - b = a - c + 1
        BY <2>3
    <2>4. Len(request[p]) - Len(rest) = Done(p) + 1
        BY <1>2, <1>4, <2>1, <2>3
    <2>5. QED
        BY <1>4, <2>1, <2>2, <2>4
  <1>6. \A i \in 1..Len(rest) : rest[i] = request[p][Done(p) + 1 + i]
    <2>1. ASSUME NEW i \in 1..Len(rest) PROVE rest[i] = request[p][Done(p) + 1 + i]
      <3>1. i + 1 \in 1..Len(left[p]) /\ Done(p) + (i + 1) = Done(p) + 1 + i
          BY <1>2, <1>4
      <3>2. QED
          BY <1>2, <1>4, <3>1
    <2>2. QED
        BY <2>1
  <1>7. HasSet(p)' <=> HasSet(p) \/ left[p][1] = "environment"
    <2>1. \A i : i \in 1..(Done(p) + 1) <=> i \in 1..Done(p) \/ i = Done(p) + 1
        BY <1>4
    <2>2. HasSet(p)' <=> \E i \in 1..(Done(p) + 1) : request[p][i] = "environment"
        BY <1>5 DEF HasSet
    <2>3. QED
        BY <1>5, <2>1, <2>2 DEF HasSet
  <1>8. HasDeployed(p)' <=> HasDeployed(p) \/ (HasSet(p) /\ left[p][1] = "deploy")
    <2>1. HasDeployed(p) => HasDeployed(p)'
      <3>1. ASSUME NEW i \in 1..Done(p), NEW j \in 1..Done(p), i < j,
                   request[p][i] = "environment", request[p][j] = "deploy"
            PROVE  HasDeployed(p)'
        <4>1. i \in 1..(Done(p) + 1) /\ j \in 1..(Done(p) + 1)
            BY <1>4
        <4>2. QED
            BY <1>5, <3>1, <4>1 DEF HasDeployed
      <3>2. QED
          BY <3>1 DEF HasDeployed
    <2>2. HasSet(p) /\ left[p][1] = "deploy" => HasDeployed(p)'
      <3>1. ASSUME NEW i \in 1..Done(p), request[p][i] = "environment", left[p][1] = "deploy"
            PROVE  HasDeployed(p)'
        <4>1. i \in 1..(Done(p) + 1) /\ Done(p) + 1 \in 1..(Done(p) + 1) /\ i < Done(p) + 1
            BY <1>4
        <4>2. QED
            BY <1>5, <3>1, <4>1 DEF HasDeployed
      <3>2. QED
          BY <3>1 DEF HasSet
    <2>3. HasDeployed(p)' => HasDeployed(p) \/ (HasSet(p) /\ left[p][1] = "deploy")
      <3>1. ASSUME NEW i \in 1..(Done(p) + 1), NEW j \in 1..(Done(p) + 1), i < j,
                   request[p][i] = "environment", request[p][j] = "deploy"
            PROVE  HasDeployed(p) \/ (HasSet(p) /\ left[p][1] = "deploy")
        <4>1. i \in 1..Done(p) /\ (j \in 1..Done(p) \/ j = Done(p) + 1)
            BY <1>4, <3>1
        <4>2. QED
            BY <1>5, <3>1, <4>1 DEF HasDeployed, HasSet
      <3>2. QED
          BY <1>5, <3>1 DEF HasDeployed
    <2>4. QED
        BY <2>1, <2>2, <2>3
  <1>9. PICK n \in Steps \cup {"ok"} :
           /\ Reply(p, n)
           /\ IF rest = <<>> THEN n = "ok" ELSE n # "ok" /\ n = FirstCall(rest[1])
    <2>1. rest = <<>> \/ rest[1] \in Actions
        BY <1>2
    <2>2. FirstCall(rest[1]) \in Steps \/ rest = <<>>
        BY <2>1, Words DEF FirstCall, Actions
    <2>3. QED
        BY <2>1, <2>2, Words DEF NextAction, rest
  <1>10. RuntimeOK' /\ Moves(p, n)
      BY <1>9, CallEnds
  <1>11. /\ alone' = alone /\ \A q \in Proxies : q # p => pc'[q] = pc[q]
         /\ \/ rest # <<>> /\ pc'[p] = FirstCall(rest[1]) /\ result'[p] = result[p]
            \/ pc'[p] = "done" /\ (result'[p] = "ok" => rest = <<>>)
      BY <1>9, <1>10, Disjoint DEF Moves
  <1>12. RequestOK(p)'
    <2>1. pc'[p] # "idle" /\ (pc'[p] # "done" => rest # <<>> /\ rest[1] \in Actions /\ pc'[p] = FirstCall(rest[1]))
        BY <1>2, <1>11 DEF FirstCall, Actions
    <2>2. /\ Running(p)' => left'[p] # <<>> /\ AtAction(pc'[p], left'[p][1])
          /\ pc'[p] \notin {"variables", "update", "environment"}
        BY <1>3, <2>1 DEF FirstCall, Actions, Resolves, Running, AtAction
    <2>3. result'[p] = "ok" => pc'[p] = "done" /\ left'[p] = <<>>
        BY <1>1, <1>3, <1>11
    <2>4. alone'[p] => pc'[p] # "idle" /\ \A q \in Proxies \ {p} : ~Running(q)'
        BY <1>11, <2>1 DEF RequestOK, Running
    <2>5. /\ Done(p)' \in Nat
          /\ \A i \in 1..Len(left'[p]) : left'[p][i] = request'[p][Done(p)' + i]
        BY <1>3, <1>4, <1>5, <1>6
    <2>6. request'[p] \in Requests
        BY <1>1 DEF RequestOK
    <2>7. QED
        BY <2>1, <2>2, <2>3, <2>4, <2>5, <2>6 DEF RequestOK
  <1>13. QED
      BY <1>3, <1>7, <1>8, <1>10, <1>11, <1>12

-----------------------------------------------------------------------------
\* What a step of p has to show about p itself.
ProxyStep(p) ==
    /\ RuntimeOK' /\ ProxyType' /\ RequestOK(p)' /\ ProxyOK(p)'

LEMMA StartsSound ==
    ASSUME RuntimeOK, RolesTypeOK, ProxyType, RolesInv, ProxiesOK, UNCHANGED roleVars,
           NEW p \in Proxies, StartProxy(p)
    PROVE  ProxyStep(p)
  <1> USE DEF roleVars, store, komodo
  <1> p \in Invocations
      BY Disjoint
  <1>1. PICK q \in Requests :
           /\ Begin(p, FirstCall(q[1]), Proxies \ {p})
           /\ request' = [request EXCEPT ![p] = q] /\ left' = [left EXCEPT ![p] = q]
      BY DEF StartProxy
  <1>2. q \in Seq(Actions) /\ q # <<>> /\ q[1] \in Actions /\ Len(q) \in Nat
      BY Disjoint
  <1>3. /\ pc' = [pc EXCEPT ![p] = FirstCall(q[1])] /\ UNCHANGED <<alive, result>>
        /\ pc[p] = "idle" /\ alone' \in [Invocations -> BOOLEAN]
        /\ alone'[p] => \A s \in Proxies \ {p} : ~Running(s)
    <2>1. /\ pc' = [pc EXCEPT ![p] = FirstCall(q[1])] /\ UNCHANGED <<alive, result>>
          /\ pc[p] = "idle"
          /\ alone'[p] => \A s \in Proxies \ {p} : ~Running(s)
        BY <1>1 DEF Begin, MayBegin
    <2>2. \A s \in Invocations : alone[s] \in BOOLEAN
        BY DEF RuntimeOK
    <2>3. alone' \in [Invocations -> BOOLEAN]
        BY <1>1, <2>2 DEF Begin
    <2>4. QED
        BY <2>1, <2>3
  <1>4. /\ request'[p] = q /\ left'[p] = q /\ sound' \in [Proxies -> BOOLEAN]
        /\ UNCHANGED <<stack, env, deployed, variable, resolved, towrite, wrote>>
      BY <1>1 DEF StartProxy, ProxyType
  <1>5. RuntimeOK'
    <2>1. FirstCall(q[1]) \in Steps
        BY <1>2, Words DEF FirstCall, Actions
    <2>2. QED
        BY <1>3, <2>1 DEF RuntimeOK
  <1>6. ProxyType'
    <2>1. request' \in [Proxies -> Requests \cup {NoRequest}] /\ left' \in [Proxies -> Seq(Actions)]
        BY <1>1, <1>2 DEF ProxyType
    <2>2. QED
        BY <1>4, <2>1 DEF ProxyType
  <1>7. Done(p)' = 0
      BY <1>2, <1>4 DEF Done
  <1>8. ~HasSet(p)' /\ ~HasDeployed(p)'
      BY <1>7 DEF HasSet, HasDeployed
  <1>9. RequestOK(p) /\ resolved[p] = Empty
      BY <1>3 DEF ProxiesOK, RequestOK
  <1>10. RequestOK(p)'
    <2>1. /\ pc'[p] = FirstCall(q[1]) /\ pc'[p] # "idle" /\ pc'[p] \notin {"variables", "update", "environment", "done"}
          /\ AtAction(pc'[p], q[1])
        BY <1>2, <1>3 DEF RuntimeOK, FirstCall, Resolves, Actions, AtAction
    <2>2. result'[p] # "ok"
        BY <1>3, <1>9 DEF RequestOK
    <2>3. alone'[p] => \A s \in Proxies \ {p} : ~Running(s)'
        BY <1>3, Disjoint DEF Running
    <2>4. \A i \in 1..Len(q) : q[i] = q[0 + i]
        BY <1>2
    <2>5. QED
        BY <1>2, <1>4, <1>7, <2>1, <2>2, <2>3, <2>4 DEF RequestOK, Running
  <1>11. ProxyOK(p)'
      BY <1>4, <1>8, <1>9 DEF ProxyOK, HasRead
  <1>12. QED
      BY <1>5, <1>6, <1>10, <1>11 DEF ProxyStep

LEMMA ResolvesSound ==
    ASSUME RuntimeOK, RolesTypeOK, ProxyType, RolesInv, ProxiesOK, UNCHANGED roleVars,
           NEW p \in Proxies, Resolve(p)
    PROVE  ProxyStep(p)
  <1> USE DEF roleVars, store, komodo
  <1> p \in Invocations
      BY Disjoint
  <1>0. RequestOK(p) /\ ProxyOK(p)
      BY DEF ProxiesOK
  <1>1. PICK r \in Refs :
           LET all == [resolved[p] EXCEPT ![r] = Parameter[r]] IN
           /\ resolved[p][r] = None /\ Parameter[r] # None
           /\ resolved' = [resolved EXCEPT ![p] = all]
           /\ towrite' = [towrite EXCEPT ![p] = Append(@, r)]
           /\ Proceed(p, IF None \in {all[s] : s \in Refs} THEN "resolve" ELSE left[p][1])
      BY DEF Resolve
  <1> DEFINE all == [resolved[p] EXCEPT ![r] = Parameter[r]]
  <1> DEFINE first == left[p][1] = "environment" /\ resolved[p] = Empty
             now == first => Complete("app") /\ url["app"] # None
  <1>2. /\ pc[p] = "resolve" /\ sound' = [sound EXCEPT ![p] = @ /\ now]
        /\ UNCHANGED <<stack, env, deployed, variable, request, left, wrote>>
      BY DEF Resolve, At, BeginsToRead
  <1>3. left[p] # <<>> /\ Resolves(left[p][1])
      BY <1>0, <1>2 DEF RequestOK, Running, AtAction
  <1>4. Parameter[r] \in Nat /\ Parameter[r] \in {url["app"], secure["app"]}
      BY DEF Parameter, RolesTypeOK, Roles
  <1>5. /\ all \in Values /\ resolved'[p] = all /\ resolved' \in [Proxies -> Values]
        /\ \A s \in Refs : all[s] = IF s = r THEN Parameter[r] ELSE resolved[p][s]
      BY <1>1, <1>4 DEF ProxyType, Values
  <1>6. PICK n \in {"resolve", left[p][1]} :
           Proceed(p, n) /\ (n # "resolve" => \A s \in Refs : all[s] # None)
      BY <1>1
  <1>7. n \in Steps /\ n # "ok"
      BY <1>3, <1>6, Words DEF Resolves
  <1>8. RuntimeOK' /\ Moves(p, n)
      BY <1>6, <1>7, CallEnds
  <1>9. /\ alone' = alone /\ \A q \in Proxies : q # p => pc'[q] = pc[q]
        /\ \/ pc'[p] = n /\ result'[p] = result[p]
           \/ pc'[p] = "done" /\ result'[p] # "ok"
      BY <1>7, <1>8, Disjoint DEF Moves
  <1>10. ProxyType' /\ towrite'[p] # <<>> /\ (sound'[p] <=> sound[p] /\ now)
    <2>1. towrite' \in [Proxies -> Seq(Refs)] /\ towrite'[p] # <<>>
      <3>1. towrite[p] \in Seq(Refs)
          BY DEF ProxyType
      <3>2. Append(towrite[p], r) \in Seq(Refs) /\ Append(towrite[p], r) # <<>>
          BY <3>1, AppendProperties
      <3>3. QED
          BY <1>1, <3>2 DEF ProxyType
    <2>2. sound' \in [Proxies -> BOOLEAN] /\ (sound'[p] <=> sound[p] /\ now)
      <3>1. sound \in [Proxies -> BOOLEAN] /\ (sound[p] /\ now) \in BOOLEAN
          BY DEF ProxyType
      <3> HIDE DEF now
      <3>2. QED
          BY <1>2, <3>1
    <2>3. QED
        BY <1>2, <1>5, <2>1, <2>2 DEF ProxyType
  <1>11. /\ Done(p)' = Done(p) /\ (HasSet(p)' <=> HasSet(p)) /\ (HasDeployed(p)' <=> HasDeployed(p))
      BY <1>2 DEF Done, HasSet, HasDeployed
  <1>12. RequestOK(p)'
    <2>1. pc'[p] # "idle" /\ pc'[p] \in {"resolve", left[p][1], "done"}
          /\ (pc'[p] = "environment" => \A s \in Refs : all[s] # None)
        BY <1>3, <1>6, <1>9 DEF Resolves
    <2>2. pc'[p] = "done" \/ AtAction(pc'[p], left[p][1])
        BY <1>3, <2>1 DEF AtAction, Resolves
    <2>3. result'[p] # "ok"
        BY <1>0, <1>2, <1>9 DEF RequestOK
    <2>4. alone'[p] => \A s \in Proxies \ {p} : ~Running(s)'
        BY <1>0, <1>9 DEF RequestOK, Running
    <2>5. QED
        BY <1>0, <1>2, <1>3, <1>5, <1>10, <1>11, <2>1, <2>2, <2>3, <2>4 DEF RequestOK, Running
  <1>13. Works("app") => Parameter[r] = password["app"]
      BY DEF Works, Parameter
  <1>14. ProxyOK(p)'
    <2>1. (Works("app")' <=> Works("app")) /\ (Clashed("app")' <=> Clashed("app"))
        BY DEF Works, Complete, Clashed
    <2>2. first /\ sound'[p] /\ ~Clashed("app") => Works("app")
      <3>1. ~Clashed("app") => RoleOK("app")
          BY DEF RolesInv, Roles
      <3>2. Complete("app") /\ url["app"] # None /\ RoleOK("app") => Works("app")
          BY CompleteIs DEF RoleOK, Works
      <3>3. QED
          BY <1>10, <3>1, <3>2
    <2>3. ASSUME HasRead(p)', sound'[p], ~Clashed("app")
          PROVE  Works("app") /\ \A s \in Refs : resolved[p][s] \in {None, password["app"]}
      <3>1. left[p][1] = "environment" /\ sound[p]
          BY <1>2, <1>10, <2>3 DEF HasRead
      <3>2. CASE first
          BY <2>2, <2>3, <3>2 DEF Empty
      <3>3. CASE ~first
          BY <1>0, <1>3, <2>3, <3>1, <3>3 DEF HasRead, ProxyOK
      <3>4. QED
          BY <3>2, <3>3
    <2>4. ASSUME HasRead(p)', sound'[p], ~Clashed("app")
          PROVE  \A s \in Refs : resolved'[p][s] \in {None, password["app"]}
        BY <1>5, <1>13, <2>3, <2>4
    <2>5. sound'[p] => sound[p]
        BY <1>10
    <2>6. QED
        BY <1>0, <1>2, <1>9, <1>11, <2>1, <2>3, <2>4, <2>5 DEF ProxyOK
  <1>15. QED
      BY <1>8, <1>10, <1>12, <1>14 DEF ProxyStep

\* The other actions on Komodo.
LEMMA ActsSound ==
    ASSUME RuntimeOK, RolesTypeOK, ProxyType, RolesInv, ProxiesOK, UNCHANGED roleVars,
           NEW p \in Proxies,
           \/ SetEnvironment(p) \/ CreateVariable(p) \/ UpdateVariable(p) \/ ListServers(p)
           \/ CreateStack(p) \/ DeployStack(p)
    PROVE  ProxyStep(p)
  <1> USE DEF roleVars, store, komodo
  <1> p \in Invocations
      BY Disjoint
  <1>0. RequestOK(p) /\ ProxyOK(p)
      BY DEF ProxiesOK
  <1>1. /\ pc[p] \in {"environment", "variables", "update", "servers", "create", "deploy"}
        /\ UNCHANGED <<request, sound>>
      BY DEF SetEnvironment, CreateVariable, UpdateVariable, ListServers, CreateStack, DeployStack, At
  <1>2. /\ Running(p) /\ left[p] # <<>> /\ AtAction(pc[p], left[p][1])
        /\ pc[p] = left[p][1] \/ (pc[p] = "update" /\ left[p][1] = "variables")
      BY <1>0, <1>1 DEF RequestOK, Running, AtAction
  <1>3. ASSUME NextAction(p)
        PROVE  /\ RuntimeOK' /\ alone' = alone
               /\ left' \in [Proxies -> Seq(Actions)] /\ resolved' \in [Proxies -> Values]
               /\ towrite' \in [Proxies -> Seq(Refs)]
               /\ RequestOK(p)' /\ resolved'[p] = Empty /\ ~HasRead(p)'
               /\ HasSet(p)' <=> HasSet(p) \/ pc[p] = "environment"
               /\ HasDeployed(p)' <=> HasDeployed(p) \/ (HasSet(p) /\ pc[p] = "deploy")
      BY <1>0, <1>1, <1>2, <1>3, NextActionDoes DEF HasRead
  <1>4. /\ Works("app")' <=> Works("app")
        /\ Clashed("app")' <=> Clashed("app")
        /\ HasDeployed(p) => HasSet(p)
      BY DEF Works, Complete, Clashed, HasSet, HasDeployed
  <1>5. CASE SetEnvironment(p)
    <2>1. /\ pc[p] = "environment" /\ env' = resolved[p] /\ wrote'[p] = resolved[p]
          /\ NextAction(p) /\ UNCHANGED <<stack, deployed, variable>>
          /\ wrote' \in [Proxies -> Values] /\ env' \in Values
        BY <1>5 DEF SetEnvironment, ProxyType
    <2>2. /\ \A r \in Refs : resolved[p][r] # None
          /\ HasRead(p)
        BY <1>0, <1>2, <2>1 DEF RequestOK, HasRead, Empty, Refs
    <2>3. ProxyType'
        BY <1>1, <1>3, <2>1 DEF ProxyType
    <2>4. ProxyOK(p)'
        BY <1>0, <1>1, <1>3, <1>4, <2>1, <2>2 DEF ProxyOK
    <2>5. QED
        BY <1>3, <2>1, <2>3, <2>4 DEF ProxyStep
  <1>6. CASE CreateVariable(p) \/ UpdateVariable(p)
    <2>1. /\ pc[p] \in {"variables", "update"} /\ UNCHANGED <<stack, env, deployed, wrote>>
          /\ variable' = variable \/ WriteVariable(p)
          /\ \/ NextAction(p)
             \/ /\ Len(towrite[p]) # 1 /\ towrite' = [towrite EXCEPT ![p] = Tail(@)]
                /\ Reply(p, "variables") /\ UNCHANGED <<left, resolved>>
             \/ Proceed(p, "update") /\ UNCHANGED <<left, resolved, towrite>>
        BY <1>6 DEF CreateVariable, UpdateVariable, NextVariable
    <2>2. variable' \in Values
      <3>1. variable \in Values /\ resolved[p] \in Values
          BY DEF ProxyType
      <3>2. ASSUME NEW r, variable' = [variable EXCEPT ![r] = resolved[p][r]]
            PROVE  variable' \in Values
          BY <3>1, <3>2 DEF Values
      <3>3. QED
          BY <2>1, <3>1, <3>2 DEF WriteVariable
    <2>3. CASE NextAction(p)
      <3>1. ProxyType'
          BY <1>1, <1>3, <2>1, <2>2, <2>3 DEF ProxyType
      <3>2. ProxyOK(p)'
          BY <1>0, <1>1, <1>3, <1>4, <2>1, <2>3 DEF ProxyOK
      <3>3. QED
          BY <1>3, <2>3, <3>1, <3>2 DEF ProxyStep
    <2>4. ASSUME UNCHANGED <<left, resolved>>, NEW n \in {"variables", "update"},
                 Reply(p, n) \/ Proceed(p, n),
                 towrite' \in [Proxies -> Seq(Refs)], towrite'[p] # <<>>
          PROVE  ProxyStep(p)
      <3>1. RuntimeOK' /\ Moves(p, n)
          BY <2>4, CallEnds, Words
      <3>2. /\ alone' = alone /\ \A q \in Proxies : q # p => pc'[q] = pc[q]
            /\ \/ pc'[p] = n /\ result'[p] = result[p]
               \/ pc'[p] = "done" /\ result'[p] # "ok"
          BY <2>4, <3>1, Disjoint DEF Moves
      <3>3. ProxyType'
          BY <1>1, <2>1, <2>2, <2>4 DEF ProxyType
      <3>4. /\ Done(p)' = Done(p) /\ (HasSet(p)' <=> HasSet(p)) /\ (HasDeployed(p)' <=> HasDeployed(p))
            /\ (HasRead(p)' <=> HasRead(p))
          BY <1>1, <2>4 DEF Done, HasSet, HasDeployed, HasRead
      <3>5. ProxyOK(p)'
          BY <1>0, <1>1, <1>4, <2>1, <2>4, <3>2, <3>4 DEF ProxyOK
      <3>6. alone'[p] => \A s \in Proxies \ {p} : ~Running(s)'
          BY <1>0, <3>2 DEF RequestOK, Running
      <3>7. pc'[p] = "done" \/ AtAction(pc'[p], left[p][1])
          BY <1>2, <2>1, <3>2 DEF AtAction
      <3>8. RequestOK(p)'
          BY <1>0, <1>1, <1>2, <2>1, <2>4, <3>2, <3>4, <3>6, <3>7 DEF RequestOK, Running
      <3>9. QED
          BY <3>1, <3>3, <3>5, <3>8 DEF ProxyStep
    <2>5. towrite[p] \in Seq(Refs) /\ towrite[p] # <<>> /\ towrite \in [Proxies -> Seq(Refs)]
        BY <1>0, <2>1 DEF ProxyType, RequestOK
    <2>6. CASE /\ Len(towrite[p]) # 1 /\ towrite' = [towrite EXCEPT ![p] = Tail(@)]
               /\ Reply(p, "variables") /\ UNCHANGED <<left, resolved>>
      <3>1. Tail(towrite[p]) \in Seq(Refs) /\ Tail(towrite[p]) # <<>>
        <4>1. Len(towrite[p]) \in Nat \ {0, 1}
            BY <2>5, <2>6, EmptySeq
        <4>2. Tail(towrite[p]) \in Seq(Refs) /\ Len(Tail(towrite[p])) = Len(towrite[p]) - 1
            BY <2>5, HeadTailProperties
        <4>3. Len(Tail(towrite[p])) # 0
            BY <4>1, <4>2
        <4>4. \A w \in Seq(Refs) : w = <<>> <=> Len(w) = 0
            BY EmptySeq
        <4>5. QED
            BY <4>2, <4>3, <4>4, Zenon
      <3>2. towrite' \in [Proxies -> Seq(Refs)] /\ towrite'[p] # <<>>
          BY <2>5, <2>6, <3>1
      <3>3. QED
          BY <2>4, <2>6, <3>2
    <2>7. QED
        BY <2>1, <2>3, <2>4, <2>5, <2>6
  <1>7. CASE ListServers(p) \/ CreateStack(p)
    <2>1. /\ NextAction(p) /\ stack' \in BOOLEAN /\ pc[p] \in {"servers", "create"}
          /\ UNCHANGED <<env, deployed, variable, wrote>>
        BY <1>7 DEF ListServers, CreateStack, At, ProxyType
    <2>2. ProxyType'
        BY <1>1, <1>3, <2>1 DEF ProxyType
    <2>3. ProxyOK(p)'
        BY <1>0, <1>1, <1>3, <1>4, <2>1 DEF ProxyOK
    <2>4. QED
        BY <1>3, <2>1, <2>2, <2>3 DEF ProxyStep
  <1>8. CASE DeployStack(p)
    <2>1. /\ pc[p] = "deploy" /\ deployed' = env
          /\ NextAction(p) /\ UNCHANGED <<stack, env, variable, wrote>>
        BY <1>8 DEF DeployStack
    <2>2. ProxyType'
        BY <1>1, <1>3, <2>1 DEF ProxyType
    <2>3. ProxyOK(p)'
        BY <1>0, <1>1, <1>3, <1>4, <2>1 DEF ProxyOK
    <2>4. QED
        BY <1>3, <2>1, <2>2, <2>3 DEF ProxyStep
  <1>9. QED
      BY <1>5, <1>6, <1>7, <1>8

-----------------------------------------------------------------------------
LEMMA ProxyTyped ==
    ASSUME RuntimeOK, ProxyType, RolesTypeOK, ProxiesOK, RolesInv, UNCHANGED roleVars,
           NEW p \in Proxies, Serve(p)
    PROVE  /\ RuntimeOK' /\ ProxyType' /\ ProxiesOK'
           /\ \A q \in Procs : pc'[q] = pc[q] /\ result'[q] = result[q]
  <1> p \in Invocations
      BY Disjoint
  <1>1. \A q \in Procs : pc'[q] = pc[q] /\ result'[q] = result[q]
    <2>1. \A q \in Procs : q \in Invocations /\ q # p
        BY Disjoint
    <2>2. ASSUME NEW n, Proceed(p, n) \/ Reply(p, n) \/ Return(p, "err")
          PROVE  \A q \in Procs : pc'[q] = pc[q] /\ result'[q] = result[q]
        BY <2>1, <2>2 DEF Proceed, Reply, Return, RuntimeOK
    <2>3. CASE StartProxy(p)
        BY <2>1, <2>3 DEF StartProxy, Begin, RuntimeOK
    <2>4. CASE Resolve(p) \/ FailAction(p)
        BY <2>2, <2>4 DEF Resolve, FailAction, Abort
    <2>5. CASE NextAction(p)
        BY <2>2, <2>5 DEF NextAction
    <2>6. CASE CreateVariable(p) \/ UpdateVariable(p)
        BY <2>2, <2>5, <2>6 DEF CreateVariable, UpdateVariable, NextVariable
    <2>7. CASE SetEnvironment(p) \/ ListServers(p) \/ CreateStack(p) \/ DeployStack(p)
        BY <2>5, <2>7 DEF SetEnvironment, ListServers, CreateStack, DeployStack
    <2>8. QED
        BY <2>3, <2>4, <2>6, <2>7 DEF Serve
  <1>2. CASE FailAction(p)
    <2>1. UNCHANGED proxyVars /\ Return(p, "err") /\ Running(p)
        BY <1>2 DEF FailAction, Abort, proxyVars, locals
    <2>2. RuntimeOK' /\ alone' = alone
        BY <2>1 DEF RuntimeOK, Return
    <2>3. \A q \in Proxies : \/ pc'[q] = pc[q] /\ result'[q] = result[q]
                             \/ Running(q) /\ pc'[q] = "done" /\ result'[q] # "ok"
        BY <2>1, Disjoint DEF Return, RuntimeOK
    <2>4. ClashesStay /\ WorksOn
        BY DEF roleVars, store, ClashesStay, Clashed, WorksOn, Works, Complete
    <2>5. ProxiesOK'
        BY <2>1, <2>2, <2>3, <2>4, ProxiesStay
    <2>6. ProxyType'
        BY <2>1 DEF ProxyType, proxyVars, komodo, locals
    <2>7. QED
        BY <1>1, <2>2, <2>5, <2>6
  <1>3. CASE ~FailAction(p)
    <2>1. ProxyStep(p)
        BY <1>3, StartsSound, ResolvesSound, ActsSound DEF Serve
    <2>2. \A q \in Proxies : q # p => RequestOK(q)' /\ ProxyOK(q)'
        BY OtherProxies
    <2>3. QED
        BY <1>1, <2>1, <2>2 DEF ProxyStep, ProxiesOK
  <1>4. QED
      BY <1>2, <1>3

-----------------------------------------------------------------------------
KomodoInv == RuntimeOK /\ RolesTypeOK /\ ProxyType /\ RolesInv /\ RotationsOK /\ ProxiesOK

\* The last of the four parameters is not there without the others.
LEMMA HistoryIs ==
    ASSUME NEW h \in Histories
    PROVE  "database" \in h.named => h.secure /\ "username" \in h.named
  <1>1. CASE h = [url |-> FALSE, secure |-> TRUE, named |-> Names]
      BY <1>1 DEF Names
  <1>2. ASSUME NEW k \in 0..4,
               h = [url |-> k >= 1, secure |-> k >= 3,
                    named |-> {n \in Names : k >= IF n = "username" THEN 2 ELSE 4}]
        PROVE  "database" \in h.named => h.secure /\ "username" \in h.named
    <2>1. /\ h.named = {n \in Names : k >= IF n = "username" THEN 2 ELSE 4}
          /\ h.secure = (k >= 3)
        BY <1>2
    <2>2. "database" \in h.named <=> k >= 4
        BY <2>1 DEF Names
    <2>3. "username" \in h.named <=> k >= 2
        BY <2>1 DEF Names
    <2>4. k >= 4 => k >= 3 /\ k >= 2
        BY <1>2
    <2>5. k >= 4 => h.secure
        BY <2>1, <2>4, Zenon
    <2>6. QED
        BY <2>2, <2>3, <2>4, <2>5
  <1>3. QED
      BY <1>1, <1>2 DEF Histories

LEMMA InitIsSound == Init => KomodoInv
  <1> SUFFICES ASSUME Init PROVE KomodoInv
      OBVIOUS
  <1>1. /\ pc = [p \in Invocations |-> "idle"] /\ alive = Invocations
        /\ result = [p \in Invocations |-> "none"] /\ alone = [p \in Invocations |-> FALSE]
      BY DEF Init, InitInvocations
  <1>2. RuntimeOK
      BY <1>1 DEF RuntimeOK
  <1>3. PICK had \in {{}, {"app"}, Roles}, past \in [Roles -> Histories] :
           LET pw(r) == IF r = "app" THEN 1 ELSE 2 IN
           /\ password = [r \in Roles |-> IF r \in had THEN pw(r) ELSE None]
           /\ url = [r \in Roles |-> IF r \in had /\ past[r].url THEN pw(r) ELSE None]
           /\ secure = [r \in Roles |-> IF r \in had /\ past[r].secure THEN pw(r) ELSE None]
           /\ named = {rn \in had \X Names : rn[2] \in past[rn[1]].named}
      BY DEF Init, InitRoles
  <1>4. /\ role = [p \in Procs |-> "app"] /\ secret = [p \in Procs |-> None] /\ clashed = {}
        /\ database \in BOOLEAN /\ made = 2
      BY DEF Init, InitRoles
  <1>5. had \subseteq Roles
      BY DEF Roles
  <1>6. RolesTypeOK
      BY <1>3, <1>4, <1>5 DEF RolesTypeOK, Roles, None
  <1>7. ASSUME NEW r \in Roles PROVE RoleOK(r)
    <2>1. \A n \in Names : <<r, n>> \in named <=> r \in had /\ n \in past[r].named
        BY <1>3, <1>7
    <2>2. \A p \in Procs : ~On(p, r, WithRole) /\ ~On(p, r, Rotating)
        BY <1>1, Disjoint DEF On, WithRole, Rotating, Backfilling
    <2>3. CASE r \notin had
      <3>1. password[r] = None /\ secure[r] = None /\ url[r] = None
          BY <1>3, <1>7, <2>3
      <3>2. ~Published(r)
          BY <2>1, <2>3 DEF Published, Names
      <3>3. QED
          BY <2>2, <3>1, <3>2 DEF RoleOK
    <2>4. CASE r \in had
      <3>1. /\ password[r] \in {1, 2} /\ url[r] \in {password[r], None}
            /\ secure[r] = IF past[r].secure THEN password[r] ELSE None
          BY <1>3, <1>7, <2>4
      <3>2. ASSUME Published(r) PROVE Complete(r) /\ secure[r] = password[r]
        <4>1. "database" \in past[r].named
            BY <2>1, <3>2 DEF Published, Names
        <4>2. past[r].secure /\ "username" \in past[r].named
            BY <1>7, <4>1, HistoryIs
        <4>3. <<r, "username">> \in named
            BY <2>1, <2>4, <4>2 DEF Names
        <4>4. QED
            BY <3>1, <3>2, <4>2, <4>3, CompleteIs DEF None
      <3>3. QED
          BY <2>2, <3>1, <3>2 DEF RoleOK, None
    <2>5. QED
        BY <2>3, <2>4
  <1>8. ASSUME NEW p \in Procs PROVE ProcOK(p)
    <2>1. pc[p] = "idle" /\ result[p] = "none" /\ role[p] = "app"
        BY <1>1, <1>4, Disjoint
    <2>2. QED
        BY <2>1 DEF ProcOK, WorkOK, Backfilling
  <1>9. RolesInv /\ RotationsOK
    <2>1. \A p \in Procs : pc[p] = "idle"
        BY <1>1, Disjoint
    <2>2. RotationsOK
        BY <1>7, <2>1 DEF RotationsOK, RoleOK, On, Rotating
    <2>3. QED
        BY <1>7, <1>8, <2>2 DEF RolesInv
  <1>10. Empty \in Values
      BY DEF Empty, Values, None
  <1>11. ProxyType
      BY <1>10 DEF Init, ProxyType
  <1>12. ASSUME NEW p \in Proxies PROVE RequestOK(p) /\ ProxyOK(p)
    <2>1. /\ pc[p] = "idle" /\ result[p] = "none" /\ ~alone[p] /\ ~sound[p] /\ resolved[p] = Empty
        BY <1>1, Disjoint DEF Init
    <2>2. QED
        BY <2>1, <1>10 DEF RequestOK, ProxyOK, HasRead, Running
  <1>13. QED
      BY <1>2, <1>6, <1>9, <1>11, <1>12 DEF KomodoInv, ProxiesOK

LEMMA KomodoStep ==
    ASSUME KomodoInv, [Next]_vars
    PROVE  KomodoInv' /\ ClashesStay /\ WorksOn
  <1> USE DEF KomodoInv
  <1>1. ASSUME UNCHANGED roleVars, \A p \in Procs : /\ pc'[p] = pc[p] \/ pc'[p] = "done"
                                                    /\ result'[p] = result[p] \/ result'[p] # "ok"
        PROVE  RolesTypeOK' /\ RolesInv' /\ RotationsOK' /\ ClashesStay /\ WorksOn
    <2>1. RolesTypeOK' /\ ClashesStay
        BY <1>1 DEF RolesTypeOK, roleVars, store, ClashesStay, Clashed
    <2>2. \A r \in Roles : Works(r)' <=> Works(r)
        BY <1>1 DEF Works, Complete, roleVars, store
    <2>3. WorksOn
        BY <1>1, <2>2 DEF WorksOn, roleVars, store
    <2>4. QED
        BY <1>1, <2>1, <2>3, RolesStay
  <1>2. ASSUME UNCHANGED <<pc, alone, result, roleVars, proxyVars>>, alive' \subseteq alive
        PROVE  KomodoInv' /\ ClashesStay /\ WorksOn
    <2>1. RuntimeOK' /\ ProxyType'
        BY <1>2 DEF RuntimeOK, ProxyType, proxyVars, komodo, locals
    <2>2. ProxiesOK'
        BY <1>1, <1>2, ProxiesStay
    <2>3. QED
        BY <1>1, <1>2, <2>1, <2>2
  <1>3. ASSUME NEW p \in Procs, EnsureDatabase(p), UNCHANGED proxyVars
        PROVE  KomodoInv' /\ ClashesStay /\ WorksOn
    <2>1. Typed(p) /\ ClashesStay
        BY <1>3, RolesTyped DEF ClashesStay, Clashed
    <2>2. RolesInv' /\ WorksOn /\ RotationsOK'
        BY <1>3, RolesStep, RotationsStep
    <2>3. ProxyType'
        BY <1>3 DEF ProxyType, proxyVars, komodo, locals
    <2>4. \A q \in Proxies : alone'[q] = alone[q] /\ pc'[q] = pc[q] /\ result'[q] = result[q]
        BY <2>1, Disjoint DEF Typed
    <2>5. ProxiesOK'
        BY <1>3, <2>1, <2>2, <2>4, ProxiesStay
    <2>6. QED
        BY <2>1, <2>2, <2>3, <2>5 DEF Typed
  <1>4. ASSUME NEW p \in Proxies, Serve(p), UNCHANGED roleVars
        PROVE  KomodoInv' /\ ClashesStay /\ WorksOn
      BY <1>1, <1>4, ProxyTyped
  <1>5. ASSUME NEW p \in Invocations, Vanish(p), UNCHANGED <<roleVars, proxyVars>>
        PROVE  KomodoInv' /\ ClashesStay /\ WorksOn
    <2>1. /\ Running(p) /\ alone' = alone /\ RuntimeOK'
          /\ \A q \in Invocations : \/ pc'[q] = pc[q] /\ result'[q] = result[q]
                                    \/ Running(q) /\ pc'[q] = "done" /\ result'[q] # "ok"
        BY <1>5 DEF Vanish, Return, RuntimeOK
    <2>2. ProxyType'
        BY <1>5 DEF ProxyType, proxyVars, komodo, locals
    <2>3. /\ \A q \in Procs : /\ pc'[q] = pc[q] \/ pc'[q] = "done"
                              /\ result'[q] = result[q] \/ result'[q] # "ok"
          /\ \A q \in Proxies : /\ alone'[q] = alone[q]
                                /\ \/ pc'[q] = pc[q] /\ result'[q] = result[q]
                                   \/ Running(q) /\ pc'[q] = "done" /\ result'[q] # "ok"
        BY <2>1, Disjoint
    <2>4. ProxiesOK'
        BY <1>1, <1>5, <2>3, ProxiesStay
    <2>5. QED
        BY <1>1, <1>5, <2>1, <2>2, <2>3, <2>4
  <1>6. ASSUME NEW p \in Invocations, Die(p), UNCHANGED <<roleVars, proxyVars>>
        PROVE  KomodoInv' /\ ClashesStay /\ WorksOn
    <2>1. UNCHANGED <<pc, alone, result>> /\ alive' \subseteq alive
        BY <1>6 DEF Die
    <2>2. QED
        BY <1>2, <1>6, <2>1
  <1>7. CASE UNCHANGED vars \/ (Terminated /\ UNCHANGED <<roleVars, proxyVars>>)
    <2>1. UNCHANGED <<pc, alone, result, roleVars, proxyVars>> /\ alive' \subseteq alive
        BY <1>7 DEF vars, Terminated, runtime
    <2>2. QED
        BY <1>2, <2>1
  <1>8. QED
      BY <1>3, <1>4, <1>5, <1>6, <1>7 DEF Next

LEMMA KomodoInductive == Spec => []KomodoInv
  <1>1. KomodoInv /\ [Next]_vars => KomodoInv'
      BY KomodoStep
  <1>2. QED
      BY <1>1, InitIsSound, PTL DEF Spec

-----------------------------------------------------------------------------
\* The variables keep their types.
THEOREM KomodoTypeCorrect == Spec => []TypeOK
  <1>1. KomodoInv => TypeOK
      BY DEF KomodoInv, RuntimeOK, ProxyType, ProxiesOK, RequestOK, TypeOK, Steps
  <1>2. QED
      BY <1>1, KomodoInductive, PTL

\* As long as a role has seen no clash, its complete parameters are its own,
\* wherever an invocation was killed: `database` is written last, and only by
\* one that was alone with the role.
THEOREM CompleteIsCurrent == Spec => []CompleteMeansCurrent
  <1>1. KomodoInv => CompleteMeansCurrent
    <2> SUFFICES ASSUME KomodoInv, NEW r \in Roles, ~Clashed(r), Complete(r)
                 PROVE  secure[r] = password[r] /\ url[r] \in {password[r], None}
        BY DEF CompleteMeansCurrent
    <2>1. RoleOK(r) /\ Published(r)
        BY CompleteIs DEF KomodoInv, RolesInv
    <2>2. QED
        BY <2>1 DEF RoleOK
  <1>2. QED
      BY <1>1, KomodoInductive, PTL

\* Once an invocation has returned Ok each role works, until its rotations
\* clash or SSM fails to read what is there.
THEOREM OkStaysUsable == Spec => []OkMeansUsable
  <1>1. KomodoInv => OkMeansUsable
      BY DEF KomodoInv, RolesInv, ProcOK, Trusted, OkMeansUsable, Roles
  <1>2. QED
      BY <1>1, KomodoInductive, PTL

\* The password of a role whose parameters are complete is replaced only by a
\* rotation that overlapped another of that role, or that an SSM error brought
\* about.
THEOREM CompleteStays == Spec => CompleteIsKept
  <1>1. KomodoInv /\ [Next]_vars =>
           [\A r \in Roles : Complete(r) /\ password'[r] # password[r] =>
               \E p \in Procs : role[p] = r /\ pc[p] = "rotate" /\ <<p, r>> \in clashed]_roleVars
    <2> SUFFICES ASSUME KomodoInv, Next, NEW r \in Roles, Complete(r), password'[r] # password[r]
                 PROVE  \E p \in Procs : role[p] = r /\ pc[p] = "rotate" /\ <<p, r>> \in clashed
        BY DEF vars, roleVars, store
    <2>1. PICK p \in Procs : EnsureDatabase(p)
        BY DEF Next, roleVars, store
    <2>2. SetPassword(p) /\ (pc[p] = "rotate" \/ password[role[p]] = None)
        BY <2>1 DEF EnsureDatabase, Start, FindDatabase, CreateDatabase, RoleExists,
                    CredentialsComplete, CreateRole, RotateRole, Publish, BackfillUrl, NextRole,
                    PutUrl, PutName, PutPassword, Fail, roleVars, store
    <2>3. role[p] = r
        BY <2>2 DEF SetPassword, KomodoInv, RolesTypeOK
    <2>4. password[r] # None
        BY DEF KomodoInv, RotationsOK, Complete
    <2>5. On(p, r, {"rotate"})
        BY <2>2, <2>3, <2>4 DEF On
    <2>6. <<p, r>> \in clashed
        BY <2>5 DEF KomodoInv, RotationsOK
    <2>7. QED
        BY <2>5, <2>6 DEF On
  <1>2. QED
      BY <1>1, KomodoInductive, PTL DEF Spec, CompleteIsKept

\* What one request has set up and deployed from parameters that were complete
\* when it began to read them holds credentials that work, until rotations of
\* the app role clash, however its reads interleave with backfills and
\* whatever rotations came before them.
THEOREM DeployedStaysUsable == Spec => []DeployedWorks
  <1>1. KomodoInv => DeployedWorks
    <2> SUFFICES ASSUME KomodoInv, NEW p \in Proxies, result[p] = "ok", alone[p], sound[p],
                        ~Clashed("app"), SetsFirst(request[p])
                 PROVE  \A r \in Refs : deployed[r] = password["app"]
        BY DEF DeployedWorks
    <2>1. RequestOK(p) /\ ProxyOK(p)
        BY DEF KomodoInv, ProxiesOK
    <2>2. left[p] = <<>> /\ request[p] \in Requests
        BY <2>1 DEF RequestOK
    <2>3. Len(request[p]) \in Nat
        BY <2>2, Disjoint
    <2>4. Done(p) = Len(request[p])
        BY <2>2, <2>3 DEF Done
    <2>5. HasDeployed(p)
        BY <2>4 DEF HasDeployed, SetsFirst
    <2>6. QED
        BY <2>1, <2>5 DEF ProxyOK
  <1>2. QED
      BY <1>1, KomodoInductive, PTL

\* A request that has set an environment deploys that one, or does not deploy.
THEOREM DeploysWhatItSet == Spec => DeployFollowsEnvironment
  <1>1. KomodoInv /\ [Next]_vars =>
           [\A p \in Proxies : pc[p] = "deploy" /\ deployed' # deployed /\ alone[p] /\ HasSet(p) =>
                deployed' = wrote[p] /\ wrote[p] # Empty]_vars
    <2> SUFFICES ASSUME KomodoInv, Next, NEW p \in Proxies, deployed' # deployed, alone[p], HasSet(p)
                 PROVE  deployed' = wrote[p] /\ wrote[p] # Empty
        OBVIOUS
    <2>1. ASSUME NEW q \in Proxies, Serve(q) PROVE deployed' = env
        BY <2>1 DEF Serve, StartProxy, Resolve, SetEnvironment, CreateVariable, UpdateVariable,
                    ListServers, CreateStack, DeployStack, FailAction, komodo
    <2>2. deployed' = env
        BY <2>1 DEF Next, proxyVars, komodo
    <2>3. env = wrote[p] /\ \A r \in Refs : wrote[p][r] # None
        BY DEF KomodoInv, ProxiesOK, ProxyOK
    <2>4. wrote[p]["url"] # None /\ Empty["url"] = None
        BY <2>3 DEF Refs, Empty
    <2>5. QED
        BY <2>2, <2>3, <2>4
  <1>2. QED
      BY <1>1, KomodoInductive, PTL DEF Spec, DeployFollowsEnvironment
================================================================================
