-------------------------- MODULE DashboardsProofs --------------------------
(***************************************************************************)
(* Proofs about Dashboards, for any invocations, folders and dashboards.   *)
(*                                                                         *)
(* That a prune spares what is not its project's rests on what is known of *)
(* a dashboard while the deploy works from an old answer: it is as its     *)
(* writer's request has it (DashOK), and if it is no leftover any more     *)
(* another deploy has written it since (PlanOK).                           *)
(*                                                                         *)
(* That a success means what it says rests on being alone: no deploy that  *)
(* clashes with it runs, so each answer still holds at the next call       *)
(* (HealOK, ThereOK).  Others do run beside it, in its folder too: they    *)
(* take nothing of it away (OthersDeployElsewhere), and do not come to     *)
(* clash with it by what is written meanwhile (NoNewClash).                *)
(***************************************************************************)
EXTENDS Dashboards, TLAPS

Steps == TokenCalls \cup DeployCalls
Dash  == [tags : SUBSET Projects, folder : Folders, by : Deployers \cup {Earlier}]

RuntimeOK ==
    /\ pc \in [Invocations -> Steps \cup {"idle", "done"}]
    /\ alive \subseteq Invocations /\ alone \in [Invocations -> BOOLEAN]
    /\ result \in [Invocations -> {"none", "ok", "err"}]

TokenOK ==
    /\ account \in Accounts /\ made \in Nat /\ tokens \subseteq 1..made /\ stored \in 0..made
    /\ listed \in [Rotators -> SUBSET (1..made)] /\ fresh \in [Rotators -> 0..made]

LocalOK ==
    /\ titled \in [Folders -> Titles \cup {Absent}]
    /\ request \in [Deployers -> Requests \cup {NoRequest}] /\ token \in [Deployers -> 0..made]
    /\ todo \in [Deployers -> SUBSET Uids]

\* A dashboard is from earlier times or as its writer's request has it.
DashOK ==
    /\ dash \in [Uids -> Dash \cup {Absent}]
    /\ \A u \in Uids : dash[u] # Absent =>
          /\ dash[u].by = Earlier => dash[u] \in Left[u]
          /\ \A p \in Deployers : dash[u].by = p =>
                request[p] \in Requests /\ u \in request[p].wanted /\ dash[u] = Written(u, p)

Leftover(q, u) == u \notin q.wanted /\ dash[u] # Absent
                  /\ q.project \in dash[u].tags /\ dash[u].folder = q.folder

\* What a deploy has yet to write it was asked for; what it has yet to delete
\* it was not, and is a leftover unless another deploy has written it since.
PlanOK(p) ==
    /\ request[p] = NoRequest <=> pc[p] = "idle"
    /\ pc[p] = "idle" => todo[p] = {}
    /\ pc[p] \in {"mkdir", "retitle", "upsert"} => todo[p] \subseteq request[p].wanted
    /\ pc[p] \in {"search", "prune"} => request[p].prune
    /\ pc[p] = "prune" => \A u \in todo[p] :
          /\ u \notin request[p].wanted
          /\ dash[u] # Absent => Leftover(request[p], u) \/ dash[u].by # Earlier

DeployOK == LocalOK /\ DashOK /\ \A p \in Deployers : PlanOK(p)

LEMMA RuntimeKept ==
    ASSUME RuntimeOK, NEW p \in Invocations, NEW n \in Steps \cup {"ok"},
           Proceed(p, n) \/ Reply(p, n) \/ Return(p, "err")
    PROVE  /\ RuntimeOK'
           /\ \A q \in Invocations : q # p => pc'[q] = pc[q]
           /\ pc'[p] = "done" \/ (pc'[p] = n /\ n # "ok")
  <1>1. CASE pc' = [pc EXCEPT ![p] = n] /\ n # "ok" /\ UNCHANGED <<alive, result, alone>>
      BY <1>1 DEF RuntimeOK
  <1>2. ASSUME NEW r \in {"ok", "err"}, Return(p, r)
        PROVE  RuntimeOK' /\ (\A q \in Invocations : q # p => pc'[q] = pc[q]) /\ pc'[p] = "done"
      BY <1>2 DEF RuntimeOK, Return
  <1>3. QED
      BY <1>1, <1>2 DEF Proceed, Reply

LEMMA RuntimeBegins ==
    ASSUME RuntimeOK, NEW p \in Invocations, NEW n \in Steps, NEW R \in SUBSET Invocations,
           Begin(p, n, R)
    PROVE  /\ RuntimeOK'
           /\ \A q \in Invocations : q # p => pc'[q] = pc[q]
           /\ pc[p] = "idle" /\ pc'[p] = n
  BY DEF RuntimeOK, Begin, MayBegin

LEMMA RotationKeeps ==
    ASSUME RuntimeOK, TokenOK, NEW p \in Rotators, Rotate(p)
    PROVE  /\ RuntimeOK' /\ TokenOK' /\ made' >= made
           /\ \A q \in Invocations : q # p => pc'[q] = pc[q]
  <1> p \in Invocations
      BY DeployAssumption
  <1> USE DEF TokenOK, tokenVars, grafana, None
  <1>0. Steps = {"health", "account", "create", "update", "list", "delete", "mint", "store",
                 "token", "folder", "mkdir", "retitle", "upsert", "search", "prune"}
      BY DEF Steps, TokenCalls, DeployCalls
  <1>1. CASE StartRotation(p)
    <2>1. Rotators \ {p} \in SUBSET Invocations
        BY DeployAssumption
    <2>2. QED
        BY <1>0, <1>1, <2>1, RuntimeBegins DEF StartRotation
  <1>2. CASE WaitForHealth(p)
      BY <1>0, <1>2, RuntimeKept DEF WaitForHealth
  <1>3. CASE FindServiceAccount(p)
    <2>1. PICK n \in Steps : Proceed(p, n)
        BY <1>0, <1>3 DEF FindServiceAccount, Accounts
    <2>2. QED
        BY <1>3, <2>1, RuntimeKept DEF FindServiceAccount
  <1>4. CASE EnsureServiceAccount(p)
      BY <1>0, <1>4, RuntimeKept DEF EnsureServiceAccount, Accounts
  <1>5. CASE ListTokens(p)
    <2>1. PICK n \in Steps : Proceed(p, n)
        BY <1>0, <1>5 DEF ListTokens
    <2>2. QED
        BY <1>5, <2>1, RuntimeKept DEF ListTokens
  <1>6. CASE DeleteToken(p)
    <2>1. PICK n \in Steps : Reply(p, n)
        BY <1>0, <1>6 DEF DeleteToken
    <2>2. listed' \in [Rotators -> SUBSET (1..made)] /\ tokens' \subseteq 1..made
        BY <1>6 DEF DeleteToken
    <2>3. QED
        BY <1>6, <2>1, <2>2, RuntimeKept DEF DeleteToken
  <1>7. CASE CreateToken(p)
    <2>1. /\ made' \in Nat /\ made' >= made /\ tokens' \subseteq 1..made' /\ stored' \in 0..made'
          /\ listed' \in [Rotators -> SUBSET (1..made')] /\ fresh' \in [Rotators -> 0..made']
        BY <1>7 DEF CreateToken
    <2>2. QED
        BY <1>0, <1>7, <2>1, RuntimeKept DEF CreateToken
  <1>8. CASE StoreToken(p)
      BY <1>0, <1>8, RuntimeKept DEF StoreToken
  <1>9. CASE FailRotation(p)
      BY <1>0, <1>9, RuntimeKept DEF FailRotation
  <1>10. QED
      BY <1>1, <1>2, <1>3, <1>4, <1>5, <1>6, <1>7, <1>8, <1>9 DEF Rotate

LEMMA DeployKeeps ==
    ASSUME RuntimeOK, TokenOK, DeployOK, NEW p \in Deployers, Deploy(p)
    PROVE  RuntimeOK' /\ DeployOK' /\ UNCHANGED tokenVars
  <1> p \in Invocations /\ Deployers \subseteq Invocations
      BY DeployAssumption
  <1> USE DEF DeployOK, tokenVars
  <1>0. Steps = {"health", "account", "create", "update", "list", "delete", "mint", "store",
                 "token", "folder", "mkdir", "retitle", "upsert", "search", "prune"}
      BY DEF Steps, TokenCalls, DeployCalls
  <1>a. Running(p) \/ pc[p] # "idle" => request[p] \in Requests
      BY DEF LocalOK, PlanOK, Running
  <1>1. CASE StartDeploy(p)
    <2>1. PICK q \in Requests :
             /\ Begin(p, "token", Rivals(p, q))
             /\ request' = [request EXCEPT ![p] = q]
        BY <1>1 DEF StartDeploy
    <2>2. Rivals(p, q) \in SUBSET Invocations
        BY DEF Rivals
    <2>3. /\ RuntimeOK' /\ pc[p] = "idle" /\ pc'[p] = "token"
          /\ \A d \in Invocations : d # p => pc'[d] = pc[d]
        BY <1>0, <2>1, <2>2, RuntimeBegins
    <2>4. UNCHANGED <<tokenVars, titled, dash, token, todo>>
        BY <1>1 DEF StartDeploy
    <2>5. LocalOK'
        BY <2>1, <2>4 DEF LocalOK
    <2>6. DashOK'
        BY <2>1, <2>3, <2>4, DeployAssumption DEF LocalOK, DashOK, PlanOK, Written
    <2>7. ASSUME NEW d \in Deployers PROVE PlanOK(d)'
        BY <2>1, <2>3, <2>4, DeployAssumption DEF LocalOK, PlanOK, Leftover
    <2>8. QED
        BY <2>3, <2>4, <2>5, <2>6, <2>7
  <1>2. CASE ReadToken(p)
    <2>1. PICK n \in {"folder"} : Proceed(p, n) \/ Reply(p, n) \/ Return(p, "err")
        BY <1>2 DEF ReadToken
    <2>2. /\ RuntimeOK' /\ (pc'[p] = "done" \/ (pc'[p] = n /\ n # "ok"))
          /\ \A d \in Invocations : d # p => pc'[d] = pc[d]
        BY <1>0, <2>1, RuntimeKept
    <2>3. request[p] \in Requests /\ request' = request /\ pc[p] # "idle"
        BY <1>a, <1>2 DEF ReadToken, At, Running
    <2>4. LocalOK'
        BY <1>2 DEF ReadToken, TokenOK, LocalOK
    <2>5. DashOK'
        BY <1>2 DEF ReadToken, DashOK, Written
    <2>6. ASSUME NEW d \in Deployers PROVE PlanOK(d)'
        BY <1>2, <2>1, <2>2, <2>3, DeployAssumption DEF ReadToken, At, PlanOK, Leftover, LocalOK
    <2>7. QED
        BY <1>2, <2>2, <2>4, <2>5, <2>6 DEF ReadToken
  <1>3. CASE GetFolder(p)
    <2>0. request[p] \in Requests /\ request[p].folder \in Folders /\ request[p].wanted \subseteq Uids
        BY <1>a, <1>3, DeployAssumption DEF GetFolder, At
    <2>1. PICK n \in {"mkdir", "retitle", "upsert"} : Proceed(p, n)
        BY <1>3, <2>0 DEF GetFolder, LocalOK
    <2>2. /\ RuntimeOK' /\ (pc'[p] = "done" \/ (pc'[p] = n /\ n # "ok"))
          /\ \A d \in Invocations : d # p => pc'[d] = pc[d]
        BY <1>0, <2>1, RuntimeKept
    <2>3. request[p] \in Requests /\ request' = request /\ pc[p] # "idle"
        BY <1>a, <1>3 DEF GetFolder, At, Running
    <2>4. LocalOK'
        BY <1>3, <2>0 DEF GetFolder, LocalOK, ToUpsert
    <2>5. DashOK'
        BY <1>3 DEF GetFolder, DashOK, Written
    <2>6. ASSUME NEW d \in Deployers PROVE PlanOK(d)'
        BY <1>3, <2>1, <2>2, <2>3, DeployAssumption DEF GetFolder, At, PlanOK, Leftover, LocalOK, ToUpsert
    <2>7. QED
        BY <1>3, <2>2, <2>4, <2>5, <2>6 DEF GetFolder
  <1>4. CASE WriteFolder(p)
    <2>1. PICK n \in {"upsert"} : Proceed(p, n) \/ Reply(p, n) \/ Return(p, "err")
        BY <1>4 DEF WriteFolder
    <2>2. /\ RuntimeOK' /\ (pc'[p] = "done" \/ (pc'[p] = n /\ n # "ok"))
          /\ \A d \in Invocations : d # p => pc'[d] = pc[d]
        BY <1>0, <2>1, RuntimeKept
    <2>3. request[p] \in Requests /\ request' = request /\ pc[p] # "idle"
        BY <1>a, <1>4 DEF WriteFolder, At, Running
    <2>4. LocalOK'
        BY <1>4, <2>3, DeployAssumption DEF WriteFolder, LocalOK
    <2>5. DashOK'
        BY <1>4 DEF WriteFolder, DashOK, Written
    <2>6. ASSUME NEW d \in Deployers PROVE PlanOK(d)'
        BY <1>4, <2>1, <2>2, <2>3, DeployAssumption DEF WriteFolder, At, PlanOK, Leftover, LocalOK
    <2>7. QED
        BY <1>4, <2>2, <2>4, <2>5, <2>6 DEF WriteFolder
  <1>5. CASE UpsertDashboard(p)
    <2>1. PICK u \in todo[p] :
             /\ dash' = [dash EXCEPT ![u] = Written(u, p)]
             /\ todo' = [todo EXCEPT ![p] = @ \ {u}]
             /\ Reply(p, IF todo[p] = {u} THEN AfterUpserts(p) ELSE "upsert")
        BY <1>5 DEF UpsertDashboard
    <2>2. request[p] \in Requests /\ pc[p] = "upsert" /\ UNCHANGED <<tokenVars, titled, request, token>>
        BY <1>a, <1>5 DEF UpsertDashboard
    <2>3. u \in Uids /\ u \in request[p].wanted
        BY <2>1, <2>2 DEF LocalOK, PlanOK
    <2>4. PICK n \in {"ok", "search", "upsert"} :
             Reply(p, n) /\ (n = "search" => request[p].prune)
        BY <2>1 DEF AfterUpserts
    <2>5. /\ RuntimeOK' /\ (pc'[p] = "done" \/ (pc'[p] = n /\ n # "ok"))
          /\ \A d \in Invocations : d # p => pc'[d] = pc[d]
        BY <1>0, <2>4, RuntimeKept
    <2>6. LocalOK'
        BY <2>1, <2>2 DEF LocalOK
    <2>7. DashOK'
      <3>1. Written(u, p) \in Dash /\ Written(u, p).by = p /\ p # Earlier
          BY <2>2, <2>3, DeployAssumption DEF Written, Dash
      <3>2. dash'[u] = Written(u, p) /\ \A v \in Uids \ {u} : dash'[v] = dash[v]
          BY <2>1, <2>3 DEF DashOK
      <3>3. \A v \in Uids, d \in Deployers : Written(v, d)' = Written(v, d)
          BY <2>2 DEF Written
      <3>4. dash' \in [Uids -> Dash \cup {Absent}]
          BY <2>1, <3>1 DEF DashOK
      <3>5. QED
          BY <2>2, <2>3, <3>1, <3>2, <3>3, <3>4 DEF DashOK
    <2>8. ASSUME NEW d \in Deployers PROVE PlanOK(d)'
      <3>1. /\ dash'[u] = Written(u, p) /\ \A v \in Uids \ {u} : dash'[v] = dash[v]
            /\ Written(u, p).by # Earlier
          BY <2>1, <2>3, DeployAssumption DEF DashOK, Written
      <3>2. CASE d = p
          BY <2>1, <2>2, <2>4, <2>5, <3>2, DeployAssumption DEF LocalOK, PlanOK
      <3>3. CASE d # p
        <4>1. pc'[d] = pc[d] /\ todo'[d] = todo[d] /\ request'[d] = request[d] /\ PlanOK(d)
            BY <2>1, <2>2, <2>5, <3>3 DEF LocalOK
        <4>2. todo[d] \subseteq Uids
            BY DEF LocalOK
        <4>3. QED
            BY <3>1, <4>1, <4>2 DEF PlanOK, Leftover
      <3>4. QED
          BY <3>2, <3>3
    <2>9. QED
        BY <2>2, <2>5, <2>6, <2>7, <2>8
  <1>6. CASE Search(p)
    <2> DEFINE found == {u \in Managed(request[p]) : ~Wants(request[p], u)}
    <2>1. /\ todo' = [todo EXCEPT ![p] = found]
          /\ pc[p] = "search" /\ UNCHANGED <<tokenVars, titled, dash, request, token>>
        BY <1>6 DEF Search, At
    <2>2. PICK n \in {"ok", "prune"} : Proceed(p, n)
        BY <1>6 DEF Search
    <2>3. /\ RuntimeOK' /\ (pc'[p] = "done" \/ (pc'[p] = n /\ n # "ok"))
          /\ \A d \in Invocations : d # p => pc'[d] = pc[d]
        BY <1>0, <2>2, RuntimeKept
    <2>4. \A u \in found : u \in Uids /\ u \notin request[p].wanted /\ Leftover(request[p], u)
        BY DEF Managed, Wants, Leftover
    <2>5. LocalOK'
        BY <2>1, <2>4 DEF LocalOK
    <2>6. DashOK'
        BY <2>1 DEF DashOK, Written
    <2>7. ASSUME NEW d \in Deployers PROVE PlanOK(d)'
        BY <2>1, <2>2, <2>3, <2>4 DEF LocalOK, PlanOK, Leftover
    <2>8. QED
        BY <2>1, <2>3, <2>5, <2>6, <2>7
  <1>7. CASE PruneDashboard(p)
    <2>1. PICK u \in {v \in todo[p] : dash[v] # Absent} :
             /\ dash' = [dash EXCEPT ![u] = Absent]
             /\ todo' = [todo EXCEPT ![p] = @ \ {u}]
             /\ Reply(p, IF todo[p] = {u} THEN "ok" ELSE "prune")
        BY <1>7 DEF PruneDashboard
    <2>2. pc[p] = "prune" /\ UNCHANGED <<tokenVars, titled, request, token>>
        BY <1>7 DEF PruneDashboard
    <2>3. PICK n \in {"ok", "prune"} : Reply(p, n)
        BY <2>1
    <2>4. /\ RuntimeOK' /\ (pc'[p] = "done" \/ (pc'[p] = n /\ n # "ok"))
          /\ \A d \in Invocations : d # p => pc'[d] = pc[d]
        BY <1>0, <2>3, RuntimeKept
    <2>5. LocalOK'
        BY <2>1, <2>2 DEF LocalOK
    <2>6. DashOK'
        BY <2>1, <2>2 DEF LocalOK, DashOK, Written
    <2>7. ASSUME NEW d \in Deployers PROVE PlanOK(d)'
      <3>1. u \in Uids /\ dash'[u] = Absent /\ \A v \in Uids \ {u} : dash'[v] = dash[v]
          BY <2>1 DEF LocalOK, DashOK
      <3>2. /\ todo'[d] \subseteq todo[d] /\ todo[d] \subseteq Uids /\ request'[d] = request[d]
            /\ PlanOK(d) /\ (d # p => pc'[d] = pc[d])
          BY <2>1, <2>2, <2>4 DEF LocalOK
      <3>3. QED
          BY <2>2, <2>3, <2>4, <3>1, <3>2 DEF PlanOK, Leftover
    <2>8. QED
        BY <2>2, <2>4, <2>5, <2>6, <2>7
  <1>8. CASE FailDeploy(p)
    <2>1. /\ RuntimeOK' /\ pc'[p] = "done" /\ pc[p] # "idle"
          /\ \A d \in Invocations : d # p => pc'[d] = pc[d]
        BY <1>8 DEF FailDeploy, Return, Running, RuntimeOK
    <2>2. LocalOK' /\ DashOK'
        BY <1>8 DEF FailDeploy, deployVars, LocalOK, DashOK, Written
    <2>3. ASSUME NEW d \in Deployers PROVE PlanOK(d)'
        BY <1>8, <2>1 DEF FailDeploy, deployVars, PlanOK, Leftover
    <2>4. QED
        BY <1>8, <2>1, <2>2, <2>3 DEF FailDeploy
  <1>9. QED
      BY <1>1, <1>2, <1>3, <1>4, <1>5, <1>6, <1>7, <1>8 DEF Deploy

LEMMA DashboardsInductive == Spec => [](RuntimeOK /\ TokenOK /\ DeployOK)
  <1>1. Init => RuntimeOK /\ TokenOK /\ DeployOK
    <2> SUFFICES ASSUME Init PROVE RuntimeOK /\ TokenOK /\ DeployOK
        OBVIOUS
    <2>1. RuntimeOK
        BY DEF Init, InitInvocations, RuntimeOK
    <2>2. TokenOK
        BY DEF Init, InitToken, TokenOK, Accounts, None
    <2>3. LocalOK
        BY <2>2 DEF Init, InitToken, LocalOK, TokenOK, None
    <2>4. DashOK
      <3>1. ASSUME NEW u \in Uids, dash[u] # Absent
            PROVE  dash[u] \in Dash /\ dash[u] \in Left[u] /\ dash[u].by = Earlier
        <4>1. dash[u] \in Left[u]
            BY <3>1 DEF Init
        <4>2. dash[u] \in [tags : SUBSET Projects, folder : Folders, by : {Earlier}]
            BY <4>1, DeployAssumption
        <4>3. QED
            BY <4>1, <4>2 DEF Dash
      <3>2. \A p \in Deployers : p # Earlier
          BY DeployAssumption
      <3>3. dash \in [Uids -> Dash \cup {Absent}]
          BY <3>1 DEF Init
      <3>4. QED
          BY <3>1, <3>2, <3>3 DEF DashOK
    <2>5. ASSUME NEW p \in Deployers PROVE PlanOK(p)
        BY DeployAssumption DEF Init, InitInvocations, PlanOK
    <2>6. QED
        BY <2>1, <2>2, <2>3, <2>4, <2>5 DEF DeployOK
  <1>2. RuntimeOK /\ TokenOK /\ DeployOK /\ [Next]_vars => RuntimeOK' /\ TokenOK' /\ DeployOK'
    <2> SUFFICES ASSUME RuntimeOK, TokenOK, DeployOK, [Next]_vars
                 PROVE  RuntimeOK' /\ TokenOK' /\ DeployOK'
        OBVIOUS
    <2>1. ASSUME NEW p \in Rotators, Rotate(p), UNCHANGED deployVars
          PROVE  RuntimeOK' /\ TokenOK' /\ DeployOK'
      <3>1. /\ RuntimeOK' /\ TokenOK' /\ made' >= made
            /\ \A d \in Deployers : pc'[d] = pc[d]
          BY <2>1, RotationKeeps, DeployAssumption
      <3>2. LocalOK'
          BY <2>1, <3>1 DEF DeployOK, LocalOK, TokenOK, deployVars
      <3>3. DashOK' /\ \A d \in Deployers : PlanOK(d)'
          BY <2>1, <3>1 DEF DeployOK, DashOK, PlanOK, Written, Leftover, deployVars
      <3>4. QED
          BY <3>1, <3>2, <3>3 DEF DeployOK
    <2>2. ASSUME NEW p \in Deployers, Deploy(p)
          PROVE  RuntimeOK' /\ TokenOK' /\ DeployOK'
        BY <2>2, DeployKeeps DEF TokenOK, tokenVars
    <2>3. ASSUME NEW p \in Invocations, Die(p) \/ Vanish(p), UNCHANGED <<tokenVars, deployVars>>
          PROVE  RuntimeOK' /\ TokenOK' /\ DeployOK'
      <3>1. RuntimeOK' /\ \A d \in Invocations : \/ pc'[d] = pc[d]
                                                 \/ pc[d] # "idle" /\ pc'[d] = "done"
          BY <2>3 DEF RuntimeOK, Die, Vanish, Return, Running
      <3>2. TokenOK' /\ LocalOK' /\ DashOK'
          BY <2>3 DEF TokenOK, DeployOK, LocalOK, DashOK, Written, tokenVars, deployVars
      <3>3. ASSUME NEW d \in Deployers PROVE PlanOK(d)'
        <4>1. d \in Invocations /\ PlanOK(d)
            BY DeployAssumption DEF DeployOK
        <4>2. QED
            BY <2>3, <3>1, <4>1 DEF PlanOK, Leftover, deployVars
      <3>4. QED
          BY <3>1, <3>2, <3>3 DEF DeployOK
    <2>4. CASE UNCHANGED vars
        BY <2>4 DEF vars, runtime, tokenVars, deployVars, RuntimeOK, TokenOK, DeployOK, LocalOK,
                    DashOK, PlanOK, Written, Leftover
    <2>5. QED
        BY <2>1, <2>2, <2>3, <2>4 DEF Next, Terminated, vars
  <1>3. QED
      BY <1>1, <1>2, PTL DEF Spec
-----------------------------------------------------------------------------
\* A success is final, and an invocation is alone from its start.
OutcomeOK(p) ==
    /\ result[p] = "ok" => pc[p] = "done"
    /\ alone[p] => pc[p] # "idle"

\* A rotation that no other overlaps finds the account and the tokens as its
\* own last call left them.
HealOK(p) == alone[p] =>
    /\ \A r \in Rotators \ {p} : ~Running(r)
    /\ pc[p] \in {"list", "delete", "mint", "store"} \/ result[p] = "ok" => account = "fit"
    /\ pc[p] = "delete" => tokens = listed[p]
    /\ pc[p] = "mint" => tokens = {}
    /\ pc[p] = "store" => tokens = {fresh[p]}
    /\ result[p] = "ok" => tokens = {stored}

\* A deploy beside which none that clashes with it runs: the folder, what it
\* has written and what it has yet to delete are as it last saw them, whatever
\* others do in that folder.
ThereOK(p) == alone[p] =>
    LET q == request[p] IN
    /\ \A d \in Deployers \ {p} : Running(d) =>
           ~Clash(q, d) /\ (pc[p] = "prune" => todo[p] \cap request[d].wanted = {})
    /\ pc[p] \in {"upsert", "search", "prune"} \/ result[p] = "ok" => titled[q.folder] = q.title
    /\ pc[p] \in {"mkdir", "retitle", "upsert"} =>
           \A u \in q.wanted : u \notin todo[p] => dash[u] = Written(u, p)
    /\ pc[p] \in {"search", "prune"} \/ result[p] = "ok" =>
           \A u \in q.wanted : dash[u] = Written(u, p)
    /\ pc[p] = "prune" => \A u \in Uids : Leftover(q, u) => u \in todo[p]
    /\ pc[p] = "prune" => \A u \in todo[p] : dash[u] # Absent => Leftover(q, u)
    /\ result[p] = "ok" /\ q.prune => \A u \in Uids : ~Leftover(q, u)

EffectOK ==
    /\ \A p \in Invocations : OutcomeOK(p)
    /\ \A p \in Rotators : HealOK(p)
    /\ \A p \in Deployers : ThereOK(p)

\* How a call ends, and that it is nobody else's business.
LEMMA CallOutcome ==
    ASSUME RuntimeOK, NEW p \in Invocations, OutcomeOK(p), Running(p),
           NEW n \in Steps \cup {"ok"},
           Proceed(p, n) \/ Reply(p, n) \/ Return(p, "err")
    PROVE  /\ alone' = alone
           /\ \A q \in Invocations : q # p => pc'[q] = pc[q] /\ result'[q] = result[q]
           /\ \/ pc'[p] = n /\ n # "ok" /\ result'[p] # "ok"
              \/ pc'[p] = "done" /\ (result'[p] = "ok" => n = "ok")
  <1>1. CASE pc' = [pc EXCEPT ![p] = n] /\ n # "ok" /\ UNCHANGED <<alive, result, alone>>
      BY <1>1 DEF RuntimeOK, OutcomeOK, Running
  <1>2. CASE n = "ok" /\ Return(p, "ok")
      BY <1>2 DEF RuntimeOK, Return
  <1>3. CASE Return(p, "err")
      BY <1>3 DEF RuntimeOK, Return
  <1>4. QED
      BY <1>1, <1>2, <1>3 DEF Proceed, Reply

\* What a step of p, once it has begun, leaves alone.
Beside(p) ==
    /\ alone' = alone /\ Running(p)
    /\ \A q \in Invocations : q # p => pc'[q] = pc[q] /\ result'[q] = result[q]

LEMMA RotationHealsOwn ==
    ASSUME RuntimeOK, TokenOK, NEW p \in Rotators, OutcomeOK(p), HealOK(p),
           Rotate(p), ~StartRotation(p)
    PROVE  Beside(p) /\ OutcomeOK(p)' /\ HealOK(p)'
  <1> p \in Invocations /\ Rotators \subseteq Invocations
      BY DeployAssumption
  <1> USE DEF TokenOK, tokenVars, grafana, None, Running, At
  <1>0. Steps = {"health", "account", "create", "update", "list", "delete", "mint", "store",
                 "token", "folder", "mkdir", "retitle", "upsert", "search", "prune"}
      BY DEF Steps, TokenCalls, DeployCalls
  <1>a. ASSUME Beside(p), pc'[p] # "idle", result'[p] = "ok" => pc'[p] = "done"
        PROVE  OutcomeOK(p)' /\ (alone'[p] => \A r \in Rotators \ {p} : ~Running(r)')
      BY <1>a DEF Beside, OutcomeOK, HealOK, RuntimeOK
  <1>1. CASE WaitForHealth(p)
    <2>1. Proceed(p, "account") /\ Running(p) /\ UNCHANGED tokenVars
        BY <1>1 DEF WaitForHealth
    <2>2. /\ Beside(p) /\ (pc'[p] = "done" \/ pc'[p] = "account")
          /\ result'[p] = "ok" => FALSE
        BY <1>0, <2>1, CallOutcome DEF Beside
    <2>3. QED
        BY <1>a, <2>1, <2>2 DEF HealOK
  <1>2. CASE FindServiceAccount(p)
    <2>1. PICK n \in {"create", "update", "list"} :
             Proceed(p, n) /\ (n = "list" => account = "fit")
        BY <1>2 DEF FindServiceAccount, Accounts
    <2>2. Running(p) /\ UNCHANGED tokenVars
        BY <1>2 DEF FindServiceAccount
    <2>3. /\ Beside(p) /\ (pc'[p] = "done" \/ pc'[p] = n) /\ result'[p] # "ok"
        BY <1>0, <2>1, <2>2, CallOutcome DEF Beside
    <2>4. QED
        BY <1>a, <2>1, <2>2, <2>3 DEF HealOK
  <1>3. CASE EnsureServiceAccount(p)
    <2>1. Reply(p, "list") /\ Running(p) /\ account' = "fit"
        BY <1>3 DEF EnsureServiceAccount
    <2>2. Beside(p) /\ (pc'[p] = "done" \/ pc'[p] = "list") /\ result'[p] # "ok"
        BY <1>0, <2>1, CallOutcome DEF Beside
    <2>3. QED
        BY <1>a, <2>1, <2>2 DEF HealOK
  <1>4. CASE ListTokens(p)
    <2>1. PICK n \in {"mint", "delete"} : Proceed(p, n) /\ (n = "mint" => tokens = {})
        BY <1>4 DEF ListTokens
    <2>2. /\ pc[p] = "list" /\ Running(p) /\ UNCHANGED <<grafana, stored, fresh>>
          /\ listed'[p] = tokens
        BY <1>4 DEF ListTokens
    <2>3. Beside(p) /\ (pc'[p] = "done" \/ pc'[p] = n) /\ result'[p] # "ok"
        BY <1>0, <2>1, <2>2, CallOutcome DEF Beside
    <2>4. QED
        BY <1>a, <2>1, <2>2, <2>3 DEF HealOK, Beside
  <1>5. CASE DeleteToken(p)
    <2>1. PICK t \in listed[p] \cap tokens :
             /\ tokens' = tokens \ {t}
             /\ listed' = [listed EXCEPT ![p] = @ \ {t}]
             /\ Reply(p, IF listed[p] = {t} THEN "mint" ELSE "delete")
        BY <1>5 DEF DeleteToken
    <2>2. pc[p] = "delete" /\ Running(p) /\ UNCHANGED <<account, made, stored, fresh>>
        BY <1>5 DEF DeleteToken
    <2>3. PICK n \in {"mint", "delete"} : Reply(p, n) /\ (n = "mint" => listed[p] = {t})
        BY <2>1
    <2>4. Beside(p) /\ (pc'[p] = "done" \/ pc'[p] = n) /\ result'[p] # "ok"
        BY <1>0, <2>2, <2>3, CallOutcome DEF Beside
    <2>5. listed'[p] = listed[p] \ {t}
        BY <2>1
    <2>6. QED
        BY <1>a, <2>1, <2>2, <2>3, <2>4, <2>5 DEF HealOK, Beside
  <1>6. CASE CreateToken(p)
    <2>1. /\ Reply(p, "store") /\ Running(p) /\ pc[p] = "mint" /\ UNCHANGED account
          /\ tokens' = tokens \cup {made + 1} /\ fresh'[p] = made + 1
        BY <1>6 DEF CreateToken
    <2>2. Beside(p) /\ (pc'[p] = "done" \/ pc'[p] = "store") /\ result'[p] # "ok"
        BY <1>0, <2>1, CallOutcome DEF Beside
    <2>3. QED
        BY <1>a, <2>1, <2>2 DEF HealOK, Beside
  <1>7. CASE StoreToken(p)
    <2>1. /\ Reply(p, "ok") /\ Running(p) /\ pc[p] = "store" /\ UNCHANGED <<account, tokens>>
          /\ stored' = fresh[p]
        BY <1>7 DEF StoreToken
    <2>2. Beside(p) /\ pc'[p] = "done"
        BY <1>0, <2>1, CallOutcome DEF Beside
    <2>3. QED
        BY <1>a, <2>1, <2>2 DEF HealOK, Beside
  <1>8. CASE FailRotation(p)
    <2>1. Return(p, "err") /\ Running(p) /\ UNCHANGED tokenVars
        BY <1>8 DEF FailRotation
    <2>2. Beside(p) /\ pc'[p] = "done" /\ result'[p] # "ok"
        BY <2>1 DEF Beside, Return, RuntimeOK
    <2>3. QED
        BY <1>a, <2>1, <2>2 DEF HealOK
  <1>9. QED
      BY <1>1, <1>2, <1>3, <1>4, <1>5, <1>6, <1>7, <1>8 DEF Rotate

\* What a deploy's step can change in Grafana and in its own plan.
LEMMA DeployTouches ==
    ASSUME RuntimeOK, DeployOK, NEW e \in Deployers, Running(e), Deploy(e), ~StartDeploy(e)
    PROVE  /\ request' = request
           /\ \A d \in Deployers : d # e => todo'[d] = todo[d]
           /\ todo'[e] \subseteq todo[e] \cup request[e].wanted \cup Tagged(request[e].project)
           /\ \/ titled' = titled
              \/ titled' = [titled EXCEPT ![request[e].folder] = request[e].title]
           /\ \A u \in Uids : \/ dash'[u] = dash[u]
                              \/ dash'[u] = Absent /\ u \in todo[e]
                              \/ dash'[u] = Written(u, e) /\ u \in request[e].wanted
  <1>1. CASE UpsertDashboard(e)
    <2>1. PICK u \in todo[e] :
             /\ dash' = [dash EXCEPT ![u] = Written(u, e)]
             /\ todo' = [todo EXCEPT ![e] = @ \ {u}]
        BY <1>1 DEF UpsertDashboard
    <2>2. pc[e] = "upsert" /\ UNCHANGED <<titled, request>>
        BY <1>1 DEF UpsertDashboard
    <2>3. u \in Uids /\ u \in request[e].wanted
        BY <2>1, <2>2 DEF DeployOK, LocalOK, PlanOK
    <2>4. (\A v \in Uids \ {u} : dash'[v] = dash[v]) /\ dash'[u] = Written(u, e)
        BY <2>1, <2>3 DEF DeployOK, DashOK
    <2>5. QED
        BY <2>1, <2>2, <2>3, <2>4 DEF DeployOK, LocalOK
  <1>2. CASE PruneDashboard(e)
    <2>1. PICK u \in todo[e] :
             /\ dash' = [dash EXCEPT ![u] = Absent]
             /\ todo' = [todo EXCEPT ![e] = @ \ {u}]
        BY <1>2 DEF PruneDashboard
    <2>2. UNCHANGED <<titled, request>>
        BY <1>2 DEF PruneDashboard
    <2>3. (\A v \in Uids \ {u} : dash'[v] = dash[v]) /\ dash'[u] = Absent /\ u \in Uids
        BY <2>1 DEF DeployOK, LocalOK, DashOK
    <2>4. QED
        BY <2>1, <2>2, <2>3 DEF DeployOK, LocalOK
  <1>3. CASE Search(e)
    <2>1. /\ UNCHANGED <<titled, dash, request>>
          /\ todo' = [todo EXCEPT ![e] = {u \in Managed(request[e]) : ~Wants(request[e], u)}]
        BY <1>3 DEF Search
    <2>2. Managed(request[e]) \subseteq Tagged(request[e].project)
        BY DEF Managed, Tagged
    <2>3. QED
        BY <2>1, <2>2 DEF DeployOK, LocalOK
  <1>4. CASE GetFolder(e)
      BY <1>4 DEF GetFolder, ToUpsert, DeployOK, LocalOK
  <1>5. CASE WriteFolder(e)
      BY <1>5 DEF WriteFolder
  <1>6. CASE ReadToken(e) \/ FailDeploy(e)
      BY <1>6 DEF ReadToken, FailDeploy, deployVars
  <1>7. QED
      BY <1>1, <1>2, <1>3, <1>4, <1>5, <1>6 DEF Deploy

\* Every repo tag that a deploy writes is one of its request's marks.
LEMMA WrittenIsMarked ==
    ASSUME NEW e \in Deployers, request[e] \in Requests, NEW u \in request[e].wanted
    PROVE  Written(u, e).tags \subseteq Marks(request[e])
  <1> DEFINE q == request[e]
  <1>1. ASSUME NEW x \in Written(u, e).tags PROVE x \in Marks(q)
    <2>1. CASE x = q.project
        BY <2>1 DEF Marks
    <2>2. CASE x \in q.tags[u]
        BY <2>2 DEF Marks
    <2>3. QED
        BY <1>1, <2>1, <2>2 DEF Written
  <1>2. QED
      BY <1>1

\* Deploys that did not clash when the later one began do not come to clash by
\* what is written meanwhile, by themselves or by others.
LEMMA NoNewClash ==
    ASSUME RuntimeOK, DeployOK, NEW p \in Deployers, request[p] \in Requests,
           NEW e \in Deployers, Running(e), Deploy(e), ~StartDeploy(e),
           NEW d \in Deployers, d # p, request[d] \in Requests, ~Clash(request[p], d),
           e = p \/ ~Clash(request[p], e)
    PROVE  ~Clash(request[p], d)'
  <1> DEFINE q == request[p]
             r == request[d]
             s == request[e]
  <1>1. s \in Requests
      BY DEF DeployOK, LocalOK, PlanOK, Running
  <1>2. /\ q.wanted \subseteq Uids /\ r.wanted \subseteq Uids /\ s.wanted \subseteq Uids
      BY <1>1, DeployAssumption
  <1>3. /\ request' = request
        /\ todo'[d] \subseteq todo[d] \cup r.wanted \cup Tagged(r.project)
      BY DeployTouches
  <1>4. ASSUME NEW x, NEW u \in Uids, dash'[u] # Absent, x \in dash'[u].tags
        PROVE  u \in Tagged(x) \/ (u \in s.wanted /\ x \in Marks(s))
    <2>1. CASE dash'[u] = dash[u]
        BY <1>4, <2>1 DEF Tagged
    <2>2. CASE dash'[u] = Written(u, e) /\ u \in s.wanted
        BY <1>1, <1>4, <2>2, WrittenIsMarked
    <2>3. QED
        BY <1>4, <2>1, <2>2, DeployTouches
  <1>5. /\ r.folder = q.folder => r.title = q.title
        /\ r.project \notin Marks(q) /\ q.project \notin Marks(r)
        /\ q.wanted \cap (r.wanted \cup todo[d] \cup Tagged(r.project)) = {}
        /\ r.wanted \cap Tagged(q.project) = {}
      BY DEF Clash
  <1>6. e # p => q.project \notin Marks(s) /\ q.wanted \cap s.wanted = {}
      BY DEF Clash
  <1>7. ASSUME NEW u \in q.wanted PROVE u \notin Tagged(r.project)'
    <2>1. u \in Uids /\ u \notin Tagged(r.project)
        BY <1>2, <1>5
    <2>2. ~(u \in s.wanted /\ r.project \in Marks(s))
      <3>1. CASE e = p
          BY <1>5, <3>1
      <3>2. CASE e # p
          BY <1>6, <3>2
      <3>3. QED
          BY <3>1, <3>2
    <2>3. QED
        BY <1>3, <1>4, <2>1, <2>2 DEF Tagged
  <1>8. ASSUME NEW u \in r.wanted PROVE u \notin Tagged(q.project)'
    <2>1. u \in Uids /\ u \notin Tagged(q.project)
        BY <1>2, <1>5
    <2>2. ~(u \in s.wanted /\ q.project \in Marks(s))
      <3>1. CASE e = p
          BY <1>5, <3>1
      <3>2. CASE e # p
          BY <1>6, <3>2
      <3>3. QED
          BY <3>1, <3>2
    <2>3. QED
        BY <1>3, <1>4, <2>1, <2>2 DEF Tagged
  <1>9. request'[p] = q /\ request'[d] = r
      BY <1>3
  <1>10. Tagged(request[d].project)' = Tagged(r.project)' /\ Tagged(request[p].project)' = Tagged(q.project)'
      OBVIOUS
  <1>11. QED
      BY <1>3, <1>5, <1>7, <1>8, <1>9 DEF Clash

LEMMA DeployLeavesItThere ==
    ASSUME RuntimeOK, TokenOK, DeployOK, NEW p \in Deployers, OutcomeOK(p), ThereOK(p),
           Deploy(p), ~StartDeploy(p)
    PROVE  Beside(p) /\ OutcomeOK(p)' /\ ThereOK(p)' /\ request' = request
  <1> p \in Invocations /\ Deployers \subseteq Invocations
      BY DeployAssumption
  <1> USE DEF Running, At
  <1>0. Steps = {"health", "account", "create", "update", "list", "delete", "mint", "store",
                 "token", "folder", "mkdir", "retitle", "upsert", "search", "prune"}
      BY DEF Steps, TokenCalls, DeployCalls
  <1>b. Running(p) => request[p] \in Requests
      BY DEF DeployOK, LocalOK, PlanOK
  <1>c. request[p] \in Requests => /\ request[p].folder \in Folders
                                   /\ request[p].wanted \subseteq Uids
      BY DeployAssumption
  <1>a. ASSUME Running(p), Beside(p), request' = request, pc'[p] # "idle",
               result'[p] = "ok" => pc'[p] = "done",
               pc'[p] = "prune" => \/ pc[p] = "prune" /\ todo'[p] \subseteq todo[p]
                                   \/ todo'[p] \subseteq Tagged(request[p].project)
        PROVE  /\ OutcomeOK(p)'
               /\ alone'[p] => \A d \in Deployers \ {p} : Running(d)' =>
                      /\ ~Clash(request[p], d)'
                      /\ pc'[p] = "prune" => todo'[p] \cap request[d].wanted = {}
    <2>1. OutcomeOK(p)'
        BY <1>a DEF Beside, OutcomeOK, RuntimeOK
    <2>2. ASSUME alone'[p], NEW d \in Deployers \ {p}, Running(d)'
          PROVE  /\ ~Clash(request[p], d)'
                 /\ pc'[p] = "prune" => todo'[p] \cap request[d].wanted = {}
      <3>1. alone[p] /\ Running(d)
          BY <1>a, <2>2 DEF Beside
      <3>2. /\ ~Clash(request[p], d)
            /\ pc[p] = "prune" => todo[p] \cap request[d].wanted = {}
          BY <3>1 DEF ThereOK
      <3>3. request[p] \in Requests /\ request[d] \in Requests
          BY <1>a, <3>1 DEF DeployOK, LocalOK, PlanOK
      <3>4. ~Clash(request[p], d)'
          BY <1>a, <3>2, <3>3, NoNewClash
      <3>5. request[d].wanted \cap Tagged(request[p].project) = {}
          BY <3>2 DEF Clash
      <3>6. QED
          BY <1>a, <3>2, <3>4, <3>5
    <2>3. QED
        BY <2>1, <2>2
  <1>1. CASE ReadToken(p)
    <2>1. /\ Proceed(p, "folder") \/ Return(p, "err")
          /\ Running(p) /\ UNCHANGED <<titled, dash, request, todo>>
        BY <1>1 DEF ReadToken
    <2>2. Beside(p) /\ (pc'[p] = "done" \/ pc'[p] = "folder") /\ result'[p] # "ok"
        BY <1>0, <2>1, CallOutcome DEF Beside
    <2>3. QED
        BY <1>a, <2>1, <2>2 DEF ThereOK
  <1>2. CASE GetFolder(p)
    <2>0. pc[p] = "folder" /\ Running(p) /\ UNCHANGED <<titled, dash, request>>
          /\ todo'[p] = request[p].wanted
        BY <1>2 DEF GetFolder, ToUpsert, DeployOK, LocalOK
    <2>1. PICK n \in {"mkdir", "retitle", "upsert"} :
             Proceed(p, n) /\ (n = "upsert" => titled[request[p].folder] = request[p].title)
        BY <1>2, <1>b, <1>c, <2>0 DEF GetFolder, DeployOK, LocalOK
    <2>2. Beside(p) /\ (pc'[p] = "done" \/ pc'[p] = n) /\ result'[p] # "ok"
        BY <1>0, <2>0, <2>1, CallOutcome DEF Beside
    <2>3. QED
        BY <1>a, <2>0, <2>1, <2>2 DEF ThereOK
  <1>3. CASE WriteFolder(p)
    <2>1. /\ pc[p] \in {"mkdir", "retitle"} /\ Running(p) /\ Reply(p, "upsert")
          /\ UNCHANGED <<dash, request, todo>>
          /\ titled' = [titled EXCEPT ![request[p].folder] = request[p].title]
        BY <1>3 DEF WriteFolder
    <2>2. Beside(p) /\ (pc'[p] = "done" \/ pc'[p] = "upsert") /\ result'[p] # "ok"
        BY <1>0, <2>1, CallOutcome DEF Beside
    <2>3. titled'[request[p].folder] = request[p].title
        BY <1>b, <1>c, <2>1 DEF DeployOK, LocalOK
    <2>4. alone'[p] => \A u \in request[p].wanted :
             u \notin todo[p] => dash[u] = Written(u, p)
        BY <2>1, <2>2 DEF Beside, ThereOK
    <2>5. QED
        BY <1>a, <2>1, <2>2, <2>3, <2>4 DEF ThereOK, Written
  <1>4. CASE UpsertDashboard(p)
    <2>1. PICK u \in todo[p] :
             /\ dash' = [dash EXCEPT ![u] = Written(u, p)]
             /\ todo' = [todo EXCEPT ![p] = @ \ {u}]
             /\ Reply(p, IF todo[p] = {u} THEN AfterUpserts(p) ELSE "upsert")
        BY <1>4 DEF UpsertDashboard
    <2>2. pc[p] = "upsert" /\ Running(p) /\ UNCHANGED <<titled, request>>
        BY <1>4 DEF UpsertDashboard
    <2>3. u \in Uids /\ u \in request[p].wanted /\ dash'[u] = Written(u, p)
          /\ todo'[p] = todo[p] \ {u} /\ \A v \in Uids \ {u} : dash'[v] = dash[v]
        BY <2>1, <2>2 DEF DeployOK, LocalOK, PlanOK, DashOK
    <2>4. PICK n \in {"ok", "search", "upsert"} :
             /\ Reply(p, n) /\ (n # "upsert" => todo[p] = {u})
             /\ n = "ok" => ~request[p].prune
        BY <2>1 DEF AfterUpserts
    <2>5. /\ Beside(p) /\ (pc'[p] = "done" \/ (pc'[p] = n /\ n # "ok"))
          /\ result'[p] = "ok" => pc'[p] = "done" /\ n = "ok"
        BY <1>0, <2>2, <2>4, CallOutcome DEF Beside
    <2>6. ASSUME alone[p], NEW v \in request[p].wanted, v \notin todo'[p]
          PROVE  dash'[v] = Written(v, p)
        BY <1>b, <1>c, <2>2, <2>3, <2>6 DEF ThereOK
    <2>7. n # "upsert" => todo'[p] = {}
        BY <2>3, <2>4
    <2>8. alone[p] => titled[request[p].folder] = request[p].title
        BY <2>2 DEF ThereOK
    <2>9. alone'[p] = alone[p]
        BY <2>5 DEF Beside
    <2>10. \A v : Written(v, p)' = Written(v, p)
        BY <2>2 DEF Written
    <2>11. /\ OutcomeOK(p)' /\ request' = request
           /\ alone'[p] => \A d \in Deployers \ {p} : Running(d)' => ~Clash(request[p], d)'
        BY <1>a, <2>2, <2>5
    <2>12. ThereOK(p)'
      <3>1. /\ pc'[p] \in {"done", "search", "upsert"}
            /\ result'[p] = "ok" => ~request[p].prune
            /\ pc'[p] = "search" \/ result'[p] = "ok" => todo'[p] = {}
          BY <2>4, <2>5, <2>7
      <3>2. alone[p] => \A v \in request[p].wanted : v \notin todo'[p] => dash'[v] = Written(v, p)'
          BY <2>6, <2>10
      <3>3. QED
          BY <2>2, <2>8, <2>9, <2>11, <3>1, <3>2 DEF ThereOK
    <2>13. QED
        BY <2>5, <2>11, <2>12
  <1>5. CASE Search(p)
    <2> DEFINE found == {u \in Managed(request[p]) : ~Wants(request[p], u)}
    <2>1. /\ todo'[p] = found
          /\ pc[p] = "search" /\ Running(p) /\ UNCHANGED <<titled, dash, request>>
        BY <1>5 DEF Search, DeployOK, LocalOK
    <2>2. PICK n \in {"ok", "prune"} : Proceed(p, n) /\ (n = "ok" => found = {})
        BY <1>5 DEF Search
    <2>3. /\ Beside(p) /\ (pc'[p] = "done" \/ (pc'[p] = n /\ n # "ok"))
          /\ result'[p] = "ok" => pc'[p] = "done" /\ n = "ok"
        BY <1>0, <2>1, <2>2, CallOutcome DEF Beside
    <2>4. \A u \in Uids : Leftover(request[p], u) <=> u \in found
        BY DEF Leftover, Managed, Wants
    <2>5. alone'[p] = alone[p]
        BY <2>3 DEF Beside
    <2>6. todo'[p] \subseteq Tagged(request[p].project)
        BY <2>1 DEF Managed, Tagged
    <2>7. \A u \in Uids : Leftover(request[p], u)' <=> Leftover(request[p], u)
        BY <2>1 DEF Leftover
    <2>8. found \subseteq Uids
        BY DEF Managed
    <2>9. \A u \in request[p].wanted : Written(u, p)' = Written(u, p)
        BY <2>1 DEF Written
    <2>10. QED
        BY <1>a, <2>1, <2>2, <2>3, <2>4, <2>5, <2>6, <2>7, <2>8, <2>9 DEF ThereOK
  <1>6. CASE PruneDashboard(p)
    <2>1. PICK u \in {v \in todo[p] : dash[v] # Absent} :
             /\ dash' = [dash EXCEPT ![u] = Absent]
             /\ todo' = [todo EXCEPT ![p] = @ \ {u}]
             /\ Reply(p, IF todo[p] = {u} THEN "ok" ELSE "prune")
        BY <1>6 DEF PruneDashboard
    <2>2. pc[p] = "prune" /\ Running(p) /\ UNCHANGED <<titled, request>>
        BY <1>6 DEF PruneDashboard
    <2>3. /\ u \in Uids /\ u \notin request[p].wanted /\ todo'[p] = todo[p] \ {u}
          /\ dash'[u] = Absent /\ \A v \in Uids \ {u} : dash'[v] = dash[v]
        BY <2>1, <2>2 DEF DeployOK, LocalOK, PlanOK, DashOK
    <2>4. PICK n \in {"ok", "prune"} : Reply(p, n) /\ (n = "ok" => todo[p] = {u})
        BY <2>1
    <2>5. /\ Beside(p) /\ (pc'[p] = "done" \/ (pc'[p] = n /\ n # "ok"))
          /\ result'[p] = "ok" => pc'[p] = "done" /\ n = "ok"
        BY <1>0, <2>2, <2>4, CallOutcome DEF Beside
    <2>6. alone'[p] = alone[p]
        BY <2>5 DEF Beside
    <2>7. ASSUME alone[p], NEW v \in request[p].wanted
          PROVE  dash'[v] = Written(v, p)
        BY <1>b, <1>c, <2>2, <2>3, <2>7 DEF ThereOK
    <2>8. ASSUME alone[p], NEW v \in Uids, Leftover(request[p], v)'
          PROVE  v \in todo'[p]
        BY <2>2, <2>3, <2>8 DEF ThereOK, Leftover
    <2>9. n = "ok" => todo'[p] = {}
        BY <2>3, <2>4
    <2>10. \A v : Written(v, p)' = Written(v, p)
        BY <2>2 DEF Written
    <2>11. ASSUME alone[p], NEW v \in todo'[p], dash'[v] # Absent
           PROVE  Leftover(request[p], v)'
      <3>1. v \in todo[p] /\ v # u /\ v \in Uids
          BY <2>1, <2>3, <2>11 DEF DeployOK, LocalOK
      <3>2. dash'[v] = dash[v] /\ Leftover(request[p], v)
          BY <2>2, <2>3, <2>11, <3>1 DEF ThereOK
      <3>3. QED
          BY <2>2, <3>2 DEF Leftover
    <2>12. /\ OutcomeOK(p)' /\ request' = request
           /\ alone'[p] => \A d \in Deployers \ {p} : Running(d)' =>
                  /\ ~Clash(request[p], d)'
                  /\ pc'[p] = "prune" => todo'[p] \cap request[d].wanted = {}
        BY <1>a, <2>2, <2>3, <2>5
    <2>13. alone[p] => titled[request[p].folder] = request[p].title
        BY <2>2 DEF ThereOK
    <2>14. ThereOK(p)'
      <3>1. /\ pc'[p] \in {"done", "prune"}
            /\ result'[p] = "ok" => todo'[p] = {}
          BY <2>5, <2>9
      <3>2. alone[p] => \A v \in request[p].wanted : dash'[v] = Written(v, p)'
          BY <2>7, <2>10
      <3>3. QED
          BY <2>2, <2>6, <2>8, <2>11, <2>12, <2>13, <3>1, <3>2 DEF ThereOK
    <2>15. QED
        BY <2>5, <2>12, <2>14
  <1>7. CASE FailDeploy(p)
    <2>1. Return(p, "err") /\ Running(p) /\ UNCHANGED deployVars
        BY <1>7 DEF FailDeploy
    <2>2. Beside(p) /\ pc'[p] = "done" /\ result'[p] # "ok"
        BY <2>1 DEF Beside, Return, RuntimeOK
    <2>3. QED
        BY <1>a, <2>1, <2>2 DEF ThereOK, deployVars
  <1>8. QED
      BY <1>1, <1>2, <1>3, <1>4, <1>5, <1>6, <1>7 DEF Deploy

\* A deploy that does not clash with p's takes nothing away from it.
LEMMA OthersDeployElsewhere ==
    ASSUME RuntimeOK, DeployOK, NEW p \in Deployers, NEW d \in Deployers, d # p,
           Running(d), request[p] \in Requests, ~Clash(request[p], d),
           Deploy(d), ~StartDeploy(d)
    PROVE  /\ titled[request[p].folder] = request[p].title =>
                  titled'[request[p].folder] = request[p].title
           /\ \A u \in request[p].wanted : dash'[u] = dash[u]
           /\ \A u \in Uids : Leftover(request[p], u)' => Leftover(request[p], u)
           /\ todo'[p] = todo[p]
           /\ \A u \in Uids \ request[d].wanted : dash'[u] # Absent => dash'[u] = dash[u]
  <1>1. request[d] \in Requests
      BY DEF DeployOK, LocalOK, PlanOK, Running
  <1>2. /\ request[p].wanted \subseteq Uids /\ request[p].folder \in Folders
        /\ request[d].folder \in Folders
      BY <1>1, DeployAssumption
  <1>3. /\ request[d].folder = request[p].folder => request[d].title = request[p].title
        /\ request[p].project \notin Marks(request[d])
        /\ request[p].wanted \cap (request[d].wanted \cup todo[d]) = {}
      BY DEF Clash
  <1>4. ASSUME NEW u \in Uids, Leftover(request[p], u)' PROVE Leftover(request[p], u)
    <2>1. /\ u \notin request[p].wanted /\ dash'[u] # Absent
          /\ request[p].project \in dash'[u].tags /\ dash'[u].folder = request[p].folder
        BY <1>4, DeployTouches DEF Leftover
    <2>2. ~(dash'[u] = Written(u, d) /\ u \in request[d].wanted)
        BY <1>1, <1>3, <2>1, WrittenIsMarked
    <2>3. dash'[u] = dash[u]
        BY <2>1, <2>2, DeployTouches
    <2>4. QED
        BY <2>1, <2>3 DEF Leftover
  <1>5. titled[request[p].folder] = request[p].title =>
            titled'[request[p].folder] = request[p].title
      BY <1>2, <1>3, DeployTouches DEF DeployOK, LocalOK
  <1>6. \A u \in request[p].wanted : dash'[u] = dash[u]
      BY <1>2, <1>3, DeployTouches
  <1>7. QED
      BY <1>4, <1>5, <1>6, DeployTouches

\* ThereOK is about Grafana and about deploys only, and asks nothing of one
\* that fails.
LEMMA ThereKept ==
    ASSUME NEW p \in Deployers, ThereOK(p), alone'[p] => alone[p],
           UNCHANGED <<titled, dash, request, todo>>,
           \A d \in Deployers : Running(d)' => Running(d),
           (pc'[p] = pc[p] /\ result'[p] = result[p]) \/ (pc'[p] = "done" /\ result'[p] = "err")
    PROVE  ThereOK(p)'
  <1> DEFINE q == request[p]
  <1>1. \A d \in Deployers : Clash(q, d)' = Clash(q, d)
      BY DEF Clash, Tagged
  <1>2. \A u : Written(u, p)' = Written(u, p)
      BY DEF Written
  <1>3. \A u : Leftover(q, u)' = Leftover(q, u)
      BY DEF Leftover
  <1>4. request' = request /\ dash' = dash /\ titled' = titled /\ todo' = todo
      OBVIOUS
  <1>5. QED
      BY <1>1, <1>2, <1>3, <1>4 DEF ThereOK

LEMMA EffectInductive == Spec => []EffectOK
  <1>1. Init => EffectOK
      BY DeployAssumption DEF Init, InitInvocations, EffectOK, OutcomeOK, HealOK, ThereOK
  <1>2. RuntimeOK /\ TokenOK /\ DeployOK /\ EffectOK /\ [Next]_vars => EffectOK'
    <2> SUFFICES ASSUME RuntimeOK, TokenOK, DeployOK, EffectOK, [Next]_vars PROVE EffectOK'
        OBVIOUS
    <2> /\ Rotators \subseteq Invocations /\ Deployers \subseteq Invocations
        /\ \A r \in Rotators : r \notin Deployers
        BY DeployAssumption
    <2>1. ASSUME NEW p \in Rotators, StartRotation(p), UNCHANGED deployVars PROVE EffectOK'
      <3>1. /\ pc[p] = "idle" /\ pc' = [pc EXCEPT ![p] = "health"]
            /\ alone' = [q \in Invocations |->
                  IF q = p THEN \A r \in Rotators \ {p} : ~Running(r)
                           ELSE alone[q] /\ q \notin Rotators \ {p}]
            /\ UNCHANGED <<result, tokenVars>>
          BY <2>1 DEF StartRotation, Begin, MayBegin
      <3>2. result[p] # "ok"
          BY <3>1 DEF EffectOK, OutcomeOK
      <3>3. ASSUME NEW q \in Invocations PROVE OutcomeOK(q)'
          BY <3>1, <3>2 DEF EffectOK, OutcomeOK, RuntimeOK
      <3>4. ASSUME NEW r \in Rotators PROVE HealOK(r)'
          BY <3>1, <3>2 DEF EffectOK, HealOK, RuntimeOK, Running
      <3>5. ASSUME NEW d \in Deployers PROVE ThereOK(d)'
        <4>1. /\ \A e \in Deployers : pc'[e] = pc[e] /\ result'[e] = result[e]
              /\ alone'[d] = alone[d] /\ ThereOK(d)
            BY <3>1 DEF RuntimeOK, EffectOK
        <4>2. QED
            BY <2>1, <3>1, <4>1, ThereKept DEF Running, deployVars
      <3>6. QED
          BY <3>3, <3>4, <3>5 DEF EffectOK
    <2>2. ASSUME NEW p \in Rotators, Rotate(p), ~StartRotation(p), UNCHANGED deployVars
          PROVE  EffectOK'
      <3>1. Beside(p) /\ OutcomeOK(p)' /\ HealOK(p)'
          BY <2>2, RotationHealsOwn DEF EffectOK
      <3>2. ASSUME NEW q \in Invocations PROVE OutcomeOK(q)'
          BY <3>1 DEF EffectOK, OutcomeOK, Beside
      <3>3. ASSUME NEW r \in Rotators PROVE HealOK(r)'
          BY <3>1 DEF EffectOK, HealOK, Beside
      <3>4. ASSUME NEW d \in Deployers PROVE ThereOK(d)'
        <4>1. ThereOK(d) /\ d \in Invocations /\ d # p
            BY DEF EffectOK
        <4>2. QED
            BY <2>2, <3>1, <4>1, ThereKept DEF Beside, Running, deployVars
      <3>5. QED
          BY <3>2, <3>3, <3>4 DEF EffectOK
    <2>3. ASSUME NEW p \in Deployers, StartDeploy(p) PROVE EffectOK'
      <3>1. PICK q \in Requests :
               /\ pc[p] = "idle" /\ pc' = [pc EXCEPT ![p] = "token"]
               /\ alone' = [e \in Invocations |->
                     IF e = p THEN \A r \in Rivals(p, q) : ~Running(r)
                              ELSE alone[e] /\ e \notin Rivals(p, q)]
               /\ UNCHANGED result
               /\ request' = [request EXCEPT ![p] = q]
          BY <2>3 DEF StartDeploy, Begin, MayBegin
      <3>2. UNCHANGED <<tokenVars, titled, dash, token, todo>>
          BY <2>3 DEF StartDeploy
      <3>3. result[p] # "ok" /\ request[p] = NoRequest
          BY <3>1 DEF EffectOK, OutcomeOK, DeployOK, PlanOK
      <3>4. ASSUME NEW e \in Invocations PROVE OutcomeOK(e)'
          BY <3>1, <3>3 DEF EffectOK, OutcomeOK, RuntimeOK
      <3>5. ASSUME NEW r \in Rotators PROVE HealOK(r)'
        <4>1. /\ \A s \in Rotators : pc'[s] = pc[s]
              /\ alone'[r] => alone[r]
            BY <3>1 DEF RuntimeOK
        <4>2. QED
            BY <3>1, <3>2, <4>1 DEF EffectOK, HealOK, Running, tokenVars
      <3>6. ASSUME NEW d \in Deployers, d # p PROVE ThereOK(d)'
        <4> SUFFICES ASSUME alone'[d] PROVE ThereOK(d)'
            BY DEF ThereOK
        <4>1. alone[d] /\ d \notin Rivals(p, q) /\ pc'[d] = pc[d] /\ request'[d] = request[d]
            BY <3>1, <3>6 DEF RuntimeOK, DeployOK, LocalOK
        <4>2. request[d] # NoRequest
            BY <4>1 DEF EffectOK, OutcomeOK, DeployOK, PlanOK
        <4>3. ~Clash(q, d)
            BY <3>6, <4>1, <4>2 DEF Rivals
        <4>4. ASSUME NEW e \in Deployers \ {d}, Running(e)'
              PROVE  /\ ~Clash(request[d], e)'
                     /\ pc[d] = "prune" => todo[d] \cap request'[e].wanted = {}
          <5>1. CASE e = p
            <6>1. request'[e] = q /\ todo'[e] = {} /\ request'[d] = request[d]
                BY <3>1, <3>2, <4>1, <5>1 DEF DeployOK, LocalOK, PlanOK
            <6>2. ~Clash(request[d], e)' /\ todo[d] \cap q.wanted = {}
                BY <3>2, <4>3, <5>1, <6>1 DEF Clash, Tagged
            <6>3. QED
                BY <6>1, <6>2
          <5>2. CASE e # p
            <6>1. Running(e) /\ request'[e] = request[e] /\ request'[d] = request[d]
                BY <3>1, <4>1, <4>4, <5>2 DEF Running, RuntimeOK, DeployOK, LocalOK
            <6>2. /\ ~Clash(request[d], e)
                  /\ pc[d] = "prune" => todo[d] \cap request[e].wanted = {}
                BY <4>1, <4>4, <6>1 DEF EffectOK, ThereOK
            <6>3. QED
                BY <3>2, <6>1, <6>2 DEF Clash, Tagged
          <5>3. QED
              BY <5>1, <5>2
        <4>5. \A u \in Uids : Leftover(request[d], u)' <=> Leftover(request[d], u)
            BY <3>2, <4>1 DEF Leftover
        <4>6. \A u \in Uids : Written(u, d)' = Written(u, d)
            BY <4>1 DEF Written
        <4>7. request[d].wanted \subseteq Uids /\ todo[d] \subseteq Uids
            BY <4>2, DeployAssumption DEF DeployOK, LocalOK
        <4>8. ThereOK(d) /\ result'[d] = result[d] /\ titled' = titled /\ dash' = dash /\ todo' = todo
            BY <3>1, <3>2 DEF EffectOK
        <4>9. QED
            BY <4>1, <4>4, <4>5, <4>6, <4>7, <4>8 DEF ThereOK
      <3>7. ThereOK(p)'
        <4> SUFFICES ASSUME alone'[p] PROVE ThereOK(p)'
            BY DEF ThereOK
        <4>1. \A r \in Rivals(p, q) : ~Running(r)
            BY <3>1
        <4>2. pc'[p] = "token" /\ request'[p] = q /\ result'[p] # "ok"
            BY <3>1, <3>3 DEF RuntimeOK, DeployOK, LocalOK
        <4>3. ASSUME NEW e \in Deployers \ {p}, Running(e)'
              PROVE  ~Clash(q, e)'
          <5>1. Running(e) /\ request'[e] = request[e]
              BY <3>1, <4>3 DEF Running, RuntimeOK, DeployOK, LocalOK
          <5>2. request[e] # NoRequest
              BY <5>1 DEF Running, DeployOK, PlanOK
          <5>3. ~Clash(q, e)
              BY <4>1, <5>1, <5>2 DEF Rivals
          <5>4. QED
              BY <3>2, <5>1, <5>3 DEF Clash, Tagged
        <4>4. QED
            BY <4>2, <4>3 DEF ThereOK
      <3>8. QED
          BY <3>4, <3>5, <3>6, <3>7 DEF EffectOK
    <2>4. ASSUME NEW p \in Deployers, Deploy(p), ~StartDeploy(p) PROVE EffectOK'
      <3>1. Beside(p) /\ OutcomeOK(p)' /\ ThereOK(p)' /\ request' = request
          BY <2>4, DeployLeavesItThere DEF EffectOK
      <3>2. UNCHANGED tokenVars
          BY <2>4, DeployKeeps
      <3>3. ASSUME NEW e \in Invocations PROVE OutcomeOK(e)'
          BY <3>1 DEF EffectOK, OutcomeOK, Beside
      <3>4. ASSUME NEW r \in Rotators PROVE HealOK(r)'
          BY <3>1, <3>2 DEF EffectOK, HealOK, Beside, Running, tokenVars
      <3>5. ASSUME NEW d \in Deployers, d # p, alone'[d] PROVE ThereOK(d)'
        <4>1. /\ alone[d] /\ pc'[d] = pc[d] /\ result'[d] = result[d] /\ Running(p)
              /\ \A e \in Deployers : Running(e)' => Running(e)
            BY <3>1, <3>5 DEF Beside, Running
        <4>2. request[d] \in Requests /\ ~Clash(request[d], p) /\ ThereOK(d)
            BY <3>5, <4>1 DEF EffectOK, OutcomeOK, ThereOK, DeployOK, LocalOK, PlanOK
        <4>3. /\ titled[request[d].folder] = request[d].title =>
                     titled'[request[d].folder] = request[d].title
              /\ \A u \in request[d].wanted : dash'[u] = dash[u]
              /\ \A u \in Uids : Leftover(request[d], u)' => Leftover(request[d], u)
              /\ todo'[d] = todo[d]
              /\ \A u \in Uids \ request[p].wanted : dash'[u] # Absent => dash'[u] = dash[u]
            BY <2>4, <3>5, <4>1, <4>2, OthersDeployElsewhere
        <4>4. ASSUME NEW e \in Deployers \ {d}, Running(e)'
              PROVE  /\ ~Clash(request[d], e)'
                     /\ pc[d] = "prune" => todo[d] \cap request[e].wanted = {}
          <5>1. Running(e) /\ request[e] \in Requests
              BY <4>1, <4>4 DEF DeployOK, LocalOK, PlanOK, Running
          <5>2. /\ ~Clash(request[d], e)
                /\ pc[d] = "prune" => todo[d] \cap request[e].wanted = {}
              BY <4>1, <4>2, <5>1 DEF ThereOK
          <5>3. QED
              BY <2>4, <4>1, <4>2, <4>4, <5>1, <5>2, NoNewClash
        <4>5. \A u \in Uids : Written(u, d)' = Written(u, d)
            BY <3>1 DEF Written
        <4>6. request[d].wanted \subseteq Uids /\ todo[d] \subseteq Uids
            BY <4>2, DeployAssumption DEF DeployOK, LocalOK
        <4>7. pc[d] = "prune" => \A u \in todo[d] : dash'[u] # Absent => Leftover(request[d], u)'
          <5>1. pc[d] = "prune" => todo[d] \cap request[p].wanted = {}
              BY <3>5, <4>1, <4>2 DEF ThereOK
          <5>2. pc[d] = "prune" => \A u \in todo[d] : dash[u] # Absent => Leftover(request[d], u)
              BY <4>1, <4>2 DEF ThereOK
          <5>3. QED
              BY <3>1, <4>3, <4>6, <5>1, <5>2 DEF Leftover
        <4>8. QED
            BY <3>1, <4>1, <4>2, <4>3, <4>4, <4>5, <4>6, <4>7 DEF ThereOK
      <3>6. ASSUME NEW d \in Deployers PROVE ThereOK(d)'
          BY <3>1, <3>5 DEF ThereOK
      <3>7. QED
          BY <3>3, <3>4, <3>6 DEF EffectOK
    <2>5. ASSUME NEW p \in Invocations, Die(p) \/ Vanish(p), UNCHANGED <<tokenVars, deployVars>>
          PROVE  EffectOK'
      <3>1. /\ alone' = alone
            /\ \A e \in Invocations :
                  \/ pc'[e] = pc[e] /\ result'[e] = result[e]
                  \/ pc[e] # "idle" /\ pc'[e] = "done" /\ result'[e] = "err"
          BY <2>5 DEF RuntimeOK, Die, Vanish, Return, Running
      <3>2. \A e \in Invocations : Running(e)' => Running(e)
          BY <3>1 DEF Running
      <3>3. ASSUME NEW e \in Invocations PROVE OutcomeOK(e)'
          BY <3>1 DEF EffectOK, OutcomeOK
      <3>4. ASSUME NEW r \in Rotators PROVE HealOK(r)'
        <4>1. r \in Invocations /\ HealOK(r)
            BY DEF EffectOK
        <4>2. QED
            BY <2>5, <3>1, <3>2, <4>1 DEF HealOK, tokenVars
      <3>5. ASSUME NEW d \in Deployers PROVE ThereOK(d)'
        <4>1. d \in Invocations /\ ThereOK(d)
            BY DEF EffectOK
        <4>2. QED
            BY <2>5, <3>1, <3>2, <4>1, ThereKept DEF deployVars
      <3>6. QED
          BY <3>3, <3>4, <3>5 DEF EffectOK
    <2>6. CASE UNCHANGED vars
      <3>1. \A d \in Deployers : ThereOK(d)'
          BY <2>6, ThereKept DEF vars, runtime, deployVars, EffectOK, Running
      <3>2. QED
          BY <2>6, <3>1 DEF vars, runtime, tokenVars, EffectOK, OutcomeOK, HealOK, Running
    <2>7. QED
        BY <2>1, <2>2, <2>3, <2>4, <2>5, <2>6 DEF Next, Terminated, vars
  <1>3. QED
      BY <1>1, <1>2, DashboardsInductive, PTL DEF Spec
-----------------------------------------------------------------------------
\* What Grafana, SSM and each invocation's locals hold keeps its type: a
\* dashboard is absent or as somebody wrote it, a token is one that was made.
THEOREM DashboardsTypeCorrect == Spec => []TypeOK
  <1>1. RuntimeOK /\ TokenOK /\ DeployOK => TypeOK
    <2> SUFFICES ASSUME RuntimeOK, TokenOK, DeployOK PROVE TypeOK
        OBVIOUS
    <2>1. ASSUME NEW u \in Uids, dash[u] # Absent, dash[u] \notin Left[u]
          PROVE  \E p \in {d \in Deployers : request[d] # NoRequest} : dash[u] = Written(u, p)
      <3>1. dash[u].by \in Deployers
          BY <2>1 DEF DeployOK, DashOK, Dash
      <3>2. QED
          BY <2>1, <3>1, DeployAssumption DEF DeployOK, DashOK
    <2>2. QED
        BY <2>1 DEF TypeOK, RuntimeOK, TokenOK, DeployOK, LocalOK, Steps
  <1>2. QED
      BY <1>1, DashboardsInductive, PTL

\* A deploy deletes what has its project's tag in its folder and never what it
\* has just written; of anything else, only what a deploy that clashes with it
\* has written since its search.
THEOREM PruneIsConfined == Spec => PruneSparesOthers
  <1> DEFINE By(p, u) ==
        /\ pc[p] = "prune" /\ request[p].prune /\ dash[u].by # p
        /\ \/ request[p].project \in dash[u].tags /\ dash[u].folder = request[p].folder
           \/ ~alone[p] /\ dash[u].by # Earlier
  <1> DEFINE Spares ==
        \A u \in Uids : dash[u] # Absent /\ dash'[u] = Absent => \E p \in Deployers : By(p, u)
  <1>1. RuntimeOK /\ TokenOK /\ DeployOK /\ EffectOK /\ [Next]_vars => Spares
    <2> SUFFICES ASSUME RuntimeOK, TokenOK, DeployOK, EffectOK, [Next]_vars,
                        NEW u \in Uids, dash[u] # Absent, dash'[u] = Absent
                 PROVE  \E p \in Deployers : By(p, u)
        OBVIOUS
    <2>1. ASSUME NEW p \in Deployers, UpsertDashboard(p) PROVE FALSE
      <3>1. PICK v \in todo[p] : dash' = [dash EXCEPT ![v] = Written(v, p)]
          BY <2>1 DEF UpsertDashboard
      <3>2. request[p] \in Requests /\ v \in Uids
          BY <2>1, <3>1 DEF UpsertDashboard, DeployOK, LocalOK, PlanOK
      <3>3. Written(v, p) \in Dash
          BY <3>2, DeployAssumption DEF Written, Dash
      <3>4. Absent \notin Dash
          BY DeployAssumption DEF Dash
      <3>5. QED
          BY <3>1, <3>2, <3>3, <3>4 DEF DeployOK, DashOK
    <2>2. ASSUME NEW p \in Deployers, PruneDashboard(p) PROVE By(p, u)
      <3>1. pc[p] = "prune" /\ u \in todo[p]
          BY <2>2 DEF PruneDashboard, DeployOK, DashOK
      <3>2. /\ request[p].prune /\ u \notin request[p].wanted
            /\ Leftover(request[p], u) \/ dash[u].by # Earlier
          BY <3>1 DEF DeployOK, PlanOK
      <3>3. alone[p] => Leftover(request[p], u)
          BY <3>1 DEF EffectOK, ThereOK
      <3>4. dash[u].by # p
          BY <3>2 DEF DeployOK, DashOK
      <3>5. QED
          BY <3>1, <3>2, <3>3, <3>4 DEF Leftover
    <2>3. ASSUME NEW p \in Deployers, Deploy(p), ~UpsertDashboard(p), ~PruneDashboard(p)
          PROVE  FALSE
        BY <2>3 DEF Deploy, StartDeploy, ReadToken, GetFolder, WriteFolder, Search, FailDeploy,
                    deployVars
    <2>4. QED
        BY <2>1, <2>2, <2>3 DEF Next, vars, deployVars
  <1>2. Spec => [][Spares]_vars
      BY <1>1, DashboardsInductive, EffectInductive, PTL DEF Spec
  <1>3. QED
      BY <1>2 DEF PruneSparesOthers

\* A rotation that ran alone and succeeded leaves an account that may deploy
\* and the one token SSM has, from whatever was there before.
THEOREM RotationLeavesOneToken == Spec => []RotationHeals
  <1>1. EffectOK => RotationHeals
      BY DEF EffectOK, HealOK, RotationHeals
  <1>2. QED
      BY <1>1, EffectInductive, PTL

\* A deploy that succeeded and that none that clashes with it overlapped or
\* followed is there, whatever else is deployed into the same folder.
THEOREM DeploysStay == Spec => []DeployIsThere
  <1>1. DeployOK /\ EffectOK => DeployIsThere
    <2> SUFFICES ASSUME EffectOK, NEW p \in Deployers, result[p] = "ok", alone[p]
                 PROVE  LET q == request[p] IN
                        /\ titled[q.folder] = q.title
                        /\ \A u \in q.wanted : dash[u] = Written(u, p)
                        /\ q.prune => \A u \in Uids \ q.wanted : dash[u] # Absent =>
                               q.project \notin dash[u].tags \/ dash[u].folder # q.folder
        BY DEF DeployIsThere
    <2>1. ThereOK(p)
        BY DEF EffectOK
    <2>2. QED
        BY <2>1 DEF ThereOK, Leftover
  <1>2. QED
      BY <1>1, DashboardsInductive, EffectInductive, PTL
=============================================================================
