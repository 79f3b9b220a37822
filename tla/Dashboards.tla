----------------------------- MODULE Dashboards -----------------------------
(***************************************************************************)
(* backend/grafana-dashboard-deploy: a project's CI sends its dashboards.  *)
(* Read the token, validate them all, make sure of the folder, write them  *)
(* one by one, and delete what the project had in that folder before.      *)
(* Terraform lets two run at once; nothing keeps deploys apart, of one     *)
(* project or of several that share a folder or a uid (a write overwrites  *)
(* whatever has the uid), and a rotation (DashboardToken) may revoke the   *)
(* token under them.                                                       *)
(*                                                                         *)
(* A dashboard is who wrote it, its repo tags and its folder.  Its         *)
(* position in the request, and in the search, is any.  The GET before     *)
(* each write chooses a word of the response and is part of the write.     *)
(***************************************************************************)
EXTENDS DashboardToken

CONSTANTS Deployers,  \* the invocations of this Lambda
          Requests,   \* what they may be sent: `tags` are the repo tags that
                      \* the JSON of a dashboard has of its own
          Folders, Titles, Uids, Projects,
          Left,       \* bound: what may be under each uid at first
          NoRequest, Earlier, Absent

Wants(q, u) == u \in q.wanted

ASSUME DeployAssumption ==
    /\ Invocations = Rotators \cup Deployers /\ Rotators \cap Deployers = {}
    /\ Left \in [Uids -> SUBSET [tags : SUBSET Projects, folder : Folders, by : {Earlier}]]
    /\ Requests \subseteq [project : Projects, folder : Folders, title : Titles,
                           wanted : SUBSET Uids, tags : [Uids -> SUBSET Projects],
                           invalid : BOOLEAN, prune : BOOLEAN]
    /\ \A q \in Requests : q.wanted # {}
    /\ NoRequest \notin Requests /\ Earlier \notin Invocations /\ Absent \notin Titles
    /\ Absent \notin [tags : SUBSET Projects, folder : Folders, by : Deployers \cup {Earlier}]

VARIABLES
    titled,   \* Grafana: the folders' titles
    dash,     \* Grafana: the dashboards
    request,  \* each deployer's request
    token,    \* and its locals: the token it read,
    todo      \* the dashboards to write, or to delete

deployVars == <<titled, dash, request, token, todo>>
vars == <<runtime, tokenVars, deployVars>>

\* prepare_dashboard adds the project's tag and keeps the others.
Written(u, p) == [tags   |-> request[p].tags[u] \cup {request[p].project},
                  folder |-> request[p].folder,
                  by     |-> p]

DeployCalls == {"token", "folder", "mkdir", "retitle", "upsert", "search", "prune"}

\* Whatever earlier deploys left, and dashboards that people made.
Init ==
    /\ InitInvocations /\ InitToken
    /\ titled \in [Folders -> Titles \cup {Absent}]
    /\ dash \in {d \in [Uids -> {Absent} \cup UNION {Left[u] : u \in Uids}] :
                    \A u \in Uids : d[u] # Absent =>
                        d[u] \in Left[u] /\ titled[d[u].folder] # Absent}
    /\ request = [p \in Deployers |-> NoRequest]
    /\ token = [p \in Deployers |-> None] /\ todo = [p \in Deployers |-> {}]
-----------------------------------------------------------------------------
Authorized(p) == token[p] \in tokens /\ account = "fit"

Marks(q) == {q.project} \cup UNION {q.tags[u] : u \in q.wanted}
Tagged(project) == {u \in Uids : dash[u] # Absent /\ project \in dash[u].tags}

\* May deploy d undo what one with request q does, or q's what d does?  They
\* want other titles for one folder, tag for each other's project, or one of
\* them wants a dashboard that the other wants, or may delete.
Clash(q, d) ==
    LET r == request[d] IN
    \/ r.folder = q.folder /\ r.title # q.title
    \/ r.project \in Marks(q) \/ q.project \in Marks(r)
    \/ q.wanted \cap (r.wanted \cup todo[d] \cup Tagged(r.project)) # {}
    \/ r.wanted \cap Tagged(q.project) # {}

Rivals(p, q) == {d \in Deployers \ {p} : request[d] # NoRequest /\ Clash(q, d)}

StartDeploy(p) ==
    /\ \E q \in Requests :
          /\ Begin(p, "token", Rivals(p, q))
          /\ request' = [request EXCEPT ![p] = q]
    /\ UNCHANGED <<tokenVars, titled, dash, token, todo>>

\* grafana_token, then prepare_dashboard for each.
ReadToken(p) ==
    /\ At(p, "token") /\ token' = [token EXCEPT ![p] = stored]
    /\ IF stored = None \/ request[p].invalid THEN Return(p, "err") ELSE Proceed(p, "folder")
    /\ UNCHANGED <<tokenVars, titled, dash, request, todo>>

ToUpsert(p) == todo' = [todo EXCEPT ![p] = request[p].wanted]

GetFolder(p) ==
    /\ At(p, "folder") /\ Authorized(p)
    /\ Proceed(p, CASE titled[request[p].folder] = Absent           -> "mkdir"
                    [] titled[request[p].folder] = request[p].title -> "upsert"
                    [] OTHER                                        -> "retitle")
    /\ ToUpsert(p)
    /\ UNCHANGED <<tokenVars, titled, dash, request, token>>

WriteFolder(p) ==
    /\ \/ pc[p] = "mkdir" /\ titled[request[p].folder] = Absent
       \/ pc[p] = "retitle"
    /\ Authorized(p)
    /\ titled' = [titled EXCEPT ![request[p].folder] = request[p].title]
    /\ Reply(p, "upsert")
    /\ UNCHANGED <<tokenVars, dash, request, token, todo>>

AfterUpserts(p) == IF request[p].prune THEN "search" ELSE "ok"

\* Mutant: without the folder, so that a dashboard stays where it was.
UpsertInPlace(p) ==
    /\ pc[p] = "upsert" /\ Authorized(p)
    /\ \E u \in todo[p] :
          /\ dash' = [dash EXCEPT ![u] = [Written(u, p) EXCEPT
                         !.folder = IF dash[u] = Absent THEN @ ELSE dash[u].folder]]
          /\ todo' = [todo EXCEPT ![p] = @ \ {u}]
          /\ Reply(p, IF todo[p] = {u} THEN AfterUpserts(p) ELSE "upsert")
    /\ UNCHANGED <<tokenVars, titled, request, token>>

UpsertDashboard(p) ==
    /\ pc[p] = "upsert" /\ Authorized(p)
    /\ \E u \in todo[p] :
          /\ dash' = [dash EXCEPT ![u] = Written(u, p)]
          /\ todo' = [todo EXCEPT ![p] = @ \ {u}]
          /\ Reply(p, IF todo[p] = {u} THEN AfterUpserts(p) ELSE "upsert")
    /\ UNCHANGED <<tokenVars, titled, request, token>>

\* Mutant: everything in the folder.
InFolder(q) == {u \in Uids : dash[u] # Absent /\ dash[u].folder = q.folder}

\* Mutant: everything of the project in another folder.
Misplaced(q) == {u \in Uids : dash[u] # Absent /\ q.project \in dash[u].tags
                              /\ dash[u].folder # q.folder}

\* managed_dashboards: the search, filtered by folder and tag once more.
Managed(q) == {u \in Uids : dash[u] # Absent /\ q.project \in dash[u].tags
                            /\ dash[u].folder = q.folder}

Search(p) ==
    LET found == {u \in Managed(request[p]) : ~Wants(request[p], u)} IN
    /\ At(p, "search") /\ Authorized(p)
    /\ todo' = [todo EXCEPT ![p] = found]
    /\ Proceed(p, IF found = {} THEN "ok" ELSE "prune")
    /\ UNCHANGED <<tokenVars, titled, dash, request, token>>

PruneDashboard(p) ==
    /\ pc[p] = "prune" /\ Authorized(p)
    /\ \E u \in {v \in todo[p] : dash[v] # Absent} :
          /\ dash' = [dash EXCEPT ![u] = Absent]
          /\ todo' = [todo EXCEPT ![p] = @ \ {u}]
          /\ Reply(p, IF todo[p] = {u} THEN "ok" ELSE "prune")
    /\ UNCHANGED <<tokenVars, titled, request, token>>

\* A fault; a token that was revoked; a folder or a dashboard that another
\* deploy has created or deleted.
FailDeploy(p) ==
    /\ p \in alive /\ Running(p) /\ Return(p, "err")
    /\ \/ Faulty
       \/ pc[p] # "token" /\ ~Authorized(p)
       \/ pc[p] = "mkdir" /\ titled[request[p].folder] # Absent
       \/ pc[p] = "prune" /\ \E u \in todo[p] : dash[u] = Absent
    /\ UNCHANGED <<tokenVars, deployVars>>

Deploy(p) ==
    \/ StartDeploy(p) \/ ReadToken(p) \/ GetFolder(p) \/ WriteFolder(p)
    \/ UpsertDashboard(p) \/ Search(p) \/ PruneDashboard(p) \/ FailDeploy(p)

Next ==
    \/ \E p \in Rotators : Rotate(p) /\ UNCHANGED deployVars
    \/ \E p \in Deployers : Deploy(p)
    \/ \E p \in Invocations : (Die(p) \/ Vanish(p)) /\ UNCHANGED <<tokenVars, deployVars>>
    \/ Terminated /\ UNCHANGED <<tokenVars, deployVars>>

Spec == Init /\ [][Next]_vars
-----------------------------------------------------------------------------
\* The values that Grafana, SSM and each invocation's locals take; a dashboard
\* is from earlier times or what its writer's request makes of it.
TypeOK ==
    /\ pc \in [Invocations -> TokenCalls \cup DeployCalls \cup {"idle", "done"}]
    /\ alive \subseteq Invocations /\ alone \in [Invocations -> BOOLEAN]
    /\ result \in [Invocations -> {"none", "ok", "err"}]
    /\ account \in Accounts /\ made \in Nat /\ tokens \subseteq 1..made /\ stored \in 0..made
    /\ listed \in [Rotators -> SUBSET (1..made)] /\ fresh \in [Rotators -> 0..made]
    /\ titled \in [Folders -> Titles \cup {Absent}]
    /\ \A u \in Uids : dash[u] \in Left[u] \cup {Absent} \cup {Written(u, p) : p \in
                                              {d \in Deployers : request[d] # NoRequest}}
    /\ request \in [Deployers -> Requests \cup {NoRequest}] /\ token \in [Deployers -> 0..made]
    /\ todo \in [Deployers -> SUBSET Uids]

\* What a deploy that returned success promises, unless one that clashes with
\* it ran beside it or began since: its dashboards are there as it wrote them,
\* in a folder that is there under its title, and if it prunes nothing else
\* with its project's tag is in that folder.  Rotations, kills, failures, and
\* deploys of other projects into the same folder take none of it away
\* (deploy lib.rs:48-93, grafana.rs:24-46, 86-109).
DeployIsThere ==
    \A p \in Deployers : result[p] = "ok" /\ alone[p] =>
        LET q == request[p] IN
        /\ titled[q.folder] = q.title
        /\ \A u \in q.wanted : dash[u] = Written(u, p)
        /\ q.prune => \A u \in Uids \ q.wanted : dash[u] # Absent =>
               q.project \notin dash[u].tags \/ dash[u].folder # q.folder

\* A prune deletes what has its project's tag in its folder, never what its
\* deploy has just written; what people made, and what earlier deploys of
\* other projects have in the same folder, stays.  What it found in its search
\* it deletes without a second look: it may be what a deploy that clashes with
\* it has written since, and only that (grafana.rs:86-109, 266-271).
PruneSparesOthers ==
    [][\A u \in Uids : dash[u] # Absent /\ dash'[u] = Absent =>
         \E p \in Deployers :
            /\ pc[p] = "prune" /\ request[p].prune /\ dash[u].by # p
            /\ \/ request[p].project \in dash[u].tags /\ dash[u].folder = request[p].folder
               \/ ~alone[p] /\ dash[u].by # Earlier]_vars
=============================================================================
