----------------------------- MODULE KomodoProxy -----------------------------
(***************************************************************************)
(* backend/komodo-proxy, beside the db-migrate-truenas that publishes what *)
(* it reads: a list of actions on one stack of the home server, in order,  *)
(* up to the first that fails.  Values that start with "ssm:" are resolved *)
(* one by one, in the arbitrary order of a HashMap; nothing is locked.     *)
(*                                                                         *)
(* The references are to the app role's URL and password; each variable is *)
(* named after its reference.  External: Komodo, which refuses to create   *)
(* what is there and to change or deploy what is not.                      *)
(***************************************************************************)
EXTENDS TrueNasRoles, Sequences

CONSTANTS Proxies,   \* the invocations of this Lambda
          Requests,  \* the lists of actions they may be sent
          NoRequest

Actions == {"variables", "environment", "servers", "create", "deploy"}

ASSUME KomodoAssumption ==
    /\ Requests \subseteq Seq(Actions) \ {<<>>} /\ NoRequest \notin Requests
    /\ Invocations = Procs \cup Proxies /\ Procs \cap Proxies = {}

VARIABLES
    stack,     \* Komodo: does it have the stack?
    env,       \* its environment,
    deployed,  \* and the one its containers were last started with
    variable,  \* Komodo: the variables
    request,   \* each proxy's request
    left,      \* the actions left, the first of them under way
    resolved,  \* the values resolved for it
    towrite,   \* the variables it has yet to write, in the order resolved
    wrote,     \* history: the last environment it set
    sound      \* history: were the app role's parameters complete, with a URL,
               \* whenever it began to read an environment?

komodo    == <<stack, env, deployed, variable>>
locals    == <<request, left, resolved, towrite, wrote, sound>>
proxyVars == <<komodo, locals>>
vars      == <<runtime, roleVars, proxyVars>>

Refs  == {"url", "password"}
Empty == [r \in Refs |-> None]
Parameter == [r \in Refs |-> IF r = "url" THEN url["app"] ELSE secure["app"]]

Init ==
    /\ InitInvocations /\ InitRoles
    /\ stack \in BOOLEAN /\ env = Empty /\ deployed = Empty /\ variable = Empty
    /\ request = [p \in Proxies |-> NoRequest] /\ left = [p \in Proxies |-> <<>>]
    /\ resolved = [p \in Proxies |-> Empty] /\ towrite = [p \in Proxies |-> <<>>]
    /\ wrote = [p \in Proxies |-> Empty] /\ sound = [p \in Proxies |-> FALSE]
-----------------------------------------------------------------------------
Resolves(action) == action \in {"variables", "environment"}
FirstCall(action) == IF Resolves(action) THEN "resolve" ELSE action

StartProxy(p) ==
    /\ \E q \in Requests :
          /\ Begin(p, FirstCall(q[1]), Proxies \ {p})
          /\ request' = [request EXCEPT ![p] = q] /\ left' = [left EXCEPT ![p] = q]
    /\ sound' = [sound EXCEPT ![p] = TRUE]
    /\ UNCHANGED <<komodo, resolved, towrite, wrote>>

\* The action has succeeded: on to the next one.
NextAction(p) ==
    LET rest == Tail(left[p]) IN
    /\ left' = [left EXCEPT ![p] = rest]
    /\ resolved' = [resolved EXCEPT ![p] = Empty] /\ towrite' = [towrite EXCEPT ![p] = <<>>]
    /\ Reply(p, IF rest = <<>> THEN "ok" ELSE FirstCall(rest[1]))

\* The first value of an environment is read from parameters as they are now.
BeginsToRead(p) ==
    sound' = [sound EXCEPT ![p] =
        @ /\ (left[p][1] = "environment" /\ resolved[p] = Empty => Complete("app") /\ url["app"] # None)]

\* Mutant: writes as soon as a value is resolved.
ResolveOne(p) ==
    /\ At(p, "resolve")
    /\ \E r \in Refs :
          /\ Parameter[r] # None
          /\ resolved' = [resolved EXCEPT ![p][r] = Parameter[r]]
          /\ towrite' = [towrite EXCEPT ![p] = Append(@, r)]
          /\ Proceed(p, left[p][1])
    /\ BeginsToRead(p)
    /\ UNCHANGED <<komodo, request, left, wrote>>

\* resolve_ssm_value; with the last one the action can write.
Resolve(p) ==
    /\ At(p, "resolve")
    /\ \E r \in Refs :
          LET all == [resolved[p] EXCEPT ![r] = Parameter[r]] IN
          /\ resolved[p][r] = None /\ Parameter[r] # None
          /\ resolved' = [resolved EXCEPT ![p] = all]
          /\ towrite' = [towrite EXCEPT ![p] = Append(@, r)]
          /\ Proceed(p, IF None \in {all[s] : s \in Refs} THEN "resolve" ELSE left[p][1])
    /\ BeginsToRead(p)
    /\ UNCHANGED <<komodo, request, left, wrote>>

\* One UpdateStack replaces the whole environment.
SetEnvironment(p) ==
    /\ pc[p] = "environment" /\ stack
    /\ env' = resolved[p]
    /\ wrote' = [wrote EXCEPT ![p] = resolved[p]]
    /\ NextAction(p)
    /\ UNCHANGED <<stack, deployed, variable, request, sound>>

\* Mutant: one round more than there are variables.
LoopOnce(p) ==
    IF towrite[p] = <<>> THEN NextAction(p)
    ELSE /\ towrite' = [towrite EXCEPT ![p] = Tail(@)]
         /\ Reply(p, "variables") /\ UNCHANGED <<left, resolved>>

\* A variable is written: on to the next one, or to the next action.
NextVariable(p) ==
    IF Len(towrite[p]) = 1 THEN NextAction(p)
    ELSE /\ towrite' = [towrite EXCEPT ![p] = Tail(@)]
         /\ Reply(p, "variables") /\ UNCHANGED <<left, resolved>>

WriteVariable(p) == LET r == Head(towrite[p]) IN variable' = [variable EXCEPT ![r] = resolved[p][r]]
HasVariable(p) == variable[Head(towrite[p])] # None

\* CreateVariable is refused if the variable is there.  On any error, that of a
\* reply which was lost too, UpdateVariableValue is tried.  (In the first
\* disjunct a running proxy returns "err" when the replies of both are lost.)
CreateVariable(p) ==
    /\ pc[p] = "variables"
    /\ \/ ~HasVariable(p) /\ WriteVariable(p) /\ NextVariable(p)
       \/ /\ p \in alive /\ Proceed(p, "update") /\ UNCHANGED <<left, resolved, towrite>>
          /\ \/ (HasVariable(p) \/ Faulty) /\ UNCHANGED variable
             \/ ~HasVariable(p) /\ Faulty /\ WriteVariable(p)
    /\ UNCHANGED <<stack, env, deployed, request, wrote, sound>>

UpdateVariable(p) ==
    /\ pc[p] = "update" /\ HasVariable(p)
    /\ WriteVariable(p) /\ NextVariable(p)
    /\ UNCHANGED <<stack, env, deployed, request, wrote, sound>>

ListServers(p) ==
    /\ At(p, "servers") /\ NextAction(p)
    /\ UNCHANGED <<komodo, request, wrote, sound>>

CreateStack(p) ==
    /\ pc[p] = "create" /\ ~stack
    /\ stack' = TRUE /\ NextAction(p)
    /\ UNCHANGED <<env, deployed, variable, request, wrote, sound>>

DeployStack(p) ==
    /\ pc[p] = "deploy" /\ stack
    /\ deployed' = env /\ NextAction(p)
    /\ UNCHANGED <<stack, env, variable, request, wrote, sound>>

\* Mutant: the error is recorded and the other actions are carried out.
GoOn(p) ==
    \/ Len(left[p]) = 1 /\ Return(p, "err") /\ UNCHANGED <<left, resolved, towrite>>
    \/ Len(left[p]) > 1 /\ NextAction(p)

\* The error is recorded and the other actions are not carried out.
Abort(p) == Return(p, "err") /\ UNCHANGED <<left, resolved, towrite>>

FailAction(p) ==
    /\ p \in alive /\ Running(p) /\ Abort(p)
    /\ \/ Faulty /\ pc[p] # "variables"
       \/ pc[p] = "update" /\ ~HasVariable(p)
       \/ pc[p] = "resolve" /\ \E r \in Refs : resolved[p][r] = None /\ Parameter[r] = None
       \/ pc[p] \in {"environment", "deploy"} /\ ~stack
       \/ pc[p] = "create" /\ stack
    /\ UNCHANGED <<komodo, request, wrote, sound>>

Serve(p) ==
    \/ StartProxy(p) \/ Resolve(p) \/ SetEnvironment(p) \/ CreateVariable(p) \/ UpdateVariable(p)
    \/ ListServers(p) \/ CreateStack(p) \/ DeployStack(p) \/ FailAction(p)

Next ==
    \/ \E p \in Procs : EnsureDatabase(p) /\ UNCHANGED proxyVars
    \/ \E p \in Proxies : Serve(p) /\ UNCHANGED roleVars
    \/ \E p \in Invocations : (Die(p) \/ Vanish(p)) /\ UNCHANGED <<roleVars, proxyVars>>
    \/ Terminated /\ UNCHANGED <<roleVars, proxyVars>>

Spec == Init /\ [][Next]_vars
-----------------------------------------------------------------------------
Values == [Refs -> Nat]
ProxyCalls == Actions \cup {"resolve", "update"}

\* The values that the services and each invocation's locals take; whoever
\* writes variables has one to write.
TypeOK ==
    /\ RolesTypeOK
    /\ pc \in [Invocations -> Calls \cup ProxyCalls \cup {"idle", "done"}]
    /\ alive \subseteq Invocations /\ alone \in [Invocations -> BOOLEAN]
    /\ result \in [Invocations -> {"none", "ok", "err"}]
    /\ stack \in BOOLEAN /\ env \in Values /\ deployed \in Values /\ variable \in Values
    /\ request \in [Proxies -> Requests \cup {NoRequest}]
    /\ left \in [Proxies -> Seq(Actions)] /\ towrite \in [Proxies -> Seq(Refs)]
    /\ \A p \in Proxies : pc[p] \in {"variables", "update"} => towrite[p] # <<>>
    /\ resolved \in [Proxies -> Values] /\ wrote \in [Proxies -> Values]
    /\ sound \in [Proxies -> BOOLEAN]

\* Whether an environment is set before the stack is deployed.
SetsFirst(q) == \E i, j \in 1..Len(q) : i < j /\ q[i] = "environment" /\ q[j] = "deploy"

\* A stack that one request has set up and deployed with success, from
\* parameters that were complete when it began to read them, holds credentials
\* that PostgreSQL takes, until rotations of the app role clash: rotations that
\* ended before those reads, backfills beside them and whatever is killed later
\* leave no mix of two passwords (komodo main.rs:185-242, db-migrate-truenas
\* main.rs:348-376).  Read while a rotation is under way, it may hold such a mix.
DeployedWorks ==
    \A p \in Proxies :
        result[p] = "ok" /\ alone[p] /\ SetsFirst(request[p]) /\ sound[p] /\ ~Clashed("app") =>
            \A r \in Refs : deployed[r] = password["app"]

\* How many actions are done, and whether setting an environment is among them.
Done(p) == Len(request[p]) - Len(left[p])
HasSet(p) == \E i \in 1..Done(p) : request[p][i] = "environment"

\* Nothing is deployed after a step that failed: a request that has an
\* environment set deploys that one, or does not deploy (main.rs:365-384).
DeployFollowsEnvironment ==
    [][\A p \in Proxies : pc[p] = "deploy" /\ deployed' # deployed /\ alone[p] /\ HasSet(p) =>
         deployed' = wrote[p] /\ wrote[p] # Empty]_vars
=============================================================================
