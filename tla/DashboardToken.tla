--------------------------- MODULE DashboardToken ---------------------------
(***************************************************************************)
(* backend/grafana-dashboard-bootstrap: gives the dashboard deployer its   *)
(* token.  Make the service account what it should be, delete the tokens   *)
(* of that name, create one, put it into SSM; nothing is locked.           *)
(*                                                                         *)
(* A token is the number of the call that created it.  External: Grafana,  *)
(* which refuses an account that is there and the deletion of a token that *)
(* is not.                                                                 *)
(***************************************************************************)
EXTENDS Invocation

CONSTANTS Rotators   \* the invocations of this Lambda

VARIABLES
    account,  \* Grafana: the service account
    tokens,   \* Grafana: its live tokens of that name
    made,     \* tokens created so far
    stored,   \* SSM: the token parameter
    listed,   \* each rotator's locals: the tokens it has yet to delete,
    fresh     \* and the one it created

grafana   == <<account, tokens, made>>
tokenVars == <<account, tokens, made, stored, listed, fresh>>

None == 0
Accounts == {"missing", "unfit", "fit"}   \* unfit: disabled, or of another role
TokenCalls == {"health", "account", "create", "update", "list", "delete", "mint", "store"}

\* Nothing yet; an account that somebody disabled; or whatever earlier
\* rotations left, wherever they ended, two at once included.
InitToken ==
    /\ \/ account = "missing" /\ tokens = {} /\ stored = None
       \/ account = "unfit" /\ tokens = {1} /\ stored = 1
       \/ account = "fit" /\ tokens \in {{}, {1}, {1, 2}} /\ stored \in {None, 1}
    /\ made = 2
    /\ listed = [p \in Rotators |-> {}] /\ fresh = [p \in Rotators |-> None]
-----------------------------------------------------------------------------
StartRotation(p) ==
    /\ Begin(p, "health", Rotators \ {p})
    /\ UNCHANGED tokenVars

\* The admin password is there and Grafana answers, within 12 attempts.
WaitForHealth(p) ==
    /\ At(p, "health") /\ Proceed(p, "account")
    /\ UNCHANGED tokenVars

FindServiceAccount(p) ==
    /\ At(p, "account")
    /\ Proceed(p, CASE account = "missing" -> "create"
                    [] account = "unfit"   -> "update"
                    [] account = "fit"     -> "list")
    /\ UNCHANGED tokenVars

EnsureServiceAccount(p) ==
    /\ \/ pc[p] = "create" /\ account = "missing"
       \/ pc[p] = "update"
    /\ account' = "fit" /\ Reply(p, "list")
    /\ UNCHANGED <<tokens, made, stored, listed, fresh>>

ListTokens(p) ==
    /\ At(p, "list")
    /\ listed' = [listed EXCEPT ![p] = tokens]
    /\ Proceed(p, IF tokens = {} THEN "mint" ELSE "delete")
    /\ UNCHANGED <<grafana, stored, fresh>>

\* Mutant: stops at the first token of that name.
DeleteFirstToken(p) ==
    /\ pc[p] = "delete"
    /\ \E t \in listed[p] \cap tokens : tokens' = tokens \ {t}
    /\ listed' = [listed EXCEPT ![p] = {}] /\ Reply(p, "mint")
    /\ UNCHANGED <<account, made, stored, fresh>>

DeleteToken(p) ==
    /\ pc[p] = "delete"
    /\ \E t \in listed[p] \cap tokens :
          /\ tokens' = tokens \ {t}
          /\ listed' = [listed EXCEPT ![p] = @ \ {t}]
          /\ Reply(p, IF listed[p] = {t} THEN "mint" ELSE "delete")
    /\ UNCHANGED <<account, made, stored, fresh>>

CreateToken(p) ==
    /\ pc[p] = "mint"
    /\ made' = made + 1 /\ tokens' = tokens \cup {made + 1}
    /\ fresh' = [fresh EXCEPT ![p] = made + 1] /\ Reply(p, "store")
    /\ UNCHANGED <<account, stored, listed>>

StoreToken(p) ==
    /\ pc[p] = "store"
    /\ stored' = fresh[p] /\ Reply(p, "ok")
    /\ UNCHANGED <<grafana, listed, fresh>>

FailRotation(p) ==
    /\ p \in alive /\ Running(p) /\ Return(p, "err")
    /\ \/ Faulty
       \/ pc[p] = "create" /\ account # "missing"
       \/ pc[p] = "delete" /\ ~(listed[p] \subseteq tokens)
    /\ UNCHANGED tokenVars

Rotate(p) ==
    \/ StartRotation(p) \/ WaitForHealth(p) \/ FindServiceAccount(p)
    \/ EnsureServiceAccount(p) \/ ListTokens(p) \/ DeleteToken(p) \/ CreateToken(p)
    \/ StoreToken(p) \/ FailRotation(p)
-----------------------------------------------------------------------------
\* A rotation that no other overlapped and that returned success has put
\* things right whatever earlier ones left, at whichever call they were
\* killed: SSM's token is live, its account may deploy, and every other token,
\* lost ones included, is revoked (bootstrap lib.rs:49-90, grafana.rs:88-115).
RotationHeals ==
    \A p \in Rotators : result[p] = "ok" /\ alone[p] =>
        account = "fit" /\ tokens = {stored}
=============================================================================
