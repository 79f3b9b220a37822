----------------------------- MODULE Invocation -----------------------------
(***************************************************************************)
(* Invocations of Lambda functions that call services one await at a time: *)
(* an invocation is at the call it makes next.  External: the Lambda       *)
(* runtime and its timeout.  A killed invocation may have sent its call;   *)
(* the service still carries it out, or never does.                        *)
(***************************************************************************)
EXTENDS Naturals

CONSTANTS Invocations,
          Crews,   \* bound: the sets of them that run in one behaviour
          Faulty   \* may a call fail, its reply be lost, the Lambda be killed?

ASSUME InvocationAssumption == Crews \subseteq SUBSET Invocations /\ Faulty \in BOOLEAN

VARIABLES
    pc,      \* the call each invocation makes next
    alive,   \* the invocations whose process runs
    result,  \* what each has returned
    alone    \* history: has no rival run at the same time, nor begun since?

runtime == <<pc, alive, result, alone>>

Running(p) == pc[p] \notin {"idle", "done"}
At(p, n)   == pc[p] = n /\ p \in alive

InitInvocations ==
    /\ pc = [p \in Invocations |-> "idle"] /\ alive = Invocations
    /\ result = [p \in Invocations |-> "none"]
    /\ alone = [p \in Invocations |-> FALSE]
-----------------------------------------------------------------------------
Return(p, r) ==
    /\ pc' = [pc EXCEPT ![p] = "done"] /\ result' = [result EXCEPT ![p] = r]
    /\ UNCHANGED <<alive, alone>>

\* On to call n, or to the end.
Proceed(p, n) ==
    \/ n = "ok" /\ Return(p, "ok")
    \/ n # "ok" /\ pc' = [pc EXCEPT ![p] = n] /\ UNCHANGED <<alive, result, alone>>

\* The call has taken effect; its reply arrives, or does not.
Reply(p, n) ==
    \/ p \in alive /\ Proceed(p, n)
    \/ (p \notin alive \/ Faulty) /\ Return(p, "err")

MayBegin(p) ==
    pc[p] = "idle" /\ \E c \in Crews : {q \in Invocations : pc[q] # "idle"} \cup {p} \subseteq c

\* An invocation begins at call n, and is in the way of its rivals.
Begin(p, n, rivals) ==
    /\ MayBegin(p) /\ pc' = [pc EXCEPT ![p] = n]
    /\ alone' = [q \in Invocations |->
          IF q = p THEN \A r \in rivals : ~Running(r) ELSE alone[q] /\ q \notin rivals]
    /\ UNCHANGED <<alive, result>>

Die(p) ==
    /\ Faulty /\ p \in alive /\ Running(p)
    /\ alive' = alive \ {p} /\ UNCHANGED <<pc, result, alone>>

\* The call a killed invocation had sent is never carried out.
Vanish(p) == p \notin alive /\ Running(p) /\ Return(p, "err")

Terminated ==
    (\A p \in Invocations : ~Running(p) /\ ~MayBegin(p)) /\ UNCHANGED runtime
=============================================================================
