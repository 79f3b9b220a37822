--------------------------- MODULE ObservedStatus ---------------------------
(***************************************************************************)
(* pipeline-status as it is deployed (backend/pipeline-status/src/main.rs):*)
(* record (module PipelineStatus) as an operation of an event Lambda that  *)
(* ahara-lambda-telemetry observes (module LambdaTelemetry).  A worker is  *)
(* a container.                                                            *)
(***************************************************************************)
EXTENDS PipelineStatus

CONSTANT Workloads  \* containers, redrives, and signals that have a provider

ASSUME ObservedStatusAssumption ==
    Workloads \subseteq [crew : SUBSET Workers, redrives : 0..MaxAttempt,
                         signals : SUBSET {"traces", "metrics", "logs"}]

VARIABLES
    workload,                 \* one of Workloads, for the whole behaviour
    stage, queued, reported   \* of LambdaTelemetry

Telemetry == INSTANCE LambdaTelemetry WITH Containers <- Workers, enabled <- workload.signals

telemetry    == <<stage, queued, reported>>
observedVars == <<vars, workload, telemetry>>

ObservedInit == Init /\ workload \in Workloads /\ Telemetry!Init

\* The event is delivered and the registration read.
Observe(w) == ReadRegistration(w) /\ Telemetry!Start(w)

\* Another event, or a workflow that is not registered, or no answer about it:
\* there is nothing to put.  (Without a provider nothing changes.)
Dismiss(w) == work[w] = {} /\ workload.signals # {} /\ Telemetry!Start(w) /\ UNCHANGED vars
Dismissed(w) == work[w] = {} /\ Telemetry!Finish(w) /\ UNCHANGED vars

\* Written, which is logged, or not, which is not; the reply to a write may
\* be lost, and is then an error.
Put(w) == PutStatus(w) /\ Telemetry!Finish(w)

\* PutItem fails: the invocation does, after it is logged.
FailPut(w) == Abandon(w) /\ Telemetry!Finish(w)

\* No Event, or a panic: an answer without a flush.
Reject(w) == work[w] = {} /\ workload.signals # {} /\ Telemetry!Reject(w) /\ UNCHANGED vars
Panic(w)  == /\ workload.signals # {} /\ Telemetry!Panic(w)
             /\ IF work[w] = {} THEN UNCHANGED vars ELSE Abandon(w)

Flushes(w) ==
    /\ \/ Telemetry!CloseSpan(w) \/ Telemetry!Flush(w)
       \/ Telemetry!Answer(w) \/ Telemetry!Export(w)
    /\ UNCHANGED vars

\* A timeout, a kill, or a frozen container that is reclaimed.  (Without a
\* provider, FailPut does no less.)
Reclaim(w) ==
    /\ workload.signals # {} /\ Telemetry!Replace(w)
    /\ IF work[w] = {} THEN UNCHANGED vars ELSE Abandon(w)

ObservedNext ==
    /\ UNCHANGED workload
    /\ \/ Execution /\ attempt' <= workload.redrives /\ UNCHANGED telemetry
       \/ Register /\ UNCHANGED telemetry
       \/ \E w \in workload.crew :
            \/ Observe(w) \/ Dismiss(w) \/ Dismissed(w) \/ Put(w) \/ FailPut(w)
            \/ Reject(w) \/ Panic(w) \/ Flushes(w) \/ Reclaim(w)

ObservedSpec == ObservedInit /\ [][ObservedNext]_observedVars
-----------------------------------------------------------------------------
ObservedTypeOK == TypeOK /\ workload \in Workloads /\ Telemetry!TypeOK

\* When the service returns, a signal has something queued only if the flush of
\* that very signal failed and said so: whether the invocation failed, whatever
\* the SDK had sent by then, whichever other flush failed (otel.rs:22-38), and
\* whatever earlier invocations had left; its own span is closed before
\* (event.rs:122).  In the frozen container there is, besides, the runtime's span.
NothingHeldBack ==
    \A w \in Workers :
        /\ stage[w] = "answering" => queued[w] \subseteq reported[w]
        /\ stage[w] = "frozen"    => queued[w] \subseteq reported[w] \cup {"traces"}
=============================================================================
