-------------------------- MODULE LambdaTelemetry --------------------------
(***************************************************************************)
(* What ahara-lambda-telemetry keeps in the containers of an event Lambda  *)
(* (crates/ahara-lambda-telemetry/src/event.rs, logger.rs, otel.rs).       *)
(* Spans, metrics and log lines are queued in the providers' exporters.    *)
(* A container is frozen from one answer to the next event and may be      *)
(* reclaimed meanwhile: what is queued then comes late or never.  Threads  *)
(* of the SDK export while the container runs.                             *)
(*                                                                         *)
(* lambda_runtime is external.  It traces each invocation in a span of its *)
(* own around the crate's, and answers by itself an event that it cannot   *)
(* deserialize and a handler that panics.                                  *)
(*                                                                         *)
(* Of a queue it counts whether anything is in it.                         *)
(***************************************************************************)
CONSTANTS Containers

Signals == {"traces", "metrics", "logs"}

VARIABLES
    enabled,   \* the signals that have a provider
    stage,     \* where each container is; a signal: its flush is next;
               \* "lost": frozen after an answer that passed by the flush
    queued,    \* the signals of which something is queued
    reported   \* the signals whose last flush was reported as failed

vars == <<enabled, stage, queued, reported>>

Waiting == {"starting", "frozen", "lost"}
Stages  == Waiting \cup {"handler", "closing", "answering"} \cup Signals

Records(c, S) == queued' = [queued EXCEPT ![c] = @ \cup (S \cap enabled)]
Enters(c, s)  == stage' = [stage EXCEPT ![c] = s]

\* The startup line is queued before the first event.  Without a provider
\* there is nothing to keep.
Startup == IF enabled = {} THEN "frozen" ELSE "starting"

Init ==
    /\ enabled \subseteq Signals
    /\ stage = [c \in Containers |-> Startup]
    /\ queued = [c \in Containers |-> {"logs"} \cap enabled]
    /\ reported = [c \in Containers |-> {}]

\* The lines of the invocation and of the operation in it.
Start(c) ==
    /\ stage[c] \in Waiting
    /\ Enters(c, "handler") /\ Records(c, {"logs"})
    /\ UNCHANGED <<enabled, reported>>

\* The runtime answers without the crate: the event does not deserialize,
Reject(c) ==
    /\ stage[c] \in Waiting
    /\ Enters(c, "lost") /\ Records(c, {"traces", "logs"})
    /\ UNCHANGED <<enabled, reported>>

\* or the handler panics, and its spans are dropped.
Panic(c) ==
    /\ stage[c] = "handler"
    /\ Enters(c, "lost") /\ Records(c, {"traces", "logs"})
    /\ UNCHANGED <<enabled, reported>>

\* The operation ends and its span closes; the invocation is counted and
\* logged, as succeeded or as failed.  Its own span is still open.
Finish(c) ==
    /\ stage[c] = "handler"
    /\ Enters(c, IF enabled = {} THEN "frozen" ELSE "closing") /\ Records(c, Signals)
    /\ UNCHANGED <<enabled, reported>>

\* drop(span), the last handle of it; the runtime's span stays open.
CloseSpan(c) ==
    /\ stage[c] = "closing"
    /\ Enters(c, "traces") /\ Records(c, {"traces"})
    /\ UNCHANGED <<enabled, reported>>

Following(s) == CASE s = "traces" -> "metrics" [] s = "metrics" -> "logs" [] OTHER -> "answering"

\* Mutant: the first failure ends the flush.
FlushUntilFailure(c) ==
    /\ stage[c] \in Signals
    /\ \/ /\ Enters(c, Following(stage[c]))
          /\ queued' = [queued EXCEPT ![c] = @ \ {stage[c]}]
          /\ reported' = [reported EXCEPT ![c] = @ \ {stage[c]}]
       \/ /\ stage[c] \in enabled
          /\ Enters(c, "answering")
          /\ reported' = [reported EXCEPT ![c] = @ \cup {stage[c]}]
          /\ UNCHANGED queued
    /\ UNCHANGED enabled

\* force_flush of one provider.  What its exporter could not send it drops or
\* keeps; the failure is reported and the next provider is flushed.  After the
\* last one the service returns.
Flush(c) ==
    /\ stage[c] \in Signals
    /\ Enters(c, Following(stage[c]))
    /\ \/ /\ queued' = [queued EXCEPT ![c] = @ \ {stage[c]}]
          /\ reported' = [reported EXCEPT ![c] = @ \ {stage[c]}]
       \/ /\ stage[c] \in enabled
          /\ queued' \in {queued, [queued EXCEPT ![c] = @ \ {stage[c]}]}
          /\ reported' = [reported EXCEPT ![c] = @ \cup {stage[c]}]
    /\ UNCHANGED enabled

\* The runtime posts the answer and closes its own span.
Answer(c) ==
    /\ stage[c] = "answering"
    /\ Enters(c, "frozen") /\ Records(c, {"traces"})
    /\ UNCHANGED <<enabled, reported>>

\* A thread of the SDK sends a batch, or gives it up.
Export(c) ==
    /\ stage[c] \notin {"frozen", "lost"}
    /\ \E s \in queued[c] : queued' = [queued EXCEPT ![c] = @ \ {s}]
    /\ UNCHANGED <<enabled, stage, reported>>

\* The process ends, whatever it had queued; another one takes its place.
Replace(c) ==
    /\ stage' = [stage EXCEPT ![c] = Startup]
    /\ queued' = [queued EXCEPT ![c] = {"logs"} \cap enabled]
    /\ reported' = [reported EXCEPT ![c] = {}]
    /\ UNCHANGED enabled

TypeOK ==
    /\ enabled \subseteq Signals /\ stage \in [Containers -> Stages]
    /\ queued \in [Containers -> SUBSET enabled]
    /\ reported \in [Containers -> SUBSET enabled]
=============================================================================
