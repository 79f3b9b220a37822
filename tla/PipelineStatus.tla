--------------------------- MODULE PipelineStatus ---------------------------
(***************************************************************************)
(* pipeline-status (backend/pipeline-status/src/lib.rs): Step Functions    *)
(* status events of one execution, delivered by EventBridge at least once, *)
(* late and in any order, are folded into one DynamoDB item by concurrent  *)
(* Lambda invocations.  All the ordering is in STATUS_CONDITION.           *)
(*                                                                         *)
(* The execution itself is external: an attempt runs, ends once, and may   *)
(* be redriven unless it succeeded.  A PENDING_REDRIVE notification has    *)
(* the stop date of the attempt that ended, or none.                       *)
(***************************************************************************)
EXTENDS Naturals

CONSTANTS Workers,     \* concurrent Lambda invocations
          Owners,      \* registrations the workflow may have
          MaxAttempt,  \* bound: redrives of the execution
          MaxTime,     \* bound: the clock
          Failures,    \* bound: the ways, but success, in which an attempt ends
          NoOwner, NoStop

Start == 0   \* start_date; a redrive does not change it

Ended    == {"FAILED", "TIMED_OUT", "ABORTED"}
Terminal == {"SUCCEEDED"} \cup Ended
Statuses == Terminal \cup {"RUNNING", "PENDING_REDRIVE"}
Events   == [status : Statuses, stop : Nat \cup {NoStop}, attempt : Nat]
Items    == [event : Events, owner : Owners]

ASSUME PipelineStatusAssumption ==
    /\ MaxAttempt \in Nat /\ MaxTime \in Nat
    /\ NoOwner \notin Owners /\ NoStop \notin Nat
    /\ Failures \subseteq Ended

VARIABLES
    clock, attempt, phase,  \* external: the execution
    sent,      \* the events it has emitted; each is delivered any number of times
    registry,  \* what the registry table says of the workflow
    work,      \* the item each invocation is about to put, {} when idle
    item,      \* what the jobs table has of this execution: {}, or its one item
    tried      \* history: the events whose conditional write was decided

execution == <<clock, attempt, phase, sent>>
vars == <<clock, attempt, phase, sent, registry, work, item, tried>>

Init ==
    /\ clock = Start /\ attempt = 0 /\ phase = "RUNNING"
    /\ sent = {[status |-> "RUNNING", stop |-> NoStop, attempt |-> 0]}
    /\ registry \in Owners \cup {NoOwner}
    /\ work = [w \in Workers |-> {}]
    /\ item = {} /\ tried = {}
-----------------------------------------------------------------------------
(* The execution.                                                          *)

Emit(s, t, n) == sent' = sent \cup {[status |-> s, stop |-> t, attempt |-> n]}

Tick == clock < MaxTime /\ clock' = clock + 1 /\ UNCHANGED <<attempt, phase, sent>>

Finish ==
    /\ phase = "RUNNING"
    /\ \E s \in {"SUCCEEDED"} \cup Failures : phase' = s /\ Emit(s, clock, attempt)
    /\ UNCHANGED <<clock, attempt>>

\* Notified once the attempt has ended; the stop date is that of its end.
PendRedrive ==
    /\ phase \in Ended
    /\ \E e \in sent : /\ e.attempt = attempt /\ e.status = phase
                       /\ \E t \in {e.stop, NoStop} : Emit("PENDING_REDRIVE", t, attempt)
    /\ UNCHANGED <<clock, attempt, phase>>

Redrive ==
    /\ phase \in Ended /\ attempt < MaxAttempt
    /\ attempt' = attempt + 1 /\ phase' = "RUNNING"
    /\ Emit("RUNNING", NoStop, attempt + 1)
    /\ UNCHANGED clock

Execution == (Tick \/ Finish \/ PendRedrive \/ Redrive)
             /\ UNCHANGED <<registry, work, item, tried>>

\* Terraform writes and removes registrations.
Register ==
    /\ registry' \in (Owners \cup {NoOwner}) \ {registry}
    /\ UNCHANGED <<execution, work, item, tried>>
-----------------------------------------------------------------------------
(* record                                                                  *)

IsTerminal(e) == e.status \in Terminal
EventOrder(e) == IF e.stop = NoStop THEN Start ELSE e.stop

\* Mutants of the condition: a delayed RUNNING of the same instant is let in;
\* a terminal event does not beat a RUNNING one of the same instant.
LetsDelayedIn(e, old) ==
    \/ e.attempt > old.attempt
    \/ e.attempt = old.attempt /\ EventOrder(e) >= EventOrder(old)
LosesTies(e, old) ==
    \/ e.attempt > old.attempt
    \/ e.attempt = old.attempt /\ EventOrder(e) > EventOrder(old)

\* STATUS_CONDITION, where there is an item.
Supersedes(e, old) ==
    \/ e.attempt > old.attempt
    \/ /\ e.attempt = old.attempt
       /\ \/ EventOrder(e) > EventOrder(old)
          \/ /\ EventOrder(e) = EventOrder(old)
             /\ ~IsTerminal(old) /\ IsTerminal(e)
       /\ ~IsTerminal(old) \/ IsTerminal(e)

\* GetItem, consistent: an unregistered workflow is ignored.
ReadRegistration(w) ==
    /\ work[w] = {} /\ registry # NoOwner
    /\ \E e \in sent : work' = [work EXCEPT ![w] = {[event |-> e, owner |-> registry]}]
    /\ UNCHANGED <<execution, registry, item, tried>>

\* PutItem with the condition: it is written, or Ok(false).
PutStatus(w) ==
    /\ \E i \in work[w] :
         /\ item' = IF \A old \in item : Supersedes(i.event, old.event)
                    THEN {i} ELSE item
         /\ tried' = tried \cup {i.event}
    /\ work' = [work EXCEPT ![w] = {}]
    /\ UNCHANGED <<execution, registry>>

\* A timeout or a kill; the event is delivered again, or is given up.
Abandon(w) ==
    /\ work[w] # {}
    /\ work' = [work EXCEPT ![w] = {}]
    /\ UNCHANGED <<execution, registry, item, tried>>

Next ==
    \/ Execution \/ Register
    \/ \E w \in Workers : ReadRegistration(w) \/ PutStatus(w) \/ Abandon(w)

Spec == Init /\ [][Next]_vars
-----------------------------------------------------------------------------
AtMostOne(S) == \A x, y \in S : x = y

\* What the tables, the clock and the invocations can hold; the jobs table has
\* at most one item of an execution (its key is the execution's ARN).
TypeOK ==
    /\ clock \in Nat /\ attempt \in Nat /\ phase \in Terminal \cup {"RUNNING"}
    /\ sent \subseteq Events /\ tried \subseteq sent
    /\ registry \in Owners \cup {NoOwner}
    /\ work \in [Workers -> SUBSET Items]
    /\ \A w \in Workers : AtMostOne(work[w])
    /\ item \subseteq Items /\ AtMostOne(item)

\* The item is never behind an event that was taken in: whatever the order of
\* delivery, it has the latest attempt among them, none of that attempt's later
\* instants was among them, and it is that attempt's end if the end was
\* (STATUS_CONDITION).
ItemIsLatest ==
    \A e \in tried : \E i \in item :
        /\ i.event.attempt >= e.attempt
        /\ i.event.attempt = e.attempt =>
             /\ EventOrder(e) <= EventOrder(i.event)
             /\ IsTerminal(e) => i.event = e

\* "A new redrive may reopen a terminal execution. Within one attempt,
\* terminal state wins over delayed RUNNING events" (lib.rs:93).
TerminalIsFinalWithinAttempt ==
    [][\A old \in item, new \in item' :
         IsTerminal(old.event) /\ new # old =>
             new.event.attempt > old.event.attempt]_vars

\* Redelivery writes nothing: an event that was taken in is not written again.
WrittenOnce ==
    [][\A new \in item' : new \notin item => new.event \notin tried]_vars
=============================================================================
