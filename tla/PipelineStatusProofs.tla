----------------------- MODULE PipelineStatusProofs -----------------------
(***************************************************************************)
(* Proofs about PipelineStatus, for any number of invocations, redrives    *)
(* and instants, and about the Lambda as it is deployed (ObservedStatus),  *)
(* for any containers.                                                     *)
(*                                                                         *)
(* ItemIsLatest is not inductive by itself: that a terminal event cannot   *)
(* be refused in favour of a later non-terminal one rests on what the      *)
(* execution emits (EmittedOK): of one attempt, one terminal event, and    *)
(* nothing with a later stop date.  Every step of the observed Lambda is a *)
(* step of record or none, so what holds of one holds of the other.        *)
(* NothingHeldBack is not inductive: a flush of one signal says nothing of *)
(* the others, so the invariant counts the signals whose turn has passed   *)
(* (FlushedOK).                                                            *)
(***************************************************************************)
EXTENDS ObservedStatus, TLAPS

\* Every item is one of an event that was emitted.
CarriedOK ==
    /\ \A w \in Workers : \A i \in work[w] : i.event \in sent
    /\ \A i \in item : i.event \in tried

\* What Step Functions emits: an attempt that runs has no end yet; one that
\* ended has one end, and no event of it is later.
EmittedOK ==
    /\ \A e \in sent : e.attempt <= attempt
    /\ phase = "RUNNING" => \A e \in sent : e.attempt = attempt =>
                               e.stop = NoStop /\ ~IsTerminal(e)
    /\ \A e, t \in sent : e.attempt = t.attempt /\ IsTerminal(t) =>
          EventOrder(e) <= EventOrder(t) /\ (IsTerminal(e) => e = t)

StatusInv == TypeOK /\ CarriedOK /\ EmittedOK /\ ItemIsLatest

\* The order of an event is a natural number.
LEMMA OrderIsNat == \A e \in Events : EventOrder(e) \in Nat
  BY DEF Events, EventOrder, Start

\* An emitted event is an event.
LEMMA EmitAdds ==
    ASSUME TypeOK, NEW s \in Statuses, NEW t \in Nat \cup {NoStop}, NEW n \in Nat,
           Emit(s, t, n)
    PROVE  /\ [status |-> s, stop |-> t, attempt |-> n] \in Events
           /\ sent' = sent \cup {[status |-> s, stop |-> t, attempt |-> n]}
           /\ sent' \subseteq Events
           /\ tried \subseteq sent'
  BY DEF TypeOK, Emit, Events

\* The state that invocations and Terraform touch.
LEMMA TypeStep == TypeOK /\ CarriedOK /\ [Next]_vars => TypeOK' /\ CarriedOK'
  <1> SUFFICES ASSUME TypeOK, CarriedOK, [Next]_vars
               PROVE  TypeOK' /\ CarriedOK'
      OBVIOUS
  <1>1. CASE Execution
    <2> USE <1>1
    <2>0. UNCHANGED <<registry, work, item, tried>>
        BY DEF Execution
    <2>1. /\ clock' \in Nat /\ attempt' \in Nat
          /\ phase' \in Terminal \cup {"RUNNING"}
          /\ sent' \subseteq Events /\ sent \subseteq sent'
      <3>1. CASE Tick
          BY <3>1 DEF Tick, TypeOK
      <3>2. CASE Finish
        <4>1. PICK s \in Terminal : phase' = s /\ Emit(s, clock, attempt)
            BY <3>2, PipelineStatusAssumption DEF Finish, Terminal
        <4>2. s \in Statuses /\ clock \in Nat \cup {NoStop} /\ attempt \in Nat
            BY DEF TypeOK, Statuses
        <4> QED
            BY <3>2, <4>1, <4>2, EmitAdds DEF Finish, TypeOK
      <3>3. CASE PendRedrive
        <4>0. PICK e \in sent : \E t \in {e.stop, NoStop} : Emit("PENDING_REDRIVE", t, attempt)
            BY <3>3 DEF PendRedrive
        <4>1. PICK t \in {e.stop, NoStop} : Emit("PENDING_REDRIVE", t, attempt)
            BY <4>0
        <4>2. t \in Nat \cup {NoStop} /\ attempt \in Nat /\ "PENDING_REDRIVE" \in Statuses
            BY <4>1 DEF TypeOK, Statuses, Events
        <4> QED
            BY <3>3, <4>1, <4>2, EmitAdds DEF PendRedrive, TypeOK
      <3>4. CASE Redrive
        <4>1. Emit("RUNNING", NoStop, attempt + 1) /\ attempt' = attempt + 1
              /\ phase' = "RUNNING" /\ clock' = clock
            BY <3>4 DEF Redrive
        <4>2. attempt + 1 \in Nat /\ "RUNNING" \in Statuses
            BY DEF TypeOK, Statuses
        <4> QED
            BY <4>1, <4>2, EmitAdds DEF TypeOK
      <3> QED
          BY <3>1, <3>2, <3>3, <3>4 DEF Execution
    <2> QED
        BY <2>0, <2>1 DEF TypeOK, CarriedOK, AtMostOne
  <1>2. CASE Register
      BY <1>2 DEF Register, TypeOK, CarriedOK, AtMostOne, execution
  <1>3. ASSUME NEW w \in Workers, ReadRegistration(w)
        PROVE  TypeOK' /\ CarriedOK'
    <2>1. PICK e \in sent :
            work' = [work EXCEPT ![w] = {[event |-> e, owner |-> registry]}]
        BY <1>3 DEF ReadRegistration
    <2>2. [event |-> e, owner |-> registry] \in Items
        BY <1>3 DEF ReadRegistration, TypeOK, Items
    <2>3. UNCHANGED <<clock, attempt, phase, sent, registry, item, tried>>
        BY <1>3 DEF ReadRegistration, execution
    <2> QED
        BY <2>1, <2>2, <2>3 DEF TypeOK, CarriedOK, AtMostOne
  <1>4. ASSUME NEW w \in Workers, PutStatus(w)
        PROVE  TypeOK' /\ CarriedOK'
    <2>1. PICK i \in work[w] : /\ item' = IF \A old \in item : Supersedes(i.event, old.event)
                                          THEN {i} ELSE item
                               /\ tried' = tried \cup {i.event}
        BY <1>4 DEF PutStatus
    <2>2. i \in Items /\ i.event \in sent
        BY DEF TypeOK, CarriedOK
    <2>3. UNCHANGED <<clock, attempt, phase, sent, registry>>
          /\ work' = [work EXCEPT ![w] = {}]
        BY <1>4 DEF PutStatus, execution
    <2>4. item' = {i} \/ item' = item
        BY <2>1
    <2> QED
        BY <2>1, <2>2, <2>3, <2>4 DEF TypeOK, CarriedOK, AtMostOne
  <1>5. ASSUME NEW w \in Workers, Abandon(w)
        PROVE  TypeOK' /\ CarriedOK'
      BY <1>5 DEF Abandon, TypeOK, CarriedOK, AtMostOne, execution
  <1>6. CASE UNCHANGED vars
      BY <1>6 DEF vars, TypeOK, CarriedOK, AtMostOne
  <1> QED
      BY <1>1, <1>2, <1>3, <1>4, <1>5, <1>6 DEF Next

\* What the execution emits stays in order.
LEMMA EmittedStep == TypeOK /\ EmittedOK /\ [Next]_vars => EmittedOK'
  <1> SUFFICES ASSUME TypeOK, EmittedOK, [Next]_vars
               PROVE  EmittedOK'
      OBVIOUS
  <1>1. CASE UNCHANGED <<attempt, phase, sent>>
      BY <1>1 DEF EmittedOK, IsTerminal, EventOrder
  <1>2. CASE Finish
    <2>1. PICK s \in Terminal : phase' = s /\ Emit(s, clock, attempt)
        BY <1>2, PipelineStatusAssumption DEF Finish, Terminal
    <2> DEFINE new == [status |-> s, stop |-> clock, attempt |-> attempt]
    <2>2. sent' = sent \cup {new} /\ attempt' = attempt /\ phase = "RUNNING"
        BY <1>2, <2>1 DEF Finish, Emit
    <2>3. IsTerminal(new) /\ EventOrder(new) = clock /\ new.attempt = attempt
        BY PipelineStatusAssumption DEF IsTerminal, EventOrder, TypeOK
    <2>4. \A e \in sent : e.attempt = attempt => EventOrder(e) = 0 /\ ~IsTerminal(e)
        BY <2>2 DEF EmittedOK, EventOrder, Start
    <2>5. clock \in Nat /\ attempt \in Nat /\ phase' # "RUNNING"
        BY <2>1 DEF TypeOK, Terminal, Ended
    <2> HIDE DEF new
    <2>6. \A e, t \in sent' : e.attempt = t.attempt /\ IsTerminal(t) =>
             EventOrder(e) <= EventOrder(t) /\ (IsTerminal(e) => e = t)
      <3> SUFFICES ASSUME NEW e \in sent', NEW t \in sent',
                          e.attempt = t.attempt, IsTerminal(t)
                   PROVE  EventOrder(e) <= EventOrder(t) /\ (IsTerminal(e) => e = t)
          OBVIOUS
      <3>1. CASE t = new
          BY <3>1, <2>2, <2>3, <2>4, <2>5
      <3>2. CASE t # new /\ e = new
          BY <3>2, <2>2, <2>3, <2>4
      <3>3. CASE t # new /\ e # new
          BY <3>3, <2>2 DEF EmittedOK
      <3> QED
          BY <3>1, <3>2, <3>3
    <2>7. \A e \in sent' : e.attempt <= attempt'
        BY <2>2, <2>3, <2>5 DEF EmittedOK
    <2> QED
        BY <2>5, <2>6, <2>7 DEF EmittedOK, IsTerminal, EventOrder
  <1>3. CASE PendRedrive
    <2>0. PICK f \in sent : /\ f.attempt = attempt /\ f.status = phase
                            /\ \E s \in {f.stop, NoStop} : Emit("PENDING_REDRIVE", s, attempt)
        BY <1>3 DEF PendRedrive
    <2>1. PICK s \in {f.stop, NoStop} : Emit("PENDING_REDRIVE", s, attempt)
        BY <2>0
    <2> DEFINE new == [status |-> "PENDING_REDRIVE", stop |-> s, attempt |-> attempt]
    <2>2. sent' = sent \cup {new} /\ attempt' = attempt /\ phase' = phase
          /\ phase \in Ended
        BY <1>3, <2>1 DEF PendRedrive, Emit
    <2>3. ~IsTerminal(new) /\ new.attempt = attempt /\ IsTerminal(f)
        BY <2>0, <2>2 DEF IsTerminal, Terminal, Ended
    <2>4. EventOrder(new) <= EventOrder(f)
        BY <2>1, OrderIsNat DEF EventOrder, Start, TypeOK, Events
    <2>5. attempt \in Nat /\ phase' # "RUNNING"
        BY <2>2 DEF TypeOK, Ended
    <2> HIDE DEF new
    <2>6. \A e, t \in sent' : e.attempt = t.attempt /\ IsTerminal(t) =>
             EventOrder(e) <= EventOrder(t) /\ (IsTerminal(e) => e = t)
      <3> SUFFICES ASSUME NEW e \in sent', NEW t \in sent',
                          e.attempt = t.attempt, IsTerminal(t)
                   PROVE  EventOrder(e) <= EventOrder(t) /\ (IsTerminal(e) => e = t)
          OBVIOUS
      <3>1. t \in sent
          BY <2>2, <2>3
      <3>2. CASE e = new
        <4>1. t = f
            BY <3>1, <3>2, <2>0, <2>3 DEF EmittedOK
        <4> QED
            BY <3>2, <4>1, <2>3, <2>4
      <3>3. CASE e # new
          BY <3>1, <3>3, <2>2 DEF EmittedOK
      <3> QED
          BY <3>2, <3>3
    <2>7. \A e \in sent' : e.attempt <= attempt'
        BY <2>2, <2>3, <2>5 DEF EmittedOK
    <2> QED
        BY <2>5, <2>6, <2>7 DEF EmittedOK, IsTerminal, EventOrder
  <1>4. CASE Redrive
    <2> DEFINE new == [status |-> "RUNNING", stop |-> NoStop, attempt |-> attempt + 1]
    <2>1. sent' = sent \cup {new} /\ attempt' = attempt + 1 /\ attempt \in Nat
        BY <1>4 DEF Redrive, Emit, TypeOK
    <2>2. ~IsTerminal(new) /\ new.attempt = attempt + 1 /\ new.stop = NoStop
        BY DEF IsTerminal, Terminal, Ended
    <2> HIDE DEF new
    <2>3. \A e \in sent : e.attempt \in Nat /\ e.attempt <= attempt
        BY DEF EmittedOK, TypeOK, Events
    <2>4. \A e \in sent' : e.attempt <= attempt'
        BY <2>1, <2>2, <2>3
    <2>5. \A e \in sent' : e.attempt = attempt' => e.stop = NoStop /\ ~IsTerminal(e)
        BY <2>1, <2>2, <2>3
    <2>6. \A e, t \in sent' : e.attempt = t.attempt /\ IsTerminal(t) =>
             EventOrder(e) <= EventOrder(t) /\ (IsTerminal(e) => e = t)
      <3> SUFFICES ASSUME NEW e \in sent', NEW t \in sent',
                          e.attempt = t.attempt, IsTerminal(t)
                   PROVE  EventOrder(e) <= EventOrder(t) /\ (IsTerminal(e) => e = t)
          OBVIOUS
      <3>1. t \in sent
          BY <2>1, <2>2
      <3>2. e \in sent
          BY <3>1, <2>1, <2>2, <2>3
      <3> QED
          BY <3>1, <3>2 DEF EmittedOK
    <2> QED
        BY <2>4, <2>5, <2>6 DEF EmittedOK, IsTerminal, EventOrder
  <1> QED
      BY <1>1, <1>2, <1>3, <1>4
      DEF Next, Execution, Tick, Register, ReadRegistration, PutStatus, Abandon,
          execution, vars

\* What a conditional write that is decided does to the item: it stays as good
\* as every event decided before, and is as good as this one.
LEMMA LatestStep == StatusInv /\ [Next]_vars => ItemIsLatest'
  <1> SUFFICES ASSUME StatusInv, [Next]_vars
               PROVE  ItemIsLatest'
      OBVIOUS
  <1>1. CASE UNCHANGED <<item, tried>>
      BY <1>1 DEF StatusInv, ItemIsLatest, EventOrder, IsTerminal
  <1>2. ASSUME NEW w \in Workers, PutStatus(w)
        PROVE  ItemIsLatest'
    <2>1. PICK x \in work[w] : /\ item' = IF \A old \in item : Supersedes(x.event, old.event)
                                          THEN {x} ELSE item
                               /\ tried' = tried \cup {x.event}
        BY <1>2 DEF PutStatus
    <2>2. x.event \in sent /\ tried \subseteq sent /\ sent \subseteq Events
        BY DEF StatusInv, CarriedOK, TypeOK
    <2>3. \A e \in sent : e.attempt \in Nat /\ EventOrder(e) \in Nat
        BY <2>2, OrderIsNat DEF Events
    <2>4. CASE \A old \in item : Supersedes(x.event, old.event)
      <3>1. item' = {x}
          BY <2>1, <2>4
      <3>2. \A e \in tried : /\ x.event.attempt >= e.attempt
                             /\ x.event.attempt = e.attempt =>
                                  /\ EventOrder(e) <= EventOrder(x.event)
                                  /\ IsTerminal(e) => x.event = e
        <4> SUFFICES ASSUME NEW e \in tried
                     PROVE  /\ x.event.attempt >= e.attempt
                            /\ x.event.attempt = e.attempt =>
                                 /\ EventOrder(e) <= EventOrder(x.event)
                                 /\ IsTerminal(e) => x.event = e
            OBVIOUS
        <4>1. PICK i \in item : /\ i.event.attempt >= e.attempt
                                /\ i.event.attempt = e.attempt =>
                                     /\ EventOrder(e) <= EventOrder(i.event)
                                     /\ IsTerminal(e) => i.event = e
            BY DEF StatusInv, ItemIsLatest
        <4>2. i.event \in sent
            BY <2>2 DEF StatusInv, CarriedOK
        <4>3. Supersedes(x.event, i.event)
            BY <2>4
        <4>4. x.event.attempt >= e.attempt
            BY <4>1, <4>2, <4>3, <2>2, <2>3 DEF Supersedes
        <4>5. ASSUME x.event.attempt = e.attempt
              PROVE  EventOrder(e) <= EventOrder(x.event)
            BY <4>1, <4>2, <4>3, <4>5, <2>2, <2>3 DEF Supersedes
        <4>6. ASSUME x.event.attempt = e.attempt, IsTerminal(e)
              PROVE  x.event = e
          <5>1. i.event.attempt = e.attempt
              BY <4>1, <4>2, <4>3, <4>6, <2>2, <2>3 DEF Supersedes
          <5>2. i.event = e
              BY <4>1, <4>6, <5>1
          <5>3. IsTerminal(x.event)
              BY <4>3, <4>6, <5>2, <2>2, <2>3 DEF Supersedes
          <5> QED
              BY <4>6, <5>3, <2>2 DEF StatusInv, EmittedOK
        <4> QED
            BY <4>4, <4>5, <4>6
      <3>3. \A e \in tried' : /\ x.event.attempt >= e.attempt
                              /\ x.event.attempt = e.attempt =>
                                   /\ EventOrder(e) <= EventOrder(x.event)
                                   /\ IsTerminal(e) => x.event = e
          BY <2>1, <2>2, <2>3, <3>2
      <3> QED
          BY <3>1, <3>3 DEF ItemIsLatest, EventOrder, IsTerminal
    <2>5. CASE ~(\A old \in item : Supersedes(x.event, old.event))
      <3>1. item' = item
          BY <2>1, <2>5
      <3>2. PICK i \in item : ~Supersedes(x.event, i.event)
          BY <2>5
      <3>3. i.event \in sent
          BY <2>2 DEF StatusInv, CarriedOK
      <3>4. i.event.attempt >= x.event.attempt
          BY <3>2, <3>3, <2>2, <2>3 DEF Supersedes
      <3>5. ASSUME i.event.attempt = x.event.attempt
            PROVE  /\ EventOrder(x.event) <= EventOrder(i.event)
                   /\ IsTerminal(x.event) => i.event = x.event
        <4>1. IsTerminal(i.event) => EventOrder(x.event) <= EventOrder(i.event)
            BY <3>3, <3>5, <2>2 DEF StatusInv, EmittedOK
        <4>2. IsTerminal(x.event) => EventOrder(i.event) <= EventOrder(x.event)
            BY <3>3, <3>5, <2>2 DEF StatusInv, EmittedOK
        <4>3. EventOrder(x.event) <= EventOrder(i.event)
            BY <3>2, <3>3, <3>5, <4>1, <2>2, <2>3 DEF Supersedes
        <4>4. ASSUME IsTerminal(x.event)
              PROVE  IsTerminal(i.event)
            BY <3>2, <3>3, <3>5, <4>2, <4>3, <4>4, <2>2, <2>3 DEF Supersedes
        <4>5. ASSUME IsTerminal(x.event)
              PROVE  i.event = x.event
            BY <3>3, <3>5, <4>4, <4>5, <2>2 DEF StatusInv, EmittedOK
        <4> QED
            BY <4>3, <4>5
      <3>6. \A e \in tried' : \E j \in item :
               /\ j.event.attempt >= e.attempt
               /\ j.event.attempt = e.attempt =>
                    /\ EventOrder(e) <= EventOrder(j.event)
                    /\ IsTerminal(e) => j.event = e
          BY <2>1, <3>4, <3>5 DEF StatusInv, ItemIsLatest
      <3> QED
          BY <3>1, <3>6 DEF ItemIsLatest, EventOrder, IsTerminal
    <2> QED
        BY <2>4, <2>5
  <1> QED
      BY <1>1, <1>2 DEF Next, Execution, Register, ReadRegistration, Abandon, vars

\* The inductive invariant.
LEMMA StatusInductive ==
    /\ Init => StatusInv
    /\ StatusInv /\ [Next]_vars => StatusInv'
  <1>1. ASSUME Init
        PROVE  StatusInv
    <2> DEFINE e0 == [status |-> "RUNNING", stop |-> NoStop, attempt |-> 0]
    <2>1. sent = {e0} /\ e0 \in Events /\ ~IsTerminal(e0)
        BY <1>1 DEF Init, Events, Statuses, IsTerminal, Terminal, Ended
    <2>2. TypeOK
        BY <1>1, <2>1 DEF Init, TypeOK, AtMostOne, Start
    <2>3. CarriedOK /\ ItemIsLatest
        BY <1>1 DEF Init, CarriedOK, ItemIsLatest
    <2>4. EmittedOK
        BY <1>1, <2>1 DEF Init, EmittedOK
    <2> QED
        BY <2>2, <2>3, <2>4 DEF StatusInv
  <1>2. StatusInv /\ [Next]_vars => StatusInv'
      BY TypeStep, EmittedStep, LatestStep DEF StatusInv
  <1> QED
      BY <1>1, <1>2

\* The tables and the invocations hold what TypeOK says.
THEOREM StatusTypeCorrect == Spec => []TypeOK
  <1>1. StatusInv => TypeOK
      BY DEF StatusInv
  <1> QED
      BY <1>1, StatusInductive, PTL DEF Spec

\* STATUS_CONDITION keeps the item at the latest of the events that were taken
\* in, in whatever order and however often they were delivered.
THEOREM ItemStaysLatest == Spec => []ItemIsLatest
  <1>1. StatusInv => ItemIsLatest
      BY DEF StatusInv
  <1> QED
      BY <1>1, StatusInductive, PTL DEF Spec

\* The only step that changes the item is a write that the condition let
\* through.
LEMMA ItemChanges ==
    ASSUME StatusInv, [Next]_vars, NEW new \in item', new \notin item
    PROVE  /\ new.event \in sent /\ item' = {new}
           /\ \A old \in item : Supersedes(new.event, old.event)
  <1>1. ASSUME NEW w \in Workers, PutStatus(w)
        PROVE  /\ new.event \in sent /\ item' = {new}
               /\ \A old \in item : Supersedes(new.event, old.event)
    <2>1. PICK x \in work[w] : item' = IF \A old \in item : Supersedes(x.event, old.event)
                                       THEN {x} ELSE item
        BY <1>1 DEF PutStatus
    <2>2. \A old \in item : Supersedes(x.event, old.event)
        BY <2>1
    <2>3. item' = {x}
        BY <2>1, <2>2
    <2>4. new = x
        BY <2>3
    <2> QED
        BY <2>2, <2>3, <2>4 DEF StatusInv, CarriedOK
  <1>2. item' # item
      OBVIOUS
  <1> QED
      BY <1>1, <1>2 DEF Next, Execution, Register, ReadRegistration, Abandon, vars

\* A write that the condition lets through is of an event that was not taken
\* in, and does not touch the end of the same attempt.
LEMMA WriteStep ==
    ASSUME StatusInv, [Next]_vars
    PROVE  /\ \A new \in item' : new \notin item => new.event \notin tried
           /\ \A old \in item, new \in item' :
                IsTerminal(old.event) /\ new # old =>
                    new.event.attempt > old.event.attempt
  <1>0. \A e \in sent : e.attempt \in Nat /\ EventOrder(e) \in Nat
      BY OrderIsNat DEF StatusInv, TypeOK, Events
  <1>1. ASSUME NEW new \in item', new \notin item, new.event \in tried
        PROVE  FALSE
    <2>1. PICK i \in item : /\ i.event.attempt >= new.event.attempt
                            /\ i.event.attempt = new.event.attempt =>
                                 /\ EventOrder(new.event) <= EventOrder(i.event)
                                 /\ IsTerminal(new.event) => i.event = new.event
        BY <1>1 DEF StatusInv, ItemIsLatest
    <2>2. Supersedes(new.event, i.event) /\ new.event \in sent
        BY <1>1, ItemChanges
    <2>3. i.event \in sent
        BY DEF StatusInv, CarriedOK, TypeOK
    <2>4. i.event.attempt = new.event.attempt
        BY <1>0, <2>1, <2>2, <2>3 DEF Supersedes
    <2>5. EventOrder(new.event) = EventOrder(i.event) /\ ~IsTerminal(i.event)
          /\ IsTerminal(new.event)
        BY <1>0, <2>1, <2>2, <2>3, <2>4 DEF Supersedes
    <2> QED
        BY <2>1, <2>4, <2>5
  <1>2. ASSUME NEW old \in item, NEW new \in item', IsTerminal(old.event), new # old
        PROVE  new.event.attempt > old.event.attempt
    <2>1. new \notin item
        BY <1>2 DEF StatusInv, TypeOK, AtMostOne
    <2>2. Supersedes(new.event, old.event) /\ new.event \in sent
        BY <2>1, ItemChanges
    <2>3. old.event \in sent
        BY DEF StatusInv, CarriedOK, TypeOK
    <2>4. ASSUME new.event.attempt = old.event.attempt
          PROVE  FALSE
      <3>1. IsTerminal(new.event)
          BY <1>0, <1>2, <2>2, <2>3, <2>4 DEF Supersedes
      <3>2. new.event = old.event
          BY <1>2, <2>2, <2>3, <2>4, <3>1 DEF StatusInv, EmittedOK
      <3> QED
          BY <1>0, <1>2, <2>2, <2>3, <3>2 DEF Supersedes
    <2> QED
        BY <1>0, <2>2, <2>3, <2>4 DEF Supersedes
  <1> QED
      BY <1>1, <1>2

\* Redelivery writes nothing.
THEOREM RedeliveryWritesNothing == Spec => WrittenOnce
  <1>1. StatusInv /\ [Next]_vars =>
           [\A new \in item' : new \notin item => new.event \notin tried]_vars
      BY WriteStep
  <1> QED
      BY <1>1, StatusInductive, PTL DEF Spec, WrittenOnce

\* Only a later attempt replaces the end of an attempt.
THEOREM TerminalStays == Spec => TerminalIsFinalWithinAttempt
  <1>1. StatusInv /\ [Next]_vars =>
           [\A old \in item, new \in item' :
               IsTerminal(old.event) /\ new # old =>
                   new.event.attempt > old.event.attempt]_vars
      BY WriteStep
  <1> QED
      BY <1>1, StatusInductive, PTL DEF Spec, TerminalIsFinalWithinAttempt

-----------------------------------------------------------------------------
\* The signals whose flush is behind a container at this stage.
Passed(s) == {t \in {"traces", "metrics", "logs"} :
                 \/ s = "answering"
                 \/ s = "frozen" /\ t # "traces"
                 \/ s = "logs" /\ t # "logs"
                 \/ s = "metrics" /\ t = "traces"}

FlushedOK == \A w \in Workers : queued[w] \cap Passed(stage[w]) \subseteq reported[w]

TelemetryInv == workload \in Workloads /\ Telemetry!TypeOK /\ FlushedOK

\* The steps of one container.
Contained(w) ==
    \/ Observe(w) \/ Dismiss(w) \/ Dismissed(w) \/ Put(w) \/ FailPut(w)
    \/ Reject(w) \/ Panic(w) \/ Flushes(w) \/ Reclaim(w)

\* A step of the observed Lambda is one of a container, or leaves them alone.
LEMMA ObservedCases ==
    ASSUME workload \in Workloads, [ObservedNext]_observedVars
    PROVE  /\ workload' = workload
           /\ \/ (Execution \/ Register \/ UNCHANGED vars) /\ UNCHANGED telemetry
              \/ \E w \in Workers : Contained(w)
  <1>1. workload.crew \subseteq Workers
      BY ObservedStatusAssumption
  <1>2. CASE UNCHANGED observedVars
      BY <1>2 DEF observedVars, telemetry
  <1>3. CASE ObservedNext
    <2>1. CASE \E w \in workload.crew : Contained(w)
        BY <1>1, <1>3, <2>1 DEF ObservedNext
    <2>2. QED
        BY <1>3, <2>1 DEF ObservedNext, Contained
  <1>4. QED
      BY <1>2, <1>3

\* What a container does to its own stage and queues, and to nobody else's.
LEMMA ContainedStep ==
    ASSUME workload \in Workloads, Telemetry!TypeOK, FlushedOK, workload' = workload,
           NEW w \in Workers, Contained(w)
    PROVE  /\ \E s \in Telemetry!Stages : stage' = [stage EXCEPT ![w] = s]
           /\ \E q \in SUBSET workload.signals : queued' = [queued EXCEPT ![w] = q]
           /\ \E r \in SUBSET workload.signals : reported' = [reported EXCEPT ![w] = r]
           /\ queued'[w] \cap Passed(stage'[w]) \subseteq reported'[w]
  <1> USE DEF Telemetry!TypeOK, Telemetry!Enters, Telemetry!Records, Telemetry!Stages,
              Telemetry!Waiting, Telemetry!Signals, Telemetry!Startup
  <1>0. /\ workload.signals \subseteq {"traces", "metrics", "logs"}
        /\ queued[w] \subseteq workload.signals /\ reported[w] \subseteq workload.signals
        /\ stage[w] \in Telemetry!Stages
        /\ queued[w] \cap Passed(stage[w]) \subseteq reported[w]
        /\ queued = [queued EXCEPT ![w] = queued[w]]
        /\ reported = [reported EXCEPT ![w] = reported[w]]
        /\ stage = [stage EXCEPT ![w] = stage[w]]
      BY ObservedStatusAssumption DEF FlushedOK
  <1>1. CASE Telemetry!Start(w)
      BY <1>0, <1>1 DEF Telemetry!Start, Passed
  <1>2. CASE Telemetry!Finish(w)
      BY <1>0, <1>2 DEF Telemetry!Finish, Passed
  <1>3. CASE Telemetry!CloseSpan(w)
      BY <1>0, <1>3 DEF Telemetry!CloseSpan, Passed
  <1>4. CASE Telemetry!Flush(w)
    <2> DEFINE S == stage[w]
    <2>1. S \in {"traces", "metrics", "logs"} /\ stage' = [stage EXCEPT ![w] = Telemetry!Following(S)]
        BY <1>4 DEF Telemetry!Flush
    <2>2. /\ Telemetry!Following(S) \in Telemetry!Stages
          /\ Passed(Telemetry!Following(S)) \subseteq Passed(S) \cup {S}
        BY <2>1 DEF Telemetry!Following, Passed
    <2>3. stage'[w] = Telemetry!Following(S)
        BY <2>1
    <2>4. CASE /\ queued' = [queued EXCEPT ![w] = @ \ {S}]
               /\ reported' = [reported EXCEPT ![w] = @ \ {S}]
      <3>1. queued'[w] = queued[w] \ {S} /\ reported'[w] = reported[w] \ {S}
          BY <2>4
      <3>2. queued'[w] \cap Passed(stage'[w]) \subseteq reported'[w]
          BY <1>0, <2>2, <2>3, <3>1
      <3>3. QED
          BY <1>0, <2>1, <2>2, <2>4, <3>2
    <2>5. CASE /\ S \in workload.signals
               /\ queued' \in {queued, [queued EXCEPT ![w] = @ \ {S}]}
               /\ reported' = [reported EXCEPT ![w] = @ \cup {S}]
      <3>1. queued'[w] \subseteq queued[w] /\ reported'[w] = reported[w] \cup {S}
          BY <2>5
      <3>2. queued'[w] \cap Passed(stage'[w]) \subseteq reported'[w]
          BY <1>0, <2>2, <2>3, <3>1
      <3>3. \E q \in SUBSET workload.signals : queued' = [queued EXCEPT ![w] = q]
          BY <1>0, <2>5
      <3>4. stage' = [stage EXCEPT ![w] = Telemetry!Following(S)]
          BY <2>1
      <3>5. \E r \in SUBSET workload.signals : reported' = [reported EXCEPT ![w] = r]
        <4>1. reported[w] \cup {S} \in SUBSET workload.signals
            BY <1>0, <2>5
        <4>2. WITNESS reported[w] \cup {S} \in SUBSET workload.signals
        <4>3. QED
            BY <2>5
      <3>6. QED
          BY <2>2, <3>2, <3>3, <3>4, <3>5
    <2>6. QED
        BY <1>4, <2>4, <2>5 DEF Telemetry!Flush
  <1>5. CASE Telemetry!Export(w)
    <2>1. PICK s \in queued[w] : queued' = [queued EXCEPT ![w] = @ \ {s}]
        BY <1>5 DEF Telemetry!Export
    <2>2. stage' = stage /\ reported' = reported
        BY <1>5 DEF Telemetry!Export
    <2>3. queued'[w] = queued[w] \ {s}
        BY <2>1
    <2>4. QED
        BY <1>0, <2>1, <2>2, <2>3
  <1>6. CASE workload.signals # {} /\ Telemetry!Replace(w)
      BY <1>0, <1>6 DEF Telemetry!Replace, Passed
  <1>7. CASE Telemetry!Reject(w)
      BY <1>0, <1>7 DEF Telemetry!Reject, Passed
  <1>8. CASE Telemetry!Panic(w)
      BY <1>0, <1>8 DEF Telemetry!Panic, Passed
  <1>9. CASE Telemetry!Answer(w)
      BY <1>0, <1>9 DEF Telemetry!Answer, Passed
  <1>10. QED
      BY <1>1, <1>2, <1>3, <1>4, <1>5, <1>6, <1>7, <1>8, <1>9
      DEF Contained, Observe, Dismiss, Dismissed, Put, FailPut, Reject, Panic, Flushes, Reclaim

\* The invariant holds at the start and is kept.
LEMMA TelemetryInvHolds == ObservedSpec => []TelemetryInv
  <1>1. ObservedInit => TelemetryInv
      BY ObservedStatusAssumption
      DEF ObservedInit, TelemetryInv, FlushedOK, Passed, Telemetry!Init, Telemetry!TypeOK,
          Telemetry!Startup, Telemetry!Stages, Telemetry!Waiting, Telemetry!Signals
  <1>2. TelemetryInv /\ [ObservedNext]_observedVars => TelemetryInv'
    <2> SUFFICES ASSUME TelemetryInv, [ObservedNext]_observedVars PROVE TelemetryInv'
        OBVIOUS
    <2>1. workload' = workload
        BY ObservedCases DEF TelemetryInv
    <2>2. CASE UNCHANGED telemetry
        BY <2>1, <2>2 DEF TelemetryInv, FlushedOK, telemetry, Telemetry!TypeOK
    <2>3. CASE \E w \in Workers : Contained(w)
      <3>1. PICK w \in Workers : Contained(w)
          BY <2>3
      <3>0. /\ \E s \in Telemetry!Stages : stage' = [stage EXCEPT ![w] = s]
            /\ \E q \in SUBSET workload.signals : queued' = [queued EXCEPT ![w] = q]
            /\ \E r \in SUBSET workload.signals : reported' = [reported EXCEPT ![w] = r]
            /\ queued'[w] \cap Passed(stage'[w]) \subseteq reported'[w]
          BY <2>1, <3>1, ContainedStep DEF TelemetryInv
      <3>2. PICK s \in Telemetry!Stages, q \in SUBSET workload.signals,
                 r \in SUBSET workload.signals :
                 /\ stage' = [stage EXCEPT ![w] = s] /\ queued' = [queued EXCEPT ![w] = q]
                 /\ reported' = [reported EXCEPT ![w] = r]
          BY <3>0
      <3>3. queued'[w] \cap Passed(stage'[w]) \subseteq reported'[w]
          BY <3>0
      <3>4. Telemetry!TypeOK'
          BY <2>1, <3>2 DEF TelemetryInv, Telemetry!TypeOK
      <3>5. FlushedOK'
        <4> SUFFICES ASSUME NEW v \in Workers
                     PROVE  (queued[v] \cap Passed(stage[v]) \subseteq reported[v])'
            BY DEF FlushedOK
        <4>1. CASE v = w
            BY <4>1, <3>3
        <4>2. CASE v # w
            BY <4>2, <3>2 DEF TelemetryInv, FlushedOK, Telemetry!TypeOK
        <4>3. QED
            BY <4>1, <4>2
      <3>6. QED
          BY <2>1, <3>4, <3>5 DEF TelemetryInv
    <2>4. QED
        BY <2>2, <2>3, ObservedCases DEF TelemetryInv
  <1>3. QED
      BY <1>1, <1>2, PTL DEF ObservedSpec
-----------------------------------------------------------------------------
\* Of what was queued before the service returns nothing is still queued but what
\* the flush of that signal reported as not sent (event.rs:122, otel.rs:22), and
\* a container freezes with no more than that and the runtime's own span.
THEOREM NothingIsHeldBack == ObservedSpec => []NothingHeldBack
  <1>1. TelemetryInv => NothingHeldBack
    <2> SUFFICES ASSUME TelemetryInv, NEW w \in Workers
                 PROVE  /\ stage[w] = "answering" => queued[w] \subseteq reported[w]
                        /\ stage[w] = "frozen" => queued[w] \subseteq reported[w] \cup {"traces"}
        BY DEF NothingHeldBack
    <2>1. queued[w] \subseteq {"traces", "metrics", "logs"}
        BY ObservedStatusAssumption DEF TelemetryInv, Telemetry!TypeOK, Telemetry!Signals
    <2>2. queued[w] \cap Passed(stage[w]) \subseteq reported[w]
        BY DEF TelemetryInv, FlushedOK
    <2>3. QED
        BY <2>1, <2>2 DEF Passed
  <1>2. QED
      BY <1>1, TelemetryInvHolds, PTL

\* Observing a Lambda changes nothing of what it does: the observed
\* pipeline-status implements record (main.rs:19, event.rs:86).
THEOREM ObservingIsTransparent == ObservedSpec => Spec
  <1>1. ObservedInit => Init
      BY DEF ObservedInit
  <1>2. TelemetryInv /\ [ObservedNext]_observedVars => [Next]_vars
    <2> SUFFICES ASSUME TelemetryInv, [ObservedNext]_observedVars PROVE [Next]_vars
        OBVIOUS
    <2>1. CASE Execution \/ Register \/ UNCHANGED vars
        BY <2>1 DEF Next
    <2>2. CASE \E w \in Workers : Contained(w)
        BY <2>2 DEF Contained, Observe, Dismiss, Dismissed, Put, FailPut, Reject, Panic,
                    Flushes, Reclaim, Next
    <2>3. QED
        BY <2>1, <2>2, ObservedCases DEF TelemetryInv
  <1>3. QED
      BY <1>1, <1>2, TelemetryInvHolds, PTL DEF ObservedSpec, Spec

\* The types of both parts.
THEOREM ObservedTypeCorrect == ObservedSpec => []ObservedTypeOK
  <1>1. TypeOK /\ TelemetryInv => ObservedTypeOK
      BY DEF TelemetryInv, ObservedTypeOK
  <1>2. QED
      BY <1>1, TelemetryInvHolds, ObservingIsTransparent, StatusTypeCorrect, PTL

\* Of the observed Lambda, too, the item is that of the latest event taken in.
THEOREM ObservedItemStaysLatest == ObservedSpec => []ItemIsLatest
  BY ObservingIsTransparent, ItemStaysLatest
=============================================================================
