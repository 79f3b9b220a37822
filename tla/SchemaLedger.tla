---------------------------- MODULE SchemaLedger ----------------------------
(***************************************************************************)
(* What db-migrate promises about one project's database: a ledger of the  *)
(* migrations applied (schema_migrations) that moves in step with the      *)
(* schema.  No processes, no lock, no failures.                            *)
(***************************************************************************)
EXTENDS Integers

CONSTANT Files
VARIABLES recorded,  \* the migrations that have a row
          effect,    \* how many times each one's change is in the schema
          vouched    \* those whose presence somebody asserted
vars == <<recorded, effect, vouched>>

Init ==
    /\ recorded \subseteq Files /\ vouched \subseteq recorded
    /\ effect = [f \in Files |-> IF f \in recorded \ vouched THEN 1 ELSE 0]

Apply(f) ==
    /\ f \notin recorded
    /\ recorded' = recorded \cup {f}
    /\ effect' = [effect EXCEPT ![f] = @ + 1]
    /\ UNCHANGED vouched

Revert(f) ==
    /\ f \in recorded
    /\ recorded' = recorded \ {f}
    /\ effect' = [effect EXCEPT ![f] = @ - 1]
    /\ UNCHANGED vouched

Vouch(f) ==
    /\ f \notin recorded
    /\ recorded' = recorded \cup {f} /\ vouched' = vouched \cup {f}
    /\ UNCHANGED effect

Wipe ==
    /\ recorded' = {} /\ vouched' = {}
    /\ effect' = [f \in Files |-> 0]

\* A dump of the changes of `there`, with or without the rows for them, goes
\* into an empty database.
Load(there) ==
    /\ recorded = {} /\ effect = [f \in Files |-> 0]
    /\ effect' = [f \in Files |-> IF f \in there THEN 1 ELSE 0]
    /\ \/ recorded' = there /\ UNCHANGED vouched
       \/ vouched' = vouched \cup there /\ UNCHANGED recorded

Next ==
    \/ \E f \in Files : Apply(f) \/ Revert(f) \/ Vouch(f)
    \/ Wipe
    \/ \E there \in SUBSET Files : Load(there)

Spec == Init /\ [][Next]_vars
=============================================================================
