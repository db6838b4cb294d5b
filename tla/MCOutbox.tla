------------------------------ MODULE MCOutbox ------------------------------
(* Model-checking instances of Outbox: ids, events and dispatchers are     *)
(* interchangeable model values.                                           *)
EXTENDS Outbox, TLC

Symmetry == Permutations(Batch) \cup Permutations(Event)
              \cup Permutations(Dispatcher)

\* Bounds: one batch at most has several events, and nothing is explored past
\* a purge of dead letters.
OneLargeBatch ==
  \A b1, b2 \in Batch :
    Cardinality(enqueued[b1]) > 1 /\ Cardinality(enqueued[b2]) > 1 => b1 = b2
BeforePurge == purged = {}
=============================================================================
