--------------------------- MODULE MCIngestQueue ---------------------------
(* Model-checking instances of IngestQueue.  The workers are alike, and so *)
(* are the messages that are not poisoned.                                 *)
EXTENDS IngestQueue

Symmetry == Permutations(Worker) \cup Permutations(Message \ Poison)
=============================================================================
