--------------------------- MODULE MCOutboxWorker ---------------------------
(* Instances of OutboxWorker for TLC.                                      *)
EXTENDS OutboxWorker, TLC

\* Workers are interchangeable where only safety is checked.
Symmetry == Permutations(Workers) \cup Permutations(Versions)
=============================================================================
