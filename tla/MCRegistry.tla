----------------------------- MODULE MCRegistry -----------------------------
(* Instances of Registry for TLC.                                          *)
EXTENDS Registry, TLC

\* Versions are interchangeable, and so are sessions.
Symmetry == Permutations(Versions) \cup Permutations(Sessions)
=============================================================================
