-------------------------- MODULE MCIdempotencyLedger --------------------------
(* Instances of IdempotencyLedger for TLC. *)
EXTENDS IdempotencyLedger, TLC

CONSTANTS p1, p2, p3, f1, f2

Symmetry == Permutations(Procs) \cup Permutations(Fingerprints)
================================================================================
