---------------------------- MODULE MCWriteExecution ----------------------------
(* Small instances of WriteExecution: one read before one or two writes.     *)
EXTENDS WriteExecution, TLC

CONSTANTS p1, p2, r1, w1, w2, s1

Place == (r1 :> 1) @@ (w1 :> 2) @@ (w2 :> 3)
Bundle == [x \in Intents |-> Place[x]]

OwnOrderOnly == [f \in Fingerprints |-> {f}]
OrAStranger == [f \in Fingerprints |-> {f, s1}]

Symmetry == Permutations({p1, p2})
=================================================================================
