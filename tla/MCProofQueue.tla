---------------------------- MODULE MCProofQueue ----------------------------
(* Instances of ProofQueue. *)
EXTENDS ProofQueue, TLC

CONSTANTS t1, t2, w1, w2, p1, p2, k1

OneKey == [t \in Task |-> k1]
NoKey == [t \in Task |-> None]
OneEach == [w \in Worker |-> IF w = w1 THEN p1 ELSE p2]
Together == [w \in Worker |-> p1]

\* Tasks of one key are alike, and so are administrators and, with their
\* workers, processes.
Swapped == (w1 :> w2) @@ (w2 :> w1) @@ (p1 :> p2) @@ (p2 :> p1)
Alike == Permutations(Task) \cup Permutations(Admin) \cup {Swapped}
=============================================================================
