------------------------- MODULE MCOracleConsensus --------------------------
(* Instances of OracleConsensus. *)
EXTENDS OracleConsensus, TLC

CONSTANTS n1, n2, n3, n4, a, b

Equal == [n \in Node |-> 1]
\* n1 counts for two: it makes a quorum with any one of the others.
Weighted == [n \in Node |-> IF n = n1 THEN 2 ELSE 1]
=============================================================================
