-------------------------- MODULE MCBatchSubmitter --------------------------
(* Instances of BatchSubmitter. *)
EXTENDS BatchSubmitter

CONSTANTS t1, t2, a1

OneAccount == [t \in Tx |-> a1]
=============================================================================
