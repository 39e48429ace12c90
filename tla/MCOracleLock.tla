---------------------------- MODULE MCOracleLock ----------------------------
(* Instances of OracleLock: two tasks, each with a manager of its own. *)
EXTENDS OracleLock, TLC

CONSTANTS t1, t2, m1, m2, p1, p2, kp, kb

MCTask == {t1, t2}
MCManager == {m1, m2}
MCManagerOf == (t1 :> m1) @@ (t2 :> m2)
\* Both managers in one process, as in OracleService, or one process each.
OneProcess == (m1 :> p1) @@ (m2 :> p1)
TwoProcesses == (m1 :> p1) @@ (m2 :> p2)
MCScopeOf == (kp :> "project") @@ (kb :> "batch")
BatchOnly == kb :> "batch"
=============================================================================
