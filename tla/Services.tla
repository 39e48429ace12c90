------------------------------ MODULE Services ------------------------------
(***************************************************************************)
(* Services of the backend that do not call each other: the compile        *)
(* service, the idempotency middleware, the levels of the cache and the    *)
(* older oracle queue, each in its own module.  A behaviour is the steps   *)
(* of one of them; the others stay as they start.                          *)
(***************************************************************************)
EXTENDS Integers, FiniteSets

CONSTANTS Job, Source, SourceOf, MaxWorkers, MaxDeaths,        \* compile
          Request, MaxFlips, Empty, Sentinel,                  \* idempotency
          Process, Reader, Purger, ProcOf, MaxVersion, MaxPurges,  \* cache
          Task, High, Worker, Sweeper, MaxRetries, LiveCanAge, MaxFails,
          MaxMoves,                                            \* oracle queue
          MaxLapses, MaxCrashes, Nil                           \* several

VARIABLES
  component,  \* the one that runs
  queue, active, jobPc, mode, result, worker, posts, idle, made, dead, leaving,
  lock, artifacts, built, lockLapses,                          \* compile
  rec, current, requestPc, seen, overran, flips, recordLapses,
  crashes,                                                     \* idempotency
  db, l1, timed, l2, inflight, rpc, rval, tags, index, localTag, ppc, batch,
  found, floor, channel, base, purges,                         \* cache
  pending, processing, data, dlq, old, late, taskPc, subject, from, goal, copy,
  ended, fails, misjudged, moves                               \* oracle queue

Jobs == INSTANCE CompileService WITH
  pc <- jobPc, lapses <- lockLapses, None <- Nil
Keys == INSTANCE IdempotencyKey WITH
  pc <- requestPc, lapses <- recordLapses, InFlight <- Sentinel
Cache == INSTANCE CacheLevels WITH None <- Nil
Tasks == INSTANCE OracleQueue WITH pc <- taskPc, None <- Nil

-----------------------------------------------------------------------------
(* The constants *)

\* Every job has a source, and the pool has threads.
JobsAssumption ==
  /\ SourceOf \in [Job -> Source] /\ Nil \notin Job
  /\ IsFiniteSet(Job) /\ MaxWorkers \in Nat \ {0}

\* A record that is not a response is nothing or the sentinel.
KeysAssumption ==
  Empty \notin Request /\ Sentinel \notin Request /\ Empty # Sentinel

CacheAssumption ==
  /\ ProcOf \in [Reader \cup Purger -> Process]
  /\ Nil \notin Reader /\ MaxVersion \in Nat /\ MaxPurges \in Nat

TasksAssumption ==
  /\ Nil \notin Task /\ Worker \cap Sweeper = {}
  /\ IsFiniteSet(Worker) /\ MaxRetries \in Nat

ASSUME ServicesAssumption ==
  JobsAssumption /\ KeysAssumption /\ CacheAssumption /\ TasksAssumption

-----------------------------------------------------------------------------
(* The service that runs *)

Service == {"compile jobs", "idempotent requests", "cache levels", "oracle tasks"}

compileVars ==
  <<queue, active, jobPc, mode, result, worker, posts, idle, made, dead, leaving,
    lock, artifacts, built, lockLapses>>
requestVars ==
  <<rec, current, requestPc, seen, overran, flips, recordLapses, crashes>>
cacheVars ==
  <<db, l1, timed, l2, inflight, rpc, rval, tags, index, localTag, ppc, batch,
    found, floor, channel, base, purges>>
taskVars ==
  <<pending, processing, data, dlq, old, late, taskPc, subject, from, goal, copy,
    ended, fails, misjudged, moves>>
serviceVars == <<compileVars, requestVars, cacheVars, taskVars>>

ServicesStart == Jobs!Init /\ Keys!Init /\ Cache!Init /\ Tasks!Init

ServicesInit == component \in Service /\ ServicesStart

ServicesNext ==
  /\ \/ /\ component = "compile jobs" /\ Jobs!Next
        /\ UNCHANGED <<requestVars, cacheVars, taskVars>>
     \/ /\ component = "idempotent requests" /\ Keys!Next
        /\ UNCHANGED <<compileVars, cacheVars, taskVars>>
     \/ /\ component = "cache levels" /\ Cache!Next
        /\ UNCHANGED <<compileVars, requestVars, taskVars>>
     \/ /\ component = "oracle tasks" /\ Tasks!Next
        /\ UNCHANGED <<compileVars, requestVars, cacheVars>>
  /\ UNCHANGED component

ServicesSpec == ServicesInit /\ [][ServicesNext]_<<component, serviceVars>>

-----------------------------------------------------------------------------
(* Properties *)

\* Whoever asks, dies, retries or comes late, nothing is done by two at a time,
\* done again or forgotten: a slot, a thread and a job of the compile service, a
\* request of one key, a fetch of one process, a task of the older queue.
DoneOnce ==
  /\ component = "compile jobs" =>
       /\ Jobs!SlotsExact /\ Jobs!PoolConserved
       /\ Jobs!LockExcludes /\ Jobs!RepeatedOnceAfterDeath
  /\ component = "idempotent requests" => Keys!OneSuccess
  /\ component = "cache levels" => Cache!SingleFlight
  /\ component = "oracle tasks" => Tasks!SinglePlace /\ Tasks!NoTaskLost

\* What is answered, replayed, kept in a cache or given up has the cause that it
\* claims: a build or a request that succeeded, a handler still at work, data
\* not purged, failures.
AnswersGenuine ==
  /\ component = "compile jobs" => Jobs!HitsWereBuilt
  /\ component = "idempotent requests" =>
       Keys!ReplayIsGenuine /\ Keys!SentinelHasRunner
  /\ component = "cache levels" => Cache!PurgeReachesOthers
  /\ component = "oracle tasks" => Tasks!DeadLetterJustified
=============================================================================
