--------------------------- MODULE CompileService ---------------------------
(***************************************************************************)
(* The compile service: the queue and its slots (compileQueued, pump), the *)
(* compile lock in Redis (executeUnderLock) and the pool of worker threads *)
(* (WorkerPool).                                                           *)
(*                                                                         *)
(* A job is a call of compileQueued().  A step is a stretch of code        *)
(* between two awaits.  Workers are numbered by workerIdSequence; 0 is no  *)
(* worker.  A source stands for the hash of code and dependencies.         *)
(***************************************************************************)
EXTENDS Integers, FiniteSets, Sequences

CONSTANTS Job,        \* calls of compileQueued
          Source,     \* hashes of sources
          SourceOf,   \* the source a job compiles
          MaxWorkers, \* MAX_WORKERS: slots, and threads in the pool
          MaxDeaths,  \* bound: worker threads that die
          MaxLapses,  \* bound: locks that expire under their holder
          None        \* no job

VARIABLES
  queue,     \* jobs waiting for a slot
  active,    \* slots taken
  pc,        \* how far a job has got
  mode,      \* how it runs: see Mode
  result,    \* what its build gave so far
  worker,    \* the thread it has been posted to
  posts,     \* times it has been posted to a thread
  idle,      \* the pool's stack of idle threads
  made,      \* threads made so far
  dead,      \* threads that have died
  leaving,   \* those of them whose exit is not reported yet
  lock,      \* Redis: the job that set the lock of a source
  artifacts, \* sources with a usable artifact in some level of the cache
  built,     \* history: sources some build has succeeded for
  lapses     \* locks that expired so far

jobVars == <<pc, mode, result, worker, posts>>
slotVars == <<queue, active>>
poolVars == <<idle, made, dead, leaving>>
vars == <<queue, active, pc, mode, result, worker, posts, idle, made, dead,
          leaving, lock, artifacts, built, lapses>>

\* "starting": compileOnce() has a slot and looks for an artifact; "locking":
\* waits for setNX; "sleeping": found the lock taken; "running": posted to a
\* thread; "unlocking": has its answer and deletes the lock; "settling":
\* persists its artifact; "done", "failed": the promise is settled.
Pc == {"new", "queued", "starting", "locking", "sleeping", "running",
       "unlocking", "settling", "done", "failed"}
\* "bare": Redis was in fallback mode; "locked": holds the lock; "late":
\* slept and goes on without it; "retry": the second run after a failure.
Mode == {"none", "bare", "locked", "late", "retry"}
Result == {"none", "cached", "built", "rejected", "error", "unprepared"}
Settled == {"done", "failed"}

\* compileOnce() has begun and has not settled.
InFlight == {j \in Job : pc[j] \notin {"new", "queued"} \cup Settled}

Init ==
  /\ queue = <<>> /\ active = 0
  /\ pc = [j \in Job |-> "new"] /\ mode = [j \in Job |-> "none"]
  /\ result = [j \in Job |-> "none"]
  /\ worker = [j \in Job |-> 0] /\ posts = [j \in Job |-> 0]
  /\ idle = [i \in 1..MaxWorkers |-> i] /\ made = MaxWorkers
  /\ dead = {} /\ leaving = {}
  /\ lock = [s \in Source |-> None]
  /\ artifacts = {} /\ built = {} /\ lapses = 0

-----------------------------------------------------------------------------
(* The queue. *)

\* pump(): jobs get the free slots, the oldest first.  `now` is pc as the
\* caller leaves it.
Pump(q, a, now) ==
  LET free == MaxWorkers - a
      n == IF Len(q) < free THEN Len(q) ELSE free
  IN /\ queue' = SubSeq(q, n + 1, Len(q))
     /\ active' = a + n
     /\ pc' = [j \in Job |-> IF \E i \in 1..n : q[i] = j THEN "starting"
                             ELSE now[j]]

\* compileQueued()
Submit(j) ==
  /\ pc[j] = "new"
  /\ Pump(Append(queue, j), active, [pc EXCEPT ![j] = "queued"])
  /\ UNCHANGED <<mode, result, worker, posts, poolVars, lock, artifacts,
                 built, lapses>>

\* What a call knew of its run goes with it.
Forgotten(j) ==
  /\ mode' = [mode EXCEPT ![j] = "none"]
  /\ result' = [result EXCEPT ![j] = "none"]
  /\ posts' = [posts EXCEPT ![j] = 0]

\* Mutation: the slot is given back only when the job succeeds.
SettleLeak(j) ==
  /\ pc[j] = "settling"
  /\ \E outcome \in Settled :
       /\ result[j] \in {"error", "unprepared"} => outcome = "failed"
       /\ result[j] = "rejected" => outcome = "done"
       /\ Pump(queue, IF outcome = "done" THEN active - 1 ELSE active,
               [pc EXCEPT ![j] = outcome])
  /\ Forgotten(j)
  /\ UNCHANGED <<worker, poolVars, lock, artifacts, built, lapses>>

\* The promise of compileOnce() settles: its artifact is persisted, which may
\* fail; the slot is given back and pump() called.
Settle(j) ==
  /\ pc[j] = "settling"
  /\ \E outcome \in Settled :
       /\ result[j] \in {"error", "unprepared"} => outcome = "failed"
       /\ result[j] = "rejected" => outcome = "done"
       /\ Pump(queue, active - 1, [pc EXCEPT ![j] = outcome])
  /\ Forgotten(j)
  /\ UNCHANGED <<worker, poolVars, lock, artifacts, built, lapses>>

-----------------------------------------------------------------------------
(* The pool of threads. *)

\* WorkerPool.run(): the last idle thread of `stack`, or a new one, gets the
\* job.  Whether that thread is alive is not looked at.
Post(j, m, stack) ==
  LET fresh == stack = <<>>
      w == IF fresh THEN made + 1 ELSE stack[Len(stack)]
  IN /\ worker' = [worker EXCEPT ![j] = w]
     /\ idle' = IF fresh THEN stack ELSE SubSeq(stack, 1, Len(stack) - 1)
     /\ made' = IF fresh THEN made + 1 ELSE made
     /\ mode' = [mode EXCEPT ![j] = m]
     /\ posts' = [posts EXCEPT ![j] = @ + 1]
     /\ pc' = [pc EXCEPT ![j] = "running"]

\* The end of compileOnce() for the build result r: recordArtifact() fills
\* the maps at once when the build succeeded.
Record(j, r) ==
  /\ pc' = [pc EXCEPT ![j] = "settling"]
  /\ artifacts' = IF r = "built" THEN artifacts \cup {SourceOf[j]}
                  ELSE artifacts

\* onMessage(): a thread answers "built" or "rejected" (the build failed or
\* timed out) and goes back among the idle ones.
Answer(j, r) ==
  /\ pc[j] = "running" /\ worker[j] \notin dead
  /\ worker' = [worker EXCEPT ![j] = 0]
  /\ idle' = Append(idle, worker[j])
  /\ result' = [result EXCEPT ![j] = r]
  /\ built' = IF r = "built" THEN built \cup {SourceOf[j]} ELSE built
  /\ IF mode[j] = "locked"
     THEN pc' = [pc EXCEPT ![j] = "unlocking"] /\ UNCHANGED artifacts
     ELSE Record(j, r)
  /\ UNCHANGED <<slotVars, mode, posts, made, dead, leaving, lock, lapses>>

\* onError(), onExit(): the thread of a job has died.  cleanup() puts it back
\* all the same, for a Worker has no exitCode.  executeUnderLock() catches the
\* error and runs the job once more; not so in fallback mode or the second
\* time.
RunFails(j) ==
  LET stack == Append(idle, worker[j])
  IN IF mode[j] = "late"
     THEN Post(j, "retry", stack) /\ UNCHANGED result
     ELSE /\ worker' = [worker EXCEPT ![j] = 0]
          /\ idle' = stack
          /\ result' = [result EXCEPT ![j] = "error"]
          /\ pc' = [pc EXCEPT ![j] = IF mode[j] = "locked" THEN "unlocking"
                                     ELSE "settling"]
          /\ UNCHANGED <<made, mode, posts>>

\* A thread dies under its job.  One that is out of memory reports the error
\* and the exit at once; one that threw reports the exit later.
WorkerDies(j) ==
  /\ pc[j] = "running" /\ worker[j] \notin dead
  /\ Cardinality(dead) < MaxDeaths
  /\ dead' = dead \cup {worker[j]}
  /\ leaving' \in {leaving, leaving \cup {worker[j]}}
  /\ RunFails(j)
  /\ UNCHANGED <<slotVars, lock, artifacts, built, lapses>>

\* The exit of a thread is reported, to the job it has by then if any.
WorkerExits(w) ==
  /\ w \in leaving
  /\ leaving' = leaving \ {w}
  /\ \/ \E j \in Job : worker[j] = w /\ RunFails(j)
     \/ /\ \A j \in Job : worker[j] # w
        /\ UNCHANGED <<jobVars, idle, made>>
  /\ UNCHANGED <<slotVars, dead, lock, artifacts, built, lapses>>

-----------------------------------------------------------------------------
(* The artifact cache and the lock. *)

\* compileOnce() rejects before it has looked for an artifact: a directory
\* cannot be made, or the old artifacts cannot be evicted.
PrepareFails(j) ==
  /\ pc[j] = "starting"
  /\ result' = [result EXCEPT ![j] = "unprepared"]
  /\ pc' = [pc EXCEPT ![j] = "settling"]
  /\ UNCHANGED <<slotVars, mode, worker, posts, poolVars, lock, artifacts,
                 built, lapses>>

\* compileOnce(): an artifact is found and recorded anew.
CacheHit(j) ==
  /\ pc[j] = "starting" /\ SourceOf[j] \in artifacts
  /\ result' = [result EXCEPT ![j] = "cached"]
  /\ pc' = [pc EXCEPT ![j] = "settling"]
  /\ UNCHANGED <<slotVars, mode, worker, posts, poolVars, lock, artifacts,
                 built, lapses>>

\* No artifact, and Redis is in fallback mode: no lock is asked for.
MissWithoutRedis(j) ==
  /\ pc[j] = "starting" /\ SourceOf[j] \notin artifacts
  /\ Post(j, "bare", idle)
  /\ UNCHANGED <<slotVars, result, dead, leaving, lock, artifacts, built,
                 lapses>>

\* No artifact: setNX is sent.
Miss(j) ==
  /\ pc[j] = "starting" /\ SourceOf[j] \notin artifacts
  /\ pc' = [pc EXCEPT ![j] = "locking"]
  /\ UNCHANGED <<slotVars, mode, result, worker, posts, poolVars, lock,
                 artifacts, built, lapses>>

\* setNX set the lock.
TakeLock(j) ==
  /\ pc[j] = "locking" /\ lock[SourceOf[j]] = None
  /\ lock' = [lock EXCEPT ![SourceOf[j]] = j]
  /\ Post(j, "locked", idle)
  /\ UNCHANGED <<slotVars, result, dead, leaving, artifacts, built, lapses>>

\* The lock is taken: sleep for 150 ms.
LockTaken(j) ==
  /\ pc[j] = "locking" /\ lock[SourceOf[j]] # None
  /\ pc' = [pc EXCEPT ![j] = "sleeping"]
  /\ UNCHANGED <<slotVars, mode, result, worker, posts, poolVars, lock,
                 artifacts, built, lapses>>

\* After the sleep the job runs whoever has the lock.
Wake(j) ==
  /\ pc[j] = "sleeping"
  /\ Post(j, "late", idle)
  /\ UNCHANGED <<slotVars, result, dead, leaving, lock, artifacts, built,
                 lapses>>

\* The lock is deleted, whoever's it is by now; a run that failed is then
\* repeated without it.
Unlock(j) ==
  /\ pc[j] = "unlocking"
  /\ lock' = [lock EXCEPT ![SourceOf[j]] = None]
  /\ IF result[j] = "error"
     THEN /\ Post(j, "retry", idle)
          /\ result' = [result EXCEPT ![j] = "none"]
          /\ UNCHANGED artifacts
     ELSE /\ Record(j, result[j])
          /\ UNCHANGED <<mode, result, worker, posts, idle, made>>
  /\ UNCHANGED <<slotVars, dead, leaving, built, lapses>>

\* The 30 seconds of a lock have passed.
LockExpires(s) ==
  /\ lock[s] # None /\ lapses < MaxLapses
  /\ lock' = [lock EXCEPT ![s] = None]
  /\ lapses' = lapses + 1
  /\ UNCHANGED <<slotVars, jobVars, poolVars, artifacts, built>>

\* An artifact is dropped: too old, out of room, or its file is gone.
Forget(s) ==
  /\ s \in artifacts
  /\ artifacts' = artifacts \ {s}
  /\ UNCHANGED <<slotVars, jobVars, poolVars, lock, built, lapses>>

-----------------------------------------------------------------------------
(* The specification. *)

Progress(j) ==
  \/ PrepareFails(j) \/ CacheHit(j) \/ MissWithoutRedis(j) \/ Miss(j)
  \/ TakeLock(j) \/ LockTaken(j) \/ Wake(j)
  \/ \E r \in {"built", "rejected"} : Answer(j, r)
  \/ Unlock(j) \/ Settle(j)

Next ==
  \/ \E j \in Job : Submit(j) \/ Progress(j) \/ WorkerDies(j)
  \/ \E w \in leaving : WorkerExits(w)
  \/ \E s \in Source : LockExpires(s) \/ Forget(s)

Spec == Init /\ [][Next]_vars

-----------------------------------------------------------------------------
(* Properties. *)

\* The counter `active` of pump() counts the jobs under way, on every path a
\* job can end by; so no more than MAX_WORKERS are, and none waits for a slot
\* that is free.
SlotsExact ==
  /\ active = Cardinality(InFlight) /\ active <= MaxWorkers
  /\ queue # <<>> => active = MaxWorkers

\* Each thread of the pool is idle once or has one job: none is lost, none is
\* given two jobs, and run() never has to make another, so that there are
\* never more than MAX_WORKERS builds.
PoolConserved ==
  /\ made = MaxWorkers
  /\ \A w \in 1..made :
       Cardinality({i \in 1..Len(idle) : idle[i] = w})
         + Cardinality({j \in Job : worker[j] = w}) = 1

\* A job answered from the cache has a source that was once built with
\* success: what compileOnce() records is never the path of a failed build.
HitsWereBuilt ==
  \A j \in Job : result[j] = "cached" => SourceOf[j] \in built

\* As long as no lock has expired, at most one job of a source runs under the
\* lock, although the lock is deleted without comparing its value; and a lock
\* key never outlives the run it was set for.
LockExcludes ==
  LET Owner(s) == {j \in Job : /\ SourceOf[j] = s /\ mode[j] = "locked"
                               /\ pc[j] \in {"running", "unlocking"}}
  IN \A s \in Source :
       /\ lapses = 0 => Cardinality(Owner(s)) <= 1
       /\ lock[s] # None => Owner(s) # {}

\* executeUnderLock() runs a job again only when a thread died under it, and
\* only once.
RepeatedOnceAfterDeath ==
  \A j \in Job : posts[j] <= 2 /\ (posts[j] = 2 => dead # {})
=============================================================================
