----------------------------- MODULE ProofQueue -----------------------------
(***************************************************************************)
(* The oracle proof queue (oracleProofQueueService.js) on Redis.  Tasks    *)
(* are enqueued over the API, claimed by the workers of several processes  *)
(* under a lease that heartbeats renew, and completed, retried or put on   *)
(* the dead letter list.  A recovery loop in every process takes back the  *)
(* tasks whose lease has run out, a process that stops requeues its tasks, *)
(* and administrators requeue dead letters, several at a time.             *)
(*                                                                         *)
(* Every Lua script and every MULTI is one step.  What a caller reads      *)
(* before it (a task, an idempotency key, the list of expired leases) is a *)
(* step of its own.  A task's place in the order of a list is not          *)
(* modelled: a claim may take any pending task.                            *)
(***************************************************************************)
EXTENDS Integers, FiniteSets

CONSTANTS Task,        \* enqueue requests, each with an id of its own
          Key,         \* idempotency keys
          KeyOf,       \* the key of a request, or None
          Worker,      \* workers
          Process,     \* server processes
          ProcOf,      \* the process of a worker
          Admin,       \* requests to requeue a dead letter
          None,
          MaxRetries,  \* maxRetries of a task
          Deadlined,   \* tasks with a deadline
          MaxFaults,   \* bound: lost answers, late heartbeats, crashes, stops,
                       \* requeue requests that overlap
          MaxRequeues  \* bound: requeued dead letters

ASSUME QueueAssumption ==
  /\ KeyOf \in [Task -> Key \cup {None}] /\ ProcOf \in [Worker -> Process]
  /\ Deadlined \subseteq Task
  /\ MaxRetries \in Nat /\ MaxFaults \in Nat /\ MaxRequeues \in Nat
  /\ None \notin Task \cup Worker \cup Key

VARIABLES
  status, workerId, attempts,                  \* the hash of a task
  pending, processing, deadLetter, completed,  \* the sorted sets
  expired,      \* tasks in processing whose lease has run out
  idempotency,  \* key -> task
  request,      \* how far an enqueue request has got
  wpc,          \* what a worker does
  job,          \* the task a worker works on
  tries,        \* attempts in the worker's copy of the task
  active,       \* activeLocalTasks of a process: task -> worker
  stopping,     \* whether a process is stopping its workers
  todo,         \* the expired tasks its recovery loop has still to look at
  seen,         \* the task the loop has read, and what it will do with it
  admin,        \* the dead letter an administrator's request has read
  late,         \* tasks whose deadline has passed
  faults, requeues,
  lapsed,       \* history: tasks whose lease has run out
  interrupted,  \* history: tasks requeued by a process that was stopping
  overlapped,   \* history: requests of one key that were in flight together
  putBack,      \* history: tasks requeued by an administrator
  doubled       \* history: tasks that two requeue requests held together

recordVars == <<status, workerId, attempts>>
listVars == <<pending, processing, deadLetter, completed, expired>>
enqueueVars == <<idempotency, request, overlapped>>
workerVars == <<wpc, job, tries>>
recoveryVars == <<todo, seen>>
adminVars == <<admin, requeues, putBack, doubled>>
lapseVars == <<lapsed, interrupted>>
vars == <<recordVars, listVars, enqueueVars, workerVars, active, stopping,
          recoveryVars, adminVars, late, faults,
          lapseVars>>

NoRead == [task |-> None, next |-> "none"]
NoTasks == [t \in Task |-> None]
Waiting == {"queued", "retrying"}

Init ==
  /\ status = [t \in Task |-> "new"]
  /\ workerId = NoTasks
  /\ attempts = [t \in Task |-> 0]
  /\ pending = {} /\ processing = {} /\ deadLetter = {} /\ completed = {}
  /\ expired = {}
  /\ idempotency = [k \in Key |-> None]
  /\ request = [t \in Task |-> "none"]
  /\ wpc = [w \in Worker |-> "idle"]
  /\ job = [w \in Worker |-> None]
  /\ tries = [w \in Worker |-> 0]
  /\ active = [p \in Process |-> NoTasks]
  /\ stopping = [p \in Process |-> FALSE]
  /\ todo = [p \in Process |-> {}]
  /\ seen = [p \in Process |-> NoRead]
  /\ admin = [a \in Admin |-> None]
  /\ late = {} /\ faults = 0 /\ requeues = 0
  /\ lapsed = {} /\ interrupted = {} /\ overlapped = {} /\ putBack = {}
  /\ doubled = {}

Fault == faults < MaxFaults /\ faults' = faults + 1

-----------------------------------------------------------------------------
(* Producers *)

\* Mutation: the key is not looked up.
EnqueueUnchecked(t) ==
  /\ request[t] = "none"
  /\ request' = [request EXCEPT ![t] = "checked"]
  /\ overlapped' = overlapped \cup
       {<<t, u>> : u \in {v \in Task : KeyOf[v] = KeyOf[t] /\ request[v] = "checked"}}
  /\ UNCHANGED <<recordVars, listVars, idempotency, workerVars, active,
                 stopping, recoveryVars, adminVars, late, faults, lapseVars>>

\* enqueueProofTask(): findByIdempotencyKey() answers with the existing task,
\* or the request goes on to write its own.
EnqueueCheck(t) ==
  /\ request[t] = "none"
  /\ IF KeyOf[t] # None /\ idempotency[KeyOf[t]] # None
     THEN /\ request' = [request EXCEPT ![t] = "deduplicated"]
          /\ UNCHANGED overlapped
     ELSE /\ request' = [request EXCEPT ![t] = "checked"]
          /\ overlapped' = overlapped \cup
               {<<t, u>> : u \in {v \in Task : /\ KeyOf[v] = KeyOf[t]
                                               /\ request[v] = "checked"}}
  /\ UNCHANGED <<recordVars, listVars, idempotency, workerVars, active,
                 stopping, recoveryVars, adminVars, late, faults, lapseVars>>

\* enqueueRedisTask(): one MULTI writes the task, its place and its key.
EnqueueWrite(t) ==
  /\ request[t] = "checked"
  /\ request' = [request EXCEPT ![t] = "accepted"]
  /\ status' = [status EXCEPT ![t] = "queued"]
  /\ pending' = pending \cup {t}
  /\ idempotency' = IF KeyOf[t] = None THEN idempotency
                    ELSE [idempotency EXCEPT ![KeyOf[t]] = t]
  /\ UNCHANGED <<workerId, attempts, processing, deadLetter, completed, expired,
                 overlapped, workerVars, active, stopping, recoveryVars,
                 adminVars, late, faults, lapseVars>>

-----------------------------------------------------------------------------
(* Workers *)

\* The script of claimRedisTask(): the task changes lists and gets an owner.
TakeTask(w, t) ==
  /\ t \in pending
  /\ pending' = pending \ {t}
  /\ IF status[t] \in Waiting
     THEN /\ processing' = processing \cup {t}
          /\ status' = [status EXCEPT ![t] = "processing"]
          /\ workerId' = [workerId EXCEPT ![t] = w]
          /\ attempts' = [attempts EXCEPT ![t] = @ + 1]
     ELSE UNCHANGED <<processing, status, workerId, attempts>>
  /\ expired' = expired \ {t}

Claim(w, t) ==
  /\ wpc[w] = "idle" /\ ~stopping[ProcOf[w]]
  /\ TakeTask(w, t)
  /\ IF status[t] \in Waiting
     THEN /\ wpc' = [wpc EXCEPT ![w] = "verify"]
          /\ job' = [job EXCEPT ![w] = t]
          /\ tries' = [tries EXCEPT ![w] = attempts[t] + 1]
          /\ active' = [active EXCEPT ![ProcOf[w]][t] = w]
     ELSE UNCHANGED <<workerVars, active>>
  /\ UNCHANGED <<deadLetter, completed, enqueueVars, stopping, recoveryVars,
                 adminVars, late, faults, lapseVars>>

\* The script runs but its answer is lost: nobody works on the task.
ClaimLost(w, t) ==
  /\ wpc[w] = "idle" /\ ~stopping[ProcOf[w]]
  /\ Fault
  /\ TakeTask(w, t)
  /\ UNCHANGED <<deadLetter, completed, enqueueVars, workerVars, active,
                 stopping, recoveryVars, adminVars, late, lapseVars>>

\* verifyProofTask(): a result, or an error if the proof is invalid or the
\* deadline has passed.
Verify(w) ==
  /\ wpc[w] = "verify"
  /\ \/ wpc' = [wpc EXCEPT ![w] = "fail"]
     \/ job[w] \notin late /\ wpc' = [wpc EXCEPT ![w] = "complete"]
  /\ UNCHANGED <<recordVars, listVars, enqueueVars, job, tries, active,
                 stopping, recoveryVars, adminVars, late, faults, lapseVars>>

Done(w) ==
  /\ wpc' = [wpc EXCEPT ![w] = "idle"]
  /\ job' = [job EXCEPT ![w] = None]
  /\ tries' = [tries EXCEPT ![w] = 0]

\* activeLocalTasks.delete(task.id)
Forget(p, t) == active' = [active EXCEPT ![p][t] = None]

OutOfProcessing(t) ==
  processing' = processing \ {t} /\ expired' = expired \ {t}

\* The script of completeTask(): refused unless the task is still the worker's.
CompleteScript(w, t) ==
  IF status[t] = "processing" /\ workerId[t] = w
  THEN /\ OutOfProcessing(t)
       /\ completed' = completed \cup {t}
       /\ status' = [status EXCEPT ![t] = "completed"]
  ELSE UNCHANGED <<processing, expired, completed, status>>

\* Mutation: the script does not look at the status of the task.
CompleteScriptUnchecked(w, t) ==
  /\ OutOfProcessing(t)
  /\ completed' = completed \cup {t}
  /\ status' = [status EXCEPT ![t] = "completed"]

Complete(w) ==
  /\ wpc[w] = "complete"
  /\ CompleteScript(w, job[w])
  /\ Done(w)
  /\ Forget(ProcOf[w], job[w])
  /\ UNCHANGED <<workerId, attempts, pending, deadLetter, enqueueVars, stopping,
                 recoveryVars, adminVars, late, faults, lapseVars>>

\* A Redis call of completeTask() fails, before or after the script: the
\* worker goes on to failTask().
CompleteError(w) ==
  /\ wpc[w] = "complete"
  /\ Fault
  /\ \/ CompleteScript(w, job[w])
     \/ UNCHANGED <<processing, expired, completed, status>>
  /\ wpc' = [wpc EXCEPT ![w] = "fail"]
  /\ Forget(ProcOf[w], job[w])
  /\ UNCHANGED <<workerId, attempts, pending, deadLetter, enqueueVars, job,
                 tries, stopping, recoveryVars, adminVars, late, lapseVars>>

\* Mutation: the last retry is not made.
AfterFailureEarly(t, n) ==
  IF t \notin late /\ n < MaxRetries THEN "retrying" ELSE "dead_letter"

\* Mutation: one retry too many.
AfterFailureOffByOne(t, n) ==
  IF t \notin late /\ n <= MaxRetries + 1 THEN "retrying" ELSE "dead_letter"

\* failTask(): where a task goes after its n-th attempt.
AfterFailure(t, n) ==
  IF t \notin late /\ n <= MaxRetries THEN "retrying" ELSE "dead_letter"

\* Mutation: the status of the task is not looked at.
PersistFailureUnchecked(t, allowed, next) ==
  IF allowed
  THEN /\ OutOfProcessing(t)
       /\ pending' = IF next = "retrying" THEN pending \cup {t} ELSE pending
       /\ deadLetter' = IF next = "dead_letter" THEN deadLetter \cup {t}
                        ELSE deadLetter
       /\ status' = [status EXCEPT ![t] = next]
  ELSE UNCHANGED <<processing, expired, pending, deadLetter, status>>

\* Mutation: the task is put on its new list but not taken off the old one.
PersistFailureKeepingIt(t, allowed, next) ==
  IF status[t] = "processing" /\ allowed
  THEN /\ pending' = IF next = "retrying" THEN pending \cup {t} ELSE pending
       /\ deadLetter' = IF next = "dead_letter" THEN deadLetter \cup {t}
                        ELSE deadLetter
       /\ status' = [status EXCEPT ![t] = next]
       /\ UNCHANGED <<processing, expired>>
  ELSE UNCHANGED <<processing, expired, pending, deadLetter, status>>

\* Mutation: the task is not put on its new list.
PersistFailureUnlisted(t, allowed, next) ==
  IF status[t] = "processing" /\ allowed
  THEN /\ OutOfProcessing(t)
       /\ status' = [status EXCEPT ![t] = next]
       /\ UNCHANGED <<pending, deadLetter>>
  ELSE UNCHANGED <<processing, expired, pending, deadLetter, status>>

\* The script of persistFailureRedis(): the task leaves processing, if it is
\* there and the caller may take it.
PersistFailure(t, allowed, next) ==
  IF status[t] = "processing" /\ allowed
  THEN /\ OutOfProcessing(t)
       /\ pending' = IF next = "retrying" THEN pending \cup {t} ELSE pending
       /\ deadLetter' = IF next = "dead_letter" THEN deadLetter \cup {t}
                        ELSE deadLetter
       /\ status' = [status EXCEPT ![t] = next]
  ELSE UNCHANGED <<processing, expired, pending, deadLetter, status>>

Fail(w) ==
  /\ wpc[w] = "fail"
  /\ PersistFailure(job[w], workerId[job[w]] = w, AfterFailure(job[w], tries[w]))
  /\ Done(w)
  /\ Forget(ProcOf[w], job[w])
  /\ UNCHANGED <<workerId, attempts, completed, enqueueVars, stopping,
                 recoveryVars, adminVars, late, faults, lapseVars>>

\* failTask() does not reach Redis; the worker's loop goes on.
FailError(w) ==
  /\ wpc[w] = "fail"
  /\ Fault
  /\ Done(w)
  /\ Forget(ProcOf[w], job[w])
  /\ UNCHANGED <<recordVars, listVars, enqueueVars, stopping, recoveryVars,
                 adminVars, late, lapseVars>>

Works(w, t) == wpc[w] # "idle" /\ job[w] = t

\* heartbeat() renews the lease of the worker's task, and puts the task back
\* into processing if it is missing there.
Heartbeat(w) ==
  /\ wpc[w] # "idle" /\ ~stopping[ProcOf[w]]
  /\ status[job[w]] = "processing" /\ workerId[job[w]] = w
  /\ job[w] \in expired \/ job[w] \notin processing
  /\ expired' = expired \ {job[w]}
  /\ processing' = processing \cup {job[w]}
  /\ UNCHANGED <<recordVars, pending, deadLetter, completed, enqueueVars,
                 workerVars, active, stopping, recoveryVars, adminVars, late,
                 faults, lapseVars>>

-----------------------------------------------------------------------------
(* Time *)

\* A lease runs out.  While a worker sends heartbeats for the task this takes
\* a delay of several heartbeats, which counts as a fault.
HasHeartbeat(t) ==
  \E w \in Worker : /\ Works(w, t) /\ workerId[t] = w
                    /\ ~stopping[ProcOf[w]]

LeaseExpires(t) ==
  /\ t \in processing \ expired
  /\ IF HasHeartbeat(t) THEN Fault ELSE UNCHANGED faults
  /\ expired' = expired \cup {t}
  /\ lapsed' = lapsed \cup {t}
  /\ UNCHANGED <<interrupted, recordVars, pending, processing, deadLetter, completed,
                 enqueueVars, workerVars, active, stopping, recoveryVars,
                 adminVars, late>>

DeadlinePasses(t) ==
  /\ t \in Deadlined \ late
  /\ late' = late \cup {t}
  /\ UNCHANGED <<recordVars, listVars, enqueueVars, workerVars, active,
                 stopping, recoveryVars, adminVars, faults, lapseVars>>

-----------------------------------------------------------------------------
(* The recovery loop of a process *)

\* recoverStalledTasks() reads the ids whose lease has run out ...
RecoverStart(p) ==
  /\ ~stopping[p] /\ todo[p] = {} /\ seen[p] = NoRead /\ expired # {}
  /\ todo' = [todo EXCEPT ![p] = expired]
  /\ UNCHANGED <<recordVars, listVars, enqueueVars, workerVars, active,
                 stopping, seen, adminVars, late, faults, lapseVars>>

\* ... then one task at a time, and decides by what it has read ...
RecoverRead(p, t) ==
  /\ t \in todo[p] /\ seen[p] = NoRead
  /\ todo' = [todo EXCEPT ![p] = @ \ {t}]
  /\ IF status[t] = "processing"
     THEN /\ seen' = [seen EXCEPT
                        ![p] = [task |-> t, next |-> AfterFailure(t, attempts[t])]]
          /\ Forget(p, t)
     ELSE /\ seen' = [seen EXCEPT ![p] = [task |-> t, next |-> "zrem"]]
          /\ UNCHANGED active
  /\ UNCHANGED <<recordVars, listVars, enqueueVars, workerVars, stopping,
                 adminVars, late, faults, lapseVars>>

\* ... and acts: whoever works on the task now loses it, or the task is taken
\* off the processing list.
RecoverWrite(p) ==
  /\ seen[p] # NoRead
  /\ seen' = [seen EXCEPT ![p] = NoRead]
  /\ IF seen[p].next = "zrem"
     THEN /\ OutOfProcessing(seen[p].task)
          /\ UNCHANGED <<pending, deadLetter, status>>
     ELSE PersistFailure(seen[p].task, TRUE, seen[p].next)
  /\ UNCHANGED <<workerId, attempts, completed, enqueueVars, workerVars, active,
                 stopping, todo, adminVars, late, faults, lapseVars>>

-----------------------------------------------------------------------------
(* Stopping, crashes and restarts of a process *)

\* stopWorkers(): no more heartbeats, recoveries or claims ...
StopWorkers(p) ==
  /\ ~stopping[p]
  /\ Fault
  /\ stopping' = [stopping EXCEPT ![p] = TRUE]
  /\ UNCHANGED <<recordVars, listVars, enqueueVars, workerVars, active,
                 recoveryVars, adminVars, late, lapseVars>>

\* ... and the tasks in hand are requeued one by one, whoever has them now.
RequeueActive(p, t) ==
  /\ stopping[p] /\ active[p][t] # None
  /\ PersistFailure(t, TRUE, "retrying")
  /\ Forget(p, t)
  /\ interrupted' = interrupted \cup {t}
  /\ UNCHANGED <<lapsed, workerId, attempts, completed, enqueueVars, workerVars,
                 stopping, recoveryVars, adminVars, late, faults>>

\* A process ends, by a crash or when it has stopped, and another one starts.
Exit(p) ==
  /\ IF stopping[p] /\ active[p] = NoTasks THEN UNCHANGED faults ELSE Fault
  /\ wpc' = [w \in Worker |-> IF ProcOf[w] = p THEN "idle" ELSE wpc[w]]
  /\ job' = [w \in Worker |-> IF ProcOf[w] = p THEN None ELSE job[w]]
  /\ tries' = [w \in Worker |-> IF ProcOf[w] = p THEN 0 ELSE tries[w]]
  /\ active' = [active EXCEPT ![p] = NoTasks]
  /\ stopping' = [stopping EXCEPT ![p] = FALSE]
  /\ todo' = [todo EXCEPT ![p] = {}]
  /\ seen' = [seen EXCEPT ![p] = NoRead]
  /\ UNCHANGED <<recordVars, listVars, enqueueVars, adminVars, late, lapseVars>>

-----------------------------------------------------------------------------
(* Administrators *)

\* A request holds a task from its read to its write; nothing stops another
\* one from reading the same dead letter in between.
HoldTask(a, t) ==
  /\ admin[a] = None /\ requeues < MaxRequeues
  /\ admin' = [admin EXCEPT ![a] = t]
  /\ requeues' = requeues + 1
  /\ IF \E b \in Admin : admin[b] = t
     THEN doubled' = doubled \cup {t} /\ Fault
     ELSE UNCHANGED <<doubled, faults>>

\* Mutation: any task can be requeued.
RequeueReadAny(a, t) ==
  /\ status[t] # "new"
  /\ HoldTask(a, t)
  /\ UNCHANGED <<recordVars, listVars, enqueueVars, workerVars, active,
                 stopping, recoveryVars, late, lapseVars, putBack>>

\* requeueDeadLetter() reads the task, which must be a dead letter ...
RequeueRead(a, t) ==
  /\ status[t] = "dead_letter"
  /\ HoldTask(a, t)
  /\ UNCHANGED <<recordVars, listVars, enqueueVars, workerVars, active,
                 stopping, recoveryVars, late, lapseVars, putBack>>

\* ... and overwrites it with a fresh one, whatever has become of it since.
RequeueWrite(a) ==
  /\ admin[a] # None
  /\ admin' = [admin EXCEPT ![a] = None]
  /\ deadLetter' = deadLetter \ {admin[a]}
  /\ pending' = pending \cup {admin[a]}
  /\ status' = [status EXCEPT ![admin[a]] = "queued"]
  /\ workerId' = [workerId EXCEPT ![admin[a]] = None]
  /\ attempts' = [attempts EXCEPT ![admin[a]] = 0]
  /\ putBack' = putBack \cup {admin[a]}
  /\ UNCHANGED <<processing, completed, expired, enqueueVars, workerVars,
                 active, stopping, recoveryVars, requeues, doubled, late, faults,
                 lapseVars>>

-----------------------------------------------------------------------------
WorkerStep(w) ==
  Verify(w) \/ Complete(w) \/ CompleteError(w) \/ Fail(w) \/ FailError(w)

Next ==
  \/ \E t \in Task : \/ EnqueueCheck(t) \/ EnqueueWrite(t)
                     \/ LeaseExpires(t) \/ DeadlinePasses(t)
  \/ \E w \in Worker : WorkerStep(w) \/ Heartbeat(w)
  \/ \E w \in Worker, t \in Task : Claim(w, t) \/ ClaimLost(w, t)
  \/ \E p \in Process : \/ RecoverStart(p) \/ RecoverWrite(p)
                        \/ StopWorkers(p) \/ Exit(p)
  \/ \E p \in Process, t \in Task : RecoverRead(p, t) \/ RequeueActive(p, t)
  \/ \E a \in Admin : RequeueWrite(a) \/ \E t \in Task : RequeueRead(a, t)

\* Loops and timers run, calls return, leases without heartbeats run out, and
\* a process that stops its workers ends.
Fairness ==
  /\ \A t \in Task : WF_vars(EnqueueWrite(t))
  /\ \A t \in Task : WF_vars(LeaseExpires(t) /\ ~HasHeartbeat(t))
  /\ \A w \in Worker : WF_vars(WorkerStep(w)) /\ WF_vars(Heartbeat(w))
  /\ \A w \in Worker : WF_vars(\E t \in Task : Claim(w, t))
  /\ \A p \in Process :
       /\ WF_vars(RecoverStart(p)) /\ WF_vars(RecoverWrite(p))
       /\ WF_vars(\E t \in Task : RecoverRead(p, t))
       /\ WF_vars(\E t \in Task : RequeueActive(p, t))
       /\ WF_vars(Exit(p) /\ stopping[p] /\ active[p] = NoTasks)
  /\ \A a \in Admin : WF_vars(RequeueWrite(a))

Spec == Init /\ [][Next]_vars
FairSpec == Spec /\ Fairness

-----------------------------------------------------------------------------
(* Properties *)

\* The record of a task and the lists agree, so that a task on no list is
\* never lost from sight: a waiting task is pending, a dead letter and a
\* completed task are on their lists.  Only two requeue requests that held one
\* task together may leave it on a list that it has left: the second puts a
\* task back that is being worked on, or has been completed, and takes it off
\* neither list.
ListsAgree ==
  \A t \in Task :
    /\ t \in pending <=> status[t] \in Waiting
    /\ t \in deadLetter <=> status[t] = "dead_letter"
    /\ status[t] = "completed" => t \in completed
    /\ t \notin doubled =>
         /\ t \in completed => status[t] = "completed"
         /\ t \in processing => status[t] = "processing"

\* Two workers work on one task only after its lease has run out, or after
\* its process has requeued it while stopping, or after two requeue requests
\* held it together.
ExclusiveUnlessLapsed ==
  \A t \in Task : \A v, w \in Worker :
    Works(v, t) /\ Works(w, t) /\ t \notin lapsed \cup interrupted \cup doubled
      => v = w

\* A task is not tried more often than its retries allow since it was queued,
\* unless its lease ran out or its process stopped.  Requeue requests that
\* overlap are no exception: the worker that had the task does not own it any
\* more, and its failure does not count.
AttemptsBounded ==
  \A t \in Task : t \notin lapsed \cup interrupted => attempts[t] <= MaxRetries + 1

\* A task that nobody has requeued by hand is only given up when its retries
\* are used up or its deadline has passed.
DeadLetterJustified ==
  \A t \in Task : status[t] = "dead_letter" /\ t \notin putBack =>
                    t \in late \/ attempts[t] > MaxRetries

\* Two tasks of one idempotency key come from requests in flight together.
DuplicatesOverlap ==
  \A t, u \in Task :
    /\ t # u /\ KeyOf[t] = KeyOf[u] /\ KeyOf[t] # None
    /\ request[t] = "accepted" /\ request[u] = "accepted"
    => <<t, u>> \in overlapped \/ <<u, t>> \in overlapped

\* A task in processing that no lease watches and nobody works on.
Stranded(t) ==
  /\ status[t] = "processing" /\ t \notin processing
  /\ \A w \in Worker : ~Works(w, t)

Ended(t) == status[t] \in {"completed", "dead_letter"}

\* An accepted task is completed or given up, unless it is stranded.
TaskEnds ==
  \A t \in Task : request[t] = "accepted" ~> Ended(t) \/ Stranded(t)

\* The queue keeps the promise of a task queue: a task goes back from any other
\* state than dead letter only if two requeue requests held it together while
\* it was a dead letter.
Lifecycle == INSTANCE TaskLifecycle WITH state <- status
KeepsLifecycle == Lifecycle!Spec

\* oracleProofQueueService.js:1076: the queue on Redis reports "durable".
NothingStranded == \A t \in Task : ~Stranded(t)
=============================================================================
