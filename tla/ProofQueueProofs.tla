-------------------------- MODULE ProofQueueProofs --------------------------
(* Safety of ProofQueue, and that it keeps the lifecycle of TaskLifecycle,  *)
(* for any number of tasks, workers, processes, retries and faults.         *)
EXTENDS ProofQueue, TLAPS

Types ==
  /\ status \in [Task -> Waiting \cup {"new", "processing", "completed",
                                       "dead_letter"}]
  /\ workerId \in [Task -> Worker \cup {None}]
  /\ attempts \in [Task -> Nat]
  /\ pending \subseteq Task /\ processing \subseteq Task
  /\ deadLetter \subseteq Task /\ completed \subseteq Task
  /\ expired \subseteq Task
  /\ idempotency \in [Key -> Task \cup {None}]
  /\ request \in [Task -> {"none", "checked", "deduplicated", "accepted"}]
  /\ wpc \in [Worker -> {"idle", "verify", "complete", "fail"}]
  /\ job \in [Worker -> Task \cup {None}]
  /\ tries \in [Worker -> Nat]
  /\ todo \in [Process -> SUBSET Task]
  /\ seen \in [Process -> [task : Task \cup {None},
                           next : {"none", "zrem", "retrying", "dead_letter"}]]
  /\ admin \in [Admin -> Task \cup {None}]

\* A requeue request holds a dead letter, and it alone, unless two of them
\* have met on the task.
AdminsOK ==
  /\ \A a \in Admin : admin[a] # None =>
       /\ status[admin[a]] # "new"
       /\ status[admin[a]] = "dead_letter" \/ admin[a] \in doubled
  /\ \A a, b \in Admin : admin[a] # None /\ admin[a] = admin[b] =>
       a = b \/ admin[a] \in doubled

\* Workers and recovery loops act on tasks.
ActorsOK ==
  /\ \A w \in Worker : wpc[w] # "idle" => job[w] \in Task
  /\ \A p \in Process : seen[p] # NoRead =>
       seen[p].task \in Task /\ seen[p].next # "none"

\* A task exists from the moment its request is accepted.
RequestsOK ==
  \A t \in Task : status[t] = "new" <=> request[t] # "accepted"

\* A key without a task has no accepted request, and an accepted request has
\* met every other one that is still in flight.
KeysOK ==
  /\ \A t \in Task : request[t] = "accepted" /\ KeyOf[t] # None
                       => idempotency[KeyOf[t]] # None
  /\ \A t, u \in Task :
       /\ t # u /\ KeyOf[t] = KeyOf[u] /\ KeyOf[t] # None
       /\ request[t] \in {"checked", "accepted"}
       /\ request[u] \in {"checked", "accepted"}
       => <<t, u>> \in overlapped \/ <<u, t>> \in overlapped

\* Leases have run out for the tasks that recovery looks at.
LapsedOK ==
  /\ expired \subseteq lapsed
  /\ \A p \in Process : todo[p] \subseteq lapsed
  /\ \A p \in Process : seen[p] # NoRead => seen[p].task \in lapsed

\* While a worker owns a task it has counted its attempts, and without a lapse
\* or a stop they are bounded.
LeaseOf(t) ==
  /\ \A w \in Worker : Works(w, t) /\ workerId[t] = w => tries[w] = attempts[t]
  /\ attempts[t] <= MaxRetries + 1
  /\ status[t] \in Waiting \cup {"new"} => attempts[t] <= MaxRetries

LeaseOK == \A t \in Task \ (lapsed \cup interrupted) : LeaseOf(t)

\* A task that has not been taken away from a worker is owned by the worker
\* that works on it.
OwnerOf(t) ==
  \A w \in Worker : Works(w, t) =>
    workerId[t] = w /\ status[t] \in {"processing", "completed"}

OwnerOK == \A t \in Task \ (lapsed \cup interrupted \cup doubled) : OwnerOf(t)

\* Until a task is put back its attempts only grow, so that a copy of them
\* that is large enough to give the task up stays justified.
Spent(t) == t \in late \/ attempts[t] > MaxRetries

JustOf(t) ==
  /\ \A w \in Worker : Works(w, t) => tries[w] <= attempts[t]
  /\ \A p \in Process : seen[p].task = t /\ seen[p].next = "dead_letter" => Spent(t)
  /\ status[t] = "dead_letter" => Spent(t)

JustOK == \A t \in Task \ putBack : JustOf(t)

IInv ==
  /\ Types /\ ActorsOK /\ AdminsOK /\ RequestsOK /\ KeysOK
  /\ LapsedOK /\ LeaseOK /\ OwnerOK /\ JustOK /\ ListsAgree

-----------------------------------------------------------------------------
(* What a step does to the tasks and the lists. *)

Same ==
  /\ UNCHANGED <<status, attempts, pending, deadLetter, completed>>
  /\ \A t \in processing' : t \in processing \/ status[t] = "processing"

MovedTo(t, from, to) ==
  status[t] \in from /\ status' = [status EXCEPT ![t] = to]

Queued(t) ==
  /\ MovedTo(t, {"new"}, "queued")
  /\ request' = [request EXCEPT ![t] = "accepted"]
  /\ pending' = pending \cup {t}
  /\ UNCHANGED <<attempts, processing, deadLetter, completed>>

Taken(t) ==
  /\ MovedTo(t, Waiting, "processing")
  /\ attempts' = [attempts EXCEPT ![t] = @ + 1]
  /\ pending' = pending \ {t} /\ processing' = processing \cup {t}
  /\ UNCHANGED <<deadLetter, completed>>

Finished(t) ==
  /\ MovedTo(t, {"processing"}, "completed")
  /\ processing' = processing \ {t} /\ completed' = completed \cup {t}
  /\ UNCHANGED <<attempts, pending, deadLetter>>

Retried(t) ==
  /\ MovedTo(t, {"processing"}, "retrying")
  /\ processing' = processing \ {t} /\ pending' = pending \cup {t}
  /\ UNCHANGED <<attempts, deadLetter, completed>>

GivenUp(t) ==
  /\ MovedTo(t, {"processing"}, "dead_letter")
  /\ processing' = processing \ {t} /\ deadLetter' = deadLetter \cup {t}
  /\ UNCHANGED <<attempts, pending, completed>>

PutBack(t) ==
  /\ status[t] = "dead_letter" \/ (status[t] # "new" /\ t \in doubled)
  /\ status' = [status EXCEPT ![t] = "queued"]
  /\ attempts' = [attempts EXCEPT ![t] = 0]
  /\ deadLetter' = deadLetter \ {t} /\ pending' = pending \cup {t}
  /\ UNCHANGED <<processing, completed>>
  /\ \E a \in Admin : admin[a] = t /\ admin' = [admin EXCEPT ![a] = None]

Moved ==
  \/ Same
  \/ \E t \in Task : \/ Taken(t) \/ Finished(t) \/ Retried(t) \/ GivenUp(t)
                     \/ PutBack(t)

\* A claim takes a waiting task: nothing else is ever pending.
LEMMA TakeMoves ==
  ASSUME Types, ListsAgree, NEW w \in Worker, NEW t \in Task, TakeTask(w, t),
         UNCHANGED <<deadLetter, completed>>
  PROVE  Taken(t) /\ workerId' = [workerId EXCEPT ![t] = w]
<1>1. status[t] \in Waiting
  BY DEF TakeTask, ListsAgree
<1> QED BY <1>1 DEF TakeTask, Taken, MovedTo

\* The completion script completes a task that is processing, or does nothing.
LEMMA CompleteMoves ==
  ASSUME Types, NEW w \in Worker, NEW t \in Task, CompleteScript(w, t),
         UNCHANGED <<attempts, pending, deadLetter>>
  PROVE  Same \/ Finished(t)
  BY DEF CompleteScript, Same, Finished, MovedTo, OutOfProcessing

\* The failure script retries a processing task, gives it up, or does nothing.
LEMMA PersistMoves ==
  ASSUME Types, NEW t \in Task, NEW allowed \in BOOLEAN,
         NEW next \in {"retrying", "dead_letter"},
         PersistFailure(t, allowed, next), UNCHANGED <<attempts, completed>>
  PROVE  \/ Same
         \/ allowed /\ next = "retrying" /\ Retried(t)
         \/ allowed /\ next = "dead_letter" /\ GivenUp(t)
<1>1. CASE ~(status[t] = "processing" /\ allowed)
  BY <1>1 DEF PersistFailure, Same
<1>2. CASE status[t] = "processing" /\ allowed
  <2>1. CASE next = "retrying"
    BY <1>2, <2>1 DEF PersistFailure, Retried, MovedTo, OutOfProcessing
  <2>2. CASE next = "dead_letter"
    BY <1>2, <2>2 DEF PersistFailure, GivenUp, MovedTo, OutOfProcessing
  <2> QED BY <2>1, <2>2
<1> QED BY <1>1, <1>2

\* Every step moves at most one task, along an arrow of the lifecycle.
LEMMA StepMoves ==
  ASSUME Types, ActorsOK, AdminsOK, RequestsOK, ListsAgree, [Next]_vars
  PROVE  Moved \/ \E x \in Task : Queued(x)
<1>0. CASE UNCHANGED vars
  BY <1>0 DEF Moved, Same, vars, recordVars, listVars, enqueueVars,
     workerVars, recoveryVars, adminVars, lapseVars
<1>1. ASSUME NEW t \in Task, EnqueueCheck(t)
      PROVE  Moved \/ \E x \in Task : Queued(x)
  BY <1>1 DEF Moved, Same, EnqueueCheck, recordVars, listVars, workerVars,
     recoveryVars, adminVars, lapseVars
<1>2. ASSUME NEW t \in Task, EnqueueWrite(t)
      PROVE  Moved \/ \E x \in Task : Queued(x)
  <2>1. status[t] = "new"
    BY <1>2 DEF EnqueueWrite, RequestsOK
  <2>2. Queued(t)
    BY <1>2, <2>1 DEF EnqueueWrite, Queued, MovedTo
  <2> QED BY <2>2
<1>3. ASSUME NEW t \in Task, LeaseExpires(t)
      PROVE  Moved \/ \E x \in Task : Queued(x)
  BY <1>3 DEF Moved, Same, LeaseExpires, recordVars, enqueueVars, workerVars,
     recoveryVars, adminVars, Fault
<1>4. ASSUME NEW t \in Task, DeadlinePasses(t)
      PROVE  Moved \/ \E x \in Task : Queued(x)
  BY <1>4 DEF Moved, Same, DeadlinePasses, recordVars, listVars, enqueueVars,
     workerVars, recoveryVars, adminVars, lapseVars
<1>5. ASSUME NEW w \in Worker, Verify(w)
      PROVE  Moved \/ \E x \in Task : Queued(x)
  BY <1>5 DEF Moved, Same, Verify, recordVars, listVars, enqueueVars,
     recoveryVars, adminVars, lapseVars
<1>6. ASSUME NEW w \in Worker, Complete(w)
      PROVE  Moved \/ \E x \in Task : Queued(x)
  <2>1. job[w] \in Task
    BY <1>6 DEF Complete, ActorsOK
  <2> QED BY <1>6, <2>1, CompleteMoves DEF Complete, Moved
<1>7. ASSUME NEW w \in Worker, CompleteError(w)
      PROVE  Moved \/ \E x \in Task : Queued(x)
  <2>1. job[w] \in Task
    BY <1>7 DEF CompleteError, ActorsOK
  <2>2. CompleteScript(w, job[w]) \/ Same
    BY <1>7 DEF CompleteError, Same
  <2>3. UNCHANGED <<attempts, pending, deadLetter>>
    BY <1>7 DEF CompleteError
  <2> QED BY <2>1, <2>2, <2>3, CompleteMoves DEF Moved
<1>8. ASSUME NEW w \in Worker, Fail(w)
      PROVE  Moved \/ \E x \in Task : Queued(x)
  <2>1. job[w] \in Task
    BY <1>8 DEF Fail, ActorsOK
  <2>2. AfterFailure(job[w], tries[w]) \in {"retrying", "dead_letter"}
    BY DEF AfterFailure
  <2>3. (workerId[job[w]] = w) \in BOOLEAN
    OBVIOUS
  <2>4. /\ UNCHANGED <<attempts, completed>>
        /\ PersistFailure(job[w], workerId[job[w]] = w,
                          AfterFailure(job[w], tries[w]))
    BY <1>8 DEF Fail
  <2> HIDE DEF Moved
  <2>5. \/ Same \/ Retried(job[w]) \/ GivenUp(job[w])
    BY <2>1, <2>2, <2>3, <2>4, PersistMoves
  <2> QED BY <2>1, <2>5 DEF Moved
<1>9. ASSUME NEW w \in Worker, FailError(w)
      PROVE  Moved \/ \E x \in Task : Queued(x)
  BY <1>9 DEF Moved, Same, FailError, recordVars, listVars, enqueueVars,
     recoveryVars, adminVars, lapseVars, Fault, Done, Forget
<1>10. ASSUME NEW w \in Worker, Heartbeat(w)
      PROVE  Moved \/ \E x \in Task : Queued(x)
  BY <1>10 DEF Moved, Same, Heartbeat, recordVars, enqueueVars, workerVars,
     recoveryVars, adminVars, lapseVars
<1>11. ASSUME NEW w \in Worker, NEW t \in Task, Claim(w, t)
      PROVE  Moved \/ \E x \in Task : Queued(x)
  BY <1>11, TakeMoves DEF Claim, Moved
<1>12. ASSUME NEW w \in Worker, NEW t \in Task, ClaimLost(w, t)
      PROVE  Moved \/ \E x \in Task : Queued(x)
  BY <1>12, TakeMoves DEF ClaimLost, Moved
<1>13. ASSUME NEW p \in Process, RecoverStart(p)
      PROVE  Moved \/ \E x \in Task : Queued(x)
  BY <1>13 DEF Moved, Same, RecoverStart, recordVars, listVars, enqueueVars,
     workerVars, adminVars, lapseVars
<1>14. ASSUME NEW p \in Process, RecoverWrite(p)
      PROVE  Moved \/ \E x \in Task : Queued(x)
  <2>1. seen[p].task \in Task /\ seen[p].next # "none"
    BY <1>14 DEF RecoverWrite, ActorsOK
  <2>2. CASE seen[p].next = "zrem"
    BY <1>14, <2>2 DEF RecoverWrite, OutOfProcessing, Moved, Same
  <2>3. CASE seen[p].next # "zrem"
    <3>1. seen[p].next \in {"retrying", "dead_letter"}
      BY <2>1, <2>3 DEF Types
    <3>2. /\ PersistFailure(seen[p].task, TRUE, seen[p].next)
          /\ UNCHANGED <<attempts, completed>>
      BY <1>14, <2>3 DEF RecoverWrite
    <3> QED BY <2>1, <3>1, <3>2, PersistMoves DEF Moved
  <2> QED BY <2>2, <2>3
<1>15. ASSUME NEW p \in Process, StopWorkers(p)
      PROVE  Moved \/ \E x \in Task : Queued(x)
  BY <1>15 DEF Moved, Same, StopWorkers, recordVars, listVars, enqueueVars,
     workerVars, recoveryVars, adminVars, lapseVars, Fault
<1>16. ASSUME NEW p \in Process, Exit(p)
      PROVE  Moved \/ \E x \in Task : Queued(x)
  BY <1>16 DEF Moved, Same, Exit, recordVars, listVars, enqueueVars,
     adminVars, lapseVars, Fault
<1>17. ASSUME NEW p \in Process, NEW t \in Task, RecoverRead(p, t)
      PROVE  Moved \/ \E x \in Task : Queued(x)
  BY <1>17 DEF Moved, Same, RecoverRead, recordVars, listVars, enqueueVars,
     workerVars, adminVars, lapseVars, Forget, AfterFailure
<1>18. ASSUME NEW p \in Process, NEW t \in Task, RequeueActive(p, t)
      PROVE  Moved \/ \E x \in Task : Queued(x)
  BY <1>18, PersistMoves DEF RequeueActive, Moved
<1>19. ASSUME NEW a \in Admin, RequeueWrite(a)
      PROVE  Moved \/ \E x \in Task : Queued(x)
  <2>1. /\ admin[a] \in Task /\ status[admin[a]] # "new"
        /\ status[admin[a]] = "dead_letter" \/ admin[a] \in doubled
    BY <1>19 DEF RequeueWrite, AdminsOK, Types
  <2>2. PutBack(admin[a])
    BY <1>19, <2>1 DEF RequeueWrite, PutBack
  <2> QED BY <2>1, <2>2 DEF Moved
<1>20. ASSUME NEW a \in Admin, NEW t \in Task, RequeueRead(a, t)
      PROVE  Moved \/ \E x \in Task : Queued(x)
  BY <1>20 DEF Moved, Same, RequeueRead, HoldTask, recordVars, listVars, enqueueVars,
     workerVars, recoveryVars, lapseVars
<1> QED
  BY <1>0, <1>1, <1>2, <1>3, <1>4, <1>5, <1>6, <1>7, <1>8, <1>9, <1>10, <1>11,
     <1>12, <1>13, <1>14, <1>15, <1>16, <1>17, <1>18, <1>19, <1>20 DEF Next,
     WorkerStep


-----------------------------------------------------------------------------
(* The parts of the invariant, one step at a time. *)

\* Every action keeps the types.
LEMMA TypesStep ==
  ASSUME Types, ActorsOK, AdminsOK, ListsAgree, [Next]_vars
  PROVE  Types'
<1>0. CASE UNCHANGED vars
  BY <1>0 DEF Types, Waiting, NoRead, vars, recordVars, listVars, enqueueVars,
     workerVars, recoveryVars, adminVars, lapseVars
<1>1. ASSUME NEW t \in Task, EnqueueCheck(t)
      PROVE  Types'
  BY <1>1 DEF Types, Waiting, NoRead, EnqueueCheck, recordVars, listVars,
     workerVars, recoveryVars, adminVars, lapseVars
<1>2. ASSUME NEW t \in Task, EnqueueWrite(t)
      PROVE  Types'
  BY <1>2, QueueAssumption DEF Types, Waiting, NoRead, EnqueueWrite,
     workerVars, recoveryVars, adminVars, lapseVars
<1>3. ASSUME NEW t \in Task, LeaseExpires(t)
      PROVE  Types'
  BY <1>3 DEF Types, Waiting, NoRead, LeaseExpires, recordVars, enqueueVars,
     workerVars, recoveryVars, adminVars, Fault
<1>4. ASSUME NEW t \in Task, DeadlinePasses(t)
      PROVE  Types'
  BY <1>4 DEF Types, Waiting, NoRead, DeadlinePasses, recordVars, listVars,
     enqueueVars, workerVars, recoveryVars, adminVars, lapseVars
<1>5. ASSUME NEW w \in Worker, Verify(w)
      PROVE  Types'
  BY <1>5 DEF Types, Waiting, NoRead, Verify, recordVars, listVars,
     enqueueVars, recoveryVars, adminVars, lapseVars
<1>6. ASSUME NEW w \in Worker, Complete(w)
      PROVE  Types'
  BY <1>6, QueueAssumption DEF Types, Waiting, NoRead, Complete, enqueueVars,
     recoveryVars, adminVars, lapseVars, Done, Forget, CompleteScript,
     OutOfProcessing, ActorsOK
<1>7. ASSUME NEW w \in Worker, CompleteError(w)
      PROVE  Types'
  <2>1. job[w] \in Task
    BY <1>7 DEF CompleteError, ActorsOK
  <2>2. /\ status' \in [Task -> Waiting \cup {"new", "processing", "completed",
                                           "dead_letter"}]
        /\ processing' \subseteq Task /\ expired' \subseteq Task
        /\ completed' \subseteq Task
    BY <1>7, <2>1 DEF Types, CompleteError, CompleteScript, OutOfProcessing
  <2>3. wpc' \in [Worker -> {"idle", "verify", "complete", "fail"}]
    BY <1>7 DEF Types, CompleteError
  <2>4. UNCHANGED <<workerId, attempts, pending, deadLetter, enqueueVars, job,
                    tries, recoveryVars, adminVars>>
    BY <1>7 DEF CompleteError
  <2> QED BY <2>2, <2>3, <2>4 DEF Types, enqueueVars, recoveryVars, adminVars
<1>8. ASSUME NEW w \in Worker, Fail(w)
      PROVE  Types'
  <2>1. job[w] \in Task
    BY <1>8 DEF Fail, ActorsOK
  <2>2. AfterFailure(job[w], tries[w]) \in {"retrying", "dead_letter"}
    BY DEF AfterFailure
  <2>3. /\ status' \in [Task -> Waiting \cup {"new", "processing", "completed",
                                           "dead_letter"}]
        /\ processing' \subseteq Task /\ expired' \subseteq Task
        /\ pending' \subseteq Task /\ deadLetter' \subseteq Task
    BY <1>8, <2>1, <2>2 DEF Types, Fail, PersistFailure, OutOfProcessing,
       Waiting
  <2>4. /\ wpc' \in [Worker -> {"idle", "verify", "complete", "fail"}]
        /\ job' \in [Worker -> Task \cup {None}]
        /\ tries' \in [Worker -> Nat]
    BY <1>8 DEF Types, Fail, Done
  <2>5. UNCHANGED <<workerId, attempts, completed, enqueueVars, recoveryVars,
                    adminVars>>
    BY <1>8 DEF Fail
  <2> QED BY <2>3, <2>4, <2>5 DEF Types, enqueueVars, recoveryVars, adminVars
<1>9. ASSUME NEW w \in Worker, FailError(w)
      PROVE  Types'
  BY <1>9, QueueAssumption DEF Types, Waiting, NoRead, FailError, recordVars,
     listVars, enqueueVars, recoveryVars, adminVars, lapseVars, Fault, Done,
     Forget
<1>10. ASSUME NEW w \in Worker, Heartbeat(w)
      PROVE  Types'
  <2>1. job[w] \in Task
    BY <1>10 DEF Heartbeat, ActorsOK
  <2> QED BY <1>10, <2>1 DEF Types, Heartbeat, recordVars, enqueueVars,
       workerVars, recoveryVars, adminVars
<1>11. ASSUME NEW w \in Worker, NEW t \in Task, Claim(w, t)
      PROVE  Types'
  <2>1. Taken(t) /\ workerId' = [workerId EXCEPT ![t] = w]
    BY <1>11, TakeMoves DEF Claim
  <2>2. /\ wpc' \in [Worker -> {"idle", "verify", "complete", "fail"}]
        /\ job' \in [Worker -> Task \cup {None}]
        /\ tries' \in [Worker -> Nat]
    BY <1>11 DEF Types, Claim, workerVars
  <2>3. /\ expired' \subseteq Task
        /\ UNCHANGED <<enqueueVars, recoveryVars, adminVars>>
    BY <1>11 DEF Types, Claim, TakeTask
  <2> QED BY <2>1, <2>2, <2>3 DEF Types, Taken, MovedTo, Waiting, enqueueVars,
       recoveryVars, adminVars
<1>12. ASSUME NEW w \in Worker, NEW t \in Task, ClaimLost(w, t)
      PROVE  Types'
  <2>1. Taken(t) /\ workerId' = [workerId EXCEPT ![t] = w]
    BY <1>12, TakeMoves DEF ClaimLost
  <2>2. /\ wpc' \in [Worker -> {"idle", "verify", "complete", "fail"}]
        /\ job' \in [Worker -> Task \cup {None}]
        /\ tries' \in [Worker -> Nat]
    BY <1>12 DEF Types, ClaimLost, workerVars
  <2>3. /\ expired' \subseteq Task
        /\ UNCHANGED <<enqueueVars, recoveryVars, adminVars>>
    BY <1>12 DEF Types, ClaimLost, TakeTask
  <2> QED BY <2>1, <2>2, <2>3 DEF Types, Taken, MovedTo, Waiting, enqueueVars,
       recoveryVars, adminVars
<1>13. ASSUME NEW p \in Process, RecoverStart(p)
      PROVE  Types'
  BY <1>13 DEF Types, Waiting, NoRead, RecoverStart, recordVars, listVars,
     enqueueVars, workerVars, adminVars, lapseVars
<1>14. ASSUME NEW p \in Process, RecoverWrite(p)
      PROVE  Types'
  <2>1. seen[p].task \in Task
    BY <1>14 DEF RecoverWrite, ActorsOK
  <2>2. /\ status' \in [Task -> Waiting \cup {"new", "processing", "completed",
                                           "dead_letter"}]
        /\ processing' \subseteq Task /\ expired' \subseteq Task
        /\ pending' \subseteq Task /\ deadLetter' \subseteq Task
    <3>1. CASE seen[p].next = "zrem"
      BY <1>14, <3>1 DEF Types, RecoverWrite, OutOfProcessing
    <3>2. CASE seen[p].next # "zrem"
      <4>1. seen[p].next \in {"retrying", "dead_letter"}
        BY <1>14, <3>2 DEF Types, RecoverWrite, ActorsOK
      <4>2. PersistFailure(seen[p].task, TRUE, seen[p].next)
        BY <1>14, <3>2 DEF RecoverWrite
      <4> QED BY <2>1, <4>1, <4>2 DEF Types, PersistFailure, OutOfProcessing,
           Waiting
    <3> QED BY <3>1, <3>2
  <2>3. seen' = [seen EXCEPT ![p] = NoRead]
    BY <1>14 DEF RecoverWrite
  <2>4. UNCHANGED <<workerId, attempts, completed, enqueueVars, workerVars, todo,
                    adminVars>>
    BY <1>14 DEF RecoverWrite
  <2> QED BY <2>2, <2>3, <2>4 DEF Types, enqueueVars, workerVars, adminVars,
       NoRead
<1>15. ASSUME NEW p \in Process, StopWorkers(p)
      PROVE  Types'
  BY <1>15 DEF Types, Waiting, NoRead, StopWorkers, recordVars, listVars,
     enqueueVars, workerVars, recoveryVars, adminVars, lapseVars, Fault
<1>16. ASSUME NEW p \in Process, Exit(p)
      PROVE  Types'
  BY <1>16, QueueAssumption DEF Types, Waiting, NoRead, Exit, recordVars,
     listVars, enqueueVars, adminVars, lapseVars, Fault
<1>17. ASSUME NEW p \in Process, NEW t \in Task, RecoverRead(p, t)
      PROVE  Types'
  BY <1>17, QueueAssumption DEF Types, Waiting, NoRead, RecoverRead,
     recordVars, listVars, enqueueVars, workerVars, adminVars, lapseVars,
     Forget, AfterFailure
<1>18. ASSUME NEW p \in Process, NEW t \in Task, RequeueActive(p, t)
      PROVE  Types'
  BY <1>18 DEF Types, Waiting, NoRead, RequeueActive, enqueueVars, workerVars,
     recoveryVars, adminVars, Forget, PersistFailure, OutOfProcessing
<1>19. ASSUME NEW a \in Admin, RequeueWrite(a)
      PROVE  Types'
  BY <1>19, QueueAssumption DEF Types, Waiting, NoRead, RequeueWrite,
     enqueueVars, workerVars, recoveryVars, lapseVars
<1>20. ASSUME NEW a \in Admin, NEW t \in Task, RequeueRead(a, t)
      PROVE  Types'
  BY <1>20, QueueAssumption DEF Types, Waiting, NoRead, RequeueRead, HoldTask,
     recordVars, listVars, enqueueVars, workerVars, recoveryVars, lapseVars
<1> QED
  BY <1>0, <1>1, <1>2, <1>3, <1>4, <1>5, <1>6, <1>7, <1>8, <1>9, <1>10, <1>11,
     <1>12, <1>13, <1>14, <1>15, <1>16, <1>17, <1>18, <1>19, <1>20 DEF Next,
     WorkerStep


\* Workers and recovery loops get tasks, and keep them until they are done.
LEMMA ActorsStep ==
  ASSUME Types, ActorsOK, [Next]_vars
  PROVE  ActorsOK'
<1>0. CASE UNCHANGED vars
  BY <1>0 DEF ActorsOK, Types, NoRead, vars, recordVars, listVars,
     enqueueVars, workerVars, recoveryVars, adminVars, lapseVars
<1>1. ASSUME NEW t \in Task, EnqueueCheck(t)
      PROVE  ActorsOK'
  BY <1>1 DEF ActorsOK, Types, NoRead, EnqueueCheck, recordVars, listVars,
     workerVars, recoveryVars, adminVars, lapseVars
<1>2. ASSUME NEW t \in Task, EnqueueWrite(t)
      PROVE  ActorsOK'
  BY <1>2 DEF ActorsOK, Types, NoRead, EnqueueWrite, workerVars, recoveryVars,
     adminVars, lapseVars
<1>3. ASSUME NEW t \in Task, LeaseExpires(t)
      PROVE  ActorsOK'
  BY <1>3 DEF ActorsOK, Types, NoRead, LeaseExpires, recordVars, enqueueVars,
     workerVars, recoveryVars, adminVars, Fault
<1>4. ASSUME NEW t \in Task, DeadlinePasses(t)
      PROVE  ActorsOK'
  BY <1>4 DEF ActorsOK, Types, NoRead, DeadlinePasses, recordVars, listVars,
     enqueueVars, workerVars, recoveryVars, adminVars, lapseVars
<1>5. ASSUME NEW w \in Worker, Verify(w)
      PROVE  ActorsOK'
  BY <1>5 DEF ActorsOK, Types, NoRead, Verify, recordVars, listVars,
     enqueueVars, recoveryVars, adminVars, lapseVars
<1>6. ASSUME NEW w \in Worker, Complete(w)
      PROVE  ActorsOK'
  BY <1>6 DEF ActorsOK, Types, NoRead, Complete, enqueueVars, recoveryVars,
     adminVars, lapseVars, Done, Forget, CompleteScript, OutOfProcessing
<1>7. ASSUME NEW w \in Worker, CompleteError(w)
      PROVE  ActorsOK'
  BY <1>7 DEF ActorsOK, Types, NoRead, CompleteError, enqueueVars,
     recoveryVars, adminVars, lapseVars, Fault, Forget, CompleteScript,
     OutOfProcessing
<1>8. ASSUME NEW w \in Worker, Fail(w)
      PROVE  ActorsOK'
  BY <1>8 DEF ActorsOK, Types, NoRead, Fail, enqueueVars, recoveryVars,
     adminVars, lapseVars, Done, Forget, AfterFailure, PersistFailure,
     OutOfProcessing
<1>9. ASSUME NEW w \in Worker, FailError(w)
      PROVE  ActorsOK'
  BY <1>9 DEF ActorsOK, Types, NoRead, FailError, recordVars, listVars,
     enqueueVars, recoveryVars, adminVars, lapseVars, Fault, Done, Forget
<1>10. ASSUME NEW w \in Worker, Heartbeat(w)
      PROVE  ActorsOK'
  BY <1>10 DEF ActorsOK, Types, NoRead, Heartbeat, recordVars, enqueueVars,
     workerVars, recoveryVars, adminVars, lapseVars
<1>11. ASSUME NEW w \in Worker, NEW t \in Task, Claim(w, t)
      PROVE  ActorsOK'
  <2>1. UNCHANGED seen
    BY <1>11 DEF Claim, recoveryVars
  <2>2. CASE status[t] \in Waiting
    <3>1. wpc' = [wpc EXCEPT ![w] = "verify"] /\ job' = [job EXCEPT ![w] = t]
      BY <1>11, <2>2 DEF Claim
    <3> QED BY <2>1, <3>1 DEF ActorsOK, Types
  <2>3. CASE status[t] \notin Waiting
    <3>1. UNCHANGED <<wpc, job>>
      BY <1>11, <2>3 DEF Claim, workerVars
    <3> QED BY <2>1, <3>1 DEF ActorsOK
  <2> QED BY <2>2, <2>3
<1>12. ASSUME NEW w \in Worker, NEW t \in Task, ClaimLost(w, t)
      PROVE  ActorsOK'
  BY <1>12 DEF ActorsOK, Types, NoRead, ClaimLost, enqueueVars, workerVars,
     recoveryVars, adminVars, lapseVars, Fault, TakeTask
<1>13. ASSUME NEW p \in Process, RecoverStart(p)
      PROVE  ActorsOK'
  BY <1>13 DEF ActorsOK, Types, NoRead, RecoverStart, recordVars, listVars,
     enqueueVars, workerVars, adminVars, lapseVars
<1>14. ASSUME NEW p \in Process, RecoverWrite(p)
      PROVE  ActorsOK'
  BY <1>14 DEF ActorsOK, Types, NoRead, RecoverWrite, enqueueVars, workerVars,
     adminVars, lapseVars, OutOfProcessing, PersistFailure
<1>15. ASSUME NEW p \in Process, StopWorkers(p)
      PROVE  ActorsOK'
  BY <1>15 DEF ActorsOK, Types, NoRead, StopWorkers, recordVars, listVars,
     enqueueVars, workerVars, recoveryVars, adminVars, lapseVars, Fault
<1>16. ASSUME NEW p \in Process, Exit(p)
      PROVE  ActorsOK'
  BY <1>16 DEF ActorsOK, Types, NoRead, Exit, recordVars, listVars,
     enqueueVars, adminVars, lapseVars, Fault
<1>17. ASSUME NEW p \in Process, NEW t \in Task, RecoverRead(p, t)
      PROVE  ActorsOK'
  <2>1. UNCHANGED <<wpc, job>>
    BY <1>17 DEF RecoverRead, workerVars
  <2>2. PICK next \in {"zrem", "retrying", "dead_letter"} :
          seen' = [seen EXCEPT ![p] = [task |-> t, next |-> next]]
    BY <1>17 DEF RecoverRead, AfterFailure
  <2>3. \A q \in Process : seen'[q] = IF q = p THEN [task |-> t, next |-> next]
                                                ELSE seen[q]
    BY <2>2 DEF Types
  <2> QED BY <2>1, <2>2, <2>3 DEF ActorsOK
<1>18. ASSUME NEW p \in Process, NEW t \in Task, RequeueActive(p, t)
      PROVE  ActorsOK'
  BY <1>18 DEF ActorsOK, Types, NoRead, RequeueActive, enqueueVars,
     workerVars, recoveryVars, adminVars, Forget, PersistFailure,
     OutOfProcessing
<1>19. ASSUME NEW a \in Admin, RequeueWrite(a)
      PROVE  ActorsOK'
  BY <1>19 DEF ActorsOK, Types, NoRead, RequeueWrite, enqueueVars, workerVars,
     recoveryVars, lapseVars
<1>20. ASSUME NEW a \in Admin, NEW t \in Task, RequeueRead(a, t)
      PROVE  ActorsOK'
  BY <1>20 DEF ActorsOK, Types, NoRead, RequeueRead, HoldTask, recordVars, listVars,
     enqueueVars, workerVars, recoveryVars, lapseVars
<1> QED
  BY <1>0, <1>1, <1>2, <1>3, <1>4, <1>5, <1>6, <1>7, <1>8, <1>9, <1>10, <1>11,
     <1>12, <1>13, <1>14, <1>15, <1>16, <1>17, <1>18, <1>19, <1>20 DEF Next,
     WorkerStep


\* Only an administrator's request moves a dead letter.
LEMMA AdminsKept ==
  ASSUME Types, AdminsOK, Moved \/ \E x \in Task : Queued(x),
         UNCHANGED <<admin, doubled>>
  PROVE  AdminsOK'
<1> SUFFICES ASSUME NEW a \in Admin, admin[a] # None
             PROVE  /\ status'[admin[a]] # "new"
                    /\ status'[admin[a]] = "dead_letter" \/ admin[a] \in doubled
  BY DEF AdminsOK
<1>1. /\ admin[a] \in Task /\ status[admin[a]] # "new"
      /\ status[admin[a]] = "dead_letter" \/ admin[a] \in doubled
  BY DEF AdminsOK, Types
<1>2. ASSUME NEW t \in Task, PutBack(t) PROVE FALSE
  BY <1>2, QueueAssumption DEF PutBack, Types
<1> QED BY <1>1, <1>2 DEF Moved, Same, Taken, Finished, Retried, GivenUp,
   Queued, MovedTo, Waiting, Types

LEMMA AdminsStep ==
  ASSUME Types, ActorsOK, AdminsOK, RequestsOK, ListsAgree, [Next]_vars
  PROVE  AdminsOK'
<1>m. Moved \/ \E x \in Task : Queued(x)
  BY StepMoves
<1>0. CASE UNCHANGED vars
  BY <1>m, <1>0, AdminsKept DEF vars, recordVars, listVars, enqueueVars,
     workerVars, recoveryVars, adminVars, lapseVars
<1>1. ASSUME NEW t \in Task, EnqueueCheck(t)
      PROVE  AdminsOK'
  BY <1>m, <1>1, AdminsKept DEF EnqueueCheck, adminVars
<1>2. ASSUME NEW t \in Task, EnqueueWrite(t)
      PROVE  AdminsOK'
  BY <1>m, <1>2, AdminsKept DEF EnqueueWrite, adminVars
<1>3. ASSUME NEW t \in Task, LeaseExpires(t)
      PROVE  AdminsOK'
  BY <1>m, <1>3, AdminsKept DEF LeaseExpires, adminVars
<1>4. ASSUME NEW t \in Task, DeadlinePasses(t)
      PROVE  AdminsOK'
  BY <1>m, <1>4, AdminsKept DEF DeadlinePasses, adminVars
<1>5. ASSUME NEW w \in Worker, Verify(w)
      PROVE  AdminsOK'
  BY <1>m, <1>5, AdminsKept DEF Verify, adminVars
<1>6. ASSUME NEW w \in Worker, Complete(w)
      PROVE  AdminsOK'
  BY <1>m, <1>6, AdminsKept DEF Complete, adminVars
<1>7. ASSUME NEW w \in Worker, CompleteError(w)
      PROVE  AdminsOK'
  BY <1>m, <1>7, AdminsKept DEF CompleteError, adminVars
<1>8. ASSUME NEW w \in Worker, Fail(w)
      PROVE  AdminsOK'
  BY <1>m, <1>8, AdminsKept DEF Fail, adminVars
<1>9. ASSUME NEW w \in Worker, FailError(w)
      PROVE  AdminsOK'
  BY <1>m, <1>9, AdminsKept DEF FailError, adminVars
<1>10. ASSUME NEW w \in Worker, Heartbeat(w)
      PROVE  AdminsOK'
  BY <1>m, <1>10, AdminsKept DEF Heartbeat, adminVars
<1>11. ASSUME NEW w \in Worker, NEW t \in Task, Claim(w, t)
      PROVE  AdminsOK'
  BY <1>m, <1>11, AdminsKept DEF Claim, adminVars
<1>12. ASSUME NEW w \in Worker, NEW t \in Task, ClaimLost(w, t)
      PROVE  AdminsOK'
  BY <1>m, <1>12, AdminsKept DEF ClaimLost, adminVars
<1>13. ASSUME NEW p \in Process, RecoverStart(p)
      PROVE  AdminsOK'
  BY <1>m, <1>13, AdminsKept DEF RecoverStart, adminVars
<1>14. ASSUME NEW p \in Process, RecoverWrite(p)
      PROVE  AdminsOK'
  BY <1>m, <1>14, AdminsKept DEF RecoverWrite, adminVars
<1>15. ASSUME NEW p \in Process, StopWorkers(p)
      PROVE  AdminsOK'
  BY <1>m, <1>15, AdminsKept DEF StopWorkers, adminVars
<1>16. ASSUME NEW p \in Process, Exit(p)
      PROVE  AdminsOK'
  BY <1>m, <1>16, AdminsKept DEF Exit, adminVars
<1>17. ASSUME NEW p \in Process, NEW t \in Task, RecoverRead(p, t)
      PROVE  AdminsOK'
  BY <1>m, <1>17, AdminsKept DEF RecoverRead, adminVars
<1>18. ASSUME NEW p \in Process, NEW t \in Task, RequeueActive(p, t)
      PROVE  AdminsOK'
  BY <1>m, <1>18, AdminsKept DEF RequeueActive, adminVars
<1>19. ASSUME NEW a \in Admin, RequeueWrite(a)
      PROVE  AdminsOK'
  <2>1. /\ admin[a] \in Task
        /\ admin' = [admin EXCEPT ![a] = None]
        /\ status' = [status EXCEPT ![admin[a]] = "queued"]
        /\ UNCHANGED doubled
    BY <1>19 DEF RequeueWrite, Types
  <2>2. ASSUME NEW b \in Admin, admin'[b] # None
        PROVE  /\ b # a /\ admin'[b] = admin[b] /\ admin[b] \in Task
               /\ status'[admin[b]] # "new"
               /\ status'[admin[b]] = "dead_letter" \/ admin[b] \in doubled
    <3>1. b # a /\ admin'[b] = admin[b] /\ admin[b] \in Task
      BY <2>1, <2>2 DEF Types
    <3>2. CASE admin[b] = admin[a]
      BY <2>1, <3>1, <3>2, QueueAssumption DEF AdminsOK, Types
    <3>3. CASE admin[b] # admin[a]
      BY <2>1, <3>1, <3>3, QueueAssumption DEF AdminsOK, Types
    <3> QED BY <3>1, <3>2, <3>3
  <2> QED BY <2>1, <2>2 DEF AdminsOK
<1>20. ASSUME NEW a \in Admin, NEW t \in Task, RequeueRead(a, t)
      PROVE  AdminsOK'
  <2>1. /\ admin' = [admin EXCEPT ![a] = t] /\ status[t] = "dead_letter"
        /\ UNCHANGED status
        /\ doubled \subseteq doubled'
        /\ (\E b \in Admin : admin[b] = t) => t \in doubled'
        /\ admin[a] = None
    BY <1>20 DEF RequeueRead, HoldTask, recordVars
  <2>2. \A b \in Admin : admin'[b] = IF b = a THEN t ELSE admin[b]
    BY <2>1 DEF Types
  <2> QED BY <2>1, <2>2 DEF AdminsOK
<1> QED
  BY <1>0, <1>1, <1>2, <1>3, <1>4, <1>5, <1>6, <1>7, <1>8, <1>9, <1>10, <1>11,
     <1>12, <1>13, <1>14, <1>15, <1>16, <1>17, <1>18, <1>19, <1>20 DEF Next,
     WorkerStep


\* Only an accepted request makes a task, and no task is unmade.
LEMMA RequestsStep ==
  ASSUME Types, ActorsOK, AdminsOK, RequestsOK, [Next]_vars
  PROVE  RequestsOK'
<1>0. CASE UNCHANGED vars
  BY <1>0 DEF RequestsOK, Types, Waiting, vars, recordVars, listVars,
     enqueueVars, workerVars, recoveryVars, adminVars, lapseVars
<1>1. ASSUME NEW t \in Task, EnqueueCheck(t)
      PROVE  RequestsOK'
  BY <1>1 DEF RequestsOK, Types, Waiting, EnqueueCheck, recordVars, listVars,
     workerVars, recoveryVars, adminVars, lapseVars
<1>2. ASSUME NEW t \in Task, EnqueueWrite(t)
      PROVE  RequestsOK'
  BY <1>2 DEF RequestsOK, Types, Waiting, EnqueueWrite, workerVars,
     recoveryVars, adminVars, lapseVars
<1>3. ASSUME NEW t \in Task, LeaseExpires(t)
      PROVE  RequestsOK'
  BY <1>3 DEF RequestsOK, Types, Waiting, LeaseExpires, recordVars,
     enqueueVars, workerVars, recoveryVars, adminVars, Fault
<1>4. ASSUME NEW t \in Task, DeadlinePasses(t)
      PROVE  RequestsOK'
  BY <1>4 DEF RequestsOK, Types, Waiting, DeadlinePasses, recordVars,
     listVars, enqueueVars, workerVars, recoveryVars, adminVars, lapseVars
<1>5. ASSUME NEW w \in Worker, Verify(w)
      PROVE  RequestsOK'
  BY <1>5 DEF RequestsOK, Types, Waiting, Verify, recordVars, listVars,
     enqueueVars, recoveryVars, adminVars, lapseVars
<1>6. ASSUME NEW w \in Worker, Complete(w)
      PROVE  RequestsOK'
  BY <1>6 DEF RequestsOK, Types, Waiting, Complete, enqueueVars, recoveryVars,
     adminVars, lapseVars, Done, Forget, CompleteScript, OutOfProcessing
<1>7. ASSUME NEW w \in Worker, CompleteError(w)
      PROVE  RequestsOK'
  BY <1>7 DEF RequestsOK, Types, Waiting, CompleteError, enqueueVars,
     recoveryVars, adminVars, lapseVars, Fault, Forget, CompleteScript,
     OutOfProcessing
<1>8. ASSUME NEW w \in Worker, Fail(w)
      PROVE  RequestsOK'
  BY <1>8 DEF RequestsOK, Types, Waiting, Fail, enqueueVars, recoveryVars,
     adminVars, lapseVars, Done, Forget, AfterFailure, PersistFailure,
     OutOfProcessing
<1>9. ASSUME NEW w \in Worker, FailError(w)
      PROVE  RequestsOK'
  BY <1>9 DEF RequestsOK, Types, Waiting, FailError, recordVars, listVars,
     enqueueVars, recoveryVars, adminVars, lapseVars, Fault, Done, Forget
<1>10. ASSUME NEW w \in Worker, Heartbeat(w)
      PROVE  RequestsOK'
  BY <1>10 DEF RequestsOK, Types, Waiting, Heartbeat, recordVars, enqueueVars,
     workerVars, recoveryVars, adminVars, lapseVars
<1>11. ASSUME NEW w \in Worker, NEW t \in Task, Claim(w, t)
      PROVE  RequestsOK'
  BY <1>11 DEF RequestsOK, Types, Waiting, Claim, enqueueVars, workerVars,
     recoveryVars, adminVars, lapseVars, TakeTask
<1>12. ASSUME NEW w \in Worker, NEW t \in Task, ClaimLost(w, t)
      PROVE  RequestsOK'
  BY <1>12 DEF RequestsOK, Types, Waiting, ClaimLost, enqueueVars, workerVars,
     recoveryVars, adminVars, lapseVars, Fault, TakeTask
<1>13. ASSUME NEW p \in Process, RecoverStart(p)
      PROVE  RequestsOK'
  BY <1>13 DEF RequestsOK, Types, Waiting, RecoverStart, recordVars, listVars,
     enqueueVars, workerVars, adminVars, lapseVars
<1>14. ASSUME NEW p \in Process, RecoverWrite(p)
      PROVE  RequestsOK'
  BY <1>14 DEF RequestsOK, Types, Waiting, RecoverWrite, enqueueVars,
     workerVars, adminVars, lapseVars, OutOfProcessing, PersistFailure
<1>15. ASSUME NEW p \in Process, StopWorkers(p)
      PROVE  RequestsOK'
  BY <1>15 DEF RequestsOK, Types, Waiting, StopWorkers, recordVars, listVars,
     enqueueVars, workerVars, recoveryVars, adminVars, lapseVars, Fault
<1>16. ASSUME NEW p \in Process, Exit(p)
      PROVE  RequestsOK'
  BY <1>16 DEF RequestsOK, Types, Waiting, Exit, recordVars, listVars,
     enqueueVars, adminVars, lapseVars, Fault
<1>17. ASSUME NEW p \in Process, NEW t \in Task, RecoverRead(p, t)
      PROVE  RequestsOK'
  BY <1>17 DEF RequestsOK, Types, Waiting, RecoverRead, recordVars, listVars,
     enqueueVars, workerVars, adminVars, lapseVars, Forget, AfterFailure
<1>18. ASSUME NEW p \in Process, NEW t \in Task, RequeueActive(p, t)
      PROVE  RequestsOK'
  BY <1>18 DEF RequestsOK, Types, Waiting, RequeueActive, enqueueVars,
     workerVars, recoveryVars, adminVars, Forget, PersistFailure,
     OutOfProcessing
<1>19. ASSUME NEW a \in Admin, RequeueWrite(a)
      PROVE  RequestsOK'
  BY <1>19 DEF RequestsOK, Types, Waiting, RequeueWrite, enqueueVars,
     workerVars, recoveryVars, lapseVars, AdminsOK
<1>20. ASSUME NEW a \in Admin, NEW t \in Task, RequeueRead(a, t)
      PROVE  RequestsOK'
  BY <1>20 DEF RequestsOK, Types, Waiting, RequeueRead, HoldTask, recordVars, listVars,
     enqueueVars, workerVars, recoveryVars, lapseVars
<1> QED
  BY <1>0, <1>1, <1>2, <1>3, <1>4, <1>5, <1>6, <1>7, <1>8, <1>9, <1>10, <1>11,
     <1>12, <1>13, <1>14, <1>15, <1>16, <1>17, <1>18, <1>19, <1>20 DEF Next,
     WorkerStep


\* Only the two steps of an enqueue request touch its key.
LEMMA KeysStep ==
  ASSUME Types, KeysOK, [Next]_vars
  PROVE  KeysOK'
<1>0. CASE UNCHANGED vars
  BY <1>0 DEF KeysOK, vars, recordVars, listVars, enqueueVars, workerVars,
     recoveryVars, adminVars, lapseVars
<1>1. ASSUME NEW t \in Task, EnqueueCheck(t)
      PROVE  KeysOK'
  <2>1. CASE KeyOf[t] # None /\ idempotency[KeyOf[t]] # None
    <3>1. /\ request' = [request EXCEPT ![t] = "deduplicated"]
          /\ UNCHANGED <<idempotency, overlapped>>
      BY <1>1, <2>1 DEF EnqueueCheck
    <3> QED BY <3>1 DEF KeysOK, Types
  <2>2. CASE ~(KeyOf[t] # None /\ idempotency[KeyOf[t]] # None)
    <3>1. /\ request' = [request EXCEPT ![t] = "checked"]
          /\ overlapped' = overlapped \cup
               {<<t, u>> : u \in {v \in Task : /\ KeyOf[v] = KeyOf[t]
                                               /\ request[v] = "checked"}}
          /\ UNCHANGED idempotency
      BY <1>1, <2>2 DEF EnqueueCheck
    <3>2. \A u \in Task : /\ u # t /\ KeyOf[u] = KeyOf[t] /\ KeyOf[t] # None
                          /\ request[u] \in {"checked", "accepted"}
                          => <<t, u>> \in overlapped'
      <4> SUFFICES ASSUME NEW u \in Task, KeyOf[u] = KeyOf[t], KeyOf[t] # None,
                          request[u] \in {"checked", "accepted"}
                   PROVE  <<t, u>> \in overlapped'
        OBVIOUS
      <4>1. request[u] = "checked"
        BY <2>2 DEF KeysOK
      <4> QED BY <3>1, <4>1
    <3>3. \A u, v \in Task : <<u, v>> \in overlapped => <<u, v>> \in overlapped'
      BY <3>1
    <3>4. \A u \in Task : /\ request'[u] = "accepted" => request[u] = "accepted"
                          /\ u # t => request'[u] = request[u]
      BY <3>1 DEF Types
    <3>5. ASSUME NEW v \in Task, NEW u \in Task, v # u, KeyOf[v] = KeyOf[u],
                 KeyOf[v] # None, request'[v] \in {"checked", "accepted"},
                 request'[u] \in {"checked", "accepted"}
          PROVE  <<v, u>> \in overlapped' \/ <<u, v>> \in overlapped'
      <4>1. CASE v = t
        BY <3>2, <3>4, <3>5, <4>1
      <4>2. CASE u = t
        BY <3>2, <3>4, <3>5, <4>2
      <4>3. CASE v # t /\ u # t
        BY <3>3, <3>4, <3>5, <4>3 DEF KeysOK
      <4> QED BY <4>1, <4>2, <4>3
    <3>6. \A u \in Task : request'[u] = "accepted" /\ KeyOf[u] # None
                            => idempotency'[KeyOf[u]] # None
      BY <3>1, <3>4 DEF KeysOK
    <3> QED BY <3>5, <3>6 DEF KeysOK
  <2> QED BY <2>1, <2>2
<1>2. ASSUME NEW t \in Task, EnqueueWrite(t)
      PROVE  KeysOK'
  <2>1. /\ request[t] = "checked"
        /\ request' = [request EXCEPT ![t] = "accepted"]
        /\ UNCHANGED overlapped
    BY <1>2 DEF EnqueueWrite
  <2>2. t # None
    BY QueueAssumption
  <2>3. CASE KeyOf[t] = None
    <3>1. UNCHANGED idempotency
      BY <1>2, <2>3 DEF EnqueueWrite
    <3> QED BY <2>1, <2>3, <3>1 DEF KeysOK, Types
  <2>4. CASE KeyOf[t] # None
    <3>1. KeyOf[t] \in Key /\ idempotency' = [idempotency EXCEPT ![KeyOf[t]] = t]
      BY <1>2, <2>4, QueueAssumption DEF EnqueueWrite
    <3>2. \A u \in Task : request'[u] = "accepted" /\ KeyOf[u] # None
                            => idempotency'[KeyOf[u]] # None
      BY <2>1, <2>2, <3>1, QueueAssumption DEF KeysOK, Types
    <3> QED BY <2>1, <3>2 DEF KeysOK, Types
  <2> QED BY <2>3, <2>4
<1>3. ASSUME NEW t \in Task, LeaseExpires(t)
      PROVE  KeysOK'
  BY <1>3 DEF KeysOK, LeaseExpires, enqueueVars
<1>4. ASSUME NEW t \in Task, DeadlinePasses(t)
      PROVE  KeysOK'
  BY <1>4 DEF KeysOK, DeadlinePasses, enqueueVars
<1>5. ASSUME NEW w \in Worker, Verify(w)
      PROVE  KeysOK'
  BY <1>5 DEF KeysOK, Verify, enqueueVars
<1>6. ASSUME NEW w \in Worker, Complete(w)
      PROVE  KeysOK'
  BY <1>6 DEF KeysOK, Complete, enqueueVars
<1>7. ASSUME NEW w \in Worker, CompleteError(w)
      PROVE  KeysOK'
  BY <1>7 DEF KeysOK, CompleteError, enqueueVars
<1>8. ASSUME NEW w \in Worker, Fail(w)
      PROVE  KeysOK'
  BY <1>8 DEF KeysOK, Fail, enqueueVars
<1>9. ASSUME NEW w \in Worker, FailError(w)
      PROVE  KeysOK'
  BY <1>9 DEF KeysOK, FailError, enqueueVars
<1>10. ASSUME NEW w \in Worker, Heartbeat(w)
      PROVE  KeysOK'
  BY <1>10 DEF KeysOK, Heartbeat, enqueueVars
<1>11. ASSUME NEW w \in Worker, NEW t \in Task, Claim(w, t)
      PROVE  KeysOK'
  BY <1>11 DEF KeysOK, Claim, enqueueVars
<1>12. ASSUME NEW w \in Worker, NEW t \in Task, ClaimLost(w, t)
      PROVE  KeysOK'
  BY <1>12 DEF KeysOK, ClaimLost, enqueueVars
<1>13. ASSUME NEW p \in Process, RecoverStart(p)
      PROVE  KeysOK'
  BY <1>13 DEF KeysOK, RecoverStart, enqueueVars
<1>14. ASSUME NEW p \in Process, RecoverWrite(p)
      PROVE  KeysOK'
  BY <1>14 DEF KeysOK, RecoverWrite, enqueueVars
<1>15. ASSUME NEW p \in Process, StopWorkers(p)
      PROVE  KeysOK'
  BY <1>15 DEF KeysOK, StopWorkers, enqueueVars
<1>16. ASSUME NEW p \in Process, Exit(p)
      PROVE  KeysOK'
  BY <1>16 DEF KeysOK, Exit, enqueueVars
<1>17. ASSUME NEW p \in Process, NEW t \in Task, RecoverRead(p, t)
      PROVE  KeysOK'
  BY <1>17 DEF KeysOK, RecoverRead, enqueueVars
<1>18. ASSUME NEW p \in Process, NEW t \in Task, RequeueActive(p, t)
      PROVE  KeysOK'
  BY <1>18 DEF KeysOK, RequeueActive, enqueueVars
<1>19. ASSUME NEW a \in Admin, RequeueWrite(a)
      PROVE  KeysOK'
  BY <1>19 DEF KeysOK, RequeueWrite, enqueueVars
<1>20. ASSUME NEW a \in Admin, NEW t \in Task, RequeueRead(a, t)
      PROVE  KeysOK'
  BY <1>20 DEF KeysOK, RequeueRead, HoldTask, enqueueVars
<1> QED
  BY <1>0, <1>1, <1>2, <1>3, <1>4, <1>5, <1>6, <1>7, <1>8, <1>9, <1>10, <1>11,
     <1>12, <1>13, <1>14, <1>15, <1>16, <1>17, <1>18, <1>19, <1>20 DEF Next,
     WorkerStep


\* A recovery loop only gets tasks whose lease has run out.
LEMMA LapsedStep ==
  ASSUME Types, LapsedOK, [Next]_vars
  PROVE  LapsedOK'
<1>0. CASE UNCHANGED vars
  BY <1>0 DEF LapsedOK, Types, NoRead, vars, recordVars, listVars,
     enqueueVars, workerVars, recoveryVars, adminVars, lapseVars
<1>1. ASSUME NEW t \in Task, EnqueueCheck(t)
      PROVE  LapsedOK'
  BY <1>1 DEF LapsedOK, Types, NoRead, EnqueueCheck, recordVars, listVars,
     workerVars, recoveryVars, adminVars, lapseVars
<1>2. ASSUME NEW t \in Task, EnqueueWrite(t)
      PROVE  LapsedOK'
  BY <1>2 DEF LapsedOK, Types, NoRead, EnqueueWrite, workerVars, recoveryVars,
     adminVars, lapseVars
<1>3. ASSUME NEW t \in Task, LeaseExpires(t)
      PROVE  LapsedOK'
  BY <1>3 DEF LapsedOK, Types, NoRead, LeaseExpires, recordVars, enqueueVars,
     workerVars, recoveryVars, adminVars, Fault
<1>4. ASSUME NEW t \in Task, DeadlinePasses(t)
      PROVE  LapsedOK'
  BY <1>4 DEF LapsedOK, Types, NoRead, DeadlinePasses, recordVars, listVars,
     enqueueVars, workerVars, recoveryVars, adminVars, lapseVars
<1>5. ASSUME NEW w \in Worker, Verify(w)
      PROVE  LapsedOK'
  BY <1>5 DEF LapsedOK, Types, NoRead, Verify, recordVars, listVars,
     enqueueVars, recoveryVars, adminVars, lapseVars
<1>6. ASSUME NEW w \in Worker, Complete(w)
      PROVE  LapsedOK'
  BY <1>6 DEF LapsedOK, Types, NoRead, Complete, enqueueVars, recoveryVars,
     adminVars, lapseVars, Done, Forget, CompleteScript, OutOfProcessing
<1>7. ASSUME NEW w \in Worker, CompleteError(w)
      PROVE  LapsedOK'
  BY <1>7 DEF LapsedOK, Types, NoRead, CompleteError, enqueueVars,
     recoveryVars, adminVars, lapseVars, Fault, Forget, CompleteScript,
     OutOfProcessing
<1>8. ASSUME NEW w \in Worker, Fail(w)
      PROVE  LapsedOK'
  BY <1>8 DEF LapsedOK, Types, NoRead, Fail, enqueueVars, recoveryVars,
     adminVars, lapseVars, Done, Forget, AfterFailure, PersistFailure,
     OutOfProcessing
<1>9. ASSUME NEW w \in Worker, FailError(w)
      PROVE  LapsedOK'
  BY <1>9 DEF LapsedOK, Types, NoRead, FailError, recordVars, listVars,
     enqueueVars, recoveryVars, adminVars, lapseVars, Fault, Done, Forget
<1>10. ASSUME NEW w \in Worker, Heartbeat(w)
      PROVE  LapsedOK'
  BY <1>10 DEF LapsedOK, Types, NoRead, Heartbeat, recordVars, enqueueVars,
     workerVars, recoveryVars, adminVars, lapseVars
<1>11. ASSUME NEW w \in Worker, NEW t \in Task, Claim(w, t)
      PROVE  LapsedOK'
  BY <1>11 DEF LapsedOK, Types, NoRead, Claim, enqueueVars, workerVars,
     recoveryVars, adminVars, lapseVars, TakeTask
<1>12. ASSUME NEW w \in Worker, NEW t \in Task, ClaimLost(w, t)
      PROVE  LapsedOK'
  BY <1>12 DEF LapsedOK, Types, NoRead, ClaimLost, enqueueVars, workerVars,
     recoveryVars, adminVars, lapseVars, Fault, TakeTask
<1>13. ASSUME NEW p \in Process, RecoverStart(p)
      PROVE  LapsedOK'
  BY <1>13 DEF LapsedOK, Types, NoRead, RecoverStart, recordVars, listVars,
     enqueueVars, workerVars, adminVars, lapseVars
<1>14. ASSUME NEW p \in Process, RecoverWrite(p)
      PROVE  LapsedOK'
  BY <1>14 DEF LapsedOK, Types, NoRead, RecoverWrite, enqueueVars, workerVars,
     adminVars, lapseVars, OutOfProcessing, PersistFailure
<1>15. ASSUME NEW p \in Process, StopWorkers(p)
      PROVE  LapsedOK'
  BY <1>15 DEF LapsedOK, Types, NoRead, StopWorkers, recordVars, listVars,
     enqueueVars, workerVars, recoveryVars, adminVars, lapseVars, Fault
<1>16. ASSUME NEW p \in Process, Exit(p)
      PROVE  LapsedOK'
  BY <1>16 DEF LapsedOK, Types, NoRead, Exit, recordVars, listVars,
     enqueueVars, adminVars, lapseVars, Fault
<1>17. ASSUME NEW p \in Process, NEW t \in Task, RecoverRead(p, t)
      PROVE  LapsedOK'
  BY <1>17 DEF LapsedOK, Types, NoRead, RecoverRead, recordVars, listVars,
     enqueueVars, workerVars, adminVars, lapseVars, Forget, AfterFailure
<1>18. ASSUME NEW p \in Process, NEW t \in Task, RequeueActive(p, t)
      PROVE  LapsedOK'
  BY <1>18 DEF LapsedOK, Types, NoRead, RequeueActive, enqueueVars,
     workerVars, recoveryVars, adminVars, Forget, PersistFailure,
     OutOfProcessing
<1>19. ASSUME NEW a \in Admin, RequeueWrite(a)
      PROVE  LapsedOK'
  BY <1>19 DEF LapsedOK, Types, NoRead, RequeueWrite, enqueueVars, workerVars,
     recoveryVars, lapseVars
<1>20. ASSUME NEW a \in Admin, NEW t \in Task, RequeueRead(a, t)
      PROVE  LapsedOK'
  BY <1>20 DEF LapsedOK, Types, NoRead, RequeueRead, HoldTask, recordVars, listVars,
     enqueueVars, workerVars, recoveryVars, lapseVars
<1> QED
  BY <1>0, <1>1, <1>2, <1>3, <1>4, <1>5, <1>6, <1>7, <1>8, <1>9, <1>10, <1>11,
     <1>12, <1>13, <1>14, <1>15, <1>16, <1>17, <1>18, <1>19, <1>20 DEF Next,
     WorkerStep


\* The lists follow the status of a task.
LEMMA ListsStep ==
  ASSUME Types, ListsAgree, Moved \/ \E x \in Task : Queued(x),
         doubled \subseteq doubled'
  PROVE  ListsAgree'
<1>1. CASE Same
  BY <1>1 DEF Same, ListsAgree
<1>2. ASSUME NEW t \in Task, Queued(t) PROVE ListsAgree'
  BY <1>2 DEF Types, Queued, MovedTo, ListsAgree, Waiting
<1>3. ASSUME NEW t \in Task, Taken(t) PROVE ListsAgree'
  BY <1>3 DEF Types, Taken, MovedTo, ListsAgree, Waiting
<1>4. ASSUME NEW t \in Task, Finished(t) PROVE ListsAgree'
  BY <1>4 DEF Types, Finished, MovedTo, ListsAgree, Waiting
<1>5. ASSUME NEW t \in Task, Retried(t) PROVE ListsAgree'
  BY <1>5 DEF Types, Retried, MovedTo, ListsAgree, Waiting
<1>6. ASSUME NEW t \in Task, GivenUp(t) PROVE ListsAgree'
  BY <1>6 DEF Types, GivenUp, MovedTo, ListsAgree, Waiting
<1>7. ASSUME NEW t \in Task, PutBack(t) PROVE ListsAgree'
  BY <1>7 DEF Types, PutBack, MovedTo, ListsAgree, Waiting
<1> QED BY <1>1, <1>2, <1>3, <1>4, <1>5, <1>6, <1>7 DEF Moved

\* What has happened to a task stays on record.
LEMMA HistoryGrows ==
  ASSUME [Next]_vars
  PROVE  /\ lapsed \subseteq lapsed' /\ interrupted \subseteq interrupted'
         /\ putBack \subseteq putBack' /\ doubled \subseteq doubled'
<1>0. CASE UNCHANGED vars
  BY <1>0 DEF vars, recordVars, listVars, enqueueVars, workerVars,
     recoveryVars, adminVars, lapseVars
<1>1. ASSUME NEW t \in Task, EnqueueCheck(t)
      PROVE  /\ lapsed \subseteq lapsed' /\ interrupted \subseteq interrupted'
             /\ putBack \subseteq putBack' /\ doubled \subseteq doubled'
  BY <1>1 DEF EnqueueCheck, lapseVars, adminVars
<1>2. ASSUME NEW t \in Task, EnqueueWrite(t)
      PROVE  /\ lapsed \subseteq lapsed' /\ interrupted \subseteq interrupted'
             /\ putBack \subseteq putBack' /\ doubled \subseteq doubled'
  BY <1>2 DEF EnqueueWrite, lapseVars, adminVars
<1>3. ASSUME NEW t \in Task, LeaseExpires(t)
      PROVE  /\ lapsed \subseteq lapsed' /\ interrupted \subseteq interrupted'
             /\ putBack \subseteq putBack' /\ doubled \subseteq doubled'
  BY <1>3 DEF LeaseExpires, lapseVars, adminVars
<1>4. ASSUME NEW t \in Task, DeadlinePasses(t)
      PROVE  /\ lapsed \subseteq lapsed' /\ interrupted \subseteq interrupted'
             /\ putBack \subseteq putBack' /\ doubled \subseteq doubled'
  BY <1>4 DEF DeadlinePasses, lapseVars, adminVars
<1>5. ASSUME NEW w \in Worker, Verify(w)
      PROVE  /\ lapsed \subseteq lapsed' /\ interrupted \subseteq interrupted'
             /\ putBack \subseteq putBack' /\ doubled \subseteq doubled'
  BY <1>5 DEF Verify, lapseVars, adminVars
<1>6. ASSUME NEW w \in Worker, Complete(w)
      PROVE  /\ lapsed \subseteq lapsed' /\ interrupted \subseteq interrupted'
             /\ putBack \subseteq putBack' /\ doubled \subseteq doubled'
  BY <1>6 DEF Complete, lapseVars, adminVars
<1>7. ASSUME NEW w \in Worker, CompleteError(w)
      PROVE  /\ lapsed \subseteq lapsed' /\ interrupted \subseteq interrupted'
             /\ putBack \subseteq putBack' /\ doubled \subseteq doubled'
  BY <1>7 DEF CompleteError, lapseVars, adminVars
<1>8. ASSUME NEW w \in Worker, Fail(w)
      PROVE  /\ lapsed \subseteq lapsed' /\ interrupted \subseteq interrupted'
             /\ putBack \subseteq putBack' /\ doubled \subseteq doubled'
  BY <1>8 DEF Fail, lapseVars, adminVars
<1>9. ASSUME NEW w \in Worker, FailError(w)
      PROVE  /\ lapsed \subseteq lapsed' /\ interrupted \subseteq interrupted'
             /\ putBack \subseteq putBack' /\ doubled \subseteq doubled'
  BY <1>9 DEF FailError, lapseVars, adminVars
<1>10. ASSUME NEW w \in Worker, Heartbeat(w)
      PROVE  /\ lapsed \subseteq lapsed' /\ interrupted \subseteq interrupted'
             /\ putBack \subseteq putBack' /\ doubled \subseteq doubled'
  BY <1>10 DEF Heartbeat, lapseVars, adminVars
<1>11. ASSUME NEW w \in Worker, NEW t \in Task, Claim(w, t)
      PROVE  /\ lapsed \subseteq lapsed' /\ interrupted \subseteq interrupted'
             /\ putBack \subseteq putBack' /\ doubled \subseteq doubled'
  BY <1>11 DEF Claim, lapseVars, adminVars
<1>12. ASSUME NEW w \in Worker, NEW t \in Task, ClaimLost(w, t)
      PROVE  /\ lapsed \subseteq lapsed' /\ interrupted \subseteq interrupted'
             /\ putBack \subseteq putBack' /\ doubled \subseteq doubled'
  BY <1>12 DEF ClaimLost, lapseVars, adminVars
<1>13. ASSUME NEW p \in Process, RecoverStart(p)
      PROVE  /\ lapsed \subseteq lapsed' /\ interrupted \subseteq interrupted'
             /\ putBack \subseteq putBack' /\ doubled \subseteq doubled'
  BY <1>13 DEF RecoverStart, lapseVars, adminVars
<1>14. ASSUME NEW p \in Process, RecoverWrite(p)
      PROVE  /\ lapsed \subseteq lapsed' /\ interrupted \subseteq interrupted'
             /\ putBack \subseteq putBack' /\ doubled \subseteq doubled'
  BY <1>14 DEF RecoverWrite, lapseVars, adminVars
<1>15. ASSUME NEW p \in Process, StopWorkers(p)
      PROVE  /\ lapsed \subseteq lapsed' /\ interrupted \subseteq interrupted'
             /\ putBack \subseteq putBack' /\ doubled \subseteq doubled'
  BY <1>15 DEF StopWorkers, lapseVars, adminVars
<1>16. ASSUME NEW p \in Process, Exit(p)
      PROVE  /\ lapsed \subseteq lapsed' /\ interrupted \subseteq interrupted'
             /\ putBack \subseteq putBack' /\ doubled \subseteq doubled'
  BY <1>16 DEF Exit, lapseVars, adminVars
<1>17. ASSUME NEW p \in Process, NEW t \in Task, RecoverRead(p, t)
      PROVE  /\ lapsed \subseteq lapsed' /\ interrupted \subseteq interrupted'
             /\ putBack \subseteq putBack' /\ doubled \subseteq doubled'
  BY <1>17 DEF RecoverRead, lapseVars, adminVars
<1>18. ASSUME NEW p \in Process, NEW t \in Task, RequeueActive(p, t)
      PROVE  /\ lapsed \subseteq lapsed' /\ interrupted \subseteq interrupted'
             /\ putBack \subseteq putBack' /\ doubled \subseteq doubled'
  BY <1>18 DEF RequeueActive, lapseVars, adminVars
<1>19. ASSUME NEW a \in Admin, RequeueWrite(a)
      PROVE  /\ lapsed \subseteq lapsed' /\ interrupted \subseteq interrupted'
             /\ putBack \subseteq putBack' /\ doubled \subseteq doubled'
  BY <1>19 DEF RequeueWrite, lapseVars, adminVars
<1>20. ASSUME NEW a \in Admin, NEW t \in Task, RequeueRead(a, t)
      PROVE  /\ lapsed \subseteq lapsed' /\ interrupted \subseteq interrupted'
             /\ putBack \subseteq putBack' /\ doubled \subseteq doubled'
  BY <1>20 DEF RequeueRead, HoldTask, lapseVars, adminVars
<1> QED
  BY <1>0, <1>1, <1>2, <1>3, <1>4, <1>5, <1>6, <1>7, <1>8, <1>9, <1>10, <1>11,
     <1>12, <1>13, <1>14, <1>15, <1>16, <1>17, <1>18, <1>19, <1>20 DEF Next,
     WorkerStep


\* The worker that owns a task counts its attempts.
LEMMA LeaseStep ==
  ASSUME Types, ActorsOK, AdminsOK, RequestsOK, ListsAgree, LapsedOK,
         [Next]_vars, NEW x \in Task,
         x \notin lapsed' \cup interrupted', LeaseOf(x)
  PROVE  LeaseOf(x)'
<1>l. x \notin lapsed \cup interrupted
  BY HistoryGrows
<1>n. attempts[x] \in Nat /\ MaxRetries \in Nat
  BY QueueAssumption DEF Types
<1>0. CASE UNCHANGED vars
  BY <1>0 DEF LeaseOf, Works, workerVars, recordVars, vars
<1>1. ASSUME NEW t \in Task, EnqueueCheck(t)
      PROVE  LeaseOf(x)'
  BY <1>1 DEF LeaseOf, Works, EnqueueCheck, recordVars, workerVars
<1>2. ASSUME NEW t \in Task, EnqueueWrite(t)
      PROVE  LeaseOf(x)'
  <2>1. status[t] = "new" /\ status' = [status EXCEPT ![t] = "queued"]
    BY <1>2 DEF EnqueueWrite, RequestsOK
  <2>2. UNCHANGED <<workerId, attempts, workerVars>>
    BY <1>2 DEF EnqueueWrite
  <2>3. status'[x] \in Waiting \cup {"new"} => status[x] \in Waiting \cup {"new"}
    BY <2>1 DEF Types
  <2> QED BY <2>2, <2>3 DEF workerVars, Works, LeaseOf
<1>3. ASSUME NEW t \in Task, LeaseExpires(t)
      PROVE  LeaseOf(x)'
  BY <1>3 DEF LeaseOf, Works, LeaseExpires, recordVars, workerVars
<1>4. ASSUME NEW t \in Task, DeadlinePasses(t)
      PROVE  LeaseOf(x)'
  BY <1>4 DEF LeaseOf, Works, DeadlinePasses, recordVars, workerVars
<1>5. ASSUME NEW w \in Worker, Verify(w)
      PROVE  LeaseOf(x)'
  BY <1>5 DEF LeaseOf, Works, Types, Verify, Done, recordVars
<1>6. ASSUME NEW w \in Worker, Complete(w)
      PROVE  LeaseOf(x)'
  <2>1. job[w] \in Task
    BY <1>6 DEF Complete, ActorsOK
  <2>2. UNCHANGED <<workerId, attempts>>
    BY <1>6 DEF Complete
  <2>3. status'[x] = status[x] \/ status'[x] = "completed"
    BY <1>6, <2>1 DEF Complete, CompleteScript, Types
  <2>4. \A v \in Worker : Works(v, x)' => Works(v, x) /\ tries'[v] = tries[v]
    BY <1>6 DEF Complete, Done, Works, Types
  <2> QED BY <2>2, <2>3, <2>4 DEF LeaseOf, Waiting
<1>7. ASSUME NEW w \in Worker, CompleteError(w)
      PROVE  LeaseOf(x)'
  <2>1. job[w] \in Task
    BY <1>7 DEF CompleteError, ActorsOK
  <2>2. UNCHANGED <<workerId, attempts>>
    BY <1>7 DEF CompleteError
  <2>3. status'[x] = status[x] \/ status'[x] = "completed"
    BY <1>7, <2>1 DEF CompleteError, CompleteScript, Types
  <2>4. \A v \in Worker : Works(v, x)' => Works(v, x) /\ tries'[v] = tries[v]
    BY <1>7 DEF CompleteError, Done, Works, Types
  <2> QED BY <2>2, <2>3, <2>4 DEF LeaseOf, Waiting
<1>8. ASSUME NEW w \in Worker, Fail(w)
      PROVE  LeaseOf(x)'
  <2>1. job[w] \in Task /\ Works(w, job[w])
    BY <1>8 DEF Fail, ActorsOK, Works
  <2>2. UNCHANGED <<workerId, attempts>>
    BY <1>8 DEF Fail
  <2>3. \A v \in Worker : Works(v, x)' => Works(v, x) /\ tries'[v] = tries[v] /\ v # w
    BY <1>8 DEF Fail, Done, Works, Types
  <2>4. CASE status'[x] = status[x]
    BY <2>2, <2>3, <2>4 DEF LeaseOf
  <2>5. CASE status'[x] # status[x]
    <3>1. /\ x = job[w] /\ workerId[x] = w
          /\ status'[x] = AfterFailure(x, tries[w])
      BY <1>8, <2>1, <2>5 DEF Fail, PersistFailure, Types
    <3>2. tries[w] = attempts[x]
      BY <2>1, <3>1 DEF LeaseOf
    <3>3. \A v \in Worker : Works(v, x)' => workerId'[x] # v
      BY <2>2, <2>3, <3>1
    <3>4. status'[x] \in Waiting \cup {"new"} => attempts[x] <= MaxRetries
      BY <3>1, <3>2 DEF AfterFailure, Waiting
    <3> QED BY <2>2, <3>3, <3>4 DEF LeaseOf
  <2> QED BY <2>4, <2>5
<1>9. ASSUME NEW w \in Worker, FailError(w)
      PROVE  LeaseOf(x)'
  BY <1>9 DEF LeaseOf, Works, Types, FailError, Done, recordVars
<1>10. ASSUME NEW w \in Worker, Heartbeat(w)
      PROVE  LeaseOf(x)'
  BY <1>10 DEF LeaseOf, Works, Heartbeat, recordVars, workerVars
<1>11. ASSUME NEW w \in Worker, NEW t \in Task, Claim(w, t)
      PROVE  LeaseOf(x)'
  <2>1. Taken(t) /\ workerId' = [workerId EXCEPT ![t] = w] /\ status[t] \in Waiting
    BY <1>11, TakeMoves DEF Claim, Taken, MovedTo
  <2>2. /\ wpc' = [wpc EXCEPT ![w] = "verify"]
        /\ job' = [job EXCEPT ![w] = t]
        /\ tries' = [tries EXCEPT ![w] = attempts[t] + 1]
        /\ wpc[w] = "idle"
    BY <1>11, <2>1 DEF Claim
  <2>3. CASE x = t
    <3>3. attempts'[x] = attempts[x] + 1 /\ status'[x] = "processing"
          /\ workerId'[x] = w /\ tries'[w] = attempts[x] + 1
      BY <2>1, <2>2, <2>3 DEF Taken, MovedTo, Types
    <3>4. attempts[x] <= MaxRetries
      BY <2>1, <2>3 DEF LeaseOf
    <3> QED BY <1>n, <3>3, <3>4 DEF LeaseOf, Waiting
  <2>4. CASE x # t
    <3>1. /\ status'[x] = status[x] /\ workerId'[x] = workerId[x]
          /\ attempts'[x] = attempts[x]
      BY <2>1, <2>4 DEF Taken, MovedTo, Types
    <3>2. \A v \in Worker : Works(v, x)' => Works(v, x) /\ tries'[v] = tries[v]
      BY <2>2, <2>4 DEF Works, Types
    <3> QED BY <3>1, <3>2 DEF LeaseOf
  <2> QED BY <2>3, <2>4
<1>12. ASSUME NEW w \in Worker, NEW t \in Task, ClaimLost(w, t)
      PROVE  LeaseOf(x)'
  <2>1. Taken(t) /\ workerId' = [workerId EXCEPT ![t] = w] /\ status[t] \in Waiting
    BY <1>12, TakeMoves DEF ClaimLost, Taken, MovedTo
  <2>2. UNCHANGED <<wpc, job, tries>>
    BY <1>12 DEF ClaimLost, workerVars
  <2>3. CASE x = t
    <3>1. workerId'[x] = w /\ ~Works(w, x)'
      BY <1>12, <2>1, <2>2, <2>3 DEF ClaimLost, Types, Works
    <3>2. attempts'[x] = attempts[x] + 1 /\ status'[x] = "processing"
      BY <2>1, <2>3 DEF Taken, MovedTo, Types
    <3>3. attempts[x] <= MaxRetries
      BY <2>1, <2>3 DEF LeaseOf
    <3> QED BY <1>n, <3>1, <3>2, <3>3 DEF LeaseOf, Waiting
  <2>4. CASE x # t
    <3>1. /\ status'[x] = status[x] /\ workerId'[x] = workerId[x]
          /\ attempts'[x] = attempts[x]
      BY <2>1, <2>4 DEF Taken, MovedTo, Types
    <3> QED BY <2>2, <3>1 DEF LeaseOf, Works
  <2> QED BY <2>3, <2>4
<1>13. ASSUME NEW p \in Process, RecoverStart(p)
      PROVE  LeaseOf(x)'
  BY <1>13 DEF LeaseOf, Works, RecoverStart, recordVars, workerVars
<1>14. ASSUME NEW p \in Process, RecoverWrite(p)
      PROVE  LeaseOf(x)'
  <2>1. seen[p].task \in lapsed /\ seen[p].task \in Task
    BY <1>14 DEF RecoverWrite, LapsedOK, ActorsOK
  <2>2. status'[x] = status[x]
    BY <1>14, <1>l, <2>1 DEF RecoverWrite, PersistFailure, Types
  <2> QED BY <1>14, <2>2 DEF LeaseOf, Works, RecoverWrite, workerVars
<1>15. ASSUME NEW p \in Process, StopWorkers(p)
      PROVE  LeaseOf(x)'
  BY <1>15 DEF LeaseOf, Works, StopWorkers, recordVars, workerVars
<1>16. ASSUME NEW p \in Process, Exit(p)
      PROVE  LeaseOf(x)'
  <2>1. UNCHANGED <<status, workerId, attempts>>
    BY <1>16 DEF Exit, recordVars
  <2>2. \A w \in Worker : wpc'[w] # "idle" =>
          job'[w] = job[w] /\ wpc'[w] = wpc[w] /\ tries'[w] = tries[w]
    BY <1>16 DEF Exit
  <2> QED BY <2>1, <2>2 DEF LeaseOf, Works
<1>17. ASSUME NEW p \in Process, NEW t \in Task, RecoverRead(p, t)
      PROVE  LeaseOf(x)'
  BY <1>17 DEF LeaseOf, Works, RecoverRead, recordVars, workerVars
<1>18. ASSUME NEW p \in Process, NEW t \in Task, RequeueActive(p, t)
      PROVE  LeaseOf(x)'
  <2>1. x # t
    BY <1>18 DEF RequeueActive
  <2>2. status'[x] = status[x]
    BY <1>18, <2>1 DEF RequeueActive, PersistFailure, Types
  <2> QED BY <1>18, <2>2 DEF LeaseOf, Works, RequeueActive, workerVars
<1>19. ASSUME NEW a \in Admin, RequeueWrite(a)
      PROVE  LeaseOf(x)'
  <2>1. admin[a] \in Task
    BY <1>19 DEF RequeueWrite, Types
  <2>2. CASE x = admin[a]
    <3>1. attempts'[x] = 0 /\ workerId'[x] = None
      BY <1>19, <2>2 DEF RequeueWrite, Types
    <3> QED BY <1>n, <3>1, QueueAssumption DEF LeaseOf
  <2>3. CASE x # admin[a]
    BY <1>19, <2>1, <2>3 DEF RequeueWrite, workerVars, Works, LeaseOf, Types
  <2> QED BY <2>2, <2>3
<1>20. ASSUME NEW a \in Admin, NEW t \in Task, RequeueRead(a, t)
      PROVE  LeaseOf(x)'
  BY <1>20 DEF LeaseOf, Works, RequeueRead, HoldTask, recordVars, workerVars
<1> QED
  BY <1>0, <1>1, <1>2, <1>3, <1>4, <1>5, <1>6, <1>7, <1>8, <1>9, <1>10, <1>11,
     <1>12, <1>13, <1>14, <1>15, <1>16, <1>17, <1>18, <1>19, <1>20 DEF Next,
     WorkerStep


\* A worker keeps a task that nobody takes away from it.
LEMMA OwnerStep ==
  ASSUME Types, ActorsOK, AdminsOK, RequestsOK, ListsAgree, LapsedOK,
         [Next]_vars, NEW x \in Task,
         x \notin lapsed' \cup interrupted' \cup doubled', OwnerOf(x)
  PROVE  OwnerOf(x)'
<1>l. x \notin lapsed \cup interrupted \cup doubled
  BY HistoryGrows
<1>0. CASE UNCHANGED vars
  BY <1>0 DEF OwnerOf, Works, workerVars, recordVars, vars
<1>1. ASSUME NEW t \in Task, EnqueueCheck(t)
      PROVE  OwnerOf(x)'
  BY <1>1 DEF OwnerOf, Works, EnqueueCheck, recordVars, workerVars
<1>2. ASSUME NEW t \in Task, EnqueueWrite(t)
      PROVE  OwnerOf(x)'
  <2>1. status[t] = "new" /\ status' = [status EXCEPT ![t] = "queued"]
    BY <1>2 DEF EnqueueWrite, RequestsOK
  <2>2. UNCHANGED <<workerId, workerVars>>
    BY <1>2 DEF EnqueueWrite
  <2> QED BY <2>1, <2>2 DEF workerVars, Works, OwnerOf, Types
<1>3. ASSUME NEW t \in Task, LeaseExpires(t)
      PROVE  OwnerOf(x)'
  BY <1>3 DEF OwnerOf, Works, LeaseExpires, recordVars, workerVars
<1>4. ASSUME NEW t \in Task, DeadlinePasses(t)
      PROVE  OwnerOf(x)'
  BY <1>4 DEF OwnerOf, Works, DeadlinePasses, recordVars, workerVars
<1>5. ASSUME NEW w \in Worker, Verify(w)
      PROVE  OwnerOf(x)'
  BY <1>5 DEF OwnerOf, Works, Types, Verify, Done, recordVars
<1>6. ASSUME NEW w \in Worker, Complete(w)
      PROVE  OwnerOf(x)'
  <2>1. job[w] \in Task /\ UNCHANGED workerId
    BY <1>6 DEF Complete, ActorsOK
  <2>2. status'[x] = status[x] \/ status'[x] = "completed"
    BY <1>6, <2>1 DEF Complete, CompleteScript, Types
  <2>3. \A v \in Worker : Works(v, x)' => Works(v, x)
    BY <1>6 DEF Complete, Done, Works, Types
  <2> QED BY <2>1, <2>2, <2>3 DEF OwnerOf
<1>7. ASSUME NEW w \in Worker, CompleteError(w)
      PROVE  OwnerOf(x)'
  <2>1. job[w] \in Task /\ UNCHANGED workerId
    BY <1>7 DEF CompleteError, ActorsOK
  <2>2. status'[x] = status[x] \/ status'[x] = "completed"
    BY <1>7, <2>1 DEF CompleteError, CompleteScript, Types
  <2>3. \A v \in Worker : Works(v, x)' => Works(v, x)
    BY <1>7 DEF CompleteError, Done, Works, Types
  <2> QED BY <2>1, <2>2, <2>3 DEF OwnerOf
<1>8. ASSUME NEW w \in Worker, Fail(w)
      PROVE  OwnerOf(x)'
  <2>1. job[w] \in Task /\ UNCHANGED workerId
    BY <1>8 DEF Fail, ActorsOK
  <2>2. \A v \in Worker : Works(v, x)' => Works(v, x) /\ v # w
    BY <1>8 DEF Fail, Done, Works, Types
  <2>3. CASE status'[x] = status[x]
    BY <2>1, <2>2, <2>3 DEF OwnerOf
  <2>4. CASE status'[x] # status[x]
    <3>1. workerId[x] = w
      BY <1>8, <2>1, <2>4 DEF Fail, PersistFailure, Types
    <3> QED BY <2>2, <3>1 DEF OwnerOf
  <2> QED BY <2>3, <2>4
<1>9. ASSUME NEW w \in Worker, FailError(w)
      PROVE  OwnerOf(x)'
  BY <1>9 DEF OwnerOf, Works, Types, FailError, Done, recordVars
<1>10. ASSUME NEW w \in Worker, Heartbeat(w)
      PROVE  OwnerOf(x)'
  BY <1>10 DEF OwnerOf, Works, Heartbeat, recordVars, workerVars
<1>11. ASSUME NEW w \in Worker, NEW t \in Task, Claim(w, t)
      PROVE  OwnerOf(x)'
  <2>1. Taken(t) /\ workerId' = [workerId EXCEPT ![t] = w] /\ status[t] \in Waiting
    BY <1>11, TakeMoves DEF Claim, Taken, MovedTo
  <2>2. /\ wpc' = [wpc EXCEPT ![w] = "verify"]
        /\ job' = [job EXCEPT ![w] = t]
        /\ wpc[w] = "idle"
    BY <1>11, <2>1 DEF Claim
  <2>3. CASE x = t
    <3>1. \A v \in Worker : ~Works(v, x)
      BY <2>1, <2>3 DEF OwnerOf, Waiting
    <3>2. \A v \in Worker : Works(v, x)' => v = w
      BY <2>2, <3>1 DEF Works, Types
    <3>3. status'[x] = "processing" /\ workerId'[x] = w
      BY <2>1, <2>3 DEF Taken, MovedTo, Types
    <3> QED BY <3>2, <3>3 DEF OwnerOf
  <2>4. CASE x # t
    <3>1. status'[x] = status[x] /\ workerId'[x] = workerId[x]
      BY <2>1, <2>4 DEF Taken, MovedTo, Types
    <3>2. \A v \in Worker : Works(v, x)' => Works(v, x)
      BY <2>2, <2>4 DEF Works, Types
    <3> QED BY <3>1, <3>2 DEF OwnerOf
  <2> QED BY <2>3, <2>4
<1>12. ASSUME NEW w \in Worker, NEW t \in Task, ClaimLost(w, t)
      PROVE  OwnerOf(x)'
  <2>1. Taken(t) /\ workerId' = [workerId EXCEPT ![t] = w] /\ status[t] \in Waiting
    BY <1>12, TakeMoves DEF ClaimLost, Taken, MovedTo
  <2>2. UNCHANGED <<wpc, job>>
    BY <1>12 DEF ClaimLost, workerVars
  <2>3. CASE x = t
    BY <2>1, <2>2, <2>3 DEF OwnerOf, Waiting, Works
  <2>4. CASE x # t
    <3>1. status'[x] = status[x] /\ workerId'[x] = workerId[x]
      BY <2>1, <2>4 DEF Taken, MovedTo, Types
    <3> QED BY <2>2, <3>1 DEF OwnerOf, Works
  <2> QED BY <2>3, <2>4
<1>13. ASSUME NEW p \in Process, RecoverStart(p)
      PROVE  OwnerOf(x)'
  BY <1>13 DEF OwnerOf, Works, RecoverStart, recordVars, workerVars
<1>14. ASSUME NEW p \in Process, RecoverWrite(p)
      PROVE  OwnerOf(x)'
  <2>1. seen[p].task \in lapsed /\ seen[p].task \in Task
    BY <1>14 DEF RecoverWrite, LapsedOK, ActorsOK
  <2>2. status'[x] = status[x]
    BY <1>14, <1>l, <2>1 DEF RecoverWrite, PersistFailure, Types
  <2> QED BY <1>14, <2>2 DEF OwnerOf, Works, RecoverWrite, workerVars
<1>15. ASSUME NEW p \in Process, StopWorkers(p)
      PROVE  OwnerOf(x)'
  BY <1>15 DEF OwnerOf, Works, StopWorkers, recordVars, workerVars
<1>16. ASSUME NEW p \in Process, Exit(p)
      PROVE  OwnerOf(x)'
  <2>1. UNCHANGED <<status, workerId>>
    BY <1>16 DEF Exit, recordVars
  <2>2. \A w \in Worker : wpc'[w] # "idle" =>
          job'[w] = job[w] /\ wpc'[w] = wpc[w]
    BY <1>16 DEF Exit
  <2> QED BY <2>1, <2>2 DEF OwnerOf, Works
<1>17. ASSUME NEW p \in Process, NEW t \in Task, RecoverRead(p, t)
      PROVE  OwnerOf(x)'
  BY <1>17 DEF OwnerOf, Works, RecoverRead, recordVars, workerVars
<1>18. ASSUME NEW p \in Process, NEW t \in Task, RequeueActive(p, t)
      PROVE  OwnerOf(x)'
  <2>1. x # t
    BY <1>18 DEF RequeueActive
  <2>2. status'[x] = status[x]
    BY <1>18, <2>1 DEF RequeueActive, PersistFailure, Types
  <2> QED BY <1>18, <2>2 DEF OwnerOf, Works, RequeueActive, workerVars
<1>19. ASSUME NEW a \in Admin, RequeueWrite(a)
      PROVE  OwnerOf(x)'
  <2>1. admin[a] \in Task /\ UNCHANGED <<wpc, job>>
    BY <1>19 DEF RequeueWrite, workerVars, Types
  <2>2. CASE x = admin[a]
    <3>1. status[x] = "dead_letter"
      BY <1>19, <1>l, <2>2 DEF RequeueWrite, AdminsOK
    <3> QED BY <2>1, <3>1 DEF OwnerOf, Works
  <2>3. CASE x # admin[a]
    BY <1>19, <2>1, <2>3 DEF RequeueWrite, Works, OwnerOf, Types
  <2> QED BY <2>2, <2>3
<1>20. ASSUME NEW a \in Admin, NEW t \in Task, RequeueRead(a, t)
      PROVE  OwnerOf(x)'
  BY <1>20 DEF OwnerOf, Works, RequeueRead, HoldTask, recordVars, workerVars
<1> QED
  BY <1>0, <1>1, <1>2, <1>3, <1>4, <1>5, <1>6, <1>7, <1>8, <1>9, <1>10, <1>11,
     <1>12, <1>13, <1>14, <1>15, <1>16, <1>17, <1>18, <1>19, <1>20 DEF Next,
     WorkerStep


\* A copy of the attempts never exceeds the record, so what is given up by it
\* is rightly given up.
LEMMA JustStep ==
  ASSUME Types, ActorsOK, AdminsOK, RequestsOK, ListsAgree, [Next]_vars,
         NEW x \in Task, x \notin putBack', JustOf(x)
  PROVE  JustOf(x)'
<1>n. attempts[x] \in Nat /\ MaxRetries \in Nat
  BY QueueAssumption DEF Types
<1>0. CASE UNCHANGED vars
  BY <1>0 DEF JustOf, Spent, Works, workerVars, recordVars, recoveryVars, vars
<1>1. ASSUME NEW t \in Task, EnqueueCheck(t)
      PROVE  JustOf(x)'
  BY <1>1 DEF JustOf, Spent, Works, EnqueueCheck, recordVars, workerVars,
     recoveryVars
<1>2. ASSUME NEW t \in Task, EnqueueWrite(t)
      PROVE  JustOf(x)'
  <2>1. status'[x] = "dead_letter" => status[x] = "dead_letter"
    BY <1>2 DEF EnqueueWrite, Types
  <2> QED BY <1>2, <2>1 DEF JustOf, Spent, Works, EnqueueWrite, workerVars,
       recoveryVars
<1>3. ASSUME NEW t \in Task, LeaseExpires(t)
      PROVE  JustOf(x)'
  BY <1>3 DEF JustOf, Spent, Works, LeaseExpires, recordVars, workerVars,
     recoveryVars
<1>4. ASSUME NEW t \in Task, DeadlinePasses(t)
      PROVE  JustOf(x)'
  BY <1>4 DEF JustOf, Spent, Works, DeadlinePasses, recordVars, workerVars,
     recoveryVars
<1>5. ASSUME NEW w \in Worker, Verify(w)
      PROVE  JustOf(x)'
  BY <1>5 DEF JustOf, Spent, Works, Verify, recordVars, recoveryVars, Types
<1>6. ASSUME NEW w \in Worker, Complete(w)
      PROVE  JustOf(x)'
  <2>1. UNCHANGED <<attempts, seen, late>>
    BY <1>6 DEF Complete, recoveryVars
  <2>2. job[w] \in Task
    BY <1>6 DEF Complete, ActorsOK
  <2>3. status'[x] = status[x] \/ status'[x] = "completed"
    BY <1>6, <2>2 DEF Complete, CompleteScript, Types
  <2>4. \A v \in Worker : Works(v, x)' => Works(v, x) /\ tries'[v] = tries[v]
    BY <1>6 DEF Complete, Done, Works, Types
  <2> QED BY <2>1, <2>3, <2>4 DEF JustOf, Spent
<1>7. ASSUME NEW w \in Worker, CompleteError(w)
      PROVE  JustOf(x)'
  <2>1. UNCHANGED <<attempts, seen, late>>
    BY <1>7 DEF CompleteError, recoveryVars
  <2>2. job[w] \in Task
    BY <1>7 DEF CompleteError, ActorsOK
  <2>3. status'[x] = status[x] \/ status'[x] = "completed"
    BY <1>7, <2>2 DEF CompleteError, CompleteScript, Types
  <2>4. \A v \in Worker : Works(v, x)' => Works(v, x) /\ tries'[v] = tries[v]
    BY <1>7 DEF CompleteError, Done, Works, Types
  <2> QED BY <2>1, <2>3, <2>4 DEF JustOf, Spent
<1>8. ASSUME NEW w \in Worker, Fail(w)
      PROVE  JustOf(x)'
  <2>1. UNCHANGED <<attempts, seen, late>>
    BY <1>8 DEF Fail, recoveryVars
  <2>2. \A v \in Worker : Works(v, x)' => Works(v, x) /\ tries'[v] = tries[v]
    BY <1>8 DEF Fail, Done, Works, Types
  <2>3. job[w] \in Task /\ Works(w, job[w])
    BY <1>8 DEF Fail, ActorsOK, Works
  <2>4. CASE status'[x] = status[x]
    BY <2>1, <2>2, <2>4 DEF JustOf, Spent
  <2>5. CASE status'[x] # status[x]
    <3>1. x = job[w] /\ status'[x] = AfterFailure(x, tries[w])
      BY <1>8, <2>3, <2>5 DEF Fail, PersistFailure, Types
    <3>2. tries[w] \in Nat /\ tries[w] <= attempts[x]
      BY <2>3, <3>1 DEF JustOf, Types
    <3>3. status'[x] = "dead_letter" => Spent(x)
      BY <1>n, <3>1, <3>2 DEF AfterFailure, Spent
    <3> QED BY <2>1, <2>2, <3>3 DEF JustOf, Spent
  <2> QED BY <2>4, <2>5
<1>9. ASSUME NEW w \in Worker, FailError(w)
      PROVE  JustOf(x)'
  <2>1. \A v \in Worker : Works(v, x)' => Works(v, x) /\ tries'[v] = tries[v]
    BY <1>9 DEF FailError, Done, Works, Types
  <2> QED BY <1>9, <2>1 DEF JustOf, Spent, FailError, recordVars, recoveryVars
<1>10. ASSUME NEW w \in Worker, Heartbeat(w)
      PROVE  JustOf(x)'
  BY <1>10 DEF JustOf, Spent, Works, Heartbeat, recordVars, workerVars,
     recoveryVars
<1>11. ASSUME NEW w \in Worker, NEW t \in Task, Claim(w, t)
      PROVE  JustOf(x)'
  <2>1. Taken(t) /\ status[t] \in Waiting
    BY <1>11, TakeMoves DEF Claim, Taken, MovedTo
  <2>2. /\ attempts'[x] \in Nat /\ attempts'[x] >= attempts[x]
        /\ status'[x] = "dead_letter" => status[x] = "dead_letter"
    BY <1>n, <2>1 DEF Taken, MovedTo, Types
  <2>3. \A v \in Worker : Works(v, x)' => tries'[v] \in Nat /\ tries'[v] <= attempts'[x]
    <3> SUFFICES ASSUME NEW v \in Worker, Works(v, x)'
                 PROVE  tries'[v] \in Nat /\ tries'[v] <= attempts'[x]
      OBVIOUS
    <3>1. CASE v = w
      BY <1>11, <1>n, <2>1, <3>1 DEF Claim, Works, Types, Taken
    <3>2. CASE v # w
      <4>1. Works(v, x) /\ tries'[v] = tries[v]
        BY <1>11, <2>1, <3>2 DEF Claim, Works, Types
      <4>2. tries[v] \in Nat /\ tries[v] <= attempts[x]
        BY <4>1 DEF JustOf, Types
      <4> QED BY <1>n, <2>2, <4>1, <4>2
    <3> QED BY <3>1, <3>2
  <2>4. UNCHANGED <<seen, late>>
    BY <1>11 DEF Claim, recoveryVars
  <2> QED BY <1>n, <2>2, <2>3, <2>4 DEF JustOf, Spent
<1>12. ASSUME NEW w \in Worker, NEW t \in Task, ClaimLost(w, t)
      PROVE  JustOf(x)'
  <2>1. Taken(t) /\ status[t] \in Waiting
    BY <1>12, TakeMoves DEF ClaimLost, Taken, MovedTo
  <2>2. /\ attempts'[x] \in Nat /\ attempts'[x] >= attempts[x]
        /\ status'[x] = "dead_letter" => status[x] = "dead_letter"
    BY <1>n, <2>1 DEF Taken, MovedTo, Types
  <2>3. \A v \in Worker : Works(v, x)' => tries'[v] \in Nat /\ tries'[v] <= attempts'[x]
    <3> SUFFICES ASSUME NEW v \in Worker, Works(v, x)'
                 PROVE  tries'[v] \in Nat /\ tries'[v] <= attempts'[x]
      OBVIOUS
    <3>1. Works(v, x) /\ tries'[v] = tries[v]
      BY <1>12 DEF ClaimLost, Works, workerVars
    <3>2. tries[v] \in Nat /\ tries[v] <= attempts[x]
      BY <3>1 DEF JustOf, Types
    <3> QED BY <1>n, <2>2, <3>1, <3>2
  <2>4. UNCHANGED <<seen, late>>
    BY <1>12 DEF ClaimLost, recoveryVars
  <2> QED BY <1>n, <2>2, <2>3, <2>4 DEF JustOf, Spent
<1>13. ASSUME NEW p \in Process, RecoverStart(p)
      PROVE  JustOf(x)'
  BY <1>13 DEF JustOf, Spent, Works, RecoverStart, recordVars, workerVars,
     recoveryVars
<1>14. ASSUME NEW p \in Process, RecoverWrite(p)
      PROVE  JustOf(x)'
  <2>1. UNCHANGED <<attempts, late, wpc, job, tries>>
    BY <1>14 DEF RecoverWrite, workerVars
  <2>2. \A r \in Process : seen'[r] = seen[r] \/ seen'[r].next = "none"
    BY <1>14 DEF RecoverWrite, Types, NoRead
  <2>3. status'[x] = "dead_letter" => Spent(x)
    <3>1. CASE status'[x] = status[x]
      BY <3>1 DEF JustOf
    <3>2. CASE status'[x] # status[x]
      BY <1>14, <3>2 DEF RecoverWrite, PersistFailure, Types, JustOf
    <3> QED BY <3>1, <3>2
  <2> QED BY <2>1, <2>2, <2>3 DEF JustOf, Spent, Works
<1>15. ASSUME NEW p \in Process, StopWorkers(p)
      PROVE  JustOf(x)'
  BY <1>15 DEF JustOf, Spent, Works, StopWorkers, recordVars, workerVars,
     recoveryVars
<1>16. ASSUME NEW p \in Process, Exit(p)
      PROVE  JustOf(x)'
  <2>1. UNCHANGED <<status, attempts, late>>
    BY <1>16 DEF Exit, recordVars
  <2>2. \A w \in Worker : Works(w, x)' => Works(w, x) /\ tries'[w] = tries[w]
    BY <1>16 DEF Exit, Works
  <2>3. \A r \in Process : seen'[r] = seen[r] \/ seen'[r].next = "none"
    BY <1>16 DEF Exit, Types, NoRead
  <2> QED BY <2>1, <2>2, <2>3 DEF JustOf, Spent
<1>17. ASSUME NEW p \in Process, NEW t \in Task, RecoverRead(p, t)
      PROVE  JustOf(x)'
  <2>1. UNCHANGED <<status, attempts, late, wpc, job, tries>>
    BY <1>17 DEF RecoverRead, recordVars, workerVars
  <2>2. ASSUME NEW r \in Process, seen'[r].task = x, seen'[r].next = "dead_letter"
        PROVE  Spent(x)
    <3>1. CASE seen'[r] = seen[r]
      BY <2>2, <3>1 DEF JustOf
    <3>2. CASE seen'[r] # seen[r]
      <4>1. seen'[r] = [task |-> t, next |-> AfterFailure(t, attempts[t])]
        BY <1>17, <2>2, <3>2 DEF RecoverRead, Types
      <4>2. x = t /\ AfterFailure(x, attempts[x]) = "dead_letter"
        BY <2>2, <4>1
      <4> QED BY <1>n, <4>2 DEF AfterFailure, Spent
    <3> QED BY <3>1, <3>2
  <2> QED BY <2>1, <2>2 DEF JustOf, Spent, Works
<1>18. ASSUME NEW p \in Process, NEW t \in Task, RequeueActive(p, t)
      PROVE  JustOf(x)'
  <2>1. status'[x] = "dead_letter" => status[x] = "dead_letter"
    BY <1>18 DEF RequeueActive, PersistFailure, Types
  <2> QED BY <1>18, <2>1 DEF JustOf, Spent, Works, RequeueActive, workerVars,
       recoveryVars
<1>19. ASSUME NEW a \in Admin, RequeueWrite(a)
      PROVE  JustOf(x)'
  <2>1. admin[a] \in Task /\ x # admin[a]
    BY <1>19 DEF RequeueWrite, Types
  <2>2. status'[x] = status[x] /\ attempts'[x] = attempts[x]
    BY <1>19, <2>1 DEF RequeueWrite, Types
  <2> QED BY <1>19, <2>2 DEF JustOf, Spent, Works, RequeueWrite, workerVars,
       recoveryVars
<1>20. ASSUME NEW a \in Admin, NEW t \in Task, RequeueRead(a, t)
      PROVE  JustOf(x)'
  BY <1>20 DEF JustOf, Spent, Works, RequeueRead, HoldTask, recordVars, workerVars,
     recoveryVars
<1> QED
  BY <1>0, <1>1, <1>2, <1>3, <1>4, <1>5, <1>6, <1>7, <1>8, <1>9, <1>10, <1>11,
     <1>12, <1>13, <1>14, <1>15, <1>16, <1>17, <1>18, <1>19, <1>20 DEF Next,
     WorkerStep


-----------------------------------------------------------------------------
(* The invariant. *)

LEMMA InitIInv == ASSUME Init PROVE IInv
<1>n. MaxRetries \in Nat
  BY QueueAssumption
<1>1. Types
  BY QueueAssumption DEF Init, Types, NoTasks, NoRead, Waiting
<1>2. ActorsOK /\ AdminsOK /\ RequestsOK /\ KeysOK /\ LapsedOK
  BY DEF Init, ActorsOK, AdminsOK, RequestsOK, KeysOK, LapsedOK
<1>3. LeaseOK /\ OwnerOK
  BY <1>n DEF Init, LeaseOK, LeaseOf, OwnerOK, OwnerOf, Works, Waiting
<1>4. JustOK
  BY DEF Init, JustOK, JustOf, Works, NoRead
<1>5. ListsAgree
  BY DEF Init, ListsAgree, Waiting
<1> QED BY <1>1, <1>2, <1>3, <1>4, <1>5 DEF IInv

LEMMA StepIInv ==
  ASSUME IInv, [Next]_vars
  PROVE  IInv'
<1> USE DEF IInv
<1>1. Types' /\ ActorsOK' /\ AdminsOK' /\ RequestsOK' /\ KeysOK' /\ LapsedOK'
  BY TypesStep, ActorsStep, AdminsStep, RequestsStep, KeysStep, LapsedStep
<1>2. ListsAgree'
  BY StepMoves, ListsStep, HistoryGrows
<1>3. LeaseOK'
  <2> SUFFICES ASSUME NEW x \in Task, x \notin lapsed' \cup interrupted'
               PROVE  LeaseOf(x)'
    BY DEF LeaseOK
  <2>1. x \notin lapsed \cup interrupted
    BY HistoryGrows
  <2>2. LeaseOf(x)
    BY <2>1 DEF LeaseOK
  <2> QED BY <2>2, LeaseStep
<1>4. OwnerOK'
  <2> SUFFICES ASSUME NEW x \in Task,
                      x \notin lapsed' \cup interrupted' \cup doubled'
               PROVE  OwnerOf(x)'
    BY DEF OwnerOK
  <2>1. x \notin lapsed \cup interrupted \cup doubled
    BY HistoryGrows
  <2>2. OwnerOf(x)
    BY <2>1 DEF OwnerOK
  <2> QED BY <2>2, OwnerStep
<1>5. JustOK'
  <2> SUFFICES ASSUME NEW x \in Task, x \notin putBack'
               PROVE  JustOf(x)'
    BY DEF JustOK
  <2>1. x \notin putBack
    BY HistoryGrows
  <2>2. JustOf(x)
    BY <2>1 DEF JustOK
  <2> QED BY <2>2, JustStep
<1> QED BY <1>1, <1>2, <1>3, <1>4, <1>5

\* The inductive invariant holds in every reachable state.
THEOREM QueueInvariance == Spec => []IInv
<1>1. Init => IInv
  BY InitIInv
<1>2. IInv /\ [Next]_vars => IInv'
  BY StepIInv
<1> QED BY <1>1, <1>2, PTL DEF Spec

\* Whatever crashes, answers are lost and loops overlap, the record of a task
\* and the lists agree; two requeue requests that meet leave no task without
\* its list, but may leave one on a list that it has left.
THEOREM ListsAlwaysAgree == Spec => []ListsAgree
<1>1. IInv => ListsAgree
  BY DEF IInv
<1> QED BY <1>1, QueueInvariance, PTL

\* Two workers only share a task whose lease has run out, whose process was
\* stopping, or that two requeue requests have held together.
THEOREM WorkIsExclusive == Spec => []ExclusiveUnlessLapsed
<1>1. IInv => ExclusiveUnlessLapsed
  BY DEF IInv, OwnerOK, OwnerOf, ExclusiveUnlessLapsed
<1> QED BY <1>1, QueueInvariance, PTL

\* Only a lapse or a stop gives a task more than its retries.
THEOREM AttemptsAreBounded == Spec => []AttemptsBounded
<1>1. IInv => AttemptsBounded
  BY DEF IInv, LeaseOK, LeaseOf, AttemptsBounded
<1> QED BY <1>1, QueueInvariance, PTL

\* A task is given up because its retries are used up or it is late.
THEOREM GivenUpRightly == Spec => []DeadLetterJustified
<1>1. IInv => DeadLetterJustified
  BY DEF IInv, JustOK, JustOf, Spent, DeadLetterJustified
<1> QED BY <1>1, QueueInvariance, PTL

\* A key has two tasks only if their requests overlapped.
THEOREM OneTaskPerKey == Spec => []DuplicatesOverlap
<1>1. IInv => DuplicatesOverlap
  BY DEF IInv, KeysOK, DuplicatesOverlap
<1> QED BY <1>1, QueueInvariance, PTL

\* Two requests meet on a task in the step in which the second one reads it.
LEMMA DoubledStep ==
  ASSUME [Next]_vars
  PROVE  UNCHANGED doubled \/ \E t \in Task : Lifecycle!Meet(t)
<1>0. CASE UNCHANGED vars
  BY <1>0 DEF vars, adminVars
<1>1. ASSUME NEW t \in Task, EnqueueCheck(t)
      PROVE  UNCHANGED doubled
  BY <1>1 DEF EnqueueCheck, adminVars
<1>2. ASSUME NEW t \in Task, EnqueueWrite(t)
      PROVE  UNCHANGED doubled
  BY <1>2 DEF EnqueueWrite, adminVars
<1>3. ASSUME NEW t \in Task, LeaseExpires(t)
      PROVE  UNCHANGED doubled
  BY <1>3 DEF LeaseExpires, adminVars
<1>4. ASSUME NEW t \in Task, DeadlinePasses(t)
      PROVE  UNCHANGED doubled
  BY <1>4 DEF DeadlinePasses, adminVars
<1>5. ASSUME NEW w \in Worker, Verify(w)
      PROVE  UNCHANGED doubled
  BY <1>5 DEF Verify, adminVars
<1>6. ASSUME NEW w \in Worker, Complete(w)
      PROVE  UNCHANGED doubled
  BY <1>6 DEF Complete, adminVars
<1>7. ASSUME NEW w \in Worker, CompleteError(w)
      PROVE  UNCHANGED doubled
  BY <1>7 DEF CompleteError, adminVars
<1>8. ASSUME NEW w \in Worker, Fail(w)
      PROVE  UNCHANGED doubled
  BY <1>8 DEF Fail, adminVars
<1>9. ASSUME NEW w \in Worker, FailError(w)
      PROVE  UNCHANGED doubled
  BY <1>9 DEF FailError, adminVars
<1>10. ASSUME NEW w \in Worker, Heartbeat(w)
      PROVE  UNCHANGED doubled
  BY <1>10 DEF Heartbeat, adminVars
<1>11. ASSUME NEW w \in Worker, NEW t \in Task, Claim(w, t)
      PROVE  UNCHANGED doubled
  BY <1>11 DEF Claim, adminVars
<1>12. ASSUME NEW w \in Worker, NEW t \in Task, ClaimLost(w, t)
      PROVE  UNCHANGED doubled
  BY <1>12 DEF ClaimLost, adminVars
<1>13. ASSUME NEW p \in Process, RecoverStart(p)
      PROVE  UNCHANGED doubled
  BY <1>13 DEF RecoverStart, adminVars
<1>14. ASSUME NEW p \in Process, RecoverWrite(p)
      PROVE  UNCHANGED doubled
  BY <1>14 DEF RecoverWrite, adminVars
<1>15. ASSUME NEW p \in Process, StopWorkers(p)
      PROVE  UNCHANGED doubled
  BY <1>15 DEF StopWorkers, adminVars
<1>16. ASSUME NEW p \in Process, Exit(p)
      PROVE  UNCHANGED doubled
  BY <1>16 DEF Exit, adminVars
<1>17. ASSUME NEW p \in Process, NEW t \in Task, RecoverRead(p, t)
      PROVE  UNCHANGED doubled
  BY <1>17 DEF RecoverRead, adminVars
<1>18. ASSUME NEW p \in Process, NEW t \in Task, RequeueActive(p, t)
      PROVE  UNCHANGED doubled
  BY <1>18 DEF RequeueActive, adminVars
<1>19. ASSUME NEW a \in Admin, RequeueWrite(a)
      PROVE  UNCHANGED doubled
  BY <1>19 DEF RequeueWrite, adminVars
<1>20. ASSUME NEW a \in Admin, NEW t \in Task, RequeueRead(a, t)
      PROVE  UNCHANGED doubled \/ Lifecycle!Meet(t)
  BY <1>20 DEF RequeueRead, HoldTask, recordVars, Lifecycle!Meet
<1> QED
  BY <1>0, <1>1, <1>2, <1>3, <1>4, <1>5, <1>6, <1>7, <1>8, <1>9, <1>10, <1>11,
     <1>12, <1>13, <1>14, <1>15, <1>16, <1>17, <1>18, <1>19, <1>20 DEF Next,
     WorkerStep

\* Every step is a step of the abstract lifecycle, or none.
LEMMA StepRefines ==
  ASSUME Types, Moved \/ \E x \in Task : Queued(x),
         UNCHANGED doubled \/ \E t \in Task : Lifecycle!Meet(t)
  PROVE  [Lifecycle!Next]_<<status, attempts, doubled>>
<1>m. SUFFICES ASSUME UNCHANGED doubled
               PROVE  [Lifecycle!Next]_<<status, attempts, doubled>>
  BY DEF Lifecycle!Next
<1>1. CASE Same
  BY <1>m, <1>1 DEF Same
<1>2. ASSUME NEW t \in Task, Queued(t) PROVE Lifecycle!Queue(t)
  BY <1>m, <1>2 DEF Queued, MovedTo, Lifecycle!Queue, Lifecycle!Move
<1>3. ASSUME NEW t \in Task, Taken(t) PROVE Lifecycle!Start(t)
  BY <1>m, <1>3 DEF Taken, MovedTo, Waiting, Lifecycle!Start, Lifecycle!Move
<1>4. ASSUME NEW t \in Task, Finished(t) PROVE Lifecycle!Finish(t)
  BY <1>m, <1>4 DEF Finished, MovedTo, Lifecycle!Finish, Lifecycle!Move
<1>5. ASSUME NEW t \in Task, Retried(t) PROVE Lifecycle!Retry(t)
  BY <1>m, <1>5 DEF Retried, MovedTo, Lifecycle!Retry, Lifecycle!Move
<1>6. ASSUME NEW t \in Task, GivenUp(t) PROVE Lifecycle!GiveUp(t)
  BY <1>m, <1>6 DEF GivenUp, MovedTo, Lifecycle!GiveUp, Lifecycle!Move
<1>7. ASSUME NEW t \in Task, PutBack(t) PROVE Lifecycle!PutBack(t)
  BY <1>m, <1>7 DEF PutBack, Types, Waiting, Lifecycle!PutBack, Lifecycle!Move,
     Lifecycle!State
<1> QED BY <1>1, <1>2, <1>3, <1>4, <1>5, <1>6, <1>7 DEF Moved, Lifecycle!Next

\* The queue on Redis implements the lifecycle of a task, with any number of
\* requeue requests under way at a time.
THEOREM ImplementsLifecycle == Spec => KeepsLifecycle
<1>1. Init => Lifecycle!Init
  BY DEF Init, Lifecycle!Init
<1>2. IInv /\ [Next]_vars => [Lifecycle!Next]_<<status, attempts, doubled>>
  BY StepMoves, DoubledStep, StepRefines DEF IInv
<1> QED BY <1>1, <1>2, QueueInvariance, PTL DEF Spec, KeepsLifecycle,
   Lifecycle!Spec
=============================================================================
