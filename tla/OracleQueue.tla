---------------------------- MODULE OracleQueue ----------------------------
(***************************************************************************)
(* The older oracle task queue: the list of pending tasks and the task     *)
(* data in Redis (oracleQueueService.js), the workers that move a task to  *)
(* a list of their own, and the sweeper that moves back what a crashed     *)
(* worker left (oracleWorkerPool.js).                                      *)
(*                                                                         *)
(* A step is a command, or a pipeline, that Redis executes, with the code  *)
(* before it.  The clock is abstracted to two facts of a task: it has not  *)
(* been updated for five minutes, and its deadline has passed.             *)
(***************************************************************************)
EXTENDS Integers, FiniteSets, Sequences

CONSTANTS Task,       \* tasks that may be enqueued
          High,       \* those with a priority above 1
          Worker,     \* workers; a restarted one has a new name
          Sweeper,    \* sweepers, one in each process
          MaxRetries, \* maxRetries of every task
          LiveCanAge, \* may a task grow old without a crash?
          MaxCrashes, \* bound: workers that crash
          MaxFails,   \* bound: failures of handleTask(), per task
          MaxMoves,   \* bound: the moves after which no sweeper looks
          None        \* no task, no worker

VARIABLES
  pending,    \* Redis: the list, head first
  processing, \* Redis: how often a task is in the list of a worker
  data,       \* Redis: state and retries of a task
  dlq,        \* Redis: the dead letters
  old,        \* tasks whose updatedAt is more than five minutes ago
  late,       \* tasks whose deadline has passed
  pc,         \* how far a worker or a sweeper has got
  subject,    \* the task it is about
  from,       \* the worker whose list a sweeper looks at
  goal,       \* the state and retries updateTaskState() is to write
  copy,       \* the data updateTaskState() has read
  ended,      \* history: tasks a worker has written an end for
  fails,      \* history: how often handleTask() of a task failed
  misjudged,  \* history: a task was taken from a worker that had not crashed
  moves       \* tasks moved back so far

listVars == <<pending, processing>>
timeVars == <<old, late>>
actorVars == <<pc, subject, from, goal, copy>>
historyVars == <<ended, fails, misjudged, moves>>
vars == <<pending, processing, data, dlq, old, late, pc, subject, from, goal,
          copy, ended, fails, misjudged, moves>>

Actor == Worker \cup Sweeper
Final == {"Completed", "DeadLetter"}
NoData == [state |-> "none", retries |-> 0]
Keep == -1  \* retries are left as they are
NoGoal == [state |-> "none", retries |-> Keep]
\* "taken", "proving", "removing" are a worker's in its try block, "failed",
\* "discarding", "returning" in its catch block; "spotted", "moving" are a
\* sweeper's; "reading", "writing" are updateTaskState().
Pc == {"idle", "taken", "reading", "writing", "proving", "failed", "removing",
       "discarding", "returning", "crashed", "spotted", "moving"}

Init ==
  /\ pending = <<>> /\ processing = [w \in Worker |-> [t \in Task |-> 0]]
  /\ data = [t \in Task |-> NoData] /\ dlq = {} /\ old = {} /\ late = {}
  /\ pc = [a \in Actor |-> "idle"] /\ subject = [a \in Actor |-> None]
  /\ from = [s \in Sweeper |-> None]
  /\ goal = [a \in Actor |-> NoGoal] /\ copy = [a \in Actor |-> NoData]
  /\ ended = {} /\ fails = [t \in Task |-> 0]
  /\ misjudged = FALSE /\ moves = 0

-----------------------------------------------------------------------------
(* enqueue() and the passage of time. *)

\* High priority goes to the head of the list, the rest to its tail.
Enqueue(t) ==
  /\ data[t].state = "none"
  /\ data' = [data EXCEPT ![t].state = "Pending"]
  /\ pending' = IF t \in High THEN <<t>> \o pending ELSE Append(pending, t)
  /\ UNCHANGED <<processing, dlq, timeVars, actorVars, historyVars>>

HeldByCrashed(t) ==
  \E w \in Worker : pc[w] = "crashed" /\ processing[w][t] > 0

\* The clock moves on at any time, but what it shows matters only when it is
\* looked at: the age of a task when a sweeper judges it, the deadline when a
\* worker has taken it.
LookedAt(t, step) == \E a \in Actor : subject[a] = t /\ pc[a] = step

GrowsOld(t) ==
  /\ t \notin old /\ LookedAt(t, "spotted")
  /\ LiveCanAge \/ HeldByCrashed(t)
  /\ old' = old \cup {t}
  /\ UNCHANGED <<listVars, data, dlq, late, actorVars, historyVars>>

DeadlinePasses(t) ==
  /\ t \notin late /\ LookedAt(t, "taken")
  /\ late' = late \cup {t}
  /\ UNCHANGED <<listVars, data, dlq, old, actorVars, historyVars>>

-----------------------------------------------------------------------------
(* updateTaskState(), by a worker or a sweeper: HGET, then HSET. *)

ReadTask(a) ==
  /\ pc[a] = "reading"
  /\ copy' = [copy EXCEPT ![a] = data[subject[a]]]
  /\ pc' = [pc EXCEPT ![a] = "writing"]
  /\ UNCHANGED <<listVars, data, dlq, timeVars, subject, from, goal,
                 historyVars>>

\* The whole task is written as it was read, but for the goal.
WriteTask(a) ==
  LET t == subject[a] IN
  /\ pc[a] = "writing"
  /\ data' = [data EXCEPT ![t] =
       [state |-> goal[a].state,
        retries |-> IF goal[a].retries = Keep THEN copy[a].retries
                    ELSE goal[a].retries]]
  /\ dlq' = IF goal[a].state = "DeadLetter" THEN dlq \cup {t} ELSE dlq
  /\ old' = old \ {t}
  /\ ended' = IF goal[a].state \in Final THEN ended \cup {t} ELSE ended
  /\ pc' = [pc EXCEPT ![a] = IF a \in Sweeper THEN "idle"
                             ELSE CASE goal[a].state = "Processing" -> "proving"
                                    [] goal[a].state = "Pending" -> "returning"
                                    [] OTHER -> IF goal[a].retries = Keep
                                                THEN "removing"
                                                ELSE "discarding"]
  /\ subject' = IF a \in Sweeper THEN [subject EXCEPT ![a] = None] ELSE subject
  /\ goal' = [goal EXCEPT ![a] = NoGoal]
  /\ copy' = [copy EXCEPT ![a] = NoData]
  /\ UNCHANGED <<listVars, late, from, fails, misjudged, moves>>

-----------------------------------------------------------------------------
(* A worker. *)

\* BRPOPLPUSH: the task at the tail goes to the worker's list.
Take(w) ==
  /\ pc[w] = "idle" /\ pending # <<>>
  /\ LET t == pending[Len(pending)]
     IN /\ subject' = [subject EXCEPT ![w] = t]
        /\ processing' = [processing EXCEPT ![w][t] = @ + 1]
  /\ pending' = SubSeq(pending, 1, Len(pending) - 1)
  /\ pc' = [pc EXCEPT ![w] = "taken"]
  /\ UNCHANGED <<data, dlq, timeVars, from, goal, copy, historyVars>>

\* handleTask() has read the task and looks at its deadline.
Look(w) ==
  /\ pc[w] = "taken"
  /\ goal' = [goal EXCEPT ![w].state =
       IF subject[w] \in late THEN "DeadLetter" ELSE "Processing"]
  /\ pc' = [pc EXCEPT ![w] = "reading"]
  /\ UNCHANGED <<listVars, data, dlq, timeVars, subject, from, copy,
                 historyVars>>

\* processProof() resolves.
Prove(w) ==
  /\ pc[w] = "proving"
  /\ goal' = [goal EXCEPT ![w].state = "Completed"]
  /\ pc' = [pc EXCEPT ![w] = "reading"]
  /\ UNCHANGED <<listVars, data, dlq, timeVars, subject, from, copy,
                 historyVars>>

\* LREM takes out one occurrence, if there is one.
Lrem(w, t) ==
  [processing EXCEPT ![w][t] = IF @ > 0 THEN @ - 1 ELSE 0]

\* The try block of handleTask() throws: processProof() rejects, an HGET of
\* getTaskStatus() or updateTaskState() fails, or the LREM of a task that has
\* ended does, which Redis may have executed all the same.
Fail(w) ==
  /\ \/ pc[w] \in {"taken", "proving", "removing"}
     \/ pc[w] = "reading" /\ goal[w].retries = Keep
  /\ fails[subject[w]] < MaxFails
  /\ fails' = [fails EXCEPT ![subject[w]] = @ + 1]
  /\ \/ UNCHANGED processing
     \/ pc[w] = "removing" /\ processing' = Lrem(w, subject[w])
  /\ pc' = [pc EXCEPT ![w] = "failed"]
  /\ goal' = [goal EXCEPT ![w] = NoGoal]
  /\ UNCHANGED <<pending, data, dlq, timeVars, subject, from, copy, ended,
                 misjudged, moves>>

\* The catch block reads the task again: retry, or give up?
Retry(w) ==
  /\ pc[w] = "failed"
  /\ LET n == data[subject[w]].retries + 1
     IN goal' = [goal EXCEPT ![w] =
          [state |-> IF n <= MaxRetries THEN "Pending" ELSE "DeadLetter",
           retries |-> n]]
  /\ pc' = [pc EXCEPT ![w] = "reading"]
  /\ UNCHANGED <<listVars, data, dlq, timeVars, subject, from, copy,
                 historyVars>>

\* The task has ended: it leaves the worker's list.
Remove(w) ==
  /\ pc[w] \in {"removing", "discarding"}
  /\ processing' = Lrem(w, subject[w])
  /\ pc' = [pc EXCEPT ![w] = "idle"]
  /\ subject' = [subject EXCEPT ![w] = None]
  /\ UNCHANGED <<pending, data, dlq, timeVars, from, goal, copy, historyVars>>

\* Mutation: the task is pushed back and stays in the worker's list.
ReturnCopy(w) ==
  /\ pc[w] = "returning"
  /\ pending' = Append(pending, subject[w])
  /\ pc' = [pc EXCEPT ![w] = "idle"]
  /\ subject' = [subject EXCEPT ![w] = None]
  /\ UNCHANGED <<processing, data, dlq, timeVars, from, goal, copy,
                 historyVars>>

\* The task goes back to the tail of the pending list.
Return(w) ==
  /\ pc[w] = "returning"
  /\ processing' = Lrem(w, subject[w])
  /\ pending' = Append(pending, subject[w])
  /\ pc' = [pc EXCEPT ![w] = "idle"]
  /\ subject' = [subject EXCEPT ![w] = None]
  /\ UNCHANGED <<data, dlq, timeVars, from, goal, copy, historyVars>>

\* The process of a worker dies, or its catch block throws, which ends
\* runWorker(); its list stays.
Crash(w) ==
  /\ pc[w] \notin {"idle", "crashed"}
  /\ Cardinality({v \in Worker : pc[v] = "crashed"}) < MaxCrashes
  /\ pc' = [pc EXCEPT ![w] = "crashed"]
  /\ subject' = [subject EXCEPT ![w] = None]
  /\ goal' = [goal EXCEPT ![w] = NoGoal]
  /\ copy' = [copy EXCEPT ![w] = NoData]
  /\ UNCHANGED <<listVars, data, dlq, timeVars, from, historyVars>>

-----------------------------------------------------------------------------
(* The sweeper: recoverOrphanedTasks(). *)

\* LRANGE showed the sweeper a task in the list of w.
Spot(s, w, t) ==
  /\ pc[s] = "idle" /\ processing[w][t] > 0 /\ moves < MaxMoves
  /\ pc' = [pc EXCEPT ![s] = "spotted"]
  /\ subject' = [subject EXCEPT ![s] = t]
  /\ from' = [from EXCEPT ![s] = w]
  /\ UNCHANGED <<listVars, data, dlq, timeVars, goal, copy, historyVars>>

\* The sweeper has read the task: only its age counts.
Judge(s) ==
  /\ pc[s] = "spotted"
  /\ IF subject[s] \in old
     THEN /\ pc' = [pc EXCEPT ![s] = "moving"]
          /\ UNCHANGED <<subject, from>>
     ELSE /\ pc' = [pc EXCEPT ![s] = "idle"]
          /\ subject' = [subject EXCEPT ![s] = None]
          /\ from' = [from EXCEPT ![s] = None]
  /\ UNCHANGED <<listVars, data, dlq, timeVars, goal, copy, historyVars>>

\* LREM and RPUSH; the RPUSH is sent whatever the LREM finds.
Move(s) ==
  LET t == subject[s]
      w == from[s]
  IN /\ pc[s] = "moving"
     /\ processing' = Lrem(w, t)
     /\ pending' = Append(pending, t)
     /\ misjudged' = (misjudged \/ pc[w] # "crashed" \/ processing[w][t] = 0)
     /\ moves' = moves + 1
     /\ goal' = [goal EXCEPT ![s].state = "Pending"]
     /\ pc' = [pc EXCEPT ![s] = "reading"]
     /\ from' = [from EXCEPT ![s] = None]
     /\ UNCHANGED <<data, dlq, timeVars, subject, copy, ended, fails>>

-----------------------------------------------------------------------------
(* The specification. *)

Work(w) ==
  \/ Take(w) \/ Look(w) \/ Prove(w) \/ Fail(w) \/ Retry(w) \/ Remove(w)
  \/ Return(w)

Next ==
  \/ \E t \in Task : Enqueue(t) \/ GrowsOld(t) \/ DeadlinePasses(t)
  \/ \E a \in Actor : ReadTask(a) \/ WriteTask(a)
  \/ \E w \in Worker : Work(w) \/ Crash(w)
  \/ \E s \in Sweeper : \/ \E w \in Worker, t \in Task : Spot(s, w, t)
                        \/ Judge(s) \/ Move(s)

Spec == Init /\ [][Next]_vars

-----------------------------------------------------------------------------
(* Properties. *)

Occurrences(t) == Cardinality({i \in 1..Len(pending) : pending[i] = t})

\* A task that was enqueued and has not been ended by a worker is in the
\* pending list or in that of a worker, whoever crashes and whatever the
\* sweeper takes back.
NoTaskLost ==
  \A t \in Task : data[t].state # "none" /\ t \notin ended =>
    Occurrences(t) > 0 \/ \E w \in Worker : processing[w][t] > 0

\* As long as the sweeper has only taken tasks from workers that crashed, a
\* task is in one list only, so that no two workers have it.
SinglePlace ==
  ~misjudged =>
    \A t \in Task :
      /\ Occurrences(t) <= 1
      /\ \A w \in Worker :
           processing[w][t] > 0 =>
             /\ processing[w][t] = 1 /\ Occurrences(t) = 0
             /\ \A v \in Worker \ {w} : processing[v][t] = 0

\* A dead letter missed its deadline or failed more often than maxRetries,
\* even when copies of a task are written over each other.
DeadLetterJustified ==
  \A t \in dlq : t \in late \/ fails[t] > MaxRetries
=============================================================================
