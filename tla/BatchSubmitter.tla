--------------------------- MODULE BatchSubmitter ---------------------------
(***************************************************************************)
(* The batch submitter and its nonce pools: transactions wait in a queue   *)
(* that is flushed when it is full, when a timer fires or on request; each *)
(* takes a sequence number from the pool of its source account, submits an *)
(* envelope, and on failure waits and tries again with a new number.  A    *)
(* step is what runs between two awaits.  The ledger (fetchFn, submitFn)   *)
(* is external: it accepts an envelope only with the next number of the    *)
(* account, its answers may be late or lost, and an envelope whose answer  *)
(* was lost may still arrive.                                              *)
(***************************************************************************)
EXTENDS Integers, Sequences, FiniteSets

CONSTANTS Tx,             \* transactions that callers submit, once each
          Account,
          AccountOf,      \* source account of a transaction
          MaxBatchSize,
          RetryAttempts

ASSUME SubmitterAssumption ==
  /\ AccountOf \in [Tx -> Account]
  /\ MaxBatchSize \in Nat \ {0}
  /\ RetryAttempts \in Nat \ {0}

NoAnswer == -1

VARIABLES
  queue, timer,           \* #queue, whether #flushTimer is armed
  drains,                 \* the batches that running flush() calls wait for
  sequence, initialized,  \* per account: #sequence (0 while undefined), #initialized
  pc,                     \* per transaction: where #submitWithRetry stands
  attempt, number,        \* per transaction: the attempt, the number it took
  got,                    \* per transaction: what the ledger answered to its fetch
  ledger,                 \* external, per account: the last number used
  late,                   \* external: envelopes whose answer was given up
  executed,               \* external, per transaction: how often it was applied
  lost,                   \* history, per transaction: answers given up
  disturbed,              \* history: transactions that met another one or a fault
  rewound                 \* history: number taken before the sequence was last set

queueVars == <<queue, timer, drains>>
poolVars == <<sequence, initialized>>
ledgerVars == <<ledger, late, executed>>
txVars == <<pc, attempt, number, got>>
historyVars == <<lost, disturbed, rewound>>
vars == <<queueVars, poolVars, ledgerVars, txVars, historyVars>>

Holding == {"sent", "accepted", "refused"}      \* the promise of submitFn is pending
Fetching == {"fetch", "resync", "give_up"}      \* the promise of fetchFn is pending
InFlight == Holding \cup Fetching \cup {"take", "delay"}
Settled == {"resolved", "rejected"}

Holders == {t \in Tx : pc[t] \in Holding}
Peers(t) == {u \in Tx \ {t} : AccountOf[u] = AccountOf[t]}
FlyingPeers(t) == {u \in Peers(t) : pc[u] \in InFlight}

Init ==
  /\ queue = <<>> /\ timer = FALSE /\ drains = {}
  /\ sequence = [a \in Account |-> 0]
  /\ initialized = [a \in Account |-> FALSE]
  /\ pc = [t \in Tx |-> "new"]
  /\ attempt = [t \in Tx |-> 0]
  /\ number = [t \in Tx |-> 0]
  /\ got = [t \in Tx |-> NoAnswer]
  /\ ledger = [a \in Account |-> 0]
  /\ late = {}
  /\ executed = [t \in Tx |-> 0]
  /\ lost = [t \in Tx |-> 0]
  /\ disturbed = {} /\ rewound = {}

-----------------------------------------------------------------------------
(* The queue *)

\* Where a call of acquire() first waits: for its fetch, or for the next
\* microtask when the pool is initialized.
Acquiring(t) == IF initialized[AccountOf[t]] THEN "take" ELSE "fetch"

Batch(q) ==
  {q[i] : i \in {n \in 1..Len(q) : n <= MaxBatchSize}}

\* Mutation: the batch is copied from the queue instead of taken out of it.
FlushCopy(q) ==
  /\ queue' = q
  /\ pc' = [t \in Tx |-> IF t \in Batch(q) THEN Acquiring(t) ELSE pc[t]]
  /\ attempt' = [t \in Tx |-> IF t \in Batch(q) THEN 1 ELSE attempt[t]]
  /\ UNCHANGED <<number, got, poolVars, ledgerVars, historyVars>>

\* #flush(): up to a batch leaves the queue, and each of its transactions
\* makes its first attempt.
Flush(q) ==
  LET batch == Batch(q)
      meets(t) == \E u \in Peers(t) : u \in batch \/ pc[u] \in InFlight
      isMet(t) == pc[t] \in InFlight /\ Peers(t) \cap batch # {}
  IN /\ queue' = SubSeq(q, MaxBatchSize + 1, Len(q))
     /\ pc' = [t \in Tx |-> IF t \in batch THEN Acquiring(t) ELSE pc[t]]
     /\ attempt' = [t \in Tx |-> IF t \in batch THEN 1 ELSE attempt[t]]
     /\ disturbed' = disturbed \cup {t \in batch : meets(t)} \cup {t \in Tx : isMet(t)}
     /\ UNCHANGED <<number, got, poolVars, ledgerVars, lost, rewound>>

\* Mutation: the queue is flushed one transaction late, and the timer stopped.
SubmitOneLate(t) ==
  /\ pc[t] = "new"
  /\ timer' = (Len(queue) + 1 < MaxBatchSize)
  /\ queue' = Append(queue, t)
  /\ pc' = [pc EXCEPT ![t] = "queued"]
  /\ UNCHANGED <<drains, attempt, number, got, poolVars, ledgerVars, historyVars>>

\* submit(): a full queue is flushed at once, otherwise the timer runs.
Submit(t) ==
  /\ pc[t] = "new"
  /\ IF Len(queue) + 1 >= MaxBatchSize
       THEN timer' = FALSE /\ Flush(Append(queue, t))
       ELSE /\ timer' = TRUE
            /\ queue' = Append(queue, t)
            /\ pc' = [pc EXCEPT ![t] = "queued"]
            /\ UNCHANGED <<attempt, number, got, poolVars, ledgerVars, historyVars>>
  /\ UNCHANGED drains

\* The timer's callback.
TimerFires ==
  /\ timer
  /\ timer' = FALSE
  /\ IF queue # <<>>
       THEN Flush(queue)
       ELSE UNCHANGED <<queue, txVars, poolVars, ledgerVars, historyVars>>
  /\ UNCHANGED drains

\* flush(): the first batch; with an empty queue the call only stops the timer.
Drain ==
  /\ timer' = FALSE
  /\ IF queue # <<>>
       THEN drains' = drains \cup {Batch(queue)} /\ Flush(queue)
       ELSE UNCHANGED <<queue, drains, txVars, poolVars, ledgerVars, historyVars>>

\* flush(): the awaited batch is settled; the loop goes on or ends.
DrainNext(batch) ==
  /\ batch \in drains
  /\ \A t \in batch : pc[t] \in Settled
  /\ IF queue # <<>>
       THEN drains' = (drains \ {batch}) \cup {Batch(queue)} /\ Flush(queue)
       ELSE /\ drains' = drains \ {batch}
            /\ UNCHANGED <<queue, txVars, poolVars, ledgerVars, historyVars>>
  /\ UNCHANGED timer

-----------------------------------------------------------------------------
(* A transaction *)

Goto(t, label) == pc' = [pc EXCEPT ![t] = label]

\* fetchFn: the ledger is read some time before the answer is delivered.
FetchRead(t) ==
  /\ pc[t] \in Fetching
  /\ got[t] = NoAnswer
  /\ got' = [got EXCEPT ![t] = ledger[AccountOf[t]]]
  /\ UNCHANGED <<queueVars, poolVars, ledgerVars, pc, attempt, number, historyVars>>

\* #sequence is set from an answer, whatever numbers are in use.
SetSequence(t) ==
  /\ got[t] # NoAnswer
  /\ sequence' = [sequence EXCEPT ![AccountOf[t]] = got[t]]
  /\ got' = [got EXCEPT ![t] = NoAnswer]
  /\ rewound' = rewound \cup {u \in Peers(t) : pc[u] \in Holding}

\* #ensureInitialized() after its fetch.
Initialized(t) ==
  /\ pc[t] = "fetch"
  /\ SetSequence(t)
  /\ initialized' = [initialized EXCEPT ![AccountOf[t]] = TRUE]
  /\ Goto(t, "take")
  /\ UNCHANGED <<queueVars, ledgerVars, attempt, number, lost, disturbed>>

\* resync() after its fetch: before another attempt, or before the rejection.
Resynced(t) ==
  /\ pc[t] \in {"resync", "give_up"}
  /\ SetSequence(t)
  /\ Goto(t, IF pc[t] = "resync" THEN "delay" ELSE "rejected")
  /\ UNCHANGED <<queueVars, initialized, ledgerVars, attempt, number, lost, disturbed>>

\* Mutation: the error of the last resync() is not caught, so nothing is rejected.
AfterFetchErrorUncaught(label) ==
  CASE label = "fetch" -> "give_up"
    [] label = "resync" -> "delay"
    [] label = "give_up" -> "queued"

\* fetchFn rejects: an error of acquire() is not retried, one of resync() ignored.
AfterFetchError(label) ==
  CASE label = "fetch" -> "give_up"
    [] label = "resync" -> "delay"
    [] label = "give_up" -> "rejected"

FetchError(t) ==
  /\ pc[t] \in Fetching
  /\ got' = [got EXCEPT ![t] = NoAnswer]
  /\ Goto(t, AfterFetchError(pc[t]))
  /\ disturbed' = disturbed \cup {t}
  /\ UNCHANGED <<queueVars, poolVars, ledgerVars, attempt, number, lost, rewound>>

\* Mutation: the number is computed and the sequence is not advanced.
TakeAndKeep(t) ==
  /\ pc[t] = "take"
  /\ number' = [number EXCEPT ![t] = sequence[AccountOf[t]] + 1]
  /\ rewound' = rewound \ {t}
  /\ Goto(t, "sent")
  /\ UNCHANGED <<queueVars, poolVars, ledgerVars, attempt, got, lost, disturbed>>

\* acquire() takes the next number and submitFn is called with the envelope.
Take(t) ==
  /\ pc[t] = "take"
  /\ sequence' = [sequence EXCEPT ![AccountOf[t]] = @ + 1]
  /\ number' = [number EXCEPT ![t] = sequence'[AccountOf[t]]]
  /\ rewound' = rewound \ {t}
  /\ Goto(t, "sent")
  /\ UNCHANGED <<queueVars, initialized, ledgerVars, attempt, got, lost, disturbed>>

\* acquire() takes a number and buildEnvelope throws: that is not retried.
BuildError(t) ==
  /\ pc[t] = "take"
  /\ sequence' = [sequence EXCEPT ![AccountOf[t]] = @ + 1]
  /\ disturbed' = disturbed \cup {t}
  /\ Goto(t, "give_up")
  /\ UNCHANGED <<queueVars, initialized, ledgerVars, attempt, number, got, lost, rewound>>

\* submitFn resolves.
Resolve(t) ==
  /\ pc[t] = "accepted"
  /\ Goto(t, "resolved")
  /\ UNCHANGED <<queueVars, poolVars, ledgerVars, attempt, number, got, historyVars>>

\* Mutation: one attempt less.
AfterErrorOneLess(t, isSeqError) ==
  IF attempt[t] + 1 >= RetryAttempts THEN "give_up"
  ELSE IF isSeqError THEN "resync" ELSE "delay"

\* Where a transaction goes when submitFn rejects.
AfterError(t, isSeqError) ==
  IF attempt[t] >= RetryAttempts THEN "give_up"
  ELSE IF isSeqError THEN "resync" ELSE "delay"

\* submitFn rejects with a sequence error.
Refuse(t) ==
  /\ pc[t] = "refused"
  /\ Goto(t, AfterError(t, TRUE))
  /\ UNCHANGED <<queueVars, poolVars, ledgerVars, attempt, number, got, historyVars>>

\* submitFn rejects with another error; the envelope may be on its way, applied
\* or refused.
Lose(t) ==
  /\ pc[t] \in Holding
  /\ Goto(t, AfterError(t, FALSE))
  /\ late' = IF pc[t] = "sent" THEN late \cup {<<t, number[t]>>} ELSE late
  /\ lost' = [lost EXCEPT ![t] = @ + 1]
  /\ disturbed' = disturbed \cup {t}
  /\ UNCHANGED <<queueVars, poolVars, ledger, executed, attempt, number, got, rewound>>

\* The delay is over: #submitWithRetry calls itself.
Retry(t) ==
  /\ pc[t] = "delay"
  /\ attempt' = [attempt EXCEPT ![t] = @ + 1]
  /\ Goto(t, Acquiring(t))
  /\ UNCHANGED <<queueVars, poolVars, ledgerVars, number, got, historyVars>>

-----------------------------------------------------------------------------
(* The ledger *)

\* An envelope is applied when its number is the next one.
Apply(t, n) ==
  IF n = ledger[AccountOf[t]] + 1
    THEN /\ ledger' = [ledger EXCEPT ![AccountOf[t]] = n]
         /\ executed' = [executed EXCEPT ![t] = @ + 1]
    ELSE UNCHANGED <<ledger, executed>>

Arrive(t) ==
  /\ pc[t] = "sent"
  /\ Apply(t, number[t])
  /\ Goto(t, IF ledger' # ledger THEN "accepted" ELSE "refused")
  /\ UNCHANGED <<queueVars, poolVars, late, attempt, number, got, historyVars>>

\* An envelope whose answer was given up arrives; it disturbs the transactions
\* of its account that are under way.
ArriveLate(t, n) ==
  /\ <<t, n>> \in late
  /\ late' = late \ {<<t, n>>}
  /\ Apply(t, n)
  /\ disturbed' = disturbed \cup FlyingPeers(t)
  /\ UNCHANGED <<queueVars, poolVars, txVars, lost, rewound>>

-----------------------------------------------------------------------------

\* What a transaction does when its promises are answered.
Progress(t) ==
  \/ FetchRead(t) \/ Initialized(t) \/ Resynced(t) \/ Take(t)
  \/ Arrive(t) \/ Resolve(t) \/ Refuse(t) \/ Retry(t)

Next ==
  \/ TimerFires \/ Drain
  \/ \E batch \in drains : DrainNext(batch)
  \/ \E t \in Tx : Submit(t) \/ Progress(t) \/ FetchError(t) \/ BuildError(t) \/ Lose(t)
  \/ \E e \in late : ArriveLate(e[1], e[2])

Spec == Init /\ [][Next]_vars

\* The event loop runs timers and continuations, and the calls of fetchFn and
\* submitFn end; callers may never call and an abandoned envelope never arrive.
FairSpec ==
  /\ Spec
  /\ WF_vars(TimerFires)
  /\ WF_vars(\E batch \in drains : DrainNext(batch))
  /\ \A t \in Tx : WF_vars(Progress(t))

-----------------------------------------------------------------------------
(* Properties *)

\* Every variable has its type, and attempts stay within retryAttempts.
Types ==
  /\ queue \in Seq(Tx) /\ timer \in BOOLEAN /\ drains \subseteq SUBSET Tx
  /\ sequence \in [Account -> Nat] /\ initialized \in [Account -> BOOLEAN]
  /\ pc \in [Tx -> InFlight \cup Settled \cup {"new", "queued"}]
  /\ attempt \in [Tx -> 0..RetryAttempts]
  /\ number \in [Tx -> Nat]
  /\ got \in [Tx -> Nat \cup {NoAnswer}]
  /\ ledger \in [Account -> Nat]
  /\ late \subseteq Tx \X Nat
  /\ executed \in [Tx -> Nat] /\ lost \in [Tx -> Nat]
  /\ disturbed \subseteq Tx /\ rewound \subseteq Tx

\* The types, and the queue against the calls: the queue has an entry for each
\* transaction that waits for a flush, and for no other.
TypeOK == Types /\ {t \in Tx : pc[t] = "queued"} = {queue[i] : i \in DOMAIN queue}

\* Nothing is stranded in the queue, whatever calls of submit(), flush() and
\* the timer overlap: a queue that is not empty is less than full and its timer
\* runs, and the queue holds each waiting transaction once.
QueueIsWatched ==
  /\ queue # <<>> => timer /\ Len(queue) < MaxBatchSize
  /\ \A t \in Tx : pc[t] = "queued" <=> \E i \in 1..Len(queue) : queue[i] = t
  /\ \A i, j \in 1..Len(queue) : queue[i] = queue[j] => i = j

\* Retrying never applies a transaction twice on its own: every application but
\* the one its caller hears of goes with an answer that was given up, and a
\* caller is told of a success only when there was one.
ExecutionsAccounted ==
  \A t \in Tx :
    LET heard == IF pc[t] \in {"accepted", "resolved"} THEN 1 ELSE 0
    IN heard <= executed[t] /\ executed[t] <= lost[t] + heard

\* Two pending submissions of an account have the same number only when the
\* sequence was set from the ledger while one of them was pending: the pool
\* itself never hands a number out twice.
SameNumberOnlyRewound ==
  \A t, u \in Holders :
    t # u /\ AccountOf[t] = AccountOf[u] /\ number[t] = number[u]
      => t \in rewound \/ u \in rewound

\* The pool repairs itself: whatever earlier traffic did to its sequence, a
\* transaction that meets no other one of its account and no fault succeeds,
\* when there is a second attempt.
LoneTransactionSucceeds ==
  RetryAttempts > 1 => \A t \in Tx : pc[t] = "rejected" => t \in disturbed

\* noncePool.js:6-8 and batchSubmitter.js:17-18: concurrent submissions never
\* have the same sequence number.
NumbersUnique ==
  \A t, u \in Holders :
    t # u /\ AccountOf[t] = AccountOf[u] => number[t] # number[u]

\* Every promise of submit() and every call of flush() ends.
EveryCallEnds ==
  /\ \A t \in Tx : (pc[t] # "new") ~> (pc[t] \in Settled)
  /\ (drains # {}) ~> (drains = {})

=============================================================================
