----------------------- MODULE BatchSubmitterProofs -----------------------
(* Safety of BatchSubmitter for any transactions, accounts, batch size and   *)
(* number of attempts.                                                       *)
EXTENDS BatchSubmitter, FiniteSetTheorems, TLAPS

\* Another attempt is only prepared while one is left.
AttemptsLeft ==
  \A t \in Tx : pc[t] \in {"resync", "delay"} => attempt[t] < RetryAttempts

Core == Types /\ QueueIsWatched /\ AttemptsLeft

\* How often a caller hears of an execution, and the envelopes of a transaction
\* that may still arrive.
Heard(t) == IF pc[t] \in {"accepted", "resolved"} THEN 1 ELSE 0
LateOf(t) == {e \in late : e[1] = t}

\* An execution to come is accounted for as well.
ExecInv ==
  \A t \in Tx : /\ Heard(t) <= executed[t]
                /\ IsFiniteSet(LateOf(t))
                /\ executed[t] + Cardinality(LateOf(t)) <= lost[t] + Heard(t)

\* A pending number that was not rewound is behind the sequence.
NumberInv ==
  \A t \in Holders : t \notin rewound => number[t] <= sequence[AccountOf[t]]

\* A transaction that met nobody and no fault is alone in its account; its
\* second attempt has the number that the ledger expects.
LoneInv ==
  /\ \A e \in late : e[1] \in disturbed
  /\ \A t \in Tx : got[t] # NoAnswer => pc[t] \in Fetching
  /\ \A t \in Tx \ disturbed :
       LET a == AccountOf[t]
       IN /\ pc[t] \in InFlight => FlyingPeers(t) = {}
          /\ pc[t] \notin {"give_up", "rejected"}
          /\ got[t] # NoAnswer => got[t] = ledger[a]
          /\ pc[t] \in {"refused", "resync", "delay"} => attempt[t] = 1
          /\ pc[t] = "delay" => sequence[a] = ledger[a]
          /\ pc[t] \in InFlight => attempt[t] >= 1
          /\ pc[t] = "take" /\ attempt[t] >= 2 => sequence[a] = ledger[a]
          /\ pc[t] = "sent" /\ attempt[t] >= 2 => number[t] = ledger[a] + 1

Labels == {"fetch", "take", "sent", "accepted", "refused", "resync", "delay",
           "give_up", "resolved", "rejected", "new", "queued"}

LEMMA LabelSets ==
  InFlight \cup Settled \cup {"new", "queued"} = Labels
  BY DEF InFlight, Settled, Holding, Fetching, Labels

-----------------------------------------------------------------------------
(* The queue *)

Queued(q) == {q[i] : i \in 1..Len(q)}

\* A flush of at most a batch empties the queue.
LEMMA FlushEmpties ==
  ASSUME NEW q \in Seq(Tx), Len(q) <= MaxBatchSize, Flush(q)
  PROVE  /\ Batch(q) = Queued(q)
         /\ queue' = <<>>
         /\ Queued(q) \subseteq Tx
<1>1. MaxBatchSize \in Nat
  BY SubmitterAssumption
<1>2. Batch(q) = Queued(q)
  BY <1>1 DEF Batch, Queued
<1>3. queue' = <<>>
  BY <1>1 DEF Flush
<1>4. Queued(q) \subseteq Tx
  BY DEF Queued
<1> QED BY <1>2, <1>3, <1>4

LEMMA FlushKeepsCore ==
  ASSUME Core, NEW q \in Seq(Tx), Len(q) <= MaxBatchSize, Flush(q),
         timer' \in BOOLEAN, drains' \subseteq SUBSET Tx,
         \A t \in Tx : pc[t] = "queued" => t \in Queued(q)
  PROVE  Core'
<1>1. Batch(q) = Queued(q) /\ queue' = <<>> /\ Queued(q) \subseteq Tx
  BY FlushEmpties
<1>2. pc' = [t \in Tx |-> IF t \in Queued(q) THEN Acquiring(t) ELSE pc[t]]
  BY <1>1 DEF Flush
<1>3. attempt' = [t \in Tx |-> IF t \in Queued(q) THEN 1 ELSE attempt[t]]
  BY <1>1 DEF Flush
<1>4. pc' \in [Tx -> Labels]
  <2>1. pc \in [Tx -> Labels]
    BY LabelSets DEF Core, Types
  <2>2. \A t \in Tx : Acquiring(t) \in Labels
    BY DEF Acquiring, Labels
  <2> QED BY <1>2, <2>1, <2>2
<1>5. attempt' \in [Tx -> 0..RetryAttempts]
  BY <1>3, SubmitterAssumption DEF Core, Types
<1>6. disturbed' \subseteq Tx
  <2>1. Batch(q) \subseteq Tx
    BY <1>1
  <2> QED BY <2>1 DEF Flush, Core, Types
<1>7. UNCHANGED <<number, got, poolVars, ledgerVars, lost, rewound>>
  BY DEF Flush
<1>8. Types'
  <2>1. queue' \in Seq(Tx)
    BY <1>1
  <2>2. pc' \in [Tx -> InFlight \cup Settled \cup {"new", "queued"}]
    BY <1>4, LabelSets
  <2> QED
    BY <1>5, <1>6, <1>7, <2>1, <2>2 DEF Core, Types, poolVars, ledgerVars
<1>9. QueueIsWatched'
  <2>1. Len(queue') = 0
    BY <1>1
  <2>2. \A t \in Tx : pc'[t] # "queued"
    BY <1>2 DEF Acquiring
  <2> QED BY <1>1, <2>1, <2>2 DEF QueueIsWatched
<1>10. AttemptsLeft'
  <2>1. \A t \in Tx : pc'[t] \in {"resync", "delay"} => t \notin Queued(q)
    BY <1>2 DEF Acquiring
  <2>2. \A t \in Tx : t \notin Queued(q) => pc'[t] = pc[t] /\ attempt'[t] = attempt[t]
    BY <1>2, <1>3
  <2> QED BY <2>1, <2>2 DEF Core, AttemptsLeft
<1> QED BY <1>8, <1>9, <1>10 DEF Core

\* The queue itself may be flushed.
LEMMA QueueFlushable ==
  ASSUME Core
  PROVE  /\ queue \in Seq(Tx) /\ Len(queue) <= MaxBatchSize
         /\ \A t \in Tx : pc[t] = "queued" <=> t \in Queued(queue)
<1>1. queue \in Seq(Tx) /\ (queue # <<>> => Len(queue) < MaxBatchSize)
  BY DEF Core, Types, QueueIsWatched
<1>2. Len(queue) <= MaxBatchSize
  BY <1>1, SubmitterAssumption
<1>3. \A t \in Tx : pc[t] = "queued" <=> \E i \in 1..Len(queue) : queue[i] = t
  BY DEF Core, QueueIsWatched
<1>4. \A t \in Tx : pc[t] = "queued" <=> t \in Queued(queue)
  BY <1>3 DEF Queued
<1> QED BY <1>1, <1>2, <1>4

\* So may the queue with a new transaction.
LEMMA LongerFlushable ==
  ASSUME Core, NEW t \in Tx, Len(queue) + 1 >= MaxBatchSize
  PROVE  /\ Append(queue, t) \in Seq(Tx)
         /\ Len(Append(queue, t)) <= MaxBatchSize
         /\ Queued(Append(queue, t)) = Queued(queue) \cup {t}
<1>1. queue \in Seq(Tx) /\ Len(queue) \in Nat /\ Len(queue) + 1 <= MaxBatchSize
  BY SubmitterAssumption DEF Core, Types, QueueIsWatched
<1>2. Append(queue, t) \in Seq(Tx) /\ Len(Append(queue, t)) = Len(queue) + 1
  BY <1>1
<1>3. \A i \in 1..Len(queue) : Append(queue, t)[i] = queue[i]
  BY <1>1
<1>4. Append(queue, t)[Len(queue) + 1] = t
  BY <1>1
<1>5. Queued(Append(queue, t)) = Queued(queue) \cup {t}
  <2>1. 1..(Len(queue) + 1) = 1..Len(queue) \cup {Len(queue) + 1}
    BY <1>1
  <2> QED BY <1>2, <1>3, <1>4, <2>1 DEF Queued
<1> QED BY <1>1, <1>2, <1>5

\* submit() without a flush.
LEMMA SubmitKeepsCore ==
  ASSUME Core, NEW t \in Tx, Submit(t)
  PROVE  Core'
<1>1. CASE Len(queue) + 1 >= MaxBatchSize
  <2>1. Flush(Append(queue, t)) /\ timer' = FALSE /\ drains' = drains
    BY <1>1 DEF Submit
  <2>2. \A u \in Tx : pc[u] = "queued" => u \in Queued(Append(queue, t))
    BY <1>1, LongerFlushable, QueueFlushable
  <2>3. drains' \subseteq SUBSET Tx
    BY <2>1 DEF Core, Types
  <2> QED BY <1>1, <2>1, <2>2, <2>3, LongerFlushable, FlushKeepsCore
<1>2. CASE ~(Len(queue) + 1 >= MaxBatchSize)
  <2>1. /\ timer' = TRUE /\ queue' = Append(queue, t)
        /\ pc' = [pc EXCEPT ![t] = "queued"]
        /\ UNCHANGED <<drains, attempt, number, got, poolVars, ledgerVars, historyVars>>
    BY <1>2 DEF Submit
  <2>2. queue \in Seq(Tx) /\ Len(queue) \in Nat /\ pc[t] = "new" /\ MaxBatchSize \in Nat
    BY SubmitterAssumption DEF Core, Types, Submit
  <2>3. queue' \in Seq(Tx) /\ Len(queue') = Len(queue) + 1
    BY <2>1, <2>2
  <2>4. Types'
    BY <2>1, <2>3 DEF Core, Types, poolVars, ledgerVars, historyVars
  <2>5. /\ \A i \in 1..Len(queue) : queue'[i] = queue[i]
        /\ queue'[Len(queue) + 1] = t
    BY <2>1, <2>2
  <2>6. \A i \in 1..Len(queue) : queue[i] # t
    BY <2>2 DEF Core, QueueIsWatched
  <2>7. 1..Len(queue') = 1..Len(queue) \cup {Len(queue) + 1}
    BY <2>2, <2>3
  <2>8. pc \in [Tx -> InFlight \cup Settled \cup {"new", "queued"}]
    BY DEF Core, Types
  <2>9. \A u \in Tx : pc'[u] = "queued" <=> u = t \/ pc[u] = "queued"
    BY <2>1, <2>8
  <2>10. \A u \in Tx : pc'[u] = "queued" <=> \E i \in 1..Len(queue') : queue'[i] = u
    BY <2>5, <2>7, <2>9 DEF Core, QueueIsWatched
  <2>11. \A i, j \in 1..Len(queue') : queue'[i] = queue'[j] => i = j
    BY <2>5, <2>6, <2>7 DEF Core, QueueIsWatched
  <2>12. timer' /\ Len(queue') < MaxBatchSize
    BY <1>2, <2>1, <2>2, <2>3
  <2>13. QueueIsWatched'
    BY <2>10, <2>11, <2>12 DEF QueueIsWatched
  <2>14. AttemptsLeft'
    BY <2>1, <2>8 DEF Core, AttemptsLeft
  <2> QED BY <2>4, <2>13, <2>14 DEF Core
<1> QED BY <1>1, <1>2

\* A step that leaves the queue alone and moves a transaction out of it or into
\* it never.
LEMMA QueueUntouched ==
  ASSUME Core, UNCHANGED <<queue, timer>>,
         \A t \in Tx : pc'[t] = "queued" <=> pc[t] = "queued"
  PROVE  QueueIsWatched'
  BY DEF Core, QueueIsWatched

-----------------------------------------------------------------------------
(* Types and attempts *)

\* A transaction moves between labels that are not in the queue.
LEMMA MoveKeepsQueue ==
  ASSUME Core, NEW t \in Tx, NEW label \in Labels \ {"queued", "new"},
         Goto(t, label), pc[t] \notin {"queued", "new"}, UNCHANGED <<queue, timer>>
  PROVE  /\ pc' \in [Tx -> InFlight \cup Settled \cup {"new", "queued"}]
         /\ pc'[t] = label
         /\ \A u \in Tx \ {t} : pc'[u] = pc[u]
         /\ QueueIsWatched'
<1>1. pc \in [Tx -> InFlight \cup Settled \cup {"new", "queued"}]
  BY DEF Core, Types
<1>2. pc' = [pc EXCEPT ![t] = label]
  BY DEF Goto
<1>3. pc'[t] = label /\ \A u \in Tx \ {t} : pc'[u] = pc[u]
  BY <1>1, <1>2
<1>4. pc' \in [Tx -> InFlight \cup Settled \cup {"new", "queued"}]
  BY <1>1, <1>2, LabelSets
<1>5. QueueIsWatched'
  BY <1>3, QueueUntouched
<1> QED BY <1>3, <1>4, <1>5

LEMMA ErrorLabels ==
  ASSUME Core, NEW t \in Tx, NEW b \in BOOLEAN
  PROVE  /\ AfterError(t, b) \in {"give_up", "resync", "delay"}
         /\ AfterError(t, b) # "give_up" => attempt[t] < RetryAttempts
  BY SubmitterAssumption DEF AfterError, Core, Types

LEMMA ApplyTypes ==
  ASSUME Core, NEW t \in Tx, NEW n \in Nat, Apply(t, n)
  PROVE  ledger' \in [Account -> Nat] /\ executed' \in [Tx -> Nat]
<1>0. AccountOf[t] \in Account /\ ledger \in [Account -> Nat] /\ executed \in [Tx -> Nat]
  BY SubmitterAssumption DEF Core, Types
<1>1. CASE n = ledger[AccountOf[t]] + 1
  BY <1>0, <1>1 DEF Apply
<1>2. CASE n # ledger[AccountOf[t]] + 1
  BY <1>0, <1>2 DEF Apply
<1> QED BY <1>1, <1>2

LEMMA StepKeepsCore ==
  ASSUME Core, NEW t \in Tx,
         Progress(t) \/ FetchError(t) \/ BuildError(t) \/ Lose(t)
  PROVE  Core'
<1> USE DEF queueVars, poolVars, ledgerVars, historyVars
<1>0. /\ AccountOf[t] \in Account /\ RetryAttempts \in Nat
      /\ got[t] \in Nat \cup {NoAnswer} /\ number[t] \in Nat
      /\ attempt[t] \in 0..RetryAttempts
      /\ pc \in [Tx -> InFlight \cup Settled \cup {"new", "queued"}]
  BY SubmitterAssumption DEF Core, Types
<1>1. CASE FetchRead(t)
  <2>1. Types' /\ AttemptsLeft'
    BY <1>0, <1>1 DEF FetchRead, Core, Types, AttemptsLeft
  <2>2. QueueIsWatched'
    BY <1>1, QueueUntouched DEF FetchRead
  <2> QED BY <2>1, <2>2 DEF Core
<1>2. CASE Initialized(t)
  <2> DEFINE label == "take"
  <2>1. label \in Labels \ {"queued", "new"} /\ pc[t] \notin {"queued", "new"}
    BY <1>2 DEF Initialized, Labels, SetSequence
  <2>2. Goto(t, label) /\ UNCHANGED <<queue, timer, drains>>
    BY <1>2 DEF Initialized
  <2> HIDE DEF label
  <2>3. /\ pc' \in [Tx -> InFlight \cup Settled \cup {"new", "queued"}]
        /\ pc'[t] = label
        /\ \A u \in Tx \ {t} : pc'[u] = pc[u]
        /\ QueueIsWatched'
    BY <2>1, <2>2, MoveKeepsQueue
  <2>4. attempt' \in [Tx -> 0..RetryAttempts] /\ \A u \in Tx \ {t} : attempt'[u] = attempt[u]
    BY <1>0, <1>2 DEF Initialized, Core, Types, AttemptsLeft
  <2>5. label \in {"resync", "delay"} => attempt'[t] < RetryAttempts
    BY <1>0, <1>2 DEF label, Initialized, Core, Types, AttemptsLeft, SetSequence
  <2>6. AttemptsLeft'
    BY <2>3, <2>4, <2>5 DEF Core, AttemptsLeft
  <2>7. sequence' \in [Account -> Nat] /\ initialized' \in [Account -> BOOLEAN]
    BY <1>0, <1>2 DEF Initialized, Core, Types, SetSequence
  <2>8. number' \in [Tx -> Nat] /\ got' \in [Tx -> Nat \cup {NoAnswer}]
    BY <1>0, <1>2, <2>7 DEF Initialized, Core, Types, SetSequence
  <2>9. ledger' \in [Account -> Nat] /\ executed' \in [Tx -> Nat]
    BY <1>0, <1>2 DEF Initialized, Core, Types, SetSequence
  <2>10. late' \subseteq Tx \X Nat /\ lost' \in [Tx -> Nat]
    BY <1>0, <1>2 DEF Initialized, Core, Types, SetSequence
  <2>11. disturbed' \subseteq Tx /\ rewound' \subseteq Tx
    BY <1>0, <1>2 DEF Initialized, Core, Types, SetSequence, Peers
  <2>12. Types'
    BY <2>2, <2>3, <2>4, <2>7, <2>8, <2>9, <2>10, <2>11 DEF Core, Types
  <2> QED BY <2>3, <2>6, <2>12 DEF Core
<1>3. CASE Resynced(t)
  <2> DEFINE label == IF pc[t] = "resync" THEN "delay" ELSE "rejected"
  <2>1. label \in Labels \ {"queued", "new"} /\ pc[t] \notin {"queued", "new"}
    BY <1>3 DEF Resynced, Labels, SetSequence
  <2>2. Goto(t, label) /\ UNCHANGED <<queue, timer, drains>>
    BY <1>3 DEF Resynced
  <2> HIDE DEF label
  <2>3. /\ pc' \in [Tx -> InFlight \cup Settled \cup {"new", "queued"}]
        /\ pc'[t] = label
        /\ \A u \in Tx \ {t} : pc'[u] = pc[u]
        /\ QueueIsWatched'
    BY <2>1, <2>2, MoveKeepsQueue
  <2>4. attempt' \in [Tx -> 0..RetryAttempts] /\ \A u \in Tx \ {t} : attempt'[u] = attempt[u]
    BY <1>0, <1>3 DEF Resynced, Core, Types, AttemptsLeft
  <2>5. label \in {"resync", "delay"} => attempt'[t] < RetryAttempts
    BY <1>0, <1>3 DEF label, Resynced, Core, Types, AttemptsLeft, SetSequence
  <2>6. AttemptsLeft'
    BY <2>3, <2>4, <2>5 DEF Core, AttemptsLeft
  <2>7. sequence' \in [Account -> Nat] /\ initialized' \in [Account -> BOOLEAN]
    BY <1>0, <1>3 DEF Resynced, Core, Types, SetSequence
  <2>8. number' \in [Tx -> Nat] /\ got' \in [Tx -> Nat \cup {NoAnswer}]
    BY <1>0, <1>3, <2>7 DEF Resynced, Core, Types, SetSequence
  <2>9. ledger' \in [Account -> Nat] /\ executed' \in [Tx -> Nat]
    BY <1>0, <1>3 DEF Resynced, Core, Types, SetSequence
  <2>10. late' \subseteq Tx \X Nat /\ lost' \in [Tx -> Nat]
    BY <1>0, <1>3 DEF Resynced, Core, Types, SetSequence
  <2>11. disturbed' \subseteq Tx /\ rewound' \subseteq Tx
    BY <1>0, <1>3 DEF Resynced, Core, Types, SetSequence, Peers
  <2>12. Types'
    BY <2>2, <2>3, <2>4, <2>7, <2>8, <2>9, <2>10, <2>11 DEF Core, Types
  <2> QED BY <2>3, <2>6, <2>12 DEF Core
<1>4. CASE Take(t)
  <2> DEFINE label == "sent"
  <2>1. label \in Labels \ {"queued", "new"} /\ pc[t] \notin {"queued", "new"}
    BY <1>4 DEF Take, Labels
  <2>2. Goto(t, label) /\ UNCHANGED <<queue, timer, drains>>
    BY <1>4 DEF Take
  <2> HIDE DEF label
  <2>3. /\ pc' \in [Tx -> InFlight \cup Settled \cup {"new", "queued"}]
        /\ pc'[t] = label
        /\ \A u \in Tx \ {t} : pc'[u] = pc[u]
        /\ QueueIsWatched'
    BY <2>1, <2>2, MoveKeepsQueue
  <2>4. attempt' \in [Tx -> 0..RetryAttempts] /\ \A u \in Tx \ {t} : attempt'[u] = attempt[u]
    BY <1>0, <1>4 DEF Take, Core, Types, AttemptsLeft
  <2>5. label \in {"resync", "delay"} => attempt'[t] < RetryAttempts
    BY <1>0, <1>4 DEF label, Take, Core, Types, AttemptsLeft
  <2>6. AttemptsLeft'
    BY <2>3, <2>4, <2>5 DEF Core, AttemptsLeft
  <2>7. sequence' \in [Account -> Nat] /\ initialized' \in [Account -> BOOLEAN]
    BY <1>0, <1>4 DEF Take, Core, Types
  <2>8. number' \in [Tx -> Nat] /\ got' \in [Tx -> Nat \cup {NoAnswer}]
    BY <1>0, <1>4, <2>7 DEF Take, Core, Types
  <2>9. ledger' \in [Account -> Nat] /\ executed' \in [Tx -> Nat]
    BY <1>0, <1>4 DEF Take, Core, Types
  <2>10. late' \subseteq Tx \X Nat /\ lost' \in [Tx -> Nat]
    BY <1>0, <1>4 DEF Take, Core, Types
  <2>11. disturbed' \subseteq Tx /\ rewound' \subseteq Tx
    BY <1>0, <1>4 DEF Take, Core, Types, Peers
  <2>12. Types'
    BY <2>2, <2>3, <2>4, <2>7, <2>8, <2>9, <2>10, <2>11 DEF Core, Types
  <2> QED BY <2>3, <2>6, <2>12 DEF Core
<1>5. CASE Arrive(t)
  <2> DEFINE label == IF ledger' # ledger THEN "accepted" ELSE "refused"
  <2>1. label \in Labels \ {"queued", "new"} /\ pc[t] \notin {"queued", "new"}
    BY <1>5 DEF Arrive, Labels, Apply, Holding
  <2>2. Goto(t, label) /\ UNCHANGED <<queue, timer, drains>>
    BY <1>5 DEF Arrive
  <2> HIDE DEF label
  <2>3. /\ pc' \in [Tx -> InFlight \cup Settled \cup {"new", "queued"}]
        /\ pc'[t] = label
        /\ \A u \in Tx \ {t} : pc'[u] = pc[u]
        /\ QueueIsWatched'
    BY <2>1, <2>2, MoveKeepsQueue
  <2>4. attempt' \in [Tx -> 0..RetryAttempts] /\ \A u \in Tx \ {t} : attempt'[u] = attempt[u]
    BY <1>0, <1>5 DEF Arrive, Core, Types, AttemptsLeft
  <2>5. label \in {"resync", "delay"} => attempt'[t] < RetryAttempts
    BY <1>0, <1>5 DEF label, Arrive, Core, Types, AttemptsLeft, Apply, Holding
  <2>6. AttemptsLeft'
    BY <2>3, <2>4, <2>5 DEF Core, AttemptsLeft
  <2>7. sequence' \in [Account -> Nat] /\ initialized' \in [Account -> BOOLEAN]
    BY <1>0, <1>5 DEF Arrive, Core, Types, Apply, Holding
  <2>8. number' \in [Tx -> Nat] /\ got' \in [Tx -> Nat \cup {NoAnswer}]
    BY <1>0, <1>5, <2>7 DEF Arrive, Core, Types, Apply, Holding
  <2>9. ledger' \in [Account -> Nat] /\ executed' \in [Tx -> Nat]
    BY <1>0, <1>5, ApplyTypes DEF Arrive
  <2>10. late' \subseteq Tx \X Nat /\ lost' \in [Tx -> Nat]
    BY <1>0, <1>5 DEF Arrive, Core, Types, Apply, Holding
  <2>11. disturbed' \subseteq Tx /\ rewound' \subseteq Tx
    BY <1>0, <1>5 DEF Arrive, Core, Types, Apply, Holding, Peers
  <2>12. Types'
    BY <2>2, <2>3, <2>4, <2>7, <2>8, <2>9, <2>10, <2>11 DEF Core, Types
  <2> QED BY <2>3, <2>6, <2>12 DEF Core
<1>6. CASE Resolve(t)
  <2> DEFINE label == "resolved"
  <2>1. label \in Labels \ {"queued", "new"} /\ pc[t] \notin {"queued", "new"}
    BY <1>6 DEF Resolve, Labels
  <2>2. Goto(t, label) /\ UNCHANGED <<queue, timer, drains>>
    BY <1>6 DEF Resolve
  <2> HIDE DEF label
  <2>3. /\ pc' \in [Tx -> InFlight \cup Settled \cup {"new", "queued"}]
        /\ pc'[t] = label
        /\ \A u \in Tx \ {t} : pc'[u] = pc[u]
        /\ QueueIsWatched'
    BY <2>1, <2>2, MoveKeepsQueue
  <2>4. attempt' \in [Tx -> 0..RetryAttempts] /\ \A u \in Tx \ {t} : attempt'[u] = attempt[u]
    BY <1>0, <1>6 DEF Resolve, Core, Types, AttemptsLeft
  <2>5. label \in {"resync", "delay"} => attempt'[t] < RetryAttempts
    BY <1>0, <1>6 DEF label, Resolve, Core, Types, AttemptsLeft
  <2>6. AttemptsLeft'
    BY <2>3, <2>4, <2>5 DEF Core, AttemptsLeft
  <2>7. Types'
    BY <1>0, <1>6, <2>2, <2>3, <2>4 DEF Resolve, Core, Types, NoAnswer
  <2> QED BY <2>3, <2>6, <2>7 DEF Core
<1>7. CASE Refuse(t)
  <2> DEFINE label == AfterError(t, TRUE)
  <2>1. label \in Labels \ {"queued", "new"} /\ pc[t] \notin {"queued", "new"}
    BY <1>7, ErrorLabels DEF Refuse, Labels
  <2>2. Goto(t, label) /\ UNCHANGED <<queue, timer, drains>>
    BY <1>7 DEF Refuse
  <2> HIDE DEF label
  <2>3. /\ pc' \in [Tx -> InFlight \cup Settled \cup {"new", "queued"}]
        /\ pc'[t] = label
        /\ \A u \in Tx \ {t} : pc'[u] = pc[u]
        /\ QueueIsWatched'
    BY <2>1, <2>2, MoveKeepsQueue
  <2>4. attempt' \in [Tx -> 0..RetryAttempts] /\ \A u \in Tx \ {t} : attempt'[u] = attempt[u]
    BY <1>0, <1>7 DEF Refuse, Core, Types, AttemptsLeft
  <2>5. label \in {"resync", "delay"} => attempt'[t] < RetryAttempts
    BY <1>0, <1>7, ErrorLabels DEF label, Refuse, Core, Types, AttemptsLeft
  <2>6. AttemptsLeft'
    BY <2>3, <2>4, <2>5 DEF Core, AttemptsLeft
  <2>7. Types'
    BY <1>0, <1>7, <2>2, <2>3, <2>4 DEF Refuse, Core, Types, NoAnswer
  <2> QED BY <2>3, <2>6, <2>7 DEF Core
<1>8. CASE Retry(t)
  <2> DEFINE label == Acquiring(t)
  <2>1. label \in Labels \ {"queued", "new"} /\ pc[t] \notin {"queued", "new"}
    BY <1>8 DEF Retry, Labels, Acquiring
  <2>2. Goto(t, label) /\ UNCHANGED <<queue, timer, drains>>
    BY <1>8 DEF Retry
  <2> HIDE DEF label
  <2>3. /\ pc' \in [Tx -> InFlight \cup Settled \cup {"new", "queued"}]
        /\ pc'[t] = label
        /\ \A u \in Tx \ {t} : pc'[u] = pc[u]
        /\ QueueIsWatched'
    BY <2>1, <2>2, MoveKeepsQueue
  <2>4. attempt' \in [Tx -> 0..RetryAttempts] /\ \A u \in Tx \ {t} : attempt'[u] = attempt[u]
    BY <1>0, <1>8 DEF Retry, Core, Types, AttemptsLeft
  <2>5. label \in {"resync", "delay"} => attempt'[t] < RetryAttempts
    BY <1>0, <1>8 DEF label, Retry, Core, Types, AttemptsLeft, Acquiring
  <2>6. AttemptsLeft'
    BY <2>3, <2>4, <2>5 DEF Core, AttemptsLeft
  <2>7. Types'
    BY <1>0, <1>8, <2>2, <2>3, <2>4 DEF Retry, Core, Types, Acquiring, NoAnswer
  <2> QED BY <2>3, <2>6, <2>7 DEF Core
<1>9. CASE FetchError(t)
  <2> DEFINE label == AfterFetchError(pc[t])
  <2>1. label \in Labels \ {"queued", "new"} /\ pc[t] \notin {"queued", "new"}
    BY <1>9 DEF FetchError, Labels, AfterFetchError, Fetching
  <2>2. Goto(t, label) /\ UNCHANGED <<queue, timer, drains>>
    BY <1>9 DEF FetchError
  <2> HIDE DEF label
  <2>3. /\ pc' \in [Tx -> InFlight \cup Settled \cup {"new", "queued"}]
        /\ pc'[t] = label
        /\ \A u \in Tx \ {t} : pc'[u] = pc[u]
        /\ QueueIsWatched'
    BY <2>1, <2>2, MoveKeepsQueue
  <2>4. attempt' \in [Tx -> 0..RetryAttempts] /\ \A u \in Tx \ {t} : attempt'[u] = attempt[u]
    BY <1>0, <1>9 DEF FetchError, Core, Types, AttemptsLeft
  <2>5. label \in {"resync", "delay"} => attempt'[t] < RetryAttempts
    BY <1>0, <1>9 DEF label, FetchError, Core, Types, AttemptsLeft, AfterFetchError, Fetching
  <2>6. AttemptsLeft'
    BY <2>3, <2>4, <2>5 DEF Core, AttemptsLeft
  <2>7. Types'
    BY <1>0, <1>9, <2>2, <2>3, <2>4 DEF FetchError, Core, Types, AfterFetchError, Fetching, NoAnswer
  <2> QED BY <2>3, <2>6, <2>7 DEF Core
<1>10. CASE BuildError(t)
  <2> DEFINE label == "give_up"
  <2>1. label \in Labels \ {"queued", "new"} /\ pc[t] \notin {"queued", "new"}
    BY <1>10 DEF BuildError, Labels
  <2>2. Goto(t, label) /\ UNCHANGED <<queue, timer, drains>>
    BY <1>10 DEF BuildError
  <2> HIDE DEF label
  <2>3. /\ pc' \in [Tx -> InFlight \cup Settled \cup {"new", "queued"}]
        /\ pc'[t] = label
        /\ \A u \in Tx \ {t} : pc'[u] = pc[u]
        /\ QueueIsWatched'
    BY <2>1, <2>2, MoveKeepsQueue
  <2>4. attempt' \in [Tx -> 0..RetryAttempts] /\ \A u \in Tx \ {t} : attempt'[u] = attempt[u]
    BY <1>0, <1>10 DEF BuildError, Core, Types, AttemptsLeft
  <2>5. label \in {"resync", "delay"} => attempt'[t] < RetryAttempts
    BY <1>0, <1>10 DEF label, BuildError, Core, Types, AttemptsLeft
  <2>6. AttemptsLeft'
    BY <2>3, <2>4, <2>5 DEF Core, AttemptsLeft
  <2>7. Types'
    <3>1. sequence' \in [Account -> Nat] /\ disturbed' \subseteq Tx
      BY <1>0, <1>10 DEF BuildError, Core, Types
    <3>2. UNCHANGED <<queue, timer, drains, initialized, ledger, late, executed,
                      number, got, lost, rewound>>
      BY <1>10 DEF BuildError, queueVars, ledgerVars
    <3> QED BY <2>3, <2>4, <3>1, <3>2 DEF Core, Types, NoAnswer
  <2> QED BY <2>3, <2>6, <2>7 DEF Core
<1>11. CASE Lose(t)
  <2> DEFINE label == AfterError(t, FALSE)
  <2>1. label \in Labels \ {"queued", "new"} /\ pc[t] \notin {"queued", "new"}
    BY <1>11, ErrorLabels DEF Lose, Labels, Holding
  <2>2. Goto(t, label) /\ UNCHANGED <<queue, timer, drains>>
    BY <1>11 DEF Lose
  <2> HIDE DEF label
  <2>3. /\ pc' \in [Tx -> InFlight \cup Settled \cup {"new", "queued"}]
        /\ pc'[t] = label
        /\ \A u \in Tx \ {t} : pc'[u] = pc[u]
        /\ QueueIsWatched'
    BY <2>1, <2>2, MoveKeepsQueue
  <2>4. attempt' \in [Tx -> 0..RetryAttempts] /\ \A u \in Tx \ {t} : attempt'[u] = attempt[u]
    BY <1>0, <1>11 DEF Lose, Core, Types, AttemptsLeft
  <2>5. label \in {"resync", "delay"} => attempt'[t] < RetryAttempts
    BY <1>0, <1>11, ErrorLabels DEF label, Lose, Core, Types, AttemptsLeft, Holding
  <2>6. AttemptsLeft'
    BY <2>3, <2>4, <2>5 DEF Core, AttemptsLeft
  <2>7. sequence' \in [Account -> Nat] /\ initialized' \in [Account -> BOOLEAN]
    BY <1>0, <1>11 DEF Lose, Core, Types, Holding
  <2>8. number' \in [Tx -> Nat] /\ got' \in [Tx -> Nat \cup {NoAnswer}]
    BY <1>0, <1>11, <2>7 DEF Lose, Core, Types, Holding
  <2>9. ledger' \in [Account -> Nat] /\ executed' \in [Tx -> Nat]
    BY <1>0, <1>11 DEF Lose, Core, Types, Holding
  <2>10. late' \subseteq Tx \X Nat /\ lost' \in [Tx -> Nat]
    BY <1>0, <1>11 DEF Lose, Core, Types, Holding
  <2>11. disturbed' \subseteq Tx /\ rewound' \subseteq Tx
    BY <1>0, <1>11 DEF Lose, Core, Types, Holding, Peers
  <2>12. Types'
    BY <2>2, <2>3, <2>4, <2>7, <2>8, <2>9, <2>10, <2>11 DEF Core, Types
  <2> QED BY <2>3, <2>6, <2>12 DEF Core
<1> QED BY <1>1, <1>2, <1>3, <1>4, <1>5, <1>6, <1>7, <1>8, <1>9, <1>10, <1>11 DEF Progress

LEMMA LateKeepsCore ==
  ASSUME Core, NEW t \in Tx, NEW n \in Nat, ArriveLate(t, n)
  PROVE  Core'
<1> USE DEF queueVars, poolVars, txVars
<1>1. ledger' \in [Account -> Nat] /\ executed' \in [Tx -> Nat]
  BY ApplyTypes DEF ArriveLate
<1>2. late' \subseteq Tx \X Nat /\ disturbed' \subseteq Tx
  BY DEF ArriveLate, Core, Types, FlyingPeers, Peers
<1>3. Types'
  BY <1>1, <1>2 DEF ArriveLate, Core, Types
<1>4. QueueIsWatched' /\ AttemptsLeft'
  BY QueueUntouched DEF ArriveLate, Core, AttemptsLeft
<1> QED BY <1>3, <1>4 DEF Core

LEMMA InitCore ==
  ASSUME Init
  PROVE  Core
<1>1. RetryAttempts \in Nat
  BY SubmitterAssumption
<1>2. Types
  <2>1. pc \in [Tx -> InFlight \cup Settled \cup {"new", "queued"}]
    BY DEF Init
  <2>2. attempt \in [Tx -> 0..RetryAttempts] /\ got \in [Tx -> Nat \cup {NoAnswer}]
    BY <1>1 DEF Init
  <2>3. queue \in Seq(Tx)
    BY DEF Init
  <2> QED BY <2>1, <2>2, <2>3 DEF Init, Types
<1>3. QueueIsWatched /\ AttemptsLeft
  BY DEF Init, QueueIsWatched, AttemptsLeft
<1> QED BY <1>2, <1>3 DEF Core

\* A flush, wherever it is called from.
Flushing(q) ==
  /\ q \in Seq(Tx) /\ Len(q) <= MaxBatchSize
  /\ Flush(q)
  /\ \A t \in Queued(q) : pc[t] \in {"new", "queued"}

\* Every step is a flush, a call that waits in the queue, a step that leaves
\* all but the queue's timers alone, or a step of a transaction or the ledger.
Quiet == UNCHANGED <<queue, txVars, poolVars, ledgerVars, historyVars>>
Waits(t) ==
  /\ pc[t] = "new" /\ pc' = [pc EXCEPT ![t] = "queued"]
  /\ UNCHANGED <<attempt, number, got, poolVars, ledgerVars, historyVars>>

LEMMA StepForms ==
  ASSUME Core, [Next]_vars
  PROVE  \/ \E q \in Seq(Tx) : Flushing(q)
         \/ Quiet
         \/ \E t \in Tx : Waits(t)
         \/ \E t \in Tx : Progress(t) \/ FetchError(t) \/ BuildError(t) \/ Lose(t)
         \/ \E t \in Tx, n \in Nat : ArriveLate(t, n)
<1>1. ASSUME Flush(queue)
      PROVE  \E q \in Seq(Tx) : Flushing(q)
  BY <1>1, QueueFlushable DEF Flushing, Queued
<1>2. ASSUME NEW t \in Tx, Submit(t)
      PROVE  (\E q \in Seq(Tx) : Flushing(q)) \/ Waits(t)
  <2>1. CASE Len(queue) + 1 >= MaxBatchSize
    <3>1. Flush(Append(queue, t)) /\ pc[t] = "new"
      BY <1>2, <2>1 DEF Submit
    <3>2. Queued(queue) \subseteq Tx
      BY DEF Core, Types, Queued
    <3>3. \A u \in Queued(queue) : pc[u] = "queued"
      BY <3>2, QueueFlushable
    <3>4. \A u \in Queued(Append(queue, t)) : pc[u] \in {"new", "queued"}
      BY <2>1, <3>1, <3>3, LongerFlushable
    <3>5. Flushing(Append(queue, t))
      BY <2>1, <3>1, <3>4, LongerFlushable DEF Flushing
    <3> QED BY <2>1, <3>5, LongerFlushable
  <2>2. CASE ~(Len(queue) + 1 >= MaxBatchSize)
    BY <1>2, <2>2 DEF Submit, Waits
  <2> QED BY <2>1, <2>2
<1>3. ASSUME TimerFires \/ Drain \/ \E batch \in drains : DrainNext(batch)
      PROVE  (\E q \in Seq(Tx) : Flushing(q)) \/ Quiet
  <2>1. Flush(queue) \/ Quiet
    BY <1>3 DEF TimerFires, Drain, DrainNext, Quiet
  <2> QED BY <1>1, <2>1
<1>4. ASSUME NEW e \in late, ArriveLate(e[1], e[2])
      PROVE  \E t \in Tx, n \in Nat : ArriveLate(t, n)
  <2>1. e[1] \in Tx /\ e[2] \in Nat
    BY DEF Core, Types
  <2> QED BY <1>4, <2>1
<1>5. CASE UNCHANGED vars
  BY <1>5 DEF vars, queueVars, Quiet
<1>6. CASE Next
  BY <1>2, <1>3, <1>4, <1>6 DEF Next
<1> QED BY <1>5, <1>6

LEMMA CoreStep ==
  ASSUME Core, [Next]_vars
  PROVE  Core'
<1>1. ASSUME TimerFires \/ Drain \/ \E batch \in drains : DrainNext(batch)
      PROVE  Core'
  <2>1. timer' \in BOOLEAN
    BY <1>1 DEF TimerFires, Drain, DrainNext, Core, Types
  <2>2. Batch(queue) \subseteq Tx
    BY DEF Batch, Core, Types
  <2>3. drains' \subseteq SUBSET Tx
    BY <1>1, <2>2 DEF TimerFires, Drain, DrainNext, Core, Types
  <2>4. CASE queue # <<>>
    <3>1. Flush(queue)
      BY <1>1, <2>4 DEF TimerFires, Drain, DrainNext
    <3> QED BY <2>1, <2>3, <3>1, QueueFlushable, FlushKeepsCore
  <2>5. CASE queue = <<>>
    <3>1. UNCHANGED <<queue, txVars, poolVars, ledgerVars, historyVars>>
      BY <1>1, <2>5 DEF TimerFires, Drain, DrainNext
    <3>2. Types' /\ AttemptsLeft'
      BY <2>1, <2>3, <3>1
         DEF Core, Types, AttemptsLeft, txVars, poolVars, ledgerVars, historyVars
    <3>3. QueueIsWatched'
      BY <2>5, <3>1 DEF Core, QueueIsWatched, txVars
    <3> QED BY <3>2, <3>3 DEF Core
  <2> QED BY <2>4, <2>5
<1>2. ASSUME NEW e \in late, ArriveLate(e[1], e[2])
      PROVE  Core'
  <2>1. e[1] \in Tx /\ e[2] \in Nat
    BY DEF Core, Types
  <2> QED BY <1>2, <2>1, LateKeepsCore
<1>3. CASE UNCHANGED vars
  BY <1>3 DEF vars, queueVars, txVars, poolVars, ledgerVars, historyVars,
              Core, Types, QueueIsWatched, AttemptsLeft
<1>4. CASE Next
  BY <1>1, <1>2, <1>4, SubmitKeepsCore, StepKeepsCore DEF Next
<1> QED BY <1>3, <1>4

-----------------------------------------------------------------------------
(* Sequence numbers *)

Numbers == NumberInv /\ SameNumberOnlyRewound

\* A step that hands out no number keeps Numbers when the transactions that
\* still are not rewound find the sequence no lower.
LEMMA NoNumberTaken ==
  ASSUME Core, Numbers, Core',
         \A t \in Tx : pc'[t] \in Holding => pc[t] \in Holding /\ number'[t] = number[t],
         \A t \in Tx : pc'[t] \in Holding /\ t \notin rewound' =>
           t \notin rewound /\ sequence[AccountOf[t]] <= sequence'[AccountOf[t]]
  PROVE  Numbers'
<1>1. \A t \in Tx : /\ AccountOf[t] \in Account /\ number[t] \in Nat
                    /\ sequence[AccountOf[t]] \in Nat /\ sequence'[AccountOf[t]] \in Nat
  BY SubmitterAssumption DEF Core, Types
<1>2. NumberInv'
  BY <1>1 DEF Numbers, NumberInv, Holders
<1>3. SameNumberOnlyRewound'
  BY DEF Numbers, SameNumberOnlyRewound, Holders
<1> QED BY <1>2, <1>3 DEF Numbers

LEMMA NumberTaken ==
  ASSUME Core, Numbers, Core', NEW t \in Tx, Take(t)
  PROVE  Numbers'
<1>1. \A u \in Tx : AccountOf[u] \in Account /\ number[u] \in Nat
  BY SubmitterAssumption DEF Core, Types
<1>2. /\ \A a \in Account : sequence[a] \in Nat
      /\ sequence' = [sequence EXCEPT ![AccountOf[t]] = @ + 1]
      /\ number' = [number EXCEPT ![t] = sequence'[AccountOf[t]]]
      /\ sequence \in [Account -> Nat] /\ number \in [Tx -> Nat]
      /\ rewound' = rewound \ {t}
  BY DEF Core, Types, Take
<1>3. number'[t] = sequence[AccountOf[t]] + 1 /\ number'[t] = sequence'[AccountOf[t]]
  BY <1>1, <1>2
<1>4. \A u \in Tx \ {t} : /\ number'[u] = number[u] /\ (u \in rewound' <=> u \in rewound)
                          /\ sequence[AccountOf[u]] <= sequence'[AccountOf[u]]
  BY <1>1, <1>2
<1>5. \A u \in Tx \ {t} : pc'[u] = pc[u]
  BY DEF Take, Goto, Core, Types
<1>6. \A u \in Tx \ {t} : u \in Holders' /\ u \notin rewound' => number[u] <= sequence[AccountOf[u]]
  BY <1>4, <1>5 DEF Numbers, NumberInv, Holders
<1>7. NumberInv'
  <2> SUFFICES ASSUME NEW u \in Tx, pc'[u] \in Holding, u \notin rewound'
               PROVE  number'[u] <= sequence'[AccountOf[u]]
    BY DEF NumberInv, Holders
  <2>1. CASE u = t
    BY <1>1, <1>2, <1>3, <2>1
  <2>2. CASE u # t
    <3>1. number[u] <= sequence[AccountOf[u]] /\ number'[u] = number[u]
          /\ sequence[AccountOf[u]] <= sequence'[AccountOf[u]]
      BY <1>4, <1>6, <2>2 DEF Holders
    <3>2. sequence'[AccountOf[u]] \in Nat /\ sequence[AccountOf[u]] \in Nat
      BY <1>1 DEF Core, Types
    <3> QED BY <1>1, <3>1, <3>2
  <2> QED BY <2>1, <2>2
<1>8. SameNumberOnlyRewound'
  <2> SUFFICES ASSUME NEW u \in Tx, NEW v \in Tx, pc'[u] \in Holding, pc'[v] \in Holding,
                      u # v, AccountOf[u] = AccountOf[v], number'[u] = number'[v],
                      u \notin rewound', v \notin rewound'
               PROVE  FALSE
    BY DEF SameNumberOnlyRewound, Holders
  <2>1. CASE u # t /\ v # t
    BY <1>4, <1>5, <2>1 DEF Numbers, SameNumberOnlyRewound, Holders
  <2>2. CASE u = t
    <3>1. number[v] <= sequence[AccountOf[v]] /\ number'[v] = number[v]
      BY <1>4, <1>6, <2>2 DEF Holders
    <3> QED BY <1>1, <1>2, <1>3, <2>2, <3>1
  <2>3. CASE v = t
    <3>1. number[u] <= sequence[AccountOf[u]] /\ number'[u] = number[u]
      BY <1>4, <1>6, <2>3 DEF Holders
    <3> QED BY <1>1, <1>2, <1>3, <2>3, <3>1
  <2> QED BY <2>1, <2>2, <2>3
<1> QED BY <1>7, <1>8 DEF Numbers

LEMMA NumbersStep ==
  ASSUME Core, Numbers, Core', [Next]_vars
  PROVE  Numbers'
<1> USE DEF queueVars, txVars, poolVars, ledgerVars, historyVars
<1>0. /\ \A t \in Tx : AccountOf[t] \in Account /\ sequence[AccountOf[t]] \in Nat
      /\ pc \in [Tx -> InFlight \cup Settled \cup {"new", "queued"}]
      /\ number \in [Tx -> Nat] /\ sequence \in [Account -> Nat]
  BY SubmitterAssumption DEF Core, Types
<1>1. ASSUME NEW q \in Seq(Tx), Flushing(q)
      PROVE  Numbers'
  BY <1>0, <1>1, NoNumberTaken DEF Flushing, Flush, Acquiring, Holding
<1>2. CASE Quiet
  BY <1>0, <1>2, NoNumberTaken DEF Quiet
<1>3. ASSUME NEW t \in Tx, Waits(t)
      PROVE  Numbers'
  BY <1>0, <1>3, NoNumberTaken DEF Waits, Holding
<1>4. ASSUME NEW t \in Tx, NEW n \in Nat, ArriveLate(t, n)
      PROVE  Numbers'
  BY <1>0, <1>4, NoNumberTaken DEF ArriveLate
<1>5. ASSUME NEW t \in Tx, Initialized(t) \/ Resynced(t)
      PROVE  Numbers'
  <2>1. /\ pc'[t] \notin Holding
        /\ \A u \in Tx \ {t} : pc'[u] = pc[u]
        /\ \A u \in Tx : number'[u] = number[u]
    BY <1>0, <1>5 DEF Initialized, Resynced, Goto, Holding
  <2>2. /\ sequence' = [sequence EXCEPT ![AccountOf[t]] = got[t]]
        /\ rewound' = rewound \cup {u \in Peers(t) : pc[u] \in Holding}
    BY <1>5 DEF Initialized, Resynced, SetSequence
  <2>3. \A u \in Tx : pc'[u] \in Holding /\ u \notin rewound' =>
           u \notin rewound /\ AccountOf[u] # AccountOf[t]
    BY <2>1, <2>2 DEF Peers
  <2>4. \A u \in Tx : AccountOf[u] # AccountOf[t]
                        => sequence[AccountOf[u]] <= sequence'[AccountOf[u]]
    BY <1>0, <2>2
  <2> QED BY <2>1, <2>3, <2>4, NoNumberTaken
<1>6. ASSUME NEW t \in Tx,
             FetchRead(t) \/ Resolve(t) \/ Refuse(t) \/ Retry(t) \/ FetchError(t) \/ Lose(t)
      PROVE  Numbers'
  <2>1. /\ pc'[t] \in Holding => pc'[t] = pc[t]
        /\ \A u \in Tx \ {t} : pc'[u] = pc[u]
    BY <1>0, <1>6, ErrorLabels
       DEF FetchRead, Resolve, Refuse, Retry, FetchError, Lose, Goto, Holding, Fetching,
           Acquiring, AfterFetchError
  <2>2. UNCHANGED <<number, sequence, rewound>>
    BY <1>6 DEF FetchRead, Resolve, Refuse, Retry, FetchError, Lose
  <2> QED BY <1>0, <2>1, <2>2, NoNumberTaken
<1>7. ASSUME NEW t \in Tx, Arrive(t) \/ BuildError(t)
      PROVE  Numbers'
  <2>1. /\ pc'[t] \in Holding => pc[t] \in Holding
        /\ \A u \in Tx \ {t} : pc'[u] = pc[u]
    BY <1>0, <1>7 DEF Arrive, BuildError, Goto, Holding
  <2>2. UNCHANGED <<number, rewound>>
    BY <1>7 DEF Arrive, BuildError
  <2>3. \A u \in Tx : sequence[AccountOf[u]] <= sequence'[AccountOf[u]]
    BY <1>0, <1>7 DEF Arrive, BuildError
  <2> QED BY <2>1, <2>2, <2>3, NoNumberTaken
<1> QED BY <1>1, <1>2, <1>3, <1>4, <1>5, <1>6, <1>7, StepForms, NumberTaken DEF Progress

-----------------------------------------------------------------------------
(* Executions *)

\* The executions and answers of one transaction are in balance.
Balanced(t) ==
  /\ Heard(t) <= executed[t]
  /\ IsFiniteSet(LateOf(t))
  /\ executed[t] + Cardinality(LateOf(t)) <= lost[t] + Heard(t)

LEMMA BalanceKept ==
  ASSUME ExecInv, NEW t \in Tx, LateOf(t)' = LateOf(t), Heard(t)' = Heard(t),
         executed'[t] = executed[t], lost'[t] = lost[t]
  PROVE  Balanced(t)'
  BY DEF ExecInv, Balanced

LEMMA ExecStep ==
  ASSUME Core, ExecInv, Core', [Next]_vars
  PROVE  ExecInv'
<1> USE DEF queueVars, txVars, poolVars, ledgerVars, historyVars
<1>0. /\ \A t \in Tx : AccountOf[t] \in Account
      /\ pc \in [Tx -> InFlight \cup Settled \cup {"new", "queued"}]
      /\ executed \in [Tx -> Nat] /\ lost \in [Tx -> Nat] /\ number \in [Tx -> Nat]
      /\ ledger \in [Account -> Nat] /\ late \subseteq Tx \X Nat
  BY SubmitterAssumption DEF Core, Types
<1>1. ASSUME NEW q \in Seq(Tx), Flushing(q), NEW u \in Tx
      PROVE  Balanced(u)'
  <2>1. UNCHANGED <<executed, late, lost>>
    BY <1>1 DEF Flushing, Flush
  <2>2. Batch(q) = Queued(q)
    BY <1>1, FlushEmpties DEF Flushing
  <2>3. Heard(u)' = Heard(u)
    BY <1>1, <2>2 DEF Heard, Flushing, Flush, Acquiring
  <2>4. LateOf(u)' = LateOf(u)
    BY <2>1 DEF LateOf
  <2> QED BY <2>1, <2>3, <2>4, BalanceKept
<1>2. ASSUME Quiet, NEW u \in Tx
      PROVE  Balanced(u)'
  BY <1>2, BalanceKept DEF Quiet, Heard, LateOf
<1>3. ASSUME NEW t \in Tx, Waits(t), NEW u \in Tx
      PROVE  Balanced(u)'
  BY <1>0, <1>3, BalanceKept DEF Waits, Heard, LateOf
<1>4. ASSUME NEW t \in Tx, NEW n \in Nat, ArriveLate(t, n), NEW u \in Tx
      PROVE  Balanced(u)'
  <2>1. CASE u # t
    <3>1. LateOf(u)' = LateOf(u)
      BY <1>4, <2>1 DEF ArriveLate, LateOf
    <3>2. executed'[u] = executed[u]
      BY <1>0, <1>4, <2>1 DEF ArriveLate, Apply
    <3> QED BY <1>4, <3>1, <3>2, BalanceKept DEF ArriveLate, Heard
  <2>2. CASE u = t
    <3>1. LateOf(t)' = LateOf(t) \ {<<t, n>>} /\ <<t, n>> \in LateOf(t)
      BY <1>4 DEF ArriveLate, LateOf
    <3>0. IsFiniteSet(LateOf(t))
      BY DEF ExecInv
    <3>2. IsFiniteSet(LateOf(t)')
          /\ Cardinality(LateOf(t)') = Cardinality(LateOf(t)) - 1
          /\ Cardinality(LateOf(t)) \in Nat
      BY <3>0, <3>1, FS_RemoveElement, FS_CardinalityType
    <3>3. executed'[t] \in {executed[t], executed[t] + 1} /\ executed[t] \in Nat
      BY <1>0, <1>4 DEF ArriveLate, Apply
    <3>4. Heard(t)' = Heard(t) /\ lost'[t] = lost[t] /\ Heard(t) \in Nat /\ lost[t] \in Nat
      BY <1>0, <1>4 DEF ArriveLate, Heard
    <3>5. Heard(t) <= executed[t] /\ executed[t] + Cardinality(LateOf(t)) <= lost[t] + Heard(t)
      BY DEF ExecInv
    <3>6. (Cardinality(LateOf(t)))' = Cardinality(LateOf(t)')
      OBVIOUS
    <3> QED BY <2>2, <3>2, <3>3, <3>4, <3>5 DEF Balanced
  <2> QED BY <2>1, <2>2
<1>5. ASSUME NEW t \in Tx, NEW u \in Tx,
             FetchRead(t) \/ Initialized(t) \/ Resynced(t) \/ Take(t) \/ Resolve(t)
               \/ Refuse(t) \/ Retry(t) \/ FetchError(t) \/ BuildError(t)
      PROVE  Balanced(u)'
  <2>1. UNCHANGED <<executed, late, lost>>
    BY <1>5 DEF FetchRead, Initialized, Resynced, Take, Resolve, Refuse, Retry, FetchError,
                BuildError
  <2>2. Heard(u)' = Heard(u)
    BY <1>0, <1>5, ErrorLabels
       DEF FetchRead, Initialized, Resynced, Take, Resolve, Refuse, Retry, FetchError,
           BuildError, Goto, Heard, Acquiring, AfterFetchError, Fetching
  <2> QED BY <2>1, <2>2, BalanceKept DEF LateOf
<1>6. ASSUME NEW t \in Tx, Arrive(t), NEW u \in Tx
      PROVE  Balanced(u)'
  <2>1. LateOf(u)' = LateOf(u) /\ lost'[u] = lost[u]
    BY <1>6 DEF Arrive, LateOf
  <2>2. CASE u # t
    <3>1. executed'[u] = executed[u]
      BY <1>0, <1>6, <2>2 DEF Arrive, Apply
    <3>2. Heard(u)' = Heard(u)
      BY <1>0, <1>6, <2>2 DEF Arrive, Goto, Heard
    <3> QED BY <2>1, <3>1, <3>2, BalanceKept
  <2>3. CASE u = t /\ number[t] = ledger[AccountOf[t]] + 1
    <3>1. ledger'[AccountOf[t]] = ledger[AccountOf[t]] + 1 /\ executed'[t] = executed[t] + 1
      BY <1>0, <1>6, <2>3 DEF Arrive, Apply
    <3>2. ledger' # ledger
      BY <1>0, <3>1
    <3>3. Heard(t) = 0 /\ Heard(t)' = 1
      BY <1>0, <1>6, <3>2 DEF Arrive, Goto, Heard
    <3>4. executed[t] \in Nat /\ lost[t] \in Nat
      BY <1>0
    <3>5. /\ IsFiniteSet(LateOf(t)) /\ Cardinality(LateOf(t)) \in Nat
          /\ executed[t] + Cardinality(LateOf(t)) <= lost[t]
      BY <3>3, <3>4, FS_CardinalityType DEF ExecInv
    <3> QED BY <2>1, <2>3, <3>1, <3>3, <3>4, <3>5 DEF Balanced
  <2>4. CASE u = t /\ number[t] # ledger[AccountOf[t]] + 1
    <3>1. ledger' = ledger /\ executed' = executed
      BY <1>6, <2>4 DEF Arrive, Apply
    <3>2. Heard(t)' = Heard(t)
      BY <1>0, <1>6, <3>1 DEF Arrive, Goto, Heard
    <3> QED BY <2>1, <2>4, <3>1, <3>2, BalanceKept
  <2> QED BY <2>2, <2>3, <2>4
<1>7. ASSUME NEW t \in Tx, Lose(t), NEW u \in Tx
      PROVE  Balanced(u)'
  <2>1. CASE u # t
    <3>1. LateOf(u)' = LateOf(u) /\ lost'[u] = lost[u] /\ executed' = executed
      BY <1>0, <1>7, <2>1 DEF Lose, LateOf
    <3>2. Heard(u)' = Heard(u)
      BY <1>0, <1>7, <2>1 DEF Lose, Goto, Heard
    <3> QED BY <3>1, <3>2, BalanceKept
  <2>2. CASE u = t
    <3>1. Heard(t)' = 0 /\ lost'[t] = lost[t] + 1 /\ executed'[t] = executed[t]
      BY <1>0, <1>7, ErrorLabels DEF Lose, Goto, Heard
    <3>2. /\ executed[t] \in Nat /\ lost[t] \in Nat
          /\ IsFiniteSet(LateOf(t)) /\ Cardinality(LateOf(t)) \in Nat
          /\ executed[t] + Cardinality(LateOf(t)) <= lost[t] + Heard(t)
      BY <1>0, FS_CardinalityType DEF ExecInv
    <3>3. CASE pc[t] = "sent"
      <4>1. LateOf(t)' = LateOf(t) \cup {<<t, number[t]>>}
        BY <1>7, <3>3 DEF Lose, LateOf
      <4>2. /\ IsFiniteSet(LateOf(t)')
            /\ Cardinality(LateOf(t)') \in Nat
            /\ Cardinality(LateOf(t)') <= Cardinality(LateOf(t)) + 1
        <5>1. ASSUME NEW S, NEW x, IsFiniteSet(S)
              PROVE  /\ IsFiniteSet(S \cup {x}) /\ Cardinality(S \cup {x}) \in Nat
                     /\ Cardinality(S \cup {x}) <= Cardinality(S) + 1
          <6>1. Cardinality(S) \in Nat
            BY <5>1, FS_CardinalityType
          <6>2. /\ IsFiniteSet(S \cup {x})
                /\ Cardinality(S \cup {x}) = IF x \in S THEN Cardinality(S) ELSE Cardinality(S) + 1
            BY <5>1, FS_AddElement, Zenon
          <6> QED BY <6>1, <6>2
        <5> QED BY <3>2, <4>1, <5>1
      <4>3. Heard(t) = 0
        BY <3>3 DEF Heard
      <4> QED BY <2>2, <3>1, <3>2, <4>2, <4>3 DEF Balanced
    <3>4. CASE pc[t] # "sent"
      <4>1. LateOf(t)' = LateOf(t)
        BY <1>7, <3>4 DEF Lose, LateOf
      <4>2. Heard(t) \in 0..1
        BY DEF Heard
      <4> QED BY <2>2, <3>1, <3>2, <4>1, <4>2 DEF Balanced
    <3> QED BY <3>3, <3>4
  <2> QED BY <2>1, <2>2
<1>8. \A u \in Tx : Balanced(u)'
  BY <1>1, <1>2, <1>3, <1>4, <1>5, <1>6, <1>7, StepForms DEF Progress
<1> QED BY <1>8 DEF ExecInv, Balanced

-----------------------------------------------------------------------------
(* A transaction that meets nobody *)

LoneOf(t) ==
  LET a == AccountOf[t]
  IN /\ pc[t] \in InFlight => FlyingPeers(t) = {}
     /\ pc[t] \notin {"give_up", "rejected"}
     /\ got[t] # NoAnswer => got[t] = ledger[a]
     /\ pc[t] \in {"refused", "resync", "delay"} => attempt[t] = 1
     /\ pc[t] = "delay" => sequence[a] = ledger[a]
     /\ pc[t] \in InFlight => attempt[t] >= 1
     /\ pc[t] = "take" /\ attempt[t] >= 2 => sequence[a] = ledger[a]
     /\ pc[t] = "sent" /\ attempt[t] >= 2 => number[t] = ledger[a] + 1

LEMMA LoneParts ==
  LoneInv <=> /\ \A e \in late : e[1] \in disturbed
              /\ \A t \in Tx : got[t] # NoAnswer => pc[t] \in Fetching
              /\ \A t \in Tx \ disturbed : LoneOf(t)
  BY DEF LoneInv, LoneOf

\* While a transaction is under way, one of its account that met nobody is not.
LEMMA OthersRest ==
  ASSUME Core, LoneInv, NEW t \in Tx, pc[t] \in InFlight,
         NEW u \in Tx \ {t}, u \notin disturbed, AccountOf[u] = AccountOf[t]
  PROVE  pc[u] \notin InFlight /\ pc[u] # "rejected" /\ got[u] = NoAnswer
<1>1. LoneOf(u) /\ (got[u] # NoAnswer => pc[u] \in Fetching)
  BY LoneParts
<1>2. t \in FlyingPeers(u)
  BY DEF FlyingPeers, Peers
<1> QED BY <1>1, <1>2 DEF LoneOf, InFlight

\* A step of a transaction leaves the others as they are.
LEMMA OthersKept ==
  ASSUME Core, LoneInv, NEW t \in Tx, pc[t] \in InFlight,
         \A u \in Tx \ {t} : /\ pc'[u] = pc[u] /\ got'[u] = got[u]
                             /\ number'[u] = number[u] /\ attempt'[u] = attempt[u],
         \A a \in Account \ {AccountOf[t]} :
           sequence'[a] = sequence[a] /\ ledger'[a] = ledger[a],
         NEW u \in Tx \ {t}, u \notin disturbed
  PROVE  LoneOf(u)'
<1>1. CASE AccountOf[u] = AccountOf[t]
  <2>1. pc'[u] \notin InFlight /\ pc'[u] # "rejected" /\ got'[u] = NoAnswer
    BY <1>1, OthersRest
  <2> QED BY <2>1 DEF LoneOf, InFlight, Holding, Fetching
<1>2. CASE AccountOf[u] # AccountOf[t]
  <2>1. AccountOf[u] \in Account \ {AccountOf[t]}
    BY <1>2, SubmitterAssumption
  <2>2. FlyingPeers(u)' = FlyingPeers(u)
    BY <1>2 DEF FlyingPeers, Peers
  <2>3. LoneOf(u)
    BY LoneParts
  <2> QED BY <2>1, <2>2, <2>3 DEF LoneOf
<1> QED BY <1>1, <1>2

\* What a step of t has to show of t itself.
LEMMA StepOfOne ==
  ASSUME Core, LoneInv, NEW t \in Tx, pc[t] \in InFlight,
         \A u \in Tx \ {t} : /\ pc'[u] = pc[u] /\ got'[u] = got[u]
                             /\ number'[u] = number[u] /\ attempt'[u] = attempt[u],
         \A a \in Account \ {AccountOf[t]} :
           sequence'[a] = sequence[a] /\ ledger'[a] = ledger[a],
         disturbed \subseteq disturbed',
         \A e \in late' : e[1] \in disturbed',
         got'[t] # NoAnswer => pc'[t] \in Fetching,
         t \notin disturbed' /\ LoneOf(t) /\ FlyingPeers(t)' = {} => LoneOf(t)'
  PROVE  LoneInv'
<1>1. FlyingPeers(t)' = FlyingPeers(t)
  BY DEF FlyingPeers, Peers
<1>2. \A u \in Tx : got'[u] # NoAnswer => pc'[u] \in Fetching
  BY LoneParts
<1>3. ASSUME NEW u \in Tx \ disturbed' PROVE LoneOf(u)'
  <2>1. CASE u = t
    <3>1. LoneOf(t)
      BY <1>3, <2>1, LoneParts
    <3>2. FlyingPeers(t) = {}
      BY <3>1 DEF LoneOf
    <3> QED BY <1>1, <1>3, <2>1, <3>1, <3>2
  <2>2. CASE u # t
    BY <1>3, <2>2, OthersKept
  <2> QED BY <2>1, <2>2
<1>4. \A e \in late' : e[1] \in disturbed'
  OBVIOUS
<1> QED BY <1>2, <1>3, <1>4 DEF LoneInv, LoneOf

LEMMA FlushKeepsLone ==
  ASSUME Core, LoneInv, NEW q \in Seq(Tx), Flushing(q)
  PROVE  LoneInv'
<1>1. Batch(q) = Queued(q) /\ Queued(q) \subseteq Tx
  BY FlushEmpties DEF Flushing
<1>2. /\ UNCHANGED <<number, got, sequence, initialized, ledger, late>>
      /\ pc' = [t \in Tx |-> IF t \in Queued(q) THEN Acquiring(t) ELSE pc[t]]
      /\ attempt' = [t \in Tx |-> IF t \in Queued(q) THEN 1 ELSE attempt[t]]
  BY <1>1 DEF Flushing, Flush, poolVars, ledgerVars
<1>3. /\ disturbed \subseteq disturbed'
      /\ \A t \in Queued(q) : \A u \in Peers(t) :
           u \in Queued(q) \/ pc[u] \in InFlight => t \in disturbed'
      /\ \A t \in Tx : pc[t] \in InFlight /\ Peers(t) \cap Queued(q) # {} => t \in disturbed'
  BY <1>1 DEF Flushing, Flush
<1>4. \A e \in late' : e[1] \in disturbed'
  BY <1>2, <1>3, LoneParts
<1>5. \A t \in Queued(q) : pc[t] \notin Fetching /\ got[t] = NoAnswer
  BY <1>1, LoneParts DEF Flushing, Fetching
<1>6. \A t \in Tx : got'[t] # NoAnswer => pc'[t] \in Fetching
  BY <1>2, <1>5, LoneParts
<1>7. ASSUME NEW t \in Tx \ disturbed' PROVE LoneOf(t)'
  <2>1. LoneOf(t)
    BY <1>3, <1>7, LoneParts
  <2>2. CASE t \in Queued(q)
    <3>1. \A u \in Peers(t) : u \notin Queued(q) /\ pc[u] \notin InFlight
      BY <1>3, <1>7, <2>2
    <3>2. FlyingPeers(t)' = {}
      BY <1>2, <3>1 DEF FlyingPeers, Peers
    <3>3. pc'[t] \in {"take", "fetch"} /\ attempt'[t] = 1 /\ got'[t] = NoAnswer
      BY <1>2, <1>5, <2>2 DEF Acquiring
    <3> QED BY <3>2, <3>3 DEF LoneOf
  <2>3. CASE t \notin Queued(q)
    <3>1. pc'[t] = pc[t] /\ attempt'[t] = attempt[t]
      BY <1>2, <2>3
    <3>2. ASSUME pc[t] \in InFlight PROVE FlyingPeers(t)' = {}
      <4>1. Peers(t) \cap Queued(q) = {} /\ FlyingPeers(t) = {}
        BY <1>3, <1>7, <2>1, <3>2 DEF LoneOf
      <4> QED BY <1>2, <4>1 DEF FlyingPeers, Peers
    <3> QED BY <1>2, <2>1, <3>1, <3>2 DEF LoneOf
  <2> QED BY <2>2, <2>3
<1> QED BY <1>4, <1>6, <1>7 DEF LoneInv, LoneOf

LEMMA ResyncedLone ==
  ASSUME Core, LoneInv, NEW t \in Tx, Initialized(t) \/ Resynced(t)
  PROVE  LoneInv'
<1>1. /\ AccountOf[t] \in Account /\ sequence \in [Account -> Nat]
      /\ pc \in [Tx -> InFlight \cup Settled \cup {"new", "queued"}]
      /\ got \in [Tx -> Nat \cup {NoAnswer}]
  BY SubmitterAssumption DEF Core, Types
<1>2. /\ got[t] # NoAnswer /\ got' = [got EXCEPT ![t] = NoAnswer]
      /\ sequence' = [sequence EXCEPT ![AccountOf[t]] = got[t]]
      /\ UNCHANGED <<number, attempt, ledger, late, disturbed>>
  BY DEF Initialized, Resynced, SetSequence, ledgerVars
<1>3. \/ pc[t] = "fetch" /\ pc'[t] = "take"
      \/ pc[t] = "resync" /\ pc'[t] = "delay"
      \/ pc[t] = "give_up" /\ pc'[t] = "rejected"
  BY <1>1 DEF Initialized, Resynced, Goto
<1>4. \A u \in Tx \ {t} : pc'[u] = pc[u] /\ got'[u] = got[u]
  BY <1>1, <1>2 DEF Initialized, Resynced, Goto
<1>5. got'[t] = NoAnswer /\ sequence'[AccountOf[t]] = got[t]
  BY <1>1, <1>2
<1>6. \A a \in Account \ {AccountOf[t]} : sequence'[a] = sequence[a] /\ ledger'[a] = ledger[a]
  BY <1>1, <1>2
<1>7. pc[t] \in InFlight
  BY <1>3 DEF InFlight, Fetching
<1>8. \A e \in late' : e[1] \in disturbed'
  BY <1>2, LoneParts
<1>9. LoneOf(t) /\ FlyingPeers(t)' = {} => LoneOf(t)'
  BY <1>2, <1>3, <1>5, <1>7 DEF LoneOf
<1> QED BY <1>2, <1>4, <1>5, <1>6, <1>7, <1>8, <1>9, StepOfOne

\* The other steps of a transaction set no sequence but by taking a number.
LEMMA StepLone ==
  ASSUME Core, LoneInv, RetryAttempts > 1, NEW t \in Tx,
         \/ FetchRead(t) \/ Take(t) \/ Resolve(t) \/ Refuse(t) \/ Retry(t)
         \/ FetchError(t) \/ BuildError(t) \/ Lose(t)
  PROVE  LoneInv'
<1> USE DEF queueVars, txVars, poolVars, ledgerVars, historyVars
<1>0. /\ AccountOf[t] \in Account /\ sequence \in [Account -> Nat] /\ RetryAttempts \in Nat
      /\ pc \in [Tx -> InFlight \cup Settled \cup {"new", "queued"}]
      /\ got \in [Tx -> Nat \cup {NoAnswer}] /\ number \in [Tx -> Nat]
      /\ attempt \in [Tx -> 0..RetryAttempts] /\ ledger \in [Account -> Nat]
  BY SubmitterAssumption DEF Core, Types
<1>1. pc[t] \in InFlight
  BY DEF FetchRead, Take, Resolve, Refuse, Retry, FetchError, BuildError, Lose,
         InFlight, Fetching, Holding
<1>2. \A u \in Tx \ {t} : pc'[u] = pc[u]
  BY <1>0 DEF FetchRead, Take, Resolve, Refuse, Retry, FetchError, BuildError, Lose, Goto
<1>3. \A u \in Tx \ {t} : /\ got'[u] = got[u] /\ number'[u] = number[u]
                          /\ attempt'[u] = attempt[u]
  BY <1>0 DEF FetchRead, Take, Resolve, Refuse, Retry, FetchError, BuildError, Lose
<1>4. ledger' = ledger /\ \A a \in Account \ {AccountOf[t]} : sequence'[a] = sequence[a]
  BY <1>0 DEF FetchRead, Take, Resolve, Refuse, Retry, FetchError, BuildError, Lose
<1>5. disturbed \subseteq disturbed'
  BY DEF FetchRead, Take, Resolve, Refuse, Retry, FetchError, BuildError, Lose
<1>6. \A e \in late' : e[1] \in disturbed'
  <2>1. \A e \in late : e[1] \in disturbed'
    BY <1>5, LoneParts
  <2>2. CASE late' = late
    BY <2>1, <2>2
  <2>3. CASE Lose(t)
    <3>1. t \in disturbed' /\ late' \subseteq late \cup {<<t, number[t]>>}
      BY <2>3 DEF Lose
    <3>2. <<t, number[t]>>[1] = t
      OBVIOUS
    <3> QED BY <2>1, <3>1, <3>2
  <2> QED BY <2>2, <2>3 DEF FetchRead, Take, Resolve, Refuse, Retry, FetchError, BuildError
<1>7. got'[t] # NoAnswer => pc'[t] \in Fetching
  <2>1. got[t] # NoAnswer => pc[t] \in Fetching
    BY LoneParts
  <2> QED BY <1>0, <2>1
    DEF FetchRead, Take, Resolve, Refuse, Retry, FetchError, BuildError, Lose, Fetching,
        Holding
<1>8. ASSUME t \notin disturbed', LoneOf(t), FlyingPeers(t)' = {} PROVE LoneOf(t)'
  <2>1. CASE FetchRead(t)
    BY <1>0, <1>8, <2>1 DEF FetchRead, LoneOf, Fetching
  <2>2. CASE Take(t)
    <3>1. /\ pc'[t] = "sent" /\ number'[t] = sequence[AccountOf[t]] + 1
          /\ UNCHANGED <<got, attempt, ledger>> /\ pc[t] = "take"
      BY <1>0, <2>2 DEF Take, Goto
    <3>2. got'[t] = NoAnswer
      BY <3>1, LoneParts DEF Fetching
    <3> QED BY <1>1, <1>8, <3>1, <3>2 DEF LoneOf
  <2>3. CASE Resolve(t)
    <3>1. pc'[t] = "resolved" /\ got'[t] = got[t] /\ pc[t] = "accepted"
      BY <1>0, <2>3 DEF Resolve, Goto
    <3>2. got'[t] = NoAnswer
      BY <3>1, LoneParts DEF Fetching
    <3> QED BY <3>1, <3>2 DEF LoneOf, InFlight, Holding, Fetching
  <2>4. CASE Refuse(t)
    <3>1. pc[t] = "refused" /\ attempt[t] = 1
      BY <1>8, <2>4 DEF Refuse, LoneOf
    <3>2. AfterError(t, TRUE) = "resync"
      BY <1>0, <3>1 DEF AfterError
    <3>3. pc'[t] = "resync" /\ UNCHANGED <<got, attempt, ledger, sequence, number>>
      BY <1>0, <2>4, <3>2 DEF Refuse, Goto
    <3>4. got'[t] = NoAnswer
      BY <3>1, <3>3, LoneParts DEF Fetching
    <3> QED BY <1>8, <3>1, <3>3, <3>4 DEF LoneOf
  <2>5. CASE Retry(t)
    <3>1. /\ pc[t] = "delay" /\ pc'[t] \in {"take", "fetch"} /\ attempt'[t] = attempt[t] + 1
          /\ UNCHANGED <<got, ledger, sequence, number>>
      BY <1>0, <2>5 DEF Retry, Goto, Acquiring
    <3>2. got'[t] = NoAnswer
      BY <3>1, LoneParts DEF Fetching
    <3>3. attempt[t] = 1 /\ sequence[AccountOf[t]] = ledger[AccountOf[t]]
      BY <1>8, <3>1 DEF LoneOf
    <3> QED BY <1>8, <3>1, <3>2, <3>3 DEF LoneOf
  <2>6. CASE FetchError(t) \/ BuildError(t) \/ Lose(t)
    BY <1>8, <2>6 DEF FetchError, BuildError, Lose
  <2> QED BY <2>1, <2>2, <2>3, <2>4, <2>5, <2>6
<1> QED BY <1>1, <1>2, <1>3, <1>4, <1>5, <1>6, <1>7, <1>8, StepOfOne

LEMMA ArriveLone ==
  ASSUME Core, LoneInv, NEW t \in Tx, Arrive(t)
  PROVE  LoneInv'
<1>0. /\ AccountOf[t] \in Account /\ ledger \in [Account -> Nat] /\ number \in [Tx -> Nat]
      /\ pc \in [Tx -> InFlight \cup Settled \cup {"new", "queued"}]
      /\ attempt \in [Tx -> 0..RetryAttempts] /\ RetryAttempts \in Nat
  BY SubmitterAssumption DEF Core, Types
<1>1. /\ UNCHANGED <<sequence, late, attempt, number, got, disturbed>>
      /\ pc[t] = "sent" /\ Apply(t, number[t])
  BY DEF Arrive, poolVars, historyVars
<1>2. pc[t] \in InFlight /\ got[t] = NoAnswer
  BY <1>1, LoneParts DEF InFlight, Holding, Fetching
<1>3. \A u \in Tx \ {t} : pc'[u] = pc[u]
  BY <1>0 DEF Arrive, Goto
<1>4. \A a \in Account \ {AccountOf[t]} : ledger'[a] = ledger[a]
  BY <1>0, <1>1 DEF Apply
<1>5. \A e \in late' : e[1] \in disturbed'
  BY <1>1, LoneParts
<1>6. ASSUME LoneOf(t), FlyingPeers(t)' = {} PROVE LoneOf(t)'
  <2>1. CASE number[t] = ledger[AccountOf[t]] + 1
    <3>1. ledger'[AccountOf[t]] # ledger[AccountOf[t]]
      BY <1>0, <1>1, <2>1 DEF Apply
    <3>2. pc'[t] = "accepted"
      BY <1>0, <3>1 DEF Arrive, Goto
    <3> QED BY <1>1, <1>2, <1>6, <3>2 DEF LoneOf
  <2>2. CASE number[t] # ledger[AccountOf[t]] + 1
    <3>1. ledger' = ledger
      BY <1>1, <2>2 DEF Apply
    <3>2. pc'[t] = "refused"
      BY <1>0, <3>1 DEF Arrive, Goto
    <3>3. attempt[t] = 1
      <4>1. attempt[t] >= 1 /\ ~(attempt[t] >= 2)
        BY <1>1, <1>2, <1>6, <2>2 DEF LoneOf
      <4> QED BY <1>0, <4>1
    <3> QED BY <1>1, <1>2, <1>6, <3>2, <3>3 DEF LoneOf
  <2> QED BY <2>1, <2>2
<1> QED BY <1>1, <1>2, <1>3, <1>4, <1>5, <1>6, StepOfOne

LEMMA LateLone ==
  ASSUME Core, LoneInv, NEW t \in Tx, NEW n \in Nat, ArriveLate(t, n)
  PROVE  LoneInv'
<1>0. ledger \in [Account -> Nat] /\ \A u \in Tx : AccountOf[u] \in Account
  BY SubmitterAssumption DEF Core, Types
<1>1. /\ UNCHANGED <<pc, attempt, number, got, sequence>>
      /\ late' \subseteq late /\ <<t, n>> \in late
      /\ disturbed' = disturbed \cup FlyingPeers(t)
      /\ Apply(t, n)
  BY DEF ArriveLate, poolVars, txVars
<1>2. t \in disturbed
  <2>1. \A e \in late : e[1] \in disturbed
    BY LoneParts
  <2>2. <<t, n>>[1] = t
    OBVIOUS
  <2> QED BY <1>1, <2>1, <2>2
<1>3. ASSUME NEW u \in Tx \ disturbed' PROVE LoneOf(u)'
  <2>1. LoneOf(u) /\ u # t
    BY <1>1, <1>2, <1>3, LoneParts
  <2>2. FlyingPeers(u)' = FlyingPeers(u)
    BY <1>1 DEF FlyingPeers
  <2>3. CASE AccountOf[u] = AccountOf[t]
    <3>1. pc[u] \notin InFlight
      BY <1>1, <1>3, <2>1, <2>3 DEF FlyingPeers, Peers
    <3>2. got[u] = NoAnswer
      BY <3>1, LoneParts DEF InFlight
    <3> QED BY <1>1, <2>1, <3>1, <3>2 DEF LoneOf, InFlight, Holding, Fetching
  <2>4. CASE AccountOf[u] # AccountOf[t]
    <3>1. ledger'[AccountOf[u]] = ledger[AccountOf[u]]
      BY <1>0, <1>1, <2>4 DEF Apply
    <3> QED BY <1>1, <2>1, <2>2, <3>1 DEF LoneOf
  <2> QED BY <2>3, <2>4
<1>4. \A e \in late' : e[1] \in disturbed'
  BY <1>1, LoneParts
<1>5. \A u \in Tx : got'[u] # NoAnswer => pc'[u] \in Fetching
  BY <1>1, LoneParts
<1> QED BY <1>3, <1>4, <1>5 DEF LoneInv, LoneOf

LEMMA LoneStep ==
  ASSUME Core, LoneInv, RetryAttempts > 1, [Next]_vars
  PROVE  LoneInv'
<1>1. CASE Quiet
  BY <1>1 DEF Quiet, txVars, poolVars, ledgerVars, historyVars, LoneInv, FlyingPeers
<1>2. ASSUME NEW t \in Tx, Waits(t)
      PROVE  LoneInv'
  <2>1. /\ UNCHANGED <<attempt, number, got, sequence, ledger, late, disturbed>>
        /\ pc[t] = "new" /\ pc' = [pc EXCEPT ![t] = "queued"]
    BY <1>2 DEF Waits, poolVars, ledgerVars, historyVars
  <2>2. pc \in [Tx -> InFlight \cup Settled \cup {"new", "queued"}]
    BY DEF Core, Types
  <2>3. pc'[t] = "queued" /\ \A u \in Tx \ {t} : pc'[u] = pc[u]
    BY <2>1, <2>2
  <2>4. got[t] = NoAnswer
    BY <2>1, LoneParts DEF Fetching
  <2>5. \A u \in Tx : FlyingPeers(u)' = FlyingPeers(u)
    BY <2>1, <2>3 DEF FlyingPeers, Peers, InFlight, Holding, Fetching
  <2>6. ASSUME NEW u \in Tx \ disturbed' PROVE LoneOf(u)'
    <3>1. LoneOf(u)
      BY <2>1, <2>6, LoneParts
    <3>2. CASE u = t
      BY <2>1, <2>3, <2>4, <3>2 DEF LoneOf, InFlight, Holding, Fetching
    <3>3. CASE u # t
      BY <2>1, <2>3, <2>5, <3>1, <3>3 DEF LoneOf
    <3> QED BY <3>2, <3>3
  <2>7. \A e \in late' : e[1] \in disturbed'
    BY <2>1, LoneParts
  <2>8. \A u \in Tx : got'[u] # NoAnswer => pc'[u] \in Fetching
    BY <2>1, <2>3, <2>4, LoneParts
  <2> QED BY <2>6, <2>7, <2>8 DEF LoneInv, LoneOf
<1> QED BY <1>1, <1>2, StepForms, FlushKeepsLone, ResyncedLone, StepLone, ArriveLone, LateLone
        DEF Flushing, Progress

-----------------------------------------------------------------------------
(* The theorems *)

\* Types, attempts and the queue hold in every reachable state.
THEOREM CoreInvariance == Spec => []Core
<1>1. Init => Core
  BY InitCore
<1>2. Core /\ [Next]_vars => Core'
  BY CoreStep
<1> QED BY <1>1, <1>2, PTL DEF Spec

\* TypeOK: attempts never exceed retryAttempts (batchSubmitter.js:132), and the
\* queue holds what waits for a flush (:74-104).
THEOREM TypeCorrect == Spec => []TypeOK
<1>1. Core => TypeOK
  <2> SUFFICES ASSUME Core PROVE TypeOK
    OBVIOUS
  <2>1. queue \in Seq(Tx) /\ DOMAIN queue = 1..Len(queue)
    BY DEF Core, Types
  <2>2. \A i \in 1..Len(queue) : queue[i] \in Tx
    BY <2>1
  <2> QED BY <2>1, <2>2 DEF Core, TypeOK, QueueIsWatched
<1> QED BY <1>1, CoreInvariance, PTL

\* QueueIsWatched: no call of submit() or flush() strands a transaction
\* (batchSubmitter.js:74-104).
THEOREM QueueNeverStranded == Spec => []QueueIsWatched
<1>1. Core => QueueIsWatched
  BY DEF Core
<1> QED BY <1>1, CoreInvariance, PTL

\* SameNumberOnlyRewound: acquire() hands a number out twice only after the
\* sequence was set from the ledger (noncePool.js:35-45).
THEOREM PoolNeverRepeats == Spec => []SameNumberOnlyRewound
<1>1. Init => Numbers
  BY DEF Init, Numbers, NumberInv, SameNumberOnlyRewound, Holders, Holding
<1>2. Core /\ Core' /\ Numbers /\ [Next]_vars => Numbers'
  BY NumbersStep
<1>3. Numbers => SameNumberOnlyRewound
  BY DEF Numbers
<1> QED BY <1>1, <1>2, <1>3, CoreInvariance, PTL DEF Spec

\* ExecutionsAccounted: retries apply a transaction again only when an answer
\* was lost (batchSubmitter.js:126-142).
THEOREM NoUnexplainedExecution == Spec => []ExecutionsAccounted
<1>1. Init => ExecInv
  <2> SUFFICES ASSUME Init, NEW t \in Tx
               PROVE  Balanced(t)
    BY DEF ExecInv, Balanced
  <2>1. LateOf(t) = {}
    BY DEF Init, LateOf
  <2>2. IsFiniteSet(LateOf(t)) /\ Cardinality(LateOf(t)) = 0
    BY <2>1, FS_EmptySet
  <2>3. Heard(t) = 0 /\ executed[t] = 0 /\ lost[t] = 0
    BY DEF Init, Heard
  <2> QED BY <2>2, <2>3 DEF Balanced
<1>2. Core /\ Core' /\ ExecInv /\ [Next]_vars => ExecInv'
  BY ExecStep
<1>3. Core /\ ExecInv => ExecutionsAccounted
  <2> SUFFICES ASSUME Core, ExecInv, NEW t \in Tx
               PROVE  Heard(t) <= executed[t] /\ executed[t] <= lost[t] + Heard(t)
    BY DEF ExecutionsAccounted, Heard
  <2>1. /\ executed[t] \in Nat /\ lost[t] \in Nat
        /\ Heard(t) <= executed[t]
        /\ executed[t] + Cardinality(LateOf(t)) <= lost[t] + Heard(t)
        /\ Cardinality(LateOf(t)) \in Nat
    BY FS_CardinalityType DEF Core, Types, ExecInv
  <2>2. Heard(t) \in 0..1
    BY DEF Heard
  <2> QED BY <2>1, <2>2
<1> QED BY <1>1, <1>2, <1>3, CoreInvariance, PTL DEF Spec

\* LoneTransactionSucceeds: resync() repairs the pool for a transaction that
\* meets nobody and no fault (batchSubmitter.js:133-140).
THEOREM PoolRepairsItself == Spec => []LoneTransactionSucceeds
<1> DEFINE Lone == RetryAttempts > 1 => LoneInv
<1>1. Init => Lone
  BY DEF Init, LoneInv, InFlight, Holding, Fetching
<1>2. Core /\ Lone /\ [Next]_vars => Lone'
  BY LoneStep
<1>3. Lone => LoneTransactionSucceeds
  BY LoneParts DEF LoneTransactionSucceeds, LoneOf
<1> QED BY <1>1, <1>2, <1>3, CoreInvariance, PTL DEF Spec

=============================================================================
