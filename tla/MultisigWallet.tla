--------------------------- MODULE MultisigWallet ---------------------------
(***************************************************************************)
(* The multisig-wallet contract: owners kept in a dense list and as flags, *)
(* a threshold, a window of delays, and transactions that owners confirm   *)
(* until they are ready, wait for their delay and are executed.  A call    *)
(* that returns an error or panics changes nothing, so every action is a   *)
(* call that succeeds.  Storage that a call can find empty is a function   *)
(* whose domain is the set of the keys that are there.                     *)
(***************************************************************************)
EXTENDS Integers, FiniteSets, TLC

CONSTANTS Address,   \* accounts that may become owners
          Delay,     \* delays that calls pass, in seconds
          MaxStamp,  \* the largest u64: adding beyond it panics
          MaxTime,   \* bound: the last ledger timestamp
          MaxTx,     \* bound: transactions submitted
          None

ASSUME WalletAssumption ==
  /\ IsFiniteSet(Address) /\ Address # {}
  /\ Delay \subseteq Nat /\ MaxStamp \in Nat /\ MaxTime \in Nat /\ MaxTx \in Nat
  /\ None \notin Nat

VARIABLES
  initialized,
  threshold, minDelay, maxDelay,  \* instance storage
  ownerCount, txCount,
  ownerAt,       \* index -> owner
  isOwner,       \* addresses with an IsOwner flag
  tx,            \* id -> transaction
  confirmed,     \* Confirmation flags: pairs of an id and an address
  now,           \* timestamp of the ledger
  quorumSince,   \* history: since when a quorum has stood behind a transaction
  executedAt     \* history: when a transaction was executed

settingVars == <<initialized, threshold, minDelay, maxDelay>>
ownerVars == <<ownerCount, ownerAt, isOwner>>
txVars == <<txCount, tx, confirmed, quorumSince, executedAt>>
vars == <<settingVars, ownerVars, txVars, now>>

Put(f, k, v) == [x \in DOMAIN f \cup {k} |-> IF x = k THEN v ELSE f[x]]
Remove(f, k) == [x \in DOMAIN f \ {k} |-> f[x]]

Init ==
  /\ initialized = FALSE
  /\ threshold = 1 /\ minDelay = 0 /\ maxDelay = 0
  /\ ownerCount = 0 /\ txCount = 0
  /\ ownerAt = [i \in {} |-> None]
  /\ isOwner = {}
  /\ tx = [id \in {} |-> None]
  /\ confirmed = {}
  /\ now = 0
  /\ quorumSince = [id \in {} |-> None]
  /\ executedAt = [id \in {} |-> None]

Tick ==
  /\ now < MaxTime
  /\ now' = now + 1
  /\ UNCHANGED <<settingVars, ownerVars, txVars>>

-----------------------------------------------------------------------------
(* Settings and owners *)

\* initialize(): n different owners, a threshold among them, a delay window.
Initialize ==
  \E n \in 1..Cardinality(Address) :
    \E owners \in [0..(n - 1) -> Address], t \in 1..n, low, high \in Delay :
      /\ ~initialized
      /\ low <= high
      /\ \A i, j \in 0..(n - 1) : owners[i] = owners[j] => i = j
      /\ initialized' = TRUE
      /\ ownerCount' = n
      /\ ownerAt' = owners
      /\ isOwner' = {owners[i] : i \in 0..(n - 1)}
      /\ threshold' = t
      /\ minDelay' = low /\ maxDelay' = high
      /\ UNCHANGED <<txVars, now>>

AddOwner(caller, new) ==
  /\ caller \in isOwner
  /\ new \notin isOwner
  /\ ownerAt' = Put(ownerAt, ownerCount, new)
  /\ isOwner' = isOwner \cup {new}
  /\ ownerCount' = ownerCount + 1
  /\ UNCHANGED <<settingVars, txVars, now>>

\* Mutation: the owner's place is not filled.
ListWithoutUnfilled(owner) == Remove(ownerAt, ownerCount - 1)

\* The first place that holds the owner gets the last owner of the list, and
\* the last place is removed.
ListWithout(owner) ==
  LET places == {i \in 0..(ownerCount - 1) :
                   i \in DOMAIN ownerAt /\ ownerAt[i] = owner}
      first == CHOOSE i \in places : \A j \in places : i <= j
      last == ownerCount - 1
  IN  IF places = {} THEN ownerAt
      ELSE IF first = last \/ last \notin DOMAIN ownerAt
           THEN Remove(ownerAt, last)
           ELSE Remove(Put(ownerAt, first, ownerAt[last]), last)

\* Mutation: one owner too few may remain.
CanSpareOffByOne == ownerCount >= threshold

CanSpare == ownerCount - 1 >= threshold

RemoveOwner(caller, owner) ==
  /\ caller \in isOwner /\ owner \in isOwner
  /\ caller # owner
  /\ CanSpare
  /\ ownerAt' = ListWithout(owner)
  /\ isOwner' = isOwner \ {owner}
  /\ ownerCount' = ownerCount - 1
  /\ UNCHANGED <<settingVars, txVars, now>>

ChangeThreshold(caller, t) ==
  /\ caller \in isOwner
  /\ t # 0 /\ t <= ownerCount
  /\ threshold' = t
  /\ UNCHANGED <<initialized, minDelay, maxDelay, ownerVars, txVars, now>>

UpdateDelays(caller, low, high) ==
  /\ caller \in isOwner
  /\ low <= high
  /\ minDelay' = low /\ maxDelay' = high
  /\ UNCHANGED <<initialized, threshold, ownerVars, txVars, now>>

-----------------------------------------------------------------------------
(* Transactions *)

SubmitTransaction(proposer, delay) ==
  /\ proposer \in isOwner
  /\ minDelay <= delay /\ delay <= maxDelay
  /\ txCount < MaxTx
  /\ tx' = Put(tx, txCount, [status |-> "Pending", confirmations |-> 0,
                             delay |-> delay, executeAfter |-> 0])
  /\ txCount' = txCount + 1
  /\ quorumSince' = Put(quorumSince, txCount, None)
  /\ executedAt' = Put(executedAt, txCount, None)
  /\ UNCHANGED <<settingVars, ownerVars, confirmed, now>>

Approvers(id) == {a \in Address : <<id, a>> \in confirmed}

\* A confirmed transaction: ready when the threshold is reached.
AfterConfirmation(t) ==
  IF t.confirmations + 1 >= threshold
  THEN [t EXCEPT !.confirmations = @ + 1, !.status = "Ready",
                 !.executeAfter = now + t.delay]
  ELSE [t EXCEPT !.confirmations = @ + 1]

\* Mutation: an owner may confirm twice.
ConfirmAgain(owner, id) ==
  /\ owner \in isOwner
  /\ tx[id].status = "Pending"
  /\ AfterConfirmation(tx[id]).executeAfter <= MaxStamp
  /\ confirmed' = confirmed \cup {<<id, owner>>}
  /\ tx' = [tx EXCEPT ![id] = AfterConfirmation(@)]
  /\ quorumSince' = IF /\ quorumSince[id] = None
                       /\ Cardinality(Approvers(id)') >= threshold
                    THEN [quorumSince EXCEPT ![id] = now]
                    ELSE quorumSince
  /\ UNCHANGED <<settingVars, ownerVars, txCount, executedAt, now>>

\* The threshold-th confirmation panics if the delay overflows the clock.
ConfirmTransaction(owner, id) ==
  /\ owner \in isOwner
  /\ tx[id].status = "Pending"
  /\ <<id, owner>> \notin confirmed
  /\ AfterConfirmation(tx[id]).executeAfter <= MaxStamp
  /\ confirmed' = confirmed \cup {<<id, owner>>}
  /\ tx' = [tx EXCEPT ![id] = AfterConfirmation(@)]
  /\ quorumSince' = IF /\ quorumSince[id] = None
                       /\ Cardinality(Approvers(id)') >= threshold
                    THEN [quorumSince EXCEPT ![id] = now]
                    ELSE quorumSince
  /\ UNCHANGED <<settingVars, ownerVars, txCount, executedAt, now>>

\* Mutation: a transaction that has lost its quorum stays ready.
AfterRevocationReady(t) == [t EXCEPT !.confirmations = @ - 1]

\* A transaction without the confirmation: pending again if it was ready and
\* its confirmations are now below the threshold.
AfterRevocation(t) ==
  IF t.status = "Ready" /\ t.confirmations - 1 < threshold
  THEN [t EXCEPT !.confirmations = @ - 1, !.status = "Pending", !.executeAfter = 0]
  ELSE [t EXCEPT !.confirmations = @ - 1]

RevokeConfirmation(owner, id) ==
  /\ owner \in isOwner
  /\ tx[id].status \in {"Pending", "Ready"}
  /\ <<id, owner>> \in confirmed
  /\ confirmed' = confirmed \ {<<id, owner>>}
  /\ tx' = [tx EXCEPT ![id] = AfterRevocation(@)]
  /\ quorumSince' = IF Cardinality(Approvers(id)') < threshold
                    THEN [quorumSince EXCEPT ![id] = None]
                    ELSE quorumSince
  /\ UNCHANGED <<settingVars, ownerVars, txCount, executedAt, now>>

ExecuteTransaction(caller, id) ==
  /\ caller \in isOwner
  /\ tx[id].status = "Ready"
  /\ now >= tx[id].executeAfter
  /\ tx' = [tx EXCEPT ![id].status = "Executed"]
  /\ executedAt' = [executedAt EXCEPT ![id] = now]
  /\ UNCHANGED <<settingVars, ownerVars, txCount, confirmed, quorumSince, now>>

\* Mutation: only cancelled transactions are refused.
CancelExecuted(caller, id) ==
  /\ caller \in isOwner
  /\ tx[id].status # "Cancelled"
  /\ tx' = [tx EXCEPT ![id].status = "Cancelled"]
  /\ UNCHANGED <<settingVars, ownerVars, txCount, confirmed, quorumSince,
                 executedAt, now>>

CancelTransaction(caller, id) ==
  /\ caller \in isOwner
  /\ tx[id].status \notin {"Executed", "Cancelled"}
  /\ tx' = [tx EXCEPT ![id].status = "Cancelled"]
  /\ UNCHANGED <<settingVars, ownerVars, txCount, confirmed, quorumSince,
                 executedAt, now>>

-----------------------------------------------------------------------------
OwnerCalls ==
  \E caller \in Address :
    \/ \E a \in Address : AddOwner(caller, a) \/ RemoveOwner(caller, a)
    \/ \E t \in 1..Cardinality(Address) : ChangeThreshold(caller, t)
    \/ \E low, high \in Delay : UpdateDelays(caller, low, high)

TransactionCalls ==
  \E caller \in Address :
    \/ \E delay \in Delay : SubmitTransaction(caller, delay)
    \/ \E id \in DOMAIN tx : \/ ConfirmTransaction(caller, id)
                             \/ RevokeConfirmation(caller, id)
                             \/ ExecuteTransaction(caller, id)
                             \/ CancelTransaction(caller, id)

Next == Tick \/ Initialize \/ OwnerCalls \/ TransactionCalls

Spec == Init /\ [][Next]_vars

-----------------------------------------------------------------------------
(* Properties *)

\* After any additions and removals the list is dense, names every owner once
\* and nobody else, and its length is the number of owners.
OwnersDense ==
  /\ DOMAIN ownerAt = 0..(ownerCount - 1)
  /\ \A i, j \in DOMAIN ownerAt : ownerAt[i] = ownerAt[j] => i = j
  /\ isOwner = {ownerAt[i] : i \in DOMAIN ownerAt}

\* Whatever order owners leave and thresholds change in, the owners that
\* remain can reach the threshold: the wallet is never locked.
QuorumReachable == initialized => threshold \in 1..Cardinality(isOwner)

\* The counter of a transaction is the number of addresses behind it, the
\* removed owners among them: nobody counts twice, and it never underflows.
CountsMatch ==
  \A id \in DOMAIN tx : tx[id].confirmations = Cardinality(Approvers(id))

\* A transaction is ready only while a quorum stands behind it, and executed
\* only when one has stood behind it for the whole delay.
DelayRespected ==
  \A id \in DOMAIN tx :
    /\ tx[id].status = "Pending" => quorumSince[id] = None
    /\ tx[id].status \in {"Ready", "Executed"} =>
         quorumSince[id] # None /\ tx[id].executeAfter = quorumSince[id] + tx[id].delay
    /\ tx[id].status = "Executed" =>
         executedAt[id] # None /\ executedAt[id] >= quorumSince[id] + tx[id].delay

\* However owners and the threshold change, a pending transaction is not at a
\* dead end: some owner has not confirmed it yet, or it has enough
\* confirmations (from before the threshold was lowered) and an owner among
\* them can revoke and confirm again.
PendingCanProceed ==
  \A id \in DOMAIN tx : tx[id].status = "Pending" =>
    \/ \E a \in isOwner : a \notin Approvers(id)
    \/ tx[id].confirmations >= threshold /\ isOwner \cap Approvers(id) # {}

\* What is executed or cancelled stays so, with its confirmations.
Settled ==
  [][\A id \in DOMAIN tx : tx[id].status \in {"Executed", "Cancelled"} =>
       /\ tx'[id] = tx[id]
       /\ Approvers(id)' = Approvers(id)]_vars

\* For model checking: accounts are alike.
Accounts == Permutations(Address)
=============================================================================
