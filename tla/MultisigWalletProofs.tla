------------------------ MODULE MultisigWalletProofs ------------------------
(* Safety of MultisigWallet for any number of accounts, transactions and    *)
(* calls, any delays and any clock.                                         *)
EXTENDS MultisigWallet, FiniteSetTheorems, FunctionTheorems, TLAPS

Status == {"Pending", "Ready", "Executed", "Cancelled"}
Ids == 0..(txCount - 1)

\* Types, without the bounds of the numbers.
Types ==
  /\ initialized \in BOOLEAN
  /\ threshold \in Nat \ {0} /\ ownerCount \in Nat /\ txCount \in Nat
  /\ isOwner \subseteq Address
  /\ tx \in [Ids -> [status : Status, confirmations : Nat, delay : Nat,
                     executeAfter : Nat]]
  /\ confirmed \subseteq Ids \X Address
  /\ now \in Nat
  /\ quorumSince \in [Ids -> Nat \cup {None}]
  /\ executedAt \in [Ids -> Nat \cup {None}]

\* The count is the number of owners and covers the threshold; an empty
\* wallet has no transactions.
SizeOK ==
  /\ ownerCount = Cardinality(isOwner)
  /\ initialized => threshold <= ownerCount
  /\ ~initialized => isOwner = {} /\ txCount = 0

IInv == Types /\ OwnersDense /\ SizeOK /\ CountsMatch /\ DelayRespected

-----------------------------------------------------------------------------
(* Sets of addresses *)

LEMMA AddressSets ==
  ASSUME NEW A \in SUBSET Address
  PROVE  IsFiniteSet(A) /\ Cardinality(A) \in Nat
  BY WalletAssumption, FS_Subset, FS_CardinalityType

LEMMA SizeOfRange ==
  ASSUME NEW n \in Nat, NEW f \in [0..(n - 1) -> Address],
         \A i, j \in 0..(n - 1) : f[i] = f[j] => i = j
  PROVE  Cardinality({f[i] : i \in 0..(n - 1)}) = n
<1> DEFINE R == {f[i] : i \in 0..(n - 1)}
<1>1. f \in Bijection(0..(n - 1), R)
  BY Fun_IsBij
<1>2. IsFiniteSet(0..(n - 1)) /\ Cardinality(0..(n - 1)) = n
  BY FS_Interval
<1>3. ExistsBijection(0..(n - 1), R)
  BY <1>1, Fun_ExistsBij
<1> QED BY <1>2, <1>3, FS_Bijection

\* One more or one fewer account behind a transaction.
LEMMA ApproverAdded ==
  ASSUME Types, NEW id, NEW o \in Address, <<id, o>> \notin confirmed,
         confirmed' = confirmed \cup {<<id, o>>}
  PROVE  /\ Cardinality(Approvers(id)') = Cardinality(Approvers(id)) + 1
         /\ \A k : k # id => Approvers(k)' = Approvers(k)
<1>1. Approvers(id)' = Approvers(id) \cup {o} /\ o \notin Approvers(id)
  BY DEF Approvers
<1>2. IsFiniteSet(Approvers(id))
  BY AddressSets DEF Approvers
<1>3. Cardinality(Approvers(id)') = Cardinality(Approvers(id)) + 1
  BY <1>1, <1>2, FS_AddElement
<1> QED BY <1>3 DEF Approvers

LEMMA ApproverRemoved ==
  ASSUME Types, NEW id, NEW o \in Address, <<id, o>> \in confirmed,
         confirmed' = confirmed \ {<<id, o>>}
  PROVE  /\ Cardinality(Approvers(id)') = Cardinality(Approvers(id)) - 1
         /\ Cardinality(Approvers(id)) \in Nat \ {0}
         /\ \A k : k # id => Approvers(k)' = Approvers(k)
<1>1. Approvers(id)' = Approvers(id) \ {o} /\ o \in Approvers(id)
  BY DEF Approvers
<1>2. IsFiniteSet(Approvers(id)) /\ Cardinality(Approvers(id)) \in Nat
  BY AddressSets DEF Approvers
<1>3. Cardinality(Approvers(id)') = Cardinality(Approvers(id)) - 1
  BY <1>1, <1>2, FS_RemoveElement
<1>4. Cardinality(Approvers(id)) # 0
  BY <1>1, <1>2, FS_EmptySet
<1> QED BY <1>2, <1>3, <1>4 DEF Approvers

-----------------------------------------------------------------------------
(* Every call keeps the parts of the invariant. *)

LEMMA TypesStep ==
  ASSUME Types, SizeOK, CountsMatch, [Next]_vars
  PROVE  Types'
<1>0. CASE UNCHANGED vars
  BY <1>0 DEF Types, Ids, vars, settingVars, ownerVars, txVars
<1>1. CASE Tick
  BY <1>1 DEF Types, Ids, Tick, settingVars, ownerVars, txVars
<1>2. CASE Initialize
  <2>1. PICK n \in 1..Cardinality(Address) :
          \E owners \in [0..(n - 1) -> Address], t \in 1..n :
            /\ initialized' = TRUE
            /\ ownerCount' = n
            /\ isOwner' = {owners[i] : i \in 0..(n - 1)}
            /\ threshold' = t
            /\ UNCHANGED <<txVars, now>>
    BY <1>2 DEF Initialize
  <2>2. Cardinality(Address) \in Nat
    BY AddressSets
  <2> QED BY <2>1, <2>2 DEF Types, Ids, txVars
<1>3. ASSUME NEW caller \in Address, NEW a \in Address,
             AddOwner(caller, a)
      PROVE  Types'
  BY <1>3 DEF Types, Ids, AddOwner, settingVars, txVars
<1>4. ASSUME NEW caller \in Address, NEW a \in Address,
             RemoveOwner(caller, a)
      PROVE  Types'
  <2>1. Cardinality(isOwner) # 0
    BY <1>4, AddressSets, FS_EmptySet DEF RemoveOwner, Types
  <2> QED BY <1>4, <2>1 DEF Types, Ids, RemoveOwner, settingVars, txVars,
     SizeOK
<1>5. ASSUME NEW caller \in Address, NEW t \in 1..Cardinality(Address),
             ChangeThreshold(caller, t)
      PROVE  Types'
  <2>1. Cardinality(Address) \in Nat
    BY AddressSets
  <2> QED BY <1>5, <2>1 DEF Types, Ids, ChangeThreshold, ownerVars, txVars
<1>6. ASSUME NEW caller \in Address, NEW low \in Delay, NEW high \in Delay,
             UpdateDelays(caller, low, high)
      PROVE  Types'
  BY <1>6 DEF Types, Ids, UpdateDelays, ownerVars, txVars
<1>7. ASSUME NEW caller \in Address, NEW delay \in Delay,
             SubmitTransaction(caller, delay)
      PROVE  Types'
  <2>1. delay \in Nat
    BY WalletAssumption
  <2>2. Ids' = Ids \cup {txCount} /\ txCount' \in Nat
    BY <1>7 DEF Types, Ids, SubmitTransaction
  <2>3. tx' \in [Ids' -> [status : Status, confirmations : Nat, delay : Nat,
                          executeAfter : Nat]]
    BY <1>7, <2>1, <2>2 DEF Types, SubmitTransaction, Put, Status
  <2>4. /\ quorumSince' \in [Ids' -> Nat \cup {None}]
        /\ executedAt' \in [Ids' -> Nat \cup {None}]
    BY <1>7, <2>2 DEF Types, SubmitTransaction, Put
  <2>5. UNCHANGED <<settingVars, ownerVars, confirmed, now>>
    BY <1>7 DEF SubmitTransaction
  <2> QED BY <2>2, <2>3, <2>4, <2>5 DEF Types, settingVars, ownerVars
<1>8. ASSUME NEW caller \in Address, NEW id \in DOMAIN tx,
             ConfirmTransaction(caller, id)
      PROVE  Types'
  <2>1. id \in Ids /\ tx[id] \in [status : Status, confirmations : Nat,
                                  delay : Nat, executeAfter : Nat]
    BY DEF Types
  <2>2. AfterConfirmation(tx[id]) \in [status : Status, confirmations : Nat,
                                       delay : Nat, executeAfter : Nat]
    <3>1. now + tx[id].delay \in Nat /\ tx[id].confirmations + 1 \in Nat
      BY <2>1 DEF Types
    <3>2. CASE tx[id].confirmations + 1 >= threshold
      BY <2>1, <3>1, <3>2 DEF AfterConfirmation, Status
    <3>3. CASE ~(tx[id].confirmations + 1 >= threshold)
      BY <2>1, <3>1, <3>3 DEF AfterConfirmation, Status
    <3> QED BY <3>2, <3>3
  <2>3. tx' = [tx EXCEPT ![id] = AfterConfirmation(tx[id])] /\ UNCHANGED txCount
    BY <1>8 DEF ConfirmTransaction
  <2>4. tx' \in [Ids' -> [status : Status, confirmations : Nat, delay : Nat,
                          executeAfter : Nat]]
    BY <2>2, <2>3 DEF Types, Ids
  <2>5. quorumSince' \in [Ids' -> Nat \cup {None}]
    BY <1>8, <2>1, <2>3 DEF Types, Ids, ConfirmTransaction
  <2>6. confirmed' \subseteq Ids' \X Address
    BY <1>8, <2>1, <2>3 DEF Types, Ids, ConfirmTransaction
  <2>7. UNCHANGED <<settingVars, ownerVars, txCount, executedAt, now>>
    BY <1>8 DEF ConfirmTransaction
  <2> QED BY <2>4, <2>5, <2>6, <2>7 DEF Types, Ids, settingVars, ownerVars
<1>9. ASSUME NEW caller \in Address, NEW id \in DOMAIN tx,
             RevokeConfirmation(caller, id)
      PROVE  Types'
  <2>1. id \in Ids /\ tx[id] \in [status : Status, confirmations : Nat,
                                  delay : Nat, executeAfter : Nat]
    BY DEF Types
  <2>2. tx[id].confirmations \in Nat \ {0}
    BY <1>9, ApproverRemoved DEF RevokeConfirmation, CountsMatch
  <2>3. AfterRevocation(tx[id]) \in [status : Status, confirmations : Nat,
                                     delay : Nat, executeAfter : Nat]
    <3> DEFINE lost == tx[id].status = "Ready" /\ tx[id].confirmations - 1 < threshold
    <3>1. tx[id].confirmations - 1 \in Nat
      BY <2>2
    <3>2. CASE lost
      BY <2>1, <3>1, <3>2 DEF AfterRevocation, Status
    <3>3. CASE ~lost
      BY <2>1, <3>1, <3>3 DEF AfterRevocation, Status
    <3> QED BY <3>2, <3>3
  <2>4. tx' = [tx EXCEPT ![id] = AfterRevocation(tx[id])] /\ UNCHANGED txCount
    BY <1>9 DEF RevokeConfirmation
  <2>5. tx' \in [Ids' -> [status : Status, confirmations : Nat, delay : Nat,
                          executeAfter : Nat]]
    BY <2>3, <2>4 DEF Types, Ids
  <2>6. quorumSince' \in [Ids' -> Nat \cup {None}]
    BY <1>9, <2>1, <2>4 DEF Types, Ids, RevokeConfirmation
  <2>7. confirmed' \subseteq Ids' \X Address
    BY <1>9, <2>4 DEF Types, Ids, RevokeConfirmation
  <2>8. UNCHANGED <<settingVars, ownerVars, txCount, executedAt, now>>
    BY <1>9 DEF RevokeConfirmation
  <2> QED BY <2>5, <2>6, <2>7, <2>8 DEF Types, Ids, settingVars, ownerVars
<1>10. ASSUME NEW caller \in Address, NEW id \in DOMAIN tx,
             ExecuteTransaction(caller, id)
      PROVE  Types'
  <2>1. tx' \in [Ids -> [status : Status, confirmations : Nat, delay : Nat,
                         executeAfter : Nat]]
    BY <1>10 DEF Types, ExecuteTransaction, Status
  <2> QED BY <1>10, <2>1 DEF Types, Ids, ExecuteTransaction, settingVars,
     ownerVars
<1>11. ASSUME NEW caller \in Address, NEW id \in DOMAIN tx,
             CancelTransaction(caller, id)
      PROVE  Types'
  <2>1. tx' \in [Ids -> [status : Status, confirmations : Nat, delay : Nat,
                         executeAfter : Nat]]
    BY <1>11 DEF Types, CancelTransaction, Status
  <2> QED BY <1>11, <2>1 DEF Types, Ids, CancelTransaction, settingVars,
     ownerVars
<1> QED
  BY <1>0, <1>1, <1>2, <1>3, <1>4, <1>5, <1>6, <1>7, <1>8, <1>9, <1>10, <1>11
     DEF Next, OwnerCalls, TransactionCalls

\* Additions go to the end of the list, and the last owner fills the place of
\* the one who leaves.
LEMMA OwnersStep ==
  ASSUME Types, OwnersDense, SizeOK, [Next]_vars
  PROVE  OwnersDense' /\ SizeOK'
<1>0. CASE UNCHANGED vars
  BY <1>0 DEF OwnersDense, SizeOK, vars, settingVars, ownerVars, txVars
<1>1. CASE Tick
  <2>1. UNCHANGED <<initialized, threshold, ownerCount, ownerAt, isOwner, txCount>>
    BY <1>1 DEF Tick, settingVars, ownerVars, txVars
  <2>2. OwnersDense'
    BY <2>1 DEF OwnersDense
  <2>3. SizeOK'
    BY <2>1 DEF SizeOK
  <2> QED BY <2>2, <2>3
<1>2. CASE Initialize
  <2>n. PICK n \in 1..Cardinality(Address) :
          \E owners \in [0..(n - 1) -> Address], t \in 1..n :
            /\ ~initialized
            /\ \A i, j \in 0..(n - 1) : owners[i] = owners[j] => i = j
            /\ initialized' = TRUE
            /\ ownerCount' = n
            /\ ownerAt' = owners
            /\ isOwner' = {owners[i] : i \in 0..(n - 1)}
            /\ threshold' = t
            /\ UNCHANGED <<txVars, now>>
    BY <1>2 DEF Initialize
  <2>1. PICK owners \in [0..(n - 1) -> Address], t \in 1..n :
            /\ ~initialized
            /\ \A i, j \in 0..(n - 1) : owners[i] = owners[j] => i = j
            /\ initialized' = TRUE
            /\ ownerCount' = n
            /\ ownerAt' = owners
            /\ isOwner' = {owners[i] : i \in 0..(n - 1)}
            /\ threshold' = t
            /\ UNCHANGED <<txVars, now>>
    BY <2>n
  <2>2. Cardinality(Address) \in Nat
    BY AddressSets
  <2>3. n \in Nat
    BY <2>2
  <2>4. Cardinality(isOwner') = n
    BY <2>1, <2>3, SizeOfRange
  <2>5. OwnersDense'
    BY <2>1, <2>3 DEF OwnersDense
  <2>6. SizeOK'
    BY <2>1, <2>2, <2>4 DEF SizeOK
  <2> QED BY <2>5, <2>6
<1>3. ASSUME NEW caller \in Address, NEW a \in Address,
             AddOwner(caller, a)
      PROVE  OwnersDense' /\ SizeOK'
  <2>1. /\ ownerAt' = [i \in DOMAIN ownerAt \cup {ownerCount} |->
                         IF i = ownerCount THEN a ELSE ownerAt[i]]
        /\ isOwner' = isOwner \cup {a} /\ ownerCount' = ownerCount + 1
        /\ a \notin isOwner /\ isOwner # {}
        /\ UNCHANGED <<initialized, threshold, txCount>>
    BY <1>3 DEF AddOwner, Put, settingVars, txVars
  <2>2. DOMAIN ownerAt' = 0..(ownerCount' - 1)
    BY <2>1 DEF OwnersDense, Types
  <2>3. \A i \in DOMAIN ownerAt' :
          IF i = ownerCount THEN ownerAt'[i] = a
          ELSE i \in DOMAIN ownerAt /\ ownerAt'[i] = ownerAt[i]
    BY <2>1
  <2>4. \A i \in DOMAIN ownerAt : ownerAt[i] \in isOwner /\ i # ownerCount
    BY DEF OwnersDense, Types
  <2>5. \A i, j \in DOMAIN ownerAt' : ownerAt'[i] = ownerAt'[j] => i = j
    BY <2>1, <2>3, <2>4 DEF OwnersDense
  <2>6. isOwner' = {ownerAt'[i] : i \in DOMAIN ownerAt'}
    BY <2>1, <2>4 DEF OwnersDense
  <2>7. Cardinality(isOwner') = ownerCount'
    BY <2>1, AddressSets, FS_AddElement DEF SizeOK, Types
  <2>8. initialized /\ threshold <= ownerCount /\ threshold \in Nat /\ ownerCount \in Nat
    BY <2>1 DEF SizeOK, Types
  <2>9. SizeOK'
    BY <2>1, <2>7, <2>8 DEF SizeOK
  <2> QED BY <2>2, <2>5, <2>6, <2>9 DEF OwnersDense
<1>4. ASSUME NEW caller \in Address, NEW a \in Address,
             RemoveOwner(caller, a)
      PROVE  OwnersDense' /\ SizeOK'
  <2> DEFINE last == ownerCount - 1
  <2>1. PICK k \in DOMAIN ownerAt : ownerAt[k] = a
    BY <1>4 DEF RemoveOwner, OwnersDense
  <2>2. k \in 0..last /\ last \in DOMAIN ownerAt /\ last \in Nat
    BY <2>1 DEF OwnersDense, Types
  <2>3. ListWithout(a) = IF k = last THEN Remove(ownerAt, last)
                         ELSE Remove(Put(ownerAt, k, ownerAt[last]), last)
    <3>1. {i \in 0..last : i \in DOMAIN ownerAt /\ ownerAt[i] = a} = {k}
      BY <2>1, <2>2 DEF OwnersDense
    <3>2. (CHOOSE i \in {k} : \A j \in {k} : i <= j) = k
      BY <2>2
    <3> QED BY <2>2, <3>1, <3>2 DEF ListWithout
  <2>4. /\ DOMAIN ownerAt' = 0..(last - 1)
        /\ \A i \in DOMAIN ownerAt' :
             ownerAt'[i] = IF i = k THEN ownerAt[last] ELSE ownerAt[i]
    <3>1. ownerAt' = ListWithout(a) /\ DOMAIN ownerAt = 0..last
      BY <1>4 DEF RemoveOwner, OwnersDense
    <3>2. CASE k = last
      BY <2>2, <2>3, <3>1, <3>2 DEF Remove
    <3>3. CASE k # last
      BY <2>2, <2>3, <3>1, <3>3 DEF Remove, Put
    <3> QED BY <3>2, <3>3
  <2>5. \A i, j \in DOMAIN ownerAt' : ownerAt'[i] = ownerAt'[j] => i = j
    <3> SUFFICES ASSUME NEW i \in 0..(last - 1), NEW j \in 0..(last - 1),
                        ownerAt'[i] = ownerAt'[j]
                 PROVE  i = j
      BY <2>4
    <3>1. /\ i \in DOMAIN ownerAt /\ j \in DOMAIN ownerAt
          /\ i # last /\ j # last
      BY <2>2 DEF OwnersDense
    <3> QED BY <2>2, <2>4, <3>1 DEF OwnersDense
  <2>6. isOwner' = {ownerAt'[i] : i \in DOMAIN ownerAt'}
    <3>1. isOwner' = isOwner \ {a}
      BY <1>4 DEF RemoveOwner
    <3>2. ASSUME NEW i \in DOMAIN ownerAt' PROVE ownerAt'[i] \in isOwner \ {a}
      <4>1. i \in DOMAIN ownerAt /\ i # last
        BY <2>2, <2>4 DEF OwnersDense
      <4> QED BY <2>1, <2>2, <2>4, <4>1 DEF OwnersDense
    <3>3. ASSUME NEW o \in isOwner \ {a}
          PROVE  \E i \in DOMAIN ownerAt' : ownerAt'[i] = o
      <4>1. PICK i \in DOMAIN ownerAt : ownerAt[i] = o
        BY DEF OwnersDense
      <4>2. i # k
        BY <2>1, <4>1
      <4>3. CASE i = last
        BY <2>2, <2>4, <4>1, <4>2, <4>3
      <4>4. CASE i # last
        BY <2>2, <2>4, <4>1, <4>2, <4>4 DEF OwnersDense
      <4> QED BY <4>3, <4>4
    <3> QED BY <3>1, <3>2, <3>3
  <2>7. Cardinality(isOwner') = ownerCount' /\ ownerCount' = last
    BY <1>4, AddressSets, FS_RemoveElement DEF RemoveOwner, SizeOK, Types
  <2>8. threshold <= last /\ isOwner # {} /\ UNCHANGED <<initialized, threshold>>
    BY <1>4 DEF RemoveOwner, CanSpare, settingVars, Types
  <2> QED BY <2>4, <2>5, <2>6, <2>7, <2>8 DEF OwnersDense, SizeOK
<1>5. ASSUME NEW caller \in Address, NEW t \in 1..Cardinality(Address),
             ChangeThreshold(caller, t)
      PROVE  OwnersDense' /\ SizeOK'
  BY <1>5 DEF OwnersDense, SizeOK, Types, ChangeThreshold, ownerVars, txVars
<1>6. ASSUME NEW caller \in Address, NEW low \in Delay, NEW high \in Delay,
             UpdateDelays(caller, low, high)
      PROVE  OwnersDense' /\ SizeOK'
  BY <1>6 DEF OwnersDense, SizeOK, Types, UpdateDelays, ownerVars, txVars
<1>7. ASSUME NEW caller \in Address, NEW delay \in Delay,
             SubmitTransaction(caller, delay)
      PROVE  OwnersDense' /\ SizeOK'
  BY <1>7 DEF OwnersDense, SizeOK, Types, SubmitTransaction, settingVars,
     ownerVars
<1>8. ASSUME NEW caller \in Address, NEW id \in DOMAIN tx,
             ConfirmTransaction(caller, id)
      PROVE  OwnersDense' /\ SizeOK'
  BY <1>8 DEF OwnersDense, SizeOK, ConfirmTransaction, settingVars, ownerVars
<1>9. ASSUME NEW caller \in Address, NEW id \in DOMAIN tx,
             RevokeConfirmation(caller, id)
      PROVE  OwnersDense' /\ SizeOK'
  BY <1>9 DEF OwnersDense, SizeOK, RevokeConfirmation, settingVars, ownerVars
<1>10. ASSUME NEW caller \in Address, NEW id \in DOMAIN tx,
             ExecuteTransaction(caller, id)
      PROVE  OwnersDense' /\ SizeOK'
  BY <1>10 DEF OwnersDense, SizeOK, ExecuteTransaction, settingVars, ownerVars
<1>11. ASSUME NEW caller \in Address, NEW id \in DOMAIN tx,
             CancelTransaction(caller, id)
      PROVE  OwnersDense' /\ SizeOK'
  BY <1>11 DEF OwnersDense, SizeOK, CancelTransaction, settingVars, ownerVars
<1> QED
  BY <1>0, <1>1, <1>2, <1>3, <1>4, <1>5, <1>6, <1>7, <1>8, <1>9, <1>10, <1>11
     DEF Next, OwnerCalls, TransactionCalls

\* A confirmation adds one account that was not counted yet, a revocation takes
\* away one that was.
LEMMA CountsStep ==
  ASSUME Types, CountsMatch, [Next]_vars
  PROVE  CountsMatch'
<1>0. CASE UNCHANGED vars
  BY <1>0 DEF CountsMatch, Approvers, vars, txVars
<1>1. CASE Tick
  BY <1>1 DEF CountsMatch, Approvers, Tick, txVars
<1>2. CASE Initialize
  BY <1>2 DEF CountsMatch, Approvers, Initialize, txVars
<1>3. ASSUME NEW caller \in Address, NEW a \in Address,
             AddOwner(caller, a)
      PROVE  CountsMatch'
  BY <1>3 DEF CountsMatch, Approvers, AddOwner, txVars
<1>4. ASSUME NEW caller \in Address, NEW a \in Address,
             RemoveOwner(caller, a)
      PROVE  CountsMatch'
  BY <1>4 DEF CountsMatch, Approvers, RemoveOwner, txVars
<1>5. ASSUME NEW caller \in Address, NEW t \in 1..Cardinality(Address),
             ChangeThreshold(caller, t)
      PROVE  CountsMatch'
  BY <1>5 DEF CountsMatch, Approvers, ChangeThreshold, txVars
<1>6. ASSUME NEW caller \in Address, NEW low \in Delay, NEW high \in Delay,
             UpdateDelays(caller, low, high)
      PROVE  CountsMatch'
  BY <1>6 DEF CountsMatch, Approvers, UpdateDelays, txVars
<1>7. ASSUME NEW caller \in Address, NEW delay \in Delay,
             SubmitTransaction(caller, delay)
      PROVE  CountsMatch'
  <2>1. /\ DOMAIN tx' = DOMAIN tx \cup {txCount}
        /\ tx'[txCount].confirmations = 0
        /\ \A k \in DOMAIN tx : tx'[k] = tx[k]
        /\ confirmed' = confirmed
    BY <1>7 DEF SubmitTransaction, Put, Types, Ids
  <2>2. Approvers(txCount) = {}
    BY DEF Approvers, Types, Ids
  <2>3. \A k : Approvers(k)' = Approvers(k)
    BY <2>1 DEF Approvers
  <2> QED BY <2>1, <2>2, <2>3, FS_EmptySet DEF CountsMatch
<1>8. ASSUME NEW caller \in Address, NEW id \in DOMAIN tx,
             ConfirmTransaction(caller, id)
      PROVE  CountsMatch'
  <2>1. /\ Cardinality(Approvers(id)') = Cardinality(Approvers(id)) + 1
        /\ \A k : k # id => Approvers(k)' = Approvers(k)
    BY <1>8, ApproverAdded DEF ConfirmTransaction
  <2>2. /\ DOMAIN tx' = DOMAIN tx
        /\ \A k \in DOMAIN tx : k # id => tx'[k] = tx[k]
        /\ tx'[id] = AfterConfirmation(tx[id])
    BY <1>8 DEF ConfirmTransaction, Types
  <2>3. tx'[id].confirmations = tx[id].confirmations + 1
    BY <2>2 DEF AfterConfirmation, Types
  <2> QED BY <2>1, <2>2, <2>3 DEF CountsMatch
<1>9. ASSUME NEW caller \in Address, NEW id \in DOMAIN tx,
             RevokeConfirmation(caller, id)
      PROVE  CountsMatch'
  <2>1. /\ Cardinality(Approvers(id)') = Cardinality(Approvers(id)) - 1
        /\ \A k : k # id => Approvers(k)' = Approvers(k)
    BY <1>9, ApproverRemoved DEF RevokeConfirmation
  <2>2. /\ DOMAIN tx' = DOMAIN tx
        /\ \A k \in DOMAIN tx : k # id => tx'[k] = tx[k]
        /\ tx'[id] = AfterRevocation(tx[id])
    BY <1>9 DEF RevokeConfirmation, Types
  <2>3. tx'[id].confirmations = tx[id].confirmations - 1
    BY <2>2 DEF AfterRevocation, Types
  <2> QED BY <2>1, <2>2, <2>3 DEF CountsMatch
<1>10. ASSUME NEW caller \in Address, NEW id \in DOMAIN tx,
             ExecuteTransaction(caller, id)
      PROVE  CountsMatch'
  <2>1. /\ DOMAIN tx' = DOMAIN tx /\ confirmed' = confirmed
        /\ \A k \in DOMAIN tx : tx'[k].confirmations = tx[k].confirmations
    BY <1>10 DEF ExecuteTransaction, Types
  <2> QED BY <2>1 DEF CountsMatch, Approvers
<1>11. ASSUME NEW caller \in Address, NEW id \in DOMAIN tx,
             CancelTransaction(caller, id)
      PROVE  CountsMatch'
  <2>1. /\ DOMAIN tx' = DOMAIN tx /\ confirmed' = confirmed
        /\ \A k \in DOMAIN tx : tx'[k].confirmations = tx[k].confirmations
    BY <1>11 DEF CancelTransaction, Types
  <2> QED BY <2>1 DEF CountsMatch, Approvers
<1> QED
  BY <1>0, <1>1, <1>2, <1>3, <1>4, <1>5, <1>6, <1>7, <1>8, <1>9, <1>10, <1>11
     DEF Next, OwnerCalls, TransactionCalls

\* The clock of the delay starts when the counter reaches the threshold, which
\* is when a quorum stands behind the transaction.
LEMMA DelayStep ==
  ASSUME Types, CountsMatch, DelayRespected, [Next]_vars
  PROVE  DelayRespected'
<1>0. CASE UNCHANGED vars
  BY <1>0 DEF DelayRespected, vars, txVars
<1>1. CASE Tick
  BY <1>1 DEF DelayRespected, Tick, txVars
<1>2. CASE Initialize
  BY <1>2 DEF DelayRespected, Initialize, txVars
<1>3. ASSUME NEW caller \in Address, NEW a \in Address,
             AddOwner(caller, a)
      PROVE  DelayRespected'
  BY <1>3 DEF DelayRespected, AddOwner, txVars
<1>4. ASSUME NEW caller \in Address, NEW a \in Address,
             RemoveOwner(caller, a)
      PROVE  DelayRespected'
  BY <1>4 DEF DelayRespected, RemoveOwner, txVars
<1>5. ASSUME NEW caller \in Address, NEW t \in 1..Cardinality(Address),
             ChangeThreshold(caller, t)
      PROVE  DelayRespected'
  BY <1>5 DEF DelayRespected, ChangeThreshold, txVars
<1>6. ASSUME NEW caller \in Address, NEW low \in Delay, NEW high \in Delay,
             UpdateDelays(caller, low, high)
      PROVE  DelayRespected'
  BY <1>6 DEF DelayRespected, UpdateDelays, txVars
<1>7. ASSUME NEW caller \in Address, NEW delay \in Delay,
             SubmitTransaction(caller, delay)
      PROVE  DelayRespected'
  <2>1. /\ DOMAIN tx' = DOMAIN tx \cup {txCount}
        /\ tx'[txCount].status = "Pending" /\ quorumSince'[txCount] = None
        /\ \A k \in DOMAIN tx : /\ tx'[k] = tx[k] /\ quorumSince'[k] = quorumSince[k]
                                /\ executedAt'[k] = executedAt[k]
    BY <1>7 DEF SubmitTransaction, Put, Types, Ids
  <2> QED BY <2>1 DEF DelayRespected
<1>8. ASSUME NEW caller \in Address, NEW id \in DOMAIN tx,
             ConfirmTransaction(caller, id)
      PROVE  DelayRespected'
  <2>1. Cardinality(Approvers(id)') = tx[id].confirmations + 1
    BY <1>8, ApproverAdded DEF ConfirmTransaction, CountsMatch
  <2>2. /\ DOMAIN tx' = DOMAIN tx /\ tx[id].status = "Pending"
        /\ tx'[id] = AfterConfirmation(tx[id])
        /\ \A k \in DOMAIN tx : k # id => tx'[k] = tx[k]
        /\ executedAt' = executedAt
    BY <1>8 DEF ConfirmTransaction, Types
  <2>3. quorumSince[id] = None
    BY <2>2 DEF DelayRespected
  <2>4. quorumSince' = IF tx[id].confirmations + 1 >= threshold
                       THEN [quorumSince EXCEPT ![id] = now] ELSE quorumSince
    BY <1>8, <2>1, <2>3 DEF ConfirmTransaction
  <2>5. \A k \in DOMAIN tx : k # id => quorumSince'[k] = quorumSince[k]
    BY <2>4 DEF Types
  <2>6. CASE tx[id].confirmations + 1 >= threshold
    <3>1. /\ tx'[id].status = "Ready" /\ tx'[id].executeAfter = now + tx[id].delay
          /\ tx'[id].delay = tx[id].delay
      BY <2>2, <2>6 DEF AfterConfirmation, Types
    <3>2. quorumSince'[id] = now /\ now # None
      BY <2>4, <2>6, WalletAssumption DEF Types
    <3> QED BY <2>2, <2>5, <3>1, <3>2 DEF DelayRespected
  <2>7. CASE ~(tx[id].confirmations + 1 >= threshold)
    <3>1. tx'[id].status = "Pending"
      BY <2>2, <2>7 DEF AfterConfirmation, Types
    <3>2. quorumSince'[id] = None
      BY <2>3, <2>4, <2>7
    <3> QED BY <2>2, <2>5, <3>1, <3>2 DEF DelayRespected
  <2> QED BY <2>6, <2>7
<1>9. ASSUME NEW caller \in Address, NEW id \in DOMAIN tx,
             RevokeConfirmation(caller, id)
      PROVE  DelayRespected'
  <2>1. Cardinality(Approvers(id)') = tx[id].confirmations - 1
    BY <1>9, ApproverRemoved DEF RevokeConfirmation, CountsMatch
  <2>2. /\ DOMAIN tx' = DOMAIN tx /\ tx[id].status \in {"Pending", "Ready"}
        /\ tx'[id] = AfterRevocation(tx[id])
        /\ \A k \in DOMAIN tx : k # id => tx'[k] = tx[k]
        /\ executedAt' = executedAt
    BY <1>9 DEF RevokeConfirmation, Types
  <2>3. quorumSince' = IF tx[id].confirmations - 1 < threshold
                       THEN [quorumSince EXCEPT ![id] = None] ELSE quorumSince
    BY <1>9, <2>1 DEF RevokeConfirmation
  <2>4. \A k \in DOMAIN tx : k # id => quorumSince'[k] = quorumSince[k]
    BY <2>3 DEF Types
  <2>5. CASE tx[id].status = "Ready" /\ tx[id].confirmations - 1 < threshold
    <3>1. tx'[id].status = "Pending"
      BY <2>2, <2>5 DEF AfterRevocation, Types
    <3>2. quorumSince'[id] = None
      BY <2>3, <2>5 DEF Types
    <3> QED BY <2>2, <2>4, <3>1, <3>2 DEF DelayRespected
  <2>6. CASE ~(tx[id].status = "Ready" /\ tx[id].confirmations - 1 < threshold)
    <3>1. /\ tx'[id].status = tx[id].status /\ tx'[id].delay = tx[id].delay
          /\ tx'[id].executeAfter = tx[id].executeAfter
      BY <2>2, <2>6 DEF AfterRevocation, Types
    <3>2. /\ tx[id].status = "Ready" => quorumSince'[id] = quorumSince[id]
          /\ tx[id].status = "Pending" => quorumSince'[id] = None
      BY <2>3, <2>6 DEF DelayRespected, Types
    <3> QED BY <2>2, <2>4, <3>1, <3>2 DEF DelayRespected
  <2> QED BY <2>5, <2>6
<1>10. ASSUME NEW caller \in Address, NEW id \in DOMAIN tx,
             ExecuteTransaction(caller, id)
      PROVE  DelayRespected'
  <2>1. /\ DOMAIN tx' = DOMAIN tx /\ quorumSince' = quorumSince
        /\ \A k \in DOMAIN tx : k # id => /\ tx'[k] = tx[k]
                                         /\ executedAt'[k] = executedAt[k]
    BY <1>10 DEF ExecuteTransaction, Types
  <2>2. /\ tx[id].status = "Ready" /\ tx'[id].status = "Executed"
        /\ tx'[id].delay = tx[id].delay
        /\ tx'[id].executeAfter = tx[id].executeAfter
        /\ executedAt'[id] = now /\ now >= tx[id].executeAfter
    BY <1>10 DEF ExecuteTransaction, Types
  <2>3. now # None
    BY WalletAssumption DEF Types
  <2> QED BY <2>1, <2>2, <2>3 DEF DelayRespected
<1>11. ASSUME NEW caller \in Address, NEW id \in DOMAIN tx,
             CancelTransaction(caller, id)
      PROVE  DelayRespected'
  <2>1. /\ DOMAIN tx' = DOMAIN tx
        /\ UNCHANGED <<quorumSince, executedAt>>
        /\ \A k \in DOMAIN tx : k # id => tx'[k] = tx[k]
        /\ tx'[id].status = "Cancelled"
    BY <1>11 DEF CancelTransaction, Types
  <2> QED BY <2>1 DEF DelayRespected
<1> QED
  BY <1>0, <1>1, <1>2, <1>3, <1>4, <1>5, <1>6, <1>7, <1>8, <1>9, <1>10, <1>11
     DEF Next, OwnerCalls, TransactionCalls

LEMMA InitIInv == ASSUME Init PROVE IInv
<1>1. Types
  <2>1. 0..(0 - 1) = {}
    OBVIOUS
  <2>2. Ids = {}
    BY <2>1 DEF Init, Ids
  <2>3. /\ tx \in [{} -> [status : Status, confirmations : Nat, delay : Nat,
                          executeAfter : Nat]]
        /\ quorumSince \in [{} -> Nat \cup {None}]
        /\ executedAt \in [{} -> Nat \cup {None}]
    BY DEF Init
  <2>5. initialized \in BOOLEAN
    BY DEF Init
  <2>4. /\ threshold \in Nat \ {0}
        /\ ownerCount \in Nat /\ txCount \in Nat /\ isOwner \subseteq Address
        /\ confirmed \subseteq Ids \X Address /\ now \in Nat
    BY DEF Init
  <2> QED BY <2>2, <2>3, <2>4, <2>5 DEF Types
<1>2. OwnersDense
  BY DEF Init, OwnersDense
<1>3. SizeOK
  BY FS_EmptySet DEF Init, SizeOK
<1>4. CountsMatch /\ DelayRespected
  BY DEF Init, CountsMatch, DelayRespected
<1> QED BY <1>1, <1>2, <1>3, <1>4 DEF IInv

\* The inductive invariant holds in every reachable state.
THEOREM WalletInvariance == Spec => []IInv
<1>1. Init => IInv
  BY InitIInv
<1>2. IInv /\ [Next]_vars => IInv'
  BY TypesStep, OwnersStep, CountsStep, DelayStep DEF IInv
<1> QED BY <1>1, <1>2, PTL DEF Spec

\* Swapping the last owner into a free place keeps the list and the flags alike.
THEOREM ListAlwaysDense == Spec => []OwnersDense
<1>1. IInv => OwnersDense
  BY DEF IInv
<1> QED BY <1>1, WalletInvariance, PTL

\* The owners can always reach the threshold.
THEOREM NeverLocked == Spec => []QuorumReachable
<1>1. IInv => QuorumReachable
  BY DEF IInv, SizeOK, Types, QuorumReachable
<1> QED BY <1>1, WalletInvariance, PTL

\* The counter of a transaction is the number of accounts behind it.
THEOREM CountersExact == Spec => []CountsMatch
<1>1. IInv => CountsMatch
  BY DEF IInv
<1> QED BY <1>1, WalletInvariance, PTL

\* A quorum has stood behind an executed transaction for its whole delay.
THEOREM QuorumForWholeDelay == Spec => []DelayRespected
<1>1. IInv => DelayRespected
  BY DEF IInv
<1> QED BY <1>1, WalletInvariance, PTL

\* A pending transaction can be confirmed by another owner or renewed.
THEOREM NoDeadEnd == Spec => []PendingCanProceed
<1>1. IInv => PendingCanProceed
  <2> SUFFICES ASSUME IInv, NEW id \in DOMAIN tx, isOwner \subseteq Approvers(id)
               PROVE  /\ tx[id].confirmations >= threshold
                      /\ isOwner \cap Approvers(id) # {}
    BY DEF PendingCanProceed
  <2>1. IsFiniteSet(Approvers(id)) /\ Cardinality(Approvers(id)) \in Nat
    BY AddressSets DEF Approvers
  <2>2. Cardinality(isOwner) <= Cardinality(Approvers(id))
    BY <2>1, FS_Subset
  <2>3. threshold \in Nat \ {0} /\ threshold <= Cardinality(isOwner)
    BY DEF IInv, Types, Ids, SizeOK
  <2>4. isOwner # {} /\ Cardinality(isOwner) \in Nat
    BY <2>3, FS_EmptySet, AddressSets DEF IInv, Types
  <2> QED BY <2>1, <2>2, <2>3, <2>4 DEF IInv, CountsMatch
<1> QED BY <1>1, WalletInvariance, PTL

\* An executed or cancelled transaction never changes.
THEOREM SettledForever == Spec => Settled
<1>1. ASSUME IInv, [Next]_vars
      PROVE  [\A id \in DOMAIN tx : tx[id].status \in {"Executed", "Cancelled"} =>
                /\ tx'[id] = tx[id]
                /\ Approvers(id)' = Approvers(id)]_vars
  <2> DEFINE Kept == \A id \in DOMAIN tx :
               tx[id].status \in {"Executed", "Cancelled"} =>
                 tx'[id] = tx[id] /\ Approvers(id)' = Approvers(id)
  <2> SUFFICES ASSUME Next PROVE Kept
    BY <1>1
  <2>i. IInv
    BY <1>1
  <2>1. CASE Tick
    BY <2>1 DEF Tick, txVars, Approvers
  <2>2. CASE Initialize
    BY <2>2 DEF Initialize, txVars, Approvers
  <2>3. ASSUME NEW caller \in Address, NEW a \in Address,
               AddOwner(caller, a)
        PROVE  Kept
    BY <2>3 DEF AddOwner, txVars, Approvers
  <2>4. ASSUME NEW caller \in Address, NEW a \in Address,
               RemoveOwner(caller, a)
        PROVE  Kept
    BY <2>4 DEF RemoveOwner, txVars, Approvers
  <2>5. ASSUME NEW caller \in Address, NEW t \in 1..Cardinality(Address),
               ChangeThreshold(caller, t)
        PROVE  Kept
    BY <2>5 DEF ChangeThreshold, txVars, Approvers
  <2>6. ASSUME NEW caller \in Address, NEW low \in Delay, NEW high \in Delay,
               UpdateDelays(caller, low, high)
        PROVE  Kept
    BY <2>6 DEF UpdateDelays, txVars, Approvers
  <2>7. ASSUME NEW caller \in Address, NEW delay \in Delay,
               SubmitTransaction(caller, delay)
        PROVE  Kept
    BY <2>i, <2>7 DEF SubmitTransaction, Put, IInv, Types, Ids, Approvers
  <2>8. ASSUME NEW caller \in Address, NEW id \in DOMAIN tx,
               ConfirmTransaction(caller, id)
        PROVE  Kept
    BY <2>i, <2>8 DEF ConfirmTransaction, IInv, Types, Approvers
  <2>9. ASSUME NEW caller \in Address, NEW id \in DOMAIN tx,
               RevokeConfirmation(caller, id)
        PROVE  Kept
    BY <2>i, <2>9 DEF RevokeConfirmation, IInv, Types, Approvers
  <2>10. ASSUME NEW caller \in Address, NEW id \in DOMAIN tx,
               ExecuteTransaction(caller, id)
        PROVE  Kept
    BY <2>i, <2>10 DEF ExecuteTransaction, IInv, Types, Approvers
  <2>11. ASSUME NEW caller \in Address, NEW id \in DOMAIN tx,
               CancelTransaction(caller, id)
        PROVE  Kept
    BY <2>i, <2>11 DEF CancelTransaction, IInv, Types, Approvers
  <2> QED
    BY <2>1, <2>2, <2>3, <2>4, <2>5, <2>6, <2>7, <2>8, <2>9, <2>10, <2>11
       DEF Next, OwnerCalls, TransactionCalls
<1> QED BY <1>1, WalletInvariance, PTL DEF Spec, Settled
=============================================================================
