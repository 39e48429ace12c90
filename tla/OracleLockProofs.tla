-------------------------- MODULE OracleLockProofs --------------------------
(* Safety of OracleLock for every number of tasks, managers, processes,    *)
(* keys, calls, attempts and faults.                                       *)
EXTENDS OracleLock, TLAPS

Working == Acquiring \cup {"held", "releasing"}

\* What is known of the owner tokens that have been drawn.
CallsOK ==
  /\ \A o \in Owner : o <= issued <=> pc[o] # "unused"
  /\ \A o \in Owner : pc[o] # "unused" => task[o] \in Task /\ key[o] \in Key
  /\ \A o \in Owner : pc[o] = "unused" => task[o] = None
  /\ \A o \in Owner : pc[o] = "unused" => attempts[o] = 0
  /\ \A o \in Owner : pc[o] = "trying" => attempts[o] < MaxAttempts

\* A manager tracks only handles of its own tasks.
TrackedOK ==
  \A x \in Manager : \A o \in heldByOwner[x] :
    pc[o] \in {"held", "releasing"} /\ OwnManager(o) = x

Tracked(o) ==
  pc[o] \in {"held", "releasing"} /\ o \in heldByOwner[OwnManager(o)]

\* The scopes, the holders and the edges speak of tracked tokens, and an edge
\* stays within a process.
ScopesOK == \A x \in Manager : heldScopes[x] = ScopesOf(heldByOwner[x])
HoldersOK ==
  \A x \in Process, k \in Key :
    holders[x][k] # Nobody =>
      /\ OwnProcess(holders[x][k]) = x
      /\ Tracked(holders[x][k])
EdgesOK ==
  \A e \in waitsFor :
    /\ pc[e[1]] # "unused"
    /\ Tracked(e[2])
    /\ OwnProcess(e[1]) = OwnProcess(e[2])

\* A token found stale is past its acquisition and does not own its key.
StaleOK ==
  \A o \in stale : pc[o] \in {"held", "releasing", "done"} /\ store[key[o]] # o

\* A task has at most one call under way, and it is the latest one.
SequentialTasks ==
  \A a, b \in Owner :
    a < b /\ pc[b] # "unused" /\ task[a] = task[b] => pc[a] \notin Acquiring

IInv ==
  /\ TypeOK /\ CallsOK /\ TrackedOK /\ ScopesOK /\ HoldersOK /\ EdgesOK
  /\ StaleOK /\ SequentialTasks
  /\ HeldMeansOwned /\ NoDeadlockReport /\ RankOrder

-----------------------------------------------------------------------------
\* Tokens are positive numbers, and the next one is available while the bound
\* is not reached.
LEMMA OwnerFacts ==
  /\ Nobody \notin Owner
  /\ \A o \in Owner : o \in Nat
  /\ \A n \in 0..MaxOwners : n < MaxOwners => n + 1 \in Owner
BY LockAssumption DEF Owner, Nobody

\* A drawn token has a manager and a process.
LEMMA PlaceFacts ==
  ASSUME TypeOK, CallsOK, NEW o \in Owner, pc[o] # "unused"
  PROVE  /\ task[o] \in Task /\ key[o] \in Key
         /\ OwnManager(o) \in Manager /\ OwnProcess(o) \in Process
BY LockAssumption DEF TypeOK, CallsOK, OwnManager, OwnProcess

\* The bookkeeping of a manager and its detector stays typed.
LEMMA ForgetLocalType ==
  ASSUME TypeOK, CallsOK, NEW o \in Owner, pc[o] # "unused", ForgetLocal(o),
         \A x \in Manager : \A q \in heldByOwner[x] : pc[q] # "unused"
  PROVE  /\ heldByOwner' \in [Manager -> SUBSET Owner]
         /\ heldScopes' \in [Manager -> SUBSET Scope]
         /\ holders' \in [Process -> [Key -> Owner \cup {Nobody}]]
         /\ waitsFor' \subseteq Owner \X Owner
<1>1. /\ OwnManager(o) \in Manager /\ OwnProcess(o) \in Process
  BY PlaceFacts
<1>2. heldByOwner' \in [Manager -> SUBSET Owner]
  BY <1>1 DEF TypeOK, ForgetLocal
<1>3. ScopesOf(heldByOwner[OwnManager(o)] \ {o}) \subseteq Scope
  <2>1. \A q \in heldByOwner[OwnManager(o)] : q \in Owner /\ pc[q] # "unused"
    BY <1>1 DEF TypeOK
  <2>2. \A q \in heldByOwner[OwnManager(o)] : ScopeOf[key[q]] \in Scope
    BY <2>1, PlaceFacts, LockAssumption
  <2> QED
    BY <2>2 DEF ScopesOf
<1>4. heldScopes' \in [Manager -> SUBSET Scope]
  BY <1>1, <1>3 DEF TypeOK, ForgetLocal
<1>5. holders' \in [Process -> [Key -> Owner \cup {Nobody}]]
  BY <1>1 DEF TypeOK, ForgetLocal, ForgetOwnerHolders
<1>6. waitsFor' \subseteq Owner \X Owner
  BY DEF TypeOK, ForgetLocal, ForgetOwnerWaits
<1> QED
  BY <1>2, <1>4, <1>5, <1>6

\* What declareWait() and clearWait() leave are edges between tokens.
LEMMA EdgesType ==
  ASSUME TypeOK, CallsOK, NEW o \in Owner, pc[o] # "unused"
  PROVE  /\ DeclareWait(o) \subseteq Owner \X Owner
         /\ \A edges : ClearWait(o, edges) \subseteq edges
<1>1. Target(o) \in Owner \cup {Nobody}
  BY PlaceFacts DEF TypeOK, Target
<1> QED
  BY <1>1 DEF TypeOK, DeclareWait, ClearWait

\* A granted key stays typed in the backend.
LEMMA GrantType ==
  ASSUME TypeOK, NEW o \in Owner,
         store' = [store EXCEPT ![key[o]] = o],
         \E ttl \in 1..MaxTtl : left' = [left EXCEPT ![key[o]] = ttl]
  PROVE  store' \in [Key -> Owner \cup {Nobody}] /\ left' \in [Key -> 0..MaxTtl]
<1>1. PICK ttl \in 1..MaxTtl : left' = [left EXCEPT ![key[o]] = ttl]
  OBVIOUS
<1>2. ttl \in 0..MaxTtl
  BY LockAssumption
<1> QED
  BY <1>1, <1>2 DEF TypeOK

\* The type invariant and CallsOK hold initially and are preserved.
LEMMA CallsInit == Init => TypeOK /\ CallsOK
BY LockAssumption, OwnerFacts
   DEF Init, TypeOK, CallsOK, State, Acquiring, Owner, Nobody

LEMMA CallsStep ==
  ASSUME TypeOK, CallsOK, TrackedOK, StaleOK, [Next]_vars
  PROVE  TypeOK' /\ CallsOK'
<1> USE LockAssumption, OwnerFacts
    DEF backendVars, managerVars, detectorVars, callVars, State, Acquiring
<1>1. ASSUME NEW t \in Task, NEW k \in Key, Acquire(t, k)
      PROVE  TypeOK' /\ CallsOK'
  <2>1. issued + 1 \in Owner /\ issued + 1 \in 0..MaxOwners
    BY <1>1 DEF TypeOK, Acquire
  <2>2. pc[issued + 1] = "unused"
    BY <2>1 DEF CallsOK, TypeOK
  <2>3. TypeOK'
    BY <1>1, <2>1 DEF TypeOK, Acquire
  <2>4. ASSUME NEW o \in Owner PROVE o <= issued' <=> pc'[o] # "unused"
    <3>1. o \in Int /\ issued \in Int /\ issued' = issued + 1
      BY <1>1 DEF TypeOK, Acquire
    <3>2. CASE o = issued + 1
      BY <1>1, <2>1, <3>1, <3>2 DEF TypeOK, Acquire
    <3>3. CASE o # issued + 1
      <4>1. pc'[o] = pc[o]
        BY <1>1, <2>1, <3>3 DEF TypeOK, Acquire
      <4>2. o <= issued + 1 <=> o <= issued
        BY <3>1, <3>3
      <4> QED
        BY <3>1, <4>1, <4>2 DEF CallsOK
    <3> QED
      BY <3>2, <3>3
  <2> QED
    BY <1>1, <2>1, <2>2, <2>3, <2>4 DEF TypeOK, Acquire, CallsOK
<1>2. ASSUME NEW o \in Owner, TryAcquire(o) PROVE TypeOK' /\ CallsOK'
  <2>1. key[o] \in Key /\ attempts[o] < MaxAttempts /\ pc[o] # "unused"
    BY <1>2 DEF CallsOK, TryAcquire
  <2>2. /\ pc' = [pc EXCEPT ![o] = "won"] \/ pc' = [pc EXCEPT ![o] = "lost"]
        /\ attempts' \in [Owner -> 0..MaxAttempts]
        /\ store' \in [Key -> Owner \cup {Nobody}]
        /\ left' \in [Key -> 0..MaxTtl]
    <3>1. attempts[o] + 1 \in 0..MaxAttempts
      BY <2>1 DEF TypeOK
    <3>2. attempts' \in [Owner -> 0..MaxAttempts]
      BY <1>2, <3>1 DEF TypeOK, TryAcquire
    <3>3. CASE store[key[o]] = Nobody
      BY <1>2, <2>1, <3>2, <3>3, GrantType DEF TypeOK, TryAcquire
    <3>4. CASE store[key[o]] # Nobody
      BY <1>2, <3>2, <3>4 DEF TypeOK, TryAcquire
    <3> QED
      BY <3>3, <3>4
  <2>3. TypeOK'
    BY <1>2, <2>2 DEF TypeOK, TryAcquire
  <2>4. CallsOK'
    BY <1>2, <2>1, <2>2 DEF TypeOK, CallsOK, TryAcquire
  <2> QED
    BY <2>3, <2>4
<1>3. ASSUME NEW o \in Owner, TryAcquireError(o) PROVE TypeOK' /\ CallsOK'
  <2>1. key[o] \in Key /\ attempts[o] < MaxAttempts /\ pc[o] # "unused"
    BY <1>3 DEF CallsOK, TryAcquireError
  <2>2. store' \in [Key -> Owner \cup {Nobody}] /\ left' \in [Key -> 0..MaxTtl]
    <3>1. CASE UNCHANGED <<store, left>>
      BY <3>1 DEF TypeOK
    <3>2. CASE ~UNCHANGED <<store, left>>
      BY <1>3, <2>1, <3>2, GrantType DEF TryAcquireError
    <3> QED
      BY <3>1, <3>2
  <2>3. TypeOK'
    BY <1>3, <2>2 DEF TypeOK, TryAcquireError, EndCall, Fault
  <2> QED
    BY <1>3, <2>1, <2>3 DEF TypeOK, CallsOK, TryAcquireError, EndCall
<1>4. ASSUME NEW o \in Owner, Acquired(o) PROVE TypeOK' /\ CallsOK'
  <2>1. /\ pc[o] # "unused"
        /\ key[o] \in Key /\ OwnManager(o) \in Manager /\ OwnProcess(o) \in Process
    BY <1>4, PlaceFacts DEF Acquired
  <2>2. waitsFor' \subseteq Owner \X Owner
    BY <1>4, <2>1, EdgesType DEF TypeOK, Acquired
  <2> QED
    BY <1>4, <2>1, <2>2 DEF TypeOK, CallsOK, Acquired, EndCall
<1>5. ASSUME NEW o \in Owner, Contended(o) PROVE TypeOK' /\ CallsOK'
  <2>1. pc[o] = "lost"
    BY <1>5 DEF Contended
  <2>2. waitsFor' \subseteq Owner \X Owner
    BY <1>5, <2>1, EdgesType DEF TypeOK, Contended
  <2>3. \/ pc' = [pc EXCEPT ![o] = "deadlock"] /\ attempts' = [attempts EXCEPT ![o] = 0]
        \/ pc' = [pc EXCEPT ![o] = "failed"] /\ attempts' = [attempts EXCEPT ![o] = 0]
        \/ /\ attempts[o] < MaxAttempts
           /\ pc' = [pc EXCEPT ![o] = "trying"] /\ attempts' = attempts
    BY <1>5 DEF TypeOK, Contended, EndCall
  <2>4. UNCHANGED <<backendVars, callVars, managerVars, holders, stale, faults>>
    BY <1>5 DEF Contended
  <2>5. /\ pc' \in [Owner -> State] /\ attempts' \in [Owner -> 0..MaxAttempts]
        /\ pc'[o] \in {"deadlock", "failed", "trying"}
        /\ pc'[o] = "trying" => attempts'[o] < MaxAttempts
        /\ \A a \in Owner \ {o} : pc'[a] = pc[a] /\ attempts'[a] = attempts[a]
    <3>0. /\ pc \in [Owner -> State] /\ attempts \in [Owner -> 0..MaxAttempts]
          /\ 0 \in 0..MaxAttempts /\ {"deadlock", "failed", "trying"} \subseteq State
      BY DEF TypeOK, State, Acquiring
    <3>1. CASE /\ attempts' = [attempts EXCEPT ![o] = 0]
               /\ \/ pc' = [pc EXCEPT ![o] = "deadlock"]
                  \/ pc' = [pc EXCEPT ![o] = "failed"]
      BY <3>0, <3>1
    <3>2. CASE /\ attempts[o] < MaxAttempts /\ attempts' = attempts
               /\ pc' = [pc EXCEPT ![o] = "trying"]
      BY <3>0, <3>2
    <3> QED BY <2>3, <3>1, <3>2
  <2>6. TypeOK'
    BY <2>2, <2>4, <2>5 DEF TypeOK, backendVars, callVars, managerVars
  <2>7. /\ \A a \in Owner : pc'[a] = "unused" <=> pc[a] = "unused"
        /\ \A a \in Owner : pc'[a] = "unused" => attempts'[a] = attempts[a]
        /\ \A a \in Owner : pc'[a] = "trying" =>
             attempts'[a] < MaxAttempts \/ (attempts'[a] = attempts[a] /\ pc[a] = "trying")
    BY <2>1, <2>5
  <2>8. CallsOK'
    BY <2>4, <2>7 DEF CallsOK, callVars
  <2> QED
    BY <2>6, <2>8
<1>6. ASSUME NEW o \in Owner, Release(o) PROVE TypeOK' /\ CallsOK'
  <2>1. /\ store' \in [Key -> Owner \cup {Nobody}]
        /\ left' \in [Key -> 0..MaxTtl]
    <3>1. key[o] \in Key
      BY <1>6 DEF CallsOK, Release
    <3>2. CASE store[key[o]] = o
      <4>1. /\ store' = [store EXCEPT ![key[o]] = Nobody]
            /\ left' = [left EXCEPT ![key[o]] = 0]
        BY <1>6, <3>2 DEF Release, BackendRelease
      <4> QED
        BY <3>1, <4>1 DEF TypeOK
    <3>3. CASE store[key[o]] # o
      BY <1>6, <3>3 DEF TypeOK, Release, BackendRelease
    <3> QED
      BY <3>2, <3>3
  <2> QED
    BY <1>6, <2>1 DEF TypeOK, CallsOK, Release
<1>7. ASSUME NEW o \in Owner, ReleaseError(o) PROVE TypeOK' /\ CallsOK'
  BY <1>7 DEF TypeOK, CallsOK, ReleaseError, Fault
<1>8. ASSUME NEW o \in Owner, Released(o) PROVE TypeOK' /\ CallsOK'
  <2>1. ForgetLocal(o) /\ pc[o] # "unused"
    BY <1>8 DEF Released
  <2> QED
    BY <1>8, <2>1, ForgetLocalType DEF TypeOK, CallsOK, TrackedOK, Released
<1>9. ASSUME NEW o \in Owner, ReleaseUnknownOwner(o) PROVE TypeOK' /\ CallsOK'
  BY <1>9 DEF TypeOK, CallsOK, ReleaseUnknownOwner
<1>10. ASSUME NEW o \in Owner, Extend(o) PROVE TypeOK' /\ CallsOK'
  BY <1>10 DEF TypeOK, CallsOK, Extend
<1>11. ASSUME NEW o \in Owner, RecoverInspect(o) PROVE TypeOK' /\ CallsOK'
  BY <1>11 DEF TypeOK, CallsOK, RecoverInspect
<1>12. ASSUME NEW o \in Owner, RecoverForget(o) PROVE TypeOK' /\ CallsOK'
  <2>1. ForgetLocal(o) /\ pc[o] # "unused"
    BY <1>12 DEF RecoverForget, StaleOK
  <2> QED
    BY <1>12, <2>1, ForgetLocalType DEF TypeOK, CallsOK, TrackedOK, RecoverForget
<1>13. ASSUME NEW x \in Process, Crash(x) PROVE TypeOK' /\ CallsOK'
  BY <1>13 DEF TypeOK, CallsOK, Crash, Fault
<1>14. CASE Tick
  BY <1>14 DEF TypeOK, CallsOK, Tick
<1>15. CASE UNCHANGED vars
  BY <1>15 DEF TypeOK, CallsOK, vars
<1> QED
  BY <1>1, <1>2, <1>3, <1>4, <1>5, <1>6, <1>7, <1>8, <1>9, <1>10, <1>11,
     <1>12, <1>13, <1>14, <1>15 DEF Next, OwnerStep

-----------------------------------------------------------------------------
\* What managers and detectors track.
Bookkeeping == TrackedOK /\ ScopesOK /\ HoldersOK /\ EdgesOK

\* A step that leaves the bookkeeping alone and no tracked handle behind.
LEMMA BookkeepingFrame ==
  ASSUME TypeOK, CallsOK, Bookkeeping,
         UNCHANGED <<managerVars, detectorVars>>,
         \A q \in Owner : pc[q] # "unused" =>
           task'[q] = task[q] /\ key'[q] = key[q] /\ pc'[q] # "unused",
         \A q \in Owner :
           pc[q] \in {"held", "releasing"} /\ q \in heldByOwner[OwnManager(q)]
             => pc'[q] \in {"held", "releasing"}
  PROVE  Bookkeeping'
<1> USE DEF managerVars, detectorVars, Bookkeeping
<1>1. \A x \in Manager : \A q \in heldByOwner[x] :
        /\ q \in Owner /\ pc[q] \in {"held", "releasing"} /\ OwnManager(q) = x
        /\ pc'[q] \in {"held", "releasing"}
        /\ task'[q] = task[q] /\ key'[q] = key[q]
  BY DEF TypeOK, TrackedOK
<1>2. TrackedOK'
  BY <1>1 DEF TrackedOK, OwnManager
<1>3. ScopesOK'
  <2>1. ASSUME NEW x \in Manager PROVE heldScopes'[x] = ScopesOf(heldByOwner[x])'
    BY <1>1 DEF ScopesOK, ScopesOf
  <2> QED
    BY <2>1 DEF ScopesOK
<1>4. ASSUME NEW q \in Owner, Tracked(q)
      PROVE  Tracked(q)' /\ OwnProcess(q)' = OwnProcess(q)
  BY <1>4 DEF Tracked, OwnManager, OwnProcess
<1>5. HoldersOK'
  <2>1. ASSUME NEW x \in Process, NEW k \in Key, holders[x][k] # Nobody
        PROVE  /\ OwnProcess(holders[x][k])' = x
               /\ Tracked(holders[x][k])'
    <3>1. /\ holders[x][k] \in Owner /\ OwnProcess(holders[x][k]) = x
          /\ Tracked(holders[x][k]) /\ holders' = holders
      BY <2>1 DEF TypeOK, HoldersOK
    <3> QED
      BY <3>1, <1>4
  <2> QED
    BY <2>1 DEF HoldersOK
<1>6. EdgesOK'
  <2>1. ASSUME NEW e \in waitsFor
        PROVE  /\ pc'[e[1]] # "unused" /\ Tracked(e[2])'
               /\ OwnProcess(e[1])' = OwnProcess(e[2])'
    <3>1. /\ e[1] \in Owner /\ e[2] \in Owner
          /\ pc[e[1]] # "unused" /\ Tracked(e[2])
          /\ OwnProcess(e[1]) = OwnProcess(e[2])
      BY DEF TypeOK, EdgesOK
    <3>2. pc'[e[1]] # "unused" /\ OwnProcess(e[1])' = OwnProcess(e[1])
      BY <3>1 DEF OwnProcess, OwnManager
    <3> QED
      BY <3>1, <3>2, <1>4
  <2> QED
    BY <2>1 DEF EdgesOK
<1> QED
  BY <1>2, <1>3, <1>5, <1>6

\* What forgetting a token leaves: nothing tracks it any more, and what is
\* tracked about other tokens stays.
LEMMA BookkeepingForget ==
  ASSUME TypeOK, CallsOK, Bookkeeping, NEW o \in Owner, pc[o] # "unused",
         ForgetLocal(o), UNCHANGED callVars,
         \A q \in Owner \ {o} : pc'[q] = pc[q], pc'[o] # "unused"
  PROVE  Bookkeeping'
<1> USE DEF Bookkeeping, callVars
<1>1. OwnManager(o) \in Manager /\ OwnProcess(o) \in Process
  BY PlaceFacts
<1>2. \A q : OwnManager(q)' = OwnManager(q) /\ OwnProcess(q)' = OwnProcess(q)
  BY DEF OwnManager, OwnProcess
<1>3. \A x \in Manager : heldByOwner'[x] = heldByOwner[x] \ {o}
  BY <1>1 DEF TypeOK, TrackedOK, ForgetLocal
<1>4. TrackedOK'
  BY <1>2, <1>3 DEF TypeOK, TrackedOK
<1>5. ScopesOK'
  <2>1. \A x \in Manager \ {OwnManager(o)} : heldByOwner'[x] = heldByOwner[x]
    BY DEF TypeOK, ForgetLocal
  <2>2. \A x \in Manager \ {OwnManager(o)} : heldScopes'[x] = heldScopes[x]
    BY DEF TypeOK, ForgetLocal
  <2>3. heldScopes'[OwnManager(o)] = ScopesOf(heldByOwner[OwnManager(o)] \ {o})
    BY <1>1 DEF TypeOK, ForgetLocal
  <2> QED
    BY <1>3, <2>1, <2>2, <2>3 DEF ScopesOK, ScopesOf
<1>6. ASSUME NEW q \in Owner, q # o, Tracked(q) PROVE Tracked(q)'
  <2>1. OwnManager(q) \in Manager
    BY <1>6, PlaceFacts DEF Tracked
  <2> QED
    BY <1>2, <1>3, <1>6, <2>1 DEF Tracked
<1>7. HoldersOK'
  <2>1. ASSUME NEW x \in Process, NEW k \in Key, holders'[x][k] # Nobody
        PROVE  holders'[x][k] = holders[x][k] /\ holders[x][k] # o
    <3>1. CASE x = OwnProcess(o)
      BY <2>1, <3>1 DEF TypeOK, ForgetLocal, ForgetOwnerHolders
    <3>2. CASE x # OwnProcess(o)
      <4>1. holders'[x][k] = holders[x][k]
        BY <3>2 DEF TypeOK, ForgetLocal, ForgetOwnerHolders
      <4> QED
        BY <2>1, <3>2, <4>1 DEF HoldersOK
    <3> QED
      BY <3>1, <3>2
  <2>2. ASSUME NEW x \in Process, NEW k \in Key, holders'[x][k] # Nobody
        PROVE  OwnProcess(holders[x][k])' = x /\ Tracked(holders[x][k])'
    <3>1. /\ holders'[x][k] = holders[x][k] /\ holders[x][k] # o
          /\ holders[x][k] # Nobody /\ holders[x][k] \in Owner
      BY <2>1, <2>2 DEF TypeOK
    <3>2. OwnProcess(holders[x][k]) = x /\ Tracked(holders[x][k])
      BY <3>1 DEF HoldersOK
    <3>3. PICK q \in Owner : q = holders[x][k]
      BY <3>1
    <3>4. Tracked(q)' /\ OwnProcess(q)' = x
      BY <1>2, <1>6, <3>1, <3>2, <3>3
    <3>5. holders'[x][k] = q
      BY <3>1, <3>3
    <3> QED
      BY <3>4, <3>5 DEF Tracked, OwnManager, OwnProcess
  <2> QED
    BY <2>2 DEF HoldersOK
<1>8. EdgesOK'
  <2>1. ASSUME NEW e \in waitsFor'
        PROVE  /\ pc'[e[1]] # "unused" /\ Tracked(e[2])'
               /\ OwnProcess(e[1])' = OwnProcess(e[2])'
    <3>1. /\ e \in waitsFor /\ e[1] # o /\ e[2] # o
      BY <2>1 DEF ForgetLocal, ForgetOwnerWaits
    <3>2. /\ e[1] \in Owner /\ e[2] \in Owner /\ pc[e[1]] # "unused"
          /\ Tracked(e[2]) /\ OwnProcess(e[1]) = OwnProcess(e[2])
      BY <3>1 DEF TypeOK, EdgesOK
    <3> QED
      BY <1>2, <1>6, <3>1, <3>2 DEF OwnProcess, OwnManager
  <2> QED
    BY <2>1 DEF EdgesOK
<1> QED
  BY <1>4, <1>5, <1>7, <1>8

\* A won attempt is booked.
LEMMA BookkeepingAcquired ==
  ASSUME TypeOK, CallsOK, Bookkeeping, NEW o \in Owner, Acquired(o)
  PROVE  Bookkeeping'
<1> USE DEF Bookkeeping, callVars
<1>1. /\ pc[o] = "won" /\ key[o] \in Key
      /\ OwnManager(o) \in Manager /\ OwnProcess(o) \in Process
  BY PlaceFacts DEF Acquired
<1>2. \A q : OwnManager(q)' = OwnManager(q) /\ OwnProcess(q)' = OwnProcess(q)
  BY DEF Acquired, OwnManager, OwnProcess
<1>3. /\ pc'[o] = "held"
      /\ \A q \in Owner \ {o} : pc'[q] = pc[q]
  BY DEF Acquired, EndCall, TypeOK
<1>4. /\ heldByOwner'[OwnManager(o)] = heldByOwner[OwnManager(o)] \cup {o}
      /\ \A x \in Manager \ {OwnManager(o)} : heldByOwner'[x] = heldByOwner[x]
  BY <1>1 DEF Acquired, TypeOK
<1>5. TrackedOK'
  BY <1>1, <1>2, <1>3, <1>4 DEF TrackedOK, TypeOK
<1>6. ScopesOK'
  <2>1. /\ heldScopes'[OwnManager(o)]
             = heldScopes[OwnManager(o)] \cup {ScopeOf[key[o]]}
        /\ \A x \in Manager \ {OwnManager(o)} : heldScopes'[x] = heldScopes[x]
        /\ key' = key
    BY <1>1 DEF Acquired, TypeOK
  <2> QED
    BY <1>4, <2>1 DEF ScopesOK, ScopesOf
<1>7. Tracked(o)'
  BY <1>2, <1>3, <1>4 DEF Tracked
<1>8. ASSUME NEW q \in Owner, Tracked(q) PROVE Tracked(q)'
  <2>1. OwnManager(q) \in Manager
    BY <1>8, PlaceFacts DEF Tracked
  <2> QED
    BY <1>1, <1>2, <1>3, <1>4, <1>8, <2>1 DEF Tracked
<1>9. HoldersOK'
  <2>1. ASSUME NEW x \in Process, NEW k \in Key, holders'[x][k] # Nobody
        PROVE  OwnProcess(holders[x][k])' = x /\ Tracked(holders[x][k])'
    <3>1. \/ holders'[x][k] = o /\ x = OwnProcess(o)
          \/ holders'[x][k] = holders[x][k]
      BY <1>1 DEF Acquired, TypeOK
    <3>2. CASE holders'[x][k] = o /\ x = OwnProcess(o)
      BY <1>2, <1>7, <3>2 DEF Tracked, OwnManager, OwnProcess
    <3>3. CASE holders'[x][k] = holders[x][k]
      <4>1. PICK q \in Owner : q = holders[x][k]
        BY <2>1, <3>3 DEF TypeOK
      <4>2. OwnProcess(q) = x /\ Tracked(q)
        BY <2>1, <3>3, <4>1 DEF HoldersOK
      <4>3. OwnProcess(q)' = x /\ Tracked(q)' /\ holders'[x][k] = q
        BY <1>2, <1>8, <3>3, <4>1, <4>2
      <4> QED
        BY <4>3 DEF Tracked, OwnManager, OwnProcess
    <3> QED
      BY <3>1, <3>2, <3>3
  <2> QED
    BY <2>1 DEF HoldersOK
<1>10. EdgesOK'
  <2>1. ASSUME NEW e \in waitsFor'
        PROVE  /\ pc'[e[1]] # "unused" /\ Tracked(e[2])'
               /\ OwnProcess(e[1])' = OwnProcess(e[2])'
    <3>1. e \in waitsFor
      BY <2>1 DEF Acquired, ClearWait
    <3>2. /\ e[1] \in Owner /\ e[2] \in Owner /\ pc[e[1]] # "unused"
          /\ Tracked(e[2]) /\ OwnProcess(e[1]) = OwnProcess(e[2])
      BY <3>1 DEF TypeOK, EdgesOK
    <3> QED
      BY <1>2, <1>3, <1>8, <3>2 DEF OwnProcess, OwnManager
  <2> QED
    BY <2>1 DEF EdgesOK
<1> QED
  BY <1>5, <1>6, <1>9, <1>10

\* A lost attempt only adds an edge to the registered holder of the key.
LEMMA BookkeepingContended ==
  ASSUME TypeOK, CallsOK, Bookkeeping, NEW o \in Owner, Contended(o)
  PROVE  Bookkeeping'
<1> USE DEF Bookkeeping, callVars, managerVars
<1>1. /\ pc[o] = "lost" /\ key[o] \in Key
      /\ OwnManager(o) \in Manager /\ OwnProcess(o) \in Process
  BY PlaceFacts DEF Contended
<1>2. /\ \A q : OwnManager(q)' = OwnManager(q) /\ OwnProcess(q)' = OwnProcess(q)
      /\ UNCHANGED <<task, key, heldByOwner, heldScopes, holders>>
  BY DEF Contended, OwnManager, OwnProcess
<1>3. /\ pc'[o] # "unused"
      /\ \A q \in Owner \ {o} : pc'[q] = pc[q]
  BY DEF Contended, EndCall, TypeOK
<1>4. TrackedOK'
  BY <1>1, <1>2, <1>3 DEF TrackedOK, TypeOK
<1>5. ScopesOK'
  BY <1>2 DEF ScopesOK, ScopesOf
<1>6. ASSUME NEW q \in Owner, Tracked(q) PROVE Tracked(q)'
  BY <1>1, <1>2, <1>3, <1>6 DEF Tracked
<1>7. HoldersOK'
  <2>1. ASSUME NEW x \in Process, NEW k \in Key, holders'[x][k] # Nobody
        PROVE  OwnProcess(holders[x][k])' = x /\ Tracked(holders[x][k])'
    <3>1. PICK q \in Owner : q = holders[x][k]
      BY <1>2, <2>1 DEF TypeOK
    <3>2. OwnProcess(q) = x /\ Tracked(q)
      BY <1>2, <2>1, <3>1 DEF HoldersOK
    <3>3. OwnProcess(q)' = x /\ Tracked(q)' /\ holders'[x][k] = q
      BY <1>2, <1>6, <3>1, <3>2
    <3> QED
      BY <3>3 DEF Tracked, OwnManager, OwnProcess
  <2> QED
    BY <2>1 DEF HoldersOK
<1>8. EdgesOK'
  <2>1. waitsFor' \subseteq DeclareWait(o)
    BY DEF Contended, ClearWait, DeclareWait
  <2>2. ASSUME NEW e \in DeclareWait(o)
        PROVE  /\ e[1] \in Owner /\ e[2] \in Owner /\ pc[e[1]] # "unused"
               /\ Tracked(e[2]) /\ OwnProcess(e[1]) = OwnProcess(e[2])
    <3>1. CASE e \in waitsFor
      BY <3>1 DEF TypeOK, EdgesOK
    <3>2. CASE e \notin waitsFor
      <4>1. Target(o) # Nobody /\ e = <<o, Target(o)>>
        BY <2>2, <3>2 DEF DeclareWait
      <4>2. /\ Target(o) \in Owner /\ Tracked(Target(o))
            /\ OwnProcess(Target(o)) = OwnProcess(o)
        BY <1>1, <4>1 DEF Target, HoldersOK, TypeOK
      <4> QED
        BY <1>1, <4>1, <4>2
    <3> QED
      BY <3>1, <3>2
  <2>3. ASSUME NEW e \in waitsFor'
        PROVE  /\ pc'[e[1]] # "unused" /\ Tracked(e[2])'
               /\ OwnProcess(e[1])' = OwnProcess(e[2])'
    <3>1. /\ e[1] \in Owner /\ e[2] \in Owner /\ pc[e[1]] # "unused"
          /\ Tracked(e[2]) /\ OwnProcess(e[1]) = OwnProcess(e[2])
      BY <2>1, <2>2
    <3> QED
      BY <1>2, <1>3, <1>6, <3>1 DEF OwnProcess, OwnManager
  <2> QED
    BY <2>3 DEF EdgesOK
<1> QED
  BY <1>4, <1>5, <1>7, <1>8

\* A crash clears what the process tracked and leaves the others alone.
LEMMA BookkeepingCrash ==
  ASSUME TypeOK, CallsOK, Bookkeeping, NEW x \in Process, Crash(x)
  PROVE  Bookkeeping'
<1> USE DEF Bookkeeping, callVars
<1>1. /\ \A q : OwnManager(q)' = OwnManager(q) /\ OwnProcess(q)' = OwnProcess(q)
      /\ UNCHANGED <<task, key>>
  BY DEF Crash, OwnManager, OwnProcess
<1>2. /\ \A q \in Owner : pc[q] # "unused" => pc'[q] # "unused"
      /\ \A q \in Owner : OwnProcess(q) # x => pc'[q] = pc[q]
  BY DEF Crash, TypeOK
<1>3. \A y \in Manager :
        /\ ProcessOf[y] = x => heldByOwner'[y] = {} /\ heldScopes'[y] = {}
        /\ ProcessOf[y] # x => /\ heldByOwner'[y] = heldByOwner[y]
                               /\ heldScopes'[y] = heldScopes[y]
  BY DEF Crash
<1>4. TrackedOK'
  <2>1. ASSUME NEW y \in Manager, NEW q \in heldByOwner'[y]
        PROVE  pc'[q] \in {"held", "releasing"} /\ OwnManager(q)' = y
    <3>1. ProcessOf[y] # x /\ q \in heldByOwner[y] /\ q \in Owner
      BY <1>3, <2>1 DEF TypeOK
    <3>2. pc[q] \in {"held", "releasing"} /\ OwnManager(q) = y
      BY <3>1 DEF TrackedOK
    <3> QED
      BY <1>1, <1>2, <3>1, <3>2 DEF OwnProcess
  <2> QED
    BY <2>1 DEF TrackedOK
<1>5. ScopesOK'
  BY <1>1, <1>3 DEF ScopesOK, ScopesOf
<1>6. ASSUME NEW q \in Owner, Tracked(q), OwnProcess(q) # x PROVE Tracked(q)'
  <2>1. OwnManager(q) \in Manager
    BY <1>6, PlaceFacts DEF Tracked
  <2> QED
    BY <1>1, <1>2, <1>3, <1>6, <2>1 DEF Tracked, OwnProcess
<1>7. HoldersOK'
  <2>1. ASSUME NEW y \in Process, NEW k \in Key, holders'[y][k] # Nobody
        PROVE  OwnProcess(holders[y][k])' = y /\ Tracked(holders[y][k])'
    <3>1. y # x /\ holders'[y][k] = holders[y][k]
      BY <2>1 DEF Crash, TypeOK
    <3>2. PICK q \in Owner : q = holders[y][k]
      BY <2>1, <3>1 DEF TypeOK
    <3>3. OwnProcess(q) = y /\ Tracked(q)
      BY <2>1, <3>1, <3>2 DEF HoldersOK
    <3>4. OwnProcess(q)' = y /\ Tracked(q)' /\ holders'[y][k] = q
      BY <1>1, <1>6, <3>1, <3>2, <3>3
    <3> QED
      BY <3>4 DEF Tracked, OwnManager, OwnProcess
  <2> QED
    BY <2>1 DEF HoldersOK
<1>8. EdgesOK'
  <2>1. ASSUME NEW e \in waitsFor'
        PROVE  /\ pc'[e[1]] # "unused" /\ Tracked(e[2])'
               /\ OwnProcess(e[1])' = OwnProcess(e[2])'
    <3>1. e \in waitsFor /\ OwnProcess(e[1]) # x
      BY <2>1 DEF Crash
    <3>2. /\ e[1] \in Owner /\ e[2] \in Owner /\ pc[e[1]] # "unused"
          /\ Tracked(e[2]) /\ OwnProcess(e[1]) = OwnProcess(e[2])
      BY <3>1 DEF TypeOK, EdgesOK
    <3> QED
      BY <1>1, <1>2, <1>6, <3>1, <3>2 DEF OwnProcess, OwnManager
  <2> QED
    BY <2>1 DEF EdgesOK
<1> QED
  BY <1>4, <1>5, <1>7, <1>8

\* The bookkeeping agrees after every step.
LEMMA BookkeepingStep ==
  ASSUME TypeOK, CallsOK, Bookkeeping, StaleOK, [Next]_vars
  PROVE  Bookkeeping'
<1> USE OwnerFacts DEF callVars
<1>1. ASSUME NEW t \in Task, NEW k \in Key, Acquire(t, k) PROVE Bookkeeping'
  <2>1. issued + 1 \in Owner /\ pc[issued + 1] = "unused"
    BY <1>1 DEF TypeOK, CallsOK, Acquire
  <2> QED
    BY <1>1, <2>1, BookkeepingFrame DEF TypeOK, Acquire
<1>2. ASSUME NEW o \in Owner, TryAcquire(o) PROVE Bookkeeping'
  <2>1. pc[o] = "trying"
    BY <1>2 DEF TryAcquire
  <2>2. UNCHANGED <<managerVars, detectorVars, task, key>>
    BY <1>2 DEF TryAcquire
  <2>3. \A q \in Owner : pc[q] # "unused" => pc'[q] # "unused"
    BY <1>2 DEF TryAcquire, TypeOK
  <2>4. \A q \in Owner :
          pc[q] \in {"held", "releasing"} /\ q \in heldByOwner[OwnManager(q)]
            => pc'[q] \in {"held", "releasing"}
    BY <1>2, <2>1 DEF TryAcquire, TypeOK
  <2> QED
    BY <2>2, <2>3, <2>4, BookkeepingFrame
<1>3. ASSUME NEW o \in Owner, TryAcquireError(o) PROVE Bookkeeping'
  <2>1. pc[o] = "trying"
    BY <1>3 DEF TryAcquireError
  <2>2. UNCHANGED <<managerVars, detectorVars, task, key>>
    BY <1>3 DEF TryAcquireError
  <2>3. \A q \in Owner : pc[q] # "unused" => pc'[q] # "unused"
    BY <1>3 DEF TryAcquireError, EndCall, TypeOK
  <2>4. \A q \in Owner :
          pc[q] \in {"held", "releasing"} /\ q \in heldByOwner[OwnManager(q)]
            => pc'[q] \in {"held", "releasing"}
    BY <1>3, <2>1 DEF TryAcquireError, EndCall, TypeOK
  <2> QED
    BY <2>2, <2>3, <2>4, BookkeepingFrame
<1>4. ASSUME NEW o \in Owner, Release(o) PROVE Bookkeeping'
  <2>1. pc[o] = "held"
    BY <1>4 DEF Release
  <2>2. UNCHANGED <<managerVars, detectorVars, task, key>>
    BY <1>4 DEF Release
  <2>3. \A q \in Owner : pc[q] # "unused" => pc'[q] # "unused"
    BY <1>4 DEF Release, TypeOK
  <2>4. \A q \in Owner :
          pc[q] \in {"held", "releasing"} /\ q \in heldByOwner[OwnManager(q)]
            => pc'[q] \in {"held", "releasing"}
    BY <1>4, <2>1 DEF Release, TypeOK
  <2> QED
    BY <2>2, <2>3, <2>4, BookkeepingFrame
<1>5. ASSUME NEW o \in Owner, ReleaseError(o) PROVE Bookkeeping'
  <2>1. pc[o] = "held"
    BY <1>5 DEF ReleaseError
  <2>2. UNCHANGED <<managerVars, detectorVars, task, key>>
    BY <1>5 DEF ReleaseError
  <2>3. \A q \in Owner : pc[q] # "unused" => pc'[q] # "unused"
    BY <1>5 DEF ReleaseError, TypeOK
  <2>4. \A q \in Owner :
          pc[q] \in {"held", "releasing"} /\ q \in heldByOwner[OwnManager(q)]
            => pc'[q] \in {"held", "releasing"}
    BY <1>5, <2>1 DEF ReleaseError, TypeOK
  <2> QED
    BY <2>2, <2>3, <2>4, BookkeepingFrame
<1>6. ASSUME NEW o \in Owner, ReleaseUnknownOwner(o) PROVE Bookkeeping'
  <2>1. pc[o] = "held"
    BY <1>6 DEF ReleaseUnknownOwner
  <2>2. UNCHANGED <<managerVars, detectorVars, task, key>>
    BY <1>6 DEF ReleaseUnknownOwner
  <2>3. \A q \in Owner : pc[q] # "unused" => pc'[q] # "unused"
    BY <1>6 DEF ReleaseUnknownOwner, TypeOK
  <2>4. \A q \in Owner :
          pc[q] \in {"held", "releasing"} /\ q \in heldByOwner[OwnManager(q)]
            => pc'[q] \in {"held", "releasing"}
    BY <1>6, <2>1 DEF ReleaseUnknownOwner, TypeOK
  <2> QED
    BY <2>2, <2>3, <2>4, BookkeepingFrame
<1>7. ASSUME NEW o \in Owner, Extend(o) PROVE Bookkeeping'
  <2>1. pc' = pc
    BY <1>7 DEF Extend
  <2>2. UNCHANGED <<managerVars, detectorVars, task, key>>
    BY <1>7 DEF Extend
  <2>3. \A q \in Owner : pc[q] # "unused" => pc'[q] # "unused"
    BY <1>7 DEF Extend, TypeOK
  <2>4. \A q \in Owner :
          pc[q] \in {"held", "releasing"} /\ q \in heldByOwner[OwnManager(q)]
            => pc'[q] \in {"held", "releasing"}
    BY <1>7, <2>1 DEF Extend, TypeOK
  <2> QED
    BY <2>2, <2>3, <2>4, BookkeepingFrame
<1>8. ASSUME NEW o \in Owner, RecoverInspect(o) PROVE Bookkeeping'
  <2>1. pc' = pc
    BY <1>8 DEF RecoverInspect
  <2>2. UNCHANGED <<managerVars, detectorVars, task, key>>
    BY <1>8 DEF RecoverInspect
  <2>3. \A q \in Owner : pc[q] # "unused" => pc'[q] # "unused"
    BY <1>8 DEF RecoverInspect, TypeOK
  <2>4. \A q \in Owner :
          pc[q] \in {"held", "releasing"} /\ q \in heldByOwner[OwnManager(q)]
            => pc'[q] \in {"held", "releasing"}
    BY <1>8, <2>1 DEF RecoverInspect, TypeOK
  <2> QED
    BY <2>2, <2>3, <2>4, BookkeepingFrame
<1>9. ASSUME NEW o \in Owner, Acquired(o) PROVE Bookkeeping'
  BY <1>9, BookkeepingAcquired
<1>10. ASSUME NEW o \in Owner, Contended(o) PROVE Bookkeeping'
  BY <1>10, BookkeepingContended
<1>11. ASSUME NEW o \in Owner, Released(o) PROVE Bookkeeping'
  BY <1>11, BookkeepingForget DEF Released, TypeOK
<1>12. ASSUME NEW o \in Owner, RecoverForget(o) PROVE Bookkeeping'
  BY <1>12, BookkeepingForget DEF RecoverForget, StaleOK
<1>13. ASSUME NEW x \in Process, Crash(x) PROVE Bookkeeping'
  BY <1>13, BookkeepingCrash
<1>14. CASE Tick
  BY <1>14, BookkeepingFrame DEF Tick
<1>15. CASE UNCHANGED vars
  BY <1>15, BookkeepingFrame DEF vars, managerVars, detectorVars
<1> QED
  BY <1>1, <1>2, <1>3, <1>4, <1>5, <1>6, <1>7, <1>8, <1>9, <1>10, <1>11,
     <1>12, <1>13, <1>14, <1>15 DEF Next, OwnerStep

-----------------------------------------------------------------------------
\* No wait closes a cycle: no edge leads into a token that is still waiting.
LEMMA NoCycle ==
  ASSUME TypeOK, CallsOK, EdgesOK, NEW o \in Owner, pc[o] = "lost"
  PROVE  ~ClosesCycle(o)
<1>1. SUFFICES ASSUME Target(o) \notin {Nobody, o} PROVE ~Reachable(Target(o), o)
  BY DEF ClosesCycle
<1>2. Target(o) \in Owner \ {o}
  BY <1>1, PlaceFacts DEF Target, TypeOK
<1>3. \A e \in waitsFor : e[2] \in Owner \ {o}
  BY DEF EdgesOK, Tracked, TypeOK
<1>4. Owner \ {o} \in SUBSET Owner
  OBVIOUS
<1> QED
  BY <1>2, <1>3, <1>4 DEF Reachable

LEMMA NoDeadlockStep ==
  ASSUME TypeOK, CallsOK, EdgesOK, NoDeadlockReport, [Next]_vars
  PROVE  NoDeadlockReport'
<1> USE DEF NoDeadlockReport
<1>1. ASSUME NEW o \in Owner, Contended(o) PROVE NoDeadlockReport'
  <2>1. ~ClosesCycle(o)
    BY <1>1, NoCycle DEF Contended
  <2> QED
    BY <1>1, <2>1 DEF Contended, EndCall, TypeOK
<1>2. ASSUME NEW t \in Task, NEW k \in Key, Acquire(t, k)
      PROVE  NoDeadlockReport'
  BY <1>2 DEF Acquire, TypeOK
<1>3. ASSUME NEW o \in Owner, OwnerStep(o), ~Contended(o)
      PROVE  NoDeadlockReport'
  BY <1>3 DEF OwnerStep, TypeOK, EndCall, TryAcquire, TryAcquireError, Acquired,
     Release, ReleaseError, Released, ReleaseUnknownOwner, Extend,
     RecoverInspect, RecoverForget
<1>4. ASSUME NEW x \in Process, Crash(x) PROVE NoDeadlockReport'
  BY <1>4 DEF Crash
<1>5. CASE Tick
  BY <1>5 DEF Tick
<1>6. CASE UNCHANGED vars
  BY <1>6 DEF vars
<1> QED
  BY <1>1, <1>2, <1>3, <1>4, <1>5, <1>6 DEF Next

-----------------------------------------------------------------------------
\* Ownership: unexpired handles own their key, stale ones do not.
Ownership == HeldMeansOwned /\ StaleOK

LEMMA OwnershipStep ==
  ASSUME TypeOK, CallsOK, TrackedOK, Ownership, [Next]_vars
  PROVE  Ownership'
<1> USE OwnerFacts DEF Ownership, backendVars, callVars, HeldMeansOwned, StaleOK
<1>0. \A q \in Owner : pc[q] \in {"won", "held", "releasing", "done"} => key[q] \in Key
  BY DEF CallsOK
<1>1. ASSUME NEW t \in Task, NEW k \in Key, Acquire(t, k) PROVE Ownership'
  <2>1. issued + 1 \in Owner /\ pc[issued + 1] = "unused"
    BY <1>1 DEF TypeOK, CallsOK, Acquire
  <2>2. \A q \in Owner \ {issued + 1} : pc'[q] = pc[q] /\ key'[q] = key[q]
    BY <1>1 DEF Acquire, TypeOK
  <2>3. pc'[issued + 1] = "trying" /\ UNCHANGED <<store, lapsed, stale>>
    BY <1>1, <2>1 DEF Acquire, TypeOK
  <2>4. \A q \in Owner : pc'[q] \in {"won", "held"} => q # issued + 1
    BY <2>3
  <2>5. \A q \in stale : q \in Owner /\ q # issued + 1
    BY <2>1 DEF TypeOK
  <2> QED
    BY <2>2, <2>3, <2>4, <2>5
<1>2. ASSUME NEW o \in Owner, TryAcquire(o) \/ TryAcquireError(o)
      PROVE  Ownership'
  <2>1. pc[o] = "trying" /\ key[o] \in Key /\ UNCHANGED <<key, lapsed, stale>>
    BY <1>2, PlaceFacts DEF TryAcquire, TryAcquireError
  <2>2. \A q \in Owner \ {o} : pc'[q] = pc[q]
    BY <1>2 DEF TryAcquire, TryAcquireError, EndCall, TypeOK
  <2>3. \/ store' = store
        \/ store[key[o]] = Nobody /\ store' = [store EXCEPT ![key[o]] = o]
    BY <1>2 DEF TryAcquire, TryAcquireError
  <2>4. pc'[o] = "won" => store'[key[o]] = o
    BY <1>2, <2>1 DEF TryAcquire, TryAcquireError, EndCall, TypeOK
  <2>5. pc'[o] \in {"won", "lost", "failed"}
    BY <1>2, <2>1 DEF TryAcquire, TryAcquireError, EndCall, TypeOK
  <2>6. ASSUME NEW q \in Owner, q # o, pc[q] \in {"won", "held"}, q \notin lapsed
        PROVE  store'[key[q]] = q
    <3>1. key[q] \in Key /\ store[key[q]] = q /\ q # Nobody
      BY <1>0, <2>6
    <3> QED
      BY <2>1, <2>3, <3>1 DEF TypeOK
  <2>7. ASSUME NEW q \in stale PROVE q # o /\ store'[key[q]] # q
    <3>1. /\ key[q] \in Key /\ store[key[q]] # q
          /\ pc[q] \in {"held", "releasing", "done"}
      BY <1>0, <2>7 DEF TypeOK
    <3>2. q # o
      BY <2>1, <3>1
    <3> QED
      BY <2>1, <2>3, <3>1, <3>2 DEF TypeOK
  <2>8. HeldMeansOwned'
    BY <2>1, <2>2, <2>4, <2>5, <2>6
  <2>9. StaleOK'
    BY <2>1, <2>2, <2>7 DEF TypeOK
  <2> QED
    BY <2>8, <2>9
<1>3. ASSUME NEW o \in Owner, Acquired(o) \/ Contended(o) PROVE Ownership'
  <2>1. /\ pc[o] \in {"won", "lost"} /\ UNCHANGED <<store, key, lapsed, stale>>
        /\ \A q \in Owner \ {o} : pc'[q] = pc[q]
        /\ pc'[o] \in {"won", "held"} => pc[o] = "won"
    BY <1>3 DEF Acquired, Contended, EndCall, TypeOK
  <2> QED
    BY <2>1 DEF TypeOK
<1>4. ASSUME NEW o \in Owner, Release(o) PROVE Ownership'
  <2>1. /\ pc[o] = "held" /\ key[o] \in Key /\ UNCHANGED <<key, lapsed, stale>>
        /\ pc' = [pc EXCEPT ![o] = "releasing"]
    BY <1>4, PlaceFacts DEF Release
  <2>2. \/ store' = store
        \/ store[key[o]] = o /\ store' = [store EXCEPT ![key[o]] = Nobody]
    BY <1>4 DEF Release, BackendRelease
  <2>3. ASSUME NEW q \in Owner, pc'[q] \in {"won", "held"}, q \notin lapsed
        PROVE  store'[key[q]] = q
    <3>1. q # o /\ pc[q] \in {"won", "held"}
      BY <2>1, <2>3 DEF TypeOK
    <3>2. key[q] \in Key /\ store[key[q]] = q
      BY <1>0, <2>3, <3>1
    <3> QED
      BY <2>1, <2>2, <3>1, <3>2 DEF TypeOK
  <2>4. ASSUME NEW q \in stale PROVE store'[key[q]] # q
    <3>1. key[q] \in Key /\ store[key[q]] # q /\ q \in Owner
      BY <1>0, <2>4 DEF TypeOK
    <3> QED
      BY <2>1, <2>2, <3>1 DEF TypeOK
  <2> QED
    BY <2>1, <2>3, <2>4 DEF TypeOK
<1>5. ASSUME NEW o \in Owner,
             ReleaseError(o) \/ Released(o) \/ ReleaseUnknownOwner(o)
      PROVE  Ownership'
  <2>1. /\ pc[o] \in {"held", "releasing"} /\ UNCHANGED <<store, key, lapsed, stale>>
        /\ \/ pc' = [pc EXCEPT ![o] = "releasing"]
           \/ pc' = [pc EXCEPT ![o] = "done"]
    BY <1>5 DEF ReleaseError, Released, ReleaseUnknownOwner
  <2> QED
    BY <2>1 DEF TypeOK
<1>6. ASSUME NEW o \in Owner,
             Extend(o) \/ RecoverInspect(o) \/ RecoverForget(o)
      PROVE  Ownership'
  BY <1>6 DEF Extend, RecoverInspect, RecoverForget, TypeOK
<1>7. ASSUME NEW x \in Process, Crash(x) PROVE Ownership'
  <2>1. /\ UNCHANGED <<store, key, lapsed>> /\ stale' \subseteq stale
        /\ \A q \in Owner : pc'[q] \in {"won", "held"} => pc'[q] = pc[q]
    BY <1>7 DEF Crash
  <2>2. \A q \in stale' : pc'[q] = pc[q]
    BY <1>7 DEF Crash, TypeOK
  <2> QED
    BY <2>1, <2>2 DEF TypeOK
<1>8. CASE Tick
  <2>1. UNCHANGED <<pc, key, stale>>
    BY <1>8 DEF Tick
  <2>2. \A k \in Key : store'[k] = store[k] \/ store'[k] = Nobody
    BY <1>8 DEF Tick
  <2>3. ASSUME NEW q \in Owner, pc[q] \in {"won", "held"}, q \notin lapsed'
        PROVE  store'[key[q]] = q
    <3>1. q \notin lapsed /\ store[key[q]] = q
      BY <1>8, <2>3 DEF Tick
    <3>2. key[q] \in Key
      BY <2>3 DEF CallsOK
    <3> QED
      BY <1>8, <2>3, <3>1, <3>2 DEF Tick
  <2>4. ASSUME NEW q \in stale PROVE store'[key[q]] # q
    <3>1. q \in Owner /\ key[q] \in Key /\ store[key[q]] # q
      BY <2>4 DEF CallsOK, TypeOK
    <3> QED
      BY <2>2, <3>1
  <2> QED
    BY <2>1, <2>3, <2>4
<1>9. CASE UNCHANGED vars
  BY <1>9 DEF vars
<1> QED
  BY <1>1, <1>2, <1>3, <1>4, <1>5, <1>6, <1>7, <1>8, <1>9 DEF Next, OwnerStep

-----------------------------------------------------------------------------
\* Ranks are numbers.
LEMMA RankFacts == \A k \in Key : Rank(k) \in Int
BY LockAssumption DEF Rank, RankOf, Scope

\* Acquisition order: a task calls acquire() while it has no other call under
\* way, and the order check sees every lock it still tracks.
Order == SequentialTasks /\ RankOrder

\* Steps after acquire() has started: the tokens' callers and keys stay, no
\* token goes back to acquiring, and a newly tracked one was acquiring.
LEMMA OrderFrame ==
  ASSUME TypeOK, CallsOK, Order, UNCHANGED <<task, key>>,
         \A q \in Owner : pc'[q] \in Acquiring => pc[q] \in Acquiring,
         \A q \in Owner : pc[q] = "unused" => pc'[q] = "unused",
         \A q \in Owner : pc'[q] \in Working => pc[q] \in Working,
         \A q \in Owner : task[q] \in Task /\ q \in heldByOwner'[OwnManager(q)] =>
           q \in heldByOwner[OwnManager(q)] \/ pc[q] \in Acquiring
  PROVE  Order'
<1> USE DEF Order
<1>1. SequentialTasks'
  BY DEF SequentialTasks
<1>2. ASSUME NEW a \in Owner, NEW b \in Owner, a < b,
             pc'[b] \in Working, task[a] = task[b],
             a \in heldByOwner'[OwnManager(a)]
      PROVE  Rank(key[b]) <= Rank(key[a])
  <2>1. pc[b] \in Working /\ pc[b] # "unused"
    BY <1>2 DEF Working, Acquiring
  <2>2. pc[a] \notin Acquiring
    BY <1>2, <2>1 DEF SequentialTasks
  <2>3. a \in heldByOwner[OwnManager(a)]
    <3>1. task[a] \in Task
      BY <1>2, <2>1 DEF CallsOK
    <3> QED
      BY <1>2, <2>2, <3>1
  <2> QED
    BY <1>2, <2>1, <2>3 DEF RankOrder, Working
<1>3. \A q : OwnManager(q)' = ManagerOf[task[q]] /\ OwnManager(q) = ManagerOf[task[q]]
  BY DEF OwnManager
<1>4. RankOrder'
  BY <1>2, <1>3 DEF RankOrder, Working, OwnManager, Rank
<1> QED
  BY <1>1, <1>4

LEMMA OrderStep ==
  ASSUME TypeOK, CallsOK, TrackedOK, ScopesOK, StaleOK, Order, [Next]_vars
  PROVE  Order'
<1> USE OwnerFacts DEF Working, Acquiring, backendVars, callVars, managerVars
<1>1. ASSUME NEW t \in Task, NEW k \in Key, Acquire(t, k) PROVE Order'
  <2> DEFINE n == issued + 1
  <2>1. n \in Owner /\ pc[n] = "unused" /\ issued \in Int
    BY <1>1 DEF TypeOK, CallsOK, Acquire
  <2>2. /\ task' = [task EXCEPT ![n] = t] /\ key' = [key EXCEPT ![n] = k]
        /\ pc' = [pc EXCEPT ![n] = "trying"]
        /\ UNCHANGED <<heldByOwner, heldScopes>>
    BY <1>1 DEF Acquire
  <2>3. \A q \in Owner \ {n} : /\ task'[q] = task[q] /\ key'[q] = key[q]
                               /\ pc'[q] = pc[q]
    BY <2>2 DEF TypeOK
  <2>4. task'[n] = t /\ key'[n] = k /\ pc'[n] = "trying"
    BY <2>1, <2>2 DEF TypeOK
  <2>5. \A q \in Owner : q > n => pc[q] = "unused"
    BY <2>1 DEF CallsOK
  <2>6. \A q \in Owner : task[q] = t => pc[q] \notin Acquiring
    BY <1>1 DEF Acquire, Pending
  <2>7. SequentialTasks'
    <3>1. ASSUME NEW a \in Owner, NEW b \in Owner, a < b, pc'[b] # "unused",
                 task'[a] = task'[b]
          PROVE  pc'[a] \notin Acquiring
      <4>1. CASE b = n
        BY <2>3, <2>4, <2>6, <3>1, <4>1
      <4>2. CASE b # n
        <5>1. pc[b] # "unused" /\ a # n
          BY <2>1, <2>3, <2>5, <3>1, <4>2
        <5> QED
          BY <2>3, <3>1, <4>2, <5>1 DEF Order, SequentialTasks
      <4> QED
        BY <4>1, <4>2
    <3> QED
      BY <3>1 DEF SequentialTasks
  <2>8. ASSUME NEW a \in Owner, a # n, task[a] = t,
               a \in heldByOwner[ManagerOf[t]]
        PROVE  Rank(k) <= Rank(key[a])
    <3>1. ManagerOf[t] \in Manager
      BY LockAssumption
    <3>2. ScopeOf[key[a]] \in heldScopes[ManagerOf[t]]
      BY <2>8, <3>1 DEF ScopesOK, ScopesOf
    <3>3. RankOf(ScopeOf[key[a]]) >= RankOf(ScopeOf[k])
      BY <1>1, <3>2 DEF Acquire, ValidateAcquisitionOrder
    <3>4. key[a] \in Key
      <4>1. pc[a] # "unused"
        BY <2>8, <3>1 DEF TrackedOK
      <4> QED
        BY <4>1 DEF CallsOK
    <3> QED
      BY <3>3, <3>4, RankFacts DEF Rank
  <2>9. RankOrder'
    <3>1. ASSUME NEW a \in Owner, NEW b \in Owner, a < b, pc'[b] \in Working,
                 task'[a] = task'[b],
                 a \in heldByOwner[ManagerOf[task'[a]]]
          PROVE  Rank(key'[b]) <= Rank(key'[a])
      <4>1. CASE b = n
        BY <2>3, <2>4, <2>8, <3>1, <4>1
      <4>2. CASE b # n
        <5>1. pc[b] \in Working /\ a # n
          BY <2>1, <2>3, <2>5, <3>1, <4>2
        <5> QED
          BY <2>3, <3>1, <4>2, <5>1 DEF Order, RankOrder, OwnManager
      <4> QED
        BY <4>1, <4>2
    <3> QED
      BY <2>2, <3>1 DEF RankOrder, OwnManager, Rank
  <2> QED
    BY <2>7, <2>9 DEF Order
<1>2. ASSUME NEW o \in Owner, OwnerStep(o) PROVE Order'
  <2>1. UNCHANGED <<task, key>>
    BY <1>2 DEF OwnerStep, TryAcquire, TryAcquireError, Acquired, Contended,
       Release, ReleaseError, Released, ReleaseUnknownOwner, Extend,
       RecoverInspect, RecoverForget
  <2>2. \A q \in Owner :
          /\ pc'[q] \in Acquiring => pc[q] \in Acquiring
          /\ pc[q] = "unused" => pc'[q] = "unused"
          /\ pc'[q] \in Working => pc[q] \in Working
    BY <1>2 DEF OwnerStep, TryAcquire, TryAcquireError, Acquired, Contended,
       Release, ReleaseError, Released, ReleaseUnknownOwner, Extend,
       RecoverInspect, RecoverForget, EndCall, TypeOK
  <2>3. ASSUME NEW q \in Owner, task[q] \in Task, q \in heldByOwner'[OwnManager(q)]
        PROVE  q \in heldByOwner[OwnManager(q)] \/ pc[q] \in Acquiring
    <3>1. CASE Acquired(o)
      <4>1. /\ pc[o] = "won" /\ OwnManager(o) \in Manager
            /\ heldByOwner' = [heldByOwner EXCEPT
                 ![OwnManager(o)] = heldByOwner[OwnManager(o)] \cup {o}]
        BY <3>1, PlaceFacts DEF Acquired
      <4> QED
        BY <2>3, <4>1 DEF TypeOK
    <3>2. CASE ForgetLocal(o)
      BY <2>3, <3>2 DEF ForgetLocal, TypeOK
    <3>3. CASE UNCHANGED heldByOwner
      BY <2>3, <3>3
    <3> QED
      BY <1>2, <3>1, <3>2, <3>3 DEF OwnerStep, TryAcquire, TryAcquireError,
         Contended, Release, ReleaseError, Released, ReleaseUnknownOwner,
         Extend, RecoverInspect, RecoverForget
  <2> QED
    BY <2>1, <2>2, <2>3, OrderFrame
<1>3. ASSUME NEW x \in Process, Crash(x) PROVE Order'
  <2>1. UNCHANGED <<task, key>>
    BY <1>3 DEF Crash
  <2>2. \A q \in Owner :
          /\ pc'[q] \in Acquiring => pc[q] \in Acquiring
          /\ pc[q] = "unused" => pc'[q] = "unused"
          /\ pc'[q] \in Working => pc[q] \in Working
    BY <1>3 DEF Crash, TypeOK
  <2>3. ASSUME NEW q \in Owner, task[q] \in Task, q \in heldByOwner'[OwnManager(q)]
        PROVE  q \in heldByOwner[OwnManager(q)] \/ pc[q] \in Acquiring
    <3>1. OwnManager(q) \in Manager
      BY <2>3, LockAssumption DEF OwnManager
    <3> QED
      BY <1>3, <2>3, <3>1 DEF Crash, TypeOK
  <2> QED
    BY <2>1, <2>2, <2>3, OrderFrame
<1>4. CASE Tick
  BY <1>4, OrderFrame DEF Tick
<1>5. CASE UNCHANGED vars
  BY <1>5, OrderFrame DEF vars
<1> QED
  BY <1>1, <1>2, <1>3, <1>4, <1>5 DEF Next

-----------------------------------------------------------------------------
LEMMA InitInvariant == Init => IInv
<1>1. SUFFICES ASSUME Init PROVE IInv
  OBVIOUS
<1>2. TypeOK /\ CallsOK
  BY <1>1, CallsInit
<1>3. TrackedOK /\ ScopesOK
  BY <1>1 DEF Init, TrackedOK, ScopesOK, ScopesOf
<1>4. HoldersOK /\ EdgesOK /\ StaleOK
  BY <1>1 DEF Init, HoldersOK, EdgesOK, StaleOK
<1>5. SequentialTasks /\ HeldMeansOwned /\ NoDeadlockReport /\ RankOrder
  BY <1>1 DEF Init, SequentialTasks, HeldMeansOwned, NoDeadlockReport,
     RankOrder, Acquiring
<1> QED
  BY <1>2, <1>3, <1>4, <1>5 DEF IInv

LEMMA StepInvariant == IInv /\ [Next]_vars => IInv'
<1>1. SUFFICES ASSUME IInv, [Next]_vars PROVE IInv'
  OBVIOUS
<1>2. TypeOK' /\ CallsOK'
  BY <1>1, CallsStep DEF IInv
<1>3. Bookkeeping'
  BY <1>1, BookkeepingStep DEF IInv, Bookkeeping
<1>4. Ownership'
  BY <1>1, OwnershipStep DEF IInv, Ownership
<1>5. Order'
  BY <1>1, OrderStep DEF IInv, Order
<1>6. NoDeadlockReport'
  BY <1>1, NoDeadlockStep DEF IInv
<1> QED
  BY <1>2, <1>3, <1>4, <1>5, <1>6 DEF IInv, Bookkeeping, Ownership, Order

THEOREM Invariance == Spec => []IInv
BY InitInvariant, StepInvariant, PTL DEF Spec

\* The state of the lock, of the calls and of the bookkeeping stays typed.
THEOREM Typing == Spec => []TypeOK
<1>1. IInv => TypeOK
  BY DEF IInv
<1> QED
  BY <1>1, Invariance, PTL

\* Handles exclude each other until they expire: an unexpired handle owns its
\* key in the backend until its own release.
THEOREM Exclusion == Spec => []HeldMeansOwned
<1>1. IInv => HeldMeansOwned
  BY DEF IInv
<1> QED
  BY <1>1, Invariance, PTL

\* Two unexpired handles never share a key.
Unexpired(o) == pc[o] = "held" /\ o \notin lapsed
OneHandlePerKey ==
  \A a, b \in Owner :
    Unexpired(a) /\ Unexpired(b) /\ key[a] = key[b] => a = b

THEOREM MutualExclusion == Spec => []OneHandlePerKey
<1>1. HeldMeansOwned => OneHandlePerKey
  BY DEF HeldMeansOwned, OneHandlePerKey, Unexpired
<1> QED
  BY <1>1, Exclusion, PTL

\* Managers and detectors agree on what is held.
THEOREM Tracking == Spec => []TrackingAgrees
<1>1. IInv => TrackingAgrees
  <2>1. SUFFICES ASSUME IInv PROVE TrackingAgrees
    OBVIOUS
  <2>2. ASSUME NEW x \in Process, NEW k \in Key, holders[x][k] # Nobody
        PROVE  \E y \in Manager : /\ ProcessOf[y] = x
                                  /\ holders[x][k] \in heldByOwner[y]
    <3>1. PICK q \in Owner : q = holders[x][k]
      BY <2>1, <2>2 DEF IInv, TypeOK
    <3>2. OwnProcess(q) = x /\ Tracked(q)
      BY <2>1, <2>2, <3>1 DEF IInv, HoldersOK
    <3>3. OwnManager(q) \in Manager
      BY <2>1, <3>2, PlaceFacts DEF IInv, Tracked
    <3> QED
      BY <3>1, <3>2, <3>3 DEF Tracked, OwnProcess
  <2> QED
    BY <2>1, <2>2 DEF IInv, TrackingAgrees, ScopesOK, EdgesOK, Tracked
<1> QED
  BY <1>1, Invariance, PTL

\* No call of acquire() is ever refused as a deadlock.
THEOREM DetectorSilent == Spec => []NoDeadlockReport
<1>1. IInv => NoDeadlockReport
  BY DEF IInv
<1> QED
  BY <1>1, Invariance, PTL

\* Every task takes its locks in descending rank.
THEOREM DescendingRank == Spec => []RankOrder
<1>1. IInv => RankOrder
  BY DEF IInv
<1> QED
  BY <1>1, Invariance, PTL

\* Two tasks that wait for each other wait for keys of one rank.
THEOREM InversionFree == Spec => []NoInversionDeadlock
<1>1. IInv => NoInversionDeadlock
  <2>1. SUFFICES ASSUME IInv, NEW a \in Owner, NEW b \in Owner, NEW c \in Owner,
                        NEW d \in Owner,
                        WaitsWhileHolding(a, b), WaitsWhileHolding(c, d),
                        key[b] = key[c], key[d] = key[a]
                 PROVE  Rank(key[a]) = Rank(key[b])
    BY DEF NoInversionDeadlock
  <2>2. ASSUME NEW e \in Owner, NEW f \in Owner, WaitsWhileHolding(e, f)
        PROVE  Rank(key[f]) <= Rank(key[e])
    <3>1. /\ task[e] = task[f] /\ pc[e] = "held" /\ pc[f] \in Acquiring
          /\ e \in heldByOwner[OwnManager(e)]
      BY <2>2 DEF WaitsWhileHolding
    <3>2. e # f /\ ~(f < e)
      BY <2>1, <3>1 DEF IInv, SequentialTasks, Acquiring
    <3>3. e < f
      BY <3>2, OwnerFacts
    <3> QED
      BY <2>1, <3>1, <3>3 DEF IInv, RankOrder
  <2>3. Rank(key[b]) <= Rank(key[a]) /\ Rank(key[d]) <= Rank(key[c])
    BY <2>1, <2>2
  <2>4. key[a] \in Key /\ key[b] \in Key
    BY <2>1 DEF IInv, CallsOK, WaitsWhileHolding, Acquiring
  <2> QED
    BY <2>1, <2>3, <2>4, RankFacts
<1> QED
  BY <1>1, Invariance, PTL

\* recoverStaleHolds() never drops a token that owns its key.
THEOREM SafeRecovery == Spec => RecoveryIsSafe
<1>1. IInv /\ [Next]_vars =>
        [\A o \in Owner : RecoverForget(o) => store[key[o]] # o]_vars
  BY DEF IInv, StaleOK, RecoverForget
<1> QED
  BY <1>1, Invariance, PTL DEF Spec, RecoveryIsSafe
=============================================================================
