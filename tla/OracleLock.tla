----------------------------- MODULE OracleLock -----------------------------
(***************************************************************************)
(* The distributed lock of the oracle service: the shared lock backend     *)
(* (backends.js), the lock managers of the oracle nodes (lockManager.js),  *)
(* the rank order of lock scopes (hierarchy.js) and the wait-for graph of  *)
(* a process (deadlock.js).                                                *)
(*                                                                         *)
(* Every call of acquire() draws a fresh owner token, so a token stands    *)
(* for one call and for the handle the call returns.  Tokens are numbered  *)
(* in the order they are drawn; 0 is no token.  A task is a caller of a    *)
(* manager: it awaits each call before it makes the next one, and may hold *)
(* several handles.  A step of the model is a stretch of code between two  *)
(* awaits, or a command executed by the backend.                           *)
(***************************************************************************)
EXTENDS Integers, FiniteSets

CONSTANTS Task,         \* sequential callers
          Manager,      \* LockManager instances
          Process,      \* operating system processes
          Key,          \* lock keys
          ManagerOf,    \* the manager a task calls
          ProcessOf,    \* the process a manager runs in
          ScopeOf,      \* the scope a key was built from
          MaxOwners,    \* bound: number of acquire() calls
          MaxAttempts,  \* retry.maxAttempts
          MaxTtl,       \* longest time to live, in clock ticks
          MaxFaults,    \* bound: lost commands and process crashes
          StrictParent, \* the manager option strictParent
          None          \* no task, no key

Owner == 1..MaxOwners
Nobody == 0
Scope == {"global", "project", "batch"}

ASSUME LockAssumption ==
  /\ MaxOwners \in Nat /\ MaxAttempts \in Nat \ {0} /\ MaxTtl \in Nat \ {0}
  /\ MaxFaults \in Nat
  /\ ManagerOf \in [Task -> Manager]
  /\ ProcessOf \in [Manager -> Process]
  /\ ScopeOf \in [Key -> Scope]
  /\ StrictParent \in BOOLEAN
  /\ None \notin Task /\ None \notin Key

VARIABLES
  store,        \* backend: the owner token stored under a key, or Nobody
  left,         \* backend: remaining time to live of the entry
  issued,       \* number of owner tokens drawn so far
  task,         \* the caller of a token
  key,          \* the key a token was drawn for
  pc,           \* how far the call, or the handle it returned, has got
  attempts,     \* attempts made by the call
  heldByOwner,  \* per manager: the tokens it tracks as held
  heldScopes,   \* per manager: the scopes it tracks as held
  holders,      \* per process: detector's key -> holding token
  waitsFor,     \* detector edges <<waiter, holder>>
  stale,        \* tokens that recoverStaleHolds() found not to own their key
  faults,       \* number of lost commands and crashes so far
  lapsed        \* history: tokens whose entry expired before the release

backendVars == <<store, left, lapsed>>
managerVars == <<heldByOwner, heldScopes>>
detectorVars == <<holders, waitsFor>>
callVars == <<issued, task, key>>
vars == <<store, left, issued, task, key, pc, attempts, heldByOwner,
          heldScopes, holders, waitsFor, stale, faults, lapsed>>

\* "trying": about to ask the backend (also: sleeping before the next try);
\* "won", "lost": the backend has answered, the answer is on its way back;
\* "held": acquire() has returned the handle; "releasing": the backend has
\* executed the release; "done": released; "failed": acquire() threw;
\* "deadlock": acquire() threw with the code DEADLOCK; "crashed": the process
\* died with the call or the handle.
Acquiring == {"trying", "won", "lost"}
State == Acquiring \cup {"unused", "held", "releasing", "done", "failed",
                         "deadlock", "crashed"}

OwnManager(o) == ManagerOf[task[o]]
OwnProcess(o) == ProcessOf[OwnManager(o)]

RankOf(scope) == CASE scope = "global" -> 30
                   [] scope = "project" -> 20
                   [] scope = "batch" -> 10
Rank(k) == RankOf(ScopeOf[k])

\* Mutation: only the parent rule is checked, not the ranks.
ValidateParentOnly(scope, held) ==
  /\ StrictParent /\ scope = "batch" => {"project", "global"} \cap held # {}

\* hierarchy.js: may a lock of this scope be acquired while these are held?
ValidateAcquisitionOrder(scope, held) ==
  /\ \A h \in held : RankOf(h) >= RankOf(scope)
  /\ StrictParent /\ scope = "batch" => {"project", "global"} \cap held # {}

-----------------------------------------------------------------------------
(* The wait-for graph. *)

\* Mutation: the search follows the edges backwards.
ReachableBackwards(from, to) ==
  \A S \in SUBSET Owner :
    from \in S /\ (\A e \in waitsFor : e[2] \in S => e[1] \in S) => to \in S

\* _reachable: `to` lies in every set of owners that holds `from` and is
\* closed under the edges.
Reachable(from, to) ==
  \A S \in SUBSET Owner :
    from \in S /\ (\A e \in waitsFor : e[1] \in S => e[2] \in S) => to \in S

\* The holder declareWait() and clearWait() look up for the call of o.
Target(o) == holders[OwnProcess(o)][key[o]]

ClosesCycle(o) ==
  Target(o) \notin {Nobody, o} /\ Reachable(Target(o), o)

DeclareWait(o) ==
  IF Target(o) \in {Nobody, o} \/ ClosesCycle(o)
  THEN waitsFor
  ELSE waitsFor \cup {<<o, Target(o)>>}

\* clearWait() on the graph `edges`: only the edge to the key's current
\* holder goes; all edges of the waiter go when no holder is registered.
ClearWait(o, edges) ==
  {e \in edges : ~(e[1] = o /\ Target(o) \in {Nobody, e[2]})}

\* releaseHold() and forgetOwner().
ForgetOwnerHolders(o) ==
  [holders EXCEPT ![OwnProcess(o)] =
     [k \in Key |-> IF holders[OwnProcess(o)][k] = o THEN Nobody
                                            ELSE holders[OwnProcess(o)][k]]]
ForgetOwnerWaits(o) == {e \in waitsFor : e[1] # o /\ e[2] # o}

ScopesOf(owners) == {ScopeOf[key[o]] : o \in owners}

\* Mutation: the scope is deleted by name, other locks of it or not.
ForgetLocalByName(o) ==
  /\ heldByOwner' = [heldByOwner EXCEPT ![OwnManager(o)] = heldByOwner[OwnManager(o)] \ {o}]
  /\ heldScopes' = [heldScopes EXCEPT
                      ![OwnManager(o)] = heldScopes[OwnManager(o)] \ {ScopeOf[key[o]]}]
  /\ holders' = ForgetOwnerHolders(o)
  /\ waitsFor' = ForgetOwnerWaits(o)

ForgetLocal(o) ==
  /\ heldByOwner' = [heldByOwner EXCEPT ![OwnManager(o)] = heldByOwner[OwnManager(o)] \ {o}]
  /\ heldScopes' = [heldScopes EXCEPT
                      ![OwnManager(o)] = ScopesOf(heldByOwner[OwnManager(o)] \ {o})]
  /\ holders' = ForgetOwnerHolders(o)
  /\ waitsFor' = ForgetOwnerWaits(o)

-----------------------------------------------------------------------------
Init ==
  /\ store = [k \in Key |-> Nobody]
  /\ left = [k \in Key |-> 0]
  /\ issued = 0
  /\ task = [o \in Owner |-> None]
  /\ key = [o \in Owner |-> None]
  /\ pc = [o \in Owner |-> "unused"]
  /\ attempts = [o \in Owner |-> 0]
  /\ heldByOwner = [x \in Manager |-> {}]
  /\ heldScopes = [x \in Manager |-> {}]
  /\ holders = [x \in Process |-> [k \in Key |-> Nobody]]
  /\ waitsFor = {}
  /\ stale = {}
  /\ faults = 0
  /\ lapsed = {}

\* The tokens of calls that task t has not finished.
Pending(t) ==
  {o \in Owner : task[o] = t /\ pc[o] \in Acquiring \cup {"releasing"}}

\* acquire() returns or throws, and its local variables are gone.
EndCall(o, outcome) ==
  /\ pc' = [pc EXCEPT ![o] = outcome]
  /\ attempts' = [attempts EXCEPT ![o] = 0]

Fault == faults < MaxFaults /\ faults' = faults + 1

\* acquire(), up to the first attempt: the order check reads heldScopes of
\* the manager; a refused call throws before it draws a token.
Acquire(t, k) ==
  /\ issued < MaxOwners
  /\ Pending(t) = {}
  /\ ValidateAcquisitionOrder(ScopeOf[k], heldScopes[ManagerOf[t]])
  /\ issued' = issued + 1
  /\ task' = [task EXCEPT ![issued + 1] = t]
  /\ key' = [key EXCEPT ![issued + 1] = k]
  /\ pc' = [pc EXCEPT ![issued + 1] = "trying"]
  /\ UNCHANGED <<backendVars, managerVars, detectorVars, attempts, stale, faults>>

\* Mutation: the attempts are not counted.
TryAcquireUncounted(o) ==
  /\ pc[o] = "trying"
  /\ IF store[key[o]] = Nobody
     THEN /\ store' = [store EXCEPT ![key[o]] = o]
          /\ \E ttl \in 1..MaxTtl : left' = [left EXCEPT ![key[o]] = ttl]
          /\ pc' = [pc EXCEPT ![o] = "won"]
     ELSE /\ pc' = [pc EXCEPT ![o] = "lost"]
          /\ UNCHANGED <<store, left>>
  /\ UNCHANGED <<callVars, attempts, managerVars, detectorVars, stale, faults, lapsed>>

\* The backend stores the token if the key is free: SET NX PX, or
\* MemoryBackend.tryAcquire after _gc.
TryAcquire(o) ==
  /\ pc[o] = "trying"
  /\ attempts' = [attempts EXCEPT ![o] = attempts[o] + 1]
  /\ IF store[key[o]] = Nobody
     THEN /\ store' = [store EXCEPT ![key[o]] = o]
          /\ \E ttl \in 1..MaxTtl : left' = [left EXCEPT ![key[o]] = ttl]
          /\ pc' = [pc EXCEPT ![o] = "won"]
     ELSE /\ pc' = [pc EXCEPT ![o] = "lost"]
          /\ UNCHANGED <<store, left>>
  /\ UNCHANGED <<callVars, managerVars, detectorVars, stale, faults, lapsed>>

\* tryAcquire rejects: the command got lost before, or its answer after it
\* was executed.  acquire() rethrows at once.
TryAcquireError(o) ==
  /\ pc[o] = "trying"
  /\ \/ UNCHANGED <<store, left>>
     \/ /\ store[key[o]] = Nobody
        /\ store' = [store EXCEPT ![key[o]] = o]
        /\ \E ttl \in 1..MaxTtl : left' = [left EXCEPT ![key[o]] = ttl]
  /\ EndCall(o, "failed")
  /\ Fault
  /\ UNCHANGED <<callVars, managerVars, detectorVars, stale, lapsed>>

\* The answer to a won attempt arrives: clear the wait, book the lock.
Acquired(o) ==
  /\ pc[o] = "won"
  /\ waitsFor' = ClearWait(o, waitsFor)
  /\ heldByOwner' = [heldByOwner EXCEPT ![OwnManager(o)] = heldByOwner[OwnManager(o)] \cup {o}]
  /\ heldScopes' = [heldScopes EXCEPT
                      ![OwnManager(o)] = heldScopes[OwnManager(o)] \cup {ScopeOf[key[o]]}]
  /\ holders' = [holders EXCEPT ![OwnProcess(o)] = [holders[OwnProcess(o)] EXCEPT ![key[o]] = o]]
  /\ EndCall(o, "held")
  /\ UNCHANGED <<backendVars, callVars, stale, faults>>

\* Mutation: one attempt too many.
ContendedOffByOne(o) ==
  /\ pc[o] = "lost"
  /\ IF attempts[o] > MaxAttempts
     THEN /\ EndCall(o, "failed")
          /\ waitsFor' = ClearWait(o, DeclareWait(o))
     ELSE /\ pc' = [pc EXCEPT ![o] = "trying"]
          /\ waitsFor' = DeclareWait(o)
          /\ UNCHANGED attempts
  /\ UNCHANGED <<backendVars, callVars, managerVars, holders, stale, faults>>

\* The answer to a lost attempt arrives: declare the wait, then give up
\* (deadlock found, or attempts used up) or sleep and try again.
Contended(o) ==
  /\ pc[o] = "lost"
  /\ IF ClosesCycle(o)
     THEN /\ EndCall(o, "deadlock")
          /\ waitsFor' = waitsFor
     ELSE IF attempts[o] >= MaxAttempts
     THEN /\ EndCall(o, "failed")
          /\ waitsFor' = ClearWait(o, DeclareWait(o))
     ELSE /\ pc' = [pc EXCEPT ![o] = "trying"]
          /\ waitsFor' = DeclareWait(o)
          /\ UNCHANGED attempts
  /\ UNCHANGED <<backendVars, callVars, managerVars, holders, stale, faults>>

\* Mutation: the entry is deleted whoever owns it.
BackendReleaseUnchecked(o) ==
  /\ store' = [store EXCEPT ![key[o]] = Nobody]
  /\ left' = [left EXCEPT ![key[o]] = 0]

\* release(): the backend deletes the entry only if it still holds the token.
BackendRelease(o) ==
  IF store[key[o]] = o
  THEN /\ store' = [store EXCEPT ![key[o]] = Nobody]
       /\ left' = [left EXCEPT ![key[o]] = 0]
  ELSE UNCHANGED <<store, left>>

Release(o) ==
  /\ pc[o] = "held" /\ Pending(task[o]) = {}
  /\ o \in heldByOwner[OwnManager(o)]
  /\ BackendRelease(o)
  /\ pc' = [pc EXCEPT ![o] = "releasing"]
  /\ UNCHANGED <<callVars, attempts, managerVars, detectorVars, stale, faults, lapsed>>

\* The release command is lost; the manager forgets the lock all the same.
ReleaseError(o) ==
  /\ pc[o] = "held" /\ Pending(task[o]) = {}
  /\ o \in heldByOwner[OwnManager(o)]
  /\ pc' = [pc EXCEPT ![o] = "releasing"]
  /\ Fault
  /\ UNCHANGED <<backendVars, callVars, attempts, managerVars, detectorVars, stale>>

Released(o) ==
  /\ pc[o] = "releasing"
  /\ ForgetLocal(o)
  /\ pc' = [pc EXCEPT ![o] = "done"]
  /\ UNCHANGED <<backendVars, callVars, attempts, stale, faults>>

\* release() of a token that recovery has already forgotten: returns false.
ReleaseUnknownOwner(o) ==
  /\ pc[o] = "held" /\ Pending(task[o]) = {}
  /\ o \notin heldByOwner[OwnManager(o)]
  /\ pc' = [pc EXCEPT ![o] = "done"]
  /\ UNCHANGED <<backendVars, callVars, attempts, managerVars, detectorVars, stale, faults>>

\* extend(): a new time to live, only while the backend holds the token.
Extend(o) ==
  /\ pc[o] = "held" /\ Pending(task[o]) = {}
  /\ o \in heldByOwner[OwnManager(o)]
  /\ store[key[o]] = o
  /\ \E ttl \in 1..MaxTtl : left' = [left EXCEPT ![key[o]] = ttl]
  /\ UNCHANGED <<store, pc, callVars, attempts, managerVars, detectorVars, stale, faults, lapsed>>

\* Mutation: every tracked token is taken for stale.
RecoverInspectAny(o) ==
  /\ o \notin stale
  /\ pc[o] \in {"held", "releasing"} /\ o \in heldByOwner[OwnManager(o)]
  /\ stale' = stale \cup {o}
  /\ UNCHANGED <<backendVars, callVars, attempts, pc, managerVars, detectorVars, faults>>

\* recoverStaleHolds() inspects the key of a tracked token; the answer is
\* acted upon later.
RecoverInspect(o) ==
  /\ o \notin stale
  /\ pc[o] \in {"held", "releasing"} /\ o \in heldByOwner[OwnManager(o)]
  /\ store[key[o]] # o
  /\ stale' = stale \cup {o}
  /\ UNCHANGED <<backendVars, callVars, attempts, pc, managerVars, detectorVars, faults>>

RecoverForget(o) ==
  /\ o \in stale
  /\ ForgetLocal(o)
  /\ stale' = stale \ {o}
  /\ UNCHANGED <<backendVars, callVars, attempts, pc, faults>>

\* A process dies: its managers and its detector are gone, its entries in
\* the backend stay until they expire.
Crash(x) ==
  /\ \E o \in Owner : pc[o] \in Acquiring \cup {"held", "releasing"} /\ OwnProcess(o) = x
  /\ pc' = [o \in Owner |->
              IF /\ pc[o] \in Acquiring \cup {"held", "releasing"}
                 /\ OwnProcess(o) = x
              THEN "crashed" ELSE pc[o]]
  /\ heldByOwner' = [y \in Manager |->
                       IF ProcessOf[y] = x THEN {} ELSE heldByOwner[y]]
  /\ heldScopes' = [y \in Manager |->
                      IF ProcessOf[y] = x THEN {} ELSE heldScopes[y]]
  /\ holders' = [holders EXCEPT ![x] = [k \in Key |-> Nobody]]
  /\ waitsFor' = {e \in waitsFor : OwnProcess(e[1]) # x}
  /\ stale' = {o \in stale : OwnProcess(o) # x}
  /\ attempts' = [o \in Owner |-> IF pc'[o] = "crashed" THEN 0 ELSE attempts[o]]
  /\ Fault
  /\ UNCHANGED <<backendVars, callVars>>

\* Mutation: entries never expire.
TickWithoutExpiry ==
  /\ \E k \in Key : left[k] > 1
  /\ left' = [k \in Key |-> IF left[k] > 1 THEN left[k] - 1 ELSE left[k]]
  /\ UNCHANGED <<store, lapsed, pc, callVars, attempts, managerVars, detectorVars, stale, faults>>

\* The clock advances; entries with no time left disappear.
Tick ==
  /\ \E k \in Key : store[k] # Nobody
  /\ left' = [k \in Key |-> IF left[k] > 0 THEN left[k] - 1 ELSE 0]
  /\ store' = [k \in Key |-> IF left[k] <= 1 THEN Nobody ELSE store[k]]
  /\ lapsed' = lapsed \cup {o \in Owner : /\ pc[o] \in {"won", "held"}
                                          /\ store[key[o]] = o
                                          /\ left[key[o]] <= 1}
  /\ UNCHANGED <<pc, callVars, attempts, managerVars, detectorVars, stale, faults>>

OwnerStep(o) ==
  \/ TryAcquire(o) \/ TryAcquireError(o) \/ Acquired(o) \/ Contended(o)
  \/ Release(o) \/ ReleaseError(o) \/ Released(o) \/ ReleaseUnknownOwner(o)
  \/ Extend(o) \/ RecoverInspect(o) \/ RecoverForget(o)

Next ==
  \/ \E t \in Task, k \in Key : Acquire(t, k)
  \/ \E o \in Owner : OwnerStep(o)
  \/ \E x \in Process : Crash(x)
  \/ Tick

\* Timers fire, answers arrive, and the clock of the backend runs.
Fairness ==
  /\ \A o \in Owner : WF_vars(TryAcquire(o) \/ TryAcquireError(o))
  /\ \A o \in Owner : WF_vars(Acquired(o) \/ Contended(o))
  /\ WF_vars(Tick)

Spec == Init /\ [][Next]_vars
FairSpec == Spec /\ Fairness
-----------------------------------------------------------------------------
(* Properties *)

TypeOK ==
  /\ store \in [Key -> Owner \cup {Nobody}]
  /\ left \in [Key -> 0..MaxTtl]
  /\ issued \in 0..MaxOwners
  /\ task \in [Owner -> Task \cup {None}]
  /\ key \in [Owner -> Key \cup {None}]
  /\ pc \in [Owner -> State]
  /\ attempts \in [Owner -> 0..MaxAttempts]
  /\ heldByOwner \in [Manager -> SUBSET Owner]
  /\ heldScopes \in [Manager -> SUBSET Scope]
  /\ holders \in [Process -> [Key -> Owner \cup {Nobody}]]
  /\ waitsFor \subseteq Owner \X Owner
  /\ stale \subseteq Owner
  /\ faults \in 0..MaxFaults
  /\ lapsed \subseteq Owner

\* A handle whose time to live has not run out owns its key in the backend,
\* from the moment the backend granted it until its own release: no release,
\* recovery or late answer of another token can take the entry away.  Hence
\* two unexpired handles never share a key.
HeldMeansOwned ==
  \A o \in Owner :
    pc[o] \in {"won", "held"} /\ o \notin lapsed => store[key[o]] = o

\* What a process tracks of its locks agrees: the manager's heldScopes, which
\* the order check reads, are exactly the scopes of the tokens it tracks, and
\* the detector names as holder, or as the target of a wait, only a token
\* that a manager of the process still tracks.
TrackingAgrees ==
  /\ \A x \in Manager : heldScopes[x] = ScopesOf(heldByOwner[x])
  /\ \A x \in Process, k \in Key :
       holders[x][k] # Nobody =>
         \E y \in Manager : ProcessOf[y] = x /\ holders[x][k] \in heldByOwner[y]
  /\ \A e \in waitsFor : e[2] \in heldByOwner[OwnManager(e[2])]

\* acquire() never fails with the code DEADLOCK: a token is drawn per call, a
\* call that is still waiting holds nothing, so the wait-for graph has no edge
\* into a waiter and the branch of lockManager.js that reports a cycle is
\* never taken.
NoDeadlockReport == \A o \in Owner : pc[o] # "deadlock"

\* Locks are taken in descending rank: whatever a task asks for or has got,
\* its rank does not exceed that of a lock the task took earlier and its
\* manager still tracks.
RankOrder ==
  \A a, b \in Owner :
    /\ a < b /\ pc[b] \in Acquiring \cup {"held", "releasing"}
    /\ task[a] = task[b] /\ a \in heldByOwner[OwnManager(a)]
    => Rank(key[b]) <= Rank(key[a])

\* The rank order of scopes excludes inversion deadlocks: when two tasks wait
\* for each other, each for a key the other one tracks as held, both keys have
\* the same rank.  (Waits among keys of one rank are left to the timeout.)
WaitsWhileHolding(a, b) ==
  /\ task[a] = task[b] /\ task[a] # None
  /\ pc[a] = "held" /\ a \in heldByOwner[OwnManager(a)]
  /\ pc[b] \in Acquiring

NoInversionDeadlock ==
  \A a, b, c, d \in Owner :
    /\ WaitsWhileHolding(a, b) /\ WaitsWhileHolding(c, d)
    /\ key[b] = key[c] /\ key[d] = key[a]
    => Rank(key[a]) = Rank(key[b])

\* recoverStaleHolds() acts on an answer that may be old by then, yet it never
\* drops a token that owns its key.
RecoveryIsSafe ==
  [][\A o \in Owner : RecoverForget(o) => store[key[o]] # o]_vars

\* Every call of acquire() ends, with the lock or with an error, even when
\* tasks wait for each other.
AcquireEnds == \A o \in Owner : pc[o] = "trying" ~> pc[o] \notin Acquiring

\* An entry nobody will release (its process crashed, its release was lost, or
\* the answer to the attempt was lost) does not block the key for ever.
OrphanExpires ==
  \A o \in Owner, k \in Key :
    store[k] = o /\ pc[o] \in {"crashed", "done", "failed"} ~> store[k] # o
=============================================================================
