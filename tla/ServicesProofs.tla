--------------------------- MODULE ServicesProofs ---------------------------
(***************************************************************************)
(* Safety of the services: first each by itself, for every value of its    *)
(* constants, then the two properties of the module Services, which        *)
(* combine them.                                                           *)
(***************************************************************************)
EXTENDS Services, Sequences, FiniteSetTheorems, SequenceTheorems, TLAPS

-----------------------------------------------------------------------------
(* The idempotency middleware *)

KeysTypes ==
  /\ rec \in [Keys!Store -> Request \cup {Empty, Sentinel}]
  /\ current \in Keys!Store
  /\ requestPc \in [Request -> Keys!Pc]
  /\ seen \in [Request -> Request \cup {Empty, Sentinel}]
  /\ overran \in BOOLEAN
  /\ flips \in Nat /\ recordLapses \in Nat

\* As long as Redis is there, nothing is in the memory of the process.
KeysCurrent == flips = 0 => current = "redis" /\ rec["memory"] = Empty

\* While the record is neither lost nor overwritten unseen, it shows what
\* happened to the key: the sentinel, if a handler is at work or was lost, and
\* then there is only one; or the response of the only request that was stored.
Working == {"running", "storing", "clearing", "lost"}
KeysRecord ==
  flips = 0 /\ recordLapses = 0 /\ ~overran =>
    /\ \A i \in Request : requestPc[i] \in Working => rec["redis"] = Sentinel
    /\ \A i, j \in Request : requestPc[i] \in Working /\ requestPc[j] \in Working => i = j
    /\ \A i \in Request : requestPc[i] = "stored" => rec["redis"] = i

KeysInv ==
  /\ KeysTypes /\ KeysCurrent /\ KeysRecord
  /\ Keys!ReplayIsGenuine /\ Keys!SentinelHasRunner

LEMMA KeysInit == ASSUME KeysAssumption, Keys!Init PROVE KeysInv
  BY DEF KeysAssumption, Keys!Init, KeysInv, KeysTypes, KeysCurrent, KeysRecord,
     Keys!ReplayIsGenuine, Keys!SentinelHasRunner, Keys!Store, Keys!Pc, Working

\* Every step of the middleware keeps the invariant.
LEMMA KeysStep ==
  ASSUME KeysAssumption, KeysInv, [Keys!Next]_Keys!vars
  PROVE  KeysInv'
<1> USE DEF KeysAssumption, KeysInv, KeysTypes, Keys!Store, Keys!Pc
<1> DEFINE Rest == KeysCurrent /\ KeysRecord /\ Keys!ReplayIsGenuine
                   /\ Keys!SentinelHasRunner
<1>0. CASE UNCHANGED Keys!vars
  BY <1>0 DEF Keys!vars, KeysCurrent, KeysRecord, Keys!ReplayIsGenuine,
     Keys!SentinelHasRunner
<1>1. ASSUME NEW i \in Request, Keys!Read(i)
      PROVE  KeysInv'
  <2>1. KeysTypes'
    BY <1>1 DEF Keys!Read, Keys!counters
  <2>2. Rest'
    BY <1>1 DEF Keys!Read, Keys!counters, KeysCurrent, KeysRecord, Working,
       Keys!ReplayIsGenuine, Keys!SentinelHasRunner
  <2> QED BY <2>1, <2>2
<1>2. ASSUME NEW i \in Request, Keys!Conflict(i)
      PROVE  KeysInv'
  BY <1>2 DEF Keys!Conflict, Keys!counters, KeysCurrent, KeysRecord, Working,
     Keys!ReplayIsGenuine, Keys!SentinelHasRunner
<1>3. ASSUME NEW i \in Request, Keys!Replay(i)
      PROVE  KeysInv'
  BY <1>3 DEF Keys!Replay, Keys!counters, KeysCurrent, KeysRecord, Working,
     Keys!ReplayIsGenuine, Keys!SentinelHasRunner
<1>4. ASSUME NEW i \in Request, Keys!Mark(i)
      PROVE  KeysInv'
  <2>1. KeysTypes'
    BY <1>4 DEF Keys!Mark, Keys!counters
  <2>2. KeysCurrent' /\ Keys!ReplayIsGenuine' /\ Keys!SentinelHasRunner'
    BY <1>4 DEF Keys!Mark, Keys!counters, KeysCurrent, Keys!ReplayIsGenuine,
       Keys!SentinelHasRunner
  <2>3. KeysRecord'
    BY <1>4 DEF Keys!Mark, Keys!counters, KeysCurrent, KeysRecord, Working
  <2> QED BY <2>1, <2>2, <2>3
<1>5. ASSUME NEW i \in Request, Keys!Respond(i)
      PROVE  KeysInv'
  BY <1>5 DEF Keys!Respond, Keys!counters, KeysCurrent, KeysRecord, Working,
     Keys!ReplayIsGenuine, Keys!SentinelHasRunner
<1>6. ASSUME NEW i \in Request, Keys!Crash(i)
      PROVE  KeysInv'
  BY <1>6 DEF Keys!Crash, KeysCurrent, KeysRecord, Working,
     Keys!ReplayIsGenuine, Keys!SentinelHasRunner
<1>7. ASSUME NEW i \in Request, Keys!StoreResponse(i)
      PROVE  KeysInv'
  <2>1. KeysTypes'
    BY <1>7 DEF Keys!StoreResponse, Keys!counters
  <2>2. KeysCurrent' /\ Keys!ReplayIsGenuine' /\ Keys!SentinelHasRunner'
    BY <1>7 DEF Keys!StoreResponse, Keys!counters, KeysCurrent,
       Keys!ReplayIsGenuine, Keys!SentinelHasRunner
  <2>3. KeysRecord'
    BY <1>7 DEF Keys!StoreResponse, Keys!counters, KeysCurrent, KeysRecord,
       Working
  <2> QED BY <2>1, <2>2, <2>3
<1>8. ASSUME NEW i \in Request, Keys!ClearSentinel(i)
      PROVE  KeysInv'
  <2>1. KeysTypes'
    BY <1>8 DEF Keys!ClearSentinel, Keys!counters
  <2>2. KeysCurrent' /\ Keys!ReplayIsGenuine' /\ Keys!SentinelHasRunner'
    BY <1>8 DEF Keys!ClearSentinel, Keys!counters, KeysCurrent,
       Keys!ReplayIsGenuine, Keys!SentinelHasRunner
  <2>3. KeysRecord'
    BY <1>8 DEF Keys!ClearSentinel, Keys!counters, KeysCurrent, KeysRecord,
       Working
  <2> QED BY <2>1, <2>2, <2>3
<1>9. CASE Keys!Flip
  BY <1>9 DEF Keys!Flip, KeysCurrent, KeysRecord, Working,
     Keys!ReplayIsGenuine, Keys!SentinelHasRunner
<1>10. ASSUME NEW s \in Keys!Store, Keys!Expire(s)
       PROVE  KeysInv'
  BY <1>10 DEF Keys!Expire, KeysCurrent, KeysRecord, Working,
     Keys!ReplayIsGenuine, Keys!SentinelHasRunner
<1> QED
  BY <1>0, <1>1, <1>2, <1>3, <1>4, <1>5, <1>6, <1>7, <1>8, <1>9, <1>10
  DEF Keys!Next, Keys!Handle

\* The record of a key and the requests under way agree (idempotency).
THEOREM KeysInvariance == ASSUME KeysAssumption PROVE Keys!Spec => []KeysInv
<1>1. Keys!Init => KeysInv
  BY KeysInit
<1>2. KeysInv /\ [Keys!Next]_Keys!vars => KeysInv'
  BY KeysStep
<1> QED BY <1>1, <1>2, PTL DEF Keys!Spec

\* Only the response of a request that succeeded is ever replayed
\* (readRecord, writeRecord).
THEOREM OnlyGenuineReplays ==
  ASSUME KeysAssumption
  PROVE  Keys!Spec => []Keys!ReplayIsGenuine
<1>1. KeysInv => Keys!ReplayIsGenuine
  BY DEF KeysInv
<1> QED BY <1>1, KeysInvariance, PTL

\* One key, one success, as long as the middleware keeps its record.
LEMMA KeysOneSuccess == ASSUME KeysAssumption, KeysInv PROVE Keys!OneSuccess
  BY DEF KeysAssumption, KeysInv, KeysTypes, KeysRecord, Working, Keys!Pc,
     Keys!OneSuccess, Keys!Succeeded

\* Of the handlers behind one key only one succeeds (idempotency).
THEOREM OneHandlerSucceeds ==
  ASSUME KeysAssumption
  PROVE  Keys!Spec => []Keys!OneSuccess
<1>1. KeysInv => Keys!OneSuccess
  BY KeysOneSuccess
<1> QED BY <1>1, KeysInvariance, PTL

\* Who is answered 409 is told so because of a handler that is still to respond,
\* or was lost (idempotency, deleteRecord).
THEOREM SentinelIsAnswered ==
  ASSUME KeysAssumption
  PROVE  Keys!Spec => []Keys!SentinelHasRunner
<1>1. KeysInv => Keys!SentinelHasRunner
  BY DEF KeysInv
<1> QED BY <1>1, KeysInvariance, PTL

-----------------------------------------------------------------------------
(* The two level cache *)

Message == [keys : BOOLEAN, floor : Nat]

CacheTypes ==
  /\ db \in Nat \ {0} /\ l2 \in Nat
  /\ l1 \in [Process -> Nat] /\ base \in [Process -> Nat]
  /\ inflight \in [Process -> Reader \cup {Nil}]
  /\ rpc \in [Reader -> Cache!ReaderPc] /\ rval \in [Reader -> Nat]
  /\ ppc \in [Purger -> Cache!PurgerPc]
  /\ floor \in [Purger -> Nat]
  /\ channel \in [Process -> Seq(Message)]

\* Who is to be shared is in flight, and has its value only once it is fetched.
CacheFlights ==
  /\ \A r \in Reader :
       /\ rpc[r] \in {"fetching", "fetched"} <=> inflight[ProcOf[r]] = r
       /\ rpc[r] \in {"idle", "asking", "fetching", "indexing"} => rval[r] = 0
  /\ \A p \in Process : inflight[p] # Nil => ProcOf[inflight[p]] = p

\* Nothing older than the version f is in Redis or on its way to a process.
Purged(f) ==
  /\ f <= db /\ (l2 # 0 => l2 >= f)
  /\ \A r \in Reader : rval[r] # 0 => rval[r] >= f

\* A purge has no version to answer for before it has scanned Redis; the
\* message of a purge that has one names the key.
CacheFloors ==
  /\ \A u \in Purger : floor[u] <= db
  /\ \A u \in Purger : ppc[u] \notin {"idle", "scan"} => Purged(floor[u])
  /\ \A p \in Process : \A i \in 1..Len(channel[p]) :
       /\ Purged(channel[p][i].floor)
       /\ channel[p][i].floor # 0 => channel[p][i].keys
  /\ \A p \in Process : Purged(base[p])

CacheInv ==
  CacheTypes /\ CacheFlights /\ CacheFloors /\ Cache!PurgeReachesOthers

LEMMA CacheInit == ASSUME CacheAssumption, Cache!Init PROVE CacheInv
<1> USE DEF Cache!Init, CacheAssumption
<1>1. CacheTypes
  BY DEF CacheTypes, Cache!ReaderPc, Cache!PurgerPc
<1>2. CacheFlights /\ CacheFloors /\ Cache!PurgeReachesOthers
  BY DEF CacheFlights, CacheFloors, Purged, Cache!PurgeReachesOthers
<1> QED BY <1>1, <1>2 DEF CacheInv

\* What is purged stays so as long as only newer versions arrive.
LEMMA PurgedStays ==
  ASSUME CacheTypes, CacheTypes', NEW f \in Nat, Purged(f), db <= db',
         l2' = 0 \/ l2' = l2 \/ \E r \in Reader : l2' = rval[r],
         \A r \in Reader : rval'[r] \in {0, rval[r], l2, db}
  PROVE  Purged(f)'
<1> USE DEF CacheTypes, Purged
<1>1. f <= db'
  OBVIOUS
<1>2. l2' # 0 => l2' >= f
  OBVIOUS
<1>3. ASSUME NEW r \in Reader, rval'[r] # 0
      PROVE  rval'[r] >= f
  BY <1>3
<1> QED BY <1>1, <1>2, <1>3

\* The steps of a get(), of the environment and of a lost message.
LEMMA CacheReadStep ==
  ASSUME CacheAssumption, CacheInv, NEW r \in Reader, Cache!Read(r)
  PROVE  CacheInv'
<1> USE DEF CacheInv, CacheTypes, Cache!ReaderPc, Cache!PurgerPc,
            Cache!purgeVars, Cache!dataVars, Cache!localVars, Cache!tagVars
<1>p. ProcOf[r] \in Process /\ r # Nil
  BY DEF CacheAssumption
<1>1. CacheTypes' /\ CacheFlights' /\ Cache!PurgeReachesOthers'
  <2>1. CASE Cache!Get(r)
    BY <2>1, <1>p DEF Cache!Get, CacheFlights, Cache!PurgeReachesOthers
  <2>2. CASE Cache!AskL2(r)
    BY <2>2, <1>p DEF Cache!AskL2, CacheFlights, Cache!PurgeReachesOthers
  <2>3. CASE Cache!FillFromL2(r)
    <3>1. Purged(base[ProcOf[r]])
      BY <1>p DEF CacheFloors
    <3>2. rpc'[r] \in {"indexing", "idle"} /\ \A q \in Reader \ {r} : rpc'[q] = rpc[q]
      BY <2>3 DEF Cache!FillFromL2, Cache!Fill
    <3>3. CacheTypes'
      BY <2>3 DEF Cache!FillFromL2, Cache!Fill
    <3>4. CacheFlights'
      BY <2>3, <3>2 DEF Cache!FillFromL2, Cache!Fill, CacheFlights
    <3>5. Cache!PurgeReachesOthers'
      BY <2>3, <3>1, <1>p DEF Cache!FillFromL2, Cache!Fill, Purged,
         Cache!PurgeReachesOthers
    <3> QED BY <3>3, <3>4, <3>5
  <2>4. CASE Cache!Share(r)
    BY <2>4, <1>p DEF Cache!Share, CacheFlights, Cache!PurgeReachesOthers
  <2>5. CASE Cache!Fetch(r)
    <3>1. CacheTypes' /\ Cache!PurgeReachesOthers'
      BY <2>5, <1>p DEF Cache!Fetch, Cache!PurgeReachesOthers
    <3>2. CacheFlights'
      BY <2>5, <1>p, CacheAssumption DEF Cache!Fetch, CacheFlights, CacheAssumption
    <3> QED BY <3>1, <3>2
  <2>6. CASE Cache!ReadSource(r)
    BY <2>6, <1>p DEF Cache!ReadSource, CacheFlights, Cache!PurgeReachesOthers
  <2>7. CASE Cache!Fetched(r)
    <3>1. Purged(base[ProcOf[r]])
      BY <1>p DEF CacheFloors
    <3>2. rpc'[r] = "storing" /\ \A q \in Reader \ {r} : rpc'[q] = rpc[q]
      BY <2>7 DEF Cache!Fetched, Cache!Fill
    <3>3. CacheTypes'
      BY <2>7, <1>p DEF Cache!Fetched, Cache!Fill
    <3>4. CacheFlights'
      BY <2>7, <3>2, <1>p, CacheAssumption DEF Cache!Fetched, Cache!Fill,
         CacheFlights, CacheAssumption
    <3>5. Cache!PurgeReachesOthers'
      BY <2>7, <3>1, <1>p DEF Cache!Fetched, Cache!Fill, Purged,
         Cache!PurgeReachesOthers
    <3> QED BY <3>3, <3>4, <3>5
  <2>8. CASE Cache!FetchFails(r)
    <3>1. CacheTypes' /\ Cache!PurgeReachesOthers'
      BY <2>8, <1>p DEF Cache!FetchFails, Cache!PurgeReachesOthers
    <3>2. CacheFlights'
      BY <2>8, <1>p, CacheAssumption DEF Cache!FetchFails, CacheFlights, CacheAssumption
    <3> QED BY <3>1, <3>2
  <2>9. CASE Cache!StoreL2(r)
    BY <2>9, <1>p DEF Cache!StoreL2, CacheFlights, Cache!PurgeReachesOthers
  <2>10. CASE Cache!Index(r)
    BY <2>10, <1>p DEF Cache!Index, CacheFlights, Cache!PurgeReachesOthers
  <2> QED BY <2>1, <2>2, <2>3, <2>4, <2>5, <2>6, <2>7, <2>8, <2>9, <2>10
          DEF Cache!Read
<1>2. /\ db' = db /\ UNCHANGED <<base, ppc, floor, channel>>
      /\ l2' = l2 \/ l2' = rval[r]
      /\ \A q \in Reader : rval'[q] \in {0, rval[q], l2, db}
  BY DEF Cache!Read, Cache!Get, Cache!AskL2, Cache!FillFromL2, Cache!Share,
     Cache!Fetch, Cache!ReadSource, Cache!Fetched, Cache!FetchFails,
     Cache!StoreL2, Cache!Index, Cache!Fill
<1>3. \A f \in Nat : Purged(f) => Purged(f)'
  <2>1. db <= db' /\ CacheTypes /\ CacheTypes'
    BY <1>1, <1>2
  <2>2. l2' = 0 \/ l2' = l2 \/ \E q \in Reader : l2' = rval[q]
    BY <1>2
  <2> HIDE DEF CacheInv, CacheTypes
  <2> QED BY <1>2, <2>1, <2>2, PurgedStays
<1>4. CacheFloors'
  <2>1. \A p \in Process : \A i \in 1..Len(channel[p]) : channel[p][i] \in Message
    OBVIOUS
  <2> QED BY <1>2, <1>3, <2>1 DEF CacheFloors, Message
<1> QED BY <1>1, <1>4

LEMMA CachePurgeStep ==
  ASSUME CacheAssumption, CacheInv, NEW u \in Purger, Cache!Invalidate(u)
  PROVE  CacheInv'
<1> USE DEF CacheInv, CacheTypes, Cache!ReaderPc, Cache!PurgerPc,
            Cache!getVars, Cache!dataVars, Cache!localVars, Cache!tagVars
<1>p. ProcOf[u] \in Process
  BY DEF CacheAssumption
<1>f. \A r \in Reader : ProcOf[r] \in Process
  BY DEF CacheAssumption
<1>1. CASE Cache!Purge(u)
  <2>1. CacheTypes'
    BY <1>1, <1>p DEF Cache!Purge, Cache!Drop
  <2>2. CacheFlights' /\ Cache!PurgeReachesOthers'
    BY <1>1 DEF Cache!Purge, Cache!Drop, CacheFlights,
       Cache!PurgeReachesOthers
  <2>3. CacheFloors'
    BY <1>1 DEF Cache!Purge, CacheFloors, Purged
  <2> QED BY <2>1, <2>2, <2>3
<1>2. CASE Cache!Scan(u)
  <2>1. CacheTypes'
    BY <1>2 DEF Cache!Scan
  <2>2. CacheFlights' /\ Cache!PurgeReachesOthers'
    BY <1>2 DEF Cache!Scan, CacheFlights, Cache!PurgeReachesOthers
  <2>3. \A f \in Nat : Purged(f) => Purged(f)'
    BY <1>2 DEF Cache!Scan, Purged
  <2>4. Purged(floor[u])'
    BY <1>2, <2>1 DEF Cache!Scan, Purged, CacheFlights, CacheFloors
  <2>5. CacheFloors'
    <3>1. \A p \in Process : \A i \in 1..Len(channel[p]) :
            channel[p][i] \in Message
      OBVIOUS
    <3>2. /\ floor' = [floor EXCEPT ![u] = floor'[u]] /\ floor'[u] \in {floor[u], 0}
          /\ ppc' = [ppc EXCEPT ![u] = "members"]
          /\ UNCHANGED <<db, channel, base>>
      BY <1>2, <2>1 DEF Cache!Scan
    <3>3. \A v \in Purger : /\ floor'[v] <= db'
                            /\ ppc'[v] \notin {"idle", "scan"} => Purged(floor[v])'
      BY <2>3, <2>4, <3>2 DEF CacheFloors, Purged
    <3>4. \A p \in Process : Purged(base[p])'
      BY <2>3, <3>2 DEF CacheFloors, Purged
    <3>5. \A p \in Process : \A i \in 1..Len(channel'[p]) :
            /\ Purged(channel[p][i].floor)'
            /\ channel'[p][i].floor # 0 => channel'[p][i].keys
      BY <2>3, <3>1, <3>2 DEF CacheFloors, Purged, Message
    <3> QED BY <3>3, <3>4, <3>5 DEF CacheFloors
  <2> QED BY <2>1, <2>2, <2>5
<1>3. CASE Cache!Members(u)
  <2>1. CacheTypes'
    <3>1. \/ /\ l1' = [l1 EXCEPT ![ProcOf[u]] = 0]
             /\ ppc' = [ppc EXCEPT ![u] = "delete"]
          \/ /\ l1' = l1 /\ ppc' = [ppc EXCEPT ![u] = "untag"]
      BY <1>3 DEF Cache!Members, Cache!Drop
    <3>2. UNCHANGED <<db, l2, base, inflight, rpc, rval, floor, channel>>
      BY <1>3 DEF Cache!Members
    <3>3. l1' \in [Process -> Nat]
      <4>1. [l1 EXCEPT ![ProcOf[u]] = 0] \in [Process -> Nat]
        OBVIOUS
      <4> QED BY <3>1, <4>1
    <3>4. ppc' \in [Purger -> Cache!PurgerPc]
      <4>1. \A s \in Cache!PurgerPc :
              [ppc EXCEPT ![u] = s] \in [Purger -> Cache!PurgerPc]
        OBVIOUS
      <4> QED BY <3>1, <4>1
    <3> QED BY <3>2, <3>3, <3>4
  <2>2. CacheFlights' /\ Cache!PurgeReachesOthers'
    BY <1>3 DEF Cache!Members, Cache!Drop, CacheFlights,
       Cache!PurgeReachesOthers
  <2>3. CacheFloors'
    BY <1>3 DEF Cache!Members, CacheFloors, Purged
  <2> QED BY <2>1, <2>2, <2>3
<1>4. CASE Cache!DeleteKey(u)
  <2>1. CacheTypes' /\ CacheFlights' /\ Cache!PurgeReachesOthers'
    BY <1>4 DEF Cache!DeleteKey, CacheFlights, Cache!PurgeReachesOthers
  <2>2. CacheFloors'
    BY <1>4 DEF Cache!DeleteKey, CacheFloors, Purged
  <2> QED BY <2>1, <2>2
<1>5. CASE Cache!Untag(u)
  <2>1. CacheTypes' /\ CacheFlights' /\ Cache!PurgeReachesOthers'
    BY <1>5 DEF Cache!Untag, CacheFlights, Cache!PurgeReachesOthers
  <2>2. CacheFloors'
    BY <1>5 DEF Cache!Untag, CacheFloors, Purged
  <2> QED BY <2>1, <2>2
<1>6. CASE Cache!Publish(u)
  <2> DEFINE m == [keys |-> found[u] /\ ~batch[u],
                   floor |-> IF found[u] /\ ~batch[u] THEN floor[u] ELSE 0]
  <2>1. m \in Message /\ (m.floor # 0 => m.keys)
    BY DEF Message
  <2>2. channel' = [p \in Process |-> Append(channel[p], m)]
    BY <1>6 DEF Cache!Publish
  <2>3. Purged(m.floor)
    <3>1. m.floor = floor[u] \/ m.floor = 0
      OBVIOUS
    <3>2. Purged(floor[u])
      BY <1>6 DEF Cache!Publish, CacheFloors
    <3>3. Purged(0)
      BY DEF Purged
    <3> QED BY <3>1, <3>2, <3>3
  <2> HIDE DEF m
  <2>4. \A p \in Process : /\ Len(channel'[p]) = Len(channel[p]) + 1
                           /\ \A i \in 1..Len(channel'[p]) :
                                \/ i \in 1..Len(channel[p])
                                   /\ channel'[p][i] = channel[p][i]
                                \/ channel'[p][i] = m
    BY <2>1, <2>2
  <2>5. channel' \in [Process -> Seq(Message)]
    BY <2>1, <2>2
  <2>6. CacheTypes'
    BY <1>6, <2>5 DEF Cache!Publish
  <2>7. CacheFlights' /\ Cache!PurgeReachesOthers'
    BY <1>6 DEF Cache!Publish, CacheFlights, Cache!PurgeReachesOthers
  <2>8. UNCHANGED <<db, l2, rval, base>>
    BY <1>6 DEF Cache!Publish
  <2>9. \A f : Purged(f) => Purged(f)'
    BY <2>8 DEF Purged
  <2>10. /\ floor' = [floor EXCEPT ![u] = 0]
         /\ ppc' = [ppc EXCEPT ![u] = "idle"]
    BY <1>6 DEF Cache!Publish
  <2>11. CacheFloors'
    <3>1. \A p \in Process : \A i \in 1..Len(channel'[p]) :
            /\ Purged(channel[p][i].floor)'
            /\ channel'[p][i].floor # 0 => channel'[p][i].keys
      BY <2>1, <2>3, <2>4, <2>9 DEF CacheFloors, Purged
    <3>2. \A v \in Purger :
            /\ floor'[v] <= db'
            /\ ppc'[v] \notin {"idle", "scan"} => Purged(floor[v])'
      BY <2>8, <2>9, <2>10 DEF CacheFloors, Purged
    <3>3. \A p \in Process : Purged(base[p])'
      BY <2>8, <2>9 DEF CacheFloors, Purged
    <3> QED BY <3>1, <3>2, <3>3 DEF CacheFloors
  <2> QED BY <2>6, <2>7, <2>11
<1> QED BY <1>1, <1>2, <1>3, <1>4, <1>5, <1>6 DEF Cache!Invalidate

LEMMA CacheProcessStep ==
  ASSUME CacheAssumption, CacheInv, NEW p \in Process,
         Cache!L1Expires(p) \/ Cache!L1Evicts(p) \/ Cache!Apply(p) \/ Cache!Lose(p)
  PROVE  CacheInv'
<1> USE DEF CacheInv, CacheTypes, Cache!getVars, Cache!dataVars,
            Cache!localVars, Cache!tagVars, Cache!purgeVars
<1>1. CASE Cache!L1Expires(p) \/ Cache!L1Evicts(p)
  <2>1. /\ l1' = [l1 EXCEPT ![p] = 0]
        /\ UNCHANGED <<db, l2, base, inflight, rpc, rval, ppc, batch, found,
                       floor, channel>>
    BY <1>1 DEF Cache!L1Expires, Cache!L1Evicts, Cache!Drop
  <2> QED BY <2>1 DEF CacheFlights, CacheFloors, Purged,
             Cache!PurgeReachesOthers
<1>2. CASE Cache!Apply(p) \/ Cache!Lose(p)
  <2>1. /\ channel[p] # << >> /\ channel' = [channel EXCEPT ![p] = Tail(@)]
        /\ UNCHANGED <<db, l2, inflight, rpc, rval, ppc, batch, found, floor>>
    BY <1>2 DEF Cache!Apply, Cache!Lose
  <2>2. channel[p] \in Seq(Message) /\ 1 \in 1..Len(channel[p])
    BY <2>1
  <2>3. /\ Head(channel[p]) = channel[p][1] /\ channel[p][1] \in Message
        /\ Tail(channel[p]) \in Seq(Message)
        /\ \A i \in 1..Len(Tail(channel[p])) :
             /\ i + 1 \in 1..Len(channel[p])
             /\ Tail(channel[p])[i] = channel[p][i + 1]
    BY <2>1, <2>2
  <2>4. \A f : Purged(f) => Purged(f)'
    BY <2>1 DEF Purged
  <2>5. CASE Cache!Lose(p)
    <3>1. UNCHANGED <<l1, base>>
      BY <2>5 DEF Cache!Lose
    <3>2. CacheTypes' /\ CacheFlights' /\ Cache!PurgeReachesOthers'
      BY <2>1, <2>3, <3>1 DEF CacheFlights, Cache!PurgeReachesOthers
    <3>3. \A q \in Process : \A i \in 1..Len(channel'[q]) :
            /\ Purged(channel'[q][i].floor)
            /\ channel'[q][i].floor # 0 => channel'[q][i].keys
      <4> SUFFICES ASSUME NEW q \in Process, NEW i \in 1..Len(channel'[q])
                   PROVE  /\ Purged(channel'[q][i].floor)
                          /\ channel'[q][i].floor # 0 => channel'[q][i].keys
        OBVIOUS
      <4>1. CASE q # p
        BY <2>1, <4>1 DEF CacheFloors
      <4>2. CASE q = p
        <5>1. channel'[p] = Tail(channel[p])
          BY <2>1
        <5> QED BY <2>3, <4>2, <5>1 DEF CacheFloors
      <4> QED BY <4>1, <4>2
    <3>4. CacheFloors'
      BY <2>1, <2>4, <3>1, <3>3 DEF CacheFloors
    <3> QED BY <3>2, <3>4
  <2>6. CASE Cache!Apply(p)
    <3> DEFINE m == Head(channel[p])
    <3>1. m \in Message /\ Purged(m.floor) /\ (m.floor # 0 => m.keys)
      BY <2>2, <2>3 DEF CacheFloors
    <3>2. /\ base' = [base EXCEPT ![p] = IF m.floor > @ THEN m.floor ELSE @]
          /\ l1' = IF m.keys THEN [l1 EXCEPT ![p] = 0] ELSE l1
      BY <2>6 DEF Cache!Apply, Cache!Drop
    <3> HIDE DEF m
    <3>3. base' \in [Process -> Nat] /\ l1' \in [Process -> Nat]
      BY <3>1, <3>2 DEF Message
    <3>4. CacheTypes' /\ CacheFlights'
      BY <2>1, <2>3, <3>3 DEF CacheFlights
    <3>5. Cache!PurgeReachesOthers'
      BY <3>1, <3>2 DEF Message, Cache!PurgeReachesOthers
    <3>6. \A q \in Process : base'[q] = base[q] \/ base'[q] = m.floor
      BY <3>2
    <3>7. \A q \in Process : Purged(base[q])'
      BY <2>4, <3>1, <3>6 DEF CacheFloors, Purged
    <3>8. \A q \in Process : \A i \in 1..Len(channel'[q]) :
            /\ Purged(channel[q][i].floor)'
            /\ channel'[q][i].floor # 0 => channel'[q][i].keys
      BY <2>1, <2>3, <2>4 DEF CacheFloors, Purged
    <3>9. \A u \in Purger :
            /\ floor'[u] <= db'
            /\ ppc'[u] \notin {"idle", "scan"} => Purged(floor[u])'
      BY <2>1, <2>4 DEF CacheFloors, Purged
    <3>10. CacheFloors'
      BY <3>7, <3>8, <3>9 DEF CacheFloors
    <3> QED BY <3>4, <3>5, <3>10
  <2> QED BY <1>2, <2>5, <2>6
<1> QED BY <1>1, <1>2

LEMMA CacheStep ==
  ASSUME CacheAssumption, CacheInv, [Cache!Next]_Cache!vars
  PROVE  CacheInv'
<1>1. CASE UNCHANGED Cache!vars
  BY <1>1 DEF Cache!vars, CacheInv, CacheTypes, CacheFlights, CacheFloors,
     Purged, Cache!PurgeReachesOthers
<1>2. CASE Cache!Write
  <2> USE DEF CacheInv, CacheTypes, Cache!Write, Cache!localVars,
              Cache!getVars, Cache!tagVars, Cache!purgeVars
  <2>1. CacheTypes' /\ CacheFlights' /\ Cache!PurgeReachesOthers'
    BY <1>2 DEF CacheFlights, Cache!PurgeReachesOthers
  <2>2. \A f \in Nat : Purged(f) => Purged(f)'
    BY <1>2 DEF Purged
  <2>3. \A p \in Process : \A i \in 1..Len(channel[p]) : channel[p][i] \in Message
    OBVIOUS
  <2>4. \A u \in Purger : floor'[u] <= db'
    BY <1>2 DEF CacheFloors
  <2>5. CacheFloors'
    BY <1>2, <2>2, <2>3, <2>4 DEF CacheFloors, Message
  <2> QED BY <2>1, <2>5
<1>3. CASE Cache!L2Expires
  BY <1>3 DEF CacheInv, CacheTypes, CacheFlights, CacheFloors, Purged,
     Cache!PurgeReachesOthers, Cache!L2Expires, Cache!localVars,
     Cache!getVars, Cache!tagVars, Cache!purgeVars
<1> QED BY <1>1, <1>2, <1>3, CacheReadStep, CachePurgeStep, CacheProcessStep
        DEF Cache!Next

\* The levels, the fetches and the purges under way agree (MultiLevelCache.get,
\* CacheInvalidator).
THEOREM CacheInvariance == ASSUME CacheAssumption PROVE Cache!Spec => []CacheInv
<1>1. Cache!Init => CacheInv
  BY CacheInit
<1>2. CacheInv /\ [Cache!Next]_Cache!vars => CacheInv'
  BY CacheStep
<1> QED BY <1>1, <1>2, PTL DEF Cache!Spec

\* Once the message of a purge has been applied, no process ever answers from
\* its L1 with a version older than the purge (invalidateForLedgerEvent,
\* applyRemoteInvalidation), however many processes, readers and purgers.
THEOREM PurgesReachProcesses ==
  ASSUME CacheAssumption
  PROVE  Cache!Spec => []Cache!PurgeReachesOthers
<1>1. CacheInv => Cache!PurgeReachesOthers
  BY DEF CacheInv
<1> QED BY <1>1, CacheInvariance, PTL

\* A process fetches once for all its callers (get, `inflight`).
THEOREM OneFlight ==
  ASSUME CacheAssumption
  PROVE  Cache!Spec => []Cache!SingleFlight
<1>1. CacheInv => Cache!SingleFlight
  <2> SUFFICES ASSUME CacheInv, NEW p \in Process
               PROVE  {r \in Reader : ProcOf[r] = p /\ rpc[r] \in {"fetching", "fetched"}}
                        = {inflight[p]} \ {Nil}
    BY DEF Cache!SingleFlight
  <2> QED BY DEF CacheInv, CacheTypes, CacheFlights, CacheAssumption
<1> QED BY <1>1, CacheInvariance, PTL

-----------------------------------------------------------------------------
(* The compile service *)

JobsTypes ==
  /\ queue \in Seq(Job) /\ active \in Nat
  /\ jobPc \in [Job -> Jobs!Pc] /\ mode \in [Job -> Jobs!Mode]
  /\ result \in [Job -> Jobs!Result]
  /\ worker \in [Job -> 0..MaxWorkers] /\ posts \in [Job -> Nat]
  /\ idle \in Seq(1..MaxWorkers) /\ made = MaxWorkers
  /\ dead \subseteq 1..MaxWorkers /\ leaving \subseteq dead
  /\ lock \in [Source -> Job \cup {Nil}]
  /\ artifacts \subseteq built /\ lockLapses \in Nat

\* Each element of the sequence is there once.
Distinct(q) == \A i, k \in 1..Len(q) : q[i] = q[k] => i = k

\* The jobs that have a slot when jobPc is `now`.
UnderWay == {"starting", "locking", "sleeping", "running", "unlocking", "settling"}
Slotted(now) == {j \in Job : now[j] \in UnderWay}

\* A job is in the queue, once, until it has a slot; and every slot counts.
JobsSlots ==
  /\ Distinct(queue)
  /\ \A j \in Job : jobPc[j] = "queued" <=> \E i \in 1..Len(queue) : queue[i] = j
  /\ active = Cardinality(Slotted(jobPc)) /\ active <= MaxWorkers
  /\ queue # <<>> => active = MaxWorkers

LEMMA SlottedInFlight == ASSUME JobsTypes PROVE Jobs!InFlight = Slotted(jobPc)
  BY DEF JobsTypes, Jobs!InFlight, Slotted, UnderWay, Jobs!Pc, Jobs!Settled

LEMMA SlottedFinite ==
  ASSUME JobsAssumption, NEW now
  PROVE  IsFiniteSet(Slotted(now)) /\ Cardinality(Slotted(now)) \in Nat
<1>1. IsFiniteSet(Slotted(now))
  BY FS_Subset DEF JobsAssumption, Slotted
<1> QED BY <1>1, FS_CardinalityType

\* The first n jobs of a queue are n jobs.
LEMMA FirstJobs ==
  ASSUME JobsAssumption, NEW q \in Seq(Job), Distinct(q), NEW n \in 0..Len(q)
  PROVE  Cardinality({q[i] : i \in 1..n}) = n
<1> DEFINE T == {q[i] : i \in 1..n}
           f == [i \in 1..n |-> q[i]]
<1>1. IsFiniteSet(1..n) /\ Cardinality(1..n) = n
  BY FS_Interval
<1>2. f \in Bijection(1..n, T)
  <2>1. f \in [1..n -> T]
    OBVIOUS
  <2>2. \A i, k \in 1..n : f[i] = f[k] => i = k
    BY DEF Distinct
  <2>3. \A t \in T : \E i \in 1..n : f[i] = t
    OBVIOUS
  <2> QED
    BY <2>1, <2>2, <2>3
    DEF Bijection, Injection, Surjection, IsInjective
<1>3. ExistsBijection(1..n, T)
  BY <1>2 DEF ExistsBijection
<1> QED BY <1>1, <1>3, FS_Bijection

\* pump() leaves no job waiting beside a free slot, and counts those it gives.
LEMMA JobsPump ==
  ASSUME JobsAssumption,
         NEW q \in Seq(Job), Distinct(q), NEW now \in [Job -> Jobs!Pc],
         \A j \in Job : now[j] = "queued" <=> \E i \in 1..Len(q) : q[i] = j,
         NEW a \in Nat, a = Cardinality(Slotted(now)), a <= MaxWorkers,
         Jobs!Pump(q, a, now)
  PROVE  /\ queue' \in Seq(Job) /\ active' \in Nat
         /\ jobPc' \in [Job -> Jobs!Pc]
         /\ \A j \in Job : \/ jobPc'[j] = now[j]
                           \/ now[j] = "queued" /\ jobPc'[j] = "starting"
         /\ JobsSlots'
<1> DEFINE free == MaxWorkers - a
           n == IF Len(q) < free THEN Len(q) ELSE free
           T == {q[i] : i \in 1..n}
<1>1. n \in 0..Len(q) /\ n <= free /\ n \in Nat /\ (n = Len(q) \/ n = free)
  BY DEF JobsAssumption
<1>2. /\ queue' = SubSeq(q, n + 1, Len(q)) /\ active' = a + n
      /\ jobPc' = [j \in Job |-> IF \E i \in 1..n : q[i] = j THEN "starting"
                              ELSE now[j]]
  BY DEF Jobs!Pump
<1> HIDE DEF n
<1>3. /\ queue' \in Seq(Job) /\ Len(queue') = Len(q) - n
      /\ \A i \in 1..(Len(q) - n) : queue'[i] = q[n + i]
  <2>1. \A i \in (n + 1)..Len(q) : q[i] \in Job
    BY <1>1
  <2>2. n + 1 \in Int /\ Len(q) \in Int
    BY <1>1
  <2> QED BY <1>1, <1>2, <2>1, <2>2, SubSeqProperties
<1>4. \A j \in Job : (\E i \in 1..n : q[i] = j) => now[j] = "queued"
  BY <1>1
<1>5. /\ jobPc' \in [Job -> Jobs!Pc]
      /\ \A j \in Job : jobPc'[j] = IF \E i \in 1..n : q[i] = j THEN "starting"
                                 ELSE now[j]
  BY <1>2 DEF Jobs!Pc
<1>6. Distinct(queue')
  BY <1>1, <1>3 DEF Distinct
<1>7. ASSUME NEW j \in Job
      PROVE  jobPc'[j] = "queued" <=> \E i \in 1..Len(queue') : queue'[i] = j
  <2>1. CASE \E i \in 1..n : q[i] = j
    BY <1>1, <1>3, <1>5, <2>1 DEF Distinct
  <2>2. CASE ~\E i \in 1..n : q[i] = j
    <3>1. jobPc'[j] = now[j]
      BY <1>5, <2>2
    <3>2. (\E i \in 1..Len(q) : q[i] = j)
            <=> \E i \in 1..Len(queue') : queue'[i] = j
      <4>1. ASSUME NEW i \in 1..Len(q), q[i] = j
            PROVE  i - n \in 1..Len(queue') /\ queue'[i - n] = j
        BY <1>1, <1>3, <2>2, <4>1
      <4>2. ASSUME NEW i \in 1..Len(queue'), queue'[i] = j
            PROVE  n + i \in 1..Len(q) /\ q[n + i] = j
        BY <1>1, <1>3, <4>2
      <4> QED BY <4>1, <4>2
    <3> QED BY <3>1, <3>2
  <2> QED BY <2>1, <2>2
<1>8. active' = Cardinality(Slotted(jobPc'))
  <2>1. Slotted(jobPc') = Slotted(now) \cup T /\ Slotted(now) \cap T = {}
    <3>1. \A j \in Job : j \in T <=> \E i \in 1..n : q[i] = j
      OBVIOUS
    <3>2. T \subseteq Job
      BY <1>1
    <3>3. ASSUME NEW j \in T
          PROVE  jobPc'[j] \in UnderWay /\ now[j] \notin UnderWay
      BY <1>4, <1>5, <3>1, <3>2 DEF UnderWay
    <3>4. ASSUME NEW j \in Job \ T
          PROVE  jobPc'[j] = now[j]
      BY <1>5, <3>1
    <3> HIDE DEF T
    <3> QED BY <3>2, <3>3, <3>4 DEF Slotted
  <2>2. IsFiniteSet(T)
    <3>1. T \subseteq Job
      BY <1>1
    <3> QED BY <3>1, FS_Subset DEF JobsAssumption
  <2>3. Cardinality(T) = n
    BY <1>1, FirstJobs
  <2>4. Cardinality(Slotted(now) \cup T)
          = Cardinality(Slotted(now)) + Cardinality(T)
              - Cardinality(Slotted(now) \cap T)
    BY <2>2, SlottedFinite, FS_Union
  <2>5. Cardinality(Slotted(now) \cap T) = 0
    BY <2>1, FS_EmptySet
  <2>6. Cardinality(Slotted(now) \cup T) = a + n
    <3> HIDE DEF T
    <3> QED BY <1>1, <2>3, <2>4, <2>5
  <2> QED BY <1>2, <2>1, <2>6
<1>9. queue' # <<>> => active' = MaxWorkers
  BY <1>1, <1>2, <1>3 DEF JobsAssumption
<1>10. active' \in Nat /\ active' <= MaxWorkers
  BY <1>1, <1>2 DEF JobsAssumption
<1>11. JobsSlots'
  BY <1>6, <1>7, <1>8, <1>9, <1>10 DEF JobsSlots
<1> QED BY <1>3, <1>4, <1>5, <1>10, <1>11

\* A job that goes on keeps its slot and gives it to nobody.
LEMMA JobsSlotsKept ==
  ASSUME JobsTypes, JobsSlots, UNCHANGED Jobs!slotVars,
         NEW j \in Job, jobPc[j] \in UnderWay,
         NEW v \in UnderWay, jobPc' = [jobPc EXCEPT ![j] = v]
  PROVE  JobsSlots'
<1>1. \A k \in Job : /\ jobPc'[k] \in UnderWay <=> jobPc[k] \in UnderWay
                     /\ jobPc'[k] = "queued" <=> jobPc[k] = "queued"
  BY DEF JobsTypes, UnderWay
<1>2. Slotted(jobPc') = Slotted(jobPc)
  BY <1>1 DEF Slotted
<1> QED BY <1>1, <1>2 DEF JobsSlots, Jobs!slotVars

\* Each thread is on the stack, once, or has one of the given jobs.
Pooled(stack, jobs) ==
  /\ stack \in Seq(1..MaxWorkers) /\ Distinct(stack)
  /\ \A j, k \in jobs : worker[j] = worker[k] /\ worker[j] # 0 => j = k
  /\ \A i \in 1..Len(stack) : \A j \in jobs : worker[j] # stack[i]
  /\ \A w \in 1..MaxWorkers : \/ \E i \in 1..Len(stack) : stack[i] = w
                              \/ \E j \in jobs : worker[j] = w

JobsPool ==
  /\ Pooled(idle, Job)
  /\ \A j \in Job : worker[j] # 0 <=> jobPc[j] = "running"

\* A thread that is free or freed is on the stack.
LEMMA JobsFreed ==
  ASSUME JobsTypes, JobsPool, NEW j \in Job
  PROVE  /\ jobPc[j] # "running" => Pooled(idle, Job \ {j})
         /\ jobPc[j] = "running" => Pooled(Append(idle, worker[j]), Job \ {j})
<1>1. CASE jobPc[j] # "running"
  <2>1. worker[j] = 0
    BY <1>1 DEF JobsPool, JobsTypes
  <2> QED BY <1>1, <2>1 DEF JobsPool, Pooled
<1>2. CASE jobPc[j] = "running"
  <2> DEFINE stack == Append(idle, worker[j])
  <2>1. worker[j] \in 1..MaxWorkers
    BY <1>2 DEF JobsPool, JobsTypes
  <2>2. /\ stack \in Seq(1..MaxWorkers) /\ Len(stack) = Len(idle) + 1
        /\ \A i \in 1..Len(idle) : stack[i] = idle[i]
        /\ stack[Len(idle) + 1] = worker[j] /\ Len(idle) \in Nat
    BY <2>1, AppendProperties DEF JobsTypes
  <2> HIDE DEF stack
  <2>3. \A i \in 1..Len(stack) : i \in 1..Len(idle) \/ i = Len(idle) + 1
    BY <2>2
  <2>4. Distinct(stack)
    BY <2>2, <2>3 DEF JobsPool, Pooled, Distinct
  <2>5. \A i \in 1..Len(stack) : \A k \in Job \ {j} : worker[k] # stack[i]
    BY <2>1, <2>2, <2>3 DEF JobsPool, Pooled
  <2>6. ASSUME NEW w \in 1..MaxWorkers
        PROVE  \/ \E i \in 1..Len(stack) : stack[i] = w
               \/ \E k \in Job \ {j} : worker[k] = w
    BY <2>2 DEF JobsPool, Pooled
  <2>7. Pooled(stack, Job \ {j})
    BY <2>2, <2>4, <2>5, <2>6 DEF JobsPool, Pooled
  <2> QED BY <1>2, <2>7 DEF stack
<1> QED BY <1>1, <1>2

\* run() never finds the stack empty: whoever calls it has a slot himself.
LEMMA JobsSpare ==
  ASSUME JobsAssumption, JobsTypes, JobsSlots, JobsPool, NEW j \in Job,
         jobPc[j] \in UnderWay, jobPc[j] # "running"
  PROVE  idle # <<>>
<1> SUFFICES ASSUME idle = <<>> PROVE FALSE
  OBVIOUS
<1> DEFINE g == [w \in 1..MaxWorkers |-> CHOOSE k \in Job : worker[k] = w]
           T == Slotted(jobPc) \ {j}
<1>1. \A w \in 1..MaxWorkers : \E k \in Job : worker[k] = w
  BY DEF JobsPool, Pooled
<1>2. \A w \in 1..MaxWorkers : g[w] \in Job /\ worker[g[w]] = w
  BY <1>1
<1>3. \A w \in 1..MaxWorkers : g[w] \in T
  <2>1. \A k \in Job : worker[k] \in 1..MaxWorkers => jobPc[k] = "running"
    BY DEF JobsPool
  <2> QED BY <1>2, <2>1 DEF Slotted, UnderWay
<1>4. g \in Injection(1..MaxWorkers, T)
  <2>1. g \in [1..MaxWorkers -> T]
    BY <1>3
  <2>2. \A v, w \in 1..MaxWorkers : g[v] = g[w] => v = w
    BY <1>2
  <2> QED BY <2>1, <2>2 DEF Injection, IsInjective
<1>5. IsFiniteSet(T) /\ Cardinality(T) = Cardinality(Slotted(jobPc)) - 1
  BY SlottedFinite, FS_RemoveElement DEF Slotted
<1>6. Cardinality(1..MaxWorkers) <= Cardinality(T)
  BY <1>4, <1>5, FS_Injection
<1>7. Cardinality(1..MaxWorkers) = MaxWorkers
  BY FS_Interval DEF JobsAssumption
<1>8. active = Cardinality(Slotted(jobPc)) /\ active <= MaxWorkers
  BY DEF JobsSlots
<1> HIDE DEF T
<1> QED BY <1>5, <1>6, <1>7, <1>8 DEF JobsAssumption, JobsTypes

\* run() gives a thread of the stack to a job that has none.
LEMMA JobsPost ==
  ASSUME JobsAssumption, JobsTypes, JobsPool, NEW j \in Job, NEW m, NEW stack,
         Pooled(stack, Job \ {j}), stack # <<>>, Jobs!Post(j, m, stack)
  PROVE  JobsPool' /\ worker' \in [Job -> 0..MaxWorkers] /\ made' = MaxWorkers
<1> DEFINE w == stack[Len(stack)]
<1>1. /\ Len(stack) \in Nat \ {0} /\ w \in 1..MaxWorkers
      /\ \A i \in 1..Len(stack) : stack[i] \in 1..MaxWorkers
  <2>1. stack \in Seq(1..MaxWorkers)
    BY DEF Pooled
  <2>2. Len(stack) \in Nat /\ Len(stack) # 0
    BY <2>1, EmptySeq
  <2>3. \A i \in 1..Len(stack) : stack[i] \in 1..MaxWorkers
    BY <2>1, ElementOfSeq
  <2> QED BY <2>2, <2>3
<1>2. /\ worker' = [worker EXCEPT ![j] = w] /\ made' = made
      /\ idle' = SubSeq(stack, 1, Len(stack) - 1)
      /\ jobPc' = [jobPc EXCEPT ![j] = "running"]
  BY DEF Jobs!Post
<1>3. /\ idle' \in Seq(1..MaxWorkers) /\ Len(idle') = Len(stack) - 1
      /\ \A i \in 1..(Len(stack) - 1) : idle'[i] = stack[i]
  <2> DEFINE l == Len(stack) - 1
  <2>1. l \in Nat /\ idle' = SubSeq(stack, 1, l)
    BY <1>1, <1>2
  <2>2. \A i \in 1..l : stack[i] \in 1..MaxWorkers
    BY <1>1
  <2> HIDE DEF l
  <2>3. /\ SubSeq(stack, 1, l) \in Seq(1..MaxWorkers)
        /\ Len(SubSeq(stack, 1, l)) = IF 1 <= l THEN l - 1 + 1 ELSE 0
        /\ \A i \in 1..(l - 1 + 1) : SubSeq(stack, 1, l)[i] = stack[1 + i - 1]
    BY <2>1, <2>2, SubSeqProperties
  <2>4. /\ idle' \in Seq(1..MaxWorkers) /\ Len(idle') = l
        /\ \A i \in 1..l : idle'[i] = stack[i]
    BY <2>1, <2>3
  <2> QED BY <2>4 DEF l
<1> HIDE DEF w
<1>4. /\ worker' \in [Job -> 0..MaxWorkers] /\ worker'[j] = w
      /\ \A k \in Job \ {j} : worker'[k] = worker[k]
  BY <1>1, <1>2 DEF JobsTypes
<1>5. \A i \in 1..(Len(stack) - 1) : stack[i] # w
  BY <1>1 DEF Pooled, Distinct, w
<1>6. Distinct(idle')
  BY <1>1, <1>3 DEF Pooled, Distinct
<1>7. \A k \in Job \ {j} : worker[k] # w
  BY <1>1 DEF Pooled, w
<1>8. ASSUME NEW v \in 1..MaxWorkers
      PROVE  \/ \E i \in 1..Len(idle') : idle'[i] = v
             \/ \E k \in Job : worker'[k] = v
  <2>1. CASE \E i \in 1..Len(stack) : stack[i] = v
    BY <1>1, <1>3, <1>4, <2>1 DEF w
  <2>2. CASE \E k \in Job \ {j} : worker[k] = v
    BY <1>4, <2>2
  <2> QED BY <2>1, <2>2 DEF Pooled
<1>9. \A i \in 1..Len(idle') : \A k \in Job : worker'[k] # idle'[i]
  <2>1. ASSUME NEW i \in 1..Len(idle'), NEW k \in Job
        PROVE  worker'[k] # idle'[i]
    <3>1. i \in 1..Len(stack) /\ idle'[i] = stack[i] /\ stack[i] # w
      BY <1>1, <1>3, <1>5
    <3>2. CASE k = j
      BY <1>4, <3>1, <3>2
    <3>3. CASE k # j
      BY <1>4, <3>1, <3>3 DEF Pooled
    <3> QED BY <3>2, <3>3
  <2> QED BY <2>1
<1>10. \A k, l \in Job : worker'[k] = worker'[l] /\ worker'[k] # 0 => k = l
  BY <1>4, <1>7 DEF Pooled
<1>11. Pooled(idle, Job)'
  BY <1>3, <1>6, <1>8, <1>9, <1>10 DEF Pooled
<1>12. \A k \in Job : worker'[k] # 0 <=> jobPc'[k] = "running"
  BY <1>1, <1>2, <1>4 DEF JobsPool, JobsTypes
<1> QED BY <1>2, <1>4, <1>11, <1>12 DEF JobsPool, JobsTypes

\* The thread of a job goes back on the stack.
LEMMA JobsBack ==
  ASSUME JobsAssumption, JobsTypes, JobsPool, NEW j \in Job,
         jobPc[j] = "running", NEW v \in Jobs!Pc \ {"running"},
         idle' = Append(idle, worker[j]), worker' = [worker EXCEPT ![j] = 0],
         jobPc' = [jobPc EXCEPT ![j] = v]
  PROVE  JobsPool' /\ worker' \in [Job -> 0..MaxWorkers]
<1>1. Pooled(idle', Job \ {j})
  BY JobsFreed
<1>2. /\ worker' \in [Job -> 0..MaxWorkers] /\ worker'[j] = 0
      /\ \A k \in Job \ {j} : worker'[k] = worker[k]
  BY DEF JobsTypes, JobsAssumption
<1>3. \A i \in 1..Len(idle') : idle'[i] # 0
  <2>1. idle' \in Seq(1..MaxWorkers)
    BY <1>1 DEF Pooled
  <2>2. \A i \in 1..Len(idle') : idle'[i] \in 1..MaxWorkers
    BY <2>1, ElementOfSeq
  <2> QED BY <2>2
<1>4. Pooled(idle, Job)'
  BY <1>1, <1>2, <1>3 DEF Pooled
<1>5. \A k \in Job : worker'[k] # 0 <=> jobPc'[k] = "running"
  BY <1>2 DEF JobsPool, JobsTypes
<1> QED BY <1>2, <1>4, <1>5 DEF JobsPool

\* No thread changes hands where no job starts or stops running.
LEMMA JobsPoolKept ==
  ASSUME JobsPool, UNCHANGED <<idle, worker>>,
         \A j \in Job : jobPc'[j] = "running" <=> jobPc[j] = "running"
  PROVE  JobsPool'
  BY DEF JobsPool, Pooled

\* How often a job was posted, and what its result means.
JobsProgress ==
  \A j \in Job :
    /\ jobPc[j] \in {"new", "queued", "starting", "locking", "sleeping"} => mode[j] = "none"
    /\ jobPc[j] = "running" => mode[j] # "none"
    /\ jobPc[j] = "unlocking" => mode[j] = "locked"
    /\ mode[j] = "none" => posts[j] = 0
    /\ mode[j] \in {"bare", "locked", "late"} => posts[j] = 1
    /\ mode[j] = "retry" => posts[j] = 2 /\ dead # {}
    /\ result[j] = "error" => dead # {}
    /\ result[j] \in {"built", "cached"} => SourceOf[j] \in built

\* A lock shows one of the jobs that run under it; all of them, and so the
\* only one, before any lock has expired.
Owner(s) == {j \in Job : /\ SourceOf[j] = s /\ mode[j] = "locked"
                         /\ jobPc[j] \in {"running", "unlocking"}}
JobsLock ==
  \A s \in Source :
    /\ lock[s] # Nil => lock[s] \in Owner(s)
    /\ lockLapses = 0 => \A j \in Owner(s) : lock[s] = j

JobsInv == JobsTypes /\ JobsSlots /\ JobsPool /\ JobsProgress /\ JobsLock

LEMMA JobsInit == ASSUME JobsAssumption, Jobs!Init PROVE JobsInv
<1> USE DEF JobsAssumption, Jobs!Init
<1> DEFINE id == [i \in 1..MaxWorkers |-> i]
<1>1. id \in Seq(1..MaxWorkers) /\ Len(id) = MaxWorkers
  OBVIOUS
<1>2. JobsTypes
  BY <1>1 DEF JobsTypes, Jobs!Pc, Jobs!Mode, Jobs!Result
<1>3. JobsSlots
  <2>1. Slotted(jobPc) = {}
    BY DEF Slotted, UnderWay
  <2>2. queue = <<>> /\ Len(queue) = 0 /\ active = 0
    BY EmptySeq
  <2>3. \A j \in Job : jobPc[j] = "new"
    OBVIOUS
  <2>4. Distinct(queue)
    BY <2>2 DEF Distinct
  <2>5. \A j \in Job : jobPc[j] = "queued" <=> \E i \in 1..Len(queue) : queue[i] = j
    BY <2>2, <2>3
  <2>6. active = Cardinality(Slotted(jobPc)) /\ active <= MaxWorkers
    <3>1. Cardinality(Slotted(jobPc)) = 0
      BY <2>1, FS_EmptySet
    <3> QED BY <2>2, <3>1
  <2> QED BY <2>2, <2>4, <2>5, <2>6 DEF JobsSlots
<1>4. JobsPool
  BY <1>1 DEF JobsPool, Pooled, Distinct
<1>5. JobsProgress /\ JobsLock
  BY DEF JobsProgress, JobsLock, Owner
<1> QED BY <1>2, <1>3, <1>4, <1>5 DEF JobsInv

\* compileQueued() and the end of a job.
LEMMA JobsSubmit ==
  ASSUME JobsAssumption, JobsInv, NEW j \in Job, Jobs!Submit(j)
  PROVE  JobsInv'
<1> USE DEF JobsInv
<1> DEFINE q == Append(queue, j)
           now == [jobPc EXCEPT ![j] = "queued"]
<1>1. /\ q \in Seq(Job) /\ Len(q) = Len(queue) + 1 /\ Len(queue) \in Nat
      /\ \A i \in 1..Len(queue) : q[i] = queue[i]
      /\ q[Len(queue) + 1] = j
  BY AppendProperties DEF JobsTypes
<1>2. now \in [Job -> Jobs!Pc] /\ now[j] = "queued" /\ jobPc[j] = "new"
      /\ \A k \in Job \ {j} : now[k] = jobPc[k]
  BY DEF JobsTypes, Jobs!Pc, Jobs!Submit
<1>3. Jobs!Pump(q, active, now)
  BY DEF Jobs!Submit
<1> HIDE DEF q, now
<1>4. \A i \in 1..Len(q) : i \in 1..Len(queue) \/ i = Len(queue) + 1
  BY <1>1
<1>5. \A i \in 1..Len(queue) : queue[i] # j
  BY <1>2 DEF JobsSlots
<1>6. Distinct(q)
  BY <1>1, <1>4, <1>5 DEF JobsSlots, Distinct
<1>7. ASSUME NEW k \in Job
      PROVE  now[k] = "queued" <=> \E i \in 1..Len(q) : q[i] = k
  <2>1. CASE k = j
    BY <1>1, <1>2, <2>1
  <2>2. CASE k # j
    BY <1>1, <1>2, <1>4, <2>2 DEF JobsSlots
  <2> QED BY <2>1, <2>2
<1>8. Slotted(now) = Slotted(jobPc)
  BY <1>2 DEF Slotted, UnderWay
<1>9. /\ queue' \in Seq(Job) /\ active' \in Nat /\ jobPc' \in [Job -> Jobs!Pc]
      /\ \A k \in Job : \/ jobPc'[k] = now[k]
                        \/ now[k] = "queued" /\ jobPc'[k] = "starting"
      /\ JobsSlots'
  <2>1. active \in Nat /\ active = Cardinality(Slotted(now)) /\ active <= MaxWorkers
    BY <1>8 DEF JobsSlots, JobsTypes
  <2> QED BY <1>1, <1>2, <1>3, <1>6, <1>7, <2>1, JobsPump
<1>10. \A k \in Job :
         \/ jobPc'[k] = jobPc[k]
         \/ jobPc[k] \in {"new", "queued"} /\ jobPc'[k] \in {"queued", "starting"}
  BY <1>2, <1>9
<1>11. UNCHANGED <<mode, result, worker, posts, idle, made, dead, leaving, lock,
                   artifacts, built, lockLapses>>
  BY DEF Jobs!Submit, Jobs!poolVars
<1>12. JobsTypes'
  BY <1>9, <1>11 DEF JobsTypes
<1>13. JobsPool'
  BY <1>10, <1>11, JobsPoolKept
<1>14. JobsProgress'
  BY <1>10, <1>11 DEF JobsProgress
<1>15. JobsLock'
  BY <1>10, <1>11 DEF JobsLock, Owner
<1> QED BY <1>9, <1>12, <1>13, <1>14, <1>15

LEMMA JobsSettle ==
  ASSUME JobsAssumption, JobsInv, NEW j \in Job, Jobs!Settle(j)
  PROVE  JobsInv'
<1> USE DEF JobsInv
<1>0. PICK outcome \in Jobs!Settled :
        Jobs!Pump(queue, active - 1, [jobPc EXCEPT ![j] = outcome])
  BY DEF Jobs!Settle
<1> DEFINE now == [jobPc EXCEPT ![j] = outcome]
<1>1. /\ now \in [Job -> Jobs!Pc] /\ now[j] \in {"done", "failed"}
      /\ jobPc[j] = "settling" /\ \A k \in Job \ {j} : now[k] = jobPc[k]
  BY DEF JobsTypes, Jobs!Pc, Jobs!Settle, Jobs!Settled
<1>2. Jobs!Pump(queue, active - 1, now)
  BY <1>0
<1> HIDE DEF now
<1>3. \A k \in Job : now[k] = "queued" <=> \E i \in 1..Len(queue) : queue[i] = k
  BY <1>1 DEF JobsSlots
<1>4. /\ active - 1 \in Nat /\ active - 1 <= MaxWorkers
      /\ active - 1 = Cardinality(Slotted(now))
  <2>1. Slotted(now) = Slotted(jobPc) \ {j} /\ j \in Slotted(jobPc)
    BY <1>1 DEF Slotted, UnderWay
  <2>2. Cardinality(Slotted(now)) = Cardinality(Slotted(jobPc)) - 1
    BY <2>1, SlottedFinite, FS_RemoveElement
  <2> QED BY <2>2, SlottedFinite DEF JobsSlots, JobsAssumption
<1>5. /\ queue' \in Seq(Job) /\ active' \in Nat /\ jobPc' \in [Job -> Jobs!Pc]
      /\ \A k \in Job : \/ jobPc'[k] = now[k]
                        \/ now[k] = "queued" /\ jobPc'[k] = "starting"
      /\ JobsSlots'
  <2>1. queue \in Seq(Job) /\ Distinct(queue)
    BY DEF JobsTypes, JobsSlots
  <2> QED BY <1>1, <1>2, <1>3, <1>4, <2>1, JobsPump
<1>6. \A k \in Job :
        \/ jobPc'[k] = jobPc[k]
        \/ jobPc[k] = "queued" /\ jobPc'[k] = "starting"
        \/ jobPc[k] = "settling" /\ jobPc'[k] \in {"done", "failed"}
  BY <1>1, <1>5
<1>7. /\ mode' = [mode EXCEPT ![j] = "none"] /\ result' = [result EXCEPT ![j] = "none"]
      /\ posts' = [posts EXCEPT ![j] = 0]
      /\ UNCHANGED <<worker, idle, made, dead, leaving, lock, artifacts, built, lockLapses>>
  BY DEF Jobs!Settle, Jobs!Forgotten, Jobs!poolVars
<1>8. /\ mode' \in [Job -> Jobs!Mode] /\ result' \in [Job -> Jobs!Result]
      /\ posts' \in [Job -> Nat]
      /\ mode'[j] = "none" /\ result'[j] = "none" /\ posts'[j] = 0
      /\ \A k \in Job \ {j} : /\ mode'[k] = mode[k] /\ result'[k] = result[k]
                              /\ posts'[k] = posts[k]
  BY <1>7 DEF JobsTypes, Jobs!Mode, Jobs!Result
<1>9. JobsTypes'
  BY <1>5, <1>7, <1>8 DEF JobsTypes
<1>10. JobsPool'
  BY <1>6, <1>7, JobsPoolKept
<1>11. jobPc'[j] \in {"done", "failed"} /\ \A k \in Job \ {j} :
         \/ jobPc'[k] = jobPc[k]
         \/ jobPc[k] = "queued" /\ jobPc'[k] = "starting"
  BY <1>1, <1>5
<1>12. JobsProgress'
  BY <1>7, <1>8, <1>11 DEF JobsProgress
<1>13. JobsLock'
  <2>1. \A s \in Source : \A k \in Job : k \in Owner(s)' <=> k \in Owner(s)
    BY <1>1, <1>8, <1>11 DEF Owner
  <2>2. \A s \in Source : Owner(s)' \subseteq Job
    BY DEF Owner
  <2>3. \A s \in Source : Owner(s) \subseteq Job
    BY DEF Owner
  <2> QED BY <1>7, <2>1, <2>2, <2>3 DEF JobsLock
<1> QED BY <1>5, <1>9, <1>10, <1>12, <1>13

\* A thread answers.
LEMMA JobsAnswer ==
  ASSUME JobsAssumption, JobsInv, NEW j \in Job,
         NEW r \in {"built", "rejected"}, Jobs!Answer(j, r)
  PROVE  JobsInv'
<1> USE DEF JobsInv, JobsAssumption
<1>1. /\ jobPc[j] = "running" /\ worker' = [worker EXCEPT ![j] = 0]
      /\ idle' = Append(idle, worker[j])
      /\ result' = [result EXCEPT ![j] = r]
      /\ UNCHANGED <<queue, active, mode, posts, made, dead, leaving, lock, lockLapses>>
  BY DEF Jobs!Answer, Jobs!slotVars
<1>2. /\ built' = IF r = "built" THEN built \cup {SourceOf[j]} ELSE built
      /\ artifacts' \subseteq built' /\ built \subseteq built'
  BY DEF Jobs!Answer, Jobs!Record, JobsTypes
<1>3. PICK v \in {"unlocking", "settling"} :
        jobPc' = [jobPc EXCEPT ![j] = v] /\ (v = "unlocking" <=> mode[j] = "locked")
  BY DEF Jobs!Answer, Jobs!Record
<1>4. JobsPool' /\ worker' \in [Job -> 0..MaxWorkers]
  BY <1>1, <1>3, JobsBack DEF Jobs!Pc
<1>5. JobsTypes'
  <2>1. idle' \in Seq(1..MaxWorkers)
    BY <1>4 DEF JobsPool, Pooled
  <2> QED BY <1>1, <1>2, <1>3, <1>4, <2>1 DEF JobsTypes, Jobs!Pc, Jobs!Result
<1>6. JobsSlots'
  BY <1>1, <1>3, JobsSlotsKept DEF UnderWay, Jobs!slotVars
<1>7. JobsProgress'
  BY <1>1, <1>2, <1>3 DEF JobsProgress, JobsTypes
<1>8. JobsLock'
  BY <1>1, <1>3 DEF JobsLock, Owner, JobsTypes
<1> QED BY <1>4, <1>5, <1>6, <1>7, <1>8

\* run() is called for a job in a mode other than "locked".
LEMMA JobsRun ==
  ASSUME JobsAssumption, JobsInv, NEW j \in Job,
         jobPc[j] \in UnderWay, NEW stack,
         Pooled(stack, Job \ {j}), stack # <<>>,
         NEW m \in {"bare", "late", "retry"}, Jobs!Post(j, m, stack),
         result' \in [Job -> Jobs!Result], result'[j] \in {result[j], "none"},
         \A k \in Job \ {j} : result'[k] = result[k],
         m = "retry" => posts[j] = 1 /\ dead' # {},
         m # "retry" => mode[j] = "none",
         UNCHANGED <<queue, active, artifacts, built, lockLapses>>,
         dead \subseteq dead', dead' \subseteq 1..MaxWorkers, leaving' \subseteq dead',
         lock' \in [Source -> Job \cup {Nil}],
         \A s \in Source : s # SourceOf[j] => lock'[s] = lock[s],
         mode[j] = "locked" => jobPc[j] = "unlocking" /\ lock'[SourceOf[j]] = Nil,
         mode[j] # "locked" => lock' = lock
  PROVE  JobsInv'
<1> USE DEF JobsInv, JobsAssumption
<1>1. /\ mode' = [mode EXCEPT ![j] = m] /\ posts' = [posts EXCEPT ![j] = @ + 1]
      /\ jobPc' = [jobPc EXCEPT ![j] = "running"]
  BY DEF Jobs!Post
<1>2. JobsPool' /\ worker' \in [Job -> 0..MaxWorkers] /\ made' = MaxWorkers
  BY JobsPost
<1>3. JobsTypes'
  <2>1. idle' \in Seq(1..MaxWorkers)
    BY <1>2 DEF JobsPool, Pooled
  <2>3. /\ jobPc' \in [Job -> Jobs!Pc] /\ mode' \in [Job -> Jobs!Mode]
        /\ posts' \in [Job -> Nat]
    BY <1>1 DEF JobsTypes, Jobs!Pc, Jobs!Mode
  <2> QED BY <1>2, <2>1, <2>3 DEF JobsTypes
<1>4. JobsSlots'
  BY <1>1, JobsSlotsKept DEF UnderWay, Jobs!slotVars
<1>5. /\ mode'[j] = m /\ posts'[j] = posts[j] + 1 /\ jobPc'[j] = "running"
      /\ result'[j] \in {result[j], "none"}
      /\ \A k \in Job \ {j} : /\ mode'[k] = mode[k] /\ posts'[k] = posts[k]
                              /\ jobPc'[k] = jobPc[k] /\ result'[k] = result[k]
  BY <1>1 DEF JobsTypes
<1>6. JobsProgress'
  <2>1. posts'[j] = IF m = "retry" THEN 2 ELSE 1
    BY <1>5 DEF JobsProgress
  <2>2. dead # {} => dead' # {}
    OBVIOUS
  <2> QED BY <1>5, <2>1, <2>2 DEF JobsProgress
<1>7. JobsLock'
  <2>1. \A s \in Source : /\ j \notin Owner(s)'
                          /\ \A k \in Job \ {j} : k \in Owner(s)' <=> k \in Owner(s)
    BY <1>5 DEF Owner
  <2>2. CASE mode[j] # "locked"
    <3>1. \A s \in Source : j \notin Owner(s)
      BY <2>2 DEF Owner
    <3>2. \A s \in Source : \A k \in Job : k \in Owner(s)' <=> k \in Owner(s)
      BY <2>1, <3>1
    <3>3. \A s \in Source : \A k \in Owner(s)' : k \in Job
      BY DEF Owner
    <3>4. \A s \in Source : lock[s] # Nil => lock[s] \in Job
      BY DEF JobsTypes
    <3> QED BY <2>2, <3>2, <3>3, <3>4 DEF JobsLock
  <2>3. CASE mode[j] = "locked"
    <3>1. /\ j \in Owner(SourceOf[j]) /\ lock'[SourceOf[j]] = Nil
          /\ \A s \in Source \ {SourceOf[j]} : lock'[s] = lock[s] /\ j \notin Owner(s)
      BY <2>3 DEF Owner
    <3>2. ASSUME NEW s \in Source
          PROVE  /\ lock'[s] # Nil => lock'[s] \in Owner(s)'
                 /\ lockLapses' = 0 => \A k \in Owner(s)' : lock'[s] = k
      <4>1. CASE s = SourceOf[j]
        BY <2>1, <3>1, <4>1 DEF JobsLock, Owner
      <4>2. CASE s # SourceOf[j]
        <5>1. lock'[s] = lock[s] /\ lockLapses' = lockLapses
          BY <3>1, <4>2
        <5>2. \A k \in Job : k \in Owner(s)' <=> k \in Owner(s)
          BY <2>1, <3>1, <4>2
        <5>3. \A k \in Owner(s)' : k \in Job
          BY DEF Owner
        <5>4. lock[s] # Nil => lock[s] \in Job
          BY DEF JobsTypes
        <5> QED BY <5>1, <5>2, <5>3, <5>4 DEF JobsLock
      <4> QED BY <4>1, <4>2
    <3> QED BY <3>2 DEF JobsLock
  <2> QED BY <2>2, <2>3
<1> QED BY <1>2, <1>3, <1>4, <1>6, <1>7

\* The thread of a job has died.
LEMMA JobsRunFails ==
  ASSUME JobsAssumption, JobsInv, NEW j \in Job, jobPc[j] = "running",
         Jobs!RunFails(j),
         UNCHANGED <<queue, active, lock, artifacts, built, lockLapses>>,
         dead \subseteq dead', dead' \subseteq 1..MaxWorkers, leaving' \subseteq dead',
         dead' # {}
  PROVE  JobsInv'
<1> USE DEF JobsInv, JobsAssumption
<1>1. Pooled(Append(idle, worker[j]), Job \ {j})
  BY JobsFreed
<1>2. CASE mode[j] = "late"
  <2>0. PICK stack : stack = Append(idle, worker[j])
    OBVIOUS
  <2>5. PICK m \in {"bare", "late", "retry"} : m = "retry"
    OBVIOUS
  <2>1. stack # <<>>
    <3>1. worker[j] \in 1..MaxWorkers
      BY DEF JobsPool, JobsTypes
    <3>2. idle \in Seq(1..MaxWorkers)
      BY DEF JobsTypes
    <3> QED BY <2>0, <3>1, <3>2, AppendProperties
  <2>2. Jobs!Post(j, m, stack) /\ UNCHANGED result
    BY <1>2, <2>0, <2>5 DEF Jobs!RunFails, Jobs!Post
  <2>6. result' \in [Job -> Jobs!Result] /\ lock' \in [Source -> Job \cup {Nil}]
    BY <2>2 DEF JobsTypes
  <2>3. posts[j] = 1 /\ jobPc[j] \in UnderWay
    BY <1>2 DEF JobsProgress, UnderWay
  <2>4. Pooled(stack, Job \ {j})
    BY <1>1, <2>0
  <2> QED BY <1>2, <2>1, <2>2, <2>3, <2>4, <2>5, <2>6, JobsRun
<1>3. CASE mode[j] # "late"
  <2>1. /\ worker' = [worker EXCEPT ![j] = 0]
        /\ idle' = Append(idle, worker[j])
        /\ result' = [result EXCEPT ![j] = "error"]
        /\ UNCHANGED <<made, mode, posts>>
    BY <1>3 DEF Jobs!RunFails
  <2>2. PICK v \in {"unlocking", "settling"} :
          jobPc' = [jobPc EXCEPT ![j] = v] /\ (v = "unlocking" <=> mode[j] = "locked")
    BY <1>3 DEF Jobs!RunFails
  <2>3. JobsPool' /\ worker' \in [Job -> 0..MaxWorkers]
    BY <2>1, <2>2, JobsBack DEF Jobs!Pc
  <2>4. JobsTypes'
    <3>1. idle' \in Seq(1..MaxWorkers)
      BY <2>3 DEF JobsPool, Pooled
    <3> QED BY <2>1, <2>2, <2>3, <3>1 DEF JobsTypes, Jobs!Pc, Jobs!Result
  <2>5. JobsSlots'
    BY <2>2, JobsSlotsKept DEF UnderWay, Jobs!slotVars
  <2>6. JobsProgress'
    BY <2>1, <2>2 DEF JobsProgress, JobsTypes
  <2>7. JobsLock'
    BY <2>1, <2>2 DEF JobsLock, Owner, JobsTypes
  <2> QED BY <2>3, <2>4, <2>5, <2>6, <2>7
<1> QED BY <1>2, <1>3

LEMMA JobsUnlock ==
  ASSUME JobsAssumption, JobsInv, NEW j \in Job, Jobs!Unlock(j)
  PROVE  JobsInv'
<1> USE DEF JobsInv, JobsAssumption
<1>1. /\ jobPc[j] = "unlocking" /\ mode[j] = "locked" /\ SourceOf[j] \in Source
      /\ lock' = [lock EXCEPT ![SourceOf[j]] = Nil]
      /\ UNCHANGED <<queue, active, dead, leaving, built, lockLapses>>
  BY DEF Jobs!Unlock, JobsProgress, Jobs!slotVars
<1>2. /\ lock' \in [Source -> Job \cup {Nil}] /\ lock'[SourceOf[j]] = Nil
      /\ \A s \in Source : s # SourceOf[j] => lock'[s] = lock[s]
  BY <1>1 DEF JobsTypes
<1>3. CASE result[j] = "error"
  <2>1. Pooled(idle, Job \ {j}) /\ idle # <<>> /\ jobPc[j] \in UnderWay
    BY <1>1, JobsFreed, JobsSpare DEF UnderWay
  <2>2. PICK stack : stack = idle
    OBVIOUS
  <2>3. PICK m \in {"bare", "late", "retry"} : m = "retry"
    OBVIOUS
  <2>4. Jobs!Post(j, m, stack) /\ Pooled(stack, Job \ {j}) /\ stack # <<>>
    BY <1>3, <2>1, <2>2, <2>3 DEF Jobs!Unlock, Jobs!Post
  <2>5. /\ result' \in [Job -> Jobs!Result] /\ result'[j] = "none"
        /\ \A k \in Job \ {j} : result'[k] = result[k]
        /\ UNCHANGED artifacts
    BY <1>3 DEF Jobs!Unlock, JobsTypes, Jobs!Result
  <2>6. posts[j] = 1 /\ dead' # {}
    BY <1>1, <1>3 DEF JobsProgress
  <2>7. dead \subseteq dead' /\ dead' \subseteq 1..MaxWorkers /\ leaving' \subseteq dead'
    BY <1>1 DEF JobsTypes
  <2> QED BY <1>1, <1>2, <2>1, <2>3, <2>4, <2>5, <2>6, <2>7, JobsRun
<1>4. CASE result[j] # "error"
  <2>1. /\ jobPc' = [jobPc EXCEPT ![j] = "settling"]
        /\ artifacts' = IF result[j] = "built" THEN artifacts \cup {SourceOf[j]}
                        ELSE artifacts
        /\ UNCHANGED <<mode, result, worker, posts, idle, made>>
    BY <1>4 DEF Jobs!Unlock, Jobs!Record
  <2>2. artifacts' \subseteq built'
    BY <1>1, <2>1 DEF JobsTypes, JobsProgress
  <2>3. JobsTypes'
    BY <1>1, <1>2, <2>1, <2>2 DEF JobsTypes, Jobs!Pc
  <2>4. JobsSlots'
    BY <1>1, <2>1, JobsSlotsKept DEF UnderWay, Jobs!slotVars
  <2>5. /\ jobPc'[j] = "settling" /\ \A k \in Job \ {j} : jobPc'[k] = jobPc[k]
    BY <2>1 DEF JobsTypes
  <2>6. JobsPool'
    BY <1>1, <2>1, <2>5, JobsPoolKept
  <2>7. JobsProgress'
    BY <1>1, <2>1, <2>5 DEF JobsProgress
  <2>8. JobsLock'
    <3>1. \A s \in Source \ {SourceOf[j]} : Owner(s)' = Owner(s)
      BY <2>1, <2>5 DEF Owner
    <3>2. Owner(SourceOf[j])' = Owner(SourceOf[j]) \ {j} /\ j \in Owner(SourceOf[j])
      BY <1>1, <2>1, <2>5 DEF Owner
    <3> QED BY <1>1, <1>2, <3>1, <3>2 DEF JobsLock
  <2> QED BY <2>3, <2>4, <2>6, <2>7, <2>8
<1> QED BY <1>3, <1>4

LEMMA JobsTakeLock ==
  ASSUME JobsAssumption, JobsInv, NEW j \in Job, Jobs!TakeLock(j)
  PROVE  JobsInv'
<1> USE DEF JobsInv, JobsAssumption
<1>1. /\ jobPc[j] = "locking" /\ lock[SourceOf[j]] = Nil /\ SourceOf[j] \in Source
      /\ lock' = [lock EXCEPT ![SourceOf[j]] = j]
      /\ Jobs!Post(j, "locked", idle)
      /\ UNCHANGED <<queue, active, result, dead, leaving, artifacts, built, lockLapses>>
  BY DEF Jobs!TakeLock, Jobs!slotVars
<1>2. /\ mode' = [mode EXCEPT ![j] = "locked"] /\ posts' = [posts EXCEPT ![j] = @ + 1]
      /\ jobPc' = [jobPc EXCEPT ![j] = "running"]
  BY <1>1 DEF Jobs!Post
<1>3. JobsPool' /\ worker' \in [Job -> 0..MaxWorkers] /\ made' = MaxWorkers
  <2>1. Pooled(idle, Job \ {j}) /\ idle # <<>>
    BY <1>1, JobsFreed, JobsSpare DEF UnderWay
  <2>2. PICK stack, m : stack = idle /\ m = "locked"
    OBVIOUS
  <2>3. Pooled(stack, Job \ {j}) /\ stack # <<>> /\ Jobs!Post(j, m, stack)
    BY <1>1, <2>1, <2>2 DEF Jobs!Post
  <2> QED BY <2>3, JobsPost
<1>4. JobsTypes'
  <2>1. idle' \in Seq(1..MaxWorkers)
    BY <1>3 DEF JobsPool, Pooled
  <2>2. /\ jobPc' \in [Job -> Jobs!Pc] /\ mode' \in [Job -> Jobs!Mode]
        /\ posts' \in [Job -> Nat] /\ lock' \in [Source -> Job \cup {Nil}]
    BY <1>1, <1>2 DEF JobsTypes, Jobs!Pc, Jobs!Mode
  <2> QED BY <1>1, <1>3, <2>1, <2>2 DEF JobsTypes
<1>5. JobsSlots'
  BY <1>1, <1>2, JobsSlotsKept DEF UnderWay, Jobs!slotVars
<1>6. /\ mode'[j] = "locked" /\ posts'[j] = posts[j] + 1 /\ jobPc'[j] = "running"
      /\ \A k \in Job \ {j} : /\ mode'[k] = mode[k] /\ posts'[k] = posts[k]
                              /\ jobPc'[k] = jobPc[k]
      /\ lock'[SourceOf[j]] = j
      /\ \A s \in Source \ {SourceOf[j]} : lock'[s] = lock[s]
  BY <1>1, <1>2 DEF JobsTypes
<1>7. JobsProgress'
  <2>1. posts'[j] = 1
    BY <1>1, <1>6 DEF JobsProgress
  <2> QED BY <1>1, <1>6, <2>1 DEF JobsProgress
<1>8. JobsLock'
  <2>1. \A s \in Source \ {SourceOf[j]} : Owner(s)' = Owner(s)
    BY <1>6 DEF Owner
  <2>2. Owner(SourceOf[j])' = Owner(SourceOf[j]) \cup {j}
    BY <1>6 DEF Owner
  <2>3. lockLapses = 0 => Owner(SourceOf[j]) = {}
    <3>1. \A k \in Owner(SourceOf[j]) : k \in Job
      BY DEF Owner
    <3> QED BY <1>1, <3>1 DEF JobsLock
  <2> QED BY <1>1, <1>6, <2>1, <2>2, <2>3 DEF JobsLock
<1> QED BY <1>3, <1>4, <1>5, <1>7, <1>8

\* Calls of run() without the lock.
LEMMA JobsUnlocked ==
  ASSUME JobsAssumption, JobsInv, NEW j \in Job,
         Jobs!MissWithoutRedis(j) \/ Jobs!Wake(j)
  PROVE  JobsInv'
<1> USE DEF JobsInv, JobsAssumption
<1>1. PICK m \in {"bare", "late", "retry"} : m # "retry" /\ Jobs!Post(j, m, idle)
  BY DEF Jobs!MissWithoutRedis, Jobs!Wake
<1>2. /\ jobPc[j] \in {"starting", "sleeping"} /\ mode[j] = "none"
      /\ UNCHANGED <<queue, active, result, dead, leaving, lock, artifacts,
                     built, lockLapses>>
  BY DEF Jobs!MissWithoutRedis, Jobs!Wake, Jobs!slotVars, JobsProgress
<1>3. Pooled(idle, Job \ {j}) /\ idle # <<>> /\ jobPc[j] \in UnderWay
  BY <1>2, JobsFreed, JobsSpare DEF UnderWay
<1>4. PICK stack : stack = idle
  OBVIOUS
<1>5. Jobs!Post(j, m, stack) /\ Pooled(stack, Job \ {j}) /\ stack # <<>>
  BY <1>1, <1>3, <1>4 DEF Jobs!Post
<1>6. /\ result' \in [Job -> Jobs!Result] /\ lock' \in [Source -> Job \cup {Nil}]
      /\ dead \subseteq dead' /\ dead' \subseteq 1..MaxWorkers /\ leaving' \subseteq dead'
  BY <1>2 DEF JobsTypes
<1>7. SourceOf[j] \in Source
  OBVIOUS
<1> QED BY <1>1, <1>2, <1>3, <1>5, <1>6, <1>7, JobsRun

\* Steps of a job that touch neither its thread nor a lock.
LEMMA JobsMoves ==
  ASSUME JobsAssumption, JobsInv, NEW j \in Job,
         Jobs!PrepareFails(j) \/ Jobs!CacheHit(j) \/ Jobs!Miss(j) \/ Jobs!LockTaken(j)
  PROVE  JobsInv'
<1> USE DEF JobsInv, JobsAssumption
<1>1. PICK v \in {"settling", "locking", "sleeping"} :
        /\ jobPc' = [jobPc EXCEPT ![j] = v]
        /\ v = "settling" \/ UNCHANGED result
  BY DEF Jobs!PrepareFails, Jobs!CacheHit, Jobs!Miss, Jobs!LockTaken
<1>2. /\ jobPc[j] \in {"starting", "locking"} /\ mode[j] = "none"
      /\ UNCHANGED <<queue, active, mode, worker, posts, idle, made, dead, leaving,
                     lock, artifacts, built, lockLapses>>
  BY DEF Jobs!PrepareFails, Jobs!CacheHit, Jobs!Miss, Jobs!LockTaken, Jobs!slotVars, Jobs!poolVars,
     JobsProgress
<1>3. /\ result' \in [Job -> Jobs!Result]
      /\ \A k \in Job : \/ result'[k] = result[k]
                        \/ result'[k] = "cached" /\ SourceOf[k] \in built
                        \/ result'[k] = "unprepared"
  BY DEF Jobs!PrepareFails, Jobs!CacheHit, Jobs!Miss, Jobs!LockTaken, JobsTypes, Jobs!Result
<1>4. JobsTypes'
  BY <1>1, <1>2, <1>3 DEF JobsTypes, Jobs!Pc
<1>5. JobsSlots'
  BY <1>1, <1>2, JobsSlotsKept DEF UnderWay, Jobs!slotVars
<1>6. jobPc'[j] = v /\ \A k \in Job \ {j} : jobPc'[k] = jobPc[k]
  BY <1>1 DEF JobsTypes
<1>7. JobsPool'
  BY <1>2, <1>6, JobsPoolKept
<1>8. JobsProgress'
  BY <1>2, <1>3, <1>6 DEF JobsProgress
<1>9. JobsLock'
  BY <1>2, <1>6 DEF JobsLock, Owner
<1> QED BY <1>4, <1>5, <1>7, <1>8, <1>9

\* Every step of the service keeps the invariant.
LEMMA JobsStep ==
  ASSUME JobsAssumption, JobsInv, [Jobs!Next]_Jobs!vars
  PROVE  JobsInv'
<1>0. CASE UNCHANGED Jobs!vars
  <2>1. UNCHANGED <<queue, active, jobPc, mode, result, worker, posts, idle, made,
                    dead, leaving, lock, artifacts, built, lockLapses>>
    BY <1>0 DEF Jobs!vars
  <2>2. JobsTypes' /\ JobsProgress'
    BY <2>1 DEF JobsInv, JobsTypes, JobsProgress
  <2>3. JobsSlots'
    BY <2>1 DEF JobsInv, JobsSlots
  <2>4. JobsPool' /\ JobsLock'
    BY <2>1, JobsPoolKept DEF JobsInv, JobsLock, Owner
  <2> QED BY <2>2, <2>3, <2>4 DEF JobsInv
<1>1. ASSUME NEW j \in Job, Jobs!Submit(j) \/ Jobs!Progress(j)
      PROVE  JobsInv'
  BY <1>1, JobsSubmit, JobsSettle, JobsAnswer, JobsUnlock, JobsTakeLock,
     JobsUnlocked, JobsMoves DEF Jobs!Progress
<1>2. ASSUME NEW j \in Job, Jobs!WorkerDies(j)
      PROVE  JobsInv'
  <2>1. worker[j] \in 1..MaxWorkers
    BY <1>2 DEF JobsInv, JobsPool, JobsTypes, Jobs!WorkerDies
  <2>2. dead \subseteq 1..MaxWorkers /\ leaving \subseteq dead
    BY DEF JobsInv, JobsTypes
  <2>3. /\ dead' = dead \cup {worker[j]}
        /\ leaving' \in {leaving, leaving \cup {worker[j]}}
    BY <1>2 DEF Jobs!WorkerDies
  <2>4. /\ dead \subseteq dead' /\ dead' \subseteq 1..MaxWorkers
        /\ leaving' \subseteq dead' /\ dead' # {}
    BY <2>1, <2>2, <2>3
  <2>5. /\ jobPc[j] = "running" /\ Jobs!RunFails(j)
        /\ UNCHANGED <<queue, active, lock, artifacts, built, lockLapses>>
    BY <1>2 DEF Jobs!WorkerDies, Jobs!slotVars
  <2> QED BY <2>4, <2>5, JobsRunFails
<1>3. ASSUME NEW w \in leaving, Jobs!WorkerExits(w)
      PROVE  JobsInv'
  <2>1. /\ dead \subseteq 1..MaxWorkers /\ leaving \subseteq dead
        /\ leaving' = leaving \ {w} /\ dead' = dead
    BY <1>3 DEF JobsInv, JobsTypes, Jobs!WorkerExits
  <2>2. /\ dead \subseteq dead' /\ dead' \subseteq 1..MaxWorkers
        /\ leaving' \subseteq dead' /\ dead' # {}
    BY <2>1
  <2>3. UNCHANGED <<queue, active, lock, artifacts, built, lockLapses>>
    BY <1>3 DEF Jobs!WorkerExits, Jobs!slotVars
  <2>4. ASSUME NEW j \in Job, worker[j] = w, Jobs!RunFails(j)
        PROVE  JobsInv'
    <3>1. jobPc[j] = "running"
      BY <2>1, <2>4 DEF JobsInv, JobsPool
    <3> QED BY <2>2, <2>3, <2>4, <3>1, JobsRunFails
  <2>5. CASE UNCHANGED <<Jobs!jobVars, idle, made>>
    <3>1. UNCHANGED <<jobPc, mode, result, worker, posts, idle, made>>
      BY <2>5 DEF Jobs!jobVars
    <3>2. JobsTypes' /\ JobsProgress'
      BY <2>1, <2>2, <2>3, <3>1 DEF JobsInv, JobsTypes, JobsProgress
    <3>3. JobsSlots' /\ JobsLock'
      BY <2>3, <3>1 DEF JobsInv, JobsSlots, JobsLock, Owner
    <3>4. JobsPool'
      BY <3>1, JobsPoolKept DEF JobsInv
    <3> QED BY <3>2, <3>3, <3>4 DEF JobsInv
  <2> QED BY <1>3, <2>4, <2>5 DEF Jobs!WorkerExits
<1>4. ASSUME NEW s \in Source, Jobs!LockExpires(s) \/ Jobs!Forget(s)
      PROVE  JobsInv'
  <2>1. UNCHANGED <<queue, active, jobPc, mode, result, worker, posts, idle, made,
                    dead, leaving, built>>
    BY <1>4 DEF Jobs!LockExpires, Jobs!Forget, Jobs!slotVars, Jobs!jobVars,
       Jobs!poolVars
  <2>2. artifacts' \subseteq artifacts
    BY <1>4 DEF Jobs!LockExpires, Jobs!Forget
  <2>3. \/ UNCHANGED <<lock, lockLapses>>
        \/ lock' = [lock EXCEPT ![s] = Nil] /\ lockLapses' = lockLapses + 1
    BY <1>4 DEF Jobs!LockExpires, Jobs!Forget
  <2>4. JobsTypes' /\ JobsProgress'
    <3>1. lock' \in [Source -> Job \cup {Nil}] /\ lockLapses' \in Nat
      <4>1. lock \in [Source -> Job \cup {Nil}] /\ lockLapses \in Nat
        BY DEF JobsInv, JobsTypes
      <4>2. [lock EXCEPT ![s] = Nil] \in [Source -> Job \cup {Nil}]
        BY <4>1
      <4> QED BY <2>3, <4>1, <4>2
    <3>2. artifacts' \subseteq built'
      BY <2>1, <2>2 DEF JobsInv, JobsTypes
    <3> QED BY <2>1, <3>1, <3>2 DEF JobsInv, JobsTypes, JobsProgress
  <2>5. JobsSlots' /\ JobsPool'
    BY <2>1, JobsPoolKept DEF JobsInv, JobsSlots
  <2>6. JobsLock'
    <3>1. \A t \in Source : Owner(t)' = Owner(t)
      BY <2>1 DEF Owner
    <3>2. lockLapses \in Nat
      BY DEF JobsInv, JobsTypes
    <3>3. \A t \in Source : lock'[t] \in {lock[t], Nil}
      BY <2>3 DEF JobsInv, JobsTypes
    <3> QED BY <2>3, <3>1, <3>2, <3>3 DEF JobsInv, JobsLock
  <2> QED BY <2>4, <2>5, <2>6 DEF JobsInv
<1> QED BY <1>0, <1>1, <1>2, <1>3, <1>4 DEF Jobs!Next

\* The queue, the slots, the threads and the locks agree (compileQueued,
\* WorkerPool.run).
THEOREM JobsInvariance == ASSUME JobsAssumption PROVE Jobs!Spec => []JobsInv
<1>1. Jobs!Init => JobsInv
  BY JobsInit
<1>2. JobsInv /\ [Jobs!Next]_Jobs!vars => JobsInv'
  BY JobsStep
<1> QED BY <1>1, <1>2, PTL DEF Jobs!Spec

\* The instance has the cardinality of sets of its own.
LEMMA JobsCardinality == \A S : Jobs!Cardinality(S) = Cardinality(S)
  BY DEF Jobs!Cardinality, Cardinality

\* pump(): the counter of slots is exact, and no job waits beside a free one.
THEOREM SlotsAreExact == ASSUME JobsAssumption PROVE Jobs!Spec => []Jobs!SlotsExact
<1>1. ASSUME JobsInv PROVE Jobs!SlotsExact
  <2>1. Jobs!InFlight = Slotted(jobPc)
    BY <1>1, SlottedInFlight DEF JobsInv
  <2> QED BY <1>1, <2>1, JobsCardinality
    DEF JobsInv, JobsSlots, Jobs!SlotsExact
<1> QED BY <1>1, JobsInvariance, PTL

\* WorkerPool: every thread is idle or has one job, whoever died meanwhile.
LEMMA JobsPoolConserved ==
  ASSUME JobsAssumption, JobsTypes, JobsPool
  PROVE  Jobs!PoolConserved
<1>0. made = MaxWorkers
  BY DEF JobsTypes
<1> SUFFICES ASSUME NEW w \in 1..made
             PROVE  Cardinality({i \in 1..Len(idle) : idle[i] = w})
                      + Cardinality({j \in Job : worker[j] = w}) = 1
  BY <1>0, JobsCardinality, Zenon DEF Jobs!PoolConserved
<1> w \in 1..MaxWorkers
  BY <1>0
<1> DEFINE I == {i \in 1..Len(idle) : idle[i] = w}
           J == {j \in Job : worker[j] = w}
<1>1. CASE \E i \in 1..Len(idle) : idle[i] = w
  <2>1. PICK i \in 1..Len(idle) : idle[i] = w
    BY <1>1
  <2>2. I = {i} /\ J = {}
    BY <2>1 DEF JobsPool, Pooled, Distinct
  <2>3. Cardinality(I) = 1 /\ Cardinality(J) = 0
    BY <2>2, FS_Singleton, FS_EmptySet
  <2> HIDE DEF I, J
  <2>4. Cardinality(I) + Cardinality(J) = 1
    BY <2>3
  <2> QED BY <2>4 DEF I, J
<1>2. CASE ~\E i \in 1..Len(idle) : idle[i] = w
  <2>1. PICK j \in Job : worker[j] = w
    BY <1>2 DEF JobsPool, Pooled
  <2>2. J = {j} /\ I = {}
    BY <1>2, <2>1 DEF JobsPool, Pooled
  <2>3. Cardinality(J) = 1 /\ Cardinality(I) = 0
    BY <2>2, FS_Singleton, FS_EmptySet
  <2> HIDE DEF I, J
  <2>4. Cardinality(I) + Cardinality(J) = 1
    BY <2>3
  <2> QED BY <2>4 DEF I, J
<1> QED BY <1>1, <1>2

\* No thread is lost and none is doubled (WorkerPool.run, cleanup).
THEOREM PoolIsConserved ==
  ASSUME JobsAssumption
  PROVE  Jobs!Spec => []Jobs!PoolConserved
<1>1. JobsInv => Jobs!PoolConserved
  BY JobsPoolConserved DEF JobsInv
<1> QED BY <1>1, JobsInvariance, PTL

\* compileOnce(): what the cache answers was built.
THEOREM HitsAreBuilt ==
  ASSUME JobsAssumption
  PROVE  Jobs!Spec => []Jobs!HitsWereBuilt
<1>1. JobsInv => Jobs!HitsWereBuilt
  BY DEF JobsInv, JobsProgress, Jobs!HitsWereBuilt
<1> QED BY <1>1, JobsInvariance, PTL

\* executeUnderLock(): the lock excludes as long as none has expired.
LEMMA JobsLockExcludes ==
  ASSUME JobsAssumption, JobsTypes, JobsLock
  PROVE  Jobs!LockExcludes
<1> SUFFICES \A s \in Source :
               /\ lockLapses = 0 => Cardinality(Owner(s)) <= 1
               /\ lock[s] # Nil => Owner(s) # {}
  BY JobsCardinality, Zenon DEF Jobs!LockExcludes, Owner
<1> TAKE s \in Source
<1>1. lock[s] # Nil => Owner(s) # {}
  BY DEF JobsLock
<1>2. ASSUME lockLapses = 0
      PROVE  Cardinality(Owner(s)) <= 1
  <2>1. CASE Owner(s) = {}
    BY <2>1, FS_EmptySet
  <2>2. CASE Owner(s) # {}
    <3>1. Owner(s) = {lock[s]}
      BY <1>2, <2>2 DEF JobsLock
    <3>2. Cardinality(Owner(s)) = 1
      BY <3>1, FS_Singleton
    <3> QED BY <3>2
  <2> QED BY <2>1, <2>2
<1> QED BY <1>1, <1>2

\* At most one job runs under the lock of a source, and a lock that stands has
\* an owner (executeUnderLock).
THEOREM LocksExclude ==
  ASSUME JobsAssumption
  PROVE  Jobs!Spec => []Jobs!LockExcludes
<1>1. JobsInv => Jobs!LockExcludes
  BY JobsLockExcludes DEF JobsInv
<1> QED BY <1>1, JobsInvariance, PTL

\* executeUnderLock(): a job is built at most twice, and again only after a
\* death.
LEMMA JobsRepeated ==
  ASSUME JobsTypes, JobsProgress
  PROVE  Jobs!RepeatedOnceAfterDeath
<1> SUFFICES ASSUME NEW j \in Job
             PROVE  posts[j] <= 2 /\ (posts[j] = 2 => dead # {})
  BY DEF Jobs!RepeatedOnceAfterDeath
<1>1. mode[j] \in {"none", "bare", "locked", "late", "retry"}
  BY DEF JobsTypes, Jobs!Mode
<1>2. posts[j] \in {0, 1} \/ (posts[j] = 2 /\ dead # {})
  <2>1. /\ mode[j] = "none" => posts[j] = 0
        /\ mode[j] \in {"bare", "locked", "late"} => posts[j] = 1
        /\ mode[j] = "retry" => posts[j] = 2 /\ dead # {}
    BY DEF JobsProgress
  <2> QED BY <1>1, <2>1
<1> QED BY <1>2

\* No job is built three times, and none twice without a death (executeUnderLock).
THEOREM OneRepeatAfterDeath ==
  ASSUME JobsAssumption
  PROVE  Jobs!Spec => []Jobs!RepeatedOnceAfterDeath
<1>1. JobsInv => Jobs!RepeatedOnceAfterDeath
  BY JobsRepeated DEF JobsInv
<1> QED BY <1>1, JobsInvariance, PTL
-----------------------------------------------------------------------------
(* The older oracle queue *)

State == {"none", "Pending", "Processing", "Completed", "DeadLetter"}

TasksTypes ==
  /\ pending \in Seq(Task) /\ processing \in [Worker -> [Task -> Nat]]
  /\ data \in [Task -> [state : State, retries : Nat]]
  /\ taskPc \in [Tasks!Actor -> Tasks!Pc]
  /\ subject \in [Tasks!Actor -> Task \cup {Nil}]
  /\ from \in [Sweeper -> Worker \cup {Nil}]
  /\ goal \in [Tasks!Actor -> [state : State, retries : Nat \cup {-1}]]
  /\ copy \in [Tasks!Actor -> [state : State, retries : Nat]]
  /\ fails \in [Task -> Nat] /\ moves \in Nat

\* Who is at work has a task, a sweeper also a list; and what is not being
\* written is not there.
TasksActors ==
  /\ \A a \in Tasks!Actor :
       /\ taskPc[a] \notin {"idle", "crashed"} => subject[a] \in Task
       /\ taskPc[a] \notin {"reading", "writing"} => goal[a] = Tasks!NoGoal
       /\ taskPc[a] \in {"reading", "writing"} => goal[a].state # "none"
       /\ taskPc[a] # "writing" => copy[a] = Tasks!NoData
  /\ \A s \in Sweeper : /\ taskPc[s] \in {"idle", "spotted", "moving", "reading", "writing"}
                        /\ taskPc[s] \in {"spotted", "moving"} => from[s] \in Worker
                        /\ taskPc[s] \in {"reading", "writing"} => goal[s].state = "Pending"
  /\ \A w \in Worker : taskPc[w] \notin {"spotted", "moving"}

\* A task that is pending, in a worker's list, or in somebody's hands.
Listed(t) == \E i \in 1..Len(pending) : pending[i] = t
Held(t) == \E w \in Worker : processing[w][t] > 0

\* Tasks come from enqueue(), and stay in a list until they are ended.
TasksKept ==
  /\ \A t \in Task : data[t].state # "none" /\ t \notin ended => Listed(t) \/ Held(t)
  /\ \A t \in Task : Listed(t) \/ Held(t) => data[t].state # "none"
  /\ \A a \in Tasks!Actor : subject[a] \in Task => data[subject[a]].state # "none"
  /\ \A w \in Worker : taskPc[w] \in {"removing", "discarding"} => subject[w] \in ended

\* Retries that are stored, read or about to be written are failures that
\* happened, and none of them is still to be counted by a worker in its catch
\* block.
Catching(t) == {w \in Worker : taskPc[w] = "failed" /\ subject[w] = t}
Uncounted == [t \in Task |-> Cardinality(Catching(t))]
TasksRetries ==
  /\ \A t \in Task : data[t].retries + Uncounted[t] <= fails[t]
  /\ \A a \in Tasks!Actor : subject[a] \in Task =>
       /\ copy[a].retries + Uncounted[subject[a]] <= fails[subject[a]]
       /\ goal[a].retries + Uncounted[subject[a]] <= fails[subject[a]]
  /\ \A a \in Tasks!Actor : goal[a].state = "DeadLetter" =>
       subject[a] \in late \/ fails[subject[a]] > MaxRetries
  /\ Tasks!DeadLetterJustified

\* A worker at work is alone with its task: the task is not pending, and no
\* other worker has it in its list or in its hands.
AtWork(w) == taskPc[w] \notin {"idle", "crashed"}
TasksAlone ==
  /\ \A w \in Worker : AtWork(w) => ~Listed(subject[w])
  /\ \A v, w \in Worker : AtWork(w) /\ v # w => processing[v][subject[w]] = 0
  /\ \A v, w \in Worker : AtWork(v) /\ AtWork(w) /\ v # w => subject[v] # subject[w]

\* As long as the sweeper judges rightly, this is so, and a task is in one list
\* only.
TasksSingle ==
  ~misjudged =>
    /\ Distinct(pending)
    /\ \A w \in Worker, t \in Task : processing[w][t] \in {0, 1}
    /\ \A w \in Worker, t \in Task : processing[w][t] > 0 =>
         ~Listed(t) /\ \A v \in Worker \ {w} : processing[v][t] = 0
    /\ TasksAlone

TasksInv ==
  TasksTypes /\ TasksActors /\ TasksKept /\ TasksRetries /\ TasksSingle

LEMMA TasksCardinality == \A S : Tasks!Cardinality(S) = Cardinality(S)
  BY DEF Tasks!Cardinality, Cardinality

LEMMA CatchingFinite ==
  ASSUME TasksAssumption, NEW t \in Task
  PROVE  IsFiniteSet(Catching(t)) /\ Uncounted[t] \in Nat
<1>1. IsFiniteSet(Catching(t))
  BY FS_Subset DEF TasksAssumption, Catching
<1> QED BY <1>1, FS_CardinalityType DEF Uncounted

\* Only Fail makes a worker enter its catch block.
LEMMA FewerCatching ==
  ASSUME TasksAssumption,
         \A w \in Worker : taskPc'[w] = "failed" =>
           taskPc[w] = "failed" /\ subject'[w] = subject[w]
  PROVE  \A t \in Task : /\ Uncounted'[t] \in Nat /\ Uncounted[t] \in Nat
                         /\ Uncounted'[t] <= Uncounted[t]
<1> TAKE t \in Task
<1>1. Catching(t)' \subseteq Catching(t)
  BY DEF Catching
<1> QED BY <1>1, CatchingFinite, FS_Subset, FS_CardinalityType DEF Uncounted

LEMMA TasksInit == ASSUME TasksAssumption, Tasks!Init PROVE TasksInv
<1> USE DEF TasksAssumption, Tasks!Init
<1>1. TasksTypes
  BY EmptySeq DEF TasksTypes, State, Tasks!Pc, Tasks!NoData, Tasks!NoGoal, Tasks!Keep
<1>2. TasksActors
  BY DEF TasksActors, Tasks!Actor, Tasks!NoGoal, Tasks!NoData
<1>3. Len(pending) = 0
  BY EmptySeq
<1>4. TasksKept
  BY <1>3 DEF TasksKept, Listed, Held, Tasks!NoData, Tasks!Actor
<1>5. TasksRetries
  <2>1. \A t : Catching(t) = {}
    BY DEF Catching, Tasks!Actor
  <2>2. \A t \in Task : Uncounted[t] = 0
    BY <2>1, FS_EmptySet DEF Uncounted
  <2> QED
    BY <2>2 DEF TasksRetries, Tasks!NoData, Tasks!NoGoal, Tasks!DeadLetterJustified
<1>6. TasksSingle
  BY <1>3 DEF TasksSingle, TasksAlone, AtWork, Distinct, Tasks!Actor
<1> QED BY <1>1, <1>2, <1>4, <1>5, <1>6 DEF TasksInv

\* What adding a task at either end does to the list.
LEMMA Pushed ==
  ASSUME NEW q \in Seq(Task), NEW t \in Task, NEW r,
         r = Append(q, t) \/ r = <<t>> \o q
  PROVE  /\ r \in Seq(Task)
         /\ \A u : (\E i \in 1..Len(r) : r[i] = u)
                     <=> u = t \/ \E i \in 1..Len(q) : q[i] = u
         /\ Distinct(q) /\ (\A i \in 1..Len(q) : q[i] # t) => Distinct(r)
<1>1. CASE r = Append(q, t)
  <2>1. /\ r \in Seq(Task) /\ Len(r) = Len(q) + 1 /\ Len(q) \in Nat
        /\ \A i \in 1..Len(q) : r[i] = q[i]
        /\ r[Len(q) + 1] = t
    BY <1>1, AppendProperties
  <2>2. \A i \in 1..Len(r) : i \in 1..Len(q) \/ i = Len(q) + 1
    BY <2>1
  <2>3. Len(q) + 1 \in 1..Len(r) /\ \A i \in 1..Len(q) : i \in 1..Len(r)
    BY <2>1
  <2>4. ASSUME NEW u
        PROVE  (\E i \in 1..Len(r) : r[i] = u)
                 <=> u = t \/ \E i \in 1..Len(q) : q[i] = u
    BY <2>1, <2>2, <2>3
  <2>5. Distinct(q) /\ (\A i \in 1..Len(q) : q[i] # t) => Distinct(r)
    BY <2>1, <2>2 DEF Distinct
  <2> QED BY <2>1, <2>4, <2>5
<1>2. CASE r = <<t>> \o q
  <2>1. /\ r \in Seq(Task) /\ Len(r) = 1 + Len(q) /\ Len(q) \in Nat
        /\ \A i \in 1..Len(q) : r[i + 1] = q[i]
        /\ r[1] = t
    BY <1>2
  <2>2. \A i \in 1..Len(r) : i = 1 \/ (i - 1 \in 1..Len(q) /\ r[i] = q[i - 1])
    BY <2>1
  <2>3. 1 \in 1..Len(r) /\ \A i \in 1..Len(q) : i + 1 \in 1..Len(r)
    BY <2>1
  <2>4. ASSUME NEW u
        PROVE  (\E i \in 1..Len(r) : r[i] = u)
                 <=> u = t \/ \E i \in 1..Len(q) : q[i] = u
    <3>1. ASSUME NEW i \in 1..Len(r), r[i] = u
          PROVE  u = t \/ \E k \in 1..Len(q) : q[k] = u
      BY <2>1, <2>2, <3>1
    <3>2. u = t => \E i \in 1..Len(r) : r[i] = u
      BY <2>1, <2>3
    <3>3. ASSUME NEW i \in 1..Len(q), q[i] = u
          PROVE  \E k \in 1..Len(r) : r[k] = u
      BY <2>1, <2>3, <3>3
    <3> QED BY <3>1, <3>2, <3>3
  <2>5. ASSUME Distinct(q), \A i \in 1..Len(q) : q[i] # t,
               NEW i \in 1..Len(r), NEW k \in 1..Len(r), r[i] = r[k]
        PROVE  i = k
    <3>1. CASE i = 1 \/ k = 1
      BY <2>1, <2>2, <2>5, <3>1
    <3>2. CASE i # 1 /\ k # 1
      <4>1. i - 1 = k - 1
        BY <2>2, <2>5, <3>2 DEF Distinct
      <4> QED BY <2>1, <4>1
    <3> QED BY <3>1, <3>2
  <2> QED BY <2>1, <2>4, <2>5 DEF Distinct
<1> QED BY <1>1, <1>2

\* enqueue() and time.
LEMMA TasksEnqueue ==
  ASSUME TasksAssumption, TasksInv, NEW t \in Task, Tasks!Enqueue(t)
  PROVE  TasksInv'
<1> USE DEF TasksInv, TasksAssumption
<1>1. /\ data[t].state = "none" /\ data' = [data EXCEPT ![t].state = "Pending"]
      /\ pending' = Append(pending, t) \/ pending' = <<t>> \o pending
      /\ UNCHANGED <<processing, dlq, late, taskPc, subject, from, goal, copy,
                     ended, fails, misjudged, moves>>
  BY DEF Tasks!Enqueue, Tasks!timeVars, Tasks!actorVars, Tasks!historyVars
<1>2. /\ pending' \in Seq(Task)
      /\ \A u \in Task : Listed(u)' <=> u = t \/ Listed(u)
      /\ Distinct(pending) /\ ~Listed(t) => Distinct(pending')
  <2>1. PICK r : r = pending'
    OBVIOUS
  <2>2. pending \in Seq(Task) /\ (r = Append(pending, t) \/ r = <<t>> \o pending)
    BY <1>1, <2>1 DEF TasksTypes
  <2>3. /\ r \in Seq(Task)
        /\ \A u : (\E i \in 1..Len(r) : r[i] = u)
                    <=> u = t \/ \E i \in 1..Len(pending) : pending[i] = u
        /\ Distinct(pending) /\ (\A i \in 1..Len(pending) : pending[i] # t)
             => Distinct(r)
    BY <2>2, Pushed
  <2> QED BY <2>1, <2>3 DEF Listed
<1>3. /\ data' \in [Task -> [state : State, retries : Nat]]
      /\ data'[t].state = "Pending"
      /\ \A u \in Task : data'[u].retries = data[u].retries
      /\ \A u \in Task \ {t} : data'[u] = data[u]
  BY <1>1 DEF TasksTypes, State
<1>4. \A u \in Task : Held(u)' <=> Held(u)
  BY <1>1 DEF Held
<1>5. TasksTypes' /\ TasksActors'
  BY <1>1, <1>2, <1>3 DEF TasksTypes, TasksActors
<1>6. TasksKept'
  BY <1>1, <1>2, <1>3, <1>4 DEF TasksKept
<1>7. TasksRetries'
  <2>1. Uncounted' = Uncounted
    BY <1>1 DEF Uncounted, Catching
  <2> QED BY <1>1, <1>3, <2>1 DEF TasksRetries, Tasks!DeadLetterJustified
<1>8. TasksSingle'
  <2>1. ~Listed(t) /\ ~Held(t)
    BY <1>1 DEF TasksKept
  <2>2. \A w \in Worker : AtWork(w) => subject[w] \in Task \ {t}
    <3> TAKE w \in Worker
    <3> HAVE AtWork(w)
    <3>1. subject[w] \in Task /\ w \in Tasks!Actor
      BY DEF AtWork, TasksActors, Tasks!Actor
    <3> QED BY <1>1, <3>1 DEF TasksKept
  <2>3. TasksAlone => TasksAlone'
    BY <1>1, <1>2, <2>2 DEF TasksAlone, AtWork
  <2> QED BY <1>1, <1>2, <2>1, <2>3 DEF TasksSingle, Held
<1> QED BY <1>5, <1>6, <1>7, <1>8

LEMMA TasksTime ==
  ASSUME TasksAssumption, TasksInv, NEW t \in Task,
         Tasks!GrowsOld(t) \/ Tasks!DeadlinePasses(t)
  PROVE  TasksInv'
<1> USE DEF TasksInv
<1>1. /\ late \subseteq late'
      /\ UNCHANGED <<pending, processing, data, dlq, taskPc, subject, from, goal, copy,
                     ended, fails, misjudged, moves>>
  BY DEF Tasks!GrowsOld, Tasks!DeadlinePasses, Tasks!listVars, Tasks!actorVars,
     Tasks!historyVars
<1>2. TasksTypes' /\ TasksActors' /\ TasksKept'
  BY <1>1 DEF TasksTypes, TasksActors, TasksKept, Listed, Held
<1>3. TasksRetries'
  <2>1. Uncounted' = Uncounted
    BY <1>1 DEF Uncounted, Catching
  <2> QED BY <1>1, <2>1 DEF TasksRetries, Tasks!DeadLetterJustified
<1>4. TasksSingle'
  BY <1>1 DEF TasksSingle, TasksAlone, AtWork, Listed
<1> QED BY <1>2, <1>3, <1>4

\* An actor who writes no task and does not come to a catch block.
LEMMA RetriesKept ==
  ASSUME TasksAssumption, TasksTypes, TasksRetries, NEW a \in Tasks!Actor,
         UNCHANGED <<data, dlq, late, fails>>,
         \A w \in Worker : taskPc'[w] = "failed" =>
           taskPc[w] = "failed" /\ subject'[w] = subject[w],
         \A b \in Tasks!Actor \ {a} :
           copy'[b] = copy[b] /\ goal'[b] = goal[b] /\ subject'[b] = subject[b],
         copy'[a].retries \in Int /\ goal'[a].retries \in Int,
         subject'[a] \in Task =>
           /\ \/ copy'[a].retries <= data[subject'[a]].retries
              \/ copy'[a] = copy[a] /\ subject'[a] = subject[a]
           /\ \/ goal'[a].retries <= data[subject'[a]].retries
              \/ goal'[a] = goal[a] /\ subject'[a] = subject[a],
         \/ goal'[a].state = "DeadLetter" => subject'[a] \in late
         \/ goal'[a] = goal[a] /\ subject'[a] = subject[a]
  PROVE  TasksRetries'
<1>1. \A u \in Task : /\ Uncounted'[u] \in Nat /\ Uncounted[u] \in Nat
                      /\ Uncounted'[u] <= Uncounted[u]
  BY FewerCatching
<1>2. \A u \in Task : data'[u].retries + Uncounted'[u] <= fails'[u]
  <2> TAKE u \in Task
  <2>1. data[u].retries \in Int /\ fails[u] \in Int
    BY DEF TasksTypes
  <2> QED BY <1>1, <2>1 DEF TasksRetries
<1>3. \A b \in Tasks!Actor : subject'[b] \in Task =>
        /\ copy'[b].retries + Uncounted'[subject'[b]] <= fails'[subject'[b]]
        /\ goal'[b].retries + Uncounted'[subject'[b]] <= fails'[subject'[b]]
  <2> TAKE b \in Tasks!Actor
  <2> HAVE subject'[b] \in Task
  <2>1. /\ goal[b].retries \in Int /\ copy[b].retries \in Int
        /\ fails[subject'[b]] \in Int /\ data[subject'[b]].retries \in Int
    BY DEF TasksTypes
  <2>2. data[subject'[b]].retries + Uncounted[subject'[b]] <= fails[subject'[b]]
    BY DEF TasksRetries
  <2>3. subject[b] = subject'[b] =>
          /\ copy[b].retries + Uncounted[subject'[b]] <= fails[subject'[b]]
          /\ goal[b].retries + Uncounted[subject'[b]] <= fails[subject'[b]]
    BY DEF TasksRetries
  <2>4. /\ Uncounted'[subject'[b]] \in Nat /\ Uncounted[subject'[b]] \in Nat
        /\ Uncounted'[subject'[b]] <= Uncounted[subject'[b]]
    BY <1>1
  <2>5. CASE b = a
    <3>1. copy'[b].retries + Uncounted'[subject'[b]] <= fails'[subject'[b]]
      BY <2>1, <2>2, <2>3, <2>4, <2>5
    <3>2. goal'[b].retries + Uncounted'[subject'[b]] <= fails'[subject'[b]]
      BY <2>1, <2>2, <2>3, <2>4, <2>5
    <3> QED BY <3>1, <3>2
  <2>6. CASE b # a
    <3>1. /\ copy'[b] = copy[b] /\ goal'[b] = goal[b] /\ subject'[b] = subject[b]
          /\ fails' = fails
      BY <2>6
    <3> QED BY <2>1, <2>3, <2>4, <3>1
  <2> QED BY <2>5, <2>6
<1>4. \A b \in Tasks!Actor : goal'[b].state = "DeadLetter" =>
        subject'[b] \in late' \/ fails'[subject'[b]] > MaxRetries
  <2> TAKE b \in Tasks!Actor
  <2>1. goal[b].state = "DeadLetter" =>
          subject[b] \in late \/ fails[subject[b]] > MaxRetries
    BY DEF TasksRetries
  <2>2. CASE b = a
    BY <2>1, <2>2
  <2>3. CASE b # a
    BY <2>1, <2>3
  <2> QED BY <2>2, <2>3
<1> QED BY <1>2, <1>3, <1>4 DEF TasksRetries, Tasks!DeadLetterJustified

\* updateTaskState()
LEMMA TasksRead ==
  ASSUME TasksAssumption, TasksInv, NEW a \in Tasks!Actor, Tasks!ReadTask(a)
  PROVE  TasksInv'
<1> USE DEF TasksInv, TasksAssumption
<1>1. /\ taskPc[a] = "reading" /\ subject[a] \in Task
      /\ UNCHANGED <<pending, processing, data, dlq, late, subject, from, goal,
                     ended, fails, misjudged, moves>>
  BY DEF Tasks!ReadTask, Tasks!listVars, Tasks!timeVars, Tasks!historyVars, TasksActors
<1>2. /\ taskPc' = [taskPc EXCEPT ![a] = "writing"]
      /\ taskPc' \in [Tasks!Actor -> Tasks!Pc] /\ taskPc'[a] = "writing"
      /\ copy' \in [Tasks!Actor -> [state : State, retries : Nat]]
      /\ copy'[a] = data[subject[a]]
      /\ \A b \in Tasks!Actor \ {a} : copy'[b] = copy[b] /\ taskPc'[b] = taskPc[b]
  BY <1>1 DEF Tasks!ReadTask, TasksTypes, Tasks!Pc
<1>3. TasksTypes' /\ TasksActors'
  BY <1>1, <1>2 DEF TasksTypes, TasksActors, Tasks!Actor
<1>4. TasksKept'
  BY <1>1, <1>2 DEF TasksKept, Listed, Held, Tasks!Actor
<1>5. TasksRetries'
  <2>1. copy'[a].retries \in Int /\ goal'[a].retries \in Int
    BY <1>1, <1>2 DEF TasksTypes
  <2>2. copy'[a].retries <= data[subject'[a]].retries
    BY <1>1, <1>2, <2>1
  <2> QED BY <1>1, <1>2, <2>1, <2>2, RetriesKept DEF Tasks!Actor
<1>6. TasksSingle'
  BY <1>1, <1>2 DEF TasksSingle, TasksAlone, AtWork, Listed, Tasks!Actor
<1> QED BY <1>3, <1>4, <1>5, <1>6

LEMMA TasksWrite ==
  ASSUME TasksAssumption, TasksInv, NEW a \in Tasks!Actor, Tasks!WriteTask(a)
  PROVE  TasksInv'
<1> USE DEF TasksInv, TasksAssumption
<1> DEFINE t == subject[a]
           g == goal[a]
           n == IF g.retries = Tasks!Keep THEN copy[a].retries ELSE g.retries
<1>1. /\ taskPc[a] = "writing" /\ t \in Task
      /\ UNCHANGED <<pending, processing, late, from, fails, misjudged, moves>>
  BY DEF Tasks!WriteTask, Tasks!listVars, TasksActors
<1>2. /\ g \in [state : State, retries : Nat \cup {-1}] /\ g.state # "none"
      /\ n \in Nat
  BY <1>1 DEF TasksTypes, TasksActors, Tasks!Keep
<1>3. /\ data' = [data EXCEPT ![t] = [state |-> g.state, retries |-> n]]
      /\ dlq' = IF g.state = "DeadLetter" THEN dlq \cup {t} ELSE dlq
      /\ ended' = IF g.state \in Tasks!Final THEN ended \cup {t} ELSE ended
      /\ taskPc' = [taskPc EXCEPT ![a] = IF a \in Sweeper THEN "idle"
                                 ELSE CASE g.state = "Processing" -> "proving"
                                        [] g.state = "Pending" -> "returning"
                                        [] OTHER -> IF g.retries = Tasks!Keep
                                                    THEN "removing"
                                                    ELSE "discarding"]
      /\ subject' = IF a \in Sweeper THEN [subject EXCEPT ![a] = Nil] ELSE subject
      /\ goal' = [goal EXCEPT ![a] = Tasks!NoGoal]
      /\ copy' = [copy EXCEPT ![a] = Tasks!NoData]
  BY DEF Tasks!WriteTask
<1> HIDE DEF n
<1>4. /\ data' \in [Task -> [state : State, retries : Nat]]
      /\ data'[t].state = g.state /\ data'[t].retries = n
      /\ \A u \in Task \ {t} : data'[u] = data[u]
  BY <1>1, <1>2, <1>3 DEF TasksTypes
<1>5. PICK v \in {"idle", "proving", "returning", "removing", "discarding"} :
        /\ taskPc' = [taskPc EXCEPT ![a] = v]
        /\ v = "idle" <=> a \in Sweeper
        /\ v \in {"removing", "discarding"} => g.state \in Tasks!Final
  <2>1. CASE a \in Sweeper
    BY <1>3, <2>1
  <2>2. CASE a \notin Sweeper /\ g.state = "Processing"
    BY <1>3, <2>2
  <2>3. CASE a \notin Sweeper /\ g.state = "Pending"
    BY <1>3, <2>3
  <2>4. CASE a \notin Sweeper /\ g.state \in {"Completed", "DeadLetter"}
    BY <1>3, <2>4 DEF Tasks!Final
  <2> QED BY <1>2, <2>1, <2>2, <2>3, <2>4 DEF State
<1>6. /\ taskPc' \in [Tasks!Actor -> Tasks!Pc] /\ taskPc'[a] = v
      /\ goal' \in [Tasks!Actor -> [state : State, retries : Nat \cup {-1}]]
      /\ goal'[a] = Tasks!NoGoal
      /\ copy' \in [Tasks!Actor -> [state : State, retries : Nat]]
      /\ copy'[a] = Tasks!NoData
      /\ subject' \in [Tasks!Actor -> Task \cup {Nil}]
      /\ subject'[a] = IF a \in Sweeper THEN Nil ELSE t
  BY <1>1, <1>3, <1>5
  DEF TasksTypes, Tasks!Pc, Tasks!NoGoal, Tasks!NoData, Tasks!Keep, State
<1>7. \A b \in Tasks!Actor \ {a} : /\ copy'[b] = copy[b] /\ taskPc'[b] = taskPc[b]
                                   /\ goal'[b] = goal[b] /\ subject'[b] = subject[b]
  BY <1>3, <1>5 DEF TasksTypes
<1>8. TasksTypes'
  BY <1>1, <1>4, <1>6 DEF TasksTypes
<1>9. TasksActors'
  BY <1>1, <1>5, <1>6, <1>7 DEF TasksActors, Tasks!Actor
<1>10. TasksKept'
  BY <1>1, <1>2, <1>3, <1>4, <1>5, <1>6, <1>7
  DEF TasksKept, Listed, Held, Tasks!Actor, Tasks!Final
<1>11. TasksRetries'
  <2>1. \A u \in Task : /\ Uncounted'[u] \in Nat /\ Uncounted[u] \in Nat
                        /\ Uncounted'[u] <= Uncounted[u]
    BY <1>5, <1>6, <1>7, FewerCatching DEF Tasks!Actor
  <2>2. \A u \in Task : data'[u].retries + Uncounted'[u] <= fails'[u]
    <3>1. n + Uncounted[t] <= fails[t]
      BY <1>1 DEF TasksRetries, n
    <3> TAKE u \in Task
    <3>2. data[u].retries \in Int /\ fails[u] \in Int
      BY DEF TasksTypes
    <3>3. CASE u = t
      BY <1>1, <1>2, <1>4, <2>1, <3>1, <3>2, <3>3
    <3>4. CASE u # t
      BY <1>1, <1>4, <2>1, <3>2, <3>4 DEF TasksRetries
    <3> QED BY <3>3, <3>4
  <2>3. \A b \in Tasks!Actor : subject'[b] \in Task =>
          /\ copy'[b].retries + Uncounted'[subject'[b]] <= fails'[subject'[b]]
          /\ goal'[b].retries + Uncounted'[subject'[b]] <= fails'[subject'[b]]
    <3> TAKE b \in Tasks!Actor
    <3> HAVE subject'[b] \in Task
    <3>1. CASE b = a
      <4>1. subject'[a] = t
        BY <1>6, <3>1
      <4>2. Uncounted'[t] <= fails[t] /\ Uncounted'[t] \in Nat /\ fails[t] \in Nat
        <5>1. data[t].retries \in Nat /\ fails[t] \in Nat
          BY <1>1 DEF TasksTypes
        <5>2. data[t].retries + Uncounted[t] <= fails[t]
          BY <1>1 DEF TasksRetries
        <5> QED BY <1>1, <2>1, <5>1, <5>2
      <4> QED BY <1>1, <1>6, <3>1, <4>1, <4>2 DEF Tasks!NoGoal, Tasks!NoData, Tasks!Keep
    <3>2. CASE b # a
      <4>1. /\ goal[b].retries \in Int /\ copy[b].retries \in Int
            /\ fails[subject[b]] \in Int
        BY <1>7, <3>2 DEF TasksTypes
      <4>2. /\ copy[b].retries + Uncounted[subject[b]] <= fails[subject[b]]
            /\ goal[b].retries + Uncounted[subject[b]] <= fails[subject[b]]
        BY <1>7, <3>2 DEF TasksRetries
      <4> QED BY <1>1, <1>7, <2>1, <3>2, <4>1, <4>2
    <3> QED BY <3>1, <3>2
  <2>4. \A b \in Tasks!Actor : goal'[b].state = "DeadLetter" =>
          subject'[b] \in late' \/ fails'[subject'[b]] > MaxRetries
    BY <1>1, <1>6, <1>7 DEF TasksRetries, Tasks!NoGoal
  <2>5. Tasks!DeadLetterJustified'
    BY <1>1, <1>3 DEF TasksRetries, Tasks!DeadLetterJustified
  <2> QED BY <2>2, <2>3, <2>4, <2>5 DEF TasksRetries
<1>12. TasksSingle'
  <2>1. \A w \in Worker : /\ w \in Tasks!Actor /\ w \notin Sweeper
                          /\ AtWork(w)' => AtWork(w) /\ subject'[w] = subject[w]
    BY <1>1, <1>5, <1>6, <1>7 DEF AtWork, Tasks!Actor
  <2>2. TasksAlone => TasksAlone'
    BY <1>1, <2>1 DEF TasksAlone, Listed
  <2> QED BY <1>1, <2>2 DEF TasksSingle, Listed
<1> QED BY <1>8, <1>9, <1>10, <1>11, <1>12

\* A worker.
LEMMA TasksTake ==
  ASSUME TasksAssumption, TasksInv, NEW w \in Worker, Tasks!Take(w)
  PROVE  TasksInv'
<1> USE DEF TasksInv, TasksAssumption
<1>0. PICK t : t = pending[Len(pending)]
  OBVIOUS
<1>1. /\ taskPc[w] = "idle" /\ pending # <<>>
      /\ subject' = [subject EXCEPT ![w] = t]
      /\ processing' = [processing EXCEPT ![w][t] = @ + 1]
      /\ pending' = SubSeq(pending, 1, Len(pending) - 1)
      /\ taskPc' = [taskPc EXCEPT ![w] = "taken"]
      /\ UNCHANGED <<data, dlq, late, from, goal, copy, ended, fails, misjudged, moves>>
  BY <1>0 DEF Tasks!Take, Tasks!timeVars, Tasks!historyVars
<1>2. /\ pending' \in Seq(Task) /\ t \in Task /\ Listed(t)
      /\ \A u : Listed(u)' => Listed(u)
      /\ \A u : Listed(u) => u = t \/ Listed(u)'
      /\ Distinct(pending) => Distinct(pending') /\ ~Listed(t)'
  <2> DEFINE l == Len(pending) - 1
  <2>1. Len(pending) \in Nat /\ Len(pending) # 0 /\ pending \in Seq(Task)
    BY <1>1, EmptySeq DEF TasksTypes
  <2>2. l \in Nat /\ pending' = SubSeq(pending, 1, l) /\ Len(pending) = l + 1
    BY <1>1, <2>1
  <2>3. \A i \in 1..l : pending[i] \in Task
    BY <2>1, ElementOfSeq
  <2> HIDE DEF l
  <2>4. /\ SubSeq(pending, 1, l) \in Seq(Task)
        /\ Len(SubSeq(pending, 1, l)) = IF 1 <= l THEN l - 1 + 1 ELSE 0
        /\ \A i \in 1..(l - 1 + 1) : SubSeq(pending, 1, l)[i] = pending[1 + i - 1]
    BY <2>2, <2>3, SubSeqProperties
  <2>5. /\ pending' \in Seq(Task) /\ Len(pending') = l
        /\ \A i \in 1..l : pending'[i] = pending[i]
    BY <2>2, <2>4
  <2>6. l + 1 \in 1..Len(pending) /\ pending[l + 1] = t /\ t \in Task
    BY <1>0, <2>1, <2>2, ElementOfSeq
  <2>7. \A i \in 1..Len(pending) : i \in 1..l \/ i = l + 1
    BY <2>2
  <2>8. \A i \in 1..l : i \in 1..Len(pending) /\ i # l + 1
    BY <2>2
  <2>9. Distinct(pending) => Distinct(pending') /\ ~Listed(t)'
    BY <2>5, <2>6, <2>8 DEF Distinct, Listed
  <2> QED BY <2>5, <2>6, <2>7, <2>8, <2>9 DEF Listed
<1>3. w \in Tasks!Actor /\ w \notin Sweeper
  BY DEF Tasks!Actor
<1>4. /\ taskPc' \in [Tasks!Actor -> Tasks!Pc] /\ taskPc'[w] = "taken"
      /\ subject' \in [Tasks!Actor -> Task \cup {Nil}] /\ subject'[w] = t
      /\ \A a \in Tasks!Actor \ {w} : taskPc'[a] = taskPc[a] /\ subject'[a] = subject[a]
  BY <1>1, <1>2, <1>3 DEF TasksTypes, Tasks!Pc
<1>5. /\ processing' \in [Worker -> [Task -> Nat]]
      /\ processing'[w][t] = processing[w][t] + 1
      /\ \A v \in Worker, u \in Task : v # w \/ u # t => processing'[v][u] = processing[v][u]
  BY <1>1, <1>2 DEF TasksTypes
<1>6. TasksTypes'
  BY <1>1, <1>2, <1>4, <1>5 DEF TasksTypes
<1>7. TasksActors'
  BY <1>1, <1>2, <1>3, <1>4 DEF TasksActors
<1>8. TasksKept'
  <2>1. ASSUME NEW u \in Task, Held(u)
        PROVE  Held(u)'
    <3>1. PICK v \in Worker : processing[v][u] > 0
      BY <2>1 DEF Held
    <3>2. processing'[v][u] > 0
      <4>1. CASE v = w /\ u = t
        BY <1>2, <1>5, <3>1, <4>1 DEF TasksTypes
      <4>2. CASE v # w \/ u # t
        BY <1>5, <3>1, <4>2
      <4> QED BY <4>1, <4>2
    <3> QED BY <3>2 DEF Held
  <2>2. Held(t)'
    <3>1. processing'[w][t] > 0
      BY <1>2, <1>5 DEF TasksTypes
    <3> QED BY <3>1 DEF Held
  <2>3. \A u \in Task : Held(u)' => u = t \/ Held(u)
    BY <1>5 DEF Held
  <2> QED BY <1>1, <1>2, <1>3, <1>4, <2>1, <2>2, <2>3 DEF TasksKept, Tasks!Actor
<1>9. TasksRetries'
  <2>1. /\ copy'[w].retries = 0 /\ goal'[w].retries = -1
        /\ goal'[w].state = "none"
    BY <1>1, <1>3 DEF TasksActors, Tasks!NoGoal, Tasks!NoData, Tasks!Keep
  <2>2. data[t].retries \in Nat
    BY <1>2 DEF TasksTypes
  <2>3. /\ copy'[w].retries <= data[subject'[w]].retries
        /\ goal'[w].retries <= data[subject'[w]].retries
    BY <1>4, <2>1, <2>2
  <2> QED BY <1>1, <1>3, <1>4, <2>1, <2>3, RetriesKept DEF Tasks!Actor
<1>10. TasksSingle'
  <2>1. SUFFICES ASSUME ~misjudged PROVE
          /\ Distinct(pending')
          /\ \A v \in Worker, u \in Task : processing'[v][u] \in {0, 1}
          /\ \A v \in Worker, u \in Task : processing'[v][u] > 0 =>
               ~Listed(u)' /\ \A x \in Worker \ {v} : processing'[x][u] = 0
          /\ TasksAlone'
    BY <1>1 DEF TasksSingle
  <2>2. ~Listed(t)' /\ \A v \in Worker : processing[v][t] = 0
    BY <1>2, <2>1 DEF TasksSingle, TasksTypes
  <2>3. ASSUME NEW v \in Worker, NEW u \in Task
        PROVE  /\ processing'[v][u] \in {0, 1}
               /\ processing'[v][u] > 0 =>
                    ~Listed(u)' /\ \A x \in Worker \ {v} : processing'[x][u] = 0
    <3>1. CASE u = t
      BY <1>5, <2>2, <3>1
    <3>2. CASE u # t
      <4>1. \A x \in Worker : processing'[x][u] = processing[x][u]
        BY <1>5, <3>2
      <4>2. /\ processing[v][u] \in {0, 1}
            /\ processing[v][u] > 0 =>
                 ~Listed(u) /\ \A x \in Worker \ {v} : processing[x][u] = 0
        BY <2>1 DEF TasksSingle
      <4> QED BY <1>2, <4>1, <4>2
    <3> QED BY <3>1, <3>2
  <2>4. TasksAlone'
    <3>1. \A v \in Worker \ {w} :
            /\ subject'[v] = subject[v] /\ (AtWork(v)' <=> AtWork(v))
            /\ AtWork(v) => subject[v] \in Task \ {t}
      <4> TAKE v \in Worker \ {w}
      <4>1. v \in Tasks!Actor /\ subject'[v] = subject[v] /\ taskPc'[v] = taskPc[v]
        BY <1>4 DEF Tasks!Actor
      <4>2. AtWork(v) => subject[v] \in Task
        BY <4>1 DEF AtWork, TasksActors
      <4>3. AtWork(v) => subject[v] # t
        BY <1>2, <2>1 DEF TasksSingle, TasksAlone
      <4> QED BY <4>1, <4>2, <4>3 DEF AtWork
    <3>2. TasksAlone
      BY <2>1 DEF TasksSingle
    <3>3. \A x \in Worker : AtWork(x)' => ~Listed(subject[x])'
      BY <1>2, <1>4, <2>2, <3>1, <3>2 DEF TasksAlone
    <3>4. \A v, x \in Worker : AtWork(x)' /\ v # x => processing'[v][subject'[x]] = 0
      <4> TAKE v, x \in Worker
      <4> HAVE AtWork(x)' /\ v # x
      <4>1. CASE x = w
        BY <1>2, <1>4, <1>5, <2>2, <4>1
      <4>2. CASE x # w
        <5>1. AtWork(x) /\ subject'[x] = subject[x] /\ subject[x] \in Task \ {t}
          BY <3>1, <4>2
        <5>2. processing[v][subject[x]] = 0
          BY <3>2, <5>1 DEF TasksAlone
        <5> QED BY <1>5, <5>1, <5>2
      <4> QED BY <4>1, <4>2
    <3>5. \A v, x \in Worker :
            AtWork(v)' /\ AtWork(x)' /\ v # x => subject'[v] # subject'[x]
      BY <1>4, <3>1, <3>2 DEF TasksAlone
    <3> QED BY <3>3, <3>4, <3>5 DEF TasksAlone
  <2> QED BY <1>2, <2>1, <2>3, <2>4 DEF TasksSingle
<1> QED BY <1>6, <1>7, <1>8, <1>9, <1>10

\* A worker decides what to write: Processing or the dead letter, Completed,
\* or after a failure Pending or the dead letter.
LEMMA TasksDecide ==
  ASSUME TasksAssumption, TasksInv, NEW w \in Worker,
         Tasks!Look(w) \/ Tasks!Prove(w) \/ Tasks!Retry(w)
  PROVE  TasksInv'
<1> USE DEF TasksInv, TasksAssumption
<1> DEFINE t == subject[w]
           n == data[t].retries + 1
<1>0. w \in Tasks!Actor /\ w \notin Sweeper
  BY DEF Tasks!Actor
<1>1. /\ taskPc[w] \in {"taken", "proving", "failed"} /\ t \in Task
      /\ goal[w] = Tasks!NoGoal /\ copy[w] = Tasks!NoData
      /\ taskPc' = [taskPc EXCEPT ![w] = "reading"]
      /\ UNCHANGED <<pending, processing, data, dlq, late, subject, from, copy,
                     ended, fails, misjudged, moves>>
  BY <1>0 DEF Tasks!Look, Tasks!Prove, Tasks!Retry, Tasks!listVars, Tasks!timeVars,
     Tasks!historyVars, TasksActors
<1>2. n \in Nat /\ data[t].retries \in Nat /\ fails[t] \in Nat
  BY <1>1 DEF TasksTypes
<1>3. PICK g \in [state : State, retries : Nat \cup {-1}] :
        /\ goal' = [goal EXCEPT ![w] = g] /\ g.state # "none"
        /\ \/ g.retries = -1 /\ (g.state = "DeadLetter" => t \in late)
           \/ /\ taskPc[w] = "failed" /\ g.retries = n
              /\ g.state = "DeadLetter" => n > MaxRetries
  <2>1. CASE Tasks!Look(w) \/ Tasks!Prove(w)
    <3>1. PICK x \in {"DeadLetter", "Processing", "Completed"} :
            /\ goal' = [goal EXCEPT ![w].state = x]
            /\ x = "DeadLetter" => t \in late
      BY <2>1 DEF Tasks!Look, Tasks!Prove
    <3>2. [Tasks!NoGoal EXCEPT !.state = x] = [state |-> x, retries |-> -1]
      BY DEF Tasks!NoGoal, Tasks!Keep
    <3>3. goal' = [goal EXCEPT ![w] = [goal[w] EXCEPT !.state = x]]
      BY <3>1
    <3>4. goal' = [goal EXCEPT ![w] = [state |-> x, retries |-> -1]]
      BY <1>1, <3>2, <3>3
    <3>5. [state |-> x, retries |-> -1] \in [state : State, retries : Nat \cup {-1}]
      BY DEF State
    <3> QED BY <3>1, <3>4, <3>5
  <2>2. CASE Tasks!Retry(w)
    <3>1. goal' = [goal EXCEPT ![w] =
            [state |-> IF n <= MaxRetries THEN "Pending" ELSE "DeadLetter",
             retries |-> n]]
      BY <2>2 DEF Tasks!Retry
    <3>2. PICK x \in {"Pending", "DeadLetter"} :
            /\ goal' = [goal EXCEPT ![w] = [state |-> x, retries |-> n]]
            /\ x = "DeadLetter" => n > MaxRetries
      <4>1. CASE n <= MaxRetries
        BY <3>1, <4>1
      <4>2. CASE ~(n <= MaxRetries)
        <5>1. goal' = [goal EXCEPT ![w] = [state |-> "DeadLetter", retries |-> n]]
          BY <3>1, <4>2
        <5>2. n > MaxRetries
          BY <1>2, <4>2
        <5> HIDE DEF n
        <5> QED BY <5>1, <5>2
      <4> QED BY <4>1, <4>2
    <3>3. taskPc[w] = "failed"
      BY <2>2 DEF Tasks!Retry
    <3> HIDE DEF n
    <3>4. [state |-> x, retries |-> n] \in [state : State, retries : Nat \cup {-1}]
      BY <1>2, <3>2 DEF State
    <3> QED BY <3>2, <3>3, <3>4
  <2> QED BY <2>1, <2>2
<1> HIDE DEF n
<1>4. /\ taskPc' \in [Tasks!Actor -> Tasks!Pc] /\ taskPc'[w] = "reading"
      /\ goal' \in [Tasks!Actor -> [state : State, retries : Nat \cup {-1}]]
      /\ goal'[w] = g
      /\ \A a \in Tasks!Actor \ {w} : taskPc'[a] = taskPc[a] /\ goal'[a] = goal[a]
  BY <1>0, <1>1, <1>3 DEF TasksTypes, Tasks!Pc
<1>5. TasksTypes' /\ TasksActors'
  BY <1>0, <1>1, <1>3, <1>4 DEF TasksTypes, TasksActors
<1>6. TasksKept'
  BY <1>0, <1>1, <1>4 DEF TasksKept, Listed, Held, Tasks!Actor
<1>7. TasksRetries'
  <2>1. CASE g.retries = -1 /\ (g.state = "DeadLetter" => t \in late)
    <3>1. copy'[w].retries \in Int /\ goal'[w].retries \in Int
      BY <1>0, <1>1, <1>4, <2>1 DEF TasksTypes
    <3>2. goal'[w].retries <= data[subject'[w]].retries
      BY <1>1, <1>2, <1>4, <2>1
    <3> QED
      BY <1>0, <1>1, <1>4, <2>1, <3>1, <3>2, RetriesKept DEF Tasks!Actor
  <2>2. CASE /\ taskPc[w] = "failed" /\ g.retries = n
             /\ g.state = "DeadLetter" => n > MaxRetries
    <3>1. /\ Uncounted[t] \in Nat /\ Uncounted'[t] \in Nat
          /\ Uncounted'[t] = Uncounted[t] - 1
      <4>1. Catching(t)' = Catching(t) \ {w} /\ w \in Catching(t)
        BY <1>0, <1>1, <1>4, <2>2 DEF Catching, Tasks!Actor
      <4>2. Cardinality(Catching(t)') = Cardinality(Catching(t)) - 1
        BY <1>1, <4>1, CatchingFinite, FS_RemoveElement
      <4>3. Cardinality(Catching(t)') \in Nat
        BY <1>1, <4>1, CatchingFinite, FS_RemoveElement, FS_CardinalityType
      <4> QED BY <1>1, <4>2, <4>3, CatchingFinite DEF Uncounted
    <3>2. \A u \in Task \ {t} : Uncounted'[u] = Uncounted[u] /\ Uncounted[u] \in Nat
      <4> TAKE u \in Task \ {t}
      <4>1. Catching(u)' = Catching(u)
        BY <1>0, <1>1, <1>4 DEF Catching, Tasks!Actor
      <4> QED BY <4>1, CatchingFinite DEF Uncounted
    <3>3. n + Uncounted'[t] <= fails[t] /\ n <= fails[t]
      <4>1. data[t].retries + Uncounted[t] <= fails[t]
        BY <1>1 DEF TasksRetries
      <4> QED BY <1>2, <3>1, <4>1 DEF n
    <3>4. \A u \in Task : data'[u].retries + Uncounted'[u] <= fails'[u]
      <4> TAKE u \in Task
      <4>1. data[u].retries \in Int /\ fails[u] \in Int
        BY DEF TasksTypes
      <4>2. data[u].retries + Uncounted[u] <= fails[u]
        BY DEF TasksRetries
      <4> QED BY <1>1, <3>1, <3>2, <4>1, <4>2
    <3>5. \A b \in Tasks!Actor : subject'[b] \in Task =>
            /\ copy'[b].retries + Uncounted'[subject'[b]] <= fails'[subject'[b]]
            /\ goal'[b].retries + Uncounted'[subject'[b]] <= fails'[subject'[b]]
      <4> TAKE b \in Tasks!Actor
      <4> HAVE subject'[b] \in Task
      <4>1. /\ goal[b].retries \in Int /\ copy[b].retries \in Int
            /\ fails[subject[b]] \in Int
        BY <1>1 DEF TasksTypes
      <4>2. /\ copy[b].retries + Uncounted[subject[b]] <= fails[subject[b]]
            /\ goal[b].retries + Uncounted[subject[b]] <= fails[subject[b]]
        BY <1>1 DEF TasksRetries
      <4>3. /\ Uncounted'[subject[b]] <= Uncounted[subject[b]]
            /\ Uncounted'[subject[b]] \in Nat /\ Uncounted[subject[b]] \in Nat
        BY <1>1, <3>1, <3>2
      <4>4. copy'[b].retries + Uncounted'[subject'[b]] <= fails'[subject'[b]]
        BY <1>1, <4>1, <4>2, <4>3
      <4>5. CASE b = w
        BY <1>1, <1>4, <2>2, <3>3, <4>4, <4>5
      <4>6. CASE b # w
        BY <1>1, <1>4, <4>1, <4>2, <4>3, <4>4, <4>6
      <4> QED BY <4>5, <4>6
    <3>6. \A b \in Tasks!Actor : goal'[b].state = "DeadLetter" =>
            subject'[b] \in late' \/ fails'[subject'[b]] > MaxRetries
      <4> TAKE b \in Tasks!Actor
      <4>1. CASE b = w
        BY <1>1, <1>2, <1>4, <2>2, <3>3, <4>1
      <4>2. CASE b # w
        BY <1>1, <1>4, <4>2 DEF TasksRetries
      <4> QED BY <4>1, <4>2
    <3> QED
      BY <1>1, <3>4, <3>5, <3>6 DEF TasksRetries, Tasks!DeadLetterJustified
  <2> QED BY <1>3, <2>1, <2>2
<1>8. TasksSingle'
  BY <1>0, <1>1, <1>4 DEF TasksSingle, TasksAlone, AtWork, Listed, Tasks!Actor
<1> QED BY <1>5, <1>6, <1>7, <1>8

\* LREM, and RPUSH of the same task.
LEMMA TasksLrem ==
  ASSUME TasksTypes, NEW w \in Worker, NEW t \in Task,
         processing' = Tasks!Lrem(w, t)
  PROVE  /\ processing' \in [Worker -> [Task -> Nat]]
         /\ processing'[w][t] = IF processing[w][t] > 0 THEN processing[w][t] - 1 ELSE 0
         /\ \A v \in Worker, u \in Task : v # w \/ u # t =>
              processing'[v][u] = processing[v][u]
  BY DEF TasksTypes, Tasks!Lrem

\* The try block throws.
LEMMA TasksFail ==
  ASSUME TasksAssumption, TasksInv, NEW w \in Worker, Tasks!Fail(w)
  PROVE  TasksInv'
<1> USE DEF TasksInv, TasksAssumption
<1> DEFINE t == subject[w]
<1>0. w \in Tasks!Actor /\ w \notin Sweeper
  BY DEF Tasks!Actor
<1>1. /\ taskPc[w] \in {"taken", "reading", "proving", "removing"} /\ t \in Task
      /\ fails' = [fails EXCEPT ![t] = @ + 1]
      /\ taskPc' = [taskPc EXCEPT ![w] = "failed"]
      /\ goal' = [goal EXCEPT ![w] = Tasks!NoGoal]
      /\ UNCHANGED <<pending, data, dlq, late, subject, from, copy, ended, misjudged,
                     moves>>
      /\ \/ UNCHANGED processing
         \/ taskPc[w] = "removing" /\ processing' = Tasks!Lrem(w, t)
  BY <1>0 DEF Tasks!Fail, Tasks!Lrem, Tasks!timeVars, TasksActors
<1>2. /\ taskPc' \in [Tasks!Actor -> Tasks!Pc] /\ taskPc'[w] = "failed"
      /\ \A a \in Tasks!Actor \ {w} : taskPc'[a] = taskPc[a]
      /\ fails' \in [Task -> Nat] /\ fails'[t] = fails[t] + 1
      /\ \A u \in Task \ {t} : fails'[u] = fails[u]
      /\ goal' \in [Tasks!Actor -> [state : State, retries : Nat \cup {-1}]]
      /\ goal'[w] = Tasks!NoGoal
      /\ \A a \in Tasks!Actor \ {w} : goal'[a] = goal[a]
  BY <1>0, <1>1 DEF TasksTypes, Tasks!Pc, Tasks!NoGoal, Tasks!Keep, State
<1>2a. /\ processing' \in [Worker -> [Task -> Nat]]
       /\ \/ processing'[w][t] = processing[w][t]
          \/ /\ taskPc[w] = "removing"
             /\ processing'[w][t] = IF processing[w][t] > 0 THEN processing[w][t] - 1
                                    ELSE 0
       /\ \A v \in Worker, u \in Task : v # w \/ u # t =>
            processing'[v][u] = processing[v][u]
  <2>1. CASE UNCHANGED processing
    BY <2>1 DEF TasksTypes
  <2>2. CASE taskPc[w] = "removing" /\ processing' = Tasks!Lrem(w, t)
    BY <1>1, <2>2, TasksLrem
  <2> QED BY <1>1, <2>1, <2>2
<1>3. TasksTypes' /\ TasksActors'
  BY <1>0, <1>1, <1>2, <1>2a DEF TasksTypes, TasksActors
<1>4. TasksKept'
  <2>1. \A u \in Task : Listed(u)' <=> Listed(u)
    BY <1>1 DEF Listed
  <2>2. \A u \in Task : Held(u)' => u = t \/ Held(u)
    BY <1>2a DEF Held
  <2>3. \A u \in Task : Held(u) => Held(u)' \/ u \in ended
    <3> TAKE u \in Task
    <3>1. CASE u # t
      BY <1>2a, <3>1 DEF Held
    <3>2. CASE u = t /\ taskPc[w] = "removing"
      BY <1>0, <3>2 DEF TasksKept
    <3>3. CASE u = t /\ processing' = processing
      BY <3>3 DEF Held
    <3> QED BY <1>1, <3>1, <3>2, <3>3
  <2>4. data[t].state # "none"
    BY <1>0, <1>1 DEF TasksKept
  <2>5. \A v \in Worker : /\ v \in Tasks!Actor
                          /\ (taskPc'[v] = taskPc[v] \/ taskPc'[v] = "failed")
    BY <1>2 DEF Tasks!Actor
  <2>6. \A u \in Task : data[u].state # "none" /\ u \notin ended => (Listed(u) \/ Held(u))'
    BY <2>1, <2>3 DEF TasksKept
  <2>7. \A u \in Task : (Listed(u) \/ Held(u))' => data[u].state # "none"
    BY <2>1, <2>2, <2>4 DEF TasksKept
  <2> QED BY <1>1, <2>5, <2>6, <2>7 DEF TasksKept
<1>5. TasksRetries'
  <2>1. \A u \in Task : /\ Uncounted[u] \in Nat /\ Uncounted'[u] \in Nat
                        /\ Uncounted'[u] - fails'[u] = Uncounted[u] - fails[u]
                        /\ fails[u] \in Nat /\ fails'[u] \in Nat /\ fails[u] <= fails'[u]
    <3> TAKE u \in Task
    <3>1. fails[u] \in Nat /\ fails'[u] \in Nat
      BY <1>2 DEF TasksTypes
    <3>2. CASE u = t
      <4>1. Catching(t)' = Catching(t) \cup {w} /\ w \notin Catching(t)
        BY <1>0, <1>1, <1>2 DEF Catching, Tasks!Actor
      <4>2. Cardinality(Catching(t)') = Cardinality(Catching(t)) + 1
        BY <1>1, <4>1, CatchingFinite, FS_AddElement
      <4>3. Uncounted'[t] = Uncounted[t] + 1 /\ Uncounted[t] \in Nat
        BY <1>1, <4>2, CatchingFinite DEF Uncounted
      <4>4. fails'[t] = fails[t] + 1
        BY <1>2
      <4> HIDE DEF t
      <4> QED BY <3>1, <3>2, <4>3, <4>4
    <3>3. CASE u # t
      <4>1. Catching(u)' = Catching(u)
        BY <1>0, <1>1, <1>2, <3>3 DEF Catching, Tasks!Actor
      <4>2. Uncounted'[u] = Uncounted[u] /\ Uncounted[u] \in Nat
        BY <4>1, CatchingFinite DEF Uncounted
      <4> QED BY <1>2, <3>1, <3>3, <4>2
    <3> QED BY <3>2, <3>3
  <2>2. \A u \in Task : data'[u].retries + Uncounted'[u] <= fails'[u]
    <3> TAKE u \in Task
    <3>1. data[u].retries \in Int /\ data[u].retries + Uncounted[u] <= fails[u]
      BY DEF TasksTypes, TasksRetries
    <3> QED BY <1>1, <2>1, <3>1
  <2>3. \A b \in Tasks!Actor : subject'[b] \in Task =>
          /\ copy'[b].retries + Uncounted'[subject'[b]] <= fails'[subject'[b]]
          /\ goal'[b].retries + Uncounted'[subject'[b]] <= fails'[subject'[b]]
    <3> TAKE b \in Tasks!Actor
    <3> HAVE subject'[b] \in Task
    <3>1. goal[b].retries \in Int /\ copy[b].retries \in Int
      BY DEF TasksTypes
    <3>2. /\ copy[b].retries + Uncounted[subject[b]] <= fails[subject[b]]
          /\ goal[b].retries + Uncounted[subject[b]] <= fails[subject[b]]
      BY <1>1 DEF TasksRetries
    <3>3. copy'[b].retries + Uncounted'[subject'[b]] <= fails'[subject'[b]]
      BY <1>1, <2>1, <3>1, <3>2
    <3>4. CASE b # w
      BY <1>1, <1>2, <2>1, <3>1, <3>2, <3>3, <3>4
    <3>5. CASE b = w
      <4>1. goal'[b].retries = -1
        BY <1>2, <3>5 DEF Tasks!NoGoal, Tasks!Keep
      <4>2. copy[b].retries \in Nat
        BY DEF TasksTypes
      <4> QED BY <1>1, <2>1, <3>2, <3>3, <4>1, <4>2
    <3> QED BY <3>4, <3>5
  <2>4. \A b \in Tasks!Actor : goal'[b].state = "DeadLetter" =>
          subject'[b] \in late' \/ fails'[subject'[b]] > MaxRetries
    <3> TAKE b \in Tasks!Actor
    <3> HAVE goal'[b].state = "DeadLetter"
    <3>0. b # w /\ goal[b] = goal'[b]
      BY <1>2 DEF Tasks!NoGoal
    <3>1. subject[b] \in Task
      <4>1. goal[b] # Tasks!NoGoal
        BY <3>0 DEF Tasks!NoGoal
      <4> QED BY <4>1 DEF TasksActors
    <3>2. subject[b] \in late \/ fails[subject[b]] > MaxRetries
      BY <3>0 DEF TasksRetries
    <3> QED BY <1>1, <2>1, <3>1, <3>2
  <2>5. Tasks!DeadLetterJustified'
    <3>1. ASSUME NEW u \in dlq
          PROVE  u \in late \/ fails'[u] > MaxRetries
      <4>1. u \in late \/ fails[u] > MaxRetries
        BY DEF TasksRetries, Tasks!DeadLetterJustified
      <4>2. CASE u = t
        BY <1>1, <2>1, <4>1, <4>2
      <4>3. CASE u # t
        <5>1. fails'[u] = fails[u]
          BY <1>1, <4>3 DEF TasksTypes
        <5> QED BY <4>1, <5>1
      <4> QED BY <4>2, <4>3
    <3> QED BY <1>1, <3>1 DEF Tasks!DeadLetterJustified
  <2> QED BY <2>2, <2>3, <2>4, <2>5 DEF TasksRetries
<1>6. TasksSingle'
  <2> SUFFICES ASSUME ~misjudged PROVE TasksSingle'
    BY <1>1 DEF TasksSingle
  <2>1. /\ Distinct(pending') /\ (\A u : Listed(u)' <=> Listed(u))
        /\ TasksAlone /\ \A v \in Worker, u \in Task : processing[v][u] \in {0, 1}
    BY <1>1 DEF TasksSingle, Listed
  <2>2. \A v \in Worker, u \in Task : processing'[v][u] \in {processing[v][u], 0}
    <3>1. processing'[w][t] \in {processing[w][t], 0}
      BY <1>1, <1>2a, <2>1
    <3> QED BY <1>2a, <3>1
  <2>3. \A v \in Worker, u \in Task : processing'[v][u] \in {0, 1}
    BY <2>1, <2>2
  <2>4. \A v \in Worker, u \in Task : processing'[v][u] > 0 =>
          ~Listed(u)' /\ \A x \in Worker \ {v} : processing'[x][u] = 0
    <3> TAKE v \in Worker, u \in Task
    <3>1. processing[v][u] > 0 =>
            ~Listed(u) /\ \A x \in Worker \ {v} : processing[x][u] = 0
      BY DEF TasksSingle
    <3> QED BY <2>1, <2>2, <3>1
  <2>5. TasksAlone'
    <3>1. \A v \in Worker : /\ subject'[v] = subject[v] /\ (AtWork(v)' <=> AtWork(v))
                            /\ AtWork(v) => subject[v] \in Task
      BY <1>0, <1>1, <1>2 DEF AtWork, TasksActors, Tasks!Actor
    <3> QED BY <2>1, <2>2, <3>1 DEF TasksAlone
  <2> QED BY <2>1, <2>3, <2>4, <2>5 DEF TasksSingle
<1> QED BY <1>3, <1>4, <1>5, <1>6

LEMMA TasksRpush ==
  ASSUME TasksTypes, NEW t \in Task, pending' = Append(pending, t)
  PROVE  /\ pending' \in Seq(Task)
         /\ \A u : Listed(u)' <=> u = t \/ Listed(u)
         /\ Distinct(pending) /\ ~Listed(t) => Distinct(pending')
<1>1. PICK r : r = pending'
  OBVIOUS
<1>2. PICK q \in Seq(Task) : q = pending
  BY DEF TasksTypes
<1>3. r = Append(q, t) \/ r = <<t>> \o q
  BY <1>1, <1>2
<1>4. /\ r \in Seq(Task)
      /\ \A u : (\E i \in 1..Len(r) : r[i] = u)
                  <=> u = t \/ \E i \in 1..Len(q) : q[i] = u
      /\ Distinct(q) /\ (\A i \in 1..Len(q) : q[i] # t) => Distinct(r)
  BY <1>3, Pushed
<1> QED BY <1>1, <1>2, <1>4 DEF Listed

\* A task that is taken from the only list it may be in, and put in another.
LEMMA TasksMoved ==
  ASSUME TasksTypes, TasksSingle, ~misjudged, NEW w \in Worker, NEW t \in Task,
         ~Listed(t), \A v \in Worker \ {w} : processing[v][t] = 0,
         processing' = Tasks!Lrem(w, t), pending' = Append(pending, t)
  PROVE  /\ Distinct(pending')
         /\ \A v \in Worker, u \in Task : processing'[v][u] \in {0, 1}
         /\ \A v \in Worker, u \in Task : processing'[v][u] > 0 =>
              ~Listed(u)' /\ \A x \in Worker \ {v} : processing'[x][u] = 0
<1>1. /\ processing'[w][t] = 0
      /\ \A v \in Worker, u \in Task : v # w \/ u # t =>
           processing'[v][u] = processing[v][u]
  <2>1. processing[w][t] \in {0, 1}
    BY DEF TasksSingle
  <2>2. /\ processing'[w][t] = IF processing[w][t] > 0 THEN processing[w][t] - 1 ELSE 0
        /\ \A v \in Worker, u \in Task : v # w \/ u # t =>
             processing'[v][u] = processing[v][u]
    BY TasksLrem
  <2> QED BY <2>1, <2>2
<1>2. \A v \in Worker : processing'[v][t] = 0
  BY <1>1
<1>4. /\ \A u : Listed(u)' <=> u = t \/ Listed(u)
      /\ Distinct(pending')
  BY TasksRpush DEF TasksSingle
<1>5. ASSUME NEW v \in Worker, NEW u \in Task
      PROVE  /\ processing'[v][u] \in {0, 1}
             /\ processing'[v][u] > 0 =>
                  ~Listed(u)' /\ \A x \in Worker \ {v} : processing'[x][u] = 0
  <2>1. CASE u = t
    BY <1>2, <2>1
  <2>2. CASE u # t
    <3>1. \A x \in Worker : processing'[x][u] = processing[x][u]
      BY <1>1, <2>2
    <3>2. /\ processing[v][u] \in {0, 1}
          /\ processing[v][u] > 0 =>
               ~Listed(u) /\ \A x \in Worker \ {v} : processing[x][u] = 0
      BY DEF TasksSingle
    <3> QED BY <1>4, <2>2, <3>1, <3>2
  <2> QED BY <2>1, <2>2
<1> QED BY <1>4, <1>5

\* Any task that leaves a worker's list by LREM and RPUSH is still kept.
LEMMA TasksKeptMoved ==
  ASSUME TasksTypes, NEW w \in Worker, NEW t \in Task,
         processing' = Tasks!Lrem(w, t), pending' = Append(pending, t)
  PROVE  \A u \in Task : /\ Listed(u) \/ Held(u) => (Listed(u) \/ Held(u))'
                         /\ (Listed(u) \/ Held(u))' => u = t \/ Listed(u) \/ Held(u)
<1> TAKE u \in Task
<1>1. Listed(u)' <=> u = t \/ Listed(u)
  BY TasksRpush
<1>2. CASE u = t
  BY <1>1, <1>2
<1>3. CASE u # t
  <2>1. \A v \in Worker : processing'[v][u] = processing[v][u]
    BY <1>3, TasksLrem
  <2> QED BY <1>1, <1>3, <2>1 DEF Held
<1> QED BY <1>2, <1>3

\* A worker is done with its task, or puts it back.
LEMMA TasksDone ==
  ASSUME TasksAssumption, TasksInv, NEW w \in Worker,
         Tasks!Remove(w) \/ Tasks!Return(w)
  PROVE  TasksInv'
<1> USE DEF TasksInv, TasksAssumption
<1>0. w \in Tasks!Actor /\ w \notin Sweeper
  BY DEF Tasks!Actor
<1>1. PICK t : t = subject[w]
  OBVIOUS
<1>2. /\ taskPc[w] \in {"removing", "discarding", "returning"} /\ t \in Task
      /\ taskPc' = [taskPc EXCEPT ![w] = "idle"] /\ subject' = [subject EXCEPT ![w] = Nil]
      /\ UNCHANGED <<data, dlq, late, from, goal, copy, ended, fails, misjudged, moves>>
  BY <1>0, <1>1
  DEF Tasks!Remove, Tasks!Return, Tasks!timeVars, Tasks!historyVars, TasksActors
<1>3. processing' = Tasks!Lrem(w, t)
  BY <1>1 DEF Tasks!Remove, Tasks!Return, Tasks!Lrem
<1>4. /\ processing' \in [Worker -> [Task -> Nat]]
      /\ processing'[w][t] = IF processing[w][t] > 0 THEN processing[w][t] - 1 ELSE 0
      /\ \A v \in Worker, u \in Task : v # w \/ u # t =>
           processing'[v][u] = processing[v][u]
  BY <1>2, <1>3, TasksLrem
<1>5. /\ taskPc' \in [Tasks!Actor -> Tasks!Pc] /\ taskPc'[w] = "idle"
      /\ subject' \in [Tasks!Actor -> Task \cup {Nil}] /\ subject'[w] = Nil
      /\ \A a \in Tasks!Actor \ {w} : taskPc'[a] = taskPc[a] /\ subject'[a] = subject[a]
  BY <1>0, <1>2 DEF TasksTypes, Tasks!Pc
<1>6. \/ taskPc[w] \in {"removing", "discarding"} /\ pending' = pending
      \/ taskPc[w] = "returning" /\ pending' = Append(pending, t)
  BY <1>1 DEF Tasks!Remove, Tasks!Return
<1>7. TasksTypes'
  <2>1. pending' \in Seq(Task)
    BY <1>2, <1>6, TasksRpush DEF TasksTypes
  <2> QED BY <1>2, <1>4, <1>5, <2>1 DEF TasksTypes
<1>8. TasksActors'
  BY <1>0, <1>2, <1>5 DEF TasksActors
<1>9. TasksKept'
  <2>1. \A u \in Task : /\ Listed(u) \/ Held(u) => (Listed(u) \/ Held(u))' \/ u \in ended
                        /\ (Listed(u) \/ Held(u))' => u = t \/ Listed(u) \/ Held(u)
    <3>1. CASE taskPc[w] = "returning" /\ pending' = Append(pending, t)
      BY <1>2, <1>3, <3>1, TasksKeptMoved
    <3>2. CASE taskPc[w] \in {"removing", "discarding"} /\ pending' = pending
      <4>1. t \in ended
        BY <1>0, <1>1, <3>2 DEF TasksKept
      <4> TAKE u \in Task
      <4>2. Listed(u)' <=> Listed(u)
        BY <3>2 DEF Listed
      <4>3. CASE u = t
        BY <4>1, <4>3
      <4>4. CASE u # t
        <5>1. \A v \in Worker : processing'[v][u] = processing[v][u]
          BY <1>4, <4>4
        <5> QED BY <4>2, <5>1 DEF Held
      <4> QED BY <4>3, <4>4
    <3> QED BY <1>6, <3>1, <3>2
  <2>2. data[t].state # "none"
    BY <1>0, <1>1, <1>2 DEF TasksKept
  <2>3. Nil \notin Task
    OBVIOUS
  <2>4. \A a \in Tasks!Actor : subject'[a] \in Task => a # w
    BY <1>5, <2>3
  <2>5. \A v \in Worker : taskPc'[v] \in {"removing", "discarding"} => v # w /\ v \in Tasks!Actor
    BY <1>5 DEF Tasks!Actor
  <2>6. \A u \in Task : (Listed(u) \/ Held(u))' => data'[u].state # "none"
    BY <1>2, <2>1, <2>2 DEF TasksKept
  <2>7. \A u \in Task : data'[u].state # "none" /\ u \notin ended' => (Listed(u) \/ Held(u))'
    BY <1>2, <2>1 DEF TasksKept
  <2> QED BY <1>2, <1>5, <2>4, <2>5, <2>6, <2>7 DEF TasksKept
<1>10. TasksRetries'
  <2>1. copy'[w].retries \in Int /\ goal'[w].retries \in Int /\ subject'[w] \notin Task
    BY <1>0, <1>2, <1>5 DEF TasksTypes
  <2>2. goal'[w].state = "none"
    BY <1>0, <1>2 DEF TasksActors, Tasks!NoGoal
  <2> QED BY <1>0, <1>2, <1>5, <2>1, <2>2, RetriesKept DEF Tasks!Actor
<1>11. TasksSingle'
  <2> SUFFICES ASSUME ~misjudged PROVE
          /\ Distinct(pending')
          /\ \A v \in Worker, u \in Task : processing'[v][u] \in {0, 1}
          /\ \A v \in Worker, u \in Task : processing'[v][u] > 0 =>
               ~Listed(u)' /\ \A x \in Worker \ {v} : processing'[x][u] = 0
          /\ TasksAlone'
    BY <1>2 DEF TasksSingle
  <2>0. TasksAlone /\ AtWork(w)
    BY <1>2 DEF TasksSingle, AtWork
  <2>1. ~Listed(t) /\ \A v \in Worker \ {w} : processing[v][t] = 0
    BY <1>1, <2>0 DEF TasksAlone
  <2>2. TasksAlone'
    <3>1. \A v \in Worker : AtWork(v)' =>
            /\ v # w /\ AtWork(v) /\ subject'[v] = subject[v]
            /\ subject[v] \in Task \ {t}
      <4> TAKE v \in Worker
      <4> HAVE AtWork(v)'
      <4>1. v # w /\ v \in Tasks!Actor
        BY <1>5 DEF AtWork, Tasks!Actor
      <4>2. subject'[v] = subject[v] /\ AtWork(v)
        BY <1>5, <4>1 DEF AtWork
      <4>3. subject[v] \in Task
        BY <4>1, <4>2 DEF AtWork, TasksActors
      <4>4. subject[v] # t
        BY <1>1, <2>0, <4>1, <4>2 DEF TasksAlone
      <4> QED BY <4>1, <4>2, <4>3, <4>4
    <3>2. \A u \in Task \ {t} : Listed(u)' => Listed(u)
      BY <1>2, <1>6, TasksRpush DEF Listed
    <3>3. \A v \in Worker, u \in Task \ {t} : processing'[v][u] = processing[v][u]
      BY <1>4
    <3> QED BY <2>0, <3>1, <3>2, <3>3 DEF TasksAlone
  <2>3. CASE taskPc[w] = "returning" /\ pending' = Append(pending, t)
    BY <1>2, <1>3, <2>1, <2>2, <2>3, TasksMoved
  <2>4. CASE taskPc[w] \in {"removing", "discarding"} /\ pending' = pending
    <3>1. processing'[w][t] = 0
      BY <1>2, <1>4 DEF TasksSingle
    <3>2. \A v \in Worker, u \in Task : \/ processing'[v][u] = processing[v][u]
                                       \/ processing'[v][u] = 0
      BY <1>4, <3>1
    <3>3. \A u : Listed(u)' <=> Listed(u)
      BY <2>4 DEF Listed
    <3>4. ASSUME NEW v \in Worker, NEW u \in Task
          PROVE  /\ processing'[v][u] \in {0, 1}
                 /\ processing'[v][u] > 0 =>
                      ~Listed(u)' /\ \A x \in Worker \ {v} : processing'[x][u] = 0
      <4>1. /\ processing[v][u] \in {0, 1}
            /\ processing[v][u] > 0 =>
                 ~Listed(u) /\ \A x \in Worker \ {v} : processing[x][u] = 0
        BY DEF TasksSingle
      <4> QED BY <3>2, <3>3, <4>1
    <3> QED BY <2>2, <2>4, <3>4 DEF TasksSingle
  <2> QED BY <1>6, <2>3, <2>4
<1> QED BY <1>7, <1>8, <1>9, <1>10, <1>11

\* The process of a worker dies.
LEMMA TasksCrash ==
  ASSUME TasksAssumption, TasksInv, NEW w \in Worker, Tasks!Crash(w)
  PROVE  TasksInv'
<1> USE DEF TasksInv, TasksAssumption
<1>0. w \in Tasks!Actor /\ w \notin Sweeper
  BY DEF Tasks!Actor
<1>1. /\ taskPc' = [taskPc EXCEPT ![w] = "crashed"] /\ subject' = [subject EXCEPT ![w] = Nil]
      /\ goal' = [goal EXCEPT ![w] = Tasks!NoGoal]
      /\ copy' = [copy EXCEPT ![w] = Tasks!NoData]
      /\ UNCHANGED <<pending, processing, data, dlq, late, from, ended, fails,
                     misjudged, moves>>
  BY DEF Tasks!Crash, Tasks!listVars, Tasks!timeVars, Tasks!historyVars
<1>2. /\ taskPc' \in [Tasks!Actor -> Tasks!Pc] /\ taskPc'[w] = "crashed"
      /\ subject' \in [Tasks!Actor -> Task \cup {Nil}] /\ subject'[w] = Nil
      /\ goal' \in [Tasks!Actor -> [state : State, retries : Nat \cup {-1}]]
      /\ goal'[w] = Tasks!NoGoal
      /\ copy' \in [Tasks!Actor -> [state : State, retries : Nat]]
      /\ copy'[w] = Tasks!NoData
  BY <1>0, <1>1
  DEF TasksTypes, Tasks!Pc, Tasks!NoGoal, Tasks!NoData, Tasks!Keep, State
<1>3. \A a \in Tasks!Actor \ {w} : /\ taskPc'[a] = taskPc[a] /\ subject'[a] = subject[a]
                                   /\ goal'[a] = goal[a] /\ copy'[a] = copy[a]
  BY <1>1 DEF TasksTypes
<1>4. TasksTypes' /\ TasksActors'
  BY <1>0, <1>1, <1>2, <1>3 DEF TasksTypes, TasksActors
<1>5. TasksKept'
  BY <1>0, <1>1, <1>2, <1>3 DEF TasksKept, Listed, Held, Tasks!Actor
<1>6. TasksRetries'
  <2>1. /\ copy'[w].retries \in Int /\ goal'[w].retries \in Int
        /\ goal'[w].state = "none" /\ subject'[w] \notin Task
    BY <1>2 DEF Tasks!NoGoal, Tasks!NoData, Tasks!Keep
  <2> QED BY <1>0, <1>1, <1>2, <1>3, <2>1, RetriesKept DEF Tasks!Actor
<1>7. TasksSingle'
  <2>1. \A v \in Worker : /\ v \in Tasks!Actor
                          /\ AtWork(v)' => AtWork(v) /\ subject'[v] = subject[v]
    BY <1>0, <1>2, <1>3 DEF AtWork, Tasks!Actor
  <2>2. TasksAlone => TasksAlone'
    BY <1>1, <2>1 DEF TasksAlone, Listed
  <2> QED BY <1>1, <2>2 DEF TasksSingle, Listed
<1> QED BY <1>4, <1>5, <1>6, <1>7

\* The sweeper looks.
LEMMA TasksLooked ==
  ASSUME TasksAssumption, TasksInv, NEW s \in Sweeper,
         (\E w \in Worker, t \in Task : Tasks!Spot(s, w, t)) \/ Tasks!Judge(s)
  PROVE  TasksInv'
<1> USE DEF TasksInv, TasksAssumption
<1>0. s \in Tasks!Actor /\ s \notin Worker
  BY DEF Tasks!Actor
<1>1. /\ taskPc[s] \in {"idle", "spotted"}
      /\ UNCHANGED <<pending, processing, data, dlq, late, goal, copy, ended, fails,
                     misjudged, moves>>
  BY DEF Tasks!Spot, Tasks!Judge, Tasks!listVars, Tasks!timeVars, Tasks!historyVars
<1>2. PICK t \in Task \cup {Nil}, w \in Worker \cup {Nil},
           v \in {"idle", "spotted", "moving"} :
        /\ taskPc' = [taskPc EXCEPT ![s] = v]
        /\ subject' = [subject EXCEPT ![s] = t]
        /\ from' = [from EXCEPT ![s] = w]
        /\ v # "idle" => t \in Task /\ w \in Worker
        /\ t \in Task => (\E x \in Worker : processing[x][t] > 0) \/ t = subject[s]
  <2>1. CASE Tasks!Judge(s)
    <3>1. taskPc[s] = "spotted" /\ subject[s] \in Task /\ from[s] \in Worker
      BY <1>0, <2>1 DEF Tasks!Judge, TasksActors
    <3>2. /\ subject = [subject EXCEPT ![s] = subject[s]]
          /\ from = [from EXCEPT ![s] = from[s]]
      BY DEF TasksTypes
    <3>3. CASE taskPc' = [taskPc EXCEPT ![s] = "moving"] /\ UNCHANGED <<subject, from>>
      BY <3>1, <3>2, <3>3
    <3>4. CASE /\ taskPc' = [taskPc EXCEPT ![s] = "idle"]
               /\ subject' = [subject EXCEPT ![s] = Nil]
               /\ from' = [from EXCEPT ![s] = Nil]
      BY <3>4
    <3> QED BY <2>1, <3>3, <3>4 DEF Tasks!Judge
  <2>2. ASSUME NEW w \in Worker, NEW t \in Task, Tasks!Spot(s, w, t)
        PROVE  /\ taskPc' = [taskPc EXCEPT ![s] = "spotted"]
               /\ subject' = [subject EXCEPT ![s] = t]
               /\ from' = [from EXCEPT ![s] = w] /\ processing[w][t] > 0
    BY <2>2 DEF Tasks!Spot
  <2> QED BY <2>1, <2>2
<1>3. /\ taskPc' \in [Tasks!Actor -> Tasks!Pc] /\ taskPc'[s] = v
      /\ subject' \in [Tasks!Actor -> Task \cup {Nil}] /\ subject'[s] = t
      /\ from' \in [Sweeper -> Worker \cup {Nil}] /\ from'[s] = w
  BY <1>0, <1>2 DEF TasksTypes, Tasks!Pc
<1>4. /\ \A a \in Tasks!Actor \ {s} : taskPc'[a] = taskPc[a] /\ subject'[a] = subject[a]
      /\ \A a \in Sweeper \ {s} : from'[a] = from[a]
  BY <1>2 DEF TasksTypes
<1>5. TasksTypes'
  BY <1>1, <1>3 DEF TasksTypes
<1>6. TasksActors'
  BY <1>0, <1>1, <1>2, <1>3, <1>4 DEF TasksActors, Tasks!Actor
<1>7. TasksKept'
  <2>1. t \in Task => data[t].state # "none"
    BY <1>0, <1>2 DEF TasksKept, Held
  <2>2. \A u : (Listed(u)' <=> Listed(u)) /\ (Held(u)' <=> Held(u))
    BY <1>1 DEF Listed, Held
  <2> QED BY <1>0, <1>1, <1>3, <1>4, <2>1, <2>2 DEF TasksKept, Tasks!Actor
<1>8. TasksRetries'
  <2>1. /\ copy'[s].retries = 0 /\ goal'[s].retries = -1 /\ goal'[s].state = "none"
    BY <1>0, <1>1 DEF TasksActors, Tasks!NoGoal, Tasks!NoData, Tasks!Keep
  <2>2. subject'[s] \in Task =>
          /\ copy'[s].retries <= data[subject'[s]].retries
          /\ goal'[s].retries <= data[subject'[s]].retries
    <3> HAVE subject'[s] \in Task
    <3>1. data[subject'[s]].retries \in Nat
      BY DEF TasksTypes
    <3> QED BY <2>1, <3>1
  <2> QED BY <1>0, <1>1, <1>4, <2>1, <2>2, RetriesKept DEF Tasks!Actor
<1>9. TasksSingle'
  <2>1. \A x \in Worker : x \in Tasks!Actor /\ x # s
    BY <1>0 DEF Tasks!Actor
  <2>2. TasksAlone => TasksAlone'
    BY <1>1, <1>4, <2>1 DEF TasksAlone, AtWork, Listed
  <2> QED BY <1>1, <2>2 DEF TasksSingle, Listed
<1> QED BY <1>5, <1>6, <1>7, <1>8, <1>9

\* The sweeper moves a task back to the pending list.
LEMMA TasksMove ==
  ASSUME TasksAssumption, TasksInv, NEW s \in Sweeper, Tasks!Move(s)
  PROVE  TasksInv'
<1> USE DEF TasksInv, TasksAssumption
<1>0. s \in Tasks!Actor /\ s \notin Worker
  BY DEF Tasks!Actor
<1>1. PICK t, w : t = subject[s] /\ w = from[s]
  OBVIOUS
<1>2. /\ taskPc[s] = "moving" /\ t \in Task /\ w \in Worker
      /\ goal[s] = Tasks!NoGoal /\ copy[s] = Tasks!NoData
  BY <1>0, <1>1 DEF Tasks!Move, TasksActors
<1>3. /\ processing' = Tasks!Lrem(w, t) /\ pending' = Append(pending, t)
      /\ misjudged' = (misjudged \/ taskPc[w] # "crashed" \/ processing[w][t] = 0)
  BY <1>1 DEF Tasks!Move, Tasks!Lrem
<1>4. /\ goal' = [goal EXCEPT ![s].state = "Pending"]
      /\ taskPc' = [taskPc EXCEPT ![s] = "reading"] /\ from' = [from EXCEPT ![s] = Nil]
      /\ moves' = moves + 1
      /\ UNCHANGED <<data, dlq, late, subject, copy, ended, fails>>
  BY DEF Tasks!Move, Tasks!timeVars
<1>5. goal' = [goal EXCEPT ![s] = [state |-> "Pending", retries |-> -1]]
  <2>1. [Tasks!NoGoal EXCEPT !.state = "Pending"] = [state |-> "Pending", retries |-> -1]
    BY DEF Tasks!NoGoal, Tasks!Keep
  <2>2. goal' = [goal EXCEPT ![s] = [goal[s] EXCEPT !.state = "Pending"]]
    BY <1>4
  <2> QED BY <1>2, <2>1, <2>2
<1>6. [state |-> "Pending", retries |-> -1] \in [state : State, retries : Nat \cup {-1}]
  BY DEF State
<1>7. /\ taskPc' \in [Tasks!Actor -> Tasks!Pc] /\ taskPc'[s] = "reading"
      /\ goal' \in [Tasks!Actor -> [state : State, retries : Nat \cup {-1}]]
      /\ goal'[s] = [state |-> "Pending", retries |-> -1]
      /\ from' \in [Sweeper -> Worker \cup {Nil}]
      /\ \A a \in Tasks!Actor \ {s} : taskPc'[a] = taskPc[a] /\ goal'[a] = goal[a]
      /\ \A a \in Sweeper \ {s} : from'[a] = from[a]
  <2>1. PICK g : g = [state |-> "Pending", retries |-> -1]
    OBVIOUS
  <2>2. goal' = [goal EXCEPT ![s] = g] /\ g \in [state : State, retries : Nat \cup {-1}]
    BY <1>5, <1>6, <2>1
  <2>3. /\ goal' \in [Tasks!Actor -> [state : State, retries : Nat \cup {-1}]]
        /\ goal'[s] = g
        /\ \A a \in Tasks!Actor \ {s} : goal'[a] = goal[a]
    BY <1>0, <2>2 DEF TasksTypes
  <2>4. /\ taskPc' \in [Tasks!Actor -> Tasks!Pc] /\ taskPc'[s] = "reading"
        /\ from' \in [Sweeper -> Worker \cup {Nil}]
        /\ \A a \in Tasks!Actor \ {s} : taskPc'[a] = taskPc[a]
        /\ \A a \in Sweeper \ {s} : from'[a] = from[a]
    BY <1>0, <1>4 DEF TasksTypes, Tasks!Pc
  <2> QED BY <2>1, <2>3, <2>4
<1>8. processing' \in [Worker -> [Task -> Nat]] /\ pending' \in Seq(Task)
  BY <1>2, <1>3, TasksLrem, TasksRpush
<1>9. TasksTypes'
  BY <1>4, <1>7, <1>8 DEF TasksTypes
<1>10. TasksActors'
  BY <1>0, <1>1, <1>2, <1>4, <1>7 DEF TasksActors, Tasks!Actor
<1>11. TasksKept'
  <2>1. \A u \in Task : /\ Listed(u) \/ Held(u) => (Listed(u) \/ Held(u))'
                        /\ (Listed(u) \/ Held(u))' => u = t \/ Listed(u) \/ Held(u)
    BY <1>2, <1>3, TasksKeptMoved
  <2>2. data[t].state # "none"
    BY <1>0, <1>1, <1>2 DEF TasksKept
  <2>3. \A u \in Task : (Listed(u) \/ Held(u))' => data'[u].state # "none"
    BY <1>4, <2>1, <2>2 DEF TasksKept
  <2>4. \A u \in Task : data'[u].state # "none" /\ u \notin ended' => (Listed(u) \/ Held(u))'
    BY <1>4, <2>1 DEF TasksKept
  <2>5. \A v \in Worker : v \in Tasks!Actor /\ taskPc'[v] = taskPc[v]
    BY <1>0, <1>7 DEF Tasks!Actor
  <2> QED BY <1>4, <2>3, <2>4, <2>5 DEF TasksKept
<1>12. TasksRetries'
  <2>1. /\ copy'[s].retries = 0 /\ goal'[s].retries = -1 /\ goal'[s].state = "Pending"
        /\ subject'[s] \in Task
    BY <1>1, <1>2, <1>4, <1>7 DEF Tasks!NoData
  <2>2. /\ copy'[s].retries <= data[subject'[s]].retries
        /\ goal'[s].retries <= data[subject'[s]].retries
    <3>1. data[subject'[s]].retries \in Nat
      BY <2>1 DEF TasksTypes
    <3> QED BY <2>1, <3>1
  <2> QED BY <1>0, <1>4, <1>7, <2>1, <2>2, RetriesKept DEF Tasks!Actor
<1>13. TasksSingle'
  <2> SUFFICES ASSUME ~misjudged, taskPc[w] = "crashed", processing[w][t] # 0 PROVE
          /\ Distinct(pending')
          /\ \A v \in Worker, u \in Task : processing'[v][u] \in {0, 1}
          /\ \A v \in Worker, u \in Task : processing'[v][u] > 0 =>
               ~Listed(u)' /\ \A x \in Worker \ {v} : processing'[x][u] = 0
          /\ TasksAlone'
    BY <1>3 DEF TasksSingle
  <2>1. processing[w][t] > 0
    BY <1>2 DEF TasksTypes
  <2>2. ~Listed(t) /\ \A v \in Worker \ {w} : processing[v][t] = 0
    BY <1>2, <2>1 DEF TasksSingle
  <2>3. TasksAlone'
    <3>1. \A v \in Worker : subject'[v] = subject[v] /\ (AtWork(v)' <=> AtWork(v))
      BY <1>0, <1>4, <1>7 DEF AtWork, Tasks!Actor
    <3>2. \A v \in Worker : AtWork(v) => subject[v] \in Task \ {t}
      <4> TAKE v \in Worker
      <4> HAVE AtWork(v)
      <4>1. subject[v] \in Task /\ v # w
        BY DEF AtWork, TasksActors, Tasks!Actor
      <4>2. processing[w][subject[v]] = 0
        BY <1>2, <4>1 DEF TasksSingle, TasksAlone
      <4> QED BY <2>1, <4>1, <4>2
    <3>3. /\ \A u : Listed(u)' <=> u = t \/ Listed(u)
          /\ \A v \in Worker, u \in Task \ {t} : processing'[v][u] = processing[v][u]
      BY <1>2, <1>3, TasksLrem, TasksRpush
    <3> QED BY <3>1, <3>2, <3>3 DEF TasksSingle, TasksAlone
  <2> QED BY <1>2, <1>3, <2>2, <2>3, TasksMoved
<1> QED BY <1>9, <1>10, <1>11, <1>12, <1>13

\* Every step of the queue keeps the invariant.
LEMMA TasksStep ==
  ASSUME TasksAssumption, TasksInv, [Tasks!Next]_Tasks!vars
  PROVE  TasksInv'
<1>0. CASE UNCHANGED Tasks!vars
  <2>1. UNCHANGED <<pending, processing, data, dlq, late, taskPc, subject, from, goal,
                    copy, ended, fails, misjudged, moves>>
    BY <1>0 DEF Tasks!vars
  <2>2. TasksTypes' /\ TasksActors' /\ TasksKept'
    BY <2>1 DEF TasksInv, TasksTypes, TasksActors, TasksKept, Listed, Held
  <2>3. TasksRetries'
    <3>1. Uncounted' = Uncounted
      BY <2>1 DEF Uncounted, Catching
    <3> QED BY <2>1, <3>1 DEF TasksInv, TasksRetries, Tasks!DeadLetterJustified
  <2>4. TasksSingle'
    BY <2>1 DEF TasksInv, TasksSingle, TasksAlone, AtWork, Listed
  <2> QED BY <2>2, <2>3, <2>4 DEF TasksInv
<1>1. ASSUME NEW t \in Task,
             Tasks!Enqueue(t) \/ Tasks!GrowsOld(t) \/ Tasks!DeadlinePasses(t)
      PROVE  TasksInv'
  BY <1>1, TasksEnqueue, TasksTime
<1>2. ASSUME NEW a \in Tasks!Actor, Tasks!ReadTask(a) \/ Tasks!WriteTask(a)
      PROVE  TasksInv'
  BY <1>2, TasksRead, TasksWrite
<1>3. ASSUME NEW w \in Worker, Tasks!Work(w) \/ Tasks!Crash(w)
      PROVE  TasksInv'
  BY <1>3, TasksTake, TasksDecide, TasksFail, TasksDone, TasksCrash DEF Tasks!Work
<1>4. ASSUME NEW s \in Sweeper,
             \/ \E w \in Worker, t \in Task : Tasks!Spot(s, w, t)
             \/ Tasks!Judge(s) \/ Tasks!Move(s)
      PROVE  TasksInv'
  BY <1>4, TasksLooked, TasksMove
<1> QED BY <1>0, <1>1, <1>2, <1>3, <1>4 DEF Tasks!Next

\* The lists, the data of the tasks and the hands of the workers agree
\* (handleTask, recoverOrphanedTasks).
THEOREM TasksInvariance == ASSUME TasksAssumption PROVE Tasks!Spec => []TasksInv
<1>1. Tasks!Init => TasksInv
  BY TasksInit
<1>2. TasksInv /\ [Tasks!Next]_Tasks!vars => TasksInv'
  BY TasksStep
<1> QED BY <1>1, <1>2, PTL DEF Tasks!Spec

\* How often a task is in the pending list, as Occurrences counts it.
LEMMA OccurrencesCount ==
  ASSUME TasksTypes, NEW t
  PROVE  /\ Listed(t) => Tasks!Occurrences(t) > 0
         /\ ~Listed(t) => Tasks!Occurrences(t) = 0
         /\ Distinct(pending) => Tasks!Occurrences(t) <= 1
<1> DEFINE I == {i \in 1..Len(pending) : pending[i] = t}
<1>1. Tasks!Occurrences(t) = Cardinality(I)
  BY TasksCardinality DEF Tasks!Occurrences
<1>2. IsFiniteSet(I) /\ Cardinality(I) \in Nat
  <2>1. Len(pending) \in Int /\ I \in SUBSET (1..Len(pending))
    BY DEF TasksTypes
  <2>2. IsFiniteSet(1..Len(pending))
    BY <2>1, FS_Interval
  <2> QED BY <2>1, <2>2, FS_Subset, FS_CardinalityType
<1>3. Listed(t) <=> I # {}
  BY DEF Listed
<1>4. Cardinality(I) = 0 <=> I = {}
  BY <1>2, FS_EmptySet
<1>5. ASSUME Distinct(pending)
      PROVE  Cardinality(I) <= 1
  <2>1. CASE I = {}
    BY <1>4, <2>1
  <2>2. CASE I # {}
    <3>1. PICK i \in I : TRUE
      BY <2>2
    <3>2. I = {i}
      BY <1>5, <3>1 DEF Distinct
    <3>3. Cardinality(I) = 1
      BY <3>2, FS_Singleton
    <3> QED BY <3>3
  <2> QED BY <2>1, <2>2
<1> HIDE DEF I
<1> QED BY <1>1, <1>2, <1>3, <1>4, <1>5

\* No task is lost, whoever crashes (handleTask, recoverOrphanedTasks).
THEOREM TasksAreKept == ASSUME TasksAssumption PROVE Tasks!Spec => []Tasks!NoTaskLost
<1>1. ASSUME TasksInv PROVE Tasks!NoTaskLost
  BY <1>1, OccurrencesCount DEF TasksInv, TasksKept, Held, Tasks!NoTaskLost
<1> QED BY <1>1, TasksInvariance, PTL

\* No task is in two places, as long as the sweeper judges rightly
\* (recoverOrphanedTasks).
THEOREM TasksAreSingle == ASSUME TasksAssumption PROVE Tasks!Spec => []Tasks!SinglePlace
<1>1. ASSUME TasksInv PROVE Tasks!SinglePlace
  BY <1>1, OccurrencesCount DEF TasksInv, TasksSingle, Tasks!SinglePlace
<1> QED BY <1>1, TasksInvariance, PTL

\* No task is given up before its deadline or its retries are over (handleTask).
THEOREM DeadLettersJustified ==
  ASSUME TasksAssumption
  PROVE  Tasks!Spec => []Tasks!DeadLetterJustified
<1>1. TasksInv => Tasks!DeadLetterJustified
  BY DEF TasksInv, TasksRetries
<1> QED BY <1>1, TasksInvariance, PTL

-----------------------------------------------------------------------------
(* The services together *)

\* Each service behaves as its own module says, whichever of them runs.
THEOREM EachKeepsItsSpecification ==
  ServicesSpec => Jobs!Spec /\ Keys!Spec /\ Cache!Spec /\ Tasks!Spec
<1>1. ServicesInit => Jobs!Init /\ Keys!Init /\ Cache!Init /\ Tasks!Init
  BY DEF ServicesInit, ServicesStart
<1>2. [ServicesNext]_<<component, serviceVars>>
        => /\ [Jobs!Next]_Jobs!vars /\ [Keys!Next]_Keys!vars
           /\ [Cache!Next]_Cache!vars /\ [Tasks!Next]_Tasks!vars
  <2> USE DEF compileVars, requestVars, cacheVars, taskVars, Jobs!vars, Keys!vars,
              Cache!vars, Tasks!vars
  <2>1. CASE UNCHANGED <<component, serviceVars>>
    BY <2>1 DEF serviceVars
  <2>2. CASE ServicesNext
    BY <2>2 DEF ServicesNext
  <2> QED BY <2>1, <2>2
<1> QED BY <1>1, <1>2, PTL
        DEF ServicesSpec, Jobs!Spec, Keys!Spec, Cache!Spec, Tasks!Spec

\* No job, request, fetch or task is done by two at a time, done again or
\* forgotten (compileQueued, idempotency, get, handleTask).
THEOREM NothingIsDoneTwice == ServicesSpec => []DoneOnce
<1>1. JobsAssumption /\ KeysAssumption /\ CacheAssumption /\ TasksAssumption
  BY ServicesAssumption
<1>2. /\ Jobs!SlotsExact /\ Jobs!PoolConserved
      /\ Jobs!LockExcludes /\ Jobs!RepeatedOnceAfterDeath
      /\ Keys!OneSuccess /\ Cache!SingleFlight
      /\ Tasks!SinglePlace /\ Tasks!NoTaskLost
      => DoneOnce
  BY DEF DoneOnce
<1> QED BY <1>1, <1>2, EachKeepsItsSpecification, SlotsAreExact, PoolIsConserved,
           LocksExclude, OneRepeatAfterDeath, OneHandlerSucceeds, OneFlight,
           TasksAreSingle, TasksAreKept, PTL

\* An answer, a replay, a value in a cache and a dead letter have their cause
\* (compileOnce, readRecord, applyRemoteInvalidation, handleTask).
THEOREM EveryAnswerIsGenuine == ServicesSpec => []AnswersGenuine
<1>1. JobsAssumption /\ KeysAssumption /\ CacheAssumption /\ TasksAssumption
  BY ServicesAssumption
<1>2. /\ Jobs!HitsWereBuilt /\ Keys!ReplayIsGenuine /\ Keys!SentinelHasRunner
      /\ Cache!PurgeReachesOthers /\ Tasks!DeadLetterJustified
      => AnswersGenuine
  BY DEF AnswersGenuine
<1> QED BY <1>1, <1>2, EachKeepsItsSpecification, HitsAreBuilt, OnlyGenuineReplays,
           SentinelIsAnswered, PurgesReachProcesses, DeadLettersJustified, PTL
=============================================================================
