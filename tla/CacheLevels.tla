---------------------------- MODULE CacheLevels ----------------------------
(***************************************************************************)
(* The two level cache (multiLevelCache.js: L1 in each process, L2 in      *)
(* Redis) and its purge by tag (cacheInvalidator.js).                      *)
(*                                                                         *)
(* There is one cache key, which depends on one tag.  A value is the       *)
(* version of the source of data it was fetched from; 0 is no value.  A    *)
(* reader is a sequence of get() calls of one process, each followed by    *)
(* remember() if the caller wants its key to be found by tag; a purger is  *)
(* a sequence of ledger events handled in one process.  A step is a        *)
(* stretch of code between two awaits or a command executed by Redis.      *)
(***************************************************************************)
EXTENDS Integers, Sequences

CONSTANTS Process,    \* API processes
          Reader,     \* callers of get() and remember()
          Purger,     \* handlers of ledger events
          ProcOf,     \* the process of a reader or a purger
          MaxVersion, \* bound: versions of the data
          MaxPurges,  \* bound: purges that are begun
          None        \* no reader

VARIABLES
  db,       \* the version of the source of data
  l1,       \* per process: the value in L1
  timed,    \* per process: does that entry have a number for its ttl?
  l2,       \* the value in Redis
  inflight, \* per process: the reader whose fetch the others share
  rpc,      \* how far a get() has got
  rval,     \* the value it has read
  tags,     \* will its caller call remember()?
  index,    \* Redis: the set of the tag holds the key
  localTag, \* per process: localTags holds the key
  ppc,      \* how far a purge has got
  batch,    \* is its event one of a batch?
  found,    \* has it found the key under the tag?
  floor,    \* history: the version it purges, 0 if a get() was under way
  channel,  \* per process: purge messages on their way to it
  base,     \* history: versions before this one were purged in the process
  purges    \* purges begun so far

dataVars == <<db, l2>>
localVars == <<l1, timed, base>>
getVars == <<inflight, rpc, rval, tags>>
tagVars == <<index, localTag>>
purgeVars == <<ppc, batch, found, floor, channel, purges>>
vars == <<db, l1, timed, l2, inflight, rpc, rval, tags, index, localTag, ppc,
          batch, found, floor, channel, base, purges>>

\* "asking": awaits L2; "answered": L2 has answered; "fetching": awaits the
\* source; "fetched": the source has answered; "storing": returned, the value
\* on its way to L2; "indexing": remember() on its way to Redis.
ReaderPc == {"idle", "asking", "answered", "fetching", "fetched", "storing",
             "indexing"}
\* The commands of a purge: SCAN and DEL by prefix, SMEMBERS of the tag, DEL of
\* the key, DEL of the tag, PUBLISH.
PurgerPc == {"idle", "scan", "members", "delete", "untag", "publish"}

Init ==
  /\ db = 1 /\ l2 = 0
  /\ l1 = [p \in Process |-> 0] /\ timed = [p \in Process |-> TRUE]
  /\ inflight = [p \in Process |-> None]
  /\ rpc = [r \in Reader |-> "idle"] /\ rval = [r \in Reader |-> 0]
  /\ tags = [r \in Reader |-> FALSE]
  /\ index = FALSE /\ localTag = [p \in Process |-> FALSE]
  /\ ppc = [u \in Purger |-> "idle"] /\ batch = [u \in Purger |-> FALSE]
  /\ found = [u \in Purger |-> FALSE] /\ floor = [u \in Purger |-> 0]
  /\ channel = [p \in Process |-> <<>>] /\ base = [p \in Process |-> 0]
  /\ purges = 0

-----------------------------------------------------------------------------
(* get() and remember().  A local variable is reset after its last use. *)

Drop(p) ==
  /\ l1' = [l1 EXCEPT ![p] = 0] /\ timed' = [timed EXCEPT ![p] = TRUE]

Fill(r, hasNumber, store) ==
  LET p == ProcOf[r]
  IN /\ l1' = [l1 EXCEPT ![p] = rval[r]]
     /\ timed' = [timed EXCEPT ![p] = hasNumber]
     /\ \E wanted \in BOOLEAN :
          /\ tags' = [tags EXCEPT ![r] = wanted]
          /\ localTag' = [localTag EXCEPT ![p] = @ \/ wanted]
          /\ rpc' = [rpc EXCEPT ![r] = IF store THEN "storing"
                                       ELSE IF wanted THEN "indexing"
                                       ELSE "idle"]

\* L1 has nothing: L2 is asked.  (A get() that L1 answers changes nothing.)
Get(r) ==
  /\ rpc[r] = "idle" /\ l1[ProcOf[r]] = 0
  /\ rpc' = [rpc EXCEPT ![r] = "asking"]
  /\ UNCHANGED <<dataVars, localVars, inflight, rval, tags, tagVars, purgeVars>>

\* Redis executes the GET.
AskL2(r) ==
  /\ rpc[r] = "asking"
  /\ rpc' = [rpc EXCEPT ![r] = "answered"]
  /\ rval' = [rval EXCEPT ![r] = l2]
  /\ UNCHANGED <<dataVars, localVars, inflight, tags, tagVars, purgeVars>>

\* L2 had a value: it goes to L1.  #resolveL1Ttl() is async, so what is
\* given as its ttl is a promise, which no age ever exceeds.
FillFromL2(r) ==
  /\ rpc[r] = "answered" /\ rval[r] # 0
  /\ Fill(r, FALSE, FALSE)
  /\ rval' = [rval EXCEPT ![r] = 0]
  /\ UNCHANGED <<dataVars, base, inflight, index, purgeVars>>

\* A fetch is under way: its promise is awaited.
Share(r) ==
  /\ rpc[r] = "answered" /\ rval[r] = 0 /\ inflight[ProcOf[r]] # None
  /\ rpc' = [rpc EXCEPT ![r] = "idle"]
  /\ UNCHANGED <<dataVars, localVars, inflight, rval, tags, tagVars, purgeVars>>

\* fetchFn() is called.
Fetch(r) ==
  /\ rpc[r] = "answered" /\ rval[r] = 0 /\ inflight[ProcOf[r]] = None
  /\ inflight' = [inflight EXCEPT ![ProcOf[r]] = r]
  /\ rpc' = [rpc EXCEPT ![r] = "fetching"]
  /\ UNCHANGED <<dataVars, localVars, rval, tags, tagVars, purgeVars>>

\* The source of data is read.
ReadSource(r) ==
  /\ rpc[r] = "fetching"
  /\ rval' = [rval EXCEPT ![r] = db]
  /\ rpc' = [rpc EXCEPT ![r] = "fetched"]
  /\ UNCHANGED <<dataVars, localVars, inflight, tags, tagVars, purgeVars>>

\* The fetch resolves: L1 is filled, L2 is sent the value, nobody awaits it.
Fetched(r) ==
  /\ rpc[r] = "fetched"
  /\ Fill(r, TRUE, TRUE)
  /\ inflight' = [inflight EXCEPT ![ProcOf[r]] = None]
  /\ UNCHANGED <<dataVars, base, rval, index, purgeVars>>

\* The fetch rejects, or resolves to nothing.
FetchFails(r) ==
  /\ rpc[r] = "fetching"
  /\ rpc' = [rpc EXCEPT ![r] = "idle"]
  /\ inflight' = [inflight EXCEPT ![ProcOf[r]] = None]
  /\ UNCHANGED <<dataVars, localVars, rval, tags, tagVars, purgeVars>>

\* Redis executes the SET.
StoreL2(r) ==
  /\ rpc[r] = "storing"
  /\ l2' = rval[r] /\ rval' = [rval EXCEPT ![r] = 0]
  /\ rpc' = [rpc EXCEPT ![r] = IF tags[r] THEN "indexing" ELSE "idle"]
  /\ UNCHANGED <<db, localVars, inflight, tags, tagVars, purgeVars>>

\* Redis executes the pipeline of remember().
Index(r) ==
  /\ rpc[r] = "indexing"
  /\ index' = TRUE
  /\ rpc' = [rpc EXCEPT ![r] = "idle"] /\ tags' = [tags EXCEPT ![r] = FALSE]
  /\ UNCHANGED <<dataVars, localVars, inflight, rval, localTag, purgeVars>>

-----------------------------------------------------------------------------
(* The environment: writes, times to live, and the size limit of L1. *)

Write ==
  /\ db < MaxVersion
  /\ db' = db + 1
  /\ UNCHANGED <<l2, localVars, getVars, tagVars, purgeVars>>

L1Expires(p) ==
  /\ l1[p] # 0 /\ timed[p]
  /\ Drop(p)
  /\ UNCHANGED <<dataVars, base, getVars, tagVars, purgeVars>>

L1Evicts(p) ==
  /\ l1[p] # 0
  /\ Drop(p)
  /\ UNCHANGED <<dataVars, base, getVars, tagVars, purgeVars>>

L2Expires ==
  /\ l2 # 0
  /\ l2' = 0
  /\ UNCHANGED <<db, localVars, getVars, tagVars, purgeVars>>

-----------------------------------------------------------------------------
(* invalidateForLedgerEvent(), alone or for each event of a batch. *)

\* #invalidateContractPrefixes() begins with L1.
Purge(u) ==
  /\ ppc[u] = "idle" /\ purges < MaxPurges
  /\ Drop(ProcOf[u])
  /\ \E b \in BOOLEAN : batch' = [batch EXCEPT ![u] = b]
  /\ floor' = [floor EXCEPT ![u] = db]
  /\ found' = [found EXCEPT ![u] = FALSE]
  /\ ppc' = [ppc EXCEPT ![u] = "scan"]
  /\ purges' = purges + 1
  /\ UNCHANGED <<dataVars, base, getVars, tagVars, channel>>

\* L2 is scanned for the prefix and the key deleted; then invalidateTags()
\* takes the keys of localTags.  Only a get() under way at this moment can
\* bring an older value back.
Scan(u) ==
  /\ ppc[u] = "scan"
  /\ l2' = 0
  /\ floor' = [floor EXCEPT ![u] = IF \A r \in Reader : rpc[r] = "idle"
                                   THEN @ ELSE 0]
  /\ found' = [found EXCEPT ![u] = localTag[ProcOf[u]]]
  /\ ppc' = [ppc EXCEPT ![u] = "members"]
  /\ UNCHANGED <<db, localVars, getVars, tagVars, batch, channel, purges>>

\* SMEMBERS; then #deleteKeys() drops the keys found from L1.
Members(u) ==
  /\ ppc[u] = "members"
  /\ found' = [found EXCEPT ![u] = @ \/ index]
  /\ IF found[u] \/ index
     THEN Drop(ProcOf[u]) /\ ppc' = [ppc EXCEPT ![u] = "delete"]
     ELSE ppc' = [ppc EXCEPT ![u] = "untag"] /\ UNCHANGED <<l1, timed>>
  /\ UNCHANGED <<dataVars, base, getVars, tagVars, batch, floor,
                 channel, purges>>

\* DEL of the key, which then leaves localTags.
DeleteKey(u) ==
  /\ ppc[u] = "delete"
  /\ l2' = 0
  /\ localTag' = [localTag EXCEPT ![ProcOf[u]] = FALSE]
  /\ ppc' = [ppc EXCEPT ![u] = "untag"]
  /\ UNCHANGED <<db, localVars, getVars, index, batch, found, floor, channel,
                 purges>>

\* DEL of the tag: keys remembered since SMEMBERS go with it.
Untag(u) ==
  /\ ppc[u] = "untag"
  /\ index' = FALSE
  /\ localTag' = [localTag EXCEPT ![ProcOf[u]] = FALSE]
  /\ ppc' = [ppc EXCEPT ![u] = "publish"]
  /\ UNCHANGED <<dataVars, localVars, getVars, batch, found, floor, channel,
                 purges>>

\* PUBLISH to every process.  The message of a batch names its tags and no
\* key.
Publish(u) ==
  /\ ppc[u] = "publish"
  /\ channel' = [p \in Process |->
       Append(channel[p], [keys |-> found[u] /\ ~batch[u],
                           floor |-> IF found[u] /\ ~batch[u] THEN floor[u] ELSE 0])]
  /\ ppc' = [ppc EXCEPT ![u] = "idle"]
  /\ batch' = [batch EXCEPT ![u] = FALSE]
  /\ found' = [found EXCEPT ![u] = FALSE]
  /\ floor' = [floor EXCEPT ![u] = 0]
  /\ UNCHANGED <<dataVars, localVars, getVars, tagVars, purges>>

\* Mutation: only the tag is dropped from the local index.
ApplyTags(p) ==
  /\ channel[p] # <<>>
  /\ LET m == Head(channel[p])
     IN base' = [base EXCEPT ![p] = IF m.floor > @ THEN m.floor ELSE @]
  /\ localTag' = [localTag EXCEPT ![p] = FALSE]
  /\ channel' = [channel EXCEPT ![p] = Tail(@)]
  /\ UNCHANGED <<dataVars, l1, timed, getVars, index, ppc, batch, found,
                 floor, purges>>

\* applyRemoteInvalidation(): the keys named leave L1, the tags the index.
Apply(p) ==
  /\ channel[p] # <<>>
  /\ LET m == Head(channel[p])
     IN /\ IF m.keys THEN Drop(p) ELSE UNCHANGED <<l1, timed>>
        /\ base' = [base EXCEPT ![p] = IF m.floor > @ THEN m.floor ELSE @]
  /\ localTag' = [localTag EXCEPT ![p] = FALSE]
  /\ channel' = [channel EXCEPT ![p] = Tail(@)]
  /\ UNCHANGED <<dataVars, getVars, index, ppc, batch, found, floor, purges>>

\* A message does not reach a process whose subscriber is disconnected.
Lose(p) ==
  /\ channel[p] # <<>>
  /\ channel' = [channel EXCEPT ![p] = Tail(@)]
  /\ UNCHANGED <<dataVars, localVars, getVars, tagVars, ppc, batch, found,
                 floor, purges>>

-----------------------------------------------------------------------------
(* The specification. *)

Read(r) ==
  \/ Get(r) \/ AskL2(r) \/ FillFromL2(r) \/ Share(r) \/ Fetch(r)
  \/ ReadSource(r) \/ Fetched(r) \/ FetchFails(r) \/ StoreL2(r) \/ Index(r)

Invalidate(u) ==
  \/ Purge(u) \/ Scan(u) \/ Members(u) \/ DeleteKey(u) \/ Untag(u)
  \/ Publish(u)

Next ==
  \/ \E r \in Reader : Read(r)
  \/ \E u \in Purger : Invalidate(u)
  \/ \E p \in Process : L1Expires(p) \/ L1Evicts(p) \/ Apply(p) \/ Lose(p)
  \/ Write \/ L2Expires

Spec == Init /\ [][Next]_vars

-----------------------------------------------------------------------------
(* Properties. *)

\* Stampede protection of get(): in a process at most one fetch is under way,
\* and a promise in `inflight` belongs to a fetch that is: no later get()
\* awaits one that has ended.
SingleFlight ==
  \A p \in Process :
    {r \in Reader : ProcOf[r] = p /\ rpc[r] \in {"fetching", "fetched"}}
      = {inflight[p]} \ {None}

\* invalidateTags(): once the message of a purge that found the key, and was not
\* one of a batch, has been applied in a process, and no get() was under way
\* when L2 was purged, L1 of that process never again has a version older than
\* the purge, whichever processes fetch, store, purge and expire meanwhile.
PurgeReachesOthers ==
  \A p \in Process : l1[p] # 0 => l1[p] >= base[p]
=============================================================================
