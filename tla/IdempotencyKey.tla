--------------------------- MODULE IdempotencyKey ---------------------------
(***************************************************************************)
(* The idempotency middleware (middleware/idempotency.js) for one key of   *)
(* one tenant, method and path: the record of the key in Redis or, while   *)
(* Redis is away, in the memory of the process.                            *)
(*                                                                         *)
(* A request is a call of the middleware with that key, and of the handler *)
(* behind it.  A step is a stretch of code between two awaits together     *)
(* with the command it sends.  A response is the request it was made for.  *)
(***************************************************************************)
EXTENDS Integers

CONSTANTS Request,    \* requests that carry the key
          MaxFlips,   \* bound: changes between Redis and memory
          MaxLapses,  \* bound: records that expire
          MaxCrashes, \* bound: handlers that never respond
          Empty,      \* no record
          InFlight    \* the sentinel {status: undefined}

VARIABLES
  rec,     \* the record of the key in each store
  current, \* the store getRedis() chooses at present
  pc,      \* how far a request has got
  seen,    \* the record it has read
  overran, \* history: a sentinel was written over a record
  flips,   \* changes of store so far
  lapses,  \* records that expired so far
  crashes  \* handlers that never responded so far

vars == <<rec, current, pc, seen, overran, flips, lapses, crashes>>
counters == <<flips, lapses, crashes>>

Store == {"redis", "memory"}
\* "read": knows the record; "running": the sentinel is written and the handler
\* at work; "storing", "clearing": has responded, below 500 or not; "stored",
\* "cleared": the record is written or deleted; "replayed", "conflict":
\* answered by the middleware; "lost": the handler never responds.
Pc == {"new", "read", "running", "storing", "clearing", "stored", "cleared",
       "replayed", "conflict", "lost"}
Succeeded == {"storing", "stored"}

Init ==
  /\ rec = [s \in Store |-> Empty] /\ current = "redis"
  /\ pc = [i \in Request |-> "new"] /\ seen = [i \in Request |-> Empty]
  /\ overran = FALSE /\ flips = 0 /\ lapses = 0 /\ crashes = 0

-----------------------------------------------------------------------------
(* The middleware. *)

\* readRecord()
Read(i) ==
  /\ pc[i] = "new"
  /\ seen' = [seen EXCEPT ![i] = rec[current]]
  /\ pc' = [pc EXCEPT ![i] = "read"]
  /\ UNCHANGED <<rec, current, overran, counters>>

\* Somebody's request is in flight: 409.
Conflict(i) ==
  /\ pc[i] = "read" /\ seen[i] = InFlight
  /\ pc' = [pc EXCEPT ![i] = "conflict"]
  /\ UNCHANGED <<rec, current, seen, overran, counters>>

\* A response is there: it is sent again.
Replay(i) ==
  /\ pc[i] = "read" /\ seen[i] \in Request
  /\ pc' = [pc EXCEPT ![i] = "replayed"]
  /\ UNCHANGED <<rec, current, seen, overran, counters>>

\* Mutation: a response that was found does not keep the handler from running.
MarkAfterResponse(i) ==
  /\ pc[i] = "read" /\ seen[i] # InFlight
  /\ overran' = (overran \/ rec[current] \notin {Empty, seen[i]})
  /\ rec' = [rec EXCEPT ![current] = InFlight]
  /\ pc' = [pc EXCEPT ![i] = "running"]
  /\ UNCHANGED <<current, seen, counters>>

\* Nothing was there when it was read: the sentinel is written over whatever
\* is there now, and the handler runs.
Mark(i) ==
  /\ pc[i] = "read" /\ seen[i] = Empty
  /\ overran' = (overran \/ rec[current] # Empty)
  /\ rec' = [rec EXCEPT ![current] = InFlight]
  /\ pc' = [pc EXCEPT ![i] = "running"]
  /\ UNCHANGED <<current, seen, counters>>

\* The handler responds, and writeRecord() or deleteRecord() is left to itself.
Respond(i) ==
  /\ pc[i] = "running"
  /\ \E next \in {"storing", "clearing"} : pc' = [pc EXCEPT ![i] = next]
  /\ UNCHANGED <<rec, current, seen, overran, counters>>

\* The process dies, or the handler does not respond.
Crash(i) ==
  /\ pc[i] = "running" /\ crashes < MaxCrashes
  /\ pc' = [pc EXCEPT ![i] = "lost"]
  /\ crashes' = crashes + 1
  /\ UNCHANGED <<rec, current, seen, overran, flips, lapses>>

\* A response below 500 is recorded.
StoreResponse(i) ==
  /\ pc[i] = "storing"
  /\ rec' = [rec EXCEPT ![current] = i]
  /\ pc' = [pc EXCEPT ![i] = "stored"]
  /\ UNCHANGED <<current, seen, overran, counters>>

\* A 5xx response: the sentinel is deleted, so that the client may retry.
ClearSentinel(i) ==
  /\ pc[i] = "clearing"
  /\ rec' = [rec EXCEPT ![current] = Empty]
  /\ pc' = [pc EXCEPT ![i] = "cleared"]
  /\ UNCHANGED <<current, seen, overran, counters>>

\* Redis goes away or comes back; neither store is told of the other.
Flip ==
  /\ flips < MaxFlips
  /\ current' \in Store \ {current}
  /\ flips' = flips + 1
  /\ UNCHANGED <<rec, pc, seen, overran, lapses, crashes>>

Expire(s) ==
  /\ rec[s] # Empty /\ lapses < MaxLapses
  /\ rec' = [rec EXCEPT ![s] = Empty]
  /\ lapses' = lapses + 1
  /\ UNCHANGED <<current, pc, seen, overran, flips, crashes>>

Handle(i) ==
  \/ Read(i) \/ Conflict(i) \/ Replay(i) \/ Mark(i) \/ Respond(i)
  \/ Crash(i) \/ StoreResponse(i) \/ ClearSentinel(i)

Next ==
  \/ \E i \in Request : Handle(i)
  \/ Flip
  \/ \E s \in Store : Expire(s)

Spec == Init /\ [][Next]_vars

-----------------------------------------------------------------------------
(* Properties. *)

\* What is replayed was the response, below 500, of a request whose handler
\* ran for this key; never that of a handler that failed or was lost.
ReplayIsGenuine ==
  /\ \A s \in Store : rec[s] \in Request => pc[rec[s]] = "stored"
  /\ \A i \in Request : seen[i] \in Request => pc[seen[i]] = "stored"

\* As long as the store does not change, nothing expires and no request has
\* written its sentinel over a record it had not seen, at most one handler
\* succeeds for the key, and none runs beside it or after it.
OneSuccess ==
  flips = 0 /\ lapses = 0 /\ ~overran =>
    \A i, j \in Request :
      i # j /\ pc[i] \in Succeeded =>
        pc[j] \notin Succeeded \cup {"running", "clearing"}

\* A 409 ends: while the store does not change, a sentinel stands only for a
\* handler that is still to respond, or whose answer is on its way to the
\* store, or that was lost.
SentinelHasRunner ==
  flips = 0 =>
    \A s \in Store : rec[s] = InFlight =>
      \E i \in Request : pc[i] \in {"running", "storing", "clearing", "lost"}
=============================================================================
