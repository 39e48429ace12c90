-------------------------- MODULE OracleConsensus ---------------------------
(***************************************************************************)
(* Consensus of the oracle nodes on a proof (consensus.js, voteStore.js,   *)
(* oracleNode.js, oracleService.js).  Every node validates the proof and   *)
(* puts its vote into the shared store; whoever then sees a quorum tries   *)
(* to take the submission lock of the proof, submits as the leader, and    *)
(* releases the lock.  The service records the outcome when all nodes have *)
(* finished, and forgets the oldest proof when it tracks too many.         *)
(*                                                                         *)
(* Proofs are numbered in the order they arrive.  The submission lock is   *)
(* the lock of OracleLock, asked once and kept for its time to live; here  *)
(* it is a variable that holds a node or nobody, and may expire.           *)
(***************************************************************************)
EXTENDS Integers, FiniteSets, FiniteSetsExt, Sequences

CONSTANTS Node,       \* oracle nodes
          Vote,       \* what validate() may return
          None,       \* no vote, no node
          WeightOf,   \* the weight of a node's vote
          Threshold,  \* weight of matching votes that makes a quorum
          MaxProofs,  \* bound: number of proofs submitted
          Retention,  \* proofRetention: proofs kept
          MaxFaults   \* bound: expired entries and failed store or lock calls

Proof == 1..MaxProofs

ASSUME ConsensusAssumption ==
  /\ IsFiniteSet(Node)
  /\ WeightOf \in [Node -> Nat]
  /\ Threshold \in Nat \ {0}
  /\ MaxProofs \in Nat /\ Retention \in Nat \ {0} /\ MaxFaults \in Nat
  /\ None \notin Node /\ None \notin Vote

VARIABLES
  votes,        \* vote store: proof -> node -> vote
  lock,         \* the node that holds the proof's submission lock
  pc,           \* how far a node has got with a proof
  ballot,       \* the vote a node has computed
  quorumVote,   \* the vote a node saw reach the threshold
  submissions,  \* calls of the submitter: pairs <<node, vote>>
  status,       \* the service's status of a proof
  order,        \* proofOrder: the tracked proofs, oldest first
  stage,        \* what the _runProof() of a proof is waiting for
  faults,       \* number of faults so far
  cast,         \* history: every vote put for a proof
  lapsed,       \* history: <<proof, node>> whose lock expired while leading
  disturbed     \* history: proofs hit by a fault or evicted while voting

nodeVars == <<ballot, quorumVote>>
serviceVars == <<status, order, stage>>
historyVars == <<cast, lapsed, disturbed>>
vars == <<votes, lock, pc, ballot, quorumVote, submissions, status, order,
          stage, faults, cast, lapsed, disturbed>>

Final == {"pending", "follower", "leader", "rejected"}
Step == {"idle", "validate", "put", "check", "elect", "won", "release"}
Terminal == {"submitted", "no_quorum", "failed"}
\* _runProof() waits for the nodes, then perhaps for the tally; it is over when
\* its promise is settled.
Stage == {"before", "nodes", "tally", "over"}

NoVotes == [n \in Node |-> None]

\* _weightOf, summed over the nodes in S.
Weight(S) == MapThenSumSet(LAMBDA n : WeightOf[n], S)

\* tally(): the weight of the stored votes for v.
Tally(p, v) == Weight({n \in Node : votes[p][n] = v})

\* The first entry of the sorted results; votes of equal weight may come in
\* any order.
Leading(p) ==
  {v \in Vote : /\ \E n \in Node : votes[p][n] = v
                /\ \A w \in Vote : Tally(p, w) <= Tally(p, v)}

Submitted(p) == {s[2] : s \in submissions[p]}

-----------------------------------------------------------------------------
Init ==
  /\ votes = [p \in Proof |-> NoVotes]
  /\ lock = [p \in Proof |-> None]
  /\ pc = [p \in Proof |-> [n \in Node |-> "idle"]]
  /\ ballot = [p \in Proof |-> NoVotes]
  /\ quorumVote = [p \in Proof |-> NoVotes]
  /\ submissions = [p \in Proof |-> {}]
  /\ status = [p \in Proof |-> "unknown"]
  /\ order = << >>
  /\ stage = [p \in Proof |-> "before"]
  /\ faults = 0
  /\ cast = [p \in Proof |-> {}]
  /\ lapsed = {}
  /\ disturbed = {}

GoTo(p, n, step) == pc' = [pc EXCEPT ![p][n] = step]

Fault == faults < MaxFaults /\ faults' = faults + 1

\* A fault or an eviction that hits proof p while it is being voted on.
Disturb(p) ==
  disturbed' = IF status[p] = "voting" THEN disturbed \cup {p} ELSE disturbed

\* Mutation: one proof more than the retention is kept.
SubmitProofKeepingOneMore(p) ==
  /\ status[p] = "unknown" /\ \A q \in Proof : q < p => status[q] # "unknown"
  /\ status' = [status EXCEPT ![p] = "voting"]
  /\ pc' = [pc EXCEPT ![p] = [n \in Node |-> "validate"]]
  /\ stage' = [stage EXCEPT ![p] = "nodes"]
  /\ IF Len(order) <= Retention
     THEN /\ order' = Append(order, p)
          /\ UNCHANGED <<votes, disturbed>>
     ELSE /\ order' = Append(Tail(order), p)
          /\ votes' = [votes EXCEPT ![Head(order)] = NoVotes]
          /\ Disturb(Head(order))
  /\ UNCHANGED <<lock, nodeVars, submissions, faults, cast, lapsed>>

\* submitProof(), _trackProof() and the start of _runProof(): the proof is
\* tracked, the oldest one dropped with its votes when there are too many,
\* and every node starts on the new proof.
SubmitProof(p) ==
  /\ status[p] = "unknown" /\ \A q \in Proof : q < p => status[q] # "unknown"
  /\ status' = [status EXCEPT ![p] = "voting"]
  /\ pc' = [pc EXCEPT ![p] = [n \in Node |-> "validate"]]
  /\ stage' = [stage EXCEPT ![p] = "nodes"]
  /\ IF Len(order) < Retention
     THEN /\ order' = Append(order, p)
          /\ UNCHANGED <<votes, disturbed>>
     ELSE /\ order' = Append(Tail(order), p)
          /\ votes' = [votes EXCEPT ![Head(order)] = NoVotes]
          /\ Disturb(Head(order))
  /\ UNCHANGED <<lock, nodeVars, submissions, faults, cast, lapsed>>

\* validate(payload): a vote, or a rejection of the proof.
Validate(p, n) ==
  /\ pc[p][n] = "validate"
  /\ \/ \E v \in Vote : ballot' = [ballot EXCEPT ![p][n] = v]
        /\ GoTo(p, n, "put")
     \/ GoTo(p, n, "rejected") /\ UNCHANGED ballot
  /\ UNCHANGED <<votes, lock, quorumVote, submissions, serviceVars, faults,
                 historyVars>>

\* registerVote(): the vote is put into the shared store.
PutVote(p, n) ==
  /\ pc[p][n] = "put"
  /\ votes' = [votes EXCEPT ![p][n] = ballot[p][n]]
  /\ cast' = [cast EXCEPT ![p] = @ \cup {<<n, ballot[p][n]>>}]
  /\ GoTo(p, n, "check")
  /\ UNCHANGED <<lock, nodeVars, submissions, serviceVars, faults, lapsed,
                 disturbed>>

\* Mutation: the leading vote is taken with one vote too few.
QuorumReachedEarly(p, n) ==
  /\ pc[p][n] = "check"
  /\ \E v \in Leading(p) :
       /\ Tally(p, v) + 1 >= Threshold
       /\ quorumVote' = [quorumVote EXCEPT ![p][n] = v]
  /\ GoTo(p, n, "elect")
  /\ UNCHANGED <<votes, lock, ballot, submissions, serviceVars, faults,
                 historyVars>>

\* checkQuorum(): one reading of the votes decides for this node.
QuorumReached(p, n) ==
  /\ pc[p][n] = "check"
  /\ \E v \in Leading(p) :
       /\ Tally(p, v) >= Threshold
       /\ quorumVote' = [quorumVote EXCEPT ![p][n] = v]
  /\ GoTo(p, n, "elect")
  /\ UNCHANGED <<votes, lock, ballot, submissions, serviceVars, faults,
                 historyVars>>

\* Mutation: the threshold itself does not count as a quorum.
QuorumPendingAtThreshold(p, n) ==
  /\ pc[p][n] = "check"
  /\ \A v \in Vote : Tally(p, v) <= Threshold
  /\ GoTo(p, n, "pending")
  /\ UNCHANGED <<votes, lock, nodeVars, submissions, serviceVars, faults,
                 historyVars>>

QuorumPending(p, n) ==
  /\ pc[p][n] = "check"
  /\ \A v \in Vote : Tally(p, v) < Threshold
  /\ GoTo(p, n, "pending")
  /\ UNCHANGED <<votes, lock, nodeVars, submissions, serviceVars, faults,
                 historyVars>>

\* electLeader(): a single attempt at the submission lock of the proof.
ElectLeader(p, n) ==
  /\ pc[p][n] = "elect"
  /\ IF lock[p] = None
     THEN lock' = [lock EXCEPT ![p] = n] /\ GoTo(p, n, "won")
     ELSE GoTo(p, n, "follower") /\ UNCHANGED lock
  /\ UNCHANGED <<votes, nodeVars, submissions, serviceVars, faults,
                 historyVars>>

\* The leader calls the submitter, which may succeed or fail.
Submit(p, n) ==
  /\ pc[p][n] = "won"
  /\ submissions' = [submissions EXCEPT ![p] = @ \cup {<<n, quorumVote[p][n]>>}]
  /\ GoTo(p, n, "release")
  /\ UNCHANGED <<votes, lock, nodeVars, serviceVars, faults, historyVars>>

\* Mutation: the lock is deleted whoever holds it by now.
ReleaseAnyLock(p, n) ==
  /\ pc[p][n] = "release"
  /\ lock' = [lock EXCEPT ![p] = None]
  /\ GoTo(p, n, "leader")
  /\ UNCHANGED <<votes, nodeVars, submissions, serviceVars, faults,
                 historyVars>>

\* The leader releases its lock, if it still has it, and has finished.
ReleaseLock(p, n) ==
  /\ pc[p][n] = "release"
  /\ lock' = [lock EXCEPT ![p] = IF lock[p] = n THEN None ELSE lock[p]]
  /\ GoTo(p, n, "leader")
  /\ UNCHANGED <<votes, nodeVars, submissions, serviceVars, faults,
                 historyVars>>

\* The release fails, before or after it took effect, and the node goes on: a
\* lock that stays is free again only when it expires.
FailRelease(p, n) ==
  /\ pc[p][n] = "release"
  /\ Fault
  /\ \/ UNCHANGED lock
     \/ lock[p] = n /\ lock' = [lock EXCEPT ![p] = None]
  /\ GoTo(p, n, "leader")
  /\ UNCHANGED <<votes, nodeVars, submissions, serviceVars, historyVars>>

\* A call of the vote store or of the lock backend fails: the vote or the lock
\* may have been taken all the same, and the node reports a rejection.  A lock
\* that was won stays taken: its handle is lost.
StoreError(p, n) ==
  /\ Fault /\ Disturb(p)
  /\ \/ /\ pc[p][n] = "put"
        /\ \/ UNCHANGED <<votes, cast>>
           \/ /\ votes' = [votes EXCEPT ![p][n] = ballot[p][n]]
              /\ cast' = [cast EXCEPT ![p] = @ \cup {<<n, ballot[p][n]>>}]
        /\ UNCHANGED lock
     \/ /\ pc[p][n] \in {"check", "won"}
        /\ UNCHANGED <<votes, cast, lock>>
     \/ /\ pc[p][n] = "elect"
        /\ \/ UNCHANGED lock
           \/ lock[p] = None /\ lock' = [lock EXCEPT ![p] = n]
        /\ UNCHANGED <<votes, cast>>
  /\ GoTo(p, n, "rejected")
  /\ UNCHANGED <<nodeVars, submissions, serviceVars, lapsed>>

\* The submission lock outlives its time to live (SUBMISSION_LOCK_TTL_MS).
LockExpires(p) ==
  /\ lock[p] # None
  /\ Fault /\ Disturb(p)
  /\ lock' = [lock EXCEPT ![p] = None]
  /\ lapsed' = lapsed \cup {<<p, lock[p]>>}
  /\ UNCHANGED <<votes, pc, nodeVars, submissions, serviceVars, cast>>

\* The votes of a proof outlive theirs (voteTtlMs).
VotesExpire(p) ==
  /\ votes[p] # NoVotes
  /\ Fault /\ Disturb(p)
  /\ votes' = [votes EXCEPT ![p] = NoVotes]
  /\ UNCHANGED <<lock, pc, nodeVars, submissions, serviceVars, cast, lapsed>>

\* findLeaderResult().
HasLeader(p) == \E n \in Node : pc[p][n] = "leader"

\* The status without a leader: "failed" if no vote is stored and a node has
\* rejected the proof.
NoLeaderOutcome(p) ==
  IF votes[p] = NoVotes /\ \E n \in Node : pc[p][n] = "rejected"
  THEN "failed" ELSE "no_quorum"

\* Mutation: the return after the leader's outcome is missing.
SettleNodesAndGoOn(p) ==
  /\ stage[p] = "nodes"
  /\ \A n \in Node : pc[p][n] \in Final
  /\ IF HasLeader(p)
     THEN status' = [status EXCEPT ![p] = "submitted"]
     ELSE UNCHANGED status
  /\ stage' = [stage EXCEPT ![p] = "tally"]
  /\ UNCHANGED <<votes, lock, pc, nodeVars, submissions, order, faults,
                 historyVars>>

\* _runProof() after Promise.allSettled(): the proof is submitted if there is a
\* leader (_applyLeaderOutcome); else the tally is asked for.
SettleNodes(p) ==
  /\ stage[p] = "nodes"
  /\ \A n \in Node : pc[p][n] \in Final
  /\ IF HasLeader(p)
     THEN /\ status' = [status EXCEPT ![p] = "submitted"]
          /\ stage' = [stage EXCEPT ![p] = "over"]
     ELSE /\ stage' = [stage EXCEPT ![p] = "tally"]
          /\ UNCHANGED status
  /\ UNCHANGED <<votes, lock, pc, nodeVars, submissions, order, faults,
                 historyVars>>

\* _applyNoLeaderOutcome() when the tally is there.
RecordTally(p) ==
  /\ stage[p] = "tally"
  /\ status' = [status EXCEPT ![p] = NoLeaderOutcome(p)]
  /\ stage' = [stage EXCEPT ![p] = "over"]
  /\ UNCHANGED <<votes, lock, pc, nodeVars, submissions, order, faults,
                 historyVars>>

\* Mutation: nobody catches the rejection of _runProof().
FailTallyUncaught(p) ==
  /\ stage[p] = "tally"
  /\ Fault
  /\ stage' = [stage EXCEPT ![p] = "over"]
  /\ UNCHANGED <<votes, lock, pc, nodeVars, submissions, status, order,
                 historyVars>>

\* The tally fails: _runProof() rejects, and submitProof() catches it.
FailTally(p) ==
  /\ stage[p] = "tally"
  /\ Fault
  /\ status' = [status EXCEPT ![p] = "failed"]
  /\ stage' = [stage EXCEPT ![p] = "over"]
  /\ UNCHANGED <<votes, lock, pc, nodeVars, submissions, order, historyVars>>

NodeStep(p, n) ==
  \/ Validate(p, n) \/ PutVote(p, n) \/ QuorumReached(p, n)
  \/ QuorumPending(p, n) \/ ElectLeader(p, n) \/ Submit(p, n)
  \/ ReleaseLock(p, n)

ServiceStep(p) == SettleNodes(p) \/ RecordTally(p) \/ FailTally(p)

Next ==
  \/ \E p \in Proof : SubmitProof(p) \/ ServiceStep(p)
  \/ \E p \in Proof, n \in Node :
       NodeStep(p, n) \/ FailRelease(p, n) \/ StoreError(p, n)
  \/ \E p \in Proof : LockExpires(p) \/ VotesExpire(p)

\* Calls of the validator, the store, the lock backend and the submitter
\* return, with a result or with an error.
Fairness ==
  /\ \A p \in Proof, n \in Node :
       WF_vars(NodeStep(p, n) \/ FailRelease(p, n) \/ StoreError(p, n))
  /\ \A p \in Proof : WF_vars(ServiceStep(p))

Spec == Init /\ [][Next]_vars
FairSpec == Spec /\ Fairness

-----------------------------------------------------------------------------
(* Properties *)

TypeOK ==
  /\ votes \in [Proof -> [Node -> Vote \cup {None}]]
  /\ lock \in [Proof -> Node \cup {None}]
  /\ pc \in [Proof -> [Node -> Step \cup Final]]
  /\ ballot \in [Proof -> [Node -> Vote \cup {None}]]
  /\ quorumVote \in [Proof -> [Node -> Vote \cup {None}]]
  /\ submissions \in [Proof -> SUBSET (Node \X Vote)]
  /\ status \in [Proof -> Terminal \cup {"unknown", "voting"}]
  /\ order \in Seq(Proof) /\ Len(order) <= Retention
  /\ stage \in [Proof -> Stage]
  /\ faults \in 0..MaxFaults
  /\ cast \in [Proof -> SUBSET (Node \X Vote)]
  /\ lapsed \subseteq Proof \X Node
  /\ disturbed \subseteq Proof

Voters(p, v) == {n \in Node : <<n, v>> \in cast[p]}
HadQuorum(p, v) == \E S \in SUBSET Voters(p, v) : Weight(S) >= Threshold

\* Nothing is submitted for a proof that was not voted for by a quorum, even
\* if the votes expire, are evicted, or a node leads after another has led.
SubmittedHadQuorum ==
  \A p \in Proof : \A s \in submissions[p] : HadQuorum(p, s[2])

\* Several leaders of one proof submit the same vote.
Agreement == \A p \in Proof : \A s, t \in submissions[p] : s[2] = t[2]

\* While a leader submits it holds the submission lock, unless the lock
\* outlived its time to live: leaders follow one another, they do not overlap.
LeaderHoldsLock ==
  \A p \in Proof, n \in Node :
    pc[p][n] \in {"won", "release"} /\ <<p, n>> \notin lapsed => lock[p] = n

\* The recorded outcome agrees with what happened: a finished proof is
\* "submitted" exactly if some leader called the submitter.
OutcomeMatchesSubmission ==
  \A p \in Proof :
    status[p] \in Terminal => (status[p] = "submitted" <=> submissions[p] # {})

\* A quorum is not missed: if the matching votes reach the threshold, however
\* the nodes interleave, one of them sees it and leads; the service does not
\* report "no_quorum" or "failed".  (Lost votes, lost calls of the nodes' voting
\* and evictions of the proof excepted; not a failed release or tally.)
QuorumIsSeen ==
  \A p \in Proof \ disturbed :
    status[p] \in {"no_quorum", "failed"} => \A v \in Vote : ~HadQuorum(p, v)

\* Every proof is decided, also if the tally of its votes fails or a failed
\* call keeps the submission lock: submitProofAndWait() does not wait for ever.
ProofDecided == \A p \in Proof : status[p] = "voting" ~> status[p] \in Terminal

\* oracleService.test.js: "only the leader submits", "exactly one leader", and
\* "LEADER_ELECTED exactly once per proof".
OneSubmissionPerProof == \A p \in Proof : Cardinality(submissions[p]) <= 1
=============================================================================
