------------------------ MODULE OracleConsensusProofs -----------------------
(* Safety of OracleConsensus for every set of nodes and votes, every weight *)
(* and threshold, and every number of proofs and faults.                    *)
EXTENDS OracleConsensus, Sums, TLAPS

\* The configuration under which leaders agree: two quorums share a node.
\* (The service accepts any threshold up to the number of nodes.)
MajorityThreshold ==
  \A S, T \in SUBSET Node :
    Weight(S) >= Threshold /\ Weight(T) >= Threshold => S \cap T # {}

\* Types, without the bounds of the order and of the faults.
Types ==
  /\ votes \in [Proof -> [Node -> Vote \cup {None}]]
  /\ lock \in [Proof -> Node \cup {None}]
  /\ pc \in [Proof -> [Node -> Step \cup Final]]
  /\ ballot \in [Proof -> [Node -> Vote \cup {None}]]
  /\ quorumVote \in [Proof -> [Node -> Vote \cup {None}]]
  /\ submissions \in [Proof -> SUBSET (Node \X Vote)]
  /\ status \in [Proof -> Terminal \cup {"unknown", "voting"}]
  /\ order \in Seq(Proof)
  /\ stage \in [Proof -> Stage]
  /\ cast \in [Proof -> SUBSET (Node \X Vote)]

Before == {"idle", "validate"}
Leads == {"elect", "won", "release", "leader"}

\* A node votes at most once for a proof, with the vote it has computed, and
\* the store holds nothing else.
VotesOK ==
  \A p \in Proof, n \in Node :
    /\ pc[p][n] \in Before => \A v \in Vote : <<n, v>> \notin cast[p]
    /\ pc[p][n] = "put" => ballot[p][n] \in Vote
    /\ \A v \in Vote : <<n, v>> \in cast[p] => v = ballot[p][n]
    /\ votes[p][n] # None => <<n, votes[p][n]>> \in cast[p]

\* What a node on its way to lead acts upon is the vote of a quorum.
QuorumOK ==
  \A p \in Proof, n \in Node :
    pc[p][n] \in {"elect", "won"} =>
      quorumVote[p][n] \in Vote /\ HadQuorum(p, quorumVote[p][n])

\* The nodes of a proof start with it, and who submitted has finished leading.
ProgressOK ==
  /\ \A p \in Proof, n \in Node :
       /\ status[p] = "unknown" => pc[p][n] = "idle"
       /\ status[p] \in Terminal => pc[p][n] \in Final
  /\ \A p \in Proof, n \in Node : pc[p][n] \in {"release", "leader"} <=>
       \E v \in Vote : <<n, v>> \in submissions[p]

\* A proof is voted on until its run is over; the tally is asked for when no
\* node leads or can lead any more.
StageOK ==
  \A p \in Proof :
    /\ status[p] = "unknown" <=> stage[p] = "before"
    /\ status[p] = "voting" <=> stage[p] \in {"nodes", "tally"}
    /\ stage[p] = "tally" =>
         \A n \in Node : pc[p][n] \in Final \ {"leader"}

\* The bounds of the order, the faults and the histories.
Bounds ==
  /\ Len(order) <= Retention
  /\ faults \in 0..MaxFaults
  /\ lapsed \subseteq Proof \X Node
  /\ disturbed \subseteq Proof

\* The steps after a node has seen its own vote in the store.
Passed == {"check", "elect", "won", "release", "leader", "follower"}
Leaders == {"won", "release", "leader"}

\* While a proof is voted on and nothing disturbs it: the store has every vote
\* cast, a quorum has a node that saw or will see it, a follower has a leader,
\* and the lock is held by a node that leads or led.
Undisturbed(p) ==
  /\ \A n \in Node, v \in Vote : <<n, v>> \in cast[p] => votes[p][n] = v
  /\ \A v \in Vote : HadQuorum(p, v) => \E n \in Node : pc[p][n] \in Passed
  /\ \A n \in Node : pc[p][n] = "follower" =>
       \E m \in Node : pc[p][m] \in Leaders
  /\ lock[p] # None => pc[p][lock[p]] \in Leaders

UndisturbedOK ==
  \A p \in Proof \ disturbed :
    status[p] \in {"unknown", "voting"} => Undisturbed(p)

IInv ==
  /\ Types /\ Bounds /\ VotesOK /\ QuorumOK /\ ProgressOK /\ StageOK
  /\ UndisturbedOK /\ QuorumIsSeen
  /\ SubmittedHadQuorum /\ LeaderHoldsLock /\ OutcomeMatchesSubmission

-----------------------------------------------------------------------------
(* The steps preserve each part of the invariant. *)

\* Quorums do not get lost: votes are only ever added to the history.
LEMMA QuorumLasts ==
  ASSUME NEW p \in Proof, NEW v, cast[p] \subseteq cast'[p], HadQuorum(p, v)
  PROVE  HadQuorum(p, v)'
  BY DEF HadQuorum, Voters

\* What the store holds was cast, so a tally at the threshold is a quorum.
LEMMA TallyIsQuorum ==
  ASSUME VotesOK, None \notin Vote, NEW p \in Proof, NEW v \in Vote,
         Tally(p, v) >= Threshold
  PROVE  HadQuorum(p, v)
<1>1. {n \in Node : votes[p][n] = v} \subseteq Voters(p, v)
  BY DEF VotesOK, Voters
<1> QED BY <1>1 DEF Tally, HadQuorum

\* The history of the votes of a proof only grows.
LEMMA CastGrows ==
  ASSUME Types, [Next]_vars
  PROVE  \A r \in Proof : cast[r] \subseteq cast'[r]
<1>1. ASSUME NEW p \in Proof, NEW n \in Node,
             cast' = [cast EXCEPT ![p] = @ \cup {<<n, ballot[p][n]>>}]
      PROVE  \A r \in Proof : cast[r] \subseteq cast'[r]
  BY <1>1 DEF Types
<1>2. \/ UNCHANGED cast
      \/ \E p \in Proof, n \in Node : PutVote(p, n) \/ StoreError(p, n)
  BY DEF Next, NodeStep, vars, historyVars, SubmitProof, Validate,
     QuorumReached, QuorumPending, ElectLeader, Submit, ReleaseLock,
     LockExpires, VotesExpire, ServiceStep, SettleNodes, RecordTally,
     FailTally, FailRelease
<1>3. \A p \in Proof, n \in Node : PutVote(p, n) \/ StoreError(p, n) =>
        \/ UNCHANGED cast
        \/ cast' = [cast EXCEPT ![p] = @ \cup {<<n, ballot[p][n]>>}]
  BY DEF PutVote, StoreError
<1> QED BY <1>1, <1>2, <1>3

\* The types are kept; what is put or submitted is a vote (VotesOK, QuorumOK).
LEMMA TypesStep ==
  ASSUME ConsensusAssumption, Types, VotesOK, QuorumOK, [Next]_vars
  PROVE  Types'
<1> USE DEF Step, Final, Terminal, NoVotes
<1>0. CASE UNCHANGED vars
  BY <1>0 DEF Types, vars, nodeVars, serviceVars, historyVars
<1>1. ASSUME NEW p \in Proof, SubmitProof(p)
      PROVE  Types'
  <2>1. /\ pc' \in [Proof -> [Node -> Step \cup Final]]
        /\ status' \in [Proof -> Terminal \cup {"unknown", "voting"}]
        /\ stage' \in [Proof -> Stage]
    BY <1>1 DEF Types, SubmitProof, Stage
  <2>2. CASE Len(order) < Retention
    <3>1. order' = Append(order, p) /\ votes' = votes
      BY <1>1, <2>2 DEF SubmitProof
    <3> QED BY <1>1, <2>1, <3>1 DEF Types, SubmitProof, nodeVars
  <2>3. CASE ~(Len(order) < Retention)
    <3>1. /\ order' = Append(Tail(order), p)
          /\ votes' = [votes EXCEPT ![Head(order)] = NoVotes]
      BY <1>1, <2>3 DEF SubmitProof
    <3>2. order \in Seq(Proof) /\ order # << >>
      BY <2>3, ConsensusAssumption DEF Types, ConsensusAssumption
    <3>3. Tail(order) \in Seq(Proof)
      BY <3>2
    <3>4. order' \in Seq(Proof)
      BY <3>1, <3>3
    <3>5. votes' \in [Proof -> [Node -> Vote \cup {None}]]
      BY <3>1 DEF Types
    <3> QED BY <1>1, <2>1, <3>4, <3>5 DEF Types, SubmitProof, nodeVars
  <2> QED BY <2>2, <2>3
<1>2. ASSUME NEW p \in Proof, NEW n \in Node, Validate(p, n)
      PROVE  Types'
  <2>1. ASSUME NEW w \in Vote, GoTo(p, n, "put"),
              ballot' = [ballot EXCEPT ![p][n] = w]
       PROVE  Types'
    BY <1>2, <2>1 DEF Types, Validate, GoTo, serviceVars, historyVars
  <2>2. CASE GoTo(p, n, "rejected") /\ UNCHANGED ballot
    BY <1>2, <2>2 DEF Types, Validate, GoTo, serviceVars, historyVars
  <2> QED BY <1>2, <2>1, <2>2 DEF Validate, nodeVars, serviceVars, historyVars
<1>3. ASSUME NEW p \in Proof, NEW n \in Node, PutVote(p, n)
      PROVE  Types'
  <2>1. ballot[p][n] \in Vote
    BY <1>3 DEF Types, PutVote, VotesOK, GoTo, nodeVars, serviceVars
  <2>2. cast[p] \cup {<<n, ballot[p][n]>>} \in SUBSET (Node \X Vote)
    BY <1>3, <2>1 DEF Types, PutVote, VotesOK, GoTo, nodeVars, serviceVars
  <2>3. pc' \in [Proof -> [Node -> Step \cup Final]]
    BY <1>3, <2>1, <2>2 DEF Types, PutVote, VotesOK, GoTo, nodeVars,
       serviceVars
  <2>4. votes' \in [Proof -> [Node -> Vote \cup {None}]]
    BY <1>3, <2>1, <2>2, <2>3 DEF Types, PutVote, VotesOK, GoTo, nodeVars,
       serviceVars
  <2>5. cast' \in [Proof -> SUBSET (Node \X Vote)]
    BY <1>3, <2>1, <2>2, <2>3, <2>4 DEF Types, PutVote, VotesOK, GoTo,
       nodeVars, serviceVars
  <2> QED BY <1>3, <2>1, <2>2, <2>3, <2>4, <2>5 DEF Types, PutVote, VotesOK,
     GoTo, nodeVars, serviceVars
<1>4. ASSUME NEW p \in Proof, NEW n \in Node, QuorumReached(p, n)
      PROVE  Types'
  BY <1>4 DEF Types, QuorumReached, Leading, GoTo, serviceVars, historyVars
<1>5. ASSUME NEW p \in Proof, NEW n \in Node, QuorumPending(p, n)
      PROVE  Types'
  BY <1>5 DEF Types, QuorumPending, GoTo, nodeVars, serviceVars, historyVars
<1>6. ASSUME NEW p \in Proof, NEW n \in Node, ElectLeader(p, n)
      PROVE  Types'
  <2>1. CASE /\ lock[p] = None /\ lock' = [lock EXCEPT ![p] = n]
            /\ GoTo(p, n, "won")
    BY <1>6, <2>1 DEF Types, ElectLeader, GoTo, nodeVars, serviceVars,
       historyVars
  <2>2. CASE lock[p] # None /\ UNCHANGED lock /\ GoTo(p, n, "follower")
    BY <1>6, <2>2 DEF Types, ElectLeader, GoTo, nodeVars, serviceVars,
       historyVars
  <2> QED BY <1>6, <2>1, <2>2 DEF ElectLeader, nodeVars, serviceVars,
     historyVars
<1>7. ASSUME NEW p \in Proof, NEW n \in Node, Submit(p, n)
      PROVE  Types'
  BY <1>7 DEF Types, Submit, QuorumOK, GoTo, nodeVars, serviceVars, historyVars
<1>8. ASSUME NEW p \in Proof, NEW n \in Node, ReleaseLock(p, n)
      PROVE  Types'
  BY <1>8 DEF Types, ReleaseLock, GoTo, nodeVars, serviceVars, historyVars
<1>9. ASSUME NEW p \in Proof, NEW n \in Node, StoreError(p, n)
      PROVE  Types'
  <2>1. pc[p][n] = "put" => ballot[p][n] \in Vote
    BY <1>9 DEF Types, StoreError, VotesOK, GoTo, nodeVars, serviceVars
  <2>2. pc[p][n] = "put" => cast[p] \cup {<<n, ballot[p][n]>>} \in SUBSET (Node \X Vote)
    BY <1>9, <2>1 DEF Types, StoreError, VotesOK, GoTo, nodeVars, serviceVars
  <2>3. CASE UNCHANGED <<votes, cast, lock>>
    BY <1>9, <2>3, <2>1, <2>2 DEF Types, StoreError, VotesOK, GoTo, nodeVars,
       serviceVars
  <2>4. CASE /\ pc[p][n] = "put" /\ UNCHANGED lock
            /\ votes' = [votes EXCEPT ![p][n] = ballot[p][n]]
            /\ cast' = [cast EXCEPT ![p] = @ \cup {<<n, ballot[p][n]>>}]
    BY <1>9, <2>4, <2>1, <2>2 DEF Types, StoreError, VotesOK, GoTo, nodeVars,
       serviceVars
  <2>5. CASE /\ UNCHANGED <<votes, cast>>
            /\ lock[p] = None /\ lock' = [lock EXCEPT ![p] = n]
    BY <1>9, <2>5, <2>1, <2>2 DEF Types, StoreError, VotesOK, GoTo, nodeVars,
       serviceVars
  <2> QED BY <1>9, <2>3, <2>4, <2>5 DEF StoreError, nodeVars, serviceVars,
     historyVars
<1>10. ASSUME NEW p \in Proof, LockExpires(p)
      PROVE  Types'
  BY <1>10 DEF Types, LockExpires, nodeVars, serviceVars
<1>11. ASSUME NEW p \in Proof, VotesExpire(p)
      PROVE  Types'
  BY <1>11 DEF Types, VotesExpire, nodeVars, serviceVars
<1>12. ASSUME NEW p \in Proof, SettleNodes(p)
      PROVE  Types'
  BY <1>12 DEF Types, Stage, SettleNodes, nodeVars, historyVars
<1>13. ASSUME NEW p \in Proof, RecordTally(p)
      PROVE  Types'
  BY <1>13 DEF Types, Stage, RecordTally, NoLeaderOutcome, nodeVars, historyVars
<1>14. ASSUME NEW p \in Proof, FailTally(p)
      PROVE  Types'
  BY <1>14 DEF Types, Stage, FailTally, nodeVars, historyVars
<1>15. ASSUME NEW p \in Proof, NEW n \in Node, FailRelease(p, n)
      PROVE  Types'
  BY <1>15 DEF Types, FailRelease, GoTo, nodeVars, serviceVars, historyVars
<1> QED
  BY <1>0, <1>1, <1>2, <1>3, <1>4, <1>5, <1>6, <1>7, <1>8, <1>9, <1>10, <1>11,
     <1>12, <1>13, <1>14, <1>15 DEF Next, NodeStep, ServiceStep

\* One vote per node and proof, and the store holds only votes that were cast.
LEMMA VotesStep ==
  ASSUME ConsensusAssumption, Types, VotesOK, ProgressOK, [Next]_vars
  PROVE  VotesOK'
<1> DEFINE Fine(r, m) ==
      /\ pc[r][m] \in Before => \A v \in Vote : <<m, v>> \notin cast[r]
      /\ pc[r][m] = "put" => ballot[r][m] \in Vote
      /\ \A v \in Vote : <<m, v>> \in cast[r] => v = ballot[r][m]
      /\ votes[r][m] # None => <<m, votes[r][m]>> \in cast[r]
<1> SUFFICES ASSUME NEW r \in Proof, NEW m \in Node
             PROVE  Fine(r, m)'
  BY DEF VotesOK
<1>a. Fine(r, m)
  BY DEF VotesOK
<1> USE <1>a DEF Types, Before, NoVotes
<1>0. CASE UNCHANGED vars
  BY <1>0 DEF ConsensusAssumption, vars, nodeVars, serviceVars, historyVars
<1>1. ASSUME NEW p \in Proof, SubmitProof(p)
      PROVE  Fine(r, m)'
  <2>1. /\ cast' = cast /\ ballot' = ballot
        /\ pc'[r][m] = IF r = p THEN "validate" ELSE pc[r][m]
    BY <1>1 DEF SubmitProof, nodeVars
  <2>2. r = p => pc[r][m] = "idle"
    BY <1>1 DEF SubmitProof, ProgressOK
  <2>3. votes'[r][m] \in {votes[r][m], None}
    <3>1. \A q : [votes EXCEPT ![q] = NoVotes][r][m] \in {votes[r][m], None}
      OBVIOUS
    <3>2. votes' = votes \/ votes' = [votes EXCEPT ![Head(order)] = NoVotes]
      BY <1>1 DEF SubmitProof
    <3> QED BY <3>1, <3>2
  <2> QED BY <2>1, <2>2, <2>3
<1>2. ASSUME NEW p \in Proof, NEW n \in Node, Validate(p, n)
      PROVE  Fine(r, m)'
  <2>1. ASSUME NEW w \in Vote, GoTo(p, n, "put"),
              ballot' = [ballot EXCEPT ![p][n] = w]
       PROVE  Fine(r, m)'
    BY <1>2, <2>1 DEF ConsensusAssumption, Validate, GoTo, serviceVars,
       historyVars
  <2>2. CASE GoTo(p, n, "rejected") /\ UNCHANGED ballot
    BY <1>2, <2>2 DEF ConsensusAssumption, Validate, GoTo, serviceVars,
       historyVars
  <2> QED BY <1>2, <2>1, <2>2 DEF Validate, nodeVars, serviceVars, historyVars
<1>3. ASSUME NEW p \in Proof, NEW n \in Node, PutVote(p, n)
      PROVE  Fine(r, m)'
  BY <1>3 DEF ConsensusAssumption, PutVote, GoTo, nodeVars, serviceVars
<1>4. ASSUME NEW p \in Proof, NEW n \in Node, QuorumReached(p, n)
      PROVE  Fine(r, m)'
  BY <1>4 DEF ConsensusAssumption, QuorumReached, GoTo, serviceVars,
     historyVars
<1>5. ASSUME NEW p \in Proof, NEW n \in Node, QuorumPending(p, n)
      PROVE  Fine(r, m)'
  BY <1>5 DEF ConsensusAssumption, QuorumPending, GoTo, nodeVars, serviceVars,
     historyVars
<1>6. ASSUME NEW p \in Proof, NEW n \in Node, ElectLeader(p, n)
      PROVE  Fine(r, m)'
  <2>1. CASE /\ lock[p] = None /\ lock' = [lock EXCEPT ![p] = n]
            /\ GoTo(p, n, "won")
    BY <1>6, <2>1 DEF ConsensusAssumption, ElectLeader, GoTo, nodeVars,
       serviceVars, historyVars
  <2>2. CASE lock[p] # None /\ UNCHANGED lock /\ GoTo(p, n, "follower")
    BY <1>6, <2>2 DEF ConsensusAssumption, ElectLeader, GoTo, nodeVars,
       serviceVars, historyVars
  <2> QED BY <1>6, <2>1, <2>2 DEF ElectLeader, nodeVars, serviceVars,
     historyVars
<1>7. ASSUME NEW p \in Proof, NEW n \in Node, Submit(p, n)
      PROVE  Fine(r, m)'
  BY <1>7 DEF ConsensusAssumption, Submit, GoTo, nodeVars, serviceVars,
     historyVars
<1>8. ASSUME NEW p \in Proof, NEW n \in Node, ReleaseLock(p, n)
      PROVE  Fine(r, m)'
  BY <1>8 DEF ConsensusAssumption, ReleaseLock, GoTo, nodeVars, serviceVars,
     historyVars
<1>9. ASSUME NEW p \in Proof, NEW n \in Node, StoreError(p, n)
      PROVE  Fine(r, m)'
  <2>1. CASE UNCHANGED <<votes, cast, lock>>
    BY <1>9, <2>1 DEF ConsensusAssumption, StoreError, GoTo, nodeVars,
       serviceVars
  <2>2. CASE /\ pc[p][n] = "put" /\ UNCHANGED lock
            /\ votes' = [votes EXCEPT ![p][n] = ballot[p][n]]
            /\ cast' = [cast EXCEPT ![p] = @ \cup {<<n, ballot[p][n]>>}]
    BY <1>9, <2>2 DEF ConsensusAssumption, StoreError, GoTo, nodeVars,
       serviceVars
  <2>3. CASE /\ UNCHANGED <<votes, cast>>
            /\ lock[p] = None /\ lock' = [lock EXCEPT ![p] = n]
    BY <1>9, <2>3 DEF ConsensusAssumption, StoreError, GoTo, nodeVars,
       serviceVars
  <2> QED BY <1>9, <2>1, <2>2, <2>3 DEF StoreError, nodeVars, serviceVars,
     historyVars
<1>10. ASSUME NEW p \in Proof, LockExpires(p)
      PROVE  Fine(r, m)'
  BY <1>10 DEF ConsensusAssumption, LockExpires, nodeVars, serviceVars
<1>11. ASSUME NEW p \in Proof, VotesExpire(p)
      PROVE  Fine(r, m)'
  BY <1>11 DEF ConsensusAssumption, VotesExpire, nodeVars, serviceVars
<1>12. ASSUME NEW p \in Proof, SettleNodes(p)
      PROVE  Fine(r, m)'
  BY <1>12 DEF ConsensusAssumption, SettleNodes, nodeVars, historyVars
<1>13. ASSUME NEW p \in Proof, RecordTally(p)
      PROVE  Fine(r, m)'
  BY <1>13 DEF ConsensusAssumption, RecordTally, nodeVars, historyVars
<1>14. ASSUME NEW p \in Proof, FailTally(p)
      PROVE  Fine(r, m)'
  BY <1>14 DEF ConsensusAssumption, FailTally, nodeVars, historyVars
<1>15. ASSUME NEW p \in Proof, NEW n \in Node, FailRelease(p, n)
      PROVE  Fine(r, m)'
  BY <1>15 DEF ConsensusAssumption, FailRelease, GoTo, nodeVars, serviceVars,
     historyVars
<1> QED
  BY <1>0, <1>1, <1>2, <1>3, <1>4, <1>5, <1>6, <1>7, <1>8, <1>9, <1>10, <1>11,
     <1>12, <1>13, <1>14, <1>15 DEF Next, NodeStep, ServiceStep

\* The vote a node leads with keeps its quorum until the submitter is called.
LEMMA QuorumStep ==
  ASSUME ConsensusAssumption, Types, VotesOK, QuorumOK, ProgressOK, [Next]_vars
  PROVE  QuorumOK'
<1>a. \A r \in Proof, v \in Vote : HadQuorum(r, v) => HadQuorum(r, v)'
  BY CastGrows, QuorumLasts
<1> SUFFICES ASSUME NEW r \in Proof, NEW m \in Node,
                    pc'[r][m] \in {"elect", "won"}
             PROVE  /\ quorumVote'[r][m] \in Vote
                    /\ HadQuorum(r, quorumVote[r][m])'
  BY DEF QuorumOK
<1>b. SUFFICES \/ /\ pc[r][m] \in {"elect", "won"}
                  /\ quorumVote'[r][m] = quorumVote[r][m]
               \/ \E v \in Vote : /\ quorumVote'[r][m] = v
                                  /\ HadQuorum(r, v)
  BY <1>a DEF QuorumOK, HadQuorum, Voters
<1> DEFINE Goal == \/ /\ pc[r][m] \in {"elect", "won"}
                      /\ quorumVote'[r][m] = quorumVote[r][m]
                   \/ \E v \in Vote : /\ quorumVote'[r][m] = v
                                      /\ HadQuorum(r, v)
<1>0. CASE UNCHANGED vars
  BY <1>0 DEF Types, vars, nodeVars, serviceVars, historyVars
<1>1. ASSUME NEW p \in Proof, SubmitProof(p)
      PROVE  Goal
  BY <1>1 DEF Types, SubmitProof, nodeVars
<1>2. ASSUME NEW p \in Proof, NEW n \in Node, Validate(p, n)
      PROVE  Goal
  <2>1. \E step \in {"put", "rejected"} : pc' = [pc EXCEPT ![p][n] = step]
    BY <1>2 DEF Validate, GoTo
  <2>2. pc'[r][m] \in {pc[r][m], "put", "rejected"}
    BY <2>1 DEF Types
  <2> QED BY <1>2, <2>2 DEF Validate
<1>3. ASSUME NEW p \in Proof, NEW n \in Node, PutVote(p, n)
      PROVE  Goal
  BY <1>3 DEF Types, PutVote, GoTo, nodeVars, serviceVars
<1>4. ASSUME NEW p \in Proof, NEW n \in Node, QuorumReached(p, n)
      PROVE  Goal
  BY <1>4, TallyIsQuorum DEF Types, QuorumReached, Leading,
     ConsensusAssumption, GoTo, serviceVars, historyVars
<1>5. ASSUME NEW p \in Proof, NEW n \in Node, QuorumPending(p, n)
      PROVE  Goal
  BY <1>5 DEF Types, QuorumPending, GoTo, nodeVars, serviceVars, historyVars
<1>6. ASSUME NEW p \in Proof, NEW n \in Node, ElectLeader(p, n)
      PROVE  Goal
  <2>1. /\ pc[p][n] = "elect" /\ quorumVote' = quorumVote
        /\ pc' = [pc EXCEPT ![p][n] = "won"] \/ pc' = [pc EXCEPT ![p][n] = "follower"]
    BY <1>6 DEF ElectLeader, GoTo, nodeVars
  <2>2. pc[r][m] \in {"elect", "won"}
    <3>1. CASE r = p /\ m = n
      BY <2>1, <3>1
    <3>2. CASE ~(r = p /\ m = n)
      <4>1. pc'[r][m] = pc[r][m]
        BY <2>1, <3>2 DEF Types
      <4> QED BY <4>1
    <3> QED BY <3>1, <3>2
  <2>3. quorumVote'[r][m] = quorumVote[r][m]
    BY <2>1
  <2> QED BY <2>2, <2>3
<1>7. ASSUME NEW p \in Proof, NEW n \in Node, Submit(p, n)
      PROVE  Goal
  BY <1>7 DEF Types, Submit, GoTo, nodeVars, serviceVars, historyVars
<1>8. ASSUME NEW p \in Proof, NEW n \in Node, ReleaseLock(p, n)
      PROVE  Goal
  BY <1>8 DEF Types, ReleaseLock, GoTo, nodeVars, serviceVars, historyVars
<1>9. ASSUME NEW p \in Proof, NEW n \in Node, StoreError(p, n)
      PROVE  Goal
  BY <1>9 DEF Types, StoreError, GoTo, nodeVars, serviceVars
<1>10. ASSUME NEW p \in Proof, LockExpires(p)
      PROVE  Goal
  BY <1>10 DEF Types, LockExpires, nodeVars, serviceVars
<1>11. ASSUME NEW p \in Proof, VotesExpire(p)
      PROVE  Goal
  BY <1>11 DEF Types, VotesExpire, nodeVars, serviceVars
<1>12. ASSUME NEW p \in Proof, SettleNodes(p)
      PROVE  Goal
  BY <1>12 DEF Types, SettleNodes, nodeVars, historyVars
<1>13. ASSUME NEW p \in Proof, RecordTally(p)
      PROVE  Goal
  BY <1>13 DEF Types, RecordTally, nodeVars, historyVars
<1>14. ASSUME NEW p \in Proof, FailTally(p)
      PROVE  Goal
  BY <1>14 DEF Types, FailTally, nodeVars, historyVars
<1>15. ASSUME NEW p \in Proof, NEW n \in Node, FailRelease(p, n)
      PROVE  Goal
  BY <1>15 DEF Types, FailRelease, GoTo, nodeVars, serviceVars, historyVars
<1> QED
  BY <1>0, <1>1, <1>2, <1>3, <1>4, <1>5, <1>6, <1>7, <1>8, <1>9, <1>10, <1>11,
     <1>12, <1>13, <1>14, <1>15 DEF Next, NodeStep, ServiceStep

\* Nodes only move forward, and lead exactly if they have submitted.
LEMMA ProgressStep ==
  ASSUME ConsensusAssumption, Types, QuorumOK, ProgressOK, StageOK, [Next]_vars
  PROVE  ProgressOK'
<1> DEFINE Fine(r, m) ==
      /\ status[r] = "unknown" => pc[r][m] = "idle"
      /\ status[r] \in Terminal => pc[r][m] \in Final
      /\ pc[r][m] \in {"release", "leader"} <=>
           \E v \in Vote : <<m, v>> \in submissions[r]
<1> SUFFICES ASSUME NEW r \in Proof, NEW m \in Node
             PROVE  Fine(r, m)'
  BY DEF ProgressOK, Types
<1>a. Fine(r, m)
  BY DEF ProgressOK
<1> USE <1>a DEF Types, Final, Terminal
<1>0. CASE UNCHANGED vars
  BY <1>0 DEF ConsensusAssumption, vars, nodeVars, serviceVars, historyVars
<1>1. ASSUME NEW p \in Proof, SubmitProof(p)
      PROVE  Fine(r, m)'
  BY <1>1 DEF ConsensusAssumption, SubmitProof, ProgressOK, nodeVars
<1>2. ASSUME NEW p \in Proof, NEW n \in Node, Validate(p, n)
      PROVE  Fine(r, m)'
  <2>1. ASSUME NEW w \in Vote, GoTo(p, n, "put"),
              ballot' = [ballot EXCEPT ![p][n] = w]
       PROVE  Fine(r, m)'
    BY <1>2, <2>1 DEF ConsensusAssumption, Validate, GoTo, serviceVars,
       historyVars
  <2>2. CASE GoTo(p, n, "rejected") /\ UNCHANGED ballot
    BY <1>2, <2>2 DEF ConsensusAssumption, Validate, GoTo, serviceVars,
       historyVars
  <2> QED BY <1>2, <2>1, <2>2 DEF Validate, nodeVars, serviceVars, historyVars
<1>3. ASSUME NEW p \in Proof, NEW n \in Node, PutVote(p, n)
      PROVE  Fine(r, m)'
  BY <1>3 DEF ConsensusAssumption, PutVote, GoTo, nodeVars, serviceVars
<1>4. ASSUME NEW p \in Proof, NEW n \in Node, QuorumReached(p, n)
      PROVE  Fine(r, m)'
  BY <1>4 DEF ConsensusAssumption, QuorumReached, GoTo, serviceVars,
     historyVars
<1>5. ASSUME NEW p \in Proof, NEW n \in Node, QuorumPending(p, n)
      PROVE  Fine(r, m)'
  BY <1>5 DEF ConsensusAssumption, QuorumPending, GoTo, nodeVars, serviceVars,
     historyVars
<1>6. ASSUME NEW p \in Proof, NEW n \in Node, ElectLeader(p, n)
      PROVE  Fine(r, m)'
  <2>1. CASE /\ lock[p] = None /\ lock' = [lock EXCEPT ![p] = n]
            /\ GoTo(p, n, "won")
    BY <1>6, <2>1 DEF ConsensusAssumption, ElectLeader, GoTo, nodeVars,
       serviceVars, historyVars
  <2>2. CASE lock[p] # None /\ UNCHANGED lock /\ GoTo(p, n, "follower")
    BY <1>6, <2>2 DEF ConsensusAssumption, ElectLeader, GoTo, nodeVars,
       serviceVars, historyVars
  <2> QED BY <1>6, <2>1, <2>2 DEF ElectLeader, nodeVars, serviceVars,
     historyVars
<1>7. ASSUME NEW p \in Proof, NEW n \in Node, Submit(p, n)
      PROVE  Fine(r, m)'
  <2>1. quorumVote[p][n] \in Vote
    BY <1>7 DEF Submit, QuorumOK
  <2>2. \A v \in Vote : <<m, v>> \in submissions'[r] <=>
          \/ <<m, v>> \in submissions[r]
          \/ r = p /\ m = n /\ v = quorumVote[p][n]
    BY <1>7 DEF Submit
  <2>3. /\ pc[p][n] = "won" /\ status' = status
        /\ pc'[r][m] = IF r = p /\ m = n THEN "release" ELSE pc[r][m]
    BY <1>7 DEF Submit, GoTo, serviceVars
  <2> QED BY <2>1, <2>2, <2>3
<1>8. ASSUME NEW p \in Proof, NEW n \in Node, ReleaseLock(p, n)
      PROVE  Fine(r, m)'
  BY <1>8 DEF ConsensusAssumption, ReleaseLock, GoTo, nodeVars, serviceVars,
     historyVars
<1>9. ASSUME NEW p \in Proof, NEW n \in Node, StoreError(p, n)
      PROVE  Fine(r, m)'
  BY <1>9 DEF ConsensusAssumption, StoreError, GoTo, nodeVars, serviceVars
<1>10. ASSUME NEW p \in Proof, LockExpires(p)
      PROVE  Fine(r, m)'
  BY <1>10 DEF ConsensusAssumption, LockExpires, nodeVars, serviceVars
<1>11. ASSUME NEW p \in Proof, VotesExpire(p)
      PROVE  Fine(r, m)'
  BY <1>11 DEF ConsensusAssumption, VotesExpire, nodeVars, serviceVars
<1>b. ASSUME NEW p \in Proof, pc' = pc, submissions' = submissions,
             \/ status' = status
             \/ /\ \A n \in Node : pc[p][n] \in Final
                /\ \E t \in Terminal : status' = [status EXCEPT ![p] = t]
      PROVE  Fine(r, m)'
  <2>1. status'[r] = status[r] \/ (status'[r] \in Terminal /\ pc[r][m] \in Final)
    BY <1>b
  <2> QED BY <1>b, <2>1
<1>12. ASSUME NEW p \in Proof, SettleNodes(p)
      PROVE  Fine(r, m)'
  <2>1. status' = status \/ status' = [status EXCEPT ![p] = "submitted"]
    BY <1>12 DEF SettleNodes
  <2> QED BY <1>b, <1>12, <2>1 DEF SettleNodes
<1>13. ASSUME NEW p \in Proof, RecordTally(p)
      PROVE  Fine(r, m)'
  <2>1. \A n \in Node : pc[p][n] \in Final
    BY <1>13 DEF RecordTally, StageOK
  <2>2. \E t \in Terminal : status' = [status EXCEPT ![p] = t]
    BY <1>13 DEF RecordTally, NoLeaderOutcome
  <2> QED BY <1>b, <1>13, <2>1, <2>2 DEF RecordTally
<1>14. ASSUME NEW p \in Proof, FailTally(p)
      PROVE  Fine(r, m)'
  <2>1. \A n \in Node : pc[p][n] \in Final
    BY <1>14 DEF FailTally, StageOK
  <2> QED BY <1>b, <1>14, <2>1 DEF FailTally
<1>15. ASSUME NEW p \in Proof, NEW n \in Node, FailRelease(p, n)
      PROVE  Fine(r, m)'
  BY <1>15 DEF ConsensusAssumption, FailRelease, GoTo, nodeVars, serviceVars,
     historyVars
<1> QED
  BY <1>0, <1>1, <1>2, <1>3, <1>4, <1>5, <1>6, <1>7, <1>8, <1>9, <1>10, <1>11,
     <1>12, <1>13, <1>14, <1>15 DEF Next, NodeStep, ServiceStep

\* The run of a proof is over when the proof is decided, and a node that has
\* finished stays as it is.
LEMMA StageStep ==
  ASSUME ConsensusAssumption, Types, ProgressOK, StageOK, [Next]_vars
  PROVE  StageOK'
<1> DEFINE Fine(r) ==
      /\ status[r] = "unknown" <=> stage[r] = "before"
      /\ status[r] = "voting" <=> stage[r] \in {"nodes", "tally"}
      /\ stage[r] = "tally" =>
           \A n \in Node : pc[r][n] \in Final \ {"leader"}
<1> SUFFICES ASSUME NEW r \in Proof
             PROVE  Fine(r)'
  BY DEF StageOK
<1>a. Fine(r)
  BY DEF StageOK
<1> USE DEF Types
<1>1. ASSUME status' = status, stage' = stage, NEW p \in Proof,
             NEW n \in Node, NEW step, pc[p][n] \notin Final, GoTo(p, n, step)
      PROVE  Fine(r)'
  <2>1. \A m \in Node : pc[r][m] \in Final => pc'[r][m] = pc[r][m]
    BY <1>1 DEF GoTo
  <2> QED BY <1>1, <1>a, <2>1
<1>2. ASSUME status' = status, stage' = stage, pc' = pc
      PROVE  Fine(r)'
  BY <1>2, <1>a
<1>3. ASSUME NEW p \in Proof, SubmitProof(p)
      PROVE  Fine(r)'
  <2>1. /\ status' = [status EXCEPT ![p] = "voting"]
        /\ stage' = [stage EXCEPT ![p] = "nodes"]
        /\ r # p => pc'[r] = pc[r]
    BY <1>3 DEF SubmitProof
  <2> QED BY <1>a, <2>1
<1>4. ASSUME NEW p \in Proof, NEW n \in Node,
             NodeStep(p, n) \/ FailRelease(p, n) \/ StoreError(p, n)
      PROVE  Fine(r)'
  <2>1. status' = status /\ stage' = stage
    BY <1>4 DEF NodeStep, Validate, PutVote, QuorumReached, QuorumPending,
       ElectLeader, Submit, ReleaseLock, FailRelease, StoreError, serviceVars
  <2>2. pc[p][n] \notin Final /\ \E step : GoTo(p, n, step)
    BY <1>4 DEF NodeStep, Validate, PutVote, QuorumReached, QuorumPending,
       ElectLeader, Submit, ReleaseLock, FailRelease, StoreError, Final
  <2> QED BY <1>1, <2>1, <2>2
<1>5. ASSUME NEW p \in Proof, SettleNodes(p)
      PROVE  Fine(r)'
  <2>1. pc' = pc /\ stage[p] = "nodes" /\ \A n \in Node : pc[p][n] \in Final
    BY <1>5 DEF SettleNodes
  <2>2. CASE HasLeader(p)
    <3>1. /\ status' = [status EXCEPT ![p] = "submitted"]
          /\ stage' = [stage EXCEPT ![p] = "over"]
      BY <1>5, <2>2 DEF SettleNodes
    <3> QED BY <1>a, <2>1, <3>1
  <2>3. CASE ~HasLeader(p)
    <3>1. status' = status /\ stage' = [stage EXCEPT ![p] = "tally"]
      BY <1>5, <2>3 DEF SettleNodes
    <3> QED BY <1>a, <2>1, <2>3, <3>1 DEF HasLeader
  <2> QED BY <2>2, <2>3
<1>6. ASSUME NEW p \in Proof, RecordTally(p) \/ FailTally(p)
      PROVE  Fine(r)'
  <2>1. /\ pc' = pc /\ stage' = [stage EXCEPT ![p] = "over"]
        /\ \E t \in {"no_quorum", "failed"} : status' = [status EXCEPT ![p] = t]
    BY <1>6 DEF RecordTally, FailTally, NoLeaderOutcome
  <2> QED BY <1>a, <2>1
<1>7. ASSUME NEW p \in Proof, LockExpires(p) \/ VotesExpire(p)
      PROVE  Fine(r)'
  BY <1>7, <1>2 DEF LockExpires, VotesExpire, serviceVars
<1>8. CASE UNCHANGED vars
  BY <1>8, <1>2 DEF vars
<1> QED
  BY <1>3, <1>4, <1>5, <1>6, <1>7, <1>8 DEF Next, ServiceStep

\* Submitting acts on a quorum (QuorumOK), and quorums last.
LEMMA SubmittedStep ==
  ASSUME ConsensusAssumption, Types, QuorumOK, SubmittedHadQuorum, [Next]_vars
  PROVE  SubmittedHadQuorum'
<1>a. \A r \in Proof, v \in Vote : HadQuorum(r, v) => HadQuorum(r, v)'
  BY CastGrows, QuorumLasts
<1> SUFFICES ASSUME NEW r \in Proof, NEW s \in submissions'[r]
             PROVE  s[2] \in Vote /\ HadQuorum(r, s[2])
  BY <1>a DEF SubmittedHadQuorum, HadQuorum, Voters
<1>0. CASE UNCHANGED vars
  BY <1>0 DEF Types, SubmittedHadQuorum, vars, nodeVars, serviceVars,
     historyVars
<1>1. ASSUME NEW p \in Proof, SubmitProof(p)
      PROVE  s[2] \in Vote /\ HadQuorum(r, s[2])
  BY <1>1 DEF Types, SubmittedHadQuorum, SubmitProof, nodeVars
<1>2. ASSUME NEW p \in Proof, NEW n \in Node, Validate(p, n)
      PROVE  s[2] \in Vote /\ HadQuorum(r, s[2])
  BY <1>2 DEF Types, SubmittedHadQuorum, Validate, GoTo, serviceVars,
     historyVars
<1>3. ASSUME NEW p \in Proof, NEW n \in Node, PutVote(p, n)
      PROVE  s[2] \in Vote /\ HadQuorum(r, s[2])
  BY <1>3 DEF Types, SubmittedHadQuorum, PutVote, GoTo, nodeVars, serviceVars
<1>4. ASSUME NEW p \in Proof, NEW n \in Node, QuorumReached(p, n)
      PROVE  s[2] \in Vote /\ HadQuorum(r, s[2])
  BY <1>4 DEF Types, SubmittedHadQuorum, QuorumReached, GoTo, serviceVars,
     historyVars
<1>5. ASSUME NEW p \in Proof, NEW n \in Node, QuorumPending(p, n)
      PROVE  s[2] \in Vote /\ HadQuorum(r, s[2])
  BY <1>5 DEF Types, SubmittedHadQuorum, QuorumPending, GoTo, nodeVars,
     serviceVars, historyVars
<1>6. ASSUME NEW p \in Proof, NEW n \in Node, ElectLeader(p, n)
      PROVE  s[2] \in Vote /\ HadQuorum(r, s[2])
  BY <1>6 DEF Types, SubmittedHadQuorum, ElectLeader, GoTo, nodeVars,
     serviceVars, historyVars
<1>7. ASSUME NEW p \in Proof, NEW n \in Node, Submit(p, n)
      PROVE  s[2] \in Vote /\ HadQuorum(r, s[2])
  BY <1>7 DEF Types, SubmittedHadQuorum, Submit, QuorumOK, GoTo, nodeVars,
     serviceVars, historyVars
<1>8. ASSUME NEW p \in Proof, NEW n \in Node, ReleaseLock(p, n)
      PROVE  s[2] \in Vote /\ HadQuorum(r, s[2])
  BY <1>8 DEF Types, SubmittedHadQuorum, ReleaseLock, GoTo, nodeVars,
     serviceVars, historyVars
<1>9. ASSUME NEW p \in Proof, NEW n \in Node, StoreError(p, n)
      PROVE  s[2] \in Vote /\ HadQuorum(r, s[2])
  BY <1>9 DEF Types, SubmittedHadQuorum, StoreError, GoTo, nodeVars,
     serviceVars
<1>10. ASSUME NEW p \in Proof, LockExpires(p)
      PROVE  s[2] \in Vote /\ HadQuorum(r, s[2])
  BY <1>10 DEF Types, SubmittedHadQuorum, LockExpires, nodeVars, serviceVars
<1>11. ASSUME NEW p \in Proof, VotesExpire(p)
      PROVE  s[2] \in Vote /\ HadQuorum(r, s[2])
  BY <1>11 DEF Types, SubmittedHadQuorum, VotesExpire, nodeVars, serviceVars
<1>12. ASSUME NEW p \in Proof, SettleNodes(p)
      PROVE  s[2] \in Vote /\ HadQuorum(r, s[2])
  BY <1>12 DEF Types, SubmittedHadQuorum, SettleNodes, nodeVars, historyVars
<1>13. ASSUME NEW p \in Proof, RecordTally(p)
      PROVE  s[2] \in Vote /\ HadQuorum(r, s[2])
  BY <1>13 DEF Types, SubmittedHadQuorum, RecordTally, nodeVars, historyVars
<1>14. ASSUME NEW p \in Proof, FailTally(p)
      PROVE  s[2] \in Vote /\ HadQuorum(r, s[2])
  BY <1>14 DEF Types, SubmittedHadQuorum, FailTally, nodeVars, historyVars
<1>15. ASSUME NEW p \in Proof, NEW n \in Node, FailRelease(p, n)
      PROVE  s[2] \in Vote /\ HadQuorum(r, s[2])
  BY <1>15 DEF Types, SubmittedHadQuorum, FailRelease, GoTo, nodeVars,
     serviceVars, historyVars
<1> QED
  BY <1>0, <1>1, <1>2, <1>3, <1>4, <1>5, <1>6, <1>7, <1>8, <1>9, <1>10, <1>11,
     <1>12, <1>13, <1>14, <1>15 DEF Next, NodeStep, ServiceStep

\* Only the holder releases the lock, and only a free lock is taken.
LEMMA LockStep ==
  ASSUME ConsensusAssumption, Types, LeaderHoldsLock, [Next]_vars
  PROVE  LeaderHoldsLock'
<1> DEFINE Holds(r, m) ==
      pc[r][m] \in {"won", "release"} /\ <<r, m>> \notin lapsed => lock[r] = m
<1> SUFFICES ASSUME NEW r \in Proof, NEW m \in Node
             PROVE  Holds(r, m)'
  BY DEF LeaderHoldsLock
<1>a. Holds(r, m)
  BY DEF LeaderHoldsLock
<1> USE <1>a DEF Types
<1>0. CASE UNCHANGED vars
  BY <1>0 DEF ConsensusAssumption, vars, nodeVars, serviceVars, historyVars
<1>1. ASSUME NEW p \in Proof, SubmitProof(p)
      PROVE  Holds(r, m)'
  BY <1>1 DEF ConsensusAssumption, SubmitProof, nodeVars
<1>2. ASSUME NEW p \in Proof, NEW n \in Node, Validate(p, n)
      PROVE  Holds(r, m)'
  <2>1. ASSUME NEW w \in Vote, GoTo(p, n, "put"),
              ballot' = [ballot EXCEPT ![p][n] = w]
       PROVE  Holds(r, m)'
    BY <1>2, <2>1 DEF ConsensusAssumption, Validate, GoTo, serviceVars,
       historyVars
  <2>2. CASE GoTo(p, n, "rejected") /\ UNCHANGED ballot
    BY <1>2, <2>2 DEF ConsensusAssumption, Validate, GoTo, serviceVars,
       historyVars
  <2> QED BY <1>2, <2>1, <2>2 DEF Validate, nodeVars, serviceVars, historyVars
<1>3. ASSUME NEW p \in Proof, NEW n \in Node, PutVote(p, n)
      PROVE  Holds(r, m)'
  BY <1>3 DEF ConsensusAssumption, PutVote, GoTo, nodeVars, serviceVars
<1>4. ASSUME NEW p \in Proof, NEW n \in Node, QuorumReached(p, n)
      PROVE  Holds(r, m)'
  BY <1>4 DEF ConsensusAssumption, QuorumReached, GoTo, serviceVars,
     historyVars
<1>5. ASSUME NEW p \in Proof, NEW n \in Node, QuorumPending(p, n)
      PROVE  Holds(r, m)'
  BY <1>5 DEF ConsensusAssumption, QuorumPending, GoTo, nodeVars, serviceVars,
     historyVars
<1>6. ASSUME NEW p \in Proof, NEW n \in Node, ElectLeader(p, n)
      PROVE  Holds(r, m)'
  <2>1. CASE /\ lock[p] = None /\ lock' = [lock EXCEPT ![p] = n]
            /\ GoTo(p, n, "won")
    BY <1>6, <2>1 DEF ConsensusAssumption, ElectLeader, GoTo, nodeVars,
       serviceVars, historyVars
  <2>2. CASE lock[p] # None /\ UNCHANGED lock /\ GoTo(p, n, "follower")
    BY <1>6, <2>2 DEF ConsensusAssumption, ElectLeader, GoTo, nodeVars,
       serviceVars, historyVars
  <2> QED BY <1>6, <2>1, <2>2 DEF ElectLeader, nodeVars, serviceVars,
     historyVars
<1>7. ASSUME NEW p \in Proof, NEW n \in Node, Submit(p, n)
      PROVE  Holds(r, m)'
  BY <1>7 DEF ConsensusAssumption, Submit, GoTo, nodeVars, serviceVars,
     historyVars
<1>8. ASSUME NEW p \in Proof, NEW n \in Node, ReleaseLock(p, n)
      PROVE  Holds(r, m)'
  BY <1>8 DEF ConsensusAssumption, ReleaseLock, GoTo, nodeVars, serviceVars,
     historyVars
<1>9. ASSUME NEW p \in Proof, NEW n \in Node, StoreError(p, n)
      PROVE  Holds(r, m)'
  BY <1>9 DEF ConsensusAssumption, StoreError, GoTo, nodeVars, serviceVars
<1>10. ASSUME NEW p \in Proof, LockExpires(p)
      PROVE  Holds(r, m)'
  BY <1>10 DEF ConsensusAssumption, LockExpires, nodeVars, serviceVars
<1>11. ASSUME NEW p \in Proof, VotesExpire(p)
      PROVE  Holds(r, m)'
  BY <1>11 DEF ConsensusAssumption, VotesExpire, nodeVars, serviceVars
<1>12. ASSUME NEW p \in Proof, SettleNodes(p)
      PROVE  Holds(r, m)'
  BY <1>12 DEF ConsensusAssumption, SettleNodes, nodeVars, historyVars
<1>13. ASSUME NEW p \in Proof, RecordTally(p)
      PROVE  Holds(r, m)'
  BY <1>13 DEF ConsensusAssumption, RecordTally, nodeVars, historyVars
<1>14. ASSUME NEW p \in Proof, FailTally(p)
      PROVE  Holds(r, m)'
  BY <1>14 DEF ConsensusAssumption, FailTally, nodeVars, historyVars
<1>15. ASSUME NEW p \in Proof, NEW n \in Node, FailRelease(p, n)
      PROVE  Holds(r, m)'
  BY <1>15 DEF ConsensusAssumption, FailRelease, GoTo, nodeVars, serviceVars,
     historyVars
<1> QED
  BY <1>0, <1>1, <1>2, <1>3, <1>4, <1>5, <1>6, <1>7, <1>8, <1>9, <1>10, <1>11,
     <1>12, <1>13, <1>14, <1>15 DEF Next, NodeStep, ServiceStep

\* The status is computed when no node can submit any more.
LEMMA OutcomeStep ==
  ASSUME ConsensusAssumption, Types, ProgressOK, StageOK,
         OutcomeMatchesSubmission, [Next]_vars
  PROVE  OutcomeMatchesSubmission'
<1> DEFINE Right(r) ==
      status[r] \in Terminal => (status[r] = "submitted" <=> submissions[r] # {})
<1> SUFFICES ASSUME NEW r \in Proof
             PROVE  Right(r)'
  BY DEF OutcomeMatchesSubmission
<1>a. Right(r)
  BY DEF OutcomeMatchesSubmission
<1> USE <1>a DEF Types, Terminal
<1>0. CASE UNCHANGED vars
  BY <1>0 DEF ConsensusAssumption, vars, nodeVars, serviceVars, historyVars
<1>1. ASSUME NEW p \in Proof, SubmitProof(p)
      PROVE  Right(r)'
  BY <1>1 DEF ConsensusAssumption, SubmitProof, nodeVars
<1>2. ASSUME NEW p \in Proof, NEW n \in Node, Validate(p, n)
      PROVE  Right(r)'
  BY <1>2 DEF ConsensusAssumption, Validate, GoTo, serviceVars, historyVars
<1>3. ASSUME NEW p \in Proof, NEW n \in Node, PutVote(p, n)
      PROVE  Right(r)'
  BY <1>3 DEF ConsensusAssumption, PutVote, GoTo, nodeVars, serviceVars
<1>4. ASSUME NEW p \in Proof, NEW n \in Node, QuorumReached(p, n)
      PROVE  Right(r)'
  BY <1>4 DEF ConsensusAssumption, QuorumReached, GoTo, serviceVars,
     historyVars
<1>5. ASSUME NEW p \in Proof, NEW n \in Node, QuorumPending(p, n)
      PROVE  Right(r)'
  BY <1>5 DEF ConsensusAssumption, QuorumPending, GoTo, nodeVars, serviceVars,
     historyVars
<1>6. ASSUME NEW p \in Proof, NEW n \in Node, ElectLeader(p, n)
      PROVE  Right(r)'
  BY <1>6 DEF ConsensusAssumption, ElectLeader, GoTo, nodeVars, serviceVars,
     historyVars
<1>7. ASSUME NEW p \in Proof, NEW n \in Node, Submit(p, n)
      PROVE  Right(r)'
  <2>1. status[p] \notin Terminal /\ status' = status
    BY <1>7 DEF Submit, serviceVars, ProgressOK, Final
  <2>2. r # p => submissions'[r] = submissions[r]
    BY <1>7 DEF Submit
  <2> QED BY <2>1, <2>2
<1>8. ASSUME NEW p \in Proof, NEW n \in Node, ReleaseLock(p, n)
      PROVE  Right(r)'
  BY <1>8 DEF ConsensusAssumption, ReleaseLock, GoTo, nodeVars, serviceVars,
     historyVars
<1>9. ASSUME NEW p \in Proof, NEW n \in Node, StoreError(p, n)
      PROVE  Right(r)'
  BY <1>9 DEF ConsensusAssumption, StoreError, GoTo, nodeVars, serviceVars
<1>10. ASSUME NEW p \in Proof, LockExpires(p)
      PROVE  Right(r)'
  BY <1>10 DEF ConsensusAssumption, LockExpires, nodeVars, serviceVars
<1>11. ASSUME NEW p \in Proof, VotesExpire(p)
      PROVE  Right(r)'
  BY <1>11 DEF ConsensusAssumption, VotesExpire, nodeVars, serviceVars
<1>b. \A p \in Proof : (submissions[p] # {}) <=> HasLeader(p) \/
        \E n \in Node : pc[p][n] = "release"
  <2> SUFFICES ASSUME NEW p \in Proof
               PROVE  (submissions[p] # {}) <=> HasLeader(p) \/
                        \E n \in Node : pc[p][n] = "release"
    OBVIOUS
  <2>1. ASSUME NEW t \in submissions[p]
        PROVE  \E n \in Node : pc[p][n] \in {"release", "leader"}
    <3>1. PICK n \in Node, v \in Vote : t = <<n, v>>
      OBVIOUS
    <3> QED BY <3>1 DEF ProgressOK
  <2>2. ASSUME NEW n \in Node, pc[p][n] \in {"release", "leader"}
        PROVE  submissions[p] # {}
    BY <2>2 DEF ProgressOK
  <2> QED BY <2>1, <2>2 DEF HasLeader
<1>12. ASSUME NEW p \in Proof, SettleNodes(p)
      PROVE  Right(r)'
  <2>1. /\ \A n \in Node : pc[p][n] # "release"
        /\ submissions' = submissions
    BY <1>12 DEF SettleNodes, Final
  <2>2. \/ HasLeader(p) /\ status' = [status EXCEPT ![p] = "submitted"]
        \/ status' = status
    BY <1>12 DEF SettleNodes
  <2> QED BY <1>b, <2>1, <2>2
<1>13. ASSUME NEW p \in Proof, RecordTally(p)
      PROVE  Right(r)'
  <2>1. submissions[p] = {} /\ submissions' = submissions
    BY <1>13, <1>b DEF RecordTally, StageOK, Final, HasLeader
  <2> QED BY <1>13, <2>1 DEF RecordTally, NoLeaderOutcome
<1>14. ASSUME NEW p \in Proof, FailTally(p)
      PROVE  Right(r)'
  <2>1. submissions[p] = {} /\ submissions' = submissions
    BY <1>14, <1>b DEF FailTally, StageOK, Final, HasLeader
  <2> QED BY <1>14, <2>1 DEF FailTally
<1>15. ASSUME NEW p \in Proof, NEW n \in Node, FailRelease(p, n)
      PROVE  Right(r)'
  BY <1>15 DEF ConsensusAssumption, FailRelease, GoTo, nodeVars, serviceVars,
     historyVars
<1> QED
  BY <1>0, <1>1, <1>2, <1>3, <1>4, <1>5, <1>6, <1>7, <1>8, <1>9, <1>10, <1>11,
     <1>12, <1>13, <1>14, <1>15 DEF Next, NodeStep, ServiceStep

\* The bounds are kept: a proof is dropped before the order exceeds them.
LEMMA BoundsStep ==
  ASSUME ConsensusAssumption, Types, Bounds, [Next]_vars
  PROVE  Bounds'
<1> USE DEF Bounds
<1>0. CASE UNCHANGED vars
  BY <1>0 DEF vars, serviceVars, historyVars
<1>1. ASSUME NEW p \in Proof, SubmitProof(p)
      PROVE  Bounds'
  <2>1. CASE Len(order) < Retention
    BY <1>1, <2>1 DEF SubmitProof, Types, ConsensusAssumption
  <2>2. CASE ~(Len(order) < Retention)
    <3>1. order \in Seq(Proof) /\ order # << >>
      BY <2>2 DEF Types, ConsensusAssumption
    <3>2. Head(order) \in Proof /\ Len(Append(Tail(order), p)) = Len(order)
      BY <3>1
    <3> QED BY <1>1, <2>2, <3>2 DEF SubmitProof, Disturb
  <2> QED BY <2>1, <2>2
<1>2. ASSUME NEW p \in Proof, NEW n \in Node, NodeStep(p, n)
      PROVE  Bounds'
  BY <1>2 DEF NodeStep, Validate, PutVote, QuorumReached, QuorumPending,
     ElectLeader, Submit, ReleaseLock, serviceVars, historyVars
<1>3. ASSUME NEW p \in Proof, NEW n \in Node, StoreError(p, n)
      PROVE  Bounds'
  BY <1>3 DEF StoreError, Fault, Disturb, serviceVars, ConsensusAssumption
<1>4. ASSUME NEW p \in Proof, LockExpires(p)
      PROVE  Bounds'
  <2>1. lock[p] \in Node
    BY <1>4 DEF LockExpires, Types
  <2> QED BY <1>4, <2>1 DEF LockExpires, Fault, Disturb, serviceVars,
       ConsensusAssumption
<1>5. ASSUME NEW p \in Proof, VotesExpire(p)
      PROVE  Bounds'
  BY <1>5 DEF VotesExpire, Fault, Disturb, serviceVars, ConsensusAssumption
<1>6. ASSUME NEW p \in Proof, ServiceStep(p)
      PROVE  Bounds'
  BY <1>6 DEF ServiceStep, SettleNodes, RecordTally, FailTally, Fault,
     historyVars, ConsensusAssumption
<1>7. ASSUME NEW p \in Proof, NEW n \in Node, FailRelease(p, n)
      PROVE  Bounds'
  BY <1>7 DEF FailRelease, Fault, serviceVars, historyVars,
     ConsensusAssumption
<1> QED BY <1>0, <1>1, <1>2, <1>3, <1>4, <1>5, <1>6, <1>7 DEF Next

\* The weight is a sum, so it grows with the set of nodes.
LEMMA WeightIsSum == \A S : Weight(S) = SumOf(WeightOf, S)
  BY DEF Weight, SumOf

LEMMA WeightMonotone ==
  ASSUME ConsensusAssumption, NEW S \in SUBSET Node, NEW T \in SUBSET S
  PROVE  Weight(T) \in Nat /\ Weight(T) <= Weight(S) /\ Weight(S) \in Nat
<1>1. IsFiniteSet(S) /\ \A n \in S : WeightOf[n] \in Nat
  BY FS_Subset DEF ConsensusAssumption
<1> QED BY <1>1, SumMonotone, WeightIsSum

\* Without votes there is no quorum.
LEMMA QuorumHasVotes ==
  ASSUME ConsensusAssumption, NEW p \in Proof, NEW v, HadQuorum(p, v)
  PROVE  \E n \in Node : <<n, v>> \in cast[p]
<1>1. PICK S \in SUBSET Voters(p, v) : Weight(S) >= Threshold
  BY DEF HadQuorum
<1>2. S # {}
  BY <1>1, SumEmpty, WeightIsSum DEF ConsensusAssumption
<1> QED BY <1>1, <1>2 DEF Voters

\* If the store has every vote, the tally of a quorum reaches the threshold.
LEMMA QuorumIsTally ==
  ASSUME ConsensusAssumption, NEW p \in Proof, NEW v \in Vote, HadQuorum(p, v),
         \A n \in Node : <<n, v>> \in cast[p] => votes[p][n] = v
  PROVE  Tally(p, v) >= Threshold
<1>1. PICK S \in SUBSET Voters(p, v) : Weight(S) >= Threshold
  BY DEF HadQuorum
<1> DEFINE T == {n \in Node : votes[p][n] = v}
<1>2. T \in SUBSET Node /\ S \in SUBSET T
  BY DEF Voters
<1>3. Weight(S) <= Weight(T) /\ Weight(S) \in Nat /\ Weight(T) \in Nat
  <2> HIDE DEF T
  <2> QED BY <1>2, WeightMonotone
<1> QED BY <1>1, <1>3 DEF Tally, ConsensusAssumption

\* What a step does not touch stays undisturbed.
LEMMA UndisturbedFrame ==
  ASSUME NEW r \in Proof, Undisturbed(r), votes'[r] = votes[r],
         lock'[r] = lock[r], pc'[r] = pc[r], cast'[r] = cast[r]
  PROVE  Undisturbed(r)'
  BY DEF Undisturbed, HadQuorum, Voters

\* A proof that no fault hits keeps its votes, its lock and its leader, from
\* its start to its outcome.
LEMMA UndisturbedStep ==
  ASSUME ConsensusAssumption, Types, Bounds, VotesOK, ProgressOK,
         UndisturbedOK, [Next]_vars
  PROVE  UndisturbedOK'
<1> SUFFICES ASSUME NEW r \in Proof, r \notin disturbed',
                    status'[r] \in {"unknown", "voting"}
             PROVE  Undisturbed(r)'
  BY DEF UndisturbedOK
<1> USE DEF Types
<1>0. CASE UNCHANGED vars
  BY <1>0, UndisturbedFrame DEF UndisturbedOK, vars, nodeVars, serviceVars,
     historyVars
<1>1. ASSUME NEW p \in Proof, SubmitProof(p)
      PROVE  Undisturbed(r)'
  <2>1. /\ r \notin disturbed /\ status[r] \in {"unknown", "voting"}
        /\ status'[r] = IF r = p THEN "voting" ELSE status[r]
        /\ lock' = lock /\ cast' = cast /\ status[p] = "unknown"
        /\ pc' = [pc EXCEPT ![p] = [n \in Node |-> "validate"]]
    BY <1>1 DEF SubmitProof, Disturb
  <2>2. Undisturbed(r)
    BY <2>1 DEF UndisturbedOK
  <2>3. CASE r = p
    <3>1. \A n \in Node : pc[r][n] = "idle"
      BY <2>1, <2>3 DEF ProgressOK
    <3>2. \A n \in Node, v \in Vote : <<n, v>> \notin cast'[r]
      BY <2>1, <3>1 DEF VotesOK, Before
    <3>3. \A v \in Vote : ~HadQuorum(r, v)'
      <4>1. \A v \in Vote : ~HadQuorum(r, v)
        BY <2>1, <3>2, QuorumHasVotes
      <4> QED BY <2>1, <4>1 DEF HadQuorum, Voters
    <3>4. lock'[r] = None
      BY <2>1, <2>2, <3>1 DEF Undisturbed, Leaders
    <3>5. \A n \in Node : pc'[r][n] = "validate"
      BY <2>1, <2>3
    <3> QED BY <3>2, <3>3, <3>4, <3>5 DEF Undisturbed
  <2>4. CASE r # p
    <3>1. pc'[r] = pc[r]
      BY <2>1, <2>4
    <3>2. CASE UNCHANGED votes
      BY <2>1, <2>2, <3>1, <3>2, UndisturbedFrame
    <3>3. CASE /\ votes' = [votes EXCEPT ![Head(order)] = NoVotes]
               /\ Disturb(Head(order))
      <4>1. CASE Head(order) = r
        <5>1. status[r] = "unknown"
          BY <2>1, <3>3, <4>1 DEF Disturb
        <5>2. \A n \in Node : pc[r][n] = "idle"
          BY <5>1 DEF ProgressOK
        <5>3. \A n \in Node, v \in Vote : <<n, v>> \notin cast[r]
          BY <5>2 DEF VotesOK, Before
        <5>4. \A v \in Vote : ~HadQuorum(r, v)
          BY <5>3, QuorumHasVotes
        <5>5. \A v \in Vote : ~HadQuorum(r, v)'
          BY <2>1, <5>4 DEF HadQuorum, Voters
        <5> QED BY <2>1, <2>2, <3>1, <5>2, <5>3, <5>5 DEF Undisturbed
      <4>2. CASE Head(order) # r
        <5>1. votes'[r] = votes[r]
          BY <3>3, <4>2
        <5> QED BY <2>1, <2>2, <3>1, <5>1, UndisturbedFrame
      <4> QED BY <4>1, <4>2
    <3> QED BY <1>1, <3>2, <3>3 DEF SubmitProof
  <2> QED BY <2>3, <2>4
<1>2. ASSUME NEW p \in Proof, NEW n \in Node, NodeStep(p, n)
      PROVE  Undisturbed(r)'
  <2>1. r \notin disturbed /\ status[r] \in {"unknown", "voting"}
    BY <1>2 DEF NodeStep, Validate, PutVote, QuorumReached, QuorumPending,
       ElectLeader, Submit, ReleaseLock, serviceVars, historyVars
  <2>2. Undisturbed(r)
    BY <2>1 DEF UndisturbedOK
  <2>3. CASE r # p
    <3>1. /\ votes'[r] = votes[r] /\ lock'[r] = lock[r]
          /\ pc'[r] = pc[r] /\ cast'[r] = cast[r]
      BY <1>2, <2>3 DEF NodeStep, Validate, PutVote, QuorumReached,
         QuorumPending, ElectLeader, Submit, ReleaseLock, GoTo, serviceVars,
         historyVars
    <3> QED BY <2>2, <3>1, UndisturbedFrame
  <2>4. CASE r = p
    <3> USE <2>2, <2>4
    <3>1. CASE Validate(p, n)
      <4>1. \E s \in {"put", "rejected"} : GoTo(p, n, s)
        BY <3>1 DEF Validate
      <4>2. \A m \in Node : pc[p][m] \in Passed =>
                              m # n /\ pc'[p][m] = pc[p][m]
        BY <3>1, <4>1 DEF Validate, GoTo, Passed
      <4>3. /\ UNCHANGED <<votes, lock, cast>>
            /\ \A m \in Node : pc'[p][m] \in {pc[p][m], "put", "rejected"}
        BY <3>1, <4>1 DEF Validate, GoTo, historyVars
      <4>4. \A v \in Vote : HadQuorum(p, v)' => HadQuorum(p, v)
        BY <4>3 DEF HadQuorum, Voters
      <4>5. /\ \A m \in Node, v \in Vote :
                 <<m, v>> \in cast'[p] => votes'[p][m] = v
            /\ lock'[p] # None => pc'[p][lock'[p]] \in Leaders
        BY <4>2, <4>3 DEF Undisturbed, Passed, Leaders
      <4>6. \A v \in Vote : HadQuorum(p, v)' =>
              \E m \in Node : pc'[p][m] \in Passed
        BY <4>2, <4>4 DEF Undisturbed
      <4>7. \A m \in Node : pc'[p][m] = "follower" =>
              \E k \in Node : pc'[p][k] \in Leaders
        <5>1. \A k \in Node : pc[p][k] \in Leaders => pc'[p][k] \in Leaders
          BY <4>2 DEF Passed, Leaders
        <5>2. \A m \in Node : pc'[p][m] = "follower" => pc[p][m] = "follower"
          BY <4>3
        <5> QED BY <5>1, <5>2 DEF Undisturbed
      <4> QED BY <4>5, <4>6, <4>7 DEF Undisturbed
    <3>2. CASE PutVote(p, n)
      <4>1. ballot[p][n] \in Vote
        BY <3>2 DEF PutVote, VotesOK
      <4>2. /\ votes' = [votes EXCEPT ![p][n] = ballot[p][n]]
            /\ cast' = [cast EXCEPT ![p] = @ \cup {<<n, ballot[p][n]>>}]
            /\ lock' = lock /\ pc[p][n] = "put"
            /\ pc' = [pc EXCEPT ![p][n] = "check"]
        BY <3>2 DEF PutVote, GoTo
      <4>3. \A m \in Node, v \in Vote :
              <<m, v>> \in cast'[p] => votes'[p][m] = v
        <5> SUFFICES ASSUME NEW m \in Node, NEW v \in Vote,
                            <<m, v>> \in cast'[p]
                     PROVE  votes'[p][m] = v
          OBVIOUS
        <5>1. <<m, v>> \in cast[p] \/ (m = n /\ v = ballot[p][n])
          BY <4>2
        <5>2. m = n => v = ballot[p][n]
          BY <5>1 DEF VotesOK
        <5> QED BY <4>2, <5>1, <5>2 DEF Undisturbed
      <4>4. pc'[p][n] = "check" /\ \A m \in Node \ {n} : pc'[p][m] = pc[p][m]
        BY <4>2
      <4>5. \E m \in Node : pc'[p][m] \in Passed
        BY <4>4 DEF Passed
      <4>6. lock'[p] # None => pc'[p][lock'[p]] \in Leaders
        BY <4>2, <4>4 DEF Undisturbed, Leaders
      <4>7. \A m \in Node : pc'[p][m] = "follower" =>
              \E k \in Node : pc'[p][k] \in Leaders
        BY <4>2, <4>4 DEF Undisturbed, Leaders
      <4> QED BY <4>3, <4>5, <4>6, <4>7 DEF Undisturbed
    <3>3. CASE QuorumReached(p, n)
      <4>1. /\ UNCHANGED <<votes, lock, cast>> /\ pc[p][n] = "check"
            /\ pc' = [pc EXCEPT ![p][n] = "elect"]
        BY <3>3 DEF QuorumReached, GoTo, historyVars
      <4>2. pc'[p][n] = "elect" /\ \A m \in Node \ {n} : pc'[p][m] = pc[p][m]
        BY <4>1
      <4>3. \A m \in Node : pc[p][m] \in Passed => pc'[p][m] \in Passed
        BY <4>2 DEF Passed
      <4>4. \A v \in Vote : HadQuorum(p, v)' =>
              \E m \in Node : pc'[p][m] \in Passed
        BY <4>1, <4>3 DEF Undisturbed, HadQuorum, Voters
      <4>5. \A m \in Node : pc'[p][m] = "follower" =>
              \E k \in Node : pc'[p][k] \in Leaders
        BY <4>1, <4>2 DEF Undisturbed, Leaders
      <4>6. lock'[p] # None => pc'[p][lock'[p]] \in Leaders
        BY <4>1, <4>2 DEF Undisturbed, Leaders
      <4>7. \A m \in Node, v \in Vote : <<m, v>> \in cast'[p] => votes'[p][m] = v
        BY <4>1 DEF Undisturbed
      <4> QED BY <4>4, <4>5, <4>6, <4>7 DEF Undisturbed
    <3>4. CASE QuorumPending(p, n)
      <4>1. /\ UNCHANGED <<votes, lock, cast>> /\ pc[p][n] = "check"
            /\ pc' = [pc EXCEPT ![p][n] = "pending"]
        BY <3>4 DEF QuorumPending, GoTo, historyVars
      <4>2. \A v \in Vote : ~HadQuorum(p, v)
        <5> SUFFICES ASSUME NEW v \in Vote, HadQuorum(p, v) PROVE FALSE
          OBVIOUS
        <5>1. Tally(p, v) >= Threshold
          BY QuorumIsTally DEF Undisturbed
        <5>2. Tally(p, v) < Threshold
          BY <3>4 DEF QuorumPending
        <5>3. Tally(p, v) \in Nat
          BY WeightMonotone DEF Tally
        <5> QED BY <5>1, <5>2, <5>3 DEF ConsensusAssumption
      <4>3. \A v \in Vote : ~HadQuorum(p, v)'
        BY <4>1, <4>2 DEF HadQuorum, Voters
      <4>4. pc'[p][n] = "pending" /\ \A m \in Node \ {n} : pc'[p][m] = pc[p][m]
        BY <4>1
      <4>5. \A m \in Node : pc'[p][m] = "follower" =>
              \E k \in Node : pc'[p][k] \in Leaders
        BY <4>1, <4>4 DEF Undisturbed, Leaders
      <4>6. lock'[p] # None => pc'[p][lock'[p]] \in Leaders
        BY <4>1, <4>4 DEF Undisturbed, Leaders
      <4>7. \A m \in Node, v \in Vote : <<m, v>> \in cast'[p] => votes'[p][m] = v
        BY <4>1 DEF Undisturbed
      <4> QED BY <4>3, <4>5, <4>6, <4>7 DEF Undisturbed
    <3>5. CASE ElectLeader(p, n)
      <4>1. /\ UNCHANGED <<votes, cast>> /\ pc[p][n] = "elect"
            /\ \A m \in Node \ {n} : pc'[p][m] = pc[p][m]
            /\ \/ lock[p] = None /\ lock'[p] = n /\ pc'[p][n] = "won"
               \/ lock[p] # None /\ lock'[p] = lock[p]
                  /\ pc'[p][n] = "follower"
        BY <3>5 DEF ElectLeader, GoTo, historyVars
      <4>2. \A v \in Vote : HadQuorum(p, v)' => HadQuorum(p, v)
        BY <4>1 DEF HadQuorum, Voters
      <4>3. lock[p] # None => lock[p] \in Node \ {n}
        BY <4>1 DEF Undisturbed, Leaders
      <4> QED BY <4>1, <4>2, <4>3 DEF Undisturbed, Passed, Leaders
    <3>6. CASE Submit(p, n)
      <4>1. /\ UNCHANGED <<votes, lock, cast>> /\ pc[p][n] = "won"
            /\ pc' = [pc EXCEPT ![p][n] = "release"]
        BY <3>6 DEF Submit, GoTo, historyVars
      <4>2. pc'[p][n] = "release" /\ \A m \in Node \ {n} : pc'[p][m] = pc[p][m]
        BY <4>1
      <4> QED BY <4>1, <4>2 DEF Undisturbed, Passed, Leaders
    <3>7. CASE ReleaseLock(p, n)
      <4>1. /\ UNCHANGED <<votes, cast>> /\ pc[p][n] = "release"
            /\ lock'[p] = IF lock[p] = n THEN None ELSE lock[p]
            /\ pc' = [pc EXCEPT ![p][n] = "leader"]
        BY <3>7 DEF ReleaseLock, GoTo, historyVars
      <4>2. pc'[p][n] = "leader" /\ \A m \in Node \ {n} : pc'[p][m] = pc[p][m]
        BY <4>1
      <4>3. lock[p] # None => lock[p] \in Node
        OBVIOUS
      <4> QED BY <4>1, <4>2, <4>3 DEF Undisturbed, Passed, Leaders
    <3> QED BY <1>2, <3>1, <3>2, <3>3, <3>4, <3>5, <3>6, <3>7 DEF NodeStep
  <2> QED BY <2>3, <2>4
<1>3. ASSUME NEW p \in Proof, NEW n \in Node, StoreError(p, n)
      PROVE  Undisturbed(r)'
  <2>1. pc[p][n] \notin Final /\ pc[p][n] # "idle"
    BY <1>3 DEF StoreError, Final
  <2>2. status[p] = "voting"
    BY <2>1 DEF ProgressOK
  <2>3. r # p /\ r \notin disturbed /\ status[r] = status'[r]
    BY <1>3, <2>2 DEF StoreError, Disturb, serviceVars
  <2>4. /\ votes'[r] = votes[r] /\ lock'[r] = lock[r]
        /\ pc'[r] = pc[r] /\ cast'[r] = cast[r]
    BY <1>3, <2>3 DEF StoreError, GoTo
  <2> QED BY <2>3, <2>4, UndisturbedFrame DEF UndisturbedOK
<1>4. ASSUME NEW p \in Proof, LockExpires(p)
      PROVE  Undisturbed(r)'
  <2>1. r \notin disturbed /\ status'[r] = status[r]
    BY <1>4 DEF LockExpires, Disturb, serviceVars
  <2>2. Undisturbed(r)
    BY <2>1 DEF UndisturbedOK
  <2>3. r # p
    <3> SUFFICES ASSUME r = p PROVE FALSE
      OBVIOUS
    <3>1. status[p] = "unknown"
      BY <1>4, <2>1 DEF LockExpires, Disturb
    <3>2. lock[p] \in Node
      BY <1>4 DEF LockExpires
    <3>3. pc[p][lock[p]] = "idle"
      BY <3>1, <3>2 DEF ProgressOK
    <3> QED BY <2>2, <3>2, <3>3, <1>4 DEF Undisturbed, LockExpires, Leaders
  <2>4. /\ votes'[r] = votes[r] /\ lock'[r] = lock[r]
        /\ pc'[r] = pc[r] /\ cast'[r] = cast[r]
    BY <1>4, <2>3 DEF LockExpires
  <2> QED BY <2>2, <2>4, UndisturbedFrame
<1>5. ASSUME NEW p \in Proof, VotesExpire(p)
      PROVE  Undisturbed(r)'
  <2>1. r \notin disturbed /\ status'[r] = status[r]
    BY <1>5 DEF VotesExpire, Disturb, serviceVars
  <2>2. Undisturbed(r)
    BY <2>1 DEF UndisturbedOK
  <2>3. r # p
    <3> SUFFICES ASSUME r = p PROVE FALSE
      OBVIOUS
    <3>1. status[p] = "unknown"
      BY <1>5, <2>1 DEF VotesExpire, Disturb
    <3>2. \A n \in Node : pc[p][n] = "idle"
      BY <3>1 DEF ProgressOK
    <3>3. \A n \in Node : votes[p][n] = None
      <4> SUFFICES ASSUME NEW n \in Node, votes[p][n] # None PROVE FALSE
        OBVIOUS
      <4>1. <<n, votes[p][n]>> \in cast[p] /\ votes[p][n] \in Vote
        BY DEF VotesOK
      <4> QED BY <3>2, <4>1 DEF VotesOK, Before
    <3>4. votes[p] = NoVotes
      BY <3>3 DEF NoVotes
    <3> QED BY <1>5, <3>4 DEF VotesExpire
  <2>4. /\ votes'[r] = votes[r] /\ lock'[r] = lock[r]
        /\ pc'[r] = pc[r] /\ cast'[r] = cast[r]
    BY <1>5, <2>3 DEF VotesExpire
  <2> QED BY <2>2, <2>4, UndisturbedFrame
<1>6. ASSUME NEW p \in Proof, ServiceStep(p)
      PROVE  Undisturbed(r)'
  <2>1. /\ disturbed' = disturbed /\ votes' = votes /\ lock' = lock
        /\ pc' = pc /\ cast' = cast
    BY <1>6 DEF ServiceStep, SettleNodes, RecordTally, FailTally, historyVars
  <2>2. status[r] \in {"unknown", "voting"}
    <3>1. status'[r] \in {status[r], "submitted", "no_quorum", "failed"}
      BY <1>6 DEF ServiceStep, SettleNodes, RecordTally, FailTally,
         NoLeaderOutcome
    <3> QED BY <3>1
  <2> QED BY <2>1, <2>2, UndisturbedFrame DEF UndisturbedOK
<1>7. ASSUME NEW p \in Proof, NEW n \in Node, FailRelease(p, n)
      PROVE  Undisturbed(r)'
  <2>1. /\ disturbed' = disturbed /\ votes' = votes /\ cast' = cast
        /\ status' = status /\ pc[p][n] = "release"
        /\ pc' = [pc EXCEPT ![p][n] = "leader"]
        /\ \/ lock' = lock
           \/ lock' = [lock EXCEPT ![p] = None]
    BY <1>7 DEF FailRelease, GoTo, serviceVars, historyVars
  <2>2. Undisturbed(r)
    BY <2>1 DEF UndisturbedOK
  <2>3. CASE r # p
    <3>1. lock'[r] = lock[r] /\ pc'[r] = pc[r]
      BY <2>1, <2>3
    <3> QED BY <2>1, <2>2, <3>1, UndisturbedFrame
  <2>4. CASE r = p
    <3>1. pc'[p][n] = "leader" /\ \A m \in Node \ {n} : pc'[p][m] = pc[p][m]
      BY <2>1
    <3>2. lock'[p] \in {lock[p], None} /\ (lock[p] # None => lock[p] \in Node)
      BY <2>1
    <3> QED BY <2>1, <2>2, <2>4, <3>1, <3>2
         DEF Undisturbed, Passed, Leaders, HadQuorum, Voters
  <2> QED BY <2>3, <2>4
<1> QED BY <1>0, <1>1, <1>2, <1>3, <1>4, <1>5, <1>6, <1>7 DEF Next

\* The outcome is "submitted" if there was a quorum, and no vote comes later.
LEMMA SeenStep ==
  ASSUME ConsensusAssumption, Types, VotesOK, ProgressOK, StageOK,
         UndisturbedOK, QuorumIsSeen, [Next]_vars
  PROVE  QuorumIsSeen'
<1> SUFFICES ASSUME NEW r \in Proof, r \notin disturbed',
                    status'[r] \in {"no_quorum", "failed"},
                    NEW w \in Vote, HadQuorum(r, w)'
             PROVE  FALSE
  BY DEF QuorumIsSeen
<1> USE DEF Types
<1>a. disturbed \subseteq disturbed'
  BY DEF Next, NodeStep, vars, historyVars, SubmitProof, Validate, PutVote,
     QuorumReached, QuorumPending, ElectLeader, Submit, ReleaseLock,
     StoreError, LockExpires, VotesExpire, ServiceStep, SettleNodes,
     RecordTally, FailTally, FailRelease, Disturb
<1>1. CASE status[r] \in {"no_quorum", "failed"}
  <2>1. \A n \in Node : pc[r][n] \in Final
    BY <1>1 DEF ProgressOK, Terminal
  <2>2. cast'[r] = cast[r]
    <3>1. \A p \in Proof, n \in Node :
            PutVote(p, n) \/ StoreError(p, n) => cast'[r] = cast[r]
      BY <2>1 DEF PutVote, StoreError, Final
    <3>2. \A p \in Proof, n \in Node :
            NodeStep(p, n) => cast' = cast \/ PutVote(p, n)
      BY DEF NodeStep, Validate, QuorumReached, QuorumPending, ElectLeader,
         Submit, ReleaseLock, historyVars
    <3>3. \A p \in Proof : \/ SubmitProof(p) \/ LockExpires(p)
                           \/ VotesExpire(p) \/ ServiceStep(p)
                           \/ \E n \in Node : FailRelease(p, n)
                          => cast' = cast
      BY DEF SubmitProof, LockExpires, VotesExpire, ServiceStep, SettleNodes,
         RecordTally, FailTally, FailRelease, historyVars
    <3>4. UNCHANGED vars => cast' = cast
      BY DEF vars
    <3> QED BY <3>1, <3>2, <3>3, <3>4 DEF Next
  <2>3. HadQuorum(r, w)
    BY <2>2 DEF HadQuorum, Voters
  <2> QED BY <1>a, <1>1, <2>3 DEF QuorumIsSeen
<1>2. CASE status[r] \notin {"no_quorum", "failed"}
  <2>1. RecordTally(r) \/ FailTally(r)
    <3>1. status'[r] # status[r]
      BY <1>2
    <3>2. \A p \in Proof : SubmitProof(p) => status'[r] \in {status[r], "voting"}
      BY DEF SubmitProof
    <3>3. \A p \in Proof : SettleNodes(p) =>
            status'[r] \in {status[r], "submitted"}
      BY DEF SettleNodes
    <3>4. \A p \in Proof : (RecordTally(p) \/ FailTally(p)) /\ p # r =>
            status'[r] = status[r]
      BY DEF RecordTally, FailTally
    <3>5. \A p \in Proof : LockExpires(p) \/ VotesExpire(p) => status' = status
      BY DEF LockExpires, VotesExpire, serviceVars
    <3>6. \A p \in Proof, n \in Node :
            NodeStep(p, n) \/ StoreError(p, n) \/ FailRelease(p, n) =>
              status' = status
      BY DEF NodeStep, Validate, PutVote, QuorumReached, QuorumPending,
         ElectLeader, Submit, ReleaseLock, StoreError, FailRelease, serviceVars
    <3>7. UNCHANGED vars => status' = status
      BY DEF vars
    <3> QED BY <1>2, <3>1, <3>2, <3>3, <3>4, <3>5, <3>6, <3>7
         DEF Next, ServiceStep
  <2>2. /\ status[r] = "voting" /\ \A n \in Node : pc[r][n] \in Final
        /\ UNCHANGED cast /\ r \notin disturbed
        /\ \A n \in Node : pc[r][n] # "leader"
    BY <2>1, <1>a DEF RecordTally, FailTally, StageOK, historyVars
  <2>3. Undisturbed(r) /\ HadQuorum(r, w)
    BY <2>2 DEF UndisturbedOK, HadQuorum, Voters
  <2>4. PICK n \in Node : pc[r][n] \in Passed
    BY <2>3 DEF Undisturbed
  <2>5. pc[r][n] = "follower"
    BY <2>2, <2>4 DEF Passed, Final
  <2>6. PICK m \in Node : pc[r][m] \in Leaders
    BY <2>3, <2>5 DEF Undisturbed
  <2> QED BY <2>2, <2>6 DEF Leaders, Final
<1> QED BY <1>1, <1>2

-----------------------------------------------------------------------------
(* The theorems. *)

\* The invariant holds initially.
LEMMA InitIInv == ConsensusAssumption /\ Init => IInv
<1> SUFFICES ASSUME ConsensusAssumption, Init PROVE IInv
  OBVIOUS
<1>1. /\ Types /\ VotesOK /\ QuorumOK /\ ProgressOK
      /\ StageOK
      /\ SubmittedHadQuorum /\ LeaderHoldsLock /\ OutcomeMatchesSubmission
  BY DEF ConsensusAssumption, Init, Types, VotesOK, QuorumOK, ProgressOK,
     StageOK, SubmittedHadQuorum, LeaderHoldsLock, OutcomeMatchesSubmission,
     Step, Final, Terminal, Stage, Before, NoVotes
<1>2. Bounds /\ QuorumIsSeen
  BY DEF ConsensusAssumption, Init, Bounds, QuorumIsSeen
<1>3. UndisturbedOK
  <2>1. \A p \in Proof, v \in Vote : ~HadQuorum(p, v)
    BY QuorumHasVotes DEF Init
  <2> QED BY <2>1 DEF Init, UndisturbedOK, Undisturbed
<1> QED BY <1>1, <1>2, <1>3 DEF IInv

\* Every step preserves the invariant.
LEMMA StepIInv == ConsensusAssumption /\ IInv /\ [Next]_vars => IInv'
  BY TypesStep, VotesStep, QuorumStep, ProgressStep, SubmittedStep, LockStep,
     StageStep, OutcomeStep, BoundsStep, UndisturbedStep, SeenStep DEF IInv

\* The inductive invariant.
THEOREM Invariance == Spec => []IInv
  BY ConsensusAssumption, InitIInv, StepIInv, PTL DEF Spec

\* Every state of the service and the nodes has its type: an order within the
\* retention, votes of the nodes, a lock held by a node or by nobody.
THEOREM TypeCorrect == Spec => []TypeOK
<1>1. IInv => TypeOK
  BY DEF IInv, Types, Bounds, TypeOK
<1> QED BY <1>1, Invariance, PTL

\* A quorum is not missed, however the nodes interleave: a proof that reached
\* one without a fault is not reported as "no_quorum" or "failed"
\* (checkQuorum, electLeader and _runProof together).
THEOREM QuorumSeen == Spec => []QuorumIsSeen
<1>1. IInv => QuorumIsSeen
  BY DEF IInv
<1> QED BY <1>1, Invariance, PTL

\* Whatever the weights and the threshold: nothing is submitted that a quorum
\* did not vote for (checkQuorum before electLeader, consensus.js).
THEOREM QuorumSubmits == Spec => []SubmittedHadQuorum
<1>1. IInv => SubmittedHadQuorum
  BY DEF IInv
<1> QED BY <1>1, Invariance, PTL

\* A leader holds the submission lock of its proof until it releases it or
\* the lock has lived too long (electLeader, processProof).
THEOREM LockedLeader == Spec => []LeaderHoldsLock
<1>1. IInv => LeaderHoldsLock
  BY DEF IInv
<1> QED BY <1>1, Invariance, PTL

\* At any time at most one leader of a proof has a live lock (electLeader).
THEOREM OneLeader ==
  Spec => [](\A p \in Proof, n, m \in Node :
               /\ pc[p][n] \in {"won", "release"} /\ <<p, n>> \notin lapsed
               /\ pc[p][m] \in {"won", "release"} /\ <<p, m>> \notin lapsed
               => n = m)
<1> DEFINE One ==
      \A p \in Proof, n, m \in Node :
        /\ pc[p][n] \in {"won", "release"} /\ <<p, n>> \notin lapsed
        /\ pc[p][m] \in {"won", "release"} /\ <<p, m>> \notin lapsed
        => n = m
<1>1. IInv => One
  BY DEF IInv, LeaderHoldsLock
<1> QED BY <1>1, Invariance, PTL

\* The status the service reports is "submitted" exactly if the submitter was
\* called (_applyLeaderOutcome, _applyNoLeaderOutcome).
THEOREM TrueOutcome == Spec => []OutcomeMatchesSubmission
<1>1. IInv => OutcomeMatchesSubmission
  BY DEF IInv
<1> QED BY <1>1, Invariance, PTL

\* If two quorums always share a node, all leaders of a proof submit the same
\* vote, however many lead one after another and whatever expires.
THEOREM LeadersAgree ==
  ASSUME MajorityThreshold
  PROVE  Spec => []Agreement
<1>1. IInv => Agreement
  <2> SUFFICES ASSUME IInv, NEW p \in Proof, NEW s \in submissions[p],
                      NEW t \in submissions[p]
               PROVE  s[2] = t[2]
    BY DEF Agreement
  <2>1. s[2] \in Vote /\ t[2] \in Vote
    BY DEF IInv, Types
  <2>b. HadQuorum(p, s[2]) /\ HadQuorum(p, t[2])
    BY DEF IInv, SubmittedHadQuorum
  <2>2. PICK S \in SUBSET Voters(p, s[2]) : Weight(S) >= Threshold
    BY <2>b DEF HadQuorum
  <2>3. PICK T \in SUBSET Voters(p, t[2]) : Weight(T) >= Threshold
    BY <2>b DEF HadQuorum
  <2>4. S \in SUBSET Node /\ T \in SUBSET Node
    BY <2>2, <2>3 DEF Voters
  <2>a. S \cap T # {}
    BY <2>2, <2>3, <2>4 DEF MajorityThreshold
  <2>5. PICK n \in Node : n \in S /\ n \in T
    BY <2>4, <2>a
  <2>6. <<n, s[2]>> \in cast[p] /\ <<n, t[2]>> \in cast[p]
    BY <2>2, <2>3, <2>5 DEF Voters
  <2>c. n \in Node /\ VotesOK
    BY <2>4, <2>5 DEF IInv
  <2>7. \A v \in Vote : <<n, v>> \in cast[p] => ballot[p][n] = v
    BY <2>c DEF VotesOK
  <2> QED BY <2>1, <2>6, <2>7
<1> QED BY <1>1, Invariance, PTL

\* A threshold of more than half the weight makes any two quorums share a node.
LEMMA MajoritiesMeet ==
  ASSUME ConsensusAssumption, 2 * Threshold > Weight(Node)
  PROVE  MajorityThreshold
<1> SUFFICES ASSUME NEW S \in SUBSET Node, NEW T \in SUBSET Node,
                    Weight(S) >= Threshold, Weight(T) >= Threshold,
                    S \cap T = {}
             PROVE  FALSE
  BY DEF MajorityThreshold
<1>1. IsFiniteSet(S) /\ IsFiniteSet(T)
  BY FS_Subset DEF ConsensusAssumption
<1>2. \A n \in S \cup T : WeightOf[n] \in Int
  BY DEF ConsensusAssumption
<1>3. Weight(S \cup T) = Weight(S) + Weight(T)
  BY <1>1, <1>2, SumUnion, WeightIsSum
<1>4. Weight(S \cup T) <= Weight(Node) /\ Weight(Node) \in Nat
  BY WeightMonotone
<1>5. Weight(S) \in Nat /\ Weight(T) \in Nat
  BY WeightMonotone
<1> QED BY <1>3, <1>4, <1>5 DEF ConsensusAssumption

\* With a threshold above half the total weight (OracleService's default, 3 of
\* 5 nodes, is one), all leaders of a proof submit the same vote.
THEOREM MajorityAgrees ==
  ASSUME 2 * Threshold > Weight(Node)
  PROVE  Spec => []Agreement
  BY ConsensusAssumption, MajoritiesMeet, LeadersAgree
=============================================================================
