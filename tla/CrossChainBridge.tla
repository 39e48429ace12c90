-------------------------- MODULE CrossChainBridge --------------------------
(***************************************************************************)
(* The Stellar side of the bridge: deposits locked for a mint on the other *)
(* chain, confirmed by a relayer or refunded after they expire, a cap on   *)
(* the daily volume, and proofs voted by validators.  The contract keeps   *)
(* accounts only.  An action is a call that succeeds.                      *)
(***************************************************************************)
EXTENDS Integers, Sequences, FiniteSetsExt

CONSTANTS Relayer, Validator, Hash,
          Bps,                 \* 10_000
          Day,                 \* 86_400
          Fee, Expiry, Limit,  \* settings; Fee at most MAX_FEE_BPS
          Quorum,              \* quorums, positive
          Amount,
          MaxDeposits, MaxTime \* bounds

VARIABLES settings,     \* fee, expiry, limit, quorum; None before initialize
          paused,
          relayers, validators,
          deposits,     \* id -> deposit
          proofs,       \* id -> hash, count and status; or None
          voted,        \* id -> validators recorded as having voted
          stats,
          volume,       \* volume of the day, and time of the last lock
          now

vars == <<settings, paused, relayers, validators, deposits, proofs, voted, stats, volume, now>>

None == [none |-> TRUE]
DepositStatus == {"Pending", "Minted", "Refunded"}
NoStats == [locked |-> 0, minted |-> 0, refunded |-> 0, active |-> 0]

Init ==
  /\ settings = None /\ paused = FALSE
  /\ relayers = {} /\ validators = {}
  /\ deposits = <<>> /\ proofs = <<>> /\ voted = <<>>
  /\ stats = NoStats
  /\ volume = [sum |-> 0, at |-> 0]
  /\ now = 0

Tick ==
  /\ now < MaxTime /\ now' = now + 1
  /\ UNCHANGED <<settings, paused, relayers, validators, deposits, proofs, voted, stats, volume>>

\* The default quorum is 2.
Initialize(fee, expiry, limit) ==
  /\ settings = None
  /\ settings' = [fee |-> fee, expiry |-> expiry, limit |-> limit, quorum |-> 2]
  /\ UNCHANGED <<paused, relayers, validators, deposits, proofs, voted, stats, volume, now>>

Administer(s, p, r, v) ==
  /\ settings # None
  /\ settings' = s /\ paused' = p /\ relayers' = r /\ validators' = v
  /\ UNCHANGED <<deposits, proofs, voted, stats, volume, now>>

Set(s) == Administer(s, paused, relayers, validators)
SetFee(fee) == Set([settings EXCEPT !.fee = fee])
SetExpiry(e) == Set([settings EXCEPT !.expiry = e])
SetDailyLimit(limit) == Set([settings EXCEPT !.limit = limit])
SetValidatorQuorum(q) == Set([settings EXCEPT !.quorum = q])
SetPaused(p) == Administer(settings, p, relayers, validators)
SetRelayer(r, active) ==
  Administer(settings, paused, IF active THEN relayers \cup {r} ELSE relayers \ {r}, validators)
SetValidator(v, active) ==
  Administer(settings, paused, relayers, IF active THEN validators \cup {v} ELSE validators \ {v})

-----------------------------------------------------------------------------
(* Deposits *)

\* accumulate_daily_volume(): the window restarts a day after the last lock.
Accumulated(n) ==
  [sum |-> (IF now - volume.at >= Day THEN 0 ELSE volume.sum) + n, at |-> now]

Lock(n) ==
  LET net == n - (n * settings.fee) \div Bps
  IN /\ settings # None /\ ~paused /\ Len(deposits) < MaxDeposits
     /\ Accumulated(n).sum <= settings.limit
     /\ volume' = Accumulated(n)
     /\ deposits' = Append(deposits, [amount |-> net, expires |-> now + settings.expiry,
                                      status |-> "Pending"])
     /\ proofs' = Append(proofs, None) /\ voted' = Append(voted, {})
     /\ stats' = [stats EXCEPT !.locked = @ + net, !.active = @ + 1]
     /\ UNCHANGED <<settings, paused, relayers, validators, now>>

\* The body of both confirmations.
Minted(id) ==
  /\ deposits[id].status = "Pending" /\ now <= deposits[id].expires
  /\ deposits' = [deposits EXCEPT ![id].status = "Minted"]
  /\ stats' = [stats EXCEPT !.minted = @ + deposits[id].amount, !.active = Max({0, @ - 1})]
  /\ UNCHANGED <<settings, paused, relayers, validators, proofs, voted, volume, now>>

\* A relayer needs no proof to confirm a mint, only to confirm it with one.
ConfirmMint(id) == relayers # {} /\ Minted(id)

ConfirmMintWithProof(id) ==
  relayers # {} /\ proofs[id] # None /\ proofs[id].status = "Verified" /\ Minted(id)

\* Mutation: a deposit is refunded once it expired, whatever became of it.
RefundAgain(id) ==
  /\ now > deposits[id].expires
  /\ deposits' = [deposits EXCEPT ![id].status = "Refunded"]
  /\ stats' = [stats EXCEPT !.refunded = @ + deposits[id].amount, !.active = Max({0, @ - 1})]
  /\ UNCHANGED <<settings, paused, relayers, validators, proofs, voted, volume, now>>

Refund(id) ==
  /\ deposits[id].status = "Pending" /\ now > deposits[id].expires
  /\ deposits' = [deposits EXCEPT ![id].status = "Refunded"]
  /\ stats' = [stats EXCEPT !.refunded = @ + deposits[id].amount, !.active = Max({0, @ - 1})]
  /\ UNCHANGED <<settings, paused, relayers, validators, proofs, voted, volume, now>>

\* The first vote fixes the hash, the vote that reaches the quorum of the moment
\* closes the proof.
SubmitProof(v, id, h) ==
  LET old == IF proofs[id] = None THEN [hash |-> h, count |-> 0, status |-> "Pending"]
             ELSE proofs[id]
  IN /\ ~paused /\ v \in validators /\ v \notin voted[id]
     /\ old.status = "Pending" /\ (old.count > 0 => old.hash = h)
     /\ voted' = [voted EXCEPT ![id] = @ \cup {v}]
     /\ proofs' = [proofs EXCEPT
          ![id] = [old EXCEPT !.count = @ + 1,
                              !.status = IF old.count + 1 >= settings.quorum THEN "Verified"
                                         ELSE "Pending"]]
     /\ UNCHANGED <<settings, paused, relayers, validators, deposits, stats, volume, now>>

Next ==
  \/ Tick
  \/ \E fee \in Fee, e \in Expiry, limit \in Limit : Initialize(fee, e, limit)
  \/ \E fee \in Fee : SetFee(fee)
  \/ \E e \in Expiry : SetExpiry(e)
  \/ \E limit \in Limit : SetDailyLimit(limit)
  \/ \E q \in Quorum : SetValidatorQuorum(q)
  \/ \E b \in BOOLEAN : \/ SetPaused(b)
                        \/ \E r \in Relayer : SetRelayer(r, b)
                        \/ \E v \in Validator : SetValidator(v, b)
  \/ \E n \in Amount : Lock(n)
  \/ \E id \in DOMAIN deposits :
       \/ ConfirmMint(id) \/ ConfirmMintWithProof(id) \/ Refund(id)
       \/ \E v \in Validator, h \in Hash : SubmitProof(v, id, h)

Spec == Init /\ [][Next]_vars

-----------------------------------------------------------------------------
(* Properties *)

PendingIds == {id \in DOMAIN deposits : deposits[id].status = "Pending"}
Total(f, S) == MapThenSumSet(LAMBDA x : f[x], S)

\* The totals account for every deposit: what was locked was minted, refunded or
\* is pending, and no count ran past a saturating subtraction.
DepositsAccounted ==
  /\ stats.locked = stats.minted + stats.refunded
                      + Total([id \in DOMAIN deposits |-> deposits[id].amount], PendingIds)
  /\ stats.active = Cardinality(PendingIds)

\* The count of a proof is the number of validators who voted for it, and a
\* proof of only some votes is verified only if the quorum was as low once.
VotesCounted ==
  \A id \in DOMAIN proofs :
    IF proofs[id] = None THEN voted[id] = {}
    ELSE proofs[id].count = Cardinality(voted[id]) /\ proofs[id].count >= 1

\* A deposit is minted or refunded once, never both: it is minted no later than
\* it expires and refunded only later, whatever the settings become.
EndsOnce ==
  \A id \in DOMAIN deposits :
    /\ deposits[id].status # "Pending" => deposits'[id] = deposits[id]
    /\ deposits'[id].expires = deposits[id].expires
    /\ deposits'[id].status = "Refunded" /\ deposits[id].status = "Pending"
         => now > deposits[id].expires
=============================================================================
