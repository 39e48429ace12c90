--------------------------- MODULE ContractsProofs ---------------------------
(***************************************************************************)
(* Safety of contracts, for every value of their constants: what they hold  *)
(* and count agrees with their records, and what has ended stays so.  A     *)
(* theorem is about one contract; constants and variables of the same name  *)
(* in several contracts are declared once.                                  *)
(***************************************************************************)
EXTENDS Sums, Sequences, SequenceTheorems

CONSTANTS Token, Amount, MinLock, MaxLock, MaxMilestones, MaxEscrows, MaxSwaps,
          MaxTime,
          Relayer, Validator, Hash, Bps, Day, Fee, Expiry, Limit, Quorum, MaxDeposits,
          Contract, Donor, Administrator, Goal, Target, Count, MaxCampaigns,
          MaxDonations, MaxAllocated, Address, Timelock, TxExpiry, Threshold,
          MaxTxs, MaxHeld,
          Bettor, Oracle, Outcome, Prefix, Odds, FeeBps, MaxOracles, Schedule,
          MaxMarkets, MaxPool,
          User, Scale, Price, Ceiling, Cooldown, MaxSupply, MaxFees, MaxReserve,
          MaxDeposited, MaxScore, Lender, Terms, MaxLoans,
          Vault, Config, Total, Weight, MaxBid, MaxAssets, MaxHolding, MaxIncome, MaxWeights,
          Value, Staleness, MaxAge, Premium, Coverage, Term, Person, Window, MinVotes,
          MaxProducts, MaxPolicies, MaxClaims,
          Writer, Margin, MinMargin, Payout, Deposit, MaxOptions, MaxBalance

VARIABLES initialized, escrows, analytics, swaps, stats, held, now,
          settings, paused, relayers, validators, deposits, proofs, voted, volume,
          count, campaigns, milestones, donations, impact, votes,
          threshold, role, signerCount, txs, approved, oracles, markets,
          coin, psm, positions, deposited, borrowed, badDebt, loans, principals,
          config, sale, owner, shares, allowance, supply, proceeds, auction, assets,
          configured, oracle, reading, products, policies, reserved, claims,
          price, options, accounts

Escrow == INSTANCE Escrow
Bridge == INSTANCE CrossChainBridge
Treasury == INSTANCE Treasuries WITH Expiry <- TxExpiry
Sports == INSTANCE SportsBetting
Stablecoin == INSTANCE Stablecoin
Credit == INSTANCE Credit
Fractional == INSTANCE NftFractional WITH status <- sale
Insurance == INSTANCE ParametricInsurance
Option == INSTANCE OptionsProtocol
-----------------------------------------------------------------------------
(* Escrow: atomic swaps *)

\* Calls with an amount that is not positive are refused.
EscrowAssumption ==
  /\ Amount \subseteq Nat \ {0}
  /\ MaxTime \in Nat /\ MaxLock \in Nat /\ MaxMilestones \in Nat

SwapStatus == {"AwaitingCounterparty", "Funded", "Claimed", "Refunded", "Cancelled"}
Swap == {s \in [offered : Token, offer : Amount, requested : Token, request : Amount,
               expires : Nat, status : SwapStatus] : s.offered # s.requested}

Offers(s) == [id \in DOMAIN s |-> s[id].offer]
Requests(s) == [id \in DOMAIN s |-> s[id].request]
Offering(s, t) == {id \in DOMAIN s : s[id].status \in Escrow!Live /\ s[id].offered = t}
Requesting(s, t) == {id \in DOMAIN s : s[id].status \in {"Funded"} /\ s[id].requested = t}
Owed(s, t) == SumOf(Offers(s), Offering(s, t)) + SumOf(Requests(s), Requesting(s, t))
LiveSwaps(s) == {id \in DOMAIN s : s[id].status \in Escrow!Live}

SwapStats == [total : Int, active : Int, claimed : Int, refunded : Int, cancelled : Int]

SwapsTypes ==
  /\ swaps \in Seq(Swap) /\ held \in [Token -> Int]
  /\ stats \in SwapStats

SwapsInv ==
  /\ SwapsTypes
  /\ \A t \in Token : held[t] = Owed(swaps, t)
  /\ stats.active = Cardinality(LiveSwaps(swaps))
  /\ stats.total = stats.active + stats.claimed + stats.refunded + stats.cancelled

\* The sums of the contract are those of the module Sums.
LEMMA EscrowTotal == \A w, S : Escrow!Total(w, S) = SumOf(w, S)
  BY DEF Escrow!Total, Escrow!MapThenSumSet, Escrow!MapThenFoldSet, SumOf,
     MapThenSumSet, MapThenFoldSet

LEMMA EscrowCardinality == \A S : Escrow!Cardinality(S) = Cardinality(S)
  BY DEF Escrow!Cardinality, Cardinality

\* Swaps that can be summed.
SwapTable(s) ==
  /\ IsFiniteSet(DOMAIN s)
  /\ \A id \in DOMAIN s : s[id].offer \in Int /\ s[id].request \in Int

LEMMA SwapTables ==
  ASSUME EscrowAssumption, NEW s \in Seq(Swap)
  PROVE  SwapTable(s)
<1>1. DOMAIN s = 1..Len(s) /\ Len(s) \in Nat
  OBVIOUS
<1>2. IsFiniteSet(DOMAIN s)
  BY <1>1, FS_Interval
<1>3. ASSUME NEW id \in DOMAIN s PROVE s[id].offer \in Int /\ s[id].request \in Int
  <2>1. s[id] \in Swap
    OBVIOUS
  <2>2. s[id].offer \in Amount /\ s[id].request \in Amount
    BY <2>1 DEF Swap
  <2>3. \A n \in Amount : n \in Int
    BY DEF EscrowAssumption
  <2> QED BY <2>2, <2>3, Zenon
<1> QED BY <1>2, <1>3 DEF SwapTable

LEMMA SwapSets ==
  ASSUME NEW s, NEW t, SwapTable(s)
  PROVE  /\ IsFiniteSet(Offering(s, t)) /\ IsFiniteSet(Requesting(s, t))
         /\ IsFiniteSet(LiveSwaps(s))
         /\ \A id \in DOMAIN s : Offers(s)[id] \in Int /\ Requests(s)[id] \in Int
  BY FS_Subset DEF SwapTable, Offering, Requesting, LiveSwaps, Offers, Requests

\* Two tables are the same but for one entry.
OneDiffers(s, r, id) ==
  /\ \A k : k # id => (k \in DOMAIN s <=> k \in DOMAIN r)
  /\ \A k \in DOMAIN s : k # id => r[k] = s[k]

\* What one swap adds to what is owed.
OfferPart(s, id, t) == PartOf(Offers(s), Offering(s, t), id)
RequestPart(s, id, t) == PartOf(Requests(s), Requesting(s, t), id)
LivePart(s, id) == IF id \in LiveSwaps(s) THEN 1 ELSE 0

\* One swap is new or changes: what is owed changes by its part.
LEMMA OwedMoves ==
  ASSUME NEW s, NEW r, NEW id, NEW t, SwapTable(s), SwapTable(r), OneDiffers(s, r, id)
  PROVE  /\ Owed(s, t) \in Int
         /\ Owed(r, t) = Owed(s, t) + (OfferPart(r, id, t) - OfferPart(s, id, t))
                                    + (RequestPart(r, id, t) - RequestPart(s, id, t))
<1>1. /\ \A k : k # id => (k \in Offering(s, t) <=> k \in Offering(r, t))
      /\ \A k : k # id => (k \in Requesting(s, t) <=> k \in Requesting(r, t))
  BY DEF Offering, Requesting, OneDiffers
<1>2. /\ Offering(s, t) \subseteq DOMAIN s /\ Requesting(s, t) \subseteq DOMAIN s
      /\ Offering(r, t) \subseteq DOMAIN r /\ Requesting(r, t) \subseteq DOMAIN r
  BY DEF Offering, Requesting
<1>3. \A k \in DOMAIN s : k # id => Offers(r)[k] = Offers(s)[k] /\ Requests(r)[k] = Requests(s)[k]
  BY DEF Offers, Requests, OneDiffers
<1>4. /\ \A k \in DOMAIN s : Offers(s)[k] \in Int /\ Requests(s)[k] \in Int
      /\ \A k \in DOMAIN r : Offers(r)[k] \in Int /\ Requests(r)[k] \in Int
  BY SwapSets
<1>5. IsFiniteSet(Offering(s, t)) /\ IsFiniteSet(Requesting(s, t))
  BY SwapSets
<1>6. /\ SumOf(Offers(s), Offering(s, t)) \in Int
      /\ OfferPart(s, id, t) \in Int /\ OfferPart(r, id, t) \in Int
      /\ SumOf(Offers(r), Offering(r, t)) = SumOf(Offers(s), Offering(s, t))
           + (OfferPart(r, id, t) - OfferPart(s, id, t))
  <2>1. Moves(Offers(s), Offers(r), Offering(s, t), Offering(r, t), id)
    BY <1>1, <1>2, <1>3, <1>4, <1>5 DEF Moves
  <2> QED BY <2>1, SumMoves DEF OfferPart
<1>7. /\ SumOf(Requests(s), Requesting(s, t)) \in Int
      /\ RequestPart(s, id, t) \in Int /\ RequestPart(r, id, t) \in Int
      /\ SumOf(Requests(r), Requesting(r, t)) = SumOf(Requests(s), Requesting(s, t))
           + (RequestPart(r, id, t) - RequestPart(s, id, t))
  <2>1. Moves(Requests(s), Requests(r), Requesting(s, t), Requesting(r, t), id)
    BY <1>1, <1>2, <1>3, <1>4, <1>5 DEF Moves
  <2> QED BY <2>1, SumMoves DEF RequestPart
<1> QED BY <1>6, <1>7 DEF Owed

LEMMA LiveMoves ==
  ASSUME NEW s, NEW r, NEW id, SwapTable(s), OneDiffers(s, r, id)
  PROVE  /\ Cardinality(LiveSwaps(s)) \in Nat
         /\ Cardinality(LiveSwaps(r))
              = Cardinality(LiveSwaps(s)) + (LivePart(r, id) - LivePart(s, id))
<1>1. \A k : k # id => (k \in LiveSwaps(s) <=> k \in LiveSwaps(r))
  BY DEF LiveSwaps, OneDiffers
<1>2. IsFiniteSet(LiveSwaps(s))
  BY SwapSets
<1>3. /\ Cardinality(LiveSwaps(s)) \in Nat
      /\ Cardinality(LiveSwaps(r)) = Cardinality(LiveSwaps(s))
           - (IF id \in LiveSwaps(s) THEN 1 ELSE 0)
           + (IF id \in LiveSwaps(r) THEN 1 ELSE 0)
  BY <1>1, <1>2, CardinalityMoves
<1> QED BY <1>3 DEF LivePart

LEMMA SwapsStart == ASSUME EscrowAssumption, Escrow!Init PROVE SwapsInv
<1>1. swaps = <<>> /\ held = [t \in Token |-> 0]
  BY DEF Escrow!Init
<1>2. LiveSwaps(swaps) = {} /\ \A t : Offering(swaps, t) = {} /\ Requesting(swaps, t) = {}
  BY <1>1 DEF LiveSwaps, Offering, Requesting
<1>3. Cardinality(LiveSwaps(swaps)) = 0 /\ \A t : Owed(swaps, t) = 0
  <2>1. Cardinality(LiveSwaps(swaps)) = 0
    BY <1>2, FS_EmptySet
  <2>2. \A t : SumOf(Offers(swaps), Offering(swaps, t)) = 0
    BY <1>2, SumEmpty
  <2>3. \A t : SumOf(Requests(swaps), Requesting(swaps, t)) = 0
    BY <1>2, SumEmpty
  <2> QED BY <2>1, <2>2, <2>3 DEF Owed
<1> QED BY <1>1, <1>3 DEF SwapsInv, SwapsTypes, SwapStats, Escrow!Init, Escrow!NoStats

\* What a swap adds, in terms of its record.
LEMMA Parts ==
  ASSUME EscrowAssumption, NEW s \in Seq(Swap), NEW id, NEW t
  PROVE  /\ id \notin DOMAIN s =>
              OfferPart(s, id, t) = 0 /\ RequestPart(s, id, t) = 0 /\ LivePart(s, id) = 0
         /\ id \in DOMAIN s =>
              /\ s[id] \in Swap /\ s[id].offer \in Int /\ s[id].request \in Int
              /\ OfferPart(s, id, t) =
                   IF s[id].status \in {"AwaitingCounterparty", "Funded"} /\ s[id].offered = t
                   THEN s[id].offer ELSE 0
              /\ RequestPart(s, id, t) =
                   IF s[id].status = "Funded" /\ s[id].requested = t
                   THEN s[id].request ELSE 0
              /\ LivePart(s, id) =
                   IF s[id].status \in {"AwaitingCounterparty", "Funded"} THEN 1 ELSE 0
<1>1. id \in DOMAIN s => s[id] \in Swap /\ s[id].offer \in Int /\ s[id].request \in Int
  BY SwapTables DEF SwapTable
<1>2. /\ id \in Offering(s, t) <=>
           id \in DOMAIN s /\ s[id].status \in {"AwaitingCounterparty", "Funded"} /\ s[id].offered = t
      /\ id \in Requesting(s, t) <=>
           id \in DOMAIN s /\ s[id].status = "Funded" /\ s[id].requested = t
      /\ id \in LiveSwaps(s) <=>
           id \in DOMAIN s /\ s[id].status \in {"AwaitingCounterparty", "Funded"}
  BY DEF Offering, Requesting, LiveSwaps, Escrow!Live
<1>3. id \in DOMAIN s => Offers(s)[id] = s[id].offer /\ Requests(s)[id] = s[id].request
  BY DEF Offers, Requests
<1> QED BY <1>1, <1>2, <1>3 DEF OfferPart, RequestPart, LivePart, PartOf


Unsettled(x) == x.total - (x.claimed + x.refunded + x.cancelled)

LEMMA UnsettledAreLive ==
  ASSUME NEW x \in SwapStats
  PROVE  /\ Unsettled(x) \in Int /\ x.active \in Int
         /\ x.total = x.active + x.claimed + x.refunded + x.cancelled
              <=> x.active = Unsettled(x)
<1>1. /\ x.total \in Int /\ x.active \in Int /\ x.claimed \in Int
      /\ x.refunded \in Int /\ x.cancelled \in Int
  BY DEF SwapStats
<1> QED BY <1>1 DEF Unsettled

\* Two ways to count: a new live swap, and one that leaves the live ones.
LEMMA StatsGrow ==
  ASSUME NEW x \in SwapStats, NEW y, y = [x EXCEPT !.total = @ + 1, !.active = @ + 1]
  PROVE  y \in SwapStats /\ y.active = x.active + 1 /\ Unsettled(y) = Unsettled(x) + 1
<1>1. /\ x.total \in Int /\ x.active \in Int /\ x.claimed \in Int
      /\ x.refunded \in Int /\ x.cancelled \in Int
      /\ x.total + 1 \in Int /\ x.active + 1 \in Int /\ x.active - 1 \in Int
      /\ x.claimed + 1 \in Int /\ x.refunded + 1 \in Int /\ x.cancelled + 1 \in Int
  BY DEF SwapStats
<1>2. y \in SwapStats
  BY <1>1 DEF SwapStats
<1>3. /\ y.total = x.total + 1 /\ y.active = x.active + 1 /\ y.claimed = x.claimed
      /\ y.refunded = x.refunded /\ y.cancelled = x.cancelled
  BY DEF SwapStats
<1> QED BY <1>1, <1>2, <1>3 DEF Unsettled

OneSettled(x, y) ==
  \/ y = [x EXCEPT !.active = @ - 1, !.claimed = @ + 1]
  \/ y = [x EXCEPT !.active = @ - 1, !.refunded = @ + 1]
  \/ y = [x EXCEPT !.active = @ - 1, !.cancelled = @ + 1]

LEMMA StatsSettle ==
  ASSUME NEW x \in SwapStats, NEW y, OneSettled(x, y)
  PROVE  y \in SwapStats /\ y.active = x.active - 1 /\ Unsettled(y) = Unsettled(x) - 1
<1>1. /\ x.total \in Int /\ x.active \in Int /\ x.claimed \in Int
      /\ x.refunded \in Int /\ x.cancelled \in Int
      /\ x.total + 1 \in Int /\ x.active + 1 \in Int /\ x.active - 1 \in Int
      /\ x.claimed + 1 \in Int /\ x.refunded + 1 \in Int /\ x.cancelled + 1 \in Int
  BY DEF SwapStats
<1>2. CASE y = [x EXCEPT !.active = @ - 1, !.claimed = @ + 1]
  <2>1. y \in SwapStats
    BY <1>1, <1>2 DEF SwapStats
  <2>2. /\ y.total = x.total /\ y.active = x.active - 1
        /\ y.claimed = x.claimed + 1 /\ y.refunded = x.refunded /\ y.cancelled = x.cancelled
    BY <1>2 DEF SwapStats
  <2> QED BY <1>1, <2>1, <2>2 DEF Unsettled
<1>3. CASE y = [x EXCEPT !.active = @ - 1, !.refunded = @ + 1]
  <2>1. y \in SwapStats
    BY <1>1, <1>3 DEF SwapStats
  <2>2. /\ y.total = x.total /\ y.active = x.active - 1
        /\ y.claimed = x.claimed /\ y.refunded = x.refunded + 1 /\ y.cancelled = x.cancelled
    BY <1>3 DEF SwapStats
  <2> QED BY <1>1, <2>1, <2>2 DEF Unsettled
<1>4. CASE y = [x EXCEPT !.active = @ - 1, !.cancelled = @ + 1]
  <2>1. y \in SwapStats
    BY <1>1, <1>4 DEF SwapStats
  <2>2. /\ y.total = x.total /\ y.active = x.active - 1
        /\ y.claimed = x.claimed /\ y.refunded = x.refunded /\ y.cancelled = x.cancelled + 1
    BY <1>4 DEF SwapStats
  <2> QED BY <1>1, <2>1, <2>2 DEF Unsettled
<1> QED BY <1>2, <1>3, <1>4 DEF OneSettled

\* The tokens held and the number of live swaps follow one swap.
LEMMA OneSwapMoves ==
  ASSUME EscrowAssumption, SwapsInv, SwapsTypes', NEW id, OneDiffers(swaps, swaps', id),
         \A t \in Token :
           held'[t] = held[t] + (OfferPart(swaps', id, t) - OfferPart(swaps, id, t))
                              + (RequestPart(swaps', id, t) - RequestPart(swaps, id, t)),
         stats'.active = stats.active + (LivePart(swaps', id) - LivePart(swaps, id)),
         Unsettled(stats') = Unsettled(stats) + (LivePart(swaps', id) - LivePart(swaps, id))
  PROVE  SwapsInv'
<1>1. SwapTable(swaps) /\ SwapTable(swaps')
  BY SwapTables DEF SwapsInv, SwapsTypes
<1>2. \A t \in Token : held'[t] = Owed(swaps', t)
  BY <1>1, OwedMoves DEF SwapsInv
<1>3. stats'.active = Cardinality(LiveSwaps(swaps'))
  BY <1>1, LiveMoves DEF SwapsInv
<1>4. stats \in SwapStats /\ stats' \in SwapStats
  BY DEF SwapsInv, SwapsTypes
<1>5. stats.active = Unsettled(stats)
  BY <1>4, UnsettledAreLive DEF SwapsInv
<1>6. stats'.active = Unsettled(stats')
  BY <1>5
<1>7. stats'.total = stats'.active + stats'.claimed + stats'.refunded + stats'.cancelled
  BY <1>4, <1>6, UnsettledAreLive
<1> QED BY <1>2, <1>3, <1>7 DEF SwapsInv

LEMMA CreateSwap ==
  ASSUME EscrowAssumption, SwapsInv,
         NEW o \in Token, NEW a \in Amount, NEW q \in Token, NEW b \in Amount,
         NEW e \in 0..(MaxTime + MaxLock), Escrow!CreateAtomicSwap(o, a, q, b, e)
  PROVE  SwapsInv'
<1> DEFINE id == Len(swaps) + 1
           new == [offered |-> o, offer |-> a, requested |-> q, request |-> b,
                   expires |-> e, status |-> "AwaitingCounterparty"]
<1>1. swaps' = Append(swaps, new)
  BY DEF Escrow!CreateAtomicSwap
<1>2. new \in Swap
  <2>1. e \in Nat /\ o # q
    BY DEF EscrowAssumption, Escrow!CreateAtomicSwap
  <2> QED BY <2>1 DEF Swap, SwapStatus
<1>3. swaps \in Seq(Swap) /\ held \in [Token -> Int]
  BY DEF SwapsInv, SwapsTypes
<1>4. swaps' \in Seq(Swap) /\ id \notin DOMAIN swaps /\ id \in DOMAIN swaps' /\ swaps'[id] = new
  BY <1>1, <1>2, <1>3
<1>5. OneDiffers(swaps, swaps', id)
  BY <1>1, <1>2, <1>3 DEF OneDiffers
<1>6. stats' = [stats EXCEPT !.total = @ + 1, !.active = @ + 1]
  BY DEF Escrow!CreateAtomicSwap
<1>7. held' = [held EXCEPT ![o] = @ + a] /\ a \in Int
  BY DEF Escrow!CreateAtomicSwap, EscrowAssumption
<1>8. SwapsTypes' /\ stats'.active = stats.active + 1 /\ Unsettled(stats') = Unsettled(stats) + 1
  <2>1. stats \in SwapStats
    BY DEF SwapsInv, SwapsTypes
  <2>2. /\ stats' \in SwapStats /\ stats'.active = stats.active + 1
        /\ Unsettled(stats') = Unsettled(stats) + 1
    BY <1>6, <2>1, StatsGrow
  <2>3. held' \in [Token -> Int]
    BY <1>3, <1>7
  <2> QED BY <1>4, <2>2, <2>3 DEF SwapsTypes
<1>9. new.status = "AwaitingCounterparty" /\ new.offered = o /\ new.offer = a
  OBVIOUS
<1> HIDE DEF new, id
<1>10. \A t \in Token :
         held'[t] = held[t] + (OfferPart(swaps', id, t) - OfferPart(swaps, id, t))
                            + (RequestPart(swaps', id, t) - RequestPart(swaps, id, t))
  <2> TAKE t \in Token
  <2>1. OfferPart(swaps, id, t) = 0 /\ RequestPart(swaps, id, t) = 0
    BY <1>3, <1>4, Parts
  <2>2. OfferPart(swaps', id, t) = IF o = t THEN a ELSE 0
    BY <1>4, <1>9, Parts
  <2>3. RequestPart(swaps', id, t) = 0
    BY <1>4, <1>9, Parts
  <2>4. held[t] \in Int /\ held'[t] = IF o = t THEN held[t] + a ELSE held[t]
    BY <1>3, <1>7
  <2> QED BY <1>7, <2>1, <2>2, <2>3, <2>4
<1>11. LivePart(swaps, id) = 0 /\ LivePart(swaps', id) = 1
  BY <1>3, <1>4, <1>9, Parts
<1> QED BY <1>5, <1>8, <1>10, <1>11, OneSwapMoves

\* A call that settles or funds one swap.
SettlesSwap(id, status) ==
  /\ id \in DOMAIN swaps
  /\ swaps' = [swaps EXCEPT ![id].status = status]

LEMMA StatusMoves ==
  ASSUME EscrowAssumption, SwapsInv, NEW id, NEW status \in SwapStatus,
         SettlesSwap(id, status)
  PROVE  /\ swaps' \in Seq(Swap) /\ OneDiffers(swaps, swaps', id)
         /\ id \in DOMAIN swaps' /\ swaps'[id].status = status
         /\ swaps'[id].offered = swaps[id].offered /\ swaps'[id].offer = swaps[id].offer
         /\ swaps'[id].requested = swaps[id].requested
         /\ swaps'[id].request = swaps[id].request
<1>1. swaps \in Seq(Swap) /\ id \in DOMAIN swaps
  BY DEF SwapsInv, SwapsTypes, SettlesSwap
<1>2. swaps[id] \in Swap
  BY <1>1
<1>3. swaps' = [swaps EXCEPT ![id] = [swaps[id] EXCEPT !.status = status]]
  BY DEF SettlesSwap
<1>4. [swaps[id] EXCEPT !.status = status] \in Swap
  BY <1>2 DEF Swap
<1>5. swaps' \in Seq(Swap)
  BY <1>1, <1>3, <1>4
<1>6. DOMAIN swaps' = DOMAIN swaps /\ swaps'[id] = [swaps[id] EXCEPT !.status = status]
  BY <1>1, <1>3
<1>7. OneDiffers(swaps, swaps', id)
  BY <1>1, <1>3 DEF OneDiffers
<1> QED BY <1>1, <1>2, <1>5, <1>6, <1>7 DEF Swap

LEMMA FundSwap ==
  ASSUME EscrowAssumption, SwapsInv, NEW id \in DOMAIN swaps, Escrow!FundAtomicSwap(id)
  PROVE  SwapsInv'
<1>1. SettlesSwap(id, "Funded") /\ swaps[id].status = "AwaitingCounterparty" /\ stats' = stats
  BY DEF Escrow!FundAtomicSwap, SettlesSwap
<1>2. swaps \in Seq(Swap) /\ held \in [Token -> Int] /\ stats \in SwapStats
  BY DEF SwapsInv, SwapsTypes
<1>3. swaps[id] \in Swap
  BY <1>2
<1>4. swaps[id].requested \in Token /\ swaps[id].request \in Int
  BY <1>2, <1>3, Parts DEF Swap
<1>5. held' = [held EXCEPT ![swaps[id].requested] = @ + swaps[id].request]
  BY DEF Escrow!FundAtomicSwap
<1>6. SwapsTypes'
  BY <1>1, <1>2, <1>4, <1>5, StatusMoves DEF SwapsTypes, SwapStatus
<1>7. \A t \in Token :
         held'[t] = held[t] + (OfferPart(swaps', id, t) - OfferPart(swaps, id, t))
                            + (RequestPart(swaps', id, t) - RequestPart(swaps, id, t))
  <2> TAKE t \in Token
  <2>1. OfferPart(swaps', id, t) = OfferPart(swaps, id, t) /\ OfferPart(swaps, id, t) \in Int
    BY <1>1, <1>2, StatusMoves, Parts DEF SwapStatus
  <2>2. RequestPart(swaps, id, t) = 0
    BY <1>1, <1>2, Parts
  <2>3. RequestPart(swaps', id, t) = IF swaps[id].requested = t THEN swaps[id].request ELSE 0
    BY <1>1, <1>2, StatusMoves, Parts DEF SwapStatus
  <2>4. /\ held[t] \in Int
        /\ held'[t] = IF swaps[id].requested = t THEN held[t] + swaps[id].request ELSE held[t]
    BY <1>2, <1>4, <1>5
  <2> QED BY <1>4, <2>1, <2>2, <2>3, <2>4
<1>8. LivePart(swaps', id) = 1 /\ LivePart(swaps, id) = 1
  BY <1>1, <1>2, StatusMoves, Parts DEF SwapStatus
<1>9. /\ stats'.active = stats.active + (LivePart(swaps', id) - LivePart(swaps, id))
      /\ Unsettled(stats') = Unsettled(stats) + (LivePart(swaps', id) - LivePart(swaps, id))
  <2>1. Unsettled(stats') = Unsettled(stats)
    BY <1>1
  <2> QED BY <1>1, <1>2, <1>8, <2>1, UnsettledAreLive
<1> QED BY <1>1, <1>6, <1>7, <1>9, StatusMoves, OneSwapMoves DEF SwapStatus

\* A swap that ends gives back what was held for it.
LEMMA SwapSettles ==
  ASSUME EscrowAssumption, SwapsInv,
         NEW id \in DOMAIN swaps, NEW status \in {"Claimed", "Refunded", "Cancelled"},
         SettlesSwap(id, status),
         swaps[id].status \in {"AwaitingCounterparty", "Funded"},
         OneSettled(stats, stats'), held' \in [Token -> Int],
         \A t \in Token :
           held'[t] = held[t] - OfferPart(swaps, id, t) - RequestPart(swaps, id, t)
  PROVE  SwapsInv'
<1>1. swaps \in Seq(Swap) /\ held \in [Token -> Int] /\ stats \in SwapStats
  BY DEF SwapsInv, SwapsTypes
<1>2. status \in SwapStatus
  BY DEF SwapStatus
<1>3. /\ swaps' \in Seq(Swap) /\ OneDiffers(swaps, swaps', id)
      /\ id \in DOMAIN swaps' /\ swaps'[id].status = status
  BY <1>2, StatusMoves
<1>4. SwapsTypes'
  BY <1>1, <1>3, StatsSettle DEF SwapsTypes
<1>5. \A t \in Token :
         held'[t] = held[t] + (OfferPart(swaps', id, t) - OfferPart(swaps, id, t))
                            + (RequestPart(swaps', id, t) - RequestPart(swaps, id, t))
  <2> TAKE t \in Token
  <2>1. OfferPart(swaps', id, t) = 0 /\ RequestPart(swaps', id, t) = 0
    BY <1>3, Parts
  <2>2. OfferPart(swaps, id, t) \in Int /\ RequestPart(swaps, id, t) \in Int
    BY <1>1, Parts
  <2>3. held[t] \in Int
    BY <1>1
  <2> QED BY <2>1, <2>2, <2>3
<1>6. LivePart(swaps', id) = 0 /\ LivePart(swaps, id) = 1
  BY <1>1, <1>3, Parts
<1>7. /\ stats'.active = stats.active + (LivePart(swaps', id) - LivePart(swaps, id))
      /\ Unsettled(stats') = Unsettled(stats) + (LivePart(swaps', id) - LivePart(swaps, id))
  BY <1>1, <1>6, StatsSettle, UnsettledAreLive
<1> QED BY <1>3, <1>4, <1>5, <1>7, OneSwapMoves

\* The tokens given back: one asset, or both.
LEMMA GivesBack ==
  ASSUME EscrowAssumption, SwapsInv, NEW id \in DOMAIN swaps,
         \/ /\ swaps[id].status = "Funded"
            /\ held' = [held EXCEPT ![swaps[id].offered] = @ - swaps[id].offer,
                                    ![swaps[id].requested] = @ - swaps[id].request]
         \/ /\ swaps[id].status = "AwaitingCounterparty"
            /\ held' = [held EXCEPT ![swaps[id].offered] = @ - swaps[id].offer]
  PROVE  /\ held' \in [Token -> Int]
         /\ \A t \in Token :
              held'[t] = held[t] - OfferPart(swaps, id, t) - RequestPart(swaps, id, t)
<1>1. swaps \in Seq(Swap) /\ held \in [Token -> Int]
  BY DEF SwapsInv, SwapsTypes
<1>2. swaps[id] \in Swap
  BY <1>1
<1> DEFINE o == swaps[id].offered
           a == swaps[id].offer
           q == swaps[id].requested
           b == swaps[id].request
<1>3. o \in Token /\ q \in Token /\ o # q
  BY <1>2 DEF Swap
<1>4. a \in Int /\ b \in Int
  BY <1>1, Parts
<1>5. \A t \in Token :
         /\ OfferPart(swaps, id, t) =
              IF swaps[id].status \in {"AwaitingCounterparty", "Funded"} /\ o = t THEN a ELSE 0
         /\ RequestPart(swaps, id, t) =
              IF swaps[id].status = "Funded" /\ q = t THEN b ELSE 0
  BY <1>1, Parts
<1> HIDE DEF o, a, q, b
<1>6. CASE /\ swaps[id].status = "Funded"
           /\ held' = [held EXCEPT ![o] = @ - a, ![q] = @ - b]
  <2>1. held' \in [Token -> Int]
    BY <1>1, <1>3, <1>4, <1>6
  <2>2. \A t \in Token : held'[t] = held[t] - (IF o = t THEN a ELSE 0) - (IF q = t THEN b ELSE 0)
    BY <1>1, <1>3, <1>4, <1>6
  <2> QED BY <1>5, <1>6, <2>1, <2>2
<1>7. CASE /\ swaps[id].status = "AwaitingCounterparty"
           /\ held' = [held EXCEPT ![o] = @ - a]
  <2>1. held' \in [Token -> Int]
    BY <1>1, <1>3, <1>4, <1>7
  <2>2. \A t \in Token : held'[t] = held[t] - (IF o = t THEN a ELSE 0) - 0
    BY <1>1, <1>3, <1>4, <1>7
  <2> QED BY <1>5, <1>7, <2>1, <2>2
<1> QED BY <1>6, <1>7 DEF o, a, q, b

LEMMA EndSwap ==
  ASSUME EscrowAssumption, SwapsInv, NEW id \in DOMAIN swaps,
         \/ Escrow!ClaimAtomicSwap(id) \/ Escrow!RefundAtomicSwap(id)
         \/ Escrow!CancelAtomicSwap(id)
  PROVE  SwapsInv'
<1>1. CASE Escrow!ClaimAtomicSwap(id)
  <2>1. SettlesSwap(id, "Claimed") /\ OneSettled(stats, stats') /\ swaps[id].status = "Funded"
    BY <1>1 DEF Escrow!ClaimAtomicSwap, SettlesSwap, OneSettled
  <2>2. held' = [held EXCEPT ![swaps[id].offered] = @ - swaps[id].offer,
                             ![swaps[id].requested] = @ - swaps[id].request]
    BY <1>1 DEF Escrow!ClaimAtomicSwap
  <2> QED BY <2>1, <2>2, GivesBack, SwapSettles
<1>2. CASE Escrow!RefundAtomicSwap(id)
  <2>1. /\ SettlesSwap(id, "Refunded") /\ OneSettled(stats, stats')
        /\ swaps[id].status \in {"AwaitingCounterparty", "Funded"}
    BY <1>2 DEF Escrow!RefundAtomicSwap, SettlesSwap, OneSettled, Escrow!Live
  <2>2. held' = IF swaps[id].status = "Funded"
          THEN [held EXCEPT ![swaps[id].offered] = @ - swaps[id].offer,
                             ![swaps[id].requested] = @ - swaps[id].request]
          ELSE [held EXCEPT ![swaps[id].offered] = @ - swaps[id].offer]
    BY <1>2 DEF Escrow!RefundAtomicSwap
  <2> QED BY <2>1, <2>2, GivesBack, SwapSettles
<1>3. CASE Escrow!CancelAtomicSwap(id)
  <2>1. /\ SettlesSwap(id, "Cancelled") /\ OneSettled(stats, stats')
        /\ swaps[id].status = "AwaitingCounterparty"
    BY <1>3 DEF Escrow!CancelAtomicSwap, SettlesSwap, OneSettled
  <2>2. held' = [held EXCEPT ![swaps[id].offered] = @ - swaps[id].offer]
    BY <1>3 DEF Escrow!CancelAtomicSwap
  <2> QED BY <2>1, <2>2, GivesBack, SwapSettles
<1> QED BY <1>1, <1>2, <1>3

LEMMA SwapsStep ==
  ASSUME EscrowAssumption, SwapsInv, [Escrow!Next]_Escrow!vars
  PROVE  SwapsInv'
<1>1. CASE UNCHANGED <<swaps, stats, held>>
  BY <1>1 DEF SwapsInv, SwapsTypes
<1>2. CASE Escrow!SwapCalls
  <2>1. ASSUME NEW s \in Token, NEW t \in Token, NEW a \in Amount, NEW b \in Amount,
               NEW e \in 0..(MaxTime + MaxLock), Escrow!CreateAtomicSwap(s, a, t, b, e)
        PROVE  SwapsInv'
    BY <2>1, CreateSwap
  <2>2. ASSUME NEW id \in DOMAIN swaps,
               \/ Escrow!FundAtomicSwap(id) \/ Escrow!ClaimAtomicSwap(id)
               \/ Escrow!RefundAtomicSwap(id) \/ Escrow!CancelAtomicSwap(id)
        PROVE  SwapsInv'
    BY <2>2, FundSwap, EndSwap
  <2> QED BY <1>2, <2>1, <2>2 DEF Escrow!SwapCalls
<1>3. CASE Escrow!EscrowCalls
  <2>1. UNCHANGED <<swaps, stats, held>>
    BY <1>3 DEF Escrow!EscrowCalls, Escrow!swapVars, Escrow!CreateEscrow, Escrow!Deposit,
       Escrow!Milestone, Escrow!SubmitMilestone, Escrow!ApproveMilestone,
       Escrow!RejectMilestone, Escrow!ReleasePayment, Escrow!RaiseDispute,
       Escrow!ResolveDispute, Escrow!CancelEscrow
  <2> QED BY <1>1, <2>1
<1>4. CASE Escrow!Initialize \/ Escrow!Tick \/ UNCHANGED Escrow!vars
  BY <1>1, <1>4 DEF Escrow!Initialize, Escrow!Tick, Escrow!vars, Escrow!swapVars
<1> QED BY <1>2, <1>3, <1>4 DEF Escrow!Next


-----------------------------------------------------------------------------
(* Escrow: milestones and their analytics *)

EscrowRecord ==
  {e \in [total : Nat, paid : Nat, status : Escrow!EscrowStatus,
          amount : Seq(Nat), milestone : Seq(Escrow!MilestoneStatus)] :
     DOMAIN e.milestone = DOMAIN e.amount}

Analytics == [total : Int, active : Int, completed : Int, disputed : Int,
              cancelled : Int, locked : Int, paidOut : Int]

Having(s, st) == {id \in DOMAIN s : s[id].status \in st}
Totals(s) == [id \in DOMAIN s |-> s[id].total]
Deposits(s, st) == SumOf(Totals(s), Having(s, st))

Running == {"Active", "Disputed"}
Deposited == {"Active", "Disputed", "Completed"}

\* What is locked covers the escrows that run, so no subtraction saturates.
EscrowsInv ==
  /\ escrows \in Seq(EscrowRecord) /\ analytics \in Analytics
  /\ analytics.total = Len(escrows)
  /\ analytics.active = Cardinality(Having(escrows, {"Active"}))
  /\ analytics.completed = Cardinality(Having(escrows, {"Completed"}))
  /\ analytics.cancelled = Cardinality(Having(escrows, {"Cancelled"}))
  /\ analytics.locked + analytics.paidOut = Deposits(escrows, Deposited)
  /\ analytics.locked >= Deposits(escrows, Running)

EscrowTable(s) == IsFiniteSet(DOMAIN s) /\ \A id \in DOMAIN s : s[id].total \in Nat

LEMMA EscrowTables == ASSUME NEW s \in Seq(EscrowRecord) PROVE EscrowTable(s)
<1>1. DOMAIN s = 1..Len(s) /\ Len(s) \in Nat
  OBVIOUS
<1>2. IsFiniteSet(DOMAIN s)
  BY <1>1, FS_Interval
<1>3. ASSUME NEW id \in DOMAIN s PROVE s[id].total \in Nat
  <2>1. s[id] \in EscrowRecord
    OBVIOUS
  <2> QED BY <2>1 DEF EscrowRecord
<1> QED BY <1>2, <1>3 DEF EscrowTable

CountPart(s, id, st) == IF id \in Having(s, st) THEN 1 ELSE 0
DepositPart(s, id, st) == PartOf(Totals(s), Having(s, st), id)

\* One escrow is new or changes: the counts and the deposits change by its part.
LEMMA CountMoves ==
  ASSUME NEW s, NEW r, NEW id, NEW st, EscrowTable(s), OneDiffers(s, r, id)
  PROVE  /\ Cardinality(Having(s, st)) \in Nat
         /\ CountPart(s, id, st) <= Cardinality(Having(s, st))
         /\ Cardinality(Having(r, st)) =
              Cardinality(Having(s, st)) + (CountPart(r, id, st) - CountPart(s, id, st))
<1>1. \A k : k # id => (k \in Having(s, st) <=> k \in Having(r, st))
  BY DEF Having, OneDiffers
<1>2. IsFiniteSet(Having(s, st))
  BY FS_Subset DEF EscrowTable, Having
<1>3. /\ Cardinality(Having(s, st)) \in Nat
      /\ Cardinality(Having(r, st)) = Cardinality(Having(s, st))
           - (IF id \in Having(s, st) THEN 1 ELSE 0)
           + (IF id \in Having(r, st) THEN 1 ELSE 0)
  BY <1>1, <1>2, CardinalityMoves
<1>4. id \in Having(s, st) => Cardinality(Having(s, st)) # 0
  BY <1>2, FS_EmptySet
<1> QED BY <1>3, <1>4 DEF CountPart

LEMMA DepositsMove ==
  ASSUME NEW s, NEW r, NEW id, NEW st, EscrowTable(s), EscrowTable(r), OneDiffers(s, r, id)
  PROVE  /\ Deposits(s, st) \in Int
         /\ DepositPart(s, id, st) <= Deposits(s, st)
         /\ Deposits(r, st) =
              Deposits(s, st) + (DepositPart(r, id, st) - DepositPart(s, id, st))
<1>1. \A k : k # id => (k \in Having(s, st) <=> k \in Having(r, st))
  BY DEF Having, OneDiffers
<1>2. IsFiniteSet(Having(s, st)) /\ \A k \in Having(s, st) : Totals(s)[k] \in Nat
  BY FS_Subset DEF EscrowTable, Having, Totals
<1>3. \A k \in Having(r, st) : Totals(r)[k] \in Nat
  BY DEF EscrowTable, Having, Totals
<1>4. \A k \in Having(s, st) : k # id => Totals(r)[k] = Totals(s)[k]
  BY DEF Totals, Having, OneDiffers
<1>5. Moves(Totals(s), Totals(r), Having(s, st), Having(r, st), id)
  BY <1>1, <1>2, <1>3, <1>4 DEF Moves
<1>6. /\ Deposits(s, st) \in Int
      /\ Deposits(r, st) =
           Deposits(s, st) + (DepositPart(r, id, st) - DepositPart(s, id, st))
  BY <1>5, SumMoves DEF Deposits, DepositPart
<1>7. DepositPart(s, id, st) <= Deposits(s, st)
  <2>1. SumOf(Totals(s), {}) = 0 /\ 0 <= Deposits(s, st)
    BY <1>2, SumEmpty, SumMonotone DEF Deposits
  <2>2. CASE id \in Having(s, st)
    <3>1. SumOf(Totals(s), Having(s, st)) =
            Totals(s)[id] + SumOf(Totals(s), Having(s, st) \ {id})
      BY <1>2, <2>2, SumRemove
    <3>2. SumOf(Totals(s), Having(s, st) \ {id}) \in Nat
      BY <1>2, SumMonotone
    <3>3. DepositPart(s, id, st) = Totals(s)[id] /\ Totals(s)[id] \in Nat
      BY <1>2, <2>2 DEF DepositPart, PartOf
    <3> QED BY <3>1, <3>2, <3>3 DEF Deposits
  <2>3. CASE id \notin Having(s, st)
    BY <2>1, <2>3 DEF DepositPart, PartOf
  <2> QED BY <2>2, <2>3
<1> QED BY <1>6, <1>7

LEMMA EscrowParts ==
  ASSUME NEW s \in Seq(EscrowRecord), NEW id, NEW st
  PROVE  /\ id \notin DOMAIN s => CountPart(s, id, st) = 0 /\ DepositPart(s, id, st) = 0
         /\ id \in DOMAIN s =>
              /\ s[id] \in EscrowRecord /\ s[id].total \in Nat
              /\ CountPart(s, id, st) = IF s[id].status \in st THEN 1 ELSE 0
              /\ DepositPart(s, id, st) = IF s[id].status \in st THEN s[id].total ELSE 0
<1>1. id \in DOMAIN s => s[id].total \in Nat
  BY EscrowTables DEF EscrowTable
<1> QED BY <1>1 DEF CountPart, DepositPart, PartOf, Having, Totals

\* The analytics follow one escrow.
Follows(id) ==
  /\ analytics'.active = analytics.active
       + (CountPart(escrows', id, {"Active"}) - CountPart(escrows, id, {"Active"}))
  /\ analytics'.completed = analytics.completed
       + (CountPart(escrows', id, {"Completed"}) - CountPart(escrows, id, {"Completed"}))
  /\ analytics'.cancelled = analytics.cancelled
       + (CountPart(escrows', id, {"Cancelled"}) - CountPart(escrows, id, {"Cancelled"}))
  /\ analytics'.locked + analytics'.paidOut = (analytics.locked + analytics.paidOut)
       + (DepositPart(escrows', id, Deposited) - DepositPart(escrows, id, Deposited))
  /\ analytics'.locked - analytics.locked >=
       DepositPart(escrows', id, Running) - DepositPart(escrows, id, Running)

LEMMA OneEscrowMoves ==
  ASSUME EscrowsInv, NEW id, OneDiffers(escrows, escrows', id),
         escrows' \in Seq(EscrowRecord), analytics' \in Analytics,
         analytics'.total = Len(escrows'), Follows(id)
  PROVE  EscrowsInv'
<1>1. escrows \in Seq(EscrowRecord) /\ EscrowTable(escrows) /\ EscrowTable(escrows')
  BY EscrowTables DEF EscrowsInv
<1>2. /\ analytics'.active = Cardinality(Having(escrows', {"Active"}))
      /\ analytics'.completed = Cardinality(Having(escrows', {"Completed"}))
      /\ analytics'.cancelled = Cardinality(Having(escrows', {"Cancelled"}))
  BY <1>1, CountMoves DEF EscrowsInv, Follows
<1>3. analytics'.locked + analytics'.paidOut = Deposits(escrows', Deposited)
  BY <1>1, DepositsMove DEF EscrowsInv, Follows
<1>4. analytics'.locked >= Deposits(escrows', Running)
  <2>1. /\ analytics.locked \in Int /\ analytics'.locked \in Int
        /\ analytics.locked >= Deposits(escrows, Running)
        /\ analytics'.locked - analytics.locked >=
             DepositPart(escrows', id, Running) - DepositPart(escrows, id, Running)
    BY DEF EscrowsInv, Analytics, Follows
  <2>2. DepositPart(escrows', id, Running) \in Int /\ DepositPart(escrows, id, Running) \in Int
    <3>1. \A x : x \in DOMAIN escrows => escrows[x].total \in Int
      BY <1>1 DEF EscrowTable
    <3>2. \A x : x \in DOMAIN escrows' => escrows'[x].total \in Int
      BY <1>1 DEF EscrowTable
    <3> QED BY <1>1, <3>1, <3>2, EscrowParts
  <2>3. /\ Deposits(escrows, Running) \in Int
        /\ Deposits(escrows', Running) = Deposits(escrows, Running)
             + (DepositPart(escrows', id, Running) - DepositPart(escrows, id, Running))
    BY <1>1, DepositsMove
  <2> QED BY <2>1, <2>2, <2>3
<1> QED BY <1>2, <1>3, <1>4 DEF EscrowsInv

\* The escrow contract holds exactly the tokens of the atomic swaps that are
\* not settled: a claim, a refund or a cancellation never pays from another
\* swap (claim_atomic_swap, refund_atomic_swap, cancel_atomic_swap).
THEOREM SwapsStayBacked ==
  ASSUME EscrowAssumption
  PROVE  Escrow!Spec => []Escrow!SwapsBacked
<1>1. Escrow!Init => SwapsInv
  BY SwapsStart
<1>2. SwapsInv /\ [Escrow!Next]_Escrow!vars => SwapsInv'
  BY SwapsStep
<1>3. SwapsInv => Escrow!SwapsBacked
  BY EscrowTotal DEF SwapsInv, Owed, Offers, Requests, Offering, Requesting,
     Escrow!SwapsBacked, Escrow!SwapsWith
<1> QED BY <1>1, <1>2, <1>3, PTL DEF Escrow!Spec

LEMMA AnalyticsFields ==
  ASSUME NEW x \in Analytics
  PROVE  /\ x.total \in Int /\ x.active \in Int /\ x.completed \in Int /\ x.disputed \in Int
         /\ x.cancelled \in Int /\ x.locked \in Int /\ x.paidOut \in Int
  BY DEF Analytics

\* Analytics with new values in some fields.
Figures(x, total, active, completed, disputed, cancelled, locked, paidOut) ==
  x = [total |-> total, active |-> active, completed |-> completed,
       disputed |-> disputed, cancelled |-> cancelled, locked |-> locked,
       paidOut |-> paidOut]

\* An escrow takes a new record of the same total.
Becomes(id, e) ==
  /\ id \in DOMAIN escrows /\ e \in EscrowRecord /\ e.total = escrows[id].total
  /\ escrows' = [escrows EXCEPT ![id] = e]

LEMMA EscrowBecomes ==
  ASSUME EscrowsInv, NEW id, NEW e, Becomes(id, e)
  PROVE  /\ escrows' \in Seq(EscrowRecord) /\ OneDiffers(escrows, escrows', id)
         /\ Len(escrows') = Len(escrows) /\ escrows[id].total \in Nat
         /\ \A st :
              /\ CountPart(escrows, id, st) = IF escrows[id].status \in st THEN 1 ELSE 0
              /\ CountPart(escrows', id, st) = IF e.status \in st THEN 1 ELSE 0
              /\ DepositPart(escrows, id, st) =
                   IF escrows[id].status \in st THEN escrows[id].total ELSE 0
              /\ DepositPart(escrows', id, st) =
                   IF e.status \in st THEN escrows[id].total ELSE 0
<1>1. escrows \in Seq(EscrowRecord) /\ id \in DOMAIN escrows /\ e \in EscrowRecord
  BY DEF EscrowsInv, Becomes
<1>2. /\ escrows' \in Seq(EscrowRecord) /\ Len(escrows') = Len(escrows)
      /\ id \in DOMAIN escrows' /\ escrows'[id] = e
  BY <1>1 DEF Becomes
<1>3. OneDiffers(escrows, escrows', id)
  BY <1>1 DEF OneDiffers, Becomes
<1> QED BY <1>1, <1>2, <1>3, EscrowParts DEF Becomes

\* What is there to subtract from.
LEMMA Covered ==
  ASSUME EscrowsInv, NEW id, NEW e, Becomes(id, e)
  PROVE  /\ escrows[id].status = "Active" => analytics.active >= 1
         /\ escrows[id].status \in Running => analytics.locked >= escrows[id].total
<1>1. /\ escrows \in Seq(EscrowRecord) /\ EscrowTable(escrows)
      /\ EscrowTable(escrows') /\ OneDiffers(escrows, escrows', id)
  BY EscrowBecomes, EscrowTables DEF EscrowsInv
<1>2. /\ CountPart(escrows, id, {"Active"}) <= analytics.active
      /\ analytics.active \in Nat
  <2>1. /\ CountPart(escrows, id, {"Active"}) <= Cardinality(Having(escrows, {"Active"}))
        /\ Cardinality(Having(escrows, {"Active"})) \in Nat
    BY <1>1, CountMoves
  <2> QED BY <2>1 DEF EscrowsInv
<1>3. /\ DepositPart(escrows, id, Running) <= Deposits(escrows, Running)
      /\ Deposits(escrows, Running) \in Int
  BY <1>1, DepositsMove
<1>4. analytics.locked >= Deposits(escrows, Running) /\ analytics.locked \in Int
  BY AnalyticsFields DEF EscrowsInv
<1>5. escrows[id].total \in Nat
  BY EscrowBecomes
<1>6. escrows[id].status = "Active" => CountPart(escrows, id, {"Active"}) = 1
  BY EscrowBecomes
<1>7. escrows[id].status \in Running => DepositPart(escrows, id, Running) = escrows[id].total
  BY EscrowBecomes
<1> QED BY <1>2, <1>3, <1>4, <1>5, <1>6, <1>7

LEMMA EntryTyped ==
  ASSUME NEW S, NEW q \in Seq(S), NEW i, NEW v \in S
  PROVE  /\ [q EXCEPT ![i] = v] \in Seq(S)
         /\ DOMAIN [q EXCEPT ![i] = v] = DOMAIN q
<1>1. CASE i \in DOMAIN q
  BY <1>1
<1>2. CASE i \notin DOMAIN q
  <2>1. [q EXCEPT ![i] = v] = q
    BY <1>2
  <2> QED BY <2>1
<1> QED BY <1>1, <1>2

LEMMA DepositStep ==
  ASSUME EscrowsInv, NEW id \in DOMAIN escrows, Escrow!Deposit(id)
  PROVE  EscrowsInv'
<1> DEFINE old == escrows[id]
           e == [old EXCEPT !.status = "Active", !.milestone = [@ EXCEPT ![1] = "InProgress"]]
<1>1. escrows \in Seq(EscrowRecord) /\ old \in EscrowRecord /\ analytics \in Analytics
  BY DEF EscrowsInv
<1>2. old.status = "Pending"
  BY DEF Escrow!Deposit
<1>3. e \in EscrowRecord /\ e.total = old.total /\ e.status = "Active"
  <2>1. old.milestone \in Seq(Escrow!MilestoneStatus)
    BY <1>1 DEF EscrowRecord
  <2>2. "InProgress" \in Escrow!MilestoneStatus
    BY DEF Escrow!MilestoneStatus
  <2> DEFINE marks == [old.milestone EXCEPT ![1] = "InProgress"]
  <2>3. marks \in Seq(Escrow!MilestoneStatus) /\ DOMAIN marks = DOMAIN old.milestone
    BY <2>1, <2>2, EntryTyped
  <2> HIDE DEF marks
  <2>4. e = [old EXCEPT !.status = "Active", !.milestone = marks]
    BY DEF marks
  <2> HIDE DEF e
  <2> QED BY <1>1, <2>3, <2>4 DEF EscrowRecord, Escrow!EscrowStatus
<1>4. escrows' = [escrows EXCEPT ![id] = e]
  BY <1>1 DEF Escrow!Deposit
<1>5. Becomes(id, e)
  BY <1>3, <1>4 DEF Becomes
<1>6. /\ analytics.total = Len(escrows) /\ old.total \in Int
      /\ analytics' = [analytics EXCEPT !.active = @ + 1, !.locked = @ + old.total]
  BY <1>5, EscrowBecomes DEF EscrowsInv, Escrow!Deposit
<1> HIDE DEF old, e
<1>7. /\ analytics'.active = analytics.active + 1
      /\ analytics'.locked = analytics.locked + old.total
      /\ analytics'.total = analytics.total /\ analytics'.completed = analytics.completed
      /\ analytics'.cancelled = analytics.cancelled /\ analytics'.paidOut = analytics.paidOut
  BY <1>1, <1>6 DEF Analytics
<1>8. analytics' \in Analytics
  <2>1. analytics.active + 1 \in Int /\ analytics.locked + old.total \in Int
    BY <1>1, <1>6, AnalyticsFields
  <2> QED BY <1>1, <1>6, <2>1 DEF Analytics
<1>9. Follows(id)
  <2>1. /\ analytics.active \in Int /\ analytics.completed \in Int /\ analytics.cancelled \in Int
        /\ analytics.locked \in Int /\ analytics.paidOut \in Int
    BY <1>1, AnalyticsFields
  <2>2. /\ \A st : /\ CountPart(escrows, id, st) = IF "Pending" \in st THEN 1 ELSE 0
                   /\ CountPart(escrows', id, st) = IF "Active" \in st THEN 1 ELSE 0
                   /\ DepositPart(escrows, id, st) = IF "Pending" \in st THEN old.total ELSE 0
                   /\ DepositPart(escrows', id, st) = IF "Active" \in st THEN old.total ELSE 0
    BY <1>2, <1>3, <1>5, EscrowBecomes DEF old
  <2>3. /\ CountPart(escrows, id, {"Active"}) = 0 /\ CountPart(escrows', id, {"Active"}) = 1
        /\ CountPart(escrows, id, {"Completed"}) = 0 /\ CountPart(escrows', id, {"Completed"}) = 0
        /\ CountPart(escrows, id, {"Cancelled"}) = 0 /\ CountPart(escrows', id, {"Cancelled"}) = 0
    BY <2>2
  <2>4. /\ DepositPart(escrows, id, Deposited) = 0 /\ DepositPart(escrows', id, Deposited) = old.total
        /\ DepositPart(escrows, id, Running) = 0 /\ DepositPart(escrows', id, Running) = old.total
    BY <2>2 DEF Running, Deposited
  <2>5. /\ analytics'.active = analytics.active + (1 - 0)
        /\ analytics'.completed = analytics.completed + (0 - 0)
        /\ analytics'.cancelled = analytics.cancelled + (0 - 0)
        /\ analytics'.locked + analytics'.paidOut =
             (analytics.locked + analytics.paidOut) + (old.total - 0)
        /\ analytics'.locked - analytics.locked >= old.total - 0
    BY <1>6, <1>7, <2>1
  <2> QED BY <2>3, <2>4, <2>5 DEF Follows
<1> QED BY <1>5, <1>6, <1>7, <1>8, <1>9, EscrowBecomes, OneEscrowMoves

LEMMA CancelStep ==
  ASSUME EscrowsInv, NEW id \in DOMAIN escrows, Escrow!CancelEscrow(id)
  PROVE  EscrowsInv'
<1> DEFINE old == escrows[id]
           e == [old EXCEPT !.status = "Cancelled"]
<1>1. escrows \in Seq(EscrowRecord) /\ old \in EscrowRecord /\ analytics \in Analytics
  BY DEF EscrowsInv
<1>2. old.status = "Pending"
  BY DEF Escrow!CancelEscrow
<1>3. e \in EscrowRecord /\ e.total = old.total /\ e.status = "Cancelled"
  BY <1>1 DEF EscrowRecord, Escrow!EscrowStatus
<1>4. escrows' = [escrows EXCEPT ![id] = e]
  BY <1>1 DEF Escrow!CancelEscrow
<1>5. Becomes(id, e)
  BY <1>3, <1>4 DEF Becomes
<1>6. /\ analytics.total = Len(escrows) /\ old.total \in Int
      /\ analytics' = [analytics EXCEPT !.cancelled = @ + 1]
  BY <1>5, EscrowBecomes DEF EscrowsInv, Escrow!CancelEscrow
<1> HIDE DEF old, e
<1>7. /\ analytics'.cancelled = analytics.cancelled + 1
      /\ analytics'.active = analytics.active /\ analytics'.locked = analytics.locked
      /\ analytics'.total = analytics.total /\ analytics'.completed = analytics.completed
      /\ analytics'.paidOut = analytics.paidOut
  BY <1>1, <1>6 DEF Analytics
<1>8. analytics' \in Analytics
  <2>1. analytics.cancelled + 1 \in Int
    BY <1>1, <1>6, AnalyticsFields
  <2> QED BY <1>1, <1>6, <2>1 DEF Analytics
<1>9. Follows(id)
  <2>1. /\ analytics.active \in Int /\ analytics.completed \in Int /\ analytics.cancelled \in Int
        /\ analytics.locked \in Int /\ analytics.paidOut \in Int
    BY <1>1, AnalyticsFields
  <2>2. /\ \A st : /\ CountPart(escrows, id, st) = IF "Pending" \in st THEN 1 ELSE 0
                   /\ CountPart(escrows', id, st) = IF "Cancelled" \in st THEN 1 ELSE 0
                   /\ DepositPart(escrows, id, st) = IF "Pending" \in st THEN old.total ELSE 0
                   /\ DepositPart(escrows', id, st) = IF "Cancelled" \in st THEN old.total ELSE 0
    BY <1>2, <1>3, <1>5, EscrowBecomes DEF old
  <2>3. /\ CountPart(escrows, id, {"Active"}) = 0 /\ CountPart(escrows', id, {"Active"}) = 0
        /\ CountPart(escrows, id, {"Completed"}) = 0 /\ CountPart(escrows', id, {"Completed"}) = 0
        /\ CountPart(escrows, id, {"Cancelled"}) = 0 /\ CountPart(escrows', id, {"Cancelled"}) = 1
    BY <2>2
  <2>4. /\ DepositPart(escrows, id, Deposited) = 0 /\ DepositPart(escrows', id, Deposited) = 0
        /\ DepositPart(escrows, id, Running) = 0 /\ DepositPart(escrows', id, Running) = 0
    BY <2>2 DEF Running, Deposited
  <2>5. /\ analytics'.active = analytics.active + (0 - 0)
        /\ analytics'.completed = analytics.completed + (0 - 0)
        /\ analytics'.cancelled = analytics.cancelled + (1 - 0)
        /\ analytics'.locked + analytics'.paidOut =
             (analytics.locked + analytics.paidOut) + (0 - 0)
        /\ analytics'.locked - analytics.locked >= 0 - 0
    BY <1>6, <1>7, <2>1
  <2> QED BY <2>3, <2>4, <2>5 DEF Follows
<1> QED BY <1>5, <1>6, <1>7, <1>8, <1>9, EscrowBecomes, OneEscrowMoves

LEMMA DisputeStep ==
  ASSUME EscrowsInv, NEW id \in DOMAIN escrows, Escrow!RaiseDispute(id)
  PROVE  EscrowsInv'
<1> DEFINE old == escrows[id]
           e == [old EXCEPT !.status = "Disputed"]
<1>1. escrows \in Seq(EscrowRecord) /\ old \in EscrowRecord /\ analytics \in Analytics
  BY DEF EscrowsInv
<1>2. old.status = "Active"
  BY DEF Escrow!RaiseDispute
<1>3. e \in EscrowRecord /\ e.total = old.total /\ e.status = "Disputed"
  BY <1>1 DEF EscrowRecord, Escrow!EscrowStatus
<1>4. escrows' = [escrows EXCEPT ![id] = e]
  BY <1>1 DEF Escrow!RaiseDispute
<1>5. Becomes(id, e)
  BY <1>3, <1>4 DEF Becomes
<1>6. /\ analytics.total = Len(escrows) /\ old.total \in Int
      /\ analytics' = [analytics EXCEPT !.disputed = @ + 1, !.active = @ - 1]
  <2>1. analytics.active \in Int /\ analytics.active >= 1
    BY <1>1, <1>2, <1>5, Covered, AnalyticsFields
  <2>2. Escrow!Minus(analytics.active, 1) = analytics.active - 1
    BY <2>1 DEF Escrow!Minus
  <2>3. analytics' = [analytics EXCEPT !.disputed = @ + 1, !.active = Escrow!Minus(@, 1)]
    BY DEF Escrow!RaiseDispute
  <2>4. analytics.total = Len(escrows) /\ old.total \in Int
    BY <1>5, EscrowBecomes DEF EscrowsInv
  <2> QED BY <2>2, <2>3, <2>4
<1> HIDE DEF old, e
<1>7. /\ analytics'.active = analytics.active - 1
      /\ analytics'.cancelled = analytics.cancelled /\ analytics'.locked = analytics.locked
      /\ analytics'.total = analytics.total /\ analytics'.completed = analytics.completed
      /\ analytics'.paidOut = analytics.paidOut
  BY <1>1, <1>6 DEF Analytics
<1>8. analytics' \in Analytics
  <2>1. analytics.disputed + 1 \in Int /\ analytics.active - 1 \in Int
    BY <1>1, <1>6, AnalyticsFields
  <2> QED BY <1>1, <1>6, <2>1 DEF Analytics
<1>9. Follows(id)
  <2>1. /\ analytics.active \in Int /\ analytics.completed \in Int /\ analytics.cancelled \in Int
        /\ analytics.locked \in Int /\ analytics.paidOut \in Int
    BY <1>1, AnalyticsFields
  <2>2. /\ \A st : /\ CountPart(escrows, id, st) = IF "Active" \in st THEN 1 ELSE 0
                   /\ CountPart(escrows', id, st) = IF "Disputed" \in st THEN 1 ELSE 0
                   /\ DepositPart(escrows, id, st) = IF "Active" \in st THEN old.total ELSE 0
                   /\ DepositPart(escrows', id, st) = IF "Disputed" \in st THEN old.total ELSE 0
    BY <1>2, <1>3, <1>5, EscrowBecomes DEF old
  <2>3. /\ CountPart(escrows, id, {"Active"}) = 1 /\ CountPart(escrows', id, {"Active"}) = 0
        /\ CountPart(escrows, id, {"Completed"}) = 0 /\ CountPart(escrows', id, {"Completed"}) = 0
        /\ CountPart(escrows, id, {"Cancelled"}) = 0 /\ CountPart(escrows', id, {"Cancelled"}) = 0
    BY <2>2
  <2>4. /\ DepositPart(escrows, id, Deposited) = old.total /\ DepositPart(escrows', id, Deposited) = old.total
        /\ DepositPart(escrows, id, Running) = old.total /\ DepositPart(escrows', id, Running) = old.total
    BY <2>2 DEF Running, Deposited
  <2>5. /\ analytics'.active = analytics.active + (0 - 1)
        /\ analytics'.completed = analytics.completed + (0 - 0)
        /\ analytics'.cancelled = analytics.cancelled + (0 - 0)
        /\ analytics'.locked + analytics'.paidOut =
             (analytics.locked + analytics.paidOut) + (old.total - old.total)
        /\ analytics'.locked - analytics.locked >= old.total - old.total
    BY <1>6, <1>7, <2>1
  <2> QED BY <2>3, <2>4, <2>5 DEF Follows
<1> QED BY <1>5, <1>6, <1>7, <1>8, <1>9, EscrowBecomes, OneEscrowMoves

LEMMA ResolveStep ==
  ASSUME EscrowsInv, NEW id \in DOMAIN escrows, Escrow!ResolveDispute(id)
  PROVE  EscrowsInv'
<1> DEFINE old == escrows[id]
           rest == old.total - old.paid
           e == [old EXCEPT !.paid = old.total, !.status = "Completed"]
<1>1. escrows \in Seq(EscrowRecord) /\ old \in EscrowRecord /\ analytics \in Analytics
  BY DEF EscrowsInv
<1>2. old.status = "Disputed"
  BY DEF Escrow!ResolveDispute
<1>3. e \in EscrowRecord /\ e.total = old.total /\ e.status = "Completed"
  BY <1>1 DEF EscrowRecord, Escrow!EscrowStatus
<1>4. escrows' = [escrows EXCEPT ![id] = e]
  BY <1>1 DEF Escrow!ResolveDispute
<1>5. Becomes(id, e)
  BY <1>3, <1>4 DEF Becomes
<1>6. /\ analytics.total = Len(escrows) /\ old.total \in Int /\ rest \in Int /\ rest <= old.total
      /\ analytics' = [analytics EXCEPT !.completed = @ + 1, !.locked = @ - rest,
                                        !.paidOut = @ + rest]
  <2>1. old.total \in Nat /\ old.paid \in Nat
    BY <1>1 DEF EscrowRecord
  <2>2. analytics.locked \in Int /\ analytics.locked >= old.total
    BY <1>1, <1>2, <1>5, Covered, AnalyticsFields DEF Running
  <2>3. Escrow!Minus(analytics.locked, rest) = analytics.locked - rest
    BY <2>1, <2>2 DEF Escrow!Minus
  <2>4. analytics' = [analytics EXCEPT !.completed = @ + 1,
           !.locked = Escrow!Minus(@, rest), !.paidOut = @ + rest]
    BY DEF Escrow!ResolveDispute
  <2>5. analytics.total = Len(escrows)
    BY DEF EscrowsInv
  <2>6. rest \in Int /\ rest <= old.total
    BY <2>1
  <2> HIDE DEF rest, old
  <2> QED BY <2>1, <2>3, <2>4, <2>5, <2>6
<1> HIDE DEF old, e, rest
<1>7. /\ analytics'.completed = analytics.completed + 1
      /\ analytics'.locked = analytics.locked - rest
      /\ analytics'.paidOut = analytics.paidOut + rest
      /\ analytics'.total = analytics.total /\ analytics'.active = analytics.active
      /\ analytics'.cancelled = analytics.cancelled
  BY <1>1, <1>6 DEF Analytics
<1>8. analytics' \in Analytics
  <2>1. /\ analytics.completed + 1 \in Int /\ analytics.locked - rest \in Int
        /\ analytics.paidOut + rest \in Int
    BY <1>1, <1>6, AnalyticsFields
  <2> QED BY <1>1, <1>6, <2>1 DEF Analytics
<1>9. Follows(id)
  <2>1. /\ analytics.active \in Int /\ analytics.completed \in Int /\ analytics.cancelled \in Int
        /\ analytics.locked \in Int /\ analytics.paidOut \in Int
    BY <1>1, AnalyticsFields
  <2>2. /\ \A st : /\ CountPart(escrows, id, st) = IF "Disputed" \in st THEN 1 ELSE 0
                   /\ CountPart(escrows', id, st) = IF "Completed" \in st THEN 1 ELSE 0
                   /\ DepositPart(escrows, id, st) = IF "Disputed" \in st THEN old.total ELSE 0
                   /\ DepositPart(escrows', id, st) = IF "Completed" \in st THEN old.total ELSE 0
    BY <1>2, <1>3, <1>5, EscrowBecomes DEF old
  <2>3. /\ analytics'.locked + analytics'.paidOut = (analytics.locked + analytics.paidOut) + 0
        /\ analytics'.locked - analytics.locked >= 0 - old.total
    BY <1>6, <1>7, <2>1
  <2>4. /\ CountPart(escrows, id, {"Active"}) = 0 /\ CountPart(escrows', id, {"Active"}) = 0
        /\ CountPart(escrows, id, {"Completed"}) = 0 /\ CountPart(escrows', id, {"Completed"}) = 1
        /\ CountPart(escrows, id, {"Cancelled"}) = 0 /\ CountPart(escrows', id, {"Cancelled"}) = 0
    BY <2>2
  <2>5. /\ DepositPart(escrows, id, Deposited) = old.total
        /\ DepositPart(escrows', id, Deposited) = old.total
        /\ DepositPart(escrows, id, Running) = old.total
        /\ DepositPart(escrows', id, Running) = 0
    BY <2>2 DEF Running, Deposited
  <2>6. /\ analytics'.active = analytics.active + (0 - 0)
        /\ analytics'.completed = analytics.completed + (1 - 0)
        /\ analytics'.cancelled = analytics.cancelled + (0 - 0)
    BY <1>7, <2>1
  <2>7. old.total - old.total = 0
    BY <1>6
  <2> QED BY <2>3, <2>4, <2>5, <2>6, <2>7 DEF Follows
<1> QED BY <1>5, <1>6, <1>7, <1>8, <1>9, EscrowBecomes, OneEscrowMoves

\* A call that leaves the status of the escrow and the analytics alone.
LEMMA SameStatus ==
  ASSUME EscrowsInv, NEW id, NEW e, Becomes(id, e), e.status = escrows[id].status,
         analytics' = analytics
  PROVE  EscrowsInv'
<1>1. /\ escrows' \in Seq(EscrowRecord) /\ OneDiffers(escrows, escrows', id)
      /\ Len(escrows') = Len(escrows) /\ escrows[id].total \in Nat
  BY EscrowBecomes
<1>2. \A st : /\ CountPart(escrows', id, st) = CountPart(escrows, id, st)
              /\ CountPart(escrows, id, st) \in Int
              /\ DepositPart(escrows', id, st) = DepositPart(escrows, id, st)
              /\ DepositPart(escrows, id, st) \in Int
  BY <1>1, EscrowBecomes
<1>3. analytics \in Analytics /\ analytics.total = Len(escrows)
  BY DEF EscrowsInv
<1>4. /\ analytics.active \in Int /\ analytics.completed \in Int /\ analytics.cancelled \in Int
      /\ analytics.locked \in Int /\ analytics.paidOut \in Int
  BY <1>3, AnalyticsFields
<1>5. \A n \in Int : n + (0 - 0) = n /\ n - n = 0
  OBVIOUS
<1>6. Follows(id)
  <2>1. \A n, p \in Int : n = n + (p - p)
    OBVIOUS
  <2>2. /\ analytics'.locked + analytics'.paidOut = analytics.locked + analytics.paidOut
        /\ analytics.locked + analytics.paidOut \in Int
        /\ analytics'.locked - analytics.locked = 0
        /\ analytics'.active = analytics.active /\ analytics'.completed = analytics.completed
        /\ analytics'.cancelled = analytics.cancelled
    BY <1>4
  <2>3. \A st : DepositPart(escrows', id, st) - DepositPart(escrows, id, st) = 0
    BY <1>2
  <2>4. \A st : CountPart(escrows', id, st) - CountPart(escrows, id, st) = 0
    BY <1>2
  <2> QED BY <1>4, <2>2, <2>3, <2>4 DEF Follows
<1> QED BY <1>1, <1>3, <1>6, OneEscrowMoves

LEMMA MilestoneStep ==
  ASSUME EscrowsInv, NEW id \in DOMAIN escrows, NEW m, NEW from,
         NEW to \in Escrow!MilestoneStatus, Escrow!Milestone(id, m, from, to)
  PROVE  EscrowsInv'
<1> DEFINE old == escrows[id]
           marks == [old.milestone EXCEPT ![m] = to]
           e == [old EXCEPT !.milestone = marks]
<1>1. escrows \in Seq(EscrowRecord) /\ old \in EscrowRecord
  BY DEF EscrowsInv
<1>2. marks \in Seq(Escrow!MilestoneStatus) /\ DOMAIN marks = DOMAIN old.milestone
  <2>1. old.milestone \in Seq(Escrow!MilestoneStatus)
    BY <1>1 DEF EscrowRecord
  <2> QED BY <2>1, EntryTyped
<1>3. escrows' = [escrows EXCEPT ![id] = e]
  BY <1>1 DEF Escrow!Milestone
<1>4. e \in EscrowRecord /\ e.total = old.total /\ e.status = old.status
  <2> HIDE DEF marks
  <2> QED BY <1>1, <1>2 DEF EscrowRecord
<1>5. Becomes(id, e) /\ analytics' = analytics
  BY <1>3, <1>4 DEF Becomes, Escrow!Milestone
<1> HIDE DEF e
<1> QED BY <1>4, <1>5, SameStatus

LEMMA ReleaseStep ==
  ASSUME EscrowsInv, NEW id \in DOMAIN escrows, NEW m \in DOMAIN escrows[id].milestone,
         Escrow!ReleasePayment(id, m)
  PROVE  EscrowsInv'
<1> DEFINE old == escrows[id]
           paid == old.paid + old.amount[m]
           marks == [k \in DOMAIN old.milestone |->
                       IF k = m THEN "Paid"
                       ELSE IF k = m + 1 /\ old.milestone[k] = "Pending" THEN "InProgress"
                       ELSE old.milestone[k]]
           e == [old EXCEPT !.paid = paid,
                            !.status = IF paid >= old.total THEN "Completed" ELSE @,
                            !.milestone = marks]
<1>1. escrows \in Seq(EscrowRecord) /\ old \in EscrowRecord /\ analytics \in Analytics
  BY DEF EscrowsInv
<1>2. old.status = "Active"
  BY DEF Escrow!ReleasePayment
<1>3. marks \in Seq(Escrow!MilestoneStatus) /\ DOMAIN marks = DOMAIN old.milestone
  <2>1. old.milestone \in Seq(Escrow!MilestoneStatus)
    BY <1>1 DEF EscrowRecord
  <2>2. /\ DOMAIN old.milestone = 1..Len(old.milestone) /\ Len(old.milestone) \in Nat
        /\ \A k \in DOMAIN old.milestone : old.milestone[k] \in Escrow!MilestoneStatus
    BY <2>1
  <2>3. \A k \in DOMAIN old.milestone : marks[k] \in Escrow!MilestoneStatus
    BY <2>2 DEF Escrow!MilestoneStatus
  <2>4. DOMAIN marks = 1..Len(old.milestone)
    BY <2>2
  <2>5. marks \in [1..Len(old.milestone) -> Escrow!MilestoneStatus]
    BY <2>2, <2>3, <2>4
  <2> HIDE DEF marks
  <2> QED BY <2>2, <2>4, <2>5
<1>4. paid \in Nat
  <2>1. old.amount \in Seq(Nat) /\ m \in DOMAIN old.amount /\ old.paid \in Nat
    BY <1>1 DEF EscrowRecord
  <2>2. old.amount[m] \in Nat
    BY <2>1
  <2> QED BY <2>1, <2>2
<1>5. escrows' = [escrows EXCEPT ![id] = e]
  BY DEF Escrow!ReleasePayment
<1>6. /\ e \in EscrowRecord /\ e.total = old.total
      /\ e.status = IF paid >= old.total THEN "Completed" ELSE old.status
  <2> HIDE DEF marks, paid
  <2> QED BY <1>1, <1>3, <1>4 DEF EscrowRecord, Escrow!EscrowStatus
<1>7. Becomes(id, e)
  BY <1>5, <1>6 DEF Becomes
<1>8. analytics' = IF paid >= old.total
        THEN [analytics EXCEPT !.active = Escrow!Minus(@, 1), !.completed = @ + 1,
                !.locked = Escrow!Minus(@, old.total), !.paidOut = @ + old.total]
        ELSE analytics
  BY DEF Escrow!ReleasePayment
<1> HIDE DEF e, marks, paid
<1>9. CASE ~(paid >= old.total)
  BY <1>6, <1>7, <1>8, <1>9, SameStatus
<1>10. CASE paid >= old.total
  <2>1. e.status = "Completed"
    BY <1>6, <1>10
  <2>2. /\ analytics.active \in Int /\ analytics.active >= 1
        /\ analytics.locked \in Int /\ analytics.locked >= old.total /\ old.total \in Nat
        /\ analytics.total = Len(escrows)
        /\ analytics.completed \in Int /\ analytics.cancelled \in Int /\ analytics.paidOut \in Int
    BY <1>1, <1>2, <1>7, Covered, EscrowBecomes, AnalyticsFields DEF Running, EscrowsInv
  <2> DEFINE active == analytics.active - 1
             locked == analytics.locked - old.total
             completed == analytics.completed + 1
             paidOut == analytics.paidOut + old.total
  <2>3. Escrow!Minus(analytics.active, 1) = active /\ Escrow!Minus(analytics.locked, old.total) = locked
    BY <2>2 DEF Escrow!Minus
  <2>4. active \in Int /\ locked \in Int /\ completed \in Int /\ paidOut \in Int
    BY <2>2
  <2>5. analytics' = [analytics EXCEPT !.active = active, !.completed = completed,
                        !.locked = locked, !.paidOut = paidOut]
    BY <1>8, <1>10, <2>3
  <2>6. /\ active = analytics.active + (0 - 1) /\ completed = analytics.completed + (1 - 0)
        /\ analytics.cancelled = analytics.cancelled + (0 - 0)
        /\ locked + paidOut = (analytics.locked + analytics.paidOut) + (old.total - old.total)
        /\ locked - analytics.locked >= 0 - old.total
    BY <2>2
  <2> HIDE DEF active, locked, completed, paidOut, old
  <2>7. /\ analytics' \in Analytics
        /\ analytics'.active = active /\ analytics'.completed = completed
        /\ analytics'.cancelled = analytics.cancelled /\ analytics'.locked = locked
        /\ analytics'.paidOut = paidOut /\ analytics'.total = analytics.total
    BY <1>1, <2>4, <2>5 DEF Analytics
  <2>8. \A st : /\ CountPart(escrows, id, st) = IF "Active" \in st THEN 1 ELSE 0
                /\ CountPart(escrows', id, st) = IF "Completed" \in st THEN 1 ELSE 0
                /\ DepositPart(escrows, id, st) = IF "Active" \in st THEN old.total ELSE 0
                /\ DepositPart(escrows', id, st) = IF "Completed" \in st THEN old.total ELSE 0
    BY <1>2, <1>7, <2>1, EscrowBecomes DEF old
  <2>9. /\ CountPart(escrows, id, {"Active"}) = 1 /\ CountPart(escrows', id, {"Active"}) = 0
        /\ CountPart(escrows, id, {"Completed"}) = 0 /\ CountPart(escrows', id, {"Completed"}) = 1
        /\ CountPart(escrows, id, {"Cancelled"}) = 0 /\ CountPart(escrows', id, {"Cancelled"}) = 0
    BY <2>8
  <2>10. /\ DepositPart(escrows, id, Deposited) = old.total
         /\ DepositPart(escrows', id, Deposited) = old.total
         /\ DepositPart(escrows, id, Running) = old.total
         /\ DepositPart(escrows', id, Running) = 0
    BY <2>8 DEF Running, Deposited
  <2>11. Follows(id)
    BY <2>6, <2>7, <2>9, <2>10 DEF Follows
  <2> QED BY <1>7, <2>2, <2>7, <2>11, EscrowBecomes, OneEscrowMoves
<1> QED BY <1>9, <1>10

LEMMA CreateStep ==
  ASSUME EscrowAssumption, EscrowsInv, NEW n \in 1..MaxMilestones,
         NEW amounts \in [1..n -> Amount], Escrow!CreateEscrow(amounts)
  PROVE  EscrowsInv'
<1> DEFINE id == Len(escrows) + 1
           total == Escrow!SumOf(amounts)
           marks == [m \in DOMAIN amounts |-> "Pending"]
           new == [total |-> total, paid |-> 0, status |-> "Pending",
                   amount |-> amounts, milestone |-> marks]
<1>1. escrows \in Seq(EscrowRecord) /\ analytics \in Analytics /\ analytics.total = Len(escrows)
  BY DEF EscrowsInv
<1>2. total \in Nat
  <2>1. DOMAIN amounts = 1..n /\ IsFiniteSet(1..n)
    BY FS_Interval
  <2>2. \A m \in 1..n : amounts[m] \in Nat
    BY DEF EscrowAssumption
  <2>3. total = SumOf(amounts, 1..n)
    BY <2>1, EscrowTotal DEF Escrow!SumOf
  <2> QED BY <2>1, <2>2, <2>3, SumMonotone
<1>3. amounts \in Seq(Nat) /\ marks \in Seq(Escrow!MilestoneStatus) /\ DOMAIN marks = DOMAIN amounts
  <2>1. amounts \in [1..n -> Nat] /\ n \in Nat
    <3>1. n \in Nat
      BY DEF EscrowAssumption
    <3>2. \A x \in 1..n : amounts[x] \in Nat
      BY DEF EscrowAssumption
    <3> QED BY <3>1, <3>2
  <2>2. marks \in [1..n -> Escrow!MilestoneStatus]
    BY <2>1 DEF Escrow!MilestoneStatus
  <2> HIDE DEF marks
  <2> QED BY <2>1, <2>2
<1>4. escrows' = Append(escrows, new) /\ analytics' = [analytics EXCEPT !.total = @ + 1]
  BY DEF Escrow!CreateEscrow
<1>5. new \in EscrowRecord /\ new.status = "Pending"
  <2> HIDE DEF total, marks
  <2> QED BY <1>2, <1>3 DEF EscrowRecord, Escrow!EscrowStatus
<1> HIDE DEF total, marks, new
<1>6. /\ escrows' \in Seq(EscrowRecord) /\ Len(escrows') = Len(escrows) + 1
      /\ id \notin DOMAIN escrows /\ id \in DOMAIN escrows' /\ escrows'[id] = new
  BY <1>1, <1>4, <1>5
<1>7. OneDiffers(escrows, escrows', id)
  BY <1>1, <1>4, <1>5 DEF OneDiffers
<1>8. /\ analytics' \in Analytics /\ analytics'.total = Len(escrows')
      /\ analytics'.active = analytics.active /\ analytics'.completed = analytics.completed
      /\ analytics'.cancelled = analytics.cancelled /\ analytics'.locked = analytics.locked
      /\ analytics'.paidOut = analytics.paidOut
  <2>1. analytics.total + 1 \in Int /\ Len(escrows') = analytics.total + 1
    BY <1>1, <1>6
  <2>2. analytics' \in Analytics
    BY <1>1, <1>4, <2>1 DEF Analytics
  <2>3. /\ analytics'.total = analytics.total + 1
        /\ analytics'.active = analytics.active /\ analytics'.completed = analytics.completed
        /\ analytics'.cancelled = analytics.cancelled /\ analytics'.locked = analytics.locked
        /\ analytics'.paidOut = analytics.paidOut
    BY <1>1, <1>4 DEF Analytics
  <2> QED BY <2>1, <2>2, <2>3
<1>9. Follows(id)
  <2>1. \A st : CountPart(escrows, id, st) = 0 /\ DepositPart(escrows, id, st) = 0
    BY <1>1, <1>6, EscrowParts
  <2>2. \A st : "Pending" \notin st =>
           CountPart(escrows', id, st) = 0 /\ DepositPart(escrows', id, st) = 0
    BY <1>5, <1>6, EscrowParts
  <2>3. /\ CountPart(escrows', id, {"Active"}) = 0 /\ CountPart(escrows', id, {"Completed"}) = 0
        /\ CountPart(escrows', id, {"Cancelled"}) = 0
        /\ DepositPart(escrows', id, Deposited) = 0 /\ DepositPart(escrows', id, Running) = 0
    BY <2>2 DEF Deposited, Running
  <2>4. /\ analytics.active \in Int /\ analytics.completed \in Int /\ analytics.cancelled \in Int
        /\ analytics.locked \in Int /\ analytics.paidOut \in Int
    BY <1>1, AnalyticsFields
  <2>5. /\ analytics.active = analytics.active + (0 - 0)
        /\ analytics.completed = analytics.completed + (0 - 0)
        /\ analytics.cancelled = analytics.cancelled + (0 - 0)
        /\ analytics.locked + analytics.paidOut = (analytics.locked + analytics.paidOut) + (0 - 0)
        /\ analytics.locked - analytics.locked >= 0 - 0
    BY <2>4
  <2> QED BY <1>8, <2>1, <2>3, <2>5 DEF Follows
<1> QED BY <1>6, <1>7, <1>8, <1>9, OneEscrowMoves

LEMMA EscrowsStart == ASSUME Escrow!Init PROVE EscrowsInv
<1>1. escrows = <<>> /\ analytics = Escrow!NoAnalytics
  BY DEF Escrow!Init
<1>2. \A st : Having(escrows, st) = {}
  BY <1>1 DEF Having
<1>3. \A st : Cardinality(Having(escrows, st)) = 0 /\ Deposits(escrows, st) = 0
  BY <1>2, FS_EmptySet, SumEmpty DEF Deposits
<1>4. analytics \in Analytics
  BY <1>1 DEF Escrow!NoAnalytics, Analytics
<1>5. /\ analytics.total = 0 /\ analytics.active = 0 /\ analytics.completed = 0
      /\ analytics.cancelled = 0 /\ analytics.locked = 0 /\ analytics.paidOut = 0
  BY <1>1 DEF Escrow!NoAnalytics
<1>6. escrows \in Seq(EscrowRecord) /\ Len(escrows) = 0
  BY <1>1
<1> QED BY <1>3, <1>4, <1>5, <1>6 DEF EscrowsInv

LEMMA EscrowsStep ==
  ASSUME EscrowAssumption, EscrowsInv, [Escrow!Next]_Escrow!vars
  PROVE  EscrowsInv'
<1>1. CASE UNCHANGED <<escrows, analytics>>
  BY <1>1 DEF EscrowsInv
<1>2. CASE Escrow!EscrowCalls
  <2>1. ASSUME NEW n \in 1..MaxMilestones, NEW amounts \in [1..n -> Amount],
               Escrow!CreateEscrow(amounts)
        PROVE  EscrowsInv'
    BY <2>1, CreateStep
  <2>2. ASSUME NEW id \in DOMAIN escrows,
               \/ Escrow!Deposit(id) \/ Escrow!RaiseDispute(id)
               \/ Escrow!ResolveDispute(id) \/ Escrow!CancelEscrow(id)
        PROVE  EscrowsInv'
    BY <2>2, DepositStep, DisputeStep, ResolveStep, CancelStep
  <2>3. ASSUME NEW id \in DOMAIN escrows, NEW m \in DOMAIN escrows[id].milestone,
               \/ Escrow!SubmitMilestone(id, m) \/ Escrow!ApproveMilestone(id, m)
               \/ Escrow!RejectMilestone(id, m) \/ Escrow!ReleasePayment(id, m)
        PROVE  EscrowsInv'
    <3>1. CASE Escrow!ReleasePayment(id, m)
      BY <3>1, ReleaseStep
    <3>2. ASSUME NEW from, NEW to \in Escrow!MilestoneStatus, Escrow!Milestone(id, m, from, to)
          PROVE  EscrowsInv'
      BY <3>2, MilestoneStep
    <3>3. "UnderReview" \in Escrow!MilestoneStatus /\ "Approved" \in Escrow!MilestoneStatus
          /\ "InProgress" \in Escrow!MilestoneStatus
      BY DEF Escrow!MilestoneStatus
    <3>4. CASE \/ Escrow!SubmitMilestone(id, m) \/ Escrow!ApproveMilestone(id, m)
               \/ Escrow!RejectMilestone(id, m)
      BY <3>2, <3>3, <3>4
      DEF Escrow!SubmitMilestone, Escrow!ApproveMilestone, Escrow!RejectMilestone
    <3> QED BY <2>3, <3>1, <3>4
  <2> QED BY <1>2, <2>1, <2>2, <2>3 DEF Escrow!EscrowCalls
<1>3. CASE Escrow!SwapCalls
  <2>1. UNCHANGED <<escrows, analytics>>
    BY <1>3 DEF Escrow!SwapCalls, Escrow!escrowVars, Escrow!CreateAtomicSwap,
       Escrow!FundAtomicSwap, Escrow!ClaimAtomicSwap, Escrow!RefundAtomicSwap,
       Escrow!CancelAtomicSwap
  <2> QED BY <1>1, <2>1
<1>4. CASE Escrow!Initialize \/ Escrow!Tick \/ UNCHANGED Escrow!vars
  BY <1>1, <1>4 DEF Escrow!Initialize, Escrow!Tick, Escrow!vars, Escrow!escrowVars
<1> QED BY <1>2, <1>3, <1>4 DEF Escrow!Next

\* The counters of the escrow contract agree with its records and nothing
\* deposited is lost from the value it says is locked or paid out, although
\* every subtraction is a saturating one (release_payment, resolve_dispute).
THEOREM EscrowCountersAgree ==
  ASSUME EscrowAssumption
  PROVE  Escrow!Spec => []Escrow!CountersAgree
<1>1. Escrow!Init => SwapsInv /\ EscrowsInv
  BY SwapsStart, EscrowsStart
<1>2. SwapsInv /\ EscrowsInv /\ [Escrow!Next]_Escrow!vars => SwapsInv' /\ EscrowsInv'
  BY SwapsStep, EscrowsStep
<1>3. SwapsInv /\ EscrowsInv => Escrow!CountersAgree
  <2> SUFFICES ASSUME SwapsInv, EscrowsInv PROVE Escrow!CountersAgree
    OBVIOUS
  <2>1. \A st : Escrow!With(st) = Having(escrows, st)
    BY DEF Escrow!With, Having
  <2>2. Escrow!SwapsWith(Escrow!Live) = LiveSwaps(swaps)
    BY DEF Escrow!SwapsWith, LiveSwaps
  <2>3. \A S : Escrow!Cardinality(S) = Cardinality(S)
    BY EscrowCardinality
  <2>4. Escrow!Total([id \in DOMAIN escrows |-> escrows[id].total],
                     Escrow!With({"Active", "Disputed", "Completed"}))
          = Deposits(escrows, Deposited)
    BY <2>1, EscrowTotal DEF Deposits, Totals, Deposited
  <2> QED BY <2>1, <2>2, <2>3, <2>4 DEF Escrow!CountersAgree, SwapsInv, EscrowsInv
<1> QED BY <1>1, <1>2, <1>3, PTL DEF Escrow!Spec

\* An escrow that is completed or cancelled and a swap that is settled never
\* change again: nothing is paid out, claimed or refunded twice.
THEOREM EscrowsStaySettled ==
  ASSUME EscrowAssumption
  PROVE  Escrow!Spec => [][Escrow!Settled]_Escrow!vars
<1>1. Escrow!Init => SwapsInv /\ EscrowsInv
  BY SwapsStart, EscrowsStart
<1>2. SwapsInv /\ EscrowsInv /\ [Escrow!Next]_Escrow!vars => SwapsInv' /\ EscrowsInv'
  BY SwapsStep, EscrowsStep
<1>3. SwapsInv /\ EscrowsInv /\ [Escrow!Next]_Escrow!vars => [Escrow!Settled]_Escrow!vars
  <2> SUFFICES ASSUME SwapsInv, EscrowsInv, Escrow!Next PROVE Escrow!Settled
    OBVIOUS
  <2>1. escrows \in Seq(EscrowRecord) /\ swaps \in Seq(Swap)
    BY DEF EscrowsInv, SwapsInv, SwapsTypes
  <2>2. ASSUME NEW id \in DOMAIN swaps, swaps[id].status \notin Escrow!Live
        PROVE  swaps'[id] = swaps[id]
    <3>1. CASE UNCHANGED swaps
      BY <3>1
    <3>2. ASSUME NEW new, swaps' = Append(swaps, new) PROVE swaps'[id] = swaps[id]
      BY <2>1, <3>2
    <3>3. ASSUME NEW k \in DOMAIN swaps, NEW st, k # id, swaps' = [swaps EXCEPT ![k].status = st]
          PROVE  swaps'[id] = swaps[id]
      BY <3>3
    <3>4. CASE Escrow!SwapCalls
      <4>1. ASSUME NEW s, NEW t, NEW a, NEW b, NEW e, Escrow!CreateAtomicSwap(s, a, t, b, e)
            PROVE  swaps'[id] = swaps[id]
        BY <3>2, <4>1 DEF Escrow!CreateAtomicSwap
      <4>2. ASSUME NEW k \in DOMAIN swaps,
                   \/ Escrow!FundAtomicSwap(k) \/ Escrow!ClaimAtomicSwap(k)
                   \/ Escrow!RefundAtomicSwap(k) \/ Escrow!CancelAtomicSwap(k)
            PROVE  swaps'[id] = swaps[id]
        <5>1. swaps[k].status \in Escrow!Live
          BY <4>2 DEF Escrow!FundAtomicSwap, Escrow!ClaimAtomicSwap,
             Escrow!RefundAtomicSwap, Escrow!CancelAtomicSwap, Escrow!Live
        <5>2. k # id
          BY <2>2, <5>1
        <5>3. \E st : swaps' = [swaps EXCEPT ![k].status = st]
          BY <4>2 DEF Escrow!FundAtomicSwap, Escrow!ClaimAtomicSwap,
             Escrow!RefundAtomicSwap, Escrow!CancelAtomicSwap
        <5> QED BY <3>3, <5>2, <5>3
      <4> QED BY <3>4, <4>1, <4>2 DEF Escrow!SwapCalls
    <3>5. CASE Escrow!Initialize \/ Escrow!Tick \/ Escrow!EscrowCalls
      <4>1. UNCHANGED swaps
        BY <3>5 DEF Escrow!Initialize, Escrow!Tick, Escrow!EscrowCalls,
           Escrow!swapVars, Escrow!CreateEscrow, Escrow!Deposit, Escrow!Milestone,
           Escrow!SubmitMilestone, Escrow!ApproveMilestone, Escrow!RejectMilestone,
           Escrow!ReleasePayment, Escrow!RaiseDispute, Escrow!ResolveDispute,
           Escrow!CancelEscrow
      <4> QED BY <4>1
    <3> QED BY <3>4, <3>5 DEF Escrow!Next
  <2>3. ASSUME NEW id \in DOMAIN escrows, escrows[id].status \in {"Completed", "Cancelled"}
        PROVE  escrows'[id] = escrows[id]
    <3>1. CASE UNCHANGED escrows
      BY <3>1
    <3>2. ASSUME NEW new, escrows' = Append(escrows, new) PROVE escrows'[id] = escrows[id]
      BY <2>1, <3>2
    <3>3. ASSUME NEW k, k # id, \A x \in DOMAIN escrows : x # k => escrows'[x] = escrows[x]
          PROVE  escrows'[id] = escrows[id]
      BY <3>3
    <3>4. CASE Escrow!EscrowCalls
      <4>1. ASSUME NEW amounts, Escrow!CreateEscrow(amounts) PROVE escrows'[id] = escrows[id]
        BY <3>2, <4>1 DEF Escrow!CreateEscrow
      <4>2. ASSUME NEW k \in DOMAIN escrows, escrows[k].status \in {"Pending", "Active", "Disputed"},
                   \A x \in DOMAIN escrows : x # k => escrows'[x] = escrows[x]
            PROVE  escrows'[id] = escrows[id]
        BY <2>3, <3>3, <4>2
      <4>3. ASSUME NEW k \in DOMAIN escrows,
                   \/ Escrow!Deposit(k) \/ Escrow!RaiseDispute(k)
                   \/ Escrow!ResolveDispute(k) \/ Escrow!CancelEscrow(k)
            PROVE  escrows'[id] = escrows[id]
        <5>1. escrows[k].status \in {"Pending", "Active", "Disputed"}
          BY <4>3 DEF Escrow!Deposit, Escrow!RaiseDispute, Escrow!ResolveDispute,
             Escrow!CancelEscrow
        <5>2. \A x \in DOMAIN escrows : x # k => escrows'[x] = escrows[x]
          BY <4>3 DEF Escrow!Deposit, Escrow!RaiseDispute, Escrow!ResolveDispute,
             Escrow!CancelEscrow
        <5> QED BY <4>2, <5>1, <5>2
      <4>4. ASSUME NEW k \in DOMAIN escrows, NEW m \in DOMAIN escrows[k].milestone,
                   \/ Escrow!SubmitMilestone(k, m) \/ Escrow!ApproveMilestone(k, m)
                   \/ Escrow!RejectMilestone(k, m) \/ Escrow!ReleasePayment(k, m)
            PROVE  escrows'[id] = escrows[id]
        <5>1. escrows[k].status \in {"Pending", "Active", "Disputed"}
          BY <4>4 DEF Escrow!SubmitMilestone, Escrow!ApproveMilestone,
             Escrow!RejectMilestone, Escrow!ReleasePayment, Escrow!Milestone
        <5>2. \A x \in DOMAIN escrows : x # k => escrows'[x] = escrows[x]
          BY <4>4 DEF Escrow!SubmitMilestone, Escrow!ApproveMilestone,
             Escrow!RejectMilestone, Escrow!ReleasePayment, Escrow!Milestone
        <5> QED BY <4>2, <5>1, <5>2
      <4> QED BY <3>4, <4>1, <4>3, <4>4 DEF Escrow!EscrowCalls
    <3>5. CASE Escrow!Initialize \/ Escrow!Tick \/ Escrow!SwapCalls
      <4>1. UNCHANGED escrows
        BY <3>5 DEF Escrow!Initialize, Escrow!Tick, Escrow!SwapCalls,
           Escrow!escrowVars, Escrow!CreateAtomicSwap, Escrow!FundAtomicSwap,
           Escrow!ClaimAtomicSwap, Escrow!RefundAtomicSwap, Escrow!CancelAtomicSwap
      <4> QED BY <4>1
    <3> QED BY <3>4, <3>5 DEF Escrow!Next
  <2> QED BY <2>2, <2>3 DEF Escrow!Settled, Escrow!With, Escrow!SwapsWith
<1> QED BY <1>1, <1>2, <1>3, PTL DEF Escrow!Spec

-----------------------------------------------------------------------------
(* Escrow: milestones *)

Working == {"InProgress", "UnderReview", "Approved"}

\* Milestone m is being worked on, those before it are paid, the others wait.
AtWork(e, m) ==
  /\ m \in DOMAIN e.milestone /\ e.milestone[m] \in Working
  /\ \A k \in DOMAIN e.milestone :
       (k < m <=> e.milestone[k] = "Paid") /\ (k > m <=> e.milestone[k] = "Pending")
  /\ e.paid = SumOf(e.amount, 1..(m - 1))

\* An escrow waits with nothing paid, and an active one is at one milestone.
Orderly(e) ==
  /\ e.total = SumOf(e.amount, DOMAIN e.amount) /\ 1 \in DOMAIN e.amount
  /\ e.status = "Pending" =>
       e.paid = 0 /\ \A k \in DOMAIN e.milestone : e.milestone[k] = "Pending"
  /\ e.status = "Active" => \E m \in DOMAIN e.milestone : AtWork(e, m)

OrderInv == \A id \in DOMAIN escrows : Orderly(escrows[id])

LEMMA EscrowFields ==
  ASSUME NEW e \in EscrowRecord
  PROVE  /\ e.amount \in Seq(Nat) /\ e.milestone \in Seq(Escrow!MilestoneStatus)
         /\ DOMAIN e.milestone = DOMAIN e.amount
         /\ DOMAIN e.milestone = 1..Len(e.milestone) /\ Len(e.milestone) \in Nat
         /\ e.total \in Nat /\ e.paid \in Nat
  BY DEF EscrowRecord

\* The first m amounts of a list, and the last of them.
LEMMA SumOfFirst ==
  ASSUME NEW q \in Seq(Nat), NEW m \in DOMAIN q
  PROVE  SumOf(q, 1..m) = SumOf(q, 1..(m - 1)) + q[m]
<1>1. /\ m \in 1..Len(q) /\ Len(q) \in Nat /\ m \in Nat /\ m - 1 \in Int
  OBVIOUS
<1>2. IsFiniteSet(1..m) /\ IsFiniteSet(1..(m - 1)) /\ (1..m) \ {m} = 1..(m - 1)
  <2>1. IsFiniteSet(1..m) /\ IsFiniteSet(1..(m - 1))
    BY <1>1, FS_Interval
  <2>2. (1..m) \ {m} = 1..(m - 1)
    BY <1>1
  <2> QED BY <2>1, <2>2
<1>3. \A x \in 1..m : q[x] \in Nat
  BY <1>1
<1>4. SumOf(q, 1..(m - 1)) \in Nat
  BY <1>2, <1>3, SumMonotone
<1>5. SumOf(q, 1..m) = q[m] + SumOf(q, 1..(m - 1))
  <2>1. IsFiniteSet(1..m) /\ m \in 1..m /\ \A x \in 1..m : q[x] \in Int
    BY <1>1, <1>2, <1>3
  <2>2. SumOf(q, 1..m) = q[m] + SumOf(q, (1..m) \ {m})
    BY <2>1, SumRemove
  <2>3. SumOf(q, (1..m) \ {m}) = SumOf(q, 1..(m - 1))
    BY <1>2
  <2> QED BY <2>2, <2>3
<1> QED BY <1>1, <1>3, <1>4, <1>5

LEMMA OrderKept ==
  ASSUME OrderInv, escrows \in Seq(EscrowRecord), NEW id \in DOMAIN escrows, NEW e,
         Orderly(e), escrows' = [escrows EXCEPT ![id] = e]
  PROVE  OrderInv'
  BY DEF OrderInv

\* A deposit begins the first milestone.
LEMMA DepositOrder ==
  ASSUME OrderInv, escrows \in Seq(EscrowRecord), NEW id \in DOMAIN escrows,
         Escrow!Deposit(id)
  PROVE  OrderInv'
<1> DEFINE old == escrows[id]
           marks == [old.milestone EXCEPT ![1] = "InProgress"]
           e == [old EXCEPT !.status = "Active", !.milestone = marks]
<1>1. old \in EscrowRecord /\ Orderly(old) /\ old.status = "Pending"
  BY DEF OrderInv, Escrow!Deposit
<1>2. escrows' = [escrows EXCEPT ![id] = e]
  BY DEF Escrow!Deposit
<1>3. /\ e.amount = old.amount /\ e.milestone = marks /\ e.paid = old.paid
      /\ e.total = old.total /\ e.status = "Active"
  <2> HIDE DEF marks
  <2> QED BY <1>1 DEF EscrowRecord
<1>4. /\ DOMAIN marks = DOMAIN old.milestone /\ marks[1] = "InProgress"
      /\ 1 \in DOMAIN old.milestone /\ DOMAIN old.milestone \subseteq Nat \ {0}
      /\ \A k \in DOMAIN marks : k # 1 => marks[k] = "Pending"
  <2>1. DOMAIN old.milestone = DOMAIN old.amount /\ 1 \in DOMAIN old.amount
    BY <1>1, EscrowFields DEF Orderly
  <2>2. DOMAIN old.milestone = 1..Len(old.milestone) /\ Len(old.milestone) \in Nat
    BY <1>1, EscrowFields
  <2>3. \A k \in DOMAIN old.milestone : old.milestone[k] = "Pending"
    BY <1>1 DEF Orderly
  <2> QED BY <2>1, <2>2, <2>3
<1>5. 1..(1 - 1) = {}
  OBVIOUS
<1>6. e.paid = SumOf(e.amount, 1..(1 - 1))
  BY <1>1, <1>3, <1>5, SumEmpty DEF Orderly
<1> HIDE DEF e, marks
<1>7. AtWork(e, 1)
  <2>1. \A k \in DOMAIN marks : (k < 1 <=> marks[k] = "Paid") /\ (k > 1 <=> marks[k] = "Pending")
    BY <1>4
  <2> QED BY <1>3, <1>4, <1>6, <2>1 DEF AtWork, Working
<1>8. Orderly(e)
  BY <1>1, <1>3, <1>4, <1>7 DEF Orderly
<1> QED BY <1>2, <1>8, OrderKept

\* Only the milestone at work can be stepped.
LEMMA AtWorkOnly ==
  ASSUME NEW e, NEW k \in DOMAIN e.milestone, NEW m, AtWork(e, m),
         DOMAIN e.milestone \subseteq Nat, e.milestone[k] \in Working
  PROVE  k = m
<1>1. ~(k < m) /\ ~(k > m)
  BY DEF AtWork, Working
<1> QED BY <1>1 DEF AtWork

LEMMA MilestoneOrder ==
  ASSUME OrderInv, escrows \in Seq(EscrowRecord), NEW id \in DOMAIN escrows,
         NEW m \in DOMAIN escrows[id].milestone, NEW from \in Working, NEW to \in Working,
         Escrow!Milestone(id, m, from, to)
  PROVE  OrderInv'
<1> DEFINE old == escrows[id]
           marks == [old.milestone EXCEPT ![m] = to]
           e == [old EXCEPT !.milestone = marks]
<1>1. /\ old \in EscrowRecord /\ Orderly(old) /\ old.status = "Active"
      /\ old.milestone[m] \in Working
  BY DEF OrderInv, Escrow!Milestone
<1>2. escrows' = [escrows EXCEPT ![id] = e]
  BY DEF Escrow!Milestone
<1>3. /\ e.amount = old.amount /\ e.milestone = marks /\ e.paid = old.paid
      /\ e.total = old.total /\ e.status = "Active"
  <2> HIDE DEF marks
  <2> QED BY <1>1 DEF EscrowRecord
<1>4. AtWork(old, m)
  <2>1. PICK n \in DOMAIN old.milestone : AtWork(old, n)
    BY <1>1 DEF Orderly
  <2>2. DOMAIN old.milestone \subseteq Nat
    BY <1>1, EscrowFields
  <2> QED BY <1>1, <2>1, <2>2, AtWorkOnly
<1>5. /\ DOMAIN marks = DOMAIN old.milestone /\ marks[m] = to
      /\ \A k \in DOMAIN marks : k # m => marks[k] = old.milestone[k]
      /\ to # "Paid" /\ to # "Pending" /\ old.milestone[m] # "Paid" /\ old.milestone[m] # "Pending"
  BY <1>1 DEF Working
<1> HIDE DEF e, marks
<1>6. \A k \in DOMAIN marks : (k < m <=> marks[k] = "Paid") /\ (k > m <=> marks[k] = "Pending")
  BY <1>4, <1>5 DEF AtWork
<1>7. AtWork(e, m)
  BY <1>3, <1>4, <1>5, <1>6 DEF AtWork
<1>8. Orderly(e)
  BY <1>1, <1>3, <1>5, <1>7 DEF Orderly
<1> QED BY <1>2, <1>8, OrderKept

\* A payment moves on to the next milestone, or ends the escrow with the last.
LEMMA ReleaseOrder ==
  ASSUME OrderInv, escrows \in Seq(EscrowRecord), NEW id \in DOMAIN escrows,
         NEW m \in DOMAIN escrows[id].milestone, Escrow!ReleasePayment(id, m)
  PROVE  OrderInv'
<1> DEFINE old == escrows[id]
           paid == old.paid + old.amount[m]
           marks == [k \in DOMAIN old.milestone |->
                       IF k = m THEN "Paid"
                       ELSE IF k = m + 1 /\ old.milestone[k] = "Pending" THEN "InProgress"
                       ELSE old.milestone[k]]
           e == [old EXCEPT !.paid = paid,
                            !.status = IF paid >= old.total THEN "Completed" ELSE @,
                            !.milestone = marks]
<1>1. /\ old \in EscrowRecord /\ Orderly(old) /\ old.status = "Active"
      /\ old.milestone[m] \in Working
  BY DEF OrderInv, Escrow!ReleasePayment, Working
<1>2. escrows' = [escrows EXCEPT ![id] = e]
  BY DEF Escrow!ReleasePayment
<1>3. /\ e.amount = old.amount /\ e.milestone = marks /\ e.paid = paid
      /\ e.total = old.total
      /\ e.status = IF paid >= old.total THEN "Completed" ELSE "Active"
  <2> HIDE DEF marks, paid
  <2> QED BY <1>1 DEF EscrowRecord
<1>4. AtWork(old, m)
  <2>1. PICK n \in DOMAIN old.milestone : AtWork(old, n)
    BY <1>1 DEF Orderly
  <2>2. DOMAIN old.milestone \subseteq Nat
    BY <1>1, EscrowFields
  <2> QED BY <1>1, <2>1, <2>2, AtWorkOnly
<1>5. /\ old.amount \in Seq(Nat) /\ m \in DOMAIN old.amount
      /\ DOMAIN old.milestone = DOMAIN old.amount
      /\ DOMAIN old.milestone = 1..Len(old.milestone) /\ Len(old.milestone) \in Nat
      /\ old.total \in Nat
  BY <1>1, EscrowFields
<1>6. paid = SumOf(old.amount, 1..m)
  BY <1>4, <1>5, SumOfFirst DEF AtWork
<1>7. CASE paid >= old.total
  <2> HIDE DEF e
  <2>1. e.status = "Completed"
    BY <1>3, <1>7
  <2>2. DOMAIN marks = DOMAIN old.milestone
    OBVIOUS
  <2>3. Orderly(e)
    BY <1>1, <1>3, <2>1, <2>2 DEF Orderly
  <2> QED BY <1>2, <2>3, OrderKept
<1>8. CASE ~(paid >= old.total)
  <2>1. m + 1 \in DOMAIN old.milestone
    <3>1. CASE m = Len(old.milestone)
      <4>1. 1..m = DOMAIN old.amount
        BY <1>5, <3>1
      <4>2. paid = old.total
        BY <1>1, <1>6, <4>1 DEF Orderly
      <4> QED BY <1>5, <1>8, <4>2
    <3> QED BY <1>5, <3>1
  <2>2. old.milestone[m + 1] = "Pending" /\ m \in Nat
    BY <1>4, <1>5, <2>1 DEF AtWork
  <2>3. DOMAIN marks = DOMAIN old.milestone /\ marks[m + 1] = "InProgress"
    BY <2>1, <2>2
  <2>4. \A k \in DOMAIN marks :
          (k < m + 1 <=> marks[k] = "Paid") /\ (k > m + 1 <=> marks[k] = "Pending")
    <3> TAKE k \in DOMAIN marks
    <3>1. k \in Nat /\ m \in Nat
      BY <1>5
    <3>2. (k < m <=> old.milestone[k] = "Paid") /\ (k > m <=> old.milestone[k] = "Pending")
      BY <1>4 DEF AtWork
    <3>3. CASE k = m
      BY <3>1, <3>3
    <3>4. CASE k = m + 1
      BY <2>3, <3>1, <3>4
    <3>5. CASE k # m /\ k # m + 1
      BY <3>1, <3>2, <3>5
    <3> QED BY <3>3, <3>4, <3>5
  <2>5. 1..((m + 1) - 1) = 1..m
    BY <2>2
  <2> HIDE DEF e, marks, paid
  <2>6. e.status = "Active"
    BY <1>3, <1>8
  <2>7. AtWork(e, m + 1)
    <3>1. e.paid = SumOf(e.amount, 1..((m + 1) - 1))
      BY <1>3, <1>6, <2>5
    <3>2. m + 1 \in DOMAIN e.milestone /\ e.milestone[m + 1] \in Working
      BY <1>3, <2>1, <2>3 DEF Working
    <3>3. \A k \in DOMAIN e.milestone :
            (k < m + 1 <=> e.milestone[k] = "Paid") /\ (k > m + 1 <=> e.milestone[k] = "Pending")
      BY <1>3, <2>4
    <3> QED BY <3>1, <3>2, <3>3 DEF AtWork
  <2>8. Orderly(e)
    BY <1>1, <1>3, <2>1, <2>3, <2>6, <2>7 DEF Orderly
  <2> QED BY <1>2, <2>8, OrderKept
<1> QED BY <1>7, <1>8

LEMMA CreateOrder ==
  ASSUME EscrowAssumption, OrderInv, escrows \in Seq(EscrowRecord), NEW n \in 1..MaxMilestones,
         NEW amounts \in [1..n -> Amount], Escrow!CreateEscrow(amounts)
  PROVE  OrderInv'
<1> DEFINE marks == [m \in DOMAIN amounts |-> "Pending"]
           new == [total |-> Escrow!SumOf(amounts), paid |-> 0, status |-> "Pending",
                   amount |-> amounts, milestone |-> marks]
<1>1. escrows' = Append(escrows, new)
  BY DEF Escrow!CreateEscrow
<1>2. Escrow!SumOf(amounts) = SumOf(amounts, DOMAIN amounts)
  BY EscrowTotal DEF Escrow!SumOf
<1>3. 1 \in DOMAIN amounts
  BY DEF EscrowAssumption
<1>4. /\ new.total = SumOf(amounts, DOMAIN amounts) /\ new.paid = 0 /\ new.status = "Pending"
      /\ new.amount = amounts /\ new.milestone = marks
  BY <1>2
<1>5. Orderly(new)
  <2> HIDE DEF new
  <2> QED BY <1>3, <1>4 DEF Orderly
<1> HIDE DEF new
<1> QED BY <1>1, <1>5 DEF OrderInv

LEMMA OrderStep ==
  ASSUME EscrowAssumption, EscrowsInv, OrderInv, [Escrow!Next]_Escrow!vars
  PROVE  OrderInv'
<1>1. escrows \in Seq(EscrowRecord)
  BY DEF EscrowsInv
<1>2. CASE UNCHANGED escrows
  BY <1>2 DEF OrderInv
<1>3. CASE Escrow!EscrowCalls
  <2>1. ASSUME NEW n \in 1..MaxMilestones, NEW amounts \in [1..n -> Amount],
               Escrow!CreateEscrow(amounts)
        PROVE  OrderInv'
    BY <1>1, <2>1, CreateOrder
  <2>2. ASSUME NEW id \in DOMAIN escrows, NEW e, Orderly(e),
               escrows' = [escrows EXCEPT ![id] = e]
        PROVE  OrderInv'
    BY <1>1, <2>2, OrderKept
  <2>3. ASSUME NEW id \in DOMAIN escrows,
               \/ Escrow!RaiseDispute(id) \/ Escrow!ResolveDispute(id)
               \/ Escrow!CancelEscrow(id)
        PROVE  OrderInv'
    <3> DEFINE old == escrows[id]
    <3>1. old \in EscrowRecord /\ Orderly(old)
      BY <1>1 DEF OrderInv
    <3>2. ASSUME NEW st, NEW p, st \notin {"Pending", "Active"}
          PROVE  Orderly([old EXCEPT !.paid = p, !.status = st])
      <4> DEFINE e == [old EXCEPT !.paid = p, !.status = st]
      <4>1. /\ e.status = st /\ e.total = old.total /\ e.amount = old.amount
        BY <3>1 DEF EscrowRecord
      <4> HIDE DEF e
      <4>2. Orderly(e)
        BY <3>1, <3>2, <4>1 DEF Orderly
      <4> QED BY <4>2 DEF e
    <3>3. \E st, p : /\ st \notin {"Pending", "Active"}
                     /\ escrows' = [escrows EXCEPT ![id] = [old EXCEPT !.paid = p, !.status = st]]
      <4>1. \A st : [old EXCEPT !.paid = old.paid, !.status = st] = [old EXCEPT !.status = st]
        BY <3>1 DEF EscrowRecord
      <4>2. CASE Escrow!RaiseDispute(id)
        <5>1. escrows' = [escrows EXCEPT ![id] = [old EXCEPT !.status = "Disputed"]]
          BY <4>2 DEF Escrow!RaiseDispute
        <5> QED BY <4>1, <5>1
      <4>3. CASE Escrow!CancelEscrow(id)
        <5>1. escrows' = [escrows EXCEPT ![id] = [old EXCEPT !.status = "Cancelled"]]
          BY <4>3 DEF Escrow!CancelEscrow
        <5> QED BY <4>1, <5>1
      <4>4. CASE Escrow!ResolveDispute(id)
        <5>1. escrows' = [escrows EXCEPT ![id] =
                 [old EXCEPT !.paid = old.total, !.status = "Completed"]]
          BY <1>1, <4>4 DEF Escrow!ResolveDispute
        <5> QED BY <5>1
      <4> QED BY <2>3, <4>2, <4>3, <4>4
    <3> HIDE DEF old
    <3> QED BY <2>2, <3>2, <3>3
  <2>4. ASSUME NEW id \in DOMAIN escrows, NEW m \in DOMAIN escrows[id].milestone,
               \/ Escrow!SubmitMilestone(id, m) \/ Escrow!ApproveMilestone(id, m)
               \/ Escrow!RejectMilestone(id, m)
        PROVE  OrderInv'
    <3>1. ASSUME NEW from \in Working, NEW to \in Working, Escrow!Milestone(id, m, from, to)
          PROVE  OrderInv'
      BY <1>1, <3>1, MilestoneOrder
    <3>2. "UnderReview" \in Working /\ "Approved" \in Working /\ "InProgress" \in Working
      BY DEF Working
    <3> QED BY <2>4, <3>1, <3>2
      DEF Escrow!SubmitMilestone, Escrow!ApproveMilestone, Escrow!RejectMilestone
  <2>5. ASSUME NEW id \in DOMAIN escrows, NEW m \in DOMAIN escrows[id].milestone,
               Escrow!ReleasePayment(id, m)
        PROVE  OrderInv'
    BY <1>1, <2>5, ReleaseOrder
  <2>6. ASSUME NEW id \in DOMAIN escrows, Escrow!Deposit(id) PROVE OrderInv'
    BY <1>1, <2>6, DepositOrder
  <2> QED BY <1>3, <2>1, <2>3, <2>4, <2>5, <2>6 DEF Escrow!EscrowCalls
<1>4. CASE Escrow!SwapCalls
  <2>1. UNCHANGED escrows
    BY <1>4 DEF Escrow!SwapCalls, Escrow!escrowVars, Escrow!CreateAtomicSwap,
       Escrow!FundAtomicSwap, Escrow!ClaimAtomicSwap, Escrow!RefundAtomicSwap,
       Escrow!CancelAtomicSwap
  <2> QED BY <1>2, <2>1
<1>5. CASE Escrow!Initialize \/ Escrow!Tick \/ UNCHANGED Escrow!vars
  BY <1>2, <1>5 DEF Escrow!Initialize, Escrow!Tick, Escrow!vars, Escrow!escrowVars
<1> QED BY <1>3, <1>4, <1>5 DEF Escrow!Next

\* Milestones are paid in their order and an active escrow is always at exactly
\* one of them, so its work never gets stuck before the last one is paid
\* (release_payment, submit_milestone, approve_milestone, reject_milestone).
THEOREM EscrowWorkInOrder ==
  ASSUME EscrowAssumption
  PROVE  Escrow!Spec => []Escrow!MilestonesInOrder
<1>1. Escrow!Init => SwapsInv /\ EscrowsInv /\ OrderInv
  <2>1. Escrow!Init => escrows = <<>>
    BY DEF Escrow!Init
  <2> QED BY <2>1, SwapsStart, EscrowsStart DEF OrderInv
<1>2. SwapsInv /\ EscrowsInv /\ OrderInv /\ [Escrow!Next]_Escrow!vars
        => SwapsInv' /\ EscrowsInv' /\ OrderInv'
  BY SwapsStep, EscrowsStep, OrderStep
<1>3. OrderInv => Escrow!MilestonesInOrder
  <2> SUFFICES ASSUME OrderInv, NEW id \in Escrow!With({"Active"})
               PROVE  \E m \in DOMAIN escrows[id].milestone : AtWork(escrows[id], m)
    BY EscrowTotal DEF Escrow!MilestonesInOrder, AtWork, Working
  <2> QED BY DEF OrderInv, Orderly, Escrow!With
<1> QED BY <1>1, <1>2, <1>3, PTL DEF Escrow!Spec

-----------------------------------------------------------------------------
(* Bridge: deposits and the votes on their proofs *)

\* Amounts are positive; a fee and a quorum come from checked arguments.
BridgeAssumption ==
  /\ Amount \subseteq Nat \ {0} /\ Bps \in Nat \ {0}
  /\ Fee \subseteq Nat /\ Expiry \subseteq Nat /\ Limit \subseteq Nat
  /\ Quorum \subseteq Nat \ {0}

Settings == [fee : Nat, expiry : Nat, limit : Nat, quorum : Nat \ {0}]
LockedDeposit == [amount : Int, expires : Int, status : Bridge!DepositStatus]
BridgeStats == [locked : Int, minted : Int, refunded : Int, active : Int]

Amounts(s) == [id \in DOMAIN s |-> s[id].amount]
Open(s) == {id \in DOMAIN s : s[id].status = "Pending"}

SettingsTyped == now \in Nat /\ (settings # Bridge!None => settings \in Settings)

DepositsInv ==
  /\ SettingsTyped
  /\ deposits \in Seq(LockedDeposit) /\ stats \in BridgeStats
  /\ stats.locked = stats.minted + stats.refunded + SumOf(Amounts(deposits), Open(deposits))
  /\ stats.active = Cardinality(Open(deposits))

LEMMA BridgeTotal == \A w, S : Bridge!Total(w, S) = SumOf(w, S)
  BY DEF Bridge!Total, Bridge!MapThenSumSet, Bridge!MapThenFoldSet, SumOf,
     MapThenSumSet, MapThenFoldSet

LEMMA BridgeCardinality == \A S : Bridge!Cardinality(S) = Cardinality(S)
  BY DEF Bridge!Cardinality, Cardinality

LEMMA DepositTables ==
  ASSUME NEW s \in Seq(LockedDeposit)
  PROVE  /\ IsFiniteSet(Open(s))
         /\ \A id \in DOMAIN s : s[id] \in LockedDeposit /\ s[id].amount \in Int
<1>1. DOMAIN s = 1..Len(s) /\ Len(s) \in Nat
  OBVIOUS
<1>2. IsFiniteSet(Open(s))
  <2>1. IsFiniteSet(DOMAIN s) /\ Open(s) \subseteq DOMAIN s
    BY <1>1, FS_Interval DEF Open
  <2> QED BY <2>1, FS_Subset
<1>3. ASSUME NEW id \in DOMAIN s PROVE s[id] \in LockedDeposit /\ s[id].amount \in Int
  <2>1. s[id] \in LockedDeposit
    OBVIOUS
  <2> QED BY <2>1 DEF LockedDeposit
<1> QED BY <1>2, <1>3

\* One deposit is new or ends: what is open changes by it.
AmountPart(s, id) == PartOf(Amounts(s), Open(s), id)
OpenPart(s, id) == IF id \in Open(s) THEN 1 ELSE 0

LEMMA OpenMoves ==
  ASSUME NEW s \in Seq(LockedDeposit), NEW r \in Seq(LockedDeposit), NEW id, OneDiffers(s, r, id)
  PROVE  /\ SumOf(Amounts(s), Open(s)) \in Int /\ Cardinality(Open(s)) \in Nat
         /\ SumOf(Amounts(r), Open(r)) =
              SumOf(Amounts(s), Open(s)) + (AmountPart(r, id) - AmountPart(s, id))
         /\ Cardinality(Open(r)) = Cardinality(Open(s)) + (OpenPart(r, id) - OpenPart(s, id))
<1>1. \A k : k # id => (k \in Open(s) <=> k \in Open(r))
  BY DEF Open, OneDiffers
<1>2. IsFiniteSet(Open(s)) /\ \A k \in Open(s) : Amounts(s)[k] \in Int
  BY DepositTables DEF Open, Amounts
<1>3. \A k \in Open(r) : Amounts(r)[k] \in Int
  BY DepositTables DEF Open, Amounts
<1>4. \A k \in Open(s) : k # id => Amounts(r)[k] = Amounts(s)[k]
  BY DEF Amounts, Open, OneDiffers
<1>5. Moves(Amounts(s), Amounts(r), Open(s), Open(r), id)
  BY <1>1, <1>2, <1>3, <1>4 DEF Moves
<1>6. /\ SumOf(Amounts(s), Open(s)) \in Int
      /\ SumOf(Amounts(r), Open(r)) =
           SumOf(Amounts(s), Open(s)) + (AmountPart(r, id) - AmountPart(s, id))
  BY <1>5, SumMoves DEF AmountPart
<1>7. /\ Cardinality(Open(s)) \in Nat
      /\ Cardinality(Open(r)) = Cardinality(Open(s))
           - (IF id \in Open(s) THEN 1 ELSE 0) + (IF id \in Open(r) THEN 1 ELSE 0)
  BY <1>1, <1>2, CardinalityMoves
<1> QED BY <1>6, <1>7 DEF OpenPart

LEMMA OpenParts ==
  ASSUME NEW s \in Seq(LockedDeposit), NEW id
  PROVE  /\ id \notin Open(s) => AmountPart(s, id) = 0 /\ OpenPart(s, id) = 0
         /\ id \in Open(s) =>
              /\ id \in DOMAIN s /\ s[id].amount \in Int
              /\ AmountPart(s, id) = s[id].amount /\ OpenPart(s, id) = 1
  BY DepositTables DEF AmountPart, OpenPart, PartOf, Open, Amounts

BridgeTotalsMove(id, amount, size) ==
  /\ deposits' \in Seq(LockedDeposit) /\ OneDiffers(deposits, deposits', id)
  /\ amount \in Int /\ size \in Int
  /\ AmountPart(deposits', id) - AmountPart(deposits, id) = amount
  /\ OpenPart(deposits', id) - OpenPart(deposits, id) = size

LEMMA DepositsMoveTotals ==
  ASSUME DepositsInv, SettingsTyped', NEW id, NEW amount, NEW size,
         BridgeTotalsMove(id, amount, size), stats' \in BridgeStats,
         stats'.locked - (stats'.minted + stats'.refunded) =
           (stats.locked - (stats.minted + stats.refunded)) + amount,
         stats'.active = stats.active + size
  PROVE  DepositsInv'
<1>1. deposits \in Seq(LockedDeposit) /\ stats \in BridgeStats
  BY DEF DepositsInv
<1>2. /\ deposits' \in Seq(LockedDeposit) /\ amount \in Int /\ size \in Int
      /\ SumOf(Amounts(deposits), Open(deposits)) \in Int
      /\ SumOf(Amounts(deposits'), Open(deposits')) =
           SumOf(Amounts(deposits), Open(deposits)) + amount
      /\ Cardinality(Open(deposits')) = Cardinality(Open(deposits)) + size
  BY <1>1, OpenMoves DEF BridgeTotalsMove
<1>3. /\ stats.locked \in Int /\ stats.minted \in Int /\ stats.refunded \in Int
      /\ stats'.locked \in Int /\ stats'.minted \in Int /\ stats'.refunded \in Int
  BY <1>1 DEF BridgeStats
<1>4. stats.locked = stats.minted + stats.refunded + SumOf(Amounts(deposits), Open(deposits))
  BY DEF DepositsInv
<1>5. stats'.locked = stats'.minted + stats'.refunded + SumOf(Amounts(deposits'), Open(deposits'))
  <2>1. stats.locked - (stats.minted + stats.refunded) = SumOf(Amounts(deposits), Open(deposits))
    BY <1>2, <1>3, <1>4
  <2>2. stats'.locked - (stats'.minted + stats'.refunded) =
          SumOf(Amounts(deposits), Open(deposits)) + amount
    BY <2>1
  <2>3. stats'.locked - (stats'.minted + stats'.refunded) =
          SumOf(Amounts(deposits'), Open(deposits'))
    BY <1>2, <2>2
  <2>4. SumOf(Amounts(deposits'), Open(deposits')) \in Int
    BY <1>2
  <2> QED BY <1>3, <2>3, <2>4
<1>6. stats'.active = Cardinality(Open(deposits'))
  BY <1>2 DEF DepositsInv
<1> QED BY <1>2, <1>5, <1>6 DEF DepositsInv

LEMMA LockStep ==
  ASSUME BridgeAssumption, DepositsInv, NEW n \in Amount, Bridge!Lock(n)
  PROVE  DepositsInv'
<1> DEFINE net == n - (n * settings.fee) \div Bps
           id == Len(deposits) + 1
           new == [amount |-> net, expires |-> now + settings.expiry, status |-> "Pending"]
<1>1. deposits \in Seq(LockedDeposit) /\ stats \in BridgeStats /\ settings \in Settings /\ now \in Nat
  BY DEF DepositsInv, SettingsTyped, Bridge!Lock
<1>2. net \in Int /\ now + settings.expiry \in Int
  <2>1. settings.fee \in Int /\ settings.expiry \in Int
    BY <1>1 DEF Settings
  <2>2. n \in Int /\ Bps \in Int /\ Bps > 0
    BY DEF BridgeAssumption
  <2>3. n * settings.fee \in Int
    BY <2>1, <2>2
  <2>4. (n * settings.fee) \div Bps \in Int
    BY <2>2, <2>3
  <2> QED BY <1>1, <2>1, <2>2, <2>4
<1>3. deposits' = Append(deposits, new)
  BY DEF Bridge!Lock
<1>4. stats' = [stats EXCEPT !.locked = @ + net, !.active = @ + 1]
  BY DEF Bridge!Lock
<1>5. SettingsTyped'
  BY DEF DepositsInv, SettingsTyped, Bridge!Lock
<1>6. new \in LockedDeposit /\ new.status = "Pending" /\ new.amount = net
  <2> HIDE DEF net
  <2> QED BY <1>2 DEF LockedDeposit, Bridge!DepositStatus
<1> HIDE DEF net, new
<1>7. /\ deposits' \in Seq(LockedDeposit) /\ id \notin DOMAIN deposits
      /\ id \in DOMAIN deposits' /\ deposits'[id] = new
  BY <1>1, <1>3, <1>6
<1>8. OneDiffers(deposits, deposits', id)
  BY <1>1, <1>3, <1>6 DEF OneDiffers
<1>9. BridgeTotalsMove(id, net, 1)
  <2>1. id \notin Open(deposits) /\ id \in Open(deposits')
    BY <1>6, <1>7 DEF Open
  <2>2. AmountPart(deposits, id) = 0 /\ OpenPart(deposits, id) = 0
    BY <1>1, <2>1, OpenParts
  <2>3. AmountPart(deposits', id) = net /\ OpenPart(deposits', id) = 1
    BY <1>6, <1>7, <2>1, OpenParts
  <2> QED BY <1>2, <1>7, <1>8, <2>2, <2>3 DEF BridgeTotalsMove
<1>10. /\ stats.locked \in Int /\ stats.minted \in Int /\ stats.refunded \in Int
       /\ stats.active \in Int /\ stats.locked + net \in Int /\ stats.active + 1 \in Int
  <2>1. /\ stats.locked \in Int /\ stats.minted \in Int /\ stats.refunded \in Int
        /\ stats.active \in Int
    BY <1>1 DEF BridgeStats
  <2> QED BY <1>2, <2>1
<1>11. stats' \in BridgeStats
  BY <1>1, <1>4, <1>10 DEF BridgeStats
<1>12. /\ stats'.locked = stats.locked + net /\ stats'.minted = stats.minted
       /\ stats'.refunded = stats.refunded /\ stats'.active = stats.active + 1
  BY <1>1, <1>4 DEF BridgeStats
<1>13. stats'.locked - (stats'.minted + stats'.refunded) =
         (stats.locked - (stats.minted + stats.refunded)) + net
  BY <1>2, <1>10, <1>12
<1> QED BY <1>5, <1>9, <1>11, <1>12, <1>13, DepositsMoveTotals

LEMMA StatsEnd ==
  ASSUME NEW x \in BridgeStats, NEW n \in Int, NEW y,
         \/ y = [x EXCEPT !.minted = @ + n, !.active = @ - 1]
         \/ y = [x EXCEPT !.refunded = @ + n, !.active = @ - 1]
  PROVE  /\ y \in BridgeStats
         /\ y.locked - (y.minted + y.refunded) = (x.locked - (x.minted + x.refunded)) + (-n)
         /\ y.active = x.active + (-1)
<1> DEFINE Ended(z) ==
     /\ z \in BridgeStats
     /\ z.locked - (z.minted + z.refunded) = (x.locked - (x.minted + x.refunded)) + (-n)
     /\ z.active = x.active + (-1)
<1>1. /\ x.locked \in Int /\ x.minted \in Int /\ x.refunded \in Int /\ x.active \in Int
      /\ x.minted + n \in Int /\ x.refunded + n \in Int /\ x.active - 1 \in Int
  BY DEF BridgeStats
<1>2. ASSUME NEW z, z = [x EXCEPT !.minted = @ + n, !.active = @ - 1] PROVE Ended(z)
  <2>1. z \in BridgeStats
    BY <1>1, <1>2 DEF BridgeStats
  <2>2. /\ z.locked = x.locked /\ z.minted = x.minted + n
        /\ z.refunded = x.refunded /\ z.active = x.active - 1
    BY <1>2 DEF BridgeStats
  <2>3. /\ x.locked - ((x.minted + n) + x.refunded) = (x.locked - (x.minted + x.refunded)) + (-n)
        /\ x.active - 1 = x.active + (-1)
    BY <1>1
  <2> QED BY <2>1, <2>2, <2>3
<1>3. ASSUME NEW z, z = [x EXCEPT !.refunded = @ + n, !.active = @ - 1] PROVE Ended(z)
  <2>1. z \in BridgeStats
    BY <1>1, <1>3 DEF BridgeStats
  <2>2. /\ z.locked = x.locked /\ z.minted = x.minted
        /\ z.refunded = x.refunded + n /\ z.active = x.active - 1
    BY <1>3 DEF BridgeStats
  <2>3. /\ x.locked - (x.minted + (x.refunded + n)) = (x.locked - (x.minted + x.refunded)) + (-n)
        /\ x.active - 1 = x.active + (-1)
    BY <1>1
  <2> QED BY <2>1, <2>2, <2>3
<1> HIDE DEF Ended
<1>4. Ended(y)
  BY <1>2, <1>3
<1> QED BY <1>4 DEF Ended

\* A deposit that is pending ends, once.
LEMMA DepositEnds ==
  ASSUME DepositsInv, NEW id \in DOMAIN deposits, deposits[id].status = "Pending",
         NEW status \in {"Minted", "Refunded"},
         deposits' = [deposits EXCEPT ![id].status = status],
         \/ stats' = [stats EXCEPT !.minted = @ + deposits[id].amount,
                                   !.active = Bridge!Max({0, @ - 1})]
         \/ stats' = [stats EXCEPT !.refunded = @ + deposits[id].amount,
                                   !.active = Bridge!Max({0, @ - 1})],
         UNCHANGED <<settings, now>>
  PROVE  DepositsInv'
<1> DEFINE n == deposits[id].amount
           new == [deposits[id] EXCEPT !.status = status]
<1>1. /\ deposits \in Seq(LockedDeposit) /\ stats \in BridgeStats
      /\ deposits[id] \in LockedDeposit /\ n \in Int
  BY DepositTables DEF DepositsInv
<1>2. deposits' = [deposits EXCEPT ![id] = new]
  OBVIOUS
<1>3. new \in LockedDeposit /\ new.status = status
  BY <1>1 DEF LockedDeposit, Bridge!DepositStatus
<1> HIDE DEF new
<1>4. /\ deposits' \in Seq(LockedDeposit) /\ id \in DOMAIN deposits' /\ deposits'[id] = new
      /\ OneDiffers(deposits, deposits', id)
  BY <1>1, <1>2, <1>3 DEF OneDiffers
<1>5. BridgeTotalsMove(id, -n, -1)
  <2>1. id \in Open(deposits) /\ id \notin Open(deposits')
    BY <1>3, <1>4 DEF Open
  <2>2. AmountPart(deposits, id) = n /\ OpenPart(deposits, id) = 1
    BY <1>1, <2>1, OpenParts
  <2>3. AmountPart(deposits', id) = 0 /\ OpenPart(deposits', id) = 0
    BY <1>4, <2>1, OpenParts
  <2> HIDE DEF n
  <2> QED BY <1>1, <1>4, <2>2, <2>3 DEF BridgeTotalsMove
<1>6. stats.active \in Int /\ stats.active >= 1
  <2>1. stats.active = Cardinality(Open(deposits)) /\ Cardinality(Open(deposits)) \in Nat
    BY <1>1, <1>4, OpenMoves DEF DepositsInv
  <2>2. id \in Open(deposits)
    BY DEF Open
  <2>3. IsFiniteSet(Open(deposits))
    BY <1>1, DepositTables
  <2>4. Cardinality(Open(deposits)) # 0
    BY <2>2, <2>3, FS_EmptySet
  <2> QED BY <2>1, <2>4
<1>7. Bridge!Max({0, stats.active - 1}) = stats.active - 1
  <2> DEFINE m == stats.active - 1
  <2>1. m \in Int /\ m >= 0
    BY <1>6
  <2> HIDE DEF m
  <2>2. m \in {0, m} /\ \A y \in {0, m} : m >= y
    BY <2>1
  <2>3. \A x \in {0, m} : (\A y \in {0, m} : x >= y) => x = m
    BY <2>1
  <2>4. Bridge!Max({0, m}) = CHOOSE x \in {0, m} : \A y \in {0, m} : x >= y
    BY DEF Bridge!Max
  <2> QED BY <2>2, <2>3, <2>4 DEF m
<1>8. /\ stats' \in BridgeStats
      /\ stats'.locked - (stats'.minted + stats'.refunded) =
           (stats.locked - (stats.minted + stats.refunded)) + (-n)
      /\ stats'.active = stats.active + (-1)
  <2>1. \/ stats' = [stats EXCEPT !.minted = @ + n, !.active = @ - 1]
        \/ stats' = [stats EXCEPT !.refunded = @ + n, !.active = @ - 1]
    BY <1>7, Zenon
  <2> HIDE DEF n
  <2> QED BY <1>1, <2>1, StatsEnd, Zenon
<1>9. SettingsTyped'
  BY DEF DepositsInv, SettingsTyped
<1> QED BY <1>5, <1>8, <1>9, DepositsMoveTotals

LEMMA BridgeStart == ASSUME Bridge!Init PROVE DepositsInv
<1>1. deposits = <<>> /\ stats = Bridge!NoStats /\ settings = Bridge!None /\ now = 0
  BY DEF Bridge!Init
<1>2. Open(deposits) = {}
  BY <1>1 DEF Open
<1>3. Cardinality(Open(deposits)) = 0 /\ SumOf(Amounts(deposits), Open(deposits)) = 0
  BY <1>2, FS_EmptySet, SumEmpty
<1> QED BY <1>1, <1>3 DEF DepositsInv, SettingsTyped, BridgeStats, Bridge!NoStats

\* A call that neither locks nor ends a deposit.
BridgeQuiet == UNCHANGED <<deposits, stats>> /\ SettingsTyped'

LEMMA AdministerStep ==
  ASSUME BridgeAssumption, SettingsTyped,
         \/ Bridge!Tick
         \/ \E fee \in Fee, e \in Expiry, limit \in Limit : Bridge!Initialize(fee, e, limit)
         \/ \E fee \in Fee : Bridge!SetFee(fee)
         \/ \E e \in Expiry : Bridge!SetExpiry(e)
         \/ \E limit \in Limit : Bridge!SetDailyLimit(limit)
         \/ \E q \in Quorum : Bridge!SetValidatorQuorum(q)
         \/ \E b \in BOOLEAN : Bridge!SetPaused(b)
         \/ \E r \in Relayer, b \in BOOLEAN : Bridge!SetRelayer(r, b)
         \/ \E v \in Validator, b \in BOOLEAN : Bridge!SetValidator(v, b)
  PROVE  BridgeQuiet
<1>1. CASE Bridge!Tick
  BY <1>1 DEF Bridge!Tick, BridgeQuiet, SettingsTyped
<1>2. CASE \E fee \in Fee, e \in Expiry, limit \in Limit : Bridge!Initialize(fee, e, limit)
  BY <1>2 DEF Bridge!Initialize, BridgeQuiet, SettingsTyped, Settings, BridgeAssumption
<1>3. ASSUME NEW s, NEW p, NEW r, NEW v, Bridge!Administer(s, p, r, v), s \in Settings
      PROVE  BridgeQuiet
  BY <1>3 DEF Bridge!Administer, BridgeQuiet, SettingsTyped
<1>4. ASSUME settings \in Settings
      PROVE  /\ \A fee \in Fee : [settings EXCEPT !.fee = fee] \in Settings
             /\ \A e \in Expiry : [settings EXCEPT !.expiry = e] \in Settings
             /\ \A limit \in Limit : [settings EXCEPT !.limit = limit] \in Settings
             /\ \A q \in Quorum : [settings EXCEPT !.quorum = q] \in Settings
  BY <1>4 DEF Settings, BridgeAssumption
<1>5. CASE \E fee \in Fee : Bridge!SetFee(fee)
  BY <1>3, <1>4, <1>5 DEF Bridge!SetFee, Bridge!Set, Bridge!Administer, SettingsTyped
<1>6. CASE \E e \in Expiry : Bridge!SetExpiry(e)
  BY <1>3, <1>4, <1>6 DEF Bridge!SetExpiry, Bridge!Set, Bridge!Administer, SettingsTyped
<1>7. CASE \E limit \in Limit : Bridge!SetDailyLimit(limit)
  BY <1>3, <1>4, <1>7 DEF Bridge!SetDailyLimit, Bridge!Set, Bridge!Administer, SettingsTyped
<1>8. CASE \E q \in Quorum : Bridge!SetValidatorQuorum(q)
  BY <1>3, <1>4, <1>8 DEF Bridge!SetValidatorQuorum, Bridge!Set, Bridge!Administer, SettingsTyped
<1>9. CASE \/ \E b \in BOOLEAN : Bridge!SetPaused(b)
           \/ \E r \in Relayer, b \in BOOLEAN : Bridge!SetRelayer(r, b)
           \/ \E v \in Validator, b \in BOOLEAN : Bridge!SetValidator(v, b)
  <2>1. UNCHANGED <<deposits, stats, settings, now>>
    BY <1>9 DEF Bridge!SetPaused, Bridge!SetRelayer, Bridge!SetValidator, Bridge!Administer
  <2> QED BY <2>1 DEF BridgeQuiet, SettingsTyped
<1> QED BY <1>1, <1>2, <1>5, <1>6, <1>7, <1>8, <1>9

LEMMA BridgeStep ==
  ASSUME BridgeAssumption, DepositsInv, [Bridge!Next]_Bridge!vars
  PROVE  DepositsInv'
<1>1. ASSUME BridgeQuiet PROVE DepositsInv'
  BY <1>1 DEF BridgeQuiet, DepositsInv
<1>2. ASSUME NEW n \in Amount, Bridge!Lock(n) PROVE DepositsInv'
  BY <1>2, LockStep
<1>3. ASSUME NEW id \in DOMAIN deposits, Bridge!Minted(id) PROVE DepositsInv'
  BY <1>3, DepositEnds DEF Bridge!Minted
<1>4. ASSUME NEW id \in DOMAIN deposits, Bridge!Refund(id) PROVE DepositsInv'
  BY <1>4, DepositEnds DEF Bridge!Refund
<1>5. ASSUME NEW id, NEW v, NEW h, Bridge!SubmitProof(v, id, h) PROVE DepositsInv'
  <2>1. BridgeQuiet
    BY <1>5 DEF Bridge!SubmitProof, BridgeQuiet, DepositsInv, SettingsTyped
  <2> QED BY <1>1, <2>1
<1>6. CASE UNCHANGED Bridge!vars
  <2>1. BridgeQuiet
    BY <1>6 DEF Bridge!vars, BridgeQuiet, DepositsInv, SettingsTyped
  <2> QED BY <1>1, <2>1
<1>7. SettingsTyped
  BY DEF DepositsInv
<1> QED BY <1>1, <1>2, <1>3, <1>4, <1>5, <1>6, <1>7, AdministerStep
  DEF Bridge!Next, Bridge!ConfirmMint, Bridge!ConfirmMintWithProof

\* The totals of the bridge account for every deposit: what was locked was
\* minted, refunded or is pending, and no count runs past its saturating
\* subtraction (lock, confirm_mint, refund).
THEOREM BridgeAccountsForDeposits ==
  ASSUME BridgeAssumption
  PROVE  Bridge!Spec => []Bridge!DepositsAccounted
<1>1. Bridge!Init => DepositsInv
  BY BridgeStart
<1>2. DepositsInv /\ [Bridge!Next]_Bridge!vars => DepositsInv'
  BY BridgeStep
<1>3. DepositsInv => Bridge!DepositsAccounted
  <2>1. Bridge!PendingIds = Open(deposits)
    BY DEF Bridge!PendingIds, Open
  <2> QED BY <2>1, BridgeTotal, BridgeCardinality DEF DepositsInv, Amounts, Bridge!DepositsAccounted
<1> QED BY <1>1, <1>2, <1>3, PTL DEF Bridge!Spec

\* A deposit is minted or refunded once, never both: minted no later than it
\* expires and refunded only later, whatever the settings become.
THEOREM BridgeDepositsEndOnce ==
  ASSUME BridgeAssumption
  PROVE  Bridge!Spec => [][Bridge!EndsOnce]_Bridge!vars
<1>1. Bridge!Init => DepositsInv
  BY BridgeStart
<1>2. DepositsInv /\ [Bridge!Next]_Bridge!vars => DepositsInv'
  BY BridgeStep
<1>3. DepositsInv /\ [Bridge!Next]_Bridge!vars => [Bridge!EndsOnce]_Bridge!vars
  <2> SUFFICES ASSUME DepositsInv, Bridge!Next PROVE Bridge!EndsOnce
    OBVIOUS
  <2>1. deposits \in Seq(LockedDeposit) /\ SettingsTyped
    BY DEF DepositsInv
  <2>2. CASE UNCHANGED deposits
    BY <2>2 DEF Bridge!EndsOnce
  <2>3. ASSUME NEW n \in Amount, Bridge!Lock(n) PROVE Bridge!EndsOnce
    <3>1. \A new : deposits' = Append(deposits, new) =>
             \A id \in DOMAIN deposits : deposits'[id] = deposits[id]
      BY <2>1
    <3>2. \E new : deposits' = Append(deposits, new)
      BY <2>3 DEF Bridge!Lock
    <3> QED BY <3>1, <3>2 DEF Bridge!EndsOnce
  <2>4. ASSUME NEW id \in DOMAIN deposits, Bridge!Minted(id) PROVE Bridge!EndsOnce
    <3>1. deposits' = [deposits EXCEPT ![id].status = "Minted"] /\ deposits[id].status = "Pending"
      BY <2>4 DEF Bridge!Minted
    <3>2. \A k \in DOMAIN deposits : deposits[k] \in LockedDeposit
      BY <2>1
    <3> QED BY <3>1, <3>2 DEF Bridge!EndsOnce, LockedDeposit
  <2>5. ASSUME NEW id \in DOMAIN deposits, Bridge!Refund(id) PROVE Bridge!EndsOnce
    <3>1. /\ deposits' = [deposits EXCEPT ![id].status = "Refunded"]
          /\ deposits[id].status = "Pending" /\ now > deposits[id].expires
      BY <2>5 DEF Bridge!Refund
    <3>2. \A k \in DOMAIN deposits : deposits[k] \in LockedDeposit
      BY <2>1
    <3> QED BY <3>1, <3>2 DEF Bridge!EndsOnce, LockedDeposit
  <2>6. ASSUME NEW id, NEW v, NEW h, Bridge!SubmitProof(v, id, h) PROVE Bridge!EndsOnce
    BY <2>2, <2>6 DEF Bridge!SubmitProof
  <2>7. BridgeQuiet => UNCHANGED deposits
    BY DEF BridgeQuiet
  <2> QED BY <2>1, <2>2, <2>3, <2>4, <2>5, <2>6, <2>7, AdministerStep
    DEF Bridge!Next, Bridge!ConfirmMint, Bridge!ConfirmMintWithProof
<1> QED BY <1>1, <1>2, <1>3, PTL DEF Bridge!Spec

\* The votes on a proof.
ProofRecord == [hash : Hash, count : Nat, status : {"Pending", "Verified"}]

VotesInv ==
  /\ proofs \in Seq(ProofRecord \cup {Bridge!None}) /\ voted \in Seq(SUBSET Validator)
  /\ Len(proofs) = Len(deposits) /\ Len(voted) = Len(deposits)
  /\ \A id \in DOMAIN proofs :
       /\ IsFiniteSet(voted[id])
       /\ proofs[id] = Bridge!None => voted[id] = {}
       /\ proofs[id] # Bridge!None =>
            proofs[id].count = Cardinality(voted[id]) /\ proofs[id].count >= 1

LEMMA RecordIsSome == ASSUME NEW p \in ProofRecord PROVE p # Bridge!None
<1>1. DOMAIN p = {"hash", "count", "status"}
  BY DEF ProofRecord
<1>2. DOMAIN Bridge!None = {"none"}
  BY DEF Bridge!None
<1>3. "hash" \notin {"none"}
  OBVIOUS
<1> QED BY <1>1, <1>2, <1>3

LEMMA ProofStep ==
  ASSUME DepositsInv, VotesInv, NEW id \in DOMAIN deposits,
         NEW v \in Validator, NEW h \in Hash, Bridge!SubmitProof(v, id, h)
  PROVE  VotesInv'
<1> DEFINE old == IF proofs[id] = Bridge!None THEN [hash |-> h, count |-> 0, status |-> "Pending"]
                  ELSE proofs[id]
           new == [old EXCEPT !.count = @ + 1,
                              !.status = IF old.count + 1 >= settings.quorum THEN "Verified"
                                         ELSE "Pending"]
<1>1. /\ proofs \in Seq(ProofRecord \cup {Bridge!None}) /\ IsFiniteSet(voted[id])
      /\ DOMAIN voted = DOMAIN proofs /\ id \in DOMAIN proofs
      /\ voted \in Seq(SUBSET Validator) /\ deposits \in Seq(LockedDeposit)
      /\ Len(proofs) = Len(deposits) /\ Len(voted) = Len(deposits)
  <2>1. deposits \in Seq(LockedDeposit)
    BY DEF DepositsInv
  <2> QED BY <2>1 DEF VotesInv
<1>2. old \in ProofRecord /\ old.count = Cardinality(voted[id])
  <2>1. CASE proofs[id] = Bridge!None
    <3>1. voted[id] = {} /\ Cardinality({}) = 0
      BY <1>1, <2>1, FS_EmptySet DEF VotesInv
    <3> QED BY <2>1, <3>1, SMT DEF ProofRecord
  <2>2. CASE proofs[id] # Bridge!None
    <3>1. proofs[id] \in ProofRecord
      BY <1>1, <2>2
    <3> QED BY <1>1, <2>2, <3>1 DEF VotesInv
  <2> QED BY <2>1, <2>2
<1>3. /\ v \notin voted[id]
      /\ voted' = [voted EXCEPT ![id] = @ \cup {v}]
      /\ proofs' = [proofs EXCEPT ![id] = new]
  BY DEF Bridge!SubmitProof
<1> HIDE DEF old
<1>4. old.count \in Nat
  BY <1>2 DEF ProofRecord
<1>5. new \in ProofRecord /\ new.count = old.count + 1
  <2> DEFINE c == old.count + 1
             st == IF old.count + 1 >= settings.quorum THEN "Verified" ELSE "Pending"
  <2>1. c \in Nat /\ st \in {"Pending", "Verified"}
    BY <1>4
  <2>2. new = [old EXCEPT !.count = c, !.status = st]
    OBVIOUS
  <2> HIDE DEF new, st, c
  <2>3. new \in ProofRecord /\ new.count = c
    BY <1>2, <2>1, <2>2 DEF ProofRecord
  <2> QED BY <2>3 DEF c
<1> HIDE DEF new
<1>6. new # Bridge!None
  BY <1>5, RecordIsSome
<1>7. /\ IsFiniteSet(voted[id] \cup {v})
      /\ new.count = Cardinality(voted[id] \cup {v}) /\ new.count >= 1
  BY <1>1, <1>2, <1>3, <1>4, <1>5, FS_AddElement
<1>8. /\ proofs' \in Seq(ProofRecord \cup {Bridge!None}) /\ voted' \in Seq(SUBSET Validator)
      /\ Len(proofs') = Len(proofs) /\ Len(voted') = Len(voted)
      /\ DOMAIN proofs' = DOMAIN proofs /\ deposits' = deposits
  BY <1>1, <1>3, <1>5 DEF Bridge!SubmitProof
<1>9. ASSUME NEW k \in DOMAIN proofs
      PROVE  /\ IsFiniteSet(voted'[k])
             /\ proofs'[k] = Bridge!None => voted'[k] = {}
             /\ proofs'[k] # Bridge!None =>
                  proofs'[k].count = Cardinality(voted'[k]) /\ proofs'[k].count >= 1
  <2>1. CASE k = id
    <3>1. proofs'[k] = new /\ voted'[k] = voted[id] \cup {v}
      BY <1>1, <1>3, <2>1
    <3> QED BY <1>6, <1>7, <3>1
  <2>2. CASE k # id
    <3>1. proofs'[k] = proofs[k] /\ voted'[k] = voted[k]
      BY <1>1, <1>3, <2>2
    <3> QED BY <3>1 DEF VotesInv
  <2> QED BY <2>1, <2>2
<1> QED BY <1>1, <1>8, <1>9 DEF VotesInv


LEMMA NewProof ==
  ASSUME DepositsInv, VotesInv, NEW n, Bridge!Lock(n)
  PROVE  VotesInv'
<1>1. /\ proofs' = Append(proofs, Bridge!None) /\ voted' = Append(voted, {})
      /\ \E new : deposits' = Append(deposits, new)
  BY DEF Bridge!Lock
<1>2. /\ proofs \in Seq(ProofRecord \cup {Bridge!None}) /\ voted \in Seq(SUBSET Validator)
      /\ Len(proofs) = Len(deposits) /\ Len(voted) = Len(deposits)
      /\ deposits \in Seq(LockedDeposit)
  BY DEF VotesInv, DepositsInv
<1>3. /\ proofs' \in Seq(ProofRecord \cup {Bridge!None}) /\ voted' \in Seq(SUBSET Validator)
      /\ Len(proofs') = Len(deposits') /\ Len(voted') = Len(deposits')
      /\ Len(proofs') = Len(proofs) + 1
  BY <1>1, <1>2
<1>4. ASSUME NEW k \in DOMAIN proofs'
      PROVE  /\ IsFiniteSet(voted'[k])
             /\ proofs'[k] = Bridge!None => voted'[k] = {}
             /\ proofs'[k] # Bridge!None =>
                  proofs'[k].count = Cardinality(voted'[k]) /\ proofs'[k].count >= 1
  <2>1. CASE k \in DOMAIN proofs
    <3>1. proofs'[k] = proofs[k] /\ voted'[k] = voted[k]
      BY <1>1, <1>2, <2>1
    <3> QED BY <2>1, <3>1 DEF VotesInv
  <2>2. CASE k \notin DOMAIN proofs
    <3>1. proofs'[k] = Bridge!None /\ voted'[k] = {}
      BY <1>1, <1>2, <1>3, <2>2
    <3> QED BY <3>1, FS_EmptySet
  <2> QED BY <2>1, <2>2
<1> QED BY <1>3, <1>4 DEF VotesInv

LEMMA VotesStep ==
  ASSUME BridgeAssumption, DepositsInv, VotesInv, [Bridge!Next]_Bridge!vars
  PROVE  VotesInv'
<1>1. ASSUME UNCHANGED <<proofs, voted>>, Len(deposits') = Len(deposits) PROVE VotesInv'
  BY <1>1 DEF VotesInv
<1>2. deposits \in Seq(LockedDeposit)
  BY DEF DepositsInv
<1>3. ASSUME NEW n, Bridge!Lock(n) PROVE VotesInv'
  BY <1>3, NewProof
<1>4. ASSUME NEW id \in DOMAIN deposits, NEW st, deposits' = [deposits EXCEPT ![id].status = st]
      PROVE  Len(deposits') = Len(deposits)
  BY <1>2, <1>4
<1>5. ASSUME NEW id \in DOMAIN deposits, Bridge!Minted(id) \/ Bridge!Refund(id) PROVE VotesInv'
  <2>1. /\ UNCHANGED <<proofs, voted>>
        /\ \E st : deposits' = [deposits EXCEPT ![id].status = st]
    BY <1>5 DEF Bridge!Minted, Bridge!Refund
  <2> QED BY <1>1, <1>4, <2>1
<1>6. ASSUME NEW id \in DOMAIN deposits, NEW v \in Validator, NEW h \in Hash,
             Bridge!SubmitProof(v, id, h)
      PROVE  VotesInv'
  BY <1>6, ProofStep
<1>7. ASSUME UNCHANGED <<proofs, voted, deposits>> PROVE VotesInv'
  BY <1>1, <1>7
<1>8. CASE UNCHANGED Bridge!vars
  BY <1>7, <1>8 DEF Bridge!vars
<1>9. CASE \/ Bridge!Tick
           \/ \E fee \in Fee, e \in Expiry, limit \in Limit : Bridge!Initialize(fee, e, limit)
           \/ \E fee \in Fee : Bridge!SetFee(fee)
           \/ \E e \in Expiry : Bridge!SetExpiry(e)
           \/ \E limit \in Limit : Bridge!SetDailyLimit(limit)
           \/ \E q \in Quorum : Bridge!SetValidatorQuorum(q)
           \/ \E b \in BOOLEAN : \/ Bridge!SetPaused(b)
                                 \/ \E r \in Relayer : Bridge!SetRelayer(r, b)
                                 \/ \E v \in Validator : Bridge!SetValidator(v, b)
  <2>1. UNCHANGED <<proofs, voted, deposits>>
    BY <1>9 DEF Bridge!Tick, Bridge!Initialize, Bridge!SetFee, Bridge!SetExpiry,
       Bridge!SetDailyLimit, Bridge!SetValidatorQuorum, Bridge!SetPaused,
       Bridge!SetRelayer, Bridge!SetValidator, Bridge!Set, Bridge!Administer
  <2> QED BY <1>7, <2>1
<1> QED BY <1>3, <1>5, <1>6, <1>8, <1>9
  DEF Bridge!Next, Bridge!ConfirmMint, Bridge!ConfirmMintWithProof

\* The count of a proof is the number of validators who voted for it: nobody is
\* counted twice, although validators and quorum change (submit_proof).
THEOREM BridgeCountsVotes ==
  ASSUME BridgeAssumption
  PROVE  Bridge!Spec => []Bridge!VotesCounted
<1>1. Bridge!Init => DepositsInv /\ VotesInv
  <2>1. Bridge!Init => proofs = <<>> /\ voted = <<>> /\ deposits = <<>>
    BY DEF Bridge!Init
  <2>2. proofs = <<>> /\ voted = <<>> /\ deposits = <<>> => VotesInv
    BY DEF VotesInv
  <2> QED BY <2>1, <2>2, BridgeStart
<1>2. DepositsInv /\ VotesInv /\ [Bridge!Next]_Bridge!vars => DepositsInv' /\ VotesInv'
  BY BridgeStep, VotesStep
<1>3. VotesInv => Bridge!VotesCounted
  BY BridgeCardinality DEF VotesInv, Bridge!VotesCounted
<1> QED BY <1>1, <1>2, <1>3, PTL DEF Bridge!Spec

-----------------------------------------------------------------------------
(* Treasury: signers, approvals and payments *)

TreasuryAssumption ==
  /\ Contract = "dao-treasury"
  /\ IsFiniteSet(Address)
  /\ Amount \subseteq Nat \ {0} /\ Threshold \subseteq Nat \ {0}
  /\ Timelock \in Nat /\ TxExpiry \in Nat

Tx == [amount : Nat, recipient : BOOLEAN, status : Treasury!TxStatus, approvals : Nat,
       after : Int, expires : Int]

Signers(f) == {x \in Address : f[x] # Treasury!NoRole}

SignersInv ==
  /\ initialized \in BOOLEAN /\ held \in Int /\ now \in Int /\ threshold \in Int
  /\ role \in [Address -> Int] /\ signerCount = Cardinality(Signers(role))
  /\ ~initialized => Signers(role) = {}

PaymentsInv ==
  /\ txs \in Seq(Tx) /\ approved \in Seq(SUBSET Address) /\ Len(approved) = Len(txs)
  /\ \A id \in DOMAIN txs :
       /\ txs[id].approvals = Cardinality(approved[id])
       /\ txs[id].status \in {"Queued", "Executed"} => txs[id].approvals >= 1

LEMMA TreasuryCardinality == \A S : Treasury!Cardinality(S) = Cardinality(S)
  BY DEF Treasury!Cardinality, Cardinality

LEMMA TreasuryStart ==
  ASSUME TreasuryAssumption, Treasury!Init
  PROVE  SignersInv /\ PaymentsInv
<1>1. /\ initialized = FALSE /\ held = 0 /\ now = 0 /\ threshold = 1 /\ signerCount = 0
      /\ role = [x \in Address |-> Treasury!NoRole] /\ txs = <<>> /\ approved = <<>>
  BY DEF Treasury!Init, Treasury!TreasuryInit
<1>2. Signers(role) = {}
  BY <1>1 DEF Signers
<1>3. Cardinality(Signers(role)) = 0
  BY <1>2, FS_EmptySet
<1>4. role \in [Address -> Int]
  BY <1>1 DEF Treasury!NoRole
<1>5. PaymentsInv
  BY <1>1 DEF PaymentsInv
<1>6. initialized \in BOOLEAN /\ (~initialized => Signers(role) = {})
  BY <1>1, <1>2, Zenon
<1>7. held \in Int /\ now \in Int /\ threshold \in Int /\ signerCount = Cardinality(Signers(role))
  BY <1>1, <1>3
<1> QED BY <1>4, <1>5, <1>6, <1>7, Zenon DEF SignersInv

\* The role of one address changes.
LEMMA OneRole ==
  ASSUME TreasuryAssumption, SignersInv, NEW x \in Address, NEW r \in Int,
         role' = [role EXCEPT ![x] = r]
  PROVE  /\ role' \in [Address -> Int] /\ Cardinality(Signers(role)) \in Nat
         /\ role'[x] = r
         /\ role[x] = Treasury!NoRole /\ r # Treasury!NoRole =>
              Cardinality(Signers(role')) = Cardinality(Signers(role)) + 1
         /\ role[x] # Treasury!NoRole /\ r = Treasury!NoRole =>
              Cardinality(Signers(role')) = Cardinality(Signers(role)) - 1
<1>1. role \in [Address -> Int] /\ role' \in [Address -> Int] /\ role'[x] = r
  BY DEF SignersInv
<1>2. \A y : y # x => (y \in Signers(role) <=> y \in Signers(role'))
  BY <1>1 DEF Signers
<1>3. IsFiniteSet(Signers(role))
  <2>1. Signers(role) \subseteq Address
    BY DEF Signers
  <2> QED BY <2>1, FS_Subset DEF TreasuryAssumption
<1>4. /\ x \in Signers(role) <=> role[x] # Treasury!NoRole
      /\ x \in Signers(role') <=> r # Treasury!NoRole
  BY <1>1 DEF Signers
<1>5. /\ Cardinality(Signers(role)) \in Nat
      /\ Cardinality(Signers(role')) = Cardinality(Signers(role))
           - (IF x \in Signers(role) THEN 1 ELSE 0) + (IF x \in Signers(role') THEN 1 ELSE 0)
  <2>1. ASSUME NEW T, NEW U, IsFiniteSet(T), \A y : y # x => (y \in T <=> y \in U)
        PROVE  /\ Cardinality(T) \in Nat
               /\ Cardinality(U) = Cardinality(T)
                    - (IF x \in T THEN 1 ELSE 0) + (IF x \in U THEN 1 ELSE 0)
    BY <2>1, CardinalityMoves
  <2> QED BY <1>2, <1>3, <2>1, Zenon
<1>6. x \notin Signers(role) /\ x \in Signers(role') =>
        Cardinality(Signers(role')) = Cardinality(Signers(role)) + 1
  BY <1>5
<1>7. x \in Signers(role) /\ x \notin Signers(role') =>
        Cardinality(Signers(role')) = Cardinality(Signers(role)) - 1
  BY <1>5
<1> QED BY <1>1, <1>4, <1>5, <1>6, <1>7, Zenon

LEMMA SignersStep ==
  ASSUME TreasuryAssumption, SignersInv, PaymentsInv, [Treasury!Next]_Treasury!vars
  PROVE  SignersInv'
<1> USE DEF SignersInv
<1>1. CASE /\ UNCHANGED <<role, signerCount>> /\ threshold' \in Int /\ held' \in Int /\ now' \in Int
           /\ initialized' = initialized
  BY <1>1
<1>2. CASE Treasury!Tick
  BY <1>1, <1>2 DEF Treasury!Tick, Treasury!signerVars
<1>3. ASSUME NEW n \in Threshold, NEW x \in Address, Treasury!InitializeTreasury(x, n)
      PROVE  SignersInv'
  <2>1. /\ ~initialized /\ initialized' = TRUE /\ threshold' = n
        /\ role' = [role EXCEPT ![x] = 3] /\ signerCount' = 1 /\ UNCHANGED <<held, now>>
    BY <1>3 DEF Treasury!InitializeTreasury, Treasury!Owner
  <2>2. role[x] = Treasury!NoRole
    BY <2>1 DEF Signers
  <2>3. Cardinality(Signers(role)) = 0
    BY <2>1, FS_EmptySet
  <2>4. 3 # Treasury!NoRole
    BY DEF Treasury!NoRole
  <2>5. role' \in [Address -> Int] /\ Cardinality(Signers(role')) = 1
    <3>1. 3 \in Int
      OBVIOUS
    <3>2. /\ role' \in [Address -> Int]
          /\ Cardinality(Signers(role')) = Cardinality(Signers(role)) + 1
      BY <2>1, <2>2, <2>4, <3>1, OneRole, Zenon
    <3> QED BY <2>3, <3>2
  <2>6. threshold' \in Int
    BY <2>1 DEF TreasuryAssumption
  <2> QED BY <2>1, <2>5, <2>6
<1>4. ASSUME NEW x \in Address, NEW r \in Treasury!Role, Treasury!AddSigner(x, r)
      PROVE  SignersInv'
  <2>1. /\ role[x] = Treasury!NoRole /\ initialized /\ UNCHANGED <<initialized, threshold, held, now>>
        /\ role' = [role EXCEPT ![x] = r] /\ signerCount' = signerCount + 1
    BY <1>4 DEF Treasury!AddSigner
  <2>2. r \in Int /\ r # Treasury!NoRole
    BY DEF Treasury!Role, Treasury!Viewer, Treasury!Operator, Treasury!Admin, Treasury!Owner,
       Treasury!NoRole
  <2>3. /\ role' \in [Address -> Int]
        /\ Cardinality(Signers(role')) = Cardinality(Signers(role)) + 1
    BY <2>1, <2>2, OneRole
  <2> QED BY <2>1, <2>3
<1>5. ASSUME NEW x \in Address, Treasury!RemoveSigner(x) PROVE SignersInv'
  <2>1. /\ role[x] # Treasury!NoRole /\ initialized /\ UNCHANGED <<initialized, threshold, held, now>>
        /\ role' = [role EXCEPT ![x] = -1] /\ signerCount' = signerCount - 1
    BY <1>5 DEF Treasury!RemoveSigner, Treasury!NoRole
  <2>2. -1 \in Int /\ -1 = Treasury!NoRole
    BY DEF Treasury!NoRole
  <2>3. /\ role' \in [Address -> Int]
        /\ Cardinality(Signers(role')) = Cardinality(Signers(role)) - 1
    BY <2>1, <2>2, OneRole
  <2> QED BY <2>1, <2>3
<1>6. ASSUME NEW n \in Threshold, Treasury!ChangeThreshold(n) PROVE SignersInv'
  BY <1>1, <1>6 DEF Treasury!ChangeThreshold, TreasuryAssumption
<1>7. ASSUME NEW b, Treasury!SetPaused(b) PROVE SignersInv'
  BY <1>1, <1>7 DEF Treasury!SetPaused, Treasury!signerVars
<1>8. ASSUME NEW n \in Amount, Treasury!Deposit(n) PROVE SignersInv'
  BY <1>1, <1>8 DEF Treasury!Deposit, Treasury!signerVars, TreasuryAssumption
<1>9. ASSUME NEW n, NEW b, Treasury!Propose(n, b) PROVE SignersInv'
  BY <1>1, <1>9 DEF Treasury!Propose, Treasury!signerVars
<1>10. ASSUME NEW id \in DOMAIN txs, NEW b, Treasury!Execute(id, b) PROVE SignersInv'
  <2>1. txs[id] \in Tx
    BY DEF PaymentsInv
  <2>2. (IF b /\ txs[id].recipient THEN txs[id].amount ELSE 0) \in Int
    BY <2>1 DEF Tx
  <2>3. held' = held - (IF b /\ txs[id].recipient THEN txs[id].amount ELSE 0)
    BY <1>10 DEF Treasury!Execute
  <2>4. held' \in Int
    BY <2>2, <2>3
  <2>5. UNCHANGED <<initialized, role, signerCount, threshold, now>>
    BY <1>10 DEF Treasury!Execute, Treasury!signerVars
  <2> QED BY <1>1, <2>4, <2>5
<1>11. ASSUME NEW id, Treasury!Cancel(id) PROVE SignersInv'
  BY <1>1, <1>11 DEF Treasury!Cancel, Treasury!signerVars
<1>12. ASSUME NEW x, NEW id, Treasury!Approve(x, id) PROVE SignersInv'
  BY <1>1, <1>12 DEF Treasury!Approve, Treasury!signerVars
<1>13. CASE UNCHANGED Treasury!vars
  BY <1>1, <1>13 DEF Treasury!vars, Treasury!treasuryVars
<1>14. Contract # "charity-tracker"
  BY DEF TreasuryAssumption
<1> QED BY <1>2, <1>3, <1>4, <1>5, <1>6, <1>7, <1>8, <1>9, <1>10, <1>11, <1>12, <1>13, <1>14
  DEF Treasury!Next, Treasury!TreasuryNext

\* What a payment and those who approved it owe each other.
Approval(t, a) ==
  /\ t.approvals = Cardinality(a)
  /\ t.status \in {"Queued", "Executed"} => t.approvals >= 1

\* The record of one payment, and who approved it, change.
LEMMA OnePayment ==
  ASSUME PaymentsInv, NEW id \in DOMAIN txs, NEW t \in Tx, NEW a \in SUBSET Address,
         txs' = [txs EXCEPT ![id] = t], approved' = [approved EXCEPT ![id] = a],
         Approval(t, a)
  PROVE  PaymentsInv'
<1>1. txs \in Seq(Tx) /\ approved \in Seq(SUBSET Address) /\ Len(approved) = Len(txs)
  BY DEF PaymentsInv
<1>2. /\ txs' \in Seq(Tx) /\ approved' \in Seq(SUBSET Address) /\ Len(approved') = Len(txs')
      /\ DOMAIN txs' = DOMAIN txs
  BY <1>1
<1>3. ASSUME NEW k \in DOMAIN txs PROVE Approval(txs'[k], approved'[k])
  <2>1. CASE k = id
    <3>1. txs'[k] = t /\ approved'[k] = a
      BY <1>1, <2>1
    <3> QED BY <3>1
  <2>2. CASE k # id
    <3>1. txs'[k] = txs[k] /\ approved'[k] = approved[k]
      BY <1>1, <2>2
    <3>2. Approval(txs[k], approved[k])
      BY DEF PaymentsInv, Approval
    <3> QED BY <3>1, <3>2
  <2> QED BY <2>1, <2>2
<1> QED BY <1>2, <1>3 DEF PaymentsInv, Approval

LEMMA NoPayment ==
  ASSUME PaymentsInv, UNCHANGED <<txs, approved>>
  PROVE  PaymentsInv'
  BY DEF PaymentsInv

LEMMA ApproveStep ==
  ASSUME TreasuryAssumption, SignersInv, PaymentsInv, NEW x \in Address,
         NEW id \in DOMAIN txs, Treasury!Approve(x, id)
  PROVE  /\ PaymentsInv'
         /\ txs[id].status = "Pending" /\ \A k \in DOMAIN txs : k # id => txs'[k] = txs[k]
         /\ txs'[id].status = "Queued" => Cardinality(approved'[id]) >= threshold
<1> DEFINE old == txs[id]
           n == old.approvals + 1
           st == IF n >= threshold THEN "Queued" ELSE old.status
           new == [old EXCEPT !.approvals = n, !.status = st]
           a == approved[id] \cup {x}
<1>1. /\ txs \in Seq(Tx) /\ approved \in Seq(SUBSET Address) /\ Len(approved) = Len(txs)
      /\ old \in Tx /\ old.approvals = Cardinality(approved[id]) /\ approved[id] \subseteq Address
      /\ id \in DOMAIN approved
  BY DEF PaymentsInv
<1>2. /\ old.status = "Pending" /\ x \notin approved[id]
      /\ approved' = [approved EXCEPT ![id] = a]
  BY DEF Treasury!Approve
<1>3. txs' = [txs EXCEPT ![id] = new]
  BY <1>1 DEF Treasury!Approve
<1>4. IsFiniteSet(approved[id])
  BY <1>1, FS_Subset DEF TreasuryAssumption
<1>5. old.approvals \in Nat /\ threshold \in Int
  BY <1>1 DEF Tx, SignersInv
<1>6. n \in Nat /\ n >= 1 /\ st \in Treasury!TxStatus /\ (st = "Queued" => n >= threshold)
  <2>1. n \in Nat /\ n >= 1
    BY <1>5
  <2>2. st \in {"Pending", "Queued"} /\ (st = "Queued" => n >= threshold)
    <3> HIDE DEF n, old
    <3> QED BY <1>2
  <2>3. {"Pending", "Queued"} \subseteq Treasury!TxStatus
    BY DEF Treasury!TxStatus
  <2> QED BY <2>1, <2>2, <2>3
<1>7. a \in SUBSET Address /\ n = Cardinality(a)
  BY <1>1, <1>2, <1>4, <1>5, FS_AddElement
<1> HIDE DEF n, st, a
<1>8. new \in Tx /\ new.approvals = n /\ new.status = st
  BY <1>1, <1>6 DEF Tx
<1> HIDE DEF new
<1>9. Approval(new, a)
  BY <1>6, <1>7, <1>8 DEF Approval
<1>10. PaymentsInv'
  BY <1>2, <1>3, <1>7, <1>8, <1>9, OnePayment
<1>11. /\ txs'[id] = new /\ approved'[id] = a
       /\ \A k \in DOMAIN txs : k # id => txs'[k] = txs[k]
  BY <1>1, <1>2, <1>3
<1> QED BY <1>2, <1>6, <1>7, <1>8, <1>10, <1>11

LEMMA EndPayment ==
  ASSUME PaymentsInv, NEW id \in DOMAIN txs, NEW st \in {"Executed", "Cancelled"},
         st = "Executed" => txs[id].status = "Queued",
         txs' = [txs EXCEPT ![id].status = st], approved' = approved
  PROVE  /\ PaymentsInv' /\ txs'[id].status = st
         /\ \A k \in DOMAIN txs : k # id => txs'[k] = txs[k]
<1> DEFINE new == [txs[id] EXCEPT !.status = st]
<1>1. /\ txs \in Seq(Tx) /\ approved \in Seq(SUBSET Address) /\ Len(approved) = Len(txs)
      /\ txs[id] \in Tx /\ id \in DOMAIN approved
  BY DEF PaymentsInv
<1>2. txs' = [txs EXCEPT ![id] = new] /\ approved' = [approved EXCEPT ![id] = approved[id]]
  BY <1>1
<1>3. /\ new \in Tx /\ new.status = st /\ new.approvals = txs[id].approvals
      /\ approved[id] \in SUBSET Address
  <2>1. st \in Treasury!TxStatus
    BY DEF Treasury!TxStatus
  <2>2. new \in Tx
    BY <1>1, <2>1 DEF Tx
  <2>3. new.status = st /\ new.approvals = txs[id].approvals
    BY <1>1 DEF Tx
  <2> QED BY <1>1, <2>2, <2>3
<1> HIDE DEF new
<1>4. Approval(txs[id], approved[id])
  BY DEF PaymentsInv, Approval
<1>5. Approval(new, approved[id])
  BY <1>3, <1>4 DEF Approval
<1>6. PaymentsInv'
  BY <1>2, <1>3, <1>5, OnePayment
<1> QED BY <1>1, <1>2, <1>3, <1>6

LEMMA ProposeStep ==
  ASSUME TreasuryAssumption, SignersInv, PaymentsInv, NEW n \in Amount, NEW b \in BOOLEAN,
         Treasury!Propose(n, b)
  PROVE  PaymentsInv' /\ \A k \in DOMAIN txs : txs'[k] = txs[k]
<1> DEFINE new == Treasury!Transaction(n, b)
<1>1. txs \in Seq(Tx) /\ approved \in Seq(SUBSET Address) /\ Len(approved) = Len(txs)
  BY DEF PaymentsInv
<1>2. txs' = Append(txs, new) /\ approved' = Append(approved, {})
  BY DEF Treasury!Propose
<1>3. new \in Tx /\ new.approvals = 0 /\ new.status = "Pending"
  <2>1. n \in Nat /\ now + Timelock \in Int /\ now + TxExpiry \in Int
    BY DEF TreasuryAssumption, SignersInv
  <2> QED BY <2>1 DEF Tx, Treasury!Transaction, Treasury!TxStatus
<1> HIDE DEF new
<1>4. Approval(new, {})
  BY <1>3, FS_EmptySet DEF Approval
<1>5. /\ txs' \in Seq(Tx) /\ approved' \in Seq(SUBSET Address) /\ Len(approved') = Len(txs')
      /\ Len(txs') = Len(txs) + 1
  BY <1>1, <1>2, <1>3
<1>6. ASSUME NEW k \in DOMAIN txs' PROVE Approval(txs'[k], approved'[k])
  <2>1. CASE k \in DOMAIN txs
    <3>1. txs'[k] = txs[k] /\ approved'[k] = approved[k]
      BY <1>1, <1>2, <2>1
    <3>2. Approval(txs[k], approved[k])
      BY <2>1 DEF PaymentsInv, Approval
    <3> QED BY <3>1, <3>2
  <2>2. CASE k \notin DOMAIN txs
    <3>1. txs'[k] = new /\ approved'[k] = {}
      BY <1>1, <1>2, <1>5, <2>2
    <3> QED BY <1>4, <3>1
  <2> QED BY <2>1, <2>2
<1> QED BY <1>1, <1>2, <1>5, <1>6 DEF PaymentsInv, Approval

\* Every step of the treasury, by what it does to the payments.
LEMMA TreasuryCases ==
  ASSUME TreasuryAssumption, Treasury!Next
  PROVE  \/ UNCHANGED <<txs, approved>> /\ (held' = held \/ \E n \in Amount : held' = held + n)
         \/ \E n \in Amount, b \in BOOLEAN : Treasury!Propose(n, b)
         \/ \E x \in Address, id \in DOMAIN txs : Treasury!Approve(x, id)
         \/ \E id \in DOMAIN txs : Treasury!Cancel(id)
         \/ \E id \in DOMAIN txs, b \in BOOLEAN : Treasury!Execute(id, b)
<1>1. Treasury!TreasuryNext
  BY DEF TreasuryAssumption, Treasury!Next
<1>2. CASE \/ Treasury!Tick
           \/ \E b \in BOOLEAN : Treasury!SetPaused(b)
           \/ \E n \in Threshold : \/ Treasury!ChangeThreshold(n)
                                   \/ \E x \in Address : Treasury!InitializeTreasury(x, n)
           \/ \E x \in Address : \/ Treasury!RemoveSigner(x)
                                 \/ \E r \in Treasury!Role : Treasury!AddSigner(x, r)
  <2>1. UNCHANGED <<txs, approved, held>>
    BY <1>2 DEF Treasury!Tick, Treasury!SetPaused, Treasury!ChangeThreshold,
       Treasury!InitializeTreasury, Treasury!RemoveSigner, Treasury!AddSigner
  <2> QED BY <2>1
<1>3. CASE \E n \in Amount : Treasury!Deposit(n)
  <2>1. UNCHANGED <<txs, approved>> /\ \E n \in Amount : held' = held + n
    BY <1>3 DEF Treasury!Deposit
  <2> QED BY <2>1
<1> QED BY <1>1, <1>2, <1>3 DEF Treasury!TreasuryNext

LEMMA PaymentsStep ==
  ASSUME TreasuryAssumption, SignersInv, PaymentsInv, [Treasury!Next]_Treasury!vars
  PROVE  PaymentsInv'
<1>1. CASE UNCHANGED Treasury!vars
  BY <1>1, NoPayment DEF Treasury!vars, Treasury!treasuryVars
<1>2. ASSUME NEW id \in DOMAIN txs, Treasury!Cancel(id) PROVE PaymentsInv'
  BY <1>2, EndPayment DEF Treasury!Cancel
<1>3. ASSUME NEW id \in DOMAIN txs, NEW b \in BOOLEAN, Treasury!Execute(id, b) PROVE PaymentsInv'
  BY <1>3, EndPayment DEF Treasury!Execute
<1> QED BY <1>1, <1>2, <1>3, TreasuryCases, NoPayment, ProposeStep, ApproveStep

\* Signers and approvals of the treasury are counted right whoever came and
\* went, and nothing is queued or executed without an approval (approve).
THEOREM TreasuryCountsApprovals ==
  ASSUME TreasuryAssumption
  PROVE  Treasury!Spec => []Treasury!ApprovalsCounted
<1>1. Treasury!Init => SignersInv /\ PaymentsInv
  BY TreasuryStart
<1>2. SignersInv /\ PaymentsInv /\ [Treasury!Next]_Treasury!vars => SignersInv' /\ PaymentsInv'
  BY SignersStep, PaymentsStep
<1>3. SignersInv /\ PaymentsInv => Treasury!ApprovalsCounted
  BY TreasuryCardinality DEF SignersInv, PaymentsInv, Signers, Treasury!ApprovalsCounted
<1> QED BY <1>1, <1>2, <1>3, PTL DEF Treasury!Spec

\* Money leaves the treasury for one queued payment at a time, in its window and
\* for its amount; a payment is executed or cancelled once, and queued only with
\* as many approvals as the threshold of that moment asks for (execute).
THEOREM TreasuryPaysOnce ==
  ASSUME TreasuryAssumption
  PROVE  Treasury!Spec => [][Treasury!PaidOnce]_Treasury!vars
<1>1. Treasury!Init => SignersInv /\ PaymentsInv
  BY TreasuryStart
<1>2. SignersInv /\ PaymentsInv /\ [Treasury!Next]_Treasury!vars => SignersInv' /\ PaymentsInv'
  BY SignersStep, PaymentsStep
<1>3. SignersInv /\ PaymentsInv /\ [Treasury!Next]_Treasury!vars
        => [Treasury!PaidOnce]_Treasury!vars
  <2> SUFFICES ASSUME SignersInv, PaymentsInv, Treasury!Next PROVE Treasury!PaidOnce
    OBVIOUS
  <2>1. held \in Int /\ now \in Int /\ \A id \in DOMAIN txs : txs[id] \in Tx
    BY DEF SignersInv, PaymentsInv
  <2>2. \A S : Treasury!Cardinality(S) = Cardinality(S)
    BY TreasuryCardinality
  <2>3. CASE /\ UNCHANGED <<txs, approved>>
             /\ held' = held \/ \E n \in Amount : held' = held + n
    <3>1. ~(held' < held)
      BY <2>1, <2>3 DEF TreasuryAssumption
    <3> QED BY <2>3, <3>1 DEF Treasury!PaidOnce
  <2>4. ASSUME NEW n \in Amount, NEW b \in BOOLEAN, Treasury!Propose(n, b)
        PROVE  Treasury!PaidOnce
    <3>1. held' = held /\ \A k \in DOMAIN txs : txs'[k] = txs[k]
      BY <2>4, ProposeStep DEF Treasury!Propose
    <3>2. ~(held' < held)
      BY <2>1, <3>1
    <3> QED BY <3>1, <3>2 DEF Treasury!PaidOnce
  <2>5. ASSUME NEW x \in Address, NEW id \in DOMAIN txs, Treasury!Approve(x, id)
        PROVE  Treasury!PaidOnce
    <3>1. held' = held
      BY <2>5 DEF Treasury!Approve
    <3>2. ~(held' < held)
      BY <2>1, <3>1
    <3>3. /\ txs[id].status = "Pending" /\ \A k \in DOMAIN txs : k # id => txs'[k] = txs[k]
          /\ txs'[id].status = "Queued" => Cardinality(approved'[id]) >= threshold
      BY <2>5, ApproveStep
    <3> QED BY <2>2, <3>2, <3>3 DEF Treasury!PaidOnce
  <2>6. ASSUME NEW id \in DOMAIN txs, Treasury!Cancel(id) PROVE Treasury!PaidOnce
    <3>1. /\ held' = held /\ txs[id].status \in {"Pending", "Queued"}
          /\ txs' = [txs EXCEPT ![id].status = "Cancelled"] /\ approved' = approved
      BY <2>6 DEF Treasury!Cancel
    <3>2. ~(held' < held)
      BY <2>1, <3>1
    <3>3. txs'[id].status = "Cancelled" /\ \A k \in DOMAIN txs : k # id => txs'[k] = txs[k]
      BY <3>1, EndPayment
    <3> QED BY <3>1, <3>2, <3>3 DEF Treasury!PaidOnce
  <2>7. ASSUME NEW id \in DOMAIN txs, NEW b \in BOOLEAN, Treasury!Execute(id, b)
        PROVE  Treasury!PaidOnce
    <3> DEFINE paid == IF b /\ txs[id].recipient THEN txs[id].amount ELSE 0
    <3>1. /\ held' = held - paid /\ txs[id].status = "Queued"
          /\ txs' = [txs EXCEPT ![id].status = "Executed"] /\ approved' = approved
          /\ now >= txs[id].after /\ now <= txs[id].expires
      BY <2>7 DEF Treasury!Execute
    <3>2. txs'[id].status = "Executed" /\ \A k \in DOMAIN txs : k # id => txs'[k] = txs[k]
      BY <3>1, EndPayment
    <3>3. txs[id].amount \in Int /\ txs[id].after \in Int
      BY <2>1 DEF Tx
    <3>4. held' < held => held - held' = txs[id].amount
      BY <2>1, <3>1, <3>3
    <3>5. txs[id].after <= now
      BY <2>1, <3>1, <3>3
    <3> QED BY <3>1, <3>2, <3>4, <3>5 DEF Treasury!PaidOnce
  <2> QED BY <2>3, <2>4, <2>5, <2>6, <2>7, TreasuryCases
<1> QED BY <1>1, <1>2, <1>3, PTL DEF Treasury!Spec

-----------------------------------------------------------------------------
(* Bets on a match: sports-betting *)

\* A fee is a part of the whole; bets of nothing are refused.
SportsAssumption ==
  /\ Contract = "sports-betting"
  /\ IsFiniteSet(Bettor) /\ IsFiniteSet(Outcome)
  /\ Amount \subseteq Nat \ {0} /\ Threshold \subseteq Nat /\ Schedule \subseteq Int \X Int
  /\ FeeBps \in Nat /\ Bps \in Nat \ {0} /\ FeeBps <= Bps

Bets == Bettor \X Outcome
Bet == [stake : Nat, odds : Int]
Match == [close : Int, deadline : Int, threshold : Nat,
          status : {"Open", "Resolved", "Cancelled"}, winner : Outcome \cup {Sports!None},
          odds : [Outcome -> Int], pools : [Outcome -> Nat], fee : Nat,
          feeClaimed : BOOLEAN, bets : [Bets -> Bet], voted : SUBSET Oracle,
          counts : [Outcome -> Nat]]

Stakes(m) == [b \in Bets |-> m.bets[b].stake]
Payouts(m) == [b \in Bets |-> Sports!Payout(m, b[1], b[2])]
On(o) == {b \in Bets : b[2] = o}

\* What was staked in a market, and what it still owes.
Staked(m) == SumOf(Stakes(m), Bets)
Due(m) == IF m.status = "Open" THEN Staked(m)
          ELSE SumOf(Payouts(m), Bets) + IF m.feeClaimed THEN 0 ELSE m.fee

\* The pools are the stakes until the result is known.
Booked(m) ==
  /\ m \in Match
  /\ m.status = "Open" =>
       /\ m.fee = 0 /\ ~m.feeClaimed /\ Sports!Total(m) = Staked(m)
       /\ \A o \in Outcome : m.pools[o] = SumOf(Stakes(m), On(o))
  /\ m.status = "Resolved" =>
       m.winner \in Outcome /\ m.pools[m.winner] > 0 /\ m.fee <= Sports!Total(m)

Dues(s) == [id \in DOMAIN s |-> Due(s[id])]

BetsInv ==
  /\ markets \in Seq(Match) /\ held \in Int
  /\ \A id \in DOMAIN markets : Booked(markets[id])
  /\ held >= SumOf(Dues(markets), DOMAIN markets)

LEMMA SportsSums ==
  ASSUME NEW m
  PROVE  /\ Sports!Total(m) = SumOf(m.pools, Outcome)
         /\ \A f, S : Sports!SumOver(f, S) = SumOf(f, S)
  BY DEF Sports!Total, Sports!SumOver, Sports!MapThenSumSet, Sports!MapThenFoldSet, SumOf,
     MapThenSumSet, MapThenFoldSet

LEMMA BetSets ==
  ASSUME SportsAssumption
  PROVE  IsFiniteSet(Bets) /\ \A o : On(o) \subseteq Bets /\ IsFiniteSet(On(o))
<1>1. IsFiniteSet(Bets)
  BY FS_Product DEF SportsAssumption, Bets
<1> QED BY <1>1, FS_Subset DEF On

LEMMA MatchFields ==
  ASSUME NEW m \in Match
  PROVE  /\ m.status \in {"Open", "Resolved", "Cancelled"} /\ m.fee \in Nat
         /\ m.feeClaimed \in BOOLEAN /\ m.pools \in [Outcome -> Nat]
         /\ m.bets \in [Bets -> Bet] /\ m.winner \in Outcome \cup {Sports!None}
         /\ m.counts \in [Outcome -> Nat] /\ m.voted \in SUBSET Oracle
         /\ \A b \in Bets : m.bets[b] \in Bet /\ m.bets[b].stake \in Nat /\ m.bets[b].odds \in Int
  BY DEF Match, Bet

LEMMA StakesTyped ==
  ASSUME SportsAssumption, NEW m \in Match
  PROVE  /\ \A b \in Bets : Stakes(m)[b] = m.bets[b].stake /\ Stakes(m)[b] \in Nat
         /\ Staked(m) \in Nat
         /\ \A o : SumOf(Stakes(m), On(o)) \in Nat /\ SumOf(Stakes(m), On(o)) <= Staked(m)
<1>1. \A b \in Bets : Stakes(m)[b] = m.bets[b].stake /\ Stakes(m)[b] \in Nat
  BY MatchFields DEF Stakes
<1>2. IsFiniteSet(Bets) /\ \A o : On(o) \subseteq Bets
  BY BetSets
<1>3. Staked(m) \in Nat
  BY <1>1, <1>2, SumMonotone DEF Staked
<1>4. \A o : SumOf(Stakes(m), On(o)) \in Nat /\ SumOf(Stakes(m), On(o)) <= Staked(m)
  BY <1>1, <1>2, SumMonotone DEF Staked
<1> QED BY <1>1, <1>3, <1>4

LEMMA TotalTyped ==
  ASSUME SportsAssumption, NEW m \in Match
  PROVE  Sports!Total(m) \in Nat
<1>1. \A o \in Outcome : m.pools[o] \in Nat
  BY MatchFields
<1>2. SumOf(m.pools, Outcome) \in Nat
  BY <1>1, SumMonotone DEF SportsAssumption
<1> QED BY <1>2, SportsSums

\* What a bet is paid.
LEMMA OnePayout ==
  ASSUME NEW m \in Match, NEW b \in Bets
  PROVE  Payouts(m)[b] =
           IF m.status = "Cancelled" THEN m.bets[b].stake
           ELSE IF m.status = "Resolved" /\ m.winner = b[2]
           THEN (m.bets[b].stake * (Sports!Total(m) - m.fee)) \div m.pools[b[2]]
           ELSE 0
<1>1. <<b[1], b[2]>> = b
  BY DEF Bets
<1> QED BY <1>1 DEF Payouts, Sports!Payout

\* Of a market that is decided the winners share no more than the whole without
\* the fee, however it is rounded.
LEMMA PayoutsTyped ==
  ASSUME SportsAssumption, NEW m, Booked(m)
  PROVE  \A b \in Bets : Payouts(m)[b] \in Nat
<1> SUFFICES ASSUME NEW b \in Bets PROVE Payouts(m)[b] \in Nat
  OBVIOUS
<1>1. /\ m \in Match /\ m.bets[b].stake \in Nat /\ m.fee \in Nat /\ Sports!Total(m) \in Nat
  BY MatchFields, TotalTyped DEF Booked
<1>2. CASE m.status = "Resolved" /\ m.winner = b[2]
  <2>1. m.pools[b[2]] \in Nat \ {0} /\ m.fee <= Sports!Total(m)
    BY <1>1, <1>2, MatchFields DEF Booked
  <2>2. m.bets[b].stake * (Sports!Total(m) - m.fee) \in Nat
    <3>1. Sports!Total(m) - m.fee \in Nat
      BY <1>1, <2>1
    <3> QED BY <1>1, <3>1
  <2>3. (m.bets[b].stake * (Sports!Total(m) - m.fee)) \div m.pools[b[2]] \in Nat
    BY <2>1, <2>2, OneShare
  <2> QED BY <1>1, <1>2, <2>3, OnePayout
<1> QED BY <1>1, <1>2, OnePayout

LEMMA DueTyped ==
  ASSUME SportsAssumption, NEW m, Booked(m)
  PROVE  Due(m) \in Nat
<1>1. m \in Match /\ m.fee \in Nat /\ Staked(m) \in Nat
  BY MatchFields, StakesTyped DEF Booked
<1>2. SumOf(Payouts(m), Bets) \in Nat
  BY PayoutsTyped, BetSets, SumMonotone
<1>3. (IF m.feeClaimed THEN 0 ELSE m.fee) \in Nat
  BY <1>1
<1> QED BY <1>1, <1>2, <1>3 DEF Due

LEMMA OwedIsDue ==
  ASSUME NEW m \in Match
  PROVE  Sports!Owed(m) = Due(m)
<1>1. DOMAIN m.bets = Bets
  BY MatchFields
<1>2. /\ [b \in DOMAIN m.bets |-> m.bets[b].stake] = Stakes(m)
      /\ [b \in DOMAIN m.bets |-> Sports!Payout(m, b[1], b[2])] = Payouts(m)
  BY <1>1 DEF Stakes, Payouts
<1> QED BY <1>1, <1>2, SportsSums DEF Sports!Owed, Due, Staked

LEMMA MatchList == ASSUME NEW s \in Seq(Match) PROVE IsFiniteSet(DOMAIN s)
<1>1. DOMAIN s = 1..Len(s) /\ Len(s) \in Nat
  OBVIOUS
<1> QED BY <1>1, FS_Interval

\* Markets are opened, or one of them moves: what is held must follow.
LEMMA OneMatchMoves ==
  ASSUME SportsAssumption, BetsInv, NEW id \in DOMAIN markets, NEW n, Booked(n),
         markets' = [markets EXCEPT ![id] = n],
         held' \in Int, held' - held >= Due(n) - Due(markets[id])
  PROVE  BetsInv'
<1>1. markets \in Seq(Match) /\ n \in Match /\ Booked(markets[id])
  BY DEF BetsInv, Booked
<1>2. /\ markets' \in Seq(Match) /\ DOMAIN markets' = DOMAIN markets /\ markets'[id] = n
      /\ \A k \in DOMAIN markets : k # id => markets'[k] = markets[k]
  BY <1>1
<1>3. \A k \in DOMAIN markets' : Booked(markets'[k])
  BY <1>2 DEF BetsInv
<1>4. IsFiniteSet(DOMAIN markets)
  BY <1>1, MatchList
<1>5. /\ \A k \in DOMAIN markets : Dues(markets)[k] \in Int
      /\ Dues(markets)[id] = Due(markets[id]) /\ Dues(markets')[id] = Due(n)
      /\ Due(n) \in Int /\ Due(markets[id]) \in Int
      /\ \A k \in DOMAIN markets \ {id} : Dues(markets')[k] = Dues(markets)[k]
  BY <1>2, DueTyped DEF Dues, BetsInv
<1>6. SumOf(Dues(markets'), DOMAIN markets) = SumOf(Dues(markets), DOMAIN markets)
         + (Due(n) - Due(markets[id]))
  <2>1. \A k \in DOMAIN markets' : Dues(markets')[k] \in Int
    BY <1>2, <1>3, DueTyped DEF Dues
  <2>2. Moves(Dues(markets), Dues(markets'), DOMAIN markets, DOMAIN markets', id)
    BY <1>2, <1>4, <1>5, <2>1 DEF Moves
  <2>3. /\ PartOf(Dues(markets'), DOMAIN markets', id) = Due(n)
        /\ PartOf(Dues(markets), DOMAIN markets, id) = Due(markets[id])
    BY <1>2, <1>5 DEF PartOf
  <2>4. SumOf(Dues(markets'), DOMAIN markets') = SumOf(Dues(markets), DOMAIN markets)
          + (Due(n) - Due(markets[id]))
    BY <2>2, <2>3, SumMoves
  <2> QED BY <1>2, <2>4
<1>7. SumOf(Dues(markets), DOMAIN markets) \in Int
  BY <1>4, <1>5, SumInt
<1>8. held \in Int /\ held >= SumOf(Dues(markets), DOMAIN markets)
  BY DEF BetsInv
<1>9. held' >= SumOf(Dues(markets'), DOMAIN markets')
  BY <1>2, <1>5, <1>6, <1>7, <1>8
<1> QED BY <1>2, <1>3, <1>9 DEF BetsInv

LEMMA MatchOpens ==
  ASSUME SportsAssumption, BetsInv, NEW n, Booked(n), Due(n) = 0,
         markets' = Append(markets, n), held' = held
  PROVE  BetsInv'
<1> DEFINE id == Len(markets) + 1
<1>1. markets \in Seq(Match) /\ n \in Match
  BY DEF BetsInv, Booked
<1>2. /\ markets' \in Seq(Match) /\ DOMAIN markets' = DOMAIN markets \cup {id}
      /\ markets'[id] = n /\ id \notin DOMAIN markets
      /\ \A k \in DOMAIN markets : markets'[k] = markets[k]
  BY <1>1
<1> HIDE DEF id
<1>3. \A k \in DOMAIN markets' : Booked(markets'[k])
  BY <1>2 DEF BetsInv
<1>4. IsFiniteSet(DOMAIN markets)
  BY <1>1, MatchList
<1>5. /\ \A k \in DOMAIN markets : Dues(markets)[k] \in Int
      /\ \A k \in DOMAIN markets' : Dues(markets')[k] \in Int
      /\ Dues(markets')[id] = 0
      /\ \A k \in DOMAIN markets : Dues(markets')[k] = Dues(markets)[k]
  BY <1>2, <1>3, DueTyped DEF Dues, BetsInv
<1>6. Moves(Dues(markets), Dues(markets'), DOMAIN markets, DOMAIN markets', id)
  BY <1>2, <1>4, <1>5 DEF Moves
<1>7. /\ PartOf(Dues(markets'), DOMAIN markets', id) = 0
      /\ PartOf(Dues(markets), DOMAIN markets, id) = 0
  BY <1>2, <1>5 DEF PartOf
<1>8. SumOf(Dues(markets'), DOMAIN markets') = SumOf(Dues(markets), DOMAIN markets)
  BY <1>6, <1>7, SumMoves
<1> QED BY <1>2, <1>3, <1>8 DEF BetsInv

\* Nobody has bet on a new market yet.
LEMMA NewMatch ==
  ASSUME SportsAssumption, NEW schedule \in Schedule, NEW required \in Threshold, NEW n,
         n = Sports!Market(schedule, required, [o \in Outcome |-> 0])
  PROVE  Booked(n) /\ Due(n) = 0
<1>1. Sports!Keys = Bettor
  BY DEF Sports!Keys, Sports!KeyOf, SportsAssumption
<1> DEFINE none == [o \in Outcome |-> 0]
           bets == [b \in Bets |-> Sports!NoBet]
<1>2. n = [close |-> schedule[1], deadline |-> schedule[2], threshold |-> required,
           status |-> "Open", winner |-> Sports!None, odds |-> none,
           pools |-> none, fee |-> 0, feeClaimed |-> FALSE, bets |-> bets,
           voted |-> {}, counts |-> none]
  BY <1>1 DEF Sports!Market, Bets
<1>3. /\ schedule[1] \in Int /\ schedule[2] \in Int /\ required \in Nat
      /\ none \in [Outcome -> Nat] /\ none \in [Outcome -> Int] /\ bets \in [Bets -> Bet]
  BY DEF SportsAssumption, Bet, Sports!NoBet
<1>4. /\ \A o \in Outcome : none[o] = 0
      /\ \A b \in Bets : bets[b].stake = 0
  BY DEF Sports!NoBet
<1> HIDE DEF none, bets
<1>5. n \in Match
  <2>1. ASSUME NEW c \in Int, NEW d \in Int
        PROVE  [close |-> c, deadline |-> d, threshold |-> required,
                status |-> "Open", winner |-> Sports!None, odds |-> none,
                pools |-> none, fee |-> 0, feeClaimed |-> FALSE, bets |-> bets,
                voted |-> {}, counts |-> none] \in Match
    <3>1. {} \in SUBSET Oracle /\ required \in Nat
      BY <1>3
    <3> QED BY <1>3, <3>1 DEF Match
  <2> QED BY <1>2, <1>3, <2>1
<1>6. /\ n.status = "Open" /\ n.fee = 0 /\ ~n.feeClaimed /\ n.pools = none /\ n.bets = bets
  BY <1>2
<1>7. \A b \in Bets : Stakes(n)[b] = 0
  BY <1>4, <1>6 DEF Stakes
<1>8. Staked(n) = 0 /\ \A o : SumOf(Stakes(n), On(o)) = 0
  BY <1>7, BetSets, SumZero DEF Staked
<1>9. Sports!Total(n) = 0
  <2>1. SumOf(none, Outcome) = 0
    BY <1>4, SumZero DEF SportsAssumption
  <2> QED BY <1>6, <2>1, SportsSums
<1> QED BY <1>4, <1>5, <1>6, <1>8, <1>9 DEF Booked, Due

LEMMA PlaceBetStep ==
  ASSUME SportsAssumption, BetsInv, NEW id \in DOMAIN markets, NEW b \in Bettor,
         NEW o \in Outcome, NEW amount \in Amount, Sports!PlaceBet(id, b, o, amount)
  PROVE  BetsInv'
<1> DEFINE m == markets[id]
           x == <<b, o>>
           bet == [stake |-> m.bets[x].stake + amount,
                   odds |-> IF m.bets[x].stake = 0 THEN m.odds[o] ELSE m.bets[x].odds]
           bets == [m.bets EXCEPT ![x] = bet]
           pools == [m.pools EXCEPT ![o] = m.pools[o] + amount]
           n == [m EXCEPT !.pools = pools, !.bets = bets]
<1>1. m \in Match /\ Booked(m) /\ m.status = "Open" /\ amount \in Nat /\ x \in Bets
  BY DEF BetsInv, Booked, Sports!PlaceBet, Sports!MayBet, SportsAssumption, Bets
<1>2. markets' = [markets EXCEPT ![id] = n] /\ held' = held + amount
  BY DEF Sports!PlaceBet, Sports!Changed, Sports!WithStake
<1>3. /\ m.bets \in [Bets -> Bet] /\ m.pools \in [Outcome -> Nat]
      /\ m.bets[x].stake \in Nat /\ m.bets[x].odds \in Int /\ m.odds \in [Outcome -> Int]
      /\ m.pools[o] \in Nat
  <2>1. m.odds \in [Outcome -> Int]
    BY <1>1 DEF Match
  <2> QED BY <1>1, <2>1, MatchFields
<1>4. bet \in Bet /\ bet.stake = m.bets[x].stake + amount
  <2>1. m.bets[x].stake + amount \in Nat
    BY <1>1, <1>3
  <2>2. (IF m.bets[x].stake = 0 THEN m.odds[o] ELSE m.bets[x].odds) \in Int
    BY <1>3
  <2> QED BY <2>1, <2>2 DEF Bet
<1> HIDE DEF bet
<1>5. bets \in [Bets -> Bet] /\ bets[x] = bet /\ \A y \in Bets : y # x => bets[y] = m.bets[y]
  BY <1>1, <1>3, <1>4
<1>6. /\ pools \in [Outcome -> Nat] /\ pools[o] = m.pools[o] + amount
      /\ \A p \in Outcome : p # o => pools[p] = m.pools[p]
  <2>1. m.pools[o] + amount \in Nat
    BY <1>1, <1>3
  <2> QED BY <1>3, <2>1
<1> HIDE DEF bets, pools
<1>7. n \in Match
  BY <1>1, <1>5, <1>6 DEF Match
<1>8. /\ n.pools = pools /\ n.bets = bets /\ n.status = "Open"
      /\ n.fee = m.fee /\ n.feeClaimed = m.feeClaimed
  BY <1>1 DEF Match
<1> HIDE DEF n
<1>9. /\ \A y \in Bets : Stakes(m)[y] \in Nat
      /\ \A y \in Bets : y # x => Stakes(n)[y] = Stakes(m)[y]
      /\ Stakes(n)[x] = Stakes(m)[x] + amount /\ Stakes(n)[x] \in Nat
  <2>1. \A y \in Bets : Stakes(m)[y] = m.bets[y].stake /\ Stakes(m)[y] \in Nat
    BY <1>1, StakesTyped
  <2>2. \A y \in Bets : Stakes(n)[y] = bets[y].stake
    BY <1>8 DEF Stakes
  <2>3. Stakes(n)[x] = Stakes(m)[x] + amount
    BY <1>1, <1>4, <1>5, <2>1, <2>2
  <2>4. \A y \in Bets : y # x => Stakes(n)[y] = Stakes(m)[y]
    BY <1>5, <2>1, <2>2
  <2> QED BY <1>1, <2>1, <2>3, <2>4
<1>10. \A S \in SUBSET Bets : IsFiniteSet(S) =>
         SumOf(Stakes(n), S) = SumOf(Stakes(m), S) + (IF x \in S THEN amount ELSE 0)
  <2> SUFFICES ASSUME NEW S \in SUBSET Bets, IsFiniteSet(S)
               PROVE  SumOf(Stakes(n), S) = SumOf(Stakes(m), S) + (IF x \in S THEN amount ELSE 0)
    OBVIOUS
  <2>1. Moves(Stakes(m), Stakes(n), S, S, x)
    BY <1>9 DEF Moves
  <2>2. PartOf(Stakes(n), S, x) - PartOf(Stakes(m), S, x) = IF x \in S THEN amount ELSE 0
    BY <1>1, <1>9 DEF PartOf
  <2> QED BY <2>1, <2>2, SumMoves
<1>11. Staked(n) = Staked(m) + amount
  BY <1>1, <1>10, BetSets DEF Staked
<1>12. Sports!Total(n) = Sports!Total(m) + amount
  <2>1. Moves(m.pools, pools, Outcome, Outcome, o)
    BY <1>3, <1>6 DEF Moves, SportsAssumption
  <2>2. PartOf(pools, Outcome, o) - PartOf(m.pools, Outcome, o) = amount
    BY <1>1, <1>3, <1>6 DEF PartOf
  <2>3. SumOf(pools, Outcome) = SumOf(m.pools, Outcome) + amount
    BY <2>1, <2>2, SumMoves
  <2> QED BY <1>8, <2>3, SportsSums
<1>13. \A p \in Outcome : n.pools[p] = SumOf(Stakes(n), On(p))
  <2> SUFFICES ASSUME NEW p \in Outcome PROVE pools[p] = SumOf(Stakes(n), On(p))
    BY <1>8
  <2>1. /\ m.pools[p] = SumOf(Stakes(m), On(p)) /\ m.pools[p] \in Nat
        /\ SumOf(Stakes(n), On(p)) = SumOf(Stakes(m), On(p)) + (IF x \in On(p) THEN amount ELSE 0)
    BY <1>1, <1>3, <1>10, BetSets DEF Booked
  <2>2. x \in On(p) <=> p = o
    BY <1>1 DEF On
  <2> QED BY <1>1, <1>6, <2>1, <2>2
<1>14. Booked(n) /\ Due(n) = Due(m) + amount
  BY <1>1, <1>7, <1>8, <1>11, <1>12, <1>13 DEF Booked, Due
<1>15. Due(m) \in Nat /\ held \in Int
  BY <1>1, DueTyped DEF BetsInv
<1> HIDE DEF m
<1>16. held' \in Int /\ held' - held >= Due(n) - Due(m)
  BY <1>1, <1>2, <1>14, <1>15
<1> QED BY <1>2, <1>14, <1>16, OneMatchMoves DEF m

\* Markets whose stakes are the same.
SameStakes(m, n) == n \in Match /\ n.bets = m.bets /\ n.pools = m.pools

LEMMA StakesStay ==
  ASSUME NEW m, NEW n, SameStakes(m, n)
  PROVE  /\ Stakes(n) = Stakes(m) /\ Staked(n) = Staked(m)
         /\ Sports!Total(n) = Sports!Total(m)
<1>1. Stakes(n) = Stakes(m)
  BY DEF SameStakes, Stakes
<1> QED BY <1>1, SportsSums DEF SameStakes, Staked

\* A cancelled market owes what was staked.
LEMMA Cancels ==
  ASSUME SportsAssumption, NEW m, Booked(m), m.status = "Open", NEW n, SameStakes(m, n),
         n.status = "Cancelled", n.fee = m.fee
  PROVE  Booked(n) /\ Due(n) = Due(m)
<1>1. n \in Match /\ m \in Match /\ n.fee = 0
  BY DEF SameStakes, Booked
<1>2. \A b \in Bets : Payouts(n)[b] = Stakes(n)[b]
  BY <1>1, OnePayout DEF Stakes
<1>3. SumOf(Payouts(n), Bets) = Staked(n)
  BY <1>2, BetSets, SumSame DEF Staked
<1>4. Staked(n) = Staked(m) /\ Staked(m) \in Nat
  BY <1>1, StakesStay, StakesTyped
<1>5. (IF n.feeClaimed THEN 0 ELSE n.fee) = 0
  BY <1>1
<1> QED BY <1>1, <1>3, <1>4, <1>5 DEF Booked, Due

\* A part of a whole in fractions of b.
LEMMA PartOfWhole ==
  ASSUME NEW t \in Nat, NEW f \in Nat, NEW b \in Nat \ {0}, f <= b
  PROVE  (t * f) \div b \in Nat /\ (t * f) \div b <= t
<1>1. t * f \in Nat
  OBVIOUS
<1>2. (t * f) \div b \in Nat /\ ((t * f) \div b) * b <= t * f
  BY <1>1, OneShare
<1>3. t * f <= t * b
  OBVIOUS
<1>4. \A q \in Nat : q >= t + 1 => q * b >= (t + 1) * b
  OBVIOUS
<1>5. (t + 1) * b = t * b + b /\ t * b \in Nat
  OBVIOUS
<1>6. \A q \in Nat : q * b \in Nat
  OBVIOUS
<1> QED BY <1>1, <1>2, <1>3, <1>4, <1>5, <1>6

\* The winners share what the losers staked, without the fee and rounded down.
LEMMA Resolves ==
  ASSUME SportsAssumption, NEW m, Booked(m), m.status = "Open", NEW n, SameStakes(m, n),
         n.status = "Resolved", n.winner \in Outcome, n.pools[n.winner] > 0,
         n.fee = (Sports!Total(m) * FeeBps) \div Bps, n.feeClaimed = FALSE
  PROVE  Booked(n) /\ Due(n) <= Due(m)
<1> DEFINE w == n.winner
           total == Sports!Total(m)
<1>1. /\ m \in Match /\ n \in Match /\ total \in Nat /\ total = Staked(m)
      /\ Sports!Total(n) = total /\ Stakes(n) = Stakes(m)
  BY StakesStay, TotalTyped DEF SameStakes, Booked
<1>2. n.fee \in Nat /\ n.fee <= total
  BY <1>1, PartOfWhole DEF SportsAssumption
<1>3. Booked(n)
  BY <1>1, <1>2 DEF Booked
<1> DEFINE rest == total - n.fee
<1>4. rest \in Nat
  BY <1>1, <1>2
<1>5. n.pools[w] \in Nat \ {0} /\ n.pools[w] = SumOf(Stakes(n), On(w))
  <2>1. n.pools[w] \in Nat
    BY <1>1, MatchFields
  <2>2. n.pools[w] = m.pools[w] /\ m.pools[w] = SumOf(Stakes(m), On(w))
    BY DEF Booked, SameStakes
  <2> QED BY <1>1, <2>1, <2>2
<1>6. \A b \in Bets : Payouts(n)[b] =
         IF b[2] = w THEN (Stakes(n)[b] * rest) \div n.pools[w] ELSE 0
  <2> SUFFICES ASSUME NEW b \in Bets
               PROVE  Payouts(n)[b] = IF b[2] = w THEN (Stakes(n)[b] * rest) \div n.pools[w] ELSE 0
    OBVIOUS
  <2>1. Stakes(n)[b] = n.bets[b].stake /\ Sports!Total(n) - n.fee = rest
    BY <1>1 DEF Stakes
  <2>2. Payouts(n)[b] = IF n.winner = b[2]
          THEN (n.bets[b].stake * (Sports!Total(n) - n.fee)) \div n.pools[b[2]] ELSE 0
    BY <1>1, OnePayout
  <2> QED BY <2>1, <2>2
<1>7. \A b \in Bets : Stakes(n)[b] \in Nat
  BY <1>1, StakesTyped
<1> HIDE DEF rest, total, w
<1>8. Shares(Stakes(n), Payouts(n), On(w), rest, n.pools[w])
  <2>1. \A b \in On(w) : Stakes(n)[b] \in Nat
                         /\ Payouts(n)[b] = (Stakes(n)[b] * rest) \div n.pools[w]
    BY <1>6, <1>7 DEF On
  <2> QED BY <1>4, <1>5, <2>1, BetSets DEF Shares
<1>9. SumOf(Payouts(n), On(w)) \in Nat /\ SumOf(Payouts(n), On(w)) <= rest
  <2>1. SumOf(Stakes(n), On(w)) <= n.pools[w]
    BY <1>5
  <2> QED BY <1>8, <2>1, SharesCovered
<1>10. SumOf(Payouts(n), Bets) = SumOf(Payouts(n), On(w))
  <2> DEFINE Lost == Bets \ On(w)
  <2>1. /\ IsFiniteSet(Lost) /\ IsFiniteSet(On(w)) /\ On(w) \cap Lost = {}
        /\ On(w) \cup Lost = Bets
    BY BetSets, FS_Subset
  <2>2. \A b \in Lost : Payouts(n)[b] = 0
    BY <1>6 DEF On
  <2>3. \A b \in Bets : Payouts(n)[b] \in Int
    BY <1>3, PayoutsTyped
  <2> HIDE DEF Lost
  <2>4. SumOf(Payouts(n), Lost) = 0
    BY <2>1, <2>2, SumZero
  <2>5. SumOf(Payouts(n), On(w) \cup Lost) = SumOf(Payouts(n), On(w)) + SumOf(Payouts(n), Lost)
    <3>1. \A b \in On(w) \cup Lost : Payouts(n)[b] \in Int
      BY <2>1, <2>3
    <3> QED BY <2>1, <3>1, SumUnion
  <2>6. SumOf(Payouts(n), On(w) \cup Lost) = SumOf(Payouts(n), Bets)
    BY <2>1
  <2>7. \A k \in Nat : k + 0 = k
    OBVIOUS
  <2> QED BY <1>9, <2>4, <2>5, <2>6, <2>7
<1>11. Due(n) = SumOf(Payouts(n), On(w)) + n.fee
  BY <1>10 DEF Due
<1>12. rest = total - n.fee /\ Due(m) = total
  BY <1>1 DEF rest, total, Due
<1> QED BY <1>1, <1>2, <1>3, <1>9, <1>11, <1>12

LEMMA SubmitStep ==
  ASSUME SportsAssumption, BetsInv, NEW id \in DOMAIN markets, NEW v \in Oracle,
         NEW o \in Outcome, Sports!SubmitResult(v, id, o)
  PROVE  BetsInv'
<1> DEFINE m == markets[id]
           many == m.counts[o] + 1
           counts == [m.counts EXCEPT ![o] = many]
           seen == m.voted \cup {v}
           cast == [m EXCEPT !.voted = seen, !.counts = counts]
           cancelled == [cast EXCEPT !.status = "Cancelled"]
           fee == (Sports!Total(m) * FeeBps) \div Bps
           resolved == [cast EXCEPT !.status = "Resolved", !.winner = o, !.fee = fee]
           n == IF many < m.threshold THEN cast
                ELSE IF m.pools[o] = 0 THEN cancelled ELSE resolved
<1>1. /\ m \in Match /\ Booked(m) /\ m.status = "Open" /\ held' = held /\ held \in Int
  BY DEF BetsInv, Booked, Sports!SubmitResult
<1>2. markets' = [markets EXCEPT ![id] = n]
  BY DEF Sports!SubmitResult, Sports!Changed
<1>3. counts \in [Outcome -> Nat] /\ seen \in SUBSET Oracle
  <2>1. m.counts \in [Outcome -> Nat] /\ m.voted \in SUBSET Oracle
    BY <1>1, MatchFields
  <2>2. many \in Nat
    BY <2>1
  <2> HIDE DEF many
  <2> QED BY <2>1, <2>2
<1>4. fee \in Nat
  BY <1>1, TotalTyped, PartOfWhole DEF SportsAssumption
<1> HIDE DEF counts, seen, many, fee
<1>5. /\ cast \in Match /\ cast.bets = m.bets /\ cast.pools = m.pools /\ cast.status = "Open"
      /\ cast.fee = m.fee /\ cast.feeClaimed = m.feeClaimed
  BY <1>1, <1>3 DEF Match
<1> HIDE DEF cast
<1>6. /\ cancelled \in Match /\ cancelled.bets = m.bets /\ cancelled.pools = m.pools
      /\ cancelled.status = "Cancelled" /\ cancelled.fee = m.fee
  BY <1>5 DEF Match
<1>7. /\ resolved \in Match /\ resolved.bets = m.bets /\ resolved.pools = m.pools
      /\ resolved.status = "Resolved" /\ resolved.fee = fee /\ resolved.winner = o
      /\ resolved.feeClaimed = m.feeClaimed
  BY <1>4, <1>5 DEF Match
<1>8. Due(m) \in Nat
  BY <1>1, DueTyped
<1> HIDE DEF cancelled, resolved
<1>9. Booked(n) /\ Due(n) <= Due(m)
  <2>1. Booked(cast) /\ Due(cast) = Due(m)
    <3>1. SameStakes(m, cast)
      BY <1>5 DEF SameStakes
    <3>2. /\ Stakes(cast) = Stakes(m) /\ Staked(cast) = Staked(m)
          /\ Sports!Total(cast) = Sports!Total(m)
      BY <3>1, StakesStay
    <3> QED BY <1>1, <1>5, <3>2 DEF Booked, Due
  <2>2. Booked(cancelled) /\ Due(cancelled) = Due(m)
    <3>1. SameStakes(m, cancelled)
      BY <1>6 DEF SameStakes
    <3> QED BY <1>1, <1>6, <3>1, Cancels
  <2>3. m.pools[o] # 0 => Booked(resolved) /\ Due(resolved) <= Due(m)
    <3> SUFFICES ASSUME m.pools[o] # 0 PROVE Booked(resolved) /\ Due(resolved) <= Due(m)
      OBVIOUS
    <3>1. SameStakes(m, resolved)
      BY <1>7 DEF SameStakes
    <3>2. resolved.pools[resolved.winner] > 0 /\ resolved.winner \in Outcome
      BY <1>1, <1>7, MatchFields
    <3>3. resolved.feeClaimed = FALSE
      BY <1>1, <1>7, MatchFields DEF Booked
    <3> QED BY <1>1, <1>7, <3>1, <3>2, <3>3, Resolves DEF fee
  <2> QED BY <1>8, <2>1, <2>2, <2>3
<1> HIDE DEF n, m
<1>10. Due(n) \in Nat
  BY <1>9, DueTyped
<1>11. held' \in Int /\ held' - held >= Due(n) - Due(m)
  BY <1>1, <1>8, <1>9, <1>10
<1> QED BY <1>2, <1>9, <1>11, OneMatchMoves DEF m

LEMMA ExpireStep ==
  ASSUME SportsAssumption, BetsInv, NEW id \in DOMAIN markets, Sports!CancelExpired(id)
  PROVE  BetsInv'
<1> DEFINE m == markets[id]
           n == [m EXCEPT !.status = "Cancelled"]
<1>1. /\ m \in Match /\ Booked(m) /\ m.status = "Open" /\ held' = held /\ held \in Int
      /\ markets' = [markets EXCEPT ![id] = n]
  BY DEF BetsInv, Booked, Sports!CancelExpired, Sports!Changed
<1>2. SameStakes(m, n) /\ n.status = "Cancelled" /\ n.fee = m.fee
  BY <1>1 DEF Match, SameStakes
<1> HIDE DEF n
<1>3. Booked(n) /\ Due(n) = Due(m) /\ Due(m) \in Nat
  BY <1>1, <1>2, Cancels, DueTyped
<1>4. held' \in Int /\ held' - held >= Due(n) - Due(m)
  BY <1>1, <1>3
<1> QED BY <1>1, <1>3, <1>4, OneMatchMoves

\* A claim takes what the bet is owed, and nothing is owed for it afterwards.
LEMMA ClaimStep ==
  ASSUME SportsAssumption, BetsInv, NEW id \in DOMAIN markets, NEW b \in Bettor,
         NEW o \in Outcome, Sports!Claim(b, id, o)
  PROVE  BetsInv'
<1> DEFINE m == markets[id]
           x == <<b, o>>
           bets == [m.bets EXCEPT ![x] = Sports!NoBet]
           n == [m EXCEPT !.bets = bets]
<1>1. /\ m \in Match /\ Booked(m) /\ m.status # "Open" /\ held \in Int /\ x \in Bets
      /\ markets' = [markets EXCEPT ![id] = n] /\ held' = held - Sports!Payout(m, b, o)
  BY DEF BetsInv, Booked, Sports!Claim, Sports!Changed, Bets
<1>2. /\ bets \in [Bets -> Bet] /\ bets[x].stake = 0
      /\ \A y \in Bets : y # x => bets[y] = m.bets[y]
  <2>1. m.bets \in [Bets -> Bet]
    BY <1>1, MatchFields
  <2>2. Sports!NoBet \in Bet /\ Sports!NoBet.stake = 0
    BY DEF Sports!NoBet, Bet
  <2> QED BY <1>1, <2>1, <2>2
<1> HIDE DEF bets
<1>3. /\ n \in Match /\ n.bets = bets /\ n.pools = m.pools /\ n.status = m.status
      /\ n.fee = m.fee /\ n.feeClaimed = m.feeClaimed /\ n.winner = m.winner
  BY <1>1, <1>2 DEF Match
<1> HIDE DEF n
<1>4. Sports!Total(n) = Sports!Total(m)
  BY <1>3, SportsSums
<1>5. Booked(n)
  BY <1>1, <1>3, <1>4 DEF Booked
<1>6. Payouts(n)[x] = 0
  <2>1. n.bets[x].stake = 0
    BY <1>2, <1>3
  <2>2. CASE n.status = "Resolved" /\ n.winner = x[2]
    <3>1. /\ n.pools[x[2]] \in Nat \ {0} /\ Sports!Total(n) - n.fee \in Int
      BY <1>1, <1>3, <1>5, <2>2, MatchFields, TotalTyped DEF Booked
    <3>2. \A t \in Int, p \in Nat \ {0} : (0 * t) \div p = 0
      OBVIOUS
    <3> QED BY <1>1, <1>3, <2>1, <2>2, <3>1, <3>2, OnePayout
  <2> QED BY <1>1, <1>3, <2>1, <2>2, OnePayout
<1>7. \A y \in Bets : y # x => Payouts(n)[y] = Payouts(m)[y]
  <2> SUFFICES ASSUME NEW y \in Bets, y # x PROVE Payouts(n)[y] = Payouts(m)[y]
    OBVIOUS
  <2>1. n.bets[y] = m.bets[y]
    BY <1>2, <1>3
  <2> QED BY <1>1, <1>3, <1>4, <2>1, OnePayout
<1>8. Payouts(m)[x] = Sports!Payout(m, b, o)
  BY <1>1 DEF Payouts
<1>9. /\ SumOf(Payouts(n), Bets) = SumOf(Payouts(m), Bets) + (0 - Payouts(m)[x])
      /\ SumOf(Payouts(m), Bets) \in Int /\ Payouts(m)[x] \in Nat
  <2>1. \A y \in Bets : Payouts(m)[y] \in Nat /\ Payouts(n)[y] \in Nat
    BY <1>1, <1>5, PayoutsTyped
  <2>2. Moves(Payouts(m), Payouts(n), Bets, Bets, x)
    BY <1>7, <2>1, BetSets DEF Moves
  <2>3. PartOf(Payouts(n), Bets, x) = 0 /\ PartOf(Payouts(m), Bets, x) = Payouts(m)[x]
    BY <1>1, <1>6 DEF PartOf
  <2> QED BY <1>1, <2>1, <2>2, <2>3, SumMoves
<1>10. Due(n) = Due(m) - Payouts(m)[x] /\ Due(m) \in Nat
  <2>1. (IF m.feeClaimed THEN 0 ELSE m.fee) \in Nat
    BY <1>1, MatchFields
  <2>2. /\ Due(m) = SumOf(Payouts(m), Bets) + (IF m.feeClaimed THEN 0 ELSE m.fee)
        /\ Due(n) = SumOf(Payouts(n), Bets) + (IF m.feeClaimed THEN 0 ELSE m.fee)
    BY <1>1, <1>3 DEF Due
  <2> QED BY <1>1, <1>9, <2>1, <2>2, DueTyped
<1> HIDE DEF m, x
<1>11. held' \in Int /\ held' - held >= Due(n) - Due(m)
  BY <1>1, <1>8, <1>9, <1>10
<1> QED BY <1>1, <1>5, <1>11, OneMatchMoves DEF m

LEMMA ClaimFeeStep ==
  ASSUME SportsAssumption, BetsInv, NEW id \in DOMAIN markets, Sports!ClaimFee(id)
  PROVE  BetsInv'
<1> DEFINE m == markets[id]
           n == [m EXCEPT !.feeClaimed = TRUE]
<1>1. /\ m \in Match /\ Booked(m) /\ m.status = "Resolved" /\ ~m.feeClaimed /\ held \in Int
      /\ markets' = [markets EXCEPT ![id] = n] /\ held' = held - m.fee
  BY DEF BetsInv, Booked, Sports!ClaimFee, Sports!Changed
<1>2. /\ n \in Match /\ n.bets = m.bets /\ n.pools = m.pools /\ n.status = m.status
      /\ n.fee = m.fee /\ n.feeClaimed = TRUE /\ n.winner = m.winner
  BY <1>1 DEF Match
<1> HIDE DEF n
<1>3. Sports!Total(n) = Sports!Total(m)
  BY <1>2, SportsSums
<1>4. Booked(n)
  BY <1>1, <1>2, <1>3 DEF Booked
<1>5. \A b \in Bets : Payouts(n)[b] = Payouts(m)[b]
  BY <1>1, <1>2, <1>3, OnePayout
<1>6. SumOf(Payouts(n), Bets) = SumOf(Payouts(m), Bets) /\ SumOf(Payouts(m), Bets) \in Nat
  <2>1. SumOf(Payouts(n), Bets) = SumOf(Payouts(m), Bets)
    BY <1>5, BetSets, SumSame
  <2>2. \A b \in Bets : Payouts(m)[b] \in Nat
    BY <1>1, PayoutsTyped
  <2> QED BY <2>1, <2>2, BetSets, SumMonotone
<1>7. m.fee \in Nat /\ Due(n) = SumOf(Payouts(m), Bets) /\ Due(m) = SumOf(Payouts(m), Bets) + m.fee
  BY <1>1, <1>2, <1>6, MatchFields DEF Due
<1> HIDE DEF m
<1>8. held' \in Int /\ held' - held >= Due(n) - Due(m)
  BY <1>1, <1>6, <1>7
<1> QED BY <1>1, <1>4, <1>8, OneMatchMoves DEF m

LEMMA SportsStart == ASSUME Sports!Init PROVE BetsInv
<1>1. markets = <<>> /\ held = 0
  BY DEF Sports!Init
<1>2. DOMAIN markets = {} /\ markets \in Seq(Match)
  BY <1>1
<1>3. SumOf(Dues(markets), DOMAIN markets) = 0
  BY <1>2, SumEmpty
<1> QED BY <1>1, <1>2, <1>3 DEF BetsInv

LEMMA SportsStep ==
  ASSUME SportsAssumption, BetsInv, [Sports!Next]_Sports!vars
  PROVE  BetsInv'
<1>1. CASE UNCHANGED <<markets, held>>
  BY <1>1 DEF BetsInv
<1>2. ASSUME NEW schedule \in Schedule, NEW required \in Threshold,
             Sports!CreateMarket(schedule, required)
      PROVE  BetsInv'
  <2> DEFINE n == Sports!Market(schedule, required, [o \in Outcome |-> 0])
  <2>1. Booked(n) /\ Due(n) = 0
    BY NewMatch
  <2>2. markets' = Append(markets, n) /\ held' = held
    BY <1>2 DEF Sports!CreateMarket, Sports!Opened
  <2> HIDE DEF n
  <2> QED BY <2>1, <2>2, MatchOpens
<1>3. ASSUME NEW id \in DOMAIN markets, Sports!CancelExpired(id) \/ Sports!ClaimFee(id)
      PROVE  BetsInv'
  BY <1>3, ExpireStep, ClaimFeeStep
<1>4. ASSUME NEW id \in DOMAIN markets, NEW o \in Outcome, NEW v \in Oracle,
             Sports!SubmitResult(v, id, o)
      PROVE  BetsInv'
  BY <1>4, SubmitStep
<1>5. ASSUME NEW id \in DOMAIN markets, NEW o \in Outcome, NEW b \in Bettor,
             Sports!Claim(b, id, o) \/ \E amount \in Amount : Sports!PlaceBet(id, b, o, amount)
      PROVE  BetsInv'
  BY <1>5, ClaimStep, PlaceBetStep
<1>6. Sports!Next => Sports!Tick \/ Sports!Betting
  BY DEF Sports!Next, SportsAssumption
<1>7. CASE \/ Sports!Tick \/ Sports!Initialize \/ UNCHANGED Sports!vars
           \/ \E p \in BOOLEAN : Sports!SetPaused(p)
           \/ \E v \in Oracle : Sports!AddOracle(v) \/ Sports!RemoveOracle(v)
  BY <1>1, <1>7 DEF Sports!Tick, Sports!Initialize, Sports!SetPaused, Sports!AddOracle,
     Sports!RemoveOracle, Sports!vars
<1> QED BY <1>2, <1>3, <1>4, <1>5, <1>6, <1>7 DEF Sports!Betting

\* The contract can pay all it owes in every market, whoever claims first and
\* however the shares are rounded: stakes of open and cancelled markets, the
\* winners' shares and the fees of resolved ones (submit_result, claim, claim_fee).
THEOREM SportsBetsBacked ==
  ASSUME SportsAssumption
  PROVE  Sports!Spec => []Sports!BetsBacked
<1>1. Sports!Init => BetsInv
  BY SportsStart
<1>2. BetsInv /\ [Sports!Next]_Sports!vars => BetsInv'
  BY SportsStep
<1>3. BetsInv => Sports!BetsBacked
  <2> SUFFICES ASSUME BetsInv PROVE Sports!BetsBacked
    OBVIOUS
  <2>1. \A id \in DOMAIN markets : Sports!Owed(markets[id]) = Due(markets[id])
    BY OwedIsDue DEF BetsInv
  <2>2. [id \in DOMAIN markets |-> Sports!Owed(markets[id])] = Dues(markets)
    BY <2>1 DEF Dues
  <2> QED BY <2>2, SportsSums DEF Sports!BetsBacked, BetsInv
<1> QED BY <1>1, <1>2, <1>3, PTL DEF Sports!Spec

\* What may become of a market.
MayBecome(m, n) ==
  /\ m.status # "Open" =>
       /\ n.status = m.status /\ n.winner = m.winner /\ n.fee = m.fee
       /\ n.pools = m.pools /\ n.voted = m.voted /\ (m.feeClaimed => n.feeClaimed)
       /\ \A b \in DOMAIN m.bets : n.bets[b] \in {m.bets[b], Sports!NoBet}
  /\ \A b \in DOMAIN m.bets :
       m.bets[b].stake > 0 /\ n.bets[b].stake > 0 =>
         n.bets[b].odds = m.bets[b].odds /\ n.bets[b].stake >= m.bets[b].stake

\* An open market with the same bets, or with one bet raised.
LEMMA OpenBecomes ==
  ASSUME NEW m \in Match, m.status = "Open", NEW n, n.bets = m.bets
  PROVE  MayBecome(m, n)
<1>1. \A b \in DOMAIN m.bets : m.bets[b].stake \in Nat
  BY MatchFields
<1> QED BY <1>1 DEF MayBecome

LEMMA PlaceBecomes ==
  ASSUME SportsAssumption, NEW m \in Match, m.status = "Open", NEW b \in Bettor,
         NEW o \in Outcome, NEW amount \in Amount
  PROVE  MayBecome(m, Sports!WithStake(m, b, o, amount))
<1> DEFINE x == <<b, o>>
           bet == [stake |-> m.bets[x].stake + amount,
                   odds |-> IF m.bets[x].stake = 0 THEN m.odds[o] ELSE m.bets[x].odds]
           bets == [m.bets EXCEPT ![x] = bet]
           pools == [m.pools EXCEPT ![o] = m.pools[o] + amount]
           n == [m EXCEPT !.pools = pools, !.bets = bets]
<1>1. Sports!WithStake(m, b, o, amount) = n
  BY DEF Sports!WithStake
<1>2. /\ x \in Bets /\ DOMAIN m.bets = Bets /\ amount \in Nat
      /\ \A y \in Bets : m.bets[y].stake \in Nat
  BY MatchFields DEF Bets, SportsAssumption
<1>3. /\ \A y \in Bets : y # x => bets[y] = m.bets[y]
      /\ bets[x].stake = m.bets[x].stake + amount
      /\ m.bets[x].stake > 0 => bets[x].odds = m.bets[x].odds
  BY <1>2
<1> HIDE DEF bets, pools
<1>4. n.bets = bets
  BY DEF Match
<1> HIDE DEF n
<1>5. \A y \in Bets : m.bets[y].stake > 0 /\ n.bets[y].stake > 0 =>
        n.bets[y].odds = m.bets[y].odds /\ n.bets[y].stake >= m.bets[y].stake
  <2> SUFFICES ASSUME NEW y \in Bets, m.bets[y].stake > 0
               PROVE  n.bets[y].odds = m.bets[y].odds /\ n.bets[y].stake >= m.bets[y].stake
    OBVIOUS
  <2>1. CASE y = x
    BY <1>2, <1>3, <1>4, <2>1
  <2>2. CASE y # x
    BY <1>2, <1>3, <1>4, <2>2
  <2> QED BY <2>1, <2>2
<1> HIDE DEF x
<1> QED BY <1>1, <1>2, <1>5 DEF MayBecome

LEMMA ClaimBecomes ==
  ASSUME NEW m \in Match, m.status # "Open", NEW x \in Bets
  PROVE  MayBecome(m, [m EXCEPT !.bets[x] = Sports!NoBet])
<1> DEFINE bets == [m.bets EXCEPT ![x] = Sports!NoBet]
           n == [m EXCEPT !.bets = bets]
<1>1. /\ DOMAIN m.bets = Bets /\ \A y \in Bets : m.bets[y].stake \in Nat
  BY MatchFields
<1>2. /\ \A y \in Bets : bets[y] \in {m.bets[y], Sports!NoBet}
  BY <1>1
<1>3. Sports!NoBet.stake = 0
  BY DEF Sports!NoBet
<1> HIDE DEF bets
<1>4. /\ n.bets = bets /\ n.status = m.status /\ n.winner = m.winner /\ n.fee = m.fee
      /\ n.pools = m.pools /\ n.voted = m.voted /\ n.feeClaimed = m.feeClaimed
  BY DEF Match
<1> HIDE DEF n
<1>5. \A y \in Bets : m.bets[y].stake > 0 /\ n.bets[y].stake > 0 => n.bets[y] = m.bets[y]
  BY <1>2, <1>3, <1>4
<1>6. \A y \in Bets : m.bets[y].stake > 0 /\ n.bets[y].stake > 0 =>
        n.bets[y].odds = m.bets[y].odds /\ n.bets[y].stake >= m.bets[y].stake
  BY <1>1, <1>5
<1>7. MayBecome(m, n)
  BY <1>1, <1>2, <1>4, <1>6 DEF MayBecome
<1> QED BY <1>7 DEF n, bets

LEMMA FeeBecomes ==
  ASSUME NEW m \in Match
  PROVE  MayBecome(m, m) /\ MayBecome(m, [m EXCEPT !.feeClaimed = TRUE])
<1> DEFINE n == [m EXCEPT !.feeClaimed = TRUE]
<1>1. /\ n.bets = m.bets /\ n.status = m.status /\ n.winner = m.winner /\ n.fee = m.fee
      /\ n.pools = m.pools /\ n.voted = m.voted /\ n.feeClaimed
  BY DEF Match
<1>2. \A y \in DOMAIN m.bets : m.bets[y].stake \in Nat
  BY MatchFields
<1> HIDE DEF n
<1>3. MayBecome(m, n) /\ MayBecome(m, m)
  BY <1>1, <1>2 DEF MayBecome
<1> QED BY <1>3 DEF n

\* A market that is decided stays as it was decided, its bets and its fee are
\* claimed whole and once, and a bet keeps the odds and the stake it has
\* (claim, claim_fee, submit_result, place_bet).
THEOREM SportsMarketsStay ==
  ASSUME SportsAssumption
  PROVE  Sports!Spec => [][Sports!DecidedMarketsStay]_Sports!vars
<1>1. Sports!Init => BetsInv
  BY SportsStart
<1>2. BetsInv /\ [Sports!Next]_Sports!vars => BetsInv'
  BY SportsStep
<1>3. BetsInv /\ [Sports!Next]_Sports!vars => [Sports!DecidedMarketsStay]_Sports!vars
  <2> SUFFICES ASSUME BetsInv, Sports!Next, NEW id \in DOMAIN markets
               PROVE  MayBecome(markets[id], markets'[id])
    BY DEF Sports!DecidedMarketsStay, MayBecome
  <2>1. markets \in Seq(Match) /\ markets[id] \in Match
    BY DEF BetsInv
  <2>2. CASE markets' = markets
    BY <2>1, <2>2, FeeBecomes
  <2>3. ASSUME NEW n, markets' = Append(markets, n) PROVE MayBecome(markets[id], markets'[id])
    <3>1. markets'[id] = markets[id]
      BY <2>1, <2>3
    <3> QED BY <2>1, <3>1, FeeBecomes
  <2>4. ASSUME NEW k \in DOMAIN markets, NEW n, markets' = [markets EXCEPT ![k] = n],
               MayBecome(markets[k], n)
        PROVE  MayBecome(markets[id], markets'[id])
    <3>1. markets'[id] = IF id = k THEN n ELSE markets[id]
      BY <2>1, <2>4
    <3> QED BY <2>1, <2>4, <3>1, FeeBecomes
  <2>5. ASSUME NEW k \in DOMAIN markets, NEW o \in Outcome, NEW v, Sports!SubmitResult(v, k, o)
        PROVE  MayBecome(markets[id], markets'[id])
    <3> DEFINE m == markets[k]
               cast == [m EXCEPT !.voted = @ \cup {v}, !.counts[o] = m.counts[o] + 1]
               n == IF m.counts[o] + 1 < m.threshold THEN cast
                    ELSE IF m.pools[o] = 0 THEN [cast EXCEPT !.status = "Cancelled"]
                    ELSE [cast EXCEPT !.status = "Resolved", !.winner = o,
                                      !.fee = (Sports!Total(m) * FeeBps) \div Bps]
    <3>1. markets' = [markets EXCEPT ![k] = n] /\ m.status = "Open" /\ m \in Match
      BY <2>1, <2>5 DEF Sports!SubmitResult, Sports!Changed
    <3>2. cast.bets = m.bets /\ n.bets = cast.bets
      BY <3>1 DEF Match
    <3> HIDE DEF n, cast
    <3>3. MayBecome(m, n)
      BY <3>1, <3>2, OpenBecomes
    <3> QED BY <2>4, <3>1, <3>3
  <2>6. ASSUME NEW k \in DOMAIN markets, Sports!CancelExpired(k)
        PROVE  MayBecome(markets[id], markets'[id])
    <3> DEFINE n == [markets[k] EXCEPT !.status = "Cancelled"]
    <3>1. /\ markets' = [markets EXCEPT ![k] = n] /\ markets[k].status = "Open"
          /\ markets[k] \in Match
      BY <2>1, <2>6 DEF Sports!CancelExpired, Sports!Changed
    <3>2. n.bets = markets[k].bets
      BY <3>1 DEF Match
    <3> HIDE DEF n
    <3>3. MayBecome(markets[k], n)
      BY <3>1, <3>2, OpenBecomes
    <3> QED BY <2>4, <3>1, <3>3
  <2>7. ASSUME NEW k \in DOMAIN markets, NEW o \in Outcome, NEW b \in Bettor, NEW amount \in Amount,
               Sports!PlaceBet(k, b, o, amount)
        PROVE  MayBecome(markets[id], markets'[id])
    <3>1. /\ markets' = [markets EXCEPT ![k] = Sports!WithStake(markets[k], b, o, amount)]
          /\ markets[k].status = "Open" /\ markets[k] \in Match
      BY <2>1, <2>7 DEF Sports!PlaceBet, Sports!Changed, Sports!MayBet
    <3> QED BY <2>4, <3>1, PlaceBecomes
  <2>8. ASSUME NEW k \in DOMAIN markets, NEW o \in Outcome, NEW b \in Bettor, Sports!Claim(b, k, o)
        PROVE  MayBecome(markets[id], markets'[id])
    <3>1. /\ markets' = [markets EXCEPT ![k] = [markets[k] EXCEPT !.bets[<<b, o>>] = Sports!NoBet]]
          /\ markets[k].status # "Open" /\ markets[k] \in Match /\ <<b, o>> \in Bets
      BY <2>1, <2>8 DEF Sports!Claim, Sports!Changed, Bets
    <3> QED BY <2>4, <3>1, ClaimBecomes
  <2>9. ASSUME NEW k \in DOMAIN markets, Sports!ClaimFee(k) PROVE MayBecome(markets[id], markets'[id])
    <3>1. /\ markets' = [markets EXCEPT ![k] = [markets[k] EXCEPT !.feeClaimed = TRUE]]
          /\ markets[k] \in Match
      BY <2>1, <2>9 DEF Sports!ClaimFee, Sports!Changed
    <3> QED BY <2>4, <3>1, FeeBecomes
  <2>10. CASE \/ Sports!Tick \/ Sports!Initialize
              \/ \E p \in BOOLEAN : Sports!SetPaused(p)
              \/ \E v \in Oracle : Sports!AddOracle(v) \/ Sports!RemoveOracle(v)
    BY <2>2, <2>10 DEF Sports!Tick, Sports!Initialize, Sports!SetPaused, Sports!AddOracle,
       Sports!RemoveOracle
  <2>11. ASSUME NEW schedule \in Schedule, NEW required \in Threshold,
                Sports!CreateMarket(schedule, required)
         PROVE  MayBecome(markets[id], markets'[id])
    BY <2>3, <2>11 DEF Sports!CreateMarket, Sports!Opened
  <2>12. Sports!Tick \/ Sports!Betting
    BY DEF Sports!Next, SportsAssumption
  <2>13. ASSUME NEW k \in DOMAIN markets, NEW o \in Outcome,
                \/ \E v \in Oracle : Sports!SubmitResult(v, k, o)
                \/ \E b \in Bettor : \/ Sports!Claim(b, k, o)
                                     \/ \E amount \in Amount : Sports!PlaceBet(k, b, o, amount)
         PROVE  MayBecome(markets[id], markets'[id])
    BY <2>5, <2>7, <2>8, <2>13
  <2> QED BY <2>6, <2>9, <2>10, <2>11, <2>12, <2>13 DEF Sports!Betting
<1> QED BY <1>1, <1>2, <1>3, PTL DEF Sports!Spec

-----------------------------------------------------------------------------
(* Stablecoin *)

\* A fee is a part of the amount that is swapped, and prices are positive.
StablecoinAssumption ==
  /\ Amount \subseteq Nat \ {0} /\ Bps \in Nat \ {0} /\ Fee \subseteq 0..Bps
  /\ Scale \in Nat \ {0} /\ Target \in Nat \ {0} /\ Price \subseteq Nat \ {0}

Coins == [paused : BOOLEAN, supply : Int, balance : [User -> Nat], price : Price \cup {Target},
          reserve : Nat, rebased : Int]
Module == [paused : BOOLEAN, mintFee : 0..Bps, redeemFee : 0..Bps, ceiling : Ceiling \cup {0},
           debt : Nat, vault : Nat, fees : Int]

StablecoinInv ==
  /\ coin \in Coins
  /\ psm \in Module /\ now \in Int /\ psm.vault >= psm.debt

\* What a swap pays out after its fee is part of what it takes in.
LEMMA FeeIsPart ==
  ASSUME StablecoinAssumption, NEW n \in Amount, NEW f \in 0..Bps
  PROVE  (n * f) \div Bps \in Nat /\ n - (n * f) \div Bps \in Nat /\ n - (n * f) \div Bps <= n
<1>1. n \in Nat /\ f \in Nat /\ f <= Bps /\ Bps \in Nat \ {0}
  BY DEF StablecoinAssumption
<1>2. n * f \in Nat /\ n * f <= n * Bps
  BY <1>1
<1>3. (n * f) \div Bps \in Nat /\ ((n * f) \div Bps) * Bps <= n * f
  BY <1>1, <1>2, OneShare
<1>4. \A a, b \in Nat, c \in Nat \ {0} : a * c <= b * c => a <= b
  OBVIOUS
<1>5. (n * f) \div Bps <= n
  <2>1. ((n * f) \div Bps) * Bps <= n * Bps
    BY <1>1, <1>2, <1>3
  <2> QED BY <1>1, <1>3, <1>4, <2>1
<1> QED BY <1>1, <1>3, <1>5

LEMMA StablecoinStart ==
  ASSUME StablecoinAssumption, Stablecoin!Init
  PROVE  StablecoinInv
  BY DEF StablecoinAssumption, StablecoinInv, Coins, Module, Stablecoin!Init

\* A swap writes three fields of the module, and two of the token.
LEMMA SwapFields ==
  ASSUME coin \in Coins, psm \in Module, NEW u \in User,
         NEW v, NEW f, NEW d, NEW b, NEW s,
         v \in Nat /\ f \in Int /\ d \in Nat /\ b \in Nat /\ s \in Int,
         psm' = [psm EXCEPT !.vault = v, !.fees = f, !.debt = d],
         coin' = [coin EXCEPT !.balance[u] = b, !.supply = s]
  PROVE  psm' \in Module /\ psm'.vault = v /\ psm'.debt = d /\ coin' \in Coins
  BY DEF Coins, Module

LEMMA MintStep ==
  ASSUME StablecoinAssumption, StablecoinInv,
         NEW u \in User, NEW n \in Amount, Stablecoin!PsmMint(u, n)
  PROVE  StablecoinInv'
<1> DEFINE fee == (n * psm.mintFee) \div Bps
           out == n - fee
<1>1. /\ psm.mintFee \in 0..Bps /\ psm.vault \in Nat /\ psm.debt \in Nat /\ psm.fees \in Int
      /\ psm.vault >= psm.debt /\ coin.balance[u] \in Nat /\ coin.supply \in Int
  BY DEF StablecoinInv, Module, Coins
<1>2. n \in Nat /\ fee \in Nat /\ out \in Nat /\ out <= n
  BY <1>1, FeeIsPart DEF StablecoinAssumption
<1>3. /\ psm' = [psm EXCEPT !.vault = @ + n, !.fees = @ + fee, !.debt = @ + out]
      /\ coin' = [coin EXCEPT !.balance[u] = @ + out, !.supply = @ + out]
      /\ now' = now
  BY DEF Stablecoin!PsmMint
<1> HIDE DEF fee, out
<1>4. /\ psm.vault + n \in Nat /\ psm.debt + out \in Nat /\ psm.fees + fee \in Int
      /\ coin.balance[u] + out \in Nat /\ coin.supply + out \in Int
      /\ psm.vault + n >= psm.debt + out
  BY <1>1, <1>2
<1>5. /\ psm' \in Module /\ psm'.vault = psm.vault + n /\ psm'.debt = psm.debt + out
      /\ coin' \in Coins
  <2> DEFINE v == psm.vault + n
             f == psm.fees + fee
             d == psm.debt + out
             b == coin.balance[u] + out
             s == coin.supply + out
  <2>1. v \in Nat /\ f \in Int /\ d \in Nat /\ b \in Nat /\ s \in Int
    BY <1>4
  <2>2. /\ psm' = [psm EXCEPT !.vault = v, !.fees = f, !.debt = d]
        /\ coin' = [coin EXCEPT !.balance[u] = b, !.supply = s]
    BY <1>3
  <2>3. coin \in Coins /\ psm \in Module
    BY DEF StablecoinInv
  <2>4. psm' \in Module /\ psm'.vault = v /\ psm'.debt = d /\ coin' \in Coins
    <3> HIDE DEF v, f, d, b, s
    <3> QED BY <2>1, <2>2, <2>3, SwapFields, Zenon
  <2> QED BY <2>4
<1> QED BY <1>3, <1>4, <1>5 DEF StablecoinInv

LEMMA RedeemStep ==
  ASSUME StablecoinAssumption, StablecoinInv,
         NEW u \in User, NEW n \in Amount, Stablecoin!PsmRedeem(u, n)
  PROVE  StablecoinInv' /\ psm'.debt <= psm.debt
<1> DEFINE fee == (n * psm.redeemFee) \div Bps
           out == n - fee
           debt == IF psm.debt > n THEN psm.debt - n ELSE 0
<1>1. /\ psm.redeemFee \in 0..Bps /\ psm.vault \in Nat /\ psm.debt \in Nat /\ psm.fees \in Int
      /\ psm.vault >= psm.debt /\ coin.balance[u] \in Nat /\ coin.supply \in Int
  BY DEF StablecoinInv, Module, Coins
<1>2. n \in Nat /\ fee \in Nat /\ out \in Nat /\ out <= n
  BY <1>1, FeeIsPart DEF StablecoinAssumption
<1>3. /\ psm' = [psm EXCEPT !.vault = @ - out, !.fees = @ + fee, !.debt = debt]
      /\ coin' = [coin EXCEPT !.balance[u] = @ - n, !.supply = @ - n]
      /\ now' = now
  BY DEF Stablecoin!PsmRedeem
<1>4. psm.vault >= out /\ coin.balance[u] >= n
  BY DEF Stablecoin!PsmRedeem
<1>5. debt \in Nat /\ debt <= psm.debt /\ psm.vault - out \in Nat /\ psm.vault - out >= debt
  BY <1>1, <1>2, <1>4
<1> HIDE DEF fee, out, debt
<1>6. psm.fees + fee \in Int /\ coin.balance[u] - n \in Nat /\ coin.supply - n \in Int
  BY <1>1, <1>2, <1>4
<1>7. /\ psm' \in Module /\ psm'.vault = psm.vault - out /\ psm'.debt = debt
      /\ coin' \in Coins
  <2> DEFINE v == psm.vault - out
             f == psm.fees + fee
             b == coin.balance[u] - n
             s == coin.supply - n
  <2>1. v \in Nat /\ f \in Int /\ debt \in Nat /\ b \in Nat /\ s \in Int
    BY <1>5, <1>6
  <2>2. /\ psm' = [psm EXCEPT !.vault = v, !.fees = f, !.debt = debt]
        /\ coin' = [coin EXCEPT !.balance[u] = b, !.supply = s]
    BY <1>3
  <2>3. coin \in Coins /\ psm \in Module
    BY DEF StablecoinInv
  <2>4. psm' \in Module /\ psm'.vault = v /\ psm'.debt = debt /\ coin' \in Coins
    <3> HIDE DEF v, f, b, s
    <3> QED BY <2>1, <2>2, <2>3, SwapFields, Zenon
  <2> QED BY <2>4
<1> QED BY <1>3, <1>5, <1>7 DEF StablecoinInv

\* The calls of the token, of the admin and the clock leave what is swapped alone.
LEMMA TokenStep ==
  ASSUME StablecoinAssumption, StablecoinInv,
         \/ \E u \in User, n \in Amount : \/ Stablecoin!Mint(u, n) \/ Stablecoin!Burn(u, n)
                                         \/ \E v \in User : Stablecoin!Transfer(u, v, n)
         \/ \E n \in Amount : Stablecoin!AddReserve(n) \/ Stablecoin!WithdrawReserve(n)
         \/ \E p \in Price : Stablecoin!SetPrice(p)
         \/ \E p \in BOOLEAN : Stablecoin!SetPaused(p)
         \/ Stablecoin!Rebase
  PROVE  coin' \in Coins /\ psm' = psm /\ now' = now
<1>1. coin \in Coins /\ now \in Int /\ Amount \subseteq Nat
  BY DEF StablecoinAssumption, StablecoinInv
<1>2. coin.supply \in Int /\ coin.reserve \in Nat /\ \A u \in User : coin.balance[u] \in Nat
  BY <1>1 DEF Coins
<1>3. \A u \in User, b \in Nat, s \in Int : [coin EXCEPT !.balance[u] = b, !.supply = s] \in Coins
  BY <1>1 DEF Coins
<1>4. psm' = psm /\ now' = now
  BY DEF Stablecoin!Mint, Stablecoin!Burn, Stablecoin!Transfer, Stablecoin!AddReserve,
         Stablecoin!WithdrawReserve, Stablecoin!SetPrice, Stablecoin!SetPaused, Stablecoin!Rebase,
         Stablecoin!Coin
<1>5. ASSUME NEW u \in User, NEW n \in Amount, Stablecoin!Mint(u, n) PROVE coin' \in Coins
  <2>1. coin' = [coin EXCEPT !.balance[u] = coin.balance[u] + n, !.supply = coin.supply + n]
    BY <1>5 DEF Stablecoin!Mint, Stablecoin!Coin
  <2>2. coin.balance[u] + n \in Nat /\ coin.supply + n \in Int
    BY <1>1, <1>2
  <2> QED BY <1>3, <2>1, <2>2
<1>6. ASSUME NEW u \in User, NEW n \in Amount, Stablecoin!Burn(u, n) PROVE coin' \in Coins
  <2>1. coin' = [coin EXCEPT !.balance[u] = coin.balance[u] - n, !.supply = coin.supply - n]
    BY <1>6 DEF Stablecoin!Burn, Stablecoin!Coin
  <2>2. coin.balance[u] >= n
    BY <1>6 DEF Stablecoin!Burn
  <2>3. coin.balance[u] - n \in Nat /\ coin.supply - n \in Int
    BY <1>1, <1>2, <2>2
  <2> QED BY <1>3, <2>1, <2>3
<1>7. ASSUME NEW u \in User, NEW v \in User, NEW n \in Amount, Stablecoin!Transfer(u, v, n)
      PROVE  coin' \in Coins
  <2> DEFINE left == coin.balance[u] - n
             more == coin.balance[v] + n
  <2>1. coin.balance[u] >= n
    BY <1>7 DEF Stablecoin!Transfer
  <2>2. left \in Nat /\ more \in Nat
    <3>1. coin.balance[u] \in Nat /\ coin.balance[v] \in Nat /\ n \in Nat
      BY <1>1, <1>2
    <3>2. \A a, b, c \in Nat : a >= c => a - c \in Nat /\ b + c \in Nat
      OBVIOUS
    <3> QED BY <2>1, <3>1, <3>2, Zenon
  <2>3. coin' = [coin EXCEPT !.balance = [[coin.balance EXCEPT ![u] = left] EXCEPT ![v] = more]]
    BY <1>7 DEF Stablecoin!Transfer, Stablecoin!Coin
  <2> HIDE DEF left, more
  <2>4. coin.balance \in [User -> Nat]
    BY <1>1 DEF Coins
  <2>5. [[coin.balance EXCEPT ![u] = left] EXCEPT ![v] = more] \in [User -> Nat]
    BY <2>2, <2>4
  <2> QED BY <1>1, <2>3, <2>5 DEF Coins
<1>8. ASSUME NEW n \in Amount, Stablecoin!AddReserve(n) \/ Stablecoin!WithdrawReserve(n)
      PROVE  coin' \in Coins
  <2>1. PICK r \in Nat : coin' = [coin EXCEPT !.reserve = r]
    <3>1. CASE Stablecoin!AddReserve(n)
      <4>1. coin.reserve + n \in Nat
        BY <1>1, <1>2
      <4>2. coin' = [coin EXCEPT !.reserve = coin.reserve + n]
        BY <3>1 DEF Stablecoin!AddReserve, Stablecoin!Coin
      <4> QED BY <4>1, <4>2
    <3>2. CASE Stablecoin!WithdrawReserve(n)
      <4>1. coin.reserve >= n
        BY <3>2 DEF Stablecoin!WithdrawReserve
      <4>2. coin.reserve - n \in Nat
        BY <1>1, <1>2, <4>1
      <4>3. coin' = [coin EXCEPT !.reserve = coin.reserve - n]
        BY <3>2 DEF Stablecoin!WithdrawReserve, Stablecoin!Coin
      <4> QED BY <4>2, <4>3
    <3> QED BY <1>8, <3>1, <3>2
  <2> QED BY <1>1, <2>1 DEF Coins
<1>9. ASSUME NEW p \in Price, Stablecoin!SetPrice(p) PROVE coin' \in Coins
  BY <1>1, <1>9 DEF Stablecoin!SetPrice, Stablecoin!Coin, Coins
<1>10. ASSUME NEW p \in BOOLEAN, Stablecoin!SetPaused(p) PROVE coin' \in Coins
  BY <1>1, <1>10 DEF Stablecoin!SetPaused, Stablecoin!Coin, Coins
<1>11. ASSUME Stablecoin!Rebase PROVE coin' \in Coins
  <2>1. coin' = [coin EXCEPT !.supply = Stablecoin!Rebased, !.rebased = now]
    BY <1>11 DEF Stablecoin!Rebase, Stablecoin!Coin
  <2>2. Stablecoin!Rebased \in Int
    <3> DEFINE off == ((IF coin.price > Target THEN coin.price - Target ELSE Target - coin.price)
                          * Scale) \div Target
               by == Stablecoin!Div(coin.supply * off, Scale)
    <3>1. coin.price \in Int /\ Target \in Nat \ {0} /\ Scale \in Nat \ {0}
      <4>1. Target \in Nat \ {0} /\ Scale \in Nat \ {0} /\ Price \subseteq Nat
        BY DEF StablecoinAssumption
      <4>2. coin.price \in Price \cup {Target}
        BY <1>1 DEF Coins
      <4>3. \A x : x \in Price \cup {Target} => x \in Int
        BY <4>1
      <4> QED BY <4>1, <4>2, <4>3, Zenon
    <3>2. off \in Int
      <4>1. (IF coin.price > Target THEN coin.price - Target ELSE Target - coin.price) * Scale \in Int
        BY <3>1
      <4> QED BY <3>1, <4>1
    <3>3. by \in Int
      <4> HIDE DEF off
      <4>1. coin.supply * off \in Int
        BY <1>2, <3>2
      <4> QED BY <3>1, <4>1 DEF Stablecoin!Div
    <3>4. Stablecoin!Rebased =
            IF coin.price > Target THEN coin.supply + by
            ELSE coin.supply - (IF by > coin.reserve THEN coin.reserve ELSE by)
      BY DEF Stablecoin!Rebased
    <3> HIDE DEF by
    <3> QED BY <1>2, <3>3, <3>4
  <2> QED BY <1>1, <2>1, <2>2 DEF Coins
<1> QED BY <1>4, <1>5, <1>6, <1>7, <1>8, <1>9, <1>10, <1>11

LEMMA StablecoinStep ==
  ASSUME StablecoinAssumption, StablecoinInv, [Stablecoin!Next]_Stablecoin!vars
  PROVE  StablecoinInv' /\ Stablecoin!CeilingKept
<1>1. psm \in Module /\ coin \in Coins /\ psm.vault \in Nat /\ psm.debt \in Nat /\ now \in Int
  BY DEF StablecoinInv, Module
<1> DEFINE SameDebt == psm' \in Module /\ psm'.debt = psm.debt /\ psm'.vault = psm.vault
<1>2. ASSUME coin' \in Coins, SameDebt, now' \in Int PROVE StablecoinInv' /\ Stablecoin!CeilingKept
  BY <1>1, <1>2 DEF StablecoinInv, Stablecoin!CeilingKept
<1>3. ASSUME NEW u \in User, NEW n \in Amount, Stablecoin!PsmMint(u, n)
      PROVE  StablecoinInv' /\ Stablecoin!CeilingKept
  <2>1. StablecoinInv'
    BY <1>3, MintStep
  <2>2. Stablecoin!CeilingKept
    <3>1. psm'.debt = psm.debt + (n - (n * psm.mintFee) \div Bps)
      BY <1>1, <1>3 DEF Stablecoin!PsmMint, Module
    <3>2. ~coin.paused /\ ~psm.paused /\ psm.debt + (n - (n * psm.mintFee) \div Bps) <= psm.ceiling
      BY <1>3 DEF Stablecoin!PsmMint, Stablecoin!PsmOpen
    <3> QED BY <3>1, <3>2 DEF Stablecoin!CeilingKept
  <2> QED BY <2>1, <2>2
<1>4. ASSUME NEW u \in User, NEW n \in Amount, Stablecoin!PsmRedeem(u, n)
      PROVE  StablecoinInv' /\ Stablecoin!CeilingKept
  <2>1. StablecoinInv' /\ psm'.debt <= psm.debt /\ ~coin.paused /\ ~psm.paused
    BY <1>4, RedeemStep DEF Stablecoin!PsmRedeem, Stablecoin!PsmOpen
  <2>2. psm'.debt \in Nat
    BY <2>1 DEF StablecoinInv, Module
  <2> QED BY <1>1, <2>1, <2>2 DEF Stablecoin!CeilingKept
<1>5. ASSUME NEW c \in Ceiling, Stablecoin!Initialize(c) PROVE SameDebt
  BY <1>1, <1>5 DEF Stablecoin!Initialize, Module
<1>6. ASSUME NEW f \in Fee, NEW g \in Fee, NEW c \in Ceiling, Stablecoin!PsmSetParams(f, g, c)
      PROVE  SameDebt
  BY <1>1, <1>6 DEF Stablecoin!PsmSetParams, Stablecoin!Psm, Module, StablecoinAssumption
<1>7. ASSUME NEW p \in BOOLEAN, Stablecoin!PsmSetPaused(p) PROVE SameDebt
  BY <1>1, <1>7 DEF Stablecoin!PsmSetPaused, Stablecoin!Psm, Module
<1>8. ASSUME Stablecoin!PsmCollectFees PROVE SameDebt
  BY <1>1, <1>8 DEF Stablecoin!PsmCollectFees, Stablecoin!Psm, Module
<1>9. CASE \/ \E u \in User, n \in Amount : \/ Stablecoin!Mint(u, n) \/ Stablecoin!Burn(u, n)
                                           \/ \E v \in User : Stablecoin!Transfer(u, v, n)
           \/ \E n \in Amount : Stablecoin!AddReserve(n) \/ Stablecoin!WithdrawReserve(n)
           \/ \E p \in Price : Stablecoin!SetPrice(p)
           \/ \E p \in BOOLEAN : Stablecoin!SetPaused(p)
           \/ Stablecoin!Rebase
  <2>1. coin' \in Coins /\ psm' = psm /\ now' = now
    BY <1>9, TokenStep
  <2> QED BY <1>1, <1>2, <2>1
<1>10. CASE Stablecoin!Tick
  BY <1>1, <1>2, <1>10 DEF Stablecoin!Tick
<1>11. CASE UNCHANGED Stablecoin!vars
  BY <1>1, <1>2, <1>11 DEF Stablecoin!vars
<1>12. ASSUME \/ Stablecoin!PsmCollectFees
              \/ \E c \in Ceiling : \/ Stablecoin!Initialize(c)
                                     \/ \E f, g \in Fee : Stablecoin!PsmSetParams(f, g, c)
              \/ \E p \in BOOLEAN : Stablecoin!PsmSetPaused(p)
       PROVE  StablecoinInv' /\ Stablecoin!CeilingKept
  <2>1. coin' = coin /\ now' = now
    BY <1>12 DEF Stablecoin!PsmCollectFees, Stablecoin!Initialize, Stablecoin!PsmSetParams,
                 Stablecoin!PsmSetPaused, Stablecoin!Psm
  <2>2. SameDebt
    <3>1. CASE Stablecoin!PsmCollectFees
      BY <1>8, <3>1
    <3>2. CASE \E c \in Ceiling : \/ Stablecoin!Initialize(c)
                                  \/ \E f, g \in Fee : Stablecoin!PsmSetParams(f, g, c)
      <4>1. PICK c \in Ceiling : \/ Stablecoin!Initialize(c)
                                \/ \E f, g \in Fee : Stablecoin!PsmSetParams(f, g, c)
        BY <3>2
      <4> QED BY <1>5, <1>6, <4>1
    <3>3. CASE \E p \in BOOLEAN : Stablecoin!PsmSetPaused(p)
      BY <1>7, <3>3
    <3> QED BY <1>12, <3>1, <3>2, <3>3
  <2> QED BY <1>1, <1>2, <2>1, <2>2
<1>13. CASE \E u \in User, n \in Amount : Stablecoin!PsmMint(u, n) \/ Stablecoin!PsmRedeem(u, n)
  BY <1>3, <1>4, <1>13
<1>14. CASE Stablecoin!Next
  <2>1. CASE Stablecoin!Tick \/ Stablecoin!Rebase \/ Stablecoin!PsmCollectFees
    BY <1>9, <1>10, <1>12, <2>1
  <2>2. CASE \E c \in Ceiling : \/ Stablecoin!Initialize(c)
                                \/ \E f, g \in Fee : Stablecoin!PsmSetParams(f, g, c)
    BY <1>12, <2>2
  <2>3. CASE \E p \in BOOLEAN : Stablecoin!PsmSetPaused(p) \/ Stablecoin!SetPaused(p)
    BY <1>9, <1>12, <2>3
  <2>4. CASE \E p \in Price : Stablecoin!SetPrice(p)
    BY <1>9, <2>4
  <2>5. CASE \E n \in Amount :
                \/ Stablecoin!AddReserve(n) \/ Stablecoin!WithdrawReserve(n)
                \/ \E u \in User : \/ Stablecoin!PsmMint(u, n) \/ Stablecoin!PsmRedeem(u, n)
                                   \/ Stablecoin!Mint(u, n) \/ Stablecoin!Burn(u, n)
                                   \/ \E v \in User : Stablecoin!Transfer(u, v, n)
    <3>1. PICK n \in Amount :
                \/ Stablecoin!AddReserve(n) \/ Stablecoin!WithdrawReserve(n)
                \/ \E u \in User : \/ Stablecoin!PsmMint(u, n) \/ Stablecoin!PsmRedeem(u, n)
                                   \/ Stablecoin!Mint(u, n) \/ Stablecoin!Burn(u, n)
                                   \/ \E v \in User : Stablecoin!Transfer(u, v, n)
      BY <2>5
    <3> QED BY <1>9, <1>13, <3>1, Zenon
  <2> QED BY <1>14, <2>1, <2>2, <2>3, <2>4, <2>5 DEF Stablecoin!Next
<1> QED BY <1>11, <1>14

\* The vault always covers what the module has issued against it, whoever
\* redeems whatever tokens at whatever fee.
THEOREM VaultStaysCovered ==
  ASSUME StablecoinAssumption
  PROVE  Stablecoin!Spec => []Stablecoin!VaultCoversDebt
<1>1. StablecoinInv => Stablecoin!VaultCoversDebt
  <2> SUFFICES ASSUME StablecoinInv PROVE Stablecoin!VaultCoversDebt
    OBVIOUS
  <2>1. psm.vault >= psm.debt /\ psm.debt \in Nat
    BY DEF StablecoinInv, Module
  <2>2. coin.reserve \in Nat /\ \A u \in User : coin.balance[u] \in Nat
    BY DEF StablecoinInv, Coins
  <2> QED BY <2>1, <2>2 DEF Stablecoin!VaultCoversDebt
<1> QED BY <1>1, StablecoinStart, StablecoinStep, PTL DEF Stablecoin!Spec

\* The module never goes into debt beyond its ceiling, and nothing is swapped
\* while it or the token is paused.
THEOREM CeilingIsKept ==
  ASSUME StablecoinAssumption
  PROVE  Stablecoin!Spec => [][Stablecoin!CeilingKept]_Stablecoin!vars
  BY StablecoinStart, StablecoinStep, PTL DEF Stablecoin!Spec

-----------------------------------------------------------------------------
(* Lending: lending-protocol and lending-pool *)

LendingAssumption ==
  /\ Contract \in {"lending-protocol", "lending-pool"}
  /\ IsFiniteSet(User) /\ Amount \subseteq Nat \ {0}

Positions == [deposited : Nat, borrowed : Nat, score : Int]

DepositOf(s) == [u \in User |-> s[u].deposited]
Borrowed(s) == [u \in User |-> s[u].borrowed]

\* The deposit covers the debt by the ratio that the contract asks for.
Covers(d, b) ==
  IF Contract = "lending-pool" THEN 10000 * b <= d * 8000 ELSE b * 150 <= d * 100

LendingInv ==
  /\ positions \in [User -> Positions] /\ deposited \in Int /\ borrowed \in Int
  /\ deposited = SumOf(DepositOf(positions), User)
  /\ borrowed = SumOf(Borrowed(positions), User)
  /\ \A u \in User : Covers(positions[u].deposited, positions[u].borrowed)

LEMMA CreditTotal == \A f, S : Credit!Total(f, S) = SumOf(f, S)
  BY DEF Credit!Total, Credit!MapThenSumSet, Credit!MapThenFoldSet, SumOf, MapThenSumSet,
     MapThenFoldSet

\* A quotient reaches a number when the dividend reaches its multiple.
LEMMA QuotientReaches ==
  ASSUME NEW x \in Nat, NEW b \in Nat \ {0}
  PROVE  x \div b >= 10000 <=> 10000 * b <= x
<1>1. x \div b \in Nat /\ (x \div b) * b <= x /\ x < (x \div b) * b + b
  OBVIOUS
<1>2. \A q \in Nat : /\ q >= 10000 => q * b >= 10000 * b
                     /\ q < 10000 => q * b + b <= 10000 * b
  <2> SUFFICES ASSUME NEW q \in Nat
               PROVE  /\ q >= 10000 => q * b >= 10000 * b
                      /\ q < 10000 => q * b + b <= 10000 * b
    OBVIOUS
  <2>1. q >= 10000 => q * b >= 10000 * b
    OBVIOUS
  <2>2. q < 10000 => (q + 1) * b <= 10000 * b
    OBVIOUS
  <2>3. (q + 1) * b = q * b + b
    OBVIOUS
  <2> QED BY <2>1, <2>2, <2>3
<1>3. (x \div b) * b \in Nat
  BY <1>1
<1> QED BY <1>1, <1>2, <1>3

LEMMA HealthyCovers ==
  ASSUME LendingAssumption, NEW d \in Nat, NEW b \in Nat
  PROVE  Credit!Healthy(d, b) <=> Covers(d, b)
<1>1. CASE Contract = "lending-pool"
  <2>1. CASE b = 0
    BY <1>1, <2>1 DEF Credit!Healthy, Credit!PoolHealthy, Covers
  <2>2. CASE b # 0
    <3>1. d * 8000 \in Nat /\ b \in Nat \ {0}
      BY <2>2
    <3>2. (d * 8000) \div b >= 10000 <=> 10000 * b <= d * 8000
      BY <3>1, QuotientReaches
    <3> QED BY <1>1, <2>2, <3>2
        DEF Credit!Healthy, Credit!PoolHealthy, Credit!CollateralFactor, Credit!FullBps, Covers
  <2> QED BY <2>1, <2>2
<1>2. CASE Contract = "lending-protocol"
  BY <1>2 DEF Credit!Healthy, Credit!ProtocolHealthy, Credit!CollateralRatio, Covers
<1> QED BY <1>1, <1>2 DEF LendingAssumption

\* A covered position cannot be liquidated, in either contract.
LEMMA CoveredIsSafe ==
  ASSUME LendingAssumption, NEW p \in Positions, Covers(p.deposited, p.borrowed)
  PROVE  ~Credit!ProtocolLiquidatable(p) /\ ~Credit!PoolLiquidatable(p)
<1> DEFINE d == p.deposited
           b == p.borrowed
<1>1. d \in Nat /\ b \in Nat /\ Covers(d, b)
  BY DEF Positions
<1>2. /\ Credit!ProtocolLiquidatable(p) <=> b > 0 /\ b * 110 > d * 100
      /\ Credit!PoolLiquidatable(p) <=> b > 0 /\ ~Credit!PoolHealthy(d, b)
  BY DEF Credit!ProtocolLiquidatable, Credit!PoolLiquidatable, Credit!LiquidationThreshold
<1> HIDE DEF d, b
<1>3. b * 110 <= d * 100 /\ 10000 * b <= d * 8000
  BY <1>1 DEF Covers
<1>4. b > 0 => (d * 8000) \div b >= 10000
  <2> SUFFICES ASSUME b > 0 PROVE (d * 8000) \div b >= 10000
    OBVIOUS
  <2>1. d * 8000 \in Nat /\ b \in Nat \ {0}
    BY <1>1
  <2> QED BY <1>3, <2>1, QuotientReaches
<1>5. Credit!PoolHealthy(d, b) \/ ~(b > 0)
  BY <1>4 DEF Credit!PoolHealthy, Credit!CollateralFactor, Credit!FullBps
<1> QED BY <1>1, <1>2, <1>3, <1>5

\* One user's deposit and debt become d and b.
LEMMA PositionMoves ==
  ASSUME LendingAssumption, LendingInv, NEW u \in User, NEW d \in Nat, NEW b \in Nat, NEW k,
         positions' = [positions EXCEPT ![u] = k], k \in Positions, k.deposited = d, k.borrowed = b,
         Covers(d, b),
         deposited' = deposited + (d - positions[u].deposited),
         borrowed' = borrowed + (b - positions[u].borrowed)
  PROVE  LendingInv'
<1>1. /\ positions \in [User -> Positions] /\ IsFiniteSet(User)
      /\ \A v \in User : positions[v].deposited \in Nat /\ positions[v].borrowed \in Nat
  BY DEF LendingInv, LendingAssumption, Positions
<1>2. positions' \in [User -> Positions] /\ positions'[u] = k /\ \A v \in User \ {u} : positions'[v] = positions[v]
  BY <1>1
<1>3. SumOf(DepositOf(positions'), User) =
        SumOf(DepositOf(positions), User) + (DepositOf(positions')[u] - DepositOf(positions)[u])
  <2> DEFINE w == DepositOf(positions)
             z == DepositOf(positions')
  <2>1. /\ \A x \in User : w[x] \in Int
        /\ z[u] \in Int /\ \A y \in User \ {u} : z[y] = w[y]
    BY <1>1, <1>2 DEF DepositOf
  <2> HIDE DEF w, z
  <2>2. SumOf(z, User) = SumOf(w, User) + (z[u] - w[u])
    BY <1>1, <2>1, SumUpdate
  <2> QED BY <2>2 DEF w, z
<1>4. SumOf(Borrowed(positions'), User) =
        SumOf(Borrowed(positions), User) + (Borrowed(positions')[u] - Borrowed(positions)[u])
  <2> DEFINE w == Borrowed(positions)
             z == Borrowed(positions')
  <2>1. /\ \A x \in User : w[x] \in Int
        /\ z[u] \in Int /\ \A y \in User \ {u} : z[y] = w[y]
    BY <1>1, <1>2 DEF Borrowed
  <2> HIDE DEF w, z
  <2>2. SumOf(z, User) = SumOf(w, User) + (z[u] - w[u])
    BY <1>1, <2>1, SumUpdate
  <2> QED BY <2>2 DEF w, z
<1>5. /\ DepositOf(positions')[u] = d /\ DepositOf(positions)[u] = positions[u].deposited
      /\ Borrowed(positions')[u] = b /\ Borrowed(positions)[u] = positions[u].borrowed
  BY <1>2 DEF DepositOf, Borrowed
<1>6. \A v \in User : Covers(positions'[v].deposited, positions'[v].borrowed)
  <2> SUFFICES ASSUME NEW v \in User PROVE Covers(positions'[v].deposited, positions'[v].borrowed)
    OBVIOUS
  <2>1. CASE v = u
    BY <1>2, <2>1
  <2>2. CASE v # u
    BY <1>2, <2>2 DEF LendingInv
  <2> QED BY <2>1, <2>2
<1>7. deposited \in Int /\ borrowed \in Int /\ deposited = SumOf(DepositOf(positions), User)
      /\ borrowed = SumOf(Borrowed(positions), User)
  BY DEF LendingInv
<1>8. deposited' \in Int /\ borrowed' \in Int
  BY <1>1, <1>7
<1>9. deposited' = SumOf(DepositOf(positions'), User) /\ borrowed' = SumOf(Borrowed(positions'), User)
  BY <1>3, <1>4, <1>5, <1>7
<1> QED BY <1>2, <1>6, <1>8, <1>9 DEF LendingInv

LEMMA LendingStart ==
  ASSUME LendingAssumption, Credit!Init
  PROVE  LendingInv
<1>1. positions = [u \in User |-> [deposited |-> 0, borrowed |-> 0, score |-> 0]]
      /\ deposited = 0 /\ borrowed = 0
  BY DEF Credit!Init, Credit!LendingInit, Credit!Position
<1>2. positions \in [User -> Positions]
  BY <1>1 DEF Positions
<1>3. SumOf(DepositOf(positions), User) = 0 /\ SumOf(Borrowed(positions), User) = 0
  <2> DEFINE w == DepositOf(positions)
             z == Borrowed(positions)
  <2>1. \A u \in User : w[u] = 0 /\ z[u] = 0
    BY <1>1 DEF DepositOf, Borrowed
  <2> HIDE DEF w, z
  <2>2. SumOf(w, User) = 0 /\ SumOf(z, User) = 0
    BY <2>1, SumZero DEF LendingAssumption
  <2> QED BY <2>2 DEF w, z
<1>4. \A u \in User : Covers(positions[u].deposited, positions[u].borrowed)
  BY <1>1 DEF Covers
<1> QED BY <1>1, <1>2, <1>3, <1>4 DEF LendingInv

LEMMA LendingCalls ==
  ASSUME LendingAssumption, LendingInv, NEW u \in User, NEW n \in Amount,
         \/ Credit!Deposit(u, n) \/ Credit!Withdraw(u, n)
         \/ Credit!Borrow(u, n) \/ Credit!Repay(u, n)
  PROVE  LendingInv'
<1> DEFINE d == positions[u].deposited
           b == positions[u].borrowed
<1>1. /\ positions \in [User -> Positions] /\ positions[u] \in Positions
      /\ d \in Nat /\ b \in Nat /\ Covers(d, b) /\ n \in Nat \ {0}
      /\ deposited \in Int /\ borrowed \in Int
  BY DEF LendingInv, LendingAssumption, Positions
<1> DEFINE To(e, c, k) ==
             /\ e \in Nat /\ c \in Nat /\ Covers(e, c)
             /\ k \in Positions /\ k.deposited = e /\ k.borrowed = c
             /\ positions' = [positions EXCEPT ![u] = k]
             /\ deposited' = deposited + (e - d) /\ borrowed' = borrowed + (c - b)
<1>2. ASSUME NEW e, NEW c, NEW k, To(e, c, k) PROVE LendingInv'
  BY <1>2, PositionMoves
<1>3. CASE Credit!Deposit(u, n)
  <2> DEFINE k == [positions[u] EXCEPT !.deposited = d + n]
  <2>1. /\ positions' = [positions EXCEPT ![u] = k]
        /\ deposited' = deposited + n /\ borrowed' = borrowed
    BY <1>1, <1>3 DEF Credit!Deposit
  <2>2. d + n \in Nat /\ Covers(d + n, b)
    BY <1>1 DEF Covers
  <2>3. k \in Positions /\ k.deposited = d + n /\ k.borrowed = b
    BY <1>1, <2>2 DEF Positions
  <2>4. deposited' = deposited + ((d + n) - d) /\ borrowed' = borrowed + (b - b)
    BY <1>1, <2>1
  <2> HIDE DEF k
  <2>5. To(d + n, b, k)
    BY <1>1, <2>1, <2>2, <2>3, <2>4
  <2> HIDE DEF To
  <2> QED BY <1>2, <2>5
<1>4. CASE Credit!Withdraw(u, n)
  <2> DEFINE k == [positions[u] EXCEPT !.deposited = d - n]
  <2>1. /\ positions' = [positions EXCEPT ![u] = k]
        /\ deposited' = deposited - n /\ borrowed' = borrowed
    BY <1>1, <1>4 DEF Credit!Withdraw
  <2>2. d - n >= 0 /\ (b > 0 => Credit!Healthy(d - n, b))
    BY <1>4 DEF Credit!Withdraw
  <2>3. d - n \in Nat
    BY <1>1, <2>2
  <2>4. Covers(d - n, b)
    <3>1. CASE b = 0
      BY <2>3, <3>1 DEF Covers
    <3>2. CASE b # 0
      BY <1>1, <2>2, <2>3, <3>2, HealthyCovers
    <3> QED BY <3>1, <3>2
  <2>5. k \in Positions /\ k.deposited = d - n /\ k.borrowed = b
    BY <1>1, <2>3 DEF Positions
  <2>6. deposited' = deposited + ((d - n) - d) /\ borrowed' = borrowed + (b - b)
    BY <1>1, <2>1
  <2> HIDE DEF k
  <2>7. To(d - n, b, k)
    BY <1>1, <2>1, <2>3, <2>4, <2>5, <2>6
  <2> HIDE DEF To
  <2> QED BY <1>2, <2>7
<1>5. CASE Credit!Borrow(u, n)
  <2> DEFINE k == [positions[u] EXCEPT !.borrowed = b + n]
  <2>1. /\ positions' = [positions EXCEPT ![u] = k]
        /\ deposited' = deposited /\ borrowed' = borrowed + n
    BY <1>1, <1>5 DEF Credit!Borrow
  <2>2. Credit!Healthy(d, b + n)
    BY <1>5 DEF Credit!Borrow
  <2>3. b + n \in Nat /\ Covers(d, b + n)
    <3>1. b + n \in Nat
      BY <1>1
    <3> QED BY <1>1, <2>2, <3>1, HealthyCovers
  <2>4. k \in Positions /\ k.deposited = d /\ k.borrowed = b + n
    BY <1>1, <2>3 DEF Positions
  <2>5. deposited' = deposited + (d - d) /\ borrowed' = borrowed + ((b + n) - b)
    BY <1>1, <2>1
  <2> HIDE DEF k
  <2>6. To(d, b + n, k)
    BY <1>1, <2>1, <2>3, <2>4, <2>5
  <2> HIDE DEF To
  <2> QED BY <1>2, <2>6
<1>6. CASE Credit!Repay(u, n)
  <2> DEFINE a == Credit!Min({n, b})
             k == [positions[u] EXCEPT !.borrowed = b - a, !.score = positions[u].score + 5]
  <2>1. a \in Nat /\ a <= b
    <3>1. \A x, y \in Nat : Credit!Min({x, y}) \in Nat /\ Credit!Min({x, y}) <= y
      <4> SUFFICES ASSUME NEW x \in Nat, NEW y \in Nat
                   PROVE  Credit!Min({x, y}) \in Nat /\ Credit!Min({x, y}) <= y
        OBVIOUS
      <4>1. \E m \in {x, y} : \A v \in {x, y} : m <= v
        OBVIOUS
      <4>2. /\ Credit!Min({x, y}) \in {x, y}
            /\ \A v \in {x, y} : Credit!Min({x, y}) <= v
        BY <4>1 DEF Credit!Min
      <4> QED BY <4>2
    <3> QED BY <1>1, <3>1
  <2>2. /\ positions' = [positions EXCEPT ![u] = k]
        /\ deposited' = deposited /\ borrowed' = borrowed - a
    BY <1>1, <1>6 DEF Credit!Repay
  <2> HIDE DEF a
  <2>3. b - a \in Nat /\ Covers(d, b - a)
    <3>1. \A e, c, f \in Nat : Covers(e, c) /\ f <= c => c - f \in Nat /\ Covers(e, c - f)
      BY DEF Covers
    <3>2. d \in Nat /\ b \in Nat /\ a \in Nat /\ a <= b /\ Covers(d, b)
      BY <1>1, <2>1
    <3> HIDE DEF d, b
    <3> QED BY <3>1, <3>2
  <2>4. k \in Positions /\ k.deposited = d /\ k.borrowed = b - a
    <3> DEFINE x == b - a
               s == positions[u].score + 5
    <3>1. x \in Nat /\ s \in Int
      BY <1>1, <2>3 DEF Positions
    <3>2. k = [positions[u] EXCEPT !.borrowed = x, !.score = s]
      OBVIOUS
    <3> HIDE DEF x, s, k
    <3>3. k \in Positions /\ k.deposited = positions[u].deposited /\ k.borrowed = x
      BY <1>1, <3>1, <3>2 DEF Positions
    <3> QED BY <3>3 DEF x
  <2>5. deposited' = deposited + (d - d) /\ borrowed' = borrowed + ((b - a) - b)
    BY <1>1, <2>1, <2>2
  <2> HIDE DEF k
  <2>6. To(d, b - a, k)
    BY <1>1, <2>2, <2>3, <2>4, <2>5
  <2> HIDE DEF To
  <2> QED BY <1>2, <2>6
<1> QED BY <1>3, <1>4, <1>5, <1>6

LEMMA LendingStep ==
  ASSUME LendingAssumption, LendingInv, [Credit!Next]_Credit!vars
  PROVE  LendingInv'
<1>1. \A u \in User : /\ ~Credit!ProtocolLiquidatable(positions[u])
                      /\ ~Credit!PoolLiquidatable(positions[u])
  BY CoveredIsSafe DEF LendingInv
<1>2. CASE \E u \in User, n \in Amount : \/ Credit!Deposit(u, n) \/ Credit!Withdraw(u, n)
                                         \/ Credit!Borrow(u, n) \/ Credit!Repay(u, n)
  BY <1>2, LendingCalls
<1>3. CASE UNCHANGED <<positions, deposited, borrowed>>
  BY <1>3 DEF LendingInv, DepositOf, Borrowed
<1>4. CASE UNCHANGED Credit!vars
  BY <1>3, <1>4 DEF Credit!vars, Credit!lendingVars
<1>5. CASE Credit!LendingNext
  <2>1. CASE Credit!InitializeLending
    BY <1>3, <2>1 DEF Credit!InitializeLending
  <2>2. CASE \E p \in BOOLEAN : Credit!SetPoolPaused(p)
    BY <1>3, <2>2 DEF Credit!SetPoolPaused
  <2>3. ASSUME NEW u \in User, NEW n \in Amount,
               \/ Credit!Deposit(u, n) \/ Credit!Withdraw(u, n)
               \/ Credit!Borrow(u, n) \/ Credit!Repay(u, n)
               \/ Credit!PoolDeposit(u, n) \/ Credit!PoolWithdraw(u, n)
               \/ Credit!PoolBorrow(u, n) \/ Credit!PoolRepay(u, n)
        PROVE  LendingInv'
    BY <1>2, <2>3 DEF Credit!PoolDeposit, Credit!PoolWithdraw, Credit!PoolBorrow, Credit!PoolRepay
  <2>4. ASSUME NEW u \in User, NEW n \in Amount, NEW v \in User,
               Credit!Liquidate(v, u, n) \/ Credit!PoolLiquidate(v, u, n)
        PROVE  FALSE
    BY <1>1, <2>4 DEF Credit!Liquidate, Credit!PoolLiquidate
  <2>5. ASSUME NEW n \in Amount, Credit!SocializeBadDebt(n) PROVE LendingInv'
    BY <1>3, <2>5 DEF Credit!SocializeBadDebt
  <2> QED BY <1>5, <2>1, <2>2, <2>3, <2>4, <2>5 DEF Credit!LendingNext
<1>6. CASE Credit!Next
  BY <1>5, <1>6 DEF Credit!Next, LendingAssumption
<1> QED BY <1>4, <1>6

\* The totals are those of the positions, and no position can ever be liquidated.
THEOREM LendingPositionsCounted ==
  ASSUME LendingAssumption
  PROVE  Credit!Spec => []Credit!PositionsCounted
<1>1. LendingInv => Credit!PositionsCounted
  BY CreditTotal, CoveredIsSafe DEF LendingInv, Credit!PositionsCounted, DepositOf, Borrowed
<1> QED BY <1>1, LendingStart, LendingStep, PTL DEF Credit!Spec

-----------------------------------------------------------------------------
(* Loan syndication *)

\* A loan has two tranches, and neither is empty.
Tranches == {"Senior", "Junior"}
LoanTerms == [target : [Tranches -> Nat \ {0}], yield : [Tranches -> Nat],
              deadline : Int, maturity : Int, grace : Int]

SyndicationAssumption ==
  /\ Contract = "loan-syndication"
  /\ IsFiniteSet(Lender) /\ Amount \subseteq Nat \ {0} /\ Bps \in Nat \ {0}
  /\ Terms \subseteq LoanTerms

Ended == {"Repaid", "Defaulted"}
Loan == [terms : LoanTerms, status : {"Funding", "Active", "Repaid", "Defaulted", "Cancelled"},
         repaid : Nat, claimed : Nat, funded : [Tranches -> Nat]]
Part == [principal : Nat, claimed : Nat]
Book == [Lender -> [Tranches -> Part]]

\* What the lenders of a tranche have lent, have taken back, and are due.
Lent(k, t) == [l \in Lender |-> k[l][t].principal]
Taken(k, t) == [l \in Lender |-> k[l][t].claimed]
Portion(x, k, t) ==
  [l \in Lender |-> (k[l][t].principal * Credit!Allocation(x, t)) \div x.funded[t]]

\* A loan x and the book k of its lenders agree: nobody takes anything before the
\* loan has ended, nor more than his portion after.
LoanBooked(x, k) ==
  /\ x \in Loan /\ k \in Book
  /\ \A t \in Tranches : SumOf(Lent(k, t), Lender) = x.funded[t]
  /\ x.claimed = SumOf(Taken(k, "Senior"), Lender) + SumOf(Taken(k, "Junior"), Lender)
  /\ x.status = "Funding" => x.repaid = 0
  /\ x.status \in {"Funding", "Active"} => \A l \in Lender, t \in Tranches : k[l][t].claimed = 0
  /\ x.status \in {"Active", "Repaid", "Defaulted"} => x.funded = x.terms.target
  /\ x.status \in Ended =>
       \A l \in Lender, t \in Tranches : k[l][t].claimed <= Portion(x, k, t)[l]

Lefts(s) == [id \in DOMAIN s |-> Credit!Left(s[id])]

SyndicationInv ==
  /\ loans \in Seq(Loan) /\ principals \in Seq(Book) /\ Len(principals) = Len(loans)
  /\ \A id \in DOMAIN loans : LoanBooked(loans[id], principals[id])
  /\ held = SumOf(Lefts(loans), DOMAIN loans)

LEMMA MaxOfTwo ==
  ASSUME NEW x \in Int
  PROVE  Credit!Max({0, x}) = IF x > 0 THEN x ELSE 0
<1>1. \E m \in {0, x} : \A v \in {0, x} : m >= v
  OBVIOUS
<1>2. Credit!Max({0, x}) \in {0, x} /\ \A v \in {0, x} : Credit!Max({0, x}) >= v
  BY <1>1 DEF Credit!Max
<1> QED BY <1>2

LEMMA LoanFields ==
  ASSUME SyndicationAssumption, NEW x \in Loan, NEW t \in Tranches
  PROVE  /\ x.terms \in LoanTerms /\ x.repaid \in Nat /\ x.claimed \in Nat
         /\ x.funded \in [Tranches -> Nat] /\ x.funded[t] \in Nat
         /\ x.terms.target \in [Tranches -> Nat \ {0}] /\ x.terms.target[t] \in Nat \ {0}
         /\ Credit!Due(x, t) \in Nat
<1>1. x.terms \in LoanTerms /\ x.repaid \in Nat /\ x.claimed \in Nat /\ x.funded \in [Tranches -> Nat]
  BY DEF Loan
<1>2. x.terms.target \in [Tranches -> Nat \ {0}] /\ x.terms.yield \in [Tranches -> Nat]
  BY <1>1 DEF LoanTerms
<1>3. x.terms.target[t] \in Nat \ {0} /\ x.terms.yield[t] \in Nat /\ x.funded[t] \in Nat
  BY <1>1, <1>2
<1>4. \A a, b \in Nat : a + (a * b) \div Bps \in Nat
  <2> SUFFICES ASSUME NEW a \in Nat, NEW b \in Nat PROVE a + (a * b) \div Bps \in Nat
    OBVIOUS
  <2>1. a * b \in Nat /\ Bps \in Nat \ {0}
    BY DEF SyndicationAssumption
  <2>2. (a * b) \div Bps \in Nat
    BY <2>1, OneShare
  <2> QED BY <2>2
<1>5. Credit!Due(x, t) \in Nat
  <2>1. Credit!Due(x, t) = x.terms.target[t] + (x.terms.target[t] * x.terms.yield[t]) \div Bps
    BY DEF Credit!Due
  <2> QED BY <1>3, <1>4, <2>1
<1> QED BY <1>1, <1>2, <1>3, <1>5

\* The senior tranche is served first, each up to its due, and both together from
\* what was repaid.
LEMMA Allocations ==
  ASSUME SyndicationAssumption, NEW x \in Loan
  PROVE  /\ \A t \in Tranches : /\ Credit!Allocation(x, t) \in Nat
                                /\ Credit!Allocation(x, t) <= Credit!Due(x, t)
         /\ Credit!Allocation(x, "Senior") + Credit!Allocation(x, "Junior") <= x.repaid
         /\ Credit!Allocation(x, "Junior") <= Credit!Max({0, x.repaid - Credit!Due(x, "Senior")})
<1> DEFINE r == x.repaid
           s == Credit!Due(x, "Senior")
           j == Credit!Due(x, "Junior")
           over == Credit!Max({0, r - s})
<1>1. r \in Nat /\ s \in Nat /\ j \in Nat
  BY LoanFields DEF Tranches
<1>2. /\ Credit!Allocation(x, "Senior") = IF r < s THEN r ELSE s
      /\ Credit!Allocation(x, "Junior") = IF over < j THEN over ELSE j
  BY DEF Credit!Allocation, Credit!Least
<1> HIDE DEF r, s, j
<1>3. over = IF r - s > 0 THEN r - s ELSE 0
  BY <1>1, MaxOfTwo
<1> HIDE DEF over
<1>4. /\ Credit!Allocation(x, "Senior") \in Nat /\ Credit!Allocation(x, "Junior") \in Nat
      /\ Credit!Allocation(x, "Senior") <= s /\ Credit!Allocation(x, "Junior") <= j
      /\ Credit!Allocation(x, "Senior") + Credit!Allocation(x, "Junior") <= r
      /\ Credit!Allocation(x, "Junior") <= over
  BY <1>1, <1>2, <1>3
<1> QED BY <1>4 DEF Tranches, r, s, j, over

LEMMA BookFields ==
  ASSUME NEW k \in Book, NEW l \in Lender, NEW t \in Tranches
  PROVE  /\ k[l] \in [Tranches -> Part] /\ k[l][t] \in Part
         /\ k[l][t].principal \in Nat /\ k[l][t].claimed \in Nat
         /\ Lent(k, t)[l] = k[l][t].principal /\ Taken(k, t)[l] = k[l][t].claimed
  BY DEF Book, Part, Lent, Taken

\* The lenders of a tranche are due no more than is allocated to it.
LEMMA PortionsCovered ==
  ASSUME SyndicationAssumption, NEW x, NEW k, LoanBooked(x, k), x.status \in Ended, NEW t \in Tranches
  PROVE  /\ \A l \in Lender : Portion(x, k, t)[l] \in Nat
         /\ SumOf(Portion(x, k, t), Lender) \in Nat
         /\ SumOf(Portion(x, k, t), Lender) <= Credit!Allocation(x, t)
         /\ SumOf(Taken(k, t), Lender) \in Nat
         /\ SumOf(Taken(k, t), Lender) <= SumOf(Portion(x, k, t), Lender)
<1> DEFINE w == Lent(k, t)
           z == Portion(x, k, t)
           n == Credit!Allocation(x, t)
           p == x.funded[t]
           c == Taken(k, t)
<1>1. /\ x \in Loan /\ k \in Book /\ SumOf(w, Lender) = p /\ x.funded = x.terms.target
      /\ \A l \in Lender : k[l][t].claimed <= z[l]
  BY DEF LoanBooked, Ended
<1>2. n \in Nat /\ p \in Nat \ {0} /\ IsFiniteSet(Lender)
  BY <1>1, Allocations, LoanFields DEF SyndicationAssumption
<1>3. \A l \in Lender : w[l] \in Nat /\ c[l] \in Nat /\ c[l] <= z[l] /\ z[l] = (w[l] * n) \div p
  BY <1>1, BookFields DEF Portion
<1> HIDE DEF w, z, n, p, c
<1>4. Shares(w, z, Lender, n, p)
  BY <1>2, <1>3 DEF Shares
<1>5. SumOf(z, Lender) \in Nat /\ SumOf(z, Lender) <= n
  <2>1. SumOf(w, Lender) <= p
    BY <1>1, <1>2
  <2> QED BY <1>4, <2>1, SharesCovered
<1>6. \A l \in Lender : z[l] \in Nat
  BY <1>4, SharesTyped
<1>7. SumOf(c, Lender) <= SumOf(z, Lender)
  <2>1. \A l \in Lender : c[l] \in Int /\ z[l] \in Int /\ c[l] <= z[l]
    BY <1>3, <1>6
  <2> QED BY <1>2, <2>1, SumBelow
<1>8. SumOf(c, Lender) \in Nat
  BY <1>2, <1>3, SumMonotone
<1> QED BY <1>5, <1>6, <1>7, <1>8 DEF z, n, c

\* A loan and its book become m and j, and the contract's tokens follow.
LEMMA OneLoanMoves ==
  ASSUME SyndicationAssumption, SyndicationInv, NEW id \in DOMAIN loans, NEW m, NEW j,
         LoanBooked(m, j), loans' = [loans EXCEPT ![id] = m],
         \/ principals' = [principals EXCEPT ![id] = j]
         \/ principals' = principals /\ j = principals[id],
         held' = held + (Credit!Left(m) - Credit!Left(loans[id]))
  PROVE  SyndicationInv'
<1>1. /\ loans \in Seq(Loan) /\ principals \in Seq(Book) /\ Len(principals) = Len(loans)
      /\ \A i \in DOMAIN loans : LoanBooked(loans[i], principals[i])
      /\ held = SumOf(Lefts(loans), DOMAIN loans)
  BY DEF SyndicationInv
<1>2. m \in Loan /\ j \in Book
  BY DEF LoanBooked
<1>3. /\ loans' \in Seq(Loan) /\ Len(loans') = Len(loans) /\ DOMAIN loans' = DOMAIN loans
      /\ loans'[id] = m /\ \A i \in DOMAIN loans : i # id => loans'[i] = loans[i]
  BY <1>1, <1>2
<1>4. /\ DOMAIN principals = DOMAIN loans
      /\ principals' \in Seq(Book) /\ Len(principals') = Len(principals)
      /\ principals'[id] = j /\ \A i \in DOMAIN loans : i # id => principals'[i] = principals[i]
  <2>1. DOMAIN principals = DOMAIN loans
    BY <1>1
  <2>2. CASE principals' = [principals EXCEPT ![id] = j]
    BY <1>1, <1>2, <2>1, <2>2
  <2>3. CASE principals' = principals /\ j = principals[id]
    BY <1>1, <2>1, <2>3
  <2> QED BY <2>1, <2>2, <2>3
<1>5. \A i \in DOMAIN loans' : LoanBooked(loans'[i], principals'[i])
  BY <1>1, <1>3, <1>4
<1>6. SumOf(Lefts(loans'), DOMAIN loans) = SumOf(Lefts(loans), DOMAIN loans) + (Credit!Left(m) - Credit!Left(loans[id]))
  <2> DEFINE w == Lefts(loans)
             z == Lefts(loans')
             S == DOMAIN loans
  <2>1. IsFiniteSet(S)
    <3>1. S = 1..Len(loans) /\ Len(loans) \in Nat
      BY <1>1
    <3> QED BY <3>1, FS_Interval
  <2>2. \A x \in Loan : Credit!Left(x) \in Int
    <3> SUFFICES ASSUME NEW x \in Loan PROVE Credit!Left(x) \in Int
      OBVIOUS
    <3>1. x.funded["Senior"] \in Nat /\ x.funded["Junior"] \in Nat /\ x.repaid \in Nat /\ x.claimed \in Nat
      BY LoanFields DEF Tranches
    <3> QED BY <3>1 DEF Credit!Left
  <2>3. \A i \in S : w[i] \in Int /\ z[i] \in Int /\ (i # id => z[i] = w[i])
    BY <1>1, <1>3, <2>2 DEF Lefts
  <2>4. z[id] = Credit!Left(m) /\ w[id] = Credit!Left(loans[id])
    BY <1>3 DEF Lefts
  <2> HIDE DEF w, z, S
  <2>5. SumOf(z, S) = SumOf(w, S) + (z[id] - w[id])
    <3>1. /\ \A x \in S : w[x] \in Int
          /\ z[id] \in Int /\ \A y \in S \ {id} : z[y] = w[y]
          /\ id \in S
      BY <2>3 DEF S
    <3> QED BY <2>1, <3>1, SumUpdate
  <2> QED BY <2>4, <2>5 DEF w, z, S
<1>7. held' = SumOf(Lefts(loans'), DOMAIN loans')
  BY <1>1, <1>3, <1>6
<1> QED BY <1>1, <1>3, <1>4, <1>5, <1>7 DEF SyndicationInv

\* A lender adds n to a tranche of a loan that is being funded.
LEMMA FundedMore ==
  ASSUME SyndicationAssumption, NEW x, NEW k, LoanBooked(x, k), x.status = "Funding",
         NEW l \in Lender, NEW t \in Tranches, NEW n \in Amount, NEW m, NEW j,
         m = [x EXCEPT !.funded = [x.funded EXCEPT ![t] = x.funded[t] + n]],
         j = [k EXCEPT ![l] = [k[l] EXCEPT ![t] = [k[l][t] EXCEPT !.principal = k[l][t].principal + n]]]
  PROVE  LoanBooked(m, j) /\ Credit!Left(m) = Credit!Left(x) + n
<1>1. /\ x \in Loan /\ k \in Book /\ n \in Nat /\ IsFiniteSet(Lender)
      /\ \A i \in Lender, u \in Tranches : k[i][u].claimed = 0
      /\ \A u \in Tranches : SumOf(Lent(k, u), Lender) = x.funded[u]
      /\ x.claimed = SumOf(Taken(k, "Senior"), Lender) + SumOf(Taken(k, "Junior"), Lender)
      /\ x.repaid = 0
  BY DEF LoanBooked, SyndicationAssumption
<1>2. x.funded \in [Tranches -> Nat] /\ x.funded[t] \in Nat /\ x.claimed \in Nat
  BY <1>1, LoanFields
<1>3. k[l] \in [Tranches -> Part] /\ k[l][t] \in Part /\ k[l][t].principal \in Nat
  BY <1>1, BookFields
<1>4. /\ m \in Loan /\ m.status = "Funding" /\ m.repaid = 0 /\ m.claimed = x.claimed
      /\ m.funded[t] = x.funded[t] + n /\ \A u \in Tranches \ {t} : m.funded[u] = x.funded[u]
  <2> DEFINE f == [x.funded EXCEPT ![t] = x.funded[t] + n]
  <2>1. f \in [Tranches -> Nat] /\ f[t] = x.funded[t] + n /\ \A u \in Tranches \ {t} : f[u] = x.funded[u]
    BY <1>1, <1>2
  <2> HIDE DEF f
  <2>2. m = [x EXCEPT !.funded = f]
    BY DEF f
  <2>3. /\ m \in Loan /\ m.status = x.status /\ m.repaid = x.repaid /\ m.claimed = x.claimed
        /\ m.funded = f
    BY <1>1, <2>1, <2>2 DEF Loan
  <2> QED BY <1>1, <2>1, <2>3
<1>5. /\ j \in Book /\ j[l][t].principal = k[l][t].principal + n
      /\ \A i \in Lender, u \in Tranches :
           /\ j[i][u].claimed = k[i][u].claimed
           /\ i # l \/ u # t => j[i][u].principal = k[i][u].principal
  <2> DEFINE e == [k[l][t] EXCEPT !.principal = k[l][t].principal + n]
  <2>1. e \in Part /\ e.principal = k[l][t].principal + n /\ e.claimed = k[l][t].claimed
    <3>1. k[l][t].principal + n \in Nat
      BY <1>1, <1>3
    <3> QED BY <1>3, <3>1 DEF Part
  <2>2. j = [k EXCEPT ![l] = [k[l] EXCEPT ![t] = e]]
    OBVIOUS
  <2> HIDE DEF e
  <2>3. j \in Book /\ j[l][t] = e /\ \A i \in Lender, u \in Tranches : i # l \/ u # t => j[i][u] = k[i][u]
    <3> DEFINE row == [k[l] EXCEPT ![t] = e]
    <3>1. row \in [Tranches -> Part] /\ row[t] = e /\ \A u \in Tranches \ {t} : row[u] = k[l][u]
      BY <1>3, <2>1
    <3>2. j = [k EXCEPT ![l] = row]
      BY <2>2
    <3> HIDE DEF row
    <3>3. j \in Book /\ j[l] = row /\ \A i \in Lender \ {l} : j[i] = k[i]
      BY <1>1, <3>1, <3>2 DEF Book
    <3> QED BY <3>1, <3>3
  <2> QED BY <2>1, <2>3
<1>6. \A u \in Tranches : SumOf(Lent(j, u), Lender) = m.funded[u]
  <2> SUFFICES ASSUME NEW u \in Tranches PROVE SumOf(Lent(j, u), Lender) = m.funded[u]
    OBVIOUS
  <2> DEFINE w == Lent(k, u)
             z == Lent(j, u)
  <2>1. \A i \in Lender : w[i] \in Nat /\ z[i] \in Nat /\ w[i] = k[i][u].principal /\ z[i] = j[i][u].principal
    <3> SUFFICES ASSUME NEW i \in Lender
                 PROVE  /\ w[i] \in Nat /\ z[i] \in Nat
                        /\ w[i] = k[i][u].principal /\ z[i] = j[i][u].principal
      OBVIOUS
    <3>1. w[i] \in Nat /\ w[i] = k[i][u].principal
      BY <1>1, BookFields
    <3>2. z[i] \in Nat /\ z[i] = j[i][u].principal
      BY <1>5, BookFields
    <3> QED BY <3>1, <3>2
  <2>2. SumOf(w, Lender) = x.funded[u]
    BY <1>1
  <2> HIDE DEF w, z
  <2>3. CASE u = t
    <3>1. /\ \A i \in Lender : w[i] \in Int
          /\ z[l] \in Int /\ z[l] = w[l] + n /\ w[l] \in Nat
          /\ \A i \in Lender \ {l} : z[i] = w[i]
      BY <1>5, <2>1, <2>3
    <3>2. SumOf(z, Lender) = SumOf(w, Lender) + (z[l] - w[l])
      BY <1>1, <3>1, SumUpdate
    <3>3. SumOf(z, Lender) = SumOf(w, Lender) + n
      <4>1. z[l] - w[l] = n
        BY <1>1, <3>1
      <4> QED BY <3>2, <4>1
    <3> QED BY <1>4, <2>2, <2>3, <3>3 DEF z
  <2>4. CASE u # t
    <3>1. SumOf(w, Lender) = SumOf(z, Lender)
      BY <1>1, <1>5, <2>1, <2>4, SumSame
    <3> QED BY <1>4, <2>2, <2>4, <3>1 DEF z
  <2> QED BY <2>3, <2>4
<1>7. \A u \in Tranches : Taken(j, u) = Taken(k, u)
  BY <1>5 DEF Taken
<1>8. LoanBooked(m, j)
  <2>1. m.claimed = SumOf(Taken(j, "Senior"), Lender) + SumOf(Taken(j, "Junior"), Lender)
    BY <1>1, <1>4, <1>7 DEF Tranches
  <2>2. \A i \in Lender, u \in Tranches : j[i][u].claimed = 0
    BY <1>1, <1>5
  <2> QED BY <1>4, <1>5, <1>6, <2>1, <2>2 DEF LoanBooked, Ended
<1>9. Credit!Left(m) = Credit!Left(x) + n
  <2>1. x.funded["Senior"] \in Nat /\ x.funded["Junior"] \in Nat
    BY <1>1, LoanFields DEF Tranches
  <2>2. m.funded["Senior"] + m.funded["Junior"] = x.funded["Senior"] + x.funded["Junior"] + n
    <3>1. CASE t = "Senior"
      BY <1>1, <1>4, <2>1, <3>1 DEF Tranches
    <3>2. CASE t = "Junior"
      BY <1>1, <1>4, <2>1, <3>2 DEF Tranches
    <3> QED BY <3>1, <3>2 DEF Tranches
  <2>3. /\ Credit!Left(m) = (m.funded["Senior"] + m.funded["Junior"]) - m.claimed
        /\ Credit!Left(x) = (x.funded["Senior"] + x.funded["Junior"]) - x.claimed
    BY <1>4 DEF Credit!Left
  <2> QED BY <1>1, <1>2, <1>4, <2>1, <2>2, <2>3
<1> QED BY <1>8, <1>9

\* The next n do not exceed the lender's portion of an ended loan.
MayTake(x, k, l, t, n) ==
  x.status \in Ended => k[l][t].claimed + n <= Portion(x, k, t)[l]

PaidLoan(x, n) == [x EXCEPT !.claimed = x.claimed + n]
PaidBook(k, l, t, n) ==
  [k EXCEPT ![l] = [k[l] EXCEPT ![t] = [k[l][t] EXCEPT !.claimed = k[l][t].claimed + n]]]

\* A lender takes n back from an ended or cancelled loan.
LEMMA TakenMore ==
  ASSUME SyndicationAssumption, NEW x, NEW k, LoanBooked(x, k),
         x.status \in {"Repaid", "Defaulted", "Cancelled"},
         NEW l \in Lender, NEW t \in Tranches, NEW n \in Nat, MayTake(x, k, l, t, n),
         NEW m, NEW j, m = PaidLoan(x, n), j = PaidBook(k, l, t, n)
  PROVE  LoanBooked(m, j) /\ Credit!Left(m) = Credit!Left(x) - n
<1>1. /\ x \in Loan /\ k \in Book /\ IsFiniteSet(Lender)
      /\ \A u \in Tranches : SumOf(Lent(k, u), Lender) = x.funded[u]
      /\ x.claimed = SumOf(Taken(k, "Senior"), Lender) + SumOf(Taken(k, "Junior"), Lender)
      /\ x.status \in Ended => /\ x.funded = x.terms.target
                               /\ \A i \in Lender, u \in Tranches : k[i][u].claimed <= Portion(x, k, u)[i]
  BY DEF LoanBooked, SyndicationAssumption, Ended
<1>2. x.claimed \in Nat
  BY <1>1, LoanFields
<1>3. k[l] \in [Tranches -> Part] /\ k[l][t] \in Part /\ k[l][t].claimed \in Nat
  BY <1>1, BookFields
<1>4. /\ m \in Loan /\ m.status = x.status /\ m.repaid = x.repaid /\ m.claimed = x.claimed + n
      /\ m.funded = x.funded /\ m.terms = x.terms
  <2> DEFINE c == x.claimed + n
  <2>1. c \in Nat
    BY <1>2
  <2>2. m = [x EXCEPT !.claimed = c]
    BY DEF PaidLoan
  <2> HIDE DEF c
  <2>3. /\ m \in Loan /\ m.status = x.status /\ m.repaid = x.repaid /\ m.claimed = c
        /\ m.funded = x.funded /\ m.terms = x.terms
    BY <1>1, <2>1, <2>2 DEF Loan
  <2> QED BY <2>3 DEF c
<1>5. /\ j \in Book /\ j[l][t].claimed = k[l][t].claimed + n
      /\ \A i \in Lender, u \in Tranches :
           /\ j[i][u].principal = k[i][u].principal
           /\ i # l \/ u # t => j[i][u].claimed = k[i][u].claimed
  <2> DEFINE e == [k[l][t] EXCEPT !.claimed = k[l][t].claimed + n]
             row == [k[l] EXCEPT ![t] = e]
  <2>1. e \in Part /\ e.claimed = k[l][t].claimed + n /\ e.principal = k[l][t].principal
    <3>1. k[l][t].claimed + n \in Nat
      BY <1>1, <1>3
    <3> QED BY <1>3, <3>1 DEF Part
  <2>2. j = [k EXCEPT ![l] = row]
    BY DEF PaidBook
  <2> HIDE DEF e
  <2>3. row \in [Tranches -> Part] /\ row[t] = e /\ \A u \in Tranches \ {t} : row[u] = k[l][u]
    BY <1>3, <2>1
  <2> HIDE DEF row
  <2>4. j \in Book /\ j[l] = row /\ \A i \in Lender \ {l} : j[i] = k[i]
    BY <1>1, <2>2, <2>3 DEF Book
  <2> QED BY <2>1, <2>3, <2>4
<1>6. \A u \in Tranches :
        /\ SumOf(Taken(k, u), Lender) \in Int
        /\ SumOf(Taken(j, u), Lender) = SumOf(Taken(k, u), Lender) + (IF u = t THEN n ELSE 0)
  <2> SUFFICES ASSUME NEW u \in Tranches
               PROVE  /\ SumOf(Taken(k, u), Lender) \in Int
                      /\ SumOf(Taken(j, u), Lender) =
                           SumOf(Taken(k, u), Lender) + (IF u = t THEN n ELSE 0)
    OBVIOUS
  <2> DEFINE w == Taken(k, u)
             z == Taken(j, u)
  <2>1. \A i \in Lender : w[i] \in Nat /\ z[i] \in Nat /\ w[i] = k[i][u].claimed /\ z[i] = j[i][u].claimed
    <3> SUFFICES ASSUME NEW i \in Lender
                 PROVE  /\ w[i] \in Nat /\ z[i] \in Nat
                        /\ w[i] = k[i][u].claimed /\ z[i] = j[i][u].claimed
      OBVIOUS
    <3>1. w[i] \in Nat /\ w[i] = k[i][u].claimed
      BY <1>1, BookFields
    <3>2. z[i] \in Nat /\ z[i] = j[i][u].claimed
      BY <1>5, BookFields
    <3> QED BY <3>1, <3>2
  <2> HIDE DEF w, z
  <2>2. SumOf(w, Lender) \in Int
    BY <1>1, <2>1, SumInt
  <2>3. CASE u = t
    <3>1. /\ \A i \in Lender : w[i] \in Int
          /\ z[l] \in Int /\ z[l] = w[l] + n /\ w[l] \in Nat
          /\ \A i \in Lender \ {l} : z[i] = w[i]
      BY <1>5, <2>1, <2>3
    <3>2. SumOf(z, Lender) = SumOf(w, Lender) + (z[l] - w[l])
      BY <1>1, <3>1, SumUpdate
    <3>3. z[l] - w[l] = n
      BY <3>1
    <3> QED BY <2>2, <2>3, <3>2, <3>3 DEF w, z
  <2>4. CASE u # t
    <3>1. SumOf(w, Lender) = SumOf(z, Lender)
      BY <1>1, <1>5, <2>1, <2>4, SumSame
    <3> QED BY <2>2, <2>4, <3>1 DEF w, z
  <2> QED BY <2>3, <2>4
<1>7. m.claimed = SumOf(Taken(j, "Senior"), Lender) + SumOf(Taken(j, "Junior"), Lender)
  <2> DEFINE a(u) == SumOf(Taken(k, u), Lender)
             b(u) == SumOf(Taken(j, u), Lender)
  <2>1. \A u \in {"Senior", "Junior"} : a(u) \in Int /\ b(u) = a(u) + (IF u = t THEN n ELSE 0)
    BY <1>6 DEF Tranches
  <2>2. x.claimed = a("Senior") + a("Junior") /\ m.claimed = x.claimed + n /\ t \in {"Senior", "Junior"}
    BY <1>1, <1>4 DEF Tranches
  <2>3. a("Senior") \in Int /\ a("Junior") \in Int
    BY <2>1
  <2>4. b("Senior") + b("Junior") = (a("Senior") + a("Junior")) + n
    <3>1. CASE t = "Senior"
      <4>1. b("Senior") = a("Senior") + n /\ b("Junior") = a("Junior") + 0
        BY <2>1, <3>1
      <4> HIDE DEF a, b
      <4> QED BY <2>3, <4>1
    <3>2. CASE t = "Junior"
      <4>1. b("Senior") = a("Senior") + 0 /\ b("Junior") = a("Junior") + n
        BY <2>1, <3>2
      <4> HIDE DEF a, b
      <4> QED BY <2>3, <4>1
    <3> QED BY <2>2, <3>1, <3>2
  <2> QED BY <2>2, <2>4
<1>8. \A u \in Tranches : Lent(j, u) = Lent(k, u) /\ Portion(m, j, u) = Portion(x, k, u)
  <2>1. \A u \in Tranches : Credit!Allocation(m, u) = Credit!Allocation(x, u)
    BY <1>4 DEF Credit!Allocation, Credit!Due
  <2> QED BY <1>4, <1>5, <2>1 DEF Lent, Portion
<1>9. m.status \in Ended => \A i \in Lender, u \in Tranches : j[i][u].claimed <= Portion(m, j, u)[i]
  <2> SUFFICES ASSUME m.status \in Ended, NEW i \in Lender, NEW u \in Tranches
               PROVE  j[i][u].claimed <= Portion(x, k, u)[i]
    BY <1>8
  <2>1. CASE i = l /\ u = t
    BY <1>4, <1>5, <2>1 DEF MayTake
  <2>2. CASE ~(i = l /\ u = t)
    BY <1>1, <1>4, <1>5, <2>2
  <2> QED BY <2>1, <2>2
<1>10. LoanBooked(m, j)
  BY <1>1, <1>4, <1>5, <1>7, <1>8, <1>9 DEF LoanBooked, Ended
<1>11. Credit!Left(m) = Credit!Left(x) - n
  <2> DEFINE base == IF x.status \in {"Funding", "Cancelled"}
                     THEN x.funded["Senior"] + x.funded["Junior"] ELSE x.repaid
  <2>1. base \in Int
    <3>1. x.funded["Senior"] \in Nat /\ x.funded["Junior"] \in Nat /\ x.repaid \in Nat
      BY <1>1, LoanFields DEF Tranches
    <3> QED BY <3>1
  <2>2. Credit!Left(x) = base - x.claimed /\ Credit!Left(m) = base - (x.claimed + n)
    BY <1>4 DEF Credit!Left
  <2> HIDE DEF base
  <2> QED BY <1>2, <2>1, <2>2
<1> QED BY <1>10, <1>11

\* A loan is cancelled or drawn while it is funded; it is repaid, in one or more
\* parts, or defaults after that.
LoanMayBecome(x, r, s) ==
  /\ \/ x.status = "Funding" /\ s \in {"Active", "Cancelled"} /\ r = x.repaid
     \/ x.status = "Active" /\ s \in {"Active", "Repaid", "Defaulted"}
  /\ s = "Active" => x.funded = x.terms.target

StatusOf(x, r, s) == [x EXCEPT !.repaid = r, !.status = s]

\* The status of a loan moves on, and with it what was repaid.
LEMMA StatusBecomes ==
  ASSUME SyndicationAssumption, NEW x, NEW k, LoanBooked(x, k), NEW r \in Nat,
         NEW s \in {"Active", "Repaid", "Defaulted", "Cancelled"}, NEW m,
         m = StatusOf(x, r, s), LoanMayBecome(x, r, s)
  PROVE  /\ LoanBooked(m, k) /\ m.funded = x.funded /\ m.claimed = x.claimed
         /\ Credit!Left(m) = (IF s = "Cancelled" THEN x.funded["Senior"] + x.funded["Junior"] ELSE r)
                               - x.claimed
<1>1. /\ x \in Loan /\ k \in Book
      /\ \A u \in Tranches : SumOf(Lent(k, u), Lender) = x.funded[u]
      /\ x.claimed = SumOf(Taken(k, "Senior"), Lender) + SumOf(Taken(k, "Junior"), Lender)
      /\ \A i \in Lender, u \in Tranches : k[i][u].claimed = 0
      /\ x.status = "Active" => x.funded = x.terms.target
  BY DEF LoanBooked, LoanMayBecome
<1>2. /\ m \in Loan /\ m.status = s /\ m.repaid = r /\ m.claimed = x.claimed
      /\ m.funded = x.funded /\ m.terms = x.terms
  BY <1>1 DEF Loan, StatusOf
<1>3. s \in Ended => \A i \in Lender, u \in Tranches : k[i][u].claimed <= Portion(m, k, u)[i]
  <2> SUFFICES ASSUME s \in Ended, NEW i \in Lender, NEW u \in Tranches
               PROVE  0 <= Portion(m, k, u)[i]
    BY <1>1
  <2> DEFINE p == k[i][u].principal
             a == Credit!Allocation(m, u)
             f == m.funded[u]
  <2>1. p \in Nat /\ a \in Nat
    BY <1>1, <1>2, BookFields, Allocations
  <2>2. f \in Nat \ {0}
    <3>1. x.funded = x.terms.target
      BY <1>1 DEF Ended, LoanMayBecome
    <3>2. x.terms.target[u] \in Nat \ {0}
      BY <1>1, LoanFields
    <3> QED BY <1>2, <3>1, <3>2
  <2>3. Portion(m, k, u)[i] = (p * a) \div f
    BY DEF Portion
  <2> HIDE DEF p, a, f
  <2>4. p * a \in Nat
    BY <2>1
  <2>5. (p * a) \div f \in Nat
    BY <2>2, <2>4, OneShare
  <2> QED BY <2>3, <2>5
<1>4. LoanBooked(m, k)
  BY <1>1, <1>2, <1>3 DEF LoanBooked, Ended, LoanMayBecome
<1>5. Credit!Left(m) = (IF s = "Cancelled" THEN x.funded["Senior"] + x.funded["Junior"] ELSE r) - x.claimed
  BY <1>2 DEF Credit!Left
<1> QED BY <1>2, <1>4, <1>5

LEMMA SyndicationStart ==
  ASSUME SyndicationAssumption, Credit!Init
  PROVE  SyndicationInv
<1>1. loans = <<>> /\ principals = <<>> /\ held = 0
  BY DEF Credit!Init, Credit!SyndicationInit
<1>2. DOMAIN loans = {}
  BY <1>1
<1> QED BY <1>1, <1>2, SumEmpty DEF SyndicationInv

LEMMA HeldTyped ==
  ASSUME SyndicationAssumption, SyndicationInv
  PROVE  held \in Int /\ \A id \in DOMAIN loans : Credit!Left(loans[id]) \in Int
<1> DEFINE w == Lefts(loans)
           S == DOMAIN loans
<1>1. S = 1..Len(loans) /\ Len(loans) \in Nat /\ \A id \in S : loans[id] \in Loan
  BY DEF SyndicationInv
<1>2. \A id \in S : Credit!Left(loans[id]) \in Int
  <2> SUFFICES ASSUME NEW id \in S PROVE Credit!Left(loans[id]) \in Int
    OBVIOUS
  <2> DEFINE x == loans[id]
  <2>1. x \in Loan
    BY <1>1
  <2> HIDE DEF x
  <2>2. x.funded["Senior"] \in Nat /\ x.funded["Junior"] \in Nat /\ x.repaid \in Nat /\ x.claimed \in Nat
    BY <2>1, LoanFields DEF Tranches
  <2>3. Credit!Left(x) \in Int
    BY <2>2 DEF Credit!Left
  <2> QED BY <2>3 DEF x
<1>3. IsFiniteSet(S) /\ \A id \in S : w[id] \in Int
  BY <1>1, <1>2, FS_Interval DEF Lefts
<1>4. held = SumOf(w, S)
  BY DEF SyndicationInv
<1> HIDE DEF w
<1>5. SumOf(w, S) \in Int
  BY <1>3, SumInt
<1> QED BY <1>2, <1>4, <1>5

\* What a lender may claim of an ended loan is the part of his portion that he has
\* not taken.
LEMMA OpenPortion ==
  ASSUME SyndicationAssumption, SyndicationInv, NEW id \in DOMAIN loans,
         NEW l \in Lender, NEW t \in Tranches, loans[id].status \in Ended
  PROVE  /\ Portion(loans[id], principals[id], t)[l] \in Nat
         /\ principals[id][l][t].claimed \in Nat
         /\ Credit!Claimable(l, id, t) =
              Portion(loans[id], principals[id], t)[l] - principals[id][l][t].claimed
<1> DEFINE x == loans[id]
           k == principals[id]
           p == k[l][t].principal
           c == k[l][t].claimed
           a == Credit!Allocation(x, t)
           f == x.funded[t]
<1>1. /\ LoanBooked(x, k) /\ x \in Loan /\ k \in Book /\ x.funded = x.terms.target
      /\ c <= Portion(x, k, t)[l]
  BY DEF SyndicationInv, LoanBooked, Ended
<1>2. Portion(x, k, t)[l] \in Nat
  BY <1>1, PortionsCovered
<1>3. p \in Nat /\ c \in Nat /\ a \in Nat /\ f \in Nat \ {0}
  BY <1>1, BookFields, Allocations, LoanFields
<1>4. Portion(x, k, t)[l] = (p * a) \div f
  BY DEF Portion
<1>5. Credit!Claimable(l, id, t) = IF p = 0 THEN 0 ELSE (a * p) \div f - c
  BY DEF Credit!Claimable
<1> HIDE DEF x, k, p, c, a, f
<1>6. a * p = p * a /\ (p = 0 => (p * a) \div f = 0)
  <2>1. a * p = p * a
    BY <1>3
  <2>2. \A u \in Nat \ {0} : 0 \div u = 0
    OBVIOUS
  <2>3. p = 0 => p * a = 0
    BY <1>3
  <2> QED BY <1>3, <2>1, <2>2, <2>3
<1>7. Credit!Claimable(l, id, t) = Portion(x, k, t)[l] - c
  <2>1. CASE p = 0
    BY <1>1, <1>2, <1>3, <1>4, <1>5, <1>6, <2>1
  <2>2. CASE p # 0
    BY <1>4, <1>5, <1>6, <2>2
  <2> QED BY <2>1, <2>2
<1> QED BY <1>2, <1>3, <1>7 DEF x, k, c

LEMMA FundStep ==
  ASSUME SyndicationAssumption, SyndicationInv, NEW id \in DOMAIN loans,
         NEW l \in Lender, NEW t \in Tranches, NEW n \in Amount, Credit!Fund(l, id, t, n)
  PROVE  SyndicationInv'
<1> DEFINE x == loans[id]
           k == principals[id]
           m == [x EXCEPT !.funded = [x.funded EXCEPT ![t] = x.funded[t] + n]]
           j == [k EXCEPT ![l] = [k[l] EXCEPT ![t] = [k[l][t] EXCEPT !.principal = k[l][t].principal + n]]]
<1>1. LoanBooked(x, k) /\ x.status = "Funding"
  BY DEF SyndicationInv, Credit!Fund
<1>2. /\ loans' = [loans EXCEPT ![id] = m] /\ principals' = [principals EXCEPT ![id] = j]
      /\ held' = held + n
  BY DEF Credit!Fund
<1>3. held \in Int /\ Credit!Left(x) \in Int /\ n \in Int
  BY HeldTyped DEF SyndicationAssumption
<1>4. LoanBooked(m, j) /\ Credit!Left(m) = Credit!Left(x) + n
  <2> HIDE DEF x, k
  <2> QED BY <1>1, FundedMore
<1> HIDE DEF m, j
<1>5. held' = held + (Credit!Left(m) - Credit!Left(x))
  BY <1>2, <1>3, <1>4
<1> QED BY <1>2, <1>4, <1>5, OneLoanMoves

\* What is paid is what the lender has not yet taken of his portion, or of his
\* principal when the loan never started.
OwedOnLoan(l, id, t, n) ==
  \/ /\ loans[id].status = "Cancelled"
     /\ n = principals[id][l][t].principal - principals[id][l][t].claimed
  \/ loans[id].status \in Ended /\ n = Credit!Claimable(l, id, t)

LEMMA PaidStep ==
  ASSUME SyndicationAssumption, SyndicationInv, NEW id \in DOMAIN loans,
         NEW l \in Lender, NEW t \in Tranches, NEW n,
         Credit!Paid(l, id, t, n), OwedOnLoan(l, id, t, n)
  PROVE  SyndicationInv'
<1> DEFINE x == loans[id]
           k == principals[id]
           m == [x EXCEPT !.claimed = x.claimed + n]
           j == [k EXCEPT ![l] = [k[l] EXCEPT ![t] = [k[l][t] EXCEPT !.claimed = k[l][t].claimed + n]]]
<1>1. LoanBooked(x, k) /\ x.status \in {"Repaid", "Defaulted", "Cancelled"} /\ n > 0
  BY DEF SyndicationInv, Credit!Paid, OwedOnLoan, Ended
<1>2. /\ loans' = [loans EXCEPT ![id] = m] /\ principals' = [principals EXCEPT ![id] = j]
      /\ held' = held - n
  BY DEF Credit!Paid
<1>3. held \in Int /\ Credit!Left(x) \in Int
  BY HeldTyped
<1>4. k[l][t].principal \in Nat /\ k[l][t].claimed \in Nat
  BY <1>1, BookFields DEF LoanBooked
<1>5. n \in Nat /\ MayTake(x, k, l, t, n)
  <2>1. CASE x.status = "Cancelled"
    <3>1. n = k[l][t].principal - k[l][t].claimed
      BY <2>1 DEF OwedOnLoan, Ended
    <3> QED BY <1>1, <1>4, <2>1, <3>1 DEF Ended, MayTake
  <2>2. CASE x.status \in Ended
    <3>1. n = Credit!Claimable(l, id, t)
      BY <2>2 DEF OwedOnLoan, Ended
    <3>2. Credit!Claimable(l, id, t) = Portion(x, k, t)[l] - k[l][t].claimed /\ Portion(x, k, t)[l] \in Nat
      BY <2>2, OpenPortion
    <3> QED BY <1>1, <1>4, <3>1, <3>2 DEF MayTake
  <2> QED BY <1>1, <2>1, <2>2 DEF Ended
<1>6. LoanBooked(m, j) /\ Credit!Left(m) = Credit!Left(x) - n
  <2>1. m = PaidLoan(x, n) /\ j = PaidBook(k, l, t, n)
    BY DEF PaidLoan, PaidBook
  <2> HIDE DEF m, j, x, k
  <2> QED BY <1>1, <1>5, <2>1, TakenMore
<1> HIDE DEF m, j
<1>7. held' = held + (Credit!Left(m) - Credit!Left(x))
  BY <1>2, <1>3, <1>5, <1>6
<1> QED BY <1>2, <1>6, <1>7, OneLoanMoves

\* A step that moves the status of one loan, and the tokens that go with it.
Moved(id, r, s) ==
  \/ /\ loans[id].status = "Funding" /\ s \in {"Active", "Cancelled"} /\ r = loans[id].repaid
     /\ s = "Cancelled" => held' = held
     /\ s = "Active" => /\ loans[id].funded = loans[id].terms.target
                        /\ held' = held - Credit!Principal(loans[id])
  \/ /\ loans[id].status = "Active" /\ s \in {"Active", "Repaid", "Defaulted"}
     /\ held' = held + (r - loans[id].repaid)

LEMMA StatusStep ==
  ASSUME SyndicationAssumption, SyndicationInv, NEW id \in DOMAIN loans, NEW r \in Nat,
         NEW s \in {"Active", "Repaid", "Defaulted", "Cancelled"},
         loans' = [loans EXCEPT ![id] = [loans[id] EXCEPT !.repaid = r, !.status = s]],
         principals' = principals, Moved(id, r, s)
  PROVE  SyndicationInv'
<1> DEFINE x == loans[id]
           k == principals[id]
           m == [x EXCEPT !.repaid = r, !.status = s]
<1>1. LoanBooked(x, k)
  BY DEF SyndicationInv
<1>2. /\ x \in Loan /\ (x.status = "Active" => x.funded = x.terms.target)
      /\ (x.status = "Funding" => x.repaid = 0)
  BY <1>1 DEF LoanBooked
<1>3. /\ held \in Int /\ Credit!Left(x) \in Int /\ x.repaid \in Nat /\ x.claimed \in Nat
      /\ x.funded["Senior"] \in Nat /\ x.funded["Junior"] \in Nat
  BY <1>2, HeldTyped, LoanFields DEF Tranches
<1>4. /\ LoanBooked(m, k)
      /\ Credit!Left(m) = (IF s = "Cancelled" THEN x.funded["Senior"] + x.funded["Junior"] ELSE r)
                            - x.claimed
  <2>1. LoanMayBecome(x, r, s)
    BY <1>2 DEF LoanMayBecome, Moved
  <2>2. m = StatusOf(x, r, s)
    BY DEF StatusOf
  <2> HIDE DEF m, x, k
  <2>3. m.claimed = x.claimed /\ LoanBooked(m, k)
        /\ Credit!Left(m) = (IF s = "Cancelled" THEN x.funded["Senior"] + x.funded["Junior"] ELSE r)
                              - x.claimed
    BY <1>1, <2>1, <2>2, StatusBecomes
  <2> QED BY <2>3
<1>5. held' = held + (Credit!Left(m) - Credit!Left(x))
  <2> DEFINE both == x.funded["Senior"] + x.funded["Junior"]
  <2>1. both \in Nat
    BY <1>3
  <2>2. CASE x.status = "Funding"
    <3>1. Credit!Left(x) = both - x.claimed
      BY <2>2 DEF Credit!Left
    <3>2. CASE s = "Cancelled"
      <4>1. held' = held /\ Credit!Left(m) = both - x.claimed
        BY <1>4, <2>2, <3>2 DEF Moved
      <4> QED BY <1>3, <3>1, <4>1
    <3>3. CASE s = "Active"
      <4>1. held' = held - both /\ r = 0 /\ Credit!Left(m) = r - x.claimed
        BY <1>2, <1>4, <2>2, <3>3 DEF Credit!Principal, Moved
      <4> HIDE DEF both, m, x
      <4> QED BY <1>3, <2>1, <3>1, <4>1
    <3> QED BY <2>2, <3>2, <3>3 DEF Moved
  <2>3. CASE x.status = "Active"
    <3>1. /\ Credit!Left(x) = x.repaid - x.claimed /\ Credit!Left(m) = r - x.claimed
          /\ held' = held + (r - x.repaid)
      BY <1>4, <2>3 DEF Credit!Left, Moved
    <3> HIDE DEF m, x
    <3> QED BY <1>3, <3>1
  <2> QED BY <2>2, <2>3 DEF Moved
<1> HIDE DEF m
<1>6. loans' = [loans EXCEPT ![id] = m]
  BY DEF m
<1> QED BY <1>4, <1>5, <1>6, OneLoanMoves

LEMMA CreateLoanStep ==
  ASSUME SyndicationAssumption, SyndicationInv, NEW terms \in Terms, Credit!CreateLoan(terms)
  PROVE  SyndicationInv'
<1> DEFINE m == [terms |-> terms, status |-> "Funding", repaid |-> 0, claimed |-> 0,
                 funded |-> [t \in Credit!Tranche |-> 0]]
           k == [l \in Lender |-> [t \in Credit!Tranche |-> [principal |-> 0, claimed |-> 0]]]
           n == Len(loans) + 1
<1>1. loans' = Append(loans, m) /\ principals' = Append(principals, k) /\ held' = held
  BY DEF Credit!CreateLoan
<1>2. /\ loans \in Seq(Loan) /\ principals \in Seq(Book) /\ Len(principals) = Len(loans)
      /\ Len(loans) \in Nat
      /\ \A i \in 1..Len(loans) : LoanBooked(loans[i], principals[i])
  BY DEF SyndicationInv
<1>3. m \in Loan /\ m.status = "Funding" /\ m.repaid = 0 /\ m.claimed = 0 /\ \A t \in Tranches : m.funded[t] = 0
  BY DEF SyndicationAssumption, Loan, Tranches, Credit!Tranche
<1>4. k \in Book /\ \A l \in Lender, t \in Tranches : k[l][t].principal = 0 /\ k[l][t].claimed = 0
  BY DEF Book, Part, Tranches, Credit!Tranche
<1> HIDE DEF m, k
<1>5. \A t \in Tranches : SumOf(Lent(k, t), Lender) = 0 /\ SumOf(Taken(k, t), Lender) = 0
  <2> SUFFICES ASSUME NEW t \in Tranches
               PROVE  SumOf(Lent(k, t), Lender) = 0 /\ SumOf(Taken(k, t), Lender) = 0
    OBVIOUS
  <2> DEFINE w == Lent(k, t)
             z == Taken(k, t)
  <2>1. \A l \in Lender : w[l] = 0 /\ z[l] = 0
    BY <1>4 DEF Lent, Taken
  <2> HIDE DEF w, z
  <2>2. SumOf(w, Lender) = 0 /\ SumOf(z, Lender) = 0
    BY <2>1, SumZero DEF SyndicationAssumption
  <2> QED BY <2>2 DEF w, z
<1>6. LoanBooked(m, k)
  <2>1. m.claimed = SumOf(Taken(k, "Senior"), Lender) + SumOf(Taken(k, "Junior"), Lender)
    BY <1>3, <1>5 DEF Tranches
  <2> QED BY <1>3, <1>4, <1>5, <2>1 DEF LoanBooked, Ended
<1>7. /\ loans' \in Seq(Loan) /\ principals' \in Seq(Book)
      /\ Len(loans') = n /\ Len(principals') = n
      /\ loans'[n] = m /\ principals'[n] = k
      /\ \A i \in 1..Len(loans) : loans'[i] = loans[i] /\ principals'[i] = principals[i]
  BY <1>1, <1>2, <1>3, <1>4
<1>8. \A i \in DOMAIN loans' : LoanBooked(loans'[i], principals'[i])
  <2> SUFFICES ASSUME NEW i \in DOMAIN loans' PROVE LoanBooked(loans'[i], principals'[i])
    OBVIOUS
  <2>1. i \in 1..n
    BY <1>7
  <2>2. i \in 1..Len(loans) \/ i = n
    BY <1>2, <2>1
  <2> QED BY <1>2, <1>6, <1>7, <2>2
<1>9. held' = SumOf(Lefts(loans'), DOMAIN loans')
  <2> DEFINE w == Lefts(loans)
             z == Lefts(loans')
             S == 1..Len(loans)
             U == 1..n
  <2>1. Credit!Left(m) = 0
    <3>1. m.funded["Senior"] = 0 /\ m.funded["Junior"] = 0 /\ m.status = "Funding" /\ m.claimed = 0
      BY <1>3 DEF Tranches
    <3> QED BY <3>1 DEF Credit!Left
  <2>2. /\ IsFiniteSet(U) /\ U \ {n} = S /\ n \in U
    <3>1. n \in Nat /\ Len(loans) \in Nat /\ n = Len(loans) + 1
      BY <1>2
    <3>2. IsFiniteSet(U)
      BY <3>1, FS_Interval
    <3>3. n \in U
      BY <3>1
    <3>4. \A a \in Nat : (1..(a + 1)) \ {a + 1} = 1..a
      OBVIOUS
    <3>5. U \ {n} = S
      BY <3>1, <3>4
    <3> QED BY <3>2, <3>3, <3>5
  <2>3. DOMAIN loans = S /\ DOMAIN loans' = U
    BY <1>2, <1>7
  <2>4. \A i \in S : z[i] = w[i] /\ w[i] \in Int
    <3>1. \A i \in S : w[i] \in Int
      BY <2>3, HeldTyped DEF Lefts
    <3> QED BY <1>7, <2>2, <2>3, <3>1 DEF Lefts
  <2>5. z[n] = 0
    BY <1>7, <2>1, <2>2, <2>3 DEF Lefts
  <2>6. held = SumOf(w, S)
    BY <2>3 DEF SyndicationInv
  <2>7. IsFiniteSet(S)
    BY <1>2, FS_Interval
  <2> HIDE DEF w, z, S, U, n
  <2>8. SumOf(z, U) = z[n] + SumOf(z, U \ {n})
    <3>1. \A i \in U : z[i] \in Int
      BY <2>2, <2>4, <2>5
    <3> QED BY <2>2, <3>1, SumRemove
  <2>9. SumOf(z, U \ {n}) = SumOf(w, S)
    <3>1. SumOf(w, S) = SumOf(z, S)
      BY <2>4, <2>7, SumSame
    <3> QED BY <2>2, <3>1
  <2>10. SumOf(w, S) \in Int
    BY <2>4, <2>7, SumInt
  <2>11. SumOf(z, U) = SumOf(w, S)
    BY <2>5, <2>8, <2>9, <2>10
  <2> QED BY <1>1, <2>3, <2>6, <2>11 DEF z
<1> QED BY <1>7, <1>8, <1>9 DEF SyndicationInv

\* A step that leaves what was repaid.
LEMMA RepaidStays ==
  ASSUME SyndicationInv, NEW id \in DOMAIN loans, NEW s \in Credit!LoanStatus
  PROVE  /\ loans[id].repaid \in Nat
         /\ [loans EXCEPT ![id].status = s]
              = [loans EXCEPT ![id] = [loans[id] EXCEPT !.repaid = loans[id].repaid, !.status = s]]
<1> DEFINE x == loans[id]
<1>1. x \in Loan
  BY DEF SyndicationInv
<1>2. [loans EXCEPT ![id].status = s] = [loans EXCEPT ![id] = [x EXCEPT !.status = s]]
  OBVIOUS
<1>3. x.repaid \in Nat /\ [x EXCEPT !.status = s] = [x EXCEPT !.repaid = x.repaid, !.status = s]
  <2> HIDE DEF x
  <2> QED BY <1>1 DEF Loan
<1> QED BY <1>2, <1>3

LEMMA DrawdownStep ==
  ASSUME SyndicationAssumption, SyndicationInv, NEW id \in DOMAIN loans, Credit!Drawdown(id)
  PROVE  SyndicationInv'
<1> DEFINE r == loans[id].repaid
<1>1. "Active" \in Credit!LoanStatus
  BY DEF Credit!LoanStatus
<1>2. r \in Nat /\ loans' = [loans EXCEPT ![id] = [loans[id] EXCEPT !.repaid = r, !.status = "Active"]]
  BY <1>1, RepaidStays DEF Credit!Drawdown
<1>3. principals' = principals /\ Moved(id, r, "Active")
  BY DEF Credit!Drawdown, Moved
<1> HIDE DEF r
<1> QED BY <1>2, <1>3, StatusStep

\* MarkDefault, CancelLoan and ExpireLoan.
LEMMA ClosedStep ==
  ASSUME SyndicationAssumption, SyndicationInv, NEW id \in DOMAIN loans,
         NEW s \in {"Defaulted", "Cancelled"}, Credit!Closed(id, s),
         loans[id].status = IF s = "Cancelled" THEN "Funding" ELSE "Active"
  PROVE  SyndicationInv'
<1> DEFINE r == loans[id].repaid
<1>1. s \in Credit!LoanStatus
  BY DEF Credit!LoanStatus
<1>2. r \in Nat /\ loans' = [loans EXCEPT ![id] = [loans[id] EXCEPT !.repaid = r, !.status = s]]
  BY <1>1, RepaidStays DEF Credit!Closed
<1>3. principals' = principals /\ Moved(id, r, s)
  <2>1. principals' = principals /\ held' = held /\ r = loans[id].repaid
    BY DEF Credit!Closed
  <2>2. held' = held + (r - loans[id].repaid)
    <3>1. held \in Int
      BY HeldTyped
    <3> QED BY <1>2, <2>1, <3>1
  <2> QED BY <2>1, <2>2 DEF Moved
<1> HIDE DEF r
<1> QED BY <1>2, <1>3, StatusStep

LEMMA RepayLoanStep ==
  ASSUME SyndicationAssumption, SyndicationInv, NEW id \in DOMAIN loans, NEW n \in Amount,
         Credit!RepayLoan(id, n)
  PROVE  SyndicationInv'
<1> DEFINE actual == Credit!Least(n, Credit!TotalDue(loans[id]) - loans[id].repaid)
           r == loans[id].repaid + actual
           s == IF r = Credit!TotalDue(loans[id]) THEN "Repaid" ELSE "Active"
<1>1. /\ loans[id].status = "Active" /\ actual > 0 /\ principals' = principals
      /\ held' = held + actual
      /\ loans' = [loans EXCEPT ![id].repaid = r, ![id].status = s]
  BY DEF Credit!RepayLoan
<1>2. loans[id].repaid \in Nat /\ actual \in Int
  <2>1. loans[id] \in Loan
    BY DEF SyndicationInv
  <2>2. loans[id].repaid \in Nat /\ Credit!TotalDue(loans[id]) \in Nat
    BY <2>1, LoanFields DEF Tranches, Credit!TotalDue
  <2>3. n \in Nat
    BY DEF SyndicationAssumption
  <2> QED BY <2>2, <2>3 DEF Credit!Least
<1>3. s \in {"Active", "Repaid"}
  OBVIOUS
<1> HIDE DEF actual, s
<1>4. r \in Nat /\ r - loans[id].repaid = actual
  BY <1>1, <1>2
<1> HIDE DEF r
<1>5. loans' = [loans EXCEPT ![id] = [loans[id] EXCEPT !.repaid = r, !.status = s]]
  BY <1>1
<1>6. Moved(id, r, s)
  BY <1>1, <1>3, <1>4 DEF Moved
<1>7. /\ r \in Nat /\ principals' = principals
      /\ s \in {"Active", "Repaid", "Defaulted", "Cancelled"}
  BY <1>1, <1>3, <1>4
<1> QED BY <1>5, <1>6, <1>7, StatusStep

LEMMA SyndicationStep ==
  ASSUME SyndicationAssumption, SyndicationInv, [Credit!Next]_Credit!vars
  PROVE  SyndicationInv'
<1>1. CASE UNCHANGED <<loans, principals, held>>
  BY <1>1 DEF SyndicationInv, Lefts
<1>2. CASE UNCHANGED Credit!vars
  BY <1>1, <1>2 DEF Credit!vars, Credit!syndicationVars
<1>3. CASE Credit!SyndicationNext
  <2>1. CASE Credit!InitializeSyndication \/ Credit!Tick
    BY <1>1, <2>1 DEF Credit!InitializeSyndication, Credit!Tick
  <2>2. ASSUME NEW p \in BOOLEAN, Credit!SetSyndicationPaused(p) PROVE SyndicationInv'
    BY <1>1, <2>2 DEF Credit!SetSyndicationPaused
  <2>3. ASSUME NEW terms \in Terms, Credit!CreateLoan(terms) PROVE SyndicationInv'
    BY <2>3, CreateLoanStep
  <2>4. ASSUME NEW id \in DOMAIN loans, Credit!Drawdown(id) PROVE SyndicationInv'
    BY <2>4, DrawdownStep
  <2>5. ASSUME NEW id \in DOMAIN loans, Credit!MarkDefault(id) PROVE SyndicationInv'
    <3>1. loans[id].status = "Active" /\ Credit!Closed(id, "Defaulted")
      BY <2>5 DEF Credit!MarkDefault
    <3> QED BY <3>1, ClosedStep
  <2>6. ASSUME NEW id \in DOMAIN loans, Credit!CancelLoan(id) \/ Credit!ExpireLoan(id)
        PROVE  SyndicationInv'
    <3>1. loans[id].status = "Funding" /\ Credit!Closed(id, "Cancelled")
      BY <2>6 DEF Credit!CancelLoan, Credit!ExpireLoan
    <3> QED BY <3>1, ClosedStep
  <2>7. ASSUME NEW id \in DOMAIN loans, NEW n \in Amount, Credit!RepayLoan(id, n)
        PROVE  SyndicationInv'
    BY <2>7, RepayLoanStep
  <2>8. ASSUME NEW id \in DOMAIN loans, NEW l \in Lender, NEW t \in Tranches,
               Credit!ClaimRefund(l, id, t)
        PROVE  SyndicationInv'
    <3> DEFINE n == principals[id][l][t].principal - principals[id][l][t].claimed
    <3>1. Credit!Paid(l, id, t, n) /\ OwedOnLoan(l, id, t, n)
      BY <2>8 DEF Credit!ClaimRefund, OwedOnLoan
    <3> HIDE DEF n
    <3> QED BY <3>1, PaidStep
  <2>9. ASSUME NEW id \in DOMAIN loans, NEW l \in Lender, NEW t \in Tranches, Credit!Claim(l, id, t)
        PROVE  SyndicationInv'
    <3> DEFINE n == Credit!Claimable(l, id, t)
    <3>1. Credit!Paid(l, id, t, n) /\ OwedOnLoan(l, id, t, n)
      BY <2>9 DEF Credit!Claim, OwedOnLoan, Ended
    <3> HIDE DEF n
    <3> QED BY <3>1, PaidStep
  <2>10. ASSUME NEW id \in DOMAIN loans, NEW l \in Lender, NEW t \in Tranches, NEW n \in Amount,
                Credit!Fund(l, id, t, n)
         PROVE  SyndicationInv'
    BY <2>10, FundStep
  <2>11. Credit!Tranche = Tranches
    BY DEF Credit!Tranche, Tranches
  <2> QED BY <1>3, <2>1, <2>2, <2>3, <2>4, <2>5, <2>6, <2>7, <2>8, <2>9, <2>10, <2>11
       DEF Credit!SyndicationNext
<1>4. CASE Credit!Next
  BY <1>3, <1>4 DEF Credit!Next, SyndicationAssumption
<1> QED BY <1>2, <1>4

\* What the lenders may still claim of an ended loan does not exceed what is left
\* of it.
StillDue(id) == [l \in Lender |-> Credit!Claimable(l, id, "Senior") + Credit!Claimable(l, id, "Junior")]

LEMMA OpenCovered ==
  ASSUME SyndicationAssumption, SyndicationInv, NEW id \in DOMAIN loans, loans[id].status \in Ended
  PROVE  SumOf(StillDue(id), Lender) <= Credit!Left(loans[id])
<1> DEFINE open == StillDue(id)
           x == loans[id]
           k == principals[id]
           due(t) == Portion(x, k, t)
           taken(t) == Taken(k, t)
           allDue == [l \in Lender |-> due("Senior")[l] + due("Junior")[l]]
           allTaken == [l \in Lender |-> taken("Senior")[l] + taken("Junior")[l]]
           D(t) == SumOf(due(t), Lender)
           T(t) == SumOf(taken(t), Lender)
<1>1. /\ LoanBooked(x, k) /\ x \in Loan /\ k \in Book /\ x.status \in Ended /\ IsFiniteSet(Lender)
      /\ x.claimed = T("Senior") + T("Junior")
  BY DEF SyndicationInv, LoanBooked, SyndicationAssumption
<1>2. \A t \in Tranches :
        /\ D(t) \in Nat /\ D(t) <= Credit!Allocation(x, t) /\ T(t) \in Nat
        /\ Credit!Allocation(x, t) \in Nat
        /\ \A l \in Lender : due(t)[l] \in Nat /\ taken(t)[l] \in Nat
  <2> SUFFICES ASSUME NEW t \in Tranches
               PROVE  /\ D(t) \in Nat /\ D(t) <= Credit!Allocation(x, t) /\ T(t) \in Nat
                      /\ Credit!Allocation(x, t) \in Nat
                      /\ \A l \in Lender : due(t)[l] \in Nat /\ taken(t)[l] \in Nat
    OBVIOUS
  <2>1. /\ D(t) \in Nat /\ D(t) <= Credit!Allocation(x, t) /\ T(t) \in Nat
        /\ \A l \in Lender : due(t)[l] \in Nat
    BY <1>1, PortionsCovered
  <2>2. Credit!Allocation(x, t) \in Nat
    BY <1>1, Allocations
  <2>3. \A l \in Lender : taken(t)[l] \in Nat
    BY <1>1, BookFields
  <2> QED BY <2>1, <2>2, <2>3
<1>3. \A l \in Lender : open[l] = allDue[l] - allTaken[l]
  <2> SUFFICES ASSUME NEW l \in Lender PROVE open[l] = allDue[l] - allTaken[l]
    OBVIOUS
  <2>1. \A t \in Tranches : Credit!Claimable(l, id, t) = due(t)[l] - taken(t)[l]
    BY <1>1, OpenPortion, BookFields
  <2>2. open[l] = (due("Senior")[l] - taken("Senior")[l]) + (due("Junior")[l] - taken("Junior")[l])
    BY <2>1 DEF Tranches, StillDue
  <2>3. /\ due("Senior")[l] \in Nat /\ due("Junior")[l] \in Nat
        /\ taken("Senior")[l] \in Nat /\ taken("Junior")[l] \in Nat
    BY <1>2 DEF Tranches
  <2>4. /\ allDue[l] = due("Senior")[l] + due("Junior")[l]
        /\ allTaken[l] = taken("Senior")[l] + taken("Junior")[l]
    OBVIOUS
  <2> HIDE DEF due, taken, allDue, allTaken
  <2> QED BY <2>2, <2>3, <2>4
<1>4. /\ SumOf(allDue, Lender) = D("Senior") + D("Junior")
      /\ \A l \in Lender : allDue[l] \in Int
  <2> DEFINE a == due("Senior")
             b == due("Junior")
  <2>1. \A l \in Lender : a[l] \in Int /\ b[l] \in Int /\ allDue[l] = a[l] + b[l]
    BY <1>2 DEF Tranches
  <2> HIDE DEF a, b, allDue
  <2>2. SumOf(allDue, Lender) = SumOf(a, Lender) + SumOf(b, Lender)
    BY <1>1, <2>1, SumPlus
  <2> QED BY <2>1, <2>2 DEF a, b
<1>5. /\ SumOf(allTaken, Lender) = T("Senior") + T("Junior")
      /\ \A l \in Lender : allTaken[l] \in Int
  <2> DEFINE a == taken("Senior")
             b == taken("Junior")
  <2>1. \A l \in Lender : a[l] \in Int /\ b[l] \in Int /\ allTaken[l] = a[l] + b[l]
    BY <1>2 DEF Tranches
  <2> HIDE DEF a, b, allTaken
  <2>2. SumOf(allTaken, Lender) = SumOf(a, Lender) + SumOf(b, Lender)
    BY <1>1, <2>1, SumPlus
  <2> QED BY <2>1, <2>2 DEF a, b
<1>6. SumOf(open, Lender) \in Int /\ SumOf(allDue, Lender) = SumOf(open, Lender) + SumOf(allTaken, Lender)
  <2> HIDE DEF allDue, allTaken, open
  <2>1. \A l \in Lender : /\ open[l] \in Int /\ allTaken[l] \in Int
                          /\ allDue[l] = open[l] + allTaken[l]
    BY <1>3, <1>4, <1>5
  <2> QED BY <1>1, <2>1, SumPlus
<1>7. Credit!Allocation(x, "Senior") + Credit!Allocation(x, "Junior") <= x.repaid
  BY <1>1, Allocations
<1>8. Credit!Left(x) = x.repaid - x.claimed /\ x.repaid \in Nat
  BY <1>1, LoanFields DEF Credit!Left, Ended, Loan
<1>9. /\ D("Senior") \in Nat /\ D("Junior") \in Nat /\ T("Senior") \in Nat /\ T("Junior") \in Nat
      /\ D("Senior") <= Credit!Allocation(x, "Senior") /\ D("Junior") <= Credit!Allocation(x, "Junior")
      /\ Credit!Allocation(x, "Senior") \in Nat /\ Credit!Allocation(x, "Junior") \in Nat
  BY <1>2 DEF Tranches
<1>10. SumOf(open, Lender) <= Credit!Left(x)
  <2> HIDE DEF x, D, T, allDue, allTaken, open
  <2> QED BY <1>1, <1>4, <1>5, <1>6, <1>7, <1>8, <1>9
<1> QED BY <1>10

\* The contract holds exactly what every loan should have left, and the lenders of
\* a loan may never claim more than that.
THEOREM SyndicatedLoansBacked ==
  ASSUME SyndicationAssumption
  PROVE  Credit!Spec => []Credit!LoansBacked
<1>1. SyndicationInv => Credit!LoansBacked
  <2> SUFFICES ASSUME SyndicationInv PROVE Credit!LoansBacked
    OBVIOUS
  <2>1. held = Credit!Total([id \in DOMAIN loans |-> Credit!Left(loans[id])], DOMAIN loans)
    BY CreditTotal DEF SyndicationInv, Lefts
  <2>2. ASSUME NEW id \in DOMAIN loans, loans[id].status \in {"Repaid", "Defaulted"}
        PROVE  Credit!Total([l \in Lender |-> Credit!Claimable(l, id, "Senior")
                                                + Credit!Claimable(l, id, "Junior")], Lender)
                 <= Credit!Left(loans[id])
    BY <2>2, OpenCovered, CreditTotal DEF Ended, StillDue
  <2> QED BY <2>1, <2>2 DEF Credit!LoansBacked
<1> QED BY <1>1, SyndicationStart, SyndicationStep, PTL DEF Credit!Spec

\* No tranche gets more than it is due, and the junior one nothing of what the
\* senior one is due.
THEOREM SeniorsFirst ==
  ASSUME SyndicationAssumption
  PROVE  Credit!Spec => []Credit!SeniorFirst
<1>1. SyndicationInv => Credit!SeniorFirst
  <2> SUFFICES ASSUME SyndicationInv, NEW id \in DOMAIN loans, NEW t \in Credit!Tranche,
                      loans[id].status \in {"Repaid", "Defaulted"}
               PROVE  /\ SumOf(Taken(principals[id], t), Lender) <= Credit!Due(loans[id], t)
                      /\ SumOf(Taken(principals[id], "Junior"), Lender)
                           <= Credit!Max({0, loans[id].repaid - Credit!Due(loans[id], "Senior")})
    BY CreditTotal DEF Credit!SeniorFirst, Taken
  <2> DEFINE x == loans[id]
             k == principals[id]
  <2>1. LoanBooked(x, k) /\ x \in Loan /\ x.status \in Ended
    BY DEF SyndicationInv, LoanBooked, Ended
  <2>2. ASSUME NEW u \in Tranches
        PROVE  /\ SumOf(Taken(k, u), Lender) \in Nat
               /\ SumOf(Taken(k, u), Lender) <= SumOf(Portion(x, k, u), Lender)
               /\ SumOf(Portion(x, k, u), Lender) \in Nat
               /\ SumOf(Portion(x, k, u), Lender) <= Credit!Allocation(x, u)
               /\ Credit!Allocation(x, u) \in Nat /\ Credit!Allocation(x, u) <= Credit!Due(x, u)
               /\ Credit!Due(x, u) \in Nat
    BY <2>1, PortionsCovered, Allocations, LoanFields
  <2>3. t \in Tranches /\ "Junior" \in Tranches /\ "Senior" \in Tranches
    BY DEF Tranches, Credit!Tranche
  <2>4. /\ Credit!Allocation(x, "Junior") <= Credit!Max({0, x.repaid - Credit!Due(x, "Senior")})
        /\ Credit!Max({0, x.repaid - Credit!Due(x, "Senior")}) \in Int
    <3>1. x.repaid \in Nat /\ Credit!Due(x, "Senior") \in Nat
      BY <2>1, <2>3, LoanFields
    <3> DEFINE v == x.repaid - Credit!Due(x, "Senior")
    <3>2. v \in Int
      BY <3>1
    <3>3. Credit!Allocation(x, "Junior") <= Credit!Max({0, v})
      BY <2>1, Allocations
    <3> HIDE DEF v
    <3>4. Credit!Max({0, v}) \in Int
      BY <3>2, MaxOfTwo
    <3> QED BY <3>3, <3>4 DEF v
  <2> HIDE DEF x, k
  <2>5. SumOf(Taken(k, t), Lender) <= Credit!Due(x, t)
    BY <2>2, <2>3
  <2>6. SumOf(Taken(k, "Junior"), Lender) <= Credit!Max({0, x.repaid - Credit!Due(x, "Senior")})
    BY <2>2, <2>3, <2>4
  <2> QED BY <2>5, <2>6 DEF x, k
<1> QED BY <1>1, SyndicationStart, SyndicationStep, PTL DEF Credit!Spec

-----------------------------------------------------------------------------
(* Fractional NFT vault *)

Configs == [supply : Nat \ {0}, reserve : Nat \ {0}, duration : Nat, increment : Nat]

\* The vault is no user: what it owns is in custody.
VaultAssumption ==
  /\ Contract = "nft-fractional"
  /\ IsFiniteSet(User) /\ Vault \notin User /\ Amount \subseteq Nat \ {0}
  /\ Config \subseteq Configs /\ Bps \in Nat \ {0} /\ MaxBid \in Nat

\* As long as nothing is sold there are shares to sell.
VaultInv ==
  /\ sale \in {"Fractionalized", "Auction", "Settled"}
  /\ shares \in [User -> Nat] /\ supply = SumOf(shares, User) /\ supply \in Nat
  /\ proceeds \in Nat /\ held \in Nat /\ now \in Int
  /\ config = Fractional!None =>
       /\ sale = "Fractionalized" /\ owner \in User /\ \A u \in User : shares[u] = 0
  /\ config # Fractional!None =>
       /\ config \in Configs /\ ((owner = Vault) = (sale # "Settled"))
       /\ sale # "Settled" => supply > 0
  /\ sale = "Fractionalized" => held = 0
  /\ sale = "Auction" => /\ auction \in [bidder : User, bid : Nat, end : Int]
                         /\ held = auction.bid
  /\ sale = "Settled" => held = proceeds /\ (supply = 0 => proceeds = 0)

LEMMA VaultSum == Fractional!MapThenSumSet(LAMBDA u : shares[u], User) = SumOf(shares, User)
  BY DEF Fractional!MapThenSumSet, Fractional!MapThenFoldSet, SumOf, MapThenSumSet,
     MapThenFoldSet

\* Shares that change hands stay as many.
LEMMA SharesMove ==
  ASSUME VaultAssumption, shares \in [User -> Nat],
         NEW u \in User, NEW v \in User, NEW n \in Nat, shares[u] >= n
  PROVE  /\ Fractional!Moved(u, v, n) \in [User -> Nat]
         /\ SumOf(Fractional!Moved(u, v, n), User) = SumOf(shares, User)
<1> DEFINE less == [shares EXCEPT ![u] = shares[u] - n]
           more == [less EXCEPT ![v] = less[v] + n]
<1>1. Fractional!Moved(u, v, n) = more
  BY DEF Fractional!Moved
<1>2. /\ less \in [User -> Nat] /\ less[u] = shares[u] - n
      /\ \A w \in User \ {u} : less[w] = shares[w]
  OBVIOUS
<1> HIDE DEF less
<1>3. /\ more \in [User -> Nat] /\ more[v] = less[v] + n
      /\ \A w \in User \ {v} : more[w] = less[w]
  BY <1>2
<1> HIDE DEF more
<1>4. IsFiniteSet(User) /\ SumOf(shares, User) \in Int /\ SumOf(less, User) \in Int
  <2>1. IsFiniteSet(User) /\ \A w \in User : shares[w] \in Int /\ less[w] \in Int
    BY <1>2 DEF VaultAssumption
  <2> QED BY <2>1, SumInt
<1>5. SumOf(less, User) = SumOf(shares, User) + (less[u] - shares[u])
  <2>1. (\A w \in User : shares[w] \in Int) /\ less[u] \in Int
    BY <1>2
  <2> QED BY <1>2, <1>4, <2>1, SumUpdate
<1>6. SumOf(more, User) = SumOf(less, User) + (more[v] - less[v])
  <2>1. (\A w \in User : less[w] \in Int) /\ more[v] \in Int
    BY <1>2, <1>3
  <2> QED BY <1>3, <1>4, <2>1, SumUpdate
<1>7. less[u] - shares[u] = 0 - n /\ more[v] - less[v] = n
  <2>1. less[v] \in Nat /\ shares[u] \in Nat
    BY <1>2
  <2> QED BY <1>2, <1>3, <2>1
<1>8. SumOf(more, User) = SumOf(shares, User)
  BY <1>4, <1>5, <1>6, <1>7
<1> QED BY <1>1, <1>3, <1>8

\* What n of the shares are paid is there, and no more than their part of it.
LEMMA PayoutFair ==
  ASSUME supply \in Nat, proceeds \in Nat, NEW n \in Nat \ {0}, n <= supply
  PROVE  /\ Fractional!Payout(n) \in Nat /\ Fractional!Payout(n) <= proceeds
         /\ Fractional!Payout(n) * supply <= n * proceeds
<1>1. CASE n = supply
  <2>1. Fractional!Payout(n) = proceeds
    BY <1>1 DEF Fractional!Payout
  <2>2. proceeds * supply <= n * proceeds
    BY <1>1
  <2> QED BY <2>1, <2>2
<1>2. CASE n # supply
  <2> DEFINE c == n * proceeds
             q == c \div supply
  <2>1. c \in Nat /\ supply \in Nat \ {0} /\ c <= supply * proceeds
    BY <1>2
  <2> HIDE DEF c
  <2>2. q \in Nat /\ q * supply <= c
    BY <2>1, OneShare
  <2> HIDE DEF q
  <2>3. \A a, b \in Nat, k \in Nat \ {0} : a * k <= k * b => a <= b
    OBVIOUS
  <2>4. q * supply <= supply * proceeds
    <3>1. q * supply \in Nat /\ supply * proceeds \in Nat
      BY <2>1, <2>2
    <3> QED BY <2>1, <2>2, <3>1
  <2>5. q <= proceeds
    BY <2>1, <2>2, <2>3, <2>4
  <2>6. Fractional!Payout(n) = q
    BY <1>2 DEF Fractional!Payout, q, c
  <2> QED BY <2>2, <2>5, <2>6 DEF c
<1> QED BY <1>1, <1>2

LEMMA VaultStart ==
  ASSUME VaultAssumption, Fractional!Init
  PROVE  VaultInv
<1>1. shares = [u \in User |-> 0] /\ \A u \in User : shares[u] = 0
  BY DEF Fractional!Init
<1>2. SumOf(shares, User) = 0
  BY <1>1, SumZero DEF VaultAssumption
<1> QED BY <1>1, <1>2 DEF VaultInv, Fractional!Init

LEMMA InitializeStep ==
  ASSUME VaultAssumption, VaultInv, NEW c \in Config, Fractional!Initialize(c)
  PROVE  VaultInv'
<1> DEFINE n == c.supply
<1>1. c \in Configs /\ n \in Nat \ {0} /\ c # Fractional!None
  <2>1. c \in Configs
    BY DEF VaultAssumption
  <2>2. "supply" \in DOMAIN c /\ "supply" \notin DOMAIN Fractional!None
    BY <2>1 DEF Configs, Fractional!None
  <2> QED BY <2>1, <2>2 DEF Configs
<1>2. /\ sale = "Fractionalized" /\ owner \in User /\ shares \in [User -> Nat] /\ held = 0
      /\ \A u \in User : shares[u] = 0
      /\ proceeds \in Nat /\ now \in Int
  BY DEF VaultInv, Fractional!Initialize
<1>3. /\ config' = c /\ owner' = Vault /\ supply' = n /\ shares' = [shares EXCEPT ![owner] = n]
      /\ UNCHANGED <<sale, proceeds, held, now>>
  BY DEF Fractional!Initialize
<1> HIDE DEF n
<1>4. /\ shares' \in [User -> Nat] /\ shares'[owner] = n
      /\ \A u \in User \ {owner} : shares'[u] = shares[u]
  BY <1>1, <1>2, <1>3
<1>5. SumOf(shares, User) = 0
  BY <1>2, SumZero DEF VaultAssumption
<1>6. SumOf(shares', User) = SumOf(shares, User) + (shares'[owner] - shares[owner])
  <2>1. IsFiniteSet(User) /\ (\A u \in User : shares[u] \in Int) /\ shares'[owner] \in Int
    BY <1>1, <1>2, <1>4 DEF VaultAssumption
  <2> QED BY <1>2, <1>4, <2>1, SumUpdate
<1>7. SumOf(shares', User) = n /\ n \in Nat /\ n > 0
  BY <1>1, <1>2, <1>4, <1>5, <1>6
<1> QED BY <1>1, <1>2, <1>3, <1>4, <1>7 DEF VaultInv

LEMMA VaultClaimStep ==
  ASSUME VaultAssumption, VaultInv, NEW u \in User, NEW n \in Amount, Fractional!Claim(u, n)
  PROVE  VaultInv' /\ Fractional!RemainingSharesKeepValue
<1> DEFINE out == Fractional!Payout(n)
<1>1. /\ sale = "Settled" /\ shares \in [User -> Nat] /\ shares[u] >= n /\ IsFiniteSet(User)
      /\ supply = SumOf(shares, User) /\ supply \in Nat /\ proceeds \in Nat /\ held = proceeds
      /\ n \in Nat \ {0} /\ config # Fractional!None /\ now \in Int
  BY DEF VaultInv, VaultAssumption, Fractional!Claim
<1>2. n <= supply
  <2>1. SumOf(shares, User) = shares[u] + SumOf(shares, User \ {u})
    BY <1>1, SumRemove
  <2>2. SumOf(shares, User \ {u}) \in Nat
    BY <1>1, SumMonotone
  <2> QED BY <1>1, <2>1, <2>2
<1>3. out \in Nat /\ out <= proceeds /\ out * supply <= n * proceeds /\ (n = supply => out = proceeds)
  BY <1>1, <1>2, PayoutFair DEF Fractional!Payout
<1>4. /\ shares' = [shares EXCEPT ![u] = shares[u] - n] /\ supply' = supply - n
      /\ proceeds' = proceeds - out /\ held' = held - out
      /\ UNCHANGED <<config, sale, owner, auction, now>>
  BY DEF Fractional!Claim
<1> HIDE DEF out
<1>5. /\ shares' \in [User -> Nat] /\ shares'[u] = shares[u] - n
      /\ \A w \in User \ {u} : shares'[w] = shares[w]
  BY <1>1, <1>4
<1>6. SumOf(shares', User) = SumOf(shares, User) + (shares'[u] - shares[u])
  <2>1. (\A w \in User : shares[w] \in Int) /\ shares'[u] \in Int
    BY <1>1, <1>5
  <2> QED BY <1>1, <1>5, <2>1, SumUpdate
<1>7. supply' = SumOf(shares', User)
  <2>1. shares'[u] - shares[u] = 0 - n
    BY <1>1, <1>5
  <2> QED BY <1>1, <1>4, <1>6, <2>1
<1>8. /\ supply' \in Nat /\ proceeds' \in Nat /\ held' = proceeds' /\ held' \in Nat
      /\ supply' = 0 => proceeds' = 0
  BY <1>1, <1>2, <1>3, <1>4
<1>9. VaultInv'
  BY <1>1, <1>4, <1>5, <1>7, <1>8 DEF VaultInv
<1>10. proceeds' * supply >= proceeds * supply'
  <2>1. \A p, s, o, k \in Nat : o * s <= k * p => (p - o) * s >= p * (s - k)
    <3> SUFFICES ASSUME NEW p \in Nat, NEW s \in Nat, NEW o \in Nat, NEW k \in Nat, o * s <= k * p
                 PROVE  (p - o) * s >= p * (s - k)
      OBVIOUS
    <3>1. (p - o) * s = p * s - o * s /\ p * (s - k) = p * s - k * p
      OBVIOUS
    <3>2. p * s \in Int /\ o * s \in Int /\ k * p \in Int
      OBVIOUS
    <3> QED BY <3>1, <3>2
  <2> QED BY <1>1, <1>3, <1>4, <2>1
<1> QED BY <1>9, <1>10 DEF Fractional!RemainingSharesKeepValue

\* A bid replaces the standing one, which goes back to its bidder.
LEMMA BidStep ==
  ASSUME VaultAssumption, VaultInv, NEW u \in User, NEW bid \in 1..MaxBid,
         Fractional!StartAuction(u, bid) \/ Fractional!Bid(u, bid)
  PROVE  VaultInv'
<1>1. bid \in Nat
  BY DEF VaultAssumption
<1>2. CASE Fractional!StartAuction(u, bid)
  <2>1. config \in Configs /\ sale = "Fractionalized" /\ held = 0
    BY <1>2 DEF VaultInv, Fractional!StartAuction
  <2>2. now + config.duration \in Int
    BY <2>1 DEF Configs, VaultInv
  <2> QED BY <1>1, <1>2, <2>1, <2>2 DEF VaultInv, Fractional!StartAuction
<1>3. CASE Fractional!Bid(u, bid)
  <2>1. /\ sale = "Auction" /\ auction \in [bidder : User, bid : Nat, end : Int]
        /\ held = auction.bid /\ held \in Nat
    BY <1>3 DEF VaultInv, Fractional!Bid
  <2>2. /\ auction' = [auction EXCEPT !.bidder = u, !.bid = bid]
        /\ held' = held + bid - auction.bid
        /\ UNCHANGED <<config, sale, owner, shares, supply, proceeds, now>>
    BY <1>3 DEF Fractional!Bid
  <2>3. auction' \in [bidder : User, bid : Nat, end : Int] /\ auction'.bid = bid
    BY <1>1, <2>1, <2>2
  <2>4. held' = bid
    BY <1>1, <2>1, <2>2
  <2> QED BY <1>1, <2>1, <2>2, <2>3, <2>4 DEF VaultInv
<1> QED BY <1>2, <1>3

LEMMA VaultStep ==
  ASSUME VaultAssumption, VaultInv, [Fractional!Next]_Fractional!vars
  PROVE  VaultInv' /\ Fractional!RemainingSharesKeepValue
<1> USE DEF Fractional!RemainingSharesKeepValue
<1>1. proceeds \in Nat /\ supply \in Nat /\ \A a, b \in Nat : a * b >= a * b
  BY DEF VaultInv
<1>2. CASE UNCHANGED <<config, sale, owner, shares, supply, proceeds, auction, held, now>>
  BY <1>1, <1>2 DEF VaultInv
<1>3. CASE UNCHANGED Fractional!vars
  BY <1>2, <1>3 DEF Fractional!vars, Fractional!vault
<1>4. CASE Fractional!VaultNext
  <2>1. CASE Fractional!Tick
    <3>1. now' \in Int /\ UNCHANGED <<config, sale, owner, shares, supply, proceeds, auction, held>>
      BY <2>1 DEF VaultInv, Fractional!Tick, Fractional!vault
    <3> QED BY <1>1, <3>1 DEF VaultInv
  <2>2. CASE Fractional!Settle
    BY <2>2 DEF VaultInv, VaultAssumption, Fractional!Settle
  <2>3. ASSUME NEW c \in Config, Fractional!Initialize(c)
        PROVE  VaultInv' /\ Fractional!RemainingSharesKeepValue
    <3>1. sale = "Fractionalized"
      BY <2>3 DEF VaultInv, Fractional!Initialize
    <3> QED BY <2>3, <3>1, InitializeStep
  <2>4. ASSUME NEW u \in User, NEW bid \in 1..MaxBid,
               Fractional!StartAuction(u, bid) \/ Fractional!Bid(u, bid)
        PROVE  VaultInv' /\ Fractional!RemainingSharesKeepValue
    <3>1. sale # "Settled"
      BY <2>4 DEF Fractional!StartAuction, Fractional!Bid
    <3> QED BY <2>4, <3>1, BidStep
  <2>5. ASSUME NEW u \in User, NEW n \in Amount, Fractional!Claim(u, n)
        PROVE  VaultInv' /\ Fractional!RemainingSharesKeepValue
    BY <2>5, VaultClaimStep
  <2>6. ASSUME NEW u \in User, NEW v \in User, NEW n, NEW until, Fractional!Approve(u, v, n, until)
        PROVE  VaultInv' /\ Fractional!RemainingSharesKeepValue
    BY <1>2, <2>6 DEF Fractional!Approve
  <2>7. ASSUME NEW u \in User, NEW v \in User, NEW n \in Amount, NEW w \in User,
               Fractional!Transfer(u, v, n) \/ Fractional!TransferFrom(w, u, v, n)
        PROVE  VaultInv' /\ Fractional!RemainingSharesKeepValue
    <3>1. /\ shares[u] >= n /\ config # Fractional!None /\ shares' = Fractional!Moved(u, v, n)
          /\ UNCHANGED <<config, sale, owner, supply, proceeds, auction, held, now>>
      BY <2>7 DEF Fractional!Transfer, Fractional!TransferFrom
    <3>2. shares \in [User -> Nat] /\ n \in Nat
      BY DEF VaultInv, VaultAssumption
    <3>3. shares' \in [User -> Nat] /\ SumOf(shares', User) = SumOf(shares, User)
      BY <3>1, <3>2, SharesMove
    <3> QED BY <1>1, <3>1, <3>3 DEF VaultInv
  <2>8. ASSUME NEW u \in User, NEW v \in User, NEW n \in Amount, Fractional!Transfer(u, v, n)
        PROVE  VaultInv' /\ Fractional!RemainingSharesKeepValue
    BY <2>7, <2>8
  <2> QED BY <1>4, <2>1, <2>2, <2>3, <2>4, <2>5, <2>6, <2>7, <2>8 DEF Fractional!VaultNext
<1>5. CASE Fractional!Next
  BY <1>4, <1>5 DEF Fractional!Next, VaultAssumption
<1> QED BY <1>3, <1>5

\* The shares add up to the supply, the vault holds the standing bid or what is
\* left of the proceeds, and the NFT until it is sold (start_auction, bid, settle,
\* claim_proceeds, transfers).
THEOREM VaultSharesBacked ==
  ASSUME VaultAssumption
  PROVE  Fractional!Spec => []Fractional!SharesBacked
<1>1. VaultInv => Fractional!SharesBacked
  BY VaultSum DEF VaultInv, Fractional!SharesBacked
<1> QED BY <1>1, VaultStart, VaultStep, PTL DEF Fractional!Spec

\* A claim does not lower what the other shares are worth, however it is rounded.
THEOREM OtherSharesKeepValue ==
  ASSUME VaultAssumption
  PROVE  Fractional!Spec => [][Fractional!RemainingSharesKeepValue]_Fractional!vars
<1>1. VaultInv /\ [Fractional!Next]_Fractional!vars
        => VaultInv' /\ [Fractional!RemainingSharesKeepValue]_Fractional!vars
  BY VaultStep
<1> QED BY <1>1, VaultStart, PTL DEF Fractional!Spec

-----------------------------------------------------------------------------
(* Insurance *)

InsuranceAssumption ==
  /\ Contract \in {"parametric-insurance", "crop-insurance", "insurance-protocol"}
  /\ Premium \subseteq Nat /\ Coverage \subseteq Nat /\ Amount \subseteq Nat
  /\ Term \subseteq Nat /\ Window \in Nat /\ IsFiniteSet(Person)

ProductTerms == [crop : BOOLEAN, premium : Premium, coverage : Coverage, threshold : Value,
            direction : Insurance!TriggerDirection, term : Term, active : BOOLEAN]
Parametric == [product : Nat, coverage : Nat, from : Int, until : Int,
               status : Insurance!PolicyStatus, funded : BOOLEAN]

Coverages(s) == [i \in DOMAIN s |-> s[i].coverage]
Funded(s) == {i \in DOMAIN s : s[i].funded}

\* A policy of the products q is covered by the reserve while it is active, if it
\* is a crop policy.
Insures(p, q) ==
  /\ p.product \in DOMAIN q
  /\ p.funded = /\ p.status = "Active"
                /\ q[p.product].crop

ReserveInv ==
  /\ products \in Seq(ProductTerms) /\ policies \in Seq(Parametric)
  /\ \A i \in DOMAIN policies : Insures(policies[i], products)
  /\ reserved = SumOf(Coverages(policies), Funded(policies))
  /\ ~configured => reserved = 0
  /\ held \in Nat /\ now \in Int /\ held >= reserved

LEMMA InsuranceTotal == \A w, S : Insurance!Total(w, S) = SumOf(w, S)
  BY DEF Insurance!Total, Insurance!MapThenSumSet, Insurance!MapThenFoldSet, SumOf,
     MapThenSumSet, MapThenFoldSet

\* A record is added to a table.
LEMMA AddedRecord ==
  ASSUME NEW S, NEW s \in Seq(S), NEW e \in S
  PROVE  /\ Append(s, e) \in Seq(S) /\ Append(s, e)[Len(s) + 1] = e
         /\ Len(s) + 1 \notin DOMAIN s /\ DOMAIN Append(s, e) = DOMAIN s \cup {Len(s) + 1}
         /\ \A k \in DOMAIN s : Append(s, e)[k] = s[k]
         /\ OneDiffers(s, Append(s, e), Len(s) + 1)
<1> DEFINE r == Append(s, e)
           n == Len(s) + 1
<1>1. /\ Len(s) \in Nat /\ DOMAIN s = 1..Len(s) /\ r \in Seq(S) /\ Len(r) = n
      /\ DOMAIN r = 1..n /\ r[n] = e
      /\ \A k \in 1..Len(s) : r[k] = s[k]
  <2>1. Len(s) \in Nat /\ DOMAIN s = 1..Len(s)
    OBVIOUS
  <2>2. r \in Seq(S) /\ Len(r) = n /\ r[n] = e /\ \A k \in 1..Len(s) : r[k] = s[k]
    BY AppendProperties
  <2> HIDE DEF r
  <2>3. DOMAIN r = 1..n
    BY <2>2
  <2> QED BY <2>1, <2>2, <2>3
<1> HIDE DEF r
<1>2. n \notin DOMAIN s /\ DOMAIN r = DOMAIN s \cup {n}
  BY <1>1
<1> HIDE DEF n
<1>3. OneDiffers(s, r, n)
  BY <1>1, <1>2 DEF OneDiffers
<1> QED BY <1>1, <1>2, <1>3 DEF r, n

LEMMA CoverTables ==
  ASSUME NEW s \in Seq(Parametric)
  PROVE  /\ IsFiniteSet(Funded(s))
         /\ \A i \in DOMAIN s : s[i] \in Parametric /\ s[i].coverage \in Nat
<1>1. DOMAIN s = 1..Len(s) /\ Len(s) \in Nat
  OBVIOUS
<1>2. IsFiniteSet(Funded(s))
  <2>1. IsFiniteSet(DOMAIN s) /\ Funded(s) \subseteq DOMAIN s
    BY <1>1, FS_Interval DEF Funded
  <2> QED BY <2>1, FS_Subset
<1>3. ASSUME NEW i \in DOMAIN s PROVE s[i] \in Parametric /\ s[i].coverage \in Nat
  <2>1. s[i] \in Parametric
    OBVIOUS
  <2> QED BY <2>1 DEF Parametric
<1> QED BY <1>2, <1>3

\* What one policy adds to the reserve.
CoverOf(s, i) == IF i \in DOMAIN s /\ s[i].funded THEN s[i].coverage ELSE 0

\* One policy is new or changes: the reserve changes by what it covers.
LEMMA CoverMoves ==
  ASSUME NEW s \in Seq(Parametric), NEW r \in Seq(Parametric), NEW i, OneDiffers(s, r, i)
  PROVE  /\ SumOf(Coverages(s), Funded(s)) \in Nat
         /\ CoverOf(s, i) \in Nat /\ CoverOf(r, i) \in Nat
         /\ SumOf(Coverages(r), Funded(r)) =
              SumOf(Coverages(s), Funded(s)) + (CoverOf(r, i) - CoverOf(s, i))
<1>1. \A k : k # i => (k \in Funded(s) <=> k \in Funded(r))
  BY DEF Funded, OneDiffers
<1>2. /\ IsFiniteSet(Funded(s)) /\ \A k \in Funded(s) : Coverages(s)[k] \in Nat
  BY CoverTables DEF Funded, Coverages
<1>3. \A k \in Funded(r) : Coverages(r)[k] \in Nat
  BY CoverTables DEF Funded, Coverages
<1>4. \A k \in Funded(s) : k # i => Coverages(r)[k] = Coverages(s)[k]
  BY DEF Coverages, Funded, OneDiffers
<1>5. Moves(Coverages(s), Coverages(r), Funded(s), Funded(r), i)
  BY <1>1, <1>2, <1>3, <1>4 DEF Moves
<1>6. /\ PartOf(Coverages(s), Funded(s), i) = CoverOf(s, i)
      /\ PartOf(Coverages(r), Funded(r), i) = CoverOf(r, i)
  BY DEF PartOf, CoverOf, Funded, Coverages
<1>7. CoverOf(s, i) \in Nat /\ CoverOf(r, i) \in Nat
  BY CoverTables DEF CoverOf
<1>8. SumOf(Coverages(s), Funded(s)) \in Nat
  BY <1>2, SumMonotone
<1> QED BY <1>5, <1>6, <1>7, <1>8, SumMoves

\* A step that changes one policy, and the reserve by what it covers.
LEMMA PolicyMoves ==
  ASSUME ReserveInv, NEW i, NEW p, policies' \in Seq(Parametric),
         OneDiffers(policies, policies', i), i \in DOMAIN policies', policies'[i] = p,
         Insures(p, products), UNCHANGED <<products, now>>,
         reserved' = reserved + ((IF p.funded THEN p.coverage ELSE 0) - CoverOf(policies, i)),
         ~configured' => reserved' = 0,
         held' \in Nat, held' >= reserved'
  PROVE  ReserveInv'
<1>1. CoverOf(policies', i) = IF p.funded THEN p.coverage ELSE 0
  BY DEF CoverOf
<1>2. policies \in Seq(Parametric) /\ reserved = SumOf(Coverages(policies), Funded(policies))
  BY DEF ReserveInv
<1>3. reserved' = SumOf(Coverages(policies'), Funded(policies'))
  BY <1>1, <1>2, CoverMoves
<1>4. \A k \in DOMAIN policies' : Insures(policies'[k], products')
  BY DEF OneDiffers, ReserveInv
<1> QED BY <1>3, <1>4 DEF ReserveInv

LEMMA BoughtStep ==
  ASSUME InsuranceAssumption, ReserveInv, NEW id \in DOMAIN products, NEW funded \in BOOLEAN,
         policies' = Insurance!Bought(id, funded), funded = products[id].crop,
         configured' = configured, funded => configured,
         UNCHANGED <<products, now>>,
         reserved' = reserved + (IF funded THEN products[id].coverage ELSE 0),
         held' \in Nat, held' >= reserved'
  PROVE  ReserveInv'
<1> DEFINE p == [product |-> id, coverage |-> products[id].coverage, from |-> now,
                 until |-> now + products[id].term, status |-> "Active", funded |-> funded]
           i == Len(policies) + 1
<1>1. /\ products[id] \in ProductTerms /\ id \in Nat /\ now \in Int
      /\ policies \in Seq(Parametric)
      /\ products[id].coverage \in Nat /\ products[id].term \in Nat
  <2>1. products \in Seq(ProductTerms) /\ now \in Int /\ policies \in Seq(Parametric)
    BY DEF ReserveInv
  <2>2. products[id] \in ProductTerms /\ id \in Nat
    BY <2>1
  <2>3. products[id].coverage \in Coverage /\ products[id].term \in Term
    BY <2>2 DEF ProductTerms
  <2> QED BY <2>1, <2>2, <2>3 DEF InsuranceAssumption
<1>2. p \in Parametric
  <2>1. now + products[id].term \in Int
    BY <1>1
  <2> QED BY <1>1, <2>1 DEF Parametric, Insurance!PolicyStatus
<1>3. policies' = Append(policies, p)
  BY DEF Insurance!Bought
<1>4. p.funded = funded /\ p.coverage = products[id].coverage /\ Insures(p, products)
  BY <1>1 DEF Insures, ProductTerms
<1> HIDE DEF p
<1>5. /\ policies' \in Seq(Parametric) /\ i \notin DOMAIN policies /\ i \in DOMAIN policies'
      /\ policies'[i] = p /\ OneDiffers(policies, policies', i)
  <2>1. /\ Append(policies, p) \in Seq(Parametric) /\ Append(policies, p)[Len(policies) + 1] = p
        /\ Len(policies) + 1 \notin DOMAIN policies
        /\ DOMAIN Append(policies, p) = DOMAIN policies \cup {Len(policies) + 1}
        /\ OneDiffers(policies, Append(policies, p), Len(policies) + 1)
    BY <1>1, <1>2, AddedRecord
  <2> QED BY <1>3, <2>1
<1>6. CoverOf(policies, i) = 0
  BY <1>5 DEF CoverOf
<1>7. reserved' = reserved + ((IF p.funded THEN p.coverage ELSE 0) - CoverOf(policies, i))
  BY <1>1, <1>4, <1>6
<1>8. ~configured' => reserved' = 0
  BY DEF ReserveInv
<1> HIDE DEF i
<1> QED BY <1>4, <1>5, <1>7, <1>8, PolicyMoves

\* A policy that has ended.
Closed(p, status) == [p EXCEPT !.status = status, !.funded = FALSE]

\* A policy ends: the reserve is released.
LEMMA PolicyEndsStep ==
  ASSUME ReserveInv, NEW i \in DOMAIN policies, NEW status \in {"Claimed", "Expired"}, NEW p,
         p = Closed(policies[i], status),
         policies' = [policies EXCEPT ![i] = p], UNCHANGED <<products, now, configured>>,
         reserved' = reserved - CoverOf(policies, i), held' \in Nat, held' >= reserved'
  PROVE  ReserveInv'
<1>1. /\ policies \in Seq(Parametric) /\ policies[i] \in Parametric /\ Insures(policies[i], products)
      /\ CoverOf(policies, i) \in Nat /\ reserved \in Nat
  <2>1. policies \in Seq(Parametric) /\ policies[i] \in Parametric /\ Insures(policies[i], products)
    BY DEF ReserveInv
  <2>2. OneDiffers(policies, policies, i)
    BY DEF OneDiffers
  <2> QED BY <2>1, <2>2, CoverMoves DEF ReserveInv
<1>2. p \in Parametric /\ p.funded = FALSE /\ p.status = status /\ p.product = policies[i].product
  BY <1>1 DEF Parametric, Insurance!PolicyStatus, Closed
<1>3. Insures(p, products)
  BY <1>1, <1>2 DEF Insures
<1>4. /\ policies' \in Seq(Parametric) /\ i \in DOMAIN policies' /\ policies'[i] = p
      /\ OneDiffers(policies, policies', i)
  BY <1>1, <1>2 DEF OneDiffers
<1>5. reserved' = reserved + ((IF p.funded THEN p.coverage ELSE 0) - CoverOf(policies, i))
  <2>1. (IF p.funded THEN p.coverage ELSE 0) = 0
    BY <1>2
  <2> QED BY <1>1, <2>1
<1>6. ~configured' => reserved' = 0
  <2>1. SUFFICES ASSUME ~configured PROVE reserved' = 0
    OBVIOUS
  <2>2. reserved = 0 /\ SumOf(Coverages(policies'), Funded(policies')) \in Nat
    BY <1>4, <2>1, CoverMoves DEF ReserveInv, OneDiffers
  <2>3. SumOf(Coverages(policies'), Funded(policies')) = reserved'
    <3>1. CoverOf(policies', i) = 0
      BY <1>2, <1>4 DEF CoverOf
    <3>2. /\ SumOf(Coverages(policies), Funded(policies)) = reserved
          /\ SumOf(Coverages(policies'), Funded(policies')) =
               SumOf(Coverages(policies), Funded(policies))
                 + (CoverOf(policies', i) - CoverOf(policies, i))
      BY <1>1, <1>4, CoverMoves DEF ReserveInv
    <3> QED BY <1>1, <3>1, <3>2
  <2> QED BY <1>1, <2>2, <2>3
<1> QED BY <1>3, <1>4, <1>5, <1>6, PolicyMoves

\* Whether a policy may expire.
RanOut(i) == now >= policies[i].until + (IF Contract = "crop-insurance" THEN 0 ELSE 1)

LEMMA NothingEnds ==
  ASSUME policies' = policies, claims' = claims
  PROVE  Insurance!PolicyEndsOnce
  BY DEF Insurance!PolicyEndsOnce

LEMMA NewPolicyEndsNothing ==
  ASSUME NEW S, policies \in Seq(S), NEW p \in S, policies' = Append(policies, p), claims' = claims
  PROVE  Insurance!PolicyEndsOnce
<1>1. \A k \in DOMAIN policies : policies'[k] = policies[k]
  BY AddedRecord
<1> QED BY <1>1 DEF Insurance!PolicyEndsOnce

LEMMA ActivePolicyEnds ==
  ASSUME NEW i \in DOMAIN policies, policies[i].status = "Active", NEW p,
         policies' = [policies EXCEPT ![i] = p], claims' = claims,
         p.coverage = policies[i].coverage, p.until = policies[i].until,
         p.status = "Expired" => RanOut(i)
  PROVE  Insurance!PolicyEndsOnce
<1>1. policies'[i] = p /\ \A k \in DOMAIN policies \ {i} : policies'[k] = policies[k]
  OBVIOUS
<1> QED BY <1>1 DEF Insurance!PolicyEndsOnce, RanOut

LEMMA ParametricEnds ==
  ASSUME ReserveInv, NEW i \in DOMAIN policies, policies[i].status = "Active",
         NEW status \in {"Claimed", "Expired"}, policies' = [policies EXCEPT ![i] = Closed(policies[i], status)],
         UNCHANGED <<products, now, configured, claims>>,
         reserved' = reserved - CoverOf(policies, i), held' \in Nat, held' >= reserved',
         status = "Expired" => RanOut(i)
  PROVE  ReserveInv' /\ Insurance!PolicyEndsOnce
<1> DEFINE p == Closed(policies[i], status)
<1>1. policies[i] \in Parametric
  BY DEF ReserveInv
<1>2. /\ p.coverage = policies[i].coverage /\ p.until = policies[i].until /\ p.status = status
      /\ p = Closed(policies[i], status)
  BY <1>1 DEF Parametric, Closed
<1> HIDE DEF p
<1>3. policies' = [policies EXCEPT ![i] = p]
  BY DEF p
<1>4. Insurance!PolicyEndsOnce
  BY <1>2, <1>3, ActivePolicyEnds
<1>5. ReserveInv'
  BY <1>2, <1>3, PolicyEndsStep
<1> QED BY <1>4, <1>5

LEMMA ProcessClaimStep ==
  ASSUME ReserveInv, NEW i \in DOMAIN policies, Insurance!ProcessClaim(i)
  PROVE  ReserveInv' /\ Insurance!PolicyEndsOnce
<1> DEFINE x == policies[i]
<1>1. x \in Parametric /\ Insures(x, products) /\ reserved \in Nat /\ held \in Nat /\ held >= reserved
  <2>1. policies \in Seq(Parametric) /\ OneDiffers(policies, policies, i)
    BY DEF ReserveInv, OneDiffers
  <2>2. reserved \in Nat
    BY <2>1, CoverMoves DEF ReserveInv
  <2> QED BY <2>2 DEF ReserveInv
<1>2. x.status = "Active" /\ ~products[x.product].crop
  BY DEF Insurance!ProcessClaim
<1>3. x.funded = FALSE
  BY <1>1, <1>2 DEF Insures
<1>4. [policies EXCEPT ![i].status = "Claimed"] = [policies EXCEPT ![i] = Closed(x, "Claimed")]
  <2>1. [policies EXCEPT ![i].status = "Claimed"] = [policies EXCEPT ![i] = [x EXCEPT !.status = "Claimed"]]
    OBVIOUS
  <2>2. [x EXCEPT !.status = "Claimed"] = Closed(x, "Claimed")
    <3> HIDE DEF x
    <3> QED BY <1>1, <1>3 DEF Parametric, Closed
  <2> QED BY <2>1, <2>2
<1>5. /\ policies' = [policies EXCEPT ![i] = Closed(x, "Claimed")]
      /\ UNCHANGED <<products, now, configured, claims, reserved, held>>
  BY <1>4 DEF Insurance!ProcessClaim, Insurance!others
<1>6. CoverOf(policies, i) = 0
  BY <1>3 DEF CoverOf
<1>7. reserved' = reserved - CoverOf(policies, i) /\ held' \in Nat /\ held' >= reserved'
  BY <1>1, <1>5, <1>6
<1> HIDE DEF x
<1>8. policies[i].status = "Active" /\ policies' = [policies EXCEPT ![i] = Closed(policies[i], "Claimed")]
  BY <1>2, <1>5 DEF x
<1> QED BY <1>5, <1>7, <1>8, ParametricEnds

LEMMA SatelliteStep ==
  ASSUME ReserveInv, NEW i \in DOMAIN policies, NEW v, NEW at,
         Insurance!ProcessSatelliteClaim(i, v, at)
  PROVE  ReserveInv' /\ Insurance!PolicyEndsOnce
<1> DEFINE n == policies[i].coverage
<1>1. /\ policies[i] \in Parametric /\ n \in Nat /\ reserved \in Nat /\ held \in Nat
      /\ held >= reserved
  <2>1. policies \in Seq(Parametric) /\ OneDiffers(policies, policies, i)
    BY DEF ReserveInv, OneDiffers
  <2>2. reserved \in Nat
    BY <2>1, CoverMoves DEF ReserveInv
  <2> QED BY <2>1, <2>2, CoverTables DEF ReserveInv
<1>2. /\ policies[i].status = "Active" /\ policies[i].funded
      /\ policies' = [policies EXCEPT ![i] = Closed(policies[i], "Claimed")]
      /\ UNCHANGED <<products, now, configured, claims>>
      /\ n <= reserved /\ reserved' = reserved - n /\ held' = held - n
  <2>1. [policies EXCEPT ![i].status = "Claimed", ![i].funded = FALSE]
          = [policies EXCEPT ![i] = Closed(policies[i], "Claimed")]
    BY DEF Closed
  <2> QED BY <2>1 DEF Insurance!ProcessSatelliteClaim, Insurance!others
<1>3. CoverOf(policies, i) = n
  BY <1>2 DEF CoverOf
<1> HIDE DEF n
<1>4. reserved' = reserved - CoverOf(policies, i) /\ held' \in Nat /\ held' >= reserved'
  BY <1>1, <1>2, <1>3
<1> QED BY <1>2, <1>4, ParametricEnds

LEMMA ExpirePolicyStep ==
  ASSUME InsuranceAssumption, Contract = "parametric-insurance", ReserveInv,
         NEW i \in DOMAIN policies, Insurance!ExpirePolicy(i)
  PROVE  ReserveInv' /\ Insurance!PolicyEndsOnce
<1> DEFINE n == IF policies[i].funded THEN policies[i].coverage ELSE 0
<1>1. /\ policies[i] \in Parametric /\ n \in Nat /\ reserved \in Nat /\ held \in Nat
      /\ held >= reserved /\ now \in Int
  <2>1. policies \in Seq(Parametric) /\ OneDiffers(policies, policies, i)
    BY DEF ReserveInv, OneDiffers
  <2>2. reserved \in Nat
    BY <2>1, CoverMoves DEF ReserveInv
  <2> QED BY <2>1, <2>2, CoverTables DEF ReserveInv
<1>2. /\ policies[i].status = "Active" /\ now > policies[i].until
      /\ policies' = [policies EXCEPT ![i] = Closed(policies[i], "Expired")]
      /\ UNCHANGED <<products, now, configured, claims, held>>
      /\ reserved' = reserved - n
  <2>1. [policies EXCEPT ![i].status = "Expired", ![i].funded = FALSE]
          = [policies EXCEPT ![i] = Closed(policies[i], "Expired")]
    BY DEF Closed
  <2> QED BY <2>1 DEF Insurance!ExpirePolicy, Insurance!others
<1>3. CoverOf(policies, i) = n
  BY DEF CoverOf
<1> HIDE DEF n
<1>4. reserved' = reserved - CoverOf(policies, i) /\ held' \in Nat /\ held' >= reserved'
  BY <1>1, <1>2, <1>3
<1>5. RanOut(i)
  <2>1. policies[i].until \in Int
    BY <1>1 DEF Parametric
  <2> QED BY <1>1, <1>2, <2>1 DEF RanOut
<1> QED BY <1>2, <1>4, <1>5, ParametricEnds

LEMMA BuyStep ==
  ASSUME InsuranceAssumption, ReserveInv, NEW id \in DOMAIN products,
         Insurance!BuyPolicy(id) \/ Insurance!BuyCropPolicy(id)
  PROVE  ReserveInv' /\ Insurance!PolicyEndsOnce
<1>1. /\ policies \in Seq(Parametric) /\ products[id] \in ProductTerms /\ now \in Int
      /\ held \in Nat /\ held >= reserved /\ reserved \in Nat
      /\ products[id].crop \in BOOLEAN
      /\ products[id].premium \in Nat /\ products[id].coverage \in Nat /\ products[id].term \in Nat
  <2>1. /\ policies \in Seq(Parametric) /\ products \in Seq(ProductTerms) /\ now \in Int
        /\ held \in Nat /\ held >= reserved
    BY DEF ReserveInv
  <2>2. reserved \in Nat
    BY <2>1, CoverMoves DEF ReserveInv, OneDiffers
  <2>3. products[id] \in ProductTerms
    BY <2>1
  <2>4. products[id].crop \in BOOLEAN /\ products[id].premium \in Premium
        /\ products[id].coverage \in Coverage /\ products[id].term \in Term
    BY <2>3 DEF ProductTerms
  <2> QED BY <2>1, <2>2, <2>3, <2>4 DEF InsuranceAssumption
<1>2. ASSUME NEW funded \in BOOLEAN, policies' = Insurance!Bought(id, funded), claims' = claims
      PROVE  Insurance!PolicyEndsOnce
  <2> DEFINE p == [product |-> id, coverage |-> products[id].coverage, from |-> now,
                   until |-> now + products[id].term, status |-> "Active", funded |-> funded]
  <2>1. policies' = Append(policies, p)
    BY <1>2 DEF Insurance!Bought
  <2>2. p \in Parametric
    <3>1. now + products[id].term \in Int /\ id \in Nat
      BY <1>1 DEF ReserveInv
    <3> QED BY <1>1, <3>1 DEF Parametric, Insurance!PolicyStatus
  <2> HIDE DEF p
  <2> QED BY <1>1, <1>2, <2>1, <2>2, NewPolicyEndsNothing
<1>3. CASE Insurance!BuyPolicy(id)
  <2>1. /\ products[id].crop = FALSE /\ policies' = Insurance!Bought(id, FALSE)
        /\ UNCHANGED <<configured, products, now, reserved, held, claims>>
    BY <1>1, <1>3 DEF Insurance!BuyPolicy, Insurance!others
  <2>2. reserved' = reserved + (IF FALSE THEN products[id].coverage ELSE 0)
    BY <1>1, <2>1
  <2>3. ReserveInv'
    BY <1>1, <2>1, <2>2, BoughtStep
  <2> QED BY <1>2, <2>1, <2>3
<1>4. CASE Insurance!BuyCropPolicy(id)
  <2>1. /\ products[id].crop = TRUE /\ policies' = Insurance!Bought(id, TRUE) /\ configured
        /\ UNCHANGED <<configured, products, now, claims>>
        /\ reserved' = reserved + products[id].coverage
        /\ held' = held + products[id].premium
        /\ held + products[id].premium >= reserved + products[id].coverage
    BY <1>1, <1>4 DEF Insurance!BuyCropPolicy, Insurance!others
  <2>2. reserved' = reserved + (IF TRUE THEN products[id].coverage ELSE 0)
    BY <2>1
  <2>3. held' \in Nat /\ held' >= reserved'
    BY <1>1, <2>1
  <2>4. ReserveInv'
    BY <2>1, <2>2, <2>3, BoughtStep
  <2> QED BY <1>2, <2>1, <2>4
<1> QED BY <1>3, <1>4

LEMMA ProductsStep ==
  ASSUME ReserveInv,
         \/ \E crop \in BOOLEAN, premium \in Premium, coverage \in Coverage, v \in Value,
               d \in Insurance!TriggerDirection, term \in Term :
              Insurance!CreateProduct(crop, premium, coverage, v, d, term)
         \/ \E id \in DOMAIN products : Insurance!DeactivateProduct(id)
  PROVE  ReserveInv'
<1>1. /\ UNCHANGED <<configured, policies, now, reserved, held>>
      /\ products' \in Seq(ProductTerms)
      /\ \A k \in DOMAIN products : k \in DOMAIN products' /\ products'[k].crop = products[k].crop
  <2>1. products \in Seq(ProductTerms)
    BY DEF ReserveInv
  <2>2. ASSUME NEW crop \in BOOLEAN, NEW premium \in Premium, NEW coverage \in Coverage,
               NEW v \in Value, NEW d \in Insurance!TriggerDirection, NEW term \in Term,
               Insurance!CreateProduct(crop, premium, coverage, v, d, term)
        PROVE  <1>1!:
    <3> DEFINE p == [crop |-> crop, premium |-> premium, coverage |-> coverage, threshold |-> v,
                     direction |-> d, term |-> term, active |-> TRUE]
    <3>1. products' = Append(products, p) /\ UNCHANGED <<configured, policies, now, reserved, held>>
      BY <2>2 DEF Insurance!CreateProduct
    <3>2. p \in ProductTerms
      BY DEF ProductTerms
    <3> HIDE DEF p
    <3>3. /\ Append(products, p) \in Seq(ProductTerms)
          /\ DOMAIN Append(products, p) = DOMAIN products \cup {Len(products) + 1}
          /\ \A k \in DOMAIN products : Append(products, p)[k] = products[k]
      BY <2>1, <3>2, AddedRecord
    <3> QED BY <3>1, <3>3
  <2>3. ASSUME NEW id \in DOMAIN products, Insurance!DeactivateProduct(id) PROVE <1>1!:
    <3> DEFINE p == [products[id] EXCEPT !.active = FALSE]
    <3>1. products' = [products EXCEPT ![id] = p] /\ UNCHANGED <<configured, policies, now, reserved, held>>
      BY <2>3 DEF Insurance!DeactivateProduct
    <3>2. p \in ProductTerms /\ p.crop = products[id].crop
      <4>1. products[id] \in ProductTerms
        BY <2>1
      <4> QED BY <4>1 DEF ProductTerms
    <3> HIDE DEF p
    <3> QED BY <2>1, <3>1, <3>2
  <2> QED BY <2>2, <2>3
<1>2. ASSUME NEW i \in DOMAIN policies PROVE Insures(policies[i], products')
  BY <1>1, <1>2 DEF ReserveInv, Insures
<1> QED BY <1>1, <1>2 DEF ReserveInv

LEMMA ParametricStep ==
  ASSUME InsuranceAssumption, Contract = "parametric-insurance", ReserveInv, Insurance!ParametricNext
  PROVE  ReserveInv' /\ Insurance!PolicyEndsOnce
<1>1. reserved \in Nat
  BY CoverMoves DEF ReserveInv, OneDiffers
<1>2. CASE Insurance!ConfigureReserve
  <2>1. ReserveInv'
    BY <1>2 DEF ReserveInv, Insurance!ConfigureReserve
  <2> QED BY <1>2, <2>1, NothingEnds DEF Insurance!ConfigureReserve, Insurance!others
<1>3. ASSUME NEW b, NEW v, Insurance!SetOracle(b) \/ Insurance!SubmitReading(v)
      PROVE  ReserveInv' /\ Insurance!PolicyEndsOnce
  <2>1. UNCHANGED <<configured, products, policies, reserved, held, now, claims>>
    BY <1>3 DEF Insurance!SetOracle, Insurance!SubmitReading, Insurance!others
  <2> QED BY <2>1, NothingEnds DEF ReserveInv
<1>4. ASSUME NEW n \in Amount, Insurance!FundReserve(n) \/ Insurance!WithdrawExcessReserve(n)
      PROVE  ReserveInv' /\ Insurance!PolicyEndsOnce
  <2>1. n \in Nat /\ held \in Nat /\ held >= reserved
    BY DEF InsuranceAssumption, ReserveInv
  <2>2. /\ UNCHANGED <<configured, products, policies, reserved, now, claims>>
        /\ held' = held + n \/ (held' = held - n /\ n <= held - reserved)
    BY <1>4 DEF Insurance!FundReserve, Insurance!WithdrawExcessReserve, Insurance!others
  <2>3. held' \in Nat /\ held' >= reserved
    BY <1>1, <2>1, <2>2
  <2> QED BY <2>2, <2>3, NothingEnds DEF ReserveInv
<1>5. ASSUME \/ \E crop \in BOOLEAN, premium \in Premium, coverage \in Coverage, v \in Value,
                   d \in Insurance!TriggerDirection, term \in Term :
                  Insurance!CreateProduct(crop, premium, coverage, v, d, term)
             \/ \E id \in DOMAIN products : Insurance!DeactivateProduct(id)
      PROVE  ReserveInv' /\ Insurance!PolicyEndsOnce
  <2>1. ReserveInv'
    BY <1>5, ProductsStep
  <2>2. policies' = policies /\ claims' = claims
    BY <1>5 DEF Insurance!CreateProduct, Insurance!DeactivateProduct, Insurance!others
  <2> QED BY <2>1, <2>2, NothingEnds
<1>6. ASSUME NEW id \in DOMAIN products, Insurance!BuyPolicy(id) \/ Insurance!BuyCropPolicy(id)
      PROVE  ReserveInv' /\ Insurance!PolicyEndsOnce
  BY <1>6, BuyStep
<1>7. ASSUME NEW i \in DOMAIN policies,
             \/ Insurance!ProcessClaim(i) \/ Insurance!ExpirePolicy(i)
             \/ \E v \in Value, at \in 0..MaxTime : Insurance!ProcessSatelliteClaim(i, v, at)
      PROVE  ReserveInv' /\ Insurance!PolicyEndsOnce
  BY <1>7, ProcessClaimStep, SatelliteStep, ExpirePolicyStep
<1> QED BY <1>2, <1>3, <1>4, <1>5, <1>6, <1>7 DEF Insurance!ParametricNext

\* The crop-insurance holds the premiums of all, less what it paid.
CropPolicy == [premium : Nat, coverage : Nat, threshold : Value, drought : BOOLEAN,
               until : Int, status : Insurance!PolicyStatus]
Premiums(s) == [i \in DOMAIN s |-> s[i].premium]
PaidOut(s) == {i \in DOMAIN s : s[i].status = "Claimed"}

CropInv ==
  /\ policies \in Seq(CropPolicy) /\ now \in Int
  /\ held = SumOf(Premiums(policies), DOMAIN policies) - SumOf(Coverages(policies), PaidOut(policies))

LEMMA CropTables ==
  ASSUME NEW s \in Seq(CropPolicy)
  PROVE  /\ IsFiniteSet(DOMAIN s) /\ IsFiniteSet(PaidOut(s))
         /\ \A i \in DOMAIN s : /\ s[i] \in CropPolicy
                                /\ Premiums(s)[i] = s[i].premium /\ Premiums(s)[i] \in Nat
                                /\ Coverages(s)[i] = s[i].coverage /\ Coverages(s)[i] \in Nat
         /\ \A i \in PaidOut(s) : i \in DOMAIN s /\ Coverages(s)[i] \in Int
<1>1. DOMAIN s = 1..Len(s) /\ Len(s) \in Nat
  OBVIOUS
<1>2. IsFiniteSet(DOMAIN s)
  BY <1>1, FS_Interval
<1>3. IsFiniteSet(PaidOut(s))
  <2>1. PaidOut(s) \subseteq DOMAIN s
    BY DEF PaidOut
  <2> QED BY <1>2, <2>1, FS_Subset
<1>4. ASSUME NEW i \in DOMAIN s
      PROVE  /\ s[i] \in CropPolicy
             /\ Premiums(s)[i] = s[i].premium /\ Premiums(s)[i] \in Nat
             /\ Coverages(s)[i] = s[i].coverage /\ Coverages(s)[i] \in Nat
  <2>1. s[i] \in CropPolicy
    OBVIOUS
  <2>2. s[i].premium \in Nat /\ s[i].coverage \in Nat
    BY <2>1 DEF CropPolicy
  <2> QED BY <2>1, <2>2 DEF Premiums, Coverages
<1>5. ASSUME NEW i \in PaidOut(s) PROVE i \in DOMAIN s /\ Coverages(s)[i] \in Int
  <2>1. i \in DOMAIN s
    BY DEF PaidOut
  <2> QED BY <1>4, <2>1
<1> QED BY <1>2, <1>3, <1>4, <1>5

\* One policy is new or changes.
PremiumPart(s, i) == PartOf(Premiums(s), DOMAIN s, i)
PaidPart(s, i) == PartOf(Coverages(s), PaidOut(s), i)

LEMMA CropMoves ==
  ASSUME CropInv, NEW i, OneDiffers(policies, policies', i), policies' \in Seq(CropPolicy),
         now' \in Int,
         held' = held + (PremiumPart(policies', i) - PremiumPart(policies, i))
                      - (PaidPart(policies', i) - PaidPart(policies, i))
  PROVE  CropInv'
<1> DEFINE s == policies
           r == policies'
           P(t) == SumOf(Premiums(t), DOMAIN t)
           C(t) == SumOf(Coverages(t), PaidOut(t))
<1>1. s \in Seq(CropPolicy) /\ r \in Seq(CropPolicy) /\ held = P(s) - C(s) /\ OneDiffers(s, r, i)
  BY DEF CropInv
<1> HIDE DEF s, r
<1>2. /\ P(s) \in Int /\ PremiumPart(s, i) \in Int /\ PremiumPart(r, i) \in Int
      /\ P(r) = P(s) + (PremiumPart(r, i) - PremiumPart(s, i))
  <2>1. Moves(Premiums(s), Premiums(r), DOMAIN s, DOMAIN r, i)
    <3>1. IsFiniteSet(DOMAIN s) /\ (\A k \in DOMAIN s : Premiums(s)[k] \in Int)
          /\ (\A k \in DOMAIN r : Premiums(r)[k] \in Int)
      BY <1>1, CropTables
    <3>2. \A k \in DOMAIN s : k # i => Premiums(r)[k] = Premiums(s)[k]
      BY <1>1 DEF OneDiffers, Premiums
    <3> QED BY <1>1, <3>1, <3>2 DEF Moves, OneDiffers
  <2> QED BY <2>1, SumMoves DEF PremiumPart
<1>3. /\ C(s) \in Int /\ PaidPart(s, i) \in Int /\ PaidPart(r, i) \in Int
      /\ C(r) = C(s) + (PaidPart(r, i) - PaidPart(s, i))
  <2>1. Moves(Coverages(s), Coverages(r), PaidOut(s), PaidOut(r), i)
    <3>1. IsFiniteSet(PaidOut(s)) /\ (\A k \in PaidOut(s) : Coverages(s)[k] \in Int)
          /\ (\A k \in PaidOut(r) : Coverages(r)[k] \in Int)
      BY <1>1, CropTables
    <3>2. \A k \in PaidOut(s) : k # i => Coverages(r)[k] = Coverages(s)[k]
      BY <1>1 DEF OneDiffers, Coverages, PaidOut
    <3>3. \A k : k # i => (k \in PaidOut(s) <=> k \in PaidOut(r))
      BY <1>1 DEF OneDiffers, PaidOut
    <3> QED BY <3>1, <3>2, <3>3 DEF Moves
  <2> QED BY <2>1, SumMoves DEF PaidPart
<1>4. held' = held + (PremiumPart(r, i) - PremiumPart(s, i)) - (PaidPart(r, i) - PaidPart(s, i))
  BY DEF r, s
<1> HIDE DEF P, C
<1>5. held' = P(r) - C(r)
  BY <1>1, <1>2, <1>3, <1>4
<1> QED BY <1>1, <1>5 DEF CropInv, P, C, r

LEMMA CreatePolicyStep ==
  ASSUME InsuranceAssumption, CropInv, NEW premium \in Premium, NEW payout \in Coverage,
         NEW v \in Value, NEW drought \in BOOLEAN, NEW term \in Term,
         Insurance!CreatePolicy(premium, payout, v, drought, term)
  PROVE  CropInv' /\ Insurance!PolicyEndsOnce
<1> DEFINE p == [premium |-> premium, coverage |-> payout, threshold |-> v, drought |-> drought,
                 until |-> now + term, status |-> "Active"]
           i == Len(policies) + 1
<1>1. /\ policies' = Append(policies, p) /\ held' = held + premium
      /\ UNCHANGED <<now, claims>>
  BY DEF Insurance!CreatePolicy, Insurance!others
<1>2. premium \in Nat /\ policies \in Seq(CropPolicy) /\ now \in Int
  BY DEF InsuranceAssumption, CropInv
<1>3. p \in CropPolicy /\ p.status = "Active" /\ p.premium = premium
  <2>1. payout \in Nat /\ now + term \in Int
    BY <1>2 DEF InsuranceAssumption
  <2> QED BY <1>2, <2>1 DEF CropPolicy, Insurance!PolicyStatus
<1> HIDE DEF p
<1>4. /\ policies' \in Seq(CropPolicy) /\ policies'[i] = p /\ i \notin DOMAIN policies
      /\ i \in DOMAIN policies' /\ OneDiffers(policies, policies', i)
  <2>1. /\ Append(policies, p) \in Seq(CropPolicy) /\ Append(policies, p)[Len(policies) + 1] = p
        /\ Len(policies) + 1 \notin DOMAIN policies
        /\ DOMAIN Append(policies, p) = DOMAIN policies \cup {Len(policies) + 1}
        /\ OneDiffers(policies, Append(policies, p), Len(policies) + 1)
    BY <1>2, <1>3, AddedRecord
  <2> QED BY <1>1, <2>1
<1> HIDE DEF i
<1>5. /\ PremiumPart(policies, i) = 0 /\ PremiumPart(policies', i) = premium
      /\ PaidPart(policies, i) = 0 /\ PaidPart(policies', i) = 0
  <2>1. Premiums(policies')[i] = premium
    BY <1>3, <1>4 DEF Premiums
  <2>2. i \notin PaidOut(policies) /\ i \notin PaidOut(policies')
    BY <1>3, <1>4 DEF PaidOut
  <2> QED BY <1>4, <2>1, <2>2 DEF PremiumPart, PaidPart, PartOf
<1>6. held \in Int
  <2>1. SumOf(Premiums(policies), DOMAIN policies) \in Int
    BY <1>2, CropTables, SumInt
  <2>2. SumOf(Coverages(policies), PaidOut(policies)) \in Int
    <3>1. IsFiniteSet(PaidOut(policies)) /\ \A k \in PaidOut(policies) : Coverages(policies)[k] \in Int
      BY <1>2, CropTables
    <3> QED BY <3>1, SumInt
  <2> QED BY <2>1, <2>2 DEF CropInv
<1>7. held' = held + (PremiumPart(policies', i) - PremiumPart(policies, i))
                   - (PaidPart(policies', i) - PaidPart(policies, i))
  BY <1>1, <1>2, <1>5, <1>6
<1>8. now' \in Int
  BY <1>1, <1>2
<1>9. CropInv'
  BY <1>4, <1>7, <1>8, CropMoves
<1>10. Insurance!PolicyEndsOnce
  BY <1>1, <1>2, <1>3, NewPolicyEndsNothing
<1> QED BY <1>9, <1>10

\* A payout or an expiry.
LEMMA CropEndsStep ==
  ASSUME InsuranceAssumption, Contract = "crop-insurance", CropInv, NEW i \in DOMAIN policies,
         Insurance!TriggerPayout(i) \/ Insurance!ExpireUnpaid(i)
  PROVE  CropInv' /\ Insurance!PolicyEndsOnce
<1> DEFINE x == policies[i]
           status == IF Insurance!TriggerPayout(i) THEN "Claimed" ELSE "Expired"
           p == [x EXCEPT !.status = status]
<1>1. /\ x \in CropPolicy /\ x.status = "Active" /\ x.coverage \in Nat /\ x.premium \in Nat
      /\ x.until \in Int /\ policies \in Seq(CropPolicy) /\ now \in Int
  <2>1. policies \in Seq(CropPolicy) /\ now \in Int
    BY DEF CropInv
  <2>2. x \in CropPolicy
    BY <2>1
  <2>3. x.status = "Active"
    BY DEF Insurance!TriggerPayout, Insurance!ExpireUnpaid
  <2> HIDE DEF x
  <2> QED BY <2>1, <2>2, <2>3 DEF CropPolicy
<1>2. /\ policies' = [policies EXCEPT ![i] = p] /\ UNCHANGED <<now, claims>>
      /\ held' = IF status = "Claimed" THEN held - x.coverage ELSE held
      /\ status = "Expired" => now >= x.until
  <2>1. CASE Insurance!TriggerPayout(i)
    BY <2>1 DEF Insurance!TriggerPayout, Insurance!others
  <2>2. CASE ~Insurance!TriggerPayout(i)
    BY <2>2 DEF Insurance!ExpireUnpaid, Insurance!others
  <2> QED BY <2>1, <2>2
<1>3. status \in {"Claimed", "Expired"}
  OBVIOUS
<1>4. /\ p \in CropPolicy /\ p.status = status /\ p.coverage = x.coverage
      /\ p.premium = x.premium /\ p.until = x.until
  <2> HIDE DEF x, status
  <2> QED BY <1>1, <1>3 DEF CropPolicy, Insurance!PolicyStatus
<1> HIDE DEF p, status
<1>5. /\ policies' \in Seq(CropPolicy) /\ policies'[i] = p /\ DOMAIN policies' = DOMAIN policies
      /\ OneDiffers(policies, policies', i)
  BY <1>1, <1>2, <1>4 DEF OneDiffers
<1>6. /\ PremiumPart(policies, i) = x.premium /\ PremiumPart(policies', i) = x.premium
      /\ PaidPart(policies, i) = 0
      /\ PaidPart(policies', i) = IF status = "Claimed" THEN x.coverage ELSE 0
  <2>1. /\ Premiums(policies)[i] = x.premium /\ Premiums(policies')[i] = x.premium
        /\ Coverages(policies')[i] = x.coverage
    BY <1>4, <1>5 DEF Premiums, Coverages
  <2>2. i \notin PaidOut(policies) /\ (i \in PaidOut(policies') <=> status = "Claimed")
    BY <1>1, <1>4, <1>5 DEF PaidOut
  <2> HIDE DEF x
  <2> QED BY <1>5, <2>1, <2>2 DEF PremiumPart, PaidPart, PartOf
<1>7. held \in Int
  <2>1. SumOf(Premiums(policies), DOMAIN policies) \in Int
    BY <1>1, CropTables, SumInt
  <2>2. SumOf(Coverages(policies), PaidOut(policies)) \in Int
    <3>1. IsFiniteSet(PaidOut(policies)) /\ \A k \in PaidOut(policies) : Coverages(policies)[k] \in Int
      BY <1>1, CropTables
    <3> QED BY <3>1, SumInt
  <2> QED BY <2>1, <2>2 DEF CropInv
<1>8. Insurance!PolicyEndsOnce
  <2>1. status = "Expired" => RanOut(i)
    BY <1>1, <1>2 DEF RanOut
  <2>2. p.status = "Expired" => RanOut(i)
    BY <1>4, <2>1
  <2> QED BY <1>1, <1>2, <1>4, <2>2, ActivePolicyEnds
<1> HIDE DEF x
<1>9. held' = held + (PremiumPart(policies', i) - PremiumPart(policies, i))
                   - (PaidPart(policies', i) - PaidPart(policies, i))
  <2>1. CASE status = "Claimed"
    BY <1>1, <1>2, <1>6, <1>7, <2>1
  <2>2. CASE status # "Claimed"
    BY <1>1, <1>2, <1>6, <1>7, <2>2
  <2> QED BY <2>1, <2>2
<1>10. now' \in Int
  BY <1>1, <1>2
<1>11. CropInv'
  BY <1>5, <1>9, <1>10, CropMoves
<1> QED BY <1>8, <1>11

\* The insurance-protocol: the votes on a claim.
Listing == [active : BOOLEAN]
CoverageRecord == [holder : Person, product : Nat, coverage : {0}, until : Int,
                   status : {"Active"}]
ClaimRecord == [policy : Nat, for : Nat, against : Nat, voters : SUBSET Person, ends : Int,
                status : {"Pending", "Approved", "Rejected"}]

\* The votes of claim c on one of the policies s are those of its voters.
VotesOf(c, s) ==
  /\ c.policy \in DOMAIN s /\ s[c.policy].holder \notin c.voters
  /\ c.for + c.against = Cardinality(c.voters)

\* Claim c is decided at time t as its votes say.
DecidedBy(c, t) ==
  c.status # "Pending" =>
    /\ Cardinality(c.voters) >= MinVotes /\ t >= c.ends
    /\ (c.status = "Approved") = (c.for > c.against)

OneEach(s) == \A i, j \in DOMAIN s : s[i].holder = s[j].holder /\ s[i].product = s[j].product
                                       => i = j

ClaimsInv ==
  /\ products \in Seq(Listing) /\ now \in Int
  /\ policies \in Seq(CoverageRecord) /\ claims \in Seq(ClaimRecord)
  /\ \A c \in DOMAIN claims : VotesOf(claims[c], policies) /\ DecidedBy(claims[c], now)
  /\ OneEach(policies)

LEMMA InsuranceCardinality == \A S : Insurance!Cardinality(S) = Cardinality(S)
  BY DEF Insurance!Cardinality, Cardinality

LEMMA ListingStep ==
  ASSUME ClaimsInv,
         Insurance!ListProduct \/ (\E id \in DOMAIN products : Insurance!DelistProduct(id))
  PROVE  ClaimsInv' /\ Insurance!PolicyEndsOnce
<1>1. UNCHANGED <<policies, claims, now>>
  BY DEF Insurance!ListProduct, Insurance!DelistProduct, Insurance!others
<1>2. products' \in Seq(Listing)
  <2>1. products \in Seq(Listing)
    BY DEF ClaimsInv
  <2>2. CASE Insurance!ListProduct
    <3> DEFINE p == [active |-> TRUE]
    <3>1. p \in Listing /\ products' = Append(products, p)
      BY <2>2 DEF Insurance!ListProduct, Listing
    <3> HIDE DEF p
    <3> QED BY <2>1, <3>1
  <2>3. ASSUME NEW id \in DOMAIN products, Insurance!DelistProduct(id)
        PROVE  products' \in Seq(Listing)
    <3> DEFINE p == [products[id] EXCEPT !.active = FALSE]
    <3>1. products' = [products EXCEPT ![id] = p]
      BY <2>3 DEF Insurance!DelistProduct
    <3>2. p \in Listing
      <4>1. products[id] \in Listing
        BY <2>1
      <4> QED BY <4>1 DEF Listing
    <3> HIDE DEF p
    <3> QED BY <2>1, <3>1, <3>2
  <2> QED BY <2>2, <2>3
<1>3. ClaimsInv'
  BY <1>1, <1>2 DEF ClaimsInv
<1> QED BY <1>1, <1>3, NothingEnds

LEMMA CoverageStep ==
  ASSUME InsuranceAssumption, ClaimsInv, NEW h \in Person, NEW id \in DOMAIN products,
         NEW term \in Term, Insurance!BuyCoverage(h, id, term)
  PROVE  ClaimsInv' /\ Insurance!PolicyEndsOnce
<1> DEFINE p == [holder |-> h, product |-> id, coverage |-> 0, until |-> now + term,
                 status |-> "Active"]
<1>1. /\ policies' = Append(policies, p) /\ UNCHANGED <<products, claims, now>>
      /\ \A i \in DOMAIN policies : ~(policies[i].holder = h /\ policies[i].product = id)
  BY DEF Insurance!BuyCoverage, Insurance!others
<1>2. /\ products \in Seq(Listing) /\ now \in Int /\ policies \in Seq(CoverageRecord)
      /\ claims \in Seq(ClaimRecord) /\ OneEach(policies)
  BY DEF ClaimsInv
<1>3. p \in CoverageRecord /\ p.holder = h /\ p.product = id
  <2>1. id \in Nat /\ now + term \in Int
    BY <1>2 DEF InsuranceAssumption
  <2> QED BY <2>1 DEF CoverageRecord
<1> HIDE DEF p
<1>4. /\ policies' \in Seq(CoverageRecord) /\ policies'[Len(policies) + 1] = p
      /\ DOMAIN policies' = DOMAIN policies \cup {Len(policies) + 1}
      /\ \A k \in DOMAIN policies : policies'[k] = policies[k]
  <2>1. /\ Append(policies, p) \in Seq(CoverageRecord)
        /\ Append(policies, p)[Len(policies) + 1] = p
        /\ DOMAIN Append(policies, p) = DOMAIN policies \cup {Len(policies) + 1}
        /\ \A k \in DOMAIN policies : Append(policies, p)[k] = policies[k]
    BY <1>2, <1>3, AddedRecord
  <2> QED BY <1>1, <2>1
<1>5. OneEach(policies')
  BY <1>1, <1>2, <1>3, <1>4 DEF OneEach
<1>6. ASSUME NEW c \in DOMAIN claims
      PROVE  VotesOf(claims[c], policies') /\ DecidedBy(claims[c], now)
  BY <1>4, <1>6 DEF ClaimsInv, VotesOf
<1>7. ClaimsInv'
  BY <1>1, <1>2, <1>4, <1>5, <1>6 DEF ClaimsInv
<1>8. Insurance!PolicyEndsOnce
  BY <1>1, <1>2, <1>3, NewPolicyEndsNothing
<1> QED BY <1>7, <1>8

\* One claim is new or takes a vote or is finalised.
LEMMA ClaimMoves ==
  ASSUME ClaimsInv, NEW c, NEW x, OneDiffers(claims, claims', c), c \in DOMAIN claims',
         claims'[c] = x, claims' \in Seq(ClaimRecord), UNCHANGED <<products, policies, now>>,
         VotesOf(x, policies), DecidedBy(x, now),
         c \in DOMAIN claims => claims[c].status = "Pending"
  PROVE  ClaimsInv' /\ Insurance!PolicyEndsOnce
<1>1. ASSUME NEW k \in DOMAIN claims'
      PROVE  VotesOf(claims'[k], policies) /\ DecidedBy(claims'[k], now)
  BY <1>1 DEF OneDiffers, ClaimsInv
<1>2. ClaimsInv'
  BY <1>1 DEF ClaimsInv
<1>3. \A k \in DOMAIN claims : claims[k].status # "Pending" => claims'[k] = claims[k]
  BY DEF OneDiffers
<1>4. Insurance!PolicyEndsOnce
  BY <1>3 DEF Insurance!PolicyEndsOnce
<1> QED BY <1>2, <1>4

LEMMA FileClaimStep ==
  ASSUME InsuranceAssumption, ClaimsInv, NEW i \in DOMAIN policies, Insurance!FileClaim(i)
  PROVE  ClaimsInv' /\ Insurance!PolicyEndsOnce
<1> DEFINE x == [policy |-> i, for |-> 0, against |-> 0, voters |-> {},
                 ends |-> now + Window, status |-> "Pending"]
           c == Len(claims) + 1
<1>1. claims' = Append(claims, x) /\ UNCHANGED <<products, policies, now>>
  BY DEF Insurance!FileClaim
<1>2. claims \in Seq(ClaimRecord) /\ policies \in Seq(CoverageRecord) /\ now \in Int
  BY DEF ClaimsInv
<1>3. x \in ClaimRecord
  <2>1. i \in Nat /\ now + Window \in Int
    BY <1>2 DEF InsuranceAssumption
  <2> QED BY <2>1 DEF ClaimRecord
<1>4. VotesOf(x, policies) /\ DecidedBy(x, now)
  <2>1. Cardinality({}) = 0
    BY FS_EmptySet
  <2>2. 0 + 0 = 0
    OBVIOUS
  <2> QED BY <2>1, <2>2 DEF VotesOf, DecidedBy
<1> HIDE DEF x
<1>5. /\ claims' \in Seq(ClaimRecord) /\ claims'[c] = x /\ c \notin DOMAIN claims
      /\ c \in DOMAIN claims' /\ OneDiffers(claims, claims', c)
  <2>1. /\ Append(claims, x) \in Seq(ClaimRecord) /\ Append(claims, x)[Len(claims) + 1] = x
        /\ Len(claims) + 1 \notin DOMAIN claims
        /\ DOMAIN Append(claims, x) = DOMAIN claims \cup {Len(claims) + 1}
        /\ OneDiffers(claims, Append(claims, x), Len(claims) + 1)
    BY <1>2, <1>3, AddedRecord
  <2> QED BY <1>1, <2>1
<1> HIDE DEF c
<1> QED BY <1>1, <1>4, <1>5, ClaimMoves

LEMMA VoteClaimStep ==
  ASSUME InsuranceAssumption, ClaimsInv, NEW c \in DOMAIN claims, NEW v \in Person,
         NEW approve \in BOOLEAN, Insurance!VoteClaim(v, c, approve)
  PROVE  ClaimsInv' /\ Insurance!PolicyEndsOnce
<1> DEFINE old == claims[c]
           x == [old EXCEPT !.voters = @ \cup {v}, !.for = @ + (IF approve THEN 1 ELSE 0),
                            !.against = @ + (IF approve THEN 0 ELSE 1)]
           f == old.for + (IF approve THEN 1 ELSE 0)
           a == old.against + (IF approve THEN 0 ELSE 1)
<1>1. /\ old.status = "Pending" /\ v # policies[old.policy].holder /\ v \notin old.voters
      /\ claims' = [claims EXCEPT ![c] = x] /\ UNCHANGED <<products, policies, now>>
  BY DEF Insurance!VoteClaim
<1>2. x = [old EXCEPT !.voters = old.voters \cup {v}, !.for = f, !.against = a]
  OBVIOUS
<1>3. claims \in Seq(ClaimRecord) /\ old \in ClaimRecord /\ VotesOf(old, policies)
  BY DEF ClaimsInv
<1> HIDE DEF x, old
<1>4. /\ old.for \in Nat /\ old.against \in Nat /\ old.voters \subseteq Person
  BY <1>3 DEF ClaimRecord
<1>5. f \in Nat /\ a \in Nat /\ f + a = (old.for + old.against) + 1
  BY <1>4
<1> HIDE DEF f, a
<1>6. /\ x \in ClaimRecord /\ x.status = "Pending" /\ x.policy = old.policy
      /\ x.voters = old.voters \cup {v} /\ x.for = f /\ x.against = a
  BY <1>1, <1>2, <1>3, <1>4, <1>5 DEF ClaimRecord
<1>7. Cardinality(x.voters) = Cardinality(old.voters) + 1
  <2>1. IsFiniteSet(old.voters)
    BY <1>4, FS_Subset DEF InsuranceAssumption
  <2> QED BY <1>1, <1>6, <2>1, FS_AddElement
<1>8. VotesOf(x, policies) /\ DecidedBy(x, now)
  BY <1>1, <1>3, <1>5, <1>6, <1>7 DEF VotesOf, DecidedBy
<1>9. /\ claims' \in Seq(ClaimRecord) /\ claims'[c] = x /\ c \in DOMAIN claims'
      /\ OneDiffers(claims, claims', c)
  BY <1>1, <1>3, <1>6 DEF OneDiffers
<1>10. c \in DOMAIN claims => claims[c].status = "Pending"
  BY <1>1 DEF old
<1> QED BY <1>1, <1>8, <1>9, <1>10, ClaimMoves

LEMMA FinaliseStep ==
  ASSUME ClaimsInv, NEW c \in DOMAIN claims, Insurance!FinaliseClaim(c)
  PROVE  ClaimsInv' /\ Insurance!PolicyEndsOnce
<1> DEFINE old == claims[c]
           status == IF old.for > old.against THEN "Approved" ELSE "Rejected"
           x == [old EXCEPT !.status = status]
<1>1. /\ old.status = "Pending" /\ now >= old.ends /\ old.for + old.against >= MinVotes
      /\ claims' = [claims EXCEPT ![c] = x] /\ UNCHANGED <<products, policies, now>>
  BY DEF Insurance!FinaliseClaim
<1>2. claims \in Seq(ClaimRecord) /\ old \in ClaimRecord /\ VotesOf(old, policies)
  BY DEF ClaimsInv
<1>3. status \in {"Approved", "Rejected"} /\ (status = "Approved") = (old.for > old.against)
  <2> HIDE DEF old
  <2>1. "Approved" # "Rejected"
    OBVIOUS
  <2> QED BY <2>1
<1> HIDE DEF old, status
<1>4. /\ x \in ClaimRecord /\ x.status = status /\ x.policy = old.policy /\ x.ends = old.ends
      /\ x.voters = old.voters /\ x.for = old.for /\ x.against = old.against
  BY <1>2, <1>3 DEF ClaimRecord
<1> HIDE DEF x
<1>5. VotesOf(x, policies)
  BY <1>2, <1>4 DEF VotesOf
<1>6. DecidedBy(x, now)
  <2>1. Cardinality(x.voters) >= MinVotes
    BY <1>1, <1>2, <1>4 DEF VotesOf
  <2> QED BY <1>1, <1>3, <1>4, <2>1 DEF DecidedBy
<1>7. /\ claims' \in Seq(ClaimRecord) /\ claims'[c] = x /\ c \in DOMAIN claims'
      /\ OneDiffers(claims, claims', c)
  BY <1>1, <1>2, <1>4 DEF OneDiffers
<1>8. c \in DOMAIN claims => claims[c].status = "Pending"
  BY <1>1 DEF old
<1> QED BY <1>1, <1>5, <1>6, <1>7, <1>8, ClaimMoves

LEMMA ProtocolStep ==
  ASSUME InsuranceAssumption, ClaimsInv, Insurance!ProtocolNext
  PROVE  ClaimsInv' /\ Insurance!PolicyEndsOnce
  BY ListingStep, CoverageStep, FileClaimStep, VoteClaimStep, FinaliseStep
     DEF Insurance!ProtocolNext

LEMMA CropStep ==
  ASSUME InsuranceAssumption, Contract = "crop-insurance", CropInv, Insurance!CropNext
  PROVE  CropInv' /\ Insurance!PolicyEndsOnce
<1>1. ASSUME NEW b, NEW v, Insurance!SetPaused(b) \/ Insurance!SubmitRainfall(v)
      PROVE  CropInv' /\ Insurance!PolicyEndsOnce
  <2>1. UNCHANGED <<policies, held, now, claims>>
    BY <1>1 DEF Insurance!SetPaused, Insurance!SubmitRainfall, Insurance!others
  <2> QED BY <2>1, NothingEnds DEF CropInv
<1>2. ASSUME NEW premium \in Premium, NEW payout \in Coverage, NEW v \in Value,
             NEW drought \in BOOLEAN, NEW term \in Term,
             Insurance!CreatePolicy(premium, payout, v, drought, term)
      PROVE  CropInv' /\ Insurance!PolicyEndsOnce
  BY <1>2, CreatePolicyStep
<1>3. ASSUME NEW i \in DOMAIN policies, Insurance!TriggerPayout(i) \/ Insurance!ExpireUnpaid(i)
      PROVE  CropInv' /\ Insurance!PolicyEndsOnce
  BY <1>3, CropEndsStep
<1> QED BY <1>1, <1>2, <1>3 DEF Insurance!CropNext

InsuranceInv ==
  /\ Contract = "parametric-insurance" => ReserveInv
  /\ Contract = "crop-insurance" => CropInv
  /\ Contract = "insurance-protocol" => ClaimsInv

LEMMA InsuranceStart == ASSUME InsuranceAssumption PROVE Insurance!Init => InsuranceInv
<1> SUFFICES ASSUME Insurance!Init PROVE InsuranceInv
  OBVIOUS
<1>1. /\ products = <<>> /\ policies = <<>> /\ claims = <<>> /\ reserved = 0 /\ held = 0 /\ now = 0
  BY DEF Insurance!Init
<1>2. DOMAIN policies = {} /\ DOMAIN claims = {}
  BY <1>1
<1>3. Funded(policies) = {} /\ PaidOut(policies) = {}
  BY <1>2 DEF Funded, PaidOut
<1>4. ReserveInv
  <2>1. products \in Seq(ProductTerms) /\ policies \in Seq(Parametric)
    BY <1>1
  <2>2. SumOf(Coverages(policies), Funded(policies)) = 0
    BY <1>3, SumEmpty
  <2> QED BY <1>1, <1>2, <2>1, <2>2 DEF ReserveInv
<1>5. CropInv
  <2>1. policies \in Seq(CropPolicy)
    BY <1>1
  <2>2. /\ SumOf(Premiums(policies), DOMAIN policies) = 0
        /\ SumOf(Coverages(policies), PaidOut(policies)) = 0
    BY <1>2, <1>3, SumEmpty
  <2>3. now \in Int /\ held = 0
    BY <1>1
  <2> QED BY <2>1, <2>2, <2>3 DEF CropInv
<1>6. ClaimsInv
  BY <1>1, <1>2 DEF ClaimsInv, OneEach
<1> QED BY <1>4, <1>5, <1>6 DEF InsuranceInv

\* Time passes, or nothing does.
LEMMA InsuranceWaits ==
  ASSUME InsuranceInv,
         UNCHANGED <<configured, products, policies, reserved, held, claims>>,
         now' = now \/ now' = now + 1
  PROVE  InsuranceInv' /\ Insurance!PolicyEndsOnce
<1>1. ReserveInv => ReserveInv'
  BY DEF ReserveInv
<1>2. CropInv => CropInv'
  BY DEF CropInv
<1>3. ASSUME ClaimsInv PROVE ClaimsInv'
  <2>1. ASSUME NEW c \in DOMAIN claims PROVE DecidedBy(claims[c], now')
    <3>1. claims[c] \in ClaimRecord /\ DecidedBy(claims[c], now) /\ now \in Int
      BY <1>3 DEF ClaimsInv
    <3>2. claims[c].ends \in Int
      BY <3>1 DEF ClaimRecord
    <3>3. now >= claims[c].ends => now' >= claims[c].ends
      BY <3>1, <3>2
    <3> QED BY <3>1, <3>3 DEF DecidedBy
  <2>2. now' \in Int
    BY <1>3 DEF ClaimsInv
  <2> QED BY <1>3, <2>1, <2>2 DEF ClaimsInv
<1>4. InsuranceInv'
  BY <1>1, <1>2, <1>3 DEF InsuranceInv
<1> QED BY <1>4, NothingEnds

LEMMA InsuranceStep ==
  ASSUME InsuranceAssumption, InsuranceInv, [Insurance!Next]_Insurance!vars
  PROVE  InsuranceInv' /\ (Insurance!PolicyEndsOnce \/ UNCHANGED Insurance!vars)
<1>1. CASE Insurance!Initialize \/ Insurance!Tick \/ UNCHANGED Insurance!vars
  <2>1. /\ UNCHANGED <<configured, products, policies, reserved, held, claims>>
        /\ now' = now \/ now' = now + 1
    BY <1>1 DEF Insurance!Initialize, Insurance!Tick, Insurance!vars, Insurance!others
  <2> QED BY <2>1, InsuranceWaits
<1>2. CASE Contract = "parametric-insurance" /\ Insurance!ParametricNext
  <2>1. ReserveInv
    BY <1>2 DEF InsuranceInv
  <2>2. ReserveInv' /\ Insurance!PolicyEndsOnce
    BY <1>2, <2>1, ParametricStep
  <2> QED BY <1>2, <2>2 DEF InsuranceInv
<1>3. CASE Contract = "crop-insurance" /\ Insurance!CropNext
  <2>1. CropInv
    BY <1>3 DEF InsuranceInv
  <2>2. CropInv' /\ Insurance!PolicyEndsOnce
    BY <1>3, <2>1, CropStep
  <2> QED BY <1>3, <2>2 DEF InsuranceInv
<1>4. CASE Contract = "insurance-protocol" /\ Insurance!ProtocolNext
  <2>1. ClaimsInv
    BY <1>4 DEF InsuranceInv
  <2>2. ClaimsInv' /\ Insurance!PolicyEndsOnce
    BY <1>4, <2>1, ProtocolStep
  <2> QED BY <1>4, <2>2 DEF InsuranceInv
<1> QED BY <1>1, <1>2, <1>3, <1>4 DEF Insurance!Next

\* The reserve of the parametric insurance is the coverage of the crop policies
\* that are open, and is held; the crop-insurance holds the premiums of all,
\* less what it has paid once for each policy.
THEOREM ReserveCovers ==
  ASSUME InsuranceAssumption
  PROVE  Insurance!Spec => []Insurance!ReserveCoversPolicies
<1>1. InsuranceInv => Insurance!ReserveCoversPolicies
  <2> SUFFICES ASSUME InsuranceInv PROVE Insurance!ReserveCoversPolicies
    OBVIOUS
  <2>1. Insurance!Coverages = Coverages(policies)
    BY DEF Insurance!Coverages, Coverages
  <2>2. ASSUME Contract = "parametric-insurance"
        PROVE  /\ reserved = Insurance!Total(Insurance!Coverages,
                                             {i \in DOMAIN policies : policies[i].funded})
               /\ held >= reserved
               /\ \A i \in DOMAIN policies :
                    policies[i].funded = /\ policies[i].status = "Active"
                                         /\ products[policies[i].product].crop
    <3>1. ReserveInv
      BY <2>2 DEF InsuranceInv
    <3>2. reserved = Insurance!Total(Insurance!Coverages, Funded(policies))
      BY <2>1, <3>1, InsuranceTotal DEF ReserveInv
    <3> QED BY <3>1, <3>2 DEF ReserveInv, Insures, Funded
  <2>3. ASSUME Contract = "crop-insurance"
        PROVE  held = Insurance!Total([i \in DOMAIN policies |-> policies[i].premium],
                                      DOMAIN policies)
                        - Insurance!Total(Insurance!Coverages,
                                          {i \in DOMAIN policies : policies[i].status = "Claimed"})
    <3>1. CropInv
      BY <2>3 DEF InsuranceInv
    <3>2. held = Insurance!Total(Premiums(policies), DOMAIN policies)
                   - Insurance!Total(Insurance!Coverages, PaidOut(policies))
      BY <2>1, <3>1, InsuranceTotal DEF CropInv
    <3> QED BY <3>2 DEF Premiums, PaidOut
  <2> QED BY <2>2, <2>3 DEF Insurance!ReserveCoversPolicies
<1> QED BY <1>1, InsuranceStart, InsuranceStep, PTL DEF Insurance!Spec

\* The votes on a claim are those of as many persons other than the holder, and
\* it is decided as they say; nobody holds two policies of one product.
THEOREM ClaimVotesCounted ==
  ASSUME InsuranceAssumption
  PROVE  Insurance!Spec => []Insurance!ClaimsCounted
<1>1. InsuranceInv => Insurance!ClaimsCounted
  <2> SUFFICES ASSUME InsuranceInv, Contract = "insurance-protocol" PROVE Insurance!ClaimsCounted
    BY DEF Insurance!ClaimsCounted
  <2>1. ClaimsInv
    BY DEF InsuranceInv
  <2>2. OneEach(policies)
    BY <2>1 DEF ClaimsInv
  <2>3. ASSUME NEW c \in DOMAIN claims
        PROVE  VotesOf(claims[c], policies) /\ DecidedBy(claims[c], now)
    BY <2>1, <2>3 DEF ClaimsInv
  <2> QED BY <2>2, <2>3, InsuranceCardinality
          DEF Insurance!ClaimsCounted, VotesOf, DecidedBy, OneEach
<1> QED BY <1>1, InsuranceStart, InsuranceStep, PTL DEF Insurance!Spec

\* A policy is claimed or expires once, on terms that never change, and a claim
\* that is finalised takes no more votes.
THEOREM InsuranceEndsOnce ==
  ASSUME InsuranceAssumption
  PROVE  Insurance!Spec => [][Insurance!PolicyEndsOnce]_Insurance!vars
  BY InsuranceStart, InsuranceStep, PTL DEF Insurance!Spec
-----------------------------------------------------------------------------
(* Options *)

OptionsAssumption ==
  /\ Contract \in {"options-protocol", "options"}
  /\ IsFiniteSet(Writer) /\ Option!None \notin Writer
  /\ Scale \in Nat \ {0} /\ Bps \in Nat \ {0} /\ Margin \subseteq Nat
  /\ Price \subseteq Nat /\ Amount \subseteq Nat /\ Payout \subseteq Nat
  /\ Deposit \subseteq Nat /\ Premium \subseteq Nat

Account == [balance : Nat, locked : Nat]
LockedMargin == [locked : Nat, max : Nat]
MarginOption ==
  [writer : Writer, kind : Option!OptionKind, strike : Nat, amount : Nat, expiry : Int,
   status : Option!OptionStatus, margin : LockedMargin \cup {Option!None}]

\* The options of writer w that lock margin, and how much each locks.
Backing(s, w) == {id \in DOMAIN s : s[id].writer = w /\ s[id].margin # Option!None}
Locked(s, w) == [id \in Backing(s, w) |-> s[id].margin.locked]
BalanceOf(a) == [w \in Writer |-> a[w].balance]

\* The margin is within the largest payout, and an option that ended has none.
Secured(o) ==
  /\ o.margin # Option!None => o.margin.locked <= o.margin.max
  /\ o.status \in {"Exercised", "Expired", "Cancelled"} => o.margin = Option!None

MarginInv ==
  /\ options \in Seq(MarginOption) /\ accounts \in [Writer -> Account] /\ now \in Int
  /\ config \in [margin : Nat] \cup {Option!None}
  /\ price \in [value : Nat, at : Int] \cup {Option!None}
  /\ \A id \in DOMAIN options : Secured(options[id])
  /\ \A w \in Writer :
       /\ accounts[w].locked = SumOf(Locked(options, w), Backing(options, w))
       /\ accounts[w].locked <= accounts[w].balance
  /\ held = SumOf(BalanceOf(accounts), Writer)

LEMMA OptionTotal == \A w, S : Option!Total(w, S) = SumOf(w, S)
  BY DEF Option!Total, Option!MapThenSumSet, Option!MapThenFoldSet, SumOf,
     MapThenSumSet, MapThenFoldSet

LEMMA OptionMin ==
  ASSUME NEW x \in Int, NEW y \in Int
  PROVE  Option!Min({x, y}) \in {x, y} /\ Option!Min({x, y}) <= x /\ Option!Min({x, y}) <= y
<1>1. \E m \in {x, y} : \A v \in {x, y} : m <= v
  OBVIOUS
<1>2. Option!Min({x, y}) \in {x, y} /\ \A v \in {x, y} : Option!Min({x, y}) <= v
  BY <1>1 DEF Option!Min
<1> QED BY <1>2

LEMMA OptionMax ==
  ASSUME NEW x \in Int
  PROVE  Option!Max({0, x}) = IF x > 0 THEN x ELSE 0
<1>1. \E m \in {0, x} : \A v \in {0, x} : m >= v
  OBVIOUS
<1>2. Option!Max({0, x}) \in {0, x} /\ \A v \in {0, x} : Option!Max({0, x}) >= v
  BY <1>1 DEF Option!Max
<1> QED BY <1>2

LEMMA MarginIsSome == ASSUME NEW m \in LockedMargin PROVE m # Option!None
<1>1. DOMAIN m = {"locked", "max"} /\ DOMAIN Option!None = {"none"}
  BY DEF LockedMargin, Option!None
<1>2. "locked" \notin {"none"}
  OBVIOUS
<1> QED BY <1>1, <1>2

\* What an option locks.
LockedIn(o) == IF o.margin # Option!None THEN o.margin.locked ELSE 0

LEMMA OptionFields ==
  ASSUME NEW o \in MarginOption
  PROVE  /\ o.writer \in Writer /\ o.strike \in Nat /\ o.amount \in Nat /\ o.expiry \in Int
         /\ o.status \in Option!OptionStatus
         /\ LockedIn(o) \in Nat
         /\ o.margin # Option!None => /\ o.margin \in LockedMargin
                                      /\ o.margin.locked \in Nat /\ o.margin.max \in Nat
<1>1. /\ o.writer \in Writer /\ o.strike \in Nat /\ o.amount \in Nat /\ o.expiry \in Int
      /\ o.status \in Option!OptionStatus /\ o.margin \in LockedMargin \cup {Option!None}
  BY DEF MarginOption
<1>2. o.margin # Option!None => o.margin.locked \in Nat /\ o.margin.max \in Nat
  BY <1>1 DEF LockedMargin
<1> QED BY <1>1, <1>2 DEF LockedIn

\* The part of one option in what writer w has locked.
MarginPart(s, w, id) == IF id \in DOMAIN s /\ s[id].writer = w THEN LockedIn(s[id]) ELSE 0

LEMMA LockedMoves ==
  ASSUME NEW s \in Seq(MarginOption), NEW r \in Seq(MarginOption), NEW id,
         OneDiffers(s, r, id), NEW w \in Writer
  PROVE  /\ SumOf(Locked(s, w), Backing(s, w)) \in Nat
         /\ MarginPart(s, w, id) \in Nat /\ MarginPart(r, w, id) \in Nat
         /\ SumOf(Locked(r, w), Backing(r, w)) =
              SumOf(Locked(s, w), Backing(s, w)) + (MarginPart(r, w, id) - MarginPart(s, w, id))
<1>1. ASSUME NEW q \in Seq(MarginOption)
      PROVE  /\ IsFiniteSet(Backing(q, w))
             /\ \A k \in Backing(q, w) : Locked(q, w)[k] \in Nat
             /\ \A k : PartOf(Locked(q, w), Backing(q, w), k) = MarginPart(q, w, k)
             /\ \A k : MarginPart(q, w, k) \in Nat
  <2>1. \A k \in DOMAIN q : q[k] \in MarginOption
    OBVIOUS
  <2>2. IsFiniteSet(Backing(q, w))
    <3>1. DOMAIN q = 1..Len(q) /\ Len(q) \in Nat
      OBVIOUS
    <3>2. IsFiniteSet(DOMAIN q)
      BY <3>1, FS_Interval
    <3>3. Backing(q, w) \subseteq DOMAIN q
      BY DEF Backing
    <3> QED BY <3>2, <3>3, FS_Subset
  <2>3. \A k \in Backing(q, w) : Locked(q, w)[k] = q[k].margin.locked /\ Locked(q, w)[k] \in Nat
    BY <2>1, OptionFields DEF Locked, Backing
  <2>4. \A k : MarginPart(q, w, k) \in Nat
    BY <2>1, OptionFields DEF MarginPart
  <2>5. \A k : PartOf(Locked(q, w), Backing(q, w), k) = MarginPart(q, w, k)
    BY <2>3 DEF PartOf, MarginPart, Backing, LockedIn
  <2> QED BY <2>2, <2>3, <2>4, <2>5
<1>2. \A k : k # id => (k \in Backing(s, w) <=> k \in Backing(r, w))
  BY DEF Backing, OneDiffers
<1>3. \A k \in Backing(s, w) : k # id => Locked(r, w)[k] = Locked(s, w)[k]
  BY <1>2 DEF Locked, Backing, OneDiffers
<1>4. Moves(Locked(s, w), Locked(r, w), Backing(s, w), Backing(r, w), id)
  BY <1>1, <1>2, <1>3 DEF Moves
<1>5. SumOf(Locked(s, w), Backing(s, w)) \in Nat
  BY <1>1, SumMonotone
<1> QED BY <1>1, <1>4, <1>5, SumMoves

\* The sum of the balances follows that of one account.
LEMMA BalanceMoves ==
  ASSUME IsFiniteSet(Writer), NEW a \in [Writer -> Account], NEW w \in Writer, NEW x \in Account
  PROVE  /\ [a EXCEPT ![w] = x] \in [Writer -> Account]
         /\ a[w].balance \in Nat /\ SumOf(BalanceOf(a), Writer) \in Nat
         /\ a[w].balance <= SumOf(BalanceOf(a), Writer)
         /\ SumOf(BalanceOf([a EXCEPT ![w] = x]), Writer) =
              SumOf(BalanceOf(a), Writer) + (x.balance - a[w].balance)
<1> DEFINE c == [a EXCEPT ![w] = x]
<1>1. /\ c \in [Writer -> Account] /\ c[w] = x /\ a[w] \in Account
      /\ \A v \in Writer \ {w} : c[v] = a[v]
  OBVIOUS
<1> HIDE DEF c
<1>2. \A v \in Writer : BalanceOf(a)[v] = a[v].balance /\ a[v].balance \in Nat
  BY DEF BalanceOf, Account
<1>3. BalanceOf(c)[w] = x.balance /\ x.balance \in Nat
  BY <1>1 DEF BalanceOf, Account
<1>4. \A v \in Writer \ {w} : BalanceOf(c)[v] = BalanceOf(a)[v]
  BY <1>1 DEF BalanceOf
<1>5. SumOf(BalanceOf(c), Writer) = SumOf(BalanceOf(a), Writer) + (x.balance - a[w].balance)
  BY <1>2, <1>3, <1>4, SumUpdate
<1>6. SumOf(BalanceOf(a), Writer) \in Nat /\ a[w].balance <= SumOf(BalanceOf(a), Writer)
  <2>1. SumOf(BalanceOf(a), {w}) <= SumOf(BalanceOf(a), Writer)
    BY <1>2, SumMonotone
  <2>2. SumOf(BalanceOf(a), {w}) = a[w].balance
    <3>1. BalanceOf(a)[w] = a[w].balance /\ a[w].balance \in Nat
      BY <1>2
    <3>2. IsFiniteSet({w}) /\ w \in {w} /\ \A v \in {w} : BalanceOf(a)[v] \in Int
      <4>1. IsFiniteSet({w})
        BY FS_Singleton
      <4>2. \A v \in {w} : BalanceOf(a)[v] \in Int
        BY <3>1
      <4> QED BY <4>1, <4>2
    <3>3. SumOf(BalanceOf(a), {w}) = BalanceOf(a)[w] + SumOf(BalanceOf(a), {w} \ {w})
      BY <3>2, SumRemove
    <3>4. {w} \ {w} = {} /\ SumOf(BalanceOf(a), {}) = 0
      BY SumEmpty
    <3> QED BY <3>1, <3>3, <3>4
  <2>3. SumOf(BalanceOf(a), Writer) \in Nat
    BY <1>2, SumMonotone
  <2> QED BY <1>2, <2>1, <2>2, <2>3
<1> QED BY <1>1, <1>2, <1>5, <1>6 DEF c

\* One option is new or changes, and with it its writer's account.
LEMMA MarginMoves ==
  ASSUME OptionsAssumption, MarginInv, NEW id, OneDiffers(options, options', id),
         id \in DOMAIN options', options' \in Seq(MarginOption),
         NEW o, options'[id] = o, Secured(o),
         id \in DOMAIN options => options[id].writer = o.writer,
         NEW x \in Account, x.locked <= x.balance,
         accounts' = [accounts EXCEPT ![o.writer] = x],
         x.locked = accounts[o.writer].locked
                      + (LockedIn(o) - (IF id \in DOMAIN options THEN LockedIn(options[id]) ELSE 0)),
         held' = held + (x.balance - accounts[o.writer].balance),
         UNCHANGED <<config, price, now>>
  PROVE  MarginInv'
<1> DEFINE u == o.writer
<1>1. /\ options \in Seq(MarginOption) /\ accounts \in [Writer -> Account] /\ o \in MarginOption
      /\ u \in Writer /\ IsFiniteSet(Writer) /\ held = SumOf(BalanceOf(accounts), Writer)
  BY OptionFields DEF MarginInv, OptionsAssumption
<1> HIDE DEF u
<1>2. accounts' = [accounts EXCEPT ![u] = x] /\ held' = held + (x.balance - accounts[u].balance)
  BY DEF u
<1>3. accounts' \in [Writer -> Account] /\ held' = SumOf(BalanceOf(accounts'), Writer)
  <2>1. /\ [accounts EXCEPT ![u] = x] \in [Writer -> Account]
        /\ accounts[u].balance \in Nat /\ SumOf(BalanceOf(accounts), Writer) \in Nat
        /\ SumOf(BalanceOf([accounts EXCEPT ![u] = x]), Writer) =
             SumOf(BalanceOf(accounts), Writer) + (x.balance - accounts[u].balance)
    BY <1>1, BalanceMoves
  <2> QED BY <1>1, <1>2, <2>1
<1>4. \A k \in DOMAIN options' : Secured(options'[k])
  BY DEF MarginInv, OneDiffers
<1>5. ASSUME NEW w \in Writer
      PROVE  /\ accounts'[w].locked = SumOf(Locked(options', w), Backing(options', w))
             /\ accounts'[w].locked <= accounts'[w].balance
  <2>1. /\ SumOf(Locked(options, w), Backing(options, w)) \in Nat
        /\ MarginPart(options, w, id) \in Nat /\ MarginPart(options', w, id) \in Nat
        /\ SumOf(Locked(options', w), Backing(options', w)) =
             SumOf(Locked(options, w), Backing(options, w))
               + (MarginPart(options', w, id) - MarginPart(options, w, id))
    BY <1>1, LockedMoves
  <2>2. /\ accounts[w].locked = SumOf(Locked(options, w), Backing(options, w))
        /\ accounts[w].locked <= accounts[w].balance
    BY DEF MarginInv
  <2>3. CASE w = u
    <3>1. accounts'[w] = x
      BY <1>1, <1>2, <2>3
    <3>2. MarginPart(options', w, id) = LockedIn(o)
      BY <2>3 DEF MarginPart, u
    <3>3. MarginPart(options, w, id) = IF id \in DOMAIN options THEN LockedIn(options[id]) ELSE 0
      BY <2>3 DEF MarginPart, u
    <3>4. x.locked = accounts[w].locked + (LockedIn(o) - MarginPart(options, w, id))
      BY <2>3, <3>3 DEF u
    <3> QED BY <2>1, <2>2, <3>1, <3>2, <3>4
  <2>4. CASE w # u
    <3>1. accounts'[w] = accounts[w]
      BY <1>1, <1>2, <2>4
    <3>2. MarginPart(options', w, id) = 0 /\ MarginPart(options, w, id) = 0
      BY <2>4 DEF MarginPart, u
    <3> QED BY <2>1, <2>2, <3>1, <3>2
  <2> QED BY <2>3, <2>4
<1> QED BY <1>3, <1>4, <1>5 DEF MarginInv

LEMMA WriterHas ==
  ASSUME OptionsAssumption, MarginInv, NEW w \in Writer
  PROVE  /\ accounts[w] \in Account /\ accounts[w].balance \in Nat /\ accounts[w].locked \in Nat
         /\ accounts[w].locked <= accounts[w].balance
         /\ Option!Unlocked(w) = accounts[w].balance - accounts[w].locked
         /\ held \in Int
<1>1. accounts[w] \in Account /\ accounts[w].locked <= accounts[w].balance
  BY DEF MarginInv
<1>2. accounts[w].balance \in Nat /\ accounts[w].locked \in Nat
  BY <1>1 DEF Account
<1>3. held \in Int
  <2>1. /\ held = SumOf(BalanceOf(accounts), Writer)
        /\ IsFiniteSet(Writer) /\ accounts \in [Writer -> Account]
    BY DEF MarginInv, OptionsAssumption
  <2>2. SumOf(BalanceOf(accounts), Writer) \in Nat
    BY <1>1, <2>1, BalanceMoves
  <2> QED BY <2>1, <2>2
<1> QED BY <1>1, <1>2, <1>3 DEF Option!Unlocked

\* An option locks no more than its writer has locked.
LEMMA LockedIncludes ==
  ASSUME MarginInv, NEW id \in DOMAIN options
  PROVE  /\ options[id] \in MarginOption /\ options[id].writer \in Writer /\ Secured(options[id])
         /\ LockedIn(options[id]) \in Nat
         /\ LockedIn(options[id]) <= accounts[options[id].writer].locked
<1> DEFINE w == options[id].writer
           S == Backing(options, w)
           f == Locked(options, w)
<1>1. options \in Seq(MarginOption) /\ options[id] \in MarginOption /\ Secured(options[id])
  BY DEF MarginInv
<1>2. w \in Writer /\ LockedIn(options[id]) \in Nat
  BY <1>1, OptionFields
<1>3. accounts[w].locked = SumOf(f, S)
  BY <1>2 DEF MarginInv
<1>4. IsFiniteSet(S) /\ \A k \in S : f[k] \in Nat
  <2>1. DOMAIN options = 1..Len(options) /\ Len(options) \in Nat
    BY <1>1
  <2>2. IsFiniteSet(DOMAIN options)
    BY <2>1, FS_Interval
  <2>3. S \subseteq DOMAIN options
    BY DEF Backing
  <2>4. \A k \in DOMAIN options : options[k] \in MarginOption
    BY <1>1
  <2>5. \A k \in S : f[k] = options[k].margin.locked /\ f[k] \in Nat
    BY <2>4, OptionFields DEF Locked, Backing
  <2> QED BY <2>2, <2>3, <2>5, FS_Subset
<1>5. LockedIn(options[id]) <= SumOf(f, S)
  <2>1. CASE options[id].margin = Option!None
    <3>1. SumOf(f, S) \in Nat
      BY <1>4, SumMonotone
    <3> QED BY <2>1, <3>1 DEF LockedIn
  <2>2. CASE options[id].margin # Option!None
    <3>1. id \in S /\ f[id] = LockedIn(options[id])
      BY <2>2 DEF Backing, Locked, LockedIn
    <3> HIDE DEF f, S
    <3>2. SumOf(f, S) = f[id] + SumOf(f, S \ {id})
      BY <1>4, <3>1, SumRemove
    <3>3. SumOf(f, S \ {id}) \in Nat
      BY <1>4, SumMonotone
    <3> QED BY <1>2, <3>1, <3>2, <3>3
  <2> QED BY <2>1, <2>2
<1> QED BY <1>1, <1>2, <1>3, <1>5

\* What becomes of an option.
FollowsFrom(o, p) ==
  /\ o.status \in {"Exercised", "Expired", "Cancelled"} => p = o
  /\ p.margin # Option!None => p.margin.locked <= o.margin.max

LEMMA OneEnds ==
  ASSUME MarginInv, NEW id,
         \A k \in DOMAIN options : k # id => options'[k] = options[k],
         id \in DOMAIN options => FollowsFrom(options[id], options'[id])
  PROVE  Option!EndsOnce
<1>1. \A k \in DOMAIN options : Secured(options[k])
  BY DEF MarginInv
<1> QED BY <1>1 DEF Secured, FollowsFrom, Option!EndsOnce

LEMMA OptionChanges ==
  ASSUME NEW s \in Seq(MarginOption), NEW id \in DOMAIN s, NEW o \in MarginOption
  PROVE  /\ [s EXCEPT ![id] = o] \in Seq(MarginOption) /\ [s EXCEPT ![id] = o][id] = o
         /\ id \in DOMAIN [s EXCEPT ![id] = o]
         /\ OneDiffers(s, [s EXCEPT ![id] = o], id)
<1> DEFINE r == [s EXCEPT ![id] = o]
<1>1. r \in Seq(MarginOption)
  OBVIOUS
<1>2. DOMAIN r = DOMAIN s /\ r[id] = o /\ \A k \in DOMAIN s : k # id => r[k] = s[k]
  OBVIOUS
<1> QED BY <1>1, <1>2 DEF OneDiffers

\* An option and its writer's account change together.
OptionMoves(id, o, x) ==
  /\ options' = [options EXCEPT ![id] = o]
  /\ o \in MarginOption /\ o.writer = options[id].writer
  /\ Secured(o) /\ FollowsFrom(options[id], o)
  /\ x \in Account /\ x.locked <= x.balance
  /\ x.locked = accounts[o.writer].locked + (LockedIn(o) - LockedIn(options[id]))
  /\ accounts' = [accounts EXCEPT ![o.writer] = x]
  /\ held' = held + (x.balance - accounts[o.writer].balance)
  /\ UNCHANGED <<config, price, now>>

LEMMA OptionMovesStep ==
  ASSUME OptionsAssumption, MarginInv, NEW id \in DOMAIN options, NEW o, NEW x,
         OptionMoves(id, o, x)
  PROVE  MarginInv' /\ Option!EndsOnce
<1>1. /\ options' = [options EXCEPT ![id] = o] /\ o \in MarginOption
      /\ o.writer = options[id].writer /\ Secured(o) /\ FollowsFrom(options[id], o)
  BY DEF OptionMoves
<1>2. options \in Seq(MarginOption)
  BY DEF MarginInv
<1>3. /\ options' \in Seq(MarginOption) /\ options'[id] = o /\ id \in DOMAIN options'
      /\ OneDiffers(options, options', id)
  BY <1>1, <1>2, OptionChanges
<1>4. x.locked = accounts[o.writer].locked
                   + (LockedIn(o) - (IF id \in DOMAIN options THEN LockedIn(options[id]) ELSE 0))
  BY DEF OptionMoves
<1>5. MarginInv'
  <2>1. /\ x \in Account /\ x.locked <= x.balance
        /\ accounts' = [accounts EXCEPT ![o.writer] = x]
        /\ held' = held + (x.balance - accounts[o.writer].balance)
        /\ UNCHANGED <<config, price, now>>
    BY DEF OptionMoves
  <2> QED BY <1>1, <1>3, <1>4, <2>1, MarginMoves
<1>6. Option!EndsOnce
  BY <1>1, <1>3, OneEnds DEF OneDiffers
<1> QED BY <1>5, <1>6

LEMMA RequiredFits ==
  ASSUME OptionsAssumption, MarginInv, Option!FreshPrice,
         NEW o, o.strike \in Nat, o.amount \in Nat, NEW n \in Nat
  PROVE  /\ Option!RequiredMargin(o, n) \in Nat /\ Option!RequiredMargin(o, n) <= n
         /\ Option!Intrinsic(o) \in Nat
<1>1. price # Option!None /\ config # Option!None
  BY DEF Option!FreshPrice
<1>2. price \in [value : Nat, at : Int] /\ config \in [margin : Nat]
  BY <1>1 DEF MarginInv
<1>3. price.value \in Nat /\ config.margin \in Nat /\ Scale \in Nat \ {0} /\ Bps \in Nat \ {0}
  BY <1>2 DEF OptionsAssumption
<1> DEFINE d == IF o.kind = "Call" THEN price.value - o.strike ELSE o.strike - price.value
           m == Option!Max({0, d})
<1>4. m \in Nat
  <2>1. d \in Int
    BY <1>3
  <2> HIDE DEF d
  <2>2. m = IF d > 0 THEN d ELSE 0
    BY <2>1, OptionMax
  <2> QED BY <2>1, <2>2
<1>5. Option!Intrinsic(o) = (m * o.amount) \div Scale
  BY DEF Option!Intrinsic
<1> HIDE DEF m, d
<1>6. Option!Intrinsic(o) \in Nat
  <2>1. m * o.amount \in Nat
    BY <1>4
  <2> QED BY <1>3, <1>5, <2>1, OneShare
<1> DEFINE q == ((price.value * o.amount) \div Scale) * config.margin
           z == q \div Bps
<1>7. z \in Nat
  <2>1. price.value * o.amount \in Nat
    BY <1>3
  <2>2. (price.value * o.amount) \div Scale \in Nat
    BY <1>3, <2>1, OneShare
  <2>3. q \in Nat
    BY <1>3, <2>2
  <2> HIDE DEF q
  <2> QED BY <1>3, <2>3, OneShare
<1>8. Option!RequiredMargin(o, n) = Option!Min({Option!Intrinsic(o) + z, n})
  BY DEF Option!RequiredMargin
<1> HIDE DEF q, z
<1> DEFINE s == Option!Intrinsic(o) + z
<1>9. s \in Nat
  BY <1>6, <1>7
<1>10. Option!RequiredMargin(o, n) = Option!Min({s, n})
  BY <1>8
<1> HIDE DEF s
<1>11. Option!Min({s, n}) \in {s, n} /\ Option!Min({s, n}) <= n
  <2>1. s \in Int /\ n \in Int
    BY <1>9
  <2> QED BY <2>1, OptionMin, Zenon
<1> QED BY <1>6, <1>9, <1>10, <1>11

\* A change of the account alone.
LEMMA AccountMoves ==
  ASSUME OptionsAssumption, MarginInv, NEW w \in Writer, NEW b \in Nat,
         accounts[w].locked <= b,
         accounts' = [accounts EXCEPT ![w].balance = b],
         held' = held + (b - accounts[w].balance),
         UNCHANGED <<config, price, options, now>>
  PROVE  MarginInv' /\ Option!EndsOnce
<1> DEFINE x == [accounts[w] EXCEPT !.balance = b]
<1>1. x \in Account /\ x.balance = b /\ x.locked = accounts[w].locked
  BY WriterHas DEF Account
<1>2. accounts' = [accounts EXCEPT ![w] = x]
  OBVIOUS
<1> HIDE DEF x
<1>3. /\ accounts \in [Writer -> Account] /\ IsFiniteSet(Writer)
      /\ held = SumOf(BalanceOf(accounts), Writer)
  BY DEF MarginInv, OptionsAssumption
<1>4. accounts' \in [Writer -> Account] /\ held' = SumOf(BalanceOf(accounts'), Writer)
  <2>1. /\ [accounts EXCEPT ![w] = x] \in [Writer -> Account]
        /\ accounts[w].balance \in Nat /\ SumOf(BalanceOf(accounts), Writer) \in Nat
        /\ SumOf(BalanceOf([accounts EXCEPT ![w] = x]), Writer) =
             SumOf(BalanceOf(accounts), Writer) + (x.balance - accounts[w].balance)
    BY <1>1, <1>3, BalanceMoves
  <2> QED BY <1>1, <1>2, <1>3, <2>1
<1>5. \A v \in Writer : accounts'[v].locked = accounts[v].locked
                        /\ accounts'[v].locked <= accounts'[v].balance
  <2>1. accounts'[w] = x /\ \A v \in Writer \ {w} : accounts'[v] = accounts[v]
    BY <1>2, <1>3
  <2> QED BY <1>1, <2>1, WriterHas
<1>6. options' = options
  OBVIOUS
<1>7. MarginInv'
  BY <1>4, <1>5, <1>6 DEF MarginInv
<1>8. Option!EndsOnce
  <2>1. \A k \in DOMAIN options : Secured(options[k])
    BY DEF MarginInv
  <2> QED BY <1>6, <2>1 DEF Secured, Option!EndsOnce
<1> QED BY <1>7, <1>8

LEMMA FlatMarginSteps ==
  ASSUME OptionsAssumption, MarginInv,
         \/ \E m \in Margin : Option!ConfigureMarginPool(m)
         \/ \E p \in Price : Option!UpdatePrice(p)
         \/ Option!Initialize \/ Option!Tick
         \/ \E p \in BOOLEAN : Option!SetPaused(p)
         \/ UNCHANGED Option!vars
  PROVE  MarginInv' /\ Option!EndsOnce
<1>1. /\ config' \in [margin : Nat] \cup {Option!None}
      /\ price' \in [value : Nat, at : Int] \cup {Option!None} /\ now' \in Int
  <2>1. config \in [margin : Nat] \cup {Option!None} /\ now \in Int
        /\ price \in [value : Nat, at : Int] \cup {Option!None}
    BY DEF MarginInv
  <2>2. CASE \E m \in Margin : Option!ConfigureMarginPool(m)
    <3>1. PICK m \in Margin : config' = [margin |-> m] /\ UNCHANGED <<price, now>>
      BY <2>2 DEF Option!ConfigureMarginPool
    <3>2. m \in Nat
      BY DEF OptionsAssumption
    <3>3. config' \in [margin : Nat]
      BY <3>1, <3>2
    <3> QED BY <2>1, <3>1, <3>3
  <2>3. CASE \E p \in Price : Option!UpdatePrice(p)
    <3>1. PICK p \in Price : price' = [value |-> p, at |-> now] /\ UNCHANGED <<config, now>>
      BY <2>3 DEF Option!UpdatePrice
    <3>2. p \in Nat
      BY DEF OptionsAssumption
    <3>3. price' \in [value : Nat, at : Int]
      BY <2>1, <3>1, <3>2
    <3> QED BY <2>1, <3>1, <3>3
  <2>4. CASE \/ Option!Initialize \/ Option!Tick
             \/ \E p \in BOOLEAN : Option!SetPaused(p)
             \/ UNCHANGED Option!vars
    BY <2>1, <2>4 DEF Option!Initialize, Option!Tick, Option!SetPaused, Option!vars
  <2> QED BY <2>2, <2>3, <2>4
<1>2. UNCHANGED <<options, accounts, held>>
  BY DEF Option!ConfigureMarginPool, Option!UpdatePrice, Option!Initialize, Option!Tick,
         Option!SetPaused, Option!vars
<1>3. MarginInv'
  BY <1>1, <1>2 DEF MarginInv
<1>4. Option!EndsOnce
  <2>1. \A k \in DOMAIN options : Secured(options[k])
    BY DEF MarginInv
  <2> QED BY <1>2, <2>1 DEF Secured, Option!EndsOnce
<1> QED BY <1>3, <1>4

LEMMA DepositMarginStep ==
  ASSUME OptionsAssumption, MarginInv, NEW w \in Writer, NEW n \in Deposit,
         Option!DepositMargin(w, n) \/ Option!WithdrawMargin(w, n)
  PROVE  MarginInv' /\ Option!EndsOnce
<1>1. /\ accounts[w].balance \in Nat /\ accounts[w].locked \in Nat
      /\ accounts[w].locked <= accounts[w].balance /\ held \in Int
      /\ Option!Unlocked(w) = accounts[w].balance - accounts[w].locked
  BY WriterHas
<1>2. n \in Nat
  BY DEF OptionsAssumption
<1>3. \E b \in Nat :
        /\ accounts[w].locked <= b
        /\ accounts' = [accounts EXCEPT ![w].balance = b]
        /\ held' = held + (b - accounts[w].balance)
  <2>1. CASE Option!DepositMargin(w, n)
    <3> DEFINE b == accounts[w].balance + n
    <3>1. b \in Nat /\ accounts[w].locked <= b /\ held + n = held + (b - accounts[w].balance)
      BY <1>1, <1>2
    <3> QED BY <2>1, <3>1 DEF Option!DepositMargin
  <2>2. CASE Option!WithdrawMargin(w, n)
    <3> DEFINE b == accounts[w].balance - n
    <3>1. n <= accounts[w].balance - accounts[w].locked
      BY <1>1, <2>2 DEF Option!WithdrawMargin
    <3>2. b \in Nat /\ accounts[w].locked <= b /\ held - n = held + (b - accounts[w].balance)
      BY <1>1, <1>2, <3>1
    <3> QED BY <2>2, <3>2 DEF Option!WithdrawMargin
  <2> QED BY <2>1, <2>2
<1>4. UNCHANGED <<config, price, options, now>>
  BY DEF Option!DepositMargin, Option!WithdrawMargin
<1> QED BY <1>3, <1>4, AccountMoves

\* A new option locks its margin in the account.
Arrives(o, x) ==
  /\ options' = Append(options, o)
  /\ x \in Account /\ x.locked <= x.balance
  /\ x.balance = accounts[o.writer].balance
  /\ x.locked = accounts[o.writer].locked + LockedIn(o)
  /\ accounts' = [accounts EXCEPT ![o.writer] = x]
  /\ UNCHANGED <<config, price, held, now>>

LEMMA ArrivesStep ==
  ASSUME OptionsAssumption, MarginInv, NEW o \in MarginOption, Secured(o), NEW x, Arrives(o, x)
  PROVE  MarginInv' /\ Option!EndsOnce
<1> DEFINE id == Len(options) + 1
<1>1. options \in Seq(MarginOption) /\ o.writer \in Writer /\ LockedIn(o) \in Nat
  BY OptionFields DEF MarginInv
<1>2. accounts[o.writer].balance \in Nat /\ accounts[o.writer].locked \in Nat /\ held \in Int
  BY <1>1, WriterHas
<1>3. /\ options' \in Seq(MarginOption) /\ options'[id] = o
      /\ id \notin DOMAIN options /\ id \in DOMAIN options'
      /\ OneDiffers(options, options', id)
      /\ \A k \in DOMAIN options : options'[k] = options[k]
  <2>1. options' = Append(options, o)
    BY DEF Arrives
  <2> QED BY <1>1, <2>1, AddedRecord
<1> HIDE DEF id
<1>4. /\ x \in Account /\ x.locked <= x.balance /\ x.balance = accounts[o.writer].balance
      /\ x.locked = accounts[o.writer].locked + LockedIn(o)
      /\ accounts' = [accounts EXCEPT ![o.writer] = x]
      /\ UNCHANGED <<config, price, held, now>>
  BY DEF Arrives
<1>5. held' = held + (x.balance - accounts[o.writer].balance)
  BY <1>2, <1>4
<1>6. x.locked = accounts[o.writer].locked
                   + (LockedIn(o) - (IF id \in DOMAIN options THEN LockedIn(options[id]) ELSE 0))
  BY <1>1, <1>3, <1>4
<1>7. MarginInv'
  BY <1>3, <1>4, <1>5, <1>6, MarginMoves
<1>8. Option!EndsOnce
  BY <1>3, OneEnds
<1> QED BY <1>7, <1>8

Holding(a, l, b) == [a EXCEPT !.locked = l, !.balance = b]

LEMMA HoldingTyped ==
  ASSUME NEW a \in Account, NEW l \in Nat, NEW b \in Nat
  PROVE  /\ Holding(a, l, b) \in Account
         /\ Holding(a, l, b).locked = l /\ Holding(a, l, b).balance = b
  BY DEF Account, Holding

LEMMA OnlyLocked ==
  ASSUME NEW a \in Account, NEW l \in Nat
  PROVE  [a EXCEPT !.locked = l] = Holding(a, l, a.balance)
  BY DEF Account, Holding

\* The option a call writes.
LEMMA WrittenTyped ==
  ASSUME OptionsAssumption, NEW w \in Writer, NEW kind \in Option!OptionKind,
         NEW strike \in Price, NEW n \in Amount, NEW e \in 1..MaxTime,
         NEW m \in LockedMargin \cup {Option!None}
  PROVE  /\ [Option!Written(w, kind, strike, n, e, Option!None) EXCEPT !.margin = m]
              = Option!Written(w, kind, strike, n, e, m)
         /\ Option!Written(w, kind, strike, n, e, m) \in MarginOption
         /\ Option!Written(w, kind, strike, n, e, m).writer = w
         /\ Option!Written(w, kind, strike, n, e, m).margin = m
         /\ Option!Written(w, kind, strike, n, e, m).status = "Active"
         /\ Option!Written(w, kind, strike, n, e, m).strike \in Nat
         /\ Option!Written(w, kind, strike, n, e, m).amount \in Nat
<1>1. strike \in Nat /\ n \in Nat /\ e \in Int /\ "Active" \in Option!OptionStatus
  BY DEF OptionsAssumption, Option!OptionStatus
<1>2. Option!Written(w, kind, strike, n, e, m) \in MarginOption
  BY <1>1 DEF Option!Written, MarginOption
<1>3. [Option!Written(w, kind, strike, n, e, Option!None) EXCEPT !.margin = m]
        = Option!Written(w, kind, strike, n, e, m)
  BY DEF Option!Written
<1> QED BY <1>1, <1>2, <1>3 DEF Option!Written

LEMMA WriteOptionStep ==
  ASSUME OptionsAssumption, MarginInv, NEW w \in Writer, NEW kind \in Option!OptionKind,
         NEW strike \in Price, NEW n \in Amount, NEW e \in 1..MaxTime,
         Option!WriteOption(w, kind, strike, n, e)
  PROVE  MarginInv' /\ Option!EndsOnce
<1> DEFINE o == Option!Written(w, kind, strike, n, e, Option!None)
<1>1. o \in MarginOption /\ o.writer = w /\ o.margin = Option!None /\ o.status = "Active"
  BY WrittenTyped
<1>2. options' = Append(options, o) /\ UNCHANGED <<config, price, accounts, held, now>>
  BY DEF Option!WriteOption
<1> HIDE DEF o
<1>3. Secured(o) /\ LockedIn(o) = 0
  BY <1>1 DEF Secured, LockedIn
<1>4. /\ accounts[w] \in Account /\ accounts[w].locked <= accounts[w].balance
      /\ accounts[w].locked + 0 = accounts[w].locked
  BY WriterHas
<1>5. accounts = [accounts EXCEPT ![w] = accounts[w]]
  <2>1. accounts \in [Writer -> Account]
    BY DEF MarginInv
  <2> QED BY <2>1
<1>6. Arrives(o, accounts[w])
  BY <1>1, <1>2, <1>3, <1>4, <1>5 DEF Arrives
<1> QED BY <1>1, <1>3, <1>6, ArrivesStep

LEMMA WriteCollateralizedStep ==
  ASSUME OptionsAssumption, MarginInv, NEW w \in Writer, NEW kind \in Option!OptionKind,
         NEW strike \in Price, NEW n \in Amount, NEW e \in 1..MaxTime, NEW most \in Payout,
         Option!WriteCollateralizedOption(w, kind, strike, n, e, most)
  PROVE  MarginInv' /\ Option!EndsOnce
<1> DEFINE blank == Option!Written(w, kind, strike, n, e, Option!None)
           r == Option!RequiredMargin(blank, most)
           m == [locked |-> r, max |-> most]
           o == Option!Written(w, kind, strike, n, e, m)
           x == Holding(accounts[w], accounts[w].locked + r, accounts[w].balance)
<1>1. /\ Option!FreshPrice /\ Option!Unlocked(w) >= r
      /\ options' = Append(options, [blank EXCEPT !.margin = m])
      /\ accounts' = [accounts EXCEPT ![w] =
                        [accounts[w] EXCEPT !.locked = accounts[w].locked + r]]
      /\ UNCHANGED <<config, price, held, now>>
  BY DEF Option!WriteCollateralizedOption
<1>2. most \in Nat
  BY DEF OptionsAssumption
<1>3. blank.strike \in Nat /\ blank.amount \in Nat
  BY WrittenTyped
<1> HIDE DEF blank
<1>4. r \in Nat /\ r <= most
  BY <1>1, <1>2, <1>3, RequiredFits
<1> HIDE DEF r
<1>5. m \in LockedMargin /\ m # Option!None /\ m.locked = r /\ m.max = most
  BY <1>2, <1>4, MarginIsSome DEF LockedMargin
<1> HIDE DEF m
<1>6. /\ [blank EXCEPT !.margin = m] = o
      /\ o \in MarginOption /\ o.writer = w /\ o.margin = m /\ o.status = "Active"
  BY <1>5, WrittenTyped DEF blank
<1> HIDE DEF o
<1>7. Secured(o) /\ LockedIn(o) = r
  BY <1>4, <1>5, <1>6 DEF Secured, LockedIn
<1>8. /\ accounts[w] \in Account /\ accounts[w].balance \in Nat /\ accounts[w].locked \in Nat
      /\ Option!Unlocked(w) = accounts[w].balance - accounts[w].locked
  BY WriterHas
<1>9. accounts[w].locked + r \in Nat /\ accounts[w].locked + r <= accounts[w].balance
  BY <1>1, <1>4, <1>8
<1> DEFINE c == accounts[w]
           l == c.locked + r
<1>10. /\ x \in Account /\ x.balance = accounts[w].balance
       /\ x.locked = accounts[w].locked + r
       /\ [accounts[w] EXCEPT !.locked = accounts[w].locked + r] = x
  <2>1. c \in Account /\ l \in Nat /\ c.balance \in Nat
    BY <1>8, <1>9
  <2>2. x = Holding(c, l, c.balance)
    OBVIOUS
  <2> HIDE DEF c, l, x
  <2>3. x \in Account /\ x.balance = c.balance /\ x.locked = l
    BY <2>1, <2>2, HoldingTyped
  <2>4. [c EXCEPT !.locked = l] = x
    BY <2>1, <2>2, OnlyLocked
  <2> QED BY <2>3, <2>4 DEF c, l
<1> HIDE DEF x
<1>11. Arrives(o, x)
  BY <1>1, <1>6, <1>7, <1>9, <1>10 DEF Arrives
<1> QED BY <1>6, <1>7, <1>11, ArrivesStep

\* An option with another status and margin.
Turned(o, s, m) == [o EXCEPT !.status = s, !.margin = m]

LEMMA TurnedTyped ==
  ASSUME NEW o \in MarginOption, NEW s \in Option!OptionStatus,
         NEW m \in LockedMargin \cup {Option!None}
  PROVE  /\ Turned(o, s, m) \in MarginOption /\ Turned(o, s, m).writer = o.writer
         /\ Turned(o, s, m).margin = m /\ Turned(o, s, m).status = s
  BY DEF MarginOption, Turned

LEMMA OnlyStatus ==
  ASSUME NEW o \in MarginOption, NEW s \in Option!OptionStatus
  PROVE  [o EXCEPT !.status = s] = Turned(o, s, o.margin)
  BY DEF MarginOption, Turned

\* An option changes its status only.
StatusOnly(id, s) ==
  /\ options[id].status \in {"Active", "MarginCalled"}
  /\ options[id].margin = Option!None \/ s \in {"Active", "MarginCalled"}
  /\ options' = [options EXCEPT ![id] = [options[id] EXCEPT !.status = s]]
  /\ UNCHANGED <<config, price, accounts, held, now>>

LEMMA OptionStatusStep ==
  ASSUME OptionsAssumption, MarginInv, NEW id \in DOMAIN options,
         NEW s \in Option!OptionStatus, StatusOnly(id, s)
  PROVE  MarginInv' /\ Option!EndsOnce
<1> DEFINE a == options[id]
           o == Turned(a, s, a.margin)
           w == a.writer
<1>1. /\ a \in MarginOption /\ w \in Writer /\ Secured(a) /\ LockedIn(a) \in Nat
      /\ a.margin \in LockedMargin \cup {Option!None}
  <2>1. a \in MarginOption /\ w \in Writer /\ Secured(a) /\ LockedIn(a) \in Nat
    BY LockedIncludes
  <2> QED BY <2>1, OptionFields
<1>2. /\ a.status \in {"Active", "MarginCalled"}
      /\ a.margin = Option!None \/ s \in {"Active", "MarginCalled"}
      /\ options' = [options EXCEPT ![id] = [a EXCEPT !.status = s]]
      /\ UNCHANGED <<config, price, accounts, held, now>>
  BY DEF StatusOnly
<1>3. /\ o \in MarginOption /\ o.writer = w /\ o.margin = a.margin /\ o.status = s
      /\ [a EXCEPT !.status = s] = o
  <2>1. o = Turned(a, s, a.margin)
    OBVIOUS
  <2> HIDE DEF a, o
  <2>2. /\ o \in MarginOption /\ o.writer = a.writer /\ o.margin = a.margin /\ o.status = s
    BY <1>1, <2>1, TurnedTyped
  <2>3. [a EXCEPT !.status = s] = o
    BY <1>1, <2>1, OnlyStatus
  <2> QED BY <2>2, <2>3
<1> HIDE DEF o
<1>4. Secured(o) /\ FollowsFrom(a, o) /\ LockedIn(o) = LockedIn(a)
  BY <1>1, <1>2, <1>3 DEF Secured, FollowsFrom, LockedIn
<1>5. /\ accounts[w] \in Account /\ accounts[w].balance \in Nat /\ accounts[w].locked \in Nat
      /\ accounts[w].locked <= accounts[w].balance /\ held \in Int
  BY <1>1, WriterHas
<1>6. accounts = [accounts EXCEPT ![w] = accounts[w]]
  <2>1. accounts \in [Writer -> Account]
    BY DEF MarginInv
  <2> QED BY <1>1, <2>1
<1>7. /\ accounts[w].locked = accounts[w].locked + (LockedIn(o) - LockedIn(a))
      /\ held = held + (accounts[w].balance - accounts[w].balance)
  BY <1>1, <1>4, <1>5
<1>8. OptionMoves(id, o, accounts[w])
  BY <1>2, <1>3, <1>4, <1>5, <1>6, <1>7 DEF OptionMoves
<1> QED BY <1>8, OptionMovesStep

LEMMA EndedStep ==
  ASSUME OptionsAssumption, MarginInv, NEW id \in DOMAIN options,
         \/ Option!CancelOption(id) \/ Option!Exercise(id) \/ Option!ExpireOption(id)
  PROVE  MarginInv' /\ Option!EndsOnce
<1>1. PICK s \in {"Cancelled", "Exercised", "Expired"} : Option!Ended(id, s)
  BY DEF Option!CancelOption, Option!Exercise, Option!ExpireOption
<1>2. s \in Option!OptionStatus
  BY DEF Option!OptionStatus
<1>3. StatusOnly(id, s)
  BY <1>1 DEF Option!Ended, StatusOnly
<1> QED BY <1>2, <1>3, OptionStatusStep

\* The margin of a cancelled or settled option is unlocked, and k of it paid.
Released(id, s, k) ==
  /\ options[id].margin # Option!None /\ options[id].status \in {"Active", "MarginCalled"}
  /\ k <= LockedIn(options[id])
  /\ options' = [options EXCEPT ![id] = Turned(options[id], s, Option!None)]
  /\ accounts' = [accounts EXCEPT ![options[id].writer] =
                    Holding(accounts[options[id].writer],
                            accounts[options[id].writer].locked - LockedIn(options[id]),
                            accounts[options[id].writer].balance - k)]
  /\ held' = held - k
  /\ UNCHANGED <<config, price, now>>

LEMMA MarginReleaseStep ==
  ASSUME OptionsAssumption, MarginInv, NEW id \in DOMAIN options,
         NEW s \in Option!OptionStatus, NEW k \in Nat, Released(id, s, k)
  PROVE  MarginInv' /\ Option!EndsOnce
<1> DEFINE a == options[id]
           o == Turned(a, s, Option!None)
           w == a.writer
           c == accounts[w]
           x == Holding(c, c.locked - LockedIn(a), c.balance - k)
<1>1. /\ a \in MarginOption /\ w \in Writer /\ LockedIn(a) \in Nat /\ LockedIn(a) <= c.locked
  BY LockedIncludes
<1>2. /\ o \in MarginOption /\ o.writer = w /\ o.margin = Option!None /\ o.status = s
  <2>1. Option!None \in LockedMargin \cup {Option!None}
    OBVIOUS
  <2>2. o = Turned(a, s, Option!None)
    OBVIOUS
  <2> HIDE DEF a, o
  <2> QED BY <1>1, <2>1, <2>2, TurnedTyped
<1>3. /\ options' = [options EXCEPT ![id] = o] /\ accounts' = [accounts EXCEPT ![w] = x]
      /\ held' = held - k /\ UNCHANGED <<config, price, now>>
      /\ a.status \in {"Active", "MarginCalled"} /\ k <= LockedIn(a)
  BY DEF Released
<1>4. c \in Account /\ c.balance \in Nat /\ c.locked \in Nat /\ c.locked <= c.balance /\ held \in Int
  BY <1>1, WriterHas
<1>5. /\ c.locked - LockedIn(a) \in Nat /\ c.balance - k \in Nat
      /\ c.locked - LockedIn(a) <= c.balance - k
  BY <1>1, <1>3, <1>4
<1>6. x \in Account /\ x.balance = c.balance - k /\ x.locked = c.locked - LockedIn(a)
  <2> DEFINE l == c.locked - LockedIn(a)
             b == c.balance - k
  <2>1. c \in Account /\ l \in Nat /\ b \in Nat /\ x = Holding(c, l, b)
    BY <1>4, <1>5
  <2> HIDE DEF c, l, b, x
  <2>2. /\ Holding(c, l, b) \in Account
        /\ Holding(c, l, b).locked = l /\ Holding(c, l, b).balance = b
    BY <2>1 DEF Holding, Account
  <2>3. x \in Account /\ x.balance = b /\ x.locked = l
    BY <2>1, <2>2
  <2> QED BY <2>3 DEF l, b
<1> HIDE DEF o, x
<1>7. Secured(o) /\ FollowsFrom(a, o) /\ LockedIn(o) = 0
  BY <1>2, <1>3 DEF Secured, FollowsFrom, LockedIn
<1>8. x.locked = c.locked + (0 - LockedIn(a)) /\ held - k = held + (x.balance - c.balance)
  BY <1>1, <1>4, <1>6
<1>9. OptionMoves(id, o, x)
  BY <1>2, <1>3, <1>5, <1>6, <1>7, <1>8 DEF OptionMoves
<1> QED BY <1>9, OptionMovesStep

LEMMA CancelCollateralizedStep ==
  ASSUME OptionsAssumption, MarginInv, NEW id \in DOMAIN options,
         Option!CancelCollateralizedOption(id)
  PROVE  MarginInv' /\ Option!EndsOnce
<1> DEFINE a == options[id]
           c == accounts[a.writer]
<1>1. /\ a.status = "Active" /\ a.margin # Option!None
      /\ accounts' = [accounts EXCEPT ![a.writer] =
                        [c EXCEPT !.locked = c.locked - a.margin.locked]]
      /\ options' = [options EXCEPT ![id] =
                       [a EXCEPT !.status = "Cancelled", !.margin = Option!None]]
      /\ UNCHANGED <<config, price, held, now>>
  BY DEF Option!CancelCollateralizedOption
<1>2. /\ a.writer \in Writer /\ LockedIn(a) \in Nat /\ LockedIn(a) <= c.locked
      /\ LockedIn(a) = a.margin.locked
  BY <1>1, LockedIncludes DEF LockedIn
<1>3. c \in Account /\ c.balance \in Nat /\ c.locked \in Nat /\ held \in Int
  BY <1>2, WriterHas
<1> DEFINE l == c.locked - LockedIn(a)
<1>4. l \in Nat
  BY <1>2, <1>3
<1> HIDE DEF c
<1>5. [c EXCEPT !.locked = l] = Holding(c, l, c.balance) /\ c.balance - 0 = c.balance
  <2> HIDE DEF l
  <2> QED BY <1>3, <1>4, OnlyLocked
<1>6. accounts' = [accounts EXCEPT ![a.writer] = Holding(c, l, c.balance - 0)]
  BY <1>1, <1>2, <1>5
<1>7. /\ held' = held - 0 /\ 0 \in Nat /\ 0 <= LockedIn(a) /\ "Cancelled" \in Option!OptionStatus
      /\ options' = [options EXCEPT ![id] = Turned(a, "Cancelled", Option!None)]
  BY <1>1, <1>2, <1>3 DEF Option!OptionStatus, Turned
<1>8. Released(id, "Cancelled", 0)
  BY <1>1, <1>6, <1>7 DEF Released, c
<1> QED BY <1>7, <1>8, MarginReleaseStep

LEMMA SettleOptionStep ==
  ASSUME OptionsAssumption, MarginInv, NEW id \in DOMAIN options, Option!SettleOption(id)
  PROVE  MarginInv' /\ Option!EndsOnce
<1> DEFINE a == options[id]
           c == accounts[a.writer]
           k == Option!Min({Option!Intrinsic(a), a.margin.max})
           s == IF k > 0 THEN "Exercised" ELSE "Expired"
<1>1. /\ a.status \in {"Active", "MarginCalled"} /\ Option!FreshPrice
      /\ a.margin # Option!None /\ k <= a.margin.locked
      /\ accounts' = [accounts EXCEPT ![a.writer] =
                        [c EXCEPT !.locked = c.locked - a.margin.locked,
                                  !.balance = c.balance - k]]
      /\ options' = [options EXCEPT ![id] = [a EXCEPT !.margin = Option!None, !.status = s]]
      /\ held' = held - k /\ UNCHANGED <<config, price, now>>
  BY DEF Option!SettleOption
<1>2. /\ a \in MarginOption /\ LockedIn(a) \in Nat /\ LockedIn(a) = a.margin.locked
  BY <1>1, LockedIncludes DEF LockedIn
<1>3. a.strike \in Nat /\ a.amount \in Nat /\ a.margin.max \in Nat
  BY <1>1, <1>2, OptionFields
<1>4. k \in Nat
  <2>1. Option!Intrinsic(a) \in Nat
    BY <1>1, <1>3, RequiredFits
  <2> DEFINE i == Option!Intrinsic(a)
             j == a.margin.max
  <2>2. i \in Int /\ j \in Int /\ i \in Nat /\ j \in Nat
    BY <1>3, <2>1
  <2> HIDE DEF i, j
  <2>3. Option!Min({i, j}) \in {i, j}
    BY <2>2, OptionMin, Zenon
  <2> QED BY <2>2, <2>3 DEF i, j
<1> HIDE DEF k
<1>5. s \in Option!OptionStatus /\ k <= LockedIn(a)
  BY <1>1, <1>2 DEF Option!OptionStatus
<1> HIDE DEF s
<1>6. [a EXCEPT !.margin = Option!None, !.status = s] = Turned(a, s, Option!None)
  BY DEF Turned
<1>7. accounts' = [accounts EXCEPT ![a.writer] =
                     Holding(c, c.locked - LockedIn(a), c.balance - k)]
  BY <1>1, <1>2 DEF Holding
<1>8. Released(id, s, k)
  BY <1>1, <1>5, <1>6, <1>7 DEF Released
<1> QED BY <1>4, <1>5, <1>8, MarginReleaseStep

\* The margin of an option follows the price.
LEMMA AdjustStep ==
  ASSUME OptionsAssumption, MarginInv, NEW id \in DOMAIN options, NEW r \in Nat,
         options[id].margin # Option!None, options[id].status \in {"Active", "MarginCalled"},
         r <= options[id].margin.max,
         r - options[id].margin.locked <= Option!Unlocked(options[id].writer),
         options' = [options EXCEPT ![id].status = "Active", ![id].margin.locked = r],
         accounts' = [accounts EXCEPT ![options[id].writer].locked =
                        accounts[options[id].writer].locked + (r - options[id].margin.locked)],
         UNCHANGED <<config, price, held, now>>
  PROVE  MarginInv' /\ Option!EndsOnce
<1> DEFINE a == options[id]
           m == [locked |-> r, max |-> a.margin.max]
           o == Turned(a, "Active", m)
           w == a.writer
           c == accounts[w]
           l == c.locked + (r - a.margin.locked)
           x == Holding(c, l, c.balance)
<1>1. /\ a \in MarginOption /\ w \in Writer /\ LockedIn(a) \in Nat /\ LockedIn(a) <= c.locked
      /\ LockedIn(a) = a.margin.locked
  BY LockedIncludes DEF LockedIn
<1>2. a.margin \in LockedMargin /\ a.margin.max \in Nat
  BY <1>1, OptionFields
<1>3. /\ c \in Account /\ c.balance \in Nat /\ c.locked \in Nat /\ held \in Int
      /\ Option!Unlocked(w) = c.balance - c.locked
  BY <1>1, WriterHas
<1>4. l \in Nat /\ l <= c.balance
  BY <1>1, <1>3
<1>5. m \in LockedMargin /\ m # Option!None /\ m.locked = r
  <2>1. m \in LockedMargin /\ m.locked = r
    BY <1>2 DEF LockedMargin
  <2> HIDE DEF m
  <2> QED BY <2>1, MarginIsSome
<1>6. options' = [options EXCEPT ![id] = o]
  <2>1. [a EXCEPT !.status = "Active", !.margin.locked = r]
          = [a EXCEPT !.status = "Active", !.margin = m]
    <3>1. [a.margin EXCEPT !.locked = r] = m
      BY <1>2 DEF LockedMargin
    <3> QED BY <1>1, <3>1 DEF MarginOption
  <2> QED BY <2>1 DEF Turned
<1>7. accounts' = [accounts EXCEPT ![w] = x]
  <2>1. [c EXCEPT !.locked = l] = x
    BY <1>3 DEF Holding, Account
  <2> QED BY <2>1
<1>8. a.status \in {"Active", "MarginCalled"} /\ UNCHANGED <<config, price, held, now>>
      /\ r <= a.margin.max
  OBVIOUS
<1>9. x \in Account /\ x.balance = c.balance /\ x.locked = l
  <2> HIDE DEF c, l
  <2> QED BY <1>3, <1>4 DEF Holding, Account
<1>10. o \in MarginOption /\ o.writer = w /\ o.margin = m /\ o.status = "Active"
  <2>1. "Active" \in Option!OptionStatus
    BY DEF Option!OptionStatus
  <2> HIDE DEF a, m
  <2> QED BY <1>1, <1>5, <2>1 DEF Turned, MarginOption
<1> HIDE DEF x, o, l, m
<1>11. Secured(o) /\ FollowsFrom(a, o) /\ LockedIn(o) = r
  BY <1>5, <1>8, <1>10, <1>9 DEF Secured, FollowsFrom, LockedIn, m
<1>12. /\ x.locked = c.locked + (LockedIn(o) - LockedIn(a))
       /\ held = held + (x.balance - c.balance)
  BY <1>1, <1>3, <1>9, <1>11 DEF l
<1>13. OptionMoves(id, o, x)
  BY <1>4, <1>6, <1>7, <1>8, <1>9, <1>10, <1>11, <1>12 DEF OptionMoves
<1> QED BY <1>13, OptionMovesStep

LEMMA CheckMarginStep ==
  ASSUME OptionsAssumption, MarginInv, NEW id \in DOMAIN options, Option!CheckMargin(id)
  PROVE  MarginInv' /\ Option!EndsOnce
<1> DEFINE a == options[id]
           r == Option!RequiredMargin(a, a.margin.max)
<1>1. /\ a.status \in {"Active", "MarginCalled"} /\ Option!FreshPrice /\ a.margin # Option!None
      /\ UNCHANGED <<config, price, held, now>>
  BY DEF Option!CheckMargin
<1>2. a \in MarginOption /\ a.writer \in Writer /\ LockedIn(a) = a.margin.locked
  BY <1>1, LockedIncludes DEF LockedIn
<1>3. a.strike \in Nat /\ a.amount \in Nat /\ a.margin.max \in Nat /\ a.margin.locked \in Nat
  BY <1>1, <1>2, OptionFields
<1>4. r \in Nat /\ r <= a.margin.max
  BY <1>1, <1>3, RequiredFits
<1>5. CASE r - a.margin.locked > Option!Unlocked(a.writer)
  <2>1. options' = [options EXCEPT ![id].status = "MarginCalled"] /\ UNCHANGED accounts
    BY <1>5 DEF Option!CheckMargin
  <2>2. "MarginCalled" \in Option!OptionStatus
    BY DEF Option!OptionStatus
  <2>3. StatusOnly(id, "MarginCalled")
    BY <1>1, <2>1 DEF StatusOnly
  <2> QED BY <2>2, <2>3, OptionStatusStep
<1>6. CASE ~(r - a.margin.locked > Option!Unlocked(a.writer))
  <2>1. /\ options' = [options EXCEPT ![id].status = "Active", ![id].margin.locked = r]
        /\ accounts' = [accounts EXCEPT ![a.writer].locked =
                          accounts[a.writer].locked + (r - a.margin.locked)]
    BY <1>6 DEF Option!CheckMargin
  <2>2. r - a.margin.locked <= Option!Unlocked(a.writer)
    <3>1. Option!Unlocked(a.writer) \in Int
      BY <1>2, WriterHas
    <3> QED BY <1>3, <1>4, <1>6, <3>1
  <2> HIDE DEF r
  <2> QED BY <1>1, <1>4, <2>1, <2>2, AdjustStep
<1> QED BY <1>5, <1>6

-----------------------------------------------------------------------------
(* Options for cash *)

CashOption ==
  [writer : Writer, kind : Option!OptionKind, strike : Nat, amount : Nat, expiry : Int,
   status : Option!OptionStatus, margin : {Option!None}, premium : Nat,
   holder : Writer \cup {Option!None}]

\* The options that are sold, and their premiums.
SoldOptions(s) == {id \in DOMAIN s : s[id].holder # Option!None}
SoldPremiums(s) == [id \in SoldOptions(s) |-> s[id].premium]

\* The balances exceed what is held by no more than the premiums of what is sold.
CashInv ==
  /\ options \in Seq(CashOption) /\ accounts \in [Writer -> Account]
  /\ \A w \in Writer : accounts[w].locked = 0
  /\ held \in Nat
  /\ SumOf(BalanceOf(accounts), Writer) - held
       \in 0..SumOf(SoldPremiums(options), SoldOptions(options))

\* The part of one option in the premiums.
SoldPart(s, id) ==
  IF id \in DOMAIN s /\ s[id].holder # Option!None THEN s[id].premium ELSE 0

LEMMA PremiumsMove ==
  ASSUME NEW s \in Seq(CashOption), NEW r \in Seq(CashOption), NEW id, OneDiffers(s, r, id)
  PROVE  /\ SumOf(SoldPremiums(s), SoldOptions(s)) \in Nat
         /\ SoldPart(s, id) \in Nat /\ SoldPart(r, id) \in Nat
         /\ SumOf(SoldPremiums(r), SoldOptions(r)) =
              SumOf(SoldPremiums(s), SoldOptions(s)) + (SoldPart(r, id) - SoldPart(s, id))
<1>1. ASSUME NEW q \in Seq(CashOption)
      PROVE  /\ IsFiniteSet(SoldOptions(q))
             /\ \A k \in SoldOptions(q) : SoldPremiums(q)[k] \in Nat
             /\ \A k : PartOf(SoldPremiums(q), SoldOptions(q), k) = SoldPart(q, k)
             /\ \A k : SoldPart(q, k) \in Nat
  <2>1. \A k \in DOMAIN q : q[k].premium \in Nat
    <3>1. \A k \in DOMAIN q : q[k] \in CashOption
      OBVIOUS
    <3> QED BY <3>1 DEF CashOption
  <2>2. IsFiniteSet(SoldOptions(q))
    <3>1. DOMAIN q = 1..Len(q) /\ Len(q) \in Nat
      OBVIOUS
    <3>2. IsFiniteSet(DOMAIN q)
      BY <3>1, FS_Interval
    <3>3. SoldOptions(q) \subseteq DOMAIN q
      BY DEF SoldOptions
    <3> QED BY <3>2, <3>3, FS_Subset
  <2>3. \A k \in SoldOptions(q) : SoldPremiums(q)[k] = q[k].premium /\ SoldPremiums(q)[k] \in Nat
    BY <2>1 DEF SoldPremiums, SoldOptions
  <2>4. \A k : SoldPart(q, k) \in Nat
    BY <2>1 DEF SoldPart
  <2>5. \A k : PartOf(SoldPremiums(q), SoldOptions(q), k) = SoldPart(q, k)
    BY <2>3 DEF PartOf, SoldPart, SoldOptions
  <2> QED BY <2>2, <2>3, <2>4, <2>5
<1>2. \A k : k # id => (k \in SoldOptions(s) <=> k \in SoldOptions(r))
  BY DEF SoldOptions, OneDiffers
<1>3. \A k \in SoldOptions(s) : k # id => SoldPremiums(r)[k] = SoldPremiums(s)[k]
  BY <1>2 DEF SoldPremiums, SoldOptions, OneDiffers
<1>4. Moves(SoldPremiums(s), SoldPremiums(r), SoldOptions(s), SoldOptions(r), id)
  BY <1>1, <1>2, <1>3 DEF Moves
<1>5. SumOf(SoldPremiums(s), SoldOptions(s)) \in Nat
  BY <1>1, SumMonotone
<1> QED BY <1>1, <1>4, <1>5, SumMoves

\* A call changes one option, one balance and what is held: by as much as the
\* balance, by what the premium leaves out, or down to nothing.
CashMoves(id, w, b) ==
  /\ options' \in Seq(CashOption) /\ OneDiffers(options, options', id)
  /\ w \in Writer /\ b \in Nat /\ held' \in Nat
  /\ accounts' = [accounts EXCEPT ![w] = [balance |-> b, locked |-> 0]]
  /\ id \in DOMAIN options =>
       /\ id \in DOMAIN options'
       /\ options[id].status \in {"Exercised", "Expired", "Cancelled"} =>
            options'[id] = options[id]
  /\ SoldPart(options', id) >= SoldPart(options, id)
  /\ \/ held' - held = b - accounts[w].balance
     \/ /\ held' = held
        /\ b - accounts[w].balance = SoldPart(options', id) - SoldPart(options, id)
     \/ held' = 0 /\ held <= accounts[w].balance - b

LEMMA CashMovesStep ==
  ASSUME OptionsAssumption, CashInv, NEW id, NEW w, NEW b, CashMoves(id, w, b)
  PROVE  CashInv' /\ Option!EndsOnce
<1> DEFINE x == [balance |-> b, locked |-> 0]
           B == SumOf(BalanceOf(accounts), Writer)
           P == SumOf(SoldPremiums(options), SoldOptions(options))
           C == SumOf(BalanceOf(accounts'), Writer)
           Q == SumOf(SoldPremiums(options'), SoldOptions(options'))
           p == SoldPart(options, id)
           q == SoldPart(options', id)
           y == accounts[w].balance
<1>1. /\ options \in Seq(CashOption) /\ options' \in Seq(CashOption)
      /\ OneDiffers(options, options', id)
      /\ w \in Writer /\ b \in Nat /\ held \in Nat /\ held' \in Nat
      /\ accounts \in [Writer -> Account] /\ accounts' = [accounts EXCEPT ![w] = x]
      /\ IsFiniteSet(Writer) /\ B - held \in 0..P
  BY DEF CashMoves, CashInv, OptionsAssumption
<1>2. x \in Account /\ x.balance = b /\ x.locked = 0
  BY <1>1 DEF Account
<1>3. /\ accounts' \in [Writer -> Account] /\ y \in Nat /\ B \in Nat /\ y <= B
      /\ C = B + (b - y)
  <2>1. /\ [accounts EXCEPT ![w] = x] \in [Writer -> Account]
        /\ accounts[w].balance \in Nat /\ SumOf(BalanceOf(accounts), Writer) \in Nat
        /\ accounts[w].balance <= SumOf(BalanceOf(accounts), Writer)
        /\ SumOf(BalanceOf([accounts EXCEPT ![w] = x]), Writer) =
             SumOf(BalanceOf(accounts), Writer) + (x.balance - accounts[w].balance)
    <3> HIDE DEF x
    <3> QED BY <1>1, <1>2, BalanceMoves
  <2> QED BY <1>1, <1>2, <2>1
<1>4. P \in Nat /\ p \in Nat /\ q \in Nat /\ Q = P + (q - p)
  BY <1>1, PremiumsMove
<1>5. /\ q >= p
      /\ \/ held' - held = b - y
         \/ held' = held /\ b - y = q - p
         \/ held' = 0 /\ held <= y - b
  BY DEF CashMoves
<1>6. C - held' \in 0..Q
  <2>1. \A i, m, n, j, k, l, h, g \in Nat :
          /\ i - h \in 0..m /\ n <= i /\ l >= k
          /\ g - h = j - n \/ (g = h /\ j - n = l - k) \/ (g = 0 /\ h <= n - j)
          => (i + (j - n)) - g \in 0..(m + (l - k))
    OBVIOUS
  <2>2. /\ B \in Nat /\ P \in Nat /\ y \in Nat /\ b \in Nat /\ p \in Nat /\ q \in Nat
        /\ held \in Nat /\ held' \in Nat /\ B - held \in 0..P /\ y <= B
    BY <1>1, <1>3, <1>4
  <2> HIDE DEF B, P, C, Q, p, q, y
  <2>3. (B + (b - y)) - held' \in 0..(P + (q - p))
    BY <1>5, <2>1, <2>2
  <2> QED BY <1>3, <1>4, <2>3
<1>7. \A v \in Writer : accounts'[v].locked = 0
  <2>1. \A v \in Writer : accounts[v].locked = 0
    BY DEF CashInv
  <2>2. accounts'[w] = x /\ \A v \in Writer \ {w} : accounts'[v] = accounts[v]
    BY <1>1
  <2> QED BY <1>2, <2>1, <2>2
<1>8. CashInv'
  BY <1>1, <1>3, <1>6, <1>7 DEF CashInv
<1>9. Option!EndsOnce
  <2>1. \A k \in DOMAIN options : options[k].margin = Option!None
    <3>1. \A k \in DOMAIN options : options[k] \in CashOption
      BY <1>1
    <3> QED BY <3>1 DEF CashOption
  <2>2. \A k \in DOMAIN options' : options'[k].margin = Option!None
    <3>1. \A k \in DOMAIN options' : options'[k] \in CashOption
      BY <1>1
    <3> QED BY <3>1 DEF CashOption
  <2>3. \A k \in DOMAIN options :
          /\ k \in DOMAIN options'
          /\ options[k].status \in {"Exercised", "Expired", "Cancelled"} =>
               options'[k] = options[k]
    BY DEF CashMoves, OneDiffers
  <2> QED BY <2>1, <2>2, <2>3 DEF Option!EndsOnce
<1> QED BY <1>8, <1>9

LEMMA CashFields ==
  ASSUME OptionsAssumption, CashInv
  PROVE  /\ held \in Nat /\ options \in Seq(CashOption)
         /\ \A w \in Writer : accounts[w].balance \in Nat
         /\ \A w \in Writer, b \in Nat :
              [accounts EXCEPT ![w].balance = b]
                = [accounts EXCEPT ![w] = [balance |-> b, locked |-> 0]]
         /\ \A w \in Writer :
              accounts = [accounts EXCEPT ![w] = [balance |-> accounts[w].balance, locked |-> 0]]
<1>1. /\ held \in Nat /\ options \in Seq(CashOption) /\ accounts \in [Writer -> Account]
      /\ \A w \in Writer : accounts[w].locked = 0
  BY DEF CashInv
<1>2. \A a \in Account, b \in Nat :
        a.locked = 0 => [a EXCEPT !.balance = b] = [balance |-> b, locked |-> 0]
  BY DEF Account
<1>3. \A w \in Writer : accounts[w].balance \in Nat
  BY <1>1 DEF Account
<1>4. \A w \in Writer, b \in Nat :
        [accounts EXCEPT ![w].balance = b]
          = [accounts EXCEPT ![w] = [balance |-> b, locked |-> 0]]
  <2> SUFFICES ASSUME NEW w \in Writer, NEW b \in Nat
               PROVE  [accounts[w] EXCEPT !.balance = b] = [balance |-> b, locked |-> 0]
    OBVIOUS
  <2>1. accounts[w] \in Account /\ accounts[w].locked = 0
    BY <1>1
  <2> QED BY <1>2, <2>1
<1>5. \A w \in Writer :
        accounts = [accounts EXCEPT ![w] = [balance |-> accounts[w].balance, locked |-> 0]]
  <2>1. \A a \in Account : a.locked = 0 => a = [balance |-> a.balance, locked |-> 0]
    BY DEF Account
  <2>2. \A w \in Writer : accounts[w] = [balance |-> accounts[w].balance, locked |-> 0]
    <3> SUFFICES ASSUME NEW w \in Writer
                 PROVE  accounts[w] = [balance |-> accounts[w].balance, locked |-> 0]
      OBVIOUS
    <3>1. accounts[w] \in Account /\ accounts[w].locked = 0
      BY <1>1
    <3> QED BY <2>1, <3>1
  <2> QED BY <1>1, <2>2
<1> QED BY <1>1, <1>3, <1>4, <1>5

\* A call for the margin of writer w.
LEMMA MarginCallStep ==
  ASSUME OptionsAssumption, CashInv, NEW w \in Writer, NEW n \in Deposit,
         Option!AddMargin(w, n) \/ Option!TakeMargin(w, n)
  PROVE  CashInv' /\ Option!EndsOnce
<1> DEFINE y == accounts[w].balance
<1>1. y \in Nat /\ n \in Nat /\ held \in Nat /\ options \in Seq(CashOption)
  BY CashFields DEF OptionsAssumption
<1>2. options' = options
  BY DEF Option!AddMargin, Option!TakeMargin
<1>3. /\ OneDiffers(options, options', 0) /\ options' \in Seq(CashOption)
      /\ 0 \in DOMAIN options => 0 \in DOMAIN options' /\ options'[0] = options[0]
      /\ SoldPart(options', 0) >= SoldPart(options, 0)
  <2>1. OneDiffers(options, options, 0)
    BY DEF OneDiffers
  <2>2. SoldPart(options, 0) \in Nat
    BY <1>1, <2>1, PremiumsMove
  <2> QED BY <1>1, <1>2, <2>1, <2>2
<1>4. CASE Option!AddMargin(w, n)
  <2> DEFINE b == y + n
  <2>1. b \in Nat /\ held' = held + n /\ accounts' = [accounts EXCEPT ![w].balance = b]
    BY <1>1, <1>4 DEF Option!AddMargin
  <2>2. accounts' = [accounts EXCEPT ![w] = [balance |-> b, locked |-> 0]]
    BY <2>1, CashFields
  <2>3. held' \in Nat /\ held' - held = b - accounts[w].balance
    BY <1>1, <2>1
  <2>4. CashMoves(0, w, b)
    BY <1>3, <2>1, <2>2, <2>3 DEF CashMoves
  <2> QED BY <2>4, CashMovesStep
<1>5. CASE Option!TakeMargin(w, n)
  <2> DEFINE b == y - n
  <2>1. /\ n <= y /\ held' = Option!Max({0, held - n})
        /\ accounts' = [accounts EXCEPT ![w].balance = b]
    BY <1>5 DEF Option!TakeMargin
  <2>2. b \in Nat
    BY <1>1, <2>1
  <2>3. accounts' = [accounts EXCEPT ![w] = [balance |-> b, locked |-> 0]]
    BY <2>1, <2>2, CashFields
  <2>4. held' = IF held - n > 0 THEN held - n ELSE 0
    <3>1. held - n \in Int
      BY <1>1
    <3> QED BY <2>1, <3>1, OptionMax
  <2>5. /\ held' \in Nat
        /\ \/ held' - held = b - accounts[w].balance
           \/ held' = 0 /\ held <= accounts[w].balance - b
    BY <1>1, <2>4
  <2>6. CashMoves(0, w, b)
    BY <1>3, <2>2, <2>3, <2>5 DEF CashMoves
  <2> QED BY <2>6, CashMovesStep
<1> QED BY <1>4, <1>5

LEMMA CreateOptionStep ==
  ASSUME OptionsAssumption, CashInv, NEW w \in Writer, NEW n \in Deposit,
         NEW kind \in Option!OptionKind, NEW strike \in Price, NEW size \in Amount,
         NEW premium \in Premium, NEW e \in 1..MaxTime,
         Option!CreateOption(w, kind, strike, size, premium, e, n)
  PROVE  CashInv' /\ Option!EndsOnce
<1> DEFINE o == [writer |-> w, kind |-> kind, strike |-> strike, amount |-> size,
                 expiry |-> e, status |-> "Active", margin |-> Option!None,
                 premium |-> premium, holder |-> Option!None]
           id == Len(options) + 1
           b == accounts[w].balance + n
<1>1. accounts[w].balance \in Nat /\ n \in Nat /\ held \in Nat /\ options \in Seq(CashOption)
  BY CashFields DEF OptionsAssumption
<1>2. /\ options' = Append(options, o) /\ held' = held + n
      /\ accounts' = [accounts EXCEPT ![w].balance = b]
  BY DEF Option!CreateOption
<1>3. o \in CashOption /\ o.holder = Option!None
  BY DEF OptionsAssumption, CashOption, Option!OptionStatus
<1> HIDE DEF o
<1>4. /\ options' \in Seq(CashOption) /\ options'[id] = o
      /\ id \notin DOMAIN options /\ OneDiffers(options, options', id)
  BY <1>1, <1>2, <1>3, AddedRecord
<1> HIDE DEF id
<1>5. SoldPart(options', id) = 0 /\ SoldPart(options, id) = 0
  BY <1>3, <1>4 DEF SoldPart
<1>6. b \in Nat /\ held' \in Nat /\ held' - held = b - accounts[w].balance
  BY <1>1, <1>2
<1>7. accounts' = [accounts EXCEPT ![w] = [balance |-> b, locked |-> 0]]
  BY <1>2, <1>6, CashFields
<1>8. CashMoves(id, w, b)
  BY <1>4, <1>5, <1>6, <1>7 DEF CashMoves
<1> QED BY <1>8, CashMovesStep

LEMMA SoldAs ==
  ASSUME CashInv, NEW id \in DOMAIN options, NEW o \in CashOption,
         options' = [options EXCEPT ![id] = o]
  PROVE  /\ options' \in Seq(CashOption) /\ options'[id] = o
         /\ OneDiffers(options, options', id) /\ id \in DOMAIN options'
         /\ options[id] \in CashOption /\ options[id].writer \in Writer
         /\ options[id].premium \in Nat
<1>1. options \in Seq(CashOption)
  BY DEF CashInv
<1>2. /\ DOMAIN options' = DOMAIN options /\ options'[id] = o
      /\ \A k \in DOMAIN options : k # id => options'[k] = options[k]
  BY <1>1
<1>3. options' \in Seq(CashOption) /\ options[id] \in CashOption
  BY <1>1
<1> QED BY <1>2, <1>3 DEF OneDiffers, CashOption

LEMMA BuyOptionStep ==
  ASSUME OptionsAssumption, CashInv, NEW id \in DOMAIN options, NEW h \in Writer,
         Option!BuyOption(h, id)
  PROVE  CashInv' /\ Option!EndsOnce
<1> DEFINE a == options[id]
           o == [a EXCEPT !.holder = h]
           w == a.writer
           b == accounts[w].balance + a.premium
<1>1. /\ options' = [options EXCEPT ![id] = o] /\ a.status = "Active" /\ a.holder = Option!None
      /\ accounts' = [accounts EXCEPT ![w].balance = b] /\ held' = held
  BY DEF Option!BuyOption
<1>2. a \in CashOption /\ options \in Seq(CashOption) /\ held \in Nat
  BY CashFields
<1>3. o \in CashOption /\ o.holder = h /\ o.premium = a.premium
  BY <1>2 DEF CashOption
<1>4. h # Option!None
  BY DEF OptionsAssumption
<1> HIDE DEF o
<1>5. /\ options' \in Seq(CashOption) /\ options'[id] = o
      /\ OneDiffers(options, options', id) /\ id \in DOMAIN options'
      /\ w \in Writer /\ a.premium \in Nat
  BY <1>1, <1>3, SoldAs
<1>6. accounts[w].balance \in Nat /\ b \in Nat
  BY <1>5, CashFields
<1>7. SoldPart(options', id) = a.premium /\ SoldPart(options, id) = 0
  BY <1>1, <1>3, <1>4, <1>5 DEF SoldPart
<1>8. accounts' = [accounts EXCEPT ![w] = [balance |-> b, locked |-> 0]]
  BY <1>1, <1>5, <1>6, CashFields
<1>9. /\ held' = held /\ held' \in Nat
      /\ b - accounts[w].balance = SoldPart(options', id) - SoldPart(options, id)
      /\ SoldPart(options', id) >= SoldPart(options, id)
  BY <1>1, <1>2, <1>5, <1>6, <1>7
<1>10. CashMoves(id, w, b)
  BY <1>1, <1>5, <1>6, <1>8, <1>9 DEF CashMoves
<1> QED BY <1>10, CashMovesStep

LEMMA ExerciseForCashStep ==
  ASSUME OptionsAssumption, CashInv, NEW id \in DOMAIN options, NEW p \in Price,
         Option!ExerciseForCash(id, p)
  PROVE  CashInv' /\ Option!EndsOnce
<1> DEFINE a == options[id]
           o == [a EXCEPT !.status = "Exercised"]
           w == a.writer
           y == accounts[w].balance
           d == IF a.kind = "Call" THEN p - a.strike ELSE a.strike - p
           g == (Option!Max({0, d}) * a.amount) \div Scale
           k == Option!Min({g, y})
           b == y - k
<1>1. /\ options' = [options EXCEPT ![id] = o] /\ a.status = "Active"
      /\ accounts' = [accounts EXCEPT ![w].balance = b]
      /\ held' = Option!Max({0, held - k})
  BY DEF Option!ExerciseForCash
<1>2. a \in CashOption /\ options \in Seq(CashOption) /\ held \in Nat
  BY CashFields
<1>3. /\ o \in CashOption /\ o.holder = a.holder /\ o.premium = a.premium
      /\ a.strike \in Nat /\ a.amount \in Nat
  BY <1>2 DEF CashOption, Option!OptionStatus
<1> HIDE DEF o
<1>4. /\ options' \in Seq(CashOption) /\ options'[id] = o
      /\ OneDiffers(options, options', id) /\ id \in DOMAIN options'
      /\ w \in Writer /\ a.premium \in Nat
  BY <1>1, <1>3, SoldAs
<1>5. y \in Nat
  BY <1>4, CashFields
<1>6. k \in Nat /\ k <= y
  <2>1. d \in Int /\ p \in Nat /\ Scale \in Nat \ {0}
    BY <1>3 DEF OptionsAssumption
  <2> HIDE DEF d
  <2>2. Option!Max({0, d}) \in Nat
    BY <2>1, OptionMax
  <2>3. Option!Max({0, d}) * a.amount \in Nat
    BY <1>3, <2>2
  <2>4. g \in Nat
    BY <2>1, <2>3, OneShare
  <2>5. g \in Int /\ y \in Int
    BY <1>5, <2>4
  <2> HIDE DEF g, y
  <2>6. Option!Min({g, y}) \in {g, y} /\ Option!Min({g, y}) <= y
    BY <2>5, OptionMin, Zenon
  <2> QED BY <1>5, <2>4, <2>6
<1> HIDE DEF k
<1>7. b \in Nat
  BY <1>5, <1>6
<1>8. SoldPart(options', id) = SoldPart(options, id) /\ SoldPart(options, id) \in Nat
  <2>1. SoldPart(options', id) = SoldPart(options, id)
    BY <1>3, <1>4 DEF SoldPart
  <2>2. SoldPart(options, id) \in Nat
    BY <1>2, <1>4, PremiumsMove
  <2> QED BY <2>1, <2>2
<1>9. accounts' = [accounts EXCEPT ![w] = [balance |-> b, locked |-> 0]]
  BY <1>1, <1>4, <1>7, CashFields
<1>10. held' = IF held - k > 0 THEN held - k ELSE 0
  <2>1. held - k \in Int
    BY <1>2, <1>6
  <2> QED BY <1>1, <2>1, OptionMax
<1>11. /\ held' \in Nat
       /\ \/ held' - held = b - accounts[w].balance
          \/ held' = 0 /\ held <= accounts[w].balance - b
       /\ SoldPart(options', id) >= SoldPart(options, id)
  BY <1>2, <1>5, <1>6, <1>8, <1>10
<1>12. CashMoves(id, w, b)
  BY <1>1, <1>4, <1>7, <1>9, <1>11 DEF CashMoves
<1> QED BY <1>12, CashMovesStep

LEMMA LetExpireStep ==
  ASSUME OptionsAssumption, CashInv, NEW id \in DOMAIN options, Option!LetExpire(id)
  PROVE  CashInv' /\ Option!EndsOnce
<1> DEFINE a == options[id]
           o == [a EXCEPT !.status = "Expired"]
           w == a.writer
           b == accounts[w].balance
<1>1. /\ options' = [options EXCEPT ![id] = o] /\ a.status = "Active"
      /\ UNCHANGED <<accounts, held>>
  BY DEF Option!LetExpire
<1>2. a \in CashOption /\ options \in Seq(CashOption) /\ held \in Nat
  BY CashFields
<1>3. o \in CashOption /\ o.holder = a.holder /\ o.premium = a.premium
  BY <1>2 DEF CashOption, Option!OptionStatus
<1> HIDE DEF o
<1>4. /\ options' \in Seq(CashOption) /\ options'[id] = o
      /\ OneDiffers(options, options', id) /\ id \in DOMAIN options' /\ w \in Writer
  BY <1>1, <1>3, SoldAs
<1>5. b \in Nat /\ accounts' = [accounts EXCEPT ![w] = [balance |-> b, locked |-> 0]]
  BY <1>1, <1>4, CashFields
<1>6. SoldPart(options', id) = SoldPart(options, id) /\ SoldPart(options, id) \in Nat
  <2>1. SoldPart(options', id) = SoldPart(options, id)
    BY <1>3, <1>4 DEF SoldPart
  <2>2. SoldPart(options, id) \in Nat
    BY <1>2, <1>4, PremiumsMove
  <2> QED BY <2>1, <2>2
<1>7. /\ held' \in Nat /\ held' - held = b - accounts[w].balance
      /\ SoldPart(options', id) >= SoldPart(options, id)
  BY <1>1, <1>2, <1>5, <1>6
<1>8. CashMoves(id, w, b)
  BY <1>1, <1>4, <1>5, <1>7 DEF CashMoves
<1> QED BY <1>8, CashMovesStep

\* What both contracts keep.
OptionsInv ==
  /\ Contract = "options-protocol" => MarginInv
  /\ Contract = "options" => CashInv

LEMMA OptionsStart == ASSUME OptionsAssumption, Option!Init PROVE OptionsInv
<1>1. /\ options = <<>> /\ held = 0 /\ now = 0 /\ config = Option!None /\ price = Option!None
      /\ accounts = [w \in Writer |-> [balance |-> 0, locked |-> 0]] /\ IsFiniteSet(Writer)
  BY DEF Option!Init, OptionsAssumption
<1>2. DOMAIN options = {} /\ \A S : options \in Seq(S)
  BY <1>1
<1>3. accounts \in [Writer -> Account]
  BY <1>1 DEF Account
<1>4. \A w \in Writer : accounts[w].locked = 0 /\ accounts[w].balance = 0
  BY <1>1
<1>5. SumOf(BalanceOf(accounts), Writer) = 0
  <2>1. \A w \in Writer : BalanceOf(accounts)[w] = 0
    BY <1>4 DEF BalanceOf
  <2> QED BY <1>1, <2>1, SumZero
<1>6. \A w : SumOf(Locked(options, w), Backing(options, w)) = 0
  <2>1. \A w : Backing(options, w) = {}
    BY <1>2 DEF Backing
  <2> QED BY <2>1, SumEmpty
<1>7. SumOf(SoldPremiums(options), SoldOptions(options)) = 0
  <2>1. SoldOptions(options) = {}
    BY <1>2 DEF SoldOptions
  <2> QED BY <2>1, SumEmpty
<1>8. MarginInv
  BY <1>1, <1>2, <1>3, <1>4, <1>5, <1>6 DEF MarginInv
<1>9. CashInv
  BY <1>1, <1>2, <1>3, <1>4, <1>5, <1>7 DEF CashInv
<1> QED BY <1>8, <1>9 DEF OptionsInv

LEMMA MarginStep ==
  ASSUME OptionsAssumption, MarginInv, Option!ProtocolNext
  PROVE  MarginInv' /\ Option!EndsOnce
<1>1. CASE \/ \E m \in Margin : Option!ConfigureMarginPool(m)
           \/ \E p \in Price : Option!UpdatePrice(p)
  BY <1>1, FlatMarginSteps
<1>2. CASE \E w \in Writer, n \in Deposit :
             Option!DepositMargin(w, n) \/ Option!WithdrawMargin(w, n)
  BY <1>2, DepositMarginStep
<1>3. CASE \E w \in Writer, kind \in Option!OptionKind, strike \in Price, n \in Amount,
              e \in 1..MaxTime : Option!WriteOption(w, kind, strike, n, e)
  BY <1>3, WriteOptionStep
<1>4. CASE \E w \in Writer, kind \in Option!OptionKind, strike \in Price, n \in Amount,
              e \in 1..MaxTime, most \in Payout :
             Option!WriteCollateralizedOption(w, kind, strike, n, e, most)
  BY <1>4, WriteCollateralizedStep
<1>5. CASE \E id \in DOMAIN options :
             Option!CancelOption(id) \/ Option!Exercise(id) \/ Option!ExpireOption(id)
  BY <1>5, EndedStep
<1>6. CASE \E id \in DOMAIN options :
             \/ Option!CancelCollateralizedOption(id) \/ Option!CheckMargin(id)
             \/ Option!SettleOption(id)
  BY <1>6, CancelCollateralizedStep, CheckMarginStep, SettleOptionStep
<1> QED BY <1>1, <1>2, <1>3, <1>4, <1>5, <1>6 DEF Option!ProtocolNext

LEMMA CashStep ==
  ASSUME OptionsAssumption, CashInv, Option!OptionsNext
  PROVE  CashInv' /\ Option!EndsOnce
<1>1. CASE \E w \in Writer, n \in Deposit : Option!AddMargin(w, n) \/ Option!TakeMargin(w, n)
  BY <1>1, MarginCallStep
<1>2. CASE \E w \in Writer, n \in Deposit, kind \in Option!OptionKind, strike \in Price,
              size \in Amount, premium \in Premium, e \in 1..MaxTime :
             Option!CreateOption(w, kind, strike, size, premium, e, n)
  BY <1>2, CreateOptionStep
<1>3. CASE \E id \in DOMAIN options : Option!LetExpire(id)
  BY <1>3, LetExpireStep
<1>4. CASE \E id \in DOMAIN options, h \in Writer : Option!BuyOption(h, id)
  BY <1>4, BuyOptionStep
<1>5. CASE \E id \in DOMAIN options, p \in Price : Option!ExerciseForCash(id, p)
  BY <1>5, ExerciseForCashStep
<1> QED BY <1>1, <1>2, <1>3, <1>4, <1>5 DEF Option!OptionsNext

LEMMA CashWaits ==
  ASSUME CashInv, UNCHANGED <<options, accounts, held>>
  PROVE  CashInv' /\ Option!EndsOnce
<1>1. CashInv'
  BY DEF CashInv
<1>2. \A k \in DOMAIN options : options[k].margin = Option!None
  <2>1. \A k \in DOMAIN options : options[k] \in CashOption
    BY DEF CashInv
  <2> QED BY <2>1 DEF CashOption
<1> QED BY <1>1, <1>2 DEF Option!EndsOnce

LEMMA OptionsStep ==
  ASSUME OptionsAssumption, OptionsInv, [Option!Next]_Option!vars
  PROVE  OptionsInv' /\ Option!EndsOnce
<1>1. CASE \/ Option!Initialize \/ Option!Tick \/ (\E p \in BOOLEAN : Option!SetPaused(p))
           \/ UNCHANGED Option!vars
  <2>1. UNCHANGED <<options, accounts, held>>
    BY <1>1 DEF Option!Initialize, Option!Tick, Option!SetPaused, Option!vars
  <2>2. CASE Contract = "options-protocol"
    <3>1. MarginInv
      BY <2>2 DEF OptionsInv
    <3>2. MarginInv' /\ Option!EndsOnce
      BY <1>1, <3>1, FlatMarginSteps
    <3> QED BY <2>2, <3>2 DEF OptionsInv
  <2>3. CASE Contract = "options"
    <3>1. CashInv
      BY <2>3 DEF OptionsInv
    <3>2. CashInv' /\ Option!EndsOnce
      BY <2>1, <3>1, CashWaits
    <3> QED BY <2>3, <3>2 DEF OptionsInv
  <2> QED BY <2>2, <2>3 DEF OptionsAssumption
<1>2. CASE Contract = "options-protocol" /\ Option!ProtocolNext
  <2>1. MarginInv
    BY <1>2 DEF OptionsInv
  <2>2. MarginInv' /\ Option!EndsOnce
    BY <1>2, <2>1, MarginStep
  <2> QED BY <1>2, <2>2 DEF OptionsInv
<1>3. CASE Contract = "options" /\ Option!OptionsNext
  <2>1. CashInv
    BY <1>3 DEF OptionsInv
  <2>2. CashInv' /\ Option!EndsOnce
    BY <1>3, <2>1, CashStep
  <2> QED BY <1>3, <2>2 DEF OptionsInv
<1> QED BY <1>1, <1>2, <1>3 DEF Option!Next

\* The locked part of a writer's account is exactly the margin of the writer's
\* options and within the balance, and the contract holds all the balances; in
\* the options contract the total margin is short of the balances by no more
\* than the premiums it leaves out.
THEOREM MarginStaysBacked ==
  ASSUME OptionsAssumption
  PROVE  Option!Spec => []Option!MarginBacked
<1>1. OptionsInv => Option!MarginBacked
  <2> SUFFICES ASSUME OptionsInv PROVE Option!MarginBacked
    OBVIOUS
  <2>1. Option!Balances = SumOf(BalanceOf(accounts), Writer)
    BY OptionTotal DEF Option!Balances, BalanceOf
  <2>2. CASE Contract = "options-protocol"
    <3>1. MarginInv
      BY <2>2 DEF OptionsInv
    <3>2. ASSUME NEW w \in Writer
          PROVE  /\ accounts[w].locked
                      = Option!Total([id \in Option!Open(w) |-> options[id].margin.locked],
                                     Option!Open(w))
                 /\ accounts[w].locked >= 0 /\ accounts[w].locked <= accounts[w].balance
      <4>1. Option!Open(w) = Backing(options, w)
        BY DEF Option!Open, Backing
      <4>2. Option!Total(Locked(options, w), Backing(options, w)) = accounts[w].locked
        BY <3>1, OptionTotal DEF MarginInv
      <4>3. accounts[w].locked \in Nat /\ accounts[w].locked <= accounts[w].balance
        BY <3>1, WriterHas
      <4> QED BY <4>1, <4>2, <4>3 DEF Locked
    <3>3. held = Option!Balances
      BY <2>1, <3>1 DEF MarginInv
    <3> QED BY <2>2, <3>2, <3>3 DEF Option!MarginBacked
  <2>3. CASE Contract = "options"
    <3>1. CashInv
      BY <2>3 DEF OptionsInv
    <3>2. ASSUME NEW w \in Writer
          PROVE  /\ accounts[w].locked
                      = Option!Total([id \in Option!Open(w) |-> options[id].margin.locked],
                                     Option!Open(w))
                 /\ accounts[w].locked >= 0 /\ accounts[w].locked <= accounts[w].balance
      <4>1. Option!Open(w) = {}
        <5>1. \A k \in DOMAIN options : options[k] \in CashOption
          BY <3>1 DEF CashInv
        <5>2. \A k \in DOMAIN options : options[k].margin = Option!None
          BY <5>1 DEF CashOption
        <5> QED BY <5>2 DEF Option!Open
      <4>2. \A f : Option!Total(f, {}) = 0
        BY OptionTotal, SumEmpty
      <4>3. accounts[w].locked = 0 /\ accounts[w].balance \in Nat
        BY <3>1, CashFields DEF CashInv
      <4> QED BY <4>1, <4>2, <4>3
    <3>3. Option!Balances - held
            \in 0..Option!Total([id \in Option!Sold |-> options[id].premium], Option!Sold)
      <4>1. Option!Sold = SoldOptions(options)
        BY DEF Option!Sold, SoldOptions
      <4>2. [id \in Option!Sold |-> options[id].premium] = SoldPremiums(options)
        BY <4>1 DEF SoldPremiums
      <4>3. Option!Total(SoldPremiums(options), SoldOptions(options))
              = SumOf(SoldPremiums(options), SoldOptions(options))
        BY OptionTotal
      <4> QED BY <2>1, <3>1, <4>1, <4>2, <4>3 DEF CashInv
    <3> QED BY <2>3, <3>2, <3>3 DEF Option!MarginBacked
  <2> QED BY <2>2, <2>3 DEF OptionsAssumption
<1> QED BY <1>1, OptionsStart, OptionsStep, PTL DEF Option!Spec

\* An option ends once and holds no margin then, and locks at most what it may
\* ever pay.
THEOREM OptionsEndOnce ==
  ASSUME OptionsAssumption
  PROVE  Option!Spec => [][Option!EndsOnce]_Option!vars
  BY OptionsStart, OptionsStep, PTL DEF Option!Spec
=============================================================================
