--------------------------- MODULE SportsBetting ---------------------------
(***************************************************************************)
(* Three contracts for bets on the outcome of a match: sports-betting, which *)
(* holds the stakes and pays them out once enough oracles agree;             *)
(* sports-prediction-market and sports-prediction, which keep accounts of     *)
(* stakes that no call moves, and believe the one oracle of the market.       *)
(* One of the three is deployed, and every market has the same outcomes and   *)
(* token.  An action is a call that succeeds.                                 *)
(***************************************************************************)
EXTENDS Integers, Sequences, FiniteSets, FiniteSetsExt

CONSTANTS Contract,   \* the one that is deployed
          Bettor, Oracle, Outcome,
          Prefix,     \* bettor -> the first characters of the address
          Odds,       \* that an outcome may be given
          Bps, FeeBps, MaxOracles,   \* 10000, its part of a total, MAX_ORACLES
          Schedule,   \* <<close, deadline>> of a market
          Threshold, Amount,         \* arguments of the calls
          MaxMarkets, MaxPool, MaxTime  \* bounds

VARIABLES initialized, paused,
          oracles,   \* those that may vote
          markets,   \* id -> market with its bets and votes
          held,      \* tokens of the contract
          now

vars == <<initialized, paused, oracles, markets, held, now>>

None == [none |-> TRUE]

\* The prediction market finds a position by the beginning of the address, so
\* bettors whose addresses begin alike have one position.
KeyOf(bettor) == IF Contract = "sports-prediction-market" THEN Prefix[bettor] ELSE bettor
Keys == {KeyOf(bettor) : bettor \in Bettor}

NoBet == [stake |-> 0, odds |-> 0]

Market(schedule, threshold, odds) ==
  [close |-> schedule[1], deadline |-> schedule[2], threshold |-> threshold,
   status |-> "Open", winner |-> None, odds |-> odds,
   pools |-> [o \in Outcome |-> 0], fee |-> 0, feeClaimed |-> FALSE,
   bets |-> [b \in Keys \X Outcome |-> NoBet],
   voted |-> {}, counts |-> [o \in Outcome |-> 0]]

SumOver(f, S) == MapThenSumSet(LAMBDA x : f[x], S)
Total(m) == SumOver(m.pools, Outcome)

Init ==
  /\ initialized = FALSE /\ paused = FALSE /\ oracles = {}
  /\ markets = <<>> /\ held = 0 /\ now = 0

Initialize ==
  /\ ~initialized /\ initialized' = TRUE
  /\ UNCHANGED <<paused, oracles, markets, held, now>>

SetPaused(p) ==
  /\ initialized /\ paused' = p
  /\ UNCHANGED <<initialized, oracles, markets, held, now>>

Tick ==
  /\ now < MaxTime /\ now' = now + 1
  /\ UNCHANGED <<initialized, paused, oracles, markets, held>>

Opened(market) ==
  /\ initialized /\ ~paused /\ Len(markets) < MaxMarkets
  /\ market.close > now
  /\ markets' = Append(markets, market)
  /\ UNCHANGED <<initialized, paused, oracles, held, now>>

Changed(id, market) ==
  /\ markets' = [markets EXCEPT ![id] = market]
  /\ UNCHANGED <<initialized, paused, oracles, now>>

\* The odds are those of the first bet.
WithStake(m, key, o, amount) ==
  [m EXCEPT !.pools[o] = @ + amount,
            !.bets[<<key, o>>] = [stake |-> @.stake + amount,
                                  odds |-> IF @.stake = 0 THEN m.odds[o] ELSE @.odds]]

MayBet(m, amount) ==
  ~paused /\ m.status = "Open" /\ now < m.close /\ Total(m) + amount <= MaxPool

-----------------------------------------------------------------------------
(* sports-betting *)

AddOracle(v) ==
  /\ initialized /\ v \notin oracles /\ Cardinality(oracles) < MaxOracles
  /\ oracles' = oracles \cup {v}
  /\ UNCHANGED <<initialized, paused, markets, held, now>>

\* What it voted still counts, and a threshold may now be out of reach.
RemoveOracle(v) ==
  /\ v \in oracles /\ oracles' = oracles \ {v}
  /\ UNCHANGED <<initialized, paused, markets, held, now>>

CreateMarket(schedule, threshold) ==
  /\ schedule[2] > schedule[1] /\ threshold <= Cardinality(oracles)
  /\ Opened(Market(schedule, threshold, [o \in Outcome |-> 0]))

PlaceBet(id, bettor, o, amount) ==
  /\ MayBet(markets[id], amount)
  /\ Changed(id, WithStake(markets[id], bettor, o, amount))
  /\ held' = held + amount

\* The first outcome with enough votes is the result; if nobody has bet on it
\* the market is cancelled.
SubmitResult(v, id, o) ==
  LET m == markets[id]
      votes == m.counts[o] + 1
      cast == [m EXCEPT !.voted = @ \cup {v}, !.counts[o] = votes]
  IN /\ ~paused /\ v \in oracles \ m.voted
     /\ m.status = "Open" /\ m.close <= now /\ now <= m.deadline
     /\ held' = held
     /\ Changed(id,
          IF votes < m.threshold THEN cast
          ELSE IF m.pools[o] = 0 THEN [cast EXCEPT !.status = "Cancelled"]
          ELSE [cast EXCEPT !.status = "Resolved", !.winner = o,
                            !.fee = (Total(m) * FeeBps) \div Bps])

CancelExpired(id) ==
  /\ markets[id].status = "Open" /\ now > markets[id].deadline
  /\ held' = held
  /\ Changed(id, [markets[id] EXCEPT !.status = "Cancelled"])

Payout(m, bettor, o) ==
  LET stake == m.bets[<<bettor, o>>].stake IN
    CASE m.status = "Cancelled" -> stake
      [] m.status = "Resolved" /\ m.winner = o -> (stake * (Total(m) - m.fee)) \div m.pools[o]
      [] OTHER -> 0

\* Also while the contract is paused, and of a bet that lost.
Claim(bettor, id, o) ==
  LET m == markets[id] IN
    /\ m.status # "Open" /\ m.bets[<<bettor, o>>].stake > 0
    /\ held' = held - Payout(m, bettor, o)
    /\ Changed(id, [m EXCEPT !.bets[<<bettor, o>>] = NoBet])

ClaimFee(id) ==
  /\ markets[id].status = "Resolved" /\ ~markets[id].feeClaimed
  /\ held' = held - markets[id].fee
  /\ Changed(id, [markets[id] EXCEPT !.feeClaimed = TRUE])

Betting ==
  \/ Initialize \/ \E p \in BOOLEAN : SetPaused(p)
  \/ \E v \in Oracle : AddOracle(v) \/ RemoveOracle(v)
  \/ \E schedule \in Schedule, threshold \in Threshold : CreateMarket(schedule, threshold)
  \/ \E id \in DOMAIN markets :
       \/ CancelExpired(id) \/ ClaimFee(id)
       \/ \E o \in Outcome :
            \/ \E v \in Oracle : SubmitResult(v, id, o)
            \/ \E bettor \in Bettor :
                 \/ Claim(bettor, id, o)
                 \/ \E amount \in Amount : PlaceBet(id, bettor, o, amount)

-----------------------------------------------------------------------------
(* sports-prediction-market *)

MarketAdministration == Initialize \/ \E p \in BOOLEAN : SetPaused(p)

CreatePredictionMarket(schedule, odds) == Opened(Market(schedule, 1, odds))

\* Also after bets were placed.
UpdateOdds(id, odds) ==
  /\ markets[id].status = "Open"
  /\ held' = held
  /\ Changed(id, [markets[id] EXCEPT !.odds = odds])

\* On one outcome only.  No tokens move.
TakePosition(id, bettor, o, amount) ==
  LET m == markets[id] key == KeyOf(bettor) IN
    /\ MayBet(m, amount)
    /\ \A other \in Outcome \ {o} : m.bets[<<key, other>>].stake = 0
    /\ held' = held
    /\ Changed(id, WithStake(m, key, o, amount))

\* By the oracle of the market, before the deadline too, and also while paused.
ResolveMarket(id, o) ==
  /\ markets[id].status = "Open"
  /\ held' = held
  /\ Changed(id, [markets[id] EXCEPT !.status = "Resolved", !.winner = o])

CancelMarket(id) ==
  /\ markets[id].status = "Open"
  /\ held' = held
  /\ Changed(id, [markets[id] EXCEPT !.status = "Cancelled"])

\* What a position would be paid; read by no other call.
CalculatePayout(m, key, o) ==
  CASE m.status = "Cancelled" -> m.bets[<<key, o>>].stake
    [] m.status = "Resolved" /\ m.winner = o /\ m.pools[o] > 0 ->
         (m.bets[<<key, o>>].stake * Total(m)) \div m.pools[o]
    [] OTHER -> 0

PredictionMarket ==
  \/ MarketAdministration
  \/ \E schedule \in Schedule, odds \in [Outcome -> Odds] : CreatePredictionMarket(schedule, odds)
  \/ \E id \in DOMAIN markets :
       \/ CancelMarket(id)
       \/ \E odds \in [Outcome -> Odds] : UpdateOdds(id, odds)
       \/ \E o \in Outcome :
            \/ ResolveMarket(id, o)
            \/ \E bettor \in Bettor, amount \in Amount : TakePosition(id, bettor, o, amount)

-----------------------------------------------------------------------------
(* sports-prediction *)

PredictionSetup == Initialize
SetPause(p) == SetPaused(p)
CreateEvent(schedule) == Opened(Market(schedule, 1, [o \in Outcome |-> 0]))
Predict(id, bettor, o, amount) == TakePosition(id, bettor, o, amount)
ResolveEvent(id, o) == ResolveMarket(id, o)

Prediction ==
  \/ PredictionSetup \/ \E p \in BOOLEAN : SetPause(p)
  \/ \E schedule \in Schedule : CreateEvent(schedule)
  \/ \E id \in DOMAIN markets, o \in Outcome :
       \/ ResolveEvent(id, o)
       \/ \E bettor \in Bettor, amount \in Amount : Predict(id, bettor, o, amount)

-----------------------------------------------------------------------------
Next ==
  \/ Tick
  \/ Contract = "sports-betting" /\ Betting
  \/ Contract = "sports-prediction-market" /\ PredictionMarket
  \/ Contract = "sports-prediction" /\ Prediction

Spec == Init /\ [][Next]_vars

-----------------------------------------------------------------------------
(* Properties *)

Owed(m) ==
  CASE m.status = "Open" ->
         SumOver([b \in DOMAIN m.bets |-> m.bets[b].stake], DOMAIN m.bets)
    [] OTHER ->
         SumOver([b \in DOMAIN m.bets |-> Payout(m, b[1], b[2])], DOMAIN m.bets)
           + IF m.feeClaimed THEN 0 ELSE m.fee

\* sports-betting holds what it owes in every market at once: the stakes of the
\* open and the cancelled, the shares of the winners with their rounding and the
\* fee of the resolved, whoever claims first.
BetsBacked ==
  Contract = "sports-betting" =>
    held >= SumOver([id \in DOMAIN markets |-> Owed(markets[id])], DOMAIN markets)

\* The pools are the sums of the bets, until they are claimed; a result has the
\* votes of its threshold, of as many oracles, also if some are gone by now; and
\* the positions of a prediction market are never worth more than was staked.
StakesAccounted ==
  \A id \in DOMAIN markets :
    LET m == markets[id] IN
      /\ m.status = "Open" \/ Contract # "sports-betting" =>
           \A o \in Outcome : m.pools[o] = MapThenSumSet(LAMBDA k : m.bets[<<k, o>>].stake, Keys)
      /\ Contract = "sports-betting" =>
           /\ MapThenSumSet(LAMBDA o : m.counts[o], Outcome) = Cardinality(m.voted)
           /\ m.status = "Resolved" => m.counts[m.winner] >= m.threshold /\ m.pools[m.winner] > 0
           /\ m.status = "Open" => \A o \in Outcome : m.counts[o] < m.threshold
      /\ Contract # "sports-betting" =>
           /\ MapThenSumSet(LAMBDA b : CalculatePayout(m, b[1], b[2]), Keys \X Outcome) <= Total(m)
           /\ \A k \in Keys : Cardinality({o \in Outcome : m.bets[<<k, o>>].stake > 0}) <= 1

\* A market that is decided stays as it was decided: nobody bets or votes any
\* more, a bet is claimed whole and once, and so is the fee; and the odds of a
\* position are those it was opened at.
DecidedMarketsStay ==
  \A id \in DOMAIN markets :
    LET m == markets[id] n == markets'[id] IN
      /\ m.status # "Open" =>
           /\ n.status = m.status /\ n.winner = m.winner /\ n.fee = m.fee
           /\ n.pools = m.pools /\ n.voted = m.voted /\ (m.feeClaimed => n.feeClaimed)
           /\ \A b \in DOMAIN m.bets : n.bets[b] \in {m.bets[b], NoBet}
      /\ \A b \in DOMAIN m.bets :
           m.bets[b].stake > 0 /\ n.bets[b].stake > 0 =>
             n.bets[b].odds = m.bets[b].odds /\ n.bets[b].stake >= m.bets[b].stake
=============================================================================
