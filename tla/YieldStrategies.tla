-------------------------- MODULE YieldStrategies ---------------------------
(***************************************************************************)
(* Two contracts of yield strategies: users deposit, and their balances    *)
(* compound at the rate of the strategy.  yield-farming moves whole        *)
(* portfolios to the strategies with the best rates, within risk limits,   *)
(* pool capacities and a largest share for each.  yield-optimizer scores   *)
(* strategies by rate, fee and risk, and moves a position to the best      *)
(* one. Both keep accounts only.  An action is a call that succeeds.       *)
(***************************************************************************)
EXTENDS Integers, Sequences, FiniteSets, FiniteSetsExt

CONSTANTS Contract,      \* "yield-farming" or "yield-optimizer"
          User,
          Bps,           \* BPS_DENOM, BPS
          Year,          \* SECONDS_PER_YEAR, SECS_PER_YEAR
          MaxRisk,       \* MAX_RISK_SCORE
          Apy,           \* rates, within 0..MAX_APY_BPS (= Bps)
          Amount,
          MaxStrategies, MaxTotal, MaxTime,  \* bounds
          Config,        \* pool configurations of the calls
          Improvement,
          RiskDivisor,   \* RISK_PENALTY_DIVISOR
          Profile        \* advanced profiles of the calls

VARIABLES initialized,
          strategies,  \* id -> rate, total deposited, active
          positions,   \* id -> user -> position, or None
          now,
          configs,     \* id -> configuration
          paused,
          profiles     \* id -> advanced profile

farmingVars == <<configs>>
optimizerVars == <<paused, profiles>>
vars == <<initialized, strategies, positions, now, farmingVars, optimizerVars>>

None == [none |-> TRUE]

Tick ==
  /\ now < MaxTime /\ now' = now + 1
  /\ UNCHANGED <<initialized, strategies, positions, farmingVars, optimizerVars>>

Has(u) == {id \in DOMAIN positions : positions[id][u] # None}

Least(x, y) == IF x < y THEN x ELSE y

-----------------------------------------------------------------------------
(* yield-farming *)

\* pool_config_or_default()
DefaultConfig == [rewards |-> 0, capacity |-> 0, fee |-> 0, risk |-> 0, share |-> Bps]

FarmingInit ==
  /\ initialized = FALSE
  /\ strategies = <<>> /\ configs = <<>> /\ positions = <<>>
  /\ now = 0

InitializeFarming ==
  /\ ~initialized /\ initialized' = TRUE
  /\ UNCHANGED <<strategies, configs, positions, now>>

AddStrategy(apy) ==
  /\ initialized /\ Len(strategies) < MaxStrategies
  /\ strategies' = Append(strategies, [apy |-> apy, total |-> 0, active |-> TRUE])
  /\ configs' = Append(configs, DefaultConfig)
  /\ positions' = Append(positions, [u \in User |-> None])
  /\ UNCHANGED <<initialized, now>>

UpdateStrategyApy(id, apy) ==
  /\ strategies' = [strategies EXCEPT ![id].apy = apy]
  /\ UNCHANGED <<initialized, configs, positions, now>>

SetStrategyActive(id, active) ==
  /\ strategies' = [strategies EXCEPT ![id].active = active]
  /\ UNCHANGED <<initialized, configs, positions, now>>

ConfigurePool(id, c) ==
  /\ configs' = [configs EXCEPT ![id] = c]
  /\ UNCHANGED <<initialized, strategies, positions, now>>

-----------------------------------------------------------------------------
(* Positions *)

\* The position with its reward.  One that earns nothing keeps its old time,
\* so that a rate set later counts from there.
Compounded(p, id) ==
  LET reward == (p.balance * strategies[id].apy * (now - p.at)) \div (Bps * Year)
  IN IF now = p.at \/ strategies[id].apy = 0 \/ p.balance = 0 THEN p
     ELSE [p EXCEPT !.balance = @ + reward, !.at = now]

Reward(p, id) == Compounded(p, id).balance - p.balance

\* A position is written and the total of its strategy moves by this much.
Put(u, id, p, change) ==
  /\ positions' = [positions EXCEPT ![id][u] = p]
  /\ strategies' = [strategies EXCEPT ![id].total = @ + change]
  /\ UNCHANGED <<initialized, configs, now>>

Deposit(u, id, n) ==
  LET old == IF id \in Has(u) THEN positions[id][u]
             ELSE [deposited |-> 0, balance |-> 0, at |-> now]
      p == Compounded(old, id)
  IN /\ strategies[id].active
     /\ strategies[id].total + n <= MaxTotal
     /\ Put(u, id, [deposited |-> p.deposited + n, balance |-> p.balance + n, at |-> now],
            Reward(old, id) + n)

\* Possible while the strategy is paused.
Withdraw(u, id, n) ==
  LET p == Compounded(positions[id][u], id)
      total == strategies[id].total + Reward(positions[id][u], id)
      left == [deposited |-> p.deposited - Least(n, p.deposited), balance |-> p.balance - n,
               at |-> now]
  IN /\ id \in Has(u) /\ n <= p.balance
     /\ Put(u, id, IF left.balance = 0 THEN None ELSE left,
            total - Least(n, total) - strategies[id].total)

Compound(u, id) ==
  /\ id \in Has(u)
  /\ Put(u, id, Compounded(positions[id][u], id), Reward(positions[id][u], id))

CompoundAll(u) ==
  /\ Has(u) # {}
  /\ positions' = [id \in DOMAIN positions |->
       IF id \in Has(u) THEN [positions[id] EXCEPT ![u] = Compounded(@, id)] ELSE positions[id]]
  /\ strategies' = [id \in DOMAIN strategies |->
       IF id \in Has(u) THEN [strategies[id] EXCEPT !.total = @ + Reward(positions[id][u], id)]
       ELSE strategies[id]]
  /\ UNCHANGED <<initialized, configs, now>>

-----------------------------------------------------------------------------
(* PortfolioAllocation *)

\* calculate_dynamic_apy(): rewards dilute with what is deposited.
DynamicApy(id, tvl) ==
  LET c == configs[id]
      gross == IF c.rewards > 0 /\ tvl > 0 THEN Least((c.rewards * Bps) \div tvl, Bps)
               ELSE strategies[id].apy
  IN (gross * (Bps - c.fee)) \div Bps

\* tvl_excluding_user(), where None excludes nobody.
BaseTvl(id, u) ==
  IF u = None \/ id \notin Has(u) THEN strategies[id].total
  ELSE strategies[id].total - Least(positions[id][u].deposited, strategies[id].total)

\* The most of an amount n the strategy may take.
Room(id, u, n) ==
  LET c == configs[id]
      free == IF c.capacity = 0 THEN n ELSE Max({0, c.capacity - BaseTvl(id, u)})
  IN Least((n * c.share) \div Bps, free)

Score(id, u, n, risk) ==
  LET c == configs[id]
  IN IF strategies[id].active /\ c.risk <= risk
        /\ (c.capacity = 0 \/ BaseTvl(id, u) < c.capacity)
     THEN (DynamicApy(id, BaseTvl(id, u) + Max({1, Room(id, u, n)})) * (MaxRisk - c.risk))
            \div MaxRisk
     ELSE 0

Sum(f, S) == MapThenSumSet(LAMBDA x : f[x], S)

\* build_allocation(): each strategy gets its part by score, up to its room;
\* what is left over fills the rooms, the best score first.
PortfolioAllocation(u, n, risk) ==
  LET score == [id \in DOMAIN strategies |-> Score(id, u, n, risk)]
      all == Sum(score, DOMAIN score)
      part == [id \in DOMAIN score |->
                 IF score[id] = 0 THEN 0 ELSE Least((n * score[id]) \div all, Room(id, u, n))]
      left == n - Sum(part, DOMAIN part)
      spare == [id \in DOMAIN score |-> IF score[id] = 0 THEN 0 ELSE Room(id, u, n) - part[id]]
      before(id) == {k \in DOMAIN score : \/ score[k] > score[id]
                                          \/ score[k] = score[id] /\ k < id}
  IN [id \in DOMAIN score |->
        part[id] + Max({0, Least(spare[id], left - Sum(spare, before(id)))})]

\* Errors of build_allocation(): nothing to choose, or not room for everything.
CanAllocate(u, n, risk) ==
  /\ n > 0
  /\ \E id \in DOMAIN strategies : Score(id, u, n, risk) > 0
  /\ Sum(PortfolioAllocation(u, n, risk), DOMAIN strategies) = n

Total(u) == MapThenSumSet(LAMBDA id : Compounded(positions[id][u], id).balance, Has(u))

CurrentApy(u) ==
  MapThenSumSet(LAMBDA id : Compounded(positions[id][u], id).balance
                              * DynamicApy(id, strategies[id].total), Has(u)) \div Total(u)

ProjectedApy(u, n, a) ==
  MapThenSumSet(LAMBDA id : a[id] * DynamicApy(id, BaseTvl(id, u) + a[id]),
                {id \in DOMAIN a : a[id] > 0}) \div n

\* The old positions leave the totals with what was deposited, without their
\* rewards; the new ones enter with all.
Rebalance(u, risk) ==
  LET n == Total(u)
      a == PortfolioAllocation(u, n, risk)
  IN /\ Has(u) # {} /\ CanAllocate(u, n, risk)
     /\ ProjectedApy(u, n, a) > CurrentApy(u)
     /\ strategies' = [id \in DOMAIN strategies |->
          [strategies[id] EXCEPT !.total = BaseTvl(id, u) + a[id]]]
     /\ positions' = [id \in DOMAIN positions |-> [positions[id] EXCEPT ![u] =
          IF a[id] = 0 THEN None ELSE [deposited |-> a[id], balance |-> a[id], at |-> now]]]
     /\ UNCHANGED <<initialized, configs, now>>

\* The preview does not take the user's own deposits out of the totals.
AutoRebalanceThreshold(u, risk, improvement) ==
  LET n == Total(u)
      a == PortfolioAllocation(None, n, risk)
  IN /\ Has(u) # {} /\ CanAllocate(None, n, risk)
     /\ ProjectedApy(None, n, a) - CurrentApy(u) >= improvement
     /\ Rebalance(u, risk)

-----------------------------------------------------------------------------
FarmingNext ==
  \/ InitializeFarming \/ Tick
  \/ \E apy \in Apy : AddStrategy(apy)
  \/ \E id \in DOMAIN strategies :
       \/ \E apy \in Apy : UpdateStrategyApy(id, apy)
       \/ \E active \in BOOLEAN : SetStrategyActive(id, active)
       \/ \E c \in Config : ConfigurePool(id, c)
       \/ \E u \in User : \/ Compound(u, id)
                          \/ \E n \in Amount : Deposit(u, id, n) \/ Withdraw(u, id, n)
  \/ \E u \in User :
       \/ CompoundAll(u)
       \/ \E risk \in 0..MaxRisk :
            \/ Rebalance(u, risk)
            \/ \E i \in Improvement : AutoRebalanceThreshold(u, risk, i)

-----------------------------------------------------------------------------
(* yield-optimizer *)

\* advanced_profile_or_default()
DefaultProfile == [fee |-> 0, cost |-> 0, minGain |-> 0, risk |-> 0]

OptimizerInit ==
  /\ initialized = FALSE /\ paused = FALSE
  /\ strategies = <<>> /\ profiles = <<>> /\ positions = <<>>
  /\ now = 0

InitializeOptimizer ==
  /\ ~initialized /\ initialized' = TRUE
  /\ UNCHANGED <<paused, strategies, profiles, positions, now>>

SetPaused(p) ==
  /\ initialized /\ paused' = p
  /\ UNCHANGED <<initialized, strategies, profiles, positions, now>>

AddScoredStrategy(apy) ==
  /\ initialized /\ Len(strategies) < MaxStrategies
  /\ strategies' = Append(strategies, [apy |-> apy, total |-> 0, active |-> TRUE])
  /\ profiles' = Append(profiles, DefaultProfile)
  /\ positions' = Append(positions, [u \in User |-> None])
  /\ UNCHANGED <<initialized, paused, now>>

UpdateApy(id, apy) ==
  /\ strategies' = [strategies EXCEPT ![id].apy = apy]
  /\ UNCHANGED <<initialized, paused, profiles, positions, now>>

SetScoredActive(id, active) ==
  /\ strategies' = [strategies EXCEPT ![id].active = active]
  /\ UNCHANGED <<initialized, paused, profiles, positions, now>>

ConfigureAdvancedStrategy(id, p) ==
  /\ profiles' = [profiles EXCEPT ![id] = p]
  /\ UNCHANGED <<initialized, paused, strategies, positions, now>>

-----------------------------------------------------------------------------
(* Positions *)

GrossReward(p, id) == (p.balance * strategies[id].apy * (now - p.at)) \div (Bps * Year)

\* A position that earns nothing keeps its old time.
Accrued(p, id) ==
  IF now = p.at \/ strategies[id].apy = 0 \/ p.balance = 0 THEN p
  ELSE [p EXCEPT !.balance = @ + GrossReward(p, id), !.at = now]

\* The position before a deposit or a move into the strategy.
Opened(u, id) ==
  IF id \in Has(u) THEN Accrued(positions[id][u], id)
  ELSE [deposited |-> 0, balance |-> 0, at |-> now]

Grown(p, n) == [deposited |-> p.deposited + n, balance |-> p.balance + n, at |-> now]

PutScored(u, id, p, total) ==
  /\ positions' = [positions EXCEPT ![id][u] = p]
  /\ strategies' = [strategies EXCEPT ![id].total = total]
  /\ UNCHANGED <<initialized, paused, profiles, now>>

DepositScored(u, id, n) ==
  /\ ~paused /\ strategies[id].active
  /\ strategies[id].total + n <= MaxTotal
  /\ PutScored(u, id, Grown(Opened(u, id), n), strategies[id].total + n)

\* The total counts deposits, but a withdrawal of rewards lowers it too.
WithdrawScored(u, id, n) ==
  LET p == Accrued(positions[id][u], id)
  IN /\ ~paused /\ id \in Has(u) /\ n <= p.balance
     /\ PutScored(u, id, IF p.balance = n THEN None
                   ELSE [deposited |-> p.deposited - Least(n, p.deposited),
                         balance |-> p.balance - n, at |-> now],
            strategies[id].total - Least(n, strategies[id].total))

CompoundScored(u, id) ==
  /\ ~paused /\ id \in Has(u)
  /\ PutScored(u, id, Accrued(positions[id][u], id), strategies[id].total)

\* compound_preview(): the fee and the cost are taken from the reward, and the
\* rest must be worth it.
CompoundProfitably(u, id) ==
  LET p == positions[id][u]
      gross == GrossReward(p, id)
      net == gross - (gross * profiles[id].fee) \div Bps - profiles[id].cost
  IN /\ ~paused /\ strategies[id].active /\ id \in Has(u)
     /\ net > 0 /\ net >= (p.balance * profiles[id].minGain) \div Bps
     /\ PutScored(u, id, [p EXCEPT !.balance = @ + net, !.at = now], strategies[id].total)

-----------------------------------------------------------------------------
(* Scores *)

NetApy(id) ==
  LET apy == strategies[id].apy
  IN Max({0, Max({0, apy - (apy * profiles[id].fee) \div Bps})
              - (apy * profiles[id].risk) \div RiskDivisor})

Candidates(risk) ==
  {id \in DOMAIN strategies :
     strategies[id].active /\ profiles[id].risk <= risk /\ NetApy(id) > 0}

\* best_advanced_strategy(): the first of the best
Best(risk) ==
  Min({id \in Candidates(risk) : \A k \in Candidates(risk) : NetApy(k) <= NetApy(id)})

TotalScore(risk) == MapThenSumSet(NetApy, Candidates(risk))

\* optimize_allocation(): weights by score; the best one gets what rounding left.
WeightAllocation(risk) ==
  LET weight(id) == (NetApy(id) * Bps) \div TotalScore(risk)
      residual == Bps - MapThenSumSet(weight, Candidates(risk))
  IN [id \in Candidates(risk) |-> weight(id) + (IF id = Best(risk) THEN residual ELSE 0)]

RebalanceToBest(u, from, risk) ==
  LET to == Best(risk)
      p == Accrued(positions[from][u], from)
  IN /\ ~paused
     /\ Candidates(risk) # {} /\ to # from
     /\ strategies[from].active
     /\ NetApy(to) > NetApy(from)
     /\ from \in Has(u) /\ p.balance > 0 /\ strategies[to].total + p.balance <= MaxTotal
     /\ strategies' = [strategies EXCEPT
          ![from].total = @ - Least(Least(p.deposited, p.balance), @),
          ![to].total = @ + p.balance]
     /\ positions' = [positions EXCEPT ![from][u] = None,
                                       ![to][u] = Grown(Opened(u, to), p.balance)]
     /\ UNCHANGED <<initialized, paused, profiles, now>>

-----------------------------------------------------------------------------
OptimizerNext ==
  \/ InitializeOptimizer \/ Tick
  \/ \E p \in BOOLEAN : SetPaused(p)
  \/ \E apy \in Apy : AddScoredStrategy(apy)
  \/ \E id \in DOMAIN strategies :
       \/ \E apy \in Apy : UpdateApy(id, apy)
       \/ \E active \in BOOLEAN : SetScoredActive(id, active)
       \/ \E p \in Profile : ConfigureAdvancedStrategy(id, p)
       \/ \E u \in User : \/ CompoundScored(u, id) \/ CompoundProfitably(u, id)
                          \/ \E n \in Amount : DepositScored(u, id, n) \/ WithdrawScored(u, id, n)
                          \/ \E risk \in 0..MaxRisk : RebalanceToBest(u, id, risk)

-----------------------------------------------------------------------------
(* The contract that runs *)

Init == FarmingInit /\ OptimizerInit

Next ==
  \/ Contract = "yield-farming" /\ FarmingNext /\ UNCHANGED optimizerVars
  \/ Contract = "yield-optimizer" /\ OptimizerNext /\ UNCHANGED farmingVars

Spec == Init /\ [][Next]_vars

-----------------------------------------------------------------------------
(* Properties *)

\* The total of a strategy is never less than what its users are owed, whoever
\* compounds, withdraws or moves away first; a position never counts more
\* deposited than it is worth.
TotalsCoverBalances ==
  \A id \in DOMAIN strategies :
    /\ strategies[id].total >= MapThenSumSet(LAMBDA u : positions[id][u].balance,
                                             {u \in User : id \in Has(u)})
    /\ \A u \in User : id \in Has(u) =>
         positions[id][u].balance > 0 /\ positions[id][u].deposited <= positions[id][u].balance

\* A call that moves a portfolio moves all of it and nothing else: no balance is
\* lost to the rounding of the shares, the pools stay within their capacity
\* and the largest share, and the other users' positions are as they were.
MovesWholePortfolio ==
  \A u \in User :
    Cardinality({id \in DOMAIN positions : id \in DOMAIN positions' /\ positions'[id][u] # positions[id][u]}) > 1
      => /\ Total(u) = MapThenSumSet(LAMBDA id : positions'[id][u].balance,
                                     {id \in DOMAIN positions : positions'[id][u] # None})
         /\ \A id \in DOMAIN positions :
              positions[id][u] = None /\ positions'[id][u] # None =>
                /\ positions'[id][u].balance * Bps <= Total(u) * configs[id].share
                /\ configs[id].capacity > 0 => strategies'[id].total <= configs[id].capacity
         /\ \A v \in User \ {u}, id \in DOMAIN positions : positions'[id][v] = positions[id][v]

\* The total of a strategy never counts more than the deposits of its users,
\* whatever was withdrawn or moved, and no position counts more deposited than
\* it is worth.
TotalsWithinDeposits ==
  \A id \in DOMAIN strategies :
    /\ strategies[id].total >= 0
    /\ strategies[id].total <= MapThenSumSet(LAMBDA u : positions[id][u].deposited,
                                             {u \in User : id \in Has(u)})
    /\ \A u \in User : id \in Has(u) => positions[id][u].deposited <= positions[id][u].balance

\* The weights of an allocation make up the whole, however they round.
WeightsComplete ==
  \A risk \in 0..MaxRisk :
    Candidates(risk) # {} => MapThenSumSet(LAMBDA id : WeightAllocation(risk)[id], Candidates(risk)) = Bps

Balance(u) == MapThenSumSet(LAMBDA id : positions[id][u].balance, Has(u))

\* A move between strategies loses nothing of what the user had, and nothing of
\* anybody else's.
MoveKeepsBalance ==
  \A u \in User :
    (\E from, to \in DOMAIN positions : from # to /\ positions'[from][u] # positions[from][u]
                                                /\ positions'[to][u] # positions[to][u])
      => /\ Balance(u)' >= Balance(u)
         /\ \A v \in User \ {u}, id \in DOMAIN positions : positions'[id][v] = positions[id][v]
=============================================================================
