---------------------------- MODULE MCComponents ----------------------------
(***************************************************************************)
(* Components that do not call each other: the services of the backend,     *)
(* composed in Services, and the contracts, each on a small instance.       *)
(*                                                                         *)
(* A behaviour is the steps of one component.  The services have their own   *)
(* variables; those of a contract are, in the order in which it declares     *)
(* them, the variables of this module.  A contract appears twice where two   *)
(* small instances reach what one large one would.                          *)
(***************************************************************************)
EXTENDS Services

CONSTANTS u1, u2, u3, k1, k2, t1, t2, h1, h2

VARIABLES s1, s2, s3, s4, s5, s6, s7, s8, s9, s10, s11, s12, s13, s14, s15, s16

contractVars ==
  <<s1, s2, s3, s4, s5, s6, s7, s8, s9, s10, s11, s12, s13, s14, s15, s16>>
vars == <<component, serviceVars, contractVars>>

SourceOfJob == [j \in {u1, u2, u3} |-> IF j = u3 THEN k2 ELSE k1]
ProcessOf == [x \in {u1, u2, u3, h1} |-> IF x = u3 THEN k2 ELSE k1]

\* The variables that a component with fewer of them has no use for.
Unused16 == s16 = 0
Unused15 == s15 = 0 /\ Unused16
Unused14 == s14 = 0 /\ Unused15
Unused13 == s13 = 0 /\ Unused14
Unused12 == s12 = 0 /\ Unused13
Unused11 == s11 = 0 /\ Unused12
Unused10 == s10 = 0 /\ Unused11
Unused9 == s9 = 0 /\ Unused10
Unused8 == s8 = 0 /\ Unused9
Unused7 == s7 = 0 /\ Unused8
Unused6 == s6 = 0 /\ Unused7
Unused5 == s5 = 0 /\ Unused6

Rest16 == <<component, serviceVars, s16>>
Rest15 == <<s15, Rest16>>
Rest14 == <<s14, Rest15>>
Rest13 == <<s13, Rest14>>
Rest12 == <<s12, Rest13>>
Rest11 == <<s11, Rest12>>
Rest10 == <<s10, Rest11>>
Rest9 == <<s9, Rest10>>
Rest8 == <<s8, Rest9>>
Rest7 == <<s7, Rest8>>
Rest6 == <<s6, Rest7>>
Rest5 == <<s5, Rest6>>

Escrow == INSTANCE Escrow WITH
  initialized <- s1, escrows <- s2, analytics <- s3, swaps <- s4, stats <- s5,
  held <- s6, now <- s7,
  Token <- {t1, t2}, Amount <- {1, 2}, MinLock <- 1, MaxLock <- 1,
  MaxMilestones <- 2, MaxEscrows <- 2, MaxSwaps <- 0, MaxTime <- 0

AtomicSwap == INSTANCE Escrow WITH
  initialized <- s1, escrows <- s2, analytics <- s3, swaps <- s4, stats <- s5,
  held <- s6, now <- s7,
  Token <- {t1, t2}, Amount <- {1, 2}, MinLock <- 1, MaxLock <- 2,
  MaxMilestones <- 1, MaxEscrows <- 0, MaxSwaps <- 2, MaxTime <- 2

AmmFees == INSTANCE Amms WITH
  baseFee <- s1, pool <- s2, config <- s3, volatility <- s4, twap <- s5,
  metrics <- s6, collection <- s7, now <- s8, initialized <- s9,
  paused <- s10, pools <- s11, protocolFee <- s12, feeBalance <- s13,
  held <- s14, nfts <- s15,
  Contract <- "amm-pool", Token <- {}, Nft <- {}, PoolType <- {},
  CurveType <- {}, ProtocolFee <- {0}, Price <- {}, Delta <- {},
  MaxPools <- 0, MaxNfts <- 0, MaxBalance <- 0, MaxPrice <- 0, MaxFees <- 0,
  Provider <- {u1}, Bps <- 10, Precision <- 10, MinLiquidity <- 1,
  Amount <- {1, 3}, Fee <- {1}, FloorPrice <- {},
  Config <- {[min |-> 0, max |-> 5, byVolatility |-> 10, byUtilization |-> 4, alpha |-> 5, window |-> 2, maxImpact |-> 8]},
  MaxReserve <- 5, MaxVolume <- 4, MaxTime <- 1

Amm == INSTANCE Amms WITH
  baseFee <- s1, pool <- s2, config <- s3, volatility <- s4, twap <- s5,
  metrics <- s6, collection <- s7, now <- s8, initialized <- s9,
  paused <- s10, pools <- s11, protocolFee <- s12, feeBalance <- s13,
  held <- s14, nfts <- s15,
  Contract <- "amm-pool", Token <- {}, Nft <- {}, PoolType <- {},
  CurveType <- {}, ProtocolFee <- {0}, Price <- {}, Delta <- {},
  MaxPools <- 0, MaxNfts <- 0, MaxBalance <- 0, MaxPrice <- 0, MaxFees <- 0,
  Provider <- {u1, u2}, Bps <- 10, Precision <- 10, MinLiquidity <- 1,
  Amount <- {1, 3}, Fee <- {0, 3}, FloorPrice <- {1}, Config <- {},
  MaxReserve <- 7, MaxVolume <- 4, MaxTime <- 0

Prediction == INSTANCE PredictionMarket WITH
  initialized <- s1, markets <- s2, pools <- s3, held <- s4, now <- s5,
  Owner <- {u1, u2}, Amount <- {1, 2}, Outcomes <- {2}, Scale <- 1000,
  MaxWindow <- 1, MaxMarkets <- 1, MaxLocked <- 3, MaxStakes <- 0, MaxTime <- 2,
  Deadline <- {1, 2}

PredictionPools == INSTANCE PredictionMarket WITH
  initialized <- s1, markets <- s2, pools <- s3, held <- s4, now <- s5,
  Owner <- {u1}, Amount <- {1}, Outcomes <- {2}, Scale <- 1000,
  MaxWindow <- 1, MaxMarkets <- 2, MaxLocked <- 2, MaxStakes <- 0, MaxTime <- 2,
  Deadline <- {1}

PredictionStakes == INSTANCE PredictionMarket WITH
  initialized <- s1, markets <- s2, pools <- s3, held <- s4, now <- s5,
  Owner <- {u1, u2, u3}, Amount <- {1, 2}, Outcomes <- {2}, Scale <- 1000,
  MaxWindow <- 1, MaxMarkets <- 1, MaxLocked <- 1, MaxStakes <- 4, MaxTime <- 1,
  Deadline <- {1}

Stablecoin == INSTANCE Stablecoin WITH
  initialized <- s1, coin <- s2, psm <- s3, now <- s4,
  User <- {u1, u2}, Amount <- {1, 2}, Bps <- 2, Scale <- 2, Target <- 2,
  Price <- {1}, Fee <- {1}, Ceiling <- {2}, Cooldown <- 1, MaxSupply <- 2,
  MaxFees <- 1, MaxReserve <- 1, MaxTime <- 1

Rebase == INSTANCE Stablecoin WITH
  initialized <- s1, coin <- s2, psm <- s3, now <- s4,
  User <- {u1}, Amount <- {1, 2}, Bps <- 2, Scale <- 2, Target <- 2,
  Price <- {1, 3}, Fee <- {0, 1}, Ceiling <- {2}, Cooldown <- 1,
  MaxSupply <- 2, MaxFees <- 1, MaxReserve <- 1, MaxTime <- 1

Perpetuals == INSTANCE Leverage WITH
  positions <- s1, now <- s2, initialized <- s3, paused <- s4, vamm <- s5,
  origin <- s6, funding <- s7, accumulator <- s8, params <- s9, token <- s10,
  assets <- s11, held <- s12,
  Contract <- "perpetuals", Asset <- {}, Token <- {t1}, PriceScale <- 1,
  MaxRatio <- 0, MaxAge <- 0, MaxDeviation <- 0, InitialMargin <- 0,
  MinTradeMargin <- 0, Params <- {}, Price <- {}, Amount <- {},
  Leverage <- {}, MaxDebts <- 0, MaxTrades <- 0, MaxCollateral <- 0,
  Precision <- 10, Bps <- 10, MaxRate <- 4, MaintenanceMargin <- 1,
  Period <- 1, I64Limit <- 50, Reserve <- {3}, IndexPrice <- {5, 10},
  Size <- {1, 2}, Collateral <- {1}, MaxPositions <- 2, MaxTime <- 1

FarmingPortfolio == INSTANCE YieldStrategies WITH
  initialized <- s1, strategies <- s2, positions <- s3, now <- s4,
  configs <- s5, paused <- s6, profiles <- s7,
  Contract <- "yield-farming", RiskDivisor <- 1, Profile <- {}, User <- {u1},
  Bps <- 4, Year <- 1, MaxRisk <- 1, Apy <- {2},
  Config <- {[rewards |-> 4, capacity |-> 3, fee |-> 0, risk |-> 0, share |-> 2]},
  Improvement <- {1}, Amount <- {1, 2}, MaxStrategies <- 2, MaxTotal <- 3,
  MaxTime <- 1

Farming == INSTANCE YieldStrategies WITH
  initialized <- s1, strategies <- s2, positions <- s3, now <- s4,
  configs <- s5, paused <- s6, profiles <- s7,
  Contract <- "yield-farming", RiskDivisor <- 1, Profile <- {},
  User <- {u1, u2}, Bps <- 4, Year <- 1, MaxRisk <- 1, Apy <- {1, 2},
  Config <- {[rewards |-> 4, capacity |-> 3, fee |-> 0, risk |-> 0, share |-> 2]},
  Improvement <- {1}, Amount <- {1, 2}, MaxStrategies <- 1, MaxTotal <- 4,
  MaxTime <- 2

Optimizer == INSTANCE YieldStrategies WITH
  initialized <- s1, strategies <- s2, positions <- s3, now <- s4,
  configs <- s5, paused <- s6, profiles <- s7,
  Contract <- "yield-optimizer", Config <- {}, Improvement <- {},
  User <- {u1}, Bps <- 4, Year <- 1, RiskDivisor <- 4, MaxRisk <- 1,
  Apy <- {4}, Profile <- {[fee |-> 1, cost |-> 0, minGain |-> 0, risk |-> 1]},
  Amount <- {1, 2}, MaxStrategies <- 2, MaxTotal <- 3, MaxTime <- 1

OptimizerUsers == INSTANCE YieldStrategies WITH
  initialized <- s1, strategies <- s2, positions <- s3, now <- s4,
  configs <- s5, paused <- s6, profiles <- s7,
  Contract <- "yield-optimizer", Config <- {}, Improvement <- {},
  User <- {u1, u2}, Bps <- 4, Year <- 1, RiskDivisor <- 4, MaxRisk <- 1,
  Apy <- {0, 4},
  Profile <- {[fee |-> 1, cost |-> 0, minGain |-> 0, risk |-> 1]},
  Amount <- {1, 2}, MaxStrategies <- 1, MaxTotal <- 3, MaxTime <- 1

Synthetic == INSTANCE Leverage WITH
  positions <- s1, now <- s2, initialized <- s3, paused <- s4, vamm <- s5,
  origin <- s6, funding <- s7, accumulator <- s8, params <- s9, token <- s10,
  assets <- s11, held <- s12,
  Contract <- "synthetic-assets", Precision <- 1, MaxRate <- 0,
  MaintenanceMargin <- 0, Period <- 1, I64Limit <- 1, Reserve <- {}, IndexPrice <- {},
  Size <- {}, MaxPositions <- 0, Asset <- {k1}, Token <- {t1}, Bps <- 10,
  PriceScale <- 1, MaxRatio <- 100, MaxAge <- 1, MaxDeviation <- 5,
  InitialMargin <- 1, MinTradeMargin <- 1,
  Params <- {[ratio |-> 15, threshold |-> 12, bonus |-> 2], [ratio |-> 12, threshold |-> 10, bonus |-> 2]},
  Price <- {2, 3}, Amount <- {1, 2}, Collateral <- {3, 5},
  Leverage <- {10, 30}, MaxDebts <- 1, MaxTrades <- 1, MaxCollateral <- 6,
  MaxTime <- 2

NftCurve == INSTANCE Amms WITH
  baseFee <- s1, pool <- s2, config <- s3, volatility <- s4, twap <- s5,
  metrics <- s6, collection <- s7, now <- s8, initialized <- s9,
  paused <- s10, pools <- s11, protocolFee <- s12, feeBalance <- s13,
  held <- s14, nfts <- s15,
  Contract <- "nft-amm", Provider <- {}, Precision <- 1, MinLiquidity <- 0,
  Config <- {}, FloorPrice <- {}, MaxReserve <- 0, MaxVolume <- 0,
  MaxTime <- 0, Token <- {t1}, Nft <- {k1},
  PoolType <- {"Buy", "Sell", "Trade"},
  CurveType <- {"Linear", "Exponential"}, Bps <- 4, ProtocolFee <- {1},
  Fee <- {0, 1}, Price <- {4}, Delta <- {1}, Amount <- {1, 4}, MaxPools <- 1,
  MaxNfts <- 2, MaxBalance <- 7, MaxPrice <- 5, MaxFees <- 1

NftPools == INSTANCE Amms WITH
  baseFee <- s1, pool <- s2, config <- s3, volatility <- s4, twap <- s5,
  metrics <- s6, collection <- s7, now <- s8, initialized <- s9,
  paused <- s10, pools <- s11, protocolFee <- s12, feeBalance <- s13,
  held <- s14, nfts <- s15,
  Contract <- "nft-amm", Provider <- {}, Precision <- 1, MinLiquidity <- 0,
  Config <- {}, FloorPrice <- {}, MaxReserve <- 0, MaxVolume <- 0,
  MaxTime <- 0, Token <- {t1, t2}, Nft <- {k1}, PoolType <- {"Trade"},
  CurveType <- {"Linear"}, Bps <- 4, ProtocolFee <- {1}, Fee <- {0},
  Price <- {4}, Delta <- {0}, Amount <- {1, 4}, MaxPools <- 2, MaxNfts <- 1,
  MaxBalance <- 4, MaxPrice <- 4, MaxFees <- 1

Option == INSTANCE OptionsProtocol WITH
  initialized <- s1, paused <- s2, config <- s3, price <- s4, options <- s5,
  accounts <- s6, held <- s7, now <- s8,
  Contract <- "options-protocol", MinMargin <- 0, Premium <- {},
  Writer <- {u1}, Scale <- 1, Bps <- 2, Margin <- {1}, MaxAge <- 1,
  Price <- {2, 4}, Amount <- {1}, Payout <- {3}, Deposit <- {2},
  MaxOptions <- 1, MaxBalance <- 4, MaxTime <- 2

Options == INSTANCE OptionsProtocol WITH
  initialized <- s1, paused <- s2, config <- s3, price <- s4, options <- s5,
  accounts <- s6, held <- s7, now <- s8,
  Contract <- "options-protocol", MinMargin <- 0, Premium <- {},
  Writer <- {u1}, Scale <- 1, Bps <- 2, Margin <- {1}, MaxAge <- 1,
  Price <- {2, 4}, Amount <- {1}, Payout <- {3}, Deposit <- {2},
  MaxOptions <- 2, MaxBalance <- 4, MaxTime <- 1

Bridge == INSTANCE CrossChainBridge WITH
  settings <- s1, paused <- s2, relayers <- s3, validators <- s4,
  deposits <- s5, proofs <- s6, voted <- s7, stats <- s8, volume <- s9,
  now <- s10,
  Relayer <- {u1}, Validator <- {k1, k2}, Hash <- {h1, h2}, Bps <- 2,
  Day <- 1, Fee <- {1}, Expiry <- {0}, Limit <- {4}, Quorum <- {2},
  Amount <- {2, 3}, MaxDeposits <- 2, MaxTime <- 1

Syndication == INSTANCE Credit WITH
  initialized <- s1, paused <- s2, positions <- s3, deposited <- s4,
  borrowed <- s5, badDebt <- s6, loans <- s7, principals <- s8, held <- s9,
  now <- s10,
  Contract <- "loan-syndication", User <- {}, MaxDeposited <- 0,
  MaxScore <- 0, Lender <- {u1, u2}, Bps <- 2,
  Terms <- {[target |-> [Senior |-> 2, Junior |-> 1], yield |-> [Senior |-> 1, Junior |-> 2], deadline |-> 1, maturity |-> 2, grace |-> 0]},
  Amount <- {1, 2}, MaxLoans <- 1, MaxTime <- 2

Loans == INSTANCE Credit WITH
  initialized <- s1, paused <- s2, positions <- s3, deposited <- s4,
  borrowed <- s5, badDebt <- s6, loans <- s7, principals <- s8, held <- s9,
  now <- s10,
  Contract <- "loan-syndication", User <- {}, MaxDeposited <- 0,
  MaxScore <- 0, Lender <- {u1}, Bps <- 2,
  Terms <- {[target |-> [Senior |-> 2, Junior |-> 1], yield |-> [Senior |-> 1, Junior |-> 2], deadline |-> 1, maturity |-> 2, grace |-> 0]},
  Amount <- {1, 2}, MaxLoans <- 2, MaxTime <- 2

Fractional == INSTANCE NftFractional WITH
  config <- s1, status <- s2, owner <- s3, shares <- s4, allowance <- s5,
  supply <- s6, proceeds <- s7, auction <- s8, held <- s9, now <- s10,
  assets <- s11, paused <- s12,
  Contract <- "nft-fractional", Total <- {}, Weight <- {}, MaxAssets <- 0,
  MaxHolding <- 0, MaxIncome <- 0, MaxWeights <- 0, User <- {u1, u2},
  Vault <- u3, Bps <- 4,
  Config <- {[supply |-> 3, reserve |-> 2, duration |-> 1, increment |-> 1]},
  Amount <- {1}, MaxBid <- 4, MaxTime <- 1

Aggregator == INSTANCE DexAggregator WITH
  settings <- s1, pools <- s2, accrued <- s3, orders <- s4, volume <- s5,
  paused <- s6,
  Contract <- "dex-aggregator", ScanLimit <- 0, Price <- {}, Quantity <- {},
  MaxOrders <- 0, Token <- {t1, t2, u3}, Bps <- 10, MaxImpact <- 5,
  MaxHops <- {2}, Fee <- {1}, Reserve <- {4}, Amount <- {2}, MaxPools <- 2,
  MaxReserve <- 6, MaxAccrued <- 0

Governance == INSTANCE Governance WITH
  settings <- s1, balance <- s2, supply <- s3, delegate <- s4,
  proposals <- s5, wasm <- s6, pending <- s7, now <- s8, allowed <- s9,
  paused <- s10,
  Contract <- "governance", Holder <- {u1, u2}, Wasm <- {k1, k2}, Bps <- 4,
  Depth <- 8, MinDelay <- 1,
  Settings <- {[quorum |-> 2, period |-> 0, delay |-> 1, deposit |-> 1]},
  Amount <- {1}, MaxProposals <- 1, MaxSupply <- 2, MaxTime <- 1

Patents == INSTANCE Registries WITH
  initialized <- s1, paused <- s2, patents <- s3, licenses <- s4,
  disputes <- s5, escrows <- s6, milestones <- s7, inspectors <- s8,
  handlers <- s9, products <- s10, slas <- s11, logs <- s12, penalties <- s13,
  now <- s14,
  Contract <- "patent-registry", Person <- {}, Status <- {},
  Temperature <- {}, Agreement <- {}, MaxProducts <- 0, MaxCheckpoints <- 0,
  MaxSlas <- 0, MaxPenalties <- 0, MaxTime <- 0, User <- {u1},
  Stride <- 10000, Amount <- {1, 2}, MaxPatents <- 1, MaxLicenses <- 1,
  MaxDisputes <- 1, MaxEscrows <- 1, MaxMilestones <- 2

Insurance == INSTANCE ParametricInsurance WITH
  initialized <- s1, configured <- s2, oracle <- s3, reading <- s4,
  products <- s5, policies <- s6, reserved <- s7, held <- s8, now <- s9,
  claims <- s10, paused <- s11,
  Contract <- "parametric-insurance", Person <- {}, Window <- 0,
  MinVotes <- 0, MaxClaims <- 0, Value <- {1, 2}, Staleness <- 1, MaxAge <- 1,
  Premium <- {1}, Coverage <- {2}, Term <- {1}, Amount <- {2},
  MaxProducts <- 1, MaxPolicies <- 2, MaxHeld <- 4, MaxTime <- 2

Supply == INSTANCE Registries WITH
  initialized <- s1, paused <- s2, patents <- s3, licenses <- s4,
  disputes <- s5, escrows <- s6, milestones <- s7, inspectors <- s8,
  handlers <- s9, products <- s10, slas <- s11, logs <- s12, penalties <- s13,
  now <- s14,
  Contract <- "supply-chain", User <- {}, Stride <- 0, Amount <- {},
  MaxPatents <- 0, MaxLicenses <- 0, MaxDisputes <- 0, MaxEscrows <- 0,
  MaxMilestones <- 0, Person <- {u1}, Status <- {"Delivered"},
  Temperature <- {0, 3, 7},
  Agreement <- {[min |-> 0, max |-> 6, penalty |-> 1, duration |-> 0], [min |-> 2, max |-> 3, penalty |-> 2, duration |-> 1]},
  MaxProducts <- 1, MaxCheckpoints <- 1, MaxSlas <- 2, MaxPenalties <- 1,
  MaxTime <- 1

Energy == INSTANCE Marketplaces WITH
  initialized <- s1, meters <- s2, trades <- s3, balance <- s4, traded <- s5,
  running <- s6, providers <- s7, datasets <- s8, listed <- s9,
  licenses <- s10, buyers <- s11, receipts <- s12, now <- s13,
  Contract <- "energy-trading", Provider <- {}, Buyer <- {}, Commitment <- {},
  ActiveCap <- 0, Duration <- {}, Count <- {}, MaxDatasets <- 0,
  MaxSpent <- 0, MaxTime <- 0, User <- {u1, u2},
  Reading <- {<<1, 0>>, <<1, 1>>}, Amount <- {1}, Price <- {1},
  MaxMeters <- 2, MaxGenerated <- 1, MaxConsumed <- 0, MaxTrades <- 4

Staking == INSTANCE StakingDerivatives WITH
  settings <- s1, paused <- s2, rate <- s3, accrued <- s4, lst <- s5,
  totalLst <- s6, staked <- s7, rewards <- s8, queue <- s9, unbonding <- s10,
  held <- s11, delegated <- s12, now <- s13,
  Contract <- "staking-derivatives", Staker <- {u1}, Validator <- {k1},
  Precision <- 2, Bps <- 2, Year <- 1, RewardRate <- {1}, Period <- {1},
  Amount <- {1, 3}, Shares <- {1}, Reward <- {1}, MaxRate <- 5,
  MaxStaked <- 4, MaxEntries <- 2, MaxDelegated <- 1, MaxTime <- 2

Stakers == INSTANCE StakingDerivatives WITH
  settings <- s1, paused <- s2, rate <- s3, accrued <- s4, lst <- s5,
  totalLst <- s6, staked <- s7, rewards <- s8, queue <- s9, unbonding <- s10,
  held <- s11, delegated <- s12, now <- s13,
  Contract <- "staking-derivatives", Staker <- {u1, u2}, Validator <- {k1},
  Precision <- 2, Bps <- 2, Year <- 1, RewardRate <- {1}, Period <- {1},
  Amount <- {1, 2}, Shares <- {1}, Reward <- {1}, MaxRate <- 5,
  MaxStaked <- 3, MaxEntries <- 1, MaxDelegated <- 1, MaxTime <- 1

StakedTokens == INSTANCE StakingDerivatives WITH
  settings <- s1, paused <- s2, rate <- s3, accrued <- s4, lst <- s5,
  totalLst <- s6, staked <- s7, rewards <- s8, queue <- s9, unbonding <- s10,
  held <- s11, delegated <- s12, now <- s13,
  Contract <- "staking", Staker <- {u1, u2}, Validator <- {}, Precision <- 1,
  Bps <- 1, Year <- 1, RewardRate <- {}, Period <- {1}, Amount <- {1, 2},
  Shares <- {1, 2}, Reward <- {}, MaxRate <- 1, MaxStaked <- 3,
  MaxEntries <- 2, MaxDelegated <- 0, MaxTime <- 1

Treasury == INSTANCE Treasuries WITH
  initialized <- s1, held <- s2, count <- s3, campaigns <- s4,
  milestones <- s5, donations <- s6, impact <- s7, validators <- s8,
  votes <- s9, paused <- s10, threshold <- s11, role <- s12,
  signerCount <- s13, txs <- s14, approved <- s15, now <- s16,
  Contract <- "dao-treasury", Donor <- {}, Validator <- {},
  Administrator <- u3, Goal <- {}, Target <- {}, Count <- {1},
  MaxCampaigns <- 0, MaxDonations <- 0, MaxAllocated <- 0,
  Address <- {u1, u2}, Timelock <- 1, Expiry <- 2, Threshold <- {1, 2},
  Amount <- {1}, MaxTxs <- 1, MaxHeld <- 1, MaxTime <- 3

Payments == INSTANCE Treasuries WITH
  initialized <- s1, held <- s2, count <- s3, campaigns <- s4,
  milestones <- s5, donations <- s6, impact <- s7, validators <- s8,
  votes <- s9, paused <- s10, threshold <- s11, role <- s12,
  signerCount <- s13, txs <- s14, approved <- s15, now <- s16,
  Contract <- "dao-treasury", Donor <- {}, Validator <- {},
  Administrator <- u3, Goal <- {}, Target <- {}, Count <- {1},
  MaxCampaigns <- 0, MaxDonations <- 0, MaxAllocated <- 0, Address <- {u1},
  Timelock <- 1, Expiry <- 1, Threshold <- {1, 2}, Amount <- {1}, MaxTxs <- 2,
  MaxHeld <- 2, MaxTime <- 2

Charity == INSTANCE Treasuries WITH
  initialized <- s1, held <- s2, count <- s3, campaigns <- s4,
  milestones <- s5, donations <- s6, impact <- s7, validators <- s8,
  votes <- s9, paused <- s10, threshold <- s11, role <- s12,
  signerCount <- s13, txs <- s14, approved <- s15, now <- s16,
  Contract <- "charity-tracker", Address <- {}, Timelock <- 0, Expiry <- 0,
  Threshold <- {}, MaxTxs <- 0, MaxHeld <- 0, MaxTime <- 0, Donor <- {u1},
  Validator <- {u2}, Administrator <- u3, Goal <- {2}, Target <- {1, 3},
  Amount <- {1}, Count <- {1}, MaxCampaigns <- 1, MaxDonations <- 2,
  MaxAllocated <- 1

Charities == INSTANCE Treasuries WITH
  initialized <- s1, held <- s2, count <- s3, campaigns <- s4,
  milestones <- s5, donations <- s6, impact <- s7, validators <- s8,
  votes <- s9, paused <- s10, threshold <- s11, role <- s12,
  signerCount <- s13, txs <- s14, approved <- s15, now <- s16,
  Contract <- "charity-tracker", Address <- {}, Timelock <- 0, Expiry <- 0,
  Threshold <- {}, MaxTxs <- 0, MaxHeld <- 0, MaxTime <- 0, Donor <- {u1},
  Validator <- {}, Administrator <- u3, Goal <- {2}, Target <- {1},
  Amount <- {1}, Count <- {1}, MaxCampaigns <- 2, MaxDonations <- 2,
  MaxAllocated <- 0

Marketplace == INSTANCE Marketplaces WITH
  initialized <- s1, meters <- s2, trades <- s3, balance <- s4, traded <- s5,
  running <- s6, providers <- s7, datasets <- s8, listed <- s9,
  licenses <- s10, buyers <- s11, receipts <- s12, now <- s13,
  Contract <- "data-marketplace", User <- {}, Reading <- {}, Amount <- {},
  MaxMeters <- 0, MaxGenerated <- 0, MaxConsumed <- 0, MaxTrades <- 0,
  Provider <- {u1}, Buyer <- {u2}, Commitment <- {h1, h2}, ActiveCap <- 1,
  Price <- {1}, Duration <- {1}, Count <- {1, 2}, MaxDatasets <- 1,
  MaxSpent <- 5, MaxTime <- 2

DataBuyers == INSTANCE Marketplaces WITH
  initialized <- s1, meters <- s2, trades <- s3, balance <- s4, traded <- s5,
  running <- s6, providers <- s7, datasets <- s8, listed <- s9,
  licenses <- s10, buyers <- s11, receipts <- s12, now <- s13,
  Contract <- "data-marketplace", User <- {}, Reading <- {}, Amount <- {},
  MaxMeters <- 0, MaxGenerated <- 0, MaxConsumed <- 0, MaxTrades <- 0,
  Provider <- {u1}, Buyer <- {u1, u2}, Commitment <- {h1, h2}, ActiveCap <- 1,
  Price <- {1}, Duration <- {1}, Count <- {1}, MaxDatasets <- 2,
  MaxSpent <- 2, MaxTime <- 0

Schedules == INSTANCE Vesting WITH
  initialized <- s1, schedules <- s2, grants <- s3, unlocks <- s4, pool <- s5,
  tranches <- s6, votes <- s7, held <- s8, now <- s9,
  Contract <- {"token-vesting", "vesting"}, Person <- {u1}, Bps <- 4,
  Amount <- {3}, Period <- {<<0, 1, 3>>}, Split <- {<<1, 3>>}, Quorum <- {2},
  Duration <- {1}, MaxSchedules <- 2, MaxTranches <- 0, MaxAllocation <- 0,
  MaxHeld <- 0, MaxTime <- 3

Tranches == INSTANCE Vesting WITH
  initialized <- s1, schedules <- s2, grants <- s3, unlocks <- s4, pool <- s5,
  tranches <- s6, votes <- s7, held <- s8, now <- s9,
  Contract <- {"vc-vesting"}, Person <- {u1, u2}, Bps <- 4, Amount <- {1, 2},
  Period <- {<<0, 1, 3>>}, Split <- {<<1, 3>>}, Quorum <- {2},
  Duration <- {1}, MaxSchedules <- 0, MaxTranches <- 1, MaxAllocation <- 3,
  MaxHeld <- 3, MaxTime <- 2

LendingPool == INSTANCE Credit WITH
  initialized <- s1, paused <- s2, positions <- s3, deposited <- s4,
  borrowed <- s5, badDebt <- s6, loans <- s7, principals <- s8, held <- s9,
  now <- s10,
  Contract <- "lending-pool", Lender <- {}, Bps <- 0, Terms <- {},
  MaxLoans <- 0, MaxTime <- 0, User <- {u1, u2}, Amount <- {1, 2, 3},
  MaxDeposited <- 5, MaxScore <- 5

LendingProtocol == INSTANCE Credit WITH
  initialized <- s1, paused <- s2, positions <- s3, deposited <- s4,
  borrowed <- s5, badDebt <- s6, loans <- s7, principals <- s8, held <- s9,
  now <- s10,
  Contract <- "lending-protocol", Lender <- {}, Bps <- 0, Terms <- {},
  MaxLoans <- 0, MaxTime <- 0, User <- {u1, u2}, Amount <- {1, 2, 3},
  MaxDeposited <- 6, MaxScore <- 10

PriceAggregator == INSTANCE PriceOracles WITH
  config <- s1, paused <- s2, sources <- s3, last <- s4, asset <- s5,
  observations <- s6, now <- s7,
  Contract <- "price-aggregator", Bps <- 10, MaxSources <- 3,
  Config <- {[strategy |-> "Median", age |-> 1, outlier |-> 2, breaker |-> 5, least |-> 1]},
  Strategy <- {"Median", "WeightedAverage", "TrimmedMean"},
  Price <- {4, 5, 9}, Weight <- {1}, MaxReporters <- 0, MaxObservations <- 0,
  MaxTime <- 0

PriceFeed == INSTANCE PriceOracles WITH
  config <- s1, paused <- s2, sources <- s3, last <- s4, asset <- s5,
  observations <- s6, now <- s7,
  Contract <- "price-feed-aggregator", Bps <- 10, MaxSources <- 3,
  Config <- {[strategy |-> "Median", age |-> 1, outlier |-> 2, breaker |-> 5, least |-> 1]},
  Strategy <- {"Median", "WeightedAverage", "TrimmedMean"},
  Price <- {4, 5, 9}, Weight <- {1}, MaxReporters <- 0, MaxObservations <- 0,
  MaxTime <- 0

AgingPrices == INSTANCE PriceOracles WITH
  config <- s1, paused <- s2, sources <- s3, last <- s4, asset <- s5,
  observations <- s6, now <- s7,
  Contract <- "price-aggregator", Bps <- 10, MaxSources <- 2,
  Config <- {[strategy |-> "Median", age |-> 1, outlier |-> 2, breaker |-> 5, least |-> 1]},
  Strategy <- {"WeightedAverage"}, Price <- {4, 5}, Weight <- {1, 2},
  MaxReporters <- 0, MaxObservations <- 0, MaxTime <- 2

MedianOracle == INSTANCE PriceOracles WITH
  config <- s1, paused <- s2, sources <- s3, last <- s4, asset <- s5,
  observations <- s6, now <- s7,
  Contract <- "oracle", Bps <- 10, MaxSources <- 2,
  Config <- {[strategy |-> "Median", age |-> 1, outlier |-> 0, breaker |-> 0, least |-> 1], [strategy |-> "Median", age |-> 2, outlier |-> 0, breaker |-> 0, least |-> 2]},
  Strategy <- {}, Price <- {4, 5}, Weight <- {}, MaxReporters <- 3,
  MaxObservations <- 0, MaxTime <- 1

InsuredPrices == INSTANCE PriceOracles WITH
  config <- s1, paused <- s2, sources <- s3, last <- s4, asset <- s5,
  observations <- s6, now <- s7,
  Contract <- "insurance-oracle", Bps <- 10, MaxSources <- 3,
  Config <- {[strategy |-> "Median", age |-> 1, outlier |-> 2, breaker |-> 5, least |-> 1]},
  Strategy <- {}, Price <- {4, 5, 9}, Weight <- {}, MaxReporters <- 2,
  MaxObservations <- 0, MaxTime <- 2

Twaps == INSTANCE PriceOracles WITH
  config <- s1, paused <- s2, sources <- s3, last <- s4, asset <- s5,
  observations <- s6, now <- s7,
  Contract <- "twap-oracle", Bps <- 10, MaxSources <- 3,
  Config <- {[strategy |-> "Median", age |-> 1, outlier |-> 2, breaker |-> 5, least |-> 1]},
  Strategy <- {}, Price <- {4, 9}, Weight <- {}, MaxReporters <- 1,
  MaxObservations <- 3, MaxTime <- 3

WeatherRecords == INSTANCE DataOracles WITH
  initialized <- s1, paused <- s2, breaker <- s3, threshold <- s4,
  range <- s5, sources <- s6, records <- s7,
  Contract <- "weather-data-oracle", Source <- {u1, u2, u3}, Threshold <- {2},
  Value <- {1, 2}, Normal <- {<<1, 1>>, <<1, 2>>}, Key <- {h1},
  Status <- {"InTransit", "Finalized", "Disputed"}, MaxSources <- 2,
  MaxRecords <- 1, MaxConfirmations <- 3, MaxEvents <- 4

WeatherReports == INSTANCE DataOracles WITH
  initialized <- s1, paused <- s2, breaker <- s3, threshold <- s4,
  range <- s5, sources <- s6, records <- s7,
  Contract <- "weather-oracle", Source <- {u1, u2}, Threshold <- {2},
  Value <- {1}, Normal <- {<<1, 1>>, <<1, 2>>}, Key <- {h1, h2},
  Status <- {"InTransit", "Finalized", "Disputed"}, MaxSources <- 2,
  MaxRecords <- 2, MaxConfirmations <- 3, MaxEvents <- 4

Shipments == INSTANCE DataOracles WITH
  initialized <- s1, paused <- s2, breaker <- s3, threshold <- s4,
  range <- s5, sources <- s6, records <- s7,
  Contract <- "supply-chain-oracle", Source <- {u1, u2}, Threshold <- {1, 3},
  Value <- {1, 2}, Normal <- {<<1, 1>>, <<1, 2>>}, Key <- {h1},
  Status <- {"InTransit", "Finalized", "Disputed"}, MaxSources <- 2,
  MaxRecords <- 1, MaxConfirmations <- 3, MaxEvents <- 4

Logistics == INSTANCE DataOracles WITH
  initialized <- s1, paused <- s2, breaker <- s3, threshold <- s4,
  range <- s5, sources <- s6, records <- s7,
  Contract <- "supply-chain-data-oracle", Source <- {u1, u2},
  Threshold <- {1, 3}, Value <- {1, 2}, Normal <- {<<1, 1>>, <<1, 2>>},
  Key <- {h1}, Status <- {"Delivered", "Verified", "Finalized"},
  MaxSources <- 2, MaxRecords <- 1, MaxConfirmations <- 3, MaxEvents <- 4

SportsResults == INSTANCE DataOracles WITH
  initialized <- s1, paused <- s2, breaker <- s3, threshold <- s4,
  range <- s5, sources <- s6, records <- s7,
  Contract <- "sports-results-oracle", Source <- {u1, u2}, Threshold <- {2},
  Value <- {1, 2}, Normal <- {<<1, 1>>, <<1, 2>>}, Key <- {h1},
  Status <- {"InTransit", "Finalized", "Disputed"}, MaxSources <- 2,
  MaxRecords <- 1, MaxConfirmations <- 3, MaxEvents <- 4

Risks == INSTANCE DataOracles WITH
  initialized <- s1, paused <- s2, breaker <- s3, threshold <- s4,
  range <- s5, sources <- s6, records <- s7,
  Contract <- "insurance-oracle", Source <- {u1, u2, u3}, Threshold <- {1},
  Value <- {1, 2}, Normal <- {<<1, 1>>, <<1, 2>>}, Key <- {h1},
  Status <- {"InTransit", "Finalized", "Disputed"}, MaxSources <- 2,
  MaxRecords <- 1, MaxConfirmations <- 3, MaxEvents <- 4

SportsBets == INSTANCE SportsBetting WITH
  initialized <- s1, paused <- s2, oracles <- s3, markets <- s4, held <- s5,
  now <- s6,
  Contract <- "sports-betting", Bettor <- {u1, u2}, Oracle <- {k1, k2},
  MaxOracles <- 2, Threshold <- {1, 2}, MaxMarkets <- 1, MaxPool <- 4,
  MaxTime <- 3, Outcome <- {1, 2}, Prefix <- [x \in {u1, u2} |-> u1],
  Odds <- {0, 1}, Bps <- 4, FeeBps <- 1, Schedule <- {<<1, 2>>},
  Amount <- {1, 2}

SportsMarkets == INSTANCE SportsBetting WITH
  initialized <- s1, paused <- s2, oracles <- s3, markets <- s4, held <- s5,
  now <- s6,
  Contract <- "sports-betting", Bettor <- {u1}, Oracle <- {k1},
  MaxOracles <- 1, Threshold <- {1}, MaxMarkets <- 2, MaxPool <- 2,
  MaxTime <- 2, Outcome <- {1, 2}, Prefix <- [x \in {u1, u2} |-> u1],
  Odds <- {0, 1}, Bps <- 4, FeeBps <- 1, Schedule <- {<<1, 2>>},
  Amount <- {1, 2}

Positions == INSTANCE SportsBetting WITH
  initialized <- s1, paused <- s2, oracles <- s3, markets <- s4, held <- s5,
  now <- s6,
  Contract <- "sports-prediction-market", Bettor <- {u1, u2}, Oracle <- {},
  MaxOracles <- 0, Threshold <- {}, MaxMarkets <- 1, MaxPool <- 3,
  MaxTime <- 1, Outcome <- {1, 2}, Prefix <- [x \in {u1, u2} |-> u1],
  Odds <- {0, 1}, Bps <- 4, FeeBps <- 1, Schedule <- {<<1, 2>>},
  Amount <- {1, 2}

Predictions == INSTANCE SportsBetting WITH
  initialized <- s1, paused <- s2, oracles <- s3, markets <- s4, held <- s5,
  now <- s6,
  Contract <- "sports-prediction", Bettor <- {u1, u2}, Oracle <- {},
  MaxOracles <- 0, Threshold <- {}, MaxMarkets <- 1, MaxPool <- 4,
  MaxTime <- 1, Outcome <- {1, 2}, Prefix <- [x \in {u1, u2} |-> u1],
  Odds <- {0, 1}, Bps <- 4, FeeBps <- 1, Schedule <- {<<1, 2>>},
  Amount <- {1, 2}

Proxy == INSTANCE Upgrades WITH
  proxy <- s1, upgraders <- s2, proposals <- s3, proposed <- s4,
  versions <- s5, version <- s6, now <- s7, self <- s8, utils <- s9,
  migrations <- s10, batches <- s11, checks <- s12, transfers <- s13,
  rollbacks <- s14,
  Contract <- {"proxy-pattern"}, Address <- {u1, u2}, Implementation <- {k1},
  Delay <- {0, 1}, Hash <- {h1, h2}, MaxProposals <- 1, MaxVersions <- 2,
  MaxVotes <- 2, MaxTime <- 2, MaxMigrations <- 1, MaxBatches <- 1,
  MaxOps <- 2, MaxChecks <- 1, MaxTransfers <- 1

Migrations == INSTANCE Upgrades WITH
  proxy <- s1, upgraders <- s2, proposals <- s3, proposed <- s4,
  versions <- s5, version <- s6, now <- s7, self <- s8, utils <- s9,
  migrations <- s10, batches <- s11, checks <- s12, transfers <- s13,
  rollbacks <- s14,
  Contract <- {"migration-utils"}, Address <- {u1, u2},
  Implementation <- {k1}, Delay <- {0, 1}, Hash <- {h1, h2},
  MaxProposals <- 1, MaxVersions <- 2, MaxVotes <- 2, MaxTime <- 2,
  MaxMigrations <- 1, MaxBatches <- 1, MaxOps <- 2, MaxChecks <- 1,
  MaxTransfers <- 1

SelfUpgrade == INSTANCE Upgrades WITH
  proxy <- s1, upgraders <- s2, proposals <- s3, proposed <- s4,
  versions <- s5, version <- s6, now <- s7, self <- s8, utils <- s9,
  migrations <- s10, batches <- s11, checks <- s12, transfers <- s13,
  rollbacks <- s14,
  Contract <- {"upgradeable"}, Address <- {u1, u2}, Implementation <- {k1},
  Delay <- {0, 1}, Hash <- {h1, h2}, MaxProposals <- 1, MaxVersions <- 2,
  MaxVotes <- 2, MaxTime <- 2, MaxMigrations <- 1, MaxBatches <- 1,
  MaxOps <- 2, MaxChecks <- 1, MaxTransfers <- 1

CashOptions == INSTANCE OptionsProtocol WITH
  initialized <- s1, paused <- s2, config <- s3, price <- s4, options <- s5,
  accounts <- s6, held <- s7, now <- s8,
  Contract <- "options", Writer <- {u1, u2}, Scale <- 1, Bps <- 2,
  Margin <- {}, MinMargin <- 1, Premium <- {0, 1}, MaxAge <- 0,
  Price <- {2, 5}, Amount <- {1}, Payout <- {}, Deposit <- {1, 2},
  MaxOptions <- 1, MaxBalance <- 3, MaxTime <- 1

Properties == INSTANCE NftFractional WITH
  config <- s1, status <- s2, owner <- s3, shares <- s4, allowance <- s5,
  supply <- s6, proceeds <- s7, auction <- s8, held <- s9, now <- s10,
  assets <- s11, paused <- s12,
  Contract <- "reit", Amount <- {1, 2}, Total <- {3}, Weight <- {},
  MaxAssets <- 1, MaxHolding <- 4, MaxIncome <- 3, MaxWeights <- 0,
  User <- {u1, u2}, Vault <- u3, Bps <- 4, Config <- {}, MaxBid <- 0,
  MaxTime <- 0

Trusts == INSTANCE NftFractional WITH
  config <- s1, status <- s2, owner <- s3, shares <- s4, allowance <- s5,
  supply <- s6, proceeds <- s7, auction <- s8, held <- s9, now <- s10,
  assets <- s11, paused <- s12,
  Contract <- "tokenized-reit", Amount <- {1}, Total <- {1, 2}, Weight <- {},
  MaxAssets <- 1, MaxHolding <- 3, MaxIncome <- 2, MaxWeights <- 0,
  User <- {u1, u2}, Vault <- u3, Bps <- 4, Config <- {}, MaxBid <- 0,
  MaxTime <- 0

RentedProperties == INSTANCE NftFractional WITH
  config <- s1, status <- s2, owner <- s3, shares <- s4, allowance <- s5,
  supply <- s6, proceeds <- s7, auction <- s8, held <- s9, now <- s10,
  assets <- s11, paused <- s12,
  Contract <- "real-estate", Amount <- {1}, Total <- {2}, Weight <- {},
  MaxAssets <- 1, MaxHolding <- 3, MaxIncome <- 3, MaxWeights <- 0,
  User <- {u1, u2}, Vault <- u3, Bps <- 4, Config <- {}, MaxBid <- 0,
  MaxTime <- 0

IndexPools == INSTANCE NftFractional WITH
  config <- s1, status <- s2, owner <- s3, shares <- s4, allowance <- s5,
  supply <- s6, proceeds <- s7, auction <- s8, held <- s9, now <- s10,
  assets <- s11, paused <- s12,
  Contract <- "index-token", Amount <- {1, 2, 3}, Total <- {},
  Weight <- {2, 4}, MaxAssets <- 1, MaxHolding <- 0, MaxIncome <- 6,
  MaxWeights <- 2, User <- {u1, u2}, Vault <- u3, Bps <- 4, Config <- {},
  MaxBid <- 0, MaxTime <- 0

CropInsurance == INSTANCE ParametricInsurance WITH
  initialized <- s1, configured <- s2, oracle <- s3, reading <- s4,
  products <- s5, policies <- s6, reserved <- s7, held <- s8, now <- s9,
  claims <- s10, paused <- s11,
  Contract <- "crop-insurance", Person <- {}, Window <- 0, MinVotes <- 0,
  MaxClaims <- 0, Value <- {1, 2}, Staleness <- 0, MaxAge <- 0,
  Premium <- {1}, Coverage <- {2}, Term <- {1}, Amount <- {},
  MaxProducts <- 0, MaxPolicies <- 3, MaxHeld <- 3, MaxTime <- 1

VotedClaims == INSTANCE ParametricInsurance WITH
  initialized <- s1, configured <- s2, oracle <- s3, reading <- s4,
  products <- s5, policies <- s6, reserved <- s7, held <- s8, now <- s9,
  claims <- s10, paused <- s11,
  Contract <- "insurance-protocol", Person <- {u1, u2, u3}, Window <- 1,
  MinVotes <- 2, MaxClaims <- 2, Value <- {}, Staleness <- 0, MaxAge <- 0,
  Premium <- {}, Coverage <- {}, Term <- {1}, Amount <- {}, MaxProducts <- 1,
  MaxPolicies <- 1, MaxHeld <- 0, MaxTime <- 2

InsuredHolders == INSTANCE ParametricInsurance WITH
  initialized <- s1, configured <- s2, oracle <- s3, reading <- s4,
  products <- s5, policies <- s6, reserved <- s7, held <- s8, now <- s9,
  claims <- s10, paused <- s11,
  Contract <- "insurance-protocol", Person <- {u1, u2}, Window <- 0,
  MinVotes <- 1, MaxClaims <- 1, Value <- {}, Staleness <- 0, MaxAge <- 0,
  Premium <- {}, Coverage <- {}, Term <- {1}, Amount <- {}, MaxProducts <- 2,
  MaxPolicies <- 3, MaxHeld <- 0, MaxTime <- 1

OrderBook == INSTANCE DexAggregator WITH
  settings <- s1, pools <- s2, accrued <- s3, orders <- s4, volume <- s5,
  paused <- s6,
  Contract <- "limit-order-book", Token <- {}, Bps <- 1, MaxImpact <- 0,
  MaxHops <- {}, Fee <- {}, Reserve <- {}, Amount <- {}, ScanLimit <- 3,
  Price <- {1, 2}, Quantity <- {1, 2}, MaxPools <- 0, MaxReserve <- 0,
  MaxAccrued <- 0, MaxOrders <- 3

LongOrderBook == INSTANCE DexAggregator WITH
  settings <- s1, pools <- s2, accrued <- s3, orders <- s4, volume <- s5,
  paused <- s6,
  Contract <- "limit-order-book", Token <- {}, Bps <- 1, MaxImpact <- 0,
  MaxHops <- {}, Fee <- {}, Reserve <- {}, Amount <- {}, ScanLimit <- 1,
  Price <- {1, 2}, Quantity <- {1}, MaxPools <- 0, MaxReserve <- 0,
  MaxAccrued <- 0, MaxOrders <- 4

QuadraticVotes == INSTANCE Governance WITH
  settings <- s1, balance <- s2, supply <- s3, delegate <- s4,
  proposals <- s5, wasm <- s6, pending <- s7, now <- s8, allowed <- s9,
  paused <- s10,
  Contract <- "quadratic-voting", Holder <- {u1, u2}, Wasm <- {k1}, Bps <- 4,
  Depth <- 0, MinDelay <- 0, Settings <- {[quorum |-> 2, period |-> 1]},
  Amount <- {2, 3}, MaxProposals <- 1, MaxSupply <- 6, MaxTime <- 1

\* The contracts by what they are for: a step or a property of one is looked up in
\* its family only.
Exchanges == {"escrow", "atomic swap", "amm fees", "amm pool", "nft curve", "nft pools",
              "aggregator", "order book", "long order book"}
Wagers == {"prediction market", "prediction pools", "prediction stakes", "sports bets",
           "sports markets", "positions", "predictions"}
Credits == {"stablecoin", "rebase", "synthetic assets", "perpetuals", "option", "options",
            "cash options", "syndication", "syndicated loans", "lending pool",
            "lending protocol"}
Yields == {"farming portfolio", "farming", "optimizer", "optimizer users", "staking",
           "stakers", "staked tokens", "schedules", "tranches"}
Bodies == {"governance", "quadratic votes", "treasury", "payments", "charity",
           "charities", "proxy", "migrations", "self-upgrade"}
Feeds == {"price aggregator", "aging prices", "price feed", "median", "insured prices",
          "average over time", "weather records", "weather reports", "shipments",
          "logistics", "sports results", "risks"}
Registers == {"insurance", "crop insurance", "voted claims", "insured holders", "patents",
              "supply chain", "energy trading", "marketplace", "data buyers"}
Assets == {"bridge", "fractional nft", "properties", "trusts", "rented properties",
           "index pools"}

Init ==
  /\ ServicesStart
  /\ \/ component \in Service /\ s1 = 0 /\ s2 = 0 /\ s3 = 0 /\ s4 = 0 /\ Unused5
     \/ component = "escrow" /\ Escrow!Init /\ Unused8
     \/ component = "atomic swap" /\ AtomicSwap!Init /\ Unused8
     \/ component = "amm fees" /\ AmmFees!Init /\ Unused16
     \/ component = "amm pool" /\ Amm!Init /\ Unused16
     \/ component = "prediction market" /\ Prediction!Init /\ Unused6
     \/ component = "prediction pools" /\ PredictionPools!Init /\ Unused6
     \/ component = "prediction stakes" /\ PredictionStakes!Init /\ Unused6
     \/ component = "stablecoin" /\ Stablecoin!Init /\ Unused5
     \/ component = "rebase" /\ Rebase!Init /\ Unused5
     \/ component = "perpetuals" /\ Perpetuals!Init /\ Unused13
     \/ component = "farming portfolio" /\ FarmingPortfolio!Init /\ Unused8
     \/ component = "farming" /\ Farming!Init /\ Unused8
     \/ component = "optimizer" /\ Optimizer!Init /\ Unused8
     \/ component = "optimizer users" /\ OptimizerUsers!Init /\ Unused8
     \/ component = "synthetic assets" /\ Synthetic!Init /\ Unused13
     \/ component = "nft curve" /\ NftCurve!Init /\ Unused16
     \/ component = "nft pools" /\ NftPools!Init /\ Unused16
     \/ component = "option" /\ Option!Init /\ Unused9
     \/ component = "options" /\ Options!Init /\ Unused9
     \/ component = "bridge" /\ Bridge!Init /\ Unused11
     \/ component = "syndication" /\ Syndication!Init /\ Unused11
     \/ component = "syndicated loans" /\ Loans!Init /\ Unused11
     \/ component = "fractional nft" /\ Fractional!Init /\ Unused13
     \/ component = "aggregator" /\ Aggregator!Init /\ Unused7
     \/ component = "governance" /\ Governance!Init /\ Unused11
     \/ component = "patents" /\ Patents!Init /\ Unused15
     \/ component = "insurance" /\ Insurance!Init /\ Unused12
     \/ component = "supply chain" /\ Supply!Init /\ Unused15
     \/ component = "energy trading" /\ Energy!Init /\ Unused14
     \/ component = "staking" /\ Staking!Init /\ Unused14
     \/ component = "stakers" /\ Stakers!Init /\ Unused14
     \/ component = "staked tokens" /\ StakedTokens!Init /\ Unused14
     \/ component = "treasury" /\ Treasury!Init
     \/ component = "payments" /\ Payments!Init
     \/ component = "charity" /\ Charity!Init
     \/ component = "charities" /\ Charities!Init
     \/ component = "marketplace" /\ Marketplace!Init /\ Unused14
     \/ component = "data buyers" /\ DataBuyers!Init /\ Unused14
     \/ component = "schedules" /\ Schedules!Init /\ Unused10
     \/ component = "tranches" /\ Tranches!Init /\ Unused10
     \/ component = "lending pool" /\ LendingPool!Init /\ Unused11
     \/ component = "lending protocol" /\ LendingProtocol!Init /\ Unused11
     \/ component = "price aggregator" /\ PriceAggregator!Init /\ Unused8
     \/ component = "price feed" /\ PriceFeed!Init /\ Unused8
     \/ component = "aging prices" /\ AgingPrices!Init /\ Unused8
     \/ component = "median" /\ MedianOracle!Init /\ Unused8
     \/ component = "insured prices" /\ InsuredPrices!Init /\ Unused8
     \/ component = "average over time" /\ Twaps!Init /\ Unused8
     \/ component = "weather records" /\ WeatherRecords!Init /\ Unused8
     \/ component = "weather reports" /\ WeatherReports!Init /\ Unused8
     \/ component = "shipments" /\ Shipments!Init /\ Unused8
     \/ component = "logistics" /\ Logistics!Init /\ Unused8
     \/ component = "sports results" /\ SportsResults!Init /\ Unused8
     \/ component = "risks" /\ Risks!Init /\ Unused8
     \/ component = "sports bets" /\ SportsBets!Init /\ Unused7
     \/ component = "sports markets" /\ SportsMarkets!Init /\ Unused7
     \/ component = "positions" /\ Positions!Init /\ Unused7
     \/ component = "predictions" /\ Predictions!Init /\ Unused7
     \/ component = "proxy" /\ Proxy!Init /\ Unused15
     \/ component = "migrations" /\ Migrations!Init /\ Unused15
     \/ component = "self-upgrade" /\ SelfUpgrade!Init /\ Unused15
     \/ component = "cash options" /\ CashOptions!Init /\ Unused9
     \/ component = "properties" /\ Properties!Init /\ Unused13
     \/ component = "trusts" /\ Trusts!Init /\ Unused13
     \/ component = "rented properties" /\ RentedProperties!Init /\ Unused13
     \/ component = "index pools" /\ IndexPools!Init /\ Unused13
     \/ component = "crop insurance" /\ CropInsurance!Init /\ Unused12
     \/ component = "voted claims" /\ VotedClaims!Init /\ Unused12
     \/ component = "insured holders" /\ InsuredHolders!Init /\ Unused12
     \/ component = "order book" /\ OrderBook!Init /\ Unused7
     \/ component = "long order book" /\ LongOrderBook!Init /\ Unused7
     \/ component = "quadratic votes" /\ QuadraticVotes!Init /\ Unused11

Next ==
  \/ ServicesNext /\ UNCHANGED contractVars
  \/ /\ component \in Exchanges
     /\ \/ component = "escrow" /\ Escrow!Next /\ UNCHANGED Rest8
        \/ component = "atomic swap" /\ AtomicSwap!Next /\ UNCHANGED Rest8
        \/ component = "amm fees" /\ AmmFees!Next /\ UNCHANGED Rest16
        \/ component = "amm pool" /\ Amm!Next /\ UNCHANGED Rest16
        \/ component = "nft curve" /\ NftCurve!Next /\ UNCHANGED Rest16
        \/ component = "nft pools" /\ NftPools!Next /\ UNCHANGED Rest16
        \/ component = "aggregator" /\ Aggregator!Next /\ UNCHANGED Rest7
        \/ component = "order book" /\ OrderBook!Next /\ UNCHANGED Rest7
        \/ component = "long order book" /\ LongOrderBook!Next /\ UNCHANGED Rest7
  \/ /\ component \in Wagers
     /\ \/ component = "prediction market" /\ Prediction!Next /\ UNCHANGED Rest6
        \/ component = "prediction pools" /\ PredictionPools!Next /\ UNCHANGED Rest6
        \/ component = "prediction stakes" /\ PredictionStakes!Next /\ UNCHANGED Rest6
        \/ component = "sports bets" /\ SportsBets!Next /\ UNCHANGED Rest7
        \/ component = "sports markets" /\ SportsMarkets!Next /\ UNCHANGED Rest7
        \/ component = "positions" /\ Positions!Next /\ UNCHANGED Rest7
        \/ component = "predictions" /\ Predictions!Next /\ UNCHANGED Rest7
  \/ /\ component \in Credits
     /\ \/ component = "stablecoin" /\ Stablecoin!Next /\ UNCHANGED Rest5
        \/ component = "rebase" /\ Rebase!Next /\ UNCHANGED Rest5
        \/ component = "synthetic assets" /\ Synthetic!Next /\ UNCHANGED Rest13
        \/ component = "perpetuals" /\ Perpetuals!Next /\ UNCHANGED Rest13
        \/ component = "option" /\ Option!Next /\ UNCHANGED Rest9
        \/ component = "options" /\ Options!Next /\ UNCHANGED Rest9
        \/ component = "cash options" /\ CashOptions!Next /\ UNCHANGED Rest9
        \/ component = "syndication" /\ Syndication!Next /\ UNCHANGED Rest11
        \/ component = "syndicated loans" /\ Loans!Next /\ UNCHANGED Rest11
        \/ component = "lending pool" /\ LendingPool!Next /\ UNCHANGED Rest11
        \/ component = "lending protocol" /\ LendingProtocol!Next /\ UNCHANGED Rest11
  \/ /\ component \in Yields
     /\ \/ component = "farming portfolio" /\ FarmingPortfolio!Next /\ UNCHANGED Rest8
        \/ component = "farming" /\ Farming!Next /\ UNCHANGED Rest8
        \/ component = "optimizer" /\ Optimizer!Next /\ UNCHANGED Rest8
        \/ component = "optimizer users" /\ OptimizerUsers!Next /\ UNCHANGED Rest8
        \/ component = "staking" /\ Staking!Next /\ UNCHANGED Rest14
        \/ component = "stakers" /\ Stakers!Next /\ UNCHANGED Rest14
        \/ component = "staked tokens" /\ StakedTokens!Next /\ UNCHANGED Rest14
        \/ component = "schedules" /\ Schedules!Next /\ UNCHANGED Rest10
        \/ component = "tranches" /\ Tranches!Next /\ UNCHANGED Rest10
  \/ /\ component \in Bodies
     /\ \/ component = "governance" /\ Governance!Next /\ UNCHANGED Rest11
        \/ component = "quadratic votes" /\ QuadraticVotes!Next /\ UNCHANGED Rest11
        \/ component = "treasury" /\ Treasury!Next /\ UNCHANGED <<component, serviceVars>>
        \/ component = "payments" /\ Payments!Next /\ UNCHANGED <<component, serviceVars>>
        \/ component = "charity" /\ Charity!Next /\ UNCHANGED <<component, serviceVars>>
        \/ component = "charities" /\ Charities!Next /\ UNCHANGED <<component, serviceVars>>
        \/ component = "proxy" /\ Proxy!Next /\ UNCHANGED Rest15
        \/ component = "migrations" /\ Migrations!Next /\ UNCHANGED Rest15
        \/ component = "self-upgrade" /\ SelfUpgrade!Next /\ UNCHANGED Rest15
  \/ /\ component \in Feeds
     /\ \/ component = "price aggregator" /\ PriceAggregator!Next /\ UNCHANGED Rest8
        \/ component = "aging prices" /\ AgingPrices!Next /\ UNCHANGED Rest8
        \/ component = "price feed" /\ PriceFeed!Next /\ UNCHANGED Rest8
        \/ component = "median" /\ MedianOracle!Next /\ UNCHANGED Rest8
        \/ component = "insured prices" /\ InsuredPrices!Next /\ UNCHANGED Rest8
        \/ component = "average over time" /\ Twaps!Next /\ UNCHANGED Rest8
        \/ component = "weather records" /\ WeatherRecords!Next /\ UNCHANGED Rest8
        \/ component = "weather reports" /\ WeatherReports!Next /\ UNCHANGED Rest8
        \/ component = "shipments" /\ Shipments!Next /\ UNCHANGED Rest8
        \/ component = "logistics" /\ Logistics!Next /\ UNCHANGED Rest8
        \/ component = "sports results" /\ SportsResults!Next /\ UNCHANGED Rest8
        \/ component = "risks" /\ Risks!Next /\ UNCHANGED Rest8
  \/ /\ component \in Registers
     /\ \/ component = "insurance" /\ Insurance!Next /\ UNCHANGED Rest12
        \/ component = "crop insurance" /\ CropInsurance!Next /\ UNCHANGED Rest12
        \/ component = "voted claims" /\ VotedClaims!Next /\ UNCHANGED Rest12
        \/ component = "insured holders" /\ InsuredHolders!Next /\ UNCHANGED Rest12
        \/ component = "patents" /\ Patents!Next /\ UNCHANGED Rest15
        \/ component = "supply chain" /\ Supply!Next /\ UNCHANGED Rest15
        \/ component = "energy trading" /\ Energy!Next /\ UNCHANGED Rest14
        \/ component = "marketplace" /\ Marketplace!Next /\ UNCHANGED Rest14
        \/ component = "data buyers" /\ DataBuyers!Next /\ UNCHANGED Rest14
  \/ /\ component \in Assets
     /\ \/ component = "bridge" /\ Bridge!Next /\ UNCHANGED Rest11
        \/ component = "fractional nft" /\ Fractional!Next /\ UNCHANGED Rest13
        \/ component = "properties" /\ Properties!Next /\ UNCHANGED Rest13
        \/ component = "trusts" /\ Trusts!Next /\ UNCHANGED Rest13
        \/ component = "rented properties" /\ RentedProperties!Next /\ UNCHANGED Rest13
        \/ component = "index pools" /\ IndexPools!Next /\ UNCHANGED Rest13

Spec == Init /\ [][Next]_vars

-----------------------------------------------------------------------------
(* Properties *)

\* Every contract holds what it owes, whoever is paid first and however
\* its calls round, fail over and repeat.
FundsBacked ==
  /\ component \in Exchanges =>
       /\ component = "escrow" => Escrow!SwapsBacked
       /\ component = "atomic swap" => AtomicSwap!SwapsBacked
       /\ component = "amm fees" => AmmFees!PoolBacked
       /\ component = "amm pool" => Amm!PoolBacked
       /\ component = "nft curve" => NftCurve!PoolsBacked
       /\ component = "nft pools" => NftPools!PoolsBacked
  /\ component \in Wagers =>
       /\ component = "prediction market" => Prediction!SharesBacked /\ Prediction!LiquidityBacked /\ Prediction!PayoutsCovered
       /\ component = "prediction pools" => PredictionPools!SharesBacked /\ PredictionPools!LiquidityBacked /\ PredictionPools!PayoutsCovered
       /\ component = "prediction stakes" => PredictionStakes!SharesBacked /\ PredictionStakes!LiquidityBacked /\ PredictionStakes!PayoutsCovered
       /\ component = "sports bets" => SportsBets!BetsBacked
       /\ component = "sports markets" => SportsMarkets!BetsBacked
       /\ component = "positions" => Positions!BetsBacked
       /\ component = "predictions" => Predictions!BetsBacked
  /\ component \in Credits =>
       /\ component = "stablecoin" => Stablecoin!VaultCoversDebt
       /\ component = "rebase" => Rebase!VaultCoversDebt
       /\ component = "option" => Option!MarginBacked
       /\ component = "options" => Options!MarginBacked
       /\ component = "cash options" => CashOptions!MarginBacked
       /\ component = "syndication" => Syndication!LoansBacked /\ Syndication!SeniorFirst
       /\ component = "syndicated loans" => Loans!LoansBacked /\ Loans!SeniorFirst
  /\ component \in Yields =>
       /\ component = "farming portfolio" => FarmingPortfolio!TotalsCoverBalances
       /\ component = "farming" => Farming!TotalsCoverBalances
       /\ component = "optimizer" => Optimizer!TotalsWithinDeposits
       /\ component = "optimizer users" => OptimizerUsers!TotalsWithinDeposits
       /\ component = "schedules" => Schedules!SchedulesBacked
       /\ component = "tranches" => Tranches!SchedulesBacked
  /\ component \in Registers =>
       /\ component = "insurance" => Insurance!ReserveCoversPolicies
       /\ component = "crop insurance" => CropInsurance!ReserveCoversPolicies
  /\ component = "fractional nft" => Fractional!SharesBacked

\* What a contract counts twice, in a total and in its parts, in a record and
\* in the clock, agrees after every sequence of its calls.
RecordsAgree ==
  /\ component \in Exchanges =>
       /\ component = "escrow" => Escrow!CountersAgree /\ Escrow!MilestonesInOrder
       /\ component = "atomic swap" => AtomicSwap!CountersAgree /\ AtomicSwap!MilestonesInOrder
       /\ component = "amm fees" => AmmFees!VolatilityBounded
       /\ component = "amm pool" => Amm!VolatilityBounded
       /\ component = "aggregator" => Aggregator!QuoteIsDelivered /\ Aggregator!BookUncrossed
       /\ component = "order book" => OrderBook!QuoteIsDelivered /\ OrderBook!BookUncrossed
       /\ component = "long order book" => LongOrderBook!QuoteIsDelivered /\ LongOrderBook!BookUncrossed
  /\ component \in Wagers =>
       /\ component = "sports bets" => SportsBets!StakesAccounted
       /\ component = "sports markets" => SportsMarkets!StakesAccounted
       /\ component = "positions" => Positions!StakesAccounted
       /\ component = "predictions" => Predictions!StakesAccounted
  /\ component \in Credits =>
       /\ component = "synthetic assets" => Synthetic!SupplyIsDebt
       /\ component = "perpetuals" => Perpetuals!MarketMatchesPositions
       /\ component = "lending pool" => LendingPool!PositionsCounted
       /\ component = "lending protocol" => LendingProtocol!PositionsCounted
  /\ component \in Yields =>
       /\ component = "optimizer" => Optimizer!WeightsComplete
       /\ component = "optimizer users" => OptimizerUsers!WeightsComplete
       /\ component = "staking" => Staking!SharesAccounted
       /\ component = "stakers" => Stakers!SharesAccounted
       /\ component = "staked tokens" => StakedTokens!SharesAccounted
       /\ component = "schedules" => Schedules!VotesCovered
       /\ component = "tranches" => Tranches!VotesCovered
  /\ component \in Bodies =>
       /\ component = "governance" => Governance!VotesCovered
       /\ component = "quadratic votes" => QuadraticVotes!VotesCovered
       /\ component = "treasury" => Treasury!ApprovalsCounted
       /\ component = "payments" => Payments!ApprovalsCounted
       /\ component = "charity" => Charity!DonationsCounted
       /\ component = "charities" => Charities!DonationsCounted
       /\ component = "proxy" => Proxy!UpgradesRecorded
       /\ component = "migrations" => Migrations!UpgradesRecorded
       /\ component = "self-upgrade" => SelfUpgrade!UpgradesRecorded
  /\ component \in Feeds =>
       /\ component = "price feed" => PriceFeed!FeedFollowsReports
       /\ component = "median" => MedianOracle!FeedFollowsReports
       /\ component = "insured prices" => InsuredPrices!FeedFollowsReports
       /\ component = "average over time" => Twaps!FeedFollowsReports
       /\ component = "weather records" => WeatherRecords!ConfirmationsCounted
       /\ component = "weather reports" => WeatherReports!ConfirmationsCounted
       /\ component = "shipments" => Shipments!ConfirmationsCounted
       /\ component = "logistics" => Logistics!ConfirmationsCounted
       /\ component = "sports results" => SportsResults!ConfirmationsCounted
       /\ component = "risks" => Risks!ConfirmationsCounted
  /\ component \in Registers =>
       /\ component = "voted claims" => VotedClaims!ClaimsCounted
       /\ component = "insured holders" => InsuredHolders!ClaimsCounted
       /\ component = "patents" => Patents!RegistryCounts
       /\ component = "supply chain" => Supply!ViolationsCharged
       /\ component = "energy trading" => Energy!EnergyAccounted
       /\ component = "marketplace" => Marketplace!StatisticsAgree
       /\ component = "data buyers" => DataBuyers!StatisticsAgree
  /\ component \in Assets =>
       /\ component = "bridge" => Bridge!DepositsAccounted /\ Bridge!VotesCounted
       /\ component = "properties" => Properties!HoldingsCounted /\ Properties!PoolsCounted
       /\ component = "trusts" => Trusts!HoldingsCounted /\ Trusts!PoolsCounted
       /\ component = "rented properties" => RentedProperties!HoldingsCounted /\ RentedProperties!PoolsCounted
       /\ component = "index pools" => IndexPools!HoldingsCounted /\ IndexPools!PoolsCounted

\* What ended, paid or was decided stays so: no later call, by anybody and at
\* any time, undoes or repeats it.
SettledOnce ==
  [][/\ component \in Exchanges =>
          /\ component = "escrow" => Escrow!Settled
          /\ component = "atomic swap" => AtomicSwap!Settled
          /\ component = "nft curve" => NftCurve!DeactivatedPoolIsClosed
          /\ component = "nft pools" => NftPools!DeactivatedPoolIsClosed
     /\ component \in Wagers =>
          /\ component = "sports bets" => SportsBets!DecidedMarketsStay
          /\ component = "sports markets" => SportsMarkets!DecidedMarketsStay
          /\ component = "positions" => Positions!DecidedMarketsStay
          /\ component = "predictions" => Predictions!DecidedMarketsStay
     /\ component \in Credits =>
          /\ component = "perpetuals" => Perpetuals!EndedPositionsStay
          /\ component = "option" => Option!EndsOnce
          /\ component = "options" => Options!EndsOnce
          /\ component = "cash options" => CashOptions!EndsOnce
     /\ component \in Bodies =>
          /\ component = "governance" => Governance!DecidedOnce /\ Governance!UpgradeAnnounced
          /\ component = "quadratic votes" => QuadraticVotes!DecidedOnce /\ QuadraticVotes!UpgradeAnnounced
          /\ component = "treasury" => Treasury!PaidOnce
          /\ component = "payments" => Payments!PaidOnce
          /\ component = "proxy" => Proxy!MigrationEnds
          /\ component = "migrations" => Migrations!MigrationEnds
          /\ component = "self-upgrade" => SelfUpgrade!MigrationEnds
     /\ component \in Feeds =>
          /\ component = "weather records" => WeatherRecords!HistoryKept
          /\ component = "weather reports" => WeatherReports!HistoryKept
          /\ component = "shipments" => Shipments!HistoryKept
          /\ component = "logistics" => Logistics!HistoryKept
          /\ component = "sports results" => SportsResults!HistoryKept
          /\ component = "risks" => Risks!HistoryKept
     /\ component \in Registers =>
          /\ component = "insurance" => Insurance!PolicyEndsOnce
          /\ component = "crop insurance" => CropInsurance!PolicyEndsOnce
          /\ component = "voted claims" => VotedClaims!PolicyEndsOnce
          /\ component = "insured holders" => InsuredHolders!PolicyEndsOnce
          /\ component = "patents" => Patents!ReleasedOnce
          /\ component = "supply chain" => Supply!RecallHolds
          /\ component = "energy trading" => Energy!OrderEndsOnce
     /\ component = "bridge" => Bridge!EndsOnce]_vars

\* No call takes value from those who do not take part in it: the worth of a
\* share, the product of a pool, the balances and the collateral of others.
ValueKept ==
  [][/\ component \in Exchanges =>
          /\ component = "amm fees" => AmmFees!ShareValueKept
          /\ component = "amm pool" => Amm!ShareValueKept
          /\ component = "aggregator" => Aggregator!SwapKeepsProduct /\ Aggregator!TradesByPriority
          /\ component = "order book" => OrderBook!SwapKeepsProduct /\ OrderBook!TradesByPriority
          /\ component = "long order book" => LongOrderBook!SwapKeepsProduct /\ LongOrderBook!TradesByPriority
     /\ component \in Wagers =>
          /\ component = "prediction market" => Prediction!TradesKeepProduct
          /\ component = "prediction pools" => PredictionPools!TradesKeepProduct
          /\ component = "prediction stakes" => PredictionStakes!TradesKeepProduct
     /\ component \in Credits =>
          /\ component = "stablecoin" => Stablecoin!CeilingKept
          /\ component = "rebase" => Rebase!CeilingKept
          /\ component = "synthetic assets" => Synthetic!CollateralKept
     /\ component \in Yields =>
          /\ component = "farming portfolio" => FarmingPortfolio!MovesWholePortfolio
          /\ component = "farming" => Farming!MovesWholePortfolio
          /\ component = "optimizer" => Optimizer!MoveKeepsBalance
          /\ component = "optimizer users" => OptimizerUsers!MoveKeepsBalance
          /\ component = "staking" => Staking!StakeKept
          /\ component = "stakers" => Stakers!StakeKept
          /\ component = "staked tokens" => StakedTokens!StakeKept
          /\ component = "schedules" => Schedules!ReleasedAsVested
          /\ component = "tranches" => Tranches!ReleasedAsVested
     /\ component \in Bodies =>
          /\ component = "charity" => Charity!ReleasedForMilestone
          /\ component = "charities" => Charities!ReleasedForMilestone
     /\ component \in Feeds =>
          /\ component = "price aggregator" => PriceAggregator!AggregateFollowsReports
          /\ component = "aging prices" => AgingPrices!AggregateFollowsReports
     /\ component \in Registers =>
          /\ component = "marketplace" => Marketplace!PaidAccessKept
          /\ component = "data buyers" => DataBuyers!PaidAccessKept
     /\ component = "fractional nft" => Fractional!RemainingSharesKeepValue]_vars
=============================================================================
