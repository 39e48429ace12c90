------------------------------ MODULE Leverage ------------------------------
(***************************************************************************)
(* Two contracts of leveraged positions.  perpetuals: positions traded     *)
(* against a virtual constant product market (vAMM), funding between       *)
(* longs and shorts, and liquidation; it keeps accounts only: what a close *)
(* returns to its caller is kept here in the closed position.              *)
(* synthetic-assets: assets minted against collateral at an oracle price,  *)
(* burnt, liquidated below a threshold, and leveraged trades settled from  *)
(* the same tokens; both kinds of position share one counter of ids.  An   *)
(* action is a call that succeeds.                                         *)
(***************************************************************************)
EXTENDS Integers, Sequences, FiniteSetsExt

CONSTANTS Contract,           \* "perpetuals" or "synthetic-assets"
          Bps,                \* 10_000
          Collateral,         \* arguments of the calls, positive
          MaxTime,            \* bound
          Precision,          \* 10_000_000, of prices
          MaxRate,            \* MAX_FUNDING_RATE_BPS
          MaintenanceMargin,  \* MAINTENANCE_MARGIN_BPS
          Period,             \* FUNDING_PERIOD_SECS
          I64Limit,           \* 2^63
          Reserve,            \* initial reserves, positive
          IndexPrice, Size,   \* arguments of the calls, positive
          MaxPositions,       \* bound
          Asset, Token,
          PriceScale,         \* PRICE_SCALE
          MaxRatio,           \* MAX_COLLATERAL_RATIO
          MaxAge,             \* MAX_PRICE_AGE
          MaxDeviation,       \* MAX_SINGLE_UPDATE_DEVIATION
          InitialMargin,      \* min_margin_ratio of a trade
          MinTradeMargin,     \* MIN_TRADE_MARGIN
          Params,             \* valid protocol parameters: ratio, threshold, bonus
          Price, Amount, Leverage,         \* arguments of the calls
          MaxDebts, MaxTrades, MaxCollateral  \* bounds

VARIABLES positions,  \* id -> position, or None once removed
          now,
          initialized, paused,
          vamm, origin,  \* the virtual reserves; x at the start
          funding, accumulator,
          params,  \* None before initialize
          token,   \* collateral token
          assets,  \* symbol -> price, its time, total supply; or None
          held     \* token -> amount held by the contract

perpetualsVars == <<initialized, paused, vamm, origin, funding, accumulator>>
syntheticsVars == <<params, token, assets, held>>
vars == <<positions, now, perpetualsVars, syntheticsVars>>

None == [none |-> TRUE]

Tick ==
  /\ now < MaxTime /\ now' = now + 1
  /\ UNCHANGED <<positions, perpetualsVars, syntheticsVars>>

\* Division rounds towards zero.
Div(x, y) == IF x < 0 THEN -((-x) \div y) ELSE x \div y

-----------------------------------------------------------------------------
(* perpetuals *)

PositionStatus == {"Active", "Closed", "Liquidated"}

PerpetualsInit ==
  /\ initialized = FALSE /\ paused = FALSE
  /\ vamm = [x |-> 0, y |-> 0, k |-> 0] /\ origin = 0
  /\ funding = [mark |-> 0, index |-> 0, rate |-> 0, updated |-> 0, settled |-> 0]
  /\ accumulator = 0
  /\ positions = <<>>
  /\ now = 0

MarkPrice(v) == (v.y * Precision) \div v.x

InitializePerpetuals(x, y, index) ==
  /\ ~initialized
  /\ initialized' = TRUE
  /\ vamm' = [x |-> x, y |-> y, k |-> x * y] /\ origin' = x
  /\ funding' = [mark |-> MarkPrice(vamm'), index |-> index, rate |-> 0,
                 updated |-> now, settled |-> now]
  /\ UNCHANGED <<paused, accumulator, positions, now>>

SetPaused(p) ==
  /\ initialized
  /\ paused' = p
  /\ UNCHANGED <<initialized, vamm, origin, funding, accumulator, positions, now>>

-----------------------------------------------------------------------------
(* Funding *)

Clamp(r) == IF r > MaxRate THEN MaxRate ELSE IF r < -MaxRate THEN -MaxRate ELSE r

\* `as i64`: only the low bits stay, and the sign may change.
AsI64(v) == ((v + I64Limit) % (2 * I64Limit)) - I64Limit

\* compute_rate_bps()
Rate(mark, index) == Clamp(AsI64(Div((mark - index) * Bps, index)))

\* The mark price is the one of the last trade; the funding clock starts anew.
UpdateIndexPrice(index) ==
  /\ initialized
  /\ funding' = [funding EXCEPT !.index = index, !.updated = now,
                                !.rate = Rate(funding.mark, index)]
  /\ UNCHANGED <<initialized, paused, vamm, origin, accumulator, positions, now>>

\* Also in a pause.
UpdateFundingRate ==
  /\ initialized
  /\ now >= funding.updated + Period
  /\ funding' = [funding EXCEPT !.mark = MarkPrice(vamm), !.updated = now,
                                !.rate = Rate(MarkPrice(vamm), funding.index)]
  /\ accumulator' = accumulator + funding'.rate
  /\ UNCHANGED <<initialized, paused, vamm, origin, positions, now>>

Active == {id \in DOMAIN positions : positions[id].status = "Active"}

\* Every active position pays or gets its share at once, and the accumulator,
\* which a close charges too, moves as well.
SettleFunding ==
  LET rate == funding.rate
      Payment(p) == (p.size * (IF rate < 0 THEN -rate ELSE rate)) \div Bps
  IN /\ initialized /\ ~paused
     /\ now >= funding.settled + Period
     /\ positions' = [id \in DOMAIN positions |->
          IF id \notin Active THEN positions[id]
          ELSE [positions[id] EXCEPT !.collateral =
                  IF positions[id].long = (rate > 0) THEN @ - Payment(positions[id])
                                                     ELSE @ + Payment(positions[id])]]
     /\ accumulator' = accumulator + rate
     /\ funding' = [funding EXCEPT !.settled = now]
     /\ UNCHANGED <<initialized, paused, vamm, origin, now>>

-----------------------------------------------------------------------------
(* Positions *)

\* A long takes x out of the market and a short puts it in.
CanTrade(long, size) == long => vamm.x > size

Traded(long, size) ==
  LET x == IF long THEN vamm.x - size ELSE vamm.x + size
  IN [vamm EXCEPT !.x = x, !.y = vamm.k \div x]

OpenPosition(long, size, collateral) ==
  /\ initialized /\ ~paused
  /\ Len(positions) < MaxPositions
  /\ CanTrade(long, size)
  /\ vamm' = Traded(long, size)
  /\ funding' = [funding EXCEPT !.mark = MarkPrice(vamm')]
  /\ positions' = Append(positions, [long |-> long, size |-> size,
       entry |-> MarkPrice(vamm'), collateral |-> collateral,
       status |-> "Active", snapshot |-> accumulator, returned |-> 0])
  /\ UNCHANGED <<initialized, paused, origin, accumulator, now>>

\* Profit or loss at a price.
PnlAt(p, price) ==
  Div((IF p.long THEN price - p.entry ELSE p.entry - price) * p.size, p.entry)

\* The funding a close charges: what the accumulator moved by since the
\* position was opened, settled or not.
FundingCharge(p) == Div(p.size * (accumulator - p.snapshot), Bps)

\* A position is closed by a trade on one side of the market; its entry price
\* is not zero, or the call panics.
CloseBy(id, long) ==
  LET p == positions[id]
      charge == FundingCharge(p)
      pnl == PnlAt(p, MarkPrice(vamm'))
  IN /\ ~paused /\ p.status = "Active" /\ p.entry > 0
     /\ CanTrade(long, p.size)
     /\ vamm' = Traded(long, p.size)
     /\ funding' = [funding EXCEPT !.mark = MarkPrice(vamm')]
     /\ positions' = [positions EXCEPT ![id].status = "Closed",
          ![id].returned = p.collateral + pnl + (IF p.long THEN -charge ELSE charge)]
     /\ UNCHANGED <<initialized, paused, origin, accumulator, now>>

\* Mutation: the trade of the opening is repeated instead of undone.
ClosePositionSameSide(id) == CloseBy(id, positions[id].long)

\* close_position(): a trade of the other side.
ClosePosition(id) == CloseBy(id, ~positions[id].long)

\* The market keeps the trade of a position that is liquidated.
LiquidatePosition(id) ==
  LET p == positions[id]
  IN /\ ~paused /\ p.status = "Active" /\ p.entry > 0
     /\ p.collateral + PnlAt(p, MarkPrice(vamm)) <= Div(p.collateral * MaintenanceMargin, Bps)
     /\ positions' = [positions EXCEPT ![id].status = "Liquidated"]
     /\ UNCHANGED <<initialized, paused, vamm, origin, funding, accumulator, now>>

-----------------------------------------------------------------------------
PerpetualsNext ==
  \/ Tick \/ UpdateFundingRate \/ SettleFunding
  \/ \E x, y \in Reserve, i \in IndexPrice : InitializePerpetuals(x, y, i)
  \/ \E p \in BOOLEAN : SetPaused(p)
  \/ \E i \in IndexPrice : UpdateIndexPrice(i)
  \/ \E long \in BOOLEAN, s \in Size, c \in Collateral : OpenPosition(long, s, c)
  \/ \E id \in DOMAIN positions : ClosePosition(id) \/ LiquidatePosition(id)

-----------------------------------------------------------------------------
(* synthetic-assets *)

SyntheticsInit ==
  /\ params = None /\ token \in Token
  /\ assets = [a \in Asset |-> None]
  /\ positions = <<>>
  /\ held = [t \in Token |-> 0]
  /\ now = 0

InitializeSynthetics(p, t) ==
  /\ params = None
  /\ params' = p /\ token' = t
  /\ UNCHANGED <<assets, positions, held, now>>

UpdateProtocolParams(p) ==
  /\ params # None
  /\ params' = p
  /\ UNCHANGED <<token, assets, positions, held, now>>

\* Every later payment is made in the new token.
UpdateCollateralToken(t) ==
  /\ params # None
  /\ token' = t
  /\ UNCHANGED <<params, assets, positions, held, now>>

RegisterSyntheticAsset(a, price) ==
  /\ params # None /\ assets[a] = None
  /\ assets' = [assets EXCEPT ![a] = [price |-> price, at |-> now, supply |-> 0]]
  /\ UNCHANGED <<params, token, positions, held, now>>

Deviation(old, new) == ((IF new >= old THEN new - old ELSE old - new) * Bps) \div old

UpdatePrice(a, price) ==
  /\ assets[a] # None
  /\ Deviation(assets[a].price, price) <= MaxDeviation
  /\ assets' = [assets EXCEPT ![a].price = price, ![a].at = now]
  /\ UNCHANGED <<params, token, positions, held, now>>

\* get_price_internal()
Fresh(a) == assets[a] # None /\ now <= assets[a].at + MaxAge

-----------------------------------------------------------------------------
(* Collateralised debt *)

Of(kind) == {id \in DOMAIN positions : positions[id] # None /\ positions[id].kind = kind}

Open == {id \in Of("trade") : positions[id].open}

\* Rounded up.
RequiredCollateral(n, price, ratio) ==
  (n * price * ratio + PriceScale * Bps - 1) \div (PriceScale * Bps)

CollateralRatio(collateral, minted, price) ==
  LET debt == (minted * price) \div PriceScale
  IN IF debt = 0 THEN MaxRatio ELSE Min({(collateral * Bps) \div debt, MaxRatio})

MintSynthetic(a, collateral, n) ==
  /\ Cardinality(Of("debt")) < MaxDebts /\ Len(positions) < MaxDebts + MaxTrades
  /\ Fresh(a)
  /\ collateral >= RequiredCollateral(n, assets[a].price, params.ratio)
  /\ positions' = Append(positions, [kind |-> "debt", asset |-> a, collateral |-> collateral,
                                     minted |-> n])
  /\ assets' = [assets EXCEPT ![a].supply = @ + n]
  /\ held' = [held EXCEPT ![token] = @ + collateral]
  /\ UNCHANGED <<params, token, now>>

AddCollateral(id, n) ==
  /\ positions[id].collateral + n <= MaxCollateral
  /\ positions' = [positions EXCEPT ![id].collateral = @ + n]
  /\ held' = [held EXCEPT ![token] = @ + n]
  /\ UNCHANGED <<params, token, assets, now>>

\* Burning or repaying n against a payment from the collateral.
Reduce(id, n, payment) ==
  LET p == positions[id]
  IN /\ held[token] >= payment
     /\ positions' = [positions EXCEPT
          ![id] = IF p.minted = n THEN None
                  ELSE [p EXCEPT !.minted = @ - n, !.collateral = @ - payment]]
     /\ assets' = [assets EXCEPT ![p.asset].supply = @ - n]
     /\ held' = [held EXCEPT ![token] = @ - payment]
     /\ UNCHANGED <<params, token, now>>

\* A burn of everything needs no price.
BurnSynthetic(id, n) ==
  LET p == positions[id]
      back == (n * p.collateral) \div p.minted
  IN /\ n <= p.minted
     /\ n < p.minted =>
          /\ Fresh(p.asset)
          /\ CollateralRatio(p.collateral - back, p.minted - n, assets[p.asset].price)
               >= params.ratio
     /\ Reduce(id, n, back)

LiquidationReward(p, n) ==
  LET share == (n * p.collateral) \div p.minted
  IN Min({share + (share * params.bonus) \div Bps, p.collateral})

Liquidate(id, n) ==
  LET p == positions[id]
  IN /\ n <= p.minted /\ Fresh(p.asset)
     /\ CollateralRatio(p.collateral, p.minted, assets[p.asset].price) <= params.threshold
     /\ Reduce(id, n, LiquidationReward(p, n))

-----------------------------------------------------------------------------
(* Leveraged trades *)

TradePnl(p, price) ==
  Div((IF p.long THEN price - p.entry ELSE p.entry - price) * p.notional, p.entry)

OpenTrade(a, long, margin, leverage) ==
  LET notional == (margin * leverage) \div Bps
  IN /\ Cardinality(Of("trade")) < MaxTrades /\ Len(positions) < MaxDebts + MaxTrades
     /\ Fresh(a) /\ leverage >= Bps /\ leverage <= 10 * Bps
     /\ margin >= Max({(notional * InitialMargin) \div Bps, MinTradeMargin})
     /\ positions' = Append(positions, [kind |-> "trade", asset |-> a, long |-> long,
                                        entry |-> assets[a].price, margin |-> margin,
                                        notional |-> notional, open |-> TRUE])
     /\ held' = [held EXCEPT ![token] = @ + margin]
     /\ UNCHANGED <<params, token, assets, now>>

\* The profit is paid from whatever tokens the contract holds.
CloseTrade(id) ==
  LET p == positions[id]
      final == p.margin + TradePnl(p, assets[p.asset].price)
  IN /\ p.open /\ Fresh(p.asset)
     /\ IF final <= 0
        THEN /\ positions' = [positions EXCEPT ![id] = None]
             /\ UNCHANGED held
        ELSE /\ held[token] >= final
             /\ positions' = [positions EXCEPT ![id].open = FALSE]
             /\ held' = [held EXCEPT ![token] = @ - final]
     /\ UNCHANGED <<params, token, assets, now>>

-----------------------------------------------------------------------------
SyntheticsNext ==
  \/ Tick
  \/ \E p \in Params, t \in Token : InitializeSynthetics(p, t)
  \/ \E p \in Params : UpdateProtocolParams(p)
  \/ \E t \in Token : UpdateCollateralToken(t)
  \/ \E a \in Asset :
       \/ \E price \in Price : RegisterSyntheticAsset(a, price) \/ UpdatePrice(a, price)
       \/ \E c \in Collateral :
            \/ \E n \in Amount : MintSynthetic(a, c, n)
            \/ \E long \in BOOLEAN, lev \in Leverage : OpenTrade(a, long, c, lev)
  \/ \E id \in Of("debt") :
       \/ \E c \in Collateral : AddCollateral(id, c)
       \/ \E n \in Amount : BurnSynthetic(id, n) \/ Liquidate(id, n)
  \/ \E id \in Of("trade") : CloseTrade(id)

-----------------------------------------------------------------------------
(* The contract that runs *)

Init == PerpetualsInit /\ SyntheticsInit

Next ==
  \/ Contract = "perpetuals" /\ PerpetualsNext /\ UNCHANGED syntheticsVars
  \/ Contract = "synthetic-assets" /\ SyntheticsNext /\ UNCHANGED perpetualsVars

Spec == Init /\ [][Next]_vars

-----------------------------------------------------------------------------
(* Properties *)

Exposure(S) ==
  MapThenSumSet(LAMBDA id : IF positions[id].long THEN positions[id].size
                            ELSE -positions[id].size, S)

\* The market stands where the positions that were not closed by their traders
\* put it: opening and closing in any order leaves no trace, neither in the
\* reserve nor, through rounding, in the product, and the price used for
\* funding is the market's.
MarketMatchesPositions ==
  initialized =>
    /\ vamm.x > 0
    /\ vamm.x = origin - Exposure({id \in DOMAIN positions : positions[id].status # "Closed"})
    /\ vamm.y = vamm.k \div vamm.x
    /\ funding.mark = MarkPrice(vamm)
    /\ funding.rate \in -MaxRate..MaxRate

\* A settlement goes through the positions of all accounts: one that has ended
\* is not charged again, nor closed or liquidated a second time.
EndedPositionsStay ==
  \A id \in DOMAIN positions : positions[id].status # "Active" => positions'[id] = positions[id]

\* What is recorded as the supply of an asset is the debt of its positions,
\* through burns and liquidations, and no debt outlives its collateral's
\* accounts.
SupplyIsDebt ==
  \A a \in Asset : assets[a] # None =>
    /\ assets[a].supply = MapThenSumSet(LAMBDA id : positions[id].minted,
                                        {id \in Of("debt") : positions[id].asset = a})
    /\ \A id \in Of("debt") : positions[id].minted > 0 /\ positions[id].collateral >= 0

\* What the contract holds beyond the collateral and the margins it owes.
Surplus ==
  MapThenSumSet(LAMBDA t : held[t], Token)
    - MapThenSumSet(LAMBDA id : positions[id].collateral, Of("debt"))
    - MapThenSumSet(LAMBDA id : positions[id].margin, Open)

\* Only a trade closed at a profit is paid from the collateral of others: no
\* mint, burn, liquidation or loss takes more than its own position put in.
CollateralKept ==
  Surplus' >= Surplus
    \/ \E id \in Open : id \notin Open' /\ TradePnl(positions[id], assets[positions[id].asset].price) > 0
=============================================================================
