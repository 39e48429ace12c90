-------------------------------- MODULE Amms --------------------------------
(***************************************************************************)
(* Two market makers.  amm-pool: a constant product pool of two tokens     *)
(* with shares, a fee that may follow volatility and utilization, and the  *)
(* statistics of a collection.  nft-amm: pools that buy and sell NFTs of   *)
(* a collection along a price curve, all from the tokens and the NFTs one  *)
(* contract holds.  An action is a call that succeeds.                     *)
(***************************************************************************)
EXTENDS Integers, Sequences, FiniteSetsExt

CONSTANTS Contract,       \* "amm-pool" or "nft-amm"
          Amount,         \* amounts paid in
          Bps,            \* BPS, BPS_DENOM
          Fee,            \* base fees, within 0..(Bps - 1), and those of NFT pools
          Provider,       \* who may hold shares
          Precision,      \* PRICE_PRECISION and TWAP_PRECISION
          MinLiquidity,   \* MIN_LIQUIDITY
          Config,         \* dynamic fee configurations of the calls
          FloorPrice,     \* floor prices of the calls
          MaxReserve, MaxVolume, MaxTime,  \* bounds
          Token, Nft,
          PoolType,       \* of "Buy", "Sell", "Trade"
          CurveType,      \* of "Linear", "Exponential"
          ProtocolFee,    \* protocol fees, at most MAX_PROTOCOL_FEE_BPS
          Price, Delta,   \* arguments of the calls
          MaxPools, MaxNfts, MaxBalance, MaxPrice, MaxFees  \* bounds

VARIABLES baseFee,     \* the base fee, -1 before initialize
          pool,        \* reserves a and b, total shares, shares of each provider
          config, volatility,
          twap, metrics,
          collection,  \* the floor price and the statistics of the collection
          now,
          initialized, paused,
          pools,       \* id -> pool with the stack of its NFTs
          protocolFee, feeBalance,
          held,        \* token -> amount held by the contract
          nfts         \* units of the collection held

poolVars == <<baseFee, pool, config, volatility, twap, metrics, collection, now>>
nftsVars == <<initialized, paused, pools, protocolFee, feeBalance, held, nfts>>
vars == <<poolVars, nftsVars>>

-----------------------------------------------------------------------------
(* amm-pool *)

None == [none |-> TRUE]

NoVolatility == [ema |-> 0, price |-> 0, at |-> -1]

PoolInit ==
  /\ baseFee = -1
  /\ pool = [a |-> 0, b |-> 0, total |-> 0, lp |-> [p \in Provider |-> 0]]
  /\ config = None /\ volatility = NoVolatility
  /\ twap = [a |-> 0, b |-> 0, at |-> 0]
  /\ metrics = [volume |-> 0, fees |-> 0]
  /\ collection = [floor |-> 0, stats |-> None]
  /\ now = 0

Initialized == baseFee # -1

Tick ==
  /\ now < MaxTime /\ now' = now + 1
  /\ UNCHANGED <<baseFee, pool, config, volatility, twap, metrics, collection>>

InitializePool(f) ==
  /\ ~Initialized
  /\ baseFee' = f /\ twap' = [twap EXCEPT !.at = now]
  /\ UNCHANGED <<pool, config, volatility, metrics, collection, now>>

\* initialize_nft(): also for a pool that exists, and by anybody.
InitializeNft(f) ==
  /\ IF Initialized THEN UNCHANGED <<baseFee, twap>>
                    ELSE baseFee' = f /\ twap' = [twap EXCEPT !.at = now]
  /\ collection' = [collection EXCEPT !.stats = [floor |-> 0]]
  /\ UNCHANGED <<pool, config, volatility, metrics, now>>

UpdateFloorPrice(p) ==
  /\ Initialized
  /\ collection' = [floor |-> p, stats |-> IF collection.stats = None THEN None
                                           ELSE [floor |-> p]]
  /\ UNCHANGED <<baseFee, pool, config, volatility, twap, metrics, now>>

-----------------------------------------------------------------------------
(* Shares *)

Least(x, y) == IF x < y THEN x ELSE y

\* isqrt() by its result
ISqrt(n) == CHOOSE r \in 0..n : r * r <= n /\ (r + 1) * (r + 1) > n

\* Mutation: the shares follow the side the provider pays more of.
MintedGenerous(a, b) ==
  IF pool.total = 0 THEN ISqrt(a * b) - MinLiquidity
  ELSE Max({(a * pool.total) \div pool.a, (b * pool.total) \div pool.b})

\* The first deposit locks MIN_LIQUIDITY shares that nobody holds.  Later ones
\* get shares in proportion to the scarcer side, rounded down, possibly none.
Minted(a, b) ==
  IF pool.total = 0 THEN ISqrt(a * b) - MinLiquidity
  ELSE Least((a * pool.total) \div pool.a, (b * pool.total) \div pool.b)

AddLiquidity(p, a, b) ==
  /\ Initialized
  /\ pool.a + a <= MaxReserve /\ pool.b + b <= MaxReserve
  /\ pool.total = 0 => Minted(a, b) > 0
  /\ pool' = [a |-> pool.a + a, b |-> pool.b + b,
              total |-> (IF pool.total = 0 THEN MinLiquidity ELSE pool.total) + Minted(a, b),
              lp |-> [pool.lp EXCEPT ![p] = @ + Minted(a, b)]]
  /\ UNCHANGED <<baseFee, config, volatility, twap, metrics, collection, now>>

RemoveLiquidity(p, n) ==
  /\ Initialized
  /\ n > 0 /\ pool.lp[p] >= n
  /\ pool' = [a |-> pool.a - (n * pool.a) \div pool.total,
              b |-> pool.b - (n * pool.b) \div pool.total,
              total |-> pool.total - n, lp |-> [pool.lp EXCEPT ![p] = @ - n]]
  /\ UNCHANGED <<baseFee, config, volatility, twap, metrics, collection, now>>

-----------------------------------------------------------------------------
(* Dynamic fees *)

SpotPrice(a, b) == (b * Precision) \div a

\* The first configuration of a pool with reserves starts from their price.
ConfigureDynamicFees(c) ==
  /\ Initialized
  /\ config' = c
  /\ volatility' = IF volatility.price = 0 /\ pool.a > 0 /\ pool.b > 0
       THEN [volatility EXCEPT !.price = SpotPrice(pool.a, pool.b), !.at = now]
       ELSE volatility
  /\ UNCHANGED <<baseFee, pool, twap, metrics, collection, now>>

\* The volatility that was measured is kept.
DisableDynamicFees ==
  /\ Initialized
  /\ config' = None
  /\ UNCHANGED <<baseFee, pool, volatility, twap, metrics, collection, now>>

\* What is left of the measured volatility at this time; no record reads as
\* one of now.
DecayedVolatility ==
  LET elapsed == IF volatility = NoVolatility THEN 0 ELSE now - volatility.at
  IN IF elapsed >= config.window THEN 0
     ELSE (volatility.ema * (config.window - elapsed)) \div config.window

EffectiveFee(x, reserveIn) ==
  IF config = None THEN baseFee
  ELSE LET utilization == (x * Bps) \div (reserveIn + x)
           f == baseFee + (DecayedVolatility * config.byVolatility) \div Bps
                    + (utilization * config.byUtilization) \div Bps
       IN Least(config.max, Max({config.min, f}))

AmountOut(x, reserveIn, reserveOut) ==
  LET paid == x * (Bps - EffectiveFee(x, reserveIn))
  IN (paid * reserveOut) \div (reserveIn * Bps + paid)

PriceImpact(x, reserveIn, reserveOut) ==
  LET ideal == (x * reserveOut) \div reserveIn
      out == AmountOut(x, reserveIn, reserveOut)
  IN IF ideal = 0 \/ out >= ideal THEN 0 ELSE ((ideal - out) * Bps) \div ideal

UpdatedVolatility(a, b) ==
  IF config = None THEN volatility
  ELSE LET price == SpotPrice(a, b)
           moved == IF volatility.price = 0 THEN 0
                    ELSE Least(Bps, (Max({price - volatility.price, volatility.price - price})
                                       * Bps) \div volatility.price)
       IN [ema |-> (DecayedVolatility * (Bps - config.alpha) + moved * config.alpha) \div Bps,
           price |-> price, at |-> now]

\* The prices before the swap, for the time since the last one.
UpdatedTwap ==
  LET elapsed == now - twap.at
  IN [a |-> twap.a + ((pool.b * Precision) \div pool.a) * elapsed,
      b |-> twap.b + ((pool.a * Precision) \div pool.b) * elapsed,
      at |-> now]

\* Either token may be paid in.  The limits of the caller (least output,
\* highest fee, deadline) only refuse the call.
Swap(side, x) ==
  LET in == IF side = "a" THEN pool.a ELSE pool.b
      reserve == IF side = "a" THEN pool.b ELSE pool.a
      out == AmountOut(x, in, reserve)
      next == [pool EXCEPT !.a = IF side = "a" THEN @ + x ELSE @ - out,
                           !.b = IF side = "a" THEN @ - out ELSE @ + x]
  IN /\ Initialized
     /\ pool.a > 0 /\ pool.b > 0
     /\ in + x <= MaxReserve /\ metrics.volume + x <= MaxVolume
     /\ out > 0
     /\ config # None => PriceImpact(x, in, reserve) <= config.maxImpact
     /\ pool' = next
     /\ twap' = UpdatedTwap
     /\ volatility' = UpdatedVolatility(next.a, next.b)
     /\ metrics' = [volume |-> metrics.volume + x,
                    fees |-> metrics.fees + (x * EffectiveFee(x, in)) \div Bps]
     /\ UNCHANGED <<baseFee, config, collection, now>>

-----------------------------------------------------------------------------
PoolNext ==
  \/ Tick
  \/ \E f \in Fee : InitializePool(f) \/ InitializeNft(f)
  \/ \E p \in FloorPrice : UpdateFloorPrice(p)
  \/ \E p \in Provider, a, b \in Amount : AddLiquidity(p, a, b)
  \/ \E p \in Provider, n \in 1..(MaxReserve + MaxReserve) : RemoveLiquidity(p, n)
  \/ \E c \in Config : ConfigureDynamicFees(c)
  \/ DisableDynamicFees
  \/ \E side \in {"a", "b"}, x \in Amount : Swap(side, x)

-----------------------------------------------------------------------------
(* nft-amm *)

NftsInit ==
  /\ initialized = FALSE /\ paused = FALSE
  /\ pools = <<>>
  /\ protocolFee \in ProtocolFee /\ feeBalance = 0
  /\ held = [t \in Token |-> 0] /\ nfts = 0

\* Without a fee the default stands.
InitializeMarket(fee) ==
  /\ ~initialized /\ initialized' = TRUE
  /\ protocolFee' = fee
  /\ UNCHANGED <<paused, pools, feeBalance, held, nfts>>

SetPaused(p) ==
  /\ initialized /\ paused' = p
  /\ UNCHANGED <<initialized, pools, protocolFee, feeBalance, held, nfts>>

SetProtocolFee(fee) ==
  /\ initialized /\ protocolFee' = fee
  /\ UNCHANGED <<initialized, paused, pools, feeBalance, held, nfts>>

CreatePool(t, type, curve, price, delta, fee) ==
  /\ initialized /\ ~paused /\ Len(pools) < MaxPools
  /\ type # "Trade" => fee = 0
  /\ pools' = Append(pools, [token |-> t, type |-> type, curve |-> curve, spot |-> price,
                             delta |-> delta, fee |-> fee, slots |-> <<>>, balance |-> 0,
                             active |-> TRUE])
  /\ UNCHANGED <<initialized, paused, protocolFee, feeBalance, held, nfts>>

Trading(id) == ~paused /\ pools[id].active

DepositTokens(id, n) ==
  /\ Trading(id) /\ pools[id].type # "Sell" /\ pools[id].balance + n <= MaxBalance
  /\ pools' = [pools EXCEPT ![id].balance = @ + n]
  /\ held' = [held EXCEPT ![pools[id].token] = @ + n]
  /\ UNCHANGED <<initialized, paused, protocolFee, feeBalance, nfts>>

DepositNfts(id, ids) ==
  /\ Trading(id) /\ pools[id].type # "Buy" /\ nfts + Len(ids) <= MaxNfts
  /\ pools' = [pools EXCEPT ![id].slots = @ \o ids]
  /\ nfts' = nfts + Len(ids)
  /\ UNCHANGED <<initialized, paused, protocolFee, feeBalance, held>>

PoolFee(p) == (p.spot * p.fee) \div Bps
ProtocolFeeOf(p) == (p.spot * protocolFee) \div Bps

NextPriceUp(p) ==
  p.spot + (IF p.curve = "Linear" THEN p.delta ELSE (p.spot * p.delta) \div Bps)

NextPriceDown(p) ==
  Max({1, p.spot - (IF p.curve = "Linear" THEN p.delta ELSE (p.spot * p.delta) \div Bps)})

BuyNft(id) ==
  LET p == pools[id]
      kept == p.spot + PoolFee(p)
  IN /\ Trading(id) /\ p.type # "Buy" /\ p.slots # <<>>
     /\ feeBalance + ProtocolFeeOf(p) <= MaxFees
     /\ NextPriceUp(p) <= MaxPrice /\ p.balance + kept <= MaxBalance
     /\ pools' = [pools EXCEPT
          ![id] = [p EXCEPT !.slots = SubSeq(@, 1, Len(@) - 1), !.balance = @ + kept,
                            !.spot = NextPriceUp(p)]]
     /\ feeBalance' = feeBalance + ProtocolFeeOf(p)
     /\ held' = [held EXCEPT ![p.token] = @ + kept + ProtocolFeeOf(p)]
     /\ nfts' = nfts - 1
     /\ UNCHANGED <<initialized, paused, protocolFee>>

SellNft(id, nft) ==
  LET p == pools[id]
      payout == p.spot - PoolFee(p) - ProtocolFeeOf(p)
  IN /\ Trading(id) /\ p.type # "Sell" /\ nfts < MaxNfts
     /\ feeBalance + ProtocolFeeOf(p) <= MaxFees
     /\ p.balance >= payout + ProtocolFeeOf(p)
     /\ pools' = [pools EXCEPT
          ![id] = [p EXCEPT !.slots = Append(@, nft), !.spot = NextPriceDown(p),
                            !.balance = @ - (payout + ProtocolFeeOf(p))]]
     /\ feeBalance' = feeBalance + ProtocolFeeOf(p)
     /\ held' = [held EXCEPT ![p.token] = @ - payout]
     /\ nfts' = nfts + 1
     /\ UNCHANGED <<initialized, paused, protocolFee>>

\* Withdrawals need neither an active pool nor an unpaused contract.
WithdrawTokens(id, n) ==
  /\ n <= pools[id].balance /\ n <= held[pools[id].token]
  /\ pools' = [pools EXCEPT ![id].balance = @ - n]
  /\ held' = [held EXCEPT ![pools[id].token] = @ - n]
  /\ UNCHANGED <<initialized, paused, protocolFee, feeBalance, nfts>>

WithdrawNfts(id, n) ==
  /\ n <= Len(pools[id].slots)
  /\ pools' = [pools EXCEPT ![id].slots = SubSeq(@, 1, Len(@) - n)]
  /\ nfts' = nfts - n
  /\ UNCHANGED <<initialized, paused, protocolFee, feeBalance, held>>

DeactivatePool(id) ==
  /\ pools' = [pools EXCEPT ![id].active = FALSE]
  /\ UNCHANGED <<initialized, paused, protocolFee, feeBalance, held, nfts>>

UpdatePoolParams(id, price, delta) ==
  /\ Trading(id)
  /\ pools' = [pools EXCEPT ![id].spot = price, ![id].delta = delta]
  /\ UNCHANGED <<initialized, paused, protocolFee, feeBalance, held, nfts>>

\* One balance counts the fees in every token; the caller names the token.
CollectProtocolFees(t, n) ==
  /\ initialized /\ n <= feeBalance /\ n <= held[t]
  /\ feeBalance' = feeBalance - n
  /\ held' = [held EXCEPT ![t] = @ - n]
  /\ UNCHANGED <<initialized, paused, pools, protocolFee, nfts>>

NftsNext ==
  \/ \E fee \in ProtocolFee : InitializeMarket(fee) \/ SetProtocolFee(fee)
  \/ \E p \in BOOLEAN : SetPaused(p)
  \/ \E price \in Price, delta \in Delta :
       \/ \E t \in Token, type \in PoolType, curve \in CurveType, fee \in Fee :
            CreatePool(t, type, curve, price, delta, fee)
       \/ \E id \in DOMAIN pools : UpdatePoolParams(id, price, delta)
  \/ \E id \in DOMAIN pools :
       \/ \E n \in Amount : DepositTokens(id, n) \/ WithdrawTokens(id, n) \/ WithdrawNfts(id, n)
       \/ \E x, y \in Nft : DepositNfts(id, <<x>>) \/ DepositNfts(id, <<x, y>>)
       \/ BuyNft(id) \/ DeactivatePool(id)
       \/ \E x \in Nft : SellNft(id, x)
  \/ \E t \in Token, n \in Amount : CollectProtocolFees(t, n)

-----------------------------------------------------------------------------
(* The contract that runs *)

Init == PoolInit /\ NftsInit

Next ==
  \/ Contract = "amm-pool" /\ PoolNext /\ UNCHANGED nftsVars
  \/ Contract = "nft-amm" /\ NftsNext /\ UNCHANGED poolVars

Spec == Init /\ [][Next]_vars

-----------------------------------------------------------------------------
(* Properties *)

\* The shares in circulation are those of the providers and the locked ones,
\* and while there are any neither reserve is ever emptied: not by rounding,
\* not by the last provider to leave, not by a swap of any size and fee.
PoolBacked ==
  /\ pool.total # 0 => /\ pool.total = MinLiquidity + MapThenSumSet(LAMBDA p : pool.lp[p], Provider)
                       /\ pool.a > 0 /\ pool.b > 0
  /\ pool.total = 0 => pool.a = 0 /\ pool.b = 0

\* The measured volatility is a fraction and never negative: decay, clamp and
\* smoothing together keep the fee within the configured range.
VolatilityBounded ==
  /\ volatility.ema \in 0..Bps
  /\ volatility.at <= now /\ twap.at <= now
  /\ metrics.fees <= metrics.volume

\* No call takes value from the providers that stay: the product of the reserves
\* per share squared never falls, whatever is added, removed or swapped and
\* however the calls round.
ShareValueKept ==
  pool.total > 0 =>
    pool'.a * pool'.b * pool.total * pool.total
      >= pool.a * pool.b * pool'.total * pool'.total

\* Over all tokens, the contract holds exactly the balances of the pools and
\* the fees not yet collected, and as many NFTs as the stacks have slots.
PoolsBacked ==
  /\ MapThenSumSet(LAMBDA t : held[t], Token)
       = MapThenSumSet(LAMBDA id : pools[id].balance, DOMAIN pools) + feeBalance
  /\ nfts = MapThenSumSet(LAMBDA id : Len(pools[id].slots), DOMAIN pools)
  /\ \A id \in DOMAIN pools : pools[id].balance >= 0 /\ pools[id].spot >= 1

\* A pool that its owner deactivated trades no more and keeps its price: what
\* it holds only decreases.
DeactivatedPoolIsClosed ==
  \A id \in DOMAIN pools : ~pools[id].active =>
    /\ pools'[id].spot = pools[id].spot /\ ~pools'[id].active
    /\ pools'[id].balance <= pools[id].balance
    /\ Len(pools'[id].slots) <= Len(pools[id].slots)
=============================================================================
