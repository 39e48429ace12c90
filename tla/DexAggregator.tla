---------------------------- MODULE DexAggregator ---------------------------
(***************************************************************************)
(* The DEX aggregator: constant-product pools between pairs of tokens,     *)
(* quotes, the best route over one or two pools, and swaps along a route   *)
(* given by the caller.  The contract keeps accounts only.  Beside it the  *)
(* limit-order-book, which matches every new order against the resting     *)
(* ones.  An action is a call that succeeds: a hop that fails undoes the   *)
(* whole swap.                                                             *)
(***************************************************************************)
EXTENDS Integers, SequencesExt

CONSTANTS Contract,       \* "dex-aggregator" or "limit-order-book"
          Token,
          Bps,            \* 10_000
          MaxImpact,      \* MAX_PRICE_IMPACT_BPS
          MaxHops,        \* limits on hops asked for at the start
          Fee,            \* pool and protocol fees, at most MAX_FEE_BPS
          Reserve, Amount,
          ScanLimit,      \* resting orders that a match looks at, 200
          Price, Quantity,     \* of orders
          MaxPools, MaxReserve, MaxAccrued, MaxOrders  \* bounds

VARIABLES settings,    \* hops and protocol fee; None before initialize
          pools,       \* id -> pair, reserves, fee, active
          accrued,     \* protocol fees, of every token together
          orders,      \* id -> order of the limit-order-book
          volume, paused

dex == <<settings, pools, accrued>>
book == <<orders, volume, paused>>
vars == <<dex, book>>

None == [none |-> TRUE]
Side == {"Buy", "Sell"}
OrderStatus == {"Open", "PartiallyFilled", "Filled", "Cancelled"}

Init ==
  /\ settings = None /\ pools = <<>> /\ accrued = 0
  /\ orders = <<>> /\ volume = 0 /\ paused = FALSE

Initialize(hops, fee) ==
  /\ settings = None
  /\ settings' = [hops |-> Min({5, Max({1, hops})}), fee |-> fee]
  /\ UNCHANGED <<pools, accrued, book>>

SetProtocolFee(fee) ==
  /\ settings # None
  /\ settings' = [settings EXCEPT !.fee = fee]
  /\ UNCHANGED <<pools, accrued, book>>

AddPool(pair, reserves, fee) ==
  /\ settings # None /\ Len(pools) < MaxPools
  /\ pools' = Append(pools, [pair |-> pair, reserves |-> reserves, fee |-> fee, active |-> TRUE])
  /\ UNCHANGED <<settings, accrued, book>>

UpdateReserves(id, reserves) ==
  /\ pools' = [pools EXCEPT ![id].reserves = reserves]
  /\ UNCHANGED <<settings, accrued, book>>

SetPoolActive(id, active) ==
  /\ pools' = [pools EXCEPT ![id].active = active]
  /\ UNCHANGED <<settings, accrued, book>>

-----------------------------------------------------------------------------
(* Quotes: side 1 is the pool's first token, side 2 its second *)

AmountOut(pool, side, n) ==
  LET x == pool.reserves[side]
      y == pool.reserves[3 - side]
      net == n * (Bps - pool.fee)
  IN IF x = 0 \/ y = 0 \/ n = 0 THEN 0 ELSE (net * y) \div (x * Bps + net)

Impact(pool, side, n) ==
  LET x == pool.reserves[side]
      ideal == IF x = 0 THEN 0 ELSE (n * pool.reserves[3 - side]) \div x
      out == AmountOut(pool, side, n)
  IN IF ideal > 0 /\ out < ideal THEN ((ideal - out) * Bps) \div ideal ELSE 0

\* What a route delivers if every hop meets the reserves of now.
Quote(route, n) ==
  FoldLeft(LAMBDA amount, h : AmountOut(pools[h.pool], h.side, amount), n, route)

Hops == [pool : DOMAIN pools, side : {1, 2}]

\* Hops over an active pool that take one token for another.
HopsFor(in, out) ==
  {h \in Hops : LET pool == pools[h.pool]
               IN pool.active /\ pool.pair[h.side] = in /\ pool.pair[3 - h.side] = out}

Direct(in, out) == {<<h>> : h \in HopsFor(in, out)}

TwoHops(in, out, n) ==
  UNION {{r \in HopsFor(in, mid) \X HopsFor(mid, out) :
            /\ r[1].pool # r[2].pool
            /\ AmountOut(pools[r[1].pool], r[1].side, n) > 0} : mid \in Token \ {out}}

Routes(in, out, n) ==
  Direct(in, out) \cup (IF settings.hops >= 2 THEN TwoHops(in, out, n) ELSE {})

\* find_best_route() takes the first of these that it meets.
BestRoutes(in, out, n) ==
  LET routes == Routes(in, out, n)
  IN {r \in routes : \A q \in routes : Quote(q, n) <= Quote(r, n)}

-----------------------------------------------------------------------------
(* Swaps *)

\* One hop of a swap under way: the pools, the amount carried, still valid.
HopDone(s, h) ==
  LET pool == s.pools[h.pool]
      out == AmountOut(pool, h.side, s.amount)
  IN [pools |-> [s.pools EXCEPT ![h.pool].reserves[h.side] = @ + s.amount,
                                ![h.pool].reserves[3 - h.side] = @ - out],
      amount |-> out,
      ok |-> s.ok /\ pool.active /\ Impact(pool, h.side, s.amount) <= MaxImpact]

Executed(route, n) == FoldLeft(HopDone, [pools |-> pools, amount |-> n, ok |-> TRUE], route)

\* The hops need not be of adjoining tokens: the amount is carried over as it is.
Swap(route, n) ==
  LET end == Executed(route, n)
      fee == (end.amount * settings.fee) \div Bps
  IN /\ settings # None /\ Len(route) <= settings.hops
     /\ end.ok
     /\ \A id \in DOMAIN pools : \A s \in 1..2 :
          end.pools[id].reserves[s] <= MaxReserve
     /\ accrued + fee <= MaxAccrued
     /\ pools' = end.pools
     /\ accrued' = accrued + fee
     /\ UNCHANGED <<settings, book>>

SwapBestRoute(in, out, n) ==
  settings # None /\ \E r \in BestRoutes(in, out, n) : Swap(r, n)

Pairs == {p \in Token \X Token : p[1] # p[2]}

-----------------------------------------------------------------------------
(* The limit order book *)

SetPaused(b) == paused' = b /\ UNCHANGED <<dex, orders, volume>>

Live(o) == o.status \in {"Open", "PartiallyFilled"}

\* Resting orders that order id can trade with.  Of more than ScanLimit orders
\* the later ones never rest, for the scan begins at the first.
Matches(os, id) ==
  {i \in DOMAIN os \ {id} :
     /\ i <= ScanLimit /\ Live(os[i]) /\ os[i].side # os[id].side
     /\ IF os[id].side = "Buy" THEN os[id].price >= os[i].price
                              ELSE os[id].price <= os[i].price}

\* Order i is served before order j of its side: by price, then by age.
Ahead(os, i, j) ==
  \/ IF os[i].side = "Sell" THEN os[i].price < os[j].price ELSE os[i].price > os[j].price
  \/ os[i].price = os[j].price /\ i < j

BestMatch(os, id) ==
  CHOOSE i \in Matches(os, id) : \A j \in Matches(os, id) \ {i} : Ahead(os, i, j)

Reduced(o, n) ==
  [o EXCEPT !.remaining = @ - n,
            !.status = IF o.remaining = n THEN "Filled" ELSE "PartiallyFilled"]

\* One trade of order id, if there is one: the orders and the volume so far.
Traded(s, id) ==
  IF s.orders[id].remaining = 0 \/ Matches(s.orders, id) = {} THEN s
  ELSE LET i == BestMatch(s.orders, id)
           fill == Min({s.orders[id].remaining, s.orders[i].remaining})
       IN [orders |-> [s.orders EXCEPT ![id] = Reduced(@, fill), ![i] = Reduced(@, fill)],
           volume |-> s.volume + fill]

\* Every trade but the last fills a resting order.
TryMatch(os, id) ==
  FoldLeft(LAMBDA s, k : Traded(s, id), [orders |-> os, volume |-> volume],
           [k \in 1..ScanLimit |-> k])

Matched(os, id) ==
  LET end == TryMatch(os, id)
  IN /\ orders' = end.orders /\ volume' = end.volume
     /\ UNCHANGED <<dex, paused>>

PlaceOrder(side, price, n) ==
  /\ ~paused /\ Len(orders) < MaxOrders
  /\ Matched(Append(orders, [side |-> side, price |-> price, quantity |-> n,
                             remaining |-> n, status |-> "Open"]), Len(orders) + 1)

MatchOrder(id) == ~paused /\ Live(orders[id]) /\ Matched(orders, id)

CancelOrder(id) ==
  /\ Live(orders[id])
  /\ orders' = [orders EXCEPT ![id].status = "Cancelled"]
  /\ UNCHANGED <<dex, volume, paused>>

AggregatorNext ==
  \/ \E h \in MaxHops, fee \in Fee : Initialize(h, fee)
  \/ \E fee \in Fee : SetProtocolFee(fee)
  \/ \E pair \in Pairs, r \in Reserve \X Reserve, fee \in Fee : AddPool(pair, r, fee)
  \/ \E id \in DOMAIN pools :
       \/ \E r \in Reserve \X Reserve : UpdateReserves(id, r)
       \/ \E b \in BOOLEAN : SetPoolActive(id, b)
  \/ \E n \in Amount :
       \/ \E in, out \in Token : SwapBestRoute(in, out, n)
       \/ \E k \in 1..2 : \E r \in [1..k -> Hops] : Swap(r, n)

BookNext ==
  \/ \E b \in BOOLEAN : SetPaused(b)
  \/ \E side \in Side, p \in Price, n \in Quantity : PlaceOrder(side, p, n)
  \/ \E id \in DOMAIN orders : MatchOrder(id) \/ CancelOrder(id)

Next ==
  \/ Contract = "dex-aggregator" /\ AggregatorNext
  \/ Contract = "limit-order-book" /\ BookNext

Spec == Init /\ [][Next]_vars

-----------------------------------------------------------------------------
(* Properties *)

\* A route found for a swap delivers what it was quoted at, although the swap
\* moves the reserves of the first pool before it meets the second one.
QuoteIsDelivered ==
  settings # None =>
    \A in, out \in Token, n \in Amount : \A r \in Routes(in, out, n) :
      Executed(r, n).amount = Quote(r, n)

Product(p) == p.reserves[1] * p.reserves[2]

\* No swap lowers the product of the reserves of a pool, whatever its route:
\* only new reserves set by the administrator do.
SwapKeepsProduct ==
  (\A id \in DOMAIN pools : Product(pools'[id]) >= Product(pools[id]))
    \/ \E id \in DOMAIN pools, r \in Reserve \X Reserve : UpdateReserves(id, r)

\* Two orders that could trade both stay open only beyond the scanned ones: so
\* match_order() has nothing left to do.  The volume is what was filled, once
\* for the two sides, and an order is filled when nothing remains of it.
BookUncrossed ==
  /\ \A i, j \in DOMAIN orders :
       Live(orders[i]) /\ Live(orders[j]) /\ orders[i].side = "Buy" /\ orders[j].side = "Sell"
         => orders[i].price < orders[j].price \/ (i > ScanLimit /\ j > ScanLimit)
  /\ 2 * volume = FoldLeft(LAMBDA sum, o : sum + o.quantity - o.remaining, 0, orders)
  /\ \A i \in DOMAIN orders : (orders[i].status = "Filled") = (orders[i].remaining = 0)

\* No trade passes over a scanned order of the same side that asks less, or bids
\* more, or is older at the same price: those are filled first, whoever places
\* orders and however large.
TradesByPriority ==
  \A i, j \in DOMAIN orders :
    LET gain == (orders[j].price - orders[i].price) * (IF orders[i].side = "Sell" THEN 1 ELSE -1)
    IN /\ orders'[j].remaining < orders[j].remaining
       /\ i <= ScanLimit /\ Live(orders[i]) /\ orders[i].side = orders[j].side
       /\ gain > 0 \/ (gain = 0 /\ i < j)
       => orders'[i].remaining = 0
=============================================================================
