---------------------------- MODULE Marketplaces ----------------------------
(***************************************************************************)
(* Two markets.  energy-trading: meters whose readings fill the balances   *)
(* of their owners, and orders that sell energy for energy; orders and     *)
(* the trades that settle them share one counter and one kind of key, and  *)
(* no call but initialize() needs the contract to be initialized. data-    *)
(* marketplace: providers list datasets, buyers pay for a number of        *)
(* queries within a time, and each query leaves a receipt under its        *)
(* commitment.  An action is a call that succeeds.                         *)
(***************************************************************************)
EXTENDS Integers, Sequences, FiniteSetsExt, FiniteSets, SequencesExt

CONSTANTS Contract,             \* "energy-trading" or "data-marketplace"
          Price,                \* of energy, and of a dataset and its queries
          User,
          Reading,              \* energy generated and consumed, as pairs
          Amount,
          MaxMeters, MaxGenerated, MaxConsumed, MaxTrades,  \* bounds
          Provider, Buyer,      \* may overlap
          Commitment,
          ActiveCap,            \* ACTIVE_CAP
          Duration, Count,      \* arguments of the calls
          MaxDatasets, MaxSpent, MaxTime  \* bounds

VARIABLES initialized,
          meters,   \* id -> meter
          trades,   \* id -> order or trade
          balance,  \* user -> energy, earned and spent
          traded,   \* total energy traded
          running,   \* initialized and not paused
          providers,
          datasets,  \* id -> dataset with its statistics and the roster of its buyers
          listed,    \* ActiveDatasets
          licenses,  \* <<dataset, buyer>> -> license, or None
          buyers,    \* buyer -> BuyerStats
          receipts,  \* commitment -> receipt, or None
          now

energyVars == <<initialized, meters, trades, balance, traded>>
dataVars == <<running, providers, datasets, listed, licenses, buyers, receipts, now>>
vars == <<energyVars, dataVars>>

None == [none |-> TRUE]

-----------------------------------------------------------------------------
(* energy-trading *)

EnergyBalance == [kwh |-> 0, earned |-> 0, spent |-> 0]

EnergyInit ==
  /\ initialized = FALSE
  /\ meters = <<>> /\ trades = <<>>
  /\ balance = [u \in User |-> EnergyBalance]
  /\ traded = 0

\* The total starts again at zero if there were trades before.
Initialize ==
  /\ ~initialized /\ initialized' = TRUE /\ traded' = 0
  /\ UNCHANGED <<meters, trades, balance>>

-----------------------------------------------------------------------------
(* Meters *)

SmartMeter(u) == [owner |-> u, active |-> TRUE, generated |-> 0]

RegisterMeter(u) ==
  /\ Len(meters) < MaxMeters
  /\ meters' = Append(meters, SmartMeter(u))
  /\ UNCHANGED <<initialized, trades, balance, traded>>

DeactivateMeter(m) ==
  /\ meters' = [meters EXCEPT ![m].active = FALSE]
  /\ UNCHANGED <<initialized, trades, balance, traded>>

\* The balance of an owner who consumes more than there is becomes negative.
SubmitReading(m, r) ==
  LET u == meters[m].owner IN
    /\ meters[m].active
    /\ meters[m].generated + r[1] <= MaxGenerated
    /\ balance[u].kwh + r[1] - r[2] >= -MaxConsumed
    /\ meters' = [meters EXCEPT ![m].generated = @ + r[1]]
    /\ balance' = [balance EXCEPT ![u].kwh = @ + r[1] - r[2]]
    /\ UNCHANGED <<initialized, trades, traded>>

-----------------------------------------------------------------------------
(* Orders and trades *)

Orders == {id \in DOMAIN trades : trades[id].kind = "order"}
Settlements == {id \in DOMAIN trades : trades[id].kind = "trade"}
Open == {id \in Orders : trades[id].status = "Open"}

TradeOrder(m, n, p) ==
  [kind |-> "order", meter |-> m, buyer |-> None, kwh |-> n, total |-> n * p, status |-> "Open"]

\* The seller has the energy now: nothing keeps it for the order.
CreateSellOrder(m, n, p) ==
  /\ balance[meters[m].owner].kwh >= n
  /\ Len(trades) < MaxTrades
  /\ trades' = Append(trades, TradeOrder(m, n, p))
  /\ UNCHANGED <<initialized, meters, balance, traded>>

EnergyTrade(seller, buyer, o) ==
  [kind |-> "trade", seller |-> seller, buyer |-> buyer, kwh |-> o.kwh, total |-> o.total,
   status |-> "Settled"]

\* The price is paid in energy, and the seller does not receive it; the seller
\* may have sold the energy elsewhere by now.
AcceptOrder(id, m) ==
  LET o == trades[id]
      seller == meters[o.meter].owner
      buyer == meters[m].owner
  IN /\ id \in Open /\ seller # buyer
     /\ balance[buyer].kwh >= o.total
     /\ Len(trades) < MaxTrades
     /\ trades' = Append([trades EXCEPT ![id].status = "Matched", ![id].buyer = buyer],
                         EnergyTrade(seller, buyer, o))
     /\ balance' = [balance EXCEPT
          ![seller].kwh = @ - o.kwh, ![seller].earned = @ + o.total,
          ![buyer].kwh = @ - o.total + o.kwh, ![buyer].spent = @ + o.total]
     /\ traded' = traded + o.kwh
     /\ UNCHANGED <<initialized, meters>>

CancelOrder(id) ==
  /\ id \in Open
  /\ trades' = [trades EXCEPT ![id].status = "Cancelled"]
  /\ UNCHANGED <<initialized, meters, balance, traded>>

EnergyNext ==
  \/ Initialize
  \/ \E u \in User : RegisterMeter(u)
  \/ \E m \in DOMAIN meters :
       \/ DeactivateMeter(m)
       \/ \E r \in Reading : SubmitReading(m, r)
       \/ \E n \in Amount, p \in Price : CreateSellOrder(m, n, p)
       \/ \E id \in DOMAIN trades : AcceptOrder(id, m)
  \/ \E id \in DOMAIN trades : CancelOrder(id)

-----------------------------------------------------------------------------
(* data-marketplace *)

Dataset(p, flat, each, seconds) ==
  [provider |-> p, flat |-> flat, each |-> each, seconds |-> seconds, delisted |-> FALSE,
   licenses |-> 0, active |-> 0, queries |-> 0, revenue |-> 0, roster |-> <<>>]
BuyerStats == [purchased |-> 0, queries |-> 0, spent |-> 0]

DataInit ==
  /\ running = FALSE /\ providers = {} /\ datasets = <<>> /\ listed = <<>>
  /\ licenses = [k \in (1..MaxDatasets) \X Buyer |-> None]
  /\ buyers = [b \in Buyer |-> BuyerStats]
  /\ receipts = [c \in Commitment |-> None]
  /\ now = 0

Tick ==
  /\ now < MaxTime /\ now' = now + 1
  /\ UNCHANGED <<running, providers, datasets, listed, licenses, buyers, receipts>>

\* Initialization and set_paused.
SetPaused(paused) ==
  /\ running' = ~paused
  /\ UNCHANGED <<providers, datasets, listed, licenses, buyers, receipts, now>>

RegisterProvider(p) ==
  /\ running /\ p \notin providers
  /\ providers' = providers \cup {p}
  /\ UNCHANGED <<running, datasets, listed, licenses, buyers, receipts, now>>

-----------------------------------------------------------------------------
(* Datasets *)

\* The newest is first, and the oldest falls out of a full list.
ListDataset(p, flat, each, seconds) ==
  /\ running /\ p \in providers /\ Len(datasets) < MaxDatasets
  /\ datasets' = Append(datasets, Dataset(p, flat, each, seconds))
  /\ listed' = LET all == <<Len(datasets) + 1>> \o listed IN
                 SubSeq(all, 1, Min({Len(all), ActiveCap}))
  /\ UNCHANGED <<running, providers, licenses, buyers, receipts, now>>

UpdateDatasetPrice(d, flat, each) ==
  /\ running /\ ~datasets[d].delisted
  /\ datasets' = [datasets EXCEPT ![d].flat = flat, ![d].each = each]
  /\ UNCHANGED <<running, providers, listed, licenses, buyers, receipts, now>>

DelistDataset(d) ==
  /\ running
  /\ datasets' = [datasets EXCEPT ![d].delisted = TRUE]
  /\ UNCHANGED <<running, providers, listed, licenses, buyers, receipts, now>>

-----------------------------------------------------------------------------
(* Licenses and queries *)

Unexpired(k) == licenses[k] # None /\ licenses[k].expires > now
Active(k) == Unexpired(k) /\ licenses[k].used < licenses[k].total

\* The license after n more queries are bought at a cost: an unexpired one is
\* prolonged and keeps what was not used.
License(k, n, cost) ==
  LET seconds == datasets[k[1]].seconds IN
    IF Unexpired(k)
    THEN [licenses[k] EXCEPT !.expires = @ + seconds, !.total = @ + n, !.paid = @ + cost]
    ELSE [expires |-> now + seconds, total |-> n, used |-> 0, paid |-> cost]

\* A license of which every query was used counts as a new one, and so does
\* its buyer among the active ones.
PurchaseAccess(b, d, n) ==
  LET k == <<d, b>>
      cost == datasets[d].each * n + datasets[d].flat
      new == IF Active(k) THEN 0 ELSE 1
  IN /\ running /\ ~datasets[d].delisted /\ b # datasets[d].provider
     /\ buyers[b].spent + cost <= MaxSpent
     /\ licenses' = [licenses EXCEPT ![k] = License(k, n, cost)]
     /\ datasets' = [datasets EXCEPT
          ![d].revenue = @ + cost, ![d].licenses = @ + new, ![d].active = @ + new,
          ![d].roster = IF new = 1 /\ ~Contains(@, b) THEN Append(@, b) ELSE @]
     /\ buyers' = [buyers EXCEPT ![b].spent = @ + cost, ![b].purchased = @ + new]
     /\ UNCHANGED <<running, providers, listed, receipts, now>>

\* A delisted dataset still answers those who paid.
SubmitQuery(b, d, c) ==
  LET k == <<d, b>> IN
    /\ running /\ b # datasets[d].provider
    /\ Unexpired(k) /\ licenses[k].used < licenses[k].total
    /\ receipts[c] = None
    /\ licenses' = [licenses EXCEPT ![k].used = @ + 1]
    /\ receipts' = [receipts EXCEPT ![c] =
         [dataset |-> d, buyer |-> b, sequence |-> licenses[k].used + 1]]
    /\ datasets' = [datasets EXCEPT ![d].queries = @ + 1]
    /\ buyers' = [buyers EXCEPT ![b].queries = @ + 1]
    /\ UNCHANGED <<running, providers, listed, now>>

DataNext ==
  \/ Tick
  \/ \E paused \in BOOLEAN : SetPaused(paused)
  \/ \E p \in Provider :
       \/ RegisterProvider(p)
       \/ \E flat \in Price, each \in Price, s \in Duration : ListDataset(p, flat, each, s)
  \/ \E d \in DOMAIN datasets :
       \/ DelistDataset(d)
       \/ \E flat \in Price, each \in Price : UpdateDatasetPrice(d, flat, each)
       \/ \E b \in Buyer, n \in Count : PurchaseAccess(b, d, n)
       \/ \E b \in Buyer, c \in Commitment : SubmitQuery(b, d, c)

-----------------------------------------------------------------------------
(* The contract that runs *)

Init == EnergyInit /\ DataInit

Next ==
  \/ Contract = "energy-trading" /\ EnergyNext /\ UNCHANGED dataVars
  \/ Contract = "data-marketplace" /\ DataNext /\ UNCHANGED energyVars

Spec == Init /\ [][Next]_vars

-----------------------------------------------------------------------------
(* Properties *)

Sum(f(_), S) == MapThenSumSet(f, S)

\* Trading makes no energy: what the users have, with what was paid away, was
\* generated.  What was earned was spent, in a trade, and every trade settles
\* an order of its own.
EnergyAccounted ==
  LET paid == Sum(LAMBDA id : trades[id].total, Settlements)
      matched == {id \in Orders : trades[id].status = "Matched"}
  IN /\ Sum(LAMBDA u : balance[u].kwh, User) + paid
          <= Sum(LAMBDA m : meters[m].generated, DOMAIN meters)
     /\ Sum(LAMBDA u : balance[u].earned, User) = paid
     /\ Sum(LAMBDA u : balance[u].spent, User) = paid
     /\ Sum(LAMBDA id : trades[id].total, matched) = paid
     /\ traded <= Sum(LAMBDA id : trades[id].kwh, Settlements)

\* An order that was matched or cancelled and a trade stay as they are.
OrderEndsOnce == \A id \in DOMAIN trades \ Open : trades'[id] = trades[id]

Answered(Test(_)) == Cardinality({c \in Commitment : receipts[c] # None /\ Test(receipts[c])})

\* Each receipt is counted once with its dataset and once with its buyer, what
\* the buyers spent is what the datasets earned, every license sold is counted
\* at both ends, and the roster of a dataset names each of its buyers once,
\* through renewals, exhausted quotas, expiry and changes of price.
StatisticsAgree ==
  /\ \A d \in DOMAIN datasets :
       /\ datasets[d].queries = Answered(LAMBDA r : r.dataset = d)
       /\ IsInjective(datasets[d].roster)
       /\ ToSet(datasets[d].roster) = {b \in Buyer : licenses[<<d, b>>] # None}
       /\ datasets[d].licenses >= Len(datasets[d].roster)
  /\ \A b \in Buyer : buyers[b].queries = Answered(LAMBDA r : r.buyer = b)
  /\ MapThenSumSet(LAMBDA b : buyers[b].spent, Buyer)
       = MapThenSumSet(LAMBDA d : datasets[d].revenue, DOMAIN datasets)
  /\ MapThenSumSet(LAMBDA b : buyers[b].purchased, Buyer)
       = MapThenSumSet(LAMBDA d : datasets[d].licenses, DOMAIN datasets)

\* What was paid for is not lost: until it expires a license keeps its end, or
\* moves it later, and the queries left on it, but for the one a call answers
\* and leaves a receipt for; delisting and new prices do not touch it.
PaidAccessKept ==
  \A k \in DOMAIN licenses : Unexpired(k) =>
    LET answered == \E c \in Commitment :
          receipts[c] = None /\ receipts'[c] # None
            /\ <<receipts'[c].dataset, receipts'[c].buyer>> = k
    IN /\ licenses'[k].expires >= licenses[k].expires
       /\ licenses'[k].total - licenses'[k].used
            >= licenses[k].total - licenses[k].used - (IF answered THEN 1 ELSE 0)
=============================================================================
