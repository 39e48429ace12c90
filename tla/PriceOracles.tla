---------------------------- MODULE PriceOracles ----------------------------
(***************************************************************************)
(* Five contracts that make one price of many reports: price-aggregator,     *)
(* where reading the price stores it for a circuit breaker;                  *)
(* price-feed-aggregator, where the breaker compares each report with the    *)
(* last one of its source; oracle and the InsuranceOracleAggregator of       *)
(* insurance-oracle, which answer the median; and twap-oracle, which         *)
(* answers an average over time.  One of them is deployed; the model has one *)
(* asset.  An action is a call that succeeds.                                *)
(***************************************************************************)
EXTENDS Integers, Sequences, FiniteSets, SequencesExt, FiniteSetsExt

CONSTANTS Contract,      \* the one that is deployed
          Bps,           \* 10000
          MaxSources,    \* MAX_SOURCES or MAX_REPORTERS, in the model of all contracts
          MaxObservations, \* MAX_OBSERVATIONS
          Config,        \* [strategy, age, outlier, breaker, least]
          Strategy, Price, Weight,  \* arguments of the calls
          MaxReporters, MaxTime     \* bounds

VARIABLES config,   \* what initialize and the setters stored, or None
          paused,
          sources,  \* id -> weight, activity and last report
          last,     \* LastAggregated, or 0
          asset, observations,  \* of the twap-oracle
          now

vars == <<config, paused, sources, last, asset, observations, now>>

None == [none |-> TRUE]

PriceSource(weight) == [weight |-> weight, active |-> TRUE, price |-> 0, time |-> 0]

Init == /\ config = None /\ paused = FALSE /\ sources = <<>> /\ last = 0
        /\ asset = "unregistered" /\ observations = <<>> /\ now = 0

Initialize(c) ==
  /\ config = None /\ config' = c
  /\ UNCHANGED <<paused, sources, last, asset, observations, now>>

Tick ==
  /\ now < MaxTime /\ now' = now + 1
  /\ UNCHANGED <<config, paused, sources, last, asset, observations>>

Distance(m, n) == IF m > n THEN m - n ELSE n - m
Deviation(n, from) == (Distance(n, from) * Bps) \div from

-----------------------------------------------------------------------------
(* What the contracts have in common *)

SetPaused(p) ==
  /\ config # None /\ paused' = p
  /\ UNCHANGED <<config, sources, last, asset, observations, now>>

AddSource(weight) ==
  /\ config # None /\ ~paused /\ Len(sources) < MaxSources
  /\ sources' = Append(sources, PriceSource(weight))
  /\ UNCHANGED <<config, paused, last, asset, observations, now>>

\* No call makes a removed source active again.
RemoveSource(i) ==
  /\ sources' = [sources EXCEPT ![i].active = FALSE]
  /\ UNCHANGED <<config, paused, last, asset, observations, now>>

SetWeight(i, weight) ==
  /\ sources' = [sources EXCEPT ![i].weight = weight]
  /\ UNCHANGED <<config, paused, last, asset, observations, now>>

SetStrategy(strategy) ==
  /\ config # None /\ config' = [config EXCEPT !.strategy = strategy]
  /\ UNCHANGED <<paused, sources, last, asset, observations, now>>

\* Who may report: in three of the contracts reporters come and go.
Registered == {i \in DOMAIN sources : sources[i].active}

AllowNew ==
  /\ config # None /\ Len(sources) < MaxReporters
  /\ sources' = Append(sources, PriceSource(1))
  /\ UNCHANGED <<config, paused, last, asset, observations, now>>

\* One who comes back has the last report again.
SetAllowed(i, allowed) ==
  /\ sources' = [sources EXCEPT ![i].active = allowed]
  /\ UNCHANGED <<config, paused, last, asset, observations, now>>

Report(i, price) ==
  /\ ~paused /\ sources[i].active
  /\ sources' = [sources EXCEPT ![i].price = price, ![i].time = now]
  /\ UNCHANGED <<config, paused, last, asset, observations, now>>

\* The sources whose report counts now.
Fresh == {i \in DOMAIN sources :
            sources[i].active /\ sources[i].price > 0 /\ now - sources[i].time <= config.age}

\* The prices in order, each with its weight.
Sorted(S) ==
  SortSeq([k \in 1..Cardinality(S) |-> sources[SetToSortSeq(S, <)[k]]],
          LAMBDA r, s : r.price < s.price)

MedianOf(list) ==
  LET mid == Len(list) \div 2 IN
    IF Len(list) % 2 = 1 THEN list[mid + 1].price ELSE (list[mid].price + list[mid + 1].price) \div 2

SumOf(list, Value(_)) == MapThenSumSet(LAMBDA k : Value(list[k]), DOMAIN list)

WeightedAverage(list) ==
  SumOf(list, LAMBDA s : s.price * s.weight) \div SumOf(list, LAMBDA s : s.weight)

\* The mean without the n lowest and the n highest.
MeanWithout(list, n) ==
  LET kept == SubSeq(list, n + 1, Len(list) - n)
  IN SumOf(kept, LAMBDA s : s.price) \div Len(kept)

Near(list, price) == SelectSeq(list, LAMBDA s : Deviation(s.price, price) <= config.outlier)

SourceAdministration ==
  \/ \E c \in Config : Initialize(c)
  \/ \E p \in BOOLEAN : SetPaused(p)
  \/ \E w \in Weight : AddSource(w) \/ \E i \in DOMAIN sources : SetWeight(i, w)
  \/ \E i \in DOMAIN sources : RemoveSource(i)
  \/ \E strategy \in Strategy : SetStrategy(strategy)

-----------------------------------------------------------------------------
(* price-aggregator *)

UpdatePrice(i, price) == Report(i, price)

Aggregated(list) ==
  CASE config.strategy = "Median" -> MedianOf(list)
    [] config.strategy = "WeightedAverage" -> WeightedAverage(list)
    [] config.strategy = "TrimmedMean" -> MeanWithout(list, IF Len(list) > 2 THEN 1 ELSE 0)

\* Reports far from the median of all are left out, but for two that are far
\* apart nothing may be left; a price that is far from the last one read is
\* refused, until the reports come back to that.
GetAggregatedPrice ==
  LET all == Sorted(Fresh)
      kept == Near(all, MedianOf(all))
  IN /\ config # None
     /\ all # <<>> /\ kept # <<>>
     /\ Len(all) >= config.least /\ Len(kept) >= config.least
     /\ last > 0 => Deviation(Aggregated(kept), last) <= config.breaker
     /\ last' = Aggregated(kept)
     /\ UNCHANGED <<config, paused, sources, asset, observations, now>>

PriceAggregator ==
  \/ SourceAdministration
  \/ \E i \in DOMAIN sources, price \in Price : UpdatePrice(i, price)
  \/ GetAggregatedPrice

-----------------------------------------------------------------------------
(* price-feed-aggregator *)

\* A source whose market moved past the breaker can never report again.
FeedUpdatePrice(i, price) ==
  /\ sources[i].price > 0 => Deviation(price, sources[i].price) <= config.breaker
  /\ Report(i, price)

SetMaxPriceAge(age) ==
  /\ config # None
  /\ config' = [config EXCEPT !.age = age]
  /\ UNCHANGED <<paused, sources, last, asset, observations, now>>
SetOutlierBps(bps) ==
  /\ config # None
  /\ config' = [config EXCEPT !.outlier = bps]
  /\ UNCHANGED <<paused, sources, last, asset, observations, now>>
SetCircuitBreakerBps(bps) ==
  /\ config # None
  /\ config' = [config EXCEPT !.breaker = bps]
  /\ UNCHANGED <<paused, sources, last, asset, observations, now>>

\* A tenth of the reports at either end, so none of fewer than ten.
TrimmedMean(list) == MeanWithout(list, (Len(list) * 10) \div 100)

\* The price the feed answers, of at least one fresh report: outliers are left
\* out of three reports or more, unless all of them are outliers.
FeedPrice ==
  LET all == Sorted(Fresh)
      near == Near(all, MedianOf(all))
      kept == IF Len(all) > 2 /\ near # <<>> THEN near ELSE all
  IN CASE config.strategy = "Median" -> MedianOf(kept)
       [] config.strategy = "WeightedAverage" -> WeightedAverage(kept)
       [] config.strategy = "TrimmedMean" -> TrimmedMean(kept)

FeedAdministration == SourceAdministration

PriceFeedAggregator ==
  \/ FeedAdministration
  \/ \E c \in Config :
       SetMaxPriceAge(c.age) \/ SetOutlierBps(c.outlier) \/ SetCircuitBreakerBps(c.breaker)
  \/ \E i \in DOMAIN sources, price \in Price : FeedUpdatePrice(i, price)

-----------------------------------------------------------------------------
(* oracle *)

OracleSetup == \/ \E c \in Config : Initialize(c)
               \/ \E p \in BOOLEAN : SetPaused(p)

\* Also while the oracle is paused.
AddReporter ==
  /\ Cardinality(Registered) < MaxSources
  /\ \/ AllowNew
     \/ \E i \in DOMAIN sources \ Registered : SetAllowed(i, TRUE)

\* With the report.
RemoveReporter(i) ==
  /\ i \in Registered
  /\ sources' = [sources EXCEPT ![i] = [PriceSource(1) EXCEPT !.active = FALSE]]
  /\ UNCHANGED <<config, paused, last, asset, observations, now>>

SetMaxAge(age) ==
  /\ config # None /\ config' = [config EXCEPT !.age = age]
  /\ UNCHANGED <<paused, sources, last, asset, observations, now>>
SetMinSources(least) ==
  /\ config # None /\ config' = [config EXCEPT !.least = least]
  /\ UNCHANGED <<paused, sources, last, asset, observations, now>>

SubmitPrice(i, price) == Report(i, price)

\* The price that the oracle answers when it answers one.
Answers == ~paused /\ Cardinality(Fresh) >= config.least
Median == MedianOf(Sorted(Fresh))

Oracle ==
  \/ OracleSetup \/ AddReporter
  \/ \E c \in Config : SetMaxAge(c.age) \/ SetMinSources(c.least)
  \/ \E i \in DOMAIN sources : RemoveReporter(i) \/ \E price \in Price : SubmitPrice(i, price)

-----------------------------------------------------------------------------
(* insurance-oracle: InsuranceOracleAggregator *)

AggregatorInitialize(c) == Initialize(c)

\* The report of one whose status is revoked is kept, and counts again, while
\* it is fresh, as soon as the status is granted again.
SetReporterStatus ==
  AllowNew \/ \E i \in DOMAIN sources, authorized \in BOOLEAN : SetAllowed(i, authorized)

AggregatorSubmitPrice(i, price) == Report(i, price)

MedianPrice == MedianOf(Sorted(Fresh))

InsuranceAggregator ==
  \/ \E c \in Config : AggregatorInitialize(c)
  \/ SetReporterStatus
  \/ \E i \in DOMAIN sources, price \in Price : AggregatorSubmitPrice(i, price)

-----------------------------------------------------------------------------
(* twap-oracle *)

TwapSetup == \/ \E c \in Config : Initialize(c)
             \/ \E p \in BOOLEAN : SetPaused(p)

SetFeeder == AllowNew \/ \E i \in DOMAIN sources, active \in BOOLEAN : SetAllowed(i, active)

RegisterAsset ==
  /\ config # None /\ asset = "unregistered" /\ asset' = "active"
  /\ UNCHANGED <<config, paused, sources, last, observations, now>>
\* No call makes it active again.
DeactivateAsset ==
  /\ asset # "unregistered" /\ asset' = "inactive"
  /\ UNCHANGED <<config, paused, sources, last, observations, now>>

\* Once the list is full the oldest observation goes.
Pushed(list, o) ==
  Append(IF Len(list) >= MaxObservations THEN Tail(list) ELSE list, o)

\* Each price counts, from the next observation on, for as long as it was the last.
Observation(price) ==
  LET o == Last(observations) IN
    [price |-> price, time |-> now,
     cumulative |-> IF observations = <<>> THEN 0
                    ELSE o.cumulative + o.price * (now - o.time)]

Observe(i, price) ==
  /\ ~paused /\ sources[i].active /\ asset = "active"
  /\ observations' = Pushed(observations, Observation(price))
  /\ UNCHANGED <<config, paused, sources, last, asset, now>>

Window(length) ==
  SelectSeq(observations, LAMBDA o : o.time >= IF now > length THEN now - length ELSE 0)

\* There is an average once two moments were observed in the window; the last
\* price has no part in it.
HasTwap(window) == Len(window) > 1 /\ window[1].time < Last(window).time
Twap(window) ==
  (Last(window).cumulative - window[1].cumulative) \div (Last(window).time - window[1].time)

TwapOracle ==
  \/ TwapSetup \/ SetFeeder \/ RegisterAsset \/ DeactivateAsset
  \/ \E i \in DOMAIN sources, price \in Price : Observe(i, price)

-----------------------------------------------------------------------------
Next ==
  \/ Tick
  \/ Contract = "price-aggregator" /\ PriceAggregator
  \/ Contract = "price-feed-aggregator" /\ PriceFeedAggregator
  \/ Contract = "oracle" /\ Oracle
  \/ Contract = "insurance-oracle" /\ InsuranceAggregator
  \/ Contract = "twap-oracle" /\ TwapOracle

Spec == Init /\ [][Next]_vars

-----------------------------------------------------------------------------
(* Properties *)

Between(price, S) ==
  /\ price >= Min({sources[i].price : i \in S})
  /\ price <= Max({sources[i].price : i \in S})

\* A price that more than half of the fresh reports agree on is the median,
\* whatever the others report and whichever of them are left out.
FollowsMajority(price) ==
  \A n \in Price :
    2 * Cardinality({i \in Fresh : sources[i].price = n}) > Cardinality(Fresh)
      /\ config.strategy = "Median" => price = n

\* Whatever the strategy, the weights and the outliers, the price of the feed
\* is within its fresh reports, and their median follows a majority; so does
\* that of the oracle, which forgets what a removed reporter said, and of the
\* insurance-oracle.
\* The average over time is within the prices that were the last one for a
\* while: one that is replaced in the same second does not move it.
FeedFollowsReports ==
  /\ Contract = "price-feed-aggregator" /\ config # None /\ Fresh # {} =>
       Between(FeedPrice, Fresh) /\ FollowsMajority(FeedPrice)
  /\ Contract = "oracle" /\ config # None /\ Fresh # {} =>
       /\ Cardinality(Registered) <= MaxSources
       /\ \A i \in DOMAIN sources \ Registered : sources[i].price = 0
       /\ Answers => Between(Median, Fresh) /\ FollowsMajority(Median)
  /\ Contract = "insurance-oracle" /\ config # None /\ Fresh # {} =>
       Between(MedianPrice, Fresh) /\ FollowsMajority(MedianPrice)
  /\ \A length \in 0..MaxTime :
       LET window == Window(length)
           lasted == {window[k].price : k \in {j \in 1..Len(window) - 1 :
                                                 window[j].time < window[j + 1].time}}
       IN HasTwap(window) => Twap(window) \in Min(lasted)..Max(lasted)

\* The same of each price that the aggregator stores; and the stored price moves
\* by steps within the breaker, and only by being read.
AggregateFollowsReports ==
  last' # last =>
    /\ Between(last', Fresh) /\ FollowsMajority(last')
    /\ last > 0 => Deviation(last', last) <= config.breaker
    /\ sources' = sources
=============================================================================
