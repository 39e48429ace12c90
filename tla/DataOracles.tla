---------------------------- MODULE DataOracles ----------------------------
(***************************************************************************)
(* Six oracle contracts in which registered sources submit records: in      *)
(* weather-data-oracle, supply-chain-data-oracle and sports-results-oracle   *)
(* any source confirms a record any number of times; in weather-oracle each  *)
(* source submits once for a place and time and the second submission        *)
(* confirms the first; the shipments of supply-chain-oracle have a status    *)
(* and a trail of events; and insurance-oracle confirms nothing.  One of the *)
(* six is deployed.  An action is a call that succeeds.                      *)
(***************************************************************************)
EXTENDS Integers, Sequences, FiniteSets, SequencesExt, FiniteSetsExt

CONSTANTS Contract,   \* the one that is deployed
          Source, Threshold,
          Value, Normal, \* of the measurements, in units of which all are valid
          Key,           \* places with times
          Status,        \* that a source may give a shipment or a record
          MaxSources, MaxRecords, MaxConfirmations, MaxEvents  \* bounds

VARIABLES initialized, paused, breaker,
          threshold,
          range,    \* <<least, most>> of what is no outlier
          sources,  \* source -> activity and submissions, or None
          records   \* id -> record, or shipment

vars == <<initialized, paused, breaker, threshold, range, sources, records>>

None == [none |-> TRUE]
DefaultThreshold == IF Contract \in {"weather-data-oracle", "insurance-oracle"} THEN 3 ELSE 2

DataSource == [active |-> TRUE, submissions |-> 0]

\* by lists the sources that count among the confirmations of the
\* weather-oracle, trail the events of the two about shipments.
Record(key, value, status, s) ==
  [key |-> key, value |-> value, status |-> status, confirmations |-> 1,
   by |-> {s}, trail |-> <<>>]

Init ==
  /\ initialized = FALSE /\ paused = FALSE /\ breaker = FALSE
  /\ threshold = DefaultThreshold /\ range = <<Min(Value), Max(Value)>>
  /\ sources = [s \in Source |-> None] /\ records = <<>>

Initialize(t) ==
  /\ ~initialized /\ initialized' = TRUE /\ threshold' = t
  /\ UNCHANGED <<paused, breaker, range, sources, records>>

-----------------------------------------------------------------------------
(* What the contracts have in common *)

SetPaused(p) ==
  /\ initialized /\ paused' = p
  /\ UNCHANGED <<initialized, breaker, threshold, range, sources, records>>

SetCircuitBreaker(b) ==
  /\ initialized /\ breaker' = b
  /\ UNCHANGED <<initialized, paused, threshold, range, sources, records>>

\* A source that was removed is still there, and cannot be added again.
AddDataSource(s) ==
  /\ initialized /\ ~paused /\ sources[s] = None
  /\ Cardinality({r \in Source : sources[r] # None}) < MaxSources
  /\ sources' = [sources EXCEPT ![s] = DataSource]
  /\ UNCHANGED <<initialized, paused, breaker, threshold, range, records>>

SetActive(s, active) ==
  /\ initialized /\ sources[s] # None
  /\ sources' = [sources EXCEPT ![s].active = active]
  /\ UNCHANGED <<initialized, paused, breaker, threshold, range, records>>
RemoveDataSource(s) == SetActive(s, FALSE)

\* Records that have the confirmations already are not looked at again.
SetVerificationThreshold(t) ==
  /\ initialized /\ threshold' = t
  /\ UNCHANGED <<initialized, paused, breaker, range, sources, records>>

Sources == \E s \in Source : AddDataSource(s) \/ RemoveDataSource(s)
Thresholds ==
  \/ \E t \in Threshold \cup {DefaultThreshold} : Initialize(t)
  \/ \E t \in Threshold : SetVerificationThreshold(t)
Switches == \E b \in BOOLEAN : SetPaused(b) \/ SetCircuitBreaker(b)

MaySubmit(s) ==
  /\ initialized /\ ~paused /\ ~breaker
  /\ sources[s] # None /\ sources[s].active

Submitted(s) == sources' = [sources EXCEPT ![s].submissions = @ + 1]

Submit(s, record) ==
  /\ MaySubmit(s) /\ Len(records) < MaxRecords
  /\ records' = Append(records, record)
  /\ Submitted(s)
  /\ UNCHANGED <<initialized, paused, breaker, threshold, range>>

\* The submitter too, and again.
Confirm(s, i) ==
  LET n == records[i].confirmations + 1 IN
    /\ MaySubmit(s) /\ records[i].status # "Finalized" /\ n <= MaxConfirmations
    /\ records' = [records EXCEPT ![i].confirmations = n,
                                  ![i].status = IF n >= threshold THEN "Verified" ELSE @]
    /\ UNCHANGED <<initialized, paused, breaker, threshold, range, sources>>

\* Verified or not.
Finalize(i) ==
  /\ records[i].status # "Finalized"
  /\ records' = [records EXCEPT ![i].status = "Finalized"]
  /\ UNCHANGED <<initialized, paused, breaker, threshold, range, sources>>

-----------------------------------------------------------------------------
(* weather-data-oracle *)

SetOutlierThreshold(r) ==
  /\ initialized /\ range' = r
  /\ UNCHANGED <<initialized, paused, breaker, threshold, sources, records>>

IsOutlier(value) == value < range[1] \/ value > range[2]

\* A new record is pending, also when the threshold is one.
SubmitMeasurements(s, key, value) ==
  ~IsOutlier(value) /\ Submit(s, Record(key, value, "Pending", s))

ConfirmWeatherData(s, i) == Confirm(s, i)
FinalizeWeatherData(i) == Finalize(i)

WeatherDataOracle ==
  \/ Sources \/ Thresholds \/ Switches
  \/ \E r \in Normal : SetOutlierThreshold(r)
  \/ \E s \in Source, key \in Key, value \in Value : SubmitMeasurements(s, key, value)
  \/ \E i \in DOMAIN records : FinalizeWeatherData(i) \/ \E s \in Source : ConfirmWeatherData(s, i)

-----------------------------------------------------------------------------
(* weather-oracle *)

\* Here a removed source may be made active again.
WeatherAdministration ==
  Sources \/ Thresholds \/ Switches \/ \E s \in Source : SetActive(s, TRUE)

\* The first submission for a place and time is the record; what the later ones
\* measured is not compared with it, nor kept.
SubmitWeatherData(s, key, value) ==
  LET known == {i \in DOMAIN records : records[i].key = key} IN
    \/ known = {} /\ Submit(s, Record(key, value, "Pending", s))
    \/ \E i \in known :
         LET n == records[i].confirmations + 1 IN
           /\ MaySubmit(s) /\ s \notin records[i].by
           /\ records' = [records EXCEPT
                ![i].confirmations = n, ![i].by = @ \cup {s},
                ![i].status = IF n >= threshold THEN "Verified" ELSE @]
           /\ Submitted(s)
           /\ UNCHANGED <<initialized, paused, breaker, threshold, range>>

WeatherOracle ==
  \/ WeatherAdministration
  \/ \E s \in Source, key \in Key, value \in Value : SubmitWeatherData(s, key, value)

-----------------------------------------------------------------------------
(* supply-chain-oracle *)

ShipmentAdministration == Sources \/ Thresholds
ShipmentSwitches == Switches

Recorded(shipment, event, s) ==
  [shipment EXCEPT !.trail = Append(@, [event |-> event, recorder |-> s])]

SubmitShipment(s, key) ==
  Submit(s, Recorded(Record(key, Min(Value), "Created", s), "created", s))

MayRecord(s, i) ==
  MaySubmit(s) /\ records[i].status # "Finalized" /\ Len(records[i].trail) < MaxEvents

\* A disputed shipment too is delivered by the confirmation that reaches the threshold.
ConfirmShipment(s, i) ==
  LET n == records[i].confirmations + 1 IN
    /\ MayRecord(s, i)
    /\ records' = [records EXCEPT ![i] =
         [Recorded(@, "confirmed", s) EXCEPT
            !.confirmations = n, !.status = IF n >= threshold THEN "Delivered" ELSE @]]
    /\ UNCHANGED <<initialized, paused, breaker, threshold, range, sources>>

\* From any status to any but "Created", "Finalized" among them.
UpdateStatus(s, i, status) ==
  /\ MayRecord(s, i) /\ status # "Created"
  /\ records' = [records EXCEPT ![i] = [Recorded(@, "status_update", s) EXCEPT !.status = status]]
  /\ UNCHANGED <<initialized, paused, breaker, threshold, range, sources>>

\* The trail has no event for it.
FinalizeShipment(i) == Finalize(i)

SupplyChainOracle ==
  \/ ShipmentAdministration \/ ShipmentSwitches
  \/ \E s \in Source, key \in Key : SubmitShipment(s, key)
  \/ \E i \in DOMAIN records :
       \/ FinalizeShipment(i)
       \/ \E s \in Source :
            ConfirmShipment(s, i) \/ \E status \in Status : UpdateStatus(s, i, status)

-----------------------------------------------------------------------------
(* supply-chain-data-oracle: each record is one event in the trail of its key *)

LogisticsAdministration == Sources \/ Thresholds
LogisticsSwitches == Switches

\* In the status its submitter names, "Verified" and "Finalized" among them.
SubmitLogisticsData(s, key, status) ==
  Submit(s, Recorded(Record(key, Min(Value), status, s), "submitted", s))

ConfirmLogisticsData(s, i) == Confirm(s, i)
FinalizeLogisticsData(i) == Finalize(i)

SupplyChainDataOracle ==
  \/ LogisticsAdministration \/ LogisticsSwitches
  \/ \E s \in Source, key \in Key, status \in Status : SubmitLogisticsData(s, key, status)
  \/ \E i \in DOMAIN records :
       FinalizeLogisticsData(i) \/ \E s \in Source : ConfirmLogisticsData(s, i)

-----------------------------------------------------------------------------
(* sports-results-oracle *)

ResultAdministration == Sources \/ Thresholds
ResultSwitches == Switches

SubmitSportsData(s, key, value) == Submit(s, Record(key, value, "Pending", s))
ConfirmResult(s, i) == Confirm(s, i)
FinalizeResult(i) == Finalize(i)

SportsResultsOracle ==
  \/ ResultAdministration \/ ResultSwitches
  \/ \E s \in Source, key \in Key, value \in Value : SubmitSportsData(s, key, value)
  \/ \E i \in DOMAIN records : FinalizeResult(i) \/ \E s \in Source : ConfirmResult(s, i)

-----------------------------------------------------------------------------
(* insurance-oracle: InsuranceOracle *)

RiskSetup == Initialize(DefaultThreshold)

\* A source that was removed may be added again.
AddRiskSource(s) ==
  /\ initialized
  /\ sources[s] # None => ~sources[s].active
  /\ Cardinality({r \in Source : sources[r] # None /\ sources[r].active}) < MaxSources
  /\ sources' = [sources EXCEPT ![s] = IF @ = None THEN DataSource ELSE [@ EXCEPT !.active = TRUE]]
  /\ UNCHANGED <<initialized, paused, breaker, threshold, range, records>>
RemoveRiskSource(s) == SetActive(s, FALSE)

\* The threshold is stored and read by no call: what one source says is data.
RiskSwitches ==
  \/ \E t \in Threshold : SetVerificationThreshold(t)
  \/ \E b \in BOOLEAN : SetCircuitBreaker(b)

SubmitRiskData(s, key, value) == Submit(s, Record(key, value, "Pending", s))

InsuranceOracle ==
  \/ RiskSetup \/ RiskSwitches
  \/ \E s \in Source :
       \/ AddRiskSource(s) \/ RemoveRiskSource(s)
       \/ \E key \in Key, value \in Value : SubmitRiskData(s, key, value)

-----------------------------------------------------------------------------
Next ==
  \/ Contract = "weather-data-oracle" /\ WeatherDataOracle
  \/ Contract = "weather-oracle" /\ WeatherOracle
  \/ Contract = "supply-chain-oracle" /\ SupplyChainOracle
  \/ Contract = "supply-chain-data-oracle" /\ SupplyChainDataOracle
  \/ Contract = "sports-results-oracle" /\ SportsResultsOracle
  \/ Contract = "insurance-oracle" /\ InsuranceOracle

Spec == Init /\ [][Next]_vars

-----------------------------------------------------------------------------
(* Properties *)

Events(r, kind) == Cardinality({k \in DOMAIN r.trail : r.trail[k].event = kind})

\* The submissions counted with the sources, by the model in the insurance-oracle,
\* are those the records stand for.
\* In the weather-oracle each confirmation is that of another source, and there
\* is one record for a place and time; in the supply-chain-oracle each
\* confirmation of a shipment is in its trail, which begins with its creation,
\* by a source that is still registered, active or not.
ConfirmationsCounted ==
  LET counted == MapThenSumSet(LAMBDA s : IF sources[s] = None THEN 0 ELSE sources[s].submissions,
                               Source)
  IN /\ counted = IF Contract = "weather-oracle"
                  THEN MapThenSumSet(LAMBDA i : records[i].confirmations, DOMAIN records)
                  ELSE Len(records)
     /\ Contract = "weather-oracle" =>
          \A i, j \in DOMAIN records :
            /\ records[i].confirmations = Cardinality(records[i].by)
            /\ records[i].key = records[j].key => i = j
     /\ Contract = "supply-chain-oracle" =>
          \A i \in DOMAIN records :
            /\ records[i].trail[1].event = "created" /\ Events(records[i], "created") = 1
            /\ Events(records[i], "confirmed") = records[i].confirmations - 1
            /\ \A k \in DOMAIN records[i].trail : sources[records[i].trail[k].recorder] # None

\* What is final stays, what was measured never changes, a trail is only added
\* to, and a record is verified only by the confirmation that reaches the
\* threshold of the moment; for the weather-oracle that is of as many sources.
HistoryKept ==
  \A i \in DOMAIN records :
    LET r == records[i] n == records'[i] IN
      /\ r.status = "Finalized" => n = r
      /\ n.value = r.value /\ n.key = r.key /\ IsPrefix(r.trail, n.trail)
      /\ n.status # r.status /\ n.status = "Verified" =>
           n.confirmations = r.confirmations + 1 /\ n.confirmations >= threshold
      /\ r.status = "Verified" => n.status \in {"Verified", "Finalized"}
=============================================================================
