------------------------ MODULE ParametricInsurance -------------------------
(***************************************************************************)
(* Parametric insurance: policies that pay a fixed coverage when a reading *)
(* crosses a threshold.  Plain policies are settled by the last reading of *)
(* an oracle and only recorded; crop policies are settled by a satellite   *)
(* observation and paid from a reserve that must cover them all.  Beside   *)
(* it the crop-insurance contract, which pays from the premiums of all, and *)
(* the insurance-protocol, whose claims are voted on and never paid.  An   *)
(* action is a call that succeeds: a claim on an expired policy fails, so  *)
(* it does not even mark it expired.                                       *)
(***************************************************************************)
EXTENDS Integers, Sequences, FiniteSets, FiniteSetsExt

CONSTANTS Contract,        \* "parametric-insurance", "crop-insurance"
                           \* or "insurance-protocol"
          Value,           \* readings and thresholds
          Staleness,       \* MAX_ORACLE_STALENESS_SECS
          MaxAge,          \* max_observation_age of the crop products
          Premium, Coverage, Term, Amount,  \* arguments of the calls, positive
          Person,          \* holders and voters of the insurance-protocol
          Window, MinVotes,  \* VOTING_WINDOW_SECS, MIN_VOTES
          MaxProducts, MaxPolicies, MaxClaims, MaxHeld, MaxTime  \* bounds

VARIABLES initialized, configured,   \* the contract, and its reserve
          oracle,      \* the oracle is registered
          reading,     \* last reading and its time, or None
          products,    \* id -> terms, crop or plain
          policies,    \* id -> policy
          reserved, held, now,
          claims,      \* id -> claim of the insurance-protocol
          paused       \* the crop-insurance

others == <<claims, paused>>
vars == <<initialized, configured, oracle, reading, products, policies, reserved, held, now,
          others>>

None == [none |-> TRUE]
PolicyStatus == {"Active", "Claimed", "Expired"}
TriggerDirection == {"AtOrAbove", "AtOrBelow"}

Init ==
  /\ initialized = FALSE /\ configured = FALSE /\ oracle = FALSE
  /\ reading = None
  /\ products = <<>> /\ policies = <<>>
  /\ reserved = 0 /\ held = 0 /\ now = 0
  /\ claims = <<>> /\ paused = FALSE

Initialize ==
  /\ ~initialized /\ initialized' = TRUE
  /\ UNCHANGED <<configured, oracle, reading, products, policies, reserved, held, now, others>>

Tick ==
  /\ now < MaxTime /\ now' = now + 1
  /\ UNCHANGED <<initialized, configured, oracle, reading, products, policies, reserved, held,
                 others>>

SetOracle(active) ==
  /\ initialized /\ oracle' = active
  /\ UNCHANGED <<initialized, configured, reading, products, policies, reserved, held, now, others>>

SubmitReading(v) ==
  /\ initialized /\ oracle
  /\ reading' = [value |-> v, at |-> now]
  /\ UNCHANGED <<initialized, configured, oracle, products, policies, reserved, held, now, others>>

ConfigureReserve ==
  /\ initialized /\ ~configured
  /\ configured' = TRUE /\ reserved' = 0
  /\ UNCHANGED <<initialized, oracle, reading, products, policies, held, now, others>>

FundReserve(n) ==
  /\ configured /\ held + n <= MaxHeld
  /\ held' = held + n
  /\ UNCHANGED <<initialized, configured, oracle, reading, products, policies, reserved,
                 now, others>>

WithdrawExcessReserve(n) ==
  /\ configured /\ n <= held - reserved
  /\ held' = held - n
  /\ UNCHANGED <<initialized, configured, oracle, reading, products, policies, reserved,
                 now, others>>

\* create_product(), create_crop_product()
CreateProduct(crop, premium, coverage, threshold, direction, term) ==
  /\ initialized /\ Len(products) < MaxProducts
  /\ products' = Append(products, [crop |-> crop, premium |-> premium, coverage |-> coverage,
                                   threshold |-> threshold, direction |-> direction,
                                   term |-> term, active |-> TRUE])
  /\ UNCHANGED <<initialized, configured, oracle, reading, policies, reserved, held, now, others>>

DeactivateProduct(id) ==
  /\ products' = [products EXCEPT ![id].active = FALSE]
  /\ UNCHANGED <<initialized, configured, oracle, reading, policies, reserved, held, now, others>>

-----------------------------------------------------------------------------
(* Policies *)

Bought(id, funded) ==
  Append(policies, [product |-> id, coverage |-> products[id].coverage, from |-> now,
                    until |-> now + products[id].term, status |-> "Active", funded |-> funded])

\* A plain policy is recorded without a payment.
BuyPolicy(id) ==
  /\ products[id].active /\ ~products[id].crop /\ Len(policies) < MaxPolicies
  /\ policies' = Bought(id, FALSE)
  /\ UNCHANGED <<initialized, configured, oracle, reading, products, reserved, held, now, others>>

BuyCropPolicy(id) ==
  LET p == products[id]
  IN /\ configured /\ p.active /\ p.crop /\ Len(policies) < MaxPolicies
     /\ held + p.premium <= MaxHeld /\ held + p.premium >= reserved + p.coverage
     /\ policies' = Bought(id, TRUE)
     /\ reserved' = reserved + p.coverage /\ held' = held + p.premium
     /\ UNCHANGED <<initialized, configured, oracle, reading, products, now, others>>

Triggered(p, v) ==
  IF products[p.product].direction = "AtOrAbove" THEN v >= products[p.product].threshold
  ELSE v <= products[p.product].threshold

\* The reading may be from before the policy was bought.
ProcessClaim(i) ==
  LET p == policies[i]
  IN /\ p.status = "Active" /\ now <= p.until /\ ~products[p.product].crop
     /\ reading # None /\ now - reading.at <= Staleness /\ Triggered(p, reading.value)
     /\ policies' = [policies EXCEPT ![i].status = "Claimed"]
     /\ UNCHANGED <<initialized, configured, oracle, reading, products, reserved,
                    held, now, others>>

\* A verified observation of the satellite oracle: its value and its time.
ProcessSatelliteClaim(i, v, at) ==
  LET p == policies[i]
  IN /\ p.status = "Active" /\ p.funded /\ now <= p.until
     /\ at >= p.from /\ at <= now /\ now - at <= MaxAge /\ Triggered(p, v)
     /\ p.coverage <= reserved /\ p.coverage <= held
     /\ policies' = [policies EXCEPT ![i].status = "Claimed", ![i].funded = FALSE]
     /\ reserved' = reserved - p.coverage /\ held' = held - p.coverage
     /\ UNCHANGED <<initialized, configured, oracle, reading, products, now, others>>

ExpirePolicy(i) ==
  LET p == policies[i]
      released == IF p.funded THEN p.coverage ELSE 0
  IN /\ p.status = "Active" /\ now > p.until /\ released <= reserved
     /\ policies' = [policies EXCEPT ![i].status = "Expired", ![i].funded = FALSE]
     /\ reserved' = reserved - released
     /\ UNCHANGED <<initialized, configured, oracle, reading, products, held, now, others>>

-----------------------------------------------------------------------------
(* The crop-insurance contract *)

SetPaused(b) ==
  /\ initialized /\ paused' = b
  /\ UNCHANGED <<initialized, configured, oracle, reading, products, policies, reserved, held,
                 now, claims>>

CreatePolicy(premium, payout, threshold, drought, term) ==
  /\ initialized /\ ~paused /\ payout > premium
  /\ Len(policies) < MaxPolicies /\ held + premium <= MaxHeld
  /\ policies' = Append(policies, [premium |-> premium, coverage |-> payout,
                                   threshold |-> threshold, drought |-> drought,
                                   until |-> now + term, status |-> "Active"])
  /\ held' = held + premium
  /\ UNCHANGED <<initialized, configured, oracle, reading, products, reserved, now, others>>

\* Of one region; never grows old.
SubmitRainfall(v) ==
  /\ initialized /\ ~paused
  /\ reading' = [value |-> v, at |-> now]
  /\ UNCHANGED <<initialized, configured, oracle, products, policies, reserved, held, now, others>>

\* Even after the end, while nobody has expired the policy; the transfer fails
\* when the contract has not enough.
TriggerPayout(i) ==
  LET p == policies[i]
  IN /\ ~paused /\ p.status = "Active" /\ reading # None
     /\ IF p.drought THEN reading.value < p.threshold ELSE reading.value > p.threshold
     /\ p.coverage <= held
     /\ policies' = [policies EXCEPT ![i].status = "Claimed"]
     /\ held' = held - p.coverage
     /\ UNCHANGED <<initialized, configured, oracle, reading, products, reserved, now, others>>

ExpireUnpaid(i) ==
  /\ policies[i].status = "Active" /\ now >= policies[i].until
  /\ policies' = [policies EXCEPT ![i].status = "Expired"]
  /\ UNCHANGED <<initialized, configured, oracle, reading, products, reserved, held, now, others>>

-----------------------------------------------------------------------------
(* The insurance-protocol: policies stay active, expiry is a date *)

ListProduct ==
  /\ initialized /\ Len(products) < MaxProducts
  /\ products' = Append(products, [active |-> TRUE])
  /\ UNCHANGED <<initialized, configured, oracle, reading, policies, reserved, held, now, others>>

DelistProduct(id) ==
  /\ products[id].active
  /\ products' = [products EXCEPT ![id].active = FALSE]
  /\ UNCHANGED <<initialized, configured, oracle, reading, policies, reserved, held, now, others>>

\* Not twice, not even after the first policy has run out.
BuyCoverage(h, id, term) ==
  /\ products[id].active /\ Len(policies) < MaxPolicies
  /\ \A i \in DOMAIN policies : ~(policies[i].holder = h /\ policies[i].product = id)
  /\ policies' = Append(policies, [holder |-> h, product |-> id, coverage |-> 0,
                                   until |-> now + term, status |-> "Active"])
  /\ UNCHANGED <<initialized, configured, oracle, reading, products, reserved, held, now, others>>

\* As often as the holder likes.
FileClaim(i) ==
  /\ now <= policies[i].until /\ Len(claims) < MaxClaims
  /\ claims' = Append(claims, [policy |-> i, for |-> 0, against |-> 0, voters |-> {},
                               ends |-> now + Window, status |-> "Pending"])
  /\ UNCHANGED <<initialized, configured, oracle, reading, products, policies, reserved, held,
                 now, paused>>

\* Until the claim is finalised, also after the window.
VoteClaim(v, c, approve) ==
  LET claim == claims[c]
  IN /\ claim.status = "Pending" /\ v # policies[claim.policy].holder /\ v \notin claim.voters
     /\ claims' = [claims EXCEPT ![c] =
          [claim EXCEPT !.voters = @ \cup {v}, !.for = @ + (IF approve THEN 1 ELSE 0),
                        !.against = @ + (IF approve THEN 0 ELSE 1)]]
     /\ UNCHANGED <<initialized, configured, oracle, reading, products, policies, reserved, held,
                    now, paused>>

FinaliseClaim(c) ==
  LET claim == claims[c]
  IN /\ claim.status = "Pending" /\ now >= claim.ends
     /\ claim.for + claim.against >= MinVotes
     /\ claims' = [claims EXCEPT
          ![c].status = IF claim.for > claim.against THEN "Approved" ELSE "Rejected"]
     /\ UNCHANGED <<initialized, configured, oracle, reading, products, policies, reserved, held,
                    now, paused>>

-----------------------------------------------------------------------------
ParametricNext ==
  \/ ConfigureReserve
  \/ \E b \in BOOLEAN : SetOracle(b)
  \/ \E v \in Value : SubmitReading(v)
  \/ \E n \in Amount : FundReserve(n) \/ WithdrawExcessReserve(n)
  \/ \E crop \in BOOLEAN, premium \in Premium, coverage \in Coverage, v \in Value,
        d \in TriggerDirection, term \in Term : CreateProduct(crop, premium, coverage, v, d, term)
  \/ \E id \in DOMAIN products : DeactivateProduct(id) \/ BuyPolicy(id) \/ BuyCropPolicy(id)
  \/ \E i \in DOMAIN policies :
       \/ ProcessClaim(i) \/ ExpirePolicy(i)
       \/ \E v \in Value, at \in 0..MaxTime : ProcessSatelliteClaim(i, v, at)

CropNext ==
  \/ \E b \in BOOLEAN : SetPaused(b)
  \/ \E v \in Value : SubmitRainfall(v)
  \/ \E premium \in Premium, payout \in Coverage, v \in Value, drought \in BOOLEAN, term \in Term :
       CreatePolicy(premium, payout, v, drought, term)
  \/ \E i \in DOMAIN policies : TriggerPayout(i) \/ ExpireUnpaid(i)

ProtocolNext ==
  \/ ListProduct
  \/ \E id \in DOMAIN products :
       \/ DelistProduct(id)
       \/ \E h \in Person, term \in Term : BuyCoverage(h, id, term)
  \/ \E i \in DOMAIN policies : FileClaim(i)
  \/ \E c \in DOMAIN claims :
       \/ FinaliseClaim(c)
       \/ \E v \in Person, approve \in BOOLEAN : VoteClaim(v, c, approve)

Next ==
  \/ Initialize \/ Tick
  \/ Contract = "parametric-insurance" /\ ParametricNext
  \/ Contract = "crop-insurance" /\ CropNext
  \/ Contract = "insurance-protocol" /\ ProtocolNext

Spec == Init /\ [][Next]_vars

-----------------------------------------------------------------------------
(* Properties *)

Total(f, S) == MapThenSumSet(LAMBDA i : f[i], S)
Coverages == [i \in DOMAIN policies |-> policies[i].coverage]

\* The reserve is the coverage of the crop policies still open, no more and no
\* less, and the contract holds it: the excess an administrator withdraws is
\* never somebody's payout, and every policy that triggers can be paid.  The
\* crop-insurance holds the premiums of all but for the payouts, once for each
\* policy.
ReserveCoversPolicies ==
  /\ Contract = "parametric-insurance" =>
       /\ reserved = Total(Coverages, {i \in DOMAIN policies : policies[i].funded})
       /\ held >= reserved
       /\ \A i \in DOMAIN policies :
            policies[i].funded = /\ policies[i].status = "Active"
                                 /\ products[policies[i].product].crop
  /\ Contract = "crop-insurance" =>
       held = Total([i \in DOMAIN policies |-> policies[i].premium], DOMAIN policies)
                - Total(Coverages, {i \in DOMAIN policies : policies[i].status = "Claimed"})

\* The counts of a claim are the votes of as many persons, the holder not among
\* them, and it is decided as they say, when they are enough; nobody holds two
\* policies of one product.
ClaimsCounted ==
  Contract = "insurance-protocol" =>
    /\ \A c \in DOMAIN claims :
         LET claim == claims[c]
         IN /\ claim.for + claim.against = Cardinality(claim.voters)
            /\ policies[claim.policy].holder \notin claim.voters
            /\ claim.status # "Pending" =>
                 /\ Cardinality(claim.voters) >= MinVotes /\ now >= claim.ends
                 /\ (claim.status = "Approved") = (claim.for > claim.against)
    /\ \A i, j \in DOMAIN policies :
         policies[i].holder = policies[j].holder /\ policies[i].product = policies[j].product
           => i = j

\* A policy is claimed or expires once, and its terms never change, although
\* its product may; a claim that is finalised takes no more votes.
PolicyEndsOnce ==
  /\ \A i \in DOMAIN policies :
       /\ policies[i].status # "Active" => policies'[i] = policies[i]
       /\ policies'[i].coverage = policies[i].coverage /\ policies'[i].until = policies[i].until
       /\ policies'[i].status = "Expired" /\ policies[i].status = "Active" =>
            now >= policies[i].until + (IF Contract = "crop-insurance" THEN 0 ELSE 1)
  /\ \A c \in DOMAIN claims : claims[c].status # "Pending" => claims'[c] = claims[c]
=============================================================================
