----------------------------- MODULE Registries -----------------------------
(***************************************************************************)
(* Two registries.  patent-registry: patents and their licenses,           *)
(* disputes, and escrows that pay a license in milestones; it keeps        *)
(* accounts only, and no call reads the dates.  supply-chain: products     *)
(* with their checkpoints and quality reports, and agreements on the       *)
(* temperature of a product, each violation of which is charged as it is   *)
(* logged; a report or a log of the same product (and time) replaces the   *)
(* earlier one.  An action is a call that succeeds.                        *)
(***************************************************************************)
EXTENDS Integers, Sequences, FiniteSetsExt, FiniteSets

CONSTANTS Contract,    \* "patent-registry" or "supply-chain"
          User,
          Stride,      \* 10_000, of the ids under which milestones are looked up
          Amount,
          MaxPatents, MaxLicenses, MaxDisputes, MaxEscrows, MaxMilestones,  \* bounds
          Person,      \* who may be a handler or an inspector
          Status,      \* statuses, of ProductStatus, that update_status is called with
          Temperature, \* temperatures that are logged
          Agreement,   \* lowest and highest temperature, penalty, duration
          MaxProducts, MaxCheckpoints, MaxSlas, MaxPenalties, MaxTime  \* bounds

VARIABLES initialized,
          paused,
          patents, licenses, disputes, escrows, milestones,  \* id -> record
          inspectors, handlers,
          products,   \* id -> product with its checkpoints and its report
          slas,       \* id -> agreement on the temperature of a product
          logs,       \* {<<product, time, status>>}, one a product and time
          penalties,  \* id -> penalty
          now

patentVars == <<paused, patents, licenses, disputes, escrows, milestones>>
supplyVars == <<inspectors, handlers, products, slas, logs, penalties, now>>
vars == <<initialized, patentVars, supplyVars>>

-----------------------------------------------------------------------------
(* patent-registry *)

PatentStatus == {"Pending", "Active", "Revoked"}
EscrowStatus == {"Funded", "PartiallyReleased", "FullyReleased", "Refunded"}
MilestoneStatus == {"Pending", "Completed", "Verified", "Rejected"}

PatentInit ==
  /\ initialized = FALSE /\ paused = FALSE
  /\ patents = <<>> /\ licenses = <<>> /\ disputes = <<>>
  /\ escrows = <<>> /\ milestones = <<>>

InitializePatents ==
  /\ ~initialized /\ initialized' = TRUE
  /\ UNCHANGED <<paused, patents, licenses, disputes, escrows, milestones>>

SetPaused(p) ==
  /\ initialized /\ paused' = p
  /\ UNCHANGED <<initialized, patents, licenses, disputes, escrows, milestones>>

\* Before initialize() the contract counts as unpaused.
FilePatent(u) ==
  /\ ~paused /\ Len(patents) < MaxPatents
  /\ patents' = Append(patents, [owner |-> u, status |-> "Pending", licenses |-> 0])
  /\ UNCHANGED <<initialized, paused, licenses, disputes, escrows, milestones>>

PatentBecomes(id, from, to) ==
  /\ initialized /\ ~paused /\ patents[id].status = from
  /\ patents' = [patents EXCEPT ![id].status = to]
  /\ UNCHANGED <<initialized, paused, licenses, disputes, escrows, milestones>>

ActivatePatent(id) == PatentBecomes(id, "Pending", "Active")
RevokePatent(id) == PatentBecomes(id, "Active", "Revoked")

TransferPatent(id, u) ==
  /\ ~paused /\ patents[id].status = "Active"
  /\ patents' = [patents EXCEPT ![id].owner = u]
  /\ UNCHANGED <<initialized, paused, licenses, disputes, escrows, milestones>>

GrantLicense(id, u) ==
  /\ ~paused /\ patents[id].status = "Active" /\ Len(licenses) < MaxLicenses
  /\ licenses' = Append(licenses, [patent |-> id, licensee |-> u])
  /\ patents' = [patents EXCEPT ![id].licenses = @ + 1]
  /\ UNCHANGED <<initialized, paused, disputes, escrows, milestones>>

FileDispute(id) ==
  /\ ~paused /\ Len(disputes) < MaxDisputes
  /\ disputes' = Append(disputes, [patent |-> id, status |-> "Open"])
  /\ UNCHANGED <<initialized, paused, patents, licenses, escrows, milestones>>

ResolveDispute(d) ==
  /\ initialized /\ ~paused /\ disputes[d].status # "Resolved"
  /\ disputes' = [disputes EXCEPT ![d].status = "Resolved"]
  /\ UNCHANGED <<initialized, paused, patents, licenses, escrows, milestones>>

-----------------------------------------------------------------------------
(* Escrows *)

\* The license need not be one of the patent.
CreateEscrow(id, l, n) ==
  /\ ~paused /\ patents[id].status = "Active" /\ Len(escrows) < MaxEscrows
  /\ escrows' = Append(escrows,
       [payer |-> licenses[l].licensee, payee |-> patents[id].owner, total |-> n,
        deposited |-> 0, released |-> 0, status |-> "Funded", milestones |-> 0])
  /\ UNCHANGED <<initialized, paused, patents, licenses, disputes, milestones>>

FundEscrow(e) ==
  /\ ~paused /\ escrows[e].total > escrows[e].deposited
  /\ escrows' = [escrows EXCEPT ![e].deposited = escrows[e].total]
  /\ UNCHANGED <<initialized, paused, patents, licenses, disputes, milestones>>

\* get_total_milestone_amount(): milestones are looked up by ids of their
\* escrow, but have ids of their own, so the sum misses them.
TotalMilestoneAmount(e) ==
  MapThenSumSet(LAMBDA i : milestones[i].amount,
                {e * Stride + i : i \in 1..escrows[e].milestones} \cap DOMAIN milestones)

AddMilestone(e, n) ==
  /\ ~paused /\ Len(milestones) < MaxMilestones
  /\ TotalMilestoneAmount(e) + n <= escrows[e].total
  /\ milestones' = Append(milestones, [escrow |-> e, amount |-> n, status |-> "Pending"])
  /\ escrows' = [escrows EXCEPT ![e].milestones = @ + 1]
  /\ UNCHANGED <<initialized, paused, patents, licenses, disputes>>

MilestoneBecomes(m, from, to) ==
  /\ ~paused /\ milestones[m].status = from
  /\ milestones' = [milestones EXCEPT ![m].status = to]
  /\ UNCHANGED <<initialized, paused, patents, licenses, disputes>>

CompleteMilestone(m) == MilestoneBecomes(m, "Pending", "Completed") /\ UNCHANGED escrows
RejectMilestone(m) == MilestoneBecomes(m, "Completed", "Rejected") /\ UNCHANGED escrows

\* Neither the deposit nor the state of the escrow is looked at.
VerifyAndRelease(m) ==
  LET e == milestones[m].escrow
      released == escrows[e].released + milestones[m].amount
  IN /\ MilestoneBecomes(m, "Completed", "Verified")
     /\ escrows' = [escrows EXCEPT
          ![e].released = released,
          ![e].status = IF released >= escrows[e].total THEN "FullyReleased"
                        ELSE "PartiallyReleased"]

RefundEscrow(e) ==
  /\ initialized /\ ~paused /\ escrows[e].status \notin {"FullyReleased", "Refunded"}
  /\ escrows' = [escrows EXCEPT ![e].released = escrows[e].deposited, ![e].status = "Refunded"]
  /\ UNCHANGED <<initialized, paused, patents, licenses, disputes, milestones>>

PatentNext ==
  \/ InitializePatents
  \/ \E p \in BOOLEAN : SetPaused(p)
  \/ \E u \in User : FilePatent(u)
  \/ \E id \in DOMAIN patents :
       \/ ActivatePatent(id) \/ RevokePatent(id) \/ FileDispute(id)
       \/ \E u \in User : TransferPatent(id, u) \/ GrantLicense(id, u)
       \/ \E l \in DOMAIN licenses, n \in Amount : CreateEscrow(id, l, n)
  \/ \E d \in DOMAIN disputes : ResolveDispute(d)
  \/ \E e \in DOMAIN escrows :
       \/ FundEscrow(e) \/ RefundEscrow(e)
       \/ \E n \in Amount : AddMilestone(e, n)
  \/ \E m \in DOMAIN milestones :
       CompleteMilestone(m) \/ RejectMilestone(m) \/ VerifyAndRelease(m)

-----------------------------------------------------------------------------
(* supply-chain *)

roleVars == <<initialized, inspectors, handlers>>

None == [none |-> TRUE]

ProductStatus == {"Registered", "InTransit", "AtWarehouse", "QualityCheck", "Approved",
                  "Rejected", "Delivered", "Recalled", "TemperatureViolation"}

\* The status that a report gives its product.
Verdict == [Pass |-> "Approved", Fail |-> "Rejected", Pending |-> "QualityCheck"]

SupplyInit ==
  /\ initialized = FALSE /\ inspectors = {} /\ handlers = {}
  /\ products = <<>> /\ slas = <<>> /\ logs = {} /\ penalties = <<>>
  /\ now = 0

Tick ==
  /\ now < MaxTime /\ now' = now + 1
  /\ UNCHANGED <<roleVars, products, slas, logs, penalties>>

InitializeSupply ==
  /\ ~initialized /\ initialized' = TRUE
  /\ UNCHANGED <<inspectors, handlers, products, slas, logs, penalties, now>>

-----------------------------------------------------------------------------
(* Roles *)

AddInspector(x) ==
  /\ initialized /\ inspectors' = inspectors \cup {x}
  /\ UNCHANGED <<initialized, handlers, products, slas, logs, penalties, now>>

RemoveInspector(x) ==
  /\ initialized /\ inspectors' = inspectors \ {x}
  /\ UNCHANGED <<initialized, handlers, products, slas, logs, penalties, now>>

AddHandler(x) ==
  /\ initialized /\ handlers' = handlers \cup {x}
  /\ UNCHANGED <<initialized, inspectors, products, slas, logs, penalties, now>>

RemoveHandler(x) ==
  /\ initialized /\ handlers' = handlers \ {x}
  /\ UNCHANGED <<initialized, inspectors, products, slas, logs, penalties, now>>

-----------------------------------------------------------------------------
(* Products *)

Product == [status |-> "Registered", checkpoints |-> <<>>, report |-> None]

\* Anybody registers a product, before initialize() too.
RegisterProduct ==
  /\ Len(products) < MaxProducts
  /\ products' = Append(products, Product)
  /\ UNCHANGED <<roleVars, slas, logs, penalties, now>>

NotRecalled(id) == products[id].status # "Recalled"

AddCheckpoint(x, id) ==
  /\ x \in handlers /\ NotRecalled(id)
  /\ Len(products[id].checkpoints) < MaxCheckpoints
  /\ products' = [products EXCEPT
       ![id].checkpoints = Append(@, x), ![id].status = "InTransit"]
  /\ UNCHANGED <<roleVars, slas, logs, penalties, now>>

\* By the administrator or a handler: any status, "Recalled" as well, whatever
\* the product has been through.
UpdateStatus(id, s) ==
  /\ initialized /\ NotRecalled(id)
  /\ products' = [products EXCEPT ![id].status = s]
  /\ UNCHANGED <<roleVars, slas, logs, penalties, now>>

SubmitQualityReport(x, id, r) ==
  /\ x \in inspectors /\ NotRecalled(id)
  /\ products' = [products EXCEPT
       ![id].report = [inspector |-> x, result |-> r],
       ![id].status = Verdict[r]]
  /\ UNCHANGED <<roleVars, slas, logs, penalties, now>>

RecallProduct(id) ==
  /\ initialized /\ NotRecalled(id)
  /\ products' = [products EXCEPT ![id].status = "Recalled"]
  /\ UNCHANGED <<roleVars, slas, logs, penalties, now>>

-----------------------------------------------------------------------------
(* Temperatures *)

\* Anybody agrees on anything, for a product that need not exist; an agreement
\* ends only when a violation finds it expired.
CreateColdChainSla(id, a) ==
  /\ a.min < a.max /\ Len(slas) < MaxSlas
  /\ slas' = Append(slas, [product |-> id, min |-> a.min, max |-> a.max, penalty |-> a.penalty,
                           status |-> "Active", expires |-> now + a.duration,
                           violations |-> 0, total |-> 0])
  /\ UNCHANGED <<roleVars, products, logs, penalties, now>>

ActiveFor(id) == {i \in DOMAIN slas : slas[i].product = id /\ slas[i].status = "Active"}
Expired(i) == now > slas[i].expires

\* The first agreement in force decides; with none every temperature is normal.
InForce(id) == {i \in ActiveFor(id) : ~Expired(i)}

Buffer(a) == IF a.max - a.min >= 15 THEN 5 ELSE (a.max - a.min) \div 6

TemperatureStatus(id, temperature) ==
  IF InForce(id) = {} THEN "Normal"
  ELSE LET a == slas[Min(InForce(id))] IN
    IF temperature < a.min \/ temperature > a.max THEN "Violation"
    ELSE IF Buffer(a) > 0 /\ (temperature < a.min + Buffer(a) \/ temperature > a.max - Buffer(a))
         THEN "Warning" ELSE "Normal"

\* The agreements before the one that is charged are marked as expired.  The
\* product takes the new status even if it was recalled.
RecordViolation(id) ==
  LET i == Min(InForce(id)) IN
    /\ initialized /\ id \in DOMAIN products
    /\ slas' = [j \in DOMAIN slas |->
         IF j = i THEN [slas[i] EXCEPT !.violations = @ + 1, !.total = @ + slas[i].penalty]
         ELSE IF j < i /\ j \in ActiveFor(id) THEN [slas[j] EXCEPT !.status = "Expired"]
         ELSE slas[j]]
    /\ penalties' = Append(penalties, [sla |-> i, product |-> id, at |-> now,
                                       amount |-> slas[i].penalty])
    /\ products' = [products EXCEPT ![id].status = "TemperatureViolation"]

LogTemperature(id, temperature) ==
  LET status == TemperatureStatus(id, temperature) IN
    /\ logs' = {l \in logs : <<l[1], l[2]>> # <<id, now>>} \cup {<<id, now, status>>}
    /\ IF status = "Violation" THEN Len(penalties) < MaxPenalties /\ RecordViolation(id)
       ELSE UNCHANGED <<products, slas, penalties>>
    /\ UNCHANGED <<roleVars, now>>

SupplyNext ==
  \/ InitializeSupply \/ Tick \/ RegisterProduct
  \/ \E x \in Person : \/ AddInspector(x) \/ RemoveInspector(x) \/ AddHandler(x) \/ RemoveHandler(x)
  \/ \E id \in DOMAIN products :
       \/ RecallProduct(id)
       \/ \E s \in Status \cap ProductStatus : UpdateStatus(id, s)
       \/ \E x \in Person : \/ AddCheckpoint(x, id)
                            \/ \E r \in DOMAIN Verdict : SubmitQualityReport(x, id, r)
  \/ \E id \in 1..MaxProducts :
       \/ \E a \in Agreement : CreateColdChainSla(id, a)
       \/ \E temperature \in Temperature : LogTemperature(id, temperature)

-----------------------------------------------------------------------------
(* The contract that runs *)

Init == PatentInit /\ SupplyInit

Next ==
  \/ Contract = "patent-registry" /\ PatentNext /\ UNCHANGED supplyVars
  \/ Contract = "supply-chain" /\ SupplyNext /\ UNCHANGED patentVars

Spec == Init /\ [][Next]_vars

-----------------------------------------------------------------------------
(* Properties *)

\* A patent counts its licenses and an escrow its milestones, and what an escrow
\* that was never refunded has released is the sum of its verified milestones.
RegistryCounts ==
  /\ \A id \in DOMAIN patents :
       patents[id].licenses = Cardinality({l \in DOMAIN licenses : licenses[l].patent = id})
  /\ \A e \in DOMAIN escrows :
       LET own == {m \in DOMAIN milestones : milestones[m].escrow = e}
       IN escrows[e].milestones = Cardinality(own)

\* A milestone that was verified or rejected is decided, and a release or a
\* refund of one escrow touches no other one.
ReleasedOnce ==
  /\ \A m \in DOMAIN milestones :
       milestones[m].status \in {"Verified", "Rejected"} => milestones'[m] = milestones[m]
  /\ \A e \in DOMAIN escrows :
       escrows'[e].released > escrows[e].released =>
         /\ \A f \in DOMAIN escrows \ {e} : escrows'[f] = escrows[f]
         /\ \/ escrows'[e].status = "Refunded"
            \/ \E m \in DOMAIN milestones :
                 /\ milestones[m].escrow = e /\ milestones[m].status = "Completed"
                 /\ milestones'[m].status = "Verified"
                 /\ escrows'[e].released = escrows[e].released + milestones[m].amount

Charged(i) == {k \in DOMAIN penalties : penalties[k].sla = i}

\* What an agreement counts are its penalties, each charged while it was in
\* force; every violation in the log was charged, at its time, to the product
\* it was logged for, and to one agreement only.
ViolationsCharged ==
  /\ \A i \in DOMAIN slas :
       /\ slas[i].violations = Cardinality(Charged(i))
       /\ slas[i].total = MapThenSumSet(LAMBDA k : penalties[k].amount, Charged(i))
       /\ \A k \in Charged(i) : /\ penalties[k].product = slas[i].product
                                /\ penalties[k].at <= slas[i].expires
       /\ slas[i].status = "Expired" => now > slas[i].expires
  /\ \A l \in logs : l[3] = "Violation" =>
       \E k \in DOMAIN penalties : penalties[k].product = l[1] /\ penalties[k].at = l[2]

\* A recalled product leaves that status by a violation alone, and nothing is
\* added to what was recorded of it.
RecallHolds ==
  \A id \in DOMAIN products : products[id].status = "Recalled" /\ products'[id] # products[id] =>
    /\ Len(penalties') = Len(penalties) + 1 /\ penalties'[Len(penalties')].product = id
    /\ products'[id].checkpoints = products[id].checkpoints
    /\ products'[id].report = products[id].report
=============================================================================
