----------------------------- MODULE Treasuries -----------------------------
(***************************************************************************)
(* Two contracts that hold money for others.  charity-tracker: campaigns   *)
(* with donations and milestones; a milestone is paid, from the donations  *)
(* to all campaigns, when the administrator verifies it or a validator     *)
(* votes for it.  dao-treasury: signers with roles, and payments that are  *)
(* proposed, approved up to a threshold, and executed between a time lock  *)
(* and their expiry.  An action is a call that succeeds: a call that       *)
(* finds a payment expired fails, and with it the status it had set.       *)
(***************************************************************************)
EXTENDS Integers, Sequences, FiniteSets, FiniteSetsExt, Functions

CONSTANTS Contract,        \* "charity-tracker" or "dao-treasury"
          Amount,          \* of donations, deposits and payments
          Donor, Validator,
          Administrator,   \* votes as well, and receives what is released
          Goal, Target, Count,  \* arguments of the calls; Count within 1..20
          MaxCampaigns, MaxDonations, MaxAllocated,  \* bounds
          Address,
          Timelock, Expiry,  \* TIMELOCK_SECS, EXPIRY_SECS
          Threshold,         \* thresholds of the calls, positive
          MaxTxs, MaxHeld, MaxTime  \* bounds

VARIABLES initialized,
          held,  \* external: tokens of the contract
          count,       \* CampaignCount
          campaigns,   \* id -> campaign, or None
          milestones,  \* <<campaign, number>> -> milestone, or None
          donations,   \* id -> donation
          impact,      \* <<donor, campaign>> -> totals
          validators,
          votes,       \* <<campaign, number>> -> votes and voters
          paused, threshold,
          role,      \* address -> role, NoRole when it is not a signer
          signerCount,
          txs,       \* id -> transaction
          approved,  \* id -> who approved
          now

charityVars == <<count, campaigns, milestones, donations, impact, validators, votes>>
treasuryVars == <<paused, threshold, role, signerCount, txs, approved, now>>
vars == <<initialized, held, charityVars, treasuryVars>>

-----------------------------------------------------------------------------
(* charity-tracker *)

None == [none |-> TRUE]

Campaign == 1..MaxCampaigns
Slot == Campaign \X (1..Max(Count))

CharityCampaign(goal, n) ==
  [goal |-> goal, raised |-> 0, milestones |-> n, active |-> TRUE, donations |-> <<>>]
Milestone(target) == [target |-> target, released |-> 0, completed |-> FALSE, verified |-> FALSE]
DonorImpact == [donated |-> 0, allocated |-> 0, milestones |-> 0]
MilestoneValidation == [for |-> 0, against |-> 0, valid |-> FALSE, voters |-> {}]

CharityInit ==
  /\ initialized = FALSE /\ count = 0
  /\ campaigns = [c \in Campaign |-> None]
  /\ milestones = [m \in Slot |-> None]
  /\ donations = <<>>
  /\ impact = [d \in Donor \X Campaign |-> DonorImpact]
  /\ validators = {}
  /\ votes = [m \in Slot |-> MilestoneValidation]
  /\ held = 0

\* The counter starts again at zero: a campaign created before is written over
\* by the next one, which takes over its milestones.
InitializeCharity ==
  /\ ~initialized /\ initialized' = TRUE /\ count' = 0
  /\ UNCHANGED <<campaigns, milestones, donations, impact, validators, votes, held>>

AddDaoValidator(v) ==
  /\ initialized /\ validators' = validators \cup {v}
  /\ UNCHANGED <<initialized, count, campaigns, milestones, donations, impact, votes, held>>

-----------------------------------------------------------------------------
(* Campaigns *)

CreateCampaign(goal, n) ==
  /\ count < MaxCampaigns
  /\ count' = count + 1
  /\ campaigns' = [campaigns EXCEPT ![count + 1] = CharityCampaign(goal, n)]
  /\ UNCHANGED <<initialized, milestones, donations, impact, validators, votes, held>>

HasMilestone(m) == campaigns[m[1]] # None /\ m[2] <= campaigns[m[1]].milestones

\* A milestone added again is a new one, although its votes are kept.
AddMilestone(m, target) ==
  /\ HasMilestone(m)
  /\ milestones' = [milestones EXCEPT ![m] = Milestone(target)]
  /\ UNCHANGED <<initialized, count, campaigns, donations, impact, validators, votes, held>>

\* The donation that reaches the goal ends the campaign.
Donate(d, c, n) ==
  /\ initialized /\ Len(donations) < MaxDonations
  /\ campaigns[c] # None /\ campaigns[c].active
  /\ LET raised == campaigns[c].raised + n IN
       campaigns' = [campaigns EXCEPT
         ![c].raised = raised, ![c].active = raised < campaigns[c].goal,
         ![c].donations = Append(@, Len(donations) + 1)]
  /\ donations' = Append(donations, [donor |-> d, campaign |-> c, amount |-> n])
  /\ impact' = [impact EXCEPT ![<<d, c>>].donated = @ + n]
  /\ held' = held + n
  /\ UNCHANGED <<initialized, count, milestones, validators, votes>>

\* The amount is not compared with what the donor gave.
AllocateDirectImpact(d, m, n) ==
  LET k == <<d, m[1]>> IN
    /\ HasMilestone(m) /\ milestones[m] # None
    /\ impact[k].allocated + n <= MaxAllocated
    /\ impact' = [impact EXCEPT ![k].allocated = @ + n, ![k].milestones = @ + 1]
    /\ UNCHANGED <<initialized, count, campaigns, milestones, donations, validators, votes, held>>

-----------------------------------------------------------------------------
(* Milestones *)

CompleteMilestone(m) ==
  /\ campaigns[m[1]] # None /\ milestones[m] # None /\ ~milestones[m].completed
  /\ milestones' = [milestones EXCEPT ![m].completed = TRUE]
  /\ UNCHANGED <<initialized, count, campaigns, donations, impact, validators, votes, held>>

\* All of the target is recorded as released, whatever there is to be paid.
Release(m) ==
  /\ milestones' = [milestones EXCEPT ![m].verified = TRUE, ![m].released = milestones[m].target]
  /\ held' = held - Min({milestones[m].target, held})

VerifyMilestone(m) ==
  /\ initialized
  /\ milestones[m] # None /\ milestones[m].completed /\ ~milestones[m].verified
  /\ Release(m)
  /\ UNCHANGED <<initialized, count, campaigns, donations, impact, validators, votes>>

\* One vote for the milestone, of now or of before it was added again, releases it.
VoteValidateMilestone(v, m, approve) ==
  LET w == votes[m]
      for == IF approve THEN w.for + 1 ELSE w.for
      releases == for >= 1 /\ ~milestones[m].verified
  IN /\ initialized /\ v \in validators \cup {Administrator}
     /\ v \notin w.voters
     /\ milestones[m] # None /\ milestones[m].completed
     /\ votes' = [votes EXCEPT ![m] =
          [for |-> for, against |-> IF approve THEN w.against ELSE w.against + 1,
           valid |-> w.valid \/ releases, voters |-> w.voters \cup {v}]]
     /\ IF releases THEN Release(m) ELSE UNCHANGED <<milestones, held>>
     /\ UNCHANGED <<initialized, count, campaigns, donations, impact, validators>>

CharityNext ==
  \/ InitializeCharity
  \/ \E v \in Validator : AddDaoValidator(v)
  \/ \E goal \in Goal, n \in Count : CreateCampaign(goal, n)
  \/ \E d \in Donor, c \in Campaign, n \in Amount : Donate(d, c, n)
  \/ \E m \in Slot :
       \/ \E target \in Target : AddMilestone(m, target)
       \/ CompleteMilestone(m) \/ VerifyMilestone(m)
       \/ \E d \in Donor, n \in Amount : AllocateDirectImpact(d, m, n)
       \/ \E v \in Validator \cup {Administrator}, b \in BOOLEAN : VoteValidateMilestone(v, m, b)

-----------------------------------------------------------------------------
(* dao-treasury *)

signerVars == <<threshold, role, signerCount>>
NoRole == -1
Viewer == 0
Operator == 1
Admin == 2
Owner == 3
Role == {Viewer, Operator, Admin, Owner}

TxStatus == {"Pending", "Queued", "Executed", "Cancelled"}

TreasuryInit ==
  /\ initialized = FALSE /\ paused = FALSE /\ threshold = 1
  /\ role = [x \in Address |-> NoRole] /\ signerCount = 0
  /\ txs = <<>> /\ approved = <<>>
  /\ held = 0 /\ now = 0

Tick ==
  /\ now < MaxTime /\ now' = now + 1
  /\ UNCHANGED <<initialized, paused, signerVars, txs, approved, held>>

\* The threshold may exceed the one signer there is.
InitializeTreasury(owner, n) ==
  /\ ~initialized /\ initialized' = TRUE
  /\ threshold' = n
  /\ role' = [role EXCEPT ![owner] = Owner] /\ signerCount' = 1
  /\ UNCHANGED <<paused, txs, approved, held, now>>

MayCall(min) == \E x \in Address : role[x] >= min

SetPaused(b) ==
  /\ initialized /\ MayCall(Admin) /\ paused' = b
  /\ UNCHANGED <<initialized, signerVars, txs, approved, held, now>>

Deposit(n) ==
  /\ initialized /\ ~paused
  /\ held + n <= MaxHeld
  /\ held' = held + n
  /\ UNCHANGED <<initialized, paused, signerVars, txs, approved, now>>

-----------------------------------------------------------------------------
(* Signers *)

\* An administrator adds signers of no higher role than its own.
AddSigner(x, r) ==
  /\ initialized /\ MayCall(Max({Admin, r}))
  /\ role[x] = NoRole
  /\ role' = [role EXCEPT ![x] = r] /\ signerCount' = signerCount + 1
  /\ UNCHANGED <<initialized, paused, threshold, txs, approved, held, now>>

\* The last owner as well: then nobody changes the signers' threshold again.
\* What a signer approved before still counts.
RemoveSigner(x) ==
  /\ initialized /\ MayCall(Owner)
  /\ role[x] # NoRole /\ signerCount - 1 >= threshold
  /\ role' = [role EXCEPT ![x] = NoRole] /\ signerCount' = signerCount - 1
  /\ UNCHANGED <<initialized, paused, threshold, txs, approved, held, now>>

\* Viewers, who cannot approve, count as signers.
ChangeThreshold(n) ==
  /\ initialized /\ MayCall(Owner)
  /\ n <= signerCount
  /\ threshold' = n
  /\ UNCHANGED <<initialized, paused, role, signerCount, txs, approved, held, now>>

-----------------------------------------------------------------------------
(* Transactions *)

Transaction(n, recipient) ==
  [amount |-> n, recipient |-> recipient, status |-> "Pending", approvals |-> 0,
   after |-> now + Timelock, expires |-> now + Expiry]

Propose(n, recipient) ==
  /\ initialized /\ ~paused /\ MayCall(Operator)
  /\ Len(txs) < MaxTxs
  /\ txs' = Append(txs, Transaction(n, recipient))
  /\ approved' = Append(approved, {})
  /\ UNCHANGED <<initialized, paused, signerVars, held, now>>

\* The threshold of the time decides; one that is lowered later queues nothing
\* until the next approval.
Approve(x, id) ==
  /\ initialized /\ ~paused /\ role[x] >= Operator
  /\ txs[id].status = "Pending" /\ now <= txs[id].expires
  /\ x \notin approved[id]
  /\ approved' = [approved EXCEPT ![id] = @ \cup {x}]
  /\ txs' = [txs EXCEPT
       ![id].approvals = @ + 1,
       ![id].status = IF txs[id].approvals + 1 >= threshold THEN "Queued" ELSE @]
  /\ UNCHANGED <<initialized, paused, signerVars, held, now>>

\* Without a token, or a recipient, nothing is paid.
Execute(id, token) ==
  LET paid == IF token /\ txs[id].recipient THEN txs[id].amount ELSE 0 IN
    /\ initialized /\ ~paused /\ MayCall(Admin)
    /\ txs[id].status = "Queued"
    /\ now >= txs[id].after /\ now <= txs[id].expires
    /\ held >= paid
    /\ held' = held - paid
    /\ txs' = [txs EXCEPT ![id].status = "Executed"]
    /\ UNCHANGED <<initialized, paused, signerVars, approved, now>>

Cancel(id) ==
  /\ initialized /\ MayCall(Admin)
  /\ txs[id].status \in {"Pending", "Queued"}
  /\ txs' = [txs EXCEPT ![id].status = "Cancelled"]
  /\ UNCHANGED <<initialized, paused, signerVars, approved, held, now>>

TreasuryNext ==
  \/ Tick
  \/ \E b \in BOOLEAN : SetPaused(b)
  \/ \E n \in Threshold : \/ ChangeThreshold(n)
                          \/ \E x \in Address : InitializeTreasury(x, n)
  \/ \E x \in Address : \/ RemoveSigner(x)
                        \/ \E r \in Role : AddSigner(x, r)
  \/ \E n \in Amount : \/ Deposit(n)
                       \/ \E b \in BOOLEAN : Propose(n, b)
  \/ \E id \in DOMAIN txs :
       \/ Cancel(id)
       \/ \E b \in BOOLEAN : Execute(id, b)
       \/ \E x \in Address : Approve(x, id)

-----------------------------------------------------------------------------
(* The contract that runs *)

Init == CharityInit /\ TreasuryInit

Next ==
  \/ Contract = "charity-tracker" /\ CharityNext /\ UNCHANGED treasuryVars
  \/ Contract = "dao-treasury" /\ TreasuryNext /\ UNCHANGED charityVars

Spec == Init /\ [][Next]_vars

-----------------------------------------------------------------------------
(* Properties *)

\* What a campaign raised is the sum of the donations in its list, each to it
\* and listed once, and it is open until that reaches its goal; donors keep the
\* totals of campaigns that were written over; the votes on a milestone are as
\* many as its voters.
DonationsCounted ==
  /\ \A c \in Campaign : campaigns[c] # None =>
       LET list == campaigns[c].donations
           to == {i \in DOMAIN donations : donations[i].campaign = c}
       IN /\ campaigns[c].raised = MapThenSumSet(LAMBDA k : donations[list[k]].amount, DOMAIN list)
          /\ Range(list) \subseteq to /\ Cardinality(Range(list)) = Len(list)
          /\ MapThenSumSet(LAMBDA d : impact[<<d, c>>].donated, Donor)
               = MapThenSumSet(LAMBDA i : donations[i].amount, to)
          /\ campaigns[c].active = (campaigns[c].raised < campaigns[c].goal)
  /\ \A m \in Slot : votes[m].for + votes[m].against = Cardinality(votes[m].voters)

\* Donations leave the contract for one milestone at a time, which was completed
\* and not paid before, and for no more than its target.
ReleasedForMilestone ==
  held' < held =>
    \E m \in Slot :
      /\ milestones[m] # None /\ milestones[m].completed /\ ~milestones[m].verified
      /\ held - held' <= milestones[m].target
      /\ milestones' = [milestones EXCEPT ![m].verified = TRUE, ![m].released = milestones[m].target]

\* Signers and approvals are counted right whoever came and went, and nothing is
\* queued or executed without an approval.
ApprovalsCounted ==
  /\ signerCount = Cardinality({x \in Address : role[x] # NoRole})
  /\ \A id \in DOMAIN txs :
       /\ txs[id].approvals = Cardinality(approved[id])
       /\ txs[id].status \in {"Queued", "Executed"} => txs[id].approvals >= 1

\* Money leaves for one queued payment at a time, within its window, and for no
\* more than its amount; a payment is executed or cancelled once.
PaidOnce ==
  /\ held' < held =>
       \E id \in DOMAIN txs :
         /\ txs[id].status = "Queued" /\ txs'[id].status = "Executed"
         /\ txs[id].after <= now /\ now <= txs[id].expires
         /\ held - held' = txs[id].amount
         /\ \A k \in DOMAIN txs \ {id} : txs'[k] = txs[k]
  /\ \A id \in DOMAIN txs :
       /\ txs[id].status \in {"Executed", "Cancelled"} => txs'[id] = txs[id]
       /\ txs'[id].status = "Queued" /\ txs[id].status = "Pending" =>
            Cardinality(approved'[id]) >= threshold
=============================================================================
