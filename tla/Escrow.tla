------------------------------- MODULE Escrow -------------------------------
(***************************************************************************)
(* The escrow contract: freelance escrows paid milestone by milestone, and *)
(* atomic swaps under a hash lock and a time lock.  A call that returns an *)
(* error or panics changes nothing, so every action is a call that         *)
(* succeeds.  A call is made by the party the record names (a call of      *)
(* anybody else is refused), so the records leave the parties out.         *)
(***************************************************************************)
EXTENDS Integers, Sequences, FiniteSets, FiniteSetsExt

CONSTANTS Token,         \* token contracts of the swaps
          Amount,        \* amounts of milestones and swaps
          MinLock,       \* MIN_TIMELOCK_SECONDS
          MaxLock,       \* MAX_TIMELOCK_SECONDS
          MaxMilestones, \* bound: milestones of an escrow
          MaxEscrows, MaxSwaps, MaxTime  \* bounds

VARIABLES initialized,
          escrows,     \* id -> escrow with its milestones
          analytics,
          swaps, stats,
          held,        \* external: tokens of the contract
          now

escrowVars == <<escrows, analytics>>
swapVars == <<swaps, stats, held>>
vars == <<initialized, escrowVars, swapVars, now>>

Total(f, S) == MapThenSumSet(LAMBDA x : f[x], S)
SumOf(s) == Total(s, DOMAIN s)

NoAnalytics ==
  [total |-> 0, active |-> 0, completed |-> 0, disputed |-> 0, cancelled |-> 0,
   locked |-> 0, paidOut |-> 0]

NoStats == [total |-> 0, active |-> 0, claimed |-> 0, refunded |-> 0, cancelled |-> 0]

Init ==
  /\ initialized = FALSE
  /\ escrows = <<>> /\ analytics = NoAnalytics
  /\ swaps = <<>> /\ stats = NoStats
  /\ held = [t \in Token |-> 0]
  /\ now = 0

\* initialize(): the arbiter's fee only enters the amounts that calls return.
Initialize ==
  /\ ~initialized
  /\ initialized' = TRUE
  /\ UNCHANGED <<escrowVars, swapVars, now>>

Tick ==
  /\ now < MaxTime /\ now' = now + 1
  /\ UNCHANGED <<initialized, escrowVars, swapVars>>

-----------------------------------------------------------------------------
(* Escrows *)

EscrowStatus == {"Pending", "Active", "Completed", "Disputed", "Cancelled"}
MilestoneStatus == {"Pending", "InProgress", "UnderReview", "Approved", "Paid"}

CreateEscrow(amounts) ==
  /\ initialized
  /\ Len(escrows) < MaxEscrows
  /\ amounts # <<>>
  /\ escrows' = Append(escrows,
       [total |-> SumOf(amounts), paid |-> 0, status |-> "Pending",
        amount |-> amounts, milestone |-> [m \in DOMAIN amounts |-> "Pending"]])
  /\ analytics' = [analytics EXCEPT !.total = @ + 1]
  /\ UNCHANGED <<initialized, swapVars, now>>

\* The client deposits the total; the first milestone begins.
Deposit(id) ==
  /\ escrows[id].status = "Pending"
  /\ escrows' = [escrows EXCEPT ![id].status = "Active", ![id].milestone[1] = "InProgress"]
  /\ analytics' = [analytics EXCEPT !.active = @ + 1, !.locked = @ + escrows[id].total]
  /\ UNCHANGED <<initialized, swapVars, now>>

\* A step of a milestone of an active escrow.
Milestone(id, m, from, to) ==
  /\ escrows[id].status = "Active" /\ escrows[id].milestone[m] = from
  /\ escrows' = [escrows EXCEPT ![id].milestone[m] = to]
  /\ UNCHANGED <<initialized, analytics, swapVars, now>>

SubmitMilestone(id, m) == Milestone(id, m, "InProgress", "UnderReview")
ApproveMilestone(id, m) == Milestone(id, m, "UnderReview", "Approved")
RejectMilestone(id, m) == Milestone(id, m, "UnderReview", "InProgress")

\* saturating_sub
Minus(a, b) == IF a > b THEN a - b ELSE 0

\* An approved milestone is paid, the next one begins, the last one completes
\* the escrow.
ReleasePayment(id, m) ==
  LET e == escrows[id]
      paid == e.paid + e.amount[m]
      done == paid >= e.total
  IN /\ e.status = "Active" /\ e.milestone[m] = "Approved"
     /\ escrows' = [escrows EXCEPT ![id] =
          [e EXCEPT !.paid = paid,
                    !.status = IF done THEN "Completed" ELSE @,
                    !.milestone = [k \in DOMAIN @ |->
                       IF k = m THEN "Paid"
                       ELSE IF k = m + 1 /\ @[k] = "Pending" THEN "InProgress"
                       ELSE @[k]]]]
     /\ analytics' = IF done
          THEN [analytics EXCEPT !.active = Minus(@, 1), !.completed = @ + 1,
                  !.locked = Minus(@, e.total), !.paidOut = @ + e.total]
          ELSE analytics
     /\ UNCHANGED <<initialized, swapVars, now>>

RaiseDispute(id) ==
  /\ escrows[id].status = "Active"
  /\ escrows' = [escrows EXCEPT ![id].status = "Disputed"]
  /\ analytics' = [analytics EXCEPT !.disputed = @ + 1, !.active = Minus(@, 1)]
  /\ UNCHANGED <<initialized, swapVars, now>>

\* The ruling decides the payout that is returned, and nothing else.
ResolveDispute(id) ==
  LET remaining == escrows[id].total - escrows[id].paid
  IN /\ escrows[id].status = "Disputed"
     /\ escrows' = [escrows EXCEPT ![id].paid = escrows[id].total,
                                   ![id].status = "Completed"]
     /\ analytics' = [analytics EXCEPT !.completed = @ + 1,
                        !.locked = Minus(@, remaining), !.paidOut = @ + remaining]
     /\ UNCHANGED <<initialized, swapVars, now>>

CancelEscrow(id) ==
  /\ escrows[id].status = "Pending"
  /\ escrows' = [escrows EXCEPT ![id].status = "Cancelled"]
  /\ analytics' = [analytics EXCEPT !.cancelled = @ + 1]
  /\ UNCHANGED <<initialized, swapVars, now>>

-----------------------------------------------------------------------------
(* Atomic swaps *)

Live == {"AwaitingCounterparty", "Funded"}

CreateAtomicSwap(offered, offer, requested, request, expires) ==
  /\ initialized
  /\ Len(swaps) < MaxSwaps
  /\ offered # requested
  /\ expires >= now + MinLock /\ expires <= now + MaxLock
  /\ swaps' = Append(swaps, [offered |-> offered, offer |-> offer,
       requested |-> requested, request |-> request, expires |-> expires,
       status |-> "AwaitingCounterparty"])
  /\ stats' = [stats EXCEPT !.total = @ + 1, !.active = @ + 1]
  /\ held' = [held EXCEPT ![offered] = @ + offer]
  /\ UNCHANGED <<initialized, escrowVars, now>>

FundAtomicSwap(id) ==
  /\ swaps[id].status = "AwaitingCounterparty" /\ now < swaps[id].expires
  /\ swaps' = [swaps EXCEPT ![id].status = "Funded"]
  /\ held' = [held EXCEPT ![swaps[id].requested] = @ + swaps[id].request]
  /\ UNCHANGED <<initialized, escrowVars, stats, now>>

\* Somebody shows the preimage: both tokens change hands.
ClaimAtomicSwap(id) ==
  LET s == swaps[id]
  IN /\ s.status = "Funded" /\ now < s.expires
     /\ swaps' = [swaps EXCEPT ![id].status = "Claimed"]
     /\ stats' = [stats EXCEPT !.active = @ - 1, !.claimed = @ + 1]
     /\ held' = [held EXCEPT ![s.offered] = @ - s.offer, ![s.requested] = @ - s.request]
     /\ UNCHANGED <<initialized, escrowVars, now>>

RefundAtomicSwap(id) ==
  LET s == swaps[id]
  IN /\ s.status \in Live /\ now >= s.expires
     /\ swaps' = [swaps EXCEPT ![id].status = "Refunded"]
     /\ stats' = [stats EXCEPT !.active = @ - 1, !.refunded = @ + 1]
     /\ held' = IF s.status = "Funded"
          THEN [held EXCEPT ![s.offered] = @ - s.offer, ![s.requested] = @ - s.request]
          ELSE [held EXCEPT ![s.offered] = @ - s.offer]
     /\ UNCHANGED <<initialized, escrowVars, now>>

CancelAtomicSwap(id) ==
  LET s == swaps[id]
  IN /\ s.status = "AwaitingCounterparty" /\ now < s.expires
     /\ swaps' = [swaps EXCEPT ![id].status = "Cancelled"]
     /\ stats' = [stats EXCEPT !.active = @ - 1, !.cancelled = @ + 1]
     /\ held' = [held EXCEPT ![s.offered] = @ - s.offer]
     /\ UNCHANGED <<initialized, escrowVars, now>>

-----------------------------------------------------------------------------
EscrowCalls ==
  \/ \E n \in 1..MaxMilestones : \E amounts \in [1..n -> Amount] : CreateEscrow(amounts)
  \/ \E id \in DOMAIN escrows :
       \/ Deposit(id) \/ RaiseDispute(id) \/ ResolveDispute(id) \/ CancelEscrow(id)
       \/ \E m \in DOMAIN escrows[id].milestone :
            \/ SubmitMilestone(id, m) \/ ApproveMilestone(id, m)
            \/ RejectMilestone(id, m) \/ ReleasePayment(id, m)

SwapCalls ==
  \/ \E s, t \in Token, a, b \in Amount, e \in 0..(MaxTime + MaxLock) :
       CreateAtomicSwap(s, a, t, b, e)
  \/ \E id \in DOMAIN swaps : \/ FundAtomicSwap(id) \/ ClaimAtomicSwap(id)
                              \/ RefundAtomicSwap(id) \/ CancelAtomicSwap(id)

Next == Initialize \/ Tick \/ EscrowCalls \/ SwapCalls

Spec == Init /\ [][Next]_vars

-----------------------------------------------------------------------------
(* Properties *)

With(status) == {id \in DOMAIN escrows : escrows[id].status \in status}
SwapsWith(status) == {id \in DOMAIN swaps : swaps[id].status \in status}

\* The contract holds exactly the tokens of the swaps that are not settled,
\* each asset that was paid in and none that was not: a claim, a refund or a
\* cancellation never pays from another swap.
SwapsBacked ==
  \A t \in Token :
    held[t] = Total([id \in DOMAIN swaps |-> swaps[id].offer],
                    {id \in SwapsWith(Live) : swaps[id].offered = t})
            + Total([id \in DOMAIN swaps |-> swaps[id].request],
                    {id \in SwapsWith({"Funded"}) : swaps[id].requested = t})

\* The counters of both parts agree with the records, so that no subtraction
\* saturates or fails, and value locked and paid out make up all deposits.
CountersAgree ==
  /\ analytics.total = Len(escrows)
  /\ analytics.active = Cardinality(With({"Active"}))
  /\ analytics.completed = Cardinality(With({"Completed"}))
  /\ analytics.cancelled = Cardinality(With({"Cancelled"}))
  /\ analytics.locked + analytics.paidOut =
       Total([id \in DOMAIN escrows |-> escrows[id].total],
             With({"Active", "Disputed", "Completed"}))
  /\ stats.active = Cardinality(SwapsWith(Live))
  /\ stats.total = stats.active + stats.claimed + stats.refunded + stats.cancelled

\* Work goes milestone by milestone and never gets stuck: in an active escrow
\* the paid milestones come first, they make up what was paid, exactly one
\* milestone is being worked on, and the others wait.
MilestonesInOrder ==
  \A id \in With({"Active"}) :
    \E m \in DOMAIN escrows[id].milestone :
      LET e == escrows[id]
      IN /\ e.milestone[m] \in {"InProgress", "UnderReview", "Approved"}
         /\ \A k \in DOMAIN e.milestone :
              (k < m <=> e.milestone[k] = "Paid") /\ (k > m <=> e.milestone[k] = "Pending")
         /\ e.paid = Total(e.amount, 1..(m - 1))

\* A completed or cancelled escrow and a settled swap never change.
Settled ==
  /\ \A id \in With({"Completed", "Cancelled"}) : escrows'[id] = escrows[id]
  /\ \A id \in DOMAIN swaps \ SwapsWith(Live) : swaps'[id] = swaps[id]
=============================================================================
