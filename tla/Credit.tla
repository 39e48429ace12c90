------------------------------- MODULE Credit -------------------------------
(***************************************************************************)
(* Three credit contracts.  lending-protocol, and lending-pool, which can  *)
(* be paused, caps a liquidation and records bad debt: a user borrows      *)
(* against a deposit of the same token; neither moves tokens or accrues    *)
(* interest, and there is no price.  loan-syndication: lenders fund a      *)
(* senior and a junior tranche, the borrower draws the whole principal,    *)
(* repayments fill the senior tranche first, and lenders claim their       *)
(* share or, if the loan never starts, a refund; all loans share the       *)
(* tokens the contract holds.  An action is a call that succeeds.          *)
(***************************************************************************)
EXTENDS Integers, FiniteSetsExt, Sequences

CONSTANTS Contract,       \* "lending-pool", "lending-protocol" or "loan-syndication"
          Amount,
          User,
          MaxDeposited, MaxScore,  \* bounds
          Lender,
          Bps,            \* BPS_DENOMINATOR
          Terms,          \* valid terms: senior, junior targets and yields,
                          \* deadline, maturity, grace
          MaxLoans, MaxTime  \* bounds

VARIABLES initialized, paused,
          positions,
          deposited, borrowed,  \* TotalDeposited, TotalBorrowed
          badDebt,              \* of the pool
          loans,       \* id -> loan
          principals,  \* id -> lender -> tranche -> principal and claimed
          held, now

lendingVars == <<positions, deposited, borrowed, badDebt>>
syndicationVars == <<loans, principals, held, now>>
vars == <<initialized, paused, lendingVars, syndicationVars>>

-----------------------------------------------------------------------------
(* lending-protocol and lending-pool *)

\* In percent: the ratio of collateral to debt that a user must keep, the one
\* below which liquidation may begin, and what the liquidator gets for 100 repaid.
CollateralRatio == 150
LiquidationThreshold == 110
LiquidationBonus == 110

\* In basis points.
FullBps == 10000
CollateralFactor == 8000
CloseFactor == 5000
BonusBps == 500

Position == [deposited |-> 0, borrowed |-> 0, score |-> 0]

LendingInit ==
  /\ initialized = FALSE /\ paused = FALSE
  /\ positions = [u \in User |-> Position]
  /\ deposited = 0 /\ borrowed = 0 /\ badDebt = 0

InitializeLending ==
  /\ ~initialized /\ initialized' = TRUE
  /\ UNCHANGED <<paused, positions, deposited, borrowed, badDebt>>

\* pause and unpause, which only the pool has.
SetPoolPaused(p) ==
  /\ initialized /\ Contract = "lending-pool" /\ paused' = p
  /\ UNCHANGED <<initialized, positions, deposited, borrowed, badDebt>>

-----------------------------------------------------------------------------
(* The health of a position with a deposit d and a debt b *)

ProtocolHealthy(d, b) == b * CollateralRatio <= d * 100
PoolHealthy(d, b) == b = 0 \/ (d * CollateralFactor) \div b >= FullBps
Healthy(d, b) == IF Contract = "lending-pool" THEN PoolHealthy(d, b) ELSE ProtocolHealthy(d, b)

-----------------------------------------------------------------------------
(* lending-protocol *)

Deposit(u, n) ==
  /\ initialized /\ deposited + n <= MaxDeposited
  /\ positions' = [positions EXCEPT ![u].deposited = @ + n]
  /\ deposited' = deposited + n
  /\ UNCHANGED <<initialized, paused, borrowed, badDebt>>

Withdraw(u, n) ==
  LET left == positions[u].deposited - n IN
    /\ initialized /\ left >= 0
    /\ positions[u].borrowed > 0 => Healthy(left, positions[u].borrowed)
    /\ positions' = [positions EXCEPT ![u].deposited = left]
    /\ deposited' = deposited - n
    /\ UNCHANGED <<initialized, paused, borrowed, badDebt>>

Borrow(u, n) ==
  /\ initialized /\ Healthy(positions[u].deposited, positions[u].borrowed + n)
  /\ positions' = [positions EXCEPT ![u].borrowed = @ + n]
  /\ borrowed' = borrowed + n
  /\ UNCHANGED <<initialized, paused, deposited, badDebt>>

\* Any repayment, however small, raises the score.
Repay(u, n) ==
  LET actual == Min({n, positions[u].borrowed}) IN
    /\ initialized /\ actual > 0 /\ positions[u].score < MaxScore
    /\ positions' = [positions EXCEPT ![u].borrowed = @ - actual, ![u].score = @ + 5]
    /\ borrowed' = borrowed - actual
    /\ UNCHANGED <<initialized, paused, deposited, badDebt>>

\* The liquidator gets the collateral, and the total of the deposits loses it.
Seize(v, u, repaid, seized) ==
  /\ v # u
  /\ positions' = [positions EXCEPT ![u].borrowed = @ - repaid, ![u].deposited = @ - seized,
                                    ![v].deposited = @ + seized]
  /\ borrowed' = borrowed - repaid /\ deposited' = deposited - seized

ProtocolLiquidatable(p) == p.borrowed > 0 /\ p.borrowed * LiquidationThreshold > p.deposited * 100

Liquidate(v, u, n) ==
  LET seized == (n * LiquidationBonus) \div 100 IN
    /\ initialized /\ ProtocolLiquidatable(positions[u])
    /\ n <= positions[u].borrowed /\ seized <= positions[u].deposited
    /\ Seize(v, u, n, seized)
    /\ UNCHANGED <<initialized, paused, badDebt>>

-----------------------------------------------------------------------------
(* lending-pool: the same calls, while it is not paused *)

PoolDeposit(u, n) == ~paused /\ Deposit(u, n)
PoolWithdraw(u, n) == ~paused /\ Withdraw(u, n)
PoolBorrow(u, n) == ~paused /\ Borrow(u, n)
PoolRepay(u, n) == ~paused /\ Repay(u, n)

PoolLiquidatable(p) == p.borrowed > 0 /\ ~PoolHealthy(p.deposited, p.borrowed)

\* What the deposit does not cover of the debt and its bonus is bad debt.
PoolLiquidate(v, u, n) ==
  LET p == positions[u]
      ideal == n + (n * BonusBps) \div FullBps
  IN /\ initialized /\ ~paused /\ PoolLiquidatable(p)
     /\ n <= (p.borrowed * CloseFactor) \div FullBps
     /\ Seize(v, u, n, Min({ideal, p.deposited}))
     /\ badDebt' = badDebt + Max({ideal - p.deposited, 0})
     /\ UNCHANGED <<initialized, paused>>

\* Below zero as well: i128 subtraction saturates only at the least number.
SocializeBadDebt(n) ==
  /\ initialized /\ badDebt - n >= -MaxDeposited
  /\ badDebt' = badDebt - n
  /\ UNCHANGED <<initialized, paused, positions, deposited, borrowed>>

-----------------------------------------------------------------------------
LendingNext ==
  \/ InitializeLending
  \/ \E p \in BOOLEAN : SetPoolPaused(p)
  \/ \E u \in User, n \in Amount :
       \/ /\ Contract = "lending-protocol"
          /\ \/ Deposit(u, n) \/ Withdraw(u, n) \/ Borrow(u, n) \/ Repay(u, n)
             \/ \E v \in User : Liquidate(v, u, n)
       \/ /\ Contract = "lending-pool"
          /\ \/ PoolDeposit(u, n) \/ PoolWithdraw(u, n) \/ PoolBorrow(u, n) \/ PoolRepay(u, n)
             \/ \E v \in User : PoolLiquidate(v, u, n)
             \/ SocializeBadDebt(n)

-----------------------------------------------------------------------------
(* loan-syndication *)

Tranche == {"Senior", "Junior"}
LoanStatus == {"Funding", "Active", "Repaid", "Defaulted", "Cancelled"}

SyndicationInit ==
  /\ initialized = FALSE /\ paused = FALSE
  /\ loans = <<>> /\ principals = <<>>
  /\ held = 0 /\ now = 0

InitializeSyndication ==
  /\ ~initialized /\ initialized' = TRUE
  /\ UNCHANGED <<paused, loans, principals, held, now>>

SetSyndicationPaused(p) ==
  /\ initialized /\ paused' = p
  /\ UNCHANGED <<initialized, loans, principals, held, now>>

Tick ==
  /\ now < MaxTime /\ now' = now + 1
  /\ UNCHANGED <<initialized, paused, loans, principals, held>>

CreateLoan(terms) ==
  /\ initialized /\ ~paused /\ Len(loans) < MaxLoans
  /\ terms.deadline > now
  /\ loans' = Append(loans, [terms |-> terms, status |-> "Funding", repaid |-> 0, claimed |-> 0,
                             funded |-> [t \in Tranche |-> 0]])
  /\ principals' = Append(principals,
       [l \in Lender |-> [t \in Tranche |-> [principal |-> 0, claimed |-> 0]]])
  /\ UNCHANGED <<initialized, paused, held, now>>

Fund(l, id, t, n) ==
  /\ ~paused /\ loans[id].status = "Funding" /\ now < loans[id].terms.deadline
  /\ loans[id].funded[t] + n <= loans[id].terms.target[t]
  /\ loans' = [loans EXCEPT ![id].funded[t] = @ + n]
  /\ principals' = [principals EXCEPT ![id][l][t].principal = @ + n]
  /\ held' = held + n
  /\ UNCHANGED <<initialized, paused, now>>

Principal(loan) == loan.terms.target["Senior"] + loan.terms.target["Junior"]

\* The funding deadline does not end a loan that is fully funded.
Drawdown(id) ==
  /\ ~paused /\ loans[id].status = "Funding" /\ loans[id].funded = loans[id].terms.target
  /\ now < loans[id].terms.maturity
  /\ held >= Principal(loans[id])
  /\ loans' = [loans EXCEPT ![id].status = "Active"]
  /\ held' = held - Principal(loans[id])
  /\ UNCHANGED <<initialized, paused, principals, now>>

\* tranche_due(), total_due()
Due(loan, t) ==
  loan.terms.target[t] + (loan.terms.target[t] * loan.terms.yield[t]) \div Bps
TotalDue(loan) == Due(loan, "Senior") + Due(loan, "Junior")

Least(x, y) == IF x < y THEN x ELSE y

RepayLoan(id, n) ==
  LET actual == Least(n, TotalDue(loans[id]) - loans[id].repaid)
      repaid == loans[id].repaid + actual
  IN /\ loans[id].status = "Active" /\ actual > 0
     /\ loans' = [loans EXCEPT
          ![id].repaid = repaid,
          ![id].status = IF repaid = TotalDue(loans[id]) THEN "Repaid" ELSE "Active"]
     /\ held' = held + actual
     /\ UNCHANGED <<initialized, paused, principals, now>>

Closed(id, status) ==
  /\ loans' = [loans EXCEPT ![id].status = status]
  /\ UNCHANGED <<initialized, paused, principals, held, now>>

\* A defaulted loan takes no more repayments.
MarkDefault(id) ==
  /\ loans[id].status = "Active" /\ now >= loans[id].terms.maturity + loans[id].terms.grace
  /\ Closed(id, "Defaulted")

CancelLoan(id) == loans[id].status = "Funding" /\ Closed(id, "Cancelled")

ExpireLoan(id) ==
  /\ loans[id].status = "Funding" /\ now >= loans[id].terms.deadline
  /\ Closed(id, "Cancelled")

Paid(l, id, t, n) ==
  /\ n > 0 /\ held >= n
  /\ principals' = [principals EXCEPT ![id][l][t].claimed = @ + n]
  /\ loans' = [loans EXCEPT ![id].claimed = @ + n]
  /\ held' = held - n
  /\ UNCHANGED <<initialized, paused, now>>

ClaimRefund(l, id, t) ==
  /\ loans[id].status = "Cancelled"
  /\ Paid(l, id, t, principals[id][l][t].principal - principals[id][l][t].claimed)

\* Mutation: the junior tranche is paid from everything repaid.
AllocationFlat(loan, t) == Least(loan.repaid, Due(loan, t))

\* tranche_allocation(): senior first.
Allocation(loan, t) ==
  IF t = "Senior" THEN Least(loan.repaid, Due(loan, "Senior"))
  ELSE Least(Max({0, loan.repaid - Due(loan, "Senior")}), Due(loan, "Junior"))

\* position_claim()
Claimable(l, id, t) ==
  LET p == principals[id][l][t]
  IN IF p.principal = 0 THEN 0
     ELSE (Allocation(loans[id], t) * p.principal) \div loans[id].funded[t] - p.claimed

Claim(l, id, t) ==
  /\ loans[id].status \in {"Repaid", "Defaulted"}
  /\ Paid(l, id, t, Claimable(l, id, t))

SyndicationNext ==
  \/ InitializeSyndication \/ Tick
  \/ \E p \in BOOLEAN : SetSyndicationPaused(p)
  \/ \E terms \in Terms : CreateLoan(terms)
  \/ \E id \in DOMAIN loans :
       \/ Drawdown(id) \/ MarkDefault(id) \/ CancelLoan(id) \/ ExpireLoan(id)
       \/ \E n \in Amount : RepayLoan(id, n)
       \/ \E l \in Lender, t \in Tranche :
            \/ ClaimRefund(l, id, t) \/ Claim(l, id, t)
            \/ \E n \in Amount : Fund(l, id, t, n)

-----------------------------------------------------------------------------
(* The contract that runs *)

Init == LendingInit /\ SyndicationInit

Next ==
  \/ Contract \in {"lending-pool", "lending-protocol"} /\ LendingNext /\ UNCHANGED syndicationVars
  \/ Contract = "loan-syndication" /\ SyndicationNext /\ UNCHANGED lendingVars

Spec == Init /\ [][Next]_vars

-----------------------------------------------------------------------------
(* Properties *)

Total(f, S) == MapThenSumSet(LAMBDA x : f[x], S)

\* The totals are those of the positions, and no sequence of calls makes a
\* position that a liquidation accepts: a debt changes only against a deposit
\* that covers it, and nothing else moves either.  (A liquidation would break
\* the first part: it credits the liquidator with collateral that it takes out
\* of the total.)
PositionsCounted ==
  /\ deposited = Total([u \in User |-> positions[u].deposited], User)
  /\ borrowed = Total([u \in User |-> positions[u].borrowed], User)
  /\ \A u \in User : ~ProtocolLiquidatable(positions[u]) /\ ~PoolLiquidatable(positions[u])

\* What a loan should still have in the contract.
Left(loan) ==
  (IF loan.status \in {"Funding", "Cancelled"}
   THEN loan.funded["Senior"] + loan.funded["Junior"] ELSE loan.repaid) - loan.claimed

\* The contract holds exactly what every loan should have left, so no loan is
\* drawn or paid from the money of another one, and what the lenders of a loan
\* may still claim never exceeds what is left of it.
LoansBacked ==
  /\ held = Total([id \in DOMAIN loans |-> Left(loans[id])], DOMAIN loans)
  /\ \A id \in DOMAIN loans :
       LET open == [l \in Lender |-> Claimable(l, id, "Senior") + Claimable(l, id, "Junior")]
       IN loans[id].status \in {"Repaid", "Defaulted"} => Total(open, Lender) <= Left(loans[id])

\* Of a defaulted loan the junior lenders get nothing before the senior ones are
\* owed all they are due, and no lender of a tranche gets more than the tranche.
SeniorFirst ==
  \A id \in DOMAIN loans, t \in Tranche :
    LET claimed(x) == Total([l \in Lender |-> principals[id][l][x].claimed], Lender)
    IN loans[id].status \in {"Repaid", "Defaulted"} =>
         /\ claimed(t) <= Due(loans[id], t)
         /\ claimed("Junior") <= Max({0, loans[id].repaid - Due(loans[id], "Senior")})
=============================================================================
