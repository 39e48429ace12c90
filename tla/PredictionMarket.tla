-------------------------- MODULE PredictionMarket --------------------------
(***************************************************************************)
(* The prediction market contract.  A plain market only records stakes on  *)
(* yes and no.  A conditional market holds collateral: its outcome shares  *)
(* are minted in complete sets, traded against a pool of them, and the     *)
(* winning ones are redeemed after an outcome was proposed and, if         *)
(* somebody staked a bond against it, settled by the dispute resolver.     *)
(* An action is a call that succeeds.                                      *)
(***************************************************************************)
EXTENDS Integers, Sequences, FiniteSetsExt

CONSTANTS Owner,         \* traders and liquidity providers
          Amount,        \* amounts of collateral, shares, stakes and bonds
          Outcomes,      \* numbers of outcomes, within MIN_OUTCOMES..MAX_OUTCOMES
          Scale,         \* RATIO_SCALE
          MaxWindow,     \* MAX_DISPUTE_WINDOW
          Deadline,      \* when trading in a market may end
          MaxMarkets, MaxLocked, MaxStakes, MaxTime  \* bounds

VARIABLES initialized,
          markets,    \* id -> market with its positions
          pools,      \* id -> conditional market, or None for a plain one
          held,       \* external: collateral tokens of the contract
          now

vars == <<initialized, markets, pools, held, now>>

None == [none |-> TRUE]

MarketStatus == {"Open", "Resolved", "Cancelled"}

Market(deadline) ==
  [status |-> "Open", deadline |-> deadline, winner |-> 0, yes |-> 0, no |-> 0,
   position |-> [o \in Owner |-> [outcome |-> 0, stake |-> 0]]]

\* Outcome i of the code is i + 1 here.
ConditionalMarket(n, window, liquidity, creator) ==
  [window |-> window, bond |-> Max({liquidity \div 100, 1}),
   reserve |-> [i \in 1..n |-> liquidity],
   liquidity |-> [o \in Owner |-> IF o = creator THEN liquidity ELSE 0],
   total |-> liquidity, locked |-> liquidity,
   shares |-> [o \in Owner |-> [i \in 1..n |-> 0]],
   proposal |-> None]

Init ==
  /\ initialized = FALSE
  /\ markets = <<>> /\ pools = <<>>
  /\ held = 0 /\ now = 0

Initialize ==
  /\ ~initialized /\ initialized' = TRUE
  /\ UNCHANGED <<markets, pools, held, now>>

Tick ==
  /\ now < MaxTime /\ now' = now + 1
  /\ UNCHANGED <<initialized, markets, pools, held>>

CreateMarket(deadline) ==
  /\ initialized /\ Len(markets) < MaxMarkets
  /\ deadline > now
  /\ markets' = Append(markets, Market(deadline))
  /\ pools' = Append(pools, None)
  /\ UNCHANGED <<initialized, held, now>>

\* create_binary_market() and create_categorical_market()
CreateConditionalMarket(creator, n, deadline, window, liquidity) ==
  /\ initialized /\ Len(markets) < MaxMarkets
  /\ deadline > now /\ window \in 1..MaxWindow
  /\ markets' = Append(markets, Market(deadline))
  /\ pools' = Append(pools, ConditionalMarket(n, window, liquidity, creator))
  /\ held' = held + liquidity
  /\ UNCHANGED <<initialized, now>>

-----------------------------------------------------------------------------
(* Shares of a conditional market *)

Conditional == {id \in DOMAIN markets : pools[id] # None}

TradingOpen(id) ==
  /\ markets[id].status = "Open" /\ pools[id].proposal = None
  /\ now < markets[id].deadline

\* The pool after a call that moves c of collateral in.
Change(id, c, pool) ==
  /\ pool.locked <= MaxLocked
  /\ pools' = [pools EXCEPT ![id] = pool]
  /\ held' = held + c
  /\ UNCHANGED <<initialized, markets, now>>

CeilDiv(a, b) == (a + b - 1) \div b

\* Each other reserve takes the collateral and shrinks the chosen one, rounded
\* up, in favour of the pool.
QuoteBuy(p, i, c) ==
  LET ending[k \in 0..Len(p.reserve)] ==
        IF k = 0 THEN p.reserve[i]
        ELSE IF k = i THEN ending[k - 1]
        ELSE CeilDiv(ending[k - 1] * p.reserve[k], p.reserve[k] + c)
  IN p.reserve[i] + c - ending[Len(p.reserve)]

BuyShares(o, id, i, c) ==
  LET p == pools[id]
      n == QuoteBuy(p, i, c)
  IN /\ TradingOpen(id) /\ p.reserve[i] > 0 /\ n > 0
     /\ Change(id, c, [p EXCEPT
          !.reserve = [k \in DOMAIN @ |-> @[k] + c - (IF k = i THEN n ELSE 0)],
          !.locked = @ + c, !.shares[o][i] = @ + n])

\* The reserves after n shares are sold for c.
AfterSale(p, i, n, c) == [k \in DOMAIN p.reserve |-> p.reserve[k] + (IF k = i THEN n ELSE 0) - c]

SellInvariantHolds(p, i, n, c) ==
  LET left == AfterSale(p, i, n, c)
      ratio[k \in 0..Len(left)] ==
        IF k = 0 THEN Scale ELSE (ratio[k - 1] * left[k]) \div p.reserve[k]
  IN (\A k \in DOMAIN left : left[k] > 0) /\ ratio[Len(left)] >= Scale

\* The most collateral that keeps the invariant (a binary search in the code).
QuoteSell(p, i, n) ==
  LET most == Min({AfterSale(p, i, n, 1)[k] : k \in DOMAIN p.reserve})
  IN Max({0} \union {c \in 1..most : SellInvariantHolds(p, i, n, c)})

SellShares(o, id, i, n) ==
  LET p == pools[id]
      c == QuoteSell(p, i, n)
  IN /\ TradingOpen(id) /\ n > 0 /\ p.shares[o][i] >= n
     /\ \A k \in DOMAIN p.reserve : p.reserve[k] > 0
     /\ c > 0
     /\ Change(id, -c, [p EXCEPT !.reserve = AfterSale(p, i, n, c), !.locked = @ - c,
                                 !.shares[o][i] = @ - n])

MintCompleteSet(o, id, c) ==
  /\ TradingOpen(id)
  /\ Change(id, c, [pools[id] EXCEPT !.locked = @ + c,
                      !.shares[o] = [i \in DOMAIN @ |-> @[i] + c]])

RedeemCompleteSet(o, id, c) ==
  /\ markets[id].status = "Open" /\ pools[id].proposal = None
  /\ \A i \in DOMAIN pools[id].reserve : pools[id].shares[o][i] >= c
  /\ Change(id, -c, [pools[id] EXCEPT !.locked = @ - c,
                       !.shares[o] = [i \in DOMAIN @ |-> @[i] - c]])

AddLiquidity(o, id, c) ==
  LET p == pools[id]
      minted == Min({(c * p.total) \div p.reserve[k] : k \in DOMAIN p.reserve})
  IN /\ TradingOpen(id)
     /\ \A k \in DOMAIN p.reserve : p.reserve[k] > 0
     /\ minted > 0
     /\ Change(id, c, [p EXCEPT !.reserve = [k \in DOMAIN @ |-> @[k] + c],
                          !.total = @ + minted, !.locked = @ + c,
                          !.liquidity[o] = @ + minted])

\* Also after the market was resolved: the provider gets outcome shares.
RemoveLiquidity(o, id, n) ==
  LET p == pools[id]
      part == [k \in DOMAIN p.reserve |-> (p.reserve[k] * n) \div p.total]
  IN /\ markets[id].status # "Cancelled"
     /\ n > 0 /\ n <= p.liquidity[o]
     /\ \A k \in DOMAIN part : part[k] > 0
     /\ Change(id, 0, [p EXCEPT !.reserve = [k \in DOMAIN @ |-> @[k] - part[k]],
                          !.shares[o] = [k \in DOMAIN @ |-> @[k] + part[k]],
                          !.total = @ - n, !.liquidity[o] = @ - n])

-----------------------------------------------------------------------------
(* Resolution of a conditional market *)

ProposeResolution(id, outcome) ==
  /\ markets[id].status = "Open" /\ pools[id].proposal = None
  /\ now >= markets[id].deadline
  /\ Change(id, 0, [pools[id] EXCEPT !.proposal =
              [outcome |-> outcome, deadline |-> now + pools[id].window,
               disputed |-> FALSE, bond |-> 0]])

DisputeResolution(id, bond) ==
  LET p == pools[id]
  IN /\ markets[id].status = "Open" /\ p.proposal # None
     /\ now < p.proposal.deadline /\ ~p.proposal.disputed
     /\ bond >= p.bond
     /\ Change(id, bond, [p EXCEPT !.proposal.disputed = TRUE, !.proposal.bond = bond])

Finalize(id, outcome) ==
  markets' = [markets EXCEPT ![id].status = "Resolved", ![id].winner = outcome]

FinalizeResolution(id) ==
  LET p == pools[id]
  IN /\ markets[id].status = "Open" /\ p.proposal # None
     /\ ~p.proposal.disputed /\ now >= p.proposal.deadline
     /\ Finalize(id, p.proposal.outcome)
     /\ UNCHANGED <<initialized, pools, held, now>>

\* The bond goes to the oracle or back to the challenger.
ResolveDispute(id, outcome) ==
  /\ markets[id].status = "Open"
  /\ pools[id].proposal # None /\ pools[id].proposal.disputed
  /\ Finalize(id, outcome)
  /\ held' = held - pools[id].proposal.bond
  /\ UNCHANGED <<initialized, pools, now>>

RedeemWinnings(o, id, n) ==
  /\ markets[id].status = "Resolved"
  /\ pools[id].shares[o][markets[id].winner] >= n
  /\ Change(id, -n, [pools[id] EXCEPT !.locked = @ - n,
                       !.shares[o][markets[id].winner] = @ - n])

-----------------------------------------------------------------------------
(* Stakes; a conditional market takes them too *)

PlaceBet(o, id, outcome, stake) ==
  LET m == markets[id]
  IN /\ m.status = "Open" /\ now < m.deadline
     /\ m.yes + m.no + stake <= MaxStakes
     /\ m.position[o].stake > 0 => m.position[o].outcome = outcome
     /\ markets' = [markets EXCEPT ![id] =
          [m EXCEPT !.position[o] = [outcome |-> outcome, stake |-> @.stake + stake],
                    !.yes = IF outcome = 2 THEN @ + stake ELSE @,
                    !.no = IF outcome = 1 THEN @ + stake ELSE @]]
     /\ UNCHANGED <<initialized, pools, held, now>>

\* The oracle need not wait for the deadline.
ResolveMarket(id, outcome) ==
  /\ id \notin Conditional /\ markets[id].status = "Open"
  /\ Finalize(id, outcome)
  /\ UNCHANGED <<initialized, pools, held, now>>

CancelMarket(id) ==
  /\ id \notin Conditional /\ markets[id].status = "Open"
  /\ markets' = [markets EXCEPT ![id].status = "Cancelled"]
  /\ UNCHANGED <<initialized, pools, held, now>>

\* calculate_payout() of a trader with a position.
Payout(m, o) ==
  LET p == m.position[o]
      pool == IF m.winner = 2 THEN m.yes ELSE m.no
  IN IF m.status = "Cancelled" THEN p.stake
     ELSE IF p.outcome # m.winner \/ pool = 0 THEN 0
     ELSE (p.stake * (m.yes + m.no)) \div pool

-----------------------------------------------------------------------------
Trade(id) ==
  \E o \in Owner, n \in Amount :
    \/ MintCompleteSet(o, id, n) \/ RedeemCompleteSet(o, id, n)
    \/ AddLiquidity(o, id, n) \/ RemoveLiquidity(o, id, n)
    \/ RedeemWinnings(o, id, n)
    \/ \E i \in DOMAIN pools[id].reserve : BuyShares(o, id, i, n) \/ SellShares(o, id, i, n)

Resolution(id) ==
  \/ \E outcome \in DOMAIN pools[id].reserve :
       ProposeResolution(id, outcome) \/ ResolveDispute(id, outcome)
  \/ \E bond \in Amount : DisputeResolution(id, bond)
  \/ FinalizeResolution(id)

Next ==
  \/ Initialize \/ Tick
  \/ \E d \in Deadline :
       \/ CreateMarket(d)
       \/ \E o \in Owner, n \in Outcomes, w \in 1..MaxWindow, l \in Amount :
            CreateConditionalMarket(o, n, d, w, l)
  \/ \E id \in Conditional : Trade(id) \/ Resolution(id)
  \/ \E id \in DOMAIN markets :
       \/ \E o \in Owner, outcome \in 1..2, s \in Amount : PlaceBet(o, id, outcome, s)
       \/ \E outcome \in 1..2 : ResolveMarket(id, outcome)
       \/ CancelMarket(id)

Spec == Init /\ [][Next]_vars

-----------------------------------------------------------------------------
(* Properties *)

Sum(f, S) == MapThenSumSet(LAMBDA x : f[x], S)

\* Every share is backed.  Until the outcome is known the shares of each outcome,
\* those of the pool included, are as many as the collateral that is locked;
\* after it, those of the winner are: the last of them can still be redeemed.
\* The tokens of the contract are the locked ones and the bonds of the
\* disputes that are not settled.
SharesBacked ==
  /\ \A id \in Conditional :
       LET p == pools[id]
       IN \A i \in DOMAIN p.reserve :
            markets[id].status = "Open" \/ markets[id].winner = i
              => p.locked = p.reserve[i] + MapThenSumSet(LAMBDA o : p.shares[o][i], Owner)
  /\ held = MapThenSumSet(LAMBDA id : pools[id].locked, Conditional)
            + MapThenSumSet(LAMBDA id : pools[id].proposal.bond,
                {id \in Conditional : pools[id].proposal # None /\ markets[id].status = "Open"})

\* The liquidity shares are those of the providers, and a pool that anybody
\* has a share of has some of every outcome.
LiquidityBacked ==
  \A id \in Conditional :
    /\ pools[id].total = Sum(pools[id].liquidity, Owner)
    /\ pools[id].total > 0 => \A k \in DOMAIN pools[id].reserve : pools[id].reserve[k] > 0

\* What the traders of a market are promised is never more than they staked
\* together.
PayoutsCovered ==
  \A id \in DOMAIN markets :
    LET m == markets[id]
    IN /\ m.yes + m.no = MapThenSumSet(LAMBDA o : m.position[o].stake, Owner)
       /\ m.status # "Open" => MapThenSumSet(LAMBDA o : Payout(m, o), Owner) <= m.yes + m.no

Product(s) == MapThenFoldSet(LAMBDA a, b : a * b, 1, LAMBDA k : s[k], LAMBDA S : Max(S), DOMAIN s)

\* A trade never lowers the product of the reserves: nobody gains by buying
\* and selling, however the quotes round.
TradesKeepProduct ==
  \A id \in Conditional :
    pools'[id].total = pools[id].total
      => Product(pools'[id].reserve) >= Product(pools[id].reserve)
=============================================================================
