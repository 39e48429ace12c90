---------------------------- MODULE NftFractional ---------------------------
(***************************************************************************)
(* The fractional NFT vault: an NFT in custody against a supply of shares  *)
(* that can be transferred and spent by allowance, one ascending auction   *)
(* that anybody starts at the reserve price, and the proceeds shared by    *)
(* burning shares.  Beside it four contracts that sell parts of a thing:   *)
(* properties and trusts whose holders claim a part of the income (reit,   *)
(* tokenized-reit, real-estate; prices and payments are only returned) and *)
(* index pools (index-token).  An action is a call that succeeds.          *)
(***************************************************************************)
EXTENDS Integers, Sequences, FiniteSetsExt

CONSTANTS Contract,     \* "nft-fractional", "reit", "tokenized-reit",
                        \* "real-estate" or "index-token"
          User,
          Vault,        \* the contract's own address
          Bps,          \* MAX_BPS
          Config,       \* supply, reserve, duration and increment, positive
          Amount,
          Total, Weight,       \* shares of a property, target weights
          MaxBid, MaxAssets, MaxHolding, MaxIncome, MaxWeights, MaxTime  \* bounds

VARIABLES config,      \* None before initialize
          status,
          owner,       \* owner of the NFT
          shares,      \* user -> balance
          allowance,   \* owner -> spender -> amount and expiration
          supply, proceeds,
          auction,     \* bidder, bid and end; or None
          held,        \* payment tokens held
          now,
          assets,      \* id -> property, trust or pool of the other contracts
          paused

vault == <<config, status, owner, shares, allowance, supply, proceeds, auction, held>>
others == <<assets, paused>>
vars == <<vault, now, others>>

None == [none |-> TRUE]
NoAllowance == [amount |-> 0, until |-> 0]
VaultStatus == {"Fractionalized", "Auction", "Settled"}

Init ==
  /\ config = None /\ status = "Fractionalized"
  /\ owner \in User
  /\ shares = [u \in User |-> 0]
  /\ allowance = [u \in User |-> [v \in User |-> NoAllowance]]
  /\ supply = 0 /\ proceeds = 0
  /\ auction = None /\ held = 0 /\ now = 0
  /\ assets = <<>> /\ paused = FALSE

Tick ==
  /\ now < MaxTime /\ now' = now + 1
  /\ UNCHANGED <<vault, others>>

\* The depositor's NFT comes into the custody of the vault.
Initialize(c) ==
  /\ config = None
  /\ config' = c /\ owner' = Vault
  /\ shares' = [shares EXCEPT ![owner] = c.supply] /\ supply' = c.supply
  /\ UNCHANGED <<status, allowance, proceeds, auction, held, now, others>>

Moved(from, to, n) ==
  LET less == [shares EXCEPT ![from] = @ - n] IN [less EXCEPT ![to] = @ + n]

Transfer(from, to, n) ==
  /\ config # None /\ shares[from] >= n
  /\ shares' = Moved(from, to, n)
  /\ UNCHANGED <<config, status, owner, allowance, supply, proceeds, auction, held, now, others>>

Approve(from, spender, n, until) ==
  /\ config # None /\ n > 0 => until >= now
  /\ allowance' = [allowance EXCEPT
       ![from][spender] = IF n = 0 THEN NoAllowance ELSE [amount |-> n, until |-> until]]
  /\ UNCHANGED <<config, status, owner, shares, supply, proceeds, auction, held, now, others>>

TransferFrom(spender, from, to, n) ==
  LET a == allowance[from][spender]
  IN /\ config # None /\ now <= a.until /\ a.amount >= n /\ shares[from] >= n
     /\ allowance' = [allowance EXCEPT
          ![from][spender] = IF a.amount = n THEN NoAllowance ELSE [a EXCEPT !.amount = @ - n]]
     /\ shares' = Moved(from, to, n)
     /\ UNCHANGED <<config, status, owner, supply, proceeds, auction, held, now, others>>

-----------------------------------------------------------------------------
(* Auction and proceeds *)

StartAuction(u, bid) ==
  /\ config # None /\ status = "Fractionalized" /\ bid >= config.reserve
  /\ status' = "Auction"
  /\ auction' = [bidder |-> u, bid |-> bid, end |-> now + config.duration]
  /\ held' = held + bid
  /\ UNCHANGED <<config, owner, shares, allowance, supply, proceeds, now, others>>

\* Rounded up.
Increment == (auction.bid * config.increment + Bps - 1) \div Bps

Bid(u, bid) ==
  /\ status = "Auction" /\ now < auction.end
  /\ bid >= auction.bid + Increment
  /\ auction' = [auction EXCEPT !.bidder = u, !.bid = bid]
  /\ held' = held + bid - auction.bid
  /\ UNCHANGED <<config, status, owner, shares, allowance, supply, proceeds, now, others>>

Settle ==
  /\ status = "Auction" /\ now >= auction.end
  /\ status' = "Settled" /\ proceeds' = auction.bid /\ owner' = auction.bidder
  /\ UNCHANGED <<config, shares, allowance, supply, auction, held, now, others>>

\* The last shares take what rounding left.
Payout(n) == IF n = supply THEN proceeds ELSE (n * proceeds) \div supply

Claim(u, n) ==
  /\ status = "Settled" /\ shares[u] >= n /\ Payout(n) > 0
  /\ shares' = [shares EXCEPT ![u] = @ - n] /\ supply' = supply - n
  /\ proceeds' = proceeds - Payout(n) /\ held' = held - Payout(n)
  /\ UNCHANGED <<config, status, owner, allowance, auction, now, others>>

-----------------------------------------------------------------------------
(* Properties and trusts: the contracts after initialize() *)

SetPaused(b) ==
  /\ Contract # "real-estate" /\ paused' = b
  /\ UNCHANGED <<vault, now, assets>>

Becomes(id, asset) ==
  /\ assets' = [assets EXCEPT ![id] = asset]
  /\ UNCHANGED <<vault, now, paused>>

\* add_property(), create_trust(), list_property()
AddProperty(total) ==
  /\ Len(assets) < MaxAssets
  /\ assets' = Append(assets, [total |-> total, issued |-> 0, income |-> 0, active |-> TRUE,
                               holders |-> [u \in User |-> None]])
  /\ UNCHANGED <<vault, now, paused>>

DeactivateProperty(id) == Becomes(id, [assets[id] EXCEPT !.active = FALSE])

\* Who comes later has seen all the income there is.
HoldingOf(asset, u) ==
  IF asset.holders[u] = None THEN [shares |-> 0, seen |-> asset.income] ELSE asset.holders[u]

\* compute_pending(), compute_claimable(): in parts of the shares that are
\* issued, or of all.
Pending(asset, h) ==
  IF asset.issued = 0 THEN 0
  ELSE (Max({0, asset.income - h.seen}) * h.shares)
         \div (IF Contract = "reit" THEN asset.issued ELSE asset.total)

\* The holder has then seen as much as he was paid, not all the income.
Claimed(asset, h) == [h EXCEPT !.seen = @ + Pending(asset, h)]

Kept(h) == IF h.shares = 0 THEN None ELSE h

Issued(u, id, n, h) ==
  LET a == assets[id]
  IN /\ ~paused /\ a.active /\ a.issued + n <= a.total
     /\ Becomes(id, [a EXCEPT !.issued = @ + n, !.holders[u] = [h EXCEPT !.shares = @ + n]])

\* The reit settles first, without paying.
MintShares(u, id, n) == Issued(u, id, n, Claimed(assets[id], HoldingOf(assets[id], u)))

\* The others do not: shares bought later have part in earlier income.
BuyShares(u, id, n) == Issued(u, id, n, HoldingOf(assets[id], u))

BurnShares(u, id, n) ==
  LET a == assets[id]
  IN /\ ~paused /\ a.holders[u] # None /\ n <= a.holders[u].shares
     /\ Becomes(id, [a EXCEPT !.issued = @ - n,
                              !.holders[u] = Kept([Claimed(a, @) EXCEPT !.shares = @ - n])])

\* Both holdings are read before either is written: but for the reit, which
\* refuses it, a transfer to oneself adds the shares.
TransferShares(u, v, id, n) ==
  LET a == assets[id]
      from == [Claimed(a, a.holders[u]) EXCEPT !.shares = @ - n]
      sent == [a.holders EXCEPT ![u] = Kept(from)]
      to == HoldingOf(a, v)
  IN /\ ~paused /\ a.holders[u] # None /\ n <= a.holders[u].shares
     /\ Contract = "reit" => u # v
     /\ to.shares + n <= MaxHolding
     /\ Becomes(id, [a EXCEPT !.holders = [sent EXCEPT ![v] = [to EXCEPT !.shares = @ + n]]])

DepositIncome(id, n) ==
  /\ assets[id].income + n <= MaxIncome
  /\ Becomes(id, [assets[id] EXCEPT !.income = @ + n])

ClaimIncome(u, id) ==
  LET a == assets[id]
  IN /\ ~paused /\ a.holders[u] # None /\ Pending(a, a.holders[u]) > 0
     /\ Becomes(id, [a EXCEPT !.holders[u] = Claimed(a, @)])

-----------------------------------------------------------------------------
(* Index pools *)

CreatePool ==
  /\ Len(assets) < MaxAssets
  /\ assets' = Append(assets, [supply |-> 0, value |-> 0, shares |-> [u \in User |-> 0],
                               weights |-> <<>>, proposal |-> "None"])
  /\ UNCHANGED <<vault, now, paused>>

AddAsset(id, weight) ==
  /\ Len(assets[id].weights) < MaxWeights
  /\ Becomes(id, [assets[id] EXCEPT
       !.weights = Append(@, [target |-> weight, current |-> 0])])

Deposit(u, id, n) ==
  LET pool == assets[id]
      minted == IF pool.supply = 0 THEN n ELSE (n * pool.supply) \div pool.value
  IN /\ pool.value + n <= MaxIncome
     /\ Becomes(id, [pool EXCEPT !.supply = @ + minted, !.shares[u] = @ + minted,
                                 !.value = @ + n])

Withdraw(u, id, n) ==
  LET pool == assets[id]
  IN /\ n <= pool.shares[u]
     /\ Becomes(id, [pool EXCEPT !.supply = @ - n, !.shares[u] = @ - n,
                                 !.value = @ - (n * pool.value) \div pool.supply])

ProposeRebalance(id) ==
  /\ assets[id].proposal = "None"
  /\ Becomes(id, [assets[id] EXCEPT !.proposal = "Proposed"])

\* Executed proposals stay: a pool is rebalanced once.
ExecuteRebalance(id) ==
  LET weights == assets[id].weights
  IN /\ assets[id].proposal = "Proposed"
     /\ MapThenSumSet(LAMBDA k : weights[k].target, DOMAIN weights) = Bps
     /\ Becomes(id, [assets[id] EXCEPT
          !.proposal = "Executed",
          !.weights = [k \in DOMAIN weights |-> [weights[k] EXCEPT !.current = weights[k].target]]])

-----------------------------------------------------------------------------
VaultNext ==
  \/ Tick \/ Settle
  \/ \E c \in Config : Initialize(c)
  \/ \E u \in User :
       \/ \E bid \in 1..MaxBid : StartAuction(u, bid) \/ Bid(u, bid)
       \/ \E n \in Amount : Claim(u, n)
       \/ \E v \in User :
            \/ \E n \in Amount \cup {0}, until \in 0..MaxTime : Approve(u, v, n, until)
            \/ \E n \in Amount : \/ Transfer(u, v, n)
                                 \/ \E w \in User : TransferFrom(w, u, v, n)

PropertyNext ==
  \/ \E b \in BOOLEAN : SetPaused(b)
  \/ \E n \in Total : AddProperty(n)
  \/ \E id \in DOMAIN assets :
       \/ DeactivateProperty(id)
       \/ \E n \in Amount : DepositIncome(id, n)
       \/ \E u \in User :
            \/ ClaimIncome(u, id)
            \/ \E n \in Amount : \/ Contract = "reit" /\ MintShares(u, id, n)
                                 \/ Contract = "reit" /\ BurnShares(u, id, n)
                                 \/ Contract # "reit" /\ BuyShares(u, id, n)
                                 \/ \E v \in User : TransferShares(u, v, id, n)

IndexNext ==
  \/ CreatePool
  \/ \E id \in DOMAIN assets :
       \/ ProposeRebalance(id) \/ ExecuteRebalance(id)
       \/ \E weight \in Weight : AddAsset(id, weight)
       \/ \E u \in User, n \in Amount : Deposit(u, id, n) \/ Withdraw(u, id, n)

Next ==
  \/ Contract = "nft-fractional" /\ VaultNext
  \/ Contract \in {"reit", "tokenized-reit", "real-estate"} /\ PropertyNext
  \/ Contract = "index-token" /\ IndexNext

Spec == Init /\ [][Next]_vars

-----------------------------------------------------------------------------
(* Properties *)

\* The shares add up to the supply, and the vault holds the standing bid, or
\* what is left of the proceeds, and no more; it has the NFT until it is sold.
SharesBacked ==
  /\ supply = MapThenSumSet(LAMBDA u : shares[u], User)
  /\ held = CASE status = "Fractionalized" -> 0
              [] status = "Auction" -> auction.bid
              [] status = "Settled" -> proceeds
  /\ config # None => ((owner = Vault) = (status # "Settled"))
  /\ status = "Settled" /\ supply = 0 => proceeds = 0

\* A claim never lowers what the remaining shares are worth, whoever claims
\* first and however the shares are split.
RemainingSharesKeepValue ==
  status = "Settled" => proceeds' * supply >= proceeds * supply'

\* No more shares are sold than there are, and those sold are held.  In the reit
\* the shares held are exactly those issued, so no claim goes beyond the income.
HoldingsCounted ==
  Contract \in {"reit", "tokenized-reit", "real-estate"} =>
    \A id \in DOMAIN assets :
      LET a == assets[id]
          holders == {u \in User : a.holders[u] # None}
          count == MapThenSumSet(LAMBDA u : a.holders[u].shares, holders)
      IN /\ a.issued \in 0..a.total /\ count >= a.issued
         /\ Contract = "reit" =>
              count = a.issued /\ \A u \in holders : a.holders[u].seen <= a.income

\* The shares of a pool add up to its supply and are always worth one token
\* each: no call brings a pool the gain that its shares would be priced by.  Its
\* current weights are none or the whole, whatever assets are added later.
PoolsCounted ==
  Contract = "index-token" =>
    \A id \in DOMAIN assets :
      LET pool == assets[id]
      IN /\ pool.supply = MapThenSumSet(LAMBDA u : pool.shares[u], User)
         /\ pool.value = pool.supply
         /\ MapThenSumSet(LAMBDA k : pool.weights[k].current, DOMAIN pool.weights) \in {0, Bps}
=============================================================================
