----------------------------- MODULE Stablecoin -----------------------------
(***************************************************************************)
(* The algorithmic stablecoin: a token whose total supply is rebased after *)
(* the price, and a peg stability module (PSM) that swaps collateral for   *)
(* tokens and back for a fee, under a debt ceiling.  The contract keeps    *)
(* accounts only and moves no collateral itself.  An action is a call that *)
(* succeeds.                                                               *)
(***************************************************************************)
EXTENDS Integers, FiniteSetsExt

CONSTANTS User,
          Amount,
          Bps,        \* 10_000 basis points
          Scale,      \* 1_000_000, of the rebase ratio
          Target,     \* the target price
          Price,      \* prices of the oracle, positive
          Fee,        \* fees of psm_set_params
          Ceiling,    \* debt ceilings, positive
          Cooldown,   \* RebaseCooldown
          MaxSupply, MaxFees, MaxReserve, MaxTime  \* bounds

VARIABLES initialized,
          coin,    \* the token
          psm,     \* the peg stability module
          now

vars == <<initialized, coin, psm, now>>

\* Storage before init(), as the getters read it.
Init ==
  /\ initialized = FALSE
  /\ coin = [paused |-> FALSE, supply |-> 0, balance |-> [u \in User |-> 0],
             price |-> Target, reserve |-> 0, rebased |-> 0]
  /\ psm = [paused |-> FALSE, mintFee |-> 1, redeemFee |-> 1, ceiling |-> 0,
            debt |-> 0, vault |-> 0, fees |-> 0]
  /\ now = 0

Initialize(ceiling) ==
  /\ ~initialized
  /\ initialized' = TRUE
  /\ psm' = [psm EXCEPT !.ceiling = ceiling]
  /\ UNCHANGED <<coin, now>>

Tick ==
  /\ now < MaxTime /\ now' = now + 1
  /\ UNCHANGED <<initialized, coin, psm>>

\* A step of the token alone; self-transfers and burns take the supply below zero.
Coin(c) == -MaxSupply <= c.supply /\ coin' = c /\ UNCHANGED <<initialized, psm, now>>
Psm(p) == psm' = p /\ UNCHANGED <<initialized, coin, now>>

-----------------------------------------------------------------------------
(* Peg stability module *)

PsmSetParams(mintFee, redeemFee, ceiling) ==
  /\ initialized
  /\ Psm([psm EXCEPT !.mintFee = mintFee, !.redeemFee = redeemFee, !.ceiling = ceiling])

PsmSetPaused(paused) == initialized /\ Psm([psm EXCEPT !.paused = paused])

PsmOpen == ~coin.paused /\ ~psm.paused

PsmMint(u, n) ==
  LET fee == (n * psm.mintFee) \div Bps
      out == n - fee
  IN /\ PsmOpen
     /\ psm.debt + out <= psm.ceiling
     /\ psm.vault + n <= MaxSupply /\ coin.supply + out <= MaxSupply
     /\ coin.balance[u] + out <= MaxSupply /\ psm.fees + fee <= MaxFees
     /\ psm' = [psm EXCEPT !.vault = @ + n, !.fees = @ + fee, !.debt = @ + out]
     /\ coin' = [coin EXCEPT !.balance[u] = @ + out, !.supply = @ + out]
     /\ UNCHANGED <<initialized, now>>

\* Any token can be redeemed, whether the module or the admin minted it.
PsmRedeem(u, n) ==
  LET fee == (n * psm.redeemFee) \div Bps
      out == n - fee
  IN /\ PsmOpen
     /\ psm.vault >= out /\ coin.balance[u] >= n
     /\ coin.supply - n >= -MaxSupply /\ psm.fees + fee <= MaxFees
     /\ psm' = [psm EXCEPT !.vault = @ - out, !.fees = @ + fee,
                           !.debt = IF @ > n THEN @ - n ELSE 0]
     /\ coin' = [coin EXCEPT !.balance[u] = @ - n, !.supply = @ - n]
     /\ UNCHANGED <<initialized, now>>

\* The fees stay in the vault's account.
PsmCollectFees == initialized /\ Psm([psm EXCEPT !.fees = 0])

-----------------------------------------------------------------------------
(* Token *)

Mint(u, n) ==
  /\ initialized /\ ~coin.paused
  /\ coin.supply + n <= MaxSupply /\ coin.balance[u] + n <= MaxSupply
  /\ Coin([coin EXCEPT !.balance[u] = @ + n, !.supply = @ + n])

Burn(u, n) ==
  /\ ~coin.paused /\ coin.balance[u] >= n
  /\ Coin([coin EXCEPT !.balance[u] = @ - n, !.supply = @ - n])

\* The recipient's balance is read before the sender's is written: a transfer
\* to oneself creates tokens.
Transfer(u, v, n) ==
  /\ ~coin.paused /\ coin.balance[u] >= n
  /\ coin.balance[v] + n <= MaxSupply
  /\ LET left == [coin.balance EXCEPT ![u] = @ - n]
     IN Coin([coin EXCEPT !.balance = [left EXCEPT ![v] = coin.balance[v] + n]])

SetPrice(p) == initialized /\ Coin([coin EXCEPT !.price = p])

\* Division rounds towards zero.
Div(a, b) == IF a < 0 THEN -((-a) \div b) ELSE a \div b

\* The supply follows the price; balances do not, and a contraction is
\* limited by the reserve.
Rebased ==
  LET off == ((IF coin.price > Target THEN coin.price - Target ELSE Target - coin.price)
                * Scale) \div Target
      by == Div(coin.supply * off, Scale)
  IN IF coin.price > Target THEN coin.supply + by
     ELSE coin.supply - (IF by > coin.reserve THEN coin.reserve ELSE by)

Rebase ==
  /\ initialized /\ ~coin.paused
  /\ now >= coin.rebased + Cooldown
  /\ Rebased <= MaxSupply
  /\ Coin([coin EXCEPT !.supply = Rebased, !.rebased = now])

SetPaused(paused) == initialized /\ coin.paused = ~paused /\ Coin([coin EXCEPT !.paused = paused])

AddReserve(n) ==
  /\ initialized /\ coin.reserve + n <= MaxReserve
  /\ Coin([coin EXCEPT !.reserve = @ + n])

WithdrawReserve(n) ==
  /\ initialized /\ coin.reserve >= n
  /\ Coin([coin EXCEPT !.reserve = @ - n])

-----------------------------------------------------------------------------
Next ==
  \/ Tick \/ Rebase \/ PsmCollectFees
  \/ \E c \in Ceiling : \/ Initialize(c)
                        \/ \E f, g \in Fee : PsmSetParams(f, g, c)
  \/ \E p \in BOOLEAN : PsmSetPaused(p) \/ SetPaused(p)
  \/ \E p \in Price : SetPrice(p)
  \/ \E n \in Amount :
       \/ AddReserve(n) \/ WithdrawReserve(n)
       \/ \E u \in User : \/ PsmMint(u, n) \/ PsmRedeem(u, n) \/ Mint(u, n) \/ Burn(u, n)
                          \/ \E v \in User : Transfer(u, v, n)

Spec == Init /\ [][Next]_vars

-----------------------------------------------------------------------------
(* Properties *)

\* What the module owes is in its vault: tokens the admin minted and fees that
\* change between a swap and its return never let it pay out more than came in.
VaultCoversDebt ==
  /\ psm.vault >= psm.debt /\ psm.debt >= 0
  /\ coin.reserve >= 0
  /\ \A u \in User : coin.balance[u] >= 0

\* The module never goes into debt beyond the ceiling of the time, and pausing
\* either part stops it from moving anything.
CeilingKept ==
  /\ psm'.debt > psm.debt => psm'.debt <= psm.ceiling
  /\ coin.paused \/ psm.paused => psm'.vault = psm.vault /\ psm'.debt = psm.debt
=============================================================================
