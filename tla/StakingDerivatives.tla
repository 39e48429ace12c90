------------------------ MODULE StakingDerivatives --------------------------
(***************************************************************************)
(* Two staking contracts.  staking-derivatives sells and buys shares at a  *)
(* rate that grows with the time and is set to the worth of the pool       *)
(* whenever rewards are reported, and queues what was unstaked; it keeps   *)
(* accounts only.  staking holds the tokens, and its shares are parts of   *)
(* what is staked.  One is deployed.  An action is a call that succeeds.   *)
(***************************************************************************)
EXTENDS Integers, Sequences, FiniteSetsExt

CONSTANTS Contract,     \* "staking-derivatives" or "staking"
          Staker, Validator,
          Precision,    \* RATE_PRECISION
          Bps, Year,    \* 10_000, SECONDS_PER_YEAR
          RewardRate,   \* reward rates, within 1..Bps
          Period,       \* unbonding periods, positive
          Amount, Shares, Reward,  \* arguments of the calls
          MaxRate, MaxStaked, MaxEntries, MaxDelegated, MaxTime  \* bounds

VARIABLES settings,   \* reward rate and unbonding period, or None before initialize
          paused,
          rate, accrued,          \* the exchange rate and the time it was last accrued
          lst, totalLst,          \* shares of each staker and of all
          staked, rewards,        \* totals
          queue, unbonding,       \* entries of each staker, and the total not yet claimed
          held,                   \* tokens of the staking contract
          delegated,              \* validator -> stake
          now

poolVars == <<rate, accrued, lst, totalLst, staked, rewards>>
queueVars == <<queue, unbonding, held>>
vars == <<settings, paused, poolVars, queueVars, delegated, now>>

None == [none |-> TRUE]

Init ==
  /\ settings = None /\ paused = FALSE
  /\ rate = Precision /\ accrued = 0
  /\ lst = [u \in Staker |-> 0] /\ totalLst = 0
  /\ staked = 0 /\ rewards = 0
  /\ queue = [u \in Staker |-> <<>>] /\ unbonding = 0 /\ held = 0
  /\ delegated = [v \in Validator |-> 0]
  /\ now = 0

Tick ==
  /\ now < MaxTime /\ now' = now + 1
  /\ UNCHANGED <<settings, paused, poolVars, queueVars, delegated>>

Initialize(r, p) ==
  /\ settings = None
  /\ settings' = [reward |-> r, period |-> p]
  /\ rate' = Precision /\ accrued' = now
  /\ UNCHANGED <<paused, lst, totalLst, staked, rewards, queueVars, delegated, now>>

SetPaused(b) ==
  /\ settings # None /\ paused' = b
  /\ UNCHANGED <<settings, poolVars, queueVars, delegated, now>>

-----------------------------------------------------------------------------
(* The rate *)

\* The rate that every call works with, grown by the time since the last one;
\* nothing is added to the pool for it.
AccruedRate ==
  rate + (rate * settings.reward * (now - accrued)) \div (Bps * Year)

AccrueRewards ==
  /\ AccruedRate <= MaxRate
  /\ rate' = AccruedRate /\ accrued' = now

Active == settings # None /\ ~paused

Accrue ==
  /\ settings # None /\ AccrueRewards
  /\ UNCHANGED <<settings, paused, lst, totalLst, staked, rewards, queueVars, delegated, now>>

SetRewardRate(r) ==
  /\ settings # None /\ AccrueRewards
  /\ settings' = [settings EXCEPT !.reward = r]
  /\ UNCHANGED <<paused, lst, totalLst, staked, rewards, queueVars, delegated, now>>

\* The pool sets the rate anew, at a lower one than has accrued, too, but never
\* below the first one.
RecomputeRate(pool) ==
  rate' = IF totalLst = 0 THEN rate ELSE Max({(pool * Precision) \div totalLst, Precision})

ReportValidatorRewards(n) ==
  /\ Active /\ staked + n <= MaxStaked
  /\ staked' = staked + n /\ rewards' = rewards + n
  /\ RecomputeRate(staked + n)
  /\ UNCHANGED <<settings, paused, accrued, lst, totalLst, queueVars, delegated, now>>

\* The stake delegated is compared with nothing.
DelegateToValidator(v, n) ==
  /\ Active /\ delegated[v] + n <= MaxDelegated
  /\ delegated' = [delegated EXCEPT ![v] = @ + n]
  /\ UNCHANGED <<settings, paused, poolVars, queueVars, now>>

-----------------------------------------------------------------------------
(* Shares *)

Stake(u, n) ==
  LET minted == (n * Precision) \div AccruedRate IN
    /\ Active /\ AccrueRewards
    /\ minted # 0 /\ staked + n <= MaxStaked
    /\ lst' = [lst EXCEPT ![u] = @ + minted] /\ totalLst' = totalLst + minted
    /\ staked' = staked + n
    /\ UNCHANGED <<settings, paused, rewards, queueVars, delegated, now>>

\* The shares may be worth more than the pool, which then is empty.
Unstake(u, k) ==
  LET underlying == (k * AccruedRate) \div Precision IN
    /\ Active /\ lst[u] >= k /\ AccrueRewards
    /\ Len(queue[u]) < MaxEntries
    /\ lst' = [lst EXCEPT ![u] = @ - k] /\ totalLst' = totalLst - k
    /\ staked' = Max({staked - underlying, 0})
    /\ queue' = [queue EXCEPT ![u] =
         Append(@, [amount |-> underlying, release |-> now + settings.period, claimed |-> FALSE])]
    /\ unbonding' = unbonding + underlying
    /\ UNCHANGED <<settings, paused, rewards, held, delegated, now>>

ClaimUnbonded(u, i) ==
  /\ Active
  /\ ~queue[u][i].claimed /\ now >= queue[u][i].release
  /\ queue' = [queue EXCEPT ![u][i].claimed = TRUE]
  /\ unbonding' = Max({unbonding - queue[u][i].amount, 0})
  /\ UNCHANGED <<settings, paused, poolVars, held, delegated, now>>

StakingDerivatives ==
  \/ Accrue
  \/ \E r \in RewardRate : \/ SetRewardRate(r)
                           \/ \E p \in Period : Initialize(r, p)
  \/ \E b \in BOOLEAN : SetPaused(b)
  \/ \E n \in Reward : ReportValidatorRewards(n)
  \/ \E v \in Validator, n \in Amount : DelegateToValidator(v, n)
  \/ \E u \in Staker :
       \/ \E n \in Amount : Stake(u, n)
       \/ \E k \in Shares : Unstake(u, k)
       \/ \E i \in DOMAIN queue[u] : ClaimUnbonded(u, i)

-----------------------------------------------------------------------------
(* staking *)

InitializeStaking(p) ==
  /\ settings = None /\ settings' = [reward |-> 0, period |-> p]
  /\ UNCHANGED <<paused, poolVars, queueVars, delegated, now>>

StakeTokens(u, n) ==
  LET shares == IF totalLst = 0 THEN n ELSE (n * totalLst) \div staked IN
    /\ settings # None /\ staked + n <= MaxStaked
    /\ totalLst # 0 => staked > 0
    /\ shares > 0
    /\ lst' = [lst EXCEPT ![u] = @ + shares] /\ totalLst' = totalLst + shares
    /\ staked' = staked + n /\ held' = held + n
    /\ UNCHANGED <<settings, paused, rate, accrued, rewards, queue, unbonding, delegated, now>>

RequestUnstake(u, k) ==
  LET amount == (k * staked) \div totalLst IN
    /\ settings # None /\ lst[u] >= k /\ totalLst > 0 /\ amount > 0
    /\ Len(queue[u]) < MaxEntries
    /\ lst' = [lst EXCEPT ![u] = @ - k] /\ totalLst' = totalLst - k
    /\ staked' = Max({staked - amount, 0})
    /\ queue' = [queue EXCEPT ![u] =
         Append(@, [amount |-> amount, release |-> now + settings.period, claimed |-> FALSE])]
    /\ UNCHANGED <<settings, paused, rate, accrued, rewards, unbonding, held, delegated, now>>

ClaimUnstake(u, i) ==
  /\ ~queue[u][i].claimed /\ now >= queue[u][i].release
  /\ queue' = [queue EXCEPT ![u][i].claimed = TRUE]
  /\ held' = held - queue[u][i].amount
  /\ UNCHANGED <<settings, paused, poolVars, unbonding, delegated, now>>

Staking ==
  \/ \E p \in Period : InitializeStaking(p)
  \/ \E u \in Staker :
       \/ \E n \in Amount : StakeTokens(u, n)
       \/ \E k \in Shares : RequestUnstake(u, k)
       \/ \E i \in DOMAIN queue[u] : ClaimUnstake(u, i)

-----------------------------------------------------------------------------
Next ==
  \/ Tick
  \/ Contract = "staking-derivatives" /\ StakingDerivatives
  \/ Contract = "staking" /\ Staking

Spec == Init /\ [][Next]_vars

-----------------------------------------------------------------------------
(* Properties *)

Unclaimed(u) == {i \in DOMAIN queue[u] : ~queue[u][i].claimed}

\* The shares add up, the total to be paid out is what the queue holds, and the
\* rate is never below the one everybody started at.  In staking a share is one
\* token whatever was divided and rounded, and the contract holds what is
\* staked and what is still to be claimed.
SharesAccounted ==
  LET toClaim == MapThenSumSet(LAMBDA u :
        MapThenSumSet(LAMBDA i : queue[u][i].amount, Unclaimed(u)), Staker)
  IN /\ totalLst = MapThenSumSet(LAMBDA u : lst[u], Staker)
     /\ rate >= Precision /\ staked >= 0
     /\ Contract = "staking-derivatives" => unbonding = toClaim
     /\ Contract = "staking" => staked = totalLst /\ held = staked + toClaim

\* What a staker has in shares and in the queue.
Worth(u) ==
  lst[u] * rate + Precision * MapThenSumSet(LAMBDA i : queue[u][i].amount, DOMAIN queue[u])

\* The rate falls only as rewards are reported; an entry of the queue changes
\* once, when it is claimed, and not before its time; and at a given rate nobody
\* comes out of a call with more than before and what was staked.
StakeKept ==
  /\ rate' < rate => rewards' > rewards
  /\ \A u \in Staker : \A i \in DOMAIN queue[u] : queue'[u][i] # queue[u][i] =>
       /\ ~queue[u][i].claimed /\ now >= queue[u][i].release
       /\ queue'[u][i] = [queue[u][i] EXCEPT !.claimed = TRUE]
  /\ rate' = rate =>
       \A u \in Staker : Worth(u)' <= Worth(u) + Precision * Max({staked' - staked, 0})
=============================================================================
