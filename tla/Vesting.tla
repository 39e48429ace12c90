------------------------------ MODULE Vesting ------------------------------
(***************************************************************************)
(* Three contracts that release tokens over time: token-vesting, with       *)
(* schedules that are linear or by milestones and can be revoked; vesting,  *)
(* with one linear grant for each beneficiary; and vc-vesting, whose pools   *)
(* release tranches by the votes of their investors.  They share nothing     *)
(* but the clock.  An action is a call that succeeds.                       *)
(***************************************************************************)
EXTENDS Integers, Sequences, FiniteSets, FiniteSetsExt

CONSTANTS Contract,       \* those of the three that are deployed
          Person,         \* beneficiaries and investors
          Bps,            \* 10000
          Amount, Period, \* of the schedules: period <<start, cliff, end>>
          Split,          \* shares of the milestones, each summing to Bps
          Quorum, Duration,  \* of the votes
          MaxSchedules, MaxTranches, MaxAllocation, MaxHeld, MaxTime  \* bounds

VARIABLES initialized,  \* contracts
          schedules,    \* token-vesting: id -> schedule
          grants,       \* vesting: beneficiary -> schedule, or None
          unlocks,      \* vesting: <<beneficiary, number>> -> milestone, or None
          pool,         \* vc-vesting: investors and their total, or None
          tranches,     \* vc-vesting: number -> tranche, or None
          votes,        \* vc-vesting: <<number, investor>> -> weight, or None
          held,         \* external: tokens of each contract
          now

vars == <<initialized, schedules, grants, unlocks, pool, tranches, votes, held, now>>

None == [none |-> TRUE]

All == {"token-vesting", "vesting", "vc-vesting"}
Tranche == 1..MaxTranches

Schedule(b, n, period, split) ==
  [to |-> b, total |-> n, released |-> 0, cliff |-> period[2], end |-> period[3],
   milestones |-> [i \in DOMAIN split |-> [share |-> split[i], approved |-> FALSE]],
   revoked |-> FALSE]

Init ==
  /\ initialized = {} /\ schedules = <<>>
  /\ grants = [b \in Person |-> None] /\ unlocks = [k \in Person \X {1} |-> None]
  /\ pool = None /\ tranches = [i \in Tranche |-> None]
  /\ votes = [k \in Tranche \X Person |-> None]
  /\ held = [c \in All |-> 0] /\ now = 0

Initialize(c) ==
  /\ c \notin initialized /\ initialized' = initialized \cup {c}
  /\ UNCHANGED <<schedules, grants, unlocks, pool, tranches, votes, held, now>>

Tick ==
  /\ now < MaxTime /\ now' = now + 1
  /\ UNCHANGED <<initialized, schedules, grants, unlocks, pool, tranches, votes, held>>

Pay(c, n) == held' = [held EXCEPT ![c] = @ - n]

-----------------------------------------------------------------------------
(* token-vesting *)

Create(b, n, period, split) ==
  /\ "token-vesting" \in initialized /\ Len(schedules) < MaxSchedules
  /\ schedules' = Append(schedules, Schedule(b, n, period, split))
  /\ held' = [held EXCEPT !["token-vesting"] = @ + n]
  /\ UNCHANGED <<initialized, grants, unlocks, pool, tranches, votes, now>>

CreateLinearSchedule(b, n, period) ==
  /\ period[1] <= period[2] /\ period[2] < period[3]
  /\ Create(b, n, period, <<>>)

CreateMilestoneSchedule(b, n, cliff, split) == Create(b, n, <<cliff, cliff, cliff>>, split)

IsLinear(s) == s.milestones = <<>>

ApproveMilestone(i, m) ==
  /\ "token-vesting" \in initialized /\ ~schedules[i].revoked
  /\ m \in DOMAIN schedules[i].milestones /\ ~schedules[i].milestones[m].approved
  /\ schedules' = [schedules EXCEPT ![i].milestones[m].approved = TRUE]
  /\ UNCHANGED <<initialized, grants, unlocks, pool, tranches, votes, held, now>>

\* Linear in the time since the cliff, which must have come.
LinearVested(s) ==
  IF now >= s.end THEN s.total ELSE (s.total * (now - s.cliff)) \div (s.end - s.cliff)
MilestoneVested(s) ==
  LET approved == {m \in DOMAIN s.milestones : s.milestones[m].approved}
  IN (s.total * MapThenSumSet(LAMBDA m : s.milestones[m].share, approved)) \div Bps
Vested(s) == IF IsLinear(s) THEN LinearVested(s) ELSE MilestoneVested(s)

Release(i) ==
  LET s == schedules[i] IN
    /\ "token-vesting" \in initialized /\ ~s.revoked /\ now >= s.cliff
    /\ Vested(s) # s.released
    /\ schedules' = [schedules EXCEPT ![i].released = Vested(s)]
    /\ Pay("token-vesting", Vested(s) - s.released)
    /\ UNCHANGED <<initialized, grants, unlocks, pool, tranches, votes, now>>

\* What is vested goes to the beneficiary, the rest to the administrator.  For
\* a linear schedule before its cliff the subtraction of times panics.
Revoke(i) ==
  LET s == schedules[i] IN
    /\ "token-vesting" \in initialized /\ ~s.revoked
    /\ IsLinear(s) => now >= s.cliff
    /\ schedules' = [schedules EXCEPT ![i].released = Vested(s), ![i].revoked = TRUE]
    /\ Pay("token-vesting", Max({Vested(s) - s.released, 0}) + Max({s.total - Vested(s), 0}))
    /\ UNCHANGED <<initialized, grants, unlocks, pool, tranches, votes, now>>

-----------------------------------------------------------------------------
(* vesting *)

CreateSchedule(b, n, period) ==
  /\ "vesting" \in initialized /\ grants[b] = None
  /\ period[3] > period[1] /\ period[2] <= period[3]
  /\ grants' = [grants EXCEPT ![b] =
       [total |-> n, released |-> 0, start |-> period[1], cliff |-> period[2], end |-> period[3]]]
  /\ held' = [held EXCEPT !["vesting"] = @ + n]
  /\ UNCHANGED <<initialized, schedules, unlocks, pool, tranches, votes, now>>

\* No claim reads the milestones.
AddMilestone(k) ==
  /\ "vesting" \in initialized
  /\ unlocks' = [unlocks EXCEPT ![k] = [unlocked |-> FALSE]]
  /\ UNCHANGED <<initialized, schedules, grants, pool, tranches, votes, held, now>>

UnlockMilestone(k) ==
  /\ "vesting" \in initialized
  /\ unlocks[k] # None /\ ~unlocks[k].unlocked
  /\ unlocks' = [unlocks EXCEPT ![k].unlocked = TRUE]
  /\ UNCHANGED <<initialized, schedules, grants, pool, tranches, votes, held, now>>

\* Nothing before the cliff, then linear in the time since the start.
Unlocked(g) ==
  IF now < g.cliff THEN 0
  ELSE IF now >= g.end THEN g.total
  ELSE (g.total * (now - g.start)) \div (g.end - g.start)

Claim(b) ==
  LET n == Unlocked(grants[b]) - grants[b].released IN
    /\ grants[b] # None /\ n > 0
    /\ grants' = [grants EXCEPT ![b].released = @ + n]
    /\ Pay("vesting", n)
    /\ UNCHANGED <<initialized, schedules, unlocks, pool, tranches, votes, now>>

-----------------------------------------------------------------------------
(* vc-vesting *)

CreatePool ==
  /\ "vc-vesting" \in initialized /\ pool = None
  /\ pool' = [total |-> 0, allocation |-> [v \in Person |-> 0]]
  /\ UNCHANGED <<initialized, schedules, grants, unlocks, tranches, votes, held, now>>

\* The contract has no deposit: tokens are sent to it from outside.
Fund(n) ==
  /\ "vc-vesting" \in initialized /\ held["vc-vesting"] + n <= MaxHeld
  /\ held' = [held EXCEPT !["vc-vesting"] = @ + n]
  /\ UNCHANGED <<initialized, schedules, grants, unlocks, pool, tranches, votes, now>>

\* A tranche added again is not released and has no votes, although the
\* records of who voted remain.
AddTranche(i, n, quorum) ==
  /\ pool # None
  /\ tranches' = [tranches EXCEPT ![i] =
       [total |-> n, released |-> FALSE, ends |-> 0, quorum |-> quorum, for |-> 0, against |-> 0]]
  /\ UNCHANGED <<initialized, schedules, grants, unlocks, pool, votes, held, now>>

\* An investor added again has the new allocation; the total counts both.
AddInvestor(v, n) ==
  /\ pool # None /\ pool.total + n <= MaxAllocation
  /\ pool' = [total |-> pool.total + n, allocation |-> [pool.allocation EXCEPT ![v] = n]]
  /\ UNCHANGED <<initialized, schedules, grants, unlocks, tranches, votes, held, now>>

OpenVoting(i, duration) ==
  /\ tranches[i] # None /\ ~tranches[i].released
  /\ tranches' = [tranches EXCEPT ![i].ends = now + duration]
  /\ UNCHANGED <<initialized, schedules, grants, unlocks, pool, votes, held, now>>

Vote(v, i, approve) ==
  /\ tranches[i] # None /\ pool.allocation[v] > 0 /\ votes[<<i, v>>] = None
  /\ ~tranches[i].released /\ now <= tranches[i].ends
  /\ tranches' = [tranches EXCEPT
       ![i].for = IF approve THEN @ + pool.allocation[v] ELSE @,
       ![i].against = IF approve THEN @ ELSE @ + pool.allocation[v]]
  /\ votes' = [votes EXCEPT ![<<i, v>>] = [weight |-> pool.allocation[v]]]
  /\ UNCHANGED <<initialized, schedules, grants, unlocks, pool, held, now>>

\* All of an approved tranche goes to the administrator of the pool.
FinalizeVoting(i) ==
  LET t == tranches[i] IN
    /\ t # None /\ ~t.released /\ now > t.ends /\ pool.total > 0
    /\ (t.for * Bps) \div pool.total >= t.quorum /\ held["vc-vesting"] >= t.total
    /\ tranches' = [tranches EXCEPT ![i].released = TRUE]
    /\ Pay("vc-vesting", t.total)
    /\ UNCHANGED <<initialized, schedules, grants, unlocks, pool, votes, now>>

\* Nothing records the claim: an investor may repeat it.
ClaimTokens(v, i) ==
  LET n == (tranches[i].total * pool.allocation[v]) \div pool.total IN
    /\ tranches[i] # None /\ tranches[i].released /\ pool.total > 0
    /\ n > 0 /\ held["vc-vesting"] >= n
    /\ Pay("vc-vesting", n)
    /\ UNCHANGED <<initialized, schedules, grants, unlocks, pool, tranches, votes, now>>

-----------------------------------------------------------------------------
Next ==
  \/ Tick
  \/ \E c \in Contract : Initialize(c)
  \/ \E b \in Person, n \in Amount, period \in Period :
       \/ CreateLinearSchedule(b, n, period) \/ CreateSchedule(b, n, period)
       \/ \E split \in Split : CreateMilestoneSchedule(b, n, period[2], split)
  \/ \E i \in DOMAIN schedules :
       \/ Release(i) \/ Revoke(i)
       \/ \E m \in DOMAIN schedules[i].milestones : ApproveMilestone(i, m)
  \/ \E b \in Person : Claim(b) \/ AddMilestone(<<b, 1>>) \/ UnlockMilestone(<<b, 1>>)
  \/ CreatePool
  \/ \E n \in Amount : Fund(n) \/ \E v \in Person : AddInvestor(v, n)
  \/ \E i \in Tranche :
       \/ \E n \in Amount, quorum \in Quorum : AddTranche(i, n, quorum)
       \/ \E duration \in Duration : OpenVoting(i, duration)
       \/ FinalizeVoting(i)
       \/ \E v \in Person : ClaimTokens(v, i) \/ \E b \in BOOLEAN : Vote(v, i, b)

Spec == Init /\ [][Next]_vars

-----------------------------------------------------------------------------
(* Properties *)

\* The vesting contracts hold exactly what has not been released, whatever was
\* rounded when a part was released; a revoked schedule leaves nothing behind.
SchedulesBacked ==
  /\ held["token-vesting"] =
       MapThenSumSet(LAMBDA i : schedules[i].total - schedules[i].released,
                     {i \in DOMAIN schedules : ~schedules[i].revoked})
  /\ held["vesting"] =
       MapThenSumSet(LAMBDA b : grants[b].total - grants[b].released,
                     {b \in Person : grants[b] # None})

\* The votes on a tranche are at most the weights recorded for it, and these,
\* like what the investors may claim of it at once, are within the total that
\* the approval is measured against, also when investors and tranches are added
\* again.
VotesCovered ==
  pool # None =>
    /\ MapThenSumSet(LAMBDA v : pool.allocation[v], Person) <= pool.total
    /\ \A i \in Tranche :
         LET weight == MapThenSumSet(LAMBDA v : votes[<<i, v>>].weight,
                                     {v \in Person : votes[<<i, v>>] # None})
         IN /\ weight <= pool.total
            /\ tranches[i] # None => tranches[i].for + tranches[i].against <= weight

\* A schedule releases what has vested and no more, never takes it back, and
\* once it is revoked it does not change.
ReleasedAsVested ==
  \A i \in DOMAIN schedules :
    LET s == schedules[i] IN
      /\ schedules'[i].released \in s.released..s.total
      /\ schedules'[i].released > s.released =>
           schedules'[i].released = Vested(s) /\ (now >= s.cliff \/ schedules'[i].revoked)
      /\ schedules'[i].revoked =>
           schedules'[i] = IF s.revoked THEN s ELSE [s EXCEPT !.released = Vested(s), !.revoked = TRUE]
=============================================================================
