----------------------------- MODULE Governance -----------------------------
(***************************************************************************)
(* The governance contract: tokens minted by the administrator, proposals  *)
(* voted with balances or through delegates, a timelock before execution,  *)
(* and scheduled upgrades of the contract itself.  Delegation redirects a  *)
(* call to vote to the delegate at the end of the chain: the delegate's    *)
(* own balance is voted, once.  Beside it quadratic-voting, where voters   *)
(* on a list vote with the square root of their balance.  An action is a   *)
(* call that succeeds.                                                     *)
(***************************************************************************)
EXTENDS Integers, SequencesExt

CONSTANTS Contract,        \* "governance" or "quadratic-voting"
          Holder, Wasm,
          Bps,             \* 10_000
          Depth,           \* chain followed by resolve_delegate()
          MinDelay,        \* MIN_DELAY of an upgrade
          Settings,        \* quorum, period, delay and deposit
          Amount,
          MaxProposals, MaxSupply, MaxTime  \* bounds

VARIABLES settings,     \* None before initialize
          balance, supply,
          delegate,     \* holder -> holder, or None
          proposals,    \* id -> proposal with its recorded voters
          wasm, pending,  \* code of the contract; hash and time, or None
          now,
          allowed, paused  \* voters on the list, calls stopped: quadratic-voting

list == <<allowed, paused>>
vars == <<settings, balance, supply, delegate, proposals, wasm, pending, now, list>>

None == [none |-> TRUE]
Choice == {"For", "Against", "Abstain"}
ProposalStatus == {"Active", "Passed", "Defeated", "Executed", "Cancelled"}

Init ==
  /\ settings = None
  /\ balance = [h \in Holder |-> 0] /\ supply = 0
  /\ delegate = [h \in Holder |-> None]
  /\ proposals = <<>>
  /\ wasm \in Wasm /\ pending = None
  /\ now = 0
  /\ allowed = {} /\ paused = FALSE

Tick ==
  /\ now < MaxTime /\ now' = now + 1
  /\ UNCHANGED <<settings, balance, supply, delegate, proposals, wasm, pending, list>>

Initialize(s) ==
  /\ settings = None /\ settings' = s
  /\ UNCHANGED <<balance, supply, delegate, proposals, wasm, pending, now, list>>

Mint(h, n) ==
  /\ settings # None /\ supply + n <= MaxSupply
  /\ balance' = [balance EXCEPT ![h] = @ + n] /\ supply' = supply + n
  /\ UNCHANGED <<settings, delegate, proposals, wasm, pending, now, list>>

Delegate(h, to) ==
  /\ settings # None /\ to # h
  /\ delegate' = [delegate EXCEPT ![h] = to]
  /\ UNCHANGED <<settings, balance, supply, proposals, wasm, pending, now, list>>

\* resolve_delegate(): chains, and cycles, are followed for Depth steps.
Resolved(h) ==
  FoldLeft(LAMBDA at, i : IF delegate[at] = None THEN at ELSE delegate[at],
           h, [i \in 1..Depth |-> i])

-----------------------------------------------------------------------------
(* Proposals *)

Propose(h, deposit) ==
  /\ settings # None /\ Len(proposals) < MaxProposals
  /\ deposit >= settings.deposit /\ balance[h] # 0
  /\ proposals' = Append(proposals,
       [status |-> "Active", votes |-> [c \in Choice |-> 0], snapshot |-> supply,
        end |-> now + settings.period, after |-> now + settings.period + settings.delay,
        voters |-> {}])
  /\ UNCHANGED <<settings, balance, supply, delegate, wasm, pending, now, list>>

Vote(h, id, c) ==
  LET voter == Resolved(h)
  IN /\ proposals[id].status = "Active" /\ now <= proposals[id].end
     /\ voter \notin proposals[id].voters /\ balance[voter] # 0
     /\ proposals' = [proposals EXCEPT ![id].voters = @ \cup {voter},
                                       ![id].votes[c] = @ + balance[voter]]
     /\ UNCHANGED <<settings, balance, supply, delegate, wasm, pending, now, list>>

Total(p) == MapThenSumSet(LAMBDA c : p.votes[c], Choice)

Becomes(id, status) ==
  /\ proposals' = [proposals EXCEPT ![id].status = status]
  /\ UNCHANGED <<settings, balance, supply, delegate, wasm, pending, now, list>>

\* The quorum is taken of the supply when the proposal was made.
Passes(p) ==
  /\ Total(p) >= (p.snapshot * settings.quorum) \div Bps
  /\ p.votes["For"] > p.votes["Against"]

Finalise(id) ==
  /\ proposals[id].status = "Active" /\ now > proposals[id].end
  /\ Becomes(id, IF Passes(proposals[id]) THEN "Passed" ELSE "Defeated")

Execute(id) ==
  /\ proposals[id].status = "Passed" /\ now >= proposals[id].after
  /\ Becomes(id, "Executed")

Cancel(id) == proposals[id].status = "Active" /\ Becomes(id, "Cancelled")

-----------------------------------------------------------------------------
(* Quadratic voting: finalize(), cancel_proposal() and mint() are as above *)

SetPaused(b) ==
  /\ settings # None /\ paused' = b
  /\ UNCHANGED <<settings, balance, supply, delegate, proposals, wasm, pending, now, allowed>>

Whitelist(h, allow) ==
  /\ settings # None /\ ~paused
  /\ allowed' = IF allow THEN allowed \cup {h} ELSE allowed \ {h}
  /\ UNCHANGED <<settings, balance, supply, delegate, proposals, wasm, pending, now, paused>>

CreateProposal(period) ==
  /\ settings # None /\ ~paused /\ Len(proposals) < MaxProposals
  /\ proposals' = Append(proposals,
       [status |-> "Active", votes |-> [c \in Choice |-> 0], snapshot |-> supply,
        end |-> now + period, voters |-> {}])
  /\ UNCHANGED <<settings, balance, supply, delegate, wasm, pending, now, list>>

\* integer_sqrt(): Newton's method, from above, while it still descends.
IntegerSqrt(n) ==
  LET from[x \in 1..n] == LET y == (x + n \div x) \div 2 IN IF y < x THEN from[y] ELSE x
  IN IF n = 0 THEN 0 ELSE from[n]

CastVote(h, id, c) ==
  /\ ~paused /\ h \in allowed /\ c # "Abstain"
  /\ proposals[id].status = "Active" /\ now <= proposals[id].end
  /\ h \notin proposals[id].voters /\ balance[h] # 0
  /\ proposals' = [proposals EXCEPT ![id].voters = @ \cup {h},
                                    ![id].votes[c] = @ + IntegerSqrt(balance[h])]
  /\ UNCHANGED <<settings, balance, supply, delegate, wasm, pending, now, list>>

-----------------------------------------------------------------------------
(* Upgrades *)

\* A second schedule replaces the first.
ScheduleUpgrade(w, delay) ==
  /\ settings # None /\ delay >= MinDelay
  /\ pending' = [wasm |-> w, after |-> now + delay]
  /\ UNCHANGED <<settings, balance, supply, delegate, proposals, wasm, now, list>>

ExecuteUpgrade(w) ==
  /\ pending # None /\ pending.wasm = w /\ now >= pending.after
  /\ wasm' = w /\ pending' = None
  /\ UNCHANGED <<settings, balance, supply, delegate, proposals, now, list>>

CancelUpgrade ==
  /\ pending # None /\ pending' = None
  /\ UNCHANGED <<settings, balance, supply, delegate, proposals, wasm, now, list>>

GovernanceNext ==
  \/ CancelUpgrade
  \/ \E w \in Wasm : ExecuteUpgrade(w) \/ \E d \in 0..MaxTime : ScheduleUpgrade(w, d)
  \/ \E h \in Holder :
       \/ \E n \in Amount : Propose(h, n)
       \/ \E to \in Holder \cup {None} : Delegate(h, to)
       \/ \E id \in DOMAIN proposals, c \in Choice : Vote(h, id, c)
  \/ \E id \in DOMAIN proposals : Execute(id)

QuadraticNext ==
  \/ \E b \in BOOLEAN : SetPaused(b) \/ \E h \in Holder : Whitelist(h, b)
  \/ \E period \in 0..MaxTime : CreateProposal(period)
  \/ \E h \in Holder, id \in DOMAIN proposals, c \in Choice : CastVote(h, id, c)

Next ==
  \/ Tick
  \/ \E s \in Settings : Initialize(s)
  \/ \E h \in Holder, n \in Amount : Mint(h, n)
  \/ \E id \in DOMAIN proposals : Finalise(id) \/ Cancel(id)
  \/ Contract = "governance" /\ GovernanceNext
  \/ Contract = "quadratic-voting" /\ QuadraticNext

Spec == Init /\ [][Next]_vars

-----------------------------------------------------------------------------
(* Properties *)

Root(n) == Max({k \in 0..n : k * k <= n})

\* The votes of a proposal are covered by the balances of the holders recorded
\* as voters, or by their square roots: no token is voted twice, whatever chain
\* or cycle of delegates the call went through and whatever was minted since.
VotesCovered ==
  /\ supply = MapThenSumSet(LAMBDA h : balance[h], Holder)
  /\ \A id \in DOMAIN proposals :
       Total(proposals[id]) <=
         MapThenSumSet(LAMBDA h : IF Contract = "governance" THEN balance[h]
                                  ELSE Root(balance[h]), proposals[id].voters)

\* A proposal leaves Active once, its votes are frozen when it does, and it is
\* executed only from Passed.
DecidedOnce ==
  \A id \in DOMAIN proposals :
    proposals[id].status # "Active" =>
      \/ proposals'[id] = proposals[id]
      \/ /\ proposals[id].status = "Passed" /\ now >= proposals[id].after
         /\ proposals'[id] = [proposals[id] EXCEPT !.status = "Executed"]

\* The code changes only to what was announced, no earlier than announced.
UpgradeAnnounced ==
  wasm' # wasm => pending # None /\ pending.wasm = wasm' /\ now >= pending.after
=============================================================================
