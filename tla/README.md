# Verification of soroban-playground

TLA+ models of the parts of soroban-playground whose correctness depends on the
order of events, TLC configurations that check them on small instances, and
proofs, checked by TLAPS, that hold for every value of the constants. Paths
below are relative to the root of the repository.

1. [The system](#the-system)
2. [The models](#the-models)
3. [What is checked](#what-is-checked)
4. [Fairness](#fairness)
5. [What is proved](#what-is-proved)
6. [What the checks found](#what-the-checks-found)
7. [What is not modelled](#what-is-not-modelled)
8. [Plan](#plan)

To run: `tlc -config OracleLock_shared.cfg MCOracleLock` (the module of a
configuration is in PROJECT.json), `tlapm OracleLockProofs.tla`.

## The system

The playground lets a browser write, compile, deploy and call Soroban contracts.
A Node backend (`backend/src`) does the work: routes validate a request and
hand it to a service in `backend/src/services`. Most services are stateless
wrappers around a database, a child process or the network. What is left, and
what can go wrong in an order nobody tried, are the services that coordinate
several callers, workers or processes, and the contracts (`contracts/`), each a
state machine called by accounts that do not trust each other. A Rust indexer
(`indexer/`) and backup tools (`src/`) stand apart.

| Component | State | Operations | Interacts with | Hard behaviour | Correct when |
|---|---|---|---|---|---|
| Oracle lock manager (`services/oracle/lockManager.js`, `backends.js`, `deadlock.js`, `hierarchy.js`) | keys with owner token and expiry in the backend; per manager the tokens and scopes held; per process a wait-for graph | acquire with retries, release, extend, recover stale holds, expiry | consensus takes a submission lock with it; several managers in a process share the detector | expiry of a handle in use, late and lost answers, crashes, waiting in a circle | an unexpired handle is the only one of its key, the bookkeeping agrees, every call ends, orphans expire |
| Oracle consensus (`consensus.js`, `voteStore.js`, `oracleNode.js`, `oracleService.js`) | votes per proof, submission lock, status per proof, retention list | submit a proof, vote, tally, elect, submit, release, record the outcome, evict | lock manager, vote store, submitter | tally and election are not one step, eviction of a proof being voted on, expiry of votes and lock | only what a quorum voted for is submitted, leaders agree, no quorum is missed, outcomes are true, every proof is decided |
| Proof queue (`oracleProofQueueService.js`) | a hash per task; sorted sets pending, processing, completed, dead letter; idempotency keys; per process the active tasks | enqueue, claim, heartbeat, complete, fail, recover, stop, requeue | workers of several processes over Redis, a verifier, an administrator | leases that run out under a worker, copies of a task used after they are stale, requeues that overlap, crash, stop, lost answers | lists and hash agree, one worker at a time, bounded attempts, justified dead letters, each task ends |
| Batch submitter and nonce pools (`batchSubmitter.js`, `noncePool.js`) | queue, flush timer; per account sequence and initialized flag | submit, flush, timer, acquire a number, build and submit an envelope, resync, retry | the ledger, through two functions it is given | overlapping flushes, a first fetch in duplicate, lost answers, resync while others are pending | nothing is stranded, numbers are unique, a retry does not repeat what was done, the pool recovers |
| Multisig wallet (`contracts/multisig-wallet`) | owners by index and as flags, threshold, delays, transactions, confirmations | initialize, add and remove owner, change threshold and delays, submit, confirm, revoke, execute, cancel | calls of accounts, ledger time | settings and owners change while transactions are under way; overflow | quorum and delay are kept, counters exact, the wallet never locks up |
| Compile service (`compileService.js`, workers, sandbox) | queue with an active count, pool of worker threads, artifact cache, Redis lock | compile, post a job, worker answers, fails or exits | worker threads, Redis, cargo | dead workers reused, locks that expire, same source compiled twice | every job ends, no slot leaks |
| Legacy oracle queue (`oracleQueueService.js`, `oracleWorkerPool.js`) | pending list, a processing list per worker, dead letters | push, take, acknowledge, retry, sweep orphans | Redis | the sweeper judges by age | as the proof queue |
| Redis access (`redisService.js`) | circuit state, failure counter, fallback store | calls, open, half-open, close | everything that uses Redis | calls under way when the state changes | closes again after recovery |
| Idempotency (`middleware/idempotency.js`) | a record per key, a sentinel | look up, mark, capture the response, expire | routes | look-up and mark are two steps | a handler runs once per key |
| Caches (`multiLevelCache.js`, `cacheService.js`, `cacheInvalidator.js`) | two levels, fetches in flight | get, set, invalidate | Redis, source of data | a fetch that spans an invalidation | no stale value stays |
| Scheduler (`scheduler.js`) | jobs | start, run, stop | handlers | nothing starts it, and it takes no lock (its `require()` fails in an ES module) | a job runs once per tick |
| Deploy queue (`deployQueue.js`), background queues (`queueService.js`, `workers/`) | jobs | enqueue, process | BullMQ | inside BullMQ | jobs end |
| Synchronisation (`ledgerSyncService.js`, `syncService.js`, `contractEventIndexer.js`) | a cursor in the database | fetch, write | Horizon, RPC | overlapping runs | cursor and data agree |
| RPC manager, deployment, invocation | endpoints and their health | choose, call, retry | RPC, CLI | failures in a row | a healthy endpoint is used |
| Indexer (`indexer/src`) | ledgers, events, quorums, reputations in Postgres | follow ledgers, roll back, fill gaps, vote | RPC, GraphQL | reorganisation; a vote is read and then written | no gap, no ledger twice, one decision |
| Exchanges (`amm-pool`, `nft-amm`, `dex-aggregator`, `limit-order-book`, `prediction-market`, `perpetuals`) | reserves, shares, orders, positions, fees | add and remove liquidity, swap, trade, match, liquidate, resolve | accounts, ledger time | rounding over long sequences, fees and settings that change in between | value of shares, products of reserves and priority are kept, payouts are covered |
| Money and credit (`stablecoin`, `synthetic-assets`, `lending-*`, `loan-syndication`, `options*`, `yield-farming`, `yield-optimizer`, `staking*`) | balances, debts, collateral, rates | mint, burn, borrow, repay, accrue, move, claim, liquidate | oracle prices, accounts | accrual between calls, partial repayments, whose money pays | what is owed is there, totals are the sums of their parts |
| Custody (`escrow`, `cross-chain-bridge`, `nft-fractional`, `reit`, `tokenized-reit`, `real-estate`, `index-token`, vesting contracts, `charity-tracker`, `dao-treasury`) | deposits, shares, schedules, approvals | lock, confirm, refund, bid, release, claim, approve | accounts, relayers, validators, ledger time | a confirmation races an expiry, settings and members change meanwhile | each deposit ends once, held is what is owed |
| Decisions (`governance`, `quadratic-voting`, upgrade contracts, `patent-registry`) | proposals, votes, pending upgrades | propose, vote, delegate, finalise, execute, roll back | accounts, ledger time | votes count balances that change | no token counts twice, decided once, announced before |
| Oracles and what relies on them (price, weather, sports and supply chain oracles, insurance and betting contracts, `supply-chain`, `energy-trading`, `data-marketplace`) | reports, confirmations, policies, bets, licenses | report, aggregate, confirm, claim, bet, resolve | reporters, accounts, ledger time | reports age, sources come and go between them | aggregates within the reports, records verified by the threshold, what is paid for is given |
| Remaining contracts (about 60) | a balance, a flag, a record | per contract | accounts | little | access |
| Everything else (front ends, authentication, rate limits, webhooks, backups, database) | configuration, I/O | | | | |

## The models

Each component has a module with its state, one action per stretch of code
between two awaits (or per contract call, or per Redis script), its assumptions
on constants and its properties; an `MC` module that defines instances (one for
all contracts and services together); and, where theorems are proved, a `Proofs`
module. Services composes four services of the backend, and Sums has the lemmas
about sums over finite sets. TaskLifecycle is the abstract specification ProofQueue
implements. PROJECT.json lists, definition by definition, the lines each one
stands for.

Shared conventions. JavaScript runs a continuation to the next await without
interruption, so that stretch is one action; two awaits apart, anything may
happen in between. A Lua script, a MULTI, a SET NX or a contract call is one
action. What a caller keeps across an await (an answer, a copy of a task, a
number) is a variable. Faults (a lost command, a lost answer, a crash, an
expiry before its time) are actions guarded by the bound `MaxFaults`, so a run
meets every placement of that many faults. Variables described as "history"
record what happened for the properties; no guard reads them.

**OracleLock.** `store` and `left` are the backend (key to token, time to
live); `heldByOwner`, `heldScopes` are a manager's maps; `holders`, `waitsFor`
the detector's. Every `acquire()` draws a new token, so a token stands for the
call and for the handle it returns, and `pc[o]` says where the call is.
`Acquire` checks the rank order, `TryAcquire` is the SET NX in the backend,
`TryAcquireError` the rejected command (executed or not), `Contended` declares
a wait and retries until `MaxAttempts`, `Acquired` books the lock. `Release`,
`Released` and `ReleaseError` are the three parts of `release()`; `Extend`,
`RecoverInspect` and `RecoverForget`, `Tick` and `Crash` the rest. Backoff
delays are left out: a retry may come at any time.

**OracleConsensus.** `votes` is the vote store; a node goes through `Validate`,
`PutVote`, `QuorumReached` or `QuorumPending`, `ElectLeader` (with the second
tally of the code), `Submit`, `ReleaseLock` or `FailRelease`, which the node
swallows: it is the leader, and the lock stays until it expires. `StoreError` is
any other of these calls failing. `SubmitProof` tracks a proof and evicts the
oldest one with its votes. `stage` is where the service's own promise stands:
when all nodes have settled, `SettleNodes` records "submitted" if one of them is a
leader; otherwise a last tally is asked for, which is recorded (`RecordTally`) or
fails (`FailTally`: the catch of `submitProof()` sets "failed"). The submission
lock is the key of OracleLock asked for once: a variable that may expire.

**ProofQueue.** `status`, `workerId`, `attempts` are the hash of a task,
`pending`, `processing`, `deadLetter`, `completed` the sorted sets, `expired`
the members of `processing` whose score has passed. `EnqueueCheck` and
`EnqueueWrite` are the two halves of an idempotent enqueue. `Claim` is the
script; `ClaimLost` the script whose answer does not arrive. A worker verifies,
then `Complete` or `Fail`, with the errors of either (`CompleteError`,
`FailError`). `Heartbeat` renews the lease. Recovery lists the expired leases
(`RecoverStart`), reads one task (`RecoverRead`) and writes its decision
(`RecoverWrite`), and the task may have changed in between. `StopWorkers`,
`RequeueActive`, `Exit` are a process that stops or dies. `RequeueRead` and
`RequeueWrite` are the two halves of an administrator's requeue. Nothing serialises
requeues: when a second one reads the dead letter of a first one that has not
written yet, the task is put in the history `doubled` (and a fault is counted, as
a bound), and the later write resets the task in whatever state it is by then. A
claim may take any waiting task: order and backoff are abstracted.

**TaskLifecycle** is what a queue with retries promises of a task: from new to
queued, to processing, and from there to completed, retrying or dead letter;
completed at most once, put back only by hand, an attempt counted per start. Two
requests that meet on a dead letter (`Meet`) void the promise for that task: it may
then be put back from any state.

**BatchSubmitter.** `queue`, `timer` and `drains` are the submitter's queue,
its flush timer and the batches that running flushes await; `sequence` and
`initialized` are the pools; `pc`, `attempt`, `number`, `got` where each
transaction's retry loop stands. The ledger is outside the code: it accepts
only the next number of an account, an answer may be lost (`Lose`), and an
envelope whose answer was given up may still arrive (`ArriveLate`). Errors of
the first fetch and of the envelope builder reject without a retry, as in the
code.

**MultisigWallet.** Every call that can succeed is an action; a call that
errors or panics changes nothing. `ownerAt` and `isOwner` are the two storage
forms of the owners, `confirmed` the flags, `tx` the records with their
counters. `MaxStamp` stands for the largest u64: additions beyond it panic
(overflow checks are on in the release profile), so the call that needs them
does not succeed.

**The contracts.** A contract runs one call at a time, and a call that errors
or panics changes nothing, so each call is one action whose guard is the
conjunction of the call's checks. Callers are accounts that do not trust each
other: any account makes any call with any argument of the instance, and the
host's authorisation of callers is left out except where roles are state. Time
is `now`, moved by `Tick`. Records are sequences indexed by id. Storage that
expires (rent) is left out. A module with a `Contract` constant models several
contracts that share their state or their arithmetic; an action that only some
of them have is guarded by their names.

| Module | Contracts | What its properties say |
|---|---|---|
| Escrow | `escrow` | the contract holds exactly the unsettled swaps; milestones are worked on one by one; the counters agree; what is settled stays |
| Amms | `amm-pool`, `nft-amm` | no call takes value from the providers who stay, and no reserve is emptied; volatility stays a fraction; tokens and NFTs held are those of pools and fees; a deactivated pool is closed |
| PredictionMarket | `prediction-market` | every share is backed by locked collateral before and after resolution; trades do not lower the product; promises are within the stakes |
| Stablecoin | `stablecoin` | the peg module's vault covers its debt; the debt stays within the ceiling |
| Leverage | `perpetuals`, `synthetic-assets` | the virtual market stands where the open positions put it; a position that ended is not traded back, charged or liquidated again; supply is the debt of positions; only profits are paid from others' collateral |
| YieldStrategies | `yield-farming`, `yield-optimizer` | totals cover the users' balances and count no more than the deposits; a move takes a whole portfolio and nothing else, and loses nothing; weights make a whole |
| OptionsProtocol | `options-protocol`, `options` | locked margin is that of the options; an option ends once; cash options never pay beyond their writer's margin |
| CrossChainBridge | `cross-chain-bridge` | a deposit is minted or refunded, never both; totals and votes are those of the deposits |
| NftFractional | `nft-fractional`, `reit`, `tokenized-reit`, `real-estate`, `index-token` | the vault holds the standing bid or what is left of the proceeds; a claim does not lower the other shares; shares sold are held |
| DexAggregator | `dex-aggregator`, `limit-order-book` | a quoted route delivers its quote; swaps keep products; no trade passes over an order ahead, and the book is not left crossed |
| Governance | `governance`, `quadratic-voting` | votes are covered by the voters' balances (or roots); decided once; code changes as announced |
| ParametricInsurance | `parametric-insurance`, `crop-insurance`, `insurance-protocol` | the reserve is the coverage of open policies; a policy ends once; claims are decided by their votes |
| StakingDerivatives | `staking-derivatives`, `staking` | shares and queue add up; nobody leaves with more than came in at a given rate |
| Vesting | `token-vesting`, `vesting`, `vc-vesting` | what is held is what is not released; releases follow the schedule; votes are within the weights |
| PriceOracles | `price-aggregator`, `price-feed-aggregator`, `oracle`, `insurance-oracle` (prices), `twap-oracle` | the price is within the fresh reports and follows a majority; stored prices move by steps within the breaker |
| DataOracles | `weather-data-oracle`, `weather-oracle`, `supply-chain-oracle`, `supply-chain-data-oracle`, `sports-results-oracle`, `insurance-oracle` (records) | records are verified by the threshold of the moment and then stay; trails only grow |
| SportsBetting | `sports-betting`, `sports-prediction-market`, `sports-prediction` | what every market owes is there; a decided market stays decided |
| Upgrades | `proxy-pattern`, `upgradeable`, `migration-utils` | versions and rollbacks are recorded once; a delay passes between upgrades; a batch executes whole or not |
| Credit | `lending-protocol`, `lending-pool`, `loan-syndication` | totals are those of the positions; no position gets into reach of a liquidation; loans do not draw on each other; senior lenders come first whatever the order of claims |
| Marketplaces | `energy-trading`, `data-marketplace` | trading makes no energy; an order ends once; statistics of both sides agree; paid access is kept |
| Registries | `patent-registry`, `supply-chain` | counts agree with records; a release touches its own escrow; each violation is charged once, to an agreement in force |
| Treasuries | `charity-tracker`, `dao-treasury` | raised is the sum of donations; a milestone is paid once, within its target; approvals are counted right whoever came and went; each payment once, in its window |

**CompileService.** `queue` and `active` are the service's, `idle` the pool's
stack of threads, `lock` the key of a source in Redis, `artifacts` what any level
of the cache holds. `Submit` is `compileQueued()`, `Pump` the slots it gives. A job
that cannot be prepared fails and gives its slot back (`PrepareFails`); any other
looks for an artifact (`CacheHit`, `Miss`, `MissWithoutRedis`), takes the lock or
finds it taken and sleeps (`TakeLock`, `LockTaken`, `Wake`), is posted to a thread
(`Post`), is answered (`Answer`) or loses its thread (`WorkerDies`, whose exit is
reported later, `WorkerExits`), deletes the lock (`Unlock`, which also runs the job
again after a failure) and gives back its slot (`Settle`), whereupon what it knew of
its run is gone (`Forgotten`).

**IdempotencyKey.** One key: `rec` is its record in Redis and in the memory that
serves while Redis is away, `current` the store in use. `Read` and `Mark` are the
two commands of a look-up, `Conflict` and `Replay` the answers of the middleware,
`Respond` the handler's, `StoreResponse` and `ClearSentinel` what follows it
without being awaited. `Flip`, `Expire` and `Crash` are the faults.

**CacheLevels.** One key under one tag; a value is the version it was fetched
from. `l1`, `inflight`, `localTag` are a process's, `l2` and `index` Redis's. A
reader goes through `Get`, `AskL2`, `FillFromL2`, `Fetch`, `Share`, `Fetched`,
`StoreL2`, `Index`; a purge through `Scan`, `Members`, `DeleteKey`, `Untag`,
`Publish`, and other processes `Apply` its message or `Lose` it. The data change
(`Write`) and entries expire at any time.

**OracleQueue.** `pending` is the list, `processing` the lists of the workers,
`data` the hash of a task, which `updateTaskState()` reads (`ReadTask`) and
overwrites (`WriteTask`). A worker goes through `Take`, `Look`, `Prove` or `Fail`,
`Retry`, `Remove` or `Return`; a sweeper through `Spot`, `Judge`, `Move`. `Fail` is
anything that throws in the try block of `handleTask()`: the proof, a read or a
write of the task's state, the command that takes an ended task off the list,
executed or not. An error in the catch block ends the worker's loop and is part of
`Crash`. Time is two facts of a task: not updated for five minutes, past its deadline.
Each becomes true at any time, but only while somebody is about to look at it: what
the clock shows otherwise nobody can tell.

**Services** composes these four. They do not call each other, so a behaviour is
the steps of the one that `component` names, and the others stay as they start.
Its constants are those of the four modules, under the assumptions that their
proofs need; where two modules use one name for a variable (`pc`, `lapses`) each
has its own here (`jobPc`, `lockLapses`, ...). `DoneOnce` and `AnswersGenuine`
gather what the four promise.

**MCComponents** runs the contracts and Services. A behaviour is again the steps
of one component; `s1`, `s2`, ... are the variables of the contract that runs, in
the order in which its module declares them, and each is an `INSTANCE` with its
constants (some have two or three, where small instances reach what one large one
would). A step or a property is looked up in the contract's family first (`Exchanges`,
`Wagers`, ...), which only saves time. In a module of several contracts the constants of the one that does not
run are empty. The contracts' properties are gathered in four families, and each
family lists what it means for which contract.

## What is checked

Each run answers one question. The bounds are small, and chosen so that every
action fires and the collisions that matter happen.

| Run | Instance | States | Question |
|---|---|---|---|
| `lock_shared` | two tasks with a manager each in one process, two keys of different rank, three calls, two attempts, time to live of one tick, one fault | 671 289 | `HeldMeansOwned`: an unexpired handle owns its key, through any release, recovery or late answer of others. `TrackingAgrees`: manager and detector. `NoDeadlockReport`: the cycle branch is never taken. `RankOrder`: locks are taken in descending rank. `RecoveryIsSafe`: a recovery acting on an old answer never drops a token that owns its key |
| `lock_live` | two processes, one key, two calls, time to live of two | 4 033 | `AcquireEnds`: each call ends. `OrphanExpires`: an entry nobody will release goes away |
| `consensus_votes` | four nodes (one of weight two), two votes, threshold three, two faults | 1 928 086 | `SubmittedHadQuorum`, `Agreement`, `LeaderHoldsLock`, `OutcomeMatchesSubmission`, `QuorumIsSeen` |
| `consensus_evict` | two nodes, two proofs with room for one, two faults | 262 025 | `ProofDecided` when a proof is evicted during its vote, when its lock is left behind by a failed release and when its last tally fails |
| `queue_safety` | two requests of one key, two processes with a worker and a recovery each, two administrators whose requeues may overlap, one retry, one fault | 1 181 677 (up to symmetry) | `ListsAgree`, `ExclusiveUnlessLapsed`, `AttemptsBounded`, `DeadLetterJustified`, `DuplicatesOverlap`, and the refinement `KeepsLifecycle` |
| `queue_live` | one task with a deadline, two workers in one process, a second process that recovers, two administrators, two faults | 577 496 | `TaskEnds`: an accepted task is completed or given up |
| `batch_calls` | two transactions of one account, batches of two, two attempts | about 428 000 | `QueueIsWatched`, `ExecutionsAccounted`, `SameNumberOnlyRewound`, `LoneTransactionSucceeds`, `EveryCallEnds` |
| `wallet_calls` | three accounts, any initial owners and threshold, two transactions, delays 0 and 2, time up to 2, largest stamp 3 | 619 491 | `OwnersDense`, `QuorumReachable`, `CountsMatch`, `DelayRespected`, `PendingCanProceed`, `Settled` |
| `component_steps` | Services with three compile jobs of two sources on two threads, two deaths and an expired lock; three requests of one key with a change of store, an expiry and a crash; two readers of one process, with a purger in it and one in another process, of one cached key with two versions and one purge; one oracle task, two workers, a sweeper, a retry, a crash. And 72 instances of 54 contracts, one to three accounts each, amounts and time of a few units | 1 546 172 | `DoneOnce`: slots and threads of the compile service are exact, its lock excludes while it lives and a build is repeated once, after a death only; two handlers of one key succeed only if their look-ups overlapped or a record lapsed; a process fetches once for all; no task is lost, and it is in one list unless a live worker was judged dead. `AnswersGenuine`: artifacts, replays, sentinels, cached values and dead letters have the cause they claim. `FundsBacked`: a contract holds what it owes. `RecordsAgree`: what it counts twice agrees. `SettledOnce`: what ended stays so. `ValueKept`: no call takes value from those who do not take part |
| `consensus_once`, `queue_stranded`, `batch_unique` | | | violated on purpose, see [below](#what-the-checks-found) |

Why the bounds are enough. *Locks*: collisions are pairwise, between a call and
the one that replaced it; three calls let one task hold a key, ask for a second
one and meet the other task's. *Consensus*: four nodes with unequal weights are
the smallest set with quorums of different sizes (a heavy node and one other, or
three light ones) and with a losing vote; two proofs with room for one give each
eviction; two faults leave a lock behind and then let the last tally fail. *Queue*:
the collision is between a worker, its replacement and one recovery that acts on an
old copy, or between two requeues of one task and the worker that takes it in
between; one fault makes a lease lapse or two requeues overlap, two strand a task.
*Submitter*: collisions of numbers are pairwise; three transactions of one
account exceed twenty million states, and the safety properties are proved for
any number. *Wallet*: three owners let the swap move an owner that is neither
first nor last; with delays 0 and 2, time up to 2 and a largest stamp of 3, a
delay passes at once, later, or overflows. *Contracts*: one or two accounts beside
the one that acts, so that a loss has somebody to fall on; two or three amounts,
so that a division rounds; scaling factors of 2 to 10 in place of 10 000 or more,
so that rounding is coarse and its errors are as large as they get; two steps of
time, so that a deadline is met, passed and just missed. The limits named `Max...`
cut long sequences, not kinds of calls: between the instances of a module every
action that can succeed fires (the calls of `Credit` that liquidate never do), and
where one bound hides a case another instance has it. Of
`prediction-market`, for example, one instance has two accounts that trade in one
pool until it is resolved, with a dispute or without; a second has two pools that
share a balance, one resolved while the other still waits; and a third has the
stakes of three accounts. *Services*: collisions are
between a job and the one that finds its lock or its thread, a request and the one
that overlaps its look-up, a reader and a purge of another process, a worker and
the sweeper that thinks it dead; the instances have each with one actor to
spare where their size allows it. Symmetry is used for the accounts of
the wallet, and for the tasks, administrators and processes of `queue_safety`, in
runs without liveness properties.

Deadlock is checked for the submitter, where `flush()` can always be called, and
for the wallet, where some call succeeds in every state. The other runs, `component_steps` among them, end when the bounded calls are
used up and say so with `CHECK_DEADLOCK FALSE`.

## Fairness

Safety runs use none. The live runs assume:

- `lock_live`: answers arrive (or fail), retry timers fire, the backend's clock
  runs. Nothing is assumed of releases: a holder may never release.
- `consensus_evict`: calls of the validator, store, lock backend and submitter
  return, with a value or an error (`oracleNode.js` catches each), and the
  service resumes when all nodes have settled (`Promise.allSettled`); its last
  tally returns too, with votes or with an error.
- `queue_live`: the loops that `startWorkers()` starts go on, in processes that
  have not stopped; calls return; a lease without heartbeats runs out; a worker
  loop eventually wins a claim. Nothing is assumed of crashes, and nothing of
  the administrators' reading, but a requeue that was begun is written.
- `batch_calls`: the event loop runs due timers and continuations, and the two
  functions given to the submitter end. Callers may never call, and an envelope
  given up may never arrive.

All are weak fairness of single actors: no step depends on being chosen while it
is enabled only now and then.

## What is proved

The theorems hold for any sets of tasks, processes, nodes, accounts and keys and
any bounds, under the assumptions each module states on its constants. Every
module's proof has the same outline: an inductive invariant `IInv` (in
BatchSubmitterProofs, `Core` and the invariants built on it; in ServicesProofs one
for each service), a lemma that the
initial states satisfy it, a lemma per action and part that a step preserves it,
and theorems `Spec => []P` that combine them. Where the invariant checked by
TLC is not inductive, the extra parts say what it silently relies on.

**OracleLockProofs** (`LockAssumption`). `HeldMeansOwned` alone is not
inductive: a step of another token could remove the entry unless one knows that
tokens are fresh, that what a call keeps across an await belongs to its own key,
and that a stale answer names a token that has lost its key. `CallsOK`,
`TrackedOK`, `ScopesOK`, `HoldersOK`, `EdgesOK`, `StaleOK` and
`SequentialTasks` say so. Theorems: `Typing`, `Exclusion`, `MutualExclusion`
(two unexpired handles never share a key), `Tracking`, `DetectorSilent`,
`DescendingRank`, `InversionFree`, `SafeRecovery`.

**OracleConsensusProofs** (`ConsensusAssumption`). `QuorumSubmits` needs that
what the store holds was cast (`VotesOK`) and that a vote seen to reach the
threshold had a quorum then (`QuorumOK`); quorums do not get lost because
history only grows. `TrueOutcome` needs that settled nodes stay settled
(`ProgressOK`), and that the last tally, which may fail, is asked for only when no
node is or will be a leader (`StageOK`). `QuorumSeen` speaks of the end of a proof, so what leads there is
in the invariant (`UndisturbedOK`): as long as no fault or eviction has touched
the proof, the store has every vote cast; once the votes cast reach the threshold
some node has put its vote and not yet looked, or has seen the quorum; and a node
that found the lock taken has a leader. The step that matters is the last vote of
a quorum: its voter looks after its own put, so it sees them all. `TypeCorrect` is
the type invariant of the runs, with the bound of the retention. `LeadersAgree` has one more assumption,
`MajorityThreshold`: any two sets of nodes that reach the threshold share a node.
`MajorityAgrees` derives it from numbers, `2 * Threshold > Weight(Node)`, which
the default of the service (3 of 5) satisfies: sets without a common node weigh
together what their union weighs. The service enforces neither (the threshold is
an option), and without it two halves of the nodes may submit different votes.

**ProofQueueProofs** (`QueueAssumption`, for any number of administrators). The
invariant says what each actor's stale copy may still differ in: a recovery that is
about to write, a worker that has lost its lease, an administrator that has read.
What an administrator holds is a dead letter that nobody else holds, or it is in
`doubled`; so the only tasks a requeue resets in another state are those that two
requeues held together. Of them the theorems claim less, and say what: such a task
may stay on the list it was on (`ListsAlwaysAgree`) and be worked on twice
(`WorkIsExclusive`); its attempts are bounded like any other's
(`AttemptsAreBounded`). `ImplementsLifecycle` proves that initial states map to initial
states of TaskLifecycle and that every step maps to a step or a stutter.

**BatchSubmitterProofs** (`SubmitterAssumption`). `QueueNeverStranded` is
inductive with types and `AttemptsLeft`; `NoUnexplainedExecution` needs the
envelopes that may still arrive to be counted with the executions;
`PoolNeverRepeats` that a pending number not rewound is behind the sequence;
`PoolRepairsItself` what an undisturbed transaction knows of ledger and sequence
at each point of its loop.

**MultisigWalletProofs** (`WalletAssumption`). `OwnersDense` and `CountsMatch`
meet cardinalities of sets that grow and shrink by one; `SizeOK` ties the stored
count to the flags and the threshold. Theorems: `ListAlwaysDense`,
`NeverLocked`, `CountersExact`, `QuorumForWholeDelay`, `NoDeadEnd`,
`SettledForever`.

**ServicesProofs** (`ServicesAssumption`). Each service has an inductive invariant
of its own, and `EachKeepsItsSpecification` shows that the composition implements
all four specifications, so that theorems about one hold of the whole.
`NothingIsDoneTwice` and `EveryAnswerIsGenuine` state the two invariants of
`component_steps`.

- *CompileService* (`JobsInv`): the queue has each waiting job once and the counter
  counts the others under way (`JobsSlots`); each thread is on the stack once or
  has one job, also between the stack being read and written back (`JobsPool`); a
  mode tells how often a job was posted and that a second time follows a death
  (`JobsProgress`); a lock names one of the jobs that run under it, the only one
  until a lock expires (`JobsLock`). Theorems: `SlotsAreExact`,
  `PoolIsConserved`, `LocksExclude`, `OneRepeatAfterDeath`, `HitsAreBuilt`.
- *IdempotencyKey* (`KeysInv`): `OneSuccess` is not inductive until the record is
  known to show what happened to the key (`KeysRecord`): the sentinel while one
  handler is at work, the response of the only request that was stored after it.
  Theorems: `OneHandlerSucceeds`, `OnlyGenuineReplays`, `SentinelIsAnswered`.
- *CacheLevels* (`CacheInv`): nothing older than the floor of a purge is in Redis
  or in the hands of any reader once the purge has scanned, and the same holds of
  the floors in messages under way and of those applied (`CacheFloors`); without
  it the next fill of L1 could bring back an older version. Theorems:
  `PurgesReachProcesses`, `OneFlight`.
- *OracleQueue* (`TasksInv`): a task that was enqueued is listed or held until
  ended, also while its state is being written (`TasksKept`); retries that are
  stored, read or about to be written are failures that happened and not still in
  a worker's catch block (`TasksRetries`), which is what makes a dead letter
  justified although two copies of a task may overwrite each other; and as long
  as the sweeper judges rightly a worker at work is alone with its task, which is
  neither pending nor in another worker's list (`TasksAlone`), so that a task is in
  one list only (`TasksSingle`). That the task is in its own list cannot be asked:
  a worker that has removed it may still fail and try to put it back. Theorems: `TasksAreKept`, `TasksAreSingle`,
  `DeadLettersJustified`.

The assumptions are what the code gives: each job has a source, the pool has at
least one thread, the sentinel is no response, readers belong to a process,
workers and sweepers are different loops, and "nothing" is not a member of the
sets. None bounds the number of jobs, requests, processes, workers or tasks, except
that jobs and workers are finite sets.

**Sums** proves what a sum over a finite set does when an element leaves, when
sets are joined, and that it grows with the set. The library's induction theorems
take an operator as a parameter, which the provers cannot instantiate, so its
lemmas argue by a minimal counterexample among the subsets of the set, which the
well-foundedness of strict inclusion provides. OracleConsensusProofs uses it for
the weights of quorums. Its last sections are about a step that moves one element
into or out of a set, or changes its weight, which is what a call of a contract
does to its records (`SumMoves`, `CardinalityMoves`), and about shares that are
rounded down: shares of `n` in proportion to weights that make up `p` are together at
most `n` (`SharesCovered`). Two lemmas add and compare sums over one set (`SumPlus`,
`SumBelow`), for claims that are counted per lender and per tranche.

**ContractsProofs** is about fourteen contracts in nine modules, with an
assumption for each; it instantiates the modules, and its
theorems bound neither accounts, records nor calls. What the assumptions ask is
what the contracts check when they are called (an amount is positive, a fee is a
part of the amount), what is a constant of the code (basis points and
scales are positive), and that accounts are finite sets.

- *Escrow* (`SwapsInv`, `EscrowsInv`, `OrderInv`): per token, what is held is the sum of the
  offers of live swaps and the requests of funded ones. The counters are proved
  with a fact that no property states: what is locked covers the deposits of all
  escrows that run, so that no `saturating_sub` cuts anything off. That work goes
  milestone by milestone needs the total of an escrow to be the sum of its
  amounts: when the last one is paid the escrow ends, so there always is a next one.
  Theorems: `SwapsStayBacked`, `EscrowCountersAgree`, `EscrowWorkInOrder`,
  `EscrowsStaySettled`.
- *CrossChainBridge* (`DepositsInv`, `VotesInv`): what was locked is what was
  minted, refunded or is pending; a deposit keeps its deadline, so the windows of
  mint and refund exclude each other although the settings change; a vote outlives
  its validator, which is why the count is compared with the votes and not with
  the validators. Theorems: `BridgeAccountsForDeposits`,
  `BridgeDepositsEndOnce`, `BridgeCountsVotes`.
- *Treasuries* as `dao-treasury` (`SignersInv`, `PaymentsInv`): approvals are
  those of addresses that approved, also when these are signers no more, and as the
  threshold is at least one a queued payment has one. Theorems: `TreasuryCountsApprovals`, `TreasuryPaysOnce`.
- *SportsBetting* as `sports-betting` (`BetsInv`): of an open market the pools are
  the stakes on their outcomes, so that once it is resolved the winners' stakes make up
  the pool that their payouts are divided by. Then the payouts, each rounded down,
  are together within the total less the fee (`SharesCovered` of Sums), and each claim
  lowers what is owed by what it takes; hence no order of claims leaves
  the last one short. Theorems: `SportsBetsBacked`, `SportsMarketsStay`.
- *Stablecoin* (`StablecoinInv`): a fee is a part of what is swapped, so that a swap
  never issues, and a redemption never pays, more than comes in; balances and the
  reserve stay natural numbers. Theorems: `VaultStaysCovered`, `CeilingIsKept`.
- *Credit* as `lending-protocol` or `lending-pool` (`LendingInv`): every
  position covers its debt by the ratio the contract borrows at, which is more than
  the one it liquidates at. Hence no liquidation happens, and the totals agree; a
  liquidation would break them. Theorem: `LendingPositionsCounted`.
- *Credit* as `loan-syndication` (`SyndicationInv`): the invariant has to know of
  a loan that nobody takes anything before it has ended and nobody more than his
  portion after, and that a drawn loan is funded to its targets. Portions are rounded
  down twice, from the loan to the tranche and from the tranche to the lender;
  that they are together no more than is left of the loan is `SharesCovered` for
  each tranche. Theorems: `SyndicatedLoansBacked`, `SeniorsFirst`.
- *NftFractional* as `nft-fractional` (`VaultInv`): what is held is the standing
  bid or what is left of the proceeds, and as long as nothing is sold there are shares.
  A claim takes at most its part, rounded down, and the last one takes the
  rest, so what the other shares are worth never falls, which is a statement about
  products of unbounded numbers. The vault's own address is assumed
  not to be a user. Theorems: `VaultSharesBacked`, `OtherSharesKeepValue`.
- *ParametricInsurance*, all three contracts (`ReserveInv`, `CropInv`, `ClaimsInv`,
  together `InsuranceInv`): the reserve is a sum over the crop policies that are
  open, a set that loses an element on each of three paths; a claim's count is that of its
  voters, none of whom is its holder, and it is decided after the window as the
  votes stand. Theorems: `ReserveCovers`, `ClaimVotesCounted`, `InsuranceEndsOnce`.
- *OptionsProtocol*, both contracts (`MarginInv`, `CashInv`, together `OptionsInv`):
  of each writer the locked part is the sum of the margins of the writer's options,
  within the balance; the margin of an option never exceeds the payout agreed, and one
  that ended has none. In the options contract what the total margin is short of the
  balances lies between nothing and the premiums of what is sold, on which a
  subtraction that stops at zero can only narrow the difference. Theorems:
  `MarginStaysBacked`, `OptionsEndOnce`.

These are the parts of `RecordsAgree`, `FundsBacked`, `SettledOnce` and `ValueKept`
that are about these contracts, except `StakesAccounted` of SportsBetting.

Only model-checked: all liveness properties (fairness and ENABLED are beyond the
prover), `FundsBacked`, `RecordsAgree`, `SettledOnce` and `ValueKept` as wholes,
because they join all contracts, and with them the parts about the contracts other
than the wallet and those above. Every other invariant of the runs is stated
by a theorem. Of the others, Governance counts votes along chains of delegations,
and what a recursion over such a chain yields is induction over data; the rest
have not been proved yet.

## What the checks found

Three statements of the repository are refuted by the code; each has a run whose
counterexample TLC prints.

- **A proof is submitted more than once** (`consensus_once`). A leader releases
  the submission lock when the submitter returns, and nothing marks the proof as
  submitted. A node whose quorum check comes later takes the free lock and calls
  the submitter again. `oracleService.test.js:46` expects one call. What does
  hold, and is proved, is that the leaders do not overlap and submit the same
  vote.
- **A task can be lost for good** (`queue_stranded`). `recoverStalledTasks()`
  removes an id from `processing` because the task was waiting when it was read.
  If it was claimed in between and its worker dies before the next heartbeat, no
  recovery finds it again. In the instance of `queue_live`, `TaskEnds` shows that
  this is the only way an accepted task is not decided.
- **Two submissions may share a sequence number** (`batch_unique`). Two calls
  of `acquire()` that find the pool uninitialized each fetch; the second answer
  sets the sequence back after a number was taken. `resync()` does the same
  while others are pending. `SameNumberOnlyRewound` shows that the pool has no
  other way to repeat a number.

Other things worth knowing, that no document contradicts:

- The deadlock detector never reports (`DetectorSilent`): a token is drawn per
  call and a waiting call holds nothing, so the graph has no edge into a waiter.
  Circles of waits end by the attempts running out (`AcquireEnds`).
- When the holder of a key changes, the edge of a waiter to an earlier holder can
  stay in the graph; it is harmless as long as no cycle is ever found.
- A burst of proofs beyond the retention deletes the votes of proofs in flight,
  which can then end as `no_quorum` although every node voted for them.
- `startWorkers()`, `stopWorkers()` and `recoverStalledTasks()` of the proof
  queue have no caller outside the service and the tests: in production the
  queue accepts tasks that nothing works on unless another program does.
- Requeues are not serialised (`oracleProofQueueService.js:1147-1180`): the second
  of two that read the same dead letter resets a task that a worker has taken, or
  completed, since the first one wrote. It is worked on again, also after it was
  completed, and stays listed as completed or processing while it waits
  (`doubled` in `ListsAgree`, `ExclusiveUnlessLapsed` and TaskLifecycle).
- A recovery from an old copy, or a stop, may grant attempts beyond the retries
  (`AttemptsBounded` is limited to tasks that never lapsed).
- A lost answer is followed by a second execution with a new number
  (`ExecutionsAccounted` counts it); errors of `acquire()` and of the envelope
  builder are not retried; the route passes stubs for both ledger functions.
- Confirmations of an owner who was removed still count and cannot be revoked.
  Lowering the threshold does not make a pending transaction ready: an owner
  must revoke and confirm again, or another one confirm (`PendingCanProceed`).
  Raising it does not take readiness away. A delay that overflows the clock
  leaves the transaction pending until it is cancelled.

In the four services of `component_steps`, these differ from what a document or
comment says, or are easily overlooked; the models have them as the code does:

- A job that finds the compile lock taken builds beside its holder after 150 ms
  (`compileService.js:152`), where `REDIS_MIGRATION.md:123` has the lock prevent
  duplicate compilations. The lock is deleted without a look at its owner, and
  `cleanup()` offers a thread that has just died to the next job, which may never
  be answered then (`compileService.js:430`).
- Look-up and sentinel of the idempotency middleware are two commands
  (`idempotency.js:278`), so two overlapping requests both run, where its header
  (`:6`, `:14`) promises a conflict. Routes do not mount it.
- The purge of a batch publishes tags without keys (`cacheInvalidator.js:200`), so
  other processes keep their L1 copies, against its header (`:9`). A key remembered
  while a tag is purged loses its place in the set (`:147` against `:95`). An L1
  entry filled from L2 is given a promise as its time to live
  (`multiLevelCache.js:41` against `:125`) and stays until evicted or purged.
- The sweeper of the older oracle queue judges by the time of the last update
  (`oracleWorkerPool.js:196`), not by whether the worker crashed (`:179`). Tasks of
  high priority are pushed to the end that is taken from last
  (`oracleQueueService.js:62` against `:61`). In fallback mode, which a failed command
  of any service sets, `getTaskStatus()` answers null, and `handleTask()` then
  discards the task from the only list it is in (`oracleWorkerPool.js:120-124`); the
  model has Redis in normal mode, so this is read and not checked.

In the contracts, each of these is in the model as the code has it, and the
properties are stated so that they hold with it:

- Money. Transferring a stablecoin to oneself creates tokens
  (`stablecoin/src/lib.rs:584`), its collected fees stay in the vault, and a
  rebase changes the supply but no balance. In `synthetic-assets` the profit of a
  trade is paid from the collateral of others, and a new collateral token changes
  the token of payouts already due. `staking-derivatives` raises its rate with
  nothing added, although its README says fully backed. A `staking` share is worth
  one token whatever is computed, and so is one of `index-token`, where no call
  brings a gain; a pool can be rebalanced once.
- Credit. A liquidation can never succeed in either lending contract; if it did,
  the totals would lose the seized collateral. In `options-protocol` an option
  whose margin falls below its payout cannot be settled. In `options` the premium
  is credited to the writer but not to the total margin, `withdraw_margin()` is
  commented "margin not locked in active options" but nothing is locked, and the
  holder names the settlement price.
- Shares of income. In `reit`, `tokenized-reit` and `real-estate` a claim marks
  only the amount it paid as seen, so it can be repeated, and holders together can
  claim more than was deposited. What is "settled" before a transfer is marked
  and never paid. In the last two a transfer to oneself adds the shares.
- Vesting and donations. Revoking a linear schedule before its cliff panics; the
  milestones of `vesting` are read by no claim; claims of `vc-vesting` are not
  recorded, and finalising pays the whole tranche besides. a milestone of
  `charity-tracker` that is added again is paid again, with its full target
  recorded as released.
- Exchanges. `settle_funding()` of `perpetuals` takes a payment and moves the
  accumulator (`perpetuals/src/lib.rs:373-392`), `update_funding_rate()` moves it
  too (`:317`), and `close_position()` charges what it moved by since the position
  was opened (`:534-547`, "Unpaid funding since open"), settled or not: funding is
  charged twice. The model computes what a close returns in this way, and no
  property promises otherwise. Hops of a swap in `dex-aggregator` need not adjoin, and fees of all
  tokens are one number, as in `nft-amm`. The limit order book scans the first 200
  orders it ever had: later ones never rest, so two that cross can both stay open.
- Votes. A call of a delegator votes the delegate's own balance; the delegator's
  tokens are never counted. The quorum of `quadratic-voting` is a part of the
  supply, but votes are roots, so a large supply may never reach it. In the proxy
  and in `insurance-protocol` voting goes on after its window or twice; viewers of
  the treasury count toward its threshold.
- Oracles. The breaker of the price aggregator stays tripped until reports
  return; a source beyond it can never report again; two distant reports leave
  nothing after the outlier filter. In several record oracles one source may
  confirm repeatedly, its submitter included (`sports-results-oracle/src/lib.rs:160`
  and `:189` say otherwise).
- Insurance and betting. A plain parametric claim may use a reading older than the
  policy. `crop-insurance` pays after the end until somebody expires the policy,
  which does not look at the trigger; its rainfall never grows old. A policy of
  `insurance-protocol` stays active, so its holder cannot buy the product again.
  `sports-prediction-market` finds a position by six characters of an address, so
  two bettors may share one; `update_odds()` is not limited to "before any bets".
- Others. `confirm_mint()` of the bridge needs no proof, and the daily window
  starts anew a day after the last lock. `supply-chain` overwrites the status of a
  recalled product on a violation. Nothing reserves energy that is offered. A buyer
  whose quota is exhausted counts twice in `data-marketplace`.

## What is not modelled

PROJECT.json lists every component with the reason. In the modelled ones:

- OracleLock: backoff delays, metrics; a batch of locks is a sequence of calls. The
  calls of one task are one after the other: two at once would both pass the order
  check (`lockManager.js:71`) before either books its scope (`:181`).
- OracleConsensus: the Redis vote store (the same promises as the memory one),
  the polling of `_waitFor`, signatures, event payloads, and `tryClaimProof`,
  which has no caller.
- ProofQueue: the in-memory mode (tests and local development), order, backoff
  delays, the history in a task, and task ids chosen by clients: a reused id
  overwrites the task it names. The "completed" announcement that follows a
  refused completion is not modelled.
- BatchSubmitter: `clearPool()`, which only tests call; the content of results.
- MultisigWallet: target, value and data of a transaction, the checks of their
  form, the authorisation of callers (the host's), and storage rent.

- CompileService: the state file and its reload at start, the fallback store of
  `setNX`, an idle thread that dies, the sandbox of a build; a batch is several calls.
- IdempotencyKey: the validation of keys and the limit of a body.
- CacheLevels: the mode without Redis, `invalidate()` and `clear()`, which have no
  caller, the expiry of tag sets, and `cacheService.js`, a wrapper of one map.
- OracleQueue: the fallback mode (see above), pipelines that fail without an
  exception, the expiry of task data after seven days, tasks without data, and
  `stop()`.
- The contracts: events, views, storage rent, the authorisation of callers, the
  names and texts of records, and arithmetic overflow (the amounts of the
  instances are far from the limits of `i128`). Prices and Greeks of options,
  fixed-point approximations no call reads, are left out. The tokens and oracles
  that contracts call are external: a transfer succeeds if the balance suffices,
  an oracle answers any value.
- The about 60 remaining contracts keep one balance, flag or record per call, or
  are a smaller member of a kind the suite has; the repayment of `flash-loan` is
  simulated in its code.

Unmodelled components are pure I/O, routing or configuration, too simple to need
a model, or in the plan.

## Plan

Done, in this order: OracleLock (the lock everything in the oracle service rests
on), OracleConsensus (which takes such a lock), TaskLifecycle and ProofQueue,
MultisigWallet, BatchSubmitter; each with runs, mutants and proofs. Then the
contracts, model-checked, and CompileService, IdempotencyKey, CacheLevels and
OracleQueue, composed in Services, with proofs.

Next:

1. **CircuitBreaker** of `redisService.js`, with calls under way when it opens,
   half-opens and closes; OracleQueue in the fallback mode it switches to.
2. **IndexerQuorum** and **LedgerCursor** of `indexer/`: votes read and then
   written, `total_oracles - vote_count` when oracles have left, reputations
   updated once per decision; ledgers rolled back and gaps filled.
3. Liveness of CompileService (every job settles unless it is posted to a dead
   thread) and OracleQueue (every task ends), under fairness of answers, threads
   and sweepers.
4. Composition: OracleConsensus over OracleLock, with the submission lock
   refined to a key of the lock manager, so that `LeaderHoldsLock` follows from
   `HeldMeansOwned`; OracleQueue as a second implementation of TaskLifecycle.
5. Proofs for more contracts, with the lemmas of Sums: Vesting (`SchedulesBacked`),
   Leverage (`MarketMatchesPositions`) and the property and index contracts of
   NftFractional; a run for the shares of income that exceed the deposits.
6. Proofs: OracleQueue implements TaskLifecycle as long as the sweeper judges
   rightly.
