------------------------------ MODULE Upgrades ------------------------------
(***************************************************************************)
(* The three contracts for upgrades: proxy-pattern, which has an             *)
(* implementation, proposals for the next one and a delay between upgrades;  *)
(* upgradeable, which replaces its own code after a timelock; and            *)
(* migration-utils, which keeps the records of migrations, transfers,        *)
(* checks, batches and rollbacks that are done elsewhere.  They share        *)
(* nothing.  An action is a call that succeeds and changes something.        *)
(***************************************************************************)
EXTENDS Integers, Sequences, FiniteSets, SequencesExt, FiniteSetsExt

CONSTANTS Contract,   \* those of the three that are deployed
          Address, Implementation, Delay,  \* arguments of the proxy's calls
          Hash,       \* of migrated data
          MaxProposals, MaxVersions, MaxVotes, MaxTime,                   \* bounds
          MaxMigrations, MaxBatches, MaxOps, MaxChecks, MaxTransfers  \* bounds

VARIABLES proxy,      \* ProxyState, or None
          upgraders,
          proposals,  \* id -> UpgradeProposal, or None
          proposed,   \* ProposalCounter
          versions,   \* number -> implementation and time, or None
          version,    \* VersionCounter
          now,
          self,       \* upgradeable: timelock, pending upgrade and code, or None
          utils,      \* migration-utils: initialized and paused
          migrations, batches, checks, transfers, rollbacks

proxyVars == <<proxy, upgraders, proposals, proposed, versions, version, now, self>>
utilsVars == <<utils, migrations, batches, checks, transfers, rollbacks>>
vars == <<proxyVars, utilsVars>>

None == [none |-> TRUE]
Frozen == 1000  \* u64::MAX as a delay: longer than any time

Init ==
  /\ proxy = None /\ upgraders = {} /\ proposed = 0 /\ version = 0 /\ now = 0
  /\ proposals = [i \in 1..MaxProposals |-> None]
  /\ versions = [i \in 1..MaxVersions |-> None]
  /\ self = None /\ utils = [initialized |-> FALSE, paused |-> FALSE]
  /\ migrations = <<>> /\ batches = <<>> /\ checks = <<>> /\ transfers = <<>> /\ rollbacks = <<>>

-----------------------------------------------------------------------------
(* proxy-pattern *)

Tick ==
  /\ proxy # None \/ self # None
  /\ now < MaxTime /\ now' = now + 1
  /\ UNCHANGED <<proxy, upgraders, proposals, proposed, versions, version, self, utilsVars>>

ProxyState(admin, implementation, delay) ==
  [admin |-> admin, implementation |-> implementation, delay |-> delay, last |-> now]
ImplementationVersion(implementation) == [implementation |-> implementation, time |-> now]
UpgradeProposal(implementation) ==
  [implementation |-> implementation, for |-> 0, against |-> 0, executed |-> FALSE]

\* May be repeated: the counters start again and what they count is written
\* over, but proposals and versions beyond them remain.
ProxyInit(admin, implementation, delay) ==
  /\ "proxy-pattern" \in Contract
  /\ proxy' = ProxyState(admin, implementation, delay)
  /\ versions' = [versions EXCEPT ![1] = ImplementationVersion(implementation)]
  /\ version' = 1 /\ proposed' = 0
  /\ UNCHANGED <<upgraders, proposals, now, self, utilsVars>>

ProposeUpgrade(proposer, implementation) ==
  /\ proxy # None /\ proposer \in upgraders \cup {proxy.admin}
  /\ proposed < MaxProposals /\ proposed' = proposed + 1
  /\ proposals' = [proposals EXCEPT ![proposed'] = UpgradeProposal(implementation)]
  /\ UNCHANGED <<proxy, upgraders, versions, version, now, self, utilsVars>>

\* Anybody votes, and again.
VoteOnProposal(i, favour) ==
  LET p == proposals[i] IN
    /\ p # None /\ ~p.executed /\ p.for + p.against < MaxVotes
    /\ proposals' = [proposals EXCEPT
         ![i].for = IF favour THEN @ + 1 ELSE @, ![i].against = IF favour THEN @ ELSE @ + 1]
    /\ UNCHANGED <<proxy, upgraders, proposed, versions, version, now, self, utilsVars>>

\* A proposal that was executed may be executed again, after the delay.
ExecuteUpgrade(i) ==
  LET p == proposals[i] IN
    /\ proxy # None /\ p # None /\ p.for > p.against
    /\ now >= proxy.last + proxy.delay
    /\ version < MaxVersions /\ version' = version + 1
    /\ versions' = [versions EXCEPT ![version'] = ImplementationVersion(p.implementation)]
    /\ proxy' = [proxy EXCEPT !.implementation = p.implementation, !.last = now]
    /\ proposals' = [proposals EXCEPT ![i].executed = TRUE]
    /\ UNCHANGED <<upgraders, proposed, now, self, utilsVars>>

AuthorizeUpgrader(a) ==
  /\ proxy # None /\ upgraders' = upgraders \cup {a}
  /\ UNCHANGED <<proxy, proposals, proposed, versions, version, now, self, utilsVars>>
RevokeUpgrader(a) ==
  /\ proxy # None /\ upgraders' = upgraders \ {a}
  /\ UNCHANGED <<proxy, proposals, proposed, versions, version, now, self, utilsVars>>

SetDelay(delay) ==
  /\ proxy # None /\ proxy' = [proxy EXCEPT !.delay = delay]
  /\ UNCHANGED <<upgraders, proposals, proposed, versions, version, now, self, utilsVars>>
UpdateUpgradeDelay(delay) == SetDelay(delay)
EmergencyPause == SetDelay(Frozen)
ResumeOperations(delay) == SetDelay(delay)

-----------------------------------------------------------------------------
(* upgradeable *)

Changed(contract) ==
  /\ self # None /\ self' = contract
  /\ UNCHANGED <<proxy, upgraders, proposals, proposed, versions, version, now, utilsVars>>

InitializeSelf(timelock) ==
  /\ "upgradeable" \in Contract /\ self = None
  /\ self' = [timelock |-> timelock, paused |-> FALSE, pending |-> None, code |-> None]
  /\ UNCHANGED <<proxy, upgraders, proposals, proposed, versions, version, now, utilsVars>>

PauseSelf(p) == Changed([self EXCEPT !.paused = p])

\* Without a timelock at once; with one the proposal replaces an earlier one, and
\* the time starts again.
ProposeCode(hash) ==
  /\ ~self.paused
  /\ Changed(IF self.timelock = 0 THEN [self EXCEPT !.code = hash]
             ELSE [self EXCEPT !.pending = [hash |-> hash, time |-> now]])
UpgradeTo(hash) == ProposeCode(hash)

ExecuteCode ==
  /\ ~self.paused /\ self.pending # None
  /\ now >= self.pending.time + self.timelock
  /\ Changed([self EXCEPT !.pending = None, !.code = self.pending.hash])

CancelUpgrade ==
  /\ self.pending # None
  /\ Changed([self EXCEPT !.pending = None])

-----------------------------------------------------------------------------
(* migration-utils *)

InitializeUtils ==
  /\ "migration-utils" \in Contract /\ ~utils.initialized
  /\ utils' = [utils EXCEPT !.initialized = TRUE]
  /\ UNCHANGED <<proxyVars, migrations, batches, checks, transfers, rollbacks>>

SetPaused(p) ==
  /\ utils.initialized /\ utils' = [utils EXCEPT !.paused = p]
  /\ UNCHANGED <<proxyVars, migrations, batches, checks, transfers, rollbacks>>

Running == utils.initialized /\ ~utils.paused

QueueMigration(checksum) ==
  /\ Running /\ Len(migrations) < MaxMigrations
  /\ migrations' = Append(migrations, [checksum |-> checksum, status |-> "Pending"])
  /\ UNCHANGED <<proxyVars, utils, batches, checks, transfers, rollbacks>>

\* The caller's word for the hash decides.
ExecuteMigration(i, hash) ==
  /\ Running /\ migrations[i].status = "Pending"
  /\ migrations' = [migrations EXCEPT ![i].status =
       IF migrations[i].checksum = hash THEN "Completed" ELSE "Failed"]
  /\ UNCHANGED <<proxyVars, utils, batches, checks, transfers, rollbacks>>

\* Also while paused, if the transfer failed.
Transferred(success) ==
  /\ Len(transfers) < MaxTransfers
  /\ transfers' = Append(transfers, success)
  /\ UNCHANGED <<proxyVars, utils, migrations, batches, checks, rollbacks>>
TransferState == Running /\ Transferred(TRUE)
RecordTransferFailure == utils.initialized /\ Transferred(FALSE)

Checked(i, expected, actual) ==
  /\ utils.initialized /\ Len(checks) < MaxChecks
  /\ checks' = Append(checks, [migration |-> i, expected |-> expected, passed |-> expected = actual])
  /\ UNCHANGED <<proxyVars, utils, migrations, batches, transfers, rollbacks>>

\* Ids begin at zero, so zero names the first migration as well as none.
ValidateHash(id, expected, actual) ==
  (id # 0 => id + 1 \in DOMAIN migrations) /\ Checked(id, expected, actual)
ValidateMigration(i, actual) == Checked(i - 1, migrations[i].checksum, actual)

OpenBatch ==
  /\ Running /\ Len(batches) < MaxBatches
  /\ batches' = Append(batches, [ops |-> 0, executed |-> 0, status |-> "Open"])
  /\ UNCHANGED <<proxyVars, utils, migrations, checks, transfers, rollbacks>>

AppendToBatch(i) ==
  /\ Running /\ batches[i].status = "Open" /\ batches[i].ops < MaxOps
  /\ batches' = [batches EXCEPT ![i].ops = @ + 1]
  /\ UNCHANGED <<proxyVars, utils, migrations, checks, transfers, rollbacks>>

\* All the operations are counted as executed in the one call.
ExecuteBatch(i) ==
  /\ Running /\ batches[i].status = "Open" /\ batches[i].ops > 0
  /\ batches' = [batches EXCEPT ![i].executed = @ + batches[i].ops, ![i].status = "Completed"]
  /\ UNCHANGED <<proxyVars, utils, migrations, checks, transfers, rollbacks>>

RollbackRecord(scope, i) == rollbacks' = Append(rollbacks, [scope |-> scope, id |-> i])

\* Of what failed, was completed or has not begun.
RollbackMigration(i) ==
  /\ migrations[i].status # "RolledBack"
  /\ migrations' = [migrations EXCEPT ![i].status = "RolledBack"]
  /\ RollbackRecord(0, i)
  /\ UNCHANGED <<proxyVars, utils, batches, checks, transfers>>

RollbackBatch(i) ==
  /\ batches[i].status # "RolledBack"
  /\ batches' = [batches EXCEPT ![i].status = "RolledBack"]
  /\ RollbackRecord(1, i)
  /\ UNCHANGED <<proxyVars, utils, migrations, checks, transfers>>

-----------------------------------------------------------------------------
Next ==
  \/ Tick
  \/ \E a \in Address : AuthorizeUpgrader(a) \/ RevokeUpgrader(a)
  \/ \E c \in Implementation :
       \/ \E a \in Address, d \in Delay : ProxyInit(a, c, d)
       \/ \E a \in Address : ProposeUpgrade(a, c)
  \/ \E i \in 1..MaxProposals :
       ExecuteUpgrade(i) \/ \E favour \in BOOLEAN : VoteOnProposal(i, favour)
  \/ EmergencyPause \/ \E d \in Delay : UpdateUpgradeDelay(d) \/ ResumeOperations(d)
  \/ \E d \in Delay : InitializeSelf(d)
  \/ /\ self # None
     /\ \/ \E p \in BOOLEAN : PauseSelf(p)
        \/ \E h \in Hash : ProposeCode(h) \/ UpgradeTo(h)
        \/ ExecuteCode \/ CancelUpgrade
  \/ InitializeUtils \/ \E p \in BOOLEAN : SetPaused(p)
  \/ \E h \in Hash : QueueMigration(h)
  \/ \E i \in DOMAIN migrations :
       \/ RollbackMigration(i)
       \/ \E h \in Hash : ExecuteMigration(i, h) \/ ValidateMigration(i, h)
  \/ \E i \in 0..MaxMigrations, h \in Hash, k \in Hash : ValidateHash(i, h, k)
  \/ TransferState \/ RecordTransferFailure
  \/ OpenBatch
  \/ \E i \in DOMAIN batches : AppendToBatch(i) \/ ExecuteBatch(i) \/ RollbackBatch(i)

Spec == Init /\ [][Next]_vars

-----------------------------------------------------------------------------
(* Properties *)

\* The implementation in use is the newest version and no older than the
\* versions before it, also after the proxy was initialized again; of what is
\* rolled back there is one record, of what is not there is none, and a batch
\* has executed all of its operations or none.
UpgradesRecorded ==
  /\ proxy # None =>
       /\ versions[version] = [implementation |-> proxy.implementation, time |-> proxy.last]
       /\ \A i \in 1..(version - 1) : versions[i].time <= versions[i + 1].time
  /\ LET Count(scope, i) == Cardinality({k \in DOMAIN rollbacks : rollbacks[k] = [scope |-> scope, id |-> i]})
         Rolled(r) == IF r.status = "RolledBack" THEN 1 ELSE 0
     IN /\ \A i \in DOMAIN migrations : Count(0, i) = Rolled(migrations[i])
        /\ \A i \in DOMAIN batches :
             /\ Count(1, i) = Rolled(batches[i])
             /\ batches[i].executed \in {0, batches[i].ops}
             /\ batches[i].status = "Completed" => batches[i].executed > 0

\* A migration that ended, in whichever way, can only be rolled back, and what
\* was rolled back stays so; the operations of a batch are closed with it.
\* Between two upgrades the delay passes, and none happens while it is frozen.
\* The upgradeable contract with a timelock takes the code that was proposed last,
\* if it was not withdrawn, once, after the timelock and while it is not paused.
MigrationEnds ==
  /\ \A i \in DOMAIN migrations :
       LET before == migrations[i].status after == migrations'[i].status IN
         before \in {"Completed", "Failed", "RolledBack"} => after \in {before, "RolledBack"}
  /\ \A i \in DOMAIN batches :
       batches[i].status # "Open" =>
         /\ batches'[i].status \in {batches[i].status, "RolledBack"}
         /\ batches'[i].ops = batches[i].ops /\ batches'[i].executed = batches[i].executed
  /\ version' > version /\ proxy # None =>
       /\ proxy.delay # Frozen /\ versions'[version'].time >= versions[version].time + proxy.delay
       /\ \E i \in DOMAIN proposals :
            proposals[i] # None /\ proposals[i].implementation = proxy'.implementation
  /\ self # None /\ self'.code # self.code /\ self.timelock > 0 =>
       /\ ~self.paused /\ self.pending # None /\ self'.pending = None
       /\ self'.code = self.pending.hash /\ now >= self.pending.time + self.timelock
=============================================================================
