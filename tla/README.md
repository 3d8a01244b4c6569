# TLA+ models of the node

This directory holds a TLA+ development for the node in `nano/`: modules that
model its components, TLC configurations that check them on small instances, and
TLAPS proofs, for instances of every size, of the most important facts about the
ledger, the block processor, the datagram buffers and some services. Source references are to the
repository; `PROJECT.json` maps every definition to the lines it models, and lists the
runs, the mutants that show each property can fail, the findings, the hazards and the
theorems.

## The system and its parts

A node keeps a *block lattice*: every account has its own chain of blocks, and
value moves by a send block on one chain and a receive block on another. Blocks
reach the node from peers, from bootstrap, from its own wallets and from RPC
clients; nearly all of them end in the queue of the **block processor**, which writes
the **ledger** (the exceptions are below). The ledger gives a verdict on each block (progress, fork, gap,
old, bad signature ...) and keeps its tables in LMDB (the **block store**). Blocks
that miss what they depend on wait in the table of unchecked blocks. A new block,
or a fork, starts an **election**, in which representatives vote with the weight
delegated to them; the winner is handed back to the block processor, which rolls
back the losing block and everything that rests on it. **Votes** are produced by
the wallets' representatives and arrive through the **network**; **peers**,
**bootstrap**, the **signature checker**, the **work pool**, **wallets** and a
handful of services (gap cache, online representatives, block arrival, alarm)
surround this core; **RPC**, **IPC**, the command line and the graphical wallet
are its interfaces.

| part | source | module | state |
|---|---|---|---|
| ledger, block store tables | `secure/ledger.cpp`, `secure/blockstore.cpp`, `node/lmdb.cpp` | `Ledger` (on `Tables`) | modelled, proved |
| block processor | `node/blockprocessor.cpp` | `BlockProcessor` (extends `Ledger`) | partly, proved |
| elections | `node/node.cpp` (`election`, `active_transactions`, `process_confirmed`) | `Elections` | partly, proved |
| bootstrap | `node/bootstrap.cpp` | `BootstrapAttempt`, `BulkPull`, `Frontiers`, `PendingPull`, `BootstrapServer` | modelled |
| datagram buffers | `node/node.cpp` (`udp_buffer`, `network`) | `UdpBuffer`, implements `DatagramQueue` | modelled, proved |
| proof of work | `lib/work.cpp`, `node/node.cpp` (`distributed_work`) | `WorkPool`, `DistributedWork` | modelled |
| signature checker | `node/signatures.cpp` | `SignatureChecker` | modelled, proved |
| votes | `node/voting.cpp`, `node/node.cpp` (`vote_processor`), `node/lmdb.cpp` | `VoteSequence`, `VoteProcessor`, `VoteGenerator` | partly; the first proved |
| peers | `node/peers.cpp`, `node/node.cpp` | `Peers` | partly, proved |
| wallets | `node/wallet.cpp`, `node/rpc.cpp` | `WalletStore`, `WalletActions`, `WalletSend`, `WalletReceive` | partly; the last two proved |
| upgrade of old databases | `node/lmdb.cpp` | `SidebandUpgrade` | partly |
| alarm, payment_wait | `node/node.cpp`, `node/rpc.cpp` | `Alarm`, `PaymentObserver` | modelled; the second proved |
| RPC, IPC, CLI, Qt, configuration, logging | | not modelled | see below |

`PROJECT.json` lists every part with the reason for what is left out.

## Modules

**`Tables`** has the two updates of a table, `Put` and `Del`; a table is a function
whose domain is the set of keys present. `Kept` and `InSomeOrder` are what is left of a
queue and the orders in which a table may be read.

**`Ledger`** models `ledger.cpp`. The content of a block is the constant
`Content[h]`, because a hash determines its block; who signed it is the field
`signer`. (A hash does not cover the signature: copies of one block that differ in it are
in `BlockProcessor`.) Its variables are the LMDB tables: `blocks` (with sideband), `accounts`
and `pending` for both epochs, `representation`, `frontiers`. `ProcessResult(h, v)`
is the chain of checks of `ledger_processor` for each block type in the order of
the code, and `Process(h, v)` the writes that follow a verdict of progress. The
recursive `ledger::rollback` is modelled with its call stack (`rolling`): one
action (`RollbackStep`) undoes the head of a chain, descends into the destination
of a send that was received, or returns. Amounts wrap around at `AmountLimit`,
which stands for 2^128: weights are changed by adding `0 - amount` as in the code.

**`LedgerInvariant`** has the inductive invariant `IInv`, **`LedgerAudit`** what an
auditor recomputes from the blocks alone, **`LedgerBlocks`** constructors for small
lattices and **`MCLedger`** two universes of blocks.

**`BlockProcessor`** extends `Ledger`: its thread is the one that takes `Process` and
`RollbackStep`. `pc` says where `process_blocks` is; the mutex is held from one label
to the next, and at a label the other threads run: `Add`, `ForceBlock`, `Flush`, `Stop`.
`disk` is what was committed last: `Crash` returns the tables to it and empties the
queues. A copy of a block of `Damaged` may carry a bad signature where the genuine one is
good: it is dropped when it is verified, by the processor or by the ledger, and leaves its hash
in `blocks_hashes` in the first case. A forced winner is taken to be the genuine block. Two other
threads also write the tables: the RPC command `process` (`rpc.cpp:2562`) calls `process_one` in a
write transaction of its own, and `unchecked_cleanup` (`node.cpp:2209`) drops old unchecked
entries; both are left out. Condition variables are modelled by the set `asleep` of threads in `wait`,
so that a missing `notify` shows. **`BlockProcessorInvariant`** has its inductive invariant.

**`Elections`** models `election` and `active_transactions`. Election objects have
identities, because the code holds them through shared pointers from two indexes
(`roots` and `blocks`) that can disagree; an object disappears when neither refers to
it. A vote keeps the mutex for all its items (`voting`); `request_confirm` releases it
between its two halves (`loop = "prune"`). `tally_t` is a map ordered by weight, so the
model's tally is a *set of weights*: blocks of equal weight share an entry, and which
of them leads is left open. The ledger is the set `stored`; the block processor and
`process_confirmed` are modelled as far as elections see them. `erased` is a history variable:
it remembers that an RPC client has erased an election, which leaves entries behind in `blocks`,
so that the properties can say what holds until then. `seen` is another: what `request_confirm`
found of the finished elections before it released the mutex.

**Bootstrap** has five modules. `BootstrapAttempt` is the control: the initiator and its
thread, the attempt in its legacy, lazy and wallet modes, the pool of connections and
the callbacks of its clients; a wait on the condition variable is two steps, because
one of the callers notifies without the mutex. `BulkPull` is what a pull transfers: the
pull queue with its retries, the client, the server that reads a changing ledger block by
block, and the search for dependencies of a lazy bootstrap. `Frontiers` is the merge of
two ordered walks over two changing ledgers, and the push. `PendingPull` is the request
for pending entries, `BootstrapServer` the listener and the queue of requests of a
connection; a request that makes a connection lock its own mutex twice leaves it `stuck`. The
pull of a decided fork is marked (`ForkItem`), since it is not retried when it breaks: it ends
where it begins (`lost`). `MCBootstrap` instantiates the last four beside the first.

**`UdpBuffer`** models `udp_buffer` with the threads of `network` around it: buffers move
between a free and a full ring and the hands of receivers and packet threads.
**`DatagramQueue`** is what its comment promises, a bounded queue that drops its oldest
datagram when it is full; `ImplementsQueue` is the refinement, with the contents of the
full ring as the queue.

**`WorkPool`** and **`DistributedWork`** (which extends it) follow a request for work from
`node::work_generate` through peers that resolve or not, answer, fail, answer wrongly or not at
all on several threads, to the local pool, where the ticket decides who owns a solution. The
pool may have no threads of its own (`work_threads`) and a device or none (`opencl`).

**`SignatureChecker`** models `verify`, `verify_async`, `flush`, `stop` and the order in
which `node::stop` stops it and its two callers. The split of a set (`size_calling_thread`,
`batches_thread` ...) is arithmetic with the numbers of the code as constants.

**`VoteSequence`** is the two caches and the table of the latest vote of each
representative, in the node that votes and in one that hears it, with read transactions of
any length, crashes and a network that loses, repeats and reorders. **`VoteProcessor`** is the queue of votes with
its levels, **`VoteGenerator`** the thread that gathers hashes into votes.

**`Peers`** is one node among others: keepalives, handshakes with cookies, the limits per
IP, the two clean-ups, stored and configured peers, those a call of `bootstrap` names, and the
node's own address.

**Wallets** are modelled four times, each for its own question. `WalletStore`: one wallet's
seed, keys and password through `rekey`, `wallet_lock`, a change of seed with or without a
count, a restore and a crash. `WalletActions`: the three locks of `wallets` and the action thread while wallets
are created and destroyed. `WalletSend`: a client that repeats a send with its identifier,
with crashes, lost elections and a shutdown, in which the block processor stops before the thread
that sends. `WalletReceive`: from a pending entry over its election and the action to a block in
the ledger; the shutdown, in which `flush` returns early and the action thread is about to end, is
left out. The last two
share `AccountChain`: a block is the chain of one account up to it.

**`SidebandUpgrade`** is the thread that gives the blocks of a version 11 or 12 database
their sideband in batches, while the ledger appends and rolls back between two of its
transactions, with stops and crashes.

**`Alarm`** is the timer thread; **`PaymentObserver`** extends it with `payment_wait` for one
account, whose client waits in one call at a time.

**`MCServices`** puts `Elections` and all of these but bootstrap in one run. They share no
state in the code, so each scenario moves one and leaves the others at rest. (`OnlyX` says
so.) `WalletSend` and `WalletReceive` abstract the block processor to its queue, open batch
and committed ledger, in the order `BlockProcessor` has them; `Elections`, `WalletReceive`
and `SidebandUpgrade` each see of the ledger what they read of it.

*Exceptions.* Where the code has a race that breaks a property, the model takes the step
and records it in a history variable, and the property states what holds as long as it did
not happen: `raced` (`wallet_lock` between two steps of a command), `aborted` (two
`wallet_destroy`), `overlapped` (a second `payment_wait` before the first is erased),
`stranded` (the upgrade holds a block that was rolled back), `forked` (a crash between the
publication and the commit of a block), `orphaned` and `electionLost` (a send whose block was
lost in a crash, a shutdown or an election), `outlived` and `misled` (a read transaction that stays
open from one flush of the votes to the end of the next, and a node that used the number it
read), `named` (an address that a call of `bootstrap` listed without a handshake), `spoiled` (a
damaged copy was dropped), `lost` (the pull of a decided fork broke). The action that sets the
variable is mapped to the lines of the race. Each is a hazard that the properties describe and
do not exclude.

## Runs

Where one run covers several situations, a variable `scenario` of the MC module is
chosen in the initial state and fixes which blocks, votes and operations take part.
A property that is claimed for some scenarios only says so.

| run | result | what it asks |
|---|---|---|
| `ledger` | holds, 1 556 states | tables are a function of the set of blocks; no fork, no double receive; conservation of amounts and weights; assertions and termination of rollback |
| `block_processor` | holds, 161 k states | arrival in any order with a crash; blocks that never fit; batch verification of signatures with flush and stop; copies with a damaged signature; forced winners |
| `block_processor_second` | **violated** | "Prevent rolled back blocks second insertion" |
| `elections` | holds, 1.3 M states | fork with three representatives; chain with escalation; erased elections |
| `elections_tie` | **violated** | the margin of a quorum, with equal tallies |
| `elections_stale` | **violated** | votes are applied to the current election |
| `elections_report` | **violated** | a confirmed block is in the ledger when it is reported |
| `bootstrap` | holds, 494 k states | pulls at work are counted exactly, each ends in exactly one way, attempts end and `stop` returns; a pull brings the whole range, a lazy one its sources; the merge misses nothing that stayed the same; one reader and one writer for each connection |
| `bootstrap_lazy` | **violated** | the balances remembered for a lazy bootstrap |
| `bootstrap_peers` | **violated** | "Bootstrap stopped because there are no peers" |
| `services` | holds, 284 k states | the modules of `MCServices`, one at a time; see below |
| `wallet_restore` | **violated** | a restore finds the used accounts |

A run checks its properties in groups. A group is a conjunction of properties that are
stated and explained one by one in the module of the component: `TablesMatchBlocks` gathers
the audits of `LedgerAudit`; `ArrivalsHeld`, `ElectionsIndexed`, `AttemptAccounted`,
`RangesWhole` and the others of `MCBootstrap` what one component keeps true; `ThreadsEnd`
and `NobodyWaits` of `MCServices` the liveness of all services. A type invariant is part of
the group of its module.

What `services` checks, by module:

* `UdpBuffer`: no buffer in two places (`BuffersExclusive`), the refinement
  (`ImplementsQueue`), every datagram is serviced or dropped, `stop` ends all threads.
* `WorkPool`, `DistributedWork`: only the thread with the current ticket takes the front
  of the queue; every request is answered exactly once; exactly one party is responsible
  for a request at any time; destroying the pool returns.
* `SignatureChecker`: `verify` returns with the whole set verified, each signature once;
  the counter `flush` trusts is exact; `verify`, `flush` and `node::stop` return.
* `VoteSequence`: whichever thread looks, in whichever step of a flush, it finds the
  highest number that its node has had, unless its read transaction outlived a flush; the table
  never goes back, and a flush commits every number up to its beginning, so that a crash takes
  back those of the last interval at most. `VoteProcessor`: no vote
  is lost or applied twice, room is kept for larger representatives, `flush` and `stop`
  return. `VoteGenerator`: every hash is voted for exactly once and in the end.
* `Peers`: the count of cookies for an IP is exact, the limit for an IP holds, only
  addresses that proved their identity (or were configured, or named in a call of `bootstrap`)
  become peers, the node itself only if it was named, and a steady stranger becomes one, unless the
  places or the cookies of its IP are taken.
* `WalletStore`: the password that opens the wallet is the one last set; every key in
  the wallet can be fetched again with it; a restore finds what its search can reach.
  `WalletActions`: no deadlock of the three locks, no work for a destroyed wallet, actions
  are taken, `stop` returns. `WalletSend`: one identifier pays once; an answer stays true.
  `WalletReceive`: the wallet never publishes or queues two blocks on one head; what is
  pending is received in the end, whatever was dropped on the way.
* `SidebandUpgrade`: version 13 means every block has a sideband; every stored height is
  the true one; the upgrade completes.
* `Alarm`, `PaymentObserver`: what is due fires, the destructor returns; a call is
  answered once and in the end, and `complete` finds its observer.
* `Elections`: confirmed elections leave the indexes, `stop` returns.

*Bounds.* The ledger universes have 25 and 30 blocks over three accounts; every
block may arrive at any time and any number of times, and every block but the genesis
block may be rolled back at any time, so all orders are covered. They were chosen to
contain each kind of fork (send, open, change, legacy against state), each gap, a
send of zero, a cycle of sends that returns to its origin (the hard case of a
rollback), an upgrade of an account and of a pending entry, an account opened by an
epoch block, and sends to the epoch link and to the burn account. The block processor
uses lattices of three or four of these blocks, a verification batch of two, one crash,
one forced block queued at a time and a list of one rolled back block (`RolledBackMax`;
1024 in the code), so that the eviction happens. Elections use two blocks of one root
and a third that rests on one of them, `AnnouncementLong` = 2 instead of 20 and
`BlockLimit` = 1 instead of 10, so that escalation and the limit are reached; counting
goes on in a cycle from `AnnouncementLong` + 1 (`AnnouncementCap`), because only the
remainder matters then. Weights are 30, 30, 60 and 0 of an online stake of 100 with a
quorum of 50: two light representatives balance a heavy one, which gives ties, and one
is below the threshold of a vote.

The range of an account's pull begins with its frontier: the comment on `set_current_end`
(`bootstrap.cpp:2354`) excludes it, but the code sends it and the client expects it, so
`PullRange` includes it.

Bootstrap has up to two connections, callers and pulls, a retry limit of 2, lattices of six
blocks with one change during a pull, and three accounts read two at a time with one change
during the merge, so that every batch boundary and each order of two keys occurs. The
services use two or three threads, requests, wallets or peers each. The pool gets two
requests of different roots, so that one is searched for while the other waits or is
cancelled; distributed work competes with a local request of the same root. Limits of the
code are scaled so that they are reached: three datagram buffers for one receiver and one
packet thread, verification batches of 2 with a cutoff of 5, vote
levels of one place each with one vote more than they hold, two hashes to a vote, two peers to an IP, a restore gap of 3 with
indexes to 4, an upgrade batch that ends within a chain. Crashes, restarts, lost or repeated
messages and forks are bounded by a constant each (`MaxTroubles`, `MaxFaults`, `MaxHalts`
...), named with the constants of its module. A node of `VoteSequence` that was misled is not
followed further but for its crash. In `payment` the clock ends with the first timeout; calls
after it are covered by the theorem only.

*Deadlock* is not checked in `bootstrap` and `services`: a system that was stopped, or has
used up the bounded inputs, rests. That nobody waits for ever is what the liveness
properties say.

*Fairness.* A thread that can run runs in the end (weak fairness of the processor,
of rollback, of the vote being applied). A batch of the block processor ends at a
deadline although blocks keep arriving, and the request loop gets a mutex that others
take again and again: strong fairness of these actions. In the services every thread, the
alarm and time have weak fairness, the steps of the environment none, but for these: elections
end, and a steady node goes on sending keepalives and some of its answers arrive (strong fairness;
a network that loses all of them connects nobody). Nothing is assumed of peers that were asked for
work or of those that the bootstrap server accepted: their sockets have no timeout, so
`WorkAnswered` leaves out a request with an open connection, and `AcceptsAgain` says that the
listener does not go on waiting while fewer connections than its limit are in use. The connections
that a bootstrap attempt opens do have one, and its clients end. A mutex and the write transaction are given
to each that waits in the end. `AllArrive` also assumes that
peers keep sending a block that is missing, which republishing and bootstrap do; a
crash loses blocks that exist only in queues, so nothing weaker would do. It is claimed of blocks
that arrive properly signed: once a damaged copy was dropped, `add` refuses the genuine block
until the node is restarted.

*Mutants.* Every property of a passing run has a mutated definition next to the one
it replaces (suffix after the name: `Prune_roots`, `TakeBlock_keep`), a small slip in
the code that violates it. A group has several, for the different properties in it.

## What the violated properties show

* `NoSecondInsertion` (`blockprocessor.cpp:301`): `rolled_back` is consulted when a
  block is added, not when it is taken from the queue. A copy queued before the winner
  was forced is inserted again if the winner itself misses its source.
* `QuorumMargin` (`node.cpp:3115`): equal tallies collide in `tally_t`, the second place
  is empty and the leader is confirmed with no margin. It needs more votes than the
  online stake that the quorum is computed from.
* `VotesReachCurrent` (`node.cpp:3675`): `erase` (process RPC with force) leaves the
  hashes of the erased election in `blocks`; a new election for the block is not
  entered there, and votes by hash go to the old one.
* `ConfirmedBlockPresent` (`node.cpp:2632`): `process_confirmed` checks that the block
  exists in one transaction and relies on it in the next; a late rival that already has
  the votes can be forced in between.

An erase in the window in which `request_confirm` has released the mutex also breaks
`RootsStay`, the assertion at `node.cpp:3506`; it is stated for as long as nothing was erased.

* `LazyFindsDependencies` (`bootstrap.cpp:1606`): the balances of a lazy bootstrap are
  recorded only for the block number 0, which is counted before; a source that can only be
  recognised by such a balance is not pulled.
* `StoppedEnds` (`bootstrap.cpp:1267`): `populate_connections` stops an attempt without its
  mutex; the notification can fall between the thread's test and its wait.
* `RestoreComplete` (`wallet.cpp:1250`): `deterministic_restore` looks from the account
  after the next one on; a used account at the next index is not restored.

## Proofs

Eight modules hold theorems. A theorem holds for every value of the constants that the named
assumptions allow. The inductive invariants stand in the module of the component or in a module
of their own that the MC module extends, so that TLC can check them on the instance of the run, as
it did before they were proved: `IInv` is among the properties of `ledger`; for `AuditInv`,
`ProcessorInv`, `ElectionsInv`, `CheckerInv`, `SequenceInv`, `PeersInv`, `SendInv`, `ReceiveInv` and `PaymentInv` it takes their name in
the INVARIANTS of the configuration.

### The ledger

`LedgerProofs` proves, for every set of blocks and accounts and every
`AmountLimit`:

* `InductiveInvariant`: `Spec => []IInv`,
* `TypeCorrect`: `Spec => []TypeOK` — balances, weights and pending amounts stay in the
  unsigned range,
* `NoForkTheorem`: `Spec => []NoFork` — no two blocks of the ledger have the same
  predecessor or open the same account,
* `NoDoubleReceiveTheorem`: `Spec => []NoDoubleReceive`.

Neither of the last two is inductive. `process` decides by looking at heads, frontiers
and pending entries, so the invariant says how these relate to the blocks: within an
account each height is taken once and the head has the largest (`ChainInv`, `HeadInv`);
a frontier is the legacy head of its account (`LegacyInv`); a send is pending under its
destination or received by one block of it (`PendingInv`). Heights replace paths, so
no induction along a chain is needed. `rollback` preserves it because the block it
removes is the head, hence the highest of its account, and because it first rolls back
the block that received it.

`LedgerAuditProofs` (on `LedgerAuditProcessProofs`) adds what an auditor would compute:

* `TablesMatchBlocksTheorem`: `Spec => []TablesMatchBlocks` — the supply is conserved, the weight
  of a representative is the balance delegated to it, and accounts, sideband, pending
  entries and frontiers are what the blocks alone determine,
* `RollbackAssertionsTheorem`: `Spec => []RollbackAssertions`.

Its invariant `AuditInv` says, next to `IInv`, that successors and predecessors mirror each other
(`LinkInv`), that account_info repeats the chain, its length included (`InfoInv`), that each
block accounts for the change of balance from the block before (`ValueInv`), and the two sums.
The sums are folds over finite sets: `SumProofs` shows what a fold of `+` does when one entry is
added, removed or changed, by induction on the cardinality. Since the sum of all
balances and pending amounts is `AmountLimit - 1`, no balance or weight ever wraps around,
although the code adds `0 - amount`.

The assumptions are named where the constants are declared: `Content` has the shape of
the block types, a hash is neither an account nor zero, the genesis block is an open
block, walking back along previous blocks terminates (`OwnerAssumption`,
`RepBlockAssumption`: a hash covers the hash of the previous block), and the holder of
the epoch key names a previous block of the same account (`EpochSignerAssumption`):
`epoch_block_impl` does not check it for an account that is not open. The audit also needs
finitely many hashes and accounts (`FiniteAssumption`).

The first half of `LedgerProofs` and `LedgerAuditProcessProofs` treat `ledger_processor`: lemmas on
what appending a block at the top of a chain preserves, applied to each block type. The second half
of `LedgerProofs` and `LedgerAuditProofs` treat `rollback`: lemmas on removing a head, the block
types, the step theorem and the theorems above.

### The block processor

`BlockProcessorProofs` (on `BlockProcessorStepProofs`) proves for every set of deliveries, winners and
batch sizes:

* `ProcessorInvariant`: `BPSpec => []BPInv`,
* `ArrivalsHeldTheorem`: `BPSpec => []ArrivalsHeld`,
* `LedgerSafetyTheorem`: `BPSpec => LedgerSafety` — the tables change by `process` and `rollback`, or
  back to the last commit, and in no other way,
* `LedgerSoundTheorem`: `BPSpec => [](TablesMatchBlocks /\ RollbackAssertions)` — what holds of the
  ledger holds of the node that cuts a rollback into steps, commits in batches and may die
  between two commits.

`BPInv` is `IInv` and `AuditInv` of the tables in memory and of those on disk (`Saved`, the same
module instantiated with the committed tables), with `ProcessorInv` of `BlockProcessorInvariant`:
the result of a signature check that travels with a block, through queues, the unchecked
table and restarts, is true; a block is in one queue once; an unchecked entry whose dependency
is present can never be inserted; a rollback is under way only at the label that waits for it.
`KnownAccountAssumption`: who names the account of a block names the right one, which
`process_one` asserts (`release_assert`).

### Elections

`NodeProofs` proves, for every set of blocks, roots, representatives and votes, all weights, any
quorum and minimum, and every interleaving of the threads:

* `ElectionsIndexedTheorem`: `ESpec => []ElectionsIndexed` — the types; and, until a client erases an
  election, that `roots` and `blocks` describe the same elections and that `request_confirm` still
  finds, after it had released the mutex, the roots it is about to remove,
* `WinnerFollowsVotesTheorem`: `ESpec => []WinnerFollowsVotes` — the winner of an undecided election
  has the largest tally, and the release assertion of `confirm_back` holds,
* `ConfirmedRightlyTheorem`: `ESpec => ConfirmedRightly` — `confirm_once` takes effect once for an
  election, and by a quorum for its winner, or for a block that rests on the only block it knows,
* `OnlyFinishedLeaveTheorem`: `ESpec => OnlyFinishedLeave` — until a client erases an election,
  one leaves `roots` only if `request_confirm` saw it finished and it still is. The block that had
  won when it was seen confirmed is in the history; it is still the winner, unless a block was
  published to the election in the window in which the mutex is released. A stopped election that
  is confirmed in the window leaves without an entry.

The last two are action properties and follow from the same invariant, `ElectionsInv`. It says of
each election that its blocks have its root, that its winner is one of them and, while it is
undecided, a leader of its tally (`ElectionSound`); of the indexes, what stays true even after an
erase (`IndexSound`) and what holds until then; of `request_confirm`, that the roots it will remove
are those of finished elections whose winners are in the history (`InactiveFinished`); and of the
ledger, that it has one block of a root (`NoRivals`), which is why no round of escalation starts
two elections for one root. A step that confirms is taken apart in `QuorumStep`: the leader of a tally
with quorum weighs more than `Delta` and no less than any block of the election, and
`confirm_back` reaches only ancestors whose elections know no rival. `ConfirmBack`, `Ancestors` and
`Dependents` are recursive functions on `0 .. Cardinality(Hash)`; `Iteration` shows that such a
function exists, and what is needed of them follows by induction on the index.

`HashAssumption` and `WeightAssumption`: there are finitely many blocks and representatives.
`BallotAssumption`: a vote has a representative, a sequence number and at least one item.

### Services and wallets

`ServicesProofs` proves, for every number of receivers, packet threads and buffers, as long
as there are more buffers than threads (`ThreadsFinite`; 4096 in the code):

* `BuffersImplementQueue`: `UdpSpec => ImplementsQueue`, the refinement of `DatagramQueue`,
* `ExclusiveAlways`: `UdpSpec => []BuffersExclusive`,
* `AllocateAlwaysDefined`: `UdpSpec => []AllocateDefined`.

The inductive invariant counts: free, full and held buffers add up to `Count`, a receiver
that allocates holds none, so one of the two rings has a buffer; hence nobody ever waits in
`allocate`, and after a stop nothing is taken from an empty ring. Exclusiveness makes the
contents of the queue stable while a receiver's buffer is being filled, which is what the
refinement needs.

Of the signature checker it proves `SplitPartitions` (batches and the caller's share make up the set,
for every size of a set, batch size and number of threads: the release assertion of `verify`),
`SplitUsesPool` (a set that reaches the cutoff gives the pool a batch, so that somebody fulfils the
promise), and on these `SetsVerifiedTheorem`: `CheckerSpec => []SetsVerified`. `CheckerInv` says that
each batch of a set under way waits in the pool, runs on one thread or is verified: `pending`
counts those of the first two kinds, and what is verified is the union of the third and, once
the caller did its share, that share. `stop` finds no caller, since both processors have ended, so
no set is given up half way. `SplitAssumption`: the batch size is not zero and the cutoff is at
least two batches (256 and 513 in the code).

`SequencesKeptTheorem`: `SequenceSpec => SequencesKept`, for any number of transactions, votes and
crashes. `SequenceInv` says in which of the two caches and the table the highest number is, that the
second cache is what a flush writes or has written, and what a transaction that did not outlive a
flush sees when both caches are empty.

`PeersGenuineTheorem`: `PeersSpec => []PeersGenuine`, for any addresses and any limit per IP, with answers
lost, late or repeated, with restarts, and with addresses that `bootstrap` names. `PeersInv` adds to it the types of the tables and that a
cookie is left to choose that is not about, as a random one is in the code. `PeersAssumption`:
addresses are finitely many, and the node's own is not configured as a peer (`insert` would list it)
and has a version with `node_id`.

`PaymentsSettledTheorem`: `PaymentSpec => []PaymentsSettled` for any number of calls
(`WaitsAssumption`). `PaymentInv` says which calls have an operation in the alarm, that an answer was
given by whoever came first, and, as long as no two calls overlapped, that the
registered observer is the one that still waits.

`NodeProofs` also has what is proved of wallets:

* `SendsIdempotentTheorem`: `SendSpec => []SendsIdempotent`. A block is modelled as the chain that ends
  with it (`AccountChain`), so `SendInv` can say where the block of a send is at each step of
  `send_action`: not yet processed, in the open batch or committed; and that every identifier whose
  send is over has its block in the chain, no two the same one.
* `NoForkOfOwnTheorem`: `ReceiveSpec => []NoForkOfOwn`. `ReceiveInv` ties the head that the action thread has
  read to the queue, the open batch and the ledger.

### Only model-checked

Liveness under fairness, termination of rollback included, is out of the prover's reach. Of the
safety properties, those of bootstrap, of `WorkPool` and `DistributedWork`,
`VoteProcessor`, `VoteGenerator`, `WalletStore` and `SidebandUpgrade` are checked by TLC on
the instances above and not proved; of `Elections`, the three properties that the code violates and
the liveness.
`WalletStore` and `MCServices` use recursive operators, which the prover's SMT backend cannot
handle.

## What the models leave out

Hashing, signatures and proof of work are constants or fields of a block. Vote weights
are constant within `Elections`, and its request messages, republishing and the order by
difficulty are left out: they choose which election is announced first. The block
processor's calls into elections and the network change nothing it reads itself.
`fast_bootstrap` is off. LMDB is assumed to be what it claims: transactions are atomic
and serialised.

## Not modelled

* *Messages and interfaces.* Parsing and formatting of messages, RPC, IPC, command line,
  configuration, logging and statistics change no state of their own. RPC commands that
  change the state of a component are actions of its module.
* *Random choices of the network.* Which peers are asked, republished to or crawled for
  representatives is random; the models let the environment choose.
* *Caches that no decision rests on.* `votes_cache`, `vote_uniquer`, `block_uniquer`,
  `block_arrival` and `gap_cache` speed things up or choose between two behaviours that the
  models allow at any time. Online representatives are a constant stake.
* *Wallets*: backup, JSON export and import, representatives, watch-only entries, and
  `wallets::reload`, which reacts to another process on the same database.
* *Block store*: the upgrades from versions before 11 are one write transaction before the
  node starts, a sequential conversion of formats. Readers during the upgrade to version 13
  are left out.
* *Graphical wallet*: widgets over the wallet. Its one step on the node, the restore, is in
  `WalletStore`.
* *Cryptography, number types, big integers*: constants and fields of the models.
* *Tests and tools* (`core_test`, `slow_test`, `rpc_test`, `qt_test`, `nano_node`): they
  drive the components above.

Block processor and elections are not composed in one module: together their state spaces
are out of TLC's reach with more than one fork. Each has the other's visible steps as its
environment (`ForceBlock` here, `ForceNext` and `stored` there).
