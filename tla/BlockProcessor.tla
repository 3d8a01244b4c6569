--------------------------- MODULE BlockProcessor ---------------------------
(***************************************************************************)
(* The block processor, nano/node/blockprocessor.cpp: the thread that runs *)
(* process_blocks, the threads that hand it blocks (add, force), the       *)
(* thread that waits for it (flush) and the node's shutdown (stop).        *)
(*                                                                         *)
(* All blocks from the network reach the ledger through it, so this module *)
(* extends Ledger: the ledger's tables are changed by Process and by the   *)
(* steps of a rollback, here taken by the processor's thread.  Two other   *)
(* writers are left out: the RPC `process', which calls process_one for    *)
(* one block in a write transaction of its own, and unchecked_cleanup,     *)
(* which deletes old entries of the unchecked table.  The deque `blocks'   *)
(* of the class is `queue' here.  The mutex is held from one label of `pc' *)
(* to the next, except at the labels themselves, where other threads run.  *)
(*                                                                         *)
(* The write transaction opens at BeginWrite and commits at EndBatch;      *)
(* `disk' is what a crash leaves.  Calls to other components (elections,   *)
(* vote generator, network) change nothing that is modelled here.          *)
(***************************************************************************)
EXTENDS Ledger

CONSTANTS
    Deliveries,     \* <<h, a>>: block h may be added, with known account a or Zero
    Damaged,        \* blocks of which copies with another signature are about, too
    Winners,        \* blocks an election may confirm and force
    ForcedMax,      \* bound on the length of forced
    VerifyMax,      \* max_verification_batch
    RolledBackMax,  \* block_processor::rolled_back_max
    MaxCrashes,     \* bound on the number of crashes
    MayFlush,       \* does a thread call flush?
    MayStop         \* is the node shut down?

ASSUME DeliveriesAssumption == Deliveries \subseteq Hash \X Key /\ Winners \subseteq Hash \ {Genesis}
ASSUME DamagedAssumption == Damaged \subseteq Hash
ASSUME BoundsAssumption == /\ ForcedMax \in Nat /\ VerifyMax \in Nat \ {0}
                           /\ RolledBackMax \in Nat \ {0}
                           /\ MaxCrashes \in Nat /\ {MayFlush, MayStop} \subseteq BOOLEAN

VARIABLES
    queue,          \* blocks: ready for ledger::process
    state_blocks,   \* waiting for their signature to be verified
    blocks_hashes,  \* hashes that add refuses as already queued
    forced,         \* winners of elections
    rolled_back,    \* hashes that add refuses as rolled back, oldest first
    unchecked,      \* table: <<missing dependency, hash>> -> account and verification
    gap_cache,      \* hashes in node.gap_cache
    items,          \* local to verify_state_blocks
    item,           \* local to process_batch: the block at work
    fresh,          \* local to process_batch: the timer was started just now
    pc,             \* where process_blocks is
    after,          \* where verify_state_blocks returns to
    asleep,         \* threads in condition.wait
    flusher,        \* a thread calling flush
    stopped,
    disk,           \* the last committed tables
    crashes         \* number of crashes so far

queues == <<queue, state_blocks, blocks_hashes>>
locals == <<items, item, fresh, after>>
threads == <<asleep, flusher, stopped>>
bpvars == <<vars, queues, forced, rolled_back, unchecked, gap_cache, locals, pc, threads, disk,
            crashes>>

UncheckedInfo == [hash : Hash, account : Key, verified : Verification]

NoItem == [hash |-> Genesis, account |-> Zero, verified |-> "unknown"]

Persistent == <<blocks, accounts, pending, representation, frontiers, unchecked>>

have_blocks == queue # <<>> \/ forced # <<>> \/ state_blocks # <<>>

\* process_blocks sets active while process_batch runs
active == pc \notin {"top", "wait", "exit"}

Hashes(s) == {s[i].hash : i \in DOMAIN s}
Hashed(s) == {s[i] : i \in DOMAIN s}
-----------------------------------------------------------------------------
(* add, force, stop, flush *)

\* Blocks whose signature is verified in a batch before ledger::process
Unverified == {info \in UncheckedInfo :
    /\ info.verified = "unknown"
    /\ Content[info.hash].type \in {"state", "open"} \/ info.account # Zero}

\* Mutant: a block being verified is no longer known
Refused_queued(h) == h \in Hashes(queue) \cup Hashes(state_blocks) \cup Hashed(rolled_back)

Refused(h) == h \in blocks_hashes \/ h \in Hashed(rolled_back)

\* add, for several blocks in turn; condition.notify_all wakes every waiter
AddAll(infos) ==
    LET accepted == Kept(infos, {info \in UncheckedInfo : ~Refused(info.hash)})
    IN /\ state_blocks' = state_blocks \o Kept(accepted, Unverified)
       /\ queue' = queue \o Kept(accepted, UncheckedInfo \ Unverified)
       /\ blocks_hashes' = blocks_hashes \cup Hashes(accepted)
       /\ asleep' = IF infos = <<>> THEN asleep ELSE {}

Add(h, a) ==
    /\ AddAll(<<[hash |-> h, account |-> a, verified |-> "unknown"]>>)
    /\ UNCHANGED <<vars, forced, rolled_back, unchecked, gap_cache, locals, pc, flusher,
                   stopped, disk, crashes>>

ForceBlock(h) ==
    /\ Len(forced) < ForcedMax
    /\ forced' = Append(forced, h)
    /\ asleep' = {}
    /\ UNCHANGED <<vars, queues, rolled_back, unchecked, gap_cache, locals, pc, flusher,
                   stopped, disk, crashes>>

Stop ==
    /\ MayStop /\ ~stopped
    /\ stopped' = TRUE
    /\ asleep' = {}
    /\ UNCHANGED <<vars, queues, forced, rolled_back, unchecked, gap_cache, locals, pc,
                   flusher, disk, crashes>>

\* The loop of flush: test, then wait or return
Flush ==
    /\ MayFlush /\ flusher \in {"off", "waiting"} /\ "flusher" \notin asleep
    /\ IF ~stopped /\ (have_blocks \/ active)
       THEN flusher' = "waiting" /\ asleep' = asleep \cup {"flusher"}
       ELSE flusher' = "done" /\ UNCHANGED asleep
    /\ UNCHANGED <<vars, queues, forced, rolled_back, unchecked, gap_cache, locals, pc,
                   stopped, disk, crashes>>
-----------------------------------------------------------------------------
(* process_blocks *)

\* Mutant: no notify_all before waiting
Top_silent ==
    /\ pc = "top"
    /\ pc' = IF stopped THEN "exit" ELSE IF have_blocks THEN "batch" ELSE "wait"
    /\ asleep' = IF pc' = "wait" THEN asleep \cup {"processor"} ELSE asleep
    /\ fresh' = TRUE
    /\ UNCHANGED <<vars, queues, forced, rolled_back, unchecked, gap_cache, items, item, after,
                   flusher, stopped, disk, crashes>>

\* The head of the loop: leave, start a batch, or notify and wait
Top ==
    /\ pc = "top"
    /\ pc' = IF stopped THEN "exit" ELSE IF have_blocks THEN "batch" ELSE "wait"
    /\ asleep' = IF pc' = "wait" THEN {"processor"} ELSE asleep
    /\ fresh' = TRUE
    /\ UNCHANGED <<vars, queues, forced, rolled_back, unchecked, gap_cache, items, item, after,
                   flusher, stopped, disk, crashes>>

Wake ==
    /\ pc = "wait" /\ "processor" \notin asleep
    /\ pc' = "top"
    /\ UNCHANGED <<vars, queues, forced, rolled_back, unchecked, gap_cache, locals, threads, disk, crashes>>
-----------------------------------------------------------------------------
(* verify_state_blocks, which gives up the mutex while signatures are checked *)

\* Take up to VerifyMax blocks, dropping those already in the ledger
VerifyTake(back) ==
    LET n == IF Len(state_blocks) < VerifyMax THEN Len(state_blocks) ELSE VerifyMax
    IN /\ items' = Kept(SubSeq(state_blocks, 1, n), {info \in UncheckedInfo : ~Exists(info.hash)})
       /\ state_blocks' = SubSeq(state_blocks, n + 1, Len(state_blocks))
       /\ pc' = "verify"
       /\ after' = back

\* block::link is zero for all but state blocks
HasEpochLink(h) == Content[h].type = "state" /\ is_epoch_link(Content[h].link)

\* The key the signature is checked against
SigningKey(info) ==
    CASE HasEpochLink(info.hash) -> EpochSigner
      [] ~HasEpochLink(info.hash) /\ info.account # Zero -> info.account
      [] OTHER -> Content[info.hash].account

\* Mutant: the block goes on whatever the signature check says
VerifiedItems_all(s, bad) ==
    [i \in DOMAIN s |-> [s[i] EXCEPT !.verified =
        IF HasEpochLink(s[i].hash) THEN "valid_epoch" ELSE "valid"]]

\* Blocks with a bad signature are dropped, unless they may be sends to the
\* epoch link, which ledger::process will tell.  The hash does not cover the
\* signature: of the blocks in `bad' it is not the one in Content that was received.
VerifiedItems(s, bad) ==
    LET signed(info) == info.hash \notin bad /\ SignedBy(info.hash, SigningKey(info))
        kept == Kept(s, {info \in UncheckedInfo : HasEpochLink(info.hash) \/ signed(info)})
    IN [i \in DOMAIN kept |-> [kept[i] EXCEPT !.verified =
            CASE HasEpochLink(kept[i].hash) /\ signed(kept[i]) -> "valid_epoch"
              [] HasEpochLink(kept[i].hash) /\ ~signed(kept[i]) -> "unknown"
              [] OTHER -> "valid"]]

\* A block that is dropped stays in blocks_hashes.
VerifyDone ==
    /\ pc = "verify"
    /\ \E bad \in SUBSET (Damaged \cap Hashes(items)) : queue' = queue \o VerifiedItems(items, bad)
    /\ items' = <<>>
    /\ fresh' = (after = "process" /\ fresh)
    /\ pc' = after
    /\ UNCHANGED <<vars, state_blocks, blocks_hashes, forced, rolled_back, unchecked, gap_cache,
                   item, after, threads, disk, crashes>>
-----------------------------------------------------------------------------
(* process_batch *)

\* The first batches of state blocks are verified under a read transaction
BatchVerify ==
    /\ pc = "batch" /\ state_blocks # <<>>
    /\ VerifyTake("batch")
    /\ UNCHANGED <<vars, queue, blocks_hashes, forced, rolled_back, unchecked, gap_cache, item,
                   fresh, threads, disk, crashes>>

\* The 2 seconds for verification are over, or nothing is left to verify
BeginWrite ==
    /\ pc = "batch" /\ (state_blocks = <<>> \/ ~fresh)
    /\ pc' = "process"
    /\ fresh' = TRUE
    /\ UNCHANGED <<vars, queues, forced, rolled_back, unchecked, gap_cache, items, item, after,
                   threads, disk, crashes>>

\* Mutant: a block that is refused stays known
TakeBlock_keep ==
    /\ pc = "process" /\ forced = <<>> /\ queue # <<>>
    /\ item' = Head(queue)
    /\ queue' = Tail(queue)
    /\ pc' = "one"
    /\ fresh' = FALSE
    /\ UNCHANGED <<vars, state_blocks, blocks_hashes, forced, rolled_back, unchecked, gap_cache,
                   items, after, threads, disk, crashes>>

TakeBlock ==
    /\ pc = "process" /\ forced = <<>> /\ queue # <<>>
    /\ item' = Head(queue)
    /\ queue' = Tail(queue)
    /\ blocks_hashes' = blocks_hashes \ {Head(queue).hash}
    /\ pc' = "one"
    /\ fresh' = FALSE
    /\ UNCHANGED <<vars, state_blocks, forced, rolled_back, unchecked, gap_cache, items, after,
                   threads, disk, crashes>>

TakeForced ==
    /\ pc = "process" /\ forced # <<>>
    /\ item' = [hash |-> Head(forced), account |-> Zero, verified |-> "unknown"]
    /\ forced' = Tail(forced)
    /\ pc' = "force"
    /\ fresh' = FALSE
    /\ UNCHANGED <<vars, queues, rolled_back, unchecked, gap_cache, items, after, threads, disk, crashes>>

\* Mutant: only the first block of an account is replaced
Successor_open(h) == IF Content[h].previous = Zero THEN Info(Content[h].account).open_block ELSE Zero

\* ledger::successor of the root of block h
Successor(h) ==
    LET b == Content[h]
    IN CASE b.previous = Zero /\ account_exists(b.account) -> Info(b.account).open_block
         [] b.previous # Zero /\ Exists(b.previous) -> blocks[b.previous].successor
         [] OTHER -> Zero

\* Another block has the root of the winner: roll it back
BeginRollback ==
    /\ pc = "force" /\ Successor(item.hash) \notin {Zero, item.hash}
    /\ Rollback(Successor(item.hash))
    /\ pc' = "rollback"
    /\ UNCHANGED <<queues, forced, rolled_back, unchecked, gap_cache, locals, threads, disk, crashes>>

NoRollback ==
    /\ pc = "force" /\ Successor(item.hash) \in {Zero, item.hash}
    /\ pc' = "one"
    /\ UNCHANGED <<vars, queues, forced, rolled_back, unchecked, gap_cache, locals, threads, disk, crashes>>

\* Mutant: the oldest hash is kept when the list overflows
BanRolledBack_grow(h, winner) ==
    IF h \in Hashed(rolled_back) THEN rolled_back
    ELSE Kept(Append(rolled_back, h), Hash \ {winner})

\* rolled_back.insert of the block rolled back, which may evict the oldest
BanRolledBack(h, winner) ==
    LET s == Kept(Append(rolled_back, h), Hash \ {winner})
    IN IF h \in Hashed(rolled_back) THEN rolled_back
       ELSE IF Len(s) > RolledBackMax THEN Tail(s) ELSE s

\* One step of ledger::rollback; the last return bans the block rolled back
RollBack ==
    /\ pc = "rollback"
    /\ RollbackStep
    /\ IF rolling' = <<>>
       THEN pc' = "one" /\ rolled_back' = BanRolledBack(Head(rolling), item.hash)
       ELSE UNCHANGED <<pc, rolled_back>>
    /\ UNCHANGED <<queues, forced, unchecked, gap_cache, locals, threads, disk, crashes>>

\* process_return::verified when the verdict is a gap
VerifiedByLedger(h, v) ==
    CASE Content[h].type = "state" /\ MissingEpochPrevious(h) /\ v = "unknown" ->
            IF SignedBy(h, Content[h].account) THEN "valid" ELSE "valid_epoch"
      [] Content[h].type = "state" /\ ~MissingEpochPrevious(h) -> "valid"
      [] Content[h].type = "open" -> "valid"
      [] Content[h].type = "receive" /\ Exists(Content[h].previous) -> "valid"
      [] OTHER -> v

\* Mutant: no unchecked_del
queue_unchecked_keep(h) ==
    /\ AddAll(InSomeOrder({[hash |-> k[2], account |-> unchecked[k].account,
                         verified |-> unchecked[k].verified] : k \in {j \in DOMAIN unchecked : j[1] = h}}))
    /\ gap_cache' = gap_cache \ {h}
    /\ UNCHANGED unchecked
\* Mutant: the gap stays open
queue_unchecked_gap(h) ==
    LET waiting == {k \in DOMAIN unchecked : k[1] = h}
    IN /\ unchecked' = [k \in DOMAIN unchecked \ waiting |-> unchecked[k]]
       /\ AddAll(InSomeOrder({[hash |-> k[2], account |-> unchecked[k].account,
                            verified |-> unchecked[k].verified] : k \in waiting}))
       /\ UNCHANGED gap_cache

\* The blocks that wait for h move from the unchecked table to the queues
queue_unchecked(h) ==
    LET waiting == {k \in DOMAIN unchecked : k[1] = h}
    IN /\ unchecked' = [k \in DOMAIN unchecked \ waiting |-> unchecked[k]]
       /\ AddAll(InSomeOrder({[hash |-> k[2], account |-> unchecked[k].account,
                            verified |-> unchecked[k].verified] : k \in waiting}))
       /\ gap_cache' = gap_cache \ {h}

\* A gap: the block waits in the unchecked table under what it misses
PutUnchecked(h, missing) ==
    /\ unchecked' = Put(unchecked, <<missing, h>>,
                        [account |-> item.account, verified |-> VerifiedByLedger(h, item.verified)])
    /\ gap_cache' = gap_cache \cup {h}
    /\ UNCHANGED <<vars, queues, asleep>>

\* May ledger::process find a bad signature on a copy of block h?  It looks for the
\* block and, unless it is a state or open block, for the one before it first.
BadCopy(h, v) ==
    /\ h \in Damaged /\ v = "unknown" /\ ~Exists(h)
    /\ Content[h].type \in {"state", "open"} \/ Exists(Content[h].previous)

\* process_one
ProcessOne ==
    /\ pc = "one"
    /\ LET h == item.hash
           verdict == ProcessResult(h, item.verified)
       IN \/ Process(h, item.verified) /\ queue_unchecked(h)
          \/ verdict = "old" /\ UNCHANGED vars /\ queue_unchecked(h)
          \/ verdict = "gap_previous" /\ PutUnchecked(h, Content[h].previous)
          \/ verdict = "gap_source" /\ PutUnchecked(h, block_source(h))
          \/ /\ \/ verdict \notin {"progress", "old", "gap_previous", "gap_source"}
                \/ BadCopy(h, item.verified)
             /\ UNCHANGED <<vars, queues, unchecked, gap_cache, asleep>>
    /\ pc' = "more"
    /\ UNCHANGED <<forced, rolled_back, locals, flusher, stopped, disk, crashes>>

\* After each block: verify more if only unverified blocks are left
VerifyMore ==
    /\ pc = "more"
    /\ IF queue = <<>> /\ state_blocks # <<>>
       THEN VerifyTake("process")
       ELSE pc' = "process" /\ UNCHANGED <<items, state_blocks, after>>
    /\ UNCHANGED <<vars, queue, blocks_hashes, forced, rolled_back, unchecked, gap_cache, item,
                   fresh, threads, disk, crashes>>

\* Nothing left or out of time: the write transaction commits
EndBatch ==
    /\ pc = "process" /\ ((queue = <<>> /\ forced = <<>>) \/ ~fresh)
    /\ disk' = Persistent
    /\ item' = NoItem
    /\ pc' = "top"
    /\ UNCHANGED <<vars, queues, forced, rolled_back, unchecked, gap_cache, items, fresh, after,
                   threads, crashes>>
-----------------------------------------------------------------------------
\* The process dies and starts again: only what was committed is left
Crash ==
    /\ crashes < MaxCrashes /\ crashes' = crashes + 1
    /\ blocks' = disk[1] /\ accounts' = disk[2] /\ pending' = disk[3]
    /\ representation' = disk[4] /\ frontiers' = disk[5] /\ unchecked' = disk[6]
    /\ rolling' = <<>> /\ queue' = <<>> /\ state_blocks' = <<>> /\ blocks_hashes' = {}
    /\ forced' = <<>> /\ rolled_back' = <<>> /\ gap_cache' = {}
    /\ items' = <<>> /\ item' = NoItem /\ fresh' = TRUE /\ after' = "batch" /\ pc' = "top"
    /\ asleep' = {} /\ flusher' = "off" /\ stopped' = FALSE
    /\ UNCHANGED disk

BPInit ==
    /\ Init
    /\ queue = <<>> /\ state_blocks = <<>> /\ blocks_hashes = {}
    /\ forced = <<>> /\ rolled_back = <<>> /\ gap_cache = {}
    /\ unchecked = [k \in {} |-> NoItem]
    /\ items = <<>> /\ item = NoItem /\ fresh = TRUE /\ after = "batch" /\ pc = "top"
    /\ asleep = {} /\ flusher = "off" /\ stopped = FALSE
    /\ disk = Persistent /\ crashes = 0

ProcessorStep ==
    \/ Top \/ Wake \/ VerifyDone \/ BatchVerify \/ BeginWrite \/ TakeBlock \/ TakeForced
    \/ BeginRollback \/ NoRollback \/ RollBack \/ ProcessOne \/ VerifyMore \/ EndBatch

BPNext ==
    \/ \E d \in Deliveries : Add(d[1], d[2])
    \/ \E h \in Winners : ForceBlock(h)
    \/ Stop \/ Flush \/ ProcessorStep \/ Crash

\* The processor's thread and the thread in flush keep running, and the deadlines
\* of a batch expire however many blocks are still being added to it
ProcessorFairness ==
    WF_bpvars(ProcessorStep) /\ SF_bpvars(BeginWrite) /\ SF_bpvars(EndBatch)

BPSpec == BPInit /\ [][BPNext]_bpvars /\ ProcessorFairness /\ WF_bpvars(Flush)
-----------------------------------------------------------------------------
(* Properties *)

\* The queues hold blocks, and the list of rolled back blocks never outgrows
\* rolled_back_max (process_batch evicts the oldest).
BPTypeOK ==
    /\ queue \in Seq(UncheckedInfo) /\ state_blocks \in Seq(UncheckedInfo)
    /\ items \in Seq(UncheckedInfo) /\ item \in UncheckedInfo
    /\ blocks_hashes \subseteq Hash /\ gap_cache \subseteq Hash
    /\ forced \in Seq(Winners)
    /\ rolled_back \in Seq(Hash) /\ Len(rolled_back) <= RolledBackMax
    /\ DOMAIN unchecked \subseteq Link \X Hash
    /\ pc \in {"top", "wait", "exit", "batch", "verify", "process", "force", "rollback", "one", "more"}
    /\ after \in {"batch", "process"} /\ fresh \in BOOLEAN /\ stopped \in BOOLEAN
    /\ asleep \subseteq {"processor", "flusher"}
    /\ flusher \in {"off", "waiting", "done"}

Queued == queue \o state_blocks \o items

\* A block is queued at most once and is known as queued from add until it is
\* handed to process_one, also while verify_state_blocks works on it without the
\* mutex (blocks_hashes).
QueuedOnce ==
    /\ Hashes(Queued) \subseteq blocks_hashes
    /\ \A i, j \in DOMAIN Queued : Queued[i].hash = Queued[j].hash => i = j

\* Block h names p, which is in the ledger, as the block before it although p is in
\* the chain of another account, or as its source although p sends nothing: no
\* order of arrival will ever make h valid
Misplaced(p, h) ==
    \/ Content[h].type = "state" /\ Content[h].previous = p /\ AccountOf(p) # Content[h].account
    \/ Content[h].link = p /\ Content[p].type \notin {"state", "send"}

\* A block in the unchecked table misses what it is filed under: whatever the
\* order of arrival, rollbacks and crashes, no block that may become valid waits for
\* one that is in the ledger (process_one and queue_unchecked share the write
\* transaction).
UncheckedWaits == \A k \in DOMAIN unchecked : Exists(k[1]) => Misplaced(k[1], k[2])

\* The gap cache, which asks for a bootstrap when enough votes arrive for a
\* missing block, holds no block that is in the ledger (queue_unchecked).
GapsAreMissing == gap_cache \cap DOMAIN blocks = {}

\* A block that add was given is held in one place while it is of use: queued once,
\* waiting in unchecked for a block that is missing, or in the ledger.
ArrivalsHeld == BPTypeOK /\ QueuedOnce /\ UncheckedWaits /\ GapsAreMissing

\* The tables change only as ledger::process, given a truthful result of the
\* signature check, and complete calls of ledger::rollback change them; a crash
\* takes them back to the last commit.
LedgerSafety == Init /\ [][vars' # vars => Next \/ Crash]_vars

\* What the comment at rolled_back.insert says: a block that lost to the winner of
\* an election is not inserted a second time (unless it wins one itself).
NoSecondInsertion == Hashed(rolled_back) \cap DOMAIN blocks \subseteq Winners

\* flush returns once the processor stays idle: process_blocks notifies before it
\* waits, so the wakeup is not lost.
FlushReturns == <>[](~have_blocks /\ ~active) => (flusher = "waiting" ~> flusher # "waiting")

\* Is what block h depends on in the ledger?
DependenciesExist(h) ==
    /\ Content[h].previous # Zero => Exists(Content[h].previous)
    /\ Content[h].link \in Hash => Exists(Content[h].link)

\* The winner of an election gets into the ledger in place of its rival, unless
\* something it depends on is missing or lost to a rival itself.
WinnerInserted ==
    \A w \in Winners : w \in Hashed(forced) ~> Exists(w) \/ ~DependenciesExist(w) \/ stopped
=============================================================================
