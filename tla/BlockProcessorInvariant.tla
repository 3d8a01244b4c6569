---------------------- MODULE BlockProcessorInvariant ----------------------
(***************************************************************************)
(* The inductive invariant of the block processor, next to that of the     *)
(* ledger: what the queues and the unchecked table say of a block's        *)
(* signature is true, in memory and on disk, a block is queued once, and a *)
(* rollback is under way only where process_batch waits for it.            *)
(***************************************************************************)
EXTENDS BlockProcessor, LedgerAudit

\* process_one aborts the node (release_assert) when a caller names the account of
\* a block and it is not the one whose chain the block is part of
ASSUME KnownAccountAssumption == \A d \in Deliveries : d[2] \in {Zero, Owner[d[1]]}

\* Entries that name the right account and the outcome of a signature check
Truthful == {info \in UncheckedInfo :
    /\ info.account \in {Zero, Owner[info.hash]}
    /\ info.verified = "valid" => SignedBy(info.hash, Owner[info.hash])
    /\ info.verified = "valid_epoch" => SignedBy(info.hash, EpochSigner)}

Entry(table, k) == [hash |-> k[2], account |-> table[k].account, verified |-> table[k].verified]

\* Misplaced, from the contents alone
NeverFits(p, h) ==
    \/ Content[h].type = "state" /\ Content[h].previous = p /\ Owner[p] # Content[h].account
    \/ Content[h].link = p /\ Content[p].type \notin {"state", "send"}

\* An unchecked table with true entries, next to a blocks table
UncheckedInv(table, ledger) ==
    /\ DOMAIN table \subseteq Link \X Hash
    /\ \A k \in DOMAIN table : /\ Entry(table, k) \in Truthful
                               /\ k[1] \in DOMAIN ledger => NeverFits(k[1], k[2])

\* No two elements are for the same block
Distinct(s) == \A i, j \in DOMAIN s : s[i].hash = s[j].hash => i = j

\* QueuedOnce, queue by queue
Apart(q, s, i, known) ==
    /\ Hashes(q) \cup Hashes(s) \cup Hashes(i) \subseteq known
    /\ Distinct(q) /\ Distinct(s) /\ Distinct(i)
    /\ Hashes(q) \cap Hashes(s) = {}
    /\ Hashes(q) \cap Hashes(i) = {}
    /\ Hashes(s) \cap Hashes(i) = {}

QueuesApart == Apart(queue, state_blocks, items, blocks_hashes)

\* ledger::process trusts the result of the batch verification that travels with a
\* block, through the queues, the unchecked table and restarts: it is always true.
QueuesInv ==
    /\ queue \in Seq(Truthful) /\ state_blocks \in Seq(Truthful \cap Unverified)
    /\ items \in Seq(Truthful \cap Unverified)
    /\ blocks_hashes \subseteq Hash
    /\ QueuesApart

TableInv ==
    /\ UncheckedInv(unchecked, blocks)
    /\ gap_cache \subseteq Hash /\ GapsAreMissing

DiskInv == UncheckedInv(disk[6], disk[1])

\* A rollback is under way only where process_batch waits for it
LocalInv ==
    /\ item \in Truthful
    /\ rolling # <<>> <=> pc = "rollback"
    /\ forced \in Seq(Winners)
    /\ rolled_back \in Seq(Hash) /\ Len(rolled_back) <= RolledBackMax
    /\ pc \in {"top", "wait", "exit", "batch", "verify", "process", "force", "rollback", "one", "more"}
    /\ after \in {"batch", "process"} /\ fresh \in BOOLEAN /\ stopped \in BOOLEAN
    /\ asleep \subseteq {"processor", "flusher"}
    /\ flusher \in {"off", "waiting", "done"}

\* What the processor keeps next to the ledger
ProcessorInv == QueuesInv /\ TableInv /\ DiskInv /\ LocalInv
=============================================================================
