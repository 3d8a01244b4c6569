----------------------------- MODULE VoteSequence -----------------------------
(***************************************************************************)
(* The sequence numbers of a representative's votes, in the representative *)
(* and in a node that hears its votes (nano/node/lmdb.cpp: vote_current,   *)
(* vote_generate, vote_max, flush; nano/node/node.cpp: ongoing_store_flush *)
(* and the replay in vote_processor::vote_blocking).                       *)
(*                                                                         *)
(* The latest vote is in the first cache, in the second one, which is      *)
(* being written, or in the table as the caller's read transaction saw it  *)
(* when it began.  The caches are lost in a crash.  A vote is its sequence *)
(* number, 0 none; votes on the wire are lost, repeated and reordered.     *)
(***************************************************************************)
EXTENDS Naturals, FiniteSetsExt

CONSTANTS
    SequenceReader, \* read transactions, "hear" that of the node that hears votes
    ReplayGap,      \* 10000 in vote_blocking
    MaxSequence,    \* bound: votes generated
    MaxSequenceCrashes \* bound: crashes of the representative

VARIABLES
    vote_cache_l1, vote_cache_l2, vote_table,   \* of each node
    storing,        \* flush of each node: between the swap and the commit
    reading,        \* read transactions
    wire,           \* votes sent, and votes replayed: each is heard any number of times
    highest,        \* the highest number each node has had since it started
    swapped,        \* history: the highest number when the flush that goes on began, else 0
    misled,         \* history: a node took a number other than the highest for the latest
    sequenceCrashes

sequenceVars == <<vote_cache_l1, vote_cache_l2, vote_table, storing, reading, wire,
                  highest, swapped, misled, sequenceCrashes>>
caches == <<vote_cache_l1, vote_cache_l2, vote_table, storing>>

VoteNode == {"rep", "peer"}
NodeOf(t) == IF t = "hear" THEN "peer" ELSE "rep"

\* saw: the table when it began; outlived: a flush has written the table since and the next
\* one has begun, while the transaction is still open (one transaction serves a whole batch
\* of votes in vote_processor::process_loop, and flushes are 5 s apart).
NotReading == [open |-> FALSE, saw |-> 0, outlived |-> FALSE]

ReadBegin(t) ==
    /\ ~reading[t].open
    /\ reading' = [reading EXCEPT ![t] = [NotReading EXCEPT !.open = TRUE, !.saw = vote_table[NodeOf(t)]]]
    /\ UNCHANGED <<caches, wire, highest, swapped, misled, sequenceCrashes>>

ReadEnd(t) ==
    /\ reading[t].open
    /\ reading' = [reading EXCEPT ![t] = NotReading]
    /\ UNCHANGED <<caches, wire, highest, swapped, misled, sequenceCrashes>>

vote_current_l1(t) == IF vote_cache_l1[NodeOf(t)] # 0 THEN vote_cache_l1[NodeOf(t)] ELSE reading[t].saw
vote_current(t) ==
    LET n == NodeOf(t)
    IN  IF vote_cache_l1[n] # 0 THEN vote_cache_l1[n]
        ELSE IF vote_cache_l2[n] # 0 THEN vote_cache_l2[n]
        ELSE reading[t].saw

Misled(t) == [misled EXCEPT ![NodeOf(t)] = @ \/ vote_current(t) # highest[NodeOf(t)]]

\* vote_generate, and the vote goes out.
VoteGenerate(t) ==
    LET sequence == vote_current(t) + 1
    IN  /\ NodeOf(t) = "rep" /\ reading[t].open /\ sequence <= MaxSequence
        /\ vote_cache_l1' = [vote_cache_l1 EXCEPT !["rep"] = sequence]
        /\ wire' = [wire EXCEPT !.sent = @ \cup {sequence}]
        /\ highest' = [highest EXCEPT !["rep"] = Max({@, sequence})]
        /\ misled' = Misled(t)
        /\ UNCHANGED <<vote_cache_l2, vote_table, storing, reading, swapped, sequenceCrashes>>

\* vote_max, for a vote that was heard; one that is far behind is answered with the latest.
max_vote_heard(t, s) == s
max_vote(t, s) == Max({vote_current(t), s})
Replays(t, s) == IF max_vote(t, s) > s + ReplayGap THEN {max_vote(t, s)} ELSE {}

VoteHeard(t, s) ==
    /\ reading[t].open
    /\ s \in IF NodeOf(t) = "rep" THEN wire.replayed ELSE wire.sent
    /\ vote_cache_l1' = [vote_cache_l1 EXCEPT ![NodeOf(t)] = max_vote(t, s)]
    /\ wire' = [wire EXCEPT !.replayed = @ \cup IF NodeOf(t) = "rep" THEN {} ELSE Replays(t, s)]
    /\ highest' = [highest EXCEPT ![NodeOf(t)] = Max({@, s})]
    /\ misled' = Misled(t)
    /\ UNCHANGED <<vote_cache_l2, vote_table, storing, reading, swapped, sequenceCrashes>>

\* ongoing_store_flush: the caches are swapped and the first one cleared, then the second
\* is written and the transaction commits.
Outlived(n) == [t \in SequenceReader |->
    [reading[t] EXCEPT !.outlived = @ \/ (NodeOf(t) = n /\ reading[t].open /\ reading[t].saw # vote_table[n])]]

FlushSwap(n) ==
    /\ ~storing[n] /\ storing' = [storing EXCEPT ![n] = TRUE]
    /\ vote_cache_l2' = [vote_cache_l2 EXCEPT ![n] = vote_cache_l1[n]]
    /\ vote_cache_l1' = [vote_cache_l1 EXCEPT ![n] = 0]
    /\ reading' = Outlived(n)
    /\ swapped' = [swapped EXCEPT ![n] = highest[n]]
    /\ UNCHANGED <<vote_table, wire, highest, misled, sequenceCrashes>>

FlushCommit(n) ==
    /\ storing[n] /\ storing' = [storing EXCEPT ![n] = FALSE]
    /\ vote_table' = [vote_table EXCEPT ![n] = IF vote_cache_l2[n] # 0 THEN vote_cache_l2[n] ELSE @]
    /\ swapped' = [swapped EXCEPT ![n] = 0]
    /\ UNCHANGED <<vote_cache_l1, vote_cache_l2, reading, wire, highest, misled, sequenceCrashes>>

RepCrash ==
    /\ sequenceCrashes < MaxSequenceCrashes /\ sequenceCrashes' = sequenceCrashes + 1
    /\ vote_cache_l1' = [vote_cache_l1 EXCEPT !["rep"] = 0]
    /\ vote_cache_l2' = [vote_cache_l2 EXCEPT !["rep"] = 0]
    /\ storing' = [storing EXCEPT !["rep"] = FALSE]
    /\ reading' = [t \in SequenceReader |-> IF NodeOf(t) = "rep" THEN NotReading ELSE reading[t]]
    /\ highest' = [highest EXCEPT !["rep"] = vote_table["rep"]]
    /\ swapped' = [swapped EXCEPT !["rep"] = 0]
    /\ misled' = [misled EXCEPT !["rep"] = FALSE]
    /\ UNCHANGED <<vote_table, wire>>

SequenceInit ==
    /\ vote_cache_l1 = [n \in VoteNode |-> 0] /\ vote_cache_l2 = vote_cache_l1
    /\ vote_table = vote_cache_l1 /\ storing = [n \in VoteNode |-> FALSE]
    /\ reading = [t \in SequenceReader |-> NotReading]
    /\ wire = [sent |-> {}, replayed |-> {}] /\ highest = vote_cache_l1
    /\ swapped = vote_cache_l1 /\ misled = [n \in VoteNode |-> FALSE] /\ sequenceCrashes = 0

SequenceNext ==
    \/ \E t \in SequenceReader : ReadBegin(t) \/ ReadEnd(t) \/ VoteGenerate(t)
    \/ \E t \in SequenceReader : \E s \in 1 .. MaxSequence : VoteHeard(t, s)
    \/ \E n \in VoteNode : FlushSwap(n) \/ FlushCommit(n)
    \/ RepCrash

SequenceSpec == SequenceInit /\ [][SequenceNext]_sequenceVars
-----------------------------------------------------------------------------
\* The latest vote is in sight of whoever looks between whichever steps of a flush: a
\* transaction finds the highest number its node has had (vote_current), unless it is so
\* old that one flush wrote the table and another began while it was open, or such a one
\* had misled the node before.  So apart from those transactions a representative does not use
\* a number twice between crashes, and a peer replays the highest vote it heard.
SequenceRemembered ==
    \A t \in SequenceReader :
        reading[t].open /\ ~reading[t].outlived /\ ~misled[NodeOf(t)] => vote_current(t) = highest[NodeOf(t)]

\* What a flush commits, from which the node continues after a crash, never goes back and
\* has every number up to the highest when that flush began (flush, ongoing_store_flush):
\* a crash takes back the numbers of the last flush interval at most.
TableDurable(n) ==
    /\ vote_table'[n] >= vote_table[n]
    /\ storing[n] /\ ~storing'[n] /\ sequenceCrashes' = sequenceCrashes => vote_table'[n] >= swapped[n]

\* Every step leaves the latest vote remembered and the table durable, as long as no
\* transaction that is too old misled the node.
SequencesKept ==
    [][SequenceRemembered' /\ \A n \in VoteNode : misled[n] \/ TableDurable(n)]_sequenceVars
-----------------------------------------------------------------------------
(* The inductive invariant of the proof.                                    *)
SequenceTypes ==
    /\ vote_cache_l1 \in [VoteNode -> Nat] /\ vote_cache_l2 \in [VoteNode -> Nat]
    /\ vote_table \in [VoteNode -> Nat] /\ highest \in [VoteNode -> Nat]
    /\ storing \in [VoteNode -> BOOLEAN] /\ misled \in [VoteNode -> BOOLEAN]
    /\ swapped \in [VoteNode -> Nat] /\ sequenceCrashes \in Nat
    /\ reading \in [SequenceReader -> [open : BOOLEAN, saw : Nat, outlived : BOOLEAN]]

\* The highest number is in the first place that holds one, and the second cache is no
\* older than the table: what it holds is being written, or has been.
NodeRemembers(n) ==
    /\ vote_table[n] <= highest[n]
    /\ vote_cache_l2[n] <= highest[n]
    /\ vote_cache_l1[n] # 0 => vote_cache_l1[n] = highest[n]
    /\ vote_cache_l1[n] = 0 => highest[n] = IF vote_cache_l2[n] # 0 THEN vote_cache_l2[n] ELSE vote_table[n]
    /\ vote_cache_l2[n] # 0 => /\ vote_table[n] <= vote_cache_l2[n]
                               /\ ~storing[n] => vote_table[n] = vote_cache_l2[n]
    /\ storing[n] => swapped[n] = IF vote_cache_l2[n] # 0 THEN vote_cache_l2[n] ELSE vote_table[n]

\* While both caches are empty an open transaction that is not too old sees the highest
\* number in the table.
ReaderSees(t) ==
    reading[t].open /\ ~reading[t].outlived /\ ~misled[NodeOf(t)] =>
        (vote_cache_l1[NodeOf(t)] = 0 /\ vote_cache_l2[NodeOf(t)] = 0
            => reading[t].saw = highest[NodeOf(t)])

SequenceInv ==
    /\ SequenceTypes
    /\ \A n \in VoteNode : misled[n] \/ NodeRemembers(n)
    /\ \A t \in SequenceReader : ReaderSees(t)
====
