---------------------------- MODULE AccountChain ----------------------------
(***************************************************************************)
(* The chain of one account.  The hash of a block covers the block before  *)
(* it and what the block itself does, and nothing else: a block is the     *)
(* sequence of what the blocks up to it do, itself last, and a chain is    *)
(* its last block.                                                         *)
(***************************************************************************)
EXTENDS Naturals, Sequences

\* block::previous, and what the block itself does
Before(b) == SubSeq(b, 1, Len(b) - 1)
LastOf(b) == b[Len(b)]

\* b is the block d, or one that d follows
Precedes(b, d) == Len(b) <= Len(d) /\ b = SubSeq(d, 1, Len(b))

BlocksOf(c) == {SubSeq(c, 1, n) : n \in 1 .. Len(c)}
=============================================================================
