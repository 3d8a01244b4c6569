-------------------------- MODULE LedgerInvariant --------------------------
(***************************************************************************)
(* The inductive invariant behind NoFork and NoDoubleReceive.  It speaks   *)
(* of heights instead of paths: within an account a height is taken by one *)
(* block, the head has the largest one, and the block before has the       *)
(* height before.                                                          *)
(***************************************************************************)
EXTENDS Ledger

\* The account that the chain of h belongs to, from the contents alone
Owner[h \in HashOrZero] ==
    IF h = Zero THEN Zero
    ELSE IF Content[h].type \in {"open", "state"} THEN Content[h].account
    ELSE Owner[Content[h].previous]

\* A hash covers the hash of the previous block, so walking back terminates
ASSUME OwnerAssumption ==
    \A h \in Hash : Owner[h] = IF Content[h].type \in {"open", "state"}
                               THEN Content[h].account
                               ELSE Owner[Content[h].previous]

\* epoch_block_impl does not look at the previous block of an account that is
\* not open yet: it relies on the holder of the epoch key to leave it zero, and
\* to name a block of the same account otherwise.
ASSUME EpochSignerAssumption ==
    \A h \in Hash :
        /\ Content[h].type = "state"
        /\ Content[h].signer = EpochSigner
        /\ Content[h].previous # Zero
        => Owner[Content[h].previous] = Content[h].account

\* A block of the ledger that leaves an amount to be received
SendBlock(h) == Content[h].type = "send" \/ (Content[h].type = "state" /\ is_send(h))

\* Every block sits on its previous block, one higher in the same account.
ChainInv ==
    /\ Genesis \in DOMAIN blocks
    /\ \A h \in DOMAIN blocks :
         LET p == Content[h].previous
         IN /\ blocks[h].account = Owner[h]
            /\ blocks[h].height >= 1
            /\ p = Zero => blocks[h].height = 1
            /\ p # Zero => /\ p \in DOMAIN blocks
                           /\ blocks[p].account = blocks[h].account
                           /\ blocks[h].height = blocks[p].height + 1
    /\ \A g, h \in DOMAIN blocks :
         blocks[g].account = blocks[h].account /\ blocks[g].height = blocks[h].height => g = h

\* The account tables know the highest block of every chain.
HeadInv ==
    /\ DOMAIN accounts[0] \cap DOMAIN accounts[1] = {}
    /\ \A h \in DOMAIN blocks : /\ account_exists(blocks[h].account)
                                /\ blocks[h].height <= Info(blocks[h].account).block_count
    /\ \A a \in Account : account_exists(a) =>
         /\ Info(a).head \in DOMAIN blocks
         /\ blocks[Info(a).head].account = a
         /\ blocks[Info(a).head].height = Info(a).block_count
         /\ blocks[Info(a).head].balance = Info(a).balance

\* Legacy blocks sit on legacy blocks, and a frontier is a legacy head.
LegacyInv ==
    /\ \A h \in DOMAIN blocks : Content[h].type \in {"send", "receive", "change"} =>
         /\ Content[h].previous # Zero
         /\ Content[Content[h].previous].type \in LegacyType
    /\ \A h \in DOMAIN blocks : Content[h].type = "change" =>
         blocks[h].balance = blocks[Content[h].previous].balance
    /\ \A h \in DOMAIN blocks : Content[h].type \in {"receive", "open"} /\ h # Genesis =>
         Content[h].link \in Hash
    /\ \A h \in DOMAIN frontiers :
         /\ h \in DOMAIN blocks
         /\ Content[h].type \in LegacyType
         /\ frontiers[h] = blocks[h].account
         /\ Info(blocks[h].account).head = h

\* A send is pending under its destination until one block of the destination
\* receives it.
PendingInv ==
    /\ DOMAIN pending[0] \cap DOMAIN pending[1] = {}
    /\ \A e \in Epoch : \A k \in DOMAIN pending[e] :
         /\ k[2] \in DOMAIN blocks
         /\ SendBlock(k[2])
         /\ k[1] = Content[k[2]].link
         /\ pending[e][k].source = blocks[k[2]].account
         /\ \A r \in DOMAIN blocks : Received(r) # k[2]
    /\ \A s \in DOMAIN blocks : SendBlock(s) =>
         \/ pending_exists(<<Content[s].link, s>>)
         \/ \E r \in DOMAIN blocks : Received(r) = s
    /\ \A r \in DOMAIN blocks : Received(r) # Zero =>
         /\ Received(r) \in DOMAIN blocks
         /\ SendBlock(Received(r))
         /\ Content[Received(r)].link = blocks[r].account

\* No call of rollback is for the genesis block.
RollingInv == \A i \in DOMAIN rolling : rolling[i] # Genesis

\* The tables of the ledger agree with one another after every step of process
\* and of rollback: heads, heights, frontiers and pending entries are those of
\* unbranched chains in which each send is pending or received once.
IInv ==
    /\ TypeOK
    /\ ChainInv
    /\ HeadInv
    /\ LegacyInv
    /\ PendingInv
    /\ NoDoubleReceive
    /\ RollingInv
=============================================================================
