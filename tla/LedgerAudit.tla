---------------------------- MODULE LedgerAudit ----------------------------
(***************************************************************************)
(* What an auditor recomputes from the blocks of the ledger alone, and     *)
(* compares with the tables that ledger.cpp maintains incrementally.       *)
(* Together the properties say that every table is a function of the set   *)
(* of blocks: the order of arrival and whatever was rolled back in between *)
(* leave no trace.                                                         *)
(***************************************************************************)
EXTENDS LedgerInvariant, FiniteSets, Functions

\* Hashes and account numbers are 256 bit values
ASSUME FiniteAssumption == IsFiniteSet(Hash) /\ IsFiniteSet(Account)

Blocks == DOMAIN blocks
Opened == DOMAIN accounts[0] \cup DOMAIN accounts[1]
Chain(a) == {h \in Blocks : blocks[h].account = a}

\* Blocks that subtract from a balance and leave the amount to be received
Sends == {h \in Blocks : Content[h].type = "send" \/ (Content[h].type = "state" /\ is_send(h))}
PendingKeys == DOMAIN pending[0] \cup DOMAIN pending[1]
Heads == {Info(a).head : a \in Opened}

\* The balance of every account, and the amounts on their way
BalanceOf == [a \in Opened |-> Info(a).balance]
AmountPending == [k \in PendingKeys |-> pending_get(k).amount]

\* The accounts that named r as their representative
Delegators(r) == {a \in Opened : Content[Info(a).rep_block].representative = r}

\* No amount is created or destroyed: account balances and amounts on their way
\* add up to genesis_amount, also between the steps of a rollback.
Supply == SumFunction(BalanceOf) + SumFunction(AmountPending) = AmountLimit - 1

\* The weight that votes are counted with is the sum of the balances delegated
\* to the representative (representation_add, unsigned wrap-around included).
WeightIsDelegatedBalance ==
    \A r \in Key : representation[r] = SumFunctionOnSet(BalanceOf, Delegators(r))

\* account_info repeats what the chain of the account says.
AccountInfoMatchesChain ==
    /\ {blocks[h].account : h \in Blocks} = Opened
    /\ \A a \in Opened :
         LET info == Info(a)
         IN /\ {info.head} = {h \in Chain(a) : blocks[h].successor = Zero}
            /\ {info.open_block} = {h \in Chain(a) : Content[h].previous = Zero}
            /\ info.rep_block = RepBlock[info.head]
            /\ info.balance = blocks[info.head].balance
            /\ info.block_count = Cardinality(Chain(a))
            /\ EpochOf(a) = blocks[info.head].epoch

\* Sideband links: heights count from 1, the successor of a block is the block
\* that names it as previous, and an account never goes back to epoch 0.
SidebandMatchesChain ==
    \A h \in Blocks :
        LET p == Content[h].previous
        IN /\ blocks[h].successor # Zero =>
                /\ blocks[h].successor \in Blocks
                /\ Content[blocks[h].successor].previous = h
           /\ IF p = Zero
              THEN blocks[h].height = 1
              ELSE /\ p \in Blocks
                   /\ blocks[p].successor = h
                   /\ blocks[p].account = blocks[h].account
                   /\ blocks[h].height = blocks[p].height + 1
                   /\ blocks[p].epoch <= blocks[h].epoch

\* The pending tables hold exactly the sends nobody received, under the right
\* destination, with their amount, their sender and their epoch.
PendingIsUnreceivedSends ==
    /\ PendingKeys = {<<Content[h].link, h>> : h \in {s \in Sends : \A r \in Blocks : Received(r) # s}}
    /\ \A k \in PendingKeys :
         /\ pending_get(k) = [source |-> blocks[k[2]].account, amount |-> AmountOf(k[2])]
         /\ PendingEpoch(k) = blocks[k[2]].epoch

\* The frontiers table holds exactly the legacy heads: this is what keeps legacy
\* blocks from being put on top of state blocks.
FrontiersAreLegacyHeads ==
    /\ DOMAIN frontiers = {h \in Heads : Content[h].type \in LegacyType}
    /\ \A h \in DOMAIN frontiers : frontiers[h] = blocks[h].account

\* "otherwise we'd end up with a duplicate" (change_latest): nothing is in the
\* tables of both epochs.
NoDuplicateEntries ==
    /\ DOMAIN accounts[0] \cap DOMAIN accounts[1] = {}
    /\ DOMAIN pending[0] \cap DOMAIN pending[1] = {}

\* A legacy receive or open never receives a send made after the epoch upgrade.
LegacyReceivesEpoch0 ==
    \A h \in Blocks : Content[h].type \in {"receive", "open"} /\ h # Genesis
                      => blocks[Content[h].link].epoch = 0

\* The assertions on the path of a rollback: the block a call was given has an
\* account with a head, and the destination of a received send has a block to
\* roll back (assert (store.block_exists ...) in ledger::rollback); frontier_del
\* and pending_del find their entry.
RollbackAssertions ==
    rolling # <<>> /\ Exists(Head(rolling)) =>
        LET h == RollbackHead
        IN /\ account_exists(AccountOf(Head(rolling)))
           /\ Exists(h)
           /\ ReceivedByDestination(h) => account_exists(Content[h].link)
           /\ Content[h].type \in LegacyType => h \in DOMAIN frontiers

\* A call of ledger::rollback returns, and what it was called for is gone.
RollbackTerminates ==
    \A h \in Hash : rolling = <<h>> ~> rolling = <<>> /\ ~Exists(h)

\* What process and rollback keep up step by step is what an auditor would compute from the
\* blocks alone: the amounts and the weights of representatives, the accounts table, the
\* sideband, the pending tables and the frontiers, each block and entry in one table only.
TablesMatchBlocks ==
    /\ Supply /\ WeightIsDelegatedBalance
    /\ AccountInfoMatchesChain /\ SidebandMatchesChain /\ FrontiersAreLegacyHeads
    /\ PendingIsUnreceivedSends /\ NoDuplicateEntries /\ LegacyReceivesEpoch0
-----------------------------------------------------------------------------
(* The same in a form that each step preserves, given IInv *)

\* A head has no successor, the block before a block has that block
LinkInv ==
    /\ \A a \in Opened : blocks[Info(a).head].successor = Zero
    /\ \A h \in Blocks : /\ blocks[h].successor = Zero => h = Info(blocks[h].account).head
                         /\ Content[h].previous # Zero =>
                              blocks[Content[h].previous].successor = h
                         /\ blocks[h].successor # Zero =>
                              /\ blocks[h].successor \in Blocks
                              /\ Content[blocks[h].successor].previous = h

InfoInv ==
    \A a \in Opened : /\ Info(a).rep_block = RepBlock[Info(a).head]
                      /\ Info(a).open_block \in Chain(a)
                      /\ Content[Info(a).open_block].previous = Zero
                      /\ Info(a).block_count = Cardinality(Chain(a))
                      /\ EpochOf(a) = blocks[Info(a).head].epoch

\* Each block accounts for the change of balance from the block before
ValueInv ==
    \A h \in Blocks :
        LET p == Content[h].previous
        IN /\ RepBlock[h] # Zero
           /\ Content[h].type \in LegacyType => blocks[h].epoch = 0
           /\ p # Zero => blocks[p].epoch <= blocks[h].epoch
           /\ Content[h].type \in {"send", "state"} => blocks[h].balance = Content[h].balance
           /\ SendBlock(h) => blocks[h].balance <= Balance(p)
           /\ ~SendBlock(h) /\ h # Genesis =>
                blocks[h].balance = Balance(p) + (IF Received(h) = Zero THEN 0
                                                  ELSE AmountOf(Received(h)))
           /\ Content[h].type \in {"receive", "open"} /\ h # Genesis =>
                blocks[Content[h].link].epoch = 0

PendingInfoInv ==
    \A k \in PendingKeys : /\ pending_get(k).amount = AmountOf(k[2])
                           /\ PendingEpoch(k) = blocks[k[2]].epoch

FrontierInv ==
    \A a \in Opened : Content[Info(a).head].type \in LegacyType
                      => Info(a).head \in DOMAIN frontiers

AuditInv ==
    /\ Supply /\ WeightIsDelegatedBalance
    /\ LinkInv /\ InfoInv /\ ValueInv /\ PendingInfoInv /\ FrontierInv
=============================================================================
