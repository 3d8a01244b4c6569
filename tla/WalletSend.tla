------------------------------ MODULE WalletSend ------------------------------
(***************************************************************************)
(* Sends with an identifier (nano/node/wallet.cpp: send_action; the RPC    *)
(* command send): a client that got no answer may ask again with the same  *)
(* identifier.  The identifier and the hash of its block are written to    *)
(* the wallets database in one transaction, the block to the ledger later, *)
(* in a batch of the block processor, which publishes it before the batch  *)
(* is committed.  The node may be killed between any two of these, or shut *)
(* down: node::stop stops the block processor first and the wallets last.  *)
(*                                                                         *)
(* Blocks are those of one account, and what a block does is what it pays. *)
(***************************************************************************)
EXTENDS AccountChain, FiniteSets

CONSTANTS
    SendId,
    Pays,            \* what the client asks to be paid under an identifier
    MaxChain,        \* bound: the balance of the account, in sends
    MaxSendCrashes,  \* bound: crashes and shutdowns
    MaxForks         \* bound: elections lost

VARIABLES
    chain,           \* the committed chain of the account
    openBatch,       \* the chain as the open batch of the block processor has it
    pool,            \* the blocks waiting for the block processor
    batching,        \* block_processor::active: a batch is under way
    processorStopped,\* block_processor::stopped
    rolled_back,     \* the blocks that block_processor::add refuses as rolled back
    published,       \* the blocks that other nodes know
    send_action_ids,
    sender,          \* the thread of wallets, in send_action
    answered,        \* the blocks returned for an identifier
    madeFor,         \* the blocks ever written for an identifier
    orphaned,        \* history: the node was killed or shut down between an identifier and its block
    electionLost,    \* history: blocks were rolled back for the winner of an election
    sendCrashes, forks

batchVars == <<batching, processorStopped, rolled_back>>
sendVars == <<chain, openBatch, pool, batchVars, published, send_action_ids, sender, answered, madeFor, orphaned,
              electionLost, sendCrashes, forks>>

NoBlock == <<>>
AtRest == [at |-> "rest", id |-> "none", block |-> NoBlock]

-----------------------------------------------------------------------------
(* send_action                                                               *)

\* The block under the identifier, if the ledger has it.
Cached_never(id) == FALSE
Cached(id) == send_action_ids[id] \in BlocksOf(chain)

SendAction(id) ==
    /\ sender = AtRest
    /\ IF Cached(id)
       THEN /\ answered' = [answered EXCEPT ![id] = @ \cup {send_action_ids[id]}]
            /\ published' = published \cup {send_action_ids[id]}
            /\ UNCHANGED <<send_action_ids, sender, madeFor>>
       ELSE /\ Len(chain) < MaxChain
            /\ LET send == Append(chain, Pays[id])
               IN /\ send_action_ids' = [send_action_ids EXCEPT ![id] = send]
                  /\ madeFor' = [madeFor EXCEPT ![id] = @ \cup {send}]
                  /\ sender' = [at |-> "made", id |-> id, block |-> send]
            /\ UNCHANGED <<answered, published>>
    /\ UNCHANGED <<chain, openBatch, pool, batchVars, orphaned, electionLost, sendCrashes, forks>>

\* process_active, once the work is there
ProcessActive ==
    /\ sender.at = "made"
    /\ pool' = pool \cup ({sender.block} \ rolled_back)
    /\ sender' = [sender EXCEPT !.at = "flush"]
    /\ UNCHANGED <<chain, openBatch, batchVars, published, send_action_ids, answered, madeFor, orphaned, electionLost, sendCrashes, forks>>

\* block_processor.flush: nothing is waiting and no batch is under way, or the block
\* processor is stopped.
Flushed_any == TRUE
Flushed == processorStopped \/ (pool = {} /\ ~batching)

SendReturns ==
    /\ sender.at = "flush"
    /\ Flushed
    /\ answered' = [answered EXCEPT ![sender.id] = @ \cup {sender.block}]
    /\ sender' = AtRest
    /\ orphaned' = (orphaned \/ (processorStopped /\ sender.block \notin BlocksOf(chain)))
    /\ UNCHANGED <<chain, openBatch, pool, batchVars, published, send_action_ids, madeFor, electionLost, sendCrashes, forks>>

-----------------------------------------------------------------------------
(* The block processor and the network, as far as they meet here             *)

\* process_blocks begins a batch
BeginBatch ==
    /\ pool # {} /\ ~batching /\ ~processorStopped
    /\ batching' = TRUE
    /\ UNCHANGED <<chain, openBatch, pool, processorStopped, rolled_back, published, send_action_ids, sender, answered,
                   madeFor, orphaned, electionLost, sendCrashes, forks>>

\* process_one: a block that follows the head of the account is published.
ProcessBlock(b) ==
    /\ batching
    /\ b \in pool
    /\ pool' = pool \ {b}
    /\ IF Before(b) = openBatch
       THEN /\ openBatch' = b
            /\ published' = published \cup {b}
       ELSE UNCHANGED <<openBatch, published>>
    /\ UNCHANGED <<chain, batchVars, send_action_ids, sender, answered, madeFor, orphaned, electionLost, sendCrashes, forks>>

\* The batch ends, with the blocks that waited or with its time.
CommitBatch ==
    /\ batching
    /\ batching' = FALSE
    /\ chain' = openBatch
    /\ UNCHANGED <<openBatch, pool, processorStopped, rolled_back, published, send_action_ids, sender, answered, madeFor,
                   orphaned, electionLost, sendCrashes, forks>>

\* Another node sends a block that this one does not have in its ledger any more, or not yet.
BlockArrives(b) ==
    /\ b \in published \ (BlocksOf(openBatch) \cup pool \cup rolled_back)
    /\ Before(b) = openBatch
    /\ pool' = pool \cup {b}
    /\ UNCHANGED <<chain, openBatch, batchVars, published, send_action_ids, sender, answered, madeFor, orphaned,
                   electionLost, sendCrashes, forks>>

\* The other nodes confirm a block that competes with one of the chain: a batch with this
\* block, forced.
LoseElection(b) ==
    /\ forks < MaxForks
    /\ ~batching /\ ~processorStopped
    /\ \E successor \in BlocksOf(chain) \ {b} :
         /\ Before(successor) = Before(b)
         /\ rolled_back' = IF successor \in rolled_back THEN rolled_back
                           ELSE (rolled_back \cup {successor}) \ {b}
    /\ chain' = b
    /\ openBatch' = b
    /\ electionLost' = TRUE
    /\ forks' = forks + 1
    /\ UNCHANGED <<pool, batching, processorStopped, published, send_action_ids, sender, answered, madeFor, orphaned,
                   sendCrashes>>

\* What a node that starts has of this
Restarted ==
    /\ pool' = {} /\ rolled_back' = {} /\ batching' = FALSE /\ processorStopped' = FALSE
    /\ UNCHANGED <<chain, published, send_action_ids, answered, madeFor, electionLost, forks>>

CrashSending ==
    /\ sendCrashes < MaxSendCrashes
    /\ sendCrashes' = sendCrashes + 1
    /\ openBatch' = chain
    /\ sender' = AtRest
    /\ orphaned' = (orphaned \/ (sender # AtRest /\ sender.block \notin BlocksOf(chain)))
    /\ Restarted

\* node::stop: the block processor ends its batch and is joined, with what waits left where
\* it is; the thread of wallets is joined last, so a send may go on meanwhile.
StopProcessor ==
    /\ ~processorStopped
    /\ sendCrashes < MaxSendCrashes
    /\ sendCrashes' = sendCrashes + 1
    /\ processorStopped' = TRUE
    /\ UNCHANGED <<chain, openBatch, pool, batching, rolled_back, published, send_action_ids, sender, answered, madeFor,
                   orphaned, electionLost, forks>>
ShutDown ==
    /\ processorStopped /\ ~batching /\ sender = AtRest
    /\ Restarted
    /\ UNCHANGED <<openBatch, sender, orphaned, sendCrashes>>

-----------------------------------------------------------------------------
SendInit ==
    /\ chain = <<>> /\ openBatch = <<>>
    /\ pool = {} /\ published = {}
    /\ batching = FALSE /\ processorStopped = FALSE /\ rolled_back = {}
    /\ send_action_ids = [id \in SendId |-> NoBlock]
    /\ sender = AtRest
    /\ answered = [id \in SendId |-> {}]
    /\ madeFor = [id \in SendId |-> {}]
    /\ orphaned = FALSE /\ electionLost = FALSE
    /\ sendCrashes = 0 /\ forks = 0

SendNext ==
    \/ \E id \in SendId : SendAction(id)
    \/ ProcessActive
    \/ SendReturns
    \/ BeginBatch
    \/ \E b \in pool : ProcessBlock(b)
    \/ CommitBatch
    \/ \E b \in published : BlockArrives(b)
    \/ \E b \in published : LoseElection(b)
    \/ CrashSending
    \/ StopProcessor
    \/ ShutDown

-----------------------------------------------------------------------------
(* Properties                                                                *)

\* However often a client repeats a send, and wherever the node is killed, the chain holds at most
\* one of the blocks that were ever made for its identifier (the test send_idempotent), as long as
\* no election against a block of the chain is lost.
SentOnce == electionLost \/ \A id \in SendId : Cardinality(madeFor[id] \cap BlocksOf(chain)) <= 1

\* A block that send returned is in the ledger, and blocks that were returned for different
\* identifiers are different payments, because send_action waits for the block processor before
\* the next block is made.  The exceptions are the lost election, and a crash or a shutdown
\* between the write of an identifier and of its block.  In a shutdown flush does not wait for
\* the block, and the client is told a block that is never processed; and the same payment
\* made later under another identifier is the same block, and the first identifier,
\* repeated, is answered with it.
AnswersHold ==
    \/ orphaned
    \/ electionLost
    \/ \A id \in SendId :
          /\ answered[id] \subseteq BlocksOf(chain)
          /\ \A other \in SendId \ {id} : answered[id] \cap answered[other] = {}

\* A send repeated with its identifier pays once and keeps the answer it gave, over crashes and
\* shutdowns that do not fall into it.
SendsIdempotent == SentOnce /\ AnswersHold
-----------------------------------------------------------------------------
(* The inductive invariant behind SendsIdempotent                            *)

SendSpec == SendInit /\ [][SendNext]_sendVars

Paid == {Pays[id] : id \in SendId}

SendTypes ==
    /\ chain \in Seq(Paid) /\ openBatch \in Seq(Paid) /\ Precedes(chain, openBatch)
    /\ pool \subseteq Seq(Paid) \ {NoBlock} /\ published \subseteq Seq(Paid) \ {NoBlock}
    /\ send_action_ids \in [SendId -> Seq(Paid)]
    /\ madeFor \in [SendId -> SUBSET Seq(Paid)] /\ answered \in [SendId -> SUBSET Seq(Paid)]
    /\ {batching, processorStopped} \subseteq BOOLEAN /\ (~batching => openBatch = chain)
    /\ \/ sender = AtRest
       \/ sender \in [at : {"made", "flush"}, id : SendId, block : Seq(Paid) \ {NoBlock}]

\* A block was made on the chain as it was: unless it is the last one made for its identifier,
\* the chain has another block in its place
MadeInv ==
    \A id \in SendId :
        /\ send_action_ids[id] # NoBlock => send_action_ids[id] \in madeFor[id]
        /\ \A m \in madeFor[id] :
              /\ m # NoBlock /\ Precedes(Before(m), chain) /\ LastOf(m) = Pays[id]
              /\ m # send_action_ids[id] => Len(m) <= Len(chain) /\ ~Precedes(m, chain)

\* Nothing is under way, and other nodes know only what is in the ledger
Settled == pool = {} /\ ~batching /\ openBatch = chain /\ published \subseteq BlocksOf(chain)

\* Where the block of the sender is
SenderInv ==
    \/ sender = AtRest /\ Settled
    \/ sender.at = "made" /\ Settled /\ Before(sender.block) = chain
    \/ /\ sender.at = "flush" /\ Before(sender.block) = chain
       /\ pool = {sender.block} /\ openBatch = chain /\ published \subseteq BlocksOf(chain)
    \/ /\ sender.at = "flush" /\ Before(sender.block) = chain
       /\ pool = {} /\ batching /\ openBatch = sender.block /\ published \subseteq BlocksOf(openBatch)
    \/ sender.at = "flush" /\ Settled /\ sender.block = chain

\* An identifier whose send is over has its block in the ledger, and no two have the same
IdentifiersInv ==
    /\ sender # AtRest => sender.block = send_action_ids[sender.id]
    /\ \A id \in SendId :
          /\ sender = AtRest \/ sender.id # id =>
                send_action_ids[id] = NoBlock \/ send_action_ids[id] \in BlocksOf(chain)
          /\ \A other \in SendId \ {id} :
                send_action_ids[id] = send_action_ids[other] => send_action_ids[id] = NoBlock
          /\ answered[id] \subseteq {send_action_ids[id]} \cap BlocksOf(chain)

SendInv ==
    /\ SendTypes
    /\ electionLost \/ (MadeInv /\ rolled_back = {})
    /\ orphaned \/ electionLost \/ (SenderInv /\ IdentifiersInv)
=============================================================================
