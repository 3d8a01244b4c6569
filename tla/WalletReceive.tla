----------------------------- MODULE WalletReceive -----------------------------
(***************************************************************************)
(* How a wallet receives what is sent to one of its accounts               *)
(* (nano/node/wallet.cpp: search_pending, receive_async, receive_action;   *)
(* nano/node/node.cpp: search_pending, block_confirm, process_confirmed).  *)
(*                                                                         *)
(* The sends that the ledger has pending are put to an election from time  *)
(* to time; one that is confirmed becomes an action of the wallets thread; *)
(* the thread makes a block on the head of the account, and waits for the  *)
(* block processor, which publishes it before its batch is committed.  The *)
(* sends themselves stay in the ledger once they are there.                *)
(*                                                                         *)
(* What a block of the account does is to receive one of the sends.        *)
(***************************************************************************)
EXTENDS AccountChain, Functions

CONSTANTS
    Incoming,       \* sends to the account
    SendAmount,     \* [Incoming -> amount]
    ReceiveMinimum,
    HasPassword,    \* a wallet without one is open after every start
    MaxReceives,    \* bound: receives waiting in wallets::actions
    MaxTroubles     \* bound: crashes, elections without a result, locks, lost forks

VARIABLES
    inLedger,       \* the sends in the ledger
    ownChain,       \* the committed chain of the account
    inBatch,        \* the chain as the open batch of the block processor has it
    toProcess,      \* the blocks in the queue of the block processor
    spread,         \* the blocks that other nodes know
    contest,        \* the election on each send
    receives,       \* wallets::actions, the largest amount first
    recipient,      \* the thread of wallets, in receive_action
    walletLocked,
    searchQueued,   \* node::search_pending is with the alarm, or in the background
    forked,         \* a crash, or a lost fork, came between making a block and its commit
    troubles

blocksOfReceives == <<ownChain, inBatch, toProcess, spread>>
searchVars == <<walletLocked, searchQueued>>
receiveVars == <<inLedger, blocksOfReceives, contest, receives, recipient, searchVars, forked, troubles>>

Unpaid == inLedger \ Range(ownChain)
Worthwhile(s) == SendAmount[s] >= ReceiveMinimum
RecipientIdle == [at |-> "rest", block |-> <<>>]

-----------------------------------------------------------------------------
(* Finding what is pending                                                   *)

\* A live block has its election at once, one from a bootstrap has not.
SendArrives(s) ==
    /\ s \notin inLedger
    /\ inLedger' = inLedger \cup {s}
    /\ contest' \in {contest, [contest EXCEPT ![s] = IF @ = "none" THEN "voting" ELSE @]}
    /\ UNCHANGED <<blocksOfReceives, receives, recipient, forked, troubles, searchVars>>

\* The alarm is set again, whether the wallet is locked or not.
Rearmed_never == FALSE
Rearmed == TRUE

\* block_confirm for all that is pending: active.start has no effect during an election.
SearchPending ==
    /\ searchQueued
    /\ contest' = IF walletLocked THEN contest
                  ELSE [s \in Incoming |-> IF s \in Unpaid /\ Worthwhile(s) /\ contest[s] = "none"
                                           THEN "voting" ELSE contest[s]]
    /\ searchQueued' = Rearmed
    /\ UNCHANGED <<inLedger, blocksOfReceives, receives, recipient, walletLocked, forked, troubles>>

\* queue_wallet_action: behind the actions of the same amount.
ReceiveQueued(s) ==
    LET n == Len(SelectSeq(receives, LAMBDA r : SendAmount[r] >= SendAmount[s]))
    IN SubSeq(receives, 1, n) \o <<s>> \o SubSeq(receives, n + 1, Len(receives))

\* process_confirmed and scan_receivable.
SendConfirmed(s) ==
    /\ contest[s] = "voting"
    /\ Len(receives) < MaxReceives
    /\ contest' = [contest EXCEPT ![s] = "confirmed"]
    /\ receives' = IF s \in Unpaid THEN ReceiveQueued(s) ELSE receives
    /\ UNCHANGED <<inLedger, blocksOfReceives, recipient, forked, troubles, searchVars>>

\* request_loop drops an election that is confirmed.
ContestPruned(s) ==
    /\ contest[s] = "confirmed"
    /\ contest' = [contest EXCEPT ![s] = "none"]
    /\ UNCHANGED <<inLedger, blocksOfReceives, receives, recipient, forked, troubles, searchVars>>

-----------------------------------------------------------------------------
(* receive_action                                                            *)

ReceiveAction ==
    /\ recipient.at = "rest" /\ receives # <<>>
    /\ receives' = Tail(receives)
    /\ LET s == Head(receives)
       IN recipient' = IF Worthwhile(s) /\ s \in Unpaid /\ ~walletLocked
                       THEN [at |-> "made", block |-> Append(ownChain, s)]
                       ELSE RecipientIdle
    /\ UNCHANGED <<inLedger, blocksOfReceives, contest, forked, troubles, searchVars>>

\* The work is there: process_active, and block_processor.flush.
ReceiveActive ==
    /\ recipient.at = "made"
    /\ toProcess' = toProcess \cup {recipient.block}
    /\ recipient' = [recipient EXCEPT !.at = "flush"]
    /\ UNCHANGED <<inLedger, ownChain, inBatch, spread, contest, receives, forked, troubles, searchVars>>

\* In a shutdown flush returns at once: what the wallets thread makes then waits for a block
\* processor that has ended, and is lost unpublished.  That is left out here (WalletSend has it).
ProcessorIdle_queue == toProcess = {}
ProcessorIdle == toProcess = {} /\ inBatch = ownChain

ReceiveReturns ==
    /\ recipient.at = "flush"
    /\ ProcessorIdle
    /\ recipient' = RecipientIdle
    /\ UNCHANGED <<inLedger, blocksOfReceives, contest, receives, forked, troubles, searchVars>>

-----------------------------------------------------------------------------
(* The block processor and other nodes, as far as they meet here             *)

ReceiveProcessed(b) ==
    /\ b \in toProcess
    /\ toProcess' = toProcess \ {b}
    /\ IF Before(b) = inBatch
       THEN inBatch' = b /\ spread' = spread \cup {b}
       ELSE UNCHANGED <<inBatch, spread>>
    /\ UNCHANGED <<inLedger, ownChain, contest, receives, recipient, forked, troubles, searchVars>>

ReceiveCommitted ==
    /\ inBatch # ownChain
    /\ ownChain' = inBatch
    /\ UNCHANGED <<inLedger, inBatch, toProcess, spread, contest, receives, recipient, forked, troubles, searchVars>>

\* Another node sends a block that was lost in a crash.
ReceiveReturned(b) ==
    /\ b \in spread \ toProcess
    /\ Before(b) = inBatch
    /\ toProcess' = toProcess \cup {b}
    /\ UNCHANGED <<inLedger, ownChain, inBatch, spread, contest, receives, recipient, forked, troubles, searchVars>>

Trouble == troubles < MaxTroubles /\ troubles' = troubles + 1

\* The other nodes confirm the block that was lost, and not the one made after the crash.
ForkLost(b) ==
    /\ Trouble
    /\ inBatch = ownChain
    /\ b \in spread
    /\ Len(b) <= Len(ownChain) /\ b # SubSeq(ownChain, 1, Len(b)) /\ Before(b) = SubSeq(ownChain, 1, Len(b) - 1)
    /\ ownChain' = b /\ inBatch' = b
    /\ forked' = TRUE
    /\ UNCHANGED <<inLedger, toProcess, spread, contest, receives, recipient, searchVars>>

\* The votes did not come, and the election is given up.
ContestLost(s) ==
    /\ Trouble
    /\ contest[s] = "voting"
    /\ contest' = [contest EXCEPT ![s] = "none"]
    /\ UNCHANGED <<inLedger, blocksOfReceives, receives, recipient, forked, searchVars>>

LockWallet ==
    /\ Trouble
    /\ ~walletLocked /\ HasPassword
    /\ walletLocked' = TRUE
    /\ UNCHANGED <<inLedger, blocksOfReceives, contest, receives, recipient, searchQueued, forked>>

\* enter_password: a search in the background.
UnlockWallet ==
    /\ walletLocked
    /\ walletLocked' = FALSE
    /\ searchQueued' = TRUE
    /\ UNCHANGED <<inLedger, blocksOfReceives, contest, receives, recipient, forked, troubles>>

\* The node is killed and started again.
ReceiveCrash ==
    /\ Trouble
    /\ inBatch' = ownChain /\ toProcess' = {}
    /\ contest' = [s \in Incoming |-> "none"]
    /\ receives' = <<>> /\ recipient' = RecipientIdle
    /\ walletLocked' = HasPassword
    /\ searchQueued' = TRUE
    /\ forked' = (forked \/ inBatch # ownChain)
    /\ UNCHANGED <<inLedger, ownChain, spread>>

-----------------------------------------------------------------------------
ReceiveInit ==
    /\ inLedger = {}
    /\ ownChain = <<>> /\ inBatch = <<>> /\ toProcess = {} /\ spread = {}
    /\ contest = [s \in Incoming |-> "none"]
    /\ receives = <<>> /\ recipient = RecipientIdle
    /\ walletLocked = HasPassword /\ searchQueued = TRUE
    /\ forked = FALSE /\ troubles = 0

RecipientStep == ReceiveAction \/ ReceiveActive \/ ReceiveReturns
ProcessorOfReceives == ReceiveCommitted \/ \E b \in toProcess : ReceiveProcessed(b)

ReceiveNext ==
    \/ SearchPending \/ RecipientStep \/ ProcessorOfReceives
    \/ LockWallet \/ UnlockWallet \/ ReceiveCrash
    \/ \E s \in Incoming : SendArrives(s) \/ SendConfirmed(s) \/ ContestPruned(s) \/ ContestLost(s)
    \/ \E b \in spread : ReceiveReturned(b) \/ ForkLost(b)

-----------------------------------------------------------------------------
(* Properties                                                                *)

\* The node does not fork its own account: of two blocks that it handed to its block processor
\* or published, one follows the other, though each is made on the head that the committed
\* ledger has.  Otherwise a crash came between the publication of a block and its commit.
NoForkOfOwn == forked \/ \A b1, b2 \in spread \cup toProcess : Precedes(b1, b2) \/ Precedes(b2, b1)

\* All that is pending for the account, and not below receive_minimum, is received in the
\* end: an action that was dropped because the wallet was locked, lost in a crash, or undone
\* with a fork, is found again by a later search.
PendingReceived == []<>(walletLocked \/ \A s \in Unpaid : ~Worthwhile(s))
-----------------------------------------------------------------------------
(* The inductive invariant behind NoForkOfOwn                                *)

ReceiveSpec == ReceiveInit /\ [][ReceiveNext]_receiveVars

ReceiveTypes ==
    /\ inLedger \subseteq Incoming
    /\ ownChain \in Seq(Incoming) /\ inBatch \in Seq(Incoming)
    /\ toProcess \subseteq Seq(Incoming) \ {<<>>} /\ spread \subseteq Seq(Incoming) \ {<<>>}
    /\ \/ recipient = RecipientIdle
       \/ recipient \in [at : {"made", "flush"}, block : Seq(Incoming) \ {<<>>}]

\* Where the block of receive_action is, as long as nothing was lost
RecipientInv ==
    /\ \A b \in spread : Precedes(b, inBatch)
    /\ \/ recipient = RecipientIdle /\ toProcess = {} /\ inBatch = ownChain
       \/ /\ recipient.at = "made" /\ toProcess = {} /\ inBatch = ownChain
          /\ Before(recipient.block) = ownChain
       \/ /\ recipient.at = "flush" /\ toProcess = {recipient.block} /\ inBatch = ownChain
          /\ Before(recipient.block) = ownChain
       \/ recipient.at = "flush" /\ toProcess = {}

ReceiveInv == ReceiveTypes /\ (forked \/ RecipientInv)
=============================================================================
