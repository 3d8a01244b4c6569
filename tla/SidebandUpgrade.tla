---------------------------- MODULE SidebandUpgrade ----------------------------
(***************************************************************************)
(* The upgrade of a database whose blocks have no sideband, by a thread of *)
(* the store while the node runs (nano/node/lmdb.cpp: mdb_store,           *)
(* do_slow_upgrades, upgrade_v12_to_v13).                                  *)
(*                                                                         *)
(* There is one write transaction at a time.  The thread works through the *)
(* accounts in one, and commits it and begins another when its blocks have *)
(* cost enough: then the ledger may write, and the thread goes on with the *)
(* hash it has in hand.  What a crash finds is what was committed.         *)
(*                                                                         *)
(* A hash is the sequence of choices that led to the block, so a chain is  *)
(* the hash of its frontier and the height that is stored with each block, *)
(* 0 where there is none: the entry of an old database.                    *)
(***************************************************************************)
EXTENDS Naturals, Sequences, SequencesExt, FiniteSetsExt

CONSTANTS
    OldAccounts,    \* the number of accounts; an account is a number from 1
    OldChain,       \* the length of each chain in the old database
    Choice,         \* the blocks that may follow a block, or open a chain
    SidebandBatch,  \* sideband_batch_size
    MaxHeight,      \* bound: blocks in a chain
    MaxWrites,      \* bound: blocks processed and rollbacks
    MaxHalts        \* bound: crashes and orderly stops

VARIABLES
    committed,      \* version and chains, as a crash finds them
    written,        \* the same as the write transaction of the thread sees it
    upgrader,       \* the thread, and the locals of upgrade_v12_to_v13
    storeOpen, storeStopped,
    stranded,       \* in this process the thread met a hash that was rolled back
    writes, halts

sidebandVars == <<committed, written, upgrader, storeOpen, storeStopped, stranded, writes, halts>>

UpgradeAccount == 1..OldAccounts
Zero == <<>>
\* What an uninitialised sideband has as a successor: no block has this hash.
Garbage == <<"garbage">>

Thread(at) == [at |-> at, account |-> 0, first |-> 0, hash |-> Zero, height |-> 1, cost |-> 0]
Chains == written.chain
IsOpen(a) == Chains[a].hash # Zero
BlockFound(a, hash) == hash # Zero /\ IsPrefix(hash, Chains[a].hash)

-----------------------------------------------------------------------------
(* The constructor of the store                                              *)

\* do_upgrades: from 12 on the rest is left to the thread, after every start.
SlowUpgrade_first(version) == version = 11
SlowUpgrade(version) == version \in {11, 12}

OpenStore ==
    /\ ~storeOpen
    /\ storeOpen' = TRUE /\ storeStopped' = FALSE /\ stranded' = FALSE
    /\ committed' = [committed EXCEPT !.version = IF @ = 11 THEN 12 ELSE @]
    /\ written' = committed'
    /\ upgrader' = Thread(IF SlowUpgrade(committed.version) THEN "start" ELSE "off")
    /\ UNCHANGED <<writes, halts>>

CloseStore ==
    /\ storeOpen' = FALSE
    /\ upgrader' = Thread("off")
    /\ written' = committed
    /\ UNCHANGED committed

-----------------------------------------------------------------------------
(* upgrade_v12_to_v13                                                        *)

UpgradeBegins ==
    /\ upgrader.at = "start"
    /\ upgrader' = Thread("account")
    /\ UNCHANGED <<committed, written, storeOpen, storeStopped, stranded, writes, halts>>

\* The transaction is committed when the function returns, whatever the reason.
Finish(version) ==
    /\ written' = [written EXCEPT !.version = version]
    /\ committed' = written'
    /\ upgrader' = Thread("off")

\* version_put (transaction, 13): every account was passed, and not just the stop.
VersionAfter_stopped(all) == 13
VersionAfter(all) == IF all THEN 13 ELSE written.version

\* The outer loop: the first account from here on, its open block at height 1.
InitialHeight_kept == upgrader.height
InitialHeight == 1

UpgradeNextAccount ==
    LET later == {a \in UpgradeAccount : a >= upgrader.account /\ IsOpen(a)}
    IN /\ upgrader.at = "account"
       /\ IF storeStopped THEN Finish(VersionAfter(FALSE))
          ELSE IF later = {} THEN Finish(VersionAfter(TRUE))
          ELSE /\ upgrader' = [upgrader EXCEPT !.at = "block", !.first = Min(later),
                                  !.hash = SubSeq(Chains[Min(later)].hash, 1, 1), !.height = InitialHeight]
               /\ UNCHANGED <<committed, written>>
       /\ UNCHANGED <<storeOpen, storeStopped, stranded, writes, halts>>

\* The end of the inner loop.
UpgradeAccountDone ==
    /\ upgrader.at = "block"
    /\ storeStopped \/ upgrader.hash = Zero
    /\ upgrader' = [upgrader EXCEPT !.at = "account", !.account = upgrader.first + 1]
    /\ UNCHANGED <<committed, written, storeOpen, storeStopped, stranded, writes, halts>>

UpgradeCommits ==
    /\ upgrader.at = "block" /\ ~storeStopped /\ upgrader.hash # Zero
    /\ upgrader.cost >= SidebandBatch
    /\ committed' = written
    /\ upgrader' = [upgrader EXCEPT !.at = "yield", !.cost = 0]
    /\ UNCHANGED <<written, storeOpen, storeStopped, stranded, writes, halts>>

\* The block at hash: its height is written unless it has one.
UpgradeBlock ==
    /\ \/ upgrader.at = "yield"
       \/ upgrader.at = "block" /\ ~storeStopped /\ upgrader.cost < SidebandBatch
    /\ BlockFound(upgrader.first, upgrader.hash)
    /\ LET acc == upgrader.first
           n == Len(upgrader.hash)
           old == Chains[acc].heights[n] = 0
       IN /\ written' = IF old THEN [written EXCEPT !.chain[acc].heights[n] = upgrader.height] ELSE written
          /\ upgrader' = [upgrader EXCEPT !.at = "block", !.height = @ + 1, !.cost = @ + IF old THEN 16 ELSE 1,
                             !.hash = IF n < Len(Chains[acc].hash) THEN SubSeq(Chains[acc].hash, 1, n + 1) ELSE Zero]
    /\ UNCHANGED <<committed, storeOpen, storeStopped, stranded, writes, halts>>

\* The block is gone: it was rolled back between two transactions.  The assertion fails, or,
\* where it is compiled out, the sideband of the block before it leads to the same hash
\* again; for an open block there was none before it.  (The code counts height on; from
\* such a hash the thread comes to no block that it would write it to.)
BlockGone ==
    /\ upgrader.at \in {"yield", "block"} /\ upgrader.hash # Zero
    /\ upgrader.at = "block" => ~storeStopped /\ upgrader.cost < SidebandBatch
    /\ ~BlockFound(upgrader.first, upgrader.hash)
    /\ stranded' = TRUE
    /\ \/ CloseStore
       \/ /\ upgrader' = [upgrader EXCEPT !.at = "block", !.cost = @ + 1,
                             !.hash = IF Len(@) = 1 THEN Garbage ELSE @]
          /\ UNCHANGED <<committed, written, storeOpen>>
    /\ UNCHANGED <<storeStopped, writes, halts>>

-----------------------------------------------------------------------------
(* The ledger, when the write transaction is free                            *)

LedgerMayWrite ==
    /\ storeOpen /\ ~storeStopped
    /\ upgrader.at \in {"off", "start", "yield"}
    /\ writes < MaxWrites
LedgerWrites(a, chain) ==
    /\ written' = [written EXCEPT !.chain[a] = chain]
    /\ committed' = written'
    /\ writes' = writes + 1
    /\ UNCHANGED <<upgrader, storeOpen, storeStopped, stranded, halts>>

\* ledger::process: the height is the block_count of the account and one more.
BlockProcessed(a, choice) ==
    /\ LedgerMayWrite
    /\ Len(Chains[a].hash) < MaxHeight
    /\ LedgerWrites(a, [hash |-> Append(Chains[a].hash, choice),
                        heights |-> Append(Chains[a].heights, Len(Chains[a].hash) + 1)])

\* ledger::rollback: block_del, and block_successor_clear of the block that is left.
BlocksRolledBack(a, n) ==
    /\ LedgerMayWrite
    /\ n < Len(Chains[a].hash)
    /\ LedgerWrites(a, [hash |-> SubSeq(Chains[a].hash, 1, n), heights |-> SubSeq(Chains[a].heights, 1, n)])

-----------------------------------------------------------------------------
StoreCrash ==
    /\ storeOpen /\ halts < MaxHalts
    /\ halts' = halts + 1
    /\ CloseStore
    /\ UNCHANGED <<storeStopped, stranded, writes>>

\* mdb_store::stop: the flag, and the thread is joined.
StoreStop ==
    /\ storeOpen /\ ~storeStopped /\ halts < MaxHalts
    /\ halts' = halts + 1
    /\ storeStopped' = TRUE
    /\ UNCHANGED <<committed, written, upgrader, storeOpen, stranded, writes>>

StoreJoin ==
    /\ storeOpen /\ storeStopped /\ upgrader.at = "off"
    /\ CloseStore
    /\ UNCHANGED <<storeStopped, stranded, writes, halts>>

SidebandInit ==
    /\ committed = [version |-> 11,
                    chain |-> [a \in UpgradeAccount |->
                                  [hash |-> [n \in 1..OldChain |-> CHOOSE c \in Choice : TRUE],
                                   heights |-> [n \in 1..OldChain |-> 0]]]]
    /\ written = committed
    /\ upgrader = Thread("off")
    /\ storeOpen = FALSE /\ storeStopped = FALSE /\ stranded = FALSE
    /\ writes = 0 /\ halts = 0

UpgraderStep ==
    \/ UpgradeBegins \/ UpgradeNextAccount \/ UpgradeAccountDone \/ UpgradeCommits \/ UpgradeBlock \/ BlockGone

SidebandNext ==
    \/ OpenStore \/ UpgraderStep \/ StoreCrash \/ StoreStop \/ StoreJoin
    \/ \E a \in UpgradeAccount : \/ \E choice \in Choice : BlockProcessed(a, choice)
                                 \/ \E n \in 0..MaxHeight : BlocksRolledBack(a, n)

-----------------------------------------------------------------------------
(* Properties                                                                *)

\* Once the version is 13, entries are read as if they all had a sideband (full_sideband):
\* and they have, whatever the ledger wrote between two transactions of the thread, and
\* however often it was stopped or died on the way.
FullSideband ==
    \A store \in {committed, written} :
        store.version = 13 => \A a \in UpgradeAccount : 0 \notin Range(store.chain[a].heights)

\* A height that is stored is the place of the block in its chain: the count of the thread
\* and the block_count of the ledger agree on blocks that either wrote.
HeightsTrue ==
    \A a \in UpgradeAccount : \A n \in DOMAIN Chains[a].heights : Chains[a].heights[n] \in {0, n}

\* While the node runs the upgrade is completed in the end, however often it crashed or was
\* stopped before; unless in this process a block was rolled back that the thread had in hand.
UpgradeCompletes == []<>(committed.version = 13 \/ stranded \/ ~storeOpen)

\* A database that says version 13 has every sideband, and every height that is stored is true.
SidebandTrue == FullSideband /\ HeightsTrue
=============================================================================
