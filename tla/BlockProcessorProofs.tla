------------------------ MODULE BlockProcessorProofs ------------------------
(***************************************************************************)
(* The block processor keeps BPInv, whatever arrives, however its threads  *)
(* interleave and wherever it crashes.                                     *)
(***************************************************************************)
EXTENDS BlockProcessorStepProofs, LedgerAuditProofs

\* The ledger that a crash goes back to
Saved == INSTANCE LedgerAudit
         WITH blocks <- disk[1], accounts <- disk[2], pending <- disk[3],
              representation <- disk[4], frontiers <- disk[5], rolling <- <<>>

\* The tables in memory and the tables on disk are those of a sound ledger
BPInv ==
    /\ IInv /\ AuditInv
    /\ Saved!IInv /\ Saved!AuditInv
    /\ ProcessorInv
-----------------------------------------------------------------------------
(* The commit and the crash: the saved ledger is a ledger like the one in   *)
(* memory.  Each fact about one is a fact about the other when their tables *)
(* are the same.                                                            *)

Committed ==
    /\ disk[1] = blocks /\ disk[2] = accounts /\ disk[3] = pending
    /\ disk[4] = representation /\ disk[5] = frontiers
    /\ rolling = <<>>

\* Operators that read no table
LEMMA SavedNames ==
    /\ Saved!HashOrZero = HashOrZero /\ Saved!Epoch = Epoch /\ Saved!Link = Link
    /\ Saved!Key = Key /\ Saved!Amount = Amount /\ Saved!BlockType = BlockType
    /\ Saved!LegacyType = LegacyType
    /\ Saved!Sideband = Sideband /\ Saved!AccountInfo = AccountInfo
    /\ Saved!PendingInfo = PendingInfo
BY Zenon DEF Saved!HashOrZero, Saved!Epoch, Saved!Link, Saved!Key, Saved!Amount, Saved!BlockType,
       Saved!LegacyType, Saved!Sideband, Saved!AccountInfo, Saved!PendingInfo,
       HashOrZero, Epoch, Link, Key, Amount, BlockType, LegacyType, Sideband, AccountInfo,
       PendingInfo

LEMMA SavedWalks == Saved!Owner = Owner /\ Saved!RepBlock = RepBlock
BY Zenon DEF Saved!Owner, Saved!RepBlock, Saved!HashOrZero, Owner, RepBlock, HashOrZero

LEMMA SavedSums ==
    ASSUME NEW f, NEW S
    PROVE  /\ Saved!SumFunctionOnSet(f, S) = SumFunctionOnSet(f, S)
           /\ Saved!SumFunction(f) = SumFunction(f)
           /\ Saved!Cardinality(S) = Cardinality(S)
<1>1. \A T : Saved!SumFunctionOnSet(f, T) = SumFunctionOnSet(f, T)
  BY Zenon DEF Saved!SumFunctionOnSet, Saved!FoldFunctionOnSet, Saved!MapThenFoldSet,
         SumFunctionOnSet, FoldFunctionOnSet, MapThenFoldSet
<1>2. Saved!SumFunction(f) = SumFunction(f)
  BY <1>1, Zenon DEF Saved!SumFunction, SumFunction
<1>3. Saved!Cardinality(S) = Cardinality(S)
  BY Zenon DEF Saved!Cardinality, Cardinality
<1> QED BY <1>1, <1>2, <1>3, Zenon

\* Operators that read the tables
LEMMA SavedReads ==
    ASSUME Committed
    PROVE  /\ \A x : Saved!account_exists(x) <=> account_exists(x)
           /\ \A x : Saved!EpochOf(x) = EpochOf(x)
           /\ \A x : Saved!Info(x) = Info(x)
           /\ \A k : Saved!pending_exists(k) <=> pending_exists(k)
           /\ \A k : Saved!PendingEpoch(k) = PendingEpoch(k) /\ Saved!pending_get(k) = pending_get(k)
           /\ \A h : Saved!Balance(h) = Balance(h) /\ Saved!AmountOf(h) = AmountOf(h)
           /\ \A h : Saved!is_send(h) <=> is_send(h)
           /\ \A h : Saved!SendBlock(h) <=> SendBlock(h)
           /\ \A h : Saved!Received(h) = Received(h)
           /\ Saved!Blocks = Blocks /\ Saved!Opened = Opened /\ Saved!PendingKeys = PendingKeys
<1>0. /\ disk[1] = blocks /\ disk[2] = accounts /\ disk[3] = pending
      /\ disk[4] = representation /\ disk[5] = frontiers
  BY Zenon DEF Committed
<1>1. /\ \A x : Saved!account_exists(x) <=> account_exists(x)
      /\ \A x : Saved!EpochOf(x) = EpochOf(x)
  BY <1>0, Zenon DEF Saved!account_exists, Saved!EpochOf, account_exists, EpochOf
<1>2. \A x : Saved!Info(x) = Info(x)
  BY <1>0, <1>1, Zenon DEF Saved!Info, Info
<1>3. /\ \A k : Saved!pending_exists(k) <=> pending_exists(k)
      /\ \A k : Saved!PendingEpoch(k) = PendingEpoch(k)
  BY <1>0, Zenon DEF Saved!pending_exists, Saved!PendingEpoch, pending_exists, PendingEpoch
<1>4. \A k : Saved!pending_get(k) = pending_get(k)
  BY <1>0, <1>3, Zenon DEF Saved!pending_get, pending_get
<1>5. \A h : Saved!Balance(h) = Balance(h)
  BY <1>0, Zenon DEF Saved!Balance, Balance
<1>6. \A h : Saved!AmountOf(h) = AmountOf(h)
  BY <1>5, Zenon DEF Saved!AmountOf, AmountOf
<1>7. \A h : Saved!is_send(h) <=> is_send(h)
  BY <1>5, Zenon DEF Saved!is_send, is_send
<1>8. \A h : Saved!SendBlock(h) <=> SendBlock(h)
  BY <1>7, Zenon DEF Saved!SendBlock, SendBlock
<1>9. \A h : Saved!block_source(h) = block_source(h)
  BY <1>7, Zenon DEF Saved!block_source, block_source
<1>10. \A h : Saved!Received(h) = Received(h)
  BY <1>9, Zenon DEF Saved!Received, Received, Saved!is_epoch_link, is_epoch_link
<1>11. Saved!Blocks = Blocks /\ Saved!Opened = Opened /\ Saved!PendingKeys = PendingKeys
  BY <1>0, Zenon DEF Saved!Blocks, Saved!Opened, Saved!PendingKeys, Blocks, Opened, PendingKeys
<1> QED BY <1>1, <1>2, <1>3, <1>4, <1>5, <1>6, <1>7, <1>8, <1>10, <1>11, Zenon

LEMMA SavedIInv == Committed => (IInv <=> Saved!IInv)
<1> SUFFICES ASSUME Committed PROVE IInv <=> Saved!IInv
  BY Zenon
<1>0. /\ disk[1] = blocks /\ disk[2] = accounts /\ disk[3] = pending
      /\ disk[4] = representation /\ disk[5] = frontiers /\ rolling = <<>>
  BY Zenon DEF Committed
<1>1. TypeOK <=> Saved!TypeOK
  BY <1>0, SavedNames, Zenon DEF TypeOK, Saved!TypeOK
<1>2. ChainInv <=> Saved!ChainInv
  BY <1>0, SavedWalks, Zenon DEF ChainInv, Saved!ChainInv
<1>3. HeadInv <=> Saved!HeadInv
  BY <1>0, SavedReads DEF HeadInv, Saved!HeadInv
<1>4. LegacyInv <=> Saved!LegacyInv
  BY <1>0, SavedReads, SavedNames DEF LegacyInv, Saved!LegacyInv
<1>5. PendingInv <=> Saved!PendingInv
  BY <1>0, SavedReads, SavedNames DEF PendingInv, Saved!PendingInv
<1>6. NoDoubleReceive <=> Saved!NoDoubleReceive
  BY <1>0, SavedReads, Zenon DEF NoDoubleReceive, Saved!NoDoubleReceive
<1>7. RollingInv /\ Saved!RollingInv
  BY DEF RollingInv, Saved!RollingInv, Committed
<1> QED BY <1>1, <1>2, <1>3, <1>4, <1>5, <1>6, <1>7, Zenon DEF IInv, Saved!IInv

LEMMA SavedAudit == Committed => (AuditInv <=> Saved!AuditInv)
<1> SUFFICES ASSUME Committed PROVE AuditInv <=> Saved!AuditInv
  BY Zenon
<1>0. /\ disk[1] = blocks /\ disk[2] = accounts /\ disk[3] = pending
      /\ disk[4] = representation /\ disk[5] = frontiers
  BY Zenon DEF Committed
<1>1. Saved!BalanceOf = BalanceOf /\ Saved!AmountPending = AmountPending
  BY SavedReads, Zenon DEF Saved!BalanceOf, Saved!AmountPending, BalanceOf, AmountPending
<1>2. \A r : Saved!Delegators(r) = Delegators(r)
  BY SavedReads DEF Saved!Delegators, Delegators
<1>3. \A a : Saved!Chain(a) = Chain(a)
  BY <1>0, SavedReads, Zenon DEF Saved!Chain, Chain
<1>4. Supply <=> Saved!Supply
  <2>1. /\ Saved!SumFunction(Saved!BalanceOf) = SumFunction(BalanceOf)
        /\ Saved!SumFunction(Saved!AmountPending) = SumFunction(AmountPending)
    BY <1>1, SavedSums, Zenon
  <2> QED BY <2>1, Zenon DEF Supply, Saved!Supply
<1>5. WeightIsDelegatedBalance <=> Saved!WeightIsDelegatedBalance
  <2>1. \A r : SumFunctionOnSet(BalanceOf, Delegators(r))
               = Saved!SumFunctionOnSet(Saved!BalanceOf, Saved!Delegators(r))
    BY <1>1, <1>2, SavedSums, Zenon
  <2> QED BY <1>0, <2>1, SavedNames, Zenon DEF WeightIsDelegatedBalance, Saved!WeightIsDelegatedBalance
<1>6. LinkInv <=> Saved!LinkInv
  BY <1>0, SavedReads DEF LinkInv, Saved!LinkInv
<1>7. InfoInv <=> Saved!InfoInv
  <2>1. \A a : Saved!Cardinality(Saved!Chain(a)) = Cardinality(Chain(a))
    BY <1>3, SavedSums, Zenon
  <2> QED BY <1>0, <1>3, <2>1, SavedReads, SavedWalks, Zenon DEF InfoInv, Saved!InfoInv
<1>8. ValueInv <=> Saved!ValueInv
  BY <1>0, SavedReads, SavedWalks, SavedNames, Zenon DEF ValueInv, Saved!ValueInv
<1>9. PendingInfoInv <=> Saved!PendingInfoInv
  BY <1>0, SavedReads, Zenon DEF PendingInfoInv, Saved!PendingInfoInv
<1>10. FrontierInv <=> Saved!FrontierInv
  BY <1>0, SavedReads, SavedNames, Zenon DEF FrontierInv, Saved!FrontierInv
<1> QED BY <1>4, <1>5, <1>6, <1>7, <1>8, <1>9, <1>10, Zenon DEF AuditInv, Saved!AuditInv

\* Between commits the saved ledger stays as it is
LEMMA SavedKept ==
    ASSUME Saved!IInv, Saved!AuditInv, UNCHANGED disk
    PROVE  Saved!IInv' /\ Saved!AuditInv'
<1>1. /\ \A x : Saved!account_exists(x)' <=> Saved!account_exists(x)
      /\ \A x : Saved!EpochOf(x)' = Saved!EpochOf(x)
      /\ \A k : Saved!pending_exists(k)' <=> Saved!pending_exists(k)
      /\ \A k : Saved!PendingEpoch(k)' = Saved!PendingEpoch(k)
      /\ Saved!Blocks' = Saved!Blocks /\ Saved!Opened' = Saved!Opened
      /\ Saved!PendingKeys' = Saved!PendingKeys
  BY Zenon DEF Saved!account_exists, Saved!EpochOf, Saved!pending_exists, Saved!PendingEpoch,
         Saved!Blocks, Saved!Opened, Saved!PendingKeys
<1>2. /\ \A x : Saved!Info(x)' = Saved!Info(x)
      /\ \A k : Saved!pending_get(k)' = Saved!pending_get(k)
  BY <1>1, Zenon DEF Saved!Info, Saved!pending_get
<1>3. \A h \in Saved!Blocks : Saved!Info(disk[1][h].account)' = Saved!Info(disk[1][h].account)
  BY Zenon DEF Saved!Info, Saved!EpochOf, Saved!account_exists
<1>4. \A k : Saved!Balance(k)' = Saved!Balance(k)
  BY Zenon DEF Saved!Balance
<1>5. \A k : /\ Saved!Balance(Content[k].previous)' = Saved!Balance(Content[k].previous)
             /\ Saved!AmountOf(k)' = Saved!AmountOf(k)
             /\ Saved!is_send(k)' <=> Saved!is_send(k)
  BY <1>4, Zenon DEF Saved!AmountOf, Saved!is_send
<1>6. \A k : /\ Saved!SendBlock(k)' <=> Saved!SendBlock(k)
             /\ Saved!Received(k)' = Saved!Received(k)
  BY <1>5, Zenon DEF Saved!SendBlock, Saved!Received, Saved!block_source
<1>7. Saved!IInv'
  <2>1. Saved!TypeOK' /\ Saved!ChainInv'
    BY Zenon DEF Saved!IInv, Saved!TypeOK, Saved!ChainInv
  <2>2. Saved!HeadInv' /\ Saved!LegacyInv'
    BY Zenon DEF Saved!IInv, Saved!HeadInv, Saved!LegacyInv, Saved!account_exists, Saved!Info,
                 Saved!EpochOf
  <2>3. Saved!NoDoubleReceive'
    BY <1>6, Zenon DEF Saved!IInv, Saved!NoDoubleReceive
  <2>4. Saved!PendingInv'
    BY <1>6, Zenon DEF Saved!IInv, Saved!PendingInv, Saved!pending_exists
  <2>5. Saved!RollingInv'
    BY DEF Saved!RollingInv
  <2> QED BY <2>1, <2>2, <2>3, <2>4, <2>5, Zenon DEF Saved!IInv
<1>8. Saved!Supply' /\ Saved!WeightIsDelegatedBalance'
  <2>1. Saved!BalanceOf' = Saved!BalanceOf /\ Saved!AmountPending' = Saved!AmountPending
    BY <1>1, <1>2, Zenon DEF Saved!BalanceOf, Saved!AmountPending
  <2>2. \A r : Saved!Delegators(r)' = Saved!Delegators(r)
    BY <1>1, <1>2, Zenon DEF Saved!Delegators
  <2> QED BY <2>1, <2>2, Zenon DEF Saved!AuditInv, Saved!Supply, Saved!WeightIsDelegatedBalance
<1>9. Saved!LinkInv'
  BY <1>1, <1>2, <1>3, Zenon DEF Saved!AuditInv, Saved!LinkInv
<1>10. Saved!InfoInv' /\ Saved!FrontierInv'
  <2>1. \A x : Saved!Chain(x)' = Saved!Chain(x)
    BY <1>1, Zenon DEF Saved!Chain
  <2> QED BY <1>1, <1>2, <2>1, Zenon DEF Saved!AuditInv, Saved!InfoInv, Saved!FrontierInv
<1>11. Saved!ValueInv'
  <2>1. \A k : Saved!AmountOf(Saved!Received(k))' = Saved!AmountOf(Saved!Received(k))
    <3> TAKE k
    <3>1. PICK s : s = Saved!Received(k) /\ s = Saved!Received(k)'
      BY <1>6, Zenon
    <3> QED BY <3>1, Zenon DEF Saved!AmountOf, Saved!Balance
  <2> QED BY <1>1, <1>5, <1>6, <2>1, Zenon DEF Saved!AuditInv, Saved!ValueInv
<1>12. Saved!PendingInfoInv'
  BY <1>1, <1>2, <1>5, Zenon DEF Saved!AuditInv, Saved!PendingInfoInv
<1> QED BY <1>7, <1>8, <1>9, <1>10, <1>11, <1>12, Zenon DEF Saved!AuditInv

LEMMA SavedNext ==
    Committed' => (IInv' <=> Saved!IInv') /\ (AuditInv' <=> Saved!AuditInv')
BY SavedIInv, SavedAudit, PTL
-----------------------------------------------------------------------------
(* The invariant *)

LEMMA InitBP == BPInit => BPInv
<1> SUFFICES ASSUME BPInit PROVE BPInv
  BY Zenon
<1>1. Init
  BY Zenon DEF BPInit
<1>2. IInv /\ AuditInv
  BY <1>1, InitIInv, InitAudit, Zenon
<1>3. Committed
  BY <1>1, Zenon DEF BPInit, Persistent, Committed, Init
<1>4. Saved!IInv /\ Saved!AuditInv
  BY <1>2, <1>3, SavedIInv, SavedAudit, Zenon
<1> QED BY <1>2, <1>4, InitProcessor, Zenon DEF BPInv

\* The commit at the end of a batch: no rollback is under way
LEMMA CommitSaves ==
    ASSUME BPInv, EndBatch
    PROVE  Committed'
<1>1. disk' = <<blocks, accounts, pending, representation, frontiers, unchecked>> /\ UNCHANGED vars
  BY Zenon DEF EndBatch, Persistent
<1>2. rolling = <<>>
  BY Zenon DEF BPInv, ProcessorInv, LocalInv, EndBatch
<1> QED BY <1>1, <1>2, Zenon DEF Committed, vars

LEMMA CrashRestores ==
    ASSUME Crash
    PROVE  Committed'
BY Zenon DEF Crash, Committed

LEMMA NextBP == BPInv /\ [BPNext]_bpvars => BPInv'
<1> SUFFICES ASSUME BPInv, [BPNext]_bpvars PROVE BPInv'
  BY Zenon
<1>0. IInv /\ AuditInv /\ Saved!IInv /\ Saved!AuditInv /\ ProcessorInv
  BY Zenon DEF BPInv
<1>1. ProcessorInv'
  BY <1>0, NextProcessor, StutterProcessor, Zenon
<1>2. CASE Crash
  <2>1. Saved!IInv' /\ Saved!AuditInv'
    BY <1>0, <1>2, SavedKept, Zenon DEF Crash
  <2>2. IInv' /\ AuditInv'
    BY <1>2, <2>1, CrashRestores, SavedNext, Zenon
  <2> QED BY <1>1, <2>1, <2>2, Zenon DEF BPInv
<1>3. CASE [Next]_vars /\ disk' = disk
  <2>1. IInv' /\ AuditInv'
    BY <1>0, <1>3, NextIInv, NextAudit, Zenon
  <2>2. Saved!IInv' /\ Saved!AuditInv'
    BY <1>0, <1>3, SavedKept, Zenon
  <2> QED BY <1>1, <2>1, <2>2, Zenon DEF BPInv
<1>4. CASE EndBatch
  <2>1. UNCHANGED vars
    BY <1>4, Zenon DEF EndBatch
  <2>2. IInv' /\ AuditInv'
    BY <1>0, <2>1, NextIInv, NextAudit, Zenon
  <2>3. Saved!IInv' /\ Saved!AuditInv'
    BY <1>4, <2>2, CommitSaves, SavedNext, Zenon
  <2> QED BY <1>1, <2>2, <2>3, Zenon DEF BPInv
<1>5. CASE UNCHANGED bpvars
  <2>1. UNCHANGED vars /\ disk' = disk
    BY <1>5, Zenon DEF bpvars
  <2> QED BY <1>3, <2>1, Zenon
<1> QED BY <1>0, <1>2, <1>3, <1>4, <1>5, LedgerSteps, Zenon

\* The ledger in memory and the one on disk are sound, and what the queues and the
\* unchecked table say of a block is true, after every step of every thread and
\* after every crash.
THEOREM ProcessorInvariant == BPSpec => []BPInv
BY InitBP, NextBP, PTL DEF BPSpec

\* add, verify_state_blocks, process_one and queue_unchecked keep a block in one
\* place while it is of use, for every set of blocks, every order of arrival and
\* every point at which the mutex is given up or the node dies.
THEOREM ArrivalsHeldTheorem == BPSpec => []ArrivalsHeld
<1>1. BPInv => ArrivalsHeld
  BY ArrivalsFollow, Zenon DEF BPInv
<1> QED BY <1>1, ProcessorInvariant, PTL

\* process_one trusts the verdict of the batch verification, which may be as old as
\* the unchecked table: it still never takes a block that ledger::process would
\* refuse after checking the signature itself, and the tables change in no other way
\* than by process and rollback, or back to the last commit.
THEOREM LedgerSafetyTheorem == BPSpec => LedgerSafety
<1>1. BPInv /\ [BPNext]_bpvars => [vars' # vars => Next \/ Crash]_vars
  <2> SUFFICES ASSUME BPInv, [BPNext]_bpvars, vars' # vars PROVE Next \/ Crash
    BY Zenon
  <2>1. BPNext
    BY Zenon DEF bpvars
  <2> QED BY <2>1, LedgerSteps, Zenon DEF BPInv
<1>2. BPInit => Init
  BY Zenon DEF BPInit
<1> QED BY <1>1, <1>2, ProcessorInvariant, PTL DEF BPSpec, LedgerSafety

\* What process and rollback keep true of the tables is true for the node too: the
\* block processor cuts a rollback into steps, commits in batches and may die
\* between two commits.
THEOREM LedgerSoundTheorem == BPSpec => [](TablesMatchBlocks /\ RollbackAssertions)
<1>1. IInv /\ AuditInv => TablesMatchBlocks
  BY AccountInfoFollows, SidebandFollows, FrontiersFollow, PendingFollows, Zenon DEF AuditInv, TablesMatchBlocks
<1>2. BPInv => TablesMatchBlocks /\ RollbackAssertions
  BY <1>1, AssertionsFollow, Zenon DEF BPInv
<1> QED BY <1>2, ProcessorInvariant, PTL
=============================================================================
