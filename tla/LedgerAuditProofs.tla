-------------------------- MODULE LedgerAuditProofs --------------------------
(***************************************************************************)
(* The other half: rollback keeps AuditInv, so AuditInv is an invariant of *)
(* the ledger; with IInv it implies that every table holds what an auditor *)
(* computes from the blocks alone, and the assertions of a rollback.       *)
(***************************************************************************)
EXTENDS LedgerAuditProcessProofs
-----------------------------------------------------------------------------
(* What block_del and change_latest do when h, the head of account a, goes *)

Shrunk(h, a, rep_block, epoch) ==
    /\ h \in Blocks /\ h # Genesis /\ a = blocks[h].account /\ Info(a).head = h
    /\ Blocks' = Blocks \ {h}
    /\ \A k \in Blocks' : blocks'[k] = IF k = Content[h].previous
                                       THEN [blocks[k] EXCEPT !.successor = Zero]
                                       ELSE blocks[k]
    /\ OnlyAccount(a)
    /\ \A x \in Account \ {a} : EpochOf(x)' = EpochOf(x)
    /\ Content[h].previous = Zero => ~account_exists(a)'
    /\ Content[h].previous # Zero =>
         /\ account_exists(a)'
         /\ Info(a)' = [head |-> Content[h].previous, rep_block |-> rep_block,
                        open_block |-> Info(a).open_block,
                        balance |-> Balance(Content[h].previous),
                        block_count |-> Info(a).block_count - 1]
         /\ EpochOf(a)' = epoch

\* change_latest without a block deletes the entry
LEMMA ChangeLatestNone ==
    ASSUME IInv, NEW a \in Account, NEW rep_block, NEW balance, NEW count, NEW epoch,
           accounts' = change_latest(a, Zero, rep_block, balance, count, epoch)
    PROVE  /\ OnlyAccount(a)
           /\ \A x \in Account \ {a} : EpochOf(x)' = EpochOf(x)
           /\ ~account_exists(a)'
<1>0. AccountsOK /\ DOMAIN accounts[0] \cap DOMAIN accounts[1] = {}
  BY TypeParts, Zenon DEF IInv, HeadInv
<1>1. accounts' = account_del(accounts, a)
  BY Zenon DEF change_latest
<1>2. \A e \in Epoch : /\ DOMAIN accounts'[e] = DOMAIN accounts[e] \ {a}
                       /\ \A x \in DOMAIN accounts'[e] : accounts'[e][x] = accounts[e][x]
  BY <1>0, <1>1 DEF Epoch, account_del, Del, AccountsOK
<1> QED BY <1>0, <1>2 DEF Epoch, OnlyAccount, account_exists, Info, EpochOf

LEMMA DelIsShrunk ==
    ASSUME IInv, NEW h \in DOMAIN blocks, h # Genesis, NEW a, a = blocks[h].account, Info(a).head = h,
           NEW rep_block, NEW epoch \in Epoch,
           NEW balance, Content[h].previous # Zero => balance = Balance(Content[h].previous),
           NEW count, Content[h].previous # Zero => count = Info(a).block_count - 1,
           blocks' = block_del(h),
           accounts' = change_latest(a, Content[h].previous, rep_block, balance, count, epoch)
    PROVE  Shrunk(h, a, rep_block, epoch)
<1> DEFINE p == Content[h].previous
<1>1. /\ h \in Blocks /\ Blocks' = Blocks \ {h}
      /\ \A k \in Blocks' : blocks'[k] = IF k = p THEN [blocks[k] EXCEPT !.successor = Zero]
                                         ELSE blocks[k]
  BY Zenon DEF block_del, Blocks
<1>2. a \in Account /\ account_exists(a)
  BY Zenon DEF IInv, TypeOK, Sideband, HeadInv
<1> HIDE DEF p
<1>3. CASE p = Zero
  <2>1. accounts' = change_latest(a, Zero, rep_block, balance, count, epoch)
    BY <1>3, Zenon DEF p
  <2>2. /\ OnlyAccount(a) /\ ~account_exists(a)'
        /\ \A x \in Account \ {a} : EpochOf(x)' = EpochOf(x)
    BY <1>2, <2>1, ChangeLatestNone, Zenon
  <2> QED BY <1>1, <1>3, <2>2, Zenon DEF Shrunk, p
<1>4. CASE p # Zero
  <2>1. /\ OnlyAccount(a) /\ account_exists(a)' /\ EpochOf(a)' = epoch
        /\ \A x \in Account \ {a} : EpochOf(x)' = EpochOf(x)
        /\ Info(a)' = [head |-> p, rep_block |-> rep_block,
                       open_block |-> IF account_exists(a) THEN Info(a).open_block ELSE p,
                       balance |-> balance, block_count |-> count]
    <3>1. accounts' = change_latest(a, p, rep_block, balance, count, epoch)
      BY Zenon DEF p
    <3> QED BY ONLY IInv, epoch \in Epoch, <1>2, <1>4, <3>1, ChangeLatestEntry, Zenon
  <2> QED BY <1>1, <1>2, <1>4, <2>1, Zenon DEF Shrunk, p
<1> QED BY <1>3, <1>4, Zenon

\* The fields of the blocks that stay, and the chain below the one that went
LEMMA ShrunkBlocks ==
    ASSUME IInv, NEW h, NEW a, NEW rep_block, NEW epoch, Shrunk(h, a, rep_block, epoch)
    PROVE  /\ \A k \in Blocks' : /\ blocks'[k].account = blocks[k].account
                                 /\ blocks'[k].balance = blocks[k].balance
                                 /\ blocks'[k].epoch = blocks[k].epoch
                                 /\ blocks'[k].successor = IF k = Content[h].previous THEN Zero
                                                           ELSE blocks[k].successor
                                 /\ Content[k].previous # Zero => Content[k].previous \in Blocks'
           /\ Zero \notin Blocks /\ a \in Account /\ account_exists(a)
           /\ Content[h].previous # Zero => /\ Content[h].previous \in Blocks'
                                            /\ blocks[Content[h].previous].account = a
<1>0. BlocksOK /\ AccountsOK /\ ChainInv /\ HeadInv
  BY TypeParts, Zenon DEF IInv
<1>1. \A k \in Blocks : blocks[k] \in Sideband
  BY <1>0, Zenon DEF BlocksOK, Blocks
<1>2. h \in Blocks /\ Blocks' = Blocks \ {h} /\ a = blocks[h].account /\ Info(a).head = h
  BY Zenon DEF Shrunk
<1>3. \A k \in Blocks : Content[k].previous # h
  BY <1>0, <1>2, HeadIsLast, Zenon DEF Blocks
<1>4. \A k \in Blocks : Content[k].previous # Zero =>
          Content[k].previous \in Blocks' /\ blocks[Content[k].previous].account = blocks[k].account
  BY <1>0, <1>2, <1>3, Zenon DEF ChainInv, Blocks
<1>5. ASSUME NEW k \in Blocks'
      PROVE  /\ blocks'[k].account = blocks[k].account
             /\ blocks'[k].balance = blocks[k].balance
             /\ blocks'[k].epoch = blocks[k].epoch
             /\ blocks'[k].successor = IF k = Content[h].previous THEN Zero ELSE blocks[k].successor
  <2>1. CASE k = Content[h].previous
    <3>1. blocks'[k] = [blocks[k] EXCEPT !.successor = Zero] /\ blocks[k] \in Sideband
      BY <1>1, <1>2, <2>1, Zenon DEF Shrunk
    <3> QED BY <2>1, <3>1, Zenon DEF Sideband
  <2>2. CASE k # Content[h].previous
    <3>1. blocks'[k] = blocks[k]
      BY <2>2, Zenon DEF Shrunk
    <3> QED BY <2>2, <3>1, Zenon
  <2> QED BY <2>1, <2>2, Zenon
<1>6. Zero \notin Blocks /\ a \in Account /\ account_exists(a)
  BY <1>0, <1>1, <1>2, NamesAssumption DEF BlocksOK, Sideband, HeadInv, Blocks
<1> QED BY <1>2, <1>4, <1>5, <1>6, Zenon

LEMMA ShrunkLinks ==
    ASSUME IInv, IInv', LinkInv, NEW h, NEW a, NEW rep_block, NEW epoch, Shrunk(h, a, rep_block, epoch)
    PROVE  LinkInv'
<1> DEFINE p == Content[h].previous
<1>0. /\ h \in Blocks /\ Blocks' = Blocks \ {h} /\ Info(a).head = h /\ blocks[h].account = a
      /\ p = Zero => ~account_exists(a)'
      /\ p # Zero => account_exists(a)' /\ Info(a)'.head = p
      /\ \A x \in Account \ {a} : (account_exists(x)' <=> account_exists(x)) /\ Info(x)' = Info(x)
  BY DEF Shrunk, OnlyAccount
<1>1. /\ \A k \in Blocks' : /\ blocks'[k].account = blocks[k].account
                            /\ blocks'[k].successor = IF k = p THEN Zero ELSE blocks[k].successor
                            /\ Content[k].previous # Zero => Content[k].previous \in Blocks'
      /\ Zero \notin Blocks /\ a \in Account /\ account_exists(a)
      /\ p # Zero => p \in Blocks' /\ blocks[p].account = a
  BY ShrunkBlocks
<1>2. /\ \A k \in Blocks : blocks[k].account \in Account
      /\ \A x \in Account : account_exists(x) => Info(x).head \in Blocks /\ blocks[Info(x).head].account = x
      /\ Opened' \subseteq Account
      /\ \A x : x \in Opened <=> account_exists(x)
      /\ \A x : x \in Opened' <=> account_exists(x)'
  <2>1. BlocksOK /\ HeadInv
    BY TypeParts, Zenon DEF IInv
  <2>2. Opened' \subseteq Account
    BY TablesFiniteNext, Zenon DEF FiniteTables
  <2>3. \A k \in Blocks : blocks[k].account \in Account
    BY <2>1, Zenon DEF BlocksOK, Sideband, Blocks
  <2> QED BY <2>1, <2>2, <2>3, Zenon DEF HeadInv, Blocks, Opened, account_exists
<1> HIDE DEF p
<1>3. ASSUME NEW x \in Opened' PROVE blocks'[Info(x)'.head].successor = Zero
  <2>1. CASE x = a
    BY <1>0, <1>1, <1>2, <2>1, Zenon
  <2>2. CASE x # a
    <3>1. x \in Opened /\ Info(x)' = Info(x) /\ Info(x).head \in Blocks
          /\ blocks[Info(x).head].account = x
      BY <1>0, <1>2, <2>2, Zenon
    <3>2. Info(x).head \in Blocks'
      BY <1>0, <2>2, <3>1, Zenon
    <3> QED BY <1>1, <3>1, <3>2 DEF LinkInv
  <2> QED BY <2>1, <2>2, Zenon
<1>4. ASSUME NEW k \in Blocks'
      PROVE  /\ blocks'[k].successor = Zero => k = Info(blocks[k].account)'.head
             /\ Content[k].previous # Zero => blocks'[Content[k].previous].successor = k
             /\ blocks'[k].successor # Zero =>
                  /\ blocks'[k].successor \in Blocks'
                  /\ Content[blocks'[k].successor].previous = k
  <2>0. /\ blocks[k].successor = Zero => k = Info(blocks[k].account).head
        /\ Content[k].previous # Zero => blocks[Content[k].previous].successor = k
        /\ blocks[k].successor # Zero => /\ blocks[k].successor \in Blocks
                                         /\ Content[blocks[k].successor].previous = k
        /\ p # Zero => blocks[p].successor = h
        /\ k \in Blocks /\ k # h
    BY <1>0, Zenon DEF LinkInv, p
  <2>1. blocks'[k].successor = Zero => k = Info(blocks[k].account)'.head
    <3> SUFFICES ASSUME blocks'[k].successor = Zero PROVE k = Info(blocks[k].account)'.head
      BY Zenon
    <3>1. PICK x \in Account : x = blocks[k].account
      BY <1>2, <2>0, Zenon
    <3>2. blocks'[k].account = x
      BY <1>1, <3>1, Zenon
    <3>3. k = Info(x)'.head
      <4>1. CASE k = p
        BY <1>0, <1>1, <2>0, <3>1, <4>1, Zenon
      <4>2. CASE k # p
        <5>1. k = Info(x).head
          BY <1>1, <2>0, <3>1, <4>2, Zenon
        <5>2. x # a
          BY <1>0, <2>0, <5>1, Zenon
        <5> QED BY <1>0, <5>1, <5>2, Zenon
      <4> QED BY <4>1, <4>2, Zenon
    <3> QED BY <3>2, <3>3, Zenon DEF Info, EpochOf, account_exists
  <2>2. Content[k].previous # Zero => blocks'[Content[k].previous].successor = k
    BY <1>1, <2>0, Zenon
  <2>3. blocks'[k].successor # Zero => /\ blocks'[k].successor \in Blocks'
                                       /\ Content[blocks'[k].successor].previous = k
    BY <1>0, <1>1, <2>0 DEF p
  <2> QED BY <2>1, <2>2, <2>3, Zenon
<1> QED BY <1>3, <1>4, Zenon DEF LinkInv

LEMMA ShrunkInfo ==
    ASSUME IInv, IInv', InfoInv, NEW h, NEW a, NEW rep_block, NEW epoch, Shrunk(h, a, rep_block, epoch),
           Content[h].previous # Zero => /\ rep_block = RepBlock[Content[h].previous]
                                         /\ epoch = blocks[Content[h].previous].epoch
    PROVE  InfoInv'
<1> DEFINE p == Content[h].previous
<1>0. /\ h \in Blocks /\ Blocks' = Blocks \ {h} /\ blocks[h].account = a
      /\ p = Zero => ~account_exists(a)'
      /\ p # Zero => /\ account_exists(a)' /\ EpochOf(a)' = epoch
                     /\ Info(a)'.head = p /\ Info(a)'.rep_block = rep_block
                     /\ Info(a)'.open_block = Info(a).open_block
                     /\ Info(a)'.block_count = Info(a).block_count - 1
      /\ \A x \in Account \ {a} : /\ account_exists(x)' <=> account_exists(x)
                                  /\ Info(x)' = Info(x) /\ EpochOf(x)' = EpochOf(x)
  BY DEF Shrunk, OnlyAccount
<1>1. /\ \A k \in Blocks' : blocks'[k].account = blocks[k].account /\ blocks'[k].epoch = blocks[k].epoch
      /\ a \in Account /\ account_exists(a)
      /\ p # Zero => p \in Blocks'
  BY ShrunkBlocks, Zenon
<1>2. /\ IsFiniteSet(Blocks) /\ Opened' \subseteq Account
      /\ \A x : x \in Opened <=> account_exists(x)
      /\ \A x : x \in Opened' <=> account_exists(x)'
  BY TablesFinite, TablesFiniteNext, Zenon DEF FiniteTables, Opened, account_exists
<1>3. ASSUME NEW x \in Opened', x # a
      PROVE  /\ Info(x)'.rep_block = RepBlock[Info(x)'.head]
             /\ Info(x)'.open_block \in Chain(x)'
             /\ Content[Info(x)'.open_block].previous = Zero
             /\ Info(x)'.block_count = Cardinality(Chain(x)')
             /\ EpochOf(x)' = blocks'[Info(x)'.head].epoch
  <2>1. x \in Opened /\ Info(x)' = Info(x) /\ EpochOf(x)' = EpochOf(x)
    BY <1>0, <1>2, <1>3, Zenon
  <2>2. Chain(x)' = Chain(x)
    <3>1. \A k \in Blocks' : k \in Chain(x)' <=> blocks'[k].account = x
      BY Zenon DEF Chain
    <3>2. \A k \in Blocks : k \in Chain(x) <=> blocks[k].account = x
      BY Zenon DEF Chain
    <3>3. Chain(x) \subseteq Blocks /\ Chain(x)' \subseteq Blocks'
      BY Zenon DEF Chain
    <3>4. \A k : k \in Chain(x)' <=> k \in Chain(x)
      BY <1>0, <1>1, <1>3, <3>1, <3>2, <3>3, Zenon
    <3> QED BY <3>4, Zenon
  <2>3. Info(x).head \in Blocks'
    BY <1>0, <1>2, <1>3, <2>1, Zenon DEF IInv, HeadInv, Blocks
  <2> QED BY <1>1, <2>1, <2>2, <2>3, Zenon DEF InfoInv
<1>4. ASSUME p # Zero
      PROVE  /\ Info(a)'.open_block \in Chain(a)'
             /\ Content[Info(a)'.open_block].previous = Zero
             /\ Info(a)'.block_count = Cardinality(Chain(a)')
  <2>1. /\ Info(a).open_block \in Chain(a) /\ Content[Info(a).open_block].previous = Zero
        /\ Info(a).block_count = Cardinality(Chain(a))
    BY <1>1, <1>2, Zenon DEF InfoInv
  <2>2. h \in Chain(a)
    BY <1>0, Zenon DEF Chain
  <2>3. Chain(a)' = Chain(a) \ {h}
    <3>1. \A k \in Blocks' : k \in Chain(a)' <=> blocks'[k].account = a
      BY Zenon DEF Chain
    <3>2. \A k \in Blocks : k \in Chain(a) <=> blocks[k].account = a
      BY Zenon DEF Chain
    <3>3. Chain(a) \subseteq Blocks /\ Chain(a)' \subseteq Blocks'
      BY Zenon DEF Chain
    <3>4. \A k : k \in Chain(a)' <=> k \in Chain(a) \ {h}
      BY <1>0, <1>1, <3>1, <3>2, <3>3, Zenon
    <3> QED BY <3>4, Zenon
  <2>4. IsFiniteSet(Chain(a))
    BY <1>2, FS_Subset, Zenon DEF Chain
  <2>5. Cardinality(Chain(a)') = Cardinality(Chain(a)) - 1
    BY <2>2, <2>3, <2>4, FS_RemoveElement, Zenon
  <2>6. Info(a).open_block # h
    BY <1>4, <2>1, Zenon
  <2> QED BY <1>0, <1>4, <2>1, <2>3, <2>5, <2>6, Zenon
<1>5. ASSUME NEW x \in Opened'
      PROVE  /\ Info(x)'.rep_block = RepBlock[Info(x)'.head]
             /\ Info(x)'.open_block \in Chain(x)'
             /\ Content[Info(x)'.open_block].previous = Zero
             /\ Info(x)'.block_count = Cardinality(Chain(x)')
             /\ EpochOf(x)' = blocks'[Info(x)'.head].epoch
  BY <1>0, <1>1, <1>2, <1>3, <1>4
<1> QED BY <1>5, Zenon DEF InfoInv

LEMMA ShrunkStable ==
    ASSUME IInv, NEW h, NEW a, NEW rep_block, NEW epoch, Shrunk(h, a, rep_block, epoch), NEW k \in Blocks'
    PROVE  /\ AmountOf(k)' = AmountOf(k)
           /\ Balance(Content[k].previous)' = Balance(Content[k].previous)
           /\ SendBlock(k)' <=> SendBlock(k)
           /\ Received(k)' = Received(k)
<1>1. k # Zero /\ blocks'[k].balance = blocks[k].balance
  BY ShrunkBlocks, NamesAssumption DEF Shrunk
<1>2. Content[k].previous # Zero =>
          blocks'[Content[k].previous].balance = blocks[Content[k].previous].balance
  BY ShrunkBlocks, Zenon
<1> QED BY <1>1, <1>2, AmountStable, Zenon

\* rollback_visitor deletes no send that somebody received
LEMMA Unreceived ==
    ASSUME IInv, NEW h \in Blocks, ~ReceivedByDestination(h)
    PROVE  \A r \in Blocks : Received(r) # h
<1>0. PendingInv /\ h # Zero
  BY NamesAssumption DEF IInv, TypeOK, Blocks
<1>1. CASE SendBlock(h)
  <2> DEFINE key == <<Content[h].link, h>>
  <2>1. pending_exists(key) /\ key[2] = h
    BY <1>1, Zenon DEF ReceivedByDestination, SendBlock
  <2> HIDE DEF key
  <2> QED BY <1>0, <2>1 DEF Epoch, PendingInv, pending_exists, Blocks
<1>2. CASE ~SendBlock(h)
  BY <1>0, <1>2, Zenon DEF PendingInv, Blocks
<1> QED BY <1>1, <1>2, Zenon

LEMMA ShrunkValues ==
    ASSUME IInv, ValueInv, NEW h, NEW a, NEW rep_block, NEW epoch, Shrunk(h, a, rep_block, epoch),
           ~ReceivedByDestination(h)
    PROVE  ValueInv'
<1>0. h \in Blocks /\ Blocks' = Blocks \ {h}
  BY Zenon DEF Shrunk
<1>1. \A r \in Blocks : Received(r) # h
  BY <1>0, Unreceived, Zenon
<1>2. ASSUME NEW k \in Blocks' PROVE ValueOK(k)'
  <2>0. ValueOK(k) /\ k \in Blocks
    BY <1>0, ValueParts, Zenon
  <2>1. /\ AmountOf(k)' = AmountOf(k)
        /\ Balance(Content[k].previous)' = Balance(Content[k].previous)
        /\ SendBlock(k)' <=> SendBlock(k)
        /\ Received(k)' = Received(k)
    BY ShrunkStable, Zenon
  <2>2. /\ blocks'[k].balance = blocks[k].balance /\ blocks'[k].epoch = blocks[k].epoch
        /\ Content[k].previous # Zero =>
             blocks'[Content[k].previous].epoch = blocks[Content[k].previous].epoch
    BY ShrunkBlocks, Zenon
  <2>3. Received(k) # Zero => /\ Received(k) \in Blocks'
                              /\ AmountOf(Received(k))' = AmountOf(Received(k))
    <3> SUFFICES ASSUME Received(k) # Zero
                 PROVE  Received(k) \in Blocks' /\ AmountOf(Received(k))' = AmountOf(Received(k))
      BY Zenon
    <3>1. PICK s \in Blocks : s = Received(k)
      BY <2>0, Zenon DEF IInv, PendingInv, Blocks
    <3>2. s \in Blocks'
      BY <1>0, <1>1, <2>0, <3>1, Zenon
    <3>3. AmountOf(s)' = AmountOf(s)
      BY <3>2, ShrunkStable, Zenon
    <3>4. Received(k)' = s
      BY <2>1, <3>1, Zenon
    <3> QED BY <3>1, <3>2, <3>3, <3>4, Zenon DEF AmountOf, Balance
  <2>4. Content[k].type \in {"receive", "open"} /\ k # Genesis =>
            blocks'[Content[k].link].epoch = blocks[Content[k].link].epoch
    <3> SUFFICES ASSUME Content[k].type \in {"receive", "open"}, k # Genesis
                 PROVE  blocks'[Content[k].link].epoch = blocks[Content[k].link].epoch
      BY Zenon
    <3>1. Content[k].link \in Hash
      BY <2>0, Zenon DEF IInv, LegacyInv, Blocks
    <3>2. Received(k) = Content[k].link /\ Received(k) # Zero
      BY <3>1, NamesAssumption DEF Received, block_source, is_epoch_link
    <3>3. Content[k].link \in Blocks'
      BY <2>3, <3>2, Zenon
    <3> QED BY <3>3, ShrunkBlocks, Zenon
  <2> QED BY <2>0, <2>1, <2>2, <2>3, <2>4, Zenon DEF ValueOK
<1> QED BY <1>2, ValuePartsNext, Zenon

LEMMA ShrunkFrontiers ==
    ASSUME IInv, IInv', FrontierInv, NEW h, NEW a, NEW rep_block, NEW epoch,
           Shrunk(h, a, rep_block, epoch),
           DOMAIN frontiers \ {h} \subseteq DOMAIN frontiers',
           Content[h].previous # Zero /\ Content[Content[h].previous].type \in LegacyType
             => Content[h].previous \in DOMAIN frontiers'
    PROVE  FrontierInv'
<1> SUFFICES ASSUME NEW x \in Opened', Content[Info(x)'.head].type \in LegacyType
             PROVE  Info(x)'.head \in DOMAIN frontiers'
  BY Zenon DEF FrontierInv
<1>0. x \in Account /\ account_exists(x)'
  BY TablesFiniteNext, Zenon DEF FiniteTables, Opened, account_exists
<1>1. CASE x = a
  BY <1>0, <1>1 DEF Shrunk
<1>2. CASE x # a
  <2>1. account_exists(x) /\ x \in Opened /\ Info(x)' = Info(x)
    BY <1>0, <1>2, Zenon DEF Shrunk, OnlyAccount, Opened, account_exists
  <2>2. blocks[Info(x).head].account = x
    BY <1>0, <2>1, Zenon DEF IInv, HeadInv
  <2>3. Info(x).head # h
    BY <1>2, <2>2, Zenon DEF Shrunk
  <2> QED BY <2>1, <2>3, Zenon DEF FrontierInv
<1> QED BY <1>1, <1>2, Zenon

\* The balance goes back to that of the block before
LEMMA ShrunkBalance ==
    ASSUME IInv, NEW h, NEW a, NEW rep_block, NEW epoch, Shrunk(h, a, rep_block, epoch)
    PROVE  /\ Info(a).balance = blocks[h].balance /\ Info(a)'.balance = Balance(Content[h].previous)
           /\ Info(a).balance \in Amount /\ Balance(Content[h].previous) \in Amount
<1> DEFINE p == Content[h].previous
<1>0. BlocksOK /\ AccountsOK /\ HeadInv
  BY TypeParts, Zenon DEF IInv
<1>1. a \in Account /\ account_exists(a) /\ Info(a).head = h /\ h \in Blocks /\ Blocks' \subseteq Blocks
  <2>1. a \in Account /\ account_exists(a)
    BY ShrunkBlocks, Zenon
  <2> QED BY <2>1, Zenon DEF Shrunk
<1>2. Info(a).balance = blocks[h].balance /\ blocks[h].balance \in Amount
  BY <1>0, <1>1, Zenon DEF HeadInv, BlocksOK, Sideband, Blocks
<1>3. p = Zero \/ p \in DOMAIN blocks
  BY <1>1, ShrunkBlocks, Zenon DEF Blocks
<1>4. Balance(p) \in Amount
  BY <1>0, <1>3, BalanceType, Zenon
<1>5. Info(a)'.balance = Balance(p)
  <2>1. CASE p = Zero
    BY <2>1, Zenon DEF Shrunk, Info, Balance
  <2>2. CASE p # Zero
    BY <2>2 DEF Shrunk
  <2> QED BY <2>1, <2>2, Zenon
<1> QED BY <1>2, <1>4, <1>5, Zenon

\* What stays pending keeps its amount and its epoch
LEMMA ShrunkPending ==
    ASSUME IInv, PendingInfoInv, NEW h, NEW a, NEW rep_block, NEW epoch,
           Shrunk(h, a, rep_block, epoch), NEW k \in PendingKeys, k[2] # h
    PROVE  /\ pending_get(k).amount = AmountOf(k[2])'
           /\ PendingEpoch(k) = blocks'[k[2]].epoch
<1>1. k[2] \in Blocks'
  <2>1. k[2] \in Blocks
    BY DEF Epoch, IInv, PendingInv, PendingKeys, Blocks
  <2> QED BY <2>1, Zenon DEF Shrunk
<1>2. AmountOf(k[2])' = AmountOf(k[2]) /\ blocks'[k[2]].epoch = blocks[k[2]].epoch
  BY <1>1, ShrunkStable, ShrunkBlocks, Zenon
<1> QED BY <1>2, Zenon DEF PendingInfoInv

\* A pending entry of h is the one under its link
LEMMA PendingOfBlock ==
    ASSUME IInv, NEW k \in PendingKeys
    PROVE  SendBlock(k[2]) /\ k = <<Content[k[2]].link, k[2]>>
<1>1. k \in Link \X Hash
  BY DEF Epoch, IInv, TypeOK, PendingKeys
<1>2. SendBlock(k[2]) /\ k[1] = Content[k[2]].link
  BY DEF Epoch, IInv, PendingInv, PendingKeys
<1> QED BY <1>1, <1>2

LEMMA ShrunkSend ==
    ASSUME IInv, IInv', Supply, ValueInv, PendingInfoInv, NEW h, NEW a, NEW rep_block, NEW epoch,
           Shrunk(h, a, rep_block, epoch), SendBlock(h), PendingTaken(<<Content[h].link, h>>)
    PROVE  /\ Supply' /\ PendingInfoInv'
           /\ pending_get(<<Content[h].link, h>>).amount = Info(a)'.balance - Info(a).balance
<1> DEFINE key == <<Content[h].link, h>>
<1>0. OnlyAccount(a) /\ h \in Blocks /\ h # Zero
  <2>1. Zero \notin Blocks
    BY ShrunkBlocks, Zenon
  <2> QED BY <2>1, Zenon DEF Shrunk
<1>1. PICK old, new, m : /\ old = Info(a).balance /\ new = Info(a)'.balance
                         /\ m = pending_get(key).amount
  BY Zenon
<1>2. /\ old = blocks[h].balance /\ new = Balance(Content[h].previous)
      /\ old \in Amount /\ new \in Amount
  BY <1>1, ShrunkBalance, Zenon
<1>3. old <= new
  BY <1>0, <1>2, ValueParts, Zenon DEF ValueOK
<1>4. m = new - old
  <2>1. m = AmountOf(key[2]) /\ key[2] = h
    BY <1>1, Zenon DEF PendingTaken, PendingInfoInv
  <2>2. AmountOf(h) = IF old > new THEN old - new ELSE new - old
    BY <1>0, <1>2, Zenon DEF AmountOf, Balance
  <2> QED BY <1>2, <1>3, <2>1, <2>2 DEF Amount
<1>5. Supply'
  <2>1. Pendings' = Pendings - m /\ Pendings \in Nat /\ m \in Nat
    BY <1>1, PendingsTaken, Zenon
  <2>2. PICK q \in Nat : q = Pendings
    BY <2>1, Zenon
  <2>3. -m \in Int /\ q - m = q + (-m) /\ new = old - (-m)
    BY <1>2, <1>4, <2>1, <2>2 DEF Amount
  <2>4. Pendings' = Pendings + (-m) /\ Info(a)'.balance = Info(a).balance - (-m)
    BY <1>1, <2>1, <2>2, <2>3, Zenon
  <2> QED BY <1>0, <2>3, <2>4, SupplyKept, Zenon
<1>6. ASSUME NEW k \in PendingKeys'
      PROVE  /\ pending_get(k)'.amount = AmountOf(k[2])'
             /\ PendingEpoch(k)' = blocks'[k[2]].epoch
  <2>1. /\ k \in PendingKeys /\ k # key
        /\ pending_get(k)' = pending_get(k) /\ PendingEpoch(k)' = PendingEpoch(k)
    BY Zenon DEF PendingTaken
  <2>2. k[2] # h
    BY <2>1, PendingOfBlock, Zenon
  <2> QED BY <2>1, <2>2, ShrunkPending, Zenon
<1> QED BY <1>1, <1>4, <1>5, <1>6, Zenon DEF PendingInfoInv

LEMMA ShrunkReceive ==
    ASSUME IInv, IInv', Supply, ValueInv, PendingInfoInv, NEW h, NEW a, NEW rep_block, NEW epoch,
           Shrunk(h, a, rep_block, epoch), ~SendBlock(h), NEW s, Received(h) = s, s # Zero,
           NEW amount, amount = Info(a).balance - Info(a)'.balance \/ amount = AmountOf(s),
           NEW version, version = blocks[s].epoch, PendingAdded(<<a, s>>, amount, version)
    PROVE  /\ Supply' /\ PendingInfoInv'
           /\ amount = Info(a).balance - Info(a)'.balance /\ amount \in Nat
<1> DEFINE key == <<a, s>>
<1>0. OnlyAccount(a) /\ h \in Blocks /\ h # Zero /\ h # Genesis /\ Blocks' = Blocks \ {h}
      /\ blocks[h].account = a
  <2>1. Zero \notin Blocks
    BY ShrunkBlocks, Zenon
  <2> QED BY <2>1, Zenon DEF Shrunk
<1>1. PICK old, new : old = Info(a).balance /\ new = Info(a)'.balance
  BY Zenon
<1>2. /\ old = blocks[h].balance /\ new = Balance(Content[h].previous)
      /\ old \in Amount /\ new \in Amount
  BY <1>1, ShrunkBalance, Zenon
<1>3. s \in Blocks' /\ AmountOf(s) \in Amount
  <2>1. s \in DOMAIN blocks /\ AmountOf(s) \in Amount
    BY <1>0, SourceFacts, Zenon DEF Blocks
  <2>2. SendBlock(s)
    BY <1>0, Zenon DEF IInv, PendingInv, Blocks
  <2> QED BY <1>0, <2>1, <2>2, Zenon DEF Blocks
<1>4. amount = old - new /\ amount = AmountOf(s) /\ amount \in Nat
  <2>1. old = new + AmountOf(s)
    BY <1>0, <1>2, ValueParts, Zenon DEF ValueOK
  <2>2. PICK m \in Amount : m = AmountOf(s)
    BY <1>3, Zenon
  <2>3. old - new = m /\ m \in Nat
    BY <1>2, <2>1, <2>2 DEF Amount
  <2> QED BY <1>1, <2>2, <2>3, Zenon
<1>5. Supply'
  <2>1. Pendings' = Pendings + amount
    BY PendingsAdded, Zenon
  <2>2. new = old - amount
    BY <1>2, <1>4 DEF Amount
  <2>3. amount \in Int /\ Info(a)'.balance = Info(a).balance - amount
    BY <1>1, <1>4, <2>2
  <2> QED BY <1>0, <2>1, <2>3, SupplyKept, Zenon
<1>6. AmountOf(s)' = AmountOf(s) /\ blocks'[s].epoch = blocks[s].epoch
  BY <1>3, ShrunkStable, ShrunkBlocks, Zenon
<1>7. ASSUME NEW k \in PendingKeys'
      PROVE  /\ pending_get(k)'.amount = AmountOf(k[2])'
             /\ PendingEpoch(k)' = blocks'[k[2]].epoch
  <2>1. CASE k = key
    <3>1. k[2] = s
      BY <2>1, Zenon
    <3>2. pending_get(k)'.amount = amount /\ PendingEpoch(k)' = version
      BY <2>1, Zenon DEF PendingAdded
    <3> QED BY <1>4, <1>6, <3>1, <3>2, Zenon
  <2>2. CASE k # key
    <3>1. k \in PendingKeys /\ pending_get(k)' = pending_get(k) /\ PendingEpoch(k)' = PendingEpoch(k)
      BY <2>2, Zenon DEF PendingAdded
    <3>2. k[2] # h
      BY <3>1, PendingOfBlock, Zenon
    <3> QED BY <3>1, <3>2, ShrunkPending, Zenon
  <2> QED BY <2>1, <2>2, Zenon
<1> QED BY <1>1, <1>4, <1>5, <1>7, Zenon DEF PendingInfoInv

LEMMA ShrunkNone ==
    ASSUME IInv, IInv', Supply, ValueInv, PendingInfoInv, NEW h, NEW a, NEW rep_block, NEW epoch,
           Shrunk(h, a, rep_block, epoch), ~SendBlock(h), Received(h) = Zero, pending' = pending
    PROVE  Supply' /\ PendingInfoInv' /\ Info(a)'.balance = Info(a).balance
<1>0. OnlyAccount(a) /\ h \in Blocks /\ h # Genesis
  BY Zenon DEF Shrunk
<1>1. /\ PendingKeys' = PendingKeys
      /\ \A k : pending_get(k)' = pending_get(k) /\ PendingEpoch(k)' = PendingEpoch(k)
  BY Zenon DEF PendingKeys, pending_get, PendingEpoch
<1>2. Info(a)'.balance = Info(a).balance /\ Info(a).balance \in Nat
  <2>1. PICK old, new : old = Info(a).balance /\ new = Info(a)'.balance
    BY Zenon
  <2>2. old = blocks[h].balance /\ new = Balance(Content[h].previous) /\ old \in Amount /\ new \in Amount
    BY <2>1, ShrunkBalance, Zenon
  <2>3. old = new + 0
    BY <1>0, <2>2, ValueParts, Zenon DEF ValueOK
  <2> QED BY <2>1, <2>2, <2>3 DEF Amount
<1>3. Supply'
  <2>1. AmountPending' = AmountPending
    BY <1>1, Zenon DEF AmountPending
  <2>2. Pendings' = Pendings
    BY <2>1, Zenon DEF Pendings
  <2>3. Pendings \in Nat
    BY TablesFinite, SumNat, Zenon DEF FiniteTables, Pendings, SumFunction
  <2>4. Pendings' = Pendings + 0 /\ Info(a)'.balance = Info(a).balance - 0
    BY <1>2, <2>2, <2>3
  <2> QED BY <1>0, <2>4, SupplyKept
<1>4. ASSUME NEW k \in PendingKeys'
      PROVE  /\ pending_get(k)'.amount = AmountOf(k[2])'
             /\ PendingEpoch(k)' = blocks'[k[2]].epoch
  <2>1. k[2] # h
    BY <1>1, PendingOfBlock, Zenon
  <2> QED BY <1>1, <2>1, ShrunkPending, Zenon
<1> QED BY <1>2, <1>3, <1>4, Zenon DEF PendingInfoInv

LEMMA ShrunkAudit ==
    ASSUME IInv, IInv', AuditInv, NEW h, NEW a, NEW rep_block, NEW epoch,
           Shrunk(h, a, rep_block, epoch), ~ReceivedByDestination(h),
           Content[h].previous # Zero => /\ rep_block = RepBlock[Content[h].previous]
                                         /\ epoch = blocks[Content[h].previous].epoch,
           Supply', PendingInfoInv', WeightIsDelegatedBalance',
           DOMAIN frontiers \ {h} \subseteq DOMAIN frontiers',
           Content[h].previous # Zero /\ Content[Content[h].previous].type \in LegacyType
             => Content[h].previous \in DOMAIN frontiers'
    PROVE  AuditInv'
<1>1. LinkInv /\ InfoInv /\ ValueInv /\ FrontierInv
  BY Zenon DEF AuditInv
<1>2. LinkInv' /\ InfoInv'
  BY <1>1, ShrunkLinks, ShrunkInfo, Zenon
<1>3. ValueInv' /\ FrontierInv'
  BY <1>1, ShrunkValues, ShrunkFrontiers, Zenon
<1> QED BY <1>2, <1>3, Zenon DEF AuditInv
-----------------------------------------------------------------------------
(* rollback_visitor *)

\* What the audit says of the head that is visited and of the block before it
LEMMA VisitedFacts ==
    ASSUME IInv, InfoInv, ValueInv, NEW h \in DOMAIN blocks, NEW a, a = blocks[h].account,
           Info(a).head = h
    PROVE  LET p == Content[h].previous
           IN /\ a \in Account /\ account_exists(a)
              /\ Info(a).rep_block = RepBlock[h] /\ RepBlock[h] # Zero
              /\ Info(a).balance = blocks[h].balance
              /\ ValueOK(h)
              /\ p # Zero => /\ p \in DOMAIN blocks /\ p \in Hash /\ blocks[p].account = a
                             /\ RepBlock[p] # Zero
                             /\ Content[p].type \in LegacyType => blocks[p].epoch = 0
<1> DEFINE p == Content[h].previous
<1>0. BlocksOK /\ ChainInv /\ HeadInv
  BY TypeParts, Zenon DEF IInv
<1>1. a \in Account /\ account_exists(a) /\ Info(a).balance = blocks[h].balance
  BY <1>0, Zenon DEF BlocksOK, Sideband, HeadInv
<1>2. p # Zero => p \in DOMAIN blocks /\ p \in Hash /\ blocks[p].account = a
  BY <1>0, Zenon DEF ChainInv, BlocksOK
<1>3. Info(a).rep_block = RepBlock[h]
  BY <1>1, Zenon DEF InfoInv, Opened, account_exists
<1>4. ValueOK(h) /\ (p # Zero => ValueOK(p))
  BY <1>2, ValueParts, Zenon DEF Blocks
<1> QED BY <1>1, <1>2, <1>3, <1>4, Zenon DEF ValueOK

LEMMA RollbackSendAudit ==
    ASSUME IInv, IInv', AuditInv, NEW h \in DOMAIN blocks, h \in Hash, h # Genesis,
           NEW a, a = blocks[h].account, Info(a).head = h,
           Content[h].type = "send", ~ReceivedByDestination(h), RollbackSend(h)
    PROVE  AuditInv'
<1> DEFINE p == Content[h].previous
           key == <<Content[h].link, h>>
<1>b. PICK amount, rep : amount = pending_get(key).amount /\ rep = Info(a).rep_block
  BY Zenon
<1>0. Supply /\ WeightIsDelegatedBalance /\ InfoInv /\ ValueInv /\ PendingInfoInv
  BY Zenon DEF AuditInv
<1>1. p # Zero /\ Content[p].type \in LegacyType
  BY Zenon DEF IInv, LegacyInv
<1>2. rep = RepBlock[h] /\ rep = RepBlock[p] /\ blocks[p].epoch = 0
  BY <1>b, <1>0, <1>1, VisitedFacts, RepBlockOf, Zenon
<1>3. SendBlock(h) /\ pending_exists(key)
  BY Zenon DEF ReceivedByDestination, SendBlock
<1>4. pending_get(key).source = a
  <2>1. key[2] = h
    BY Zenon
  <2> HIDE DEF key
  <2> QED BY <1>3, <2>1 DEF Epoch, IInv, PendingInv, pending_get, pending_exists, PendingEpoch
<1>5. Shrunk(h, a, rep, 0)
  <2>1. /\ blocks' = block_del(h)
        /\ accounts' = change_latest(a, p, rep, Balance(p), Info(a).block_count - 1, 0)
    BY <1>b, <1>4, Zenon DEF RollbackSend
  <2> QED BY <2>1, DelIsShrunk, Zenon DEF Epoch
<1>6. Supply' /\ PendingInfoInv' /\ amount = Info(a)'.balance - Info(a).balance
  <2>1. pending' = pending_del(key)
    BY Zenon DEF RollbackSend
  <2>2. PendingTaken(key)
    BY <1>3, <2>1, PendingDelTakes, Zenon
  <2> QED BY <1>b, <1>0, <1>3, <1>5, <2>2, ShrunkSend, Zenon
<1>7. WeightIsDelegatedBalance'
  <2>1. OnlyAccount(a) /\ Info(a)'.rep_block = rep
    BY <1>1, <1>5 DEF Shrunk
  <2>2. representation' = representation_add(representation, rep, amount)
    BY <1>b, <1>2, Zenon DEF RollbackSend
  <2>3. RepOf(a) = Content[rep].representative /\ RepOf(a)' = Content[rep].representative
    BY <1>b, <2>1, Zenon DEF RepOf
  <2> QED BY <1>0, <1>6, <2>1, <2>2, <2>3, WeightAdded, Zenon
<1>8. DOMAIN frontiers \ {h} \subseteq DOMAIN frontiers' /\ p \in DOMAIN frontiers'
  BY <1>4, Zenon DEF RollbackSend, MoveFrontier, Put, Del
<1> QED BY <1>2, <1>5, <1>6, <1>7, <1>8, ShrunkAudit, Zenon

LEMMA RollbackReceiveAudit ==
    ASSUME IInv, IInv', AuditInv, NEW h \in DOMAIN blocks, h \in Hash, h # Genesis,
           NEW a, a = blocks[h].account, Info(a).head = h,
           Content[h].type = "receive", ~ReceivedByDestination(h), RollbackReceive(h)
    PROVE  AuditInv'
<1> DEFINE p == Content[h].previous
           s == Content[h].link
<1>b. PICK amount, rep, source : /\ amount = AmountOf(s) /\ rep = Info(a).rep_block
                                 /\ source = AccountOf(s)
  BY Zenon
<1>0. Supply /\ WeightIsDelegatedBalance /\ InfoInv /\ ValueInv /\ PendingInfoInv
  BY Zenon DEF AuditInv
<1>1. p # Zero /\ Content[p].type \in LegacyType /\ s \in Hash
  BY Zenon DEF IInv, LegacyInv
<1>2. rep = RepBlock[h] /\ rep = RepBlock[p] /\ blocks[p].epoch = 0
  BY <1>b, <1>0, <1>1, VisitedFacts, RepBlockOf
<1>3. s # Zero /\ Received(h) = s /\ ~SendBlock(h)
  BY <1>1, NamesAssumption DEF Received, block_source, is_epoch_link, SendBlock
<1>4. ~pending_exists(<<a, s>>) /\ blocks[s].epoch = 0
  <2>1. ValueOK(h)
    BY <1>0, VisitedFacts, Zenon
  <2> QED BY <1>3, <2>1, SourceFacts, Zenon DEF ValueOK
<1>5. Shrunk(h, a, rep, 0)
  <2>1. /\ blocks' = block_del(h)
        /\ accounts' = change_latest(a, p, rep, Balance(p), Info(a).block_count - 1, 0)
    BY <1>2, Zenon DEF RollbackReceive, AccountOf
  <2> QED BY <2>1, DelIsShrunk, Zenon DEF Epoch
<1>6. Supply' /\ PendingInfoInv' /\ amount = Info(a).balance - Info(a)'.balance /\ amount \in Nat
  <2>1. pending' = pending_put(<<a, s>>, [source |-> source, amount |-> amount], 0)
    BY <1>b, Zenon DEF RollbackReceive, AccountOf
  <2>2. PendingAdded(<<a, s>>, amount, 0)
    BY <1>4, <2>1, PendingPutAdds DEF Epoch
  <2> QED BY <1>b, <1>0, <1>3, <1>4, <1>5, <2>2, ShrunkReceive, Zenon
<1>7. WeightIsDelegatedBalance'
  <2>1. OnlyAccount(a) /\ Info(a)'.rep_block = rep
    BY <1>1, <1>5 DEF Shrunk
  <2>2. representation' = representation_add(representation, rep, -amount)
    BY <1>b, <1>2, Zenon DEF RollbackReceive
  <2>3. RepOf(a) = Content[rep].representative /\ RepOf(a)' = Content[rep].representative
    BY <1>b, <2>1, Zenon DEF RepOf
  <2>4. -amount = Info(a)'.balance - Info(a).balance
    BY <1>5, <1>6, ShrunkBalance DEF Amount
  <2> QED BY <1>0, <1>6, <2>1, <2>2, <2>3, <2>4, WeightAdded, Zenon
<1>8. DOMAIN frontiers \ {h} \subseteq DOMAIN frontiers' /\ p \in DOMAIN frontiers'
  BY Zenon DEF RollbackReceive, MoveFrontier, Put, Del
<1> QED BY <1>2, <1>5, <1>6, <1>7, <1>8, ShrunkAudit, Zenon

LEMMA RollbackOpenAudit ==
    ASSUME IInv, IInv', AuditInv, NEW h \in DOMAIN blocks, h \in Hash, h # Genesis,
           NEW a, a = blocks[h].account, Info(a).head = h,
           Content[h].type = "open", ~ReceivedByDestination(h), RollbackOpen(h)
    PROVE  AuditInv'
<1> DEFINE s == Content[h].link
<1>b. PICK amount, source : amount = AmountOf(s) /\ source = AccountOf(s)
  BY Zenon
<1>0. Supply /\ WeightIsDelegatedBalance /\ InfoInv /\ ValueInv /\ PendingInfoInv
  BY Zenon DEF AuditInv
<1>1. Content[h].previous = Zero /\ s \in Hash
  BY PreviousAssumption DEF IInv, LegacyInv
<1>2. Info(a).rep_block = h /\ RepBlock[h] = h
  BY <1>0, VisitedFacts, RepBlockOf, Zenon
<1>3. s # Zero /\ Received(h) = s /\ ~SendBlock(h)
  BY <1>1, NamesAssumption DEF Received, block_source, is_epoch_link, SendBlock
<1>4. ~pending_exists(<<a, s>>) /\ blocks[s].epoch = 0
  <2>1. ValueOK(h)
    BY <1>0, VisitedFacts, Zenon
  <2> QED BY <1>3, <2>1, SourceFacts, Zenon DEF ValueOK
<1>5. Shrunk(h, a, Zero, 0)
  <2>1. /\ blocks' = block_del(h)
        /\ accounts' = change_latest(a, Content[h].previous, Zero, 0, 0, 0)
    BY <1>1, Zenon DEF RollbackOpen, AccountOf
  <2> QED BY <1>1, <2>1, DelIsShrunk, Zenon DEF Epoch
<1>6. Supply' /\ PendingInfoInv' /\ amount = Info(a).balance - Info(a)'.balance /\ amount \in Nat
  <2>1. pending' = pending_put(<<a, s>>, [source |-> source, amount |-> amount], 0)
    BY <1>b, Zenon DEF RollbackOpen, AccountOf
  <2>2. PendingAdded(<<a, s>>, amount, 0)
    BY <1>4, <2>1, PendingPutAdds DEF Epoch
  <2> QED BY <1>b, <1>0, <1>3, <1>4, <1>5, <2>2, ShrunkReceive, Zenon
<1>7. WeightIsDelegatedBalance'
  <2>1. OnlyAccount(a) /\ ~account_exists(a)'
    BY <1>1, <1>5, Zenon DEF Shrunk
  <2>2. representation' = representation_add(representation, h, -amount)
    BY <1>b, <1>2, Zenon DEF RollbackOpen
  <2>3. RepOf(a) = Content[h].representative
    BY <1>2, Zenon DEF RepOf
  <2>4. -amount = Info(a)'.balance - Info(a).balance
    BY <1>5, <1>6, ShrunkBalance DEF Amount
  <2> QED BY <1>0, <1>6, <2>1, <2>2, <2>3, <2>4, WeightAdded, Zenon
<1>8. DOMAIN frontiers \ {h} \subseteq DOMAIN frontiers'
  BY Zenon DEF RollbackOpen, Del
<1> QED BY <1>1, <1>5, <1>6, <1>7, <1>8, ShrunkAudit, Zenon

LEMMA RollbackChangeAudit ==
    ASSUME IInv, IInv', AuditInv, NEW h \in DOMAIN blocks, h \in Hash, h # Genesis,
           NEW a, a = blocks[h].account, Info(a).head = h,
           Content[h].type = "change", ~ReceivedByDestination(h), RollbackChange(h)
    PROVE  AuditInv'
<1> DEFINE p == Content[h].previous
           rep == RepBlock[p]
<1>0. Supply /\ WeightIsDelegatedBalance /\ InfoInv /\ ValueInv /\ PendingInfoInv
  BY Zenon DEF AuditInv
<1>1. p # Zero /\ Content[p].type \in LegacyType /\ blocks[h].balance = blocks[p].balance
  BY Zenon DEF IInv, LegacyInv
<1>2. /\ Info(a).rep_block = h /\ h # Zero /\ blocks[p].epoch = 0 /\ blocks[p].account = a
      /\ account_exists(a) /\ Info(a).balance = blocks[h].balance
  BY <1>0, <1>1, VisitedFacts, RepBlockOf
<1>3. Balance(p) = Info(a).balance
  BY <1>1, <1>2, Zenon DEF Balance
<1>4. Shrunk(h, a, rep, 0)
  <2>1. /\ blocks' = block_del(h)
        /\ accounts' = change_latest(a, p, rep, Info(a).balance, Info(a).block_count - 1, 0)
    BY <1>2, Zenon DEF RollbackChange, AccountOf
  <2> QED BY <1>3, <2>1, DelIsShrunk DEF Epoch
<1>5. Supply' /\ PendingInfoInv' /\ Info(a)'.balance = Info(a).balance
  <2>1. ~SendBlock(h) /\ Received(h) = Zero
    BY Zenon DEF SendBlock, Received, block_source
  <2>2. pending' = pending
    BY Zenon DEF RollbackChange
  <2> QED BY <1>0, <1>4, <2>1, <2>2, ShrunkNone, Zenon
<1>6. WeightIsDelegatedBalance'
  <2>1. OnlyAccount(a) /\ Info(a)'.rep_block = rep /\ account_exists(a)'
    BY <1>1, <1>4 DEF Shrunk
  <2>2. representation' = MoveWeight(h, Info(a).balance, rep, Info(a)'.balance)
    BY <1>3, <1>5, Zenon DEF RollbackChange
  <2>3. RepOf(a) = Content[h].representative /\ RepOf(a)' = Content[rep].representative
    BY <1>2, <2>1, Zenon DEF RepOf
  <2> QED BY <1>0, <1>2, <1>5, <2>1, <2>2, <2>3, WeightMoved, Zenon
<1>7. DOMAIN frontiers \ {h} \subseteq DOMAIN frontiers' /\ p \in DOMAIN frontiers'
  BY Zenon DEF RollbackChange, MoveFrontier, Put, Del
<1> QED BY <1>2, <1>4, <1>5, <1>6, <1>7, ShrunkAudit, Zenon

LEMMA RollbackStateAudit ==
    ASSUME IInv, IInv', AuditInv, NEW h \in DOMAIN blocks, h \in Hash, h # Genesis,
           NEW a, a = blocks[h].account, Info(a).head = h,
           Content[h].type = "state", ~ReceivedByDestination(h), RollbackState(h)
    PROVE  AuditInv'
<1> DEFINE p == Content[h].previous
           s == Content[h].link
           rep == RepBlock[p]
           balance == Content[h].balance
<1>b. PICK before, epoch : before = Balance(p) /\ epoch = block_version(p)
  BY Zenon
<1>0. Supply /\ WeightIsDelegatedBalance /\ InfoInv /\ ValueInv /\ PendingInfoInv
  BY Zenon DEF AuditInv
<1>1. /\ Info(a).rep_block = h /\ h # Zero /\ account_exists(a)
      /\ Info(a).balance = blocks[h].balance
      /\ p # Zero => p \in DOMAIN blocks
      /\ ValueOK(h)
  BY <1>0, VisitedFacts, RepBlockOf
<1>2. Info(a).balance = balance
  BY <1>1, Zenon DEF ValueOK
<1>3. Content[h].account = a
  BY OwnerAssumption DEF IInv, ChainInv
<1>4. epoch \in Epoch /\ (p # Zero => epoch = blocks[p].epoch)
  BY <1>b, <1>1 DEF Epoch, block_version, Exists, IInv, TypeOK, Sideband
<1>5. Shrunk(h, a, rep, epoch)
  <2>1. /\ blocks' = block_del(h)
        /\ accounts' = change_latest(a, p, rep, Balance(p), Info(a).block_count - 1, epoch)
    BY <1>b, <1>3, Zenon DEF RollbackState
  <2>2. PICK count : count = Info(a).block_count - 1
    BY Zenon
  <2>3. accounts' = change_latest(a, p, rep, before, count, epoch)
    BY <1>b, <2>1, <2>2, Zenon
  <2>4. /\ Content[h].previous # Zero => before = Balance(Content[h].previous)
        /\ Content[h].previous # Zero => count = Info(a).block_count - 1
        /\ blocks' = block_del(h)
        /\ accounts' = change_latest(a, Content[h].previous, rep, before, count, epoch)
    BY <1>b, <2>1, <2>2, <2>3, Zenon
  <2>5. /\ IInv /\ h \in DOMAIN blocks /\ h # Genesis /\ a = blocks[h].account /\ Info(a).head = h
        /\ epoch \in Epoch
    BY <1>4, Zenon
  <2> HIDE DEF rep, p
  <2> QED BY ONLY <2>4, <2>5, DelIsShrunk, Zenon
<1>6. Info(a)'.balance = before /\ before \in Amount /\ balance \in Amount
  BY <1>b, <1>2, <1>5, ShrunkBalance, Zenon
<1>7. Supply' /\ PendingInfoInv'
  <2>1. CASE is_send(h)
    <3>1. SendBlock(h) /\ pending_exists(<<s, h>>) /\ pending' = pending_del(<<s, h>>)
      BY <2>1, Zenon DEF SendBlock, ReceivedByDestination, RollbackState
    <3>2. PendingTaken(<<s, h>>)
      BY <3>1, PendingDelTakes, Zenon
    <3> QED BY <1>0, <1>5, <3>1, <3>2, ShrunkSend, Zenon
  <2>2. CASE ~is_send(h) /\ (s = Zero \/ is_epoch_link(s))
    <3>1. ~SendBlock(h) /\ Received(h) = Zero /\ pending' = pending
      BY <2>2, Zenon DEF SendBlock, Received, block_source, RollbackState
    <3> QED BY <1>0, <1>5, <3>1, ShrunkNone, Zenon
  <2>3. CASE ~is_send(h) /\ s # Zero /\ ~is_epoch_link(s)
    <3>1. ~SendBlock(h) /\ Received(h) = s
      BY <2>3, Zenon DEF SendBlock, Received, block_source
    <3>2. s \in DOMAIN blocks /\ ~pending_exists(<<a, s>>) /\ block_version(s) \in Epoch
      BY <2>3, <3>1, SourceFacts, Zenon
    <3>3. PICK source, amount, version :
             source = AccountOf(s) /\ amount = balance - before /\ version = block_version(s)
      BY Zenon
    <3>4. pending' = pending_put(<<a, s>>, [source |-> source, amount |-> amount], version)
      BY <1>b, <1>3, <2>3, <3>3, Zenon DEF RollbackState
    <3>5. PendingAdded(<<a, s>>, amount, version)
      BY <3>2, <3>3, <3>4, PendingPutAdds, Zenon
    <3>6. amount = Info(a).balance - Info(a)'.balance /\ version = blocks[s].epoch
      BY <1>2, <1>6, <3>2, <3>3, Zenon DEF block_version, Exists
    <3> QED BY <1>0, <1>5, <2>3, <3>1, <3>5, <3>6, ShrunkReceive, Zenon
  <2> QED BY <2>1, <2>2, <2>3, Zenon
<1>8. WeightIsDelegatedBalance'
  <2>1. OnlyAccount(a) /\ RepOf(a) = Content[h].representative
    BY <1>1, <1>5, Zenon DEF Shrunk, RepOf
  <2>2. CASE p = Zero
    <3>1. ~account_exists(a)' /\ before = 0
      BY <1>b, <1>5, <2>2, Zenon DEF Shrunk, Balance
    <3>2. representation' = representation_add(representation, h, -balance)
      BY <2>2, Zenon DEF RollbackState
    <3>3. -balance = Info(a)'.balance - Info(a).balance
      BY <1>2, <1>6, <3>1 DEF Amount
    <3> QED BY <1>0, <1>7, <2>1, <3>1, <3>2, <3>3, WeightAdded, Zenon
  <2>3. CASE p # Zero
    <3>1. account_exists(a)' /\ Info(a)'.rep_block = rep
      BY <1>5, <2>3 DEF Shrunk
    <3>2. RepOf(a)' = Content[rep].representative
      BY <3>1, Zenon DEF RepOf
    <3>3. representation' = MoveWeight(h, Info(a).balance, rep, Info(a)'.balance)
      BY <1>b, <1>2, <1>6, <2>3, Zenon DEF RollbackState
    <3> QED BY <1>0, <1>1, <1>7, <2>1, <3>1, <3>2, <3>3, WeightMoved, Zenon
  <2> QED BY <2>2, <2>3, Zenon
<1>9. /\ DOMAIN frontiers \ {h} \subseteq DOMAIN frontiers'
      /\ p # Zero /\ Content[p].type \in LegacyType => p \in DOMAIN frontiers'
  BY <1>1, Zenon DEF RollbackState, Put, Exists
<1> QED BY <1>4, <1>5, <1>7, <1>8, <1>9, ShrunkAudit, Zenon

LEMMA VisitAudit ==
    ASSUME IInv, IInv', AuditInv, RollbackVisit
    PROVE  AuditInv'
<1>0. PICK h : h = RollbackHead
  BY Zenon
<1>1. PICK a : a = blocks[h].account
  BY Zenon
<1>2. /\ h \in DOMAIN blocks /\ h \in Hash /\ h # Genesis
      /\ Info(a).head = h /\ ~ReceivedByDestination(h)
  BY <1>0, <1>1, RollbackHeadFacts, Zenon DEF RollbackVisit
<1>3. CASE Content[h].type = "send" /\ RollbackSend(h)
  BY <1>1, <1>2, <1>3, RollbackSendAudit, Zenon
<1>4. CASE Content[h].type = "receive" /\ RollbackReceive(h)
  BY <1>1, <1>2, <1>4, RollbackReceiveAudit, Zenon
<1>5. CASE Content[h].type = "open" /\ RollbackOpen(h)
  BY <1>1, <1>2, <1>5, RollbackOpenAudit, Zenon
<1>6. CASE Content[h].type = "change" /\ RollbackChange(h)
  BY <1>1, <1>2, <1>6, RollbackChangeAudit, Zenon
<1>7. CASE Content[h].type = "state" /\ RollbackState(h)
  BY <1>1, <1>2, <1>7, RollbackStateAudit, Zenon
<1>8. \/ Content[h].type = "send" /\ RollbackSend(h)
      \/ Content[h].type = "receive" /\ RollbackReceive(h)
      \/ Content[h].type = "open" /\ RollbackOpen(h)
      \/ Content[h].type = "change" /\ RollbackChange(h)
      \/ Content[h].type = "state" /\ RollbackState(h)
  BY <1>0, Zenon DEF RollbackVisit
<1> QED BY <1>3, <1>4, <1>5, <1>6, <1>7, <1>8, Zenon

\* A step of the call stack touches no table
LEMMA StackAudit ==
    ASSUME AuditInv, UNCHANGED tables
    PROVE  AuditInv'
<1>0. /\ blocks' = blocks /\ accounts' = accounts /\ pending' = pending
      /\ representation' = representation /\ frontiers' = frontiers
  BY Zenon DEF tables
<1>1. /\ \A x : account_exists(x)' <=> account_exists(x)
      /\ \A x : EpochOf(x)' = EpochOf(x)
      /\ \A k : pending_get(k)' = pending_get(k) /\ PendingEpoch(k)' = PendingEpoch(k)
      /\ Opened' = Opened /\ PendingKeys' = PendingKeys /\ Blocks' = Blocks
  BY <1>0, Zenon DEF account_exists, EpochOf, pending_get, PendingEpoch, Opened, PendingKeys, Blocks
<1>2. \A x : Info(x)' = Info(x)
  BY <1>0, <1>1, Zenon DEF Info
<1>3. Supply' /\ WeightIsDelegatedBalance'
  <2>1. BalanceOf' = BalanceOf /\ AmountPending' = AmountPending
    BY <1>1, <1>2, Zenon DEF BalanceOf, AmountPending
  <2>2. \A r : Delegators(r)' = Delegators(r)
    BY <1>1, <1>2, Zenon DEF Delegators
  <2> QED BY <1>0, <2>1, <2>2, Zenon DEF AuditInv, Supply, WeightIsDelegatedBalance
<1>4. LinkInv'
  <2>1. \A h \in Blocks : Info(blocks[h].account)' = Info(blocks[h].account)
    BY <1>0, Zenon DEF Info, EpochOf, account_exists
  <2> QED BY <1>0, <1>1, <1>2, <2>1, Zenon DEF AuditInv, LinkInv
<1>5. InfoInv' /\ FrontierInv'
  <2>1. \A x : Chain(x)' = Chain(x)
    BY <1>0, <1>1, Zenon DEF Chain
  <2> QED BY <1>0, <1>1, <1>2, <2>1, Zenon DEF AuditInv, InfoInv, FrontierInv
<1>6. ValueInv' /\ PendingInfoInv'
  <2>1. \A k : Balance(k)' = Balance(k)
    BY <1>0, Zenon DEF Balance
  <2>2. \A k : /\ Balance(Content[k].previous)' = Balance(Content[k].previous)
               /\ AmountOf(k)' = AmountOf(k) /\ (is_send(k)' <=> is_send(k))
    BY <2>1, Zenon DEF AmountOf, is_send
  <2>3. \A k : (SendBlock(k)' <=> SendBlock(k)) /\ Received(k)' = Received(k)
    BY <2>2, Zenon DEF SendBlock, Received, block_source
  <2>4. \A k : AmountOf(Received(k))' = AmountOf(Received(k))
    <3> TAKE k
    <3>1. PICK s : s = Received(k) /\ s = Received(k)'
      BY <2>3, Zenon
    <3> QED BY <1>0, <3>1, Zenon DEF AmountOf, Balance
  <2>5. \A k \in Blocks : ValueOK(k)'
    BY <1>0, <2>2, <2>3, <2>4, ValueParts, Zenon DEF AuditInv, ValueOK
  <2>6. PendingInfoInv'
    BY <1>0, <1>1, <2>2, Zenon DEF AuditInv, PendingInfoInv
  <2> QED BY <1>1, <2>5, <2>6, ValuePartsNext, Zenon
<1> QED BY <1>3, <1>4, <1>5, <1>6, Zenon DEF AuditInv
-----------------------------------------------------------------------------
(* The tables are those an auditor computes *)

LEMMA SumOne ==
    ASSUME NEW f, NEW x, f[x] \in Nat
    PROVE  SumFunctionOnSet(f, {x}) = f[x]
<1>1. IsFiniteSet({x}) /\ {x} \ {x} = {}
  BY FS_Singleton, Zenon
<1>2. SumFunctionOnSet(f, {x}) = f[x] + SumFunctionOnSet(f, {x} \ {x})
  BY <1>1, SumOut, Zenon
<1> QED BY <1>1, <1>2, SumEmpty

LEMMA InitAudit == Init => AuditInv
<1> SUFFICES ASSUME Init PROVE AuditInv
  BY Zenon
<1> DEFINE g == GenesisAccount
           sideband == [account |-> g, successor |-> Zero, balance |-> AmountLimit - 1,
                        height |-> 1, epoch |-> 0]
           info == [head |-> Genesis, rep_block |-> Genesis, open_block |-> Genesis,
                    balance |-> AmountLimit - 1, block_count |-> 1]
<1>1. Blocks = {Genesis} /\ blocks[Genesis] = sideband /\ g \in Account /\ AmountLimit - 1 \in Nat
  BY AmountAssumption, GenesisAssumption DEF Init, GenesisAccount, Blocks
<1>2. DOMAIN accounts[0] = {g} /\ DOMAIN accounts[1] = {} /\ accounts[0][g] = info
  BY DEF Epoch, Init
<1>3. DOMAIN pending[0] = {} /\ DOMAIN pending[1] = {} /\ DOMAIN frontiers = {Genesis}
  BY DEF Epoch, Init
<1>4. \A r \in Key : representation[r] = IF r = g THEN AmountLimit - 1 ELSE 0
  BY Zenon DEF Init
<1>5. Opened = {g} /\ Info(g) = info /\ EpochOf(g) = 0 /\ PendingKeys = {}
  BY <1>2, <1>3, Zenon DEF Opened, Info, EpochOf, account_exists, PendingKeys
<1>6. BalanceOf[g] = AmountLimit - 1 /\ DOMAIN BalanceOf = {g} /\ DOMAIN AmountPending = {}
  BY <1>5 DEF BalanceOf, AmountPending
<1>7. Supply
  <2>1. SumFunction(BalanceOf) = AmountLimit - 1
    BY <1>1, <1>6, SumOne, Zenon DEF SumFunction
  <2>2. SumFunction(AmountPending) = 0
    BY <1>6, SumEmpty, Zenon DEF SumFunction
  <2> QED BY <1>1, <2>1, <2>2 DEF Supply
<1>8. WeightIsDelegatedBalance
  <2> SUFFICES ASSUME NEW r \in Key
               PROVE  representation[r] = SumFunctionOnSet(BalanceOf, Delegators(r))
    BY Zenon DEF WeightIsDelegatedBalance
  <2>1. Content[Info(g).rep_block].representative = g
    BY <1>5, GenesisAssumption DEF GenesisAccount
  <2>2. CASE r = g
    <3>1. Delegators(r) = {g}
      BY <1>5, <2>1, <2>2, Zenon DEF Delegators
    <3> QED BY <1>1, <1>4, <1>6, <2>2, <3>1, SumOne, Zenon
  <2>3. CASE r # g
    <3>1. Delegators(r) = {}
      BY <1>5, <2>1, <2>3, Zenon DEF Delegators
    <3> QED BY <1>4, <2>3, <3>1, SumEmpty, Zenon
  <2> QED BY <2>2, <2>3, Zenon
<1>9. LinkInv /\ FrontierInv
  <2>1. blocks[Genesis].account = g /\ blocks[Genesis].successor = Zero /\ Info(g).head = Genesis
    BY <1>1, <1>5
  <2> QED BY <1>1, <1>3, <1>5, <2>1, GenesisAssumption DEF LinkInv, FrontierInv
<1>10. InfoInv
  <2>1. RepBlock[Genesis] = Genesis
    BY RepBlockOf, GenesisAssumption
  <2>2. Chain(g) = {Genesis}
    BY <1>1 DEF Chain
  <2>3. Cardinality(Chain(g)) = 1
    BY <2>2, FS_Singleton, Zenon
  <2>4. /\ Info(g).rep_block = RepBlock[Info(g).head] /\ Info(g).open_block \in Chain(g)
        /\ Content[Info(g).open_block].previous = Zero
        /\ Info(g).block_count = Cardinality(Chain(g))
        /\ EpochOf(g) = blocks[Info(g).head].epoch
    BY <1>1, <1>5, <2>1, <2>2, <2>3, GenesisAssumption
  <2> QED BY <1>5, <2>4, Zenon DEF InfoInv
<1>11. ValueInv
  <2>1. RepBlock[Genesis] = Genesis /\ Genesis # Zero /\ ~SendBlock(Genesis)
    BY RepBlockOf, NamesAssumption, GenesisAssumption DEF SendBlock
  <2>2. blocks[Genesis].epoch = 0
    BY <1>1
  <2>3. ValueOK(Genesis)
    BY <2>1, <2>2, GenesisAssumption DEF ValueOK
  <2> QED BY <1>1, <2>3, ValueParts, Zenon
<1>12. PendingInfoInv
  BY <1>5, Zenon DEF PendingInfoInv
<1> QED BY <1>7, <1>8, <1>9, <1>10, <1>11, <1>12, Zenon DEF AuditInv

LEMMA NextAudit == IInv /\ AuditInv /\ [Next]_vars => AuditInv'
<1> SUFFICES ASSUME IInv, AuditInv, [Next]_vars PROVE AuditInv'
  BY Zenon
<1>0. IInv'
  BY NextIInv, Zenon
<1>1. CASE \E h \in Hash : \E v \in Verifications(h) : Process(h, v)
  BY <1>0, <1>1, ProcessAudit, Zenon
<1>2. CASE \E h \in Hash : Rollback(h)
  BY <1>2, StackAudit, Zenon DEF Rollback
<1>3. CASE RollbackDestination
  BY <1>3, StackAudit, Zenon DEF RollbackDestination
<1>4. CASE RollbackVisit
  BY <1>0, <1>4, VisitAudit, Zenon
<1>5. CASE RollbackReturn
  BY <1>5, StackAudit, Zenon DEF RollbackReturn
<1>6. CASE UNCHANGED vars
  BY <1>6, StackAudit, Zenon DEF vars, tables
<1> QED BY <1>1, <1>2, <1>3, <1>4, <1>5, <1>6, Zenon DEF Next, RollbackStep

\* The accounts table, from the inductive form
LEMMA AccountInfoFollows == IInv /\ AuditInv => AccountInfoMatchesChain
<1> SUFFICES ASSUME IInv, AuditInv PROVE AccountInfoMatchesChain
  BY Zenon
<1>0. HeadInv /\ ChainInv /\ LinkInv /\ InfoInv
  BY Zenon DEF IInv, AuditInv
<1>1. Opened \subseteq Account /\ \A x : x \in Opened <=> account_exists(x)
  BY TablesFinite, Zenon DEF FiniteTables, Opened, account_exists
<1>2. {blocks[h].account : h \in Blocks} = Opened
  <2>1. \A h \in Blocks : blocks[h].account \in Opened
    BY <1>0, <1>1, Zenon DEF HeadInv, Blocks
  <2>2. \A a \in Opened : \E h \in Blocks : blocks[h].account = a
    BY <1>0, <1>1, Zenon DEF HeadInv, Blocks
  <2> QED BY <2>1, <2>2, Zenon
<1>3. ASSUME NEW a \in Opened
      PROVE  /\ {Info(a).head} = {h \in Chain(a) : blocks[h].successor = Zero}
             /\ {Info(a).open_block} = {h \in Chain(a) : Content[h].previous = Zero}
             /\ Info(a).rep_block = RepBlock[Info(a).head]
             /\ Info(a).balance = blocks[Info(a).head].balance
             /\ Info(a).block_count = Cardinality(Chain(a))
             /\ EpochOf(a) = blocks[Info(a).head].epoch
  <2>1. /\ Info(a).head \in Chain(a) /\ blocks[Info(a).head].balance = Info(a).balance
        /\ blocks[Info(a).head].successor = Zero
    BY <1>0, <1>1, Zenon DEF HeadInv, Chain, Blocks, LinkInv
  <2>2. \A h \in Chain(a) : blocks[h].successor = Zero => h = Info(a).head
    BY <1>0, Zenon DEF LinkInv, Chain
  <2>3. \A g, h \in Chain(a) : Content[g].previous = Zero /\ Content[h].previous = Zero => g = h
    <3> TAKE g, h \in Chain(a)
    <3>1. /\ g \in DOMAIN blocks /\ h \in DOMAIN blocks
          /\ blocks[g].account = a /\ blocks[h].account = a
      BY Zenon DEF Chain, Blocks
    <3> QED BY <1>0, <3>1 DEF ChainInv
  <2>4. /\ Info(a).open_block \in Chain(a) /\ Content[Info(a).open_block].previous = Zero
        /\ Info(a).rep_block = RepBlock[Info(a).head]
        /\ Info(a).block_count = Cardinality(Chain(a))
        /\ EpochOf(a) = blocks[Info(a).head].epoch
    BY <1>0, Zenon DEF InfoInv
  <2>5. {Info(a).head} = {h \in Chain(a) : blocks[h].successor = Zero}
    BY <2>1, <2>2, Zenon
  <2>6. {Info(a).open_block} = {h \in Chain(a) : Content[h].previous = Zero}
    BY <2>3, <2>4, Zenon
  <2> QED BY <2>1, <2>4, <2>5, <2>6, Zenon
<1> QED BY <1>2, <1>3, Zenon DEF AccountInfoMatchesChain

LEMMA SidebandFollows == IInv /\ AuditInv => SidebandMatchesChain /\ LegacyReceivesEpoch0
BY Zenon DEF IInv, AuditInv, ChainInv, LinkInv, ValueInv, SidebandMatchesChain, LegacyReceivesEpoch0, Blocks

LEMMA FrontiersFollow == IInv /\ AuditInv => FrontiersAreLegacyHeads
<1> SUFFICES ASSUME IInv, AuditInv PROVE FrontiersAreLegacyHeads
  BY Zenon
<1>1. ASSUME NEW h \in DOMAIN frontiers
      PROVE  h \in Heads /\ Content[h].type \in LegacyType /\ frontiers[h] = blocks[h].account
  <2>1. /\ h \in DOMAIN blocks /\ Content[h].type \in LegacyType
        /\ frontiers[h] = blocks[h].account /\ Info(blocks[h].account).head = h
    BY Zenon DEF IInv, LegacyInv
  <2>2. blocks[h].account \in Opened
    BY <2>1, Zenon DEF IInv, HeadInv, Opened, account_exists
  <2> QED BY <2>1, <2>2, Zenon DEF Heads
<1>2. ASSUME NEW h \in Heads, Content[h].type \in LegacyType PROVE h \in DOMAIN frontiers
  BY <1>2, Zenon DEF AuditInv, FrontierInv, Heads
<1> QED BY <1>1, <1>2, Zenon DEF FrontiersAreLegacyHeads

LEMMA PendingFollows == IInv /\ AuditInv => PendingIsUnreceivedSends /\ NoDuplicateEntries
<1> SUFFICES ASSUME IInv, AuditInv PROVE PendingIsUnreceivedSends /\ NoDuplicateEntries
  BY Zenon
<1>0. PendingInv /\ HeadInv /\ PendingOK /\ PendingInfoInv
  BY TypeParts, Zenon DEF IInv, AuditInv
<1>1. NoDuplicateEntries
  BY <1>0, Zenon DEF PendingInv, HeadInv, NoDuplicateEntries
<1> DEFINE U == {s \in Sends : \A r \in Blocks : Received(r) # s}
<1>2. ASSUME NEW k \in PendingKeys PROVE k[2] \in U /\ k = <<Content[k[2]].link, k[2]>>
  <2>1. k[2] \in Blocks /\ \A r \in Blocks : Received(r) # k[2]
    BY <1>0 DEF Epoch, PendingInv, PendingKeys, Blocks
  <2>2. SendBlock(k[2]) /\ k = <<Content[k[2]].link, k[2]>>
    BY PendingOfBlock, Zenon
  <2> QED BY <2>1, <2>2, Zenon DEF Sends, SendBlock
<1>3. ASSUME NEW s \in U PROVE <<Content[s].link, s>> \in PendingKeys
  <2>1. s \in Blocks /\ SendBlock(s) /\ \A r \in Blocks : Received(r) # s
    BY Zenon DEF Sends, SendBlock
  <2> QED BY <1>0, <2>1, Zenon DEF PendingInv, Blocks, PendingKeys, pending_exists
<1>4. PendingKeys = {<<Content[s].link, s>> : s \in U}
  BY <1>2, <1>3, Zenon
<1>5. ASSUME NEW k \in PendingKeys
      PROVE  /\ pending_get(k) = [source |-> blocks[k[2]].account, amount |-> AmountOf(k[2])]
             /\ PendingEpoch(k) = blocks[k[2]].epoch
  <2>1. pending_get(k) \in PendingInfo /\ pending_get(k).source = blocks[k[2]].account
    BY <1>0 DEF Epoch, PendingOK, PendingInv, PendingKeys, pending_get, PendingEpoch
  <2>2. pending_get(k).amount = AmountOf(k[2]) /\ PendingEpoch(k) = blocks[k[2]].epoch
    BY <1>0, Zenon DEF PendingInfoInv
  <2> QED BY <2>1, <2>2, Zenon DEF PendingInfo
<1> QED BY <1>1, <1>4, <1>5, Zenon DEF PendingIsUnreceivedSends

LEMMA AssertionsFollow == IInv /\ AuditInv => RollbackAssertions
<1> SUFFICES ASSUME IInv, AuditInv, rolling # <<>>, Exists(Head(rolling))
             PROVE  LET h == RollbackHead
                    IN /\ account_exists(AccountOf(Head(rolling)))
                       /\ Exists(h)
                       /\ ReceivedByDestination(h) => account_exists(Content[h].link)
                       /\ Content[h].type \in LegacyType => h \in DOMAIN frontiers
  BY Zenon DEF RollbackAssertions
<1>0. PICK h, a : h = RollbackHead /\ a = blocks[h].account
  BY Zenon
<1>1. h \in DOMAIN blocks /\ h \in Hash /\ a \in Account /\ Info(a).head = h
  BY <1>0, RollbackHeadFacts, Zenon
<1>2. account_exists(AccountOf(Head(rolling))) /\ account_exists(a)
  BY <1>0, <1>1, Zenon DEF IInv, HeadInv, AccountOf, Exists
<1>3. ReceivedByDestination(h) => account_exists(Content[h].link)
  <2> SUFFICES ASSUME ReceivedByDestination(h) PROVE account_exists(Content[h].link)
    BY Zenon
  <2>1. SendBlock(h) /\ ~pending_exists(<<Content[h].link, h>>) /\ h # Zero
    BY <1>1, NamesAssumption DEF ReceivedByDestination, SendBlock
  <2>2. PICK r \in DOMAIN blocks : Received(r) = h
    BY <1>1, <2>1, Zenon DEF IInv, PendingInv
  <2>3. Content[h].link = blocks[r].account
    BY <2>1, <2>2, Zenon DEF IInv, PendingInv
  <2> QED BY <2>2, <2>3, Zenon DEF IInv, HeadInv
<1>4. Content[h].type \in LegacyType => h \in DOMAIN frontiers
  BY <1>1, <1>2, Zenon DEF AuditInv, FrontierInv, Opened, account_exists
<1> QED BY <1>0, <1>1, <1>2, <1>3, <1>4, Zenon DEF Exists

\* The audited facts hold after every step of process and of rollback.
THEOREM AuditInvariant == Spec => []AuditInv
<1>1. Spec => []IInv
  BY InductiveInvariant, Zenon
<1> QED BY <1>1, InitAudit, NextAudit, PTL DEF Spec

\* For every set of blocks, however they arrive and whatever is rolled back, ledger_processor and
\* rollback_visitor keep each table equal to what the blocks of the ledger determine: no amount is
\* made or lost, the weight of each representative is the sum of the balances delegated to it, and
\* accounts, sideband, frontiers and pending entries are those of the chains.
THEOREM TablesMatchBlocksTheorem == Spec => []TablesMatchBlocks
<1>1. IInv /\ AuditInv => TablesMatchBlocks
  BY AccountInfoFollows, SidebandFollows, FrontiersFollow, PendingFollows, Zenon DEF AuditInv, TablesMatchBlocks
<1> QED BY <1>1, InductiveInvariant, AuditInvariant, PTL

\* The assertions on the path of ledger::rollback hold: the head of the account and the head of the
\* destination of a received send are there, and a legacy head has its frontier entry.
THEOREM RollbackAssertionsTheorem == Spec => []RollbackAssertions
BY AssertionsFollow, InductiveInvariant, AuditInvariant, PTL
=============================================================================
