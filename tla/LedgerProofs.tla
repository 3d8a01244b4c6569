---------------------------- MODULE LedgerProofs ----------------------------
(***************************************************************************)
(* IInv holds in the initial state, and every call of ledger::process and  *)
(* every step of ledger::rollback preserves it, so it is inductive;        *)
(* TypeOK, NoFork and NoDoubleReceive follow, for every set of hashes,     *)
(* accounts and block contents.                                            *)
(*                                                                         *)
(* The six ways to insert a block all append it to one chain, the five     *)
(* ways to undo one all remove the head of a chain.  Appended and Removed  *)
(* say what they have in common; PendingPlus and PendingMinus what happens *)
(* to the pending tables.                                                  *)
(***************************************************************************)
EXTENDS LedgerInvariant, SumProofs

USE AmountAssumption, NamesAssumption, ContentAssumption, GenesisAssumption, PreviousAssumption
    DEF Epoch
-----------------------------------------------------------------------------
(* Table updates; what appending a block preserves                         *)

\* The blocks table after h was added, and after it was removed
BlockAdded(h, a, balance, height) ==
    /\ DOMAIN blocks' = DOMAIN blocks \cup {h}
    /\ blocks'[h].account = a
    /\ blocks'[h].height = height
    /\ blocks'[h].balance = balance
    /\ \A k \in DOMAIN blocks : /\ blocks'[k].account = blocks[k].account
                                /\ blocks'[k].height = blocks[k].height
                                /\ blocks'[k].balance = blocks[k].balance

BlockRemoved(h) ==
    /\ DOMAIN blocks' = DOMAIN blocks \ {h}
    /\ \A k \in DOMAIN blocks' : /\ blocks'[k].account = blocks[k].account
                                 /\ blocks'[k].height = blocks[k].height
                                 /\ blocks'[k].balance = blocks[k].balance

\* The tables after h, a block of account a, became the head of a
Appended(h, a, balance) ==
    /\ h \in Hash \ DOMAIN blocks
    /\ a \in Account /\ Owner[h] = a
    /\ Content[h].previous = Info(a).head
    /\ BlockAdded(h, a, balance, Info(a).block_count + 1)
    /\ DOMAIN accounts'[0] \cap DOMAIN accounts'[1] = {}
    /\ account_exists(a)'
    /\ Info(a)'.head = h
    /\ Info(a)'.block_count = Info(a).block_count + 1
    /\ Info(a)'.balance = balance
    /\ \A x \in Account \ {a} : /\ account_exists(x)' <=> account_exists(x)
                                /\ Info(x)' = Info(x)

\* The types of the tables that block_put, block_del and change_latest write
BlocksOK ==
    /\ DOMAIN blocks \subseteq Hash
    /\ \A h \in DOMAIN blocks : blocks[h] \in Sideband
AccountsOK ==
    /\ DOMAIN accounts = Epoch
    /\ \A e \in Epoch : /\ DOMAIN accounts[e] \subseteq Account
                        /\ \A a \in DOMAIN accounts[e] : accounts[e][a] \in AccountInfo
PendingOK ==
    /\ DOMAIN pending = Epoch
    /\ \A e \in Epoch : /\ DOMAIN pending[e] \subseteq Link \X Hash
                        /\ \A k \in DOMAIN pending[e] : pending[e][k] \in PendingInfo
FrontiersOK ==
    /\ DOMAIN frontiers \subseteq Hash
    /\ \A h \in DOMAIN frontiers : frontiers[h] \in Account

LEMMA TypeParts ==
    TypeOK <=> BlocksOK /\ AccountsOK /\ PendingOK /\ FrontiersOK
               /\ representation \in [Key -> Amount] /\ rolling \in Seq(Hash)
BY Zenon DEF TypeOK, BlocksOK, AccountsOK, PendingOK, FrontiersOK

LEMMA InfoType ==
    ASSUME AccountsOK, NEW a \in Account
    PROVE  /\ Info(a) \in AccountInfo
           /\ EpochOf(a) \in Epoch
<1>1. CASE account_exists(a)
  BY <1>1, Zenon DEF AccountsOK, Info, EpochOf, account_exists
<1>2. CASE ~account_exists(a)
  BY <1>2 DEF Info, EpochOf, AccountInfo, HashOrZero, Amount
<1> QED BY <1>1, <1>2, Zenon

\* change_latest with a block: one entry for the account, the others as before
LEMMA ChangeLatestPut ==
    ASSUME AccountsOK, DOMAIN accounts[0] \cap DOMAIN accounts[1] = {},
           NEW a \in Account, NEW hash \in Hash, NEW rep_block \in HashOrZero,
           NEW balance \in Amount, NEW count \in Int, NEW epoch \in Epoch,
           accounts' = change_latest(a, hash, rep_block, balance, count, epoch)
    PROVE  /\ AccountsOK'
           /\ DOMAIN accounts'[0] \cap DOMAIN accounts'[1] = {}
           /\ account_exists(a)'
           /\ Info(a)'.head = hash
           /\ Info(a)'.block_count = count
           /\ Info(a)'.balance = balance
           /\ \A x \in Account \ {a} : /\ account_exists(x)' <=> account_exists(x)
                                       /\ Info(x)' = Info(x)
<1> DEFINE entry == [head |-> hash, rep_block |-> rep_block,
                     open_block |-> IF account_exists(a) THEN Info(a).open_block ELSE hash,
                     balance |-> balance, block_count |-> count]
<1>0. hash # Zero
  BY Zenon
<1>1. entry \in AccountInfo
  BY InfoType, Zenon DEF AccountInfo, HashOrZero
<1>2. /\ DOMAIN accounts' = Epoch
      /\ DOMAIN accounts'[epoch] = DOMAIN accounts[epoch] \cup {a}
      /\ DOMAIN accounts'[1 - epoch] = DOMAIN accounts[1 - epoch] \ {a}
      /\ accounts'[epoch][a] = entry
      /\ \A x \in DOMAIN accounts[epoch] \ {a} : accounts'[epoch][x] = accounts[epoch][x]
      /\ \A x \in DOMAIN accounts[1 - epoch] \ {a} : accounts'[1 - epoch][x] = accounts[1 - epoch][x]
  <2>1. CASE account_exists(a) /\ EpochOf(a) # epoch
    BY <1>0, <2>1, SMTT(20) DEF AccountsOK, change_latest, account_del, Put, Del, EpochOf, account_exists
  <2>2. CASE ~(account_exists(a) /\ EpochOf(a) # epoch)
    BY <1>0, <2>2 DEF AccountsOK, change_latest, Put, EpochOf, account_exists
  <2> QED BY <2>1, <2>2, Zenon
<1>3. AccountsOK'
  BY <1>1, <1>2 DEF AccountsOK
<1>4. DOMAIN accounts'[0] \cap DOMAIN accounts'[1] = {}
  BY <1>2
<1>5. account_exists(a)' /\ Info(a)' = entry
  BY <1>2, <1>4, Zenon DEF account_exists, Info, EpochOf
<1>6. ASSUME NEW x \in Account \ {a}
      PROVE  (account_exists(x)' <=> account_exists(x)) /\ Info(x)' = Info(x)
  BY <1>2 DEF account_exists, Info, EpochOf
<1> QED BY <1>3, <1>4, <1>5, <1>6

\* change_latest with the zero hash: no entry for the account
LEMMA ChangeLatestZero ==
    ASSUME AccountsOK, DOMAIN accounts[0] \cap DOMAIN accounts[1] = {},
           NEW a \in Account, NEW rep_block, NEW balance, NEW count, NEW epoch,
           accounts' = change_latest(a, Zero, rep_block, balance, count, epoch)
    PROVE  /\ AccountsOK'
           /\ DOMAIN accounts'[0] \cap DOMAIN accounts'[1] = {}
           /\ ~account_exists(a)'
           /\ \A x \in Account \ {a} : /\ account_exists(x)' <=> account_exists(x)
                                       /\ Info(x)' = Info(x)
<1>1. /\ DOMAIN accounts' = Epoch
      /\ \A e \in Epoch : /\ DOMAIN accounts'[e] = DOMAIN accounts[e] \ {a}
                          /\ \A x \in DOMAIN accounts'[e] : accounts'[e][x] = accounts[e][x]
  BY DEF AccountsOK, change_latest, account_del, Del
<1>2. AccountsOK'
  BY <1>1 DEF AccountsOK
<1> QED BY <1>1, <1>2 DEF account_exists, Info, EpochOf

\* block_put adds one entry; of the others it touches at most the successor
LEMMA BlockPut ==
    ASSUME BlocksOK, NEW h \in Hash, h \notin DOMAIN blocks, NEW a \in Account,
           NEW balance \in Amount, NEW height \in Int, NEW epoch \in Epoch,
           blocks' = block_put(h, a, balance, height, epoch)
    PROVE  BlocksOK' /\ BlockAdded(h, a, balance, height)
<1>1. /\ DOMAIN blocks' = DOMAIN blocks \cup {h}
      /\ blocks'[h] = [account |-> a, successor |-> Zero, balance |-> balance,
                       height |-> height, epoch |-> epoch]
      /\ \A k \in DOMAIN blocks : \/ blocks'[k] = blocks[k]
                                  \/ blocks'[k] = [blocks[k] EXCEPT !.successor = h]
  BY Zenon DEF block_put
<1>2. ASSUME NEW k \in DOMAIN blocks
      PROVE  /\ blocks'[k] \in Sideband
             /\ blocks'[k].account = blocks[k].account
             /\ blocks'[k].height = blocks[k].height
             /\ blocks'[k].balance = blocks[k].balance
  BY <1>1 DEF BlocksOK, Sideband, HashOrZero
<1>3. blocks'[h] \in Sideband
  BY <1>1 DEF Sideband, HashOrZero
<1> QED BY <1>1, <1>2, <1>3 DEF BlocksOK, BlockAdded

\* block_del removes one entry; of the others it touches at most the successor
LEMMA BlockDel ==
    ASSUME BlocksOK, NEW h, blocks' = block_del(h)
    PROVE  BlocksOK' /\ BlockRemoved(h)
<1>1. /\ DOMAIN blocks' = DOMAIN blocks \ {h}
      /\ \A k \in DOMAIN blocks' : \/ blocks'[k] = blocks[k]
                                   \/ blocks'[k] = [blocks[k] EXCEPT !.successor = Zero]
  BY Zenon DEF block_del
<1> QED BY <1>1 DEF BlocksOK, BlockRemoved, Sideband, HashOrZero

\* The pending tables after a send or after the undoing of a receive
PendingPlus(key, source) ==
    /\ DOMAIN pending'[0] \cap DOMAIN pending'[1] = {}
    /\ \A k : pending_exists(k)' <=> pending_exists(k) \/ k = key
    /\ \A e \in Epoch : \A k \in DOMAIN pending'[e] :
         \/ k = key /\ pending'[e][k].source = source
         \/ k \in DOMAIN pending[e] /\ pending'[e][k] = pending[e][k]

\* The pending tables after a receive or after the undoing of a send
PendingMinus(key) ==
    /\ DOMAIN pending'[0] \cap DOMAIN pending'[1] = {}
    /\ \A k : pending_exists(k)' <=> pending_exists(k) /\ k # key
    /\ \A e \in Epoch : \A k \in DOMAIN pending'[e] :
         k # key /\ k \in DOMAIN pending[e] /\ pending'[e][k] = pending[e][k]

LEMMA PendingPut ==
    ASSUME PendingOK, DOMAIN pending[0] \cap DOMAIN pending[1] = {},
           NEW key \in Link \X Hash, ~pending_exists(key),
           NEW source \in Account, NEW amount \in Amount, NEW epoch \in Epoch,
           pending' = pending_put(key, [source |-> source, amount |-> amount], epoch)
    PROVE  PendingOK' /\ PendingPlus(key, source)
<1> DEFINE entry == [source |-> source, amount |-> amount]
<1>1. entry \in PendingInfo /\ entry.source = source
  BY Zenon DEF PendingInfo
<1>2. /\ DOMAIN pending' = Epoch
      /\ DOMAIN pending'[epoch] = DOMAIN pending[epoch] \cup {key}
      /\ DOMAIN pending'[1 - epoch] = DOMAIN pending[1 - epoch]
      /\ pending'[epoch][key] = entry
      /\ \A k \in DOMAIN pending[epoch] \ {key} : pending'[epoch][k] = pending[epoch][k]
      /\ \A k \in DOMAIN pending[1 - epoch] : pending'[1 - epoch][k] = pending[1 - epoch][k]
  BY DEF PendingOK, pending_put, Put
<1> HIDE DEF entry
<1>3. PendingOK'
  BY <1>1, <1>2 DEF PendingOK
<1>4. PendingPlus(key, source)
  BY <1>1, <1>2 DEF PendingPlus, pending_exists
<1> QED BY <1>3, <1>4, Zenon

LEMMA PendingDel ==
    ASSUME PendingOK, DOMAIN pending[0] \cap DOMAIN pending[1] = {},
           NEW key, pending' = pending_del(key)
    PROVE  PendingOK' /\ PendingMinus(key)
<1>1. /\ DOMAIN pending' = Epoch
      /\ \A e \in Epoch : /\ DOMAIN pending'[e] = DOMAIN pending[e] \ {key}
                          /\ \A k \in DOMAIN pending'[e] : pending'[e][k] = pending[e][k]
  BY DEF PendingOK, pending_del, Del
<1>2. PendingOK'
  BY <1>1 DEF PendingOK
<1>3. PendingMinus(key)
  BY <1>1 DEF PendingMinus, pending_exists
<1> QED BY <1>2, <1>3, Zenon

LEMMA PendingGet ==
    ASSUME PendingOK, NEW key, pending_exists(key)
    PROVE  /\ pending_get(key) \in PendingInfo
           /\ PendingEpoch(key) \in Epoch
           /\ key \in DOMAIN pending[PendingEpoch(key)]
           /\ pending_get(key) = pending[PendingEpoch(key)][key]
           /\ key \in Link \X Hash
BY Zenon DEF PendingOK, pending_exists, pending_get, PendingEpoch

LEMMA PendingKeyIsPair ==
    ASSUME PendingOK, NEW e \in Epoch, NEW k \in DOMAIN pending[e]
    PROVE  k = <<k[1], k[2]>>
BY DEF PendingOK

\* Weights stay unsigned whatever is added to or taken from them
LEMMA WeightType ==
    ASSUME NEW table \in [Key -> Amount], NEW h, NEW amount \in Int
    PROVE  representation_add(table, h, amount) \in [Key -> Amount]
<1>1. \A x \in Amount : (x + amount) % AmountLimit \in Amount
  BY DEF Amount
<1> QED BY <1>1, Zenon DEF representation_add

LEMMA MoveWeightType ==
    ASSUME representation \in [Key -> Amount], NEW from, NEW to,
           NEW taken \in Int, NEW given \in Int
    PROVE  MoveWeight(from, taken, to, given) \in [Key -> Amount]
<1>1. -taken \in Int
  OBVIOUS
<1> QED BY <1>1, WeightType, Zenon DEF MoveWeight

LEMMA BalanceType ==
    ASSUME BlocksOK, NEW h \in DOMAIN blocks \cup {Zero}
    PROVE  Balance(h) \in Amount
BY DEF BlocksOK, Balance, Sideband, Amount
-----------------------------------------------------------------------------
\* Heights leave no room for a branch
LEMMA ChainsDoNotFork == ChainInv => NoFork
<1> SUFFICES ASSUME ChainInv, NEW g \in DOMAIN blocks, NEW h \in DOMAIN blocks,
                    Content[g].previous = Content[h].previous,
                    blocks[g].account = blocks[h].account
             PROVE  g = h
  BY Zenon DEF NoFork
<1>1. \A k \in DOMAIN blocks :
          /\ Content[k].previous = Zero => blocks[k].height = 1
          /\ Content[k].previous # Zero => blocks[k].height = blocks[Content[k].previous].height + 1
  BY Zenon DEF ChainInv
<1>2. blocks[g].height = blocks[h].height
  BY <1>1
<1> QED BY <1>2, Zenon DEF ChainInv

(* Appending a block to a chain *)

LEMMA AppendChain ==
    ASSUME BlocksOK, AccountsOK, ChainInv, HeadInv,
           NEW h, NEW a, NEW balance, Appended(h, a, balance)
    PROVE  ChainInv' /\ HeadInv'
<1> USE DEF Appended, BlockAdded
<1>1. /\ Info(a).block_count \in Int
      /\ \A k \in DOMAIN blocks : blocks[k].height \in Int
  BY InfoType, Zenon DEF BlocksOK, Sideband, AccountInfo
<1>2. ~account_exists(a) => Info(a).head = Zero /\ Info(a).block_count = 0
  BY Zenon DEF Info
<1>3. account_exists(a) => /\ Info(a).head \in DOMAIN blocks
                           /\ blocks[Info(a).head].account = a
                           /\ blocks[Info(a).head].height = Info(a).block_count
                           /\ Info(a).head # Zero
  BY DEF HeadInv, BlocksOK
<1>4. \A k \in DOMAIN blocks : blocks[k].account = a =>
          account_exists(a) /\ blocks[k].height <= Info(a).block_count
  BY DEF HeadInv
<1>5. ASSUME NEW k \in DOMAIN blocks'
      PROVE  LET p == Content[k].previous
             IN /\ blocks'[k].account = Owner[k]
                /\ blocks'[k].height >= 1
                /\ p = Zero => blocks'[k].height = 1
                /\ p # Zero => /\ p \in DOMAIN blocks'
                               /\ blocks'[p].account = blocks'[k].account
                               /\ blocks'[k].height = blocks'[p].height + 1
  <2>1. CASE k = h
    <3>1. CASE account_exists(a)
      BY <1>1, <1>3, <2>1, <3>1 DEF ChainInv
    <3>2. CASE ~account_exists(a)
      BY <1>1, <1>2, <2>1, <3>2
    <3> QED BY <3>1, <3>2, Zenon
  <2>2. CASE k \in DOMAIN blocks
    BY <2>2 DEF ChainInv
  <2> QED BY <2>1, <2>2, Zenon
<1>6. ASSUME NEW g \in DOMAIN blocks', NEW k \in DOMAIN blocks',
             blocks'[g].account = blocks'[k].account,
             blocks'[g].height = blocks'[k].height
      PROVE  g = k
  <2>1. CASE g \in DOMAIN blocks /\ k \in DOMAIN blocks
    BY <1>6, <2>1 DEF ChainInv
  <2>2. CASE g = h /\ k \in DOMAIN blocks
    BY <1>1, <1>4, <1>6, <2>2
  <2>3. CASE k = h /\ g \in DOMAIN blocks
    BY <1>1, <1>4, <1>6, <2>3
  <2> QED BY <2>1, <2>2, <2>3
<1>7. ChainInv'
  BY <1>5, <1>6, Zenon DEF ChainInv
<1>8. ASSUME NEW k \in DOMAIN blocks'
      PROVE  /\ account_exists(blocks[k].account)'
             /\ blocks'[k].height <= Info(blocks[k].account)'.block_count
  <2>1. CASE k = h
    BY <1>1, <2>1
  <2>2. CASE k \in DOMAIN blocks /\ blocks[k].account = a
    BY <1>1, <1>4, <2>2
  <2>3. CASE k \in DOMAIN blocks /\ blocks[k].account # a
    <3>1. blocks[k].account \in Account \ {a}
      BY <2>3, Zenon DEF BlocksOK, Sideband
    <3> QED BY <2>3, <3>1 DEF HeadInv
  <2> QED BY <2>1, <2>2, <2>3
<1>9. ASSUME NEW x \in Account, account_exists(x)'
      PROVE  /\ Info(x)'.head \in DOMAIN blocks'
             /\ blocks'[Info(x)'.head].account = x
             /\ blocks'[Info(x)'.head].height = Info(x)'.block_count
             /\ blocks'[Info(x)'.head].balance = Info(x)'.balance
  BY <1>9 DEF HeadInv
<1>10. HeadInv'
  BY <1>8, <1>9, Zenon DEF HeadInv
<1> QED BY <1>7, <1>10, Zenon

\* What the other blocks are does not change
LEMMA AppendStable ==
    ASSUME BlocksOK, ChainInv, NEW h, NEW a, NEW balance, Appended(h, a, balance),
           NEW k \in DOMAIN blocks
    PROVE  /\ SendBlock(k)' <=> SendBlock(k)
           /\ Received(k)' = Received(k)
<1>1. Content[k].previous = Zero \/ Content[k].previous \in DOMAIN blocks
  BY Zenon DEF ChainInv
<1>2. Balance(Content[k].previous)' = Balance(Content[k].previous)
  BY <1>1, Zenon DEF Balance, Appended, BlockAdded
<1>3. is_send(k)' <=> is_send(k)
  BY <1>2, Zenon DEF is_send
<1> QED BY <1>3, Zenon DEF SendBlock, Received, block_source, is_epoch_link

\* A new send is pending
LEMMA AppendSend ==
    ASSUME BlocksOK, ChainInv, PendingInv, NoDoubleReceive,
           NEW h, NEW a, NEW balance, Appended(h, a, balance),
           SendBlock(h)', Received(h)' = Zero, PendingPlus(<<Content[h].link, h>>, a)
    PROVE  PendingInv' /\ NoDoubleReceive'
<1> DEFINE key == <<Content[h].link, h>>
<1>0. /\ DOMAIN blocks' = DOMAIN blocks \cup {h} /\ h \notin DOMAIN blocks
      /\ blocks'[h].account = a /\ h # Zero
      /\ \A k \in DOMAIN blocks : blocks'[k].account = blocks[k].account
      /\ Zero \notin DOMAIN blocks
  BY Zenon DEF Appended, BlockAdded, BlocksOK
<1>1. \A k \in DOMAIN blocks : (SendBlock(k)' <=> SendBlock(k)) /\ Received(k)' = Received(k)
  BY AppendStable, Zenon
<1>2. \A r \in DOMAIN blocks : Received(r) # h
  BY <1>0 DEF PendingInv
<1>3. ASSUME NEW e \in Epoch, NEW k \in DOMAIN pending'[e]
      PROVE  /\ k[2] \in DOMAIN blocks'
             /\ SendBlock(k[2])'
             /\ k[1] = Content[k[2]].link
             /\ pending'[e][k].source = blocks'[k[2]].account
             /\ \A r \in DOMAIN blocks' : Received(r)' # k[2]
  <2>1. CASE k = key /\ pending'[e][k].source = a
    BY <1>0, <1>1, <1>2, <2>1
  <2>2. CASE k \in DOMAIN pending[e] /\ pending'[e][k] = pending[e][k]
    BY <1>0, <1>1, <2>2 DEF PendingInv
  <2> QED BY <2>1, <2>2, Zenon DEF PendingPlus
<1>4. ASSUME NEW s \in DOMAIN blocks', SendBlock(s)'
      PROVE  pending_exists(<<Content[s].link, s>>)' \/ \E r \in DOMAIN blocks' : Received(r)' = s
  <2>1. CASE s = h
    BY <2>1, Zenon DEF PendingPlus
  <2>2. CASE s \in DOMAIN blocks
    BY <1>0, <1>1, <1>4, <2>2 DEF PendingInv, PendingPlus
  <2> QED BY <1>0, <2>1, <2>2, Zenon
<1>5. ASSUME NEW r \in DOMAIN blocks', Received(r)' # Zero
      PROVE  /\ Received(r)' \in DOMAIN blocks'
             /\ SendBlock(Received(r))'
             /\ Content[Received(r)'].link = blocks'[r].account
  <2>1. r \in DOMAIN blocks
    BY <1>0, <1>5, Zenon
  <2>2. /\ Received(r) \in DOMAIN blocks
        /\ SendBlock(Received(r))
        /\ Content[Received(r)].link = blocks[r].account
    BY <1>1, <1>5, <2>1 DEF PendingInv
  <2>3. SendBlock(Received(r))'
    BY <1>1, <2>1, <2>2, Zenon DEF SendBlock, is_send
  <2> QED BY <1>0, <1>1, <2>1, <2>2, <2>3, Zenon
<1>6. PendingInv'
  BY <1>3, <1>4, <1>5, Zenon DEF PendingInv, PendingPlus
<1>7. NoDoubleReceive'
  BY <1>0, <1>1 DEF NoDoubleReceive
<1> QED BY <1>6, <1>7, Zenon
-----------------------------------------------------------------------------
(* Receives and blocks that move nothing; legacy changes and sends         *)

\* A new receive takes the send it names out of the pending tables
LEMMA AppendReceive ==
    ASSUME BlocksOK, PendingOK, ChainInv, PendingInv, NoDoubleReceive,
           NEW h, NEW a, NEW balance, Appended(h, a, balance),
           NEW s, ~SendBlock(h)', Received(h)' = s, pending_exists(<<a, s>>),
           PendingMinus(<<a, s>>)
    PROVE  PendingInv' /\ NoDoubleReceive'
<1>0. /\ DOMAIN blocks' = DOMAIN blocks \cup {h} /\ h \notin DOMAIN blocks
      /\ blocks'[h].account = a /\ h # Zero
      /\ \A k \in DOMAIN blocks : blocks'[k].account = blocks[k].account
      /\ Zero \notin DOMAIN blocks
  BY Zenon DEF Appended, BlockAdded, BlocksOK
<1>1. \A k \in DOMAIN blocks : (SendBlock(k)' <=> SendBlock(k)) /\ Received(k)' = Received(k)
  BY AppendStable, Zenon
<1>2. /\ s \in DOMAIN blocks
      /\ SendBlock(s)
      /\ a = Content[s].link
      /\ \A r \in DOMAIN blocks : Received(r) # s
  BY DEF PendingInv, pending_exists
<1>3. ASSUME NEW e \in Epoch, NEW k \in DOMAIN pending'[e]
      PROVE  /\ k[2] \in DOMAIN blocks'
             /\ SendBlock(k[2])'
             /\ k[1] = Content[k[2]].link
             /\ pending'[e][k].source = blocks'[k[2]].account
             /\ \A r \in DOMAIN blocks' : Received(r)' # k[2]
  <2>1. k \in DOMAIN pending[e] /\ k # <<a, s>> /\ pending'[e][k] = pending[e][k]
    BY Zenon DEF PendingMinus
  <2>2. /\ k[2] \in DOMAIN blocks
        /\ SendBlock(k[2])
        /\ k[1] = Content[k[2]].link
        /\ pending[e][k].source = blocks[k[2]].account
        /\ \A r \in DOMAIN blocks : Received(r) # k[2]
    BY <2>1 DEF PendingInv
  <2>3. k[2] # s
    <3>1. SUFFICES ASSUME k[2] = s PROVE FALSE
      BY Zenon
    <3>2. k[1] = a
      BY <1>2, <2>2, <3>1, Zenon
    <3>3. k = <<k[1], k[2]>>
      BY <2>1, PendingKeyIsPair, Zenon
    <3> QED BY <2>1, <3>1, <3>2, <3>3, Zenon
  <2> QED BY <1>0, <1>1, <2>1, <2>2, <2>3
<1>4. ASSUME NEW t \in DOMAIN blocks', SendBlock(t)'
      PROVE  pending_exists(<<Content[t].link, t>>)' \/ \E r \in DOMAIN blocks' : Received(r)' = t
  <2>1. t \in DOMAIN blocks /\ SendBlock(t)
    BY <1>0, <1>1, <1>4, Zenon
  <2>2. CASE t = s
    BY <1>0, <2>2, Zenon
  <2>3. CASE t # s
    BY <1>0, <1>1, <2>1, <2>3 DEF PendingInv, PendingMinus
  <2> QED BY <2>2, <2>3, Zenon
<1>5. ASSUME NEW r \in DOMAIN blocks', Received(r)' # Zero
      PROVE  /\ Received(r)' \in DOMAIN blocks'
             /\ SendBlock(Received(r))'
             /\ Content[Received(r)'].link = blocks'[r].account
  <2>1. CASE r = h
    <3>1. SendBlock(Received(h))'
      BY <1>1, <1>2, Zenon DEF SendBlock, is_send
    <3> QED BY <1>0, <1>2, <2>1, <3>1, Zenon
  <2>2. CASE r \in DOMAIN blocks
    <3>1. /\ Received(r) \in DOMAIN blocks
          /\ SendBlock(Received(r))
          /\ Content[Received(r)].link = blocks[r].account
      BY <1>1, <1>5, <2>2, Zenon DEF PendingInv
    <3>2. SendBlock(Received(r))'
      BY <1>1, <2>2, <3>1, Zenon DEF SendBlock, is_send
    <3> QED BY <1>0, <1>1, <2>2, <3>1, <3>2, Zenon
  <2> QED BY <1>0, <2>1, <2>2, Zenon
<1>6. PendingInv'
  BY <1>3, <1>4, <1>5, Zenon DEF PendingInv, PendingMinus
<1>7. NoDoubleReceive'
  BY <1>0, <1>1, <1>2 DEF NoDoubleReceive
<1> QED BY <1>6, <1>7, Zenon

\* A block that neither sends nor receives
LEMMA AppendNone ==
    ASSUME BlocksOK, ChainInv, PendingInv, NoDoubleReceive,
           NEW h, NEW a, NEW balance, Appended(h, a, balance),
           ~SendBlock(h)', Received(h)' = Zero, pending' = pending
    PROVE  PendingInv' /\ NoDoubleReceive'
<1>0. /\ DOMAIN blocks' = DOMAIN blocks \cup {h} /\ h \notin DOMAIN blocks /\ h # Zero
      /\ \A k \in DOMAIN blocks : blocks'[k].account = blocks[k].account
      /\ Zero \notin DOMAIN blocks
  BY Zenon DEF Appended, BlockAdded, BlocksOK
<1>1. \A k \in DOMAIN blocks : (SendBlock(k)' <=> SendBlock(k)) /\ Received(k)' = Received(k)
  BY AppendStable, Zenon
<1>3. ASSUME NEW e \in Epoch, NEW k \in DOMAIN pending'[e]
      PROVE  /\ k[2] \in DOMAIN blocks'
             /\ SendBlock(k[2])'
             /\ k[1] = Content[k[2]].link
             /\ pending'[e][k].source = blocks'[k[2]].account
             /\ \A r \in DOMAIN blocks' : Received(r)' # k[2]
  BY <1>0, <1>1 DEF PendingInv
<1>4. ASSUME NEW t \in DOMAIN blocks', SendBlock(t)'
      PROVE  pending_exists(<<Content[t].link, t>>)' \/ \E r \in DOMAIN blocks' : Received(r)' = t
  BY <1>0, <1>1, <1>4 DEF PendingInv, pending_exists
<1>5. ASSUME NEW r \in DOMAIN blocks', Received(r)' # Zero
      PROVE  /\ Received(r)' \in DOMAIN blocks'
             /\ SendBlock(Received(r))'
             /\ Content[Received(r)'].link = blocks'[r].account
  <2>1. r \in DOMAIN blocks
    BY <1>0, <1>5, Zenon
  <2>2. /\ Received(r) \in DOMAIN blocks
        /\ SendBlock(Received(r))
        /\ Content[Received(r)].link = blocks[r].account
    BY <1>1, <1>5, <2>1, Zenon DEF PendingInv
  <2>3. SendBlock(Received(r))'
    BY <1>1, <2>1, <2>2, Zenon DEF SendBlock, is_send
  <2> QED BY <1>0, <1>1, <2>1, <2>2, <2>3, Zenon
<1>6. PendingInv'
  BY <1>3, <1>4, <1>5, Zenon DEF PendingInv
<1>7. NoDoubleReceive'
  BY <1>0, <1>1 DEF NoDoubleReceive
<1> QED BY <1>6, <1>7, Zenon

\* LegacyInv after an append, from what the action does to the frontiers
LEMMA AppendLegacy ==
    ASSUME BlocksOK, AccountsOK, ChainInv, HeadInv, LegacyInv,
           NEW h, NEW a, NEW balance, Appended(h, a, balance),
           Content[h].type \in {"send", "receive", "change"} =>
               Content[h].previous # Zero /\ Content[Content[h].previous].type \in LegacyType,
           Content[h].type = "change" => balance = blocks[Content[h].previous].balance,
           Content[h].type \in {"receive", "open"} => Content[h].link \in Hash,
           \A k \in DOMAIN frontiers' :
               \/ k = h /\ Content[h].type \in LegacyType /\ frontiers'[k] = a
               \/ k \in DOMAIN frontiers /\ k # Info(a).head /\ frontiers'[k] = frontiers[k]
    PROVE  LegacyInv'
<1>0. /\ DOMAIN blocks' = DOMAIN blocks \cup {h} /\ h \notin DOMAIN blocks
      /\ blocks'[h].account = a /\ blocks'[h].balance = balance
      /\ \A k \in DOMAIN blocks : /\ blocks'[k].account = blocks[k].account
                                  /\ blocks'[k].balance = blocks[k].balance
      /\ Info(a)'.head = h
      /\ \A x \in Account \ {a} : Info(x)' = Info(x)
      /\ \A k \in DOMAIN blocks : blocks[k].account \in Account
  BY Zenon DEF Appended, BlockAdded, BlocksOK, Sideband
<1>1. \A k \in DOMAIN blocks' : Content[k].previous = Zero \/ Content[k].previous \in DOMAIN blocks
  <2>1. Content[h].previous = Zero \/ Content[h].previous \in DOMAIN blocks
    BY Zenon DEF Appended, BlockAdded, HeadInv, Info
  <2> QED BY <1>0, <2>1, Zenon DEF ChainInv
<1>2. ASSUME NEW k \in DOMAIN frontiers'
      PROVE  /\ k \in DOMAIN blocks'
             /\ Content[k].type \in LegacyType
             /\ frontiers'[k] = blocks'[k].account
             /\ Info(blocks[k].account)'.head = k
  <2>1. CASE k = h
    BY <1>0, <2>1, Zenon DEF LegacyInv
  <2>2. CASE k # h
    <3>1. k \in DOMAIN frontiers /\ k # Info(a).head /\ frontiers'[k] = frontiers[k]
      BY <2>2, Zenon
    <3>2. /\ k \in DOMAIN blocks /\ Content[k].type \in LegacyType
          /\ frontiers[k] = blocks[k].account /\ Info(blocks[k].account).head = k
      BY <3>1, Zenon DEF LegacyInv
    <3>3. blocks[k].account # a
      BY <3>1, <3>2, Zenon
    <3> QED BY <1>0, <3>1, <3>2, <3>3, Zenon
  <2> QED BY <2>1, <2>2, Zenon
<1> QED BY <1>0, <1>1, <1>2 DEF LegacyInv

\* block_put and change_latest together append
LEMMA PutIsAppended ==
    ASSUME IInv, NEW h \in Hash \ DOMAIN blocks, NEW a \in Account, Owner[h] = a,
           Content[h].previous = Info(a).head,
           NEW balance \in Amount, NEW epoch \in Epoch, NEW rep_block \in HashOrZero,
           blocks' = block_put(h, a, balance, Info(a).block_count + 1, epoch),
           accounts' = change_latest(a, h, rep_block, balance, Info(a).block_count + 1, epoch)
    PROVE  /\ BlocksOK' /\ AccountsOK'
           /\ Appended(h, a, balance)
           /\ ChainInv' /\ HeadInv'
<1>0. BlocksOK /\ AccountsOK /\ ChainInv /\ HeadInv
  BY TypeParts, Zenon DEF IInv
<1>1. Info(a).block_count + 1 \in Int
  BY <1>0, InfoType DEF AccountInfo
<1>2. BlocksOK' /\ BlockAdded(h, a, balance, Info(a).block_count + 1)
  BY <1>0, <1>1, BlockPut, Zenon
<1>3. DOMAIN accounts[0] \cap DOMAIN accounts[1] = {}
  BY <1>0, Zenon DEF HeadInv
<1>4. /\ AccountsOK'
      /\ DOMAIN accounts'[0] \cap DOMAIN accounts'[1] = {}
      /\ account_exists(a)'
      /\ Info(a)'.head = h
      /\ Info(a)'.block_count = Info(a).block_count + 1
      /\ Info(a)'.balance = balance
      /\ \A x \in Account \ {a} : (account_exists(x)' <=> account_exists(x)) /\ Info(x)' = Info(x)
  BY <1>0, <1>1, <1>3, ChangeLatestPut
<1>5. Appended(h, a, balance)
  BY <1>2, <1>4, Zenon DEF Appended
<1>6. ChainInv' /\ HeadInv'
  BY <1>0, <1>5, AppendChain, Zenon
<1> QED BY <1>2, <1>4, <1>5, <1>6, Zenon

\* What the tests shared by change, send and receive blocks establish
LEMMA LegacyFacts ==
    ASSUME IInv, NEW h \in Hash, NEW v, LegacyVerdict(h, v) = "progress",
           Content[h].type \in {"send", "receive", "change"}
    PROVE  LET p == Content[h].previous
               a == frontiers[p]
           IN /\ h \in Hash \ DOMAIN blocks
              /\ p \in DOMAIN blocks /\ p \in DOMAIN frontiers /\ p # Zero
              /\ Content[p].type \in LegacyType
              /\ a \in Account /\ a = blocks[p].account /\ Owner[h] = a
              /\ account_exists(a) /\ Info(a).head = p
              /\ Info(a) \in AccountInfo
              /\ blocks[p].balance = Info(a).balance
<1> DEFINE p == Content[h].previous
           a == frontiers[p]
<1>0. BlocksOK /\ AccountsOK /\ FrontiersOK /\ ChainInv /\ HeadInv /\ LegacyInv
  BY TypeParts, Zenon DEF IInv
<1>1. /\ h \in Hash \ DOMAIN blocks
      /\ p \in DOMAIN blocks /\ p \in DOMAIN frontiers
      /\ Content[p].type \in LegacyType
  BY Zenon DEF LegacyVerdict, Exists, valid_predecessor
<1>2. a \in Account /\ a = blocks[p].account /\ Info(a).head = p /\ p # Zero
  BY <1>0, <1>1, Zenon DEF LegacyInv, BlocksOK, FrontiersOK
<1>3. Owner[h] = a
  BY <1>0, <1>1, <1>2, OwnerAssumption, Zenon DEF ChainInv
<1>4. account_exists(a) /\ blocks[p].balance = Info(a).balance /\ Info(a) \in AccountInfo
  BY <1>0, <1>1, <1>2, InfoType, Zenon DEF HeadInv
<1> QED BY <1>1, <1>2, <1>3, <1>4, Zenon

LEMMA MoveFrontierFacts ==
    ASSUME FrontiersOK, NEW from, NEW to \in Hash, NEW a \in Account,
           frontiers' = MoveFrontier(from, to, a)
    PROVE  /\ FrontiersOK'
           /\ DOMAIN frontiers' = (DOMAIN frontiers \ {from}) \cup {to}
           /\ frontiers'[to] = a
           /\ \A k \in DOMAIN frontiers' \ {to} : frontiers'[k] = frontiers[k]
BY Zenon DEF FrontiersOK, MoveFrontier, Put, Del

\* Putting the parts together
LEMMA IInvParts ==
    ASSUME IInv, rolling' = rolling,
           BlocksOK', AccountsOK', PendingOK', FrontiersOK', representation' \in [Key -> Amount],
           ChainInv', HeadInv', LegacyInv', PendingInv', NoDoubleReceive'
    PROVE  IInv'
<1>1. TypeOK' /\ RollingInv'
  BY Zenon DEF IInv, TypeOK, RollingInv, BlocksOK, AccountsOK, PendingOK, FrontiersOK
<1> QED BY <1>1, Zenon DEF IInv

LEMMA ChangePreserves ==
    ASSUME IInv, NEW h \in Hash, NEW v, change_block(h, v) = "progress",
           Content[h].type = "change", InsertChange(h), rolling' = rolling
    PROVE  IInv'
<1> DEFINE p == Content[h].previous
           a == frontiers[p]
           balance == Info(a).balance
<1>0. BlocksOK /\ AccountsOK /\ PendingOK /\ FrontiersOK /\ representation \in [Key -> Amount]
      /\ ChainInv /\ HeadInv /\ LegacyInv /\ PendingInv /\ NoDoubleReceive
  BY TypeParts, Zenon DEF IInv
<1>1. /\ h \in Hash \ DOMAIN blocks
      /\ p \in DOMAIN blocks /\ p # Zero /\ Content[p].type \in LegacyType
      /\ a \in Account /\ Owner[h] = a /\ account_exists(a) /\ Info(a).head = p
      /\ Info(a) \in AccountInfo /\ blocks[p].balance = balance
  BY LegacyFacts, Zenon DEF change_block
<1>2. balance \in Amount /\ h \in HashOrZero
  BY <1>1, Zenon DEF AccountInfo, HashOrZero
<1>3. BlocksOK' /\ AccountsOK' /\ Appended(h, a, balance) /\ ChainInv' /\ HeadInv'
  BY <1>1, <1>2, PutIsAppended, Zenon DEF InsertChange
<1>4. representation' \in [Key -> Amount]
  <2>1. Balance(p) \in Int
    BY <1>0, <1>1, BalanceType DEF Amount
  <2> QED BY <1>0, <2>1, MoveWeightType, Zenon DEF InsertChange
<1>5. FrontiersOK' /\ LegacyInv'
  <2>1. frontiers' = MoveFrontier(p, h, a)
    BY Zenon DEF InsertChange
  <2>2. /\ FrontiersOK'
        /\ DOMAIN frontiers' = (DOMAIN frontiers \ {p}) \cup {h}
        /\ frontiers'[h] = a
        /\ \A k \in DOMAIN frontiers' \ {h} : frontiers'[k] = frontiers[k]
    BY <1>0, <1>1, <2>1, MoveFrontierFacts, Zenon
  <2>3. Content[h].type \in LegacyType
    BY Zenon DEF LegacyType, BlockType
  <2>4. \A k \in DOMAIN frontiers' :
           \/ k = h /\ Content[h].type \in LegacyType /\ frontiers'[k] = a
           \/ k \in DOMAIN frontiers /\ k # Info(a).head /\ frontiers'[k] = frontiers[k]
    BY <1>0, <1>1, <2>2, <2>3, Zenon
  <2>5. /\ Content[h].type = "change" /\ Content[h].previous # Zero
        /\ Content[Content[h].previous].type \in LegacyType
        /\ balance = blocks[Content[h].previous].balance
    BY <1>1, Zenon
  <2> HIDE DEF a, balance
  <2> QED BY ONLY <1>0, <1>3, <2>2, <2>4, <2>5, AppendLegacy
<1>6. PendingOK' /\ PendingInv' /\ NoDoubleReceive'
  <2>1. pending' = pending
    BY Zenon DEF InsertChange
  <2>2. ~SendBlock(h)' /\ Received(h)' = Zero
    BY Zenon DEF SendBlock, Received, block_source, is_epoch_link
  <2> QED BY <1>0, <1>3, <2>1, <2>2, AppendNone, Zenon DEF PendingOK
<1> QED BY <1>3, <1>4, <1>5, <1>6, IInvParts, Zenon

LEMMA SendPreserves ==
    ASSUME IInv, NEW h \in Hash, NEW v, send_block(h, v) = "progress",
           Content[h].type = "send", InsertSend(h), rolling' = rolling
    PROVE  IInv'
<1> DEFINE p == Content[h].previous
           a == frontiers[p]
           balance == Content[h].balance
           amount == Info(a).balance - balance
           key == <<Content[h].link, h>>
<1>0. BlocksOK /\ AccountsOK /\ PendingOK /\ FrontiersOK /\ representation \in [Key -> Amount]
      /\ ChainInv /\ HeadInv /\ LegacyInv /\ PendingInv /\ NoDoubleReceive
  BY TypeParts, Zenon DEF IInv
<1>1. /\ h \in Hash \ DOMAIN blocks
      /\ p \in DOMAIN blocks /\ p # Zero /\ Content[p].type \in LegacyType
      /\ a \in Account /\ Owner[h] = a /\ account_exists(a) /\ Info(a).head = p
      /\ Info(a) \in AccountInfo
  BY LegacyFacts, Zenon DEF send_block
<1>2. /\ balance \in Amount /\ amount \in Amount /\ Info(a).rep_block \in HashOrZero
      /\ key \in Link \X Hash
  BY <1>1 DEF send_block, AccountInfo, Amount, Block
<1>3. BlocksOK' /\ AccountsOK' /\ Appended(h, a, balance) /\ ChainInv' /\ HeadInv'
  BY <1>1, <1>2, PutIsAppended, Zenon DEF InsertSend
<1>4. representation' \in [Key -> Amount]
  <2>1. -amount \in Int
    BY <1>2 DEF Amount
  <2> QED BY <1>0, <2>1, WeightType, Zenon DEF InsertSend
<1>5. FrontiersOK' /\ LegacyInv'
  <2>1. frontiers' = MoveFrontier(p, h, a)
    BY Zenon DEF InsertSend
  <2>2. /\ FrontiersOK'
        /\ DOMAIN frontiers' = (DOMAIN frontiers \ {p}) \cup {h}
        /\ frontiers'[h] = a
        /\ \A k \in DOMAIN frontiers' \ {h} : frontiers'[k] = frontiers[k]
    BY <1>0, <1>1, <2>1, MoveFrontierFacts, Zenon
  <2>3. Content[h].type \in LegacyType
    BY Zenon DEF LegacyType, BlockType
  <2>4. \A k \in DOMAIN frontiers' :
           \/ k = h /\ Content[h].type \in LegacyType /\ frontiers'[k] = a
           \/ k \in DOMAIN frontiers /\ k # Info(a).head /\ frontiers'[k] = frontiers[k]
    BY <1>0, <1>1, <2>2, <2>3, Zenon
  <2>5. /\ Content[h].type = "send" /\ Content[h].previous # Zero
        /\ Content[Content[h].previous].type \in LegacyType
    BY <1>1, Zenon
  <2> HIDE DEF a
  <2> QED BY ONLY <1>0, <1>3, <2>2, <2>4, <2>5, AppendLegacy
<1>6. PendingOK' /\ PendingInv' /\ NoDoubleReceive'
  <2>1. pending' = pending_put(key, [source |-> a, amount |-> amount], 0)
    BY Zenon DEF InsertSend
  <2>2. ~pending_exists(key) /\ DOMAIN pending[0] \cap DOMAIN pending[1] = {}
    BY <1>0, <1>1, Zenon DEF PendingInv, pending_exists
  <2>3. PendingOK' /\ PendingPlus(key, a)
    BY <1>0, <1>1, <1>2, <2>1, <2>2, PendingPut, Zenon
  <2>4. SendBlock(h)' /\ Received(h)' = Zero
    BY Zenon DEF SendBlock, Received, block_source, is_epoch_link
  <2> QED BY <1>0, <1>3, <2>3, <2>4, AppendSend, Zenon
<1> QED BY <1>3, <1>4, <1>5, <1>6, IInvParts, Zenon
-----------------------------------------------------------------------------
(* Legacy receives and opens, and epoch blocks                             *)

\* A key that is pending names a send of the ledger to the account in the key
LEMMA PendingSource ==
    ASSUME IInv, NEW a, NEW s, pending_exists(<<a, s>>)
    PROVE  s \in Hash /\ s # Zero /\ s # EpochLink /\ s \in DOMAIN blocks /\ SendBlock(s)
<1>1. s \in DOMAIN blocks /\ SendBlock(s)
  BY Zenon DEF IInv, PendingInv, pending_exists
<1> QED BY <1>1, Zenon DEF IInv, TypeOK

LEMMA ReceivePreserves ==
    ASSUME IInv, NEW h \in Hash, NEW v, receive_block(h, v) = "progress",
           Content[h].type = "receive", InsertReceive(h), rolling' = rolling
    PROVE  IInv'
<1> DEFINE p == Content[h].previous
           a == frontiers[p]
           key == <<a, Content[h].link>>
           amount == pending_get(key).amount
           balance == (Info(a).balance + amount) % AmountLimit
<1>0. BlocksOK /\ AccountsOK /\ PendingOK /\ FrontiersOK /\ representation \in [Key -> Amount]
      /\ ChainInv /\ HeadInv /\ LegacyInv /\ PendingInv /\ NoDoubleReceive
  BY TypeParts, Zenon DEF IInv
<1>1. /\ h \in Hash \ DOMAIN blocks
      /\ p \in DOMAIN blocks /\ p # Zero /\ Content[p].type \in LegacyType
      /\ a \in Account /\ Owner[h] = a /\ account_exists(a) /\ Info(a).head = p
      /\ Info(a) \in AccountInfo
  BY LegacyFacts, Zenon DEF receive_block
<1>2. pending_exists(key) /\ amount \in Amount
  BY <1>0, PendingGet, Zenon DEF receive_block, PendingInfo
<1>3. balance \in Amount /\ Info(a).rep_block \in HashOrZero
  <2>1. Info(a).balance \in Amount /\ Info(a).rep_block \in HashOrZero
    BY <1>1, Zenon DEF AccountInfo
  <2>2. \A x, y \in Amount : (x + y) % AmountLimit \in Amount
    BY DEF Amount
  <2> HIDE DEF amount
  <2> QED BY <1>2, <2>1, <2>2, Zenon
<1>4. BlocksOK' /\ AccountsOK' /\ Appended(h, a, balance) /\ ChainInv' /\ HeadInv'
  BY <1>1, <1>3, PutIsAppended, Zenon DEF InsertReceive
<1>5. representation' \in [Key -> Amount]
  <2>1. amount \in Int
    BY <1>2 DEF Amount
  <2> QED BY <1>0, <2>1, WeightType, Zenon DEF InsertReceive
<1>6. FrontiersOK' /\ LegacyInv'
  <2>1. frontiers' = MoveFrontier(p, h, a)
    BY Zenon DEF InsertReceive
  <2>2. /\ FrontiersOK'
        /\ DOMAIN frontiers' = (DOMAIN frontiers \ {p}) \cup {h}
        /\ frontiers'[h] = a
        /\ \A k \in DOMAIN frontiers' \ {h} : frontiers'[k] = frontiers[k]
    BY <1>0, <1>1, <2>1, MoveFrontierFacts, Zenon
  <2>3. Content[h].type \in LegacyType
    BY Zenon DEF LegacyType, BlockType
  <2>4. Content[h].link \in Hash
    BY <1>2, PendingSource, Zenon
  <2>5. \A k \in DOMAIN frontiers' :
           \/ k = h /\ Content[h].type \in LegacyType /\ frontiers'[k] = a
           \/ k \in DOMAIN frontiers /\ k # Info(a).head /\ frontiers'[k] = frontiers[k]
    BY <1>0, <1>1, <2>2, <2>3, Zenon
  <2>6. /\ Content[h].type = "receive" /\ Content[h].previous # Zero
        /\ Content[Content[h].previous].type \in LegacyType
    BY <1>1, Zenon
  <2> HIDE DEF a, balance
  <2> QED BY ONLY <1>0, <1>4, <2>2, <2>4, <2>5, <2>6, AppendLegacy
<1>7. PendingOK' /\ PendingInv' /\ NoDoubleReceive'
  <2>1. DOMAIN pending[0] \cap DOMAIN pending[1] = {}
    BY <1>0, Zenon DEF PendingInv
  <2>2. PendingOK' /\ PendingMinus(key)
    BY <1>0, <2>1, PendingDel, Zenon DEF InsertReceive
  <2>3. h # Genesis
    BY <1>0, <1>1, Zenon DEF ChainInv
  <2>4. ~SendBlock(h)' /\ Received(h)' = Content[h].link
    BY <1>2, <2>3, PendingSource, Zenon DEF SendBlock, Received, block_source, is_epoch_link
  <2> QED BY <1>0, <1>2, <1>4, <2>2, <2>4, AppendReceive, Zenon
<1> QED BY <1>4, <1>5, <1>6, <1>7, IInvParts, Zenon

LEMMA OpenPreserves ==
    ASSUME IInv, NEW h \in Hash, NEW v, open_block(h, v) = "progress",
           Content[h].type = "open", InsertOpen(h), rolling' = rolling
    PROVE  IInv'
<1> DEFINE a == Content[h].account
           key == <<a, Content[h].link>>
           amount == pending_get(key).amount
<1>0. BlocksOK /\ AccountsOK /\ PendingOK /\ FrontiersOK /\ representation \in [Key -> Amount]
      /\ ChainInv /\ HeadInv /\ LegacyInv /\ PendingInv /\ NoDoubleReceive
  BY TypeParts, Zenon DEF IInv
<1>1. /\ h \in Hash \ DOMAIN blocks /\ a # Zero /\ ~account_exists(a) /\ pending_exists(key)
  BY Zenon DEF open_block, Exists
<1>2. a \in Account /\ Owner[h] = a
  BY <1>1, OwnerAssumption, Zenon DEF Block, Key
<1>3. /\ Content[h].previous = Info(a).head
      /\ Info(a).block_count + 1 = 1
      /\ h \in HashOrZero
  BY <1>1 DEF Info, HashOrZero
<1>4. amount \in Amount
  BY <1>0, <1>1, PendingGet, Zenon DEF PendingInfo
<1>5. BlocksOK' /\ AccountsOK' /\ Appended(h, a, amount) /\ ChainInv' /\ HeadInv'
  <2>1. /\ blocks' = block_put(h, a, amount, Info(a).block_count + 1, 0)
        /\ accounts' = change_latest(a, h, h, amount, Info(a).block_count + 1, 0)
    BY <1>3, Zenon DEF InsertOpen
  <2> QED BY <1>1, <1>2, <1>3, <1>4, <2>1, PutIsAppended, Zenon
<1>6. representation' \in [Key -> Amount]
  <2>1. amount \in Int
    BY <1>4 DEF Amount
  <2> QED BY <1>0, <2>1, WeightType, Zenon DEF InsertOpen
<1>7. FrontiersOK' /\ LegacyInv'
  <2>1. /\ FrontiersOK'
        /\ DOMAIN frontiers' = DOMAIN frontiers \cup {h}
        /\ frontiers'[h] = a
        /\ \A k \in DOMAIN frontiers' \ {h} : frontiers'[k] = frontiers[k]
    BY <1>0, <1>2, Zenon DEF InsertOpen, Put, FrontiersOK
  <2>2. Content[h].type \in LegacyType
    BY Zenon DEF LegacyType, BlockType
  <2>3. \A k \in DOMAIN frontiers : k # Info(a).head
    BY <1>0, <1>1, Zenon DEF Info, FrontiersOK
  <2>4. Content[h].link \in Hash
    BY <1>1, PendingSource, Zenon
  <2> QED BY <1>0, <1>5, <2>1, <2>2, <2>3, <2>4, AppendLegacy
<1>8. PendingOK' /\ PendingInv' /\ NoDoubleReceive'
  <2>1. DOMAIN pending[0] \cap DOMAIN pending[1] = {}
    BY <1>0, Zenon DEF PendingInv
  <2>2. PendingOK' /\ PendingMinus(key)
    BY <1>0, <2>1, PendingDel, Zenon DEF InsertOpen
  <2>3. h # Genesis
    BY <1>0, <1>1, Zenon DEF ChainInv
  <2>4. ~SendBlock(h)' /\ Received(h)' = Content[h].link
    BY <1>1, <2>3, PendingSource, Zenon DEF SendBlock, Received, block_source, is_epoch_link
  <2> QED BY <1>0, <1>1, <1>5, <2>2, <2>4, AppendReceive, Zenon
<1> QED BY <1>5, <1>6, <1>7, <1>8, IInvParts, Zenon

\* The balance before a state block is the balance of the account
LEMMA BalanceOfHead ==
    ASSUME IInv, NEW a \in Account
    PROVE  /\ Balance(Info(a).head) = Info(a).balance
           /\ Info(a).balance \in Amount
           /\ Info(a).head = Zero <=> ~account_exists(a)
<1>0. BlocksOK /\ AccountsOK /\ HeadInv
  BY TypeParts, Zenon DEF IInv
<1>1. CASE account_exists(a)
  BY <1>0, <1>1, InfoType, Zenon DEF HeadInv, Balance, BlocksOK, AccountInfo
<1>2. CASE ~account_exists(a)
  BY <1>2 DEF Info, Balance, Amount
<1> QED BY <1>1, <1>2, Zenon

\* A state block moves the frontier of its account out of the table
LEMMA DelFrontier ==
    ASSUME FrontiersOK, NEW from, frontiers' = Del(frontiers, from)
    PROVE  /\ FrontiersOK'
           /\ DOMAIN frontiers' = DOMAIN frontiers \ {from}
           /\ \A k \in DOMAIN frontiers' : frontiers'[k] = frontiers[k]
BY Zenon DEF FrontiersOK, Del

\* What the tests of epoch_block_impl leave: the block goes on top of its account
LEMMA EpochFacts ==
    ASSUME IInv, NEW h \in Hash, NEW v \in Verifications(h), state_block(h, v) = "progress",
           Content[h].type = "state", IsEpochBlock(h)
    PROVE  LET a == Content[h].account
               p == Content[h].previous
           IN /\ h \in Hash \ DOMAIN blocks /\ h \in HashOrZero
              /\ a \in Account /\ Owner[h] = a
              /\ p = Info(a).head /\ (p = Zero \/ p \in DOMAIN blocks)
              /\ Content[h].balance = Info(a).balance /\ Content[h].balance \in Amount
              /\ Balance(p) = Content[h].balance
              /\ account_exists(a) =>
                   Content[h].representative = Content[Info(a).rep_block].representative
              /\ EpochOf(a) = 0
<1> DEFINE a == Content[h].account
           p == Content[h].previous
           balance == Content[h].balance
<1>0. ChainInv /\ HeadInv
  BY Zenon DEF IInv
<1>1. /\ epoch_block_impl(h, v) = "progress"
      /\ p = Zero \/ p \in DOMAIN blocks
  BY Zenon DEF state_block, IsEpochBlock, MissingEpochPrevious, Exists
<1>2. /\ h \in Hash \ DOMAIN blocks
      /\ v = "valid_epoch" \/ SignedBy(h, EpochSigner)
      /\ a # Zero
      /\ account_exists(a) => p = Info(a).head
      /\ balance = Info(a).balance
      /\ account_exists(a) =>
           Content[h].representative = Content[Info(a).rep_block].representative
      /\ EpochOf(a) = 0
  BY <1>1, Zenon DEF epoch_block_impl, Exists
<1>3. Content[h].signer = EpochSigner
  BY <1>2, Zenon DEF Verifications, SignedBy
<1>4. a \in Account /\ Owner[h] = a /\ h \in HashOrZero
  BY <1>2, OwnerAssumption, Zenon DEF Block, Key, HashOrZero
<1>5. p = Info(a).head
  <2>1. CASE account_exists(a)
    BY <1>2, <2>1, Zenon
  <2>2. CASE ~account_exists(a)
    <3>1. p = Zero
      BY <1>0, <1>1, <1>3, <1>4, <2>2, EpochSignerAssumption DEF ChainInv, HeadInv
    <3> QED BY <2>2, <3>1, Zenon DEF Info
  <2> QED BY <2>1, <2>2, Zenon
<1>6. balance \in Amount /\ Balance(p) = balance
  BY <1>2, <1>4, <1>5, BalanceOfHead, Zenon
<1> QED BY <1>1, <1>2, <1>4, <1>5, <1>6, Zenon

LEMMA EpochPreserves ==
    ASSUME IInv, NEW h \in Hash, NEW v \in Verifications(h), state_block(h, v) = "progress",
           Content[h].type = "state", IsEpochBlock(h), InsertEpoch(h), rolling' = rolling
    PROVE  IInv'
<1> DEFINE a == Content[h].account
           p == Content[h].previous
           balance == Content[h].balance
<1>0. BlocksOK /\ AccountsOK /\ PendingOK /\ FrontiersOK /\ representation \in [Key -> Amount]
      /\ ChainInv /\ HeadInv /\ LegacyInv /\ PendingInv /\ NoDoubleReceive
  BY TypeParts, Zenon DEF IInv
<1>1. /\ h \in Hash \ DOMAIN blocks /\ h \in HashOrZero
      /\ a \in Account /\ Owner[h] = a
      /\ p = Info(a).head /\ (p = Zero \/ p \in DOMAIN blocks)
      /\ balance = Info(a).balance /\ balance \in Amount /\ Balance(p) = balance
  BY EpochFacts, Zenon
<1>7. BlocksOK' /\ AccountsOK' /\ Appended(h, a, balance) /\ ChainInv' /\ HeadInv'
  <2>1. /\ blocks' = block_put(h, a, balance, Info(a).block_count + 1, 1)
        /\ accounts' = change_latest(a, h, h, balance, Info(a).block_count + 1, 1)
    BY <1>1, Zenon DEF InsertEpoch
  <2> QED BY <1>1, <2>1, PutIsAppended, Zenon
<1>8. representation' \in [Key -> Amount] /\ pending' = pending
  BY <1>0, Zenon DEF InsertEpoch
<1>9. FrontiersOK' /\ LegacyInv'
  <2>1. frontiers' = Del(frontiers, Info(a).head)
    BY Zenon DEF InsertEpoch
  <2>2. /\ FrontiersOK'
        /\ DOMAIN frontiers' = DOMAIN frontiers \ {Info(a).head}
        /\ \A k \in DOMAIN frontiers' : frontiers'[k] = frontiers[k]
    BY <1>0, <2>1, DelFrontier, Zenon
  <2> QED BY <1>0, <1>7, <2>2, AppendLegacy
<1>10. PendingOK' /\ PendingInv' /\ NoDoubleReceive'
  <2>1. Balance(p)' = Balance(p)
    BY <1>1, <1>7, Zenon DEF Balance, Appended, BlockAdded
  <2>2. ~is_send(h)'
    BY <1>1, <2>1 DEF is_send, Amount
  <2>3. ~SendBlock(h)' /\ Received(h)' = Zero
    BY <2>2, Zenon DEF SendBlock, Received, block_source, is_epoch_link, IsEpochBlock
  <2> QED BY <1>0, <1>7, <1>8, <2>3, AppendNone, Zenon DEF PendingOK
<1> QED BY <1>7, <1>8, <1>9, <1>10, IInvParts, Zenon
-----------------------------------------------------------------------------
(* State blocks, the steps of the call stack, the initial state            *)

\* A step that only changes the call stack
LEMMA StackPreserves ==
    ASSUME IInv, UNCHANGED tables, rolling' \in Seq(Hash), RollingInv'
    PROVE  IInv'
<1>1. TypeOK'
  BY Zenon DEF IInv, TypeOK, tables
<1>2. ChainInv'
  BY Zenon DEF IInv, ChainInv, tables
<1>3. HeadInv'
  BY Zenon DEF IInv, HeadInv, account_exists, Info, EpochOf, tables
<1>4. LegacyInv'
  BY Zenon DEF IInv, LegacyInv, account_exists, Info, EpochOf, tables
<1>5. PendingInv' /\ NoDoubleReceive'
  <2>1. blocks' = blocks /\ pending' = pending
    BY Zenon DEF tables
  <2>2. \A k : is_send(k)' <=> is_send(k)
    BY <2>1, Zenon DEF is_send, Balance
  <2>3. \A k : (SendBlock(k)' <=> SendBlock(k)) /\ Received(k)' = Received(k)
    BY <2>2, Zenon DEF SendBlock, Received, block_source
  <2>4. NoDoubleReceive'
    BY <2>1, <2>3, Zenon DEF IInv, NoDoubleReceive
  <2>5. PendingInv'
    BY <2>1, <2>3, Zenon DEF IInv, PendingInv, pending_exists
  <2> QED BY <2>4, <2>5, Zenon
<1> QED BY <1>1, <1>2, <1>3, <1>4, <1>5, Zenon DEF IInv

LEMMA InitIInv == Init => IInv
<1> SUFFICES ASSUME Init PROVE IInv
  BY Zenon
<1>1. /\ DOMAIN blocks = {Genesis}
      /\ blocks[Genesis] = [account |-> GenesisAccount, successor |-> Zero,
                            balance |-> AmountLimit - 1, height |-> 1, epoch |-> 0]
      /\ GenesisAccount \in Account
      /\ AmountLimit - 1 \in Amount /\ 0 \in Amount
  BY DEF Init, GenesisAccount, Amount
<1>2. /\ DOMAIN accounts = Epoch
      /\ DOMAIN accounts[0] = {GenesisAccount} /\ DOMAIN accounts[1] = {}
      /\ accounts[0][GenesisAccount] =
           [head |-> Genesis, rep_block |-> Genesis, open_block |-> Genesis,
            balance |-> AmountLimit - 1, block_count |-> 1]
  BY DEF Init
<1>3. /\ DOMAIN pending = Epoch /\ DOMAIN pending[0] = {} /\ DOMAIN pending[1] = {}
      /\ DOMAIN frontiers = {Genesis} /\ frontiers[Genesis] = GenesisAccount
      /\ rolling = <<>>
  BY Zenon DEF Init
<1>4. representation \in [Key -> Amount]
  BY <1>1, Zenon DEF Init
<1>5. BlocksOK /\ AccountsOK /\ PendingOK /\ FrontiersOK
  BY <1>1, <1>2, <1>3 DEF BlocksOK, AccountsOK, PendingOK, FrontiersOK, Sideband, AccountInfo, HashOrZero
<1>6. TypeOK
  BY <1>3, <1>4, <1>5, TypeParts
<1>7. ChainInv
  BY <1>1, OwnerAssumption DEF ChainInv, GenesisAccount
<1>8. Info(GenesisAccount) = accounts[0][GenesisAccount] /\ \A a : account_exists(a) => a = GenesisAccount
  BY <1>2, Zenon DEF Info, account_exists, EpochOf
<1>9. HeadInv
  BY <1>1, <1>2, <1>8 DEF HeadInv, account_exists
<1>10. LegacyInv
  <2>1. Content[Genesis].type = "open" /\ "open" \in LegacyType
    BY Zenon DEF LegacyType, BlockType
  <2>2. Info(blocks[Genesis].account).head = Genesis
    BY <1>1, <1>2, <1>8
  <2> QED BY <1>1, <1>3, <2>1, <2>2 DEF LegacyInv
<1>11. ~SendBlock(Genesis) /\ Received(Genesis) = Zero
  BY Zenon DEF SendBlock, Received
<1>12. PendingInv /\ NoDoubleReceive
  BY <1>1, <1>3, <1>11, Zenon DEF PendingInv, NoDoubleReceive
<1>13. RollingInv
  BY <1>3 DEF RollingInv
<1> QED BY <1>6, <1>7, <1>9, <1>10, <1>12, <1>13, Zenon DEF IInv

\* Returning from a nested rollback leaves a call stack of the same kind.
LEMMA TailKeeps ==
    ASSUME rolling \in Seq(Hash), rolling # <<>>, RollingInv, rolling' = Tail(rolling)
    PROVE  rolling' \in Seq(Hash) /\ RollingInv'
<1>1. /\ Tail(rolling) \in Seq(Hash)
      /\ \A i \in DOMAIN Tail(rolling) : i + 1 \in DOMAIN rolling /\ Tail(rolling)[i] = rolling[i + 1]
  OBVIOUS
<1> QED BY <1>1 DEF RollingInv

\* What the tests of state_block_impl leave
LEMMA StateFacts ==
    ASSUME IInv, NEW h \in Hash, NEW v, state_block(h, v) = "progress",
           Content[h].type = "state", ~IsEpochBlock(h)
    PROVE  LET a == Content[h].account
               p == Content[h].previous
               balance == Content[h].balance
               link == Content[h].link
               sends == account_exists(a) /\ balance < Info(a).balance
           IN /\ h \in Hash \ DOMAIN blocks /\ h \in HashOrZero
              /\ a \in Account /\ Owner[h] = a /\ balance \in Amount /\ link \in Link
              /\ p = Info(a).head /\ Balance(p) = Info(a).balance /\ Info(a).balance \in Amount
              /\ ~sends /\ link # Zero => /\ pending_exists(<<a, link>>)
                                          /\ balance - Info(a).balance = pending_get(<<a, link>>).amount
              /\ ~sends /\ link = Zero => balance = Info(a).balance
<1> DEFINE a == Content[h].account
           p == Content[h].previous
           balance == Content[h].balance
           link == Content[h].link
           sends == account_exists(a) /\ balance < Info(a).balance
<1>1. state_block_impl(h, v) = "progress"
  BY Zenon DEF state_block
<1>2. /\ h \in Hash \ DOMAIN blocks
      /\ a # Zero
      /\ account_exists(a) => p = Info(a).head
      /\ ~account_exists(a) => p = Zero
      /\ ~sends /\ link # Zero => /\ pending_exists(<<a, link>>)
                                  /\ balance - Info(a).balance = pending_get(<<a, link>>).amount
      /\ ~sends /\ link = Zero => balance = Info(a).balance
  BY <1>1, Zenon DEF state_block_impl, Exists, ReceiveVerdict
<1>3. /\ a \in Account /\ Owner[h] = a /\ h \in HashOrZero
      /\ balance \in Amount /\ link \in Link
  BY <1>2, OwnerAssumption, Zenon DEF Block, Key, HashOrZero
<1>4. p = Info(a).head /\ Balance(p) = Info(a).balance /\ Info(a).balance \in Amount
  BY <1>2, <1>3, BalanceOfHead, Zenon DEF Info
<1> QED BY <1>2, <1>3, <1>4, Zenon

LEMMA StatePreserves ==
    ASSUME IInv, NEW h \in Hash, NEW v \in Verifications(h), state_block(h, v) = "progress",
           Content[h].type = "state", ~IsEpochBlock(h), InsertState(h), rolling' = rolling
    PROVE  IInv'
<1> DEFINE a == Content[h].account
           p == Content[h].previous
           balance == Content[h].balance
           link == Content[h].link
           key == <<a, link>>
           sends == account_exists(a) /\ balance < Info(a).balance
           received == IF ~sends /\ link # Zero THEN PendingEpoch(key) ELSE 0
           epoch == IF EpochOf(a) > received THEN EpochOf(a) ELSE received
<1>0. BlocksOK /\ AccountsOK /\ PendingOK /\ FrontiersOK /\ representation \in [Key -> Amount]
      /\ ChainInv /\ HeadInv /\ LegacyInv /\ PendingInv /\ NoDoubleReceive
  BY TypeParts, Zenon DEF IInv
<1>2. h \in Hash \ DOMAIN blocks /\ (~sends /\ link # Zero => pending_exists(key))
  BY StateFacts, Zenon
<1>3. /\ a \in Account /\ Owner[h] = a /\ h \in HashOrZero
      /\ balance \in Amount /\ link \in Link
  BY StateFacts, Zenon
<1>4. p = Info(a).head /\ Balance(p) = Info(a).balance /\ Info(a).balance \in Amount
  BY StateFacts, Zenon
<1>5. epoch \in Epoch
  <2>1. received \in Epoch
    BY Zenon DEF PendingEpoch
  <2>2. EpochOf(a) \in Epoch
    BY Zenon DEF EpochOf
  <2> QED BY <2>1, <2>2, Zenon
<1>6. BlocksOK' /\ AccountsOK' /\ Appended(h, a, balance) /\ ChainInv' /\ HeadInv'
  <2>1. /\ blocks' = block_put(h, a, balance, Info(a).block_count + 1, epoch)
        /\ accounts' = change_latest(a, h, h, balance, Info(a).block_count + 1, epoch)
    BY Zenon DEF InsertState
  <2> HIDE DEF epoch
  <2> QED BY <1>2, <1>3, <1>4, <1>5, <2>1, PutIsAppended, Zenon
<1>7. representation' \in [Key -> Amount]
  <2>1. Info(a).balance \in Int /\ balance \in Int
    BY <1>3, <1>4 DEF Amount
  <2>2. representation' = MoveWeight(Info(a).rep_block, Info(a).balance, h, balance)
    BY Zenon DEF InsertState
  <2> QED BY <1>0, <2>1, <2>2, MoveWeightType, Zenon
<1>8. FrontiersOK' /\ LegacyInv'
  <2>1. frontiers' = Del(frontiers, Info(a).head)
    BY Zenon DEF InsertState
  <2>2. /\ FrontiersOK'
        /\ DOMAIN frontiers' = DOMAIN frontiers \ {Info(a).head}
        /\ \A k \in DOMAIN frontiers' : frontiers'[k] = frontiers[k]
    BY <1>0, <2>1, DelFrontier, Zenon
  <2> QED BY <1>0, <1>6, <2>2, AppendLegacy
<1>9. is_send(h)' <=> sends
  <2>1. p = Zero \/ p \in DOMAIN blocks
    BY <1>0, <1>3, <1>4, Zenon DEF HeadInv, Info
  <2>2. Balance(p)' = Info(a).balance
    BY <1>4, <1>6, <2>1, Zenon DEF Balance, Appended, BlockAdded
  <2>3. p # Zero <=> account_exists(a)
    BY <1>3, <1>4, BalanceOfHead, Zenon
  <2> QED BY <2>2, <2>3, Zenon DEF is_send
<1>10. DOMAIN pending[0] \cap DOMAIN pending[1] = {} /\ h # Genesis
  BY <1>0, <1>2, Zenon DEF PendingInv, ChainInv
<1>11. CASE sends
  <2>1. pending' = pending_put(<<link, h>>, [source |-> a, amount |-> Info(a).balance - balance], epoch)
    BY <1>11, Zenon DEF InsertState
  <2>2. Info(a).balance - balance \in Amount /\ <<link, h>> \in Link \X Hash
    BY <1>3, <1>4, <1>11 DEF Amount
  <2>3. ~pending_exists(<<link, h>>)
    BY <1>0, <1>2, Zenon DEF PendingInv, pending_exists
  <2> HIDE DEF epoch
  <2>4. PendingOK' /\ PendingPlus(<<link, h>>, a)
    BY <1>0, <1>3, <1>5, <1>10, <2>1, <2>2, <2>3, PendingPut, Zenon
  <2>5. SendBlock(h)' /\ Received(h)' = Zero
    BY <1>9, <1>11, Zenon DEF SendBlock, Received, block_source, is_epoch_link
  <2>6. PendingInv' /\ NoDoubleReceive'
    BY <1>0, <1>6, <2>4, <2>5, AppendSend, Zenon
  <2> QED BY <1>6, <1>7, <1>8, <2>4, <2>6, IInvParts, Zenon
<1>12. CASE ~sends /\ link # Zero
  <2>1. pending' = pending_del(key) /\ pending_exists(key)
    BY <1>2, <1>12, Zenon DEF InsertState
  <2>2. PendingOK' /\ PendingMinus(key)
    BY <1>0, <1>10, <2>1, PendingDel, Zenon
  <2>3. ~SendBlock(h)' /\ Received(h)' = link
    BY <1>9, <1>10, <1>12, <2>1, PendingSource, Zenon DEF SendBlock, Received, block_source, is_epoch_link
  <2>4. PendingInv' /\ NoDoubleReceive'
    BY <1>0, <1>6, <2>1, <2>2, <2>3, AppendReceive, Zenon
  <2> QED BY <1>6, <1>7, <1>8, <2>2, <2>4, IInvParts, Zenon
<1>13. CASE ~sends /\ link = Zero
  <2>1. pending' = pending
    BY <1>13, Zenon DEF InsertState
  <2>2. ~SendBlock(h)' /\ Received(h)' = Zero
    BY <1>9, <1>13, Zenon DEF SendBlock, Received, block_source, is_epoch_link
  <2>3. PendingInv' /\ NoDoubleReceive'
    BY <1>0, <1>6, <2>1, <2>2, AppendNone, Zenon
  <2>4. PendingOK'
    BY <1>0, <2>1, Zenon DEF PendingOK
  <2> QED BY <1>6, <1>7, <1>8, <2>3, <2>4, IInvParts, Zenon
<1> QED BY <1>11, <1>12, <1>13, Zenon

LEMMA ProcessPreserves ==
    ASSUME IInv, NEW h \in Hash, NEW v \in Verifications(h), Process(h, v)
    PROVE  IInv'
<1>1. rolling' = rolling /\ ProcessResult(h, v) = "progress"
  BY Zenon DEF Process
<1>2. CASE Content[h].type = "state" /\ ~IsEpochBlock(h) /\ InsertState(h)
  BY <1>1, <1>2, StatePreserves, Zenon DEF ProcessResult
<1>3. CASE Content[h].type = "state" /\ IsEpochBlock(h) /\ InsertEpoch(h)
  BY <1>1, <1>3, EpochPreserves, Zenon DEF ProcessResult
<1>4. CASE Content[h].type = "change" /\ InsertChange(h)
  BY <1>1, <1>4, ChangePreserves, Zenon DEF ProcessResult
<1>5. CASE Content[h].type = "send" /\ InsertSend(h)
  BY <1>1, <1>5, SendPreserves, Zenon DEF ProcessResult
<1>6. CASE Content[h].type = "receive" /\ InsertReceive(h)
  BY <1>1, <1>6, ReceivePreserves, Zenon DEF ProcessResult
<1>7. CASE Content[h].type = "open" /\ InsertOpen(h)
  BY <1>1, <1>7, OpenPreserves, Zenon DEF ProcessResult
<1> QED BY <1>2, <1>3, <1>4, <1>5, <1>6, <1>7, Zenon DEF Process

-----------------------------------------------------------------------------
(* What removing the head of a chain preserves                             *)

\* The tables after h, the head of account a, was removed
Removed(h, a) ==
    /\ h \in DOMAIN blocks /\ h # Genesis
    /\ a = blocks[h].account /\ Info(a).head = h
    /\ BlockRemoved(h)
    /\ DOMAIN accounts'[0] \cap DOMAIN accounts'[1] = {}
    /\ Content[h].previous = Zero => ~account_exists(a)'
    /\ Content[h].previous # Zero =>
         /\ account_exists(a)'
         /\ Info(a)'.head = Content[h].previous
         /\ Info(a)'.block_count = Info(a).block_count - 1
         /\ Info(a)'.balance = Balance(Content[h].previous)
    /\ \A x \in Account \ {a} : /\ account_exists(x)' <=> account_exists(x)
                                /\ Info(x)' = Info(x)

\* Nothing sits on a head
LEMMA HeadIsLast ==
    ASSUME BlocksOK, AccountsOK, ChainInv, HeadInv,
           NEW h \in DOMAIN blocks, Info(blocks[h].account).head = h
    PROVE  /\ \A k \in DOMAIN blocks : Content[k].previous # h
           /\ \A k \in DOMAIN blocks : blocks[k].account = blocks[h].account /\ k # h
                                       => blocks[k].height < blocks[h].height
           /\ blocks[h].height = Info(blocks[h].account).block_count
           /\ blocks[h].account \in Account
           /\ account_exists(blocks[h].account)
<1>1. blocks[h].account \in Account /\ \A k \in DOMAIN blocks : blocks[k].height \in Int
  BY Zenon DEF BlocksOK, Sideband
<1>2. /\ account_exists(blocks[h].account)
      /\ blocks[h].height = Info(blocks[h].account).block_count
      /\ \A k \in DOMAIN blocks : blocks[k].account = blocks[h].account
                                  => blocks[k].height <= blocks[h].height
  BY <1>1 DEF HeadInv
<1>3. h # Zero
  BY Zenon DEF BlocksOK
<1> QED BY <1>1, <1>2, <1>3 DEF ChainInv

LEMMA RemoveChain ==
    ASSUME BlocksOK, AccountsOK, ChainInv, HeadInv, NEW h, NEW a, Removed(h, a)
    PROVE  ChainInv' /\ HeadInv'
<1> USE DEF Removed, BlockRemoved
<1>1. /\ \A k \in DOMAIN blocks : Content[k].previous # h
      /\ \A k \in DOMAIN blocks : blocks[k].account = a /\ k # h
                                  => blocks[k].height < blocks[h].height
      /\ blocks[h].height = Info(a).block_count
      /\ a \in Account
  BY HeadIsLast, Zenon
<1>2. \A k \in DOMAIN blocks : blocks[k].height \in Int
  BY Zenon DEF BlocksOK, Sideband
<1>3. ChainInv'
  BY <1>1 DEF ChainInv
<1>4. ASSUME NEW k \in DOMAIN blocks'
      PROVE  /\ account_exists(blocks[k].account)'
             /\ blocks'[k].height <= Info(blocks[k].account)'.block_count
  <2>1. CASE blocks[k].account = a /\ Content[h].previous = Zero
    BY <1>1, <1>2, <2>1 DEF ChainInv
  <2>2. CASE blocks[k].account = a /\ Content[h].previous # Zero
    BY <1>1, <1>2, <2>2
  <2>3. CASE blocks[k].account # a
    <3>1. blocks[k].account \in Account \ {a}
      BY <2>3, Zenon DEF BlocksOK, Sideband
    <3> QED BY <2>3, <3>1 DEF HeadInv
  <2> QED BY <2>1, <2>2, <2>3, Zenon
<1>5. ASSUME NEW x \in Account, account_exists(x)'
      PROVE  /\ Info(x)'.head \in DOMAIN blocks'
             /\ blocks'[Info(x)'.head].account = x
             /\ blocks'[Info(x)'.head].height = Info(x)'.block_count
             /\ blocks'[Info(x)'.head].balance = Info(x)'.balance
  <2>1. CASE x = a
    <3>1. Content[h].previous # Zero
      BY <1>5, <2>1, Zenon
    <3>2. /\ Content[h].previous \in DOMAIN blocks'
          /\ blocks[Content[h].previous].account = a
          /\ blocks[h].height = blocks[Content[h].previous].height + 1
      BY <1>1, <3>1, Zenon DEF ChainInv
    <3> QED BY <1>1, <1>2, <2>1, <3>1, <3>2 DEF Balance
  <2>2. CASE x # a
    <3>1. /\ Info(x).head \in DOMAIN blocks
          /\ blocks[Info(x).head].account = x
          /\ blocks[Info(x).head].height = Info(x).block_count
          /\ blocks[Info(x).head].balance = Info(x).balance
      BY <1>5, <2>2, Zenon DEF HeadInv
    <3>2. Info(x).head # h /\ Info(x)' = Info(x)
      BY <2>2, <3>1, Zenon
    <3> QED BY <3>1, <3>2
  <2> QED BY <2>1, <2>2, Zenon
<1>6. HeadInv'
  BY <1>4, <1>5, Zenon DEF HeadInv
<1> QED BY <1>3, <1>6, Zenon

LEMMA RemoveStable ==
    ASSUME BlocksOK, AccountsOK, ChainInv, HeadInv, NEW h, NEW a, Removed(h, a),
           NEW k \in DOMAIN blocks'
    PROVE  /\ SendBlock(k)' <=> SendBlock(k)
           /\ Received(k)' = Received(k)
<1>1. k \in DOMAIN blocks /\ Content[k].previous # h
  BY HeadIsLast, Zenon DEF Removed, BlockRemoved
<1>2. Content[k].previous = Zero \/ Content[k].previous \in DOMAIN blocks'
  BY <1>1, Zenon DEF ChainInv, Removed, BlockRemoved
<1>3. Balance(Content[k].previous)' = Balance(Content[k].previous)
  BY <1>2, Zenon DEF Balance, Removed, BlockRemoved
<1>4. is_send(k)' <=> is_send(k)
  BY <1>3, Zenon DEF is_send
<1> QED BY <1>4, Zenon DEF SendBlock, Received, block_source, is_epoch_link

LEMMA SendReceivesNothing ==
    ASSUME NEW h, SendBlock(h)
    PROVE  Received(h) = Zero
BY Zenon DEF SendBlock, Received, block_source

\* Undoing a send that is still pending
LEMMA RemoveSend ==
    ASSUME BlocksOK, AccountsOK, PendingOK, ChainInv, HeadInv, PendingInv, NoDoubleReceive,
           NEW h, NEW a, Removed(h, a), SendBlock(h),
           pending_exists(<<Content[h].link, h>>), PendingMinus(<<Content[h].link, h>>)
    PROVE  PendingInv' /\ NoDoubleReceive'
<1>0. /\ DOMAIN blocks' = DOMAIN blocks \ {h} /\ h \in DOMAIN blocks
      /\ \A k \in DOMAIN blocks' : blocks'[k].account = blocks[k].account
      /\ Zero \notin DOMAIN blocks
  BY Zenon DEF Removed, BlockRemoved, BlocksOK
<1>1. \A k \in DOMAIN blocks' : (SendBlock(k)' <=> SendBlock(k)) /\ Received(k)' = Received(k)
  BY RemoveStable, Zenon
<1>2. Received(h) = Zero /\ \A r \in DOMAIN blocks : Received(r) # h
  BY SendReceivesNothing DEF PendingInv, pending_exists
<1>3. ASSUME NEW e \in Epoch, NEW k \in DOMAIN pending'[e]
      PROVE  /\ k[2] \in DOMAIN blocks'
             /\ SendBlock(k[2])'
             /\ k[1] = Content[k[2]].link
             /\ pending'[e][k].source = blocks'[k[2]].account
             /\ \A r \in DOMAIN blocks' : Received(r)' # k[2]
  <2>1. k \in DOMAIN pending[e] /\ k # <<Content[h].link, h>> /\ pending'[e][k] = pending[e][k]
    BY Zenon DEF PendingMinus
  <2>2. /\ k[2] \in DOMAIN blocks
        /\ SendBlock(k[2])
        /\ k[1] = Content[k[2]].link
        /\ pending[e][k].source = blocks[k[2]].account
        /\ \A r \in DOMAIN blocks : Received(r) # k[2]
    BY <2>1 DEF PendingInv
  <2>3. k[2] # h
    BY <2>1, <2>2, PendingKeyIsPair, Zenon
  <2> QED BY <1>0, <1>1, <2>1, <2>2, <2>3
<1>4. ASSUME NEW t \in DOMAIN blocks', SendBlock(t)'
      PROVE  pending_exists(<<Content[t].link, t>>)' \/ \E r \in DOMAIN blocks' : Received(r)' = t
  <2>1. t \in DOMAIN blocks /\ SendBlock(t) /\ t # h
    BY <1>0, <1>1, <1>4, Zenon
  <2>2. pending_exists(<<Content[t].link, t>>) \/ \E r \in DOMAIN blocks : Received(r) = t
    BY <2>1, Zenon DEF PendingInv
  <2> QED BY <1>0, <1>1, <1>2, <2>1, <2>2 DEF PendingMinus
<1>5. ASSUME NEW r \in DOMAIN blocks', Received(r)' # Zero
      PROVE  /\ Received(r)' \in DOMAIN blocks'
             /\ SendBlock(Received(r))'
             /\ Content[Received(r)'].link = blocks'[r].account
  <2>1. /\ Received(r) \in DOMAIN blocks
        /\ SendBlock(Received(r))
        /\ Content[Received(r)].link = blocks[r].account
        /\ Received(r) # h
    BY <1>0, <1>1, <1>2, <1>5, Zenon DEF PendingInv
  <2>2. SendBlock(Received(r))'
    BY <1>0, <1>1, <2>1, Zenon DEF SendBlock, is_send
  <2> QED BY <1>0, <1>1, <2>1, <2>2, Zenon
<1>6. PendingInv'
  BY <1>3, <1>4, <1>5, Zenon DEF PendingInv, PendingMinus
<1>7. NoDoubleReceive'
  BY <1>0, <1>1 DEF NoDoubleReceive
<1> QED BY <1>6, <1>7, Zenon

\* Undoing a receive makes its send pending again
LEMMA RemoveReceive ==
    ASSUME BlocksOK, AccountsOK, PendingOK, ChainInv, HeadInv, PendingInv, NoDoubleReceive,
           NEW h, NEW a, Removed(h, a), NEW s, ~SendBlock(h), Received(h) = s, s # Zero,
           PendingPlus(<<a, s>>, blocks[s].account)
    PROVE  PendingInv' /\ NoDoubleReceive'
<1>0. /\ DOMAIN blocks' = DOMAIN blocks \ {h} /\ h \in DOMAIN blocks
      /\ \A k \in DOMAIN blocks' : blocks'[k].account = blocks[k].account
      /\ Zero \notin DOMAIN blocks
      /\ a = blocks[h].account
  BY Zenon DEF Removed, BlockRemoved, BlocksOK
<1>1. \A k \in DOMAIN blocks' : (SendBlock(k)' <=> SendBlock(k)) /\ Received(k)' = Received(k)
  BY RemoveStable, Zenon
<1>2. /\ s \in DOMAIN blocks' /\ SendBlock(s) /\ Content[s].link = a
      /\ \A r \in DOMAIN blocks' : Received(r) # s
  BY <1>0 DEF PendingInv, NoDoubleReceive
<1>3. \A r \in DOMAIN blocks : Received(r) # h
  BY <1>0 DEF PendingInv
<1>4. ASSUME NEW e \in Epoch, NEW k \in DOMAIN pending'[e]
      PROVE  /\ k[2] \in DOMAIN blocks'
             /\ SendBlock(k[2])'
             /\ k[1] = Content[k[2]].link
             /\ pending'[e][k].source = blocks'[k[2]].account
             /\ \A r \in DOMAIN blocks' : Received(r)' # k[2]
  <2>1. CASE k = <<a, s>> /\ pending'[e][k].source = blocks[s].account
    BY <1>0, <1>1, <1>2, <2>1
  <2>2. CASE k \in DOMAIN pending[e] /\ pending'[e][k] = pending[e][k]
    BY <1>0, <1>1, <2>2 DEF PendingInv
  <2> QED BY <2>1, <2>2, Zenon DEF PendingPlus
<1>5. ASSUME NEW t \in DOMAIN blocks', SendBlock(t)'
      PROVE  pending_exists(<<Content[t].link, t>>)' \/ \E r \in DOMAIN blocks' : Received(r)' = t
  <2>1. CASE t = s
    BY <1>2, <2>1, Zenon DEF PendingPlus
  <2>2. CASE t # s
    <3>1. pending_exists(<<Content[t].link, t>>) \/ \E r \in DOMAIN blocks : Received(r) = t
      BY <1>0, <1>1, <1>5, Zenon DEF PendingInv
    <3> QED BY <1>0, <1>1, <2>2, <3>1 DEF PendingPlus
  <2> QED BY <2>1, <2>2, Zenon
<1>6. ASSUME NEW r \in DOMAIN blocks', Received(r)' # Zero
      PROVE  /\ Received(r)' \in DOMAIN blocks'
             /\ SendBlock(Received(r))'
             /\ Content[Received(r)'].link = blocks'[r].account
  <2>1. /\ Received(r) \in DOMAIN blocks'
        /\ SendBlock(Received(r))
        /\ Content[Received(r)].link = blocks[r].account
    BY <1>0, <1>1, <1>3, <1>6, Zenon DEF PendingInv
  <2>2. SendBlock(Received(r))'
    BY <1>0, <1>1, <2>1, Zenon DEF SendBlock, is_send
  <2> QED BY <1>0, <1>1, <2>1, <2>2, Zenon
<1>7. PendingInv'
  BY <1>4, <1>5, <1>6, Zenon DEF PendingInv, PendingPlus
<1>8. NoDoubleReceive'
  BY <1>0, <1>1 DEF NoDoubleReceive
<1> QED BY <1>7, <1>8, Zenon

\* Undoing a block that neither sends nor receives
LEMMA RemoveNone ==
    ASSUME BlocksOK, AccountsOK, PendingOK, ChainInv, HeadInv, PendingInv, NoDoubleReceive,
           NEW h, NEW a, Removed(h, a), ~SendBlock(h), Received(h) = Zero, pending' = pending
    PROVE  PendingInv' /\ NoDoubleReceive'
<1>0. /\ DOMAIN blocks' = DOMAIN blocks \ {h} /\ h \in DOMAIN blocks
      /\ \A k \in DOMAIN blocks' : blocks'[k].account = blocks[k].account
      /\ Zero \notin DOMAIN blocks
  BY Zenon DEF Removed, BlockRemoved, BlocksOK
<1>1. \A k \in DOMAIN blocks' : (SendBlock(k)' <=> SendBlock(k)) /\ Received(k)' = Received(k)
  BY RemoveStable, Zenon
<1>2. \A r \in DOMAIN blocks : Received(r) # h
  BY <1>0 DEF PendingInv
<1>3. ASSUME NEW e \in Epoch, NEW k \in DOMAIN pending'[e]
      PROVE  /\ k[2] \in DOMAIN blocks'
             /\ SendBlock(k[2])'
             /\ k[1] = Content[k[2]].link
             /\ pending'[e][k].source = blocks'[k[2]].account
             /\ \A r \in DOMAIN blocks' : Received(r)' # k[2]
  BY <1>0, <1>1 DEF PendingInv
<1>4. ASSUME NEW t \in DOMAIN blocks', SendBlock(t)'
      PROVE  pending_exists(<<Content[t].link, t>>)' \/ \E r \in DOMAIN blocks' : Received(r)' = t
  <2>1. pending_exists(<<Content[t].link, t>>) \/ \E r \in DOMAIN blocks : Received(r) = t
    BY <1>0, <1>1, <1>4, Zenon DEF PendingInv
  <2> QED BY <1>0, <1>1, <2>1 DEF pending_exists
<1>5. ASSUME NEW r \in DOMAIN blocks', Received(r)' # Zero
      PROVE  /\ Received(r)' \in DOMAIN blocks'
             /\ SendBlock(Received(r))'
             /\ Content[Received(r)'].link = blocks'[r].account
  <2>1. /\ Received(r) \in DOMAIN blocks'
        /\ SendBlock(Received(r))
        /\ Content[Received(r)].link = blocks[r].account
    BY <1>0, <1>1, <1>2, <1>5, Zenon DEF PendingInv
  <2>2. SendBlock(Received(r))'
    BY <1>0, <1>1, <2>1, Zenon DEF SendBlock, is_send
  <2> QED BY <1>0, <1>1, <2>1, <2>2, Zenon
<1>6. PendingInv'
  BY <1>3, <1>4, <1>5, Zenon DEF PendingInv
<1>7. NoDoubleReceive'
  BY <1>0, <1>1 DEF NoDoubleReceive
<1> QED BY <1>6, <1>7, Zenon

\* The block that is visited next is a head, and not the genesis block
LEMMA RollbackHeadFacts ==
    ASSUME IInv, rolling # <<>>, Exists(Head(rolling))
    PROVE  LET h == RollbackHead
           IN /\ h \in DOMAIN blocks /\ h # Genesis /\ h \in Hash
              /\ blocks[h].account \in Account
              /\ Info(blocks[h].account).head = h
<1> DEFINE g == Head(rolling)
           a == blocks[g].account
           h == Info(a).head
<1>0. BlocksOK /\ AccountsOK /\ ChainInv /\ HeadInv /\ rolling \in Seq(Hash)
  BY TypeParts, Zenon DEF IInv
<1>1. g \in DOMAIN blocks /\ g # Genesis
  BY <1>0 DEF IInv, RollingInv, Exists
<1>2. a \in Account /\ account_exists(a) /\ h \in DOMAIN blocks /\ blocks[h].account = a
  BY <1>0, <1>1, Zenon DEF HeadInv, BlocksOK, Sideband
<1>3. h \in Hash
  BY <1>0, <1>2, Zenon DEF BlocksOK
<1>4. h # Genesis
  <2>1. g # h => blocks[g].height < blocks[h].height
    BY <1>0, <1>1, <1>2, HeadIsLast, Zenon
  <2>2. blocks[g].height >= 1 /\ blocks[Genesis].height = 1 /\ blocks[g].height \in Int
    BY <1>0, <1>1, Zenon DEF ChainInv, BlocksOK, Sideband
  <2> QED BY <1>1, <2>1, <2>2
<1>5. RollbackHead = h
  BY Zenon DEF RollbackHead, Latest, AccountOf
<1> QED BY <1>2, <1>3, <1>4, <1>5, Zenon

\* block_del and change_latest to the block before remove the head
LEMMA DelIsRemoved ==
    ASSUME IInv, NEW h \in DOMAIN blocks, h # Genesis,
           NEW a \in Account, a = blocks[h].account, Info(a).head = h,
           NEW rep_block \in HashOrZero, NEW epoch \in Epoch,
           NEW balance, Content[h].previous # Zero => balance = Balance(Content[h].previous),
           NEW count, Content[h].previous # Zero => count = Info(a).block_count - 1,
           blocks' = block_del(h),
           accounts' = change_latest(a, Content[h].previous, rep_block, balance, count, epoch)
    PROVE  /\ BlocksOK' /\ AccountsOK'
           /\ Removed(h, a)
           /\ ChainInv' /\ HeadInv'
<1> DEFINE p == Content[h].previous
<1>0. BlocksOK /\ AccountsOK /\ ChainInv /\ HeadInv
  BY TypeParts, Zenon DEF IInv
<1>1. BlocksOK' /\ BlockRemoved(h)
  BY <1>0, BlockDel, Zenon
<1>2. DOMAIN accounts[0] \cap DOMAIN accounts[1] = {}
  BY <1>0, Zenon DEF HeadInv
<1>3. CASE p = Zero
  <2>1. /\ AccountsOK'
        /\ DOMAIN accounts'[0] \cap DOMAIN accounts'[1] = {}
        /\ ~account_exists(a)'
        /\ \A x \in Account \ {a} : (account_exists(x)' <=> account_exists(x)) /\ Info(x)' = Info(x)
    BY <1>0, <1>2, <1>3, ChangeLatestZero, Zenon
  <2>2. Removed(h, a)
    BY <1>1, <1>3, <2>1, Zenon DEF Removed
  <2> QED BY <1>0, <1>1, <2>1, <2>2, RemoveChain, Zenon
<1>4. CASE p # Zero
  <2>1. p \in DOMAIN blocks /\ p \in Hash
    BY <1>0, <1>4, Zenon DEF ChainInv, BlocksOK
  <2>2. balance \in Amount /\ count \in Int /\ a \in Account
    BY <1>0, <1>4, <2>1, BalanceType, InfoType DEF AccountInfo
  <2> HIDE DEF p
  <2>3. /\ AccountsOK'
        /\ DOMAIN accounts'[0] \cap DOMAIN accounts'[1] = {}
        /\ account_exists(a)'
        /\ Info(a)'.head = p
        /\ Info(a)'.block_count = count
        /\ Info(a)'.balance = balance
        /\ \A x \in Account \ {a} : (account_exists(x)' <=> account_exists(x)) /\ Info(x)' = Info(x)
    <3>1. /\ rep_block \in HashOrZero /\ epoch \in Epoch
          /\ accounts' = change_latest(a, p, rep_block, balance, count, epoch)
      BY Zenon DEF p
    <3> QED BY ONLY <1>0, <1>2, <2>1, <2>2, <3>1, ChangeLatestPut, Zenon
  <2>4. Removed(h, a)
    BY <1>1, <1>4, <2>3, Zenon DEF Removed, p
  <2> QED BY <1>0, <1>1, <2>3, <2>4, RemoveChain, Zenon
<1> QED BY <1>3, <1>4, Zenon

LEMMA RemoveLegacy ==
    ASSUME BlocksOK, AccountsOK, ChainInv, HeadInv, LegacyInv,
           NEW h, NEW a, Removed(h, a),
           \A k \in DOMAIN frontiers' :
               \/ /\ k = Content[h].previous /\ k # Zero
                  /\ Content[k].type \in LegacyType /\ frontiers'[k] = a
               \/ k \in DOMAIN frontiers /\ k # h /\ frontiers'[k] = frontiers[k]
    PROVE  LegacyInv'
<1>0. /\ DOMAIN blocks' = DOMAIN blocks \ {h} /\ h \in DOMAIN blocks
      /\ \A k \in DOMAIN blocks' : /\ blocks'[k].account = blocks[k].account
                                   /\ blocks'[k].balance = blocks[k].balance
      /\ Content[h].previous # Zero => Info(a)'.head = Content[h].previous
      /\ a = blocks[h].account /\ Info(a).head = h
      /\ \A x \in Account \ {a} : Info(x)' = Info(x)
      /\ \A k \in DOMAIN blocks : blocks[k].account \in Account
  BY Zenon DEF Removed, BlockRemoved, BlocksOK, Sideband
<1>1. \A k \in DOMAIN blocks' : Content[k].previous = Zero \/ Content[k].previous \in DOMAIN blocks'
  BY <1>0, HeadIsLast DEF ChainInv
<1>2. Content[h].previous # Zero => /\ Content[h].previous \in DOMAIN blocks'
                                    /\ blocks[Content[h].previous].account = a
  BY <1>0, HeadIsLast DEF ChainInv
<1>3. ASSUME NEW k \in DOMAIN frontiers'
      PROVE  /\ k \in DOMAIN blocks'
             /\ Content[k].type \in LegacyType
             /\ frontiers'[k] = blocks'[k].account
             /\ Info(blocks[k].account)'.head = k
  <2>1. CASE /\ k = Content[h].previous /\ k # Zero
             /\ Content[k].type \in LegacyType /\ frontiers'[k] = a
    BY <1>0, <1>2, <2>1, Zenon
  <2>2. CASE k \in DOMAIN frontiers /\ k # h /\ frontiers'[k] = frontiers[k]
    <3>1. /\ k \in DOMAIN blocks /\ Content[k].type \in LegacyType
          /\ frontiers[k] = blocks[k].account /\ Info(blocks[k].account).head = k
      BY <2>2, Zenon DEF LegacyInv
    <3>2. blocks[k].account # a
      BY <1>0, <2>2, <3>1, Zenon
    <3> QED BY <1>0, <2>2, <3>1, <3>2
  <2> QED BY <2>1, <2>2, Zenon
<1> QED BY <1>0, <1>1, <1>3 DEF LegacyInv

LEMMA RepBlockType ==
    ASSUME NEW h \in HashOrZero
    PROVE  RepBlock[h] \in HashOrZero
BY RepBlockAssumption, Zenon

LEMMA RollbackSendPreserves ==
    ASSUME IInv, NEW h \in DOMAIN blocks, h \in Hash, h # Genesis,
           blocks[h].account \in Account, Info(blocks[h].account).head = h,
           Content[h].type = "send", ~ReceivedByDestination(h), RollbackSend(h), rolling' = rolling
    PROVE  IInv'
<1> DEFINE p == Content[h].previous
           a == blocks[h].account
           key == <<Content[h].link, h>>
           amount == pending_get(key).amount
<1>0. BlocksOK /\ AccountsOK /\ PendingOK /\ FrontiersOK /\ representation \in [Key -> Amount]
      /\ ChainInv /\ HeadInv /\ LegacyInv /\ PendingInv /\ NoDoubleReceive
  BY TypeParts, Zenon DEF IInv
<1>1. pending_exists(key) /\ SendBlock(h)
  BY Zenon DEF ReceivedByDestination, SendBlock
<1>2. pending_get(key).source = a /\ amount \in Amount
  <2>1. /\ pending_get(key) \in PendingInfo
        /\ PendingEpoch(key) \in Epoch
        /\ key \in DOMAIN pending[PendingEpoch(key)]
        /\ pending_get(key) = pending[PendingEpoch(key)][key]
        /\ key[2] = h
    BY <1>0, <1>1, PendingGet, Zenon
  <2> HIDE DEF key
  <2>2. amount \in Amount
    BY ONLY <2>1, Zenon DEF PendingInfo
  <2> QED BY ONLY <1>0, <2>1, <2>2 DEF PendingInv
<1>3. /\ p # Zero /\ p \in DOMAIN blocks /\ p \in Hash /\ Content[p].type \in LegacyType
      /\ Info(a).rep_block \in HashOrZero
  BY <1>0, InfoType, Zenon DEF LegacyInv, ChainInv, BlocksOK, AccountInfo
<1>4. BlocksOK' /\ AccountsOK' /\ Removed(h, a) /\ ChainInv' /\ HeadInv'
  <2>1. /\ blocks' = block_del(h)
        /\ accounts' = change_latest(a, p, Info(a).rep_block, Balance(p), Info(a).block_count - 1, 0)
    BY <1>2, Zenon DEF RollbackSend
  <2> QED BY <1>3, <2>1, DelIsRemoved, Zenon
<1>5. representation' \in [Key -> Amount]
  <2>1. amount \in Int
    BY <1>2 DEF Amount
  <2> QED BY <1>0, <2>1, WeightType, Zenon DEF RollbackSend
<1>6. FrontiersOK' /\ LegacyInv'
  <2>0. FrontiersOK /\ p \in Hash /\ a \in Account
    BY <1>0, <1>3, Zenon
  <2>1. frontiers' = MoveFrontier(h, p, a)
    BY <1>2, Zenon DEF RollbackSend
  <2>2. /\ FrontiersOK'
        /\ DOMAIN frontiers' = (DOMAIN frontiers \ {h}) \cup {p}
        /\ frontiers'[p] = a
        /\ \A k \in DOMAIN frontiers' \ {p} : frontiers'[k] = frontiers[k]
    BY ONLY <2>0, <2>1, MoveFrontierFacts, Zenon
  <2>3. \A k \in DOMAIN frontiers' :
           \/ /\ k = Content[h].previous /\ k # Zero
              /\ Content[k].type \in LegacyType /\ frontiers'[k] = a
           \/ k \in DOMAIN frontiers /\ k # h /\ frontiers'[k] = frontiers[k]
    BY ONLY <1>3, <2>2, Zenon
  <2> QED BY <1>0, <1>4, <2>2, <2>3, RemoveLegacy
<1>7. PendingOK' /\ PendingInv' /\ NoDoubleReceive'
  <2>1. DOMAIN pending[0] \cap DOMAIN pending[1] = {} /\ pending' = pending_del(key)
    BY <1>0, Zenon DEF PendingInv, RollbackSend
  <2>2. PendingOK' /\ PendingMinus(key)
    BY <1>0, <2>1, PendingDel, Zenon
  <2> QED BY <1>0, <1>1, <1>4, <2>2, RemoveSend, Zenon
<1> QED BY <1>4, <1>5, <1>6, <1>7, IInvParts, Zenon

\* Undoing a receive or an open: the source is in the ledger and not pending
LEMMA SourceFacts ==
    ASSUME IInv, NEW h \in DOMAIN blocks, NEW s, Received(h) = s, s # Zero
    PROVE  /\ s \in DOMAIN blocks
           /\ <<blocks[h].account, s>> \in Link \X Hash
           /\ ~pending_exists(<<blocks[h].account, s>>)
           /\ blocks[s].account \in Account
           /\ AmountOf(s) \in Amount
           /\ block_version(s) \in Epoch
<1>0. BlocksOK /\ ChainInv /\ PendingInv
  BY TypeParts, Zenon DEF IInv
<1>1. s \in DOMAIN blocks /\ s \in Hash /\ blocks[h].account \in Account /\ blocks[s].account \in Account
  BY <1>0, Zenon DEF PendingInv, BlocksOK, Sideband
<1>2. ~pending_exists(<<blocks[h].account, s>>)
  BY <1>0, Zenon DEF PendingInv, pending_exists
<1>3. Balance(s) \in Amount /\ Balance(Content[s].previous) \in Amount
  BY <1>0, <1>1, BalanceType, Zenon DEF ChainInv
<1>4. AmountOf(s) \in Amount
  BY <1>3 DEF AmountOf, Amount
<1>5. block_version(s) \in Epoch
  BY <1>0, <1>1, Zenon DEF block_version, Exists, BlocksOK, Sideband
<1> QED BY <1>1, <1>2, <1>4, <1>5, Zenon DEF Link

LEMMA RollbackReceivePreserves ==
    ASSUME IInv, NEW h \in DOMAIN blocks, h \in Hash, h # Genesis,
           blocks[h].account \in Account, Info(blocks[h].account).head = h,
           Content[h].type = "receive", RollbackReceive(h), rolling' = rolling
    PROVE  IInv'
<1> DEFINE p == Content[h].previous
           a == blocks[h].account
           s == Content[h].link
           amount == AmountOf(s)
<1>0. BlocksOK /\ AccountsOK /\ PendingOK /\ FrontiersOK /\ representation \in [Key -> Amount]
      /\ ChainInv /\ HeadInv /\ LegacyInv /\ PendingInv /\ NoDoubleReceive
  BY TypeParts, Zenon DEF IInv
<1>1. s \in Hash /\ s # Zero /\ Received(h) = s /\ ~SendBlock(h)
  BY <1>0 DEF LegacyInv, Received, block_source, is_epoch_link, SendBlock
<1>2. /\ s \in DOMAIN blocks /\ <<a, s>> \in Link \X Hash /\ ~pending_exists(<<a, s>>)
      /\ blocks[s].account \in Account /\ amount \in Amount
  BY <1>1, SourceFacts, Zenon
<1>3. p # Zero /\ p \in DOMAIN blocks /\ p \in Hash /\ Content[p].type \in LegacyType
  BY <1>0, Zenon DEF LegacyInv, ChainInv, BlocksOK
<1>4. BlocksOK' /\ AccountsOK' /\ Removed(h, a) /\ ChainInv' /\ HeadInv'
  <2>1. /\ blocks' = block_del(h)
        /\ accounts' = change_latest(a, p, RepBlock[p], Balance(p), Info(a).block_count - 1, 0)
    BY Zenon DEF RollbackReceive, AccountOf
  <2>2. RepBlock[p] \in HashOrZero
    BY <1>3, RepBlockType, Zenon DEF HashOrZero
  <2> QED BY <2>1, <2>2, DelIsRemoved, Zenon
<1>5. representation' \in [Key -> Amount]
  <2>1. -amount \in Int
    BY <1>2 DEF Amount
  <2> QED BY <1>0, <2>1, WeightType, Zenon DEF RollbackReceive
<1>6. FrontiersOK' /\ LegacyInv'
  <2>0. FrontiersOK /\ p \in Hash /\ a \in Account
    BY <1>0, <1>3, Zenon
  <2>1. frontiers' = MoveFrontier(h, p, a)
    BY Zenon DEF RollbackReceive, AccountOf
  <2>2. /\ FrontiersOK'
        /\ DOMAIN frontiers' = (DOMAIN frontiers \ {h}) \cup {p}
        /\ frontiers'[p] = a
        /\ \A k \in DOMAIN frontiers' \ {p} : frontiers'[k] = frontiers[k]
    BY ONLY <2>0, <2>1, MoveFrontierFacts, Zenon
  <2>3. \A k \in DOMAIN frontiers' :
           \/ /\ k = Content[h].previous /\ k # Zero
              /\ Content[k].type \in LegacyType /\ frontiers'[k] = a
           \/ k \in DOMAIN frontiers /\ k # h /\ frontiers'[k] = frontiers[k]
    BY ONLY <1>3, <2>2, Zenon
  <2> QED BY <1>0, <1>4, <2>2, <2>3, RemoveLegacy, Zenon
<1>7. PendingOK' /\ PendingInv' /\ NoDoubleReceive'
  <2>1. /\ DOMAIN pending[0] \cap DOMAIN pending[1] = {}
        /\ pending' = pending_put(<<a, s>>, [source |-> blocks[s].account, amount |-> amount], 0)
    BY <1>0, Zenon DEF PendingInv, RollbackReceive, AccountOf
  <2> HIDE DEF amount
  <2>2. PendingOK' /\ PendingPlus(<<a, s>>, blocks[s].account)
    BY <1>0, <1>2, <2>1, PendingPut, Zenon
  <2> QED BY <1>0, <1>1, <1>4, <2>2, RemoveReceive, Zenon
<1> QED BY <1>4, <1>5, <1>6, <1>7, IInvParts, Zenon
-----------------------------------------------------------------------------
(* Opens, changes and state blocks; the steps of a rollback                *)

LEMMA RollbackOpenPreserves ==
    ASSUME IInv, NEW h \in DOMAIN blocks, h \in Hash, h # Genesis,
           blocks[h].account \in Account, Info(blocks[h].account).head = h,
           Content[h].type = "open", RollbackOpen(h), rolling' = rolling
    PROVE  IInv'
<1> DEFINE a == blocks[h].account
           s == Content[h].link
           amount == AmountOf(s)
<1>0. BlocksOK /\ AccountsOK /\ PendingOK /\ FrontiersOK /\ representation \in [Key -> Amount]
      /\ ChainInv /\ HeadInv /\ LegacyInv /\ PendingInv /\ NoDoubleReceive
  BY TypeParts, Zenon DEF IInv
<1>1. s \in Hash /\ s # Zero /\ Received(h) = s /\ ~SendBlock(h) /\ Content[h].previous = Zero
  BY <1>0 DEF LegacyInv, Received, block_source, is_epoch_link, SendBlock
<1>2. /\ s \in DOMAIN blocks /\ <<a, s>> \in Link \X Hash /\ ~pending_exists(<<a, s>>)
      /\ blocks[s].account \in Account /\ amount \in Amount
  BY <1>1, SourceFacts, Zenon
<1>3. BlocksOK' /\ AccountsOK' /\ Removed(h, a) /\ ChainInv' /\ HeadInv'
  <2>1. /\ blocks' = block_del(h)
        /\ accounts' = change_latest(a, Content[h].previous, Zero, 0, 0, 0)
        /\ Zero \in HashOrZero
    BY <1>1, Zenon DEF RollbackOpen, AccountOf, HashOrZero
  <2> QED BY <1>1, <2>1, DelIsRemoved, Zenon
<1>4. representation' \in [Key -> Amount]
  <2>1. -amount \in Int
    BY <1>2 DEF Amount
  <2> QED BY <1>0, <2>1, WeightType, Zenon DEF RollbackOpen
<1>5. FrontiersOK' /\ LegacyInv'
  <2>1. frontiers' = Del(frontiers, h)
    BY Zenon DEF RollbackOpen
  <2>2. /\ FrontiersOK'
        /\ DOMAIN frontiers' = DOMAIN frontiers \ {h}
        /\ \A k \in DOMAIN frontiers' : frontiers'[k] = frontiers[k]
    BY <1>0, <2>1, DelFrontier, Zenon
  <2> QED BY <1>0, <1>3, <2>2, RemoveLegacy
<1>6. PendingOK' /\ PendingInv' /\ NoDoubleReceive'
  <2>1. /\ DOMAIN pending[0] \cap DOMAIN pending[1] = {}
        /\ pending' = pending_put(<<a, s>>, [source |-> blocks[s].account, amount |-> amount], 0)
    BY <1>0, Zenon DEF PendingInv, RollbackOpen, AccountOf
  <2> HIDE DEF amount
  <2>2. PendingOK' /\ PendingPlus(<<a, s>>, blocks[s].account)
    BY <1>0, <1>2, <2>1, PendingPut, Zenon
  <2> QED BY <1>0, <1>1, <1>3, <2>2, RemoveReceive, Zenon
<1> QED BY <1>3, <1>4, <1>5, <1>6, IInvParts, Zenon

LEMMA RollbackChangePreserves ==
    ASSUME IInv, NEW h \in DOMAIN blocks, h \in Hash, h # Genesis,
           blocks[h].account \in Account, Info(blocks[h].account).head = h,
           Content[h].type = "change", RollbackChange(h), rolling' = rolling
    PROVE  IInv'
<1> DEFINE p == Content[h].previous
           a == blocks[h].account
<1>0. BlocksOK /\ AccountsOK /\ PendingOK /\ FrontiersOK /\ representation \in [Key -> Amount]
      /\ ChainInv /\ HeadInv /\ LegacyInv /\ PendingInv /\ NoDoubleReceive
  BY TypeParts, Zenon DEF IInv
<1>1. /\ p # Zero /\ p \in DOMAIN blocks /\ p \in Hash /\ Content[p].type \in LegacyType
      /\ blocks[p].account = a
  BY <1>0 DEF LegacyInv, ChainInv, BlocksOK
<1>2. Info(a).balance = Balance(p)
  BY <1>0, <1>1 DEF LegacyInv, HeadInv, Balance
<1>3. BlocksOK' /\ AccountsOK' /\ Removed(h, a) /\ ChainInv' /\ HeadInv'
  <2>1. /\ blocks' = block_del(h)
        /\ accounts' = change_latest(a, p, RepBlock[p], Balance(p), Info(a).block_count - 1, 0)
    BY <1>1, <1>2, Zenon DEF RollbackChange, AccountOf
  <2>2. RepBlock[p] \in HashOrZero
    BY <1>1, RepBlockType, Zenon DEF HashOrZero
  <2> QED BY <2>1, <2>2, DelIsRemoved, Zenon
<1>4. representation' \in [Key -> Amount]
  <2>1. Balance(p) \in Int
    BY <1>0, <1>1, BalanceType DEF Amount
  <2> QED BY <1>0, <2>1, MoveWeightType, Zenon DEF RollbackChange
<1>5. FrontiersOK' /\ LegacyInv'
  <2>0. FrontiersOK /\ p \in Hash /\ a \in Account
    BY <1>0, <1>1, Zenon
  <2>1. frontiers' = MoveFrontier(h, p, a)
    BY <1>1, Zenon DEF RollbackChange, AccountOf
  <2>2. /\ FrontiersOK'
        /\ DOMAIN frontiers' = (DOMAIN frontiers \ {h}) \cup {p}
        /\ frontiers'[p] = a
        /\ \A k \in DOMAIN frontiers' \ {p} : frontiers'[k] = frontiers[k]
    BY ONLY <2>0, <2>1, MoveFrontierFacts, Zenon
  <2>3. \A k \in DOMAIN frontiers' :
           \/ /\ k = Content[h].previous /\ k # Zero
              /\ Content[k].type \in LegacyType /\ frontiers'[k] = a
           \/ k \in DOMAIN frontiers /\ k # h /\ frontiers'[k] = frontiers[k]
    BY ONLY <1>1, <2>2, Zenon
  <2> QED BY <1>0, <1>3, <2>2, <2>3, RemoveLegacy, Zenon
<1>6. PendingOK' /\ PendingInv' /\ NoDoubleReceive'
  <2>1. pending' = pending
    BY Zenon DEF RollbackChange
  <2>2. ~SendBlock(h) /\ Received(h) = Zero
    BY Zenon DEF SendBlock, Received, block_source, is_epoch_link
  <2> QED BY <1>0, <1>3, <2>1, <2>2, RemoveNone, Zenon DEF PendingOK
<1> QED BY <1>3, <1>4, <1>5, <1>6, IInvParts, Zenon

LEMMA RollbackStatePreserves ==
    ASSUME IInv, NEW h \in DOMAIN blocks, h \in Hash, h # Genesis,
           blocks[h].account \in Account, Info(blocks[h].account).head = h,
           Content[h].type = "state", ~ReceivedByDestination(h), RollbackState(h), rolling' = rolling
    PROVE  IInv'
<1> DEFINE p == Content[h].previous
           a == blocks[h].account
           s == Content[h].link
           before == Balance(p)
           balance == Content[h].balance
<1>0. BlocksOK /\ AccountsOK /\ PendingOK /\ FrontiersOK /\ representation \in [Key -> Amount]
      /\ ChainInv /\ HeadInv /\ LegacyInv /\ PendingInv /\ NoDoubleReceive
  BY TypeParts, Zenon DEF IInv
<1>1. Content[h].account = a
  BY <1>0, OwnerAssumption DEF ChainInv
<1>2. p = Zero \/ (p \in DOMAIN blocks /\ p \in Hash)
  BY <1>0, Zenon DEF ChainInv, BlocksOK
<1>3. before \in Amount /\ balance \in Amount
  BY <1>0, <1>2, BalanceType, Zenon DEF Block
<1>4. BlocksOK' /\ AccountsOK' /\ Removed(h, a) /\ ChainInv' /\ HeadInv'
  <2>1. /\ blocks' = block_del(h)
        /\ accounts' = change_latest(a, p, RepBlock[p], before, Info(a).block_count - 1, block_version(p))
    BY <1>1, Zenon DEF RollbackState
  <2>2. RepBlock[p] \in HashOrZero
    BY <1>2, RepBlockType, Zenon DEF HashOrZero
  <2>3. block_version(p) \in Epoch
    BY <1>0, <1>2, Zenon DEF block_version, Exists, BlocksOK, Sideband
  <2> QED BY <2>1, <2>2, <2>3, DelIsRemoved, Zenon
<1>5. representation' \in [Key -> Amount]
  <2>1. balance \in Int /\ before \in Int /\ -balance \in Int
    BY <1>3 DEF Amount
  <2>2. \/ representation' = representation_add(representation, h, -balance)
        \/ representation' = MoveWeight(h, balance, RepBlock[p], before)
    BY Zenon DEF RollbackState
  <2>3. representation_add(representation, h, -balance) \in [Key -> Amount]
    BY <1>0, <2>1, WeightType, Zenon
  <2>4. MoveWeight(h, balance, RepBlock[p], before) \in [Key -> Amount]
    BY <1>0, <2>1, MoveWeightType, Zenon
  <2> QED BY <2>2, <2>3, <2>4, Zenon
<1>6. FrontiersOK' /\ LegacyInv'
  <2>1. h \notin DOMAIN frontiers
    BY <1>0, Zenon DEF LegacyInv, LegacyType
  <2>2. CASE Exists(p) /\ Content[p].type \in LegacyType
    <3>1. p \in Hash /\ p # Zero
      BY <1>0, <2>2, Zenon DEF Exists, BlocksOK
    <3>2. /\ FrontiersOK'
          /\ DOMAIN frontiers' = DOMAIN frontiers \cup {p}
          /\ frontiers'[p] = a
          /\ \A k \in DOMAIN frontiers' \ {p} : frontiers'[k] = frontiers[k]
      BY <1>0, <1>1, <2>2, <3>1, Zenon DEF RollbackState, Put, FrontiersOK
    <3> QED BY <1>0, <1>4, <2>1, <2>2, <3>1, <3>2, RemoveLegacy
  <2>3. CASE ~(Exists(p) /\ Content[p].type \in LegacyType)
    <3>1. frontiers' = frontiers
      BY <2>3, Zenon DEF RollbackState
    <3> QED BY <1>0, <1>4, <2>1, <3>1, RemoveLegacy DEF FrontiersOK
  <2> QED BY <2>2, <2>3, Zenon
<1>7. DOMAIN pending[0] \cap DOMAIN pending[1] = {}
  BY <1>0, Zenon DEF PendingInv
<1>8. CASE is_send(h)
  <2>1. SendBlock(h) /\ pending_exists(<<s, h>>) /\ pending' = pending_del(<<s, h>>)
    BY <1>8, Zenon DEF SendBlock, ReceivedByDestination, RollbackState
  <2>2. PendingOK' /\ PendingMinus(<<s, h>>)
    BY <1>0, <1>7, <2>1, PendingDel, Zenon
  <2>3. PendingInv' /\ NoDoubleReceive'
    BY <1>0, <1>4, <2>1, <2>2, RemoveSend, Zenon
  <2> QED BY <1>4, <1>5, <1>6, <2>2, <2>3, IInvParts, Zenon
<1>9. CASE ~is_send(h) /\ (s = Zero \/ is_epoch_link(s))
  <2>1. ~SendBlock(h) /\ Received(h) = Zero /\ pending' = pending
    BY <1>9, Zenon DEF SendBlock, Received, block_source, RollbackState
  <2>2. PendingInv' /\ NoDoubleReceive'
    BY <1>0, <1>4, <2>1, RemoveNone, Zenon
  <2>3. PendingOK'
    BY <1>0, <2>1, Zenon DEF PendingOK
  <2> QED BY <1>4, <1>5, <1>6, <2>2, <2>3, IInvParts, Zenon
<1>10. CASE ~is_send(h) /\ s # Zero /\ ~is_epoch_link(s)
  <2>1. ~SendBlock(h) /\ Received(h) = s
    BY <1>10, Zenon DEF SendBlock, Received, block_source
  <2>2. /\ s \in DOMAIN blocks /\ <<a, s>> \in Link \X Hash /\ ~pending_exists(<<a, s>>)
        /\ blocks[s].account \in Account /\ block_version(s) \in Epoch
    BY <1>10, <2>1, SourceFacts, Zenon
  <2>3. balance - before \in Amount
    <3>1. p = Zero => before = 0
      BY Zenon DEF Balance
    <3>2. p # Zero => ~(balance < before)
      BY <1>10, Zenon DEF is_send
    <3> QED BY <1>3, <3>1, <3>2 DEF Amount
  <2>4. pending' = pending_put(<<a, s>>, [source |-> blocks[s].account, amount |-> balance - before],
                               block_version(s))
    BY <1>1, <1>10, Zenon DEF RollbackState, AccountOf
  <2>5. PendingOK' /\ PendingPlus(<<a, s>>, blocks[s].account)
    BY <1>0, <1>7, <2>2, <2>3, <2>4, PendingPut, Zenon
  <2>6. PendingInv' /\ NoDoubleReceive'
    BY <1>0, <1>4, <1>10, <2>1, <2>5, RemoveReceive, Zenon
  <2> QED BY <1>4, <1>5, <1>6, <2>5, <2>6, IInvParts, Zenon
<1> QED BY <1>8, <1>9, <1>10, Zenon

LEMMA VisitPreserves ==
    ASSUME IInv, RollbackVisit
    PROVE  IInv'
<1> DEFINE h == RollbackHead
<1>1. /\ h \in DOMAIN blocks /\ h \in Hash /\ h # Genesis
      /\ blocks[h].account \in Account /\ Info(blocks[h].account).head = h
      /\ ~ReceivedByDestination(h) /\ rolling' = rolling
  BY RollbackHeadFacts, Zenon DEF RollbackVisit
<1>2. CASE Content[h].type = "send" /\ RollbackSend(h)
  BY <1>1, <1>2, RollbackSendPreserves, Zenon
<1>3. CASE Content[h].type = "receive" /\ RollbackReceive(h)
  BY <1>1, <1>3, RollbackReceivePreserves, Zenon
<1>4. CASE Content[h].type = "open" /\ RollbackOpen(h)
  BY <1>1, <1>4, RollbackOpenPreserves, Zenon
<1>5. CASE Content[h].type = "change" /\ RollbackChange(h)
  BY <1>1, <1>5, RollbackChangePreserves, Zenon
<1>6. CASE Content[h].type = "state" /\ RollbackState(h)
  BY <1>1, <1>6, RollbackStatePreserves, Zenon
<1> QED BY <1>2, <1>3, <1>4, <1>5, <1>6, Zenon DEF RollbackVisit

\* The destination of a received send has a head to roll back
LEMMA DestinationPreserves ==
    ASSUME IInv, RollbackDestination
    PROVE  IInv'
<1> DEFINE h == RollbackHead
           d == Content[h].link
           g == Latest(d)
<1>0. BlocksOK /\ AccountsOK /\ ChainInv /\ HeadInv /\ PendingInv /\ rolling \in Seq(Hash) /\ RollingInv
  BY TypeParts, Zenon DEF IInv
<1>1. h \in DOMAIN blocks /\ SendBlock(h) /\ ~pending_exists(<<d, h>>) /\ h # Zero
  BY <1>0, RollbackHeadFacts, Zenon DEF RollbackDestination, ReceivedByDestination, SendBlock, BlocksOK
<1>2. PICK r \in DOMAIN blocks : Received(r) = h
  BY <1>0, <1>1, Zenon DEF PendingInv
<1>3. blocks[r].account = d /\ d \in Account /\ r # Genesis
  BY <1>0, <1>1, <1>2, Zenon DEF PendingInv, BlocksOK, Sideband, Received
<1>4. g \in DOMAIN blocks /\ blocks[g].account = d /\ g \in Hash /\ Info(d).head = g
  BY <1>0, <1>2, <1>3, Zenon DEF HeadInv, Latest, BlocksOK
<1>5. g # Genesis
  <2>1. r # g => blocks[r].height < blocks[g].height
    BY <1>0, <1>2, <1>3, <1>4, HeadIsLast, Zenon
  <2>2. blocks[r].height >= 1 /\ blocks[Genesis].height = 1 /\ blocks[r].height \in Int
    BY <1>0, <1>2, Zenon DEF ChainInv, BlocksOK, Sideband
  <2> QED BY <1>3, <2>1, <2>2
<1>6. rolling' = <<g>> \o rolling
  BY Zenon DEF RollbackDestination
<1> HIDE DEF g
<1>7. rolling' \in Seq(Hash) /\ RollingInv'
  BY <1>0, <1>4, <1>5, <1>6 DEF RollingInv
<1> QED BY <1>7, StackPreserves, Zenon DEF RollbackDestination

LEMMA NextIInv == IInv /\ [Next]_vars => IInv'
<1> SUFFICES ASSUME IInv, [Next]_vars PROVE IInv'
  BY Zenon
<1>0. rolling \in Seq(Hash) /\ RollingInv
  BY Zenon DEF IInv, TypeOK
<1>1. CASE \E h \in Hash : \E v \in Verifications(h) : Process(h, v)
  BY <1>1, ProcessPreserves, Zenon
<1>2. ASSUME NEW h \in Hash, Rollback(h)
      PROVE  IInv'
  <2>1. rolling' = <<h>> /\ h # Genesis
    BY <1>2, Zenon DEF Rollback
  <2>2. rolling' \in Seq(Hash) /\ RollingInv'
    BY <2>1 DEF RollingInv
  <2> QED BY <1>2, <2>2, StackPreserves, Zenon DEF Rollback
<1>3. CASE RollbackDestination
  BY <1>3, DestinationPreserves, Zenon
<1>4. CASE RollbackVisit
  BY <1>4, VisitPreserves, Zenon
<1>5. CASE RollbackReturn
  <2>1. rolling' = Tail(rolling) /\ rolling # <<>>
    BY <1>5, Zenon DEF RollbackReturn
  <2>2. rolling' \in Seq(Hash) /\ RollingInv'
    BY <1>0, <2>1, TailKeeps, Zenon
  <2> QED BY <1>5, <2>2, StackPreserves, Zenon DEF RollbackReturn
<1>6. CASE UNCHANGED vars
  BY <1>0, <1>6, StackPreserves, Zenon DEF vars, tables, RollingInv
<1> QED BY <1>1, <1>2, <1>3, <1>4, <1>5, <1>6, Zenon DEF Next, RollbackStep

\* For every set of blocks, however they arrive and whatever is rolled back, the
\* tables written by ledger_processor and rollback_visitor agree: IInv always holds.
THEOREM InductiveInvariant == Spec => []IInv
BY InitIInv, NextIInv, PTL DEF Spec

\* The tables of the store always hold values of their kind; in particular no
\* balance, weight or pending amount leaves the range of an unsigned 128 bit value.
THEOREM TypeCorrect == Spec => []TypeOK
<1>1. IInv => TypeOK
  BY Zenon DEF IInv
<1> QED BY <1>1, InductiveInvariant, PTL

\* ledger::process and ledger::rollback never let an account chain branch.
THEOREM NoForkTheorem == Spec => []NoFork
<1>1. IInv => NoFork
  BY ChainsDoNotFork, Zenon DEF IInv
<1> QED BY <1>1, InductiveInvariant, PTL

\* ledger::process never lets a send be received twice, by whatever mix of legacy
\* and state blocks, and however often its receivers were rolled back.
THEOREM NoDoubleReceiveTheorem == Spec => []NoDoubleReceive
<1>1. IInv => NoDoubleReceive
  BY Zenon DEF IInv
<1> QED BY <1>1, InductiveInvariant, PTL
=============================================================================
