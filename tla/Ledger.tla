------------------------------- MODULE Ledger -------------------------------
(***************************************************************************)
(* The block lattice: nano/secure/ledger.cpp on top of the tables that     *)
(* nano/node/lmdb.cpp keeps.                                               *)
(*                                                                         *)
(* A block is known by its hash; its immutable content (type, previous,    *)
(* account, link ...) is the constant Content[h].  Blocks arrive in any    *)
(* order and any number of times; ProcessResult(h, v) is the verdict of    *)
(* ledger_processor and Process(h, v) its effect when the verdict is       *)
(* "progress" (any other verdict leaves every table as it was).            *)
(*                                                                         *)
(* ledger::rollback is recursive.  Here its call stack is the variable     *)
(* `rolling': one frame per active call, holding the hash the call was     *)
(* given.  Both process and rollback run inside one LMDB write             *)
(* transaction, so no block is processed while the stack is not empty.     *)
(***************************************************************************)
EXTENDS Integers, Sequences, Tables

CONSTANTS
    Hash,            \* hashes of all the blocks there may ever be
    Account,         \* account numbers (public keys), the burn account 0 left out
    Zero,            \* the all-zero 256 bit value: no hash, burn account, no link
    EpochLink,       \* ledger::epoch_link
    EpochSigner,     \* ledger::epoch_signer
    Content,         \* Content[h] is the block whose hash is h
    Genesis,         \* hash of the genesis open block
    AmountLimit      \* amounts are unsigned: 2^128 in the code

BlockType == {"send", "receive", "open", "change", "state"}
LegacyType == BlockType \ {"state"}
Epoch == {0, 1}
Amount == 0 .. AmountLimit - 1
Key == Account \cup {Zero}
HashOrZero == Hash \cup {Zero}
Link == Account \cup Hash \cup {Zero, EpochLink}

\* "account" is present in open and state blocks, "balance" in send and state
\* blocks; "link" is the destination of a send, the source of a receive or an
\* open, the link of a state block.  "signer" is the key the signature verifies
\* against.
Block == [type : BlockType, previous : HashOrZero, account : Key,
          representative : Key, link : Link, balance : Amount,
          signer : Account \cup {EpochSigner}]

GenesisAccount == Content[Genesis].account

\* representative_visitor: the block at or before h that names a representative
RepBlock[h \in HashOrZero] ==
    IF h = Zero \/ Content[h].type \in {"open", "change", "state"}
    THEN h
    ELSE RepBlock[Content[h].previous]

ASSUME AmountAssumption == AmountLimit \in Nat \ {0}

ASSUME NamesAssumption ==
    /\ Zero \notin Hash \cup Account \cup {EpochLink}
    /\ EpochLink \notin Hash \cup Account
    /\ Hash \cap Account = {}

ASSUME ContentAssumption == Content \in [Hash -> Block]

\* The first block of every chain
ASSUME GenesisAssumption ==
    /\ Genesis \in Hash
    /\ Content[Genesis].type = "open"
    /\ Content[Genesis].previous = Zero
    /\ Content[Genesis].link = Zero
    /\ Content[Genesis].account \in Account
    /\ Content[Genesis].representative = Content[Genesis].account

\* open blocks have no previous field, every other legacy block has one
ASSUME PreviousAssumption ==
    \A h \in Hash : /\ Content[h].type = "open" => Content[h].previous = Zero
                    /\ Content[h].previous # h

\* A hash covers the hash of the previous block, so walking back terminates
ASSUME RepBlockAssumption ==
    /\ RepBlock \in [HashOrZero -> HashOrZero]
    /\ \A h \in Hash : RepBlock[h] = IF Content[h].type \in {"open", "change", "state"}
                                     THEN h
                                     ELSE RepBlock[Content[h].previous]
-----------------------------------------------------------------------------
VARIABLES
    blocks,          \* hash -> sideband, for the blocks in the ledger
    accounts,        \* accounts[e]: account -> account_info, tables accounts_v0 and accounts_v1
    pending,         \* pending[e]: <<destination, hash>> -> pending_info, tables pending_v0 and pending_v1
    representation,  \* representative -> vote weight
    frontiers,       \* hash of a legacy head block -> its account
    rolling          \* call stack of ledger::rollback, innermost call first

tables == <<blocks, accounts, pending, representation, frontiers>>
vars == <<blocks, accounts, pending, representation, frontiers, rolling>>

Sideband == [account : Account, successor : HashOrZero, balance : Amount,
             height : Int, epoch : Epoch]
AccountInfo == [head : HashOrZero, rep_block : HashOrZero, open_block : HashOrZero,
                balance : Amount, block_count : Int]
PendingInfo == [source : Account, amount : Amount]

-----------------------------------------------------------------------------
(* Queries *)

Exists(h) == h \in DOMAIN blocks

source_exists(h) == Exists(h) /\ Content[h].type \in {"state", "send"}

\* ledger::balance
Balance(h) == IF h = Zero THEN 0 ELSE blocks[h].balance

\* Mutant: the balance is taken for the amount
AmountOf_balance(h) == Balance(h)
\* Mutant: the sign of a send is kept
AmountOf_signed(h) == Balance(h) - Balance(Content[h].previous)

\* ledger::amount
AmountOf(h) == LET now == Balance(h)
                   before == Balance(Content[h].previous)
               IN IF now > before THEN now - before ELSE before - now

\* ledger::account
AccountOf(h) == blocks[h].account

\* Mutant: the epoch of the source is forgotten
block_version_epoch0(h) == 0
block_version(h) == IF Exists(h) THEN blocks[h].epoch ELSE 0

account_exists(a) == a \in DOMAIN accounts[0] \cup DOMAIN accounts[1]

\* account_get looks in accounts_v1 first; a failed lookup leaves the
\* default-constructed account_info
EpochOf(a) == IF a \in DOMAIN accounts[1] THEN 1 ELSE 0
Info(a) == IF account_exists(a)
           THEN accounts[EpochOf(a)][a]
           ELSE [head |-> Zero, rep_block |-> Zero, open_block |-> Zero,
                 balance |-> 0, block_count |-> 0]

\* ledger::latest
Latest(a) == Info(a).head

pending_exists(key) == key \in DOMAIN pending[0] \cup DOMAIN pending[1]
PendingEpoch(key) == IF key \in DOMAIN pending[1] THEN 1 ELSE 0
pending_get(key) == pending[PendingEpoch(key)][key]

\* ledger::is_send
is_send(h) == Content[h].previous # Zero /\ Content[h].balance < Balance(Content[h].previous)

is_epoch_link(l) == l = EpochLink

valid_predecessor(h) == Content[h].type \in LegacyType

\* ledger::block_destination
block_destination(h) == IF Content[h].type = "send" \/ (Content[h].type = "state" /\ is_send(h))
                        THEN Content[h].link
                        ELSE Zero

\* ledger::block_source, which takes the link of any state block that is no send
block_source(h) == CASE Content[h].type \in {"receive", "open"} -> Content[h].link
                     [] Content[h].type = "state" /\ ~is_send(h) -> Content[h].link
                     [] OTHER -> Zero
-----------------------------------------------------------------------------
(* Verdicts of ledger_processor.  `v' is the signature_verification handed  *)
(* to ledger::process by the caller; every chain of tests is in code order. *)

Verification == {"unknown", "valid", "valid_epoch"}

\* nano::validate_message, true when the signature verifies
SignedBy(h, key) == Content[h].signer = key

\* What a truthful caller may pass: "unknown", or the outcome of its own check
Verifications(h) ==
    {"unknown"} \cup (IF SignedBy(h, IF Content[h].previous \in DOMAIN frontiers
                                     THEN frontiers[Content[h].previous]
                                     ELSE Content[h].account) THEN {"valid"} ELSE {})
                \cup (IF SignedBy(h, EpochSigner) THEN {"valid_epoch"} ELSE {})

ReceiveVerdict(key, amount) ==
    IF ~source_exists(key[2]) THEN "gap_source"
    ELSE IF ~pending_exists(key) THEN "unreceivable"
    ELSE IF amount # pending_get(key).amount THEN "balance_mismatch"
    ELSE "progress"

state_block_impl(h, v) ==
    LET b == Content[h]
        a == b.account
        sends == account_exists(a) /\ b.balance < Info(a).balance
    IN IF Exists(h) THEN "old"
       ELSE IF v # "valid" /\ ~SignedBy(h, a) THEN "bad_signature"
       ELSE IF a = Zero THEN "opened_burn_account"
       ELSE IF account_exists(a) /\ b.previous = Zero THEN "fork"
       ELSE IF account_exists(a) /\ ~Exists(b.previous) THEN "gap_previous"
       ELSE IF account_exists(a) /\ b.previous # Info(a).head THEN "fork"
       ELSE IF ~account_exists(a) /\ b.previous # Zero THEN "gap_previous"
       ELSE IF ~account_exists(a) /\ b.link = Zero THEN "gap_source"
       ELSE IF sends THEN "progress"
       ELSE IF b.link # Zero THEN ReceiveVerdict(<<a, b.link>>, b.balance - Info(a).balance)
       ELSE IF b.balance # Info(a).balance THEN "balance_mismatch"
       ELSE "progress"

epoch_block_impl(h, v) ==
    LET b == Content[h]
        a == b.account
    IN IF Exists(h) THEN "old"
       ELSE IF v # "valid_epoch" /\ ~SignedBy(h, EpochSigner) THEN "bad_signature"
       ELSE IF a = Zero THEN "opened_burn_account"
       ELSE IF account_exists(a) /\ b.previous # Info(a).head THEN "fork"
       ELSE IF b.representative # (IF account_exists(a)
                                   THEN Content[Info(a).rep_block].representative
                                   ELSE Zero) THEN "representative_mismatch"
       ELSE IF EpochOf(a) # 0 THEN "block_position"
       ELSE IF b.balance # Info(a).balance THEN "balance_mismatch"
       ELSE "progress"

\* Is a block with the epoch link an epoch block, or a send to the epoch link?
IsEpochBlock(h) == /\ is_epoch_link(Content[h].link)
                   /\ Content[h].balance = Balance(Content[h].previous)

MissingEpochPrevious(h) == /\ is_epoch_link(Content[h].link)
                           /\ Content[h].previous # Zero
                           /\ ~Exists(Content[h].previous)

state_block(h, v) ==
    IF MissingEpochPrevious(h)
    THEN IF v = "unknown" /\ ~SignedBy(h, Content[h].account) /\ ~SignedBy(h, EpochSigner)
         THEN "bad_signature"
         ELSE "gap_previous"
    ELSE IF IsEpochBlock(h) THEN epoch_block_impl(h, v)
    ELSE state_block_impl(h, v)

\* The tests that change, send and receive blocks share up to the signature
LegacyVerdict(h, v) ==
    LET p == Content[h].previous
    IN IF Exists(h) THEN "old"
       ELSE IF ~Exists(p) THEN "gap_previous"
       ELSE IF ~valid_predecessor(p) THEN "block_position"
       ELSE IF p \notin DOMAIN frontiers THEN "fork"
       ELSE IF v # "valid" /\ ~SignedBy(h, frontiers[p]) THEN "bad_signature"
       ELSE "progress"

change_block(h, v) == LegacyVerdict(h, v)

send_block(h, v) ==
    IF LegacyVerdict(h, v) # "progress" THEN LegacyVerdict(h, v)
    ELSE IF Info(frontiers[Content[h].previous]).balance < Content[h].balance THEN "negative_spend"
    ELSE "progress"

receive_block(h, v) ==
    LET b == Content[h]
        a == frontiers[b.previous]
        key == <<a, b.link>>
    IN IF LegacyVerdict(h, v) # "progress" THEN LegacyVerdict(h, v)
       ELSE IF ~source_exists(b.link) THEN "gap_source"
       ELSE IF Info(a).head # b.previous THEN "gap_previous"
       ELSE IF ~pending_exists(key) THEN "unreceivable"
       ELSE IF PendingEpoch(key) # 0 THEN "unreceivable"
       ELSE "progress"

\* Mutant: no "state-only send" test
open_block_any_epoch(h, v) ==
    LET b == Content[h]
    IN IF Exists(h) THEN "old"
       ELSE IF v # "valid" /\ ~SignedBy(h, b.account) THEN "bad_signature"
       ELSE IF ~source_exists(b.link) THEN "gap_source"
       ELSE IF account_exists(b.account) THEN "fork"
       ELSE IF ~pending_exists(<<b.account, b.link>>) THEN "unreceivable"
       ELSE "progress"

open_block(h, v) ==
    LET b == Content[h]
        key == <<b.account, b.link>>
    IN IF Exists(h) THEN "old"
       ELSE IF v # "valid" /\ ~SignedBy(h, b.account) THEN "bad_signature"
       ELSE IF ~source_exists(b.link) THEN "gap_source"
       ELSE IF account_exists(b.account) THEN "fork"
       ELSE IF ~pending_exists(key) THEN "unreceivable"
       ELSE IF b.account = Zero THEN "opened_burn_account"
       ELSE IF PendingEpoch(key) # 0 THEN "unreceivable"
       ELSE "progress"

\* ledger::process dispatches on the block type
ProcessResult(h, v) ==
    CASE Content[h].type = "state"   -> state_block(h, v)
      [] Content[h].type = "change"  -> change_block(h, v)
      [] Content[h].type = "send"    -> send_block(h, v)
      [] Content[h].type = "receive" -> receive_block(h, v)
      [] Content[h].type = "open"    -> open_block(h, v)
-----------------------------------------------------------------------------
(* Table updates *)

\* block_put writes the block with its sideband and makes it the successor of
\* its previous block (block_predecessor_set)
block_put(h, account, balance, height, epoch) ==
    [k \in DOMAIN blocks \cup {h} |->
        IF k = h
        THEN [account |-> account, successor |-> Zero, balance |-> balance,
              height |-> height, epoch |-> epoch]
        ELSE IF k = Content[h].previous
        THEN [blocks[k] EXCEPT !.successor = h]
        ELSE blocks[k]]

\* Mutant: the successor of the block before is not cleared
block_del_only(h) == Del(blocks, h)

\* block_del of a head block and block_successor_clear of the one before it
block_del(h) ==
    [k \in DOMAIN blocks \ {h} |->
        IF k = Content[h].previous
        THEN [blocks[k] EXCEPT !.successor = Zero]
        ELSE blocks[k]]

account_del(table, a) ==
    IF a \in DOMAIN table[1]
    THEN [table EXCEPT ![1] = Del(@, a)]
    ELSE [table EXCEPT ![0] = Del(@, a)]

\* Mutant: the entry in the table of the other epoch stays
change_latest_duplicate(a, hash, rep_block, balance, block_count, epoch) ==
    IF hash = Zero
    THEN account_del(accounts, a)
    ELSE [accounts EXCEPT ![epoch] =
             Put(@, a, [head |-> hash, rep_block |-> rep_block,
                        open_block |-> IF account_exists(a) THEN Info(a).open_block ELSE hash,
                        balance |-> balance, block_count |-> block_count])]

\* Mutant: open_block follows the head
change_latest_open(a, hash, rep_block, balance, block_count, epoch) ==
    IF hash = Zero
    THEN account_del(accounts, a)
    ELSE [(IF account_exists(a) THEN account_del(accounts, a) ELSE accounts) EXCEPT ![epoch] =
             Put(@, a, [head |-> hash, rep_block |-> rep_block, open_block |-> hash,
                        balance |-> balance, block_count |-> block_count])]

\* The new accounts tables
change_latest(a, hash, rep_block, balance, block_count, epoch) ==
    LET exists == account_exists(a)
        moved == IF exists /\ EpochOf(a) # epoch THEN account_del(accounts, a) ELSE accounts
    IN IF hash = Zero
       THEN account_del(accounts, a)
       ELSE [moved EXCEPT ![epoch] =
                Put(@, a, [head |-> hash, rep_block |-> rep_block,
                           open_block |-> IF exists THEN Info(a).open_block ELSE hash,
                           balance |-> balance, block_count |-> block_count])]

pending_put(key, info, epoch) == [pending EXCEPT ![epoch] = Put(@, key, info)]

pending_del(key) ==
    IF key \in DOMAIN pending[1]
    THEN [pending EXCEPT ![1] = Del(@, key)]
    ELSE [pending EXCEPT ![0] = Del(@, key)]

\* The weight goes to the representative that block h names; unsigned arithmetic
representation_add(table, h, amount) ==
    [table EXCEPT ![Content[h].representative] = (@ + amount) % AmountLimit]

\* Mutant: the old representative keeps the weight
MoveWeight_keep(from, taken, to, given) == representation_add(representation, to, given)

\* Take `amount' from the representative of `from' and give it to that of `to'
MoveWeight(from, taken, to, given) ==
    representation_add(IF from = Zero
                       THEN representation
                       ELSE representation_add(representation, from, -taken),
                       to, given)

\* Mutant: the previous block stays a frontier
MoveFrontier_keep(from, to, a) == Put(frontiers, to, a)

MoveFrontier(from, to, a) == Put(Del(frontiers, from), to, a)
-----------------------------------------------------------------------------
(* Processing a block whose verdict is "progress" *)

InsertState(h) ==
    LET b == Content[h]
        a == b.account
        info == Info(a)
        sends == account_exists(a) /\ b.balance < info.balance
        key == <<a, b.link>>
        received == IF ~sends /\ b.link # Zero THEN PendingEpoch(key) ELSE 0
        epoch == IF EpochOf(a) > received THEN EpochOf(a) ELSE received
    IN /\ blocks' = block_put(h, a, b.balance, info.block_count + 1, epoch)
       /\ representation' = MoveWeight(info.rep_block, info.balance, h, b.balance)
       /\ pending' = IF sends
                     THEN pending_put(<<b.link, h>>,
                                      [source |-> a, amount |-> info.balance - b.balance], epoch)
                     ELSE IF b.link # Zero THEN pending_del(key) ELSE pending
       /\ accounts' = change_latest(a, h, h, b.balance, info.block_count + 1, epoch)
       /\ frontiers' = Del(frontiers, info.head)

\* Mutant: the legacy head stays in the frontiers table
InsertEpoch_frontier(h) ==
    LET a == Content[h].account
        info == Info(a)
    IN /\ blocks' = block_put(h, a, Content[h].balance, info.block_count + 1, 1)
       /\ accounts' = change_latest(a, h, h, info.balance, info.block_count + 1, 1)
       /\ UNCHANGED <<pending, representation, frontiers>>

InsertEpoch(h) ==
    LET a == Content[h].account
        info == Info(a)
    IN /\ blocks' = block_put(h, a, Content[h].balance, info.block_count + 1, 1)
       /\ accounts' = change_latest(a, h, h, info.balance, info.block_count + 1, 1)
       /\ frontiers' = Del(frontiers, info.head)
       /\ UNCHANGED <<pending, representation>>

InsertChange(h) ==
    LET p == Content[h].previous
        a == frontiers[p]
        info == Info(a)
    IN /\ blocks' = block_put(h, a, info.balance, info.block_count + 1, 0)
       /\ representation' = MoveWeight(info.rep_block, Balance(p), h, Balance(p))
       /\ accounts' = change_latest(a, h, h, info.balance, info.block_count + 1, 0)
       /\ frontiers' = MoveFrontier(p, h, a)
       /\ UNCHANGED pending

InsertSend(h) ==
    LET b == Content[h]
        a == frontiers[b.previous]
        info == Info(a)
        amount == info.balance - b.balance
    IN /\ representation' = representation_add(representation, info.rep_block, -amount)
       /\ blocks' = block_put(h, a, b.balance, info.block_count + 1, 0)
       /\ accounts' = change_latest(a, h, info.rep_block, b.balance, info.block_count + 1, 0)
       /\ pending' = pending_put(<<b.link, h>>, [source |-> a, amount |-> amount], 0)
       /\ frontiers' = MoveFrontier(b.previous, h, a)

InsertReceive(h) ==
    LET b == Content[h]
        a == frontiers[b.previous]
        info == Info(a)
        key == <<a, b.link>>
        amount == pending_get(key).amount
        balance == (info.balance + amount) % AmountLimit
    IN /\ pending' = pending_del(key)
       /\ blocks' = block_put(h, a, balance, info.block_count + 1, 0)
       /\ accounts' = change_latest(a, h, info.rep_block, balance, info.block_count + 1, 0)
       /\ representation' = representation_add(representation, info.rep_block, amount)
       /\ frontiers' = MoveFrontier(b.previous, h, a)

\* Mutant: the received send stays pending
InsertOpen_pending(h) ==
    LET b == Content[h]
        amount == pending_get(<<b.account, b.link>>).amount
    IN /\ blocks' = block_put(h, b.account, amount, 1, 0)
       /\ accounts' = change_latest(b.account, h, h, amount, 1, 0)
       /\ representation' = representation_add(representation, h, amount)
       /\ frontiers' = Put(frontiers, h, b.account)
       /\ UNCHANGED pending

InsertOpen(h) ==
    LET b == Content[h]
        key == <<b.account, b.link>>
        amount == pending_get(key).amount
    IN /\ pending' = pending_del(key)
       /\ blocks' = block_put(h, b.account, amount, 1, 0)
       /\ accounts' = change_latest(b.account, h, h, amount, 1, 0)
       /\ representation' = representation_add(representation, h, amount)
       /\ frontiers' = Put(frontiers, h, b.account)

\* ledger::process
Process(h, v) ==
    /\ rolling = <<>>
    /\ ProcessResult(h, v) = "progress"
    /\ \/ Content[h].type = "state" /\ ~IsEpochBlock(h) /\ InsertState(h)
       \/ Content[h].type = "state" /\ IsEpochBlock(h) /\ InsertEpoch(h)
       \/ Content[h].type = "change" /\ InsertChange(h)
       \/ Content[h].type = "send" /\ InsertSend(h)
       \/ Content[h].type = "receive" /\ InsertReceive(h)
       \/ Content[h].type = "open" /\ InsertOpen(h)
    /\ UNCHANGED rolling
-----------------------------------------------------------------------------
(* ledger::rollback.  A call loops "while block_exists (block_a)", each time *)
(* visiting the head of the account that holds block_a; visiting a send      *)
(* whose pending entry is gone first rolls back the head of the destination. *)

RollbackSend(h) ==
    LET b == Content[h]
        key == <<b.link, h>>
        info == pending_get(key)
        a == info.source
    IN /\ pending' = pending_del(key)
       /\ representation' = representation_add(representation, RepBlock[h], info.amount)
       /\ accounts' = change_latest(a, b.previous, Info(a).rep_block, Balance(b.previous),
                                    Info(a).block_count - 1, 0)
       /\ blocks' = block_del(h)
       /\ frontiers' = MoveFrontier(h, b.previous, a)

RollbackReceive(h) ==
    LET b == Content[h]
        a == AccountOf(h)
        amount == AmountOf(b.link)
    IN /\ representation' = representation_add(representation, RepBlock[h], -amount)
       /\ accounts' = change_latest(a, b.previous, RepBlock[b.previous], Balance(b.previous),
                                    Info(a).block_count - 1, 0)
       /\ blocks' = block_del(h)
       /\ pending' = pending_put(<<a, b.link>>,
                                 [source |-> AccountOf(b.link), amount |-> amount], 0)
       /\ frontiers' = MoveFrontier(h, b.previous, a)

RollbackOpen(h) ==
    LET b == Content[h]
        a == AccountOf(h)
        amount == AmountOf(b.link)
    IN /\ representation' = representation_add(representation, RepBlock[h], -amount)
       /\ accounts' = change_latest(a, Zero, Zero, 0, 0, 0)
       /\ blocks' = block_del(h)
       /\ pending' = pending_put(<<a, b.link>>,
                                 [source |-> AccountOf(b.link), amount |-> amount], 0)
       /\ frontiers' = Del(frontiers, h)

RollbackChange(h) ==
    LET p == Content[h].previous
        a == AccountOf(p)
    IN /\ representation' = MoveWeight(h, Balance(p), RepBlock[p], Balance(p))
       /\ blocks' = block_del(h)
       /\ accounts' = change_latest(a, p, RepBlock[p], Info(a).balance, Info(a).block_count - 1, 0)
       /\ frontiers' = MoveFrontier(h, p, a)
       /\ UNCHANGED pending

RollbackState(h) ==
    LET b == Content[h]
        a == b.account
        before == Balance(b.previous)
    IN /\ representation' = IF b.previous = Zero
                            THEN representation_add(representation, h, -b.balance)
                            ELSE MoveWeight(h, b.balance, RepBlock[b.previous], before)
       /\ pending' = IF is_send(h) THEN pending_del(<<b.link, h>>)
                     ELSE IF b.link = Zero \/ is_epoch_link(b.link) THEN pending
                     ELSE pending_put(<<a, b.link>>,
                                      [source |-> AccountOf(b.link), amount |-> b.balance - before],
                                      block_version(b.link))
       /\ accounts' = change_latest(a, b.previous, RepBlock[b.previous], before,
                                    Info(a).block_count - 1, block_version(b.previous))
       /\ frontiers' = IF Exists(b.previous) /\ Content[b.previous].type \in LegacyType
                       THEN Put(frontiers, b.previous, a)
                       ELSE frontiers
       /\ blocks' = block_del(h)

\* The head the innermost call visits next
RollbackHead == Latest(AccountOf(Head(rolling)))

\* Mutant: the pending entry is looked up under the sender
ReceivedByDestination_sender(h) ==
    /\ Content[h].type = "send" \/ (Content[h].type = "state" /\ is_send(h))
    /\ ~pending_exists(<<AccountOf(h), h>>)

\* The send it visits was received: the destination goes first
ReceivedByDestination(h) ==
    /\ Content[h].type = "send" \/ (Content[h].type = "state" /\ is_send(h))
    /\ ~pending_exists(<<Content[h].link, h>>)

\* A caller rolls back block h (block_processor::process_batch)
Rollback(h) ==
    /\ rolling = <<>>
    /\ h # Genesis
    /\ Exists(h)
    /\ rolling' = <<h>>
    /\ UNCHANGED tables

RollbackDestination ==
    /\ rolling # <<>>
    /\ Exists(Head(rolling))
    /\ ReceivedByDestination(RollbackHead)
    /\ rolling' = <<Latest(Content[RollbackHead].link)>> \o rolling
    /\ UNCHANGED tables

RollbackVisit ==
    /\ rolling # <<>>
    /\ Exists(Head(rolling))
    /\ ~ReceivedByDestination(RollbackHead)
    /\ LET h == RollbackHead
       IN \/ Content[h].type = "send" /\ RollbackSend(h)
          \/ Content[h].type = "receive" /\ RollbackReceive(h)
          \/ Content[h].type = "open" /\ RollbackOpen(h)
          \/ Content[h].type = "change" /\ RollbackChange(h)
          \/ Content[h].type = "state" /\ RollbackState(h)
    /\ UNCHANGED rolling

RollbackReturn ==
    /\ rolling # <<>>
    /\ ~Exists(Head(rolling))
    /\ rolling' = Tail(rolling)
    /\ UNCHANGED tables

RollbackStep == RollbackDestination \/ RollbackVisit \/ RollbackReturn
-----------------------------------------------------------------------------
\* mdb_store::initialize
Init ==
    /\ blocks = [h \in {Genesis} |-> [account |-> GenesisAccount, successor |-> Zero,
                                      balance |-> AmountLimit - 1, height |-> 1, epoch |-> 0]]
    /\ accounts = [e \in Epoch |-> [a \in {x \in {GenesisAccount} : e = 0} |->
                      [head |-> Genesis, rep_block |-> Genesis, open_block |-> Genesis,
                       balance |-> AmountLimit - 1, block_count |-> 1]]]
    /\ pending = [e \in Epoch |-> [k \in {} |-> [source |-> Zero, amount |-> 0]]]
    /\ representation = [a \in Key |-> IF a = GenesisAccount THEN AmountLimit - 1 ELSE 0]
    /\ frontiers = [h \in {Genesis} |-> GenesisAccount]
    /\ rolling = <<>>

Next ==
    \/ \E h \in Hash : \E v \in Verifications(h) : Process(h, v)
    \/ \E h \in Hash : Rollback(h)
    \/ RollbackStep

\* The thread inside ledger::rollback does not stop half way
Spec == Init /\ [][Next]_vars /\ WF_vars(RollbackStep)
-----------------------------------------------------------------------------
(* Properties *)

\* Every table holds values of its kind under keys of its kind.
TypeOK ==
    /\ DOMAIN blocks \subseteq Hash
    /\ \A h \in DOMAIN blocks : blocks[h] \in Sideband
    /\ DOMAIN accounts = Epoch /\ DOMAIN pending = Epoch
    /\ \A e \in Epoch : /\ DOMAIN accounts[e] \subseteq Account
                        /\ \A a \in DOMAIN accounts[e] : accounts[e][a] \in AccountInfo
    /\ \A e \in Epoch : /\ DOMAIN pending[e] \subseteq Link \X Hash
                        /\ \A k \in DOMAIN pending[e] : pending[e][k] \in PendingInfo
    /\ representation \in [Key -> Amount]
    /\ DOMAIN frontiers \subseteq Hash
    /\ \A h \in DOMAIN frontiers : frontiers[h] \in Account
    /\ rolling \in Seq(Hash)

\* What block h of the ledger received, Zero if nothing: the source of a legacy
\* receive or open, the link of a state block that neither sends nor is an epoch
\* block.
Received(h) == IF h = Genesis \/ is_epoch_link(block_source(h)) THEN Zero ELSE block_source(h)

\* Each send is received at most once, whatever forks, duplicates and rollbacks
\* happened before (pending_get / pending_del in ledger_processor).
NoDoubleReceive ==
    \A g, h \in DOMAIN blocks : Received(g) # Zero /\ Received(g) = Received(h) => g = h

\* An account chain never branches: two blocks of the ledger have different
\* previous blocks, and an account has one first block (the "fork" tests).
NoFork ==
    \A g, h \in DOMAIN blocks :
        /\ Content[g].previous = Content[h].previous
        /\ blocks[g].account = blocks[h].account
        => g = h
=============================================================================
