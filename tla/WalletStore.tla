----------------------------- MODULE WalletStore -----------------------------
(***************************************************************************)
(* The keys of one wallet (nano/node/wallet.cpp: wallet_store, and what    *)
(* wallet and the RPC commands on passwords and keys do with it).          *)
(*                                                                         *)
(* A fixed wallet key encrypts the seed and the private keys; it is itself *)
(* encrypted by the password.  The encrypted wallet key is kept in the     *)
(* database and in memory, the password in memory only.  An account is a   *)
(* seed and an index, from which its private key is derived; its entry     *)
(* holds either the index or the private key itself, encrypted.            *)
(*                                                                         *)
(* Every command is one write transaction, of which LMDB has one at a      *)
(* time: it checks the password, then does its work.  wallet_lock alone    *)
(* takes neither the transaction nor the store's mutex, and may fall       *)
(* between the check and the work, which then decrypts and encrypts with   *)
(* "garbage".                                                              *)
(***************************************************************************)
EXTENDS Naturals, FiniteSets, FiniteSetsExt

CONSTANTS
    Seed,
    Adhoc,            \* bound: the accounts whose keys are added or removed by themselves
    MaxIndex,         \* bound: the largest index of an account
    Gap,              \* 64: the unused accounts in a row that end a search
    SeedCounts,       \* bound: counts given to wallet_change_seed, 0 among them: search
    UsedSets,         \* the accounts with blocks or pending entries, one set per ledger
    WalletPassword,   \* what users enter, "" among them
    MaxCommands,      \* bound: commands carried out
    MaxWalletCrashes  \* bound: crashes

VARIABLES
    tables,           \* the committed tables
    password,         \* wallet_store::password, "zero" when locked
    wallet_key_mem,   \* the encrypted wallet key in memory
    command,          \* the command whose write transaction is open
    used,             \* the accounts that the ledger knows
    opens,            \* the password that the last change of it was told to have set
    last,             \* the last command carried out, the index it began at, its count
    needs_deterministic_restore, \* a seed was imported while the node was bootstrapping
    raced,            \* whether wallet_lock ever fell between a check and its work
    commands, walletCrashes

storeVars == <<tables, password, wallet_key_mem, command, used, opens, last,
               needs_deterministic_restore, raced, commands, walletCrashes>>

WalletIndex == 0 .. MaxIndex
WalletAccount == (Seed \cup {"garbage"}) \X WalletIndex
NoCommand == [op |-> "none", of |-> "none"]

Commands ==
    [op : {"password_change", "password_enter"}, of : WalletPassword]
    \cup [op : {"wallet_add", "account_remove"}, of : Adhoc]
    \cup [op : {"account_create"}, of : {"none"}]
    \cup [op : {"account_create_at"}, of : WalletIndex]
    \cup [op : {"wallet_change_seed"}, of : Seed \X SeedCounts]

-----------------------------------------------------------------------------
(* The store.  A wallet key is known by the password that opens it; it is    *)
(* lost when what was encrypted was not the wallet key.                      *)

valid_password == password = wallet_key_mem.opens /\ ~wallet_key_mem.lost

exists(t, a) == t.entries[a] # "none"

\* What seed () decrypts.
SeedNow(t) == IF valid_password THEN t.seed ELSE "garbage"

\* deterministic_insert: the first index, from the next one on, that is not in the wallet.
Unused(t) == {i \in WalletIndex : i >= t.index /\ ~exists(t, <<SeedNow(t), i>>)}

RECURSIVE deterministic_insert(_, _)
deterministic_insert(t, n) ==
    IF n = 0 \/ Unused(t) = {} THEN t
    ELSE LET i == Min(Unused(t))
         IN deterministic_insert([t EXCEPT !.entries[<<SeedNow(t), i>>] = "deterministic",
                                           !.index = i + 1], n - 1)

\* seed_set, with deterministic_clear
deterministic_clear_none(t) == t.entries
deterministic_clear(t) ==
    [a \in WalletAccount |-> IF t.entries[a] = "deterministic" THEN "none" ELSE t.entries[a]]

seed_set(t, s) ==
    [t EXCEPT !.seed = IF valid_password THEN s ELSE "garbage",
              !.entries = deterministic_clear(t),
              !.index = 0]

-----------------------------------------------------------------------------
(* wallet: the search for accounts of the seed that were used before         *)

\* How far the search goes on after a used account i.
Further_short(i) == i + 2
Further(i) == i + Gap + (i \div Gap)

RECURSIVE Search(_, _, _, _)
Search(s, i, n, found) ==
    IF i >= n \/ i > MaxIndex THEN found
    ELSE IF <<s, i>> \in used THEN Search(s, i + 1, Further(i), i)
    ELSE Search(s, i + 1, n, found)

deterministic_check(s, index) == Search(s, index + 1, index + Gap, index)

change_seed(t, s, count) ==
    LET first == deterministic_insert(seed_set(t, s), 1)
    IN deterministic_insert(first, IF count = 0 THEN deterministic_check(s, 0) ELSE count)

deterministic_restore(t) ==
    LET new_index == deterministic_check(SeedNow(t), t.index)
    IN IF new_index = t.index THEN t
       ELSE deterministic_insert(t, new_index - t.index + 1)

-----------------------------------------------------------------------------
(* The commands                                                              *)

\* The wallet key as rekey encrypts it: under the new password.
Rekeyed(p) == [opens |-> p, lost |-> ~valid_password]

StoredKey_old(p) == tables.key
StoredKey(p) == Rekeyed(p)

Tables(c) ==
    CASE c.op = "password_change" -> [tables EXCEPT !.key = StoredKey(c.of)]
      [] c.op = "wallet_add" ->
            [tables EXCEPT !.entries[c.of] = IF valid_password THEN "adhoc" ELSE "lost"]
      [] c.op = "account_remove" -> [tables EXCEPT !.entries[c.of] = "none"]
      [] c.op = "account_create" -> deterministic_insert(tables, 1)
      [] c.op = "account_create_at" ->
            [tables EXCEPT !.entries[<<SeedNow(tables), c.of>>] = "deterministic"]
      [] c.op = "wallet_change_seed" ->
            IF valid_password THEN change_seed(tables, c.of[1], c.of[2]) ELSE seed_set(tables, c.of[1])
      [] c.op = "deterministic_restore" -> deterministic_restore(tables)
      [] OTHER -> tables

\* The commands that check the password, and do nothing when it is not valid.
Checks(c) == c.op \notin {"password_enter", "deterministic_restore"}

BeginCommand(c) ==
    /\ command = NoCommand
    /\ commands < MaxCommands
    /\ Checks(c) => valid_password
    /\ c.op = "account_remove" => exists(tables, c.of)
    /\ command' = c
    /\ UNCHANGED <<tables, password, wallet_key_mem, used, opens, last, needs_deterministic_restore,
                   raced, commands, walletCrashes>>

\* wallet::enter_initial_password, after a wallet was created or read from the database.
EnterInitialPassword ==
    /\ password = "zero"
    /\ BeginCommand([op |-> IF valid_password THEN "password_change" ELSE "password_enter", of |-> ""])

\* The wallet window when bootstrapping ends ("Check for accounts to restore").
RestoreAccounts ==
    /\ needs_deterministic_restore
    /\ used # {}
    /\ command = NoCommand
    /\ commands < MaxCommands
    /\ needs_deterministic_restore' = FALSE
    /\ command' = [op |-> "deterministic_restore", of |-> "none"]
    /\ UNCHANGED <<tables, password, wallet_key_mem, used, opens, last, raced, commands, walletCrashes>>

FinishCommand ==
    LET cmd == command
    IN /\ cmd # NoCommand
       /\ tables' = Tables(cmd)
       /\ password' = IF cmd.op \in {"password_change", "password_enter"} THEN cmd.of ELSE password
       /\ wallet_key_mem' = IF cmd.op = "password_change" THEN Rekeyed(cmd.of) ELSE wallet_key_mem
       /\ opens' = IF cmd.op = "password_change" THEN cmd.of ELSE opens
       /\ last' = [op |-> IF valid_password THEN cmd.op ELSE "none",
                   from |-> IF cmd.op = "deterministic_restore" THEN tables.index ELSE 0,
                   count |-> IF cmd.op = "wallet_change_seed" THEN cmd.of[2] ELSE 0]
       /\ needs_deterministic_restore' =
             (needs_deterministic_restore \/ (cmd.op = "wallet_change_seed" /\ cmd.of[2] = 0 /\ used = {}))
       /\ command' = NoCommand
       /\ commands' = commands + 1
       /\ UNCHANGED <<used, raced, walletCrashes>>

\* rpc_handler::wallet_lock: neither the transaction nor the mutex of the store.
WalletLock ==
    /\ password # "zero"
    /\ password' = "zero"
    /\ raced' = (raced \/ (command # NoCommand /\ Checks(command)))
    /\ UNCHANGED <<tables, wallet_key_mem, command, used, opens, last,
                   needs_deterministic_restore, commands, walletCrashes>>

\* Bootstrapping ends: the ledger now knows the accounts that were used.
LedgerFills ==
    /\ used = {}
    /\ used' \in UsedSets
    /\ last' = [op |-> "none", from |-> 0, count |-> 0]
    /\ UNCHANGED <<tables, password, wallet_key_mem, command, opens,
                   needs_deterministic_restore, raced, commands, walletCrashes>>

\* The node is killed and started again: the constructor of wallet_store reads the key.
WalletCrash ==
    /\ walletCrashes < MaxWalletCrashes
    /\ walletCrashes' = walletCrashes + 1
    /\ password' = "zero"
    /\ wallet_key_mem' = tables.key
    /\ command' = NoCommand
    /\ needs_deterministic_restore' = FALSE
    /\ UNCHANGED <<tables, used, opens, last, raced, commands>>

StoreInit ==
    /\ \E s \in Seed :
          tables = [key |-> [opens |-> "zero", lost |-> FALSE], seed |-> s, index |-> 0,
                    entries |-> [a \in WalletAccount |-> "none"]]
    /\ password = "zero"
    /\ wallet_key_mem = tables.key
    /\ command = NoCommand
    /\ used = {}
    /\ opens = "zero"
    /\ last = [op |-> "none", from |-> 0, count |-> 0]
    /\ needs_deterministic_restore = FALSE
    /\ raced = FALSE
    /\ commands = 0
    /\ walletCrashes = 0

StoreNext ==
    \/ \E c \in Commands : BeginCommand(c)
    \/ EnterInitialPassword
    \/ RestoreAccounts
    \/ FinishCommand
    \/ WalletLock
    \/ LedgerFills
    \/ WalletCrash

-----------------------------------------------------------------------------
(* Properties                                                                *)

\* Whatever is interrupted, the password that the last password_change was told to have set
\* opens the wallet, now and after the node is killed (rekey writes the new key to memory and
\* to the database under one transaction).  The exception is a wallet_lock that fell between a
\* check of the password and the work it allows: it can lose the wallet key itself.
PasswordOpens ==
    \/ raced
    \/ /\ tables.key = [opens |-> opens, lost |-> FALSE]
       /\ wallet_key_mem = tables.key

\* Every key in the wallet can be fetched again with the password: keys that were inserted are
\* encrypted with the wallet key, and the entries that hold an index belong to the seed of the
\* wallet, also after the seed was changed (seed_set calls deterministic_clear).  The exception
\* is the same race.
KeysRecoverable ==
    \/ raced
    \/ \A a \in WalletAccount :
          /\ tables.entries[a] # "lost"
          /\ tables.entries[a] = "deterministic" => a[1] = tables.seed

\* The used accounts of the wallet's seed that a search from an index on must find: each is
\* less than Gap, and a part of its index, behind the one before.
Reached(from) ==
    LET reached[i \in WalletIndex] ==
          \/ i = from
          \/ /\ <<tables.seed, i>> \in used
             /\ \E j \in from .. (i - 1) : reached[j] /\ i < j + Gap + (IF j = from THEN 0 ELSE j \div Gap)
    IN {i \in WalletIndex : reached[i]}

\* After change_seed, and after a deterministic_restore that finds anything, the wallet has every
\* used account that the gap rule reaches, whatever keys it had before; a change_seed that is
\* given a count has as many accounts after the first, with no index left out.
RestoreFinds ==
    last.op \in {"wallet_change_seed", "deterministic_restore"} /\ ~raced =>
        \A i \in IF last.count = 0 THEN Reached(last.from) ELSE WalletIndex \cap (0 .. last.count) :
            \/ exists(tables, <<tables.seed, i>>)
            \/ i = last.from /\ last.op = "deterministic_restore"

\* deterministic_restore restores every used account from the next index on that the gap rule
\* reaches (the test deterministic_restore asks that the account that was sent to exists).
RestoreComplete ==
    last.op = "deterministic_restore" =>
        \A i \in Reached(last.from) :
            <<tables.seed, i>> \in used => exists(tables, <<tables.seed, i>>)

\* The password that was set last opens the wallet, and every key in it can be recovered,
\* whichever commands, locks and crashes came in between.
KeysSafe == PasswordOpens /\ KeysRecoverable
=============================================================================
