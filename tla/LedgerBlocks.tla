---------------------------- MODULE LedgerBlocks ----------------------------
(***************************************************************************)
(* Model values and constructors for the blocks of small lattices.         *)
(***************************************************************************)
EXTENDS Integers, TLC

CONSTANTS zero, epochlink, epochkey, G, A, B

Send(prev, dest, balance, key) ==
    [type |-> "send", previous |-> prev, account |-> zero, representative |-> zero,
     link |-> dest, balance |-> balance, signer |-> key]
Receive(prev, source, key) ==
    [type |-> "receive", previous |-> prev, account |-> zero, representative |-> zero,
     link |-> source, balance |-> 0, signer |-> key]
Open(account, source, rep, key) ==
    [type |-> "open", previous |-> zero, account |-> account, representative |-> rep,
     link |-> source, balance |-> 0, signer |-> key]
Change(prev, rep, key) ==
    [type |-> "change", previous |-> prev, account |-> zero, representative |-> rep,
     link |-> zero, balance |-> 0, signer |-> key]
State(account, prev, rep, balance, link, key) ==
    [type |-> "state", previous |-> prev, account |-> account, representative |-> rep,
     link |-> link, balance |-> balance, signer |-> key]

MCAccount == {G, A, B}
MCAmountLimit == 8
GenesisBlock == Open(G, zero, G, G)
=============================================================================
