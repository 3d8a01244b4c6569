------------------------------ MODULE MCLedger ------------------------------
(***************************************************************************)
(* Block universes for Ledger.  Every block may arrive at any time, so a   *)
(* universe of a dozen blocks covers all orders of arrival, duplicates,    *)
(* gaps, forks and rollbacks among them.                                   *)
(***************************************************************************)
EXTENDS LedgerAudit, LedgerBlocks

\* Legacy blocks only: forks of a send, of an open and of a change, a send of
\* zero, a chain that returns to the genesis account, a bad signature.
LegacyContent ==
    "genesis" :> GenesisBlock
 @@ "send1"   :> Send("genesis", A, 5, G)
 @@ "send1x"  :> Send("genesis", B, 3, G)
 @@ "send2"   :> Send("send1", A, 5, G)
 @@ "send2b"  :> Send("send1", B, 4, G)
 @@ "open1"   :> Open(A, "send1", B, A)
 @@ "open1x"  :> Open(A, "send1", A, A)
 @@ "openB"   :> Open(B, "send1x", A, B)
 @@ "change1" :> Change("open1", A, A)
 @@ "recv2"   :> Receive("change1", "send2", A)
 @@ "recv2x"  :> Receive("open1", "send2", A)
 @@ "back1"   :> Send("open1", G, 1, A)
 @@ "recvG"   :> Receive("send2", "back1", G)
 @@ "changeG" :> Change("recvG", A, G)
 @@ "forged"  :> Change("open1", B, G)
 @@ "toB"     :> Send("open1", B, 1, A)
 @@ "openB2"  :> Open(B, "toB", B, B)
 @@ "openB3"  :> Open(B, "send2b", G, B)
 @@ "recvB"   :> Receive("openB3", "toB", B)
 @@ "overB"   :> Send("openB2", A, 7, B)
 @@ "onward"  :> Send("openB2", G, 0, B)
 @@ "recvG2"  :> Receive("send2", "onward", G)
 @@ "recvG3"  :> Receive("recvG2", "back1", G)
 @@ "again"   :> Receive("open1", "send1", A)
 @@ "late"    :> Receive("toB", "send2", A)

LegacyHash == DOMAIN LegacyContent

\* Legacy chains continued by state and epoch blocks: forks between both
\* kinds, an account opened by an epoch block, sends made before and after the
\* upgrade, a legacy open of a send from the upgraded account, a send to the epoch
\* link.
EpochContent ==
    "genesis" :> GenesisBlock
 @@ "send1"   :> Send("genesis", A, 5, G)
 @@ "ssend1"  :> State(G, "genesis", A, 4, A, G)
 @@ "epochG"  :> State(G, "send1", G, 5, epochlink, epochkey)
 @@ "ssend2"  :> State(G, "epochG", A, 2, A, G)
 @@ "openA"   :> Open(A, "send1", B, A)
 @@ "openA2"  :> Open(A, "ssend2", A, A)
 @@ "sopenA"  :> State(A, zero, B, 2, "send1", A)
 @@ "epochA"  :> State(A, zero, zero, 0, epochlink, epochkey)
 @@ "srecvA"  :> State(A, "epochA", A, 2, "send1", A)
 @@ "recvA2"  :> Receive("openA", "ssend2", A)
 @@ "srecvA2" :> State(A, "openA", A, 5, "ssend2", A)
 @@ "srep"    :> State(A, "sopenA", A, 2, zero, A)
 @@ "slink"   :> State(A, "srep", A, 1, epochlink, A)
 @@ "sback"   :> State(A, "srecvA2", B, 1, G, A)
 @@ "sforged"  :> State(A, "openA", B, 2, zero, G)
 @@ "greedy"  :> State(A, zero, A, 3, "send1", A)
 @@ "burn"    :> State(G, "send1", G, 3, zero, G)
 @@ "sagain"   :> State(A, "openA", A, 4, "send1", A)
 @@ "stoB"     :> State(A, "openA", A, 1, B, A)
 @@ "epochB"  :> State(B, zero, zero, 0, epochlink, epochkey)
 @@ "sopenB"  :> State(B, zero, A, 1, "stoB", B)
 @@ "srecvB"  :> State(B, "epochB", A, 1, "stoB", B)
 @@ "epochB2" :> State(B, "sopenB", A, 1, epochlink, epochkey)
 @@ "sonward"  :> State(B, "sopenB", B, 0, G, B)
 @@ "srecvG"  :> State(G, "ssend2", B, 3, "sonward", G)
 @@ "epochBx" :> State(B, "sonward", A, 0, epochlink, epochkey)
 @@ "oldsend" :> Send("epochG", A, 0, G)
 @@ "legacyG" :> Send("send1", B, 2, G)
 @@ "epochGx" :> State(G, "legacyG", G, 2, epochlink, epochkey)

EpochHash == DOMAIN EpochContent

MCContent == LegacyContent @@ EpochContent
MCHash == LegacyHash \cup EpochHash

\* The blocks of a ledger come from one of the two universes, which share a send
OneUniverse == DOMAIN blocks \subseteq LegacyHash \/ DOMAIN blocks \subseteq EpochHash
MCNext == Next /\ OneUniverse'
MCSpec == Init /\ [][MCNext]_vars /\ WF_vars(RollbackStep)
=============================================================================
