-------------------------- MODULE MCBlockProcessor --------------------------
(***************************************************************************)
(* A small lattice for BlockProcessor: two sends of the genesis account to *)
(* A, a legacy and a state block, and two blocks that both open A, a       *)
(* legacy and a state block that receives the second send, which may be    *)
(* missing.                                                                *)
(***************************************************************************)
EXTENDS BlockProcessorInvariant, LedgerBlocks

MCContent ==
    "genesis" :> GenesisBlock
 @@ "send1"   :> Send("genesis", A, 5, G)
 @@ "ssend1"  :> State(G, "genesis", A, 4, A, G)
 @@ "send2"   :> State(G, "send1", G, 4, A, G)
 @@ "open1"   :> Open(A, "send1", A, A)
 @@ "open2"   :> State(A, zero, A, 1, "send2", A)
 @@ "sopen1"  :> State(A, zero, G, 2, "send1", A)
 @@ "forged"  :> State(G, "send1", A, 5, zero, A)
 @@ "epoch1"  :> State(G, "send1", G, 5, epochlink, epochkey)
 @@ "astray"  :> State(A, "genesis", A, 1, zero, A)
 @@ "unsent"  :> Open(A, "genesis", A, A)
 @@ "lsend2"  :> Send("send1", A, 4, G)

MCHash == DOMAIN MCContent

\* arrival: no two blocks compete, and the node may crash.
\* signatures: blocks of known accounts, as in a bulk pull, a block that G did not
\* sign, an epoch block; flush is called and the node is shut down.
\* contest: sopen1 replaces open1 and ssend1 replaces send1, on which both depend.
\* misplaced: astray follows a block of another account, unsent receives what was
\* not sent.
\* damaged: of lsend2 badly signed copies arrive, too, and the node may crash.
\* fork: open2 competes with open1 while its source may be missing.
ArrivalBlocks == {"send1", "send2", "open1"}
Scenario ==
    [arrival    |-> [deliveries |-> ArrivalBlocks \X {zero}, winners |-> {}, crashes |-> 1],
     signatures |-> [deliveries |-> {<<"send1", G>>, <<"forged", G>>, <<"epoch1", zero>>},
                     winners |-> {}, crashes |-> 0],
     contest    |-> [deliveries |-> {"send1", "open1"} \X {zero},
                     winners |-> {"ssend1", "sopen1"}, crashes |-> 0],
     misplaced  |-> [deliveries |-> {"astray", "unsent", "send1"} \X {zero},
                     winners |-> {}, crashes |-> 0],
     damaged    |-> [deliveries |-> {<<"send1", zero>>, <<"lsend2", G>>, <<"lsend2", zero>>},
                     winners |-> {}, crashes |-> 1],
     fork       |-> [deliveries |-> {"send1", "send2", "open1", "open2"} \X {zero},
                     winners |-> {"open2"}, crashes |-> 0]]

CONSTANT Scenarios
AllDeliveries == UNION {Scenario[s].deliveries : s \in Scenarios}
AllDamaged == {"lsend2"}
AllWinners == UNION {Scenario[s].winners : s \in Scenarios}

\* The hashes verify_state_blocks has dropped, for a bad signature, since the last start.
VARIABLES scenario, spoiled
mcvars == <<bpvars, scenario, spoiled>>

Spoil ==
    spoiled' = CASE crashes' # crashes -> {}
                 [] crashes' = crashes /\ pc = "verify" /\ pc' # "verify" ->
                        spoiled \cup (Hashes(items) \ Hashes(queue'))
                 [] OTHER -> spoiled

MCInit == BPInit /\ scenario \in Scenarios /\ spoiled = {}
MCNext ==
    /\ UNCHANGED scenario
    /\ \/ \E d \in Scenario[scenario].deliveries : Add(d[1], d[2])
       \/ \E h \in Scenario[scenario].winners : ForceBlock(h)
       \/ scenario = "signatures" /\ (Stop \/ Flush)
       \/ ProcessorStep
       \/ crashes < Scenario[scenario].crashes /\ Crash
    /\ Spoil

\* The fairness of BPSpec; in arrival peers also republish, and bootstrap pulls, a
\* block again and again
Flushing == scenario = "signatures" /\ Flush /\ UNCHANGED <<scenario, spoiled>>
Resend(h) == scenario = "arrival" /\ Add(h, zero) /\ UNCHANGED <<scenario, spoiled>>
MCSpec ==
    /\ MCInit /\ [][MCNext]_mcvars
    /\ ProcessorFairness /\ WF_mcvars(Flushing)
    /\ \A h \in ArrivalBlocks : WF_mcvars(Resend(h))

\* Without rollbacks, add refuses a block only while it is queued or being verified, when
\* it is in the ledger already, or when verify_state_blocks has dropped a copy of it whose
\* signature was bad: that leaves its hash in blocks_hashes, and add refuses the genuine
\* block, too, until the node is restarted.
RefusedIsHeld == blocks_hashes \subseteq Hashes(Queued) \cup DOMAIN blocks \cup spoiled

\* Blocks are refused only while they are held or once a copy of them was dropped; those
\* that keep being sent, properly signed, all reach the ledger for good, in whatever order
\* they arrive, also when the process crashes in between.
AllArrive ==
    /\ [](scenario \in {"arrival", "signatures", "misplaced", "damaged"} => RefusedIsHeld)
    /\ scenario = "arrival" => <>[](ArrivalBlocks \subseteq DOMAIN blocks)
=============================================================================
