----------------------------- MODULE MCServices -----------------------------
(***************************************************************************)
(* The services around the ledger, each in a small world of its own.  In a *)
(* scenario one of them moves, and the others rest in their initial        *)
(* states.                                                                 *)
(***************************************************************************)
EXTENDS MCElections, UdpBuffer, DistributedWork, SignatureChecker, VoteSequence, VoteProcessor, VoteGenerator,
    Peers, WalletStore, WalletActions, WalletSend, WalletReceive, SidebandUpgrade,
    PaymentObserver, TLC

CONSTANTS q1, q2, q3, n1

-----------------------------------------------------------------------------
(* Work: two requests of the pool for different roots; or one of them and   *)
(* one of the node, for the same root, from a peer with two addresses.      *)

MCWorkRoot == q1 :> "R" @@ q2 :> "S" @@ q3 :> "R"
MCAddresses == n1 :> {1, 2}
Asked == [pool |-> {q1, q2}, peers |-> {q1, q3}]

(* Votes: a heavy, a middling and a light representative, whose weights     *)
(* change.                                                                  *)
MCLevels == <<1, 2, 3, 4>>
MCRepWeights ==
    {"big" :> 200 @@ "mid" :> 30 @@ "small" :> 0, "big" :> 100 @@ "mid" :> 3 @@ "small" :> 0}

(* Peers: three addresses of one IP, one more than it has places and        *)
(* cookies; the own one; one of the configuration, and one of an old node.  *)
MCIp == "own" :> "h" @@ "e" :> "i" @@ "g" :> "i" @@ "m" :> "i" @@ "f" :> "j" @@ "k" :> "j"
Abouts == [own |-> {"own", "e"}, ip |-> {"e", "g", "m"}, configured |-> {"f", "k"},
           named |-> {"own"}]
About == IF scenario \in DOMAIN Abouts THEN Abouts[scenario] ELSE {}
Steady == About \cap {"e", "f"}

(* Wallets: two seeds; the used accounts leave gaps, or are only the one    *)
(* after the first.  Two of three identifiers ask for equal payments.       *)
MCAdhoc == {<<"s", 1>>}
MCUsed == {{<<"s", 0>>, <<"s", 2>>}, {<<"s", 1>>}, {<<"s", 2>>, <<"s", 4>>, <<"r", 0>>}}
MCPays == "i" :> "x" @@ "j" :> "x" @@ "k" :> "y"
MCSendAmount == "u" :> 2 @@ "v" :> 3

-----------------------------------------------------------------------------
serviceVars ==
    <<scenario, evars, udpVars, workVars, checkerVars, sequenceVars, voteProcessorVars, generatorVars, peerVars,
      storeVars, walletVars, sendVars, receiveVars, sidebandVars, observerVars>>

\* The scenario is about this component: what the others have stays as it is.
OnlyElections ==
    /\ scenario = "solo"
    /\ UNCHANGED <<udpVars, workVars, checkerVars, sequenceVars, voteProcessorVars, generatorVars, peerVars,
                   storeVars, walletVars, sendVars, receiveVars, sidebandVars, observerVars>>
OnlyUdp ==
    /\ scenario = "udp"
    /\ UNCHANGED <<scenario, evars, workVars, checkerVars, sequenceVars, voteProcessorVars, generatorVars,
                   peerVars, storeVars, walletVars, sendVars, receiveVars, sidebandVars, observerVars>>
OnlyWork ==
    /\ scenario \in DOMAIN Asked
    /\ UNCHANGED <<scenario, evars, udpVars, checkerVars, sequenceVars, voteProcessorVars, generatorVars,
                   peerVars, storeVars, walletVars, sendVars, receiveVars, sidebandVars, observerVars>>
OnlyChecker ==
    /\ scenario = "checker"
    /\ UNCHANGED <<scenario, evars, udpVars, workVars, sequenceVars, voteProcessorVars, generatorVars,
                   peerVars, storeVars, walletVars, sendVars, receiveVars, sidebandVars, observerVars>>
OnlySequence ==
    /\ scenario = "sequence"
    /\ UNCHANGED <<scenario, evars, udpVars, workVars, checkerVars, voteProcessorVars, generatorVars,
                   peerVars, storeVars, walletVars, sendVars, receiveVars, sidebandVars, observerVars>>
OnlyVotes ==
    /\ scenario = "votes"
    /\ UNCHANGED <<scenario, evars, udpVars, workVars, checkerVars, sequenceVars, generatorVars,
                   peerVars, storeVars, walletVars, sendVars, receiveVars, sidebandVars, observerVars>>
OnlyGenerator ==
    /\ scenario = "generator"
    /\ UNCHANGED <<scenario, evars, udpVars, workVars, checkerVars, sequenceVars, voteProcessorVars,
                   peerVars, storeVars, walletVars, sendVars, receiveVars, sidebandVars, observerVars>>
OnlyPeers ==
    /\ scenario \in DOMAIN Abouts
    /\ UNCHANGED <<scenario, evars, udpVars, workVars, checkerVars, sequenceVars, voteProcessorVars,
                   generatorVars, storeVars, walletVars, sendVars, receiveVars, sidebandVars, observerVars>>
OnlyStore ==
    /\ scenario = "store"
    /\ UNCHANGED <<scenario, evars, udpVars, workVars, checkerVars, sequenceVars, voteProcessorVars,
                   generatorVars, peerVars, walletVars, sendVars, receiveVars, sidebandVars, observerVars>>
OnlyWallets ==
    /\ scenario = "wallets"
    /\ UNCHANGED <<scenario, evars, udpVars, workVars, checkerVars, sequenceVars, voteProcessorVars,
                   generatorVars, peerVars, storeVars, sendVars, receiveVars, sidebandVars, observerVars>>
OnlySend ==
    /\ scenario = "send"
    /\ UNCHANGED <<scenario, evars, udpVars, workVars, checkerVars, sequenceVars, voteProcessorVars,
                   generatorVars, peerVars, storeVars, walletVars, receiveVars, sidebandVars, observerVars>>
OnlyReceive ==
    /\ scenario = "receive"
    /\ UNCHANGED <<scenario, evars, udpVars, workVars, checkerVars, sequenceVars, voteProcessorVars,
                   generatorVars, peerVars, storeVars, walletVars, sendVars, sidebandVars, observerVars>>
OnlySideband ==
    /\ scenario = "sideband"
    /\ UNCHANGED <<scenario, evars, udpVars, workVars, checkerVars, sequenceVars, voteProcessorVars,
                   generatorVars, peerVars, storeVars, walletVars, sendVars, receiveVars, observerVars>>
OnlyPayment ==
    /\ scenario = "payment"
    /\ UNCHANGED <<scenario, evars, udpVars, workVars, checkerVars, sequenceVars, voteProcessorVars,
                   generatorVars, peerVars, storeVars, walletVars, sendVars, receiveVars, sidebandVars>>

\* Only the component that moves starts in any of its initial states.
ServicesInit ==
    /\ MCInit
    /\ UdpInit /\ DistributedInit /\ CheckerInit /\ SequenceInit /\ VoteProcessorInit /\ GeneratorInit
    /\ PeersInit /\ StoreInit /\ WalletsInit /\ SendInit /\ ReceiveInit /\ SidebandInit
    /\ PaymentInit
    /\ scenario # "peers" => work_threads
    /\ scenario \notin {"pool", "peers"} => opencl
    /\ faults = 0 /\ restarts = IF scenario = "ip" THEN MaxRestarts ELSE 0
    /\ scenario # "votes" => repWeight["mid"] = 30
    /\ scenario # "store" => tables.seed = "s"

\* Nothing is claimed of the votes of a node that was misled: only its crash is followed.
ServicesNext ==
    \/ OnlyElections /\ MCNext
    \/ OnlyUdp /\ UdpNext
    \/ OnlyWork /\ DistributedNext(Asked[scenario])
    \/ OnlyChecker /\ CheckerNext
    \/ OnlySequence /\ (\A n \in VoteNode : ~misled[n]) /\ SequenceNext
    \/ OnlySequence /\ RepCrash
    \/ OnlyVotes /\ VoteProcessorNext
    \/ OnlyGenerator /\ GeneratorNext
    \/ OnlyPeers /\ PeersNext(About, IF scenario = "own" THEN {} ELSE About \ {"e", "k"})
    \/ OnlyStore /\ StoreNext
    \/ OnlyWallets /\ WalletsNext
    \/ OnlySend /\ SendNext
    \/ OnlyReceive /\ ReceiveNext
    \/ OnlySideband /\ SidebandNext
    \/ OnlyPayment /\ PaymentNext

(* Fairness: threads run on, and the alarm runs what is due.                *)

\* The receivers and the packet threads; the socket reports that it was closed.
UdpFairness ==
    /\ \A r \in Receiver : WF_udpVars(OnlyUdp /\ ReceiverStep(r)) /\ WF_udpVars(OnlyUdp /\ closed /\ Failed(r))
    /\ \A p \in Processor : WF_udpVars(OnlyUdp /\ ProcessorStep(p))
    /\ WF_udpVars(OnlyUdp /\ StopBuffers)

\* The threads search with success, and the node's callbacks run.
WorkFairness ==
    /\ \A t \in WorkThread : WF_workVars(OnlyWork /\ WorkStep(t) /\ UNCHANGED distributedVars)
    /\ \A q \in Distributed : WF_workVars(OnlyWork /\ ~workDone /\ DistributedStep(q))

\* A flush that started, and the shutdown, go on.
CheckerFairness ==
    /\ \A k \in Callers : WF_checkerVars(OnlyChecker /\ CallerStep(k))
    /\ \A t \in PoolThread : WF_checkerVars(OnlyChecker /\ PoolThreadStep(t))
    /\ WF_checkerVars(OnlyChecker /\ CheckerFlushed) /\ WF_checkerVars(OnlyChecker /\ StopStep)

\* The processor, and whoever flushes it; the generator, and time.
VotesFairness ==
    /\ WF_voteProcessorVars(OnlyVotes /\ VoteThreadStep)
    /\ WF_voteProcessorVars(OnlyVotes /\ voteFlusher = "loop" /\ VoteFlush)
    /\ WF_generatorVars(OnlyGenerator /\ GeneratorStep) /\ WF_generatorVars(OnlyGenerator /\ GeneratorTime)

\* One node of the scenario goes on sending keepalives.
PeersFairness ==
    /\ WF_peerVars(OnlyPeers /\ SynCookieCleanup)
    /\ WF_peerVars(OnlyPeers /\ \E e \in Steady : Keepalive(e, {}))

\* A mutex, and the write transaction, is given to each that waits for it in the end.
WalletsFairness ==
    /\ \A k \in WalletCaller : WF_walletVars(OnlyWallets /\ ~aborted /\ WalletCallerStep(k))
    /\ WF_walletVars(OnlyWallets /\ ~aborted /\ ActorStep) /\ WF_walletVars(OnlyWallets /\ ~aborted /\ WalletsJoin)

\* The alarm searches again and again, elections end, and the threads go on.
ReceiveFairness ==
    /\ WF_receiveVars(OnlyReceive /\ SearchPending) /\ WF_receiveVars(OnlyReceive /\ RecipientStep)
    /\ WF_receiveVars(OnlyReceive /\ ProcessorOfReceives)
    /\ \A s \in Incoming : /\ WF_receiveVars(OnlyReceive /\ SendConfirmed(s))
                           /\ WF_receiveVars(OnlyReceive /\ ContestPruned(s))

\* The thread of the upgrade goes on, and a stop that waits for it.
SidebandFairness == WF_sidebandVars(OnlySideband /\ UpgraderStep) /\ WF_sidebandVars(OnlySideband /\ StoreJoin)

\* The alarm, time, and the threads that carry out a call.
PaymentFairness ==
    /\ WF_observerVars(OnlyPayment /\ AlarmStep /\ UNCHANGED paymentVars)
    /\ WF_observerVars(OnlyPayment /\ Tick /\ UNCHANGED paymentVars)
    /\ \A w \in Wait : WF_observerVars(OnlyPayment /\ WaitStep(w))

\* Elections!EFairness for request_loop, which gets the mutex again and again; and some of
\* a node's answers arrive.  The scenario stays the same, so this is fairness of each.
LoopOrResponse ==
    \/ OnlyElections /\ (RequestConfirm \/ Prune \/ LoopExit \/ StopJoin) /\ UNCHANGED scenario
    \/ OnlyPeers /\ \E e \in Steady : Response(e)
OthersFairness ==
    /\ WF_evars(OnlyElections /\ VoteNext) /\ WF_evars(OnlyElections /\ ForceNext)
    /\ SF_serviceVars(LoopOrResponse)

ServicesSpec ==
    /\ ServicesInit /\ [][ServicesNext]_serviceVars
    /\ UdpFairness /\ WorkFairness /\ CheckerFairness /\ VotesFairness /\ PeersFairness /\ WalletsFairness
    /\ ReceiveFairness /\ SidebandFairness /\ PaymentFairness /\ OthersFairness

\* A node that goes on sending keepalives becomes a peer, again and again if it is purged,
\* unless its IP has all its places taken, or other addresses of its IP have all its cookies
\* again and again (assign_syn_cookie refuses one more, and whoever asks first after a
\* cleanup gets the next): neither an answer that was lost nor one that came after its
\* cookie was purged stands in the way of the next handshake.
CookiesTaken(e) ==
    Cardinality({p \in Endpoint \ {e} : Ip[p] = Ip[e] /\ syn_cookies[p].cookie # 0}) >= MaxPeersPerIp
StrangersBecomePeers == []<>(\A e \in Steady : KnownPeer(e) \/ ~Room(e) \/ CookiesTaken(e))

\* Work is found for the request at the front, answered once to whoever asked although peers,
\* the pool and cancellations race, and not stored for a wallet that was destroyed meanwhile.
WorkAccounted == TicketOwnsFront /\ WorkAnsweredOnce /\ DistributedAccounted /\ WorkOnlyLive

\* The vote queue and the generator lose no vote or hash and handle none twice, and beyond each
\* limit only the weightier representatives find room in the queue.
VoteQueues == VotesConserved /\ RoomReserved /\ HashesConserved

\* Every stop that joins a thread returns: network, work pool, signature checker, vote
\* processor, vote generator, wallets, alarm and active_transactions.
ThreadsEnd ==
    /\ NetworkStops /\ WorkStops /\ NodeStops /\ VoteProcessorStops
    /\ GeneratorStops /\ WalletsStopReturns /\ AlarmStops /\ StopReturns

\* Whoever waits for one of these threads is served: datagrams, requests for work, sets of
\* signatures, flushes, hashes to vote on, wallet commands and actions, the upgrade,
\* operations of the alarm, payment_wait, and elections that are confirmed.
NobodyWaits ==
    /\ BuffersServiced /\ WorkAnswered /\ VerifyReturns /\ FlushReturns /\ VoteFlushReturns
    /\ HashVoted /\ WalletCallsReturn /\ ActionsTaken /\ UpgradeCompletes
    /\ AlarmFires /\ PaymentAnswered /\ ConfirmedLeaves
=============================================================================
