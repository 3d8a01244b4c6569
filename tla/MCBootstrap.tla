----------------------------- MODULE MCBootstrap -----------------------------
(***************************************************************************)
(* Small bootstraps.  A scenario exercises one part: the control of an     *)
(* attempt (BootstrapAttempt), the transfer of blocks (BulkPull), the      *)
(* comparison of two ledgers (Frontiers), the request for pending entries  *)
(* (PendingPull) or the serving side (BootstrapServer).  The other parts   *)
(* rest in their initial states.                                           *)
(***************************************************************************)
EXTENDS BootstrapAttempt, TLC

CONSTANTS Scenarios, zero, epochlink, G, A, k1, k2, p1, p2, u1, c1, c2

VARIABLES
    scenario, mode, remote, changes, stored, received, pulls, clients, done,
    lazy_keys, lazy_pulls, lazy_blocks, lazy_state_unknown, lazy_balances,
    mine, theirs, touched, merge, push, pending, altered, known, asking, listener, links

-----------------------------------------------------------------------------
(* Frontiers: three accounts, read two at a time; a chain of the client is  *)
(* missing, shorter, equal or forked.                                       *)

Frontier == INSTANCE Frontiers
    WITH MaxAccount <- 3, KeySpace <- 5, MaxHeight <- 2, Batch <- 2, CostLimit <- 6,
         Count <- 100, MaxTouched <- 1, MaxRequests <- 2

MCChain(n, f) == [len |-> n, fork |-> f]
MCMine ==
    {m \in [1 .. 3 -> {MCChain(0, 1), MCChain(1, 1), MCChain(2, 1), MCChain(2, 2)}] :
        /\ m[1] \in {MCChain(0, 1), MCChain(2, 1)}
        /\ m[2] \in {MCChain(1, 1), MCChain(2, 2)}
        /\ m[3] = MCChain(1, 1)}
MCTheirs == [1 .. 3 -> {MCChain(0, 1), MCChain(2, 1)}]
Unopened == [a \in 1 .. 3 |-> MCChain(0, 1)]
FrontierInit ==
    /\ mine \in IF scenario = "frontiers" THEN MCMine ELSE {Unopened}
    /\ theirs \in IF scenario = "frontiers" THEN MCTheirs ELSE {Unopened}
    /\ Frontier!FrontiersInit

-----------------------------------------------------------------------------
(* Pending: entries of three accounts, some too small, some of one source.  *)

MCEntry(a, h, amount, s) == [account |-> a, hash |-> h, amount |-> amount, source |-> s]
MCEntries ==
    {MCEntry(1, 9, 5, 1), MCEntry(2, 1, 5, 1), MCEntry(2, 3, 1, 1), MCEntry(2, 4, 5, 2),
     MCEntry(2, 6, 7, 1), MCEntry(2, 7, 7, 3), MCEntry(3, 1, 5, 1)}

Pending == INSTANCE PendingPull
    WITH Entries <- MCEntries, Requested <- 2, Minimum <- 3, DedupLimit <- 1,
         MaxTableChanges <- 2

PendingInit == pending = MCEntries \ {MCEntry(2, 4, 5, 2)} /\ known = {1} /\ Pending!PendingInit

-----------------------------------------------------------------------------
(* Serving: a listener for one connection at a time.                        *)

Server == INSTANCE BootstrapServer
    WITH Link <- {c1, c2}, Streams <- {"bulk_pull", "keepalive"}, MaxLinks <- 1, MaxAsked <- 2

comparing == <<mine, theirs, touched, merge, push>>
requesting == <<pending, altered, known, asking>>
serving == <<listener, links>>
otherVars == <<comparing, requesting, serving>>

-----------------------------------------------------------------------------
(* Transfer: the account G sends twice to A, which opens and receives, once *)
(* with state blocks and once with legacy blocks.                           *)

MCBlock(type, account, prev, link, balance) ==
    [type |-> type, account |-> account, previous |-> prev, link |-> link, balance |-> balance]

MCContent ==
    "g"  :> MCBlock("open", G, zero, zero, 8)
 @@ "s1" :> MCBlock("state", G, "g", A, 6)
 @@ "s2" :> MCBlock("state", G, "s1", A, 3)
 @@ "a1" :> MCBlock("state", A, zero, "s1", 2)
 @@ "a2" :> MCBlock("state", A, "a1", "s2", 5)
 @@ "a3" :> MCBlock("state", A, "a2", zero, 5)
 @@ "t1" :> MCBlock("send", G, "g", A, 6)
 @@ "t2" :> MCBlock("send", G, "t1", A, 3)
 @@ "o1" :> MCBlock("open", A, zero, "t1", 2)
 @@ "r2" :> MCBlock("receive", A, "o1", "t2", 5)

StateLattice == {"g", "s1", "s2", "a1", "a2", "a3"}
LegacyLattice == {"g", "t1", "t2", "o1", "r2"}

Transfer == INSTANCE BulkPull
    WITH Hash <- DOMAIN MCContent, Content <- MCContent, Zero <- zero, EpochLink <- epochlink,
         MaxAmount <- 100, Account <- {G, A}, Connection <- {k1, k2},
         SpamLimit <- 2, LazyMaxPull <- 2, MaxKeys <- 2, MaxChanges <- 1

NoTransfer ==
    [mode |-> "legacy", blocks |-> {}, keys |-> {}, stores |-> {}, remote |-> {},
     stored |-> {}, pulls |-> <<>>]

\* whole: a legacy bootstrap of A's chain down to a1, and of G's down to a block the
\* server does not have.  state, legacy: a lazy bootstrap of A's head.  apart: a lazy
\* bootstrap of two blocks of A.
Transfers ==
    [whole  |-> [mode |-> "legacy", blocks |-> StateLattice, keys |-> {}, stores |-> {},
                 remote |-> {"g", "s1", "s2", "a1", "a2"}, stored |-> {"g", "s1", "a1"},
                 pulls |-> <<Transfer!PullInfo(A, "a2", "a1", 0), Transfer!PullInfo(G, "s2", "t1", 0)>>],
     state  |-> [mode |-> "lazy", blocks |-> {}, keys |-> {"a3"}, stores |-> {"s1", "a1"},
                 remote |-> StateLattice, stored |-> {"g"}, pulls |-> <<>>],
     legacy |-> [mode |-> "lazy", blocks |-> {}, keys |-> {"r2"}, stores |-> {"t1", "o1"},
                 remote |-> LegacyLattice, stored |-> {"g"}, pulls |-> <<>>],
     apart  |-> [mode |-> "lazy", blocks |-> {}, keys |-> {"a1", "a2"}, stores |-> {},
                 remote |-> StateLattice, stored |-> {"g"}, pulls |-> <<>>]]

Now == IF scenario \in DOMAIN Transfers THEN Transfers[scenario] ELSE NoTransfer

TransferInit ==
    /\ mode = Now.mode /\ remote = Now.remote /\ changes = 0
    /\ stored = Now.stored /\ received = {} /\ pulls = Now.pulls
    /\ clients = <<>> /\ done = {}
    /\ lazy_keys = {} /\ lazy_pulls = <<>> /\ lazy_blocks = {}
    /\ lazy_state_unknown = <<>> /\ lazy_balances = <<>>

Rest == UNCHANGED <<attemptVars, scenario, otherVars>>
Transferring == scenario \in DOMAIN Transfers
Requests == Transferring /\ Rest /\ \E c \in {k1, k2} : Transfer!request_pull(c)
Answers(c) ==
    /\ Transferring /\ c \in Transfer!Busy /\ Rest
    /\ Transfer!received_block(c) \/ Transfer!received_end(c)

TransferNext ==
    \/ Requests \/ \E c \in {k1, k2} : Answers(c)
    \/ /\ Transferring /\ Rest
       /\ \/ \E c \in Transfer!Busy : Transfer!Break(c)
          \/ \E h \in Now.keys : Transfer!lazy_start(h)
          \/ Transfer!lazy_pull_flush
          \/ \E h \in Now.stores : Transfer!Store(h)
          \/ \E h \in Now.blocks : Transfer!RemoteChange(h)

-----------------------------------------------------------------------------
(* Control: which calls are made, by how many callers, and how many        *)
(* connections and pulls there are.                                        *)

Controls ==
    [run      |-> [calls |-> {"bootstrap"}, callers |-> 1, slots |-> {k1, k2}, pulls |-> {p1}],
     stop     |-> [calls |-> {"bootstrap", "stop"}, callers |-> 2, slots |-> {k1}, pulls |-> {p1, p2}],
     endpoint |-> [calls |-> {"endpoint", "stop"}, callers |-> 2, slots |-> {k1}, pulls |-> {p1}],
     force    |-> [calls |-> {"force"}, callers |-> 2, slots |-> {k1}, pulls |-> {p1}],
     lazy     |-> [calls |-> {"lazy"}, callers |-> 1, slots |-> {k1}, pulls |-> {p1, p2}],
     lazystop |-> [calls |-> {"lazy", "stop"}, callers |-> 1, slots |-> {k1}, pulls |-> {p1}],
     wallet   |-> [calls |-> {"wallet", "bootstrap"}, callers |-> 2, slots |-> {k1}, pulls |-> {p1}],
     peers    |-> [calls |-> {"bootstrap"}, callers |-> 1, slots |-> {k1}, pulls |-> {p1}]]

Small == Controls[scenario]
Can(call) ==
    call \in Small.calls /\ Cardinality({c \in Caller : ~Entering(c)}) < Small.callers

\* The bounds of the scenario.
Within ==
    /\ Live(attempt') \subseteq Small.slots
    /\ attempt'.accepted \cup attempt'.lazy_keys \cup attempt'.lazy_pulls \subseteq Small.pulls

Controlling == scenario \in DOMAIN Controls
Still == UNCHANGED <<scenario, mode, remote, changes, stored, received, pulls, clients, done,
                     lazy_keys, lazy_pulls, lazy_blocks, lazy_state_unknown, lazy_balances>>
Step(A1) == Controlling /\ A1 /\ Within /\ Still /\ UNCHANGED otherVars

Threads == Step(ThreadStep)
Clients == Step(ClientEnd)
Alarms == Step(Populate)
Woken == Step(\E c \in Caller : callers[c].state = "calling" /\ (bootstrap_endpoint(c) \/ bootstrap_lazy(c, p1, TRUE)))
\* node::start schedules one call of bootstrap_wallet.
Calls ==
    \E c \in Caller :
        \/ Can("bootstrap") /\ bootstrap(c)
        \/ Can("endpoint") /\ bootstrap_endpoint(c)
        \/ Can("lazy") /\ \E p \in Pull : bootstrap_lazy(c, p, FALSE)
        \/ Can("force") /\ bootstrap_lazy(c, p1, TRUE)
        \/ Can("wallet") /\ c = u1 /\ bootstrap_wallet(c)

ControlNext ==
    \/ Threads \/ Clients \/ Alarms \/ Woken
    \/ Step(PullFound \/ Expire \/ ("stop" \in Small.calls /\ stop) \/ Calls)

-----------------------------------------------------------------------------
OtherNext ==
    /\ Still /\ UNCHANGED attemptVars
    /\ \/ /\ scenario = "frontiers" /\ Frontier!FrontiersNext
          /\ UNCHANGED <<requesting, serving>>
       \/ /\ scenario = "pending" /\ Pending!PendingNext
          /\ UNCHANGED <<comparing, serving>>
       \/ /\ scenario = "serving" /\ Server!ServerNext
          /\ UNCHANGED <<comparing, requesting>>

\* The timer of the listener and the destructors run on the io_context, as long as one of
\* its threads is left.  Nothing is assumed of the peers.
Serves(Act) ==
    /\ scenario = "serving" /\ Act /\ Still
    /\ UNCHANGED <<attemptVars, comparing, requesting>>

mcvars == <<attemptVars, scenario, mode, remote, changes, stored, received, pulls, clients,
            done, lazy_keys, lazy_pulls, lazy_blocks, lazy_state_unknown, lazy_balances,
            otherVars>>

MCInit ==
    /\ scenario \in Scenarios /\ AttemptInit /\ TransferInit
    /\ FrontierInit /\ PendingInit /\ Server!ServerInit
MCNext == TransferNext \/ ControlNext \/ OtherNext

\* The threads, the alarm and the io_context keep running, and no client stays at work
\* for ever: its socket has a timeout.
MCSpec ==
    /\ MCInit /\ [][MCNext]_mcvars
    /\ WF_mcvars(Threads) /\ WF_mcvars(Clients) /\ WF_mcvars(Alarms) /\ WF_mcvars(Woken)
    /\ WF_mcvars(Serves(Server!accept_connection)) /\ WF_mcvars(Serves(Server!Cleaning))
    /\ WF_mcvars(mode = "legacy" /\ Requests)
    /\ \A c \in {k1, k2} : WF_mcvars(mode = "legacy" /\ Answers(c))

\* bulk_pull_server serves the range that was asked for, the frontier of an account included
\* (the comment on set_current_end excludes it), and a pull that ends without an error has
\* received all of it, though the ledger of the server changes meanwhile.
RangesWhole == Transfer!PullTypeOK /\ Transfer!ServedRange /\ Transfer!PulledWhole

\* A lazy bootstrap goes on below every block it has, pulls the sources of what it
\* processed, those that had to wait for a balance included, and nothing that is no block
\* (process_block, lazy_pull_flush).
LazyComplete ==
    /\ [](Transfer!LazyChainsContinue /\ Transfer!LazyFindsSources /\ Transfer!LazyPullsBlocks)
    /\ Transfer!LazyHeldSettles

\* Source blocks that process_block looks for with the balance of the block before.
LazyFindsDependencies == Transfer!LazyFindsDependencies

\* frontier_req_client pulls each account that differs, once, and pushes whole chains, though
\* both ledgers change during the merge.
MergeExact == Frontier!MergeComplete /\ Frontier!PulledOnce /\ Frontier!PushedWhole

\* bulk_pull_account serves every pending entry that stays, and none twice.
PendingExact == Pending!PendingComplete /\ Pending!PendingOnce

\* The listener and its connections: a socket is read and written by one at a time, requests
\* are answered in their order, and the connections stay within the limit.
ServedInOrder ==
    Server!OneReader /\ Server!OneWriter /\ Server!AnsweredInOrder /\ Server!LinksBounded

\* What bootstrap begins ends: the thread after stop, the callers that wait for the attempt in
\* progress, the pulls of a transfer, and the wait of a full listener once a connection is over.
BootstrapEnds == StopJoins /\ CallersReturn /\ Transfer!PullsSettle /\ Server!AcceptsAgain
=============================================================================
