---------------------------- MODULE MCElections -----------------------------
(***************************************************************************)
(* Small worlds for Elections.  Blocks 1 and 2 compete for one root, block *)
(* 3 rests on block 1.  The votes of a and b together weigh as much as     *)
(* c's, which decides alone, and d's is too light to count.                *)
(***************************************************************************)
EXTENDS Elections

CONSTANTS none, a, b, c, d, i1, i2, i3, Scenarios

MCHash == 1 .. 3
MCRoot == <<"r", "r", "s">>
MCPrevious == <<none, none, 1>>
MCSource == <<none, none, none>>
MCRep == {a, b, c, d}
MCWeight == [r \in MCRep |-> CASE r = a -> 30 [] r = b -> 30 [] r = c -> 60 [] r = d -> 0]

Item(h, whole) == [hash |-> h, whole |-> whole]
BallotOf(rep, sequence, items) == [rep |-> rep, sequence |-> sequence, items |-> items]

ForkBallot ==
    {BallotOf(r, 1, <<Item(h, w)>>) : r \in {a, b}, h \in {1, 2}, w \in BOOLEAN} \cup
    {BallotOf(c, s, <<Item(h, FALSE)>>) : s \in {1, 2}, h \in {1, 2}} \cup
    {BallotOf(d, 1, <<Item(1, FALSE)>>)}
ChainBallot ==
    {BallotOf(c, 1, <<Item(h, FALSE)>>) : h \in {1, 3}} \cup
    {BallotOf(c, 2, <<Item(2, TRUE), Item(3, FALSE)>>)}
SoloBallot == {BallotOf(c, 1, <<Item(1, FALSE)>>), BallotOf(c, 2, <<Item(2, TRUE)>>)}

\* fork: three representatives and a fork, with votes before blocks.
\* chain: confirmation of ancestors and escalation.
\* erase: an RPC client forces a fork, the election is started again.
\* solo: one representative changes its vote; the node is shut down.
Scenario ==
    [fork  |-> [hashes |-> {1, 2}, startable |-> {1}, ballots |-> ForkBallot],
     chain |-> [hashes |-> {1, 2, 3}, startable |-> {1, 3}, ballots |-> ChainBallot],
     erase |-> [hashes |-> {1, 2}, startable |-> {1}, ballots |-> SoloBallot],
     solo  |-> [hashes |-> {1, 2}, startable |-> {1}, ballots |-> SoloBallot]]
MCBallot == ForkBallot \cup ChainBallot \cup SoloBallot

VARIABLE scenario
mcvars == <<evars, scenario>>

MCInit == EInit /\ scenario \in Scenarios
MCNext ==
    /\ UNCHANGED scenario
    /\ \/ \E h \in Scenario[scenario].startable : Start(h)
       \/ \E h \in Scenario[scenario].hashes : Publish(h) \/ Insert(h)
       \/ \E v \in Scenario[scenario].ballots : BeginVote(v)
       \/ scenario = "erase" /\ \E h \in {1, 2} : Erase(h)
       \/ scenario = "solo" /\ (Stop \/ StopJoin)
       \/ VoteNext \/ RequestConfirm \/ Prune \/ LoopExit \/ ForceNext
       \/ \E t \in background : Lookup(t) \/ Notify(t)

MCSpec == MCInit /\ [][MCNext]_mcvars /\ EFairness
=============================================================================
