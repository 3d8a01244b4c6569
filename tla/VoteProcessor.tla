---------------------------- MODULE VoteProcessor ----------------------------
(***************************************************************************)
(* The vote processor (nano/node/node.cpp: vote_processor).                *)
(*                                                                         *)
(* Its thread takes all queued votes at once, and verifies and applies     *)
(* them without the mutex.  When votes come faster than that, those of     *)
(* small representatives are dropped first.                                *)
(***************************************************************************)
EXTENDS Integers, Sequences, FiniteSets

CONSTANTS
    QueueLevels,    \* 96, 112, 128 and 144 * 1024
    VotingRep,      \* representatives
    RepWeights,     \* possible weights: functions on VotingRep
    OnlineStake,    \* online_reps.online_stake
    MaxQueued       \* bound: votes queued

VARIABLES
    votes,          \* queued
    batch,          \* votes_l: those the thread is at
    voteThread,     \* where it is
    voteActive, voteStopped,
    repWeight,      \* the ledger's weights
    representatives,\* representatives_1 to _3
    accepted, processed, \* how many votes were queued; those done with
    voteFlusher     \* a thread that calls flush

processorQueue == <<votes, batch, voteThread, voteActive, voteStopped>>
voteHistory == <<accepted, processed>>
voteProcessorVars == <<processorQueue, repWeight, representatives, voteHistory, voteFlusher>>

-----------------------------------------------------------------------------
(* vote_processor::vote and calculate_weights                                *)

\* A representative of level 1, 2 or 3 has more than 0.1, 1 or 5 percent.
Share == <<1000, 100, 20>>
CalculateWeights ==
    /\ ~voteStopped
    /\ representatives' = [k \in 1 .. 3 |-> {r \in VotingRep : repWeight[r] > OnlineStake \div Share[k]}]
    /\ representatives' # representatives
    /\ UNCHANGED <<processorQueue, repWeight, voteHistory, voteFlusher>>

WeightsChange(w) ==
    /\ w # repWeight /\ repWeight' = w
    /\ UNCHANGED <<processorQueue, representatives, voteHistory, voteFlusher>>

\* How many of the sets a representative is in, and the level of the queue.
LevelOf(r) == Cardinality({k \in 1 .. 3 : r \in representatives[k]})
Processes_shifted(r) ==
    \/ Len(votes) < QueueLevels[2]
    \/ \E k \in 1 .. 3 : Len(votes) < QueueLevels[k + 1] /\ r \in representatives[k]
Processes(r) ==
    \/ Len(votes) < QueueLevels[1]
    \/ \E k \in 1 .. 3 : Len(votes) < QueueLevels[k + 1] /\ r \in representatives[k]

\* Wakes the thread and those who flush.
WakeVoting_none(state) == state
WakeVoting(state) == IF state = "waiting" THEN "loop" ELSE state

\* vote: queued or dropped.  A vote carries its number among those queued and the level it
\* came with.
VoteArrives(r) ==
    /\ accepted < MaxQueued
    /\ IF ~voteStopped /\ Processes(r)
       THEN /\ accepted' = accepted + 1
            /\ votes' = Append(votes, [id |-> accepted', level |-> LevelOf(r)])
            /\ voteThread' = WakeVoting(voteThread) /\ voteFlusher' = WakeVoting(voteFlusher)
       ELSE UNCHANGED <<votes, accepted, voteThread, voteFlusher>>
    /\ UNCHANGED <<batch, voteActive, voteStopped, processed, repWeight, representatives>>

-----------------------------------------------------------------------------
(* vote_processor::process_loop, flush and stop                              *)

\* votes_l.swap (votes)
TakeVotes_kept == batch' = votes /\ UNCHANGED votes
TakeVotes == batch' = votes /\ votes' = <<>>

VoteLoop ==
    /\ voteThread = "loop"
    /\ IF voteStopped
       THEN voteThread' = "ended" /\ UNCHANGED <<votes, batch, voteActive>>
       ELSE IF votes # <<>>
       THEN voteThread' = "busy" /\ TakeVotes /\ voteActive' = TRUE
       ELSE voteThread' = "waiting" /\ UNCHANGED <<votes, batch, voteActive>>
    /\ UNCHANGED <<voteStopped, repWeight, representatives, voteHistory, voteFlusher>>

BatchNotifies_none == voteFlusher
BatchNotifies == WakeVoting(voteFlusher)

Ids(s) == [i \in DOMAIN s |-> s[i].id]

\* verify_votes and vote_blocking for each; then not active, and notify_all.
VoteBatchDone ==
    /\ voteThread = "busy"
    /\ processed' = processed \o Ids(batch)
    /\ batch' = <<>> /\ voteActive' = FALSE /\ voteThread' = "loop"
    /\ voteFlusher' = BatchNotifies
    /\ UNCHANGED <<votes, voteStopped, repWeight, representatives, accepted>>

VoteFlush ==
    /\ voteFlusher \in {"idle", "loop"}
    /\ voteFlusher' = IF voteActive \/ votes # <<>> THEN "waiting" ELSE "flushed"
    /\ UNCHANGED <<processorQueue, repWeight, representatives, voteHistory>>

VoteStop ==
    /\ ~voteStopped /\ voteStopped' = TRUE
    /\ voteThread' = WakeVoting(voteThread) /\ voteFlusher' = WakeVoting(voteFlusher)
    /\ UNCHANGED <<votes, batch, voteActive, repWeight, representatives, voteHistory>>

-----------------------------------------------------------------------------
VoteProcessorInit ==
    /\ votes = <<>> /\ batch = <<>> /\ voteThread = "loop"
    /\ voteActive = FALSE /\ voteStopped = FALSE
    /\ repWeight \in RepWeights /\ representatives = [k \in 1 .. 3 |-> {}]
    /\ accepted = 0 /\ processed = <<>> /\ voteFlusher = "idle"

VoteThreadStep == VoteLoop \/ VoteBatchDone

VoteProcessorNext ==
    \/ \E r \in VotingRep : VoteArrives(r)
    \/ \E w \in RepWeights : WeightsChange(w)
    \/ CalculateWeights \/ VoteThreadStep \/ VoteFlush \/ VoteStop

-----------------------------------------------------------------------------
\* Every vote that was queued is processed once and in order.
VotesConserved == processed \o Ids(batch) \o Ids(votes) = [i \in 1 .. accepted |-> i]

\* The places of the queue past each level are for heavier representatives only: those
\* with less fill it no further, so the votes that decide elections still find room.
RoomReserved ==
    \A i \in DOMAIN votes : i <= QueueLevels[votes[i].level + 1]

\* flush returns, unless the processor is stopped with votes in its queue.
VoteFlushReturns == []<>(voteFlusher \in {"idle", "flushed"} \/ voteStopped)

\* The thread ends, so that stop can join it.
VoteProcessorStops == []<>(voteStopped => voteThread = "ended")
====
