---------------------------- MODULE VoteGenerator ----------------------------
(***************************************************************************)
(* The vote generator (nano/node/voting.cpp: vote_generator): its thread   *)
(* collects hashes for a while and votes for up to PerVote of them with    *)
(* one vote.  Hashes are numbered in the order they are added.             *)
(***************************************************************************)
EXTENDS Integers, Sequences

LOCAL INSTANCE SequencesExt

CONSTANTS
    PerVote,        \* 12 hashes in a vote
    MaxAdded        \* bound: hashes added

VARIABLES
    hashes,         \* added, and not voted for
    added,          \* how many were added
    generator,      \* where the thread is
    bundle,         \* hashes_l of send
    cutoff,         \* "min", "ahead" or "past"
    generatorStopped,
    sentVotes       \* the hashes of each vote

generatorVars == <<hashes, added, generator, bundle, cutoff, generatorStopped, sentVotes>>

-----------------------------------------------------------------------------
\* A wait of the thread ends when it is notified.
WakeGenerator_none(state) == state
WakeGenerator(state) == IF state \in {"waiting", "timed"} THEN "loop" ELSE state

GeneratorAdd ==
    /\ added < MaxAdded /\ added' = added + 1
    /\ hashes' = Append(hashes, added + 1)
    /\ generator' = WakeGenerator(generator)
    /\ UNCHANGED <<bundle, cutoff, generatorStopped, sentVotes>>

\* send, as far as it holds the mutex: the first hashes leave the queue.
SendBegins_cleared(n) ==
    /\ bundle' = SubSeq(hashes, 1, n) /\ hashes' = <<>>
    /\ generator' = "send"
SendBegins(n) ==
    /\ bundle' = SubSeq(hashes, 1, n) /\ hashes' = SubSeq(hashes, n + 1, Len(hashes))
    /\ generator' = "send"

Due_full == Len(hashes) >= PerVote
Due == hashes # <<>>

\* The loop of run.  A wait for the cutoff ends by it or by a notification.
GeneratorLoop ==
    /\ generator = "loop"
    /\ IF generatorStopped THEN generator' = "ended" /\ UNCHANGED <<hashes, bundle, cutoff>>
       ELSE IF Len(hashes) >= PerVote THEN SendBegins(PerVote) /\ UNCHANGED cutoff
       ELSE IF cutoff # "past"
       THEN cutoff' = "ahead" /\ generator' = "timed" /\ UNCHANGED <<hashes, bundle>>
       ELSE /\ cutoff' = "min"
            /\ IF Due THEN SendBegins(Len(hashes))
               ELSE generator' = "waiting" /\ UNCHANGED <<hashes, bundle>>
    /\ UNCHANGED <<added, generatorStopped, sentVotes>>

\* Time passes the cutoff, whatever the thread does.
GeneratorTime ==
    /\ cutoff = "ahead" /\ cutoff' = "past"
    /\ generator' = IF generator = "timed" THEN "loop" ELSE generator
    /\ UNCHANGED <<hashes, added, bundle, generatorStopped, sentVotes>>

\* The rest of send: a vote for the bundle.
GeneratorSend ==
    /\ generator = "send" /\ generator' = "loop"
    /\ sentVotes' = Append(sentVotes, bundle) /\ bundle' = <<>>
    /\ UNCHANGED <<hashes, added, cutoff, generatorStopped>>

GeneratorStop ==
    /\ ~generatorStopped /\ generatorStopped' = TRUE
    /\ generator' = WakeGenerator(generator)
    /\ UNCHANGED <<hashes, added, bundle, cutoff, sentVotes>>

GeneratorInit ==
    /\ hashes = <<>> /\ added = 0 /\ generator = "loop" /\ bundle = <<>> /\ cutoff = "min"
    /\ generatorStopped = FALSE /\ sentVotes = <<>>

GeneratorStep == GeneratorLoop \/ GeneratorSend
GeneratorNext == GeneratorAdd \/ GeneratorStep \/ GeneratorTime \/ GeneratorStop

-----------------------------------------------------------------------------
\* Every hash is voted for once, in the order it was added, though hashes are added while
\* a vote is being made.
HashesConserved ==
    FlattenSeq(sentVotes) \o bundle \o hashes = [i \in 1 .. added |-> i]

\* A hash added to the generator is voted for, unless the node stops.
HashVoted == []<>(generatorStopped \/ Len(FlattenSeq(sentVotes)) = added)

\* The thread ends, so that stop can join it.
GeneratorStops == []<>(generatorStopped => generator = "ended")
====
