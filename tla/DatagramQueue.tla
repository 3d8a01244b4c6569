---------------------------- MODULE DatagramQueue ----------------------------
(***************************************************************************)
(* What the datagram buffers promise the node, as the comment of           *)
(* udp_buffer puts it (nano/node/node.hpp): datagrams are serviced in the  *)
(* order they were queued, each by one thread, and when they are not       *)
(* serviced fast enough the oldest one is dropped.                         *)
(***************************************************************************)
EXTENDS Naturals, Sequences, FiniteSets

CONSTANTS
    Datagram,   \* contents of a datagram
    Reader,     \* the threads that service datagrams
    Nothing,    \* not a datagram
    Room        \* how many datagrams are kept before one is dropped

VARIABLES
    queue,      \* the datagrams that wait
    taken       \* the datagram each reader services

Kept == Len(queue) + Cardinality({p \in Reader : taken[p] # Nothing})

Put(d) == queue' = Append(queue, d) /\ UNCHANGED taken

Take(p) ==
    /\ queue # <<>> /\ taken[p] = Nothing
    /\ taken' = [taken EXCEPT ![p] = Head(queue)]
    /\ queue' = Tail(queue)

Serviced(p) ==
    /\ taken[p] # Nothing
    /\ taken' = [taken EXCEPT ![p] = Nothing]
    /\ UNCHANGED queue

\* A datagram is lost only when the room is used up, and then it is the oldest.
Drop ==
    /\ queue # <<>> /\ Kept >= Room
    /\ queue' = Tail(queue) /\ UNCHANGED taken

Init == queue = <<>> /\ taken = [p \in Reader |-> Nothing]

Next ==
    \/ \E d \in Datagram : Put(d)
    \/ \E p \in Reader : Take(p) \/ Serviced(p)
    \/ Drop

Spec == Init /\ [][Next]_<<queue, taken>>
=============================================================================
