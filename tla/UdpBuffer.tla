------------------------------ MODULE UdpBuffer ------------------------------
(***************************************************************************)
(* The datagram buffers of the node and the threads around them            *)
(* (nano/node/node.cpp: udp_buffer, network::receive, process_packets and  *)
(* stop).                                                                  *)
(*                                                                         *)
(* A receiver is one chain of calls of receive and its callback, of which  *)
(* start makes io_threads; a processor is a packet processing thread.      *)
(* Every method of udp_buffer runs under its mutex and is one step; a      *)
(* thread that waits for the condition variable tests again after every    *)
(* notify_all.  receive holds socket_mutex while it waits in allocate.     *)
(***************************************************************************)
EXTENDS Integers, Sequences, FiniteSets

CONSTANTS
    Receiver,   \* chains of network::receive
    Processor,  \* packet processing threads
    Count,      \* buffers, 4096 in network::network
    Datagram,   \* contents of a datagram
    Empty       \* no datagram, and no buffer

\* There are more buffers than threads.
ASSUME ThreadsFinite ==
    /\ IsFiniteSet(Receiver) /\ IsFiniteSet(Processor)
    /\ Receiver # {} /\ Processor # {}
    /\ Count \in Nat /\ Count > Cardinality(Receiver) + Cardinality(Processor)
    /\ Empty \notin Datagram

Buffer == 1 .. Count

VARIABLES
    free, full,     \* buffers to fill, and filled ones to service
    content,        \* the datagram in each buffer
    udpStopped,     \* udp_buffer::stop was called
    on, closed,     \* network::on; the socket is closed
    receiver,       \* what each receiver does
    rdata,          \* the buffer it holds
    processor,      \* what each processor does
    pdata           \* the buffer it holds

bufferVars == <<free, full, content, udpStopped>>
netVars == <<on, closed>>
receiverVars == <<receiver, rdata>>
processorVars == <<processor, pdata>>
udpVars == <<bufferVars, netVars, receiverVars, processorVars>>

ReceiverHolds == {"posted", "filled", "failed"}
Holding == {r \in Receiver : receiver[r] \in ReceiverHolds}
Busy == {p \in Processor : processor[p] = "busy"}

\* The waiting threads a notify_all wakes.
Wake_none(state) == state
Wake(state) == [t \in DOMAIN state |-> IF state[t] = "waiting" THEN "woken" ELSE state[t]]

-----------------------------------------------------------------------------
(* network::receive: allocate, and post the buffer to the socket.            *)

\* A receiver that waits in allocate holds socket_mutex.
SocketFree(r) == \A s \in Receiver \ {r} : receiver[s] \notin {"waiting", "woken"}
Receives(r) == receiver[r] \in {"ready", "woken"} /\ SocketFree(r)
Posts(r, b) ==
    /\ receiver' = [receiver EXCEPT ![r] = "posted"]
    /\ rdata' = [rdata EXCEPT ![r] = b]

\* A free buffer is the first choice.
AllocateFree(r) ==
    /\ Receives(r) /\ free # <<>>
    /\ Posts(r, Head(free)) /\ free' = Tail(free)
    /\ UNCHANGED <<full, content, udpStopped, netVars, processorVars>>

\* The oldest unserviced one is dropped.
Oldest_kept == <<Head(full), full>>
Oldest_last == <<full[Len(full)], SubSeq(full, 1, Len(full) - 1)>>
Oldest == <<Head(full), Tail(full)>>
AllocateFull(r) ==
    /\ Receives(r) /\ free = <<>> /\ full # <<>>
    /\ Posts(r, Oldest[1]) /\ full' = Oldest[2]
    /\ UNCHANGED <<free, content, udpStopped, netVars, processorVars>>

\* Neither: wait; or, after stop, take the front of an empty queue, which is undefined.
AllocateNone(r) ==
    /\ Receives(r) /\ free = <<>> /\ full = <<>>
    /\ receiver' = [receiver EXCEPT ![r] = IF udpStopped THEN "undefined" ELSE "waiting"]
    /\ UNCHANGED <<bufferVars, netVars, rdata, processorVars>>

Allocate(r) ==
    IF free # <<>> THEN AllocateFree(r) ELSE IF full # <<>> THEN AllocateFull(r) ELSE AllocateNone(r)

\* The socket calls back: with a datagram, or with an error such as its being closed.
Filled(r, d) ==
    /\ receiver[r] = "posted" /\ ~closed
    /\ content' = [content EXCEPT ![rdata[r]] = d]
    /\ receiver' = [receiver EXCEPT ![r] = IF on THEN "filled" ELSE "failed"]
    /\ UNCHANGED <<free, full, udpStopped, netVars, rdata, processorVars>>

Failed(r) ==
    /\ receiver[r] = "posted"
    /\ receiver' = [receiver EXCEPT ![r] = "failed"]
    /\ UNCHANGED <<bufferVars, netVars, rdata, processorVars>>

\* enqueue, and receive the next one.
Enqueue(r) ==
    /\ receiver[r] = "filled"
    /\ full' = Append(full, rdata[r])
    /\ receiver' = [Wake(receiver) EXCEPT ![r] = "ready"]
    /\ rdata' = [rdata EXCEPT ![r] = Empty]
    /\ processor' = Wake(processor)
    /\ UNCHANGED <<free, content, udpStopped, netVars, pdata>>

\* udp_buffer::release
Returned(b) == Append(free, b)

\* release, and receive again after five seconds unless the network is off.
ReleaseFailed(r) ==
    /\ receiver[r] = "failed"
    /\ free' = Returned(rdata[r])
    /\ receiver' = [Wake(receiver) EXCEPT ![r] = IF on THEN "ready" ELSE "off"]
    /\ rdata' = [rdata EXCEPT ![r] = Empty]
    /\ processor' = Wake(processor)
    /\ UNCHANGED <<full, content, udpStopped, netVars, pdata>>

-----------------------------------------------------------------------------
(* network::process_packets                                                  *)

\* while (on.load ())
Loop(p) ==
    /\ processor[p] = "loop"
    /\ processor' = [processor EXCEPT ![p] = IF on THEN "woken" ELSE "done"]
    /\ UNCHANGED <<bufferVars, netVars, receiverVars, pdata>>

Dequeue(p) ==
    /\ processor[p] = "woken" /\ full # <<>>
    /\ processor' = [processor EXCEPT ![p] = "busy"]
    /\ pdata' = [pdata EXCEPT ![p] = Oldest[1]] /\ full' = Oldest[2]
    /\ UNCHANGED <<free, content, udpStopped, netVars, receiverVars>>

DequeueNone(p) ==
    /\ processor[p] = "woken" /\ full = <<>>
    /\ processor' = [processor EXCEPT ![p] = IF udpStopped THEN "done" ELSE "waiting"]
    /\ UNCHANGED <<bufferVars, netVars, receiverVars, pdata>>

\* receive_action has read the buffer, and release returns it.
Release(p) ==
    /\ processor[p] = "busy"
    /\ free' = Returned(pdata[p])
    /\ processor' = [Wake(processor) EXCEPT ![p] = "loop"]
    /\ pdata' = [pdata EXCEPT ![p] = Empty]
    /\ receiver' = Wake(receiver)
    /\ UNCHANGED <<full, content, udpStopped, netVars, rdata>>

-----------------------------------------------------------------------------
(* network::stop: the flag, then under socket_mutex the socket and buffers.  *)

StopOn ==
    /\ on /\ on' = FALSE
    /\ UNCHANGED <<bufferVars, closed, receiverVars, processorVars>>

StopBuffers ==
    /\ ~on /\ ~udpStopped
    /\ \A r \in Receiver : receiver[r] \notin {"waiting", "woken"}
    /\ closed' = TRUE /\ udpStopped' = TRUE
    /\ processor' = Wake(processor)
    /\ UNCHANGED <<free, full, content, on, receiverVars, pdata>>

UdpInit ==
    /\ free = [i \in Buffer |-> i] /\ full = <<>>
    /\ content = [b \in Buffer |-> Empty]
    /\ udpStopped = FALSE /\ on = TRUE /\ closed = FALSE
    /\ receiver = [r \in Receiver |-> "ready"] /\ rdata = [r \in Receiver |-> Empty]
    /\ processor = [p \in Processor |-> "loop"] /\ pdata = [p \in Processor |-> Empty]

ReceiverStep(r) == Allocate(r) \/ Enqueue(r) \/ ReleaseFailed(r)
ProcessorStep(p) == Loop(p) \/ Dequeue(p) \/ DequeueNone(p) \/ Release(p)

UdpNext ==
    \/ \E r \in Receiver : ReceiverStep(r) \/ Failed(r) \/ \E d \in Datagram : Filled(r, d)
    \/ \E p \in Processor : ProcessorStep(p)
    \/ StopOn \/ StopBuffers

UdpSpec == UdpInit /\ [][UdpNext]_udpVars

-----------------------------------------------------------------------------
UdpTypeOK ==
    /\ free \in Seq(Buffer) /\ full \in Seq(Buffer)
    /\ content \in [Buffer -> Datagram \cup {Empty}]
    /\ udpStopped \in BOOLEAN /\ on \in BOOLEAN /\ closed \in BOOLEAN
    /\ receiver \in [Receiver -> ReceiverHolds \cup {"ready", "waiting", "woken", "off", "undefined"}]
    /\ rdata \in [Receiver -> Buffer \cup {Empty}]
    /\ processor \in [Processor -> {"loop", "woken", "waiting", "busy", "done"}]
    /\ pdata \in [Processor -> Buffer \cup {Empty}]

\* No buffer is in two places: free, queued, or with the one thread that may touch it.
\* Nothing else keeps the socket from writing into a buffer that a thread reads.
Distinct(s) == \A i, j \in 1 .. Len(s) : s[i] = s[j] => i = j
Without(s, b) == \A i \in 1 .. Len(s) : s[i] # b
BuffersExclusive ==
    /\ Distinct(free) /\ Distinct(full)
    /\ \A i \in 1 .. Len(full) : Without(free, full[i])
    /\ \A r \in Holding : Without(free, rdata[r]) /\ Without(full, rdata[r])
    /\ \A p \in Busy : Without(free, pdata[p]) /\ Without(full, pdata[p])
    /\ \A r \in Holding, p \in Busy : rdata[r] # pdata[p]
    /\ \A r, s \in Holding : rdata[r] = rdata[s] => r = s
    /\ \A p, q \in Busy : pdata[p] = pdata[q] => p = q

\* allocate is never called with nothing to give: while buffers outnumber the threads
\* it does not block (holding socket_mutex), and after stop it does not take the front
\* of an empty queue.
AllocateDefined == \A r \in Receiver : receiver[r] \notin {"waiting", "undefined"}

\* The buffers implement the queue their comment promises: the datagrams in the full
\* buffers are its queue, and a thread services the contents of the buffer it holds.
\* A datagram is dropped only when all but Receiver - 1 buffers are queued or serviced.
Queued == [i \in DOMAIN full |-> content[full[i]]]
Servicing == [p \in Processor |-> IF p \in Busy THEN content[pdata[p]] ELSE Empty]
Queue == INSTANCE DatagramQueue
    WITH Reader <- Processor, Nothing <- Empty, Room <- Count - Cardinality(Receiver) + 1,
         queue <- Queued, taken <- Servicing
ImplementsQueue == Queue!Spec

\* While the network is on, a filled buffer does not stay queued: it is serviced, or
\* dropped for a newer one.
BuffersServiced == \A b \in Buffer :
    []<>(~on \/ ~\E i \in DOMAIN full : full[i] = b)

\* After stop every packet thread ends, as the destructor's join needs, and every
\* receiver gives its buffer back.
NetworkStops ==
    []<>(~on => /\ \A p \in Processor : processor[p] = "done"
                /\ \A r \in Receiver : receiver[r] = "off")
====
