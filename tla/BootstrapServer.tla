--------------------------- MODULE BootstrapServer ---------------------------
(***************************************************************************)
(* The serving side of bootstrapping: the listener that accepts            *)
(* connections, and on each connection the queue of requests and the       *)
(* responses that work it off one after the other                          *)
(* (nano/node/bootstrap.cpp: bootstrap_listener, bootstrap_server,         *)
(* request_response_visitor, bulk_push_server).                            *)
(*                                                                         *)
(* What a response sends is in BulkPull, Frontiers and PendingPull; here   *)
(* it is written to the end or breaks.  A connection lives as long as a    *)
(* read, a response or a push holds it; the sockets the listener accepts   *)
(* have no timeout (checkup is only called by async_connect).              *)
(***************************************************************************)
EXTENDS Integers, Sequences, FiniteSetsExt, Tables

CONSTANTS
    Link,           \* connections
    Streams,        \* requests with a response: bulk_pull, bulk_pull_account, frontier_req, keepalive
    MaxLinks,       \* bootstrap_connections_max
    MaxAsked        \* bound on the requests of the connections there are

VARIABLES
    listener,       \* open: acceptor; accept: what it waits for; closing: what stop closes
    links           \* the connections of the listener

serverVars == <<listener, links>>

\* reads are the outstanding reads of the socket: of a header, of the payload of a
\* request, or of a block that is pushed; writes the responses at work; stuck that a
\* thread waits for the mutex of the connection, which it holds itself.
NewLink ==
    [reads |-> <<"header">>, requests |-> <<>>, writes |-> <<>>, stuck |-> FALSE,
     asked |-> <<>>, answered |-> <<>>]

Without(s, x) == SelectSeq(s, LAMBDA y : y # x)
Reading(c, what) == c \in DOMAIN links /\ \E i \in DOMAIN links[c].reads : links[c].reads[i] = what

\* run_next: the response to the first request begins.  A push is not taken while the
\* node has a bootstrap of its own (busy).  A bulk_pull_account with flags it does not
\* know ("invalid") is finished at once, by finish_request, which locks the mutex that
\* add_request or finish_request holds around run_next.
run_next(l, busy) ==
    CASE l.requests = <<>> -> l
      [] l.requests # <<>> /\ l.requests[1] = "bulk_push" ->
            IF busy THEN l ELSE [l EXCEPT !.reads = Append(@, "block")]
      [] l.requests # <<>> /\ l.requests[1] = "invalid" -> [l EXCEPT !.stuck = TRUE]
      [] OTHER -> [l EXCEPT !.writes = Append(@, l.requests[1])]

add_request_run(l, type, busy) ==
    run_next([l EXCEPT !.requests = Append(@, type), !.asked = Append(@, type)], busy)
add_request(l, type, busy) ==
    LET more == [l EXCEPT !.requests = Append(@, type), !.asked = Append(@, type)]
    IN  IF l.stuck THEN l
        ELSE IF l.requests = <<>> THEN run_next(more, busy) ELSE more

finish_request_keep(l, busy) ==
    run_next([l EXCEPT !.answered = Append(@, l.requests[1])], busy)
finish_request(l, busy) ==
    run_next([l EXCEPT !.requests = Tail(@), !.answered = Append(@, l.requests[1])], busy)

Room == MapThenSumSet(LAMBDA c : Len(links[c].asked), DOMAIN links) < MaxAsked
Update(c, l) == links' = [links EXCEPT ![c] = l] /\ UNCHANGED listener

\* receive_header_action: a push is queued at once and the header of the next message
\* is not read; of any other request the payload is read first.
BulkPush_receive(l, busy) ==
    [add_request([l EXCEPT !.reads = Without(@, "header")], "bulk_push", busy)
       EXCEPT !.reads = Append(@, "header")]
BulkPush(l, busy) ==
    add_request([l EXCEPT !.reads = Without(@, "header")], "bulk_push", busy)

receive_header_action(c) ==
    /\ Reading(c, "header")
    /\ \/ Update(c, [links[c] EXCEPT !.reads = Append(Without(@, "header"), "payload")])
       \/ /\ Room
          /\ \E busy \in BOOLEAN : Update(c, BulkPush(links[c], busy))

\* receive_bulk_pull_action and its like: the request is queued and the next header
\* read meanwhile, if add_request returns.
receive_request_action(c, type) ==
    /\ Reading(c, "payload") /\ Room
    /\ \E busy \in BOOLEAN :
       LET l == add_request([links[c] EXCEPT !.reads = Without(@, "payload")], type, busy)
       IN  Update(c, IF l.stuck THEN l ELSE [l EXCEPT !.reads = Append(@, "header")])

\* A read fails: an error, the end of the stream or an unknown message.
ReadError(c) ==
    \E what \in {"header", "payload", "block"} :
        Reading(c, what) /\ Update(c, [links[c] EXCEPT !.reads = Without(@, what)])

\* The last write of a response, or a write that fails.
ResponseSent(c) ==
    /\ c \in DOMAIN links /\ links[c].writes # <<>>
    /\ \E busy \in BOOLEAN :
         Update(c, finish_request([links[c] EXCEPT !.writes = Tail(@)], busy))

ResponseError(c) ==
    /\ c \in DOMAIN links /\ links[c].writes # <<>>
    /\ Update(c, [links[c] EXCEPT !.writes = Tail(@)])

\* bulk_push_server: a block was received and processed, or the push ends.
received_block(c) ==
    /\ Reading(c, "block")
    /\ \E busy \in BOOLEAN :
        \/ Update(c, IF busy THEN [links[c] EXCEPT !.reads = Without(@, "block")] ELSE links[c])
        \/ Update(c, finish_request([links[c] EXCEPT !.reads = Without(@, "block")], busy))

\* ~bootstrap_server
InUse(c) == links[c].reads # <<>> \/ links[c].writes # <<>> \/ links[c].stuck
Destroyed_kept(c) ==
    /\ c \in DOMAIN links /\ ~InUse(c)
    /\ UNCHANGED <<links, listener>>
Destroyed(c) ==
    /\ c \in DOMAIN links /\ ~InUse(c)
    /\ links' = Del(links, c)
    /\ listener' = [listener EXCEPT !.closing = @ \ {c}]

-----------------------------------------------------------------------------
(* bootstrap_listener *)

\* The map of connections: stop has taken out those it closes.
connections == DOMAIN links \ listener.closing

\* accept_connection: wait for one, or for a second when there are too many.
Full_late == Cardinality(connections) > MaxLinks
Full == Cardinality(connections) >= MaxLinks
accept_connection ==
    /\ listener.accept \in {"start", "timer"} /\ listener.open
    /\ listener' = [listener EXCEPT !.accept = IF Full THEN "timer" ELSE "accept"]
    /\ UNCHANGED links

\* accept_action.  It goes on to accept_connection.
accept_action(c) ==
    /\ listener.accept = "accept" /\ listener.open /\ c \notin DOMAIN links
    /\ links' = Put(links, c, NewLink)
    /\ listener' = [listener EXCEPT !.accept = "start"]

\* An error of the acceptor ends the accepting for good.
AcceptError ==
    /\ listener.accept = "accept"
    /\ listener' = [listener EXCEPT !.accept = "none"]
    /\ UNCHANGED links

\* stop: the connections are taken out of the map under the lock; the acceptor and
\* then their sockets are closed.  A closed socket fails its reads and writes.
stop ==
    /\ listener.on
    /\ listener' = [listener EXCEPT !.on = FALSE, !.closing = DOMAIN links]
    /\ UNCHANGED links

stop_close ==
    /\ ~listener.on /\ listener.open
    /\ listener' = [listener EXCEPT !.open = FALSE, !.accept = "none"]
    /\ links' = [c \in DOMAIN links |->
                   IF c \in listener.closing
                   THEN [links[c] EXCEPT !.reads = <<>>, !.writes = <<>>] ELSE links[c]]

ServerInit ==
    /\ listener = [on |-> TRUE, open |-> TRUE, accept |-> "start", closing |-> {}]
    /\ links = <<>>

\* What the node does by itself; the rest takes a peer.
Cleaning == \E c \in Link : Destroyed(c)

ServerNext ==
    \/ accept_connection \/ Cleaning \/ AcceptError \/ stop \/ stop_close
    \/ \E c \in Link :
        \/ accept_action(c) \/ ReadError(c) \/ ResponseSent(c) \/ ResponseError(c)
        \/ receive_header_action(c) \/ received_block(c)
        \/ \E type \in Streams \cup {"invalid"} : receive_request_action(c, type)

-----------------------------------------------------------------------------
\* The socket is read by one party at a time: the connection reads the next request
\* while a response is written, but leaves the stream to bulk_push_server for the
\* blocks that follow a push.
OneReader == \A c \in DOMAIN links : Len(links[c].reads) <= 1

\* The socket is written by the response to the first request only.
OneWriter ==
    \A c \in DOMAIN links :
        links[c].writes = <<>> \/ links[c].writes = <<links[c].requests[1]>>

\* Requests are answered in the order they were made, and every one once.
AnsweredInOrder ==
    \A c \in DOMAIN links : links[c].asked = links[c].answered \o links[c].requests

\* The map never holds more connections than configured, although the test of its size
\* and the entry of the connection that is accepted are two steps.
LinksBounded == Cardinality(connections) <= MaxLinks

\* A listener that was full does not go on waiting while fewer connections than the limit
\* are in use: every connection that ends is taken out of the map, and the timer looks again.
\* A peer that neither sends nor reads keeps its connection, and so does a stuck one.
AcceptsAgain ==
    []<>(\/ listener.accept # "timer"
         \/ Cardinality({c \in connections : InUse(c)}) >= MaxLinks)
====
