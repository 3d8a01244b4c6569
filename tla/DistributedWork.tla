---------------------------- MODULE DistributedWork ----------------------------
(***************************************************************************)
(* Proof of work from peers, and from the local pool when they all fail    *)
(* (nano/node/node.cpp: distributed_work, node::work_generate; the RPC     *)
(* work_generate and work_cancel of nano/node/rpc.cpp).                    *)
(*                                                                         *)
(* Each call of a peer reports to a callback of its own, on any of the I/O *)
(* threads: it removes the peer from outstanding under the mutex, then     *)
(* settles.  An object that fails with no local threads is replaced, after *)
(* a while, by one with twice the backoff.                                 *)
(***************************************************************************)
EXTENDS WorkPool

CONSTANTS
    Peer,           \* names in work_peers
    Addresses,      \* [Peer -> the addresses it resolves to]
    Distributed,    \* requests made with work_generate of the node
    BackoffLimit,   \* 300 seconds in handle_failure
    MaxFailures     \* bound: failures of names and peers

VARIABLES
    work,           \* the distributed_work of each request
    failures        \* failures so far

distributedVars == <<work, failures>>
workVars == <<workPoolVars, distributedVars>>

\* outstanding: addresses not heard of; open: connections; heard: callbacks that removed
\* their address, each with last and whether the work was valid.
DistributedWork(phase, backoff) ==
    [phase |-> phase, need_resolve |-> Peer, outstanding |-> {}, open |-> {}, heard |-> {},
     completed |-> FALSE, backoff |-> backoff]

\* distributed_work::handle_failure (last)
LocalWork == work_threads \/ opencl
Backoff(b) == Min({b * 2, BackoffLimit})
HandleFailure(q, w, last) ==
    IF ~last \/ w.completed
    THEN /\ work' = [work EXCEPT ![q] = w]
         /\ UNCHANGED <<workPending, ticket, workDone, workConfig, worker, answers, cancels>>
    ELSE /\ work' = [work EXCEPT ![q] = [w EXCEPT !.completed = TRUE,
                                                  !.phase = IF LocalWork THEN @ ELSE "alarm"]]
         /\ IF LocalWork THEN WorkGenerate(q)
            ELSE UNCHANGED <<workPending, ticket, workDone, workConfig, worker, answers, cancels>>

-----------------------------------------------------------------------------
\* rpc work_generate without peers, and node::work_generate.
RequestWork(q) ==
    /\ q \notin made /\ made' = made \cup {q}
    /\ IF q \in Distributed
       THEN /\ work' = [work EXCEPT ![q] = DistributedWork("resolve", 1)]
            /\ UNCHANGED <<workPending, ticket, workDone, workConfig, worker, answers, cancels>>
       ELSE WorkGenerate(q) /\ UNCHANGED work
    /\ UNCHANGED failures

\* start: names are resolved one after the other.
WorkResolve(q, n, found) ==
    /\ work[q].phase = "resolve" /\ n \in work[q].need_resolve
    /\ found \/ failures < MaxFailures
    /\ failures' = IF found THEN failures ELSE failures + 1
    /\ work' = [work EXCEPT ![q].need_resolve = @ \ {n},
                            ![q].outstanding = IF found THEN @ \cup Addresses[n] ELSE @]
    /\ UNCHANGED workPoolVars

\* start_work: a connection to every address, or there is nobody to ask.
StartWork(q) ==
    /\ work[q].phase = "resolve" /\ work[q].need_resolve = {}
    /\ LET w == [work[q] EXCEPT !.phase = "ask", !.open = work[q].outstanding]
       IN  IF w.open # {}
           THEN work' = [work EXCEPT ![q] = w] /\ UNCHANGED workPoolVars
           ELSE HandleFailure(q, w, TRUE) /\ UNCHANGED made
    /\ UNCHANGED failures

\* remove: whether nobody else is outstanding.
LastToHear_before(q, a) == work[q].outstanding = {}
LastToHear(q, a) == work[q].outstanding \subseteq {a}

\* success or failure, as far as remove.
WorkHeard(q, a, valid) ==
    /\ a \in work[q].open
    /\ valid \/ failures < MaxFailures
    /\ failures' = IF valid THEN failures ELSE failures + 1
    /\ work' = [work EXCEPT ![q].open = @ \ {a}, ![q].outstanding = @ \ {a},
            ![q].heard = @ \cup {[address |-> a, valid |-> valid, last |-> LastToHear(q, a)]}]
    /\ UNCHANGED workPoolVars

\* set_once
SetOnce_always(q) == answers' = Answer(q, "work")
SetOnce(q) == answers' = IF work[q].completed THEN answers ELSE Answer(q, "work")

\* set_once and stop.
WorkSucceeds(q, h) ==
    /\ h \in work[q].heard /\ h.valid
    /\ SetOnce(q)
    /\ work' = [work EXCEPT ![q].heard = @ \ {h}, ![q].completed = TRUE, ![q].outstanding = {}]
    /\ UNCHANGED <<workPending, ticket, workDone, workConfig, worker, made, cancels, failures>>

WorkFails(q, h) ==
    /\ h \in work[q].heard /\ ~h.valid
    /\ HandleFailure(q, [work[q] EXCEPT !.heard = @ \ {h}], h.last)
    /\ UNCHANGED <<made, failures>>

\* The alarm: a new object for the request.
WorkRetry(q) ==
    /\ work[q].phase = "alarm"
    /\ work' = [work EXCEPT ![q] = DistributedWork("resolve", Backoff(@.backoff))]
    /\ UNCHANGED <<workPoolVars, failures>>

DistributedInit ==
    /\ WorkInit
    /\ work = [q \in Distributed |-> DistributedWork("none", 1)] /\ failures = 0

\* What the node does by itself; a name is resolved in time, or not.
DistributedStep(q) ==
    \/ \E n \in Peer : WorkResolve(q, n, TRUE)
    \/ StartWork(q) \/ WorkRetry(q)
    \/ \E h \in work[q].heard : WorkSucceeds(q, h) \/ WorkFails(q, h)

\* What is up to peers, which need not answer: the sockets have no timeout.
PeerAnswers(q) ==
    \/ \E n \in Peer : WorkResolve(q, n, FALSE)
    \/ \E a \in work[q].open : \E valid \in BOOLEAN : WorkHeard(q, a, valid)

PoolStep ==
    \/ \E t \in WorkThread : WorkStep(t)
    \/ \E q \in WorkRequest : WorkCancel(WorkRoot[q])
    \/ WorkStop

\* The requests in asked are made.  The pool outlives the node.
DistributedNext(asked) ==
    \/ PoolStep /\ UNCHANGED distributedVars
    \/ ~workDone /\ \E q \in asked : RequestWork(q)
    \/ ~workDone /\ \E q \in Distributed : DistributedStep(q) \/ PeerAnswers(q)

-----------------------------------------------------------------------------
\* A request made of the node has its answer, is with the pool, waits for the alarm, or
\* has somebody who will settle it: a name, a connection, or a callback that has the last
\* address or valid work.  Exactly one of these, though peers report in any order, their
\* reports overlap, and set_once, stop and remove are separate.
Unsettled(w) ==
    /\ ~w.completed
    /\ \/ w.phase = "resolve"
       \/ w.phase = "ask" /\ (w.open # {} \/ \E h \in w.heard : h.valid \/ h.last)
DistributedAccounted ==
    \A q \in Distributed \cap made :
        LET w == work[q]
            elsewhere == (IF w.phase = "alarm" THEN 1 ELSE 0) + InHand(q)
        IN  IF Unsettled(w) THEN elsewhere = 0 ELSE elsewhere = 1

\* Every request is answered, by a peer or the pool, or cancelled: while names and peers
\* fail finitely often, and unless the pool is destroyed first.  What may wait for good is a
\* request that some peer was asked for and is silent about, and one that was put to a pool
\* without threads (work_generate without peers asks it whatever the configuration, and
\* its device may fail).
Silent(q) == q \in Distributed /\ work[q].open # {}
Threadless(q) == ~work_threads /\ InPool(q) # {}
WorkAnswered == []<>(workDone \/ \A q \in made : answers[q] # <<>> \/ Silent(q) \/ Threadless(q))
====
