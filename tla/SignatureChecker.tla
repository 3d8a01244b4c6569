--------------------------- MODULE SignatureChecker ---------------------------
(***************************************************************************)
(* The signature checker, its two callers and the node's shutdown          *)
(* (nano/node/signatures.cpp; verify is called by the block processor's    *)
(* and the vote processor's thread; nano/node/node.cpp: node::stop).       *)
(*                                                                         *)
(* verify splits a set of signatures between the pool and the caller.      *)
(* flush and stop hold the mutex while they spin or join; verify only      *)
(* takes it to look at stopped.  What is posted to a pool that was joined  *)
(* never runs.  The signatures of a set are numbered from 1.               *)
(***************************************************************************)
EXTENDS Integers, Sequences, FiniteSets

CONSTANTS
    PoolThread,     \* threads of the pool, num_threads of them
    BatchSize,      \* 256
    Cutoff,         \* multithreaded_cutoff, 513
    SetSizes        \* sizes of the sets the callers verify

ASSUME SplitAssumption ==
    /\ IsFiniteSet(PoolThread)
    /\ BatchSize \in Nat \ {0} /\ Cutoff \in Nat /\ Cutoff >= 2 * BatchSize
    /\ SetSizes \subseteq Nat

num_threads == Cardinality(PoolThread)

VARIABLES
    checker,        \* stopped, the state of the pool, tasks_remaining, who has the mutex
    jobs,           \* batches posted to the pool, which takes them in order
    running,        \* the batch each thread of the pool verifies
    verify,         \* what each caller does with its set
    halt,           \* stopped, of each of the two processors
    flushing,       \* a thread that calls block_processor::flush
    stopping        \* where node::stop is

checkerVars == <<checker, jobs, running, verify, halt, flushing, stopping>>

Callers == {"blocks", "votes"}
NoJob == [caller |-> "none", batch |-> 0]
Call(at, size) == [at |-> at, size |-> size, checked |-> {}, pending |-> 0, promise |-> FALSE]

-----------------------------------------------------------------------------
(* How verify splits a set: batches for the pool, the rest for the caller.   *)

base_batches(size) == (size \div BatchSize) \div (num_threads + 1)
overflow_batches(size) == (size \div BatchSize) % (num_threads + 1)

size_calling_thread(size) ==
    base_batches(size) * BatchSize + (size % BatchSize)
        + (IF overflow_batches(size) > 0 THEN BatchSize ELSE 0)

batches_thread_all(size) == base_batches(size) * num_threads + overflow_batches(size)
batches_thread(size) ==
    base_batches(size) * num_threads
        + (IF overflow_batches(size) > 0 THEN overflow_batches(size) - 1 ELSE 0)

\* The signatures of one batch, and of the calling thread.
OfBatch(b) == (b - 1) * BatchSize + 1 .. b * BatchSize
OfCaller(size) == size - size_calling_thread(size) + 1 .. size

Threaded_any(size) == num_threads > 0
Threaded(size) == size >= Cutoff /\ num_threads > 0

-----------------------------------------------------------------------------
(* signature_checker::verify                                                 *)

MutexFree == checker.mutex = "none"

\* Nothing is verified once the checker has stopped.
VerifyEnter(c, size) ==
    /\ verify[c].at = "idle" /\ ~halt[c] /\ MutexFree
    /\ verify' = [verify EXCEPT ![c] = Call(IF checker.stopped THEN "returned" ELSE "entered", size)]
    /\ UNCHANGED <<checker, jobs, running, halt, flushing, stopping>>

\* A small set stays with the caller; of a large one, batches are posted (verify_async).
VerifyOwn(c) ==
    /\ verify[c].at = "entered" /\ ~Threaded(verify[c].size)
    /\ verify' = [verify EXCEPT ![c].at = "returned", ![c].checked = 1 .. verify[c].size]
    /\ UNCHANGED <<checker, jobs, running, halt, flushing, stopping>>

VerifyPost(c) ==
    LET n == batches_thread(verify[c].size)
    IN  /\ verify[c].at = "entered" /\ Threaded(verify[c].size)
        /\ verify' = [verify EXCEPT ![c].at = "posted", ![c].pending = n]
        /\ jobs' = jobs \o [b \in 1 .. n |-> [caller |-> c, batch |-> b]]
        /\ checker' = [checker EXCEPT !.tasks_remaining = @ + 1]
        /\ UNCHANGED <<running, halt, flushing, stopping>>

\* The caller's own part, then future.wait.
VerifyRest(c) ==
    /\ verify[c].at = "posted"
    /\ verify' = [verify EXCEPT ![c].at = "wait", ![c].checked = @ \cup OfCaller(verify[c].size)]
    /\ UNCHANGED <<checker, jobs, running, halt, flushing, stopping>>

PromiseSet_early(c) == TRUE
PromiseSet(c) == verify[c].promise
VerifyWait(c) ==
    /\ verify[c].at = "wait" /\ PromiseSet(c)
    /\ verify' = [verify EXCEPT ![c].at = "returned"]
    /\ UNCHANGED <<checker, jobs, running, halt, flushing, stopping>>

\* The caller uses the verifications and loops, until its processor is stopped.
VerifyLoop(c) ==
    /\ verify[c].at \in {"idle", "returned"}
    /\ verify[c].at = "returned" \/ halt[c]
    /\ verify' = [verify EXCEPT ![c] = Call(IF halt[c] THEN "ended" ELSE "idle", 0)]
    /\ UNCHANGED <<checker, jobs, running, halt, flushing, stopping>>

-----------------------------------------------------------------------------
(* The pool                                                                  *)

PoolTake(t) ==
    /\ checker.pool # "joined" /\ running[t] = NoJob /\ jobs # <<>>
    /\ running' = [running EXCEPT ![t] = Head(jobs)] /\ jobs' = Tail(jobs)
    /\ UNCHANGED <<checker, verify, halt, flushing, stopping>>

\* verify_batch; the last batch of a set completes the task and sets the promise.
LastBatch_any(c) == TRUE
LastBatch_none(c) == FALSE
LastBatch(c) == verify[c].pending = 1
PoolVerify(t) ==
    LET j == running[t] IN
    /\ j # NoJob
    /\ running' = [running EXCEPT ![t] = NoJob]
    /\ verify' = [verify EXCEPT ![j.caller].checked = @ \cup OfBatch(j.batch),
                                ![j.caller].pending = @ - 1,
                                ![j.caller].promise = @ \/ LastBatch(j.caller)]
    /\ checker' = [checker EXCEPT !.tasks_remaining = IF LastBatch(j.caller) THEN @ - 1 ELSE @]
    /\ UNCHANGED <<jobs, halt, flushing, stopping>>

-----------------------------------------------------------------------------
(* signature_checker::flush, called by block_processor::flush                *)

CheckerFlush ==
    /\ flushing = "idle" /\ MutexFree
    /\ flushing' = "spin" /\ checker' = [checker EXCEPT !.mutex = "flush"]
    /\ UNCHANGED <<jobs, running, verify, halt, stopping>>

CheckerFlushed ==
    /\ flushing = "spin" /\ (checker.stopped \/ checker.tasks_remaining = 0)
    /\ flushing' = "flushed" /\ checker' = [checker EXCEPT !.mutex = "none"]
    /\ UNCHANGED <<jobs, running, verify, halt, stopping>>

-----------------------------------------------------------------------------
(* node::stop: stop and join the block processor, then the vote processor,   *)
(* then stop the checker.                                                    *)

StopBlocks ==
    /\ stopping = "on" /\ stopping' = "blocks"
    /\ halt' = [halt EXCEPT !["blocks"] = TRUE]
    /\ UNCHANGED <<checker, jobs, running, verify, flushing>>

StopVotes ==
    /\ stopping = "blocks" /\ verify["blocks"].at = "ended"
    /\ stopping' = "votes" /\ halt' = [halt EXCEPT !["votes"] = TRUE]
    /\ UNCHANGED <<checker, jobs, running, verify, flushing>>

Joined(c) == verify[c].at = "ended"
StopChecker ==
    /\ stopping = "votes" /\ Joined("votes") /\ MutexFree
    /\ stopping' = "checker"
    /\ checker' = [checker EXCEPT !.stopped = TRUE, !.mutex = "stop", !.pool = "joining"]
    /\ UNCHANGED <<jobs, running, verify, halt, flushing>>

PoolJoined ==
    /\ stopping = "checker" /\ jobs = <<>> /\ \A t \in PoolThread : running[t] = NoJob
    /\ stopping' = "off" /\ checker' = [checker EXCEPT !.mutex = "none", !.pool = "joined"]
    /\ UNCHANGED <<jobs, running, verify, halt, flushing>>

CheckerInit ==
    /\ checker = [stopped |-> FALSE, pool |-> "open", tasks_remaining |-> 0, mutex |-> "none"]
    /\ jobs = <<>> /\ running = [t \in PoolThread |-> NoJob]
    /\ verify = [c \in Callers |-> Call("idle", 0)]
    /\ halt = [c \in Callers |-> FALSE]
    /\ flushing = "idle" /\ stopping = "on"

CallerStep(c) == VerifyOwn(c) \/ VerifyPost(c) \/ VerifyRest(c) \/ VerifyWait(c) \/ VerifyLoop(c)
PoolThreadStep(t) == PoolTake(t) \/ PoolVerify(t)
StopStep == StopVotes \/ StopChecker \/ PoolJoined

CheckerNext ==
    \/ \E c \in Callers : CallerStep(c) \/ \E n \in SetSizes : VerifyEnter(c, n)
    \/ \E t \in PoolThread : PoolThreadStep(t)
    \/ CheckerFlush \/ CheckerFlushed
    \/ StopBlocks \/ StopStep

CheckerSpec == CheckerInit /\ [][CheckerNext]_checkerVars

-----------------------------------------------------------------------------
\* When verify returns, every signature of the set was verified: a set is not used with
\* verifications that nobody wrote, though flush and the shutdown run at any moment.
VerifiedWhole ==
    \A c \in Callers : verify[c].at = "returned" => verify[c].checked = 1 .. verify[c].size

\* The parts of a set that are verified at the same time are apart, and no batch reaches
\* past the set: no two threads write the same verification.
InPoolNow == {jobs[i] : i \in DOMAIN jobs} \cup {running[t] : t \in PoolThread}
Parts(c) ==
    {OfBatch(j.batch) : j \in {i \in InPoolNow : i.caller = c}}
VerifiedOnce ==
    \A c \in Callers : verify[c].at \in {"posted", "wait"} =>
        \A p \in Parts(c) :
            /\ p \subseteq 1 .. verify[c].size
            /\ p \cap verify[c].checked = {} /\ p \cap OfCaller(verify[c].size) = {}

\* tasks_remaining counts the sets in the pool, which is what flush waits for.
TasksCounted ==
    checker.tasks_remaining = Cardinality({c \in Callers : verify[c].pending > 0})

\* verify returns: the pool runs what was posted, even while flush spins with the mutex
\* and the node shuts down.
VerifyReturns == \A c \in Callers : []<>(verify[c].at \notin {"entered", "posted", "wait"})

\* flush does not spin forever, though new sets may be posted while it spins.
FlushReturns == []<>(flushing # "spin")

\* node::stop ends: both processors leave verify, and the pool can be joined.
NodeStops == []<>(stopping \in {"on", "off"})

\* verify returns when its whole set is verified, each signature by one batch, and the tasks
\* that flush waits for are those under way.
SetsVerified == VerifiedWhole /\ VerifiedOnce /\ TasksCounted
-----------------------------------------------------------------------------
(* SetsVerified in a form that each step preserves                           *)

CallType == [at : {"idle", "entered", "posted", "wait", "returned", "ended"}, size : Nat,
             checked : SUBSET Nat, pending : Nat, promise : BOOLEAN]
Job == [caller : Callers, batch : Nat]
Batches(c) == 1 .. batches_thread(verify[c].size)
Left(c) == {b \in Batches(c) : [caller |-> c, batch |-> b] \in InPoolNow}
UnderWay(c) == verify[c].at \in {"posted", "wait"}

CheckerTypes ==
    /\ verify \in [Callers -> CallType]
    /\ checker \in [stopped : BOOLEAN, pool : {"open", "joining", "joined"}, tasks_remaining : Nat,
                     mutex : {"none", "flush", "stop"}]
    /\ jobs \in Seq(Job) /\ running \in [PoolThread -> Job \cup {NoJob}]

\* Each batch is in one place, for a set that is under way
JobsInv ==
    /\ \A i, k \in DOMAIN jobs : jobs[i] = jobs[k] => i = k
    /\ \A t, u \in PoolThread : running[t] = running[u] /\ running[t] # NoJob => t = u
    /\ \A i \in DOMAIN jobs, t \in PoolThread : jobs[i] # running[t]
    /\ \A j \in InPoolNow \ {NoJob} : UnderWay(j.caller) /\ j.batch \in Batches(j.caller)

\* What is verified of a set under way is what is not left of it
SetInv(c) ==
    /\ UnderWay(c) =>
        /\ Threaded(verify[c].size)
        /\ verify[c].pending = Cardinality(Left(c))
        /\ verify[c].promise <=> verify[c].pending = 0
        /\ verify[c].checked = (UNION {OfBatch(b) : b \in Batches(c) \ Left(c)})
                                \cup (IF verify[c].at = "wait" THEN OfCaller(verify[c].size) ELSE {})
    /\ ~UnderWay(c) =>
        /\ verify[c].pending = 0
        /\ verify[c].at = "entered" => verify[c].checked = {} /\ ~verify[c].promise
        /\ verify[c].at = "returned" => verify[c].checked = 1 .. verify[c].size
SetsInv == \A c \in Callers : SetInv(c)

\* The checker is stopped only when nobody calls it any more
StoppedInv ==
    /\ stopping \notin {"on", "blocks"} => verify["blocks"].at = "ended"
    /\ checker.stopped <=> stopping \in {"checker", "off"}
    /\ checker.stopped => verify["votes"].at = "ended"

CheckerInv == CheckerTypes /\ JobsInv /\ SetsInv /\ StoppedInv /\ TasksCounted
====
