------------------------------- MODULE WorkPool -------------------------------
(***************************************************************************)
(* The threads that generate proof of work (nano/lib/work.cpp: work_pool). *)
(*                                                                         *)
(* All threads search for the first pending item.  A thread notes the      *)
(* ticket before it leaves the mutex to search, and owns the solution only *)
(* if the ticket is still the same when it is back.                        *)
(*                                                                         *)
(* A callback in Strict takes the value of its argument unchecked, as      *)
(* distributed_work's does: it throws when it is called with none.         *)
(***************************************************************************)
EXTENDS Integers, Sequences, FiniteSets, FiniteSetsExt

CONSTANTS
    WorkThread,     \* threads of the pool
    WorkRequest,    \* calls of generate
    WorkRoot,           \* [WorkRequest -> what the work is for]
    Strict,         \* requests whose callback throws when cancelled
    MaxCancels,     \* bound: calls of cancel
    Nobody          \* no request

VARIABLES
    workPending,    \* items to work on
    ticket,
    workDone,       \* the pool is being destroyed
    work_threads,   \* config.work_threads != 0: the pool has threads
    opencl,         \* it has a device, which may solve at once
    worker,         \* what each thread does
    answers,        \* what each callback was called with
    made,           \* requests made
    cancels         \* calls of cancel made

workConfig == <<work_threads, opencl>>
workPoolVars == <<workPending, ticket, workDone, workConfig, worker, answers, made, cancels>>

Working(at, item, ticket_l) == [at |-> at, item |-> item, ticket |-> ticket_l]
Loops == Working("loop", Nobody, 0)

\* producer_condition.notify_all
Notified == [t \in WorkThread |-> IF worker[t].at = "waiting" THEN Loops ELSE worker[t]]

Answer(q, a) == [answers EXCEPT ![q] = Append(@, a)]

-----------------------------------------------------------------------------
(* work_pool::loop                                                           *)

\* Look for an item, wait for one, or end: with done set, pending is emptied first.
WorkLoop(t) ==
    /\ worker[t].at = "loop"
    /\ worker' = [worker EXCEPT ![t] =
          IF workPending # <<>> THEN Working("search", Head(workPending), ticket)
          ELSE Working(IF workDone THEN "ended" ELSE "waiting", Nobody, 0)]
    /\ UNCHANGED <<workPending, ticket, workDone, workConfig, answers, made, cancels>>

\* The search ended: with a solution if the ticket is unchanged.
WorkSearched(t) ==
    /\ worker[t].at = "search"
    /\ IF ticket = worker[t].ticket
       THEN /\ ticket' = ticket + 1
            /\ workPending' = Tail(workPending)
            /\ worker' = [worker EXCEPT ![t].at = "calling"]
       ELSE /\ worker' = [worker EXCEPT ![t] = Loops]
            /\ UNCHANGED <<workPending, ticket>>
    /\ UNCHANGED <<workDone, workConfig, answers, made, cancels>>

\* The callback runs without the mutex.
WorkCallback(t) ==
    /\ worker[t].at = "calling"
    /\ answers' = Answer(worker[t].item, "work")
    /\ worker' = [worker EXCEPT ![t] = Loops]
    /\ UNCHANGED <<workPending, ticket, workDone, workConfig, made, cancels>>

WorkStep(t) == WorkLoop(t) \/ WorkSearched(t) \/ WorkCallback(t)

-----------------------------------------------------------------------------
(* work_pool::generate, cancel and stop                                      *)

\* An item for the threads.
WorkPush(q) ==
    /\ workPending' = Append(workPending, q)
    /\ worker' = Notified
    /\ UNCHANGED <<ticket, workDone, workConfig, answers, cancels>>

\* Or the device has the solution.
WorkOpencl(q) ==
    /\ opencl
    /\ answers' = Answer(q, "work")
    /\ UNCHANGED <<workPending, ticket, workDone, workConfig, worker, cancels>>

WorkGenerate(q) == WorkPush(q) \/ WorkOpencl(q)

\* The items of a root that cancel removes, in the order of the list: a callback that
\* throws ends the removal there.
CancelledUpTo(root, n) == {i \in 1 .. n : WorkRoot[workPending[i]] = root}
Cancelled(root) ==
    LET throws == {i \in CancelledUpTo(root, Len(workPending)) : workPending[i] \in Strict}
    IN  CancelledUpTo(root, IF throws = {} THEN Len(workPending) ELSE Min(throws) - 1)

\* The threads that search for the first item start again.
NextTicket_kept(root) == ticket
NextTicket(root) ==
    IF workPending # <<>> /\ WorkRoot[Head(workPending)] = root THEN ticket + 1 ELSE ticket

WorkCancel(root) ==
    LET gone == {workPending[i] : i \in Cancelled(root)}
    IN  /\ cancels < MaxCancels /\ cancels' = cancels + 1
        /\ ticket' = NextTicket(root)
        /\ answers' = [q \in WorkRequest |-> IF q \in gone THEN Append(answers[q], "none") ELSE answers[q]]
        /\ workPending' = SelectSeq(workPending, LAMBDA q : q \notin gone)
        /\ UNCHANGED <<workDone, workConfig, worker, made>>

\* The destructor, which joins the threads.
WorkStop_unnoticed ==
    /\ ~workDone /\ workDone' = TRUE
    /\ UNCHANGED <<workPending, ticket, workConfig, worker, answers, made, cancels>>
WorkStop ==
    /\ ~workDone /\ workDone' = TRUE
    /\ worker' = Notified
    /\ UNCHANGED <<workPending, ticket, workConfig, answers, made, cancels>>

WorkInit ==
    /\ workPending = <<>> /\ ticket = 0 /\ workDone = FALSE
    /\ work_threads \in BOOLEAN /\ opencl \in BOOLEAN
    /\ worker = [t \in WorkThread |-> IF work_threads THEN Loops ELSE Working("ended", Nobody, 0)]
    /\ answers = [q \in WorkRequest |-> <<>>]
    /\ made = {} /\ cancels = 0

-----------------------------------------------------------------------------
InPool(q) == {i \in DOMAIN workPending : workPending[i] = q}
Calling(q) == {t \in WorkThread : worker[t].at = "calling" /\ worker[t].item = q}

\* A thread that comes back with the ticket it left with has solved the first pending
\* item: what it removes with pop_front is what it calls back for, and nothing else.
TicketOwnsFront ==
    \A t \in WorkThread :
        worker[t].at = "search" /\ worker[t].ticket = ticket =>
            workPending # <<>> /\ Head(workPending) = worker[t].item

\* A work request is never lost nor answered twice, whatever cancel and stop do.
InHand(q) == Cardinality(InPool(q)) + Cardinality(Calling(q)) + Len(answers[q])
WorkAnsweredOnce == \A q \in WorkRequest : InHand(q) <= 1

\* The destructor's join returns.
WorkStops == []<>(workDone => \A t \in WorkThread : worker[t].at = "ended")
====
