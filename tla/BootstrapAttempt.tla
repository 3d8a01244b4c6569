-------------------------- MODULE BootstrapAttempt --------------------------
(***************************************************************************)
(* The control of a bootstrap: the initiator and its thread, the attempt   *)
(* that thread runs in the legacy, lazy and wallet modes, its pool of      *)
(* connections, and the callbacks of the clients that use them             *)
(* (nano/node/bootstrap.cpp: bootstrap_initiator, bootstrap_attempt,       *)
(* bootstrap_client, and the construction, destruction and outcome of the  *)
(* frontier, pull, push and account clients).                              *)
(*                                                                         *)
(* What a pull transfers is in BulkPull; here it ends well or badly.  A    *)
(* step is a critical section of bootstrap_attempt::mutex.  The thread     *)
(* waits on the condition variable in two steps: between its test and its  *)
(* wait it holds the mutex, but populate_connections, which sets `stopped' *)
(* and notifies without the mutex, may still run.  Clients of a finished   *)
(* attempt touch only that attempt, so a new attempt forgets them.  The    *)
(* waits for a full block processor time out and are left out.             *)
(***************************************************************************)
EXTENDS Integers, Sequences, FiniteSets, SequencesExt, Tables

CONSTANTS
    Connection,     \* connection slots of an attempt
    Pull,           \* accounts or blocks to pull
    WalletAccount,  \* accounts whose pending entries are asked for
    Caller,         \* threads that start a bootstrap
    RetryLimit,     \* bootstrap_frontier_retry_limit: 16 in the code
    IoThreads,      \* threads that run the callbacks
    RunsLimit,      \* runs after which an attempt no longer falls back: 3
    Nobody          \* no connection

ASSUME AttemptBounds ==
    RetryLimit \in Nat \ {0} /\ RunsLimit \in Nat /\ IoThreads \in Nat \ {0}

VARIABLES
    attempt,        \* the attempt, as a record of its fields
    current,        \* bootstrap_initiator::attempt is not null
    halted,         \* bootstrap_initiator::stopped
    callers,        \* each caller: idle, calling, asleep (waiting) or done, and in which call
    pc,             \* where the thread of the initiator is
    waiting,        \* it waits for the condition: no, deciding, asleep
    purpose         \* what it wants a connection for

initiatorVars == <<current, halted, callers>>
threadVars == <<pc, waiting, purpose>>
attemptVars == <<attempt, initiatorVars, threadVars>>

-----------------------------------------------------------------------------
(* bootstrap_attempt: its fields and the operations on them. *)

NoRequest == [conn |-> Nobody, promise |-> "none"]

\* routine is the function the thread is in; conn the state of each connection;
\* working the pull or account at work on it; releasing the clients that have given
\* their connection back and not yet counted themselves out of pulling; expired that
\* a time limit of lazy_run or wallet_run has passed; accepted, finished, abandoned and
\* lost what became of the pulls of the frontier request and of the decided forks.
NewAttempt(mode) ==
    [mode |-> mode, routine |-> mode, stopped |-> FALSE, runs_count |-> 0,
     pulls |-> <<>>, pulling |-> 0, idle |-> <<>>, wallet_accounts |-> <<>>,
     lazy_keys |-> {}, lazy_pulls |-> {}, lazy_blocks |-> {},
     frontiers |-> NoRequest, push |-> NoRequest,
     conn |-> [k \in Connection |-> "none"], pending_stop |-> {},
     working |-> <<>>, releasing |-> 0, alarmed |-> FALSE, expired |-> FALSE,
     accepted |-> {}, finished |-> {}, abandoned |-> {}, lost |-> {}]

\* A pull_info.  Those of process_fork have head = end.
Item(p) == [id |-> p, attempts |-> 0, fork |-> FALSE]
ForkItem(p) == [Item(p) EXCEPT !.fork = TRUE]
Ids(queue) == {queue[i].id : i \in DOMAIN queue}
Live(a) == {k \in Connection : a.conn[k] # "none"}

\* Setting a promise from within a try block.
Settle(request, value) ==
    IF request.promise = "unset" THEN [request EXCEPT !.promise = value] ELSE request

\* The last reference to a connection goes: so do the client that used it and a
\* promise nobody set.
Release(a, k) ==
    LET gone(request) ==
            IF request.conn = k THEN [Settle(request, "failed") EXCEPT !.conn = Nobody]
                                ELSE request
    IN  [a EXCEPT !.conn[k] = "none", !.pending_stop = @ \ {k},
                  !.frontiers = gone(@), !.push = gone(@)]

\* A connection goes back to the pool, unless the attempt has stopped or the
\* connection is to be dropped.
pool_connection_always(a, k) ==
    [a EXCEPT !.idle = <<k>> \o @, !.conn[k] = "idle"]
pool_connection(a, k) ==
    IF ~a.stopped /\ k \notin a.pending_stop
    THEN [a EXCEPT !.idle = <<k>> \o @, !.conn[k] = "idle"]
    ELSE Release(a, k)

\* stop (): the promises the thread may be waiting for are set.
stop_attempt(a) ==
    [a EXCEPT !.stopped = TRUE,
              !.frontiers = Settle(@, "failed"), !.push = Settle(@, "failed")]

\* requeue_pull: to the front of the queue; at the limit a lazy pull goes to the back
\* and any other is given up.
requeue_pull_always(a, item) ==
    [a EXCEPT !.pulls = <<[item EXCEPT !.attempts = @ + 1]>> \o @]
requeue_pull(a, item) ==
    LET again == [item EXCEPT !.attempts = @ + 1] IN
    CASE again.attempts < RetryLimit -> [a EXCEPT !.pulls = <<again>> \o @]
      [] again.attempts >= RetryLimit /\ a.mode = "lazy" ->
            [a EXCEPT !.pulls = Append(@, [again EXCEPT !.attempts = RetryLimit])]
      [] OTHER -> [a EXCEPT !.abandoned = @ \cup {item.id}]

lazy_start(a, p) ==
    IF p \in a.lazy_keys \cup a.lazy_blocks THEN a
    ELSE [a EXCEPT !.lazy_keys = @ \cup {p}, !.lazy_pulls = @ \cup {p}]

lazy_pull_flush(a) ==
    [a EXCEPT !.pulls = @ \o SetToSeq({Item(p) : p \in a.lazy_pulls \ a.lazy_blocks}),
              !.lazy_pulls = {}]

\* Before a lazy bootstrap gives way to another mode.
lazy_clear(a) ==
    [a EXCEPT !.pulls = <<>>, !.lazy_blocks = {}, !.lazy_keys = {}, !.lazy_pulls = {}]

\* A processed block counts as arrived in the ledger.
lazy_finished(a) ==
    a.stopped \/ a.lazy_keys \subseteq a.lazy_blocks \/ a.lazy_pulls = {}

\* lazy_finished erases the keys that have arrived up to the first that has not.  Erasing
\* some makes no difference: lazy_start refuses a block of lazy_blocks as well as a key.
LazyForget(a) ==
    IF ~a.stopped /\ a.lazy_keys \subseteq a.lazy_blocks
    THEN [a EXCEPT !.lazy_keys = {}] ELSE a

still_pulling_queue(a) == ~a.stopped /\ a.pulls # <<>>
still_pulling(a) == ~a.stopped /\ (a.pulls # <<>> \/ a.pulling > 0)
wallet_finished(a) == ~a.stopped /\ (a.wallet_accounts # <<>> \/ a.pulling > 0)

\* The end of run, lazy_run and wallet_run: the pool is released.
Finish(a) ==
    [a EXCEPT !.stopped = TRUE, !.idle = <<>>,
              !.conn = [k \in Connection |-> IF @[k] = "idle" THEN "none" ELSE @[k]]]

-----------------------------------------------------------------------------
(* Waiting.  A critical section needs the mutex, which a thread that has   *)
(* decided to wait still holds.                                            *)

Locking == waiting # "deciding"
Notify == waiting' = IF waiting = "asleep" THEN "no" ELSE waiting
NotifyCallers(all) ==
    [c \in Caller |-> IF all[c].state = "asleep" THEN [all[c] EXCEPT !.state = "calling"] ELSE all[c]]

\* A callback that changes the attempt and notifies its condition.
Callback(a) ==
    /\ Locking
    /\ attempt' = a
    /\ Notify
    /\ UNCHANGED <<initiatorVars, pc, purpose>>

-----------------------------------------------------------------------------
(* bootstrap_initiator *)

StartAttempt(a) == attempt' = a /\ current' = TRUE /\ UNCHANGED <<halted, threadVars>>
Answered(c) == callers' = NotifyCallers([callers EXCEPT ![c].state = "done"])

\* The caller enters a call, or goes on with it after having waited.
Entering(c) == callers[c].state = "idle"
InCall(c, call) == Entering(c) \/ callers[c] = [state |-> "calling", call |-> call]

\* The attempt in progress is stopped and waited for.
StopAndWait(c, call) ==
    /\ current /\ Locking
    /\ attempt' = stop_attempt(attempt)
    /\ Notify
    /\ callers' = [callers EXCEPT ![c] = [state |-> "asleep", call |-> call]]
    /\ UNCHANGED <<current, halted, pc, purpose>>

bootstrap(c) ==
    /\ Entering(c)
    /\ Answered(c)
    /\ IF ~halted /\ ~current THEN StartAttempt(NewAttempt("legacy"))
       ELSE UNCHANGED <<attempt, current, halted, threadVars>>

\* bootstrap (endpoint): a new attempt with a connection to the endpoint.  `stopped'
\* is only tested on entry.
bootstrap_endpoint(c) ==
    \/ /\ Entering(c) /\ halted
       /\ callers' = [callers EXCEPT ![c].state = "done"]
       /\ UNCHANGED <<attempt, current, halted, threadVars>>
    \/ /\ InCall(c, "endpoint") /\ (Entering(c) => ~halted)
       /\ \/ StopAndWait(c, "endpoint")
          \/ /\ ~current
             /\ \E k \in Connection :
                  StartAttempt([NewAttempt("legacy") EXCEPT !.conn[k] = "connecting"])
             /\ Answered(c)

\* One more block for the attempt in progress, or an attempt for it.
bootstrap_lazy(c, p, force) ==
    \/ force /\ InCall(c, "lazy") /\ StopAndWait(c, "lazy")
    \/ /\ InCall(c, "lazy") /\ (force => ~current)
       /\ Answered(c)
       /\ IF current
          THEN attempt' = lazy_start(attempt, p) /\ UNCHANGED <<current, halted, threadVars>>
          ELSE StartAttempt(lazy_start(NewAttempt("lazy"), p))

\* Accounts for the attempt in progress, or an attempt for them.
bootstrap_wallet(c) ==
    /\ Entering(c)
    /\ Answered(c)
    /\ \E accounts \in {{}, WalletAccount} :
       LET add(a) == [a EXCEPT !.wallet_accounts = SetToSeq(accounts)] IN
       IF current
       THEN Locking /\ attempt' = add(attempt) /\ UNCHANGED <<current, halted, threadVars>>
       ELSE StartAttempt(add(NewAttempt("wallet_lazy")))

\* bootstrap_initiator::stop
stop ==
    /\ ~halted
    /\ halted' = TRUE
    /\ callers' = NotifyCallers(callers)
    /\ IF current THEN Locking /\ attempt' = stop_attempt(attempt) /\ Notify
       ELSE UNCHANGED <<attempt, waiting>>
    /\ UNCHANGED <<current, pc, purpose>>

\* run_bootstrap: the thread takes the attempt, or leaves when stopped.
run_bootstrap ==
    /\ pc = "idle"
    /\ \/ halted /\ pc' = "exit"
       \/ ~halted /\ current /\ pc' = "populate"
    /\ UNCHANGED <<attempt, initiatorVars, waiting, purpose>>

\* The attempt is over: it is dropped and the callers that wait are notified.
Dropped_silent ==
    /\ pc = "finished"
    /\ pc' = "idle"
    /\ current' = FALSE
    /\ UNCHANGED <<attempt, halted, callers, waiting, purpose>>
Dropped ==
    /\ pc = "finished"
    /\ pc' = "idle"
    /\ current' = FALSE
    /\ callers' = NotifyCallers(callers)
    /\ UNCHANGED <<attempt, halted, waiting, purpose>>

-----------------------------------------------------------------------------
(* The thread in bootstrap_attempt::run, lazy_run and wallet_run. *)

Thread(at) == pc = at /\ waiting = "no"
Goto(next, a) ==
    /\ pc' = next /\ attempt' = a
    /\ UNCHANGED <<initiatorVars, waiting, purpose>>

\* What the routine works off, and the condition of its inner loop.
Queue(a) == IF a.routine = "wallet_lazy" THEN a.wallet_accounts ELSE a.pulls
Pulling(a) ==
    CASE a.routine = "legacy" -> still_pulling(a)
      [] a.routine = "lazy" -> still_pulling(a) /\ ~a.expired
      [] a.routine = "wallet_lazy" -> wallet_finished(a) /\ ~a.expired

\* populate_connections: slow connections are marked to be dropped, new ones are
\* opened, and without peers and connections the attempt stops.  Another call is
\* scheduled unless it has stopped.
Populated(a, drop, new, stopping) ==
    LET stopped == a.stopped \/ stopping IN
    [a EXCEPT !.pending_stop = @ \cup drop, !.stopped = stopped, !.alarmed = @ \/ ~stopped,
              !.conn = [k \in Connection |-> IF k \in new THEN "connecting" ELSE @[k]]]

populate_connections ==
    /\ Thread("populate")
    /\ \E new \in SUBSET (Connection \ Live(attempt)), drop \in SUBSET Live(attempt) :
         /\ pc' = IF attempt.routine = "legacy" THEN "frontier" ELSE "outer"
         /\ attempt' = [Populated(attempt, drop, new, new \cup Live(attempt) = {})
                          EXCEPT !.expired = FALSE]
    /\ UNCHANGED <<initiatorVars, waiting, purpose>>

\* The call made by the alarm.  A stop for lack of peers notifies without the mutex.
Populate ==
    /\ attempt.alarmed
    /\ \E new \in SUBSET (Connection \ Live(attempt)), drop \in SUBSET Live(attempt) :
         LET stopping == new \cup Live(attempt) = {} IN
         /\ stopping \/ Locking
         /\ attempt' = Populated([attempt EXCEPT !.alarmed = FALSE], drop, new, stopping)
         /\ IF stopping THEN Notify ELSE UNCHANGED waiting
    /\ UNCHANGED <<initiatorVars, pc, purpose>>

\* The loop around request_frontier.
frontier_loop ==
    /\ Thread("frontier")
    /\ pc' = IF attempt.stopped THEN "outer" ELSE "connection"
    /\ purpose' = "frontier"
    /\ UNCHANGED <<attempt, initiatorVars, waiting>>

\* connection: wait for one while the attempt runs and none is idle.
Wait_blind ==
    /\ waiting = "no"
    /\ \/ pc = "connection" /\ attempt.idle = <<>>
       \/ pc = "loop" /\ Pulling(attempt) /\ Queue(attempt) = <<>>
    /\ waiting' = "deciding"
    /\ UNCHANGED <<attempt, initiatorVars, pc, purpose>>
Wait ==
    /\ waiting = "no"
    /\ \/ pc = "connection" /\ ~attempt.stopped /\ attempt.idle = <<>>
       \/ pc = "loop" /\ Pulling(attempt) /\ Queue(attempt) = <<>>
    /\ waiting' = "deciding"
    /\ UNCHANGED <<attempt, initiatorVars, pc, purpose>>

Sleep ==
    /\ waiting = "deciding"
    /\ waiting' = "asleep"
    /\ UNCHANGED <<attempt, initiatorVars, pc, purpose>>

\* connection found none: the attempt has stopped.
NoConnection ==
    /\ Thread("connection") /\ attempt.stopped /\ attempt.idle = <<>>
    /\ Goto(IF purpose = "frontier" THEN "frontier" ELSE "loop",
            IF purpose = "frontier" THEN [attempt EXCEPT !.frontiers.conn = Nobody] ELSE attempt)

\* The connection that became idle first.
Taken_kept(a, use) == [a EXCEPT !.conn[Last(a.idle)] = use]
Taken(a, use) == [a EXCEPT !.idle = Front(@), !.conn[Last(a.idle)] = use]

request_frontier ==
    /\ Thread("connection") /\ purpose = "frontier" /\ attempt.idle # <<>>
    /\ Goto("promise", [Taken(attempt, "frontier") EXCEPT
                          !.frontiers = [conn |-> Last(attempt.idle), promise |-> "unset"]])

\* consume_future in request_frontier; then run shuffles the pulls.
frontier_done ==
    /\ Thread("promise") /\ attempt.frontiers.promise # "unset"
    /\ IF attempt.frontiers.promise = "failed"
       THEN Goto("frontier", [attempt EXCEPT !.pulls = <<>>, !.accepted = {}])
       ELSE \E p \in Permutations(DOMAIN attempt.pulls) :
              Goto("outer", [attempt EXCEPT !.pulls = [i \in DOMAIN @ |-> @[p[i]]]])

\* The pulls request_pull drops: those processed meanwhile, but for the last.
Obsolete(a, i) ==
    a.mode # "legacy" /\ i < Len(a.pulls) /\ a.pulls[i].id \in a.lazy_blocks

request_pull ==
    /\ Thread("connection") /\ purpose = "pull" /\ attempt.idle # <<>>
    /\ \E i \in DOMAIN attempt.pulls :
        /\ ~Obsolete(attempt, i)
        /\ \A j \in 1 .. i - 1 : Obsolete(attempt, j)
        /\ Goto("loop", [Taken(attempt, "pull") EXCEPT
              !.pulls = SubSeq(@, i + 1, Len(@)), !.pulling = @ + 1,
              !.working = Put(@, Last(attempt.idle), attempt.pulls[i])])

request_pending_uncounted ==
    /\ Thread("connection") /\ purpose = "pending" /\ attempt.idle # <<>>
    /\ Goto("loop", [Taken(attempt, "pending") EXCEPT
          !.wallet_accounts = Tail(@),
          !.working = Put(@, Last(attempt.idle), Item(attempt.wallet_accounts[1]))])
request_pending ==
    /\ Thread("connection") /\ purpose = "pending" /\ attempt.idle # <<>>
    /\ Goto("loop", [Taken(attempt, "pending") EXCEPT
          !.wallet_accounts = Tail(@), !.pulling = @ + 1,
          !.working = Put(@, Last(attempt.idle), Item(attempt.wallet_accounts[1]))])

\* One round of the inner loop: a pull or an account is requested, or the queue is
\* empty and the thread waits (Wait).  lazy_run flushes every hundredth round.
Round_any ==
    /\ Thread("loop") /\ Pulling(attempt)
    /\ pc' = "connection"
    /\ purpose' = IF attempt.routine = "wallet_lazy" THEN "pending" ELSE "pull"
    /\ UNCHANGED <<attempt, initiatorVars, waiting>>
Round ==
    /\ Thread("loop") /\ Pulling(attempt) /\ Queue(attempt) # <<>>
    /\ pc' = "connection"
    /\ purpose' = IF attempt.routine = "wallet_lazy" THEN "pending" ELSE "pull"
    /\ attempt' \in {attempt} \cup (IF attempt.routine = "lazy" THEN {lazy_pull_flush(attempt)} ELSE {})
    /\ UNCHANGED <<initiatorVars, waiting>>

\* The inner loop ends: run and lazy_run flush the block processor, lazy_run the
\* blocks found, and test again whether there is more.
Flush ==
    /\ Thread("loop") /\ ~Pulling(attempt)
    /\ Goto("outer", IF attempt.routine = "lazy" THEN lazy_pull_flush(attempt) ELSE attempt)

More(a) ==
    \/ Pulling(a)
    \/ a.routine = "lazy" /\ ~lazy_finished(a) /\ ~a.expired

\* Another routine, or the end of the attempt.
Switch(mode, routine, a) ==
    Goto("populate", [a EXCEPT !.mode = mode, !.routine = routine])
End(a) == Goto("finished", Finish(a))

\* runs_count is only compared with RunsLimit, where it stays.
Counted(a) == [a EXCEPT !.runs_count = IF @ < RunsLimit THEN @ + 1 ELSE @]

\* The end of run, after the push.
AfterRun(a) ==
    LET b == Counted(a) IN
    CASE b.wallet_accounts # <<>> -> Switch("wallet_lazy", "wallet_lazy", b)
      [] b.wallet_accounts = <<>> /\ b.runs_count < RunsLimit /\ ~lazy_finished(b) ->
            Switch("lazy", "lazy", b)
      [] OTHER -> End(b)

\* The end of lazy_run: on to the wallet, or back to the legacy mode for the blocks
\* that did not arrive.
AfterLazy(a) ==
    LET b == Counted(LazyForget(a)) IN
    CASE b.wallet_accounts # <<>> -> Switch("wallet_lazy", "wallet_lazy", lazy_clear(b))
      [] b.wallet_accounts = <<>> /\ b.runs_count < RunsLimit /\ b.lazy_keys # {} ->
            Switch("legacy", "legacy", lazy_clear(b))
      [] OTHER -> End(b)

\* The end of wallet_run: lazy_run keeps the mode.
AfterWallet(a) ==
    LET b == Counted(a) IN
    IF lazy_finished(b) THEN End(LazyForget(b)) ELSE Switch("wallet_lazy", "lazy", b)

\* request_push: over the connection of the frontier request, if it still exists.
Outer ==
    /\ Thread("outer")
    /\ LET a == attempt IN
       CASE More(a) -> Goto("loop", a)
         [] ~More(a) /\ a.stopped -> End(a)
         [] ~More(a) /\ ~a.stopped /\ a.routine = "legacy" ->
              IF a.frontiers.conn = Nobody THEN AfterRun(a)
              ELSE Goto("push", [a EXCEPT !.push = [conn |-> a.frontiers.conn, promise |-> "unset"]])
         [] ~More(a) /\ ~a.stopped /\ a.routine = "lazy" -> AfterLazy(a)
         [] ~More(a) /\ ~a.stopped /\ a.routine = "wallet_lazy" -> AfterWallet(a)

push_done ==
    /\ Thread("push") /\ attempt.push.promise # "unset"
    /\ AfterRun([attempt EXCEPT !.push = NoRequest])

\* The limits of lazy_run (30 minutes, lazy_max_stopped blocks) and wallet_run.
Expire ==
    /\ current /\ ~attempt.expired /\ attempt.routine # "legacy"
    /\ attempt' = [attempt EXCEPT !.expired = TRUE]
    /\ UNCHANGED <<initiatorVars, threadVars>>

-----------------------------------------------------------------------------
(* The callbacks of the clients, run by the threads of the io_context.  A  *)
(* client of an attempt that was dropped no longer matters.                *)

On(k, use) == current /\ attempt.conn[k] = use

\* bootstrap_client::run: a connection that fails is only logged.
Connected(k) ==
    /\ On(k, "connecting")
    /\ \/ Callback(pool_connection(attempt, k))
       \/ attempt' = Release(attempt, k) /\ UNCHANGED <<initiatorVars, threadVars>>

\* frontier_req_client::received_frontier
add_pull(k, p) ==
    /\ On(k, "frontier") /\ p \notin attempt.accepted
    /\ Callback([attempt EXCEPT !.pulls = Append(@, Item(p)), !.accepted = @ \cup {p}])

\* node::process_fork: an election over a fork was decided while a legacy attempt runs.
\* The pull is of (account, root, root) or (root, 0, 0).
ForkResolved(p) ==
    /\ current /\ attempt.mode = "legacy" /\ p \notin attempt.accepted
    /\ Callback([requeue_pull(attempt, ForkItem(p)) EXCEPT !.accepted = @ \cup {p}])

\* The last frontier: the promise is set, then the connection pooled.
FrontiersEnd(k) ==
    /\ On(k, "frontier")
    /\ attempt' = [attempt EXCEPT !.frontiers = Settle(@, "ok"), !.conn[k] = "pooling"]
    /\ UNCHANGED <<initiatorVars, threadVars>>

FrontiersPool(k) ==
    /\ On(k, "pooling")
    /\ Callback(pool_connection(attempt, k))

\* The server is too slow: the promise is set and the client left to its destructor.
FrontiersSlow(k) ==
    /\ On(k, "frontier")
    /\ attempt' = [attempt EXCEPT !.frontiers = Settle(@, "failed"), !.conn[k] = "slow"]
    /\ UNCHANGED <<initiatorVars, threadVars>>

\* The connection breaks, or the slow one is released.
FrontiersBreak(k) ==
    /\ On(k, "frontier") \/ On(k, "slow")
    /\ attempt' = Release(attempt, k)
    /\ UNCHANGED <<initiatorVars, threadVars>>

\* bulk_push_client: done, or broken.
PushEnd ==
    /\ current /\ attempt.push.promise = "unset"
    /\ \E value \in {"ok", "failed"} : attempt' = [attempt EXCEPT !.push = Settle(@, value)]
    /\ UNCHANGED <<initiatorVars, threadVars>>

\* What a pull received in a lazy mode: the block itself and a dependency.
Processed(a, p, found) ==
    IF a.mode = "legacy" THEN [a EXCEPT !.finished = @ \cup {p}]
    ELSE [a EXCEPT !.lazy_blocks = @ \cup {p},
                   !.lazy_pulls = @ \cup (found \ (a.lazy_blocks \cup {p}))]

\* bulk_pull_client: the pull reached its end; the connection is pooled, and the
\* destructor counts the client out later.
PullEnd(k) ==
    /\ On(k, "pull") /\ attempt.releasing < IoThreads
    /\ \E found \in {{}} \cup {{p} : p \in Pull} :
         Callback([pool_connection(Processed(attempt, attempt.working[k].id, found), k)
                     EXCEPT !.working = Del(@, k), !.releasing = @ + 1])

\* What the destructor of a broken pull does with it: it is requeued, unless it expects
\* nothing before its end, as the pull of a decided fork from the start.
Broken(a, item) ==
    IF item.fork THEN [a EXCEPT !.lost = @ \cup {item.id}] ELSE requeue_pull(a, item)

\* The pull broke: the destructor requeues it, then counts the client out.
PullBreak_slow(k) ==
    /\ On(k, "pull")
    /\ Callback([IF k \in attempt.pending_stop THEN attempt
                 ELSE Broken(attempt, attempt.working[k])
                   EXCEPT !.working = Del(@, k), !.conn[k] = "ending"])
PullBreak(k) ==
    /\ On(k, "pull")
    /\ Callback([Broken(attempt, attempt.working[k])
                   EXCEPT !.working = Del(@, k), !.conn[k] = "ending"])

\* bulk_pull_account_client: a pending block is found; the account is answered; it is
\* requeued; or the client is destroyed because its socket was closed.
PendingFound(k, p) ==
    /\ On(k, "pending")
    /\ attempt' = lazy_start(attempt, p)
    /\ UNCHANGED <<initiatorVars, threadVars>>

PendingEnd(k) ==
    /\ On(k, "pending") /\ attempt.releasing < IoThreads
    /\ Callback([pool_connection(attempt, k)
                   EXCEPT !.working = Del(@, k), !.releasing = @ + 1])

PendingBreak(k) ==
    /\ On(k, "pending")
    /\ \/ Callback([attempt EXCEPT !.wallet_accounts = <<attempt.working[k].id>> \o @,
                                   !.working = Del(@, k), !.conn[k] = "ending"])
       \/ Callback([attempt EXCEPT !.working = Del(@, k), !.conn[k] = "ending"])

\* The destructors of the two clients.
Destroyed(k) ==
    /\ On(k, "ending")
    /\ Callback([Release(attempt, k) EXCEPT !.pulling = @ - 1])

Released ==
    /\ current /\ attempt.releasing > 0
    /\ Callback([attempt EXCEPT !.releasing = @ - 1, !.pulling = @ - 1])

-----------------------------------------------------------------------------
AttemptInit ==
    /\ attempt = NewAttempt("legacy")
    /\ current = FALSE /\ halted = FALSE
    /\ callers = [c \in Caller |-> [state |-> "idle", call |-> "none"]]
    /\ pc = "idle" /\ waiting = "no" /\ purpose = "frontier"

ThreadStep ==
    \/ run_bootstrap \/ Dropped \/ populate_connections \/ frontier_loop
    \/ Wait \/ Sleep \/ NoConnection \/ request_frontier \/ frontier_done
    \/ request_pull \/ request_pending \/ Round \/ Flush \/ Outer \/ push_done

\* The end of whatever a client does.
ClientEnd ==
    \/ \E k \in Connection :
        \/ Connected(k) \/ FrontiersEnd(k) \/ FrontiersPool(k) \/ FrontiersSlow(k) \/ FrontiersBreak(k)
        \/ PullEnd(k) \/ PullBreak(k) \/ PendingEnd(k) \/ PendingBreak(k) \/ Destroyed(k)
    \/ PushEnd \/ Released

PullFound ==
    \E p \in Pull :
        ForkResolved(p) \/ \E k \in Connection : add_pull(k, p) \/ PendingFound(k, p)

-----------------------------------------------------------------------------
Uses == {"none", "connecting", "idle", "frontier", "slow", "pooling", "pull", "pending", "ending"}
Modes == {"legacy", "lazy", "wallet_lazy"}

AttemptTypeOK ==
    /\ attempt.mode \in Modes /\ attempt.routine \in Modes
    /\ attempt.runs_count \in 0 .. RunsLimit
    /\ attempt.pulling \in Nat /\ attempt.releasing \in Nat
    /\ attempt.conn \in [Connection -> Uses]
    /\ \A i \in DOMAIN attempt.pulls : attempt.pulls[i].attempts \in 0 .. RetryLimit
    /\ attempt.frontiers.promise \in {"none", "unset", "ok", "failed"}
    /\ attempt.push.promise \in {"none", "unset", "ok", "failed"}
    /\ callers \in [Caller -> [state : {"idle", "calling", "asleep", "done"},
                                call : {"none", "endpoint", "lazy"}]]
    /\ pc \in {"idle", "populate", "frontier", "connection", "promise", "outer", "loop",
               "push", "finished", "exit"}
    /\ waiting \in {"no", "deciding", "asleep"}
    /\ purpose \in {"frontier", "pull", "pending"}

\* pulling counts the clients at work, those in their destructor included, so that
\* the loops of run and wallet_run, which end on pulling = 0, neither leave a pull
\* behind nor wait for one that is over.
PullingExact ==
    attempt.pulling = attempt.releasing +
        Cardinality({k \in Connection : attempt.conn[k] \in {"pull", "pending", "ending"}})

\* The pool holds every idle connection once, and nobody else uses one of them.
IdleOnce ==
    /\ \A i, j \in DOMAIN attempt.idle : attempt.idle[i] = attempt.idle[j] => i = j
    /\ {attempt.idle[i] : i \in DOMAIN attempt.idle} = {k \in Connection : attempt.conn[k] = "idle"}

\* An attempt the initiator has dropped holds no connection in its pool: each holds the
\* attempt, and neither would ever be freed.
PoolReleased == ~current => attempt.idle = <<>>

\* While the thread waits in connection () on behalf of request_pull or
\* request_pending, which take the front of a queue without looking, that queue stays
\* non-empty.
FrontDefined ==
    pc = "connection" =>
        /\ purpose = "pull" => attempt.pulls # <<>>
        /\ purpose = "pending" => attempt.wallet_accounts # <<>>

\* The pulls of a legacy attempt: each is queued, at work, finished, given up after the
\* last retry or, if it was for a decided fork, lost with its connection, and exactly one
\* of these.  ~bulk_pull_client compares what it expects with the end of the pull, which
\* are the same for a fork: such a pull is not retried.
PullsAccounted ==
    (current /\ attempt.mode = "legacy" /\ attempt.runs_count = 0) =>
        LET working == {attempt.working[k].id : k \in DOMAIN attempt.working}
            parts == <<Ids(attempt.pulls), working, attempt.finished, attempt.abandoned,
                       attempt.lost>>
        IN  /\ attempt.accepted = UNION {parts[i] : i \in 1 .. 5}
            /\ \A i, j \in 1 .. 5 : i # j => parts[i] \cap parts[j] = {}
            /\ Len(attempt.pulls) = Cardinality(Ids(attempt.pulls))

\* When a legacy attempt begins to push, every pull it was given has been finished, given up
\* after the last retry or, if it was for a decided fork, lost with its connection: the
\* destructor of a broken pull requeues it before it counts itself out.  A fork decided later
\* than that may still leave a pull behind.
PushAfterPulls ==
    [][(pc = "outer" /\ pc' = "push" /\ attempt.runs_count = 0)
        => attempt.accepted \subseteq attempt.finished \cup attempt.abandoned \cup attempt.lost]_attemptVars

\* bootstrap_initiator::stop ends the thread, which the destructor joins.
StopJoins == halted ~> pc = "exit"

\* Whoever waits in bootstrap (endpoint) or a forced bootstrap_lazy for the attempt in
\* progress returns, unless the initiator is stopped.
CallersReturn ==
    \A c \in Caller : callers[c].state = "asleep" ~> (callers[c].state = "done" \/ halted)

\* "Bootstrap stopped because there are no peers": an attempt that is stopped is
\* left by the thread, so that another can start.
StoppedEnds == (current /\ attempt.stopped) ~> (~current \/ pc = "exit")

\* What an attempt counts and queues is what its clients do: pulling the clients at work,
\* the pool the idle connections, released with the attempt; a queue of which the front is
\* about to be taken is not empty, and no pull is lost or made twice, within the limits on
\* retries and runs.
AttemptAccounted ==
    AttemptTypeOK /\ PullingExact /\ IdleOnce /\ PoolReleased /\ FrontDefined /\ PullsAccounted
====
