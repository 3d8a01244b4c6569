---------------------------- MODULE WalletActions ----------------------------
(***************************************************************************)
(* The wallets of a node and the thread that carries out their actions     *)
(* (nano/node/wallet.cpp: wallets).                                        *)
(*                                                                         *)
(* Three locks meet here: W, the mutex of wallets; T, the write            *)
(* transaction of the wallets database, of which there is one at a time;   *)
(* and A, action_mutex.  A command of the RPC takes some of them one after *)
(* the other, works when it has them all, and gives them back together.    *)
(* An account that is created has work generated for it: the command       *)
(* queues an action while it holds the transaction.                        *)
(***************************************************************************)
EXTENDS Naturals, Sequences, SequencesExt

CONSTANTS
    WalletCaller,   \* the threads that serve RPC commands
    WalletId,
    FirstWallets,   \* the wallets that exist at the start
    MaxCallers,     \* bound: commands in a run
    NoThread

VARIABLES
    items,          \* wallets::items
    live,           \* the wallets whose store.handle is not 0
    created,        \* the identifiers that were ever used: they are random
    holder,         \* who holds each lock
    caller,         \* what each caller does, and the locks it still has to take
    actions,        \* wallets::actions, the next one to be carried out first
    actor,          \* the thread of wallets
    cachedWork,     \* the wallets whose table holds work
    walletsStopped, walletsJoined,
    aborted,        \* an assertion failed, or the behaviour is undefined
    callers         \* commands begun

walletVars == <<items, live, created, holder, caller, actions, actor, cachedWork, walletsStopped,
                walletsJoined, aborted, callers>>

Lock == {"W", "T", "A"}
Resting == [op |-> "none", wallet |-> NoThread, locks |-> <<>>]

-----------------------------------------------------------------------------
(* The locks that a command takes, in the order of the code                  *)

DestroyLocks_inverted == <<"W", "A", "T">>
DestroyLocks == <<"W", "T", "A">>

Locks(op) ==
    CASE op = "create" -> <<"W", "T">>
      [] op = "destroy" -> DestroyLocks
      [] op = "insert" -> <<"T", "A">>
      [] op = "send" -> <<"A">>

ActionsFree(lock) == holder[lock] = NoThread
Released(c) == [lock \in Lock |-> IF holder[lock] = c THEN NoThread ELSE holder[lock]]
Has(c, op) == caller[c].op = op /\ caller[c].locks = <<>>

ReturnCall(c) ==
    /\ caller' = [caller EXCEPT ![c] = Resting]
    /\ holder' = Released(c)

\* The condition variable: wallets::stop and queue_wallet_action notify it.
ActorNotified_none(state) == state
ActorNotified(state) == IF state = "waiting" THEN "ready" ELSE state
NotifyActor == actor' = [actor EXCEPT !.at = ActorNotified(actor.at)]

\* A command of the RPC begins; all but wallet_create look the wallet up (wallet_impl).
CallWallet(c, op, w) ==
    /\ caller[c] = Resting
    /\ callers < MaxCallers
    /\ IF op = "create" THEN w \notin created ELSE w \in items
    /\ caller' = [caller EXCEPT ![c] = [op |-> op, wallet |-> w, locks |-> Locks(op)]]
    /\ callers' = callers + 1
    /\ created' = created \cup {w}
    /\ UNCHANGED <<items, live, holder, actions, actor, cachedWork, walletsStopped, walletsJoined, aborted>>

\* insert_adhoc and deterministic_insert of a wallet that is gone find no valid password.
Refused(c) == caller[c].op = "insert" /\ holder["T"] = c /\ caller[c].wallet \notin live

TakeLock(c) ==
    /\ caller[c].locks # <<>>
    /\ ~Refused(c)
    /\ ActionsFree(Head(caller[c].locks))
    /\ holder' = [holder EXCEPT ![Head(caller[c].locks)] = c]
    /\ caller' = [caller EXCEPT ![c].locks = Tail(@)]
    /\ UNCHANGED <<items, live, created, actions, actor, cachedWork, walletsStopped, walletsJoined, aborted, callers>>

Refuse(c) ==
    /\ Refused(c)
    /\ ReturnCall(c)
    /\ UNCHANGED <<items, live, created, actions, actor, cachedWork, walletsStopped, walletsJoined, aborted, callers>>

\* wallets::create commits the new wallet, then enter_initial_password writes once more.
Create(c) ==
    /\ Has(c, "create")
    /\ IF caller[c].wallet \notin items
       THEN /\ items' = items \cup {caller[c].wallet}
            /\ live' = live \cup {caller[c].wallet}
            /\ caller' = [caller EXCEPT ![c].locks = <<"T">>]
            /\ holder' = [holder EXCEPT !["T"] = NoThread]
       ELSE /\ ReturnCall(c)
            /\ UNCHANGED <<items, live>>
    /\ UNCHANGED <<created, actions, actor, cachedWork, walletsStopped, walletsJoined, aborted, callers>>

\* wallets::destroy asserts that the wallet still exists; the RPC looked before the locks.
Destroy(c) ==
    LET w == caller[c].wallet
    IN /\ Has(c, "destroy")
       /\ aborted' = (w \notin items)
       /\ items' = items \ {w}
       /\ live' = live \ {w}
       /\ cachedWork' = cachedWork \ {w}
       /\ ReturnCall(c)
       /\ UNCHANGED <<created, actions, actor, walletsStopped, walletsJoined, callers>>

\* queue_wallet_action: a multimap, the highest priority first.  Work has the highest.
ActionQueued(kind, w) ==
    IF kind = "work"
    THEN LET n == Len(SelectSeq(actions, LAMBDA a : a.kind = "work"))
         IN InsertAt(actions, n + 1, [kind |-> kind, wallet |-> w])
    ELSE Append(actions, [kind |-> kind, wallet |-> w])

QueueAction(c) ==
    /\ \/ Has(c, "insert") /\ actions' = ActionQueued("work", caller[c].wallet)
       \/ Has(c, "send") /\ actions' = ActionQueued("send", caller[c].wallet)
    /\ ReturnCall(c)
    /\ NotifyActor
    /\ UNCHANGED <<items, live, created, cachedWork, walletsStopped, walletsJoined, aborted, callers>>

-----------------------------------------------------------------------------
(* do_wallet_actions                                                         *)

NextAction ==
    /\ actor.at = "ready"
    /\ ActionsFree("A")
    /\ IF walletsStopped
       THEN actor' = [actor EXCEPT !.at = "ended"] /\ UNCHANGED actions
       ELSE IF actions = <<>>
       THEN actor' = [actor EXCEPT !.at = "waiting"] /\ UNCHANGED actions
       ELSE /\ actions' = Tail(actions)
            /\ actor' = IF Head(actions).wallet \in live
                        THEN [at |-> Head(actions).kind, wallet |-> Head(actions).wallet]
                        ELSE actor
    /\ UNCHANGED <<items, live, created, holder, caller, cachedWork, walletsStopped, walletsJoined, aborted, callers>>

\* work_cache_blocking: after the work is generated the wallet may be gone.
StillThere_before(w) == TRUE
StillThere(w) == w \in live

WorkCached ==
    /\ actor.at = "work"
    /\ ActionsFree("T")
    /\ cachedWork' = IF StillThere(actor.wallet) THEN cachedWork \cup {actor.wallet} ELSE cachedWork
    /\ actor' = [actor EXCEPT !.at = "ready"]
    /\ UNCHANGED <<items, live, created, holder, caller, actions, walletsStopped, walletsJoined, aborted, callers>>

\* send_action with an identifier: the block is made in a write transaction ...
SendMade ==
    /\ actor.at = "send"
    /\ ActionsFree("T")
    /\ actor' = [actor EXCEPT !.at = IF actor.wallet \in live THEN "sent" ELSE "ready"]
    /\ UNCHANGED <<items, live, created, holder, caller, actions, cachedWork, walletsStopped, walletsJoined,
                   aborted, callers>>

\* ... and work_ensure, when it was processed, queues the work for the next one.
SendEnsures ==
    /\ actor.at = "sent"
    /\ ActionsFree("A")
    /\ actions' = ActionQueued("work", actor.wallet)
    /\ actor' = [actor EXCEPT !.at = "ready"]
    /\ UNCHANGED <<items, live, created, holder, caller, cachedWork, walletsStopped, walletsJoined, aborted, callers>>

WalletsStop ==
    /\ ~walletsStopped
    /\ ActionsFree("A")
    /\ walletsStopped' = TRUE
    /\ actions' = <<>>
    /\ NotifyActor
    /\ UNCHANGED <<items, live, created, holder, caller, cachedWork, walletsJoined, aborted, callers>>

WalletsJoin ==
    /\ walletsStopped /\ ~walletsJoined
    /\ actor.at = "ended"
    /\ walletsJoined' = TRUE
    /\ UNCHANGED <<items, live, created, holder, caller, actions, actor, cachedWork, walletsStopped, aborted, callers>>

-----------------------------------------------------------------------------
WalletsInit ==
    /\ items = FirstWallets
    /\ live = FirstWallets
    /\ created = FirstWallets
    /\ holder = [lock \in Lock |-> NoThread]
    /\ caller = [c \in WalletCaller |-> Resting]
    /\ actions = <<>>
    /\ actor = [at |-> "ready", wallet |-> NoThread]
    /\ cachedWork = {}
    /\ walletsStopped = FALSE
    /\ walletsJoined = FALSE
    /\ aborted = FALSE
    /\ callers = 0

WalletCallerStep(c) == TakeLock(c) \/ Refuse(c) \/ Create(c) \/ Destroy(c) \/ QueueAction(c)
ActorStep == NextAction \/ WorkCached \/ SendMade \/ SendEnsures

WalletsNext ==
    /\ ~aborted
    /\ \/ \E c \in WalletCaller, op \in {"create", "destroy", "insert", "send"}, w \in WalletId : CallWallet(c, op, w)
       \/ \E c \in WalletCaller : WalletCallerStep(c)
       \/ ActorStep
       \/ WalletsStop
       \/ WalletsJoin

-----------------------------------------------------------------------------
(* Properties                                                                *)

\* No work is written to the table of a wallet that was destroyed, whether it was destroyed
\* before its action was taken, or while the work was generated without any lock.
WorkOnlyLive == cachedWork \subseteq live

\* No order of taking the three locks leaves commands and the thread waiting on each other:
\* every command returns ("action_mutex should be after transactions to prevent deadlocks in
\* deterministic_insert () & insert_adhoc ()").  A second wallet_destroy of the same wallet ends
\* in a failed assertion instead.
WalletCallsReturn ==
    []<>(aborted \/ \A c \in WalletCaller : caller[c] = Resting)

\* Every action that is queued is taken from the queue, unless the wallets are stopped.
ActionsTaken == []<>(actions = <<>> \/ walletsStopped \/ aborted)

\* wallets::stop returns: the thread notices it between two actions and while it waits.
WalletsStopReturns == []<>(walletsStopped => walletsJoined \/ aborted)
=============================================================================
