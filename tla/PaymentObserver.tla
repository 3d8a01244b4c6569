--------------------------- MODULE PaymentObserver ---------------------------
(***************************************************************************)
(* The RPC command payment_wait (nano/node/rpc.cpp: payment_wait,          *)
(* payment_observer, rpc::observer_action) for one account: an observer is *)
(* told of the blocks of the account until the balance is there or a       *)
(* timeout of the alarm ends it, whichever is first.                       *)
(*                                                                         *)
(* A client waits again as soon as it has the answer.  The old observer is *)
(* taken out of the table after the answer, and the new one's timeout is   *)
(* armed before it is put there: both can meet the table in a state the    *)
(* code asserts it is never in.  The model goes on as a build without      *)
(* assertions does.  Two calls at once for one account, which fail the     *)
(* same assertion, are left out: an account is for one client              *)
(* (payment_begin).                                                        *)
(***************************************************************************)
EXTENDS Alarm

CONSTANTS
    MaxWaits,           \* bound: calls of payment_wait
    Timeout,            \* of a call, in ticks
    MaxPayments         \* bound: blocks that change the balance

ASSUME WaitsAssumption == MaxWaits \in Nat

VARIABLES
    payment_observers,  \* the observer of the account, 0 if none
    waiting,            \* how far each call is
    completed,          \* payment_observer::completed
    responses,          \* what each call was answered
    erasing,            \* observers that answered and are still in complete
    observing,          \* observers that observer_action found, to observe
    balanceReached,
    blockNotices,       \* blocks of the account whose observers are still to be called
    payments,
    overlapped          \* a call came to the table while an earlier one was on its way in or out

paymentVars == <<payment_observers, waiting, completed, responses, erasing, observing, balanceReached,
                 blockNotices, payments, overlapped>>
observerVars == <<alarmVars, paymentVars>>

Wait == 1 .. MaxWaits
Found(table) == IF table = 0 THEN {} ELSE {table}

-----------------------------------------------------------------------------
\* start: the timeout, on a new observer.
PaymentWait(w) ==
    /\ waiting[w] = "none"
    /\ w > 1 => responses[w - 1] # <<>>
    /\ now + Timeout <= MaxTime
    /\ AlarmAdd(w, now + Timeout)
    /\ waiting' = [waiting EXCEPT ![w] = "started"]
    /\ UNCHANGED <<until, posted, now, payment_observers, completed, responses, erasing, observing,
                   balanceReached, blockNotices, payments, overlapped>>

\* Into the table.
Register(w) ==
    /\ waiting[w] = "started"
    /\ waiting' = [waiting EXCEPT ![w] = "registered"]
    /\ payment_observers' = w
    /\ overlapped' = (overlapped \/ erasing # {} \/ \E v \in 1 .. (w - 1) : waiting[v] = "started")
    /\ UNCHANGED <<alarmVars, completed, responses, erasing, observing, balanceReached, blockNotices, payments>>

\* observer_action of payment_wait itself: the balance may be there already.
LookAtOnce(w) ==
    /\ waiting[w] = "registered"
    /\ waiting' = [waiting EXCEPT ![w] = "waiting"]
    /\ observing' = observing \cup Found(payment_observers)
    /\ UNCHANGED <<alarmVars, payment_observers, completed, responses, erasing, balanceReached, blockNotices,
                   payments, overlapped>>

\* A block changes the balance, and later the block observer calls observer_action.
Payment ==
    /\ payments < MaxPayments
    /\ payments' = payments + 1
    /\ balanceReached' = ~balanceReached
    /\ blockNotices' = blockNotices + 1
    /\ UNCHANGED <<alarmVars, payment_observers, waiting, completed, responses, erasing, observing, overlapped>>

BlockNotice ==
    /\ blockNotices > 0
    /\ blockNotices' = blockNotices - 1
    /\ observing' = observing \cup Found(payment_observers)
    /\ UNCHANGED <<alarmVars, payment_observers, waiting, completed, responses, erasing, balanceReached, payments,
                   overlapped>>

\* complete: the first of those who call it answers.
Already_never(w) == FALSE
Already(w) == completed[w]

\* The observers that leave the table: of the calls that answered.
Leaves_always(w) == {w}
Leaves(w) == IF Already(w) THEN {} ELSE {w}

Complete(w, status) ==
    /\ completed' = [completed EXCEPT ![w] = TRUE]
    /\ responses' = IF Already(w) THEN responses ELSE [responses EXCEPT ![w] = Append(@, status)]
    /\ erasing' = erasing \cup Leaves(w)

Observe(w) ==
    /\ w \in observing
    /\ observing' = observing \ {w}
    /\ IF balanceReached THEN Complete(w, "success") ELSE UNCHANGED <<completed, responses, erasing>>
    /\ UNCHANGED <<alarmVars, payment_observers, waiting, balanceReached, blockNotices, payments, overlapped>>

\* An I/O thread runs the operation of the alarm.
TimedOut(w) ==
    /\ w \in posted
    /\ posted' = posted \ {w}
    /\ Complete(w, "nothing")
    /\ UNCHANGED <<operations, alarmThread, until, now, payment_observers, waiting, observing, balanceReached,
                   blockNotices, payments, overlapped>>

\* The rest of complete: whatever is in the table under the account is erased.
EraseObserver(w) ==
    /\ w \in erasing
    /\ erasing' = erasing \ {w}
    /\ payment_observers' = 0
    /\ UNCHANGED <<alarmVars, waiting, completed, responses, observing, balanceReached, blockNotices, payments,
                   overlapped>>

-----------------------------------------------------------------------------
PaymentInit ==
    /\ AlarmInit
    /\ payment_observers = 0
    /\ waiting = [w \in Wait |-> "none"]
    /\ completed = [w \in Wait |-> FALSE]
    /\ responses = [w \in Wait |-> <<>>]
    /\ erasing = {} /\ observing = {}
    /\ balanceReached = FALSE /\ blockNotices = 0 /\ payments = 0
    /\ overlapped = FALSE

AlarmMoves == (AlarmStep \/ Tick) /\ UNCHANGED paymentVars
WaitStep(w) == Register(w) \/ LookAtOnce(w) \/ Observe(w) \/ TimedOut(w) \/ EraseObserver(w)

PaymentNext ==
    \/ AlarmMoves
    \/ AlarmDestroy /\ UNCHANGED paymentVars
    \/ \E w \in Wait : PaymentWait(w) \/ WaitStep(w)
    \/ Payment
    \/ BlockNotice

-----------------------------------------------------------------------------
\* A call is answered once, though the balance and the timeout may both come, in any order
\* and at the same time.
PaymentAnsweredOnce == \A w \in Wait : Len(responses[w]) <= 1

\* Every call is answered, by its timeout if by nothing else, unless the node stops.
PaymentAnswered ==
    []<>(AlarmDestroyed \/ \A w \in Wait : waiting[w] # "none" => responses[w] # <<>>)

\* An observer that has not answered is in the table, where blocks of its account find it, though
\* timeouts of earlier calls fire late.  The exception is a client that waits again before the
\* observer that answered it has left the table, or, with a short timeout, has come to it: the
\* old one then replaces or erases the new one.
ObserverFound ==
    \/ overlapped
    \/ \A w \in Wait :
          waiting[w] \in {"registered", "waiting"} /\ ~completed[w] =>
              payment_observers = w

\* payment_wait answers once, by the payment or the timeout, and is found while it waits.
PaymentsSettled == PaymentAnsweredOnce /\ ObserverFound
-----------------------------------------------------------------------------
(* The inductive invariant behind PaymentsSettled                            *)

PaymentSpec == PaymentInit /\ [][PaymentNext]_observerVars

\* Calls that have begun
Begun == {w \in Wait : waiting[w] # "none"}

\* Whoever can complete a call knows one that has begun
CallsInv ==
    /\ waiting \in [Wait -> {"none", "started", "registered", "waiting"}]
    /\ completed \in [Wait -> BOOLEAN] /\ responses \in [Wait -> Seq({"success", "nothing"})]
    /\ payment_observers \in Begun \cup {0}
    /\ observing \subseteq Begun /\ posted \subseteq Begun
    /\ \A o \in operations : o.function = Final \/ o.function \in Begun

\* The client calls again when it has the answer
AnswersInv ==
    /\ \A w \in Wait : completed[w] => w \in Begun
    /\ \A w \in Wait : Len(responses[w]) <= IF completed[w] THEN 1 ELSE 0
    /\ \A w \in Begun : \A v \in 1 .. (w - 1) : completed[v]
    /\ \A w \in erasing : w \in Wait /\ completed[w]

\* The observer of a call that waits is alone
ObserversInv ==
    \A w \in Wait : waiting[w] \in {"registered", "waiting"} /\ ~completed[w] =>
        /\ payment_observers = w /\ erasing = {}
        /\ \A v \in 1 .. (w - 1) : waiting[v] # "started"

PaymentInv == CallsInv /\ AnswersInv /\ (overlapped \/ ObserversInv)
=============================================================================
