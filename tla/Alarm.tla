-------------------------------- MODULE Alarm --------------------------------
(***************************************************************************)
(* The alarm of the node (nano/node/node.cpp: alarm): one thread that      *)
(* hands operations to the I/O threads when their time has come.  Nearly   *)
(* everything periodic in the node re-arms itself through it.              *)
(***************************************************************************)
EXTENDS Naturals, Sequences, FiniteSets

CONSTANTS
    AlarmOperation,
    Final,          \* the empty function that ends the thread
    MaxTime         \* bound: the clock

VARIABLES
    operations,     \* the priority queue
    alarmThread,    \* "loop", "waiting", "until" the wakeup it saw, or "ended"
    until,
    posted,         \* handed to the I/O threads, and not run yet
    now

alarmVars == <<operations, alarmThread, until, posted, now>>

-----------------------------------------------------------------------------
\* condition.notify_all
WakeAlarm_none(state) == state
WakeAlarm(state) == IF state \in {"waiting", "until"} THEN "loop" ELSE state

AlarmAdd(f, wakeup) ==
    /\ operations' = operations \cup {[wakeup |-> wakeup, function |-> f]}
    /\ alarmThread' = WakeAlarm(alarmThread)

\* One of the operations with the earliest time.
IsTop(o) == \A p \in operations : o.wakeup <= p.wakeup

AlarmTop(o) ==
    /\ IsTop(o)
    /\ IF o.function = Final
       THEN alarmThread' = "ended" /\ UNCHANGED <<operations, until, posted>>
       ELSE IF o.wakeup <= now
       THEN /\ posted' = posted \cup {o.function}
            /\ operations' = operations \ {o}
            /\ UNCHANGED <<alarmThread, until>>
       ELSE alarmThread' = "until" /\ until' = o.wakeup /\ UNCHANGED <<operations, posted>>

AlarmRun ==
    /\ alarmThread = "loop"
    /\ IF operations = {}
       THEN alarmThread' = "waiting" /\ UNCHANGED <<operations, until, posted>>
       ELSE \E o \in operations : AlarmTop(o)
    /\ UNCHANGED now

AlarmWakes ==
    /\ alarmThread = "until" /\ until <= now
    /\ alarmThread' = "loop"
    /\ UNCHANGED <<operations, until, posted, now>>

\* The destructor, which joins the thread.
AlarmDestroyed == \E o \in operations : o.function = Final
AlarmDestroy ==
    /\ ~AlarmDestroyed
    /\ AlarmAdd(Final, now)
    /\ UNCHANGED <<until, posted, now>>

Tick ==
    /\ now < MaxTime
    /\ now' = now + 1
    /\ UNCHANGED <<operations, alarmThread, until, posted>>

AlarmInit ==
    /\ operations = {} /\ alarmThread = "loop" /\ until = 0 /\ posted = {} /\ now = 0

AlarmStep == AlarmRun \/ AlarmWakes

-----------------------------------------------------------------------------
\* An operation whose time has come is handed over, whatever is added before or after it,
\* unless the alarm is destroyed.
AlarmFires ==
    []<>(AlarmDestroyed \/ \A o \in operations : o.wakeup > now)

\* The destructor returns: the empty function comes to the top though operations for later
\* are queued.
AlarmStops == []<>(AlarmDestroyed => alarmThread = "ended")
=============================================================================
