----------------------------- MODULE PendingPull -----------------------------
(***************************************************************************)
(* The request for the pending entries of an account, which a wallet       *)
(* bootstrap makes (nano/node/bootstrap.cpp: bulk_pull_account_client and  *)
(* bulk_pull_account_server).                                              *)
(*                                                                         *)
(* The server walks over its pending table with a cursor and a transaction *)
(* for every entry, so the table changes under it.  A frame is sent and    *)
(* received in one step.  The flags of the request are the defined ones.   *)
(***************************************************************************)
EXTENDS Integers, Sequences, FiniteSets

CONSTANTS
    Entries,        \* pending entries: account, hash, amount and source
    Requested,      \* the account asked for
    Minimum,        \* receive_minimum
    DedupLimit,     \* 4096
    MaxTableChanges \* bound on the changes of the table

VARIABLES
    pending,        \* the pending table of the server
    altered,        \* entries that changed during the request
    known,          \* blocks in the store of the client
    asking          \* the request

pendingVars == <<pending, altered, known, asking>>

Key(e) == <<e.account, e.hash>>
Before(k, l) == k[1] < l[1] \/ (k[1] = l[1] /\ k[2] < l[2])

\* bulk_pull_account_client::request; set_params and send_frontier of the server.  The
\* first frame is the frontier of the account, which is pulled too when it is unknown.
request(flags, frontier) ==
    /\ asking.state = "none"
    /\ asking' = [asking EXCEPT !.state = "sending", !.flags = flags,
                                !.total_blocks = 1,
                                !.started = {frontier} \ (known \cup {0})]
    /\ UNCHANGED <<pending, altered, known>>

\* receive_pending: the client pulls a block it does not have; an amount below its
\* minimum makes it start over.
receive_pending(r, e) ==
    IF e.amount >= Minimum
    THEN [r EXCEPT !.total_blocks = @ + 1, !.started = @ \cup ({e.hash} \ known)]
    ELSE [r EXCEPT !.state = "requeued"]

\* The entry the cursor is on or before.
Following(k) ==
    {e \in pending : ~Before(Key(e), k) /\ \A f \in pending : ~Before(Key(f), k) => ~Before(Key(f), Key(e))}

Advanced_skip(e) == <<e.account, e.hash + 2>>
Advanced(e) == <<e.account, e.hash + 1>>

\* One round of get_next: the end, an entry that is skipped, or one that is sent.
Ends == \A e \in Following(asking.key) : e.account # Requested
Small_none(e) == FALSE
Small(e) == e.amount < Minimum
Repeated(e) == asking.flags = "address" /\ e.source \in asking.deduplication

send_finished ==
    /\ asking.state = "sending" /\ Ends
    /\ asking' = [asking EXCEPT !.state = "finished"]
    /\ UNCHANGED <<pending, altered, known>>

Skip ==
    /\ asking.state = "sending" /\ ~Ends
    /\ \E e \in Following(asking.key) :
         /\ Small(e) \/ Repeated(e)
         /\ asking' = [asking EXCEPT
              !.key = Advanced(e),
              !.deduplication =
                 IF ~Small(e) /\ Cardinality(@) > DedupLimit THEN {} ELSE @]
    /\ UNCHANGED <<pending, altered, known>>

send_next_block ==
    /\ asking.state = "sending" /\ ~Ends
    /\ \E e \in Following(asking.key) :
         /\ ~Small(e) /\ ~Repeated(e)
         /\ asking' = [(IF asking.flags = "hash" THEN receive_pending(asking, e) ELSE asking)
                         EXCEPT !.key = Advanced(e), !.sent = Append(@, e),
                                !.deduplication = IF asking.flags = "address"
                                                  THEN @ \cup {e.source} ELSE @]
    /\ UNCHANGED <<pending, altered, known>>

\* A send to the account is added or a pending entry is received, on the server.
TableChange(e) ==
    /\ asking.state = "sending" /\ Cardinality(altered) < MaxTableChanges
    /\ altered' = altered \cup {e}
    /\ pending' = IF e \in pending THEN pending \ {e} ELSE pending \cup {e}
    /\ UNCHANGED <<known, asking>>

PendingInit ==
    /\ altered = {}
    /\ asking = [state |-> "none", flags |-> "none", key |-> <<Requested, 0>>, total_blocks |-> 0,
                 started |-> {}, deduplication |-> {}, sent |-> <<>>]

PendingNext ==
    \/ \E flags \in {"hash", "address"}, e \in Entries : request(flags, e.hash)
    \/ send_finished \/ Skip \/ send_next_block
    \/ \E e \in Entries : TableChange(e)

-----------------------------------------------------------------------------
Wanted(e) == e.account = Requested /\ e.amount >= Minimum

\* When the answer ends, every entry of the account that was there throughout was
\* sent (or its source, when only addresses are asked for), and the client has started
\* a pull for each block it lacks, however the rest of the table changed.
PendingComplete ==
    asking.state = "finished" => \A e \in pending \ altered : Wanted(e) =>
        CASE asking.flags = "hash" ->
                /\ \E i \in DOMAIN asking.sent : asking.sent[i] = e
                /\ e.hash \in known \cup asking.started
          [] asking.flags = "address" ->
                \E i \in DOMAIN asking.sent : asking.sent[i].source = e.source

\* No entry is sent twice, and none of another account or below the minimum, although
\* entries are taken out of the table and put back while the cursor moves over it.
PendingOnce ==
    /\ \A i, j \in DOMAIN asking.sent : i < j => asking.sent[i].hash < asking.sent[j].hash
    /\ \A i \in DOMAIN asking.sent : Wanted(asking.sent[i])
====
