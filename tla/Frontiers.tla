------------------------------ MODULE Frontiers ------------------------------
(***************************************************************************)
(* The comparison of two ledgers that starts a legacy bootstrap, and the   *)
(* push that ends it (nano/node/bootstrap.cpp: frontier_req_client,        *)
(* frontier_req_server, bulk_push_client and bulk_push_server).            *)
(*                                                                         *)
(* Both sides walk over their accounts in order, in batches read from the  *)
(* store, while blocks are added to and rolled back from either ledger.    *)
(* The client merges the two walks into pulls and push targets.  The       *)
(* server only reads its own ledger and the client only its own, so        *)
(* sending and receiving a frontier is one step.  The request asks for     *)
(* frontiers of any age.                                                   *)
(***************************************************************************)
EXTENDS Integers, Sequences, FiniteSets, SequencesExt

CONSTANTS
    MaxAccount,     \* accounts are 1 .. MaxAccount, 0 is none
    KeySpace,       \* keys wrap around here: 2^256; the largest key is no account
    MaxHeight,      \* longest chain
    Batch,          \* accounts read at a time: 128
    CostLimit,      \* bulk_push_cost_limit: 200
    Count,          \* count of the request: 2^32 - 1
    MaxTouched,     \* bound on the changes of the two ledgers
    MaxRequests     \* bound on the frontier requests

VARIABLES
    mine, theirs,   \* the chain of each account in the ledger of the client, the server
    touched,        \* accounts that changed while the request was at work, in order
    merge,          \* the request
    push            \* the push

frontierVars == <<mine, theirs, touched, merge, push>>

Accounts == 1 .. MaxAccount
Nothing == <<>>         \* the zero hash

\* The chain of an account: its length, and which of two forks above the open block.
Chains == [len : 0 .. MaxHeight, fork : {1, 2}]
Block(a, height, fork) == <<a, height, IF height = 1 THEN 0 ELSE fork>>
HeadOf(chain, a) == IF chain.len = 0 THEN Nothing ELSE Block(a, chain.len, chain.fork)
Exists(ledger, h) ==
    /\ h # Nothing
    /\ h[2] <= ledger[h[1]].len
    /\ h = Block(h[1], h[2], ledger[h[1]].fork)
Previous(h) == IF h[2] = 1 THEN Nothing ELSE Block(h[1], h[2] - 1, h[3])

\* The blocks from h down to, and without, end.
Span(h, end) ==
    {g \in {Block(h[1], i, h[3]) : i \in 1 .. h[2]} : end = Nothing \/ g[2] > end[2]}

-----------------------------------------------------------------------------
(* Walking over the accounts: next () of both classes. *)

Entry(ledger, a) == [account |-> a, head |-> HeadOf(ledger[a], a)]
EndOfAccounts == [account |-> 0, head |-> Nothing]

\* The next accounts of the store, and an empty record when they are the last.
After_same(current) == current % (KeySpace - 1)
After(current) == (current + 1) % KeySpace
Exhausted_always(batch) == TRUE
Exhausted(batch) == Len(batch) # Batch
Fill(ledger, current) ==
    LET open == {a \in After(current) .. MaxAccount : a > 0 /\ ledger[a].len > 0}
        all == SetToSortSeq(open, <)
        batch == SubSeq(all, 1, IF Len(all) < Batch THEN Len(all) ELSE Batch)
    IN  [i \in DOMAIN batch |-> Entry(ledger, batch[i])]
        \o (IF Exhausted(batch) THEN <<EndOfAccounts>> ELSE <<>>)

next(ledger, walk) ==
    LET accounts == IF walk.accounts = <<>> THEN Fill(ledger, walk.current) ELSE walk.accounts
    IN  [walk EXCEPT !.accounts = Tail(accounts), !.current = accounts[1].account,
                     !.frontier = accounts[1].head]

\* A walk that begins at the account start.
Walk(ledger, start) ==
    next(ledger, [accounts |-> <<>>, current |-> (start - 1) % KeySpace,
                  frontier |-> Nothing])

-----------------------------------------------------------------------------
(* The client. *)

\* unsynced: the server lacks the blocks from head down to end.
unsynced(r, head, end) ==
    IF r.cost >= CostLimit THEN r
    ELSE [r EXCEPT !.targets = Append(@, [head |-> head, end |-> end]),
                   !.cost = @ + (IF end = Nothing THEN 2 ELSE 1)]

Advance(r) == [r EXCEPT !.client = next(mine, @)]
add_pull(r, account, head, end) ==
    [r EXCEPT !.pulls = Append(@, [account |-> account, head |-> head, end |-> end])]

\* The accounts before the one received are unknown to the server; at the end of the
\* server's walk all that are left.
RECURSIVE SkipTo(_, _)
SkipTo(r, account) ==
    IF r.client.current # 0 /\ (account = 0 \/ r.client.current < account)
    THEN SkipTo(Advance(unsynced(r, r.client.frontier, Nothing)), account)
    ELSE r

\* The comparison for the account both know.
Compare(r, latest) ==
    LET account == r.client.current
        frontier == r.client.frontier
    IN  Advance(
        CASE latest = frontier -> r
          [] latest # frontier /\ Exists(mine, latest) -> unsynced(r, frontier, latest)
          [] OTHER -> [add_pull(r, account, latest, frontier) EXCEPT !.cost = @ + 5])

\* received_frontier.
Received(r, account, latest) ==
    LET s == SkipTo(r, account) IN
    CASE account = 0 -> s
      [] account # 0 /\ s.client.current = account -> Compare(s, latest)
      [] OTHER -> add_pull(s, account, latest, Nothing)

\* request_frontier with the constructors of client and server; the targets of a
\* request that failed are kept.
request_frontier ==
    /\ merge.phase = "idle" /\ merge.requests < MaxRequests
    /\ merge' = [merge EXCEPT !.phase = "frontiers", !.requests = @ + 1, !.pulls = <<>>,
                              !.cost = 0, !.sent = 0,
                              !.client = Walk(mine, 1), !.server = Walk(theirs, 0)]
    /\ touched' = <<>>
    /\ UNCHANGED <<mine, theirs, push>>

\* send_next and received_frontier.
Frontier ==
    /\ merge.phase = "frontiers"
    /\ LET more == merge.server.current # 0 /\ merge.sent <= Count
           got == IF more
                  THEN Received(merge, merge.server.current, merge.server.frontier)
                  ELSE Received(merge, 0, Nothing)
       IN  merge' = [got EXCEPT !.server = IF more THEN next(theirs, @) ELSE @,
                                !.sent = IF more THEN @ + 1 ELSE @,
                                !.phase = IF more THEN @ ELSE "pulls"]
    /\ UNCHANGED <<mine, theirs, touched, push>>

\* The connection breaks or is too slow: the pulls are forgotten, the targets are not.
FrontierBreak ==
    /\ merge.phase = "frontiers"
    /\ merge' = [merge EXCEPT !.phase = "idle", !.pulls = <<>>]
    /\ UNCHANGED <<mine, theirs, touched, push>>

-----------------------------------------------------------------------------
(* The push.  The pulls that come before it are in BulkPull. *)

\* bulk_push_client::start
request_push ==
    /\ merge.phase = "pulls" /\ push.state = "none"
    /\ push' = [push EXCEPT !.state = "pushing", !.asked = merge.targets]
    /\ UNCHANGED <<mine, theirs, touched, merge>>

\* push: the next block of the current target; a target whose block is gone from the
\* ledger is left, the targets are taken from the back.
TargetDone_end(t) == IF t.head = Nothing THEN TRUE ELSE Previous(t.head) = t.end
TargetDone(t) == t.head = Nothing \/ t.head = t.end

push_next ==
    /\ push.state = "pushing"
    /\ \/ /\ TargetDone(push.target) /\ merge.targets # <<>>
          /\ push' = [push EXCEPT !.target = Last(merge.targets)]
          /\ merge' = [merge EXCEPT !.targets = Front(@)]
       \/ /\ TargetDone(push.target) /\ merge.targets = <<>>
          /\ push' = [push EXCEPT !.state = "finished"]
          /\ UNCHANGED merge
       \/ /\ ~TargetDone(push.target)
          /\ push' = IF Exists(mine, push.target.head)
                     THEN [push EXCEPT !.pushed = @ \cup {push.target.head},
                                       !.target.head = Previous(@)]
                     ELSE [push EXCEPT !.target.head = Nothing]
          /\ UNCHANGED merge
    /\ UNCHANGED <<mine, theirs, touched>>

\* The connection breaks, or the server gives the push up: it has an attempt of its own.
PushBreak ==
    /\ push.state = "pushing"
    /\ push' = [push EXCEPT !.state = "broken"]
    /\ UNCHANGED <<mine, theirs, touched, merge>>

-----------------------------------------------------------------------------
(* A ledger changes: a block is appended to a chain or rolled back. *)

Changed(chain) ==
    {c \in Chains : /\ c.len \in {chain.len - 1, chain.len + 1}
                    /\ c.fork = chain.fork \/ chain.len = 1}

LedgerChange(a) ==
    /\ merge.requests > 0 /\ Len(touched) < MaxTouched
    /\ touched' = Append(touched, a)
    /\ \/ \E c \in Changed(mine[a]) : mine' = [mine EXCEPT ![a] = c] /\ UNCHANGED theirs
       \/ \E c \in Changed(theirs[a]) : theirs' = [theirs EXCEPT ![a] = c] /\ UNCHANGED mine
    /\ UNCHANGED <<merge, push>>

FrontiersInit ==
    /\ touched = <<>>
    /\ merge = [phase |-> "idle", requests |-> 0, pulls |-> <<>>, targets |-> <<>>,
                cost |-> 0, sent |-> 0, client |-> Walk(mine, 1), server |-> Walk(theirs, 0)]
    /\ push = [state |-> "none", target |-> [head |-> Nothing, end |-> Nothing],
               asked |-> <<>>, pushed |-> {}]

FrontiersNext ==
    \/ request_frontier \/ Frontier \/ FrontierBreak
    \/ request_push \/ push_next \/ PushBreak
    \/ \E a \in Accounts : LedgerChange(a)

-----------------------------------------------------------------------------
Still(a) == \A i \in DOMAIN touched : touched[i] # a

\* What the comparison of two heads of an account calls for.
PullsFor(a) ==
    LET own == HeadOf(mine[a], a)
        other == HeadOf(theirs[a], a)
    IN  IF other \in {Nothing, own} \/ Exists(mine, other) THEN {}
        ELSE {[account |-> a, head |-> other, end |-> own]}
TargetsFor(a) ==
    LET own == HeadOf(mine[a], a)
        other == HeadOf(theirs[a], a)
    IN  CASE own # Nothing /\ other = Nothing -> {[head |-> own, end |-> Nothing]}
          [] other # own /\ Exists(mine, other) -> {[head |-> own, end |-> other]}
          [] OTHER -> {}

\* When the last frontier was received, the merge of the two walks has found exactly
\* the accounts to pull, and, within the cost limit, all there is to push, for every
\* account whose chains stayed as they were, whatever happened to the others.
MergeComplete ==
    (merge.phase = "pulls" /\ push.state = "none") => \A a \in Accounts : Still(a) =>
        /\ {merge.pulls[i] : i \in {j \in DOMAIN merge.pulls : merge.pulls[j].account = a}}
             = PullsFor(a)
        /\ merge.cost < CostLimit =>
             TargetsFor(a) \subseteq {merge.targets[i] : i \in DOMAIN merge.targets}

\* An account is pulled at most once, even when it is opened or changed while the two
\* ledgers are walked over.
PulledOnce ==
    \A i, j \in DOMAIN merge.pulls : i < j => merge.pulls[i].account < merge.pulls[j].account

\* A push that finished has sent every block of every target whose chain stayed.
PushedWhole ==
    push.state = "finished" => \A i \in DOMAIN push.asked :
        LET t == push.asked[i] IN
        (Still(t.head[1]) /\ Exists(mine, t.head)) => Span(t.head, t.end) \subseteq push.pushed
====
