------------------------------ MODULE BulkPull ------------------------------
(***************************************************************************)
(* The transfer of block chains while bootstrapping: the pull queue of a   *)
(* bootstrap attempt, the clients that carry a pull out, the servers that  *)
(* answer them, and the search for dependencies in the lazy mode           *)
(* (nano/node/bootstrap.cpp: bulk_pull_client, bulk_pull_server,           *)
(* bootstrap_attempt::process_block, requeue_pull and request_pull, and    *)
(* the lazy operations of bootstrap_attempt).                              *)
(*                                                                         *)
(* A connection joins one client to one server.  The stream between them   *)
(* keeps the order, and the server reads its ledger anew for every block,  *)
(* so producing and consuming a block is one step; the ledgers of both     *)
(* sides change between the steps, and a connection may break at any time  *)
(* (a socket error, a timeout, a slow peer stopped by                      *)
(* populate_connections).  The thread that hands out the pulls and the     *)
(* pool of connections are in BootstrapAttempt.                            *)
(***************************************************************************)
EXTENDS Integers, Sequences, FiniteSets, SequencesExt, Tables

CONSTANTS
    Hash,           \* block hashes
    Zero,           \* the null hash
    EpochLink,      \* the link of an epoch block
    MaxAmount,      \* the largest amount
    Account,        \* accounts; a request starts at an account or a hash
    Content,        \* [Hash -> block]: type, account, previous, link, balance
    Connection,     \* connections of the attempt
    RetryLimit,     \* bootstrap_frontier_retry_limit: 16 in the code
    SpamLimit,      \* unexpected blocks a legacy pull accepts: 16384
    LazyMaxPull,    \* lazy_max_pull_blocks: 512
    MaxKeys,        \* start blocks of a lazy bootstrap: 1024
    MaxChanges      \* bound on the changes of the server's ledger

VARIABLES
    mode,               \* bootstrap_attempt::mode
    remote,             \* blocks of the server's ledger
    changes,            \* changes of the server's ledger so far
    stored,             \* blocks of the client's ledger
    received,           \* blocks handed to block_processor.add
    pulls,              \* bootstrap_attempt::pulls
    clients,            \* the pull at work on each busy connection
    done,               \* pulls that ended with expected = end
    lazy_keys, lazy_pulls, lazy_blocks, lazy_state_unknown, lazy_balances

lazyVars == <<lazy_keys, lazy_pulls, lazy_blocks, lazy_state_unknown, lazy_balances>>
ledgerVars == <<remote, changes, stored>>
pullVars == <<mode, ledgerVars, received, pulls, clients, done, lazyVars>>

previous(h) == Content[h].previous

\* block::source (): only open and receive blocks have one.
source(h) == IF Content[h].type \in {"open", "receive"} THEN Content[h].link ELSE Zero

\* The blocks a ledger must hold before it accepts h.
Dependencies(h) ==
    ({previous(h), source(h)} \cup
     (IF Content[h].type = "state" THEN {Content[h].link} ELSE {})) \cap Hash

\* The chain from h down to, and without, e.
ChainDown[h \in Hash \cup {Zero}, e \in Hash \cup {Zero}] ==
    IF h = Zero \/ h = e THEN <<>>
    ELSE <<h>> \o ChainDown[previous(h), e]

\* account_info::head in a ledger; Zero when the account is not opened.
account_head(ledger, a) ==
    LET own == {h \in ledger : Content[h].account = a}
        top == {h \in own : \A g \in own : previous(g) # h}
    IN  IF top = {} THEN Zero ELSE CHOOSE h \in top : TRUE

Busy == DOMAIN clients

-----------------------------------------------------------------------------
(* The server: bulk_pull_server. *)

\* Where an answer starts and ends.  An end the server does not have is
\* cleared, a start that is a block is included in the answer, and an end on
\* the chain of another account leaves nothing to send.
set_current_end(pull) ==
    LET end == IF pull.end \in remote THEN pull.end ELSE Zero
        head == account_head(remote, pull.account)
    IN  [end |-> end, sent_count |-> 0, max_count |-> pull.count,
         include_start |-> pull.account \in remote,
         current |->
            CASE pull.account \in remote -> pull.account
              [] pull.account \notin remote /\ head = Zero -> end
              [] OTHER -> IF end # Zero /\ Content[end].account # pull.account
                          THEN end ELSE head]

\* The cursor is on a block to send: it is not the end, or it is the start, and the
\* count allows one more.
SendCurrent_more(sv) ==
    /\ sv.current # sv.end \/ sv.include_start
    /\ sv.max_count = 0 \/ sv.sent_count <= sv.max_count
SendCurrent(sv) ==
    /\ sv.current # sv.end \/ sv.include_start
    /\ sv.max_count = 0 \/ sv.sent_count < sv.max_count

\* One call of get_next: the block to send (Zero: the answer is finished) and
\* the cursor after it.
get_next(sv) ==
    LET wanted == SendCurrent(sv)
        result == IF wanted /\ sv.current \in remote THEN sv.current ELSE Zero
        below == IF result # Zero /\ sv.current # sv.end /\ previous(result) # Zero
                 THEN previous(result) ELSE sv.end
    IN  [block |-> result,
         server |-> [sv EXCEPT !.current = IF wanted THEN below ELSE @,
                               !.sent_count = IF wanted THEN @ + 1 ELSE @,
                               !.include_start = FALSE]]

-----------------------------------------------------------------------------
(* The queue of pulls. *)

\* A pull_info; `from' keeps the head it was created with.
PullInfo(account, head, end, count) ==
    [account |-> account, head |-> head, from |-> head, end |-> end,
     count |-> count, attempts |-> 0]

\* requeue_pull: a failed pull goes to the front; at the limit a lazy pull
\* goes to the back and any other is given up.
requeue_pull_always(queue, pull) ==
    <<[pull EXCEPT !.attempts = @ + 1]>> \o queue
requeue_pull_fresh(queue, pull) ==
    <<pull>> \o queue
requeue_pull(queue, pull) ==
    LET again == [pull EXCEPT !.attempts = @ + 1] IN
    CASE again.attempts < RetryLimit -> <<again>> \o queue
      [] again.attempts >= RetryLimit /\ mode = "lazy" ->
            Append(queue, [again EXCEPT !.attempts = RetryLimit])
      [] OTHER -> queue

\* ~bulk_pull_client: a pull that did not reach its end is queued again from
\* the block it expected next.
Destroy(c, pull, expected) ==
    /\ clients' = Del(clients, c)
    /\ IF expected = pull.end
       THEN done' = done \cup {pull} /\ UNCHANGED pulls
       ELSE /\ pulls' = requeue_pull(pulls,
                          [pull EXCEPT !.head = expected,
                                       !.account = IF mode = "legacy" THEN @ ELSE expected])
            /\ UNCHANGED done

\* The pulls request_pull skips: those whose head was processed meanwhile, as
\* long as another pull is left.
Obsolete(pull) ==
    mode # "legacy" /\ pull.head # Zero /\ pull.head \in lazy_blocks \cup stored

\* request_pull: the first pull that is not obsolete, or else the last one,
\* is sent to the server.
request_pull(c) ==
    /\ c \notin Busy /\ pulls # <<>>
    /\ \E i \in DOMAIN pulls :
        /\ \A j \in 1 .. i - 1 : Obsolete(pulls[j])
        /\ i = Len(pulls) \/ ~Obsolete(pulls[i])
        /\ clients' = Put(clients, c,
             [pull |-> pulls[i], expected |-> pulls[i].head, total_blocks |-> 0,
              unexpected_count |-> 0, server |-> set_current_end(pulls[i]),
              request |-> pulls[i].account, since |-> changes, out |-> <<>>])
        /\ pulls' = SubSeq(pulls, i + 1, Len(pulls))
    /\ UNCHANGED <<mode, ledgerVars, received, done, lazyVars>>

-----------------------------------------------------------------------------
(* Lazy bootstrap: the search for the blocks a received block depends on. *)

\* lazy_start: a block someone wants, from the wallet, the RPC or a fork.
lazy_start(h) ==
    /\ mode # "legacy"
    /\ Cardinality(lazy_keys) < MaxKeys
    /\ h \notin lazy_keys \cup lazy_blocks
    /\ lazy_keys' = lazy_keys \cup {h}
    /\ lazy_pulls' = Append(lazy_pulls, h)
    /\ UNCHANGED <<mode, ledgerVars, received, pulls, clients, done,
                   lazy_blocks, lazy_state_unknown, lazy_balances>>

\* lazy_pull_flush: a pull of at most LazyMaxPull blocks for each block found
\* that is still unknown.
lazy_pull_flush_one ==
    /\ lazy_pulls # <<>>
    /\ pulls' = Append(pulls, PullInfo(lazy_pulls[1], lazy_pulls[1], Zero, LazyMaxPull))
    /\ lazy_pulls' = <<>>
    /\ UNCHANGED <<mode, ledgerVars, received, clients, done, lazy_keys,
                   lazy_blocks, lazy_state_unknown, lazy_balances>>
lazy_pull_flush ==
    /\ lazy_pulls # <<>>
    /\ pulls' = pulls \o
         LET fresh == SelectSeq(lazy_pulls, LAMBDA h : h \notin lazy_blocks \cup stored)
         IN  [i \in DOMAIN fresh |-> PullInfo(fresh[i], fresh[i], Zero, LazyMaxPull)]
    /\ lazy_pulls' = <<>>
    /\ UNCHANGED <<mode, ledgerVars, received, clients, done, lazy_keys,
                   lazy_blocks, lazy_state_unknown, lazy_balances>>

\* lazy_add: the sequence of blocks to add to lazy_pulls.
lazy_add(h, known) == IF h \in known THEN <<>> ELSE <<h>>

\* The balance process_block knows a block by: legacy open, receive and change
\* blocks carry none and count as the largest amount.
LazyBalance(h) ==
    IF Content[h].type \in {"send", "state"} THEN Content[h].balance ELSE MaxAmount

\* A state block receives when the balance before it is not larger.
Receives_any(before, balance) == TRUE
Receives(before, balance) == before <= balance

\* What an unknown block adds: `pull' the dependencies found, `unknown' and
\* `balances' the two maps after it.  The source of a state block is only
\* looked for once the balance of its previous block shows it receives.
Dependency(h, total_blocks) ==
    LET b == Content[h]
        p == b.previous
        state == /\ b.type = "state"
                 /\ b.link \notin {Zero, EpochLink} \cup lazy_blocks \cup stored
        ifReceives(amount) ==
            IF Receives(amount, b.balance) THEN lazy_add(b.link, lazy_blocks) ELSE <<>>
        looked == state /\ p # Zero /\ p \notin stored /\ p \in lazy_blocks
        added == IF total_blocks = 0
                 THEN Put(lazy_balances, h, LazyBalance(h)) ELSE lazy_balances
    IN  [pull |->
            CASE source(h) # Zero -> IF source(h) \in stored THEN <<>>
                                     ELSE lazy_add(source(h), lazy_blocks)
              [] state /\ p = Zero -> lazy_add(b.link, lazy_blocks)
              [] state /\ p \in stored -> ifReceives(Content[p].balance)
              [] looked /\ p \in DOMAIN lazy_balances -> ifReceives(lazy_balances[p])
              [] OTHER -> <<>>,
         unknown |->
            IF state /\ p # Zero /\ p \notin stored \cup lazy_blocks \cup DOMAIN lazy_state_unknown
            THEN Put(lazy_state_unknown, p, [link |-> b.link, balance |-> b.balance])
            ELSE lazy_state_unknown,
         balances |-> Del(added, p)]

\* Does the block held back receive, now that h, the block before it, is seen?
Settles_swapped(h, held) ==
    Content[h].type \in {"send", "state"} /\ Receives(held.balance, Content[h].balance)
Settles(h, held) ==
    Content[h].type \in {"send", "state"} /\ Receives(Content[h].balance, held.balance)

\* process_block in the lazy modes, for a block that was expected.  A block that
\* was held back until the balance of its previous block is known is settled
\* when that previous block is seen for the first time.
ProcessLazy(h, total_blocks) ==
    LET found == Dependency(h, total_blocks)
        new == h \notin stored
        unknown == IF new THEN found.unknown ELSE lazy_state_unknown
        blocks == IF new THEN lazy_blocks \cup {h} ELSE lazy_blocks
        settled == h \in DOMAIN unknown /\ Settles(h, unknown[h])
    IN  /\ received' = IF new THEN received \cup {h} ELSE received
        /\ lazy_blocks' = blocks
        /\ lazy_balances' = IF new THEN found.balances ELSE lazy_balances
        /\ lazy_state_unknown' = Del(unknown, h)
        /\ lazy_pulls' = lazy_pulls
              \o (IF new THEN found.pull ELSE <<>>)
              \o (IF settled THEN lazy_add(unknown[h].link, blocks) ELSE <<>>)
        /\ UNCHANGED lazy_keys

\* process_block; stop_pull tells the client to give the pull up.
process_block(h, total_blocks, block_expected, stop_pull) ==
    \/ /\ mode = "legacy"
       /\ stop_pull = FALSE
       /\ received' = received \cup {h}
       /\ UNCHANGED lazyVars
    \/ /\ mode # "legacy" /\ ~block_expected
       /\ stop_pull = TRUE
       /\ UNCHANGED <<received, lazyVars>>
    \/ /\ mode # "legacy" /\ block_expected
       /\ stop_pull = (h \in lazy_blocks \cup stored /\ total_blocks > LazyMaxPull)
       /\ IF h \in lazy_blocks THEN UNCHANGED <<received, lazyVars>>
                              ELSE ProcessLazy(h, total_blocks)

-----------------------------------------------------------------------------
(* The client: bulk_pull_client. *)

\* received_block: the next block of the answer.  A legacy pull tolerates
\* SpamLimit blocks it did not expect; a block that ends a lazy pull early
\* counts as its end.
received_block(c) ==
    LET s == clients[c]
        next == get_next(s.server)
        h == next.block
        hit == h = s.expected
        expected == IF hit THEN previous(h) ELSE s.expected
        unexpected == IF hit THEN s.unexpected_count ELSE s.unexpected_count + 1
    IN  /\ h # Zero
        /\ \E stop_pull \in BOOLEAN :
            /\ process_block(h, s.total_blocks + 1, hit, stop_pull)
            /\ CASE stop_pull -> Destroy(c, s.pull, IF hit THEN s.pull.end ELSE expected)
                 [] ~stop_pull /\ mode = "legacy" /\ unexpected >= SpamLimit ->
                        Destroy(c, s.pull, expected)
                 [] OTHER ->
                        /\ clients' = [clients EXCEPT ![c] =
                             [s EXCEPT !.expected = expected,
                                       !.total_blocks = @ + 1,
                                       !.unexpected_count = unexpected,
                                       !.server = next.server,
                                       !.out = Append(@, h)]]
                        /\ UNCHANGED <<pulls, done>>
        /\ UNCHANGED <<mode, ledgerVars>>

\* received_type of not_a_block: the answer is finished.
received_end_done(c) ==
    /\ get_next(clients[c].server).block = Zero
    /\ Destroy(c, clients[c].pull, clients[c].pull.end)
    /\ UNCHANGED <<mode, ledgerVars, received, lazyVars>>
received_end(c) ==
    /\ get_next(clients[c].server).block = Zero
    /\ Destroy(c, clients[c].pull, clients[c].expected)
    /\ UNCHANGED <<mode, ledgerVars, received, lazyVars>>

\* The connection is lost, or was stopped as too slow.
Break_done(c) ==
    /\ Destroy(c, clients[c].pull, clients[c].pull.end)
    /\ UNCHANGED <<mode, ledgerVars, received, lazyVars>>
Break(c) ==
    /\ Destroy(c, clients[c].pull, clients[c].expected)
    /\ UNCHANGED <<mode, ledgerVars, received, lazyVars>>

-----------------------------------------------------------------------------
(* The two ledgers: blocks arrive after their dependencies, and the server *)
(* may roll the head of a chain back.                                      *)

Store(h) ==
    /\ h \notin stored /\ Dependencies(h) \subseteq stored
    /\ stored' = stored \cup {h}
    /\ UNCHANGED <<mode, remote, changes, received, pulls, clients, done, lazyVars>>

RemoteChange(h) ==
    /\ changes < MaxChanges
    /\ changes' = changes + 1
    /\ \/ h \notin remote /\ Dependencies(h) \subseteq remote /\ remote' = remote \cup {h}
       \/ /\ h \in remote /\ \A g \in remote : h \notin Dependencies(g)
          /\ remote' = remote \ {h}
    /\ UNCHANGED <<mode, stored, received, pulls, clients, done, lazyVars>>

-----------------------------------------------------------------------------
PullTypeOK ==
    /\ mode \in {"legacy", "lazy", "wallet_lazy"}
    /\ remote \subseteq Hash /\ stored \subseteq Hash /\ received \subseteq Hash
    /\ changes \in 0 .. MaxChanges
    /\ \A i \in DOMAIN pulls : pulls[i].attempts \in 0 .. RetryLimit
    /\ lazy_keys \subseteq Hash /\ lazy_blocks \subseteq Hash
    /\ DOMAIN lazy_balances \subseteq Hash /\ DOMAIN lazy_state_unknown \subseteq Hash

\* A request is answered by the range the ledger defines: from the start, or from
\* the head of the account, down to and without the end, at most count blocks; a
\* start that is the end is sent alone, an end on another account's chain leaves
\* an account's answer empty, and an end nobody has leaves the whole chain.  The
\* comment on set_current_end has the answer to an account begin below its frontier,
\* "exclusive of the frontier for that account with a range of (frontier, end)"; the
\* code begins with the frontier, as bulk_pull_client expects.
PullRange(ledger, account, end, count) ==
    LET stop == IF end \in ledger THEN end ELSE Zero
        other == stop # Zero /\ Content[stop].account # account
        whole == CASE account \in ledger ->
                        <<account>> \o ChainDown[previous(account),
                                        IF stop = account THEN previous(account) ELSE stop]
                   [] account \notin ledger /\ other -> <<>>
                   [] OTHER -> ChainDown[account_head(ledger, account), stop]
    IN  SubSeq(whole, 1, IF count = 0 \/ count > Len(whole) THEN Len(whole) ELSE count)

\* As long as the server's ledger stays as it was, get_next hands out exactly that
\* range, block by block.
ServedRange ==
    \A c \in Busy : clients[c].since = changes =>
        LET s == clients[c]
            r == PullRange(remote, s.request, s.pull.end, s.pull.count)
        IN  /\ IsPrefix(s.out, r)
            /\ get_next(s.server).block = Zero => s.out = r

\* A pull that ends without being queued again has delivered its whole chain, from
\* the head it was created with to its end, over however many connections and
\* changes of the server's ledger it took.
PulledWhole ==
    \A p \in done : \A i \in DOMAIN ChainDown[p.from, p.end] :
        ChainDown[p.from, p.end][i] \in received \cup stored \cup lazy_blocks

\* Where the chain below a block processed by a lazy bootstrap is carried on.
Continues(h) ==
    \/ \E i \in DOMAIN pulls : pulls[i].head = h
    \/ \E c \in Busy : clients[c].expected = h

\* In a lazy bootstrap the chain below every processed block is processed too,
\* known to the ledger, or still going to be pulled: dropping an obsolete pull and
\* requeueing a broken one never leave a hole.
LazyChainsContinue ==
    mode = "lazy" => \A h \in lazy_blocks :
        previous(h) \in {Zero} \cup lazy_blocks \cup stored \/ Continues(previous(h))

\* The block a processed block receives from, if it receives.
Needs(h) ==
    IF source(h) # Zero THEN source(h)
    ELSE IF /\ Content[h].type = "state" /\ Content[h].link \in Hash
            /\ previous(h) = Zero \/ Content[previous(h)].balance <= Content[h].balance
         THEN Content[h].link ELSE Zero

Found(h) ==
    \/ h \in lazy_blocks \cup stored \/ Continues(h)
    \/ \E i \in DOMAIN lazy_pulls : lazy_pulls[i] = h

\* The source of every processed legacy block, and of every processed state block
\* that opens an account, is processed, known to the ledger, or going to be pulled.
LazyFindsSources ==
    mode = "lazy" => \A h \in lazy_blocks :
        (Needs(h) # Zero /\ (source(h) # Zero \/ previous(h) = Zero)) => Found(Needs(h))

\* A state block whose previous block was not seen yet is held back (lazy_state_unknown) and
\* not forgotten: it stays until that block is seen, in whichever pull, and its source is then
\* found, if the balance tells that it receives.  A legacy block other than a send
\* tells no balance; the code gives the source up then.
Waits(h) == Content[h].type = "state" /\ previous(h) \notin {Zero} \cup lazy_blocks \cup stored
LazyHeldSettles ==
    [][/\ \A h \in lazy_blocks' \ lazy_blocks :
            Waits(h) /\ Needs(h) # Zero => Found(Needs(h))' \/ previous(h) \in DOMAIN lazy_state_unknown'
       /\ \A p \in DOMAIN lazy_state_unknown : \A held \in {lazy_state_unknown[p]} :
            IF p \in DOMAIN lazy_state_unknown' THEN lazy_state_unknown'[p] = held
            ELSE Content[p].type \in {"send", "state"} /\ Content[p].balance <= held.balance
                    => Found(held.link)']_pullVars

\* "Search for new dependencies": the source of every processed block that receives
\* is found, or waits for the balance of the block before it.
LazyFindsDependencies ==
    mode = "lazy" => \A h \in lazy_blocks :
        \/ Needs(h) = Zero \/ Found(Needs(h))
        \/ previous(h) \in DOMAIN lazy_state_unknown

\* Only blocks are pulled: the destination in the link of a state block that sends
\* is never taken for a block.
LazyPullsBlocks ==
    \A i \in DOMAIN lazy_pulls : lazy_pulls[i] \in Hash

\* A legacy bootstrap comes to an end: every pull is completed or, after RetryLimit
\* attempts, given up.
PullsSettle == (mode = "legacy") ~> (pulls = <<>> /\ Busy = {})
=============================================================================
