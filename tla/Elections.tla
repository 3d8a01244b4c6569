----------------------------- MODULE Elections ------------------------------
(***************************************************************************)
(* Elections: the classes election and active_transactions of              *)
(* nano/node/node.cpp, together with node::process_confirmed.              *)
(*                                                                         *)
(* Threads: the request loop, the threads that start elections, publish    *)
(* blocks to them and apply votes, the block processor that changes the    *)
(* ledger, the background thread that runs process_confirmed, and the      *)
(* node's shutdown.  active_transactions::mutex protects roots, blocks and *)
(* every election.  A batch of votes keeps it from one block of a vote to  *)
(* the next (`voting'), request_confirm releases it between its two halves *)
(* (loop = "prune").                                                       *)
(*                                                                         *)
(* The ledger is the set of stored blocks.  A hash is a number, because    *)
(* votes of one sequence number are ordered by hash.  Vote weights are     *)
(* constant, signatures are valid and requests for votes are left out.     *)
(***************************************************************************)
EXTENDS Integers, FiniteSets, Sequences, FiniteSetsExt, Functions, Tables

CONSTANTS
    Hash,            \* hashes of the blocks elections are about, a set of numbers
    Root,            \* Root[h] is the pair (previous, root) of the block
    Previous,        \* Previous[h], or None: no block, or one that stays in the ledger
    Source,          \* the send that block h receives, or None
    None,
    Rep,             \* representatives
    Weight,          \* ledger::weight of a representative
    Supply,          \* online_reps::online_stake
    Quorum,          \* config.online_weight_quorum, in percent
    MinimumWeight,   \* config.online_weight_minimum
    Ballot,          \* votes in circulation: [rep, sequence, items]
    Startable,       \* blocks the node may start an election for
    Id,              \* identities of election objects; bound: how many there are at a time
    AnnouncementMin, \* announcement_min
    AnnouncementLong,\* announcement_long
    BlockLimit,      \* blocks an election accepts regardless of their tally
    EscalationLimit, \* escalate only while there are fewer elections
    RetryLimit,      \* iterations of process_confirmed
    Watched,         \* the blocks whose process_confirmed is followed
    ForcedMax,       \* bound on the length of forced
    MayErase,        \* does an RPC client force forks?
    MayStop          \* is the node shut down?

ASSUME HashAssumption == Hash \subseteq Nat /\ IsFiniteSet(Hash) /\ None \notin Hash
ASSUME LinkAssumption == {Previous, Source} \subseteq [Hash -> Hash \cup {None}] /\ Hash = DOMAIN Root
ASSUME WeightAssumption == /\ Weight \in [Rep -> Nat] /\ IsFiniteSet(Rep)
                           /\ {Supply, Quorum, MinimumWeight} \subseteq Nat
ASSUME BallotAssumption ==
    Ballot \subseteq [rep : Rep, sequence : Nat, items : Seq([hash : Hash, whole : BOOLEAN]) \ {<<>>}]
ASSUME LimitAssumption == /\ {AnnouncementMin, BlockLimit} \subseteq Nat \ {0} /\ AnnouncementLong \in Nat \ {0, 1}
                          /\ {EscalationLimit, RetryLimit, ForcedMax} \subseteq Nat
                          /\ {MayErase, MayStop} \subseteq BOOLEAN /\ {Startable, Watched} \subseteq SUBSET Hash

VARIABLES
    roots,       \* root -> election in progress
    blocks,      \* hash -> election
    election,    \* the election objects that are still referenced
    confirmed,   \* list_confirmed: winners of past elections
    loop,        \* where request_loop is: "scan", "prune", "exit"
    inactive,    \* local to request_confirm: the roots it is about to remove
    seen,        \* history: what request_confirm saw of the confirmed ones among them
    voting,      \* what is left of the vote being applied, under the mutex
    stopped,
    stopper,     \* where the thread calling stop is: "none", "join", "done"
    stored,      \* the ledger
    forced,      \* block_processor.forced
    background,  \* calls of process_confirmed: [hash, iteration, found]
    erased       \* history: has a client erased an election?

index == <<roots, blocks>>
control == <<stopped, stopper, erased>>
evars == <<index, election, confirmed, loop, inactive, seen, voting, control, stored, forced, background>>

NoVote == [rep |-> None, sequence |-> 0, items |-> <<>>]
Free == voting = NoVote                     \* the mutex is not held
Deps(h) == {Previous[h], Source[h]} \ {None}
Vote == [sequence : {v.sequence : v \in Ballot}, hash : Hash]
AnnouncementCap == 2 * AnnouncementLong     \* counting goes on from AnnouncementLong + 1
Election ==
    [root : Range(Root), first : Hash, blocks : SUBSET Hash, last_votes : UNION {[R -> Vote] : R \in SUBSET Rep},
     winner : Hash, confirmed : BOOLEAN, stopped : BOOLEAN, announcements : 0 .. AnnouncementCap,
     last_tally : [Hash -> Nat], calls : Nat]
-----------------------------------------------------------------------------
(* class election *)

\* The constructor's vote of not_an_account weighs nothing, but makes the first
\* block appear in every tally.
NewElection(h) ==
    [root |-> Root[h], first |-> h, blocks |-> {h}, last_votes |-> <<>>, winner |-> h,
     confirmed |-> FALSE, stopped |-> FALSE, announcements |-> 0,
     last_tally |-> [b \in Hash |-> 0], calls |-> 0]

Voted(e) == {e.first} \cup {e.last_votes[r].hash : r \in DOMAIN e.last_votes}
BlockWeights(e) ==
    [h \in Hash |-> SumFunctionOnSet(Weight, {r \in DOMAIN e.last_votes : e.last_votes[r].hash = h})]

Counted_all(e) == Voted(e)
\* Votes for a block that was not published to the election do not count yet.
Counted(e) == Voted(e) \cap e.blocks

\* tally_t maps a weight to one block: blocks of equal weight share an entry.
Tally(e) == {BlockWeights(e)[h] : h \in Counted(e)}
Leaders(e) == {h \in Counted(e) : BlockWeights(e)[h] = Max(Tally(e))}

Delta == (Supply \div 100) * Quorum

have_quorum_lead(e) ==
    LET first == Max(Tally(e))
    IN  SumSet(Tally(e)) >= MinimumWeight /\ \A w \in Tally(e) \ {first} : first > w
have_quorum(e) ==
    LET first  == Max(Tally(e))
        second == Max((Tally(e) \ {first}) \cup {0})
    IN  SumSet(Tally(e)) >= MinimumWeight /\ first > second + Delta

\* May confirm_back confirm the election of block h?
BackEligible(es, h) ==
    /\ h \in DOMAIN blocks
    /\ ~es[blocks[h]].confirmed /\ ~es[blocks[h]].stopped
    /\ es[blocks[h]].blocks = {h}

\* The blocks confirm_back reaches from h: dependencies of dependencies, as long
\* as each has an election of its own with no rival.
ConfirmBack(es, h) ==
    LET Reached[n \in 0 .. Cardinality(Hash)] ==
            IF n = 0 THEN {d \in Deps(h) : BackEligible(es, d)}
            ELSE Reached[n - 1] \cup
                 {d \in UNION {Deps(b) : b \in Reached[n - 1]} : BackEligible(es, d)}
    IN  Reached[Cardinality(Hash)]

ConfirmOnce_again(es, ids) ==
    /\ election' = [i \in DOMAIN es |->
                      IF i \in ids THEN [es[i] EXCEPT !.confirmed = TRUE, !.calls = @ + 1] ELSE es[i]]
    /\ UNCHANGED background
\* confirm_once for the elections of ids, given the elections es
ConfirmOnce(es, ids) ==
    /\ election' = [i \in DOMAIN es |->
                      IF i \in ids /\ ~es[i].confirmed
                      THEN [es[i] EXCEPT !.confirmed = TRUE, !.calls = @ + 1] ELSE es[i]]
    /\ background' = background \cup
         {[hash |-> es[i].winner, iteration |-> 0, found |-> FALSE] :
            i \in {j \in ids : ~es[j].confirmed /\ es[j].winner \in Watched}}

\* confirm_if_quorum on election i, whose state is now e
ConfirmIfQuorum(i, e) ==
    \E leader \in Leaders(e) :
      LET switch == SumSet(Tally(e)) >= MinimumWeight /\ leader # e.winner
          winner == IF switch THEN leader ELSE e.winner
          es     == Put(election, i, [e EXCEPT !.winner = winner, !.last_tally = BlockWeights(e)])
          now    == [es EXCEPT ![i].confirmed = TRUE]
      IN  /\ switch => Len(forced) < ForcedMax
          /\ forced' = IF switch THEN Append(forced, leader) ELSE forced
          /\ ConfirmOnce(es, IF ~have_quorum(e) THEN {}
                             ELSE {i} \cup (IF e.confirmed THEN {}
                                            ELSE {blocks[h] : h \in ConfirmBack(now, winner)}))

\* election::vote.  Within the cooldown a newer vote is dropped.
ElectionVote(i, rep, sequence, hash) ==
    LET e    == election[i]
        last == e.last_votes[rep]
        new  == [e EXCEPT !.last_votes = Put(@, rep, [sequence |-> sequence, hash |-> hash])]
        fresh == rep \notin DOMAIN e.last_votes
        newer == ~fresh => \/ last.sequence < sequence
                           \/ last.sequence = sequence /\ last.hash < hash
    IN  \/ /\ Weight[rep] <= Supply \div 1000 \/ ~fresh
           /\ UNCHANGED <<election, forced, background>>
        \/ /\ Weight[rep] > Supply \div 1000 /\ newer
           /\ IF e.confirmed
              THEN election' = Put(election, i, new) /\ UNCHANGED <<forced, background>>
              ELSE ConfirmIfQuorum(i, new)
-----------------------------------------------------------------------------
(* class active_transactions *)

\* The election objects that nothing refers to any more are destroyed.
Collect(es, rs, bs) == Restrict(es, DOMAIN es \cap (Range(rs) \cup Range(bs)))

\* unordered_map::insert leaves an entry that is there alone.
Index(bs, h, i) == IF h \in DOMAIN bs THEN bs ELSE Put(bs, h, i)

\* add
Start(h) ==
    /\ Free /\ ~stopped
    /\ Root[h] \notin DOMAIN roots /\ Id \ DOMAIN election # {}
    /\ LET i == CHOOSE j \in Id : j \notin DOMAIN election
       IN  /\ election' = Put(election, i, NewElection(h))
           /\ roots' = Put(roots, Root[h], i)
           /\ blocks' = Index(blocks, h, i)
    /\ UNCHANGED <<confirmed, loop, inactive, seen, voting, control, stored, forced, background>>

Publish_quiet(h) ==
    /\ Free
    /\ Root[h] \in DOMAIN roots
    /\ LET i == roots[Root[h]]
       IN  /\ election' = [election EXCEPT ![i].blocks = @ \cup {h}]
           /\ blocks' = Index(blocks, h, i)
    /\ UNCHANGED <<roots, confirmed, loop, inactive, seen, voting, control, stored, forced, background>>
Publish(h) ==
    /\ Free
    /\ Root[h] \in DOMAIN roots
    /\ LET i == roots[Root[h]]
           e == election[i]
       IN  /\ Cardinality(e.blocks) >= BlockLimit => e.last_tally[h] >= Supply \div 10
           /\ Previous[h] # None => Previous[h] \in stored
           /\ IF h \in e.blocks THEN UNCHANGED <<election, forced, background>>
              ELSE ConfirmIfQuorum(i, [e EXCEPT !.blocks = @ \cup {h}])
           /\ blocks' = Index(blocks, h, i)
    /\ UNCHANGED <<roots, confirmed, loop, inactive, seen, voting, control, stored>>

\* active_transactions::vote: the mutex is taken for the whole vote ...
BeginVote(v) ==
    /\ Free
    /\ voting' = v
    /\ UNCHANGED <<index, election, confirmed, loop, inactive, seen, control, stored, forced, background>>

\* ... whose items are applied one after the other.  A block that comes as a hash
\* is looked up in blocks, one that comes whole by its root.
VoteNext ==
    /\ ~Free
    /\ LET item == Head(voting.items)
           rest == Tail(voting.items)
           target == IF item.whole
                     THEN IF Root[item.hash] \in DOMAIN roots THEN {roots[Root[item.hash]]} ELSE {}
                     ELSE IF item.hash \in DOMAIN blocks THEN {blocks[item.hash]} ELSE {}
       IN  /\ voting' = IF rest = <<>> THEN NoVote ELSE [voting EXCEPT !.items = rest]
           /\ \/ target = {} /\ UNCHANGED <<election, forced, background>>
              \/ \E i \in target : ElectionVote(i, voting.rep, voting.sequence, item.hash)
    /\ UNCHANGED <<index, confirmed, loop, inactive, seen, control, stored>>

Rivals(h) == {b \in stored : Root[b] = Root[h] /\ b # h}

\* rpc_handler::process with force, on the verdict "fork": erase, then
\* block_processor.force
Erase(h) ==
    /\ MayErase /\ Free
    /\ h \notin stored /\ Rivals(h) # {}
    /\ Root[h] \in DOMAIN roots
    /\ Len(forced) < ForcedMax
    /\ roots' = Del(roots, Root[h])
    /\ election' = Collect(election, roots', blocks)
    /\ forced' = Append(forced, h) /\ erased' = TRUE
    /\ UNCHANGED <<blocks, confirmed, loop, inactive, seen, voting, stopped, stopper, stored, background>>
-----------------------------------------------------------------------------
(* request_loop *)

Fits(h) == Deps(h) \subseteq stored         \* ledger::could_fit

Finished_any(e) == e.announcements >= AnnouncementMin - 1
Finished_exact(e) == (e.confirmed \/ e.stopped) /\ e.announcements = AnnouncementMin - 1
Finished(e) == (e.confirmed \/ e.stopped) /\ e.announcements >= AnnouncementMin - 1

\* An election that does not fit any more is stopped, but not in its first round.
Announced(e) ==
    [e EXCEPT !.announcements = IF @ = AnnouncementCap THEN AnnouncementLong + 1 ELSE @ + 1,
              !.stopped = \/ @
                          \/ /\ ~Finished(e) /\ ~Fits(e.winner)
                             /\ e.announcements # 0
                             /\ \/ e.announcements < AnnouncementLong
                                \/ e.announcements % AnnouncementLong = 1]

\* The blocks a long unconfirmed election starts elections for
Escalated(e) ==
    LET previous == Previous[e.winner]
        long == /\ ~Finished(e)
                /\ e.announcements > AnnouncementLong /\ e.announcements % AnnouncementLong = 1
                /\ Cardinality(DOMAIN roots) < EscalationLimit
    IN  {h \in stored : /\ long
                        /\ \/ h = previous
                           \/ h = Source[e.winner] /\ previous \in stored \cup {None}}

\* The first half of request_confirm, under the mutex.  An election started here
\* is visited in this same round or not, depending on its difficulty.
RequestConfirm ==
    /\ loop = "scan" /\ Free /\ ~stopped
    /\ LET done == {r \in DOMAIN roots : Finished(election[roots[r]])}
           new == {h \in UNION {Escalated(election[roots[r]]) : r \in DOMAIN roots} :
                     Root[h] \notin DOMAIN roots}
           id == CHOOSE f \in Injection(new, Id \ DOMAIN election) : TRUE
           Creator(i) == CHOOSE h \in new : id[h] = i
       IN  \E visited \in SUBSET new :
             /\ Injection(new, Id \ DOMAIN election) # {}
             /\ inactive' = done
             /\ seen' = [r \in {q \in done : election[roots[q]].confirmed} |->
                            [winner |-> election[roots[r]].winner, blocks |-> election[roots[r]].blocks]]
             /\ confirmed' = confirmed \cup {election[roots[r]].winner :
                                               r \in {q \in done : election[roots[q]].confirmed}}
             /\ election' = [i \in DOMAIN election \cup Range(id) |->
                  IF i \notin DOMAIN election
                  THEN [NewElection(Creator(i)) EXCEPT !.announcements = IF Creator(i) \in visited THEN 1 ELSE 0]
                  ELSE IF i \in Range(roots) THEN Announced(election[i]) ELSE election[i]]
             /\ roots' = [r \in DOMAIN roots \cup {Root[h] : h \in new} |->
                  IF r \in DOMAIN roots THEN roots[r] ELSE id[CHOOSE h \in new : Root[h] = r]]
             /\ blocks' = [h \in DOMAIN blocks \cup new |-> IF h \in DOMAIN blocks THEN blocks[h] ELSE id[h]]
    /\ loop' = "prune"
    /\ UNCHANGED <<voting, control, stored, forced, background>>

Prune_roots ==
    /\ loop = "prune" /\ Free
    /\ roots' = Restrict(roots, DOMAIN roots \ inactive)
    /\ inactive' = {} /\ seen' = <<>> /\ loop' = "scan"
    /\ UNCHANGED <<blocks, election, confirmed, voting, control, stored, forced, background>>
Prune_again ==
    /\ loop = "prune" /\ Free
    /\ LET gone == UNION {election[roots[r]].blocks : r \in inactive}
       IN  /\ blocks' = Restrict(blocks, DOMAIN blocks \ gone)
           /\ roots' = Restrict(roots, DOMAIN roots \ inactive)
           /\ election' = Collect(election, roots', blocks')
    /\ loop' = "scan"
    /\ UNCHANGED <<inactive, seen, confirmed, voting, control, stored, forced, background>>
\* The second half, after the mutex was released to send the requests
Prune ==
    /\ loop = "prune" /\ Free
    /\ inactive \subseteq DOMAIN roots      \* assert (root_it != roots.end ())
    /\ LET gone == UNION {election[roots[r]].blocks : r \in inactive}
       IN  /\ blocks' = Restrict(blocks, DOMAIN blocks \ gone)
           /\ roots' = Restrict(roots, DOMAIN roots \ inactive)
           /\ election' = Collect(election, roots', blocks')
    /\ inactive' = {} /\ seen' = <<>>
    /\ loop' = "scan"
    /\ UNCHANGED <<confirmed, voting, control, stored, forced, background>>

LoopExit_idle ==
    /\ loop = "scan" /\ Free /\ stopped /\ roots = <<>>
    /\ loop' = "exit"
    /\ UNCHANGED <<index, election, confirmed, inactive, seen, voting, control, stored, forced, background>>
LoopExit ==
    /\ loop = "scan" /\ Free /\ stopped
    /\ loop' = "exit"
    /\ UNCHANGED <<index, election, confirmed, inactive, seen, voting, control, stored, forced, background>>

\* stop
Stop ==
    /\ MayStop /\ Free /\ stopper = "none"
    /\ stopped' = TRUE
    /\ stopper' = "join"
    /\ UNCHANGED <<index, election, confirmed, loop, inactive, seen, voting, stored, forced, background, erased>>

StopJoin ==
    /\ stopper = "join" /\ loop = "exit" /\ Free
    /\ stopper' = "done"
    /\ roots' = <<>>
    /\ election' = Collect(election, <<>>, blocks)
    /\ UNCHANGED <<blocks, confirmed, loop, inactive, seen, voting, stopped, stored, forced, background, erased>>
-----------------------------------------------------------------------------
(* The block processor, as far as elections see it *)

\* Blocks of S and the stored blocks that rest on them: what a rollback of S removes
Dependents(S) ==
    LET Up[n \in 0 .. Cardinality(Hash)] ==
            IF n = 0 THEN S
            ELSE Up[n - 1] \cup {b \in stored : Deps(b) \cap Up[n - 1] # {}}
    IN  Up[Cardinality(Hash)]

ledgerless == <<index, election, confirmed, loop, inactive, seen, voting, control>>

\* ledger::process gives progress for a block that arrives
Insert(h) ==
    /\ h \notin stored /\ Fits(h) /\ Rivals(h) = {}
    /\ stored' = stored \cup {h}
    /\ UNCHANGED <<ledgerless, forced, background>>

\* A forced block: the rival in the ledger is rolled back, then the block processed.
ForceNext ==
    /\ forced # <<>>
    /\ LET h == Head(forced)
           kept == stored \ Dependents(Rivals(h))
       IN  stored' = IF Deps(h) \subseteq kept THEN kept \cup {h} ELSE kept
    /\ forced' = Tail(forced)
    /\ UNCHANGED <<ledgerless, background>>
-----------------------------------------------------------------------------
(* node::process_confirmed *)

\* ledger.block_exists, in a transaction of its own; retried for 10 seconds
Lookup(t) ==
    /\ ~t.found
    /\ background' = (background \ {t}) \cup
         (IF t.hash \in stored THEN {[t EXCEPT !.found = TRUE]}
          ELSE IF t.iteration < RetryLimit THEN {[t EXCEPT !.iteration = @ + 1]}
          ELSE {})
    /\ UNCHANGED <<ledgerless, stored, forced>>

\* The observers and the wallets are told, in a later transaction.
Notify(t) ==
    /\ t.found
    /\ background' = background \ {t}
    /\ UNCHANGED <<ledgerless, stored, forced>>
-----------------------------------------------------------------------------
EInit ==
    /\ roots = <<>> /\ blocks = <<>> /\ election = <<>>
    /\ confirmed = {} /\ inactive = {} /\ seen = <<>>
    /\ loop = "scan" /\ voting = NoVote
    /\ stopped = FALSE /\ stopper = "none" /\ erased = FALSE
    /\ stored = {} /\ forced = <<>> /\ background = {}

ENext ==
    \/ \E h \in Startable : Start(h)
    \/ \E h \in Hash : Publish(h) \/ Erase(h) \/ Insert(h)
    \/ \E v \in Ballot : BeginVote(v)
    \/ VoteNext
    \/ RequestConfirm \/ Prune \/ LoopExit
    \/ Stop \/ StopJoin
    \/ ForceNext
    \/ \E t \in background : Lookup(t) \/ Notify(t)

\* The threads run on.  The request loop waits for a mutex that others take
\* again and again, so it gets it in the end only if it is handed over fairly.
EFairness ==
    /\ WF_evars(VoteNext) /\ WF_evars(ForceNext)
    /\ SF_evars(RequestConfirm \/ Prune \/ LoopExit \/ StopJoin)

ESpec == EInit /\ [][ENext]_evars /\ EFairness
-----------------------------------------------------------------------------
(* Properties *)

\* The types of the members of active_transactions and election.
ETypeOK ==
    /\ DOMAIN roots \subseteq Range(Root) /\ Range(roots) \subseteq DOMAIN election
    /\ DOMAIN blocks \subseteq Hash /\ Range(blocks) \subseteq DOMAIN election
    /\ DOMAIN election \subseteq Id /\ Range(election) \subseteq Election
    /\ confirmed \subseteq Hash /\ stored \subseteq Hash
    /\ loop \in {"scan", "prune", "exit"} /\ stopper \in {"none", "join", "done"}
    /\ inactive \subseteq Range(Root) /\ {stopped, erased} \subseteq BOOLEAN
    /\ \/ voting = NoVote
       \/ \E v \in Ballot : /\ voting.rep = v.rep /\ voting.sequence = v.sequence
                           /\ voting.items \in Seq([hash : Hash, whole : BOOLEAN]) \ {<<>>}
    /\ forced \in Seq(Hash) /\ Len(forced) <= ForcedMax
    /\ background \subseteq [hash : Hash, iteration : 0 .. RetryLimit, found : BOOLEAN]

\* The two indexes of active_transactions agree: a hash leads to the election of
\* its root, and every block of an election in progress is found by its hash
\* (what assert (erased == 1) of request_confirm relies on).  stop clears only
\* one of them.
IndexConsistent ==
    stopper # "done" =>
      /\ \A h \in DOMAIN blocks : /\ Root[h] \in DOMAIN roots
                                  /\ blocks[h] = roots[Root[h]]
                                  /\ h \in election[blocks[h]].blocks
      /\ \A r \in DOMAIN roots : \A h \in election[roots[r]].blocks : h \in DOMAIN blocks

\* assert (root_it != roots.end ()) of request_confirm: the roots it found
\* finished are still there when it has the mutex again.
RootsStay == inactive \subseteq DOMAIN roots

\* release_assert of confirm_back: an election that knows a single block has that
\* block as its winner, under whichever hash it was found.
LoneBlockWins ==
    \A h \in DOMAIN blocks : Cardinality(election[blocks[h]].blocks) = 1 => election[blocks[h]].winner = h

\* The winner of an undecided election is a block with the largest tally, once
\* the votes reach the minimum: confirm_if_quorum has followed every vote and
\* every block, in whatever order they came.
WinnerLeads ==
    \A i \in DOMAIN election :
      LET e == election[i] IN
      ~e.confirmed /\ SumSet(Tally(e)) >= MinimumWeight => e.winner \in Leaders(e)

\* confirm_once schedules process_confirmed and the confirmation action at most
\* once for an election, although publish goes on tallying after confirmation.
ConfirmedOnce == \A i \in DOMAIN election : election[i].calls = (IF election[i].confirmed THEN 1 ELSE 0)

Ancestors(h) ==
    LET Down[n \in 0 .. Cardinality(Hash)] ==
            IF n = 0 THEN Deps(h) ELSE Down[n - 1] \cup UNION {Deps(b) : b \in Down[n - 1]}
    IN  Down[Cardinality(Hash)]

NowConfirmed == {i \in DOMAIN election \cap DOMAIN election' : ~election[i].confirmed /\ election'[i].confirmed}
QuorumWinner(e) == /\ BlockWeights(e)[e.winner] > Delta
                   /\ \A h \in e.blocks : BlockWeights(e)[h] <= BlockWeights(e)[e.winner]

\* A block is confirmed only by a quorum of votes for it, or, when no rival of it
\* is known, by a quorum for a block that rests on it (confirm_back).
ConfirmedWithQuorum ==
    \A i \in NowConfirmed :
       \/ QuorumWinner(election'[i])
       \/ /\ election'[i].blocks = {election'[i].winner} /\ ~election'[i].stopped
          /\ \E j \in NowConfirmed : /\ QuorumWinner(election'[j])
                                     /\ election'[i].winner \in Ancestors(election'[j].winner)

\* The elections that leave roots in a step are ones request_confirm has seen finished, and
\* they still are.  One that it saw confirmed is confirmed, the block that had won then is
\* in the history, and so is the block that wins now unless a block was published to the
\* election since.  One that it did not see confirmed was stopped, and if it was
\* confirmed since, it leaves without an entry in the history.
LeavesFinished ==
    \A r \in DOMAIN roots \ DOMAIN roots' :
       LET e == election[roots[r]] IN
       /\ r \in inactive
       /\ IF r \in DOMAIN seen
          THEN /\ e.confirmed /\ seen[r].winner \in confirmed
               /\ e.blocks = seen[r].blocks => e.winner \in confirmed
          ELSE e.stopped

\* Unless a client erases elections or the node shuts down, an election leaves roots only
\* when request_confirm has seen it finished.  It has then written the winner of a confirmed
\* one to the history, and that is still the winner when the election is removed, the
\* mutex having been released in between, unless publish brought another block meanwhile.
\* After an erase, a new election for the same root may be removed in place of the one
\* that was finished.
OnlyFinishedLeave == [][LeavesFinished \/ erased' \/ stopper' = "done"]_evars

\* The winner of an election is the block its votes put first, however votes and blocks
\* interleave, and the election of a block without rivals is won by that block (confirm_back).
WinnerFollowsVotes == WinnerLeads /\ LoneBlockWins

\* An election is confirmed once, and by a quorum of the votes it has then: every
\* step keeps the one true and does the other (confirm_once, confirm_if_quorum).
ConfirmedRightly == [][ConfirmedOnce' /\ ConfirmedWithQuorum]_evars

\* The two indexes of active_transactions describe the same elections, and a root that
\* request_confirm has seen stays while the mutex is released: only an erase leaves entries
\* in blocks that lead to no election, or removes a root that is about to be looked up.
ElectionsIndexed == ETypeOK /\ (~erased => IndexConsistent /\ RootsStay)

\* A confirmed election is removed from roots by the request loop in the end.
ConfirmedLeaves ==
    \A r \in Range(Root) :
      []<>(r \in DOMAIN roots => ~election[roots[r]].confirmed)

\* active_transactions::stop joins the request loop: it returns.
StopReturns == []<>(stopper # "join")

\* Confirm this block if quorum is met: the winner is ahead of every other block
\* of the election by more than node::delta.
QuorumMargin ==
    [][\A i \in NowConfirmed :
         LET e == election'[i] IN
         BlockWeights(e)[e.winner] > Delta =>
           \A h \in e.blocks \ {e.winner} : BlockWeights(e)[e.winner] > BlockWeights(e)[h] + Delta]_evars

\* A vote is applied to the current election if one exists: the hash of a block
\* leads to the election that is in progress for its root.
VotesReachCurrent ==
    \A h \in DOMAIN blocks : Root[h] \in DOMAIN roots => blocks[h] = roots[Root[h]]

\* assert of confirmed_visitor: a block whose confirmation is reported to the
\* wallets is in the ledger.
ConfirmedBlockPresent == \A t \in background : t.found => t.hash \in stored
-----------------------------------------------------------------------------
(* The properties in a form that each step preserves                         *)

\* An election is about blocks of one root and is won by one of them.
ElectionSound(e) ==
    /\ e.winner \in e.blocks /\ \A h \in e.blocks : Root[h] = e.root
    /\ e.calls = (IF e.confirmed THEN 1 ELSE 0)
    /\ ~e.confirmed /\ SumSet(Tally(e)) >= MinimumWeight => e.winner \in Leaders(e)

\* What the indexes have in common after an erase, too
IndexSound ==
    /\ \A r \in DOMAIN roots : election[roots[r]].root = r
    /\ \A h \in DOMAIN blocks : h \in election[blocks[h]].blocks

\* The roots that request_confirm is about to remove
InactiveFinished ==
    \A r \in inactive :
      LET e == election[roots[r]] IN
      IF r \in DOMAIN seen
      THEN /\ e.confirmed /\ seen[r].winner \in confirmed /\ seen[r].blocks \subseteq e.blocks
           /\ e.blocks = seen[r].blocks => e.winner = seen[r].winner
      ELSE e.stopped

\* The ledger has one block of a root.
NoRivals == \A g, h \in stored : Root[g] = Root[h] => g = h

ElectionsInv ==
    /\ ETypeOK /\ IndexSound /\ NoRivals
    /\ \A i \in DOMAIN election : ElectionSound(election[i])
    /\ loop # "prune" => inactive = {}
    /\ stopper = "done" => loop = "exit"
    /\ ~erased => IndexConsistent /\ RootsStay /\ InactiveFinished
=============================================================================
