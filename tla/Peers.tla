-------------------------------- MODULE Peers --------------------------------
(***************************************************************************)
(* How a node finds and keeps its peers (nano/node/peers.cpp, and the      *)
(* keepalive and node_id_handshake messages of nano/node/node.cpp).        *)
(*                                                                         *)
(* A node that hears a keepalive of a stranger sends a random cookie to    *)
(* its address, and lists it as a peer once the cookie comes back signed.  *)
(* The model is of one node; the other addresses send it keepalives and    *)
(* queries when they like and answer its cookies once, twice, late or not  *)
(* at all.  One of the addresses is the node's own: peers.self is the      *)
(* loopback address, so that a node that is told of its address by others  *)
(* takes it for a stranger's and reaches out to itself.  The addresses are *)
(* ones that not_a_peer lets through, with a protocol version that is not  *)
(* too old to be listed.                                                   *)
(***************************************************************************)
EXTENDS Integers, FiniteSets

CONSTANTS
    Endpoint,       \* addresses
    Own,            \* this node's
    Ip,             \* the IP of an address
    Legacy,         \* those whose version is below node_id_version
    Preconfigured,  \* config.preconfigured_peers
    MaxPeersPerIp,  \* max_peers_per_ip, 10
    MaxFaults,      \* bound: answers that come twice, or after their cookie was purged
    MaxRestarts     \* bound: restarts

\* Addresses are finitely many.  A node runs a version that has node_id, and nobody
\* configures it as a peer of itself.
ASSUME PeersAssumption ==
    /\ IsFiniteSet(Endpoint) /\ Own \in Endpoint /\ Own \notin Legacy \cup Preconfigured
    /\ MaxPeersPerIp \in Nat

VARIABLES
    peers,          \* address -> whether its node_id is known, whether heard since the last round
    attempts,       \* address -> "none", "made", "old": made before the last round
    syn_cookies,    \* address -> cookie, 0 if none; seen: was there at the last cleanup
    per_ip,         \* syn_cookies_per_ip
    peer_table,     \* the table peers of the store
    queries,        \* address -> the cookies that it may answer
    selfContact,    \* a keepalive to the own address is on its way
    named,          \* history: listed because the operator named them for a bootstrap
    faults, restarts

peerVars == <<peers, attempts, syn_cookies, per_ip, peer_table, queries, selfContact, named,
              faults, restarts>>

Strange == [listed |-> FALSE, proved |-> FALSE, heard |-> FALSE]
NoCookie == [cookie |-> 0, seen |-> FALSE]

-----------------------------------------------------------------------------
(* peer_container                                                            *)

KnownPeer(e) == peers[e].listed
Listed == {e \in Endpoint : peers[e].listed}
Room(e) == Cardinality({p \in Listed : Ip[p] = Ip[e]}) < MaxPeersPerIp

\* insert looks again whether there is room.
RoomToInsert_any(e) == TRUE
RoomToInsert(e) == Room(e)
Inserted(e, proved) ==
    IF KnownPeer(e) THEN [peers EXCEPT ![e].heard = TRUE, ![e].proved = @ \/ proved]
    ELSE IF RoomToInsert(e) THEN [peers EXCEPT ![e] = [listed |-> TRUE, proved |-> proved, heard |-> TRUE]]
    ELSE peers

\* assign_syn_cookie: a random cookie, none that is still about.  Of the cookies that
\* were sent before, the network carries one more at most.
MayAssign(e) == per_ip[Ip[e]] < MaxPeersPerIp /\ syn_cookies[e].cookie = 0
Assign(e, sent) ==
    LET new == CHOOSE n \in 1 .. 3 : n \notin sent[e] IN
    /\ syn_cookies' = [syn_cookies EXCEPT ![e] = [cookie |-> new, seen |-> FALSE]]
    /\ per_ip' = [per_ip EXCEPT ![Ip[e]] = @ + 1]
    /\ \E old \in SUBSET sent[e] :
          Cardinality(old) <= 1 /\ queries' = [sent EXCEPT ![e] = old \cup {new}]
AssignIf(b, e, sent) ==
    IF b THEN Assign(e, sent) ELSE queries' = sent /\ UNCHANGED <<syn_cookies, per_ip>>

-----------------------------------------------------------------------------
(* The handlers of the two messages                                          *)

\* contacted: the peers it leaves, and whether a handshake should begin.
Contacted_trusting(e) == Inserted(e, FALSE)
Contacted(e) ==
    IF e \in Legacy THEN Inserted(e, FALSE)
    ELSE IF KnownPeer(e) THEN [peers EXCEPT ![e].heard = TRUE] ELSE peers
ShouldHandshake(e) == e \notin Legacy /\ ~KnownPeer(e) /\ Room(e)

\* merge_peers: of the addresses in the keepalive, those neither known nor tried lately
\* get a keepalive.  Where it matters here is when one of them is the node's own.
Reachout(told) ==
    /\ attempts' = [e \in Endpoint |-> IF e \in told /\ attempts[e] = "none" THEN "made" ELSE attempts[e]]
    /\ selfContact' = (selfContact \/ (Own \in told /\ ~KnownPeer(Own) /\ attempts[Own] = "none"))

Keepalive(e, told) ==
    /\ peers' = Contacted(e)
    /\ AssignIf(ShouldHandshake(e) /\ MayAssign(e), e, queries)
    /\ Reachout(told)
    /\ UNCHANGED <<peer_table, named, faults, restarts>>

\* The keepalive that the node sent to its own address.
OwnKeepalive ==
    /\ selfContact
    /\ peers' = Contacted(Own)
    /\ AssignIf(ShouldHandshake(Own) /\ MayAssign(Own), Own, queries)
    /\ selfContact' = FALSE
    /\ UNCHANGED <<attempts, peer_table, named, faults, restarts>>

\* validate_syn_cookie, and what follows from it.  c = 0: there is no response.
OwnResponse_unnoticed(e) == FALSE
OwnResponse(e) == e = Own
CookieErased_uncounted(e) == per_ip
CookieErased(e) == [per_ip EXCEPT ![Ip[e]] = @ - 1]

NodeIdHandshake(e, c, left) ==
    /\ IF c # 0 /\ c = syn_cookies[e].cookie
       THEN /\ syn_cookies' = [syn_cookies EXCEPT ![e] = NoCookie]
            /\ per_ip' = CookieErased(e)
            /\ peers' = IF OwnResponse(e) THEN peers ELSE Inserted(e, TRUE)
            /\ queries' = left
       ELSE /\ AssignIf(~KnownPeer(e) /\ MayAssign(e), e, left)
            /\ UNCHANGED peers
    /\ UNCHANGED <<attempts, peer_table, selfContact, named, restarts>>

\* e answers a cookie, for the last time or not.
Response(e) ==
    \E c \in queries[e] :
        \/ NodeIdHandshake(e, c, [queries EXCEPT ![e] = @ \ {c}]) /\ UNCHANGED faults
        \/ faults < MaxFaults /\ faults' = faults + 1 /\ NodeIdHandshake(e, c, queries)

\* e asks for this node's identity; the answer changes nothing here.
Query(e) == NodeIdHandshake(e, 0, queries) /\ UNCHANGED faults

Lose(e) ==
    /\ \E c \in queries[e] : queries' = [queries EXCEPT ![e] = @ \ {c}]
    /\ UNCHANGED <<peers, attempts, syn_cookies, per_ip, peer_table, selfContact, named, faults, restarts>>

-----------------------------------------------------------------------------
(* What the alarm runs again and again                                       *)

\* ongoing_keepalive: purge_list.  Those that were silent for the whole period may be
\* past the cutoff, which is five periods.  The others get a keepalive, those that are
\* new excepted.
OngoingKeepalive ==
    \E gone \in SUBSET {e \in Listed : ~peers[e].heard}, forgot \in SUBSET {e \in Endpoint : attempts[e] = "old"} :
        /\ peers' = [e \in Endpoint |-> IF e \in gone THEN Strange ELSE [peers[e] EXCEPT !.heard = FALSE]]
        /\ attempts' = [e \in Endpoint |-> IF attempts[e] = "none" \/ e \in forgot THEN "none" ELSE "old"]
        /\ selfContact' \in {selfContact, selfContact \/ Own \in Listed \ gone}
        /\ named' = named \ gone
        /\ UNCHANGED <<syn_cookies, per_ip, peer_table, queries, faults, restarts>>

\* keepalive_preconfigured, when the address of one is resolved.
KeepalivePreconfigured(e) ==
    /\ peers' = Inserted(e, FALSE)
    /\ UNCHANGED <<attempts, syn_cookies, per_ip, peer_table, queries, selfContact, named, faults, restarts>>

\* bootstrap_initiator::bootstrap (endpoint), for an address that the operator gives in an
\* RPC or in the wallet: it is a peer without a handshake, and may be the node's own.
BootstrapNamed(e) ==
    /\ peers' = Inserted(e, FALSE)
    /\ named' = IF ~KnownPeer(e) /\ RoomToInsert(e) THEN named \cup {e} ELSE named
    /\ UNCHANGED <<attempts, syn_cookies, per_ip, peer_table, queries, selfContact, faults, restarts>>

\* ongoing_syn_cookie_cleanup: every 10 seconds, those older than 5.  What was there at
\* the last cleanup is older; of the others, some are.  Those in due are answered later.
Purged_late(e) == FALSE
Purged(e) == syn_cookies[e].seen
SynCookieCleanup ==
    LET with == {e \in Endpoint : syn_cookies[e].cookie # 0} IN
    \E gone \in SUBSET with : \E due \in SUBSET {e \in gone : syn_cookies[e].cookie \in queries[e]} :
        /\ {e \in with : Purged(e)} \subseteq gone
        /\ syn_cookies' = [e \in Endpoint |-> IF e \in with \ gone THEN [syn_cookies[e] EXCEPT !.seen = TRUE] ELSE NoCookie]
        /\ per_ip' = [i \in DOMAIN per_ip |-> per_ip[i] - Cardinality({e \in gone : Ip[e] = i})]
        /\ queries' = [e \in Endpoint |-> IF e \in gone \ due THEN queries[e] \ {syn_cookies[e].cookie} ELSE queries[e]]
        /\ faults' = faults + Cardinality(due) /\ faults' <= MaxFaults
        /\ UNCHANGED <<peers, attempts, peer_table, selfContact, named, restarts>>

\* ongoing_peer_store; only the next start reads the table.
OngoingPeerStore ==
    /\ restarts < MaxRestarts
    /\ Listed # {} /\ peer_table' = Listed
    /\ UNCHANGED <<peers, attempts, syn_cookies, per_ip, queries, selfContact, named, faults, restarts>>

\* The process ends and starts again: add_initial_peers.
Restart ==
    /\ restarts < MaxRestarts /\ restarts' = restarts + 1
    /\ peers' = [e \in Endpoint |-> Strange]
    /\ syn_cookies' = [e \in Endpoint |-> NoCookie] /\ per_ip' = [i \in DOMAIN per_ip |-> 0]
    /\ attempts' = [e \in Endpoint |-> IF e \in peer_table THEN "made" ELSE "none"]
    /\ selfContact' = (Own \in peer_table) /\ named' = {}
    /\ UNCHANGED <<peer_table, queries, faults>>

PeersInit ==
    /\ peers = [e \in Endpoint |-> Strange] /\ attempts = [e \in Endpoint |-> "none"]
    /\ syn_cookies = [e \in Endpoint |-> NoCookie] /\ per_ip = [i \in {Ip[e] : e \in Endpoint} |-> 0]
    /\ peer_table = {} /\ queries = [e \in Endpoint |-> {}] /\ selfContact = FALSE
    /\ named = {} /\ faults \in 0 .. MaxFaults /\ restarts \in 0 .. MaxRestarts

\* about: the addresses that take part; nameable: those that the operator may name.
PeersNext(about, nameable) ==
    \/ \E e \in about \ {Own} : (\E told \in SUBSET ({Own} \cap about) : Keepalive(e, told)) \/ (e \notin Legacy /\ Query(e))
    \/ \E e \in about : Response(e) \/ Lose(e)
    \/ \E e \in nameable : BootstrapNamed(e)
    \/ \E e \in Preconfigured \cap about : KeepalivePreconfigured(e)
    \/ OwnKeepalive \/ OngoingKeepalive \/ SynCookieCleanup \/ OngoingPeerStore \/ Restart

PeersSpec == PeersInit /\ [][PeersNext(Endpoint, Endpoint)]_peerVars

-----------------------------------------------------------------------------
\* syn_cookies_per_ip is the number of cookies, however they go: it never falls below
\* zero ("More SYN cookies deleted than created for IP"), nor stays up and shuts an IP out.
CookiesCounted ==
    \A i \in DOMAIN per_ip : per_ip[i] = Cardinality({e \in Endpoint : Ip[e] = i /\ syn_cookies[e].cookie # 0})

\* No IP has more than its share of peers, though a handshake with one address may be
\* under way when another takes the last place.
PeersPerIpBounded == \A e \in Endpoint : Cardinality({p \in Listed : Ip[p] = Ip[e]}) <= MaxPeersPerIp

\* The node does not become its own peer, though it does not recognise its own address,
\* unless the operator named it; and even then it never takes its own answer for a proof.
NotOwnPeer == KnownPeer(Own) => Own \in named /\ ~peers[Own].proved

\* Unless it is old or preconfigured, or the operator named it while it was a stranger, a
\* peer has answered a cookie.
PeersProved == \A e \in Listed \ (Legacy \cup Preconfigured \cup named) : peers[e].proved

\* Whoever is a peer has proved itself with the cookie it was sent, and is not the node itself,
\* or else the operator asked for it; it is one of at most so many of its IP, whose cookies are
\* counted as they come and go.
PeersGenuine == PeersProved /\ NotOwnPeer /\ CookiesCounted /\ PeersPerIpBounded
-----------------------------------------------------------------------------
(* PeersGenuine in a form that each step preserves: there is always a cookie  *)
(* to choose that is not about.                                               *)

PeerTypes ==
    /\ peers \in [Endpoint -> [listed : BOOLEAN, proved : BOOLEAN, heard : BOOLEAN]]
    /\ syn_cookies \in [Endpoint -> [cookie : 0 .. 3, seen : BOOLEAN]]
    /\ per_ip \in [{Ip[e] : e \in Endpoint} -> Nat]
    /\ queries \in [Endpoint -> SUBSET (1 .. 3)]

CookiesRemain == \A e \in Endpoint : \E n \in 1 .. 3 : n \notin queries[e]

PeersInv == PeerTypes /\ CookiesRemain /\ PeersGenuine
====
