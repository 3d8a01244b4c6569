----------------------------- MODULE NodeProofs -----------------------------
(***************************************************************************)
(* Proofs about the parts of the node that make blocks and confirm them,   *)
(* for every value of their constants.                                     *)
(*                                                                         *)
(* Wallets: what WalletSend and WalletReceive promise while the block      *)
(* processor, the network, elections and crashes take their steps in       *)
(* between.                                                                *)
(*                                                                         *)
(* Elections: ElectionsInv is inductive, and every step confirms elections *)
(* rightly and removes finished ones only, for every set of blocks, votes  *)
(* and representatives: first what a tally is made of, then confirm_back   *)
(* and the rollback of a forced block, then the steps of one election, and *)
(* at last one lemma for every step of active_transactions.                *)
(***************************************************************************)
EXTENDS Elections, WalletSend, WalletReceive, SumProofs, SequenceTheorems
-----------------------------------------------------------------------------
(* Chains of blocks: a block is the sequence of what its chain pays or      *)
(* receives, and a block that comes before it in the chain is a prefix.     *)

LEMMA PrefixIs ==
    ASSUME NEW T, NEW s \in Seq(T), NEW t \in Seq(T)
    PROVE  Precedes(s, t) <=> Len(s) <= Len(t) /\ \A i \in 1 .. Len(s) : s[i] = t[i]
<1>1. CASE Len(s) <= Len(t)
  <2>1. SubSeq(t, 1, Len(s)) \in Seq(T) /\ Len(SubSeq(t, 1, Len(s))) = Len(s)
        /\ \A i \in 1 .. Len(s) : SubSeq(t, 1, Len(s))[i] = t[i]
    BY <1>1
  <2>2. SubSeq(s, 1, Len(s)) = s
    OBVIOUS
  <2> QED BY <1>1, <2>1, <2>2, SeqEqual, Zenon DEF Precedes
<1>2. CASE ~(Len(s) <= Len(t))
  BY <1>2, Zenon DEF Precedes
<1> QED BY <1>1, <1>2, Zenon

LEMMA FrontIs ==
    ASSUME NEW T, NEW s \in Seq(T), s # <<>>
    PROVE  /\ Before(s) \in Seq(T) /\ Len(Before(s)) = Len(s) - 1 /\ Len(s) \in Nat \ {0}
           /\ \A i \in 1 .. Len(s) - 1 : Before(s)[i] = s[i]
           /\ LastOf(s) = s[Len(s)]
<1>1. Len(s) \in Nat \ {0}
  OBVIOUS
<1>2. SubSeq(s, 1, Len(s) - 1) \in Seq(T)
  <2>1. \A i \in 1 .. Len(s) - 1 : s[i] \in T
    BY <1>1
  <2> QED BY <1>1, <2>1
<1>3. Len(SubSeq(s, 1, Len(s) - 1)) = Len(s) - 1
  <2>1. PICK n \in Nat : n = Len(s) - 1
    BY <1>1
  <2>2. CASE n = 0
    <3>1. SubSeq(s, 1, n) = <<>>
      BY <2>2
    <3> QED BY <2>1, <2>2, <3>1
  <2>3. CASE n > 0
    BY <2>1, <2>3
  <2> QED BY <2>2, <2>3
<1>4. ASSUME NEW i \in 1 .. Len(s) - 1
      PROVE  SubSeq(s, 1, Len(s) - 1)[i] = s[i]
  BY <1>1
<1> QED BY <1>1, <1>2, <1>3, <1>4, Zenon DEF Before, LastOf

\* A block and the blocks before it
LEMMA PrefixFacts ==
    ASSUME NEW T, NEW r \in Seq(T), NEW s \in Seq(T), NEW t \in Seq(T)
    PROVE  /\ Precedes(s, s)
           /\ Precedes(r, s) /\ Precedes(s, t) => Precedes(r, t)
           /\ Precedes(r, t) /\ Precedes(s, t) /\ Len(r) <= Len(s) => Precedes(r, s)
           /\ Precedes(r, s) /\ Precedes(s, r) => r = s
           /\ Precedes(r, s) /\ Len(r) = Len(s) => r = s
<1>1. \A x, y \in Seq(T) : Precedes(x, y) <=> Len(x) <= Len(y) /\ \A i \in 1 .. Len(x) : x[i] = y[i]
  BY PrefixIs, Zenon
<1>2. Len(r) \in Nat /\ Len(s) \in Nat /\ Len(t) \in Nat
  OBVIOUS
<1>3. Precedes(s, s)
  BY <1>1, <1>2
<1>4. Precedes(r, s) /\ Precedes(s, t) => Precedes(r, t)
  BY <1>1, <1>2
<1>5. Precedes(r, t) /\ Precedes(s, t) /\ Len(r) <= Len(s) => Precedes(r, s)
  BY <1>1, <1>2
<1>6. Precedes(r, s) /\ Len(r) = Len(s) => r = s
  BY <1>1, SeqEqual, Zenon
<1>7. Precedes(r, s) /\ Precedes(s, r) => Len(r) = Len(s)
  BY <1>1, <1>2
<1> QED BY <1>3, <1>4, <1>5, <1>6, <1>7, Zenon

\* The block made on chain s is the only one that has s before it and p last
LEMMA FrontFacts ==
    ASSUME NEW T, NEW s \in Seq(T), NEW b \in Seq(T), b # <<>>, Before(b) = s
    PROVE  Precedes(s, b) /\ Len(b) = Len(s) + 1 /\ b = Append(s, LastOf(b))
<1>1. Len(b) = Len(s) + 1 /\ \A i \in 1 .. Len(s) : s[i] = b[i]
  BY FrontIs
<1>2. Precedes(s, b)
  BY <1>1, PrefixIs
<1>3. LastOf(b) = b[Len(b)] /\ LastOf(b) \in T
  <2>1. LastOf(b) = b[Len(b)] /\ Len(b) \in Nat \ {0}
    BY FrontIs, Zenon
  <2>2. b[Len(b)] \in T
    BY <2>1
  <2> QED BY <2>1, <2>2, Zenon
<1>4. PICK p \in T : p = LastOf(b)
  BY <1>3, Zenon
<1>5. PICK a : a = Append(s, p)
  BY Zenon
<1>6. /\ a \in Seq(T) /\ Len(a) = Len(s) + 1 /\ a[Len(s) + 1] = p /\ Len(s) \in Nat
      /\ \A i \in 1 .. Len(s) : a[i] = s[i]
  BY <1>5
<1>7. \A i \in 1 .. Len(b) : a[i] = b[i]
  <2> SUFFICES ASSUME NEW i \in 1 .. Len(b) PROVE a[i] = b[i]
    BY Zenon
  <2>1. i \in 1 .. Len(s) \/ i = Len(s) + 1
    BY <1>1, <1>6
  <2> QED BY <1>1, <1>3, <1>4, <1>6, <2>1, Zenon
<1>8. b = a
  BY <1>1, <1>6, <1>7, SeqEqual, Zenon
<1> QED BY <1>1, <1>2, <1>4, <1>5, <1>8, Zenon

LEMMA AppendIs ==
    ASSUME NEW T, NEW s \in Seq(T), NEW p \in T
    PROVE  Append(s, p) \in Seq(T) \ {<<>>} /\ Before(Append(s, p)) = s /\ LastOf(Append(s, p)) = p
<1>1. PICK a : a = Append(s, p)
  BY Zenon
<1>2. /\ a \in Seq(T) /\ Len(a) = Len(s) + 1 /\ a # <<>> /\ a[Len(a)] = p
      /\ \A i \in 1 .. Len(s) : a[i] = s[i]
  BY <1>1
<1>3. Before(a) = s
  BY <1>2, FrontIs, SeqEqual
<1>4. LastOf(a) = p
  BY <1>2, FrontIs, Zenon
<1> QED BY <1>1, <1>2, <1>3, <1>4, Zenon

\* The blocks of a chain are what it begins with
LEMMA BlocksAre ==
    ASSUME NEW T, NEW c \in Seq(T)
    PROVE  /\ BlocksOf(c) \subseteq Seq(T) \ {<<>>}
           /\ \A b \in Seq(T) : b \in BlocksOf(c) <=> b # <<>> /\ Precedes(b, c)
<1>1. \A n \in 1 .. Len(c) : /\ SubSeq(c, 1, n) \in Seq(T) /\ Len(SubSeq(c, 1, n)) = n
                             /\ \A i \in 1 .. n : SubSeq(c, 1, n)[i] = c[i]
  OBVIOUS
<1>2. BlocksOf(c) \subseteq Seq(T) \ {<<>>}
  <2> SUFFICES ASSUME NEW n \in 1 .. Len(c) PROVE SubSeq(c, 1, n) \in Seq(T) \ {<<>>}
    BY Zenon DEF BlocksOf
  <2> QED BY <1>1
<1>3. ASSUME NEW b \in Seq(T), b \in BlocksOf(c) PROVE b # <<>> /\ Precedes(b, c)
  <2>1. PICK n \in 1 .. Len(c) : b = SubSeq(c, 1, n)
    BY <1>3, Zenon DEF BlocksOf
  <2>2. Len(b) <= Len(c) /\ \A i \in 1 .. Len(b) : b[i] = c[i]
    BY <1>1, <2>1
  <2>3. Precedes(b, c)
    BY <2>2, PrefixIs, Zenon
  <2> QED BY <1>2, <1>3, <2>3, Zenon
<1>4. ASSUME NEW b \in Seq(T), b # <<>>, Precedes(b, c) PROVE b \in BlocksOf(c)
  <2>1. Len(b) \in 1 .. Len(c) /\ \A i \in 1 .. Len(b) : b[i] = c[i]
    BY <1>4, PrefixIs
  <2>2. b = SubSeq(c, 1, Len(b))
    BY <1>1, <2>1, SeqEqual
  <2> QED BY <2>1, <2>2, Zenon DEF BlocksOf
<1> QED BY <1>2, <1>3, <1>4, Zenon

\* What a longer chain keeps of a shorter one
LEMMA ChainGrows ==
    ASSUME NEW T, NEW c \in Seq(T), NEW d \in Seq(T), Precedes(c, d)
    PROVE  /\ BlocksOf(c) \subseteq BlocksOf(d) /\ Len(c) <= Len(d)
           /\ \A b \in Seq(T) : Precedes(b, c) => Precedes(b, d)
           /\ \A b \in Seq(T) : Len(b) <= Len(c) /\ ~Precedes(b, c) =>
                 Len(b) <= Len(d) /\ ~Precedes(b, d)
<1>1. Len(c) <= Len(d) /\ Len(c) \in Nat /\ Len(d) \in Nat
  BY PrefixIs
<1>2. \A b \in Seq(T) : Precedes(b, c) => Precedes(b, d)
  BY PrefixFacts, Zenon
<1>3. \A b \in Seq(T) : Len(b) <= Len(c) /\ Precedes(b, d) => Precedes(b, c)
  BY PrefixFacts, Zenon
<1>4. \A b \in Seq(T) : Len(b) <= Len(c) => Len(b) <= Len(d)
  BY <1>1
<1>5. BlocksOf(c) \subseteq BlocksOf(d)
  <2> SUFFICES ASSUME NEW b \in BlocksOf(c) PROVE b \in BlocksOf(d)
    BY Zenon
  <2>1. b \in Seq(T)
    BY BlocksAre, Zenon
  <2>2. b # <<>> /\ Precedes(b, c)
    BY <2>1, BlocksAre, Zenon
  <2> QED BY <1>2, <2>1, <2>2, BlocksAre, Zenon
<1> QED BY <1>1, <1>2, <1>3, <1>4, <1>5, Zenon

\* The block made on a chain is not one of it
LEMMA MadeAfter ==
    ASSUME NEW T, NEW c \in Seq(T), NEW b \in Seq(T), b # <<>>, Before(b) = c
    PROVE  /\ Precedes(c, b) /\ b \notin BlocksOf(c) /\ b # c /\ b \in BlocksOf(b)
           /\ BlocksOf(c) \subseteq BlocksOf(b)
<1>1. Precedes(c, b) /\ Len(b) = Len(c) + 1 /\ Len(c) \in Nat
  BY FrontFacts
<1>2. ~Precedes(b, c) /\ b # c
  BY <1>1, PrefixIs
<1>3. Precedes(b, b)
  BY PrefixFacts, Zenon
<1> QED BY <1>1, <1>2, <1>3, BlocksAre, ChainGrows, Zenon

\* A block made earlier for the same payment is the one made now, or has lost its place
LEMMA MadeEarlier ==
    ASSUME NEW T, NEW c \in Seq(T), NEW m \in Seq(T), m # <<>>, Precedes(Before(m), c),
           m \notin BlocksOf(c), m # Append(c, LastOf(m))
    PROVE  Len(m) <= Len(c) /\ ~Precedes(m, c)
<1>1. ~Precedes(m, c)
  BY BlocksAre, Zenon
<1>2. Before(m) \in Seq(T) /\ Len(Before(m)) = Len(m) - 1 /\ Len(m) \in Nat /\ Len(c) \in Nat
  BY FrontIs
<1>3. Len(m) - 1 <= Len(c)
  BY <1>2, PrefixIs, Zenon
<1>4. Before(m) # c
  BY FrontFacts, Zenon
<1>5. Len(Before(m)) # Len(c)
  BY <1>2, <1>4, PrefixFacts
<1> QED BY <1>1, <1>2, <1>3, <1>5
-----------------------------------------------------------------------------
(* Sends with an identifier *)

LEMMA PaidFacts == \A id \in SendId : Pays[id] \in Paid
BY Zenon DEF Paid

LEMMA InitSend == SendInit => SendInv
<1> SUFFICES ASSUME SendInit PROVE SendInv
  BY Zenon
<1>1. PICK c \in Seq(Paid) : c = <<>>
  BY EmptySeq, Zenon
<1>2. Precedes(c, c)
  BY PrefixFacts, Zenon
<1>3. SendTypes
  BY <1>1, <1>2, Zenon DEF SendInit, SendTypes, NoBlock
<1>4. MadeInv
  BY Zenon DEF SendInit, MadeInv
<1>5. SenderInv /\ IdentifiersInv
  BY Zenon DEF SendInit, SenderInv, IdentifiersInv, Settled
<1> QED BY <1>3, <1>4, <1>5, Zenon DEF SendInv, SendInit

\* What the invariant says of a sender: the block under way is a block of its own
LEMMA SenderFacts ==
    ASSUME SendTypes
    PROVE  /\ sender = AtRest <=> sender.at = "rest"
           /\ sender # AtRest =>
                 sender \in [at : {"made", "flush"}, id : SendId, block : Seq(Paid) \ {<<>>}]
<1>1. \/ sender = AtRest
      \/ sender \in [at : {"made", "flush"}, id : SendId, block : Seq(Paid) \ {<<>>}]
  BY Zenon DEF SendTypes, NoBlock
<1>2. AtRest.at = "rest"
  BY Zenon DEF AtRest
<1>3. \A x \in [at : {"made", "flush"}, id : SendId, block : Seq(Paid) \ {<<>>}] : x.at # "rest"
  BY Zenon
<1> QED BY ONLY <1>1, <1>2, <1>3, Zenon

\* MadeInv while the chain only grows and the identifiers stay
LEMMA MadeKept ==
    ASSUME SendTypes, MadeInv, chain' \in Seq(Paid), Precedes(chain, chain'),
           UNCHANGED <<send_action_ids, madeFor>>
    PROVE  MadeInv'
<1>1. /\ \A b \in Seq(Paid) : Precedes(b, chain) => Precedes(b, chain')
      /\ \A b \in Seq(Paid) : Len(b) <= Len(chain) /\ ~Precedes(b, chain) =>
            Len(b) <= Len(chain') /\ ~Precedes(b, chain')
  BY ChainGrows, Zenon DEF SendTypes
<1>2. \A id \in SendId : \A m \in madeFor[id] : m \in Seq(Paid)
  BY Zenon DEF SendTypes
<1>3. \A m \in Seq(Paid) : m # <<>> => Before(m) \in Seq(Paid)
  BY FrontIs, Zenon
<1>4. ASSUME NEW id \in SendId, NEW m \in madeFor[id]
      PROVE  /\ m # NoBlock /\ Precedes(Before(m), chain') /\ LastOf(m) = Pays[id]
             /\ m # send_action_ids[id] => Len(m) <= Len(chain') /\ ~Precedes(m, chain')
  <2>1. m \in Seq(Paid)
    BY <1>2, Zenon
  <2>2. /\ m # NoBlock /\ Precedes(Before(m), chain) /\ LastOf(m) = Pays[id]
        /\ m # send_action_ids[id] => Len(m) <= Len(chain) /\ ~Precedes(m, chain)
    BY <1>4, Zenon DEF MadeInv
  <2>3. Before(m) \in Seq(Paid)
    BY <1>3, <2>1, <2>2, Zenon DEF NoBlock
  <2> QED BY <1>1, <2>1, <2>2, <2>3, Zenon
<1> QED BY <1>4, Zenon DEF MadeInv

LEMMA SendActionInv == ASSUME SendInv, NEW id \in SendId, SendAction(id) PROVE SendInv'
<1>1. /\ SendTypes /\ sender = AtRest
      /\ UNCHANGED <<chain, openBatch, pool, batching, processorStopped, rolled_back, orphaned, electionLost>>
  BY Zenon DEF SendInv, SendAction, batchVars
<1>2. PICK c \in Seq(Paid) : c = chain
  BY <1>1, Zenon DEF SendTypes
<1>3. PICK b \in Seq(Paid) \ {<<>>} : b = Append(c, Pays[id]) /\ Before(b) = c /\ LastOf(b) = Pays[id]
  <2>1. Pays[id] \in Paid
    BY PaidFacts, Zenon
  <2> QED BY <2>1, AppendIs, Zenon
<1>4. BlocksOf(c) \subseteq Seq(Paid) \ {<<>>}
  BY BlocksAre, Zenon
<1>5. CASE Cached(id)
  <2>1. /\ answered' = [answered EXCEPT ![id] = @ \cup {send_action_ids[id]}]
        /\ published' = published \cup {send_action_ids[id]}
        /\ UNCHANGED <<send_action_ids, sender, madeFor>>
        /\ send_action_ids[id] \in BlocksOf(c)
    BY <1>2, <1>5, Zenon DEF SendAction, Cached
  <2>2. SendTypes'
    BY <1>1, <1>4, <2>1, Zenon DEF SendTypes, NoBlock
  <2>3. ASSUME ~electionLost PROVE MadeInv' /\ rolled_back' = {}
    BY <1>1, <2>1, <2>3, Zenon DEF SendInv, MadeInv
  <2>4. ASSUME ~orphaned, ~electionLost PROVE SenderInv' /\ IdentifiersInv'
    <3>1. SenderInv /\ IdentifiersInv
      BY <2>4, Zenon DEF SendInv
    <3>2. Settled
      BY <1>1, <3>1, Zenon DEF SenderInv, AtRest
    <3>3. SenderInv'
      BY <1>1, <1>2, <2>1, <3>2, Zenon DEF SenderInv, Settled
    <3>4. IdentifiersInv'
      BY <1>1, <1>2, <2>1, <3>1 DEF IdentifiersInv, SendTypes
    <3> QED BY <3>3, <3>4, Zenon
  <2> QED BY <1>1, <2>2, <2>3, <2>4, Zenon DEF SendInv
<1>6. CASE ~Cached(id)
  <2>1. /\ send_action_ids' = [send_action_ids EXCEPT ![id] = b]
        /\ madeFor' = [madeFor EXCEPT ![id] = @ \cup {b}]
        /\ sender' = [at |-> "made", id |-> id, block |-> b]
        /\ UNCHANGED <<answered, published>>
        /\ send_action_ids[id] \notin BlocksOf(c)
    BY <1>2, <1>3, <1>6, Zenon DEF SendAction, Cached
  <2>2. SendTypes'
    BY <1>1, <1>3, <2>1, Zenon DEF SendTypes, NoBlock
  <2>3. ASSUME ~electionLost PROVE MadeInv' /\ rolled_back' = {}
    <3>1. MadeInv
      BY <2>3, Zenon DEF SendInv
    <3>2. ASSUME NEW m \in madeFor[id], m # b PROVE Len(m) <= Len(c) /\ ~Precedes(m, c)
      <4>1. m \in Seq(Paid)
        BY <1>1, Zenon DEF SendTypes
      <4>2. /\ m # <<>> /\ Precedes(Before(m), c) /\ LastOf(m) = Pays[id]
            /\ m # send_action_ids[id] => Len(m) <= Len(c) /\ ~Precedes(m, c)
        BY <1>2, <3>1, <3>2, Zenon DEF MadeInv, NoBlock
      <4>3. ASSUME m = send_action_ids[id] PROVE Len(m) <= Len(c) /\ ~Precedes(m, c)
        <5>1. m \notin BlocksOf(c) /\ m # Append(c, LastOf(m))
          BY <1>3, <2>1, <3>2, <4>2, <4>3, Zenon
        <5> QED BY <4>1, <4>2, <5>1, MadeEarlier, Zenon
      <4> QED BY <4>2, <4>3, Zenon
    <3>3. Precedes(Before(b), c)
      BY <1>3, PrefixFacts, Zenon
    <3>4. ASSUME NEW i \in SendId, NEW m \in madeFor'[i]
          PROVE  /\ m # NoBlock /\ Precedes(Before(m), c) /\ LastOf(m) = Pays[i]
                 /\ m # send_action_ids'[i] => Len(m) <= Len(c) /\ ~Precedes(m, c)
      <4>1. ASSUME i # id
            PROVE  madeFor'[i] = madeFor[i] /\ send_action_ids'[i] = send_action_ids[i]
        BY <1>1, <2>1, <4>1, Zenon DEF SendTypes
      <4>2. madeFor'[id] = madeFor[id] \cup {b} /\ send_action_ids'[id] = b
        BY <1>1, <2>1, Zenon DEF SendTypes
      <4>3. CASE i # id
        BY <1>2, <3>1, <3>4, <4>1, <4>3, Zenon DEF MadeInv
      <4>4. CASE i = id /\ m = b
        BY <1>3, <3>3, <4>2, <4>4, Zenon DEF NoBlock
      <4>5. CASE i = id /\ m # b
        <5>1. m \in madeFor[id]
          BY <3>4, <4>2, <4>5, Zenon
        <5>2. m # NoBlock /\ Precedes(Before(m), c) /\ LastOf(m) = Pays[i]
          BY <1>2, <3>1, <4>5, <5>1, Zenon DEF MadeInv
        <5> QED BY <3>2, <4>5, <5>1, <5>2, Zenon
      <4> QED BY <4>3, <4>4, <4>5, Zenon
    <3>5. \A i \in SendId : send_action_ids'[i] # NoBlock => send_action_ids'[i] \in madeFor'[i]
      BY <1>1, <2>1, <3>1 DEF SendTypes, MadeInv
    <3> QED BY <1>1, <1>2, <2>3, <3>4, <3>5, Zenon DEF SendInv, MadeInv
  <2>4. ASSUME ~orphaned, ~electionLost PROVE SenderInv' /\ IdentifiersInv'
    <3>1. SenderInv /\ IdentifiersInv
      BY <2>4, Zenon DEF SendInv
    <3>2. Settled
      BY <1>1, <3>1, Zenon DEF SenderInv, AtRest
    <3>3. SenderInv'
      BY <1>1, <1>2, <1>3, <2>1, <3>2, Zenon DEF SenderInv, Settled
    <3>4. b \notin BlocksOf(c)
      BY <1>3, MadeAfter, Zenon
    <3>5. send_action_ids'[id] = b /\ \A i \in SendId \ {id} : send_action_ids'[i] = send_action_ids[i]
      BY <1>1, <2>1, Zenon DEF SendTypes
    <3>6. sender' # AtRest /\ sender'.block = b /\ sender'.id = id
      BY <2>1, Zenon DEF AtRest
    <3>7. ASSUME NEW i \in SendId \ {id}
          PROVE  send_action_ids[i] = NoBlock \/ send_action_ids[i] \in BlocksOf(c)
      BY <1>1, <1>2, <3>1, Zenon DEF IdentifiersInv
    <3>8. ASSUME NEW i \in SendId PROVE answered[i] \subseteq {send_action_ids'[i]} \cap BlocksOf(c)
      <4>1. answered[i] \subseteq {send_action_ids[i]} \cap BlocksOf(c)
        BY <1>2, <3>1, Zenon DEF IdentifiersInv
      <4> QED BY <2>1, <3>5, <4>1, Zenon
    <3>9. ASSUME NEW i \in SendId, NEW other \in SendId \ {i}, send_action_ids'[i] = send_action_ids'[other]
          PROVE  send_action_ids'[i] = NoBlock
      <4>1. CASE i # id /\ other # id
        BY <3>1, <3>5, <3>9, <4>1, Zenon DEF IdentifiersInv
      <4>2. CASE i = id \/ other = id
        BY <1>3, <3>4, <3>5, <3>7, <3>9, <4>2, Zenon DEF NoBlock
      <4> QED BY <4>1, <4>2, Zenon
    <3>10. IdentifiersInv'
      BY <1>1, <1>2, <2>1, <3>5, <3>6, <3>7, <3>8, <3>9, Zenon DEF IdentifiersInv
    <3> QED BY <3>3, <3>10, Zenon
  <2> QED BY <1>1, <2>2, <2>3, <2>4, Zenon DEF SendInv
<1> QED BY <1>5, <1>6, Zenon

LEMMA ProcessActiveInv == ASSUME SendInv, ProcessActive PROVE SendInv'
<1>1. /\ SendTypes /\ sender.at = "made" /\ pool' = pool \cup ({sender.block} \ rolled_back)
      /\ sender' = [sender EXCEPT !.at = "flush"]
      /\ UNCHANGED <<chain, openBatch, batching, processorStopped, rolled_back, published, send_action_ids, answered, madeFor, orphaned, electionLost>>
  BY Zenon DEF SendInv, ProcessActive, batchVars
<1>2. sender # AtRest /\ sender \in [at : {"made", "flush"}, id : SendId, block : Seq(Paid) \ {<<>>}]
  BY <1>1, SenderFacts, Zenon
<1>3. /\ sender' \in [at : {"made", "flush"}, id : SendId, block : Seq(Paid) \ {<<>>}]
      /\ sender'.at = "flush" /\ sender'.id = sender.id /\ sender'.block = sender.block
  BY <1>1, <1>2, Zenon
<1>4. SendTypes'
  BY <1>1, <1>2, <1>3, Zenon DEF SendTypes, NoBlock
<1>5. ASSUME ~electionLost PROVE MadeInv' /\ rolled_back' = {}
  BY <1>1, <1>5, Zenon DEF SendInv, MadeInv
<1>6. ASSUME ~orphaned, ~electionLost PROVE SenderInv' /\ IdentifiersInv'
  <2>1. SenderInv /\ IdentifiersInv
    BY <1>6, Zenon DEF SendInv
  <2>2. Settled /\ Before(sender.block) = chain
    BY <1>1, <1>2, <2>1, Zenon DEF SenderInv
  <2>3. pool' = {sender.block}
    BY <1>1, <1>6, <2>2, Zenon DEF SendInv, Settled
  <2>4. SenderInv'
    <3>1. /\ sender'.at = "flush" /\ Before(sender'.block) = chain' /\ pool' = {sender'.block}
          /\ openBatch' = chain' /\ published' \subseteq BlocksOf(chain')
      BY <1>1, <1>3, <2>2, <2>3, Zenon DEF Settled
    <3> QED BY ONLY <3>1, Zenon DEF SenderInv
  <2>5. sender' # AtRest
    BY <1>3 DEF AtRest
  <2>6. IdentifiersInv'
    BY <1>1, <1>2, <1>3, <2>1, <2>5, Zenon DEF IdentifiersInv
  <2> QED BY <2>4, <2>6, Zenon
<1> QED BY <1>1, <1>4, <1>5, <1>6, Zenon DEF SendInv

LEMMA SendReturnsInv == ASSUME SendInv, SendReturns PROVE SendInv'
<1>1. /\ SendTypes /\ sender.at = "flush" /\ sender' = AtRest /\ (processorStopped \/ (pool = {} /\ ~batching))
      /\ answered' = [answered EXCEPT ![sender.id] = @ \cup {sender.block}]
      /\ orphaned' = (orphaned \/ (processorStopped /\ sender.block \notin BlocksOf(chain)))
      /\ UNCHANGED <<chain, openBatch, pool, batching, processorStopped, rolled_back, published, send_action_ids, madeFor, electionLost>>
  BY Zenon DEF SendInv, SendReturns, Flushed, batchVars
<1>2. sender # AtRest /\ sender \in [at : {"made", "flush"}, id : SendId, block : Seq(Paid) \ {<<>>}]
  BY <1>1, SenderFacts, Zenon
<1>3. SendTypes'
  BY <1>1, <1>2, Zenon DEF SendTypes
<1>4. ASSUME ~electionLost PROVE MadeInv' /\ rolled_back' = {}
  BY <1>1, <1>4, Zenon DEF SendInv, MadeInv
<1>5. ASSUME ~orphaned, ~electionLost, ~processorStopped \/ sender.block \in BlocksOf(chain) PROVE SenderInv' /\ IdentifiersInv'
  <2>1. SenderInv /\ IdentifiersInv
    BY <1>5, Zenon DEF SendInv
  <2>2. PICK b \in Seq(Paid) \ {<<>>} : b = sender.block
    BY <1>2, Zenon
  <2>3. PICK c \in Seq(Paid) : c = chain
    BY <1>1, Zenon DEF SendTypes
  <2>4. Before(b) = c => b # c /\ b \notin BlocksOf(c)
    BY MadeAfter, Zenon
  <2>5. Settled /\ b = c
    BY <1>1, <1>2, <1>5, <2>1, <2>2, <2>3, <2>4 DEF SenderInv
  <2>6. SenderInv'
    BY <1>1, <2>5, Zenon DEF SenderInv, Settled
  <2>7. Precedes(b, b)
    BY PrefixFacts, Zenon
  <2>8. b \in BlocksOf(c)
    BY <2>5, <2>7, BlocksAre, Zenon
  <2>9. /\ send_action_ids[sender.id] = b /\ answered'[sender.id] = answered[sender.id] \cup {b}
        /\ \A i \in SendId \ {sender.id} : answered'[i] = answered[i]
    BY <1>1, <1>2, <2>1, <2>2 DEF IdentifiersInv, SendTypes
  <2>10. ASSUME NEW id \in SendId PROVE answered'[id] \subseteq {send_action_ids[id]} \cap BlocksOf(c)
    <3>1. answered[id] \subseteq {send_action_ids[id]} \cap BlocksOf(c)
      BY <2>1, <2>3, Zenon DEF IdentifiersInv
    <3> QED BY <2>8, <2>9, <3>1, Zenon
  <2>11. \A id \in SendId : send_action_ids[id] = NoBlock \/ send_action_ids[id] \in BlocksOf(c)
    BY <1>2, <2>1, <2>3, <2>8, <2>9, Zenon DEF IdentifiersInv
  <2>12. IdentifiersInv'
    BY <1>1, <2>1, <2>3, <2>10, <2>11, Zenon DEF IdentifiersInv
  <2> QED BY <2>6, <2>12, Zenon
<1> QED BY <1>1, <1>3, <1>4, <1>5, Zenon DEF SendInv

LEMMA ProcessBlockInv == ASSUME SendInv, NEW b \in pool, ProcessBlock(b) PROVE SendInv'
<1>1. /\ SendTypes /\ pool' = pool \ {b}
      /\ batching /\ UNCHANGED <<chain, batching, processorStopped, rolled_back, send_action_ids, sender, answered, madeFor, orphaned, electionLost>>
      /\ Before(b) = openBatch => openBatch' = b /\ published' = published \cup {b}
      /\ Before(b) # openBatch => UNCHANGED <<openBatch, published>>
  BY Zenon DEF SendInv, ProcessBlock, batchVars
<1>2. b \in Seq(Paid) \ {<<>>}
  BY <1>1, Zenon DEF SendTypes, NoBlock
<1>3. PICK c \in Seq(Paid) : c = chain
  BY <1>1, Zenon DEF SendTypes
<1>4. PICK o \in Seq(Paid) : o = openBatch
  BY <1>1, Zenon DEF SendTypes
<1>5. Precedes(c, o)
  BY <1>1, <1>3, <1>4, Zenon DEF SendTypes
<1>6. ASSUME Before(b) = o PROVE Precedes(c, b)
  <2>1. Precedes(o, b)
    BY <1>2, <1>6, MadeAfter, Zenon
  <2> QED BY <1>2, <1>5, <2>1, PrefixFacts, Zenon
<1>7. SendTypes'
  BY <1>1, <1>2, <1>3, <1>4, <1>6, Zenon DEF SendTypes, NoBlock
<1>8. ASSUME ~electionLost PROVE MadeInv' /\ rolled_back' = {}
  BY <1>1, <1>8, Zenon DEF SendInv, MadeInv
<1>9. ASSUME ~orphaned, ~electionLost PROVE SenderInv' /\ IdentifiersInv'
  <2>1. SenderInv /\ IdentifiersInv
    BY <1>9, Zenon DEF SendInv
  <2>2. /\ sender.at = "flush" /\ Before(sender.block) = chain /\ sender.block = b
        /\ pool = {b} /\ openBatch = chain /\ published \subseteq BlocksOf(chain)
    BY <2>1, Zenon DEF SenderInv, Settled
  <2>3. BlocksOf(c) \subseteq BlocksOf(b) /\ b \in BlocksOf(b)
    BY <1>2, <1>3, <2>2, MadeAfter, Zenon
  <2>4. openBatch' = b /\ published' = published \cup {b} /\ pool' = {}
    BY <1>1, <2>2, Zenon
  <2>5. SenderInv'
    BY <1>1, <1>3, <2>2, <2>3, <2>4, Zenon DEF SenderInv
  <2>6. IdentifiersInv'
    BY <1>1, <2>1, Zenon DEF IdentifiersInv
  <2> QED BY <2>5, <2>6, Zenon
<1> QED BY <1>1, <1>7, <1>8, <1>9, Zenon DEF SendInv

LEMMA CommitBatchInv == ASSUME SendInv, CommitBatch PROVE SendInv'
<1>1. /\ SendTypes /\ batching /\ batching' = FALSE /\ chain' = openBatch
      /\ UNCHANGED <<openBatch, pool, processorStopped, rolled_back, published, send_action_ids, sender, answered, madeFor, orphaned, electionLost>>
  BY Zenon DEF SendInv, CommitBatch
<1>2. PICK c \in Seq(Paid) : c = chain
  BY <1>1, Zenon DEF SendTypes
<1>3. PICK o \in Seq(Paid) : o = openBatch
  BY <1>1, Zenon DEF SendTypes
<1>4. Precedes(c, o) /\ Precedes(o, o)
  <2>1. Precedes(o, o)
    BY PrefixFacts, Zenon
  <2> QED BY <1>1, <1>2, <1>3, <2>1, Zenon DEF SendTypes
<1>5. SendTypes'
  BY <1>1, <1>3, <1>4, Zenon DEF SendTypes
<1>6. ASSUME ~electionLost PROVE MadeInv' /\ rolled_back' = {}
  <2>1. MadeInv
    BY <1>6, Zenon DEF SendInv
  <2>2. chain' \in Seq(Paid) /\ Precedes(chain, chain')
    BY <1>1, <1>2, <1>3, <1>4, Zenon
  <2> QED BY <1>1, <1>6, <2>1, <2>2, MadeKept, Zenon DEF SendInv
<1>7. ASSUME ~orphaned, ~electionLost PROVE SenderInv' /\ IdentifiersInv'
  <2>1. SenderInv /\ IdentifiersInv
    BY <1>7, Zenon DEF SendInv
  <2>2. \/ /\ sender.at = "flush" /\ Before(sender.block) = chain
           /\ pool = {sender.block} /\ openBatch = chain /\ published \subseteq BlocksOf(chain)
        \/ /\ sender.at = "flush" /\ pool = {} /\ openBatch = sender.block
           /\ published \subseteq BlocksOf(openBatch)
    BY <1>1, <2>1, Zenon DEF SenderInv, Settled
  <2>3. SenderInv'
    BY <1>1, <2>2, Zenon DEF SenderInv, Settled
  <2>4. BlocksOf(c) \subseteq BlocksOf(o)
    BY <1>4, ChainGrows, Zenon
  <2>5. IdentifiersInv'
    BY <1>1, <1>2, <1>3, <2>1, <2>4, Zenon DEF IdentifiersInv
  <2> QED BY <2>3, <2>5, Zenon
<1> QED BY <1>1, <1>5, <1>6, <1>7, Zenon DEF SendInv

LEMMA BlockArrivesInv == ASSUME SendInv, NEW b \in published, BlockArrives(b) PROVE SendInv'
<1>1. /\ SendTypes /\ b \notin BlocksOf(openBatch) \cup pool /\ pool' = pool \cup {b}
      /\ UNCHANGED <<chain, openBatch, batching, processorStopped, rolled_back, published, send_action_ids, sender, answered, madeFor, orphaned, electionLost>>
  BY Zenon DEF SendInv, BlockArrives, batchVars
<1>2. SendTypes'
  BY <1>1, Zenon DEF SendTypes
<1>3. ASSUME ~electionLost PROVE MadeInv' /\ rolled_back' = {}
  BY <1>1, <1>3, Zenon DEF SendInv, MadeInv
<1>4. ASSUME ~orphaned, ~electionLost PROVE FALSE
  <2>1. published \subseteq BlocksOf(openBatch)
    BY <1>4, Zenon DEF SendInv, SenderInv, Settled
  <2> QED BY <1>1, <2>1, Zenon
<1> QED BY <1>1, <1>2, <1>3, <1>4, Zenon DEF SendInv

LEMMA LoseElectionInv == ASSUME SendInv, NEW b \in published, LoseElection(b) PROVE SendInv'
<1>1. /\ SendTypes /\ chain' = b /\ openBatch' = b /\ electionLost'
      /\ UNCHANGED <<pool, batching, processorStopped, published, send_action_ids, sender, answered, madeFor>>
  BY Zenon DEF SendInv, LoseElection
<1>2. b \in Seq(Paid)
  BY <1>1, Zenon DEF SendTypes
<1>3. Precedes(b, b)
  BY <1>2, PrefixFacts, Zenon
<1>4. SendTypes'
  BY <1>1, <1>2, <1>3, Zenon DEF SendTypes
<1> QED BY <1>1, <1>4, Zenon DEF SendInv

LEMMA CrashSendingInv == ASSUME SendInv, CrashSending PROVE SendInv'
<1>1. /\ SendTypes /\ openBatch' = chain /\ pool' = {} /\ sender' = AtRest
      /\ rolled_back' = {} /\ batching' = FALSE /\ processorStopped' = FALSE
      /\ orphaned' = (orphaned \/ (sender # AtRest /\ sender.block \notin BlocksOf(chain)))
      /\ UNCHANGED <<chain, published, send_action_ids, answered, madeFor, electionLost>>
  BY Zenon DEF SendInv, CrashSending, Restarted
<1>2. PICK c \in Seq(Paid) : c = chain
  BY <1>1, Zenon DEF SendTypes
<1>3. Precedes(c, c)
  BY PrefixFacts, Zenon
<1>4. SendTypes'
  BY <1>1, <1>2, <1>3, Zenon DEF SendTypes
<1>5. ASSUME ~electionLost PROVE MadeInv' /\ rolled_back' = {}
  BY <1>1, <1>5, Zenon DEF SendInv, MadeInv
<1>6. ASSUME ~orphaned, ~electionLost, sender = AtRest \/ sender.block \in BlocksOf(chain)
      PROVE  SenderInv' /\ IdentifiersInv'
  <2>1. SenderInv /\ IdentifiersInv
    BY <1>6, Zenon DEF SendInv
  <2>2. ASSUME sender # AtRest PROVE Before(sender.block) # chain
    <3>1. PICK b \in Seq(Paid) \ {<<>>} : b = sender.block
      BY <1>1, <2>2, SenderFacts, Zenon
    <3>2. b \in BlocksOf(c)
      BY <1>2, <1>6, <2>2, <3>1, Zenon
    <3>3. Before(b) # c
      BY <3>2, MadeAfter, Zenon
    <3> QED BY <1>2, <3>1, <3>3, Zenon
  <2>3. Settled
    BY <2>1, <2>2 DEF SenderInv, AtRest
  <2>4. SenderInv'
    BY <1>1, <2>3, Zenon DEF SenderInv, Settled
  <2>5. \A id \in SendId : send_action_ids[id] = NoBlock \/ send_action_ids[id] \in BlocksOf(chain)
    <3> SUFFICES ASSUME NEW id \in SendId, send_action_ids[id] # NoBlock
                 PROVE  send_action_ids[id] \in BlocksOf(chain)
      BY Zenon
    <3>1. CASE sender = AtRest \/ sender.id # id
      BY <2>1, <3>1, Zenon DEF IdentifiersInv
    <3>2. CASE sender # AtRest /\ sender.id = id
      BY <1>6, <2>1, <3>2, Zenon DEF IdentifiersInv
    <3> QED BY <3>1, <3>2, Zenon
  <2>6. IdentifiersInv'
    BY <1>1, <2>1, <2>5, Zenon DEF IdentifiersInv
  <2> QED BY <2>4, <2>6, Zenon
<1> QED BY <1>1, <1>4, <1>5, <1>6, Zenon DEF SendInv

LEMMA BeginBatchInv == ASSUME SendInv, BeginBatch PROVE SendInv'
<1>1. /\ SendTypes /\ pool # {} /\ batching' = TRUE
      /\ UNCHANGED <<chain, openBatch, pool, processorStopped, rolled_back, published, send_action_ids, sender, answered,
                     madeFor, orphaned, electionLost>>
  BY Zenon DEF SendInv, BeginBatch
<1>2. SendTypes'
  BY <1>1, Zenon DEF SendTypes
<1>3. ASSUME ~electionLost PROVE MadeInv' /\ rolled_back' = {}
  BY <1>1, <1>3, Zenon DEF SendInv, MadeInv
<1>4. ASSUME ~orphaned, ~electionLost PROVE SenderInv' /\ IdentifiersInv'
  <2>1. SenderInv /\ IdentifiersInv
    BY <1>4, Zenon DEF SendInv
  <2>2. SenderInv'
    BY <1>1, <2>1, Zenon DEF SenderInv, Settled
  <2>3. IdentifiersInv'
    BY <1>1, <2>1, Zenon DEF IdentifiersInv
  <2> QED BY <2>2, <2>3, Zenon
<1> QED BY <1>1, <1>2, <1>3, <1>4, Zenon DEF SendInv

LEMMA StopProcessorInv == ASSUME SendInv, StopProcessor PROVE SendInv'
<1>1. /\ SendTypes /\ processorStopped' = TRUE
      /\ UNCHANGED <<chain, openBatch, pool, batching, rolled_back, published, send_action_ids, sender, answered, madeFor,
                     orphaned, electionLost>>
  BY Zenon DEF SendInv, StopProcessor
<1>2. SendTypes'
  BY <1>1, Zenon DEF SendTypes
<1>3. (MadeInv' <=> MadeInv) /\ (SenderInv' <=> SenderInv) /\ (IdentifiersInv' <=> IdentifiersInv)
  BY <1>1, Zenon DEF MadeInv, SenderInv, Settled, IdentifiersInv
<1> QED BY <1>1, <1>2, <1>3, Zenon DEF SendInv

\* A send that was not answered too soon has left nothing behind when the node ends.
LEMMA ShutDownInv == ASSUME SendInv, ShutDown PROVE SendInv'
<1>1. /\ SendTypes /\ ~batching /\ sender = AtRest
      /\ pool' = {} /\ rolled_back' = {} /\ batching' = FALSE /\ processorStopped' = FALSE
      /\ UNCHANGED <<chain, openBatch, published, send_action_ids, sender, answered, madeFor, orphaned, electionLost>>
  BY Zenon DEF SendInv, ShutDown, Restarted
<1>2. SendTypes'
  BY <1>1, Zenon DEF SendTypes
<1>3. ASSUME ~electionLost PROVE MadeInv' /\ rolled_back' = {}
  BY <1>1, <1>3, Zenon DEF SendInv, MadeInv
<1>4. ASSUME ~orphaned, ~electionLost PROVE SenderInv' /\ IdentifiersInv'
  <2>1. SenderInv /\ IdentifiersInv
    BY <1>4, Zenon DEF SendInv
  <2>2. Settled
    BY <1>1, <2>1, Zenon DEF SenderInv, AtRest
  <2>3. SenderInv'
    BY <1>1, <2>2, Zenon DEF SenderInv, Settled
  <2>4. IdentifiersInv'
    BY <1>1, <2>1, Zenon DEF IdentifiersInv
  <2> QED BY <2>3, <2>4, Zenon
<1> QED BY <1>1, <1>2, <1>3, <1>4, Zenon DEF SendInv

LEMMA SendStutterInv == ASSUME SendInv, UNCHANGED sendVars PROVE SendInv'
<1>1. SendTypes'
  BY Zenon DEF SendInv, SendTypes, sendVars, batchVars
<1>2. MadeInv' <=> MadeInv
  BY Zenon DEF MadeInv, sendVars, batchVars
<1>3. SenderInv' <=> SenderInv
  BY Zenon DEF SenderInv, Settled, sendVars, batchVars
<1>4. IdentifiersInv' <=> IdentifiersInv
  BY Zenon DEF IdentifiersInv, sendVars, batchVars
<1> QED BY <1>1, <1>2, <1>3, <1>4, Zenon DEF SendInv, sendVars, batchVars

\* A set that has nothing but x has at most one element
LEMMA AtMostOne == ASSUME NEW x, NEW S, S \subseteq {x} PROVE Cardinality(S) <= 1
<1>1. S = {} \/ S = {x}
  BY Zenon
<1>2. Cardinality({}) = 0 /\ Cardinality({x}) = 1
  BY FS_EmptySet, FS_Singleton, Zenon
<1> QED BY <1>1, <1>2

LEMMA SendInvImplies == SendInv => SendsIdempotent
<1> SUFFICES ASSUME SendInv PROVE SendsIdempotent
  BY Zenon
<1>1. PICK c \in Seq(Paid) : c = chain
  BY Zenon DEF SendInv, SendTypes
<1>2. ASSUME ~electionLost, NEW id \in SendId PROVE Cardinality(madeFor[id] \cap BlocksOf(chain)) <= 1
  <2>1. ASSUME NEW m \in madeFor[id] \cap BlocksOf(c) PROVE m = send_action_ids[id]
    <3>1. m \in Seq(Paid) /\ MadeInv
      BY <1>2, <2>1, Zenon DEF SendInv, SendTypes
    <3>2. Precedes(m, c)
      BY <2>1, <3>1, BlocksAre, Zenon
    <3> QED BY <1>1, <2>1, <3>1, <3>2, Zenon DEF MadeInv
  <2>2. madeFor[id] \cap BlocksOf(chain) \subseteq {send_action_ids[id]}
    BY <1>1, <2>1, Zenon
  <2> QED BY <2>2, AtMostOne, Zenon
<1>3. ASSUME ~orphaned, ~electionLost, NEW id \in SendId
      PROVE  /\ answered[id] \subseteq BlocksOf(chain)
             /\ \A other \in SendId \ {id} : answered[id] \cap answered[other] = {}
  <2>1. IdentifiersInv
    BY <1>3, Zenon DEF SendInv
  <2>2. NoBlock \notin BlocksOf(c)
    BY BlocksAre, Zenon DEF NoBlock
  <2>3. \A i \in SendId : answered[i] \subseteq {send_action_ids[i]} \cap BlocksOf(c)
    BY <1>1, <2>1, Zenon DEF IdentifiersInv
  <2>4. ASSUME NEW other \in SendId \ {id}, NEW x \in answered[id] \cap answered[other] PROVE FALSE
    <3>1. x = send_action_ids[id] /\ x = send_action_ids[other] /\ x \in BlocksOf(c)
      BY <2>3, <2>4, Zenon
    <3>2. x = NoBlock
      BY <2>1, <3>1, Zenon DEF IdentifiersInv
    <3> QED BY <2>2, <3>1, <3>2, Zenon
  <2> QED BY <1>1, <2>3, <2>4, Zenon
<1> QED BY <1>2, <1>3, Zenon DEF SendsIdempotent, SentOnce, AnswersHold

\* However often send_action is called with an identifier, and wherever the node is killed or shut
\* down, the chain has at most one block made for it, unless an election against a block of the
\* chain is lost; what was returned is in the ledger and belongs to one identifier, unless the
\* node ended between an identifier and its block: for every set of identifiers, whatever they
\* pay and however many crashes and shutdowns there are.
THEOREM SendsIdempotentTheorem == SendSpec => []SendsIdempotent
<1>1. SendInit => SendInv
  BY InitSend, Zenon
<1>2. SendInv /\ [SendNext]_sendVars => SendInv'
  <2> SUFFICES ASSUME SendInv, [SendNext]_sendVars PROVE SendInv'
    BY Zenon
  <2>1. CASE \E id \in SendId : SendAction(id)
    BY <2>1, SendActionInv, Zenon
  <2>2. CASE ProcessActive
    BY <2>2, ProcessActiveInv, Zenon
  <2>3. CASE SendReturns
    BY <2>3, SendReturnsInv, Zenon
  <2>4. CASE \E b \in pool : ProcessBlock(b)
    BY <2>4, ProcessBlockInv, Zenon
  <2>5. CASE CommitBatch
    BY <2>5, CommitBatchInv, Zenon
  <2>6. CASE \E b \in published : BlockArrives(b)
    BY <2>6, BlockArrivesInv, Zenon
  <2>7. CASE \E b \in published : LoseElection(b)
    BY <2>7, LoseElectionInv, Zenon
  <2>8. CASE CrashSending
    BY <2>8, CrashSendingInv, Zenon
  <2>9. CASE BeginBatch
    BY <2>9, BeginBatchInv, Zenon
  <2>10. CASE StopProcessor
    BY <2>10, StopProcessorInv, Zenon
  <2>11. CASE ShutDown
    BY <2>11, ShutDownInv, Zenon
  <2>12. CASE UNCHANGED sendVars
    BY <2>12, SendStutterInv, Zenon
  <2> QED BY <2>1, <2>2, <2>3, <2>4, <2>5, <2>6, <2>7, <2>8, <2>9, <2>10, <2>11, <2>12, Zenon DEF SendNext
<1> QED BY <1>1, <1>2, SendInvImplies, PTL DEF SendSpec
-----------------------------------------------------------------------------
(* Receives of a wallet *)

LEMMA RecipientFacts ==
    ASSUME ReceiveTypes
    PROVE  /\ recipient = RecipientIdle <=> recipient.at = "rest"
           /\ recipient # RecipientIdle =>
                 recipient \in [at : {"made", "flush"}, block : Seq(Incoming) \ {<<>>}]
BY DEF ReceiveTypes, RecipientIdle

\* Steps that leave the blocks of the account and the thread of wallets alone
LEMMA QuietReceive ==
    ASSUME ReceiveInv, UNCHANGED <<blocksOfReceives, recipient, forked>>, inLedger' \subseteq Incoming
    PROVE  ReceiveInv'
<1>1. ReceiveTypes'
  BY Zenon DEF ReceiveInv, ReceiveTypes, blocksOfReceives
<1>2. RecipientInv' <=> RecipientInv
  BY Zenon DEF RecipientInv, blocksOfReceives
<1> QED BY <1>1, <1>2, Zenon DEF ReceiveInv

LEMMA InitReceive == ReceiveInit => ReceiveInv
<1> SUFFICES ASSUME ReceiveInit PROVE ReceiveInv
  BY Zenon
<1>1. <<>> \in Seq(Incoming)
  BY EmptySeq, Zenon
<1>2. ReceiveTypes
  BY <1>1, Zenon DEF ReceiveInit, ReceiveTypes
<1>3. RecipientInv
  BY Zenon DEF ReceiveInit, RecipientInv
<1> QED BY <1>2, <1>3, Zenon DEF ReceiveInv

LEMMA RecipientStepInv == ASSUME ReceiveInv, RecipientStep PROVE ReceiveInv'
<1>1. ReceiveTypes /\ UNCHANGED <<inLedger, ownChain, inBatch, spread, forked>>
  BY Zenon DEF ReceiveInv, RecipientStep, ReceiveAction, ReceiveActive, ReceiveReturns, blocksOfReceives
<1>2. CASE ReceiveAction
  <2>1. recipient.at = "rest" /\ UNCHANGED toProcess
    BY <1>2, Zenon DEF ReceiveAction, blocksOfReceives
  <2>2. recipient = RecipientIdle
    BY <1>1, <2>1, RecipientFacts, Zenon
  <2>3. CASE recipient' = RecipientIdle
    <3>1. UNCHANGED <<blocksOfReceives, recipient, forked>> /\ inLedger' \subseteq Incoming
      BY <1>1, <2>1, <2>2, <2>3, Zenon DEF blocksOfReceives, ReceiveTypes
    <3> QED BY <3>1, QuietReceive, Zenon
  <2>4. CASE recipient' # RecipientIdle
    <3>1. PICK s \in Incoming : recipient' = [at |-> "made", block |-> Append(ownChain, s)]
      BY <1>1, <1>2, <2>4, Zenon DEF ReceiveAction, Unpaid, ReceiveTypes
    <3>2. PICK c \in Seq(Incoming) : c = ownChain
      BY <1>1, Zenon DEF ReceiveTypes
    <3>3. PICK b \in Seq(Incoming) \ {<<>>} : b = Append(c, s) /\ Before(b) = c
      BY AppendIs, Zenon
    <3>4. /\ recipient'.at = "made" /\ recipient'.block = b
          /\ recipient' \in [at : {"made", "flush"}, block : Seq(Incoming) \ {<<>>}]
      BY <3>1, <3>2, <3>3, Zenon
    <3>5. ReceiveTypes'
      BY <1>1, <2>1, <3>4, Zenon DEF ReceiveTypes
    <3>6. ASSUME RecipientInv PROVE RecipientInv'
      <4>1. toProcess = {} /\ inBatch = ownChain /\ \A x \in spread : Precedes(x, inBatch)
        BY <2>1, <3>6, Zenon DEF RecipientInv
      <4> QED BY <1>1, <2>1, <3>2, <3>3, <3>4, <4>1, Zenon DEF RecipientInv
    <3> QED BY <1>1, <3>5, <3>6, Zenon DEF ReceiveInv
  <2> QED BY <2>3, <2>4, Zenon
<1>3. CASE ReceiveActive
  <2>1. /\ recipient.at = "made" /\ toProcess' = toProcess \cup {recipient.block}
        /\ recipient' = [recipient EXCEPT !.at = "flush"]
    BY <1>3, Zenon DEF ReceiveActive
  <2>2. /\ recipient # RecipientIdle
        /\ recipient \in [at : {"made", "flush"}, block : Seq(Incoming) \ {<<>>}]
    BY <1>1, <2>1, RecipientFacts, Zenon
  <2>3. /\ recipient' \in [at : {"made", "flush"}, block : Seq(Incoming) \ {<<>>}]
        /\ recipient'.at = "flush" /\ recipient'.block = recipient.block
    BY <2>1, <2>2, Zenon
  <2>4. ReceiveTypes'
    BY <1>1, <2>1, <2>2, <2>3, Zenon DEF ReceiveTypes
  <2>5. ASSUME RecipientInv PROVE RecipientInv'
    <3>1. /\ toProcess = {} /\ inBatch = ownChain /\ Before(recipient.block) = ownChain
          /\ \A x \in spread : Precedes(x, inBatch)
      BY <2>1, <2>2, <2>5, Zenon DEF RecipientInv
    <3>2. toProcess' = {recipient.block}
      BY <2>1, <3>1, Zenon
    <3> QED BY <1>1, <2>3, <3>1, <3>2, Zenon DEF RecipientInv
  <2> QED BY <1>1, <2>4, <2>5, Zenon DEF ReceiveInv
<1>4. CASE ReceiveReturns
  <2>1. toProcess = {} /\ inBatch = ownChain /\ recipient' = RecipientIdle /\ UNCHANGED toProcess
    BY <1>4, Zenon DEF ReceiveReturns, ProcessorIdle, blocksOfReceives
  <2>2. ReceiveTypes'
    BY <1>1, <2>1, Zenon DEF ReceiveTypes
  <2>3. ASSUME RecipientInv PROVE RecipientInv'
    BY <1>1, <2>1, <2>3, Zenon DEF RecipientInv
  <2> QED BY <1>1, <2>2, <2>3, Zenon DEF ReceiveInv
<1> QED BY <1>2, <1>3, <1>4, Zenon DEF RecipientStep

LEMMA ReceiveProcessedInv == ASSUME ReceiveInv, NEW b \in toProcess, ReceiveProcessed(b) PROVE ReceiveInv'
<1>1. /\ ReceiveTypes /\ toProcess' = toProcess \ {b}
      /\ UNCHANGED <<inLedger, ownChain, recipient, forked>>
      /\ Before(b) = inBatch => inBatch' = b /\ spread' = spread \cup {b}
      /\ Before(b) # inBatch => UNCHANGED <<inBatch, spread>>
  BY Zenon DEF ReceiveInv, ReceiveProcessed
<1>2. b \in Seq(Incoming) \ {<<>>}
  BY <1>1, Zenon DEF ReceiveTypes
<1>3. ReceiveTypes'
  BY <1>1, <1>2, Zenon DEF ReceiveTypes
<1>4. ASSUME RecipientInv PROVE RecipientInv'
  <2>1. /\ recipient.at = "flush" /\ toProcess = {b} /\ inBatch = ownChain /\ Before(b) = inBatch
        /\ \A x \in spread : Precedes(x, inBatch)
    BY <1>4, Zenon DEF RecipientInv
  <2>2. PICK c \in Seq(Incoming) : c = inBatch
    BY <1>1, Zenon DEF ReceiveTypes
  <2>3. Precedes(c, b)
    BY <1>2, <2>1, <2>2, MadeAfter, Zenon
  <2>4. ASSUME NEW x \in spread PROVE Precedes(x, b)
    <3>1. x \in Seq(Incoming) /\ Precedes(x, c)
      BY <1>1, <2>1, <2>2, <2>4, Zenon DEF ReceiveTypes
    <3> QED BY <1>2, <2>3, <3>1, PrefixFacts, Zenon
  <2>5. Precedes(b, b)
    BY <1>2, PrefixFacts, Zenon
  <2>6. inBatch' = b /\ spread' = spread \cup {b} /\ toProcess' = {}
    BY <1>1, <2>1, Zenon
  <2> QED BY <1>1, <2>1, <2>4, <2>5, <2>6, Zenon DEF RecipientInv
<1> QED BY <1>1, <1>3, <1>4, Zenon DEF ReceiveInv

LEMMA ReceiveCommittedInv == ASSUME ReceiveInv, ReceiveCommitted PROVE ReceiveInv'
<1>1. /\ ReceiveTypes /\ inBatch # ownChain /\ ownChain' = inBatch
      /\ UNCHANGED <<inLedger, inBatch, toProcess, spread, recipient, forked>>
  BY Zenon DEF ReceiveInv, ReceiveCommitted
<1>2. ReceiveTypes'
  BY <1>1, Zenon DEF ReceiveTypes
<1>3. ASSUME RecipientInv PROVE RecipientInv'
  <2>1. recipient.at = "flush" /\ toProcess = {} /\ \A x \in spread : Precedes(x, inBatch)
    BY <1>1, <1>3, Zenon DEF RecipientInv
  <2> QED BY <1>1, <2>1, Zenon DEF RecipientInv
<1> QED BY <1>1, <1>2, <1>3, Zenon DEF ReceiveInv

LEMMA ReceiveReturnedInv == ASSUME ReceiveInv, NEW b \in spread, ReceiveReturned(b) PROVE ReceiveInv'
<1>1. /\ ReceiveTypes /\ Before(b) = inBatch /\ toProcess' = toProcess \cup {b}
      /\ UNCHANGED <<inLedger, ownChain, inBatch, spread, recipient, forked>>
  BY Zenon DEF ReceiveInv, ReceiveReturned
<1>2. b \in Seq(Incoming) \ {<<>>}
  BY <1>1, Zenon DEF ReceiveTypes
<1>3. ReceiveTypes'
  BY <1>1, <1>2, Zenon DEF ReceiveTypes
<1>4. ASSUME RecipientInv PROVE FALSE
  <2>1. PICK c \in Seq(Incoming) : c = inBatch
    BY <1>1, Zenon DEF ReceiveTypes
  <2>2. Precedes(b, c)
    BY <1>4, <2>1, Zenon DEF RecipientInv
  <2>3. b \in BlocksOf(c)
    BY <1>2, <2>2, BlocksAre, Zenon
  <2> QED BY <1>1, <1>2, <2>1, <2>3, MadeAfter, Zenon
<1> QED BY <1>1, <1>3, <1>4, Zenon DEF ReceiveInv

LEMMA ForkLostInv == ASSUME ReceiveInv, NEW b \in spread, ForkLost(b) PROVE ReceiveInv'
<1>1. /\ ReceiveTypes /\ ownChain' = b /\ inBatch' = b /\ forked'
      /\ UNCHANGED <<inLedger, toProcess, spread, recipient>>
  BY Zenon DEF ReceiveInv, ForkLost
<1>2. ReceiveTypes'
  BY <1>1, Zenon DEF ReceiveTypes
<1> QED BY <1>1, <1>2, Zenon DEF ReceiveInv

LEMMA ReceiveCrashInv == ASSUME ReceiveInv, ReceiveCrash PROVE ReceiveInv'
<1>1. /\ ReceiveTypes /\ inBatch' = ownChain /\ toProcess' = {} /\ recipient' = RecipientIdle
      /\ forked' = (forked \/ inBatch # ownChain) /\ UNCHANGED <<inLedger, ownChain, spread>>
  BY Zenon DEF ReceiveInv, ReceiveCrash
<1>2. ReceiveTypes'
  BY <1>1, Zenon DEF ReceiveTypes
<1>3. ASSUME RecipientInv, inBatch = ownChain PROVE RecipientInv'
  BY <1>1, <1>3, Zenon DEF RecipientInv
<1> QED BY <1>1, <1>2, <1>3, Zenon DEF ReceiveInv

LEMMA ReceiveInvImplies == ReceiveInv => NoForkOfOwn
<1> SUFFICES ASSUME ReceiveInv, ~forked, NEW b1 \in spread \cup toProcess, NEW b2 \in spread \cup toProcess
             PROVE  Precedes(b1, b2) \/ Precedes(b2, b1)
  BY Zenon DEF NoForkOfOwn
<1>1. ReceiveTypes /\ RecipientInv
  BY Zenon DEF ReceiveInv
<1>2. PICK c \in Seq(Incoming) : c = inBatch
  BY <1>1, Zenon DEF ReceiveTypes
<1>3. b1 \in Seq(Incoming) /\ b2 \in Seq(Incoming)
  BY <1>1, Zenon DEF ReceiveTypes
<1>4. \A x \in spread : x \in Seq(Incoming) /\ Precedes(x, c)
  BY <1>1, <1>2, Zenon DEF RecipientInv, ReceiveTypes
<1>5. CASE toProcess = {}
  <2>1. Precedes(b1, c) /\ Precedes(b2, c)
    BY <1>4, <1>5, Zenon
  <2>2. Len(b1) <= Len(b2) \/ Len(b2) <= Len(b1)
    BY <1>3
  <2> QED BY <1>3, <2>1, <2>2, PrefixFacts, Zenon
<1>6. CASE toProcess # {}
  <2>1. PICK d \in Seq(Incoming) \ {<<>>} : toProcess = {d} /\ Before(d) = c
    BY <1>1, <1>2, <1>6, Zenon DEF RecipientInv, ReceiveTypes
  <2>2. Precedes(c, d) /\ Precedes(d, d)
    BY <2>1, MadeAfter, PrefixFacts, Zenon
  <2>3. ASSUME NEW x \in spread \cup toProcess PROVE Precedes(x, d)
    BY <1>4, <2>1, <2>2, PrefixFacts, Zenon
  <2>4. Precedes(b1, d) /\ Precedes(b2, d)
    BY <2>3, Zenon
  <2>5. Len(b1) <= Len(b2) \/ Len(b2) <= Len(b1)
    BY <1>3
  <2> QED BY <1>3, <2>4, <2>5, PrefixFacts, Zenon
<1> QED BY <1>5, <1>6, Zenon

\* receive_action makes a block on the head of the committed ledger, and flushes before it makes the
\* next: however sends are confirmed, searched for and queued, of two blocks of the account that
\* the node published or has in its block processor one follows the other, until a crash falls
\* between the publication of a block and its commit.
THEOREM NoForkOfOwnTheorem == ReceiveSpec => []NoForkOfOwn
<1>1. ReceiveInit => ReceiveInv
  BY InitReceive, Zenon
<1>2. ReceiveInv /\ [ReceiveNext]_receiveVars => ReceiveInv'
  <2> SUFFICES ASSUME ReceiveInv, [ReceiveNext]_receiveVars PROVE ReceiveInv'
    BY Zenon
  <2>1. inLedger \subseteq Incoming
    BY Zenon DEF ReceiveInv, ReceiveTypes
  <2>2. CASE SearchPending \/ LockWallet \/ UnlockWallet \/ UNCHANGED receiveVars
    BY <2>1, <2>2, QuietReceive, Zenon DEF SearchPending, LockWallet, UnlockWallet, receiveVars
  <2>3. CASE RecipientStep
    BY <2>3, RecipientStepInv, Zenon
  <2>4. CASE ProcessorOfReceives
    BY <2>4, ReceiveProcessedInv, ReceiveCommittedInv, Zenon DEF ProcessorOfReceives
  <2>5. CASE ReceiveCrash
    BY <2>5, ReceiveCrashInv, Zenon
  <2>6. ASSUME NEW s \in Incoming, SendArrives(s) \/ SendConfirmed(s) \/ ContestPruned(s) \/ ContestLost(s)
        PROVE  ReceiveInv'
    <3>1. UNCHANGED <<blocksOfReceives, recipient, forked>> /\ inLedger' \subseteq Incoming
      BY <2>1, <2>6, Zenon DEF SendArrives, SendConfirmed, ContestPruned, ContestLost
    <3> QED BY <3>1, QuietReceive, Zenon
  <2>7. ASSUME NEW b \in spread, ReceiveReturned(b) \/ ForkLost(b) PROVE ReceiveInv'
    BY <2>7, ReceiveReturnedInv, ForkLostInv, Zenon
  <2> QED BY <2>2, <2>3, <2>4, <2>5, <2>6, <2>7, Zenon DEF ReceiveNext
<1> QED BY <1>1, <1>2, ReceiveInvImplies, PTL DEF ReceiveSpec

-----------------------------------------------------------------------------
(* Elections: what the tally of an election is made of                      *)

\* The largest of finitely many numbers
LEMMA MaxFacts ==
    ASSUME NEW S, IsFiniteSet(S), S # {}, S \subseteq Nat
    PROVE  Max(S) \in S /\ \A x \in S : x <= Max(S)
<1> DEFINE P == {n \in Nat : \A s \in SUBSET S : Cardinality(s) = n /\ s # {} => \E m \in s : \A x \in s : m >= x}
<1>0. \A s \in SUBSET S : IsFiniteSet(s) /\ Cardinality(s) \in Nat
  BY FS_Subset, FS_CardinalityType, Zenon
<1>1. 0 \in P
  BY <1>0, FS_EmptySet, Zenon
<1>2. ASSUME NEW n \in Nat, n \in P PROVE n + 1 \in P
  <2>0. n + 1 \in Nat
    OBVIOUS
  <2> SUFFICES ASSUME NEW s \in SUBSET S, Cardinality(s) = n + 1, s # {} PROVE \E m \in s : \A x \in s : m >= x
    BY <2>0, Zenon
  <2>1. PICK y \in s : TRUE
    BY Zenon
  <2>2. s \ {y} \in SUBSET S /\ Cardinality(s \ {y}) = n
    <3>1. IsFiniteSet(s)
      BY <1>0, Zenon
    <3>2. Cardinality(s \ {y}) \in Nat /\ Cardinality(s) = Cardinality(s \ {y}) + 1
      BY <3>1, Smaller, Zenon
    <3> QED BY <3>2
  <2>3. CASE s \ {y} = {}
    <3>1. \A x \in s : x = y
      BY <2>3, Zenon
    <3>2. y >= y
      OBVIOUS
    <3> QED BY <3>1, <3>2, Zenon
  <2>4. CASE s \ {y} # {}
    <3>1. PICK m \in s \ {y} : \A x \in s \ {y} : m >= x
      BY <1>2, <2>2, <2>4, Zenon
    <3>2. s \subseteq Nat /\ m \in Nat /\ y \in Nat
      BY Zenon
    <3>3. CASE m >= y
      BY <3>1, <3>3
    <3>4. CASE ~(m >= y)
      BY <3>1, <3>2, <3>4
    <3> QED BY <3>3, <3>4, Zenon
  <2> QED BY <2>3, <2>4, Zenon
<1> HIDE DEF P
<1>3. Cardinality(S) \in P
  BY <1>0, <1>1, <1>2, NatSetInduction, Zenon
<1>4. \E m \in S : \A x \in S : m >= x
  BY <1>3, Zenon DEF P
<1>5. Max(S) \in S /\ \A x \in S : Max(S) >= x
  BY <1>4, Zenon DEF Max
<1> HIDE DEF Max
<1> QED BY <1>5

LEMMA BlockWeightsType ==
    ASSUME NEW e \in Election
    PROVE  /\ BlockWeights(e) \in [Hash -> Nat]
           /\ \A h \in Hash \ Voted(e) : BlockWeights(e)[h] = 0
<1> DEFINE Of(h) == {r \in DOMAIN e.last_votes : e.last_votes[r].hash = h}
<1>1. DOMAIN e.last_votes \subseteq Rep
  BY DEF Election
<1>2. ASSUME NEW h \in Hash PROVE SumFunctionOnSet(Weight, Of(h)) \in Nat
  <2>1. IsFiniteSet(Of(h)) /\ \A r \in Of(h) : Weight[r] \in Nat
    <3>1. Of(h) \subseteq Rep
      BY <1>1, Zenon
    <3>2. IsFiniteSet(Rep) /\ Weight \in [Rep -> Nat]
      BY WeightAssumption, Zenon
    <3> QED BY <3>1, <3>2, FS_Subset, Zenon
  <2> HIDE DEF Of
  <2> QED BY <2>1, SumNat, Zenon
<1>3. ASSUME NEW h \in Hash \ Voted(e) PROVE SumFunctionOnSet(Weight, Of(h)) = 0
  <2>1. Of(h) = {}
    BY Zenon DEF Voted
  <2> HIDE DEF Of
  <2> QED BY <2>1, SumEmpty, Zenon
<1>4. BlockWeights(e) = [h \in Hash |-> SumFunctionOnSet(Weight, Of(h))]
  BY Zenon DEF BlockWeights
<1> HIDE DEF Of
<1> QED BY <1>2, <1>3, <1>4, Zenon

\* An election with the same votes and blocks has the same tally.
SameTally(e, f) == f.first = e.first /\ f.last_votes = e.last_votes /\ f.blocks = e.blocks

LEMMA SameTallies ==
    ASSUME NEW e, NEW f, SameTally(e, f)
    PROVE  /\ BlockWeights(f) = BlockWeights(e) /\ Counted(f) = Counted(e) /\ Tally(f) = Tally(e)
           /\ Leaders(f) = Leaders(e)
<1>1. BlockWeights(f) = BlockWeights(e)
  BY Zenon DEF SameTally, BlockWeights
<1>2. Counted(f) = Counted(e)
  BY Zenon DEF SameTally, Counted, Voted
<1>3. Tally(f) = Tally(e)
  BY <1>1, <1>2, Zenon DEF Tally
<1>4. Leaders(f) = Leaders(e)
  BY <1>1, <1>2, <1>3, Zenon DEF Leaders
<1> QED BY <1>1, <1>2, <1>3, <1>4, Zenon

\* A tally that is not empty
LEMMA TallyFacts ==
    ASSUME NEW e \in Election, NEW h \in Counted(e)
    PROVE  /\ IsFiniteSet(Tally(e)) /\ Tally(e) \subseteq Nat /\ Tally(e) # {}
           /\ Max(Tally(e)) \in Tally(e) /\ \A w \in Tally(e) : w <= Max(Tally(e))
<1>1. BlockWeights(e) \in [Hash -> Nat] /\ Counted(e) \subseteq Hash
  <2>1. e.blocks \subseteq Hash
    BY DEF Election
  <2> QED BY <2>1, BlockWeightsType, Zenon DEF Counted
<1>2. IsFiniteSet(Counted(e))
  BY <1>1, HashAssumption, FS_Subset, Zenon
<1>3. IsFiniteSet(Tally(e))
  <2> DEFINE f == [b \in Counted(e) |-> BlockWeights(e)[b]]
  <2>1. f \in [Counted(e) -> Tally(e)] /\ \A w \in Tally(e) : \E b \in Counted(e) : f[b] = w
    BY Zenon DEF Tally
  <2> HIDE DEF f
  <2>2. f \in Surjection(Counted(e), Tally(e))
    BY <2>1, Zenon DEF Surjection
  <2> QED BY <1>2, <2>2, FS_Surjection, Zenon
<1>4. Tally(e) \subseteq Nat /\ Tally(e) # {}
  BY <1>1, Zenon DEF Tally
<1> QED BY <1>3, <1>4, MaxFacts, Zenon

\* have_quorum: whoever leads has more than delta, and no block more than it.
LEMMA QuorumOfLeader ==
    ASSUME NEW e \in Election, NEW leader \in Leaders(e), have_quorum(e)
    PROVE  /\ SumSet(Tally(e)) >= MinimumWeight /\ BlockWeights(e)[leader] > Delta
           /\ \A h \in e.blocks : BlockWeights(e)[h] <= BlockWeights(e)[leader]
<1> DEFINE first == Max(Tally(e))
           others == (Tally(e) \ {first}) \cup {0}
<1>1. leader \in Counted(e) /\ BlockWeights(e)[leader] = first
  BY Zenon DEF Leaders
<1>2. IsFiniteSet(Tally(e)) /\ Tally(e) \subseteq Nat /\ first \in Nat /\ \A w \in Tally(e) : w <= first
  BY <1>1, TallyFacts, Zenon
<1>3. Max(others) \in Nat
  <2>1. IsFiniteSet(others)
    BY <1>2, FS_RemoveElement, FS_AddElement, Zenon
  <2>2. others \subseteq Nat /\ others # {}
    BY <1>2
  <2> HIDE DEF others
  <2> QED BY <2>1, <2>2, MaxFacts, Zenon
<1>4. SumSet(Tally(e)) >= MinimumWeight /\ first > Max(others) + Delta
  BY Zenon DEF have_quorum
<1>5. Delta \in Nat
  <2>1. Supply \in Nat /\ Quorum \in Nat
    BY WeightAssumption, Zenon
  <2>2. Supply \div 100 \in Nat
    BY <2>1
  <2> QED BY <2>1, <2>2 DEF Delta
<1>6. first > Delta
  <2> HIDE DEF first, others, Delta
  <2> QED BY <1>2, <1>3, <1>4, <1>5
<1>7. ASSUME NEW h \in e.blocks PROVE BlockWeights(e)[h] <= first
  <2>1. h \in Hash
    BY DEF Election
  <2>2. CASE h \in Voted(e)
    <3>1. BlockWeights(e)[h] \in Tally(e)
      BY <2>2, Zenon DEF Tally, Counted
    <3> QED BY <1>2, <3>1, Zenon
  <2>3. CASE h \notin Voted(e)
    <3>1. BlockWeights(e)[h] = 0
      BY <2>1, <2>3, BlockWeightsType, Zenon
    <3> HIDE DEF first
    <3> QED BY <1>2, <3>1
  <2> QED BY <2>2, <2>3, Zenon
<1> QED BY <1>1, <1>4, <1>6, <1>7, Zenon

-----------------------------------------------------------------------------
(* What is reached by repeating a step: confirm_back, and a rollback        *)

Iterates(g, T, A, F, N) == g \in [0 .. N -> T] /\ g[0] = A /\ \A n \in 1 .. N : g[n] = F[g[n - 1]]

LEMMA Iteration ==
    ASSUME NEW T, NEW A \in T, NEW F, \A s \in T : F[s] \in T, NEW N \in Nat
    PROVE  \E g : Iterates(g, T, A, F, N)
<1> DEFINE P == {n \in Nat : \E g \in [0 .. n -> T] : g[0] = A /\ \A k \in 1 .. n : g[k] = F[g[k - 1]]}
<1>1. 0 \in P
  <2> DEFINE g == [k \in 0 .. 0 |-> A]
  <2>1. g \in [0 .. 0 -> T] /\ g[0] = A /\ \A k \in 1 .. 0 : g[k] = F[g[k - 1]]
    OBVIOUS
  <2> HIDE DEF g
  <2> QED BY <2>1
<1>2. ASSUME NEW n \in Nat, n \in P PROVE n + 1 \in P
  <2>1. PICK g \in [0 .. n -> T] : g[0] = A /\ \A k \in 1 .. n : g[k] = F[g[k - 1]]
    BY <1>2, Zenon
  <2> DEFINE h == [k \in 0 .. n + 1 |-> IF k = n + 1 THEN F[g[n]] ELSE g[k]]
  <2>2. n \in 0 .. n /\ g[n] \in T /\ F[g[n]] \in T
    OBVIOUS
  <2>3. h \in [0 .. n + 1 -> T]
    BY <2>2
  <2>4. h[n + 1] = F[g[n]] /\ \A k \in 0 .. n : h[k] = g[k]
    OBVIOUS
  <2> HIDE DEF h
  <2>5. h[0] = A /\ \A k \in 1 .. n + 1 : h[k] = F[h[k - 1]]
    <3>1. h[0] = A
      BY <2>1, <2>4
    <3>2. \A k \in 1 .. n : h[k] = F[h[k - 1]]
      BY <2>1, <2>4
    <3>3. h[n + 1] = F[h[(n + 1) - 1]]
      BY <2>2, <2>4
    <3> QED BY <3>1, <3>2, <3>3
  <2> QED BY <2>3, <2>5
<1> HIDE DEF P
<1>3. N \in P
  BY <1>1, <1>2, NatSetInduction, Zenon
<1> QED BY <1>3, Zenon DEF P, Iterates

LEMMA DepsType == \A h \in Hash : Deps(h) \subseteq Hash
  BY LinkAssumption DEF Deps

LEMMA HashCount == Cardinality(Hash) \in Nat
  BY HashAssumption, FS_CardinalityType, Zenon

BackFrom(g, es, h) ==
    /\ g[0] = {d \in Deps(h) : BackEligible(es, d)}
    /\ \A n \in 1 .. Cardinality(Hash) :
          g[n] = g[n - 1] \cup {d \in UNION {Deps(b) : b \in g[n - 1]} : BackEligible(es, d)}

LEMMA ConfirmBackIs ==
    ASSUME NEW es, NEW h \in Hash
    PROVE  \E g : ConfirmBack(es, h) = g[Cardinality(Hash)] /\ BackFrom(g, es, h)
<1> DEFINE N == Cardinality(Hash)
           A == {d \in Deps(h) : BackEligible(es, d)}
           Then(S) == S \cup {d \in UNION {Deps(b) : b \in S} : BackEligible(es, d)}
           F == [S \in SUBSET Hash |-> Then(S)]
           Is(g) == g = [n \in 0 .. N |-> IF n = 0 THEN A ELSE Then(g[n - 1])]
<1>1. N \in Nat /\ A \in SUBSET Hash /\ F \in [SUBSET Hash -> SUBSET Hash]
  BY HashCount, DepsType, Zenon
<1>2. PICK g \in [0 .. N -> SUBSET Hash] : g[0] = A /\ \A n \in 1 .. N : g[n] = F[g[n - 1]]
  <2> DEFINE T == SUBSET Hash
  <2>1. N \in Nat /\ A \in T /\ \A s \in T : F[s] \in T
    BY <1>1, Zenon
  <2> HIDE DEF N, A, F, T
  <2>2. \E g : Iterates(g, T, A, F, N)
    BY <2>1, Iteration, Zenon
  <2> QED BY <2>2, Zenon DEF Iterates, T
<1>3. Is(g)
  <2> HIDE DEF N, A, Then
  <2>1. ASSUME NEW n \in 0 .. N, n # 0 PROVE n \in 1 .. N /\ n - 1 \in 0 .. N
    BY <1>1, <2>1
  <2>2. \A n \in 0 .. N : n # 0 => g[n] = Then(g[n - 1])
    BY <1>2, <2>1, Zenon
  <2>3. \A n \in 0 .. N : g[n] = IF n = 0 THEN A ELSE Then(g[n - 1])
    BY <1>2, <2>2, Zenon
  <2> QED BY <2>3, Zenon
<1> DEFINE k == CHOOSE f : Is(f)
<1>4. Is(k)
  BY <1>3, Zenon
<1>5. ConfirmBack(es, h) = k[N]
  BY Zenon DEF ConfirmBack
<1> HIDE DEF k
<1>6. k[0] = A /\ \A n \in 1 .. N : k[n] = Then(k[n - 1])
  <2> HIDE DEF N, A, Then
  <2> QED BY <1>1, <1>4
<1> QED BY <1>5, <1>6, Zenon DEF BackFrom

LEMMA AncestorsIs ==
    ASSUME NEW h \in Hash
    PROVE  \E g : /\ Ancestors(h) = g[Cardinality(Hash)] /\ g[0] = Deps(h)
                  /\ \A n \in 1 .. Cardinality(Hash) : g[n] = g[n - 1] \cup UNION {Deps(b) : b \in g[n - 1]}
<1> DEFINE N == Cardinality(Hash)
           Then(S) == S \cup UNION {Deps(b) : b \in S}
           F == [S \in SUBSET Hash |-> Then(S)]
           Is(g) == g = [n \in 0 .. N |-> IF n = 0 THEN Deps(h) ELSE Then(g[n - 1])]
<1>1. N \in Nat /\ Deps(h) \in SUBSET Hash /\ F \in [SUBSET Hash -> SUBSET Hash]
  BY HashCount, DepsType, Zenon
<1>2. PICK g \in [0 .. N -> SUBSET Hash] : g[0] = Deps(h) /\ \A n \in 1 .. N : g[n] = F[g[n - 1]]
  <2> DEFINE T == SUBSET Hash
             A == Deps(h)
  <2>1. N \in Nat /\ A \in T /\ \A s \in T : F[s] \in T
    BY <1>1, Zenon
  <2> HIDE DEF N, F, T, A
  <2>2. \E g : Iterates(g, T, A, F, N)
    BY <2>1, Iteration, Zenon
  <2> QED BY <2>2, Zenon DEF Iterates, T, A
<1>3. Is(g)
  <2> HIDE DEF N, Then
  <2>1. ASSUME NEW n \in 0 .. N, n # 0 PROVE n \in 1 .. N /\ n - 1 \in 0 .. N
    BY <1>1, <2>1
  <2>2. \A n \in 0 .. N : n # 0 => g[n] = Then(g[n - 1])
    BY <1>2, <2>1, Zenon
  <2>3. \A n \in 0 .. N : g[n] = IF n = 0 THEN Deps(h) ELSE Then(g[n - 1])
    BY <1>2, <2>2, Zenon
  <2> QED BY <2>3, Zenon
<1> DEFINE k == CHOOSE f : Is(f)
<1>4. Is(k)
  BY <1>3, Zenon
<1>5. Ancestors(h) = k[N]
  BY Zenon DEF Ancestors
<1> HIDE DEF k
<1>6. k[0] = Deps(h) /\ \A n \in 1 .. N : k[n] = Then(k[n - 1])
  <2> HIDE DEF N, Then
  <2> QED BY <1>1, <1>4
<1> QED BY <1>5, <1>6, Zenon

\* confirm_back reaches ancestors whose elections know no rival.
LEMMA BackIsAncestor ==
    ASSUME NEW es, NEW h \in Hash
    PROVE  ConfirmBack(es, h) \subseteq Ancestors(h) /\ \A d \in ConfirmBack(es, h) : BackEligible(es, d)
<1> DEFINE N == Cardinality(Hash)
<1> HIDE DEF N
<1>1. PICK g : /\ ConfirmBack(es, h) = g[N] /\ g[0] = {d \in Deps(h) : BackEligible(es, d)}
               /\ \A n \in 1 .. N :
                     g[n] = g[n - 1] \cup {d \in UNION {Deps(b) : b \in g[n - 1]} : BackEligible(es, d)}
  <2>1. PICK g : ConfirmBack(es, h) = g[N] /\ BackFrom(g, es, h)
    BY ConfirmBackIs, Zenon DEF N
  <2> QED BY <2>1, Zenon DEF BackFrom, N
<1>2. PICK k : /\ Ancestors(h) = k[N] /\ k[0] = Deps(h)
               /\ \A n \in 1 .. N : k[n] = k[n - 1] \cup UNION {Deps(b) : b \in k[n - 1]}
  BY AncestorsIs, Zenon DEF N
<1> DEFINE P == {n \in Nat : n <= N => g[n] \subseteq k[n] /\ \A d \in g[n] : BackEligible(es, d)}
<1>3. N \in Nat
  BY HashCount, Zenon DEF N
<1>4. 0 \in P
  BY <1>1, <1>2, Zenon
<1>5. ASSUME NEW n \in Nat, n \in P PROVE n + 1 \in P
  <2>0. n + 1 \in Nat
    OBVIOUS
  <2> SUFFICES ASSUME n + 1 <= N
               PROVE  g[n + 1] \subseteq k[n + 1] /\ \A d \in g[n + 1] : BackEligible(es, d)
    BY <2>0, Zenon
  <2>1. n + 1 \in 1 .. N /\ (n + 1) - 1 = n /\ n <= N
    BY <1>3
  <2>2. g[n] \subseteq k[n] /\ \A d \in g[n] : BackEligible(es, d)
    BY <1>5, <2>1, Zenon
  <2>3. /\ g[n + 1] = g[n] \cup {d \in UNION {Deps(b) : b \in g[n]} : BackEligible(es, d)}
        /\ k[n + 1] = k[n] \cup UNION {Deps(b) : b \in k[n]}
    BY <1>1, <1>2, <2>1, Zenon
  <2> QED BY <2>2, <2>3, Zenon
<1> HIDE DEF P
<1>6. N \in P
  BY <1>3, <1>4, <1>5, NatSetInduction, Zenon
<1>7. N <= N
  BY <1>3
<1> QED BY <1>1, <1>2, <1>6, <1>7, Zenon DEF P

\* A rollback removes at least the blocks it is asked to remove.
LEMMA DependentsInclude ==
    ASSUME NEW S \in SUBSET Hash, stored \subseteq Hash PROVE S \subseteq Dependents(S)
<1> DEFINE N == Cardinality(Hash)
           Then(U) == U \cup {b \in stored : Deps(b) \cap U # {}}
           F == [U \in SUBSET Hash |-> Then(U)]
           Is(g) == g = [n \in 0 .. N |-> IF n = 0 THEN S ELSE Then(g[n - 1])]
<1>1. N \in Nat /\ F \in [SUBSET Hash -> SUBSET Hash]
  BY HashCount, Zenon
<1>2. PICK g \in [0 .. N -> SUBSET Hash] : g[0] = S /\ \A n \in 1 .. N : g[n] = F[g[n - 1]]
  <2> DEFINE T == SUBSET Hash
             A == S
  <2>1. N \in Nat /\ A \in T /\ \A s \in T : F[s] \in T
    BY <1>1, Zenon
  <2> HIDE DEF N, F, T, A
  <2>2. \E g : Iterates(g, T, A, F, N)
    BY <2>1, Iteration, Zenon
  <2> QED BY <2>2, Zenon DEF Iterates, T, A
<1>3. Is(g)
  <2> HIDE DEF N, Then
  <2>1. ASSUME NEW n \in 0 .. N, n # 0 PROVE n \in 1 .. N /\ n - 1 \in 0 .. N
    BY <1>1, <2>1
  <2>2. \A n \in 0 .. N : n # 0 => g[n] = Then(g[n - 1])
    BY <1>2, <2>1, Zenon
  <2>3. \A n \in 0 .. N : g[n] = IF n = 0 THEN S ELSE Then(g[n - 1])
    BY <1>2, <2>2, Zenon
  <2> QED BY <2>3, Zenon
<1> DEFINE k == CHOOSE f : Is(f)
<1>4. Is(k)
  BY <1>3, Zenon
<1>5. Dependents(S) = k[N]
  BY Zenon DEF Dependents
<1> HIDE DEF k
<1>6. k[0] = S /\ \A n \in 1 .. N : k[n] = Then(k[n - 1])
  <2> HIDE DEF N, Then
  <2> QED BY <1>1, <1>4
<1> DEFINE P == {n \in Nat : n <= N => S \subseteq k[n]}
<1> HIDE DEF N
<1>7. 0 \in P
  BY <1>6, Zenon
<1>8. ASSUME NEW n \in Nat, n \in P PROVE n + 1 \in P
  <2>0. n + 1 \in Nat
    OBVIOUS
  <2> SUFFICES ASSUME n + 1 <= N PROVE S \subseteq k[n + 1]
    BY <2>0, Zenon
  <2>1. n + 1 \in 1 .. N /\ (n + 1) - 1 = n /\ n <= N
    BY <1>1
  <2>2. k[n + 1] = Then(k[n])
    <3> HIDE DEF Then
    <3> QED BY <1>6, <2>1, Zenon
  <2> QED BY <1>8, <2>1, <2>2, Zenon
<1> HIDE DEF P
<1>9. N \in P /\ N <= N
  BY <1>1, <1>7, <1>8, NatSetInduction
<1> QED BY <1>5, <1>9, Zenon DEF P

-----------------------------------------------------------------------------
(* The steps of a single election                                           *)

\* Votes, blocks and winner as they were: still sound, whatever else changed.
LEMMA SoundKept ==
    ASSUME NEW e, NEW f, SameTally(e, f), f.winner = e.winner, f.root = e.root,
           f.calls = (IF f.confirmed THEN 1 ELSE 0), e.confirmed => f.confirmed, ElectionSound(e)
    PROVE  ElectionSound(f)
<1>1. Tally(f) = Tally(e) /\ Leaders(f) = Leaders(e)
  BY SameTallies, Zenon
<1> QED BY <1>1, Zenon DEF ElectionSound, SameTally

LEMMA NewSound ==
    ASSUME NEW h \in Hash, NEW n \in 0 .. AnnouncementCap, NEW e,
           (e = NewElection(h) /\ n = 0) \/ e = [NewElection(h) EXCEPT !.announcements = n]
    PROVE  /\ e \in Election /\ ElectionSound(e) /\ e.root = Root[h] /\ e.blocks = {h}
           /\ ~e.confirmed /\ ~e.stopped
<1>0. e = [root |-> Root[h], first |-> h, blocks |-> {h}, last_votes |-> <<>>, winner |-> h,
           confirmed |-> FALSE, stopped |-> FALSE, announcements |-> n,
           last_tally |-> [b \in Hash |-> 0], calls |-> 0]
  <2>1. CASE e = NewElection(h) /\ n = 0
    BY <2>1, Zenon DEF NewElection
  <2>2. CASE e = [NewElection(h) EXCEPT !.announcements = n]
    BY <2>2 DEF NewElection
  <2> QED BY <2>1, <2>2, Zenon
<1>1. /\ e.root = Root[h] /\ e.blocks = {h} /\ e.first = h /\ e.winner = h /\ e.last_votes = <<>>
      /\ e.confirmed = FALSE /\ e.stopped = FALSE /\ e.calls = 0
  BY <1>0
<1>2. e \in Election
  <2>1. <<>> \in [{} -> Vote]
    OBVIOUS
  <2>2. <<>> \in UNION {[R -> Vote] : R \in SUBSET Rep}
    BY <2>1, Zenon
  <2>3. Root[h] \in Range(Root)
    BY LinkAssumption, Zenon DEF Range
  <2>4. [b \in Hash |-> 0] \in [Hash -> Nat]
    OBVIOUS
  <2> DEFINE V == UNION {[R -> Vote] : R \in SUBSET Rep}
             T == [Hash -> Nat]
  <2> HIDE DEF V, T
  <2>6. <<>> \in V /\ [b \in Hash |-> 0] \in T
    BY <2>2, <2>4, Zenon DEF V, T
  <2>7. Election = [root : Range(Root), first : Hash, blocks : SUBSET Hash, last_votes : V,
                    winner : Hash, confirmed : BOOLEAN, stopped : BOOLEAN, announcements : 0 .. AnnouncementCap,
                    last_tally : T, calls : Nat]
    BY Zenon DEF Election, V, T
  <2> DEFINE zero == [b \in Hash |-> 0]
             R == Range(Root)
             C == 0 .. AnnouncementCap
  <2> HIDE DEF zero, R, C
  <2>8. /\ Root[h] \in R /\ h \in Hash /\ {h} \in SUBSET Hash /\ <<>> \in V /\ zero \in T /\ n \in C
        /\ FALSE \in BOOLEAN
    BY <2>3, <2>6, Zenon DEF R, C, zero
  <2>9. 0 \in Nat
    OBVIOUS
  <2>10. [root |-> Root[h], first |-> h, blocks |-> {h}, last_votes |-> <<>>, winner |-> h,
          confirmed |-> FALSE, stopped |-> FALSE, announcements |-> n, last_tally |-> zero, calls |-> 0]
         \in [root : R, first : Hash, blocks : SUBSET Hash, last_votes : V, winner : Hash, confirmed : BOOLEAN,
              stopped : BOOLEAN, announcements : C, last_tally : T, calls : Nat]
    BY <2>8, <2>9, Zenon
  <2> QED BY <1>0, <2>7, <2>10, Zenon DEF R, C, zero
<1>3. Counted(e) = {h}
  <2>1. DOMAIN e.last_votes = {}
    BY <1>1
  <2>2. Voted(e) = {h}
    BY <1>1, <2>1, Zenon DEF Voted
  <2> QED BY <1>1, <2>2, Zenon DEF Counted
<1>4. h \in Leaders(e)
  <2>1. h \in Counted(e)
    BY <1>3, Zenon
  <2>2. Max(Tally(e)) \in Tally(e)
    BY <1>2, <2>1, TallyFacts, Zenon
  <2>3. \A w \in Tally(e) : w = BlockWeights(e)[h]
    BY <1>3, Zenon DEF Tally
  <2> QED BY <2>1, <2>2, <2>3, Zenon DEF Leaders
<1>5. ElectionSound(e)
  <2>1. e.calls = (IF e.confirmed THEN 1 ELSE 0)
    BY <1>1
  <2>2. e.winner \in e.blocks /\ (\A b \in e.blocks : Root[b] = e.root) /\ e.winner \in Leaders(e)
    BY <1>1, <1>4, Zenon
  <2> QED BY <2>1, <2>2, Zenon DEF ElectionSound
<1> QED BY <1>1, <1>2, <1>5, Zenon

LEMMA AnnouncedSound ==
    ASSUME NEW e \in Election, ElectionSound(e), NEW f, f = Announced(e)
    PROVE  /\ f \in Election /\ ElectionSound(f) /\ f.root = e.root /\ f.blocks = e.blocks /\ f.winner = e.winner
           /\ f.confirmed = e.confirmed /\ (e.stopped => f.stopped)
           /\ Finished(e) => f.stopped = e.stopped
<1> DEFINE n == IF e.announcements = AnnouncementCap THEN AnnouncementLong + 1 ELSE e.announcements + 1
           s == \/ e.stopped
                \/ /\ ~Finished(e) /\ ~Fits(e.winner)
                   /\ e.announcements # 0
                   /\ \/ e.announcements < AnnouncementLong
                      \/ e.announcements % AnnouncementLong = 1
<1>0. AnnouncementLong \in Nat \ {0, 1} /\ e.announcements \in 0 .. AnnouncementCap
  BY LimitAssumption DEF Election
<1>1. n \in 0 .. AnnouncementCap
  BY <1>0 DEF AnnouncementCap
<1>2. s \in BOOLEAN /\ (e.stopped => s) /\ (Finished(e) /\ e.stopped \in BOOLEAN => s = e.stopped)
  BY Zenon
<1>3. f = [e EXCEPT !.announcements = n, !.stopped = s]
  BY Zenon DEF Announced
<1> HIDE DEF n, s
<1>4. /\ f.root = e.root /\ f.blocks = e.blocks /\ f.confirmed = e.confirmed /\ f.stopped = s /\ f.first = e.first
      /\ f.last_votes = e.last_votes /\ f.winner = e.winner /\ f.calls = e.calls
      /\ f \in Election /\ e.stopped \in BOOLEAN
  BY <1>1, <1>2, <1>3 DEF Election
<1>5. ElectionSound(f)
  <2>1. SameTally(e, f)
    BY <1>4, Zenon DEF SameTally
  <2>2. f.calls = (IF f.confirmed THEN 1 ELSE 0)
    BY <1>4, Zenon DEF ElectionSound
  <2> QED BY <1>4, <2>1, <2>2, SoundKept, Zenon
<1> QED BY <1>2, <1>4, <1>5, Zenon

-----------------------------------------------------------------------------
(* election::vote and election::publish, with confirm_if_quorum             *)

\* The same elections, none of which loses a block or a confirmation
ElectionsGo ==
    /\ DOMAIN election' = DOMAIN election
    /\ \A k \in DOMAIN election :
          /\ election'[k] \in Election /\ ElectionSound(election'[k])
          /\ election'[k].root = election[k].root /\ election'[k].stopped = election[k].stopped
          /\ election[k].blocks \subseteq election'[k].blocks
          /\ election[k].confirmed => election'[k].confirmed
          /\ election[k].confirmed /\ election'[k].blocks = election[k].blocks => election'[k].winner = election[k].winner

\* What is told to the block processor and to process_confirmed
Outgoing ==
    /\ forced \in Seq(Hash) /\ Len(forced) <= ForcedMax
    /\ background \subseteq [hash : Hash, iteration : 0 .. RetryLimit, found : BOOLEAN]

\* Election i, as e, is the only one whose blocks change.
Became(i, e) ==
    /\ ElectionsGo /\ Outgoing' /\ ConfirmedWithQuorum
    /\ \A k \in DOMAIN election : election'[k].blocks = IF k = i THEN e.blocks ELSE election[k].blocks

LEMMA ElectionFacts ==
    ASSUME ElectionsInv
    PROVE  /\ \A k \in DOMAIN election : election[k] \in Election /\ ElectionSound(election[k])
           /\ \A h \in DOMAIN blocks : blocks[h] \in DOMAIN election
           /\ \A r \in DOMAIN roots : roots[r] \in DOMAIN election
           /\ Outgoing
  BY Zenon DEF ElectionsInv, ETypeOK, Range, Outgoing

\* confirm_if_quorum
LEMMA QuorumStep ==
    ASSUME ElectionsInv, NEW i \in DOMAIN election, NEW e \in Election,
           e.root = election[i].root, e.stopped = election[i].stopped, e.confirmed = election[i].confirmed,
           e.calls = election[i].calls, election[i].blocks \subseteq e.blocks, e.winner \in e.blocks,
           e.confirmed => e.blocks # election[i].blocks,
           \A h \in e.blocks : Root[h] = e.root, ConfirmIfQuorum(i, e)
    PROVE  Became(i, e)
<1>0. /\ \A k \in DOMAIN election : election[k] \in Election /\ ElectionSound(election[k])
      /\ \A h \in DOMAIN blocks : blocks[h] \in DOMAIN election
      /\ Outgoing
  BY ElectionFacts, Zenon
<1> DEFINE Switch(l) == SumSet(Tally(e)) >= MinimumWeight /\ l # e.winner
           Winner(l) == IF Switch(l) THEN l ELSE e.winner
           E(l) == [e EXCEPT !.winner = Winner(l), !.last_tally = BlockWeights(e)]
           Es(l) == Put(election, i, E(l))
           Now(l) == [Es(l) EXCEPT ![i].confirmed = TRUE]
           Ids(l) == IF ~have_quorum(e) THEN {}
                     ELSE {i} \cup (IF e.confirmed THEN {} ELSE {blocks[h] : h \in ConfirmBack(Now(l), Winner(l))})
<1>1. PICK leader \in Leaders(e) :
        /\ Switch(leader) => Len(forced) < ForcedMax
        /\ forced' = IF Switch(leader) THEN Append(forced, leader) ELSE forced
        /\ ConfirmOnce(Es(leader), Ids(leader))
  BY Zenon DEF ConfirmIfQuorum
<1> DEFINE switch == Switch(leader)
           winner == Winner(leader)
           f == E(leader)
           es == Es(leader)
           now == Now(leader)
           ids == Ids(leader)
<1>2. leader \in e.blocks /\ leader \in Hash
  <2>1. leader \in e.blocks
    BY Zenon DEF Leaders, Counted
  <2> QED BY <2>1 DEF Election
<1>3. /\ winner \in e.blocks /\ winner \in Hash /\ winner \in {leader, e.winner}
      /\ SumSet(Tally(e)) >= MinimumWeight => winner = leader
  <2>1. e.winner \in Hash
    BY DEF Election
  <2> QED BY <1>2, <2>1, Zenon
<1> HIDE DEF Switch, Winner
<1>4. /\ f \in Election /\ f.winner = winner /\ SameTally(e, f) /\ f.root = e.root /\ f.blocks = e.blocks
      /\ f.confirmed = e.confirmed /\ f.stopped = e.stopped /\ f.calls = e.calls
  <2>1. BlockWeights(e) \in [Hash -> Nat]
    BY BlockWeightsType, Zenon
  <2> DEFINE V == UNION {[R -> Vote] : R \in SUBSET Rep}
             T == [Hash -> Nat]
             w == BlockWeights(e)
  <2>2. Election = [root : Range(Root), first : Hash, blocks : SUBSET Hash, last_votes : V,
                    winner : Hash, confirmed : BOOLEAN, stopped : BOOLEAN, announcements : 0 .. AnnouncementCap,
                    last_tally : T, calls : Nat]
    BY Zenon DEF Election
  <2>3. f = [e EXCEPT !.winner = winner, !.last_tally = w] /\ w \in T /\ winner \in Hash
    BY <1>3, <2>1, Zenon
  <2> HIDE DEF winner, f, w, V, T
  <2>4. /\ f \in Election /\ f.winner = winner /\ f.root = e.root /\ f.blocks = e.blocks /\ f.first = e.first
        /\ f.last_votes = e.last_votes
        /\ f.confirmed = e.confirmed /\ f.stopped = e.stopped /\ f.calls = e.calls
    BY <2>2, <2>3
  <2> QED BY <2>4, Zenon DEF SameTally
<1>5. ElectionSound(f)
  <2>1. Tally(f) = Tally(e) /\ Leaders(f) = Leaders(e)
    BY <1>4, SameTallies, Zenon
  <2>2. f.calls = (IF f.confirmed THEN 1 ELSE 0)
    BY <1>0, <1>4, Zenon DEF ElectionSound
  <2>3. f.winner \in f.blocks /\ \A h \in f.blocks : Root[h] = f.root
    BY <1>3, <1>4, Zenon
  <2>4. SumSet(Tally(f)) >= MinimumWeight => f.winner \in Leaders(f)
    BY <1>1, <1>3, <1>4, <2>1, Zenon
  <2> QED BY <2>2, <2>3, <2>4, Zenon DEF ElectionSound
<1>6. DOMAIN es = DOMAIN election /\ es[i] = f /\ \A k \in DOMAIN election \ {i} : es[k] = election[k]
  <2> HIDE DEF E
  <2> QED BY DEF Put
<1>7. \A k \in DOMAIN election :
        /\ es[k] \in Election /\ ElectionSound(es[k]) /\ es[k].root = election[k].root
        /\ es[k].stopped = election[k].stopped /\ es[k].confirmed = election[k].confirmed
        /\ es[k].blocks = IF k = i THEN e.blocks ELSE election[k].blocks
  <2> HIDE DEF f, es
  <2> QED BY <1>0, <1>4, <1>5, <1>6, Zenon
<1>8. /\ election' = [k \in DOMAIN es |->
                        IF k \in ids /\ ~es[k].confirmed
                        THEN [es[k] EXCEPT !.confirmed = TRUE, !.calls = @ + 1] ELSE es[k]]
      /\ background' = background \cup
            {[hash |-> es[k].winner, iteration |-> 0, found |-> FALSE] :
               k \in {j \in ids : ~es[j].confirmed /\ es[j].winner \in Watched}}
  BY <1>1, Zenon DEF ConfirmOnce
<1> HIDE DEF es, f, now, E, Es
<1>9. ids \subseteq DOMAIN election
  <2>1. \A h \in ConfirmBack(now, winner) : blocks[h] \in DOMAIN election
    BY <1>0, <1>3, BackIsAncestor, Zenon DEF BackEligible
  <2> QED BY <2>1, Zenon DEF now, winner
<1>10. ASSUME NEW k \in DOMAIN election
       PROVE  /\ election'[k] \in Election /\ ElectionSound(election'[k]) /\ election'[k].root = election[k].root
              /\ election'[k].stopped = election[k].stopped
              /\ election'[k].blocks = IF k = i THEN e.blocks ELSE election[k].blocks
              /\ election[k].confirmed => election'[k].confirmed
              /\ SameTally(es[k], election'[k]) /\ election'[k].winner = es[k].winner
              /\ election'[k].confirmed <=> es[k].confirmed \/ k \in ids
  <2>1. CASE k \in ids /\ ~es[k].confirmed
    <3> DEFINE g == [es[k] EXCEPT !.confirmed = TRUE, !.calls = @ + 1]
    <3>0. election'[k] = g
      BY <1>6, <1>8, <2>1, Zenon
    <3>1. es[k] \in Election /\ es[k].calls = 0
      BY <1>7, <2>1, Zenon DEF ElectionSound
    <3>2. /\ g \in Election /\ g.confirmed = TRUE /\ g.calls = 1 /\ SameTally(es[k], g)
          /\ g.winner = es[k].winner /\ g.root = es[k].root /\ g.stopped = es[k].stopped /\ g.blocks = es[k].blocks
      <4> DEFINE V == UNION {[R -> Vote] : R \in SUBSET Rep}
                 T == [Hash -> Nat]
                 x == es[k]
      <4>1. Election = [root : Range(Root), first : Hash, blocks : SUBSET Hash, last_votes : V,
                        winner : Hash, confirmed : BOOLEAN, stopped : BOOLEAN, announcements : 0 .. AnnouncementCap,
                        last_tally : T, calls : Nat]
        BY Zenon DEF Election
      <4>2. g = [x EXCEPT !.confirmed = TRUE, !.calls = 1] /\ x \in Election
        <5>1. x.calls + 1 = 1 /\ x \in Election
          BY <3>1
        <5> QED BY <5>1, Zenon
      <4> HIDE DEF g, x, V, T
      <4>3. /\ g \in Election /\ g.confirmed = TRUE /\ g.calls = 1 /\ g.first = x.first /\ g.last_votes = x.last_votes
            /\ g.winner = x.winner /\ g.root = x.root /\ g.stopped = x.stopped /\ g.blocks = x.blocks
        BY <4>1, <4>2
      <4> QED BY <4>3, Zenon DEF SameTally, x
    <3> HIDE DEF g
    <3>3. ElectionSound(g)
      BY <1>7, <3>2, SoundKept, Zenon
    <3> QED BY <1>7, <2>1, <3>0, <3>2, <3>3, Zenon
  <2>2. CASE ~(k \in ids /\ ~es[k].confirmed)
    <3>1. election'[k] = es[k]
      BY <1>6, <1>8, <2>2, Zenon
    <3> QED BY <1>7, <2>2, <3>1, Zenon DEF SameTally
  <2> QED BY <2>1, <2>2, Zenon
<1>11. ElectionsGo
  <2>1. DOMAIN election' = DOMAIN election
    BY <1>6, <1>8, Zenon
  <2>2. ASSUME NEW k \in DOMAIN election, election[k].confirmed, election'[k].blocks = election[k].blocks
        PROVE  election'[k].winner = election[k].winner
    <3>1. k # i
      BY <1>10, <2>2, Zenon
    <3> QED BY <1>6, <1>10, <3>1, Zenon
  <2> QED BY <1>10, <2>1, <2>2, Zenon DEF ElectionsGo
<1>12. Outgoing'
  <2>1. forced' \in Seq(Hash) /\ Len(forced') <= ForcedMax
    <3>1. forced \in Seq(Hash) /\ Len(forced) <= ForcedMax /\ ForcedMax \in Nat
      BY <1>0, LimitAssumption DEF Outgoing
    <3>2. CASE switch
      BY <1>1, <1>2, <3>1, <3>2
    <3>3. CASE ~switch
      BY <1>1, <3>1, <3>3
    <3> QED BY <3>2, <3>3, Zenon
  <2>2. background' \subseteq [hash : Hash, iteration : 0 .. RetryLimit, found : BOOLEAN]
    <3>1. \A k \in ids : es[k].winner \in Hash
      <4>1. \A k \in ids : es[k] \in Election
        BY <1>7, <1>9, Zenon
      <4> HIDE DEF ids
      <4> QED BY <4>1 DEF Election
    <3>2. 0 \in 0 .. RetryLimit
      BY LimitAssumption
    <3> HIDE DEF ids
    <3>3. \A k \in ids : [hash |-> es[k].winner, iteration |-> 0, found |-> FALSE] \in
                          [hash : Hash, iteration : 0 .. RetryLimit, found : BOOLEAN]
      BY <3>1, <3>2
    <3>4. background \subseteq [hash : Hash, iteration : 0 .. RetryLimit, found : BOOLEAN]
      BY <1>0, Zenon DEF Outgoing
    <3> QED BY <1>8, <3>3, <3>4, Zenon
  <2> QED BY <2>1, <2>2, Zenon DEF Outgoing
<1>13. ConfirmedWithQuorum
  <2> SUFFICES ASSUME NEW k \in NowConfirmed
               PROVE  \/ QuorumWinner(election'[k])
                      \/ /\ election'[k].blocks = {election'[k].winner} /\ ~election'[k].stopped
                         /\ \E j \in NowConfirmed : /\ QuorumWinner(election'[j])
                                                    /\ election'[k].winner \in Ancestors(election'[j].winner)
    BY Zenon DEF ConfirmedWithQuorum
  <2>1. k \in DOMAIN election /\ ~election[k].confirmed /\ election'[k].confirmed /\ k \in ids
    <3>1. k \in DOMAIN election /\ ~election[k].confirmed /\ election'[k].confirmed
      BY Zenon DEF NowConfirmed
    <3> QED BY <1>7, <1>10, <3>1, Zenon
  <2>2. have_quorum(e)
    BY <2>1, Zenon
  <2>3. /\ SumSet(Tally(e)) >= MinimumWeight /\ BlockWeights(e)[leader] > Delta
        /\ \A h \in e.blocks : BlockWeights(e)[h] <= BlockWeights(e)[leader]
    BY <2>2, QuorumOfLeader, Zenon
  <2>4. winner = leader
    BY <1>3, <2>3, Zenon
  <2>5. QuorumWinner(election'[i]) /\ election'[i].winner = winner
    <3>1. SameTally(f, election'[i]) /\ election'[i].winner = winner /\ SameTally(e, f)
      BY <1>4, <1>6, <1>10, Zenon
    <3>2. BlockWeights(election'[i]) = BlockWeights(e) /\ election'[i].blocks = e.blocks
      BY <3>1, SameTallies, Zenon DEF SameTally
    <3> QED BY <2>3, <2>4, <3>1, <3>2, Zenon DEF QuorumWinner
  <2>6. CASE k # i
    <3>1. ~e.confirmed /\ k \in {blocks[h] : h \in ConfirmBack(now, winner)}
      BY <2>1, <2>6, Zenon DEF now, winner
    <3>2. PICK h \in ConfirmBack(now, winner) : k = blocks[h]
      BY <3>1, Zenon
    <3>3. BackEligible(now, h) /\ h \in Ancestors(winner)
      BY <1>3, <3>2, BackIsAncestor, Zenon
    <3>4. now[k] = es[k]
      BY <1>6, <2>1, <2>6 DEF now, es, Now
    <3>5. ~es[k].stopped /\ es[k].blocks = {h}
      BY <3>2, <3>3, <3>4, Zenon DEF BackEligible
    <3>6. es[k].winner = h
      BY <1>7, <2>1, <3>5, Zenon DEF ElectionSound
    <3>7. election'[k].winner = h /\ election'[k].blocks = {h} /\ ~election'[k].stopped
      BY <1>7, <1>10, <2>1, <3>5, <3>6, Zenon DEF SameTally
    <3>8. i \in NowConfirmed
      <4>1. ~election[i].confirmed /\ i \in ids
        BY <2>2, <3>1, Zenon
      <4> QED BY <1>10, <1>11, <4>1, Zenon DEF NowConfirmed, ElectionsGo
    <3> QED BY <2>5, <3>3, <3>7, <3>8, Zenon
  <2> QED BY <2>5, <2>6, Zenon
<1> QED BY <1>10, <1>11, <1>12, <1>13, Zenon DEF Became

\* No step but confirm_if_quorum confirms anything.
LEMMA NoneConfirmed ==
    ASSUME \A k \in DOMAIN election \cap DOMAIN election' : election'[k].confirmed => election[k].confirmed
    PROVE  ConfirmedWithQuorum
<1>1. NowConfirmed = {}
  BY Zenon DEF NowConfirmed
<1> QED BY <1>1, Zenon DEF ConfirmedWithQuorum

LEMMA NothingBecame ==
    ASSUME ElectionsInv, UNCHANGED <<election, forced, background>>
    PROVE  ElectionsGo /\ Outgoing' /\ ConfirmedWithQuorum /\ \A k \in DOMAIN election : election'[k].blocks = election[k].blocks
<1>0. election' = election /\ forced' = forced /\ background' = background
  BY Zenon
<1>1. \A k \in DOMAIN election : election[k] \in Election /\ ElectionSound(election[k])
  BY ElectionFacts, Zenon
<1>2. Outgoing
  BY ElectionFacts, Zenon
<1>3. ConfirmedWithQuorum
  BY <1>0, NoneConfirmed, Zenon
<1> QED BY <1>0, <1>1, <1>2, <1>3, Zenon DEF ElectionsGo, Outgoing

\* election::vote
LEMMA VoteStep ==
    ASSUME ElectionsInv, NEW i \in DOMAIN election, NEW rep \in Rep, NEW sequence \in {v.sequence : v \in Ballot},
           NEW hash \in Hash, ElectionVote(i, rep, sequence, hash)
    PROVE  ElectionsGo /\ Outgoing' /\ ConfirmedWithQuorum /\ \A k \in DOMAIN election : election'[k].blocks = election[k].blocks
<1> DEFINE e == election[i]
           new == [e EXCEPT !.last_votes = Put(@, rep, [sequence |-> sequence, hash |-> hash])]
<1>0. e \in Election /\ ElectionSound(e)
  BY ElectionFacts, Zenon
<1>1. /\ new \in Election /\ new.root = e.root /\ new.stopped = e.stopped /\ new.confirmed = e.confirmed
      /\ new.calls = e.calls /\ new.blocks = e.blocks /\ new.winner = e.winner
  <2> DEFINE votes == Put(e.last_votes, rep, [sequence |-> sequence, hash |-> hash])
             V == UNION {[R -> Vote] : R \in SUBSET Rep}
  <2>1. PICK R \in SUBSET Rep : e.last_votes \in [R -> Vote]
    BY <1>0 DEF Election
  <2>2. [sequence |-> sequence, hash |-> hash] \in Vote
    BY DEF Vote
  <2>3. votes \in [R \cup {rep} -> Vote] /\ R \cup {rep} \in SUBSET Rep
    <3> DEFINE v == [sequence |-> sequence, hash |-> hash]
    <3> HIDE DEF v
    <3>1. v \in Vote
      BY <2>2, Zenon DEF v
    <3> QED BY <2>1, <3>1 DEF Put, v
  <2>4. votes \in V
    BY <2>3, Zenon
  <2>5. new = [e EXCEPT !.last_votes = votes]
    BY Zenon
  <2> HIDE DEF votes, V, new, e
  <2>6. Election = [root : Range(Root), first : Hash, blocks : SUBSET Hash, last_votes : V,
                    winner : Hash, confirmed : BOOLEAN, stopped : BOOLEAN, announcements : 0 .. AnnouncementCap,
                    last_tally : [Hash -> Nat], calls : Nat]
    BY Zenon DEF Election, V
  <2> QED BY <1>0, <2>4, <2>5, <2>6
<1> HIDE DEF new
<1>2. CASE UNCHANGED <<election, forced, background>>
  BY <1>2, NothingBecame, Zenon
<1>3. CASE e.confirmed /\ election' = Put(election, i, new) /\ UNCHANGED <<forced, background>>
  <2>1. DOMAIN election' = DOMAIN election /\ election'[i] = new /\ \A k \in DOMAIN election \ {i} : election'[k] = election[k]
    BY <1>3 DEF Put
  <2>2. ElectionSound(new)
    BY <1>0, <1>1, <1>3, Zenon DEF ElectionSound
  <2>3. \A k \in DOMAIN election : election[k] \in Election /\ ElectionSound(election[k])
    BY ElectionFacts, Zenon
  <2>4. ElectionsGo /\ \A k \in DOMAIN election : election'[k].blocks = election[k].blocks
    BY <1>1, <2>1, <2>2, <2>3, Zenon DEF ElectionsGo
  <2>5. Outgoing'
    <3>1. Outgoing /\ forced' = forced /\ background' = background
      BY <1>3, ElectionFacts, Zenon
    <3> QED BY <3>1, Zenon DEF Outgoing
  <2>6. ConfirmedWithQuorum
    BY <1>1, <1>3, <2>1, NoneConfirmed, Zenon
  <2> QED BY <2>4, <2>5, <2>6, Zenon
<1>4. CASE ~e.confirmed /\ ConfirmIfQuorum(i, new)
  <2>1. e.winner \in e.blocks /\ \A h \in e.blocks : Root[h] = e.root
    BY <1>0, Zenon DEF ElectionSound
  <2>2. Became(i, new)
    BY <1>1, <1>4, <2>1, QuorumStep, Zenon
  <2> QED BY <1>1, <2>2, Zenon DEF Became
<1>5. \/ UNCHANGED <<election, forced, background>>
      \/ e.confirmed /\ election' = Put(election, i, new) /\ UNCHANGED <<forced, background>>
      \/ ~e.confirmed /\ ConfirmIfQuorum(i, new)
  BY SMT DEF ElectionVote, new
<1> QED BY <1>2, <1>3, <1>4, <1>5, Zenon

-----------------------------------------------------------------------------
(* The inductive invariant in parts                                         *)

EMaps ==
    /\ DOMAIN roots \subseteq Range(Root) /\ \A r \in DOMAIN roots : roots[r] \in DOMAIN election
    /\ DOMAIN blocks \subseteq Hash /\ \A h \in DOMAIN blocks : blocks[h] \in DOMAIN election
    /\ DOMAIN election \subseteq Id
    /\ \A k \in DOMAIN election : election[k] \in Election /\ ElectionSound(election[k])

IndexInv ==
    /\ EMaps /\ IndexSound
    /\ ~erased => IndexConsistent /\ RootsStay /\ InactiveFinished

LoopInv ==
    /\ confirmed \subseteq Hash /\ inactive \subseteq Range(Root) /\ {stopped, erased} \subseteq BOOLEAN
    /\ loop \in {"scan", "prune", "exit"} /\ stopper \in {"none", "join", "done"}
    /\ loop # "prune" => inactive = {}
    /\ stopper = "done" => loop = "exit"

VotingInv ==
    \/ voting = NoVote
    \/ \E v \in Ballot : /\ voting.rep = v.rep /\ voting.sequence = v.sequence
                         /\ voting.items \in Seq([hash : Hash, whole : BOOLEAN]) \ {<<>>}

StoredInv == stored \subseteq Hash /\ NoRivals

LEMMA ElectionsInvIs ==
    ElectionsInv <=> IndexInv /\ LoopInv /\ VotingInv /\ Outgoing /\ StoredInv
<1>1. (Range(roots) \subseteq DOMAIN election) <=> \A r \in DOMAIN roots : roots[r] \in DOMAIN election
  BY Zenon DEF Range
<1>2. (Range(blocks) \subseteq DOMAIN election) <=> \A h \in DOMAIN blocks : blocks[h] \in DOMAIN election
  BY Zenon DEF Range
<1>3. (Range(election) \subseteq Election) <=> \A k \in DOMAIN election : election[k] \in Election
  BY Zenon DEF Range
<1>4. ETypeOK <=> /\ DOMAIN roots \subseteq Range(Root) /\ \A r \in DOMAIN roots : roots[r] \in DOMAIN election
                  /\ DOMAIN blocks \subseteq Hash /\ \A h \in DOMAIN blocks : blocks[h] \in DOMAIN election
                  /\ DOMAIN election \subseteq Id /\ \A k \in DOMAIN election : election[k] \in Election
                  /\ confirmed \subseteq Hash /\ stored \subseteq Hash
                  /\ loop \in {"scan", "prune", "exit"} /\ stopper \in {"none", "join", "done"}
                  /\ inactive \subseteq Range(Root) /\ {stopped, erased} \subseteq BOOLEAN
                  /\ VotingInv /\ Outgoing
  BY <1>1, <1>2, <1>3, Zenon DEF ETypeOK, VotingInv, Outgoing
<1> QED BY <1>4, Zenon DEF ElectionsInv, IndexInv, EMaps, LoopInv, StoredInv

LEMMA ElectionsInvNext ==
    IndexInv' /\ LoopInv' /\ VotingInv' /\ Outgoing' /\ StoredInv' => ElectionsInv'
  BY ElectionsInvIs, PTL

\* What is shown of every step
StepGood == ElectionsInv' /\ ConfirmedWithQuorum /\ (LeavesFinished \/ erased' \/ stopper' = "done")

LEMMA NoneLeave == ASSUME DOMAIN roots \subseteq DOMAIN roots' PROVE LeavesFinished
  BY Zenon DEF LeavesFinished

\* The elections stay as they are.
LEMMA IndexSame ==
    ASSUME IndexInv, UNCHANGED <<roots, blocks, election, confirmed, inactive, seen, erased>>,
           stopper = "done" => stopper' = "done"
    PROVE  IndexInv' /\ ConfirmedWithQuorum /\ LeavesFinished
<1>0. /\ roots' = roots /\ blocks' = blocks /\ election' = election /\ confirmed' = confirmed
      /\ inactive' = inactive /\ seen' = seen /\ erased' = erased
  BY Zenon
<1>1. EMaps' /\ IndexSound'
  BY <1>0, Zenon DEF IndexInv, EMaps, IndexSound
<1>2. ~erased => IndexConsistent' /\ RootsStay' /\ InactiveFinished'
  BY <1>0, Zenon DEF IndexInv, IndexConsistent, RootsStay, InactiveFinished
<1>3. ConfirmedWithQuorum
  BY <1>0, NoneConfirmed, Zenon
<1>4. LeavesFinished
  BY <1>0, NoneLeave, Zenon
<1>5. ~erased' => ~erased
  BY <1>0
<1> QED BY <1>1, <1>2, <1>3, <1>4, <1>5, Zenon DEF IndexInv

\* What request_confirm saw of the elections it is about to remove goes on being so.
LEMMA FinishedStays ==
    ASSUME EMaps, RootsStay, InactiveFinished, ElectionsGo, UNCHANGED <<roots, confirmed, inactive, seen>>
    PROVE  RootsStay' /\ InactiveFinished'
<1>1. roots' = roots /\ confirmed' = confirmed /\ inactive' = inactive /\ seen' = seen
  BY Zenon
<1>2. ASSUME NEW r \in inactive
      PROVE  LET f == election'[roots[r]] IN
             IF r \in DOMAIN seen
             THEN /\ f.confirmed /\ seen[r].winner \in confirmed /\ seen[r].blocks \subseteq f.blocks
                  /\ f.blocks = seen[r].blocks => f.winner = seen[r].winner
             ELSE f.stopped
  <2> DEFINE k == roots[r]
             old == election[k]
             new == election'[k]
  <2>1. k \in DOMAIN election
    BY Zenon DEF EMaps, RootsStay
  <2>2. /\ new.stopped = old.stopped /\ old.blocks \subseteq new.blocks /\ (old.confirmed => new.confirmed)
        /\ old.confirmed /\ new.blocks = old.blocks => new.winner = old.winner
    BY <2>1, Zenon DEF ElectionsGo
  <2>3. IF r \in DOMAIN seen
        THEN /\ old.confirmed /\ seen[r].winner \in confirmed /\ seen[r].blocks \subseteq old.blocks
             /\ old.blocks = seen[r].blocks => old.winner = seen[r].winner
        ELSE old.stopped
    BY Zenon DEF InactiveFinished
  <2>4. CASE r \in DOMAIN seen
    <3>1. new.confirmed /\ seen[r].winner \in confirmed /\ seen[r].blocks \subseteq new.blocks
      BY <2>2, <2>3, <2>4, Zenon
    <3>2. ASSUME new.blocks = seen[r].blocks PROVE new.winner = seen[r].winner
      <4>1. old.blocks = seen[r].blocks
        BY <2>2, <2>3, <2>4, <3>2, Zenon
      <4> QED BY <2>2, <2>3, <2>4, <3>2, <4>1, Zenon
    <3> QED BY <2>4, <3>1, <3>2, Zenon
  <2> QED BY <2>2, <2>3, <2>4, Zenon
<1> QED BY <1>1, <1>2, Zenon DEF RootsStay, InactiveFinished

\* The elections go on, with their blocks.
LEMMA IndexGoes ==
    ASSUME IndexInv, ElectionsGo, \A k \in DOMAIN election : election'[k].blocks = election[k].blocks,
           UNCHANGED <<roots, blocks, confirmed, inactive, seen, erased, stopper>>
    PROVE  IndexInv' /\ LeavesFinished
<1>0. /\ roots' = roots /\ blocks' = blocks /\ confirmed' = confirmed
      /\ inactive' = inactive /\ seen' = seen /\ erased' = erased /\ stopper' = stopper
  BY Zenon
<1>1. EMaps' /\ IndexSound'
  BY <1>0, Zenon DEF IndexInv, EMaps, IndexSound, ElectionsGo
<1>2. ~erased => IndexConsistent' /\ RootsStay'
  BY <1>0, Zenon DEF IndexInv, EMaps, IndexConsistent, RootsStay
<1>3. ~erased => InactiveFinished'
  BY <1>0, FinishedStays, Zenon DEF IndexInv
<1>4. LeavesFinished
  BY <1>0, NoneLeave, Zenon
<1>5. ~erased' => ~erased
  BY <1>0
<1> QED BY <1>1, <1>2, <1>3, <1>4, <1>5, Zenon DEF IndexInv

LEMMA LoopSame ==
    ASSUME LoopInv, UNCHANGED <<confirmed, loop, inactive, seen, control>> PROVE LoopInv'
  BY DEF LoopInv, control

LEMMA VotingSame == ASSUME VotingInv, UNCHANGED voting PROVE VotingInv'
  BY Zenon DEF VotingInv

LEMMA StoredSame == ASSUME StoredInv, UNCHANGED stored PROVE StoredInv'
  BY Zenon DEF StoredInv, NoRivals

LEMMA OutgoingSame == ASSUME Outgoing, UNCHANGED <<forced, background>> PROVE Outgoing'
  BY DEF Outgoing

-----------------------------------------------------------------------------
(* The steps that leave the set of elections alone                          *)

LEMMA BeginVoteStep == ASSUME ElectionsInv, NEW v \in Ballot, BeginVote(v) PROVE StepGood
<1>0. IndexInv /\ LoopInv /\ VotingInv /\ Outgoing /\ StoredInv
  BY ElectionsInvIs, Zenon
<1>1. /\ UNCHANGED <<roots, blocks, election, confirmed, inactive, seen, erased>> /\ stopper' = stopper
      /\ UNCHANGED <<confirmed, loop, inactive, seen, control>> /\ UNCHANGED stored /\ UNCHANGED <<forced, background>>
      /\ voting' = v
  BY DEF BeginVote, index, control
<1>2. VotingInv'
  <2>1. v.items \in Seq([hash : Hash, whole : BOOLEAN]) \ {<<>>}
    BY BallotAssumption
  <2> QED BY <1>1, <2>1, Zenon DEF VotingInv
<1>3. IndexInv' /\ ConfirmedWithQuorum /\ LeavesFinished
  BY <1>0, <1>1, IndexSame, Zenon
<1> QED BY <1>0, <1>1, <1>2, <1>3, LoopSame, StoredSame, OutgoingSame, ElectionsInvNext, Zenon DEF StepGood

LEMMA VoteNextStep == ASSUME ElectionsInv, VoteNext PROVE StepGood
<1>0. IndexInv /\ LoopInv /\ VotingInv /\ Outgoing /\ StoredInv
  BY ElectionsInvIs, Zenon
<1> DEFINE item == Head(voting.items)
           rest == Tail(voting.items)
           target == IF item.whole
                     THEN IF Root[item.hash] \in DOMAIN roots THEN {roots[Root[item.hash]]} ELSE {}
                     ELSE IF item.hash \in DOMAIN blocks THEN {blocks[item.hash]} ELSE {}
<1>1. PICK v \in Ballot : /\ voting.rep = v.rep /\ voting.sequence = v.sequence
                          /\ voting.items \in Seq([hash : Hash, whole : BOOLEAN]) \ {<<>>}
  <2>1. voting # NoVote
    BY Zenon DEF VoteNext, Free
  <2> QED BY <1>0, <2>1, Zenon DEF VotingInv
<1>2. item \in [hash : Hash, whole : BOOLEAN] /\ rest \in Seq([hash : Hash, whole : BOOLEAN])
  <2> DEFINE I == [hash : Hash, whole : BOOLEAN]
             q == voting.items
  <2>1. q \in Seq(I) /\ q # <<>>
    BY <1>1, Zenon
  <2> HIDE DEF I, q
  <2>2. Head(q) \in I /\ Tail(q) \in Seq(I)
    BY <2>1
  <2> QED BY <2>2, Zenon DEF I, q
<1>3. v.rep \in Rep /\ v.sequence \in {w.sequence : w \in Ballot} /\ item.hash \in Hash
  BY <1>2, BallotAssumption
<1>4. /\ voting' = IF rest = <<>> THEN NoVote ELSE [voting EXCEPT !.items = rest]
      /\ \/ UNCHANGED <<election, forced, background>>
         \/ \E i \in target : ElectionVote(i, voting.rep, voting.sequence, item.hash)
  BY Zenon DEF VoteNext
<1>5. /\ UNCHANGED <<roots, blocks, confirmed, inactive, seen, erased, stopper>>
      /\ UNCHANGED <<confirmed, loop, inactive, seen, control>> /\ UNCHANGED stored
  BY DEF VoteNext, index, control
<1>6. VotingInv'
  <2>1. CASE rest = <<>>
    BY <1>4, <2>1, Zenon DEF VotingInv
  <2>2. CASE rest # <<>>
    <3>1. voting' = [voting EXCEPT !.items = rest]
      BY <1>4, <2>2, Zenon
    <3> HIDE DEF rest
    <3>2. voting'.rep = voting.rep /\ voting'.sequence = voting.sequence /\ voting'.items = rest
      BY <3>1 
    <3> QED BY <1>1, <1>2, <2>2, <3>2, Zenon DEF VotingInv
  <2> QED BY <2>1, <2>2, Zenon
<1>7. ElectionsGo /\ Outgoing' /\ ConfirmedWithQuorum /\ \A k \in DOMAIN election : election'[k].blocks = election[k].blocks
  <2>1. CASE UNCHANGED <<election, forced, background>>
    BY <2>1, NothingBecame, Zenon
  <2>2. ASSUME NEW i \in target, ElectionVote(i, voting.rep, voting.sequence, item.hash)
        PROVE  ElectionsGo /\ Outgoing' /\ ConfirmedWithQuorum /\ \A k \in DOMAIN election : election'[k].blocks = election[k].blocks
    <3>1. i \in DOMAIN election
      BY <1>0, <2>2, Zenon DEF IndexInv, EMaps
    <3>2. ElectionVote(i, v.rep, v.sequence, item.hash)
      BY <1>1, <2>2, Zenon
    <3> HIDE DEF item
    <3> QED BY <1>3, <3>1, <3>2, VoteStep, Zenon
  <2> QED BY <1>4, <2>1, <2>2, Zenon
<1>8. IndexInv' /\ LeavesFinished
  BY <1>0, <1>5, <1>7, IndexGoes, Zenon
<1> QED BY <1>0, <1>5, <1>6, <1>7, <1>8, LoopSame, StoredSame, ElectionsInvNext, Zenon DEF StepGood

LEMMA PublishStep == ASSUME ElectionsInv, NEW h \in Hash, Publish(h) PROVE StepGood
<1>0. IndexInv /\ LoopInv /\ VotingInv /\ Outgoing /\ StoredInv
  BY ElectionsInvIs, Zenon
<1> DEFINE i == roots[Root[h]]
           e == election[i]
           new == [e EXCEPT !.blocks = @ \cup {h}]
<1>1. /\ Root[h] \in DOMAIN roots /\ i \in DOMAIN election /\ e \in Election /\ ElectionSound(e) /\ e.root = Root[h]
      /\ blocks' = Index(blocks, h, i)
      /\ IF h \in e.blocks THEN UNCHANGED <<election, forced, background>> ELSE ConfirmIfQuorum(i, new)
  BY <1>0, Zenon DEF Publish, IndexInv, EMaps, IndexSound
<1>2. /\ UNCHANGED <<roots, confirmed, inactive, seen, erased, stopper>>
      /\ UNCHANGED <<confirmed, loop, inactive, seen, control>> /\ UNCHANGED stored /\ UNCHANGED voting
  BY DEF Publish, control
<1>3. /\ ElectionsGo /\ Outgoing' /\ ConfirmedWithQuorum
      /\ \A k \in DOMAIN election : election'[k].blocks = IF k = i THEN e.blocks \cup {h} ELSE election[k].blocks
  <2>1. CASE h \in e.blocks
    <3>1. UNCHANGED <<election, forced, background>> /\ e.blocks \cup {h} = e.blocks
      BY <1>1, <2>1, Zenon
    <3> QED BY <3>1, NothingBecame, Zenon
  <2>2. CASE h \notin e.blocks
    <3>1. /\ new \in Election /\ new.root = e.root /\ new.stopped = e.stopped /\ new.confirmed = e.confirmed
          /\ new.calls = e.calls /\ new.blocks = e.blocks \cup {h} /\ new.winner = e.winner
      BY <1>1 DEF Election
    <3>2. e.winner \in e.blocks /\ \A b \in e.blocks : Root[b] = e.root
      BY <1>1, Zenon DEF ElectionSound
    <3>3. /\ new.winner \in new.blocks /\ (\A b \in new.blocks : Root[b] = new.root)
          /\ e.blocks \subseteq new.blocks /\ new.blocks # e.blocks
      BY <1>1, <2>2, <3>1, <3>2, Zenon
    <3> HIDE DEF new
    <3>4. Became(i, new)
      BY <1>1, <2>2, <3>1, <3>3, QuorumStep, Zenon
    <3> QED BY <3>1, <3>4, Zenon DEF Became
  <2> QED BY <2>1, <2>2, Zenon
<1>4. /\ \A b \in DOMAIN blocks' : (b \in DOMAIN blocks /\ blocks'[b] = blocks[b]) \/ (b = h /\ blocks'[b] = i)
      /\ DOMAIN blocks' = DOMAIN blocks \cup {h} /\ \A b \in DOMAIN blocks : blocks'[b] = blocks[b]
  BY <1>1, Zenon DEF Index, Put
<1> HIDE DEF i
<1>5. EMaps'
  BY <1>0, <1>1, <1>2, <1>3, <1>4, Zenon DEF IndexInv, EMaps, ElectionsGo
<1>6. IndexSound'
  <2>1. \A r \in DOMAIN roots' : election'[roots'[r]].root = r
    BY <1>0, <1>2, <1>3, Zenon DEF IndexInv, EMaps, IndexSound, ElectionsGo
  <2>2. h \in election'[i].blocks
    BY <1>1, <1>3, Zenon
  <2>3. \A b \in DOMAIN blocks : b \in election'[blocks[b]].blocks
    BY <1>0, <1>3, Zenon DEF IndexInv, EMaps, IndexSound, ElectionsGo
  <2> QED BY <1>4, <2>1, <2>2, <2>3, Zenon DEF IndexSound
<1>7. ASSUME ~erased PROVE IndexConsistent'
  <2> SUFFICES ASSUME stopper # "done"
               PROVE  /\ \A b \in DOMAIN blocks' : /\ Root[b] \in DOMAIN roots'
                                                   /\ blocks'[b] = roots'[Root[b]]
                                                   /\ b \in election'[blocks'[b]].blocks
                      /\ \A r \in DOMAIN roots' : \A b \in election'[roots'[r]].blocks : b \in DOMAIN blocks'
    BY <1>2, Zenon DEF IndexConsistent
  <2>1. /\ \A b \in DOMAIN blocks : Root[b] \in DOMAIN roots /\ blocks[b] = roots[Root[b]]
        /\ \A r \in DOMAIN roots : \A b \in election[roots[r]].blocks : b \in DOMAIN blocks
    BY <1>0, <1>7, Zenon DEF IndexInv, IndexConsistent
  <2>2. \A b \in DOMAIN blocks' : Root[b] \in DOMAIN roots' /\ blocks'[b] = roots'[Root[b]]
    BY <1>1, <1>2, <1>4, <2>1, Zenon DEF i
  <2>3. \A b \in DOMAIN blocks' : b \in election'[blocks'[b]].blocks
    BY <1>6, Zenon DEF IndexSound
  <2>4. ASSUME NEW r \in DOMAIN roots, NEW b \in election'[roots[r]].blocks PROVE b \in DOMAIN blocks'
    <3>1. roots[r] \in DOMAIN election
      BY <1>0, Zenon DEF IndexInv, EMaps
    <3>2. b \in election[roots[r]].blocks \/ b = h
      BY <1>3, <2>4, <3>1, Zenon
    <3> QED BY <1>4, <2>1, <3>2, Zenon
  <2> QED BY <1>2, <2>2, <2>3, <2>4, Zenon
<1>8. ASSUME ~erased PROVE RootsStay' /\ InactiveFinished'
  BY <1>0, <1>2, <1>3, <1>8, FinishedStays, Zenon DEF IndexInv
<1>9. IndexInv'
  BY <1>2, <1>5, <1>6, <1>7, <1>8, Zenon DEF IndexInv
<1>10. LeavesFinished
  BY <1>2, NoneLeave, Zenon
<1> QED BY <1>0, <1>2, <1>3, <1>9, <1>10, LoopSame, VotingSame, StoredSame, ElectionsInvNext, Zenon DEF StepGood

-----------------------------------------------------------------------------
(* The steps that add and remove elections                                  *)

LEMMA Fresh == ASSUME NEW i \in Id, i \notin DOMAIN election, IndexInv
               PROVE  /\ \A r \in DOMAIN roots : roots[r] # i
                      /\ \A h \in DOMAIN blocks : blocks[h] # i
  BY Zenon DEF IndexInv, EMaps

LEMMA StartStep == ASSUME ElectionsInv, NEW h \in Hash, Start(h) PROVE StepGood
<1>0. IndexInv /\ LoopInv /\ VotingInv /\ Outgoing /\ StoredInv
  BY ElectionsInvIs, Zenon
<1>1. PICK i \in Id : /\ i \notin DOMAIN election /\ Root[h] \notin DOMAIN roots
                      /\ election' = Put(election, i, NewElection(h))
                      /\ roots' = Put(roots, Root[h], i) /\ blocks' = Index(blocks, h, i)
  <2> DEFINE j == CHOOSE k \in Id : k \notin DOMAIN election
  <2>1. j \in Id /\ j \notin DOMAIN election
    BY Zenon DEF Start
  <2>2. /\ election' = Put(election, j, NewElection(h)) /\ Root[h] \notin DOMAIN roots
        /\ roots' = Put(roots, Root[h], j) /\ blocks' = Index(blocks, h, j)
    BY Zenon DEF Start
  <2> HIDE DEF j
  <2> QED BY <2>1, <2>2, Zenon
<1>2. /\ UNCHANGED <<confirmed, loop, inactive, seen, control>> /\ UNCHANGED <<stored, voting>>
      /\ UNCHANGED <<forced, background>> /\ confirmed' = confirmed /\ inactive' = inactive /\ seen' = seen
      /\ erased' = erased /\ stopper' = stopper
  BY DEF Start, control
<1> DEFINE e == NewElection(h)
<1>3. e \in Election /\ ElectionSound(e) /\ e.root = Root[h] /\ e.blocks = {h}
  <2>1. 0 \in 0 .. AnnouncementCap
    BY LimitAssumption DEF AnnouncementCap
  <2> QED BY <2>1, NewSound, Zenon
<1> HIDE DEF e
<1>4. /\ DOMAIN election' = DOMAIN election \cup {i} /\ election'[i] = e
      /\ \A k \in DOMAIN election : election'[k] = election[k]
  BY <1>1, Zenon DEF Put, e
<1>5. /\ DOMAIN roots' = DOMAIN roots \cup {Root[h]} /\ roots'[Root[h]] = i
      /\ \A r \in DOMAIN roots : roots'[r] = roots[r]
  BY <1>1, Zenon DEF Put
<1>6. /\ \A b \in DOMAIN blocks' : (b \in DOMAIN blocks /\ blocks'[b] = blocks[b]) \/ (b = h /\ blocks'[b] = i)
      /\ DOMAIN blocks' = DOMAIN blocks \cup {h} /\ \A b \in DOMAIN blocks : blocks'[b] = blocks[b]
  BY <1>1, Zenon DEF Index, Put
<1>7. EMaps'
  <2>1. Root[h] \in Range(Root)
    BY LinkAssumption, Zenon DEF Range
  <2>2. DOMAIN roots' \subseteq Range(Root) /\ \A r \in DOMAIN roots' : roots'[r] \in DOMAIN election'
    BY <1>0, <1>4, <1>5, <2>1, Zenon DEF IndexInv, EMaps
  <2>3. DOMAIN blocks' \subseteq Hash /\ \A b \in DOMAIN blocks' : blocks'[b] \in DOMAIN election'
    BY <1>0, <1>4, <1>6, Zenon DEF IndexInv, EMaps
  <2>4. DOMAIN election' \subseteq Id /\ \A k \in DOMAIN election' : election'[k] \in Election /\ ElectionSound(election'[k])
    BY <1>0, <1>3, <1>4, Zenon DEF IndexInv, EMaps
  <2> QED BY <2>2, <2>3, <2>4, Zenon DEF EMaps
<1>8. IndexSound'
  <2>1. \A r \in DOMAIN roots' : election'[roots'[r]].root = r
    <3>1. \A r \in DOMAIN roots : election'[roots'[r]].root = r
      BY <1>0, <1>4, <1>5, Zenon DEF IndexInv, EMaps, IndexSound
    <3>2. election'[roots'[Root[h]]].root = Root[h]
      BY <1>3, <1>4, <1>5, Zenon
    <3> QED BY <1>5, <3>1, <3>2, Zenon
  <2>2. \A b \in DOMAIN blocks' : b \in election'[blocks'[b]].blocks
    BY <1>0, <1>3, <1>4, <1>6, Zenon DEF IndexInv, EMaps, IndexSound
  <2> QED BY <2>1, <2>2, Zenon DEF IndexSound
<1>9. ASSUME ~erased PROVE IndexConsistent'
  <2> SUFFICES ASSUME stopper # "done"
               PROVE  /\ \A b \in DOMAIN blocks' : Root[b] \in DOMAIN roots' /\ blocks'[b] = roots'[Root[b]]
                      /\ \A r \in DOMAIN roots' : \A b \in election'[roots'[r]].blocks : b \in DOMAIN blocks'
    BY <1>2, <1>8, Zenon DEF IndexConsistent, IndexSound
  <2>1. /\ \A b \in DOMAIN blocks : Root[b] \in DOMAIN roots /\ blocks[b] = roots[Root[b]]
        /\ \A r \in DOMAIN roots : \A b \in election[roots[r]].blocks : b \in DOMAIN blocks
    BY <1>0, <1>9, Zenon DEF IndexInv, IndexConsistent
  <2>2. \A b \in DOMAIN blocks' : Root[b] \in DOMAIN roots' /\ blocks'[b] = roots'[Root[b]]
    BY <1>5, <1>6, <2>1, Zenon
  <2>3. \A r \in DOMAIN roots' : \A b \in election'[roots'[r]].blocks : b \in DOMAIN blocks'
    BY <1>0, <1>3, <1>4, <1>5, <1>6, <2>1, Zenon DEF IndexInv, EMaps
  <2> QED BY <2>2, <2>3, Zenon
<1>10. ASSUME ~erased PROVE RootsStay' /\ InactiveFinished'
  <2>1. RootsStay /\ InactiveFinished
    BY <1>0, <1>10, Zenon DEF IndexInv
  <2>2. \A r \in inactive : r \in DOMAIN roots' /\ election'[roots'[r]] = election[roots[r]]
    BY <1>0, <1>4, <1>5, <2>1, Zenon DEF IndexInv, EMaps, RootsStay
  <2> QED BY <1>2, <2>1, <2>2, Zenon DEF RootsStay, InactiveFinished
<1>11. IndexInv'
  BY <1>2, <1>7, <1>8, <1>9, <1>10, Zenon DEF IndexInv
<1>12. ConfirmedWithQuorum /\ LeavesFinished
  BY <1>4, <1>5, NoneLeave, NoneConfirmed, Zenon
<1> QED BY <1>0, <1>2, <1>11, <1>12, LoopSame, VotingSame, StoredSame, OutgoingSame, ElectionsInvNext, Zenon DEF StepGood

\* Entries leave the indexes, and elections that nothing refers to are destroyed.
LEMMA Removed ==
    ASSUME IndexInv, DOMAIN roots' \subseteq DOMAIN roots, \A r \in DOMAIN roots' : roots'[r] = roots[r],
           DOMAIN blocks' \subseteq DOMAIN blocks, \A h \in DOMAIN blocks' : blocks'[h] = blocks[h],
           election' = Collect(election, roots', blocks')
    PROVE  /\ EMaps' /\ IndexSound' /\ ConfirmedWithQuorum
           /\ \A r \in DOMAIN roots' : election'[roots'[r]] = election[roots[r]]
<1>0. EMaps /\ IndexSound
  BY Zenon DEF IndexInv
<1>1. /\ DOMAIN election' = DOMAIN election \cap (Range(roots') \cup Range(blocks'))
      /\ \A k \in DOMAIN election' : k \in DOMAIN election /\ election'[k] = election[k]
  BY Zenon DEF Collect, Restrict
<1>2. \A r \in DOMAIN roots' : roots'[r] \in DOMAIN election'
  BY <1>0, <1>1, Zenon DEF EMaps, Range
<1>3. \A h \in DOMAIN blocks' : blocks'[h] \in DOMAIN election'
  BY <1>0, <1>1, Zenon DEF EMaps, Range
<1>4. EMaps'
  <2>1. DOMAIN roots' \subseteq Range(Root) /\ DOMAIN blocks' \subseteq Hash /\ DOMAIN election' \subseteq Id
    BY <1>0, <1>1, Zenon DEF EMaps
  <2>2. \A k \in DOMAIN election' : election'[k] \in Election /\ ElectionSound(election'[k])
    BY <1>0, <1>1, Zenon DEF EMaps
  <2> QED BY <1>2, <1>3, <2>1, <2>2, Zenon DEF EMaps
<1>5. IndexSound'
  BY <1>0, <1>1, <1>2, <1>3, Zenon DEF IndexSound
<1>6. ConfirmedWithQuorum
  BY <1>1, NoneConfirmed, Zenon
<1> QED BY <1>1, <1>2, <1>4, <1>5, <1>6, Zenon

LEMMA EraseStep == ASSUME ElectionsInv, NEW h \in Hash, Erase(h) PROVE StepGood
<1>0. IndexInv /\ LoopInv /\ VotingInv /\ Outgoing /\ StoredInv
  BY ElectionsInvIs, Zenon
<1>1. /\ roots' = Del(roots, Root[h]) /\ blocks' = blocks /\ election' = Collect(election, roots', blocks)
      /\ Len(forced) < ForcedMax /\ forced' = Append(forced, h) /\ erased' = TRUE
      /\ UNCHANGED <<confirmed, loop, inactive, seen, voting, stopped, stopper, stored, background>>
  BY Zenon DEF Erase
<1>2. EMaps' /\ IndexSound' /\ ConfirmedWithQuorum
  <2>1. DOMAIN roots' \subseteq DOMAIN roots /\ \A r \in DOMAIN roots' : roots'[r] = roots[r]
    BY <1>1, Zenon DEF Del
  <2> QED BY <1>0, <1>1, <2>1, Removed, Zenon
<1>3. IndexInv'
  BY <1>1, <1>2, Zenon DEF IndexInv
<1>4. LoopInv'
  BY <1>0, <1>1 DEF LoopInv
<1>5. Outgoing'
  BY <1>0, <1>1, LimitAssumption DEF Outgoing
<1> QED BY <1>0, <1>1, <1>2, <1>3, <1>4, <1>5, VotingSame, StoredSame, ElectionsInvNext, Zenon DEF StepGood

LEMMA PruneStep == ASSUME ElectionsInv, Prune PROVE StepGood
<1>0. IndexInv /\ LoopInv /\ VotingInv /\ Outgoing /\ StoredInv
  BY ElectionsInvIs, Zenon
<1> DEFINE gone == UNION {election[roots[r]].blocks : r \in inactive}
<1>1. /\ blocks' = Restrict(blocks, DOMAIN blocks \ gone)
      /\ roots' = Restrict(roots, DOMAIN roots \ inactive)
      /\ election' = Collect(election, roots', blocks')
      /\ inactive' = {} /\ loop' = "scan" /\ loop = "prune" /\ inactive \subseteq DOMAIN roots
      /\ UNCHANGED <<confirmed, voting, stored, forced, background>>
  BY Zenon DEF Prune
<1>2. stopped' = stopped /\ stopper' = stopper /\ erased' = erased
  BY DEF Prune, control
<1>3. \A b \in gone : \E r \in inactive : b \in election[roots[r]].blocks
  BY Zenon
<1>4. \A r \in inactive : \A b \in election[roots[r]].blocks : b \in gone
  BY Zenon
<1> HIDE DEF gone
<1>5. /\ DOMAIN roots' = DOMAIN roots \ inactive /\ \A r \in DOMAIN roots' : roots'[r] = roots[r]
      /\ DOMAIN blocks' = DOMAIN blocks \ gone /\ \A b \in DOMAIN blocks' : blocks'[b] = blocks[b]
  BY <1>1, Zenon DEF Restrict
<1>6. EMaps' /\ IndexSound' /\ ConfirmedWithQuorum /\ \A r \in DOMAIN roots' : election'[roots'[r]] = election[roots[r]]
  BY <1>0, <1>1, <1>5, Removed, Zenon
<1>7. ASSUME ~erased PROVE IndexConsistent'
  <2> SUFFICES ASSUME stopper # "done"
               PROVE  /\ \A b \in DOMAIN blocks' : Root[b] \in DOMAIN roots' /\ blocks'[b] = roots'[Root[b]]
                      /\ \A r \in DOMAIN roots' : \A b \in election'[roots'[r]].blocks : b \in DOMAIN blocks'
    BY <1>2, <1>6, Zenon DEF IndexConsistent, IndexSound
  <2>1. /\ \A b \in DOMAIN blocks : /\ Root[b] \in DOMAIN roots /\ blocks[b] = roots[Root[b]]
                                    /\ b \in election[blocks[b]].blocks
        /\ \A r \in DOMAIN roots : \A b \in election[roots[r]].blocks : b \in DOMAIN blocks
    BY <1>0, <1>7, Zenon DEF IndexInv, IndexConsistent
  <2>2. \A b \in DOMAIN blocks' : Root[b] \in DOMAIN roots' /\ blocks'[b] = roots'[Root[b]]
    BY <1>4, <1>5, <2>1, Zenon
  <2>3. ASSUME NEW r \in DOMAIN roots', NEW b \in election'[roots'[r]].blocks PROVE b \in DOMAIN blocks'
    <3>1. r \in DOMAIN roots /\ r \notin inactive /\ b \in election[roots[r]].blocks
      BY <1>5, <1>6, <2>3, Zenon
    <3>2. b \in DOMAIN blocks
      BY <2>1, <3>1, Zenon
    <3>3. Root[b] = r
      BY <1>0, <3>1, Zenon DEF IndexInv, EMaps, IndexSound, ElectionSound
    <3>4. \A q \in inactive : b \in election[roots[q]].blocks => Root[b] = q
      BY <1>0, <1>1, Zenon DEF IndexInv, EMaps, IndexSound, ElectionSound
    <3> QED BY <1>3, <1>5, <3>1, <3>2, <3>3, <3>4, Zenon
  <2> QED BY <2>2, <2>3, Zenon
<1>8. RootsStay' /\ InactiveFinished'
  BY <1>1, Zenon DEF RootsStay, InactiveFinished
<1>9. IndexInv'
  BY <1>2, <1>6, <1>7, <1>8, Zenon DEF IndexInv
<1>10. LoopInv'
  BY <1>0, <1>1, <1>2 DEF LoopInv
<1>11. LeavesFinished \/ erased'
  <2> SUFFICES ASSUME ~erased PROVE LeavesFinished
    BY <1>2, Zenon
  <2>1. InactiveFinished /\ \A r \in DOMAIN roots \ DOMAIN roots' : r \in inactive
    BY <1>0, <1>5, Zenon DEF IndexInv
  <2> QED BY <2>1, Zenon DEF LeavesFinished, InactiveFinished
<1> QED BY <1>0, <1>1, <1>6, <1>9, <1>10, <1>11, VotingSame, StoredSame, OutgoingSame, ElectionsInvNext, Zenon DEF StepGood

LEMMA StopJoinStep == ASSUME ElectionsInv, StopJoin PROVE StepGood
<1>0. IndexInv /\ LoopInv /\ VotingInv /\ Outgoing /\ StoredInv
  BY ElectionsInvIs, Zenon
<1>1. /\ stopper' = "done" /\ loop = "exit" /\ roots' = <<>> /\ blocks' = blocks
      /\ election' = Collect(election, roots', blocks')
      /\ UNCHANGED <<confirmed, loop, inactive, seen, voting, stopped, stored, forced, background, erased>>
  BY Zenon DEF StopJoin
<1>2. DOMAIN roots' = {} /\ inactive' = {}
  BY <1>0, <1>1 DEF LoopInv
<1>3. EMaps' /\ IndexSound' /\ ConfirmedWithQuorum
  BY <1>0, <1>1, <1>2, Removed, Zenon
<1>4. IndexConsistent' /\ RootsStay' /\ InactiveFinished'
  BY <1>1, <1>2, Zenon DEF IndexConsistent, RootsStay, InactiveFinished
<1>5. IndexInv'
  BY <1>3, <1>4, Zenon DEF IndexInv
<1>6. LoopInv'
  BY <1>0, <1>1 DEF LoopInv
<1> QED BY <1>0, <1>1, <1>3, <1>5, <1>6, VotingSame, StoredSame, OutgoingSame, ElectionsInvNext, Zenon DEF StepGood

\* The first half of request_confirm
LEMMA RequestConfirmStep == ASSUME ElectionsInv, RequestConfirm PROVE StepGood
<1>0. IndexInv /\ LoopInv /\ VotingInv /\ Outgoing /\ StoredInv
  BY ElectionsInvIs, Zenon
<1> DEFINE done == {r \in DOMAIN roots : Finished(election[roots[r]])}
           new == {h \in UNION {Escalated(election[roots[r]]) : r \in DOMAIN roots} : Root[h] \notin DOMAIN roots}
           id == CHOOSE f \in Injection(new, Id \ DOMAIN election) : TRUE
           Creator(i) == CHOOSE h \in new : id[h] = i
           Winners == {election[roots[r]].winner : r \in {q \in done : election[roots[q]].confirmed}}
<1>1. PICK visited \in SUBSET new :
        /\ Injection(new, Id \ DOMAIN election) # {}
        /\ inactive' = done /\ confirmed' = confirmed \cup Winners
        /\ seen' = [r \in {q \in done : election[roots[q]].confirmed} |->
                      [winner |-> election[roots[r]].winner, blocks |-> election[roots[r]].blocks]]
        /\ election' = [i \in DOMAIN election \cup Range(id) |->
             IF i \notin DOMAIN election
             THEN [NewElection(Creator(i)) EXCEPT !.announcements = IF Creator(i) \in visited THEN 1 ELSE 0]
             ELSE IF i \in Range(roots) THEN Announced(election[i]) ELSE election[i]]
        /\ roots' = [r \in DOMAIN roots \cup {Root[h] : h \in new} |->
             IF r \in DOMAIN roots THEN roots[r] ELSE id[CHOOSE h \in new : Root[h] = r]]
        /\ blocks' = [h \in DOMAIN blocks \cup new |-> IF h \in DOMAIN blocks THEN blocks[h] ELSE id[h]]
  BY Zenon DEF RequestConfirm
<1>2. /\ loop = "scan" /\ loop' = "prune" /\ UNCHANGED <<voting, stored, forced, background>>
      /\ stopped' = stopped /\ stopper' = stopper /\ erased' = erased
  BY DEF RequestConfirm, control
<1>3. /\ new \subseteq Hash /\ \A g, h \in new : Root[g] = Root[h] => g = h
      /\ \A h \in new : Root[h] \notin DOMAIN roots /\ Root[h] \in Range(Root)
  <2>1. new \subseteq stored
    BY Zenon DEF Escalated
  <2>2. \A h \in new : Root[h] \notin DOMAIN roots
    BY Zenon
  <2> HIDE DEF new
  <2>3. new \subseteq Hash
    BY <1>0, <2>1, Zenon DEF StoredInv
  <2> QED BY <1>0, <2>1, <2>2, <2>3, LinkAssumption, Zenon DEF StoredInv, NoRivals, Range
<1>4. /\ DOMAIN id = new /\ \A h \in new : id[h] \in Id /\ id[h] \notin DOMAIN election
      /\ \A g, h \in new : id[g] = id[h] => g = h
  <2>1. id \in Injection(new, Id \ DOMAIN election)
    BY <1>1, Zenon
  <2> HIDE DEF id, new
  <2> QED BY <2>1, Zenon DEF Injection, IsInjective
<1>5. \A h \in new : Creator(id[h]) = h /\ (CHOOSE g \in new : Root[g] = Root[h]) = h
  <2> HIDE DEF new, id
  <2>1. ASSUME NEW h \in new PROVE Creator(id[h]) = h
    <3>1. Creator(id[h]) \in new /\ id[Creator(id[h])] = id[h]
      BY Zenon
    <3> QED BY <1>4, <3>1, Zenon
  <2>2. ASSUME NEW h \in new PROVE (CHOOSE g \in new : Root[g] = Root[h]) = h
    <3> DEFINE c == CHOOSE g \in new : Root[g] = Root[h]
    <3>1. c \in new /\ Root[c] = Root[h]
      BY Zenon
    <3> QED BY <1>3, <3>1, Zenon
  <2> QED BY <2>1, <2>2, Zenon
<1>6. done \subseteq DOMAIN roots /\ \A r \in done : Finished(election[roots[r]])
  BY Zenon
<1>7. Winners \subseteq Hash /\ \A r \in done : election[roots[r]].confirmed => election[roots[r]].winner \in Winners
  <2>1. \A r \in DOMAIN roots : election[roots[r]] \in Election
    BY <1>0, Zenon DEF IndexInv, EMaps
  <2>2. \A r \in DOMAIN roots : election[roots[r]].winner \in Hash
    BY <2>1 DEF Election
  <2> QED BY <1>6, <2>2, Zenon
<1> HIDE DEF done, Winners, new, id
<1>8. /\ DOMAIN roots' = DOMAIN roots \cup {Root[h] : h \in new}
      /\ \A r \in DOMAIN roots : roots'[r] = roots[r]
      /\ \A h \in new : roots'[Root[h]] = id[h]
  <2>1. DOMAIN roots' = DOMAIN roots \cup {Root[h] : h \in new} /\ \A r \in DOMAIN roots : roots'[r] = roots[r]
    BY <1>1, Zenon
  <2>2. ASSUME NEW h \in new PROVE roots'[Root[h]] = id[h]
    <3> DEFINE c == CHOOSE g \in new : Root[g] = Root[h]
    <3>1. Root[h] \in DOMAIN roots \cup {Root[g] : g \in new} /\ Root[h] \notin DOMAIN roots
      BY <1>3, Zenon
    <3>2. roots'[Root[h]] = id[c]
      BY <1>1, <3>1, Zenon
    <3>3. c = h
      BY <1>5, Zenon
    <3> QED BY <3>2, <3>3, Zenon
  <2> QED BY <2>1, <2>2, Zenon
<1>9. /\ DOMAIN blocks' = DOMAIN blocks \cup new
      /\ \A h \in DOMAIN blocks : blocks'[h] = blocks[h]
      /\ \A h \in new \ DOMAIN blocks : blocks'[h] = id[h]
  BY <1>1, Zenon
<1>10. /\ DOMAIN election' = DOMAIN election \cup Range(id)
       /\ \A k \in DOMAIN election : election'[k] = IF k \in Range(roots) THEN Announced(election[k]) ELSE election[k]
       /\ \A h \in new : election'[id[h]] = [NewElection(h) EXCEPT !.announcements = IF h \in visited THEN 1 ELSE 0]
  <2>1. \A h \in new : id[h] \in Range(id)
    BY <1>4, Zenon DEF Range
  <2>2. \A h \in new : election'[id[h]] = [NewElection(Creator(id[h])) EXCEPT !.announcements = IF Creator(id[h]) \in visited THEN 1 ELSE 0]
    <3> HIDE DEF Creator
    <3> QED BY <1>1, <1>4, <2>1, Zenon
  <2>3. \A h \in new : Creator(id[h]) = h
    BY <1>5, Zenon
  <2> HIDE DEF Creator
  <2>4. \A h \in new : election'[id[h]] = [NewElection(h) EXCEPT !.announcements = IF h \in visited THEN 1 ELSE 0]
    BY <2>2, <2>3, Zenon
  <2>5. /\ DOMAIN election' = DOMAIN election \cup Range(id)
        /\ \A k \in DOMAIN election : election'[k] = IF k \in Range(roots) THEN Announced(election[k]) ELSE election[k]
    BY <1>1, Zenon
  <2> QED BY <2>4, <2>5, Zenon
<1> HIDE DEF Creator
<1>11. ASSUME NEW h \in new
       PROVE  /\ election'[id[h]] \in Election /\ ElectionSound(election'[id[h]])
              /\ election'[id[h]].root = Root[h] /\ election'[id[h]].blocks = {h}
  <2> DEFINE n == IF h \in visited THEN 1 ELSE 0
  <2>1. n \in 0 .. AnnouncementCap
    BY LimitAssumption DEF AnnouncementCap
  <2>2. election'[id[h]] = [NewElection(h) EXCEPT !.announcements = n]
    BY <1>10, Zenon
  <2> DEFINE e == election'[id[h]]
  <2>3. h \in Hash /\ e = [NewElection(h) EXCEPT !.announcements = n]
    BY <1>3, <2>2, Zenon
  <2> HIDE DEF n, e
  <2>4. e \in Election /\ ElectionSound(e) /\ e.root = Root[h] /\ e.blocks = {h}
    BY <2>1, <2>3, NewSound, Zenon
  <2> QED BY <2>4, Zenon DEF e
<1>12. ASSUME NEW k \in DOMAIN election
       PROVE  /\ election'[k] \in Election /\ ElectionSound(election'[k])
              /\ election'[k].root = election[k].root /\ election'[k].blocks = election[k].blocks
              /\ election'[k].confirmed = election[k].confirmed /\ election'[k].winner = election[k].winner
              /\ Finished(election[k]) => election'[k].stopped = election[k].stopped
  <2>1. election[k] \in Election /\ ElectionSound(election[k])
    BY <1>0, Zenon DEF IndexInv, EMaps
  <2>2. CASE election'[k] = Announced(election[k])
    BY <2>1, <2>2, AnnouncedSound, Zenon
  <2>3. CASE election'[k] = election[k]
    BY <2>1, <2>3, Zenon
  <2> QED BY <1>10, <2>2, <2>3, Zenon
<1>13. EMaps'
  <2>1. \A k \in DOMAIN election' : k \in DOMAIN election \/ \E h \in new : k = id[h]
    BY <1>4, <1>10, Zenon DEF Range
  <2>2. \A h \in new : id[h] \in DOMAIN election'
    BY <1>4, <1>10, Zenon DEF Range
  <2>3. \A k \in DOMAIN election : k \in DOMAIN election'
    BY <1>10, Zenon
  <2>4. DOMAIN roots' \subseteq Range(Root) /\ \A r \in DOMAIN roots' : roots'[r] \in DOMAIN election'
    <3>1. \A r \in DOMAIN roots : r \in Range(Root) /\ roots'[r] \in DOMAIN election'
      BY <1>0, <1>8, <2>3, Zenon DEF IndexInv, EMaps
    <3>2. \A h \in new : Root[h] \in Range(Root) /\ roots'[Root[h]] \in DOMAIN election'
      BY <1>3, <1>8, <2>2, Zenon
    <3> QED BY <1>8, <3>1, <3>2, Zenon
  <2>5. DOMAIN blocks' \subseteq Hash /\ \A h \in DOMAIN blocks' : blocks'[h] \in DOMAIN election'
    BY <1>0, <1>3, <1>9, <2>2, <2>3, Zenon DEF IndexInv, EMaps
  <2>6. DOMAIN election' \subseteq Id
    BY <1>0, <1>4, <2>1, Zenon DEF IndexInv, EMaps
  <2>7. \A k \in DOMAIN election' : election'[k] \in Election /\ ElectionSound(election'[k])
    BY <1>11, <1>12, <2>1, Zenon
  <2> QED BY <2>4, <2>5, <2>6, <2>7, Zenon DEF EMaps
<1>14. IndexSound'
  <2>1. \A r \in DOMAIN roots' : election'[roots'[r]].root = r
    <3>1. ASSUME NEW r \in DOMAIN roots PROVE election'[roots'[r]].root = r
      <4>1. roots'[r] = roots[r] /\ roots[r] \in DOMAIN election /\ election[roots[r]].root = r
        BY <1>0, <1>8, Zenon DEF IndexInv, EMaps, IndexSound
      <4> QED BY <1>12, <4>1, Zenon
    <3>2. \A h \in new : election'[roots'[Root[h]]].root = Root[h]
      BY <1>8, <1>11, Zenon
    <3> QED BY <1>8, <3>1, <3>2, Zenon
  <2>2. \A h \in DOMAIN blocks' : h \in election'[blocks'[h]].blocks
    <3>1. \A h \in DOMAIN blocks : h \in election'[blocks'[h]].blocks
      BY <1>0, <1>9, <1>12, Zenon DEF IndexInv, EMaps, IndexSound
    <3>2. \A h \in new \ DOMAIN blocks : h \in election'[blocks'[h]].blocks
      BY <1>9, <1>11, Zenon
    <3> QED BY <1>9, <3>1, <3>2, Zenon
  <2> QED BY <2>1, <2>2, Zenon DEF IndexSound
<1>15. ASSUME ~erased PROVE IndexConsistent'
  <2> SUFFICES ASSUME stopper # "done"
               PROVE  /\ \A b \in DOMAIN blocks' : Root[b] \in DOMAIN roots' /\ blocks'[b] = roots'[Root[b]]
                      /\ \A r \in DOMAIN roots' : \A b \in election'[roots'[r]].blocks : b \in DOMAIN blocks'
    BY <1>2, <1>14, Zenon DEF IndexConsistent, IndexSound
  <2>1. /\ \A b \in DOMAIN blocks : Root[b] \in DOMAIN roots /\ blocks[b] = roots[Root[b]]
        /\ \A r \in DOMAIN roots : \A b \in election[roots[r]].blocks : b \in DOMAIN blocks
    BY <1>0, <1>15, Zenon DEF IndexInv, IndexConsistent
  <2>2. \A b \in DOMAIN blocks' : Root[b] \in DOMAIN roots' /\ blocks'[b] = roots'[Root[b]]
    BY <1>8, <1>9, <2>1, Zenon
  <2>3. \A r \in DOMAIN roots : \A b \in election'[roots'[r]].blocks : b \in DOMAIN blocks'
    <3>1. \A r \in DOMAIN roots : election'[roots'[r]].blocks = election[roots[r]].blocks
      BY <1>0, <1>8, <1>12, Zenon DEF IndexInv, EMaps
    <3> QED BY <1>9, <2>1, <3>1, Zenon
  <2>4. \A h \in new : \A b \in election'[roots'[Root[h]]].blocks : b \in DOMAIN blocks'
    <3>1. \A h \in new : election'[roots'[Root[h]]].blocks = {h}
      BY <1>8, <1>11, Zenon
    <3> QED BY <1>9, <3>1, Zenon
  <2> QED BY <1>8, <2>2, <2>3, <2>4, Zenon
<1>16. RootsStay' /\ InactiveFinished'
  <2>1. RootsStay'
    BY <1>1, <1>6, <1>8, Zenon DEF RootsStay
  <2>2. ASSUME NEW r \in done
        PROVE  LET f == election'[roots'[r]] IN
               IF r \in DOMAIN seen'
               THEN /\ f.confirmed /\ seen'[r].winner \in confirmed' /\ seen'[r].blocks \subseteq f.blocks
                    /\ f.blocks = seen'[r].blocks => f.winner = seen'[r].winner
               ELSE f.stopped
    <3> DEFINE k == roots[r]
    <3>1. r \in DOMAIN roots /\ k \in DOMAIN election /\ roots'[r] = k /\ Finished(election[k])
      BY <1>0, <1>6, <1>8, Zenon DEF IndexInv, EMaps
    <3>2. election[k].confirmed \/ election[k].stopped
      BY <3>1, Zenon DEF Finished
    <3>3. /\ election'[k].confirmed = election[k].confirmed /\ election'[k].stopped = election[k].stopped
          /\ election'[k].blocks = election[k].blocks /\ election'[k].winner = election[k].winner
      BY <1>12, <3>1, Zenon
    <3>4. election[k].confirmed => election[k].winner \in confirmed'
      BY <1>1, <1>7, Zenon
    <3>5. /\ r \in DOMAIN seen' <=> election[k].confirmed
          /\ r \in DOMAIN seen' => seen'[r] = [winner |-> election[k].winner, blocks |-> election[k].blocks]
      BY <1>1, <2>2, Zenon
    <3>6. r \in DOMAIN seen' => seen'[r].winner = election[k].winner /\ seen'[r].blocks = election[k].blocks
      BY <3>5
    <3> HIDE DEF k
    <3> QED BY <3>1, <3>2, <3>3, <3>4, <3>5, <3>6, Zenon
  <2>3. InactiveFinished'
    BY <1>1, <2>2, Zenon DEF InactiveFinished
  <2> QED BY <2>1, <2>3, Zenon
<1>17. IndexInv'
  BY <1>2, <1>13, <1>14, <1>15, <1>16, Zenon DEF IndexInv
<1>18. LoopInv'
  <2>1. confirmed' \subseteq Hash /\ inactive' \subseteq Range(Root)
    BY <1>0, <1>1, <1>6, <1>7, Zenon DEF LoopInv, IndexInv, EMaps
  <2> QED BY <1>0, <1>2, <2>1 DEF LoopInv
<1>19. ConfirmedWithQuorum /\ LeavesFinished
  <2>1. DOMAIN roots \subseteq DOMAIN roots'
    BY <1>8, Zenon
  <2> QED BY <1>12, <2>1, NoneLeave, NoneConfirmed, Zenon
<1> QED BY <1>0, <1>2, <1>17, <1>18, <1>19, VotingSame, StoredSame, OutgoingSame, ElectionsInvNext, Zenon DEF StepGood

-----------------------------------------------------------------------------
(* The steps that leave the elections alone                                 *)

LEMMA LoopExitStep == ASSUME ElectionsInv, LoopExit PROVE StepGood
<1>0. IndexInv /\ LoopInv /\ VotingInv /\ Outgoing /\ StoredInv
  BY ElectionsInvIs, Zenon
<1>1. /\ UNCHANGED <<roots, blocks, election, confirmed, inactive, seen, erased>> /\ stopper' = stopper /\ stopped' = stopped
      /\ loop = "scan" /\ loop' = "exit" /\ UNCHANGED <<voting, stored>> /\ UNCHANGED <<forced, background>>
  BY DEF LoopExit, index, control
<1>2. LoopInv'
  BY <1>0, <1>1 DEF LoopInv
<1> QED BY <1>0, <1>1, <1>2, IndexSame, VotingSame, StoredSame, OutgoingSame, ElectionsInvNext, Zenon DEF StepGood

LEMMA StopStep == ASSUME ElectionsInv, Stop PROVE StepGood
<1>0. IndexInv /\ LoopInv /\ VotingInv /\ Outgoing /\ StoredInv
  BY ElectionsInvIs, Zenon
<1>1. /\ UNCHANGED <<roots, blocks, election, confirmed, inactive, seen, erased>> /\ stopper = "none" /\ stopper' = "join"
      /\ stopped' = TRUE /\ loop' = loop /\ UNCHANGED <<voting, stored>> /\ UNCHANGED <<forced, background>>
  BY DEF Stop, index
<1>2. LoopInv' /\ stopper # "done"
  BY <1>0, <1>1 DEF LoopInv
<1> QED BY <1>0, <1>1, <1>2, IndexSame, VotingSame, StoredSame, OutgoingSame, ElectionsInvNext, Zenon DEF StepGood

LEMMA LedgerStep ==
    ASSUME ElectionsInv, UNCHANGED ledgerless, StoredInv', Outgoing' PROVE StepGood
<1>0. IndexInv /\ LoopInv /\ VotingInv
  BY ElectionsInvIs, Zenon
<1>1. /\ UNCHANGED <<roots, blocks, election, confirmed, inactive, seen, erased>> /\ stopper' = stopper
      /\ UNCHANGED <<confirmed, loop, inactive, seen, control>> /\ UNCHANGED voting
  BY DEF ledgerless, index, control
<1> QED BY <1>0, <1>1, IndexSame, LoopSame, VotingSame, ElectionsInvNext, Zenon DEF StepGood

LEMMA InsertStep == ASSUME ElectionsInv, NEW h \in Hash, Insert(h) PROVE StepGood
<1>0. Outgoing /\ StoredInv
  BY ElectionsInvIs, Zenon
<1>1. Rivals(h) = {} /\ stored' = stored \cup {h} /\ UNCHANGED ledgerless /\ UNCHANGED <<forced, background>>
  BY Zenon DEF Insert
<1>2. \A b \in stored : Root[b] = Root[h] => b = h
  BY <1>1, Zenon DEF Rivals
<1>3. StoredInv'
  BY <1>0, <1>1, <1>2, Zenon DEF StoredInv, NoRivals
<1> QED BY <1>0, <1>1, <1>3, OutgoingSame, LedgerStep, Zenon

LEMMA ForceNextStep == ASSUME ElectionsInv, ForceNext PROVE StepGood
<1>0. Outgoing /\ StoredInv
  BY ElectionsInvIs, Zenon
<1> DEFINE h == Head(forced)
           kept == stored \ Dependents(Rivals(h))
<1>1. /\ forced # <<>> /\ stored' \subseteq kept \cup {h} /\ forced' = Tail(forced) /\ background' = background
      /\ UNCHANGED ledgerless
  BY Zenon DEF ForceNext
<1>2. h \in Hash /\ Tail(forced) \in Seq(Hash) /\ Len(Tail(forced)) <= ForcedMax
  <2>1. forced \in Seq(Hash) /\ Len(forced) <= ForcedMax /\ ForcedMax \in Nat
    BY <1>0, LimitAssumption DEF Outgoing
  <2> QED BY <1>1, <2>1
<1> HIDE DEF h
<1>3. Rivals(h) \subseteq Dependents(Rivals(h))
  <2>1. Rivals(h) \subseteq Hash /\ stored \subseteq Hash
    BY <1>0, Zenon DEF Rivals, StoredInv
  <2> QED BY <2>1, DependentsInclude, Zenon
<1>4. \A b \in kept : b \in stored /\ (Root[b] = Root[h] => b = h)
  BY <1>3, Zenon DEF Rivals
<1> HIDE DEF kept
<1>5. StoredInv'
  BY <1>0, <1>1, <1>2, <1>4, Zenon DEF StoredInv, NoRivals
<1>6. Outgoing'
  BY <1>0, <1>1, <1>2, Zenon DEF Outgoing
<1> QED BY <1>1, <1>5, <1>6, LedgerStep, Zenon

LEMMA BackgroundStep ==
    ASSUME ElectionsInv, NEW t \in background, Lookup(t) \/ Notify(t) PROVE StepGood
<1>0. Outgoing /\ StoredInv
  BY ElectionsInvIs, Zenon
<1> DEFINE T == [hash : Hash, iteration : 0 .. RetryLimit, found : BOOLEAN]
<1>1. UNCHANGED ledgerless /\ UNCHANGED stored /\ forced' = forced
  BY Zenon DEF Lookup, Notify
<1>2. t \in T /\ background \subseteq T
  BY <1>0, Zenon DEF Outgoing
<1>3. [t EXCEPT !.found = TRUE] \in T
  BY <1>2
<1>4. t.iteration < RetryLimit => [t EXCEPT !.iteration = @ + 1] \in T
  BY <1>2, LimitAssumption
<1> HIDE DEF T
<1>5. background' \subseteq T
  <2>1. CASE Notify(t)
    BY <1>2, <2>1, Zenon DEF Notify
  <2>2. CASE Lookup(t)
    BY <1>2, <1>3, <1>4, <2>2, Zenon DEF Lookup
  <2> QED BY <2>1, <2>2, Zenon
<1>6. Outgoing'
  BY <1>0, <1>1, <1>5, Zenon DEF Outgoing, T
<1> QED BY <1>0, <1>1, <1>6, StoredSame, LedgerStep, Zenon

LEMMA StutterStep == ASSUME ElectionsInv, UNCHANGED evars PROVE StepGood
<1>0. Outgoing /\ StoredInv
  BY ElectionsInvIs, Zenon
<1>1. UNCHANGED ledgerless /\ UNCHANGED stored /\ UNCHANGED <<forced, background>>
  BY DEF evars, ledgerless
<1> QED BY <1>0, <1>1, StoredSame, OutgoingSame, LedgerStep, Zenon

-----------------------------------------------------------------------------
(* The theorems                                                             *)

LEMMA ElectionsStart == EInit => ElectionsInv
<1> SUFFICES ASSUME EInit PROVE ElectionsInv
  BY Zenon
<1>1. DOMAIN roots = {} /\ DOMAIN blocks = {} /\ DOMAIN election = {}
  BY DEF EInit
<1>2. IndexInv
  BY <1>1, Zenon DEF EInit, IndexInv, EMaps, IndexSound, IndexConsistent, RootsStay, InactiveFinished
<1>3. LoopInv /\ VotingInv /\ StoredInv
  <2>1. confirmed = {} /\ inactive = {} /\ loop = "scan" /\ stopper = "none" /\ stopped = FALSE /\ erased = FALSE
    BY Zenon DEF EInit
  <2>2. LoopInv
    BY <2>1 DEF LoopInv
  <2> QED BY <2>2, Zenon DEF EInit, VotingInv, StoredInv, NoRivals
<1>4. Outgoing
  BY LimitAssumption DEF EInit, Outgoing
<1> QED BY <1>2, <1>3, <1>4, ElectionsInvIs, Zenon

\* Every step keeps the invariant, confirms rightly and lets only finished elections go.
LEMMA ElectionsStep == ElectionsInv /\ [ENext]_evars => StepGood
<1> SUFFICES ASSUME ElectionsInv, [ENext]_evars PROVE StepGood
  BY Zenon
<1>1. ASSUME NEW h \in Startable, Start(h) PROVE StepGood
  <2>1. h \in Hash
    BY LimitAssumption, Zenon
  <2> QED BY <1>1, <2>1, StartStep, Zenon
<1>2. ASSUME NEW h \in Hash, Publish(h) PROVE StepGood
  BY <1>2, PublishStep, Zenon
<1>3. ASSUME NEW h \in Hash, Erase(h) PROVE StepGood
  BY <1>3, EraseStep, Zenon
<1>4. ASSUME NEW h \in Hash, Insert(h) PROVE StepGood
  BY <1>4, InsertStep, Zenon
<1>5. ASSUME NEW v \in Ballot, BeginVote(v) PROVE StepGood
  BY <1>5, BeginVoteStep, Zenon
<1>6. CASE VoteNext
  BY <1>6, VoteNextStep, Zenon
<1>7. CASE RequestConfirm
  BY <1>7, RequestConfirmStep, Zenon
<1>8. CASE Prune
  BY <1>8, PruneStep, Zenon
<1>9. CASE LoopExit
  BY <1>9, LoopExitStep, Zenon
<1>10. CASE Stop
  BY <1>10, StopStep, Zenon
<1>11. CASE StopJoin
  BY <1>11, StopJoinStep, Zenon
<1>12. CASE ForceNext
  BY <1>12, ForceNextStep, Zenon
<1>13. ASSUME NEW t \in background, Lookup(t) \/ Notify(t) PROVE StepGood
  BY <1>13, BackgroundStep, Zenon
<1>14. CASE UNCHANGED evars
  BY <1>14, StutterStep, Zenon
<1> QED BY <1>1, <1>2, <1>3, <1>4, <1>5, <1>6, <1>7, <1>8, <1>9, <1>10, <1>11, <1>12, <1>13, <1>14, Zenon DEF ENext

LEMMA ElectionsInvariant == ESpec => []ElectionsInv
<1>1. ElectionsInv /\ [ENext]_evars => ElectionsInv'
  BY ElectionsStep, Zenon DEF StepGood
<1> QED BY <1>1, ElectionsStart, PTL DEF ESpec

\* The two indexes of active_transactions describe the same elections and what
\* request_confirm found finished is still there when it removes it, for any blocks,
\* votes and representatives, and for every order of the threads' steps, as long
\* as no client has erased an election.
THEOREM ElectionsIndexedTheorem == ESpec => []ElectionsIndexed
<1>1. ElectionsInv => ElectionsIndexed
  BY Zenon DEF ElectionsInv, ElectionsIndexed
<1> QED BY <1>1, ElectionsInvariant, PTL

\* The winner of every undecided election is a block with the largest tally, and
\* release_assert of confirm_back holds, whatever the votes, their order and the weights.
THEOREM WinnerFollowsVotesTheorem == ESpec => []WinnerFollowsVotes
<1>1. ElectionsInv => WinnerFollowsVotes
  <2> SUFFICES ASSUME ElectionsInv PROVE WinnerLeads /\ LoneBlockWins
    BY Zenon DEF WinnerFollowsVotes
  <2>0. IndexInv
    BY ElectionsInvIs, Zenon
  <2>1. WinnerLeads
    BY <2>0, Zenon DEF IndexInv, EMaps, ElectionSound, WinnerLeads
  <2>2. ASSUME NEW h \in DOMAIN blocks, Cardinality(election[blocks[h]].blocks) = 1
        PROVE  election[blocks[h]].winner = h
    <3> DEFINE e == election[blocks[h]]
    <3>1. e \in Election /\ ElectionSound(e) /\ h \in e.blocks
      BY <2>0, Zenon DEF IndexInv, EMaps, IndexSound
    <3>2. IsFiniteSet(e.blocks)
      <4>1. e.blocks \subseteq Hash
        BY <3>1 DEF Election
      <4> QED BY <4>1, HashAssumption, FS_Subset, Zenon
    <3>3. PICK x : e.blocks = {x}
      BY <2>2, <3>2, FS_Singleton, Zenon
    <3> QED BY <3>1, <3>3, Zenon DEF ElectionSound
  <2> QED BY <2>1, <2>2, Zenon DEF LoneBlockWins
<1> QED BY <1>1, ElectionsInvariant, PTL

\* confirm_once takes effect once for an election, and only with a quorum of the votes for
\* its winner or for a block that rests on it, whatever the weights and the quorum are.
THEOREM ConfirmedRightlyTheorem == ESpec => ConfirmedRightly
<1>1. ElectionsInv => ConfirmedOnce
  BY ElectionsInvIs, Zenon DEF IndexInv, EMaps, ElectionSound, ConfirmedOnce
<1>2. ElectionsInv /\ [ENext]_evars => ElectionsInv' /\ ConfirmedWithQuorum
  BY ElectionsStep, Zenon DEF StepGood
<1>3. ElectionsInv' => ConfirmedOnce'
  BY <1>1, PTL
<1>4. ElectionsInv /\ [ENext]_evars => [ConfirmedOnce' /\ ConfirmedWithQuorum]_evars
  BY <1>2, <1>3, Zenon
<1> QED BY <1>4, ElectionsInvariant, PTL DEF ESpec, ConfirmedRightly

\* Unless a client erases elections or the node shuts down, request_confirm removes only
\* elections that it saw finished, a confirmed one after the block that had won went into
\* list_confirmed; that is the winner it leaves with unless a block was published to it since.
THEOREM OnlyFinishedLeaveTheorem == ESpec => OnlyFinishedLeave
<1>1. ElectionsInv /\ [ENext]_evars => [LeavesFinished \/ erased' \/ stopper' = "done"]_evars
  BY ElectionsStep, Zenon DEF StepGood
<1> QED BY <1>1, ElectionsInvariant, PTL DEF ESpec, OnlyFinishedLeave
=============================================================================
