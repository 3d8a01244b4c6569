------------------------------- MODULE Tables -------------------------------
(***************************************************************************)
(* Tables as partial functions: the LMDB tables of the ledger (mdb_put and *)
(* mdb_del) and the maps the node keeps in memory; and what is left of a   *)
(* queue when some of its elements are dropped.                            *)
(***************************************************************************)
EXTENDS Naturals, Sequences, FiniteSets, Functions

Put(table, key, value) ==
    [k \in DOMAIN table \cup {key} |-> IF k = key THEN value ELSE table[k]]
Del(table, key) == [k \in DOMAIN table \ {key} |-> table[k]]

\* The elements of s that are in S, in the order of s
Kept(s, S) ==
    LET kept[i \in 0 .. Len(s)] ==
            IF i = 0 THEN <<>>
            ELSE IF s[i] \in S THEN Append(kept[i - 1], s[i]) ELSE kept[i - 1]
    IN kept[Len(s)]

\* The elements of S, each once, in some order
InSomeOrder(S) == CHOOSE s \in [1 .. Cardinality(S) -> S] : IsInjective(s)
=============================================================================
