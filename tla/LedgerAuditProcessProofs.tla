---------------------- MODULE LedgerAuditProcessProofs ----------------------
(***************************************************************************)
(* Half of the proof that the tables of the ledger are a function of its   *)
(* blocks: ledger_processor keeps AuditInv, next to IInv.  What it means   *)
(* to append a block to a chain comes first, then the block types one by   *)
(* one.                                                                    *)
(***************************************************************************)
EXTENDS LedgerAudit, LedgerProofs
-----------------------------------------------------------------------------
(* The tables are finite, and their sums are bounded *)

FiniteTables ==
    /\ IsFiniteSet(Blocks) /\ Opened \subseteq Account /\ IsFiniteSet(Opened)
    /\ IsFiniteSet(PendingKeys)
    /\ \A a \in Opened : BalanceOf[a] = Info(a).balance /\ BalanceOf[a] \in Nat
    /\ \A k \in PendingKeys : AmountPending[k] = pending_get(k).amount /\ AmountPending[k] \in Nat
    /\ DOMAIN BalanceOf = Opened /\ DOMAIN AmountPending = PendingKeys

LEMMA TablesFinite == IInv => FiniteTables
<1> SUFFICES ASSUME IInv PROVE FiniteTables
  BY Zenon
<1>0. BlocksOK /\ AccountsOK /\ PendingOK
  BY TypeParts, Zenon DEF IInv
<1>1. IsFiniteSet(Blocks)
  BY <1>0, FiniteAssumption, FS_Subset, Zenon DEF Blocks, BlocksOK
<1>2. Opened \subseteq Account /\ IsFiniteSet(Opened)
  <2>1. Opened \subseteq Account
    BY <1>0, Zenon DEF Opened, AccountsOK, Epoch
  <2> QED BY <2>1, FiniteAssumption, FS_Subset, Zenon
<1>3. IsFiniteSet(PendingKeys)
  <2>1. PendingKeys \subseteq Link \X Hash
    BY <1>0, Zenon DEF PendingKeys, PendingOK, Epoch
  <2>2. IsFiniteSet(Link)
    <3>1. IsFiniteSet({Zero}) /\ IsFiniteSet({EpochLink})
      BY FS_Singleton, Zenon
    <3>2. IsFiniteSet(Hash \cup Account) /\ IsFiniteSet({Zero} \cup {EpochLink})
      BY <3>1, FiniteAssumption, FS_Union, Zenon
    <3>3. IsFiniteSet((Hash \cup Account) \cup ({Zero} \cup {EpochLink}))
      BY <3>2, FS_Union, Zenon
    <3>4. Link \subseteq (Hash \cup Account) \cup ({Zero} \cup {EpochLink})
      BY Zenon DEF Link, Key
    <3> QED BY <3>3, <3>4, FS_Subset, Zenon
  <2>3. IsFiniteSet(Link \X Hash)
    BY <2>2, FiniteAssumption, FS_Product, Zenon
  <2> QED BY <2>1, <2>3, FS_Subset, Zenon
<1>4. \A a \in Opened : BalanceOf[a] = Info(a).balance /\ BalanceOf[a] \in Nat
  <2> SUFFICES ASSUME NEW a \in Opened PROVE BalanceOf[a] = Info(a).balance /\ BalanceOf[a] \in Nat
    BY Zenon
  <2>1. BalanceOf[a] = Info(a).balance
    BY Zenon DEF BalanceOf
  <2>2. Info(a) \in AccountInfo
    BY <1>0, <1>2, InfoType, Zenon
  <2> QED BY <2>1, <2>2 DEF AccountInfo, Amount
<1>5. \A k \in PendingKeys : AmountPending[k] = pending_get(k).amount /\ AmountPending[k] \in Nat
  <2> SUFFICES ASSUME NEW k \in PendingKeys
               PROVE  AmountPending[k] = pending_get(k).amount /\ AmountPending[k] \in Nat
    BY Zenon
  <2>1. AmountPending[k] = pending_get(k).amount
    BY Zenon DEF AmountPending
  <2>2. pending_get(k) \in PendingInfo
    BY <1>0, PendingGet, Zenon DEF PendingKeys, pending_exists
  <2> QED BY <2>1, <2>2 DEF PendingInfo, Amount
<1> QED BY <1>1, <1>2, <1>3, <1>4, <1>5, Zenon DEF FiniteTables, BalanceOf, AmountPending

LEMMA TablesFiniteNext == IInv' => FiniteTables'
BY TablesFinite, PTL

\* A step that changes the entry of no account but a
OnlyAccount(a) ==
    /\ a \in Account
    /\ \A x \in Account \ {a} : /\ account_exists(x)' <=> account_exists(x)
                                /\ Info(x)' = Info(x)

Balances == SumFunction(BalanceOf)
Weight(r) == SumFunctionOnSet(BalanceOf, Delegators(r))
Taken(a, r) == IF a \in Delegators(r) THEN Info(a).balance ELSE 0

LEMMA BalancesChange ==
    ASSUME IInv, IInv', NEW a, OnlyAccount(a)
    PROVE  /\ Balances \in Nat /\ Balances' \in Nat
           /\ Info(a).balance \in Nat /\ Info(a)'.balance \in Nat
           /\ Info(a).balance <= Balances
           /\ Balances' = Balances - Info(a).balance + Info(a)'.balance
<1>0. FiniteTables /\ FiniteTables'
  BY TablesFinite, TablesFiniteNext, Zenon
<1>1. /\ Balances = SumFunctionOnSet(BalanceOf, Opened)
      /\ Balances' = SumFunctionOnSet(BalanceOf', Opened')
  BY <1>0, Zenon DEF FiniteTables, Balances, SumFunction
<1>2. Opened \ {a} = Opened' \ {a}
  BY <1>0, Zenon DEF OnlyAccount, FiniteTables, Opened, account_exists
<1>3. \A x \in Opened \ {a} : BalanceOf[x] = BalanceOf'[x]
  BY <1>0, <1>2, Zenon DEF OnlyAccount, FiniteTables
<1>4. /\ (IF a \in Opened THEN BalanceOf[a] ELSE 0) = Info(a).balance
      /\ (IF a \in Opened' THEN BalanceOf'[a] ELSE 0) = Info(a)'.balance
  BY <1>0, Zenon DEF FiniteTables, Info, Opened, account_exists
<1>5. /\ IsFiniteSet(Opened) /\ IsFiniteSet(Opened')
      /\ \A x \in Opened : BalanceOf[x] \in Nat
      /\ \A x \in Opened' : BalanceOf'[x] \in Nat
  BY <1>0, Zenon DEF FiniteTables
<1> QED BY ONLY <1>1, <1>2, <1>3, <1>4, <1>5, SumChange

LEMMA WeightChange ==
    ASSUME IInv, IInv', NEW a, OnlyAccount(a), NEW r
    PROVE  /\ Weight(r) \in Nat /\ Weight(r)' \in Nat
           /\ Taken(a, r) \in Nat /\ Taken(a, r)' \in Nat
           /\ Taken(a, r) <= Weight(r)
           /\ Weight(r)' = Weight(r) - Taken(a, r) + Taken(a, r)'
           /\ Weight(r)' <= Balances'
<1> DEFINE S == Delegators(r)
           T == Delegators(r)'
<1>0. FiniteTables /\ FiniteTables'
  BY TablesFinite, TablesFiniteNext, Zenon
<1>1. S \subseteq Opened /\ T \subseteq Opened'
  BY Zenon DEF Delegators
<1>2. Opened \ {a} = Opened' \ {a}
  BY <1>0, Zenon DEF OnlyAccount, FiniteTables, Opened, account_exists
<1>3. \A x \in Opened \ {a} : Info(x)' = Info(x) /\ BalanceOf[x] = BalanceOf'[x]
  BY <1>0, <1>2, Zenon DEF OnlyAccount, FiniteTables
<1>4. S \ {a} = T \ {a}
  BY <1>2, <1>3, Zenon DEF Delegators
<1>5. /\ (IF a \in S THEN BalanceOf[a] ELSE 0) = Taken(a, r)
      /\ (IF a \in T THEN BalanceOf'[a] ELSE 0) = Taken(a, r)'
  BY <1>0, <1>1, Zenon DEF FiniteTables, Taken
<1>6. /\ IsFiniteSet(S) /\ IsFiniteSet(T) /\ IsFiniteSet(Opened')
      /\ \A x \in S : BalanceOf[x] \in Nat
      /\ \A x \in T : BalanceOf'[x] \in Nat
      /\ \A x \in Opened' : BalanceOf'[x] \in Nat
  BY <1>0, <1>1, FS_Subset, Zenon DEF FiniteTables
<1>7. Weight(r) = SumFunctionOnSet(BalanceOf, S) /\ Weight(r)' = SumFunctionOnSet(BalanceOf', T)
  BY Zenon DEF Weight
<1>8. Balances' = SumFunctionOnSet(BalanceOf', Opened')
  BY <1>0, Zenon DEF FiniteTables, Balances, SumFunction
<1>9. \A x \in S \ {a} : BalanceOf[x] = BalanceOf'[x]
  BY <1>1, <1>3, Zenon
<1> HIDE DEF S, T
<1>10. SumFunctionOnSet(BalanceOf', T) <= SumFunctionOnSet(BalanceOf', Opened')
  BY ONLY <1>1, <1>6, SumSubset, Zenon
<1>11. /\ SumFunctionOnSet(BalanceOf, S) \in Nat /\ SumFunctionOnSet(BalanceOf', T) \in Nat
       /\ Taken(a, r) \in Nat /\ Taken(a, r)' \in Nat
       /\ Taken(a, r) <= SumFunctionOnSet(BalanceOf, S)
       /\ SumFunctionOnSet(BalanceOf', T)
            = SumFunctionOnSet(BalanceOf, S) - Taken(a, r) + Taken(a, r)'
  BY ONLY <1>4, <1>5, <1>6, <1>9, SumChange
<1> QED BY <1>7, <1>8, <1>10, <1>11, Zenon

\* Unsigned arithmetic without a wrap
LEMMA NoWrap ==
    ASSUME NEW x \in Amount
    PROVE  x % AmountLimit = x
BY AmountAssumption DEF Amount

LEMMA AddWeight ==
    ASSUME NEW table \in [Key -> Amount], NEW h, NEW amount, NEW r \in Key
    PROVE  representation_add(table, h, amount)[r] =
             IF r = Content[h].representative THEN (table[r] + amount) % AmountLimit ELSE table[r]
BY Zenon DEF representation_add

\* The balances and the amounts pending stay within the supply
Pendings == SumFunction(AmountPending)

\* A new weight that no sum of balances lets wrap
LEMMA WeightFits ==
    ASSUME IInv, IInv', Supply', NEW a, OnlyAccount(a), NEW r
    PROVE  Weight(r)' \in Amount
<1>1. Weight(r)' \in Nat /\ Weight(r)' <= Balances' /\ Balances' \in Nat
  BY WeightChange, BalancesChange, Zenon
<1>2. Pendings' \in Nat
  BY TablesFiniteNext, SumNat, Zenon DEF FiniteTables, Pendings, SumFunction
<1>3. Balances' + Pendings' = AmountLimit - 1
  BY Zenon DEF Supply, Balances, Pendings
<1>4. AmountLimit \in Nat
  BY AmountAssumption, Zenon
<1>5. Weight(r)' <= AmountLimit - 1
  <2>1. PICK w \in Nat, b \in Nat, p \in Nat : w = Weight(r)' /\ b = Balances' /\ p = Pendings'
    BY <1>1, <1>2, Zenon
  <2>2. w <= b /\ b + p = AmountLimit - 1
    BY <1>1, <1>3, <2>1, Zenon
  <2>3. w <= AmountLimit - 1
    BY <1>4, <2>2
  <2> QED BY <2>1, <2>3, Zenon
<1> QED BY <1>1, <1>4, <1>5 DEF Amount

RepOf(a) == Content[Info(a).rep_block].representative

\* Adding the difference to the one representative that is concerned
LEMMA WeightAdded ==
    ASSUME IInv, IInv', Supply', WeightIsDelegatedBalance, NEW a, OnlyAccount(a), NEW h, NEW amount,
           representation' = representation_add(representation, h, amount),
           amount = Info(a)'.balance - Info(a).balance,
           account_exists(a) => RepOf(a) = Content[h].representative,
           account_exists(a)' => RepOf(a)' = Content[h].representative
    PROVE  WeightIsDelegatedBalance'
<1> SUFFICES ASSUME NEW r \in Key PROVE representation'[r] = Weight(r)'
  BY Zenon DEF WeightIsDelegatedBalance, Weight
<1>1. /\ Weight(r) \in Nat /\ Weight(r)' \in Nat
      /\ Taken(a, r) \in Nat /\ Taken(a, r)' \in Nat
      /\ Weight(r)' = Weight(r) - Taken(a, r) + Taken(a, r)'
  BY WeightChange, Zenon
<1>2. representation[r] = Weight(r) /\ representation \in [Key -> Amount]
  BY TypeParts, Zenon DEF WeightIsDelegatedBalance, Weight, IInv
<1>3. Weight(r)' % AmountLimit = Weight(r)'
  BY WeightFits, NoWrap, Zenon
<1>4. CASE r = Content[h].representative
  <2>1. Taken(a, r) = Info(a).balance /\ Taken(a, r)' = Info(a)'.balance
    BY <1>4, Zenon DEF Taken, Delegators, Opened, RepOf, account_exists, Info
  <2>2. Weight(r)' = Weight(r) + amount
    BY <1>1, <2>1
  <2> QED BY <1>2, <1>3, <1>4, <2>2, AddWeight
<1>5. CASE r # Content[h].representative
  <2>1. Taken(a, r) = 0 /\ Taken(a, r)' = 0
    BY <1>5, Zenon DEF Taken, Delegators, Opened, RepOf, account_exists
  <2>2. Weight(r)' = Weight(r)
    BY <1>1, <2>1
  <2> QED BY <1>2, <1>5, <2>2, AddWeight
<1> QED BY <1>4, <1>5, Zenon

\* Moving the balance from the representative before to the one after
LEMMA WeightMoved ==
    ASSUME IInv, IInv', Supply', WeightIsDelegatedBalance, NEW a, OnlyAccount(a), NEW from, NEW to,
           representation' = MoveWeight(from, Info(a).balance, to, Info(a)'.balance),
           from # Zero, account_exists(a), account_exists(a)',
           RepOf(a) = Content[from].representative, RepOf(a)' = Content[to].representative
    PROVE  WeightIsDelegatedBalance'
<1> SUFFICES ASSUME NEW r \in Key PROVE representation'[r] = Weight(r)'
  BY Zenon DEF WeightIsDelegatedBalance, Weight
<1> DEFINE old == Info(a).balance
           new == Info(a)'.balance
           mid == representation_add(representation, from, -old)
<1>1. /\ Weight(r) \in Nat /\ Weight(r)' \in Nat
      /\ Taken(a, r) \in Nat /\ Taken(a, r)' \in Nat /\ Taken(a, r) <= Weight(r)
      /\ Weight(r)' = Weight(r) - Taken(a, r) + Taken(a, r)'
  BY WeightChange, Zenon
<1>2. representation[r] = Weight(r) /\ representation \in [Key -> Amount]
  BY TypeParts, Zenon DEF WeightIsDelegatedBalance, Weight, IInv
<1>3. Weight(r)' % AmountLimit = Weight(r)'
  BY WeightFits, NoWrap, Zenon
<1>4. old \in Nat /\ new \in Nat
  BY BalancesChange, Zenon
<1>5. /\ Taken(a, r) = IF r = Content[from].representative THEN old ELSE 0
      /\ Taken(a, r)' = IF r = Content[to].representative THEN new ELSE 0
  BY Zenon DEF Taken, Delegators, Opened, RepOf, account_exists
<1>6. representation' = representation_add(mid, to, new)
  BY Zenon DEF MoveWeight
<1>7. mid \in [Key -> Amount]
  <2>1. -old \in Int
    BY <1>4
  <2> QED BY <1>2, <2>1, WeightType, Zenon
<1> HIDE DEF mid, old, new
<1>8. mid[r] = Weight(r) - Taken(a, r)
  <2>1. mid[r] = IF r = Content[from].representative THEN (representation[r] + (-old)) % AmountLimit
                                                     ELSE representation[r]
    BY <1>2, AddWeight DEF mid
  <2>2. CASE r = Content[from].representative
    <3>1. Weight(r) - old \in Amount
      <4>1. Weight(r) \in Amount /\ old <= Weight(r)
        BY <1>1, <1>2, <1>5, <2>2, Zenon
      <4> QED BY <1>4, <4>1, AmountAssumption DEF Amount
    <3>2. representation[r] + (-old) = Weight(r) - old
      BY <1>1, <1>2, <1>4, Zenon
    <3> QED BY <1>5, <2>1, <2>2, <3>1, <3>2, NoWrap, Zenon
  <2>3. CASE r # Content[from].representative
    BY <1>1, <1>2, <1>5, <2>1, <2>3
  <2> QED BY <2>2, <2>3, Zenon
<1>9. representation'[r] = IF r = Content[to].representative THEN (mid[r] + new) % AmountLimit
                                                             ELSE mid[r]
  BY <1>6, <1>7, AddWeight
<1>10. CASE r = Content[to].representative
  <2>1. Taken(a, r)' = new
    BY <1>5, <1>10, Zenon
  <2>2. Weight(r)' = mid[r] + new
    BY <1>1, <1>8, <2>1, Zenon
  <2> QED BY <1>3, <1>9, <1>10, <2>2, Zenon
<1>11. CASE r # Content[to].representative
  BY <1>1, <1>5, <1>8, <1>9, <1>11
<1> QED BY <1>10, <1>11, Zenon
-----------------------------------------------------------------------------
(* The pending tables *)

USE AmountAssumption, NamesAssumption, ContentAssumption, GenesisAssumption, PreviousAssumption
    DEF Epoch

PendingAdded(key, amount, epoch) ==
    /\ key \notin PendingKeys /\ PendingKeys' = PendingKeys \cup {key}
    /\ pending_get(key)'.amount = amount /\ PendingEpoch(key)' = epoch
    /\ \A k \in PendingKeys : pending_get(k)' = pending_get(k) /\ PendingEpoch(k)' = PendingEpoch(k)

PendingTaken(key) ==
    /\ key \in PendingKeys /\ PendingKeys' = PendingKeys \ {key}
    /\ \A k \in PendingKeys' : pending_get(k)' = pending_get(k) /\ PendingEpoch(k)' = PendingEpoch(k)

LEMMA PendingPutAdds ==
    ASSUME IInv, NEW key, ~pending_exists(key), NEW source, NEW amount, NEW epoch \in Epoch,
           pending' = pending_put(key, [source |-> source, amount |-> amount], epoch)
    PROVE  PendingAdded(key, amount, epoch)
<1> DEFINE entry == [source |-> source, amount |-> amount]
<1>a. entry.amount = amount
  BY Zenon
<1>0. PendingOK /\ DOMAIN pending[0] \cap DOMAIN pending[1] = {}
  BY TypeParts, Zenon DEF IInv, PendingInv
<1>1. /\ DOMAIN pending'[epoch] = DOMAIN pending[epoch] \cup {key}
      /\ DOMAIN pending'[1 - epoch] = DOMAIN pending[1 - epoch]
      /\ pending'[epoch][key] = entry
      /\ \A k \in DOMAIN pending[epoch] \ {key} : pending'[epoch][k] = pending[epoch][k]
      /\ \A k \in DOMAIN pending[1 - epoch] : pending'[1 - epoch][k] = pending[1 - epoch][k]
  <2> HIDE DEF entry
  <2>1. pending' = pending_put(key, entry, epoch)
    BY Zenon DEF entry
  <2> QED BY <1>0, <2>1 DEF PendingOK, pending_put, Put, Epoch
<1> HIDE DEF entry
<1>2. CASE epoch = 0
  BY <1>a, <1>0, <1>1, <1>2 DEF PendingAdded, PendingKeys, pending_get, PendingEpoch, pending_exists
<1>3. CASE epoch = 1
  BY <1>a, <1>0, <1>1, <1>3 DEF PendingAdded, PendingKeys, pending_get, PendingEpoch, pending_exists
<1> QED BY <1>2, <1>3, Zenon DEF Epoch

LEMMA PendingDelTakes ==
    ASSUME IInv, NEW key, pending_exists(key), pending' = pending_del(key)
    PROVE  PendingTaken(key)
<1>0. PendingOK /\ DOMAIN pending[0] \cap DOMAIN pending[1] = {}
  BY TypeParts, Zenon DEF IInv, PendingInv
<1>1. \A e \in Epoch : /\ DOMAIN pending'[e] = DOMAIN pending[e] \ {key}
                       /\ \A k \in DOMAIN pending'[e] : pending'[e][k] = pending[e][k]
  BY <1>0 DEF PendingOK, pending_del, Del
<1> QED BY <1>0, <1>1 DEF PendingTaken, PendingKeys, pending_get, PendingEpoch, pending_exists, Epoch

\* The sum of what is pending grows and shrinks by the amount
LEMMA PendingsAdded ==
    ASSUME IInv, IInv', NEW key, NEW amount, NEW epoch, PendingAdded(key, amount, epoch)
    PROVE  Pendings \in Nat /\ Pendings' = Pendings + amount /\ amount \in Nat
<1>0. FiniteTables /\ FiniteTables'
  BY TablesFinite, TablesFiniteNext, Zenon
<1> DEFINE S == PendingKeys
           T == PendingKeys'
           f == AmountPending
           g == AmountPending'
<1>1. /\ IsFiniteSet(S) /\ IsFiniteSet(T)
      /\ \A x \in S : f[x] \in Nat
      /\ \A x \in T : g[x] \in Nat
      /\ Pendings = SumFunctionOnSet(f, S) /\ Pendings' = SumFunctionOnSet(g, T)
  BY <1>0, Zenon DEF FiniteTables, Pendings, SumFunction
<1>2. /\ key \notin S /\ key \in T /\ S \ {key} = T \ {key} /\ g[key] = amount
      /\ \A x \in S \ {key} : f[x] = g[x]
  BY <1>0 DEF FiniteTables, PendingAdded
<1> HIDE DEF S, T, f, g
<1>3. /\ SumFunctionOnSet(f, S) \in Nat /\ g[key] \in Nat
      /\ SumFunctionOnSet(g, T) = SumFunctionOnSet(f, S) - 0 + g[key]
  BY ONLY <1>1, <1>2, SumChange
<1> QED BY <1>1, <1>2, <1>3

LEMMA PendingsTaken ==
    ASSUME IInv, IInv', NEW key, PendingTaken(key)
    PROVE  LET amount == pending_get(key).amount
           IN /\ Pendings \in Nat /\ amount \in Nat
              /\ amount <= Pendings /\ Pendings' = Pendings - amount
<1>0. FiniteTables /\ FiniteTables'
  BY TablesFinite, TablesFiniteNext, Zenon
<1> DEFINE S == PendingKeys
           T == PendingKeys'
           f == AmountPending
           g == AmountPending'
           amount == pending_get(key).amount
<1>1. /\ IsFiniteSet(S) /\ IsFiniteSet(T)
      /\ \A x \in S : f[x] \in Nat
      /\ \A x \in T : g[x] \in Nat
      /\ Pendings = SumFunctionOnSet(f, S) /\ Pendings' = SumFunctionOnSet(g, T)
  BY <1>0, Zenon DEF FiniteTables, Pendings, SumFunction
<1>2. /\ key \in S /\ key \notin T /\ S \ {key} = T \ {key} /\ f[key] = amount
      /\ \A x \in S \ {key} : f[x] = g[x]
  BY <1>0 DEF FiniteTables, PendingTaken
<1> HIDE DEF S, T, f, g, amount
<1>3. /\ SumFunctionOnSet(f, S) \in Nat /\ f[key] \in Nat /\ f[key] <= SumFunctionOnSet(f, S)
      /\ SumFunctionOnSet(g, T) = SumFunctionOnSet(f, S) - f[key] + 0
  BY ONLY <1>1, <1>2, SumChange
<1>4. Pendings \in Nat /\ amount \in Nat /\ amount <= Pendings /\ Pendings' = Pendings - amount
  BY <1>1, <1>2, <1>3
<1> QED BY <1>4, Zenon DEF amount
-----------------------------------------------------------------------------
(* What block_put and change_latest do when h becomes the head of account a *)

Grown(h, a, rep_block, balance, epoch) ==
    /\ h \in Hash \ Blocks /\ h # Genesis
    /\ Content[h].previous = Info(a).head
    /\ Blocks' = Blocks \cup {h}
    /\ blocks'[h] = [account |-> a, successor |-> Zero, balance |-> balance,
                     height |-> Info(a).block_count + 1, epoch |-> epoch]
    /\ \A k \in Blocks : blocks'[k] = IF k = Content[h].previous
                                      THEN [blocks[k] EXCEPT !.successor = h]
                                      ELSE blocks[k]
    /\ OnlyAccount(a)
    /\ \A x \in Account \ {a} : EpochOf(x)' = EpochOf(x)
    /\ account_exists(a)'
    /\ Info(a)' = [head |-> h, rep_block |-> rep_block,
                   open_block |-> IF account_exists(a) THEN Info(a).open_block ELSE h,
                   balance |-> balance, block_count |-> Info(a).block_count + 1]
    /\ EpochOf(a)' = epoch

\* change_latest with a block, for all fields of the entry
LEMMA ChangeLatestEntry ==
    ASSUME IInv, NEW a \in Account, NEW hash, hash # Zero, NEW rep_block, NEW balance, NEW count,
           NEW epoch \in Epoch,
           accounts' = change_latest(a, hash, rep_block, balance, count, epoch)
    PROVE  /\ OnlyAccount(a)
           /\ \A x \in Account \ {a} : EpochOf(x)' = EpochOf(x)
           /\ account_exists(a)'
           /\ Info(a)' = [head |-> hash, rep_block |-> rep_block,
                          open_block |-> IF account_exists(a) THEN Info(a).open_block ELSE hash,
                          balance |-> balance, block_count |-> count]
           /\ EpochOf(a)' = epoch
<1> DEFINE entry == [head |-> hash, rep_block |-> rep_block,
                     open_block |-> IF account_exists(a) THEN Info(a).open_block ELSE hash,
                     balance |-> balance, block_count |-> count]
           moved == IF account_exists(a) /\ EpochOf(a) # epoch THEN account_del(accounts, a) ELSE accounts
<1>0. AccountsOK /\ DOMAIN accounts[0] \cap DOMAIN accounts[1] = {}
  BY TypeParts, Zenon DEF IInv, HeadInv
<1>1. accounts' = [moved EXCEPT ![epoch] = Put(@, a, entry)]
  BY Zenon DEF change_latest
<1> HIDE DEF entry
<1>2. /\ DOMAIN moved = Epoch
      /\ DOMAIN moved[1 - epoch] = DOMAIN accounts[1 - epoch] \ {a}
      /\ DOMAIN moved[epoch] \ {a} = DOMAIN accounts[epoch] \ {a}
      /\ \A e \in Epoch : \A x \in DOMAIN moved[e] \ {a} : moved[e][x] = accounts[e][x]
  <2>1. CASE account_exists(a) /\ EpochOf(a) # epoch
    BY <1>0, <2>1 DEF AccountsOK, account_del, Del, account_exists, EpochOf
  <2>2. CASE ~(account_exists(a) /\ EpochOf(a) # epoch)
    BY <1>0, <2>2 DEF AccountsOK, account_exists, EpochOf
  <2> QED BY <2>1, <2>2, Zenon
<1> HIDE DEF moved
<1>3. /\ DOMAIN accounts'[epoch] = (DOMAIN accounts[epoch] \ {a}) \cup {a}
      /\ DOMAIN accounts'[1 - epoch] = DOMAIN accounts[1 - epoch] \ {a}
      /\ accounts'[epoch][a] = entry
      /\ \A e \in Epoch : \A x \in DOMAIN accounts'[e] \ {a} : accounts'[e][x] = accounts[e][x]
  BY <1>1, <1>2 DEF Put
<1>4. CASE epoch = 0
  BY <1>0, <1>3, <1>4 DEF OnlyAccount, account_exists, Info, EpochOf, entry
<1>5. CASE epoch = 1
  BY <1>0, <1>3, <1>5 DEF OnlyAccount, account_exists, Info, EpochOf, entry
<1> QED BY <1>4, <1>5, Zenon

LEMMA PutIsGrown ==
    ASSUME IInv, NEW h \in Hash \ DOMAIN blocks, NEW a \in Account,
           Content[h].previous = Info(a).head,
           NEW balance, NEW epoch \in Epoch, NEW rep_block,
           blocks' = block_put(h, a, balance, Info(a).block_count + 1, epoch),
           accounts' = change_latest(a, h, rep_block, balance, Info(a).block_count + 1, epoch)
    PROVE  Grown(h, a, rep_block, balance, epoch)
<1>1. /\ Blocks' = Blocks \cup {h}
      /\ blocks'[h] = [account |-> a, successor |-> Zero, balance |-> balance,
                       height |-> Info(a).block_count + 1, epoch |-> epoch]
      /\ \A k \in Blocks : blocks'[k] = IF k = Content[h].previous
                                        THEN [blocks[k] EXCEPT !.successor = h]
                                        ELSE blocks[k]
  BY Zenon DEF block_put, Blocks
<1>2. h \in Hash \ Blocks /\ h # Genesis /\ h # Zero
  BY DEF Blocks, IInv, ChainInv
<1> DEFINE count == Info(a).block_count + 1
<1> HIDE DEF count
<1>3. /\ OnlyAccount(a)
      /\ \A x \in Account \ {a} : EpochOf(x)' = EpochOf(x)
      /\ account_exists(a)'
      /\ Info(a)' = [head |-> h, rep_block |-> rep_block,
                     open_block |-> IF account_exists(a) THEN Info(a).open_block ELSE h,
                     balance |-> balance, block_count |-> count]
      /\ EpochOf(a)' = epoch
  <2>1. accounts' = change_latest(a, h, rep_block, balance, count, epoch)
    BY Zenon DEF count
  <2> QED BY <1>2, <2>1, ChangeLatestEntry
<1> QED BY <1>1, <1>2, <1>3, Zenon DEF Grown, count

\* The fields of a block that is already there: only the successor may change
LEMMA GrownBlocks ==
    ASSUME IInv, NEW h, NEW a, NEW rep_block, NEW balance, NEW epoch, Grown(h, a, rep_block, balance, epoch)
    PROVE  /\ \A k \in Blocks : /\ blocks'[k].account = blocks[k].account
                                /\ blocks'[k].balance = blocks[k].balance
                                /\ blocks'[k].epoch = blocks[k].epoch
                                /\ blocks'[k].successor = IF k = Content[h].previous THEN h
                                                          ELSE blocks[k].successor
           /\ blocks'[h].account = a /\ blocks'[h].balance = balance
           /\ blocks'[h].epoch = epoch /\ blocks'[h].successor = Zero
           /\ Zero \notin Blocks /\ a \in Account /\ h # Zero
           /\ \A k \in Blocks : Content[k].previous # Zero => Content[k].previous \in Blocks
<1>0. BlocksOK /\ ChainInv
  BY TypeParts, Zenon DEF IInv
<1>1. \A k \in Blocks : blocks[k] \in Sideband
  BY <1>0, Zenon DEF BlocksOK, Blocks
<1>2. ASSUME NEW k \in Blocks
      PROVE  /\ blocks'[k].account = blocks[k].account
             /\ blocks'[k].balance = blocks[k].balance
             /\ blocks'[k].epoch = blocks[k].epoch
             /\ blocks'[k].successor = IF k = Content[h].previous THEN h ELSE blocks[k].successor
  <2>1. CASE k = Content[h].previous
    <3>1. blocks'[k] = [blocks[k] EXCEPT !.successor = h] /\ blocks[k] \in Sideband
      BY <1>1, <2>1, Zenon DEF Grown
    <3> QED BY <2>1, <3>1, Zenon DEF Sideband
  <2>2. CASE k # Content[h].previous
    <3>1. blocks'[k] = blocks[k]
      BY <2>2, Zenon DEF Grown
    <3> QED BY <2>2, <3>1, Zenon
  <2> QED BY <2>1, <2>2, Zenon
<1>3. /\ blocks'[h].account = a /\ blocks'[h].balance = balance
      /\ blocks'[h].epoch = epoch /\ blocks'[h].successor = Zero
  BY DEF Grown
<1> QED BY <1>0, <1>2, <1>3 DEF Grown, OnlyAccount, BlocksOK, ChainInv, Blocks

LEMMA GrownLinks ==
    ASSUME IInv, IInv', LinkInv, NEW h, NEW a, NEW rep_block, NEW balance, NEW epoch,
           Grown(h, a, rep_block, balance, epoch)
    PROVE  LinkInv'
<1> DEFINE p == Content[h].previous
<1>0. /\ Content[h].previous = p
      /\ Blocks' = Blocks \cup {h} /\ h \notin Blocks /\ p = Info(a).head
      /\ account_exists(a)' /\ Info(a)'.head = h
      /\ \A x \in Account \ {a} : (account_exists(x)' <=> account_exists(x)) /\ Info(x)' = Info(x)
  BY DEF Grown, OnlyAccount
<1>1. /\ \A k \in Blocks : /\ blocks'[k].account = blocks[k].account
                           /\ blocks'[k].successor = IF k = p THEN h ELSE blocks[k].successor
      /\ blocks'[h].account = a /\ blocks'[h].successor = Zero
      /\ Zero \notin Blocks /\ a \in Account /\ h # Zero
      /\ \A k \in Blocks : Content[k].previous # Zero => Content[k].previous \in Blocks
  BY GrownBlocks
<1>2. /\ \A k \in Blocks : blocks[k].account \in Account
      /\ \A x \in Account : account_exists(x) => Info(x).head \in Blocks /\ blocks[Info(x).head].account = x
      /\ ~account_exists(a) => Info(a).head = Zero
      /\ Opened' \subseteq Account
      /\ \A x : x \in Opened <=> account_exists(x)
      /\ \A x : x \in Opened' <=> account_exists(x)'
  <2>1. BlocksOK /\ HeadInv
    BY TypeParts, Zenon DEF IInv
  <2>2. Opened' \subseteq Account
    BY TablesFiniteNext, Zenon DEF FiniteTables
  <2>3. \A k \in Blocks : blocks[k].account \in Account
    BY <2>1, Zenon DEF BlocksOK, Sideband, Blocks
  <2>4. ~account_exists(a) => Info(a).head = Zero
    BY Zenon DEF Info
  <2> QED BY <2>1, <2>2, <2>3, <2>4, Zenon DEF HeadInv, Blocks, Opened, account_exists
<1> HIDE DEF p
<1>3. ASSUME NEW x \in Opened' PROVE blocks'[Info(x)'.head].successor = Zero
  <2>1. CASE x = a
    BY <1>0, <1>1, <2>1, Zenon
  <2>2. CASE x # a
    <3>1. x \in Opened /\ Info(x)' = Info(x) /\ Info(x).head \in Blocks
          /\ blocks[Info(x).head].account = x
      BY <1>0, <1>2, <2>2, Zenon
    <3>2. Info(x).head # p
      BY <1>0, <1>1, <1>2, <2>2, <3>1
    <3> QED BY <1>1, <3>1, <3>2 DEF LinkInv
  <2> QED BY <2>1, <2>2, Zenon
<1>4. ASSUME NEW k \in Blocks
      PROVE  /\ blocks'[k].successor = Zero => k = Info(blocks[k].account)'.head
             /\ Content[k].previous # Zero => blocks'[Content[k].previous].successor = k
             /\ blocks'[k].successor # Zero =>
                  /\ blocks'[k].successor \in Blocks'
                  /\ Content[blocks'[k].successor].previous = k
  <2>0. /\ blocks[k].successor = Zero => k = Info(blocks[k].account).head
        /\ Content[k].previous # Zero => blocks[Content[k].previous].successor = k
        /\ blocks[k].successor # Zero => /\ blocks[k].successor \in Blocks
                                         /\ Content[blocks[k].successor].previous = k
    BY Zenon DEF LinkInv
  <2>1. blocks'[k].successor = Zero => k = Info(blocks[k].account)'.head
    <3> SUFFICES ASSUME blocks'[k].successor = Zero PROVE k = Info(blocks[k].account)'.head
      BY Zenon
    <3>1. k # p /\ k = Info(blocks[k].account).head
      BY <1>1, <2>0, Zenon
    <3>2. PICK x \in Account : x = blocks[k].account
      BY <1>2, Zenon
    <3>3. x # a /\ k = Info(x)'.head
      BY <1>0, <3>1, <3>2, Zenon
    <3>4. blocks'[k].account = x
      BY <1>1, <3>2, Zenon
    <3> QED BY <3>3, <3>4, Zenon DEF Info, EpochOf, account_exists
  <2>2. Content[k].previous # Zero => blocks'[Content[k].previous].successor = k
    <3> SUFFICES ASSUME Content[k].previous # Zero PROVE blocks'[Content[k].previous].successor = k
      BY Zenon
    <3>1. Content[k].previous \in Blocks /\ k # Zero
      BY <1>1, Zenon
    <3>2. account_exists(a) => blocks[p].successor = Zero
      BY <1>0, <1>2 DEF LinkInv
    <3>3. Content[k].previous # p
      BY <1>0, <1>1, <1>2, <2>0, <3>1, <3>2, Zenon
    <3> QED BY <1>1, <2>0, <3>1, <3>3, Zenon
  <2>3. blocks'[k].successor # Zero => /\ blocks'[k].successor \in Blocks'
                                       /\ Content[blocks'[k].successor].previous = k
    BY <1>0, <1>1, <2>0, Zenon
  <2> QED BY <2>1, <2>2, <2>3, Zenon
<1>5. p # Zero => blocks'[p].successor = h
  BY <1>0, <1>1, <1>2
<1>6. ASSUME NEW k \in Blocks'
      PROVE  /\ blocks'[k].successor = Zero => k = Info(blocks[k].account)'.head
             /\ Content[k].previous # Zero => blocks'[Content[k].previous].successor = k
             /\ blocks'[k].successor # Zero =>
                  /\ blocks'[k].successor \in Blocks'
                  /\ Content[blocks'[k].successor].previous = k
  BY <1>0, <1>1, <1>4, <1>5, Zenon
<1> QED BY <1>3, <1>6, Zenon DEF LinkInv

LEMMA GrownInfo ==
    ASSUME IInv, IInv', InfoInv, NEW h, NEW a, NEW balance, NEW epoch,
           Grown(h, a, RepBlock[h], balance, epoch)
    PROVE  InfoInv'
<1>0. /\ Blocks' = Blocks \cup {h} /\ h \notin Blocks /\ Content[h].previous = Info(a).head
      /\ account_exists(a)' /\ EpochOf(a)' = epoch
      /\ Info(a)'.head = h /\ Info(a)'.rep_block = RepBlock[h]
      /\ Info(a)'.open_block = IF account_exists(a) THEN Info(a).open_block ELSE h
      /\ Info(a)'.block_count = Info(a).block_count + 1
      /\ \A x \in Account \ {a} : /\ account_exists(x)' <=> account_exists(x)
                                  /\ Info(x)' = Info(x) /\ EpochOf(x)' = EpochOf(x)
  BY DEF Grown, OnlyAccount
<1>1. /\ \A k \in Blocks : blocks'[k].account = blocks[k].account /\ blocks'[k].epoch = blocks[k].epoch
      /\ blocks'[h].account = a /\ blocks'[h].epoch = epoch /\ a \in Account
  BY GrownBlocks
<1>2. /\ IsFiniteSet(Blocks) /\ Opened' \subseteq Account
      /\ \A x : x \in Opened <=> account_exists(x)
      /\ \A x : x \in Opened' <=> account_exists(x)'
  BY TablesFinite, TablesFiniteNext, Zenon DEF FiniteTables, Opened, account_exists
<1>3. ASSUME NEW x \in Opened', x # a
      PROVE  /\ Info(x)'.rep_block = RepBlock[Info(x)'.head]
             /\ Info(x)'.open_block \in Chain(x)'
             /\ Content[Info(x)'.open_block].previous = Zero
             /\ Info(x)'.block_count = Cardinality(Chain(x)')
             /\ EpochOf(x)' = blocks'[Info(x)'.head].epoch
  <2>1. x \in Opened /\ Info(x)' = Info(x) /\ EpochOf(x)' = EpochOf(x)
    BY <1>0, <1>2, <1>3, Zenon
  <2>2. Chain(x)' = Chain(x)
    <3>1. \A k \in Blocks' : k \in Chain(x)' <=> blocks'[k].account = x
      BY Zenon DEF Chain
    <3>2. \A k \in Blocks : k \in Chain(x) <=> blocks[k].account = x
      BY Zenon DEF Chain
    <3>3. Chain(x) \subseteq Blocks /\ Chain(x)' \subseteq Blocks'
      BY Zenon DEF Chain
    <3>4. \A k : k \in Chain(x)' <=> k \in Chain(x)
      BY <1>0, <1>1, <1>3, <3>1, <3>2, <3>3
    <3> QED BY <3>4, Zenon
  <2>3. Info(x).head \in Blocks
    BY <1>2, <2>1, Zenon DEF IInv, HeadInv, Blocks
  <2> QED BY <1>1, <2>1, <2>2, <2>3 DEF InfoInv
<1>4. /\ Info(a)'.open_block \in Chain(a)'
      /\ Content[Info(a)'.open_block].previous = Zero
  <2>1. CASE account_exists(a)
    <3>1. /\ Info(a).open_block \in Blocks /\ blocks[Info(a).open_block].account = a
          /\ Content[Info(a).open_block].previous = Zero
      BY <1>2, <2>1, Zenon DEF InfoInv, Chain
    <3>2. Info(a)'.open_block = Info(a).open_block
      BY <1>0, <2>1, Zenon
    <3> QED BY <1>0, <1>1, <3>1, <3>2 DEF Chain
  <2>2. CASE ~account_exists(a)
    <3>1. Info(a).head = Zero
      BY <2>2, Zenon DEF Info
    <3> QED BY <1>0, <1>1, <2>2, <3>1, Zenon DEF Chain
  <2> QED BY <2>1, <2>2, Zenon
<1>5. Info(a)'.block_count = Cardinality(Chain(a)')
  <2>1. Chain(a)' = Chain(a) \cup {h} /\ h \notin Chain(a)
    BY <1>0, <1>1 DEF Chain
  <2>2. IsFiniteSet(Chain(a))
    BY <1>2, FS_Subset, Zenon DEF Chain
  <2>3. Cardinality(Chain(a)') = Cardinality(Chain(a)) + 1
    BY <2>1, <2>2, FS_AddElement, Zenon
  <2>4. Info(a).block_count = Cardinality(Chain(a))
    <3>1. CASE account_exists(a)
      BY <1>2, <3>1, Zenon DEF InfoInv
    <3>2. CASE ~account_exists(a)
      <4>1. Chain(a) = {}
        BY <3>2 DEF Chain, IInv, HeadInv, Blocks
      <4> QED BY <3>2, <4>1, FS_EmptySet, Zenon DEF Info
    <3> QED BY <3>1, <3>2, Zenon
  <2> QED BY <1>0, <2>3, <2>4, Zenon
<1>6. ASSUME NEW x \in Opened'
      PROVE  /\ Info(x)'.rep_block = RepBlock[Info(x)'.head]
             /\ Info(x)'.open_block \in Chain(x)'
             /\ Content[Info(x)'.open_block].previous = Zero
             /\ Info(x)'.block_count = Cardinality(Chain(x)')
             /\ EpochOf(x)' = blocks'[Info(x)'.head].epoch
  BY <1>0, <1>1, <1>3, <1>4, <1>5, Zenon
<1> QED BY <1>6, Zenon DEF InfoInv

\* What a block says about its chain, for one block
ValueOK(h) ==
    LET p == Content[h].previous
    IN /\ RepBlock[h] # Zero
       /\ Content[h].type \in LegacyType => blocks[h].epoch = 0
       /\ p # Zero => blocks[p].epoch <= blocks[h].epoch
       /\ Content[h].type \in {"send", "state"} => blocks[h].balance = Content[h].balance
       /\ SendBlock(h) => blocks[h].balance <= Balance(p)
       /\ ~SendBlock(h) /\ h # Genesis =>
            blocks[h].balance = Balance(p) + (IF Received(h) = Zero THEN 0
                                              ELSE AmountOf(Received(h)))
       /\ Content[h].type \in {"receive", "open"} /\ h # Genesis =>
            blocks[Content[h].link].epoch = 0

LEMMA ValueParts == ValueInv <=> \A h \in Blocks : ValueOK(h)
BY Zenon DEF ValueInv, ValueOK

LEMMA ValuePartsNext == ValueInv' <=> \A h \in Blocks' : ValueOK(h)'
BY Zenon DEF ValueInv, ValueOK

\* The amount of a block whose previous block did not change
LEMMA AmountStable ==
    ASSUME NEW k, k # Zero, blocks'[k].balance = blocks[k].balance,
           Content[k].previous # Zero =>
               blocks'[Content[k].previous].balance = blocks[Content[k].previous].balance
    PROVE  /\ AmountOf(k)' = AmountOf(k)
           /\ Balance(Content[k].previous)' = Balance(Content[k].previous)
           /\ SendBlock(k)' <=> SendBlock(k)
           /\ Received(k)' = Received(k)
<1>1. Balance(Content[k].previous)' = Balance(Content[k].previous)
  BY Zenon DEF Balance
<1>2. Balance(k)' = Balance(k)
  BY Zenon DEF Balance
<1>3. is_send(k)' <=> is_send(k)
  BY <1>1, Zenon DEF is_send
<1> QED BY <1>1, <1>2, <1>3, Zenon DEF AmountOf, SendBlock, Received, block_source, is_epoch_link

LEMMA GrownStable ==
    ASSUME IInv, NEW h, NEW a, NEW rep_block, NEW balance, NEW epoch,
           Grown(h, a, rep_block, balance, epoch), NEW k \in Blocks
    PROVE  /\ AmountOf(k)' = AmountOf(k)
           /\ Balance(Content[k].previous)' = Balance(Content[k].previous)
           /\ SendBlock(k)' <=> SendBlock(k)
           /\ Received(k)' = Received(k)
<1>1. k # Zero /\ blocks'[k].balance = blocks[k].balance
  BY GrownBlocks
<1>2. Content[k].previous # Zero =>
          blocks'[Content[k].previous].balance = blocks[Content[k].previous].balance
  BY GrownBlocks, Zenon
<1> QED BY <1>1, <1>2, AmountStable, Zenon

LEMMA GrownValues ==
    ASSUME IInv, ValueInv, NEW h, NEW a, NEW rep_block, NEW balance, NEW epoch,
           Grown(h, a, rep_block, balance, epoch), ValueOK(h)'
    PROVE  ValueInv'
<1>1. ASSUME NEW k \in Blocks PROVE ValueOK(k)'
  <2>0. ValueOK(k)
    BY ValueParts, Zenon
  <2>1. /\ AmountOf(k)' = AmountOf(k)
        /\ Balance(Content[k].previous)' = Balance(Content[k].previous)
        /\ SendBlock(k)' <=> SendBlock(k)
        /\ Received(k)' = Received(k)
    BY GrownStable, Zenon
  <2>2. /\ blocks'[k].balance = blocks[k].balance /\ blocks'[k].epoch = blocks[k].epoch
        /\ Content[k].previous # Zero =>
             blocks'[Content[k].previous].epoch = blocks[Content[k].previous].epoch
    BY GrownBlocks, Zenon
  <2>3. Received(k) # Zero => AmountOf(Received(k))' = AmountOf(Received(k))
    <3> SUFFICES ASSUME Received(k) # Zero PROVE AmountOf(Received(k))' = AmountOf(Received(k))
      BY Zenon
    <3>1. PICK s \in Blocks : s = Received(k)
      BY Zenon DEF IInv, PendingInv, Blocks
    <3>2. AmountOf(s)' = AmountOf(s)
      BY GrownStable, Zenon
    <3>3. Received(k)' = s
      BY <2>1, <3>1, Zenon
    <3> QED BY <3>1, <3>2, <3>3, Zenon DEF AmountOf, Balance
  <2>4. Content[k].type \in {"receive", "open"} /\ k # Genesis =>
            blocks'[Content[k].link].epoch = blocks[Content[k].link].epoch
    <3> SUFFICES ASSUME Content[k].type \in {"receive", "open"}, k # Genesis
                 PROVE  blocks'[Content[k].link].epoch = blocks[Content[k].link].epoch
      BY Zenon
    <3>1. Content[k].link \in Hash
      BY Zenon DEF IInv, LegacyInv, Blocks
    <3>2. Received(k) = Content[k].link /\ Received(k) # Zero
      BY <3>1, Zenon DEF Received, block_source, is_epoch_link
    <3>3. Content[k].link \in Blocks
      BY <3>2, Zenon DEF IInv, PendingInv, Blocks
    <3> QED BY <3>3, GrownBlocks, Zenon
  <2> QED BY <2>0, <2>1, <2>2, <2>3, <2>4, Zenon DEF ValueOK
<1>2. Blocks' = Blocks \cup {h}
  BY Zenon DEF Grown
<1> QED BY <1>1, <1>2, ValuePartsNext, Zenon

\* The frontier of the account follows its head
LEMMA GrownFrontiers ==
    ASSUME IInv, IInv', FrontierInv, NEW h, NEW a, NEW rep_block, NEW balance, NEW epoch,
           Grown(h, a, rep_block, balance, epoch),
           DOMAIN frontiers \ {Info(a).head} \subseteq DOMAIN frontiers',
           Content[h].type \in LegacyType => h \in DOMAIN frontiers'
    PROVE  FrontierInv'
<1> SUFFICES ASSUME NEW x \in Opened', Content[Info(x)'.head].type \in LegacyType
             PROVE  Info(x)'.head \in DOMAIN frontiers'
  BY Zenon DEF FrontierInv
<1>1. CASE x = a
  BY <1>1 DEF Grown
<1>2. CASE x # a
  <2>1. x \in Account
    BY TablesFiniteNext, Zenon DEF FiniteTables
  <2>2. account_exists(x) /\ x \in Opened /\ Info(x)' = Info(x)
    BY <1>2, <2>1, Zenon DEF Grown, OnlyAccount, Opened, account_exists
  <2>3. blocks[Info(x).head].account = x /\ Info(x).head \in Blocks
    BY <2>1, <2>2, Zenon DEF IInv, HeadInv, Blocks
  <2>4. Info(x).head # Info(a).head
    <3>1. account_exists(a) => blocks[Info(a).head].account = a
      BY Zenon DEF IInv, HeadInv, Grown, OnlyAccount
    <3>2. ~account_exists(a) => Info(a).head = Zero
      BY Zenon DEF Info
    <3>3. Zero \notin Blocks
      BY GrownBlocks, Zenon
    <3> QED BY <1>2, <2>3, <3>1, <3>2, <3>3, Zenon
  <2> QED BY <2>2, <2>4, Zenon DEF FrontierInv
<1> QED BY <1>1, <1>2, Zenon

\* The sums before and after, as numbers
LEMMA SupplySums == Supply <=> Balances + Pendings = AmountLimit - 1
BY Zenon DEF Supply, Balances, Pendings

LEMMA SupplySumsNext == Supply' <=> Balances' + Pendings' = AmountLimit - 1
BY Zenon DEF Supply, Balances, Pendings

\* An amount goes from the balance of an account to the pending tables, or back
LEMMA SupplyKept ==
    ASSUME IInv, IInv', Supply, NEW a, OnlyAccount(a), NEW d \in Int,
           Pendings' = Pendings + d, Info(a)'.balance = Info(a).balance - d
    PROVE  Supply'
<1>1. PICK b \in Nat, o \in Nat, p \in Nat :
          b = Balances /\ o = Info(a).balance /\ p = Pendings /\ Balances' = b - o + Info(a)'.balance
  <2>1. Pendings \in Nat
    BY TablesFinite, SumNat, Zenon DEF FiniteTables, Pendings, SumFunction
  <2> QED BY <2>1, BalancesChange, Zenon
<1>2. Balances' = b - o + (o - d) /\ Pendings' = p + d
  BY <1>1, Zenon
<1>3. b + p = AmountLimit - 1
  BY <1>1, SupplySums, Zenon
<1>4. Balances' + Pendings' = AmountLimit - 1
  BY <1>2, <1>3
<1> QED BY <1>4, SupplySumsNext, Zenon

\* Receiving never wraps: balance and amount are parts of the supply
LEMMA ReceiveFits ==
    ASSUME IInv, Supply, NEW a \in Account, NEW key, pending_exists(key)
    PROVE  /\ Info(a).balance + pending_get(key).amount \in Amount
           /\ Info(a).balance \in Nat /\ pending_get(key).amount \in Nat
<1>0. FiniteTables
  BY TablesFinite, Zenon
<1>1. Balances \in Nat /\ Pendings \in Nat
  BY <1>0, SumNat, Zenon DEF FiniteTables, Balances, Pendings, SumFunction
<1>2. Info(a).balance \in Nat /\ Info(a).balance <= Balances
  <2>1. CASE a \in Opened
    <3>1. BalanceOf[a] = Info(a).balance /\ BalanceOf[a] \in Nat /\ IsFiniteSet(Opened)
          /\ \A x \in Opened : BalanceOf[x] \in Nat
      BY <1>0, <2>1, Zenon DEF FiniteTables
    <3>2. Balances = BalanceOf[a] + SumFunctionOnSet(BalanceOf, Opened \ {a})
      BY <1>0, <2>1, <3>1, SumOut DEF FiniteTables, Balances, SumFunction
    <3>3. SumFunctionOnSet(BalanceOf, Opened \ {a}) \in Nat
      BY <3>1, SumNat, FS_Subset, Zenon
    <3> QED BY <3>1, <3>2, <3>3
  <2>2. CASE a \notin Opened
    <3>1. Info(a).balance = 0
      BY <2>2, Zenon DEF Opened, Info, account_exists
    <3> QED BY <1>1, <3>1
  <2> QED BY <2>1, <2>2, Zenon
<1>3. pending_get(key).amount \in Nat /\ pending_get(key).amount <= Pendings
  <2>0. key \in PendingKeys
    BY Zenon DEF pending_exists, PendingKeys
  <2>1. AmountPending[key] = pending_get(key).amount /\ AmountPending[key] \in Nat
        /\ IsFiniteSet(PendingKeys) /\ \A x \in PendingKeys : AmountPending[x] \in Nat
    BY <1>0, <2>0, Zenon DEF FiniteTables
  <2>2. Pendings = AmountPending[key] + SumFunctionOnSet(AmountPending, PendingKeys \ {key})
    BY <1>0, <2>0, <2>1, SumOut DEF FiniteTables, Pendings, SumFunction
  <2>3. SumFunctionOnSet(AmountPending, PendingKeys \ {key}) \in Nat
    BY <2>1, SumNat, FS_Subset, Zenon
  <2> QED BY <2>1, <2>2, <2>3
<1>4. PICK b \in Nat, p \in Nat, o \in Nat, m \in Nat :
          b = Balances /\ p = Pendings /\ o = Info(a).balance /\ m = pending_get(key).amount
  BY <1>1, <1>2, <1>3, Zenon
<1>5. o <= b /\ m <= p /\ b + p = AmountLimit - 1
  BY <1>2, <1>3, <1>4, SupplySums, Zenon
<1>6. o + m \in Amount
  BY <1>5 DEF Amount
<1> QED BY <1>2, <1>3, <1>4, <1>6, Zenon

\* What is pending keeps its amount and its epoch
LEMMA GrownPending ==
    ASSUME IInv, PendingInfoInv, NEW h, NEW a, NEW rep_block, NEW balance, NEW epoch,
           Grown(h, a, rep_block, balance, epoch), NEW k \in PendingKeys
    PROVE  /\ pending_get(k).amount = AmountOf(k[2])'
           /\ PendingEpoch(k) = blocks'[k[2]].epoch
<1>1. k[2] \in Blocks
  BY Zenon DEF IInv, PendingInv, PendingKeys, Blocks
<1>2. AmountOf(k[2])' = AmountOf(k[2]) /\ blocks'[k[2]].epoch = blocks[k[2]].epoch
  BY <1>1, GrownStable, GrownBlocks, Zenon
<1> QED BY <1>2, Zenon DEF PendingInfoInv

LEMMA GrownSend ==
    ASSUME IInv, IInv', Supply, PendingInfoInv, NEW h, NEW a, NEW rep_block, NEW balance, NEW epoch,
           Grown(h, a, rep_block, balance, epoch), balance \in Amount, balance <= Info(a).balance,
           PendingAdded(<<Content[h].link, h>>, Info(a).balance - balance, epoch)
    PROVE  Supply' /\ PendingInfoInv'
<1> DEFINE key == <<Content[h].link, h>>
           amount == Info(a).balance - balance
<1>0. OnlyAccount(a) /\ a \in Account /\ Info(a)'.balance = balance /\ h # Zero
  BY DEF Grown, OnlyAccount
<1>1. Info(a).balance \in Amount /\ Balance(Info(a).head) = Info(a).balance
  BY <1>0, BalanceOfHead, Zenon
<1>2. Supply'
  <2>1. Pendings' = Pendings + amount
    BY PendingsAdded, Zenon
  <2>2. amount \in Int /\ Info(a)'.balance = Info(a).balance - amount
    BY <1>0, <1>1 DEF Amount
  <2> QED BY <1>0, <2>1, <2>2, SupplyKept, Zenon
<1>3. AmountOf(h)' = amount /\ blocks'[h].epoch = epoch
  <2>1. Balance(h)' = balance /\ blocks'[h].epoch = epoch
    BY <1>0, GrownBlocks DEF Balance
  <2>2. Balance(Content[h].previous)' = Info(a).balance
    <3>1. Content[h].previous = Info(a).head
      BY Zenon DEF Grown
    <3>2. Info(a).head = Zero \/ Info(a).head \in Blocks
      BY <1>0, Zenon DEF IInv, HeadInv, Blocks, Info
    <3> QED BY <1>1, <3>1, <3>2, GrownBlocks DEF Balance
  <2>3. AmountOf(h)' = IF balance > Info(a).balance THEN balance - Info(a).balance ELSE amount
    BY <2>1, <2>2, Zenon DEF AmountOf
  <2> QED BY <1>1, <2>1, <2>3 DEF Amount
<1>4. ASSUME NEW k \in PendingKeys'
      PROVE  /\ pending_get(k)'.amount = AmountOf(k[2])'
             /\ PendingEpoch(k)' = blocks'[k[2]].epoch
  <2>1. CASE k = key
    <3>1. k[2] = h
      BY <2>1, Zenon
    <3>2. pending_get(k)'.amount = amount /\ PendingEpoch(k)' = epoch
      BY <2>1, Zenon DEF PendingAdded
    <3> QED BY <1>3, <3>1, <3>2, Zenon
  <2>2. CASE k # key
    BY <2>2, GrownPending, Zenon DEF PendingAdded
  <2> QED BY <2>1, <2>2, Zenon
<1> QED BY <1>2, <1>4, Zenon DEF PendingInfoInv

LEMMA GrownReceive ==
    ASSUME IInv, IInv', Supply, PendingInfoInv, NEW h, NEW a, NEW rep_block, NEW balance, NEW epoch,
           Grown(h, a, rep_block, balance, epoch), NEW key, PendingTaken(key),
           balance = Info(a).balance + pending_get(key).amount
    PROVE  Supply' /\ PendingInfoInv'
<1>0. OnlyAccount(a) /\ a \in Account /\ Info(a)'.balance = balance
  BY DEF Grown, OnlyAccount
<1>1. Supply'
  <2>1. PICK m \in Nat : m = pending_get(key).amount /\ Pendings' = Pendings - m /\ Pendings \in Nat
    BY PendingsTaken, Zenon
  <2>2. PICK o \in Nat : o = Info(a).balance
    BY <1>0, BalancesChange, Zenon
  <2>3. -m \in Int /\ Pendings' = Pendings + (-m) /\ Info(a)'.balance = Info(a).balance - (-m)
    BY <1>0, <2>1, <2>2
  <2> QED BY <1>0, <2>3, SupplyKept, Zenon
<1>2. ASSUME NEW k \in PendingKeys'
      PROVE  /\ pending_get(k)'.amount = AmountOf(k[2])'
             /\ PendingEpoch(k)' = blocks'[k[2]].epoch
  BY GrownPending, Zenon DEF PendingTaken
<1> QED BY <1>1, <1>2, Zenon DEF PendingInfoInv

LEMMA GrownNone ==
    ASSUME IInv, IInv', Supply, PendingInfoInv, NEW h, NEW a, NEW rep_block, NEW balance, NEW epoch,
           Grown(h, a, rep_block, balance, epoch), pending' = pending, balance = Info(a).balance
    PROVE  Supply' /\ PendingInfoInv'
<1>0. OnlyAccount(a) /\ a \in Account /\ Info(a)'.balance = balance
  BY DEF Grown, OnlyAccount
<1>1. /\ PendingKeys' = PendingKeys
      /\ \A k : pending_get(k)' = pending_get(k) /\ PendingEpoch(k)' = PendingEpoch(k)
  BY Zenon DEF PendingKeys, pending_get, PendingEpoch
<1>2. Supply'
  <2>1. AmountPending' = AmountPending
    BY <1>1, Zenon DEF AmountPending
  <2>2. Pendings' = Pendings
    BY <2>1, Zenon DEF Pendings
  <2>3. Pendings \in Nat /\ Info(a).balance \in Nat
    BY <1>0, TablesFinite, SumNat, BalancesChange, Zenon DEF FiniteTables, Pendings, SumFunction
  <2>4. Pendings' = Pendings + 0 /\ Info(a)'.balance = Info(a).balance - 0
    BY <1>0, <2>2, <2>3
  <2> QED BY <1>0, <2>4, SupplyKept
<1>3. ASSUME NEW k \in PendingKeys'
      PROVE  /\ pending_get(k)'.amount = AmountOf(k[2])'
             /\ PendingEpoch(k)' = blocks'[k[2]].epoch
  BY <1>1, GrownPending, Zenon
<1> QED BY <1>2, <1>3, Zenon DEF PendingInfoInv

\* The block before the new head
LEMMA GrownPrevious ==
    ASSUME IInv, InfoInv, ValueInv, NEW h, NEW a, NEW rep_block, NEW balance, NEW epoch,
           Grown(h, a, rep_block, balance, epoch)
    PROVE  LET p == Content[h].previous
           IN /\ Balance(p)' = Info(a).balance /\ Info(a).balance \in Amount
              /\ p = Zero <=> ~account_exists(a)
              /\ p # Zero => /\ blocks'[p].epoch = EpochOf(a)
                             /\ Info(a).rep_block = RepBlock[p] /\ RepBlock[p] # Zero
                             /\ p \in Blocks
                             /\ Content[p].type \in LegacyType => EpochOf(a) = 0
<1>0. a \in Account /\ Content[h].previous = Info(a).head
  BY Zenon DEF Grown, OnlyAccount
<1>1. /\ Balance(Info(a).head) = Info(a).balance
      /\ Info(a).balance \in Amount
      /\ Info(a).head = Zero <=> ~account_exists(a)
  BY <1>0, BalanceOfHead, Zenon
<1>2. account_exists(a) => a \in Opened /\ Info(a).head \in Blocks
  BY <1>0, Zenon DEF IInv, HeadInv, Blocks, Opened, account_exists
<1>3. Balance(Content[h].previous)' = Info(a).balance
  <2>1. CASE account_exists(a)
    <3>1. PICK q \in Blocks : q = Info(a).head
      BY <1>2, <2>1, Zenon
    <3>2. q # Zero /\ blocks'[q].balance = blocks[q].balance /\ Content[h].previous = q
      BY <1>0, <3>1, GrownBlocks
    <3> QED BY <1>0, <1>1, <3>1, <3>2, Zenon DEF Balance
  <2>2. CASE ~account_exists(a)
    BY <1>0, <1>1, <2>2, Zenon DEF Balance
  <2> QED BY <2>1, <2>2, Zenon
<1>4. account_exists(a) =>
        /\ blocks'[Info(a).head].epoch = EpochOf(a)
        /\ Info(a).rep_block = RepBlock[Info(a).head] /\ RepBlock[Info(a).head] # Zero
        /\ Content[Info(a).head].type \in LegacyType => EpochOf(a) = 0
  <2> SUFFICES ASSUME account_exists(a)
               PROVE  /\ blocks'[Info(a).head].epoch = EpochOf(a)
                      /\ Info(a).rep_block = RepBlock[Info(a).head] /\ RepBlock[Info(a).head] # Zero
                      /\ Content[Info(a).head].type \in LegacyType => EpochOf(a) = 0
    BY Zenon
  <2>1. /\ blocks[Info(a).head].epoch = EpochOf(a)
        /\ Info(a).rep_block = RepBlock[Info(a).head]
    BY <1>2, Zenon DEF InfoInv
  <2>2. ValueOK(Info(a).head)
    BY <1>2, ValueParts, Zenon
  <2>3. blocks'[Info(a).head].epoch = blocks[Info(a).head].epoch
    BY <1>2, GrownBlocks, Zenon
  <2> QED BY <2>1, <2>2, <2>3, Zenon DEF ValueOK
<1> QED BY <1>0, <1>1, <1>2, <1>3, <1>4, Zenon

LEMMA GrownAudit ==
    ASSUME IInv, IInv', AuditInv, NEW h, NEW a, NEW balance, NEW epoch,
           Grown(h, a, RepBlock[h], balance, epoch), ValueOK(h)',
           Supply', PendingInfoInv', WeightIsDelegatedBalance',
           DOMAIN frontiers \ {Info(a).head} \subseteq DOMAIN frontiers',
           Content[h].type \in LegacyType => h \in DOMAIN frontiers'
    PROVE  AuditInv'
<1>1. LinkInv /\ InfoInv /\ ValueInv /\ FrontierInv
  BY Zenon DEF AuditInv
<1>2. LinkInv' /\ InfoInv' /\ ValueInv' /\ FrontierInv'
  BY <1>1, GrownLinks, GrownInfo, GrownValues, GrownFrontiers, Zenon
<1> QED BY <1>2, Zenon DEF AuditInv
-----------------------------------------------------------------------------
(* ledger_processor *)

\* The representative of a block
LEMMA RepBlockOf ==
    ASSUME NEW h \in Hash
    PROVE  /\ Content[h].type \in {"open", "change", "state"} => RepBlock[h] = h
           /\ Content[h].type \in {"send", "receive"} => RepBlock[h] = RepBlock[Content[h].previous]
BY RepBlockAssumption, Zenon

LEMMA SendAudit ==
    ASSUME IInv, IInv', AuditInv, NEW h \in Hash, NEW v, send_block(h, v) = "progress",
           Content[h].type = "send", InsertSend(h)
    PROVE  AuditInv'
<1> DEFINE p == Content[h].previous
           balance == Content[h].balance
<1>a. PICK a : a = frontiers[p]
  BY Zenon
<1>b. PICK amount : amount = Info(a).balance - balance
  BY Zenon
<1>0. Supply /\ WeightIsDelegatedBalance /\ InfoInv /\ ValueInv /\ PendingInfoInv
  BY Zenon DEF AuditInv
<1>1. /\ h \in Hash \ DOMAIN blocks /\ a \in Account /\ account_exists(a) /\ Info(a).head = p
      /\ Content[p].type \in LegacyType /\ p # Zero
  BY <1>a, LegacyFacts, Zenon DEF send_block
<1>2. ~(Info(a).balance < balance) /\ balance \in Amount
  BY <1>a, Zenon DEF send_block, Block
<1>3. Grown(h, a, Info(a).rep_block, balance, 0)
  <2>1. /\ blocks' = block_put(h, a, balance, Info(a).block_count + 1, 0)
        /\ accounts' = change_latest(a, h, Info(a).rep_block, balance, Info(a).block_count + 1, 0)
    BY <1>a, <1>b, Zenon DEF InsertSend
  <2> QED BY <1>1, <2>1, PutIsGrown, Zenon
<1>4. /\ Balance(p)' = Info(a).balance /\ Info(a).balance \in Amount
      /\ blocks'[p].epoch = EpochOf(a) /\ EpochOf(a) = 0
      /\ Info(a).rep_block = RepBlock[p] /\ RepBlock[p] # Zero
  BY <1>0, <1>1, <1>3, GrownPrevious, Zenon
<1>5. Info(a).rep_block = RepBlock[h] /\ RepBlock[h] # Zero
  BY <1>4, RepBlockOf, Zenon
<1>6. balance <= Info(a).balance /\ amount \in Int
  BY <1>b, <1>2, <1>4 DEF Amount
<1>7. Supply' /\ PendingInfoInv'
  <2>1. ~pending_exists(<<Content[h].link, h>>)
    BY <1>1, Zenon DEF IInv, PendingInv, pending_exists
  <2>2. pending' = pending_put(<<Content[h].link, h>>, [source |-> a, amount |-> amount], 0)
    BY <1>a, <1>b, Zenon DEF InsertSend
  <2>3. PendingAdded(<<Content[h].link, h>>, amount, 0)
    BY <2>1, <2>2, PendingPutAdds, Zenon
  <2> QED BY <1>b, <1>0, <1>2, <1>3, <1>6, <2>3, GrownSend, Zenon
<1>8. WeightIsDelegatedBalance'
  <2>1. OnlyAccount(a) /\ Info(a)'.balance = balance /\ Info(a)'.rep_block = Info(a).rep_block
    BY <1>3 DEF Grown
  <2>2. representation' = representation_add(representation, Info(a).rep_block, -amount)
    BY <1>a, <1>b, Zenon DEF InsertSend
  <2>3. -amount = Info(a)'.balance - Info(a).balance
    BY <1>b, <1>2, <1>4, <2>1 DEF Amount
  <2>4. PICK r : r = Info(a).rep_block /\ r = Info(a)'.rep_block
    BY <2>1, Zenon
  <2>5. RepOf(a) = Content[r].representative /\ RepOf(a)' = Content[r].representative
    BY <2>4, Zenon DEF RepOf
  <2>6. representation' = representation_add(representation, r, -amount)
    BY <2>2, <2>4, Zenon
  <2> QED BY <1>0, <1>7, <2>1, <2>3, <2>5, <2>6, WeightAdded, Zenon
<1>9. ValueOK(h)'
  <2>1. blocks'[h].balance = balance /\ blocks'[h].epoch = 0 /\ blocks'[p].epoch = 0
    BY <1>3, <1>4, GrownBlocks, Zenon
  <2>2. SendBlock(h)'
    BY Zenon DEF SendBlock
  <2> QED BY <1>4, <1>5, <1>6, <2>1, <2>2 DEF ValueOK
<1>10. /\ DOMAIN frontiers \ {Info(a).head} \subseteq DOMAIN frontiers'
       /\ h \in DOMAIN frontiers'
  BY <1>a, <1>1, Zenon DEF InsertSend, MoveFrontier, Put, Del
<1> QED BY <1>3, <1>5, <1>7, <1>8, <1>9, <1>10, GrownAudit, Zenon

LEMMA ChangeAudit ==
    ASSUME IInv, IInv', AuditInv, NEW h \in Hash, NEW v, change_block(h, v) = "progress",
           Content[h].type = "change", InsertChange(h)
    PROVE  AuditInv'
<1> DEFINE p == Content[h].previous
<1>a. PICK a : a = frontiers[p]
  BY Zenon
<1>b. PICK balance, rep : balance = Info(a).balance /\ rep = Info(a).rep_block
  BY Zenon
<1>0. Supply /\ WeightIsDelegatedBalance /\ InfoInv /\ ValueInv /\ PendingInfoInv
  BY Zenon DEF AuditInv
<1>1. /\ h \in Hash \ DOMAIN blocks /\ a \in Account /\ account_exists(a) /\ Info(a).head = p
      /\ Content[p].type \in LegacyType /\ p # Zero /\ p \in DOMAIN blocks
      /\ blocks[p].balance = balance
  BY <1>a, <1>b, LegacyFacts, Zenon DEF change_block
<1>2. RepBlock[h] = h /\ h # Zero
  BY RepBlockOf, Zenon
<1>3. Grown(h, a, RepBlock[h], balance, 0)
  <2>1. /\ blocks' = block_put(h, a, balance, Info(a).block_count + 1, 0)
        /\ accounts' = change_latest(a, h, h, balance, Info(a).block_count + 1, 0)
    BY <1>a, <1>b, Zenon DEF InsertChange
  <2>2. Grown(h, a, h, balance, 0)
    BY <1>1, <2>1, PutIsGrown, Zenon
  <2> QED BY <1>2, <2>2, Zenon
<1>4. /\ Balance(p)' = balance /\ balance \in Amount
      /\ blocks'[p].epoch = EpochOf(a) /\ EpochOf(a) = 0
      /\ rep = RepBlock[p] /\ RepBlock[p] # Zero
  BY <1>b, <1>0, <1>1, <1>3, GrownPrevious
<1>5. Supply' /\ PendingInfoInv'
  <2>1. pending' = pending
    BY Zenon DEF InsertChange
  <2> QED BY <1>b, <1>0, <1>3, <2>1, GrownNone, Zenon
<1>6. WeightIsDelegatedBalance'
  <2>1. /\ OnlyAccount(a) /\ Info(a)'.balance = balance /\ Info(a)'.rep_block = h
        /\ account_exists(a)'
    BY <1>2, <1>3 DEF Grown
  <2>2. representation' = MoveWeight(rep, balance, h, balance)
    <3>1. Balance(p) = balance
      BY <1>1, Zenon DEF Balance
    <3> QED BY <1>a, <1>b, <3>1, Zenon DEF InsertChange
  <2>3. RepOf(a) = Content[rep].representative /\ RepOf(a)' = Content[h].representative
    BY <1>b, <2>1, Zenon DEF RepOf
  <2>4. representation' = MoveWeight(rep, Info(a).balance, h, Info(a)'.balance)
    BY <1>b, <2>1, <2>2, Zenon
  <2> QED BY <1>0, <1>1, <1>4, <1>5, <2>1, <2>3, <2>4, WeightMoved, Zenon
<1>7. ValueOK(h)'
  <2>1. blocks'[h].balance = balance /\ blocks'[h].epoch = 0 /\ blocks'[p].epoch = 0
    BY <1>3, <1>4, GrownBlocks
  <2>2. ~SendBlock(h)' /\ Received(h)' = Zero
    BY Zenon DEF SendBlock, Received, block_source
  <2>3. balance + 0 = balance
    BY <1>4 DEF Amount
  <2> QED BY <1>2, <1>4, <2>1, <2>2, <2>3 DEF ValueOK
<1>8. /\ DOMAIN frontiers \ {Info(a).head} \subseteq DOMAIN frontiers'
      /\ h \in DOMAIN frontiers'
  BY <1>a, <1>1, Zenon DEF InsertChange, MoveFrontier, Put, Del
<1> QED BY <1>3, <1>5, <1>6, <1>7, <1>8, GrownAudit, Zenon

\* What a pending entry says of its send, and that the send stays what it is
LEMMA SourceOf ==
    ASSUME IInv, PendingInfoInv, NEW a, NEW s, pending_exists(<<a, s>>)
    PROVE  /\ s \in Blocks /\ s # Zero /\ s # EpochLink /\ s \in Hash /\ SendBlock(s)
           /\ pending_get(<<a, s>>).amount = AmountOf(s)
           /\ PendingEpoch(<<a, s>>) = blocks[s].epoch
<1>1. s \in Hash /\ s # Zero /\ s # EpochLink /\ s \in Blocks /\ SendBlock(s)
  BY PendingSource, Zenon DEF Blocks
<1>2. <<a, s>> \in PendingKeys
  BY Zenon DEF PendingKeys, pending_exists
<1> QED BY <1>1, <1>2, Zenon DEF PendingInfoInv

LEMMA ReceiveAudit ==
    ASSUME IInv, IInv', AuditInv, NEW h \in Hash, NEW v, receive_block(h, v) = "progress",
           Content[h].type = "receive", InsertReceive(h)
    PROVE  AuditInv'
<1> DEFINE p == Content[h].previous
           s == Content[h].link
<1>a. PICK a : a = frontiers[p]
  BY Zenon
<1> DEFINE key == <<a, s>>
<1>b. PICK amount, rep, old : /\ amount = pending_get(key).amount
                              /\ rep = Info(a).rep_block /\ old = Info(a).balance
  BY Zenon
<1>0. Supply /\ WeightIsDelegatedBalance /\ InfoInv /\ ValueInv /\ PendingInfoInv
  BY Zenon DEF AuditInv
<1>1. /\ h \in Hash \ DOMAIN blocks /\ a \in Account /\ account_exists(a) /\ Info(a).head = p
      /\ Content[p].type \in LegacyType /\ p # Zero
  BY <1>a, LegacyFacts, Zenon DEF receive_block
<1>2. pending_exists(key) /\ PendingEpoch(key) = 0
  BY <1>a, Zenon DEF receive_block
<1>3. /\ s \in Blocks /\ s # Zero /\ s # EpochLink /\ amount = AmountOf(s) /\ blocks[s].epoch = 0
  BY <1>b, <1>0, <1>2, SourceOf, Zenon
<1>4. old + amount \in Amount /\ old \in Nat /\ amount \in Nat
  BY <1>b, <1>0, <1>1, <1>2, ReceiveFits, Zenon
<1>5. Grown(h, a, rep, old + amount, 0)
  <2>1. (old + amount) % AmountLimit = old + amount
    BY <1>4, NoWrap, Zenon
  <2>2. /\ blocks' = block_put(h, a, old + amount, Info(a).block_count + 1, 0)
        /\ accounts' = change_latest(a, h, rep, old + amount, Info(a).block_count + 1, 0)
    BY <1>a, <1>b, <2>1, Zenon DEF InsertReceive
  <2> QED BY <1>1, <2>2, PutIsGrown, Zenon
<1>6. /\ Balance(p)' = old /\ blocks'[p].epoch = 0
      /\ rep = RepBlock[p] /\ RepBlock[p] # Zero
  BY <1>b, <1>0, <1>1, <1>5, GrownPrevious, Zenon
<1>7. rep = RepBlock[h] /\ RepBlock[h] # Zero
  BY <1>6, RepBlockOf, Zenon
<1>8. Supply' /\ PendingInfoInv'
  <2>1. pending' = pending_del(key)
    BY <1>a, Zenon DEF InsertReceive
  <2>2. PendingTaken(key)
    BY <1>2, <2>1, PendingDelTakes, Zenon
  <2> QED BY <1>b, <1>0, <1>5, <2>2, GrownReceive, Zenon
<1>9. WeightIsDelegatedBalance'
  <2>1. OnlyAccount(a) /\ Info(a)'.balance = old + amount /\ Info(a)'.rep_block = rep
    BY <1>5 DEF Grown
  <2>2. representation' = representation_add(representation, rep, amount)
    BY <1>a, <1>b, Zenon DEF InsertReceive
  <2>3. amount = Info(a)'.balance - Info(a).balance
    BY <1>b, <1>4, <2>1
  <2>4. RepOf(a) = Content[rep].representative /\ RepOf(a)' = Content[rep].representative
    BY <1>b, <2>1, Zenon DEF RepOf
  <2> QED BY <1>0, <1>8, <2>1, <2>2, <2>3, <2>4, WeightAdded, Zenon
<1>10. ValueOK(h)'
  <2>1. blocks'[h].balance = old + amount /\ blocks'[h].epoch = 0 /\ blocks'[s].epoch = 0
    BY <1>3, <1>5, GrownBlocks
  <2>2. h # Genesis /\ AmountOf(s)' = AmountOf(s)
    BY <1>3, <1>5, GrownStable DEF Grown
  <2>3. ~SendBlock(h)' /\ Received(h)' = s
    BY <1>3, <2>2, Zenon DEF SendBlock, Received, block_source, is_epoch_link
  <2>4. AmountOf(Received(h))' = amount
    BY <1>3, <2>2, <2>3, Zenon DEF AmountOf, Balance
  <2> QED BY <1>3, <1>6, <1>7, <2>1, <2>3, <2>4 DEF ValueOK
<1>11. /\ DOMAIN frontiers \ {Info(a).head} \subseteq DOMAIN frontiers'
       /\ h \in DOMAIN frontiers'
  BY <1>a, <1>1, Zenon DEF InsertReceive, MoveFrontier, Put, Del
<1> QED BY <1>5, <1>7, <1>8, <1>9, <1>10, <1>11, GrownAudit, Zenon

LEMMA OpenAudit ==
    ASSUME IInv, IInv', AuditInv, NEW h \in Hash, NEW v, open_block(h, v) = "progress",
           Content[h].type = "open", InsertOpen(h)
    PROVE  AuditInv'
<1> DEFINE a == Content[h].account
           s == Content[h].link
           key == <<a, s>>
<1>b. PICK amount : amount = pending_get(key).amount
  BY Zenon
<1>0. Supply /\ WeightIsDelegatedBalance /\ InfoInv /\ ValueInv /\ PendingInfoInv
  BY Zenon DEF AuditInv
<1>1. /\ h \in Hash \ DOMAIN blocks /\ a # Zero /\ ~account_exists(a)
      /\ pending_exists(key) /\ PendingEpoch(key) = 0
  BY Zenon DEF open_block, Exists
<1>2. a \in Account /\ Content[h].previous = Zero /\ RepBlock[h] = h /\ h # Zero
  BY <1>1, RepBlockOf, Zenon DEF Block, Key
<1>3. s \in Blocks /\ s # Zero /\ s # EpochLink /\ amount = AmountOf(s) /\ blocks[s].epoch = 0
  BY <1>b, <1>0, <1>1, SourceOf, Zenon
<1>4. /\ Info(a).balance = 0 /\ Info(a).block_count + 1 = 1 /\ Info(a).head = Zero
      /\ amount \in Nat /\ 0 + amount = amount /\ amount - 0 = amount
  BY <1>b, <1>0, <1>1, <1>2, ReceiveFits DEF Info
<1>5. Grown(h, a, RepBlock[h], amount, 0)
  <2>1. /\ blocks' = block_put(h, a, amount, Info(a).block_count + 1, 0)
        /\ accounts' = change_latest(a, h, h, amount, Info(a).block_count + 1, 0)
    BY <1>b, <1>4, Zenon DEF InsertOpen
  <2>2. Grown(h, a, h, amount, 0)
    BY <1>1, <1>2, <1>4, <2>1, PutIsGrown, Zenon
  <2> QED BY <1>2, <2>2, Zenon
<1>6. Supply' /\ PendingInfoInv'
  <2>1. pending' = pending_del(key)
    BY Zenon DEF InsertOpen
  <2>2. PendingTaken(key)
    BY <1>1, <2>1, PendingDelTakes, Zenon
  <2> QED BY <1>b, <1>0, <1>4, <1>5, <2>2, GrownReceive
<1>7. WeightIsDelegatedBalance'
  <2>1. OnlyAccount(a) /\ Info(a)'.balance = amount /\ Info(a)'.rep_block = h
    BY <1>2, <1>5 DEF Grown
  <2>2. representation' = representation_add(representation, h, amount)
    BY <1>b, Zenon DEF InsertOpen
  <2>3. amount = Info(a)'.balance - Info(a).balance
    BY <1>4, <2>1, Zenon
  <2>4. RepOf(a)' = Content[h].representative
    BY <2>1, Zenon DEF RepOf
  <2> QED BY <1>0, <1>1, <1>6, <2>1, <2>2, <2>3, <2>4, WeightAdded, Zenon
<1>8. ValueOK(h)'
  <2>1. blocks'[h].balance = amount /\ blocks'[h].epoch = 0 /\ blocks'[s].epoch = 0
    BY <1>3, <1>5, GrownBlocks
  <2>2. h # Genesis /\ AmountOf(s)' = AmountOf(s)
    BY <1>3, <1>5, GrownStable DEF Grown
  <2>3. ~SendBlock(h)' /\ Received(h)' = s
    BY <1>3, <2>2, Zenon DEF SendBlock, Received, block_source, is_epoch_link
  <2>4. AmountOf(Received(h))' = amount
    BY <1>3, <2>2, <2>3, Zenon DEF AmountOf, Balance
  <2>5. Balance(Content[h].previous)' = 0
    BY <1>2, Zenon DEF Balance
  <2> QED BY <1>2, <1>3, <1>4, <2>1, <2>3, <2>4, <2>5, Zenon DEF ValueOK
<1>9. /\ DOMAIN frontiers \ {Info(a).head} \subseteq DOMAIN frontiers'
      /\ h \in DOMAIN frontiers'
  BY Zenon DEF InsertOpen, Put
<1> QED BY <1>5, <1>6, <1>7, <1>8, <1>9, GrownAudit, Zenon

LEMMA EpochAudit ==
    ASSUME IInv, IInv', AuditInv, NEW h \in Hash, NEW v \in Verifications(h),
           state_block(h, v) = "progress", Content[h].type = "state", IsEpochBlock(h), InsertEpoch(h)
    PROVE  AuditInv'
<1> DEFINE a == Content[h].account
           p == Content[h].previous
           balance == Content[h].balance
<1>0. Supply /\ WeightIsDelegatedBalance /\ InfoInv /\ ValueInv /\ PendingInfoInv
  BY Zenon DEF AuditInv
<1>1. /\ h \in Hash \ DOMAIN blocks /\ a \in Account /\ p = Info(a).head
      /\ balance = Info(a).balance /\ balance \in Amount
      /\ account_exists(a) => Content[h].representative = Content[Info(a).rep_block].representative
      /\ EpochOf(a) = 0
  BY EpochFacts, Zenon
<1>2. RepBlock[h] = h /\ h # Zero
  BY RepBlockOf, Zenon
<1>3. Grown(h, a, RepBlock[h], balance, 1)
  <2>1. /\ blocks' = block_put(h, a, balance, Info(a).block_count + 1, 1)
        /\ accounts' = change_latest(a, h, h, balance, Info(a).block_count + 1, 1)
    BY <1>1, Zenon DEF InsertEpoch
  <2>2. Grown(h, a, h, balance, 1)
    BY <1>1, <2>1, PutIsGrown, Zenon
  <2> QED BY <1>2, <2>2, Zenon
<1>4. Balance(p)' = balance /\ (p # Zero => blocks'[p].epoch = 0)
  BY <1>0, <1>1, <1>3, GrownPrevious, Zenon
<1>5. Supply' /\ PendingInfoInv'
  <2>1. pending' = pending
    BY Zenon DEF InsertEpoch
  <2> QED BY <1>0, <1>1, <1>3, <2>1, GrownNone, Zenon
<1>6. WeightIsDelegatedBalance'
  <2>1. OnlyAccount(a) /\ Info(a)'.balance = balance /\ Info(a)'.rep_block = h
    BY <1>2, <1>3 DEF Grown
  <2>2. representation' = representation_add(representation, h, 0)
    <3>1. representation \in [Key -> Amount]
      BY TypeParts, Zenon DEF IInv
    <3>2. \A x \in Amount : (x + 0) % AmountLimit = x
      <4> TAKE x \in Amount
      <4>1. x + 0 = x
        BY DEF Amount
      <4> QED BY <4>1, NoWrap, Zenon
    <3>3. Content[h].representative \in Key
      BY Zenon DEF Block
    <3>4. representation_add(representation, h, 0) = representation
      BY <3>1, <3>2, <3>3, Zenon DEF representation_add
    <3> QED BY <3>4, Zenon DEF InsertEpoch
  <2>3. 0 = Info(a)'.balance - Info(a).balance
    BY <1>1, <2>1 DEF Amount
  <2>4. /\ account_exists(a) => RepOf(a) = Content[h].representative
        /\ RepOf(a)' = Content[h].representative
    BY <1>1, <2>1, Zenon DEF RepOf
  <2> QED BY <1>0, <1>5, <2>1, <2>2, <2>3, <2>4, WeightAdded, Zenon
<1>7. ValueOK(h)'
  <2>1. blocks'[h].balance = balance /\ blocks'[h].epoch = 1
    BY <1>3, GrownBlocks, Zenon
  <2>2. ~SendBlock(h)'
    BY <1>1, <1>4 DEF SendBlock, is_send, Amount
  <2>3. Received(h)' = Zero
    BY <2>2, Zenon DEF SendBlock, Received, block_source, IsEpochBlock, is_epoch_link
  <2>4. balance + 0 = balance
    BY <1>1 DEF Amount
  <2> QED BY <1>2, <1>4, <2>1, <2>2, <2>3, <2>4 DEF ValueOK, LegacyType
<1>8. DOMAIN frontiers \ {Info(a).head} \subseteq DOMAIN frontiers' /\ Content[h].type \notin LegacyType
  BY Zenon DEF InsertEpoch, Del, LegacyType
<1> QED BY <1>3, <1>5, <1>6, <1>7, <1>8, GrownAudit, Zenon

LEMMA StateAudit ==
    ASSUME IInv, IInv', AuditInv, NEW h \in Hash, NEW v \in Verifications(h),
           state_block(h, v) = "progress", Content[h].type = "state", ~IsEpochBlock(h), InsertState(h)
    PROVE  AuditInv'
<1> DEFINE a == Content[h].account
           p == Content[h].previous
           balance == Content[h].balance
           link == Content[h].link
           key == <<a, link>>
           sends == account_exists(a) /\ balance < Info(a).balance
           received == IF ~sends /\ link # Zero THEN PendingEpoch(key) ELSE 0
<1>b. PICK rep, old, epoch : /\ rep = Info(a).rep_block /\ old = Info(a).balance
                             /\ epoch = IF EpochOf(a) > received THEN EpochOf(a) ELSE received
  BY Zenon
<1>0. Supply /\ WeightIsDelegatedBalance /\ InfoInv /\ ValueInv /\ PendingInfoInv
  BY Zenon DEF AuditInv
<1>1. /\ h \in Hash \ DOMAIN blocks /\ a \in Account /\ balance \in Amount
      /\ p = Info(a).head /\ Balance(p) = old /\ old \in Amount
      /\ ~sends /\ link # Zero => /\ pending_exists(key)
                                  /\ balance - old = pending_get(key).amount
      /\ ~sends /\ link = Zero => balance = old
  BY <1>b, StateFacts, Zenon
<1>2. epoch \in Epoch /\ EpochOf(a) <= epoch
  <2>1. received \in Epoch
    BY Zenon DEF PendingEpoch
  <2>2. EpochOf(a) \in Epoch
    BY Zenon DEF EpochOf
  <2> QED BY <1>b, <2>1, <2>2
<1>3. RepBlock[h] = h /\ h # Zero
  BY RepBlockOf, Zenon
<1>4. Grown(h, a, RepBlock[h], balance, epoch)
  <2>1. /\ blocks' = block_put(h, a, balance, Info(a).block_count + 1, epoch)
        /\ accounts' = change_latest(a, h, h, balance, Info(a).block_count + 1, epoch)
    BY <1>b, Zenon DEF InsertState
  <2>2. h \in Hash \ DOMAIN blocks /\ a \in Account /\ Content[h].previous = Info(a).head
    BY <1>1, Zenon
  <2>3. Grown(h, a, h, balance, epoch)
    BY ONLY IInv, <1>2, <2>1, <2>2, PutIsGrown, Zenon
  <2> QED BY <1>3, <2>3, Zenon
<1>5. /\ Balance(p)' = old /\ (p = Zero <=> ~account_exists(a))
      /\ p # Zero => blocks'[p].epoch = EpochOf(a) /\ rep # Zero
  <2>1. /\ Balance(p)' = Info(a).balance /\ (p = Zero <=> ~account_exists(a))
        /\ p # Zero => /\ blocks'[p].epoch = EpochOf(a)
                       /\ Info(a).rep_block = RepBlock[p] /\ RepBlock[p] # Zero
    BY ONLY IInv, <1>0, <1>4, GrownPrevious, Zenon
  <2> QED BY <1>b, <2>1, Zenon
<1>6. /\ SendBlock(h)' <=> sends
      /\ sends => balance <= old
      /\ h # Genesis
  BY <1>b, <1>1, <1>4, <1>5 DEF SendBlock, is_send, Amount, Grown
<1>7. ~sends /\ link # Zero => /\ link \in Blocks /\ Received(h)' = link
                               /\ balance = old + AmountOf(link) /\ AmountOf(link) = pending_get(key).amount
  <2> SUFFICES ASSUME ~sends, link # Zero
               PROVE  /\ link \in Blocks /\ Received(h)' = link
                      /\ balance = old + AmountOf(link) /\ AmountOf(link) = pending_get(key).amount
    BY Zenon
  <2>1. pending_exists(key) /\ balance - old = pending_get(key).amount
    BY <1>1, Zenon
  <2>2. link \in Blocks /\ link # EpochLink /\ pending_get(key).amount = AmountOf(link)
    BY ONLY IInv, <1>0, <2>1, SourceOf, Zenon
  <2>3. Received(h)' = link
    BY <1>6, <2>2, Zenon DEF SendBlock, Received, block_source, is_epoch_link
  <2>4. PICK m : m = AmountOf(link) /\ balance - old = m
    BY <2>1, <2>2, Zenon
  <2>5. balance = old + m
    BY <1>1, <2>4 DEF Amount
  <2> QED BY <2>2, <2>3, <2>4, <2>5, Zenon
<1>8. Supply' /\ PendingInfoInv'
  <2>1. CASE sends
    <3>1. ~pending_exists(<<link, h>>)
      BY <1>1, Zenon DEF IInv, PendingInv, pending_exists
    <3>2. PICK amount : amount = old - balance
      BY Zenon
    <3>3. pending' = pending_put(<<link, h>>, [source |-> a, amount |-> amount], epoch)
      BY <1>b, <2>1, <3>2, Zenon DEF InsertState
    <3>4. PendingAdded(<<link, h>>, amount, epoch)
      BY ONLY IInv, <1>2, <3>1, <3>3, PendingPutAdds, Zenon
    <3>5. /\ PendingAdded(<<Content[h].link, h>>, Info(a).balance - balance, epoch)
          /\ balance \in Amount /\ balance <= Info(a).balance
      BY <1>b, <1>1, <1>6, <2>1, <3>2, <3>4, Zenon DEF link
    <3> HIDE DEF balance, a
    <3> QED BY ONLY IInv, IInv', <1>0, <1>4, <3>5, GrownSend, Zenon
  <2>2. CASE ~sends /\ link # Zero
    <3>1. pending' = pending_del(key) /\ pending_exists(key)
      BY <1>1, <2>2, Zenon DEF InsertState
    <3>2. PendingTaken(key)
      BY <3>1, PendingDelTakes, Zenon
    <3>3. balance = old + pending_get(key).amount
      BY <1>7, <2>2, Zenon
    <3> QED BY <1>b, <1>0, <1>4, <3>2, <3>3, GrownReceive
  <2>3. CASE ~sends /\ link = Zero
    <3>1. pending' = pending
      BY <2>3, Zenon DEF InsertState
    <3> QED BY <1>b, <1>0, <1>1, <1>4, <2>3, <3>1, GrownNone, Zenon
  <2> QED BY <2>1, <2>2, <2>3, Zenon
<1>9. WeightIsDelegatedBalance'
  <2>1. /\ OnlyAccount(a) /\ Info(a)'.balance = balance /\ Info(a)'.rep_block = h
        /\ account_exists(a)'
    BY <1>3, <1>4 DEF Grown
  <2>2. representation' = MoveWeight(rep, old, h, balance)
    BY <1>b, Zenon DEF InsertState
  <2>3. RepOf(a) = Content[rep].representative /\ RepOf(a)' = Content[h].representative
    BY <1>b, <2>1, Zenon DEF RepOf
  <2>4. CASE account_exists(a)
    <3>1. representation' = MoveWeight(rep, Info(a).balance, h, Info(a)'.balance)
      BY <1>b, <2>1, <2>2, Zenon
    <3> QED BY <1>0, <1>5, <1>8, <2>1, <2>3, <2>4, <3>1, WeightMoved, Zenon
  <2>5. CASE ~account_exists(a)
    <3>1. rep = Zero /\ old = 0
      BY <1>b, <2>5, Zenon DEF Info
    <3>2. representation' = representation_add(representation, h, balance)
      BY <2>2, <3>1, Zenon DEF MoveWeight
    <3>3. balance = Info(a)'.balance - Info(a).balance
      <4>1. balance \in Nat
        BY <1>1 DEF Amount
      <4>2. balance - 0 = balance
        BY ONLY <4>1
      <4> QED BY <1>b, <2>1, <3>1, <4>2, Zenon
    <3> QED BY <1>0, <1>8, <2>1, <2>3, <2>5, <3>2, <3>3, WeightAdded, Zenon
  <2> QED BY <2>4, <2>5, Zenon
<1>10. ValueOK(h)'
  <2>1. blocks'[h].balance = balance /\ blocks'[h].epoch = epoch
    BY <1>4, GrownBlocks, Zenon
  <2>2. ~sends => balance = old + (IF Received(h) = Zero THEN 0 ELSE AmountOf(Received(h)))'
    <3>1. CASE ~sends /\ link # Zero
      <4>1. AmountOf(link)' = AmountOf(link)
        BY <1>4, <1>7, <3>1, GrownStable, Zenon
      <4>2. AmountOf(Received(h))' = AmountOf(link)
        BY <1>7, <3>1, <4>1, Zenon DEF AmountOf, Balance
      <4> QED BY <1>7, <3>1, <4>2, Zenon
    <3>2. CASE ~sends /\ link = Zero
      <4>1. Received(h)' = Zero
        BY <1>6, <3>2, Zenon DEF SendBlock, Received, block_source
      <4>2. old + 0 = old
        BY <1>1 DEF Amount
      <4> QED BY <1>1, <3>2, <4>1, <4>2, Zenon
    <3> QED BY <3>1, <3>2, Zenon
  <2> QED BY <1>2, <1>3, <1>5, <1>6, <2>1, <2>2, Zenon DEF ValueOK, LegacyType
<1>11. DOMAIN frontiers \ {Info(a).head} \subseteq DOMAIN frontiers' /\ Content[h].type \notin LegacyType
  BY Zenon DEF InsertState, Del, LegacyType
<1> QED BY <1>4, <1>8, <1>9, <1>10, <1>11, GrownAudit, Zenon

LEMMA ProcessAudit ==
    ASSUME IInv, IInv', AuditInv, NEW h \in Hash, NEW v \in Verifications(h), Process(h, v)
    PROVE  AuditInv'
<1>1. ProcessResult(h, v) = "progress"
  BY Zenon DEF Process
<1>2. CASE Content[h].type = "state" /\ ~IsEpochBlock(h) /\ InsertState(h)
  BY <1>1, <1>2, StateAudit, Zenon DEF ProcessResult
<1>3. CASE Content[h].type = "state" /\ IsEpochBlock(h) /\ InsertEpoch(h)
  BY <1>1, <1>3, EpochAudit, Zenon DEF ProcessResult
<1>4. CASE Content[h].type = "change" /\ InsertChange(h)
  BY <1>1, <1>4, ChangeAudit, Zenon DEF ProcessResult
<1>5. CASE Content[h].type = "send" /\ InsertSend(h)
  BY <1>1, <1>5, SendAudit, Zenon DEF ProcessResult
<1>6. CASE Content[h].type = "receive" /\ InsertReceive(h)
  BY <1>1, <1>6, ReceiveAudit, Zenon DEF ProcessResult
<1>7. CASE Content[h].type = "open" /\ InsertOpen(h)
  BY <1>1, <1>7, OpenAudit, Zenon DEF ProcessResult
<1> QED BY <1>2, <1>3, <1>4, <1>5, <1>6, <1>7, Zenon DEF Process
=============================================================================
