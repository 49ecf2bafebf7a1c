---------------------------- MODULE MiningProofs ----------------------------
(***************************************************************************)
(* Proofs about what a miner takes from the wallet, the keys of the pool   *)
(* (KeyPool), and what it is paid (Emission, on the walk of Retarget).     *)
(* The two specifications share no variable.                               *)
(*                                                                         *)
(* KeyPool: for every set of CReserveKey objects, every size of the pool   *)
(* and every number of keys.  Neither property is inductive.  That a key   *)
(* kept by its holder leaves the pool needs the record under the holder's  *)
(* index to be the only one with that key, even while records are being    *)
(* written over (HeldAtIndex); that an index is free or reserved and never *)
(* both needs the holders to have different ones (Undisturbed); and that a *)
(* refill does not repeat a key or run out of indexes needs both to be     *)
(* below the next fresh key (WalletOK).                                    *)
(*                                                                         *)
(* Emission: for every set of algorithms, all lengths of the chain and of  *)
(* the periods and every schedule of subsidies.  What the code keeps in    *)
(* memory may be gone, so SubsidyFromChain needs every block to keep       *)
(* either nothing or the factor of its period (FactorAt), and a factor to  *)
(* depend on the blocks below alone (SameFactor).  MinerFlagAccepted needs *)
(* the flags of an algorithm to be nSSF of its blocks apart (KeysApart):   *)
(* the miner stops at the first flag, ConnectBlock looks at others too.    *)
(* The supply is exact for every prefix of the chain (ExactTo), which a    *)
(* block lengthens by what it pays, in the supply of its algorithm only.   *)
(* SurgeExact holds for any chain: Reading says what the walk back knows   *)
(* of the last row when it has come to a place, and LastRowIs what Past    *)
(* adds to it.  The recursions of the model, the walk and the sums over    *)
(* functions, are shown to be well defined and are then used through what  *)
(* each step of them does.                                                 *)
(***************************************************************************)
EXTENDS KeyPool, Emission, FiniteSetTheorems, SequenceTheorems, WellFoundedInduction,
        NaturalsInduction, TLAPS

-----------------------------------------------------------------------------
(* Key pool *)

WalletOK(w) ==
  /\ w = [set |-> w.set, db |-> w.db, next |-> w.next]
  /\ w.next \in Nat \ {0}
  /\ w.set \subseteq 1..(w.next - 1)
  /\ DOMAIN w.db \subseteq 1..(w.next - 1)
  /\ \A i \in DOMAIN w.db : w.db[i] \in 1..(w.next - 1)
  /\ \A i, j \in DOMAIN w.db : w.db[i] = w.db[j] => i = j

\* v is w after fresh keys were written under the indexes in new.
Grown(w, v, new) ==
  /\ WalletOK(v)
  /\ w.next <= v.next
  /\ v.set = w.set \cup new
  /\ DOMAIN v.db = DOMAIN w.db \cup new
  /\ \A i \in DOMAIN w.db \ new : v.db[i] = w.db[i]
  /\ \A i \in new : v.db[i] >= w.next

Index == {NoIndex} \cup 1..(wallet.next - 1)

TypeOK ==
  /\ WalletOK(wallet)
  /\ reserve \in [Holder -> [nIndex : Index, vchPubKey : 0..(wallet.next - 1)]]
  /\ oldest \in Index
  /\ given \subseteq 1..(wallet.next - 1) /\ DefaultKey \in given
  /\ overwritten \in BOOLEAN

GoneForGood ==
  /\ reused = {}
  /\ \A i \in DOMAIN wallet.db : wallet.db[i] \notin given

HeldAtIndex ==
  \A h \in Holder : reserve[h].nIndex # NoIndex =>
    \A i \in DOMAIN wallet.db : wallet.db[i] = reserve[h].vchPubKey => i = reserve[h].nIndex

Undisturbed ==
  /\ wallet.set \cap Reserved = {}
  /\ wallet.set \cup Reserved = DOMAIN wallet.db
  /\ \A h \in Holder : reserve[h].nIndex # NoIndex =>
       /\ wallet.db[reserve[h].nIndex] = reserve[h].vchPubKey
       /\ reserve[h].nIndex # oldest
       /\ \A g \in Holder : g # h => reserve[g].nIndex # reserve[h].nIndex

\* Without an index there is no key, or the default one of a locked empty pool.
NoIndexNoKey ==
  \A h \in Holder : reserve[h].nIndex = NoIndex => reserve[h].vchPubKey \in {NoKey, DefaultKey}

IInv == TypeOK /\ GoneForGood /\ HeldAtIndex /\ NoIndexNoKey /\ (~overwritten => Undisturbed)

-----------------------------------------------------------------------------
\* A finite set of numbers has a greatest and a least element.
LEMMA Extremes ==
  ASSUME NEW n \in Nat, NEW S \in SUBSET (1..n), S # {}
  PROVE  /\ Max(S) \in S /\ \A i \in S : i <= Max(S)
         /\ Min(S) \in S /\ \A i \in S : i >= Min(S)
<1> DEFINE R == {ss \in Nat \X Nat : ss[1] < ss[2]}
<1>1. IsWellFoundedOn(R, Nat)
  BY NatLessThanWellFounded, Zenon DEF OpToRel
<1>2. \A x, y \in Nat : <<x, y>> \in R <=> x < y
  OBVIOUS
<1> HIDE DEF R
<1>3. ASSUME NEW T \in SUBSET Nat, T # {}
      PROVE  \E x \in T : \A y \in T : x <= y
  <2>1. PICK x \in T : \A y \in T : ~(<<y, x>> \in R)
    BY <1>1, <1>3, WFMin, Zenon
  <2>2. \A y \in T : y \in Nat
    OBVIOUS
  <2>3. \A y \in T : ~(y < x)
    BY <1>2, <2>1, <2>2
  <2> QED
    BY <2>2, <2>3
<1>4. \E x \in S : \A y \in S : x <= y
  <2>1. S \in SUBSET Nat
    OBVIOUS
  <2> QED
    BY <1>3, <2>1
<1>5. \E x \in S : \A y \in S : x >= y
  <2> DEFINE T == {n - x : x \in S}
  <2>1. T \in SUBSET Nat
    OBVIOUS
  <2>2. T # {}
    OBVIOUS
  <2> HIDE DEF T
  <2>3. PICK z \in T : \A y \in T : z <= y
    BY <1>3, <2>1, <2>2
  <2>4. PICK x \in S : z = n - x
    BY DEF T
  <2>5. \A y \in S : n - x <= n - y
    BY <2>3, <2>4 DEF T
  <2>6. \A y \in S : x \in Int /\ y \in Int
    OBVIOUS
  <2> QED
    BY <2>5, <2>6
<1>6. Min(S) \in S /\ \A i \in S : i >= Min(S)
  BY <1>4 DEF Min
<1>7. Max(S) \in S /\ \A i \in S : i <= Max(S)
  BY <1>5 DEF Max
<1> QED
  BY <1>6, <1>7

\* What n calls of WritePool from index first on do.
LEMMA WritePoolsGrow ==
  ASSUME NEW w, WalletOK(w), NEW first \in 1..w.next, NEW n \in Nat
  PROVE  /\ Grown(w, WritePools(w, first, n), first..(first + n - 1))
         /\ WritePools(w, first, n).next = w.next + n
<1> DEFINE v == WritePools(w, first, n)
           new == first..(first + n - 1)
<1>1. /\ v.set = w.set \cup new /\ v.next = w.next + n
      /\ v.db = [i \in DOMAIN w.db \cup new |->
                   IF i \in new THEN w.next + (i - first) ELSE w.db[i]]
      /\ v = [set |-> v.set, db |-> v.db, next |-> v.next]
  BY DEF WritePools
<1>2. /\ DOMAIN v.db = DOMAIN w.db \cup new
      /\ \A i \in new : v.db[i] = w.next + (i - first)
      /\ \A i \in DOMAIN w.db \ new : v.db[i] = w.db[i]
  BY <1>1
<1> HIDE DEF v
<1>3. w.next \in Nat \ {0}
  BY DEF WalletOK
<1>4. /\ \A i \in new : v.db[i] \in w.next..(v.next - 1)
      /\ \A i \in new : i \in 1..(v.next - 1)
      /\ \A i, j \in new : v.db[i] = v.db[j] => i = j
  BY <1>1, <1>2, <1>3
<1> HIDE DEF new
<1>5. v.set \subseteq 1..(v.next - 1) /\ DOMAIN v.db \subseteq 1..(v.next - 1)
  BY <1>1, <1>2, <1>3, <1>4 DEF WalletOK
<1>6. \A i \in DOMAIN v.db : v.db[i] \in 1..(v.next - 1)
  BY <1>1, <1>2, <1>3, <1>4 DEF WalletOK
<1>7. \A i, j \in DOMAIN v.db : v.db[i] = v.db[j] => i = j
  <2> SUFFICES ASSUME NEW i \in DOMAIN v.db, NEW j \in DOMAIN v.db, v.db[i] = v.db[j]
               PROVE  i = j
    OBVIOUS
  <2>1. CASE i \in new /\ j \in new
    BY <1>4, <2>1
  <2>2. CASE i \notin new /\ j \notin new
    BY <1>2, <2>2 DEF WalletOK
  <2>3. CASE (i \in new) # (j \in new)
    BY <1>2, <1>3, <1>4, <2>3 DEF WalletOK
  <2> QED
    BY <2>1, <2>2, <2>3
<1>8. WalletOK(v)
  <2>1. v.next \in Nat \ {0}
    BY <1>1, <1>3
  <2> QED
    BY <1>1, <1>5, <1>6, <1>7, <2>1 DEF WalletOK
<1>9. w.next <= v.next /\ \A i \in new : v.db[i] >= w.next
  BY <1>1, <1>3, <1>4
<1> QED
  BY <1>1, <1>2, <1>8, <1>9 DEF Grown, v, new

\* TopUpKeyPool writes fresh keys, or nothing.
LEMMA TopUpGrows ==
  ASSUME NEW w, WalletOK(w), NEW kpSize \in Nat
  PROVE  \E new : Grown(w, TopUp(w, kpSize), new)
<1> DEFINE size == IF kpSize > 0 THEN kpSize ELSE nTargetSize
           nEnd == IF w.set = {} THEN 1 ELSE Max(w.set) + 1
           missing == size + 1 - Cardinality(w.set)
<1>1. w.next \in Nat \ {0} /\ w.set \in SUBSET (1..(w.next - 1))
  BY DEF WalletOK
<1>2. nEnd \in 1..w.next
  <2>1. CASE w.set = {}
    BY <1>1, <2>1
  <2>2. CASE w.set # {}
    <3> DEFINE n == w.next - 1
    <3>1. Max(w.set) \in w.set
      <4>1. n \in Nat /\ w.set \in SUBSET (1..n)
        BY <1>1
      <4> HIDE DEF n
      <4> QED
        BY <2>2, <4>1, Extremes
    <3> QED
      BY <1>1, <2>2, <3>1
  <2> QED
    BY <2>1, <2>2
<1>3. missing \in Int
  <2>1. IsFiniteSet(1..(w.next - 1))
    BY <1>1, FS_Interval
  <2>2. Cardinality(w.set) \in Nat
    BY <1>1, <2>1, FS_Subset, FS_CardinalityType
  <2> QED
    BY <2>2, KeyPoolAssumption
<1> HIDE DEF nEnd, missing
<1>4. CASE missing > 0
  <2>1. TopUp(w, kpSize) = WritePools(w, nEnd, missing)
    BY <1>4 DEF TopUp, nEnd, missing
  <2> QED
    BY <1>2, <1>3, <1>4, <2>1, WritePoolsGrow
<1>5. CASE ~(missing > 0)
  <2>1. TopUp(w, kpSize) = w
    BY <1>5 DEF TopUp, missing
  <2>2. Grown(w, w, {})
    BY <1>1 DEF Grown
  <2> QED
    BY <2>1, <2>2
<1> QED
  BY <1>4, <1>5


\* What erasing records does.
LEMMA ErasePoolsOK ==
  ASSUME NEW w, WalletOK(w), NEW S
  PROVE  LET v == ErasePools(w, S)
         IN  /\ WalletOK(v) /\ v.set = w.set /\ v.next = w.next
             /\ DOMAIN v.db = DOMAIN w.db \ S
             /\ \A i \in DOMAIN w.db \ S : v.db[i] = w.db[i]
<1> DEFINE v == ErasePools(w, S)
<1>1. v = [set |-> w.set, db |-> [i \in DOMAIN w.db \ S |-> w.db[i]], next |-> w.next]
  <2>1. w = [set |-> w.set, db |-> w.db, next |-> w.next]
    BY DEF WalletOK
  <2> QED
    BY <2>1 DEF ErasePools
<1>2. /\ v.set = w.set /\ v.next = w.next
      /\ v = [set |-> v.set, db |-> v.db, next |-> v.next]
      /\ DOMAIN v.db = DOMAIN w.db \ S
      /\ \A i \in DOMAIN w.db \ S : v.db[i] = w.db[i]
  BY <1>1
<1> HIDE DEF v
<1>3. WalletOK(v)
  BY <1>2 DEF WalletOK
<1> QED
  BY <1>2, <1>3 DEF v

\* What taking the oldest index out of setKeyPool does.
LEMMA TakeOutOK ==
  ASSUME NEW w, WalletOK(w)
  PROVE  LET v == TakeOut(w)
         IN  /\ WalletOK(v) /\ v.set = w.set \ {Oldest(w)}
             /\ v.next = w.next /\ v.db = w.db
<1> DEFINE v == TakeOut(w)
<1>1. v = [set |-> w.set \ {Oldest(w)}, db |-> w.db, next |-> w.next]
  <2>1. w = [set |-> w.set, db |-> w.db, next |-> w.next]
    BY DEF WalletOK
  <2> QED
    BY <2>1 DEF TakeOut
<1>2. /\ v.set = w.set \ {Oldest(w)} /\ v.next = w.next /\ v.db = w.db
      /\ v = [set |-> v.set, db |-> v.db, next |-> v.next]
  BY <1>1
<1> HIDE DEF v
<1>3. WalletOK(v)
  BY <1>2 DEF WalletOK
<1> QED
  BY <1>2, <1>3 DEF v

\* The oldest index is one of the free ones, if there are any.
LEMMA OldestFree ==
  ASSUME NEW w, WalletOK(w)
  PROVE  /\ w.set # {} => Oldest(w) \in w.set /\ Oldest(w) \in 1..(w.next - 1)
         /\ w.set = {} => Oldest(w) = NoIndex
<1> DEFINE n == w.next - 1
<1>1. n \in Nat /\ w.set \in SUBSET (1..n)
  BY DEF WalletOK
<1>2. ASSUME w.set # {}
      PROVE  Oldest(w) \in w.set
  <2> HIDE DEF n
  <2>1. Min(w.set) \in w.set
    BY <1>1, <1>2, Extremes
  <2> QED
    BY <1>2, <2>1 DEF Oldest
<1> QED
  BY <1>1, <1>2 DEF Oldest

\* Fresh keys under the indexes in new, written to the wallet or to what is left
\* of it, take nobody's key away, and nothing at all from a holder whose index
\* they spare.
LEMMA GrowthSpares ==
  ASSUME IInv, NEW w, NEW v, NEW new, Grown(w, v, new), w.next = wallet.next,
         DOMAIN w.db \subseteq DOMAIN wallet.db,
         \A i \in DOMAIN w.db : w.db[i] = wallet.db[i]
  PROVE  /\ \A i \in DOMAIN v.db : v.db[i] \notin given
         /\ \A h \in Holder : reserve[h].nIndex # NoIndex =>
              \A i \in DOMAIN v.db : v.db[i] = reserve[h].vchPubKey => i = reserve[h].nIndex
         /\ wallet.next \in Nat /\ v.next \in Nat /\ wallet.next <= v.next
         /\ \A i \in DOMAIN v.db : v.db[i] # NoKey
<1>1. wallet.next \in Nat /\ v.next \in Nat /\ wallet.next <= v.next
  BY DEF IInv, TypeOK, Grown, WalletOK
<1>2. /\ \A k \in given : k < wallet.next
      /\ \A h \in Holder : reserve[h].vchPubKey < wallet.next
  BY <1>1 DEF IInv, TypeOK
<1>3. \A i \in DOMAIN v.db :
        \/ i \in DOMAIN wallet.db /\ v.db[i] = wallet.db[i]
        \/ v.db[i] >= wallet.next /\ v.db[i] \in Int
  BY DEF Grown, WalletOK
<1>4. \A i \in DOMAIN v.db : v.db[i] \notin given
  BY <1>1, <1>2, <1>3 DEF IInv, TypeOK, GoneForGood
<1>5. ASSUME NEW h \in Holder, reserve[h].nIndex # NoIndex,
             NEW i \in DOMAIN v.db, v.db[i] = reserve[h].vchPubKey
      PROVE  i = reserve[h].nIndex
  <2>1. reserve[h].vchPubKey \in Int
    BY <1>1 DEF IInv, TypeOK
  <2>2. i \in DOMAIN wallet.db /\ v.db[i] = wallet.db[i]
    BY <1>1, <1>2, <1>3, <1>5, <2>1
  <2> QED
    BY <1>5, <2>2 DEF IInv, HeldAtIndex
<1>6. \A i \in DOMAIN v.db : v.db[i] # NoKey
  BY DEF Grown, WalletOK, NoKey
<1> QED
  BY <1>1, <1>4, <1>5, <1>6

\* Update notices a record written over while its index is reserved.
LEMMA OverwritingNoticed ==
  ASSUME IInv, NEW u, NEW new, Update(u), ~overwritten',
         \A i \in new : KeyAt(u, i) >= wallet.next \/ KeyAt(u, i) = NoKey
  PROVE  ~overwritten /\ Undisturbed /\ new \cap Reserved = {}
<1>1. ~overwritten /\ \A i \in Reserved : KeyAt(u, i) = KeyAt(wallet, i)
  BY Zenon DEF Update
<1>2. Undisturbed
  BY <1>1 DEF IInv
<1>3. ASSUME NEW i \in new, i \in Reserved
      PROVE  FALSE
  <2>1. i \in DOMAIN wallet.db
    BY <1>2, <1>3 DEF Undisturbed
  <2>2. KeyAt(wallet, i) = wallet.db[i]
    BY <2>1 DEF KeyAt
  <2>3. wallet.db[i] \in 1..(wallet.next - 1) /\ wallet.next \in Nat
    BY <2>1 DEF IInv, TypeOK, WalletOK
  <2> QED
    BY <1>1, <1>3, <2>2, <2>3 DEF NoKey
<1> QED
  BY <1>1, <1>2, <1>3

\* The pool as it is found, topped up or not.
LEMMA FilledGrows ==
  ASSUME TypeOK
  PROVE  \E new : Grown(wallet, Filled, new)
<1>1. CASE IsLocked
  <2>1. Grown(wallet, wallet, {})
    BY DEF TypeOK, WalletOK, Grown
  <2> QED
    BY <1>1, <2>1 DEF Filled
<1>2. CASE ~IsLocked
  BY <1>2, TopUpGrows DEF Filled, TypeOK
<1> QED
  BY <1>1, <1>2


-----------------------------------------------------------------------------
\* The invariant holds initially.
LEMMA InitInv == Init => IInv
<1> SUFFICES ASSUME Init
             PROVE  IInv
  OBVIOUS
<1> DEFINE e == [set |-> {}, db |-> << >>, next |-> 1]
           n == nTargetSize + 1
           w == WritePools(e, 1, n)
<1>1. WalletOK(e)
  BY DEF WalletOK
<1>2. TopUp(e, 0) = w
  BY FS_EmptySet, KeyPoolAssumption DEF TopUp
<1>3. /\ w = [set |-> w.set, db |-> w.db, next |-> w.next]
      /\ w.set = 1..n /\ w.next = n + 1 /\ DOMAIN w.db = 1..n /\ \A i \in 1..n : w.db[i] = i
  BY KeyPoolAssumption DEF WritePools
<1>4. WalletOK(w)
  <2> HIDE DEF w
  <2> QED
    BY <1>3, KeyPoolAssumption DEF WalletOK
<1> HIDE DEF w
<1>5. Oldest(w) = 1
  <2>1. w.set # {} /\ 1 \in w.set
    BY <1>3, KeyPoolAssumption
  <2>2. Min(w.set) = 1
    BY <1>3, <2>1, KeyPoolAssumption DEF Min
  <2> QED
    BY <2>1, <2>2 DEF Oldest
<1> DEFINE v == TakeOut(w)
<1>6. WalletOK(v) /\ v.set = (1..n) \ {1} /\ v.next = n + 1 /\ v.db = w.db
  BY <1>3, <1>4, <1>5, TakeOutOK
<1> HIDE DEF v
<1>7. wallet = ErasePools(v, {1})
  BY <1>2 DEF Init, v
<1>8. /\ WalletOK(wallet) /\ wallet.set = (1..n) \ {1} /\ wallet.next = n + 1
      /\ DOMAIN wallet.db = (1..n) \ {1} /\ \A i \in (1..n) \ {1} : wallet.db[i] = i
  <2>1. /\ WalletOK(wallet) /\ wallet.set = v.set /\ wallet.next = v.next
        /\ DOMAIN wallet.db = DOMAIN v.db \ {1}
        /\ \A i \in DOMAIN v.db \ {1} : wallet.db[i] = v.db[i]
    BY <1>6, <1>7, ErasePoolsOK
  <2> QED
    BY <1>3, <1>6, <2>1
<1>9. TypeOK
  <2>1. Free \in [nIndex : Index, vchPubKey : 0..(wallet.next - 1)]
    BY <1>8, KeyPoolAssumption DEF Free, NoKey, Index
  <2>2. given \subseteq 1..(wallet.next - 1) /\ DefaultKey \in given
    BY <1>8, KeyPoolAssumption DEF Init, DefaultKey
  <2> QED
    BY <1>8, <2>1, <2>2 DEF Init, TypeOK, Index
<1>10. GoneForGood
  BY <1>8 DEF Init, GoneForGood, DefaultKey
<1>11. \A h \in Holder : reserve[h].nIndex = NoIndex /\ reserve[h].vchPubKey = NoKey
  BY DEF Init, Free
<1>12. Reserved = {}
  BY <1>11 DEF Init, Reserved
<1> QED
  BY <1>8, <1>9, <1>10, <1>11, <1>12 DEF IInv, HeldAtIndex, NoIndexNoKey, Undisturbed

\* A refill writes fresh keys; on reserved indexes only if that is noticed.
LEMMA TopUpKeyPoolInv ==
  ASSUME IInv, NEW n \in KpSize, TopUpKeyPool(n)
  PROVE  IInv'
<1>1. n \in Nat
  BY KeyPoolAssumption
<1>2. PICK new : Grown(wallet, TopUp(wallet, n), new)
  BY <1>1, TopUpGrows DEF IInv, TypeOK
<1>3. /\ wallet' = TopUp(wallet, n) /\ Update(TopUp(wallet, n))
      /\ UNCHANGED <<reserve, oldest, given, reused>>
  BY DEF TopUpKeyPool, Update
<1>4. Grown(wallet, wallet', new) /\ Update(wallet')
  BY <1>2, <1>3
<1>5. /\ \A i \in DOMAIN wallet'.db : wallet'.db[i] \notin given
      /\ \A h \in Holder : reserve[h].nIndex # NoIndex =>
           \A i \in DOMAIN wallet'.db :
             wallet'.db[i] = reserve[h].vchPubKey => i = reserve[h].nIndex
      /\ wallet.next \in Nat /\ wallet'.next \in Nat /\ wallet.next <= wallet'.next
  BY <1>4, GrowthSpares
<1>6. TypeOK'
  <2>1. overwritten' \in BOOLEAN
    BY <1>3 DEF Update
  <2>2. Index \subseteq Index' /\ 0..(wallet.next - 1) \subseteq 0..(wallet'.next - 1)
        /\ 1..(wallet.next - 1) \subseteq 1..(wallet'.next - 1)
    BY <1>5 DEF Index
  <2>3. WalletOK(wallet')
    BY <1>4 DEF Grown
  <2> QED
    BY <1>3, <2>1, <2>2, <2>3 DEF IInv, TypeOK
<1>7. GoneForGood' /\ HeldAtIndex' /\ NoIndexNoKey'
  BY <1>3, <1>5 DEF IInv, GoneForGood, HeldAtIndex, NoIndexNoKey
<1>8. ASSUME ~overwritten'
      PROVE  Undisturbed'
  <2>0. \A i \in new : KeyAt(wallet', i) >= wallet.next
    BY <1>4 DEF Grown, KeyAt
  <2>1. Undisturbed /\ new \cap Reserved = {}
    BY <1>4, <1>8, <2>0, OverwritingNoticed
  <2>2. Reserved' = Reserved
    BY <1>3 DEF Reserved
  <2>3. \A h \in Holder : reserve[h].nIndex # NoIndex => reserve[h].nIndex \in Reserved
    BY DEF Reserved
  <2> QED
    BY <1>3, <1>4, <2>1, <2>2, <2>3 DEF Grown, Undisturbed
<1> QED
  BY <1>6, <1>7, <1>8 DEF IInv

\* LoadWallet makes every record free, which no holder then contradicts.
LEMMA StopWithInv ==
  ASSUME IInv, NEW w, NEW crypted, StopWith(w, crypted), WalletOK(w), w.next >= wallet.next,
         given \subseteq given', given' \subseteq 1..(w.next - 1), reused' = {},
         \A i \in DOMAIN w.db : w.db[i] \notin given'
  PROVE  IInv'
<1>1. wallet' = [set |-> DOMAIN w.db, db |-> w.db, next |-> w.next]
  <2>1. w = [set |-> w.set, db |-> w.db, next |-> w.next]
    BY DEF WalletOK
  <2> QED
    BY <2>1 DEF StopWith
<1>2. /\ wallet'.set = DOMAIN w.db /\ wallet'.db = w.db /\ wallet'.next = w.next
      /\ wallet' = [set |-> wallet'.set, db |-> wallet'.db, next |-> wallet'.next]
  BY <1>1
<1>3. WalletOK(wallet')
  BY <1>2 DEF WalletOK
<1>4. /\ reserve' = [h \in Holder |-> Free] /\ oldest' = NoIndex /\ overwritten' = FALSE
  BY DEF StopWith
<1>5. TypeOK'
  <2>1. Free \in [nIndex : Index', vchPubKey : 0..(wallet'.next - 1)]
    BY <1>3 DEF Free, NoKey, WalletOK, Index
  <2> QED
    BY <1>2, <1>3, <1>4, <2>1 DEF IInv, TypeOK, Index
<1>6. GoneForGood'
  BY <1>2 DEF GoneForGood
<1>7. \A h \in Holder : reserve'[h].nIndex = NoIndex /\ reserve'[h].vchPubKey = NoKey
  BY <1>4 DEF Free
<1>8. Reserved' = {}
  BY <1>4, <1>7 DEF Reserved
<1> QED
  BY <1>2, <1>5, <1>6, <1>7, <1>8 DEF IInv, HeldAtIndex, NoIndexNoKey, Undisturbed

\* A restart writes nothing.
LEMMA RestartInv ==
  ASSUME IInv, Restart
  PROVE  IInv'
<1>1. wallet.next >= wallet.next
  BY DEF IInv, TypeOK, WalletOK
<1> QED
  BY <1>1, StopWithInv DEF Restart, IInv, TypeOK, GoneForGood

\* A kept key loses its record, the only one with that key.
LEMMA KeepKeyInv ==
  ASSUME IInv, NEW h \in Holder, KeepKey(h)
  PROVE  IInv'
<1> DEFINE i == reserve[h].nIndex
           k == reserve[h].vchPubKey
           ks == IF i # NoIndex THEN {k} ELSE {}
<1>1. /\ wallet' = ErasePools(wallet, {i}) /\ k # NoKey /\ Give(ks)
      /\ reserve' = [reserve EXCEPT ![h] = Free]
      /\ UNCHANGED <<oldest, overwritten>>
  BY DEF KeepKey
<1>2. /\ WalletOK(wallet') /\ wallet'.set = wallet.set /\ wallet'.next = wallet.next
      /\ DOMAIN wallet'.db = DOMAIN wallet.db \ {i}
      /\ \A j \in DOMAIN wallet.db \ {i} : wallet'.db[j] = wallet.db[j]
  BY <1>1, ErasePoolsOK DEF IInv, TypeOK
<1>3. i \in Index /\ k \in 0..(wallet.next - 1)
  BY DEF IInv, TypeOK
<1>4. /\ reserve'[h] = Free
      /\ \A g \in Holder \ {h} : reserve'[g] = reserve[g]
  BY <1>1 DEF IInv, TypeOK
<1>5. given' = given \cup ks
  BY <1>1 DEF Give
<1>6. TypeOK'
  <2>1. Free \in [nIndex : Index, vchPubKey : 0..(wallet.next - 1)]
    BY DEF IInv, TypeOK, Free, NoKey, WalletOK, Index
  <2>2. Index' = Index
    BY <1>2 DEF Index
  <2>3. ks \subseteq 1..(wallet.next - 1)
    BY <1>1, <1>3 DEF NoKey
  <2> QED
    BY <1>1, <1>2, <1>5, <2>1, <2>2, <2>3 DEF IInv, TypeOK
<1>7. \A j \in DOMAIN wallet'.db : wallet'.db[j] \notin given'
  BY <1>2, <1>5 DEF IInv, GoneForGood, HeldAtIndex
<1>8. reused' = {}
  <2>1. CASE overwritten
    BY <1>1, <2>1 DEF Give, IInv, GoneForGood
  <2>2. CASE ~overwritten
    <3>1. i # NoIndex => i \in DOMAIN wallet.db /\ wallet.db[i] = k
      BY <2>2 DEF IInv, Undisturbed, Reserved
    <3>2. given \cap ks = {}
      BY <3>1 DEF IInv, GoneForGood
    <3> QED
      BY <1>1, <2>2, <3>2 DEF Give, IInv, GoneForGood
  <2> QED
    BY <2>1, <2>2
<1>9. HeldAtIndex' /\ NoIndexNoKey'
  BY <1>2, <1>4 DEF IInv, HeldAtIndex, NoIndexNoKey, Free
<1>10. ASSUME ~overwritten'
       PROVE  Undisturbed'
  <2>1. Undisturbed
    BY <1>1, <1>10 DEF IInv
  <2>2. Reserved' = Reserved \ {i}
    <3>1. \A g \in Holder \ {h} : reserve[g].nIndex = i => i = NoIndex
      BY <2>1 DEF Undisturbed
    <3>2. oldest = i => i = NoIndex
      BY <2>1 DEF Undisturbed
    <3>3. Reserved' = ({reserve[g].nIndex : g \in Holder \ {h}} \cup {oldest}) \ {NoIndex}
      BY <1>1, <1>4 DEF Reserved, Free
    <3>4. Reserved = ({reserve[g].nIndex : g \in Holder \ {h}} \cup {oldest, i}) \ {NoIndex}
      BY DEF Reserved
    <3> QED
      BY <3>1, <3>2, <3>3, <3>4
  <2>3. i # NoIndex => i \in Reserved
    BY DEF Reserved
  <2>4. i = NoIndex => i \notin DOMAIN wallet.db
    BY DEF IInv, TypeOK, WalletOK, NoIndex
  <2>5. wallet'.set \cap Reserved' = {} /\ wallet'.set \cup Reserved' = DOMAIN wallet'.db
    BY <1>2, <2>1, <2>2, <2>3, <2>4 DEF Undisturbed
  <2>6. ASSUME NEW g \in Holder, reserve'[g].nIndex # NoIndex
        PROVE  /\ wallet'.db[reserve'[g].nIndex] = reserve'[g].vchPubKey
               /\ reserve'[g].nIndex # oldest'
               /\ \A f \in Holder : f # g => reserve'[f].nIndex # reserve'[g].nIndex
    <3>1. g # h /\ reserve'[g] = reserve[g]
      BY <1>4, <2>6 DEF Free
    <3>2. reserve[g].nIndex # i /\ reserve[g].nIndex \in DOMAIN wallet.db
      BY <2>1, <2>6, <3>1 DEF Undisturbed, Reserved
    <3>3. wallet'.db[reserve'[g].nIndex] = reserve'[g].vchPubKey
      BY <1>2, <2>1, <2>6, <3>1, <3>2 DEF Undisturbed
    <3>4. reserve'[g].nIndex # oldest'
      BY <1>1, <2>1, <2>6, <3>1 DEF Undisturbed
    <3>5. ASSUME NEW f \in Holder, f # g
          PROVE  reserve'[f].nIndex # reserve'[g].nIndex
      <4>1. CASE f = h
        BY <1>4, <2>6, <4>1 DEF Free
      <4>2. CASE f # h
        BY <1>4, <2>1, <2>6, <3>1, <3>5, <4>2 DEF Undisturbed
      <4> QED
        BY <4>1, <4>2
    <3> QED
      BY <3>3, <3>4, <3>5
  <2> QED
    BY <2>5, <2>6 DEF Undisturbed
<1> QED
  BY <1>6, <1>7, <1>8, <1>9, <1>10 DEF IInv, GoneForGood

\* What ReserveKeyFromKeyPool takes: the oldest free index and its key.
LEMMA TakenOK ==
  ASSUME IInv, NEW new, Grown(wallet, Filled, new)
  PROVE  LET v == Filled
             u == TakeOut(Filled)
             i == Oldest(Filled)
             k == KeyAt(Filled, i)
         IN  /\ WalletOK(u) /\ u.set = v.set \ {i} /\ u.next = v.next /\ u.db = v.db
             /\ i \in {NoIndex} \cup 1..(v.next - 1)
             /\ i # NoIndex => i \in v.set
             /\ i = NoIndex => v.set = {}
             /\ k \in 0..(v.next - 1)
             /\ k # NoKey => i \in DOMAIN v.db /\ k = v.db[i]
             /\ i \in DOMAIN v.db => k # NoKey
             /\ \A j \in DOMAIN v.db : v.db[j] = k => j = i
<1> DEFINE v == Filled
           u == TakeOut(v)
           i == Oldest(v)
           k == KeyAt(v, i)
<1>1. WalletOK(v)
  BY DEF Grown
<1>2. WalletOK(u) /\ u.set = v.set \ {i} /\ u.next = v.next /\ u.db = v.db
  BY <1>1, TakeOutOK
<1>3. /\ i \in {NoIndex} \cup 1..(v.next - 1)
      /\ i # NoIndex => i \in v.set
      /\ i = NoIndex => v.set = {}
  <2>1. v.set # {} => i \in v.set /\ i \in 1..(v.next - 1)
    BY <1>1, OldestFree
  <2>2. v.set = {} => i = NoIndex
    BY <1>1, OldestFree
  <2> QED
    BY <2>1, <2>2 DEF NoIndex
<1>4. i \in DOMAIN v.db => k = v.db[i]
  BY DEF KeyAt
<1>5. i \notin DOMAIN v.db => k = NoKey
  BY DEF KeyAt
<1> HIDE DEF v, u, i, k
<1>6. /\ k \in 0..(v.next - 1)
      /\ i \in DOMAIN v.db => k # NoKey
  BY <1>1, <1>4, <1>5 DEF WalletOK, NoKey
<1>7. ASSUME NEW j \in DOMAIN v.db, v.db[j] = k
      PROVE  j = i
  BY <1>1, <1>4, <1>5, <1>7 DEF WalletOK, NoKey
<1> QED
  BY <1>2, <1>3, <1>4, <1>5, <1>6, <1>7 DEF v, u, i, k

\* The types are those of before in a wallet that has grown.
LEMMA TypesGrow ==
  ASSUME IInv, WalletOK(wallet'), wallet.next <= wallet'.next
  PROVE  /\ Index \subseteq Index'
         /\ 0..(wallet.next - 1) \subseteq 0..(wallet'.next - 1)
         /\ 1..(wallet.next - 1) \subseteq 1..(wallet'.next - 1)
         /\ Index' = {NoIndex} \cup 1..(wallet'.next - 1)
<1>1. wallet.next \in Nat /\ wallet'.next \in Nat
  BY DEF IInv, TypeOK, WalletOK
<1> QED
  BY <1>1 DEF Index

\* A holder gets the oldest free index, which nobody else has.
LEMMA GetReservedKeyInv ==
  ASSUME IInv, NEW h \in Holder, GetReservedKey(h)
  PROVE  IInv'
<1> DEFINE v == Filled
           i == Oldest(Filled)
           k == KeyAt(Filled, i)
           r == [nIndex |-> i, vchPubKey |-> IF i = NoIndex THEN DefaultKey ELSE k]
<1>1. /\ reserve[h].nIndex = NoIndex /\ wallet' = TakeOut(v) /\ Update(TakeOut(v))
      /\ reserve' = [reserve EXCEPT ![h] = r]
      /\ UNCHANGED <<oldest, given, reused>>
  BY DEF GetReservedKey, Update
<1>2. PICK new : Grown(wallet, v, new)
  BY FilledGrows DEF IInv
<1>3. /\ WalletOK(wallet') /\ wallet'.set = v.set \ {i}
      /\ wallet'.next = v.next /\ wallet'.db = v.db
      /\ i \in {NoIndex} \cup 1..(v.next - 1)
      /\ i # NoIndex => i \in v.set
      /\ i = NoIndex => v.set = {}
      /\ k \in 0..(v.next - 1)
      /\ k # NoKey => i \in DOMAIN v.db /\ k = v.db[i]
      /\ i \in DOMAIN v.db => k # NoKey
      /\ \A j \in DOMAIN v.db : v.db[j] = k => j = i
  BY <1>1, <1>2, TakenOK
<1>4. /\ \A j \in DOMAIN v.db : v.db[j] \notin given
      /\ \A g \in Holder : reserve[g].nIndex # NoIndex =>
           \A j \in DOMAIN v.db : v.db[j] = reserve[g].vchPubKey => j = reserve[g].nIndex
      /\ wallet.next \in Nat /\ v.next \in Nat /\ wallet.next <= v.next
  BY <1>2, GrowthSpares DEF IInv, TypeOK
<1>5. Update(wallet')
  BY <1>1
<1>6. /\ r.nIndex = i /\ (i # NoIndex => r.vchPubKey = k)
      /\ (i = NoIndex => r.vchPubKey = DefaultKey)
  OBVIOUS
<1>7. /\ v.set = wallet.set \cup new /\ DOMAIN v.db = DOMAIN wallet.db \cup new
      /\ \A j \in DOMAIN wallet.db \ new : v.db[j] = wallet.db[j]
      /\ \A j \in new : v.db[j] >= wallet.next
  BY <1>2 DEF Grown
<1> HIDE DEF v, i, k
<1>8. /\ reserve'[h] = r /\ \A g \in Holder \ {h} : reserve'[g] = reserve[g]
  BY <1>1 DEF IInv, TypeOK
<1>9. TypeOK'
  <2>1. /\ Index \subseteq Index'
        /\ 0..(wallet.next - 1) \subseteq 0..(wallet'.next - 1)
        /\ 1..(wallet.next - 1) \subseteq 1..(wallet'.next - 1)
        /\ Index' = {NoIndex} \cup 1..(wallet'.next - 1)
    BY <1>3, <1>4, TypesGrow
  <2>2. DefaultKey \in 0..(wallet'.next - 1)
    BY <1>3, <1>4 DEF IInv, TypeOK, DefaultKey
  <2>3. r \in [nIndex : Index', vchPubKey : 0..(wallet'.next - 1)]
    BY <1>3, <2>1, <2>2
  <2>4. overwritten' \in BOOLEAN
    BY <1>5 DEF Update
  <2> HIDE DEF r
  <2>5. reserve \in [Holder -> [nIndex : Index, vchPubKey : 0..(wallet.next - 1)]]
    BY DEF IInv, TypeOK
  <2>6. reserve' \in [Holder -> [nIndex : Index', vchPubKey : 0..(wallet'.next - 1)]]
    BY <1>1, <2>1, <2>3, <2>5
  <2>7. oldest' \in Index' /\ given' \subseteq 1..(wallet'.next - 1) /\ DefaultKey \in given'
    BY <1>1, <2>1 DEF IInv, TypeOK
  <2> QED
    BY <1>3, <2>4, <2>6, <2>7 DEF TypeOK
<1> HIDE DEF r
<1>10. GoneForGood'
  BY <1>1, <1>3, <1>4 DEF IInv, GoneForGood
<1>11. HeldAtIndex'
  <2> SUFFICES ASSUME NEW g \in Holder, reserve'[g].nIndex # NoIndex,
                      NEW j \in DOMAIN wallet'.db, wallet'.db[j] = reserve'[g].vchPubKey
               PROVE  j = reserve'[g].nIndex
    BY DEF HeldAtIndex
  <2>1. CASE g = h
    BY <1>3, <1>6, <1>8, <2>1
  <2>2. CASE g # h
    BY <1>3, <1>4, <1>8, <2>2
  <2> QED
    BY <2>1, <2>2
<1>12. NoIndexNoKey'
  BY <1>6, <1>8 DEF IInv, NoIndexNoKey
<1>13. ASSUME ~overwritten'
       PROVE  Undisturbed'
  <2>1. \A j \in new : KeyAt(wallet', j) >= wallet.next
    BY <1>3, <1>7 DEF KeyAt
  <2>2. Undisturbed /\ new \cap Reserved = {}
    BY <1>5, <1>13, <2>1, OverwritingNoticed
  <2>3. v.set \cap Reserved = {} /\ v.set \cup Reserved = DOMAIN v.db
    BY <1>7, <2>2 DEF Undisturbed
  <2>4. Reserved' = Reserved \cup ({i} \ {NoIndex})
    <3>1. Reserved' = ({reserve[g].nIndex : g \in Holder \ {h}} \cup {oldest, i}) \ {NoIndex}
      BY <1>1, <1>6, <1>8 DEF Reserved
    <3>2. Reserved = ({reserve[g].nIndex : g \in Holder \ {h}} \cup {oldest}) \ {NoIndex}
      BY <1>1 DEF Reserved
    <3> QED
      BY <3>1, <3>2
  <2>5. wallet'.set \cap Reserved' = {} /\ wallet'.set \cup Reserved' = DOMAIN wallet'.db
    <3>1. NoIndex \notin wallet'.set
      BY <1>3 DEF WalletOK, NoIndex
    <3> QED
      BY <1>3, <2>3, <2>4, <3>1
  <2>6. ASSUME NEW g \in Holder, reserve[g].nIndex # NoIndex
        PROVE  /\ reserve[g].nIndex \in DOMAIN wallet.db
               /\ wallet'.db[reserve[g].nIndex] = reserve[g].vchPubKey
               /\ reserve[g].nIndex # i
    <3>1. reserve[g].nIndex \in Reserved
      BY <2>6 DEF Reserved
    <3> QED
      BY <1>3, <1>7, <2>2, <2>3, <2>6, <3>1 DEF Undisturbed
  <2>7. oldest # NoIndex => oldest # i
    <3>1. oldest # NoIndex => oldest \in Reserved
      BY DEF Reserved
    <3> QED
      BY <1>3, <2>3, <3>1
  <2>8. ASSUME NEW g \in Holder, reserve'[g].nIndex # NoIndex
        PROVE  /\ wallet'.db[reserve'[g].nIndex] = reserve'[g].vchPubKey
               /\ reserve'[g].nIndex # oldest'
               /\ \A f \in Holder : f # g => reserve'[f].nIndex # reserve'[g].nIndex
    <3>1. CASE g = h
      <4>1. i # NoIndex /\ reserve'[g].nIndex = i /\ reserve'[g].vchPubKey = k
        BY <1>6, <1>8, <2>8, <3>1
      <4>2. i \in DOMAIN v.db /\ k = v.db[i]
        BY <1>3, <2>3, <4>1
      <4>3. \A f \in Holder : f # g => reserve'[f].nIndex # i
        BY <1>8, <2>6, <3>1, <4>1
      <4> QED
        BY <1>1, <1>3, <2>7, <4>1, <4>2, <4>3
    <3>2. CASE g # h
      <4>1. reserve'[g] = reserve[g] /\ reserve[g].nIndex # NoIndex
        BY <1>8, <2>8, <3>2
      <4>2. reserve[g].nIndex # oldest'
        BY <1>1, <2>2, <4>1 DEF Undisturbed
      <4>3. ASSUME NEW f \in Holder, f # g
            PROVE  reserve'[f].nIndex # reserve[g].nIndex
        <5>1. CASE f = h
          BY <1>6, <1>8, <2>6, <4>1, <5>1
        <5>2. CASE f # h
          BY <1>8, <2>2, <4>1, <4>3, <5>2 DEF Undisturbed
        <5> QED
          BY <5>1, <5>2
      <4>4. wallet'.db[reserve'[g].nIndex] = reserve'[g].vchPubKey
        BY <2>6, <4>1
      <4> QED
        BY <4>1, <4>2, <4>3, <4>4
    <3> QED
      BY <3>1, <3>2
  <2> QED
    BY <2>5, <2>8 DEF Undisturbed
<1> QED
  BY <1>9, <1>10, <1>11, <1>12, <1>13 DEF IInv

\* What putting an index back into setKeyPool does.
LEMMA PutBackOK ==
  ASSUME IInv, NEW S \in SUBSET (1..(wallet.next - 1)),
         wallet' = [wallet EXCEPT !.set = @ \cup S]
  PROVE  /\ WalletOK(wallet') /\ wallet'.set = wallet.set \cup S
         /\ wallet'.db = wallet.db /\ wallet'.next = wallet.next
<1>1. wallet = [set |-> wallet.set, db |-> wallet.db, next |-> wallet.next]
  BY DEF IInv, TypeOK, WalletOK
<1>2. wallet' = [set |-> wallet.set \cup S, db |-> wallet.db, next |-> wallet.next]
  BY <1>1
<1>3. /\ wallet'.set = wallet.set \cup S /\ wallet'.db = wallet.db /\ wallet'.next = wallet.next
      /\ wallet' = [set |-> wallet'.set, db |-> wallet'.db, next |-> wallet'.next]
  BY <1>2
<1>4. wallet'.set \subseteq 1..(wallet'.next - 1)
  BY <1>3 DEF IInv, TypeOK, WalletOK
<1>5. WalletOK(wallet')
  BY <1>3, <1>4 DEF IInv, TypeOK, WalletOK
<1> QED
  BY <1>3, <1>5

\* A returned index is free again and no longer the holder's.
LEMMA ReturnKeyInv ==
  ASSUME IInv, NEW h \in Holder, ReturnKey(h)
  PROVE  IInv'
<1> DEFINE i == reserve[h].nIndex
<1>1. /\ wallet' = [wallet EXCEPT !.set = @ \cup ({i} \ {NoIndex})]
      /\ reserve' = [reserve EXCEPT ![h] = Free]
      /\ UNCHANGED <<oldest, given, reused, overwritten>>
  BY DEF ReturnKey
<1>2. i \in Index
  BY DEF IInv, TypeOK
<1>3. {i} \ {NoIndex} \in SUBSET (1..(wallet.next - 1))
  BY <1>2 DEF Index
<1>4. /\ WalletOK(wallet') /\ wallet'.set = wallet.set \cup ({i} \ {NoIndex})
      /\ wallet'.db = wallet.db /\ wallet'.next = wallet.next
  BY <1>1, <1>3, PutBackOK
<1>5. /\ reserve'[h] = Free
      /\ \A g \in Holder \ {h} : reserve'[g] = reserve[g]
  BY <1>1 DEF IInv, TypeOK
<1>6. TypeOK'
  <2>1. Free \in [nIndex : Index, vchPubKey : 0..(wallet.next - 1)]
    BY DEF IInv, TypeOK, Free, NoKey, WalletOK, Index
  <2>2. Index' = Index
    BY <1>4 DEF Index
  <2> QED
    BY <1>1, <1>4, <2>1, <2>2 DEF IInv, TypeOK
<1>7. GoneForGood'
  BY <1>1, <1>4 DEF IInv, GoneForGood
<1>8. HeldAtIndex' /\ NoIndexNoKey'
  BY <1>4, <1>5 DEF IInv, HeldAtIndex, NoIndexNoKey, Free
<1>9. ASSUME ~overwritten'
      PROVE  Undisturbed'
  <2>1. Undisturbed
    BY <1>1, <1>9 DEF IInv
  <2>2. Reserved' = Reserved \ {i}
    <3>1. \A g \in Holder \ {h} : reserve[g].nIndex = i => i = NoIndex
      BY <2>1 DEF Undisturbed
    <3>2. oldest = i => i = NoIndex
      BY <2>1 DEF Undisturbed
    <3>3. Reserved' = ({reserve[g].nIndex : g \in Holder \ {h}} \cup {oldest}) \ {NoIndex}
      BY <1>1, <1>5 DEF Reserved, Free
    <3>4. Reserved = ({reserve[g].nIndex : g \in Holder \ {h}} \cup {oldest, i}) \ {NoIndex}
      BY DEF Reserved
    <3> QED
      BY <3>1, <3>2, <3>3, <3>4
  <2>3. (i # NoIndex => i \in Reserved) /\ NoIndex \notin Reserved
    BY DEF Reserved
  <2>4. wallet'.set \cap Reserved' = {} /\ wallet'.set \cup Reserved' = DOMAIN wallet'.db
    BY <1>4, <2>1, <2>2, <2>3 DEF Undisturbed
  <2>5. ASSUME NEW g \in Holder, reserve'[g].nIndex # NoIndex
        PROVE  /\ wallet'.db[reserve'[g].nIndex] = reserve'[g].vchPubKey
               /\ reserve'[g].nIndex # oldest'
               /\ \A f \in Holder : f # g => reserve'[f].nIndex # reserve'[g].nIndex
    <3>1. g # h /\ reserve'[g] = reserve[g]
      BY <1>5, <2>5 DEF Free
    <3>2. wallet'.db[reserve'[g].nIndex] = reserve'[g].vchPubKey
      BY <1>4, <2>1, <2>5, <3>1 DEF Undisturbed
    <3>3. reserve'[g].nIndex # oldest'
      BY <1>1, <2>1, <2>5, <3>1 DEF Undisturbed
    <3>4. ASSUME NEW f \in Holder, f # g
          PROVE  reserve'[f].nIndex # reserve'[g].nIndex
      <4>1. CASE f = h
        BY <1>5, <2>5, <4>1 DEF Free
      <4>2. CASE f # h
        BY <1>5, <2>1, <2>5, <3>1, <3>4, <4>2 DEF Undisturbed
      <4> QED
        BY <4>1, <4>2
    <3> QED
      BY <3>2, <3>3, <3>4
  <2> QED
    BY <2>4, <2>5 DEF Undisturbed
<1> QED
  BY <1>6, <1>7, <1>8, <1>9 DEF IInv

\* GetOldestKeyPoolTime returns the index it took.
LEMMA OldestReturnInv ==
  ASSUME IInv, OldestReturn
  PROVE  IInv'
<1>1. /\ oldest # NoIndex /\ wallet' = [wallet EXCEPT !.set = @ \cup {oldest}]
      /\ oldest' = NoIndex
      /\ UNCHANGED <<reserve, given, reused, overwritten>>
  BY DEF OldestReturn
<1>2. {oldest} \in SUBSET (1..(wallet.next - 1))
  BY <1>1 DEF IInv, TypeOK, Index
<1>3. /\ WalletOK(wallet') /\ wallet'.set = wallet.set \cup {oldest}
      /\ wallet'.db = wallet.db /\ wallet'.next = wallet.next
  BY <1>1, <1>2, PutBackOK
<1>4. TypeOK'
  <2>1. Index' = Index /\ oldest' \in Index
    BY <1>1, <1>3 DEF Index
  <2> QED
    BY <1>1, <1>3, <2>1 DEF IInv, TypeOK
<1>5. GoneForGood' /\ HeldAtIndex' /\ NoIndexNoKey'
  BY <1>1, <1>3 DEF IInv, GoneForGood, HeldAtIndex, NoIndexNoKey
<1>6. ASSUME ~overwritten'
      PROVE  Undisturbed'
  <2>1. Undisturbed
    BY <1>1, <1>6 DEF IInv
  <2>2. Reserved' = Reserved \ {oldest} /\ oldest \in Reserved
    BY <1>1, <2>1 DEF Undisturbed, Reserved
  <2> QED
    BY <1>1, <1>3, <2>1, <2>2 DEF Undisturbed
<1> QED
  BY <1>4, <1>5, <1>6 DEF IInv

\* GetOldestKeyPoolTime takes an index nobody has.
LEMMA OldestReserveInv ==
  ASSUME IInv, OldestReserve
  PROVE  IInv'
<1> DEFINE v == Filled
           i == Oldest(Filled)
           k == KeyAt(Filled, i)
<1>1. /\ oldest = NoIndex /\ wallet' = TakeOut(v) /\ Update(TakeOut(v))
      /\ oldest' = IF k = NoKey THEN NoIndex ELSE i
      /\ UNCHANGED <<reserve, given, reused>>
  BY DEF OldestReserve, Update
<1>2. PICK new : Grown(wallet, v, new)
  BY FilledGrows DEF IInv
<1>3. /\ WalletOK(wallet') /\ wallet'.set = v.set \ {i}
      /\ wallet'.next = v.next /\ wallet'.db = v.db
      /\ i \in {NoIndex} \cup 1..(v.next - 1)
      /\ i # NoIndex => i \in v.set
      /\ i = NoIndex => v.set = {}
      /\ k # NoKey => i \in DOMAIN v.db /\ k = v.db[i]
      /\ i \in DOMAIN v.db => k # NoKey
  BY <1>1, <1>2, TakenOK
<1>4. /\ \A j \in DOMAIN v.db : v.db[j] \notin given
      /\ \A g \in Holder : reserve[g].nIndex # NoIndex =>
           \A j \in DOMAIN v.db : v.db[j] = reserve[g].vchPubKey => j = reserve[g].nIndex
      /\ wallet.next \in Nat /\ v.next \in Nat /\ wallet.next <= v.next
  BY <1>2, GrowthSpares DEF IInv, TypeOK
<1>5. Update(wallet')
  BY <1>1
<1>6. /\ v.set = wallet.set \cup new /\ DOMAIN v.db = DOMAIN wallet.db \cup new
      /\ \A j \in DOMAIN wallet.db \ new : v.db[j] = wallet.db[j]
      /\ \A j \in new : v.db[j] >= wallet.next
  BY <1>2 DEF Grown
<1> HIDE DEF v, i, k
<1>7. TypeOK'
  <2>1. /\ Index \subseteq Index'
        /\ 0..(wallet.next - 1) \subseteq 0..(wallet'.next - 1)
        /\ 1..(wallet.next - 1) \subseteq 1..(wallet'.next - 1)
        /\ Index' = {NoIndex} \cup 1..(wallet'.next - 1)
    BY <1>3, <1>4, TypesGrow
  <2>2. overwritten' \in BOOLEAN
    BY <1>5 DEF Update
  <2>3. reserve' \in [Holder -> [nIndex : Index', vchPubKey : 0..(wallet'.next - 1)]]
    BY <1>1, <2>1 DEF IInv, TypeOK
  <2>4. given' \subseteq 1..(wallet'.next - 1) /\ DefaultKey \in given'
    BY <1>1, <2>1 DEF IInv, TypeOK
  <2>5. oldest' \in Index'
    BY <1>1, <1>3, <2>1
  <2> QED
    BY <1>3, <2>2, <2>3, <2>4, <2>5 DEF TypeOK
<1>8. GoneForGood' /\ HeldAtIndex' /\ NoIndexNoKey'
  BY <1>1, <1>3, <1>4 DEF IInv, GoneForGood, HeldAtIndex, NoIndexNoKey
<1>9. ASSUME ~overwritten'
      PROVE  Undisturbed'
  <2>1. \A j \in new : KeyAt(wallet', j) >= wallet.next
    BY <1>3, <1>6 DEF KeyAt
  <2>2. Undisturbed /\ new \cap Reserved = {}
    BY <1>5, <1>9, <2>1, OverwritingNoticed
  <2>3. v.set \cap Reserved = {} /\ v.set \cup Reserved = DOMAIN v.db
    BY <1>6, <2>2 DEF Undisturbed
  <2>4. oldest' = i
    BY <1>1, <1>3, <2>3
  <2>5. Reserved' = Reserved \cup ({i} \ {NoIndex})
    BY <1>1, <2>4 DEF Reserved
  <2>6. wallet'.set \cap Reserved' = {} /\ wallet'.set \cup Reserved' = DOMAIN wallet'.db
    <3>1. NoIndex \notin wallet'.set
      BY <1>3 DEF WalletOK, NoIndex
    <3> QED
      BY <1>3, <2>3, <2>5, <3>1
  <2>7. ASSUME NEW g \in Holder, reserve[g].nIndex # NoIndex
        PROVE  /\ wallet'.db[reserve[g].nIndex] = reserve[g].vchPubKey
               /\ reserve[g].nIndex # i
    <3>1. reserve[g].nIndex \in Reserved
      BY <2>7 DEF Reserved
    <3> QED
      BY <1>3, <1>6, <2>2, <2>3, <2>7, <3>1 DEF Undisturbed
  <2> QED
    BY <1>1, <2>2, <2>4, <2>6, <2>7 DEF Undisturbed
<1> QED
  BY <1>7, <1>8, <1>9 DEF IInv

\* The key given loses its record in the same step.
LEMMA GetKeyFromPoolInv ==
  ASSUME IInv, GetKeyFromPool
  PROVE  IInv'
<1> DEFINE v == Filled
           i == Oldest(Filled)
           k == KeyAt(Filled, i)
           u == IF k = NoKey THEN TakeOut(Filled) ELSE ErasePools(TakeOut(Filled), {i})
<1>1. /\ wallet' = u /\ Update(u) /\ Give({k} \ {NoKey})
      /\ UNCHANGED <<reserve, oldest>>
  BY DEF GetKeyFromPool, Update
<1>2. PICK new : Grown(wallet, v, new)
  BY FilledGrows DEF IInv
<1> DEFINE t == TakeOut(Filled)
<1>3. /\ WalletOK(t) /\ t.set = v.set \ {i} /\ t.next = v.next /\ t.db = v.db
      /\ i # NoIndex => i \in v.set
      /\ i = NoIndex => v.set = {}
      /\ k \in 0..(v.next - 1)
      /\ k # NoKey => i \in DOMAIN v.db /\ k = v.db[i]
      /\ i \in DOMAIN v.db => k # NoKey
      /\ \A j \in DOMAIN v.db : v.db[j] = k => j = i
  BY <1>2, TakenOK
<1>4. /\ WalletOK(wallet') /\ wallet'.set = v.set \ {i} /\ wallet'.next = v.next
      /\ DOMAIN wallet'.db = IF k = NoKey THEN DOMAIN v.db ELSE DOMAIN v.db \ {i}
      /\ \A j \in DOMAIN wallet'.db : wallet'.db[j] = v.db[j]
  <2> HIDE DEF t, v, i, k
  <2>1. CASE k = NoKey
    <3>1. wallet' = t
      BY <1>1, <2>1 DEF t, k, v, i
    <3> QED
      BY <1>3, <2>1, <3>1
  <2>2. CASE k # NoKey
    <3>1. wallet' = ErasePools(t, {i})
      BY <1>1, <2>2 DEF t, k, v, i
    <3>2. /\ WalletOK(wallet') /\ wallet'.set = t.set /\ wallet'.next = t.next
          /\ DOMAIN wallet'.db = DOMAIN t.db \ {i}
          /\ \A j \in DOMAIN t.db \ {i} : wallet'.db[j] = t.db[j]
      BY <1>3, <3>1, ErasePoolsOK
    <3> QED
      BY <1>3, <2>2, <3>2
  <2> QED
    BY <2>1, <2>2
<1>5. /\ \A j \in DOMAIN v.db : v.db[j] \notin given
      /\ \A g \in Holder : reserve[g].nIndex # NoIndex =>
           \A j \in DOMAIN v.db : v.db[j] = reserve[g].vchPubKey => j = reserve[g].nIndex
      /\ wallet.next \in Nat /\ v.next \in Nat /\ wallet.next <= v.next
  BY <1>2, GrowthSpares DEF IInv, TypeOK
<1>6. Update(wallet')
  BY <1>1
<1>7. /\ v.set = wallet.set \cup new /\ DOMAIN v.db = DOMAIN wallet.db \cup new
      /\ \A j \in DOMAIN wallet.db \ new : v.db[j] = wallet.db[j]
      /\ \A j \in new : v.db[j] >= wallet.next
  BY <1>2 DEF Grown
<1>8. given' = given \cup ({k} \ {NoKey})
  BY <1>1 DEF Give
<1> HIDE DEF v, i, k, u, t
<1>9. reused' = {}
  <2>1. given \cap ({k} \ {NoKey}) = {}
    BY <1>3, <1>5
  <2>2. reused = {}
    BY DEF IInv, GoneForGood
  <2> QED
    BY <1>1, <2>1, <2>2 DEF Give
<1>10. TypeOK'
  <2>1. /\ Index \subseteq Index'
        /\ 0..(wallet.next - 1) \subseteq 0..(wallet'.next - 1)
        /\ 1..(wallet.next - 1) \subseteq 1..(wallet'.next - 1)
    BY <1>4, <1>5, TypesGrow
  <2>2. overwritten' \in BOOLEAN
    BY <1>6 DEF Update
  <2>3. {k} \ {NoKey} \subseteq 1..(wallet'.next - 1)
    BY <1>3, <1>4, <1>5 DEF NoKey
  <2> QED
    BY <1>1, <1>4, <1>8, <2>1, <2>2, <2>3 DEF IInv, TypeOK
<1>11. \A j \in DOMAIN wallet'.db : wallet'.db[j] \notin given'
  <2>1. ASSUME NEW j \in DOMAIN wallet'.db, wallet'.db[j] = k, k # NoKey
        PROVE  FALSE
    BY <1>3, <1>4, <2>1
  <2>2. \A j \in DOMAIN wallet'.db : j \in DOMAIN v.db
    BY <1>4
  <2> QED
    BY <1>4, <1>5, <1>8, <2>1, <2>2
<1>12. HeldAtIndex' /\ NoIndexNoKey'
  <2>1. DOMAIN wallet'.db \subseteq DOMAIN v.db
    BY <1>4
  <2> QED
    BY <1>1, <1>4, <1>5, <2>1 DEF IInv, HeldAtIndex, NoIndexNoKey
<1>13. ASSUME ~overwritten'
       PROVE  Undisturbed'
  <2>1. \A j \in new : KeyAt(wallet', j) >= wallet.next \/ KeyAt(wallet', j) = NoKey
    BY <1>4, <1>7 DEF KeyAt
  <2>2. Undisturbed /\ new \cap Reserved = {}
    BY <1>6, <1>13, <2>1, OverwritingNoticed
  <2>3. v.set \cap Reserved = {} /\ v.set \cup Reserved = DOMAIN v.db
    BY <1>7, <2>2 DEF Undisturbed
  <2>4. Reserved' = Reserved
    BY <1>1 DEF Reserved
  <2>5. wallet'.set \cap Reserved' = {} /\ wallet'.set \cup Reserved' = DOMAIN wallet'.db
    <3>1. CASE k = NoKey
      BY <1>3, <1>4, <2>3, <2>4, <3>1
    <3>2. CASE k # NoKey
      <4>1. i \in v.set /\ DOMAIN wallet'.db = DOMAIN v.db \ {i}
        BY <1>3, <1>4, <3>2 DEF Grown, WalletOK, NoIndex
      <4> QED
        BY <1>4, <2>3, <2>4, <4>1
    <3> QED
      BY <3>1, <3>2
  <2>6. ASSUME NEW g \in Holder, reserve[g].nIndex # NoIndex
        PROVE  wallet'.db[reserve[g].nIndex] = reserve[g].vchPubKey
    <3>1. reserve[g].nIndex \in Reserved
      BY <2>6 DEF Reserved
    <3>2. reserve[g].nIndex \in DOMAIN wallet'.db
      BY <2>4, <2>5, <3>1
    <3> QED
      BY <1>4, <1>7, <2>2, <2>6, <3>1, <3>2 DEF Undisturbed
  <2> QED
    BY <1>1, <2>2, <2>5, <2>6 DEF Undisturbed
<1> QED
  BY <1>9, <1>10, <1>11, <1>12, <1>13 DEF IInv, GoneForGood

\* The old pool flushed by NewKeyPool, or part of it, and fresh keys from 1 on: no
\* key of the flushed records is left, and none of them was gone before.
LEMMA FlushedOK ==
  ASSUME IInv, NEW erased \in SUBSET wallet.set, NEW w, WalletOK(w), w.next = wallet.next,
         DOMAIN w.db = DOMAIN wallet.db \ erased,
         \A i \in DOMAIN w.db : w.db[i] = wallet.db[i],
         NEW n \in Nat, Give(KeysAt(erased))
  PROVE  LET v == WritePools(w, 1, n)
         IN  /\ Grown(w, v, 1..n)
             /\ given' \subseteq 1..(wallet.next - 1) /\ given \subseteq given' /\ reused' = {}
             /\ \A i \in DOMAIN v.db : v.db[i] \notin given'
<1> DEFINE v == WritePools(w, 1, n)
           new == 1..(1 + n - 1)
<1>1. Grown(w, v, new)
  <2>1. 1 \in 1..w.next
    BY DEF WalletOK
  <2> QED
    BY <2>1, WritePoolsGrow
<1>2. new = 1..n
  OBVIOUS
<1> HIDE DEF v, new
<1>3. \A i \in DOMAIN v.db : v.db[i] \notin given
  BY <1>1, GrowthSpares
<1>4. given' = given \cup KeysAt(erased)
  BY DEF Give
<1>5. \A k \in KeysAt(erased) : \E j \in DOMAIN wallet.db : j \in erased /\ k = wallet.db[j]
  BY DEF KeysAt
<1>6. KeysAt(erased) \subseteq 1..(wallet.next - 1) /\ given \cap KeysAt(erased) = {}
  BY <1>5 DEF IInv, TypeOK, WalletOK, GoneForGood
<1>7. reused' = {}
  <2>1. reused = {}
    BY DEF IInv, GoneForGood
  <2> QED
    BY <1>6, <2>1 DEF Give
<1>8. ASSUME NEW i \in DOMAIN v.db, v.db[i] \in KeysAt(erased)
      PROVE  FALSE
  <2>1. PICK j \in DOMAIN wallet.db : j \in erased /\ v.db[i] = wallet.db[j]
    BY <1>5, <1>8
  <2>2. wallet.db[j] \in 1..(wallet.next - 1) /\ wallet.next \in Nat
    BY DEF IInv, TypeOK, WalletOK
  <2>3. i \notin new
    BY <1>1, <2>1, <2>2 DEF Grown
  <2>4. i \in DOMAIN w.db /\ v.db[i] = w.db[i]
    BY <1>1, <1>8, <2>3 DEF Grown
  <2>5. i = j
    BY <2>1, <2>4 DEF IInv, TypeOK, WalletOK
  <2> QED
    BY <2>1, <2>4, <2>5
<1>9. given' \subseteq 1..(wallet.next - 1) /\ given \subseteq given'
  BY <1>4, <1>6 DEF IInv, TypeOK
<1> QED
  BY <1>1, <1>2, <1>3, <1>4, <1>7, <1>8, <1>9 DEF v

\* NewKeyPool flushes the free keys and leaves the reserved records.
LEMMA EncryptWalletInv ==
  ASSUME IInv, EncryptWallet
  PROVE  IInv'
<1> DEFINE e == ErasePools(wallet, wallet.set)
           w == [e EXCEPT !.set = {}]
           v == WritePools(w, 1, nTargetSize)
           new == 1..nTargetSize
<1>1. /\ wallet' = v /\ Update(v) /\ Give(KeysAt(wallet.set))
      /\ UNCHANGED <<reserve, oldest>>
  BY DEF EncryptWallet, NewKeyPool, Update
<1>2. /\ WalletOK(e) /\ e.next = wallet.next /\ DOMAIN e.db = DOMAIN wallet.db \ wallet.set
      /\ \A i \in DOMAIN wallet.db \ wallet.set : e.db[i] = wallet.db[i]
  BY ErasePoolsOK DEF IInv, TypeOK
<1>3. w = [set |-> {}, db |-> e.db, next |-> e.next]
  <2>1. e = [set |-> e.set, db |-> e.db, next |-> e.next]
    BY <1>2 DEF WalletOK
  <2> HIDE DEF e
  <2> QED
    BY <2>1
<1> HIDE DEF e, w
<1>4. /\ w.set = {} /\ w.db = e.db /\ w.next = e.next
      /\ w = [set |-> w.set, db |-> w.db, next |-> w.next]
  BY <1>3
<1>5. WalletOK(w)
  BY <1>2, <1>4 DEF WalletOK
<1>6. nTargetSize \in Nat
  BY KeyPoolAssumption
<1>7. /\ Grown(w, v, new) /\ given' \subseteq 1..(wallet.next - 1) /\ given \subseteq given'
      /\ reused' = {} /\ \A i \in DOMAIN v.db : v.db[i] \notin given'
  BY <1>1, <1>2, <1>4, <1>5, <1>6, FlushedOK
<1> HIDE DEF v, new
<1>8. /\ \A g \in Holder : reserve[g].nIndex # NoIndex =>
           \A j \in DOMAIN v.db : v.db[j] = reserve[g].vchPubKey => j = reserve[g].nIndex
      /\ wallet.next \in Nat /\ v.next \in Nat /\ wallet.next <= v.next
  BY <1>2, <1>4, <1>7, GrowthSpares
<1>9. /\ WalletOK(wallet') /\ wallet'.set = new /\ wallet'.db = v.db /\ wallet'.next = v.next
      /\ DOMAIN v.db = (DOMAIN wallet.db \ wallet.set) \cup new
      /\ \A i \in (DOMAIN wallet.db \ wallet.set) \ new : v.db[i] = wallet.db[i]
      /\ \A i \in new : v.db[i] >= wallet.next
  BY <1>1, <1>2, <1>4, <1>7 DEF Grown
<1>10. Update(wallet')
  BY <1>1
<1>11. TypeOK'
  <2>1. /\ Index \subseteq Index'
        /\ 0..(wallet.next - 1) \subseteq 0..(wallet'.next - 1)
        /\ 1..(wallet.next - 1) \subseteq 1..(wallet'.next - 1)
    BY <1>8, <1>9, TypesGrow
  <2>2. overwritten' \in BOOLEAN
    BY <1>10 DEF Update
  <2> QED
    BY <1>1, <1>7, <1>9, <2>1, <2>2 DEF IInv, TypeOK
<1>12. GoneForGood' /\ HeldAtIndex' /\ NoIndexNoKey'
  BY <1>1, <1>7, <1>8, <1>9 DEF IInv, GoneForGood, HeldAtIndex, NoIndexNoKey
<1>13. ASSUME ~overwritten'
       PROVE  Undisturbed'
  <2>1. \A j \in new : KeyAt(wallet', j) >= wallet.next
    BY <1>9 DEF KeyAt
  <2>2. Undisturbed /\ new \cap Reserved = {}
    BY <1>10, <1>13, <2>1, OverwritingNoticed
  <2>3. Reserved' = Reserved
    BY <1>1 DEF Reserved
  <2>4. wallet'.set \cap Reserved' = {} /\ wallet'.set \cup Reserved' = DOMAIN wallet'.db
    BY <1>9, <2>2, <2>3 DEF Undisturbed
  <2>5. ASSUME NEW g \in Holder, reserve[g].nIndex # NoIndex
        PROVE  wallet'.db[reserve[g].nIndex] = reserve[g].vchPubKey
    <3>1. reserve[g].nIndex \in Reserved
      BY <2>5 DEF Reserved
    <3> QED
      BY <1>9, <2>2, <2>5, <3>1 DEF Undisturbed
  <2> QED
    BY <1>1, <2>2, <2>4, <2>5 DEF Undisturbed
<1> QED
  BY <1>11, <1>12, <1>13 DEF IInv

\* Encryption cut short flushes no key that is still in a record.
LEMMA EncryptInterruptedInv ==
  ASSUME IInv, NEW erased \in SUBSET wallet.set, NEW made \in 0..nTargetSize,
         EncryptInterrupted(erased, made)
  PROVE  IInv'
<1> DEFINE w == ErasePools(wallet, erased)
           v == WritePools(w, 1, made)
<1>1. StopWith(v, TRUE) /\ Give(KeysAt(erased))
  BY DEF EncryptInterrupted
<1>2. /\ WalletOK(w) /\ w.next = wallet.next /\ DOMAIN w.db = DOMAIN wallet.db \ erased
      /\ \A i \in DOMAIN wallet.db \ erased : w.db[i] = wallet.db[i]
  BY ErasePoolsOK DEF IInv, TypeOK
<1>3. made \in Nat
  BY KeyPoolAssumption
<1> HIDE DEF w
<1>4. /\ Grown(w, v, 1..made) /\ given' \subseteq 1..(wallet.next - 1) /\ given \subseteq given'
      /\ reused' = {} /\ \A i \in DOMAIN v.db : v.db[i] \notin given'
  BY <1>1, <1>2, <1>3, FlushedOK
<1> HIDE DEF v
<1>5. WalletOK(v) /\ wallet.next \in Nat /\ v.next \in Nat /\ wallet.next <= v.next
  BY <1>2, <1>4 DEF Grown, IInv, TypeOK, WalletOK
<1>6. given' \subseteq 1..(v.next - 1) /\ v.next >= wallet.next
  BY <1>4, <1>5
<1> QED
  BY <1>1, <1>4, <1>5, <1>6, StopWithInv

\* Locking and unlocking leave the pool alone.
LEMMA UntouchedInv ==
  ASSUME IInv, UNCHANGED <<wallet, reserve, oldest, given, reused, overwritten>>
  PROVE  IInv'
<1>1. Index' = Index /\ Reserved' = Reserved
  BY DEF Index, Reserved
<1> QED
  BY <1>1 DEF IInv, TypeOK, GoneForGood, HeldAtIndex, NoIndexNoKey, Undisturbed

\* Every step keeps the invariant.
LEMMA NextInv == IInv /\ [Next]_vars => IInv'
<1> SUFFICES ASSUME IInv, [Next]_vars
             PROVE  IInv'
  OBVIOUS
<1>1. ASSUME NEW n \in KpSize, TopUpKeyPool(n)
      PROVE  IInv'
  BY <1>1, TopUpKeyPoolInv
<1>2. ASSUME NEW h \in Holder, GetReservedKey(h)
      PROVE  IInv'
  BY <1>2, GetReservedKeyInv
<1>3. ASSUME NEW h \in Holder, AssertValid(h)
      PROVE  IInv'
  BY <1>3, RestartInv DEF AssertValid
<1>4. ASSUME NEW h \in Holder, KeepKey(h)
      PROVE  IInv'
  BY <1>4, KeepKeyInv
<1>5. ASSUME NEW h \in Holder, ReturnKey(h)
      PROVE  IInv'
  BY <1>5, ReturnKeyInv
<1>6. CASE GetKeyFromPool
  BY <1>6, GetKeyFromPoolInv
<1>7. CASE OldestReserve
  BY <1>7, OldestReserveInv
<1>8. CASE OldestReturn
  BY <1>8, OldestReturnInv
<1>9. CASE EncryptWallet
  BY <1>9, EncryptWalletInv
<1>10. ASSUME NEW erased \in SUBSET wallet.set, NEW made \in 0..nTargetSize,
              EncryptInterrupted(erased, made)
       PROVE  IInv'
  BY <1>10, EncryptInterruptedInv
<1>11. CASE Lock
  BY <1>11, UntouchedInv DEF Lock
<1>12. CASE Unlock
  BY <1>12, UntouchedInv DEF Unlock
<1>13. CASE Restart
  BY <1>13, RestartInv
<1>14. CASE UNCHANGED vars
  BY <1>14, UntouchedInv DEF vars
<1> QED
  BY <1>1, <1>2, <1>3, <1>4, <1>5, <1>6, <1>7, <1>8, <1>9, <1>10, <1>11, <1>12, <1>13, <1>14,
     Zenon DEF Next

(* Every record of the pool holds a key of its own that is not gone, a     *)
(* holder's key is under its index or nowhere, and setKeyPool and the      *)
(* indexes taken from it partition the records until one is written over,  *)
(* for every number of holders and keys (ReserveKeyFromKeyPool, KeepKey,   *)
(* ReturnKey, TopUpKeyPool, NewKeyPool, EncryptWallet).                    *)
THEOREM PoolConsistent == Spec => []IInv
<1> QED
  BY InitInv, NextInv, PTL DEF Spec

(* A key leaves the pool once, over returns, refills, encryption cut short *)
(* anywhere and restarts (KeepKey, GetKeyFromPool, NewKeyPool).            *)
THEOREM KeysUsedOnce == Spec => []KeyUsedOnce
<1>1. IInv => KeyUsedOnce
  <2> SUFFICES ASSUME IInv
               PROVE  KeyUsedOnce
    OBVIOUS
  <2>1. given \cap KeysAt(DOMAIN wallet.db) = {}
    BY DEF IInv, GoneForGood, KeysAt
  <2>2. ASSUME NEW h \in Holder, NEW g \in Holder, h # g, reserve[h].nIndex # NoIndex,
               ~overwritten, reserve[h].vchPubKey = reserve[g].vchPubKey
        PROVE  FALSE
    <3>1. Undisturbed
      BY <2>2 DEF IInv
    <3>2. reserve[h].nIndex \in DOMAIN wallet.db
      BY <2>2, <3>1 DEF Undisturbed, Reserved
    <3>3. reserve[h].vchPubKey = wallet.db[reserve[h].nIndex]
      BY <2>2, <3>1 DEF Undisturbed
    <3>4. reserve[h].vchPubKey \notin {NoKey, DefaultKey}
      BY <3>2, <3>3 DEF IInv, TypeOK, WalletOK, GoneForGood, NoKey
    <3>5. reserve[g].nIndex # NoIndex
      BY <2>2, <3>4 DEF IInv, NoIndexNoKey
    <3>6. reserve[h].nIndex = reserve[g].nIndex
      BY <2>2, <3>2, <3>3, <3>5 DEF IInv, HeldAtIndex
    <3> QED
      BY <2>2, <3>1, <3>6 DEF Undisturbed
  <2>3. reused = {}
    BY DEF IInv, GoneForGood
  <2> QED
    BY <2>1, <2>2, <2>3 DEF KeyUsedOnce
<1> QED
  BY <1>1, PoolConsistent, PTL

(* Every record is free in setKeyPool or reserved, never both, and every   *)
(* such index has its record, until the record of a reserved index is      *)
(* written over (ReserveKeyFromKeyPool, ReturnKey, TopUpKeyPool).          *)
THEOREM RecordsKept == Spec => []PoolIsRecords
<1>1. IInv => PoolIsRecords
  BY DEF IInv, Undisturbed, PoolIsRecords
<1> QED
  BY <1>1, PoolConsistent, PTL

-----------------------------------------------------------------------------
(* Subsidy: sums *)

\* A set of numbers has a least element.
LEMMA LeastOf ==
  ASSUME NEW B, B \subseteq Nat, B # {}
  PROVE  \E m \in B : \A x \in B : ~(x < m)
<1> DEFINE R == {ss \in Nat \X Nat : ss[1] < ss[2]}
<1>1. IsWellFoundedOn(R, Nat)
  BY NatLessThanWellFounded, Zenon DEF OpToRel
<1>2. \E m \in B : \A x \in B : ~(<<x, m>> \in R)
  <2> HIDE DEF R
  <2> QED
    BY <1>1, WFMin, Zenon
<1>3. PICK m \in B : \A x \in B : ~(<<x, m>> \in R)
  BY <1>2, Zenon
<1>4. \A x \in B : ~(x < m)
  BY <1>3
<1> QED
  BY <1>4

Pick(s) == CHOOSE x \in s : TRUE

\* g[s] is the sum of f over s, for every part s of S.
Sums(g, f, S) ==
  g = [s \in SUBSET S |-> IF s = {} THEN 0 ELSE f[Pick(s)] + g[s \ {Pick(s)}]]

\* What the recursion says of one part.
LEMMA SumsAt ==
  ASSUME NEW f, NEW S, NEW g, Sums(g, f, S), NEW s, s \subseteq S
  PROVE  /\ s = {} => g[s] = 0
         /\ s # {} => /\ Pick(s) \in s
                      /\ g[s] = f[Pick(s)] + g[s \ {Pick(s)}]
<1> DEFINE F(t) == IF t = {} THEN 0 ELSE f[Pick(t)] + g[t \ {Pick(t)}]
<1>1. g = [t \in SUBSET S |-> F(t)]
  BY DEF Sums
<1>2. s # {} => Pick(s) \in s
  BY Zenon DEF Pick
<1>3. g[s] = F(s)
  <2> HIDE DEF F
  <2> QED
    BY <1>1
<1> QED
  BY <1>2, <1>3 DEF F

\* The sum over nothing.
LEMMA SumsEmpty ==
  ASSUME NEW f, NEW S, NEW g, Sums(g, f, S)
  PROVE  g[{}] = 0
BY SumsAt

\* A finite set without one of its elements is smaller.
LEMMA OneLess ==
  ASSUME NEW S, IsFiniteSet(S), NEW x \in S
  PROVE  /\ IsFiniteSet(S \ {x}) /\ Cardinality(S) \in Nat /\ Cardinality(S \ {x}) \in Nat
         /\ Cardinality(S \ {x}) = Cardinality(S) - 1
         /\ Cardinality(S \ {x}) < Cardinality(S)
<1>1. IsFiniteSet(S \ {x}) /\ Cardinality(S \ {x}) = Cardinality(S) - 1
  BY FS_RemoveElement
<1>2. Cardinality(S) \in Nat /\ Cardinality(S \ {x}) \in Nat
  BY <1>1, FS_CardinalityType
<1> QED
  BY <1>1, <1>2

\* The sum over a part depends on the values on it alone.
LEMMA SumsUnique ==
  ASSUME NEW f, NEW S, NEW g, Sums(g, f, S), NEW k, NEW T, NEW h, Sums(h, k, T),
         NEW s, IsFiniteSet(s), s \subseteq S, s \subseteq T, \A x \in s : f[x] = k[x]
  PROVE  g[s] = h[s]
<1> DEFINE Bad(t) == IsFiniteSet(t) /\ t \subseteq s /\ g[t] # h[t]
           B == {n \in Nat : \E t : Bad(t) /\ Cardinality(t) = n}
<1>1. SUFFICES ASSUME B # {} PROVE FALSE
  BY FS_CardinalityType
<1>2. PICK n \in B : \A m \in B : ~(m < n)
  <2>1. B \subseteq Nat
    OBVIOUS
  <2> HIDE DEF B
  <2> QED
    BY <1>1, <2>1, LeastOf
<1>3. PICK t : Bad(t) /\ Cardinality(t) = n
  BY <1>2
<1>4. CASE t = {}
  <2>1. g[{}] = 0
    BY SumsEmpty, Zenon
  <2>2. h[{}] = 0
    BY SumsEmpty, Zenon
  <2> QED
    BY <1>3, <1>4, <2>1, <2>2
<1>5. CASE t # {}
  <2> DEFINE x == Pick(t)
             u == t \ {x}
  <2>0. t \subseteq S /\ t \subseteq T
    BY <1>3
  <2>1. x \in t /\ g[t] = f[x] + g[u]
    <3> HIDE DEF B, Bad
    <3> QED
      BY <1>5, <2>0, SumsAt
  <2>2. h[t] = k[x] + h[u]
    <3> HIDE DEF B, Bad
    <3> QED
      BY <1>5, <2>0, SumsAt
  <2>3. f[x] = k[x]
    BY <1>3, <2>1
  <2>4. IsFiniteSet(u) /\ Cardinality(u) \in Nat /\ Cardinality(u) < n
    BY <1>3, <2>1, OneLess
  <2> HIDE DEF x
  <2>5. u \subseteq s
    BY <1>3
  <2>6. g[u] = h[u]
    <3> SUFFICES ASSUME g[u] # h[u] PROVE FALSE
      OBVIOUS
    <3> HIDE DEF u
    <3>1. Cardinality(u) \in B
      BY <2>4, <2>5
    <3> QED
      BY <1>2, <2>4, <3>1
  <2> QED
    BY <1>3, <2>1, <2>2, <2>3, <2>6
<1> QED
  BY <1>4, <1>5

\* The recursion is well defined for a finite set.
LEMMA SumsExist ==
  ASSUME NEW f, NEW S, IsFiniteSet(S)
  PROVE  \E g : Sums(g, f, S)
<1> DEFINE Bad(t) == IsFiniteSet(t) /\ ~ \E g : Sums(g, f, t)
           B == {n \in Nat : \E t : Bad(t) /\ Cardinality(t) = n}
<1>1. SUFFICES ASSUME B # {} PROVE FALSE
  BY FS_CardinalityType
<1>2. PICK n \in B : \A m \in B : ~(m < n)
  <2>1. B \subseteq Nat
    OBVIOUS
  <2> HIDE DEF B
  <2> QED
    BY <1>1, <2>1, LeastOf
<1>3. PICK T : Bad(T) /\ Cardinality(T) = n
  BY <1>2
<1> DEFINE G(t) == CHOOSE g : Sums(g, f, t)
           g == [s \in SUBSET T |-> IF s = {} THEN 0
                                    ELSE f[Pick(s)] + G(s \ {Pick(s)})[s \ {Pick(s)}]]
<1>4. ASSUME NEW t, t \subseteq T, t # T
      PROVE  IsFiniteSet(t) /\ Sums(G(t), f, t)
  <2>1. IsFiniteSet(t) /\ Cardinality(t) \in Nat /\ Cardinality(t) < n
    <3>1. PICK x \in T : x \notin t
      BY <1>4
    <3>2. IsFiniteSet(T \ {x}) /\ Cardinality(T \ {x}) \in Nat /\ Cardinality(T \ {x}) < n
      BY <1>3, OneLess
    <3>3. t \subseteq T \ {x}
      BY <1>4, <3>1
    <3>4. IsFiniteSet(t) /\ Cardinality(t) <= Cardinality(T \ {x})
      BY <3>2, <3>3, FS_Subset
    <3>5. Cardinality(t) \in Nat
      BY <3>4, FS_CardinalityType
    <3>6. n \in Nat
      BY <1>2
    <3> QED
      BY <3>2, <3>4, <3>5, <3>6
  <2>2. \E q : Sums(q, f, t)
    <3> SUFFICES ASSUME ~ \E q : Sums(q, f, t) PROVE FALSE
      OBVIOUS
    <3>1. Cardinality(t) \in B
      BY <2>1
    <3> HIDE DEF B
    <3> QED
      BY <1>2, <2>1, <3>1
  <2> QED
    BY <2>1, <2>2, Zenon
<1>5. ASSUME NEW s, s \subseteq T, s # {}
      PROVE  g[s \ {Pick(s)}] = G(s \ {Pick(s)})[s \ {Pick(s)}]
  <2> DEFINE t == s \ {Pick(s)}
  <2>1. t \subseteq T /\ t # T
    BY <1>5, Zenon DEF Pick
  <2>2. IsFiniteSet(t) /\ Sums(G(t), f, t)
    BY <1>4, <2>1
  <2> HIDE DEF t, G
  <2>3. g[t] = IF t = {} THEN 0 ELSE f[Pick(t)] + G(t \ {Pick(t)})[t \ {Pick(t)}]
    BY <2>1
  <2> HIDE DEF g, B, Bad
  <2>4. ASSUME t = {} PROVE g[t] = G(t)[t]
    <3>1. G(t)[t] = 0
      BY <2>2, <2>4, SumsAt
    <3> QED
      BY <2>3, <2>4, <3>1
  <2>5. ASSUME t # {} PROVE g[t] = G(t)[t]
    <3> DEFINE u == t \ {Pick(t)}
    <3>1. G(t)[t] = f[Pick(t)] + G(t)[u] /\ Pick(t) \in t
      BY <2>2, <2>5, SumsAt
    <3>2. u \subseteq t /\ u \subseteq T /\ u # T
      BY <2>1, <3>1
    <3>3. IsFiniteSet(u) /\ Sums(G(u), f, u)
      BY <1>4, <3>2
    <3> HIDE DEF u
    <3>4. G(t)[u] = G(u)[u]
      BY <2>2, <3>2, <3>3, SumsUnique
    <3>5. g[t] = f[Pick(t)] + G(u)[u]
      BY <2>3, <2>5 DEF u
    <3> QED
      BY <3>1, <3>4, <3>5
  <2>6. g[t] = G(t)[t]
    BY <2>4, <2>5
  <2> QED
    BY <2>6 DEF t
<1>6. Sums(g, f, T)
  <2> DEFINE F(s) == IF s = {} THEN 0 ELSE f[Pick(s)] + g[s \ {Pick(s)}]
  <2>1. ASSUME NEW s \in SUBSET T PROVE g[s] = F(s)
    <3>1. g[s] = IF s = {} THEN 0 ELSE f[Pick(s)] + G(s \ {Pick(s)})[s \ {Pick(s)}]
      <4> HIDE DEF G, B, Bad
      <4> QED
        OBVIOUS
    <3> HIDE DEF g, G, B, Bad
    <3>2. CASE s = {}
      BY <3>1, <3>2
    <3>3. CASE s # {}
      <4>1. g[s \ {Pick(s)}] = G(s \ {Pick(s)})[s \ {Pick(s)}]
        BY <1>5, <3>3
      <4> QED
        BY <3>1, <3>3, <4>1
    <3> QED
      BY <3>2, <3>3
  <2>2. g = [s \in SUBSET T |-> g[s]]
    OBVIOUS
  <2> HIDE DEF g, F
  <2>3. g = [s \in SUBSET T |-> F(s)]
    BY <2>1, <2>2
  <2> QED
    BY <2>3 DEF Sums, F
<1> QED
  BY <1>3, <1>6

\* SumFunctionOnSet is that recursion.
LEMMA SumIs ==
  ASSUME NEW f, NEW S, IsFiniteSet(S)
  PROVE  \E g : Sums(g, f, S) /\ SumFunctionOnSet(f, S) = g[S]
<1> DEFINE g == CHOOSE q : Sums(q, f, S)
<1>1. Sums(g, f, S)
  BY SumsExist, Zenon
<1>2. SumFunctionOnSet(f, S) = g[S]
  BY DEF SumFunctionOnSet, FoldFunctionOnSet, MapThenFoldSet, Sums, Pick
<1> QED
  BY <1>1, <1>2

\* The sum over no element is 0, and one element at a time is taken out.
LEMMA SumAt ==
  ASSUME NEW f, NEW S, IsFiniteSet(S)
  PROVE  /\ S = {} => SumFunctionOnSet(f, S) = 0
         /\ S # {} => /\ Pick(S) \in S
                      /\ SumFunctionOnSet(f, S) = f[Pick(S)] + SumFunctionOnSet(f, S \ {Pick(S)})
<1>1. PICK g : Sums(g, f, S) /\ SumFunctionOnSet(f, S) = g[S]
  BY SumIs
<1>2. CASE S = {}
  BY <1>1, <1>2, SumsAt
<1>3. CASE S # {}
  <2> DEFINE u == S \ {Pick(S)}
  <2>1. Pick(S) \in S /\ g[S] = f[Pick(S)] + g[u]
    BY <1>1, <1>3, SumsAt
  <2>2. IsFiniteSet(u) /\ u \subseteq S
    BY FS_Subset
  <2> HIDE DEF u
  <2>3. PICK h : Sums(h, f, u) /\ SumFunctionOnSet(f, u) = h[u]
    BY <2>2, SumIs
  <2>4. g[u] = h[u]
    BY <1>1, <2>2, <2>3, SumsUnique
  <2> QED
    BY <1>1, <1>3, <2>1, <2>3, <2>4 DEF u
<1> QED
  BY <1>2, <1>3

\* Equal values have equal sums.
LEMMA SumSame ==
  ASSUME NEW f, NEW k, NEW S, IsFiniteSet(S), \A x \in S : f[x] = k[x]
  PROVE  SumFunctionOnSet(f, S) = SumFunctionOnSet(k, S)
<1>1. PICK g : Sums(g, f, S) /\ SumFunctionOnSet(f, S) = g[S]
  BY SumIs
<1>2. PICK h : Sums(h, k, S) /\ SumFunctionOnSet(k, S) = h[S]
  BY SumIs
<1>3. g[S] = h[S]
  BY <1>1, <1>2, SumsUnique
<1> QED
  BY <1>1, <1>2, <1>3

\* A sum of integers is one, whichever element is taken first.
LEMMA SumTake ==
  ASSUME NEW f, NEW S, IsFiniteSet(S), \A x \in S : f[x] \in Int
  PROVE  /\ SumFunctionOnSet(f, S) \in Int
         /\ \A x \in S : SumFunctionOnSet(f, S) = f[x] + SumFunctionOnSet(f, S \ {x})
<1> DEFINE Sum(t) == SumFunctionOnSet(f, t)
           Fine(t) == Sum(t) \in Int /\ \A x \in t : Sum(t) = f[x] + Sum(t \ {x})
           B == {n \in Nat : \E t : IsFiniteSet(t) /\ t \subseteq S /\ ~Fine(t) /\ Cardinality(t) = n}
<1>1. SUFFICES ASSUME B # {} PROVE FALSE
  <2>1. CASE ~Fine(S)
    <3>1. Cardinality(S) \in B
      <4> HIDE DEF Fine
      <4> QED
        BY <2>1, FS_CardinalityType
    <3> QED
      BY <3>1
  <2> QED
    BY <2>1
<1>2. PICK n \in B : \A m \in B : ~(m < n)
  <2>1. B \subseteq Nat
    OBVIOUS
  <2> HIDE DEF B
  <2> QED
    BY <1>1, <2>1, LeastOf
<1> HIDE DEF Fine
<1>3. PICK t : IsFiniteSet(t) /\ t \subseteq S /\ ~Fine(t) /\ Cardinality(t) = n
  BY <1>2
<1>4. ASSUME NEW x \in t PROVE Fine(t \ {x})
  <2>1. IsFiniteSet(t \ {x}) /\ Cardinality(t \ {x}) \in Nat /\ Cardinality(t \ {x}) < n
    BY <1>3, OneLess
  <2>2. t \ {x} \subseteq S
    BY <1>3
  <2> SUFFICES ASSUME ~Fine(t \ {x}) PROVE FALSE
    OBVIOUS
  <2>3. Cardinality(t \ {x}) \in B
    BY <2>1, <2>2
  <2> QED
    BY <1>2, <2>1, <2>3
<1>5. CASE t = {}
  <2>1. Sum(t) = 0
    BY <1>3, <1>5, SumAt
  <2> QED
    BY <1>3, <1>5, <2>1 DEF Fine
<1>6. CASE t # {}
  <2> DEFINE y == Pick(t)
  <2>1. y \in t /\ Sum(t) = f[y] + Sum(t \ {y})
    BY <1>3, <1>6, SumAt
  <2> HIDE DEF y, Sum
  <2>2. \A x \in t : f[x] \in Int
    BY <1>3
  <2>3. \A x \in t : Sum(t \ {x}) \in Int
    BY <1>4 DEF Fine
  <2>4. ASSUME NEW x \in t, x # y
        PROVE  Sum(t) = f[x] + Sum(t \ {x})
    <3> DEFINE u == (t \ {x}) \ {y}
    <3>1. u = (t \ {y}) \ {x}
      OBVIOUS
    <3>2. x \in t \ {y} /\ y \in t \ {x}
      BY <2>1, <2>4
    <3>3. Sum(t \ {x}) = f[y] + Sum(u)
      BY <1>4, <3>2 DEF Fine
    <3>4. Sum(t \ {y}) = f[x] + Sum(u)
      BY <1>4, <2>1, <3>1, <3>2 DEF Fine
    <3>5. Sum(u) \in Int
      <4>1. Fine(t \ {x})
        BY <1>4
      <4> QED
        <5>1. IsFiniteSet(t \ {x})
          BY <1>3, FS_Subset
        <5>2. IsFiniteSet(u) /\ Cardinality(u) \in Nat /\ Cardinality(u) < n
          <6>1. Cardinality(t \ {x}) \in Nat /\ Cardinality(t \ {x}) < n /\ n \in Nat
            BY <1>2, <1>3, OneLess
          <6>2. IsFiniteSet(u) /\ Cardinality(u) \in Nat /\ Cardinality(u) < Cardinality(t \ {x})
            BY <3>2, <5>1, OneLess
          <6> QED
            BY <6>1, <6>2
        <5>3. u \subseteq S
          BY <1>3
        <5> HIDE DEF u
        <5>4. ~Fine(u) => Cardinality(u) \in B
          BY <5>2, <5>3
        <5>5. Fine(u)
          BY <1>2, <5>2, <5>4
        <5> QED
          BY <5>5 DEF Fine
    <3> HIDE DEF u
    <3> QED
      BY <2>1, <2>2, <3>3, <3>4, <3>5
  <2>5. Sum(t) \in Int
    BY <2>1, <2>2, <2>3
  <2> QED
    BY <1>3, <2>1, <2>4, <2>5 DEF Fine
<1> QED
  BY <1>5, <1>6

\* A sum of equal numbers.
LEMMA SumConst ==
  ASSUME NEW f, NEW S, IsFiniteSet(S), NEW v \in Int, \A x \in S : f[x] = v
  PROVE  SumFunctionOnSet(f, S) = Cardinality(S) * v
<1> DEFINE Fine(t) == SumFunctionOnSet(f, t) = Cardinality(t) * v
           B == {n \in Nat : \E t : IsFiniteSet(t) /\ t \subseteq S /\ ~Fine(t) /\ Cardinality(t) = n}
<1>1. SUFFICES ASSUME B # {} PROVE FALSE
  <2>1. CASE ~Fine(S)
    <3>1. Cardinality(S) \in B
      <4> HIDE DEF Fine
      <4> QED
        BY <2>1, FS_CardinalityType
    <3> QED
      BY <3>1
  <2> QED
    BY <2>1
<1>2. PICK n \in B : \A m \in B : ~(m < n)
  <2>1. B \subseteq Nat
    OBVIOUS
  <2> HIDE DEF B
  <2> QED
    BY <1>1, <2>1, LeastOf
<1> HIDE DEF Fine
<1>3. PICK t : IsFiniteSet(t) /\ t \subseteq S /\ ~Fine(t) /\ Cardinality(t) = n
  BY <1>2
<1>4. CASE t = {}
  <2>1. SumFunctionOnSet(f, t) = 0 /\ Cardinality(t) = 0
    BY <1>4, SumAt, FS_EmptySet
  <2> QED
    BY <1>3, <2>1 DEF Fine
<1>5. CASE t # {}
  <2> DEFINE u == t \ {Pick(t)}
  <2>1. Pick(t) \in t /\ SumFunctionOnSet(f, t) = f[Pick(t)] + SumFunctionOnSet(f, u)
    BY <1>3, <1>5, SumAt
  <2>2. IsFiniteSet(u) /\ Cardinality(u) \in Nat /\ Cardinality(u) = n - 1 /\ Cardinality(u) < n
    BY <1>3, <2>1, OneLess
  <2>3. u \subseteq S
    BY <1>3
  <2> HIDE DEF u
  <2>4. Fine(u)
    <3> SUFFICES ASSUME ~Fine(u) PROVE FALSE
      OBVIOUS
    <3>1. Cardinality(u) \in B
      BY <2>2, <2>3
    <3> QED
      BY <1>2, <2>2, <3>1
  <2>5. SumFunctionOnSet(f, t) = v + (n - 1) * v
    BY <1>3, <2>1, <2>2, <2>4 DEF Fine
  <2>6. n * v = v + (n - 1) * v
    <3>1. n \in Nat
      BY <1>2
    <3> HIDE DEF B
    <3> QED
      BY <3>1
  <2> QED
    BY <1>3, <2>5, <2>6 DEF Fine
<1> QED
  BY <1>4, <1>5


-----------------------------------------------------------------------------
(* Subsidy: the places of an algorithm *)

\* How many of the places are newer tells them apart, and counts them.
LEMMA AgeIs ==
  ASSUME NEW S, S \subseteq Nat, IsFiniteSet(S)
  PROVE  /\ Cardinality(S) \in Nat
         /\ \A i \in S : Age(S, i) \in 0..(Cardinality(S) - 1)
         /\ \A i, j \in S : Age(S, i) = Age(S, j) => i = j
         /\ \A n \in 0..(Cardinality(S) - 1) : \E i \in S : Age(S, i) = n
         /\ \A i, j \in S : i > j => Age(S, i) < Age(S, j)
<1> DEFINE c == Cardinality(S)
           D(i) == {j \in S : j > i}
           f == [i \in S |-> Age(S, i)]
<1>1. c \in Nat
  BY FS_CardinalityType
<1>2. \A i : IsFiniteSet(D(i)) /\ Cardinality(D(i)) \in Nat /\ Age(S, i) = Cardinality(D(i))
  <2> TAKE i
  <2>1. D(i) \in SUBSET S
    OBVIOUS
  <2>2. Age(S, i) = Cardinality(D(i))
    BY Zenon DEF Age
  <2> HIDE DEF D
  <2> QED
    BY <2>1, <2>2, FS_Subset, FS_CardinalityType
<1> HIDE DEF c
<1>3. ASSUME NEW i \in S PROVE Age(S, i) \in 0..(c - 1)
  <2>1. i \notin D(i) /\ D(i) \in SUBSET S
    OBVIOUS
  <2> HIDE DEF D
  <2>2. Cardinality(D(i)) <= c /\ (c = Cardinality(D(i)) => S = D(i))
    BY <2>1, FS_Subset DEF c
  <2>3. Cardinality(D(i)) # c
    BY <2>1, <2>2
  <2> QED
    BY <1>1, <1>2, <2>2, <2>3
<1>4. ASSUME NEW i \in S, NEW j \in S, i > j PROVE Age(S, i) < Age(S, j)
  <2>1. D(i) \cup {i} \in SUBSET D(j) /\ i \notin D(i)
    <3>1. i \in Nat /\ j \in Nat /\ \A k \in S : k \in Nat
      OBVIOUS
    <3>2. \A k \in S : k > i => k > j
      BY <1>4, <3>1
    <3>3. ~(i > i)
      BY <3>1
    <3> QED
      BY <1>4, <3>2, <3>3
  <2> HIDE DEF D
  <2>2. Cardinality(D(i) \cup {i}) = Cardinality(D(i)) + 1
    BY <1>2, <2>1, FS_AddElement
  <2>3. Cardinality(D(i) \cup {i}) <= Cardinality(D(j))
    BY <1>2, <2>1, FS_Subset
  <2> QED
    BY <1>2, <2>2, <2>3
<1>5. ASSUME NEW i \in S, NEW j \in S, Age(S, i) = Age(S, j) PROVE i = j
  <2>1. i < j \/ j < i \/ i = j
    OBVIOUS
  <2> DEFINE a == Age(S, i)
             d == Age(S, j)
  <2>3. a \in Nat /\ d \in Nat /\ a = d
    <3> HIDE DEF D
    <3> QED
      BY <1>2, <1>5
  <2>2. ~(Age(S, i) < Age(S, j)) /\ ~(Age(S, j) < Age(S, i))
    <3> HIDE DEF a, d
    <3>1. ~(a < d) /\ ~(d < a)
      BY <2>3
    <3> QED
      BY <3>1 DEF a, d
  <2> QED
    BY <1>4, <2>1, <2>2
<1>6. f \in Injection(S, 0..(c - 1))
  BY <1>3, <1>5 DEF Injection, IsInjective
<1>7. IsFiniteSet(0..(c - 1)) /\ Cardinality(0..(c - 1)) = c
  <2>1. IsFiniteSet(0..(c - 1)) /\ Cardinality(0..(c - 1)) = IF 0 > c - 1 THEN 0 ELSE (c - 1) - 0 + 1
    BY <1>1, FS_Interval
  <2> QED
    BY <1>1, <2>1
<1> HIDE DEF f
<1>8. f \in Surjection(S, 0..(c - 1))
  BY <1>6, <1>7, FS_Injection DEF c
<1>9. \A n \in 0..(c - 1) : \E i \in S : f[i] = n
  BY <1>8 DEF Surjection
<1>10. \A n \in 0..(c - 1) : \E i \in S : Age(S, i) = n
  BY <1>9 DEF f
<1> QED
  BY <1>1, <1>3, <1>4, <1>5, <1>10 DEF c

\* NewestFirst lists each place once.
LEMMA NewestFirstIs ==
  ASSUME NEW S, S \subseteq Nat, IsFiniteSet(S)
  PROVE  /\ NewestFirst(S) \in Seq(S) /\ Len(NewestFirst(S)) = Cardinality(S)
         /\ \A n \in 1..Cardinality(S) : /\ NewestFirst(S)[n] \in S
                                         /\ Age(S, NewestFirst(S)[n]) = n - 1
         /\ \A i \in S : /\ Age(S, i) + 1 \in 1..Cardinality(S)
                         /\ NewestFirst(S)[Age(S, i) + 1] = i
<1> DEFINE c == Cardinality(S)
           e(n) == CHOOSE i \in S : Age(S, i) = n - 1
           v == NewestFirst(S)
<1>1. c \in Nat
  BY AgeIs
<1>2. ASSUME NEW n \in 1..c PROVE e(n) \in S /\ Age(S, e(n)) = n - 1
  <2>1. n - 1 \in 0..(c - 1)
    BY <1>1
  <2>2. \E i \in S : Age(S, i) = n - 1
    BY <2>1, AgeIs
  <2> QED
    BY <2>2
<1>3. v = [n \in 1..c |-> e(n)]
  BY Zenon DEF NewestFirst
<1> HIDE DEF c, e, v
<1>4. v \in [1..c -> S] /\ \A n \in 1..c : v[n] = e(n)
  BY <1>2, <1>3
<1>5. v \in Seq(S) /\ Len(v) = c
  BY <1>1, <1>4
<1>6. ASSUME NEW i \in S PROVE Age(S, i) + 1 \in 1..c /\ v[Age(S, i) + 1] = i
  <2>1. Age(S, i) \in 0..(c - 1)
    BY AgeIs DEF c
  <2>2. Age(S, i) + 1 \in 1..c /\ (Age(S, i) + 1) - 1 = Age(S, i)
    BY <1>1, <2>1
  <2> DEFINE n == Age(S, i) + 1
  <2>3. v[n] \in S /\ Age(S, v[n]) = Age(S, i)
    BY <1>2, <1>4, <2>2
  <2> HIDE DEF n
  <2>4. v[n] = i
    BY <2>3, AgeIs
  <2> QED
    BY <2>2, <2>4 DEF n
<1>7. \A n \in 1..c : v[n] \in S /\ Age(S, v[n]) = n - 1
  BY <1>2, <1>4
<1> QED
  BY <1>5, <1>6, <1>7 DEF c, v


\* The places of an algorithm are finitely many, and Before lists them.
LEMMA BeforeIs ==
  ASSUME NEW c, NEW a, NEW i \in Nat
  PROVE  LET S == Places(c, a, i)
             q == Before(c, a, i)
         IN /\ S \subseteq Nat /\ IsFiniteSet(S)
            /\ q \in Seq(S) /\ Len(q) = Cardinality(S)
            /\ \A n \in 1..Len(q) : q[n] \in S /\ Age(S, q[n]) = n - 1
            /\ \A j \in S : Age(S, j) + 1 \in 1..Len(q) /\ q[Age(S, j) + 1] = j
<1> DEFINE S == Places(c, a, i)
<1>1. S \subseteq 2..(i - 1)
  BY DEF Places
<1>2. IsFiniteSet(2..(i - 1)) /\ 2..(i - 1) \subseteq Nat
  <2>1. IsFiniteSet(2..(i - 1))
    BY FS_Interval
  <2> QED
    BY <2>1
<1> HIDE DEF S
<1>3. S \subseteq Nat /\ IsFiniteSet(S)
  BY <1>1, <1>2, FS_Subset
<1>4. /\ NewestFirst(S) \in Seq(S) /\ Len(NewestFirst(S)) = Cardinality(S)
      /\ \A n \in 1..Cardinality(S) : /\ NewestFirst(S)[n] \in S
                                      /\ Age(S, NewestFirst(S)[n]) = n - 1
      /\ \A j \in S : /\ Age(S, j) + 1 \in 1..Cardinality(S)
                      /\ NewestFirst(S)[Age(S, j) + 1] = j
  BY <1>3, NewestFirstIs
<1> QED
  BY <1>3, <1>4 DEF Before, S

\* The first one is the newest.
LEMMA NewestIs ==
  ASSUME NEW c, NEW a, NEW i \in Nat, Before(c, a, i) # <<>>
  PROVE  LET j == Before(c, a, i)[1]
         IN j \in Places(c, a, i) /\ \A k \in Places(c, a, i) : k <= j
<1> DEFINE S == Places(c, a, i)
           q == Before(c, a, i)
<1>1. /\ S \subseteq Nat /\ IsFiniteSet(S) /\ q \in Seq(S)
      /\ \A n \in 1..Len(q) : q[n] \in S /\ Age(S, q[n]) = n - 1
  BY BeforeIs
<1> HIDE DEF S, q
<1>2. 1 \in 1..Len(q)
  BY <1>1 DEF q
<1>3. q[1] \in S /\ Age(S, q[1]) = 0
  BY <1>1, <1>2
<1>4. ASSUME NEW k \in S PROVE k <= q[1]
  <2>1. Age(S, k) \in Nat
    <3>1. Cardinality(S) \in Nat /\ Age(S, k) \in 0..(Cardinality(S) - 1)
      BY <1>1, AgeIs
    <3> QED
      BY <3>1
  <2>2. k > q[1] => Age(S, k) < Age(S, q[1])
    BY <1>1, <1>3, AgeIs
  <2>3. ~(k > q[1])
    BY <1>3, <2>1, <2>2
  <2>4. k \in Nat /\ q[1] \in Nat
    BY <1>1, <1>3
  <2> QED
    BY <2>3, <2>4
<1> QED
  BY <1>3, <1>4 DEF S, q

\* No block of the algorithm, no places.
LEMMA NoneBefore ==
  ASSUME NEW c, NEW a, NEW i \in Nat
  PROVE  Before(c, a, i) = <<>> <=> Places(c, a, i) = {}
<1> DEFINE S == Places(c, a, i)
           q == Before(c, a, i)
<1>1. /\ IsFiniteSet(S) /\ q \in Seq(S) /\ Len(q) = Cardinality(S)
  BY BeforeIs
<1> HIDE DEF S, q
<1>2. Cardinality(S) = 0 <=> S = {}
  BY <1>1, FS_EmptySet
<1>3. Len(q) = 0 <=> q = <<>>
  BY <1>1
<1> QED
  BY <1>1, <1>2, <1>3 DEF S, q

\* Two chains that have the same blocks of the algorithm have them at the same places.
LEMMA SamePlaces ==
  ASSUME NEW c, NEW d, NEW a, NEW i \in Nat, \A k \in 1..(i - 1) : c[k].algo = d[k].algo
  PROVE  Places(c, a, i) = Places(d, a, i) /\ Before(c, a, i) = Before(d, a, i)
<1>1. Places(c, a, i) = Places(d, a, i)
  BY DEF Places
<1> QED
  BY <1>1 DEF Before


-----------------------------------------------------------------------------
(* Subsidy: the update flag *)

\* The blocks of the algorithm of place i after i, up to place j.
Between(c, i, j) == {k \in (i + 1)..j : c[k].algo = c[i].algo}

\* Two flagged blocks of an algorithm are nSSF blocks of it apart.
KeysApart(c) ==
  \A i, j \in 2..Len(c) : (i < j /\ c[i].algo = c[j].algo /\ c[i].key /\ c[j].key)
                             => Cardinality(Between(c, i, j)) >= nSSF

\* The difference of two ages is the number of blocks between.
LEMMA AgeBetween ==
  ASSUME NEW c, NEW a, NEW L \in Nat, NEW i \in Places(c, a, L + 1), NEW j \in Places(c, a, L + 1), i <= j
  PROVE  LET S == Places(c, a, L + 1)
         IN Age(S, i) = Age(S, j) + Cardinality(Between(c, i, j))
<1> DEFINE S == Places(c, a, L + 1)
           A == {k \in S : k > i}
           B == {k \in S : k > j}
           D == Between(c, i, j)
<1>1. S \subseteq Nat /\ IsFiniteSet(S)
  <2>1. L + 1 \in Nat
    OBVIOUS
  <2> QED
    BY <2>1, BeforeIs
<1>2. D = {k \in S : k > i /\ k <= j}
  <2>1. i \in 2..L /\ j \in 2..L /\ c[i].algo = a
    BY DEF Places
  <2>2. \A k : k \in S <=> k \in 2..L /\ c[k].algo = a
    BY DEF Places
  <2> HIDE DEF S
  <2>3. \A k : k \in (i + 1)..j <=> k \in 2..L /\ k > i /\ k <= j
    BY <2>1
  <2> QED
    BY <2>1, <2>2, <2>3 DEF Between
<1>3. i \in S /\ j \in S
  OBVIOUS
<1> HIDE DEF S, D
<1>4. A = B \cup D /\ B \cap D = {} /\ B \in SUBSET S /\ D \in SUBSET S
  <2>1. \A k \in S : k \in Nat
    BY <1>1
  <2> QED
    BY <1>2, <1>3, <2>1
<1>5. Age(S, i) = Cardinality(A) /\ Age(S, j) = Cardinality(B)
  BY Zenon DEF Age
<1> HIDE DEF A, B
<1>6. IsFiniteSet(B) /\ IsFiniteSet(D)
  BY <1>1, <1>4, FS_Subset
<1>7. Cardinality(B \cap D) = 0 /\ Cardinality(B) \in Nat /\ Cardinality(D) \in Nat
  BY <1>4, <1>6, FS_EmptySet, FS_CardinalityType
<1>8. Cardinality(B \cup D) = Cardinality(B) + Cardinality(D) - Cardinality(B \cap D)
  BY <1>6, FS_Union
<1> QED
  BY <1>4, <1>5, <1>7, <1>8 DEF S, D

\* A flag at a place of Before is one of an age.
LEMMA FlagAtIs ==
  ASSUME NEW c, NEW a, NEW i \in Nat, NEW n \in Nat \ {0}
  PROVE  LET S == Places(c, a, i)
             q == Before(c, a, i)
         IN (n <= Len(q) /\ c[q[n]].key) <=> \E j \in S : c[j].key /\ Age(S, j) = n - 1
<1> DEFINE S == Places(c, a, i)
           q == Before(c, a, i)
<1>1. /\ q \in Seq(S)
      /\ \A m \in 1..Len(q) : q[m] \in S /\ Age(S, q[m]) = m - 1
      /\ \A j \in S : Age(S, j) + 1 \in 1..Len(q) /\ q[Age(S, j) + 1] = j
  BY BeforeIs
<1> HIDE DEF S, q
<1>2. ASSUME n <= Len(q), c[q[n]].key
      PROVE  \E j \in S : c[j].key /\ Age(S, j) = n - 1
  <2>1. n \in 1..Len(q)
    BY <1>1, <1>2
  <2> QED
    BY <1>1, <1>2, <2>1
<1>3. ASSUME NEW j \in S, c[j].key, Age(S, j) = n - 1
      PROVE  n <= Len(q) /\ c[q[n]].key
  <2>1. Age(S, j) + 1 = n
    BY <1>3
  <2>2. n \in 1..Len(q) /\ q[n] = j
    BY <1>1, <2>1
  <2> QED
    BY <1>1, <1>3, <2>2
<1> QED
  BY <1>2, <1>3 DEF S, q

\* What ConnectBlock asks of the flag of the next block.
LEMMA FlagInTimeIs ==
  ASSUME NEW c, NEW a, NEW key, NEW L \in Nat, Len(c) = L
  PROVE  LET S == Places(c, a, L + 1)
         IN FlagInTime(c, a, key) <=> IF key THEN \A j \in S : c[j].key => Age(S, j) >= nSSF - 1
                                      ELSE \A j \in S : c[j].key => Age(S, j) # nSSF - 1
<1> DEFINE S == Places(c, a, L + 1)
           q == Before(c, a, L + 1)
           FlagAt(n) == n <= Len(q) /\ c[q[n]].key
<1>1. nSSF \in Nat \ {0}
  BY EmissionAssumption
<1>2. \A n \in Nat \ {0} : FlagAt(n) <=> \E j \in S : c[j].key /\ Age(S, j) = n - 1
  <2> TAKE n \in Nat \ {0}
  <2>1. L + 1 \in Nat
    OBVIOUS
  <2> QED
    BY <2>1, FlagAtIs
<1>3. \A j \in S : Age(S, j) \in Nat
  <2>1. L + 1 \in Nat
    OBVIOUS
  <2>2. S \subseteq Nat /\ IsFiniteSet(S)
    BY <2>1, BeforeIs
  <2> HIDE DEF S
  <2> TAKE j \in S
  <2>3. Cardinality(S) \in Nat /\ Age(S, j) \in 0..(Cardinality(S) - 1)
    BY <2>2, AgeIs
  <2> QED
    BY <2>3
<1>4. FlagInTime(c, a, key) <=> IF key THEN \A n \in 1..(nSSF - 1) : ~FlagAt(n) ELSE ~FlagAt(nSSF)
  BY DEF FlagInTime
<1> HIDE DEF S, FlagAt
<1>5. (\A n \in 1..(nSSF - 1) : ~FlagAt(n)) <=> \A j \in S : c[j].key => Age(S, j) >= nSSF - 1
  <2>1. ASSUME \A n \in 1..(nSSF - 1) : ~FlagAt(n), NEW j \in S, c[j].key
        PROVE  Age(S, j) >= nSSF - 1
    <3> DEFINE n == Age(S, j) + 1
    <3>1. n \in Nat \ {0} /\ n - 1 = Age(S, j)
      BY <1>3
    <3> HIDE DEF n
    <3>2. FlagAt(n)
      BY <1>2, <2>1, <3>1
    <3>3. n \notin 1..(nSSF - 1)
      BY <2>1, <3>2
    <3> QED
      BY <1>1, <1>3, <3>1, <3>3
  <2>2. ASSUME \A j \in S : c[j].key => Age(S, j) >= nSSF - 1, NEW n \in 1..(nSSF - 1), FlagAt(n)
        PROVE  FALSE
    <3>1. n \in Nat \ {0} /\ n < nSSF
      BY <1>1
    <3>2. PICK j \in S : c[j].key /\ Age(S, j) = n - 1
      BY <1>2, <2>2, <3>1
    <3> QED
      BY <1>1, <2>2, <3>1, <3>2
  <2> QED
    BY <2>1, <2>2
<1>6. ~FlagAt(nSSF) <=> \A j \in S : c[j].key => Age(S, j) # nSSF - 1
  BY <1>1, <1>2
<1> QED
  BY <1>4, <1>5, <1>6 DEF S

\* Two flags closer than nSSF are one.
LEMMA KeysFar ==
  ASSUME NEW c, KeysApart(c), NEW a, NEW L \in Nat, Len(c) = L,
         NEW i \in Places(c, a, L + 1), NEW j \in Places(c, a, L + 1), c[i].key, c[j].key
  PROVE  LET S == Places(c, a, L + 1)
         IN Age(S, i) < Age(S, j) => Age(S, j) >= Age(S, i) + nSSF
<1> DEFINE S == Places(c, a, L + 1)
<1>1. L + 1 \in Nat /\ nSSF \in Nat
  BY EmissionAssumption
<1>2. S \subseteq Nat /\ IsFiniteSet(S)
  BY <1>1, BeforeIs
<1>3. i \in 2..L /\ j \in 2..L /\ c[i].algo = a /\ c[j].algo = a
  BY DEF Places
<1>4. i \in S /\ j \in S
  OBVIOUS
<1>5. Age(S, i) \in Nat /\ Age(S, j) \in Nat
  <2> HIDE DEF S
  <2>1. /\ Cardinality(S) \in Nat
        /\ Age(S, i) \in 0..(Cardinality(S) - 1) /\ Age(S, j) \in 0..(Cardinality(S) - 1)
    BY <1>2, <1>4, AgeIs
  <2> QED
    BY <2>1
<1>6. CASE i <= j
  <2>1. i < j => Age(S, j) < Age(S, i)
    <3> HIDE DEF S
    <3>1. j > i => Age(S, j) < Age(S, i)
      BY <1>2, <1>4, AgeIs
    <3> QED
      BY <1>3, <3>1
  <2>2. i = j \/ i < j
    BY <1>3, <1>6
  <2> HIDE DEF S
  <2> QED
    BY <1>5, <2>1, <2>2 DEF S
<1>7. CASE j < i
  <2>1. Age(S, j) = Age(S, i) + Cardinality(Between(c, j, i))
    BY <1>3, <1>7, AgeBetween
  <2>2. Cardinality(Between(c, j, i)) >= nSSF
    BY <1>3, <1>7 DEF KeysApart
  <2>3. Cardinality(Between(c, j, i)) \in Nat
    <3>1. IsFiniteSet((j + 1)..i) /\ Between(c, j, i) \subseteq (j + 1)..i
      BY <1>3, FS_Interval DEF Between
    <3> QED
      BY <3>1, FS_Subset, FS_CardinalityType
  <2> HIDE DEF S
  <2> QED
    BY <1>1, <1>5, <2>1, <2>2, <2>3 DEF S
<1> QED
  BY <1>3, <1>6, <1>7

\* So what CreateNewBlock chooses is in time.
LEMMA MinerIs ==
  ASSUME NEW c, KeysApart(c), NEW a, NEW L \in Nat, Len(c) = L
  PROVE  FlagInTime(c, a, MinerFlag(c, a))
<1> DEFINE S == Places(c, a, L + 1)
           q == Before(c, a, L + 1)
           keys == {n \in 1..Min({nSSF, Len(q)}) : c[q[n]].key}
           m == Min(keys)
<1>1. L + 1 \in Nat /\ nSSF \in Nat \ {0}
  BY EmissionAssumption
<1>2. /\ S \subseteq Nat /\ IsFiniteSet(S) /\ q \in Seq(S)
      /\ \A n \in 1..Len(q) : q[n] \in S /\ Age(S, q[n]) = n - 1
      /\ \A j \in S : Age(S, j) + 1 \in 1..Len(q) /\ q[Age(S, j) + 1] = j
  <2> HIDE DEF keys, m
  <2> QED
    BY <1>1, BeforeIs
<1>3. MinerFlag(c, a) <=> keys = {} \/ m = nSSF
  BY DEF MinerFlag
<1>4. \A n : n \in keys <=> n \in 1..Len(q) /\ n <= nSSF /\ c[q[n]].key
  <2>1. Len(q) \in Nat
    BY <1>2
  <2> HIDE DEF q
  <2>2. Min({nSSF, Len(q)}) = IF nSSF <= Len(q) THEN nSSF ELSE Len(q)
    BY <1>1, <2>1 DEF Min
  <2> QED
    BY <1>1, <2>1, <2>2
<1>5. keys # {} => m \in keys /\ \A n \in keys : m <= n
  <2>1. keys \subseteq Nat
    <3>1. Len(q) \in Nat
      BY <1>2
    <3> HIDE DEF keys, q
    <3> QED
      BY <1>4, <3>1
  <2> HIDE DEF keys
  <2>2. keys # {} => \E x \in keys : \A y \in keys : x <= y
    <3>1. keys # {} => \E x \in keys : \A y \in keys : ~(y < x)
      BY <2>1, LeastOf
    <3> QED
      BY <2>1, <3>1
  <2> QED
    BY <2>2 DEF Min
<1> HIDE DEF keys, m
<1>6. \A j \in S : Age(S, j) \in Nat /\ Age(S, j) + 1 \in Nat /\ (Age(S, j) + 1) - 1 = Age(S, j)
  <2> TAKE j \in S
  <2> HIDE DEF S, q
  <2>1. Cardinality(S) \in Nat /\ Age(S, j) \in 0..(Cardinality(S) - 1)
    BY <1>2, AgeIs
  <2> QED
    BY <2>1
<1>7. \A j \in S : c[j].key /\ Age(S, j) < nSSF => Age(S, j) + 1 \in keys
  <2> HIDE DEF S, q
  <2> TAKE j \in S
  <2>1. Age(S, j) + 1 \in 1..Len(q) /\ q[Age(S, j) + 1] = j
    BY <1>2
  <2>2. Age(S, j) < nSSF => Age(S, j) + 1 <= nSSF
    BY <1>1, <1>6
  <2> QED
    BY <1>4, <2>1, <2>2
<1>8. CASE keys = {}
  <2>1. MinerFlag(c, a)
    BY <1>3, <1>8
  <2>2. \A j \in S : c[j].key => Age(S, j) >= nSSF - 1
    <3> TAKE j \in S
    <3>1. c[j].key => ~(Age(S, j) < nSSF)
      BY <1>7, <1>8
    <3> HIDE DEF S
    <3> QED
      BY <1>1, <1>6, <3>1
  <2> QED
    BY <2>1, <2>2, FlagInTimeIs
<1>9. CASE keys # {} /\ m = nSSF
  <2>1. MinerFlag(c, a)
    BY <1>3, <1>9
  <2>2. \A j \in S : c[j].key => Age(S, j) >= nSSF - 1
    <3> TAKE j \in S
    <3>1. c[j].key /\ Age(S, j) < nSSF => m <= Age(S, j) + 1
      BY <1>5, <1>7, <1>9
    <3> HIDE DEF S
    <3> QED
      BY <1>1, <1>6, <1>9, <3>1
  <2> QED
    BY <2>1, <2>2, FlagInTimeIs
<1>10. CASE keys # {} /\ m # nSSF
  <2>1. ~MinerFlag(c, a)
    BY <1>3, <1>10
  <2>2. m \in 1..Len(q) /\ m < nSSF /\ c[q[m]].key /\ q[m] \in S /\ Age(S, q[m]) = m - 1
    <3>1. m \in 1..Len(q) /\ m <= nSSF /\ c[q[m]].key
      BY <1>4, <1>5, <1>10
    <3>2. q[m] \in S /\ Age(S, q[m]) = m - 1
      BY <1>2, <3>1
    <3>3. Len(q) \in Nat
      BY <1>2
    <3> HIDE DEF S, q
    <3> QED
      BY <1>1, <1>10, <3>1, <3>2, <3>3
  <2>3. ASSUME NEW j \in S, c[j].key, Age(S, j) = nSSF - 1
        PROVE  FALSE
    <3>1. Age(S, q[m]) < Age(S, j) => Age(S, j) >= Age(S, q[m]) + nSSF
      BY <2>2, <2>3, KeysFar
    <3>2. Len(q) \in Nat
      BY <1>2
    <3> HIDE DEF S, q
    <3> QED
      BY <1>1, <2>2, <2>3, <3>1, <3>2
  <2> QED
    BY <2>1, <2>3, FlagInTimeIs
<1> QED
  BY <1>8, <1>9, <1>10


-----------------------------------------------------------------------------
(* Subsidy: the scaling factor depends on the blocks below *)

\* The first n blocks are the same.
SameTo(c, d, n) == \A k \in 1..n : c[k] = d[k]

\* The median time of a block is one of the blocks up to it.
LEMMA SameMedian ==
  ASSUME NEW c, NEW d, NEW n \in Nat, SameTo(c, d, n), NEW i \in 1..n
  PROVE  GetMedianTimePast(c, i) = GetMedianTimePast(d, i)
<1> DEFINE m == Min({nMedianTimeSpan, i})
           T(x) == [k \in 1..m |-> x[i + 1 - k].time]
<1>1. m \in Nat /\ m <= i
  <2>1. nMedianTimeSpan \in Nat
    BY RetargetAssumption
  <2>2. m = IF nMedianTimeSpan <= i THEN nMedianTimeSpan ELSE i
    BY <2>1 DEF Min
  <2> QED
    BY <2>1, <2>2
<1> HIDE DEF m
<1>2. T(c) = T(d)
  <2>1. \A k \in 1..m : c[i + 1 - k].time = d[i + 1 - k].time
    <3> TAKE k \in 1..m
    <3>1. i + 1 - k \in 1..n
      BY <1>1
    <3> QED
      BY <3>1 DEF SameTo
  <2> QED
    BY <2>1
<1>3. \A x : GetMedianTimePast(x, i) = Sorted(T(x))[Len(T(x)) \div 2 + 1]
  BY Zenon DEF GetMedianTimePast, m
<1> HIDE DEF T
<1> QED
  BY <1>2, <1>3, Zenon

\* So is the time of a period, when it has begun.
LEMMA SamePeriod ==
  ASSUME NEW c, NEW d, NEW n \in Nat, SameTo(c, d, n),
         NEW q \in Seq(2..n), NEW k \in Nat, k * nSSF < Len(q)
  PROVE  PeriodTime(c, q, k) = PeriodTime(d, q, k)
<1> DEFINE m == k * nSSF
           M(x, i) == GetMedianTimePast(x, i)
<1>1. m \in Nat /\ nSSF \in Nat \ {0} /\ Len(q) \in Nat /\ m < Len(q)
  BY EmissionAssumption
<1>2. \A j \in 1..Len(q) : q[j] \in 1..n
  <2>1. \A j \in 1..Len(q) : q[j] \in 2..n
    OBVIOUS
  <2> QED
    BY <2>1
<1>3. \A i \in 1..n : M(c, i) = M(d, i)
  BY SameMedian
<1>4. \A j \in 1..Len(q) : M(c, q[j]) = M(d, q[j])
  BY <1>2, <1>3
<1>5. c[1] = d[1]
  <2>1. 1 \in 1..Len(q)
    BY <1>1
  <2>2. q[1] \in 1..n
    BY <1>2, <2>1
  <2>3. 1 \in 1..n
    BY <2>2
  <2> QED
    BY <2>3 DEF SameTo
<1> DEFINE P1 == Len(q) >= m + 1 + nSSF
           P2 == Len(q) = m + 1 + nSSF - 1
           P3 == Len(q) < m + 1 + nSSF - 1 /\ Len(q) > m + 1
<1>6. \A x : PeriodTime(x, q, k) =
        CASE P1 -> M(x, q[m + 1]) - M(x, q[m + 1 + nSSF])
          [] P2 -> M(x, q[m + 1]) - x[1].time
          [] P3 -> M(x, q[m + 1]) - M(x, q[Len(q)])
          [] OTHER -> M(x, q[m + 1])
  BY DEF PeriodTime
<1>10. ~(P1 /\ P2) /\ ~(P1 /\ P3) /\ ~(P2 /\ P3)
  BY <1>1
<1> HIDE DEF M, m, P2, P3
<1>7. M(c, q[m + 1]) = M(d, q[m + 1])
  <2>1. m + 1 \in 1..Len(q)
    BY <1>1
  <2> QED
    BY <1>4, <2>1
<1>8. M(c, q[Len(q)]) = M(d, q[Len(q)])
  <2>1. Len(q) \in 1..Len(q)
    BY <1>1
  <2> QED
    BY <1>4, <2>1
<1>9. P1 => M(c, q[m + 1 + nSSF]) = M(d, q[m + 1 + nSSF])
  <2>1. P1 => m + 1 + nSSF \in 1..Len(q)
    BY <1>1
  <2> QED
    BY <1>4, <2>1
<1> HIDE DEF P1
<1>11. CASE P1
  <2>1. \A x : PeriodTime(x, q, k) = M(x, q[m + 1]) - M(x, q[m + 1 + nSSF])
    BY <1>6, <1>10, <1>11
  <2> QED
    BY <1>7, <1>9, <1>11, <2>1
<1>12. CASE P2
  <2>1. \A x : PeriodTime(x, q, k) = M(x, q[m + 1]) - x[1].time
    BY <1>6, <1>10, <1>12
  <2> QED
    BY <1>5, <1>7, <2>1
<1>13. CASE P3
  <2>1. \A x : PeriodTime(x, q, k) = M(x, q[m + 1]) - M(x, q[Len(q)])
    BY <1>6, <1>10, <1>13
  <2> QED
    BY <1>7, <1>8, <2>1
<1>14. CASE ~P1 /\ ~P2 /\ ~P3
  <2>1. \A x : PeriodTime(x, q, k) = M(x, q[m + 1])
    BY <1>6, <1>14
  <2> QED
    BY <1>7, <2>1
<1> QED
  BY <1>11, <1>12, <1>13, <1>14

\* And the hash rate of the period.
LEMMA SameRate ==
  ASSUME NEW c, NEW d, NEW n \in Nat, SameTo(c, d, n),
         NEW q \in Seq(2..n), NEW k \in Nat, k * nSSF < Len(q)
  PROVE  Rate(c, q, k) = Rate(d, q, k)
<1> DEFINE l == k * nSSF + 1
           h == (k + 1) * nSSF
           W(x) == [j \in l..h |-> Work(x[q[j]])]
<1>1. l \in Nat /\ l >= 1 /\ h \in Nat /\ Len(q) \in Nat
  <2>1. nSSF \in Nat
    BY EmissionAssumption
  <2>2. k * nSSF \in Nat /\ (k + 1) * nSSF \in Nat
    BY <2>1
  <2> QED
    BY <2>2
<1>2. ~(Len(q) < h) => W(c) = W(d)
  <2> SUFFICES ASSUME ~(Len(q) < h) PROVE W(c) = W(d)
    OBVIOUS
  <2> HIDE DEF l, h
  <2>1. ASSUME NEW j \in l..h PROVE c[q[j]] = d[q[j]]
    <3>1. j \in 1..Len(q)
      BY <1>1
    <3>2. q[j] \in 2..n
      BY <3>1
    <3>3. q[j] \in 1..n
      BY <3>2
    <3> QED
      BY <3>3 DEF SameTo
  <2>2. \A j \in l..h : Work(c[q[j]]) = Work(d[q[j]])
    BY <2>1
  <2> QED
    BY <2>2
<1>3. PeriodTime(c, q, k) = PeriodTime(d, q, k)
  BY SamePeriod
<1>4. \A x : Rate(x, q, k) = ((IF Len(q) < h THEN 0 ELSE SumFunction(W(x))) * COIN) \div PeriodTime(x, q, k)
  BY Zenon DEF Rate
<1> HIDE DEF W, h
<1>5. (IF Len(q) < h THEN 0 ELSE SumFunction(W(c))) = (IF Len(q) < h THEN 0 ELSE SumFunction(W(d)))
  BY <1>2
<1> QED
  BY <1>3, <1>4, <1>5

\* get_ssf looks at the blocks below the place only.
LEMMA SameFactor ==
  ASSUME NEW c, NEW d, NEW a, NEW n \in Nat, SameTo(c, d, n), NEW i \in 1..(n + 1)
  PROVE  get_ssf(c, a, i) = get_ssf(d, a, i)
<1> DEFINE q == Before(c, a, i)
           ks == {k \in 0..(Periods - 1) : k * nSSF < Len(q)}
           Stops(x) == \E k \in ks : PeriodTime(x, q, k) <= 0
           Peak(x) == Max({0} \cup {Rate(x, q, k) : k \in ks})
<1>1. i \in Nat
  OBVIOUS
<1>2. q = Before(d, a, i)
  <2>1. \A k \in 1..(i - 1) : c[k].algo = d[k].algo
    <3> TAKE k \in 1..(i - 1)
    <3>1. k \in 1..n
      OBVIOUS
    <3> QED
      BY <3>1 DEF SameTo
  <2> QED
    BY <1>1, <2>1, SamePlaces
<1>3. q \in Seq(2..n)
  <2>1. q \in Seq(Places(c, a, i))
    BY <1>1, BeforeIs
  <2>2. Places(c, a, i) \subseteq 2..n
    BY DEF Places
  <2> HIDE DEF q
  <2> QED
    BY <2>1, <2>2
<1>4. \A k \in ks : k \in Nat /\ k * nSSF < Len(q)
  BY EmissionAssumption
<1>5. \A x : HistoryFactor(x, q) = IF ks = {} \/ Stops(x) THEN 0 ELSE FactorOf(Peak(x), Rate(x, q, 0))
  BY Zenon DEF HistoryFactor
<1> HIDE DEF q, ks
<1>6. \A k \in ks : PeriodTime(c, q, k) = PeriodTime(d, q, k)
  BY <1>3, <1>4, SamePeriod
<1>7. \A k \in ks : Rate(c, q, k) = Rate(d, q, k)
  BY <1>3, <1>4, SameRate
<1>8. Stops(c) <=> Stops(d)
  BY <1>6
<1>9. Peak(c) = Peak(d)
  <2>1. {Rate(c, q, k) : k \in ks} = {Rate(d, q, k) : k \in ks}
    BY <1>7
  <2> QED
    BY <2>1, Zenon
<1>10. ks # {} => 0 \in ks
  <2> SUFFICES ASSUME NEW k \in ks PROVE 0 \in ks
    OBVIOUS
  <2>1. k \in 0..(Periods - 1) /\ k * nSSF < Len(q) /\ k \in Nat
    BY <1>4 DEF ks
  <2>2. Periods \in Nat \ {0} /\ nSSF \in Nat /\ 0 * nSSF = 0 /\ k * nSSF >= 0 /\ Len(q) \in Nat
    BY <1>3, <2>1, EmissionAssumption
  <2>3. 0 \in 0..(Periods - 1) /\ 0 * nSSF < Len(q)
    <3>1. k * nSSF \in Nat
      BY <2>1, <2>2
    <3> QED
      BY <2>1, <2>2, <3>1
  <2> QED
    BY <2>3 DEF ks
<1>11. ks # {} => Rate(c, q, 0) = Rate(d, q, 0)
  BY <1>7, <1>10
<1> HIDE DEF Stops, Peak
<1>12. HistoryFactor(c, q) = HistoryFactor(d, q)
  BY <1>5, <1>8, <1>9, <1>11
<1> QED
  BY <1>2, <1>12 DEF get_ssf, q

-----------------------------------------------------------------------------
(* Subsidy: the factor of the next block *)

\* A finite set of numbers has a greatest one, and Max is it.
LEMMA MaxIs ==
  ASSUME NEW n \in Nat, NEW S, S \subseteq 0..n, S # {}
  PROVE  Max(S) \in S /\ \A x \in S : x <= Max(S)
<1> DEFINE B == {n - x : x \in S}
<1>1. B \subseteq Nat /\ B # {}
  <2>1. \A x \in S : x \in 0..n
    OBVIOUS
  <2>2. \A x \in S : n - x \in Nat
    BY <2>1
  <2> QED
    BY <2>2, Zenon
<1>2. PICK m \in B : \A x \in B : ~(x < m)
  <2> HIDE DEF B
  <2> QED
    BY <1>1, LeastOf
<1>3. PICK y \in S : m = n - y
  BY <1>2
<1>4. \A x \in S : y >= x
  <2> TAKE x \in S
  <2>1. n - x \in B
    OBVIOUS
  <2>2. ~(n - x < n - y)
    BY <1>2, <1>3, <2>1
  <2>3. x \in Nat /\ y \in Nat
    OBVIOUS
  <2> QED
    BY <2>2, <2>3
<1>5. \E x \in S : \A z \in S : x >= z
  BY <1>4
<1>6. Max(S) \in S /\ \A x \in S : Max(S) >= x
  BY <1>5, Zenon DEF Max
<1>7. \A x \in S : x \in Nat
  OBVIOUS
<1> QED
  BY <1>6, <1>7

\* The flagged blocks of the algorithm up to place j.
KeysTo(c, a, j) == {k \in 2..j : c[k].algo = a /\ c[k].key}

\* A block keeps no factor, or that of the period it is in.
FactorAt(c, j) ==
  LET keys == KeysTo(c, c[j].algo, j)
  IN c[j].ssf % UInt32 # 0 => keys # {} /\ c[j].ssf = get_ssf(c, c[j].algo, Max(keys))
FactorsKept(c) == \A j \in 2..Len(c) : FactorAt(c, j)

\* The factor of the period the next block is in, from the chain.
ChainFactor(c, a, key) ==
  LET keys == KeysTo(c, a, Len(c))
  IN IF key THEN get_ssf(c, a, Len(c) + 1) ELSE IF keys = {} THEN 0 ELSE get_ssf(c, a, Max(keys))

\* Whatever is in memory, ConnectBlock finds that factor.
LEMMA NextFactorIs ==
  ASSUME NEW c, NEW L \in Nat, Len(c) = L, FactorsKept(c), NEW a, NEW key \in BOOLEAN
  PROVE  NextFactor(c, a, key) = ChainFactor(c, a, key)
<1> DEFINE q == Before(c, a, L + 1)
           keys == KeysTo(c, a, L)
           cached == Inherited(c, a, key)
<1>1. keys = {j \in 2..((L + 1) - 1) : c[j].algo = a /\ c[j].key}
  <2>1. (L + 1) - 1 = L
    OBVIOUS
  <2> QED
    BY <2>1, Zenon DEF KeysTo
<1>2. FindFactor(c, a, key, L + 1) = ChainFactor(c, a, key)
  <2> HIDE DEF q, keys, cached
  <2>1. ChainFactor(c, a, key) = IF key THEN get_ssf(c, a, L + 1)
                                 ELSE IF keys = {} THEN 0 ELSE get_ssf(c, a, Max(keys))
    BY Zenon DEF ChainFactor, keys
  <2>2. FindFactor(c, a, key, L + 1) =
          CASE key -> get_ssf(c, a, L + 1)
            [] ~key /\ keys # {} -> get_ssf(c, a, Max(keys))
            [] OTHER -> 0
    BY <1>1 DEF FindFactor
  <2> QED
    BY <2>1, <2>2
<1>3. NextFactor(c, a, key) = IF cached % UInt32 = 0 THEN FindFactor(c, a, key, L + 1) ELSE cached
  BY Zenon DEF NextFactor, ScalingFactor
<1>4. cached = IF key THEN get_ssf(c, a, L + 1) ELSE IF q = <<>> THEN 0 ELSE c[q[1]].ssf
  BY Zenon DEF Inherited
<1>5. CASE key
  <2>1. ChainFactor(c, a, key) = get_ssf(c, a, L + 1)
    BY <1>5, Zenon DEF ChainFactor
  <2>2. cached = get_ssf(c, a, L + 1)
    BY <1>4, <1>5, Zenon
  <2> QED
    BY <1>2, <1>3, <2>1, <2>2, Zenon
<1>6. CASE ~key /\ q = <<>>
  <2>1. cached = 0
    BY <1>4, <1>6, Zenon
  <2>2. cached % UInt32 = 0
    BY <2>1, EmissionAssumption
  <2> QED
    BY <1>2, <1>3, <2>2, Zenon
<1>7. CASE ~key /\ q # <<>>
  <2> DEFINE j == q[1]
  <2>1. j \in Places(c, a, L + 1) /\ \A k \in Places(c, a, L + 1) : k <= j
    <3>1. L + 1 \in Nat
      OBVIOUS
    <3> QED
      BY <1>7, <3>1, NewestIs
  <2>2. cached = c[j].ssf
    BY <1>4, <1>7, Zenon
  <2> HIDE DEF j, q, cached
  <2>3. j \in 2..L /\ c[j].algo = a
    BY <2>1 DEF Places
  <2>4. KeysTo(c, a, j) = keys
    <3>1. \A k \in 2..L : c[k].algo = a => k <= j
      BY <2>1 DEF Places
    <3> QED
      BY <2>3, <3>1 DEF KeysTo
  <2>5. FactorAt(c, j)
    BY <2>3 DEF FactorsKept
  <2>6. c[j].ssf % UInt32 # 0 => keys # {} /\ c[j].ssf = get_ssf(c, a, Max(keys))
    <3> HIDE DEF keys
    <3> QED
      BY <2>3, <2>4, <2>5, Zenon DEF FactorAt
  <2>7. cached % UInt32 # 0 => cached = ChainFactor(c, a, key)
    <3>1. keys # {} => ChainFactor(c, a, key) = get_ssf(c, a, Max(keys))
      BY <1>7, Zenon DEF ChainFactor
    <3> HIDE DEF keys
    <3> QED
      BY <2>2, <2>6, <3>1, Zenon
  <2> QED
    BY <1>2, <1>3, <2>7, Zenon
<1> QED
  BY <1>5, <1>6, <1>7

\* The newest flagged block is the greatest place of one.
LEMMA NewestKeyIs ==
  ASSUME NEW c, NEW L \in Nat, Len(c) = L, NEW a
  PROVE  LET keys == KeysTo(c, a, L)
         IN /\ NewestKey(c, a) = {} <=> keys = {}
            /\ keys # {} => Max(NewestKey(c, a)) = Max(keys)
<1> DEFINE keys == KeysTo(c, a, L)
           N == NewestKey(c, a)
<1>1. \A j : j \in keys <=> j \in 2..L /\ c[j].algo = a /\ c[j].key
  BY DEF KeysTo
<1>2. \A j : j \in N <=> j \in keys /\ \A k \in (j + 1)..L : c[k].algo = a => ~c[k].key
  <2> HIDE DEF keys
  <2> QED
    BY <1>1 DEF NewestKey
<1> HIDE DEF keys, N
<1>3. \A j : j \in N <=> j \in keys /\ \A k \in keys : k <= j
  <2> TAKE j
  <2>1. ASSUME j \in N, NEW k \in keys PROVE k <= j
    <3>1. j \in 2..L /\ k \in 2..L /\ c[k].algo = a /\ c[k].key
      BY <1>1, <1>2, <2>1
    <3>2. k \notin (j + 1)..L
      BY <1>2, <2>1, <3>1
    <3> QED
      BY <3>1, <3>2
  <2>2. ASSUME j \in keys, \A k \in keys : k <= j, NEW k \in (j + 1)..L, c[k].algo = a, c[k].key
        PROVE  FALSE
    <3>1. j \in 2..L
      BY <1>1, <2>2
    <3>2. k \in 2..L /\ ~(k <= j)
      BY <3>1
    <3> QED
      BY <1>1, <2>2, <3>2
  <2> QED
    BY <1>2, <2>1, <2>2
<1>4. keys # {} => Max(keys) \in keys /\ \A k \in keys : k <= Max(keys)
  <2>1. keys \subseteq 0..L
    <3>1. \A k \in keys : k \in 2..L
      BY <1>1
    <3> QED
      BY <3>1
  <2> QED
    BY <2>1, MaxIs
<1>5. N = {} <=> keys = {}
  BY <1>3, <1>4
<1>6. keys # {} => Max(N) = Max(keys)
  <2> SUFFICES ASSUME keys # {} PROVE Max(N) = Max(keys)
    OBVIOUS
  <2>1. N # {} /\ N \subseteq 0..L
    <3>1. \A k \in N : k \in 2..L
      BY <1>1, <1>3
    <3> QED
      BY <1>5, <3>1
  <2>2. Max(N) \in N
    BY <2>1, MaxIs
  <2>3. Max(N) \in keys /\ Max(keys) <= Max(N) /\ Max(N) <= Max(keys)
    BY <1>3, <1>4, <2>2
  <2>4. Max(N) \in Nat /\ Max(keys) \in Nat
    <3>1. \A k \in keys : k \in 2..L
      BY <1>1
    <3>2. Max(N) \in 2..L /\ Max(keys) \in 2..L
      BY <1>4, <2>3, <3>1
    <3> QED
      BY <3>2
  <2> QED
    BY <2>3, <2>4
<1> QED
  BY <1>5, <1>6 DEF keys, N

-----------------------------------------------------------------------------
(* Subsidy: what a chain keeps when blocks are added or taken off *)

\* The first n blocks are the same but for the factor in memory.
Alike(c, d, n) ==
  \A k \in 1..n : /\ c[k].algo = d[k].algo /\ c[k].key = d[k].key
                  /\ c[k].paid = d[k].paid /\ c[k].supply = d[k].supply

\* The factor of a block depends on the blocks up to it.
LEMMA SameFactorAt ==
  ASSUME NEW c, NEW d, NEW n \in Nat, SameTo(c, d, n), NEW j \in 2..n, FactorAt(c, j)
  PROVE  FactorAt(d, j)
<1> DEFINE a == c[j].algo
           keys == KeysTo(c, a, j)
<1>1. c[j] = d[j]
  BY DEF SameTo
<1>2. keys = KeysTo(d, a, j)
  <2>1. \A k \in 2..j : c[k] = d[k]
    BY DEF SameTo
  <2> QED
    BY <2>1 DEF KeysTo
<1>3. keys # {} => get_ssf(c, a, Max(keys)) = get_ssf(d, a, Max(keys))
  <2>1. keys \subseteq 2..j
    BY DEF KeysTo
  <2> HIDE DEF keys, a
  <2> SUFFICES ASSUME keys # {} PROVE get_ssf(c, a, Max(keys)) = get_ssf(d, a, Max(keys))
    OBVIOUS
  <2>2. keys \subseteq 0..j
    BY <2>1
  <2>3. Max(keys) \in keys
    <3>1. j \in Nat
      OBVIOUS
    <3> QED
      BY <2>2, <3>1, MaxIs
  <2>4. Max(keys) \in 2..j
    BY <2>1, <2>3
  <2>5. Max(keys) \in 1..(n + 1)
    BY <2>4
  <2> QED
    BY <2>5, SameFactor
<1>4. c[j].ssf % UInt32 # 0 => keys # {} /\ c[j].ssf = get_ssf(c, a, Max(keys))
  BY Zenon DEF FactorAt
<1> HIDE DEF keys
<1>5. d[j].ssf % UInt32 # 0 => KeysTo(d, d[j].algo, j) # {}
                               /\ d[j].ssf = get_ssf(d, d[j].algo, Max(KeysTo(d, d[j].algo, j)))
  BY <1>1, <1>2, <1>3, <1>4
<1> QED
  BY <1>5, Zenon DEF FactorAt

\* The factor ConnectBlock gives a block is that of the period it is in.
LEMMA NextFactorAt ==
  ASSUME NEW c, NEW L \in Nat, Len(c) = L, L >= 1, FactorsKept(c), NEW a, NEW key \in BOOLEAN,
         NEW d, SameTo(c, d, L),
         d[L + 1].algo = a, d[L + 1].key = key, d[L + 1].ssf = NextFactor(c, a, key)
  PROVE  FactorAt(d, L + 1)
<1> DEFINE keys == KeysTo(c, a, L)
           new == KeysTo(d, a, L + 1)
           f == NextFactor(c, a, key)
<1>1. f = IF key THEN get_ssf(c, a, L + 1) ELSE IF keys = {} THEN 0 ELSE get_ssf(c, a, Max(keys))
  BY NextFactorIs, Zenon DEF ChainFactor
<1>2. new = IF key THEN keys \cup {L + 1} ELSE keys
  <2>1. \A k : k \in 2..(L + 1) <=> k \in 2..L \/ k = L + 1
    OBVIOUS
  <2>2. \A k \in 2..L : c[k] = d[k]
    BY DEF SameTo
  <2> QED
    BY <2>1, <2>2 DEF KeysTo
<1>3. keys \subseteq 2..L
  BY DEF KeysTo
<1>7. \A i \in 1..(L + 1) : get_ssf(c, a, i) = get_ssf(d, a, i)
  BY SameFactor
<1> HIDE DEF keys, new, f
<1>4. CASE key
  <2>1. new # {} /\ Max(new) = L + 1
    <3>1. new \subseteq 0..(L + 1) /\ L + 1 \in new
      BY <1>2, <1>3, <1>4
    <3>2. L + 1 \in Nat
      OBVIOUS
    <3>3. Max(new) \in new /\ L + 1 <= Max(new)
      BY <3>1, <3>2, MaxIs
    <3>4. Max(new) \in 0..(L + 1)
      BY <3>1, <3>3
    <3> QED
      BY <3>1, <3>3, <3>4
  <2>2. get_ssf(c, a, L + 1) = get_ssf(d, a, L + 1)
    <3>1. L + 1 \in 1..(L + 1)
      OBVIOUS
    <3> QED
      BY <1>7, <3>1
  <2> QED
    BY <1>1, <1>4, <2>1, <2>2 DEF FactorAt, f, new
<1>5. CASE ~key /\ keys = {}
  <2>1. f % UInt32 = 0
    BY <1>1, <1>5, EmissionAssumption
  <2> QED
    BY <2>1, Zenon DEF FactorAt, f
<1>6. CASE ~key /\ keys # {}
  <2>1. keys \subseteq 0..L
    BY <1>3
  <2>2. Max(keys) \in keys
    BY <1>6, <2>1, MaxIs
  <2>3. Max(keys) \in 2..L
    BY <1>3, <2>2
  <2>4. Max(keys) \in 1..(L + 1)
    BY <2>3
  <2>5. get_ssf(c, a, Max(keys)) = get_ssf(d, a, Max(keys))
    BY <1>7, <2>4
  <2> QED
    BY <1>1, <1>2, <1>6, <2>5 DEF FactorAt, f, new
<1> QED
  BY <1>4, <1>5, <1>6

\* The blocks between two depend on the algorithms only.
LEMMA SameBetween ==
  ASSUME NEW c, NEW d, NEW n \in Nat, Alike(c, d, n), NEW i \in 1..n, NEW j \in 1..n
  PROVE  Between(c, i, j) = Between(d, i, j)
<1>1. \A k \in (i + 1)..j : c[k].algo = d[k].algo
  <2> TAKE k \in (i + 1)..j
  <2>1. k \in 1..n
    OBVIOUS
  <2> QED
    BY <2>1 DEF Alike
<1>2. c[i].algo = d[i].algo
  BY DEF Alike
<1> QED
  BY <1>1, <1>2 DEF Between

\* Fewer blocks, or the same ones: the flags are as far apart.
LEMMA KeysStay ==
  ASSUME NEW c, NEW d, NEW n \in Nat, Len(c) \in Nat, n <= Len(c), Len(d) = n, Alike(c, d, n), KeysApart(c)
  PROVE  KeysApart(d)
<1> SUFFICES ASSUME NEW i \in 2..n, NEW j \in 2..n, i < j, d[i].algo = d[j].algo, d[i].key, d[j].key
             PROVE  Cardinality(Between(d, i, j)) >= nSSF
  BY DEF KeysApart
<1>1. i \in 1..n /\ j \in 1..n /\ i \in 2..Len(c) /\ j \in 2..Len(c)
  OBVIOUS
<1>2. Between(c, i, j) = Between(d, i, j)
  BY <1>1, SameBetween
<1>3. c[i].algo = c[j].algo /\ c[i].key /\ c[j].key
  BY <1>1 DEF Alike
<1> QED
  BY <1>1, <1>2, <1>3 DEF KeysApart

\* A block whose flag is in time is as far from the flags before.
LEMMA KeysNext ==
  ASSUME NEW c, NEW L \in Nat, Len(c) = L, KeysApart(c), NEW a, NEW key \in BOOLEAN, FlagInTime(c, a, key),
         NEW d, Len(d) = L + 1, Alike(c, d, L), d[L + 1].algo = a, d[L + 1].key = key
  PROVE  KeysApart(d)
<1> SUFFICES ASSUME NEW i \in 2..(L + 1), NEW j \in 2..(L + 1), i < j, d[i].algo = d[j].algo, d[i].key, d[j].key
             PROVE  Cardinality(Between(d, i, j)) >= nSSF
  BY DEF KeysApart
<1>1. i \in 1..L /\ i \in 2..L
  OBVIOUS
<1>2. c[i].algo = d[i].algo /\ c[i].key
  BY <1>1 DEF Alike
<1>3. CASE j \in 2..L
  <2>1. j \in 1..L
    BY <1>3
  <2>2. Between(c, i, j) = Between(d, i, j)
    BY <1>1, <2>1, SameBetween
  <2>3. c[i].algo = c[j].algo /\ c[j].key
    BY <1>2, <2>1 DEF Alike
  <2> QED
    BY <1>1, <1>2, <1>3, <2>2, <2>3 DEF KeysApart
<1>4. CASE j = L + 1
  <2> DEFINE S == Places(c, a, L + 1)
             A == {k \in S : k > i}
  <2>1. key /\ c[i].algo = a
    BY <1>2, <1>4
  <2>2. i \in S /\ Age(S, i) >= nSSF - 1
    <3>1. i \in S
      BY <1>1, <2>1 DEF Places
    <3> QED
      BY <1>2, <2>1, <3>1, FlagInTimeIs
  <2>3. Between(d, i, j) = A \cup {L + 1} /\ L + 1 \notin A
    <3>1. \A k : k \in S <=> k \in 2..L /\ c[k].algo = a
      BY DEF Places
    <3>2. \A k \in 2..L : c[k].algo = d[k].algo
      <4> TAKE k \in 2..L
      <4>1. k \in 1..L
        OBVIOUS
      <4> QED
        BY <4>1 DEF Alike
    <3> HIDE DEF S
    <3>3. \A k : k \in (i + 1)..j <=> k = L + 1 \/ (k \in 2..L /\ k > i)
      BY <1>1, <1>4
    <3>4. L + 1 \notin 2..L
      OBVIOUS
    <3>5. \A k : k \in A <=> k \in 2..L /\ k > i /\ c[k].algo = a
      BY <3>1
    <3>6. \A k : k \in Between(d, i, j) <=> k \in (i + 1)..j /\ d[k].algo = a
      BY <1>2, <2>1 DEF Between
    <3> HIDE DEF A
    <3> QED
      BY <3>2, <3>3, <3>4, <3>5, <3>6
  <2>4. IsFiniteSet(S)
    <3>1. L + 1 \in Nat
      OBVIOUS
    <3> QED
      BY <3>1, BeforeIs
  <2>5. Age(S, i) = Cardinality(A)
    BY Zenon DEF Age
  <2>6. IsFiniteSet(A)
    <3> HIDE DEF S
    <3>1. A \subseteq S
      OBVIOUS
    <3> QED
      BY <2>4, <3>1, FS_Subset
  <2> HIDE DEF S, A
  <2>7. Cardinality(A \cup {L + 1}) = Cardinality(A) + 1 /\ Cardinality(A) \in Nat
    BY <2>3, <2>6, FS_AddElement, FS_CardinalityType
  <2> QED
    BY <2>2, <2>3, <2>5, <2>7, EmissionAssumption
<1> QED
  BY <1>3, <1>4

-----------------------------------------------------------------------------
(* Subsidy: the money supply *)

\* There is an algorithm, and finitely many.
LEMMA AlgosAre ==
  /\ IsFiniteSet(Algo) /\ NUM_ALGOS \in Nat \ {0}
  /\ SupplyBefore \in Nat /\ SupplyBefore \div NUM_ALGOS \in Nat
  /\ SupplyBefore - NUM_ALGOS * (SupplyBefore \div NUM_ALGOS) \in 0..(NUM_ALGOS - 1)
<1>1. IsFiniteSet(Algo) /\ SupplyBefore \in Nat
  BY EmissionAssumption
<1>2. Algo # {}
  BY RetargetAssumption
<1>3. NUM_ALGOS \in Nat \ {0}
  BY <1>1, <1>2, FS_CardinalityType, FS_EmptySet DEF NUM_ALGOS
<1>4. SupplyBefore \div NUM_ALGOS \in Nat
  BY <1>1, <1>3
<1>5. SupplyBefore - NUM_ALGOS * (SupplyBefore \div NUM_ALGOS) \in 0..(NUM_ALGOS - 1)
  BY <1>1, <1>3
<1> QED
  BY <1>1, <1>3, <1>4, <1>5

\* Where the supply of the algorithm is read.
LEMMA SupplyOfIs ==
  ASSUME NEW c, NEW a, NEW i \in Nat
  PROVE  /\ Places(c, a, i) = {} => SupplyOf(c, a, i) = c[1].supply \div NUM_ALGOS
         /\ \A j \in Places(c, a, i) : (\A k \in Places(c, a, i) : k <= j) => SupplyOf(c, a, i) = c[j].supply
<1> DEFINE S == Places(c, a, i)
           q == Before(c, a, i)
<1>1. SupplyOf(c, a, i) = IF q = <<>> THEN c[1].supply \div NUM_ALGOS ELSE c[q[1]].supply
  BY Zenon DEF SupplyOf, get_mpow_ms_correction
<1>2. q = <<>> <=> S = {}
  BY NoneBefore
<1>3. q # <<>> => q[1] \in S /\ \A k \in S : k <= q[1]
  BY NewestIs
<1>4. S \subseteq Nat
  BY BeforeIs
<1> HIDE DEF S, q
<1>5. ASSUME NEW j \in S, \A k \in S : k <= j PROVE SupplyOf(c, a, i) = c[j].supply
  <2>1. q[1] \in S /\ q[1] <= j /\ j <= q[1] /\ q # <<>>
    BY <1>2, <1>3, <1>5
  <2>2. q[1] = j
    <3>1. j \in Nat /\ q[1] \in Nat
      BY <1>4, <1>5, <2>1
    <3> QED
      BY <2>1, <3>1
  <2> QED
    BY <1>1, <2>1, <2>2
<1> QED
  BY <1>1, <1>2, <1>5 DEF S

\* Places has a newest one.
LEMMA NewestPlace ==
  ASSUME NEW c, NEW a, NEW i \in Nat, Places(c, a, i) # {}
  PROVE  \E j \in Places(c, a, i) : \A k \in Places(c, a, i) : k <= j
<1>1. Before(c, a, i) # <<>>
  BY NoneBefore
<1> QED
  BY <1>1, NewestIs

\* The supply depends on the blocks below.
LEMMA SameSupply ==
  ASSUME NEW c, NEW d, NEW a, NEW n \in Nat \ {0}, Alike(c, d, n), NEW i \in 1..(n + 1)
  PROVE  SupplyOf(c, a, i) = SupplyOf(d, a, i)
<1> DEFINE S == Places(c, a, i)
<1>1. i \in Nat
  OBVIOUS
<1>2. \A k \in 1..(i - 1) : k \in 1..n
  OBVIOUS
<1>3. S = Places(d, a, i)
  <2>1. \A k \in 1..(i - 1) : c[k].algo = d[k].algo
    BY <1>2 DEF Alike
  <2> QED
    BY <1>1, <2>1, SamePlaces
<1>4. \A k \in S : c[k].supply = d[k].supply
  <2>1. \A k \in S : k \in 1..n
    BY <1>2 DEF Places
  <2> HIDE DEF S
  <2> QED
    BY <2>1 DEF Alike
<1>5. c[1].supply = d[1].supply
  <2>1. 1 \in 1..n
    OBVIOUS
  <2> QED
    BY <2>1 DEF Alike
<1>6. CASE S = {}
  <2>1. SupplyOf(c, a, i) = c[1].supply \div NUM_ALGOS
    BY <1>1, <1>6, SupplyOfIs
  <2>2. Places(d, a, i) = {}
    BY <1>3, <1>6
  <2> HIDE DEF S
  <2>3. SupplyOf(d, a, i) = d[1].supply \div NUM_ALGOS
    BY <1>1, <2>2, SupplyOfIs
  <2> QED
    BY <1>5, <2>1, <2>3
<1>7. CASE S # {}
  <2>1. PICK j \in S : \A k \in S : k <= j
    BY <1>1, <1>7, NewestPlace
  <2>2. SupplyOf(c, a, i) = c[j].supply
    BY <1>1, <2>1, SupplyOfIs
  <2>3. SupplyOf(d, a, i) = d[j].supply
    <3>1. \A k \in Places(d, a, i) : k <= j
      BY <1>3, <2>1
    <3>2. j \in Places(d, a, i)
      BY <1>3
    <3> HIDE DEF S
    <3> QED
      BY <1>1, <3>1, <3>2, SupplyOfIs
  <2> QED
    BY <1>4, <2>2, <2>3
<1> QED
  BY <1>6, <1>7

BlockOK(b) ==
  /\ b = [algo |-> b.algo, key |-> b.key, time |-> b.time, target |-> b.target,
          paid |-> b.paid, supply |-> b.supply, ssf |-> b.ssf]
  /\ b.algo \in Algo /\ b.paid \in Nat /\ b.supply \in Int

ChainOK(c) ==
  /\ \E S : c \in Seq(S)
  /\ Len(c) >= 1
  /\ \A i \in 1..Len(c) : BlockOK(c[i])
  /\ c[1].supply = SupplyBefore

\* It is a number.
LEMMA SupplyInt ==
  ASSUME NEW c, ChainOK(c), NEW a, NEW i \in 1..(Len(c) + 1)
  PROVE  SupplyOf(c, a, i) \in Int
<1>1. i \in Nat /\ Len(c) \in Nat /\ Len(c) >= 1
  BY DEF ChainOK
<1>2. CASE Places(c, a, i) = {}
  <2>1. SupplyOf(c, a, i) = SupplyBefore \div NUM_ALGOS
    BY <1>1, <1>2, SupplyOfIs DEF ChainOK
  <2> QED
    BY <2>1, AlgosAre
<1>3. CASE Places(c, a, i) # {}
  <2>1. PICK j \in Places(c, a, i) : \A k \in Places(c, a, i) : k <= j
    BY <1>1, <1>3, NewestPlace
  <2>2. SupplyOf(c, a, i) = c[j].supply
    BY <1>1, <2>1, SupplyOfIs
  <2>3. j \in 2..(i - 1)
    BY DEF Places
  <2>4. j \in 1..Len(c)
    BY <1>1, <2>3
  <2> QED
    BY <2>2, <2>4 DEF ChainOK, BlockOK
<1> QED
  BY <1>2, <1>3

\* What a block of the algorithm adds to the supply of it, and to no other.
LEMMA NextSupplyIs ==
  ASSUME NEW c, NEW d, NEW L \in Nat \ {0}, Alike(c, d, L), NEW a, d[L + 1].algo = a
  PROVE  /\ SupplyOf(d, a, L + 2) = d[L + 1].supply
         /\ \A e : e # a => SupplyOf(d, e, L + 2) = SupplyOf(c, e, L + 1)
<1>1. L + 2 \in Nat /\ L + 1 \in Nat /\ (L + 2) - 1 = L + 1 /\ (L + 1) - 1 = L
  OBVIOUS
<1>2. \A e, k : k \in Places(d, e, L + 2) <=> k \in 2..(L + 1) /\ d[k].algo = e
  BY <1>1 DEF Places
<1>3. SupplyOf(d, a, L + 2) = d[L + 1].supply
  <2>1. L + 1 \in Places(d, a, L + 2)
    BY <1>2
  <2>2. \A k \in Places(d, a, L + 2) : k <= L + 1
    BY <1>2
  <2> QED
    BY <1>1, <2>1, <2>2, SupplyOfIs
<1>4. ASSUME NEW e, e # a PROVE SupplyOf(d, e, L + 2) = SupplyOf(c, e, L + 1)
  <2> DEFINE S == Places(d, e, L + 2)
  <2>1. S = Places(c, e, L + 1)
    <3>1. \A k \in 2..L : c[k].algo = d[k].algo
      <4> TAKE k \in 2..L
      <4>1. k \in 1..L
        OBVIOUS
      <4> QED
        BY <4>1 DEF Alike
    <3>2. \A k : k \in Places(c, e, L + 1) <=> k \in 2..L /\ c[k].algo = e
      BY <1>1 DEF Places
    <3>3. \A k : k \in 2..(L + 1) <=> k \in 2..L \/ k = L + 1
      OBVIOUS
    <3> QED
      BY <1>2, <1>4, <3>1, <3>2, <3>3
  <2>2. \A k \in S : c[k].supply = d[k].supply
    <3>1. \A k \in S : k \in 1..L
      <4>1. \A k : k \in Places(c, e, L + 1) => k \in 2..L
        BY <1>1 DEF Places
      <4> HIDE DEF S
      <4> QED
        BY <2>1, <4>1
    <3> HIDE DEF S
    <3> QED
      BY <3>1 DEF Alike
  <2>3. c[1].supply = d[1].supply
    <3>1. 1 \in 1..L
      OBVIOUS
    <3> QED
      BY <3>1 DEF Alike
  <2>4. CASE S = {}
    <3>1. SupplyOf(d, e, L + 2) = d[1].supply \div NUM_ALGOS
      BY <1>1, <2>4, SupplyOfIs
    <3>2. Places(c, e, L + 1) = {}
      BY <2>1, <2>4
    <3> HIDE DEF S
    <3>3. SupplyOf(c, e, L + 1) = c[1].supply \div NUM_ALGOS
      BY <1>1, <3>2, SupplyOfIs
    <3> QED
      BY <2>3, <3>1, <3>3
  <2>5. CASE S # {}
    <3>1. PICK j \in S : \A k \in S : k <= j
      BY <1>1, <2>5, NewestPlace
    <3>2. SupplyOf(d, e, L + 2) = d[j].supply
      BY <1>1, <3>1, SupplyOfIs
    <3>3. j \in Places(c, e, L + 1) /\ \A k \in Places(c, e, L + 1) : k <= j
      BY <2>1, <3>1
    <3> HIDE DEF S
    <3>4. SupplyOf(c, e, L + 1) = c[j].supply
      BY <1>1, <3>3, SupplyOfIs
    <3> QED
      BY <2>2, <3>1, <3>2, <3>4
  <2> QED
    BY <2>4, <2>5
<1> QED
  BY <1>3, <1>4

\* What the first n blocks paid, and the supplies the algorithms have after them.
Paid(c, n) == SumFunctionOnSet([i \in 1..n |-> c[i].paid], 1..n)
Reported(c, n) == SumFunctionOnSet([a \in Algo |-> SupplyOf(c, a, n + 1)], Algo)

\* Nothing is lost but the remainder of the division at the fork.
ExactTo(c, n) ==
  SupplyBefore + Paid(c, n) - Reported(c, n) = SupplyBefore - NUM_ALGOS * (SupplyBefore \div NUM_ALGOS)

\* It depends on the blocks up to n.
LEMMA SameExact ==
  ASSUME NEW c, NEW d, NEW m \in Nat, Alike(c, d, m), NEW n \in 1..m
  PROVE  ExactTo(c, n) <=> ExactTo(d, n)
<1>0. n \in Nat \ {0}
  OBVIOUS
<1>1. Alike(c, d, n)
  <2>1. \A k \in 1..n : k \in 1..m
    OBVIOUS
  <2> QED
    BY <2>1 DEF Alike
<1>2. Paid(c, n) = Paid(d, n)
  <2>1. \A i \in 1..n : c[i].paid = d[i].paid
    BY <1>1 DEF Alike
  <2>2. [i \in 1..n |-> c[i].paid] = [i \in 1..n |-> d[i].paid]
    BY <2>1
  <2> QED
    BY <2>2, Zenon DEF Paid
<1>3. Reported(c, n) = Reported(d, n)
  <2>1. n + 1 \in 1..(n + 1)
    BY <1>0
  <2>2. \A a \in Algo : SupplyOf(c, a, n + 1) = SupplyOf(d, a, n + 1)
    BY <1>0, <1>1, <2>1, SameSupply
  <2>3. [a \in Algo |-> SupplyOf(c, a, n + 1)] = [a \in Algo |-> SupplyOf(d, a, n + 1)]
    BY <2>2
  <2> QED
    BY <2>3, Zenon DEF Reported
<1> QED
  BY <1>2, <1>3 DEF ExactTo

\* At the fork.
LEMMA ExactFirst ==
  ASSUME NEW c, c[1].paid = 0, c[1].supply = SupplyBefore
  PROVE  ExactTo(c, 1)
<1> DEFINE f == [i \in 1..1 |-> c[i].paid]
           r == [a \in Algo |-> SupplyOf(c, a, 2)]
           v == SupplyBefore \div NUM_ALGOS
<1>1. Paid(c, 1) = 0
  <2>1. Paid(c, 1) = SumFunctionOnSet(f, {1})
    <3>1. 1..1 = {1}
      OBVIOUS
    <3> QED
      BY <3>1, Zenon DEF Paid
  <2>2. IsFiniteSet({1}) /\ Cardinality({1}) = 1
    BY FS_Singleton
  <2>3. \A x \in {1} : f[x] = 0
    OBVIOUS
  <2> HIDE DEF f
  <2>4. SumFunctionOnSet(f, {1}) = Cardinality({1}) * 0
    BY <2>2, <2>3, SumConst
  <2> QED
    BY <2>1, <2>2, <2>4
<1>2. Reported(c, 1) = NUM_ALGOS * v
  <2>1. Reported(c, 1) = SumFunctionOnSet(r, Algo)
    <3>1. 1 + 1 = 2
      OBVIOUS
    <3> QED
      BY <3>1, Zenon DEF Reported
  <2>2. \A a \in Algo : r[a] = v
    <3> TAKE a \in Algo
    <3>1. Places(c, a, 2) = {}
      BY DEF Places
    <3>2. SupplyOf(c, a, 2) = v
      BY <3>1, SupplyOfIs
    <3> QED
      BY <3>2
  <2>3. v \in Int
    BY AlgosAre
  <2> HIDE DEF r, v
  <2>4. SumFunctionOnSet(r, Algo) = Cardinality(Algo) * v
    BY <2>2, <2>3, AlgosAre, SumConst
  <2> QED
    BY <2>1, <2>4 DEF NUM_ALGOS
<1> QED
  BY <1>1, <1>2, AlgosAre DEF ExactTo

\* With every block.
LEMMA ExactNext ==
  ASSUME NEW c, ChainOK(c), NEW L \in Nat \ {0}, Len(c) = L, ExactTo(c, L),
         NEW d, Alike(c, d, L), NEW a \in Algo, d[L + 1].algo = a, d[L + 1].paid \in Nat,
         d[L + 1].supply = SupplyOf(c, a, L + 1) + d[L + 1].paid
  PROVE  ExactTo(d, L + 1)
<1> DEFINE p == d[L + 1].paid
           f == [i \in 1..L |-> c[i].paid]
           g == [i \in 1..(L + 1) |-> d[i].paid]
           r == [e \in Algo |-> SupplyOf(c, e, L + 1)]
           s == [e \in Algo |-> SupplyOf(d, e, L + 2)]
<1>1. \A i \in 1..L : c[i].paid \in Nat /\ d[i].paid = c[i].paid
  BY DEF ChainOK, BlockOK, Alike
<1>2. IsFiniteSet(1..L) /\ IsFiniteSet(1..(L + 1)) /\ (1..(L + 1)) \ {L + 1} = 1..L /\ L + 1 \in 1..(L + 1)
  <2>1. IsFiniteSet(1..L) /\ IsFiniteSet(1..(L + 1))
    <3>1. 1 \in Int /\ L \in Int /\ L + 1 \in Int
      OBVIOUS
    <3> QED
      BY <3>1, FS_Interval
  <2>2. (1..(L + 1)) \ {L + 1} = 1..L /\ L + 1 \in 1..(L + 1)
    OBVIOUS
  <2> QED
    BY <2>1, <2>2
<1>3. Paid(c, L) \in Int /\ Paid(d, L + 1) = p + Paid(c, L)
  <2>1. \A i \in 1..L : f[i] = c[i].paid /\ g[i] = f[i] /\ f[i] \in Int
    BY <1>1
  <2>2. g[L + 1] = p /\ p \in Int
    OBVIOUS
  <2>3. \A i \in 1..(L + 1) : g[i] \in Int
    <3>1. \A i \in 1..(L + 1) : i \in 1..L \/ i = L + 1
      OBVIOUS
    <3> HIDE DEF f, g
    <3> QED
      BY <2>1, <2>2, <3>1
  <2>4. Paid(c, L) = SumFunctionOnSet(f, 1..L) /\ Paid(d, L + 1) = SumFunctionOnSet(g, 1..(L + 1))
    BY Zenon DEF Paid
  <2> HIDE DEF f, g, p
  <2>5. SumFunctionOnSet(f, 1..L) \in Int
    <3>1. IsFiniteSet(1..L) /\ \A i \in 1..L : f[i] \in Int
      BY <1>2, <2>1
    <3> QED
      BY <3>1, SumTake
  <2>6. SumFunctionOnSet(g, 1..(L + 1)) = g[L + 1] + SumFunctionOnSet(g, (1..(L + 1)) \ {L + 1})
    <3> DEFINE S == 1..(L + 1)
    <3>1. IsFiniteSet(S) /\ (\A i \in S : g[i] \in Int) /\ L + 1 \in S
      BY <1>2, <2>3
    <3> HIDE DEF S
    <3>2. \A i \in S : SumFunctionOnSet(g, S) = g[i] + SumFunctionOnSet(g, S \ {i})
      BY <3>1, SumTake
    <3>3. SumFunctionOnSet(g, S) = g[L + 1] + SumFunctionOnSet(g, S \ {L + 1})
      BY <3>1, <3>2
    <3> QED
      BY <3>3 DEF S
  <2>7. SumFunctionOnSet(g, 1..L) = SumFunctionOnSet(f, 1..L)
    BY <1>2, <2>1, SumSame
  <2> QED
    BY <1>2, <2>2, <2>4, <2>5, <2>6, <2>7
<1>4. Reported(c, L) \in Int /\ Reported(d, L + 1) = p + Reported(c, L)
  <2>1. L + 1 \in 1..(Len(c) + 1) /\ (L + 1) + 1 = L + 2
    OBVIOUS
  <2>2. \A e \in Algo : r[e] = SupplyOf(c, e, L + 1) /\ r[e] \in Int
    BY <2>1, SupplyInt
  <2>3. SupplyOf(d, a, L + 2) = d[L + 1].supply /\ \A e : e # a => SupplyOf(d, e, L + 2) = SupplyOf(c, e, L + 1)
    BY NextSupplyIs
  <2>4. s[a] = r[a] + p /\ \A e \in Algo \ {a} : s[e] = r[e]
    BY <2>2, <2>3
  <2>5. Reported(c, L) = SumFunctionOnSet(r, Algo) /\ Reported(d, L + 1) = SumFunctionOnSet(s, Algo)
    BY <2>1, Zenon DEF Reported
  <2>6. p \in Int
    OBVIOUS
  <2> HIDE DEF p, r, s
  <2>7. \A e \in Algo : s[e] \in Int
    <3>1. s[a] \in Int
      BY <2>2, <2>4, <2>6
    <3> QED
      BY <2>2, <2>4, <3>1
  <2>12. IsFiniteSet(Algo) /\ \A e \in Algo : r[e] \in Int
    BY <2>2, AlgosAre
  <2>13. /\ SumFunctionOnSet(r, Algo) \in Int
         /\ \A e \in Algo : SumFunctionOnSet(r, Algo) = r[e] + SumFunctionOnSet(r, Algo \ {e})
    BY <2>12, SumTake
  <2>14. \A e \in Algo : SumFunctionOnSet(s, Algo) = s[e] + SumFunctionOnSet(s, Algo \ {e})
    BY <2>7, <2>12, SumTake
  <2>8. /\ SumFunctionOnSet(r, Algo) \in Int
        /\ SumFunctionOnSet(r, Algo) = r[a] + SumFunctionOnSet(r, Algo \ {a})
        /\ SumFunctionOnSet(s, Algo) = s[a] + SumFunctionOnSet(s, Algo \ {a})
    BY <2>13, <2>14
  <2>9. IsFiniteSet(Algo \ {a})
    BY AlgosAre, FS_Subset
  <2>10. SumFunctionOnSet(s, Algo \ {a}) = SumFunctionOnSet(r, Algo \ {a})
    BY <2>4, <2>9, SumSame
  <2>11. SumFunctionOnSet(r, Algo \ {a}) \in Int /\ r[a] \in Int
    <3>1. \A e \in Algo \ {a} : r[e] \in Int
      BY <2>2
    <3> QED
      BY <2>2, <2>9, <3>1, SumTake
  <2> QED
    BY <2>4, <2>5, <2>6, <2>8, <2>10, <2>11
<1>5. p \in Int
  OBVIOUS
<1> HIDE DEF p
<1>6. SupplyBefore + Paid(d, L + 1) - Reported(d, L + 1) = SupplyBefore + Paid(c, L) - Reported(c, L)
  BY <1>3, <1>4, <1>5, AlgosAre
<1> QED
  BY <1>6 DEF ExactTo

-----------------------------------------------------------------------------
(* Subsidy: the invariant *)

EmissionInv ==
  /\ ChainOK(chain)
  /\ KeysApart(chain)
  /\ FactorsKept(chain)
  /\ \A n \in 1..Len(chain) : ExactTo(chain, n)

LEMMA EmissionBegins == EmissionInit => EmissionInv
<1> SUFFICES ASSUME EmissionInit PROVE EmissionInv
  OBVIOUS
<1> DEFINE b == [algo |-> Scrypt, key |-> FALSE, time |-> 0, target |-> ProofOfWorkLimit,
                 paid |-> 0, supply |-> SupplyBefore, ssf |-> 0]
<1>1. chain = <<b>>
  BY DEF EmissionInit
<1>2. BlockOK(b)
  BY RetargetAssumption, EmissionAssumption DEF BlockOK
<1>3. b.paid = 0 /\ b.supply = SupplyBefore
  OBVIOUS
<1> HIDE DEF b
<1>4. chain \in Seq({b}) /\ Len(chain) = 1 /\ chain[1] = b
  BY <1>1
<1>5. ChainOK(chain)
  <2>1. \A i \in 1..Len(chain) : chain[i] = b
    BY <1>4
  <2> QED
    BY <1>2, <1>3, <1>4, <2>1 DEF ChainOK
<1>6. KeysApart(chain) /\ FactorsKept(chain)
  <2>1. \A i \in 2..Len(chain) : FALSE
    BY <1>4
  <2> QED
    BY <2>1 DEF KeysApart, FactorsKept
<1>7. ExactTo(chain, 1)
  BY <1>3, <1>4, ExactFirst
<1>8. \A n \in 1..Len(chain) : ExactTo(chain, n)
  <2>1. \A n \in 1..Len(chain) : n = 1
    BY <1>4
  <2> QED
    BY <1>7, <2>1
<1> QED
  BY <1>5, <1>6, <1>8 DEF EmissionInv

\* A block connected.
LEMMA ConnectKeeps ==
  ASSUME EmissionInv, NEW algo \in Algo, NEW key \in BOOLEAN, NEW delay \in Delays,
         ConnectBlock(algo, key, delay)
  PROVE  EmissionInv'
<1> DEFINE L == Len(chain)
           c == chain
<1>1. PICK b :
        /\ FlagInTime(c, algo, key)
        /\ chain' = Append(c, b)
        /\ BlockOK(b) <=> b.supply \in Int
        /\ b.algo = algo /\ b.key = key /\ b.paid \in Nat
        /\ b.supply = SupplyOf(c, algo, L + 1) + b.paid /\ b.ssf = NextFactor(c, algo, key)
  <2> DEFINE value == NextValue(c, algo, key)
             block(x) ==
               [algo |-> algo, key |-> key,
                time |-> Max({GetMedianTimePast(c, L) + 1, c[L].time + delay}),
                target |-> DarkGravityWave(c, algo),
                paid |-> x, supply |-> NextSupply(c, algo, x),
                ssf |-> NextFactor(c, algo, key)]
  <2>1. FlagInTime(c, algo, key) /\ \E x \in {0, value} : x \in Nat /\ chain' = Append(c, block(x))
    BY Zenon DEF ConnectBlock
  <2>2. PICK x \in {0, value} : x \in Nat /\ chain' = Append(c, block(x))
    BY <2>1
  <2>3. /\ BlockOK(block(x)) <=> block(x).supply \in Int
        /\ block(x).algo = algo /\ block(x).key = key /\ block(x).paid = x
        /\ block(x).supply = NextSupply(c, algo, x) /\ block(x).ssf = NextFactor(c, algo, key)
    BY <2>2 DEF BlockOK
  <2>4. NextSupply(c, algo, x) = SupplyOf(c, algo, L + 1) + x
    BY Zenon DEF NextSupply
  <2> HIDE DEF block, value
  <2> QED
    BY <2>1, <2>2, <2>3, <2>4
<1> DEFINE d == chain'
<1>2. ChainOK(c) /\ KeysApart(c) /\ FactorsKept(c) /\ \A n \in 1..L : ExactTo(c, n)
  BY DEF EmissionInv
<1>3. L \in Nat \ {0} /\ L >= 1 /\ L \in 1..L
  BY <1>2 DEF ChainOK
<1>4. (\E S : d \in Seq(S)) /\ Len(d) = L + 1 /\ d[L + 1] = b /\ \A k \in 1..L : c[k] = d[k]
  <2>1. PICK S : c \in Seq(S)
    BY <1>2 DEF ChainOK
  <2>2. c \in Seq(S \cup {b}) /\ b \in S \cup {b}
    BY <2>1
  <2>3. d \in Seq(S \cup {b}) /\ Len(d) = L + 1 /\ d[L + 1] = b /\ \A k \in 1..L : c[k] = d[k]
    BY <1>1, <2>2
  <2> QED
    BY <2>3
<1>5. SameTo(c, d, L) /\ Alike(c, d, L)
  BY <1>4 DEF SameTo, Alike
<1>6. b.supply \in Int
  <2>1. L + 1 \in 1..(Len(c) + 1)
    BY <1>3
  <2>2. SupplyOf(c, algo, L + 1) \in Int
    BY <1>2, <2>1, SupplyInt
  <2> QED
    BY <1>1, <2>2
<1> HIDE DEF c, d, L
<1>7. ChainOK(d)
  <2>1. \A i \in 1..(L + 1) : i \in 1..L \/ i = L + 1
    BY <1>3
  <2>2. \A i \in 1..L : BlockOK(c[i])
    BY <1>2 DEF ChainOK, L, c
  <2>3. \A i \in 1..(L + 1) : BlockOK(d[i])
    BY <1>1, <1>4, <1>6, <2>1, <2>2
  <2>4. 1 \in 1..L
    BY <1>3
  <2>5. d[1].supply = SupplyBefore
    BY <1>2, <1>4, <2>4 DEF ChainOK
  <2>6. L + 1 >= 1
    BY <1>3
  <2> QED
    BY <1>4, <2>3, <2>5, <2>6 DEF ChainOK
<1>8. KeysApart(d)
  <2>1. Len(c) = L /\ L \in Nat /\ d[L + 1].algo = algo /\ d[L + 1].key = key
    BY <1>1, <1>3, <1>4 DEF c, L
  <2> QED
    BY <1>1, <1>2, <1>4, <1>5, <2>1, KeysNext
<1>9. FactorsKept(d)
  <2>1. \A j \in 2..L : FactorAt(c, j)
    BY <1>2 DEF FactorsKept, c, L
  <2>2. ASSUME NEW j \in 2..L PROVE FactorAt(d, j)
    <3>1. L \in Nat
      BY <1>3
    <3> QED
      BY <1>5, <2>1, <3>1, SameFactorAt
  <2>3. FactorAt(d, L + 1)
    <3>1. Len(c) = L /\ L \in Nat /\ d[L + 1].algo = algo /\ d[L + 1].key = key
          /\ d[L + 1].ssf = NextFactor(c, algo, key)
      BY <1>1, <1>3, <1>4 DEF c, L
    <3> QED
      BY <1>2, <1>3, <1>5, <3>1, NextFactorAt
  <2>4. \A j \in 2..(L + 1) : j \in 2..L \/ j = L + 1
    BY <1>3
  <2> QED
    BY <1>4, <2>2, <2>3, <2>4 DEF FactorsKept
<1>10. \A n \in 1..(L + 1) : ExactTo(d, n)
  <2>1. ASSUME NEW n \in 1..L PROVE ExactTo(d, n)
    <3>1. L \in Nat
      BY <1>3
    <3> QED
      BY <1>2, <1>5, <3>1, SameExact
  <2>2. ExactTo(d, L + 1)
    <3>1. /\ Len(c) = L /\ d[L + 1].algo = algo /\ d[L + 1].paid \in Nat
          /\ d[L + 1].supply = SupplyOf(c, algo, L + 1) + d[L + 1].paid
      BY <1>1, <1>4 DEF c, L
    <3> QED
      BY <1>2, <1>3, <1>5, <3>1, ExactNext
  <2>3. \A n \in 1..(L + 1) : n \in 1..L \/ n = L + 1
    BY <1>3
  <2> QED
    BY <2>1, <2>2, <2>3
<1> QED
  BY <1>4, <1>7, <1>8, <1>9, <1>10 DEF EmissionInv, d

\* A block disconnected.
LEMMA DisconnectKeeps ==
  ASSUME EmissionInv, DisconnectBlock
  PROVE  EmissionInv'
<1> DEFINE c == chain
           d == chain'
           n == Len(chain) - 1
<1>1. ChainOK(c) /\ KeysApart(c) /\ FactorsKept(c) /\ \A k \in 1..Len(c) : ExactTo(c, k)
  BY DEF EmissionInv
<1>2. n \in Nat \ {0} /\ n \in Nat /\ n <= Len(c) /\ Len(c) \in Nat
  BY <1>1 DEF ChainOK, DisconnectBlock
<1>3. (\E S : d \in Seq(S)) /\ Len(d) = n /\ \A k \in 1..n : c[k] = d[k]
  <2>1. PICK S : c \in Seq(S)
    BY <1>1 DEF ChainOK
  <2>2. d = SubSeq(c, 1, n)
    BY DEF DisconnectBlock, Front
  <2> HIDE DEF d, n, c
  <2>3. d \in Seq(S) /\ Len(d) = n /\ \A k \in 1..n : c[k] = d[k]
    BY <1>2, <2>1, <2>2
  <2> QED
    BY <2>3
<1>4. SameTo(c, d, n) /\ Alike(c, d, n)
  BY <1>3 DEF SameTo, Alike
<1> HIDE DEF c, d, n
<1>5. ChainOK(d)
  <2>1. \A i \in 1..n : i \in 1..Len(c)
    BY <1>2
  <2>2. \A i \in 1..n : BlockOK(d[i])
    BY <1>1, <1>3, <2>1 DEF ChainOK
  <2>3. d[1].supply = SupplyBefore
    <3>1. 1 \in 1..n
      BY <1>2
    <3> QED
      BY <1>1, <1>3, <3>1 DEF ChainOK
  <2>4. n >= 1
    BY <1>2
  <2> QED
    BY <1>3, <2>2, <2>3, <2>4 DEF ChainOK
<1>6. KeysApart(d)
  BY <1>1, <1>2, <1>3, <1>4, KeysStay
<1>7. FactorsKept(d)
  <2>1. ASSUME NEW j \in 2..n PROVE FactorAt(d, j)
    <3>1. j \in 2..Len(c)
      BY <1>2
    <3>2. FactorAt(c, j)
      BY <1>1, <3>1 DEF FactorsKept
    <3> QED
      BY <1>2, <1>4, <3>2, SameFactorAt
  <2> QED
    BY <1>3, <2>1 DEF FactorsKept
<1>8. \A k \in 1..n : ExactTo(d, k)
  <2> TAKE k \in 1..n
  <2>1. k \in 1..Len(c)
    BY <1>2
  <2> QED
    BY <1>1, <1>2, <1>4, <2>1, SameExact
<1> QED
  BY <1>3, <1>5, <1>6, <1>7, <1>8 DEF EmissionInv, d

\* A restart, which forgets the factors.
LEMMA RestartKeeps ==
  ASSUME EmissionInv, RestartNode
  PROVE  EmissionInv'
<1> DEFINE c == chain
           d == chain'
           n == Len(chain)
<1>1. ChainOK(c) /\ KeysApart(c) /\ FactorsKept(c) /\ \A k \in 1..n : ExactTo(c, k)
  BY DEF EmissionInv
<1>2. n \in Nat \ {0} /\ n \in Nat /\ n <= n
  BY <1>1 DEF ChainOK
<1>3. DOMAIN c = 1..n
  BY <1>1 DEF ChainOK
<1>4. d = [i \in 1..n |-> [c[i] EXCEPT !.ssf = 0]]
  BY <1>3 DEF RestartNode
<1> HIDE DEF c, d, n
<1>5. \A i \in 1..n : BlockOK(c[i])
  BY <1>1 DEF ChainOK, c, n
<1>6. ASSUME NEW i \in 1..n
      PROVE  /\ d[i].algo = c[i].algo /\ d[i].key = c[i].key
             /\ d[i].paid = c[i].paid /\ d[i].supply = c[i].supply
             /\ d[i].ssf = 0 /\ BlockOK(d[i])
  <2> DEFINE b == c[i]
  <2>1. BlockOK(b)
    BY <1>5
  <2>2. d[i] = [b EXCEPT !.ssf = 0]
    BY <1>4
  <2> HIDE DEF b
  <2>3. [b EXCEPT !.ssf = 0] =
          [algo |-> b.algo, key |-> b.key, time |-> b.time, target |-> b.target,
           paid |-> b.paid, supply |-> b.supply, ssf |-> 0]
    BY <2>1 DEF BlockOK
  <2> DEFINE e == [algo |-> b.algo, key |-> b.key, time |-> b.time, target |-> b.target,
                   paid |-> b.paid, supply |-> b.supply, ssf |-> 0]
  <2>4. /\ e.algo = b.algo /\ e.key = b.key /\ e.paid = b.paid /\ e.supply = b.supply
        /\ e.ssf = 0 /\ BlockOK(e)
    BY <2>1 DEF BlockOK
  <2> HIDE DEF e
  <2>5. d[i] = e
    BY <2>2, <2>3 DEF e
  <2> QED
    BY <2>4, <2>5 DEF b
<1>7. (\E S : d \in Seq(S)) /\ Len(d) = n
  <2>1. d \in Seq({d[i] : i \in 1..n}) /\ Len(d) = n
    BY <1>2, <1>4
  <2> QED
    BY <2>1
<1>8. Alike(c, d, n)
  BY <1>6 DEF Alike
<1>9. ChainOK(d)
  <2>1. 1 \in 1..n /\ n >= 1
    BY <1>2
  <2>2. d[1].supply = SupplyBefore
    BY <1>1, <1>6, <2>1 DEF ChainOK
  <2> QED
    BY <1>6, <1>7, <2>1, <2>2 DEF ChainOK
<1>10. KeysApart(d)
  <2>1. Len(c) = n
    BY DEF c, n
  <2> QED
    BY <1>1, <1>2, <1>7, <1>8, <2>1, KeysStay
<1>11. FactorsKept(d)
  <2>1. ASSUME NEW j \in 2..n PROVE FactorAt(d, j)
    <3>1. j \in 1..n
      OBVIOUS
    <3>2. d[j].ssf = 0
      BY <1>6, <3>1
    <3>3. d[j].ssf % UInt32 = 0
      BY <3>2, EmissionAssumption
    <3> QED
      BY <3>3, Zenon DEF FactorAt
  <2> QED
    BY <1>7, <2>1 DEF FactorsKept
<1>12. \A k \in 1..n : ExactTo(d, k)
  BY <1>1, <1>2, <1>8, SameExact
<1> QED
  BY <1>7, <1>9, <1>10, <1>11, <1>12 DEF EmissionInv, d

\* The invariant is kept by every step.
LEMMA EmissionSteps == EmissionInv /\ [EmissionNext]_emissionVars => EmissionInv'
<1> SUFFICES ASSUME EmissionInv, [EmissionNext]_emissionVars PROVE EmissionInv'
  OBVIOUS
<1>1. ASSUME NEW algo \in Algo, NEW key \in BOOLEAN, NEW delay \in Delays, ConnectBlock(algo, key, delay)
      PROVE  EmissionInv'
  BY <1>1, ConnectKeeps
<1>2. CASE DisconnectBlock
  BY <1>2, DisconnectKeeps
<1>3. CASE RestartNode
  BY <1>3, RestartKeeps
<1>4. CASE UNCHANGED emissionVars
  <2>1. chain' = chain
    BY <1>4 DEF emissionVars
  <2> DEFINE Inv(c) == ChainOK(c) /\ KeysApart(c) /\ FactorsKept(c) /\ \A n \in 1..Len(c) : ExactTo(c, n)
  <2>2. Inv(chain)
    BY Zenon DEF EmissionInv
  <2> HIDE DEF Inv
  <2>3. Inv(chain')
    BY <2>1, <2>2
  <2> QED
    BY <2>3, Zenon DEF EmissionInv, Inv
<1> QED
  BY <1>1, <1>2, <1>3, <1>4 DEF EmissionNext

LEMMA EmissionAlways == EmissionSpec => []EmissionInv
<1> QED
  BY EmissionBegins, EmissionSteps, PTL DEF EmissionSpec

\* The limit of the next coinbase is that of the chain alone, whatever restarts and
\* reorganisations have left in memory: ConnectBlock, GetBlockValue.
THEOREM SubsidyIsChains == EmissionSpec => []SubsidyFromChain
<1>1. EmissionInv => SubsidyFromChain
  <2> SUFFICES ASSUME EmissionInv PROVE SubsidyFromChain
    OBVIOUS
  <2> DEFINE L == Len(chain)
  <2>1. L \in Nat /\ FactorsKept(chain)
    BY DEF EmissionInv, ChainOK
  <2>2. ASSUME NEW algo \in Algo, NEW key \in BOOLEAN
        PROVE  LET from == IF key THEN {L + 1} ELSE NewestKey(chain, algo)
                   factor == IF from = {} THEN 0 ELSE get_ssf(chain, algo, Max(from))
               IN NextValue(chain, algo, key) = GetBlockValue(chain, algo, L + 1, factor)
    <3> DEFINE from == IF key THEN {L + 1} ELSE NewestKey(chain, algo)
               factor == IF from = {} THEN 0 ELSE get_ssf(chain, algo, Max(from))
               keys == KeysTo(chain, algo, L)
    <3>1. NextFactor(chain, algo, key) = ChainFactor(chain, algo, key)
      BY <2>1, NextFactorIs
    <3>2. NewestKey(chain, algo) = {} <=> keys = {}
      BY <2>1, NewestKeyIs
    <3>3. keys # {} => Max(NewestKey(chain, algo)) = Max(keys)
      BY <2>1, NewestKeyIs
    <3>4. ChainFactor(chain, algo, key) =
            IF key THEN get_ssf(chain, algo, L + 1)
            ELSE IF keys = {} THEN 0 ELSE get_ssf(chain, algo, Max(keys))
      BY Zenon DEF ChainFactor
    <3>5. Max({L + 1}) = L + 1
      <4>1. \E x \in {L + 1} : \A y \in {L + 1} : x >= y
        BY <2>1
      <4>2. Max({L + 1}) \in {L + 1}
        BY <4>1, Zenon DEF Max
      <4> QED
        BY <4>2
    <3> HIDE DEF keys, L
    <3>6. ChainFactor(chain, algo, key) = factor
      BY <3>2, <3>3, <3>4, <3>5
    <3>7. NextValue(chain, algo, key) = GetBlockValue(chain, algo, L + 1, NextFactor(chain, algo, key))
      BY Zenon DEF NextValue, L
    <3> QED
      BY <3>1, <3>6, <3>7
  <2> QED
    BY <2>2, Zenon DEF SubsidyFromChain
<1> QED
  BY <1>1, EmissionAlways, PTL

\* What CreateNewBlock chooses, ConnectBlock takes: two flags of an algorithm are
\* never closer than nSSF of its blocks.
THEOREM MinerIsAccepted == EmissionSpec => []MinerFlagAccepted
<1>1. EmissionInv => MinerFlagAccepted
  <2> SUFFICES ASSUME EmissionInv, NEW algo \in Algo
               PROVE  FlagInTime(chain, algo, MinerFlag(chain, algo))
    BY DEF MinerFlagAccepted
  <2>1. Len(chain) \in Nat /\ KeysApart(chain)
    BY DEF EmissionInv, ChainOK
  <2> QED
    BY <2>1, MinerIs
<1> QED
  BY <1>1, EmissionAlways, PTL

\* GetMoneySupply is what there was before the fork and all that was paid since, less
\* the remainder of one division.
THEOREM SupplyIsExact == EmissionSpec => []SupplyExact
<1>1. EmissionInv => SupplyExact
  <2> SUFFICES ASSUME EmissionInv PROVE SupplyExact
    OBVIOUS
  <2> DEFINE L == Len(chain)
             f == [i \in 1..L |-> chain[i].paid]
             r == [a \in Algo |-> SupplyOf(chain, a, L + 1)]
  <2>1. L \in Nat \ {0} /\ DOMAIN chain = 1..L /\ ChainOK(chain)
    BY DEF EmissionInv, ChainOK
  <2>2. ExactTo(chain, L)
    <3>1. L \in 1..L
      BY <2>1
    <3> QED
      BY <3>1 DEF EmissionInv
  <2>3. SumFunction([i \in DOMAIN chain |-> chain[i].paid]) = Paid(chain, L)
    <3>1. [i \in DOMAIN chain |-> chain[i].paid] = f /\ DOMAIN f = 1..L
      BY <2>1
    <3> HIDE DEF L
    <3> QED
      BY <3>1, Zenon DEF SumFunction, Paid
  <2>4. SumFunction(r) = Reported(chain, L)
    <3>1. DOMAIN r = Algo
      OBVIOUS
    <3> HIDE DEF L
    <3> QED
      BY <3>1, Zenon DEF SumFunction, Reported
  <2>5. Paid(chain, L) \in Int /\ Reported(chain, L) \in Int
    <3>1. \A i \in 1..L : f[i] \in Int
      BY <2>1 DEF ChainOK, BlockOK
    <3>2. \A a \in Algo : r[a] \in Int
      <4>1. L + 1 \in 1..(Len(chain) + 1)
        BY <2>1
      <4> QED
        BY <2>1, <4>1, SupplyInt
    <3>3. IsFiniteSet(1..L)
      BY <2>1, FS_Interval
    <3>4. Paid(chain, L) = SumFunctionOnSet(f, 1..L) /\ Reported(chain, L) = SumFunctionOnSet(r, Algo)
      BY Zenon DEF Paid, Reported
    <3> HIDE DEF f, r
    <3>5. SumFunctionOnSet(f, 1..L) \in Int
      BY <3>1, <3>3, SumTake
    <3>6. SumFunctionOnSet(r, Algo) \in Int
      BY <3>2, AlgosAre, SumTake
    <3> QED
      BY <3>4, <3>5, <3>6
  <2> DEFINE K == SupplyBefore - NUM_ALGOS * (SupplyBefore \div NUM_ALGOS)
  <2>6. K \in 0..(NUM_ALGOS - 1) /\ SupplyBefore + Paid(chain, L) - Reported(chain, L) = K
    BY <2>2, AlgosAre DEF ExactTo
  <2> HIDE DEF f, r, L, K
  <2>7. (SupplyBefore + Paid(chain, L)) - Reported(chain, L) \in 0..(NUM_ALGOS - 1)
    <3>1. (SupplyBefore + Paid(chain, L)) - Reported(chain, L) = K
      BY <2>5, <2>6, AlgosAre
    <3> QED
      BY <2>6, <3>1
  <2> QED
    BY <2>3, <2>4, <2>7 DEF SupplyExact, r, L
<1> QED
  BY <1>1, EmissionAlways, PTL

-----------------------------------------------------------------------------
(* Subsidy: what the walk of DarkGravityWave finds of the last row *)

\* w[n] is what n steps of the walk have found.
WalkSteps(w, c, a, m) ==
  w = [n \in 0..m |-> IF n = 0 THEN WalkStart ELSE ReadBlock(c, a, w[n - 1], Len(c) + 1 - n)]

LEMMA WalkExists ==
  ASSUME NEW c, NEW a, NEW L \in Nat
  PROVE  \E w : WalkSteps(w, c, a, L)
<1> DEFINE Step(x, n) == ReadBlock(c, a, x, Len(c) + 1 - n)
           B == {m \in Nat : ~ \E w : WalkSteps(w, c, a, m)}
<1>0. \A w, m : WalkSteps(w, c, a, m) <=> w = [n \in 0..m |-> IF n = 0 THEN WalkStart ELSE Step(w[n - 1], n)]
  BY Zenon DEF WalkSteps
<1> HIDE DEF Step
<1>1. SUFFICES ASSUME B # {} PROVE FALSE
  OBVIOUS
<1>2. PICK m \in B : \A x \in B : ~(x < m)
  <2>1. B \subseteq Nat
    OBVIOUS
  <2> HIDE DEF B
  <2> QED
    BY <1>1, <2>1, LeastOf
<1>3. CASE m = 0
  <2>1. [n \in 0..0 |-> WalkStart] = [n \in 0..0 |-> IF n = 0 THEN WalkStart ELSE Step([k \in 0..0 |-> WalkStart][n - 1], n)]
    OBVIOUS
  <2>2. WalkSteps([n \in 0..0 |-> WalkStart], c, a, 0)
    BY <1>0, <2>1
  <2> QED
    BY <1>2, <1>3, <2>2
<1>4. CASE m # 0
  <2>1. m - 1 \in Nat /\ m - 1 < m /\ m \in Nat
    BY <1>4
  <2>2. m - 1 \notin B
    BY <1>2, <2>1
  <2>3. PICK g : WalkSteps(g, c, a, m - 1)
    BY <2>1, <2>2
  <2> DEFINE f == [k \in 0..m |-> IF k = m THEN Step(g[m - 1], m) ELSE g[k]]
  <2>4. \A k \in 0..(m - 1) : g[k] = IF k = 0 THEN WalkStart ELSE Step(g[k - 1], k)
    <3> DEFINE F(k) == IF k = 0 THEN WalkStart ELSE Step(g[k - 1], k)
    <3>1. g = [k \in 0..(m - 1) |-> F(k)]
      BY <1>0, <2>3
    <3> HIDE DEF F
    <3>2. \A k \in 0..(m - 1) : g[k] = F(k)
      BY <3>1
    <3> QED
      BY <3>2 DEF F
  <2>5. ASSUME NEW k \in 0..m
        PROVE  f[k] = IF k = 0 THEN WalkStart ELSE Step(f[k - 1], k)
    <3>1. CASE k = m
      <4>1. f[k - 1] = g[k - 1] /\ f[k] = Step(g[m - 1], m)
        BY <3>1, <2>1
      <4> QED
        BY <3>1, <4>1, <1>4
    <3>2. CASE k # m /\ k = 0
      BY <3>2, <2>1, <2>4
    <3>3. CASE k # m /\ k # 0
      <4>1. k \in 0..(m - 1) /\ k - 1 \in 0..m /\ k - 1 # m
        BY <3>3, <2>1
      <4>2. f[k] = g[k] /\ f[k - 1] = g[k - 1]
        BY <3>3, <4>1
      <4> QED
        BY <3>3, <4>1, <4>2, <2>4
    <3> QED
      BY <3>1, <3>2, <3>3
  <2>6. f = [k \in 0..m |-> f[k]]
    OBVIOUS
  <2> HIDE DEF f
  <2>7. f = [k \in 0..m |-> IF k = 0 THEN WalkStart ELSE Step(f[k - 1], k)]
    BY <2>5, <2>6
  <2>8. WalkSteps(f, c, a, m)
    BY <1>0, <2>7
  <2> QED
    BY <1>2, <2>8
<1> QED
  BY <1>3, <1>4

\* A property of the first step that each step keeps is one of the last.
LEMMA WalkIs ==
  ASSUME NEW c, NEW a, NEW L \in Nat \ {0}, Len(c) = L
  PROVE  \E w : /\ w[0] = WalkStart
                /\ \A n \in 1..(L - 1) : w[n] = ReadBlock(c, a, w[n - 1], L + 1 - n)
                /\ Walk(c, a) = w[L - 1]
<1> DEFINE w == CHOOSE v : WalkSteps(v, c, a, L - 1)
           F(n) == IF n = 0 THEN WalkStart ELSE ReadBlock(c, a, w[n - 1], L + 1 - n)
<1>1. WalkSteps(w, c, a, L - 1)
  <2>1. L - 1 \in Nat
    OBVIOUS
  <2> QED
    BY <2>1, WalkExists, Zenon
<1>2. w = [n \in 0..(L - 1) |-> F(n)]
  <2> HIDE DEF w
  <2> QED
    BY <1>1, Zenon DEF WalkSteps
<1>3. Walk(c, a) = w[L - 1]
  BY Zenon DEF Walk, WalkSteps
<1> HIDE DEF w, F
<1>4. \A n \in 0..(L - 1) : w[n] = F(n)
  BY <1>2
<1>5. w[0] = WalkStart /\ \A n \in 1..(L - 1) : w[n] = ReadBlock(c, a, w[n - 1], L + 1 - n)
  BY <1>4 DEF F
<1> QED
  BY <1>3, <1>5

\* The last r of the places in T, up to the greatest M, follow each other, and no more.
RowOf(T, M, r) == r \in Nat \ {0} /\ (M - r + 1)..M \subseteq T /\ M - r \notin T

LEMMA RowIs ==
  ASSUME NEW L \in Nat, NEW T, T \subseteq 2..L, NEW M \in T, \A i \in T : i <= M, NEW r, RowOf(T, M, r)
  PROVE  Max(T) = M /\ Cardinality({i \in T : i..Max(T) \subseteq T}) = r
<1>1. r \in Nat \ {0} /\ (M - r + 1)..M \subseteq T /\ M - r \notin T /\ M \in 2..L
  BY DEF RowOf
<1>2. Max(T) = M
  <2>1. T \subseteq 0..L /\ T # {}
    OBVIOUS
  <2>2. Max(T) \in T /\ M <= Max(T)
    BY <2>1, MaxIs
  <2>3. Max(T) <= M /\ Max(T) \in 2..L
    BY <2>2
  <2> QED
    BY <1>1, <2>2, <2>3
<1>3. {i \in T : i..M \subseteq T} = (M - r + 1)..M
  <2>1. ASSUME NEW i \in T, i..M \subseteq T PROVE i \in (M - r + 1)..M
    <3>1. i \in 2..L /\ i <= M
      OBVIOUS
    <3>2. ~(i <= M - r)
      <4>1. i <= M - r => M - r \in i..M
        BY <1>1, <3>1
      <4> QED
        BY <1>1, <2>1, <4>1
    <3> QED
      BY <1>1, <3>1, <3>2
  <2>2. ASSUME NEW i \in (M - r + 1)..M PROVE i \in T /\ i..M \subseteq T
    <3>1. i \in T
      BY <1>1
    <3>2. \A j \in i..M : j \in (M - r + 1)..M
      BY <1>1
    <3> QED
      BY <1>1, <3>1, <3>2
  <2> QED
    BY <2>1, <2>2
<1>4. Cardinality((M - r + 1)..M) = r
  <2>1. M - r + 1 \in Int /\ M \in Int /\ M - r + 1 <= M
    BY <1>1
  <2>2. Cardinality((M - r + 1)..M) = M - (M - r + 1) + 1
    BY <2>1, FS_Interval
  <2> QED
    BY <1>1, <2>2
<1> QED
  BY <1>2, <1>3, <1>4

\* The walk w has read the places from b to the tip; T are those of the algorithm.
WalkShape(w) ==
  w = [count |-> w.count, newest |-> w.newest, oldest |-> w.oldest, average |-> w.average,
       nInRow |-> w.nInRow, nInRowDone |-> w.nInRowDone, lastInRow |-> w.lastInRow,
       lastInRowDone |-> w.lastInRowDone, atFork |-> w.atFork]

\* Its last row is over and counted, or goes on to its oldest place; that is the last
\* place read unless the walk is at its end.
RowRead(T, w, b) ==
  \E M \in T :
    /\ \A i \in T : i <= M
    /\ w.oldest \in T /\ b <= w.oldest /\ w.oldest <= M
    /\ w.lastInRowDone => RowOf(T, M, w.lastInRow)
    /\ ~w.lastInRowDone => /\ w.oldest..M \subseteq T
                           /\ w.lastInRow = M - w.oldest + 1
                           /\ w.count < PastBlocks => w.oldest = b

Reading(T, w, b) ==
  /\ WalkShape(w) /\ w.count \in 0..PastBlocks /\ w.lastInRowDone \in BOOLEAN /\ ~w.atFork
  /\ w.count = 0 => w.lastInRow = 0 /\ ~w.lastInRowDone /\ \A i \in T : i < b
  /\ w.count > 0 => RowRead(T, w, b)

\* The places of the algorithm after the fork.
Own(c, a, L) == {i \in 2..L : c[i].algo = a}

LEMMA ReadingStarts ==
  ASSUME NEW c, NEW a, NEW L \in Nat
  PROVE  Reading(Own(c, a, L), WalkStart, L + 1)
<1>1. \A i \in Own(c, a, L) : i < L + 1
  BY DEF Own
<1>2. PastBlocks \in Nat
  BY RetargetAssumption
<1> QED
  BY <1>1, <1>2 DEF Reading, WalkShape, WalkStart

\* A place of another algorithm.
LEMMA ReadOther ==
  ASSUME NEW c, NEW a, NEW L \in Nat, NEW b \in 3..(L + 1), NEW w, Reading(Own(c, a, L), w, b),
         w.count # PastBlocks, c[b - 1].algo # a
  PROVE  Reading(Own(c, a, L), ReadBlock(c, a, w, b - 1), b - 1)
<1> DEFINE T == Own(c, a, L)
           r == [w EXCEPT !.nInRow = IF @ < InRow THEN 0 ELSE @, !.nInRowDone = @ \/ w.nInRow >= InRow]
           v == ReadBlock(c, a, w, b - 1)
<1>1. v = [r EXCEPT !.lastInRowDone = @ \/ w.count > 0]
  BY Zenon DEF ReadBlock, EndRow
<1>2. WalkShape(w) /\ w.count \in 0..PastBlocks /\ w.lastInRowDone \in BOOLEAN /\ ~w.atFork /\ PastBlocks \in Nat
  BY RetargetAssumption DEF Reading
<1> HIDE DEF T
<1>3. /\ WalkShape(v) /\ v.count = w.count /\ v.oldest = w.oldest /\ v.lastInRow = w.lastInRow
      /\ v.lastInRowDone = (w.lastInRowDone \/ w.count > 0) /\ v.atFork = w.atFork
  <2> HIDE DEF v
  <2>1. /\ r.count = w.count /\ r.oldest = w.oldest /\ r.lastInRow = w.lastInRow
        /\ r.lastInRowDone = w.lastInRowDone /\ r.atFork = w.atFork /\ WalkShape(r)
    <3> DEFINE x == IF w.nInRow < InRow THEN 0 ELSE w.nInRow
               y == w.nInRowDone \/ w.nInRow >= InRow
               u == [count |-> w.count, newest |-> w.newest, oldest |-> w.oldest,
                     average |-> w.average, nInRow |-> x, nInRowDone |-> y,
                     lastInRow |-> w.lastInRow, lastInRowDone |-> w.lastInRowDone,
                     atFork |-> w.atFork]
    <3>1. r = [w EXCEPT !.nInRow = x, !.nInRowDone = y]
      BY <1>2 DEF WalkShape
    <3> HIDE DEF r, x, y
    <3>2. r = u
      BY <1>2, <3>1 DEF WalkShape
    <3> QED
      BY <3>2 DEF WalkShape
  <2> HIDE DEF r
  <2>2. WalkShape(v)
    BY <1>1, <2>1 DEF WalkShape
  <2> QED
    BY <1>1, <2>1, <2>2 DEF WalkShape
<1> HIDE DEF v, r
<1>4. \A i : i \in T <=> i \in 2..L /\ c[i].algo = a
  BY DEF T, Own
<1>5. b - 1 \in 2..L /\ b - 1 \notin T /\ b \in Int
  BY <1>4
<1>6. CASE w.count = 0
  <2>1. w.lastInRow = 0 /\ ~w.lastInRowDone /\ \A i \in T : i < b
    BY <1>6 DEF Reading, T
  <2>2. \A i \in T : i < b - 1
    BY <1>4, <1>5, <2>1
  <2>3. Reading(T, v, b - 1)
    BY <1>2, <1>3, <1>6, <2>1, <2>2 DEF Reading
  <2> QED
    BY <2>3 DEF T, v
<1>7. CASE w.count > 0
  <2>1. RowRead(T, w, b)
    BY <1>7 DEF Reading, T
  <2>2. PICK M \in T :
          /\ \A i \in T : i <= M
          /\ w.oldest \in T /\ b <= w.oldest /\ w.oldest <= M
          /\ w.lastInRowDone => RowOf(T, M, w.lastInRow)
          /\ ~w.lastInRowDone => /\ w.oldest..M \subseteq T
                                 /\ w.lastInRow = M - w.oldest + 1
                                 /\ w.count < PastBlocks => w.oldest = b
    BY <2>1, Zenon DEF RowRead
  <2>3. M \in 2..L /\ w.oldest \in 2..L
    BY <1>4, <2>2
  <2>4. RowOf(T, M, w.lastInRow)
    <3>1. CASE ~w.lastInRowDone
      <4>1. w.oldest = b /\ b..M \subseteq T /\ w.lastInRow = M - b + 1
        BY <1>2, <2>2, <3>1
      <4>2. w.lastInRow \in Nat \ {0} /\ M - w.lastInRow + 1 = b /\ M - w.lastInRow = b - 1
        BY <2>2, <2>3, <4>1
      <4> QED
        BY <1>5, <4>1, <4>2 DEF RowOf
    <3> QED
      BY <1>2, <2>2, <3>1
  <2>5. RowRead(T, v, b - 1)
    <3>1. b - 1 <= w.oldest
      BY <1>5, <2>2, <2>3
    <3>2. v.lastInRowDone
      BY <1>3, <1>7
    <3>3. \A i \in T : i <= M
      BY <2>2
    <3> QED
      BY <1>3, <2>2, <2>4, <3>1, <3>2, <3>3, Zenon DEF RowRead
  <2>6. Reading(T, v, b - 1)
    BY <1>2, <1>3, <1>7, <2>5 DEF Reading
  <2> QED
    BY <2>6 DEF T, v
<1> QED
  BY <1>2, <1>6, <1>7

\* A place of the algorithm.
LEMMA ReadOwn ==
  ASSUME NEW c, NEW a, NEW L \in Nat, NEW b \in 3..(L + 1), NEW w, Reading(Own(c, a, L), w, b),
         w.count # PastBlocks, c[b - 1].algo = a
  PROVE  Reading(Own(c, a, L), ReadBlock(c, a, w, b - 1), b - 1)
<1> DEFINE T == Own(c, a, L)
           k == b - 1
           v == ReadBlock(c, a, w, b - 1)
<1>1. v = [w EXCEPT !.count = @ + 1,
                    !.newest = IF w.count = 0 THEN k ELSE @, !.oldest = k,
                    !.average = (@ * w.count + c[k].target) \div (w.count + 1),
                    !.nInRow = IF w.nInRowDone THEN @ ELSE @ + 1,
                    !.lastInRow = IF w.lastInRowDone THEN @ ELSE @ + 1]
  BY Zenon DEF ReadBlock
<1>2. WalkShape(w) /\ w.count \in 0..PastBlocks /\ w.lastInRowDone \in BOOLEAN /\ ~w.atFork /\ PastBlocks \in Nat
  BY RetargetAssumption DEF Reading
<1> HIDE DEF T, v, k
<1>3. /\ WalkShape(v) /\ v.count = w.count + 1 /\ v.oldest = k
      /\ v.lastInRow = (IF w.lastInRowDone THEN w.lastInRow ELSE w.lastInRow + 1)
      /\ v.lastInRowDone = w.lastInRowDone /\ v.atFork = w.atFork
  <2> DEFINE n == IF w.count = 0 THEN k ELSE w.newest
             e == (w.average * w.count + c[k].target) \div (w.count + 1)
             x == IF w.nInRowDone THEN w.nInRow ELSE w.nInRow + 1
             y == IF w.lastInRowDone THEN w.lastInRow ELSE w.lastInRow + 1
             u == [count |-> w.count + 1, newest |-> n, oldest |-> k, average |-> e,
                   nInRow |-> x, nInRowDone |-> w.nInRowDone, lastInRow |-> y,
                   lastInRowDone |-> w.lastInRowDone, atFork |-> w.atFork]
  <2>1. v = [w EXCEPT !.count = w.count + 1, !.newest = n, !.oldest = k, !.average = e,
                      !.nInRow = x, !.lastInRow = y]
    BY <1>1, <1>2 DEF WalkShape
  <2> HIDE DEF n, e, x
  <2>2. v = u
    BY <1>2, <2>1 DEF WalkShape
  <2> QED
    BY <2>2 DEF WalkShape
<1>4. \A i : i \in T <=> i \in 2..L /\ c[i].algo = a
  BY DEF T, Own
<1>5. k \in 2..L /\ k \in T /\ b \in Int /\ k = b - 1
  BY <1>4 DEF k
<1>6. v.count \in 0..PastBlocks /\ v.count > 0 /\ ~v.atFork /\ v.lastInRowDone \in BOOLEAN
  BY <1>2, <1>3
<1>7. CASE w.count = 0
  <2>1. w.lastInRow = 0 /\ ~w.lastInRowDone /\ \A i \in T : i < b
    BY <1>7 DEF Reading, T
  <2>2. \A i \in T : i <= k
    BY <1>4, <1>5, <2>1
  <2>3. ~v.lastInRowDone /\ v.lastInRow = k - k + 1 /\ k..k \subseteq T /\ v.oldest = k
    <3>1. k..k = {k}
      BY <1>5
    <3> QED
      BY <1>3, <1>5, <2>1, <3>1
  <2>4. k <= k
    BY <1>5
  <2>5. RowRead(T, v, k)
    BY <1>5, <2>2, <2>3, <2>4, Zenon DEF RowRead
  <2>6. Reading(T, v, k)
    BY <1>3, <1>6, <2>5 DEF Reading
  <2> QED
    BY <2>6 DEF T, v, k
<1>8. CASE w.count > 0
  <2>1. RowRead(T, w, b)
    BY <1>8 DEF Reading, T
  <2>2. PICK M \in T :
          /\ \A i \in T : i <= M
          /\ w.oldest \in T /\ b <= w.oldest /\ w.oldest <= M
          /\ w.lastInRowDone => RowOf(T, M, w.lastInRow)
          /\ ~w.lastInRowDone => /\ w.oldest..M \subseteq T
                                 /\ w.lastInRow = M - w.oldest + 1
                                 /\ w.count < PastBlocks => w.oldest = b
    BY <2>1, Zenon DEF RowRead
  <2>3. M \in 2..L /\ w.oldest \in 2..L
    BY <1>4, <2>2
  <2>4. k <= v.oldest /\ v.oldest <= M /\ v.oldest \in T /\ v.oldest = k
    BY <1>3, <1>5, <2>2, <2>3
  <2>5. v.lastInRowDone => RowOf(T, M, v.lastInRow)
    BY <1>3, <2>2
  <2>6. ~v.lastInRowDone => v.oldest..M \subseteq T /\ v.lastInRow = M - v.oldest + 1
    <3> SUFFICES ASSUME ~w.lastInRowDone PROVE k..M \subseteq T /\ v.lastInRow = M - k + 1
      BY <1>3, <2>4
    <3>1. w.oldest = b /\ b..M \subseteq T /\ w.lastInRow = M - b + 1
      BY <1>2, <2>2
    <3>2. v.lastInRow = M - k + 1
      BY <1>3, <1>5, <2>3, <3>1
    <3>3. \A i \in k..M : i = k \/ i \in b..M
      BY <1>5, <2>3
    <3> QED
      BY <1>5, <3>1, <3>2, <3>3
  <2>7. RowRead(T, v, k)
    <3>1. \A i \in T : i <= M
      BY <2>2
    <3> QED
      BY <2>4, <2>5, <2>6, <3>1, Zenon DEF RowRead
  <2>8. Reading(T, v, k)
    BY <1>3, <1>6, <2>7 DEF Reading
  <2> QED
    BY <2>8 DEF T, v, k
<1> QED
  BY <1>2, <1>7, <1>8

\* Every step of the walk keeps Reading.
LEMMA ReadingSteps ==
  ASSUME NEW c, NEW a, NEW L \in Nat, NEW b \in 3..(L + 1), NEW w, Reading(Own(c, a, L), w, b)
  PROVE  Reading(Own(c, a, L), ReadBlock(c, a, w, b - 1), b - 1)
<1>1. CASE w.count = PastBlocks
  <2> DEFINE T == Own(c, a, L)
  <2>1. ReadBlock(c, a, w, b - 1) = w
    BY <1>1, Zenon DEF ReadBlock
  <2>2. PastBlocks > 1 /\ PastBlocks \in Nat
    BY RetargetAssumption
  <2>3. \A i \in T : i \in 2..L
    BY DEF Own
  <2> HIDE DEF T
  <2>4. w.count > 0
    BY <1>1, <2>2
  <2>5. RowRead(T, w, b)
    BY <2>4 DEF Reading, T
  <2>6. PICK M \in T :
          /\ \A i \in T : i <= M
          /\ w.oldest \in T /\ b <= w.oldest /\ w.oldest <= M
          /\ w.lastInRowDone => RowOf(T, M, w.lastInRow)
          /\ ~w.lastInRowDone => /\ w.oldest..M \subseteq T
                                 /\ w.lastInRow = M - w.oldest + 1
                                 /\ w.count < PastBlocks => w.oldest = b
    BY <2>5, Zenon DEF RowRead
  <2>7. b - 1 <= w.oldest
    BY <2>3, <2>6
  <2>8. w.count < PastBlocks => w.oldest = b - 1
    BY <1>1, <2>2
  <2>9. RowRead(T, w, b - 1)
    BY <2>6, <2>7, <2>8, Zenon DEF RowRead
  <2>10. Reading(T, w, b - 1)
    <3>1. ~(w.count = 0)
      BY <1>1, <2>2
    <3>2. Reading(T, w, b)
      BY DEF T
    <3> QED
      BY <2>9, <3>1, <3>2, Zenon DEF Reading
  <2> QED
    BY <2>1, <2>10 DEF T
<1>2. CASE w.count # PastBlocks /\ c[b - 1].algo # a
  BY <1>2, ReadOther
<1>3. CASE w.count # PastBlocks /\ c[b - 1].algo = a
  BY <1>3, ReadOwn
<1> QED
  BY <1>1, <1>2, <1>3

\* The walk has read all places after the fork, or as many as it wants.
LEMMA WalkRead ==
  ASSUME NEW c, NEW a, NEW L \in Nat \ {0}, Len(c) = L
  PROVE  Reading(Own(c, a, L), Walk(c, a), 2)
<1> DEFINE T == Own(c, a, L)
<1>1. PICK w : /\ w[0] = WalkStart
               /\ \A n \in 1..(L - 1) : w[n] = ReadBlock(c, a, w[n - 1], L + 1 - n)
               /\ Walk(c, a) = w[L - 1]
  BY WalkIs
<1> DEFINE B == {n \in 0..(L - 1) : ~Reading(T, w[n], L + 1 - n)}
<1> HIDE DEF T
<1>2. ASSUME B # {} PROVE FALSE
  <2>1. PICK m \in B : \A x \in B : ~(x < m)
    <3>1. B \subseteq Nat
      OBVIOUS
    <3> HIDE DEF B
    <3> QED
      BY <1>2, <3>1, LeastOf
  <2>2. CASE m = 0
    <3>1. Reading(T, w[0], L + 1)
      BY <1>1, ReadingStarts DEF T
    <3>2. L + 1 - 0 = L + 1
      OBVIOUS
    <3> QED
      BY <2>1, <2>2, <3>1, <3>2
  <2>3. CASE m # 0
    <3> DEFINE b == L + 1 - (m - 1)
    <3>1. m \in 1..(L - 1) /\ m - 1 \in 0..(L - 1) /\ m - 1 < m /\ b \in 3..(L + 1) /\ b - 1 = L + 1 - m
      BY <2>1, <2>3
    <3>2. Reading(T, w[m - 1], b)
      BY <2>1, <3>1
    <3> HIDE DEF b
    <3>3. w[m] = ReadBlock(c, a, w[m - 1], b - 1)
      BY <1>1, <3>1
    <3>4. Reading(T, w[m], b - 1)
      BY <3>1, <3>2, <3>3, ReadingSteps DEF T
    <3> QED
      BY <2>1, <3>1, <3>4
  <2> QED
    BY <2>2, <2>3
<1>3. Reading(T, w[L - 1], 2)
  <2>1. L - 1 \in 0..(L - 1) /\ L + 1 - (L - 1) = 2
    OBVIOUS
  <2>2. L - 1 \notin B
    BY <1>2
  <2> QED
    BY <2>1, <2>2
<1> QED
  BY <1>1, <1>3 DEF T

\* Past counts the last row of the algorithm to its end.
LEMMA LastRowIs ==
  ASSUME NEW c, NEW a, NEW L \in Nat \ {0}, Len(c) = L
  PROVE  LET T == Own(c, a, L)
             n == Past(c, a).lastInRow
         IN /\ T = {} => n = 0
            /\ T # {} => \E M \in T : (\A i \in T : i <= M) /\ RowOf(T, M, n)
<1> DEFINE T == Own(c, a, L)
           w == Walk(c, a)
           p == AtFork(w)
           n == Past(c, a).lastInRow
           r == PastInRow(c, a, p)
<1>1. n = IF p.lastInRowDone THEN p.lastInRow ELSE p.lastInRow + r
  BY DEF Past, PastOf, Summary
<1>2. r = IF ((p.nInRow > 0 /\ ~p.nInRowDone) \/ (p.lastInRow > 0 /\ ~p.lastInRowDone)) /\ ~p.atFork
          THEN RowBefore(c, a, p.oldest - 1) ELSE 0
  BY Zenon DEF PastInRow
<1>3. Reading(T, w, 2)
  BY WalkRead
<1>4. PastBlocks \in Nat /\ PastBlocks > 1
  BY RetargetAssumption
<1>5. /\ w.count \in 0..PastBlocks /\ w.lastInRowDone \in BOOLEAN /\ ~w.atFork /\ WalkShape(w)
      /\ w.count = 0 => w.lastInRow = 0 /\ ~w.lastInRowDone /\ \A i \in T : i < 2
      /\ w.count > 0 => RowRead(T, w, 2)
  BY <1>3, Zenon DEF Reading
<1>6. \A i : i \in T <=> i \in 2..L /\ c[i].algo = a
  BY DEF Own
<1>7. CASE w.count = PastBlocks
  <2>1. p = w
    BY <1>7 DEF AtFork
  <2> HIDE DEF T, w, p, n, r
  <2>2. PICK M \in T :
          /\ \A i \in T : i <= M
          /\ w.oldest \in T /\ 2 <= w.oldest /\ w.oldest <= M
          /\ w.lastInRowDone => RowOf(T, M, w.lastInRow)
          /\ ~w.lastInRowDone => /\ w.oldest..M \subseteq T
                                 /\ w.lastInRow = M - w.oldest + 1
    BY <1>4, <1>5, <1>7 DEF RowRead
  <2>3. M \in 2..L /\ w.oldest \in 2..L
    BY <1>6, <2>2
  <2>4. CASE w.lastInRowDone
    BY <1>1, <2>1, <2>2, <2>4 DEF T, n
  <2>5. CASE ~w.lastInRowDone
    <3> DEFINE k == w.oldest - 1
               S == {j \in 1..k : j = 1 \/ c[j].algo # a}
               m == Max(S)
    <3>1. w.oldest..M \subseteq T /\ w.lastInRow = M - w.oldest + 1 /\ w.lastInRow > 0
      BY <2>2, <2>3, <2>5
    <3>2. r = k - m
      BY <1>2, <1>5, <2>1, <2>5, <3>1 DEF RowBefore
    <3>3. m \in S /\ \A j \in S : j <= m
      <4>1. k \in Nat /\ S \subseteq 0..k /\ 1 \in S
        BY <2>3
      <4> HIDE DEF k, S
      <4> QED
        BY <4>1, MaxIs
    <3>4. m \in 1..k /\ (m = 1 \/ c[m].algo # a) /\ \A j \in (m + 1)..k : c[j].algo = a
      <4>1. m \in 1..k /\ (m = 1 \/ c[m].algo # a)
        BY <3>3
      <4> HIDE DEF m
      <4>2. ASSUME NEW j \in (m + 1)..k PROVE c[j].algo = a
        <5>1. j \in 1..k /\ ~(j <= m)
          BY <2>3, <4>1
        <5>2. j \notin S
          BY <3>3, <5>1
        <5> QED
          BY <5>1, <5>2
      <4> QED
        BY <4>1, <4>2
    <3> HIDE DEF S, m
    <3>5. n = M - m
      BY <1>1, <2>1, <2>3, <2>5, <3>1, <3>2, <3>4
    <3>6. n \in Nat \ {0} /\ M - n + 1 = m + 1 /\ M - n = m
      BY <2>2, <2>3, <3>4, <3>5
    <3>7. m \notin T
      BY <1>6, <3>4
    <3>8. (m + 1)..M \subseteq T
      <4>1. ASSUME NEW j \in (m + 1)..M PROVE j \in T
        <5>1. CASE j \in w.oldest..M
          BY <3>1, <5>1
        <5>2. CASE j \notin w.oldest..M
          <6>1. j \in (m + 1)..k /\ j \in 2..L
            BY <2>2, <2>3, <3>4, <5>2
          <6> QED
            BY <1>6, <3>4, <6>1
        <5> QED
          BY <5>1, <5>2
      <4> QED
        BY <4>1
    <3>9. RowOf(T, M, n)
      BY <3>6, <3>7, <3>8 DEF RowOf
    <3> QED
      BY <2>2, <3>9 DEF T, n
  <2> QED
    BY <2>4, <2>5
<1>8. CASE w.count # PastBlocks
  <2>1. p.atFork /\ p.lastInRow = w.lastInRow /\ p.lastInRowDone = w.lastInRowDone
    <3> HIDE DEF w
    <3> DEFINE e == EndRow(w)
    <3>1. e = [w EXCEPT !.nInRow = IF @ < InRow THEN 0 ELSE @, !.nInRowDone = @ \/ w.nInRow >= InRow]
      BY Zenon DEF EndRow
    <3>2. p = [e EXCEPT !.count = @ + 1, !.atFork = TRUE]
      BY <1>8, Zenon DEF AtFork
    <3> DEFINE x == IF w.nInRow < InRow THEN 0 ELSE w.nInRow
               y == w.nInRowDone \/ w.nInRow >= InRow
               u == [count |-> w.count, newest |-> w.newest, oldest |-> w.oldest,
                     average |-> w.average, nInRow |-> x, nInRowDone |-> y,
                     lastInRow |-> w.lastInRow, lastInRowDone |-> w.lastInRowDone,
                     atFork |-> w.atFork]
    <3> HIDE DEF e
    <3>3. e = [w EXCEPT !.nInRow = x, !.nInRowDone = y]
      BY <1>5, <3>1 DEF WalkShape
    <3> HIDE DEF x, y
    <3>4. e = u
      BY <1>5, <3>3 DEF WalkShape
    <3> HIDE DEF p
    <3> QED
      BY <3>2, <3>4
  <2> HIDE DEF T, w, p, n, r
  <2>2. r = 0
    BY <1>2, <2>1
  <2>3. CASE w.count = 0
    <3>1. T = {} /\ n = 0
      <4>1. w.lastInRow = 0 /\ ~w.lastInRowDone /\ \A i \in T : i < 2
        BY <1>5, <2>3
      <4> QED
        BY <1>1, <1>6, <2>1, <2>2, <4>1
    <3> QED
      BY <3>1 DEF T, n
  <2>4. CASE w.count > 0
    <3>1. PICK M \in T :
            /\ \A i \in T : i <= M
            /\ w.oldest \in T /\ 2 <= w.oldest /\ w.oldest <= M
            /\ w.lastInRowDone => RowOf(T, M, w.lastInRow)
            /\ ~w.lastInRowDone => /\ w.oldest..M \subseteq T
                                   /\ w.lastInRow = M - w.oldest + 1
                                   /\ w.oldest = 2
      BY <1>4, <1>5, <1>8, <2>4 DEF RowRead
    <3>2. CASE w.lastInRowDone
      BY <1>1, <2>1, <3>1, <3>2 DEF T, n
    <3>3. CASE ~w.lastInRowDone
      <4>1. 2..M \subseteq T /\ w.lastInRow = M - 2 + 1 /\ M \in 2..L
        BY <1>6, <3>1, <3>3
      <4>2. n = M - 1
        BY <1>1, <2>1, <2>2, <3>3, <4>1
      <4>3. n \in Nat \ {0} /\ M - n + 1 = 2 /\ M - n = 1
        BY <4>1, <4>2
      <4>4. 1 \notin T
        BY <1>6
      <4>5. RowOf(T, M, n)
        BY <4>1, <4>3, <4>4 DEF RowOf
      <4> QED
        BY <3>1, <4>5 DEF T, n
    <3> QED
      BY <3>2, <3>3
  <2> QED
    BY <1>4, <1>5, <2>3, <2>4
<1> QED
  BY <1>7, <1>8

\* "Surge Protector activates if there is a string of 9 blocks in-a-row by the same
\* algorithm": DarkGravityWave does so at every ninth block of the last row, wherever
\* its walk back has stopped.
THEOREM SurgeIsExact == EmissionSpec => []SurgeExact
<1>1. EmissionInv => SurgeExact
  <2> SUFFICES ASSUME EmissionInv PROVE SurgeExact
    OBVIOUS
  <2> DEFINE L == Len(chain)
  <2>1. L \in Nat \ {0}
    BY DEF EmissionInv, ChainOK
  <2>2. ASSUME NEW algo \in Algo
        PROVE  LET own == {i \in 2..L : chain[i].algo = algo}
                   row == IF own = {} THEN 0 ELSE Cardinality({i \in own : i..Max(own) \subseteq own})
               IN Surge(Past(chain, algo)) <=> row # 0 /\ row % InRow = 0
    <3> DEFINE own == {i \in 2..L : chain[i].algo = algo}
               row == IF own = {} THEN 0 ELSE Cardinality({i \in own : i..Max(own) \subseteq own})
               n == Past(chain, algo).lastInRow
    <3>1. own = Own(chain, algo, L) /\ own \subseteq 2..L
      BY DEF Own
    <3> HIDE DEF own, n
    <3>2. own = {} => n = 0
      BY <2>1, <3>1, LastRowIs DEF n
    <3>3. own # {} => \E M \in own : (\A i \in own : i <= M) /\ RowOf(own, M, n)
      BY <2>1, <3>1, LastRowIs DEF n
    <3>4. row = n /\ n \in Nat
      <4>1. CASE own = {}
        BY <3>2, <4>1
      <4>2. CASE own # {}
        <5>1. PICK M \in own : (\A i \in own : i <= M) /\ RowOf(own, M, n)
          BY <3>3, <4>2
        <5>2. Cardinality({i \in own : i..Max(own) \subseteq own}) = n
          BY <2>1, <3>1, <5>1, RowIs
        <5>3. n \in Nat
          BY <5>1 DEF RowOf
        <5> QED
          BY <4>2, <5>2, <5>3
      <4> QED
        BY <4>1, <4>2
    <3> HIDE DEF row
    <3>5. InRow \in Nat /\ InRow > 1
      BY RetargetAssumption
    <3>6. n # 0 /\ n % InRow = 0 => n >= InRow
      BY <3>4, <3>5
    <3>7. Surge(Past(chain, algo)) <=> n >= InRow /\ n % InRow = 0
      BY Zenon DEF Surge, n
    <3>8. Surge(Past(chain, algo)) <=> row # 0 /\ row % InRow = 0
      BY <3>4, <3>5, <3>6, <3>7
    <3> QED
      BY <3>8, Zenon DEF own, row
  <2> QED
    BY <2>2, Zenon DEF SurgeExact
<1> QED
  BY <1>1, EmissionAlways, PTL

=============================================================================
