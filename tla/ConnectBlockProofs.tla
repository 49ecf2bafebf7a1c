------------------------- MODULE ConnectBlockProofs -------------------------
(***************************************************************************)
(* Proofs about the two verdicts ConnectBlock combines: the one on the     *)
(* coins a block spends (Coins) and the one of the script-check queue      *)
(* (CheckQueue).  The two specifications share no variable.                *)
(*                                                                         *)
(* Coins: for every set of transactions, every block made of them and      *)
(* every sequence of connects, disconnects, flushes, shutdowns and crashes. *)
(*                                                                         *)
(* An entry is Good when it has exactly the unspent outputs of its         *)
(* transaction, and a view Shows a set of unspent outputs when all its     *)
(* entries are.  From the bottom up: spending and restoring one output     *)
(* (SpendGood, RestoreGood), all inputs of a transaction (SpendAll,        *)
(* RestoreAll), a transaction (UpdateGood, DisconnectGood) and a block     *)
(* (ConnectGood, DisconnectBlockGood).  Each loop of the code is a recursive *)
(* function; the lemmas on Rounds give its value round by round.           *)
(*                                                                         *)
(* UtxoExact alone is not inductive: DisconnectBlock is right only if the  *)
(* undo data of every block in the chain fits the blocks below it, and a   *)
(* crash goes back to dbBest, whose blocks must have the same property.    *)
(* ChainOK says so of a chain, and IInv of both chains and both layers.    *)
(*                                                                         *)
(* CheckQueue: for every number of workers, every batch size and every     *)
(* number of checks.  WaitResultIsConjunction speaks of the moment when    *)
(* the master has left.  Before that, a check that has been added is in    *)
(* one of three places: in the queue, in the batch of a busy thread, or    *)
(* accounted for in fAllOk.  TodoCounted says that nTodo is the number of  *)
(* checks in the first two, and Verdict that nothing of the conjunction is *)
(* lost on the way.  The sum over the busy threads is the cardinality of a *)
(* set of pairs, one for each check that a thread has yet to account for.  *)
(***************************************************************************)
EXTENDS Coins, CheckQueue, FiniteSetTheorems, SequenceTheorems, WellFoundedInduction,
        NaturalsInduction, TLAPS

-----------------------------------------------------------------------------
(* What an entry, and a view, stands for *)

Outpoint == Tx \X (Nat \ {0})
Coin == [fCoinBase : BOOLEAN, vout : Seq({Spent} \cup Outpoint), nHeight : Nat]
Entry == Coin \cup {Absent}

\* c is the entry of t when L is the set of unspent outputs and t is at height h.
Good(c, t, L, h) ==
  LET v == c.vout
  IN /\ \A n \in 1..Len(v) : v[n] = IF <<t, n>> \in L THEN <<t, n>> ELSE Spent
     /\ \A n \in Nat \ {0} : <<t, n>> \in L => n <= Len(v)
     /\ Len(v) > 0 => /\ <<t, Len(v)>> \in L
                      /\ c.nHeight = h
                      /\ c.fCoinBase <=> t \in CoinbaseTx

\* The undo record of output o, when L is what is left without it.
UndoRecord(o, L, h) ==
  LET last == \A n \in Nat \ {0} : <<o[1], n>> \notin L
  IN [txout |-> o,
      nHeight |-> IF last THEN h ELSE 0,
      fCoinBase |-> last /\ o[1] \in CoinbaseTx]

\* Every entry of the view is the one for the unspent outputs L and the heights H.
Shows(view, L, H) ==
  /\ view \in [Tx -> Entry]
  /\ \A t \in Tx : Good(view[t], t, L, H[t])

-----------------------------------------------------------------------------
(* Sequences and the largest element of a set *)

\* A non-empty set of natural numbers has a least element.
LEMMA LeastNat ==
  ASSUME NEW B, B \subseteq Nat, B # {}
  PROVE  \E m \in B : \A x \in B : ~(x < m)
<1> DEFINE R == {ss \in Nat \X Nat : ss[1] < ss[2]}
<1>1. IsWellFoundedOn(R, Nat)
  BY NatLessThanWellFounded, Zenon DEF OpToRel
<1>2. \E m \in B : \A x \in B : ~(<<x, m>> \in R)
  <2> HIDE DEF R
  <2> QED
    BY <1>1, WFMin, Zenon
<1> QED
  BY <1>2

\* Max of a bounded, non-empty set of natural numbers.
LEMMA MaxNat ==
  ASSUME NEW b \in Nat, NEW S, S \subseteq 0..b, S # {}
  PROVE  Max(S) \in S /\ \A y \in S : Max(S) >= y
<1> DEFINE B == {b - x : x \in S}
<1>1. B \subseteq Nat /\ B # {}
  <2>1. PICK x \in S : TRUE
    OBVIOUS
  <2>2. b - x \in B
    OBVIOUS
  <2>3. \A y \in S : b - y \in Nat
    OBVIOUS
  <2> QED
    BY <2>2, <2>3
<1>2. PICK m \in B : \A x \in B : ~(x < m)
  BY <1>1, LeastNat, Zenon
<1>3. PICK z \in S : m = b - z
  BY <1>2
<1>4. \A y \in S : z >= y
  <2>1. TAKE y \in S
  <2>2. b - y \in B
    OBVIOUS
  <2>3. ~(b - y < m)
    BY <1>2, <2>2
  <2> QED
    BY <1>3, <2>3
<1> QED
  BY <1>4, Zenon DEF Max

\* An outpoint is a pair, and no spent output.
LEMMA OutpointIs ==
  ASSUME NEW o \in Outpoint
  PROVE  /\ o = <<o[1], o[2]>> /\ o[1] \in Tx /\ o[2] \in Nat \ {0}
         /\ o # Spent
BY DEF Outpoint, Spent

\* Cleanup drops spent outputs at the end, and only those.
LEMMA CleanupIs ==
  ASSUME NEW S, NEW v \in Seq(S)
  PROVE  LET c == Cleanup(v)
         IN /\ c \in Seq(S) /\ Len(c) <= Len(v)
            /\ \A n \in 1..Len(c) : c[n] = v[n]
            /\ Len(c) > 0 => v[Len(c)] # Spent
            /\ \A n \in 1..Len(v) : n > Len(c) => v[n] = Spent
<1> DEFINE D == {0} \cup {i \in DOMAIN v : v[i] # Spent}
           k == Max(D)
<1>1. D \subseteq 0..Len(v) /\ D # {} /\ Len(v) \in Nat
  OBVIOUS
<1>2. k \in D /\ \A y \in D : k >= y
  <2> HIDE DEF D
  <2> QED
    BY <1>1, MaxNat
<1>3. k \in 0..Len(v) /\ (k > 0 => v[k] # Spent)
  <2> HIDE DEF k
  <2> QED
    BY <1>1, <1>2
<1>4. \A n \in 1..Len(v) : n > k => v[n] = Spent
  <2> SUFFICES ASSUME NEW n \in 1..Len(v), n > k, v[n] # Spent PROVE FALSE
    OBVIOUS
  <2>1. n \in D
    OBVIOUS
  <2> HIDE DEF k, D
  <2> QED
    BY <1>2, <1>3, <2>1
<1>5. Cleanup(v) = SubSeq(v, 1, k)
  BY DEF Cleanup
<1> HIDE DEF k
<1> QED
  BY <1>3, <1>4, <1>5

-----------------------------------------------------------------------------
(* Entries *)

\* The number of outputs, the inputs, and the kind of a transaction.
LEMMA TxIs ==
  ASSUME NEW t \in Tx
  PROVE  /\ NumOut[t] \in Nat \ {0}
         /\ Ins[t] \in Seq(Outpoint)
         /\ t \in CoinbaseTx => Ins[t] = <<>> /\ CoinbaseHeight[t] \in Nat \ {0}
         /\ t \notin CoinbaseTx => Ins[t] # <<>> /\ IsInjective(Ins[t])
BY CoinsAssumption, Zenon DEF Tx, Outpoint

\* An unspent outpoint is not a spent output.
LEMMA EntryOutputs ==
  ASSUME NEW t \in Tx, NEW c \in Entry, NEW L, NEW h, Good(c, t, L, h)
  PROVE  /\ c.vout \in Seq({Spent} \cup Outpoint) /\ Len(c.vout) \in Nat
         /\ c.fCoinBase \in BOOLEAN
         /\ Len(c.vout) > 0 => c \in Coin
<1>1. CASE c = Absent
  BY <1>1 DEF Absent
<1>2. CASE c \in Coin
  BY <1>2 DEF Coin
<1> QED
  BY <1>1, <1>2 DEF Entry

\* IsAvailable and IsPruned in terms of the unspent outputs.
LEMMA GoodMeans ==
  ASSUME NEW t \in Tx, NEW c \in Entry, NEW L, L \subseteq Outpoint, NEW h, Good(c, t, L, h)
  PROVE  /\ \A n \in Nat \ {0} : IsAvailable(c, n) <=> <<t, n>> \in L
         /\ IsPruned(c) <=> (\A n \in Nat \ {0} : <<t, n>> \notin L)
         /\ IsPruned(c) <=> c.vout = <<>>
<1>1. c.vout \in Seq({Spent} \cup Outpoint) /\ Len(c.vout) \in Nat /\ DOMAIN c.vout = 1..Len(c.vout)
  BY EntryOutputs
<1>2. \A n \in Nat \ {0} : <<t, n>> # Spent
  BY DEF Spent
<1>3. \A n \in Nat \ {0} : IsAvailable(c, n) <=> <<t, n>> \in L
  BY <1>1, <1>2 DEF Good, IsAvailable
<1>4. (\A n \in Nat \ {0} : <<t, n>> \notin L) => Len(c.vout) = 0
  BY <1>1 DEF Good
<1>5. Len(c.vout) = 0 => c.vout = <<>>
  BY <1>1
<1>6. c.vout = <<>> => IsPruned(c)
  BY DEF IsPruned
<1>7. IsPruned(c) => (\A n \in Nat \ {0} : <<t, n>> \notin L)
  BY <1>1, <1>2 DEF Good, IsPruned
<1> QED
  BY <1>3, <1>4, <1>5, <1>6, <1>7

\* The entry of t does not depend on the outputs of other transactions.
LEMMA GoodLocal ==
  ASSUME NEW t \in Tx, NEW c, NEW L, NEW M, NEW h, Good(c, t, L, h),
         \A n \in Nat \ {0} : <<t, n>> \in L <=> <<t, n>> \in M,
         Len(c.vout) \in Nat
  PROVE  Good(c, t, M, h)
BY DEF Good

\* The entry of a transaction all of whose outputs are spent or not yet there.
LEMMA GoodEmpty ==
  ASSUME NEW t \in Tx, NEW c, c.vout = <<>>, NEW L, NEW h,
         \A n \in Nat \ {0} : <<t, n>> \notin L
  PROVE  Good(c, t, L, h)
BY DEF Good

\* The entry of t is determined by what is unspent, unless nothing is.
LEMMA GoodUnique ==
  ASSUME NEW t \in Tx, NEW c \in Entry, NEW d \in Entry, NEW L, L \subseteq Outpoint, NEW h,
         Good(c, t, L, h), Good(d, t, L, h)
  PROVE  SameCoins(c, d)
<1>1. CASE \A n \in Nat \ {0} : <<t, n>> \notin L
  BY <1>1, GoodMeans DEF SameCoins
<1>2. CASE \E n \in Nat \ {0} : <<t, n>> \in L
  <2>1. /\ c.vout \in Seq({Spent} \cup Outpoint) /\ Len(c.vout) \in Nat /\ Len(c.vout) > 0
        /\ d.vout \in Seq({Spent} \cup Outpoint) /\ Len(d.vout) \in Nat /\ Len(d.vout) > 0
    <3>1. PICK n \in Nat \ {0} : <<t, n>> \in L
      BY <1>2
    <3>2. n <= Len(c.vout) /\ n <= Len(d.vout)
      BY <3>1 DEF Good
    <3> QED
      BY <3>2, EntryOutputs
  <2>2. c \in Coin /\ d \in Coin
    BY <2>1, EntryOutputs
  <2>3. Len(c.vout) = Len(d.vout)
    <3>1. <<t, Len(c.vout)>> \in L /\ <<t, Len(d.vout)>> \in L
      BY <2>1 DEF Good
    <3>2. Len(c.vout) <= Len(d.vout) /\ Len(d.vout) <= Len(c.vout)
      BY <2>1, <3>1 DEF Good
    <3> QED
      BY <2>1, <3>2
  <2>4. c.vout = d.vout
    <3>1. \A n \in 1..Len(c.vout) : c.vout[n] = d.vout[n]
      BY <2>3 DEF Good
    <3> QED
      BY <2>1, <2>3, <3>1, SeqEqual
  <2>5. c.nHeight = d.nHeight /\ (c.fCoinBase <=> d.fCoinBase)
    BY <2>1 DEF Good
  <2>6. c = d
    <3>1. c = [fCoinBase |-> c.fCoinBase, vout |-> c.vout, nHeight |-> c.nHeight]
          /\ d = [fCoinBase |-> d.fCoinBase, vout |-> d.vout, nHeight |-> d.nHeight]
          /\ c.fCoinBase \in BOOLEAN /\ d.fCoinBase \in BOOLEAN
      BY <2>2 DEF Coin
    <3>2. c.fCoinBase = d.fCoinBase
      BY <2>5, <3>1, Zenon
    <3> QED
      BY <2>4, <2>5, <3>1, <3>2, Zenon
  <2> QED
    BY <2>6 DEF SameCoins
<1> QED
  BY <1>1, <1>2

\* The spendable outputs of t.
Outputs(t) == {<<t, n>> : n \in 1..NumOut[t]} \ Unspendable

\* n is one of the outputs of t.
LEMMA OutputsOf ==
  ASSUME NEW t \in Tx
  PROVE  /\ \A n : <<t, n>> \in Outputs(t) <=> n \in 1..NumOut[t] /\ <<t, n>> \notin Unspendable
         /\ Outputs(t) \subseteq Outpoint
         /\ \A o \in Outputs(t) : o[1] = t
<1>1. NumOut[t] \in Nat \ {0}
  BY TxIs
<1>2. \A n \in 1..NumOut[t] : <<t, n>> \in Outpoint
  BY <1>1 DEF Outpoint
<1> QED
  BY <1>2 DEF Outputs

\* The coins a transaction adds.
LEMMA CCoinsGood ==
  ASSUME NEW t \in Tx, NEW h \in Nat, NEW L,
         \A n \in Nat \ {0} : <<t, n>> \in L <=> <<t, n>> \in Outputs(t)
  PROVE  CCoins(t, h) \in Coin /\ Good(CCoins(t, h), t, L, h)
<1> DEFINE v == [n \in 1..NumOut[t] |-> IF <<t, n>> \in Unspendable THEN Spent ELSE <<t, n>>]
           c == Cleanup(v)
           S == {Spent} \cup Outpoint
<1>1. NumOut[t] \in Nat \ {0}
  BY TxIs
<1>2. v \in Seq(S) /\ Len(v) = NumOut[t]
  <2>1. \A n \in 1..NumOut[t] : <<t, n>> \in Outpoint
    BY <1>1 DEF Outpoint
  <2>2. v \in [1..NumOut[t] -> S]
    BY <2>1
  <2>3. DOMAIN v = 1..NumOut[t]
    OBVIOUS
  <2> HIDE DEF S, v
  <2> QED
    BY <1>1, <2>2, <2>3
<1>3. \A n \in 1..NumOut[t] : v[n] = IF <<t, n>> \in L THEN <<t, n>> ELSE Spent
  BY <1>1, OutputsOf
<1>4. \A n \in Nat \ {0} : <<t, n>> \in L => n <= NumOut[t]
  BY <1>1, OutputsOf
<1> HIDE DEF v, S
<1>5. /\ c \in Seq(S) /\ Len(c) <= Len(v)
      /\ \A n \in 1..Len(c) : c[n] = v[n]
      /\ Len(c) > 0 => v[Len(c)] # Spent
      /\ \A n \in 1..Len(v) : n > Len(c) => v[n] = Spent
  BY <1>2, CleanupIs
<1>6. CCoins(t, h) = [fCoinBase |-> t \in CoinbaseTx, vout |-> c, nHeight |-> h]
  BY DEF CCoins, v
<1> HIDE DEF c
<1>7. CCoins(t, h) \in Coin
  BY <1>5, <1>6 DEF Coin, S
<1>8. Len(c) \in Nat
  BY <1>5
<1>9. \A n \in 1..Len(c) : c[n] = IF <<t, n>> \in L THEN <<t, n>> ELSE Spent
  BY <1>1, <1>2, <1>3, <1>5, <1>8
<1>10. \A n \in Nat \ {0} : <<t, n>> \in L => n <= Len(c)
  <2> SUFFICES ASSUME NEW n \in Nat \ {0}, <<t, n>> \in L, n > Len(c) PROVE FALSE
    BY <1>8
  <2>1. n \in 1..NumOut[t] /\ v[n] = <<t, n>>
    BY <1>1, <1>3, <1>4
  <2>2. v[n] = Spent
    BY <1>2, <1>5, <2>1
  <2>3. <<t, n>> # Spent
    BY DEF Spent
  <2> QED
    BY <2>1, <2>2, <2>3
<1>11. Len(c) > 0 => <<t, Len(c)>> \in L
  BY <1>1, <1>2, <1>3, <1>5, <1>8
<1>12. CCoins(t, h).vout = c /\ CCoins(t, h).nHeight = h
       /\ (CCoins(t, h).fCoinBase <=> t \in CoinbaseTx)
  <2>1. CCoins(t, h).vout = c /\ CCoins(t, h).nHeight = h
    BY <1>6
  <2>2. CCoins(t, h).fCoinBase = (t \in CoinbaseTx)
    BY <1>6
  <2> QED
    BY <2>1, <2>2
<1> HIDE DEF c
<1> QED
  BY <1>7, <1>9, <1>10, <1>11, <1>12 DEF Good

\* Spending an output of a good entry.
LEMMA SpendGood ==
  ASSUME NEW t \in Tx, NEW n \in Nat \ {0}, NEW c \in Entry, NEW L, L \subseteq Outpoint,
         NEW h \in Nat, Good(c, t, L, h), <<t, n>> \in L
  PROVE  /\ Spend(c, n).coins \in Coin
         /\ Good(Spend(c, n).coins, t, L \ {<<t, n>>}, h)
         /\ Spend(c, n).undo = UndoRecord(<<t, n>>, L \ {<<t, n>>}, h)
<1> DEFINE S == {Spent} \cup Outpoint
           v == [c.vout EXCEPT ![n] = Spent]
           rest == Cleanup(v)
           M == L \ {<<t, n>>}
<1>1. /\ c.vout \in Seq(S) /\ Len(c.vout) \in Nat /\ c \in Coin /\ n <= Len(c.vout)
      /\ c.nHeight = h /\ (c.fCoinBase <=> t \in CoinbaseTx)
      /\ \A k \in 1..Len(c.vout) : c.vout[k] = IF <<t, k>> \in L THEN <<t, k>> ELSE Spent
      /\ \A k \in Nat \ {0} : <<t, k>> \in L => k <= Len(c.vout)
  <2>1. c.vout \in Seq(S) /\ Len(c.vout) \in Nat /\ n <= Len(c.vout)
    BY EntryOutputs DEF Good
  <2>2. Len(c.vout) > 0
    BY <2>1
  <2>3. c \in Coin
    BY <2>2, EntryOutputs
  <2>4. c.nHeight = h /\ (c.fCoinBase <=> t \in CoinbaseTx)
    BY <2>2 DEF Good
  <2>5. /\ \A k \in 1..Len(c.vout) : c.vout[k] = IF <<t, k>> \in L THEN <<t, k>> ELSE Spent
        /\ \A k \in Nat \ {0} : <<t, k>> \in L => k <= Len(c.vout)
    BY DEF Good
  <2> HIDE DEF S
  <2> QED
    BY <2>1, <2>3, <2>4, <2>5
<1>2. v \in Seq(S) /\ Len(v) = Len(c.vout)
      /\ \A k \in 1..Len(c.vout) : v[k] = IF k = n THEN Spent ELSE c.vout[k]
  <2> HIDE DEF S
  <2>1. Spent \in S
    BY DEF S
  <2> QED
    BY <1>1, <2>1
<1> HIDE DEF v, S
<1>0. \A k \in Nat \ {0} : <<t, k>> \in M <=> <<t, k>> \in L /\ k # n
  OBVIOUS
<1>3. \A k \in 1..Len(v) : v[k] = IF <<t, k>> \in M THEN <<t, k>> ELSE Spent
  <2> TAKE k \in 1..Len(v)
  <2>1. k \in Nat \ {0} /\ k \in 1..Len(c.vout)
    BY <1>1, <1>2
  <2> HIDE DEF M
  <2> QED
    BY <1>0, <1>1, <1>2, <2>1
<1>4. /\ rest \in Seq(S) /\ Len(rest) <= Len(v)
      /\ \A k \in 1..Len(rest) : rest[k] = v[k]
      /\ Len(rest) > 0 => v[Len(rest)] # Spent
      /\ \A k \in 1..Len(v) : k > Len(rest) => v[k] = Spent
  BY <1>2, CleanupIs
<1>5. /\ Spend(c, n).coins = [c EXCEPT !.vout = rest]
      /\ Spend(c, n).undo = [txout |-> c.vout[n],
                             nHeight |-> IF rest = <<>> THEN c.nHeight ELSE 0,
                             fCoinBase |-> rest = <<>> /\ c.fCoinBase]
  BY DEF Spend, v
<1> HIDE DEF rest
<1>6. Len(rest) \in Nat
  BY <1>4
<1>7. \A k \in 1..Len(rest) : rest[k] = IF <<t, k>> \in M THEN <<t, k>> ELSE Spent
  BY <1>1, <1>2, <1>3, <1>4, <1>6
<1>8. \A k \in Nat \ {0} : <<t, k>> \in M => k <= Len(rest)
  <2> SUFFICES ASSUME NEW k \in Nat \ {0}, <<t, k>> \in M, k > Len(rest) PROVE FALSE
    BY <1>6
  <2>1. k \in 1..Len(v)
    BY <1>0, <1>1, <1>2
  <2>2. v[k] = <<t, k>>
    BY <1>3, <2>1
  <2>3. v[k] = Spent
    BY <1>4, <2>1
  <2>4. <<t, k>> # Spent
    BY DEF Spent
  <2> QED
    BY <2>2, <2>3, <2>4
<1>9. Len(rest) > 0 => <<t, Len(rest)>> \in M
  BY <1>1, <1>2, <1>3, <1>4, <1>6
<1>10. Spend(c, n).coins \in Coin
       /\ Spend(c, n).coins.vout = rest /\ Spend(c, n).coins.nHeight = c.nHeight
       /\ Spend(c, n).coins.fCoinBase = c.fCoinBase
  BY <1>1, <1>4, <1>5 DEF Coin, S
<1>11. Good(Spend(c, n).coins, t, M, h)
  <2> HIDE DEF M
  <2> QED
    BY <1>1, <1>7, <1>8, <1>9, <1>10 DEF Good
<1>12. rest = <<>> <=> (\A k \in Nat \ {0} : <<t, k>> \notin M)
  BY <1>4, <1>6, <1>8, <1>9
<1>13. c.vout[n] = <<t, n>>
  BY <1>1
<1>14. Spend(c, n).undo = UndoRecord(<<t, n>>, M, h)
  <2> DEFINE last == \A k \in Nat \ {0} : <<t, k>> \notin M
  <2>1. <<t, n>>[1] = t
    OBVIOUS
  <2>2. UndoRecord(<<t, n>>, M, h) = [txout |-> <<t, n>>, nHeight |-> IF last THEN h ELSE 0,
                                      fCoinBase |-> last /\ t \in CoinbaseTx]
    BY <2>1 DEF UndoRecord
  <2>3. (rest = <<>>) = last
    BY <1>12
  <2>4. (rest = <<>> /\ c.fCoinBase) = (last /\ t \in CoinbaseTx)
    BY <1>1, <2>3
  <2> HIDE DEF last, M
  <2> QED
    BY <1>1, <1>5, <1>13, <2>2, <2>3, <2>4, Zenon
<1> QED
  BY <1>10, <1>11, <1>14

\* The larger of two natural numbers.
LEMMA MaxOf ==
  ASSUME NEW a \in Nat, NEW b \in Nat
  PROVE  Max({a, b}) \in Nat /\ Max({a, b}) \in {a, b} /\ Max({a, b}) >= a /\ Max({a, b}) >= b
<1>1. {a, b} \subseteq 0..(a + b) /\ {a, b} # {}
  OBVIOUS
<1>2. Max({a, b}) \in {a, b} /\ \A y \in {a, b} : Max({a, b}) >= y
  BY <1>1, MaxNat
<1> QED
  BY <1>2

\* Restoring an output from the undo record its spending left.
LEMMA RestoreGood ==
  ASSUME NEW t \in Tx, NEW n \in Nat \ {0}, NEW c \in Coin, NEW L, L \subseteq Outpoint,
         NEW h \in Nat \ {0}, Good(c, t, L, h), <<t, n>> \notin L
  PROVE  LET r == Restore(c, n, UndoRecord(<<t, n>>, L, h))
         IN /\ r.coins \in Coin
            /\ Good(r.coins, t, L \cup {<<t, n>>}, h)
            /\ r.clean
<1> DEFINE S == {Spent} \cup Outpoint
           u == UndoRecord(<<t, n>>, L, h)
           none == \A k \in Nat \ {0} : <<t, k>> \notin L
           last == u.nHeight # 0
           base == IF last THEN [fCoinBase |-> u.fCoinBase, vout |-> <<>>, nHeight |-> u.nHeight]
                   ELSE c
           b == base.vout
           size == Max({Len(b), n})
           v == [k \in 1..size |-> IF k = n THEN u.txout
                                   ELSE IF k \in DOMAIN b THEN b[k] ELSE Spent]
           r == Restore(c, n, u)
           M == L \cup {<<t, n>>}
<1>1. u.txout = <<t, n>> /\ u.nHeight = (IF none THEN h ELSE 0)
      /\ u.fCoinBase \in BOOLEAN /\ (none => (u.fCoinBase <=> t \in CoinbaseTx))
  <2>1. <<t, n>>[1] = t
    OBVIOUS
  <2>2. u = [txout |-> <<t, n>>, nHeight |-> IF none THEN h ELSE 0,
             fCoinBase |-> none /\ t \in CoinbaseTx]
    BY <2>1 DEF UndoRecord
  <2> HIDE DEF none, u
  <2> QED
    BY <2>2
<1> HIDE DEF u
<1>2. last <=> none
  BY <1>1
<1>3. /\ c.vout \in Seq(S) /\ Len(c.vout) \in Nat /\ c.nHeight \in Nat /\ c.fCoinBase \in BOOLEAN
      /\ \A k \in 1..Len(c.vout) : c.vout[k] = IF <<t, k>> \in L THEN <<t, k>> ELSE Spent
      /\ \A k \in Nat \ {0} : <<t, k>> \in L => k <= Len(c.vout)
      /\ Len(c.vout) > 0 => /\ <<t, Len(c.vout)>> \in L
                            /\ c.nHeight = h
                            /\ c.fCoinBase <=> t \in CoinbaseTx
  <2>1. c.vout \in Seq(S) /\ Len(c.vout) \in Nat /\ c.nHeight \in Nat /\ c.fCoinBase \in BOOLEAN
    BY DEF Coin
  <2> HIDE DEF S
  <2> QED
    BY <2>1 DEF Good
<1>4. IsPruned(c) <=> none
  BY GoodMeans DEF Entry
\* base is the coins without the output, with the right height and flag.
<1>5. /\ base \in Coin /\ b \in Seq(S) /\ Len(b) \in Nat
      /\ base.nHeight = h /\ (base.fCoinBase <=> t \in CoinbaseTx)
      /\ \A k \in 1..Len(b) : b[k] = IF <<t, k>> \in L THEN <<t, k>> ELSE Spent
      /\ \A k \in Nat \ {0} : <<t, k>> \in L => k <= Len(b)
      /\ Len(b) > 0 => <<t, Len(b)>> \in L
  <2>1. CASE none
    <3>1. base = [fCoinBase |-> u.fCoinBase, vout |-> <<>>, nHeight |-> u.nHeight]
      BY <1>2, <2>1
    <3>2. b = <<>> /\ base.nHeight = h /\ base.fCoinBase = u.fCoinBase
      BY <1>1, <2>1, <3>1
    <3>3. base \in Coin
      BY <1>1, <2>1, <3>1 DEF Coin
    <3> HIDE DEF base
    <3> QED
      BY <1>1, <2>1, <3>2, <3>3
  <2>2. CASE ~none
    <3>1. base = c
      BY <1>2, <2>2
    <3>2. Len(c.vout) > 0
      BY <1>3, <2>2
    <3> HIDE DEF base, S
    <3> QED
      BY <1>3, <3>1, <3>2
  <2> QED
    BY <2>1, <2>2
<1>6. r.coins = [base EXCEPT !.vout = v]
      /\ r.clean = ((last <=> IsPruned(c)) /\ ~IsAvailable(base, n))
  BY DEF Restore
<1> HIDE DEF base, last, r
<1>7. size \in Nat /\ size \in {Len(b), n} /\ size >= Len(b) /\ size >= n
  BY <1>5, MaxOf
<1> HIDE DEF size
<1>8. v \in Seq(S) /\ Len(v) = size
  <2>1. \A k \in 1..size : v[k] \in S
    <3> TAKE k \in 1..size
    <3>1. <<t, n>> \in S
      BY DEF Outpoint
    <3>2. Spent \in S
      OBVIOUS
    <3>3. k \in DOMAIN b => b[k] \in S
      BY <1>5
    <3> HIDE DEF S, b
    <3> QED
      BY <1>1, <3>1, <3>2, <3>3
  <2>2. v \in [1..size -> S]
    <3> HIDE DEF S, b
    <3> QED
      BY <2>1
  <2>3. DOMAIN v = 1..size
    OBVIOUS
  <2> HIDE DEF v, S
  <2> QED
    BY <1>7, <2>2, <2>3
<1>9. \A k \in Nat \ {0} : <<t, k>> \in M <=> <<t, k>> \in L \/ k = n
  OBVIOUS
<1>10. \A k \in 1..size : v[k] = IF <<t, k>> \in M THEN <<t, k>> ELSE Spent
  <2> TAKE k \in 1..size
  <2>1. v[k] = IF k = n THEN <<t, n>> ELSE IF k \in 1..Len(b) THEN b[k] ELSE Spent
    BY <1>1, <1>5
  <2>2. k \in Nat \ {0}
    BY <1>7
  <2> HIDE DEF v, M, b
  <2> QED
    BY <1>5, <1>9, <2>1, <2>2
<1> HIDE DEF v, M, b
<1>11. \A k \in Nat \ {0} : <<t, k>> \in M => k <= size
  BY <1>5, <1>7, <1>9
<1>12. <<t, size>> \in M /\ size > 0
  <2>1. size > 0
    BY <1>7
  <2>2. CASE size = n
    BY <1>9, <2>2
  <2>3. CASE size = Len(b)
    <3>1. <<t, size>> \in L
      BY <1>5, <2>1, <2>3
    <3> QED
      BY <1>7, <1>9, <2>1, <3>1
  <2> QED
    BY <1>7, <2>1, <2>2, <2>3
<1>13. r.coins \in Coin /\ r.coins.vout = v /\ r.coins.nHeight = base.nHeight
       /\ r.coins.fCoinBase = base.fCoinBase
  BY <1>5, <1>6, <1>8 DEF Coin
<1>14. Good(r.coins, t, M, h)
  BY <1>5, <1>8, <1>10, <1>11, <1>12, <1>13 DEF Good
<1>15. ~IsAvailable(base, n)
  <2>1. n \in DOMAIN base.vout => base.vout[n] = Spent
    BY <1>5 DEF b
  <2> QED
    BY <2>1 DEF IsAvailable
<1> QED
  BY <1>2, <1>4, <1>6, <1>13, <1>14, <1>15 DEF r, u, M

-----------------------------------------------------------------------------
(* Views *)

\* No entry of view0 has become absent.
Keeps(view0, view) == \A t \in Tx : view[t] = Absent => view0[t] = Absent

\* One entry of a view is replaced.
LEMMA ShowsUpdate ==
  ASSUME NEW view, NEW L, NEW M, NEW H, Shows(view, L, H), NEW x \in Tx, NEW c \in Entry,
         Good(c, x, M, H[x]),
         \A t \in Tx, n \in Nat \ {0} : t # x => (<<t, n>> \in L <=> <<t, n>> \in M)
  PROVE  Shows([view EXCEPT ![x] = c], M, H)
<1> DEFINE w == [view EXCEPT ![x] = c]
<1>1. w \in [Tx -> Entry]
  BY DEF Shows
<1>2. ASSUME NEW t \in Tx
      PROVE  Good(w[t], t, M, H[t])
  <2>1. CASE t = x
    BY <2>1 DEF Shows
  <2>2. CASE t # x
    <3>1. w[t] = view[t] /\ Good(view[t], t, L, H[t]) /\ view[t] \in Entry
      BY <2>2 DEF Shows
    <3>2. Len(view[t].vout) \in Nat
      BY <3>1, EntryOutputs
    <3>3. \A n \in Nat \ {0} : <<t, n>> \in L <=> <<t, n>> \in M
      BY <2>2
    <3> QED
      BY <3>1, <3>2, <3>3, GoodLocal
  <2> QED
    BY <2>1, <2>2
<1> QED
  BY <1>1, <1>2 DEF Shows

\* A view is about nothing but the outputs in the two sets.
LEMMA ShowsSame ==
  ASSUME NEW view, NEW L, NEW H, NEW G, Shows(view, L, H), L \subseteq Outpoint,
         \A o \in L : H[o[1]] = G[o[1]]
  PROVE  Shows(view, L, G)
<1> SUFFICES ASSUME NEW t \in Tx PROVE Good(view[t], t, L, G[t])
  BY DEF Shows
<1>1. Good(view[t], t, L, H[t]) /\ view[t] \in Entry
  BY DEF Shows
<1>2. Len(view[t].vout) > 0 => H[t] = G[t]
  <2>1. Len(view[t].vout) > 0 => <<t, Len(view[t].vout)>> \in L
    BY <1>1 DEF Good
  <2>2. <<t, Len(view[t].vout)>>[1] = t
    OBVIOUS
  <2> QED
    BY <2>1, <2>2
<1> QED
  BY <1>1, <1>2 DEF Good

\* The view after output o is spent, and the undo record this leaves.
SpentRecord(view, o, L, H) ==
  Spend(view[o[1]], o[2]).undo = UndoRecord(o, L \ {o}, H[o[1]])
SpentView(view, o) == [view EXCEPT ![o[1]] = Spend(view[o[1]], o[2]).coins]

\* Spending an unspent output.
LEMMA ShowsSpend ==
  ASSUME NEW view, NEW L, L \subseteq Outpoint, NEW H \in [Tx -> Nat], Shows(view, L, H),
         NEW o \in L
  PROVE  /\ Shows(SpentView(view, o), L \ {o}, H) /\ Keeps(view, SpentView(view, o))
         /\ SpentRecord(view, o, L, H)
<1> DEFINE x == o[1]
           n == o[2]
           s == Spend(view[x], n)
           w == [view EXCEPT ![x] = s.coins]
           M == L \ {o}
<1>1. o = <<x, n>> /\ x \in Tx /\ n \in Nat \ {0}
  BY OutpointIs
<1>2. view \in [Tx -> Entry] /\ view[x] \in Entry /\ Good(view[x], x, L, H[x]) /\ H[x] \in Nat
  BY <1>1 DEF Shows
<1> HIDE DEF x, n
<1>3. /\ s.coins \in Coin
      /\ Good(s.coins, x, M, H[x])
      /\ s.undo = UndoRecord(o, M, H[x])
  BY <1>1, <1>2, SpendGood
<1> HIDE DEF s
<1>4. \A t \in Tx, k \in Nat \ {0} : t # x => (<<t, k>> \in L <=> <<t, k>> \in M)
  BY <1>1
<1>5. s.coins \in Entry /\ s.coins # Absent
  BY <1>3 DEF Entry, Coin, Absent
<1>6. Shows(w, M, H)
  <2> HIDE DEF M
  <2> QED
    BY <1>1, <1>3, <1>4, <1>5, ShowsUpdate
<1>7. Keeps(view, w)
  BY <1>1, <1>2, <1>5 DEF Keeps
<1> QED
  BY <1>3, <1>6, <1>7 DEF s, x, n, SpentView, SpentRecord

\* Restoring an output that is not among the unspent ones.
LEMMA ShowsRestore ==
  ASSUME NEW a, NEW L, L \subseteq Outpoint, NEW H \in [Tx -> Nat], Shows(a.view, L, H), a.clean,
         NEW o \in Outpoint, o \notin L, H[o[1]] # 0
  PROVE  LET r == RestoreInput(a, o, UndoRecord(o, L, H[o[1]]))
         IN Shows(r.view, L \cup {o}, H) /\ Keeps(a.view, r.view) /\ r.clean
<1> DEFINE x == o[1]
           n == o[2]
           u == UndoRecord(o, L, H[x])
           view == a.view
           old == IF HaveCoins(view, x) THEN view[x] ELSE NoCoins
           s == Restore(old, n, u)
           w == [view EXCEPT ![x] = s.coins]
           M == L \cup {o}
<1>1. o = <<x, n>> /\ x \in Tx /\ n \in Nat \ {0}
  BY OutpointIs
<1>2. view \in [Tx -> Entry] /\ view[x] \in Entry /\ Good(view[x], x, L, H[x]) /\ H[x] \in Nat \ {0}
  BY <1>1 DEF Shows
<1>3. RestoreInput(a, o, u) = [view |-> w, clean |-> a.clean /\ s.clean]
  BY DEF RestoreInput
<1> HIDE DEF x, n, view
<1>4. old \in Coin /\ Good(old, x, L, H[x])
  <2>1. CASE HaveCoins(view, x)
    BY <1>2, <2>1 DEF HaveCoins, Entry
  <2>2. CASE ~HaveCoins(view, x)
    <3>1. view[x] = Absent /\ old = NoCoins
      BY <2>2 DEF HaveCoins
    <3>2. NoCoins \in Coin /\ NoCoins.vout = <<>> /\ Absent.vout = <<>>
      BY DEF NoCoins, Coin, Absent
    <3>3. \A k \in Nat \ {0} : <<x, k>> \notin L
      <4>1. Good(Absent, x, L, H[x])
        BY <1>2, <3>1
      <4> QED
        BY <3>2, <4>1 DEF Good
    <3>4. Good(NoCoins, x, L, H[x])
      BY <1>1, <3>2, <3>3, GoodEmpty
    <3> QED
      BY <3>1, <3>2, <3>4
  <2> QED
    BY <2>1, <2>2
<1> HIDE DEF old
<1>5. s.coins \in Coin /\ Good(s.coins, x, M, H[x]) /\ s.clean
  BY <1>1, <1>2, <1>4, RestoreGood
<1> HIDE DEF s, u
<1>6. \A t \in Tx, k \in Nat \ {0} : t # x => (<<t, k>> \in L <=> <<t, k>> \in M)
  BY <1>1
<1>7. s.coins \in Entry /\ s.coins # Absent
  BY <1>5 DEF Entry, Coin, Absent
<1>8. Shows(w, M, H)
  <2>1. Shows(view, L, H)
    BY DEF view
  <2> HIDE DEF M
  <2> QED
    BY <1>1, <1>5, <1>6, <1>7, <2>1, ShowsUpdate
<1>9. Keeps(view, w)
  BY <1>1, <1>2, <1>7 DEF Keeps
<1>10. RestoreInput(a, o, u).view = w /\ (RestoreInput(a, o, u).clean <=> a.clean /\ s.clean)
  <2>1. RestoreInput(a, o, u).view = w /\ RestoreInput(a, o, u).clean = (a.clean /\ s.clean)
    <3> HIDE DEF w
    <3> QED
      BY <1>3
  <2> HIDE DEF w
  <2> QED
    BY <2>1
<1> QED
  BY <1>5, <1>8, <1>9, <1>10 DEF u, x, view

-----------------------------------------------------------------------------
(* The loops *)

\* The four loops of ConnectBlock and DisconnectBlock: over the inputs of a
\* transaction and over the transactions of a block, forwards and backwards.
\* What round k of loop l does to a.
Step(l, a, k) ==
  CASE l.kind = "spend" -> SpendInput(a, Ins[l.t][k])
    [] l.kind = "connect" -> ConnectTx(a, l.vtx[k], l.h)
    [] l.kind = "restore" -> RestoreInput(a, Ins[l.t][Len(Ins[l.t]) + 1 - k],
                                          l.txundo[Len(Ins[l.t]) + 1 - k])
    [] l.kind = "undo" -> DisconnectTx(a, l.block.vtx[Len(l.block.vtx) + 1 - k],
                                       l.block.vtxundo[Len(l.block.vtx) - k], l.h)

\* f[k] is what k rounds make of q.
Rounds(f, l, q, n) ==
  f = [k \in 0..n |-> IF k = 0 THEN q ELSE Step(l, f[k - 1], k)]

\* A loop is well defined for any number of rounds.
LEMMA RoundsExist ==
  ASSUME NEW l, NEW q, NEW n \in Nat
  PROVE  \E f : Rounds(f, l, q, n)
<1> DEFINE B == {m \in Nat : ~ \E f : Rounds(f, l, q, m)}
<1>1. SUFFICES ASSUME B # {} PROVE FALSE
  OBVIOUS
<1>2. PICK m \in B : \A x \in B : ~(x < m)
  BY <1>1, LeastNat, Zenon
<1>3. CASE m = 0
  <2>1. Rounds([k \in 0..0 |-> q], l, q, 0)
    BY DEF Rounds
  <2> QED
    BY <1>2, <1>3, <2>1
<1>4. CASE m # 0
  <2>1. m - 1 \in Nat /\ m - 1 < m /\ m \in Nat
    BY <1>4
  <2>2. m - 1 \notin B
    BY <1>2, <2>1
  <2>3. PICK g : Rounds(g, l, q, m - 1)
    BY <2>1, <2>2
  <2> DEFINE f == [k \in 0..m |-> IF k = m THEN Step(l, g[m - 1], m) ELSE g[k]]
  <2>4. \A k \in 0..(m - 1) : g[k] = IF k = 0 THEN q ELSE Step(l, g[k - 1], k)
    <3> DEFINE F(k) == IF k = 0 THEN q ELSE Step(l, g[k - 1], k)
    <3>1. g = [k \in 0..(m - 1) |-> F(k)]
      BY <2>3 DEF Rounds
    <3> HIDE DEF F
    <3>2. \A k \in 0..(m - 1) : g[k] = F(k)
      BY <3>1
    <3> QED
      BY <3>2 DEF F
  <2>5. ASSUME NEW k \in 0..m
        PROVE  f[k] = IF k = 0 THEN q ELSE Step(l, f[k - 1], k)
    <3>1. CASE k = m
      <4>1. f[k - 1] = g[k - 1] /\ f[k] = Step(l, g[m - 1], m)
        BY <3>1, <2>1
      <4> QED
        BY <3>1, <4>1, <1>4
    <3>2. CASE k # m /\ k = 0
      BY <3>2, <2>1, <2>4
    <3>3. CASE k # m /\ k # 0
      <4>1. k \in 0..(m - 1) /\ k - 1 \in 0..m /\ k - 1 # m
        BY <3>3, <2>1
      <4>2. f[k] = g[k] /\ f[k - 1] = g[k - 1]
        BY <3>3, <4>1
      <4> QED
        BY <3>3, <4>1, <4>2, <2>4
    <3> QED
      BY <3>1, <3>2, <3>3
  <2>6. f = [k \in 0..m |-> f[k]]
    OBVIOUS
  <2> HIDE DEF f
  <2>7. Rounds(f, l, q, m)
    BY <2>5, <2>6 DEF Rounds
  <2> QED
    BY <2>7
<1> QED
  BY <1>3, <1>4

\* Round by round.
LEMMA RoundsAre ==
  ASSUME NEW l, NEW q, NEW n \in Nat, NEW f, Rounds(f, l, q, n)
  PROVE  f[0] = q /\ \A k \in 1..n : f[k] = Step(l, f[k - 1], k)
<1> DEFINE F(k) == IF k = 0 THEN q ELSE Step(l, f[k - 1], k)
<1>1. f = [k \in 0..n |-> F(k)]
  BY DEF Rounds
<1> HIDE DEF F
<1>2. \A k \in 0..n : f[k] = F(k)
  BY <1>1
<1> QED
  BY <1>2 DEF F

\* A set of rounds that has the first, and the next of each, has all.
LEMMA AllRounds ==
  ASSUME NEW n \in Nat, NEW B, 0 \in B, \A k \in 1..n : k - 1 \in B => k \in B
  PROVE  \A k \in 0..n : k \in B
<1> DEFINE W == {k \in 0..n : k \notin B}
<1>1. SUFFICES ASSUME W # {} PROVE FALSE
  OBVIOUS
<1>2. PICK m \in W : \A x \in W : ~(x < m)
  <2>1. W \subseteq Nat
    OBVIOUS
  <2> HIDE DEF W
  <2> QED
    BY <1>1, <2>1, LeastNat
<1>3. m # 0 /\ m \in 1..n /\ m - 1 \in 0..n /\ m - 1 < m
  BY <1>2
<1>4. m - 1 \in B
  BY <1>2, <1>3
<1> QED
  BY <1>2, <1>3, <1>4

\* The loop over the inputs in UpdateCoins.
SpendRounds(f, view, t) ==
  f = [j \in 0..Len(Ins[t]) |-> IF j = 0 THEN [view |-> view, vprevout |-> <<>>]
                                ELSE SpendInput(f[j - 1], Ins[t][j])]

\* It is one of the loops.
LEMMA SpendLoop ==
  ASSUME NEW view, NEW t \in Tx
  PROVE  LET f == CHOOSE g : SpendRounds(g, view, t)
         IN /\ SpendRounds(f, view, t)
            /\ f[0] = [view |-> view, vprevout |-> <<>>]
            /\ \A k \in 1..Len(Ins[t]) : f[k] = SpendInput(f[k - 1], Ins[t][k])
<1> DEFINE q == [view |-> view, vprevout |-> <<>>]
           l == [kind |-> "spend", t |-> t]
           n == Len(Ins[t])
           f == CHOOSE g : SpendRounds(g, view, t)
<1>1. n \in Nat
  BY TxIs
<1>2. \A a, k : Step(l, a, k) = SpendInput(a, Ins[t][k])
  BY DEF Step
<1> HIDE DEF l, q
<1>3. ASSUME NEW g
      PROVE  SpendRounds(g, view, t) <=> Rounds(g, l, q, n)
  BY <1>2 DEF SpendRounds, Rounds, q
<1>4. \E g : SpendRounds(g, view, t)
  BY <1>1, <1>3, RoundsExist
<1>5. SpendRounds(f, view, t)
  BY <1>4, Zenon
<1>6. Rounds(f, l, q, n)
  BY <1>3, <1>5
<1> HIDE DEF f
<1>7. f[0] = q /\ \A k \in 1..n : f[k] = Step(l, f[k - 1], k)
  <2> HIDE DEF n
  <2>1. ASSUME NEW g, Rounds(g, l, q, n)
        PROVE  g[0] = q
    BY <1>1, <2>1, RoundsAre
  <2>2. ASSUME NEW g, Rounds(g, l, q, n)
        PROVE  \A k \in 1..n : g[k] = Step(l, g[k - 1], k)
    BY <1>1, <2>2, RoundsAre
  <2>3. f[0] = q
    BY <1>6, <2>1
  <2> QED
    BY <1>6, <2>2, <2>3
<1> QED
  BY <1>2, <1>5, <1>7 DEF q, f

\* The loop over the transactions in ConnectBlock.
ConnectRounds(f, ok, view, vtx, h) ==
  f = [i \in 0..Len(vtx) |-> IF i = 0 THEN [ok |-> ok, view |-> view, vtxundo |-> <<>>]
                             ELSE ConnectTx(f[i - 1], vtx[i], h)]

\* It is one of the loops.
LEMMA ConnectLoop ==
  ASSUME NEW ok, NEW view, NEW vtx, Len(vtx) \in Nat, NEW h
  PROVE  LET f == CHOOSE g : ConnectRounds(g, ok, view, vtx, h)
         IN /\ ConnectRounds(f, ok, view, vtx, h)
            /\ f[0] = [ok |-> ok, view |-> view, vtxundo |-> <<>>]
            /\ \A k \in 1..Len(vtx) : f[k] = ConnectTx(f[k - 1], vtx[k], h)
<1> DEFINE p == [ok |-> ok, view |-> view, vtxundo |-> <<>>]
           l == [kind |-> "connect", vtx |-> vtx, h |-> h]
           n == Len(vtx)
           f == CHOOSE g : ConnectRounds(g, ok, view, vtx, h)
<1>1. n \in Nat
  OBVIOUS
<1>2. \A a, k : Step(l, a, k) = ConnectTx(a, vtx[k], h)
  BY DEF Step
<1> HIDE DEF l, p
<1>3. ASSUME NEW g
      PROVE  ConnectRounds(g, ok, view, vtx, h) <=> Rounds(g, l, p, n)
  <2>1. \A k \in 0..n : (IF k = 0 THEN p ELSE Step(l, g[k - 1], k))
                        = (IF k = 0 THEN p ELSE ConnectTx(g[k - 1], vtx[k], h))
    BY <1>2
  <2> QED
    BY <2>1 DEF ConnectRounds, Rounds, p
<1>4. \E g : ConnectRounds(g, ok, view, vtx, h)
  BY <1>1, <1>3, RoundsExist
<1>5. ConnectRounds(f, ok, view, vtx, h)
  BY <1>4, Zenon
<1>6. Rounds(f, l, p, n)
  BY <1>3, <1>5
<1> HIDE DEF f
<1>7. f[0] = p /\ \A k \in 1..n : f[k] = Step(l, f[k - 1], k)
  <2> HIDE DEF n
  <2>1. ASSUME NEW g, Rounds(g, l, p, n)
        PROVE  g[0] = p
    BY <1>1, <2>1 DEF Rounds
  <2>2. ASSUME NEW g, Rounds(g, l, p, n)
        PROVE  \A k \in 1..n : g[k] = Step(l, g[k - 1], k)
    BY <1>1, <2>2, RoundsAre
  <2>3. f[0] = p
    BY <1>6, <2>1
  <2> QED
    BY <1>6, <2>2, <2>3
<1> QED
  BY <1>2, <1>5, <1>7 DEF p, f

\* The loop over the inputs in DisconnectTx.
RestoreRounds(f, q, t, txundo) ==
  f = [k \in 0..Len(Ins[t]) |->
         IF k = 0 THEN q
         ELSE RestoreInput(f[k - 1], Ins[t][Len(Ins[t]) + 1 - k], txundo[Len(Ins[t]) + 1 - k])]

\* It is one of the loops.
LEMMA RestoreLoop ==
  ASSUME NEW q, NEW t \in Tx, NEW txundo
  PROVE  LET f == CHOOSE g : RestoreRounds(g, q, t, txundo)
         IN /\ RestoreRounds(f, q, t, txundo)
            /\ f[0] = q
            /\ \A k \in 1..Len(Ins[t]) : f[k] = RestoreInput(f[k - 1], Ins[t][Len(Ins[t]) + 1 - k],
                                                        txundo[Len(Ins[t]) + 1 - k])
<1> DEFINE p == q
           l == [kind |-> "restore", t |-> t, txundo |-> txundo]
           n == Len(Ins[t])
           f == CHOOSE g : RestoreRounds(g, q, t, txundo)
<1>1. n \in Nat
  BY TxIs
<1>2. \A a, k : Step(l, a, k) = RestoreInput(a, Ins[t][Len(Ins[t]) + 1 - k], txundo[Len(Ins[t]) + 1 - k])
  BY DEF Step
<1> HIDE DEF l, p
<1>3. ASSUME NEW g
      PROVE  RestoreRounds(g, q, t, txundo) <=> Rounds(g, l, p, n)
  <2>1. \A k \in 0..n : (IF k = 0 THEN p ELSE Step(l, g[k - 1], k))
                        = (IF k = 0 THEN p
                           ELSE RestoreInput(g[k - 1], Ins[t][Len(Ins[t]) + 1 - k],
                                             txundo[Len(Ins[t]) + 1 - k]))
    BY <1>2
  <2> QED
    BY <2>1 DEF RestoreRounds, Rounds, p
<1>4. \E g : RestoreRounds(g, q, t, txundo)
  BY <1>1, <1>3, RoundsExist
<1>5. RestoreRounds(f, q, t, txundo)
  BY <1>4, Zenon
<1>6. Rounds(f, l, p, n)
  BY <1>3, <1>5
<1> HIDE DEF f
<1>7. f[0] = p /\ \A k \in 1..n : f[k] = Step(l, f[k - 1], k)
  <2> HIDE DEF n
  <2>1. ASSUME NEW g, Rounds(g, l, p, n)
        PROVE  g[0] = p
    BY <1>1, <2>1 DEF Rounds
  <2>2. ASSUME NEW g, Rounds(g, l, p, n)
        PROVE  \A k \in 1..n : g[k] = Step(l, g[k - 1], k)
    BY <1>1, <2>2, RoundsAre
  <2>3. f[0] = p
    BY <1>6, <2>1
  <2> QED
    BY <1>6, <2>2, <2>3
<1> QED
  BY <1>2, <1>5, <1>7 DEF p, f

\* The loop over the transactions in DisconnectBlock.
UndoRounds(f, view, block, h) ==
  f = [k \in 0..Len(block.vtx) |->
         IF k = 0 THEN [view |-> view, clean |-> TRUE]
         ELSE DisconnectTx(f[k - 1], block.vtx[Len(block.vtx) + 1 - k],
                           block.vtxundo[Len(block.vtx) - k], h)]

\* It is one of the loops.
LEMMA UndoLoop ==
  ASSUME NEW view, NEW block, Len(block.vtx) \in Nat, NEW h
  PROVE  LET f == CHOOSE g : UndoRounds(g, view, block, h)
         IN /\ UndoRounds(f, view, block, h)
            /\ f[0] = [view |-> view, clean |-> TRUE]
            /\ \A k \in 1..Len(block.vtx) : f[k] = DisconnectTx(f[k - 1], block.vtx[Len(block.vtx) + 1 - k],
                                                            block.vtxundo[Len(block.vtx) - k], h)
<1> DEFINE p == [view |-> view, clean |-> TRUE]
           l == [kind |-> "undo", block |-> block, h |-> h]
           n == Len(block.vtx)
           f == CHOOSE g : UndoRounds(g, view, block, h)
<1>1. n \in Nat
  OBVIOUS
<1>2. \A a, k : Step(l, a, k) = DisconnectTx(a, block.vtx[Len(block.vtx) + 1 - k],
                                           block.vtxundo[Len(block.vtx) - k], h)
  BY DEF Step
<1> HIDE DEF l, p
<1>3. ASSUME NEW g
      PROVE  UndoRounds(g, view, block, h) <=> Rounds(g, l, p, n)
  <2>1. \A k \in 0..n : (IF k = 0 THEN p ELSE Step(l, g[k - 1], k))
                        = (IF k = 0 THEN p
                           ELSE DisconnectTx(g[k - 1], block.vtx[Len(block.vtx) + 1 - k],
                                             block.vtxundo[Len(block.vtx) - k], h))
    BY <1>2
  <2> QED
    BY <2>1 DEF UndoRounds, Rounds, p
<1>4. \E g : UndoRounds(g, view, block, h)
  BY <1>1, <1>3, RoundsExist
<1>5. UndoRounds(f, view, block, h)
  BY <1>4, Zenon
<1>6. Rounds(f, l, p, n)
  BY <1>3, <1>5
<1> HIDE DEF f
<1>7. f[0] = p /\ \A k \in 1..n : f[k] = Step(l, f[k - 1], k)
  <2> HIDE DEF n
  <2>1. ASSUME NEW g, Rounds(g, l, p, n)
        PROVE  g[0] = p
    BY <1>1, <2>1 DEF Rounds
  <2>2. ASSUME NEW g, Rounds(g, l, p, n)
        PROVE  \A k \in 1..n : g[k] = Step(l, g[k - 1], k)
    BY <1>1, <2>2, RoundsAre
  <2>3. f[0] = p
    BY <1>6, <2>1
  <2> QED
    BY <1>6, <2>2, <2>3
<1> QED
  BY <1>2, <1>5, <1>7 DEF p, f

-----------------------------------------------------------------------------
(* Connecting a transaction *)

Undo == [txout : Outpoint, nHeight : Nat, fCoinBase : BOOLEAN]

\* The first j inputs of t.
Firsts(t, j) == {Ins[t][k] : k \in 1..j}

\* p is the undo data of t, spending out of L.
TxUndo(p, t, L, H) ==
  /\ p \in Seq(Undo) /\ Len(p) = Len(Ins[t])
  /\ \A j \in 1..Len(Ins[t]) :
       p[j] = UndoRecord(Ins[t][j], L \ Firsts(t, j), H[Ins[t][j][1]])

\* The inputs of t are outpoints, and no two are the same.
LEMMA InputsAre ==
  ASSUME NEW t \in Tx
  PROVE  /\ Len(Ins[t]) \in Nat /\ DOMAIN Ins[t] = 1..Len(Ins[t])
         /\ \A j \in 1..Len(Ins[t]) : Ins[t][j] \in Outpoint
         /\ \A j, k \in 1..Len(Ins[t]) : Ins[t][j] = Ins[t][k] => j = k
         /\ ToSet(Ins[t]) = Firsts(t, Len(Ins[t]))
         /\ Firsts(t, 0) = {}
         /\ ToSet(Ins[t]) \subseteq Outpoint
<1>1. Ins[t] \in Seq(Outpoint)
  BY TxIs
<1>2. Len(Ins[t]) \in Nat /\ DOMAIN Ins[t] = 1..Len(Ins[t])
      /\ \A j \in 1..Len(Ins[t]) : Ins[t][j] \in Outpoint
  BY <1>1
<1>3. \A j, k \in 1..Len(Ins[t]) : Ins[t][j] = Ins[t][k] => j = k
  <2>1. CASE t \in CoinbaseTx
    <3>1. Len(Ins[t]) = 0
      BY <2>1, TxIs
    <3> QED
      BY <3>1
  <2>2. CASE t \notin CoinbaseTx
    <3>1. IsInjective(Ins[t])
      BY <2>2, TxIs
    <3> QED
      BY <1>2, <3>1 DEF IsInjective
  <2> QED
    BY <2>1, <2>2
<1>4. ToSet(Ins[t]) = Firsts(t, Len(Ins[t]))
  BY <1>2 DEF ToSet, Firsts
<1>5. Firsts(t, 0) = {}
  BY DEF Firsts
<1>6. ToSet(Ins[t]) \subseteq Outpoint
  BY <1>2, <1>4 DEF Firsts
<1> QED
  BY <1>2, <1>3, <1>4, <1>5, <1>6

\* One input more.
LEMMA FirstsNext ==
  ASSUME NEW t \in Tx, NEW j \in 1..Len(Ins[t])
  PROVE  /\ Firsts(t, j) = Firsts(t, j - 1) \cup {Ins[t][j]}
         /\ Ins[t][j] \notin Firsts(t, j - 1)
<1>1. /\ Len(Ins[t]) \in Nat
      /\ \A k, m \in 1..Len(Ins[t]) : Ins[t][k] = Ins[t][m] => k = m
  BY InputsAre
<1>2. 1..j = (1..(j - 1)) \cup {j}
  BY <1>1
<1>3. Firsts(t, j) = Firsts(t, j - 1) \cup {Ins[t][j]}
  BY <1>2 DEF Firsts
<1>4. Ins[t][j] \notin Firsts(t, j - 1)
  <2> SUFFICES ASSUME NEW k \in 1..(j - 1), Ins[t][k] = Ins[t][j] PROVE FALSE
    BY DEF Firsts
  <2>1. k \in 1..Len(Ins[t]) /\ k # j
    BY <1>1
  <2> QED
    BY <1>1, <2>1
<1> QED
  BY <1>3, <1>4

\* An undo record is one.
LEMMA UndoRecordIs ==
  ASSUME NEW o \in Outpoint, NEW L, NEW h \in Nat
  PROVE  UndoRecord(o, L, h) \in Undo
<1> DEFINE last == \A n \in Nat \ {0} : <<o[1], n>> \notin L
<1>1. UndoRecord(o, L, h) = [txout |-> o, nHeight |-> IF last THEN h ELSE 0,
                             fCoinBase |-> last /\ o[1] \in CoinbaseTx]
  BY DEF UndoRecord
<1>2. (IF last THEN h ELSE 0) \in Nat /\ (last /\ o[1] \in CoinbaseTx) \in BOOLEAN
  OBVIOUS
<1> HIDE DEF last
<1> QED
  BY <1>1, <1>2 DEF Undo

\* The inputs of t are spent one by one.
LEMMA SpendAll ==
  ASSUME NEW t \in Tx, NEW view, NEW L, L \subseteq Outpoint, NEW H \in [Tx -> Nat],
         Shows(view, L, H), ToSet(Ins[t]) \subseteq L
  PROVE  LET f == CHOOSE g : SpendRounds(g, view, t)
             r == f[Len(Ins[t])]
         IN /\ Shows(r.view, L \ ToSet(Ins[t]), H) /\ Keeps(view, r.view)
            /\ TxUndo(r.vprevout, t, L, H)
<1> DEFINE n == Len(Ins[t])
           f == CHOOSE g : SpendRounds(g, view, t)
           P(a, k) == /\ Shows(a.view, L \ Firsts(t, k), H) /\ Keeps(view, a.view)
                      /\ a.vprevout \in Seq(Undo) /\ Len(a.vprevout) = k
                      /\ \A j \in 1..k : a.vprevout[j]
                           = UndoRecord(Ins[t][j], L \ Firsts(t, j), H[Ins[t][j][1]])
           B == {k \in 0..n : P(f[k], k)}
<1>1. n \in Nat /\ (\A j \in 1..n : Ins[t][j] \in Outpoint) /\ ToSet(Ins[t]) = Firsts(t, n)
      /\ Firsts(t, 0) = {}
  BY InputsAre
<1>2. f[0] = [view |-> view, vprevout |-> <<>>]
      /\ \A k \in 1..n : f[k] = SpendInput(f[k - 1], Ins[t][k])
  BY SpendLoop
<1> HIDE DEF n, f
<1>3. 0 \in B
  <2>1. f[0].view = view /\ f[0].vprevout = <<>>
    BY <1>2
  <2>2. Keeps(view, view)
    BY DEF Keeps
  <2>3. L \ Firsts(t, 0) = L
    BY <1>1
  <2>4. P(f[0], 0)
    <3>1. <<>> \in Seq(Undo) /\ Len(<<>>) = 0
      OBVIOUS
    <3>2. Shows(f[0].view, L \ Firsts(t, 0), H) /\ Keeps(view, f[0].view)
      BY <2>1, <2>2, <2>3
    <3> QED
      BY <2>1, <3>1, <3>2
  <2> HIDE DEF P
  <2> QED
    BY <1>1, <2>4
<1>4. ASSUME NEW k \in 1..n, k - 1 \in B
      PROVE  k \in B
  <2> DEFINE a == f[k - 1]
             o == Ins[t][k]
             M == L \ Firsts(t, k - 1)
             s == Spend(a.view[o[1]], o[2])
             w == [a.view EXCEPT ![o[1]] = s.coins]
  <2>1. /\ Shows(a.view, M, H) /\ Keeps(view, a.view)
        /\ a.vprevout \in Seq(Undo) /\ Len(a.vprevout) = k - 1
        /\ \A j \in 1..(k - 1) : a.vprevout[j]
             = UndoRecord(Ins[t][j], L \ Firsts(t, j), H[Ins[t][j][1]])
    BY <1>4
  <2>2. f[k] = [view |-> w, vprevout |-> Append(a.vprevout, s.undo)]
    BY <1>2 DEF SpendInput
  <2>3. o \in Outpoint /\ Firsts(t, k) = Firsts(t, k - 1) \cup {o} /\ o \notin Firsts(t, k - 1)
    BY <1>1, FirstsNext DEF n
  <2>4. o \in ToSet(Ins[t])
    BY <1>1 DEF Firsts
  <2>5. M \subseteq Outpoint /\ o \in M /\ M \ {o} = L \ Firsts(t, k)
    BY <2>3, <2>4
  <2> HIDE DEF a, o, M
  <2>6. /\ Shows(w, M \ {o}, H) /\ Keeps(a.view, w)
        /\ s.undo = UndoRecord(o, M \ {o}, H[o[1]])
    <3> HIDE DEF s, w
    <3>1. M \subseteq Outpoint /\ o \in M /\ Shows(a.view, M, H)
      BY <2>1, <2>5
    <3>2. Shows(SpentView(a.view, o), M \ {o}, H) /\ Keeps(a.view, SpentView(a.view, o))
      BY <3>1, ShowsSpend
    <3>3. SpentRecord(a.view, o, M, H)
      BY <3>1, ShowsSpend
    <3> QED
      BY <3>2, <3>3 DEF SpentView, SpentRecord, s, w
  <2> HIDE DEF s, w
  <2>7. Keeps(view, w)
    BY <2>1, <2>6 DEF Keeps
  <2>8. H[o[1]] \in Nat
    BY <2>3, OutpointIs
  <2>9. s.undo \in Undo
    BY <2>3, <2>6, <2>8, UndoRecordIs
  <2>10. f[k].view = w /\ f[k].vprevout = Append(a.vprevout, s.undo)
    BY <2>2
  <2>11. /\ f[k].vprevout \in Seq(Undo) /\ Len(f[k].vprevout) = k
         /\ f[k].vprevout[k] = s.undo
         /\ \A j \in 1..(k - 1) : f[k].vprevout[j] = a.vprevout[j]
    BY <1>1, <2>1, <2>9, <2>10
  <2>12. \A j \in 1..k : f[k].vprevout[j]
           = UndoRecord(Ins[t][j], L \ Firsts(t, j), H[Ins[t][j][1]])
    <3>1. ASSUME NEW j \in 1..k
          PROVE  f[k].vprevout[j] = UndoRecord(Ins[t][j], L \ Firsts(t, j), H[Ins[t][j][1]])
      <4>1. CASE j = k
        BY <2>5, <2>6, <2>11, <4>1 DEF o
      <4>2. CASE j # k
        <5>1. j \in 1..(k - 1)
          BY <1>1, <4>2
        <5> QED
          BY <2>1, <2>11, <5>1
      <4> QED
        BY <4>1, <4>2
    <3> QED
      BY <3>1
  <2>13. P(f[k], k)
    BY <2>5, <2>6, <2>7, <2>10, <2>11, <2>12
  <2>14. k \in 0..n
    BY <1>1
  <2> HIDE DEF P
  <2> QED
    BY <2>13, <2>14
<1>5. n \in B
  <2> HIDE DEF B
  <2>1. \A k \in 0..n : k \in B
    BY <1>1, <1>3, <1>4, AllRounds
  <2> QED
    BY <1>1, <2>1
<1>6. P(f[n], n)
  <2> HIDE DEF P
  <2> QED
    BY <1>5
<1> QED
  BY <1>1, <1>6 DEF TxUndo, n, f

\* u is a after the inputs of t are spent and its outputs added.
Updated(a, u, t, L, H) ==
  /\ u.ok
  /\ Shows(u.view, (L \ ToSet(Ins[t])) \cup Outputs(t), H) /\ Keeps(a.view, u.view)
  /\ \E p : /\ TxUndo(p, t, L, H)
            /\ u.vtxundo = IF t \in CoinbaseTx THEN a.vtxundo ELSE Append(a.vtxundo, p)

\* UpdateCoins, when the inputs of t are unspent and t has no outputs yet.
LEMMA UpdateGood ==
  ASSUME NEW t \in Tx, NEW a, NEW L, L \subseteq Outpoint, NEW H \in [Tx -> Nat],
         Shows(a.view, L, H), ToSet(Ins[t]) \subseteq L,
         \A n \in Nat \ {0} : <<t, n>> \notin L
  PROVE  Updated(a, UpdateCoins(a, t, H[t]), t, L, H)
<1> DEFINE n == Len(Ins[t])
           f == CHOOSE g : SpendRounds(g, a.view, t)
           r == f[n]
           u == UpdateCoins(a, t, H[t])
           M == L \ ToSet(Ins[t])
           N == M \cup Outputs(t)
           w == [r.view EXCEPT ![t] = CCoins(t, H[t])]
<1>1. u = [ok |-> TRUE, view |-> w,
           vtxundo |-> IF t \in CoinbaseTx THEN a.vtxundo ELSE Append(a.vtxundo, r.vprevout)]
  BY Zenon DEF UpdateCoins, SpendRounds
<1>2. Shows(r.view, M, H) /\ Keeps(a.view, r.view) /\ TxUndo(r.vprevout, t, L, H)
  BY SpendAll
<1> HIDE DEF r
<1>3. \A k \in Nat \ {0} : <<t, k>> \in N <=> <<t, k>> \in Outputs(t)
  OBVIOUS
<1>4. \A x \in Tx, k \in Nat \ {0} : x # t => (<<x, k>> \in M <=> <<x, k>> \in N)
  <2>1. \A o \in Outputs(t) : o[1] = t
    BY OutputsOf
  <2>2. \A x \in Tx, k \in Nat \ {0} : <<x, k>>[1] = x
    OBVIOUS
  <2> QED
    BY <2>1, <2>2
<1>5. H[t] \in Nat
  OBVIOUS
<1> HIDE DEF M, N
<1>6. CCoins(t, H[t]) \in Coin /\ Good(CCoins(t, H[t]), t, N, H[t])
  BY <1>3, <1>5, CCoinsGood
<1>7. CCoins(t, H[t]) \in Entry /\ CCoins(t, H[t]) # Absent
  BY <1>6 DEF Entry, Coin, Absent
<1>8. Shows(w, N, H)
  BY <1>2, <1>4, <1>6, <1>7, ShowsUpdate
<1>9. Keeps(a.view, w)
  <2>1. r.view \in [Tx -> Entry]
    BY <1>2 DEF Shows
  <2> QED
    BY <1>2, <1>7, <2>1 DEF Keeps
<1> HIDE DEF w
<1>10. u.ok /\ u.view = w
       /\ u.vtxundo = IF t \in CoinbaseTx THEN a.vtxundo ELSE Append(a.vtxundo, r.vprevout)
  <2> HIDE DEF u
  <2> QED
    BY <1>1
<1> QED
  BY <1>2, <1>8, <1>9, <1>10 DEF N, M, u, Updated

-----------------------------------------------------------------------------
(* Disconnecting a transaction *)

\* p has the undo records of t, spending out of L.
UndoFits(p, t, L, H) ==
  \A j \in 1..Len(Ins[t]) : p[j] = UndoRecord(Ins[t][j], L \ Firsts(t, j), H[Ins[t][j][1]])

\* The inputs of t are restored one by one.
LEMMA RestoreAll ==
  ASSUME NEW t \in Tx, NEW q, NEW L, L \subseteq Outpoint, NEW H \in [Tx -> Nat], NEW p,
         Shows(q.view, L \ ToSet(Ins[t]), H), q.clean, ToSet(Ins[t]) \subseteq L,
         UndoFits(p, t, L, H), \A o \in ToSet(Ins[t]) : H[o[1]] # 0
  PROVE  LET f == CHOOSE g : RestoreRounds(g, q, t, p)
             r == f[Len(Ins[t])]
         IN Shows(r.view, L, H) /\ Keeps(q.view, r.view) /\ r.clean
<1> DEFINE n == Len(Ins[t])
           f == CHOOSE g : RestoreRounds(g, q, t, p)
           P(a, k) == Shows(a.view, L \ Firsts(t, n - k), H) /\ Keeps(q.view, a.view) /\ a.clean
           B == {k \in 0..n : P(f[k], k)}
<1>1. n \in Nat /\ (\A j \in 1..n : Ins[t][j] \in Outpoint) /\ ToSet(Ins[t]) = Firsts(t, n)
      /\ Firsts(t, 0) = {}
  BY InputsAre
<1>2. f[0] = q
      /\ \A k \in 1..n : f[k] = RestoreInput(f[k - 1], Ins[t][n + 1 - k], p[n + 1 - k])
  BY RestoreLoop
<1>a. \A j \in 1..n : p[j] = UndoRecord(Ins[t][j], L \ Firsts(t, j), H[Ins[t][j][1]])
  BY DEF UndoFits
<1> HIDE DEF n, f
<1>3. 0 \in B
  <2>1. n - 0 = n
    BY <1>1
  <2>2. Keeps(q.view, q.view)
    BY DEF Keeps
  <2>3. P(f[0], 0)
    BY <1>1, <1>2, <2>1, <2>2
  <2> HIDE DEF P
  <2> QED
    BY <1>1, <2>3
<1>4. ASSUME NEW k \in 1..n, k - 1 \in B
      PROVE  k \in B
  <2> DEFINE a == f[k - 1]
             j == n + 1 - k
             o == Ins[t][j]
             M == L \ Firsts(t, j)
             u == UndoRecord(o, M, H[o[1]])
             r == RestoreInput(a, o, u)
  <2>1. j \in 1..n /\ n - (k - 1) = j /\ n - k = j - 1 /\ k \in 0..n
    BY <1>1
  <2>2. Shows(a.view, M, H) /\ Keeps(q.view, a.view) /\ a.clean
    BY <1>4, <2>1
  <2>3. f[k] = r
    BY <1>2, <1>a, <2>1
  <2>4. o \in Outpoint /\ Firsts(t, j) = Firsts(t, j - 1) \cup {o} /\ o \notin Firsts(t, j - 1)
    BY <1>1, <2>1, FirstsNext DEF n
  <2>5. o \in ToSet(Ins[t])
    BY <1>1, <2>1 DEF Firsts
  <2>6. M \subseteq Outpoint /\ o \notin M /\ M \cup {o} = L \ Firsts(t, n - k)
    BY <2>1, <2>4, <2>5
  <2>7. H[o[1]] # 0
    BY <2>5
  <2> HIDE DEF a, j, o, M
  <2>8. Shows(r.view, M \cup {o}, H) /\ Keeps(a.view, r.view) /\ r.clean
    BY <2>2, <2>4, <2>6, <2>7, ShowsRestore
  <2> HIDE DEF r
  <2>9. Keeps(q.view, r.view)
    BY <2>2, <2>8 DEF Keeps
  <2>10. P(f[k], k)
    BY <2>3, <2>6, <2>8, <2>9
  <2> HIDE DEF P
  <2> QED
    BY <2>1, <2>10
<1>5. n \in B
  <2> HIDE DEF B
  <2>1. \A k \in 0..n : k \in B
    BY <1>1, <1>3, <1>4, AllRounds
  <2> QED
    BY <1>1, <2>1
<1>6. P(f[n], n)
  <2> HIDE DEF P
  <2> QED
    BY <1>5
<1>7. L \ Firsts(t, n - n) = L
  <2>1. n - n = 0
    BY <1>1
  <2> QED
    BY <1>1, <2>1
<1> QED
  BY <1>6, <1>7 DEF n, f

\* r is a view of L, made out of the one a has, with nothing found wrong.
Reverted(a, r, L, H) == Shows(r.view, L, H) /\ Keeps(a.view, r.view) /\ r.clean

\* DisconnectTx undoes UpdateCoins and finds nothing wrong.
LEMMA DisconnectGood ==
  ASSUME NEW t \in Tx, NEW a, NEW L, L \subseteq Outpoint, NEW H \in [Tx -> Nat], NEW p,
         Shows(a.view, (L \ ToSet(Ins[t])) \cup Outputs(t), H), a.clean,
         ToSet(Ins[t]) \subseteq L, \A n \in Nat \ {0} : <<t, n>> \notin L,
         UndoFits(p, t, L, H), \A o \in ToSet(Ins[t]) : H[o[1]] # 0
  PROVE  Reverted(a, DisconnectTx(a, t, p, H[t]), L, H)
<1> DEFINE h == H[t]
           outs == IF HaveCoins(a.view, t) THEN a.view[t] ELSE NoCoins
           left == IF HaveCoins(a.view, t) THEN NoCoins ELSE Absent
           v == [a.view EXCEPT ![t] = left]
           q == [view |-> v, clean |-> a.clean /\ SameCoins(outs, CCoins(t, h))]
           f == CHOOSE g : RestoreRounds(g, q, t, p)
           M == L \ ToSet(Ins[t])
           N == M \cup Outputs(t)
<1>1. DisconnectTx(a, t, p, h) = f[Len(Ins[t])]
  BY Zenon DEF DisconnectTx, RestoreRounds
<1>2. h \in Nat /\ a.view \in [Tx -> Entry] /\ a.view[t] \in Entry /\ Good(a.view[t], t, N, h)
  BY DEF Shows
<1>3. Outputs(t) \subseteq Outpoint /\ (\A o \in Outputs(t) : o[1] = t)
      /\ \A k : <<t, k>> \in Outputs(t) <=> k \in 1..NumOut[t] /\ <<t, k>> \notin Unspendable
  BY OutputsOf
<1>4. \A k \in Nat \ {0} : <<t, k>> \in N <=> <<t, k>> \in Outputs(t)
  OBVIOUS
<1>5. \A x \in Tx, k \in Nat \ {0} : x # t => (<<x, k>> \in N <=> <<x, k>> \in M)
  <2>1. \A x \in Tx, k \in Nat \ {0} : <<x, k>>[1] = x
    OBVIOUS
  <2> QED
    BY <1>3, <2>1
<1>6. N \subseteq Outpoint
  BY <1>3
<1>7. \A k \in Nat \ {0} : <<t, k>> \notin M
  OBVIOUS
<1>8. Shows(a.view, N, H)
  OBVIOUS
<1> HIDE DEF M, N
<1>9. CCoins(t, h) \in Coin /\ Good(CCoins(t, h), t, N, h)
  <2> HIDE DEF h
  <2> QED
    BY <1>2, <1>4, CCoinsGood
<1>10. SameCoins(outs, CCoins(t, h))
  <2>1. CASE HaveCoins(a.view, t)
    <3>1. SameCoins(a.view[t], CCoins(t, h))
      <4> HIDE DEF h
      <4>1. CCoins(t, h) \in Entry
        BY <1>9 DEF Entry
      <4> QED
        BY <1>2, <1>6, <1>9, <4>1, GoodUnique
    <3> QED
      BY <2>1, <3>1
  <2>2. CASE ~HaveCoins(a.view, t)
    <3>1. a.view[t] = Absent
      BY <2>2 DEF HaveCoins
    <3>2. SameCoins(Absent, CCoins(t, h))
      <4> HIDE DEF h
      <4>1. CCoins(t, h) \in Entry
        BY <1>9 DEF Entry
      <4> QED
        BY <1>2, <1>6, <1>9, <3>1, <4>1, GoodUnique
    <3>3. IsPruned(CCoins(t, h))
      <4>1. CCoins(t, h) # Absent
        BY <1>9 DEF Coin, Absent
      <4> QED
        BY <3>2, <4>1 DEF SameCoins
    <3>4. IsPruned(NoCoins)
      BY DEF IsPruned, NoCoins
    <3> QED
      BY <2>2, <3>3, <3>4 DEF SameCoins
  <2> QED
    BY <2>1, <2>2
<1> HIDE DEF outs
<1>11. left \in Entry /\ left.vout = <<>>
  BY DEF NoCoins, Absent, Entry, Coin
<1>12. a.view[t] # Absent => left # Absent
  BY DEF HaveCoins, NoCoins, Absent
<1> HIDE DEF left
<1>13. Good(left, t, M, h)
  BY <1>7, <1>11, GoodEmpty
<1>14. Shows(v, M, H)
  BY <1>5, <1>8, <1>11, <1>13, ShowsUpdate
<1>15. Keeps(a.view, v)
  BY <1>2, <1>12 DEF Keeps
<1> HIDE DEF v
<1>16. q.view = v /\ q.clean
  <2>1. q.view = v /\ q.clean = (a.clean /\ SameCoins(outs, CCoins(t, h)))
    BY Zenon
  <2> HIDE DEF q
  <2> QED
    BY <1>10, <2>1
<1> HIDE DEF q
<1>17. Shows(f[Len(Ins[t])].view, L, H) /\ Keeps(q.view, f[Len(Ins[t])].view)
       /\ f[Len(Ins[t])].clean
  BY <1>14, <1>16, RestoreAll DEF M
<1> HIDE DEF f
<1>18. Keeps(a.view, f[Len(Ins[t])].view)
  BY <1>15, <1>16, <1>17 DEF Keeps
<1> QED
  BY <1>1, <1>17, <1>18 DEF Reverted

-----------------------------------------------------------------------------
(* Blocks and chains *)

BlockData == [vtx : Seq(Tx), vtxundo : Seq(Seq(Undo))]

\* What is unspent once the transactions in made are there and used is spent.
LiveOf(made, used) == (UNION {Outputs(t) : t \in made}) \ used

\* Transactions and spent outpoints of ch and the first i transactions of vtx.
Made(ch, vtx, i) == TxsOf(ch) \cup {vtx[k] : k \in 1..i}
Used(ch, vtx, i) == SpentIn(ch) \cup UNION {ToSet(Ins[vtx[k]]) : k \in 1..i}
LiveAt(ch, vtx, i) == LiveOf(Made(ch, vtx, i), Used(ch, vtx, i))
Live(ch) == LiveOf(TxsOf(ch), SpentIn(ch))

\* The height of each transaction; the next block's for those not in ch.
Heights(ch) == [t \in Tx |-> IF t \in TxsOf(ch) THEN HeightIn(ch, t) ELSE Len(ch)]

\* The transactions of a block at height h: one coinbase and no transaction twice.
Shape(vtx, h) ==
  /\ vtx \in Seq(Tx) /\ Len(vtx) >= 1
  /\ vtx[1] \in CoinbaseTx /\ CoinbaseHeight[vtx[1]] = h
  /\ \A i \in 2..Len(vtx) : vtx[i] \in SpendTx
  /\ \A i, j \in 1..Len(vtx) : vtx[i] = vtx[j] => i = j

\* The first i transactions are new, and spend only what is unspent then.
Spends(ch, vtx, i) ==
  \A k \in 1..i : vtx[k] \notin TxsOf(ch) /\ ToSet(Ins[vtx[k]]) \subseteq LiveAt(ch, vtx, k - 1)

\* Block b with its undo data fits on top of ch.
BlockFits(ch, b) ==
  /\ b \in BlockData /\ Shape(b.vtx, Len(ch)) /\ Spends(ch, b.vtx, Len(b.vtx))
  /\ \A i \in 2..Len(b.vtx) :
       UndoFits(b.vtxundo[i - 1], b.vtx[i], LiveAt(ch, b.vtx, i - 1), Heights(ch))

ChainOK(ch) ==
  /\ ch \in Seq(BlockData) /\ Len(ch) >= 1 /\ ch[1] = GenesisChain[1]
  /\ \A k \in 2..Len(ch) : BlockFits(SubSeq(ch, 1, k - 1), ch[k])

\* The unspent outputs, one by one.
LEMMA LiveOfIs ==
  ASSUME NEW made, made \subseteq Tx, NEW used
  PROVE  /\ LiveOf(made, used) \subseteq Outpoint
         /\ \A o : o \in LiveOf(made, used) <=> o[1] \in made /\ o \in Outputs(o[1]) /\ o \notin used
<1>1. \A t \in made : Outputs(t) \subseteq Outpoint /\ \A o \in Outputs(t) : o[1] = t
  BY OutputsOf
<1>2. LiveOf(made, used) \subseteq Outpoint
  BY <1>1 DEF LiveOf
<1>3. ASSUME NEW o, o \in LiveOf(made, used)
      PROVE  o[1] \in made /\ o \in Outputs(o[1]) /\ o \notin used
  <2>1. PICK t \in made : o \in Outputs(t)
    BY <1>3 DEF LiveOf
  <2>2. o[1] = t
    BY <1>1, <2>1
  <2> QED
    BY <1>3, <2>1, <2>2 DEF LiveOf
<1>4. ASSUME NEW o, o[1] \in made, o \in Outputs(o[1]), o \notin used
      PROVE  o \in LiveOf(made, used)
  BY <1>4 DEF LiveOf
<1> QED
  BY <1>2, <1>3, <1>4

\* A transaction of the chain is one of a block.
LEMMA TxsOfIs ==
  ASSUME NEW ch, ch \in Seq(BlockData)
  PROVE  /\ \A t : t \in TxsOf(ch) <=> \E k \in 1..Len(ch) : t \in ToSet(ch[k].vtx)
         /\ TxsOf(ch) \subseteq Tx
         /\ \A k \in 1..Len(ch) : /\ ch[k] \in BlockData
                                  /\ ch[k].vtx \in Seq(Tx)
                                  /\ ToSet(ch[k].vtx) = {ch[k].vtx[i] : i \in 1..Len(ch[k].vtx)}
<1>1. DOMAIN ch = 1..Len(ch) /\ \A k \in 1..Len(ch) : ch[k] \in BlockData
  OBVIOUS
<1>2. \A k \in 1..Len(ch) : ch[k].vtx \in Seq(Tx)
  BY <1>1 DEF BlockData
<1>3. \A k \in 1..Len(ch) : ToSet(ch[k].vtx) = {ch[k].vtx[i] : i \in 1..Len(ch[k].vtx)}
  BY <1>2 DEF ToSet
<1>4. \A t : t \in TxsOf(ch) <=> \E k \in 1..Len(ch) : t \in ToSet(ch[k].vtx)
  BY <1>1 DEF TxsOf
<1>5. ASSUME NEW k \in 1..Len(ch) PROVE ToSet(ch[k].vtx) \subseteq Tx
  <2>1. ch[k].vtx \in Seq(Tx)
    BY <1>2
  <2> DEFINE v == ch[k].vtx
  <2>2. \A i \in 1..Len(v) : v[i] \in Tx
    BY <2>1
  <2>3. ToSet(v) = {v[i] : i \in 1..Len(v)}
    BY <1>3
  <2> HIDE DEF v
  <2>4. ToSet(v) \subseteq Tx
    BY <2>2, <2>3
  <2> QED
    BY <2>4 DEF v
<1>6. TxsOf(ch) \subseteq Tx
  BY <1>4, <1>5
<1> QED
  BY <1>1, <1>2, <1>3, <1>4, <1>6

\* The part of a chain below a block.
LEMMA PrefixIs ==
  ASSUME NEW ch, ch \in Seq(BlockData), NEW k \in 1..Len(ch)
  PROVE  /\ SubSeq(ch, 1, k) \in Seq(BlockData) /\ Len(SubSeq(ch, 1, k)) = k
         /\ \A j \in 1..k : SubSeq(ch, 1, k)[j] = ch[j]
         /\ TxsOf(SubSeq(ch, 1, k)) \subseteq TxsOf(ch)
         /\ \A j \in 1..k : ToSet(ch[j].vtx) \subseteq TxsOf(SubSeq(ch, 1, k))
<1> DEFINE s == SubSeq(ch, 1, k)
<1>1. s \in Seq(BlockData) /\ Len(s) = k /\ \A j \in 1..k : s[j] = ch[j]
  OBVIOUS
<1> HIDE DEF s
<1>2. \A t : t \in TxsOf(s) <=> \E j \in 1..k : t \in ToSet(s[j].vtx)
  BY <1>1, TxsOfIs
<1>3. \A t : t \in TxsOf(ch) <=> \E j \in 1..Len(ch) : t \in ToSet(ch[j].vtx)
  BY TxsOfIs
<1>4. \A j \in 1..k : j \in 1..Len(ch)
  OBVIOUS
<1> QED
  BY <1>1, <1>2, <1>3, <1>4 DEF s

\* The unspent outputs before, within and after a block.
LEMMA LiveAtEnds ==
  ASSUME NEW ch, NEW vtx
  PROVE  LiveAt(ch, vtx, 0) = Live(ch)
BY DEF LiveAt, Live, Made, Used

\* What a chain says of one of its transactions.
InBlock(ch, t, k) ==
  /\ k \in 2..Len(ch) /\ t \in ToSet(ch[k].vtx)
  /\ HeightIn(ch, t) = k - 1
  /\ t \in CoinbaseTx => CoinbaseHeight[t] = k - 1

\* The transactions of a block, one by one.
LEMMA BlockTxs ==
  ASSUME NEW ch, ch \in Seq(BlockData)
  PROVE  \A j \in 1..Len(ch) : ToSet(ch[j].vtx) = {ch[j].vtx[i] : i \in 1..Len(ch[j].vtx)}
<1> TAKE j \in 1..Len(ch)
<1>1. ch[j] \in BlockData
  OBVIOUS
<1> DEFINE b == ch[j]
<1> HIDE DEF b
<1>2. b.vtx \in Seq(Tx)
  BY <1>1 DEF b, BlockData
<1>3. ToSet(b.vtx) = {b.vtx[i] : i \in 1..Len(b.vtx)}
  BY <1>2 DEF ToSet
<1> QED
  BY <1>3 DEF b

\* The block that has a transaction gives its height.
LEMMA BlockOf ==
  ASSUME NEW ch, ChainOK(ch), NEW k \in 1..Len(ch), NEW t \in ToSet(ch[k].vtx)
  PROVE  InBlock(ch, t, k)
<1>1. ch \in Seq(BlockData) /\ Len(ch) \in Nat /\ Len(ch) >= 1
      /\ \A j \in 2..Len(ch) : BlockFits(SubSeq(ch, 1, j - 1), ch[j])
  BY DEF ChainOK
<1>2. t \in ToSet(ch[k].vtx)
  OBVIOUS
<1>3. \A j \in 1..Len(ch) : ToSet(ch[j].vtx) = {ch[j].vtx[i] : i \in 1..Len(ch[j].vtx)}
  BY <1>1, BlockTxs
<1>4. k # 1
  <2>1. SUFFICES ASSUME k = 1 PROVE FALSE
    OBVIOUS
  <2>2. ch[1].vtx = <<>>
    BY DEF ChainOK, GenesisChain
  <2>3. ToSet(<<>>) = {}
    BY DEF ToSet
  <2> QED
    BY <1>2, <2>1, <2>2, <2>3
<1>5. k \in 2..Len(ch)
  BY <1>1, <1>4
\* No later block has a transaction of an earlier one.
<1>6. ASSUME NEW j \in 2..Len(ch), NEW m \in 1..(j - 1), NEW x \in ToSet(ch[m].vtx)
      PROVE  x \notin ToSet(ch[j].vtx)
  <2> DEFINE s == SubSeq(ch, 1, j - 1)
             v == ch[j].vtx
  <2>1. j - 1 \in 1..Len(ch)
    BY <1>1
  <2>2. x \in TxsOf(s)
    BY <1>1, <2>1, PrefixIs
  <2>3. BlockFits(s, ch[j])
    BY <1>1
  <2> HIDE DEF s
  <2>4. \A i \in 1..Len(v) : v[i] \notin TxsOf(s)
    BY <2>3 DEF BlockFits, Spends
  <2>5. ToSet(v) = {v[i] : i \in 1..Len(v)}
    <3>1. j \in 1..Len(ch)
      BY <1>1
    <3> QED
      BY <1>3, <3>1
  <2> HIDE DEF v
  <2>6. x \notin ToSet(v)
    BY <2>2, <2>4, <2>5
  <2> QED
    BY <2>6 DEF v
<1>7. \A h \in 0..Height(ch) : t \in ToSet(ch[h + 1].vtx) <=> h = k - 1
  <2>1. \A j \in 1..Len(ch) : t \in ToSet(ch[j].vtx) => j = k
    <3>1. SUFFICES ASSUME NEW j \in 1..Len(ch), t \in ToSet(ch[j].vtx), j # k PROVE FALSE
      OBVIOUS
    <3>2. CASE j < k
      <4>1. j \in 1..(k - 1)
        BY <1>1, <3>2
      <4> QED
        BY <1>2, <1>5, <1>6, <3>1, <4>1
    <3>3. CASE k < j
      <4>1. k \in 1..(j - 1) /\ j \in 2..Len(ch)
        BY <1>1, <3>3
      <4> QED
        BY <1>2, <1>6, <3>1, <4>1
    <3> QED
      BY <1>1, <3>1, <3>2, <3>3
  <2>2. ASSUME NEW h \in 0..Height(ch)
        PROVE  t \in ToSet(ch[h + 1].vtx) <=> h = k - 1
    <3>1. h + 1 \in 1..Len(ch)
      BY <1>1 DEF Height
    <3>2. t \in ToSet(ch[h + 1].vtx) => h + 1 = k
      BY <2>1, <3>1
    <3>3. h = k - 1 => ch[h + 1] = ch[k]
      BY <1>1, <3>1
    <3> QED
      BY <1>1, <1>2, <3>1, <3>2, <3>3
  <2> QED
    BY <2>2
<1>8. HeightIn(ch, t) = k - 1
  <2>1. k - 1 \in 0..Height(ch)
    BY <1>1, <1>5 DEF Height
  <2>2. \E h \in 0..Height(ch) : t \in ToSet(ch[h + 1].vtx)
    BY <1>7, <2>1
  <2>3. HeightIn(ch, t) \in 0..Height(ch) /\ t \in ToSet(ch[HeightIn(ch, t) + 1].vtx)
    BY <2>2, Zenon DEF HeightIn
  <2> QED
    BY <1>7, <2>3
<1>9. ASSUME t \in CoinbaseTx
      PROVE  CoinbaseHeight[t] = k - 1
  <2> DEFINE s == SubSeq(ch, 1, k - 1)
             v == ch[k].vtx
  <2>1. BlockFits(s, ch[k]) /\ Len(s) = k - 1
    BY <1>1, <1>5
  <2>2. Shape(v, k - 1)
    BY <2>1 DEF BlockFits
  <2>3. ToSet(v) = {v[i] : i \in 1..Len(v)}
    BY <1>3
  <2> HIDE DEF v
  <2>4. PICK i \in 1..Len(v) : t = v[i]
    BY <1>2, <2>3 DEF v
  <2>5. i = 1
    <3>1. i # 1 => i \in 2..Len(v)
      BY <2>2 DEF Shape
    <3> QED
      BY <1>9, <2>2, <2>4, <3>1, CoinsAssumption DEF Shape
  <2> QED
    BY <2>2, <2>4, <2>5 DEF Shape
<1> QED
  BY <1>2, <1>5, <1>8, <1>9 DEF InBlock

\* Every transaction of a chain is in a block.
LEMMA OneBlock ==
  ASSUME NEW ch, ChainOK(ch), NEW t \in TxsOf(ch)
  PROVE  \E k \in 2..Len(ch) : InBlock(ch, t, k)
<1>1. PICK k \in 1..Len(ch) : t \in ToSet(ch[k].vtx)
  BY TxsOfIs DEF ChainOK
<1>2. InBlock(ch, t, k)
  BY <1>1, BlockOf
<1> QED
  BY <1>2 DEF InBlock

\* Only what was made is spent, within a block and in a chain.
LEMMA UsedMade ==
  ASSUME NEW ch, TxsOf(ch) \subseteq Tx, \A o \in SpentIn(ch) : o[1] \in TxsOf(ch),
         NEW vtx, NEW n \in Nat, \A k \in 1..n : vtx[k] \in Tx, Spends(ch, vtx, n)
  PROVE  \A o \in Used(ch, vtx, n) : o[1] \in Made(ch, vtx, n)
<1> SUFFICES ASSUME NEW o \in Used(ch, vtx, n) PROVE o[1] \in Made(ch, vtx, n)
  OBVIOUS
<1>1. CASE o \in SpentIn(ch)
  BY <1>1 DEF Made
<1>2. CASE o \notin SpentIn(ch)
  <2>1. PICK k \in 1..n : o \in ToSet(Ins[vtx[k]])
    BY <1>2 DEF Used
  <2>2. o \in LiveAt(ch, vtx, k - 1)
    BY <2>1 DEF Spends
  <2>3. Made(ch, vtx, k - 1) \subseteq Tx /\ Made(ch, vtx, k - 1) \subseteq Made(ch, vtx, n)
    BY DEF Made
  <2>4. o[1] \in Made(ch, vtx, k - 1)
    BY <2>2, <2>3, LiveOfIs DEF LiveAt
  <2> QED
    BY <2>3, <2>4
<1> QED
  BY <1>1, <1>2

\* A chain spends outputs of its own transactions only.
LEMMA SpentMade ==
  ASSUME NEW ch, ChainOK(ch)
  PROVE  \A o \in SpentIn(ch) : o[1] \in TxsOf(ch)
<1> SUFFICES ASSUME NEW o \in SpentIn(ch) PROVE o[1] \in TxsOf(ch)
  OBVIOUS
<1>1. ch \in Seq(BlockData) /\ Len(ch) \in Nat
  BY DEF ChainOK
<1>2. PICK t \in TxsOf(ch) : o \in ToSet(Ins[t])
  BY DEF SpentIn
<1>3. PICK k \in 2..Len(ch) : InBlock(ch, t, k)
  BY OneBlock
<1> DEFINE s == SubSeq(ch, 1, k - 1)
           v == ch[k].vtx
<1>4. k - 1 \in 1..Len(ch) /\ k \in 1..Len(ch)
  BY <1>1
<1>5. TxsOf(s) \subseteq TxsOf(ch) /\ TxsOf(s) \subseteq Tx
  <2>1. s \in Seq(BlockData) /\ TxsOf(s) \subseteq TxsOf(ch)
    BY <1>1, <1>4, PrefixIs
  <2> HIDE DEF s
  <2> QED
    BY <2>1, TxsOfIs
<1>6. BlockFits(s, ch[k])
  BY DEF ChainOK
<1> HIDE DEF s
<1>7. ToSet(v) = {v[i] : i \in 1..Len(v)} /\ v \in Seq(Tx) /\ ToSet(v) \subseteq TxsOf(ch)
  <2>1. v \in Seq(Tx) /\ ToSet(v) = {v[i] : i \in 1..Len(v)}
    <3>1. ch[k] \in BlockData
      BY <1>1, <1>4
    <3>2. v \in Seq(Tx)
      BY <3>1 DEF BlockData
    <3>3. ToSet(v) = {v[i] : i \in 1..Len(v)}
      BY <1>1, <1>4, BlockTxs
    <3> QED
      BY <3>2, <3>3
  <2>2. ToSet(v) \subseteq TxsOf(ch)
    <3> SUFFICES ASSUME NEW x \in ToSet(v) PROVE x \in TxsOf(ch)
      OBVIOUS
    <3>1. \E j \in 1..Len(ch) : x \in ToSet(ch[j].vtx)
      BY <1>4
    <3> QED
      BY <1>1, <3>1, TxsOfIs
  <2> QED
    BY <2>1, <2>2
<1>8. t \in ToSet(v) /\ Spends(s, v, Len(v))
  BY <1>3, <1>6 DEF InBlock, BlockFits
<1> HIDE DEF v
<1>9. PICK i \in 1..Len(v) : t = v[i]
  BY <1>7, <1>8
<1>10. o \in LiveAt(s, v, i - 1)
  BY <1>2, <1>8, <1>9 DEF Spends
<1>11. \A j \in 1..Len(v) : v[j] \in Tx /\ v[j] \in TxsOf(ch)
  BY <1>7
<1>12. Made(s, v, i - 1) \subseteq Tx /\ Made(s, v, i - 1) \subseteq TxsOf(ch)
  <2>1. \A j \in 1..(i - 1) : j \in 1..Len(v)
    BY <1>7
  <2> QED
    BY <1>5, <1>11, <2>1 DEF Made
<1> QED
  BY <1>10, <1>12, LiveOfIs DEF LiveAt

\* What one more transaction does to the unspent outputs.
LEMMA NextLive ==
  ASSUME NEW ch, ChainOK(ch), NEW vtx, Shape(vtx, Len(ch)), NEW i \in 1..Len(vtx),
         Spends(ch, vtx, i)
  PROVE  LET L == LiveAt(ch, vtx, i - 1)
             t == vtx[i]
         IN /\ t \in Tx /\ L \subseteq Outpoint /\ ToSet(Ins[t]) \subseteq L
            /\ \A n \in Nat \ {0} : <<t, n>> \notin L
            /\ LiveAt(ch, vtx, i) = (L \ ToSet(Ins[t])) \cup Outputs(t)
<1> DEFINE t == vtx[i]
           L == LiveAt(ch, vtx, i - 1)
           A == Made(ch, vtx, i - 1)
           U == Used(ch, vtx, i - 1)
<1>1. /\ vtx \in Seq(Tx) /\ Len(vtx) \in Nat /\ t \in Tx
      /\ \A j, k \in 1..Len(vtx) : vtx[j] = vtx[k] => j = k
      /\ \A k \in 1..Len(vtx) : vtx[k] \in Tx
  <2>1. vtx \in Seq(Tx)
    BY DEF Shape
  <2> QED
    BY <2>1 DEF Shape
<1>2. TxsOf(ch) \subseteq Tx /\ \A o \in SpentIn(ch) : o[1] \in TxsOf(ch)
  BY SpentMade, TxsOfIs DEF ChainOK
<1>3. A \subseteq Tx
  BY <1>1, <1>2 DEF Made
<1>4. \A o \in U : o[1] \in A
  <2>1. i - 1 \in Nat /\ \A k \in 1..(i - 1) : vtx[k] \in Tx
    BY <1>1
  <2>2. Spends(ch, vtx, i - 1)
    BY <1>1 DEF Spends
  <2> QED
    BY <1>2, <2>1, <2>2, UsedMade
<1>5. t \notin A
  <2>1. t \notin TxsOf(ch)
    BY DEF Spends
  <2>2. \A k \in 1..(i - 1) : vtx[k] # t
    BY <1>1
  <2> QED
    BY <2>1, <2>2 DEF Made
<1>6. ToSet(Ins[t]) \subseteq L
  BY DEF Spends
<1>7. 1..i = (1..(i - 1)) \cup {i}
  BY <1>1
<1>8. Made(ch, vtx, i) = A \cup {t}
  BY <1>7 DEF Made
<1>9. Used(ch, vtx, i) = U \cup ToSet(Ins[t])
  BY <1>7 DEF Used
<1> HIDE DEF t, A, U
<1>10. L = LiveOf(A, U) /\ LiveAt(ch, vtx, i) = LiveOf(A \cup {t}, U \cup ToSet(Ins[t]))
  BY <1>8, <1>9 DEF LiveAt, A, U
<1> HIDE DEF L
<1>11. /\ L \subseteq Outpoint
       /\ \A o : o \in L <=> o[1] \in A /\ o \in Outputs(o[1]) /\ o \notin U
  BY <1>3, <1>10, LiveOfIs
<1>12. A \cup {t} \subseteq Tx /\ t \in Tx
  BY <1>1, <1>3 DEF t
<1>13. \A o : o \in LiveAt(ch, vtx, i) <=>
               o[1] \in A \cup {t} /\ o \in Outputs(o[1]) /\ o \notin U \cup ToSet(Ins[t])
  BY <1>10, <1>12, LiveOfIs
<1>14. \A n \in Nat \ {0} : <<t, n>> \notin L
  <2>1. \A n \in Nat \ {0} : <<t, n>>[1] = t
    OBVIOUS
  <2> QED
    BY <1>5, <1>11, <2>1
<1>15. \A o \in Outputs(t) : o[1] = t
  BY <1>12, OutputsOf
<1>16. LiveAt(ch, vtx, i) = (L \ ToSet(Ins[t])) \cup Outputs(t)
  <2>1. ASSUME NEW o \in LiveAt(ch, vtx, i)
        PROVE  o \in (L \ ToSet(Ins[t])) \cup Outputs(t)
    BY <1>11, <1>13
  <2>2. ASSUME NEW o \in L, o \notin ToSet(Ins[t])
        PROVE  o \in LiveAt(ch, vtx, i)
    BY <1>11, <1>13, <2>2
  <2>3. ASSUME NEW o \in Outputs(t)
        PROVE  o \in LiveAt(ch, vtx, i)
    <3>1. o[1] = t
      BY <1>15
    <3>2. o \notin U
      BY <1>4, <1>5, <3>1
    <3>3. o \notin ToSet(Ins[t])
      BY <1>5, <1>6, <1>11, <3>1
    <3> QED
      BY <1>13, <3>1, <3>2, <3>3
  <2> QED
    BY <2>1, <2>2, <2>3
<1> QED
  BY <1>6, <1>11, <1>12, <1>14, <1>16 DEF L, t

\* A transaction that spends what is unspent is not in the chain yet.
LEMMA FreshTx ==
  ASSUME NEW ch, ChainOK(ch), NEW vtx, Shape(vtx, Len(ch)), NEW i \in 1..Len(vtx),
         ToSet(Ins[vtx[i]]) \subseteq LiveAt(ch, vtx, i - 1)
  PROVE  vtx[i] \notin TxsOf(ch)
<1> DEFINE t == vtx[i]
<1> SUFFICES ASSUME t \in TxsOf(ch) PROVE FALSE
  OBVIOUS
<1>1. vtx \in Seq(Tx) /\ Len(vtx) \in Nat /\ t \in Tx /\ ch \in Seq(BlockData) /\ Len(ch) \in Nat
  <2>1. vtx \in Seq(Tx) /\ ch \in Seq(BlockData)
    BY DEF Shape, ChainOK
  <2> QED
    BY <2>1
<1>2. CASE t \in CoinbaseTx
  <2>1. i = 1
    <3>1. i # 1 => i \in 2..Len(vtx)
      BY <1>1
    <3> QED
      BY <1>2, <3>1, CoinsAssumption DEF Shape
  <2>2. CoinbaseHeight[t] = Len(ch)
    BY <2>1 DEF Shape
  <2>3. PICK k \in 2..Len(ch) : InBlock(ch, t, k)
    BY OneBlock
  <2>4. CoinbaseHeight[t] = k - 1
    BY <1>2, <2>3 DEF InBlock
  <2> QED
    BY <1>1, <2>2, <2>4
<1>3. CASE t \notin CoinbaseTx
  <2>1. Ins[t] # <<>> /\ Ins[t] \in Seq(Outpoint)
    BY <1>1, <1>3, TxIs
  <2>2. Ins[t][1] \in ToSet(Ins[t])
    BY <2>1 DEF ToSet
  <2>3. Ins[t][1] \in SpentIn(ch)
    BY <2>2 DEF SpentIn
  <2>4. Ins[t][1] \in Used(ch, vtx, i - 1)
    BY <2>3 DEF Used
  <2>5. Ins[t][1] \in LiveAt(ch, vtx, i - 1)
    BY <2>2
  <2> QED
    BY <2>4, <2>5 DEF LiveAt, LiveOf
<1> QED
  BY <1>2, <1>3

\* Heights are positive, and the height of a coinbase is the one it commits to.
LEMMA HeightsAre ==
  ASSUME NEW ch, ChainOK(ch), NEW vtx, Shape(vtx, Len(ch)), NEW i \in 1..Len(vtx),
         Spends(ch, vtx, i - 1)
  PROVE  /\ Heights(ch) \in [Tx -> Nat]
         /\ \A t \in Tx : Heights(ch)[t] # 0
         /\ vtx[i] \notin TxsOf(ch) => Heights(ch)[vtx[i]] = Len(ch)
         /\ \A t \in Made(ch, vtx, i - 1) :
              t \in CoinbaseTx => Heights(ch)[t] = CoinbaseHeight[t]
<1>1. ch \in Seq(BlockData) /\ Len(ch) \in Nat /\ Len(ch) >= 1 /\ TxsOf(ch) \subseteq Tx
      /\ vtx \in Seq(Tx) /\ Len(vtx) \in Nat
  <2>1. ch \in Seq(BlockData) /\ vtx \in Seq(Tx)
    BY DEF ChainOK, Shape
  <2> QED
    BY <2>1, TxsOfIs DEF ChainOK
<1>2. \A t \in Tx : Heights(ch)[t] = IF t \in TxsOf(ch) THEN HeightIn(ch, t) ELSE Len(ch)
  BY DEF Heights
<1>3. \A t \in TxsOf(ch) : /\ HeightIn(ch, t) \in Nat \ {0}
                           /\ t \in CoinbaseTx => HeightIn(ch, t) = CoinbaseHeight[t]
  BY <1>1, OneBlock DEF InBlock
<1>4. \A t \in Tx : Heights(ch)[t] \in Nat \ {0}
  BY <1>1, <1>2, <1>3
<1>5. Heights(ch) \in [Tx -> Nat]
  BY <1>4 DEF Heights
<1>6. vtx[i] \in Tx
  BY <1>1
<1>7. ASSUME NEW t \in Made(ch, vtx, i - 1), t \in CoinbaseTx
      PROVE  Heights(ch)[t] = CoinbaseHeight[t]
  <2>1. CASE t \in TxsOf(ch)
    BY <1>1, <1>2, <1>3, <1>7, <2>1
  <2>2. CASE t \notin TxsOf(ch)
    <3>1. PICK k \in 1..(i - 1) : t = vtx[k]
      BY <2>2 DEF Made
    <3>2. k \in 1..Len(vtx) /\ t \in Tx
      BY <1>1, <3>1
    <3>3. k = 1
      <4>1. k # 1 => k \in 2..Len(vtx)
        BY <3>2
      <4> QED
        BY <1>7, <3>1, <4>1, CoinsAssumption DEF Shape
    <3>4. CoinbaseHeight[t] = Len(ch)
      BY <3>1, <3>3 DEF Shape
    <3> QED
      BY <1>2, <2>2, <3>2, <3>4
  <2> QED
    BY <2>1, <2>2
<1> QED
  BY <1>2, <1>4, <1>5, <1>6, <1>7


-----------------------------------------------------------------------------
(* Connecting a block *)

\* Transaction i of the block is acceptable: the last condition of Acceptable.
ReadyOutput(ch, vtx, i, o) ==
  LET before == {vtx[j] : j \in 1..(i - 1)}
  IN /\ \/ o[2] \in UnspentOf(ch, o[1])
        \/ o[1] \in before /\ o[2] \in 1..NumOut[o[1]] /\ o \notin Unspendable
     /\ \A t \in before : o \notin ToSet(Ins[t])
RipeOutput(ch, o) ==
  o[1] \in CoinbaseTx => Len(ch) - CoinbaseHeight[o[1]] >= COINBASE_MATURITY
AcceptTx(ch, vtx, i) ==
  \A o \in ToSet(Ins[vtx[i]]) : ReadyOutput(ch, vtx, i, o) /\ RipeOutput(ch, o)

\* An outpoint can be spent when it is unspent after the transactions before.
LEMMA ReadyIs ==
  ASSUME NEW ch, ChainOK(ch), NEW vtx, Shape(vtx, Len(ch)), NEW i \in 1..Len(vtx),
         Spends(ch, vtx, i - 1), NEW o \in Outpoint
  PROVE  ReadyOutput(ch, vtx, i, o) <=> o \in LiveAt(ch, vtx, i - 1)
<1> DEFINE m == i - 1
           before == {vtx[j] : j \in 1..m}
<1>1. m \in Nat /\ \A j \in 1..m : j \in 1..Len(vtx)
  BY DEF Shape
<1>2. TxsOf(ch) \subseteq Tx /\ before \subseteq Tx
  <2>1. TxsOf(ch) \subseteq Tx
    BY TxsOfIs DEF ChainOK
  <2>2. \A j \in 1..m : vtx[j] \in Tx
    BY <1>1 DEF Shape
  <2> QED
    BY <2>1, <2>2
<1>3. Made(ch, vtx, m) = TxsOf(ch) \cup before /\ Made(ch, vtx, m) \subseteq Tx
  BY <1>2 DEF Made
<1>4. o \in LiveAt(ch, vtx, m) <=> /\ o[1] \in TxsOf(ch) \cup before
                                   /\ o \in Outputs(o[1]) /\ o \notin Used(ch, vtx, m)
  <2> DEFINE made == Made(ch, vtx, m)
             used == Used(ch, vtx, m)
  <2>1. LiveAt(ch, vtx, m) = LiveOf(made, used) /\ made \subseteq Tx
    BY <1>3 DEF LiveAt
  <2>2. made = TxsOf(ch) \cup before
    BY <1>3
  <2> HIDE DEF made, used, m, before
  <2>3. \A x : x \in LiveOf(made, used) <=> x[1] \in made /\ x \in Outputs(x[1]) /\ x \notin used
    BY <2>1, LiveOfIs
  <2> QED
    BY <2>1, <2>2, <2>3, Zenon DEF used
<1>5. o \notin Used(ch, vtx, m) <=> o \notin SpentIn(ch) /\ \A t \in before : o \notin ToSet(Ins[t])
  BY DEF Used
<1>6. o = <<o[1], o[2]>> /\ o[1] \in Tx /\ o[2] \in Nat \ {0}
  BY OutpointIs
<1>7. o \in Outputs(o[1]) <=> o[2] \in 1..NumOut[o[1]] /\ o \notin Unspendable
  <2>1. <<o[1], o[2]>> \in Outputs(o[1]) <=> o[2] \in 1..NumOut[o[1]] /\ <<o[1], o[2]>> \notin Unspendable
    BY <1>6, OutputsOf
  <2> QED
    BY <1>6, <2>1
<1>8. o[2] \in UnspentOf(ch, o[1]) <=> /\ o[2] \in 1..NumOut[o[1]] /\ o[1] \in TxsOf(ch)
                                       /\ o \notin SpentIn(ch) /\ o \notin Unspendable
  BY <1>6 DEF UnspentOf
<1>9. o[1] \in before => o \notin SpentIn(ch)
  <2>1. \A t \in before : t \notin TxsOf(ch)
    BY DEF Spends
  <2> QED
    BY <2>1, SpentMade
<1>10. ReadyOutput(ch, vtx, i, o) <=>
         /\ \/ o[2] \in UnspentOf(ch, o[1])
            \/ o[1] \in before /\ o[2] \in 1..NumOut[o[1]] /\ o \notin Unspendable
         /\ \A t \in before : o \notin ToSet(Ins[t])
  BY DEF ReadyOutput
<1> HIDE DEF m, before
<1>11. ReadyOutput(ch, vtx, i, o) <=> o \in LiveAt(ch, vtx, m)
  BY <1>4, <1>5, <1>7, <1>8, <1>9, <1>10, Zenon
<1> QED
  BY <1>11 DEF m

\* The inputs of a transaction pass when it is acceptable.
LEMMA AcceptMeans ==
  ASSUME NEW ch, ChainOK(ch), NEW vtx, Shape(vtx, Len(ch)), NEW i \in 1..Len(vtx),
         Spends(ch, vtx, i - 1),
         NEW view, Shows(view, LiveAt(ch, vtx, i - 1), Heights(ch))
  PROVE  /\ InputsOK(view, vtx[i], Len(ch)) <=> AcceptTx(ch, vtx, i)
         /\ AcceptTx(ch, vtx, i) => ToSet(Ins[vtx[i]]) \subseteq LiveAt(ch, vtx, i - 1)
<1> DEFINE t == vtx[i]
           m == i - 1
           L == LiveAt(ch, vtx, m)
           H == Heights(ch)
<1>1. t \in Tx
  BY DEF Shape
<1>2. m \in Nat /\ \A j \in 1..m : vtx[j] \in Tx
  BY DEF Shape
<1>3. Made(ch, vtx, m) \subseteq Tx
  <2>1. TxsOf(ch) \subseteq Tx
    BY TxsOfIs DEF ChainOK
  <2> QED
    BY <1>2, <2>1 DEF Made
<1>4. L \subseteq Outpoint /\ \A o \in L : o[1] \in Made(ch, vtx, m)
  <2> HIDE DEF m
  <2> QED
    BY <1>3, LiveOfIs DEF LiveAt
<1>5. H \in [Tx -> Nat] /\ \A x \in Made(ch, vtx, m) : x \in CoinbaseTx => H[x] = CoinbaseHeight[x]
  BY HeightsAre
<1>6. DOMAIN Ins[t] = 1..Len(Ins[t]) /\ ToSet(Ins[t]) \subseteq Outpoint
  BY <1>1, InputsAre
<1>7. \A o \in ToSet(Ins[t]) : ReadyOutput(ch, vtx, i, o) <=> o \in L
  BY <1>6, ReadyIs
<1>8. Shows(view, L, H)
  OBVIOUS
<1> HIDE DEF L, H
<1>9. \A o \in Outpoint : /\ IsAvailable(view[o[1]], o[2]) <=> o \in L
                          /\ o \in L => HaveCoins(view, o[1])
  <2> TAKE o \in Outpoint
  <2>1. o = <<o[1], o[2]>> /\ o[1] \in Tx /\ o[2] \in Nat \ {0}
    BY OutpointIs
  <2>2. view[o[1]] \in Entry /\ Good(view[o[1]], o[1], L, H[o[1]])
    BY <1>8, <2>1 DEF Shows
  <2>3. IsAvailable(view[o[1]], o[2]) <=> <<o[1], o[2]>> \in L
    BY <1>4, <2>1, <2>2, GoodMeans
  <2>4. ~IsAvailable(Absent, o[2])
    BY DEF IsAvailable, Absent
  <2> QED
    BY <2>1, <2>3, <2>4 DEF HaveCoins
<1>10. \A o \in L : /\ view[o[1]].fCoinBase <=> o[1] \in CoinbaseTx
                    /\ o[1] \in CoinbaseTx => view[o[1]].nHeight = CoinbaseHeight[o[1]]
  <2> TAKE o \in L
  <2>1. o = <<o[1], o[2]>> /\ o[1] \in Tx /\ o[2] \in Nat \ {0}
    BY <1>4, OutpointIs
  <2>2. view[o[1]] \in Entry /\ Good(view[o[1]], o[1], L, H[o[1]])
    BY <1>8, <2>1 DEF Shows
  <2>3. Len(view[o[1]].vout) > 0
    <3>1. o[2] <= Len(view[o[1]].vout)
      BY <2>1, <2>2 DEF Good
    <3>2. Len(view[o[1]].vout) \in Nat
      BY <2>1, <2>2, EntryOutputs
    <3> QED
      BY <2>1, <3>1, <3>2
  <2>4. view[o[1]].nHeight = H[o[1]] /\ (view[o[1]].fCoinBase <=> o[1] \in CoinbaseTx)
    BY <2>2, <2>3 DEF Good
  <2> QED
    BY <1>4, <1>5, <2>4
<1>11. CASE t \in CoinbaseTx
  <2>1. Ins[t] = <<>>
    BY <1>1, <1>11, TxIs
  <2>2. ToSet(Ins[t]) = {}
    BY <2>1 DEF ToSet
  <2> QED
    BY <1>11, <2>2 DEF InputsOK, AcceptTx
<1>12. CASE t \notin CoinbaseTx
  <2>1. HaveInputs(view, t) <=> ToSet(Ins[t]) \subseteq L
    <3>1. HaveInputs(view, t) <=>
            \A o \in ToSet(Ins[t]) : HaveCoins(view, o[1]) /\ IsAvailable(view[o[1]], o[2])
      BY DEF HaveInputs, ToSet
    <3> HIDE DEF t
    <3> QED
      BY <1>6, <1>9, <3>1
  <2>2. ToSet(Ins[t]) \subseteq L =>
          (Mature(view, t, Len(ch)) <=> \A o \in ToSet(Ins[t]) : RipeOutput(ch, o))
    <3>1. Mature(view, t, Len(ch)) <=>
            \A o \in ToSet(Ins[t]) : view[o[1]].fCoinBase => Len(ch) - view[o[1]].nHeight >= COINBASE_MATURITY
      BY DEF Mature, ToSet
    <3> HIDE DEF t
    <3> QED
      BY <1>10, <3>1 DEF RipeOutput
  <2>3. AcceptTx(ch, vtx, i) <=> ToSet(Ins[t]) \subseteq L /\ \A o \in ToSet(Ins[t]) : RipeOutput(ch, o)
    BY <1>7 DEF AcceptTx
  <2> QED
    BY <1>12, <2>1, <2>2, <2>3 DEF InputsOK, L
<1> QED
  BY <1>11, <1>12


\* What ConnectBlock and the loop of UpdateCoins keep: whether all is well, the
\* view and the undo data.
Acc(a) == a = [ok |-> a.ok, view |-> a.view, vtxundo |-> a.vtxundo] /\ a.ok \in BOOLEAN

\* u is the undo data of the first i transactions; the coinbase has none.
UndoUpTo(ch, vtx, u, i) ==
  /\ u \in Seq(Seq(Undo)) /\ Len(u) = IF i = 0 THEN 0 ELSE i - 1
  /\ \A k \in 2..i : UndoFits(u[k - 1], vtx[k], LiveAt(ch, vtx, k - 1), Heights(ch))

\* a is what the first i transactions make of a view of ch.
Connected(ch, vtx, view, a, i) ==
  /\ Shows(a.view, LiveAt(ch, vtx, i), Heights(ch)) /\ Keeps(view, a.view)
  /\ Spends(ch, vtx, i) /\ UndoUpTo(ch, vtx, a.vtxundo, i)

\* Absence of entries is kept step by step.
LEMMA KeepsOn ==
  ASSUME NEW u, NEW v, NEW w, Keeps(u, v), Keeps(v, w)
  PROVE  Keeps(u, w)
BY DEF Keeps

\* The undo data grows with each transaction but the coinbase.
LEMMA UndoNext ==
  ASSUME NEW ch, NEW vtx, Shape(vtx, Len(ch)), NEW i \in 1..Len(vtx), NEW u,
         UndoUpTo(ch, vtx, u, i - 1), NEW p,
         TxUndo(p, vtx[i], LiveAt(ch, vtx, i - 1), Heights(ch))
  PROVE  UndoUpTo(ch, vtx, IF vtx[i] \in CoinbaseTx THEN u ELSE Append(u, p), i)
<1> DEFINE w == IF vtx[i] \in CoinbaseTx THEN u ELSE Append(u, p)
           Fit(q, k) == UndoFits(q, vtx[k], LiveAt(ch, vtx, k - 1), Heights(ch))
<1>1. vtx[1] \in CoinbaseTx /\ \A k \in 2..Len(vtx) : vtx[k] \notin CoinbaseTx
  BY CoinsAssumption DEF Shape
<1>2. /\ u \in Seq(Seq(Undo)) /\ Len(u) = IF i - 1 = 0 THEN 0 ELSE i - 2
      /\ \A k \in 2..(i - 1) : Fit(u[k - 1], k)
  BY DEF UndoUpTo, Shape
<1>3. p \in Seq(Undo) /\ Fit(p, i)
  BY DEF TxUndo, UndoFits
<1>4. i \in Nat /\ Len(vtx) \in Nat
  BY DEF Shape
<1> HIDE DEF Fit
<1>5. CASE i = 1
  <2>1. w = u /\ Len(u) = 0 /\ 2..1 = {}
    BY <1>1, <1>2, <1>5
  <2>2. \A k \in 2..i : Fit(w[k - 1], k)
    BY <1>5
  <2> HIDE DEF w
  <2> QED
    BY <1>2, <1>5, <2>1, <2>2 DEF UndoUpTo, Fit, w
<1>6. CASE i # 1
  <2>1. w = Append(u, p) /\ Len(u) = i - 2 /\ i >= 2
    BY <1>1, <1>2, <1>4, <1>6
  <2>2. w \in Seq(Seq(Undo)) /\ Len(w) = i - 1
    BY <1>2, <1>3, <1>4, <2>1
  <2>3. \A k \in 2..(i - 1) : w[k - 1] = u[k - 1]
    BY <1>2, <1>4, <2>1
  <2>4. w[i - 1] = p
    BY <1>2, <1>4, <2>1
  <2> HIDE DEF w
  <2>5. \A k \in 2..i : Fit(w[k - 1], k)
    <3> TAKE k \in 2..i
    <3>1. CASE k = i
      BY <1>3, <2>4, <3>1
    <3>2. CASE k # i
      <4>1. k \in 2..(i - 1)
        BY <1>4, <3>2
      <4> QED
        BY <1>2, <2>3, <4>1
    <3> QED
      BY <3>1, <3>2
  <2>6. /\ w \in Seq(Seq(Undo)) /\ Len(w) = IF i = 0 THEN 0 ELSE i - 1
        /\ \A k \in 2..i : UndoFits(w[k - 1], vtx[k], LiveAt(ch, vtx, k - 1), Heights(ch))
    BY <1>4, <2>1, <2>2, <2>5 DEF Fit
  <2>7. UndoUpTo(ch, vtx, w, i)
    BY <2>6, Zenon DEF UndoUpTo
  <2> QED
    BY <2>7 DEF w
<1> QED
  BY <1>5, <1>6

\* The shape of what UpdateCoins returns.
LEMMA UpdateAcc ==
  ASSUME NEW a, NEW t, NEW h
  PROVE  Acc(UpdateCoins(a, t, h)) /\ UpdateCoins(a, t, h).ok
<1>1. \E v, w : UpdateCoins(a, t, h) = [ok |-> TRUE, view |-> v, vtxundo |-> w]
  BY Zenon DEF UpdateCoins
<1> QED
  BY <1>1 DEF Acc

\* One transaction more.
LEMMA ConnectStep ==
  ASSUME NEW ch, ChainOK(ch), NEW vtx, Shape(vtx, Len(ch)), NEW i \in 1..Len(vtx),
         NEW view, NEW a, Acc(a), a.ok => Connected(ch, vtx, view, a, i - 1)
  PROVE  LET r == ConnectTx(a, vtx[i], Len(ch))
         IN /\ Acc(r)
            /\ r.ok <=> a.ok /\ AcceptTx(ch, vtx, i)
            /\ r.ok => Connected(ch, vtx, view, r, i)
<1> DEFINE t == vtx[i]
           L == LiveAt(ch, vtx, i - 1)
           H == Heights(ch)
           r == ConnectTx(a, t, Len(ch))
<1>1. a.ok => /\ Shows(a.view, L, H) /\ Keeps(view, a.view)
              /\ Spends(ch, vtx, i - 1) /\ UndoUpTo(ch, vtx, a.vtxundo, i - 1)
  BY DEF Connected
<1>2. a.ok => /\ InputsOK(a.view, t, Len(ch)) <=> AcceptTx(ch, vtx, i)
              /\ AcceptTx(ch, vtx, i) => ToSet(Ins[t]) \subseteq L
  BY <1>1, AcceptMeans
<1>3. CASE ~(a.ok /\ InputsOK(a.view, t, Len(ch)))
  <2>1. r = [a EXCEPT !.ok = FALSE]
    BY <1>3, Zenon DEF ConnectTx
  <2>2. Acc(r) /\ r.ok = FALSE
    <3> HIDE DEF r
    <3> QED
      BY <2>1 DEF Acc
  <2> QED
    BY <1>2, <1>3, <2>2
<1>4. CASE a.ok /\ InputsOK(a.view, t, Len(ch))
  <2>1. r = UpdateCoins(a, t, Len(ch))
    BY <1>4, Zenon DEF ConnectTx
  <2>2. Acc(r) /\ r.ok
    BY <2>1, UpdateAcc
  <2>3. AcceptTx(ch, vtx, i) /\ ToSet(Ins[t]) \subseteq L
    BY <1>2, <1>4
  <2>4. t \notin TxsOf(ch)
    BY <2>3, FreshTx
  <2>5. Spends(ch, vtx, i)
    <3>1. \A k \in 1..i : k = i \/ k \in 1..(i - 1)
      BY DEF Shape
    <3>2. \A k \in 1..(i - 1) : vtx[k] \notin TxsOf(ch) /\ ToSet(Ins[vtx[k]]) \subseteq LiveAt(ch, vtx, k - 1)
      BY <1>1, <1>4 DEF Spends
    <3> QED
      BY <2>3, <2>4, <3>1, <3>2 DEF Spends
  <2>6. /\ t \in Tx /\ L \subseteq Outpoint /\ \A n \in Nat \ {0} : <<t, n>> \notin L
        /\ LiveAt(ch, vtx, i) = (L \ ToSet(Ins[t])) \cup Outputs(t)
    BY <2>5, NextLive
  <2>7. H \in [Tx -> Nat] /\ H[t] = Len(ch)
    BY <1>1, <1>4, <2>4, HeightsAre
  <2> HIDE DEF L, H, t
  <2>8. Updated(a, UpdateCoins(a, t, H[t]), t, L, H)
    <3>1. /\ t \in Tx /\ L \subseteq Outpoint /\ H \in [Tx -> Nat] /\ Shows(a.view, L, H)
          /\ ToSet(Ins[t]) \subseteq L /\ \A n \in Nat \ {0} : <<t, n>> \notin L
      BY <1>1, <1>4, <2>3, <2>6, <2>7
    <3> QED
      BY <3>1, UpdateGood
  <2>9. Updated(a, r, t, L, H)
    BY <2>1, <2>7, <2>8, Zenon
  <2> HIDE DEF r
  <2>10. Shows(r.view, LiveAt(ch, vtx, i), Heights(ch)) /\ Keeps(view, r.view)
    BY <1>1, <1>4, <2>6, <2>9, KeepsOn DEF H, Updated
  <2>11. UndoUpTo(ch, vtx, r.vtxundo, i)
    <3>1. PICK p : /\ TxUndo(p, vtx[i], LiveAt(ch, vtx, i - 1), Heights(ch))
                   /\ r.vtxundo = IF vtx[i] \in CoinbaseTx THEN a.vtxundo ELSE Append(a.vtxundo, p)
      BY <2>9, Zenon DEF t, L, H, Updated
    <3>2. UndoUpTo(ch, vtx, IF vtx[i] \in CoinbaseTx THEN a.vtxundo ELSE Append(a.vtxundo, p), i)
      BY <1>1, <1>4, <3>1, UndoNext
    <3> QED
      BY <3>1, <3>2, Zenon
  <2>12. Connected(ch, vtx, view, r, i)
    BY <2>5, <2>10, <2>11 DEF Connected
  <2> QED
    BY <1>4, <2>2, <2>3, <2>12 DEF r, t
<1> QED
  BY <1>3, <1>4


\* The unspent outputs of one transaction.
LEMMA UnspentIs ==
  ASSUME NEW ch, ChainOK(ch), NEW t \in Tx
  PROVE  /\ UnspentOf(ch, t) \subseteq Nat \ {0}
         /\ \A n \in Nat \ {0} : n \in UnspentOf(ch, t) <=> <<t, n>> \in Live(ch)
<1>1. TxsOf(ch) \subseteq Tx
  BY TxsOfIs DEF ChainOK
<1>2. UnspentOf(ch, t) \subseteq Nat \ {0}
  BY TxIs DEF UnspentOf
<1>3. ASSUME NEW n \in Nat \ {0}
      PROVE  n \in UnspentOf(ch, t) <=> <<t, n>> \in Live(ch)
  <2> DEFINE o == <<t, n>>
  <2>1. o \in LiveOf(TxsOf(ch), SpentIn(ch)) <=>
          o[1] \in TxsOf(ch) /\ o \in Outputs(o[1]) /\ o \notin SpentIn(ch)
    <3> DEFINE made == TxsOf(ch)
               used == SpentIn(ch)
    <3> HIDE DEF made, used
    <3>1. made \subseteq Tx
      BY <1>1 DEF made
    <3> QED
      BY <3>1, LiveOfIs DEF made, used
  <2>2. o[1] = t
    OBVIOUS
  <2>3. o \in Outputs(t) <=> n \in 1..NumOut[t] /\ o \notin Unspendable
    BY OutputsOf
  <2> QED
    BY <2>1, <2>2, <2>3 DEF Live, UnspentOf
<1> QED
  BY <1>2, <1>3

\* An entry is pruned when nothing of its transaction is unspent.
LEMMA PrunedIs ==
  ASSUME NEW ch, ChainOK(ch), NEW view, Shows(view, Live(ch), Heights(ch)), NEW t \in Tx
  PROVE  (HaveCoins(view, t) => IsPruned(view[t])) <=> UnspentOf(ch, t) = {}
<1>1. TxsOf(ch) \subseteq Tx
  BY TxsOfIs DEF ChainOK
<1>2. Live(ch) \subseteq Outpoint
  BY <1>1, LiveOfIs DEF Live
<1>3. view[t] \in Entry /\ Good(view[t], t, Live(ch), Heights(ch)[t])
  BY DEF Shows
<1>4. IsPruned(view[t]) <=> (\A n \in Nat \ {0} : <<t, n>> \notin Live(ch))
  BY <1>2, <1>3, GoodMeans
<1>5. IsPruned(Absent)
  BY DEF IsPruned, Absent
<1>6. UnspentOf(ch, t) = {} <=> (\A n \in Nat \ {0} : <<t, n>> \notin Live(ch))
  BY UnspentIs
<1> QED
  BY <1>4, <1>5, <1>6 DEF HaveCoins

\* The block is connected if it is acceptable, and leaves the view and the undo
\* data it should.
Connects(ch, vtx, view, r) ==
  /\ r.ok <=> Acceptable(ch, vtx)
  /\ r.ok => /\ BlockFits(ch, [vtx |-> vtx, vtxundo |-> r.vtxundo])
             /\ Shows(r.view, LiveAt(ch, vtx, Len(vtx)), Heights(ch))
             /\ Keeps(view, r.view)

\* This is what ConnectBlock does.
LEMMA ConnectGood ==
  ASSUME NEW ch, ChainOK(ch), NEW vtx, Shape(vtx, Len(ch)),
         NEW view, Shows(view, Live(ch), Heights(ch))
  PROVE  Connects(ch, vtx, view, ConnectBlock(view, vtx, Len(ch)))
<1> DEFINE bip30 == \A i \in DOMAIN vtx : HaveCoins(view, vtx[i]) => IsPruned(view[vtx[i]])
           n == Len(vtx)
           f == CHOOSE g : ConnectRounds(g, bip30, view, vtx, Len(ch))
           P(i) == /\ Acc(f[i])
                   /\ f[i].ok <=> bip30 /\ \A k \in 1..i : AcceptTx(ch, vtx, k)
                   /\ f[i].ok => Connected(ch, vtx, view, f[i], i)
           r == ConnectBlock(view, vtx, Len(ch))
<1>1. r = f[n]
  BY Zenon DEF ConnectBlock, ConnectRounds
<1>2. n \in Nat /\ DOMAIN vtx = 1..n /\ \A i \in 1..n : vtx[i] \in Tx
  BY DEF Shape
<1>3. /\ f[0] = [ok |-> bip30, view |-> view, vtxundo |-> <<>>]
      /\ \A k \in 1..n : f[k] = ConnectTx(f[k - 1], vtx[k], Len(ch))
  <2> HIDE DEF bip30
  <2> QED
    BY <1>2, ConnectLoop
<1>4. bip30 \in BOOLEAN
  OBVIOUS
<1>5. bip30 <=> \A i \in DOMAIN vtx : UnspentOf(ch, vtx[i]) = {}
  BY <1>2, PrunedIs
<1>6. Acceptable(ch, vtx) <=> bip30 /\ \A i \in 1..n : AcceptTx(ch, vtx, i)
  <2>1. Acceptable(ch, vtx) <=> /\ \A i \in DOMAIN vtx : UnspentOf(ch, vtx[i]) = {}
                                /\ \A i \in DOMAIN vtx : AcceptTx(ch, vtx, i)
    BY Zenon DEF Acceptable, AcceptTx, ReadyOutput, RipeOutput
  <2> HIDE DEF bip30
  <2> QED
    BY <1>2, <1>5, <2>1
<1> HIDE DEF bip30, f, r
<1>7. P(0)
  <2>1. f[0].ok = bip30 /\ f[0].view = view /\ f[0].vtxundo = <<>>
    BY <1>3
  <2>2. Acc(f[0])
    BY <1>3, <1>4 DEF Acc
  <2>3. Connected(ch, vtx, view, f[0], 0)
    <3>1. Shows(f[0].view, LiveAt(ch, vtx, 0), Heights(ch)) /\ Keeps(view, f[0].view)
      BY <2>1, LiveAtEnds DEF Keeps
    <3>2. Spends(ch, vtx, 0)
      BY DEF Spends
    <3>3. UndoUpTo(ch, vtx, f[0].vtxundo, 0)
      BY <2>1 DEF UndoUpTo
    <3> QED
      BY <3>1, <3>2, <3>3 DEF Connected
  <2> QED
    BY <2>1, <2>2, <2>3
<1>8. \A i \in 1..n : P(i - 1) => P(i)
  <2> SUFFICES ASSUME NEW i \in 1..n, P(i - 1) PROVE P(i)
    OBVIOUS
  <2> DEFINE a == f[i - 1]
             b == ConnectTx(a, vtx[i], Len(ch))
  <2>1. Acc(b) /\ (b.ok <=> a.ok /\ AcceptTx(ch, vtx, i)) /\ (b.ok => Connected(ch, vtx, view, b, i))
    <3> HIDE DEF a
    <3>1. Acc(a) /\ (a.ok => Connected(ch, vtx, view, a, i - 1))
      BY DEF a
    <3> QED
      BY <3>1, ConnectStep
  <2>2. f[i] = b
    BY <1>3
  <2>3. \A k \in 1..i : k = i \/ k \in 1..(i - 1)
    BY <1>2
  <2>4. \A k \in 1..(i - 1) : k \in 1..i
    BY <1>2
  <2>5. i \in 1..i
    BY <1>2
  <2> HIDE DEF b
  <2>6. f[i].ok <=> bip30 /\ \A k \in 1..i : AcceptTx(ch, vtx, k)
    BY <2>1, <2>2, <2>3, <2>4, <2>5
  <2> QED
    BY <2>1, <2>2, <2>6
<1>9. P(n)
  <2> DEFINE B == {i \in 0..n : P(i)}
  <2> HIDE DEF P
  <2>1. 0 \in B /\ \A k \in 1..n : k - 1 \in B => k \in B
    BY <1>2, <1>7, <1>8
  <2>2. n \in B
    <3>1. n \in 0..n
      BY <1>2
    <3> HIDE DEF B, n
    <3>2. \A k \in 0..n : k \in B
      BY <1>2, <2>1, AllRounds
    <3> QED
      BY <3>1, <3>2
  <2> QED
    BY <2>2
<1>10. r.ok <=> Acceptable(ch, vtx)
  BY <1>1, <1>6, <1>9
<1>11. r.ok => Connected(ch, vtx, view, r, n)
  BY <1>1, <1>9
<1>12. r.ok => BlockFits(ch, [vtx |-> vtx, vtxundo |-> r.vtxundo])
  <2> SUFFICES ASSUME r.ok PROVE BlockFits(ch, [vtx |-> vtx, vtxundo |-> r.vtxundo])
    OBVIOUS
  <2> DEFINE b == [vtx |-> vtx, vtxundo |-> r.vtxundo]
  <2>1. b.vtx = vtx /\ b.vtxundo = r.vtxundo
    OBVIOUS
  <2>2. Spends(ch, vtx, n) /\ UndoUpTo(ch, vtx, r.vtxundo, n)
    BY <1>11 DEF Connected
  <2>3. b \in BlockData
    BY <2>2 DEF BlockData, UndoUpTo, Shape
  <2> HIDE DEF b
  <2> QED
    BY <2>1, <2>2, <2>3 DEF BlockFits, UndoUpTo, b
<1>13. r.ok => Shows(r.view, LiveAt(ch, vtx, n), Heights(ch)) /\ Keeps(view, r.view)
  BY <1>11 DEF Connected
<1> QED
  BY <1>10, <1>12, <1>13 DEF Connects, r


\* A block AcceptBlock lets through has one coinbase and nothing twice.
LEMMA CandidateShape ==
  ASSUME NEW h, NEW vtx \in CandidateBlocks(h)
  PROVE  Shape(vtx, h)
<1> DEFINE C == {t \in CoinbaseTx : CoinbaseHeight[t] = h}
           F == {f \in UNION {[1..k -> SpendTx] : k \in 0..MaxSpends} : IsInjective(f)}
<1>0. \E c \in C, s \in F : vtx = Cons(c, s)
  <2>1. vtx \in {Cons(c, s) : c \in C, s \in F}
    BY DEF CandidateBlocks
  <2> HIDE DEF C, F
  <2> QED
    BY <2>1
<1>1. PICK c \in CoinbaseTx, s \in UNION {[1..k -> SpendTx] : k \in 0..MaxSpends} :
        CoinbaseHeight[c] = h /\ IsInjective(s) /\ vtx = <<c>> \o s
  BY <1>0 DEF Cons
<1>2. PICK m \in 0..MaxSpends : s \in [1..m -> SpendTx]
  BY <1>1
<1>3. m \in Nat /\ c \in Tx /\ SpendTx \subseteq Tx /\ CoinbaseTx \cap SpendTx = {}
  BY CoinsAssumption DEF Tx
<1>4. s \in Seq(SpendTx) /\ Len(s) = m
  <2>1. DOMAIN s = 1..m
    BY <1>2
  <2> QED
    BY <1>2, <1>3, <2>1
<1>5. \A i, j \in 1..m : s[i] = s[j] => i = j
  BY <1>1, <1>2 DEF IsInjective
<1>6. vtx \in Seq(Tx) /\ Len(vtx) = m + 1 /\ vtx[1] = c
  BY <1>1, <1>3, <1>4
<1>7. \A i \in 2..(m + 1) : i - 1 \in 1..m /\ vtx[i] = s[i - 1] /\ vtx[i] \in SpendTx
  BY <1>1, <1>2, <1>3, <1>4
<1>8. \A i, j \in 1..(m + 1) : vtx[i] = vtx[j] => i = j
  <2> SUFFICES ASSUME NEW i \in 1..(m + 1), NEW j \in 1..(m + 1), vtx[i] = vtx[j] PROVE i = j
    OBVIOUS
  <2>1. (i = 1 \/ i \in 2..(m + 1)) /\ (j = 1 \/ j \in 2..(m + 1))
    BY <1>3
  <2>2. CASE i = 1 \/ j = 1
    BY <1>3, <1>6, <1>7, <2>1, <2>2
  <2>3. CASE i \in 2..(m + 1) /\ j \in 2..(m + 1)
    <3>1. i - 1 = j - 1
      BY <1>5, <1>7, <2>3
    <3> QED
      BY <1>3, <3>1
  <2> QED
    BY <2>1, <2>2, <2>3
<1>9. Len(vtx) >= 1 /\ \A i \in 2..Len(vtx) : vtx[i] \in SpendTx
  BY <1>3, <1>6, <1>7
<1>10. vtx[1] \in CoinbaseTx /\ CoinbaseHeight[vtx[1]] = h
  BY <1>1, <1>6
<1>11. \A i, j \in 1..Len(vtx) : vtx[i] = vtx[j] => i = j
  BY <1>6, <1>8
<1> QED
  BY <1>6, <1>9, <1>10, <1>11 DEF Shape

-----------------------------------------------------------------------------
(* Disconnecting a block *)

\* DisconnectBlock undoes ConnectBlock and finds nothing wrong.
LEMMA DisconnectBlockGood ==
  ASSUME NEW ch, ChainOK(ch), NEW b, BlockFits(ch, b),
         NEW view, Shows(view, LiveAt(ch, b.vtx, Len(b.vtx)), Heights(ch))
  PROVE  LET r == DisconnectBlock(view, b, Len(ch))
         IN Shows(r.view, Live(ch), Heights(ch)) /\ Keeps(view, r.view) /\ r.clean
<1> DEFINE vtx == b.vtx
           n == Len(vtx)
           H == Heights(ch)
           f == CHOOSE g : UndoRounds(g, view, b, Len(ch))
           P(k) == Shows(f[k].view, LiveAt(ch, vtx, n - k), H) /\ Keeps(view, f[k].view) /\ f[k].clean
           r == DisconnectBlock(view, b, Len(ch))
<1>1. r = f[n]
  BY Zenon DEF DisconnectBlock, UndoRounds
<1>2. n \in Nat /\ Shape(vtx, Len(ch)) /\ Spends(ch, vtx, n)
  BY DEF BlockFits, Shape
<1>3. /\ f[0] = [view |-> view, clean |-> TRUE]
      /\ \A k \in 1..n : f[k] = DisconnectTx(f[k - 1], vtx[n + 1 - k], b.vtxundo[n - k], Len(ch))
  BY <1>2, UndoLoop
<1>4. Shows(view, LiveAt(ch, vtx, n), H)
  OBVIOUS
<1> HIDE DEF f, r
<1>5. P(0)
  <2>1. f[0].view = view /\ f[0].clean = TRUE /\ n - 0 = n
    BY <1>2, <1>3
  <2> QED
    BY <1>4, <2>1 DEF Keeps
<1>6. \A k \in 1..n : P(k - 1) => P(k)
  <2> SUFFICES ASSUME NEW k \in 1..n, P(k - 1) PROVE P(k)
    OBVIOUS
  <2> DEFINE i == n + 1 - k
             t == vtx[i]
             a == f[k - 1]
             L == LiveAt(ch, vtx, i - 1)
             p == b.vtxundo[n - k]
  <2>1. i \in 1..n /\ n - (k - 1) = i /\ n - k = i - 1
    BY <1>2
  <2>2. Spends(ch, vtx, i) /\ Spends(ch, vtx, i - 1)
    <3> HIDE DEF i, n, vtx
    <3>1. (\A j \in 1..i : j \in 1..n) /\ (\A j \in 1..(i - 1) : j \in 1..n)
      BY <1>2, <2>1
    <3>2. \A j \in 1..n : vtx[j] \notin TxsOf(ch) /\ ToSet(Ins[vtx[j]]) \subseteq LiveAt(ch, vtx, j - 1)
      BY <1>2 DEF Spends
    <3> QED
      BY <3>1, <3>2, Zenon DEF Spends
  <2>3. /\ t \in Tx /\ L \subseteq Outpoint /\ ToSet(Ins[t]) \subseteq L
        /\ \A m \in Nat \ {0} : <<t, m>> \notin L
        /\ LiveAt(ch, vtx, i) = (L \ ToSet(Ins[t])) \cup Outputs(t)
    <3> HIDE DEF i
    <3> QED
      BY <1>2, <2>1, <2>2, NextLive
  <2>4. H \in [Tx -> Nat] /\ (\A x \in Tx : H[x] # 0) /\ H[t] = Len(ch)
    <3>1. vtx[i] \notin TxsOf(ch)
      <4> HIDE DEF i, n
      <4> QED
        BY <1>2, <2>1 DEF Spends
    <3> HIDE DEF i
    <3> QED
      BY <1>2, <2>1, <2>2, <3>1, HeightsAre
  <2>5. UndoFits(p, t, L, H)
    <3>1. CASE i = 1
      <4>1. t \in CoinbaseTx
        BY <1>2, <3>1 DEF Shape
      <4>2. Len(Ins[t]) = 0
        BY <2>3, <4>1, TxIs
      <4> QED
        BY <4>2 DEF UndoFits
    <3>2. CASE i # 1
      <4>1. i \in 2..n
        BY <1>2, <2>1, <3>2
      <4> HIDE DEF i
      <4>2. UndoFits(b.vtxundo[i - 1], vtx[i], LiveAt(ch, vtx, i - 1), H)
        BY <4>1 DEF BlockFits
      <4>3. p = b.vtxundo[i - 1]
        BY <2>1
      <4> QED
        BY <4>2, <4>3
    <3> QED
      BY <3>1, <3>2
  <2>6. Shows(a.view, LiveAt(ch, vtx, i), H) /\ Keeps(view, a.view) /\ a.clean
    BY <2>1
  <2>7. \A o \in ToSet(Ins[t]) : H[o[1]] # 0
    BY <2>3, <2>4, OutpointIs
  <2>8. f[k] = DisconnectTx(a, t, p, H[t])
    BY <1>3, <2>4
  <2> HIDE DEF H, a, t, p, L
  <2>9. Reverted(a, DisconnectTx(a, t, p, H[t]), L, H)
    BY <2>3, <2>4, <2>5, <2>6, <2>7, DisconnectGood
  <2>10. Reverted(a, f[k], L, H)
    BY <2>8, <2>9, Zenon
  <2>11. Keeps(view, f[k].view) /\ f[k].clean /\ Shows(f[k].view, L, H)
    BY <2>6, <2>10, KeepsOn DEF Reverted
  <2>12. L = LiveAt(ch, vtx, n - k)
    BY <2>1 DEF L
  <2> QED
    BY <2>11, <2>12
<1>7. P(n)
  <2> DEFINE B == {k \in 0..n : P(k)}
  <2> HIDE DEF P
  <2>1. 0 \in B /\ \A k \in 1..n : k - 1 \in B => k \in B
    BY <1>2, <1>5, <1>6
  <2>2. n \in B
    <3>1. n \in 0..n
      BY <1>2
    <3> HIDE DEF B, n
    <3>2. \A k \in 0..n : k \in B
      BY <1>2, <2>1, AllRounds
    <3> QED
      BY <3>1, <3>2
  <2> QED
    BY <2>2
<1>8. n - n = 0 /\ LiveAt(ch, vtx, 0) = Live(ch)
  BY <1>2, LiveAtEnds
<1> HIDE DEF n, H, vtx
<1>9. Shows(f[n].view, Live(ch), H) /\ Keeps(view, f[n].view) /\ f[n].clean
  BY <1>7, <1>8
<1> QED
  BY <1>1, <1>9 DEF r, H


-----------------------------------------------------------------------------
(* A longer and a shorter chain *)

\* The transactions of a chain with one block more.
LEMMA AppendTxs ==
  ASSUME NEW ch, ch \in Seq(BlockData), NEW b \in BlockData
  PROVE  /\ Append(ch, b) \in Seq(BlockData) /\ Len(Append(ch, b)) = Len(ch) + 1
         /\ Append(ch, b)[Len(ch) + 1] = b /\ \A k \in 1..Len(ch) : Append(ch, b)[k] = ch[k]
         /\ TxsOf(Append(ch, b)) = Made(ch, b.vtx, Len(b.vtx))
         /\ SpentIn(Append(ch, b)) = Used(ch, b.vtx, Len(b.vtx))
<1> DEFINE c == Append(ch, b)
           vtx == b.vtx
           n == Len(vtx)
<1>1. /\ c \in Seq(BlockData) /\ Len(c) = Len(ch) + 1 /\ Len(ch) \in Nat
      /\ c[Len(ch) + 1] = b /\ \A k \in 1..Len(ch) : c[k] = ch[k]
  OBVIOUS
<1> HIDE DEF c
<1>2. ToSet(vtx) = {vtx[k] : k \in 1..n}
  <2>1. vtx \in Seq(Tx)
    BY DEF BlockData
  <2> QED
    BY <2>1 DEF ToSet
<1> HIDE DEF n
<1>3. TxsOf(c) = TxsOf(ch) \cup ToSet(vtx)
  <2>1. \A t : t \in TxsOf(c) <=> \E k \in 1..Len(c) : t \in ToSet(c[k].vtx)
    BY <1>1, TxsOfIs
  <2>2. \A t : t \in TxsOf(ch) <=> \E k \in 1..Len(ch) : t \in ToSet(ch[k].vtx)
    BY TxsOfIs
  <2>3. \A k \in 1..Len(ch) : k \in 1..Len(c)
    BY <1>1
  <2>4. \A k \in 1..Len(c) : k \in 1..Len(ch) \/ k = Len(ch) + 1
    BY <1>1
  <2>5. Len(ch) + 1 \in 1..Len(c)
    BY <1>1
  <2>6. \A t : t \in TxsOf(c) <=> t \in TxsOf(ch) \/ t \in ToSet(vtx)
    BY <1>1, <2>1, <2>2, <2>3, <2>4, <2>5
  <2> QED
    BY <2>6
<1>4. TxsOf(c) = Made(ch, vtx, n)
  BY <1>2, <1>3 DEF Made
<1>5. SpentIn(c) = Used(ch, vtx, n)
  <2>1. SpentIn(c) = UNION {ToSet(Ins[t]) : t \in TxsOf(ch) \cup ToSet(vtx)}
    BY <1>3 DEF SpentIn
  <2>2. UNION {ToSet(Ins[t]) : t \in ToSet(vtx)} = UNION {ToSet(Ins[vtx[k]]) : k \in 1..n}
    BY <1>2
  <2>3. SpentIn(c) = SpentIn(ch) \cup UNION {ToSet(Ins[t]) : t \in ToSet(vtx)}
    BY <2>1 DEF SpentIn
  <2> QED
    BY <2>2, <2>3 DEF Used
<1> QED
  BY <1>1, <1>4, <1>5 DEF c, n

\* A block that fits makes a longer chain, and what is unspent then.
LEMMA AppendChain ==
  ASSUME NEW ch, ChainOK(ch), NEW b, BlockFits(ch, b)
  PROVE  /\ ChainOK(Append(ch, b)) /\ Len(Append(ch, b)) = Len(ch) + 1
         /\ Live(Append(ch, b)) = LiveAt(ch, b.vtx, Len(b.vtx))
         /\ \A t \in TxsOf(Append(ch, b)) : Heights(Append(ch, b))[t] = Heights(ch)[t]
<1> DEFINE c == Append(ch, b)
<1>1. /\ ch \in Seq(BlockData) /\ Len(ch) \in Nat /\ Len(ch) >= 1 /\ ch[1] = GenesisChain[1]
      /\ \A k \in 2..Len(ch) : BlockFits(SubSeq(ch, 1, k - 1), ch[k])
  BY DEF ChainOK
<1>2. b \in BlockData /\ Shape(b.vtx, Len(ch)) /\ Spends(ch, b.vtx, Len(b.vtx))
  BY DEF BlockFits
<1>3. /\ c \in Seq(BlockData) /\ Len(c) = Len(ch) + 1
      /\ c[Len(ch) + 1] = b /\ \A k \in 1..Len(ch) : c[k] = ch[k]
      /\ TxsOf(c) = Made(ch, b.vtx, Len(b.vtx)) /\ SpentIn(c) = Used(ch, b.vtx, Len(b.vtx))
  BY <1>1, <1>2, AppendTxs
<1> HIDE DEF c
<1>4. \A k \in 1..Len(ch) : SubSeq(c, 1, k) = SubSeq(ch, 1, k)
  <2> TAKE k \in 1..Len(ch)
  <2>1. /\ SubSeq(ch, 1, k) \in Seq(BlockData) /\ Len(SubSeq(ch, 1, k)) = k
        /\ \A j \in 1..k : SubSeq(ch, 1, k)[j] = ch[j]
    BY <1>1, PrefixIs
  <2>2. k \in 1..Len(c)
    BY <1>1, <1>3
  <2>3. /\ SubSeq(c, 1, k) \in Seq(BlockData) /\ Len(SubSeq(c, 1, k)) = k
        /\ \A j \in 1..k : SubSeq(c, 1, k)[j] = c[j]
    BY <1>3, <2>2, PrefixIs
  <2>4. \A j \in 1..k : j \in 1..Len(ch)
    BY <1>1
  <2> QED
    BY <1>3, <2>1, <2>3, <2>4, SeqEqual
<1>5. SubSeq(ch, 1, Len(ch)) = ch
  BY <1>1, SubSeqFull
<1>6. ChainOK(c)
  <2>1. ASSUME NEW k \in 2..Len(c)
        PROVE  BlockFits(SubSeq(c, 1, k - 1), c[k])
    <3>1. CASE k = Len(ch) + 1
      <4>1. k - 1 = Len(ch) /\ Len(ch) \in 1..Len(ch)
        BY <1>1, <3>1
      <4>2. SubSeq(c, 1, k - 1) = ch /\ c[k] = b
        BY <1>3, <1>4, <1>5, <3>1, <4>1
      <4> QED
        BY <4>2
    <3>2. CASE k # Len(ch) + 1
      <4>1. k \in 2..Len(ch) /\ k - 1 \in 1..Len(ch) /\ k \in 1..Len(ch)
        BY <1>1, <1>3, <3>2
      <4>2. SubSeq(c, 1, k - 1) = SubSeq(ch, 1, k - 1) /\ c[k] = ch[k]
        BY <1>3, <1>4, <4>1
      <4> QED
        BY <1>1, <4>1, <4>2
    <3> QED
      BY <3>1, <3>2
  <2>2. c[1] = GenesisChain[1] /\ Len(c) >= 1
    BY <1>1, <1>3
  <2> QED
    BY <1>3, <2>1, <2>2 DEF ChainOK
<1>7. Live(c) = LiveAt(ch, b.vtx, Len(b.vtx))
  BY <1>3 DEF Live, LiveAt
<1>8. ASSUME NEW t \in TxsOf(c)
      PROVE  Heights(c)[t] = Heights(ch)[t]
  <2>1. t \in Tx /\ Heights(c)[t] = HeightIn(c, t)
    <3>1. TxsOf(c) \subseteq Tx
      BY <1>3, TxsOfIs
    <3> QED
      BY <3>1 DEF Heights
  <2>2. CASE t \in TxsOf(ch)
    <3>1. PICK k \in 2..Len(ch) : InBlock(ch, t, k)
      BY <2>2, OneBlock
    <3>2. k \in 1..Len(c) /\ t \in ToSet(c[k].vtx)
      BY <1>1, <1>3, <3>1 DEF InBlock
    <3>3. InBlock(c, t, k)
      BY <1>6, <3>2, BlockOf
    <3> QED
      BY <2>1, <2>2, <3>1, <3>3 DEF InBlock, Heights
  <2>3. CASE t \notin TxsOf(ch)
    <3>1. t \in ToSet(b.vtx)
      <4>1. \A k \in 1..Len(b.vtx) : b.vtx[k] \in ToSet(b.vtx)
        BY <1>2 DEF Shape, ToSet
      <4> QED
        BY <1>3, <2>3, <4>1 DEF Made
    <3>2. Len(ch) + 1 \in 1..Len(c) /\ t \in ToSet(c[Len(ch) + 1].vtx)
      BY <1>1, <1>3, <3>1
    <3>3. InBlock(c, t, Len(ch) + 1)
      BY <1>6, <3>2, BlockOf
    <3>4. HeightIn(c, t) = Len(ch)
      BY <1>1, <3>3 DEF InBlock
    <3> QED
      BY <2>1, <2>3, <3>4 DEF Heights
  <2> QED
    BY <2>2, <2>3
<1> QED
  BY <1>3, <1>6, <1>7, <1>8 DEF c

\* The last block of a chain fits on the others.
LEMMA FrontChain ==
  ASSUME NEW ch, ChainOK(ch), Len(ch) > 1
  PROVE  /\ ChainOK(Front(ch)) /\ BlockFits(Front(ch), Last(ch))
         /\ ch = Append(Front(ch), Last(ch)) /\ Len(Front(ch)) = Len(ch) - 1
<1> DEFINE n == Len(ch)
           c == SubSeq(ch, 1, n - 1)
<1>1. /\ ch \in Seq(BlockData) /\ n \in Nat /\ n > 1 /\ ch[1] = GenesisChain[1]
      /\ \A k \in 2..n : BlockFits(SubSeq(ch, 1, k - 1), ch[k])
  BY DEF ChainOK
<1>2. Front(ch) = c /\ Last(ch) = ch[n]
  BY DEF Front, Last
<1>3. n - 1 \in 1..n
  BY <1>1
<1>4. c \in Seq(BlockData) /\ Len(c) = n - 1 /\ \A j \in 1..(n - 1) : c[j] = ch[j]
  BY <1>1, <1>3, PrefixIs
<1>5. BlockFits(c, ch[n])
  BY <1>1
<1> HIDE DEF c
<1>6. ChainOK(c)
  <2>1. ASSUME NEW k \in 2..Len(c)
        PROVE  BlockFits(SubSeq(c, 1, k - 1), c[k])
    <3>1. k - 1 \in 1..(n - 1) /\ k \in 1..(n - 1) /\ k \in 2..n
      BY <1>1, <1>4
    <3>2. SubSeq(c, 1, k - 1) = SubSeq(ch, 1, k - 1)
      <4>1. k - 1 \in 1..Len(ch) /\ k - 1 \in 1..Len(c)
        BY <1>1, <1>4, <3>1
      <4>2. /\ SubSeq(ch, 1, k - 1) \in Seq(BlockData) /\ Len(SubSeq(ch, 1, k - 1)) = k - 1
            /\ \A j \in 1..(k - 1) : SubSeq(ch, 1, k - 1)[j] = ch[j]
        BY <1>1, <4>1, PrefixIs
      <4>3. /\ SubSeq(c, 1, k - 1) \in Seq(BlockData) /\ Len(SubSeq(c, 1, k - 1)) = k - 1
            /\ \A j \in 1..(k - 1) : SubSeq(c, 1, k - 1)[j] = c[j]
        BY <1>4, <4>1, PrefixIs
      <4>4. \A j \in 1..(k - 1) : j \in 1..(n - 1)
        BY <1>1, <3>1
      <4> QED
        BY <1>4, <4>2, <4>3, <4>4, SeqEqual
    <3> QED
      BY <1>1, <1>4, <3>1, <3>2
  <2>2. c[1] = GenesisChain[1] /\ Len(c) >= 1
    BY <1>1, <1>4
  <2> QED
    BY <1>4, <2>1, <2>2 DEF ChainOK
<1>7. ch = Append(c, ch[n])
  <2>1. ch[n] \in BlockData
    BY <1>1
  <2>2. /\ Append(c, ch[n]) \in Seq(BlockData) /\ Len(Append(c, ch[n])) = n
        /\ \A j \in 1..n : Append(c, ch[n])[j] = ch[j]
    <3>1. Append(c, ch[n]) \in Seq(BlockData) /\ Len(Append(c, ch[n])) = n
      BY <1>1, <1>4, <2>1
    <3>2. \A j \in 1..(n - 1) : Append(c, ch[n])[j] = c[j]
      BY <1>4, <2>1
    <3>3. Append(c, ch[n])[n] = ch[n]
      BY <1>1, <1>4, <2>1
    <3>4. \A j \in 1..n : j = n \/ j \in 1..(n - 1)
      BY <1>1
    <3> QED
      BY <1>4, <3>1, <3>2, <3>3, <3>4
  <2> QED
    BY <1>1, <2>2, SeqEqual
<1> QED
  BY <1>2, <1>4, <1>5, <1>6, <1>7


\* A view of a chain is a view of the next one, once the block is in it.
LEMMA ShowsAppend ==
  ASSUME NEW ch, ChainOK(ch), NEW b, BlockFits(ch, b), NEW view
  PROVE  Shows(view, LiveAt(ch, b.vtx, Len(b.vtx)), Heights(ch)) <=>
           Shows(view, Live(Append(ch, b)), Heights(Append(ch, b)))
<1> DEFINE c == Append(ch, b)
           L == Live(c)
<1>1. /\ ChainOK(c) /\ L = LiveAt(ch, b.vtx, Len(b.vtx))
      /\ \A t \in TxsOf(c) : Heights(c)[t] = Heights(ch)[t]
  BY AppendChain
<1> HIDE DEF c
<1>2. TxsOf(c) \subseteq Tx
  BY <1>1, TxsOfIs DEF ChainOK
<1>3. L \subseteq Outpoint /\ \A o \in L : o[1] \in TxsOf(c)
  BY <1>2, LiveOfIs DEF Live
<1>4. \A o \in L : Heights(c)[o[1]] = Heights(ch)[o[1]]
  BY <1>1, <1>3
<1> DEFINE H == Heights(ch)
           G == Heights(c)
<1> HIDE DEF L, H, G
<1>5. \A o \in L : H[o[1]] = G[o[1]] /\ G[o[1]] = H[o[1]]
  BY <1>4 DEF H, G
<1>6. Shows(view, L, H) => Shows(view, L, G)
  BY <1>3, <1>5, ShowsSame
<1>7. Shows(view, L, G) => Shows(view, L, H)
  BY <1>3, <1>5, ShowsSame
<1> QED
  BY <1>1, <1>6, <1>7 DEF L, H, G, c

-----------------------------------------------------------------------------
(* The layers *)

\* What a cache over another layer presents.
Layered(cache, base) == [t \in Tx |-> IF cache[t] # Absent THEN cache[t] ELSE base[t]]
NoEntries == [t \in Tx |-> Absent]

\* The block's view, flushed into pcoinsTip, is what pcoinsTip presents.
LEMMA WrittenIs ==
  ASSUME cacheCoins \in [Tx -> Entry], db \in [Tx -> Entry],
         NEW view \in [Tx -> Entry], Keeps(TipView, view)
  PROVE  Written(view) \in [Tx -> Entry] /\ Layered(Written(view), db) = view
<1>1. Written(view) \in [Tx -> Entry]
  BY DEF Written
<1>2. ASSUME NEW t \in Tx
      PROVE  Layered(Written(view), db)[t] = view[t]
  <2>1. CASE view[t] # TipView[t]
    <3>1. Written(view)[t] = view[t] /\ view[t] # Absent
      BY <2>1 DEF Written, Keeps
    <3> QED
      BY <3>1 DEF Layered
  <2>2. CASE view[t] = TipView[t]
    <3>1. Written(view)[t] = cacheCoins[t]
      BY <2>2 DEF Written
    <3> QED
      BY <2>2, <3>1 DEF Layered, TipView
  <2> QED
    BY <2>1, <2>2
<1>3. Layered(Written(view), db) = view
  BY <1>2 DEF Layered
<1> QED
  BY <1>1, <1>3

\* The database has what the cache presented, once the cache is written to it.
LEMMA BatchShows ==
  ASSUME NEW cache \in [Tx -> Entry], db \in [Tx -> Entry], NEW L, L \subseteq Outpoint, NEW H,
         Shows(Layered(cache, db), L, H)
  PROVE  BatchWrite(cache) \in [Tx -> Entry] /\ Shows(BatchWrite(cache), L, H)
<1> DEFINE w == BatchWrite(cache)
<1>1. Absent \in Entry /\ Absent.vout = <<>>
  BY DEF Entry, Absent
<1>2. w \in [Tx -> Entry]
  BY <1>1 DEF BatchWrite
<1>3. ASSUME NEW t \in Tx
      PROVE  Good(w[t], t, L, H[t])
  <2> DEFINE e == Layered(cache, db)[t]
  <2>1. Good(e, t, L, H[t]) /\ e \in Entry
    BY DEF Shows
  <2>2. CASE cache[t] # Absent /\ IsPruned(cache[t])
    <3>1. w[t] = Absent /\ e = cache[t]
      BY <2>2 DEF BatchWrite, Layered
    <3> HIDE DEF e, w
    <3>2. \A n \in Nat \ {0} : <<t, n>> \notin L
      BY <2>1, <2>2, <3>1, GoodMeans
    <3> DEFINE h == H[t]
    <3> HIDE DEF h
    <3>3. Good(Absent, t, L, h)
      BY <1>1, <3>2, GoodEmpty
    <3> QED
      BY <3>1, <3>3 DEF h
  <2>3. CASE ~(cache[t] # Absent /\ IsPruned(cache[t]))
    <3>1. w[t] = e
      BY <2>3 DEF BatchWrite, Layered
    <3> QED
      BY <2>1, <3>1
  <2> QED
    BY <2>2, <2>3
<1> QED
  BY <1>2, <1>3 DEF Shows

\* A cache without entries presents what is below it.
LEMMA NoEntriesIs ==
  ASSUME NEW base \in [Tx -> Entry]
  PROVE  NoEntries \in [Tx -> Entry] /\ Layered(NoEntries, base) = base
BY DEF NoEntries, Layered, Entry

-----------------------------------------------------------------------------
(* The inductive invariant *)

\* The database shows the chain it names, pcoinsTip the active one, and pcoinsTip
\* names no block only while it has nothing of its own.
IInv ==
  /\ db \in [Tx -> Entry] /\ cacheCoins \in [Tx -> Entry]
  /\ ChainOK(chain) /\ ChainOK(dbBest)
  /\ Shows(db, Live(dbBest), Heights(dbBest))
  /\ Shows(Layered(cacheCoins, db), Live(chain), Heights(chain))
  /\ hashBlock \in {NoBlock, chain}
  /\ hashBlock = NoBlock => chain = dbBest /\ cacheCoins = NoEntries
  /\ fClean

\* What pcoinsTip presents.
LEMMA TipViewIs == TipView = Layered(cacheCoins, db)
BY DEF TipView, Layered

\* A chain has its genesis block, so that its unspent outputs are outpoints.
LEMMA ChainIs ==
  ASSUME NEW ch, ChainOK(ch)
  PROVE  /\ ch # NoBlock /\ Len(ch) \in Nat /\ Len(ch) >= 1 /\ Height(ch) = Len(ch) - 1
         /\ Live(ch) \subseteq Outpoint /\ ch \in Seq(BlockData)
<1>1. ch \in Seq(BlockData) /\ Len(ch) \in Nat /\ Len(ch) >= 1
  BY DEF ChainOK
<1>2. ch # NoBlock /\ Height(ch) = Len(ch) - 1
  BY <1>1 DEF NoBlock, Height
<1>3. TxsOf(ch) \subseteq Tx
  BY <1>1, TxsOfIs
<1>4. Live(ch) \subseteq Outpoint
  BY <1>3, LiveOfIs DEF Live
<1> QED
  BY <1>1, <1>2, <1>4

\* It holds at the start.
LEMMA InitIInv ==
  ASSUME Init
  PROVE  IInv
<1> DEFINE g == GenesisChain
<1>1. g \in Seq(BlockData) /\ Len(g) = 1
  BY DEF GenesisChain, BlockData
<1>2. ChainOK(g)
  BY <1>1 DEF ChainOK
<1>3. TxsOf(g) = {}
  <2>1. \A k \in 1..Len(g) : g[k].vtx = <<>>
    BY <1>1 DEF GenesisChain
  <2>2. ToSet(<<>>) = {}
    BY DEF ToSet
  <2> HIDE DEF g
  <2>3. \A t : t \in TxsOf(g) <=> \E k \in 1..Len(g) : t \in ToSet(g[k].vtx)
    BY <1>1, TxsOfIs
  <2> QED
    BY <2>1, <2>2, <2>3
<1>4. Live(g) = {}
  BY <1>3 DEF Live, LiveOf
<1>5. NoEntries \in [Tx -> Entry] /\ Layered(NoEntries, NoEntries) = NoEntries
  <2>1. NoEntries \in [Tx -> Entry]
    BY DEF NoEntries, Entry
  <2> QED
    BY <2>1, NoEntriesIs
<1> HIDE DEF g
<1>6. Shows(NoEntries, Live(g), Heights(g))
  <2>1. ASSUME NEW t \in Tx
        PROVE  Good(NoEntries[t], t, Live(g), Heights(g)[t])
    <3>1. NoEntries[t].vout = <<>>
      BY DEF NoEntries, Absent
    <3> DEFINE h == Heights(g)[t]
               e == NoEntries[t]
               L == Live(g)
    <3>2. \A n \in Nat \ {0} : <<t, n>> \notin L
      BY <1>4
    <3> HIDE DEF h, e, L
    <3>3. Good(e, t, L, h)
      BY <3>1, <3>2, GoodEmpty DEF e
    <3> QED
      BY <3>3 DEF e, h, L
  <2> QED
    BY <1>5, <2>1 DEF Shows
<1>7. db = NoEntries /\ cacheCoins = NoEntries /\ chain = g /\ dbBest = g /\ hashBlock = NoBlock
      /\ fClean
  BY DEF Init, NoEntries, g
<1> QED
  BY <1>2, <1>5, <1>6, <1>7 DEF IInv


\* A view of the next tip is written to pcoinsTip, and on to the database or not.
LEMMA WriteIInv ==
  ASSUME IInv, NEW view, NEW best, ChainOK(best), Shows(view, Live(best), Heights(best)),
         Keeps(TipView, view), WriteChainState(Written(view), best), chain' = best, fClean'
  PROVE  IInv'
<1> DEFINE cache == Written(view)
           L == Live(best)
           H == Heights(best)
<1>1. db \in [Tx -> Entry] /\ cacheCoins \in [Tx -> Entry] /\ ChainOK(dbBest)
      /\ Shows(db, Live(dbBest), Heights(dbBest))
  BY DEF IInv
<1>2. view \in [Tx -> Entry]
  BY DEF Shows
<1>3. cache \in [Tx -> Entry] /\ Layered(cache, db) = view
  BY <1>1, <1>2, WrittenIs
<1>4. best # NoBlock /\ L \subseteq Outpoint
  BY ChainIs
<1> HIDE DEF cache, L, H
<1>5. Shows(Layered(cache, db), L, H)
  BY <1>3 DEF L, H
<1>6. CASE /\ cacheCoins' = cache /\ hashBlock' = best /\ UNCHANGED <<db, dbBest>>
  <2>1. db' = db /\ dbBest' = dbBest /\ cacheCoins' = cache /\ hashBlock' = best
    BY <1>6
  <2> QED
    BY <1>1, <1>3, <1>4, <1>5, <2>1 DEF IInv, L, H
<1>7. CASE /\ db' = BatchWrite(cache) /\ dbBest' = best
           /\ cacheCoins' = [t \in Tx |-> Absent] /\ hashBlock' = best
  <2>1. BatchWrite(cache) \in [Tx -> Entry] /\ Shows(BatchWrite(cache), L, H)
    BY <1>1, <1>3, <1>4, <1>5, BatchShows
  <2>2. cacheCoins' = NoEntries /\ db' \in [Tx -> Entry] /\ Shows(db', L, H)
        /\ dbBest' = best /\ hashBlock' = best
    BY <1>7, <2>1 DEF NoEntries
  <2>3. cacheCoins' \in [Tx -> Entry] /\ Layered(cacheCoins', db') = db'
    BY <2>2, NoEntriesIs
  <2> QED
    BY <1>4, <2>2, <2>3 DEF IInv, L, H
<1> QED
  BY <1>6, <1>7 DEF WriteChainState, cache

\* A connected block extends the chain, and the view with it.
LEMMA ConnectTipIInv ==
  ASSUME IInv, NEW vtx \in CandidateBlocks(Height(chain) + 1), ConnectTip(vtx)
  PROVE  IInv'
<1> DEFINE h == Height(chain) + 1
           r == ConnectBlock(TipView, vtx, h)
           b == [vtx |-> vtx, vtxundo |-> r.vtxundo]
           best == Append(chain, b)
<1>1. ChainOK(chain) /\ Shows(TipView, Live(chain), Heights(chain)) /\ fClean
  BY TipViewIs DEF IInv
<1>2. h = Len(chain)
  BY <1>1, ChainIs
<1>3. r.ok /\ chain' = best /\ WriteChainState(Written(r.view), best) /\ fClean'
  BY <1>1, Zenon DEF ConnectTip
<1>4. Shape(vtx, Len(chain))
  BY <1>2, CandidateShape
<1>5. Connects(chain, vtx, TipView, r)
  BY <1>1, <1>2, <1>4, ConnectGood
<1> HIDE DEF r
<1>6. /\ BlockFits(chain, b) /\ b.vtx = vtx
      /\ Shows(r.view, LiveAt(chain, vtx, Len(vtx)), Heights(chain)) /\ Keeps(TipView, r.view)
  BY <1>3, <1>5 DEF Connects
<1> HIDE DEF b
<1>7. ChainOK(best) /\ Shows(r.view, Live(best), Heights(best))
  BY <1>1, <1>6, AppendChain, ShowsAppend
<1> QED
  BY <1>3, <1>6, <1>7, WriteIInv

\* The view DisconnectBlock starts from, and what it makes of it.
LEMMA TipBlock ==
  ASSUME IInv, Height(chain) > 0
  PROVE  LET r == DisconnectBlock(TipView, Last(chain), Height(chain))
         IN /\ ChainOK(Front(chain))
            /\ Shows(r.view, Live(Front(chain)), Heights(Front(chain)))
            /\ Keeps(TipView, r.view) /\ r.clean
<1> DEFINE F == Front(chain)
           b == Last(chain)
<1>1. ChainOK(chain) /\ Shows(TipView, Live(chain), Heights(chain))
  BY TipViewIs DEF IInv
<1>2. Len(chain) > 1 /\ Height(chain) = Len(chain) - 1
  BY <1>1, ChainIs
<1>3. ChainOK(F) /\ BlockFits(F, b) /\ chain = Append(F, b) /\ Len(F) = Height(chain)
  BY <1>1, <1>2, FrontChain
<1> HIDE DEF F, b
<1>4. Shows(TipView, LiveAt(F, b.vtx, Len(b.vtx)), Heights(F))
  BY <1>1, <1>3, ShowsAppend
<1>5. LET r == DisconnectBlock(TipView, b, Len(F))
      IN Shows(r.view, Live(F), Heights(F)) /\ Keeps(TipView, r.view) /\ r.clean
  BY <1>3, <1>4, DisconnectBlockGood
<1> QED
  BY <1>3, <1>5 DEF F, b

\* A disconnected block leaves the chain and the view below it.
LEMMA DisconnectTipIInv ==
  ASSUME IInv, DisconnectTip
  PROVE  IInv'
<1> DEFINE F == Front(chain)
           r == DisconnectBlock(TipView, Last(chain), Height(chain))
<1>1. Height(chain) > 0
  BY DEF DisconnectTip
<1>2. ChainOK(F) /\ Shows(r.view, Live(F), Heights(F)) /\ Keeps(TipView, r.view) /\ r.clean
  BY <1>1, TipBlock
<1>3. /\ fClean' = r.clean
      /\ r.clean => chain' = F /\ WriteChainState(Written(r.view), F)
  BY Zenon DEF DisconnectTip
<1> HIDE DEF r, F
<1>4. fClean'
  BY <1>2, <1>3, Zenon
<1> QED
  BY <1>2, <1>3, <1>4, WriteIInv

\* Shutdown leaves the chain it had in the database.
LEMMA ShutdownIInv ==
  ASSUME IInv, Shutdown
  PROVE  IInv'
<1> DEFINE L == Live(chain)
           H == Heights(chain)
<1>1. db \in [Tx -> Entry] /\ cacheCoins \in [Tx -> Entry] /\ ChainOK(chain)
      /\ Shows(Layered(cacheCoins, db), L, H)
      /\ hashBlock \in {NoBlock, chain} /\ (hashBlock = NoBlock => chain = dbBest) /\ fClean
  BY DEF IInv
<1>2. L \subseteq Outpoint
  BY <1>1, ChainIs
<1> HIDE DEF L, H
<1>3. BatchWrite(cacheCoins) \in [Tx -> Entry] /\ Shows(BatchWrite(cacheCoins), L, H)
  BY <1>1, <1>2, BatchShows
<1>4. db' = BatchWrite(cacheCoins) /\ cacheCoins' = NoEntries /\ hashBlock' = NoBlock
      /\ fClean' /\ chain' = dbBest'
  BY <1>1 DEF Shutdown, NoEntries
<1>5. dbBest' = chain
  BY <1>1 DEF Shutdown
<1>6. cacheCoins' \in [Tx -> Entry] /\ Layered(cacheCoins', db') = db'
  BY <1>3, <1>4, NoEntriesIs
<1> QED
  BY <1>1, <1>3, <1>4, <1>5, <1>6 DEF IInv, L, H

\* A crash leaves the chain the database names.
LEMMA CrashIInv ==
  ASSUME IInv, Crash
  PROVE  IInv'
<1> DEFINE L == Live(dbBest)
           H == Heights(dbBest)
<1>1. db \in [Tx -> Entry] /\ ChainOK(dbBest) /\ Shows(db, L, H) /\ fClean
  BY DEF IInv
<1> HIDE DEF L, H
<1>2. db' = db /\ dbBest' = dbBest /\ cacheCoins' = NoEntries /\ hashBlock' = NoBlock
      /\ fClean' /\ chain' = dbBest
  BY <1>1 DEF Crash, NoEntries
<1>3. cacheCoins' \in [Tx -> Entry] /\ Layered(cacheCoins', db') = db'
  BY <1>1, <1>2, NoEntriesIs
<1> QED
  BY <1>1, <1>2, <1>3 DEF IInv, L, H

\* Every step keeps it.
LEMMA NextIInv ==
  ASSUME IInv, [Next]_vars
  PROVE  IInv'
<1>1. ASSUME NEW vtx \in CandidateBlocks(Height(chain) + 1), ConnectTip(vtx)
      PROVE  IInv'
  BY <1>1, ConnectTipIInv
<1>2. CASE DisconnectTip
  BY <1>2, DisconnectTipIInv
<1>3. CASE Shutdown
  BY <1>3, ShutdownIInv
<1>4. CASE Crash
  BY <1>4, CrashIInv
<1>5. CASE UNCHANGED vars
  <2>1. db' = db /\ dbBest' = dbBest /\ cacheCoins' = cacheCoins /\ hashBlock' = hashBlock
        /\ chain' = chain /\ fClean' = fClean
    BY <1>5 DEF vars
  <2> QED
    BY <2>1 DEF IInv
<1> QED
  BY <1>1, <1>2, <1>3, <1>4, <1>5 DEF Next

\* However blocks come and go, and whenever the process stops or is killed, both
\* layers show their chain and every block can be undone with the undo data that
\* ConnectBlock wrote for it.
THEOREM CoinsAlwaysShown == Spec => []IInv
<1>1. Init => IInv
  BY InitIInv
<1>2. IInv /\ [Next]_vars => IInv'
  BY NextIInv
<1> QED
  BY <1>1, <1>2, PTL DEF Spec

-----------------------------------------------------------------------------
(* What the invariant says of the outputs and of the verdicts *)

\* A view that shows a chain presents it.
LEMMA ShowsPresents ==
  ASSUME NEW ch, ChainOK(ch), NEW view, Shows(view, Live(ch), Heights(ch))
  PROVE  Presents(view, ch)
<1> SUFFICES ASSUME NEW t \in Tx
             PROVE  LET c == IF HaveCoins(view, t) THEN view[t] ELSE NoCoins
                        live == UnspentOf(ch, t)
                    IN /\ live = {n \in DOMAIN c.vout : c.vout[n] # Spent}
                       /\ \A n \in live : c.vout[n] = <<t, n>>
                       /\ live # {} => /\ c.nHeight = HeightIn(ch, t)
                                       /\ c.fCoinBase = (t \in CoinbaseTx)
  BY DEF Presents
<1> DEFINE c == IF HaveCoins(view, t) THEN view[t] ELSE NoCoins
           live == UnspentOf(ch, t)
           L == Live(ch)
           h == Heights(ch)[t]
<1>1. live \subseteq Nat \ {0} /\ \A n \in Nat \ {0} : n \in live <=> <<t, n>> \in L
  BY UnspentIs
<1>2. live # {} => h = HeightIn(ch, t)
  BY DEF UnspentOf, Heights
<1>3. L \subseteq Outpoint
  BY ChainIs
<1>4. view[t] \in Entry /\ Good(view[t], t, L, h)
  BY DEF Shows
<1> HIDE DEF L, h, live
<1>5. c \in Entry /\ Good(c, t, L, h)
  <2>1. CASE HaveCoins(view, t)
    BY <1>4, <2>1
  <2>2. CASE ~HaveCoins(view, t)
    <3>1. view[t] = Absent /\ c = NoCoins
      BY <2>2 DEF HaveCoins
    <3>2. NoCoins \in Entry /\ NoCoins.vout = <<>> /\ Absent.vout = <<>>
      BY DEF NoCoins, Absent, Entry, Coin
    <3>3. IsPruned(Absent)
      BY <3>2 DEF IsPruned
    <3>4. \A n \in Nat \ {0} : <<t, n>> \notin L
      BY <1>3, <1>4, <3>1, <3>3, GoodMeans
    <3> QED
      BY <3>1, <3>2, <3>4, GoodEmpty
  <2> QED
    BY <2>1, <2>2
<1> HIDE DEF c
<1>6. \A n \in Nat \ {0} : IsAvailable(c, n) <=> <<t, n>> \in L
  BY <1>3, <1>5, GoodMeans
<1>7. DOMAIN c.vout \subseteq Nat \ {0}
  <2>1. c.vout \in Seq({Spent} \cup Outpoint)
    BY <1>5, EntryOutputs
  <2> DEFINE v == c.vout
  <2> HIDE DEF v
  <2>2. DOMAIN v \subseteq Nat \ {0}
    BY <2>1 DEF v
  <2> QED
    BY <2>2 DEF v
<1>8. live = {n \in DOMAIN c.vout : c.vout[n] # Spent}
  BY <1>1, <1>6, <1>7 DEF IsAvailable
<1>9. \A n \in live : n \in 1..Len(c.vout) /\ Len(c.vout) \in Nat
  <2>1. c.vout \in Seq({Spent} \cup Outpoint) /\ Len(c.vout) \in Nat
    BY <1>5, EntryOutputs
  <2> TAKE n \in live
  <2>2. n <= Len(c.vout) /\ n \in Nat \ {0}
    BY <1>1, <1>5 DEF Good
  <2> QED
    BY <2>1, <2>2
<1>10. \A n \in live : c.vout[n] = <<t, n>>
  BY <1>1, <1>5, <1>9 DEF Good
<1>11. live # {} => c.nHeight = h /\ (c.fCoinBase <=> t \in CoinbaseTx)
  BY <1>5, <1>9 DEF Good
<1>12. c.fCoinBase \in BOOLEAN
  BY <1>5, EntryOutputs
<1>13. live # {} => c.nHeight = HeightIn(ch, t) /\ c.fCoinBase = (t \in CoinbaseTx)
  <2>1. live # {} => c.fCoinBase = (t \in CoinbaseTx)
    BY <1>11, <1>12
  <2> QED
    BY <1>2, <1>11, <2>1
<1> QED
  BY <1>8, <1>10, <1>13 DEF c, live

\* After any sequence of connects, disconnects, flushes, shutdowns and crashes,
\* pcoinsTip presents exactly the unspent outputs of the active chain, and the
\* database those of the best block it names.
THEOREM UtxoAlwaysExact == Spec => []UtxoExact
<1>1. IInv => UtxoExact
  BY ShowsPresents, TipViewIs DEF IInv, UtxoExact
<1> QED
  BY <1>1, CoinsAlwaysShown, PTL

\* ConnectBlock accepts a block exactly if the chain makes it acceptable, whatever
\* is cached or flushed, and DisconnectBlock never reports a mismatch.
THEOREM VerdictAlwaysExact == Spec => []VerdictExact
<1>1. IInv => VerdictExact
  <2> SUFFICES ASSUME IInv, NEW vtx \in CandidateBlocks(Height(chain) + 1)
               PROVE  ConnectBlock(TipView, vtx, Height(chain) + 1).ok <=> Acceptable(chain, vtx)
    BY DEF VerdictExact, IInv
  <2>1. ChainOK(chain) /\ Shows(TipView, Live(chain), Heights(chain))
    BY TipViewIs DEF IInv
  <2>2. Height(chain) + 1 = Len(chain)
    BY <2>1, ChainIs
  <2>3. Shape(vtx, Len(chain))
    BY <2>2, CandidateShape
  <2> DEFINE r == ConnectBlock(TipView, vtx, Len(chain))
  <2>4. Connects(chain, vtx, TipView, r)
    BY <2>1, <2>3, ConnectGood
  <2> HIDE DEF r
  <2>5. r.ok <=> Acceptable(chain, vtx)
    BY <2>4 DEF Connects
  <2> QED
    BY <2>2, <2>5 DEF r
<1> QED
  BY <1>1, CoinsAlwaysShown, PTL

-----------------------------------------------------------------------------
(* The script-check queue *)

Place == {"new", "add", "enter", "check", "wait", "woken", "work", "dead"}

QueueTypeOK ==
  /\ queue \in Seq(BOOLEAN) /\ added \in Seq(BOOLEAN)
  /\ nIdle \in Int /\ nTotal \in Int /\ nTodo \in Int
  /\ fAllOk \in BOOLEAN /\ ret \in BOOLEAN
  /\ pc \in [Threads -> Place]
  /\ vChecks \in [Threads -> Seq(BOOLEAN)]
  /\ fOk \in [Threads -> BOOLEAN]
  /\ nNow \in [Threads -> Nat]

\* Threads that have a batch they have not accounted for.
Busy == {t \in Threads : pc[t] = "work" \/ (pc[t] = "enter" /\ nNow[t] # 0)}

\* Threads counted in nTotal and in nIdle.
Joined == Busy \cup {t \in Threads : pc[t] \in {"check", "wait", "woken", "dead"}}
Idle == {t \in Threads : pc[t] \in {"wait", "woken", "dead"}}
PoolCounted == nTotal = Cardinality(Joined) /\ nIdle = Cardinality(Idle)

\* One pair for each check in a batch.
Owed == {x \in Busy \X Nat : x[2] \in 1..nNow[x[1]]}
TodoCounted == IsFiniteSet(Owed) /\ nTodo = Len(queue) + Cardinality(Owed)

BatchesNotEmpty ==
  /\ \A t \in Threads : pc[t] = "work" => nNow[t] # 0
  /\ \A w \in Workers : pc[w] = "new" => nNow[w] = 0

Holds(checks) == \A i \in DOMAIN checks : checks[i]
BatchHolds(t) == fOk[t] /\ (pc[t] = "work" => Holds(vChecks[t]))

Verdict ==
  pc[Master] # "new" =>
    (Holds(added) <=> fAllOk /\ Holds(queue) /\ \A t \in Busy : BatchHolds(t))

Left ==
  pc[Master] = "new" =>
    /\ ret <=> Holds(added)
    /\ fAllOk /\ queue = <<>> /\ Busy = {}

QueueInv == QueueTypeOK /\ PoolCounted /\ TodoCounted /\ BatchesNotEmpty /\ Verdict /\ Left

-----------------------------------------------------------------------------
\* Two lists of checks hold when the list of both does.
LEMMA HoldsConcat ==
  ASSUME NEW s \in Seq(BOOLEAN), NEW u \in Seq(BOOLEAN)
  PROVE  Holds(s \o u) <=> Holds(s) /\ Holds(u)
<1>1. DOMAIN s = 1..Len(s) /\ DOMAIN u = 1..Len(u) /\ DOMAIN (s \o u) = 1..(Len(s) + Len(u))
  OBVIOUS
<1>2. \A i \in 1..Len(s) : i \in DOMAIN (s \o u) /\ (s \o u)[i] = s[i]
  OBVIOUS
<1>3. \A i \in 1..Len(u) : Len(s) + i \in DOMAIN (s \o u) /\ (s \o u)[Len(s) + i] = u[i]
  OBVIOUS
<1>4. \A i \in 1..(Len(s) + Len(u)) :
        \/ i \in 1..Len(s)
        \/ i - Len(s) \in 1..Len(u) /\ (s \o u)[i] = u[i - Len(s)]
  OBVIOUS
<1>5. ASSUME Holds(s \o u)
      PROVE  Holds(s) /\ Holds(u)
  BY <1>1, <1>2, <1>3, <1>5, Zenon DEF Holds
<1>6. ASSUME Holds(s), Holds(u)
      PROVE  Holds(s \o u)
  BY <1>1, <1>2, <1>4, <1>6, Zenon DEF Holds
<1> QED
  BY <1>5, <1>6

\* A list of checks that is cut in two.
LEMMA HoldsCut ==
  ASSUME NEW s \in Seq(BOOLEAN), NEW k \in 0..Len(s)
  PROVE  LET front == SubSeq(s, 1, k)
             back == SubSeq(s, k + 1, Len(s))
         IN  /\ front \in Seq(BOOLEAN) /\ back \in Seq(BOOLEAN)
             /\ Len(front) = k /\ Len(back) = Len(s) - k
             /\ Holds(s) <=> Holds(front) /\ Holds(back)
<1> DEFINE front == SubSeq(s, 1, k)
           back == SubSeq(s, k + 1, Len(s))
<1>1. front \in Seq(BOOLEAN) /\ back \in Seq(BOOLEAN)
  OBVIOUS
<1>2. Len(front) = k /\ Len(back) = Len(s) - k
  OBVIOUS
<1>3. front \o back = s
  <2>1. front \o back = SubSeq(s, 1, Len(s))
    <3>1. /\ 1 \in 1..(Len(s) + 1) /\ k \in (1 - 1)..Len(s) /\ Len(s) \in k..Len(s)
      OBVIOUS
    <3> QED
      BY <3>1, ConcatAdjacentSubSeq
  <2> QED
    BY <2>1, SubSeqFull, Zenon
<1> HIDE DEF front, back
<1>4. Holds(s) <=> Holds(front) /\ Holds(back)
  BY <1>1, <1>3, HoldsConcat, Zenon
<1> QED
  BY <1>1, <1>2, <1>4, Zenon DEF front, back

\* The pairs of a batch of n checks.
LEMMA BatchPairs ==
  ASSUME NEW t, NEW n \in Nat
  PROVE  LET P == {x \in {t} \X Nat : x[2] \in 1..n}
         IN  IsFiniteSet(P) /\ Cardinality(P) = n
<1> DEFINE P == {x \in {t} \X Nat : x[2] \in 1..n}
           f == [i \in 1..n |-> <<t, i>>]
<1>1. f \in Injection(1..n, P)
  BY DEF Injection, IsInjective
<1>2. f \in Surjection(1..n, P)
  <2>1. ASSUME NEW x \in P
        PROVE  \E i \in 1..n : f[i] = x
    <3>1. x[2] \in 1..n /\ x = <<t, x[2]>>
      OBVIOUS
    <3> QED
      BY <3>1
  <2>2. f \in [1..n -> P]
    OBVIOUS
  <2> QED
    BY <2>1, <2>2, Zenon DEF Surjection
<1>3. ExistsBijection(1..n, P)
  BY <1>1, <1>2 DEF ExistsBijection, Bijection
<1>4. IsFiniteSet(1..n) /\ Cardinality(1..n) = n
  BY FS_Interval
<1> QED
  BY <1>3, <1>4, FS_Bijection, Zenon


\* Threads are finitely many, and so are those in the pool.
LEMMA PoolFinite ==
  ASSUME QueueTypeOK
  PROVE  /\ IsFiniteSet(Threads) /\ IsFiniteSet(Joined) /\ IsFiniteSet(Idle)
         /\ Cardinality(Joined) \in Nat /\ Cardinality(Idle) \in Nat
<1>1. IsFiniteSet(Threads)
  BY CheckQueueAssumption, FS_AddElement DEF Threads
<1>2. Joined \subseteq Threads /\ Idle \subseteq Threads
  BY DEF Joined, Idle, Busy
<1>3. IsFiniteSet(Joined) /\ IsFiniteSet(Idle)
  BY <1>1, <1>2, FS_Subset
<1> QED
  BY <1>1, <1>3, FS_CardinalityType

\* With nothing left to do nobody has a batch.
LEMMA NothingTodo ==
  ASSUME QueueTypeOK, TodoCounted, BatchesNotEmpty, nTodo = 0
  PROVE  queue = <<>> /\ Busy = {}
<1>1. Cardinality(Owed) \in Nat
  BY FS_CardinalityType DEF TodoCounted
<1>2. Len(queue) \in Nat
  BY DEF QueueTypeOK
<1>3. Len(queue) = 0 /\ Cardinality(Owed) = 0
  BY <1>1, <1>2 DEF TodoCounted
<1>4. Owed = {}
  BY <1>3, FS_EmptySet DEF TodoCounted
<1>5. ASSUME NEW t \in Busy
      PROVE  <<t, 1>> \in Owed
  <2>1. nNow[t] \in Nat \ {0}
    BY DEF Busy, BatchesNotEmpty, QueueTypeOK
  <2>2. 1 \in 1..nNow[t]
    BY <2>1
  <2> QED
    BY <2>2 DEF Owed
<1>6. queue = <<>>
  BY <1>3, EmptySeq DEF QueueTypeOK
<1> QED
  BY <1>4, <1>5, <1>6

\* The size of a batch is at least one and at most that of the queue.
LEMMA BatchFits ==
  ASSUME QueueTypeOK, PoolCounted, queue # <<>>
  PROVE  BatchSize \in 1..Len(queue)
<1>1. Len(queue) \in Nat \ {0}
  BY EmptySeq DEF QueueTypeOK
<1>2. nTotal + nIdle + 1 \in Nat \ {0}
  BY PoolFinite DEF PoolCounted
<1>3. \A a \in Nat \ {0}, b \in Nat \ {0} : a \div b \in 0..a
  <2> SUFFICES ASSUME NEW a \in Nat \ {0}, NEW b \in Nat \ {0}
               PROVE  a \div b \in 0..a
    OBVIOUS
  <2>1. a \div b \in Int
    OBVIOUS
  <2>2. a \div b >= 0
    OBVIOUS
  <2>3. a \div b <= a
    OBVIOUS
  <2> QED
    BY <2>1, <2>2, <2>3
<1>4. Len(queue) \div (nTotal + nIdle + 1) \in 0..Len(queue)
  BY <1>1, <1>2, <1>3
<1> QED
  BY <1>1, <1>4, CheckQueueAssumption DEF BatchSize, Max2, Min2


-----------------------------------------------------------------------------
\* The invariant holds initially.
LEMMA QueueInitInv == QueueInit => QueueInv
<1> SUFFICES ASSUME QueueInit
             PROVE  QueueInv
  OBVIOUS
<1>1. QueueTypeOK
  BY DEF QueueInit, QueueTypeOK, Place
<1>2. Busy = {} /\ Joined = {} /\ Idle = {}
  BY DEF QueueInit, Busy, Joined, Idle
<1>3. Owed = {}
  BY <1>2 DEF Owed
<1>4. PoolCounted
  BY <1>2, FS_EmptySet DEF QueueInit, PoolCounted
<1>5. TodoCounted
  BY <1>3, FS_EmptySet DEF QueueInit, TodoCounted
<1>6. BatchesNotEmpty
  BY DEF QueueInit, BatchesNotEmpty, Threads
<1>7. pc[Master] = "new"
  BY DEF QueueInit, Threads
<1>8. Holds(added)
  BY DEF QueueInit, Holds
<1> QED
  BY <1>1, <1>2, <1>4, <1>5, <1>6, <1>7, <1>8, Zenon DEF QueueInv, Verdict, Left, QueueInit

\* A step that moves threads about and leaves checks and batches alone.
LEMMA QuietStep ==
  ASSUME QueueInv, UNCHANGED <<queue, nTodo, fAllOk, vChecks, fOk, added, ret>>,
         Busy' = Busy, \A t \in Busy : nNow'[t] = nNow[t],
         \A t \in Threads : pc'[t] = "work" <=> pc[t] = "work",
         pc'[Master] = "new" <=> pc[Master] = "new"
  PROVE  TodoCounted' /\ Verdict' /\ Left'
<1>1. Owed' = Owed
  BY DEF Owed
<1>2. \A t \in Busy : BatchHolds(t)' <=> BatchHolds(t)
  BY Zenon DEF BatchHolds, Busy
<1>3. Holds(added)' <=> Holds(added)
  OBVIOUS
<1>4. Holds(queue)' <=> Holds(queue)
  OBVIOUS
<1>5. TodoCounted'
  BY <1>1 DEF QueueInv, TodoCounted
<1>6. Verdict'
  BY <1>2, <1>3, <1>4, Zenon DEF QueueInv, Verdict
<1>7. Left'
  BY <1>3, Zenon DEF QueueInv, Left
<1> QED
  BY <1>5, <1>6, <1>7

\* A worker starts with no batch.
LEMMA StartWorkerInv ==
  ASSUME QueueInv, NEW w \in Workers, StartWorker(w)
  PROVE  QueueInv'
<1>1. QueueTypeOK'
  BY DEF QueueInv, QueueTypeOK, StartWorker, Goto, Place, Threads
<1>2. w \in Threads /\ w # Master /\ nNow[w] = 0 /\ pc' = [pc EXCEPT ![w] = "enter"] /\ pc[w] = "new"
  BY CheckQueueAssumption DEF QueueInv, BatchesNotEmpty, StartWorker, Goto, Threads
<1>3. Busy' = Busy /\ Joined' = Joined /\ Idle' = Idle
  BY <1>2 DEF QueueInv, QueueTypeOK, StartWorker, Busy, Joined, Idle
<1>4. TodoCounted' /\ Verdict' /\ Left'
  <2>1. /\ \A t \in Threads : pc'[t] = "work" <=> pc[t] = "work"
        /\ pc'[Master] = "new" <=> pc[Master] = "new"
    BY <1>2 DEF QueueInv, QueueTypeOK, Threads
  <2> QED
    BY <1>3, <2>1, QuietStep DEF StartWorker
<1>5. PoolCounted'
  BY <1>3 DEF QueueInv, PoolCounted, StartWorker
<1>6. BatchesNotEmpty'
  BY <1>2 DEF QueueInv, QueueTypeOK, BatchesNotEmpty, StartWorker, Threads
<1> QED
  BY <1>1, <1>4, <1>5, <1>6 DEF QueueInv

\* A new control object starts from an empty conjunction.
LEMMA NewControlInv ==
  ASSUME QueueInv, NewControl
  PROVE  QueueInv'
<1>1. QueueTypeOK'
  BY DEF QueueInv, QueueTypeOK, NewControl, Goto, Place, Threads
<1>2. Master \in Threads /\ pc' = [pc EXCEPT ![Master] = "add"] /\ pc[Master] = "new"
  BY DEF NewControl, Goto, Threads
<1>3. Busy' = Busy /\ Joined' = Joined /\ Idle' = Idle
  BY <1>2 DEF QueueInv, QueueTypeOK, NewControl, Busy, Joined, Idle
<1>4. TodoCounted'
  <2>1. Owed' = Owed
    BY <1>3 DEF Owed, NewControl
  <2> QED
    BY <2>1 DEF QueueInv, TodoCounted, NewControl
<1>5. PoolCounted'
  BY <1>3 DEF QueueInv, PoolCounted, NewControl
<1>6. BatchesNotEmpty'
  BY <1>2, CheckQueueAssumption DEF QueueInv, QueueTypeOK, BatchesNotEmpty, NewControl, Threads
<1>7. fAllOk /\ queue = <<>> /\ Busy = {}
  BY <1>2, Zenon DEF QueueInv, Left
<1>8. Holds(added)' /\ Holds(queue)'
  <2>1. added' = <<>> /\ queue' = <<>>
    BY <1>7 DEF NewControl
  <2> QED
    BY <2>1 DEF Holds
<1>9. Verdict'
  <2>1. fAllOk' /\ Busy' = {}
    BY <1>3, <1>7 DEF NewControl
  <2> QED
    BY <1>8, <2>1, Zenon DEF Verdict
<1>10. Left'
  <2>1. pc'[Master] = "add"
    BY <1>2 DEF QueueInv, QueueTypeOK
  <2> QED
    BY <2>1 DEF Left
<1> QED
  BY <1>1, <1>4, <1>5, <1>6, <1>9, <1>10 DEF QueueInv

\* Add wakes sleeping workers and changes nothing else of pc.
LEMMA AddMoves ==
  ASSUME QueueInv, NEW checks \in Seq(BOOLEAN), Add(checks)
  PROVE  /\ pc' \in [Threads -> Place]
         /\ \A t \in Threads : pc'[t] = pc[t] \/ (pc[t] = "wait" /\ pc'[t] = "woken")
<1>1. CASE UNCHANGED pc
  BY <1>1 DEF QueueInv, QueueTypeOK
<1>2. CASE \E w \in Waiting : Goto(w, "woken")
  BY <1>2 DEF QueueInv, QueueTypeOK, Goto, Waiting, Place, Threads
<1>3. CASE pc' = [t \in Threads |-> IF t \in Waiting THEN "woken" ELSE pc[t]]
  BY <1>3 DEF QueueInv, QueueTypeOK, Waiting, Place, Threads
<1> QED
  BY <1>1, <1>2, <1>3, Zenon DEF Add


\* What Add puts in the queue it counts in nTodo.
LEMMA AddInv ==
  ASSUME QueueInv, NEW checks \in Seq(BOOLEAN), Add(checks)
  PROVE  QueueInv'
<1>1. /\ queue' = queue \o checks /\ nTodo' = nTodo + Len(checks) /\ added' = added \o checks
      /\ pc[Master] = "add"
      /\ UNCHANGED <<mutex, nIdle, nTotal, fAllOk, vChecks, fOk, nNow, ret>>
  BY DEF Add
<1>2. /\ pc' \in [Threads -> Place]
      /\ \A t \in Threads : pc'[t] = pc[t] \/ (pc[t] = "wait" /\ pc'[t] = "woken")
  BY AddMoves
<1>3. QueueTypeOK'
  <2>1. /\ queue \o checks \in Seq(BOOLEAN) /\ added \o checks \in Seq(BOOLEAN)
        /\ Len(checks) \in Int
    BY DEF QueueInv, QueueTypeOK
  <2> QED
    BY <1>1, <1>2, <2>1 DEF QueueInv, QueueTypeOK
<1>4. Busy' = Busy /\ Joined' = Joined /\ Idle' = Idle
  BY <1>1, <1>2 DEF Busy, Joined, Idle
<1>5. TodoCounted'
  <2>1. Owed' = Owed
    BY <1>1, <1>4 DEF Owed
  <2>2. Len(queue') = Len(queue) + Len(checks)
    BY <1>1 DEF QueueInv, QueueTypeOK
  <2>3. Cardinality(Owed) \in Nat /\ Len(queue) \in Nat /\ Len(checks) \in Nat
    BY FS_CardinalityType DEF QueueInv, QueueTypeOK, TodoCounted
  <2> QED
    BY <1>1, <2>1, <2>2, <2>3 DEF QueueInv, TodoCounted
<1>6. PoolCounted'
  BY <1>1, <1>4 DEF QueueInv, PoolCounted
<1>7. BatchesNotEmpty'
  BY <1>1, <1>2 DEF QueueInv, BatchesNotEmpty, Threads
<1>8. Verdict'
  <2>1. Holds(queue)' <=> Holds(queue) /\ Holds(checks)
    BY <1>1, HoldsConcat, Zenon DEF QueueInv, QueueTypeOK
  <2>2. Holds(added)' <=> Holds(added) /\ Holds(checks)
    BY <1>1, HoldsConcat, Zenon DEF QueueInv, QueueTypeOK
  <2>3. \A t \in Busy : pc'[t] = "work" <=> pc[t] = "work"
    BY <1>2 DEF Busy
  <2>4. \A t \in Busy : BatchHolds(t)' <=> BatchHolds(t)
    BY <1>1, <2>3, Zenon DEF BatchHolds
  <2>5. Holds(added) <=> fAllOk /\ Holds(queue) /\ \A t \in Busy : BatchHolds(t)
    <3>1. pc[Master] # "new"
      BY <1>1
    <3> QED
      BY <3>1, Zenon DEF QueueInv, Verdict
  <2>6. fAllOk' <=> fAllOk
    BY <1>1
  <2> QED
    BY <1>4, <2>1, <2>2, <2>4, <2>5, <2>6, Zenon DEF Verdict
<1>9. Left'
  <2>1. pc'[Master] # "new"
    BY <1>1, <1>2 DEF Threads
  <2> QED
    BY <2>1 DEF Left
<1> QED
  BY <1>3, <1>5, <1>6, <1>7, <1>8, <1>9 DEF QueueInv

\* The master enters the loop with no batch.
LEMMA WaitInv ==
  ASSUME QueueInv, Wait
  PROVE  QueueInv'
<1>1. /\ Master \in Threads /\ pc' = [pc EXCEPT ![Master] = "enter"] /\ pc[Master] = "add"
      /\ nNow' = [nNow EXCEPT ![Master] = 0]
  BY DEF Wait, Goto, Threads
<1>2. QueueTypeOK'
  BY <1>1 DEF QueueInv, QueueTypeOK, Wait, Place
<1>3. Busy' = Busy /\ Joined' = Joined /\ Idle' = Idle
  BY <1>1 DEF QueueInv, QueueTypeOK, Busy, Joined, Idle
<1>4. TodoCounted' /\ Verdict' /\ Left'
  <2>1. /\ \A t \in Threads : pc'[t] = "work" <=> pc[t] = "work"
        /\ pc'[Master] = "new" <=> pc[Master] = "new"
    BY <1>1 DEF QueueInv, QueueTypeOK
  <2>2. \A t \in Busy : nNow'[t] = nNow[t]
    BY <1>1 DEF QueueInv, QueueTypeOK, Busy
  <2> QED
    BY <1>3, <2>1, <2>2, QuietStep DEF Wait
<1>5. PoolCounted'
  BY <1>3 DEF QueueInv, PoolCounted, Wait
<1>6. BatchesNotEmpty'
  BY <1>1 DEF QueueInv, QueueTypeOK, BatchesNotEmpty, Threads
<1> QED
  BY <1>2, <1>4, <1>5, <1>6 DEF QueueInv

\* The first iteration: the thread joins the pool.
LEMMA JoinInv ==
  ASSUME QueueInv, NEW t \in Threads, Enter(t), nNow[t] = 0
  PROVE  QueueInv'
<1>1. /\ pc[t] = "enter" /\ pc' = [pc EXCEPT ![t] = "check"] /\ nTotal' = nTotal + 1
      /\ UNCHANGED <<fAllOk, nTodo, queue, nIdle, vChecks, fOk, nNow, added, ret>>
  BY DEF Enter, Goto
<1>2. QueueTypeOK'
  BY <1>1 DEF QueueInv, QueueTypeOK, Place
<1>3. Busy' = Busy /\ Joined' = Joined \cup {t} /\ t \notin Joined /\ Idle' = Idle
  BY <1>1 DEF QueueInv, QueueTypeOK, Busy, Joined, Idle
<1>4. TodoCounted' /\ Verdict' /\ Left'
  <2>1. /\ \A u \in Threads : pc'[u] = "work" <=> pc[u] = "work"
        /\ pc'[Master] = "new" <=> pc[Master] = "new"
    BY <1>1 DEF QueueInv, QueueTypeOK, Threads
  <2> QED
    BY <1>1, <1>3, <2>1, QuietStep
<1>5. PoolCounted'
  BY <1>1, <1>3, PoolFinite, FS_AddElement DEF QueueInv, PoolCounted
<1>6. BatchesNotEmpty'
  BY <1>1 DEF QueueInv, QueueTypeOK, BatchesNotEmpty, Threads
<1> QED
  BY <1>2, <1>4, <1>5, <1>6 DEF QueueInv

\* Later iterations: the thread accounts for its batch.
LEMMA AccountInv ==
  ASSUME QueueInv, NEW t \in Threads, Enter(t), nNow[t] # 0
  PROVE  QueueInv'
<1>1. /\ pc[t] = "enter" /\ fAllOk' = (fAllOk /\ fOk[t]) /\ nTodo' = nTodo - nNow[t]
      /\ pc' = [(IF nTodo' = 0 /\ t # Master THEN NotifyMaster(pc) ELSE pc)
                  EXCEPT ![t] = "check"]
      /\ UNCHANGED <<nTotal, queue, nIdle, vChecks, fOk, nNow, added, ret>>
  BY DEF Enter
<1>2. /\ pc' \in [Threads -> Place] /\ pc'[t] = "check"
      /\ \A u \in Threads \ {t} : pc'[u] = pc[u] \/ (pc[u] = "wait" /\ pc'[u] = "woken")
  BY <1>1 DEF QueueInv, QueueTypeOK, NotifyMaster, Place, Threads
<1>3. QueueTypeOK'
  BY <1>1, <1>2 DEF QueueInv, QueueTypeOK
<1>4. Busy' = Busy \ {t} /\ t \in Busy /\ Joined' = Joined /\ Idle' = Idle
  BY <1>1, <1>2 DEF Busy, Joined, Idle
<1>5. TodoCounted'
  <2> DEFINE P == {x \in {t} \X Nat : x[2] \in 1..nNow[t]}
  <2>1. Owed' = Owed \ P /\ P \subseteq Owed
    BY <1>1, <1>4 DEF Owed
  <2>2. IsFiniteSet(P) /\ Cardinality(P) = nNow[t]
    BY BatchPairs DEF QueueInv, QueueTypeOK
  <2> HIDE DEF P
  <2>3. IsFiniteSet(Owed) /\ Owed \cap P = P
    BY <2>1 DEF QueueInv, TodoCounted
  <2>4. IsFiniteSet(Owed \ P) /\ Cardinality(Owed \ P) = Cardinality(Owed) - Cardinality(P)
    BY <2>3, FS_Difference
  <2>5. Cardinality(Owed) \in Nat /\ Len(queue) \in Nat /\ nNow[t] \in Nat
    BY <2>3, FS_CardinalityType DEF QueueInv, QueueTypeOK
  <2> QED
    BY <1>1, <2>1, <2>2, <2>4, <2>5 DEF QueueInv, TodoCounted
<1>6. PoolCounted'
  BY <1>1, <1>4 DEF QueueInv, PoolCounted
<1>7. BatchesNotEmpty'
  BY <1>1, <1>2 DEF QueueInv, BatchesNotEmpty, Threads
<1>8. pc[Master] # "new" /\ pc'[Master] # "new"
  <2>1. pc[Master] # "new"
    BY <1>4, Zenon DEF QueueInv, Left
  <2> QED
    BY <1>2, <2>1 DEF Threads
<1>9. Verdict'
  <2>1. \A u \in Busy \ {t} : pc'[u] = "work" <=> pc[u] = "work"
    BY <1>2 DEF Busy
  <2>2. \A u \in Busy \ {t} : BatchHolds(u)' <=> BatchHolds(u)
    BY <1>1, <2>1, Zenon DEF BatchHolds
  <2>3. BatchHolds(t) <=> fOk[t]
    BY <1>1, Zenon DEF BatchHolds
  <2>4. Holds(added) <=> fAllOk /\ Holds(queue) /\ \A u \in Busy : BatchHolds(u)
    BY <1>8, Zenon DEF QueueInv, Verdict
  <2>5. (\A u \in Busy : BatchHolds(u)) <=> BatchHolds(t) /\ \A u \in Busy \ {t} : BatchHolds(u)
    BY <1>4
  <2>6. /\ Holds(added)' <=> Holds(added)
        /\ Holds(queue)' <=> Holds(queue)
        /\ fAllOk' <=> fAllOk /\ fOk[t]
    BY <1>1
  <2> QED
    BY <1>4, <2>2, <2>3, <2>4, <2>5, <2>6, Zenon DEF Verdict
<1>10. Left'
  BY <1>8 DEF Left
<1> QED
  BY <1>3, <1>5, <1>6, <1>7, <1>9, <1>10 DEF QueueInv


\* The master leaves when nothing is owed, with the whole conjunction.
LEMMA MasterReturnsInv ==
  ASSUME QueueInv, MasterReturns
  PROVE  QueueInv'
<1>1. /\ Master \in Threads /\ pc[Master] = "check" /\ pc' = [pc EXCEPT ![Master] = "new"]
      /\ nTotal' = nTotal - 1 /\ ret' = fAllOk /\ fAllOk' = TRUE /\ queue = <<>> /\ nTodo = 0
      /\ UNCHANGED <<queue, nIdle, nTodo, vChecks, fOk, nNow, added>>
  BY DEF MasterReturns, Goto, Threads
<1>2. QueueTypeOK'
  BY <1>1 DEF QueueInv, QueueTypeOK, Place
<1>3. Busy = {}
  BY <1>1, NothingTodo DEF QueueInv
<1>4. Busy' = Busy /\ Joined' = Joined \ {Master} /\ Master \in Joined /\ Idle' = Idle
  BY <1>1 DEF QueueInv, QueueTypeOK, Busy, Joined, Idle
<1>5. TodoCounted'
  <2>1. Owed' = Owed
    BY <1>1, <1>4 DEF Owed
  <2> QED
    BY <1>1, <2>1 DEF QueueInv, TodoCounted
<1>6. PoolCounted'
  BY <1>1, <1>4, PoolFinite, FS_RemoveElement DEF QueueInv, PoolCounted
<1>7. BatchesNotEmpty'
  BY <1>1, CheckQueueAssumption DEF QueueInv, QueueTypeOK, BatchesNotEmpty, Threads
<1>8. pc'[Master] = "new"
  BY <1>1 DEF QueueInv, QueueTypeOK
<1>9. Verdict'
  BY <1>8 DEF Verdict
<1>10. Left'
  <2>1. Holds(queue)
    BY <1>1 DEF Holds
  <2>2. pc[Master] # "new"
    BY <1>1
  <2>3. Holds(added) <=> fAllOk
    BY <1>3, <2>1, <2>2, Zenon DEF QueueInv, Verdict
  <2>4. /\ Holds(added)' <=> Holds(added)
        /\ ret' <=> fAllOk
        /\ fAllOk' /\ queue' = <<>> /\ Busy' = {}
    BY <1>1, <1>3, <1>4
  <2> QED
    BY <2>3, <2>4, Zenon DEF Left
<1> QED
  BY <1>2, <1>5, <1>6, <1>7, <1>9, <1>10 DEF QueueInv

\* What the steps into and out of a condition variable have in common.
LEMMA SleepInv ==
  ASSUME QueueInv, NEW t \in Threads, NEW s \in {"check", "wait", "woken", "dead"},
         pc[t] \in {"check", "wait", "woken"}, pc' = [pc EXCEPT ![t] = s],
         nIdle' = Cardinality(Idle'),
         UNCHANGED <<queue, nTotal, fAllOk, nTodo, vChecks, fOk, nNow, added, ret>>
  PROVE  QueueInv'
<1>1. Busy' = Busy /\ Joined' = Joined
  BY DEF QueueInv, QueueTypeOK, Busy, Joined
<1>2. IsFiniteSet(Idle') /\ Cardinality(Idle') \in Nat
  <2>1. Idle' \subseteq Threads
    BY DEF Idle
  <2>2. IsFiniteSet(Threads)
    BY PoolFinite DEF QueueInv
  <2> QED
    BY <2>1, <2>2, FS_Subset, FS_CardinalityType
<1>3. QueueTypeOK'
  BY <1>2 DEF QueueInv, QueueTypeOK, Place
<1>4. TodoCounted' /\ Verdict' /\ Left'
  <2>1. /\ \A u \in Threads : pc'[u] = "work" <=> pc[u] = "work"
        /\ pc'[Master] = "new" <=> pc[Master] = "new"
    BY DEF QueueInv, QueueTypeOK, Threads
  <2> QED
    BY <1>1, <2>1, QuietStep
<1>5. PoolCounted'
  BY <1>1 DEF QueueInv, PoolCounted
<1>6. BatchesNotEmpty'
  BY DEF QueueInv, QueueTypeOK, BatchesNotEmpty, Threads
<1> QED
  BY <1>3, <1>4, <1>5, <1>6 DEF QueueInv

\* A thread that blocks is counted idle.
LEMMA BlockInv ==
  ASSUME QueueInv, NEW t \in Threads, Block(t)
  PROVE  QueueInv'
<1>1. pc[t] = "check" /\ pc' = [pc EXCEPT ![t] = "wait"] /\ nIdle' = nIdle + 1
  BY DEF Block, Goto
<1>2. Idle' = Idle \cup {t} /\ t \notin Idle
  BY <1>1 DEF QueueInv, QueueTypeOK, Idle
<1>3. nIdle' = Cardinality(Idle')
  BY <1>1, <1>2, PoolFinite, FS_AddElement DEF QueueInv, PoolCounted
<1> QED
  BY <1>1, <1>3, SleepInv DEF Block

\* A thread that resumes is no longer counted idle.
LEMMA ResumeInv ==
  ASSUME QueueInv, NEW t \in Threads, Resume(t)
  PROVE  QueueInv'
<1>1. pc[t] = "woken" /\ pc' = [pc EXCEPT ![t] = "check"] /\ nIdle' = nIdle - 1
  BY DEF Resume, Goto
<1>2. Idle' = Idle \ {t} /\ t \in Idle
  BY <1>1 DEF QueueInv, QueueTypeOK, Idle
<1>3. nIdle' = Cardinality(Idle')
  BY <1>1, <1>2, PoolFinite, FS_RemoveElement DEF QueueInv, PoolCounted
<1> QED
  BY <1>1, <1>3, SleepInv DEF Resume

\* A wake-up moves no check.
LEMMA SpuriousWakeupInv ==
  ASSUME QueueInv, NEW t \in Threads, SpuriousWakeup(t)
  PROVE  QueueInv'
<1>1. pc[t] = "wait" /\ pc' = [pc EXCEPT ![t] = "woken"] /\ nIdle' = nIdle
  BY DEF SpuriousWakeup, Goto
<1>2. Idle' = Idle
  BY <1>1 DEF QueueInv, QueueTypeOK, Idle
<1> QED
  BY <1>1, <1>2, SleepInv DEF SpuriousWakeup, QueueInv, PoolCounted

\* An interrupted worker holds no batch.
LEMMA InterruptInv ==
  ASSUME QueueInv, NEW w \in Workers, Interrupt(w)
  PROVE  QueueInv'
<1>1. w \in Threads /\ pc[w] = "wait" /\ pc' = [pc EXCEPT ![w] = "dead"] /\ nIdle' = nIdle
  BY DEF Interrupt, Goto, Threads
<1>2. Idle' = Idle
  BY <1>1 DEF QueueInv, QueueTypeOK, Idle
<1> QED
  BY <1>1, <1>2, SleepInv DEF Interrupt, QueueInv, PoolCounted

\* A batch moves from the queue to its thread.
LEMMA TakeBatchInv ==
  ASSUME QueueInv, NEW t \in Threads, TakeBatch(t)
  PROVE  QueueInv'
<1> DEFINE n == BatchSize
           k == Len(queue) - n
           back == SubSeq(queue, k + 1, Len(queue))
           front == SubSeq(queue, 1, k)
<1>1. /\ pc[t] = "check" /\ pc' = [pc EXCEPT ![t] = "work"] /\ queue # <<>>
      /\ nNow' = [nNow EXCEPT ![t] = n]
      /\ vChecks' = [vChecks EXCEPT ![t] = back]
      /\ queue' = front
      /\ fOk' = [fOk EXCEPT ![t] = fAllOk]
      /\ UNCHANGED <<nIdle, nTotal, fAllOk, nTodo, added, ret>>
  BY DEF TakeBatch, Goto
<1>2. n \in 1..Len(queue) /\ k \in 0..Len(queue)
  <2>1. n \in 1..Len(queue)
    BY <1>1, BatchFits DEF QueueInv
  <2>2. Len(queue) \in Nat
    BY DEF QueueInv, QueueTypeOK
  <2> QED
    BY <2>1, <2>2
<1>3. /\ front \in Seq(BOOLEAN) /\ back \in Seq(BOOLEAN) /\ Len(front) = k
      /\ Holds(queue) <=> Holds(front) /\ Holds(back)
  BY <1>2, HoldsCut DEF QueueInv, QueueTypeOK
<1> HIDE DEF n, back, front
<1>4. QueueTypeOK'
  <2>1. n \in Nat
    BY <1>2
  <2> QED
    BY <1>1, <1>3, <2>1 DEF QueueInv, QueueTypeOK, Place
<1>5. Busy' = Busy \cup {t} /\ t \notin Busy /\ Joined' = Joined /\ Idle' = Idle
  BY <1>1 DEF QueueInv, QueueTypeOK, Busy, Joined, Idle
<1>6. TodoCounted'
  <2> DEFINE P == {x \in {t} \X Nat : x[2] \in 1..n}
  <2>1. Owed' = Owed \cup P /\ Owed \cap P = {}
    <3>1. nNow'[t] = n /\ \A u \in Busy : nNow'[u] = nNow[u]
      BY <1>1, <1>5 DEF QueueInv, QueueTypeOK, Busy
    <3> QED
      BY <1>5, <3>1 DEF Owed
  <2>2. IsFiniteSet(P) /\ Cardinality(P) = n
    <3>1. n \in Nat
      BY <1>2
    <3> QED
      BY <3>1, BatchPairs
  <2> HIDE DEF P
  <2>3. IsFiniteSet(Owed) /\ Cardinality(Owed) \in Nat
    BY FS_CardinalityType DEF QueueInv, TodoCounted
  <2>4. IsFiniteSet(Owed \cup P) /\ Cardinality(Owed \cup P) = Cardinality(Owed) + n
    <3>1. /\ IsFiniteSet(Owed \cup P)
          /\ Cardinality(Owed \cup P) =
               Cardinality(Owed) + Cardinality(P) - Cardinality(Owed \cap P)
      BY <2>2, <2>3, FS_Union
    <3>2. Cardinality(Owed \cap P) = 0
      BY <2>1, FS_EmptySet
    <3>3. n \in Nat
      BY <1>2
    <3> QED
      BY <2>2, <2>3, <3>1, <3>2, <3>3
  <2>5. Len(queue) \in Nat /\ n \in Nat
    BY <1>2 DEF QueueInv, QueueTypeOK
  <2> QED
    BY <1>1, <1>3, <2>1, <2>3, <2>4, <2>5 DEF QueueInv, TodoCounted
<1>7. PoolCounted'
  BY <1>1, <1>5 DEF QueueInv, PoolCounted
<1>8. BatchesNotEmpty'
  <2>1. n # 0
    BY <1>2
  <2> QED
    BY <1>1, <2>1 DEF QueueInv, QueueTypeOK, BatchesNotEmpty, Threads
<1>9. pc[Master] # "new" /\ pc'[Master] # "new"
  <2>1. pc[Master] # "new"
    BY <1>1, Zenon DEF QueueInv, Left
  <2> QED
    BY <1>1, <2>1 DEF QueueInv, QueueTypeOK, Threads
<1>10. Verdict'
  <2>1. \A u \in Busy : pc'[u] = pc[u] /\ fOk'[u] = fOk[u] /\ vChecks'[u] = vChecks[u]
    BY <1>1, <1>5 DEF QueueInv, QueueTypeOK, Busy
  <2>2. \A u \in Busy : BatchHolds(u)' <=> BatchHolds(u)
    BY <2>1, Zenon DEF BatchHolds
  <2>3. pc'[t] = "work" /\ fOk'[t] = fAllOk /\ vChecks'[t] = back
    BY <1>1 DEF QueueInv, QueueTypeOK
  <2>4. BatchHolds(t)' <=> fAllOk /\ Holds(back)
    BY <2>3, Zenon DEF BatchHolds
  <2>5. Holds(added) <=> fAllOk /\ Holds(queue) /\ \A u \in Busy : BatchHolds(u)
    BY <1>9, Zenon DEF QueueInv, Verdict
  <2>6. (\A u \in Busy' : BatchHolds(u)') <=> BatchHolds(t)' /\ \A u \in Busy : BatchHolds(u)'
    BY <1>5
  <2>7. /\ Holds(added)' <=> Holds(added)
        /\ Holds(queue)' <=> Holds(front)
        /\ fAllOk' <=> fAllOk
    BY <1>1
  <2> QED
    BY <1>3, <2>2, <2>4, <2>5, <2>6, <2>7, Zenon DEF Verdict
<1>11. Left'
  BY <1>9 DEF Left
<1> QED
  BY <1>4, <1>6, <1>7, <1>8, <1>10, <1>11 DEF QueueInv

\* Evaluating a batch moves its conjunction into fOk.
LEMMA WorkInv ==
  ASSUME QueueInv, NEW t \in Threads, Work(t)
  PROVE  QueueInv'
<1>1. /\ pc[t] = "work" /\ pc' = [pc EXCEPT ![t] = "enter"]
      /\ fOk' = [fOk EXCEPT ![t] = fOk[t] /\ Holds(vChecks[t])]
      /\ vChecks' = [vChecks EXCEPT ![t] = <<>>]
      /\ UNCHANGED <<queue, nIdle, nTotal, fAllOk, nTodo, nNow, added, ret>>
  BY DEF Work, Goto, Holds
<1>2. nNow[t] # 0
  BY <1>1 DEF QueueInv, BatchesNotEmpty
<1>3. QueueTypeOK'
  <2>1. (fOk[t] /\ Holds(vChecks[t])) \in BOOLEAN
    OBVIOUS
  <2>2. fOk' \in [Threads -> BOOLEAN]
    BY <1>1, <2>1, Zenon DEF QueueInv, QueueTypeOK
  <2>3. pc' \in [Threads -> Place] /\ vChecks' \in [Threads -> Seq(BOOLEAN)]
    BY <1>1 DEF QueueInv, QueueTypeOK, Place
  <2> QED
    BY <1>1, <2>2, <2>3 DEF QueueInv, QueueTypeOK
<1>4. Busy' = Busy /\ t \in Busy /\ Joined' = Joined /\ Idle' = Idle
  BY <1>1, <1>2 DEF QueueInv, QueueTypeOK, Busy, Joined, Idle
<1>5. TodoCounted'
  <2>1. Owed' = Owed
    BY <1>1, <1>4 DEF Owed
  <2> QED
    BY <1>1, <2>1 DEF QueueInv, TodoCounted
<1>6. PoolCounted'
  BY <1>1, <1>4 DEF QueueInv, PoolCounted
<1>7. BatchesNotEmpty'
  BY <1>1 DEF QueueInv, QueueTypeOK, BatchesNotEmpty, Threads
<1>8. pc[Master] # "new" /\ pc'[Master] # "new"
  <2>1. pc[Master] # "new"
    BY <1>4, Zenon DEF QueueInv, Left
  <2> QED
    BY <1>1, <2>1 DEF QueueInv, QueueTypeOK, Threads
<1>9. Verdict'
  <2>1. \A u \in Busy \ {t} : pc'[u] = pc[u] /\ fOk'[u] = fOk[u] /\ vChecks'[u] = vChecks[u]
    BY <1>1 DEF QueueInv, QueueTypeOK, Busy
  <2>2. \A u \in Busy \ {t} : BatchHolds(u)' <=> BatchHolds(u)
    BY <2>1, Zenon DEF BatchHolds
  <2>3. pc'[t] = "enter" /\ fOk'[t] = (fOk[t] /\ Holds(vChecks[t]))
    BY <1>1, Zenon DEF QueueInv, QueueTypeOK
  <2>4. BatchHolds(t)' <=> BatchHolds(t)
    <3>1. "enter" # "work"
      OBVIOUS
    <3> QED
      BY <1>1, <2>3, <3>1, Zenon DEF BatchHolds
  <2>5. Holds(added) <=> fAllOk /\ Holds(queue) /\ \A u \in Busy : BatchHolds(u)
    BY <1>8, Zenon DEF QueueInv, Verdict
  <2>6. \A u \in Busy : u = t \/ u \in Busy \ {t}
    OBVIOUS
  <2>7. /\ Holds(added)' <=> Holds(added)
        /\ Holds(queue)' <=> Holds(queue)
        /\ fAllOk' <=> fAllOk
    BY <1>1
  <2>8. (\A u \in Busy : BatchHolds(u)') <=> (\A u \in Busy : BatchHolds(u))
    BY <2>2, <2>4, <2>6, Zenon
  <2> QED
    BY <1>4, <2>5, <2>7, <2>8, Zenon DEF Verdict
<1>10. Left'
  BY <1>8 DEF Left
<1> QED
  BY <1>3, <1>5, <1>6, <1>7, <1>9, <1>10 DEF QueueInv

-----------------------------------------------------------------------------
\* Every step keeps the invariant.
LEMMA QueueNextInv == QueueInv /\ [QueueNext]_queueVars => QueueInv'
<1> SUFFICES ASSUME QueueInv, [QueueNext]_queueVars
             PROVE  QueueInv'
  OBVIOUS
<1>1. CASE NewControl
  BY <1>1, NewControlInv
<1>2. ASSUME NEW checks \in Batches, Add(checks)
      PROVE  QueueInv'
  <2>1. checks \in Seq(BOOLEAN)
    <3>1. PICK n \in 0..(MaxChecks - Len(added)) : checks \in [1..n -> BOOLEAN]
      BY DEF Batches
    <3>2. n \in Nat
      BY CheckQueueAssumption DEF QueueInv, QueueTypeOK
    <3> QED
      BY <3>1, <3>2, SeqDef
  <2> QED
    BY <1>2, <2>1, AddInv
<1>3. CASE Wait
  BY <1>3, WaitInv
<1>4. CASE MasterReturns
  BY <1>4, MasterReturnsInv
<1>5. ASSUME NEW t \in Threads, Loop(t)
      PROVE  QueueInv'
  <2>1. CASE Enter(t)
    BY <2>1, JoinInv, AccountInv
  <2> QED
    BY <1>5, <2>1, ResumeInv, BlockInv, TakeBatchInv, WorkInv DEF Loop
<1>6. ASSUME NEW t \in Threads, SpuriousWakeup(t)
      PROVE  QueueInv'
  BY <1>6, SpuriousWakeupInv
<1>7. ASSUME NEW w \in Workers, StartWorker(w) \/ Interrupt(w)
      PROVE  QueueInv'
  BY <1>7, StartWorkerInv, InterruptInv
<1>8. CASE UNCHANGED queueVars
  <2>1. Busy' = Busy /\ Joined' = Joined /\ Idle' = Idle
    BY <1>8 DEF queueVars, Busy, Joined, Idle
  <2>2. TodoCounted' /\ Verdict' /\ Left'
    BY <1>8, <2>1, QuietStep DEF queueVars
  <2>3. QueueTypeOK' /\ PoolCounted' /\ BatchesNotEmpty'
    BY <1>8, <2>1 DEF queueVars, QueueInv, QueueTypeOK, PoolCounted, BatchesNotEmpty
  <2> QED
    BY <2>2, <2>3 DEF QueueInv
<1> QED
  BY <1>1, <1>2, <1>3, <1>4, <1>5, <1>6, <1>7, <1>8 DEF QueueNext

\* The counters, the batches and the verdict fit together at every step of every
\* thread of checkqueue.h: what Add has put in is in the queue, with a thread, or
\* accounted for in fAllOk, and nTodo is the number of checks that are not.
THEOREM QueueAccounted == QueueSpec => []QueueInv
BY QueueInitInv, QueueNextInv, PTL DEF QueueSpec

\* Wait() returns the conjunction of all the checks that were added, with every
\* batch accounted for, for any number of ThreadScriptCheck threads that start
\* late, wake spuriously or are interrupted.
THEOREM WaitCorrect == QueueSpec => []WaitResultIsConjunction
<1>1. QueueInv => WaitResultIsConjunction
  <2> SUFFICES ASSUME QueueInv, pc[Master] = "new"
               PROVE  /\ ret <=> \A i \in DOMAIN added : added[i]
                      /\ queue = <<>> /\ nTodo = 0 /\ fAllOk
                      /\ \A t \in Threads : pc[t] # "work"
    BY Zenon DEF WaitResultIsConjunction
  <2>1. (ret <=> Holds(added)) /\ fAllOk /\ queue = <<>> /\ Busy = {}
    BY Zenon DEF QueueInv, Left
  <2>2. \A t \in Threads : pc[t] # "work"
    BY <2>1 DEF Busy
  <2>3. nTodo = 0
    <3>1. Owed = {} /\ Len(queue) = 0
      BY <2>1 DEF Owed
    <3> QED
      BY <3>1, FS_EmptySet DEF QueueInv, TodoCounted
  <2> QED
    BY <2>1, <2>2, <2>3, Zenon DEF Holds
<1> QED
  BY <1>1, QueueAccounted, PTL

=============================================================================
