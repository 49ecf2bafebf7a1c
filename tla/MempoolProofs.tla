---------------------------- MODULE MempoolProofs ----------------------------
(***************************************************************************)
(* Proofs about module Mempool, for every set of transactions and nodes,   *)
(* every limit and every chain: the maps of the pool and of the orphans    *)
(* are consistent, the orphans are bounded and owned, only nodes that sent *)
(* a bad transaction are punished, the pool fits the chain after every     *)
(* reorganisation, transactions leave it for a reason only, and the "tx"   *)
(* handler drops no orphan that could be accepted.                         *)
(***************************************************************************)
EXTENDS Mempool, FiniteSetTheorems, WellFoundedInduction, NaturalsInduction, TLAPS

-----------------------------------------------------------------------------
(* The pool *)

\* MapNextTxExact of any pool.
Exact(pool) ==
  /\ DOMAIN pool.mapNextTx = UNION {Ins[t] : t \in pool.mapTx}
  /\ \A t \in pool.mapTx : \A o \in Ins[t] : pool.mapNextTx[o] = t

\* addUnchecked keeps mapNextTx exact if no pool transaction spends an input of
\* the new one, which AcceptToMemoryPool has checked.
LEMMA AddKeepsExact ==
  ASSUME NEW pool, NEW t, Exact(pool), Ins[t] \cap DOMAIN pool.mapNextTx = {}
  PROVE  Exact(addUnchecked(pool, t))
  <1> DEFINE new == addUnchecked(pool, t)
  <1>1. DOMAIN new.mapNextTx = DOMAIN pool.mapNextTx \cup Ins[t]
    BY DEF addUnchecked
  <1>2. new.mapTx = pool.mapTx \cup {t}
    BY DEF addUnchecked
  <1>3. \A u \in pool.mapTx \cup {t} : \A o \in Ins[u] : new.mapNextTx[o] = u
    BY DEF addUnchecked, Exact
  <1> QED BY <1>1, <1>2, <1>3 DEF Exact

\* RemoveAll keeps mapNextTx exact whatever set is removed: the entries that go
\* are those of the removed transactions, because no other one spends the same.
LEMMA RemoveKeepsExact ==
  ASSUME NEW pool, NEW S, Exact(pool)
  PROVE  /\ Exact(RemoveAll(pool, S))
         /\ RemoveAll(pool, S).mapTx \subseteq pool.mapTx
  <1> DEFINE new == RemoveAll(pool, S)
             gone == S \cap pool.mapTx
  <1>1. new.mapTx = pool.mapTx \ gone
    BY DEF RemoveAll
  <1>2. DOMAIN new.mapNextTx = DOMAIN pool.mapNextTx \ UNION {Ins[t] : t \in gone}
    BY DEF RemoveAll, Restrict
  <1>3. \A o \in DOMAIN new.mapNextTx : new.mapNextTx[o] = pool.mapNextTx[o]
    BY DEF RemoveAll, Restrict
  <1>4. \A t \in new.mapTx : \A o \in Ins[t] : o \in DOMAIN new.mapNextTx
    BY <1>1, <1>2 DEF Exact
  <1>5. DOMAIN new.mapNextTx = UNION {Ins[t] : t \in new.mapTx}
    BY <1>1, <1>2, <1>4 DEF Exact
  <1>6. \A t \in new.mapTx : \A o \in Ins[t] : new.mapNextTx[o] = t
    BY <1>1, <1>3, <1>4 DEF Exact
  <1> QED BY <1>1, <1>5, <1>6 DEF Exact

-----------------------------------------------------------------------------
(* The orphan maps *)

\* OrphanMapsAgree of any pair of maps.
Agree(orphans) ==
  /\ DOMAIN orphans.byPrev = UNION {Parents(t) : t \in DOMAIN orphans.tx}
  /\ \A p \in DOMAIN orphans.byPrev :
       orphans.byPrev[p] = {t \in DOMAIN orphans.tx : p \in Parents(t)}

\* AddOrphanTx keeps the index exact, adds at most t, and leaves the node of
\* every orphan that was there alone.
LEMMA AddOrphan ==
  ASSUME NEW orphans, NEW t, NEW p, Agree(orphans)
  PROVE  LET new == AddOrphanTx(orphans, t, p) IN
           /\ Agree(new)
           /\ DOMAIN new.tx \subseteq DOMAIN orphans.tx \cup {t}
           /\ \A x \in DOMAIN orphans.tx : new.tx[x] = orphans.tx[x]
           /\ \A x \in DOMAIN new.tx \ DOMAIN orphans.tx : x = t /\ new.tx[x] = p
  <1>1. CASE t \in DOMAIN orphans.tx \/ t \in BigTx
    BY <1>1 DEF AddOrphanTx
  <1>2. CASE ~(t \in DOMAIN orphans.tx \/ t \in BigTx)
    <2> DEFINE new == AddOrphanTx(orphans, t, p)
               Prev(x) == IF x \in DOMAIN orphans.byPrev THEN orphans.byPrev[x] ELSE {}
    <2>1. new = [tx |-> [x \in DOMAIN orphans.tx \cup {t} |->
                           IF x = t THEN p ELSE orphans.tx[x]],
                 byPrev |-> [x \in DOMAIN orphans.byPrev \cup Parents(t) |->
                               IF x \in Parents(t) THEN Prev(x) \cup {t} ELSE Prev(x)]]
      BY <1>2 DEF AddOrphanTx
    <2> HIDE DEF new
    <2>2. DOMAIN new.tx = DOMAIN orphans.tx \cup {t}
      BY <2>1
    <2>3. DOMAIN new.byPrev = DOMAIN orphans.byPrev \cup Parents(t)
      BY <2>1
    <2>4. DOMAIN new.byPrev = UNION {Parents(x) : x \in DOMAIN new.tx}
      BY <2>2, <2>3 DEF Agree
    <2>5. ASSUME NEW x \in DOMAIN new.byPrev
          PROVE  new.byPrev[x] = {u \in DOMAIN new.tx : x \in Parents(u)}
      <3>1. Prev(x) = {u \in DOMAIN orphans.tx : x \in Parents(u)}
        BY DEF Agree
      <3>2. new.byPrev[x] = IF x \in Parents(t) THEN Prev(x) \cup {t} ELSE Prev(x)
        BY <2>1, <2>3
      <3> QED BY <1>2, <2>2, <3>1, <3>2
    <2>6. \A x \in DOMAIN orphans.tx : new.tx[x] = orphans.tx[x]
      BY <1>2, <2>1
    <2>7. \A x \in DOMAIN new.tx \ DOMAIN orphans.tx : x = t /\ new.tx[x] = p
      BY <2>1, <2>2
    <2>8. Agree(new)
      BY <2>4, <2>5 DEF Agree
    <2> QED BY <2>2, <2>6, <2>7, <2>8 DEF new
  <1> QED BY <1>1, <1>2

\* EraseOrphanTx keeps the index exact, erases S and changes nothing else.
LEMMA EraseOrphan ==
  ASSUME NEW orphans, NEW S, Agree(orphans)
  PROVE  LET new == EraseOrphanTx(orphans, S) IN
           /\ Agree(new)
           /\ DOMAIN new.tx = DOMAIN orphans.tx \ S
           /\ \A x \in DOMAIN new.tx : new.tx[x] = orphans.tx[x]
  <1> DEFINE new == EraseOrphanTx(orphans, S)
             gone == S \cap DOMAIN orphans.tx
             Left(x) == orphans.byPrev[x] \ {t \in gone : x \in Parents(t)}
  <1>1. new = [tx |-> [x \in DOMAIN orphans.tx \ gone |-> orphans.tx[x]],
               byPrev |-> [x \in {x \in DOMAIN orphans.byPrev : Left(x) # {}} |-> Left(x)]]
    BY DEF EraseOrphanTx, Restrict
  <1> HIDE DEF new
  <1>2. DOMAIN new.tx = DOMAIN orphans.tx \ S
    BY <1>1
  <1>3. \A x \in DOMAIN new.tx : new.tx[x] = orphans.tx[x]
    BY <1>1
  <1>4. DOMAIN new.byPrev = {x \in DOMAIN orphans.byPrev : Left(x) # {}}
    BY <1>1
  <1>5. \A x \in DOMAIN orphans.byPrev : Left(x) = {t \in DOMAIN new.tx : x \in Parents(t)}
    BY <1>2 DEF Agree
  <1>6. \A x \in DOMAIN new.byPrev : new.byPrev[x] = Left(x)
    BY <1>1, <1>4
  <1> HIDE DEF Left
  <1>7. DOMAIN new.byPrev = UNION {Parents(t) : t \in DOMAIN new.tx}
    BY <1>2, <1>4, <1>5 DEF Agree
  <1>8. Agree(new)
    BY <1>4, <1>5, <1>6, <1>7 DEF Agree
  <1> QED BY <1>2, <1>3, <1>8 DEF new

-----------------------------------------------------------------------------
(* The inductive invariant *)

\* Every orphan belongs to a node that exists: it can be punished for it.
OrphanOwnersExist ==
  \A t \in DOMAIN mapOrphanTransactions : mapOrphanTransactions[t] \in nodes

\* An orphan with a bad verdict came from a node that is on record for it.
OrphanSenders ==
  \A t \in DOMAIN mapOrphanTransactions :
    Verdict[t] \in {"malformed", "invalid"} => mapOrphanTransactions[t] \in sentInvalid

IInv ==
  /\ TypeOK
  /\ MapNextTxExact
  /\ OrphanMapsAgree
  /\ OrphanTxLimit
  /\ OrphanOwnersExist
  /\ OrphanSenders
  /\ OnlySendersPunished

\* What the invariant says of the chain, of the pool, of the orphans and of the
\* handler; an action disturbs one or two of them.
ChainInv == chain \in Seq(Seq(Tx)) /\ have \subseteq Tx /\ unspent \subseteq OutPoint
PoolInv == mempool.mapTx \subseteq SpendTx /\ Exact(mempool)
OrphanInv ==
  /\ Agree(Orphans)
  /\ DOMAIN mapOrphanTransactions \subseteq SpendTx
  /\ OrphanTxLimit /\ OrphanOwnersExist /\ OrphanSenders
NodeInv ==
  /\ nodes \subseteq NodeIds /\ misbehaving \subseteq nodes /\ sentInvalid \subseteq nodes
  /\ OnlySendersPunished
JobType(N) == [op : {"idle", "orphans", "connect", "disconnect"},
               vtx : Seq(Tx), vWorkQueue : Seq(SpendTx), seen : SUBSET SpendTx,
               vEraseQueue : SUBSET SpendTx, setMisbehaving : SUBSET N]
JobInv == job \in JobType(nodes)

\* The parts make up the invariant; the domains of mapNextTx and of the index
\* of the orphans are typed because they are exact.
LEMMA Parts == IInv <=> ChainInv /\ PoolInv /\ OrphanInv /\ NodeInv /\ JobInv
  <1>1. MapNextTxExact <=> Exact(mempool)
    BY DEF MapNextTxExact, Exact
  <1>2. OrphanMapsAgree <=> Agree(Orphans)
    BY DEF OrphanMapsAgree, Agree, Orphans
  <1>3. ASSUME Exact(mempool), mempool.mapTx \subseteq SpendTx
        PROVE  DOMAIN mempool.mapNextTx \subseteq OutPoint
    BY <1>3, MempoolAssumption DEF Exact, Tx
  <1>4. ASSUME Agree(Orphans), DOMAIN mapOrphanTransactions \subseteq SpendTx
        PROVE  DOMAIN mapOrphanTransactionsByPrev \subseteq Tx
    <2>1. \A t \in SpendTx : Parents(t) \subseteq Tx
      BY MempoolAssumption DEF Parents, Tx
    <2> QED BY <1>4, <2>1 DEF Agree, Orphans
  <1> QED BY <1>1, <1>2, <1>3, <1>4 DEF IInv, TypeOK, ChainInv, PoolInv, OrphanInv, NodeInv, JobInv, JobType

\* The jobs the handlers start with.
LEMMA StartJobs ==
  ASSUME NEW N
  PROVE  /\ Idle \in JobType(N)
         /\ \A op \in {"connect", "disconnect"} : \A v \in Seq(Tx) :
              [Idle EXCEPT !.op = op, !.vtx = v] \in JobType(N)
         /\ \A t \in SpendTx :
              [Idle EXCEPT !.op = "orphans", !.vWorkQueue = <<t>>, !.vEraseQueue = {t}]
                \in JobType(N)
  <1>1. <<>> \in Seq(Tx) /\ <<>> \in Seq(SpendTx)
    OBVIOUS
  <1>2. \A t \in SpendTx : <<t>> \in Seq(SpendTx)
    OBVIOUS
  <1> QED BY <1>1, <1>2 DEF Idle, JobType

\* The rest of a block after its first transaction.
LEMMA TailJob ==
  ASSUME JobInv, job.vtx # <<>>, UNCHANGED nodes,
         job' = IF Len(job.vtx) = 1 THEN Idle ELSE [job EXCEPT !.vtx = Tail(@)]
  PROVE  JobInv'
  <1>1. Tail(job.vtx) \in Seq(Tx)
    BY DEF JobInv, JobType
  <1>2. [job EXCEPT !.vtx = Tail(@)] \in JobType(nodes)
    BY <1>1 DEF JobInv, JobType
  <1> QED BY <1>2, StartJobs DEF JobInv

\* Initially.
LEMMA InitInv == Init => IInv
  <1> SUFFICES ASSUME Init PROVE ChainInv /\ PoolInv /\ OrphanInv /\ NodeInv /\ JobInv
    BY Parts
  <1>1. ChainInv
    <2>1. have \subseteq Tx
      BY MempoolAssumption DEF Init, SetOf
    <2>2. unspent \subseteq OutPoint
      BY <2>1 DEF Init, OutPoint
    <2> QED BY <2>1, <2>2, MempoolAssumption DEF Init, ChainInv
  <1>2. PoolInv
    BY DEF Init, PoolInv, Exact
  <1>3. DOMAIN mapOrphanTransactions = {} /\ DOMAIN mapOrphanTransactionsByPrev = {}
    BY DEF Init
  <1>4. OrphanTxLimit
    BY <1>3, FS_EmptySet, MempoolAssumption DEF OrphanTxLimit
  <1>5. OrphanInv
    BY <1>3, <1>4 DEF OrphanInv, Agree, Orphans, OrphanOwnersExist, OrphanSenders
  <1>6. NodeInv /\ JobInv
    BY StartJobs DEF Init, NodeInv, JobInv, OnlySendersPunished
  <1> QED BY <1>1, <1>2, <1>5, <1>6

-----------------------------------------------------------------------------
(* Steps *)

\* The pool after AcceptToMemoryPool added a transaction.
LEMMA PoolAdd ==
  ASSUME PoolInv, NEW t, IsNew(t), mempool' = addUnchecked(mempool, t)
  PROVE  PoolInv'
  <1>1. Exact(addUnchecked(mempool, t))
    BY AddKeepsExact DEF PoolInv, IsNew
  <1>2. addUnchecked(mempool, t).mapTx \subseteq SpendTx
    BY DEF PoolInv, IsNew, addUnchecked
  <1> QED BY <1>1, <1>2 DEF PoolInv, Exact

\* The pool after any set of transactions was removed.
LEMMA PoolRemove ==
  ASSUME NEW pool, NEW S, Exact(pool), pool.mapTx \subseteq SpendTx
  PROVE  Exact(RemoveAll(pool, S)) /\ RemoveAll(pool, S).mapTx \subseteq SpendTx
  BY RemoveKeepsExact

\* Erasing orphans keeps the invariant if the nodes of the others still exist.
LEMMA OrphansErased ==
  ASSUME OrphanInv, NEW S, SetOrphans(EraseOrphanTx(Orphans, S)),
         \A t \in DOMAIN mapOrphanTransactions \ S :
           /\ mapOrphanTransactions[t] \in nodes'
           /\ mapOrphanTransactions[t] \in sentInvalid => mapOrphanTransactions[t] \in sentInvalid'
  PROVE  OrphanInv'
  <1> DEFINE new == EraseOrphanTx(Orphans, S)
  <1>1. /\ Agree(new)
        /\ DOMAIN new.tx = DOMAIN mapOrphanTransactions \ S
        /\ \A x \in DOMAIN new.tx : new.tx[x] = mapOrphanTransactions[x]
    <2>1. Orphans.tx = mapOrphanTransactions
      BY DEF Orphans
    <2> QED BY <2>1, EraseOrphan DEF OrphanInv
  <1>2. new.tx = mapOrphanTransactions' /\ new.byPrev = mapOrphanTransactionsByPrev'
    BY DEF SetOrphans
  <1> HIDE DEF new
  <1>3. Agree(Orphans)'
    BY <1>1, <1>2 DEF Agree, Orphans, Parents
  <1>4. DOMAIN mapOrphanTransactions' \subseteq SpendTx
    BY <1>1, <1>2 DEF OrphanInv
  <1>5. OrphanTxLimit'
    <2>1. IsFiniteSet(DOMAIN mapOrphanTransactions)
      BY MempoolAssumption, FS_Subset DEF OrphanInv, Tx
    <2>2. DOMAIN mapOrphanTransactions' \subseteq DOMAIN mapOrphanTransactions
      BY <1>1, <1>2
    <2>3. /\ IsFiniteSet(DOMAIN mapOrphanTransactions')
          /\ Cardinality(DOMAIN mapOrphanTransactions') <= Cardinality(DOMAIN mapOrphanTransactions)
      BY <2>1, <2>2, FS_Subset
    <2>4. Cardinality(DOMAIN mapOrphanTransactions') \in Nat
      BY <2>3, FS_CardinalityType
    <2>5. Cardinality(DOMAIN mapOrphanTransactions) \in Nat
      BY <2>1, FS_CardinalityType
    <2> QED BY <2>3, <2>4, <2>5, MempoolAssumption DEF OrphanInv, OrphanTxLimit
  <1>6. OrphanOwnersExist' /\ OrphanSenders'
    BY <1>1, <1>2 DEF OrphanInv, OrphanOwnersExist, OrphanSenders
  <1> QED BY <1>3, <1>4, <1>5, <1>6 DEF OrphanInv

\* AddOrphanTx and the eviction that follows keep it too.
LEMMA OrphanAdded ==
  ASSUME OrphanInv, NEW t \in SpendTx, NEW p \in nodes, UNCHANGED nodes,
         sentInvalid \subseteq sentInvalid',
         Verdict[t] \in {"malformed", "invalid"} => p \in sentInvalid',
         NEW orphans \in LimitOrphanTxSize(AddOrphanTx(Orphans, t, p)),
         SetOrphans(orphans)
  PROVE  OrphanInv'
  <1> DEFINE mid == AddOrphanTx(Orphans, t, p)
  <1>1. /\ Agree(mid)
        /\ DOMAIN mid.tx \subseteq DOMAIN mapOrphanTransactions \cup {t}
        /\ \A x \in DOMAIN mapOrphanTransactions : mid.tx[x] = mapOrphanTransactions[x]
        /\ \A x \in DOMAIN mid.tx \ DOMAIN mapOrphanTransactions : x = t /\ mid.tx[x] = p
    <2>1. Orphans.tx = mapOrphanTransactions
      BY DEF Orphans
    <2> QED BY <2>1, AddOrphan DEF OrphanInv
  <1> HIDE DEF mid
  <1>2. PICK S \in SUBSET DOMAIN mid.tx :
          /\ Cardinality(DOMAIN mid.tx \ S) <= MaxOrphanTx
          /\ orphans = EraseOrphanTx(mid, S)
    BY DEF LimitOrphanTxSize, mid
  <1>3. /\ Agree(orphans)
        /\ DOMAIN orphans.tx = DOMAIN mid.tx \ S
        /\ \A x \in DOMAIN orphans.tx : orphans.tx[x] = mid.tx[x]
    BY <1>1, <1>2, EraseOrphan
  <1>4. orphans.tx = mapOrphanTransactions' /\ orphans.byPrev = mapOrphanTransactionsByPrev'
    BY DEF SetOrphans
  <1>5. Agree(Orphans)'
    BY <1>3, <1>4 DEF Agree, Orphans, Parents
  <1>6. DOMAIN mapOrphanTransactions' \subseteq SpendTx
    BY <1>1, <1>3, <1>4 DEF OrphanInv
  <1>7. OrphanTxLimit'
    BY <1>2, <1>3, <1>4 DEF OrphanTxLimit
  <1>8. ASSUME NEW x \in DOMAIN mapOrphanTransactions'
        PROVE  /\ mapOrphanTransactions'[x] \in nodes
               /\ Verdict[x] \in {"malformed", "invalid"} => mapOrphanTransactions'[x] \in sentInvalid'
    <2>1. mapOrphanTransactions'[x] = mid.tx[x] /\ x \in DOMAIN mid.tx
      BY <1>3, <1>4
    <2>2. CASE x \in DOMAIN mapOrphanTransactions
      BY <1>1, <2>1, <2>2 DEF OrphanInv, OrphanOwnersExist, OrphanSenders
    <2>3. CASE x \notin DOMAIN mapOrphanTransactions
      BY <1>1, <2>1, <2>3
    <2> QED BY <2>2, <2>3
  <1>9. OrphanOwnersExist' /\ OrphanSenders'
    BY <1>8 DEF OrphanOwnersExist, OrphanSenders
  <1> QED BY <1>5, <1>6, <1>7, <1>9 DEF OrphanInv

\* What is left alone stays good.
LEMMA Unchanged ==
  /\ ChainInv /\ UNCHANGED chainVars => ChainInv'
  /\ PoolInv /\ UNCHANGED mempool => PoolInv'
  /\ OrphanInv /\ UNCHANGED <<orphanVars, nodes, sentInvalid>> => OrphanInv'
  /\ NodeInv /\ UNCHANGED nodeVars => NodeInv'
  /\ JobInv /\ UNCHANGED <<job, nodes>> => JobInv'
  <1>1. ChainInv /\ UNCHANGED chainVars => ChainInv'
    BY DEF ChainInv, chainVars
  <1>2. PoolInv /\ UNCHANGED mempool => PoolInv'
    BY DEF PoolInv, Exact
  <1>3. OrphanInv /\ UNCHANGED <<orphanVars, nodes, sentInvalid>> => OrphanInv'
    BY DEF OrphanInv, orphanVars, Agree, Orphans, OrphanTxLimit, OrphanOwnersExist, OrphanSenders, Parents
  <1>4. NodeInv /\ UNCHANGED nodeVars => NodeInv'
    BY DEF NodeInv, nodeVars, OnlySendersPunished
  <1>5. JobInv /\ UNCHANGED <<job, nodes>> => JobInv'
    BY DEF JobInv
  <1> QED BY <1>1, <1>2, <1>3, <1>4, <1>5

\* Every step preserves the invariant.
LEMMA NextInv == IInv /\ [Next]_vars => IInv'
  <1> SUFFICES ASSUME IInv, [Next]_vars
               PROVE  ChainInv' /\ PoolInv' /\ OrphanInv' /\ NodeInv' /\ JobInv'
    <2>1. IInv' <=> (ChainInv /\ PoolInv /\ OrphanInv /\ NodeInv /\ JobInv)'
      BY Parts, PTL
    <2> QED BY <2>1
  <1>0. ChainInv /\ PoolInv /\ OrphanInv /\ NodeInv /\ JobInv
    BY Parts
  <1>1. ASSUME NEW p \in NodeIds, InitializeNode(p)
        PROVE  ChainInv' /\ PoolInv' /\ OrphanInv' /\ NodeInv' /\ JobInv'
    <2>1. ChainInv' /\ PoolInv'
      BY <1>0, <1>1, Unchanged DEF InitializeNode
    <2>2. OrphanInv'
      BY <1>0, <1>1 DEF InitializeNode, OrphanInv, orphanVars, Agree, Orphans, OrphanTxLimit,
                        OrphanOwnersExist, OrphanSenders, Parents
    <2>3. NodeInv'
      BY <1>0, <1>1 DEF InitializeNode, NodeInv, OnlySendersPunished
    <2>4. JobInv'
      BY <1>1, StartJobs DEF InitializeNode, JobInv
    <2> QED BY <2>1, <2>2, <2>3, <2>4
  <1>2. ASSUME NEW p \in NodeIds, FinalizeNode(p)
        PROVE  ChainInv' /\ PoolInv' /\ OrphanInv' /\ NodeInv' /\ JobInv'
    <2>1. ChainInv' /\ PoolInv'
      BY <1>0, <1>2, Unchanged DEF FinalizeNode
    <2>2. OrphanInv'
      <3> DEFINE S == {t \in DOMAIN mapOrphanTransactions : mapOrphanTransactions[t] = p}
      <3>1. SetOrphans(EraseOrphanTx(Orphans, S))
        BY <1>2 DEF FinalizeNode
      <3>2. \A t \in DOMAIN mapOrphanTransactions \ S :
              /\ mapOrphanTransactions[t] \in nodes'
              /\ mapOrphanTransactions[t] \in sentInvalid => mapOrphanTransactions[t] \in sentInvalid'
        BY <1>0, <1>2 DEF FinalizeNode, OrphanInv, OrphanOwnersExist
      <3> HIDE DEF S
      <3> QED BY <1>0, <3>1, <3>2, OrphansErased
    <2>3. NodeInv'
      BY <1>0, <1>2 DEF FinalizeNode, NodeInv, OnlySendersPunished
    <2>4. JobInv'
      BY <1>2, StartJobs DEF FinalizeNode, JobInv
    <2> QED BY <2>1, <2>2, <2>3, <2>4
  <1>3. ASSUME NEW p \in NodeIds, NEW t \in Tx, TxMessage(p, t)
        PROVE  ChainInv' /\ PoolInv' /\ OrphanInv' /\ NodeInv' /\ JobInv'
    <2> DEFINE bad == t \in CoinbaseTx \/ Verdict[t] \in {"malformed", "invalid"}
    <2>1. PICK low \in LowFees(t) :
            /\ mempool' = IF AcceptToMemoryPool(t, low) THEN addUnchecked(mempool, t) ELSE mempool
            /\ job' = IF AcceptToMemoryPool(t, low)
                      THEN [Idle EXCEPT !.op = "orphans", !.vWorkQueue = <<t>>, !.vEraseQueue = {t}]
                      ELSE job
            /\ misbehaving' = IF IsDoS(t, low) THEN misbehaving \cup {p} ELSE misbehaving
      BY <1>3 DEF TxMessage
    <2>2. AcceptToMemoryPool(t, low) => IsNew(t) /\ t \in SpendTx
      BY DEF AcceptToMemoryPool, PassesPolicy, IsNew
    <2>3. IsDoS(t, low) => bad
      BY DEF IsDoS
    <2>4. /\ UNCHANGED <<chainVars, nodes>> /\ p \in nodes /\ job = Idle
          /\ sentInvalid' = IF bad THEN sentInvalid \cup {p} ELSE sentInvalid
      BY <1>3 DEF TxMessage
    <2>5. ChainInv'
      BY <1>0, <2>4, Unchanged
    <2>6. PoolInv'
      <3>1. CASE AcceptToMemoryPool(t, low)
        BY <1>0, <2>1, <2>2, <3>1, PoolAdd
      <3>2. CASE ~AcceptToMemoryPool(t, low)
        BY <1>0, <2>1, <3>2, Unchanged
      <3> QED BY <3>1, <3>2
    <2>7. OrphanInv'
      <3>1. sentInvalid \subseteq sentInvalid' /\ (bad => p \in sentInvalid')
        BY <2>4
      <3>2. CASE fMissingInputs(t)
        <4>1. t \in SpendTx
          BY <3>2 DEF fMissingInputs, IsNew
        <4>2. PICK orphans \in LimitOrphanTxSize(AddOrphanTx(Orphans, t, p)) : SetOrphans(orphans)
          BY <1>3, <3>2 DEF TxMessage
        <4> QED BY <1>0, <2>4, <3>1, <4>1, <4>2, OrphanAdded
      <3>3. CASE ~fMissingInputs(t)
        <4>1. UNCHANGED orphanVars
          BY <1>3, <3>3 DEF TxMessage
        <4> QED BY <1>0, <2>4, <3>1, <4>1 DEF OrphanInv, orphanVars, Agree, Orphans, OrphanTxLimit,
                        OrphanOwnersExist, OrphanSenders, Parents
      <3> QED BY <3>2, <3>3
    <2>8. NodeInv'
      BY <1>0, <2>1, <2>3, <2>4 DEF NodeInv, OnlySendersPunished
    <2>9. JobInv'
      <3>1. CASE AcceptToMemoryPool(t, low)
        BY <2>1, <2>2, <3>1, StartJobs DEF JobInv
      <3>2. CASE ~AcceptToMemoryPool(t, low)
        BY <1>0, <2>1, <2>4, <3>2 DEF JobInv
      <3> QED BY <3>1, <3>2
    <2> QED BY <2>5, <2>6, <2>7, <2>8, <2>9
  <1>4. ASSUME NEW t \in DOMAIN mapOrphanTransactions, TryOrphan(t)
        PROVE  ChainInv' /\ PoolInv' /\ OrphanInv' /\ NodeInv' /\ JobInv'
    <2> DEFINE from == mapOrphanTransactions[t]
               next == [job EXCEPT !.seen = @ \cup {t}, !.vEraseQueue = @ \cup {t}]
    <2>1. UNCHANGED <<chainVars, orphanVars, nodes, sentInvalid>>
      BY <1>4 DEF TryOrphan
    <2>2. ChainInv' /\ OrphanInv'
      BY <1>0, <2>1, Unchanged
    <2>3. t \in SpendTx /\ from \in nodes
      BY <1>0 DEF OrphanInv, OrphanOwnersExist
    <2>4. next \in JobType(nodes)
      BY <1>0, <2>3 DEF JobInv, JobType
    <2>5. \/ job' = next /\ UNCHANGED <<mempool, misbehaving>>
          \/ /\ \E low \in LowFees(t) : AcceptToMemoryPool(t, low)
             /\ mempool' = addUnchecked(mempool, t)
             /\ job' = [next EXCEPT !.vWorkQueue = Append(@, t)]
             /\ UNCHANGED misbehaving
          \/ /\ \E low \in LowFees(t) : IsDoS(t, low)
             /\ misbehaving' = misbehaving \cup {from}
             /\ job' = [next EXCEPT !.setMisbehaving = @ \cup {from}]
             /\ UNCHANGED mempool
      BY <1>4 DEF TryOrphan
    <2> HIDE DEF next
    <2>6. CASE job' = next /\ UNCHANGED <<mempool, misbehaving>>
      <3>1. JobInv'
        BY <2>1, <2>4, <2>6 DEF JobInv
      <3> QED BY <1>0, <2>1, <2>2, <2>6, <3>1, Unchanged DEF nodeVars
    <2>7. CASE /\ \E low \in LowFees(t) : AcceptToMemoryPool(t, low)
               /\ mempool' = addUnchecked(mempool, t)
               /\ job' = [next EXCEPT !.vWorkQueue = Append(@, t)]
               /\ UNCHANGED misbehaving
      <3>1. IsNew(t)
        BY <2>7 DEF AcceptToMemoryPool, PassesPolicy
      <3>2. PoolInv'
        BY <1>0, <2>7, <3>1, PoolAdd
      <3>3. Append(next.vWorkQueue, t) \in Seq(SpendTx)
        BY <2>3, <2>4 DEF JobType
      <3>4. JobInv'
        BY <2>1, <2>4, <2>7, <3>3 DEF JobInv, JobType
      <3>5. NodeInv'
        BY <1>0, <2>1, <2>7, Unchanged DEF nodeVars
      <3> QED BY <2>2, <3>2, <3>4, <3>5
    <2>8. CASE /\ \E low \in LowFees(t) : IsDoS(t, low)
               /\ misbehaving' = misbehaving \cup {from}
               /\ job' = [next EXCEPT !.setMisbehaving = @ \cup {from}]
               /\ UNCHANGED mempool
      <3>1. Verdict[t] \in {"malformed", "invalid"}
        BY <2>3, <2>8, MempoolAssumption DEF IsDoS
      <3>2. from \in sentInvalid
        BY <1>0, <3>1 DEF OrphanInv, OrphanSenders
      <3>3. NodeInv'
        BY <1>0, <2>1, <2>3, <2>8, <3>2 DEF NodeInv, OnlySendersPunished
      <3>4. JobInv'
        BY <2>1, <2>3, <2>4, <2>8 DEF JobInv, JobType
      <3>5. PoolInv'
        BY <1>0, <2>8, Unchanged
      <3> QED BY <2>2, <3>3, <3>4, <3>5
    <2> QED BY <2>5, <2>6, <2>7, <2>8
  <1>5. CASE NextInWorkQueue
    <2>1. UNCHANGED <<chainVars, mempool, orphanVars, nodeVars, nodes, sentInvalid>>
      BY <1>5 DEF NextInWorkQueue, nodeVars
    <2>2. Tail(job.vWorkQueue) \in Seq(SpendTx)
      BY <1>0, <1>5 DEF NextInWorkQueue, JobInv, JobType
    <2>3. JobInv'
      BY <1>0, <1>5, <2>1, <2>2 DEF NextInWorkQueue, JobInv, JobType
    <2> QED BY <1>0, <2>1, <2>3, Unchanged
  <1>6. CASE EraseTried
    <2>1. UNCHANGED <<chainVars, mempool, nodeVars, nodes, sentInvalid>> /\ job' = Idle
      BY <1>6 DEF EraseTried, nodeVars
    <2>2. OrphanInv'
      <3>1. SetOrphans(EraseOrphanTx(Orphans, job.vEraseQueue))
        BY <1>6 DEF EraseTried
      <3>2. \A t \in DOMAIN mapOrphanTransactions : mapOrphanTransactions[t] \in nodes
        BY <1>0 DEF OrphanInv, OrphanOwnersExist
      <3> QED BY <1>0, <2>1, <3>1, <3>2, OrphansErased
    <2>3. JobInv'
      BY <2>1, StartJobs DEF JobInv
    <2> QED BY <1>0, <2>1, <2>2, <2>3, Unchanged
  <1>7. ASSUME NEW t \in SpendTx, LocalTx(t)
        PROVE  ChainInv' /\ PoolInv' /\ OrphanInv' /\ NodeInv' /\ JobInv'
    <2>1. IsNew(t) /\ mempool' = addUnchecked(mempool, t)
      BY <1>7 DEF LocalTx, AcceptToMemoryPool, PassesPolicy
    <2>2. PoolInv'
      BY <1>0, <2>1, PoolAdd
    <2>3. UNCHANGED <<chainVars, orphanVars, nodeVars, nodes, sentInvalid, job>>
      BY <1>7 DEF LocalTx, nodeVars
    <2> QED BY <1>0, <2>2, <2>3, Unchanged
  <1>8. ASSUME NEW c \in CoinbaseTx, NEW s \in BlockBodies, ConnectTip(<<c>> \o s)
        PROVE  ChainInv' /\ PoolInv' /\ OrphanInv' /\ NodeInv' /\ JobInv'
    <2> DEFINE vtx == <<c>> \o s
    <2>1. UNCHANGED <<mempool, orphanVars, nodeVars, nodes, sentInvalid>>
      BY <1>8 DEF ConnectTip, nodeVars
    <2>2. vtx \in Seq(Tx)
      <3>2. <<c>> \in Seq(Tx)
        BY DEF Tx
      <3>3. s \in Seq(Tx)
        <4>1. PICK k \in 0..MaxBlockTx : s \in [1..k -> SpendTx]
          BY DEF BlockBodies
        <4> QED BY <4>1, MempoolAssumption DEF Tx
      <3> QED BY <3>2, <3>3
    <2> HIDE DEF vtx
    <2>0. ConnectTip(vtx)
      BY <1>8 DEF vtx
    <2>3. SetOf(vtx) \subseteq Tx
      BY <2>2 DEF SetOf
    <2>4. chain' \in Seq(Seq(Tx))
      BY <1>0, <2>0, <2>2 DEF ConnectTip, ChainInv
    <2>5. unspent' \subseteq OutPoint
      BY <1>0, <2>0, <2>3 DEF ConnectTip, ChainInv, OutPoint
    <2>6. have' \subseteq Tx
      BY <1>0, <2>0, <2>3 DEF ConnectTip, ChainInv, WriteChainState
    <2>7. JobInv'
      BY <2>0, <2>2, StartJobs DEF ConnectTip, JobInv
    <2> QED BY <1>0, <2>1, <2>4, <2>5, <2>6, <2>7, Unchanged DEF ChainInv
  <1>9. CASE RemoveForBlock
    <2> DEFINE mid == remove(mempool, Head(job.vtx), FALSE)
    <2>1. UNCHANGED <<chainVars, orphanVars, nodeVars, nodes, sentInvalid>>
      BY <1>9 DEF RemoveForBlock, nodeVars
    <2>2. Exact(mid) /\ mid.mapTx \subseteq SpendTx
      BY <1>0, PoolRemove DEF PoolInv, remove
    <2> HIDE DEF mid
    <2>3. mempool' = removeConflicts(mid, Head(job.vtx))
      BY <1>9 DEF RemoveForBlock, mid
    <2>4. PICK S : mempool' = RemoveAll(mid, S)
      BY <2>3 DEF removeConflicts
    <2>5. PoolInv'
      BY <2>2, <2>4, PoolRemove DEF PoolInv, Exact
    <2>6. JobInv'
      BY <1>0, <1>9, <2>1, TailJob DEF RemoveForBlock
    <2> QED BY <1>0, <2>1, <2>5, <2>6, Unchanged
  <1>10. CASE DisconnectTip
    <2> DEFINE vtx == chain[Len(chain)]
    <2>1. UNCHANGED <<mempool, orphanVars, nodeVars, nodes, sentInvalid>>
      BY <1>10 DEF DisconnectTip, nodeVars
    <2>2. vtx \in Seq(Tx) /\ Len(chain) \in DOMAIN chain
      BY <1>0, <1>10 DEF DisconnectTip, ChainInv
    <2>3. SetOf(vtx) \subseteq Tx
      BY <2>2 DEF SetOf
    <2>4. chain' \in Seq(Seq(Tx))
      BY <1>0, <1>10 DEF DisconnectTip, ChainInv
    <2>5. UNION {Ins[t] : t \in SetOf(vtx)} \subseteq OutPoint
      BY <2>3, MempoolAssumption
    <2>6. unspent' \subseteq OutPoint
      BY <1>0, <1>10, <2>5 DEF DisconnectTip, ChainInv
    <2>7. {o[1] : o \in UNION {Ins[t] : t \in SetOf(vtx)}} \subseteq Tx
      BY <2>3, MempoolAssumption
    <2>8. have' \subseteq Tx
      BY <1>0, <1>10, <2>3, <2>7 DEF DisconnectTip, ChainInv, WriteChainState
    <2>9. JobInv'
      BY <1>10, <2>2, StartJobs DEF DisconnectTip, JobInv
    <2> QED BY <1>0, <2>1, <2>4, <2>6, <2>8, <2>9, Unchanged DEF ChainInv
  <1>11. CASE Resurrect
    <2> DEFINE t == Head(job.vtx)
    <2>1. UNCHANGED <<chainVars, orphanVars, nodeVars, nodes, sentInvalid>>
      BY <1>11 DEF Resurrect, nodeVars
    <2>2. \/ UNCHANGED mempool
          \/ IsNew(t) /\ mempool' = addUnchecked(mempool, t)
          \/ mempool' = remove(mempool, t, TRUE)
      BY <1>11 DEF Resurrect, AcceptToMemoryPool, PassesPolicy
    <2>3. PoolInv'
      <3>1. CASE UNCHANGED mempool
        BY <1>0, <3>1, Unchanged
      <3>2. CASE IsNew(t) /\ mempool' = addUnchecked(mempool, t)
        BY <1>0, <3>2, PoolAdd
      <3>3. CASE mempool' = remove(mempool, t, TRUE)
        <4>1. PICK S : mempool' = RemoveAll(mempool, S)
          BY <3>3 DEF remove
        <4> QED BY <1>0, <4>1, PoolRemove DEF PoolInv, Exact
      <3> QED BY <2>2, <3>1, <3>2, <3>3
    <2>4. JobInv'
      BY <1>0, <1>11, <2>1, TailJob DEF Resurrect
    <2> QED BY <1>0, <2>1, <2>3, <2>4, Unchanged
  <1>12. CASE UNCHANGED vars
    BY <1>0, <1>12, Unchanged DEF vars, nodeVars
  <1> QED BY <1>1, <1>2, <1>3, <1>4, <1>5, <1>6, <1>7, <1>8, <1>9, <1>10, <1>11, <1>12 DEF Next

\* The inductive invariant holds in every state of every behaviour.
THEOREM Invariant == Spec => []IInv
  BY InitInv, NextInv, PTL DEF Spec

\* Type correctness of the pool, the orphan maps and the handlers.
THEOREM TypeCorrect == Spec => []TypeOK
  <1>1. IInv => TypeOK
    BY DEF IInv
  <1> QED BY <1>1, Invariant, PTL

\* The bookkeeping assertions of CTxMemPool::check never fail: mapNextTx is the
\* exact index of the inputs of the pool, so no output is spent twice in it.
THEOREM MapNextTxIsExact == Spec => []MapNextTxExact
  <1>1. IInv => MapNextTxExact
    BY DEF IInv
  <1> QED BY <1>1, Invariant, PTL

\* The two orphan maps always agree: the "tx" handler never looks a hash up
\* that is not there.
THEOREM OrphanMapsAlwaysAgree == Spec => []OrphanMapsAgree
  <1>1. IInv => OrphanMapsAgree
    BY DEF IInv
  <1> QED BY <1>1, Invariant, PTL

\* There are never more orphan transactions than -maxorphantx.
THEOREM OrphanTxBounded == Spec => []OrphanTxLimit
  <1>1. IInv => OrphanTxLimit
    BY DEF IInv
  <1> QED BY <1>1, Invariant, PTL

\* Misbehaving is only called for a node that exists and that sent a malformed
\* or invalid transaction itself.
THEOREM PunishmentIsDeserved == Spec => [](OrphanOwnersExist /\ OnlySendersPunished)
  <1>1. IInv => OrphanOwnersExist /\ OnlySendersPunished
    BY DEF IInv
  <1> QED BY <1>1, Invariant, PTL

-----------------------------------------------------------------------------
(* The pool and the chain *)

Made(S) == UNION {Outs(t) : t \in S}
Spent(S) == UNION {Ins[t] : t \in S}

\* The coins are what the chain made and did not spend.
CoinsFit == ValidChain(chain) /\ unspent = Made(Confirmed) \ Spent(Confirmed)

\* How a pool fits the chain while a handler still has the transactions rest of
\* a block to go through: those of a connected block may still be in the pool,
\* and their inputs may still be spent there; those of a disconnected block may
\* be missing.
Fits(pool, op, rest) ==
  /\ \A t \in pool.mapTx : t \in Confirmed => op = "connect" /\ t \in rest
  /\ \A t \in pool.mapTx : \A o \in Ins[t] :
       \/ o[1] \in pool.mapTx
       \/ o \in unspent
       \/ o[1] \in CoinbaseTx \ Confirmed
       \/ op = "connect" /\ \E x \in rest : o \in Ins[x]
       \/ op = "disconnect" /\ o[1] \in rest

\* The transactions a handler has yet to go through are in the chain, and those
\* that spend their outputs come later, or they are out of it.
RestFits ==
  /\ job.op = "connect" =>
       /\ SetOf(job.vtx) \subseteq Confirmed
       /\ \A i \in DOMAIN job.vtx : \A z \in Confirmed :
            job.vtx[i] \in Parents(z) => \E k \in DOMAIN job.vtx : k > i /\ job.vtx[k] = z
  /\ job.op = "disconnect" => SetOf(job.vtx) \cap Confirmed = {}

FitInv == CoinsFit /\ Fits(mempool, job.op, SetOf(job.vtx)) /\ RestFits

\* The outputs of a transaction name it, and an input names an output of its
\* parent.
LEMMA OutPoints ==
  /\ \A t : \A o \in Outs(t) : o[1] = t
  /\ \A t \in Tx : \A o \in Ins[t] : o[1] \in Tx /\ o \in Outs(o[1]) /\ o[1] \in Parents(t)
  <1>1. \A t : \A o \in Outs(t) : o[1] = t
    BY DEF Outs
  <1>2. ASSUME NEW t \in Tx, NEW o \in Ins[t]
        PROVE  o[1] \in Tx /\ o \in Outs(o[1]) /\ o[1] \in Parents(t)
    <2>1. o \in OutPoint
      BY MempoolAssumption
    <2>2. PICK u \in Tx : o \in Outs(u)
      BY <2>1 DEF OutPoint
    <2>3. o[1] = u
      BY <1>1, <2>2
    <2> QED BY <2>2, <2>3 DEF Parents
  <1> QED BY <1>1, <1>2

\* The transactions of a chain.
TxsOf(c) == UNION {SetOf(c[h]) : h \in DOMAIN c}

\* Where a transaction of a chain is.
LEMMA Located ==
  ASSUME NEW c
  PROVE  /\ \A t \in TxsOf(c) : \E h \in DOMAIN c : \E i \in DOMAIN c[h] : c[h][i] = t
         /\ \A h \in DOMAIN c : \A i \in DOMAIN c[h] : c[h][i] \in TxsOf(c)
  BY DEF TxsOf, SetOf

\* The transactions of a valid chain: what one spends was made by another, and
\* is not spent again.
LEMMA ValidTxs ==
  ASSUME NEW c, ValidChain(c)
  PROVE  /\ \A z \in TxsOf(c) : \A o \in Ins[z] : o[1] \in TxsOf(c)
         /\ \A y, z \in TxsOf(c) : \A o : o \in Ins[y] /\ o \in Ins[z] => y = z
  <1>1. ASSUME NEW z \in TxsOf(c), NEW o \in Ins[z] PROVE o[1] \in TxsOf(c)
    <2>1. PICK h \in DOMAIN c : \E i \in DOMAIN c[h] : c[h][i] = z
      BY Located
    <2>2. PICK i \in DOMAIN c[h] : c[h][i] = z
      BY <2>1
    <2>3. \E g \in DOMAIN c : \E j \in DOMAIN c[g] : o[1] = c[g][j]
      BY <2>2 DEF ValidChain
    <2> QED BY <2>3, Located
  <1>2. ASSUME NEW y \in TxsOf(c), NEW z \in TxsOf(c), NEW o, o \in Ins[y], o \in Ins[z]
        PROVE  y = z
    <2>1. PICK h \in DOMAIN c : \E i \in DOMAIN c[h] : c[h][i] = y
      BY Located
    <2>2. PICK i \in DOMAIN c[h] : c[h][i] = y
      BY <2>1
    <2>3. PICK g \in DOMAIN c : \E j \in DOMAIN c[g] : c[g][j] = z
      BY Located
    <2>4. PICK j \in DOMAIN c[g] : c[g][j] = z
      BY <2>3
    <2>5. Ins[c[h][i]] \cap Ins[c[g][j]] # {}
      BY <1>2, <2>2, <2>4
    <2>6. h = g /\ i = j
      BY <2>5 DEF ValidChain
    <2> QED BY <2>2, <2>4, <2>6
  <1> QED BY <1>1, <1>2

\* A non-empty set of naturals has a least element.
LEMMA LeastNat ==
  ASSUME NEW B, B \subseteq Nat, B # {}
  PROVE  \E m \in B : \A x \in B : ~(x < m)
  <1> DEFINE R == {ss \in Nat \X Nat : ss[1] < ss[2]}
  <1>1. IsWellFoundedOn(R, Nat)
    BY NatLessThanWellFounded, Zenon DEF OpToRel
  <1>2. \E m \in B : \A x \in B : ~(<<x, m>> \in R)
    <2> HIDE DEF R
    <2> QED BY <1>1, WFMin, Zenon
  <1> QED BY <1>2

\* A block ConnectBlock accepts holds no transaction of the chain, none twice,
\* spends what the chain or an earlier transaction of the block made, and spends
\* nothing twice.
Fresh(vtx) ==
  /\ \A i \in DOMAIN vtx : vtx[i] \notin Confirmed
  /\ \A i, j \in DOMAIN vtx : \A o : o \in Ins[vtx[i]] /\ o \in Ins[vtx[j]] => i = j
  /\ \A i, j \in DOMAIN vtx : vtx[i] = vtx[j] => i = j
  /\ \A i \in DOMAIN vtx : \A o \in Ins[vtx[i]] :
       o[1] \in Confirmed \/ \E j \in DOMAIN vtx : j < i /\ o[1] = vtx[j]
  /\ \A i \in DOMAIN vtx : \A z \in Confirmed : Ins[vtx[i]] \cap Ins[z] = {}

\* By the checks of ConnectBlock, for the first transaction that would break it.
LEMMA BlockIsFresh ==
  ASSUME ChainInv, CoinsFit, NEW vtx \in Seq(Tx), vtx # <<>>, ConnectBlock(vtx)
  PROVE  Fresh(vtx)
  <1>0. ValidChain(chain) /\ Confirmed = TxsOf(chain) /\ unspent = Made(Confirmed) \ Spent(Confirmed)
    BY DEF CoinsFit, Confirmed, TxsOf
  <1>1. DOMAIN vtx = 1..Len(vtx) /\ Len(vtx) \in Nat /\ \A i \in DOMAIN vtx : vtx[i] \in Tx
    OBVIOUS
  <1>2. \A i \in DOMAIN vtx : i # 1 => i \in 2..Len(vtx)
    BY <1>1
  <1>3. \A i \in DOMAIN vtx : vtx[i] \in CoinbaseTx <=> i = 1
    BY DEF ConnectBlock
  <1>4. \A i \in DOMAIN vtx : i = 1 => Ins[vtx[i]] = {}
    BY <1>3, MempoolAssumption
  <1>5. \A i \in DOMAIN vtx : i # 1 => vtx[i] \in SpendTx /\ Ins[vtx[i]] # {}
    <2> SUFFICES ASSUME NEW i \in DOMAIN vtx, i # 1
                 PROVE  vtx[i] \in SpendTx /\ Ins[vtx[i]] # {}
      OBVIOUS
    <2>1. vtx[i] \in SpendTx
      BY <1>1, <1>3 DEF Tx
    <2>2. Verdict[vtx[i]] \in {"valid", "nonstandard"}
      BY <1>2 DEF ConnectBlock
    <2> QED BY <2>1, <2>2, MempoolAssumption
  \* What a transaction of the block spends.
  <1>6. ASSUME NEW i \in DOMAIN vtx, NEW o \in Ins[vtx[i]]
        PROVE  /\ o \in unspent \/ \E j \in DOMAIN vtx : j < i /\ o[1] = vtx[j]
               /\ \A j \in DOMAIN vtx : j < i => o \notin Ins[vtx[j]]
    <2>1. i \in 2..Len(vtx)
      BY <1>2, <1>4
    <2>2. /\ o \in unspent \/ \E j \in 2..(i-1) : o \in Outs(vtx[j])
          /\ \A j \in 2..(i-1) : o \notin Ins[vtx[j]]
      BY <2>1 DEF ConnectBlock
    <2>3. \A j \in 2..(i-1) : j \in DOMAIN vtx /\ j < i
      BY <1>1, <2>1
    <2>4. \A j \in 2..(i-1) : o \in Outs(vtx[j]) => o[1] = vtx[j]
      BY OutPoints
    <2>5. \A j \in DOMAIN vtx : j < i /\ j # 1 => j \in 2..(i-1)
      BY <1>1, <2>1
    <2> QED BY <1>4, <2>2, <2>3, <2>4, <2>5
  <1>7. \A z \in Confirmed : \A o \in Ins[z] : o[1] \in Confirmed /\ o \notin unspent
    BY <1>0, ValidTxs DEF Spent
  <1>8. \A o \in unspent : o[1] \in Confirmed
    BY <1>0, OutPoints DEF Made
  <1>9. \A i \in DOMAIN vtx : vtx[i] \notin Confirmed
    <2> DEFINE B == {i \in DOMAIN vtx : vtx[i] \in Confirmed}
    <2> SUFFICES ASSUME B # {} PROVE FALSE
      OBVIOUS
    <2>1. B \subseteq Nat
      BY <1>1
    <2>2. PICK i \in B : \A j \in B : ~(j < i)
      <3> HIDE DEF B
      <3> QED BY <2>1, LeastNat, Zenon
    <2>3. i # 1
      BY DEF ConnectBlock
    <2>4. PICK o \in Ins[vtx[i]] : TRUE
      BY <1>5, <2>3
    <2>5. o[1] \in Confirmed /\ o \notin unspent
      BY <1>7
    <2>6. PICK j \in DOMAIN vtx : j < i /\ o[1] = vtx[j]
      BY <1>6, <2>5
    <2>7. j \in B
      BY <2>5, <2>6
    <2> QED BY <2>2, <2>6, <2>7
  <1>10. ASSUME NEW i \in DOMAIN vtx, NEW j \in DOMAIN vtx, NEW o, o \in Ins[vtx[i]], o \in Ins[vtx[j]]
         PROVE  i = j
    <2>1. ~(j < i) /\ ~(i < j)
      BY <1>6, <1>10
    <2> QED BY <1>1, <2>1
  <1>11. ASSUME NEW i \in DOMAIN vtx, NEW j \in DOMAIN vtx, vtx[i] = vtx[j]
         PROVE  i = j
    <2>1. CASE i = 1
      BY <1>3, <1>11, <2>1
    <2>2. CASE i # 1
      <3>1. PICK o \in Ins[vtx[i]] : TRUE
        BY <1>5, <2>2
      <3> QED BY <1>10, <1>11, <3>1
    <2> QED BY <2>1, <2>2
  <1>12. ASSUME NEW i \in DOMAIN vtx, NEW z \in Confirmed, NEW o \in Ins[vtx[i]]
         PROVE  o \notin Ins[z]
    <2>1. SUFFICES ASSUME o \in Ins[z] PROVE FALSE
      OBVIOUS
    <2>2. o[1] \in Confirmed /\ o \notin unspent
      BY <1>7, <2>1
    <2>3. PICK j \in DOMAIN vtx : o[1] = vtx[j]
      BY <1>6, <2>2
    <2> QED BY <1>9, <2>2, <2>3
  <1>13. \A i \in DOMAIN vtx : \A o \in Ins[vtx[i]] :
           o[1] \in Confirmed \/ \E j \in DOMAIN vtx : j < i /\ o[1] = vtx[j]
    BY <1>6, <1>8
  <1>14. \A i \in DOMAIN vtx : \A z \in Confirmed : Ins[vtx[i]] \cap Ins[z] = {}
    BY <1>12
  <1>15. \A i, j \in DOMAIN vtx : \A o : o \in Ins[vtx[i]] /\ o \in Ins[vtx[j]] => i = j
    BY <1>10
  <1> QED BY <1>9, <1>11, <1>13, <1>14, <1>15 DEF Fresh

\* The chain with a fresh block on top is valid.
LEMMA AppendValid ==
  ASSUME ChainInv, ValidChain(chain), NEW vtx \in Seq(Tx), Fresh(vtx)
  PROVE  /\ ValidChain(Append(chain, vtx))
         /\ TxsOf(Append(chain, vtx)) = Confirmed \cup SetOf(vtx)
  <1> DEFINE c == Append(chain, vtx)
             n == Len(chain) + 1
  <1>1. /\ DOMAIN c = 1..n /\ n \in Nat
        /\ DOMAIN chain = 1..(n - 1)
        /\ c[n] = vtx
        /\ \A h \in 1..(n - 1) : c[h] = chain[h]
    BY DEF ChainInv
  <1>2. /\ \A h \in DOMAIN c : h # n => h \in DOMAIN chain /\ c[h] = chain[h] /\ h < n
        /\ \A h \in DOMAIN chain : h \in DOMAIN c /\ c[h] = chain[h] /\ h < n /\ h # n
        /\ n \in DOMAIN c /\ c[n] = vtx
    BY <1>1
  <1>3. \A h \in DOMAIN c : h \in Nat
    BY <1>1
  <1> HIDE DEF c, n
  <1>4. \A h \in DOMAIN chain : \A i \in DOMAIN chain[h] : chain[h][i] \in Confirmed
    BY DEF Confirmed, SetOf
  <1>5. TxsOf(c) = Confirmed \cup SetOf(vtx)
    <2>1. ASSUME NEW t \in TxsOf(c) PROVE t \in Confirmed \cup SetOf(vtx)
      <3>1. PICK h \in DOMAIN c : \E i \in DOMAIN c[h] : c[h][i] = t
        BY Located
      <3>2. CASE h = n
        BY <1>2, <3>1, <3>2 DEF SetOf
      <3>3. CASE h # n
        BY <1>2, <1>4, <3>1, <3>3
      <3> QED BY <3>2, <3>3
    <2>2. ASSUME NEW t \in Confirmed PROVE t \in TxsOf(c)
      <3>1. PICK h \in DOMAIN chain : t \in SetOf(chain[h])
        BY DEF Confirmed
      <3> QED BY <1>2, <3>1 DEF TxsOf
    <2>3. ASSUME NEW t \in SetOf(vtx) PROVE t \in TxsOf(c)
      BY <1>2 DEF TxsOf
    <2> QED BY <2>1, <2>2, <2>3
  <1>6. ASSUME NEW h \in DOMAIN c, NEW g \in DOMAIN c, NEW i \in DOMAIN c[h], NEW j \in DOMAIN c[g],
               c[h][i] = c[g][j] \/ Ins[c[h][i]] \cap Ins[c[g][j]] # {}
        PROVE  h = g /\ i = j
    <2>1. CASE h # n /\ g # n
      BY <1>2, <1>6, <2>1 DEF ValidChain
    <2>2. CASE h = n /\ g = n
      BY <1>2, <1>6, <2>2 DEF Fresh
    <2>3. CASE h = n /\ g # n
      BY <1>2, <1>4, <1>6, <2>3 DEF Fresh
    <2>4. CASE h # n /\ g = n
      BY <1>2, <1>4, <1>6, <2>4 DEF Fresh
    <2> QED BY <2>1, <2>2, <2>3, <2>4
  <1>7. ASSUME NEW h \in DOMAIN c, NEW i \in DOMAIN c[h], NEW o \in Ins[c[h][i]]
        PROVE  \E g \in DOMAIN c : \E j \in DOMAIN c[g] :
                 o[1] = c[g][j] /\ (g < h \/ (g = h /\ j < i))
    <2>1. CASE h # n
      <3>1. h \in DOMAIN chain /\ c[h] = chain[h]
        BY <1>2, <2>1
      <3>2. PICK g \in DOMAIN chain : \E j \in DOMAIN chain[g] :
                 o[1] = chain[g][j] /\ (g < h \/ (g = h /\ j < i))
        BY <3>1 DEF ValidChain
      <3> QED BY <1>2, <3>2
    <2>2. CASE h = n
      <3>1. i \in DOMAIN vtx /\ o \in Ins[vtx[i]]
        BY <1>2, <2>2
      <3>2. CASE o[1] \in Confirmed
        <4>1. PICK g \in DOMAIN chain : o[1] \in SetOf(chain[g])
          BY <3>2 DEF Confirmed
        <4>2. PICK j \in DOMAIN chain[g] : o[1] = chain[g][j]
          BY <4>1 DEF SetOf
        <4> QED BY <1>2, <2>2, <4>2
      <3>3. CASE o[1] \notin Confirmed
        <4>1. PICK j \in DOMAIN vtx : j < i /\ o[1] = vtx[j]
          BY <3>1, <3>3 DEF Fresh
        <4> QED BY <1>2, <2>2, <4>1
      <3> QED BY <3>2, <3>3
    <2> QED BY <2>1, <2>2
  <1>8. ValidChain(c)
    BY <1>6, <1>7 DEF ValidChain
  <1> QED BY <1>5, <1>8 DEF c

\* The chain without its last block is valid, and that block's transactions are
\* not in it.
LEMMA FrontValid ==
  ASSUME ChainInv, ValidChain(chain), chain # <<>>
  PROVE  LET vtx == chain[Len(chain)]
             c == SubSeq(chain, 1, Len(chain) - 1)
         IN /\ ValidChain(c)
            /\ Confirmed = TxsOf(c) \cup SetOf(vtx)
            /\ TxsOf(c) \cap SetOf(vtx) = {}
  <1> DEFINE n == Len(chain)
             vtx == chain[n]
             c == SubSeq(chain, 1, n - 1)
  <1>1. /\ n \in Nat \ {0} /\ DOMAIN chain = 1..n
        /\ DOMAIN c = 1..(n - 1)
        /\ \A h \in 1..(n - 1) : c[h] = chain[h]
    BY DEF ChainInv
  <1>2. /\ \A h \in DOMAIN c : h \in DOMAIN chain /\ c[h] = chain[h] /\ h # n
        /\ \A h \in DOMAIN chain : h # n => h \in DOMAIN c /\ c[h] = chain[h]
        /\ n \in DOMAIN chain /\ chain[n] = vtx
        /\ \A h \in DOMAIN c : \A g \in DOMAIN chain : g < h \/ g = h => g \in DOMAIN c
    BY <1>1
  <1> HIDE DEF c, n
  <1>3. ValidChain(c)
    <2>1. ASSUME NEW h \in DOMAIN c, NEW g \in DOMAIN c, NEW i \in DOMAIN c[h], NEW j \in DOMAIN c[g],
                 c[h][i] = c[g][j] \/ Ins[c[h][i]] \cap Ins[c[g][j]] # {}
          PROVE  h = g /\ i = j
      BY <1>2, <2>1 DEF ValidChain
    <2>2. ASSUME NEW h \in DOMAIN c, NEW i \in DOMAIN c[h], NEW o \in Ins[c[h][i]]
          PROVE  \E g \in DOMAIN c : \E j \in DOMAIN c[g] :
                   o[1] = c[g][j] /\ (g < h \/ (g = h /\ j < i))
      <3>1. PICK g \in DOMAIN chain : \E j \in DOMAIN chain[g] :
                 o[1] = chain[g][j] /\ (g < h \/ (g = h /\ j < i))
        BY <1>2 DEF ValidChain
      <3>2. g \in DOMAIN c
        BY <1>2, <3>1
      <3> QED BY <1>2, <3>1, <3>2
    <2> QED BY <2>1, <2>2 DEF ValidChain
  <1>4. TxsOf(c) \cap SetOf(vtx) = {}
    <2>1. SUFFICES ASSUME NEW t \in TxsOf(c), t \in SetOf(vtx) PROVE FALSE
      OBVIOUS
    <2>2. PICK h \in DOMAIN c : \E i \in DOMAIN c[h] : c[h][i] = t
      BY Located
    <2>3. PICK i \in DOMAIN c[h] : c[h][i] = t
      BY <2>2
    <2>4. PICK j \in DOMAIN vtx : vtx[j] = t
      BY <2>1 DEF SetOf
    <2>5. h = n
      BY <1>2, <2>3, <2>4 DEF ValidChain
    <2> QED BY <1>2, <2>5
  <1>5. Confirmed = TxsOf(c) \cup SetOf(vtx)
    <2>1. ASSUME NEW t \in Confirmed PROVE t \in TxsOf(c) \cup SetOf(vtx)
      <3>1. PICK h \in DOMAIN chain : t \in SetOf(chain[h])
        BY DEF Confirmed
      <3>2. CASE h = n
        BY <3>1, <3>2
      <3>3. CASE h # n
        BY <1>2, <3>1, <3>3 DEF TxsOf
      <3> QED BY <3>2, <3>3
    <2>2. SetOf(vtx) \subseteq Confirmed
      BY <1>2 DEF Confirmed
    <2>3. TxsOf(c) \subseteq Confirmed
      BY <1>2 DEF Confirmed, TxsOf
    <2> QED BY <2>1, <2>2, <2>3
  <1> QED BY <1>3, <1>4, <1>5 DEF c, n

\* Connecting a block keeps the coins right, and the transactions that spend
\* outputs of one of its transactions come later in it.
LEMMA ConnectFits ==
  ASSUME ChainInv, CoinsFit, NEW vtx \in Seq(Tx), vtx # <<>>, ConnectTip(vtx)
  PROVE  /\ CoinsFit'
         /\ Confirmed' = Confirmed \cup SetOf(vtx)
         /\ \A i \in DOMAIN vtx : \A z \in Confirmed' :
              vtx[i] \in Parents(z) => \E k \in DOMAIN vtx : k > i /\ vtx[k] = z
  <1>0. ValidChain(chain) /\ Confirmed = TxsOf(chain) /\ unspent = Made(Confirmed) \ Spent(Confirmed)
    BY DEF CoinsFit, Confirmed, TxsOf
  <1>1. /\ ConnectBlock(vtx)
        /\ chain' = Append(chain, vtx)
        /\ unspent' = (unspent \cup Made(SetOf(vtx))) \ Spent(SetOf(vtx))
    BY DEF ConnectTip, Made, Spent
  <1>2. Fresh(vtx)
    BY <1>1, BlockIsFresh
  <1>3. ValidChain(chain') /\ TxsOf(chain') = Confirmed \cup SetOf(vtx)
    BY <1>0, <1>1, <1>2, AppendValid
  <1>4. Confirmed' = TxsOf(chain') /\ Confirmed' = Confirmed \cup SetOf(vtx)
    BY <1>3 DEF Confirmed, TxsOf
  <1>5. SetOf(vtx) \cap Confirmed = {}
    BY <1>2 DEF Fresh, SetOf
  <1>6. Made(SetOf(vtx)) \cap Spent(Confirmed) = {}
    <2>1. \A o \in Spent(Confirmed) : o[1] \in Confirmed
      BY <1>0, ValidTxs DEF Spent
    <2>2. \A o \in Made(SetOf(vtx)) : o[1] \in SetOf(vtx)
      BY OutPoints DEF Made
    <2> QED BY <1>5, <2>1, <2>2
  <1>7. /\ Made(Confirmed') = Made(Confirmed) \cup Made(SetOf(vtx))
        /\ Spent(Confirmed') = Spent(Confirmed) \cup Spent(SetOf(vtx))
    BY <1>4 DEF Made, Spent
  <1>8. unspent' = Made(Confirmed') \ Spent(Confirmed')
    BY <1>0, <1>1, <1>6, <1>7
  <1>9. (unspent = Made(Confirmed) \ Spent(Confirmed))'
    BY <1>8 DEF Made, Spent, Outs
  <1>10. ValidChain(chain)'
    BY <1>3 DEF ValidChain
  <1>11. ASSUME NEW i \in DOMAIN vtx, NEW z \in Confirmed', vtx[i] \in Parents(z)
         PROVE  \E k \in DOMAIN vtx : k > i /\ vtx[k] = z
    <2>1. PICK o \in Ins[z] : o[1] = vtx[i]
      BY <1>11 DEF Parents
    <2>2. vtx[i] \notin Confirmed
      BY <1>2 DEF Fresh
    <2>3. z \notin Confirmed
      BY <1>0, <2>1, <2>2, ValidTxs
    <2>4. PICK k \in DOMAIN vtx : vtx[k] = z
      BY <1>4, <2>3 DEF SetOf
    <2>5. PICK j \in DOMAIN vtx : j < k /\ o[1] = vtx[j]
      BY <1>2, <2>1, <2>2, <2>4 DEF Fresh
    <2>6. j = i
      BY <1>2, <2>1, <2>5 DEF Fresh
    <2>7. i < k /\ i \in Nat /\ k \in Nat
      BY <2>5, <2>6
    <2>8. k > i
      BY <2>7
    <2> QED BY <2>4, <2>8
  <1> QED BY <1>4, <1>9, <1>10, <1>11 DEF CoinsFit

\* Disconnecting the tip keeps the coins right.
LEMMA DisconnectFits ==
  ASSUME ChainInv, CoinsFit, DisconnectTip
  PROVE  /\ CoinsFit'
         /\ Confirmed = Confirmed' \cup SetOf(chain[Len(chain)])
         /\ Confirmed' \cap SetOf(chain[Len(chain)]) = {}
         /\ unspent \subseteq unspent' \cup Made(SetOf(chain[Len(chain)]))
  <1> DEFINE V == SetOf(chain[Len(chain)])
             c == SubSeq(chain, 1, Len(chain) - 1)
  <1>0. ValidChain(chain) /\ Confirmed = TxsOf(chain) /\ unspent = Made(Confirmed) \ Spent(Confirmed)
    BY DEF CoinsFit, Confirmed, TxsOf
  <1>1. /\ chain # <<>>
        /\ chain' = c
        /\ unspent' = (unspent \cup Spent(V)) \ Made(V)
    BY DEF DisconnectTip, Made, Spent
  <1>2. ValidChain(c) /\ Confirmed = TxsOf(c) \cup V /\ TxsOf(c) \cap V = {}
    BY <1>0, <1>1, FrontValid
  <1> HIDE DEF V, c
  <1>3. Confirmed' = TxsOf(c)
    BY <1>1 DEF Confirmed, TxsOf
  <1>4. /\ Made(Confirmed) = Made(Confirmed') \cup Made(V)
        /\ Spent(Confirmed) = Spent(Confirmed') \cup Spent(V)
    BY <1>2, <1>3 DEF Made, Spent
  <1>5. Made(Confirmed') \cap Made(V) = {}
    BY <1>2, <1>3, OutPoints DEF Made
  <1>6. Spent(Confirmed') \cap Spent(V) = {}
    <2>1. SUFFICES ASSUME NEW o \in Spent(Confirmed'), o \in Spent(V) PROVE FALSE
      OBVIOUS
    <2>2. PICK y \in Confirmed' : o \in Ins[y]
      BY DEF Spent
    <2>3. PICK z \in V : o \in Ins[z]
      BY <2>1 DEF Spent
    <2>4. y \in TxsOf(chain) /\ z \in TxsOf(chain)
      BY <1>0, <1>2, <1>3
    <2>5. y = z
      BY <1>0, <2>2, <2>3, <2>4, ValidTxs
    <2> QED BY <1>2, <1>3, <2>5
  <1>7. Spent(V) \subseteq Made(Confirmed)
    <2>1. SUFFICES ASSUME NEW z \in V, NEW o \in Ins[z] PROVE o \in Made(Confirmed)
      BY DEF Spent
    <2>2. o[1] \in Confirmed
      BY <1>0, <1>2, ValidTxs
    <2>3. z \in Tx
      BY <1>2 DEF ChainInv, Confirmed, SetOf
    <2>4. o \in Outs(o[1])
      BY <2>3, OutPoints
    <2> QED BY <2>2, <2>4 DEF Made
  <1>8. unspent' = Made(Confirmed') \ Spent(Confirmed')
    BY <1>0, <1>1, <1>4, <1>5, <1>6, <1>7
  <1>9. (unspent = Made(Confirmed) \ Spent(Confirmed))'
    BY <1>8 DEF Made, Spent, Outs
  <1>10. ValidChain(chain)'
    BY <1>1, <1>2 DEF ValidChain
  <1>11. CoinsFit'
    BY <1>9, <1>10 DEF CoinsFit
  <1>12. Confirmed = Confirmed' \cup V /\ Confirmed' \cap V = {}
    BY <1>2, <1>3
  <1>13. unspent \subseteq unspent' \cup Made(V)
    BY <1>1
  <1> QED BY <1>11, <1>12, <1>13 DEF V

\* WithSpenders holds S, is closed under spending, and adds pool transactions
\* only.
LEMMA SpendersClosed ==
  ASSUME NEW pool, NEW S, Exact(pool)
  PROVE  LET W == WithSpenders(pool, S) IN
           /\ S \subseteq W
           /\ \A t \in pool.mapTx : \A o \in Ins[t] : \A y \in W : o \in Outs(y) => t \in W
  <1> DEFINE W == WithSpenders(pool, S)
             U == S \cup pool.mapTx
  <1>1. S \subseteq W
    BY DEF WithSpenders
  <1>2. ASSUME NEW t \in pool.mapTx, NEW o \in Ins[t], NEW y \in W, o \in Outs(y)
        PROVE  t \in W
    <2>1. o \in DOMAIN pool.mapNextTx /\ pool.mapNextTx[o] = t
      BY DEF Exact
    <2>2. t \in Spenders(pool, y)
      BY <1>2, <2>1 DEF Spenders
    <2>3. ASSUME NEW X \in SUBSET U, S \subseteq X, \A x \in X : Spenders(pool, x) \subseteq X
          PROVE  t \in X
      <3>1. y \in X
        BY <2>3 DEF WithSpenders
      <3> QED BY <2>2, <2>3, <3>1
    <2> QED BY <2>3 DEF WithSpenders
  <1> QED BY <1>1, <1>2

\* A transaction AcceptToMemoryPool adds fits the chain: it is not confirmed
\* already, or the pool would hold a confirmed one among its parents.
LEMMA AcceptFits ==
  ASSUME ChainInv, PoolInv, CoinsFit, NEW op, NEW rest, op # "connect",
         Fits(mempool, op, rest), NEW t, NEW low, AcceptToMemoryPool(t, low)
  PROVE  Fits(addUnchecked(mempool, t), op, rest)
  <1>0. /\ ValidChain(chain) /\ Confirmed = TxsOf(chain)
        /\ unspent = Made(Confirmed) \ Spent(Confirmed)
    BY DEF CoinsFit, Confirmed, TxsOf
  <1>1. /\ t \in SpendTx /\ Ins[t] # {}
        /\ \A o \in Ins[t] : IsAvailable(o)
    BY MempoolAssumption DEF AcceptToMemoryPool, PassesPolicy, IsNew
  <1>2. \A o \in Ins[t] : o \in unspent \/ o[1] \in mempool.mapTx
    BY <1>1 DEF IsAvailable
  <1>3. t \notin Confirmed
    <2>1. SUFFICES ASSUME t \in Confirmed PROVE FALSE
      OBVIOUS
    <2>2. PICK o \in Ins[t] : TRUE
      BY <1>1
    <2>3. o[1] \in Confirmed
      BY <1>0, <2>1, ValidTxs
    <2>4. o \notin unspent
      BY <1>0, <2>1 DEF Spent
    <2>5. o[1] \in mempool.mapTx
      BY <1>2, <2>4
    <2> QED BY <2>3, <2>5 DEF Fits
  <1>4. addUnchecked(mempool, t).mapTx = mempool.mapTx \cup {t}
    BY DEF addUnchecked
  <1> QED BY <1>2, <1>3, <1>4 DEF Fits

\* A transaction of a disconnected block that is not accepted again takes the
\* pool transactions that depend on it with it.
LEMMA RemoveFits ==
  ASSUME PoolInv, NEW t, NEW rest, NEW left, rest \subseteq left \cup {t},
         Fits(mempool, "disconnect", rest)
  PROVE  Fits(remove(mempool, t, TRUE), "disconnect", left)
  <1> DEFINE W == WithSpenders(mempool, {t})
             pool == remove(mempool, t, TRUE)
  <1>1. pool.mapTx = mempool.mapTx \ W
    BY DEF remove, RemoveAll
  <1>2. /\ t \in W
        /\ \A u \in mempool.mapTx : \A o \in Ins[u] : \A y \in W : o \in Outs(y) => u \in W
    BY SpendersClosed DEF PoolInv
  <1> HIDE DEF W, pool
  <1>3. ASSUME NEW u \in pool.mapTx, NEW o \in Ins[u], o[1] \in W PROVE FALSE
    <2>1. u \in Tx
      BY <1>1 DEF PoolInv, Tx
    <2>2. o \in Outs(o[1])
      BY <2>1, OutPoints
    <2> QED BY <1>1, <1>2, <1>3, <2>2
  <1>4. ASSUME NEW u \in pool.mapTx, NEW o \in Ins[u]
        PROVE  \/ o[1] \in pool.mapTx
               \/ o \in unspent
               \/ o[1] \in CoinbaseTx \ Confirmed
               \/ o[1] \in left
    <2>1. o[1] \notin W
      BY <1>3
    <2>2. \/ o[1] \in mempool.mapTx
          \/ o \in unspent
          \/ o[1] \in CoinbaseTx \ Confirmed
          \/ o[1] \in rest
      BY <1>1 DEF Fits
    <2> QED BY <1>1, <1>2, <2>1, <2>2
  <1>5. \A u \in pool.mapTx : u \notin Confirmed
    BY <1>1 DEF Fits
  <1>6. Fits(pool, "disconnect", left)
    BY <1>4, <1>5 DEF Fits
  <1> QED BY <1>6 DEF pool

\* What a transaction x of a connected block leaves behind in the pool fits: x
\* itself goes, what spends its outputs may stay because they are unspent or
\* spent by a later transaction of the block, and what conflicts with it goes
\* with all that depends on it.
LEMMA ConflictsFit ==
  ASSUME PoolInv, CoinsFit, NEW x, NEW rest, NEW left,
         x \in Confirmed, rest \subseteq left \cup {x},
         \A z \in Confirmed : x \in Parents(z) => z \in left,
         Confirmed \subseteq Tx,
         Fits(mempool, "connect", rest)
  PROVE  Fits(removeConflicts(remove(mempool, x, FALSE), x), "connect", left)
  <1> DEFINE mid == remove(mempool, x, FALSE)
             C == {mid.mapNextTx[o] : o \in Ins[x] \cap DOMAIN mid.mapNextTx} \ {x}
             W == WithSpenders(mid, C)
             pool == removeConflicts(mid, x)
  <1>1. mid.mapTx = mempool.mapTx \ {x} /\ Exact(mid)
    BY RemoveKeepsExact DEF remove, RemoveAll, PoolInv
  <1> HIDE DEF mid
  <1>2. pool.mapTx = mid.mapTx \ W
    BY DEF removeConflicts, RemoveAll
  <1>3. /\ C \subseteq W
        /\ \A u \in mid.mapTx : \A o \in Ins[u] : \A y \in W : o \in Outs(y) => u \in W
    <2> HIDE DEF C
    <2> QED BY <1>1, SpendersClosed
  <1>4. \A u \in mid.mapTx : \A o \in Ins[u] : o \in Ins[x] => u \in C
    BY <1>1 DEF Exact
  <1> HIDE DEF C, W, pool
  <1>5. ASSUME NEW u \in pool.mapTx, NEW o \in Ins[u]
        PROVE  \/ o[1] \in pool.mapTx
               \/ o \in unspent
               \/ o[1] \in CoinbaseTx \ Confirmed
               \/ \E y \in left : o \in Ins[y]
    <2>1. u \in mid.mapTx /\ u \in mempool.mapTx /\ u \notin W /\ u \in Tx
      BY <1>1, <1>2 DEF PoolInv, Tx
    <2>2. o \notin Ins[x]
      BY <1>3, <1>4, <2>1
    <2>3. o \in Outs(o[1])
      BY <2>1, OutPoints
    <2>4. o[1] \notin W
      BY <1>3, <2>1, <2>3
    <2>5. \/ o[1] \in mempool.mapTx
          \/ o \in unspent
          \/ o[1] \in CoinbaseTx \ Confirmed
          \/ \E y \in rest : o \in Ins[y]
      BY <2>1 DEF Fits
    <2>6. CASE o[1] = x
      <3>1. o \in Made(Confirmed)
        BY <2>3, <2>6 DEF Made
      <3>2. CASE o \in unspent
        BY <3>2
      <3>3. CASE o \notin unspent
        <4>1. PICK z \in Confirmed : o \in Ins[z]
          BY <3>1, <3>3 DEF CoinsFit, Spent
        <4>2. x \in Parents(z)
          BY <2>6, <4>1 DEF Parents
        <4> QED BY <4>1, <4>2
      <3> QED BY <3>2, <3>3
    <2>7. CASE o[1] # x
      BY <1>1, <1>2, <2>2, <2>4, <2>5, <2>7
    <2> QED BY <2>6, <2>7
  <1>6. \A u \in pool.mapTx : u \in Confirmed => u \in left
    BY <1>1, <1>2 DEF Fits
  <1>7. Fits(pool, "connect", left)
    BY <1>5, <1>6 DEF Fits
  <1> QED BY <1>7 DEF pool, mid

\* The rest of a block after its first transaction, as a set.
LEMMA RestAfterHead ==
  ASSUME NEW v \in Seq(Tx), v # <<>>
  PROVE  /\ SetOf(v) = SetOf(Tail(v)) \cup {Head(v)}
         /\ Len(v) = 1 => SetOf(Tail(v)) = {}
         /\ 1 \in DOMAIN v /\ v[1] = Head(v)
         /\ \A k \in DOMAIN v : k > 1 => k - 1 \in DOMAIN Tail(v) /\ Tail(v)[k - 1] = v[k]
         /\ \A k \in DOMAIN Tail(v) : k + 1 \in DOMAIN v /\ Tail(v)[k] = v[k + 1]
  <1>1. /\ Len(v) \in Nat \ {0} /\ DOMAIN v = 1..Len(v)
        /\ DOMAIN Tail(v) = 1..(Len(v) - 1)
        /\ \A k \in 1..(Len(v) - 1) : Tail(v)[k] = v[k + 1]
        /\ Head(v) = v[1]
    OBVIOUS
  <1>2. /\ 1 \in DOMAIN v
        /\ \A k \in DOMAIN v : k = 1 \/ k > 1
        /\ \A k \in DOMAIN v : k > 1 => k - 1 \in DOMAIN Tail(v) /\ Tail(v)[k - 1] = v[k]
        /\ \A k \in DOMAIN Tail(v) : k + 1 \in DOMAIN v /\ Tail(v)[k] = v[k + 1]
        /\ Len(v) = 1 => DOMAIN Tail(v) = {}
    BY <1>1
  <1>3. SetOf(v) = SetOf(Tail(v)) \cup {Head(v)}
    <2>1. ASSUME NEW t \in SetOf(v) PROVE t \in SetOf(Tail(v)) \cup {Head(v)}
      <3>1. PICK k \in DOMAIN v : v[k] = t
        BY DEF SetOf
      <3>2. CASE k = 1
        BY <1>1, <3>1, <3>2
      <3>3. CASE k > 1
        BY <1>2, <3>1, <3>3 DEF SetOf
      <3> QED BY <1>2, <3>2, <3>3
    <2>2. SetOf(Tail(v)) \subseteq SetOf(v)
      BY <1>2 DEF SetOf
    <2>3. Head(v) \in SetOf(v)
      BY <1>1, <1>2 DEF SetOf
    <2> QED BY <2>1, <2>2, <2>3
  <1>4. Len(v) = 1 => SetOf(Tail(v)) = {}
    BY <1>2 DEF SetOf
  <1> QED BY <1>1, <1>2, <1>3, <1>4

\* A handler that has no transaction left to go through leaves a pool that fits.
LEMMA DoneFits ==
  ASSUME NEW pool, NEW op, NEW any, Fits(pool, op, {})
  PROVE  Fits(pool, "idle", any)
  BY DEF Fits

\* A pool that fits, seen from the next state of a step that leaves the chain
\* alone.
LEMMA FitsPrimed ==
  ASSUME UNCHANGED chainVars, NEW op, NEW rest, Fits(mempool', op, rest),
         job'.op = op, SetOf(job'.vtx) = rest
  PROVE  Fits(mempool, job.op, SetOf(job.vtx))'
  <1>1. UNCHANGED <<unspent, Confirmed>>
    BY DEF chainVars, Confirmed, SetOf
  <1>2. SetOf(job.vtx)' = SetOf(job'.vtx)
    BY DEF SetOf
  <1> QED BY <1>1, <1>2 DEF Fits

\* The coins and the confirmed transactions depend on the chain only.
LEMMA CoinsPrimed ==
  ASSUME UNCHANGED chainVars, CoinsFit
  PROVE  CoinsFit' /\ Confirmed' = Confirmed
  BY DEF chainVars, CoinsFit, Confirmed, SetOf, ValidChain, Made, Spent, Outs

\* The handlers that do not go through a block add to the pool at most.
LEMMA NoBlockFits ==
  ASSUME ChainInv, PoolInv, FitInv, UNCHANGED chainVars,
         job.op \in {"idle", "orphans"}, job'.op \in {"idle", "orphans"},
         \/ mempool' = mempool
         \/ \E t, low : AcceptToMemoryPool(t, low) /\ mempool' = addUnchecked(mempool, t)
  PROVE  FitInv'
  <1>1. CoinsFit /\ Fits(mempool, job.op, SetOf(job.vtx))
    BY DEF FitInv
  <1>2. Fits(mempool', job.op, SetOf(job.vtx))
    <2>1. CASE mempool' = mempool
      BY <1>1, <2>1 DEF Fits
    <2>2. CASE \E t, low : AcceptToMemoryPool(t, low) /\ mempool' = addUnchecked(mempool, t)
      <3>1. PICK t, low : AcceptToMemoryPool(t, low) /\ mempool' = addUnchecked(mempool, t)
        BY <2>2
      <3>2. job.op # "connect"
        OBVIOUS
      <3> QED BY <1>1, <3>1, <3>2, AcceptFits
    <2> QED BY <2>1, <2>2
  <1>3. Fits(mempool', job'.op, SetOf(job'.vtx))
    BY <1>2 DEF Fits
  <1>4. Fits(mempool, job.op, SetOf(job.vtx))'
    BY <1>3, FitsPrimed
  <1>5. RestFits'
    BY DEF RestFits
  <1> QED BY <1>1, <1>4, <1>5, CoinsPrimed DEF FitInv

\* What RestFits says of the rest after the first transaction of a block.
LEMMA TailFits ==
  ASSUME JobInv, RestFits, job.vtx # <<>>, UNCHANGED chainVars,
         job' = IF Len(job.vtx) = 1 THEN Idle ELSE [job EXCEPT !.vtx = Tail(@)]
  PROVE  /\ RestFits'
         /\ \/ job'.op = "idle" /\ SetOf(Tail(job.vtx)) = {}
            \/ job'.op = job.op /\ job'.vtx = Tail(job.vtx)
  <1>0. job.vtx \in Seq(Tx) /\ Confirmed' = Confirmed
    BY DEF JobInv, JobType, chainVars, Confirmed, SetOf
  <1> DEFINE v == job.vtx
             w == Tail(v)
  <1>1. /\ SetOf(v) = SetOf(w) \cup {Head(v)}
        /\ Len(v) = 1 => SetOf(w) = {}
        /\ \A k \in DOMAIN v : k > 1 => k - 1 \in DOMAIN w /\ w[k - 1] = v[k]
        /\ \A k \in DOMAIN w : k + 1 \in DOMAIN v /\ w[k] = v[k + 1]
    BY <1>0, RestAfterHead
  <1>2. /\ \A k \in DOMAIN v : k \in Nat
        /\ \A k \in DOMAIN w : k \in Nat /\ k + 1 > 1
    BY <1>0
  <1>3. CASE Len(v) = 1
    <2>1. job'.op = "idle"
      BY <1>3 DEF Idle
    <2> QED BY <1>1, <1>3, <2>1 DEF RestFits
  <1>4. CASE Len(v) # 1
    <2>1. job'.op = job.op /\ job'.vtx = w
      BY <1>4 DEF JobInv, JobType
    <2> HIDE DEF w
    <2>2. ASSUME job.op = "connect", NEW i \in DOMAIN w, NEW z \in Confirmed, w[i] \in Parents(z)
          PROVE  \E k \in DOMAIN w : k > i /\ w[k] = z
      <3>1. i + 1 \in DOMAIN v /\ v[i + 1] \in Parents(z)
        BY <1>1, <2>2
      <3>2. PICK k \in DOMAIN v : k > i + 1 /\ v[k] = z
        BY <2>2, <3>1 DEF RestFits
      <3>3. k > 1 /\ k - 1 > i
        BY <1>2, <3>2
      <3> QED BY <1>1, <3>2, <3>3
    <2>3. SetOf(w) \subseteq SetOf(v)
      BY <1>1
    <2> DEFINE P(u, C) == /\ SetOf(u) \subseteq C
                          /\ \A i \in DOMAIN u : \A z \in C :
                               u[i] \in Parents(z) => \E k \in DOMAIN u : k > i /\ u[k] = z
    <2>4. job'.op = "connect" => P(job'.vtx, Confirmed')
      <3>1. ASSUME job.op = "connect" PROVE P(w, Confirmed)
        BY <2>2, <2>3, <3>1 DEF RestFits
      <3> HIDE DEF P
      <3> QED BY <1>0, <2>1, <3>1
    <2>5. job'.op = "disconnect" => SetOf(job'.vtx) \cap Confirmed' = {}
      BY <1>0, <2>1, <2>3 DEF RestFits
    <2>6. RestFits'
      BY <2>4, <2>5 DEF RestFits, SetOf, Parents
    <2> QED BY <2>1, <2>6 DEF w
  <1> QED BY <1>3, <1>4

\* The pool after one transaction of a block was dealt with fits the rest.
LEMMA TailPoolFits ==
  ASSUME NEW left, Fits(mempool', job.op, left), left = SetOf(Tail(job.vtx)),
         UNCHANGED chainVars,
         \/ job'.op = "idle" /\ SetOf(Tail(job.vtx)) = {}
         \/ job'.op = job.op /\ job'.vtx = Tail(job.vtx)
  PROVE  Fits(mempool, job.op, SetOf(job.vtx))'
  <1>1. CASE job'.op = "idle" /\ SetOf(Tail(job.vtx)) = {}
    <2>1. Fits(mempool', "idle", SetOf(job'.vtx))
      BY <1>1, DoneFits
    <2> QED BY <1>1, <2>1, FitsPrimed
  <1>2. CASE job'.op = job.op /\ job'.vtx = Tail(job.vtx)
    BY <1>2, FitsPrimed
  <1> QED BY <1>1, <1>2

\* ConnectTip leaves the transactions of the block, and what conflicts with them, to be removed.
LEMMA ConnectTipFits ==
  ASSUME ChainInv, PoolInv, FitInv, NEW vtx \in Seq(Tx), vtx # <<>>, ConnectTip(vtx)
  PROVE  FitInv'
  <1>1. CoinsFit /\ Fits(mempool, "idle", {})
    BY DEF FitInv, ConnectTip, Idle, Fits
  <1>2. /\ CoinsFit'
        /\ Confirmed' = Confirmed \cup SetOf(vtx)
        /\ \A i \in DOMAIN vtx : \A z \in Confirmed' :
             vtx[i] \in Parents(z) => \E k \in DOMAIN vtx : k > i /\ vtx[k] = z
    BY <1>1, ConnectFits
  <1>3. job'.op = "connect" /\ job'.vtx = vtx /\ mempool' = mempool
    BY DEF ConnectTip, Idle
  <1>4. unspent' = (unspent \cup Made(SetOf(vtx))) \ Spent(SetOf(vtx))
    BY DEF ConnectTip, Made, Spent
  <1>5. RestFits'
    <2>1. SetOf(job.vtx)' = SetOf(vtx)
      BY <1>3 DEF SetOf
    <2> QED BY <1>2, <1>3, <2>1 DEF RestFits, Parents
  <1>6. ASSUME NEW t \in mempool.mapTx, NEW o \in Ins[t]
        PROVE  \/ o[1] \in mempool.mapTx
               \/ o \in unspent'
               \/ o[1] \in CoinbaseTx \ Confirmed'
               \/ \E x \in SetOf(vtx) : o \in Ins[x]
    <2>1. CASE o[1] \in mempool.mapTx
      BY <2>1
    <2>2. CASE o \in unspent
      BY <1>4, <2>2 DEF Spent
    <2>3. CASE o[1] \in CoinbaseTx \ Confirmed /\ o[1] \notin SetOf(vtx)
      BY <1>2, <2>3
    <2>4. CASE o[1] \in SetOf(vtx) /\ t \in Tx
      <3>1. o \in Made(SetOf(vtx))
        BY <2>4, OutPoints DEF Made
      <3> QED BY <1>4, <3>1 DEF Spent
    <2>5. t \in Tx
      BY <1>6 DEF PoolInv, Tx
    <2> QED BY <1>1, <2>1, <2>2, <2>3, <2>4, <2>5 DEF Fits
  <1>7. \A t \in mempool.mapTx : t \in Confirmed' => t \in SetOf(vtx)
    BY <1>1, <1>2 DEF Fits
  <1>8. Fits(mempool, job.op, SetOf(job.vtx))'
    <2>1. SetOf(job.vtx)' = SetOf(vtx)
      BY <1>3 DEF SetOf
    <2> QED BY <1>3, <1>6, <1>7, <2>1 DEF Fits
  <1> QED BY <1>2, <1>5, <1>8 DEF FitInv

\* DisconnectTip leaves the transactions of the block to be resurrected.
LEMMA DisconnectTipFits ==
  ASSUME ChainInv, PoolInv, FitInv, DisconnectTip
  PROVE  FitInv'
  <1> DEFINE vtx == chain[Len(chain)]
             V == SetOf(vtx)
  <1>1. CoinsFit /\ Fits(mempool, "idle", {})
    BY DEF FitInv, DisconnectTip, Idle, Fits
  <1>2. /\ CoinsFit'
        /\ Confirmed = Confirmed' \cup V
        /\ Confirmed' \cap V = {}
        /\ unspent \subseteq unspent' \cup Made(V)
    BY <1>1, DisconnectFits
  <1>3. job'.op = "disconnect" /\ job'.vtx = vtx /\ mempool' = mempool
    BY DEF DisconnectTip, Idle
  <1>4. SetOf(job.vtx)' = V
    BY <1>3 DEF SetOf
  <1> HIDE DEF vtx, V
  <1>5. RestFits'
    BY <1>2, <1>3, <1>4 DEF RestFits
  <1>6. ASSUME NEW t \in mempool.mapTx, NEW o \in Ins[t]
        PROVE  \/ o[1] \in mempool.mapTx
               \/ o \in unspent'
               \/ o[1] \in CoinbaseTx \ Confirmed'
               \/ o[1] \in V
    <2>1. o \in Made(V) => o[1] \in V
      BY OutPoints DEF Made
    <2> QED BY <1>1, <1>2, <2>1 DEF Fits
  <1>7. \A t \in mempool.mapTx : t \notin Confirmed'
    BY <1>1, <1>2 DEF Fits
  <1>8. Fits(mempool, job.op, SetOf(job.vtx))'
    BY <1>3, <1>4, <1>6, <1>7 DEF Fits
  <1> QED BY <1>2, <1>5, <1>8 DEF FitInv

\* One transaction of a connected block is removed from the pool with its conflicts.
LEMMA RemoveForBlockFits ==
  ASSUME ChainInv, PoolInv, JobInv, FitInv, RemoveForBlock
  PROVE  FitInv'
  <1> DEFINE x == Head(job.vtx)
             left == SetOf(Tail(job.vtx))
             rest == SetOf(job.vtx)
  <1>1. /\ job.op = "connect" /\ job.vtx # <<>> /\ UNCHANGED chainVars
        /\ mempool' = removeConflicts(remove(mempool, x, FALSE), x)
        /\ job' = IF Len(job.vtx) = 1 THEN Idle ELSE [job EXCEPT !.vtx = Tail(@)]
    BY DEF RemoveForBlock
  <1>2. CoinsFit /\ Fits(mempool, "connect", rest) /\ RestFits
    BY <1>1 DEF FitInv
  <1>3. job.vtx \in Seq(Tx)
    BY DEF JobInv, JobType
  <1>4. /\ rest = left \cup {x}
        /\ 1 \in DOMAIN job.vtx /\ job.vtx[1] = x
        /\ \A k \in DOMAIN job.vtx : k > 1 => k - 1 \in DOMAIN Tail(job.vtx) /\ Tail(job.vtx)[k - 1] = job.vtx[k]
    BY <1>1, <1>3, RestAfterHead
  <1>5. x \in Confirmed
    BY <1>1, <1>2, <1>4 DEF RestFits
  <1>6. ASSUME NEW z \in Confirmed, x \in Parents(z) PROVE z \in left
    <2>1. PICK k \in DOMAIN job.vtx : k > 1 /\ job.vtx[k] = z
      BY <1>1, <1>2, <1>4, <1>6 DEF RestFits
    <2> QED BY <1>4, <2>1 DEF SetOf
  <1>7. Confirmed \subseteq Tx
    BY DEF ChainInv, Confirmed, SetOf
  <1> HIDE DEF x, left, rest
  <1>8. Fits(mempool', job.op, left)
    BY <1>1, <1>2, <1>4, <1>5, <1>6, <1>7, ConflictsFit
  <1>9. /\ RestFits'
        /\ \/ job'.op = "idle" /\ SetOf(Tail(job.vtx)) = {}
           \/ job'.op = job.op /\ job'.vtx = Tail(job.vtx)
    BY <1>1, <1>2, TailFits
  <1>10. Fits(mempool, job.op, SetOf(job.vtx))'
    BY <1>1, <1>8, <1>9, TailPoolFits DEF left
  <1> QED BY <1>1, <1>2, <1>9, <1>10, CoinsPrimed DEF FitInv

\* One transaction of a disconnected block is resurrected, or removed with its dependants.
LEMMA ResurrectFits ==
  ASSUME ChainInv, PoolInv, JobInv, FitInv, Resurrect
  PROVE  FitInv'
  <1> DEFINE t == Head(job.vtx)
             left == SetOf(Tail(job.vtx))
             rest == SetOf(job.vtx)
  <1>1. /\ job.op = "disconnect" /\ job.vtx # <<>> /\ UNCHANGED chainVars
        /\ mempool' = IF t \in CoinbaseTx THEN mempool
                      ELSE IF AcceptToMemoryPool(t, FALSE) THEN addUnchecked(mempool, t)
                      ELSE remove(mempool, t, TRUE)
        /\ job' = IF Len(job.vtx) = 1 THEN Idle ELSE [job EXCEPT !.vtx = Tail(@)]
    BY DEF Resurrect
  <1>2. CoinsFit /\ Fits(mempool, "disconnect", rest) /\ RestFits
    BY <1>1 DEF FitInv
  <1>3. job.vtx \in Seq(Tx)
    BY DEF JobInv, JobType
  <1>4. rest = left \cup {t}
    BY <1>1, <1>3, RestAfterHead
  <1>5. t \notin Confirmed
    BY <1>1, <1>2, <1>4 DEF RestFits
  <1> HIDE DEF t, left, rest
  <1>6. Fits(mempool', job.op, left)
    <2>1. CASE t \in CoinbaseTx
      <3>1. mempool' = mempool
        BY <1>1, <2>1
      <3> QED BY <1>1, <1>2, <1>4, <1>5, <2>1, <3>1 DEF Fits
    <2>2. CASE t \notin CoinbaseTx /\ AcceptToMemoryPool(t, FALSE)
      <3>1. mempool' = addUnchecked(mempool, t)
        BY <1>1, <2>2
      <3>2. Fits(mempool', "disconnect", rest)
        BY <1>2, <2>2, <3>1, AcceptFits
      <3>3. t \in mempool'.mapTx
        BY <3>1 DEF addUnchecked
      <3> QED BY <1>1, <1>4, <3>2, <3>3 DEF Fits
    <2>3. CASE t \notin CoinbaseTx /\ ~AcceptToMemoryPool(t, FALSE)
      <3>1. mempool' = remove(mempool, t, TRUE)
        BY <1>1, <2>3
      <3> QED BY <1>1, <1>2, <1>4, <3>1, RemoveFits
    <2> QED BY <2>1, <2>2, <2>3
  <1>9. /\ RestFits'
        /\ \/ job'.op = "idle" /\ SetOf(Tail(job.vtx)) = {}
           \/ job'.op = job.op /\ job'.vtx = Tail(job.vtx)
    BY <1>1, <1>2, TailFits
  <1>10. Fits(mempool, job.op, SetOf(job.vtx))'
    BY <1>1, <1>6, <1>9, TailPoolFits DEF left
  <1> QED BY <1>1, <1>2, <1>9, <1>10, CoinsPrimed DEF FitInv

\* Initially the pool is empty and the coins are those of BaseChain.
LEMMA FitInit == Init => FitInv
  <1> SUFFICES ASSUME Init PROVE FitInv
    OBVIOUS
  <1>1. ValidChain(chain)
    BY MempoolAssumption DEF Init
  <1>2. unspent = Made(Confirmed) \ Spent(Confirmed)
    <2>1. have = Confirmed
      BY DEF Init, Confirmed
    <2>2. unspent = Made(have) \ Spent(have)
      BY DEF Init, Made, Spent
    <2> QED BY <2>1, <2>2
  <1>3. mempool.mapTx = {} /\ job.op = "idle"
    BY DEF Init, Idle
  <1> QED BY <1>1, <1>2, <1>3 DEF FitInv, CoinsFit, Fits, RestFits

\* Every step keeps the pool in line with the chain.
LEMMA FitNext == IInv /\ FitInv /\ [Next]_vars => FitInv'
  <1> SUFFICES ASSUME IInv, FitInv, [Next]_vars PROVE FitInv'
    OBVIOUS
  <1>0. ChainInv /\ PoolInv /\ OrphanInv /\ NodeInv /\ JobInv
    BY Parts
  <1> DEFINE Quiet == /\ UNCHANGED chainVars
                      /\ job.op \in {"idle", "orphans"} /\ job'.op \in {"idle", "orphans"}
                      /\ \/ mempool' = mempool
                         \/ \E t, low : AcceptToMemoryPool(t, low) /\ mempool' = addUnchecked(mempool, t)
  <1>a. Idle.op = "idle" /\ job \in JobType(nodes)
    BY <1>0 DEF Idle, JobInv
  <1>b. ASSUME Quiet PROVE FitInv'
    BY <1>0, <1>b, NoBlockFits
  <1>1. ASSUME NEW p \in NodeIds, InitializeNode(p) \/ FinalizeNode(p) PROVE FitInv'
    <2>1. Quiet
      BY <1>1, <1>a DEF InitializeNode, FinalizeNode
    <2> QED BY <1>b, <2>1
  <1>3. ASSUME NEW p \in NodeIds, NEW t \in Tx, TxMessage(p, t) PROVE FitInv'
    <2>1. PICK low \in LowFees(t) :
            /\ mempool' = IF AcceptToMemoryPool(t, low) THEN addUnchecked(mempool, t) ELSE mempool
            /\ job' = IF AcceptToMemoryPool(t, low)
                      THEN [Idle EXCEPT !.op = "orphans", !.vWorkQueue = <<t>>, !.vEraseQueue = {t}]
                      ELSE job
      BY <1>3 DEF TxMessage
    <2>2. job = Idle /\ UNCHANGED chainVars
      BY <1>3 DEF TxMessage
    <2>3. job'.op \in {"idle", "orphans"}
      BY <2>1, <2>2 DEF Idle
    <2>4. Quiet
      BY <1>a, <2>1, <2>2, <2>3
    <2> QED BY <1>b, <2>4
  <1>4. ASSUME NEW t \in DOMAIN mapOrphanTransactions, TryOrphan(t) PROVE FitInv'
    <2> DEFINE next == [job EXCEPT !.seen = @ \cup {t}, !.vEraseQueue = @ \cup {t}]
               from == mapOrphanTransactions[t]
    <2>1. job.op = "orphans" /\ UNCHANGED chainVars
      BY <1>4 DEF TryOrphan
    <2>2. /\ \/ job' = next
             \/ job' = [next EXCEPT !.vWorkQueue = Append(@, t)]
             \/ job' = [next EXCEPT !.setMisbehaving = @ \cup {from}]
          /\ \/ mempool' = mempool
             \/ \E low : AcceptToMemoryPool(t, low) /\ mempool' = addUnchecked(mempool, t)
      BY <1>4 DEF TryOrphan
    <2>4. job'.op = "orphans"
      BY <1>a, <2>1, <2>2 DEF JobType
    <2>5. Quiet
      BY <2>1, <2>2, <2>4
    <2> QED BY <1>b, <2>5
  <1>5. CASE NextInWorkQueue
    <2>1. job.op = "orphans" /\ job' = [job EXCEPT !.vWorkQueue = Tail(@), !.seen = {}]
          /\ UNCHANGED <<chainVars, mempool>>
      BY <1>5 DEF NextInWorkQueue
    <2>2. job'.op = "orphans"
      BY <1>a, <2>1 DEF JobType
    <2> QED BY <1>b, <2>1, <2>2
  <1>6. CASE EraseTried
    <2>1. Quiet
      BY <1>6, <1>a DEF EraseTried
    <2> QED BY <1>b, <2>1
  <1>7. ASSUME NEW t \in SpendTx, LocalTx(t) PROVE FitInv'
    <2>1. Quiet
      BY <1>7, <1>a DEF LocalTx
    <2> QED BY <1>b, <2>1
  <1>8. ASSUME NEW c \in CoinbaseTx, NEW s \in BlockBodies, ConnectTip(<<c>> \o s) PROVE FitInv'
    <2> DEFINE vtx == <<c>> \o s
    <2>1. <<c>> \in Seq(Tx)
      BY DEF Tx
    <2>2. s \in Seq(Tx)
      <3>1. PICK k \in 0..MaxBlockTx : s \in [1..k -> SpendTx]
        BY DEF BlockBodies
      <3> QED BY <3>1, MempoolAssumption DEF Tx
    <2>3. vtx \in Seq(Tx) /\ vtx # <<>>
      BY <2>1, <2>2
    <2> HIDE DEF vtx
    <2>4. ConnectTip(vtx)
      BY <1>8 DEF vtx
    <2> QED BY <1>0, <2>3, <2>4, ConnectTipFits
  <1>9. CASE RemoveForBlock
    BY <1>0, <1>9, RemoveForBlockFits
  <1>10. CASE DisconnectTip
    BY <1>0, <1>10, DisconnectTipFits
  <1>11. CASE Resurrect
    BY <1>0, <1>11, ResurrectFits
  <1>12. CASE UNCHANGED vars
    <2>1. UNCHANGED <<chainVars, mempool, job>>
      BY <1>12 DEF vars
    <2>2. CoinsFit' /\ Confirmed' = Confirmed
      BY <2>1, CoinsPrimed DEF FitInv
    <2>3. Fits(mempool, job.op, SetOf(job.vtx))'
      BY <2>1, FitsPrimed DEF FitInv
    <2>4. RestFits'
      BY <2>1, <2>2 DEF FitInv, RestFits, SetOf, Parents
    <2> QED BY <2>2, <2>3, <2>4 DEF FitInv
  <1> QED BY <1>1, <1>3, <1>4, <1>5, <1>6, <1>7, <1>8, <1>9, <1>10, <1>11, <1>12 DEF Next

\* The pool fits the chain whenever no handler is in the middle of a block,
\* whatever is connected, disconnected and resurrected.
THEOREM PoolAlwaysFitsChain == Spec => []PoolFitsChain
  <1>1. FitInv => PoolFitsChain
    BY DEF FitInv, Fits, PoolFitsChain
  <1> QED BY <1>1, FitInit, FitNext, Invariant, PTL DEF Spec


-----------------------------------------------------------------------------
(* What leaves the pool *)

\* The ancestors of a transaction hold it, its parents and their ancestors.
LEMMA Ancestors ==
  /\ \A t \in Tx : t \in WithAncestors(t)
  /\ \A t \in Tx, y \in Tx : y \in Parents(t) => WithAncestors(y) \subseteq WithAncestors(t)
  <1>1. \A t \in Tx : t \in WithAncestors(t)
    BY DEF WithAncestors
  <1>2. ASSUME NEW t \in Tx, NEW y \in Tx, y \in Parents(t), NEW a \in WithAncestors(y)
        PROVE  a \in WithAncestors(t)
    <2>1. ASSUME NEW X \in SUBSET Tx, t \in X, \A x \in X : Parents(x) \subseteq X
          PROVE  a \in X
      <3>1. y \in X
        BY <1>2, <2>1
      <3> QED BY <2>1, <3>1 DEF WithAncestors
    <2>2. a \in Tx
      BY DEF WithAncestors
    <2> QED BY <2>1, <2>2 DEF WithAncestors
  <1> QED BY <1>1, <1>2

\* What WithSpenders collects depends on S.
LEMMA SpendersDepend ==
  ASSUME NEW pool, NEW S \in SUBSET Tx, Exact(pool), pool.mapTx \subseteq SpendTx,
         NEW t \in WithSpenders(pool, S)
  PROVE  \E a \in S : a \in WithAncestors(t)
  <1> DEFINE U == S \cup pool.mapTx
             X == {y \in U : \E a \in S : a \in WithAncestors(y)}
  <1>1. U \subseteq Tx
    BY DEF Tx
  <1>2. S \subseteq X
    BY <1>1, Ancestors
  <1>3. ASSUME NEW x \in X, NEW z \in Spenders(pool, x) PROVE z \in X
    <2>1. PICK o \in Outs(x) \cap DOMAIN pool.mapNextTx : z = pool.mapNextTx[o]
      BY DEF Spenders
    <2>2. PICK u \in pool.mapTx : o \in Ins[u]
      BY <2>1 DEF Exact
    <2>3. z = u
      BY <2>1, <2>2 DEF Exact
    <2>4. x \in Parents(z)
      BY <2>1, <2>2, <2>3, OutPoints DEF Parents
    <2>5. z \in Tx /\ x \in Tx /\ z \in U
      BY <1>1, <2>2, <2>3
    <2> QED BY <2>4, <2>5, Ancestors
  <1>4. t \in X
    BY <1>2, <1>3 DEF WithSpenders
  <1> QED BY <1>4

\* A transaction only leaves the pool for a reason: it was confirmed, it depends
\* on one that conflicts with a confirmed one, or on one that could not be
\* resurrected.
THEOREM RemovalsAreJustified == Spec => RemovalJustified
  <1>1. IInv /\ [Next]_vars => [\A t \in mempool.mapTx \ mempool'.mapTx :
       \/ /\ job.op = "connect"
          /\ \/ t = Head(job.vtx)
             \/ \E a \in WithAncestors(t) \ {Head(job.vtx)} :
                  Ins[a] \cap Ins[Head(job.vtx)] # {}
       \/ /\ job.op = "disconnect"
          /\ Head(job.vtx) \in WithAncestors(t)]_vars
    <2> SUFFICES ASSUME IInv, [Next]_vars, NEW t \in mempool.mapTx \ mempool'.mapTx
                 PROVE  \/ /\ job.op = "connect"
                           /\ \/ t = Head(job.vtx)
                              \/ \E a \in WithAncestors(t) \ {Head(job.vtx)} :
                                   Ins[a] \cap Ins[Head(job.vtx)] # {}
                        \/ /\ job.op = "disconnect"
                           /\ Head(job.vtx) \in WithAncestors(t)
      OBVIOUS
    <2> DEFINE x == Head(job.vtx)
    <2>0. PoolInv /\ JobInv
      BY Parts
    <2>1. CASE RemoveForBlock
      <3> DEFINE mid == remove(mempool, x, FALSE)
                 C == {mid.mapNextTx[o] : o \in Ins[x] \cap DOMAIN mid.mapNextTx} \ {x}
      <3>1. mid.mapTx = mempool.mapTx \ {x} /\ Exact(mid)
        BY <2>0, RemoveKeepsExact DEF remove, RemoveAll, PoolInv
      <3>2. mempool'.mapTx = mid.mapTx \ WithSpenders(mid, C)
        BY <2>1 DEF RemoveForBlock, removeConflicts, RemoveAll
      <3> HIDE DEF mid
      <3>3. \A a \in C : a # x /\ a \in mid.mapTx /\ Ins[a] \cap Ins[x] # {}
        BY <3>1 DEF Exact
      <3>4. C \subseteq Tx /\ mid.mapTx \subseteq SpendTx
        BY <2>0, <3>1, <3>3 DEF PoolInv, Tx
      <3> HIDE DEF C
      <3>5. CASE t = x
        BY <2>1, <3>5 DEF RemoveForBlock
      <3>6. CASE t # x
        <4>1. t \in WithSpenders(mid, C)
          BY <3>1, <3>2, <3>6
        <4>2. PICK a \in C : a \in WithAncestors(t)
          BY <3>1, <3>4, <4>1, SpendersDepend
        <4> QED BY <2>1, <3>3, <4>2 DEF RemoveForBlock
      <3> QED BY <3>5, <3>6
    <2>2. CASE Resurrect
      <3>1. mempool' = remove(mempool, x, TRUE)
        <4>1. \A u : t \in addUnchecked(mempool, u).mapTx
          BY DEF addUnchecked
        <4> QED BY <2>2, <4>1 DEF Resurrect
      <3>2. t \in WithSpenders(mempool, {x})
        BY <3>1 DEF remove, RemoveAll
      <3>3. x \in Tx
        BY <2>0, <2>2 DEF Resurrect, JobInv, JobType
      <3>4. \E a \in {x} : a \in WithAncestors(t)
        BY <2>0, <3>2, <3>3, SpendersDepend DEF PoolInv
      <3> QED BY <2>2, <3>4 DEF Resurrect
    <2>3. CASE ~RemoveForBlock /\ ~Resurrect
      <3>1. \/ mempool' = mempool
            \/ \E u : mempool' = addUnchecked(mempool, u)
        <4>1. \A p \in NodeIds : InitializeNode(p) \/ FinalizeNode(p) => mempool' = mempool
          BY DEF InitializeNode, FinalizeNode
        <4>2. \A p \in NodeIds, u \in Tx : TxMessage(p, u) =>
                mempool' = mempool \/ mempool' = addUnchecked(mempool, u)
          BY DEF TxMessage
        <4>3. \A u \in DOMAIN mapOrphanTransactions : TryOrphan(u) =>
                mempool' = mempool \/ mempool' = addUnchecked(mempool, u)
          BY DEF TryOrphan
        <4>4. NextInWorkQueue \/ EraseTried \/ DisconnectTip => mempool' = mempool
          BY DEF NextInWorkQueue, EraseTried, DisconnectTip
        <4>5. \A u \in SpendTx : LocalTx(u) => mempool' = addUnchecked(mempool, u)
          BY DEF LocalTx
        <4>6. \A v : ConnectTip(v) => mempool' = mempool
          BY DEF ConnectTip
        <4>7. UNCHANGED vars => mempool' = mempool
          BY DEF vars
        <4> QED BY <2>3, <4>1, <4>2, <4>3, <4>4, <4>5, <4>6, <4>7 DEF Next
      <3>2. \A u : t \in addUnchecked(mempool, u).mapTx
        BY DEF addUnchecked
      <3> QED BY <3>1, <3>2
    <2> QED BY <2>1, <2>2, <2>3
  <1> QED BY <1>1, Invariant, PTL DEF Spec, RemovalJustified


-----------------------------------------------------------------------------
(* Orphans that could be accepted *)

\* While the "tx" handler goes through its work queue, an orphan in its erase
\* queue that could be accepted now waits for its turn at a parent in the work
\* queue.
RetryPending(t) ==
  \E k \in DOMAIN job.vWorkQueue :
    job.vWorkQueue[k] \in Parents(t) /\ (k > 1 \/ t \notin job.seen)

RetryInv ==
  job.op = "orphans" =>
    \A t \in job.vEraseQueue \cap DOMAIN mapOrphanTransactions :
      (/\ t \notin FreeTx
       /\ mapOrphanTransactions[t] \notin job.setMisbehaving
       /\ AcceptToMemoryPool(t, FALSE)) => RetryPending(t)

\* Maturity depends on the chain only.
LEMMA MatureUnchanged ==
  ASSUME UNCHANGED chain, NEW t, Mature(t)'
  PROVE  Mature(t)
  <1>1. \A p : HeightOf(p)' = HeightOf(p)
    BY Zenon DEF HeightOf, SetOf
  <1> QED BY <1>1 DEF Mature, Parents

\* Whether a transaction is accepted depends on the chain and the pool only.
LEMMA AcceptUnchanged ==
  ASSUME UNCHANGED <<chainVars, mempool>>, NEW t, AcceptToMemoryPool(t, FALSE)'
  PROVE  AcceptToMemoryPool(t, FALSE)
  <1>1. UNCHANGED <<chain, have, unspent, mempool>>
    BY DEF chainVars
  <1>2. Mature(t)
    BY <1>1, MatureUnchanged DEF AcceptToMemoryPool, PassesPolicy
  <1> QED BY <1>1, <1>2 DEF AcceptToMemoryPool, PassesPolicy, IsNew, HaveCoins, IsAvailable,
                            Outs, Parents

\* A transaction that has been added is not accepted again, and another one
\* becomes acceptable only if it spends an output of the added one.
LEMMA AcceptAfterAdd ==
  ASSUME UNCHANGED chainVars, NEW u, mempool' = addUnchecked(mempool, u),
         NEW t, AcceptToMemoryPool(t, FALSE)'
  PROVE  t # u /\ (AcceptToMemoryPool(t, FALSE) \/ u \in Parents(t))
  <1>1. /\ mempool'.mapTx = mempool.mapTx \cup {u}
        /\ DOMAIN mempool'.mapNextTx = DOMAIN mempool.mapNextTx \cup Ins[u]
    BY DEF addUnchecked
  <1>2. UNCHANGED <<chain, have, unspent>>
    BY DEF chainVars
  <1>3. /\ t \in SpendTx /\ Verdict[t] = "valid"
        /\ t \notin mempool'.mapTx /\ Ins[t] \cap DOMAIN mempool'.mapNextTx = {}
        /\ t \notin have \cup mempool'.mapTx
        /\ \A p \in Parents(t) : p \in have \cup mempool'.mapTx
        /\ \A o \in Ins[t] : IsAvailable(o)'
        /\ Mature(t)'
    BY <1>2 DEF AcceptToMemoryPool, PassesPolicy, IsNew, HaveCoins, Parents
  <1>4. Mature(t)
    BY <1>2, <1>3, MatureUnchanged
  <1>5. ASSUME u \notin Parents(t) PROVE AcceptToMemoryPool(t, FALSE)
    <2>1. IsNew(t)
      BY <1>1, <1>3 DEF IsNew, HaveCoins
    <2>2. \A p \in Parents(t) : HaveCoins(p)
      BY <1>1, <1>3, <1>5 DEF HaveCoins
    <2>3. ASSUME NEW o \in Ins[t] PROVE IsAvailable(o)
      <3>1. o[1] # u
        BY <1>5 DEF Parents
      <3>2. IsAvailable(o)'
        BY <1>3
      <3> QED BY <1>1, <1>2, <3>1, <3>2 DEF IsAvailable, Outs
    <2> QED BY <1>3, <1>4, <2>1, <2>2, <2>3 DEF AcceptToMemoryPool, PassesPolicy
  <1> QED BY <1>1, <1>3, <1>5

\* The handler takes up an orphan.
LEMMA RetryTryOrphan ==
  ASSUME IInv, RetryInv, NEW u \in DOMAIN mapOrphanTransactions, TryOrphan(u)
  PROVE  RetryInv'
  <1> DEFINE from == mapOrphanTransactions[u]
             next == [job EXCEPT !.seen = @ \cup {u}, !.vEraseQueue = @ \cup {u}]
  <1>0. JobInv /\ OrphanInv
    BY Parts
  <1>1. /\ job.op = "orphans" /\ job.vWorkQueue # <<>>
        /\ UNCHANGED <<chainVars, orphanVars, mapOrphanTransactions>>
    BY DEF TryOrphan, orphanVars
  <1>2. /\ next \in JobType(nodes)
        /\ next.vWorkQueue = job.vWorkQueue /\ next.seen = job.seen \cup {u}
        /\ next.vEraseQueue = job.vEraseQueue \cup {u}
        /\ next.setMisbehaving = job.setMisbehaving
    BY <1>0 DEF JobInv, JobType, OrphanInv
  <1>3. \/ /\ from \in job.setMisbehaving
           /\ job' = next
           /\ UNCHANGED mempool
        \/ /\ mempool' = addUnchecked(mempool, u)
           /\ job' = [next EXCEPT !.vWorkQueue = Append(@, u)]
        \/ /\ \E low \in LowFees(u) : ~AcceptToMemoryPool(u, low)
           /\ job' = next \/ job' = [next EXCEPT !.setMisbehaving = @ \cup {from}]
           /\ UNCHANGED mempool
    BY DEF TryOrphan
  <1> HIDE DEF next
  <1>4. /\ job'.seen = job.seen \cup {u}
        /\ job'.vEraseQueue = job.vEraseQueue \cup {u}
        /\ job.setMisbehaving \subseteq job'.setMisbehaving
        /\ job'.vWorkQueue = job.vWorkQueue
             \/ (job'.vWorkQueue = Append(job.vWorkQueue, u) /\ mempool' = addUnchecked(mempool, u))
    BY <1>2, <1>3 DEF JobType
  <1>5. job.vWorkQueue \in Seq(SpendTx) /\ u \in SpendTx
    BY <1>0 DEF JobInv, JobType, OrphanInv
  <1>6. /\ \A k \in DOMAIN job.vWorkQueue :
             k \in DOMAIN job'.vWorkQueue /\ job'.vWorkQueue[k] = job.vWorkQueue[k]
        /\ job'.vWorkQueue # job.vWorkQueue =>
             \E k \in DOMAIN job'.vWorkQueue : k > 1 /\ job'.vWorkQueue[k] = u
    <2>1. CASE job'.vWorkQueue = job.vWorkQueue
      BY <2>1
    <2>2. CASE job'.vWorkQueue = Append(job.vWorkQueue, u)
      <3> DEFINE q == job.vWorkQueue
      <3>1. q \in Seq(SpendTx) /\ q # <<>>
        BY <1>1, <1>5
      <3> HIDE DEF q
      <3>2. /\ \A k \in DOMAIN q : k \in DOMAIN Append(q, u) /\ Append(q, u)[k] = q[k]
            /\ Len(q) + 1 \in DOMAIN Append(q, u) /\ Len(q) + 1 > 1 /\ Append(q, u)[Len(q) + 1] = u
        BY <1>5, <3>1
      <3> QED BY <2>2, <3>2 DEF q
    <2> QED BY <1>4, <2>1, <2>2
  <1>7. ASSUME NEW t \in job'.vEraseQueue \cap DOMAIN mapOrphanTransactions, t \notin FreeTx,
               mapOrphanTransactions[t] \notin job'.setMisbehaving, AcceptToMemoryPool(t, FALSE)'
        PROVE  \E k \in DOMAIN job'.vWorkQueue :
                 job'.vWorkQueue[k] \in Parents(t) /\ (k > 1 \/ t \notin job'.seen)
    <2>1. CASE t = u
      <3>1. from \notin job.setMisbehaving
        BY <1>4, <1>7, <2>1
      <3>2. mempool' # addUnchecked(mempool, u)
        BY <1>1, <1>7, <2>1, AcceptAfterAdd
      <3>3. LowFees(u) = {FALSE}
        BY <1>7, <2>1 DEF LowFees
      <3>4. ~AcceptToMemoryPool(u, FALSE) /\ UNCHANGED mempool
        BY <1>3, <3>1, <3>2, <3>3
      <3> QED BY <1>1, <1>7, <2>1, <3>4, AcceptUnchanged
    <2>2. CASE t # u /\ AcceptToMemoryPool(t, FALSE)
      <3>1. RetryPending(t)
        BY <1>1, <1>4, <1>7, <2>2 DEF RetryInv
      <3>2. PICK k \in DOMAIN job.vWorkQueue :
              job.vWorkQueue[k] \in Parents(t) /\ (k > 1 \/ t \notin job.seen)
        BY <3>1 DEF RetryPending
      <3> QED BY <1>4, <1>6, <2>2, <3>2
    <2>3. CASE t # u /\ ~AcceptToMemoryPool(t, FALSE)
      <3>1. mempool' # mempool
        BY <1>1, <1>7, <2>3, AcceptUnchanged
      <3>2. mempool' = addUnchecked(mempool, u) /\ job' = [next EXCEPT !.vWorkQueue = Append(@, u)]
        BY <1>3, <3>1
      <3>3. u \in Parents(t)
        BY <1>1, <1>7, <2>3, <3>2, AcceptAfterAdd
      <3>4. job'.vWorkQueue = Append(job.vWorkQueue, u)
        BY <1>2, <3>2 DEF JobType
      <3>5. job'.vWorkQueue # job.vWorkQueue
        BY <1>5, <3>4
      <3> QED BY <1>6, <3>3, <3>5
    <2> QED BY <2>1, <2>2, <2>3
  <1> QED BY <1>1, <1>7 DEF RetryInv, RetryPending, Parents

\* The handler moves on in its work queue: the orphans that wait for the head
\* have all been tried.
LEMMA RetryNextInWorkQueue ==
  ASSUME IInv, RetryInv, NextInWorkQueue
  PROVE  RetryInv'
  <1>0. JobInv /\ OrphanInv
    BY Parts
  <1> DEFINE q == job.vWorkQueue
  <1>1. /\ job.op = "orphans" /\ q # <<>> /\ Waiting = {}
        /\ job' = [job EXCEPT !.vWorkQueue = Tail(@), !.seen = {}]
        /\ UNCHANGED <<chainVars, mempool, mapOrphanTransactions>>
    BY DEF NextInWorkQueue, orphanVars
  <1>2. q \in Seq(SpendTx)
    BY <1>0 DEF JobInv, JobType
  <1>3. /\ job'.vWorkQueue = Tail(q) /\ job'.seen = {}
        /\ job'.vEraseQueue = job.vEraseQueue /\ job'.setMisbehaving = job.setMisbehaving
    BY <1>0, <1>1 DEF JobInv, JobType
  <1>4. /\ \A k \in DOMAIN q : k = 1 \/ (k > 1 /\ k - 1 \in DOMAIN Tail(q) /\ Tail(q)[k - 1] = q[k])
        /\ q[1] = Head(q)
    BY <1>1, <1>2
  <1>5. ASSUME NEW t \in job'.vEraseQueue \cap DOMAIN mapOrphanTransactions, t \notin FreeTx,
               mapOrphanTransactions[t] \notin job'.setMisbehaving, AcceptToMemoryPool(t, FALSE)'
        PROVE  \E k \in DOMAIN Tail(q) : Tail(q)[k] \in Parents(t)
    <2>1. AcceptToMemoryPool(t, FALSE)
      BY <1>1, <1>5, AcceptUnchanged
    <2>2. RetryPending(t)
      BY <1>1, <1>3, <1>5, <2>1 DEF RetryInv
    <2>3. PICK k \in DOMAIN q : q[k] \in Parents(t) /\ (k > 1 \/ t \notin job.seen)
      BY <2>2 DEF RetryPending
    <2>4. k # 1
      <3>1. SUFFICES ASSUME k = 1 PROVE FALSE
        OBVIOUS
      <3>2. Head(q) \in Parents(t) /\ t \notin job.seen
        BY <1>4, <2>3, <3>1
      <3>3. /\ Head(q) \in DOMAIN mapOrphanTransactionsByPrev
            /\ t \in mapOrphanTransactionsByPrev[Head(q)]
        BY <1>0, <3>2 DEF OrphanInv, Agree, Orphans
      <3>4. t \in Waiting
        BY <3>2, <3>3 DEF Waiting
      <3> QED BY <1>1, <3>4
    <2> QED BY <1>4, <2>3, <2>4
  <1> QED BY <1>1, <1>3, <1>5 DEF RetryInv, RetryPending, Parents

\* Every step of the handler keeps a retry pending for each orphan it could miss.
LEMMA RetryNext == IInv /\ RetryInv /\ [Next]_vars => RetryInv'
  <1> SUFFICES ASSUME IInv, RetryInv, [Next]_vars PROVE RetryInv'
    OBVIOUS
  <1>0. JobInv /\ Idle.op = "idle"
    BY Parts DEF Idle
  <1>1. ASSUME job'.op # "orphans" PROVE RetryInv'
    BY <1>1 DEF RetryInv
  <1>2. ASSUME NEW p \in NodeIds, InitializeNode(p) \/ FinalizeNode(p) PROVE RetryInv'
    BY <1>0, <1>1, <1>2 DEF InitializeNode, FinalizeNode
  <1>3. ASSUME NEW p \in NodeIds, NEW t \in Tx, TxMessage(p, t) PROVE RetryInv'
    <2>1. PICK low \in LowFees(t) :
            /\ mempool' = IF AcceptToMemoryPool(t, low) THEN addUnchecked(mempool, t) ELSE mempool
            /\ job' = IF AcceptToMemoryPool(t, low)
                      THEN [Idle EXCEPT !.op = "orphans", !.vWorkQueue = <<t>>, !.vEraseQueue = {t}]
                      ELSE job
      BY <1>3 DEF TxMessage
    <2>2. job = Idle /\ UNCHANGED chainVars
      BY <1>3 DEF TxMessage
    <2>3. CASE AcceptToMemoryPool(t, low)
      <3>1. job'.vEraseQueue = {t}
        BY <2>1, <2>3 DEF Idle
      <3>2. ~AcceptToMemoryPool(t, FALSE)'
        BY <2>1, <2>2, <2>3, AcceptAfterAdd
      <3> QED BY <3>1, <3>2 DEF RetryInv
    <2>4. CASE ~AcceptToMemoryPool(t, low)
      BY <1>0, <1>1, <2>1, <2>2, <2>4
    <2> QED BY <2>3, <2>4
  <1>4. ASSUME NEW t \in DOMAIN mapOrphanTransactions, TryOrphan(t) PROVE RetryInv'
    BY <1>4, RetryTryOrphan
  <1>5. CASE NextInWorkQueue
    BY <1>5, RetryNextInWorkQueue
  <1>6. CASE EraseTried
    BY <1>0, <1>1, <1>6 DEF EraseTried
  <1>7. ASSUME NEW t \in SpendTx, LocalTx(t) PROVE RetryInv'
    BY <1>0, <1>1, <1>7 DEF LocalTx
  <1>8. ASSUME NEW v, ConnectTip(v) PROVE RetryInv'
    <2>1. job'.op = "connect"
      BY <1>8 DEF ConnectTip, Idle
    <2> QED BY <1>1, <2>1
  <1>9. CASE RemoveForBlock
    <2>1. job'.op # "orphans"
      BY <1>0, <1>9 DEF RemoveForBlock, JobInv, JobType
    <2> QED BY <1>1, <2>1
  <1>10. CASE DisconnectTip
    <2>1. job'.op = "disconnect"
      BY <1>10 DEF DisconnectTip, Idle
    <2> QED BY <1>1, <2>1
  <1>11. CASE Resurrect
    <2>1. job'.op # "orphans"
      BY <1>0, <1>11 DEF Resurrect, JobInv, JobType
    <2> QED BY <1>1, <2>1
  <1>12. CASE UNCHANGED vars
    <2>1. UNCHANGED <<chainVars, mempool, mapOrphanTransactions, job>>
      BY <1>12 DEF vars, orphanVars
    <2>2. \A t : AcceptToMemoryPool(t, FALSE)' => AcceptToMemoryPool(t, FALSE)
      BY <2>1, AcceptUnchanged
    <2> QED BY <2>1, <2>2 DEF RetryInv, RetryPending, Parents
  <1> QED BY <1>2, <1>3, <1>4, <1>5, <1>6, <1>7, <1>8, <1>9, <1>10, <1>11, <1>12 DEF Next

\* The "tx" handler drops no orphan that could be accepted, whatever the order
\* in which it tries those that wait for the same or for several parents.
THEOREM NoOrphanIsMissed == Spec => NoOrphanMissed
  <1>1. Init => RetryInv
    BY DEF Init, Idle, RetryInv
  <1>2. IInv /\ RetryInv /\ [Next]_vars =>
          [job.op = "orphans" /\ job' = Idle =>
             \A t \in DOMAIN mapOrphanTransactions \ DOMAIN mapOrphanTransactions' :
               (t \notin FreeTx /\ mapOrphanTransactions[t] \notin job.setMisbehaving)
                 => ~AcceptToMemoryPool(t, FALSE)]_vars
    <2> SUFFICES ASSUME IInv, RetryInv, [Next]_vars, job.op = "orphans", job' = Idle,
                        NEW t \in DOMAIN mapOrphanTransactions \ DOMAIN mapOrphanTransactions',
                        t \notin FreeTx, mapOrphanTransactions[t] \notin job.setMisbehaving,
                        AcceptToMemoryPool(t, FALSE)
                 PROVE  FALSE
      OBVIOUS
    <2>0. OrphanInv /\ JobInv /\ Idle.op = "idle"
      BY Parts DEF Idle
    <2>1. job # Idle /\ job'.op = "idle"
      BY <2>0
    <2>2. CASE EraseTried
      <3>1. /\ SetOrphans(EraseOrphanTx(Orphans, job.vEraseQueue))
            /\ job.vWorkQueue = <<>>
        BY <2>2 DEF EraseTried
      <3>2. DOMAIN EraseOrphanTx(Orphans, job.vEraseQueue).tx
              = DOMAIN mapOrphanTransactions \ job.vEraseQueue
        <4>1. Orphans.tx = mapOrphanTransactions
          BY DEF Orphans
        <4> QED BY <2>0, <4>1, EraseOrphan DEF OrphanInv
      <3>3. t \in job.vEraseQueue
        BY <3>1, <3>2 DEF SetOrphans
      <3>4. RetryPending(t)
        BY <3>3 DEF RetryInv
      <3> QED BY <3>1, <3>4 DEF RetryPending
    <2>3. ASSUME NEW u \in DOMAIN mapOrphanTransactions, TryOrphan(u) PROVE FALSE
      BY <2>3 DEF TryOrphan, orphanVars
    <2>4. CASE NextInWorkQueue
      BY <2>4 DEF NextInWorkQueue, orphanVars
    <2>5. ASSUME NEW p \in NodeIds, InitializeNode(p) \/ FinalizeNode(p) PROVE FALSE
      BY <2>1, <2>5 DEF InitializeNode, FinalizeNode
    <2>6. ASSUME NEW p \in NodeIds, NEW u \in Tx, TxMessage(p, u) PROVE FALSE
      BY <2>1, <2>6 DEF TxMessage
    <2>7. ASSUME NEW u \in SpendTx, LocalTx(u) PROVE FALSE
      BY <2>1, <2>7 DEF LocalTx
    <2>8. ASSUME NEW v, ConnectTip(v) PROVE FALSE
      BY <2>1, <2>8 DEF ConnectTip
    <2>9. CASE RemoveForBlock \/ DisconnectTip \/ Resurrect
      BY <2>1, <2>9 DEF RemoveForBlock, DisconnectTip, Resurrect
    <2>10. CASE UNCHANGED vars
      BY <2>1, <2>10 DEF vars
    <2> QED BY <2>2, <2>3, <2>4, <2>5, <2>6, <2>7, <2>8, <2>9, <2>10 DEF Next
  <1> QED BY <1>1, <1>2, RetryNext, Invariant, PTL DEF Spec, NoOrphanMissed

=============================================================================
