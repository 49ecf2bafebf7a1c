------------------------------- MODULE Mempool -------------------------------
(***************************************************************************)
(* The memory pool (CTxMemPool), the orphan transactions that wait for     *)
(* their parents, and everything that adds to or removes from either: the  *)
(* "tx" message, local transactions, ConnectTip, DisconnectTip and the     *)
(* deletion of a node.                                                     *)
(*                                                                         *)
(* All of it runs under cs_main.  A handler that goes through several      *)
(* transactions (the transactions of a block, or the orphans that depended *)
(* on an accepted one) takes one step for each and keeps its local         *)
(* variables in job; no other handler runs until it is done.               *)
(*                                                                         *)
(* The coins are what pcoinsTip shows: the transactions it has an entry    *)
(* for, and the unspent outputs.  Until it is flushed to the database the  *)
(* entry of a transaction without unspent outputs stays in the cache       *)
(* (module Coins).  Amounts, scripts, fees and priorities are abstracted   *)
(* to a verdict for each transaction.                                      *)
(***************************************************************************)
EXTENDS Integers, Sequences, FiniteSets, Functions

CONSTANTS
  CoinbaseTx,    \* coinbase transactions
  SpendTx,       \* the other transactions
  Ins,           \* Ins[t]: the outpoints <<txid, n>> t spends
  NumOut,        \* NumOut[t]: the number of outputs of t
  Verdict,       \* Verdict[t]: what the checks that look at t alone find
  FreeTx,        \* transactions a relayed copy of which may lack the fee
  BigTx,         \* transactions too big to be kept as orphans
  COINBASE_MATURITY,
  MaxOrphanTx,   \* -maxorphantx
  NodeIds,
  BaseChain,     \* the blocks above genesis when the node starts
  MaxHeight,     \* bound: height of the chain
  MaxBlockTx     \* bound: transactions of a new block besides the coinbase

Tx == CoinbaseTx \cup SpendTx
Outs(t) == {<<t, n>> : n \in 1..NumOut[t]}
OutPoint == UNION {Outs(t) : t \in Tx}
Parents(t) == {o[1] : o \in Ins[t]}
SetOf(s) == {s[i] : i \in DOMAIN s}

\* A chain blocks of which ConnectBlock accepted one by one: no transaction is
\* there twice, no two spend the same output, and what one spends was made by an
\* earlier one.
ValidChain(c) ==
  /\ \A h, g \in DOMAIN c : \A i \in DOMAIN c[h], j \in DOMAIN c[g] :
       c[h][i] = c[g][j] \/ Ins[c[h][i]] \cap Ins[c[g][j]] # {} => h = g /\ i = j
  /\ \A h \in DOMAIN c : \A i \in DOMAIN c[h] : \A o \in Ins[c[h][i]] :
       \E g \in DOMAIN c : \E j \in DOMAIN c[g] :
         o[1] = c[g][j] /\ (g < h \/ (g = h /\ j < i))

Verdicts == {"valid",        \* good in a block and in the pool
             "nonstandard",  \* good in a block only
             "malformed",    \* CheckTransaction fails
             "invalid"}      \* CheckInputs fails: amounts or signatures

ASSUME MempoolAssumption ==
  /\ CoinbaseTx \cap SpendTx = {}
  /\ IsFiniteSet(Tx)
  /\ NumOut \in [Tx -> Nat \ {0}]
  /\ Ins \in [Tx -> SUBSET (Tx \X Nat)]
  /\ \A t \in Tx : Ins[t] \subseteq OutPoint
  /\ \A t \in CoinbaseTx : Ins[t] = {}
  /\ Verdict \in [SpendTx -> Verdicts]
  /\ \A t \in SpendTx : Verdict[t] # "malformed" => Ins[t] # {}
  /\ COINBASE_MATURITY \in Nat \ {0}
  /\ MaxOrphanTx \in Nat
  /\ BaseChain \in Seq(Seq(Tx)) /\ ValidChain(BaseChain)
  /\ MaxBlockTx \in Nat

VARIABLES
  chain,        \* the blocks above genesis the coins stand for, each its vtx
  have,         \* transactions pcoinsTip->GetCoins finds
  unspent,      \* their unspent outputs
  mempool,      \* mapTx, and mapNextTx: which pool transaction spends what
  mapOrphanTransactions,        \* orphan -> the node it came from
  mapOrphanTransactionsByPrev,  \* parent -> orphans
  nodes,        \* the nodes that exist
  misbehaving,  \* nodes that were punished with Misbehaving
  job,          \* the handler that holds cs_main, and its local variables
  sentInvalid   \* history: nodes that sent a malformed or invalid transaction

chainVars == <<chain, have, unspent>>
orphanVars == <<mapOrphanTransactions, mapOrphanTransactionsByPrev>>
nodeVars == <<nodes, misbehaving, sentInvalid>>
vars == <<chainVars, mempool, orphanVars, nodeVars, job>>

Idle == [op |-> "idle", vtx |-> <<>>, vWorkQueue |-> <<>>, seen |-> {},
         vEraseQueue |-> {}, setMisbehaving |-> {}]

Confirmed == UNION {SetOf(chain[h]) : h \in DOMAIN chain}

Init ==
  /\ chain = BaseChain
  /\ have = UNION {SetOf(BaseChain[h]) : h \in DOMAIN BaseChain}
  /\ unspent = (UNION {Outs(t) : t \in have}) \ (UNION {Ins[t] : t \in have})
  /\ mempool = [mapTx |-> {}, mapNextTx |-> <<>>]
  /\ mapOrphanTransactions = <<>>
  /\ mapOrphanTransactionsByPrev = <<>>
  /\ nodes = {}
  /\ misbehaving = {}
  /\ sentInvalid = {}
  /\ job = Idle

-----------------------------------------------------------------------------
(* CTxMemPool *)

\* Mutant: mapNextTx records one of the inputs only.
addUnchecked_OneInput(pool, t) ==
  LET o == CHOOSE o \in Ins[t] : TRUE
  IN [mapTx |-> pool.mapTx \cup {t},
      mapNextTx |-> [x \in DOMAIN pool.mapNextTx \cup {o} |->
                       IF x = o THEN t ELSE pool.mapNextTx[x]]]

addUnchecked(pool, t) ==
  [mapTx |-> pool.mapTx \cup {t},
   mapNextTx |-> [o \in DOMAIN pool.mapNextTx \cup Ins[t] |->
                    IF o \in Ins[t] THEN t ELSE pool.mapNextTx[o]]]

\* Remove the transactions S that are in the pool, and the entries of
\* mapNextTx for what they spend.
RemoveAll(pool, S) ==
  LET gone == S \cap pool.mapTx
  IN [mapTx |-> pool.mapTx \ gone,
      mapNextTx |-> Restrict(pool.mapNextTx,
                             DOMAIN pool.mapNextTx \ UNION {Ins[t] : t \in gone})]

Spenders(pool, t) ==
  {pool.mapNextTx[o] : o \in Outs(t) \cap DOMAIN pool.mapNextTx}

\* S and the pool transactions that spend outputs of S, directly or not.
WithSpenders(pool, S) ==
  {t \in S \cup pool.mapTx :
     \A X \in SUBSET (S \cup pool.mapTx) :
       (S \subseteq X /\ \A x \in X : Spenders(pool, x) \subseteq X) => t \in X}

\* remove(tx, removed, fRecursive)
remove(pool, t, fRecursive) ==
  RemoveAll(pool, IF fRecursive THEN WithSpenders(pool, {t}) ELSE {t})

\* Mutant: the transactions that spend outputs of a conflict are left alone.
removeConflicts_Shallow(pool, t) ==
  RemoveAll(pool, {pool.mapNextTx[o] : o \in Ins[t] \cap DOMAIN pool.mapNextTx} \ {t})

\* Remove the pool transactions that spend an input of t, recursively.
removeConflicts(pool, t) ==
  RemoveAll(pool, WithSpenders(pool,
    {pool.mapNextTx[o] : o \in Ins[t] \cap DOMAIN pool.mapNextTx} \ {t}))

-----------------------------------------------------------------------------
(* AcceptToMemoryPool *)

\* CCoinsViewMemPool: the coins of pcoinsTip, then the pool.
HaveCoins(t) == t \in have \cup mempool.mapTx
IsAvailable(o) == IF o[1] \in have THEN o \in unspent
                                   ELSE o[1] \in mempool.mapTx /\ o \in Outs(o[1])

\* The block of the active chain that holds t.
HeightOf(t) == CHOOSE h \in DOMAIN chain : t \in SetOf(chain[h])

\* CheckInputs: "If prev is coinbase, check that it's matured".
Mature(t) ==
  \A p \in Parents(t) \cap CoinbaseTx :
    (Len(chain) + 1) - HeightOf(p) >= COINBASE_MATURITY

\* The checks up to "do we already have it?".
IsNew(t) ==
  /\ t \in SpendTx /\ Verdict[t] \notin {"malformed", "nonstandard"}
  /\ t \notin mempool.mapTx
  /\ Ins[t] \cap DOMAIN mempool.mapNextTx = {}
  /\ ~HaveCoins(t)

fMissingInputs(t) == IsNew(t) /\ \E p \in Parents(t) : ~HaveCoins(p)

\* Every check but those of amounts and signatures, which come last.
PassesPolicy(t, fLowFee) ==
  /\ IsNew(t)
  /\ \A p \in Parents(t) : HaveCoins(p)
  /\ \A o \in Ins[t] : IsAvailable(o)
  /\ ~fLowFee
  /\ Mature(t)

AcceptToMemoryPool(t, fLowFee) == PassesPolicy(t, fLowFee) /\ Verdict[t] = "valid"

\* The CValidationState of a rejected transaction asks for a punishment.
IsDoS(t, fLowFee) ==
  \/ t \in CoinbaseTx
  \/ Verdict[t] = "malformed"
  \/ PassesPolicy(t, fLowFee) /\ Verdict[t] = "invalid"

\* fLimitFree: relayed transactions may be refused for their fee.
LowFees(t) == IF t \in FreeTx THEN BOOLEAN ELSE {FALSE}

-----------------------------------------------------------------------------
(* Orphan transactions *)

AddOrphanTx(orphans, t, p) ==
  IF t \in DOMAIN orphans.tx \/ t \in BigTx THEN orphans ELSE
    LET Prev(x) == IF x \in DOMAIN orphans.byPrev THEN orphans.byPrev[x] ELSE {}
    IN [tx |-> [x \in DOMAIN orphans.tx \cup {t} |->
                  IF x = t THEN p ELSE orphans.tx[x]],
        byPrev |-> [x \in DOMAIN orphans.byPrev \cup Parents(t) |->
                      IF x \in Parents(t) THEN Prev(x) \cup {t} ELSE Prev(x)]]

\* Mutant: only the first parent's entry is cleaned up.
EraseOrphanTx_OneParent(orphans, S) ==
  LET gone == S \cap DOMAIN orphans.tx
      Left(x) == orphans.byPrev[x] \
                   {t \in gone : x = CHOOSE p \in Parents(t) : TRUE}
  IN [tx |-> Restrict(orphans.tx, DOMAIN orphans.tx \ gone),
      byPrev |-> [x \in {x \in DOMAIN orphans.byPrev : Left(x) # {}} |-> Left(x)]]

\* EraseOrphanTx for each of S.
EraseOrphanTx(orphans, S) ==
  LET gone == S \cap DOMAIN orphans.tx
      Left(x) == orphans.byPrev[x] \ {t \in gone : x \in Parents(t)}
  IN [tx |-> Restrict(orphans.tx, DOMAIN orphans.tx \ gone),
      byPrev |-> [x \in {x \in DOMAIN orphans.byPrev : Left(x) # {}} |-> Left(x)]]

Orphans == [tx |-> mapOrphanTransactions, byPrev |-> mapOrphanTransactionsByPrev]
SetOrphans(orphans) ==
  /\ mapOrphanTransactions' = orphans.tx
  /\ mapOrphanTransactionsByPrev' = orphans.byPrev

\* Random orphans are evicted until the limit is met: the possible outcomes.
LimitOrphanTxSize(orphans) ==
  {EraseOrphanTx(orphans, S) : S \in {S \in SUBSET DOMAIN orphans.tx :
     Cardinality(DOMAIN orphans.tx \ S) <= MaxOrphanTx
     /\ (S # {} => Cardinality(DOMAIN orphans.tx \ S) = MaxOrphanTx)}}

-----------------------------------------------------------------------------
(* Nodes *)

InitializeNode(p) ==
  /\ job = Idle
  /\ p \notin nodes
  /\ nodes' = nodes \cup {p}
  /\ UNCHANGED <<chainVars, mempool, orphanVars, misbehaving, sentInvalid, job>>

\* FinalizeNode calls EraseOrphansFor.
FinalizeNode(p) ==
  /\ job = Idle
  /\ p \in nodes
  /\ nodes' = nodes \ {p}
  /\ SetOrphans(EraseOrphanTx(Orphans,
       {t \in DOMAIN mapOrphanTransactions : mapOrphanTransactions[t] = p}))
  /\ misbehaving' = misbehaving \ {p}
  /\ sentInvalid' = sentInvalid \ {p}
  /\ UNCHANGED <<chainVars, mempool, job>>

-----------------------------------------------------------------------------
(* Transactions from the network and from this node *)

\* A "tx" message.
TxMessage(p, t) ==
  /\ job = Idle
  /\ p \in nodes
  /\ sentInvalid' = IF t \in CoinbaseTx \/ Verdict[t] \in {"malformed", "invalid"}
                    THEN sentInvalid \cup {p} ELSE sentInvalid
  /\ \E low \in LowFees(t) :
       /\ mempool' = IF AcceptToMemoryPool(t, low) THEN addUnchecked(mempool, t) ELSE mempool
       /\ job' = IF AcceptToMemoryPool(t, low)
                 THEN [Idle EXCEPT !.op = "orphans", !.vWorkQueue = <<t>>, !.vEraseQueue = {t}]
                 ELSE job
       /\ misbehaving' = IF IsDoS(t, low) THEN misbehaving \cup {p} ELSE misbehaving
  /\ IF fMissingInputs(t)
     THEN \E orphans \in LimitOrphanTxSize(AddOrphanTx(Orphans, t, p)) : SetOrphans(orphans)
     ELSE UNCHANGED orphanVars
  /\ UNCHANGED <<chainVars, nodes>>

\* The orphans that wait for the transaction at the head of the work queue.
Waiting ==
  LET t == Head(job.vWorkQueue)
  IN IF t \in DOMAIN mapOrphanTransactionsByPrev
     THEN mapOrphanTransactionsByPrev[t] \ job.seen ELSE {}

\* Mutant: an orphan is tried once although it may wait for several parents.
TryOrphan_Once(t) ==
  LET from == mapOrphanTransactions[t]
      next == [job EXCEPT !.seen = @ \cup {t}, !.vEraseQueue = @ \cup {t}]
  IN /\ job.op = "orphans" /\ job.vWorkQueue # <<>>
     /\ t \in Waiting
     /\ \E low \in LowFees(t) :
          IF t \notin job.vEraseQueue /\ from \notin job.setMisbehaving /\ AcceptToMemoryPool(t, low)
          THEN /\ mempool' = addUnchecked(mempool, t)
               /\ job' = [next EXCEPT !.vWorkQueue = Append(@, t)]
               /\ UNCHANGED misbehaving
          ELSE UNCHANGED <<mempool, misbehaving>> /\ job' = next
     /\ UNCHANGED <<chainVars, orphanVars, nodes, sentInvalid>>

\* Mutant: the node whose transaction is handled is blamed for the orphan.
TryOrphan_Blame(t) ==
  LET from == mapOrphanTransactions[t]
      next == [job EXCEPT !.seen = @ \cup {t}, !.vEraseQueue = @ \cup {t}]
  IN /\ job.op = "orphans" /\ job.vWorkQueue # <<>>
     /\ t \in Waiting
     /\ \E low \in LowFees(t), other \in nodes :
          IF AcceptToMemoryPool(t, low)
          THEN /\ mempool' = addUnchecked(mempool, t)
               /\ job' = [next EXCEPT !.vWorkQueue = Append(@, t)]
               /\ UNCHANGED misbehaving
          ELSE /\ misbehaving' = IF IsDoS(t, low) THEN misbehaving \cup {other} ELSE misbehaving
               /\ job' = next
               /\ UNCHANGED mempool
     /\ UNCHANGED <<chainVars, orphanVars, nodes, sentInvalid>>

\* One orphan that depended on an accepted transaction: its turn in the set is
\* decided by its hash.  It is erased afterwards whatever comes of it.
TryOrphan(t) ==
  LET from == mapOrphanTransactions[t]
      next == [job EXCEPT !.seen = @ \cup {t}, !.vEraseQueue = @ \cup {t}]
  IN /\ job.op = "orphans" /\ job.vWorkQueue # <<>>
     /\ t \in Waiting
     /\ \/ /\ from \in job.setMisbehaving
           /\ job' = next
           /\ UNCHANGED <<mempool, misbehaving>>
        \/ \E low \in LowFees(t) :
             /\ from \notin job.setMisbehaving
             /\ AcceptToMemoryPool(t, low)
             /\ mempool' = addUnchecked(mempool, t)
             /\ job' = [next EXCEPT !.vWorkQueue = Append(@, t)]
             /\ UNCHANGED misbehaving
        \/ \E low \in LowFees(t) :
             /\ from \notin job.setMisbehaving
             /\ ~AcceptToMemoryPool(t, low)
             /\ misbehaving' = IF IsDoS(t, low) THEN misbehaving \cup {from} ELSE misbehaving
             /\ job' = IF IsDoS(t, low)
                       THEN [next EXCEPT !.setMisbehaving = @ \cup {from}] ELSE next
             /\ UNCHANGED mempool
     /\ UNCHANGED <<chainVars, orphanVars, nodes, sentInvalid>>

NextInWorkQueue ==
  /\ job.op = "orphans" /\ job.vWorkQueue # <<>>
  /\ Waiting = {}
  /\ job' = [job EXCEPT !.vWorkQueue = Tail(@), !.seen = {}]
  /\ UNCHANGED <<chainVars, mempool, orphanVars, nodeVars>>

\* The work queue is done: erase the orphans in vEraseQueue.
EraseTried ==
  /\ job.op = "orphans" /\ job.vWorkQueue = <<>>
  /\ SetOrphans(EraseOrphanTx(Orphans, job.vEraseQueue))
  /\ job' = Idle
  /\ UNCHANGED <<chainVars, mempool, nodeVars>>

\* sendrawtransaction and the wallet: no fee limit, and orphans that depend on
\* the transaction are not looked at.
LocalTx(t) ==
  /\ job = Idle
  /\ AcceptToMemoryPool(t, FALSE)
  /\ mempool' = addUnchecked(mempool, t)
  /\ UNCHANGED <<chainVars, orphanVars, nodeVars, job>>

-----------------------------------------------------------------------------
(* Blocks *)

\* The transactions of a block after its coinbase.
BlockBodies == UNION {[1..n -> SpendTx] : n \in 0..MaxBlockTx}

\* ConnectBlock accepts vtx on top of chain: no transaction has an entry with
\* unspent outputs already (BIP30), and every input is an unspent output of the
\* chain or of an earlier transaction of the block.
ConnectBlock(vtx) ==
  /\ \A i \in DOMAIN vtx : vtx[i] \in CoinbaseTx <=> i = 1
  /\ vtx[1] \notin Confirmed
  /\ \A i \in DOMAIN vtx : Outs(vtx[i]) \cap unspent = {}
  /\ \A i \in 2..Len(vtx) :
       /\ Verdict[vtx[i]] \in {"valid", "nonstandard"}
       /\ \A o \in Ins[vtx[i]] :
            /\ o \in unspent \/ \E j \in 2..(i-1) : o \in Outs(vtx[j])
            /\ \A j \in 2..(i-1) : o \notin Ins[vtx[j]]
       /\ \A p \in Parents(vtx[i]) \cap CoinbaseTx :
            (Len(chain) + 1) - HeightOf(p) >= COINBASE_MATURITY

\* WriteChainState flushes pcoinsTip unless this is the initial download:
\* entries without unspent outputs are gone then.
WriteChainState(entries, flush) ==
  IF flush THEN {t \in entries : Outs(t) \cap unspent' # {}} ELSE entries

\* A block is connected; its transactions, and what conflicts with them, still
\* have to be removed from the pool.
ConnectTip(vtx) ==
  /\ job = Idle
  /\ Len(chain) < MaxHeight
  /\ ConnectBlock(vtx)
  /\ unspent' = (unspent \cup UNION {Outs(t) : t \in SetOf(vtx)})
                  \ UNION {Ins[t] : t \in SetOf(vtx)}
  /\ \E flush \in BOOLEAN : have' = WriteChainState(have \cup SetOf(vtx), flush)
  /\ chain' = Append(chain, vtx)
  /\ job' = [Idle EXCEPT !.op = "connect", !.vtx = vtx]
  /\ UNCHANGED <<mempool, orphanVars, nodeVars>>

\* Mutant: the transactions that spend a confirmed one go with it.
RemoveForBlock_Recursive ==
  /\ job.op = "connect" /\ job.vtx # <<>>
  /\ mempool' = removeConflicts(remove(mempool, Head(job.vtx), TRUE), Head(job.vtx))
  /\ job' = IF Len(job.vtx) = 1 THEN Idle ELSE [job EXCEPT !.vtx = Tail(@)]
  /\ UNCHANGED <<chainVars, orphanVars, nodeVars>>

RemoveForBlock ==
  /\ job.op = "connect" /\ job.vtx # <<>>
  /\ mempool' = removeConflicts(remove(mempool, Head(job.vtx), FALSE), Head(job.vtx))
  /\ job' = IF Len(job.vtx) = 1 THEN Idle ELSE [job EXCEPT !.vtx = Tail(@)]
  /\ UNCHANGED <<chainVars, orphanVars, nodeVars>>

\* The tip is disconnected: DisconnectBlock takes its outputs away and gives
\* back what it spent; its transactions are resurrected one by one.
DisconnectTip ==
  LET vtx == chain[Len(chain)]
      made == UNION {Outs(t) : t \in SetOf(vtx)}
      spent == UNION {Ins[t] : t \in SetOf(vtx)}
  IN /\ job = Idle
     /\ chain # <<>>
     /\ unspent' = (unspent \cup spent) \ made
     /\ \E flush \in BOOLEAN :
          have' = WriteChainState(have \cup SetOf(vtx) \cup {o[1] : o \in spent}, flush)
     /\ chain' = SubSeq(chain, 1, Len(chain) - 1)
     /\ job' = [Idle EXCEPT !.op = "disconnect", !.vtx = vtx]
     /\ UNCHANGED <<mempool, orphanVars, nodeVars>>

\* The coinbase is skipped; a transaction that is not accepted again takes the
\* pool transactions that depend on it with it.
Resurrect ==
  LET t == Head(job.vtx)
  IN /\ job.op = "disconnect" /\ job.vtx # <<>>
     /\ mempool' = IF t \in CoinbaseTx THEN mempool
                   ELSE IF AcceptToMemoryPool(t, FALSE) THEN addUnchecked(mempool, t)
                   ELSE remove(mempool, t, TRUE)
     /\ job' = IF Len(job.vtx) = 1 THEN Idle ELSE [job EXCEPT !.vtx = Tail(@)]
     /\ UNCHANGED <<chainVars, orphanVars, nodeVars>>

Next ==
  \/ \E p \in NodeIds : InitializeNode(p) \/ FinalizeNode(p)
  \/ \E p \in NodeIds, t \in Tx : TxMessage(p, t)
  \/ \E t \in DOMAIN mapOrphanTransactions : TryOrphan(t)
  \/ NextInWorkQueue
  \/ EraseTried
  \/ \E t \in SpendTx : LocalTx(t)
  \/ \E c \in CoinbaseTx, s \in BlockBodies : ConnectTip(<<c>> \o s)
  \/ RemoveForBlock
  \/ DisconnectTip
  \/ Resurrect

Spec == Init /\ [][Next]_vars

-----------------------------------------------------------------------------
(* Properties *)

\* The shape of the state.
TypeOK ==
  /\ chain \in Seq(Seq(Tx))
  /\ have \subseteq Tx
  /\ unspent \subseteq OutPoint
  /\ mempool.mapTx \subseteq SpendTx
  /\ DOMAIN mempool.mapNextTx \subseteq OutPoint
  /\ DOMAIN mapOrphanTransactions \subseteq SpendTx
  /\ DOMAIN mapOrphanTransactionsByPrev \subseteq Tx
  /\ nodes \subseteq NodeIds /\ misbehaving \subseteq nodes /\ sentInvalid \subseteq nodes
  /\ job \in [op : {"idle", "orphans", "connect", "disconnect"},
              vtx : Seq(Tx), vWorkQueue : Seq(SpendTx), seen : SUBSET SpendTx,
              vEraseQueue : SUBSET SpendTx, setMisbehaving : SUBSET nodes]

\* CTxMemPool::check, "Check whether its inputs are marked in mapNextTx" and
\* the loop over mapNextTx: mapNextTx holds exactly the inputs of the pool
\* transactions, so that no two of them spend the same output.
MapNextTxExact ==
  /\ DOMAIN mempool.mapNextTx = UNION {Ins[t] : t \in mempool.mapTx}
  /\ \A t \in mempool.mapTx : \A o \in Ins[t] : mempool.mapNextTx[o] = t

\* Where CTxMemPool::check is called, once the handler that connected or
\* disconnected a block is done: a transaction of the active chain is not in the
\* pool as well, and every input of a pool transaction is an unspent output or
\* the output of another pool transaction -- except that it may be an output of
\* a coinbase that was disconnected, which DisconnectTip skips.
PoolFitsChain ==
  job.op \in {"idle", "orphans"} =>
    /\ mempool.mapTx \cap Confirmed = {}
    /\ \A t \in mempool.mapTx : \A o \in Ins[t] :
         o[1] \in mempool.mapTx \/ o \in unspent \/ o[1] \in CoinbaseTx \ Confirmed

\* t and the transactions it depends on, directly or not.
WithAncestors(t) ==
  {a \in Tx : \A X \in SUBSET Tx :
                (t \in X /\ \A x \in X : Parents(x) \subseteq X) => a \in X}

\* A transaction only leaves the pool because it was confirmed, because it or
\* one it depends on conflicts with a confirmed one, or because one it depends
\* on could not be resurrected.
RemovalJustified ==
  [][\A t \in mempool.mapTx \ mempool'.mapTx :
       \/ /\ job.op = "connect"
          /\ \/ t = Head(job.vtx)
             \/ \E a \in WithAncestors(t) \ {Head(job.vtx)} :
                  Ins[a] \cap Ins[Head(job.vtx)] # {}
       \/ /\ job.op = "disconnect"
          /\ Head(job.vtx) \in WithAncestors(t)]_vars

\* mapOrphanTransactionsByPrev is the exact index of mapOrphanTransactions: the
\* "tx" handler looks every hash it finds there up unchecked.
OrphanMapsAgree ==
  /\ DOMAIN mapOrphanTransactionsByPrev = UNION {Parents(t) : t \in DOMAIN mapOrphanTransactions}
  /\ \A p \in DOMAIN mapOrphanTransactionsByPrev :
       mapOrphanTransactionsByPrev[p] = {t \in DOMAIN mapOrphanTransactions : p \in Parents(t)}

\* "do not allow mapOrphanTransactions to grow unbounded", also while a handler
\* is at work.
OrphanTxLimit == Cardinality(DOMAIN mapOrphanTransactions) <= MaxOrphanTx

\* A node is only punished if it sent a bad transaction itself: neither a node
\* that relays a parent nor one that relays a child of a bad one is.
OnlySendersPunished == misbehaving \subseteq sentInvalid

\* When a "tx" handler is done with the orphans, it has not dropped one that
\* could have been accepted, unless its fee was in doubt or its node was found
\* misbehaving meanwhile.
NoOrphanMissed ==
  [][job.op = "orphans" /\ job' = Idle =>
       \A t \in DOMAIN mapOrphanTransactions \ DOMAIN mapOrphanTransactions' :
         (t \notin FreeTx /\ mapOrphanTransactions[t] \notin job.setMisbehaving)
           => ~AcceptToMemoryPool(t, FALSE)]_vars

=============================================================================
