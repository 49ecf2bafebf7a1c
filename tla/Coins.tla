-------------------------------- MODULE Coins --------------------------------
(***************************************************************************)
(* The set of unspent outputs: CCoins and the cache layers of coins.cpp,   *)
(* the coin database of txdb.cpp, and the parts of ConnectBlock,           *)
(* UpdateCoins, CheckInputs and DisconnectBlock in main.cpp that change it.*)
(*                                                                         *)
(* pcoinsTip caches the database and is written to it now and then, by     *)
(* WriteChainState; a block is applied to a view on top of pcoinsTip that  *)
(* is flushed if the block is good and dropped otherwise.  The process may *)
(* be killed at any time between blocks.                                   *)
(*                                                                         *)
(* An output is named by its outpoint; amounts and scripts are left out.   *)
(* A block's hash is abstracted to the chain that ends with it.  Entries a *)
(* layer caches because they were read equal those below it, so only the   *)
(* entries written to a layer are kept.                                    *)
(***************************************************************************)
EXTENDS Integers, Sequences, FiniteSets, SequencesExt

CONSTANTS
  CoinbaseTx,       \* coinbase transactions
  SpendTx,          \* the other transactions
  Ins,              \* Ins[t]: the outpoints <<txid, n>> t spends, n from 1
  NumOut,           \* NumOut[t]: the number of outputs of t
  Unspendable,      \* outpoints whose script is provably unspendable
  CoinbaseHeight,   \* the height a coinbase commits to
  COINBASE_MATURITY,
  MaxHeight,        \* bound: height of the chain
  MaxSpends         \* bound: transactions of a block besides the coinbase

Tx == CoinbaseTx \cup SpendTx

ASSUME CoinsAssumption ==
  /\ CoinbaseTx \cap SpendTx = {}
  /\ \A t \in CoinbaseTx : Ins[t] = <<>> /\ CoinbaseHeight[t] \in Nat \ {0}
  /\ \A t \in SpendTx : Ins[t] # <<>> /\ IsInjective(Ins[t])
  /\ \A t \in Tx : Ins[t] \in Seq(Tx \X (Nat \ {0})) /\ NumOut[t] \in Nat \ {0}
  /\ COINBASE_MATURITY \in Nat /\ MaxHeight \in Nat /\ MaxSpends \in Nat

VARIABLES
  db,          \* database: the CCoins of each txid, or Absent
  dbBest,      \* database: best block
  cacheCoins,  \* pcoinsTip: its own entries, Absent where it has none
  hashBlock,   \* pcoinsTip: best block, NoBlock until it is read or set
  chain,       \* the active chain: blocks with their undo data
  fClean       \* what the last DisconnectBlock found

vars == <<db, dbBest, cacheCoins, hashBlock, chain, fClean>>

Absent == [fCoinBase |-> FALSE, vout |-> <<>>, nHeight |-> -1]  \* no entry
Spent == <<>>                                   \* CTxOut::IsNull
NoBlock == <<>>                                 \* uint256(0)
GenesisChain == <<[vtx |-> <<>>, vtxundo |-> <<>>]>>
Height(ch) == Len(ch) - 1

-----------------------------------------------------------------------------
(* CCoins *)

NoCoins == [fCoinBase |-> FALSE, vout |-> <<>>, nHeight |-> 0]

\* Spent outputs at the end of vout are dropped.
Cleanup(vout) ==
  SubSeq(vout, 1, Max({0} \cup {i \in DOMAIN vout : vout[i] # Spent}))

CCoins(t, h) ==
  [fCoinBase |-> t \in CoinbaseTx,
   vout |-> Cleanup([n \in 1..NumOut[t] |->
                       IF <<t, n>> \in Unspendable THEN Spent ELSE <<t, n>>]),
   nHeight |-> h]

IsAvailable(c, n) == n \in DOMAIN c.vout /\ c.vout[n] # Spent
IsPruned(c) == \A n \in DOMAIN c.vout : c.vout[n] = Spent
SameCoins(a, b) == (IsPruned(a) /\ IsPruned(b)) \/ a = b

\* The coins after output n is spent, and the undo record: height and coinbase
\* flag are kept in it only if this was the last output.
Spend(c, n) ==
  LET rest == Cleanup([c.vout EXCEPT ![n] = Spent])
  IN [coins |-> [c EXCEPT !.vout = rest],
      undo |-> [txout |-> c.vout[n],
                nHeight |-> IF rest = <<>> THEN c.nHeight ELSE 0,
                fCoinBase |-> rest = <<>> /\ c.fCoinBase]]

-----------------------------------------------------------------------------
(* Views: a view is the function of txids it presents *)

\* GetCoins through pcoinsTip.
TipView == [t \in Tx |-> IF cacheCoins[t] # Absent THEN cacheCoins[t] ELSE db[t]]

HaveCoins(view, t) == view[t] # Absent

HaveInputs(view, t) ==
  \A i \in DOMAIN Ins[t] : LET o == Ins[t][i] IN
    HaveCoins(view, o[1]) /\ IsAvailable(view[o[1]], o[2])

\* CheckInputs: "If prev is coinbase, check that it's matured".
Mature(view, t, h) ==
  \A i \in DOMAIN Ins[t] : LET c == view[Ins[t][i][1]] IN
    c.fCoinBase => h - c.nHeight >= COINBASE_MATURITY

InputsOK(view, t, h) == t \in CoinbaseTx \/ (HaveInputs(view, t) /\ Mature(view, t, h))

\* One input of UpdateCoins: the coins without it, and its undo record.
SpendInput(a, o) ==
  LET s == Spend(a.view[o[1]], o[2])
  IN [view |-> [a.view EXCEPT ![o[1]] = s.coins],
      vprevout |-> Append(a.vprevout, s.undo)]

\* UpdateCoins: spend the inputs one by one, then add the outputs.
UpdateCoins(a, t, h) ==
  LET spent[j \in 0..Len(Ins[t])] ==
        IF j = 0 THEN [view |-> a.view, vprevout |-> <<>>]
        ELSE SpendInput(spent[j - 1], Ins[t][j])
      all == spent[Len(Ins[t])]
  IN [ok |-> TRUE,
      view |-> [all.view EXCEPT ![t] = CCoins(t, h)],
      vtxundo |-> IF t \in CoinbaseTx THEN a.vtxundo
                  ELSE Append(a.vtxundo, all.vprevout)]

\* Mutant: all inputs are checked against the view the block starts from.
ConnectBlock_StaleView(view, vtx, h) ==
  LET acc[i \in 0..Len(vtx)] ==
        IF i = 0 THEN [ok |-> TRUE, view |-> view, vtxundo |-> <<>>]
        ELSE IF acc[i - 1].ok /\ InputsOK(view, vtx[i], h)
          THEN UpdateCoins(acc[i - 1], vtx[i], h)
          ELSE [acc[i - 1] EXCEPT !.ok = FALSE]
  IN acc[Len(vtx)]

\* One transaction of ConnectBlock; once one fails, the block has.
ConnectTx(a, t, h) ==
  IF a.ok /\ InputsOK(a.view, t, h)
    THEN UpdateCoins(a, t, h)
    ELSE [a EXCEPT !.ok = FALSE]

\* ConnectBlock: no transaction overwrites an unspent one (BIP30), every input
\* is available and mature when its transaction's turn comes.
ConnectBlock(view, vtx, h) ==
  LET bip30 == \A i \in DOMAIN vtx : HaveCoins(view, vtx[i]) => IsPruned(view[vtx[i]])
      acc[i \in 0..Len(vtx)] ==
        IF i = 0 THEN [ok |-> bip30, view |-> view, vtxundo |-> <<>>]
        ELSE ConnectTx(acc[i - 1], vtx[i], h)
  IN acc[Len(vtx)]

\* The coins after output n is restored from its undo record, and whether the
\* record fits them.
Restore(old, n, undo) ==
  LET last == undo.nHeight # 0
      base == IF last THEN [fCoinBase |-> undo.fCoinBase, vout |-> <<>>,
                            nHeight |-> undo.nHeight]
              ELSE old
      size == Max({Len(base.vout), n})
  IN [coins |-> [base EXCEPT !.vout =
                   [k \in 1..size |-> IF k = n THEN undo.txout
                                      ELSE IF k \in DOMAIN base.vout THEN base.vout[k]
                                      ELSE Spent]],
      clean |-> (last <=> IsPruned(old)) /\ ~IsAvailable(base, n)]

\* One restored input: its undo record goes back into the coins of its txid.
RestoreInput(a, o, undo) ==
  LET old == IF HaveCoins(a.view, o[1]) THEN a.view[o[1]] ELSE NoCoins
      r == Restore(old, o[2], undo)
  IN [view |-> [a.view EXCEPT ![o[1]] = r.coins], clean |-> a.clean /\ r.clean]

\* One transaction of DisconnectBlock: its outputs are checked and removed, then
\* its inputs restored in reverse order.
DisconnectTx(a, t, txundo, h) ==
  LET m == Len(Ins[t])
      outs == IF HaveCoins(a.view, t) THEN a.view[t] ELSE NoCoins
      left == IF HaveCoins(a.view, t) THEN NoCoins ELSE Absent
      restored[k \in 0..m] ==
        IF k = 0 THEN [view |-> [a.view EXCEPT ![t] = left],
                       clean |-> a.clean /\ SameCoins(outs, CCoins(t, h))]
        ELSE RestoreInput(restored[k - 1], Ins[t][m + 1 - k], txundo[m + 1 - k])
  IN restored[m]

\* DisconnectBlock: the transactions in reverse order.
DisconnectBlock(view, block, h) ==
  LET n == Len(block.vtx)
      undone[k \in 0..n] ==
        IF k = 0 THEN [view |-> view, clean |-> TRUE]
        ELSE DisconnectTx(undone[k - 1], block.vtx[n + 1 - k], block.vtxundo[n - k], h)
  IN undone[n]

-----------------------------------------------------------------------------
Init ==
  /\ db = [t \in Tx |-> Absent] /\ dbBest = GenesisChain
  /\ cacheCoins = [t \in Tx |-> Absent] /\ hashBlock = NoBlock
  /\ chain = GenesisChain
  /\ fClean = TRUE

\* CCoinsViewCache::Flush from the block's view into pcoinsTip.
Written(view) ==
  [t \in Tx |-> IF view[t] # TipView[t] THEN view[t] ELSE cacheCoins[t]]

\* Mutant: pruned entries of the cache are skipped, not erased.
BatchWrite_KeepPruned(cache) ==
  [t \in Tx |-> IF cache[t] = Absent \/ IsPruned(cache[t]) THEN db[t] ELSE cache[t]]

\* CCoinsViewDB::BatchWrite: pruned coins are erased; one atomic batch.
BatchWrite(cache) ==
  [t \in Tx |-> IF cache[t] = Absent THEN db[t]
                ELSE IF IsPruned(cache[t]) THEN Absent ELSE cache[t]]

\* WriteChainState: pcoinsTip is flushed to the database, or not yet.
WriteChainState(cache, best) ==
  \/ /\ cacheCoins' = cache /\ hashBlock' = best /\ UNCHANGED <<db, dbBest>>
  \/ /\ db' = BatchWrite(cache) /\ dbBest' = best
     /\ cacheCoins' = [t \in Tx |-> Absent] /\ hashBlock' = best

\* Blocks AcceptBlock lets through at height h: one coinbase, committing to h,
\* and other transactions in some order, none of them twice.
CandidateBlocks(h) ==
  {Cons(c, s) : c \in {t \in CoinbaseTx : CoinbaseHeight[t] = h},
                s \in {f \in UNION {[1..k -> SpendTx] : k \in 0..MaxSpends} :
                         IsInjective(f)}}

\* ConnectTip: a rejected block leaves no trace.
ConnectTip(vtx) ==
  LET r == ConnectBlock(TipView, vtx, Height(chain) + 1)
      block == [vtx |-> vtx, vtxundo |-> r.vtxundo]
  IN /\ r.ok
     /\ chain' = Append(chain, block)
     /\ WriteChainState(Written(r.view), Append(chain, block))
     /\ UNCHANGED fClean

\* DisconnectTip; an unclean result leaves the view unflushed.
DisconnectTip ==
  /\ Height(chain) > 0
  /\ LET r == DisconnectBlock(TipView, Last(chain), Height(chain))
     IN /\ fClean' = r.clean
        /\ IF r.clean
             THEN /\ chain' = Front(chain)
                  /\ WriteChainState(Written(r.view), Front(chain))
             ELSE UNCHANGED <<db, dbBest, cacheCoins, hashBlock, chain>>

\* Shutdown flushes pcoinsTip; LoadBlockIndexDB takes the tip from the database.
\* Flush passes hashBlock on even if it was never read; BatchWrite skips 0.
Shutdown ==
  /\ db' = BatchWrite(cacheCoins)
  /\ dbBest' = IF hashBlock = NoBlock THEN dbBest ELSE hashBlock
  /\ cacheCoins' = [t \in Tx |-> Absent] /\ hashBlock' = NoBlock
  /\ chain' = dbBest'
  /\ UNCHANGED fClean

\* The process is killed; only the database survives.
Crash ==
  /\ cacheCoins' = [t \in Tx |-> Absent] /\ hashBlock' = NoBlock
  /\ chain' = dbBest
  /\ UNCHANGED <<db, dbBest, fClean>>

Next ==
  \/ /\ Height(chain) < MaxHeight
     /\ \E vtx \in CandidateBlocks(Height(chain) + 1) : ConnectTip(vtx)
  \/ DisconnectTip
  \/ Shutdown
  \/ Crash

Spec == Init /\ [][Next]_vars
-----------------------------------------------------------------------------
(***************************************************************************)
(* Reference: what is unspent follows from the transactions of the chain,  *)
(* without any order of application, undo data or caches.                  *)
(***************************************************************************)
TxsOf(ch) == UNION {ToSet(ch[k].vtx) : k \in DOMAIN ch}
SpentIn(ch) == UNION {ToSet(Ins[t]) : t \in TxsOf(ch)}
HeightIn(ch, t) == CHOOSE h \in 0..Height(ch) : t \in ToSet(ch[h + 1].vtx)
UnspentOf(ch, t) ==
  {n \in 1..NumOut[t] : /\ t \in TxsOf(ch)
                        /\ <<t, n>> \notin SpentIn(ch) \cup Unspendable}

\* view presents exactly the unspent outputs of ch, each with the height and
\* coinbase flag of the transaction that made it.
Presents(view, ch) ==
  \A t \in Tx :
    LET c == IF HaveCoins(view, t) THEN view[t] ELSE NoCoins
        live == UnspentOf(ch, t)
    IN /\ live = {n \in DOMAIN c.vout : c.vout[n] # Spent}
       /\ \A n \in live : c.vout[n] = <<t, n>>
       /\ live # {} => /\ c.nHeight = HeightIn(ch, t)
                       /\ c.fCoinBase = (t \in CoinbaseTx)

\* The block is acceptable on top of ch.
Acceptable(ch, vtx) ==
  /\ \A i \in DOMAIN vtx : UnspentOf(ch, vtx[i]) = {}
  /\ \A i \in DOMAIN vtx : \A o \in ToSet(Ins[vtx[i]]) :
       LET before == {vtx[j] : j \in 1..(i - 1)}
       IN /\ \/ o[2] \in UnspentOf(ch, o[1])
             \/ o[1] \in before /\ o[2] \in 1..NumOut[o[1]] /\ o \notin Unspendable
          /\ \A t \in before : o \notin ToSet(Ins[t])
          /\ o[1] \in CoinbaseTx =>
               Len(ch) - CoinbaseHeight[o[1]] >= COINBASE_MATURITY
-----------------------------------------------------------------------------
(* Properties *)

\* pcoinsTip presents exactly the unspent outputs of the active chain after any
\* sequence of connects, disconnects, flushes, shutdowns and crashes: undo data
\* restores what spending removed, heights and coinbase flags included.  What is
\* in the database is the state of the best block it names, so that losing the
\* cache in a crash loses whole blocks and nothing else.
UtxoExact == Presents(TipView, chain) /\ Presents(db, dbBest)

\* Whether a block is accepted depends on the chain alone, not on what happens
\* to be cached or flushed, nor on the path that led to the chain; and
\* DisconnectBlock never reports a mismatch ("database corrupted").
VerdictExact ==
  /\ fClean
  /\ \A vtx \in CandidateBlocks(Height(chain) + 1) :
       ConnectBlock(TipView, vtx, Height(chain) + 1).ok <=> Acceptable(chain, vtx)
=============================================================================
