------------------------------- MODULE KeyPool -------------------------------
(***************************************************************************)
(* The key pool of the wallet (wallet.cpp): keys made ahead, each a record *)
(* of the wallet database under an index, and setKeyPool, the indexes free *)
(* to be taken.  A CReserveKey (a mining thread, a payment being made) or  *)
(* GetOldestKeyPoolTime takes the lowest index out of setKeyPool, leaves   *)
(* the record, and later keeps the key (the record is erased) or returns   *)
(* it.  Encryption replaces the pool; a start rebuilds it from the records.*)
(*                                                                         *)
(* Every operation runs under cs_wallet and is one step; a CReserveKey is  *)
(* held across steps.  Berkeley DB commits every write by itself and hands *)
(* it to the operating system (DB_TXN_WRITE_NOSYNC), so it outlives the    *)
(* process, which may stop between two writes of EncryptWallet, though not *)
(* a power failure, which is left out.                                     *)
(***************************************************************************)
EXTENDS Integers, FiniteSets, FiniteSetsExt

CONSTANTS
  Holder,                   \* CReserveKey objects alive at a time
  nTargetSize,              \* -keypool
  KpSize,                   \* sizes given to keypoolrefill
  MaxKeys                   \* bound: keys ever generated

ASSUME KeyPoolAssumption ==
  nTargetSize \in Nat /\ KpSize \subseteq Nat /\ MaxKeys \in Nat /\ MaxKeys > nTargetSize

VARIABLES
  wallet,         \* set: setKeyPool; db: the pool records; next: the next fresh key
  reserve,        \* reserve[h]: nIndex and vchPubKey of a CReserveKey
  oldest,         \* nIndex of a GetOldestKeyPoolTime between its two calls
  fCrypted, fLocked,
  given,          \* history: keys that left the pool for good, flushed ones too
  reused,         \* history: keys that left it twice, overwritten apart
  overwritten     \* history: the record of a reserved index was written over

vars == <<wallet, reserve, oldest, fCrypted, fLocked, given, reused, overwritten>>

NoIndex == -1
NoKey == 0
DefaultKey == 1
Free == [nIndex |-> NoIndex, vchPubKey |-> NoKey]

IsLocked == fCrypted /\ fLocked

\* Indexes taken out of setKeyPool whose records are still there.
Reserved == ({reserve[h].nIndex : h \in Holder} \cup {oldest}) \ {NoIndex}

\* n WritePool calls with fresh keys, from index first on.
WritePools(w, first, n) ==
  LET new == first..(first + n - 1)
  IN  [set |-> w.set \cup new,
       db |-> [i \in DOMAIN w.db \cup new |-> IF i \in new THEN w.next + (i - first) ELSE w.db[i]],
       next |-> w.next + n]

ErasePools(w, S) == [w EXCEPT !.db = [i \in DOMAIN w.db \ S |-> w.db[i]]]

\* The while loop of TopUpKeyPool; a size of 0 stands for -keypool.
TopUp(w, kpSize) ==
  LET size == IF kpSize > 0 THEN kpSize ELSE nTargetSize
      nEnd == IF w.set = {} THEN 1 ELSE Max(w.set) + 1
      missing == size + 1 - Cardinality(w.set)
  IN  IF missing > 0 THEN WritePools(w, nEnd, missing) ELSE w

\* The pool as ReserveKeyFromKeyPool finds it: topped up unless locked.
Filled == IF IsLocked THEN wallet ELSE TopUp(wallet, 0)

\* Its index, NoIndex from an empty pool; and its key, NoKey if ReadPool fails.
Oldest(w) == IF w.set = {} THEN NoIndex ELSE Min(w.set)
KeyAt(w, i) == IF i \in DOMAIN w.db THEN w.db[i] ELSE NoKey
KeysAt(S) == {wallet.db[i] : i \in S \cap DOMAIN wallet.db}
TakeOut(w) == [w EXCEPT !.set = @ \ {Oldest(w)}]

Give(ks) ==
  /\ given' = given \cup ks
  /\ reused' = IF overwritten THEN reused ELSE reused \cup (given \cap ks)

\* The bound on keys, and the history of records lost to their holder.
Update(w) ==
  /\ w.next <= MaxKeys + 1
  /\ wallet' = w
  /\ overwritten' = (overwritten \/ \E i \in Reserved : KeyAt(w, i) # KeyAt(wallet, i))

\* A first start has made the pool and taken the default key from it.
Init ==
  /\ wallet = LET w == TopUp([set |-> {}, db |-> << >>, next |-> 1], 0)
              IN  ErasePools(TakeOut(w), {1})
  /\ reserve = [h \in Holder |-> Free] /\ oldest = NoIndex
  /\ fCrypted = FALSE /\ fLocked = FALSE
  /\ given = {DefaultKey} /\ reused = {} /\ overwritten = FALSE

\* keypoolrefill, and walletpassphrase after Unlock.
TopUpKeyPool(kpSize) ==
  /\ ~IsLocked
  /\ Update(TopUp(wallet, kpSize))
  /\ UNCHANGED <<reserve, oldest, fCrypted, fLocked, given, reused>>

\* The process stops: by a crash, an assertion or a shutdown.  What CReserveKey
\* destructors do to setKeyPool is lost with it.  LoadWallet rebuilds the pool.
StopWith(w, crypted) ==
  /\ wallet' = [w EXCEPT !.set = DOMAIN w.db]
  /\ reserve' = [h \in Holder |-> Free] /\ oldest' = NoIndex
  /\ fCrypted' = crypted /\ fLocked' = crypted
  /\ overwritten' = FALSE

Restart ==
  /\ StopWith(wallet, fCrypted)
  /\ UNCHANGED <<given, reused>>

\* CReserveKey::GetReservedKey.  A failed ReadPool throws after nIndex is set.
GetReservedKey(h) ==
  /\ reserve[h].nIndex = NoIndex
  /\ Update(TakeOut(Filled))
  /\ reserve' = [reserve EXCEPT ![h] =
       LET i == Oldest(Filled)
       IN  [nIndex |-> i, vchPubKey |-> IF i = NoIndex THEN DefaultKey ELSE KeyAt(Filled, i)]]
  /\ UNCHANGED <<oldest, fCrypted, fLocked, given, reused>>

\* A CReserveKey left with an index and no key asserts when it is asked again.
AssertValid(h) ==
  /\ reserve[h].nIndex # NoIndex /\ reserve[h].vchPubKey = NoKey
  /\ Restart

\* Mutant: the key is kept in memory only.
KeepKey_NotErased(h) ==
  /\ reserve[h].vchPubKey # NoKey
  /\ Give(IF reserve[h].nIndex # NoIndex THEN {reserve[h].vchPubKey} ELSE {})
  /\ reserve' = [reserve EXCEPT ![h] = Free]
  /\ UNCHANGED <<wallet, oldest, fCrypted, fLocked, overwritten>>

\* CommitTransaction and CheckWork keep the key before the payment or block is seen.
KeepKey(h) ==
  /\ reserve[h].vchPubKey # NoKey
  /\ wallet' = ErasePools(wallet, {reserve[h].nIndex})
  /\ Give(IF reserve[h].nIndex # NoIndex THEN {reserve[h].vchPubKey} ELSE {})
  /\ reserve' = [reserve EXCEPT ![h] = Free]
  /\ UNCHANGED <<oldest, fCrypted, fLocked, overwritten>>

\* Mutant: the destructor forgets the index.
ReturnKey_Lost(h) ==
  /\ reserve[h] # Free
  /\ reserve' = [reserve EXCEPT ![h] = Free]
  /\ UNCHANGED <<wallet, oldest, fCrypted, fLocked, given, reused, overwritten>>

\* No change, dust change, a failed payment, a destructor.
ReturnKey(h) ==
  /\ reserve[h] # Free
  /\ wallet' = [wallet EXCEPT !.set = @ \cup ({reserve[h].nIndex} \ {NoIndex})]
  /\ reserve' = [reserve EXCEPT ![h] = Free]
  /\ UNCHANGED <<oldest, fCrypted, fLocked, given, reused, overwritten>>

\* getnewaddress and getaccountaddress.  From an empty pool, which an unlocked
\* wallet never finds, or with a record missing, there is no key to give.
GetKeyFromPool ==
  LET i == Oldest(Filled)
      k == KeyAt(Filled, i)
  IN  /\ Update(IF k = NoKey THEN TakeOut(Filled) ELSE ErasePools(TakeOut(Filled), {i}))
      /\ Give({k} \ {NoKey})
      /\ UNCHANGED <<reserve, oldest, fCrypted, fLocked>>

\* GetOldestKeyPoolTime gives up cs_wallet between its two calls; it throws,
\* and returns nothing, if the record is missing.
OldestReserve ==
  /\ oldest = NoIndex
  /\ Update(TakeOut(Filled))
  /\ oldest' = IF KeyAt(Filled, Oldest(Filled)) = NoKey THEN NoIndex ELSE Oldest(Filled)
  /\ UNCHANGED <<reserve, fCrypted, fLocked, given, reused>>

OldestReturn ==
  /\ oldest # NoIndex
  /\ wallet' = [wallet EXCEPT !.set = @ \cup {oldest}]
  /\ oldest' = NoIndex
  /\ UNCHANGED <<reserve, fCrypted, fLocked, given, reused, overwritten>>

\* NewKeyPool erases the records in setKeyPool only and numbers from 1.
NewKeyPool ==
  WritePools([ErasePools(wallet, wallet.set) EXCEPT !.set = {}], 1, nTargetSize)

EncryptWallet ==
  /\ ~fCrypted
  /\ fCrypted' = TRUE /\ fLocked' = TRUE
  /\ Update(NewKeyPool)
  /\ Give(KeysAt(wallet.set))
  /\ UNCHANGED <<reserve, oldest>>

\* The process stops in EncryptWallet after the encrypted keys are committed:
\* NewKeyPool has erased the lowest old records and, after the last, made some.
EncryptInterrupted(erased, made) ==
  /\ ~fCrypted /\ wallet.next + made <= MaxKeys + 1
  /\ \A i \in erased, j \in wallet.set \ erased : i < j
  /\ made > 0 => erased = wallet.set
  /\ LET w == WritePools(ErasePools(wallet, erased), 1, made)
     IN  StopWith(w, TRUE)
  /\ Give(KeysAt(erased))

Lock ==
  /\ fCrypted /\ ~fLocked /\ fLocked' = TRUE
  /\ UNCHANGED <<wallet, reserve, oldest, fCrypted, given, reused, overwritten>>

Unlock ==
  /\ IsLocked /\ fLocked' = FALSE
  /\ UNCHANGED <<wallet, reserve, oldest, fCrypted, given, reused, overwritten>>

Next ==
  \/ \E n \in KpSize : TopUpKeyPool(n)
  \/ \E h \in Holder : GetReservedKey(h) \/ AssertValid(h) \/ KeepKey(h) \/ ReturnKey(h)
  \/ GetKeyFromPool
  \/ OldestReserve \/ OldestReturn
  \/ EncryptWallet
  \/ \E erased \in SUBSET wallet.set, made \in 0..nTargetSize : EncryptInterrupted(erased, made)
  \/ Lock \/ Unlock
  \/ Restart

Spec == Init /\ [][Next]_vars
-----------------------------------------------------------------------------
(* A key leaves the pool once ("so it won't be used again",                *)
(* CommitTransaction; "Mark old keypool keys as used", NewKeyPool): no key *)
(* is given out or flushed and given out again, no record holds a key that *)
(* is gone, and no two holders have the same key, over returns, refills,   *)
(* encryption cut short anywhere, and restarts.  The exception lasts from  *)
(* when the record of a reserved index is written over until the next      *)
(* restart: TopUpKeyPool does that when all free indexes are below it      *)
(* (-keypool=0, or a locked wallet's pool drained), and NewKeyPool, which  *)
(* numbers from 1.                                                         *)
KeyUsedOnce ==
  /\ reused = {}
  /\ given \cap KeysAt(DOMAIN wallet.db) = {}
  /\ \A h, g \in Holder : (h # g /\ reserve[h].nIndex # NoIndex /\ ~overwritten) =>
                            reserve[h].vchPubKey # reserve[g].vchPubKey

(* No key is lost and none is missing: every record is free in setKeyPool  *)
(* or reserved, never both, and every such index has its record, so        *)
(* ReserveKeyFromKeyPool never fails to read one.  Same exception.         *)
PoolIsRecords ==
  ~overwritten =>
    /\ wallet.set \cap Reserved = {}
    /\ wallet.set \cup Reserved = DOMAIN wallet.db
=============================================================================
