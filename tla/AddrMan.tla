------------------------------- MODULE AddrMan -------------------------------
(***************************************************************************)
(* The address manager, CAddrMan of addrman.h and addrman.cpp: a table of  *)
(* peer addresses with several indexes that must agree.  Every operation   *)
(* holds its lock throughout, so an operation is a step.                   *)
(*                                                                         *)
(* Buckets chosen by a keyed hash are constant functions; random draws are *)
(* free choices.  Of the statistics of an address only nLastSuccess is     *)
(* kept, as the number of the success: whether an address IsTerrible or is *)
(* the oldest of those drawn depends on the clock and is a free choice, so *)
(* Attempt_ and Connected_, which change statistics only, change nothing   *)
(* here.  Select_ only reads.                                              *)
(***************************************************************************)
EXTENDS Integers, Sequences, FiniteSets, SequencesExt, FiniteSetsExt

CONSTANTS
  Address,             \* network addresses
  Source,              \* where an address is heard from
  NewBucket,           \* NewBucket[<<a, s>>]: GetNewBucket
  TriedBucket,         \* TriedBucket[a]: GetTriedBucket
  ADDRMAN_NEW_BUCKET_SIZE,
  ADDRMAN_TRIED_BUCKET_SIZE,
  ADDRMAN_NEW_BUCKETS_PER_ADDRESS,
  ADDRMAN_TRIED_ENTRIES_INSPECT_ON_EVICT,
  ADDRMAN_GETADDR_MAX_PCT,
  ADDRMAN_GETADDR_MAX,
  MaxId,               \* bound: nIdCount
  MaxGood              \* bound: successes

NewBuckets == {NewBucket[x] : x \in Address \X Source}
TriedBuckets == {TriedBucket[a] : a \in Address}

ASSUME AddrManAssumption ==
  /\ ADDRMAN_NEW_BUCKET_SIZE \in Nat \ {0}
  /\ ADDRMAN_TRIED_BUCKET_SIZE \in Nat \ {0}
  /\ ADDRMAN_NEW_BUCKETS_PER_ADDRESS \in Nat \ {0}
  /\ ADDRMAN_TRIED_ENTRIES_INSPECT_ON_EVICT \in Nat \ {0}
  /\ ADDRMAN_GETADDR_MAX_PCT \in 0..100 /\ ADDRMAN_GETADDR_MAX \in Nat
  /\ IsFiniteSet(NewBuckets) /\ IsFiniteSet(TriedBuckets)

VARIABLES
  am,       \* the tables, see AddrManInit
  nGood     \* successes so far

addrManVars == <<am, nGood>>

AddrManInit ==
  /\ am = [mapInfo |-> <<>>,      \* id -> entry
           mapAddr |-> <<>>,      \* address -> id
           vRandom |-> <<>>,      \* all ids, in random order
           vvTried |-> [b \in TriedBuckets |-> <<>>],
           vvNew |-> [b \in NewBuckets |-> {}],
           nTried |-> 0, nNew |-> 0, nIdCount |-> 0]
  /\ nGood = 0

Ids(m) == DOMAIN m.mapInfo
With(f, k, v) == [x \in DOMAIN f \cup {k} |-> IF x = k THEN v ELSE f[x]]
Without(f, k) == [x \in DOMAIN f \ {k} |-> f[x]]

-----------------------------------------------------------------------------
(* Entries *)

\* Positions in vRandom count from 1.
Create(m, a, s) ==
  [m EXCEPT !.mapInfo = With(m.mapInfo, m.nIdCount,
              [addr |-> a, source |-> s, nLastSuccess |-> 0, nRefCount |-> 0,
               fInTried |-> FALSE, nRandomPos |-> Len(m.vRandom) + 1]),
            !.mapAddr = With(m.mapAddr, a, m.nIdCount),
            !.vRandom = Append(@, m.nIdCount),
            !.nIdCount = @ + 1]

SwapRandom(m, i, j) ==
  LET nId1 == m.vRandom[i]
      nId2 == m.vRandom[j]
  IN [m EXCEPT !.mapInfo = [@ EXCEPT ![nId1].nRandomPos = j, ![nId2].nRandomPos = i],
               !.vRandom = [@ EXCEPT ![i] = nId2, ![j] = nId1]]

\* Mutant: the last id does not take the place of the one removed.
Forget_NoSwap(m, id) ==
  [m EXCEPT !.vRandom = Front(m.vRandom),
            !.mapAddr = Without(m.mapAddr, m.mapInfo[id].addr),
            !.mapInfo = Without(m.mapInfo, id),
            !.nNew = @ - 1]

\* An entry without references is taken out of every index.
Forget(m, id) ==
  LET swapped == SwapRandom(m, m.mapInfo[id].nRandomPos, Len(m.vRandom))
  IN [swapped EXCEPT !.vRandom = Front(swapped.vRandom),
                     !.mapAddr = Without(m.mapAddr, m.mapInfo[id].addr),
                     !.mapInfo = Without(swapped.mapInfo, id),
                     !.nNew = @ - 1]

\* ShrinkNew once it has chosen an entry of the bucket.
ShrinkNew(m, b, id) ==
  LET less == [m EXCEPT !.mapInfo[id].nRefCount = @ - 1, !.vvNew[b] = @ \ {id}]
  IN IF less.mapInfo[id].nRefCount = 0 THEN Forget(less, id) ELSE less

-----------------------------------------------------------------------------
(* Add_ *)

\* What Add_ does with an address it knows: nothing if it is tried already or in
\* its share of buckets, and otherwise if there is no news or by chance.
MayReference(m, id) ==
  /\ ~m.mapInfo[id].fInTried
  /\ m.mapInfo[id].nRefCount < ADDRMAN_NEW_BUCKETS_PER_ADDRESS

\* The entry goes to the bucket of its source, which makes room when full.
Reference(m, id, b) ==
  LET more == [m EXCEPT !.mapInfo[id].nRefCount = @ + 1]
      Inserted(room) == [room EXCEPT !.vvNew[b] = room.vvNew[b] \cup {id}]
  IN IF Cardinality(m.vvNew[b]) = ADDRMAN_NEW_BUCKET_SIZE
     THEN \E v \in m.vvNew[b] : am' = Inserted(ShrinkNew(more, b, v))
     ELSE am' = Inserted(more)

Add(a, s) ==
  LET known == a \in DOMAIN am.mapAddr
      m == IF known THEN am ELSE [Create(am, a, s) EXCEPT !.nNew = @ + 1]
      id == m.mapAddr[a]
      b == NewBucket[<<a, s>>]
  IN /\ ~known => am.nIdCount < MaxId
     /\ known => MayReference(am, id)
     /\ id \notin m.vvNew[b]
     /\ Reference(m, id, b)
     /\ UNCHANGED nGood

-----------------------------------------------------------------------------
(* Good_ *)

\* The draws of SelectTried: place i is swapped with draw[i], at or after it.
Draws(n) ==
  LET k == Min({n, ADDRMAN_TRIED_ENTRIES_INSPECT_ON_EVICT})
  IN {d \in [1..k -> 1..n] : \A i \in 1..k : d[i] >= i}

\* The bucket after the swaps, and the place to replace: nPos of the least
\* recently successful entry among those drawn.
Inspect(m, acc, i, pos) ==
  LET nTemp == acc.vTried[pos]
      v == [acc.vTried EXCEPT ![pos] = acc.vTried[i], ![i] = nTemp]
      older == m.mapInfo[nTemp].nLastSuccess < m.mapInfo[acc.nOldest].nLastSuccess
  IN IF acc.nOldest = -1 \/ older
     THEN [vTried |-> v, nOldest |-> nTemp, nPos |-> pos]
     ELSE [acc EXCEPT !.vTried = v]
SelectTried(m, vTried, draw) ==
  LET acc[i \in 0..Len(draw)] ==
        IF i = 0 THEN [vTried |-> vTried, nOldest |-> -1, nPos |-> -1]
        ELSE Inspect(m, acc[i - 1], i, draw[i])
  IN acc[Len(draw)]

\* The entry leaves all its new buckets.
LeaveNew(m, id) ==
  [m EXCEPT !.vvNew = [b \in NewBuckets |-> m.vvNew[b] \ {id}],
            !.mapInfo[id].nRefCount = @ - Cardinality({b \in NewBuckets : id \in m.vvNew[b]}),
            !.nNew = @ - 1]

\* Mutant: an evicted entry whose new bucket is full is forgotten.
Evict_Forgotten(m, id, old, origin) ==
  LET own == NewBucket[<<m.mapInfo[old].addr, m.mapInfo[old].source>>]
  IN IF Cardinality(m.vvNew[own]) = ADDRMAN_NEW_BUCKET_SIZE
     THEN Forget([m EXCEPT !.nNew = @ + 1], old)
     ELSE [m EXCEPT !.mapInfo[old].fInTried = FALSE, !.mapInfo[old].nRefCount = 1,
                    !.vvNew[own] = @ \cup {old}, !.nNew = @ + 1]

\* The evicted entry goes to the new bucket of its source, or, if that is full,
\* to the one the entry that replaces it came from.
Evict(m, id, old, origin) ==
  LET own == NewBucket[<<m.mapInfo[old].addr, m.mapInfo[old].source>>]
      to == IF Cardinality(m.vvNew[own]) < ADDRMAN_NEW_BUCKET_SIZE THEN own ELSE origin
  IN [m EXCEPT !.mapInfo = [@ EXCEPT ![old].fInTried = FALSE, ![old].nRefCount = 1],
               !.vvNew[to] = @ \cup {old},
               !.nNew = @ + 1]

MakeTried(m, id, origin) ==
  LET k == TriedBucket[m.mapInfo[id].addr]
      left == LeaveNew(m, id)
      vTried == m.vvTried[k]
  IN IF Len(vTried) < ADDRMAN_TRIED_BUCKET_SIZE
     THEN am' = [left EXCEPT !.vvTried[k] = Append(@, id), !.nTried = @ + 1,
                             !.mapInfo[id].fInTried = TRUE]
     ELSE \E draw \in Draws(Len(vTried)) :
            LET sel == SelectTried(left, vTried, draw)
                old == sel.vTried[sel.nPos]
            IN am' = [Evict(left, id, old, origin) EXCEPT
                        !.vvTried[k] = [sel.vTried EXCEPT ![sel.nPos] = id],
                        !.mapInfo[id].fInTried = TRUE]

Good(a) ==
  /\ a \in DOMAIN am.mapAddr
  /\ nGood < MaxGood /\ nGood' = nGood + 1
  /\ LET id == am.mapAddr[a]
         m == [am EXCEPT !.mapInfo[id].nLastSuccess = nGood + 1]
     IN IF m.mapInfo[id].fInTried
        THEN am' = m
        ELSE \E origin \in {b \in NewBuckets : id \in m.vvNew[b]} : MakeTried(m, id, origin)

-----------------------------------------------------------------------------
(* GetAddr_, and saving to and loading from peers.dat *)

\* The first places of vRandom are shuffled, each with one at or after it.
Shuffled(m, n, r) ==
  LET f[i \in 0..n] == IF i = 0 THEN m ELSE SwapRandom(f[i - 1], i, r[i])
  IN f[n]

GetAddr ==
  LET n == Min({ADDRMAN_GETADDR_MAX, (ADDRMAN_GETADDR_MAX_PCT * Len(am.vRandom)) \div 100}) IN
  /\ \E r \in [1..n -> DOMAIN am.vRandom] :
       /\ \A i \in 1..n : r[i] >= i
       /\ am' = Shuffled(am, n, r)
  /\ UNCHANGED nGood

\* The entries are written in the order of their ids, new ones first; a new bucket
\* as a set of places among the new ones.
Index(S, i) == Cardinality({j \in S : j < i})
InOrder(S) == [n \in 1..Cardinality(S) |-> CHOOSE i \in S : Index(S, i) = n - 1]
NewIds(m) == {i \in Ids(m) : m.mapInfo[i].nRefCount # 0}
TriedIds(m) == {i \in Ids(m) : m.mapInfo[i].fInTried}
Info(e) == [addr |-> e.addr, source |-> e.source, nLastSuccess |-> e.nLastSuccess]
Serialize(m) ==
  LET written == InOrder(NewIds(m)) \o InOrder(TriedIds(m))
  IN [infos |-> [n \in 1..Len(written) |-> Info(m.mapInfo[written[n]])],
      nNew |-> m.nNew,
      vvNew |-> [b \in NewBuckets |-> {Index(NewIds(m), i) : i \in m.vvNew[b]}]]

\* Mutant: an entry is put back into the bucket of its first source only.
NewTable_OwnBucket(f) ==
  [b \in NewBuckets |->
     {i \in 0..(f.nNew - 1) : NewBucket[<<f.infos[i + 1].addr, f.infos[i + 1].source>>] = b}]

NewTable(f) == f.vvNew

\* Ids and the order in vRandom are those in the file; references and buckets are
\* counted again.  The limits on a bucket and on references, which the code tests
\* once more, are left out: they bind only for a file of other limits, as
\* Consistent says.
Unserialize(f) ==
  LET ids == 0..(Len(f.infos) - 1)
      vvNew == NewTable(f)
      InTried(b) == {i \in ids : i >= f.nNew /\ TriedBucket[f.infos[i + 1].addr] = b}
  IN [mapInfo |-> [i \in ids |->
        [addr |-> f.infos[i + 1].addr, source |-> f.infos[i + 1].source,
         nLastSuccess |-> f.infos[i + 1].nLastSuccess,
         nRefCount |-> Cardinality({b \in NewBuckets : i \in vvNew[b]}),
         fInTried |-> i >= f.nNew, nRandomPos |-> i + 1]],
      mapAddr |-> [a \in {x.addr : x \in ToSet(f.infos)} |->
                     CHOOSE i \in ids : f.infos[i + 1].addr = a],
      vRandom |-> [n \in 1..Len(f.infos) |-> n - 1],
      vvTried |-> [b \in TriedBuckets |-> InOrder(InTried(b))],
      vvNew |-> vvNew,
      nTried |-> Len(f.infos) - f.nNew, nNew |-> f.nNew, nIdCount |-> Len(f.infos)]

\* A restart from the last DumpAddresses; an older file is an earlier restart.
Restart ==
  /\ am' = Unserialize(Serialize(am))
  /\ UNCHANGED nGood

AddrManNext ==
  \/ \E a \in Address, s \in Source : Add(a, s)
  \/ \E a \in Address : Good(a)
  \/ GetAddr
  \/ Restart

AddrManSpec == AddrManInit /\ [][AddrManNext]_addrManVars

-----------------------------------------------------------------------------
(* Properties *)

\* Check_(): the counters, the entries, mapAddr, vRandom and the two tables agree,
\* and no bucket is overfull; in particular there is, as MakeTried says, "certainly
\* place" for an evicted entry in the bucket the new tried entry came from.  Select_
\* relies on it: it draws buckets until it finds one that is not empty.
Consistent ==
  LET Tried == TriedIds(am) IN
  /\ Len(am.vRandom) = am.nTried + am.nNew
  /\ \A i \in Ids(am) : LET info == am.mapInfo[i] IN
       /\ am.mapAddr[info.addr] = i
       /\ info.nRandomPos \in DOMAIN am.vRandom /\ am.vRandom[info.nRandomPos] = i
       /\ info.nRefCount = Cardinality({b \in NewBuckets : i \in am.vvNew[b]})
       /\ IF info.fInTried
          THEN info.nRefCount = 0 /\ info.nLastSuccess # 0
          ELSE info.nRefCount \in 1..ADDRMAN_NEW_BUCKETS_PER_ADDRESS
  /\ Cardinality(Tried) = am.nTried
  /\ Cardinality(Ids(am) \ Tried) = am.nNew
  /\ \A i \in Tried : \E b \in TriedBuckets : \E n \in DOMAIN am.vvTried[b] : am.vvTried[b][n] = i
  /\ \A b \in TriedBuckets : IsInjective(am.vvTried[b]) /\ ToSet(am.vvTried[b]) \subseteq Tried
  /\ \A b \in NewBuckets : /\ am.vvNew[b] \subseteq Ids(am) \ Tried
                          /\ Cardinality(am.vvNew[b]) <= ADDRMAN_NEW_BUCKET_SIZE
  /\ \A b \in TriedBuckets : Len(am.vvTried[b]) <= ADDRMAN_TRIED_BUCKET_SIZE

\* No step forgets an address that was tried: it is "only possibly evicted back to
\* the new table".
TriedNeverForgotten ==
  [][\A i \in TriedIds(am) : am.mapInfo[i].addr \in DOMAIN am'.mapAddr]_addrManVars

\* Saving and loading keeps every address, the table it is in, its buckets.
Where(m, a) ==
  LET i == m.mapAddr[a]
  IN [tried |-> m.mapInfo[i].fInTried, last |-> m.mapInfo[i].nLastSuccess,
      new |-> {b \in NewBuckets : i \in m.vvNew[b]}]
RestartKeepsTables ==
  [][Restart => /\ DOMAIN am'.mapAddr = DOMAIN am.mapAddr
                /\ \A a \in DOMAIN am.mapAddr : Where(am', a) = Where(am, a)]_addrManVars
=============================================================================
