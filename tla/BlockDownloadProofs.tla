------------------------- MODULE BlockDownloadProofs -------------------------
(***************************************************************************)
(* Proofs about BlockDownload, for every number of peers and blocks and    *)
(* every limit and timeout.                                                *)
(*                                                                         *)
(* The handlers are operators on the queues, so most of the work is done   *)
(* on an arbitrary q: QueuesOK(q) says that the lists are what the maps    *)
(* say, and each operator of main.cpp is shown to keep it and to change    *)
(* no more than it should.  The request loop is a recursive function; that *)
(* it is well defined (RoundsExist) and what k rounds of it have done      *)
(* (GetDataOK) are shown by considering the least round that would be      *)
(* wrong.  Stall detection compares time stamps of three handlers; that it *)
(* is justified rests on nLastBlockReceive being exactly as old as the     *)
(* wait of a peer that has blocks in flight (TimersOK).                    *)
(***************************************************************************)
EXTENDS BlockDownload, SequenceTheorems, WellFoundedInduction, NaturalsInduction, TLAPS

QueuedBlocks == [hash : Block, nTime : Nat]

NodeStates ==
  [vBlocksInFlight : Seq(QueuedBlocks), nBlocksInFlight : Int,
   vBlocksToDownload : Seq(Block), nBlocksToDownload : Int,
   nLastBlockReceive : Nat, nLastBlockProcess : Nat,
   nMisbehavior : Nat, fShouldBan : BOOLEAN]

PeerMaps == [Block -> Peer \cup {NoPeer}]

CQueues == [state : [Peer -> NodeStates], toDownload : PeerMaps, inFlight : PeerMaps]

\* The list holds each block once, and holds those the map gives to p.
Lists(v, f, p) ==
  /\ v \in Seq(Block)
  /\ \A i \in 1..Len(v) : f[v[i]] = p
  /\ \A i, j \in 1..Len(v) : v[i] = v[j] => i = j
  /\ \A h \in Block : f[h] = p => \E i \in 1..Len(v) : v[i] = h

Hashes(v) == [i \in DOMAIN v |-> v[i].hash]

PeerOK(q, p) ==
  /\ Lists(q.state[p].vBlocksToDownload, q.toDownload, p)
  /\ Lists(Hashes(q.state[p].vBlocksInFlight), q.inFlight, p)
  /\ q.state[p].nBlocksToDownload = Len(q.state[p].vBlocksToDownload)
  /\ q.state[p].nBlocksInFlight = Len(q.state[p].vBlocksInFlight)
  /\ q.state[p].nBlocksInFlight <= MAX_BLOCKS_IN_TRANSIT_PER_PEER

QueuesOK(q) ==
  /\ q \in CQueues
  /\ \A p \in Peer : PeerOK(q, p)
  /\ \A h \in Block : q.toDownload[h] = NoPeer \/ q.inFlight[h] = NoPeer

-----------------------------------------------------------------------------
(* Lists *)

\* RemoveAt shortens the list by one and moves what follows forward.
LEMMA Removed ==
  ASSUME NEW T, NEW v \in Seq(T), NEW it \in 1..Len(v)
  PROVE  /\ RemoveAt(v, it) \in Seq(T)
         /\ Len(RemoveAt(v, it)) = Len(v) - 1
         /\ \A j \in 1..(Len(v) - 1) :
              RemoveAt(v, it)[j] = IF j < it THEN v[j] ELSE v[j + 1]
<1> DEFINE a == SubSeq(v, 1, it - 1)
           b == SubSeq(v, it + 1, Len(v))
<1>1. /\ a \in Seq(T) /\ Len(a) = it - 1
      /\ \A j \in 1..(it - 1) : a[j] = v[j]
  OBVIOUS
<1>2. /\ b \in Seq(T) /\ Len(b) = Len(v) - it
      /\ \A j \in 1..(Len(v) - it) : b[j] = v[it + j]
  OBVIOUS
<1>3. RemoveAt(v, it) = a \o b
  BY DEF RemoveAt
<1> HIDE DEF a, b
<1>4. /\ a \o b \in Seq(T) /\ Len(a \o b) = Len(a) + Len(b)
      /\ \A j \in 1..(Len(a) + Len(b)) :
           (a \o b)[j] = IF j <= Len(a) THEN a[j] ELSE b[j - Len(a)]
  BY <1>1, <1>2, ConcatProperties
<1>5. Len(RemoveAt(v, it)) = Len(v) - 1
  BY <1>1, <1>2, <1>3, <1>4
<1>6. ASSUME NEW j \in 1..(Len(v) - 1)
      PROVE  RemoveAt(v, it)[j] = IF j < it THEN v[j] ELSE v[j + 1]
  <2>1. CASE j < it
    BY <2>1, <1>1, <1>2, <1>3, <1>4
  <2>2. CASE ~(j < it)
    <3>1. j - Len(a) \in 1..(Len(v) - it) /\ it + (j - Len(a)) = j + 1
      BY <2>2, <1>1
    <3>2. (a \o b)[j] = b[j - Len(a)]
      BY <2>2, <1>1, <1>2, <1>4
    <3> QED
      BY <2>2, <1>2, <1>3, <3>1, <3>2
  <2> QED
    BY <2>1, <2>2
<1> QED
  BY <1>3, <1>4, <1>5, <1>6

\* The hashes of a list of requests are a list of blocks.
LEMMA HashesAre ==
  ASSUME NEW v \in Seq(QueuedBlocks)
  PROVE  /\ Hashes(v) \in Seq(Block) /\ Len(Hashes(v)) = Len(v)
         /\ \A i \in 1..Len(v) : Hashes(v)[i] = v[i].hash /\ v[i].hash \in Block
<1>0. \A e \in QueuedBlocks : e.hash \in Block
  BY DEF QueuedBlocks
<1>1. \A i \in 1..Len(v) : v[i].hash \in Block
  BY <1>0
<1>2. Hashes(v) = [i \in 1..Len(v) |-> v[i].hash] /\ Len(v) \in Nat
  BY DEF Hashes
<1> QED
  BY <1>1, <1>2

\* A list that agrees with its map holds no block twice.
LEMMA ListedOnce ==
  ASSUME NEW v, NEW f, NEW p, Lists(v, f, p)
  PROVE  IsInjective(v)
<1>1. v \in Seq(Block) /\ DOMAIN v = 1..Len(v)
  BY DEF Lists
<1>2. \A i, j \in 1..Len(v) : v[i] = v[j] => i = j
  BY DEF Lists
<1> QED
  BY <1>1, <1>2 DEF IsInjective

\* A list that has lost entry it agrees with the map that has lost its block.
LEMMA ListShortened ==
  ASSUME NEW v, NEW w, NEW f \in PeerMaps, NEW p \in Peer, Lists(v, f, p),
         NEW it \in 1..Len(v), w \in Seq(Block), Len(w) = Len(v) - 1,
         \A j \in 1..(Len(v) - 1) : w[j] = IF j < it THEN v[j] ELSE v[j + 1]
  PROVE  Lists(w, [f EXCEPT ![v[it]] = NoPeer], p)
<1> DEFINE g == [f EXCEPT ![v[it]] = NoPeer]
<1>0. v \in Seq(Block) /\ v[it] \in Block /\ Len(v) \in Nat
  BY DEF Lists
<1>1. \A h \in Block : g[h] = IF h = v[it] THEN NoPeer ELSE f[h]
  BY <1>0 DEF PeerMaps
<1>2. \A j \in 1..Len(w) : \E k \in 1..Len(v) : k # it /\ w[j] = v[k]
  <2> TAKE j \in 1..Len(w)
  <2>1. CASE j < it
    BY <2>1, <1>0
  <2>2. CASE ~(j < it)
    <3>1. j + 1 \in 1..Len(v) /\ j + 1 # it /\ w[j] = v[j + 1]
      BY <2>2, <1>0
    <3> QED
      BY <3>1
  <2> QED
    BY <2>1, <2>2
<1>3. \A k \in 1..Len(v) : k # it => \E j \in 1..Len(w) : w[j] = v[k]
  <2> SUFFICES ASSUME NEW k \in 1..Len(v), k # it PROVE \E j \in 1..Len(w) : w[j] = v[k]
    OBVIOUS
  <2>1. CASE k < it
    BY <2>1, <1>0
  <2>2. CASE ~(k < it)
    <3>1. k - 1 \in 1..Len(w) /\ w[k - 1] = v[k]
      BY <2>2, <1>0
    <3> QED
      BY <3>1
  <2> QED
    BY <2>1, <2>2
<1>4. \A i \in 1..Len(w) : g[w[i]] = p
  BY <1>0, <1>1, <1>2 DEF Lists
<1>5. \A i, j \in 1..Len(w) : w[i] = w[j] => i = j
  <2> SUFFICES ASSUME NEW i \in 1..Len(w), NEW j \in 1..Len(w), w[i] = w[j] PROVE i = j
    OBVIOUS
  <2>1. \A a, b \in 1..Len(v) : v[a] = v[b] => a = b
    BY DEF Lists
  <2> QED
    BY <2>1, <1>0
<1>6. ASSUME NEW h \in Block, g[h] = p PROVE \E i \in 1..Len(w) : w[i] = h
  <2>0. p # NoPeer
    BY BlockDownloadAssumption
  <2>1. h # v[it] /\ f[h] = p
    BY <1>1, <1>6, <2>0
  <2>2. PICK k \in 1..Len(v) : v[k] = h
    BY <2>1 DEF Lists
  <2> QED
    BY <1>3, <2>1, <2>2
<1> QED
  BY <1>4, <1>5, <1>6 DEF Lists

\* The same for RemoveAt, the erase of an iterator.
LEMMA ListErase ==
  ASSUME NEW v, NEW f \in PeerMaps, NEW p \in Peer, Lists(v, f, p),
         NEW it \in 1..Len(v)
  PROVE  Lists(RemoveAt(v, it), [f EXCEPT ![v[it]] = NoPeer], p)
<1> DEFINE w == RemoveAt(v, it)
<1>1. v \in Seq(Block)
  BY DEF Lists
<1>2. /\ w \in Seq(Block) /\ Len(w) = Len(v) - 1
      /\ \A j \in 1..(Len(v) - 1) : w[j] = IF j < it THEN v[j] ELSE v[j + 1]
  BY <1>1, Removed
<1> HIDE DEF w
<1>3. Lists(w, [f EXCEPT ![v[it]] = NoPeer], p)
  BY <1>2, ListShortened
<1> QED
  BY <1>3 DEF w

\* A block that is nobody's may be appended to the list of p.
LEMMA ListAppend ==
  ASSUME NEW v, NEW f \in PeerMaps, NEW p \in Peer, Lists(v, f, p),
         NEW h \in Block, f[h] = NoPeer
  PROVE  Lists(Append(v, h), [f EXCEPT ![h] = p], p)
<1> DEFINE g == [f EXCEPT ![h] = p]
           w == Append(v, h)
<1>0. v \in Seq(Block) /\ p # NoPeer
  BY BlockDownloadAssumption DEF Lists
<1>1. \A k \in Block : g[k] = IF k = h THEN p ELSE f[k]
  BY DEF PeerMaps
<1>2. /\ w \in Seq(Block) /\ Len(w) = Len(v) + 1 /\ Len(v) \in Nat /\ w[Len(v) + 1] = h
      /\ \A i \in 1..Len(v) : w[i] = v[i] /\ v[i] \in Block /\ v[i] # h
  BY <1>0 DEF Lists
<1> HIDE DEF g, w
<1>3. \A i \in 1..Len(w) : g[w[i]] = p
  BY <1>1, <1>2 DEF Lists
<1>4. \A i, j \in 1..Len(w) : w[i] = w[j] => i = j
  <2>1. \A a, b \in 1..Len(v) : v[a] = v[b] => a = b
    BY DEF Lists
  <2> QED
    BY <2>1, <1>2
<1>5. ASSUME NEW k \in Block, g[k] = p PROVE \E i \in 1..Len(w) : w[i] = k
  <2>1. CASE k = h
    BY <2>1, <1>2
  <2>2. CASE k # h
    <3>1. PICK i \in 1..Len(v) : v[i] = k
      BY <2>2, <1>1, <1>5 DEF Lists
    <3> QED
      BY <3>1, <1>2
  <2> QED
    BY <2>1, <2>2
<1>6. Lists(w, g, p)
  BY <1>2, <1>3, <1>4, <1>5 DEF Lists
<1> QED
  BY <1>6 DEF w, g

\* A change of the map that does not concern p.
LEMMA ListSame ==
  ASSUME NEW v, NEW f \in PeerMaps, NEW p \in Peer, Lists(v, f, p),
         NEW h \in Block, f[h] # p, NEW r, r # p
  PROVE  Lists(v, [f EXCEPT ![h] = r], p)
<1>1. \A k \in Block : [f EXCEPT ![h] = r][k] = IF k = h THEN r ELSE f[k]
  BY DEF PeerMaps
<1> QED
  BY <1>1 DEF Lists

-----------------------------------------------------------------------------
(* Node states *)

SameTimes(s, t) ==
  /\ t.nLastBlockReceive = s.nLastBlockReceive
  /\ t.nLastBlockProcess = s.nLastBlockProcess

SameInFlight(s, t) ==
  /\ t.vBlocksInFlight = s.vBlocksInFlight
  /\ t.nBlocksInFlight = s.nBlocksInFlight

SameToDownload(s, t) ==
  /\ t.vBlocksToDownload = s.vBlocksToDownload
  /\ t.nBlocksToDownload = s.nBlocksToDownload

SetToDownload(s, w, n) == [s EXCEPT !.vBlocksToDownload = w, !.nBlocksToDownload = n]

SetInFlight(s, w, n, d) == [s EXCEPT !.vBlocksInFlight = w, !.nBlocksInFlight = n,
                                     !.nLastBlockReceive = d]

\* Writing the queue of a node state keeps the rest of it.
LEMMA WriteToDownload ==
  ASSUME NEW s \in NodeStates, NEW w \in Seq(Block), NEW n \in Int
  PROVE  /\ SetToDownload(s, w, n) \in NodeStates
         /\ SetToDownload(s, w, n).vBlocksToDownload = w
         /\ SetToDownload(s, w, n).nBlocksToDownload = n
         /\ SameTimes(s, SetToDownload(s, w, n)) /\ SameInFlight(s, SetToDownload(s, w, n))
  BY DEF NodeStates, SameTimes, SameInFlight, SetToDownload

\* Writing the list in flight and its timer keeps the rest of a node state.
LEMMA WriteInFlight ==
  ASSUME NEW s \in NodeStates, NEW w \in Seq(QueuedBlocks), NEW n \in Int, NEW d \in Nat
  PROVE  /\ SetInFlight(s, w, n, d) \in NodeStates
         /\ SetInFlight(s, w, n, d).vBlocksInFlight = w
         /\ SetInFlight(s, w, n, d).nBlocksInFlight = n
         /\ SetInFlight(s, w, n, d).nLastBlockReceive = d
         /\ SetInFlight(s, w, n, d).nLastBlockProcess = s.nLastBlockProcess
         /\ SameToDownload(s, SetInFlight(s, w, n, d))
  BY DEF NodeStates, SameToDownload, SetInFlight

\* The types of the fields of a node state.
LEMMA NodeStateIs ==
  ASSUME NEW s \in NodeStates
  PROVE  /\ s.vBlocksToDownload \in Seq(Block) /\ s.nBlocksToDownload \in Int
         /\ s.vBlocksInFlight \in Seq(QueuedBlocks) /\ s.nBlocksInFlight \in Int
         /\ s.nLastBlockReceive \in Nat /\ s.nLastBlockProcess \in Nat
         /\ s.nMisbehavior \in Nat
  BY DEF NodeStates

\* The types of the parts of the queues.
LEMMA QueuesIs ==
  ASSUME NEW q \in CQueues
  PROVE  /\ q.state \in [Peer -> NodeStates]
         /\ q.toDownload \in PeerMaps /\ q.inFlight \in PeerMaps
  BY DEF CQueues

SetQueued(q, p, t, h, o) == [q EXCEPT !.state[p] = t, !.toDownload[h] = o]

SetRequested(q, p, t, h, o) == [q EXCEPT !.state[p] = t, !.inFlight[h] = o]

\* Writing a node state and an entry of mapBlocksToDownload.
LEMMA WriteQueued ==
  ASSUME NEW q \in CQueues, NEW p \in Peer, NEW t \in NodeStates, NEW h \in Block,
         NEW o \in Peer \cup {NoPeer}
  PROVE  /\ SetQueued(q, p, t, h, o) \in CQueues
         /\ SetQueued(q, p, t, h, o).state = [q.state EXCEPT ![p] = t]
         /\ SetQueued(q, p, t, h, o).toDownload = [q.toDownload EXCEPT ![h] = o]
         /\ SetQueued(q, p, t, h, o).inFlight = q.inFlight
  BY DEF CQueues, PeerMaps, SetQueued

\* Writing a node state and an entry of mapBlocksInFlight.
LEMMA WriteRequested ==
  ASSUME NEW q \in CQueues, NEW p \in Peer, NEW t \in NodeStates, NEW h \in Block,
         NEW o \in Peer \cup {NoPeer}
  PROVE  /\ SetRequested(q, p, t, h, o) \in CQueues
         /\ SetRequested(q, p, t, h, o).state = [q.state EXCEPT ![p] = t]
         /\ SetRequested(q, p, t, h, o).inFlight = [q.inFlight EXCEPT ![h] = o]
         /\ SetRequested(q, p, t, h, o).toDownload = q.toDownload
  BY DEF CQueues, PeerMaps, SetRequested

\* w is v without h.
Shortened(v, w, h) == \E i \in 1..Len(v) : v[i] = h /\ w = RemoveAt(v, i)

\* The first half of MarkBlockAsReceived: the block leaves its queue, and nothing else changes.
LEMMA DequeuedOK ==
  ASSUME NEW q, QueuesOK(q), NEW h \in Block
  PROVE  LET r == Dequeued(q, h)
             d == q.toDownload[h]
         IN /\ QueuesOK(r)
            /\ r.toDownload = [q.toDownload EXCEPT ![h] = NoPeer]
            /\ r.inFlight = q.inFlight
            /\ \A p \in Peer : /\ p # d => r.state[p] = q.state[p]
                            /\ SameTimes(q.state[p], r.state[p])
                               /\ SameInFlight(q.state[p], r.state[p])
            /\ d # NoPeer =>
                 Shortened(q.state[d].vBlocksToDownload, r.state[d].vBlocksToDownload, h)
<1> DEFINE d == q.toDownload[h]
           r == Dequeued(q, h)
<1>0. q \in CQueues /\ q.state \in [Peer -> NodeStates] /\ q.toDownload \in PeerMaps
      /\ q.inFlight \in PeerMaps /\ d \in Peer \cup {NoPeer}
  BY QueuesIs DEF QueuesOK, PeerMaps
<1>1. CASE d = NoPeer
  <2>1. r = q
    BY <1>1 DEF Dequeued
  <2>2. q.toDownload = [q.toDownload EXCEPT ![h] = NoPeer]
    BY <1>0, <1>1 DEF PeerMaps
  <2> QED
    BY <1>1, <2>1, <2>2 DEF SameTimes, SameInFlight
<1>2. CASE d # NoPeer
  <2> DEFINE s == q.state[d]
             v == s.vBlocksToDownload
             it == CHOOSE i \in DOMAIN v : v[i] = h
             w == RemoveAt(v, it)
             t == SetToDownload(s, w, s.nBlocksToDownload - 1)
  <2>1. d \in Peer /\ s \in NodeStates /\ v \in Seq(Block) /\ s.nBlocksToDownload \in Int
    BY <1>0, <1>2, NodeStateIs
  <2>2. Lists(v, q.toDownload, d) /\ s.nBlocksToDownload = Len(v)
    BY <2>1 DEF QueuesOK, PeerOK
  <2>3. it \in 1..Len(v) /\ v[it] = h
    <3>1. DOMAIN v = 1..Len(v)
      BY <2>1
    <3>2. \E i \in 1..Len(v) : v[i] = h
      BY <2>2, Zenon DEF Lists
    <3>3. it \in DOMAIN v /\ v[it] = h
      BY <3>1, <3>2, Zenon
    <3> QED
      BY <3>1, <3>3, Zenon
  <2>4. w \in Seq(Block) /\ Len(w) = Len(v) - 1
    BY <2>1, <2>3, Removed
  <2>5. /\ t \in NodeStates /\ t.vBlocksToDownload = w
        /\ t.nBlocksToDownload = s.nBlocksToDownload - 1
        /\ SameTimes(s, t) /\ SameInFlight(s, t)
    <3>1. s.nBlocksToDownload - 1 \in Int
      BY <2>1
    <3>2. s \in NodeStates /\ w \in Seq(Block)
      BY <2>1, <2>4
    <3> HIDE DEF w, s
    <3> QED
      BY <3>1, <3>2, WriteToDownload
  <2>6. r = SetQueued(q, d, t, h, NoPeer)
    BY <1>2, Zenon DEF Dequeued, SetQueued, SetToDownload
  <2> HIDE DEF t, w, it
  <2>7. /\ r \in CQueues
        /\ r.state = [q.state EXCEPT ![d] = t]
        /\ r.toDownload = [q.toDownload EXCEPT ![h] = NoPeer]
        /\ r.inFlight = q.inFlight
    <3>1. /\ q \in CQueues /\ d \in Peer /\ t \in NodeStates /\ h \in Block
          /\ NoPeer \in Peer \cup {NoPeer}
      BY <1>0, <2>1, <2>5
    <3> HIDE DEF d, r, s, v
    <3>2. /\ SetQueued(q, d, t, h, NoPeer) \in CQueues
          /\ SetQueued(q, d, t, h, NoPeer).state = [q.state EXCEPT ![d] = t]
          /\ SetQueued(q, d, t, h, NoPeer).toDownload = [q.toDownload EXCEPT ![h] = NoPeer]
          /\ SetQueued(q, d, t, h, NoPeer).inFlight = q.inFlight
      BY <3>1 DEF CQueues, PeerMaps, SetQueued
    <3> QED
      BY <2>6, <3>2
  <2> HIDE DEF r, s, v
  <2>8. r.state[d] = t /\ \A p \in Peer : p # d => r.state[p] = q.state[p]
    BY <1>0, <2>1, <2>7
  <2>9. Lists(w, r.toDownload, d)
    BY <1>0, <2>1, <2>2, <2>3, <2>7, ListErase DEF w
  <2>10. ASSUME NEW p \in Peer PROVE PeerOK(r, p)
    <3>1. CASE p = d
      BY <3>1, <2>2, <2>4, <2>5, <2>7, <2>8, <2>9, <2>10 DEF PeerOK, QueuesOK, SameInFlight, s, v
    <3>2. CASE p # d
      <4>1. Lists(q.state[p].vBlocksToDownload, q.toDownload, p)
        BY <2>10 DEF QueuesOK, PeerOK
      <4>2. p # NoPeer
        BY BlockDownloadAssumption
      <4>3. Lists(q.state[p].vBlocksToDownload, [q.toDownload EXCEPT ![h] = NoPeer], p)
        BY <1>0, <3>2, <4>1, <4>2, ListSame, Zenon
      <4> QED
        BY <2>7, <2>8, <3>2, <4>3 DEF PeerOK, QueuesOK
    <3> QED
      BY <3>1, <3>2
  <2>11. \A k \in Block : r.toDownload[k] = NoPeer \/ r.inFlight[k] = NoPeer
    BY <1>0, <2>7 DEF QueuesOK, PeerMaps
  <2>12. QueuesOK(r)
    BY <2>7, <2>10, <2>11 DEF QueuesOK
  <2>13. ASSUME NEW p \in Peer
         PROVE  SameTimes(q.state[p], r.state[p]) /\ SameInFlight(q.state[p], r.state[p])
    BY <2>5, <2>8 DEF SameTimes, SameInFlight, s
  <2>14. Shortened(q.state[d].vBlocksToDownload, r.state[d].vBlocksToDownload, h)
    BY <2>3, <2>5, <2>8 DEF Shortened, s, v, w
  <2> QED
    BY <1>2, <2>7, <2>8, <2>12, <2>13, <2>14 DEF r
<1> QED
  BY <1>1, <1>2

\* Hashes commutes with erasing an entry.
LEMMA HashesErase ==
  ASSUME NEW v \in Seq(QueuedBlocks), NEW it \in 1..Len(v)
  PROVE  Hashes(RemoveAt(v, it)) = RemoveAt(Hashes(v), it)
<1> DEFINE a == RemoveAt(v, it)
           b == RemoveAt(Hashes(v), it)
<1>1. /\ a \in Seq(QueuedBlocks) /\ Len(a) = Len(v) - 1
      /\ \A j \in 1..(Len(v) - 1) : a[j] = IF j < it THEN v[j] ELSE v[j + 1]
  BY Removed
<1>2. /\ Hashes(v) \in Seq(Block) /\ Len(Hashes(v)) = Len(v) /\ Len(v) \in Nat
      /\ \A i \in 1..Len(v) : Hashes(v)[i] = v[i].hash
  BY HashesAre
<1>3. /\ b \in Seq(Block) /\ Len(b) = Len(v) - 1
      /\ \A j \in 1..(Len(v) - 1) : b[j] = IF j < it THEN Hashes(v)[j] ELSE Hashes(v)[j + 1]
  <2>1. it \in 1..Len(Hashes(v))
    BY <1>2
  <2> QED
    BY <1>2, <2>1, Removed
<1>4. /\ Hashes(a) \in Seq(Block) /\ Len(Hashes(a)) = Len(v) - 1
      /\ \A i \in 1..(Len(v) - 1) : Hashes(a)[i] = a[i].hash
  BY <1>1, HashesAre
<1> HIDE DEF a, b
<1>5. \A j \in 1..(Len(v) - 1) : Hashes(a)[j] = b[j]
  <2> TAKE j \in 1..(Len(v) - 1)
  <2>1. CASE j < it
    <3>0. j \in 1..Len(v)
      BY <1>2
    <3>1. a[j] = v[j]
      BY <2>1, <1>1
    <3>2. b[j] = Hashes(v)[j]
      BY <2>1, <1>3
    <3>3. Hashes(a)[j] = a[j].hash
      BY <1>4
    <3> QED
      BY <3>0, <3>1, <3>2, <3>3, <1>2
  <2>2. CASE ~(j < it)
    <3>1. j + 1 \in 1..Len(v)
      BY <1>2
    <3> QED
      BY <2>2, <3>1, <1>1, <1>2, <1>3, <1>4
  <2> QED
    BY <2>1, <2>2
<1>6. Hashes(a) = b
  BY <1>3, <1>4, <1>5
<1> QED
  BY <1>6 DEF a, b

\* The second half: the block leaves the list in flight, and only the peer it was requested from and comes from has its timer reset.
LEMMA ArrivedOK ==
  ASSUME NEW q, QueuesOK(q), NEW h \in Block, NEW from
  PROVE  LET r == Arrived(q, h, from)
             d == q.inFlight[h]
         IN /\ QueuesOK(r)
            /\ r.inFlight = [q.inFlight EXCEPT ![h] = NoPeer]
            /\ r.toDownload = q.toDownload
            /\ \A p \in Peer :
                 /\ p # d => r.state[p] = q.state[p]
                 /\ SameToDownload(q.state[p], r.state[p])
                 /\ r.state[p].nLastBlockProcess = q.state[p].nLastBlockProcess
                 /\ r.state[p].nBlocksInFlight <= q.state[p].nBlocksInFlight
                 /\ r.state[p].nLastBlockReceive =
                      IF p = d /\ p = from THEN 0 ELSE q.state[p].nLastBlockReceive
<1> DEFINE d == q.inFlight[h]
           r == Arrived(q, h, from)
<1>0. q \in CQueues /\ q.state \in [Peer -> NodeStates] /\ q.toDownload \in PeerMaps
      /\ q.inFlight \in PeerMaps /\ d \in Peer \cup {NoPeer}
  BY QueuesIs DEF QueuesOK, PeerMaps
<1>00. NoPeer \notin Peer
  BY BlockDownloadAssumption
<1>1. CASE d = NoPeer
  <2>1. r = q
    BY <1>1 DEF Arrived
  <2>2. q.inFlight = [q.inFlight EXCEPT ![h] = NoPeer]
    BY <1>0, <1>1 DEF PeerMaps
  <2>3. \A p \in Peer : q.state[p].nBlocksInFlight <= q.state[p].nBlocksInFlight
    BY <1>0, NodeStateIs
  <2> QED
    BY <1>00, <1>1, <2>1, <2>2, <2>3 DEF SameToDownload
<1>2. CASE d # NoPeer
  <2> DEFINE s == q.state[d]
             v == s.vBlocksInFlight
             it == CHOOSE i \in DOMAIN v : v[i].hash = h
             w == RemoveAt(v, it)
             z == IF d = from THEN 0 ELSE s.nLastBlockReceive
             t == SetInFlight(s, w, s.nBlocksInFlight - 1, z)
  <2>1. d \in Peer /\ s \in NodeStates /\ v \in Seq(QueuedBlocks) /\ s.nBlocksInFlight \in Int
        /\ z \in Nat
    BY <1>0, <1>2, NodeStateIs
  <2>2. Lists(Hashes(v), q.inFlight, d) /\ s.nBlocksInFlight = Len(v)
        /\ s.nBlocksInFlight <= MAX_BLOCKS_IN_TRANSIT_PER_PEER
    BY <2>1 DEF QueuesOK, PeerOK
  <2>3. it \in 1..Len(v) /\ v[it].hash = h
    <3>0. DOMAIN v = 1..Len(v) /\ Len(Hashes(v)) = Len(v)
      BY <2>1, HashesAre
    <3>1. \E i \in 1..Len(v) : Hashes(v)[i] = h
      BY <2>1, <2>2, <3>0 DEF Lists
    <3>2. \E i \in DOMAIN v : v[i].hash = h
      BY <2>1, <3>0, <3>1, HashesAre
    <3>3. it \in DOMAIN v /\ v[it].hash = h
      BY <3>2, Zenon
    <3> HIDE DEF it, v
    <3> QED
      BY <3>0, <3>3
  <2>4. w \in Seq(QueuedBlocks) /\ Len(w) = Len(v) - 1
    BY <2>1, <2>3, Removed
  <2>5. /\ t \in NodeStates /\ t.vBlocksInFlight = w
        /\ t.nBlocksInFlight = s.nBlocksInFlight - 1
        /\ t.nLastBlockReceive = z
        /\ t.nLastBlockProcess = s.nLastBlockProcess
        /\ SameToDownload(s, t)
    <3>1. s.nBlocksInFlight - 1 \in Int
      BY <2>1
    <3>2. s \in NodeStates /\ w \in Seq(QueuedBlocks) /\ z \in Nat
      BY <2>1, <2>4
    <3> HIDE DEF w, s, z
    <3> QED
      BY <3>1, <3>2, WriteInFlight
  <2>6. r = SetRequested(q, d, t, h, NoPeer)
    BY <1>2, Zenon DEF Arrived, SetRequested, SetInFlight
  <2> HIDE DEF t, w, it, z
  <2>7. /\ r \in CQueues
        /\ r.state = [q.state EXCEPT ![d] = t]
        /\ r.inFlight = [q.inFlight EXCEPT ![h] = NoPeer]
        /\ r.toDownload = q.toDownload
    <3>1. q \in CQueues /\ d \in Peer /\ t \in NodeStates /\ NoPeer \in Peer \cup {NoPeer}
      BY <1>0, <2>1, <2>5
    <3> HIDE DEF d, r, s, v
    <3>2. /\ SetRequested(q, d, t, h, NoPeer) \in CQueues
          /\ SetRequested(q, d, t, h, NoPeer).state = [q.state EXCEPT ![d] = t]
          /\ SetRequested(q, d, t, h, NoPeer).inFlight = [q.inFlight EXCEPT ![h] = NoPeer]
          /\ SetRequested(q, d, t, h, NoPeer).toDownload = q.toDownload
      BY <3>1 DEF CQueues, PeerMaps, SetRequested
    <3> QED
      BY <2>6, <3>2
  <2> HIDE DEF r, s, v
  <2>8. r.state[d] = t /\ \A p \in Peer : p # d => r.state[p] = q.state[p]
    BY <1>0, <2>1, <2>7
  <2>9. Lists(Hashes(w), r.inFlight, d)
    <3>1. it \in 1..Len(Hashes(v)) /\ Hashes(v)[it] = h
      BY <2>1, <2>3, HashesAre
    <3>2. Lists(RemoveAt(Hashes(v), it), [q.inFlight EXCEPT ![h] = NoPeer], d)
      BY <1>0, <2>1, <2>2, <3>1, ListErase
    <3>3. Hashes(w) = RemoveAt(Hashes(v), it)
      BY <2>1, <2>3, HashesErase DEF w
    <3> QED
      BY <3>2, <3>3, <2>7
  <2>10. ASSUME NEW p \in Peer PROVE PeerOK(r, p)
    <3>1. CASE p = d
      <4>1. s = q.state[p] /\ PeerOK(q, p) /\ r.state[p] = t
        BY <3>1, <2>8 DEF s, QueuesOK
      <4>2. Lists(t.vBlocksToDownload, r.toDownload, p) /\ t.nBlocksToDownload = Len(t.vBlocksToDownload)
        BY <4>1, <2>5, <2>7 DEF PeerOK, SameToDownload
      <4>3. Lists(Hashes(t.vBlocksInFlight), r.inFlight, p)
        BY <3>1, <2>5, <2>9
      <4>4. /\ t.nBlocksInFlight = Len(t.vBlocksInFlight)
            /\ t.nBlocksInFlight <= MAX_BLOCKS_IN_TRANSIT_PER_PEER
        BY <2>1, <2>2, <2>4, <2>5, BlockDownloadAssumption
      <4> QED
        BY <4>1, <4>2, <4>3, <4>4 DEF PeerOK
    <3>2. CASE p # d
      <4>1. Lists(Hashes(q.state[p].vBlocksInFlight), q.inFlight, p)
        BY <2>10 DEF QueuesOK, PeerOK
      <4>3. Lists(Hashes(q.state[p].vBlocksInFlight), [q.inFlight EXCEPT ![h] = NoPeer], p)
        BY <1>0, <1>00, <3>2, <4>1, ListSame, Zenon
      <4> QED
        BY <2>7, <2>8, <3>2, <4>3 DEF PeerOK, QueuesOK
    <3> QED
      BY <3>1, <3>2
  <2>11. \A k \in Block : r.toDownload[k] = NoPeer \/ r.inFlight[k] = NoPeer
    BY <1>0, <2>7 DEF QueuesOK, PeerMaps
  <2>12. QueuesOK(r)
    BY <2>7, <2>10, <2>11 DEF QueuesOK
  <2>13. ASSUME NEW p \in Peer
         PROVE  /\ SameToDownload(q.state[p], r.state[p])
                /\ r.state[p].nLastBlockProcess = q.state[p].nLastBlockProcess
                /\ r.state[p].nBlocksInFlight <= q.state[p].nBlocksInFlight
                /\ r.state[p].nLastBlockReceive =
                      IF p = d /\ p = from THEN 0 ELSE q.state[p].nLastBlockReceive
    <3>1. CASE p = d
      BY <3>1, <2>1, <2>5, <2>8 DEF s, z
    <3>2. CASE p # d
      <4>1. q.state[p].nBlocksInFlight \in Int
        BY <1>0, NodeStateIs
      <4> QED
        BY <3>2, <4>1, <2>8 DEF SameToDownload
    <3> QED
      BY <3>1, <3>2
  <2> QED
    BY <2>7, <2>8, <2>12, <2>13 DEF r
<1> QED
  BY <1>1, <1>2

SetScore(s, m, b) == [s EXCEPT !.nMisbehavior = m, !.fShouldBan = b]

\* Writing the score of a node state keeps the rest of it.
LEMMA WriteScore ==
  ASSUME NEW s \in NodeStates, NEW m \in Nat, NEW b \in BOOLEAN
  PROVE  /\ SetScore(s, m, b) \in NodeStates
         /\ SameTimes(s, SetScore(s, m, b)) /\ SameInFlight(s, SetScore(s, m, b))
         /\ SameToDownload(s, SetScore(s, m, b))
  BY DEF NodeStates, SameTimes, SameInFlight, SameToDownload, SetScore

\* The smaller of two integers.
LEMMA MinOf ==
  ASSUME NEW a \in Int, NEW b \in Int
  PROVE  Min({a, b}) \in {a, b} /\ Min({a, b}) <= a /\ Min({a, b}) <= b
<1>1. \E x \in {a, b} : \A y \in {a, b} : x <= y
  OBVIOUS
<1>2. Min({a, b}) \in {a, b} /\ \A y \in {a, b} : Min({a, b}) <= y
  BY <1>1, Zenon DEF Min
<1> QED
  BY <1>2

\* Misbehaving touches no queue and no timer.
LEMMA MisbehavingOK ==
  ASSUME NEW s \in NodeStates
  PROVE  /\ Misbehaving(s, 10) \in NodeStates
         /\ SameTimes(s, Misbehaving(s, 10)) /\ SameInFlight(s, Misbehaving(s, 10))
         /\ SameToDownload(s, Misbehaving(s, 10))
<1> DEFINE m == Min({s.nMisbehavior + 10, BanScore})
           b == s.fShouldBan \/ s.nMisbehavior + 10 >= BanScore
<1>0. s.nMisbehavior + 10 \in Nat /\ BanScore \in Nat
  BY NodeStateIs, BlockDownloadAssumption
<1>1. m \in Nat
  <2>0. s.nMisbehavior + 10 \in Int /\ BanScore \in Int
    BY <1>0
  <2>1. m \in {s.nMisbehavior + 10, BanScore}
    BY <2>0, MinOf, Zenon
  <2> QED
    BY <1>0, <2>1
<1>2. b \in BOOLEAN
  OBVIOUS
<1>3. Misbehaving(s, 10) = SetScore(s, m, b)
  BY Zenon DEF Misbehaving, SetScore
<1> HIDE DEF m, b
<1> QED
  BY <1>1, <1>2, <1>3, WriteScore, Zenon

SetState(q, p, t) == [q EXCEPT !.state[p] = t]

\* Writing one node state.
LEMMA WriteState ==
  ASSUME NEW q \in CQueues, NEW p \in Peer, NEW t \in NodeStates
  PROVE  /\ SetState(q, p, t) \in CQueues
         /\ SetState(q, p, t).state = [q.state EXCEPT ![p] = t]
         /\ SetState(q, p, t).toDownload = q.toDownload
         /\ SetState(q, p, t).inFlight = q.inFlight
  BY DEF CQueues, PeerMaps, SetState

\* Noting the time of a message touches no queue.
LEMMA ProcessedOK ==
  ASSUME NEW q, QueuesOK(q), NEW p \in Peer
  PROVE  LET r == Processed(q, p)
         IN /\ QueuesOK(r)
            /\ r.toDownload = q.toDownload /\ r.inFlight = q.inFlight
            /\ \A o \in Peer :
                 /\ SameToDownload(q.state[o], r.state[o])
                 /\ SameInFlight(q.state[o], r.state[o])
                 /\ r.state[o].nLastBlockReceive = q.state[o].nLastBlockReceive
<1> DEFINE s == q.state[p]
           t == [s EXCEPT !.nLastBlockProcess = 0]
           r == Processed(q, p)
<1>0. q \in CQueues /\ q.state \in [Peer -> NodeStates]
  BY QueuesIs DEF QueuesOK
<1>1. s \in NodeStates
  BY <1>0
<1>2. /\ t \in NodeStates /\ SameInFlight(s, t) /\ SameToDownload(s, t)
      /\ t.nLastBlockReceive = s.nLastBlockReceive
  <2> HIDE DEF s
  <2> QED
    BY <1>1 DEF NodeStates, SameInFlight, SameToDownload
<1>3. r = SetState(q, p, t)
  BY Zenon DEF Processed, SetState
<1> HIDE DEF t, r
<1>4. /\ r \in CQueues /\ r.state = [q.state EXCEPT ![p] = t]
      /\ r.toDownload = q.toDownload /\ r.inFlight = q.inFlight
  BY <1>0, <1>2, <1>3, WriteState
<1>5. r.state[p] = t /\ \A o \in Peer : o # p => r.state[o] = q.state[o]
  BY <1>0, <1>4
<1>6. ASSUME NEW o \in Peer
      PROVE  /\ SameToDownload(q.state[o], r.state[o])
             /\ SameInFlight(q.state[o], r.state[o])
             /\ r.state[o].nLastBlockReceive = q.state[o].nLastBlockReceive
  BY <1>2, <1>5 DEF SameToDownload, SameInFlight
<1>7. QueuesOK(r)
  BY <1>4, <1>6 DEF QueuesOK, PeerOK, SameToDownload, SameInFlight
<1> QED
  BY <1>4, <1>6, <1>7 DEF r

\* AddBlockToQueue keeps the lists and maps in agreement and touches nothing in flight.
LEMMA AddBlockToQueueOK ==
  ASSUME NEW q, QueuesOK(q), NEW p \in Peer, NEW h \in Block
  PROVE  LET r == AddBlockToQueue(q, p, h)
         IN /\ QueuesOK(r)
            /\ r.inFlight = q.inFlight
            /\ r.toDownload \in {q.toDownload, [q.toDownload EXCEPT ![h] = p]}
            /\ q.toDownload[h] # NoPeer => r.toDownload = q.toDownload
            /\ \A o \in Peer : /\ SameInFlight(q.state[o], r.state[o])
                               /\ SameTimes(q.state[o], r.state[o])
<1> DEFINE s0 == q.state[p]
           v == s0.vBlocksToDownload
           w == Append(v, h)
           n == s0.nBlocksToDownload + 1
           s == SetToDownload(s0, w, n)
           t == IF s.nBlocksToDownload > MaxToDownload THEN Misbehaving(s, 10) ELSE s
           r == AddBlockToQueue(q, p, h)
<1>0. q \in CQueues /\ q.state \in [Peer -> NodeStates] /\ q.toDownload \in PeerMaps
      /\ NoPeer \notin Peer
  BY QueuesIs, BlockDownloadAssumption DEF QueuesOK
<1>1. CASE q.toDownload[h] # NoPeer \/ q.inFlight[h] # NoPeer
  <2>1. r = q
    BY <1>1 DEF AddBlockToQueue
  <2> QED
    BY <2>1 DEF SameInFlight, SameTimes
<1>2. CASE q.toDownload[h] = NoPeer /\ q.inFlight[h] = NoPeer
  <2>1. s0 \in NodeStates /\ v \in Seq(Block) /\ s0.nBlocksToDownload \in Int
    BY <1>0, NodeStateIs
  <2>2. w \in Seq(Block) /\ n \in Int
        /\ Len(Append(v, h)) = Len(v) + 1
    BY <2>1
  <2>3. /\ s \in NodeStates /\ s.vBlocksToDownload = Append(v, h)
        /\ s.nBlocksToDownload = s0.nBlocksToDownload + 1
        /\ SameTimes(s0, s) /\ SameInFlight(s0, s)
    <3>0. s0 \in NodeStates /\ w \in Seq(Block) /\ n \in Int
      BY <2>1, <2>2
    <3> HIDE DEF s0, w, n
    <3>1. /\ s \in NodeStates /\ s.vBlocksToDownload = w /\ s.nBlocksToDownload = n
          /\ SameTimes(s0, s) /\ SameInFlight(s0, s)
      BY <3>0, WriteToDownload
    <3> QED
      BY <3>1 DEF w, n
  <2>4. r = SetQueued(q, p, t, h, p)
    BY <1>2, Zenon DEF AddBlockToQueue, SetQueued, SetToDownload
  <2> HIDE DEF s
  <2>5. /\ t \in NodeStates /\ SameToDownload(s, t) /\ SameTimes(s, t) /\ SameInFlight(s, t)
    BY <2>3, MisbehavingOK DEF SameToDownload, SameTimes, SameInFlight
  <2> HIDE DEF t, r
  <2>6. /\ r \in CQueues /\ r.state = [q.state EXCEPT ![p] = t]
        /\ r.toDownload = [q.toDownload EXCEPT ![h] = p] /\ r.inFlight = q.inFlight
    BY <1>0, <2>4, <2>5, WriteQueued
  <2>7. r.state[p] = t /\ \A o \in Peer : o # p => r.state[o] = q.state[o]
    BY <1>0, <2>6
  <2> HIDE DEF v
  <2>8. PeerOK(q, p) /\ s0 = q.state[p] /\ v = s0.vBlocksToDownload
    BY DEF QueuesOK, v
  <2> HIDE DEF s0
  <2>9. PeerOK(r, p)
    <3>1. Lists(Append(v, h), r.toDownload, p)
      BY <1>0, <1>2, <2>6, <2>8, ListAppend DEF PeerOK
    <3>2. t.vBlocksToDownload = Append(v, h) /\ t.nBlocksToDownload = Len(Append(v, h))
      BY <2>1, <2>2, <2>3, <2>5, <2>8 DEF SameToDownload, PeerOK
    <3>3. t.vBlocksInFlight = s0.vBlocksInFlight /\ t.nBlocksInFlight = s0.nBlocksInFlight
      BY <2>3, <2>5 DEF SameInFlight
    <3> QED
      BY <2>6, <2>7, <2>8, <3>1, <3>2, <3>3 DEF PeerOK
  <2>10. ASSUME NEW o \in Peer, o # p PROVE PeerOK(r, o)
    <3>1. PeerOK(q, o)
      BY DEF QueuesOK
    <3>2. Lists(q.state[o].vBlocksToDownload, q.toDownload, o) /\ q.toDownload[h] # o
      BY <1>0, <1>2, <3>1 DEF PeerOK
    <3>3. Lists(q.state[o].vBlocksToDownload, [q.toDownload EXCEPT ![h] = p], o)
      BY <1>0, <2>10, <3>2, ListSame, Zenon
    <3> QED
      BY <2>6, <2>7, <2>10, <3>1, <3>3 DEF PeerOK
  <2>11. \A k \in Block : r.toDownload[k] = NoPeer \/ r.inFlight[k] = NoPeer
    BY <1>0, <1>2, <2>6 DEF QueuesOK, PeerMaps
  <2>12. QueuesOK(r)
    BY <2>6, <2>9, <2>10, <2>11 DEF QueuesOK
  <2>13. ASSUME NEW o \in Peer
         PROVE  SameInFlight(q.state[o], r.state[o]) /\ SameTimes(q.state[o], r.state[o])
    BY <2>3, <2>5, <2>7, <2>8 DEF SameInFlight, SameTimes
  <2> QED
    BY <1>2, <2>6, <2>12, <2>13 DEF r
<1> QED
  BY <1>1, <1>2

\* Hashes commutes with appending an entry.
LEMMA HashesAppend ==
  ASSUME NEW v \in Seq(QueuedBlocks), NEW e \in QueuedBlocks
  PROVE  Hashes(Append(v, e)) = Append(Hashes(v), e.hash)
<1> DEFINE a == Append(v, e)
           b == Append(Hashes(v), e.hash)
<1>1. /\ a \in Seq(QueuedBlocks) /\ Len(a) = Len(v) + 1 /\ Len(v) \in Nat
      /\ \A i \in 1..Len(v) : a[i] = v[i]
      /\ a[Len(v) + 1] = e
  OBVIOUS
<1>2. /\ Hashes(v) \in Seq(Block) /\ Len(Hashes(v)) = Len(v)
      /\ \A i \in 1..Len(v) : Hashes(v)[i] = v[i].hash
  BY HashesAre
<1>3. e.hash \in Block
  BY DEF QueuedBlocks
<1>4. /\ b \in Seq(Block) /\ Len(b) = Len(v) + 1
      /\ \A i \in 1..Len(v) : b[i] = Hashes(v)[i]
      /\ b[Len(v) + 1] = e.hash
  BY <1>2, <1>3
<1>5. /\ Hashes(a) \in Seq(Block) /\ Len(Hashes(a)) = Len(a)
      /\ \A i \in 1..Len(a) : Hashes(a)[i] = a[i].hash
  BY <1>1, HashesAre
<1> HIDE DEF a, b
<1>6. \A i \in 1..(Len(v) + 1) : Hashes(a)[i] = b[i]
  <2> TAKE i \in 1..(Len(v) + 1)
  <2>1. Hashes(a)[i] = a[i].hash
    BY <1>1, <1>5
  <2>2. CASE i = Len(v) + 1
    BY <2>1, <2>2, <1>1, <1>4
  <2>3. CASE i # Len(v) + 1
    <3>1. i \in 1..Len(v)
      BY <1>1, <2>3
    <3> QED
      BY <2>1, <3>1, <1>1, <1>2, <1>4
  <2> QED
    BY <2>2, <2>3
<1>7. Hashes(a) = b
  BY <1>1, <1>4, <1>5, <1>6
<1> QED
  BY <1>7 DEF a, b

\* r is q after block h of the queue of p has been requested.
Requested(q, r, p, h) ==
  LET s == q.state[p]
      t == r.state[p]
  IN /\ QueuesOK(r)
     /\ r.toDownload = [q.toDownload EXCEPT ![h] = NoPeer]
     /\ r.inFlight = [q.inFlight EXCEPT ![h] = p]
     /\ \A o \in Peer : o # p => r.state[o] = q.state[o]
     /\ t.nLastBlockProcess = s.nLastBlockProcess
     /\ t.nBlocksInFlight = s.nBlocksInFlight + 1
     /\ t.nLastBlockReceive = IF s.nBlocksInFlight = 0 THEN 0 ELSE s.nLastBlockReceive
     /\ Shortened(s.vBlocksToDownload, t.vBlocksToDownload, h)

\* MarkBlockAsInFlight moves a block of the queue of p to its list in flight, as long as there is room.
LEMMA MarkBlockAsInFlightOK ==
  ASSUME NEW q, QueuesOK(q), NEW p \in Peer, NEW h \in Block, q.toDownload[h] = p,
         q.state[p].nBlocksInFlight < MAX_BLOCKS_IN_TRANSIT_PER_PEER
  PROVE  Requested(q, MarkBlockAsInFlight(q, p, h), p, h)
<1> DEFINE q1 == Dequeued(q, h)
           s == q1.state[p]
           e == [hash |-> h, nTime |-> 0]
           w == Append(s.vBlocksInFlight, e)
           z == IF s.nBlocksInFlight = 0 THEN 0 ELSE s.nLastBlockReceive
           t == SetInFlight(s, w, s.nBlocksInFlight + 1, z)
           r == MarkBlockAsInFlight(q, p, h)
<1>0. NoPeer \notin Peer /\ NoPeer \in Peer \cup {NoPeer}
      /\ MAX_BLOCKS_IN_TRANSIT_PER_PEER \in Nat
  BY BlockDownloadAssumption
<1>1. /\ QueuesOK(q1)
      /\ q1.toDownload = [q.toDownload EXCEPT ![h] = NoPeer]
      /\ q1.inFlight = q.inFlight
      /\ \A o \in Peer : o # p => q1.state[o] = q.state[o]
      /\ SameTimes(q.state[p], s) /\ SameInFlight(q.state[p], s)
      /\ Shortened(q.state[p].vBlocksToDownload, s.vBlocksToDownload, h)
  <2>1. /\ QueuesOK(q1)
        /\ q1.toDownload = [q.toDownload EXCEPT ![h] = NoPeer]
        /\ q1.inFlight = q.inFlight
        /\ \A o \in Peer : /\ o # q.toDownload[h] => q1.state[o] = q.state[o]
                           /\ SameTimes(q.state[o], q1.state[o])
                           /\ SameInFlight(q.state[o], q1.state[o])
    BY DequeuedOK
  <2>2. Shortened(q.state[q.toDownload[h]].vBlocksToDownload,
                  q1.state[q.toDownload[h]].vBlocksToDownload, h)
    <3>1. q.toDownload[h] # NoPeer
      BY <1>0
    <3> QED
      BY <3>1, DequeuedOK
  <2> HIDE DEF q1
  <2> QED
    BY <2>1, <2>2
<1>2. q.inFlight[h] = NoPeer
  BY <1>0 DEF QueuesOK
<1>3. MarkBlockAsReceived(q, h, NoPeer) = q1
  BY <1>1, <1>2 DEF MarkBlockAsReceived, Arrived
<1> HIDE DEF q1
<1>4. q1 \in CQueues /\ q1.state \in [Peer -> NodeStates] /\ q1.toDownload \in PeerMaps
      /\ q1.inFlight \in PeerMaps /\ s \in NodeStates /\ PeerOK(q1, p)
  <2>1. q1 \in CQueues
    BY <1>1 DEF QueuesOK
  <2> QED
    BY <1>1, <2>1, QueuesIs DEF QueuesOK
<1>5. /\ s.vBlocksInFlight \in Seq(QueuedBlocks) /\ s.nBlocksInFlight \in Int
      /\ s.nLastBlockReceive \in Nat /\ z \in Nat /\ e \in QueuedBlocks /\ e.hash = h
  BY <1>4, NodeStateIs DEF QueuedBlocks
<1>6. r = SetRequested(q1, p, t, h, p)
  BY <1>3, Zenon DEF MarkBlockAsInFlight, SetRequested, SetInFlight
<1> HIDE DEF e, z, r
<1>7. w \in Seq(QueuedBlocks) /\ Len(w) = Len(s.vBlocksInFlight) + 1 /\ s.nBlocksInFlight + 1 \in Int
  BY <1>5
<1> HIDE DEF w
<1>8. /\ t \in NodeStates /\ t.vBlocksInFlight = w
      /\ t.nBlocksInFlight = s.nBlocksInFlight + 1 /\ t.nLastBlockReceive = z
      /\ t.nLastBlockProcess = s.nLastBlockProcess /\ SameToDownload(s, t)
  <2> HIDE DEF s
  <2> QED
    BY <1>4, <1>5, <1>7, WriteInFlight
<1> HIDE DEF t
<1>9. /\ r \in CQueues /\ r.state = [q1.state EXCEPT ![p] = t]
      /\ r.inFlight = [q1.inFlight EXCEPT ![h] = p] /\ r.toDownload = q1.toDownload
  BY <1>4, <1>6, <1>8, WriteRequested
<1>10. r.state[p] = t /\ \A o \in Peer : o # p => r.state[o] = q.state[o]
  BY <1>1, <1>4, <1>9
<1>11. s.nBlocksInFlight = q.state[p].nBlocksInFlight
       /\ s.nLastBlockReceive = q.state[p].nLastBlockReceive
       /\ s.nLastBlockProcess = q.state[p].nLastBlockProcess
  BY <1>1 DEF SameTimes, SameInFlight
<1>12. PeerOK(r, p)
  <2>1. Lists(Hashes(s.vBlocksInFlight), q1.inFlight, p) /\ q1.inFlight[h] = NoPeer
    BY <1>1, <1>2, <1>4 DEF PeerOK
  <2>2. Lists(Append(Hashes(s.vBlocksInFlight), h), [q1.inFlight EXCEPT ![h] = p], p)
    BY <1>4, <2>1, ListAppend, Zenon
  <2>3. Hashes(w) = Append(Hashes(s.vBlocksInFlight), h)
    BY <1>5, HashesAppend DEF w
  <2>4. Lists(Hashes(t.vBlocksInFlight), r.inFlight, p)
    BY <1>8, <1>9, <2>2, <2>3
  <2>5. Lists(t.vBlocksToDownload, r.toDownload, p) /\ t.nBlocksToDownload = Len(t.vBlocksToDownload)
    BY <1>4, <1>8, <1>9 DEF PeerOK, SameToDownload
  <2>6. t.nBlocksInFlight = Len(t.vBlocksInFlight)
        /\ t.nBlocksInFlight <= MAX_BLOCKS_IN_TRANSIT_PER_PEER
    <3>1. s.nBlocksInFlight = Len(s.vBlocksInFlight)
      BY <1>4 DEF PeerOK
    <3> QED
      BY <3>1, <1>0, <1>5, <1>7, <1>8, <1>11
  <2> QED
    BY <1>10, <2>4, <2>5, <2>6 DEF PeerOK
<1>13. ASSUME NEW o \in Peer, o # p PROVE PeerOK(r, o)
  <2>1. PeerOK(q1, o)
    BY <1>1 DEF QueuesOK
  <2>2. Lists(Hashes(q1.state[o].vBlocksInFlight), q1.inFlight, o) /\ q1.inFlight[h] # o
    BY <1>0, <1>1, <1>2, <2>1 DEF PeerOK
  <2>3. Lists(Hashes(q1.state[o].vBlocksInFlight), [q1.inFlight EXCEPT ![h] = p], o)
    BY <1>4, <1>13, <2>2, ListSame, Zenon
  <2>4. r.state[o] = q1.state[o]
    BY <1>1, <1>10, <1>13
  <2> QED
    BY <1>9, <2>1, <2>3, <2>4 DEF PeerOK
<1>14. \A k \in Block : r.toDownload[k] = NoPeer \/ r.inFlight[k] = NoPeer
  <2>1. q.toDownload \in PeerMaps
    BY QueuesIs DEF QueuesOK
  <2>2. \A k \in Block : q1.toDownload[k] = NoPeer \/ q1.inFlight[k] = NoPeer
    BY <1>1 DEF QueuesOK
  <2>3. q1.toDownload[h] = NoPeer
    BY <1>1, <2>1 DEF PeerMaps
  <2> QED
    BY <1>4, <1>9, <2>2, <2>3 DEF PeerMaps
<1>15. QueuesOK(r)
  BY <1>9, <1>12, <1>13, <1>14 DEF QueuesOK
<1>16. r.toDownload = [q.toDownload EXCEPT ![h] = NoPeer] /\ r.inFlight = [q.inFlight EXCEPT ![h] = p]
  BY <1>1, <1>9
<1>17. Shortened(q.state[p].vBlocksToDownload, r.state[p].vBlocksToDownload, h)
  BY <1>1, <1>8, <1>10 DEF SameToDownload
<1>18. /\ r.state[p].nLastBlockProcess = q.state[p].nLastBlockProcess
       /\ r.state[p].nBlocksInFlight = q.state[p].nBlocksInFlight + 1
       /\ r.state[p].nLastBlockReceive =
            IF q.state[p].nBlocksInFlight = 0 THEN 0 ELSE q.state[p].nLastBlockReceive
  BY <1>8, <1>10, <1>11 DEF z
<1> QED
  BY <1>10, <1>15, <1>16, <1>17, <1>18 DEF r, Requested
-----------------------------------------------------------------------------
(* The request loop *)

\* f[k] is the state of the queues after k rounds of the loop.
Rounds(f, q, p, v, n) ==
  f = [k \in 0..n |-> IF k = 0 THEN q ELSE MarkBlockAsInFlight(f[k - 1], p, v[k])]

\* A non-empty set of natural numbers has a least element.
LEMMA LeastNat ==
  ASSUME NEW B, B \subseteq Nat, B # {}
  PROVE  \E m \in B : \A x \in B : ~(x < m)
<1> DEFINE R == {ss \in Nat \X Nat : ss[1] < ss[2]}
<1>1. IsWellFoundedOn(R, Nat)
  BY NatLessThanWellFounded, Zenon DEF OpToRel
<1>2. \E m \in B : \A x \in B : ~(<<x, m>> \in R)
  <2> HIDE DEF R
  <2> QED
    BY <1>1, WFMin, Zenon
<1> QED
  BY <1>2

\* The loop is well defined for any number of rounds.
LEMMA RoundsExist ==
  ASSUME NEW q, NEW p, NEW v, NEW n \in Nat
  PROVE  \E f : Rounds(f, q, p, v, n)
<1> DEFINE B == {m \in Nat : ~ \E f : Rounds(f, q, p, v, m)}
<1>1. SUFFICES ASSUME B # {} PROVE FALSE
  OBVIOUS
<1>2. PICK m \in B : \A x \in B : ~(x < m)
  BY <1>1, LeastNat, Zenon
<1>3. CASE m = 0
  <2>1. Rounds([k \in 0..0 |-> q], q, p, v, 0)
    BY DEF Rounds
  <2> QED
    BY <1>2, <1>3, <2>1
<1>4. CASE m # 0
  <2>1. m - 1 \in Nat /\ m - 1 < m /\ m \in Nat
    BY <1>4
  <2>2. m - 1 \notin B
    BY <1>2, <2>1
  <2>3. PICK g : Rounds(g, q, p, v, m - 1)
    BY <2>1, <2>2
  <2> DEFINE f == [k \in 0..m |-> IF k = m THEN MarkBlockAsInFlight(g[m - 1], p, v[m])
                                  ELSE g[k]]
  <2>4. \A k \in 0..(m - 1) : g[k] = IF k = 0 THEN q ELSE MarkBlockAsInFlight(g[k - 1], p, v[k])
    <3> DEFINE F(k) == IF k = 0 THEN q ELSE MarkBlockAsInFlight(g[k - 1], p, v[k])
    <3>1. g = [k \in 0..(m - 1) |-> F(k)]
      BY <2>3 DEF Rounds
    <3> HIDE DEF F
    <3>2. \A k \in 0..(m - 1) : g[k] = F(k)
      BY <3>1
    <3> QED
      BY <3>2 DEF F
  <2>5. ASSUME NEW k \in 0..m
        PROVE  f[k] = IF k = 0 THEN q ELSE MarkBlockAsInFlight(f[k - 1], p, v[k])
    <3>1. CASE k = m
      <4>1. f[k - 1] = g[k - 1] /\ f[k] = MarkBlockAsInFlight(g[m - 1], p, v[m])
        BY <3>1, <2>1
      <4> QED
        BY <3>1, <4>1, <1>4
    <3>2. CASE k # m /\ k = 0
      BY <3>2, <2>1, <2>4
    <3>3. CASE k # m /\ k # 0
      <4>1. k \in 0..(m - 1) /\ k - 1 \in 0..m /\ k - 1 # m
        BY <3>3, <2>1
      <4>2. f[k] = g[k] /\ f[k - 1] = g[k - 1]
        BY <3>3, <4>1
      <4> QED
        BY <3>3, <4>1, <4>2, <2>4
    <3> QED
      BY <3>1, <3>2, <3>3
  <2>6. f = [k \in 0..m |-> f[k]]
    OBVIOUS
  <2> HIDE DEF f
  <2>7. Rounds(f, q, p, v, m)
    BY <2>5, <2>6 DEF Rounds
  <2> QED
    BY <2>7
<1> QED
  BY <1>3, <1>4

\* What k rounds have done: the first k blocks of the queue of p are in flight.
Moved(a, q, p, k) ==
  LET s == q.state[p]
      t == a.state[p]
  IN /\ QueuesOK(a)
     /\ Len(t.vBlocksToDownload) = Len(s.vBlocksToDownload) - k
     /\ \A j \in 1..(Len(s.vBlocksToDownload) - k) :
          t.vBlocksToDownload[j] = s.vBlocksToDownload[k + j]
     /\ t.nBlocksInFlight = s.nBlocksInFlight + k
     /\ t.nLastBlockProcess = s.nLastBlockProcess
     /\ t.nLastBlockReceive = IF k # 0 /\ s.nBlocksInFlight = 0 THEN 0
                              ELSE s.nLastBlockReceive
     /\ \A o \in Peer : o # p => a.state[o] = q.state[o]
     /\ \A h \in Block :
          /\ a.toDownload[h] \in {q.toDownload[h], NoPeer}
          /\ a.inFlight[h] \in {q.inFlight[h], p}
          /\ q.toDownload[h] # NoPeer \/ q.inFlight[h] # NoPeer =>
             a.toDownload[h] # NoPeer \/ a.inFlight[h] # NoPeer

\* One more round of the loop.
LEMMA Round ==
  ASSUME NEW q, QueuesOK(q), NEW p \in Peer, NEW k \in Nat,
         k + 1 <= Len(q.state[p].vBlocksToDownload),
         q.state[p].nBlocksInFlight + k < MAX_BLOCKS_IN_TRANSIT_PER_PEER,
         NEW a, Moved(a, q, p, k)
  PROVE  Moved(MarkBlockAsInFlight(a, p, q.state[p].vBlocksToDownload[k + 1]), q, p, k + 1)
<1> DEFINE s == q.state[p]
           t == a.state[p]
           v == s.vBlocksToDownload
           w == t.vBlocksToDownload
           h == v[k + 1]
           r == MarkBlockAsInFlight(a, p, h)
           u == r.state[p]
<1>0. s \in NodeStates /\ v \in Seq(Block) /\ Len(v) \in Nat /\ s.nBlocksInFlight \in Int
      /\ q.toDownload \in PeerMaps /\ q.inFlight \in PeerMaps /\ NoPeer \notin Peer
  <2>1. q \in CQueues
    BY DEF QueuesOK
  <2>2. s \in NodeStates /\ q.toDownload \in PeerMaps /\ q.inFlight \in PeerMaps
    BY <2>1, QueuesIs
  <2> QED
    BY <2>2, NodeStateIs, BlockDownloadAssumption
<1>1. /\ QueuesOK(a) /\ Len(w) = Len(v) - k
      /\ \A j \in 1..(Len(v) - k) : w[j] = v[k + j]
      /\ t.nBlocksInFlight = s.nBlocksInFlight + k
  BY DEF Moved
<1>2. a \in CQueues /\ a.toDownload \in PeerMaps /\ a.inFlight \in PeerMaps
      /\ w \in Seq(Block) /\ PeerOK(a, p)
  <2>1. a \in CQueues
    BY <1>1 DEF QueuesOK
  <2>2. t \in NodeStates /\ a.toDownload \in PeerMaps /\ a.inFlight \in PeerMaps
    BY <2>1, QueuesIs
  <2> QED
    BY <1>1, <2>1, <2>2, NodeStateIs DEF QueuesOK
<1>3. 1 \in 1..Len(w) /\ h = w[1] /\ h \in Block
  BY <1>0, <1>1, <1>2
<1>4. a.toDownload[h] = p
  BY <1>2, <1>3 DEF PeerOK, Lists
<1>5. t.nBlocksInFlight < MAX_BLOCKS_IN_TRANSIT_PER_PEER
  BY <1>1
<1>6. /\ QueuesOK(r)
      /\ r.toDownload = [a.toDownload EXCEPT ![h] = NoPeer]
      /\ r.inFlight = [a.inFlight EXCEPT ![h] = p]
      /\ \A o \in Peer : o # p => r.state[o] = a.state[o]
      /\ u.nLastBlockProcess = t.nLastBlockProcess
      /\ u.nBlocksInFlight = t.nBlocksInFlight + 1
      /\ u.nLastBlockReceive = IF t.nBlocksInFlight = 0 THEN 0 ELSE t.nLastBlockReceive
      /\ Shortened(w, u.vBlocksToDownload, h)
  <2>1. QueuesOK(a) /\ h \in Block /\ a.toDownload[h] = p
        /\ a.state[p].nBlocksInFlight < MAX_BLOCKS_IN_TRANSIT_PER_PEER
    BY <1>1, <1>3, <1>4, <1>5
  <2> HIDE DEF h
  <2>2. Requested(a, r, p, h)
    BY <2>1, MarkBlockAsInFlightOK
  <2> HIDE DEF r
  <2> QED
    BY <2>2 DEF Requested
<1> HIDE DEF r
<1>7. u.vBlocksToDownload = RemoveAt(w, 1)
  <2>1. PICK i \in 1..Len(w) : w[i] = h /\ u.vBlocksToDownload = RemoveAt(w, i)
    BY <1>6 DEF Shortened
  <2>2. \A x, y \in 1..Len(w) : w[x] = w[y] => x = y
    BY <1>2 DEF PeerOK, Lists
  <2>3. i = 1
    BY <1>3, <2>1, <2>2
  <2> QED
    BY <2>1, <2>3
<1>8. /\ Len(RemoveAt(w, 1)) = Len(w) - 1
      /\ \A j \in 1..(Len(w) - 1) : RemoveAt(w, 1)[j] = w[j + 1]
  <2> HIDE DEF w
  <2>1. /\ Len(RemoveAt(w, 1)) = Len(w) - 1
        /\ \A j \in 1..(Len(w) - 1) : RemoveAt(w, 1)[j] = IF j < 1 THEN w[j] ELSE w[j + 1]
    BY <1>2, <1>3, Removed
  <2>2. \A j \in 1..(Len(w) - 1) : ~(j < 1)
    OBVIOUS
  <2> QED
    BY <2>1, <2>2
<1>9. Len(u.vBlocksToDownload) = Len(v) - (k + 1)
  BY <1>0, <1>1, <1>7, <1>8
<1>10. ASSUME NEW j \in 1..(Len(v) - (k + 1))
       PROVE  u.vBlocksToDownload[j] = v[(k + 1) + j]
  <2>1. j + 1 \in 1..(Len(v) - k) /\ j \in 1..(Len(w) - 1) /\ k + (j + 1) = (k + 1) + j
    BY <1>0, <1>1
  <2> QED
    BY <2>1, <1>1, <1>7, <1>8
<1>11. u.nBlocksInFlight = s.nBlocksInFlight + (k + 1)
  <2> HIDE DEF s, t, u
  <2> QED
    BY <1>0, <1>1, <1>6
<1>12. u.nLastBlockProcess = s.nLastBlockProcess
  BY <1>6 DEF Moved
<1>13. u.nLastBlockReceive = IF k + 1 # 0 /\ s.nBlocksInFlight = 0 THEN 0 ELSE s.nLastBlockReceive
  <2>1. t.nLastBlockReceive = IF k # 0 /\ s.nBlocksInFlight = 0 THEN 0 ELSE s.nLastBlockReceive
    BY DEF Moved
  <2>2. s.nBlocksInFlight >= 0
    <3>1. s.nBlocksInFlight = Len(s.vBlocksInFlight) /\ s.vBlocksInFlight \in Seq(QueuedBlocks)
      BY <1>0, NodeStateIs DEF QueuesOK, PeerOK
    <3> QED
      BY <3>1
  <2> QED
    BY <2>1, <2>2, <1>0, <1>1, <1>6
<1>14. \A o \in Peer : o # p => r.state[o] = q.state[o]
  BY <1>6 DEF Moved
<1>15. ASSUME NEW g \in Block
       PROVE  /\ r.toDownload[g] \in {q.toDownload[g], NoPeer}
              /\ r.inFlight[g] \in {q.inFlight[g], p}
              /\ q.toDownload[g] # NoPeer \/ q.inFlight[g] # NoPeer =>
                 r.toDownload[g] # NoPeer \/ r.inFlight[g] # NoPeer
  <2>1. /\ a.toDownload[g] \in {q.toDownload[g], NoPeer}
        /\ a.inFlight[g] \in {q.inFlight[g], p}
        /\ q.toDownload[g] # NoPeer \/ q.inFlight[g] # NoPeer =>
           a.toDownload[g] # NoPeer \/ a.inFlight[g] # NoPeer
    BY DEF Moved
  <2>2. r.toDownload[g] = (IF g = h THEN NoPeer ELSE a.toDownload[g])
        /\ r.inFlight[g] = (IF g = h THEN p ELSE a.inFlight[g])
    BY <1>2, <1>3, <1>6 DEF PeerMaps
  <2> QED
    BY <2>1, <2>2, <1>0
<1>16. Moved(r, q, p, k + 1)
  BY <1>6, <1>9, <1>10, <1>11, <1>12, <1>13, <1>14, <1>15 DEF Moved
<1> QED
  BY <1>16 DEF r

\* The larger of two integers.
LEMMA MaxOf ==
  ASSUME NEW a \in Int, NEW b \in Int
  PROVE  Max({a, b}) \in {a, b} /\ Max({a, b}) >= a /\ Max({a, b}) >= b
<1>1. \E x \in {a, b} : \A y \in {a, b} : x >= y
  OBVIOUS
<1>2. Max({a, b}) \in {a, b} /\ \A y \in {a, b} : Max({a, b}) >= y
  BY <1>1, Zenon DEF Max
<1> QED
  BY <1>2

\* The whole loop has moved some number of blocks from the front of the queue.
LEMMA GetDataOK ==
  ASSUME NEW q, QueuesOK(q), NEW p \in Peer
  PROVE  \E k \in Nat : Moved(GetData(q, p), q, p, k)
<1> DEFINE s == q.state[p]
           v == s.vBlocksToDownload
           room == MAX_BLOCKS_IN_TRANSIT_PER_PEER - s.nBlocksInFlight
           most == Max({0, room})
           n == Min({s.nBlocksToDownload, most})
           f == CHOOSE g : Rounds(g, q, p, v, n)
<1>1. /\ s \in NodeStates /\ v \in Seq(Block) /\ s.nBlocksToDownload = Len(v) /\ Len(v) \in Nat
      /\ s.nBlocksInFlight \in Int /\ s.nBlocksInFlight <= MAX_BLOCKS_IN_TRANSIT_PER_PEER
      /\ MAX_BLOCKS_IN_TRANSIT_PER_PEER \in Nat
  <2>1. q \in CQueues /\ PeerOK(q, p)
    BY DEF QueuesOK
  <2>2. s \in NodeStates
    BY <2>1, QueuesIs
  <2> QED
    BY <2>1, <2>2, NodeStateIs, BlockDownloadAssumption DEF PeerOK
<1>2. most = room
  <2>1. room \in Int /\ room >= 0 /\ 0 \in Int
    BY <1>1
  <2> HIDE DEF room
  <2>2. most \in {0, room} /\ most >= 0 /\ most >= room
    BY <2>1, MaxOf, Zenon
  <2> QED
    BY <2>1, <2>2
<1>3. n \in Nat /\ n <= Len(v) /\ n <= room
  <2>1. room \in Nat /\ most \in Int /\ s.nBlocksToDownload \in Int
    BY <1>1, <1>2
  <2> HIDE DEF most
  <2>2. n \in {s.nBlocksToDownload, most} /\ n <= s.nBlocksToDownload /\ n <= most
    BY <2>1, MinOf, Zenon
  <2> HIDE DEF n, room
  <2> QED
    BY <1>1, <1>2, <2>1, <2>2
<1>4. GetData(q, p) = f[n]
  BY Zenon DEF GetData, Rounds
<1> HIDE DEF n
<1>5. Rounds(f, q, p, v, n)
  <2>1. \E g : Rounds(g, q, p, v, n)
    BY <1>3, RoundsExist
  <2> QED
    BY <2>1, Zenon
<1> HIDE DEF f
<1>6. \A k \in 0..n : f[k] = IF k = 0 THEN q ELSE MarkBlockAsInFlight(f[k - 1], p, v[k])
  <2> DEFINE F(k) == IF k = 0 THEN q ELSE MarkBlockAsInFlight(f[k - 1], p, v[k])
  <2>1. f = [k \in 0..n |-> F(k)]
    BY <1>5 DEF Rounds
  <2> HIDE DEF F
  <2>2. \A k \in 0..n : f[k] = F(k)
    BY <2>1
  <2> QED
    BY <2>2 DEF F
<1> DEFINE B == {k \in 0..n : ~Moved(f[k], q, p, k)}
<1>7. B = {}
  <2>1. SUFFICES ASSUME B # {} PROVE FALSE
    OBVIOUS
  <2>2. PICK m \in B : \A x \in B : ~(x < m)
    <3>1. B \subseteq Nat
      BY <1>3
    <3> HIDE DEF B
    <3> QED
      BY <2>1, <3>1, LeastNat
  <2>3. CASE m = 0
    <3>1. f[m] = q
      BY <1>3, <1>6, <2>3
    <3>2. Moved(q, q, p, 0)
      BY <1>1 DEF Moved
    <3> QED
      BY <2>2, <2>3, <3>1, <3>2
  <2>4. CASE m # 0
    <3>1. m \in 0..n /\ m - 1 \in 0..n /\ m - 1 < m /\ m - 1 \in Nat /\ (m - 1) + 1 = m
      BY <1>3, <2>4
    <3>2. Moved(f[m - 1], q, p, m - 1)
      BY <2>2, <3>1
    <3>3. (m - 1) + 1 <= Len(v) /\ s.nBlocksInFlight + (m - 1) < MAX_BLOCKS_IN_TRANSIT_PER_PEER
      BY <1>1, <1>3, <3>1
    <3>4. Moved(MarkBlockAsInFlight(f[m - 1], p, v[(m - 1) + 1]), q, p, (m - 1) + 1)
      BY <3>1, <3>2, <3>3, Round
    <3>5. f[m] = MarkBlockAsInFlight(f[m - 1], p, v[m])
      BY <1>6, <2>4, <3>1
    <3> QED
      BY <2>2, <3>1, <3>4, <3>5
  <2> QED
    BY <2>3, <2>4
<1>8. Moved(f[n], q, p, n)
  BY <1>3, <1>7
<1> QED
  BY <1>3, <1>4, <1>8

\* "block": both lists lose the block.
Received(q, r, h, from) ==
  /\ QueuesOK(r)
  /\ r.toDownload = [q.toDownload EXCEPT ![h] = NoPeer]
  /\ r.inFlight = [q.inFlight EXCEPT ![h] = NoPeer]
  /\ \A p \in Peer :
       /\ r.state[p].nBlocksInFlight <= q.state[p].nBlocksInFlight
       /\ r.state[p].nLastBlockReceive =
            IF p = q.inFlight[h] /\ p = from THEN 0 ELSE q.state[p].nLastBlockReceive

\* MarkBlockAsReceived takes the block out of both maps and out of whosever lists they name.
LEMMA MarkBlockAsReceivedOK ==
  ASSUME NEW q, QueuesOK(q), NEW h \in Block, NEW from
  PROVE  Received(q, MarkBlockAsReceived(q, h, from), h, from)
<1> DEFINE q1 == Dequeued(q, h)
           r == Arrived(q1, h, from)
<1>1. /\ QueuesOK(q1)
      /\ q1.toDownload = [q.toDownload EXCEPT ![h] = NoPeer]
      /\ q1.inFlight = q.inFlight
      /\ \A p \in Peer : SameTimes(q.state[p], q1.state[p]) /\ SameInFlight(q.state[p], q1.state[p])
  BY DequeuedOK
<1> HIDE DEF q1
<1>2. /\ QueuesOK(r)
      /\ r.inFlight = [q1.inFlight EXCEPT ![h] = NoPeer]
      /\ r.toDownload = q1.toDownload
      /\ \A p \in Peer :
           /\ r.state[p].nBlocksInFlight <= q1.state[p].nBlocksInFlight
           /\ r.state[p].nLastBlockReceive =
                IF p = q1.inFlight[h] /\ p = from THEN 0 ELSE q1.state[p].nLastBlockReceive
  BY <1>1, ArrivedOK
<1> HIDE DEF r
<1>3. Received(q, r, h, from)
  BY <1>1, <1>2 DEF Received, SameTimes, SameInFlight
<1> QED
  BY <1>3 DEF MarkBlockAsReceived, q1, r
-----------------------------------------------------------------------------
(* The inductive invariant *)

Conns == {"new", "up", "banned", "stalled", "closed", "gone"}

\* The maps name peers whose node exists.
MapsLive ==
  \A h \in Block, p \in Peer :
    p \in {mapBlocksToDownload[h], mapBlocksInFlight[h]} => conn[p] = "up" \/ fDisconnect(p)

\* While p has blocks in flight, nLastBlockReceive is as old as its wait.
TimersOK ==
  \A p \in Peer :
    /\ conn[p] \in {"new", "up"} /\ state[p].nBlocksInFlight = 0 => waiting[p] = 0
    /\ conn[p] = "up" /\ state[p].nBlocksInFlight # 0 =>
         waiting[p] = state[p].nLastBlockReceive

IInv ==
  /\ conn \in [Peer -> Conns] /\ waiting \in [Peer -> Nat]
  /\ QueuesOK(Queues)
  /\ MapsLive
  /\ TimersOK

\* The parts of the queues are the variables.
LEMMA QueuesParts ==
  /\ Queues.state = state /\ Queues.toDownload = mapBlocksToDownload
  /\ Queues.inFlight = mapBlocksInFlight
  BY DEF Queues

\* SetQueues makes the queues what it is given.
LEMMA SetQueuesOK ==
  ASSUME NEW r, QueuesOK(r), SetQueues(r)
  PROVE  Queues' = r
<1>1. r = [state |-> r.state, toDownload |-> r.toDownload, inFlight |-> r.inFlight]
  BY DEF QueuesOK, CQueues
<1> QED
  BY <1>1, Zenon DEF SetQueues, Queues

\* The counter of blocks in flight is zero exactly when the list is empty.
LEMMA EmptyLists ==
  ASSUME NEW q, QueuesOK(q), NEW p \in Peer
  PROVE  /\ q.state[p].nBlocksInFlight \in Nat
         /\ q.state[p].nBlocksInFlight = 0 <=> q.state[p].vBlocksInFlight = <<>>
<1>1. q.state[p] \in NodeStates /\ PeerOK(q, p)
  BY QueuesIs DEF QueuesOK
<1> QED
  BY <1>1, NodeStateIs DEF PeerOK

\* A CNodeState as constructed has empty lists.
LEMMA NewNodeState ==
  /\ CNodeState \in NodeStates
  /\ CNodeState.vBlocksToDownload = <<>> /\ CNodeState.nBlocksToDownload = 0
  /\ CNodeState.vBlocksInFlight = <<>> /\ CNodeState.nBlocksInFlight = 0
<1>1. MaxAge \in Nat /\ 0 \in Nat /\ 0 \in Int /\ FALSE \in BOOLEAN
      /\ <<>> \in Seq(Block) /\ <<>> \in Seq(QueuedBlocks)
  BY BlockDownloadAssumption
<1> QED
  BY <1>1 DEF CNodeState, NodeStates

\* The empty list agrees with a map that gives p nothing.
LEMMA EmptyIsListed ==
  ASSUME NEW f, NEW p \in Peer, \A h \in Block : f[h] # p
  PROVE  Lists(<<>>, f, p)
  BY DEF Lists

\* A new node state agrees with maps that do not mention its peer.
LEMMA FreshPeerOK ==
  ASSUME NEW q, NEW p \in Peer, q.state[p] = CNodeState,
         \A h \in Block : q.toDownload[h] # p /\ q.inFlight[h] # p
  PROVE  PeerOK(q, p)
<1>1. Hashes(<<>>) = <<>> /\ Len(<<>>) = 0
  BY DEF Hashes
<1>2. Lists(<<>>, q.toDownload, p) /\ Lists(<<>>, q.inFlight, p)
  BY EmptyIsListed
<1> QED
  BY <1>1, <1>2, NewNodeState, BlockDownloadAssumption DEF PeerOK

\* The invariant holds before any peer connects.
LEMMA InitInv == Init => IInv
<1> SUFFICES ASSUME Init PROVE IInv
  OBVIOUS
<1>1. state = [p \in Peer |-> CNodeState] /\ mapBlocksToDownload = [h \in Block |-> NoPeer]
      /\ mapBlocksInFlight = [h \in Block |-> NoPeer] /\ NoPeer \notin Peer
  BY BlockDownloadAssumption DEF Init
<1>2. Queues \in CQueues
  BY <1>1, NewNodeState DEF Queues, CQueues, PeerMaps
<1>3. ASSUME NEW p \in Peer PROVE PeerOK(Queues, p)
  <2>1. Queues.state[p] = CNodeState
    BY <1>1, QueuesParts
  <2>2. \A h \in Block : Queues.toDownload[h] # p /\ Queues.inFlight[h] # p
    BY <1>1, QueuesParts
  <2> QED
    BY <2>1, <2>2, FreshPeerOK
<1>4. \A h \in Block : Queues.toDownload[h] = NoPeer \/ Queues.inFlight[h] = NoPeer
  BY <1>1, QueuesParts
<1>5. QueuesOK(Queues)
  BY <1>2, <1>3, <1>4 DEF QueuesOK
<1>6. conn \in [Peer -> Conns] /\ waiting \in [Peer -> Nat]
  BY DEF Init, Conns
<1>7. MapsLive
  BY <1>1 DEF MapsLive
<1>8. TimersOK
  BY <1>1, NewNodeState DEF Init, TimersOK
<1> QED
  BY <1>5, <1>6, <1>7, <1>8 DEF IInv

\* A step that only changes conn, from "new" to "up" or to a reason to disconnect.
LEMMA ConnInv ==
  ASSUME IInv, NEW p \in Peer, NEW c, conn' = [conn EXCEPT ![p] = c],
         \/ conn[p] = "new" /\ c = "up"
         \/ conn[p] = "up" /\ c \in {"banned", "stalled", "closed"},
         UNCHANGED <<mapBlocksToDownload, mapBlocksInFlight, waiting>>,
         QueuesOK(Queues'),
         \A o \in Peer : SameInFlight(state[o], state'[o]) /\ SameTimes(state[o], state'[o])
  PROVE  IInv'
<1>1. conn \in [Peer -> Conns] /\ waiting \in [Peer -> Nat] /\ MapsLive /\ TimersOK
  BY DEF IInv
<1>2. conn' \in [Peer -> Conns] /\ waiting' \in [Peer -> Nat]
  BY <1>1 DEF Conns
<1>3. conn'[p] = c /\ \A o \in Peer : o # p => conn'[o] = conn[o]
  BY <1>1
<1>4. MapsLive'
  <2> SUFFICES ASSUME NEW h \in Block, NEW o \in Peer,
                      o \in {mapBlocksToDownload[h], mapBlocksInFlight[h]}
               PROVE  conn'[o] \in {"up", "banned", "stalled", "closed"}
    BY DEF MapsLive, fDisconnect
  <2>1. conn[o] \in {"up", "banned", "stalled", "closed"}
    BY <1>1 DEF MapsLive, fDisconnect
  <2> QED
    BY <1>3, <2>1
<1>5. TimersOK'
  <2> SUFFICES ASSUME NEW o \in Peer
               PROVE  /\ conn'[o] \in {"new", "up"} /\ state'[o].nBlocksInFlight = 0 => waiting[o] = 0
                      /\ conn'[o] = "up" /\ state'[o].nBlocksInFlight # 0 =>
                           waiting[o] = state'[o].nLastBlockReceive
    BY DEF TimersOK
  <2>0. /\ state'[o].nBlocksInFlight = state[o].nBlocksInFlight
        /\ state'[o].nLastBlockReceive = state[o].nLastBlockReceive
    BY DEF SameInFlight, SameTimes
  <2>1. CASE o # p
    BY <1>1, <1>3, <2>0, <2>1 DEF TimersOK
  <2>2. CASE o = p /\ conn[p] = "new" /\ c = "up"
    <3>1. \A h \in Block : mapBlocksInFlight[h] # p
      BY <1>1, <2>2 DEF MapsLive, fDisconnect
    <3>2. state[p].nBlocksInFlight = 0
      <4>1. Queues.state[p] = state[p] /\ Queues.inFlight = mapBlocksInFlight
        BY QueuesParts
      <4>2. PeerOK(Queues, p) /\ state[p] \in NodeStates
        <5>1. QueuesOK(Queues)
          BY DEF IInv
        <5> QED
          BY <4>1, <5>1, QueuesIs DEF QueuesOK
      <4>3. /\ Lists(Hashes(state[p].vBlocksInFlight), mapBlocksInFlight, p)
            /\ state[p].nBlocksInFlight = Len(state[p].vBlocksInFlight)
        BY <4>1, <4>2 DEF PeerOK
      <4>4. /\ state[p].vBlocksInFlight \in Seq(QueuedBlocks)
            /\ Len(Hashes(state[p].vBlocksInFlight)) = Len(state[p].vBlocksInFlight)
            /\ Hashes(state[p].vBlocksInFlight) \in Seq(Block)
        BY <4>2, NodeStateIs, HashesAre
      <4>5. Len(Hashes(state[p].vBlocksInFlight)) = 0
        BY <3>1, <4>3, <4>4 DEF Lists
      <4> QED
        BY <4>3, <4>4, <4>5
    <3> QED
      BY <1>1, <2>0, <2>2, <3>2 DEF TimersOK
  <2>3. CASE o = p /\ c \in {"banned", "stalled", "closed"}
    BY <1>3, <2>3
  <2> QED
    BY <2>1, <2>2, <2>3
<1> QED
  BY <1>2, <1>4, <1>5 DEF IInv

\* A step that changes the queues and leaves the connections alone; p is up.
LEMMA QueuesInv ==
  ASSUME IInv, NEW p \in Peer, conn[p] = "up", UNCHANGED conn, waiting' \in [Peer -> Nat],
         NEW r, QueuesOK(r), SetQueues(r),
         \A h \in Block : /\ r.toDownload[h] \in {mapBlocksToDownload[h], NoPeer, p}
                          /\ r.inFlight[h] \in {mapBlocksInFlight[h], NoPeer, p},
         \A o \in Peer :
           /\ conn[o] \in {"new", "up"} /\ r.state[o].nBlocksInFlight = 0 => waiting'[o] = 0
           /\ conn[o] = "up" /\ r.state[o].nBlocksInFlight # 0 =>
                waiting'[o] = r.state[o].nLastBlockReceive
  PROVE  IInv'
<1>1. conn \in [Peer -> Conns] /\ MapsLive /\ NoPeer \notin Peer
  BY BlockDownloadAssumption DEF IInv
<1>2. Queues' = r
  BY SetQueuesOK
<1>3. QueuesOK(Queues')
  BY <1>2
<1>4. state' = r.state /\ mapBlocksToDownload' = r.toDownload /\ mapBlocksInFlight' = r.inFlight
  BY DEF SetQueues
<1>5. MapsLive'
  <2> SUFFICES ASSUME NEW h \in Block, NEW o \in Peer,
                      o \in {r.toDownload[h], r.inFlight[h]}
               PROVE  conn[o] \in {"up", "banned", "stalled", "closed"}
    BY <1>4 DEF MapsLive, fDisconnect
  <2>1. o = p \/ o \in {mapBlocksToDownload[h], mapBlocksInFlight[h]}
    BY <1>1
  <2> QED
    BY <1>1, <2>1 DEF MapsLive, fDisconnect
<1>6. TimersOK'
  BY <1>4 DEF TimersOK
<1>7. conn' \in [Peer -> Conns]
  BY <1>1
<1> QED
  BY <1>3, <1>5, <1>6, <1>7 DEF IInv

\* The state of the queues after ProcessMessage has noted the time.
LEMMA QueuesProcessed ==
  ASSUME IInv, NEW p \in Peer
  PROVE  LET r == Processed(Queues, p)
         IN /\ QueuesOK(r)
            /\ r.toDownload = mapBlocksToDownload /\ r.inFlight = mapBlocksInFlight
            /\ \A o \in Peer :
                 /\ r.state[o].nBlocksInFlight = state[o].nBlocksInFlight
                 /\ r.state[o].nLastBlockReceive = state[o].nLastBlockReceive
<1>1. QueuesOK(Queues)
  BY DEF IInv
<1> DEFINE r == Processed(Queues, p)
<1>2. /\ QueuesOK(r)
      /\ r.toDownload = Queues.toDownload /\ r.inFlight = Queues.inFlight
      /\ \A o \in Peer :
           /\ SameInFlight(Queues.state[o], r.state[o])
           /\ r.state[o].nLastBlockReceive = Queues.state[o].nLastBlockReceive
  BY <1>1, ProcessedOK
<1> HIDE DEF r
<1>3. QueuesOK(r) /\ r.toDownload = mapBlocksToDownload /\ r.inFlight = mapBlocksInFlight
  BY <1>2, QueuesParts
<1>4. \A o \in Peer :
        /\ r.state[o].nBlocksInFlight = state[o].nBlocksInFlight
        /\ r.state[o].nLastBlockReceive = state[o].nLastBlockReceive
  BY <1>2, QueuesParts DEF SameInFlight
<1> QED
  BY <1>3, <1>4 DEF r

\* Messages that concern no block.
LEMMA OtherMessageInv ==
  ASSUME IInv, NEW p \in Peer, OtherMessage(p)
  PROVE  IInv'
<1> DEFINE r == Processed(Queues, p)
<1>1. /\ QueuesOK(r)
      /\ r.toDownload = mapBlocksToDownload /\ r.inFlight = mapBlocksInFlight
      /\ \A o \in Peer :
           /\ r.state[o].nBlocksInFlight = state[o].nBlocksInFlight
           /\ r.state[o].nLastBlockReceive = state[o].nLastBlockReceive
  BY QueuesProcessed
<1>2. SetQueues(r) /\ conn[p] = "up" /\ UNCHANGED <<conn, waiting>>
  BY DEF OtherMessage
<1> HIDE DEF r
<1>3. waiting' \in [Peer -> Nat] /\ TimersOK
  BY <1>2 DEF IInv
<1>4. \A o \in Peer :
         /\ conn[o] \in {"new", "up"} /\ r.state[o].nBlocksInFlight = 0 => waiting'[o] = 0
         /\ conn[o] = "up" /\ r.state[o].nBlocksInFlight # 0 =>
              waiting'[o] = r.state[o].nLastBlockReceive
  BY <1>1, <1>2, <1>3 DEF TimersOK
<1> QED
  BY <1>1, <1>2, <1>3, <1>4, QueuesInv

\* The queues after an announcement: nothing that is wanted is moved or lost.
LEMMA AddedInv ==
  ASSUME IInv, NEW p \in Peer, NEW h \in Block
  PROVE  LET q == Processed(Queues, p)
             r == IF h \in have THEN q ELSE AddBlockToQueue(q, p, h)
         IN /\ QueuesOK(r)
            /\ r.inFlight = mapBlocksInFlight
            /\ \A g \in Block : /\ r.toDownload[g] \in {mapBlocksToDownload[g], p}
                                /\ mapBlocksToDownload[g] # NoPeer =>
                                     r.toDownload[g] = mapBlocksToDownload[g]
            /\ \A o \in Peer :
                 /\ r.state[o].nBlocksInFlight = state[o].nBlocksInFlight
                 /\ r.state[o].nLastBlockReceive = state[o].nLastBlockReceive
<1> DEFINE q == Processed(Queues, p)
           r == AddBlockToQueue(q, p, h)
<1>1. /\ QueuesOK(q)
      /\ q.toDownload = mapBlocksToDownload /\ q.inFlight = mapBlocksInFlight
      /\ \A o \in Peer :
           /\ q.state[o].nBlocksInFlight = state[o].nBlocksInFlight
           /\ q.state[o].nLastBlockReceive = state[o].nLastBlockReceive
  BY QueuesProcessed
<1> HIDE DEF q
<1>2. /\ QueuesOK(r) /\ r.inFlight = q.inFlight
      /\ r.toDownload \in {q.toDownload, [q.toDownload EXCEPT ![h] = p]}
      /\ q.toDownload[h] # NoPeer => r.toDownload = q.toDownload
      /\ \A o \in Peer : SameInFlight(q.state[o], r.state[o]) /\ SameTimes(q.state[o], r.state[o])
  BY <1>1, AddBlockToQueueOK
<1> HIDE DEF r
<1>3. q.toDownload \in PeerMaps
  BY <1>1, QueuesIs DEF QueuesOK
<1>4. ASSUME NEW g \in Block
      PROVE  /\ r.toDownload[g] \in {mapBlocksToDownload[g], p}
             /\ mapBlocksToDownload[g] # NoPeer => r.toDownload[g] = mapBlocksToDownload[g]
  BY <1>1, <1>2, <1>3 DEF PeerMaps
<1>5. \A o \in Peer :
        /\ r.state[o].nBlocksInFlight = state[o].nBlocksInFlight
        /\ r.state[o].nLastBlockReceive = state[o].nLastBlockReceive
  BY <1>1, <1>2 DEF SameInFlight, SameTimes
<1> DEFINE rr == IF h \in have THEN q ELSE r
<1>6. CASE h \in have
  <2>1. rr = q
    BY <1>6
  <2>2. /\ QueuesOK(rr) /\ rr.inFlight = mapBlocksInFlight
        /\ rr.toDownload = mapBlocksToDownload
        /\ \A o \in Peer :
             /\ rr.state[o].nBlocksInFlight = state[o].nBlocksInFlight
             /\ rr.state[o].nLastBlockReceive = state[o].nLastBlockReceive
    BY <1>1, <2>1
  <2> HIDE DEF rr
  <2>3. \A g \in Block : /\ rr.toDownload[g] \in {mapBlocksToDownload[g], p}
                         /\ mapBlocksToDownload[g] # NoPeer =>
                              rr.toDownload[g] = mapBlocksToDownload[g]
    BY <2>2
  <2> QED
    BY <2>2, <2>3 DEF rr, r, q
<1>7. CASE h \notin have
  <2>1. rr = r
    BY <1>7
  <2>2. /\ QueuesOK(rr) /\ rr.inFlight = mapBlocksInFlight
        /\ \A o \in Peer :
             /\ rr.state[o].nBlocksInFlight = state[o].nBlocksInFlight
             /\ rr.state[o].nLastBlockReceive = state[o].nLastBlockReceive
        /\ \A g \in Block : /\ rr.toDownload[g] \in {mapBlocksToDownload[g], p}
                            /\ mapBlocksToDownload[g] # NoPeer =>
                                 rr.toDownload[g] = mapBlocksToDownload[g]
    BY <1>1, <1>2, <1>4, <1>5, <2>1
  <2> HIDE DEF rr
  <2> QED
    BY <2>2 DEF rr, r, q
<1> QED
  BY <1>6, <1>7

\* "inv" keeps the invariant.
LEMMA InvInv ==
  ASSUME IInv, NEW p \in Peer, NEW h \in Block, Inv(p, h)
  PROVE  IInv'
<1> DEFINE q == Processed(Queues, p)
           r == IF h \in have THEN q ELSE AddBlockToQueue(q, p, h)
<1>1. /\ QueuesOK(r)
      /\ r.inFlight = mapBlocksInFlight
      /\ \A g \in Block : r.toDownload[g] \in {mapBlocksToDownload[g], p}
      /\ \A o \in Peer :
           /\ r.state[o].nBlocksInFlight = state[o].nBlocksInFlight
           /\ r.state[o].nLastBlockReceive = state[o].nLastBlockReceive
  BY AddedInv
<1>2. SetQueues(r) /\ conn[p] = "up" /\ UNCHANGED <<conn, waiting>>
  BY DEF Inv
<1> HIDE DEF r
<1>3. waiting' \in [Peer -> Nat] /\ TimersOK
  BY <1>2 DEF IInv
<1>4. \A o \in Peer :
         /\ conn[o] \in {"new", "up"} /\ r.state[o].nBlocksInFlight = 0 => waiting'[o] = 0
         /\ conn[o] = "up" /\ r.state[o].nBlocksInFlight # 0 =>
              waiting'[o] = r.state[o].nLastBlockReceive
  BY <1>1, <1>2, <1>3 DEF TimersOK
<1> QED
  BY <1>1, <1>2, <1>3, <1>4, QueuesInv

\* "block" keeps the invariant, whoever sends it and whoever was asked for it.
LEMMA BlockMessageInv ==
  ASSUME IInv, NEW p \in Peer, NEW h \in Block, NEW o \in Outcomes, BlockMessage(p, h, o)
  PROVE  IInv'
<1> DEFINE q == Processed(Queues, p)
           r == MarkBlockAsReceived(q, h, p)
           w == IF mapBlocksInFlight[h] = p THEN [waiting EXCEPT ![p] = 0] ELSE waiting
<1>1. /\ QueuesOK(q)
      /\ q.toDownload = mapBlocksToDownload /\ q.inFlight = mapBlocksInFlight
      /\ \A x \in Peer :
           /\ q.state[x].nBlocksInFlight = state[x].nBlocksInFlight
           /\ q.state[x].nLastBlockReceive = state[x].nLastBlockReceive
  BY QueuesProcessed
<1>2. SetQueues(r) /\ conn[p] = "up" /\ UNCHANGED conn /\ waiting' = Waited(r, w)
  BY DEF BlockMessage
<1> HIDE DEF q
<1>3. Received(q, r, h, p)
  BY <1>1, MarkBlockAsReceivedOK
<1> HIDE DEF r
<1>4. /\ QueuesOK(r)
      /\ r.toDownload = [mapBlocksToDownload EXCEPT ![h] = NoPeer]
      /\ r.inFlight = [mapBlocksInFlight EXCEPT ![h] = NoPeer]
      /\ \A x \in Peer :
           /\ r.state[x].nBlocksInFlight <= state[x].nBlocksInFlight
           /\ r.state[x].nLastBlockReceive =
                IF x = mapBlocksInFlight[h] /\ x = p THEN 0 ELSE state[x].nLastBlockReceive
  BY <1>1, <1>3 DEF Received
<1>5. QueuesOK(Queues) /\ waiting \in [Peer -> Nat] /\ TimersOK
      /\ mapBlocksToDownload \in PeerMaps /\ mapBlocksInFlight \in PeerMaps
  <2>1. QueuesOK(Queues) /\ waiting \in [Peer -> Nat] /\ TimersOK
    BY DEF IInv
  <2>2. Queues \in CQueues
    BY <2>1 DEF QueuesOK
  <2> QED
    BY <2>1, <2>2, QueuesIs, QueuesParts
<1>6. w \in [Peer -> Nat]
      /\ \A x \in Peer : w[x] = IF x = p /\ mapBlocksInFlight[h] = p THEN 0 ELSE waiting[x]
  BY <1>5
<1> HIDE DEF w
<1>7. waiting' \in [Peer -> Nat]
      /\ \A x \in Peer : waiting'[x] = IF r.state[x].vBlocksInFlight = <<>> THEN 0 ELSE w[x]
  BY <1>2, <1>6 DEF Waited
<1>8. \A x \in Peer : /\ r.state[x].nBlocksInFlight \in Nat
                      /\ state[x].nBlocksInFlight \in Nat
                      /\ r.state[x].nBlocksInFlight = 0 <=> r.state[x].vBlocksInFlight = <<>>
  BY <1>4, <1>5, EmptyLists, QueuesParts
<1>9. ASSUME NEW x \in Peer
      PROVE  /\ conn[x] \in {"new", "up"} /\ r.state[x].nBlocksInFlight = 0 => waiting'[x] = 0
             /\ conn[x] = "up" /\ r.state[x].nBlocksInFlight # 0 =>
                  waiting'[x] = r.state[x].nLastBlockReceive
  <2>1. CASE r.state[x].nBlocksInFlight = 0
    BY <2>1, <1>7, <1>8
  <2>2. CASE r.state[x].nBlocksInFlight # 0
    <3>1. state[x].nBlocksInFlight # 0 /\ waiting'[x] = w[x]
      BY <2>2, <1>4, <1>7, <1>8
    <3>2. conn[x] = "up" => waiting[x] = state[x].nLastBlockReceive
      BY <3>1, <1>5 DEF TimersOK
    <3> QED
      BY <2>2, <3>1, <3>2, <1>4, <1>6
  <2> QED
    BY <2>1, <2>2
<1>10. \A g \in Block : /\ r.toDownload[g] \in {mapBlocksToDownload[g], NoPeer, p}
                        /\ r.inFlight[g] \in {mapBlocksInFlight[g], NoPeer, p}
  BY <1>4, <1>5 DEF PeerMaps
<1> QED
  BY <1>2, <1>4, <1>7, <1>9, <1>10, QueuesInv

\* The request loop of SendMessages keeps the invariant.
LEMMA RequestInv ==
  ASSUME IInv, NEW p \in Peer, conn[p] = "up", SetQueues(GetData(Queues, p)),
         UNCHANGED <<conn, waiting>>
  PROVE  IInv'
<1> DEFINE r == GetData(Queues, p)
<1>1. QueuesOK(Queues) /\ waiting \in [Peer -> Nat] /\ TimersOK
  BY DEF IInv
<1>2. PICK k \in Nat : Moved(r, Queues, p, k)
  BY <1>1, GetDataOK
<1> HIDE DEF r
<1>3. /\ QueuesOK(r)
      /\ r.state[p].nBlocksInFlight = state[p].nBlocksInFlight + k
      /\ r.state[p].nLastBlockReceive =
           IF k # 0 /\ state[p].nBlocksInFlight = 0 THEN 0 ELSE state[p].nLastBlockReceive
      /\ \A o \in Peer : o # p => r.state[o] = state[o]
      /\ \A h \in Block : /\ r.toDownload[h] \in {mapBlocksToDownload[h], NoPeer}
                          /\ r.inFlight[h] \in {mapBlocksInFlight[h], p}
  BY <1>2, QueuesParts DEF Moved
<1>4. state[p].nBlocksInFlight \in Nat
  BY <1>1, EmptyLists, QueuesParts
<1>5. ASSUME NEW o \in Peer
      PROVE  /\ conn[o] \in {"new", "up"} /\ r.state[o].nBlocksInFlight = 0 => waiting'[o] = 0
             /\ conn[o] = "up" /\ r.state[o].nBlocksInFlight # 0 =>
                  waiting'[o] = r.state[o].nLastBlockReceive
  <2>1. CASE o # p
    BY <2>1, <1>1, <1>3 DEF TimersOK
  <2>2. CASE o = p
    <3>1. /\ state[p].nBlocksInFlight = 0 => waiting[p] = 0
          /\ state[p].nBlocksInFlight # 0 => waiting[p] = state[p].nLastBlockReceive
      BY <1>1 DEF TimersOK
    <3> QED
      BY <2>2, <3>1, <1>3, <1>4
  <2> QED
    BY <2>1, <2>2
<1>6. \A h \in Block : /\ r.toDownload[h] \in {mapBlocksToDownload[h], NoPeer, p}
                       /\ r.inFlight[h] \in {mapBlocksInFlight[h], NoPeer, p}
  BY <1>3
<1>7. SetQueues(r) /\ waiting' \in [Peer -> Nat]
  BY <1>1 DEF r
<1> QED
  BY <1>3, <1>5, <1>6, <1>7, QueuesInv

\* A ban keeps the invariant.
LEMMA BanInv ==
  ASSUME IInv, NEW p \in Peer, conn[p] = "up",
         conn' = [conn EXCEPT ![p] = "banned"], state' = [state EXCEPT ![p].fShouldBan = FALSE],
         UNCHANGED <<mapBlocksToDownload, mapBlocksInFlight, waiting>>
  PROVE  IInv'
<1> DEFINE s == state[p]
           t == SetScore(s, s.nMisbehavior, FALSE)
<1>1. QueuesOK(Queues) /\ Queues \in CQueues /\ state \in [Peer -> NodeStates]
  <2>1. QueuesOK(Queues) /\ Queues \in CQueues
    BY DEF IInv, QueuesOK
  <2> QED
    BY <2>1, QueuesIs, QueuesParts
<1>2. s \in NodeStates /\ s.nMisbehavior \in Nat /\ FALSE \in BOOLEAN
  BY <1>1, NodeStateIs
<1>3. t \in NodeStates /\ SameTimes(s, t) /\ SameInFlight(s, t) /\ SameToDownload(s, t)
  <2> HIDE DEF s
  <2> QED
    BY <1>2, WriteScore, Zenon
<1>4. state'[p] = t /\ \A o \in Peer : o # p => state'[o] = state[o]
  <2>1. state'[p] = [s EXCEPT !.fShouldBan = FALSE]
    BY <1>1
  <2>2. [s EXCEPT !.fShouldBan = FALSE] = t
    <3> HIDE DEF s
    <3> QED
      BY <1>2 DEF SetScore, NodeStates
  <2> QED
    BY <1>1, <2>1, <2>2
<1>5. state' \in [Peer -> NodeStates]
  <2>1. state' = [o \in Peer |-> state'[o]]
    BY <1>1
  <2> HIDE DEF t
  <2> QED
    BY <1>1, <1>3, <1>4, <2>1
<1> HIDE DEF t
<1>6. \A o \in Peer : /\ SameTimes(state[o], state'[o]) /\ SameInFlight(state[o], state'[o])
                      /\ SameToDownload(state[o], state'[o])
  BY <1>3, <1>4 DEF SameTimes, SameInFlight, SameToDownload
<1>7. QueuesOK(Queues')
  <2>1. /\ (Queues').state = state' /\ (Queues').toDownload = mapBlocksToDownload
        /\ (Queues').inFlight = mapBlocksInFlight
    BY DEF Queues
  <2>2. Queues' \in CQueues
    <3>1. mapBlocksToDownload \in PeerMaps /\ mapBlocksInFlight \in PeerMaps
      BY <1>1, QueuesIs, QueuesParts
    <3> QED
      BY <1>5, <3>1 DEF Queues, CQueues
  <2>3. ASSUME NEW o \in Peer PROVE PeerOK(Queues', o)
    <3>1. PeerOK(Queues, o)
      BY <1>1 DEF QueuesOK
    <3> QED
      BY <1>6, <2>1, <3>1, QueuesParts DEF PeerOK, SameInFlight, SameToDownload
  <2>4. \A h \in Block : (Queues').toDownload[h] = NoPeer \/ (Queues').inFlight[h] = NoPeer
    BY <1>1, <2>1, QueuesParts DEF QueuesOK
  <2> QED
    BY <2>2, <2>3, <2>4 DEF QueuesOK
<1> QED
  BY <1>6, <1>7, ConnInv

\* Each outcome of SendMessages keeps the invariant.
LEMMA SendMessagesInv ==
  ASSUME IInv, NEW p \in Peer, SendMessages(p)
  PROVE  IInv'
<1>1. conn[p] = "up" /\ UNCHANGED waiting
  BY DEF SendMessages
<1>2. CASE /\ conn' = [conn EXCEPT ![p] = "banned"]
           /\ state' = [state EXCEPT ![p].fShouldBan = FALSE]
           /\ UNCHANGED <<mapBlocksToDownload, mapBlocksInFlight>>
  BY <1>1, <1>2, BanInv
<1>3. CASE /\ conn' = [conn EXCEPT ![p] = "stalled"]
           /\ UNCHANGED <<state, mapBlocksToDownload, mapBlocksInFlight>>
  <2>1. QueuesOK(Queues')
    BY <1>3 DEF IInv, Queues
  <2>2. \A o \in Peer : SameInFlight(state[o], state'[o]) /\ SameTimes(state[o], state'[o])
    BY <1>3 DEF SameInFlight, SameTimes
  <2> QED
    BY <1>1, <1>3, <2>1, <2>2, ConnInv
<1>4. CASE SetQueues(GetData(Queues, p)) /\ UNCHANGED conn
  BY <1>1, <1>4, RequestInv
<1> QED
  BY <1>2, <1>3, <1>4 DEF SendMessages

\* Connecting and closing keep the invariant.
LEMMA OnlyConnInv ==
  ASSUME IInv, NEW p \in Peer, InitializeNode(p) \/ SocketClosed(p) \/ Inactive(p)
  PROVE  IInv'
<1>1. UNCHANGED <<state, mapBlocksToDownload, mapBlocksInFlight, waiting>>
  BY DEF InitializeNode, SocketClosed, Inactive
<1>2. QueuesOK(Queues')
  BY <1>1 DEF IInv, Queues
<1>3. \A o \in Peer : SameInFlight(state[o], state'[o]) /\ SameTimes(state[o], state'[o])
  BY <1>1 DEF SameInFlight, SameTimes
<1> QED
  BY <1>1, <1>2, <1>3, ConnInv DEF InitializeNode, SocketClosed, Inactive

\* The map without the blocks that p had.
Without(f, p) == [h \in Block |-> IF f[h] = p THEN NoPeer ELSE f[h]]

\* Forgetting the blocks of p does not concern another peer's list.
LEMMA ListWithout ==
  ASSUME NEW f \in PeerMaps, NEW p \in Peer, NEW o \in Peer, o # p, NEW v, Lists(v, f, o)
  PROVE  Lists(v, Without(f, p), o)
<1>1. NoPeer \notin Peer /\ v \in Seq(Block)
  BY BlockDownloadAssumption DEF Lists
<1>2. \A h \in Block : Without(f, p)[h] = o <=> f[h] = o
  BY <1>1 DEF Without
<1> QED
  BY <1>1, <1>2 DEF Lists

\* The map after the blocks of p are forgotten.
LEMMA WithoutMap ==
  ASSUME NEW f \in PeerMaps, NEW p \in Peer
  PROVE  /\ Without(f, p) \in PeerMaps
         /\ \A h \in Block : /\ Without(f, p)[h] # p
                             /\ Without(f, p)[h] \in {f[h], NoPeer}
  BY BlockDownloadAssumption DEF Without, PeerMaps

\* Deleting a node keeps the invariant: what leaves the maps is exactly what was in its lists.
LEMMA FinalizeNodeInv ==
  ASSUME IInv, NEW p \in Peer, FinalizeNode(p)
  PROVE  IInv'
<1> DEFINE s == state[p]
           f == mapBlocksToDownload
           g == mapBlocksInFlight
<1>1. QueuesOK(Queues) /\ Queues \in CQueues /\ state \in [Peer -> NodeStates]
      /\ f \in PeerMaps /\ g \in PeerMaps /\ NoPeer \notin Peer
      /\ conn \in [Peer -> Conns] /\ waiting \in [Peer -> Nat] /\ MapsLive /\ TimersOK
  <2>1. QueuesOK(Queues) /\ Queues \in CQueues
    BY DEF IInv, QueuesOK
  <2> QED
    BY <2>1, QueuesIs, QueuesParts, BlockDownloadAssumption DEF IInv
<1>2. conn' = [conn EXCEPT ![p] = "gone"] /\ state' = [state EXCEPT ![p] = CNodeState]
      /\ UNCHANGED waiting
  BY DEF FinalizeNode
<1>3. s \in NodeStates /\ Lists(s.vBlocksToDownload, f, p) /\ Lists(Hashes(s.vBlocksInFlight), g, p)
      /\ s.vBlocksInFlight \in Seq(QueuedBlocks) /\ s.vBlocksToDownload \in Seq(Block)
  <2>1. PeerOK(Queues, p) /\ s \in NodeStates
    BY <1>1 DEF QueuesOK
  <2> QED
    BY <2>1, NodeStateIs, QueuesParts DEF PeerOK
<1>4. mapBlocksToDownload' = Without(f, p)
  <2>1. \A h \in Block : h \in ToSet(s.vBlocksToDownload) <=> f[h] = p
    <3> HIDE DEF s
    <3> QED
      BY <1>3 DEF ToSet, Lists
  <2>2. mapBlocksToDownload' = [h \in Block |-> IF h \in ToSet(s.vBlocksToDownload)
                                                  THEN NoPeer ELSE f[h]]
    BY DEF FinalizeNode
  <2> HIDE DEF s
  <2> QED
    BY <2>1, <2>2 DEF Without
<1>5. mapBlocksInFlight' = Without(g, p)
  <2> DEFINE v == s.vBlocksInFlight
             H == {e.hash : e \in ToSet(v)}
  <2>1. \A h \in Block : h \in H <=> g[h] = p
    <3>1. DOMAIN v = 1..Len(v) /\ Len(Hashes(v)) = Len(v)
          /\ \A i \in 1..Len(v) : Hashes(v)[i] = v[i].hash
      BY <1>3, HashesAre
    <3>2. /\ \A i \in 1..Len(Hashes(v)) : g[Hashes(v)[i]] = p
          /\ \A h \in Block : g[h] = p => \E i \in 1..Len(Hashes(v)) : Hashes(v)[i] = h
      BY <1>3 DEF Lists
    <3>3. \A h : h \in H <=> \E i \in 1..Len(v) : v[i].hash = h
      <4> HIDE DEF v
      <4> QED
        BY <3>1 DEF ToSet
    <3> HIDE DEF v, H
    <3> QED
      BY <3>1, <3>2, <3>3
  <2>2. mapBlocksInFlight' = [h \in Block |-> IF h \in H THEN NoPeer ELSE g[h]]
    BY DEF FinalizeNode
  <2> HIDE DEF H
  <2> QED
    BY <2>1, <2>2 DEF Without
<1>6. /\ (Queues').state = [state EXCEPT ![p] = CNodeState]
      /\ (Queues').toDownload = Without(f, p) /\ (Queues').inFlight = Without(g, p)
  BY <1>2, <1>4, <1>5 DEF Queues
<1>7. Queues' \in CQueues
  <2>1. state' \in [Peer -> NodeStates]
    BY <1>1, <1>2, NewNodeState
  <2>2. mapBlocksToDownload' \in PeerMaps /\ mapBlocksInFlight' \in PeerMaps
    BY <1>1, <1>4, <1>5, WithoutMap
  <2> QED
    BY <2>1, <2>2 DEF Queues, CQueues
<1>8. PeerOK(Queues', p)
  <2>1. (Queues').state[p] = CNodeState
    BY <1>1, <1>6
  <2>2. \A h \in Block : (Queues').toDownload[h] # p /\ (Queues').inFlight[h] # p
    BY <1>1, <1>6, WithoutMap
  <2> QED
    BY <2>1, <2>2, FreshPeerOK
<1>9. ASSUME NEW o \in Peer, o # p PROVE PeerOK(Queues', o)
  <2>1. PeerOK(Queues, o) /\ (Queues').state[o] = state[o]
    BY <1>1, <1>6, <1>9 DEF QueuesOK
  <2>2. /\ Lists(state[o].vBlocksToDownload, f, o)
        /\ Lists(Hashes(state[o].vBlocksInFlight), g, o)
        /\ state[o].nBlocksToDownload = Len(state[o].vBlocksToDownload)
        /\ state[o].nBlocksInFlight = Len(state[o].vBlocksInFlight)
        /\ state[o].nBlocksInFlight <= MAX_BLOCKS_IN_TRANSIT_PER_PEER
    BY <2>1, QueuesParts DEF PeerOK
  <2>3. /\ Lists(state[o].vBlocksToDownload, Without(f, p), o)
        /\ Lists(Hashes(state[o].vBlocksInFlight), Without(g, p), o)
    BY <1>1, <1>9, <2>2, ListWithout
  <2> QED
    BY <1>6, <2>1, <2>2, <2>3 DEF PeerOK
<1>10. \A h \in Block : (Queues').toDownload[h] = NoPeer \/ (Queues').inFlight[h] = NoPeer
  <2>1. \A h \in Block : f[h] = NoPeer \/ g[h] = NoPeer
    BY <1>1, QueuesParts DEF QueuesOK
  <2>2. \A h \in Block : /\ Without(f, p)[h] \in {f[h], NoPeer}
                         /\ Without(g, p)[h] \in {g[h], NoPeer}
    BY <1>1, WithoutMap
  <2> QED
    BY <1>6, <2>1, <2>2
<1>11. QueuesOK(Queues')
  BY <1>7, <1>8, <1>9, <1>10 DEF QueuesOK
<1>12. conn' \in [Peer -> Conns] /\ waiting' \in [Peer -> Nat]
       /\ conn'[p] = "gone" /\ \A o \in Peer : o # p => conn'[o] = conn[o]
  BY <1>1, <1>2 DEF Conns
<1>13. MapsLive'
  <2> SUFFICES ASSUME NEW h \in Block, NEW o \in Peer,
                      o \in {Without(f, p)[h], Without(g, p)[h]}
               PROVE  conn'[o] \in {"up", "banned", "stalled", "closed"}
    BY <1>4, <1>5 DEF MapsLive, fDisconnect
  <2>1. o # p /\ o \in {f[h], g[h]}
    BY <1>1, WithoutMap
  <2> QED
    BY <1>1, <1>12, <2>1 DEF MapsLive, fDisconnect
<1>14. TimersOK'
  <2> SUFFICES ASSUME NEW o \in Peer
               PROVE  /\ conn'[o] \in {"new", "up"} /\ state'[o].nBlocksInFlight = 0 => waiting'[o] = 0
                      /\ conn'[o] = "up" /\ state'[o].nBlocksInFlight # 0 =>
                           waiting'[o] = state'[o].nLastBlockReceive
    BY DEF TimersOK
  <2>1. CASE o = p
    BY <2>1, <1>12
  <2>2. CASE o # p
    <3>1. state'[o] = state[o]
      BY <2>2, <1>1, <1>2
    <3> QED
      BY <2>2, <3>1, <1>1, <1>2, <1>12 DEF TimersOK
  <2> QED
    BY <2>1, <2>2
<1> QED
  BY <1>11, <1>12, <1>13, <1>14 DEF IInv

\* An age stays an age.
LEMMA OlderNat ==
  ASSUME NEW n \in Nat
  PROVE  Older(n) \in Nat
<1>1. n + 1 \in Int /\ MaxAge \in Int /\ n + 1 \in Nat /\ MaxAge \in Nat
  BY BlockDownloadAssumption
<1>2. Older(n) \in {n + 1, MaxAge}
  BY <1>1, MinOf, Zenon DEF Older
<1> QED
  BY <1>1, <1>2

\* The entries of a list grow older and stay the same blocks.
LEMMA OlderEntriesOK ==
  ASSUME NEW v \in Seq(QueuedBlocks)
  PROVE  /\ OlderEntries(v) \in Seq(QueuedBlocks) /\ Len(OlderEntries(v)) = Len(v)
         /\ Hashes(OlderEntries(v)) = Hashes(v)
<1> DEFINE E(e) == [e EXCEPT !.nTime = Older(@)]
<1>1. \A e \in QueuedBlocks : E(e) \in QueuedBlocks /\ E(e).hash = e.hash
  <2> SUFFICES ASSUME NEW e \in QueuedBlocks
               PROVE  E(e) \in QueuedBlocks /\ E(e).hash = e.hash
    OBVIOUS
  <2>1. e.nTime \in Nat /\ e.hash \in Block
    BY DEF QueuedBlocks
  <2>2. Older(e.nTime) \in Nat
    BY <2>1, OlderNat
  <2> QED
    BY <2>1, <2>2 DEF QueuedBlocks
<1>2. OlderEntries(v) = [i \in 1..Len(v) |-> E(v[i])] /\ Len(v) \in Nat
      /\ \A i \in 1..Len(v) : v[i] \in QueuedBlocks
  BY DEF OlderEntries
<1> HIDE DEF E
<1>3. OlderEntries(v) \in Seq(QueuedBlocks) /\ Len(OlderEntries(v)) = Len(v)
      /\ \A i \in 1..Len(v) : OlderEntries(v)[i] = E(v[i])
  BY <1>1, <1>2
<1>4. /\ DOMAIN OlderEntries(v) = 1..Len(v) /\ DOMAIN v = 1..Len(v)
      /\ \A i \in 1..Len(v) : OlderEntries(v)[i].hash = v[i].hash
  BY <1>1, <1>2, <1>3
<1>5. Hashes(OlderEntries(v)) = Hashes(v)
  BY <1>4 DEF Hashes
<1> QED
  BY <1>3, <1>5

\* A node state grows older without its queues changing.
LEMMA AgedOK ==
  ASSUME NEW s \in NodeStates
  PROVE  /\ Aged(s) \in NodeStates /\ SameToDownload(s, Aged(s))
         /\ Aged(s).nBlocksInFlight = s.nBlocksInFlight
         /\ Aged(s).vBlocksInFlight = OlderEntries(s.vBlocksInFlight)
         /\ Aged(s).nLastBlockReceive = Older(s.nLastBlockReceive)
<1>1. s.vBlocksInFlight \in Seq(QueuedBlocks) /\ s.nLastBlockReceive \in Nat
      /\ s.nLastBlockProcess \in Nat
  BY NodeStateIs
<1>2. OlderEntries(s.vBlocksInFlight) \in Seq(QueuedBlocks)
      /\ Older(s.nLastBlockReceive) \in Nat /\ Older(s.nLastBlockProcess) \in Nat
  BY <1>1, OlderEntriesOK, OlderNat
<1> QED
  BY <1>1, <1>2 DEF Aged, NodeStates, SameToDownload

\* The passage of time keeps the invariant.
LEMMA TickInv ==
  ASSUME IInv, Tick
  PROVE  IInv'
<1>1. QueuesOK(Queues) /\ Queues \in CQueues /\ state \in [Peer -> NodeStates]
      /\ mapBlocksToDownload \in PeerMaps /\ mapBlocksInFlight \in PeerMaps
      /\ conn \in [Peer -> Conns] /\ waiting \in [Peer -> Nat] /\ MapsLive /\ TimersOK
  <2>1. QueuesOK(Queues) /\ Queues \in CQueues
    BY DEF IInv, QueuesOK
  <2> QED
    BY <2>1, QueuesIs, QueuesParts DEF IInv
<1>2. /\ state' = [p \in Peer |-> IF conn[p] = "up" THEN Aged(state[p]) ELSE state[p]]
      /\ waiting' = [p \in Peer |-> IF state[p].vBlocksInFlight = <<>> THEN waiting[p]
                                    ELSE Older(waiting[p])]
      /\ UNCHANGED <<conn, mapBlocksToDownload, mapBlocksInFlight>>
  BY DEF Tick
<1>3. ASSUME NEW p \in Peer
      PROVE  /\ state'[p] \in NodeStates /\ SameToDownload(state[p], state'[p])
             /\ state'[p].nBlocksInFlight = state[p].nBlocksInFlight
             /\ Len(state'[p].vBlocksInFlight) = Len(state[p].vBlocksInFlight)
             /\ Hashes(state'[p].vBlocksInFlight) = Hashes(state[p].vBlocksInFlight)
  <2>1. state[p] \in NodeStates /\ state[p].vBlocksInFlight \in Seq(QueuedBlocks)
    BY <1>1, NodeStateIs
  <2>2. CASE conn[p] = "up"
    <3>1. state'[p] = Aged(state[p])
      BY <1>2, <2>2
    <3> QED
      BY <2>1, <3>1, AgedOK, OlderEntriesOK
  <2>3. CASE conn[p] # "up"
    BY <1>2, <2>1, <2>3 DEF SameToDownload
  <2> QED
    BY <2>2, <2>3
<1>4. state' \in [Peer -> NodeStates]
  <2>1. state' = [p \in Peer |-> state'[p]]
    BY <1>2
  <2> QED
    BY <1>3, <2>1
<1>5. waiting' \in [Peer -> Nat]
  BY <1>1, <1>2, OlderNat
<1>6. QueuesOK(Queues')
  <2>1. /\ (Queues').state = state' /\ (Queues').toDownload = mapBlocksToDownload
        /\ (Queues').inFlight = mapBlocksInFlight
    BY <1>2 DEF Queues
  <2>2. Queues' \in CQueues
    BY <1>1, <1>2, <1>4 DEF Queues, CQueues
  <2>3. ASSUME NEW p \in Peer PROVE PeerOK(Queues', p)
    <3>1. PeerOK(Queues, p)
      BY <1>1 DEF QueuesOK
    <3>2. /\ Lists(state[p].vBlocksToDownload, mapBlocksToDownload, p)
          /\ Lists(Hashes(state[p].vBlocksInFlight), mapBlocksInFlight, p)
          /\ state[p].nBlocksToDownload = Len(state[p].vBlocksToDownload)
          /\ state[p].nBlocksInFlight = Len(state[p].vBlocksInFlight)
          /\ state[p].nBlocksInFlight <= MAX_BLOCKS_IN_TRANSIT_PER_PEER
      BY <3>1, QueuesParts DEF PeerOK
    <3> QED
      BY <1>3, <2>1, <3>2 DEF PeerOK, SameToDownload
  <2>4. \A h \in Block : (Queues').toDownload[h] = NoPeer \/ (Queues').inFlight[h] = NoPeer
    BY <1>1, <2>1, QueuesParts DEF QueuesOK
  <2> QED
    BY <2>2, <2>3, <2>4 DEF QueuesOK
<1>7. MapsLive'
  BY <1>1, <1>2 DEF MapsLive, fDisconnect
<1>8. TimersOK'
  <2> SUFFICES ASSUME NEW p \in Peer
               PROVE  /\ conn[p] \in {"new", "up"} /\ state'[p].nBlocksInFlight = 0 => waiting'[p] = 0
                      /\ conn[p] = "up" /\ state'[p].nBlocksInFlight # 0 =>
                           waiting'[p] = state'[p].nLastBlockReceive
    BY <1>2 DEF TimersOK
  <2>1. state[p].nBlocksInFlight = 0 <=> state[p].vBlocksInFlight = <<>>
    BY <1>1, EmptyLists, QueuesParts
  <2>2. CASE state[p].nBlocksInFlight = 0
    <3>1. waiting'[p] = waiting[p] /\ state'[p].nBlocksInFlight = 0
      BY <1>2, <1>3, <2>1, <2>2
    <3> QED
      BY <1>1, <2>2, <3>1 DEF TimersOK
  <2>3. CASE state[p].nBlocksInFlight # 0
    <3>1. waiting'[p] = Older(waiting[p]) /\ state'[p].nBlocksInFlight # 0
      BY <1>2, <1>3, <2>1, <2>3
    <3>2. ASSUME conn[p] = "up" PROVE waiting'[p] = state'[p].nLastBlockReceive
      <4>1. waiting[p] = state[p].nLastBlockReceive
        BY <1>1, <2>3, <3>2 DEF TimersOK
      <4>2. state'[p] = Aged(state[p]) /\ state[p] \in NodeStates
        BY <1>1, <1>2, <3>2
      <4> QED
        BY <3>1, <4>1, <4>2, AgedOK
    <3> QED
      BY <3>1, <3>2
  <2> QED
    BY <2>2, <2>3
<1>9. conn' \in [Peer -> Conns]
  BY <1>1, <1>2
<1> QED
  BY <1>5, <1>6, <1>7, <1>8, <1>9 DEF IInv

\* Steps that change nothing here keep the invariant.
LEMMA SameQueuesInv ==
  ASSUME IInv, UNCHANGED <<conn, state, mapBlocksToDownload, mapBlocksInFlight, waiting>>
  PROVE  IInv'
  BY DEF IInv, Queues, MapsLive, TimersOK, fDisconnect

\* Every step keeps the invariant.
LEMMA NextInv == IInv /\ [Next]_vars => IInv'
<1> SUFFICES ASSUME IInv, [Next]_vars PROVE IInv'
  OBVIOUS
<1>1. ASSUME NEW p \in Peer, InitializeNode(p) \/ SocketClosed(p) \/ Inactive(p) PROVE IInv'
  BY <1>1, OnlyConnInv
<1>2. ASSUME NEW p \in Peer, NEW h \in Block, Inv(p, h) PROVE IInv'
  BY <1>2, InvInv
<1>3. ASSUME NEW p \in Peer, NEW h \in Block, NEW o \in Outcomes, BlockMessage(p, h, o)
      PROVE  IInv'
  BY <1>3, BlockMessageInv
<1>4. ASSUME NEW p \in Peer, OtherMessage(p) PROVE IInv'
  BY <1>4, OtherMessageInv
<1>5. ASSUME NEW h \in Block, LocalBlock(h) PROVE IInv'
  BY <1>5, SameQueuesInv DEF LocalBlock
<1>6. ASSUME NEW p \in Peer, SendMessages(p) PROVE IInv'
  BY <1>6, SendMessagesInv
<1>7. ASSUME NEW p \in Peer, FinalizeNode(p) PROVE IInv'
  BY <1>7, FinalizeNodeInv
<1>8. CASE Tick
  BY <1>8, TickInv
<1>9. CASE UNCHANGED vars
  BY <1>9, SameQueuesInv DEF vars
<1> QED
  BY <1>1, <1>2, <1>3, <1>4, <1>5, <1>6, <1>7, <1>8, <1>9 DEF Next
-----------------------------------------------------------------------------
(* The results *)

\* The invariant that carries the others.
THEOREM QueuesConsistent == Spec => []IInv
<1> QED
  BY InitInv, NextInv, PTL DEF Spec

\* The lists, the counters and the maps always tell the same story, and the maps
\* name no peer that is gone, however messages, requests and deletions interleave.
THEOREM ListsMatchMaps == Spec => []QueuesMatchMaps
<1>1. ASSUME IInv PROVE QueuesMatchMaps
  <2>1. QueuesOK(Queues) /\ MapsLive /\ state \in [Peer -> NodeStates]
    <3>1. QueuesOK(Queues) /\ MapsLive
      BY <1>1 DEF IInv
    <3> QED
      BY <3>1, QueuesIs, QueuesParts DEF QueuesOK
  <2>2. ASSUME NEW p \in Peer
        PROVE  /\ state[p].nBlocksToDownload = Len(state[p].vBlocksToDownload)
               /\ state[p].nBlocksInFlight = Len(state[p].vBlocksInFlight)
               /\ Len(state[p].vBlocksInFlight) <= MAX_BLOCKS_IN_TRANSIT_PER_PEER
               /\ IsInjective(state[p].vBlocksToDownload) /\ IsInjective(HashesInFlight(p))
               /\ \A h \in Block :
                    /\ h \in ToSet(state[p].vBlocksToDownload) <=> mapBlocksToDownload[h] = p
                    /\ h \in ToSet(HashesInFlight(p)) <=> mapBlocksInFlight[h] = p
    <3> DEFINE v == state[p].vBlocksToDownload
               w == state[p].vBlocksInFlight
    <3>1. PeerOK(Queues, p) /\ w \in Seq(QueuedBlocks) /\ v \in Seq(Block)
      BY <2>1, NodeStateIs DEF QueuesOK
    <3>2. /\ Lists(v, mapBlocksToDownload, p) /\ Lists(Hashes(w), mapBlocksInFlight, p)
          /\ state[p].nBlocksToDownload = Len(v) /\ state[p].nBlocksInFlight = Len(w)
          /\ Len(w) <= MAX_BLOCKS_IN_TRANSIT_PER_PEER
      BY <3>1, QueuesParts DEF PeerOK
    <3>3. HashesInFlight(p) = Hashes(w)
      BY DEF HashesInFlight, Hashes
    <3>4. Hashes(w) \in Seq(Block)
      BY <3>1, HashesAre
    <3> HIDE DEF v, w
    <3>5. IsInjective(v) /\ IsInjective(Hashes(w))
      BY <3>2, ListedOnce
    <3>6. \A h \in Block : h \in ToSet(v) <=> mapBlocksToDownload[h] = p
      <4>1. DOMAIN v = 1..Len(v)
        BY <3>1
      <4> QED
        BY <3>2, <4>1 DEF Lists, ToSet
    <3>7. \A h \in Block : h \in ToSet(Hashes(w)) <=> mapBlocksInFlight[h] = p
      <4> DEFINE u == Hashes(w)
      <4> HIDE DEF u
      <4>1. u \in Seq(Block) /\ Lists(u, mapBlocksInFlight, p)
        BY <3>2, <3>4 DEF u
      <4>2. \A h \in Block : h \in ToSet(u) <=> mapBlocksInFlight[h] = p
        BY <4>1 DEF Lists, ToSet
      <4> QED
        BY <4>2 DEF u
    <3> QED
      BY <3>2, <3>3, <3>5, <3>6, <3>7 DEF v, w
  <2>3. \A h \in Block : NoPeer \in {mapBlocksToDownload[h], mapBlocksInFlight[h]}
    BY <2>1, QueuesParts DEF QueuesOK
  <2> QED
    BY <2>1, <2>2, <2>3 DEF QueuesMatchMaps, MapsLive
<1> QED
  BY <1>1, QueuesConsistent, PTL

\* SendMessages drops a peer as stalling only after it has left requests unanswered
\* for longer than the timeout.
THEOREM StallsAreJustified == Spec => StallJustified
<1> DEFINE P == \A p \in Peer : conn[p] = "up" /\ conn'[p] = "stalled" =>
                                  waiting[p] > BLOCK_DOWNLOAD_TIMEOUT
<1>1. ASSUME IInv, [Next]_vars PROVE [P]_vars
  <2> SUFFICES ASSUME Next, NEW p \in Peer, conn[p] = "up", conn'[p] = "stalled"
               PROVE  waiting[p] > BLOCK_DOWNLOAD_TIMEOUT
    BY <1>1
  <2>1. QueuesOK(Queues) /\ conn \in [Peer -> Conns] /\ waiting \in [Peer -> Nat] /\ TimersOK
    BY <1>1 DEF IInv
  <2>2. state[p] \in NodeStates /\ state[p].nLastBlockProcess \in Nat
        /\ state[p].nLastBlockReceive \in Nat /\ BLOCK_DOWNLOAD_TIMEOUT \in Nat
    <3>1. state[p] \in NodeStates
      BY <2>1, QueuesIs, QueuesParts DEF QueuesOK
    <3> QED
      BY <3>1, NodeStateIs, BlockDownloadAssumption
  <2>3. SendMessages(p) /\ Stalling(state[p])
    <3>1. ASSUME NEW o \in Peer, SendMessages(o) PROVE SendMessages(p) /\ Stalling(state[p])
      BY <2>1, <3>1 DEF SendMessages
    <3>2. conn'[p] # conn[p]
      OBVIOUS
    <3> QED
      BY <2>1, <3>1, <3>2 DEF Next, InitializeNode, Inv, BlockMessage, OtherMessage, LocalBlock,
           SocketClosed, Inactive, FinalizeNode, Tick
  <2>4. /\ state[p].nBlocksInFlight # 0
        /\ state[p].nLastBlockReceive > state[p].nLastBlockProcess + BLOCK_DOWNLOAD_TIMEOUT
    BY <2>3 DEF Stalling
  <2>5. waiting[p] = state[p].nLastBlockReceive
    BY <2>1, <2>4 DEF TimersOK
  <2> QED
    BY <2>2, <2>4, <2>5
<1> QED
  BY <1>1, QueuesConsistent, PTL DEF Spec, StallJustified

\* A block the node wants stays wanted until somebody sends it or the peer that was
\* to deliver it is deleted: no request loop, announcement, ban or time-out loses it.
THEOREM WantedAreKept == Spec => WantedUntilSent
<1> DEFINE P == \A h \in Block : Wanted(h) /\ ~Wanted(h)' =>
                  \/ \E p \in Peer, o \in Outcomes : BlockMessage(p, h, o)
                  \/ \E p \in Peer : /\ p \in {mapBlocksToDownload[h], mapBlocksInFlight[h]}
                                     /\ conn'[p] = "gone"
<1>1. ASSUME IInv, [Next]_vars PROVE [P]_vars
  <2> SUFFICES ASSUME Next, NEW h \in Block, Wanted(h), ~Wanted(h)'
               PROVE  \/ \E p \in Peer, o \in Outcomes : BlockMessage(p, h, o)
                      \/ \E p \in Peer : /\ p \in {mapBlocksToDownload[h], mapBlocksInFlight[h]}
                                         /\ conn'[p] = "gone"
    BY <1>1
  <2>0. QueuesOK(Queues) /\ mapBlocksToDownload \in PeerMaps /\ mapBlocksInFlight \in PeerMaps
        /\ conn \in [Peer -> Conns]
    <3>1. QueuesOK(Queues) /\ conn \in [Peer -> Conns]
      BY <1>1 DEF IInv
    <3> QED
      BY <3>1, QueuesIs, QueuesParts DEF QueuesOK
  <2>1. mapBlocksToDownload[h] # NoPeer \/ mapBlocksInFlight[h] # NoPeer
    BY DEF Wanted
  <2>2. mapBlocksToDownload'[h] = NoPeer /\ mapBlocksInFlight'[h] = NoPeer
    BY DEF Wanted
  <2>3. ASSUME NEW p \in Peer, NEW g \in Block, Inv(p, g) PROVE FALSE
    <3> DEFINE q == Processed(Queues, p)
               r == IF g \in have THEN q ELSE AddBlockToQueue(q, p, g)
    <3>1. /\ r.inFlight = mapBlocksInFlight
          /\ \A k \in Block : mapBlocksToDownload[k] # NoPeer =>
                                r.toDownload[k] = mapBlocksToDownload[k]
      BY <1>1, AddedInv
    <3>2. SetQueues(r)
      BY <2>3 DEF Inv
    <3> HIDE DEF r
    <3> QED
      BY <2>1, <2>2, <3>1, <3>2 DEF SetQueues
  <2>4. ASSUME NEW p \in Peer, NEW g \in Block, NEW o \in Outcomes, BlockMessage(p, g, o)
        PROVE  g = h
    <3> DEFINE q == Processed(Queues, p)
               r == MarkBlockAsReceived(q, g, p)
    <3>1. /\ QueuesOK(q)
          /\ q.toDownload = mapBlocksToDownload /\ q.inFlight = mapBlocksInFlight
      BY <1>1, QueuesProcessed
    <3>2. SetQueues(r)
      BY <2>4 DEF BlockMessage
    <3> HIDE DEF q
    <3>3. Received(q, r, g, p)
      BY <3>1, MarkBlockAsReceivedOK
    <3> HIDE DEF r
    <3>4. /\ mapBlocksToDownload' = [mapBlocksToDownload EXCEPT ![g] = NoPeer]
          /\ mapBlocksInFlight' = [mapBlocksInFlight EXCEPT ![g] = NoPeer]
      BY <3>1, <3>2, <3>3 DEF Received, SetQueues
    <3> QED
      BY <2>0, <2>1, <2>2, <3>4 DEF PeerMaps
  <2>5. ASSUME NEW p \in Peer, OtherMessage(p) PROVE FALSE
    <3> DEFINE r == Processed(Queues, p)
    <3>1. r.toDownload = mapBlocksToDownload /\ r.inFlight = mapBlocksInFlight
      BY <1>1, QueuesProcessed
    <3>2. SetQueues(r)
      BY <2>5 DEF OtherMessage
    <3> HIDE DEF r
    <3> QED
      BY <2>1, <2>2, <3>1, <3>2 DEF SetQueues
  <2>6. ASSUME NEW p \in Peer, SendMessages(p) PROVE FALSE
    <3>1. CASE SetQueues(GetData(Queues, p))
      <4> DEFINE r == GetData(Queues, p)
      <4>1. PICK k \in Nat : Moved(r, Queues, p, k)
        BY <2>0, GetDataOK
      <4>2. SetQueues(r)
        BY <3>1
      <4> HIDE DEF r
      <4>3. r.toDownload[h] # NoPeer \/ r.inFlight[h] # NoPeer
        BY <2>1, <4>1, QueuesParts DEF Moved
      <4> QED
        BY <2>2, <4>2, <4>3 DEF SetQueues
    <3>2. CASE UNCHANGED <<mapBlocksToDownload, mapBlocksInFlight>>
      BY <2>1, <2>2, <3>2
    <3> QED
      BY <2>6, <3>1, <3>2 DEF SendMessages
  <2>7. ASSUME NEW p \in Peer, FinalizeNode(p)
        PROVE  p \in {mapBlocksToDownload[h], mapBlocksInFlight[h]} /\ conn'[p] = "gone"
    <3>1. conn'[p] = "gone"
      BY <2>0, <2>7 DEF FinalizeNode
    <3>2. PeerOK(Queues, p) /\ state[p] \in NodeStates
      BY <2>0, QueuesIs, QueuesParts DEF QueuesOK
    <3> DEFINE v == state[p].vBlocksToDownload
               w == state[p].vBlocksInFlight
               H == {e.hash : e \in ToSet(w)}
    <3>3. /\ Lists(v, mapBlocksToDownload, p) /\ Lists(Hashes(w), mapBlocksInFlight, p)
          /\ w \in Seq(QueuedBlocks) /\ v \in Seq(Block)
      BY <3>2, NodeStateIs, QueuesParts DEF PeerOK
    <3>4. h \in ToSet(v) \/ h \in H
      <4>1. /\ mapBlocksToDownload'[h] = IF h \in ToSet(v) THEN NoPeer ELSE mapBlocksToDownload[h]
            /\ mapBlocksInFlight'[h] = IF h \in H THEN NoPeer ELSE mapBlocksInFlight[h]
        BY <2>7 DEF FinalizeNode
      <4> HIDE DEF v, H
      <4> QED
        BY <2>1, <2>2, <4>1
    <3>5. ASSUME h \in ToSet(v) PROVE mapBlocksToDownload[h] = p
      <4> HIDE DEF v
      <4> QED
        BY <3>3, <3>5 DEF ToSet, Lists
    <3>6. ASSUME h \in H PROVE mapBlocksInFlight[h] = p
      <4>1. DOMAIN w = 1..Len(w) /\ Len(Hashes(w)) = Len(w)
            /\ \A i \in 1..Len(w) : Hashes(w)[i] = w[i].hash
        BY <3>3, HashesAre
      <4>2. \A i \in 1..Len(Hashes(w)) : mapBlocksInFlight[Hashes(w)[i]] = p
        BY <3>3 DEF Lists
      <4> HIDE DEF w
      <4>3. \E i \in 1..Len(w) : w[i].hash = h
        BY <3>6, <4>1 DEF ToSet
      <4> QED
        BY <4>1, <4>2, <4>3
    <3> QED
      BY <3>1, <3>4, <3>5, <3>6
  <2>8. CASE UNCHANGED <<mapBlocksToDownload, mapBlocksInFlight>>
    BY <2>1, <2>2, <2>8
  <2>9. ASSUME NEW p \in Peer, InitializeNode(p) \/ SocketClosed(p) \/ Inactive(p)
        PROVE  UNCHANGED <<mapBlocksToDownload, mapBlocksInFlight>>
    BY <2>9 DEF InitializeNode, SocketClosed, Inactive
  <2>10. ASSUME NEW g \in Block, LocalBlock(g)
         PROVE  UNCHANGED <<mapBlocksToDownload, mapBlocksInFlight>>
    BY <2>10 DEF LocalBlock
  <2>11. ASSUME Tick PROVE UNCHANGED <<mapBlocksToDownload, mapBlocksInFlight>>
    BY <2>11 DEF Tick
  <2> QED
    BY <2>3, <2>4, <2>5, <2>6, <2>7, <2>8, <2>9, <2>10, <2>11 DEF Next
<1> QED
  BY <1>1, QueuesConsistent, PTL DEF Spec, WantedUntilSent
=============================================================================
