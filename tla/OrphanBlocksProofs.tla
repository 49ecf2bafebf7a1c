------------------------- MODULE OrphanBlocksProofs -------------------------
(***************************************************************************)
(* Proofs about OrphanBlocks, for every number of blocks, every block tree *)
(* and every limit on the orphans.                                         *)
(*                                                                         *)
(* OrphansAwaitParent is only about the times when ProcessBlock is not     *)
(* running.  NoneStranded extends it to the steps of its loop: an orphan   *)
(* whose parent is known, and not one AcceptBlock failed on, has that      *)
(* parent in the work queue.                                               *)
(***************************************************************************)
EXTENDS OrphanBlocks, FiniteSetTheorems, WellFoundedInduction, NaturalsInduction, TLAPS

NoneStranded ==
  \A b \in mapOrphanBlocks : hashPrevBlock[b] \in mapBlockIndex \ unfinished =>
    \E i \in DOMAIN vWorkQueue : vWorkQueue[i] = hashPrevBlock[b]

IInv == TypeOK /\ MapsAgree /\ OrphanLimit /\ NoneStranded

-----------------------------------------------------------------------------
\* A sequence over a set is one over every larger set.
LEMMA SeqMonotone ==
  ASSUME NEW S, NEW T, S \subseteq T, NEW s \in Seq(S)
  PROVE  s \in Seq(T)
<1>1. \A i \in 1..Len(s) : s[i] \in T
  OBVIOUS
<1> QED
  BY <1>1

\* The children that wait for h are the orphans with that parent.
LEMMA DependentsOf ==
  ASSUME MapsAgree, NEW h
  PROVE  Dependents(h, mapOrphanBlocksByPrev)
           = {b \in mapOrphanBlocks \cup visited : hashPrevBlock[b] = h}
<1> DEFINE D == {b \in mapOrphanBlocks \cup visited : hashPrevBlock[b] = h}
<1>1. ASSUME NEW b \in D
      PROVE  b \in Dependents(h, mapOrphanBlocksByPrev)
  <2>1. <<h, b>> \in {x \in mapOrphanBlocksByPrev : x[1] = h}
    BY DEF MapsAgree
  <2>2. <<h, b>>[2] = b
    OBVIOUS
  <2> QED
    BY <2>1, <2>2, Zenon DEF Dependents
<1>2. ASSUME NEW b \in Dependents(h, mapOrphanBlocksByPrev)
      PROVE  b \in D
  BY DEF Dependents, MapsAgree
<1> QED
  BY <1>1, <1>2

\* The orphans are finitely many, and between two calls of ProcessBlock
\* mapOrphanBlocksByPrev.size() is their number.
LEMMA SizeByPrev ==
  ASSUME TypeOK, MapsAgree, visited = {}
  PROVE  /\ IsFiniteSet(mapOrphanBlocks)
         /\ Cardinality(mapOrphanBlocksByPrev) = Cardinality(mapOrphanBlocks)
<1>1. IsFiniteSet(mapOrphanBlocks)
  <2>1. IsFiniteSet(Block)
    BY FS_Interval, OrphanBlocksAssumption DEF Block
  <2> QED
    BY <2>1, FS_Subset DEF TypeOK
<1> DEFINE f == [b \in mapOrphanBlocks |-> <<hashPrevBlock[b], b>>]
<1>2. f \in Bijection(mapOrphanBlocks, mapOrphanBlocksByPrev)
  <2>1. mapOrphanBlocksByPrev = {<<hashPrevBlock[b], b>> : b \in mapOrphanBlocks}
    BY DEF MapsAgree
  <2>2. f \in Injection(mapOrphanBlocks, mapOrphanBlocksByPrev)
    BY <2>1 DEF Injection, IsInjective
  <2>3. f \in Surjection(mapOrphanBlocks, mapOrphanBlocksByPrev)
    BY <2>1 DEF Surjection
  <2> QED
    BY <2>2, <2>3 DEF Bijection
<1> QED
  BY <1>1, <1>2, FS_Bijection DEF ExistsBijection

-----------------------------------------------------------------------------
\* The invariant holds initially.
LEMMA InitInv == Init => IInv
<1> SUFFICES ASSUME Init
             PROVE  IInv
  OBVIOUS
<1>1. TypeOK
  BY DEF Init, TypeOK, Block, Genesis
<1>2. MapsAgree
  BY DEF Init, MapsAgree
<1>3. OrphanLimit
  BY FS_EmptySet, OrphanBlocksAssumption DEF Init, OrphanLimit
<1>4. NoneStranded
  BY DEF Init, NoneStranded
<1> QED
  BY <1>1, <1>2, <1>3, <1>4 DEF IInv

\* Storing an orphan keeps the invariant: pruning makes room for it.
LEMMA StoreOrphanInv ==
  ASSUME IInv, NEW b \in Block, Idle, IsNew(b),
         hashPrevBlock[b] \notin mapBlockIndex, StoreOrphan(b)
  PROVE  IInv'
<1>1. visited = {}
  BY DEF IInv, MapsAgree
<1>2. PICK victim \in PruneChoices :
        /\ mapOrphanBlocks' = (mapOrphanBlocks \ victim) \cup {b}
        /\ mapOrphanBlocksByPrev' =
             {e \in mapOrphanBlocksByPrev : e[2] \notin victim}
               \cup {<<hashPrevBlock[b], b>>}
        /\ hashEnd' = GetOrphanRoot(b, mapOrphanBlocks')
        /\ UNCHANGED <<hashPrevBlock, mapBlockIndex, vWorkQueue, visited, unfinished>>
  BY DEF StoreOrphan
<1>3. victim \subseteq mapOrphanBlocks
  BY <1>2 DEF PruneChoices
<1>5. TypeOK'
  BY <1>2, <1>3 DEF IInv, TypeOK, IsNew
<1>6. MapsAgree'
  <2>1. mapOrphanBlocksByPrev' =
          {<<hashPrevBlock[c], c>> : c \in (mapOrphanBlocks \ victim) \cup {b}}
    BY <1>1, <1>2, <1>3 DEF IInv, MapsAgree
  <2> QED
    BY <1>1, <1>2, <2>1 DEF IInv, MapsAgree
<1>7. OrphanLimit'
  <2>1. /\ IsFiniteSet(mapOrphanBlocks) /\ Cardinality(mapOrphanBlocks) \in Nat
        /\ Cardinality(mapOrphanBlocksByPrev) = Cardinality(mapOrphanBlocks)
    BY <1>1, SizeByPrev, FS_CardinalityType DEF IInv
  <2>2. /\ IsFiniteSet(mapOrphanBlocks \ victim)
        /\ Cardinality(mapOrphanBlocks \ victim) <= MaxOrphanBlocks
        /\ Cardinality(mapOrphanBlocks \ victim) \in Nat
    <3>1. CASE Cardinality(mapOrphanBlocksByPrev) > MaxOrphanBlocks
      <4>1. PICK o \in mapOrphanBlocks : victim = {o}
        BY <1>2, <3>1 DEF PruneChoices
      <4>2. /\ IsFiniteSet(mapOrphanBlocks \ {o})
            /\ Cardinality(mapOrphanBlocks \ {o}) = Cardinality(mapOrphanBlocks) - 1
        BY <2>1, <4>1, FS_RemoveElement
      <4>3. Cardinality(mapOrphanBlocks \ {o}) \in Nat
        BY <4>2, FS_CardinalityType
      <4> QED
        BY <2>1, <4>1, <4>2, <4>3, OrphanBlocksAssumption DEF IInv, OrphanLimit
    <3>2. CASE ~(Cardinality(mapOrphanBlocksByPrev) > MaxOrphanBlocks)
      <4>1. victim = {} /\ mapOrphanBlocks \ victim = mapOrphanBlocks
        BY <1>2, <3>2 DEF PruneChoices
      <4> QED
        BY <2>1, <3>2, <4>1, OrphanBlocksAssumption
    <3> QED
      BY <3>1, <3>2
  <2>3. Cardinality((mapOrphanBlocks \ victim) \cup {b})
          <= Cardinality(mapOrphanBlocks \ victim) + 1
    <3> DEFINE S == mapOrphanBlocks \ victim
    <3>1. Cardinality(S \cup {b}) = IF b \in S THEN Cardinality(S) ELSE Cardinality(S) + 1
      BY <2>2, FS_AddElement, Zenon
    <3> QED
      BY <2>2, <3>1
  <2>4. Cardinality((mapOrphanBlocks \ victim) \cup {b}) \in Nat
    BY <2>2, FS_AddElement, FS_CardinalityType
  <2> QED
    BY <1>2, <2>2, <2>3, <2>4, OrphanBlocksAssumption DEF OrphanLimit
<1>8. NoneStranded'
  BY <1>2, <1>3 DEF IInv, NoneStranded
<1> QED
  BY <1>5, <1>6, <1>7, <1>8 DEF IInv

\* Indexing a block whose parent is known keeps the invariant; its waiting
\* children are not stranded because the block enters the work queue.
LEMMA AcceptNewInv ==
  ASSUME IInv, NEW b \in Block, NEW outcome \in Outcomes, Idle, IsNew(b),
         AcceptNew(b, outcome)
  PROVE  IInv'
<1>1. /\ visited = {} /\ visited' = {} /\ vWorkQueue = <<>>
      /\ mapBlockIndex \subseteq mapBlockIndex'
      /\ mapBlockIndex' \subseteq mapBlockIndex \cup {b}
      /\ outcome = "ok" => b \in mapBlockIndex' /\ vWorkQueue' = <<b>>
      /\ outcome # "ok" => vWorkQueue' = <<>>
      /\ outcome = "reject" => mapBlockIndex' = mapBlockIndex
      /\ outcome = "fail" => b \in unfinished' /\ b \in mapBlockIndex'
      /\ unfinished \subseteq unfinished' /\ unfinished' \subseteq unfinished \cup {b}
      /\ outcome # "fail" => unfinished' = unfinished
      /\ UNCHANGED <<hashPrevBlock, mapOrphanBlocks, mapOrphanBlocksByPrev>>
  BY DEF IInv, MapsAgree, AcceptNew, Accept, Idle
<1>2. TypeOK'
  <2>1. vWorkQueue' \in Seq(mapBlockIndex')
    <3>1. CASE outcome = "ok"
      <4>1. b \in mapBlockIndex' /\ vWorkQueue' = <<b>>
        BY <1>1, <3>1
      <4> QED
        BY <4>1
    <3>2. CASE outcome # "ok"
      BY <1>1, <3>2
    <3> QED
      BY <3>1, <3>2
  <2> QED
    BY <1>1, <2>1 DEF IInv, TypeOK, IsNew
<1>3. MapsAgree'
  BY <1>1 DEF IInv, MapsAgree
<1>4. OrphanLimit'
  BY <1>1 DEF IInv, OrphanLimit
<1>5. NoneStranded'
  <2> SUFFICES ASSUME NEW c \in mapOrphanBlocks,
                      hashPrevBlock[c] \in mapBlockIndex' \ unfinished'
               PROVE  \E i \in DOMAIN vWorkQueue' : vWorkQueue'[i] = hashPrevBlock[c]
    BY <1>1 DEF NoneStranded
  <2>1. hashPrevBlock[c] \notin mapBlockIndex \ unfinished
    BY <1>1 DEF IInv, NoneStranded
  <2>2. hashPrevBlock[c] = b /\ outcome = "ok"
    BY <1>1, <2>1, OrphanBlocksAssumption
  <2>3. vWorkQueue' = <<b>> /\ 1 \in DOMAIN vWorkQueue' /\ vWorkQueue'[1] = b
    BY <1>1, <2>2
  <2> QED
    BY <2>2, <2>3
<1> QED
  BY <1>2, <1>3, <1>4, <1>5 DEF IInv

\* One orphan of the loop.
LEMMA ProcessOrphanInv ==
  ASSUME IInv, NEW b \in Block, NEW outcome \in Outcomes, ProcessOrphan(b, outcome)
  PROVE  IInv'
<1>1. b \in mapOrphanBlocks /\ b \notin visited /\ hashPrevBlock[b] = Head(vWorkQueue)
  BY DEF IInv, MapsAgree, ProcessOrphan, Dependents
<1>2. /\ mapBlockIndex \subseteq mapBlockIndex'
      /\ mapBlockIndex' \subseteq mapBlockIndex \cup {b}
      /\ outcome = "ok" => b \in mapBlockIndex' /\ vWorkQueue' = Append(vWorkQueue, b)
      /\ outcome # "ok" => vWorkQueue' = vWorkQueue
      /\ outcome = "reject" => mapBlockIndex' = mapBlockIndex
      /\ outcome = "fail" => b \in unfinished' /\ b \in mapBlockIndex'
      /\ unfinished \subseteq unfinished' /\ unfinished' \subseteq unfinished \cup {b}
      /\ outcome # "fail" => unfinished' = unfinished
      /\ mapOrphanBlocks' = mapOrphanBlocks \ {b} /\ visited' = visited \cup {b}
      /\ UNCHANGED <<hashPrevBlock, mapOrphanBlocksByPrev>>
  BY DEF ProcessOrphan, Accept
<1>3. /\ vWorkQueue \in Seq(mapBlockIndex') /\ vWorkQueue # <<>>
  BY <1>2, SeqMonotone DEF IInv, TypeOK, ProcessOrphan, Idle
<1>4. /\ vWorkQueue' \in Seq(mapBlockIndex') /\ vWorkQueue' # <<>>
      /\ Head(vWorkQueue') = Head(vWorkQueue)
      /\ \A i \in DOMAIN vWorkQueue : i \in DOMAIN vWorkQueue' /\ vWorkQueue'[i] = vWorkQueue[i]
      /\ outcome = "ok" => \E i \in DOMAIN vWorkQueue' : vWorkQueue'[i] = b
  <2>1. CASE outcome = "ok"
    <3>1. vWorkQueue' = Append(vWorkQueue, b) /\ b \in mapBlockIndex'
      BY <1>2, <2>1
    <3>2. Len(vWorkQueue) + 1 \in DOMAIN vWorkQueue' /\ vWorkQueue'[Len(vWorkQueue) + 1] = b
      BY <1>3, <3>1
    <3> QED
      BY <1>3, <3>1, <3>2
  <2>2. CASE outcome # "ok"
    BY <1>2, <1>3, <2>2
  <2> QED
    BY <2>1, <2>2
<1>5. TypeOK'
  BY <1>2, <1>4 DEF IInv, TypeOK
<1>6. MapsAgree'
  <2>1. mapOrphanBlocks' \cup visited' = mapOrphanBlocks \cup visited
    BY <1>1, <1>2
  <2>2. ~Idle'
    BY <1>4 DEF Idle
  <2> QED
    BY <1>1, <1>2, <1>4, <2>1, <2>2 DEF IInv, MapsAgree
<1>7. OrphanLimit'
  <2>1. IsFiniteSet(mapOrphanBlocks)
    <3>1. IsFiniteSet(Block)
      BY FS_Interval, OrphanBlocksAssumption DEF Block
    <3> QED
      BY <3>1, FS_Subset DEF IInv, TypeOK
  <2>2. /\ IsFiniteSet(mapOrphanBlocks \ {b})
        /\ Cardinality(mapOrphanBlocks \ {b}) = Cardinality(mapOrphanBlocks) - 1
    BY <1>1, <2>1, FS_RemoveElement
  <2>3. Cardinality(mapOrphanBlocks \ {b}) \in Nat /\ Cardinality(mapOrphanBlocks) \in Nat
    BY <2>1, <2>2, FS_CardinalityType
  <2> QED
    BY <1>2, <2>2, <2>3, OrphanBlocksAssumption DEF IInv, OrphanLimit
<1>8. NoneStranded'
  <2> SUFFICES ASSUME NEW c \in mapOrphanBlocks \ {b},
                      hashPrevBlock[c] \in mapBlockIndex' \ unfinished'
               PROVE  \E i \in DOMAIN vWorkQueue' : vWorkQueue'[i] = hashPrevBlock[c]
    BY <1>2 DEF NoneStranded
  <2>1. CASE hashPrevBlock[c] \in mapBlockIndex \ unfinished
    BY <1>4, <2>1 DEF IInv, NoneStranded
  <2>2. CASE hashPrevBlock[c] \notin mapBlockIndex \ unfinished
    <3>1. hashPrevBlock[c] = b /\ outcome = "ok"
      BY <1>2, <2>2, OrphanBlocksAssumption
    <3> QED
      BY <1>4, <3>1
  <2> QED
    BY <2>1, <2>2
<1> QED
  BY <1>5, <1>6, <1>7, <1>8 DEF IInv

\* The end of the inner loop: every child of the head has been looked at, so
\* none of them loses its queue entry.
LEMMA NextPrevInv ==
  ASSUME IInv, NextPrev
  PROVE  IInv'
<1> DEFINE h == Head(vWorkQueue)
<1>1. /\ vWorkQueue \in Seq(mapBlockIndex) /\ vWorkQueue # <<>>
      /\ vWorkQueue' = Tail(vWorkQueue) /\ visited' = {}
      /\ mapOrphanBlocksByPrev' = {e \in mapOrphanBlocksByPrev : e[1] # h}
      /\ UNCHANGED <<hashPrevBlock, mapBlockIndex, mapOrphanBlocks, unfinished>>
  BY DEF IInv, TypeOK, NextPrev, Idle
<1>2. \A b \in mapOrphanBlocks : hashPrevBlock[b] # h
  BY DependentsOf DEF IInv, MapsAgree, NextPrev
<1>3. TypeOK'
  BY <1>1 DEF IInv, TypeOK
<1>4. MapsAgree'
  <2>1. mapOrphanBlocksByPrev' = {<<hashPrevBlock[b], b>> : b \in mapOrphanBlocks}
    BY <1>1, <1>2 DEF IInv, MapsAgree
  <2> QED
    BY <1>1, <2>1 DEF MapsAgree
<1>5. OrphanLimit'
  BY <1>1 DEF IInv, OrphanLimit
<1>6. NoneStranded'
  <2> SUFFICES ASSUME NEW c \in mapOrphanBlocks,
                      hashPrevBlock[c] \in mapBlockIndex \ unfinished
               PROVE  \E i \in DOMAIN vWorkQueue' : vWorkQueue'[i] = hashPrevBlock[c]
    BY <1>1 DEF NoneStranded
  <2>1. PICK i \in DOMAIN vWorkQueue : vWorkQueue[i] = hashPrevBlock[c]
    BY DEF IInv, NoneStranded
  <2>2. i # 1 /\ i \in 1..Len(vWorkQueue)
    BY <1>1, <1>2, <2>1
  <2>3. i - 1 \in DOMAIN vWorkQueue' /\ vWorkQueue'[i - 1] = vWorkQueue[i]
    BY <1>1, <2>2
  <2> QED
    BY <2>1, <2>3
<1> QED
  BY <1>3, <1>4, <1>5, <1>6 DEF IInv

\* The inductive invariant.
THEOREM Invariant == Spec => []IInv
<1>1. IInv /\ [Next]_vars => IInv'
  <2> SUFFICES ASSUME IInv, [Next]_vars
               PROVE  IInv'
    OBVIOUS
  <2>1. ASSUME NEW b \in Block, ProcessBlock(b)
        PROVE  IInv'
    BY <2>1, StoreOrphanInv, AcceptNewInv DEF ProcessBlock
  <2>2. ASSUME NEW b \in Block, NEW outcome \in Outcomes, ProcessOrphan(b, outcome)
        PROVE  IInv'
    BY <2>2, ProcessOrphanInv
  <2>3. CASE NextPrev
    BY <2>3, NextPrevInv
  <2>4. ASSUME NEW b \in Block, InvOrphan(b)
        PROVE  IInv'
    BY <2>4 DEF InvOrphan, Idle, IInv, TypeOK, MapsAgree, OrphanLimit, NoneStranded
  <2>5. CASE UNCHANGED vars
    BY <2>5 DEF vars, Idle, IInv, TypeOK, MapsAgree, OrphanLimit, NoneStranded
  <2> QED
    BY <2>1, <2>2, <2>3, <2>4, <2>5 DEF Next, DuplicateBlock
<1> QED
  BY InitInv, <1>1, PTL DEF Spec

\* Type correctness; an indexed block is never also an orphan.
THEOREM TypeCorrect == Spec => []TypeOK
<1>1. IInv => TypeOK
  BY DEF IInv
<1> QED
  BY <1>1, Invariant, PTL

\* mapOrphanBlocks and mapOrphanBlocksByPrev never disagree, failures of
\* AcceptBlock included.
THEOREM MapsAlwaysAgree == Spec => []MapsAgree
<1>1. IInv => MapsAgree
  BY DEF IInv
<1> QED
  BY <1>1, Invariant, PTL

\* At most -maxorphanblocks + 1 orphans are held at any time.
THEOREM OrphansBounded == Spec => []OrphanLimit
<1>1. IInv => OrphanLimit
  BY DEF IInv
<1> QED
  BY <1>1, Invariant, PTL

\* ProcessBlock never leaves an orphan behind whose parent is known, unless
\* AcceptBlock failed on that very parent.
THEOREM NoOrphanLeftBehind == Spec => []OrphansAwaitParent
<1>1. IInv => OrphansAwaitParent
  BY DEF IInv, NoneStranded, OrphansAwaitParent, Idle
<1> QED
  BY <1>1, Invariant, PTL

\* An orphan is dropped only after its parent was indexed, or, above the limit,
\* when no other orphan depends on it.
THEOREM OrphansAreKept == Spec => OrphansKept
<1> DEFINE Kept == \A b \in mapOrphanBlocks \ mapOrphanBlocks' :
                     \/ hashPrevBlock[b] \in mapBlockIndex
                     \/ /\ Cardinality(mapOrphanBlocks) > MaxOrphanBlocks
                        /\ \A c \in mapOrphanBlocks : hashPrevBlock[c] # b
<1>1. IInv /\ [Next]_vars => [Kept]_vars
  <2> SUFFICES ASSUME IInv, Next
               PROVE  Kept
    BY DEF vars
  <2>1. ASSUME NEW b \in Block, ProcessBlock(b)
        PROVE  Kept
    <3>1. CASE hashPrevBlock[b] \in mapBlockIndex
      BY <2>1, <3>1 DEF ProcessBlock, AcceptNew
    <3>2. CASE hashPrevBlock[b] \notin mapBlockIndex
      <4>1. /\ visited = {}
            /\ Cardinality(mapOrphanBlocksByPrev) = Cardinality(mapOrphanBlocks)
        BY <2>1, SizeByPrev DEF ProcessBlock, IInv, MapsAgree
      <4>2. PICK victim \in PruneChoices : mapOrphanBlocks' = (mapOrphanBlocks \ victim) \cup {b}
        BY <2>1, <3>2 DEF ProcessBlock, StoreOrphan
      <4> SUFFICES ASSUME NEW o \in mapOrphanBlocks \ mapOrphanBlocks'
                   PROVE  /\ Cardinality(mapOrphanBlocks) > MaxOrphanBlocks
                          /\ \A c \in mapOrphanBlocks : hashPrevBlock[c] # o
        OBVIOUS
      <4>3. o \in victim
        BY <4>2
      <4>4. /\ Cardinality(mapOrphanBlocksByPrev) > MaxOrphanBlocks
            /\ Dependents(o, mapOrphanBlocksByPrev) = {}
        BY <4>2, <4>3 DEF PruneChoices
      <4> QED
        BY <4>1, <4>4, DependentsOf DEF IInv
    <3> QED
      BY <3>1, <3>2
  <2>2. ASSUME NEW b \in Block, NEW outcome \in Outcomes, ProcessOrphan(b, outcome)
        PROVE  Kept
    <3>1. hashPrevBlock[b] = Head(vWorkQueue) /\ vWorkQueue # <<>>
          /\ vWorkQueue \in Seq(mapBlockIndex) /\ mapOrphanBlocks' = mapOrphanBlocks \ {b}
      BY <2>2 DEF IInv, TypeOK, MapsAgree, ProcessOrphan, Dependents, Idle
    <3>2. hashPrevBlock[b] \in mapBlockIndex
      BY <3>1
    <3> QED
      BY <3>1, <3>2
  <2>3. CASE NextPrev
    BY <2>3 DEF NextPrev
  <2>4. ASSUME NEW b \in Block, InvOrphan(b)
        PROVE  Kept
    BY <2>4 DEF InvOrphan
  <2>5. ASSUME NEW b \in Block, DuplicateBlock(b)
        PROVE  Kept
    BY <2>5 DEF DuplicateBlock, vars
  <2> QED
    BY <2>1, <2>2, <2>3, <2>4, <2>5 DEF Next
<1> QED
  BY <1>1, Invariant, PTL DEF Spec, OrphansKept

-----------------------------------------------------------------------------
(* GetOrphanRoot *)

\* Blocks are numbered parents first, and the tree does not change.
ParentsFirst == \A b \in Block : hashPrevBlock[b] < b

\* A set of numbers has a least element.
LEMMA LeastBlock ==
  ASSUME NEW B, B \subseteq Nat, B # {}
  PROVE  \E m \in B : \A x \in B : ~(x < m)
<1> DEFINE R == {ss \in Nat \X Nat : ss[1] < ss[2]}
<1>1. IsWellFoundedOn(R, Nat)
  BY NatLessThanWellFounded, Zenon DEF OpToRel
<1>2. \E m \in B : \A x \in B : ~(<<x, m>> \in R)
  <2> HIDE DEF R
  <2> QED
    BY <1>1, WFMin, Zenon
<1>3. PICK m \in B : \A x \in B : ~(<<x, m>> \in R)
  BY <1>2, Zenon
<1>4. \A x \in B : ~(x < m)
  BY <1>3
<1> QED
  BY <1>4

\* g is what the walk along the parents in T makes of the blocks 1..m.
Roots(g, T, m) ==
  g = [b \in 1..m |-> IF hashPrevBlock[b] \in T THEN g[hashPrevBlock[b]] ELSE b]

\* The walk ends for every block.
LEMMA RootsExist ==
  ASSUME TypeOK, ParentsFirst, NEW T, T \subseteq Block, NEW n \in 0..NumBlocks
  PROVE  \E g : Roots(g, T, n)
<1> DEFINE B == {m \in 0..NumBlocks : ~ \E g : Roots(g, T, m)}
<1>1. SUFFICES ASSUME B # {} PROVE FALSE
  OBVIOUS
<1>2. PICK m \in B : \A x \in B : ~(x < m)
  <2>1. B \subseteq Nat
    OBVIOUS
  <2> HIDE DEF B
  <2> QED
    BY <1>1, <2>1, LeastBlock
<1>3. CASE m = 0
  <2>1. Roots([b \in 1..0 |-> b], T, 0)
    BY DEF Roots
  <2> QED
    BY <1>2, <1>3, <2>1
<1>4. CASE m # 0
  <2>1. m - 1 \in 0..NumBlocks /\ m - 1 < m /\ m \in Block
    BY <1>2, <1>4, OrphanBlocksAssumption DEF Block
  <2>2. PICK g : Roots(g, T, m - 1)
    BY <1>2, <2>1
  <2> DEFINE f == [b \in 1..m |-> IF b = m THEN IF hashPrevBlock[m] \in T THEN g[hashPrevBlock[m]] ELSE m
                                 ELSE g[b]]
  <2>3. ASSUME NEW b \in 1..m
        PROVE  f[b] = IF hashPrevBlock[b] \in T THEN f[hashPrevBlock[b]] ELSE b
    <3>1. b \in Block /\ b <= m
      BY <2>1, OrphanBlocksAssumption DEF Block
    <3>2. hashPrevBlock[b] \in T => hashPrevBlock[b] \in 1..m /\ hashPrevBlock[b] # m
      <4>1. hashPrevBlock[b] < b
        BY <3>1 DEF ParentsFirst
      <4>2. m \in Nat /\ b \in 1..m
        BY <2>1, OrphanBlocksAssumption DEF Block
      <4>3. \A x \in T : x \in Nat /\ x >= 1
        <5> HIDE DEF B, f
        <5> QED
          BY OrphanBlocksAssumption DEF Block
      <4> QED
        BY <4>1, <4>2, <4>3
    <3>3. CASE b = m
      BY <3>2, <3>3
    <3>4. CASE b # m
      <4>1. b \in 1..(m - 1)
        BY <2>1, <3>4
      <4>2. g[b] = IF hashPrevBlock[b] \in T THEN g[hashPrevBlock[b]] ELSE b
        BY <2>2, <4>1 DEF Roots
      <4> QED
        BY <3>2, <3>4, <4>2
    <3> QED
      BY <3>3, <3>4
  <2>4. f = [b \in 1..m |-> f[b]]
    OBVIOUS
  <2> HIDE DEF f
  <2>5. Roots(f, T, m)
    BY <2>3, <2>4 DEF Roots
  <2> QED
    BY <1>2, <2>5
<1> QED
  BY <1>3, <1>4

\* From an orphan, the walk ends at an orphan whose parent is none.
LEMMA RootOf ==
  ASSUME TypeOK, ParentsFirst, NEW T, T \subseteq Block, NEW h \in T
  PROVE  GetOrphanRoot(h, T) \in T /\ hashPrevBlock[GetOrphanRoot(h, T)] \notin T
<1> DEFINE root == CHOOSE g : Roots(g, T, NumBlocks)
<1>1. Roots(root, T, NumBlocks)
  <2>1. NumBlocks \in 0..NumBlocks
    BY OrphanBlocksAssumption
  <2> QED
    BY <2>1, RootsExist
<1>2. GetOrphanRoot(h, T) = root[h]
  BY DEF GetOrphanRoot, Roots, Block
<1> HIDE DEF root
<1>3. \A b \in Block : root[b] = IF hashPrevBlock[b] \in T THEN root[hashPrevBlock[b]] ELSE b
  BY <1>1 DEF Roots, Block
<1> DEFINE B == {b \in T : ~(root[b] \in T /\ hashPrevBlock[root[b]] \notin T)}
<1>4. SUFFICES ASSUME B # {} PROVE FALSE
  BY <1>2
<1>5. PICK b \in B : \A x \in B : ~(x < b)
  <2>1. B \subseteq Nat
    <3>1. B \subseteq T
      OBVIOUS
    <3> HIDE DEF B
    <3>2. T \subseteq Nat
      BY OrphanBlocksAssumption DEF Block
    <3> QED
      BY <3>1, <3>2
  <2> HIDE DEF B
  <2> QED
    BY <1>4, <2>1, LeastBlock
<1>6. hashPrevBlock[b] \in T
  BY <1>3, <1>5
<1>7. hashPrevBlock[b] < b
  BY <1>5 DEF ParentsFirst
<1> QED
  BY <1>3, <1>5, <1>6, <1>7

\* Whatever PushGetBlocks is told to stop at is an orphan whose parent is neither
\* an orphan nor known, unless AcceptBlock failed on the parent: the answer fills the gap.
THEOREM RequestsFillGap == Spec => RequestsReachGap
<1> DEFINE Gap == /\ hashEnd' \in mapOrphanBlocks'
                  /\ hashPrevBlock[hashEnd'] \notin (mapBlockIndex' \ unfinished') \cup mapOrphanBlocks'
<1>1. Init => ParentsFirst
  BY DEF Init, ParentsFirst
<1>2. IInv /\ ParentsFirst /\ [Next]_vars => ParentsFirst'
  BY DEF ParentsFirst, Next, vars, ProcessBlock, AcceptNew, StoreOrphan, DuplicateBlock,
         ProcessOrphan, NextPrev, InvOrphan
<1>3. IInv /\ IInv' /\ ParentsFirst /\ [Next]_vars => [hashEnd' # hashEnd => Gap]_vars
  <2> SUFFICES ASSUME IInv, IInv', ParentsFirst, Next, hashEnd' # hashEnd
               PROVE  Gap
    BY DEF vars
  <2>1. ASSUME NEW b \in Block, hashEnd' = GetOrphanRoot(b, mapOrphanBlocks'), b \in mapOrphanBlocks',
               UNCHANGED <<hashPrevBlock, vWorkQueue>>, Idle
        PROVE  Gap
    <3>1. mapOrphanBlocks' \subseteq Block
      BY DEF IInv, TypeOK
    <3>2. hashEnd' \in mapOrphanBlocks' /\ hashPrevBlock[hashEnd'] \notin mapOrphanBlocks'
      BY <2>1, <3>1, RootOf DEF IInv
    <3>3. \A i \in DOMAIN vWorkQueue' : FALSE
      BY <2>1 DEF Idle
    <3> QED
      BY <2>1, <3>2, <3>3 DEF IInv, NoneStranded
  <2>2. ASSUME NEW b \in Block, ProcessBlock(b)
        PROVE  Gap
    <3>1. Idle /\ StoreOrphan(b)
      BY <2>2 DEF ProcessBlock, AcceptNew
    <3> QED
      BY <2>1, <3>1 DEF StoreOrphan
  <2>3. ASSUME NEW b \in Block, InvOrphan(b)
        PROVE  Gap
    BY <2>1, <2>3 DEF InvOrphan
  <2> QED
    BY <2>2, <2>3 DEF Next, DuplicateBlock, vars, ProcessOrphan, NextPrev
<1> QED
  BY <1>1, <1>2, <1>3, Invariant, PTL DEF Spec, RequestsReachGap

=============================================================================
