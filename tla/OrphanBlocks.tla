---------------------------- MODULE OrphanBlocks ----------------------------
(***************************************************************************)
(* Blocks that arrive before their parent: ProcessBlock with the two maps  *)
(* mapOrphanBlocks and mapOrphanBlocksByPrev, PruneOrphanBlocks and        *)
(* GetOrphanRoot of main.cpp.                                              *)
(*                                                                         *)
(* ProcessBlock holds cs_main; its loop over the waiting children is split *)
(* into one action per AcceptBlock.  What AcceptBlock makes of a block is  *)
(* one of                                                                  *)
(*   "ok"      the block is in the index and ActivateBestChain succeeded   *)
(*   "reject"  the block breaks a rule and is not indexed                  *)
(*   "fail"    AddToBlockIndex put it into the index and then returned     *)
(*             false, because a write or ActivateBestChain failed          *)
(* A block that fails CheckBlock, or comes without a parent and without a  *)
(* peer to ask, changes nothing and is left out.                           *)
(***************************************************************************)
EXTENDS Integers, Sequences, FiniteSets

CONSTANTS
  NumBlocks,        \* bound: blocks 1..NumBlocks, numbered parents first
  MaxOrphanBlocks,  \* -maxorphanblocks
  Outcomes          \* what AcceptBlock may do

Genesis == 0
Block == 1..NumBlocks
Null == -1

ASSUME OrphanBlocksAssumption ==
  /\ NumBlocks \in Nat /\ MaxOrphanBlocks \in Nat
  /\ Outcomes \subseteq {"ok", "reject", "fail"}

VARIABLES
  hashPrevBlock,          \* the parent of each block
  mapBlockIndex,
  mapOrphanBlocks,        \* hashes of the orphans
  mapOrphanBlocksByPrev,  \* pairs <<hashPrev, hash>>
  vWorkQueue,             \* blocks whose children are still to be looked at
  visited,                \* children of Head(vWorkQueue) already looked at
  hashEnd,                \* the root last passed to PushGetBlocks, or Null
  unfinished              \* history: the blocks AcceptBlock indexed and failed on

vars == <<hashPrevBlock, mapBlockIndex, mapOrphanBlocks, mapOrphanBlocksByPrev,
          vWorkQueue, visited, hashEnd, unfinished>>

\* Every tree of the blocks; only the genesis block is known.
Init ==
  /\ hashPrevBlock \in [Block -> {Genesis} \cup Block]
  /\ \A b \in Block : hashPrevBlock[b] < b
  /\ mapBlockIndex = {Genesis}
  /\ mapOrphanBlocks = {} /\ mapOrphanBlocksByPrev = {}
  /\ vWorkQueue = <<>> /\ visited = {}
  /\ hashEnd = Null
  /\ unfinished = {}

Idle == vWorkQueue = <<>>

\* Orphans waiting for block h.
Dependents(h, byPrev) == {e[2] : e \in {x \in byPrev : x[1] = h}}

\* Mutant: the random block is dropped without moving to its successors.
PruneChoices_Any ==
  IF Cardinality(mapOrphanBlocksByPrev) > MaxOrphanBlocks
    THEN {{b} : b \in mapOrphanBlocks}
    ELSE {{}}

\* PruneOrphanBlocks: above the limit one orphan goes; the walk from a random
\* one can end at any orphan without dependents.
PruneChoices ==
  IF Cardinality(mapOrphanBlocksByPrev) > MaxOrphanBlocks
    THEN {{b} : b \in {o \in mapOrphanBlocks :
                         Dependents(o, mapOrphanBlocksByPrev) = {}}}
    ELSE {{}}

\* Mutant: the walk stops one step early.
GetOrphanRoot_Parent(h, orphans) ==
  IF hashPrevBlock[h] \in orphans THEN hashPrevBlock[h] ELSE h

\* GetOrphanRoot: follow the parents as long as they are orphans too.
GetOrphanRoot(h, orphans) ==
  LET root[b \in Block] ==
        IF hashPrevBlock[b] \in orphans THEN root[hashPrevBlock[b]] ELSE b
  IN root[h]

\* ProcessBlock, duplicate check.
IsNew(b) == b \notin mapBlockIndex \cup mapOrphanBlocks

\* ProcessBlock, a block that is already there.
DuplicateBlock(b) == Idle /\ ~IsNew(b) /\ UNCHANGED vars

\* Mutant: only the map by hash is filled in.
StoreOrphan_OneMap(b) ==
  \E victim \in PruneChoices :
    /\ mapOrphanBlocks' = (mapOrphanBlocks \ victim) \cup {b}
    /\ mapOrphanBlocksByPrev' = {e \in mapOrphanBlocksByPrev : e[2] \notin victim}
    /\ hashEnd' = GetOrphanRoot(b, mapOrphanBlocks')
    /\ UNCHANGED <<hashPrevBlock, mapBlockIndex, vWorkQueue, visited, unfinished>>

\* ProcessBlock, unknown parent: prune, keep the block, ask for its root.
StoreOrphan(b) ==
  \E victim \in PruneChoices :
    /\ mapOrphanBlocks' = (mapOrphanBlocks \ victim) \cup {b}
    /\ mapOrphanBlocksByPrev' =
         {e \in mapOrphanBlocksByPrev : e[2] \notin victim} \cup {<<hashPrevBlock[b], b>>}
    /\ hashEnd' = GetOrphanRoot(b, mapOrphanBlocks')
    /\ UNCHANGED <<hashPrevBlock, mapBlockIndex, vWorkQueue, visited, unfinished>>

\* AcceptBlock.
Accept(b, outcome) ==
  /\ mapBlockIndex' = IF outcome = "reject" THEN mapBlockIndex ELSE mapBlockIndex \cup {b}
  /\ unfinished' = IF outcome = "fail" THEN unfinished \cup {b} ELSE unfinished

\* ProcessBlock, known parent: AcceptBlock, then the work queue starts.
AcceptNew(b, outcome) ==
  /\ Accept(b, outcome)
  /\ vWorkQueue' = IF outcome = "ok" THEN <<b>> ELSE <<>>
  /\ UNCHANGED <<hashPrevBlock, mapOrphanBlocks, mapOrphanBlocksByPrev, visited, hashEnd>>

ProcessBlock(b) ==
  /\ Idle /\ IsNew(b)
  /\ IF hashPrevBlock[b] \in mapBlockIndex
       THEN \E outcome \in Outcomes : AcceptNew(b, outcome)
       ELSE StoreOrphan(b)

\* Mutant: an accepted orphan's own children are not looked for.
ProcessOrphan_NotQueued(b, outcome) ==
  /\ ~Idle /\ b \in Dependents(Head(vWorkQueue), mapOrphanBlocksByPrev) \ visited
  /\ Accept(b, outcome)
  /\ mapOrphanBlocks' = mapOrphanBlocks \ {b}
  /\ visited' = visited \cup {b}
  /\ UNCHANGED <<hashPrevBlock, mapOrphanBlocksByPrev, vWorkQueue, hashEnd>>

\* The inner loop: one orphan that waited for the head of the queue.
ProcessOrphan(b, outcome) ==
  /\ ~Idle /\ b \in Dependents(Head(vWorkQueue), mapOrphanBlocksByPrev) \ visited
  /\ Accept(b, outcome)
  /\ vWorkQueue' = IF outcome = "ok" THEN Append(vWorkQueue, b) ELSE vWorkQueue
  /\ mapOrphanBlocks' = mapOrphanBlocks \ {b}
  /\ visited' = visited \cup {b}
  /\ UNCHANGED <<hashPrevBlock, mapOrphanBlocksByPrev, hashEnd>>

\* mapOrphanBlocksByPrev.erase(hashPrev), next round of the outer loop.
NextPrev ==
  /\ ~Idle /\ Dependents(Head(vWorkQueue), mapOrphanBlocksByPrev) \subseteq visited
  /\ mapOrphanBlocksByPrev' = {e \in mapOrphanBlocksByPrev : e[1] # Head(vWorkQueue)}
  /\ vWorkQueue' = Tail(vWorkQueue) /\ visited' = {}
  /\ UNCHANGED <<hashPrevBlock, mapBlockIndex, mapOrphanBlocks, hashEnd, unfinished>>

\* "inv" of a block that is an orphan: its root is asked for again.
InvOrphan(b) ==
  /\ Idle /\ b \in mapOrphanBlocks
  /\ hashEnd' = GetOrphanRoot(b, mapOrphanBlocks)
  /\ UNCHANGED <<hashPrevBlock, mapBlockIndex, mapOrphanBlocks,
                 mapOrphanBlocksByPrev, vWorkQueue, visited, unfinished>>

Next ==
  \/ \E b \in Block : ProcessBlock(b)
  \/ \E b \in Block : DuplicateBlock(b)
  \/ \E b \in Block, outcome \in Outcomes : ProcessOrphan(b, outcome)
  \/ NextPrev
  \/ \E b \in Block : InvOrphan(b)

Spec == Init /\ [][Next]_vars
-----------------------------------------------------------------------------
(* Properties *)

\* Types; a block is never both in the index and an orphan, and the work queue
\* holds indexed blocks only.  (RequestsReachGap gives the type of hashEnd.)
TypeOK ==
  /\ hashPrevBlock \in [Block -> {Genesis} \cup Block]
  /\ mapBlockIndex \subseteq {Genesis} \cup Block
  /\ mapOrphanBlocks \subseteq Block \ mapBlockIndex
  /\ mapOrphanBlocksByPrev \subseteq ({Genesis} \cup Block) \X Block
  /\ vWorkQueue \in Seq(mapBlockIndex)
  /\ visited \subseteq Block
  /\ unfinished \subseteq mapBlockIndex

\* The two maps of ProcessBlock hold the same orphans.  While its loop runs,
\* the map by parent also holds the entries already deleted, all of them below
\* the block at the head of the queue, which the loop does not visit again.
MapsAgree ==
  /\ mapOrphanBlocksByPrev =
       {<<hashPrevBlock[b], b>> : b \in mapOrphanBlocks \cup visited}
  /\ visited \cap mapOrphanBlocks = {}
  /\ \A b \in visited : ~Idle /\ hashPrevBlock[b] = Head(vWorkQueue)

\* PruneOrphanBlocks runs before the insertion, so the maps reach one more than
\* -maxorphanblocks and never grow beyond that.
OrphanLimit == Cardinality(mapOrphanBlocks) <= MaxOrphanBlocks + 1

\* "If we don't already have its previous block, shunt it off to holding area
\* until we get it": whenever ProcessBlock is done, no orphan's parent is known.
\* The one exception is a parent that was indexed by an AcceptBlock that then
\* failed: ProcessBlock returns before it looks at the children, and since the
\* parent is now a duplicate it never comes back to them.
OrphansAwaitParent ==
  Idle => \A b \in mapOrphanBlocks : hashPrevBlock[b] \notin mapBlockIndex \ unfinished

\* An orphan leaves the holding area only when its parent has been indexed, or
\* when the limit is exceeded and no other orphan depends on it: "Remove a
\* random orphan block (which does not have any dependent orphans)".
OrphansKept ==
  [][\A b \in mapOrphanBlocks \ mapOrphanBlocks' :
       \/ hashPrevBlock[b] \in mapBlockIndex
       \/ /\ Cardinality(mapOrphanBlocks) > MaxOrphanBlocks
          /\ \A c \in mapOrphanBlocks : hashPrevBlock[c] # b]_vars

\* What PushGetBlocks asks for ends at a block whose parent the node has
\* neither indexed nor waiting: the answer fills the gap below the orphans.
\* Children of an unfinished block are the exception again.
RequestsReachGap ==
  [][hashEnd' # hashEnd =>
       /\ hashEnd' \in mapOrphanBlocks'
       /\ hashPrevBlock[hashEnd'] \notin
            (mapBlockIndex' \ unfinished') \cup mapOrphanBlocks']_vars
=============================================================================
