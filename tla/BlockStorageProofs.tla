------------------------- MODULE BlockStorageProofs -------------------------
(***************************************************************************)
(* BlockStorage for any set of blocks, any file size and any number of     *)
(* stops.  StoreInv is the structure of memory and disk: the process has   *)
(* in memory what it would read again, and whatever is left of the block   *)
(* tree database holds whole chains.  It gives the refinement of           *)
(* DurableChain.  Safe is what the files hold for the index: which slot is *)
(* whose, what is committed and what is on record as lost.  It holds until *)
(* a reindex skips a part of a file and gives PlacesReserved,              *)
(* SavedTipsRecoverable and StartSucceeds.                                 *)
(***************************************************************************)
EXTENDS BlockStorage, TLAPS

\* Values: an entry of the index, the counters of a file, the contents of all files.
Entry == [nFile : File, nDataPos : Pos, nUndoPos : Pos \cup {NoPos}]
Info == [nSize : Nat, nUndoSize : Nat]
Content == [Slot -> Block \cup {NoBlock}]

\* A block tree database, or what is left of one, holds the whole chain of every
\* block in it, and the counters of every file that has one.
TreeOK(t) ==
  /\ t = [index |-> t.index, info |-> t.info, last |-> t.last, fReindexing |-> t.fReindexing]
  /\ DOMAIN t.index \subseteq Block /\ t.index \in [DOMAIN t.index -> Entry]
  /\ DOMAIN t.info \subseteq File /\ t.info \in [DOMAIN t.info -> Info]
  /\ t.last \in File /\ t.fReindexing \in BOOLEAN
  /\ \A b \in DOMAIN t.index :
       /\ Parent[b] \in DOMAIN t.index \cup {NoBlock}
       /\ t.index[b].nFile \in DOMAIN t.info

\* What is on disk, and what may be left of it.
DiskOK ==
  /\ blk \in Content /\ blkDisk \in Content /\ rev \in Content /\ revDisk \in Content
  /\ tree \in treeDisk
  /\ \A t \in treeDisk : TreeOK(t) /\ DOMAIN t.index \subseteq DOMAIN tree.index
  /\ coins \in coinsDisk /\ coinsDisk \subseteq Block \cup {NoBlock}

\* Where the process can be.
Label == {"down", "init", "last", "data", "index", "start", "activate", "undo", "undoindex",
          "chainstate", "sync", "coins", "idle", "import", "failed", "wipecoins", "mark"}

\* What the process has in memory is what it would read again.
MemoryOK ==
  /\ pc \in [at : Label, b : Block \cup {NoBlock}]
  /\ nLastBlockFile \in File /\ infoLastBlockFile \in Info
  /\ fReindex \in BOOLEAN /\ nLastWrite \in BOOLEAN /\ scan \in Nat \X Nat
  /\ Down => /\ mapBlockIndex = <<>> /\ tip = NoBlock /\ nLastWrite = FALSE
             /\ nLastBlockFile = 0 /\ infoLastBlockFile = NullInfo
  /\ ~Down =>
       /\ mapBlockIndex = tree.index
       /\ tip \in Known \cup {NoBlock}
       /\ infoLastBlockFile = ReadOr(tree.info, nLastBlockFile, NullInfo)
       /\ At("last") \/ nLastBlockFile = tree.last

\* What AcceptBlock and ActivateBestChain have established between their writes.
StepOK ==
  /\ pc.at \in {"idle", "init", "data"} => ~fReindex
  /\ pc.at \in {"wipecoins", "mark"} => DOMAIN tree.index = {}
  /\ pc.at \in {"last", "data", "index"} =>
       /\ pc.b \in Block /\ Parent[pc.b] \in Known \cup {NoBlock}
       /\ nLastBlockFile \in DOMAIN tree.info
       /\ infoLastBlockFile.nSize > 0
       /\ IF fReindex THEN scan[2] - 1 \in Pos ELSE NewPos \in Pos
  /\ At("activate") => pc.b \in Known \cup {NoBlock}
  /\ pc.at \in {"chainstate", "sync", "coins"} => pc.b \in Known /\ tip # NoBlock
  /\ pc.at \in {"undo", "undoindex"} =>
       /\ pc.b \in Known /\ tip \in ChainOf(pc.b) /\ tip # pc.b
       /\ NextBlock # Genesis /\ ~HasUndo(NextBlock)
       /\ UndoSlot[2] \in Pos

\* The structure of memory and disk.
StoreInv == DiskOK /\ MemoryOK /\ StepOK

-----------------------------------------------------------------------------
(* Chains *)

\* The chain of a block has it, its ancestors down to the genesis block and
\* nothing that a set closed under parents could do without.
LEMMA ChainFacts ==
  ASSUME NEW b \in Block
  PROVE  /\ Chain[b] \subseteq Block /\ b \in Chain[b] /\ Genesis \in Chain[b]
         /\ \A c \in Chain[b] \ {Genesis} : Parent[c] \in Chain[b]
         /\ \A X \in SUBSET Block :
              b \in X /\ (\A x \in X \ {Genesis} : Parent[x] \in X) => Chain[b] \subseteq X
<1>1. Chain[b] = {c \in Block : \A X \in SUBSET Block :
        b \in X /\ (\A x \in X \ {Genesis} : Parent[x] \in X) => c \in X}
  BY DEF Chain
<1>2. Genesis \in Chain[b]
  BY StorageAssumption
<1>3. \A c \in Block \ {Genesis} : Parent[c] \in Block
  BY StorageAssumption
<1> QED
  BY <1>1, <1>2, <1>3, Zenon

\* The last of these facts for one set.
LEMMA ChainLeast ==
  ASSUME NEW b \in Block, NEW X \in SUBSET Block, b \in X,
         \A x \in X \ {Genesis} : Parent[x] \in X
  PROVE  Chain[b] \subseteq X
<1>1. \A Y \in SUBSET Block :
        b \in Y /\ (\A x \in Y \ {Genesis} : Parent[x] \in Y) => Chain[b] \subseteq Y
  BY ChainFacts, Zenon
<1> QED
  BY <1>1, Zenon

\* The chain of a block is that of its parent and the block.
LEMMA ChainStep ==
  ASSUME NEW b \in Block
  PROVE  /\ ChainOf(b) \subseteq {b} \cup ChainOf(Parent[b])
         /\ ChainOf(Parent[b]) \subseteq ChainOf(b)
<1>1. b # NoBlock /\ ChainOf(b) = Chain[b]
  BY StorageAssumption DEF ChainOf
<1>2. CASE b = Genesis
  <2>1. ChainOf(Parent[b]) = {}
    BY <1>2, StorageAssumption DEF ChainOf
  <2>2. {b} \in SUBSET Block /\ b \in {b} /\ \A x \in {b} \ {Genesis} : Parent[x] \in {b}
    BY <1>2
  <2>3. Chain[b] \subseteq {b}
    BY <2>2, ChainLeast, Zenon
  <2> QED
    BY <1>1, <2>1, <2>3
<1>3. CASE b # Genesis
  <2> DEFINE p == Parent[b]
             X == {b} \cup Chain[p]
  <2>1. p \in Block /\ ChainOf(p) = Chain[p]
    BY <1>3, StorageAssumption DEF ChainOf
  <2> HIDE DEF p
  <2>2. /\ Chain[p] \subseteq Block /\ p \in Chain[p]
        /\ \A c \in Chain[p] \ {Genesis} : Parent[c] \in Chain[p]
    BY <2>1, ChainFacts
  <2>3. X \in SUBSET Block /\ b \in X /\ \A x \in X \ {Genesis} : Parent[x] \in X
    BY <2>2 DEF p
  <2>4. Chain[b] \subseteq X
    BY <2>3, ChainLeast, Zenon
  <2>5. Chain[b] \in SUBSET Block /\ p \in Chain[b]
        /\ \A x \in Chain[b] \ {Genesis} : Parent[x] \in Chain[b]
    BY <1>3, ChainFacts DEF p
  <2>6. Chain[p] \subseteq Chain[b]
    BY <2>1, <2>5, ChainLeast, Zenon
  <2> QED
    BY <1>1, <2>1, <2>4, <2>6 DEF p
<1> QED
  BY <1>2, <1>3

\* NextBlock as a function of the block aimed at and the tip.
NextOf(b, p) == CHOOSE c \in ChainOf(b) : Parent[c] = p

\* Between two blocks of a chain there is a next one to connect.
LEMMA NextExists ==
  ASSUME NEW b \in Block, NEW p \in ChainOf(b) \cup {NoBlock}, p # b
  PROVE  /\ NextOf(b, p) \in ChainOf(b) /\ NextOf(b, p) \in Block
         /\ Parent[NextOf(b, p)] = p
<1>1. ChainOf(b) = Chain[b] /\ Chain[b] \subseteq Block /\ b \in Chain[b] /\ Genesis \in Chain[b]
      /\ \A c \in Chain[b] \ {Genesis} : Parent[c] \in Chain[b]
  BY ChainFacts, StorageAssumption DEF ChainOf
<1>2. \E c \in ChainOf(b) : Parent[c] = p
  <2>1. CASE p = NoBlock
    BY <1>1, <2>1, StorageAssumption
  <2>2. CASE p # NoBlock
    <3> SUFFICES ASSUME \A c \in Chain[b] : Parent[c] # p
                 PROVE  FALSE
      BY <1>1
    <3> DEFINE X == Chain[b] \ {p}
    <3>1. X \in SUBSET Block /\ b \in X /\ \A x \in X \ {Genesis} : Parent[x] \in X
      BY <1>1
    <3>2. Chain[b] \subseteq X
      BY <3>1, ChainLeast, Zenon
    <3> QED
      BY <1>1, <2>2, <3>2
  <2> QED
    BY <2>1, <2>2
<1>3. NextOf(b, p) \in ChainOf(b) /\ Parent[NextOf(b, p)] = p
  BY <1>2, Zenon DEF NextOf
<1> QED
  BY <1>1, <1>3

\* An index closed under parents has the whole chain of each of its blocks.
LEMMA ChainIndexed ==
  ASSUME NEW S \in SUBSET Block, \A c \in S : Parent[c] \in S \cup {NoBlock},
         NEW b \in S \cup {NoBlock}
  PROVE  ChainOf(b) \subseteq S
<1>1. CASE b = NoBlock
  BY <1>1 DEF ChainOf
<1>2. CASE b # NoBlock
  <2>1. b \in S /\ ChainOf(b) = Chain[b] /\ b \in Block
    BY <1>2 DEF ChainOf
  <2>2. \A c \in S \ {Genesis} : Parent[c] \in S
    BY StorageAssumption
  <2>3. Chain[b] \subseteq S
    <3>1. S \in SUBSET Block
      OBVIOUS
    <3> QED
      BY <2>1, <2>2, <3>1, ChainLeast
  <2> QED
    BY <2>1, <2>3
<1> QED
  BY <1>1, <1>2

-----------------------------------------------------------------------------
(* Writes to the block tree database *)

\* The counters of a file and the entry of a block written.
SetInfo(t, n, i) == [t EXCEPT !.info = With(@, n, i)]
SetIndex(t, b, e) == [t EXCEPT !.index = With(@, b, e)]

\* Writing the counters of a file.
LEMMA InfoWritten ==
  ASSUME NEW t, TreeOK(t), NEW n \in File, NEW i \in Info
  PROVE  LET u == SetInfo(t, n, i) IN
         /\ TreeOK(u)
         /\ u.index = t.index /\ u.last = t.last /\ u.fReindexing = t.fReindexing
         /\ DOMAIN u.info = DOMAIN t.info \cup {n} /\ u.info[n] = i
         /\ \A m \in DOMAIN t.info \ {n} : u.info[m] = t.info[m]
<1> DEFINE u == SetInfo(t, n, i)
           f == With(t.info, n, i)
<1>1. u = [index |-> t.index, info |-> f, last |-> t.last, fReindexing |-> t.fReindexing]
  BY DEF TreeOK, SetInfo
<1>2. /\ DOMAIN f = DOMAIN t.info \cup {n} /\ f[n] = i
      /\ \A m \in DOMAIN t.info \ {n} : f[m] = t.info[m]
      /\ f = [x \in DOMAIN f |-> f[x]]
  BY DEF With
<1> HIDE DEF f, u
<1>3. f \in [DOMAIN f -> Info]
  BY <1>2 DEF TreeOK
<1>4. TreeOK(u)
  BY <1>1, <1>2, <1>3 DEF TreeOK
<1> QED
  BY <1>1, <1>2, <1>4 DEF u

\* Writing the index entry of a block whose parent is in the index.
LEMMA IndexWritten ==
  ASSUME NEW t, TreeOK(t), NEW b \in Block, NEW e \in Entry,
         Parent[b] \in DOMAIN t.index \cup {NoBlock}, e.nFile \in DOMAIN t.info
  PROVE  LET u == SetIndex(t, b, e) IN
         /\ TreeOK(u)
         /\ u.info = t.info /\ u.last = t.last /\ u.fReindexing = t.fReindexing
         /\ u.index = With(t.index, b, e)
         /\ DOMAIN u.index = DOMAIN t.index \cup {b} /\ u.index[b] = e
         /\ \A c \in DOMAIN t.index \ {b} : u.index[c] = t.index[c]
<1> DEFINE u == SetIndex(t, b, e)
           f == With(t.index, b, e)
<1>1. u = [index |-> f, info |-> t.info, last |-> t.last, fReindexing |-> t.fReindexing]
  BY DEF TreeOK, SetIndex
<1>2. /\ DOMAIN f = DOMAIN t.index \cup {b} /\ f[b] = e
      /\ \A c \in DOMAIN t.index \ {b} : f[c] = t.index[c]
      /\ f = [x \in DOMAIN f |-> f[x]]
  BY DEF With
<1> HIDE DEF f, u
<1>3. f \in [DOMAIN f -> Entry]
  BY <1>2 DEF TreeOK
<1>4. \A c \in DOMAIN f : Parent[c] \in DOMAIN f \cup {NoBlock} /\ f[c].nFile \in DOMAIN t.info
  BY <1>2 DEF TreeOK
<1>5. TreeOK(u)
  BY <1>1, <1>2, <1>3, <1>4 DEF TreeOK
<1> QED
  BY <1>1, <1>2, <1>5 DEF u, f

\* The other two records.
LEMMA MarkWritten ==
  ASSUME NEW t, TreeOK(t), NEW n \in File, NEW r \in BOOLEAN
  PROVE  /\ TreeOK([t EXCEPT !.last = n])
         /\ [t EXCEPT !.last = n].index = t.index /\ [t EXCEPT !.last = n].info = t.info
         /\ [t EXCEPT !.last = n].last = n
         /\ TreeOK([t EXCEPT !.fReindexing = r])
         /\ [t EXCEPT !.fReindexing = r].index = t.index
         /\ [t EXCEPT !.fReindexing = r].info = t.info
         /\ [t EXCEPT !.fReindexing = r].last = t.last
<1>1. t = [index |-> t.index, info |-> t.info, last |-> t.last, fReindexing |-> t.fReindexing]
  BY DEF TreeOK
<1>2. [t EXCEPT !.last = n] = [index |-> t.index, info |-> t.info, last |-> n,
                               fReindexing |-> t.fReindexing]
  BY <1>1
<1>3. [t EXCEPT !.fReindexing = r] = [index |-> t.index, info |-> t.info, last |-> t.last,
                                      fReindexing |-> r]
  BY <1>1
<1> QED
  BY <1>2, <1>3 DEF TreeOK

\* A write to the database adds one more rest, of which all others are a part.
LEMMA TreeWritten ==
  ASSUME DiskOK, NEW u, TreeOK(u), DOMAIN tree.index \subseteq DOMAIN u.index, WriteTree(u)
  PROVE  /\ tree' = u /\ tree' \in treeDisk'
         /\ \A t \in treeDisk' : TreeOK(t) /\ DOMAIN t.index \subseteq DOMAIN tree'.index
  BY DEF WriteTree, DiskOK

\* The counters of a file that has none yet are zero.
LEMMA InfoRead ==
  ASSUME NEW t, TreeOK(t), NEW n
  PROVE  ReadOr(t.info, n, NullInfo) \in Info
  BY DEF ReadOr, NullInfo, TreeOK, Info

\* One more block, one more undo record.
LEMMA InfoGrown ==
  ASSUME NEW i \in Info
  PROVE  /\ [i EXCEPT !.nSize = @ + 1] \in Info
         /\ [i EXCEPT !.nSize = @ + 1].nSize = i.nSize + 1
         /\ [i EXCEPT !.nSize = @ + 1].nUndoSize = i.nUndoSize
         /\ [i EXCEPT !.nUndoSize = @ + 1] \in Info
         /\ [i EXCEPT !.nUndoSize = @ + 1].nSize = i.nSize
         /\ [i EXCEPT !.nUndoSize = @ + 1].nUndoSize = i.nUndoSize + 1
  BY DEF Info

\* FileCommit keeps the files files.
LEMMA CommittedFacts ==
  ASSUME NEW disk \in Content, NEW f \in Content, NEW n
  PROVE  /\ Committed(disk, f, n) \in Content
         /\ \A s \in Slot : Committed(disk, f, n)[s] = IF s[1] = n THEN f[s] ELSE disk[s]
  BY DEF Committed, Content

-----------------------------------------------------------------------------
(* The structure of memory and disk is kept *)

\* The process starts with nothing in memory and an empty disk.
LEMMA InitStore ==
  ASSUME Init
  PROVE  StoreInv
<1>1. EmptyTree.index = <<>> /\ EmptyTree.info = <<>> /\ EmptyTree.last = 0
      /\ EmptyTree.fReindexing = FALSE /\ DOMAIN <<>> = {}
  BY DEF EmptyTree
<1>2. TreeOK(EmptyTree)
  BY <1>1, StorageAssumption DEF TreeOK, EmptyTree, File
<1>3. DiskOK
  BY <1>1, <1>2 DEF Init, DiskOK, Content
<1>4. MemoryOK
  <2>1. pc \in [at : Label, b : Block \cup {NoBlock}] /\ Down
    BY DEF Init, Label, Down, At
  <2>2. nLastBlockFile \in File /\ infoLastBlockFile \in Info /\ scan \in Nat \X Nat
    BY StorageAssumption DEF Init, File, Info, NullInfo
  <2>3. fReindex \in BOOLEAN /\ nLastWrite \in BOOLEAN /\ nLastWrite = FALSE
    BY Zenon DEF Init
  <2>4. mapBlockIndex = <<>> /\ tip = NoBlock /\ nLastBlockFile = 0 /\ infoLastBlockFile = NullInfo
    BY DEF Init
  <2> QED
    BY <2>1, <2>2, <2>3, <2>4 DEF MemoryOK
<1> QED
  BY <1>3, <1>4 DEF Init, StoreInv, StepOK, At

\* What FindBlockPos does to the counters: one more block in the file that is now
\* the last.
Grown ==
  LET n == nLastBlockFile'
      old == ReadOr(tree.info, n, NullInfo)
  IN /\ n \in File /\ old \in Info /\ infoLastBlockFile' \in Info
     /\ infoLastBlockFile'.nSize = old.nSize + 1
     /\ infoLastBlockFile'.nUndoSize = old.nUndoSize
     /\ TreeOK(tree) /\ TreeOK(tree')
     /\ tree'.index = tree.index /\ treeDisk' = treeDisk \cup {tree'}
     /\ DOMAIN tree'.info = DOMAIN tree.info \cup {n} /\ tree'.info[n] = infoLastBlockFile'
     /\ \A m \in DOMAIN tree.info \ {n} : tree'.info[m] = tree.info[m]

\* FindBlockPos.
LEMMA FindBlockPosStore ==
  ASSUME StoreInv, NEW b \in Block, Parent[b] \in Known \cup {NoBlock},
         pc.at \in {"idle", "init"}, FindBlockPos(b)
  PROVE  /\ StoreInv' /\ Grown
         /\ mapBlockIndex' = mapBlockIndex /\ tip' = tip /\ coinsDisk' = coinsDisk
         /\ ~Down /\ ~Down'
<1> DEFINE leave == ~Room(infoLastBlockFile)
           n == IF leave THEN nLastBlockFile + 1 ELSE nLastBlockFile
           old == IF leave THEN NextInfo ELSE infoLastBlockFile
           new == [old EXCEPT !.nSize = @ + 1]
<1>1. /\ n \in File /\ Room(old)
      /\ nLastBlockFile' = n /\ infoLastBlockFile' = new
      /\ WriteTree(SetInfo(tree, n, new))
      /\ pc' = [at |-> IF leave THEN "last" ELSE "data", b |-> b]
      /\ UNCHANGED <<mapBlockIndex, tip, nLastWrite, fReindex, scan, blk, rev, coins, coinsDisk>>
  BY DEF FindBlockPos, SetInfo, Goto
<1>2. blkDisk' \in Content /\ revDisk' \in Content
  <2>1. CASE leave
    <3>1. /\ blkDisk' = Committed(blkDisk, blk, nLastBlockFile)
          /\ revDisk' = Committed(revDisk, rev, nLastBlockFile)
      BY <2>1 DEF FindBlockPos
    <3> QED
      BY <3>1, CommittedFacts DEF StoreInv, DiskOK
  <2>2. CASE ~leave
    BY <2>2 DEF FindBlockPos, StoreInv, DiskOK
  <2> QED
    BY <2>1, <2>2
<1>3. DiskOK /\ MemoryOK /\ StepOK /\ TreeOK(tree) /\ ~Down /\ ~fReindex
  BY DEF StoreInv, DiskOK, StepOK, Down, At
<1>4. old \in Info /\ old = ReadOr(tree.info, n, NullInfo)
  BY <1>3, InfoRead DEF MemoryOK, NextInfo
<1> HIDE DEF leave, old
<1>5. new \in Info /\ new.nSize = old.nSize + 1 /\ new.nUndoSize = old.nUndoSize
  BY <1>4, InfoGrown
<1>6. new.nSize > 0 /\ new.nSize - 1 \in Pos
  BY <1>1, <1>4, <1>5, StorageAssumption DEF Room, Pos, Info
<1> HIDE DEF new, n
<1>7. LET u == SetInfo(tree, n, new) IN
      /\ TreeOK(u) /\ u.index = tree.index /\ u.last = tree.last
      /\ DOMAIN u.info = DOMAIN tree.info \cup {n} /\ u.info[n] = new
      /\ \A m \in DOMAIN tree.info \ {n} : u.info[m] = tree.info[m]
  BY <1>1, <1>3, <1>5, InfoWritten
<1>8. /\ tree' = SetInfo(tree, n, new) /\ tree' \in treeDisk'
      /\ treeDisk' = treeDisk \cup {tree'}
      /\ \A t \in treeDisk' : TreeOK(t) /\ DOMAIN t.index \subseteq DOMAIN tree'.index
  BY <1>1, <1>3, <1>7, TreeWritten DEF WriteTree
<1>9. /\ tree'.index = tree.index /\ tree'.last = tree.last
      /\ n \in DOMAIN tree'.info /\ tree'.info[n] = new
  BY <1>7, <1>8
<1>10. DiskOK'
  BY <1>1, <1>2, <1>3, <1>8 DEF DiskOK
<1>11. ~leave => n = nLastBlockFile
  BY DEF n
<1>12. MemoryOK'
  BY <1>1, <1>3, <1>5, <1>9, <1>11 DEF MemoryOK, Label, Down, At, ReadOr, Known
<1>13. StepOK'
  BY <1>1, <1>3, <1>6, <1>9 DEF StepOK, At, Known, NewPos
<1>14. Grown
  BY <1>1, <1>3, <1>4, <1>5, <1>7, <1>8 DEF Grown
<1> QED
  BY <1>1, <1>3, <1>10, <1>12, <1>13, <1>14 DEF StoreInv, Down, At

\* WriteLastBlockFile.
LEMMA WriteLastBlockFileStore ==
  ASSUME StoreInv, WriteLastBlockFile
  PROVE  StoreInv'
<1> DEFINE u == [tree EXCEPT !.last = nLastBlockFile]
<1>1. /\ pc.at = "last" /\ WriteTree(u)
      /\ pc' = [at |-> IF fReindex THEN "index" ELSE "data", b |-> pc.b]
      /\ UNCHANGED <<mem, files, coins, coinsDisk>>
  BY DEF WriteLastBlockFile, At, Goto
<1>2. DiskOK /\ MemoryOK /\ StepOK /\ TreeOK(tree) /\ ~Down /\ nLastBlockFile \in File
  BY <1>1 DEF StoreInv, DiskOK, MemoryOK, Down, At
<1>3. TreeOK(u) /\ u.index = tree.index /\ u.info = tree.info /\ u.last = nLastBlockFile
  BY <1>2, MarkWritten
<1> HIDE DEF u
<1>4. /\ tree' = u /\ tree' \in treeDisk'
      /\ \A t \in treeDisk' : TreeOK(t) /\ DOMAIN t.index \subseteq DOMAIN tree'.index
  BY <1>1, <1>2, <1>3, TreeWritten
<1>5. DiskOK'
  BY <1>1, <1>2, <1>4 DEF DiskOK, files
<1>6. MemoryOK'
  BY <1>1, <1>2, <1>3, <1>4 DEF MemoryOK, Label, Down, At, Known, mem
<1>7. StepOK'
  BY <1>1, <1>2, <1>3, <1>4 DEF StepOK, MemoryOK, At, Known, NewPos, mem
<1> QED
  BY <1>5, <1>6, <1>7 DEF StoreInv

\* WriteBlockToDisk.
LEMMA WriteBlockToDiskStore ==
  ASSUME StoreInv, WriteBlockToDisk
  PROVE  StoreInv'
<1> DEFINE s == <<nLastBlockFile, NewPos>>
<1>1. /\ pc.at = "data"
      /\ blk' = [blk EXCEPT ![s] = pc.b]
      /\ blkDisk' = Committed(blkDisk, blk', nLastBlockFile) \/ blkDisk' = blkDisk
      /\ pc' = [at |-> "index", b |-> pc.b]
      /\ UNCHANGED <<mem, rev, revDisk, tree, treeDisk, coins, coinsDisk>>
  BY DEF WriteBlockToDisk, At, Goto
<1>2. DiskOK /\ MemoryOK /\ StepOK /\ ~Down /\ pc.b \in Block
  BY <1>1 DEF StoreInv, StepOK, Down, At
<1>3. blk' \in Content
  BY <1>1, <1>2 DEF DiskOK, Content
<1>4. blkDisk' \in Content
  BY <1>1, <1>2, <1>3, CommittedFacts DEF DiskOK
<1>5. DiskOK'
  BY <1>1, <1>2, <1>3, <1>4 DEF DiskOK
<1>6. MemoryOK'
  BY <1>1, <1>2 DEF MemoryOK, Label, Down, At, Known, mem
<1>7. StepOK'
  BY <1>1, <1>2 DEF StepOK, At, Known, NewPos, mem
<1> QED
  BY <1>5, <1>6, <1>7 DEF StoreInv

\* The entry AddToBlockIndex writes.
NewEntry == [nFile |-> nLastBlockFile, nDataPos |-> IF fReindex THEN scan[2] - 1 ELSE NewPos,
             nUndoPos |-> NoPos]

\* AddToBlockIndex: memory and database get the same entry.
LEMMA AddToBlockIndexStore ==
  ASSUME StoreInv, AddToBlockIndex
  PROVE  /\ StoreInv'
         /\ NewEntry \in Entry
         /\ tree' = SetIndex(tree, pc.b, NewEntry) /\ TreeOK(tree) /\ TreeOK(tree')
         /\ tree'.info = tree.info /\ tree'.last = tree.last
         /\ DOMAIN tree'.index = DOMAIN tree.index \cup {pc.b}
         /\ tree'.index[pc.b] = NewEntry
         /\ \A c \in DOMAIN tree.index \ {pc.b} : tree'.index[c] = tree.index[c]
<1> DEFINE u == SetIndex(tree, pc.b, NewEntry)
<1>1. /\ pc.at = "index"
      /\ mapBlockIndex' = With(mapBlockIndex, pc.b, NewEntry)
      /\ WriteTree(u)
      /\ pc' = [at |-> "activate", b |-> NoBlock]
      /\ UNCHANGED <<nLastBlockFile, infoLastBlockFile, tip, nLastWrite, fReindex, scan,
                     files, coins, coinsDisk>>
  BY DEF AddToBlockIndex, WriteIndex, SetIndex, NewEntry, At, Goto
<1>2. /\ DiskOK /\ MemoryOK /\ StepOK /\ ~Down /\ TreeOK(tree) /\ mapBlockIndex = tree.index
      /\ pc.b \in Block /\ Parent[pc.b] \in DOMAIN tree.index \cup {NoBlock}
      /\ nLastBlockFile \in DOMAIN tree.info
  BY <1>1 DEF StoreInv, DiskOK, MemoryOK, StepOK, Down, At, Known
<1>3. NewEntry \in Entry /\ NewEntry.nFile = nLastBlockFile
  <2>1. nLastBlockFile \in File /\ IF fReindex THEN scan[2] - 1 \in Pos ELSE NewPos \in Pos
    BY <1>1, <1>2 DEF MemoryOK, StepOK
  <2> QED
    BY <2>1 DEF NewEntry, Entry
<1> HIDE DEF NewEntry
<1>4. /\ TreeOK(u) /\ u.info = tree.info /\ u.last = tree.last
      /\ u.index = With(tree.index, pc.b, NewEntry)
      /\ DOMAIN u.index = DOMAIN tree.index \cup {pc.b} /\ u.index[pc.b] = NewEntry
      /\ \A c \in DOMAIN tree.index \ {pc.b} : u.index[c] = tree.index[c]
  BY <1>2, <1>3, IndexWritten
<1> HIDE DEF u
<1>5. /\ tree' = u /\ tree' \in treeDisk'
      /\ \A t \in treeDisk' : TreeOK(t) /\ DOMAIN t.index \subseteq DOMAIN tree'.index
  BY <1>1, <1>2, <1>4, TreeWritten
<1>6. DiskOK'
  BY <1>1, <1>2, <1>5 DEF DiskOK, files
<1>7. mapBlockIndex' = tree'.index
  BY <1>1, <1>2, <1>4, <1>5
<1>8. MemoryOK'
  <2>1. tip' \in Known' \cup {NoBlock}
    BY <1>1, <1>2, <1>4, <1>5, <1>7 DEF MemoryOK, Known
  <2> QED
    BY <1>1, <1>2, <1>4, <1>5, <1>7, <2>1 DEF MemoryOK, Label, Down, At
<1>9. StepOK'
  BY <1>1 DEF StepOK, At
<1> QED
  BY <1>2, <1>3, <1>4, <1>5, <1>6, <1>8, <1>9 DEF StoreInv, u

\* The choice of the best chain: FindMostWorkChain, ScanForBetterChains, and the
\* way back to the loops of the node.
LEMMA ChooseStore ==
  ASSUME StoreInv, FindMostWorkChain \/ ScanForBetterChains \/ (At("activate") /\ Fails)
  PROVE  StoreInv' /\ ~Down /\ ~Down' /\ pc'.at \in {"import", "idle", "activate"}
<1>1. UNCHANGED <<mem, files, tree, treeDisk, coins, coinsDisk>>
  BY DEF FindMostWorkChain, ScanForBetterChains, Fails
<1>2. ~Down
  BY DEF FindMostWorkChain, ScanForBetterChains, Down, At
<1>3. \/ pc' = [at |-> Done, b |-> NoBlock]
      \/ \E b \in Known \cup {NoBlock} : pc' = [at |-> "activate", b |-> b]
  BY DEF FindMostWorkChain, ScanForBetterChains, Fails, Goto
<1>4. DiskOK' /\ DiskOK /\ MemoryOK /\ StepOK
  BY <1>1 DEF StoreInv, DiskOK, files
<1>5. /\ pc' \in [at : {"import", "idle", "activate"}, b : Known \cup {NoBlock}]
      /\ pc'.at = "idle" => ~fReindex
  BY <1>3 DEF Done
<1>6. Known \subseteq Block
  BY <1>2, <1>4 DEF DiskOK, TreeOK, MemoryOK, Known
<1>7. ~At("last")
  BY DEF FindMostWorkChain, ScanForBetterChains, At
<1>8. MemoryOK'
  BY <1>1, <1>2, <1>4, <1>5, <1>6, <1>7 DEF MemoryOK, mem, Label, Down, At, Known
<1>9. StepOK'
  BY <1>1, <1>4, <1>5 DEF StepOK, mem, At, Known
<1> QED
  BY <1>2, <1>4, <1>5, <1>8, <1>9 DEF StoreInv, Down, At

\* The block to connect is in the index.
LEMMA NextKnown ==
  ASSUME StoreInv, ~Down, pc.b \in Known, tip \in ChainOf(pc.b) \cup {NoBlock}, tip # pc.b
  PROVE  /\ NextBlock = NextOf(pc.b, tip)
         /\ NextBlock \in Known /\ NextBlock \in ChainOf(pc.b) /\ NextBlock \in Block
         /\ Parent[NextBlock] = tip
<1>1. NextBlock = NextOf(pc.b, tip)
  BY DEF NextBlock, NextOf
<1>2. Known \in SUBSET Block /\ \A c \in Known : Parent[c] \in Known \cup {NoBlock}
  BY DEF StoreInv, DiskOK, MemoryOK, TreeOK, Known
<1>3. ChainOf(pc.b) \subseteq Known
  BY <1>2, ChainIndexed
<1> QED
  BY <1>1, <1>2, <1>3, NextExists

\* DisconnectTip, when the data can be read: the genesis block stays.
LEMMA DisconnectTipStore ==
  ASSUME StoreInv, At("activate"), pc.b # NoBlock, tip \notin ChainOf(pc.b) \cup {NoBlock},
         tip' = Parent[tip], Goto("chainstate", pc.b),
         UNCHANGED <<mapBlockIndex, nLastBlockFile, infoLastBlockFile, nLastWrite, fReindex,
                     scan, files, tree, treeDisk, coins, coinsDisk>>
  PROVE  StoreInv' /\ tip \in Block /\ tip # Genesis
<1>1. /\ DiskOK' /\ DiskOK /\ MemoryOK /\ StepOK /\ ~Down /\ pc.b \in Known
      /\ tip \in Known /\ Known \subseteq Block
      /\ pc' = [at |-> "chainstate", b |-> pc.b]
  BY DEF StoreInv, DiskOK, MemoryOK, StepOK, TreeOK, Down, At, Known, Goto, files
<1>2. tip # Genesis
  BY <1>1, ChainFacts DEF ChainOf
<1>3. tip' \in Known /\ tip' # NoBlock
  BY <1>1, <1>2, StorageAssumption DEF DiskOK, TreeOK, MemoryOK, Known
<1>4. MemoryOK'
  BY <1>1, <1>3 DEF MemoryOK, Label, Down, At, Known
<1>5. StepOK'
  BY <1>1, <1>3 DEF StepOK, At, Known
<1> QED
  BY <1>1, <1>2, <1>4, <1>5 DEF StoreInv

\* ConnectTip, when there is nothing to write.
LEMMA ConnectTipStore ==
  ASSUME StoreInv, Connecting, tip # pc.b, tip' = NextBlock, Goto("chainstate", pc.b),
         UNCHANGED <<mapBlockIndex, nLastBlockFile, infoLastBlockFile, nLastWrite, fReindex,
                     scan, files, tree, treeDisk, coins, coinsDisk>>
  PROVE  /\ StoreInv' /\ NextBlock \in Known /\ Parent[NextBlock] = tip
         /\ NextBlock \in Block
<1>1. /\ DiskOK' /\ DiskOK /\ MemoryOK /\ StepOK /\ ~Down /\ pc.b \in Known
      /\ pc' = [at |-> "chainstate", b |-> pc.b] /\ Known \subseteq Block
      /\ tip \in ChainOf(pc.b) \cup {NoBlock} /\ ~At("last")
  BY DEF StoreInv, DiskOK, MemoryOK, StepOK, TreeOK, Connecting, Down, At, Known, Goto, files
<1>2. NextBlock \in Known /\ Parent[NextBlock] = tip /\ NextBlock \in Block
  BY <1>1, NextKnown
<1>3. MemoryOK'
  BY <1>1, <1>2 DEF MemoryOK, Label, Down, At, Known
<1>4. StepOK'
  BY <1>1, <1>2, StorageAssumption DEF StepOK, At, Known
<1> QED
  BY <1>1, <1>2, <1>3, <1>4 DEF StoreInv

\* The place of the undo data: that of the block to connect.
UndoFile == mapBlockIndex[NextBlock].nFile

\* UndoSlot by its file.
LEMMA UndoSlotIs ==
  UndoSlot = <<UndoFile, tree.info[UndoFile].nUndoSize - 1>>
  BY DEF UndoSlot, UndoFile

\* What FindUndoPos does to the counters.
LEMMA FindUndoPosStore ==
  ASSUME StoreInv, FindUndoPos
  PROVE  /\ StoreInv' /\ ~Down /\ ~Down'
         /\ pc.b \in Known /\ tip \in ChainOf(pc.b) \cup {NoBlock} /\ tip # pc.b
         /\ NextBlock \in Known /\ ~HasUndo(NextBlock) /\ UndoFile \in DOMAIN tree.info
         /\ NextBlock' = NextBlock /\ UndoFile' = UndoFile
         /\ mapBlockIndex' = mapBlockIndex /\ tip' = tip /\ coinsDisk' = coinsDisk
         /\ tree'.index = tree.index /\ tree'.last = tree.last
         /\ DOMAIN tree'.info = DOMAIN tree.info
         /\ tree'.info[UndoFile].nSize = tree.info[UndoFile].nSize
         /\ tree'.info[UndoFile].nUndoSize = tree.info[UndoFile].nUndoSize + 1
         /\ \A m \in DOMAIN tree.info \ {UndoFile} : tree'.info[m] = tree.info[m]
         /\ treeDisk' = treeDisk \cup {tree'} /\ TreeOK(tree)
<1> DEFINE n == UndoFile
           old == IF n = nLastBlockFile THEN infoLastBlockFile ELSE tree.info[n]
           new == [old EXCEPT !.nUndoSize = @ + 1]
           u == SetInfo(tree, n, new)
<1>1. /\ Connecting /\ tip # pc.b
      /\ NextBlock # Genesis /\ ~HasUndo(NextBlock)
      /\ old.nUndoSize \in Pos
      /\ infoLastBlockFile' = IF n = nLastBlockFile THEN new ELSE infoLastBlockFile
      /\ WriteTree(u)
      /\ pc' = [at |-> "undo", b |-> pc.b]
      /\ UNCHANGED <<mapBlockIndex, nLastBlockFile, tip, nLastWrite, fReindex, scan, files,
                     coins, coinsDisk>>
  BY DEF FindUndoPos, UndoFile, SetInfo, Goto
<1>2. /\ DiskOK /\ MemoryOK /\ StepOK /\ ~Down /\ pc.b \in Known /\ TreeOK(tree)
      /\ tip \in ChainOf(pc.b) \cup {NoBlock} /\ ~At("last")
      /\ mapBlockIndex = tree.index
  BY <1>1 DEF StoreInv, DiskOK, MemoryOK, StepOK, Connecting, Down, At
<1>3. /\ NextBlock \in Known /\ NextBlock = NextOf(pc.b, tip) /\ NextBlock \in Block
      /\ Parent[NextBlock] = tip
  BY <1>1, <1>2, NextKnown
<1>4. n \in DOMAIN tree.info /\ n \in File
  BY <1>2, <1>3 DEF TreeOK, UndoFile, Known
<1>5. old = tree.info[n] /\ old \in Info
  BY <1>2, <1>4 DEF TreeOK, MemoryOK, ReadOr
<1> HIDE DEF old
<1>6. new \in Info /\ new.nSize = old.nSize /\ new.nUndoSize = old.nUndoSize + 1
  BY <1>5, InfoGrown
<1> HIDE DEF new, n
<1>7. /\ TreeOK(u) /\ u.index = tree.index /\ u.last = tree.last
      /\ DOMAIN u.info = DOMAIN tree.info \cup {n} /\ u.info[n] = new
      /\ \A m \in DOMAIN tree.info \ {n} : u.info[m] = tree.info[m]
  BY <1>2, <1>4, <1>6, InfoWritten
<1> HIDE DEF u
<1>8. /\ tree' = u /\ tree' \in treeDisk' /\ treeDisk' = treeDisk \cup {u}
      /\ \A t \in treeDisk' : TreeOK(t) /\ DOMAIN t.index \subseteq DOMAIN tree'.index
  BY <1>1, <1>2, <1>7, TreeWritten DEF WriteTree
<1>9. DiskOK'
  BY <1>1, <1>2, <1>8 DEF DiskOK, files
<1>10. infoLastBlockFile' = ReadOr(tree'.info, nLastBlockFile, NullInfo) /\ infoLastBlockFile' \in Info
  <2>1. CASE n = nLastBlockFile
    BY <1>1, <1>6, <1>7, <1>8, <2>1 DEF ReadOr
  <2>2. CASE n # nLastBlockFile
    BY <1>1, <1>2, <1>4, <1>7, <1>8, <2>2 DEF ReadOr, MemoryOK
  <2> QED
    BY <2>1, <2>2
<1>11. MemoryOK'
  BY <1>1, <1>2, <1>7, <1>8, <1>10 DEF MemoryOK, Label, Down, At, Known
<1>12. NextBlock' = NextBlock
  <2>1. NextBlock' = NextOf(pc'.b, tip')
    BY DEF NextBlock, NextOf
  <2> QED
    BY <1>1, <1>3, <2>1
<1>13. UndoFile' = UndoFile
  BY <1>1, <1>12 DEF UndoFile
<1>14. UndoSlot'[2] = old.nUndoSize
  <2>1. UndoSlot' = <<UndoFile', tree'.info[UndoFile'].nUndoSize - 1>>
    BY DEF UndoSlot, UndoFile
  <2>2. tree'.info[UndoFile'] = new
    BY <1>7, <1>8, <1>13 DEF n
  <2> QED
    BY <1>5, <1>6, <2>1, <2>2 DEF Info
<1>15. tip # NoBlock
  BY <1>1, <1>3, StorageAssumption
<1>16. StepOK'
  BY <1>1, <1>2, <1>12, <1>14, <1>15 DEF StepOK, At, Known, HasUndo
<1> QED
  BY <1>1, <1>2, <1>3, <1>4, <1>5, <1>6, <1>7, <1>8, <1>9, <1>11, <1>12, <1>13, <1>16
  DEF StoreInv, Down, At, n

\* While undo data is written, the block to connect and its place stay.
LEMMA UndoKept ==
  ASSUME pc'.b = pc.b, tip' = tip, mapBlockIndex' = mapBlockIndex, tree'.info = tree.info
  PROVE  NextBlock' = NextBlock /\ UndoFile' = UndoFile /\ UndoSlot' = UndoSlot
<1>1. NextBlock' = NextOf(pc'.b, tip') /\ NextBlock = NextOf(pc.b, tip)
  BY DEF NextBlock, NextOf
<1>2. NextBlock' = NextBlock
  BY <1>1
<1>3. UndoFile' = UndoFile
  BY <1>2 DEF UndoFile
<1>4. UndoSlot' = <<UndoFile', tree'.info[UndoFile'].nUndoSize - 1>>
  BY DEF UndoSlot, UndoFile
<1> QED
  BY <1>2, <1>3, <1>4, UndoSlotIs

\* Where undo data is being written.
LEMMA UndoSlotOK ==
  ASSUME StoreInv, pc.at \in {"undo", "undoindex"}
  PROVE  /\ DiskOK /\ MemoryOK /\ ~Down /\ TreeOK(tree) /\ mapBlockIndex = tree.index
         /\ pc.b \in Known /\ tip \in ChainOf(pc.b) /\ tip # pc.b
         /\ NextBlock \in Known /\ NextBlock \in Block /\ Parent[NextBlock] = tip
         /\ NextBlock # Genesis /\ ~HasUndo(NextBlock)
         /\ UndoFile \in DOMAIN tree.info /\ UndoFile \in File
         /\ UndoSlot = <<UndoFile, tree.info[UndoFile].nUndoSize - 1>>
         /\ UndoSlot \in Slot
<1>1. /\ DiskOK /\ MemoryOK /\ StepOK /\ ~Down /\ TreeOK(tree) /\ mapBlockIndex = tree.index
      /\ pc.b \in Known /\ tip \in ChainOf(pc.b) /\ tip # pc.b
      /\ NextBlock # Genesis /\ ~HasUndo(NextBlock) /\ UndoSlot[2] \in Pos
  BY DEF StoreInv, DiskOK, MemoryOK, StepOK, Down, At
<1>2. NextBlock \in Known /\ NextBlock \in Block /\ Parent[NextBlock] = tip
  BY <1>1, NextKnown
<1>3. UndoFile \in DOMAIN tree.info /\ UndoFile \in File
  BY <1>1, <1>2 DEF TreeOK, UndoFile, Known
<1> QED
  BY <1>1, <1>2, <1>3, UndoSlotIs DEF Slot

\* WriteUndoToDisk.
LEMMA WriteUndoToDiskStore ==
  ASSUME StoreInv, WriteUndoToDisk
  PROVE  StoreInv'
<1>1. /\ pc.at = "undo"
      /\ rev' = [rev EXCEPT ![UndoSlot] = NextBlock]
      /\ revDisk' = Committed(revDisk, rev', UndoSlot[1]) \/ revDisk' = revDisk
      /\ pc' = [at |-> "undoindex", b |-> pc.b]
      /\ UNCHANGED <<mem, blk, blkDisk, tree, treeDisk, coins, coinsDisk>>
  BY DEF WriteUndoToDisk, At, Goto
<1>2. DiskOK /\ MemoryOK /\ ~Down /\ NextBlock \in Block
  BY <1>1, UndoSlotOK
<1>3. rev' \in Content
  BY <1>1, <1>2 DEF DiskOK, Content
<1>4. revDisk' \in Content
  BY <1>1, <1>2, <1>3, CommittedFacts DEF DiskOK
<1>5. DiskOK'
  BY <1>1, <1>2, <1>3, <1>4 DEF DiskOK
<1>6. MemoryOK'
  BY <1>1, <1>2 DEF MemoryOK, Label, Down, At, Known, mem
<1>7. NextBlock' = NextBlock /\ UndoSlot' = UndoSlot
  BY <1>1, UndoKept DEF mem
<1>8. StepOK'
  BY <1>1, <1>7 DEF StoreInv, StepOK, At, Known, HasUndo, mem
<1> QED
  BY <1>5, <1>6, <1>8 DEF StoreInv

\* The entry ConnectBlock writes.
UndoneEntry == [mapBlockIndex[NextBlock] EXCEPT !.nUndoPos = UndoSlot[2]]

\* ConnectBlock: only the undo position of the entry changes.
LEMMA ConnectBlockStore ==
  ASSUME StoreInv, ConnectBlock
  PROVE  /\ StoreInv' /\ NextBlock \in Known /\ Parent[NextBlock] = tip /\ tip' = NextBlock
         /\ tree' = SetIndex(tree, NextBlock, UndoneEntry) /\ TreeOK(tree')
         /\ mapBlockIndex' = tree'.index
         /\ tree'.info = tree.info /\ tree'.last = tree.last
         /\ DOMAIN tree'.index = DOMAIN tree.index
         /\ tree'.index[NextBlock].nFile = tree.index[NextBlock].nFile
         /\ tree'.index[NextBlock].nDataPos = tree.index[NextBlock].nDataPos
         /\ tree'.index[NextBlock].nUndoPos = UndoSlot[2]
         /\ \A c \in DOMAIN tree.index \ {NextBlock} : tree'.index[c] = tree.index[c]
<1> DEFINE b == NextBlock
           u == SetIndex(tree, b, UndoneEntry)
<1>1. /\ pc.at = "undoindex"
      /\ mapBlockIndex' = With(mapBlockIndex, b, UndoneEntry)
      /\ WriteTree(u)
      /\ tip' = b
      /\ pc' = [at |-> "chainstate", b |-> pc.b]
      /\ UNCHANGED <<nLastBlockFile, infoLastBlockFile, nLastWrite, fReindex, scan, files,
                     coins, coinsDisk>>
  BY DEF ConnectBlock, WriteIndex, SetIndex, UndoneEntry, At, Goto
<1>2. /\ DiskOK /\ MemoryOK /\ ~Down /\ TreeOK(tree) /\ mapBlockIndex = tree.index
      /\ pc.b \in Known /\ b \in Known /\ b \in Block /\ Parent[b] = tip
      /\ UndoFile \in DOMAIN tree.info /\ UndoSlot \in Slot /\ tip \in Known
  <2>1. /\ DiskOK /\ MemoryOK /\ ~Down /\ TreeOK(tree) /\ mapBlockIndex = tree.index
        /\ pc.b \in Known /\ b \in Known /\ b \in Block /\ Parent[b] = tip /\ b # Genesis
        /\ UndoFile \in DOMAIN tree.info /\ UndoSlot \in Slot
    BY <1>1, UndoSlotOK
  <2>2. tip # NoBlock
    BY <2>1, StorageAssumption
  <2> QED
    BY <2>1, <2>2 DEF MemoryOK
<1>3. /\ UndoneEntry \in Entry /\ UndoneEntry.nFile = tree.index[b].nFile
      /\ UndoneEntry.nDataPos = tree.index[b].nDataPos /\ UndoneEntry.nUndoPos = UndoSlot[2]
  <2>1. tree.index[b] \in Entry /\ UndoSlot[2] \in Pos
    BY <1>2 DEF TreeOK, Known, Slot
  <2> QED
    BY <1>2, <2>1 DEF UndoneEntry, Entry
<1>4. UndoneEntry.nFile \in DOMAIN tree.info /\ Parent[b] \in DOMAIN tree.index \cup {NoBlock}
  BY <1>2, <1>3 DEF UndoFile, Known
<1> HIDE DEF b, UndoneEntry
<1>5. /\ TreeOK(u) /\ u.info = tree.info /\ u.last = tree.last
      /\ u.index = With(tree.index, b, UndoneEntry)
      /\ DOMAIN u.index = DOMAIN tree.index \cup {b} /\ u.index[b] = UndoneEntry
      /\ \A c \in DOMAIN tree.index \ {b} : u.index[c] = tree.index[c]
  BY <1>2, <1>3, <1>4, IndexWritten
<1> HIDE DEF u
<1>6. /\ tree' = u /\ tree' \in treeDisk'
      /\ \A t \in treeDisk' : TreeOK(t) /\ DOMAIN t.index \subseteq DOMAIN tree'.index
  BY <1>1, <1>2, <1>5, TreeWritten
<1>7. DiskOK'
  BY <1>1, <1>2, <1>6 DEF DiskOK, files
<1>8. mapBlockIndex' = tree'.index /\ DOMAIN tree'.index = DOMAIN tree.index
  BY <1>1, <1>2, <1>5, <1>6 DEF Known
<1>9. MemoryOK'
  <2>1. tip' \in Known' /\ pc.b \in Block
    BY <1>1, <1>2, <1>8 DEF Known, TreeOK
  <2> QED
    BY <1>1, <1>2, <1>5, <1>6, <1>8, <2>1 DEF MemoryOK, Label, Down, At
<1>10. StepOK'
  BY <1>1, <1>2, <1>8, StorageAssumption DEF StepOK, At, Known
<1> QED
  BY <1>1, <1>2, <1>3, <1>5, <1>6, <1>7, <1>8, <1>9, <1>10 DEF StoreInv, u, b

\* WriteChainState.
LEMMA FlushStore ==
  ASSUME StoreInv, FlushBlockFile \/ SyncBlockTree \/ FlushCoins
  PROVE  StoreInv' /\ ~Down /\ ~Down' /\ mapBlockIndex' = mapBlockIndex /\ tip' = tip
<1>1. /\ UNCHANGED <<mapBlockIndex, nLastBlockFile, infoLastBlockFile, tip, fReindex, scan,
                     blk, rev, tree>>
      /\ pc.at \in {"chainstate", "sync", "coins"}
  BY DEF FlushBlockFile, SyncBlockTree, FlushCoins, mem, files, At
<1>2. /\ DiskOK /\ MemoryOK /\ StepOK /\ ~Down /\ pc.b \in Known /\ Known \subseteq Block
  BY <1>1 DEF StoreInv, DiskOK, MemoryOK, StepOK, TreeOK, Down, At, Known
<1>3. \/ pc' \in [at : {"sync", "coins"}, b : {pc.b}]
      \/ pc' \in [at : {"activate"}, b : {pc.b, NoBlock}]
  BY DEF FlushBlockFile, SyncBlockTree, FlushCoins, Goto
<1>4. blkDisk' \in Content /\ revDisk' \in Content
  <2>1. CASE FlushBlockFile
    BY <1>2, <2>1, CommittedFacts DEF FlushBlockFile, DiskOK
  <2>2. CASE SyncBlockTree \/ FlushCoins
    BY <1>2, <2>2 DEF SyncBlockTree, FlushCoins, DiskOK, files
  <2> QED
    BY <2>1, <2>2
<1>5. treeDisk' \subseteq treeDisk /\ tree \in treeDisk'
  BY <1>2 DEF FlushBlockFile, SyncBlockTree, FlushCoins, DiskOK
<1>6. coins' \in coinsDisk' /\ coinsDisk' \subseteq Block \cup {NoBlock}
  BY <1>2 DEF FlushBlockFile, SyncBlockTree, FlushCoins, DiskOK, WriteCoins, MemoryOK
<1>7. DiskOK'
  BY <1>1, <1>2, <1>4, <1>5, <1>6 DEF DiskOK
<1>8. nLastWrite' \in BOOLEAN
  BY <1>2 DEF FlushBlockFile, SyncBlockTree, FlushCoins, MemoryOK, mem
<1>9. MemoryOK'
  BY <1>1, <1>2, <1>3, <1>8 DEF MemoryOK, Label, Down, At, Known
<1>10. StepOK'
  BY <1>1, <1>2, <1>3 DEF StepOK, At, Known
<1> QED
  BY <1>1, <1>2, <1>3, <1>7, <1>9, <1>10 DEF StoreInv, Down, At

\* A process that ends leaves the disk.
LEMMA LoseMemoryOK ==
  ASSUME LoseMemory
  PROVE  MemoryOK' /\ StepOK' /\ Down'
<1>1. pc' = [at |-> "down", b |-> NoBlock] /\ Down'
  BY DEF LoseMemory, Goto, Down, At
<1>2. nLastBlockFile' \in File /\ infoLastBlockFile' \in Info /\ scan' \in Nat \X Nat
  BY StorageAssumption DEF LoseMemory, File, Info, NullInfo
<1>3. fReindex' \in BOOLEAN /\ nLastWrite' \in BOOLEAN
  BY Zenon DEF LoseMemory
<1>4. pc' \in [at : Label, b : Block \cup {NoBlock}]
  BY <1>1 DEF Label
<1>5. /\ mapBlockIndex' = <<>> /\ tip' = NoBlock /\ nLastWrite' = FALSE
      /\ nLastBlockFile' = 0 /\ infoLastBlockFile' = NullInfo
  BY DEF LoseMemory
<1>6. MemoryOK'
  BY <1>1, <1>2, <1>3, <1>4, <1>5 DEF MemoryOK
<1> QED
  BY <1>1, <1>6 DEF StepOK, At

\* Every slot holds its new or its old contents after a power failure.
LEMMA RestsFacts ==
  ASSUME NEW f \in Content, NEW disk \in Content, NEW g \in Rests(f, disk)
  PROVE  g \in Content /\ \A s \in Slot : g[s] \in {f[s], disk[s]}
<1>1. PICK keep \in SUBSET Slot : g = [s \in Slot |-> IF s \in keep THEN f[s] ELSE disk[s]]
  BY DEF Rests
<1> QED
  BY <1>1 DEF Content

\* Shutdown, Kill, Exit and PowerLoss.
LEMMA StopStore ==
  ASSUME StoreInv, Shutdown \/ Kill \/ Exit \/ PowerLoss
  PROVE  StoreInv' /\ Down'
<1>1. MemoryOK' /\ StepOK' /\ Down'
  BY LoseMemoryOK DEF Shutdown, Kill, Exit, PowerLoss
<1>2. DiskOK /\ (~Down => tip \in Known \cup {NoBlock} /\ Known \subseteq Block)
  BY DEF StoreInv, DiskOK, MemoryOK, TreeOK, Known
<1>3. DiskOK'
  <2>1. CASE Shutdown
    <3> DEFINE best == IF tip = NoBlock THEN coins ELSE tip
    <3>1. /\ UNCHANGED <<files, tree, treeDisk>> /\ coins' = best
          /\ coinsDisk' = coinsDisk \cup {best} /\ ~Down
      BY <2>1 DEF Shutdown, WriteCoins, Down, At
    <3>2. best \in Block \cup {NoBlock}
      BY <1>2, <3>1 DEF DiskOK
    <3> HIDE DEF best
    <3> QED
      BY <1>2, <3>1, <3>2 DEF DiskOK, files
  <2>2. CASE Kill \/ Exit
    BY <1>2, <2>2 DEF Kill, Exit, DiskOK, files
  <2>3. CASE PowerLoss
    <3>1. PICK f \in Rests(blk, blkDisk) : blk' = f /\ blkDisk' = f
      BY <2>3 DEF PowerLoss
    <3>2. PICK g \in Rests(rev, revDisk) : rev' = g /\ revDisk' = g
      BY <2>3 DEF PowerLoss
    <3>3. f \in Content /\ g \in Content
      BY <1>2, RestsFacts DEF DiskOK
    <3>4. PICK t \in treeDisk : tree' = t /\ treeDisk' = {t}
      BY <2>3 DEF PowerLoss
    <3>5. PICK b \in coinsDisk : coins' = b /\ coinsDisk' = {b}
      BY <2>3 DEF PowerLoss
    <3> QED
      BY <1>2, <3>1, <3>2, <3>3, <3>4, <3>5 DEF DiskOK
  <2> QED
    BY <2>1, <2>2, <2>3
<1> QED
  BY <1>1, <1>3 DEF StoreInv

\* LoadBlockIndexDB.
LEMMA LoadStore ==
  ASSUME StoreInv, LoadBlockIndexDB
  PROVE  StoreInv' /\ pc'.at \in {"init", "failed", "start"} /\ pc'.b = NoBlock /\ Down /\ ~Down'
<1>1. /\ Down /\ mapBlockIndex' = tree.index /\ nLastBlockFile' = tree.last
      /\ infoLastBlockFile' = ReadOr(tree.info, tree.last, NullInfo)
      /\ nLastWrite' = FALSE /\ fReindex' = tree.fReindexing
      /\ scan' = <<0, ReadOr(tree.info, 0, NullInfo).nSize>>
      /\ tip' = IF coins \in DOMAIN tree.index THEN coins ELSE NoBlock
      /\ UNCHANGED <<files, tree, treeDisk, coins, coinsDisk>>
  BY DEF LoadBlockIndexDB, AfterLoad, Down
<1>2. /\ pc' \in [at : {"init", "failed", "start"}, b : {NoBlock}]
      /\ pc'.at = "init" => ~tree.fReindexing
  BY DEF LoadBlockIndexDB, AfterLoad, Goto
<1>3. DiskOK /\ DiskOK' /\ TreeOK(tree)
  BY <1>1 DEF StoreInv, DiskOK, files
<1>4. /\ infoLastBlockFile' \in Info /\ ReadOr(tree.info, 0, NullInfo) \in Info
      /\ nLastBlockFile' \in File /\ scan' \in Nat \X Nat
  <2>1. infoLastBlockFile' \in Info /\ ReadOr(tree.info, 0, NullInfo) \in Info
    BY <1>1, <1>3, InfoRead
  <2> QED
    BY <1>1, <1>3, <2>1 DEF TreeOK, Info
<1>5. fReindex' \in BOOLEAN /\ nLastWrite' \in BOOLEAN
  BY <1>1, <1>3, Zenon DEF TreeOK
<1>6. MemoryOK'
  BY <1>1, <1>2, <1>4, <1>5 DEF MemoryOK, Label, Down, At, Known
<1>7. StepOK'
  BY <1>1, <1>2 DEF StepOK, At
<1> QED
  BY <1>1, <1>2, <1>3, <1>6, <1>7 DEF StoreInv, Down, At

\* -reindex: the block tree database is wiped.
LEMMA StartReindexStore ==
  ASSUME StoreInv, StartReindex
  PROVE  /\ StoreInv' /\ Down /\ ~Down' /\ Known' = {} /\ tip' = NoBlock /\ nLastWrite' = FALSE
         /\ DOMAIN tree'.index = {} /\ \A t \in treeDisk' : DOMAIN t.index = {}
<1>1. /\ Down /\ tree' = EmptyTree /\ treeDisk' = {EmptyTree} /\ fReindex' = TRUE
      /\ pc' = [at |-> "wipecoins", b |-> NoBlock]
      /\ UNCHANGED <<mapBlockIndex, nLastBlockFile, infoLastBlockFile, tip, nLastWrite, scan,
                     files, coins, coinsDisk>>
  BY DEF StartReindex, Goto, Down
<1>2. /\ mapBlockIndex = <<>> /\ tip = NoBlock /\ nLastWrite = FALSE /\ scan \in Nat \X Nat
      /\ nLastBlockFile = 0 /\ infoLastBlockFile = NullInfo /\ infoLastBlockFile \in Info
      /\ nLastBlockFile \in File
  BY <1>1 DEF StoreInv, MemoryOK
<1>3. EmptyTree.index = <<>> /\ EmptyTree.info = <<>> /\ EmptyTree.last = 0 /\ DOMAIN <<>> = {}
  BY DEF EmptyTree
<1>4. TreeOK(EmptyTree)
  BY <1>3, StorageAssumption DEF TreeOK, EmptyTree, File
<1>5. DiskOK'
  BY <1>1, <1>4 DEF StoreInv, DiskOK, files
<1>6. infoLastBlockFile' = ReadOr(tree'.info, nLastBlockFile', NullInfo)
  BY <1>1, <1>2, <1>3 DEF ReadOr
<1>7. fReindex' \in BOOLEAN /\ nLastWrite' \in BOOLEAN
  BY <1>1, <1>2, Zenon
<1>8. MemoryOK'
  BY <1>1, <1>2, <1>3, <1>6, <1>7 DEF MemoryOK, Label, Down, At, Known
<1>9. StepOK'
  BY <1>1, <1>3 DEF StepOK, At
<1> QED
  BY <1>1, <1>2, <1>3, <1>5, <1>8, <1>9 DEF StoreInv, Down, At, Known

\* Then the coin database is wiped and the mark written.
LEMMA WipeCoinsStore ==
  ASSUME StoreInv, WipeCoins \/ WriteReindexing
  PROVE  /\ StoreInv' /\ ~Down /\ ~Down' /\ Known = {} /\ Known' = {} /\ tip = NoBlock /\ tip' = NoBlock
         /\ DOMAIN tree.index = {} /\ DOMAIN tree'.index = {} /\ \A t \in treeDisk' : DOMAIN t.index = {}
<1>1. /\ pc.at \in {"wipecoins", "mark"} /\ UNCHANGED <<mem, files>> /\ ~Down /\ ~Down'
      /\ pc' \in [at : {"mark", "import"}, b : {NoBlock}]
  BY DEF WipeCoins, WriteReindexing, Goto, At, Down
<1>2. /\ DiskOK /\ MemoryOK /\ TreeOK(tree) /\ mapBlockIndex = tree.index /\ tip = NoBlock
      /\ DOMAIN tree.index = {} /\ ~At("last")
  BY <1>1 DEF StoreInv, DiskOK, MemoryOK, StepOK, Known, At
<1>3. TreeOK(tree') /\ tree'.index = tree.index /\ tree'.info = tree.info /\ tree'.last = tree.last
  <2>1. CASE WipeCoins
    BY <1>2, <2>1 DEF WipeCoins
  <2>2. CASE WriteReindexing
    <3>1. tree' = [tree EXCEPT !.fReindexing = TRUE] /\ nLastBlockFile \in File /\ TRUE \in BOOLEAN
      BY <1>2, <2>2 DEF WriteReindexing, WriteTree, MemoryOK
    <3> QED
      BY <1>2, <3>1, MarkWritten
  <2> QED
    BY <2>1, <2>2
<1>4. tree' \in treeDisk' /\ treeDisk' \subseteq treeDisk \cup {tree'}
  BY <1>2 DEF WipeCoins, WriteReindexing, WriteTree, DiskOK
<1>5. coins' \in coinsDisk' /\ coinsDisk' \subseteq Block \cup {NoBlock}
  BY <1>2 DEF WipeCoins, WriteReindexing, DiskOK
<1>6. DiskOK'
  BY <1>1, <1>2, <1>3, <1>4, <1>5 DEF DiskOK, files
<1>7. MemoryOK'
  BY <1>1, <1>2, <1>3 DEF MemoryOK, mem, Label, Down, At, Known
<1>8. StepOK'
  BY <1>1, <1>2, <1>3 DEF StepOK, At
<1>9. Known' = {} /\ tip' = NoBlock
  BY <1>1, <1>2 DEF mem, Known
<1> QED
  BY <1>1, <1>2, <1>3, <1>6, <1>7, <1>8, <1>9 DEF StoreInv, DiskOK, Known

\* The assertion of ConnectBlock ends the process.
LEMMA AssertStore ==
  ASSUME StoreInv, AssertBestBlock
  PROVE  /\ StoreInv' /\ ~Down /\ ~Down' /\ pc.at = "activate" /\ pc'.at = "failed" /\ tip = NoBlock
         /\ UNCHANGED <<mem, files, tree, treeDisk, coins, coinsDisk, history>>
<1>1. /\ pc.at = "activate" /\ pc' = [at |-> "failed", b |-> NoBlock] /\ tip = NoBlock
      /\ UNCHANGED <<mem, files, tree, treeDisk, coins, coinsDisk, history>>
  BY DEF AssertBestBlock, Connecting, At, Goto
<1>2. DiskOK' /\ ~Down /\ ~Down' /\ ~At("last")
  BY <1>1 DEF StoreInv, DiskOK, files, Down, At
<1>3. MemoryOK'
  BY <1>1, <1>2 DEF StoreInv, MemoryOK, mem, Label, Known
<1>4. StepOK'
  BY <1>1 DEF StepOK, At
<1> QED
  BY <1>1, <1>2, <1>3, <1>4 DEF StoreInv

\* What ImportBlock does for the block in slot s.
Imported(s) ==
  LET n == s[1]
      old == IF n # nLastBlockFile THEN ReadOr(tree.info, n, NullInfo) ELSE infoLastBlockFile
      new == [old EXCEPT !.nSize = @ + 1]
  IN /\ s \in Slot /\ Importable(s) /\ old \in Info /\ new \in Info /\ new.nSize = old.nSize + 1
     /\ new.nUndoSize = old.nUndoSize
     /\ old = ReadOr(tree.info, n, NullInfo)
     /\ nLastBlockFile' = n /\ infoLastBlockFile' = new
     /\ tree' = SetInfo(tree, n, new) /\ treeDisk' = treeDisk \cup {tree'}
     /\ tree'.index = tree.index /\ tree'.last = tree.last /\ tree'.fReindexing = tree.fReindexing
     /\ DOMAIN tree'.info = DOMAIN tree.info \cup {n} /\ tree'.info[n] = new
     /\ \A m \in DOMAIN tree.info \ {n} : tree'.info[m] = tree.info[m]
     /\ scan' = <<n, s[2] + 1>>
     /\ pc' = [at |-> IF n # nLastBlockFile THEN "last" ELSE "index", b |-> blk[s]]
     /\ IF n = nLastBlockFile THEN UNCHANGED <<badData, badUndo>>
        ELSE /\ badData' = badData \cup Uncommitted(blk, blkDisk, nLastBlockFile)
             /\ badUndo' = badUndo \cup Uncommitted(rev, revDisk, nLastBlockFile)
     /\ holed' = (holed \/ s[2] # old.nSize)

\* ImportBlock.
LEMMA ImportBlockStore ==
  ASSUME StoreInv, ImportBlock
  PROVE  /\ StoreInv' /\ ~Down /\ ~Down' /\ At("import") /\ fReindex
         /\ UNCHANGED <<mapBlockIndex, tip, nLastWrite, fReindex, files, coins, coinsDisk,
                        powerLost, saved>>
         /\ \E s \in Slot : Imported(s)
<1>1. PICK s \in Slot :
        LET n == s[1]
            old == IF n # nLastBlockFile THEN ReadOr(tree.info, n, NullInfo)
                   ELSE infoLastBlockFile
            new == [old EXCEPT !.nSize = @ + 1]
        IN /\ Importable(s)
           /\ nLastBlockFile' = n /\ infoLastBlockFile' = new
           /\ WriteTree(SetInfo(tree, n, new))
           /\ scan' = <<n, s[2] + 1>>
           /\ pc' = [at |-> IF n # nLastBlockFile THEN "last" ELSE "index", b |-> blk[s]]
           /\ IF n = nLastBlockFile THEN UNCHANGED <<badData, badUndo>>
              ELSE /\ badData' = badData \cup Uncommitted(blk, blkDisk, nLastBlockFile)
                   /\ badUndo' = badUndo \cup Uncommitted(rev, revDisk, nLastBlockFile)
           /\ holed' = (holed \/ s[2] # old.nSize)
  BY DEF ImportBlock, SetInfo, Goto
<1> DEFINE n == s[1]
           old == IF n # nLastBlockFile THEN ReadOr(tree.info, n, NullInfo)
                  ELSE infoLastBlockFile
           new == [old EXCEPT !.nSize = @ + 1]
           u == SetInfo(tree, n, new)
<1>2. /\ At("import") /\ fReindex
      /\ UNCHANGED <<mapBlockIndex, tip, nLastWrite, fReindex, files, coins, coinsDisk,
                     powerLost, saved>>
  BY DEF ImportBlock
<1>3. DiskOK /\ MemoryOK /\ TreeOK(tree) /\ ~Down /\ n \in File /\ s[2] \in Nat
  BY <1>2 DEF StoreInv, DiskOK, Down, At, Slot, Pos
<1>4. old \in Info /\ old = ReadOr(tree.info, n, NullInfo)
  BY <1>3, InfoRead DEF MemoryOK
<1> HIDE DEF old
<1>5. new \in Info /\ new.nSize = old.nSize + 1 /\ new.nUndoSize = old.nUndoSize
  BY <1>4, InfoGrown
<1> HIDE DEF new
<1>6. /\ TreeOK(u) /\ u.index = tree.index /\ u.last = tree.last
      /\ u.fReindexing = tree.fReindexing
      /\ DOMAIN u.info = DOMAIN tree.info \cup {n} /\ u.info[n] = new
      /\ \A m \in DOMAIN tree.info \ {n} : u.info[m] = tree.info[m]
  BY <1>3, <1>5, InfoWritten
<1>7. WriteTree(u) /\ nLastBlockFile' = n /\ infoLastBlockFile' = new /\ scan' = <<n, s[2] + 1>>
      /\ pc' = [at |-> IF n # nLastBlockFile THEN "last" ELSE "index", b |-> blk[s]]
      /\ Importable(s) /\ holed' = (holed \/ s[2] # old.nSize)
      /\ IF n = nLastBlockFile THEN UNCHANGED <<badData, badUndo>>
         ELSE /\ badData' = badData \cup Uncommitted(blk, blkDisk, nLastBlockFile)
              /\ badUndo' = badUndo \cup Uncommitted(rev, revDisk, nLastBlockFile)
  BY <1>1 DEF old, new
<1> HIDE DEF u, n
<1>8. /\ tree' = u /\ tree' \in treeDisk' /\ treeDisk' = treeDisk \cup {u}
      /\ \A t \in treeDisk' : TreeOK(t) /\ DOMAIN t.index \subseteq DOMAIN tree'.index
  BY <1>3, <1>6, <1>7, TreeWritten DEF WriteTree
<1>9. DiskOK'
  BY <1>2, <1>3, <1>8 DEF DiskOK, files
<1>10. blk[s] \in Block /\ Parent[blk[s]] \in Known \cup {NoBlock}
  BY <1>7 DEF Importable
<1>11. MemoryOK'
  <2>1. pc' \in [at : Label, b : Block \cup {NoBlock}]
    BY <1>7, <1>10 DEF Label
  <2>2. nLastBlockFile' \in File /\ infoLastBlockFile' \in Info /\ scan' \in Nat \X Nat
    BY <1>3, <1>5, <1>7 DEF File
  <2>3. mapBlockIndex' = tree'.index /\ tip' \in Known' \cup {NoBlock}
    BY <1>2, <1>3, <1>6, <1>8 DEF MemoryOK, Known
  <2>4. infoLastBlockFile' = ReadOr(tree'.info, nLastBlockFile', NullInfo)
    BY <1>6, <1>7, <1>8 DEF ReadOr
  <2>5. At("last")' \/ nLastBlockFile' = tree'.last
    BY <1>2, <1>3, <1>6, <1>7, <1>8 DEF MemoryOK, At
  <2>6. fReindex' \in BOOLEAN /\ nLastWrite' \in BOOLEAN
    BY <1>2, <1>3 DEF MemoryOK
  <2>7. ~Down'
    BY <1>7 DEF Down, At
  <2> QED
    BY <2>1, <2>2, <2>3, <2>4, <2>5, <2>6, <2>7 DEF MemoryOK
<1>12. StepOK'
  <2>1. scan'[2] - 1 \in Pos /\ new.nSize > 0
    BY <1>3, <1>4, <1>5, <1>7 DEF Info, Slot
  <2> QED
    BY <1>2, <1>6, <1>7, <1>8, <1>10, <2>1 DEF StepOK, At, Known
<1>13. Imported(s)
  BY <1>4, <1>5, <1>6, <1>7, <1>8 DEF Imported, u, n, old, new
<1> QED
  BY <1>2, <1>3, <1>7, <1>9, <1>11, <1>12, <1>13 DEF StoreInv, Down, At

\* FinishReindex.
LEMMA FinishReindexStore ==
  ASSUME StoreInv, FinishReindex
  PROVE  /\ StoreInv' /\ ~Down /\ ~Down' /\ TreeOK(tree)
         /\ tree'.index = tree.index /\ tree'.info = tree.info /\ tree'.last = tree.last
         /\ treeDisk' = treeDisk \cup {tree'}
<1> DEFINE u == [tree EXCEPT !.fReindexing = FALSE]
<1>1. /\ At("import") /\ fReindex' = FALSE /\ WriteTree(u)
      /\ pc' = [at |-> IF tip = NoBlock THEN "init" ELSE "idle", b |-> NoBlock]
      /\ UNCHANGED <<mapBlockIndex, nLastBlockFile, infoLastBlockFile, tip, nLastWrite, scan,
                     files, coins, coinsDisk>>
  BY DEF FinishReindex, Goto
<1>2. DiskOK /\ MemoryOK /\ TreeOK(tree) /\ ~Down
  BY <1>1 DEF StoreInv, DiskOK, Down, At
<1>3. TreeOK(u) /\ u.index = tree.index /\ u.info = tree.info /\ u.last = tree.last
  <2>1. nLastBlockFile \in File /\ FALSE \in BOOLEAN
    BY <1>2 DEF MemoryOK
  <2> QED
    BY <1>2, <2>1, MarkWritten
<1> HIDE DEF u
<1>4. /\ tree' = u /\ tree' \in treeDisk' /\ treeDisk' = treeDisk \cup {u}
      /\ \A t \in treeDisk' : TreeOK(t) /\ DOMAIN t.index \subseteq DOMAIN tree'.index
  BY <1>1, <1>2, <1>3, TreeWritten DEF WriteTree
<1>5. DiskOK'
  BY <1>1, <1>2, <1>4 DEF DiskOK, files
<1>6. fReindex' \in BOOLEAN
  BY <1>1, Zenon
<1>7. MemoryOK'
  BY <1>1, <1>2, <1>3, <1>4, <1>6 DEF MemoryOK, Label, Down, At, Known
<1>8. StepOK'
  BY <1>1 DEF StepOK, At
<1> QED
  BY <1>1, <1>2, <1>3, <1>4, <1>5, <1>7, <1>8 DEF StoreInv, Down, At

\* AcceptBlock and InitBlockIndex begin with FindBlockPos.
LEMMA AcceptStore ==
  ASSUME StoreInv, AcceptBlock \/ InitBlockIndex
  PROVE  /\ StoreInv' /\ mapBlockIndex' = mapBlockIndex /\ tip' = tip /\ coinsDisk' = coinsDisk
         /\ ~Down /\ ~Down'
<1>1. CASE AcceptBlock
  <2>1. PICK b \in Block \ Known : Parent[b] \in Known /\ FindBlockPos(b)
    BY <1>1 DEF AcceptBlock
  <2>2. pc.at \in {"idle", "init"}
    BY <1>1 DEF AcceptBlock, At
  <2> QED
    BY <2>1, <2>2, FindBlockPosStore
<1>2. CASE InitBlockIndex
  <2>1. FindBlockPos(Genesis) /\ pc.at \in {"idle", "init"}
    BY <1>2 DEF InitBlockIndex, At
  <2>2. Genesis \in Block /\ Parent[Genesis] \in Known \cup {NoBlock}
    BY StorageAssumption
  <2> QED
    BY <2>1, <2>2, FindBlockPosStore
<1> QED
  BY <1>1, <1>2

\* DisconnectTip goes back one block or gives up.
DisconnectDone ==
  /\ Readable(tip) /\ UndoReadable(tip)
  /\ tip' = Parent[tip] /\ Goto("chainstate", pc.b)
  /\ UNCHANGED <<mapBlockIndex, nLastBlockFile, infoLastBlockFile, nLastWrite, fReindex,
                 scan, files, tree, treeDisk, coins, coinsDisk, history>>

\* DisconnectTip takes one block off or gives up.
LEMMA DisconnectCases ==
  ASSUME DisconnectTip
  PROVE  /\ At("activate") /\ pc.b # NoBlock /\ tip \notin ChainOf(pc.b) \cup {NoBlock}
         /\ DisconnectDone \/ Fails
  BY DEF DisconnectTip, DisconnectDone

\* ConnectTip goes on one block or gives up.
ConnectDone ==
  /\ Readable(NextBlock) /\ (NextBlock = Genesis \/ HasUndo(NextBlock))
  /\ (tip = NoBlock => coins = NoBlock)
  /\ tip' = NextBlock /\ Goto("chainstate", pc.b)
  /\ UNCHANGED <<mapBlockIndex, nLastBlockFile, infoLastBlockFile, nLastWrite, fReindex,
                 scan, files, tree, treeDisk, coins, coinsDisk, history>>

\* The cases of ConnectTip.
LEMMA ConnectCases ==
  ASSUME ConnectTip
  PROVE  /\ Connecting /\ tip # pc.b /\ At("activate")
         /\ ConnectDone \/ Fails
  BY DEF ConnectTip, ConnectDone, Connecting

\* Every step keeps the structure of memory and disk.
LEMMA StoreNext ==
  ASSUME StoreInv, [Next]_vars
  PROVE  StoreInv'
<1>1. CASE AcceptBlock \/ InitBlockIndex
  BY <1>1, AcceptStore
<1>2. CASE WriteLastBlockFile
  BY <1>2, WriteLastBlockFileStore
<1>3. CASE WriteBlockToDisk
  BY <1>3, WriteBlockToDiskStore
<1>4. CASE AddToBlockIndex
  BY <1>4, AddToBlockIndexStore
<1>5. CASE ScanForBetterChains \/ FindMostWorkChain
  BY <1>5, ChooseStore
<1>6. CASE DisconnectTip
  <2>1. CASE DisconnectDone
    BY <1>6, <2>1, DisconnectCases, DisconnectTipStore DEF DisconnectDone
  <2>2. CASE Fails
    BY <1>6, <2>2, DisconnectCases, ChooseStore
  <2> QED
    BY <1>6, <2>1, <2>2, DisconnectCases
<1>7. CASE ConnectTip
  <2>1. CASE ConnectDone
    BY <1>7, <2>1, ConnectCases, ConnectTipStore DEF ConnectDone
  <2>2. CASE Fails
    BY <1>7, <2>2, ConnectCases, ChooseStore
  <2> QED
    BY <1>7, <2>1, <2>2, ConnectCases
<1>8. CASE FindUndoPos
  BY <1>8, FindUndoPosStore
<1>9. CASE WriteUndoToDisk
  BY <1>9, WriteUndoToDiskStore
<1>10. CASE ConnectBlock
  BY <1>10, ConnectBlockStore
<1>11. CASE FlushBlockFile \/ SyncBlockTree \/ FlushCoins
  BY <1>11, FlushStore
<1>12. CASE Shutdown \/ Kill \/ Exit \/ PowerLoss
  BY <1>12, StopStore
<1>13. CASE LoadBlockIndexDB
  BY <1>13, LoadStore
<1>14. CASE StartReindex \/ WipeCoins \/ WriteReindexing \/ AssertBestBlock
  BY <1>14, StartReindexStore, WipeCoinsStore, AssertStore
<1>15. CASE ImportBlock
  BY <1>15, ImportBlockStore
<1>16. CASE FinishReindex
  BY <1>16, FinishReindexStore
<1>17. CASE UNCHANGED vars
  <2>1. UNCHANGED <<pc, mapBlockIndex, nLastBlockFile, infoLastBlockFile, tip, nLastWrite, fReindex,
                    scan, blk, blkDisk, rev, revDisk, tree, treeDisk, coins, coinsDisk>>
    BY <1>17 DEF vars, mem, files
  <2>2. DiskOK' /\ MemoryOK'
    BY <2>1 DEF StoreInv, DiskOK, MemoryOK, Down, At, Known
  <2>3. NextBlock' = NextBlock /\ UndoSlot' = UndoSlot
    BY <2>1, UndoKept
  <2>4. StepOK'
    BY <2>1, <2>3 DEF StoreInv, StepOK, At, Known, NewPos, HasUndo
  <2> QED
    BY <2>2, <2>4 DEF StoreInv
<1> QED
  BY <1>1, <1>2, <1>3, <1>4, <1>5, <1>6, <1>7, <1>8, <1>9, <1>10, <1>11, <1>12, <1>13, <1>14,
     <1>15, <1>16, <1>17 DEF Next

\* Memory and disk agree at every step: what the process has in memory is what a
\* new process would read, the index on disk, or what a power failure would leave
\* of it, holds the whole chain of every block in it, and the best block in memory
\* is one of the index.
THEOREM MemoryFollowsDisk == Spec => []StoreInv
<1>1. Init => StoreInv
  BY InitStore
<1>2. StoreInv /\ [Next]_vars => StoreInv'
  BY StoreNext
<1> QED
  BY <1>1, <1>2, PTL DEF Spec

-----------------------------------------------------------------------------
(* BlockStorage implements DurableChain *)

\* What the abstract variables are while the process runs, and while it does not.
LEMMA AbstractSame ==
  ASSUME StoreInv, StoreInv', ~Down, ~Down', Known' = Known, tip' = tip, coinsDisk' = coinsDisk
  PROVE  UNCHANGED Durable!vars
  BY DEF Durable!vars

\* A block enters the index.
LEMMA AbstractLearn ==
  ASSUME StoreInv, StoreInv', ~Down, ~Down', NEW b \in Block, Known' = Known \cup {b},
         tip' = tip, coinsDisk' = coinsDisk
  PROVE  [Durable!Next]_(Durable!vars)
<1>1. CASE b \in Known
  <2>1. Known' = Known
    BY <1>1
  <2> QED
    BY <2>1, AbstractSame
<1>2. CASE b \notin Known
  <2>1. \A c \in Known' : Parent[c] \in Known' \cup {NoBlock}
    BY DEF StoreInv, DiskOK, MemoryOK, TreeOK, Known
  <2>2. Durable!Learn
    BY <1>2, <2>1 DEF Durable!Learn, Durable!Closed
  <2> QED
    BY <2>2 DEF Durable!Next
<1> QED
  BY <1>1, <1>2

\* The tip goes to a child.
LEMMA AbstractAdvance ==
  ASSUME StoreInv, ~Down, ~Down', Known' = Known, coinsDisk' = coinsDisk,
         tip' \in Known, Parent[tip'] = tip
  PROVE  [Durable!Next]_(Durable!vars)
<1>1. Durable!Advance
  BY DEF Durable!Advance
<1> QED
  BY <1>1 DEF Durable!Next

\* The tip goes to its parent.
LEMMA AbstractRetreat ==
  ASSUME StoreInv, ~Down, ~Down', Known' = Known, coinsDisk' = coinsDisk,
         tip # NoBlock, tip' = Parent[tip]
  PROVE  [Durable!Next]_(Durable!vars)
<1>1. Durable!Retreat
  BY DEF Durable!Retreat
<1> QED
  BY <1>1 DEF Durable!Next

\* A process that ends leaves what it would read again.
LEMMA AbstractStop ==
  ASSUME StoreInv, Shutdown \/ Kill \/ Exit \/ PowerLoss
  PROVE  [Durable!Next]_(Durable!vars)
<1>1. /\ DiskOK /\ TreeOK(tree) /\ Down' /\ coins \in coinsDisk
      /\ ~Down => Known = DOMAIN tree.index /\ tip \in Known \cup {NoBlock}
  BY StopStore DEF StoreInv, DiskOK, MemoryOK, Known
<1>2. \A t \in treeDisk : /\ DOMAIN t.index \subseteq DOMAIN tree.index
                          /\ \A c \in DOMAIN t.index : Parent[c] \in DOMAIN t.index \cup {NoBlock}
  BY <1>1 DEF DiskOK, TreeOK
<1>3. NoBlock \notin DOMAIN tree.index
  BY <1>1, StorageAssumption DEF TreeOK
<1>4. CASE Shutdown
  <2>1. /\ ~Down /\ tree' = tree
        /\ coins' = (IF tip = NoBlock THEN coins ELSE tip) /\ coinsDisk' = coinsDisk \cup {coins'}
    BY <1>4 DEF Shutdown, WriteCoins, Down, At
  <2>2. CASE tip # NoBlock
    <3>1. Durable!Save
      BY <1>1, <1>3, <2>1, <2>2 DEF Durable!Save
    <3> QED
      BY <3>1 DEF Durable!Next
  <2>3. CASE tip = NoBlock
    <3>1. coins' = coins /\ coinsDisk' = coinsDisk /\ tree \in treeDisk
      BY <1>1, <2>1, <2>3 DEF DiskOK
    <3>2. Durable!Stop
      BY <1>1, <1>2, <2>1, <3>1 DEF Durable!Stop, Durable!Closed
    <3> QED
      BY <3>2 DEF Durable!Next
  <2> QED
    BY <2>2, <2>3
<1>5. CASE Kill \/ Exit
  <2>1. ~Down /\ tree' = tree /\ coins' = coins /\ coinsDisk' = coinsDisk /\ tree \in treeDisk
    BY <1>1, <1>5 DEF Kill, Exit, Down, At, DiskOK
  <2>2. Durable!Stop
    BY <1>1, <1>2, <2>1 DEF Durable!Stop, Durable!Closed
  <2> QED
    BY <2>2 DEF Durable!Next
<1>6. CASE PowerLoss
  <2>1. PICK t \in treeDisk : tree' = t /\ treeDisk' = {t}
    BY <1>6 DEF PowerLoss
  <2>2. PICK b \in coinsDisk : coins' = b /\ coinsDisk' = {b}
    BY <1>6 DEF PowerLoss
  <2>3. IF Down THEN TRUE ELSE Known = DOMAIN tree.index
    BY <1>1
  <2>4. Durable!Stop
    BY <1>1, <1>2, <2>1, <2>2, <2>3 DEF Durable!Stop, Durable!Closed
  <2> QED
    BY <2>4 DEF Durable!Next
<1> QED
  BY <1>4, <1>5, <1>6

\* Every step of the storage is one of the abstract chain, or none.
LEMMA StepSimulates ==
  ASSUME StoreInv, [Next]_vars
  PROVE  [Durable!Next]_(Durable!vars)
<1>0. StoreInv' /\ DiskOK /\ (~Down => Known = DOMAIN tree.index /\ Known \subseteq Block)
  BY StoreNext DEF StoreInv, DiskOK, MemoryOK, TreeOK, Known
<1>1. CASE AcceptBlock \/ InitBlockIndex
  BY <1>0, <1>1, AcceptStore, AbstractSame DEF Known
<1>2. CASE WriteLastBlockFile \/ WriteBlockToDisk \/ WriteUndoToDisk
  <2>1. /\ ~Down /\ ~Down' /\ mapBlockIndex' = mapBlockIndex /\ tip' = tip
        /\ coinsDisk' = coinsDisk
    BY <1>2 DEF WriteLastBlockFile, WriteBlockToDisk, WriteUndoToDisk, Goto, At, Down, mem
  <2> QED
    BY <1>0, <2>1, AbstractSame DEF Known
<1>3. CASE AddToBlockIndex
  <2>1. /\ ~Down /\ ~Down' /\ tip' = tip /\ coinsDisk' = coinsDisk
        /\ pc.b \in Block
    BY <1>3 DEF AddToBlockIndex, Goto, At, Down, StoreInv, StepOK
  <2>2. Known' = Known \cup {pc.b}
    BY <1>0, <1>3, <2>1, AddToBlockIndexStore DEF StoreInv, MemoryOK, Known
  <2> QED
    BY <1>0, <2>1, <2>2, AbstractLearn
<1>4. CASE ScanForBetterChains \/ FindMostWorkChain
  <2>1. ~Down /\ ~Down'
    BY <1>4, ChooseStore
  <2>2. mapBlockIndex' = mapBlockIndex /\ tip' = tip /\ coinsDisk' = coinsDisk
    BY <1>4 DEF ScanForBetterChains, FindMostWorkChain, mem
  <2> QED
    BY <1>0, <2>1, <2>2, AbstractSame DEF Known
<1>5. CASE DisconnectTip
  <2>1. CASE DisconnectDone
    <3>1. /\ ~Down /\ ~Down' /\ Known' = Known /\ coinsDisk' = coinsDisk
          /\ tip # NoBlock /\ tip' = Parent[tip]
      BY <1>5, <2>1, DisconnectCases DEF DisconnectDone, Goto, At, Down, Known
    <3> QED
      BY <3>1, AbstractRetreat
  <2>2. CASE Fails
    <3>1. ~Down /\ ~Down'
      BY <1>5, <2>2, DisconnectCases, ChooseStore
    <3>2. mapBlockIndex' = mapBlockIndex /\ tip' = tip /\ coinsDisk' = coinsDisk
      BY <2>2 DEF Fails, mem
    <3> QED
      BY <1>0, <3>1, <3>2, AbstractSame DEF Known
  <2> QED
    BY <1>5, <2>1, <2>2, DisconnectCases
<1>6. CASE ConnectTip
  <2>1. CASE ConnectDone
    <3>1. /\ ~Down /\ ~Down' /\ Known' = Known /\ coinsDisk' = coinsDisk
          /\ tip' = NextBlock
      BY <1>6, <2>1, ConnectCases DEF ConnectDone, Goto, At, Down, Known
    <3>2. NextBlock \in Known /\ Parent[NextBlock] = tip
      BY <1>6, <2>1, ConnectCases, ConnectTipStore DEF ConnectDone
    <3> QED
      BY <3>1, <3>2, AbstractAdvance
  <2>2. CASE Fails
    <3>1. ~Down /\ ~Down'
      BY <1>6, <2>2, ConnectCases, ChooseStore
    <3>2. mapBlockIndex' = mapBlockIndex /\ tip' = tip /\ coinsDisk' = coinsDisk
      BY <2>2 DEF Fails, mem
    <3> QED
      BY <1>0, <3>1, <3>2, AbstractSame DEF Known
  <2> QED
    BY <1>6, <2>1, <2>2, ConnectCases
<1>7. CASE FindUndoPos
  BY <1>0, <1>7, FindUndoPosStore, AbstractSame DEF Known
<1>8. CASE ConnectBlock
  <2>1. ~Down /\ ~Down' /\ coinsDisk' = coinsDisk
    BY <1>8 DEF ConnectBlock, Goto, At, Down
  <2>2. Known' = Known /\ tip' \in Known /\ Parent[tip'] = tip
    BY <1>0, <1>8, <2>1, ConnectBlockStore DEF Known
  <2> QED
    BY <2>1, <2>2, AbstractAdvance
<1>9. CASE FlushBlockFile \/ SyncBlockTree
  <2>1. coinsDisk' = coinsDisk
    BY <1>9 DEF FlushBlockFile, SyncBlockTree
  <2> QED
    BY <1>0, <1>9, <2>1, FlushStore, AbstractSame DEF Known
<1>10. CASE FlushCoins
  <2>1. coinsDisk' = coinsDisk \cup {tip}
    BY <1>10 DEF FlushCoins, WriteCoins
  <2>2. ~Down /\ ~Down' /\ Known' = Known /\ tip' = tip
    BY <1>10, FlushStore DEF Known
  <2>3. Durable!Save
    BY <2>1, <2>2 DEF Durable!Save
  <2> QED
    BY <2>3 DEF Durable!Next
<1>11. CASE Shutdown \/ Kill \/ Exit \/ PowerLoss
  BY <1>11, AbstractStop
<1>12. CASE LoadBlockIndexDB
  <2>1. /\ Down /\ ~Down' /\ mapBlockIndex' = tree.index
        /\ tip' = (IF coins \in DOMAIN tree.index THEN coins ELSE NoBlock)
        /\ coinsDisk' = coinsDisk
    BY <1>12, LoadStore DEF LoadBlockIndexDB, AfterLoad
  <2> QED
    BY <2>1 DEF Durable!vars, Known
<1>13. CASE StartReindex \/ WipeCoins \/ WriteReindexing \/ AssertBestBlock
  <2>1. CASE StartReindex
    <3>1. ~Down' /\ Known' = {} /\ tip' = NoBlock /\ coinsDisk' = coinsDisk /\ coinsDisk # {}
      BY <1>0, <2>1, StartReindexStore DEF StartReindex, DiskOK
    <3>2. Durable!Stop
      BY <3>1 DEF Durable!Stop, Durable!Closed
    <3> QED
      BY <3>2 DEF Durable!Next
  <2>2. CASE WipeCoins
    <3>1. /\ ~Down /\ ~Down' /\ Known = {} /\ Known' = {} /\ tip = NoBlock /\ tip' = NoBlock
          /\ coinsDisk' = {NoBlock}
      BY <2>2, WipeCoinsStore DEF WipeCoins
    <3>2. Durable!Rebuild
      BY <3>1 DEF Durable!Rebuild
    <3> QED
      BY <3>2 DEF Durable!Next
  <2>3. CASE WriteReindexing
    <3>1. coinsDisk' = coinsDisk
      BY <2>3 DEF WriteReindexing
    <3> QED
      BY <1>0, <2>3, <3>1, WipeCoinsStore, AbstractSame
  <2>4. CASE AssertBestBlock
    BY <1>0, <2>4, AssertStore, AbstractSame DEF mem, Known
  <2> QED
    BY <1>13, <2>1, <2>2, <2>3, <2>4
<1>14. CASE ImportBlock
  BY <1>0, <1>14, ImportBlockStore, AbstractSame DEF Known
<1>15. CASE FinishReindex
  <2>1. mapBlockIndex' = mapBlockIndex /\ tip' = tip /\ coinsDisk' = coinsDisk
    BY <1>15 DEF FinishReindex
  <2> QED
    BY <1>0, <1>15, <2>1, FinishReindexStore, AbstractSame DEF Known
<1>16. CASE UNCHANGED vars
  BY <1>16 DEF vars, mem, Durable!vars, Down, At, Known
<1> QED
  BY <1>1, <1>2, <1>3, <1>4, <1>5, <1>6, <1>7, <1>8, <1>9, <1>10, <1>11, <1>12, <1>13, <1>14,
     <1>15, <1>16 DEF Next

\* The storage implements DurableChain: however the process is stopped or killed
\* and whatever a power failure takes, the node goes on from a best block it had
\* saved, with its whole chain in the index, or from none.
THEOREM StorageIsDurable == Spec => ImplementsDurable
<1>1. Init => Durable!Init
  BY DEF Init, Durable!Init, Down, At, EmptyTree
<1>2. StoreInv /\ [Next]_vars => [Durable!Next]_(Durable!vars)
  BY StepSimulates
<1> QED
  BY <1>1, <1>2, MemoryFollowsDisk, PTL DEF Spec, ImplementsDurable, Durable!Spec

-----------------------------------------------------------------------------
(* What the files hold for the index *)

\* Where the data and the undo data of an entry lie.
DataSlot(e) == <<e.nFile, e.nDataPos>>
UndoPlace(e) == <<e.nFile, e.nUndoPos>>

\* Every place in the index is below the counters of its file and has one owner.
Placed(t) ==
  \A b \in DOMAIN t.index : LET e == t.index[b] IN
    /\ e.nDataPos < t.info[e.nFile].nSize
    /\ e.nUndoPos < t.info[e.nFile].nUndoSize
    /\ \A c \in DOMAIN t.index \ {b} : t.index[c].nFile = e.nFile =>
         /\ t.index[c].nDataPos # e.nDataPos
         /\ t.index[c].nUndoPos = e.nUndoPos => e.nUndoPos = NoPos

\* The place handed out is above every place in use, and has been written when the
\* index entry is.
Handed ==
  /\ At("init") => tip = NoBlock
  /\ pc.at \in {"last", "data", "index"} =>
       /\ \A b \in Known : mapBlockIndex[b].nFile = nLastBlockFile =>
            mapBlockIndex[b].nDataPos < NewPos
       /\ fReindex => scan[2] = infoLastBlockFile.nSize
       /\ At("index") \/ fReindex => blk[<<nLastBlockFile, NewPos>>] = pc.b
       /\ pc.b \notin Known \/ tip = NoBlock
  /\ pc.at \in {"undo", "undoindex"} =>
       /\ Readable(NextBlock)
       /\ \A b \in Known : mapBlockIndex[b].nFile = UndoSlot[1] => mapBlockIndex[b].nUndoPos < UndoSlot[2]
  /\ At("undoindex") =>
       /\ rev[UndoSlot] = NextBlock
       /\ \/ NextBlock \in badUndo
          \/ UndoSlot[1] = nLastBlockFile
          \/ revDisk[UndoSlot] = NextBlock

\* The file whose contents the next flush commits.
Current(n) == ~At("last") /\ n = (IF Down THEN tree.last ELSE nLastBlockFile)

\* What the index names is there, or on record as lost.
Stored ==
  \A b \in DOMAIN tree.index : LET e == tree.index[b] IN
    /\ ~powerLost => blk[DataSlot(e)] = b /\ (e.nUndoPos # NoPos => rev[UndoPlace(e)] = b)
    /\ blk[DataSlot(e)] = b =>
         Current(e.nFile) \/ b \in badData \/ blkDisk[DataSlot(e)] = b
    /\ e.nUndoPos # NoPos =>
         \/ b \in badUndo
         \/ /\ rev[UndoPlace(e)] = b
            /\ Current(e.nFile) \/ revDisk[UndoPlace(e)] = b

\* The blocks of the chains WriteChainState has written.
SavedBlocks == UNION {ChainOf(b) : b \in saved}

\* A block and its undo data are in the files and committed, or on record as lost.
Kept(c) ==
  LET e == tree.index[c] IN
  /\ c \in badData \/ (blk[DataSlot(e)] = c /\ blkDisk[DataSlot(e)] = c)
  /\ c # Genesis =>
       /\ e.nUndoPos # NoPos
       /\ c \in badUndo \/ (rev[UndoPlace(e)] = c /\ revDisk[UndoPlace(e)] = c)

\* Every rest of the database has the same entry of a saved block.
SavedKept ==
  \A c \in SavedBlocks :
    /\ \A t \in treeDisk : c \in DOMAIN t.index /\ t.index[c] = tree.index[c]
    /\ Kept(c)

\* The process has loaded its databases.
Running == pc.at \notin {"down", "failed"}

\* The chain of the tip can be read and undone; WriteChainState commits it before it
\* writes the coins.
TipKept ==
  Running =>
    /\ \A c \in ChainOf(tip) :
         /\ c \in badData \/ blk[DataSlot(tree.index[c])] = c
         /\ c # Genesis => tree.index[c].nUndoPos # NoPos
    /\ pc.at \in {"sync", "coins"} => \A c \in ChainOf(tip) : Kept(c)
    /\ At("coins") => treeDisk = {tree}

\* The coin database is empty until WriteChainState has run, which the first
\* connected block makes it do; coins whose index a reindex has wiped are excepted.
Written ==
  /\ NoBlock \in saved /\ saved \subseteq Block \cup {NoBlock}
  /\ nLastWrite => saved # {NoBlock}
  /\ \/ saved # {NoBlock}
     \/ coinsDisk = {NoBlock}
     \/ Genesis \in badData
  /\ Running =>
       /\ saved # {NoBlock} => tip # NoBlock
       /\ tip # NoBlock => \/ saved # {NoBlock}
                          \/ pc.at \in {"chainstate", "sync", "coins"}
                          \/ Genesis \in badData

\* Without a power failure the best block on disk is indexed and can be undone, once
\* WriteChainState has run.
CoinsKept ==
  ~powerLost /\ saved # {NoBlock} =>
    /\ coins \in DOMAIN tree.index \cup {NoBlock}
    /\ \A c \in ChainOf(coins) : c # Genesis => tree.index[c].nUndoPos # NoPos

\* The whole, which holds until a reindex skips a part of a file.
Safe ==
  /\ \A t \in treeDisk : Placed(t)
  /\ Handed /\ Stored /\ SavedKept /\ TipKept /\ Written /\ CoinsKept
  /\ StartSucceeds

SafeInv == ~holed => Safe

-----------------------------------------------------------------------------
(* What a step leaves alone *)

\* A step that leaves what the index names, but for commits.
FilesStep ==
  \A b \in DOMAIN tree.index : LET e == tree.index[b] IN
    /\ blk'[DataSlot(e)] = blk[DataSlot(e)]
    /\ blkDisk'[DataSlot(e)] \in {blkDisk[DataSlot(e)], blk[DataSlot(e)]}
    /\ e.nUndoPos # NoPos =>
         /\ rev'[UndoPlace(e)] = rev[UndoPlace(e)]
         /\ revDisk'[UndoPlace(e)] \in {revDisk[UndoPlace(e)], rev[UndoPlace(e)]}

\* The places in the index are places in files.
LEMMA EntrySlots ==
  ASSUME NEW t, TreeOK(t), NEW b \in DOMAIN t.index
  PROVE  /\ b \in Block /\ t.index[b] \in Entry /\ t.index[b].nFile \in File
         /\ t.index[b].nFile \in DOMAIN t.info /\ t.info[t.index[b].nFile] \in Info
         /\ DataSlot(t.index[b]) \in Slot
         /\ t.index[b].nUndoPos # NoPos => UndoPlace(t.index[b]) \in Slot
<1>1. b \in Block /\ t.index[b] \in Entry /\ t.index[b].nFile \in DOMAIN t.info
      /\ t.info[t.index[b].nFile] \in Info
  BY DEF TreeOK
<1> DEFINE e == t.index[b]
<1>2. e.nFile \in File /\ e.nDataPos \in Pos /\ e.nUndoPos \in Pos \cup {NoPos}
  BY <1>1 DEF Entry
<1> HIDE DEF e
<1>3. DataSlot(e) \in Slot /\ (e.nUndoPos # NoPos => UndoPlace(e) \in Slot)
  BY <1>2 DEF DataSlot, UndoPlace, Slot
<1> QED
  BY <1>1, <1>2, <1>3 DEF e

\* Files that are left alone.
LEMMA FilesSame ==
  ASSUME UNCHANGED files
  PROVE  FilesStep
  BY DEF FilesStep, files

\* Committing a file, or not.
LEMMA CommitStep ==
  ASSUME DiskOK, TreeOK(tree), blk' = blk, rev' = rev, NEW n,
         blkDisk' \in {blkDisk, Committed(blkDisk, blk, n)},
         revDisk' \in {revDisk, Committed(revDisk, rev, n)}
  PROVE  FilesStep
<1> SUFFICES ASSUME NEW b \in DOMAIN tree.index
             PROVE  LET e == tree.index[b] IN
                    /\ blkDisk'[DataSlot(e)] \in {blkDisk[DataSlot(e)], blk[DataSlot(e)]}
                    /\ e.nUndoPos # NoPos =>
                         revDisk'[UndoPlace(e)] \in {revDisk[UndoPlace(e)], rev[UndoPlace(e)]}
  BY DEF FilesStep
<1>1. /\ DataSlot(tree.index[b]) \in Slot
      /\ tree.index[b].nUndoPos # NoPos => UndoPlace(tree.index[b]) \in Slot
  BY EntrySlots
<1>2. /\ \A s \in Slot : blkDisk'[s] \in {blkDisk[s], blk[s]}
      /\ \A s \in Slot : revDisk'[s] \in {revDisk[s], rev[s]}
  BY CommittedFacts DEF DiskOK
<1> QED
  BY <1>1, <1>2

\* What the index names stays on record, wherever the step has committed what it
\* no longer counts as current.
LEMMA StoredStep ==
  ASSUME Stored, FilesStep, tree'.index = tree.index, powerLost' = powerLost,
         badData \subseteq badData', badUndo \subseteq badUndo',
         \A b \in DOMAIN tree.index : LET e == tree.index[b] IN
           Current(e.nFile) =>
             \/ Current(e.nFile)'
             \/ /\ blk[DataSlot(e)] = b => b \in badData' \/ blkDisk'[DataSlot(e)] = b
                /\ e.nUndoPos # NoPos /\ rev[UndoPlace(e)] = b =>
                     b \in badUndo' \/ revDisk'[UndoPlace(e)] = b
  PROVE  Stored'
<1> SUFFICES ASSUME NEW b \in DOMAIN tree.index
             PROVE  LET e == tree.index[b] IN
               /\ ~powerLost => blk'[DataSlot(e)] = b /\ (e.nUndoPos # NoPos => rev'[UndoPlace(e)] = b)
               /\ blk'[DataSlot(e)] = b =>
                    Current(e.nFile)' \/ b \in badData' \/ blkDisk'[DataSlot(e)] = b
               /\ e.nUndoPos # NoPos =>
                    \/ b \in badUndo'
                    \/ /\ rev'[UndoPlace(e)] = b
                       /\ Current(e.nFile)' \/ revDisk'[UndoPlace(e)] = b
  BY DEF Stored, DataSlot, UndoPlace
<1> DEFINE e == tree.index[b]
           D == DataSlot(e)
           U == UndoPlace(e)
           cur == Current(e.nFile)
           cur2 == Current(e.nFile)'
<1>1. /\ ~powerLost => blk[D] = b /\ (e.nUndoPos # NoPos => rev[U] = b)
      /\ blk[D] = b => cur \/ b \in badData \/ blkDisk[D] = b
      /\ e.nUndoPos # NoPos => b \in badUndo \/ (rev[U] = b /\ (cur \/ revDisk[U] = b))
  BY DEF Stored
<1>2. /\ blk'[D] = blk[D] /\ blkDisk'[D] \in {blkDisk[D], blk[D]}
      /\ e.nUndoPos # NoPos => rev'[U] = rev[U] /\ revDisk'[U] \in {revDisk[U], rev[U]}
  BY DEF FilesStep
<1>3. cur => \/ cur2
             \/ /\ blk[D] = b => b \in badData' \/ blkDisk'[D] = b
                /\ e.nUndoPos # NoPos /\ rev[U] = b => b \in badUndo' \/ revDisk'[U] = b
  OBVIOUS
<1> HIDE DEF e, D, U, cur, cur2
<1>4. /\ ~powerLost => blk'[D] = b /\ (e.nUndoPos # NoPos => rev'[U] = b)
      /\ blk'[D] = b => cur2 \/ b \in badData' \/ blkDisk'[D] = b
      /\ e.nUndoPos # NoPos => b \in badUndo' \/ (rev'[U] = b /\ (cur2 \/ revDisk'[U] = b))
  BY <1>1, <1>2, <1>3
<1> QED
  BY <1>4 DEF e, D, U, cur, cur2

\* What was saved stays saved.
LEMMA SavedStep ==
  ASSUME DiskOK, SavedKept, FilesStep, tree'.index = tree.index, saved' = saved,
         treeDisk' \subseteq treeDisk \cup {tree'},
         badData \subseteq badData', badUndo \subseteq badUndo'
  PROVE  SavedKept'
<1>1. SavedBlocks' = SavedBlocks
  BY DEF SavedBlocks
<1>2. ASSUME NEW c \in SavedBlocks
      PROVE  Kept(c)' /\ \A t \in treeDisk' : c \in DOMAIN t.index /\ t.index[c] = tree'.index[c]
  <2> DEFINE e == tree.index[c]
             D == DataSlot(e)
             U == UndoPlace(e)
  <2>1. c \in DOMAIN tree.index /\ Kept(c)
    BY DEF SavedKept, DiskOK
  <2>2. \A t \in treeDisk' : c \in DOMAIN t.index /\ t.index[c] = tree'.index[c]
    BY <2>1 DEF SavedKept
  <2>3. /\ blk'[D] = blk[D] /\ blkDisk'[D] \in {blkDisk[D], blk[D]}
        /\ e.nUndoPos # NoPos => rev'[U] = rev[U] /\ revDisk'[U] \in {revDisk[U], rev[U]}
    BY <2>1 DEF FilesStep
  <2>4. /\ c \in badData \/ (blk[D] = c /\ blkDisk[D] = c)
        /\ c # Genesis => /\ e.nUndoPos # NoPos
                          /\ c \in badUndo \/ (rev[U] = c /\ revDisk[U] = c)
    BY <2>1 DEF Kept
  <2> HIDE DEF e, D, U
  <2>5. /\ c \in badData' \/ (blk'[D] = c /\ blkDisk'[D] = c)
        /\ c # Genesis => /\ e.nUndoPos # NoPos
                          /\ c \in badUndo' \/ (rev'[U] = c /\ revDisk'[U] = c)
    BY <2>3, <2>4
  <2>6. Kept(c)'
    BY <2>5 DEF Kept, e, D, U, DataSlot, UndoPlace
  <2> QED
    BY <2>2, <2>6
<1> QED
  BY <1>1, <1>2 DEF SavedKept

\* The chain of the tip stays readable.
LEMMA TipStep ==
  ASSUME StoreInv, TipKept, Running, FilesStep, tree'.index = tree.index, tip' = tip,
         badData \subseteq badData', pc'.at \notin {"sync", "coins"}
  PROVE  TipKept'
<1>1. ~Down /\ ChainOf(tip) \subseteq DOMAIN tree.index
  <2>1. /\ ~Down /\ DOMAIN tree.index \in SUBSET Block
        /\ \A c \in DOMAIN tree.index : Parent[c] \in DOMAIN tree.index \cup {NoBlock}
        /\ tip \in DOMAIN tree.index \cup {NoBlock}
    BY DEF StoreInv, DiskOK, MemoryOK, TreeOK, Running, Down, At, Known
  <2> QED
    BY <2>1, ChainIndexed
<1>2. ASSUME NEW c \in ChainOf(tip)
      PROVE  /\ c \in badData' \/ blk'[DataSlot(tree.index[c])] = c
             /\ c # Genesis => tree.index[c].nUndoPos # NoPos
  <2>1. /\ c \in badData \/ blk[DataSlot(tree.index[c])] = c
        /\ c # Genesis => tree.index[c].nUndoPos # NoPos
    BY DEF TipKept
  <2>2. blk'[DataSlot(tree.index[c])] = blk[DataSlot(tree.index[c])]
    BY <1>1 DEF FilesStep
  <2> QED
    BY <2>1, <2>2
<1> QED
  BY <1>2 DEF TipKept, DataSlot, At

\* Counters only grow.
LEMMA PlacedStep ==
  ASSUME NEW t, NEW u, TreeOK(t), TreeOK(u), Placed(t), u.index = t.index,
         \A n \in DOMAIN t.info : /\ u.info[n].nSize >= t.info[n].nSize
                                  /\ u.info[n].nUndoSize >= t.info[n].nUndoSize
  PROVE  Placed(u)
<1> SUFFICES ASSUME NEW b \in DOMAIN t.index
             PROVE  LET e == t.index[b] IN
                    /\ e.nDataPos < u.info[e.nFile].nSize
                    /\ e.nUndoPos < u.info[e.nFile].nUndoSize
                    /\ \A c \in DOMAIN t.index \ {b} : t.index[c].nFile = e.nFile =>
                         /\ t.index[c].nDataPos # e.nDataPos
                         /\ t.index[c].nUndoPos = e.nUndoPos => e.nUndoPos = NoPos
  BY DEF Placed
<1> DEFINE e == t.index[b]
<1>1. e \in Entry /\ e.nFile \in DOMAIN t.info /\ t.info[e.nFile] \in Info /\ u.info[e.nFile] \in Info
  BY EntrySlots
<1>2. e.nDataPos < t.info[e.nFile].nSize /\ e.nUndoPos < t.info[e.nFile].nUndoSize
  BY DEF Placed
<1>3. /\ u.info[e.nFile].nSize >= t.info[e.nFile].nSize
      /\ u.info[e.nFile].nUndoSize >= t.info[e.nFile].nUndoSize
  BY <1>1
<1>4. e.nDataPos < u.info[e.nFile].nSize /\ e.nUndoPos < u.info[e.nFile].nUndoSize
  <2> HIDE DEF e
  <2> QED
    BY <1>1, <1>2, <1>3 DEF Entry, Info, Pos, NoPos
<1> QED
  BY <1>4 DEF Placed

\* The last best block written stays in the index.
LEMMA CoinsStep ==
  ASSUME CoinsKept, powerLost' = powerLost, saved' = saved, coins' = coins,
         tree'.index = tree.index
  PROVE  CoinsKept'
  BY DEF CoinsKept

\* Nothing is written to the coin database and the tip stays.
LEMMA WrittenStep ==
  ASSUME Written, saved' = saved, coinsDisk' = coinsDisk, nLastWrite' = nLastWrite, tip' = tip,
         badData \subseteq badData', Running, pc.at \notin {"chainstate", "sync", "coins"}
  PROVE  Written'
  BY DEF Written, Running

\* The place FindBlockPos hands out is above all others.
LEMMA GrownPlaced ==
  ASSUME Grown, \A t \in treeDisk : Placed(t), tree \in treeDisk
  PROVE  /\ \A t \in treeDisk' : Placed(t)
         /\ \A b \in DOMAIN tree.index :
              tree.index[b].nFile = nLastBlockFile' => tree.index[b].nDataPos < NewPos'
<1> DEFINE n == nLastBlockFile'
           old == ReadOr(tree.info, n, NullInfo)
<1>1. /\ old \in Info /\ infoLastBlockFile' \in Info
      /\ infoLastBlockFile'.nSize = old.nSize + 1 /\ infoLastBlockFile'.nUndoSize = old.nUndoSize
      /\ TreeOK(tree) /\ TreeOK(tree') /\ tree'.index = tree.index
      /\ treeDisk' = treeDisk \cup {tree'} /\ Placed(tree)
      /\ tree'.info[n] = infoLastBlockFile'
      /\ \A m \in DOMAIN tree.info \ {n} : tree'.info[m] = tree.info[m]
  BY DEF Grown
<1>2. n \in DOMAIN tree.info => old = tree.info[n]
  BY DEF ReadOr
<1> HIDE DEF old, n
<1>3. ASSUME NEW m \in DOMAIN tree.info
      PROVE  /\ tree'.info[m].nSize >= tree.info[m].nSize
             /\ tree'.info[m].nUndoSize >= tree.info[m].nUndoSize
  <2>1. tree.info[m] \in Info
    BY <1>1 DEF TreeOK
  <2> QED
    BY <1>1, <1>2, <2>1 DEF Info
<1>4. Placed(tree')
  BY <1>1, <1>3, PlacedStep
<1>5. ASSUME NEW b \in DOMAIN tree.index, tree.index[b].nFile = n
      PROVE  tree.index[b].nDataPos < NewPos'
  <2>1. n \in DOMAIN tree.info /\ tree.index[b].nDataPos < tree.info[n].nSize /\ tree.index[b] \in Entry
    BY <1>1, <1>5, EntrySlots DEF Placed
  <2>2. NewPos' = old.nSize
    BY <1>1 DEF NewPos, Info
  <2> QED
    BY <1>2, <2>1, <2>2
<1> QED
  BY <1>1, <1>4, <1>5 DEF n

-----------------------------------------------------------------------------
(* Every step keeps places reserved and saved tips recoverable *)

\* FindBlockPos: the file that is left has been committed.
LEMMA FindBlockPosSafe ==
  ASSUME StoreInv, Safe, NEW b \in Block, Parent[b] \in Known \cup {NoBlock},
         pc.at \in {"idle", "init"}, b \notin Known \/ tip = NoBlock, FindBlockPos(b)
  PROVE  Safe'
<1> DEFINE leave == ~Room(infoLastBlockFile)
<1>1. /\ pc' = [at |-> IF leave THEN "last" ELSE "data", b |-> b]
      /\ ~leave => nLastBlockFile' = nLastBlockFile
      /\ UNCHANGED <<mapBlockIndex, tip, nLastWrite, fReindex, scan, blk, rev, coins, coinsDisk,
                     history>>
      /\ IF leave
           THEN /\ blkDisk' = Committed(blkDisk, blk, nLastBlockFile)
                /\ revDisk' = Committed(revDisk, rev, nLastBlockFile)
           ELSE UNCHANGED <<blkDisk, revDisk>>
  BY DEF FindBlockPos, Goto
<1> HIDE DEF leave
<1>2. /\ Grown /\ ~Down /\ ~fReindex /\ Running
      /\ DiskOK /\ tree \in treeDisk /\ TreeOK(tree) /\ mapBlockIndex = tree.index
  BY FindBlockPosStore DEF StoreInv, DiskOK, MemoryOK, StepOK, Running
<1>3. /\ \A t \in treeDisk : Placed(t)
      /\ Stored /\ SavedKept /\ TipKept /\ Written /\ CoinsKept
  BY DEF Safe
<1>4. /\ tree'.index = tree.index /\ treeDisk' = treeDisk \cup {tree'}
      /\ UNCHANGED <<powerLost, saved, badData, badUndo>>
  BY <1>1, <1>2 DEF Grown, history
<1>5. FilesStep
  BY <1>1, <1>2, CommitStep
<1>6. /\ \A t \in treeDisk' : Placed(t)
      /\ \A c \in DOMAIN tree.index :
           tree.index[c].nFile = nLastBlockFile' => tree.index[c].nDataPos < NewPos'
  BY <1>2, <1>3, GrownPlaced
<1>7. Handed'
  BY <1>1, <1>2, <1>6 DEF Handed, At, Known
<1>8. ASSUME NEW c \in DOMAIN tree.index, Current(tree.index[c].nFile)
      PROVE  LET e == tree.index[c] IN
             \/ Current(e.nFile)'
             \/ /\ blkDisk'[DataSlot(e)] = blk[DataSlot(e)]
                /\ e.nUndoPos # NoPos => revDisk'[UndoPlace(e)] = rev[UndoPlace(e)]
  <2>1. tree.index[c].nFile = nLastBlockFile
    BY <1>2, <1>8 DEF Current
  <2>2. CASE leave
    <3>1. /\ DataSlot(tree.index[c]) \in Slot /\ DataSlot(tree.index[c])[1] = nLastBlockFile
          /\ tree.index[c].nUndoPos # NoPos =>
               UndoPlace(tree.index[c]) \in Slot /\ UndoPlace(tree.index[c])[1] = nLastBlockFile
      BY <1>2, <2>1, EntrySlots DEF DataSlot, UndoPlace
    <3>2. /\ \A s \in Slot : s[1] = nLastBlockFile => blkDisk'[s] = blk[s]
          /\ \A s \in Slot : s[1] = nLastBlockFile => revDisk'[s] = rev[s]
      BY <1>1, <1>2, <2>2, CommittedFacts DEF DiskOK
    <3> QED
      BY <3>1, <3>2
  <2>3. CASE ~leave
    BY <1>1, <1>4, <2>1, <2>3 DEF Current, Down, At
  <2> QED
    BY <2>2, <2>3
<1>9. Stored'
  BY <1>3, <1>4, <1>5, <1>8, StoredStep
<1>10. SavedKept'
  BY <1>2, <1>3, <1>4, <1>5, SavedStep
<1>11. TipKept'
  BY <1>1, <1>2, <1>3, <1>4, <1>5, TipStep
<1>12. Written' /\ CoinsKept'
  BY <1>1, <1>2, <1>3, <1>4, WrittenStep, CoinsStep
<1>13. StartSucceeds'
  BY <1>1 DEF StartSucceeds, At
<1> QED
  BY <1>6, <1>7, <1>9, <1>10, <1>11, <1>12, <1>13 DEF Safe

\* A database with the same index and counters.
LEMMA PlacedSame ==
  ASSUME NEW t, NEW u, Placed(t), u.index = t.index, u.info = t.info
  PROVE  Placed(u)
  BY DEF Placed

\* WriteLastBlockFile.
LEMMA WriteLastBlockFileSafe ==
  ASSUME StoreInv, Safe, WriteLastBlockFile
  PROVE  Safe'
<1> DEFINE u == [tree EXCEPT !.last = nLastBlockFile]
<1>1. /\ pc.at = "last" /\ tree' = u /\ treeDisk' = treeDisk \cup {u}
      /\ pc' = [at |-> IF fReindex THEN "index" ELSE "data", b |-> pc.b]
      /\ UNCHANGED <<mem, files, coins, coinsDisk, history>>
  BY DEF WriteLastBlockFile, WriteTree, At, Goto
<1>2. /\ ~Down /\ Running /\ DiskOK /\ tree \in treeDisk /\ TreeOK(tree)
      /\ nLastBlockFile \in File
  BY <1>1 DEF StoreInv, DiskOK, MemoryOK, Running, Down, At
<1>3. u.index = tree.index /\ u.info = tree.info
  BY <1>2, MarkWritten
<1> HIDE DEF u
<1>4. /\ \A t \in treeDisk : Placed(t)
      /\ Handed /\ Stored /\ SavedKept /\ TipKept /\ Written /\ CoinsKept
  BY DEF Safe
<1>5. \A t \in treeDisk' : Placed(t)
  BY <1>1, <1>2, <1>3, <1>4, PlacedSame
<1>6. Handed'
  BY <1>1, <1>4 DEF Handed, At, Known, NewPos, mem, files
<1>7. FilesStep
  BY <1>1, FilesSame
<1>8. \A n : ~Current(n)
  BY <1>1 DEF Current, At
<1>9. UNCHANGED <<powerLost, saved, badData, badUndo, tip, nLastWrite>>
  BY <1>1 DEF history, mem
<1>10. Stored'
  BY <1>1, <1>3, <1>4, <1>7, <1>8, <1>9, StoredStep
<1>11. SavedKept'
  BY <1>1, <1>2, <1>3, <1>4, <1>7, <1>9, SavedStep
<1>12. TipKept'
  BY <1>1, <1>2, <1>3, <1>4, <1>7, <1>9, TipStep
<1>13. Written' /\ CoinsKept'
  BY <1>1, <1>2, <1>3, <1>4, <1>9, WrittenStep, CoinsStep
<1>14. StartSucceeds'
  BY <1>1 DEF StartSucceeds, At
<1> QED
  BY <1>5, <1>6, <1>10, <1>11, <1>12, <1>13, <1>14 DEF Safe

\* WriteBlockToDisk: nothing in the index has the place that is written.
LEMMA WriteBlockToDiskSafe ==
  ASSUME StoreInv, Safe, WriteBlockToDisk
  PROVE  Safe'
<1> DEFINE s == <<nLastBlockFile, NewPos>>
<1>1. /\ pc.at = "data"
      /\ blk' = [blk EXCEPT ![s] = pc.b]
      /\ blkDisk' = Committed(blkDisk, blk', nLastBlockFile) \/ blkDisk' = blkDisk
      /\ pc' = [at |-> "index", b |-> pc.b]
      /\ UNCHANGED <<mem, rev, revDisk, tree, treeDisk, coins, coinsDisk, history>>
  BY DEF WriteBlockToDisk, At, Goto
<1>2. /\ ~Down /\ Running /\ DiskOK /\ TreeOK(tree) /\ mapBlockIndex = tree.index
      /\ ~fReindex /\ NewPos \in Pos /\ nLastBlockFile \in File
      /\ blk \in Content /\ blkDisk \in Content
  BY <1>1 DEF StoreInv, DiskOK, MemoryOK, StepOK, Running, Down, At
<1>3. /\ \A t \in treeDisk : Placed(t)
      /\ Handed /\ Stored /\ SavedKept /\ TipKept /\ Written /\ CoinsKept
  BY DEF Safe
<1>4. s \in Slot /\ blk'[s] = pc.b /\ blk' \in Content
  <2>1. pc.b \in Block
    BY <1>1 DEF StoreInv, StepOK
  <2> QED
    BY <1>1, <1>2, <2>1 DEF Slot, Content
<1>5. FilesStep
  <2> SUFFICES ASSUME NEW b \in DOMAIN tree.index
               PROVE  LET D == DataSlot(tree.index[b]) IN
                      blk'[D] = blk[D] /\ blkDisk'[D] \in {blkDisk[D], blk[D]}
    BY <1>1 DEF FilesStep
  <2> DEFINE D == DataSlot(tree.index[b])
  <2>1. D \in Slot /\ tree.index[b] \in Entry
    BY <1>2, EntrySlots
  <2>2. tree.index[b].nFile = nLastBlockFile => tree.index[b].nDataPos < NewPos
    BY <1>1, <1>2, <1>3 DEF Handed, Known
  <2>3. D # s
    BY <1>2, <2>1, <2>2 DEF DataSlot, Pos, Entry
  <2> HIDE DEF D, s
  <2>4. blk'[D] = blk[D]
    BY <1>1, <1>2, <2>1, <2>3 DEF Content
  <2>5. \A x \in Slot : Committed(blkDisk, blk', nLastBlockFile)[x] \in {blkDisk[x], blk'[x]}
    BY <1>2, <1>4, CommittedFacts
  <2>6. blkDisk'[D] \in {blkDisk[D], blk'[D]}
    BY <1>1, <2>1, <2>5
  <2> QED
    BY <2>4, <2>6 DEF D
<1>6. Handed'
  <2>1. NewPos' = NewPos /\ nLastBlockFile' = nLastBlockFile /\ Known' = Known
    BY <1>1 DEF NewPos, Known, mem
  <2> QED
    BY <1>1, <1>2, <1>3, <1>4, <2>1 DEF Handed, At, mem
<1>7. /\ tree'.index = tree.index /\ treeDisk' = treeDisk
      /\ UNCHANGED <<powerLost, saved, badData, badUndo, tip, nLastWrite, coins, coinsDisk>>
  BY <1>1 DEF history, mem
<1>8. \A n : Current(n) => Current(n)'
  BY <1>1, <1>2 DEF Current, Down, At, mem
<1>9. Stored'
  BY <1>3, <1>5, <1>7, <1>8, StoredStep
<1>10. SavedKept'
  BY <1>2, <1>3, <1>5, <1>7, SavedStep
<1>11. TipKept'
  BY <1>1, <1>2, <1>3, <1>5, <1>7, TipStep
<1>12. Written' /\ CoinsKept'
  BY <1>1, <1>2, <1>3, <1>7, WrittenStep, CoinsStep
<1>13. StartSucceeds'
  BY <1>1 DEF StartSucceeds, At
<1> QED
  BY <1>3, <1>6, <1>7, <1>9, <1>10, <1>11, <1>12, <1>13 DEF Safe

\* FindMostWorkChain, ScanForBetterChains and a failure to read change nothing.
LEMMA ChooseSafe ==
  ASSUME StoreInv, Safe,
         FindMostWorkChain \/ ScanForBetterChains \/ (At("activate") /\ Fails)
  PROVE  Safe'
<1>1. /\ UNCHANGED <<mem, files, tree, treeDisk, coins, coinsDisk, history>>
      /\ pc.at \in {"activate", "start"} /\ pc'.at \in {"import", "idle", "activate"}
  BY ChooseStore DEF FindMostWorkChain, ScanForBetterChains, Fails, At
<1>2. Running /\ DiskOK
  BY <1>1 DEF StoreInv, Running
<1>3. /\ \A t \in treeDisk : Placed(t)
      /\ Stored /\ SavedKept /\ TipKept /\ Written /\ CoinsKept
  BY DEF Safe
<1>4. Handed' /\ StartSucceeds'
  BY <1>1 DEF Handed, StartSucceeds, At
<1>5. FilesStep
  BY <1>1, FilesSame
<1>6. UNCHANGED <<powerLost, saved, badData, badUndo, tip, nLastWrite>> /\ tree'.index = tree.index
  BY <1>1 DEF history, mem
<1>7. \A n : Current(n) => Current(n)'
  BY <1>1 DEF Current, Down, At, mem
<1>8. Stored'
  BY <1>3, <1>5, <1>6, <1>7, StoredStep
<1>9. SavedKept'
  BY <1>1, <1>2, <1>3, <1>5, <1>6, SavedStep
<1>10. TipKept'
  BY <1>1, <1>2, <1>3, <1>5, <1>6, TipStep
<1>11. Written' /\ CoinsKept'
  BY <1>1, <1>2, <1>3, <1>6, WrittenStep, CoinsStep
<1> QED
  BY <1>1, <1>3, <1>4, <1>8, <1>9, <1>10, <1>11 DEF Safe

\* The chains of the tip, of the best block on disk and of the saved tips are indexed.
LEMMA ChainsIndexed ==
  ASSUME StoreInv, SavedKept
  PROVE  /\ ~Down => ChainOf(tip) \subseteq DOMAIN tree.index
         /\ coins \in DOMAIN tree.index \cup {NoBlock} => ChainOf(coins) \subseteq DOMAIN tree.index
         /\ SavedBlocks \subseteq DOMAIN tree.index
<1>1. /\ DOMAIN tree.index \in SUBSET Block /\ tree \in treeDisk
      /\ \A c \in DOMAIN tree.index : Parent[c] \in DOMAIN tree.index \cup {NoBlock}
      /\ ~Down => tip \in DOMAIN tree.index \cup {NoBlock}
  BY DEF StoreInv, DiskOK, MemoryOK, TreeOK, Known
<1>2. \A b \in DOMAIN tree.index \cup {NoBlock} : ChainOf(b) \subseteq DOMAIN tree.index
  BY <1>1, ChainIndexed
<1>3. SavedBlocks \subseteq DOMAIN tree.index
  BY <1>1 DEF SavedKept
<1> QED
  BY <1>1, <1>2, <1>3

\* Without a best block nothing has been saved.
LEMMA NothingSaved ==
  ASSUME StoreInv, Written, Running, tip = NoBlock
  PROVE  saved = {NoBlock} /\ SavedBlocks = {}
<1>1. saved = {NoBlock}
  BY DEF Written
<1>2. ChainOf(NoBlock) = {}
  BY DEF ChainOf
<1>3. SavedBlocks = {}
  BY <1>1, <1>2 DEF SavedBlocks
<1> QED
  BY <1>1, <1>3

\* AddToBlockIndex: the entry is new, or that of a block no chain state needs yet.
LEMMA AddToBlockIndexSafe ==
  ASSUME StoreInv, Safe, AddToBlockIndex
  PROVE  Safe'
<1> DEFINE b == pc.b
<1>1. /\ pc.at = "index" /\ pc' = [at |-> "activate", b |-> NoBlock]
      /\ treeDisk' = treeDisk \cup {tree'}
      /\ UNCHANGED <<nLastBlockFile, infoLastBlockFile, tip, nLastWrite, fReindex, scan, files,
                     coins, coinsDisk, history>>
  BY DEF AddToBlockIndex, WriteIndex, WriteTree, At, Goto
<1>2. /\ NewEntry \in Entry /\ TreeOK(tree) /\ TreeOK(tree') /\ tree'.info = tree.info
      /\ DOMAIN tree'.index = DOMAIN tree.index \cup {b} /\ tree'.index[b] = NewEntry
      /\ \A c \in DOMAIN tree.index \ {b} : tree'.index[c] = tree.index[c]
  BY AddToBlockIndexStore
<1>3. /\ ~Down /\ Running /\ DiskOK /\ mapBlockIndex = tree.index /\ tree \in treeDisk
      /\ nLastBlockFile \in DOMAIN tree.info /\ infoLastBlockFile = tree.info[nLastBlockFile]
      /\ infoLastBlockFile.nSize > 0 /\ infoLastBlockFile \in Info /\ b \in Block
  BY <1>1 DEF StoreInv, DiskOK, MemoryOK, StepOK, ReadOr, Running, Down, At
<1>4. /\ \A t \in treeDisk : Placed(t)
      /\ Handed /\ Stored /\ SavedKept /\ TipKept /\ Written /\ CoinsKept
  BY DEF Safe
<1>5. /\ \A c \in DOMAIN tree.index : tree.index[c].nFile = nLastBlockFile =>
           tree.index[c].nDataPos < NewPos
      /\ blk[<<nLastBlockFile, NewPos>>] = b
      /\ b \notin DOMAIN tree.index \/ tip = NoBlock
      /\ fReindex => scan[2] = infoLastBlockFile.nSize
  BY <1>1, <1>3, <1>4 DEF Handed, At, Known
<1>6. NewEntry = [nFile |-> nLastBlockFile, nDataPos |-> NewPos, nUndoPos |-> NoPos]
  BY <1>5 DEF NewEntry, NewPos
<1>7. NewPos = infoLastBlockFile.nSize - 1
  BY DEF NewPos
<1>8. /\ b \notin SavedBlocks /\ b \notin ChainOf(tip)
      /\ saved # {NoBlock} /\ coins \in DOMAIN tree.index \cup {NoBlock} => b \notin ChainOf(coins)
  <2>1. CASE b \notin DOMAIN tree.index
    BY <1>3, <1>4, <2>1, ChainsIndexed
  <2>2. CASE tip = NoBlock
    BY <1>3, <1>4, <2>2, NothingSaved DEF ChainOf
  <2> QED
    BY <1>5, <2>1, <2>2
<1> HIDE DEF b, NewPos, NewEntry
<1>9. Placed(tree')
  <2> SUFFICES ASSUME NEW c \in DOMAIN tree'.index
               PROVE  LET e == tree'.index[c] IN
                      /\ e.nDataPos < tree.info[e.nFile].nSize
                      /\ e.nUndoPos < tree.info[e.nFile].nUndoSize
                      /\ \A d \in DOMAIN tree'.index \ {c} : tree'.index[d].nFile = e.nFile =>
                           /\ tree'.index[d].nDataPos # e.nDataPos
                           /\ tree'.index[d].nUndoPos = e.nUndoPos => e.nUndoPos = NoPos
    BY <1>2 DEF Placed
  <2>1. CASE c = b
    <3>1. /\ NewEntry.nDataPos < infoLastBlockFile.nSize
          /\ NewEntry.nUndoPos < infoLastBlockFile.nUndoSize
          /\ NewEntry.nFile = nLastBlockFile /\ NewEntry.nUndoPos = NoPos
          /\ NewEntry.nDataPos = NewPos
      BY <1>3, <1>6, <1>7 DEF Info, NoPos
    <3>2. ASSUME NEW d \in DOMAIN tree'.index \ {b}, tree'.index[d].nFile = nLastBlockFile
          PROVE  tree'.index[d].nDataPos # NewPos
      <4>1. d \in DOMAIN tree.index /\ tree'.index[d] = tree.index[d] /\ tree.index[d] \in Entry
        BY <1>2, EntrySlots
      <4>2. tree.index[d].nDataPos < NewPos /\ tree.index[d].nDataPos \in Int /\ NewPos \in Int
        BY <1>3, <1>5, <1>7, <3>2, <4>1 DEF Entry, Pos, Info
      <4> QED
        BY <4>1, <4>2
    <3> QED
      BY <1>2, <1>3, <2>1, <3>1, <3>2
  <2>2. CASE c # b
    <3>1. c \in DOMAIN tree.index /\ tree'.index[c] = tree.index[c] /\ Placed(tree)
      BY <1>2, <1>3, <1>4, <2>2
    <3>2. ASSUME NEW d \in DOMAIN tree'.index \ {c}, tree'.index[d].nFile = tree.index[c].nFile
          PROVE  /\ tree'.index[d].nDataPos # tree.index[c].nDataPos
                 /\ tree'.index[d].nUndoPos = tree.index[c].nUndoPos => tree.index[c].nUndoPos = NoPos
      <4>1. CASE d = b
        <5>1. /\ NewEntry.nFile = nLastBlockFile /\ NewEntry.nUndoPos = NoPos
              /\ NewEntry.nDataPos = NewPos /\ tree.index[c] \in Entry
          BY <1>2, <1>6, <3>1, EntrySlots
        <5>2. tree.index[c].nDataPos < NewPos /\ tree.index[c].nDataPos \in Int /\ NewPos \in Int
          BY <1>2, <1>3, <1>5, <1>7, <3>1, <3>2, <4>1, <5>1 DEF Entry, Pos, Info
        <5> QED
          BY <1>2, <4>1, <5>1, <5>2
      <4>2. CASE d # b
        BY <1>2, <3>1, <3>2, <4>2 DEF Placed
      <4> QED
        BY <4>1, <4>2
    <3> QED
      BY <3>1, <3>2 DEF Placed
  <2> QED
    BY <2>1, <2>2
<1>10. Handed' /\ StartSucceeds'
  BY <1>1 DEF Handed, StartSucceeds, At
<1>11. Stored'
  <2> SUFFICES ASSUME NEW c \in DOMAIN tree'.index
               PROVE  LET e == tree'.index[c] IN
                      /\ ~powerLost => blk[DataSlot(e)] = c /\ (e.nUndoPos # NoPos => rev[UndoPlace(e)] = c)
                      /\ blk[DataSlot(e)] = c =>
                           e.nFile = nLastBlockFile \/ c \in badData \/ blkDisk[DataSlot(e)] = c
                      /\ e.nUndoPos # NoPos =>
                           \/ c \in badUndo
                           \/ /\ rev[UndoPlace(e)] = c
                              /\ e.nFile = nLastBlockFile \/ revDisk[UndoPlace(e)] = c
    <3>1. \A n : n = nLastBlockFile => Current(n)'
      BY <1>1 DEF Current, Down, At
    <3>2. UNCHANGED <<blk, blkDisk, rev, revDisk, powerLost, badData, badUndo>>
      BY <1>1 DEF files, history
    <3> QED
      BY <3>1, <3>2 DEF Stored, DataSlot, UndoPlace
  <2>1. \A n : Current(n) => n = nLastBlockFile
    BY <1>3 DEF Current
  <2>2. CASE c = b
    BY <1>2, <1>5, <1>6, <2>1, <2>2 DEF DataSlot
  <2>3. CASE c # b
    BY <1>2, <1>4, <2>1, <2>3 DEF Stored
  <2> QED
    BY <2>2, <2>3
<1>12. SavedKept'
  <2>1. SavedBlocks' = SavedBlocks
    BY <1>1 DEF SavedBlocks, history
  <2>2. ASSUME NEW c \in SavedBlocks
        PROVE  Kept(c)' /\ \A t \in treeDisk' : c \in DOMAIN t.index /\ t.index[c] = tree'.index[c]
    <3>1. c \in DOMAIN tree.index /\ tree'.index[c] = tree.index[c] /\ c \in DOMAIN tree'.index
      BY <1>2, <1>4, <1>8, ChainsIndexed
    <3>2. Kept(c) /\ \A t \in treeDisk : c \in DOMAIN t.index /\ t.index[c] = tree.index[c]
      BY <1>4 DEF SavedKept
    <3>3. Kept(c)'
      BY <1>1, <3>1, <3>2 DEF Kept, DataSlot, UndoPlace, files, history
    <3> QED
      BY <1>1, <3>1, <3>2, <3>3
  <2> QED
    BY <2>1, <2>2 DEF SavedKept
<1>13. TipKept'
  <2>1. ASSUME NEW c \in ChainOf(tip)
        PROVE  /\ c \in badData \/ blk[DataSlot(tree'.index[c])] = c
               /\ c # Genesis => tree'.index[c].nUndoPos # NoPos
    <3>1. tree'.index[c] = tree.index[c]
      BY <1>2, <1>3, <1>4, <1>8, ChainsIndexed
    <3> QED
      BY <1>3, <1>4, <3>1 DEF TipKept
  <2> QED
    BY <1>1, <2>1 DEF TipKept, DataSlot, files, history, At
<1>14. Written'
  <2>1. UNCHANGED <<saved, coinsDisk, nLastWrite, tip, badData>>
    BY <1>1 DEF history
  <2> QED
    BY <1>1, <1>3, <1>4, <2>1, WrittenStep
<1>15. CoinsKept'
  <2>1. coins' = coins /\ powerLost' = powerLost /\ saved' = saved
    BY <1>1 DEF history
  <2>2. ASSUME saved # {NoBlock}, coins \in DOMAIN tree.index \cup {NoBlock}, NEW c \in ChainOf(coins)
        PROVE  tree'.index[c] = tree.index[c]
    BY <1>2, <1>4, <1>8, <2>2, ChainsIndexed
  <2> QED
    BY <1>2, <1>4, <2>1, <2>2 DEF CoinsKept
<1> QED
  BY <1>1, <1>4, <1>9, <1>10, <1>11, <1>12, <1>13, <1>14, <1>15 DEF Safe

\* The tip moves to a block whose chain can be read and has undo data.
LEMMA MoveTipSafe ==
  ASSUME StoreInv, Safe, At("activate"), pc'.at = "chainstate", tip' # NoBlock,
         UNCHANGED <<mapBlockIndex, nLastBlockFile, nLastWrite, files, tree, treeDisk, coins,
                     coinsDisk, history>>,
         \A c \in ChainOf(tip)' :
           /\ c \in badData \/ blk[DataSlot(tree.index[c])] = c
           /\ c # Genesis => tree.index[c].nUndoPos # NoPos
  PROVE  Safe'
<1>1. UNCHANGED <<powerLost, saved, badData, badUndo, blk, blkDisk, rev, revDisk>>
  BY DEF history, files
<1>2. /\ \A t \in treeDisk : Placed(t)
      /\ Stored /\ SavedKept /\ Written /\ CoinsKept
  BY DEF Safe
<1>3. Handed' /\ StartSucceeds'
  BY DEF Handed, StartSucceeds, At
<1>4. FilesStep
  BY FilesSame
<1>5. \A n : Current(n) => Current(n)'
  BY DEF Current, Down, At
<1>6. Stored'
  BY <1>1, <1>2, <1>4, <1>5, StoredStep
<1>7. SavedKept'
  BY <1>1, <1>2, <1>4, SavedStep DEF StoreInv
<1>8. TipKept'
  BY <1>1 DEF TipKept, DataSlot, At
<1>9. Written'
  BY <1>1, <1>2 DEF Written, Running, At
<1>10. CoinsKept'
  BY <1>1, <1>2, CoinsStep
<1> QED
  BY <1>2, <1>3, <1>6, <1>7, <1>8, <1>9, <1>10 DEF Safe

\* DisconnectTip.
LEMMA DisconnectSafe ==
  ASSUME StoreInv, Safe, At("activate"), pc.b # NoBlock, tip \notin ChainOf(pc.b) \cup {NoBlock},
         DisconnectDone
  PROVE  Safe'
<1>1. /\ pc'.at = "chainstate" /\ tip' = Parent[tip]
      /\ UNCHANGED <<mapBlockIndex, nLastBlockFile, infoLastBlockFile, nLastWrite, fReindex, scan,
                     files, tree, treeDisk, coins, coinsDisk, history>>
  BY DEF DisconnectDone, Goto
<1>2. tip \in Block /\ tip' # NoBlock
  <2>1. StoreInv' /\ tip \in Block
    BY DisconnectTipStore DEF DisconnectDone
  <2> QED
    BY <1>1, <2>1 DEF StoreInv, StepOK
<1>3. ChainOf(tip)' \subseteq ChainOf(tip)
  BY <1>1, <1>2, ChainStep DEF ChainOf
<1>4. \A c \in ChainOf(tip) :
           /\ c \in badData \/ blk[DataSlot(tree.index[c])] = c
           /\ c # Genesis => tree.index[c].nUndoPos # NoPos
  BY DEF Safe, TipKept, Running, At
<1> QED
  BY <1>1, <1>2, <1>3, <1>4, MoveTipSafe

\* ConnectTip of a block that needs no undo data, or has it.
LEMMA ConnectSafe ==
  ASSUME StoreInv, Safe, Connecting, tip # pc.b, ConnectDone
  PROVE  Safe'
<1>1. /\ pc'.at = "chainstate" /\ tip' = NextBlock /\ At("activate")
      /\ UNCHANGED <<mapBlockIndex, nLastBlockFile, infoLastBlockFile, nLastWrite, fReindex, scan,
                     files, tree, treeDisk, coins, coinsDisk, history>>
  BY DEF ConnectDone, Connecting, Goto
<1>2. StoreInv' /\ NextBlock \in Known /\ Parent[NextBlock] = tip /\ NextBlock \in Block
  BY ConnectTipStore DEF ConnectDone
<1>3. tip' # NoBlock
  BY <1>1, <1>2, StorageAssumption
<1>4. ChainOf(NextBlock) \subseteq {NextBlock} \cup ChainOf(tip)
  BY <1>2, ChainStep
<1>5. ChainOf(tip)' = ChainOf(NextBlock)
  BY <1>1 DEF ChainOf
<1>6. \A c \in ChainOf(tip) :
           /\ c \in badData \/ blk[DataSlot(tree.index[c])] = c
           /\ c # Genesis => tree.index[c].nUndoPos # NoPos
  BY <1>1 DEF Safe, TipKept, Running, At
<1>7. /\ blk[DataSlot(tree.index[NextBlock])] = NextBlock
      /\ NextBlock # Genesis => tree.index[NextBlock].nUndoPos # NoPos
  <2>1. mapBlockIndex = tree.index
    BY <1>1 DEF StoreInv, MemoryOK, Down, At
  <2> QED
    BY <2>1 DEF ConnectDone, Readable, BlockAt, HasUndo, DataSlot
<1>8. \A c \in ChainOf(tip)' :
           /\ c \in badData \/ blk[DataSlot(tree.index[c])] = c
           /\ c # Genesis => tree.index[c].nUndoPos # NoPos
  BY <1>4, <1>5, <1>6, <1>7
<1> QED
  BY <1>1, <1>3, <1>8, MoveTipSafe

\* FindUndoPos: the place is above all others of the file.
LEMMA FindUndoPosSafe ==
  ASSUME StoreInv, Safe, FindUndoPos
  PROVE  Safe'
<1>1. /\ pc.at = "activate" /\ pc' = [at |-> "undo", b |-> pc.b]
      /\ UNCHANGED <<mapBlockIndex, nLastBlockFile, tip, nLastWrite, fReindex, scan, files, coins,
                     coinsDisk, history>>
      /\ Readable(NextBlock)
  BY DEF FindUndoPos, Connecting, At, Goto
<1>2. /\ StoreInv' /\ NextBlock \in Known /\ UndoFile \in DOMAIN tree.info
      /\ NextBlock' = NextBlock /\ UndoFile' = UndoFile
      /\ tree'.index = tree.index /\ DOMAIN tree'.info = DOMAIN tree.info
      /\ tree'.info[UndoFile].nSize = tree.info[UndoFile].nSize
      /\ tree'.info[UndoFile].nUndoSize = tree.info[UndoFile].nUndoSize + 1
      /\ \A m \in DOMAIN tree.info \ {UndoFile} : tree'.info[m] = tree.info[m]
      /\ treeDisk' = treeDisk \cup {tree'} /\ TreeOK(tree)
  BY FindUndoPosStore
<1>3. /\ Running /\ ~Down /\ DiskOK /\ mapBlockIndex = tree.index /\ tree \in treeDisk
      /\ TreeOK(tree')
  BY <1>1, <1>2 DEF StoreInv, DiskOK, MemoryOK, Running, Down, At
<1>4. /\ \A t \in treeDisk : Placed(t)
      /\ Stored /\ SavedKept /\ TipKept /\ Written /\ CoinsKept
  BY DEF Safe
<1>5. ASSUME NEW m \in DOMAIN tree.info
      PROVE  /\ tree'.info[m].nSize >= tree.info[m].nSize
             /\ tree'.info[m].nUndoSize >= tree.info[m].nUndoSize
             /\ tree.info[m].nUndoSize \in Int
  <2>1. tree.info[m] \in Info
    BY <1>2 DEF TreeOK
  <2> QED
    BY <1>2, <2>1 DEF Info
<1>6. Placed(tree) /\ Placed(tree')
  BY <1>2, <1>3, <1>4, <1>5, PlacedStep
<1>7. Handed'
  <2>1. UndoSlot' = <<UndoFile', tree'.info[UndoFile'].nUndoSize - 1>>
    BY DEF UndoSlot, UndoFile
  <2>2. UndoSlot'[1] = UndoFile /\ UndoSlot'[2] = tree.info[UndoFile].nUndoSize
    BY <1>2, <1>5, <2>1
  <2>3. ASSUME NEW b \in Known, mapBlockIndex[b].nFile = UndoFile
        PROVE  mapBlockIndex[b].nUndoPos < tree.info[UndoFile].nUndoSize
    BY <1>3, <1>6, <2>3 DEF Placed, Known
  <2>4. Readable(NextBlock)'
    <3>1. blk' = blk
      BY <1>1 DEF files
    <3> QED
      BY <1>1, <1>2, <3>1 DEF Readable, BlockAt
  <2>5. Known' = Known
    BY <1>1 DEF Known
  <2> QED
    BY <1>1, <2>2, <2>3, <2>4, <2>5 DEF Handed, At
<1>8. StartSucceeds'
  BY <1>1 DEF StartSucceeds, At
<1>9. FilesStep
  BY <1>1, FilesSame
<1>10. UNCHANGED <<powerLost, saved, badData, badUndo>>
  BY <1>1 DEF history
<1>11. \A n : Current(n) => Current(n)'
  BY <1>1 DEF Current, Down, At
<1>12. Stored'
  BY <1>2, <1>4, <1>9, <1>10, <1>11, StoredStep
<1>13. SavedKept'
  BY <1>2, <1>3, <1>4, <1>9, <1>10, SavedStep
<1>14. TipKept'
  BY <1>1, <1>2, <1>3, <1>4, <1>9, <1>10, TipStep
<1>15. Written' /\ CoinsKept'
  BY <1>1, <1>2, <1>3, <1>4, <1>10, WrittenStep, CoinsStep
<1> QED
  BY <1>2, <1>4, <1>6, <1>7, <1>8, <1>12, <1>13, <1>14, <1>15 DEF Safe

\* WriteUndoToDisk: nothing in the index has the place that is written.
LEMMA WriteUndoToDiskSafe ==
  ASSUME StoreInv, Safe, WriteUndoToDisk
  PROVE  Safe'
<1>1. /\ pc.at = "undo" /\ pc' = [at |-> "undoindex", b |-> pc.b]
      /\ rev' = [rev EXCEPT ![UndoSlot] = NextBlock]
      /\ \/ revDisk' = Committed(revDisk, rev', UndoSlot[1]) /\ badUndo' = badUndo
         \/ revDisk' = revDisk /\ UndoSlot[1] = nLastBlockFile /\ badUndo' = badUndo
         \/ revDisk' = revDisk /\ badUndo' = badUndo \cup {NextBlock}
      /\ UNCHANGED <<mem, blk, blkDisk, tree, treeDisk, coins, coinsDisk, powerLost, saved, badData>>
  BY DEF WriteUndoToDisk, At, Goto
<1>2. /\ DiskOK /\ ~Down /\ Running /\ TreeOK(tree) /\ mapBlockIndex = tree.index
      /\ NextBlock \in Block /\ UndoSlot \in Slot /\ UndoSlot = <<UndoFile, UndoSlot[2]>>
      /\ rev \in Content /\ revDisk \in Content
  BY <1>1, UndoSlotOK DEF DiskOK, Running
<1>3. /\ \A t \in treeDisk : Placed(t)
      /\ Handed /\ Stored /\ SavedKept /\ TipKept /\ Written /\ CoinsKept
  BY DEF Safe
<1>4. rev' \in Content /\ rev'[UndoSlot] = NextBlock
  BY <1>1, <1>2 DEF Content
<1>5. \A s \in Slot : revDisk'[s] \in {revDisk[s], rev'[s]}
  <2>1. \A s \in Slot : Committed(revDisk, rev', UndoSlot[1])[s] \in {revDisk[s], rev'[s]}
    BY <1>2, <1>4, CommittedFacts
  <2> QED
    BY <1>1, <2>1
<1>6. FilesStep
  <2> SUFFICES ASSUME NEW b \in DOMAIN tree.index, tree.index[b].nUndoPos # NoPos
               PROVE  LET U == UndoPlace(tree.index[b]) IN
                      rev'[U] = rev[U] /\ revDisk'[U] \in {revDisk[U], rev[U]}
    BY <1>1 DEF FilesStep
  <2> DEFINE U == UndoPlace(tree.index[b])
  <2>1. U \in Slot /\ tree.index[b] \in Entry
    BY <1>2, EntrySlots
  <2>2. tree.index[b].nFile = UndoSlot[1] => tree.index[b].nUndoPos < UndoSlot[2]
    BY <1>1, <1>2, <1>3 DEF Handed, Known
  <2>3. U # UndoSlot
    <3>1. UndoSlot[2] \in Int /\ tree.index[b].nUndoPos \in Int
      BY <1>2, <2>1 DEF Slot, Pos, Entry, NoPos
    <3>2. U[1] = tree.index[b].nFile /\ U[2] = tree.index[b].nUndoPos
      BY DEF UndoPlace
    <3> QED
      BY <2>2, <3>1, <3>2
  <2> HIDE DEF U
  <2>4. rev'[U] = rev[U]
    BY <1>1, <1>2, <2>1, <2>3 DEF Content
  <2> QED
    BY <1>5, <2>1, <2>4 DEF U
<1>7. NextBlock' = NextBlock /\ UndoSlot' = UndoSlot /\ Known' = Known
  BY <1>1, UndoKept DEF mem, Known
<1>8. Handed'
  <2>1. \/ NextBlock \in badUndo'
        \/ UndoSlot[1] = nLastBlockFile
        \/ revDisk'[UndoSlot] = NextBlock
    <3>1. Committed(revDisk, rev', UndoSlot[1])[UndoSlot] = rev'[UndoSlot]
      BY <1>2, <1>4, CommittedFacts
    <3> QED
      BY <1>1, <1>4, <3>1
  <2>2. Readable(NextBlock)'
    BY <1>1, <1>3, <1>7 DEF Handed, Readable, BlockAt, mem
  <2> QED
    BY <1>1, <1>3, <1>4, <1>7, <2>1, <2>2 DEF Handed, At, mem
<1>9. StartSucceeds'
  BY <1>1 DEF StartSucceeds, At
<1>10. /\ UNCHANGED <<tip, nLastWrite, nLastBlockFile>> /\ badUndo \subseteq badUndo'
       /\ tree'.index = tree.index
  BY <1>1 DEF mem
<1>11. \A n : Current(n) => Current(n)'
  BY <1>1, <1>10 DEF Current, Down, At
<1>12. Stored'
  BY <1>1, <1>3, <1>6, <1>10, <1>11, StoredStep
<1>13. SavedKept'
  BY <1>1, <1>2, <1>3, <1>6, <1>10, SavedStep
<1>14. TipKept'
  BY <1>1, <1>2, <1>3, <1>6, <1>10, TipStep
<1>15. Written' /\ CoinsKept'
  BY <1>1, <1>2, <1>3, <1>10, WrittenStep, CoinsStep
<1> QED
  BY <1>1, <1>3, <1>8, <1>9, <1>12, <1>13, <1>14, <1>15 DEF Safe

\* ConnectBlock: no saved chain has the block, for it had no undo data.
LEMMA ConnectBlockSafe ==
  ASSUME StoreInv, Safe, ConnectBlock
  PROVE  Safe'
<1> DEFINE b == NextBlock
<1>1. /\ pc.at = "undoindex" /\ pc' = [at |-> "chainstate", b |-> pc.b]
      /\ treeDisk' = treeDisk \cup {tree'}
      /\ UNCHANGED <<nLastBlockFile, infoLastBlockFile, nLastWrite, fReindex, scan, files, coins,
                     coinsDisk, history>>
  BY DEF ConnectBlock, WriteIndex, WriteTree, At, Goto
<1>2. /\ StoreInv' /\ tip' = b /\ TreeOK(tree') /\ tree'.info = tree.info
      /\ DOMAIN tree'.index = DOMAIN tree.index
      /\ tree'.index[b].nFile = tree.index[b].nFile
      /\ tree'.index[b].nDataPos = tree.index[b].nDataPos
      /\ tree'.index[b].nUndoPos = UndoSlot[2]
      /\ \A c \in DOMAIN tree.index \ {b} : tree'.index[c] = tree.index[c]
  BY ConnectBlockStore
<1>3. /\ DiskOK /\ ~Down /\ Running /\ TreeOK(tree) /\ mapBlockIndex = tree.index
      /\ b \in DOMAIN tree.index /\ b \in Block /\ b # Genesis /\ tree.index[b].nUndoPos = NoPos
      /\ Parent[b] = tip /\ UndoSlot = <<UndoFile, tree.info[UndoFile].nUndoSize - 1>>
      /\ UndoFile = tree.index[b].nFile /\ UndoSlot \in Slot /\ tree \in treeDisk
  BY <1>1, UndoSlotOK DEF DiskOK, Running, HasUndo, Known, UndoFile
<1>4. /\ \A t \in treeDisk : Placed(t)
      /\ Handed /\ Stored /\ SavedKept /\ TipKept /\ Written /\ CoinsKept
  BY DEF Safe
<1>5. /\ UNCHANGED <<powerLost, saved, badData, badUndo, blk, blkDisk, rev, revDisk>>
      /\ \A n : Current(n) => n = nLastBlockFile
      /\ \A n : n = nLastBlockFile => Current(n)'
  BY <1>1, <1>3 DEF history, files, Current, Down, At
<1>6. /\ \A c \in DOMAIN tree.index : tree.index[c].nFile = tree.index[b].nFile =>
           tree.index[c].nUndoPos < UndoSlot[2]
      /\ rev[UndoSlot] = b /\ blk[DataSlot(tree.index[b])] = b
      /\ b \in badUndo \/ tree.index[b].nFile = nLastBlockFile \/ revDisk[UndoSlot] = b
  BY <1>1, <1>3, <1>4 DEF Handed, At, Known, Readable, BlockAt, DataSlot
<1>7. /\ UndoPlace(tree'.index[b]) = UndoSlot /\ DataSlot(tree'.index[b]) = DataSlot(tree.index[b])
      /\ UndoSlot[2] # NoPos /\ UndoSlot[2] \in Int
  BY <1>2, <1>3 DEF UndoPlace, DataSlot, Slot, Pos, NoPos
<1>8. b \notin SavedBlocks
  BY <1>3, <1>4 DEF SavedKept, Kept
<1> HIDE DEF b
<1>9. Placed(tree')
  <2> SUFFICES ASSUME NEW c \in DOMAIN tree.index
               PROVE  LET e == tree'.index[c] IN
                      /\ e.nDataPos < tree.info[e.nFile].nSize
                      /\ e.nUndoPos < tree.info[e.nFile].nUndoSize
                      /\ \A d \in DOMAIN tree.index \ {c} : tree'.index[d].nFile = e.nFile =>
                           /\ tree'.index[d].nDataPos # e.nDataPos
                           /\ tree'.index[d].nUndoPos = e.nUndoPos => e.nUndoPos = NoPos
    BY <1>2 DEF Placed
  <2>1. Placed(tree)
    BY <1>3, <1>4
  <2>2. \A d \in DOMAIN tree.index : /\ tree'.index[d].nFile = tree.index[d].nFile
                                     /\ tree'.index[d].nDataPos = tree.index[d].nDataPos
                                     /\ d # b => tree'.index[d].nUndoPos = tree.index[d].nUndoPos
                                     /\ tree.index[d] \in Entry
    BY <1>2, <1>3, EntrySlots
  <2>3. tree'.index[c].nUndoPos < tree.info[tree'.index[c].nFile].nUndoSize
    <3>1. CASE c = b
      <4>1. tree.info[tree.index[b].nFile].nUndoSize \in Int
        BY <1>3, EntrySlots DEF Info
      <4> QED
        BY <1>2, <1>3, <3>1, <4>1
    <3>2. CASE c # b
      BY <2>1, <2>2, <3>2 DEF Placed
    <3> QED
      BY <3>1, <3>2
  <2>4. ASSUME NEW d \in DOMAIN tree.index \ {c}, tree'.index[d].nFile = tree'.index[c].nFile,
               tree'.index[d].nUndoPos = tree'.index[c].nUndoPos
        PROVE  tree'.index[c].nUndoPos = NoPos
    <3>1. CASE c = b \/ d = b
      <4>1. \A x \in DOMAIN tree.index : tree.index[x].nUndoPos \in Int
        BY <2>2 DEF Entry, Pos, NoPos
      <4> QED
        BY <1>2, <1>6, <1>7, <2>2, <2>4, <3>1, <4>1
    <3>2. CASE c # b /\ d # b
      BY <2>1, <2>2, <2>4, <3>2 DEF Placed
    <3> QED
      BY <3>1, <3>2
  <2> QED
    BY <2>1, <2>2, <2>3, <2>4 DEF Placed
<1>10. Handed' /\ StartSucceeds'
  BY <1>1 DEF Handed, StartSucceeds, At
<1>11. Stored'
  <2> SUFFICES ASSUME NEW c \in DOMAIN tree.index
               PROVE  LET e == tree'.index[c] IN
                      /\ ~powerLost => blk[DataSlot(e)] = c /\ (e.nUndoPos # NoPos => rev[UndoPlace(e)] = c)
                      /\ blk[DataSlot(e)] = c =>
                           e.nFile = nLastBlockFile \/ c \in badData \/ blkDisk[DataSlot(e)] = c
                      /\ e.nUndoPos # NoPos =>
                           \/ c \in badUndo
                           \/ /\ rev[UndoPlace(e)] = c
                              /\ e.nFile = nLastBlockFile \/ revDisk[UndoPlace(e)] = c
    BY <1>2, <1>5 DEF Stored, DataSlot, UndoPlace
  <2>1. CASE c = b
    BY <1>2, <1>3, <1>4, <1>5, <1>6, <1>7, <2>1 DEF Stored
  <2>2. CASE c # b
    BY <1>2, <1>4, <1>5, <2>2 DEF Stored
  <2> QED
    BY <2>1, <2>2
<1>12. SavedKept'
  <2>1. SavedBlocks' = SavedBlocks
    BY <1>5 DEF SavedBlocks
  <2>2. ASSUME NEW c \in SavedBlocks
        PROVE  Kept(c)' /\ \A t \in treeDisk' : c \in DOMAIN t.index /\ t.index[c] = tree'.index[c]
    <3>1. c \in DOMAIN tree.index /\ tree'.index[c] = tree.index[c] /\ c \in DOMAIN tree'.index
      BY <1>2, <1>4, <1>8, ChainsIndexed
    <3>2. Kept(c) /\ \A t \in treeDisk : c \in DOMAIN t.index /\ t.index[c] = tree.index[c]
      BY <1>4 DEF SavedKept
    <3>3. Kept(c)'
      BY <1>5, <3>1, <3>2 DEF Kept, DataSlot, UndoPlace
    <3> QED
      BY <1>1, <3>1, <3>2, <3>3
  <2> QED
    BY <2>1, <2>2 DEF SavedKept
<1>13. TipKept'
  <2>1. ChainOf(b) \subseteq {b} \cup ChainOf(tip) /\ ChainOf(tip)' = ChainOf(b)
    BY <1>2, <1>3, ChainStep DEF ChainOf
  <2>2. ASSUME NEW c \in ChainOf(b)
        PROVE  /\ c \in badData \/ blk[DataSlot(tree'.index[c])] = c
               /\ c # Genesis => tree'.index[c].nUndoPos # NoPos
    <3>1. CASE c = b
      BY <1>2, <1>6, <1>7, <3>1
    <3>2. CASE c # b
      <4>1. c \in ChainOf(tip) /\ tree'.index[c] = tree.index[c]
        BY <1>2, <1>3, <1>4, <2>1, <3>2, ChainsIndexed
      <4> QED
        BY <1>3, <1>4, <4>1 DEF TipKept
    <3> QED
      BY <3>1, <3>2
  <2> QED
    BY <1>1, <1>5, <2>1, <2>2 DEF TipKept, DataSlot, At
<1>14. Written'
  <2>1. tip' # NoBlock
    BY <1>2, <1>3, StorageAssumption
  <2> QED
    BY <1>1, <1>4, <1>5, <2>1 DEF Written, Running
<1>15. CoinsKept'
  <2>1. ASSUME coins \in DOMAIN tree.index \cup {NoBlock}, NEW c \in ChainOf(coins),
               tree.index[c].nUndoPos # NoPos
        PROVE  tree'.index[c].nUndoPos # NoPos
    BY <1>2, <1>4, <1>7, <2>1, ChainsIndexed
  <2> QED
    BY <1>1, <1>2, <1>4, <1>5, <2>1 DEF CoinsKept
<1> QED
  BY <1>1, <1>4, <1>9, <1>10, <1>11, <1>12, <1>13, <1>14, <1>15 DEF Safe

\* FlushBlockFile: what the tip needs of the last file is committed now, what it
\* needs of the others was committed when they were left.
LEMMA FlushBlockFileSafe ==
  ASSUME StoreInv, Safe, FlushBlockFile
  PROVE  Safe'
<1>1. /\ pc.at = "chainstate" /\ blk' = blk /\ rev' = rev
      /\ UNCHANGED <<mem, tree, treeDisk, coins, coinsDisk, history>>
      /\ \/ /\ blkDisk' = Committed(blkDisk, blk, nLastBlockFile)
            /\ revDisk' = Committed(revDisk, rev, nLastBlockFile)
            /\ pc'.at = "sync"
         \/ nLastWrite /\ UNCHANGED <<blkDisk, revDisk>> /\ pc'.at = "activate"
  BY DEF FlushBlockFile, At, Goto
<1>2. ~Down /\ Running /\ DiskOK /\ TreeOK(tree) /\ tree \in treeDisk
  BY <1>1 DEF StoreInv, DiskOK, Running, Down, At
<1>3. /\ \A t \in treeDisk : Placed(t)
      /\ Stored /\ SavedKept /\ TipKept /\ Written /\ CoinsKept
  BY DEF Safe
<1>4. /\ UNCHANGED <<powerLost, saved, badData, badUndo, tip, nLastWrite, nLastBlockFile>>
      /\ tree'.index = tree.index
  BY <1>1 DEF history, mem
<1>5. FilesStep
  BY <1>1, <1>2, CommitStep
<1>6. Handed' /\ StartSucceeds'
  BY <1>1 DEF Handed, StartSucceeds, At
<1>7. \A n : Current(n) => Current(n)'
  BY <1>1, <1>4 DEF Current, Down, At
<1>8. Stored'
  BY <1>3, <1>4, <1>5, <1>7, StoredStep
<1>9. SavedKept'
  BY <1>1, <1>2, <1>3, <1>4, <1>5, SavedStep
<1>10. TipKept'
  <2>1. CASE pc'.at = "activate"
    BY <1>2, <1>3, <1>4, <1>5, <2>1, TipStep
  <2>2. CASE pc'.at = "sync"
    <3>1. ASSUME NEW c \in ChainOf(tip)
          PROVE  Kept(c)' /\ (c \in badData' \/ blk'[DataSlot(tree'.index[c])] = c)
                 /\ (c # Genesis => tree'.index[c].nUndoPos # NoPos)
      <4> DEFINE e == tree.index[c]
                 D == DataSlot(e)
                 U == UndoPlace(e)
      <4>1. c \in DOMAIN tree.index
        BY <1>2, <1>3, ChainsIndexed
      <4>2. /\ D \in Slot /\ D[1] = e.nFile
            /\ e.nUndoPos # NoPos => U \in Slot /\ U[1] = e.nFile
        BY <1>2, <4>1, EntrySlots DEF DataSlot, UndoPlace
      <4>3. /\ \A s \in Slot : blkDisk'[s] = IF s[1] = nLastBlockFile THEN blk[s] ELSE blkDisk[s]
            /\ \A s \in Slot : revDisk'[s] = IF s[1] = nLastBlockFile THEN rev[s] ELSE revDisk[s]
        BY <1>1, <1>2, <2>2, CommittedFacts DEF DiskOK
      <4>4. c \in badData \/ blk[D] = c
        BY <1>2, <1>3 DEF TipKept
      <4>5. c # Genesis => e.nUndoPos # NoPos
        BY <1>2, <1>3 DEF TipKept
      <4>6. /\ blk[D] = c => e.nFile = nLastBlockFile \/ c \in badData \/ blkDisk[D] = c
            /\ e.nUndoPos # NoPos =>
                 c \in badUndo \/ (rev[U] = c /\ (e.nFile = nLastBlockFile \/ revDisk[U] = c))
        BY <1>2, <1>3, <4>1 DEF Stored, Current
      <4> HIDE DEF e, D, U
      <4>7. /\ c \in badData \/ (blk[D] = c /\ blkDisk'[D] = c)
            /\ c # Genesis => c \in badUndo \/ (rev[U] = c /\ revDisk'[U] = c)
        BY <4>2, <4>3, <4>4, <4>5, <4>6
      <4> QED
        BY <1>1, <1>4, <4>5, <4>7 DEF Kept, e, D, U, DataSlot, UndoPlace
    <3>2. ChainOf(tip)' = ChainOf(tip)
      BY <1>4 DEF ChainOf
    <3> QED
      BY <2>2, <3>1, <3>2 DEF TipKept, At
  <2> QED
    BY <1>1, <2>1, <2>2
<1>11. Written'
  BY <1>1, <1>3, <1>4 DEF Written, Running
<1>12. CoinsKept'
  BY <1>1, <1>3, <1>4, CoinsStep
<1> QED
  BY <1>1, <1>3, <1>6, <1>8, <1>9, <1>10, <1>11, <1>12 DEF Safe

\* SyncBlockTree.
LEMMA SyncBlockTreeSafe ==
  ASSUME StoreInv, Safe, SyncBlockTree
  PROVE  Safe'
<1>1. /\ pc.at = "sync" /\ pc'.at = "coins" /\ treeDisk' = {tree} /\ tree' = tree
      /\ UNCHANGED <<mem, files, coins, coinsDisk, history>>
  BY DEF SyncBlockTree, At, Goto
<1>2. ~Down /\ Running /\ DiskOK /\ tree \in treeDisk
  BY <1>1 DEF StoreInv, DiskOK, Running, Down, At
<1>3. /\ \A t \in treeDisk : Placed(t)
      /\ Stored /\ SavedKept /\ TipKept /\ Written /\ CoinsKept
  BY DEF Safe
<1>4. /\ UNCHANGED <<powerLost, saved, badData, badUndo, tip, nLastWrite, nLastBlockFile, blk,
                     blkDisk, rev, revDisk>>
      /\ tree'.index = tree.index
  BY <1>1 DEF history, mem, files
<1>5. FilesStep
  BY <1>1, FilesSame
<1>6. Handed' /\ StartSucceeds'
  BY <1>1 DEF Handed, StartSucceeds, At
<1>7. \A n : Current(n) => Current(n)'
  BY <1>1, <1>4 DEF Current, Down, At
<1>8. Stored'
  BY <1>3, <1>4, <1>5, <1>7, StoredStep
<1>9. SavedKept'
  BY <1>1, <1>2, <1>3, <1>4, <1>5, SavedStep
<1>10. TipKept'
  <2>1. \A c \in ChainOf(tip) : Kept(c)' /\ Kept(c)
    BY <1>1, <1>2, <1>3, <1>4 DEF TipKept, Kept, DataSlot, UndoPlace
  <2>2. ChainOf(tip)' = ChainOf(tip)
    BY <1>4 DEF ChainOf
  <2>3. \A c \in ChainOf(tip) : /\ c \in badData' \/ blk'[DataSlot(tree'.index[c])] = c
                                /\ c # Genesis => tree'.index[c].nUndoPos # NoPos
    BY <1>1, <1>2, <1>3, <1>4 DEF TipKept
  <2> QED
    BY <1>1, <2>1, <2>2, <2>3 DEF TipKept, At
<1>11. Written'
  BY <1>1, <1>3, <1>4 DEF Written, Running
<1>12. CoinsKept'
  BY <1>1, <1>3, <1>4, CoinsStep
<1> QED
  BY <1>1, <1>2, <1>3, <1>6, <1>8, <1>9, <1>10, <1>11, <1>12 DEF Safe

\* FlushCoins: the tip joins the saved ones with all of its chain on disk.
LEMMA FlushCoinsSafe ==
  ASSUME StoreInv, Safe, FlushCoins
  PROVE  Safe'
<1>1. /\ pc.at = "coins" /\ pc'.at = "activate" /\ coins' = tip /\ saved' = saved \cup {tip}
      /\ coinsDisk' = coinsDisk \cup {tip} /\ nLastWrite' = TRUE
      /\ UNCHANGED <<nLastBlockFile, tip, files, tree, treeDisk, powerLost, badData, badUndo>>
  BY DEF FlushCoins, WriteCoins, At, Goto
<1>2. ~Down /\ Running /\ DiskOK /\ tip # NoBlock /\ tip \in DOMAIN tree.index /\ tip \in Block
  BY <1>1 DEF StoreInv, DiskOK, MemoryOK, StepOK, TreeOK, Known, Running, Down, At
<1>3. /\ \A t \in treeDisk : Placed(t)
      /\ Stored /\ SavedKept /\ TipKept /\ Written /\ CoinsKept
  BY DEF Safe
<1>4. /\ UNCHANGED <<blk, blkDisk, rev, revDisk>> /\ tree'.index = tree.index
  BY <1>1 DEF files
<1>5. FilesStep
  BY <1>1, FilesSame
<1>6. Handed' /\ StartSucceeds'
  BY <1>1 DEF Handed, StartSucceeds, At
<1>7. \A n : Current(n) => Current(n)'
  BY <1>1 DEF Current, Down, At
<1>8. Stored'
  BY <1>1, <1>3, <1>4, <1>5, <1>7, StoredStep
<1>9. SavedKept'
  <2>1. SavedBlocks' \subseteq SavedBlocks \cup ChainOf(tip)
    BY <1>1 DEF SavedBlocks, ChainOf
  <2>2. ASSUME NEW c \in SavedBlocks \cup ChainOf(tip)
        PROVE  /\ \A t \in treeDisk : c \in DOMAIN t.index /\ t.index[c] = tree.index[c]
               /\ Kept(c)
    <3>1. CASE c \in SavedBlocks
      BY <1>3, <3>1 DEF SavedKept
    <3>2. CASE c \in ChainOf(tip)
      <4>1. c \in DOMAIN tree.index
        BY <1>2, <1>3, <3>2, ChainsIndexed
      <4>2. treeDisk = {tree} /\ Kept(c)
        BY <1>1, <1>2, <1>3, <3>2 DEF TipKept, At
      <4> QED
        BY <4>1, <4>2
    <3> QED
      BY <3>1, <3>2
  <2>3. \A c : Kept(c) => Kept(c)'
    BY <1>1, <1>4 DEF Kept, DataSlot, UndoPlace
  <2> QED
    BY <1>1, <2>1, <2>2, <2>3 DEF SavedKept
<1>10. TipKept'
  BY <1>1, <1>2, <1>3, <1>4, <1>5, TipStep
<1>11. Written'
  BY <1>1, <1>2, <1>3 DEF Written, Running
<1>12. CoinsKept'
  <2>1. \A c \in ChainOf(tip) : c # Genesis => tree.index[c].nUndoPos # NoPos
    BY <1>2, <1>3 DEF TipKept
  <2>2. ChainOf(coins)' = ChainOf(tip)
    BY <1>1 DEF ChainOf
  <2> QED
    BY <1>1, <1>2, <1>4, <2>1, <2>2 DEF CoinsKept
<1> QED
  BY <1>1, <1>3, <1>6, <1>8, <1>9, <1>10, <1>11, <1>12 DEF Safe

\* A process that ends leaves nothing half done: the file it was in is the one the
\* database names last, unless it had just left one and committed it.
LEMMA StopSafe ==
  ASSUME StoreInv, Safe, Shutdown \/ Kill \/ Exit
  PROVE  Safe'
<1>1. /\ ~Down /\ Down' /\ pc'.at = "down" /\ nLastWrite' = FALSE
      /\ UNCHANGED <<files, tree, treeDisk, powerLost, saved, badData, badUndo>>
      /\ \/ /\ coins' = tip /\ coinsDisk' = coinsDisk \cup {tip} /\ tip # NoBlock
            /\ pc.at \in {"idle", "import"}
         \/ coins' = coins /\ coinsDisk' = coinsDisk \cup {coins}
  <2>1. CASE Shutdown
    BY <2>1 DEF Shutdown, LoseMemory, WriteCoins, Goto, Down, At
  <2>2. CASE Kill \/ Exit
    BY <2>2 DEF Kill, Exit, LoseMemory, Goto, Down, At, history, StoreInv, DiskOK
  <2> QED
    BY <2>1, <2>2
<1>2. /\ DiskOK /\ tip \in DOMAIN tree.index \cup {NoBlock}
      /\ At("last") \/ nLastBlockFile = tree.last
  BY <1>1 DEF StoreInv, MemoryOK, Known
<1>3. /\ \A t \in treeDisk : Placed(t)
      /\ Stored /\ SavedKept /\ TipKept /\ Written /\ CoinsKept
  BY DEF Safe
<1>4. FilesStep
  BY <1>1, FilesSame
<1>5. Handed' /\ StartSucceeds' /\ TipKept'
  BY <1>1 DEF Handed, StartSucceeds, TipKept, Running, At
<1>6. \A n : Current(n) => Current(n)'
  BY <1>1, <1>2 DEF Current, Down, At
<1>7. Stored'
  BY <1>1, <1>3, <1>4, <1>6, StoredStep
<1>8. SavedKept'
  BY <1>1, <1>2, <1>3, <1>4, SavedStep
<1>9. Written'
  <2>1. pc.at \in {"idle", "import"} /\ tip # NoBlock => saved # {NoBlock} \/ Genesis \in badData
    BY <1>3 DEF Written, Running
  <2>2. coins \in coinsDisk
    BY <1>2 DEF DiskOK
  <2> QED
    BY <1>1, <1>3, <2>1, <2>2 DEF Written, Running
<1>10. CoinsKept'
  <2>1. CASE coins' = coins
    BY <1>1, <1>3, <2>1, CoinsStep
  <2>2. CASE coins' = tip /\ pc.at \in {"idle", "import"}
    <3>1. \A c \in ChainOf(tip) : c # Genesis => tree.index[c].nUndoPos # NoPos
      BY <1>3, <2>2 DEF TipKept, Running
    <3>2. ChainOf(coins)' = ChainOf(tip)
      BY <2>2 DEF ChainOf
    <3> QED
      BY <1>1, <1>2, <2>2, <3>1, <3>2 DEF CoinsKept
  <2> QED
    BY <1>1, <2>1, <2>2
<1> QED
  BY <1>1, <1>3, <1>5, <1>7, <1>8, <1>9, <1>10 DEF Safe

\* PowerLoss: what was committed and synced is what is left.
LEMMA PowerLossSafe ==
  ASSUME StoreInv, Safe, PowerLoss
  PROVE  Safe'
<1>1. PICK f \in Rests(blk, blkDisk) : blk' = f /\ blkDisk' = f
  BY DEF PowerLoss
<1>2. PICK g \in Rests(rev, revDisk) : rev' = g /\ revDisk' = g
  BY DEF PowerLoss
<1>3. PICK t \in treeDisk : tree' = t /\ treeDisk' = {t}
  BY DEF PowerLoss
<1>4. /\ coinsDisk' \subseteq coinsDisk /\ coinsDisk' # {} /\ pc'.at = "down" /\ nLastWrite' = FALSE
      /\ powerLost' = TRUE /\ UNCHANGED <<saved, badData>> /\ badUndo \subseteq badUndo'
      /\ \A b \in DOMAIN tree'.index : tree'.index[b].nUndoPos # NoPos =>
           b \in badUndo' \/ rev'[UndoPlace(tree'.index[b])] = b
  BY DEF PowerLoss, LoseMemory, Goto, UndoPlace
<1>5. /\ DiskOK /\ blk \in Content /\ blkDisk \in Content /\ rev \in Content /\ revDisk \in Content
      /\ TreeOK(tree) /\ tree \in treeDisk
  BY DEF StoreInv, DiskOK
<1>6. /\ \A u \in treeDisk : Placed(u)
      /\ Stored /\ SavedKept /\ Written
  BY DEF Safe
<1>7. /\ \A s \in Slot : blk'[s] \in {blk[s], blkDisk[s]} /\ blkDisk'[s] = blk'[s]
      /\ \A s \in Slot : rev'[s] \in {rev[s], revDisk[s]} /\ revDisk'[s] = rev'[s]
  BY <1>1, <1>2, <1>5, RestsFacts
<1>8. Handed' /\ StartSucceeds' /\ TipKept' /\ CoinsKept'
  BY <1>4 DEF Handed, StartSucceeds, TipKept, CoinsKept, Running, At
<1>9. Stored'
  BY <1>1, <1>2, <1>4 DEF Stored
<1>10. SavedKept'
  <2>1. SavedBlocks' = SavedBlocks
    BY <1>4 DEF SavedBlocks
  <2>2. ASSUME NEW c \in SavedBlocks
        PROVE  Kept(c)' /\ c \in DOMAIN tree'.index
    <3> DEFINE e == tree.index[c]
               D == DataSlot(e)
               U == UndoPlace(e)
    <3>1. /\ c \in DOMAIN tree.index /\ c \in DOMAIN tree'.index /\ tree'.index[c] = e /\ Kept(c)
      BY <1>3, <1>5, <1>6 DEF SavedKept
    <3>2. D \in Slot /\ (e.nUndoPos # NoPos => U \in Slot)
      BY <1>5, <3>1, EntrySlots
    <3>3. /\ c \in badData \/ (blk[D] = c /\ blkDisk[D] = c)
          /\ c # Genesis => /\ e.nUndoPos # NoPos
                            /\ c \in badUndo \/ (rev[U] = c /\ revDisk[U] = c)
      BY <3>1 DEF Kept
    <3> HIDE DEF e, D, U
    <3>4. /\ c \in badData' \/ (blk'[D] = c /\ blkDisk'[D] = c)
          /\ c # Genesis => /\ e.nUndoPos # NoPos
                            /\ c \in badUndo' \/ (rev'[U] = c /\ revDisk'[U] = c)
      BY <1>4, <1>7, <3>2, <3>3
    <3>5. Kept(c)'
      BY <3>1, <3>4 DEF Kept, e, D, U, DataSlot, UndoPlace
    <3> QED
      BY <3>1, <3>5
  <2> QED
    BY <1>3, <2>1, <2>2 DEF SavedKept
<1>11. Written'
  BY <1>4, <1>6 DEF Written, Running
<1> QED
  BY <1>3, <1>6, <1>8, <1>9, <1>10, <1>11 DEF Safe

\* Once something has been saved the genesis block is on disk.
LEMMA GenesisKept ==
  ASSUME Written, SavedKept, StoreInv, saved # {NoBlock}
  PROVE  Genesis \in DOMAIN tree.index /\ Kept(Genesis)
<1>1. PICK b \in saved : b \in Block
  BY DEF Written
<1>2. Genesis \in ChainOf(b)
  BY <1>1, ChainFacts, StorageAssumption DEF ChainOf
<1>3. Genesis \in SavedBlocks
  BY <1>2 DEF SavedBlocks
<1> QED
  BY <1>3, ChainsIndexed DEF SavedKept

\* LoadBlockIndexDB: a start that fails has one of the excuses StartSucceeds names.
LEMMA LoadSafe ==
  ASSUME StoreInv, Safe, LoadBlockIndexDB
  PROVE  Safe'
<1> DEFINE best == IF coins \in DOMAIN tree.index THEN coins ELSE NoBlock
<1>1. /\ pc.at = "down" /\ nLastBlockFile' = tree.last /\ nLastWrite' = FALSE /\ tip' = best
      /\ UNCHANGED <<files, tree, treeDisk, coins, coinsDisk, history>>
  BY DEF LoadBlockIndexDB, AfterLoad, At
<1>2. /\ pc'.at \in {"init", "failed", "start"}
      /\ pc'.at = "init" => DOMAIN tree.index = {}
      /\ pc'.at = "start" => /\ DOMAIN tree.index # {} => best # NoBlock
                             /\ best # NoBlock => VerifyDB(tree.index, best)
      /\ pc'.at = "failed" => best = NoBlock \/ ~VerifyDB(tree.index, best)
  BY DEF LoadBlockIndexDB, AfterLoad, Goto
<1>3. DiskOK /\ TreeOK(tree) /\ tree \in treeDisk /\ coins \in coinsDisk /\ DOMAIN tree.index \subseteq Block
  BY DEF StoreInv, DiskOK, TreeOK
<1>4. /\ \A t \in treeDisk : Placed(t)
      /\ Stored /\ SavedKept /\ Written /\ CoinsKept
  BY DEF Safe
<1>5. /\ UNCHANGED <<powerLost, saved, badData, badUndo, holed, blk, blkDisk, rev, revDisk>>
  BY <1>1 DEF history, files
<1>6. FilesStep
  BY <1>1, FilesSame
<1>7. best # NoBlock => best = coins /\ coins \in DOMAIN tree.index /\ (saved # {NoBlock} \/ Genesis \in badData)
  BY <1>3, <1>4 DEF Written
<1>8. saved # {NoBlock} => Genesis \in DOMAIN tree.index /\ Kept(Genesis)
  BY <1>4, GenesisKept
<1>9. ASSUME NEW c \in ChainOf(coins), c # Genesis, coins \in DOMAIN tree.index
      PROVE  /\ c \in DOMAIN tree.index
             /\ DataSlot(tree.index[c]) = <<tree.index[c].nFile, tree.index[c].nDataPos>>
             /\ UndoPlace(tree.index[c]) = <<tree.index[c].nFile, tree.index[c].nUndoPos>>
  BY <1>4, <1>9, ChainsIndexed DEF DataSlot, UndoPlace
<1> HIDE DEF best
<1>10. Handed'
  <2>1. DOMAIN tree.index = {} => best = NoBlock
    BY DEF best
  <2> QED
    BY <1>1, <1>2, <2>1 DEF Handed, At
<1>11. Stored'
  <2>1. \A n : Current(n) => Current(n)'
    BY <1>1, <1>2 DEF Current, Down, At
  <2> QED
    BY <1>1, <1>4, <1>5, <1>6, <2>1, StoredStep
<1>12. SavedKept'
  BY <1>1, <1>3, <1>4, <1>5, <1>6, SavedStep
<1>13. TipKept'
  <2>1. ASSUME pc'.at \in {"init", "start"}, NEW c \in ChainOf(best)
        PROVE  /\ c \in badData \/ blk[DataSlot(tree.index[c])] = c
               /\ c # Genesis => tree.index[c].nUndoPos # NoPos
    <3>1. best # NoBlock /\ pc'.at = "start" /\ best = coins
      BY <1>2, <1>7, <2>1 DEF ChainOf, best
    <3>2. CASE c = Genesis
      BY <1>7, <1>8, <3>1, <3>2 DEF Kept
    <3>3. CASE c # Genesis
      BY <1>2, <1>7, <1>9, <2>1, <3>1, <3>3 DEF VerifyDB, BlockAt
    <3> QED
      BY <3>2, <3>3
  <2>2. ChainOf(tip)' = ChainOf(best)
    BY <1>1 DEF ChainOf
  <2> QED
    BY <1>1, <1>2, <1>5, <2>1, <2>2 DEF TipKept, Running, DataSlot, At
<1>14. Written'
  <2>1. pc'.at # "failed" /\ saved # {NoBlock} => best # NoBlock
    BY <1>2, <1>8
  <2> QED
    BY <1>1, <1>4, <1>5, <1>7, <2>1 DEF Written, Running
<1>15. CoinsKept'
  BY <1>1, <1>4, <1>5, CoinsStep
<1>16. StartSucceeds'
  <2> SUFFICES ASSUME pc'.at = "failed", coins # NoBlock, saved # {NoBlock},
                      powerLost => /\ coins \in saved
                                   /\ (ChainOf(coins) \ {Genesis}) \cap (badData \cup badUndo) = {}
               PROVE  FALSE
    BY <1>1, <1>5 DEF StartSucceeds, At, ChainOf
  <2>1. coins \in DOMAIN tree.index
    <3>1. CASE ~powerLost
      BY <1>4, <3>1 DEF CoinsKept
    <3>2. CASE powerLost
      <4>1. coins \in Block
        BY <1>3 DEF DiskOK
      <4>2. coins \in SavedBlocks
        BY <3>2, <4>1, ChainFacts, StorageAssumption DEF SavedBlocks, ChainOf
      <4> QED
        BY <1>4, <4>2, ChainsIndexed
    <3> QED
      BY <3>1, <3>2
  <2>2. ASSUME NEW c \in ChainOf(coins) \ {Genesis}
        PROVE  /\ BlockAt(tree.index[c]) = c
               /\ tree.index[c].nUndoPos # NoPos /\ UndoAt(tree.index[c]) = c
    <3>1. CASE ~powerLost
      BY <1>4, <1>9, <2>1, <3>1 DEF CoinsKept, Stored, BlockAt, UndoAt
    <3>2. CASE powerLost
      <4>1. c \in SavedBlocks /\ c \notin badData /\ c \notin badUndo
        BY <3>2 DEF SavedBlocks
      <4>2. Kept(c)
        BY <1>4, <4>1 DEF SavedKept
      <4> QED
        BY <1>9, <2>1, <4>1, <4>2 DEF Kept, BlockAt, UndoAt
    <3> QED
      BY <3>1, <3>2
  <2>3. best = coins /\ VerifyDB(tree.index, coins)
    BY <2>1, <2>2 DEF best, VerifyDB
  <2> QED
    BY <1>2, <2>3
<1> QED
  BY <1>1, <1>4, <1>10, <1>11, <1>12, <1>13, <1>14, <1>15, <1>16 DEF Safe

\* -reindex: with the index what was saved is forgotten.
LEMMA StartReindexSafe ==
  ASSUME StoreInv, StartReindex
  PROVE  Safe'
<1>1. /\ DOMAIN tree'.index = {} /\ \A t \in treeDisk' : DOMAIN t.index = {}
      /\ nLastWrite' = FALSE /\ tip' = NoBlock
  BY StartReindexStore
<1>2. pc'.at = "wipecoins" /\ saved' = {NoBlock} /\ Genesis \in badData'
  BY DEF StartReindex, Goto
<1>3. ChainOf(NoBlock) = {} /\ ChainOf(tip)' = {}
  BY <1>1 DEF ChainOf
<1>4. SavedBlocks' = {}
  BY <1>2, <1>3 DEF SavedBlocks, ChainOf
<1>5. \A t \in treeDisk' : Placed(t)
  BY <1>1 DEF Placed
<1>6. Handed' /\ StartSucceeds' /\ Stored' /\ SavedKept'
  BY <1>1, <1>2, <1>4 DEF Handed, StartSucceeds, Stored, SavedKept, At
<1>7. TipKept' /\ Written' /\ CoinsKept'
  BY <1>1, <1>2, <1>3 DEF TipKept, Written, CoinsKept, Running, At
<1> QED
  BY <1>5, <1>6, <1>7 DEF Safe

\* The other writes that begin a reindex: the index is empty all along.
LEMMA WipeCoinsSafe ==
  ASSUME StoreInv, Safe, WipeCoins \/ WriteReindexing
  PROVE  Safe'
<1>1. /\ DOMAIN tree'.index = {} /\ \A t \in treeDisk' : DOMAIN t.index = {}
      /\ tip = NoBlock /\ tip' = NoBlock
  BY WipeCoinsStore
<1>2. /\ pc.at \in {"wipecoins", "mark"} /\ pc'.at \in {"mark", "import"}
      /\ saved' = saved /\ nLastWrite' = nLastWrite
      /\ coinsDisk' = {NoBlock} \/ (coinsDisk' = coinsDisk /\ badData' = badData)
  BY DEF WipeCoins, WriteReindexing, Goto, At, mem, history
<1>3. Running /\ Written
  BY <1>2 DEF Running, Safe
<1>4. saved = {NoBlock} /\ SavedBlocks = {}
  BY <1>1, <1>3, NothingSaved
<1>5. SavedBlocks' = {} /\ ChainOf(tip)' = {}
  BY <1>1, <1>2, <1>4 DEF SavedBlocks, ChainOf
<1>6. \A t \in treeDisk' : Placed(t)
  BY <1>1 DEF Placed
<1>7. Handed' /\ StartSucceeds' /\ Stored' /\ SavedKept'
  BY <1>1, <1>2, <1>5 DEF Handed, StartSucceeds, Stored, SavedKept, At
<1>8. TipKept' /\ CoinsKept'
  BY <1>2, <1>4, <1>5 DEF TipKept, CoinsKept, At
<1>9. Written'
  BY <1>1, <1>2, <1>3, <1>4 DEF Written, Running
<1> QED
  BY <1>6, <1>7, <1>8, <1>9 DEF Safe

\* The assertion fails only on coins whose index a reindex has wiped.
LEMMA AssertSafe ==
  ASSUME StoreInv, Safe, AssertBestBlock
  PROVE  Safe'
<1>1. /\ ~Down /\ ~Down' /\ pc.at = "activate" /\ pc'.at = "failed" /\ tip = NoBlock
      /\ UNCHANGED <<mem, files, tree, treeDisk, coins, coinsDisk, history>>
  BY AssertStore
<1>2. /\ \A t \in treeDisk : Placed(t)
      /\ Stored /\ SavedKept /\ Written /\ CoinsKept /\ Running /\ DiskOK
  BY <1>1 DEF Safe, Running, StoreInv
<1>3. UNCHANGED <<powerLost, saved, badData, badUndo, holed, nLastWrite, tip, nLastBlockFile>>
  BY <1>1 DEF history, mem
<1>4. saved = {NoBlock}
  BY <1>1, <1>2, NothingSaved
<1>5. Handed' /\ StartSucceeds' /\ TipKept'
  BY <1>1, <1>3, <1>4 DEF Handed, StartSucceeds, TipKept, Running, At
<1>6. \A n : Current(n) => Current(n)'
  BY <1>1, <1>3 DEF Current, Down, At
<1>7. FilesStep
  BY <1>1, FilesSame
<1>8. Stored'
  BY <1>1, <1>2, <1>3, <1>6, <1>7, StoredStep
<1>9. SavedKept'
  BY <1>1, <1>2, <1>3, <1>7, SavedStep
<1>10. Written' /\ CoinsKept'
  BY <1>1, <1>2, <1>3, CoinsStep DEF Written, Running
<1> QED
  BY <1>1, <1>2, <1>5, <1>8, <1>9, <1>10 DEF Safe

\* ImportBlock: unless it skipped something, the counter is where the block lies.
LEMMA ImportBlockSafe ==
  ASSUME StoreInv, Safe, ImportBlock, ~holed'
  PROVE  Safe'
<1>1. /\ StoreInv' /\ ~Down /\ ~Down' /\ At("import") /\ fReindex
      /\ UNCHANGED <<mapBlockIndex, tip, nLastWrite, fReindex, files, coins, coinsDisk, powerLost,
                     saved>>
  BY ImportBlockStore
<1>2. PICK s \in Slot : Imported(s)
  BY ImportBlockStore
<1> DEFINE n == s[1]
           old == ReadOr(tree.info, n, NullInfo)
<1>3. /\ DiskOK /\ TreeOK(tree) /\ TreeOK(tree') /\ tree \in treeDisk /\ Running
      /\ mapBlockIndex = tree.index
  BY <1>1 DEF StoreInv, DiskOK, MemoryOK, Running, Down, At
<1>4. /\ \A t \in treeDisk : Placed(t)
      /\ Stored /\ SavedKept /\ TipKept /\ Written /\ CoinsKept
  BY DEF Safe
<1>5. /\ Importable(s) /\ old \in Info /\ nLastBlockFile' = n
      /\ infoLastBlockFile' \in Info /\ infoLastBlockFile'.nSize = old.nSize + 1
      /\ infoLastBlockFile'.nUndoSize = old.nUndoSize
      /\ tree'.index = tree.index /\ treeDisk' = treeDisk \cup {tree'}
      /\ DOMAIN tree'.info = DOMAIN tree.info \cup {n} /\ tree'.info[n] = infoLastBlockFile'
      /\ \A m \in DOMAIN tree.info \ {n} : tree'.info[m] = tree.info[m]
      /\ scan' = <<n, s[2] + 1>>
      /\ pc' = [at |-> IF n # nLastBlockFile THEN "last" ELSE "index", b |-> blk[s]]
      /\ s[2] = old.nSize
  BY <1>2 DEF Imported
<1>6. IF n = nLastBlockFile THEN UNCHANGED <<badData, badUndo>>
      ELSE /\ badData' = badData \cup Uncommitted(blk, blkDisk, nLastBlockFile)
           /\ badUndo' = badUndo \cup Uncommitted(rev, revDisk, nLastBlockFile)
  BY <1>2 DEF Imported
<1>7. n \in File /\ s = <<n, s[2]>>
  BY DEF Slot
<1>8. Grown
  BY <1>3, <1>5, <1>7 DEF Grown
<1> HIDE DEF n, old
<1>9. /\ \A t \in treeDisk' : Placed(t)
      /\ \A c \in DOMAIN tree.index :
           tree.index[c].nFile = nLastBlockFile' => tree.index[c].nDataPos < NewPos'
  BY <1>3, <1>4, <1>8, GrownPlaced
<1>10. Handed'
  <2>1. NewPos' = s[2] /\ scan'[2] = infoLastBlockFile'.nSize
    BY <1>5 DEF NewPos, Info
  <2>2. blk'[<<nLastBlockFile', NewPos'>>] = pc'.b
    BY <1>1, <1>5, <1>7, <2>1 DEF files
  <2>3. pc'.b \notin Known' /\ Known' = DOMAIN tree.index /\ mapBlockIndex' = tree.index
    BY <1>1, <1>3, <1>5 DEF Importable, Known
  <2>4. pc'.at \in {"last", "index"}
    BY <1>5
  <2> QED
    BY <1>9, <2>1, <2>2, <2>3, <2>4 DEF Handed, At
<1>11. StartSucceeds'
  BY <1>5 DEF StartSucceeds, At
<1>12. FilesStep
  BY <1>1, FilesSame
<1>13. /\ badData \subseteq badData' /\ badUndo \subseteq badUndo'
       /\ UNCHANGED <<blk, blkDisk, rev, revDisk>>
  BY <1>1, <1>6 DEF files
<1>14. ASSUME NEW c \in DOMAIN tree.index, Current(tree.index[c].nFile)
       PROVE  LET e == tree.index[c] IN
              \/ Current(e.nFile)'
              \/ /\ blk[DataSlot(e)] = c => c \in badData' \/ blkDisk'[DataSlot(e)] = c
                 /\ e.nUndoPos # NoPos /\ rev[UndoPlace(e)] = c =>
                      c \in badUndo' \/ revDisk'[UndoPlace(e)] = c
  <2>1. tree.index[c].nFile = nLastBlockFile
    BY <1>1, <1>14 DEF Current
  <2>2. CASE n = nLastBlockFile
    BY <1>1, <1>5, <2>1, <2>2 DEF Current, At
  <2>3. CASE n # nLastBlockFile
    <3>1. /\ DataSlot(tree.index[c]) \in Slot /\ DataSlot(tree.index[c])[1] = nLastBlockFile
          /\ tree.index[c].nUndoPos # NoPos =>
               UndoPlace(tree.index[c]) \in Slot /\ UndoPlace(tree.index[c])[1] = nLastBlockFile
      BY <1>3, <2>1, EntrySlots DEF DataSlot, UndoPlace
    <3>2. /\ \A r \in Slot : r[1] = nLastBlockFile /\ blk[r] # blkDisk[r] => blk[r] \in badData'
          /\ \A r \in Slot : r[1] = nLastBlockFile /\ rev[r] # revDisk[r] => rev[r] \in badUndo'
      BY <1>6, <2>3 DEF Uncommitted
    <3> QED
      BY <1>13, <3>1, <3>2
  <2> QED
    BY <2>2, <2>3
<1>15. Stored'
  BY <1>1, <1>4, <1>5, <1>12, <1>13, <1>14, StoredStep
<1>16. SavedKept'
  BY <1>1, <1>3, <1>4, <1>5, <1>12, <1>13, SavedStep
<1>17. TipKept'
  BY <1>1, <1>3, <1>4, <1>5, <1>12, <1>13, TipStep
<1>18. Written'
  BY <1>1, <1>3, <1>4, <1>5, <1>13, WrittenStep DEF At
<1>19. CoinsKept'
  BY <1>1, <1>4, <1>5, CoinsStep
<1> QED
  BY <1>9, <1>10, <1>11, <1>15, <1>16, <1>17, <1>18, <1>19 DEF Safe

\* FinishReindex.
LEMMA FinishReindexSafe ==
  ASSUME StoreInv, Safe, FinishReindex
  PROVE  Safe'
<1>1. /\ At("import") /\ pc'.at = (IF tip = NoBlock THEN "init" ELSE "idle")
      /\ UNCHANGED <<mapBlockIndex, nLastBlockFile, tip, nLastWrite, files, coins, coinsDisk, history>>
  BY DEF FinishReindex, Goto
<1>2. /\ ~Down /\ tree'.index = tree.index /\ tree'.info = tree.info
      /\ treeDisk' = treeDisk \cup {tree'}
  BY FinishReindexStore
<1>3. Running /\ DiskOK /\ tree \in treeDisk
  BY <1>1 DEF StoreInv, DiskOK, Running, At
<1>4. /\ \A t \in treeDisk : Placed(t)
      /\ Stored /\ SavedKept /\ TipKept /\ Written /\ CoinsKept
  BY DEF Safe
<1>5. \A t \in treeDisk' : Placed(t)
  BY <1>2, <1>3, <1>4, PlacedSame
<1>6. Handed' /\ StartSucceeds'
  BY <1>1 DEF Handed, StartSucceeds, At
<1>7. FilesStep
  BY <1>1, FilesSame
<1>8. UNCHANGED <<powerLost, saved, badData, badUndo>>
  BY <1>1 DEF history
<1>9. \A m : Current(m) => Current(m)'
  BY <1>1 DEF Current, Down, At
<1>10. Stored'
  BY <1>2, <1>4, <1>7, <1>8, <1>9, StoredStep
<1>11. SavedKept'
  BY <1>2, <1>3, <1>4, <1>7, <1>8, SavedStep
<1>12. TipKept'
  BY <1>1, <1>2, <1>3, <1>4, <1>7, <1>8, TipStep
<1>13. Written'
  BY <1>1, <1>3, <1>4, <1>8, WrittenStep DEF At
<1>14. CoinsKept'
  BY <1>1, <1>2, <1>4, <1>8, CoinsStep
<1> QED
  BY <1>5, <1>6, <1>10, <1>11, <1>12, <1>13, <1>14 DEF Safe

\* An empty disk.
LEMMA InitSafe ==
  ASSUME Init
  PROVE  Safe
<1>1. /\ tree = EmptyTree /\ treeDisk = {EmptyTree} /\ DOMAIN EmptyTree.index = {}
  BY DEF Init, EmptyTree
<1>2. pc.at = "down" /\ coins = NoBlock /\ coinsDisk = {NoBlock} /\ saved = {NoBlock} /\ nLastWrite = FALSE
  BY DEF Init
<1>3. ChainOf(NoBlock) = {}
  BY DEF ChainOf
<1>4. SavedBlocks = {}
  BY <1>2, <1>3 DEF SavedBlocks
<1>5. \A t \in treeDisk : Placed(t)
  BY <1>1 DEF Placed
<1>6. Handed /\ StartSucceeds /\ Stored /\ SavedKept
  BY <1>1, <1>2, <1>4 DEF Handed, StartSucceeds, Stored, SavedKept, At
<1>7. TipKept /\ Written /\ CoinsKept
  BY <1>2, <1>3 DEF TipKept, Written, CoinsKept, Running, At
<1> QED
  BY <1>5, <1>6, <1>7 DEF Safe

\* Every step keeps what is safe safe, as long as no reindex has skipped anything.
LEMMA SafeNext ==
  ASSUME StoreInv, SafeInv, [Next]_vars
  PROVE  SafeInv'
<1> SUFFICES ASSUME ~holed' PROVE Safe'
  BY DEF SafeInv
<1>1. ~holed
  <2>1. holed' = holed \/ ImportBlock \/ UNCHANGED vars
    BY DEF Next, AcceptBlock, InitBlockIndex, FindBlockPos, WriteLastBlockFile, WriteBlockToDisk,
           AddToBlockIndex, ScanForBetterChains, FindMostWorkChain, DisconnectTip, ConnectTip,
           Fails, FindUndoPos, WriteUndoToDisk, ConnectBlock, FlushBlockFile, SyncBlockTree,
           FlushCoins, Shutdown, Kill, Exit, PowerLoss, LoadBlockIndexDB, StartReindex,
           WipeCoins, WriteReindexing, AssertBestBlock, FinishReindex, history
  <2>2. CASE ImportBlock
    <3>1. PICK s \in Slot : Imported(s)
      BY <2>2, ImportBlockStore
    <3> QED
      BY <3>1 DEF Imported
  <2> QED
    BY <2>1, <2>2 DEF vars, history
<1>2. Safe
  BY <1>1 DEF SafeInv
<1>3. CASE AcceptBlock
  <2>1. PICK b \in Block \ Known : Parent[b] \in Known /\ FindBlockPos(b)
    BY <1>3 DEF AcceptBlock
  <2> QED
    BY <1>2, <1>3, <2>1, FindBlockPosSafe DEF AcceptBlock, At
<1>4. CASE InitBlockIndex
  <2>1. tip = NoBlock /\ Genesis \in Block /\ Parent[Genesis] = NoBlock
    BY <1>2, <1>4, StorageAssumption DEF InitBlockIndex, Safe, Handed
  <2> QED
    BY <1>2, <1>4, <2>1, FindBlockPosSafe DEF InitBlockIndex, At
<1>5. CASE WriteLastBlockFile
  BY <1>2, <1>5, WriteLastBlockFileSafe
<1>6. CASE WriteBlockToDisk
  BY <1>2, <1>6, WriteBlockToDiskSafe
<1>7. CASE AddToBlockIndex
  BY <1>2, <1>7, AddToBlockIndexSafe
<1>8. CASE ScanForBetterChains \/ FindMostWorkChain
  BY <1>2, <1>8, ChooseSafe
<1>9. CASE DisconnectTip
  BY <1>2, <1>9, DisconnectCases, DisconnectSafe, ChooseSafe
<1>10. CASE ConnectTip
  BY <1>2, <1>10, ConnectCases, ConnectSafe, ChooseSafe
<1>11. CASE FindUndoPos
  BY <1>2, <1>11, FindUndoPosSafe
<1>12. CASE WriteUndoToDisk
  BY <1>2, <1>12, WriteUndoToDiskSafe
<1>13. CASE ConnectBlock
  BY <1>2, <1>13, ConnectBlockSafe
<1>14. CASE FlushBlockFile
  BY <1>2, <1>14, FlushBlockFileSafe
<1>15. CASE SyncBlockTree
  BY <1>2, <1>15, SyncBlockTreeSafe
<1>16. CASE FlushCoins
  BY <1>2, <1>16, FlushCoinsSafe
<1>17. CASE Shutdown \/ Kill \/ Exit
  BY <1>2, <1>17, StopSafe
<1>18. CASE PowerLoss
  BY <1>2, <1>18, PowerLossSafe
<1>19. CASE LoadBlockIndexDB
  BY <1>2, <1>19, LoadSafe
<1>20. CASE StartReindex
  BY <1>20, StartReindexSafe
<1>21. CASE ImportBlock
  BY <1>2, <1>21, ImportBlockSafe
<1>22. CASE FinishReindex
  BY <1>2, <1>22, FinishReindexSafe
<1>23. CASE WipeCoins \/ WriteReindexing
  BY <1>2, <1>23, WipeCoinsSafe
<1>24. CASE AssertBestBlock
  BY <1>2, <1>24, AssertSafe
<1>25. CASE UNCHANGED vars
  <2>1. UNCHANGED <<pc, mapBlockIndex, nLastBlockFile, infoLastBlockFile, tip, nLastWrite, fReindex,
                    scan, blk, blkDisk, rev, revDisk, tree, treeDisk, coins, coinsDisk, powerLost,
                    saved, badData, badUndo, holed>>
    BY <1>25 DEF vars, mem, files, history
  <2>2. NextBlock' = NextBlock /\ UndoSlot' = UndoSlot
    BY <2>1, UndoKept
  <2>3. Handed'
    BY <1>2, <2>1, <2>2 DEF Safe, Handed, At, Known, NewPos, Readable, BlockAt
  <2>4. Stored' /\ SavedKept' /\ TipKept'
    BY <1>2, <2>1 DEF Safe, Stored, SavedKept, SavedBlocks, TipKept, Kept, Current, Down, At,
                      Running, ChainOf, DataSlot, UndoPlace
  <2>5. Written' /\ CoinsKept' /\ StartSucceeds'
    BY <1>2, <2>1 DEF Safe, Written, CoinsKept, StartSucceeds, Running, At, ChainOf
  <2> QED
    BY <1>2, <2>1, <2>3, <2>4, <2>5 DEF Safe
<1> QED
  BY <1>3, <1>4, <1>5, <1>6, <1>7, <1>8, <1>9, <1>10, <1>11, <1>12, <1>13, <1>14, <1>15, <1>16,
     <1>17, <1>18, <1>19, <1>20, <1>21, <1>22, <1>23, <1>24, <1>25 DEF Next

\* As long as no reindex skipped anything, the whole of Safe holds.
LEMMA StaysSafe == Spec => []SafeInv
<1>1. Init => SafeInv
  BY InitSafe DEF SafeInv
<1>2. StoreInv /\ SafeInv /\ [Next]_vars => SafeInv'
  BY SafeNext
<1> QED
  BY <1>1, <1>2, MemoryFollowsDisk, PTL DEF Spec

\* FindBlockPos and FindUndoPos never hand out a place that an index entry names, in
\* whatever a power failure leaves of the block tree database, and without one every
\* block in the index can be read, wherever the process was killed.
THEOREM PlacesAreReserved == Spec => []PlacesReserved
<1>1. ASSUME StoreInv, SafeInv PROVE PlacesReserved
  <2> SUFFICES ASSUME ~holed
               PROVE  /\ \A t \in treeDisk \cup {tree} : \A b \in DOMAIN t.index :
                           LET e == t.index[b] IN
                           /\ e.nDataPos < ReadOr(t.info, e.nFile, NullInfo).nSize
                           /\ e.nUndoPos < ReadOr(t.info, e.nFile, NullInfo).nUndoSize
                           /\ \A c \in DOMAIN t.index \ {b} : t.index[c].nFile = e.nFile =>
                                /\ t.index[c].nDataPos # e.nDataPos
                                /\ t.index[c].nUndoPos = e.nUndoPos => e.nUndoPos = NoPos
                      /\ ~powerLost => \A b \in DOMAIN tree.index : LET e == tree.index[b] IN
                           BlockAt(e) = b /\ (e.nUndoPos # NoPos => UndoAt(e) = b)
    BY DEF PlacesReserved
  <2>1. Safe /\ tree \in treeDisk
    BY <1>1 DEF SafeInv, StoreInv, DiskOK
  <2>2. ASSUME NEW t \in treeDisk, NEW b \in DOMAIN t.index
        PROVE  LET e == t.index[b] IN
               /\ e.nDataPos < ReadOr(t.info, e.nFile, NullInfo).nSize
               /\ e.nUndoPos < ReadOr(t.info, e.nFile, NullInfo).nUndoSize
               /\ \A c \in DOMAIN t.index \ {b} : t.index[c].nFile = e.nFile =>
                    /\ t.index[c].nDataPos # e.nDataPos
                    /\ t.index[c].nUndoPos = e.nUndoPos => e.nUndoPos = NoPos
    <3>1. Placed(t) /\ t.index[b].nFile \in DOMAIN t.info
      BY <1>1, <2>1, EntrySlots DEF Safe, StoreInv, DiskOK
    <3>2. ReadOr(t.info, t.index[b].nFile, NullInfo) = t.info[t.index[b].nFile]
      BY <3>1 DEF ReadOr
    <3> QED
      BY <3>1, <3>2 DEF Placed
  <2>3. ASSUME ~powerLost, NEW b \in DOMAIN tree.index
        PROVE  LET e == tree.index[b] IN
               BlockAt(e) = b /\ (e.nUndoPos # NoPos => UndoAt(e) = b)
    BY <2>1, <2>3 DEF Safe, Stored, BlockAt, UndoAt, DataSlot, UndoPlace
  <2> QED
    BY <2>1, <2>2, <2>3
<1> QED
  BY <1>1, MemoryFollowsDisk, StaysSafe, PTL

\* A power failure at any point leaves the chain of every tip WriteChainState has
\* written: its index entries, its block data and its undo data, but for the data
\* that was never committed.
THEOREM SavedTipsAreRecoverable == Spec => []SavedTipsRecoverable
<1>1. ASSUME SafeInv PROVE SavedTipsRecoverable
  <2> SUFFICES ASSUME ~holed, NEW b \in saved, NEW c \in ChainOf(b), NEW t \in treeDisk
               PROVE  /\ c \in DOMAIN t.index
                      /\ c \in badData \/ blkDisk[<<t.index[c].nFile, t.index[c].nDataPos>>] = c
                      /\ c # Genesis =>
                           /\ t.index[c].nUndoPos # NoPos
                           /\ c \in badUndo \/ revDisk[<<t.index[c].nFile, t.index[c].nUndoPos>>] = c
    BY DEF SavedTipsRecoverable
  <2>1. SavedKept /\ c \in SavedBlocks
    BY <1>1 DEF SafeInv, Safe, SavedBlocks
  <2>2. c \in DOMAIN t.index /\ t.index[c] = tree.index[c] /\ Kept(c)
    BY <2>1 DEF SavedKept
  <2> QED
    BY <2>2 DEF Kept, DataSlot, UndoPlace
<1> QED
  BY <1>1, StaysSafe, PTL

\* A node killed at any point starts again, and so does one that lost its power,
\* but for the cases StartSucceeds names.
THEOREM StartsSucceed == Spec => []StartSucceeds
<1>1. SafeInv => StartSucceeds
  BY DEF SafeInv, Safe, StartSucceeds
<1> QED
  BY <1>1, StaysSafe, PTL

=============================================================================
