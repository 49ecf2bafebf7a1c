---------------------------- MODULE BlockStorage ----------------------------
(***************************************************************************)
(* What the node keeps on disk and how it starts again: the block and undo *)
(* files (FindBlockPos, FindUndoPos, WriteBlockToDisk, FlushBlockFile),    *)
(* the block tree database (CBlockTreeDB), the coin database, their order  *)
(* in AcceptBlock, ConnectBlock and WriteChainState of main.cpp, the       *)
(* loading in LoadBlockIndexDB, InitBlockIndex and VerifyDB, Shutdown, and *)
(* -reindex (ThreadImport, LoadExternalBlockFile).                         *)
(*                                                                         *)
(* Every write is a step, and between any two of them the process may be   *)
(* killed, which loses its memory, or the machine may lose power, which    *)
(* also loses any part of the files that was not committed and any suffix  *)
(* of the writes to a database that was not synced.  The wipe of a         *)
(* database is one write that lasts.                                       *)
(*                                                                         *)
(* Blocks are valid and of one size; work is height.  The set of unspent   *)
(* outputs is abstracted to the block it belongs to (module Coins): a      *)
(* batch writes it and the best block together.  nSequenceId is not on     *)
(* disk, so a tie between branches is a free choice here.                  *)
(***************************************************************************)
EXTENDS Integers, FiniteSets

CONSTANTS
  Block,               \* the blocks
  Genesis,             \* the genesis block
  Parent,              \* Parent[b]: the block b builds on
  NoBlock,             \* uint256(0), and zeros in a file
  MAX_BLOCKFILE_SIZE,  \* in blocks
  MaxFile,             \* bound: file numbers
  MaxPos,              \* bound: positions in a file
  MaxStops             \* bound: shutdowns, kills and power failures

\* b and the blocks below it: the least set that has b and the parents of all its
\* blocks.
Chain == [b \in Block |->
  {c \in Block : \A X \in SUBSET Block :
     b \in X /\ (\A x \in X \ {Genesis} : Parent[x] \in X) => c \in X}]

ASSUME StorageAssumption ==
  /\ Genesis \in Block /\ NoBlock \notin Block
  /\ Parent \in [Block -> Block \cup {NoBlock}]
  /\ \A b \in Block : Parent[b] = NoBlock <=> b = Genesis
  /\ \A b \in Block : Genesis \in Chain[b]
  /\ MAX_BLOCKFILE_SIZE \in Nat \ {0, 1}
  /\ MaxFile \in Nat /\ MaxPos \in Nat /\ MaxStops \in Nat
  /\ MaxPos >= MAX_BLOCKFILE_SIZE - 2   \* every place FindBlockPos hands out

File == 0..MaxFile
Pos == 0..MaxPos
Slot == File \X Pos
NoPos == -1

\* mapBlockIndex in memory and its copy in the block tree database: the entry of
\* every known block.  info and last: the 'f' and 'l' records.
NullInfo == [nSize |-> 0, nUndoSize |-> 0]
EmptyTree == [index |-> <<>>, info |-> <<>>, last |-> 0, fReindexing |-> FALSE]

VARIABLES
  \* the running process
  pc,                  \* where it is: [at, b]
  mapBlockIndex,
  nLastBlockFile,
  infoLastBlockFile,
  tip,                 \* best block of pcoinsTip and chainActive
  nLastWrite,          \* whether WriteChainState has written since the start
  fReindex,
  scan,                \* -reindex: file and position read next
  \* what a new process would read, and what may be left after a power failure
  blk, blkDisk,        \* block files
  rev, revDisk,        \* undo files
  tree, treeDisk,      \* block tree database, and the set of its possible rests
  coins, coinsDisk,    \* best block of the coin database, likewise
  \* history
  nStops,              \* shutdowns, kills and power failures so far
  powerLost,           \* whether one of them was a power failure
  saved,               \* tips written to the coin database by WriteChainState
  badData,             \* blocks a reindex left uncommitted in a file, or may have
  badUndo,             \* blocks whose undo data is, or may get, lost
  holed                \* a reindex skipped a part of a file

mem == <<mapBlockIndex, nLastBlockFile, infoLastBlockFile, tip, nLastWrite, fReindex,
         scan>>
files == <<blk, blkDisk, rev, revDisk>>
history == <<nStops, powerLost, saved, badData, badUndo, holed>>
vars == <<pc, mem, files, tree, treeDisk, coins, coinsDisk, history>>

-----------------------------------------------------------------------------
(* Helpers *)

At(s) == pc.at = s
Goto(s, b) == pc' = [at |-> s, b |-> b]

Known == DOMAIN mapBlockIndex

ChainOf(b) == IF b = NoBlock THEN {} ELSE Chain[b]
Height(b) == Cardinality(ChainOf(b))

\* The entry f[k], or d where there is none: Read leaves its argument alone.
ReadOr(f, k, d) == IF k \in DOMAIN f THEN f[k] ELSE d
With(f, k, v) == [x \in DOMAIN f \cup {k} |-> IF x = k THEN v ELSE f[x]]

\* A write without fSync: the rest after a power failure may or may not hold it.
WriteTree(t) == tree' = t /\ treeDisk' = treeDisk \cup {t}
WriteCoins(b) == coins' = b /\ coinsDisk' = coinsDisk \cup {b}

BlockAt(i) == blk[<<i.nFile, i.nDataPos>>]
UndoAt(i) == rev[<<i.nFile, i.nUndoPos>>]

\* FileCommit of the slots of one file.
Committed(disk, f, n) == [s \in Slot |-> IF s[1] = n THEN f[s] ELSE disk[s]]

Init ==
  /\ pc = [at |-> "down", b |-> NoBlock]
  /\ mapBlockIndex = <<>> /\ tip = NoBlock
  /\ nLastBlockFile = 0 /\ infoLastBlockFile = NullInfo
  /\ nLastWrite = FALSE /\ fReindex = FALSE /\ scan = <<0, 0>>
  /\ blk = [s \in Slot |-> NoBlock] /\ blkDisk = blk
  /\ rev = [s \in Slot |-> NoBlock] /\ revDisk = rev
  /\ tree = EmptyTree /\ treeDisk = {EmptyTree}
  /\ coins = NoBlock /\ coinsDisk = {NoBlock}
  /\ nStops = 0 /\ powerLost = FALSE
  /\ saved = {NoBlock} /\ badData = {} /\ badUndo = {} /\ holed = FALSE

-----------------------------------------------------------------------------
(* AcceptBlock: place, data, index entry *)

\* FindBlockPos for a new block: the file after the last one when that is full,
\* where data may "somehow already exist".  Leaving a file commits it.
Room(info) == info.nSize + 1 < MAX_BLOCKFILE_SIZE
NextInfo == ReadOr(tree.info, nLastBlockFile + 1, NullInfo)

\* Mutant: the counters of a file are written only when a new file is begun.
FindBlockPos_InfoOnLeave(b) ==
  LET leave == ~Room(infoLastBlockFile)
      n == IF leave THEN nLastBlockFile + 1 ELSE nLastBlockFile
      old == IF leave THEN NextInfo ELSE infoLastBlockFile
      new == [old EXCEPT !.nSize = @ + 1]
  IN /\ n \in File /\ Room(old)
     /\ nLastBlockFile' = n /\ infoLastBlockFile' = new
     /\ WriteTree(IF leave THEN [tree EXCEPT !.info = With(@, n, new)] ELSE tree)
     /\ Goto(IF leave THEN "last" ELSE "data", b)
     /\ UNCHANGED <<mapBlockIndex, tip, nLastWrite, fReindex, scan, files, coins,
                    coinsDisk, history>>

FindBlockPos(b) ==
  LET leave == ~Room(infoLastBlockFile)
      n == IF leave THEN nLastBlockFile + 1 ELSE nLastBlockFile
      old == IF leave THEN NextInfo ELSE infoLastBlockFile
      new == [old EXCEPT !.nSize = @ + 1]
  IN /\ n \in File /\ Room(old)      \* bound: one new file at a time
     /\ nLastBlockFile' = n /\ infoLastBlockFile' = new
     /\ IF leave
          THEN /\ blkDisk' = Committed(blkDisk, blk, nLastBlockFile)
               /\ revDisk' = Committed(revDisk, rev, nLastBlockFile)
          ELSE UNCHANGED <<blkDisk, revDisk>>
     /\ WriteTree([tree EXCEPT !.info = With(@, n, new)])
     /\ Goto(IF leave THEN "last" ELSE "data", b)
     /\ UNCHANGED <<mapBlockIndex, tip, nLastWrite, fReindex, scan, blk, rev, coins,
                    coinsDisk, history>>

\* ProcessBlock and AcceptBlock of a block whose parent is known.
AcceptBlock ==
  /\ At("idle")
  /\ \E b \in Block \ Known : Parent[b] \in Known /\ FindBlockPos(b)

\* InitBlockIndex: an empty database gets the genesis block.
InitBlockIndex ==
  /\ At("init")
  /\ FindBlockPos(Genesis)

WriteLastBlockFile ==
  /\ At("last")
  /\ WriteTree([tree EXCEPT !.last = nLastBlockFile])
  /\ Goto(IF fReindex THEN "index" ELSE "data", pc.b)
  /\ UNCHANGED <<mem, files, coins, coinsDisk, history>>

\* The position FindBlockPos handed out.
NewPos == infoLastBlockFile.nSize - 1

\* IsInitialBlockDownload depends on the clock; only outside of it is the data
\* committed.
WriteBlockToDisk ==
  /\ At("data")
  /\ LET s == <<nLastBlockFile, NewPos>> IN
       /\ blk' = [blk EXCEPT ![s] = pc.b]
       /\ \/ blkDisk' = Committed(blkDisk, blk', nLastBlockFile)
          \/ UNCHANGED blkDisk
  /\ Goto("index", pc.b)
  /\ UNCHANGED <<mem, rev, revDisk, tree, treeDisk, coins, coinsDisk, history>>

WriteIndex(b, entry) ==
  /\ mapBlockIndex' = With(mapBlockIndex, b, entry)
  /\ WriteTree([tree EXCEPT !.index = With(@, b, entry)])

AddToBlockIndex ==
  /\ At("index")
  /\ WriteIndex(pc.b, [nFile |-> nLastBlockFile,
                       nDataPos |-> IF fReindex THEN scan[2] - 1 ELSE NewPos,
                       nUndoPos |-> NoPos])
  /\ Goto("activate", NoBlock)
  /\ UNCHANGED <<nLastBlockFile, infoLastBlockFile, tip, nLastWrite, fReindex, scan,
                 files, coins, coinsDisk, history>>

-----------------------------------------------------------------------------
(* ActivateBestChain: one block disconnected or connected at a time *)

Best(b) == b \in Known /\ \A c \in Known : Height(c) <= Height(b)
Done == IF fReindex THEN "import" ELSE "idle"
\* Under ActivateBestChain a failure to read is "return false", and no more.
Fails == Goto(Done, NoBlock) /\ UNCHANGED <<mem, files, tree, treeDisk, coins, coinsDisk, history>>

Readable(b) == BlockAt(mapBlockIndex[b]) = b
HasUndo(b) == mapBlockIndex[b].nUndoPos # NoPos
UndoReadable(b) == HasUndo(b) /\ UndoAt(mapBlockIndex[b]) = b

\* FindMostWorkChain has chosen best: pc.b keeps it until it is reached.
FindMostWorkChain ==
  /\ At("activate") /\ pc.b = NoBlock
  /\ IF Best(tip) THEN Goto(Done, NoBlock)
     ELSE \E b \in Known : Best(b) /\ Goto("activate", b)
  /\ UNCHANGED <<mem, files, tree, treeDisk, coins, coinsDisk, history>>

\* After a start chainMostWork is empty: the tip has no advantage over a branch
\* of the same work.
ScanForBetterChains ==
  /\ At("start")
  /\ IF Known = {} THEN Goto(Done, NoBlock)
     ELSE \E b \in Known : Best(b) /\ Goto("activate", IF b = tip THEN NoBlock ELSE b)
  /\ UNCHANGED <<mem, files, tree, treeDisk, coins, coinsDisk, history>>

DisconnectTip ==
  /\ At("activate") /\ pc.b # NoBlock
  /\ tip \notin ChainOf(pc.b) \cup {NoBlock}
  /\ \/ Readable(tip) /\ UndoReadable(tip)
        /\ tip' = Parent[tip]
        /\ Goto("chainstate", pc.b)
        /\ UNCHANGED <<mapBlockIndex, nLastBlockFile, infoLastBlockFile, nLastWrite, fReindex,
                       scan, files, tree, treeDisk, coins, coinsDisk, history>>
     \/ ~(Readable(tip) /\ UndoReadable(tip)) /\ Fails

\* The block of the best chain after the tip.
NextBlock == CHOOSE c \in ChainOf(pc.b) : Parent[c] = tip

Connecting == At("activate") /\ pc.b # NoBlock /\ tip \in ChainOf(pc.b) \cup {NoBlock}

\* The genesis block and a block with undo data need no writing.
ConnectTip ==
  /\ Connecting /\ tip # pc.b
  /\ \/ Readable(NextBlock) /\ (NextBlock = Genesis \/ HasUndo(NextBlock))
        /\ (tip = NoBlock => coins = NoBlock)
        /\ tip' = NextBlock
        /\ Goto("chainstate", pc.b)
        /\ UNCHANGED <<mapBlockIndex, nLastBlockFile, infoLastBlockFile, nLastWrite, fReindex,
                       scan, files, tree, treeDisk, coins, coinsDisk, history>>
     \/ ~Readable(NextBlock) /\ Fails

\* ConnectBlock's assert(hashPrevBlock == view.GetBestBlock()) for the genesis block:
\* until a block is connected pcoinsTip has the best block of the coin database.
AssertBestBlock ==
  /\ Connecting /\ tip = NoBlock
  /\ Readable(Genesis) /\ coins # NoBlock
  /\ Goto("failed", NoBlock)
  /\ UNCHANGED <<mem, files, tree, treeDisk, coins, coinsDisk, history>>

\* FindUndoPos: the counter in memory is that of the last file only.
FindUndoPos ==
  /\ Connecting /\ tip # pc.b
  /\ NextBlock # Genesis /\ Readable(NextBlock) /\ ~HasUndo(NextBlock)
  /\ LET n == mapBlockIndex[NextBlock].nFile
         old == IF n = nLastBlockFile THEN infoLastBlockFile ELSE tree.info[n]
         new == [old EXCEPT !.nUndoSize = @ + 1]
     IN /\ old.nUndoSize \in Pos
        /\ infoLastBlockFile' = IF n = nLastBlockFile THEN new ELSE infoLastBlockFile
        /\ WriteTree([tree EXCEPT !.info = With(@, n, new)])
  /\ Goto("undo", pc.b)
  /\ UNCHANGED <<mapBlockIndex, nLastBlockFile, tip, nLastWrite, fReindex, scan, files,
                 coins, coinsDisk, history>>

UndoSlot == LET n == mapBlockIndex[NextBlock].nFile
            IN <<n, tree.info[n].nUndoSize - 1>>

WriteUndoToDisk ==
  /\ At("undo")
  /\ rev' = [rev EXCEPT ![UndoSlot] = NextBlock]
  /\ \/ revDisk' = Committed(revDisk, rev', UndoSlot[1]) /\ UNCHANGED badUndo
     \/ UNCHANGED revDisk
        /\ badUndo' = badUndo \cup
             IF UndoSlot[1] = nLastBlockFile THEN {} ELSE {NextBlock}
  /\ Goto("undoindex", pc.b)
  /\ UNCHANGED <<mem, blk, blkDisk, tree, treeDisk, coins, coinsDisk, nStops,
                 powerLost, saved, badData, holed>>

\* nUndoPos in the block index; then the block's view is flushed to pcoinsTip.
ConnectBlock ==
  /\ At("undoindex")
  /\ WriteIndex(NextBlock, [mapBlockIndex[NextBlock] EXCEPT !.nUndoPos = UndoSlot[2]])
  /\ tip' = NextBlock
  /\ Goto("chainstate", pc.b)
  /\ UNCHANGED <<nLastBlockFile, infoLastBlockFile, nLastWrite, fReindex, scan, files,
                 coins, coinsDisk, history>>

\* Mutant: the undo file is not committed.
FlushBlockFile_NoUndo ==
  /\ At("chainstate")
  /\ blkDisk' = Committed(blkDisk, blk, nLastBlockFile)
  /\ Goto("sync", pc.b)
  /\ UNCHANGED <<mem, blk, rev, revDisk, tree, treeDisk, coins, coinsDisk, history>>

\* WriteChainState, when it is due: files, block tree, coins, in this order.
FlushBlockFile ==
  /\ At("chainstate")
  /\ \/ /\ blkDisk' = Committed(blkDisk, blk, nLastBlockFile)
        /\ revDisk' = Committed(revDisk, rev, nLastBlockFile)
        /\ Goto("sync", pc.b)
     \/ nLastWrite /\ UNCHANGED <<blkDisk, revDisk>>
        /\ Goto("activate", IF tip = pc.b THEN NoBlock ELSE pc.b)
  /\ UNCHANGED <<mem, blk, rev, tree, treeDisk, coins, coinsDisk, history>>

SyncBlockTree ==
  /\ At("sync")
  /\ treeDisk' = {tree}
  /\ Goto("coins", pc.b)
  /\ UNCHANGED <<mem, files, tree, coins, coinsDisk, history>>

\* Mutant: the best block written is the one aimed at.
FlushCoins_Target ==
  /\ At("coins")
  /\ WriteCoins(pc.b)
  /\ nLastWrite' = TRUE
  /\ saved' = saved \cup {tip}
  /\ Goto("activate", IF tip = pc.b THEN NoBlock ELSE pc.b)
  /\ UNCHANGED <<mapBlockIndex, nLastBlockFile, infoLastBlockFile, tip, fReindex, scan,
                 files, tree, treeDisk, nStops, powerLost, badData, badUndo, holed>>

FlushCoins ==
  /\ At("coins")
  /\ WriteCoins(tip)
  /\ nLastWrite' = TRUE
  /\ saved' = saved \cup {tip}
  /\ Goto("activate", IF tip = pc.b THEN NoBlock ELSE pc.b)
  /\ UNCHANGED <<mapBlockIndex, nLastBlockFile, infoLastBlockFile, tip, fReindex, scan,
                 files, tree, treeDisk, nStops, powerLost, badData, badUndo, holed>>

-----------------------------------------------------------------------------
(* Stopping and starting *)

CountStop == nStops < MaxStops /\ nStops' = nStops + 1

\* A new process starts with nothing in memory.
LoseMemory ==
  /\ Goto("down", NoBlock)
  /\ mapBlockIndex' = <<>> /\ tip' = NoBlock
  /\ nLastBlockFile' = 0 /\ infoLastBlockFile' = NullInfo
  /\ nLastWrite' = FALSE /\ fReindex' = FALSE /\ scan' = <<0, 0>>

\* Shutdown: pcoinsTip is written, and nothing is synced.
Shutdown ==
  /\ pc.at \in {"idle", "import"}
  /\ CountStop
  /\ WriteCoins(IF tip = NoBlock THEN coins ELSE tip)
  /\ LoseMemory
  /\ UNCHANGED <<files, tree, treeDisk, powerLost, saved, badData, badUndo, holed>>

Kill ==
  /\ ~At("down")
  /\ CountStop
  /\ LoseMemory
  /\ UNCHANGED <<files, tree, treeDisk, coins, coinsDisk, powerLost, saved, badData,
                 badUndo, holed>>

\* A start that failed: AppInit2 returns false, or the assertion has ended the process.
Exit ==
  /\ At("failed")
  /\ LoseMemory
  /\ UNCHANGED <<files, tree, treeDisk, coins, coinsDisk, history>>

\* What a file holds after a power failure: each slot written since the last
\* commit has its new or its old contents.
Rests(f, disk) ==
  {[s \in Slot |-> IF s \in keep THEN f[s] ELSE disk[s]] :
     keep \in SUBSET {s \in Slot : f[s] # disk[s]}}

PowerLoss ==
  /\ CountStop
  /\ \E f \in Rests(blk, blkDisk) : blk' = f /\ blkDisk' = f
  /\ \E f \in Rests(rev, revDisk) : rev' = f /\ revDisk' = f
  /\ \E t \in treeDisk : tree' = t /\ treeDisk' = {t}
  /\ \E b \in coinsDisk : coins' = b /\ coinsDisk' = {b}
  /\ LoseMemory
  /\ badUndo' = badUndo \cup
       {b \in DOMAIN tree'.index : LET e == tree'.index[b] IN
          e.nUndoPos # NoPos /\ rev'[<<e.nFile, e.nUndoPos>>] # b}
  /\ powerLost' = TRUE
  /\ UNCHANGED <<saved, badData, holed>>

\* Mutant: the genesis block is verified too.
VerifyDB_Genesis(index, b) ==
  \A c \in ChainOf(b) :
    /\ BlockAt(index[c]) = c
    /\ index[c].nUndoPos # NoPos /\ UndoAt(index[c]) = c

\* VerifyDB: block and undo data of the active chain can be read.
VerifyDB(index, b) ==
  \A c \in ChainOf(b) \ {Genesis} :
    /\ BlockAt(index[c]) = c
    /\ index[c].nUndoPos # NoPos /\ UndoAt(index[c]) = c

\* The end of LoadBlockIndexDB and the checks of AppInit2.
AfterLoad ==
  LET t == IF coins \in DOMAIN tree.index THEN coins ELSE NoBlock IN
  /\ tip' = t
  /\ Goto(CASE DOMAIN tree.index = {} /\ ~tree.fReindexing -> "init"
            [] DOMAIN tree.index # {} /\ t = NoBlock -> "failed"
            [] t # NoBlock /\ ~VerifyDB(tree.index, t) -> "failed"
            [] OTHER -> "start", NoBlock)

LoadBlockIndexDB ==
  /\ At("down")
  /\ mapBlockIndex' = tree.index
  /\ nLastBlockFile' = tree.last
  /\ infoLastBlockFile' = ReadOr(tree.info, tree.last, NullInfo)
  /\ nLastWrite' = FALSE
  /\ fReindex' = tree.fReindexing
  /\ scan' = <<0, ReadOr(tree.info, 0, NullInfo).nSize>>
  /\ AfterLoad
  /\ UNCHANGED <<files, tree, treeDisk, coins, coinsDisk, history>>

\* -reindex: first the block tree database is wiped.  What the coins stand for is
\* gone with it; while they are still there InitBlockIndex may write the genesis block
\* anew and the node take it for one that is committed.
StartReindex ==
  /\ At("down")
  /\ tree' = EmptyTree /\ treeDisk' = {EmptyTree}
  /\ fReindex' = TRUE
  /\ Goto("wipecoins", NoBlock)
  /\ saved' = {NoBlock} /\ badData' = {Genesis} /\ badUndo' = {}
  /\ UNCHANGED <<mapBlockIndex, nLastBlockFile, infoLastBlockFile, tip, nLastWrite, scan,
                 files, coins, coinsDisk, nStops, powerLost, holed>>

\* Then the coin database.
WipeCoins ==
  /\ At("wipecoins")
  /\ coins' = NoBlock /\ coinsDisk' = {NoBlock}
  /\ Goto("mark", NoBlock)
  /\ badData' = {}
  /\ UNCHANGED <<mem, files, tree, treeDisk, nStops, powerLost, saved, badUndo, holed>>

\* WriteReindexing(true): from here on a start without -reindex goes on with it.
WriteReindexing ==
  /\ At("mark")
  /\ WriteTree([tree EXCEPT !.fReindexing = TRUE])
  /\ Goto("import", NoBlock)
  /\ UNCHANGED <<mem, files, coins, coinsDisk, history>>

\* LoadExternalBlockFile goes through the slots in order from the end of the part
\* already indexed; ProcessBlock of a copy or of a block without its parent does
\* nothing (there is no peer to ask for the parent).
Before(r, s) == r[1] < s[1] \/ (r[1] = s[1] /\ r[2] < s[2])
Importable(s) ==
  /\ blk[s] \in Block \ Known
  /\ Parent[blk[s]] \in Known \cup {NoBlock}
  /\ s[1] # scan[1] => s[2] >= ReadOr(tree.info, s[1], NullInfo).nSize
  /\ ~Before(s, scan)
\* Files are opened one after the other until one is missing.
Reached(s) == \A n \in scan[1]..s[1] : \E p \in Pos : blk[<<n, p>>] # NoBlock

\* What is not committed of file n.
Uncommitted(f, disk, n) == {f[s] : s \in {r \in Slot : r[1] = n /\ f[r] # disk[r]}}

\* FindBlockPos with fKnown: nSize grows by the size of the block, wherever it lies
\* (unused space, a second copy or a block without its parent may have been
\* skipped), and the file left is not committed.
ImportBlock ==
  /\ At("import") /\ fReindex
  /\ \E s \in Slot :
       /\ Importable(s) /\ Reached(s)
       /\ \A r \in Slot : Importable(r) /\ Reached(r) => ~Before(r, s)
       /\ LET n == s[1]
              old == IF n # nLastBlockFile THEN ReadOr(tree.info, n, NullInfo)
                     ELSE infoLastBlockFile
              new == [old EXCEPT !.nSize = @ + 1]
          IN /\ nLastBlockFile' = n /\ infoLastBlockFile' = new
             /\ WriteTree([tree EXCEPT !.info = With(@, n, new)])
             /\ scan' = <<n, s[2] + 1>>
             /\ Goto(IF n # nLastBlockFile THEN "last" ELSE "index", blk[s])
             /\ IF n = nLastBlockFile THEN UNCHANGED <<badData, badUndo>>
                ELSE /\ badData' = badData \cup Uncommitted(blk, blkDisk, nLastBlockFile)
                     /\ badUndo' = badUndo \cup Uncommitted(rev, revDisk, nLastBlockFile)
             /\ holed' = (holed \/ s[2] # old.nSize)
  /\ UNCHANGED <<mapBlockIndex, tip, nLastWrite, fReindex, files, coins, coinsDisk,
                 nStops, powerLost, saved>>

FinishReindex ==
  /\ At("import") /\ fReindex
  /\ ~\E s \in Slot : Importable(s) /\ Reached(s)
  /\ fReindex' = FALSE
  /\ WriteTree([tree EXCEPT !.fReindexing = FALSE])
  /\ Goto(IF tip = NoBlock THEN "init" ELSE "idle", NoBlock)
  /\ UNCHANGED <<mapBlockIndex, nLastBlockFile, infoLastBlockFile, tip, nLastWrite, scan,
                 files, coins, coinsDisk, history>>

Next ==
  \/ AcceptBlock \/ InitBlockIndex \/ WriteLastBlockFile \/ WriteBlockToDisk
  \/ AddToBlockIndex \/ ScanForBetterChains \/ FindMostWorkChain \/ DisconnectTip \/ ConnectTip
  \/ AssertBestBlock \/ FindUndoPos \/ WriteUndoToDisk \/ ConnectBlock
  \/ FlushBlockFile \/ SyncBlockTree \/ FlushCoins
  \/ Shutdown \/ Kill \/ Exit \/ PowerLoss \/ LoadBlockIndexDB
  \/ StartReindex \/ WipeCoins \/ WriteReindexing \/ ImportBlock \/ FinishReindex

Spec == Init /\ [][Next]_vars

-----------------------------------------------------------------------------
(* Properties *)

\* In whatever is left of the block tree database, the place of a block and of
\* its undo data lies below the file's counters and is no other block's: what
\* FindBlockPos and FindUndoPos hand out next overwrites nothing that is indexed.
\* As long as the machine keeps its power, what the index names can also be read
\* back, wherever processes were killed.  A reindex that had to skip
\* something is excepted: it counts the bytes of the blocks it accepts, not the file's.
PlacesReserved ==
  ~holed =>
  /\ \A t \in treeDisk \cup {tree} : \A b \in DOMAIN t.index :
    LET e == t.index[b] IN
      /\ e.nDataPos < ReadOr(t.info, e.nFile, NullInfo).nSize
      /\ e.nUndoPos < ReadOr(t.info, e.nFile, NullInfo).nUndoSize
      /\ \A c \in DOMAIN t.index \ {b} : t.index[c].nFile = e.nFile =>
           /\ t.index[c].nDataPos # e.nDataPos
           /\ t.index[c].nUndoPos = e.nUndoPos => e.nUndoPos = NoPos
  /\ ~powerLost => \A b \in DOMAIN tree.index : LET e == tree.index[b] IN
       BlockAt(e) = b /\ (e.nUndoPos # NoPos => UndoAt(e) = b)

\* Every tip WriteChainState gave to the coin database survives a power failure
\* with its whole chain: index entries, block data and undo data.  Data is excepted
\* if a reindex left the file without committing it; undo data also if it went
\* uncommitted to a file already left (FlushBlockFile commits the last file only),
\* or if an earlier power failure took it and spared its index entry (ConnectBlock
\* then does not write it again).
SavedTipsRecoverable ==
  ~holed => \A b \in saved : \A c \in ChainOf(b) : \A t \in treeDisk :
    /\ c \in DOMAIN t.index
    /\ c \in badData \/ blkDisk[<<t.index[c].nFile, t.index[c].nDataPos>>] = c
    /\ c # Genesis =>
         /\ t.index[c].nUndoPos # NoPos
         /\ c \in badUndo \/ revDisk[<<t.index[c].nFile, t.index[c].nUndoPos>>] = c

\* The node starts again after being killed at any point, and after a power
\* failure too, but for: no chain state written yet; a reindex killed between the two
\* wipes, which leaves coins without an index, until a chain state is written; chain
\* state written by Shutdown alone, or with data that is excepted above, before a
\* power failure.
StartSucceeds ==
  At("failed") =>
    \/ holed
    \/ coins = NoBlock
    \/ saved = {NoBlock}
    \/ powerLost /\ (coins \notin saved \/ (ChainOf(coins) \ {Genesis}) \cap (badData \cup badUndo) # {})

\* The storage keeps the promise of module DurableChain: a restart goes on from a
\* best block that was written, with all its ancestors in the index.
Down == At("down")
Durable == INSTANCE DurableChain WITH
  known <- IF Down THEN DOMAIN tree.index ELSE Known,
  best <- IF ~Down THEN tip ELSE IF coins \in DOMAIN tree.index THEN coins ELSE NoBlock,
  saves <- coinsDisk
ImplementsDurable == Durable!Spec
=============================================================================
