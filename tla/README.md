# A TLA+ model of the Bitmark core

Bitmark is a proof-of-work currency derived from Bitcoin 0.9, with eight mining
algorithms. This directory holds TLA+ modules for the parts of `src/src/` in
which a node decides which chain is active, keeps that chain and its coins on
disk, collects the blocks and transactions it needs, computes difficulty and
subsidy, looks after its connections and addresses, and hands out wallet keys;
TLC configurations that check them on small instances; and TLAPS proofs for every
instance.

1. [The system](#1-the-system)
2. [Modules and the code](#2-modules-and-the-code)
3. [Runs](#3-runs)
4. [Fairness](#4-fairness)
5. [Proofs](#5-proofs)
6. [Where the code and its comments disagree](#6-where-the-code-and-its-comments-disagree)
7. [What is not modelled](#7-what-is-not-modelled)
8. [Plan](#8-plan)

`PROJECT.json` maps every definition to the lines it models and lists the
components, the runs, the hazards and the theorems.

    tlc -workers 2 -config BestChain.cfg BestChain      # model-check a run
    tlapm BestChainProofs.tla                           # check the proofs

## 1. The system

### Threads, locks and messages

* **ThreadSocketHandler** (`net.cpp`) accepts connections, moves bytes, sets
  `fDisconnect` on idle nodes and deletes disconnected ones (`FinalizeNode`).
* **ThreadMessageHandler** (`net.cpp`) goes round the nodes: `ProcessMessages`
  for one received message, then `SendMessages`.
* **ThreadOpenConnections**, **ThreadOpenAddedConnections** (`net.cpp`) make
  outbound connections, limited by a semaphore.
* **ThreadImport** (`init.cpp`) rebuilds the databases from the block files.
* **ThreadScriptCheck** (`main.cpp`) threads evaluate script checks for the
  thread that is inside `ConnectBlock`.
* **BitmarkMiner** threads, the RPC server and the wallet call `ProcessBlock` and
  `AcceptToMemoryPool` too.

`cs_main` serialises nearly everything in `main.cpp`, so most handlers are atomic
with respect to each other; what is not atomic is a handler that stops half way
(an invalid block, a failed write, an assertion), the order in which handlers of
different threads run, the check queue (its own mutex and two condition
variables), the life of a connection (`cs_vNodes`, reference counts, flags that
have no lock), the reservation of wallet keys (`cs_wallet`, held across calls by
nobody) and the death of the process. `CTxMemPool` has a lock of its own that
is always taken inside `cs_main`.

### Components

| Component | State | Operations | Talks to | What makes it correct |
|---|---|---|---|---|
| Script-check queue | `queue`, `nIdle`, `nTotal`, `nTodo`, `fAllOk` | `Add`, `Wait`, worker loop, control object | `ConnectBlock` | the verdict is the conjunction of the block's checks; `Wait` returns; nothing is left over for the next block |
| Best-chain selection | `mapBlockIndex`, failure flags, `setBlockIndexValid`, `chainActive`, `chainMostWork` | `AddToBlockIndex`, `ActivateBestChain`, `ConnectTip`, `DisconnectTip`, start-up | coins, pool, block files | the active chain is valid, and the best valid one after success; flags hit only bad blocks; the loop ends |
| Unspent outputs | `CCoins` in two caches and the database, undo data | `ConnectBlock`, `DisconnectBlock`, flush | best chain, LevelDB | the coins are those of the chain, after any reorganisation, flush or crash |
| Orphan blocks | `mapOrphanBlocks`, `mapOrphanBlocksByPrev` | `ProcessBlock`, `PruneOrphanBlocks` | best chain, block download | no child waits for a known parent; bounded; the maps agree |
| Block download | per-peer queues, `mapBlocksToDownload`, `mapBlocksInFlight`, time stamps, ban score | `inv`, `block`, `SendMessages`, `FinalizeNode` | peers, orphan blocks | lists, counters and maps agree for every interleaving; no wanted block is forgotten or waited for for ever |
| Memory pool, orphan transactions | `mapTx`, `mapNextTx`, two orphan maps | `tx`, `AcceptToMemoryPool`, removal and resurrection for blocks | coins, best chain, peers | no double spends; inputs exist; nothing lost without reason; the right node is blamed |
| Block storage | `blk*.dat`, `rev*.dat`, block tree and coin databases | `FindBlockPos`, `WriteBlockToDisk`, `WriteChainState`, `LoadBlockIndexDB`, `VerifyDB`, `-reindex` | best chain, coins | a kill or power failure between two writes leaves a state the node can start from; nothing indexed is overwritten |
| getblocks and the sync node | `pnodeSync`, `hashContinue` | `PushGetBlocks`, `StartSync` | block download | every missing range is asked for |
| Block and transaction checks | none | `CheckBlock`, `CheckTransaction`, `IsFinalTx` | all of the above | agreement with the rules; no overflow |
| Difficulty | none (a function of the chain) | `GetNextWorkRequired`, `DarkGravityWave` | `AcceptBlock`, miner | surges and halts of an algorithm are noticed wherever the window ends |
| Subsidy and money supply | scaling factor (memory), money supply (disk) per block | `GetBlockValue`, `get_ssf`, the coinbase limit of `ConnectBlock` | best chain, miner | the limit depends on the chain alone, not on restarts or reorganisations; the supply adds up |
| Partial Merkle trees | none | build, extract | SPV clients | what is built is extracted |
| Miner | block template | `CreateNewBlock` | pool, best chain | a template connects |
| Key pool | `setKeyPool`, pool records, reserved indexes | `TopUpKeyPool`, `CReserveKey`, `GetKeyFromPool`, `EncryptWallet`, load | miner, payments, RPC | a key is used once, also over a restart; no key is lost |
| Wallet transactions, key store | wallet transactions, keys | `AddToWallet`, coin selection, `Lock` | pool, best chain | conflicts are noticed |
| Address manager | `mapInfo`, `mapAddr`, `vRandom`, new and tried tables | `Add`, `Good`, `GetAddr`, save and load | connections | the indexes agree; a tried address is not forgotten |
| Connections | `vNodes`, `vNodesDisconnected`, reference counts, outbound semaphore | socket, message and opening threads | everything | a node is not used after deletion, and is deleted; no outbound slot is lost |
| Alerts, signature cache, bloom filters, checkpoints, RPC, GUI, serialisation, hash functions, script interpreter | | | | see section 7 |

The hard behaviours: interleaved threads in the check queue, the download queues,
the life of a connection and the key pool; reorganisations that turn out invalid half way, or that
the disk interrupts; blocks and transactions that arrive children first; timers
that race with late answers; caches that are ahead of the disk when the process
dies, and files and databases that reach the disk in another order than they were
written; values computed from the chain and kept in memory over reorganisations;
and limits that have to hold in the middle of a handler. `PROJECT.json`
lists the hazards at their lines.

## 2. Modules and the code

Every module is one component, with the names of the code. `MC*` modules only
give values to constants or a symmetry set. Operators whose name has a suffix
after an underscore and a comment that begins with "Mutant" are deliberately
wrong variants of the definition below them; no specification uses them. They
show that each property notices a plausible slip in the code.

### CheckQueue (`checkqueue.h`)

A critical section is cut where another thread can look at it: the constructor
of `CCheckQueueControl` reads the counters without the mutex. `pc` says where
each thread is in `Loop`. `Enter` accounts for the batch just evaluated and locks
the mutex, `Block` is `cond.wait`, `Resume` its return, `TakeBatch` computes
`nNow` and moves checks to the local `vChecks`, `Work` evaluates them without the
mutex, `MasterReturns` is the early return of the master. `SpuriousWakeup` is
what condition variables may do, `Interrupt` is the interruption of boost threads
at shutdown, `StartWorker` may come late or never. A check is the boolean it
returns. `added` and `ret` record what the current block added and what the last
`Wait` returned.

### BestChain (`main.cpp`: AddToBlockIndex, FindMostWorkChain, ActivateBestChain, ConnectTip, DisconnectTip, InvalidBlockFound, LoadBlockIndexDB)

A block is its address, which is the last tie breaker of
`CBlockIndexWorkComparator`; a `CChain` is its tip. `ConnectBlock` is one of four
verdicts: `ok`, `invalid`, `corrupt` (possible corruption), `silent` (a bare
`return false`, for versions and SSF flags). One action per iteration:
`PopInvalidTip`/`PopDone`, `RejectCandidate`/`ChooseCandidate` are
`FindMostWorkChain`; `DisconnectTip`/`DisconnectDone`,
`ConnectTip`/`ConnectDone` are the loops of `ActivateBestChain`. `ReadFault` and
`WriteFault` are failures of the disk. A failed `WriteChainState` leaves the coins
a block away from the tip, as in the code, where the view has been flushed by
then; `AssertFails` is the assertion that meets this state. `LoadBlockIndexDB` is
a clean restart: all sequence numbers become 0 and `BLOCK_FAILED_CHILD`, which is
never written, is forgotten.

### Coins (`coins.cpp`, `coins.h`, `txdb.cpp`, `main.cpp`: UpdateCoins, CheckInputs, ConnectBlock, DisconnectBlock, WriteChainState)

`CCoins` keep the list of outputs with `Cleanup`; `Spend` leaves an undo record
that has height and coinbase flag only for the last output of a transaction.
Layers are the block's view, `pcoinsTip` and the database. `ConnectTip` applies a
block to a view and flushes it into `pcoinsTip` if the block is good;
`WriteChainState` may or may not write the cache to the database. `Shutdown`
writes and restarts, `Crash` restarts from the database alone. The database batch
is atomic (LevelDB). Amounts, scripts, signature-operation limits and the
transaction index are left out.

### OrphanBlocks (`main.cpp`: ProcessBlock, PruneOrphanBlocks, GetOrphanRoot)

`AcceptBlock` is one of three outcomes; `fail` is `AddToBlockIndex` returning
false after the block has entered the index. `ProcessOrphan` and `NextPrev` are
the two loops over the waiting children. The random victim of
`PruneOrphanBlocks` is any orphan without dependents, which is where its walk
ends. `unfinished` records the blocks with outcome `fail`.

### BlockDownload (`main.cpp`: CNodeState, MarkBlockAsReceived, AddBlockToQueue, MarkBlockAsInFlight, SendMessages, InitializeNode, FinalizeNode; `net.cpp`)

Each message handler and each visit of `SendMessages` is an action under
`cs_main`; the socket thread closes (`SocketClosed`, `Inactive`) and deletes
(`FinalizeNode`) between them. Times are ages in minutes, all advanced by `Tick`
and not told apart beyond `MaxAge`. `waiting` records for how long a peer has
had requests outstanding without delivering one. The handlers are operators on
the queues of all peers; `Arrived` and `Dequeued` are the two halves of
`MarkBlockAsReceived`, and the loop of `SendMessages` that asks for blocks is a
recursive function.

### Mempool (`txmempool.cpp`, `main.cpp`: AddOrphanTx, EraseOrphanTx, LimitOrphanTxSize, AcceptToMemoryPool, the `tx` message, ConnectTip, DisconnectTip)

`have` and `unspent` are what `pcoinsTip` shows; a transaction without unspent
outputs stays in `have` until `WriteChainState` happens to flush the cache, and
`AcceptToMemoryPool` can tell. The fate of a transaction in checks that look at it
alone is its `Verdict`; `FreeTx` may be refused for their fee when relayed, and
`BigTx` are too big to be kept as orphans. Handlers that go through several
transactions take one step for each; `job` holds their local variables and keeps
others out, as `cs_main` does. Failed writes are left to BestChain.
`sentInvalid` records which node sent a malformed or invalid transaction.

### BlockStorage and DurableChain (`main.cpp`: FindBlockPos, FindUndoPos, WriteBlockToDisk, WriteChainState, LoadBlockIndexDB, VerifyDB, LoadExternalBlockFile; `init.cpp`; `txdb.cpp`)

Every write is a step. `blk`, `rev`, `tree`, `coins` are what a new process would
read; `blkDisk`, `revDisk` what is certain to survive a power failure, `treeDisk`
and `coinsDisk` the sets of states the two databases may be found in after one
(LevelDB loses a suffix of the writes that were not synced). `FindBlockPos`
reserves a place, `WriteLastBlockFile`, `WriteBlockToDisk` and `AddToBlockIndex`
follow; `FindUndoPos`, `WriteUndoToDisk` and `ConnectBlock` likewise for undo
data; `FlushBlockFile`, `SyncBlockTree` and `FlushCoins` are `WriteChainState`.
`Kill` and `PowerLoss` may come between any two, `Shutdown` when the node is idle.
`LoadBlockIndexDB` and `AfterLoad` are the start, with `VerifyDB` and the refusal
to start, and `Exit` its end. `StartReindex`, `WipeCoins` and `WriteReindexing` are the
three writes a `-reindex` begins with, `ImportBlock` and `FinishReindex` rebuild the
databases from what the files hold. `AssertBestBlock` is the assertion of `ConnectBlock`
on the best block, which a start with coins and no index meets. Blocks are valid, of one size, and their work is their
height; the coins are the block they belong to, which is what module Coins shows
of them. `DurableChain` is what all this promises: a best block that moves along
the tree, is saved now and then, and after a stop is one that was saved, with its
whole chain. The refinement maps the running node's index and tip, and while the
node is down what the next start will read. History variables record what the
properties except: `badData` and `badUndo` the blocks whose data is, or may get, lost
because nothing commits it, `holed` that a reindex skipped a part of a file
(unused space, a second copy, or a block whose parent is missing) and so counts from
a wrong place.

### AddrMan (`addrman.h`, `addrman.cpp`)

`am` is the whole object; an operation is a step, as the lock is held throughout.
The keyed hashes that choose buckets are constant functions, random draws and the
clock-dependent `IsTerrible` are free choices. `MakeTried` moves an address from
its new buckets to its tried bucket and evicts another one back; `SelectTried`
makes the swaps of the code in their order (`Inspect` is one round of its loop), and
`Shuffled` those of `GetAddr_`. `Restart` is `Unserialize` of
`Serialize`: the file numbers new and tried entries, leaves out `vRandom` and the
ids, and both are rebuilt. The specifications of AddrMan, CheckQueue and Emission are
called `AddrManSpec`, `QueueSpec` and `EmissionSpec`, because their proofs share a
module with another component's.

### Retarget and Emission (`main.cpp`: DarkGravityWave, GetBlockValue, get_ssf, ConnectBlock; `miner.cpp`)

Retarget defines the next target as a function of a chain of blocks of several
algorithms: a recursion over the blocks from the tip back (`ReadBlock`) collects the
window, the last row of the algorithm and any surge in the window, and
`DarkGravityWave` chooses between surge protector, resurrector and average.
Emission is the state machine on top: `ConnectBlock` appends a block whose target,
update flag and coinbase follow the rules, `DisconnectBlock` removes the tip,
`RestartNode` clears the scaling factors, which are not on disk. `Before` lists the
places `get_pprev_algo` returns when it is called again and again, newest first. 32-bit and 64-bit
truncations of the factor are `% UInt32` and `% UInt64`. The large constants of the
code (targets of 256 bits, windows of 25, rows of 9, periods of 90 blocks, 10^8
units) are scaled down: what the properties speak of is where windows, rows and
periods end relative to each other, and that both a truncated and an untruncated
factor occur.

### NodeLifetime (`net.cpp`, `net.h`, `sync.h`)

One step per critical section of each thread. Only the socket thread holds
`cs_vNodes` over several steps, while it drops nodes; `fDisconnect`, `fNetworkNode`
and the grant of a node are tested and written without a common lock, and each test or
write is a step. So `CSemaphoreGrant::Release` is three of them in the socket thread
(`SockTest`, `SockPost`, `SockClear`), and `MoveTo`, which begins with a `Release` of the
node's grant, four in a thread that opens a connection (`TestGrant`, `PostGrant`,
`ClearGrant`, `MoveGrant`; the writes to the thread's own grant, which nobody else sees,
go with the last). Such a thread takes a grant of `semOutbound` (`Acquire`, or `OpenByName`
for one-shot connections and for added nodes behind a name proxy), gets a node from
`ConnectNode`, moves the grant to it, and only then marks the node outbound
(`MarkOutbound`) and perhaps one-shot (`MarkOneShot`). `addnode onetry` calls
`ConnectNode` and does nothing else (`OneTry`): its node has no grant and is never marked.
Three history variables hold what the properties except. `leaked`: nodes dropped before
they were marked, so that their own reference is not released (those of `addnode onetry`
always are). `found`: nodes `ConnectNode` found instead of making them. Their `AddRef` is an
increment of `nRefCount` outside `cs_vNodes` which may come after the deletion, or undo the
one of another thread; the model has it as one step, writes to a deleted node are lost,
and nothing is claimed of such a node. `contended`: nodes at whose grant two threads have
been at once, which may lose the grant or give it back twice.

### KeyPool (`wallet.cpp`, `walletdb.cpp`, `rpcwallet.cpp`, `miner.cpp`)

Each operation of `CWallet` runs under `cs_wallet` and is one step; what spans
steps is a `CReserveKey` (a mining thread, a payment being made) and
`GetOldestKeyPoolTime`, which gives up the lock between taking and returning an
index. A key is a number, fresh when generated. A restart, clean or not, rebuilds
`setKeyPool` from the records; `EncryptInterrupted` stops the process inside
`EncryptWallet`. `given` records keys that left the pool for good, `overwritten`
whether the record of a reserved index was written over since the last start. What is
written to the wallet is there when the process stops, but a power failure may lose it
(`DB_TXN_WRITE_NOSYNC`, `db.cpp:92`); the module has no power failures.

### How the modules fit together

BestChain's verdict stands for Coins and CheckQueue; OrphanBlocks' outcome for
BestChain; BlockDownload's `have` and outcome for OrphanBlocks, and its deletion
of nodes for NodeLifetime; Mempool's `ConnectTip` and `DisconnectTip` are the steps
of BestChain seen from the pool, and its coins are those Coins shows to be exact.
BlockStorage has what BestChain's `LoadBlockIndexDB` and Coins' `Crash` take for
granted: that a restart finds a chain and coins that belong together. Emission
extends Retarget. The modules are separate state machines; section 8 says which
compositions are planned.

## 3. Runs

Each takes at most three minutes on two cores; state counts are distinct states.

| Run | Instance | Properties | Shows |
|---|---|---|---|
| checkqueue | master, 2 workers, batches of up to 2, 4 checks a block, any number of blocks (423 000) | WaitResultIsConjunction, WaitReturns | no check is lost, counted twice or carried into the next block, and no notification is missed |
| bestchain | every tree of 3 blocks on genesis, all arrival orders, 4 verdicts, read errors, 1 failed write, restarts (257 000) | ActiveChainValid, FailedOnlyIfInvalid, CandidatesExact, BestValidChainActive, DisconnectOnlyForBetter, ActivationReturns | a reorganisation ends on the best valid chain or stops in a state that is still valid |
| bestchain_silent | 3 blocks, verdicts `ok` and `silent`, no faults | FalseOnlyOnSystemError (violated) | section 6 |
| coins | 8 transactions, 3 blocks of up to 4 transactions, maturity 1 (6 400) | UtxoExact, VerdictExact | the coins, cached and on disk, equal those computed from the transactions of the chain |
| orphans | every tree of 5 blocks, limit 2 (160 000) | MapsAgree, OrphansAwaitParent, OrphansKept, RequestsReachGap | the holding area is exact and empties when the gap closes |
| download | 2 peers, 2 blocks, 2 requests a peer | QueuesMatchMaps, WantedUntilSent, StallJustified, WantedIsSettled | the redundant bookkeeping never disagrees, whoever delivers or disappears, and every request ends |
| mempool | 3 coinbases, 6 transactions with conflicts, chains of spends and bad ones, 2 nodes, up to 3 blocks, 2 orphans | MapNextTxExact, PoolFitsChain, OrphanMapsAgree, OnlySendersPunished, RemovalJustified, NoOrphanMissed | the pool survives any reorganisation, orphans are resolved completely and the sender alone is blamed |
| storage | genesis and 3 blocks on two branches, two files, 2 stops (1.4 million) | PlacesReserved, SavedTipsRecoverable, StartSucceeds, ImplementsDurable | kills, power failures and reindexes anywhere; the refinement of DurableChain |
| addrman | 4 addresses, 2 new buckets of 2, 1 tried bucket of 1, one address given away (95 000 up to symmetry) | Consistent, TriedNeverForgotten, RestartKeepsTables | six indexes agree through evictions, shuffles and restarts |
| emission | 2 algorithms, 6 blocks after the fork, windows of 4, rows of 3, periods of 2 (52 000) | SubsidyFromChain, MinerFlagAccepted, SupplyExact, SurgeExact | what is cached never changes the rules |
| nodes | 2 opening threads, one by name, 1 address, 2 nodes, 2 slots (624 000) | NodesInUseExist, OutboundSlotsKept, DisconnectedNodesDeleted | no use after deletion, no slot lost or given back twice, no node kept for ever, but for lost references and nodes `ConnectNode` found |
| keypool | 2 reserve keys, pool of 1, 7 keys (975 000) | KeyUsedOnce, PoolIsRecords | no key is used twice or lost |

Why these bounds. The check queue's interesting cases are a second worker that
takes a batch while the first accounts for one, and a batch of more than one
check, which needs four checks (`4 div (1 + 0 + 1) = 2`). Three blocks over
genesis give a fork with a longer second branch, an invalid block below a
candidate tip, and a fall-back to the first branch. Coins needs three heights
for a spend of an output that was made, spent and restored by different blocks;
its transactions include a chain inside a block, an immature spend, a conflict
and unspendable outputs. Five blocks with a limit of two orphans fill and prune
the holding area. Two requests to a peer let one be answered while the other is
overdue. In the storage run three blocks and the genesis block fill a file of the
smallest size at which a block goes to the next one, the branches cross the two
files, and two stops allow a second failure during the recovery from the first. A
tried bucket of one entry makes every second success evict, and new buckets of two
overflow with three addresses. Six blocks after the fork reach two periods of two blocks
of one algorithm, a row longer than a surge, and a row that the end of the window cuts.
Two nodes are enough for a connection that is found again while it is being
dropped, and for two threads at one grant. They cannot outnumber two slots, so
`OutboundSlotsKept` does not count connections: it asks that each has a grant or is about to
get one, and that the grants add up, which two nodes can break; that there are never more
connections than slots follows for every number of nodes (`OutboundLimit`, section 5). A pool of one key is drained by two holders once the wallet is locked.
`COINBASE_MATURITY` (720), the request limit (128), the
download limit (5000), the timeouts (60 s and 90 min), the orphan limits, the
bucket sizes, `-keypool` and the outbound limit are
constants of the modules; 1 or 2 in their place reaches the boundary, and no
property depends on their size. `BlockDownloadAssumption` makes `MaxAge` large
enough that the ages the code compares are told apart.

Deadlock is checked in all runs but bestchain, where the process may abort in an
assertion after a failed write; storage, where a start may be refused and the
number of stops is bounded; and addrman, where all ids may be used up.

## 4. Fairness

* **CheckQueue.** Threads are scheduled: weak fairness for the steps of a running
  thread, strong fairness for taking the mutex (`Enter`, `Resume`), which other
  threads hold on and off. Workers need not start, and may be interrupted.
  Nothing is assumed about spurious wake-ups.
* **BestChain.** The thread in `ActivateBestChain` holds `cs_main` and keeps
  running: weak fairness of its steps. New blocks need not arrive.
* **BlockDownload.** `ThreadMessageHandler` visits every node again and again
  (weak fairness of `SendMessages`), `ThreadSocketHandler` closes idle and deletes
  closed nodes (`Inactive`, `FinalizeNode`), and time passes (`Tick`). Nothing is
  assumed about peers. In the run a block that arrives is stored: with
  rejected blocks announced over and over a peer can keep a request open.
* **NodeLifetime.** The socket thread and the message thread loop for ever: weak
  fairness of the first, strong fairness of the second, because the socket thread
  holds `cs_vNodes` on and off. The threads that open connections may hang in
  `connect()`; nothing is assumed of them.

## 5. Proofs

The theorems are of the form `Spec => []P`, `Spec => [][A]_vars` or, for the refinement
of DurableChain, `Spec => ImplementsDurable`, for every value
of the constants that meets the named assumption of the module. The assumptions give
the types of the constants and what the code takes for granted: the genesis block
exists; a transaction spends no output twice and has an output
(`CoinsAssumption`, both checked by `CheckTransaction`); coinbases spend nothing, other well-formed transactions have inputs, inputs
name existing outputs, and the chain the node starts with is valid (`MempoolAssumption`);
the master is not a worker and there are finitely many threads (`CheckQueueAssumption`,
`NodeLifetimeAssumption`); every block of the tree descends from the genesis block, and
the positions modelled cover every place `FindBlockPos` can hand out
(`StorageAssumption`); the buckets are finitely many (`AddrManAssumption`), as are the
algorithms (`EmissionAssumption`), one of which is the one before the fork, and a row
is longer than one block and so is the window of the walk (`RetargetAssumption`); batches, slots, limits and timeouts are positive where a
zero would stop the code, and ages are counted beyond every timeout
(`BlockDownloadAssumption`); there are more keys than the pool's target
(`KeyPoolAssumption`). For each component an inductive invariant (`IInv`, `QueueInv`
or `TablesInv`) is shown to hold initially and to be preserved by each action; the
theorems follow. Three modules prove things about two components each, which share no
variable.

**ConnectBlockProofs, on Coins.** For every set of transactions, every block made of
them, every maturity and every sequence of connects, disconnects, flushes, shutdowns
and crashes: `UtxoAlwaysExact` (UtxoExact), `VerdictAlwaysExact` (VerdictExact),
`CoinsAlwaysShown` (the inductive invariant).

* An entry is `Good` when it holds exactly the unspent outputs of its transaction
  (nothing for a spent or unspendable one, no empty places at the end, and its
  height and coinbase flag while anything is left), and a view `Shows` a set of
  outputs when all its entries are good. `SpendGood` and `RestoreGood` say so
  of one output, the latter for the undo record that has a height only if the output
  was the last; `SpendAll` and `RestoreAll` of the inputs of a transaction, `UpdateGood` and
  `DisconnectGood` of a transaction, `ConnectGood` and `DisconnectBlockGood` of a block.
* `UtxoExact` alone is not inductive: what `DisconnectBlock` restores is right only
  if the undo data of the tip fits the blocks below it, and a crash goes back to
  `dbBest`, from where other blocks may be connected and disconnected. `ChainOK` says of a chain
  that each block was valid on those below and has the undo data it produced;
  `IInv` says `ChainOK` of the active chain and of the chain on disk, and `Shows` of both layers.
* The loops over inputs and transactions are recursive functions; the `Rounds` lemmas
  give their value round by round, and what the rounds have done is shown by
  considering the first round that would be wrong.

**ConnectBlockProofs, on CheckQueue.** For every number of workers, batch size and
number of checks: `QueueAccounted` (the inductive invariant), `WaitCorrect`
(WaitResultIsConjunction). What `Wait` returns is
decided long before it returns: `TodoCounted` says that `nTodo` is the number of
checks in the queue and in the batches of busy threads (the cardinality of a set of
pairs, one for each check not accounted for), and `Verdict` that queue, batches, the
busy threads' `fOk` and `fAllOk` together are the conjunction of what was added. So
`nTodo = 0` means that `fAllOk` alone is.

**BestChainProofs.** For every set of blocks, any block work, any mixture of
verdicts and any number of failed writes: `TypeCorrect`, `ActiveChainIsValid`,
`FlagsHitOnlyInvalid` (FailedOnlyIfInvalid), `CandidatesAreExact` (CandidatesExact),
`BestValidChainIsActive`, `CoinsFollowTip`, `DisconnectImproves`. That a
successful activation ends on the best valid chain is not inductive: `TreeInv`
adds what `AddToBlockIndex` guarantees of the tree (ancestor sets are closed, work
grows along a chain), `SearchInv` what `FindMostWorkChain` has established at each
label (when the loops over blocks start, no valid chain sorts above
`chainMostWork`, and the active chain is part of it when connecting begins). With `CandidatesExact`
and `FailedOnlyIfInvalid` (a valid chain is never flagged, hence still a
candidate) the property follows when the loop ends.

**OrphanBlocksProofs.** For every number of blocks, every tree and every limit:
`TypeCorrect`, `MapsAlwaysAgree`, `OrphansBounded`, `NoOrphanLeftBehind`,
`OrphansAreKept`, `RequestsFillGap` (RequestsReachGap). `OrphansAwaitParent` speaks of the times when `ProcessBlock` is
not running; `NoneStranded` extends it to its loops: an orphan whose parent is
known (and not one `AcceptBlock` failed on) has that parent in the work queue.
`GetOrphanRoot` goes down the parents by recursion: `RootsExist` shows it well defined,
since a parent comes before its children in the tree (`ParentsFirst`), and `RootOf` what
it returns, by looking at the least orphan for which it would be something else.

**BlockDownloadProofs.** For every number of peers and blocks, every limit and
timeout: `QueuesConsistent`, `ListsMatchMaps` (QueuesMatchMaps), `StallsAreJustified`
(StallJustified), `WantedAreKept` (WantedUntilSent). `QueuesOK(q)` states of any
queues that lists, counters and maps agree, and each operator of `main.cpp` is shown
to keep it; `MapsLive` adds that the maps name no finalized peer, and
`TimersOK` that `nLastBlockReceive` of a peer with blocks in flight is as old as its
wait, which is what makes a stall justified. The request loop is a recursive
function; what its rounds have done is shown by considering the first round
that would be wrong.

**MempoolProofs.** For every set of transactions and nodes: `TypeCorrect`,
`MapNextTxIsExact`, `OrphanMapsAlwaysAgree`, `OrphanTxBounded`,
`PunishmentIsDeserved`, `PoolAlwaysFitsChain` (PoolFitsChain), `RemovalsAreJustified`
(RemovalJustified), `NoOrphanIsMissed` (NoOrphanMissed).

* `PunishmentIsDeserved` needs `OrphanSenders` (a bad orphan came from a
  node that is on record for it) and `OrphanOwnersExist` (that node exists), which
  in turn need the two orphan maps to agree while `FinalizeNode` erases from them.
* `PoolAlwaysFitsChain` rests on `FitInv`: the coins are what the chain made and did
  not spend (`CoinsFit`); the pool fits the chain but for the transactions of the block
  that the handler has yet to go through (`Fits`); and those are all in the chain, with
  their spenders after them, or all out of it (`RestFits`).
* `RemovalsAreJustified` uses that `WithSpenders` and `WithAncestors` are least closed
  sets: what `remove` takes out beyond its argument has an ancestor that goes too.
* `NoOrphanIsMissed` rests on `RetryInv`: while the `tx` handler goes through its work
  queue, an orphan that could be accepted has a parent that is still in the queue.

**PeersProofs, on NodeLifetime.** For every number of nodes, connecting threads and slots:
`ReferencesCounted`, `NodesInUseNotDeleted` (NodesInUseExist), `OutboundSlots`
(OutboundSlotsKept), `OutboundLimit`. There is one message thread, as in the code. Two
inductive invariants:

* `IInv`. `RefsCounted` says that a node's count is at least the number of claims on it:
  the connection's own, one for each copy of `vNodes`, and the lost ones; the theorem
  claims it of nodes `ConnectNode` has not found. A thread that has just made a connection
  holds no reference; `MakerOK` says why its node still exists until it is marked.
* `GInv`, for the grants. `GrantOK` says of a node which single thread is in `MoveTo` or
  `Release` of its grant, and at which step; `MakersAlone`, that a second one gets there
  only if `ConnectNode` found the node. `GoneHasNone` and `SlotsHeld` say that a node that is
  gone has no grant and an outbound connection has one or is promised that of the thread
  that made it. `OutboundLimit` counts: connections without a grant map to different
  threads with one, so all of them together are at most the grants there are.

**PeersProofs, on AddrMan.** For every set of addresses and sources, every assignment of
buckets and all limits: `TablesFit` (the inductive invariant), `AlwaysConsistent`
(Consistent), `TriedStays` (TriedNeverForgotten), `RestartSafe` (RestartKeepsTables).

* `Consistent` is inductive only with what `Check_()` does not look at: `mapAddr` has no
  name without an entry (`Named`), every place of `vRandom` is that of its entry
  (`Ordered`), and a tried entry is in the bucket its address belongs to (`TriedFits`),
  without which `MakeTried` would evict from another bucket than the one it fills.
* `Fit(m, x, z)` says all this of tables in the middle of an operation: a reference of
  `x` has been counted and is not in a bucket yet, `z` may have no reference left.
  Each helper (`Create`, `SwapRandom`, `Forget`, `ShrinkNew`, `Reference`, `LeaveNew`,
  `SelectTried`, `Evict`) has a lemma that says which of these states it leads to, so
  the order in which `Add_` and `Good_` call them matters in the proof as it does in
  the code. That the evicted entry finds room is here: its replacement has just left
  the bucket it came from.
* `RestartSafe` compares two tables with different ids. `Old(m, k)` is the id an
  entry had before the restart; it is a bijection, as `InOrder` enumerates the ids, and
  new and tried entries are all of them.

**MiningProofs, on KeyPool.** For every set of `CReserveKey` objects, every size of the pool and
every number of keys: `PoolConsistent`, `KeysUsedOnce` (KeyUsedOnce), `RecordsKept`
(PoolIsRecords). `HeldAtIndex` says that the record under a holder's index is the only
one with its key, also while records are written over; `Undisturbed`, that without
such an overwriting holders have different indexes, none of them free; `GoneForGood`,
that a key that left the pool is in no record.

**MiningProofs, on Emission and Retarget.** For every set of algorithms, every length of
the chain, of the periods, of rows and of the window, every table of subsidies and every
sequence of blocks, reorganisations and restarts: `SubsidyIsChains`
(SubsidyFromChain), `MinerIsAccepted` (MinerFlagAccepted), `SupplyIsExact` (SupplyExact),
`SurgeIsExact` (SurgeExact). `EmissionInv` is the inductive invariant.

* `SubsidyFromChain` needs to know what may be in memory: `FactorAt` says that a block
  keeps no factor, or the one `get_ssf` gives for the newest flagged block up to it.
  `SameFactor` (through the median times, periods and rates) says that this depends on
  the blocks below only, so that it survives connecting and disconnecting; a restart
  makes it trivial, and `NextFactorIs` shows that `GetBlockValue` finds the same
  factor either way.
* `MinerFlagAccepted` needs `KeysApart`: two flagged blocks of an algorithm have `nSSF`
  blocks of it between them. `CreateNewBlock` stops at the newest flag and
  `ConnectBlock` looks at one particular place; only with the distance do they agree.
* `SupplyExact` is kept for every prefix of the chain (`ExactTo`). The supply is kept per
  algorithm, so a block adds what it pays to one term of the sum and leaves the others
  (`NextSupplyIs`). The sums are the folds of the community modules; `SumTake` shows that
  any element may be taken out first.
* `SurgeExact` holds of every chain. `Reading` says what the walk back knows when it has
  come to a place: its last row is over and counted, or goes on to its oldest place;
  `RowBefore` then counts the rest (`LastRowIs`). Ages count the places of an
  algorithm from the newest (`AgeIs`), which makes `Before` the list it is meant to be.

**BlockStorageProofs.** For every tree of blocks, file size, number of files and number
of stops: `MemoryFollowsDisk`, `StorageIsDurable` (ImplementsDurable),
`PlacesAreReserved` (PlacesReserved), `SavedTipsAreRecoverable` (SavedTipsRecoverable),
`StartsSucceed` (StartSucceeds). Two layers:

* `StoreInv`: the running process has in memory what it would read again
  (`MemoryOK`), everything that may be left of the block tree database holds whole
  chains (`DiskOK`), and what `AcceptBlock` and `ActivateBestChain` know between their
  writes (`StepOK`). It is inductive by itself, and under it every step is a step of
  DurableChain or a stutter: that a kill at any point maps to `Stop` needs that a rest
  of the index is closed under parents.
* `Safe`, which holds until a reindex skips a part of a file: places have one owner and
  lie below the counters (`Placed`), the place being handed out is above all others
  (`Handed`), and what the index names is in the files and committed, or in the file
  the next flush commits, or on record as lost (`Stored`). `TipKept` carries this over
  to the chain of the tip, so that `FlushBlockFile` leaves all of it committed and
  `FlushCoins` may add the tip to the saved ones (`SavedKept`); `Written` and
  `CoinsKept` tell how far the coin database is behind, which decides whether the next
  start succeeds.

**Model-checked only.**

* Liveness (`WaitReturns`, `ActivationReturns`, `WantedIsSettled`,
  `DisconnectedNodesDeleted`): the provers know neither fairness nor ENABLED.
* `FalseOnlyOnSystemError`, which the code violates.

Every other property of the runs is stated by a theorem. The library's induction
theorems cannot be used, since they take an operator as a parameter; where a proof
follows a recursion or a loop it considers the least case that would be wrong.

Type correctness and the bounds on orphan blocks and orphan transactions, on the
other hand, are only proved.

## 6. Where the code and its comments disagree

One run ends in a counterexample to what the repository says of itself.

* **bestchain_silent.** `ActivateBestChain` calls its last branch "a system error"
  (`main.cpp:2630`). `ConnectBlock` returns false without a reason for a block of a
  forbidden version or with a misplaced SSF flag; the block is never flagged,
  stays the best candidate, and every later activation fails on it.

Other peculiarities the models have, stated as exceptions of the properties or
kept out of them:

* If `WriteChainState` fails, `pcoinsTip` is a block ahead of (or behind) the
  active tip until the node stops; another block meets the assertion in
  `ConnectBlock` (`CoinsMatchTip` and `ActivationReturns` except this case).
* When a block below `chainMostWork`'s tip turns out invalid, the next
  `FindMostWorkChain` still keeps that chain, because only the block itself was
  flagged when the function began; it is tried once more and then dropped.
* A block whose data are found possibly corrupt is tried for ever
  (`ActivationReturns`).
* A block that is indexed while `ActivateBestChain` fails leaves its waiting
  children in the holding area (`unfinished` in OrphanBlocks).
* Stall detection looks at the oldest request, although the comment
  (`main.cpp:4838`) speaks of all blocks in flight; `StallJustified` states the
  part that holds.
* `CCheckQueueControl` asserts `nTotal == nIdle` without the mutex
  (`checkqueue.h:170`). A worker that has accounted for its last batch and not yet
  gone back to sleep, or has just started, makes the two differ, so the assertion
  is not a property; those on `nTodo` and `fAllOk` are.
* `DisconnectTip` skips coinbases, so pool transactions that spend one stay when it
  is disconnected, against the assertion in `CTxMemPool::check`
  (`txmempool.cpp:152`). `PoolFitsChain` shows that this is the only case.
* A transaction of a disconnected block is refused by `AcceptToMemoryPool` as long
  as its emptied entry is in the coin cache, so it is not resurrected unless
  `WriteChainState` flushed, which it always does outside the initial download.
* A reindex counts the bytes of the blocks it accepts (`main.cpp:2737`) and not where
  they lie. If it had to skip something (space a killed process reserved, data lost
  in a power failure, a second copy, a block whose parent is missing), the next new block is written over an indexed
  one (`holed` in BlockStorage).
* Data can be lost in a power failure although the coins that need it are saved:
  `FlushBlockFile` commits the last file only, so undo data that goes to a file
  already left, and block and undo data in a file that a reindex went on from, is
  not committed; and undo data lost once, while its index entry survived, is not
  written again (`badData`, `badUndo`).
* `Shutdown` writes the coins without committing the block file or syncing the block
  index (`init.cpp:136`); a power failure right after a clean exit can leave a best
  block the index does not have. A first start killed before the coins were
  written once is refused at the next start, for the missing genesis block. And
  `-reindex` wipes the block tree and the coins one after the other (`init.cpp:855`,
  `856`): killed in between, it leaves coins without an index, and a next start without
  `-reindex` connects the genesis block on them and ends in the assertion of `ConnectBlock`
  (`main.cpp:2186`). `StartSucceeds` lists exactly these cases.
* `SelectTried` (`addrman.cpp:145`) remembers the place an entry had before a swap,
  so the entry `MakeTried` evicts need not be "the least recently tried"
  (`addrman.cpp:133`).
* The resurrector, which is to make an algorithm easier that has halted for 160
  minutes (`README.md:55`), has no effect if the last 25 blocks of the algorithm
  contain a row of nine: the target is kept or divided, whatever was computed
  before (`main.cpp:1565`).
* The scaling factor is truncated to 32 bits as long as fork 2 is not active, which
  it never is; for some factors the subsidy is then scaled by a remainder.
* A connection that breaks before `OpenNetworkConnection` has marked the node
  outbound loses the node's own reference (`net.cpp:1450`): the node is never
  deleted, and the slot moved to it is lost (`leaked` in NodeLifetime). If the node
  was marked, but not yet one-shot, the socket thread may have deleted it when
  `fOneShot` is written (`net.cpp:1452`).
* `ConnectNode` takes a reference to a node it found after releasing the lock
  (`net.cpp:453`), which nobody releases and which may come too late (`found`). Its caller
  then moves a grant to a node that another thread may be moving one to, or the socket
  thread dropping: `MoveTo` and `Release` (`sync.h:223`) have no lock, so a grant may be lost
  or posted twice (`contended`). `OutboundSlotsKept` says that this takes such a node.
* A node of `addnode onetry` (`rpcnet.cpp:170`) is not marked outbound and has no slot: it
  is not counted in the limit, and never deleted.
* `TopUpKeyPool` numbers new keys after the highest free index (`wallet.cpp:1749`).
  With `-keypool=0`, or after a locked wallet's pool was drained, that can be a
  reserved index: its record is written over, two holders may get one key, and a
  record may be missing when its index is taken. `NewKeyPool` numbers from 1 with
  the same effect, and does not erase the records of reserved keys, which so stay
  in the pool of the encrypted wallet, although it is to "Mark old keypool keys as
  used" (`wallet.cpp:1701`); if the process stops before it runs, all of them do.

## 7. What is not modelled

Planned parts are in section 8. Of modelled components: running out of disk space,
`-txindex`, `-loadblock` and the rebuild in the same process that the graphical
interface offers after a failed start (`init.cpp:901`; `bitmarkd` exits) (BlockStorage); amounts and signature-operation limits
(Coins); the rules before the fork, `IsSuperMajority` and fork 3 (Emission); socket
I/O, message buffers, what `fOneShot` does to a connection, `-connect` (connections without
a grant) and shutdown of the connections (NodeLifetime);
wallet transactions, coin selection and power failures (KeyPool). Left out for good: the script interpreter
(data-dependent interpretation of byte strings; every module uses its verdict),
cryptography and the proof-of-work hash functions, bloom filters, checkpoints
(constant tables), alerts and the signature cache (state that nothing else depends
on), RPC and the user interface (formatting around operations that
are modelled elsewhere), serialisation and big integers (the models work on
abstract values), LevelDB, secp256k1 and the other vendored code (LevelDB's
batch write is taken to be atomic). Weak memory effects of the unlocked reads in
`CCheckQueueControl` are not modelled beyond reading between any two steps.

## 8. Plan

Done: the components in sections 1 and 2, the refinement of DurableChain by
BlockStorage, and the proofs of section 5. In order:

1. **Refinement.** Coins implements an ideal set of unspent outputs with two
   operations, connect and disconnect; BestChain implements "the active chain is
   the best valid one known" with activation as one step.
2. **Composition** of OrphanBlocks with BestChain (the outcome of `AcceptBlock`
   computed instead of chosen), and of both with BlockDownload and the getblocks
   requests and sync node: every block of a chain that an honest peer has arrives.
3. **Miner**: `CreateNewBlock` on the state of Mempool: its template connects, and
   transactions whose coinbase was disconnected are left out.
4. **Pure functions**: `CheckTransaction`, partial Merkle trees, the retargeting
   before the fork, each against a reference definition over bounded inputs.
