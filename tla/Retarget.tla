------------------------------- MODULE Retarget -------------------------------
(***************************************************************************)
(* Difficulty of a chain mined with several proof-of-work algorithms:      *)
(* DarkGravityWave of main.cpp and what it reads of CBlockIndex.  The      *)
(* operators are functions of a chain, a sequence of blocks from the last  *)
(* one before the fork (place 1) to the tip; the fork is taken to be       *)
(* higher than the first PastBlocks blocks.  Numbers of the code that are  *)
(* too large to count with are constants.                                  *)
(***************************************************************************)
EXTENDS Integers, Sequences, FiniteSets, SequencesExt, FiniteSetsExt

CONSTANTS
  Algo,              \* proof-of-work algorithms
  Continued,         \* those that go on from the difficulty before the fork
  Scrypt,            \* the algorithm before the fork
  Weight,            \* Weight[a]: GetAlgoWeight
  ProofOfWorkLimit,
  FirstTarget,       \* 0x1d00ffff, where new algorithms start
  FirstDivisor,      \* 128, by which they divide it
  MaxTarget,         \* 2^256 - 1
  CompactBase, CompactMantissa,   \* 256 and 0x7fffff of the compact form
  PastBlocks,        \* 25
  InRow,             \* 9, a surge
  DGWtimespan,       \* 960 s, wanted between blocks of an algorithm
  Idle,              \* 9600 s, when the resurrector acts
  nMedianTimeSpan    \* 11

ASSUME RetargetAssumption ==
  /\ Continued \subseteq Algo /\ Scrypt \in Continued
  /\ PastBlocks \in Nat /\ PastBlocks > 1 /\ InRow \in Nat /\ InRow > 1
  /\ DGWtimespan > 0 /\ Idle > 0 /\ nMedianTimeSpan \in Nat \ {0}

\* SetCompact(GetCompact(t)): the leading digits that fit the mantissa.
Compact(t) ==
  LET scale == CHOOSE s \in 0..16 :
                 /\ t \div CompactBase^s <= CompactMantissa
                 /\ s > 0 => t \div CompactBase^(s - 1) > CompactMantissa
  IN (t \div CompactBase^scale) * CompactBase^scale

Sorted(times) == SortSeq(times, <)

\* GetMedianTimePast of a block after the fork: one block before it is looked at.
GetMedianTimePast(chain, i) ==
  LET times == [n \in 1..Min({nMedianTimeSpan, i}) |-> chain[i + 1 - n].time]
  IN Sorted(times)[Len(times) \div 2 + 1]

-----------------------------------------------------------------------------
(* DarkGravityWave *)

\* What the walk back from the tip has found: CountBlocks, the newest and the oldest
\* block of the algorithm, the average target and the rows of the algorithm.
WalkStart == [count |-> 0, newest |-> 0, oldest |-> 0, average |-> 0,
              nInRow |-> 0, nInRowDone |-> FALSE, lastInRow |-> 0, lastInRowDone |-> FALSE,
              atFork |-> FALSE]

\* A row shorter than a surge that another algorithm, or the fork, ends is forgotten.
EndRow(w) == [w EXCEPT !.nInRow = IF @ < InRow THEN 0 ELSE @,
                       !.nInRowDone = @ \/ w.nInRow >= InRow]

\* Mutant: a block of another algorithm does not end the last row.
ReadBlock_RowGoesOn(chain, algo, w, i) ==
  IF w.count = PastBlocks THEN w
  ELSE IF chain[i].algo # algo THEN EndRow(w)
  ELSE [w EXCEPT !.count = @ + 1,
                 !.newest = IF w.count = 0 THEN i ELSE @, !.oldest = i,
                 !.average = (@ * w.count + chain[i].target) \div (w.count + 1),
                 !.nInRow = IF w.nInRowDone THEN @ ELSE @ + 1,
                 !.lastInRow = IF w.lastInRowDone THEN @ ELSE @ + 1]

ReadBlock(chain, algo, w, i) ==
  IF w.count = PastBlocks THEN w
  ELSE IF chain[i].algo # algo THEN [EndRow(w) EXCEPT !.lastInRowDone = @ \/ w.count > 0]
  ELSE [w EXCEPT !.count = @ + 1,
                 !.newest = IF w.count = 0 THEN i ELSE @, !.oldest = i,
                 !.average = (@ * w.count + chain[i].target) \div (w.count + 1),
                 !.nInRow = IF w.nInRowDone THEN @ ELSE @ + 1,
                 !.lastInRow = IF w.lastInRowDone THEN @ ELSE @ + 1]

Walk(chain, algo) ==
  LET w[n \in 0..(Len(chain) - 1)] ==
        IF n = 0 THEN WalkStart ELSE ReadBlock(chain, algo, w[n - 1], Len(chain) + 1 - n)
  IN w[Len(chain) - 1]

\* The blocks of the algorithm in a row that end at place i.
RowBefore(chain, algo, i) ==
  i - Max({j \in 1..i : j = 1 \/ chain[j].algo # algo})

\* The walk that came to the last block before the fork counts that block too.
AtFork(w) ==
  IF w.count = PastBlocks THEN w ELSE [EndRow(w) EXCEPT !.count = @ + 1, !.atFork = TRUE]

\* The blocks in a row that go on behind the walk p.
PastInRow(chain, algo, p) ==
  LET open == (p.nInRow > 0 /\ ~p.nInRowDone) \/ (p.lastInRow > 0 /\ ~p.lastInRowDone)
  IN IF open /\ ~p.atFork THEN RowBefore(chain, algo, p.oldest - 1) ELSE 0

\* What the target is computed from: the walk p and the blocks in a row behind it.
Summary(chain, p, pastInRow) ==
  [count |-> p.count,
   average |-> p.average,
   last |-> IF p.newest = 0 THEN 0 ELSE chain[p.newest].target,
   lastInRow |-> IF p.lastInRowDone THEN p.lastInRow ELSE p.lastInRow + pastInRow,
   justHadSurge |-> \/ p.nInRow >= InRow
                    \/ /\ p.nInRow > 0 /\ pastInRow > 0
                       /\ p.nInRow + pastInRow >= InRow
                       /\ pastInRow % InRow # 0,
   timespan |-> IF p.newest = 0 THEN 0
                ELSE GetMedianTimePast(chain, p.newest)
                     - (IF p.atFork THEN chain[1].time ELSE GetMedianTimePast(chain, p.oldest)),
   idle |-> IF Len(chain) = 1 THEN -1
            ELSE GetMedianTimePast(chain, Len(chain))
                 - (IF p.newest = 0 THEN chain[1].time ELSE GetMedianTimePast(chain, p.newest))]

PastOf(chain, algo, p) == Summary(chain, p, PastInRow(chain, algo, p))
Past(chain, algo) == PastOf(chain, algo, AtFork(Walk(chain, algo)))

Surge(p) == p.lastInRow >= InRow /\ p.lastInRow % InRow = 0
smultiplier(p) == IF p.idle > Idle THEN p.idle \div Idle ELSE 1

\* The first block of an algorithm after the fork.
FirstOfAlgo(chain, algo) ==
  IF algo \in Continued
  THEN (chain[1].target * Weight[algo]) \div (8 * Weight[Scrypt])
  ELSE (FirstTarget * Weight[algo]) \div FirstDivisor

\* nActualTimespan within its bounds.
ActualTimespan(p, wanted) ==
  LET actual == IF p.idle > Idle THEN 10 * smultiplier(p) * wanted ELSE p.timespan
      atLeast == IF actual < wanted \div 3 \/ Surge(p) THEN wanted \div 3 ELSE actual
  IN IF atLeast > wanted * 3 THEN smultiplier(p) * wanted * 3 ELSE atLeast

\* bnNew from the summary p, before its limits.
NewTarget(chain, algo, p) ==
  LET from == IF p.justHadSurge \/ p.idle > Idle THEN p.last ELSE p.average
      wanted == (p.count - 1) * DGWtimespan
      resurrected == IF p.idle > Idle THEN 3 * smultiplier(p) ELSE 1
  IN IF p.count >= PastBlocks
     THEN CASE Surge(p) -> from \div 3
            [] ~Surge(p) /\ ~p.justHadSurge -> (from * ActualTimespan(p, wanted)) \div wanted
            [] OTHER -> from
     ELSE IF p.count = 1 THEN FirstOfAlgo(chain, algo) * resurrected
     ELSE (from * resurrected) \div (IF Surge(p) THEN 3 ELSE 1)

DarkGravityWave(chain, algo) ==
  Compact(Min({NewTarget(chain, algo, Past(chain, algo)), ProofOfWorkLimit * Weight[algo], MaxTarget}))
=============================================================================
