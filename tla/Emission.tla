------------------------------- MODULE Emission -------------------------------
(***************************************************************************)
(* New coins on a chain mined with several algorithms: the part of         *)
(* ConnectBlock that checks the update flag, keeps the subsidy scaling     *)
(* factor and the money supply of every block and limits the coinbase, and *)
(* GetBlockValue, get_ssf and CreateNewBlock's flag in main.cpp and        *)
(* miner.cpp, on blocks whose target is that of Retarget.                  *)
(*                                                                         *)
(* A block of the active chain is a record of its index entry.  The money  *)
(* supply is part of the entry on disk; the scaling factor is in memory    *)
(* only, 0 after a restart.  Fees are left out: the coinbase value is net  *)
(* of them wherever the code uses it.                                      *)
(***************************************************************************)
EXTENDS Retarget

CONSTANTS
  nSSF,              \* blocks of an algorithm between updates of its factor
  Periods,           \* 365, how many of them count
  COIN,              \* 100000000, also the unit of the factor
  UInt32,            \* 2^32
  UInt64,            \* 2^64
  Fork2,             \* onFork2: no truncation (FALSE in the code)
  EmissionPoints,    \* sequence of <<emitted, subsidy below it>>
  SupplyBefore,      \* nMoneySupply of the last block before the fork
  Delays,            \* how long a block may take
  MaxBlocks,         \* bound: length of chain
  MaxOdd,            \* bound: blocks that take long or claim nothing
  MaxRestarts        \* bound

NUM_ALGOS == Cardinality(Algo)

ASSUME EmissionAssumption ==
  /\ nSSF \in Nat \ {0} /\ Periods \in Nat \ {0} /\ COIN \in Nat \ {0}
  /\ UInt32 \in Nat \ {0} /\ Fork2 \in BOOLEAN /\ SupplyBefore \in Nat
  /\ IsFiniteSet(Algo)
  /\ \A i \in DOMAIN EmissionPoints : i > 1 => EmissionPoints[i][1] > EmissionPoints[i - 1][1]

VARIABLES chain, restarts
emissionVars == <<chain, restarts>>

\* The last block before the fork.
EmissionInit ==
  /\ chain = <<[algo |-> Scrypt, key |-> FALSE, time |-> 0, target |-> ProofOfWorkLimit,
                paid |-> 0, supply |-> SupplyBefore, ssf |-> 0]>>
  /\ restarts = 0

-----------------------------------------------------------------------------
(* Walks over the blocks of one algorithm *)

\* The places of the algorithm after the fork and before i, newest first: what
\* get_pprev_algo returns when it is called again and again.
Places(c, algo, i) == {j \in 2..(i - 1) : c[j].algo = algo}
Age(S, j) == Cardinality({k \in S : k > j})
NewestFirst(S) == [n \in 1..Cardinality(S) |-> CHOOSE j \in S : Age(S, j) = n - 1]
Before(c, algo, i) == NewestFirst(Places(c, algo, i))

\* GetBlockWorkBoost
Work(b) ==
  IF b.target <= 0 THEN 0 ELSE (MaxTarget + 1) \div (b.target \div Weight[b.algo] + 1)

\* The hash rate of period k of the history q, or 0 when the period is not complete,
\* and the time the period took.
PeriodTime(c, q, k) ==
  LET first == k * nSSF + 1
      next == first + nSSF
      end == GetMedianTimePast(c, q[first])
  IN CASE Len(q) >= next -> end - GetMedianTimePast(c, q[next])
       [] Len(q) = next - 1 -> end - c[1].time
       [] Len(q) < next - 1 /\ Len(q) > first -> end - GetMedianTimePast(c, q[Len(q)])
       [] OTHER -> end
Rate(c, q, k) ==
  LET work == IF Len(q) < (k + 1) * nSSF THEN 0
              ELSE SumFunction([n \in (k * nSSF + 1)..((k + 1) * nSSF) |-> Work(c[q[n]])])
  IN (work * COIN) \div PeriodTime(c, q, k)

\* The factor from the peak and the current hash rate.
Factor(peak, cur, fork2) ==
  LET precise == (COIN * peak) \div (peak - cur)
  IN IF fork2 THEN precise ELSE Min({precise, UInt64 - 1}) % UInt32

\* The factor from the history q: peak and current rate over its periods.
FactorOf(peak, cur) ==
  IF peak > 0 /\ cur # peak THEN Factor(peak, cur, Fork2) ELSE 0
HistoryFactor(c, q) ==
  LET ks == {k \in 0..(Periods - 1) : k * nSSF < Len(q)}
  IN IF ks = {} \/ \E k \in ks : PeriodTime(c, q, k) <= 0 THEN 0
     ELSE FactorOf(Max({0} \cup {Rate(c, q, k) : k \in ks}), Rate(c, q, 0))

\* get_ssf for a block of the algorithm at place i, in the chain or next.
get_ssf(c, algo, i) == HistoryFactor(c, Before(c, algo, i))

-----------------------------------------------------------------------------
(* GetBlockValue *)

\* The factor found again from the key block of the period.
FindFactor(c, algo, key, i) ==
  LET keys == {j \in 2..(i - 1) : c[j].algo = algo /\ c[j].key}
  IN CASE key -> get_ssf(c, algo, i)
       [] ~key /\ keys # {} -> get_ssf(c, algo, Max(keys))
       [] OTHER -> 0

\* Mutant: a factor lost in a restart is not found again.
ScalingFactor_NotFound(c, algo, key, i, cached) == cached

ScalingFactor(c, algo, key, i, cached) ==
  IF cached % UInt32 = 0 THEN FindFactor(c, algo, key, i) ELSE cached

get_mpow_ms_correction(c) == c[1].supply \div NUM_ALGOS

\* The supply of the last block of the algorithm before place i.
SupplyOf(c, algo, i) ==
  LET q == Before(c, algo, i)
  IN IF q = <<>> THEN get_mpow_ms_correction(c) ELSE c[q[1]].supply

BaseSubsidy(emitted) ==
  LET below == {k \in DOMAIN EmissionPoints : emitted < EmissionPoints[k][1]}
  IN IF below = {} THEN 0 ELSE EmissionPoints[Min(below)][2]

\* At most half of the subsidy is taken off, unless something overflows.
Scaled(base, factor) ==
  IF factor % UInt32 = 0 THEN base
  ELSE base - (((base * COIN) \div factor) % UInt32) \div 2

GetBlockValue(c, algo, i, factor) ==
  Scaled(BaseSubsidy(NUM_ALGOS * SupplyOf(c, algo, i)), factor)

-----------------------------------------------------------------------------
(* ConnectBlock *)

\* The update flag comes every nSSF blocks of the algorithm once it has come.
FlagInTime(c, algo, key) ==
  LET q == Before(c, algo, Len(c) + 1)
      KeyAt(n) == n <= Len(q) /\ c[q[n]].key
  IN IF key THEN \A n \in 1..(nSSF - 1) : ~KeyAt(n) ELSE ~KeyAt(nSSF)

\* The factor ConnectBlock gives the next block before it asks for its value.
Inherited(c, algo, key) ==
  LET i == Len(c) + 1
      q == Before(c, algo, i)
  IN IF key THEN get_ssf(c, algo, i) ELSE IF q = <<>> THEN 0 ELSE c[q[1]].ssf

\* The factor the next block has in the end, and the limit of its coinbase.
NextFactor(c, algo, key) ==
  ScalingFactor(c, algo, key, Len(c) + 1, Inherited(c, algo, key))
NextValue(c, algo, key) ==
  GetBlockValue(c, algo, Len(c) + 1, NextFactor(c, algo, key))

\* Mutant: the supply goes on from the previous block of any algorithm.
NextSupply_AnyAlgo(c, algo, paid) == c[Len(c)].supply + paid

NextSupply(c, algo, paid) == SupplyOf(c, algo, Len(c) + 1) + paid

\* Mutant: the miner looks at one block too few.
MinerFlag_Short(c, algo) ==
  LET q == Before(c, algo, Len(c) + 1)
      keys == {n \in 1..Min({nSSF - 1, Len(q)}) : c[q[n]].key}
  IN keys = {} \/ Min(keys) = nSSF - 1

\* CreateNewBlock's choice of the flag.
MinerFlag(c, algo) ==
  LET q == Before(c, algo, Len(c) + 1)
      keys == {n \in 1..Min({nSSF, Len(q)}) : c[q[n]].key}
  IN keys = {} \/ Min(keys) = nSSF

Odd(c) ==
  Cardinality({i \in 2..Len(c) : c[i].paid = 0 \/ c[i].time >= c[i - 1].time + Max(Delays)})

ConnectBlock(algo, key, delay) ==
  LET tip == Len(chain)
      value == NextValue(chain, algo, key)
      block(paid) ==
        [algo |-> algo, key |-> key,
         time |-> Max({GetMedianTimePast(chain, tip) + 1, chain[tip].time + delay}),
         target |-> DarkGravityWave(chain, algo),
         paid |-> paid, supply |-> NextSupply(chain, algo, paid),
         ssf |-> NextFactor(chain, algo, key)]
  IN /\ tip < MaxBlocks
     /\ FlagInTime(chain, algo, key)
     /\ \E paid \in {0, value} :
          /\ paid \in Nat /\ paid <= value
          /\ chain' = Append(chain, block(paid))
          /\ Odd(chain') <= MaxOdd
     /\ UNCHANGED restarts

\* DisconnectTip: what a block had in memory it is given again when it is connected.
DisconnectBlock ==
  /\ Len(chain) > 1
  /\ chain' = Front(chain)
  /\ UNCHANGED restarts

RestartNode ==
  /\ restarts < MaxRestarts
  /\ restarts' = restarts + 1
  /\ chain' = [i \in DOMAIN chain |-> [chain[i] EXCEPT !.ssf = 0]]

EmissionNext ==
  \/ \E algo \in Algo, key \in BOOLEAN, delay \in Delays : ConnectBlock(algo, key, delay)
  \/ DisconnectBlock
  \/ RestartNode

EmissionSpec == EmissionInit /\ [][EmissionNext]_emissionVars

-----------------------------------------------------------------------------
(* Properties *)

\* The limit ConnectBlock sets to the next coinbase, from what restarts and
\* reorganisations left in memory, is that of the chain alone: the factor of the
\* newest flagged block of the algorithm, for the whole period it begins.
NewestKey(c, algo) == {j \in 2..Len(c) : /\ c[j].algo = algo /\ c[j].key
                                         /\ \A k \in (j + 1)..Len(c) : c[k].algo = algo => ~c[k].key}
SubsidyFromChain ==
  \A algo \in Algo, key \in BOOLEAN :
    LET from == IF key THEN {Len(chain) + 1} ELSE NewestKey(chain, algo)
        factor == IF from = {} THEN 0 ELSE get_ssf(chain, algo, Max(from))
    IN FlagInTime(chain, algo, key)
         => NextValue(chain, algo, key) = GetBlockValue(chain, algo, Len(chain) + 1, factor)

\* A block CreateNewBlock makes has the flag ConnectBlock wants.
MinerFlagAccepted ==
  \A algo \in Algo : FlagInTime(chain, algo, MinerFlag(chain, algo))

\* GetMoneySupply, the sum over the algorithms, is what was there before the fork and
\* all that the coinbases of the chain have paid since, but for a division.
SupplyExact ==
  LET total == SupplyBefore + SumFunction([i \in DOMAIN chain |-> chain[i].paid])
      reported == SumFunction([a \in Algo |-> SupplyOf(chain, a, Len(chain) + 1)])
  IN total - reported \in 0..(NUM_ALGOS - 1)

\* "Surge Protector activates if there is a string of 9 blocks in-a-row by the same
\* algorithm": at every ninth block of the last row of the algorithm, however long the
\* row is and wherever the window of the walk ends.
SurgeExact ==
  \A algo \in Algo :
    LET own == {i \in 2..Len(chain) : chain[i].algo = algo}
        row == IF own = {} THEN 0 ELSE Cardinality({i \in own : i..Max(own) \subseteq own})
    IN Surge(Past(chain, algo)) <=> row # 0 /\ row % InRow = 0
=============================================================================
