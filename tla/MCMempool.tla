------------------------------ MODULE MCMempool ------------------------------
(* Transactions and chains for the run of module Mempool. *)
EXTENDS Mempool, TLC

CONSTANTS c1, c2, c3,         \* coinbases
          a, b, q, r, x, n

\* a and b spend the same coinbase; q and x, which is invalid, spend outputs of
\* a, r spends one of a and one of q, and n, which is not standard, one of b.
MCIns == [t \in Tx |-> CASE t \in {a, b} -> {<<c1, 1>>}
                         [] t = q -> {<<a, 1>>}
                         [] t = r -> {<<a, 2>>, <<q, 1>>}
                         [] t = x -> {<<a, 3>>}
                         [] t = n -> {<<b, 1>>}
                         [] OTHER -> {}]
MCNumOut == [t \in Tx |-> IF t = a THEN 3 ELSE 1]
MCVerdict == [t \in SpendTx |-> CASE t = x -> "invalid"
                                  [] t = n -> "nonstandard"
                                  [] OTHER -> "valid"]

TwoBlocks == <<<<c1>>, <<c2>>>>

Symmetry == Permutations(NodeIds)
=============================================================================
