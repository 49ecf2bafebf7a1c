------------------------------ MODULE MCCoins ------------------------------
(***************************************************************************)
(* Transactions for Coins.  c1 pays two outputs, c2 and d2 compete for     *)
(* height 2.  t1 makes a spendable and an unspendable output; t2 spends    *)
(* the rest of c1 together with t1; t3 conflicts with t2 and has only an   *)
(* unspendable output; t4 spends a coinbase and the output of t2.          *)
(***************************************************************************)
EXTENDS Coins

MCIns == [c1 |-> <<>>, c2 |-> <<>>, d2 |-> <<>>, c3 |-> <<>>,
          t1 |-> << <<"c1", 2>> >>,
          t2 |-> << <<"c1", 1>>, <<"t1", 1>> >>,
          t3 |-> << <<"t1", 1>> >>,
          t4 |-> << <<"c2", 1>>, <<"t2", 2>> >>]
MCNumOut == [c1 |-> 2, c2 |-> 1, d2 |-> 1, c3 |-> 1,
             t1 |-> 2, t2 |-> 2, t3 |-> 1, t4 |-> 1]
MCUnspendable == {<<"t1", 2>>, <<"t3", 1>>}
MCCoinbaseHeight == [c1 |-> 1, c2 |-> 2, d2 |-> 2, c3 |-> 3]
=============================================================================
