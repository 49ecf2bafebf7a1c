SPECIFICATION Spec
CONSTANTS
  CoinbaseTx = {"c1", "c2", "d2", "c3"}
  SpendTx = {"t1", "t2", "t3", "t4"}
  Ins <- MCIns
  NumOut <- MCNumOut
  Unspendable <- MCUnspendable
  CoinbaseHeight <- MCCoinbaseHeight
  COINBASE_MATURITY = 1
  MaxHeight = 3
  MaxSpends = 3
INVARIANTS UtxoExact VerdictExact
