SPECIFICATION Spec
CONSTANTS
  c1 = c1  c2 = c2  c3 = c3
  a = a  b = b  q = q  r = r  x = x  n = n
  CoinbaseTx = {c1, c2, c3}
  SpendTx = {a, b, q, r, x, n}
  Ins <- MCIns
  NumOut <- MCNumOut
  Verdict <- MCVerdict
  FreeTx = {q}
  BigTx = {b}
  COINBASE_MATURITY = 2
  MaxOrphanTx = 2
  NodeIds = {p1, p2}
  BaseChain <- TwoBlocks
  MaxHeight = 3
  MaxBlockTx = 2
SYMMETRY Symmetry
INVARIANTS MapNextTxExact PoolFitsChain OrphanMapsAgree OnlySendersPunished
PROPERTIES RemovalJustified NoOrphanMissed
