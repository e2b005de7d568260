SPECIFICATION Spec
CONSTANTS
  g = g
  b1 = b1
  b2 = b2
  c1 = c1
  c2 = c2
  c3 = c3
  d2 = d2
  d3 = d3
  x4 = x4
  t1 = t1
  t2 = t2
  Absent = Absent
  Block = {g, b1, b2, c1, c2, c3, x4}
  Genesis = g
  MaxHeight = 4
  Height <- MCHeight
  Prev <- MCPrev
  Tx = {t1, t2}
  Txs <- MCTxs
  Valid <- MCValid
  LevelCap = 2
  MempoolCap = 1
  REASONABLE_CONFIRMATIONS = 3
  ByteBase = 256
  Repaired = {"safe_set", "chain_record", "height_record", "highest", "index_hash", "key_order", "valid_if", "missing_block", "confirm_wrap", "revert_args", "dangling_else"}
INVARIANTS TypeOK ChainLinked LimboResolved OrphansChased
PROPERTIES TxConserved DisplacedListed ImplementsBestChain
