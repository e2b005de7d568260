SPECIFICATION Spec
CONSTANTS
  t1 = t1
  t2 = t2
  MaxHeight = 3
  Fork = {1, 2}
  Tx = {t1, t2}
  Coinbase = Coinbase
  MempoolCap = 1
  BlockCap = 2
  Repaired = {"fill_index", "miner_locks"}
INVARIANT HeaderSound
PROPERTY Converges
CHECK_DEADLOCK FALSE
