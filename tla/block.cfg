SPECIFICATION MCSpec
CONSTANTS
  MaxTx = 11
  Leaf <- MCLeaf
  Hash <- MCHash
  Garbage <- MCGarbage
  Radix = 2
  Host = "little"
  Junk <- MCJunk
  Headers <- MCHeaders
  Times <- MCTimes
  Tx <- MCTx
  Coinbase <- MCCoinbase
  Ins <- MCIns
  Outs <- MCOuts
  LockTime <- MCLockTime
  SIZE_TX_INPUT = 2
  SIZE_TX_OUTPUT = 1
  MAX_BLOCK_SIZE = 120
  Repaired = {"byte_order", "count_address", "count_byte", "target_byte"}
INVARIANTS InPlace RootReached
PROPERTIES ImplementsTree ImplementsRecord
CHECK_DEADLOCK FALSE
