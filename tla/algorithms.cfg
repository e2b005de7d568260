SPECIFICATION MCSpec
CONSTANTS
  h1 = h1
  h2 = h2
  h3 = h3
  h4 = h4
  Junk = Junk
  Hash = {h1, h2, h3, h4}
  LevelCap = 3
  REASONABLE_CONFIRMATIONS = 2
  MaxChain = 4
  MaxBranch = 3
  Radix = 4
  MaxDigits = 2
  BlockLen = 6
  WordBytes = 2
  Bits = 2
  Data = {1, 3}
  MaxLen = 13
  UIntCount = 64
  Repaired = {"absent_level", "count_store", "overflow_check", "memcmp_sense", "loop_bound", "valid_if", "missing_block", "confirm_wrap", "mult_bounds", "compare_order", "nibble_mask"}
INVARIANTS LevelIsCappedSet TraceAnswers BytesExact HashesPadded
