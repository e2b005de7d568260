SPECIFICATION FairSpec
CONSTANTS
  t1 = t1
  t2 = t2
  t3 = t3
  t4 = t4
  c1 = c1
  c2 = c2
  Tx = {t1, t2, t3, t4}
  Junk = Junk
  Null = Null
  Conn = {c1, c2}
  Reverter = Reverter
  MempoolCap = 4
  SlotCount = 3
  MaxIds = 2
  Repaired = {"revert_locks", "add_data", "slot_hash", "del_last", "getdata_bound", "get_index"}
INVARIANTS SlotsSound 
PROPERTIES CallsTakeEffect ImplementsSet CallersReturn
CHECK_DEADLOCK FALSE
