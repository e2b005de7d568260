SPECIFICATION Spec
CONSTANTS
  g1 = g1
  g2 = g2
  Main = Main
  Server = Server
  Guest = {g1, g2}
  None = None
  MaxTries = 3
  Repaired = {"count_init", "connfd_set", "break_unlock", "ready_exit", "resp_check", "peer_arg"}
INVARIANTS NoSelfWait OneFirstPeer
PROPERTIES JoinReturns MutexReleased
CHECK_DEADLOCK FALSE
