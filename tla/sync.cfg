SPECIFICATION Spec
CONSTANTS
  p1 = p1
  p2 = p2
  Peer = {p1, p2}
  PeerHeight <- MCPeerHeight
  MaxHeight = 2
  StartHeight = 0
  MaxGetblocks = 63
  SIZE_SHA256 = 32
  UCHAR_MAX = 63
  Nobody = Nobody
  Repaired = {"list_dest", "request_own", "height_two", "max_width"}
INVARIANT NothingHeldBack
PROPERTIES CatchesUp Quiet RequestsServed
CHECK_DEADLOCK FALSE
