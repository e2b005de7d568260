SPECIFICATION Spec
CONSTANTS
  Radix = 16
  Host = "little"
  Message <- MCMessage
  MaxSends = 2
  PeerVersions = {1}
  SIZE_SHA256 = 2
  MAX_MSG_SIZE = 12
  Junk <- MCJunk
  Boundaries = FALSE
  Repaired = {"send_body", "version_shift", "body_offset"}
PROPERTY ImplementsChannel
CHECK_DEADLOCK FALSE
