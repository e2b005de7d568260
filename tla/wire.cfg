SPECIFICATION Spec
CONSTANTS
  Radix = 16
  Host = "little"
  Message <- MCMessage
  MaxSends = 3
  PeerVersions = {1, 17}
  SIZE_SHA256 = 2
  MAX_MSG_SIZE = 12
  Junk <- MCJunk
  Boundaries = TRUE
  Repaired = {"send_body", "version_shift", "body_offset"}
INVARIANT VersionChecked
PROPERTY ImplementsChannel
CHECK_DEADLOCK FALSE
