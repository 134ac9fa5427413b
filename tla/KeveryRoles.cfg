CONSTANTS
  NoEvent = "nil"
  KeyEvents <- TimedEv
  Sent <- TimedSent
  MaxSn = 1
  Keys = {"k0", "k1", "k2"}
  Wits = {"w1"}
  Owned = FALSE
  LocalKeys = {}
  LocalWits = {}
  MaxStale = 3
SPECIFICATION RolesSpec
INVARIANTS RolesSound
PROPERTIES EscrowsResolve
