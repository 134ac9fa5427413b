CONSTANTS
  NoEvent = "nil"
  KeyEvents <- BackersEv
  Sent <- BackersSent
  MaxSn = 1
  Keys = {"k0", "k1", "k2"}
  Wits = {"w1", "w2"}
  Owned = FALSE
  LocalKeys = {}
  LocalWits = {}
  MaxStale = 0
SPECIFICATION Spec
INVARIANTS WitsFollowChain
