CONSTANTS
  NoEvent = "nil"
  KeyEvents <- DelegateEv
  Sent <- DelegateSent
  Held <- DelegateHeld
  MaxSn = 3
  Timed = {"validator", "delegator"}
  MaxStale = 1
SPECIFICATION Spec
INVARIANTS LogsSound SealsRecorded DelegatorProtected
PROPERTIES RotationsGiveWay DelegationResolves
