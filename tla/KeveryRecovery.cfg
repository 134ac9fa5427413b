CONSTANTS
  NoEvent = "nil"
  KeyEvents <- RecoveryEv
  Sent <- RecoverySent
  MaxSn = 3
  Keys = {"k0", "k1", "k2"}
  Wits = {"w1", "w2"}
  Owned = FALSE
  LocalKeys = {}
  LocalWits = {}
  MaxStale = 0
SPECIFICATION PromptSpec
INVARIANTS TypeOK ChainIntact FirstSeenOnce RotationsControlled EscrowsSigned AcceptedWitnessed
PROPERTIES EstablishmentFinal ImplementsKEL
