CONSTANTS
  NoEvent = "nil"
  KeyEvents <- RotationEv
  MaxSn = 2
  Wits = {"w1", "w2", "w3"}
  Signers = {"s1"}
  EstSns <- TwoEsts
  Sent <- RotationSent
  MaxStale = 0
SPECIFICATION AnySpec
INVARIANTS AcceptedWitnessed VerifiedReceipts PendingVerify RecoveryVerified
PROPERTIES ReceiptsResolve
