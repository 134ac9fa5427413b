CONSTANTS
  NoEvent = "nil"
  KeyEvents <- RecoveryEv
  MaxSn = 1
  Wits = {"w1", "w2", "w3"}
  Signers = {"s1"}
  EstSns <- OneEst
  Sent <- MisfiledSent
  MaxStale = 0
SPECIFICATION CfgSpec
INVARIANTS ReceiptsFiled
