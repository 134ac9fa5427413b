CONSTANTS
  KeyEvents <- RecoveryEv
  NoEvent = "nil"
  MaxSn = 2
  MaxCrashes = 2
  None = None
  Raised = Raised
  Nothing = Nothing
SPECIFICATION DupsSpec
INVARIANT DupsFiledOnce
