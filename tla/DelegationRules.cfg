CONSTANTS
  NoEvent = "nil"
  KeyEvents <- DelegateEv
  Sent <- RulesSent
  Held <- RulesHeld
  Timed = {"validator"}
  MaxSn = 3
  MaxStale = 0
SPECIFICATION Spec
PROPERTIES RecoveryHonoured
