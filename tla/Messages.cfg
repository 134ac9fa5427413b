CONSTANTS
  MsgData <- ExchangeLog
  Deliveries <- Exchanged
  KeysAt <- SenderKeys
  Threshold = 2
  GraphHolds <- Disclosed
  MaxCrashes = 1
  None = None
SPECIFICATION MsgSpec
INVARIANTS StoredSound ThreadsSound
PROPERTIES SignedInOrder MessagesResolve
