CONSTANTS
  TelEvents <- RegistryEv
  KelEvents <- RegistryKel
  Traffics <- RegistryTraffics
  Places <- RegistryPlaces
  MaxSn = 3
  MaxRestarts = 1
  NoEvent = "nil"
SPECIFICATION AnySpec
INVARIANTS LogsSound AcceptedAnchored RegistryBacked NoneLost
PROPERTIES NotOverRevoked EscrowsResolve
