CONSTANTS
  Members <- JoiningMembers
  Needed = 2
  Worlds <- JoinWorlds
  None = "nil"
SPECIFICATION AnySpec
INVARIANTS MembersAgreed CompletedSoundly NothingPassedOver
PROPERTIES WorkFinishes
