SPECIFICATION Spec
CHECK_DEADLOCK FALSE
CONSTANTS
  User = "user"
  System = "system"
  Administrators = "admins"
  OwnerRights = "owner"
  Sids = {"user", "system", "admins", "owner", "everyone", "other"}
  Rights = {"read", "change"}
  ChangesEntries = {"change"}
  Procs = {"p1", "p2"}
  Worlds <- MCWorlds
  MaxDirs = 6
  Devices = {"d1", "d2"}
  RealPath <- MCRealPath
  Tree <- MCTree
  Boxes <- MCBoxes
  MaxElements = 2
  MaxTime = 1
INVARIANTS
  HeldIsOnDisk
  SecretIsPrivate
  KeyIsKept
  PortAsConfigured
  EnvelopeInOrder
  InventorySound
  HealthTells
PROPERTIES
  FirstStartUnlessMoved
  StartsEnd
  RequestsEnd
