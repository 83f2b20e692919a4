SPECIFICATION FairSpec
CONSTANTS
  a = a
  b = b
  x = x
  y = y
  None = None
  player = player
  inventory = inventory
  Nodes = {a, b}
  Kinds <- KindsMC
  LocalKinds <- LocalKindsMC
  Ids = {x, y}
  KindOf <- KindOfMC
  Bootstrap <- BootstrapMC
  Calls <- CallsMC
  MayDeactivate <- DeactivateMC
  Spawns <- SpawnsMC
  MaxRestarts <- RestartsMC
  MaxCalls = 3
  MaxEvents = 1
INVARIANT KindsFollowMembers
INVARIANT UniqueUnlessRaced
INVARIANT Agreement
INVARIANT BootstrapJoins
PROPERTY ComesToRest
PROPERTY LeaveJustified
CHECK_DEADLOCK FALSE
