SPECIFICATION Spec
CONSTANTS
  a = a
  b = b
  x = x
  y = y
  None = None
  player = player
  inventory = inventory
  Nodes = {a, b}
  Kinds <- KindsMC
  LocalKinds <- LocalKindsMC
  Ids = {x, y}
  KindOf <- KindOfMC
  Bootstrap <- BootstrapMC
  Calls <- CallsMC
  MayDeactivate = {}
  Spawns = {}
  MaxRestarts <- RestartsMC
  MaxCalls = 3
  MaxEvents = 0
INVARIANT Unique
CHECK_DEADLOCK FALSE
