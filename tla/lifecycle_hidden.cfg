SPECIFICATION Spec
CONSTANTS
  Machines = {m1}
  IDs = {200, 201}
  Nodes = {n1, n2}
  NoNode = NoNode
  Foreign = Foreign
  Unseen = Unseen
  None = None
  UseRange = TRUE
  Range = {200, 201}
  FlagVMID <- NoFlags
  Candidates = {n1, n2}
  Options = {"disks", "guest", "register"}
  KeepOnFailure = FALSE
  MaxAttempts = 5
  SaveOnFailure = FALSE
  DestroyNeedsNoHA = FALSE
  Refusable = {}
  Losable = {}
  MaxFaults = 0
  MaxCrashes = 0
  MaxForeign = 1
  ForeignLeaves = FALSE
  OperatorDeletes = FALSE
  Migration = FALSE
SYMMETRY Symmetry
INVARIANTS CollisionIsHarmless
CHECK_DEADLOCK FALSE
