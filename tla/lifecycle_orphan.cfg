SPECIFICATION Spec
CONSTANTS
  Machines = {m1}
  IDs = {200}
  Nodes = {n1, n2}
  NoNode = NoNode
  Foreign = Foreign
  Unseen = Unseen
  None = None
  UseRange = TRUE
  Range = {200}
  FlagVMID <- NoFlags
  Candidates = {n1, n2}
  Options = {"disks", "guest", "register"}
  KeepOnFailure = FALSE
  MaxAttempts = 2
  SaveOnFailure = FALSE
  DestroyNeedsNoHA = FALSE
  Refusable = {"guest"}
  Losable = {}
  MaxFaults = 1
  MaxCrashes = 0
  MaxForeign = 0
  ForeignLeaves = TRUE
  OperatorDeletes = FALSE
  Migration = FALSE
SYMMETRY Symmetry
INVARIANTS NoOrphan
CHECK_DEADLOCK FALSE
