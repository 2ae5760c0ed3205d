SPECIFICATION Spec
CONSTANTS
  Machines = {m1}
  IDs = {200}
  Nodes = {n1, n2}
  NoNode = NoNode
  Foreign = Foreign
  Unseen = Unseen
  None = None
  UseRange = FALSE
  Range = {}
  FlagVMID <- FirstID
  Candidates = {n1, n2}
  Options = {"disks", "guest", "register"}
  KeepOnFailure = FALSE
  MaxAttempts = 2
  SaveOnFailure = FALSE
  DestroyNeedsNoHA = FALSE
  Refusable = {}
  Losable = {}
  MaxFaults = 0
  MaxCrashes = 0
  MaxForeign = 1
  ForeignLeaves = TRUE
  OperatorDeletes = FALSE
  Migration = FALSE
SYMMETRY Symmetry
PROPERTIES ActsOnlyOnOwnVM
CHECK_DEADLOCK FALSE
