SPECIFICATION Spec
CONSTANTS
  Machines = {m1, m2}
  IDs = {200, 201, 202}
  Nodes = {n1, n2}
  NoNode = NoNode
  Foreign = Foreign
  Unseen = Unseen
  None = None
  UseRange = TRUE
  Range = {200, 201}
  FlagVMID <- NoFlags
  Candidates = {n1, n2}
  Options = {"disks", "guest", "register"}
  KeepOnFailure = FALSE
  MaxAttempts = 2
  SaveOnFailure = FALSE
  DestroyNeedsNoHA = FALSE
  Refusable <- Survivable
  Losable = {"power", "kill"}
  MaxFaults = 3
  MaxCrashes = 1
  MaxForeign = 2
  ForeignLeaves = TRUE
  OperatorDeletes = FALSE
  Migration = FALSE
SYMMETRY Symmetry
INVARIANTS TypeOK WorksOnOwnVM InServiceIsReachable NoOrphan HAEntriesNameLiveVMs NotBootedHalfConfigured DownWhenDeleted
PROPERTIES ActsOnlyOnOwnVM ImplementsService
CHECK_DEADLOCK FALSE
