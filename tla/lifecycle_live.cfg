SPECIFICATION FairSpec
CONSTANTS
  Machines = {m1}
  IDs = {200, 201}
  Nodes = {n1, n2}
  NoNode = NoNode
  Foreign = Foreign
  Unseen = Unseen
  None = None
  UseRange = TRUE
  Range = {200, 201}
  FlagVMID <- NoFlags
  Candidates = {n1, n2}
  Options = {"disks", "guest", "register"}
  KeepOnFailure = TRUE
  MaxAttempts = 5
  SaveOnFailure = TRUE
  DestroyNeedsNoHA = TRUE
  Refusable <- Calls
  Losable = {"start", "register", "cleanup", "unregister", "kill", "power", "delete"}
  MaxFaults = 3
  MaxCrashes = 1
  MaxForeign = 2
  ForeignLeaves = TRUE
  OperatorDeletes = TRUE
  Migration = TRUE
PROPERTIES CreateEnds RemoveEnds
CHECK_DEADLOCK FALSE
