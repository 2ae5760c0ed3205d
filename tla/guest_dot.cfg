SPECIFICATION Spec
CONSTANTS
  Forms <- DotForms
  Images <- DotImages
  Leases = {1, 2}
  BridgeAddr = 3
  MaxReboots = 1
  MaxLeases = 2
INVARIANTS StorageMounted
CHECK_DEADLOCK FALSE
