SPECIFICATION FairSpec
CONSTANTS
  Forms <- SomeForms
  Images <- SomeImages
  Leases = {1, 2}
  BridgeAddr = 3
  MaxReboots = 1
  MaxLeases = 2
INVARIANTS TypeOK AddressOfNIC HandedOverReady StorageMounted
PROPERTIES SetupEnds
CHECK_DEADLOCK FALSE
