SPECIFICATION Spec
CONSTANTS
  p1 = p1
  p2 = p2
  m1 = m1
  m2 = m2
  m3 = m3
  Pools = {p1, p2}
  Machines = {m1, m2, m3}
  PoolOf <- TwoPools
  MinVMID = 3
  MaxVMID = 6
  MaxAddr = 15
  MinSubnet = 4
  MaxSubnet = 8
  Offered <- AnyForm
  Foreign = Foreign
  None = None
  Unset = Unset
  ForeignIDs = {3}
  MaxSaves = 3
SYMMETRY Symmetry
INVARIANTS TypeOK AddressUsable CollisionNeedsShift
