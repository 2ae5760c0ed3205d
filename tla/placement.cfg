SPECIFICATION Spec
CONSTANTS
  Machines = {m1}
  IDs <- Templates
  Nodes = {1, 2}
  a = a
  b = b
  Tags = {a, b}
  Typed <- TypedTags
  TagOf <- Normalized
  Blank = Blank
  Invalid = Invalid
  Forms <- SomeForms
  Clusters <- SomeClusters
  MaxFree = 1
  MaxAttempts = 2
  MaxChanges = 3
INVARIANTS TypeOK ImageOfItsTime RecordedNodeIsHost
CHECK_DEADLOCK FALSE
