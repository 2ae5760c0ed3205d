SPECIFICATION Spec
CONSTANTS
  MaxSlot = 4
  MaxNet = 2
  MaxNetRead = 1
  Forms <- AllForms
  Templates <- TemplateConfigs
  MaxFaults = 1
INVARIANTS TypeOK BootDiskAsAsked DisksAttached NothingOverwritten DiscoveryKnowsNIC
PROPERTIES GivesUpOnlyIfFull
CHECK_DEADLOCK FALSE
