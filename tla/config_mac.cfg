SPECIFICATION Spec
CONSTANTS
  MaxSlot = 4
  MaxNet = 2
  MaxNetRead = 1
  Forms <- NICForms
  Templates <- TemplateConfigs
  MaxFaults = 0
INVARIANTS MACIsFound
CHECK_DEADLOCK FALSE
