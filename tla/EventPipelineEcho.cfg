CONSTANTS
  NatsModes = {TRUE}
  Inbound <- MCTypes
  HubCap = 1
  MaxEvents = 2
  MaxWire = 1
SPECIFICATION Spec
INVARIANTS
  OnlyNeotronIngested
CHECK_DEADLOCK FALSE
