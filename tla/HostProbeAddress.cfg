SPECIFICATION ProbeSpec
CONSTANTS
  Pids = {11, 12}
  Dests <- MCDests
  ExitNodes <- MCExitNodes
  TorPorts = {9001}
  EgressModes = {TRUE, FALSE}
  RingSlots = 2
  MaxConnects = 3
INVARIANT AddressReported
CHECK_DEADLOCK FALSE
