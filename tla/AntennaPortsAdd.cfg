\* Three starts for an array of four: the list can be extended, cut short and refilled.
CONSTANTS
  LISTSIZE = 4
  Starts = {1, 2, 3}
  Ports <- MCPorts
  BuiltIn <- MCBuiltIn
SPECIFICATION PortsSpec
PROPERTY AddCreatesEntry
CHECK_DEADLOCK FALSE
