SPECIFICATION Spec
CONSTANTS
  Zones = 2
  MaxCommands = 2
  MaxRequests = 2
  MaxFaults = 0
INVARIANT DefaultActionIsScheduled
