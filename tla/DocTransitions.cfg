\* A transition requested by the exit callback of another one.
CONSTANTS
  TimeMod = 4
  Timeouts <- MCTimeouts
  Delays <- MCDelays
  MaxDepth <- MCMaxDepth
SPECIFICATION MachineSpec
PROPERTIES
  TransitionsListed
