CONSTANTS
  N = 4
  OS = 2
  NUp = 2
  PayloadSymbols = 10
  Starts <- MCStarts
  Powers <- MCPowers
  MaxItems = 340
  Room = 2
SPECIFICATION Spec
INVARIANTS
  TypeOK
  CountsTrue
  BothDecoded
  FirstUndisturbed
  RefusedCostsOne
  NeverRaised
PROPERTIES
  InputConsumed
CHECK_DEADLOCK FALSE
