CONSTANTS
  N = 4
  OS = 2
  NUp = 2
  PayloadSymbols = 10
  Starts <- MCOverlaps
  Powers <- MCStronger
  MaxItems = 340
  Room = 2
SPECIFICATION Spec
INVARIANT LastSymbolKept
CHECK_DEADLOCK FALSE
