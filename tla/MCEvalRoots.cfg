CONSTANTS
  Slots <- MCSlots
  SymbolNames <- MCSymbols
  Files <- MCFiles
  MaxStreams <- MCMaxStreams
  MaxInt = 3
  Sessions <- Inline
  Capacities <- Ample
SPECIFICATION Spec
PROPERTY RootsSpanEval
