CONSTANTS
  Slots <- MCSlots
  SymbolNames <- MCSymbols
  Files <- MCFiles
  MaxStreams <- MCMaxStreams
  MaxInt = 3
  Sessions <- Pure
  Capacities <- Ample
SPECIFICATION FairSpec
INVARIANTS EvalTypeOK 
PROPERTIES Ends
