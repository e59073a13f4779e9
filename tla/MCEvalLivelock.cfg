CONSTANTS
  Slots <- MCSlots
  SymbolNames <- MCSymbols
  Files <- MCFiles
  MaxStreams <- MCMaxStreams
  MaxInt = 3
  Sessions <- Plain
  Capacities <- Tight
SPECIFICATION FairSpec
PROPERTY Ends
