CONSTANTS
  Slots <- MCSlots
  SymbolNames <- MCSymbols
  Files <- MCFiles
  MaxStreams <- MCMaxStreams
  MaxInt = 3
  Sessions <- All
  Capacities <- Tight
SPECIFICATION Spec
INVARIANT RootDiscipline
PROPERTIES RootedSurvives ImplementsRoots
