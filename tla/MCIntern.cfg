CONSTANTS
  N = 9
  Char = {"a", "b"}
  Names <- MCNames
  MaxHeld = 1
SPECIFICATION InternSpec
ACTION_CONSTRAINT LowestFirst
INVARIANTS InternTypeOK SymbolsForever SymbolsUnique
PROPERTIES GarbageOnly
