CONSTANTS
  N = 5
  Value <- MCValue
  Written <- MCWritten
  Payload <- MCPayload
  MaxDepth = 6
  FREE_LIST_END = 99
SPECIFICATION TreeSpec
INVARIANTS TreeTypeOK Confined DeletesTrees CopiesTrees AbortsOnCycles
VIEW Unobserved
