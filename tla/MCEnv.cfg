CONSTANTS
  Name = {"t", "x"}
  Builtins = {"t"}
  Data <- MCData
  Trees <- MCTrees
  TreeDepth = 2
  Objects <- MCObjects
  EnvParams = {"#ignore", "x"}
  Cells = 7
  MaxEnvs = 4
SPECIFICATION EnvSpec
INVARIANTS EnvTypeOK GroundSealed LookupRight DefineMatches
