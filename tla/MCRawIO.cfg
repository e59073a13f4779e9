CONSTANTS
  Path = {p}
  Inode = {i}
  NoInode = NoInode
  Char = {a, z}
  Nul = z
  Bad = Bad
  None = None
  NoCall = NoCall
  MaxId = 4
  BufCap = 2
  MaxLen = 2
  MaxRetries = 1
  Modes <- MCModes
  Disks <- MCDisks
  Inputs <- MCInputs
SPECIFICATION RawSpec
INVARIANTS ReadsInOrder NumbersLive
VIEW WithoutRes
