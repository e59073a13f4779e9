CONSTANTS
  Path = {p}
  Inode = {i1, i2}
  NoInode = NoInode
  Char = {a, z}
  Nul = z
  Bad = Bad
  None = None
  MaxId = 4
  BufCap = 1
  MaxLen = 2
  Disks <- MCDisks
  Inputs <- MCInputs
SPECIFICATION Spec
INVARIANTS TypeOK NoStalePeek
PROPERTY ImplementsCursors
SYMMETRY InodesAlike
VIEW WithoutRes
