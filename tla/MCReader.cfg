CONSTANTS
  MaxInt = 11
  Inputs <- MCInputs
  Plenty = 200
SPECIFICATION ReaderSpec
INVARIANTS ReaderTypeOK ParseRight ReadsTheText WritesBack
CHECK_DEADLOCK FALSE
