CONSTANTS
  N = 3
  Value <- MCValue
  FREE_LIST_END = 99
  Children <- MCChildren
  BATCH = 2
  MaxRoots = 2
SPECIFICATION FairGCSpec
INVARIANTS GCTypeOK TriColour StackDistinct MarkingExact
PROPERTIES SweepExact ImplementsHeap CollectTerminates
