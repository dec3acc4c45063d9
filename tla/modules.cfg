CONSTANTS
  Module = {1, 2, 3}
  MaxEdges = 4
  MaxEntries = 2
  Entries <- MCEntries
  ImportLists <- MCImportLists
SPECIFICATION GraphSpec
INVARIANTS
  TypeOK
  TopologicalOrder
  CycleIsReal
  DepthIsLongest
PROPERTIES
  OrderQuestions
  BatchesReady
  ImplementsWalk
  WalkEnds
