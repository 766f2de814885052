SPECIFICATION Spec
CONSTANTS
  root = root
  folder1 = folder1
  folder2 = folder2
  folder3 = folder3
  feed1 = feed1
  feed2 = feed2
  bin1 = bin1
  search1 = search1
  NoNode = NoNode
  Root = root
  Nodes <- MCNodes
  Kind <- MCKind
  InitialChildren <- MCChildren
  InitialOpen <- MCOpen
  InitialLast = feed1
  InitialSource <- MCSource
  Entries <- MCEntries
  Minutes = {90}
  Preference = 1440
  MaxSteps = 3
CHECK_DEADLOCK FALSE
INVARIANTS
    RowsMatchTree
    SelectionAgrees
    ListComesBack
