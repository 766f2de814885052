SPECIFICATION FeedListSpec
CONSTANTS
  r = r
  f = f
  a = a
  s = s
  b = b
  n = n
  v = v
  g = g
  h = h
  NoNode = NoNode
  NoId = NoId
  Root = r
  Nodes <- MCNodes
  Kind <- MCKind
  InitialChildren <- MCChildren
  InitialDb <- MCDb
  CacheLimit <- MCCacheLimit
  Downloads <- MCDownloads
  MaxItem = 5
  MaxSteps = 3
CHECK_DEADLOCK FALSE
INVARIANTS
    CountersHold
PROPERTIES
    RecountsHappen
    LocalItemsSurvive
    MarkedAllRead
