SPECIFICATION Spec
CONSTANTS
  Feed = Feed
  Folder = Folder
  SearchFolder = SearchFolder
  NoNode = NoNode
  g = g
  h = h
  k = k
  Items = {1, 2, 3, 4}
  Initially = {1, 2, 3}
  Guid <- MCGuid
  Data <- MCData
  Settings <- MCSettings
  FirstSettings <- Unread
  Batch = 1
  MaxRules = 2
  HideOnly = FALSE
  MaxSteps = 5
CHECK_DEADLOCK FALSE
INVARIANTS
    FolderIsExact
    FeedListedCompletely
PROPERTIES
    RebuildEnds
