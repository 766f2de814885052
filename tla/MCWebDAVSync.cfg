SPECIFICATION Spec
CONSTANTS
  c1 = c1
  c2 = c2
  feed1 = feed1
  folder1 = folder1
  Top = Top
  Absent = Absent
  NoIndex = NoIndex
  Clients = {c1, c2}
  Feeds = {feed1}
  Folders = {folder1}
  Owner = c1
  Items = {i}
  InitialTrees <- MCInitialTrees
  MaxClock = 2
  MaxOps = 1
  MaxPolls = 1
  MaxJobs = 2
  MaxEvents = 1
  MaxRestarts = 1
CHECK_DEADLOCK FALSE
INVARIANTS
    MergesGoOn
    MarksAreUploaded
PROPERTIES
    NothingMissing
