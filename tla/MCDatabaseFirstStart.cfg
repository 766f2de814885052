SPECIFICATION Spec
CONSTANTS
    Ids <- MCIds
    NodeOf <- MCNodeOf
    Folder = "folder"
    Comments = {3}
    Matching = {1, 4}
    InitialVersions = {0}
    InitialItems = {1, 2, 3}
    InitialNodes = {"feed", "folder"}
    FeedMetadata <- MCFeedMetadata
    MaxSteps = 4
    MaxCrashes = 2
CHECK_DEADLOCK FALSE
INVARIANTS
    FatalIsUnsupported
