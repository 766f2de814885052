SPECIFICATION FairSpec
CONSTANTS
    i1 = i1
    f1 = f1
    Items = {i1}
    Feeds = {f1}
    MaxEdits = 2
CHECK_DEADLOCK FALSE
INVARIANTS
    EditsAreSentOnce
    ItemsAsWanted
PROPERTIES
    EditsAreSent
    StatusAgrees
