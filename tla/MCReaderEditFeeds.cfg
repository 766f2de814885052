SPECIFICATION Spec
CONSTANTS
    i1 = i1
    f1 = f1
    Items = {}
    Feeds = {f1}
    MaxEdits = 3
CHECK_DEADLOCK FALSE
INVARIANTS
    SubscriptionsAsWanted
