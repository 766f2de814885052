SPECIFICATION Spec
CONSTANTS
    a1 = a1
    a2 = a2
    u1 = u1
    u2 = u2
    n1 = n1
    Accounts = {a1}
    Urls = {u1, u2}
    Names = {n1}
    Top = Top
    Absent = Absent
    Types = {"google", "reedah", "ttrss", "opml"}
    InitialLists <- FirstLists
    MaxLogins = 2
    MaxChanges = 1
    MaxEvents = 1
    MaxRestarts = 1
CHECK_DEADLOCK FALSE
INVARIANTS
    IdsAreStored
PROPERTIES
    Settles
    LoginsEnd
    ConvertedIsLeftAlone
