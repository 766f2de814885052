SPECIFICATION Spec
CONSTANTS
    a1 = a1
    a2 = a2
    u1 = u1
    u2 = u2
    n1 = n1
    Accounts = {a1, a2}
    Urls = {u1}
    Names = {n1}
    Top = Top
    Absent = Absent
    Types = {"reedah"}
    InitialLists <- FirstLists
    MaxLogins = 1
    MaxChanges = 0
    MaxEvents = 0
    MaxRestarts = 0
PROPERTIES
    MergeIsComplete
CHECK_DEADLOCK FALSE
