SPECIFICATION Spec
CONSTANTS
    Views <- MCViews
    Urls = {"a", "b", "d"}
    Downloads = {"d"}
    HelpUrl = "a"
    Nodes = {"n", "m"}
    Items = {"i"}
    None = None
    MaxOps = 4
    MaxProcesses = 1
INVARIANT SelectionIsShown
CHECK_DEADLOCK FALSE
