SPECIFICATION Spec
CONSTANTS
    Views <- MCViews
    Urls = {"a", "b", "d"}
    Downloads = {"d"}
    HelpUrl = "a"
    Nodes = {"n"}
    Items = {"i"}
    None = None
    MaxOps = 4
    MaxProcesses = 1
CHECK_DEADLOCK FALSE
INVARIANTS
    BarsMatchPage
    PagesAreKnown
PROPERTIES
    StepsKeepLocations
