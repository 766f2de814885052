SPECIFICATION FairSpec
CONSTANTS
    j1 = j1
    j2 = j2
    o1 = o1
    o2 = o2
    Jobs = {j1}
    Owners = {o1}
    Flags <- TwoFlags
    MaxThreads = 1
    MaxRounds = 0
PROPERTIES
    ExecutionFinishesJob
