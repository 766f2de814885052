SPECIFICATION Spec
CONSTANTS
    j1 = j1
    j2 = j2
    j3 = j3
    j4 = j4
    loop = loop
    worker = worker
    nil = nil
    Jobs = {j1, j2, j3, j4}
    Threads = {loop, worker}
    Main = loop
    Nil = nil
CHECK_DEADLOCK FALSE
INVARIANTS
    CancelFindsEveryJob
