CONSTANTS
    t1 = t1  t2 = t2  p1 = p1  p2 = p2
    Ctl = Ctl  NoThread = NoThread
    Threads <- MCThreads
    Paths <- MCOnePath
    MaxFiles = 1
    NChunks = 1
    ClientOps = {"READ", "WRITE", "STREAM"}
    CtlOps = {}
SPECIFICATION Spec
INVARIANT ReadsFailFast
CHECK_DEADLOCK FALSE
