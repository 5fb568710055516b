CONSTANTS
    t1 = t1  t2 = t2  p1 = p1  p2 = p2
    Ctl = Ctl  NoThread = NoThread
    Threads <- MCOneThread
    Paths <- MCOnePath
    MaxFiles = 1
    NChunks = 1
    ClientOps = {"READ", "FETCH", "STORE"}
    CtlOps = {"DELETE"}
SPECIFICATION Spec
PROPERTY MutexesReleased
CHECK_DEADLOCK FALSE
