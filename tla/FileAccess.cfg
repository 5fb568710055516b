\* Every handler, with a full access table for the second path.
CONSTANTS
    t1 = t1  t2 = t2  p1 = p1  p2 = p2
    Ctl = Ctl  NoThread = NoThread
    Threads <- MCThreads
    Paths <- MCPaths
    MaxFiles = 1
    NChunks = 2
    ClientOps = {"READ", "WRITE", "FETCH", "STORE", "STREAM"}
    CtlOps = {"DELETE", "STOP"}
SPECIFICATION Spec
INVARIANT TypeOK
PROPERTY GateRefinement AsyncGateReleased
\* A storage node really hangs: see the lock-leak run.
CHECK_DEADLOCK FALSE
