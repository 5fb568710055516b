\* Three storage nodes (n1 reconnecting once) registering and disconnecting
\* while clients resolve and delete d/f and d/f2.
CONSTANTS
    n1 = n1  n2 = n2  n3 = n3  f1 = f1  f2 = f2  f3 = f3
    NoNode = NoNode
    Nodes <- MCNodes
    Paths <- MCFiles
    FDs <- MCFDs
    Disk0 <- MCFilesDisk0
    CacheSize = 1
    Commands = {"READ", "DELETE"}
    MaxSessions <- MCSessions
SPECIFICATION Spec
SYMMETRY FdSymmetry
INVARIANT TypeOK
PROPERTY DeleteHides
