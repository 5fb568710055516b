\* Clients create d/g under d and read while the nodes register and disconnect
\* (once each); a two-entry cache that evicts.
CONSTANTS
    n1 = n1  n2 = n2  n3 = n3  f1 = f1  f2 = f2  f3 = f3
    NoNode = NoNode
    Nodes <- MCNodes
    Paths <- MCCreatePaths
    FDs <- MCFDs
    Disk0 <- MCCreateDisk0
    CacheSize = 2
    Commands = {"READ", "CREATE"}
    MaxSessions <- MCOneSession
SPECIFICATION Spec
SYMMETRY FdSymmetry
INVARIANT TypeOK
PROPERTY CreateResolves
