\* Spec 5: once the node is quiet, the backups hold the primary's file.
CONSTANTS
    P = P
    B1 = B1
    B2 = B2
    Primary <- P
    Backups <- MCBackups
    NW = 3
    Mode <- MCMode
    NChunks = 2
    PathIndexed = TRUE
SPECIFICATION Spec
PROPERTIES
    BackupsConverge
