\* Spec 4.5 and 7: every accepted write ends with one notice to the naming server.
CONSTANTS
    P = P
    B1 = B1
    B2 = B2
    Primary <- P
    Backups <- MCBackups
    NW = 3
    Mode <- MCMode
    NChunks = 2
    PathIndexed = TRUE
SPECIFICATION Spec
PROPERTIES
    WritesReported
