\* Async then sync write of one indexed path, primary with two backups.
CONSTANTS
    P = P
    B1 = B1
    B2 = B2
    Primary <- P
    Backups <- MCBackups
    NW = 3
    Mode <- MCMode
    NChunks = 2
    PathIndexed = TRUE
SPECIFICATION Spec
INVARIANTS
    TypeOK
    FinalNoticeOnce
PROPERTIES
    TaskEndsNotified
