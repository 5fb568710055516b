---------------------------- MODULE MCFileAccess ----------------------------
(* Instantiation of FileAccess for TLC: two client connections, the        *)
(* naming-server command thread, two paths and a one-entry access table.   *)
EXTENDS FileAccess

CONSTANTS t1, t2, p1, p2

MCThreads == {t1, t2}
MCPaths == {p1, p2}
MCOnePath == {p1}
MCOneThread == {t1}
=============================================================================
