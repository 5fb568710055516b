-------------------------- MODULE MCClientSession --------------------------
(* Model values for ClientSession: two storage nodes, a path held by n1    *)
(* and one the index does not hold.                                        *)
EXTENDS ClientSession

CONSTANTS n1, n2, a, b

MCNodes == {n1, n2}
MCPaths == {a, b}
MCWhere0 == (a :> n1) @@ (b :> NoNode)
=============================================================================
