\* Spec 7: the client connects to a node the naming server named for that path.
CONSTANTS
    n1 = n1  n2 = n2  a = a  b = b
    NoNode = NoNode
    Nodes <- MCNodes
    Paths <- MCPaths
    Where0 <- MCWhere0
    Commands = {"READ", "WRITE", "DELETE", "CREATE_F", "FOO"}
    MaxReq = 3
SPECIFICATION Spec
INVARIANT ContactsNamedNode
