\* One client session of three requests against a naming server whose index
\* holds a at n1 and not b.
CONSTANTS
    n1 = n1  n2 = n2  a = a  b = b
    NoNode = NoNode
    Nodes <- MCNodes
    Paths <- MCPaths
    Where0 <- MCWhere0
    Commands = {"READ", "WRITE", "DELETE", "CREATE_F", "FOO"}
    MaxReq = 3
SPECIFICATION Spec
INVARIANTS
    TypeOK
    AddressesFromNs
