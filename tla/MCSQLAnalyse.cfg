\* The Analysis Pass over every DDL node variant, unnamed constraints.
CONSTANTS
    None = None
    c1 = c1
    c2 = c2
    Named = FALSE
    MaxPc = 5
    Roots <- MCRoots
    Nodes <- MCNodes
SPECIFICATION Spec
\* A call returns to its caller: the behaviour stops there.
CHECK_DEADLOCK FALSE
INVARIANT TypeOK
PROPERTY AbstractSpec
