\* Named constraints: CONSTRAINT <name> is a fact of the SQL text the pass never analyses.
CONSTANTS
    None = None
    c1 = c1
    c2 = c2
    Named = TRUE
    MaxPc = 5
    Roots <- MCRoots
    Nodes <- MCNodes
SPECIFICATION Spec
\* A call returns to its caller: the behaviour stops there.
CHECK_DEADLOCK FALSE
PROPERTY
    AbstractSpec
