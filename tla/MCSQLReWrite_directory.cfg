\* INSERT DIRECTORY ... STORED AS fmt writes no space before the query.
CONSTANTS
    None = None
    n1 = n1
    n2 = n2
    Names = {n1, n2}
    Shapes = {"directory_format"}
    Inputs <- Statements
    Ctx <- MCCtx
INIT Init
NEXT Next
\* One call renders one statement and returns: the behaviour stops there.
CHECK_DEADLOCK FALSE
INVARIANT WordsSeparated
