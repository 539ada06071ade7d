\* STORED AS JSONFILE is written as STORED AS TEXTFILE.
CONSTANTS
    None = None
    n1 = n1
    n2 = n2
    Names = {n1, n2}
    Shapes = {"jsonfile"}
    Inputs <- Statements
    Ctx <- MCCtx
INIT Init
NEXT Next
\* One call renders one statement and returns: the behaviour stops there.
CHECK_DEADLOCK FALSE
INVARIANT StoredFormatsKept
