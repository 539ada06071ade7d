\* A LOCATION, SERDE or path literal holding a quote, or a map key holding
\* a double quote, is written unescaped and ends its quoted text early.
CONSTANTS
    None = None
    n1 = n1
    n2 = n2
    Names = {n1, n2}
    Shapes = {"quoted_location", "map_key"}
    Inputs <- Statements
    Ctx <- MCCtx
INIT Init
NEXT Next
\* One call renders one statement and returns: the behaviour stops there.
CHECK_DEADLOCK FALSE
INVARIANT LiteralsTerminated
