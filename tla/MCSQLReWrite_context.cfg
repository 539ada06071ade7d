\* A render context that maps a name is never applied by Ident.
CONSTANTS
    None = None
    n1 = n1
    n2 = n2
    Names = {n1, n2}
    Shapes = {}
    Inputs <- Statements
    Ctx <- MCCtxMapped
INIT Init
NEXT Next
\* One call renders one statement and returns: the behaviour stops there.
CHECK_DEADLOCK FALSE
INVARIANT ContextApplied
