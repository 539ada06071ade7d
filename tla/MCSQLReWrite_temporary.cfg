\* CREATE TEMPORARY TABLE is written without TEMPORARY, and ROLLBACK AND
\* CHAIN TO SAVEPOINT without AND CHAIN.
CONSTANTS
    None = None
    n1 = n1
    n2 = n2
    Names = {n1, n2}
    Shapes = {"temporary", "rollback_chain"}
    Inputs <- Statements
    Ctx <- MCCtx
INIT Init
NEXT Next
\* One call renders one statement and returns: the behaviour stops there.
CHECK_DEADLOCK FALSE
INVARIANT FlagsRoundTrip
