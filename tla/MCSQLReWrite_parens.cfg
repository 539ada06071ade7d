\* SKEWED BY closes its column list with two parentheses, and EXECUTE closes
\* its parameter list with "()": either leaves the text unbalanced.
CONSTANTS
    None = None
    n1 = n1
    n2 = n2
    Names = {n1, n2}
    Shapes = {"skewed", "execute_params"}
    Inputs <- Statements
    Ctx <- MCCtx
INIT Init
NEXT Next
\* One call renders one statement and returns: the behaviour stops there.
CHECK_DEADLOCK FALSE
INVARIANT DelimitersBalanced
