\* CREATE EXTERNAL TABLE ... STORED AS INPUTFORMAT ... OUTPUTFORMAT ...
\* unwraps the absent file_format and panics.
CONSTANTS
    None = None
    n1 = n1
    n2 = n2
    Names = {n1, n2}
    Shapes = {"external_iof"}
    Inputs <- Statements
    Ctx <- MCCtx
INIT Init
NEXT Next
\* One call renders one statement and returns: the behaviour stops there.
CHECK_DEADLOCK FALSE
INVARIANT RenderTotal
