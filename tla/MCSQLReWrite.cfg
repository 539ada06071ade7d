\* The Render Pass over every statement kind and every expression form the
\* renderer fills in, with the known defect shapes off.
CONSTANTS
    None = None
    n1 = n1
    n2 = n2
    Names = {n1, n2}
    Shapes = {}
    Inputs <- Statements
    Ctx <- MCCtx
INIT Init
NEXT Next
\* One call renders one statement and returns: the behaviour stops there.
CHECK_DEADLOCK FALSE
INVARIANTS
    TypeOK
    DelimitersBalanced
    LiteralsTerminated
    WordsSeparated
    ReparsesAsSameKind
    FlagsRoundTrip
    SingleSpaced
    NoEmptyDelimiters
    ClauseOrder
    RenderTotal
