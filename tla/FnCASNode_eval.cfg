CONSTANTS
    Dims <- MCDims
    InputVals <- MCInputVals
    Consts <- MCConsts
    Ops <- MCOps
    Funcs <- MCFuncs
    MaxNodes = 4
    MaxStack = 12
    MaxSessions = 2
    MaxFns = 0
    StaleOperands = FALSE
    NoValue = NoValue
SPECIFICATION Spec
INVARIANT TypeOK OperandsPrecede CacheSound
PROPERTY EvalReturnsReference
