CONSTANTS
    Dims <- MCDims
    InputVals <- MCOneInput
    Consts <- MCConsts
    Ops <- MCOps
    Funcs <- MCFuncs
    MaxNodes = 4
    MaxStack = 12
    MaxSessions = 2
    MaxFns = 0
    StaleOperands = TRUE
    NoValue = NoValue
SPECIFICATION Spec
INVARIANT OperandsPrecede
