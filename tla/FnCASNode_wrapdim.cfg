CONSTANTS
    Dims <- MCDims
    InputVals <- MCOneInput
    Consts <- MCConsts
    Ops <- MCOps
    Funcs <- MCFuncs
    MaxNodes = 3
    MaxStack = 6
    MaxSessions = 1
    MaxFns = 1
    StaleOperands = FALSE
    NoValue = NoValue
SPECIFICATION Spec
PROPERTY WrapperKeepsRecordedDim
