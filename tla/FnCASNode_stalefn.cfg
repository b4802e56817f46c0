CONSTANTS
    Dims <- MCDims
    InputVals <- MCOneInput
    Consts <- MCConsts
    Ops <- MCOps
    Funcs <- MCFuncs
    MaxNodes = 4
    MaxStack = 12
    MaxSessions = 2
    MaxFns = 1
    StaleOperands = FALSE
    NoValue = NoValue
SPECIFICATION Spec
PROPERTY WrapperEvaluatesOwnGraph
