SPECIFICATION Spec
CONSTANTS
    BufferSize = 2
    WindowSizeBytes = 7
    WindowSize = 4
    OutputFrequency = 2
    MaxNoSends = 3
    MaxWriteTime = 2
    MaxTime = 16
    SizeModulus <- MCSizeModulus
INVARIANT ReportWellFormed SInv
PROPERTY TrimKeepsWindow
