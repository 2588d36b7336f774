SPECIFICATION Spec
CONSTANTS
    Chunks = 2
    Outputs = 1
    MaxWinch = 1
    Window = 2
    ExecMixes <- MCExecMixes
INVARIANT ExitCodeReturned
CHECK_DEADLOCK FALSE
