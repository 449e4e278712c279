SPECIFICATION Spec
CONSTANTS
    Dword <- MCDword
    Handle <- MCHandle
    Console <- MCConsole
    Std <- MCStd
    Buffer <- MCBuffer
    Size <- MCSize
    Status <- MCStatus
    FileLimit <- MCFileLimit
INVARIANT AsksForSome
\* The process ends.
CHECK_DEADLOCK FALSE
