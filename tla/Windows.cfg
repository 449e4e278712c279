SPECIFICATION FairSpec
CONSTANTS
    Dword <- MCDword
    Handle <- MCHandle
    Console <- MCConsole
    Std <- MCStd
    Buffer <- MCBuffer
    Size <- MCSize
    Status <- MCStatus
    FileLimit <- MCFileLimit
INVARIANTS TypeOK RequestIsCall
PROPERTIES Implements CallsEnd
\* The process ends.
CHECK_DEADLOCK FALSE
