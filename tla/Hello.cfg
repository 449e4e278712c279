SPECIFICATION FairSpec
CONSTANTS
    Message <- MCMessage
    FileLimit <- MCFileLimit
    Target <- MCTarget
    FlagsErrors <- MCFlagsErrors
    KernelPads <- MCKernelPads
    Errno <- MCErrno
    Modulus <- MCModulus
    Handle <- MCHandle
    Console <- MCConsole
    Std <- MCStd
    Dword <- MCDword
INVARIANT TypeOK
PROPERTIES Implements Ends
\* The process ends.
CHECK_DEADLOCK FALSE
