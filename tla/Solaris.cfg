SPECIFICATION Spec
CONSTANTS
    Modulus <- MCModulus
    Target <- MCSolaris
    FlagsErrors <- MCFlagsErrors
    KernelPads <- MCKernelPads
    Fd <- MCFd
    AnyFd <- MCAnyFd
    Buffer <- MCBuffer
    Offset <- MCOffset
    Errno <- MCErrno
    Page <- MCPage
    Status <- MCStatus
    FileLimit <- MCFileLimit
CHECK_DEADLOCK FALSE
INVARIANT FailureReported
