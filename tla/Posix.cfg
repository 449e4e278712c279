SPECIFICATION FairSpec
CONSTANTS
    Modulus <- MCModulus
    Target <- MCTarget
    FlagsErrors <- MCFlagsErrors
    KernelPads <- MCKernelPads
    Fd <- MCFd
    AnyFd <- MCAnyFd
    Buffer <- MCBuffer
    Offset <- MCOffset
    Errno <- MCErrno
    Page <- MCPage
    Status <- MCStatus
    FileLimit <- MCFileLimit
CHECK_DEADLOCK FALSE
INVARIANTS
    TypeOK
    RequestIsCall
    MappingDelivered
    NegatedErrorReported
PROPERTIES
    Implements
    CallsEnd
