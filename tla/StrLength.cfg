SPECIFICATION Spec
CONSTANTS
    Byte <- MCByte
    NUL = "NUL"
    Region <- MCRegion
INVARIANTS
    TypeOK
    ResultIsLength
    NeverFaults
PROPERTY Terminates
