SPECIFICATION Spec
CONSTANTS
    Register <- MCRegister
    Cell <- MCCell
    FrameSP <- MCFrameSP
    Value <- MCValue
    Zero = 0
    Live = 50
    Junk = 99
    Unknown = Unknown
    Argument <- MCArgument
    Answer <- MCAnswer
    Build <- LeafBuild
INVARIANT BeliefsHold
