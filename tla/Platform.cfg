SPECIFICATION FairSpec
CONSTANTS
    None = None
    Config <- MCConfig
    Working <- MCWorking
CHECK_DEADLOCK FALSE
INVARIANTS
    TypeOK
    TargetAgrees
    Unambiguous
    EntryIsStart
    NotesTile
    NothingFails
PROPERTY RunsToExit
