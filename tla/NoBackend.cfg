SPECIFICATION Spec
CONSTANTS
    None = None
    Config <- CheatSheet
    Working <- SheetWorking
CHECK_DEADLOCK FALSE
INVARIANT OneBackend
