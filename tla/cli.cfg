SPECIFICATION Spec
CONSTANTS
    Lines <- MCLines
    MaxHistorySize = 2
    MaxEdits = 5
INVARIANTS
    TypeOK
    DraftKept
    CallsHaveDatabase
    TerminalRestored
    ClosedAtExit
CHECK_DEADLOCK FALSE
