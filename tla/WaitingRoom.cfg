SPECIFICATION TerminalFairSpec
CONSTANTS
    NumItems = 1
    Options = {a}
    Blank = blank
    NoReceipt = noReceipt
    MaxRevisions = 0
    MaxMishaps = 1
PROPERTY WaitingRoomAdvances
CHECK_DEADLOCK FALSE
