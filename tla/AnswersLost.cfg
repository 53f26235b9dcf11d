SPECIFICATION SyncSpec
CONSTANTS
    WebQuestions = {w1}
    Flushes = {f1}
    MaxRecords = 2
    MaxDrops = 0
INVARIANT AnswersNeverLost
CHECK_DEADLOCK FALSE
