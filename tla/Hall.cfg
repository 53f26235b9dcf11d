SPECIFICATION Spec
CONSTANTS
    NumItems = 2
    Options = {a, b}
    Blank = blank
    NoReceipt = noReceipt
    MaxRevisions = 1
    MaxMishaps = 1
    DeskRolls = {r1}
    DeskSeats = {s1}
    Vacant = vacant
    Runs = {q1, q2}
    MaxPolls = 1
    MaxFailures = 1
    Applicants = {p1, p2}
    Nobody = nobody
    MaxEdgeChanges = 1
    MaxCodes = 1
    MaxCalls = 1
    MaxOutages = 1
    Terminals = {t1}
    Rolls = {k1}
    Roster = {k1}
    HQStatuses = {"ENROLLED"}
    Envelopes = {e1, e2}
    Reqs = {x1, x2}
    NoTerminal = noTerminal
    NoRoll = noRoll
    NoEnvelope = noEnvelope
CONSTRAINT Tidy
INVARIANTS
    ReceiptVouches
    SealedDuringExam
    SeatedAreCheckedIn
PROPERTIES
    CalmSeatAdvances
    ConsoleCatchesUp
    PortalCatchesUp
    RequestsFinish
CHECK_DEADLOCK FALSE
