SPECIFICATION Spec
CONSTANTS
    Entries = {e1, e2}
    Txs = {x1, x2, x3}
    MaxSeq = 5
    Keys = {n1, n2}
    NoKey = noKey
    MaxRecords = 3
    MaxDamage = 1
    MaxCohort = 5
    Claims = {"B", "C"}
    Pasted <- MCPasted
    MaxItems = 5
    Tabs = {"t1", "t2", "t3"}
    KindOf <- MCKindOf
    CentreOf <- MCCentreOf
    StateOf <- MCStateOf
    MaxRows = 2
    MaxIssues = 2
    Visitors = {"v1", "v2"}
    Mailboxes = {"ma", "mb"}
    NoMailbox = "none"
    ReadBy <- MCReadBy
    MaxHourly = 2
    MaxMails = 2
    MaxWrong = 1
    Admins = {a1, a2}
    Enrolments = {k1}
    NoEnrolment = noEnrolment
    MaxDecisions = 3
    MaxPending = 1
    Handlers = {h1, h2}
    Hashes = {"p1", "p2"}
    NoHash = "none"
    MaxSends = 2
SYMMETRY Symmetry
CONSTRAINTS
    FewTouched
    OneReceipt
    OneForm
    DeskLast
    AloneWhenLate
    OneBroken
    OnePage
    PaperFirst
INVARIANTS
    OnlyForksBreak
    TamperShows
    VaultsOpenWhatWasSealed
    VerdictFits
    OpensWhatWasSealed
    RollsDistinctInSequence
    EnquiryWasVerified
    StatusIsLastDecision
    ConfirmedStands
CHECK_DEADLOCK FALSE
