SPECIFICATION Spec
CONSTANTS
    WebQuestions = {w1, w2}
    Flushes = {f1, f2}
    MaxRecords = 2
    MaxDrops = 1
    NumQuestions = 2
    Sections = {"s1", "s2"}
    SectionOf <- MCSectionOf
    Letters = {"A"}
    NoLetter = noLetter
    NumChecks = 2
    Duration = 2
    MaxReloads = 1
    Tickets = {ta, tb}
    NoTicket = noTicket
    Scans = {x1, x2}
    MaxTimers = 1
    MaxScans = 3
    MaxPresses = 2
    Calls = {x1, x2}
    MaxFailures = 1
    ea = ea
    es = es
    Accounts = {ea, es}
    NoAccount = noAccount
    RoleOf <- MCRoleOf
    Portals = {"ADMIN", "INVIGILATOR", "CANDIDATE"}
    MaxCodes = 2
    MaxTries = 1
    MaxVisits = 1
    Officials = {o1, o2}
    Threshold = 2
    MaxGens = 2
    MaxReads = 1
    Directors = {a1, a2}
    Me = a1
    NoDirector = noDirector
    Emergencies = {"ABORT_EXAM", "RESUME_EXAM"}
    MaxRequests = 2
    Drafts = {d1, d2, d3}
    Untouched = {d3}
    MaxTasks = 2
    MaxAttacks = 1
    MaxGaps = 1
CONSTRAINTS
    LostWithOne
    Quiet
    Prompt
INVARIANTS
    MarkedIsKept
    StaffSessionIsVerified
    OpenedByQuorum
    ResolvedOnce
    ChangedByTwo
PROPERTIES
    PendingIsFlushed
    SessionEnds
    VerificationEnds
    AlertIsSeen
    ProcessingEnds
CHECK_DEADLOCK FALSE
