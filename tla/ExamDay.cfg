SPECIFICATION DaySpec
CONSTANTS
    Terminals = {t1}
    Rolls = {r1}
    Roster = {r1}
    HQStatuses = {"ENROLLED"}
    Envelopes = {e1, e2}
    Reqs = {q1, q2}
    Admins = {a1, a2}
    NoTerminal = NoTerminal
    NoRoll = NoRoll
    NoEnvelope = NoEnvelope
SYMMETRY Symmetry
CONSTRAINT Calm
INVARIANTS
    NothingLeavesEarly
    SyncedIsPrefix
    BundlesAreRuns
    AnchorIsLedgerPrefix
