SPECIFICATION SeatSpec
CONSTANTS
    Terminals = {t1, t2}
    Rolls = {r1, r2}
    Roster = {r1}
    HQStatuses = {}
    Envelopes = {e1, e2}
    Reqs = {q1, q2}
    NoTerminal = NoTerminal
    NoRoll = NoRoll
    NoEnvelope = NoEnvelope
SYMMETRY Symmetry
INVARIANTS
    ChainIntact
    NoDoubleSeat
    AttendedIsBound
    LedgerMatchesTrail
    ReceiptsHold
PROPERTY
    LedgerIsAppendOnly
