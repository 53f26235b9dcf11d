SPECIFICATION DaySpec
CONSTANTS
    Terminals = {t1, t2}
    Rolls = {r1, r2}
    Roster = {r1, r2}
    HQStatuses = {"ENROLLED"}
    Envelopes = {e1, e2}
    Reqs = {q1}
    Admins = {a1}
    NoTerminal = NoTerminal
    NoRoll = NoRoll
    NoEnvelope = NoEnvelope
CONSTRAINT Calm
INVARIANT
    GateWaitsForPresent
