SPECIFICATION SeatSpec
CONSTANTS
    Terminals = {t1}
    Rolls = {r1}
    Roster = {r1}
    HQStatuses = {"ENROLLED"}
    Envelopes = {e1, e2}
    Reqs = {q1, q2}
    NoTerminal = NoTerminal
    NoRoll = NoRoll
    NoEnvelope = NoEnvelope

INVARIANT
    OneSubmissionPerBinding
