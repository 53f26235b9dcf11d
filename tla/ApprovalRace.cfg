SPECIFICATION ApprovalSpec
CONSTANTS
    Admins = {a1, a2}
    Invigilators = {i1}
    Provisioned = {p1}
    Root = Root
    Codes = {c1, c2}
    Reqs = {q1, q2}
    NoCode = NoCode
SYMMETRY Symmetry
INVARIANTS
    CascadingTrust
    SpentCodeActivates
    OneAdminAtWork
CONSTRAINT Cast
PROPERTY
    RevokedNeverLogsIn
