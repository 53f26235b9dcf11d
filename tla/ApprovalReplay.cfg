SPECIFICATION ApprovalSpec
CONSTANTS
    Admins = {a1}
    Invigilators = {}
    Provisioned = {}
    Root = Root
    Codes = {c1}
    Reqs = {q1, q2}
    NoCode = NoCode
INVARIANT
    CodeUsedOnce
