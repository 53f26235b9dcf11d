SPECIFICATION AuditSpec
CONSTANTS
    Entries = {e1, e2}
    Txs = {x1, x2}
    MaxSeq = 2
INVARIANT
    AuditVerifies
