------------------------------ MODULE AuditLog ------------------------------
(***************************************************************************)
(* The hash-chained audit log of one centre, secure_audit_log              *)
(* (private/edge-server/src/audit.ts), written by the transactions of      *)
(* concurrent requests.  appendAudit reads the tail and inserts with no    *)
(* lock in between: each transaction sees what was committed when it read. *)
(* The order of the chain is seq, an identity column, drawn at the INSERT; *)
(* a rollback leaves a gap in it.                                          *)
(*                                                                         *)
(* A definition marked "Variant" is no part of the specification: it is    *)
(* the next definition with a plausible mistake, which a property refutes. *)
(***************************************************************************)
EXTENDS MerkleChain, FiniteSets

CONSTANTS
    Entries,   \* what the rows say: actor, action, target, details
    Txs,       \* slots for transactions in flight
    MaxSeq     \* bound on the identity column

ASSUME AuditAssumption == MaxSeq \in Nat

VARIABLES
    rows,      \* committed rows
    nextSeq,   \* next value of the identity column
    tx         \* transactions in flight

auditVars == <<rows, nextSeq, tx>>

Rows == [seq : Nat, entry : Entries, prevRoot : Seq(Entries), root : Seq(Entries)]

NoTx == [pc |-> "idle"]

TxStates ==
    {NoTx}
      \cup [pc : {"read"}, entry : Entries, prevRoot : Seq(Entries)]
      \cup [pc : {"inserted"}, row : Rows]

AuditTypeOK ==
    /\ rows \subseteq Rows
    /\ nextSeq \in Nat
    /\ tx \in [Txs -> TxStates]

Inserted == {tx[x].row : x \in {y \in Txs : tx[y].pc = "inserted"}}

-----------------------------------------------------------------------------

\* Variant: rows of open transactions are seen too (a tail kept in memory).
VisibleRowsDirty == rows \cup Inserted

\* READ COMMITTED.
VisibleRows == rows

\* entry_hash of the last row by seq.
entryHashTail(rs) ==
    IF rs = {} THEN GENESIS
    ELSE (CHOOSE r \in rs : \A o \in rs : o.seq <= r.seq).root

ReadAuditTail(x, entry) ==
    /\ tx[x].pc = "idle"
    /\ tx' = [tx EXCEPT ![x] = [pc |-> "read", entry |-> entry,
                                prevRoot |-> entryHashTail(VisibleRows)]]
    /\ UNCHANGED <<rows, nextSeq>>

InsertEntry(x) ==
    /\ tx[x].pc = "read"
    /\ nextSeq < MaxSeq
    /\ tx' = [tx EXCEPT ![x] =
                [pc |-> "inserted",
                 row |-> [seq |-> nextSeq, entry |-> tx[x].entry,
                          prevRoot |-> tx[x].prevRoot,
                          root |-> nextRoot(tx[x].prevRoot, tx[x].entry)]]]
    /\ nextSeq' = nextSeq + 1
    /\ UNCHANGED rows

CommitTx(x) ==
    /\ tx[x].pc = "inserted"
    /\ rows' = rows \cup {tx[x].row}
    /\ tx' = [tx EXCEPT ![x] = NoTx]
    /\ UNCHANGED nextSeq

\* The handler throws, or the process stops, before COMMIT.
RollbackTx(x) ==
    /\ tx[x].pc # "idle"
    /\ tx' = [tx EXCEPT ![x] = NoTx]
    /\ UNCHANGED <<rows, nextSeq>>

AuditInit == rows = {} /\ nextSeq = 0 /\ tx = [x \in Txs |-> NoTx]

AuditNext ==
    \E x \in Txs :
        \/ \E e \in Entries : ReadAuditTail(x, e)
        \/ InsertEntry(x)
        \/ CommitTx(x)
        \/ RollbackTx(x)

AuditSpec == AuditInit /\ [][AuditNext]_auditVars

-----------------------------------------------------------------------------

\* Variant: the hash of the row itself is not recomputed.
verifyAuditLinks(rs) ==
    \A r \in rs : r.prevRoot = entryHashTail({o \in rs : o.seq < r.seq})

\* The walk by seq: each row chains to the one before it, and hashes to what
\* it says.
verifyAuditChain(rs) ==
    \A r \in rs :
        /\ r.prevRoot = entryHashTail({o \in rs : o.seq < r.seq})
        /\ r.root = nextRoot(r.prevRoot, r.entry)

-----------------------------------------------------------------------------
(* Properties. *)

\* Whatever transactions overlap or roll back, a committed row continues an
\* earlier committed row: no row hangs from one that was rolled back or that
\* comes later in the order of seq (audit.ts appendAudit).
ParentsPrecede ==
    \A r \in rows : \/ r.prevRoot = GENESIS
                    \/ \E p \in rows : p.seq < r.seq /\ p.root = r.prevRoot

\* audit.ts: "Removing or editing any row breaks the chain".  The log that only
\* this program has written to verifies.
AuditVerifies == verifyAuditChain(rows)

\* A log that fails its verification, nobody having tampered, is forked: two
\* transactions chained their rows to the same tail.  Gaps in seq and rows
\* committed out of the order of seq do no harm (audit.ts appendAudit).
OnlyForksBreak ==
    verifyAuditChain(rows) \/ \E r, o \in rows : r # o /\ r.prevRoot = o.prevRoot

\* In a log that verifies an edited row, or a row removed from before another,
\* is noticed (audit.ts verifyAuditChain).
TamperShows ==
    verifyAuditChain(rows) =>
        \A r \in rows :
            /\ \A e \in Entries \ {r.entry} :
                 ~verifyAuditChain((rows \ {r}) \cup {[r EXCEPT !.entry = e]})
            /\ (\E o \in rows : o.seq > r.seq) => ~verifyAuditChain(rows \ {r})

-----------------------------------------------------------------------------
(* The inductive invariant behind ParentsPrecede: what a transaction has    *)
(* read is committed, and older than whatever seq it may still draw.        *)

HasParent(prevRoot, seq) ==
    \/ prevRoot = GENESIS
    \/ \E p \in rows : p.seq < seq /\ p.root = prevRoot

AuditInv ==
    /\ AuditTypeOK
    /\ ParentsPrecede
    /\ \A r \in rows : r.seq < nextSeq
    /\ \A x \in Txs :
         /\ tx[x].pc = "read" => HasParent(tx[x].prevRoot, nextSeq)
         /\ tx[x].pc = "inserted" =>
              tx[x].row.seq < nextSeq /\ HasParent(tx[x].row.prevRoot, tx[x].row.seq)

-----------------------------------------------------------------------------
(* What OnlyForksBreak and TamperShows rest on besides: a number of the      *)
(* identity column is drawn once, and a row hashes to what it says.          *)

RowHashes(r) == r.root = nextRoot(r.prevRoot, r.entry)

AuditRowsInv ==
    /\ AuditInv
    /\ \A r \in rows : RowHashes(r)
    /\ \A r, o \in rows : r.seq = o.seq => r = o
    /\ \A x \in Txs : tx[x].pc = "inserted" =>
         /\ RowHashes(tx[x].row)
         /\ \A r \in rows : r.seq # tx[x].row.seq
         /\ \A y \in Txs \ {x} : tx[y].pc = "inserted" => tx[y].row.seq # tx[x].row.seq

=============================================================================
