--------------------------- MODULE RecordsProofs ---------------------------
(***************************************************************************)
(* Proofs about the records the servers keep and what may be read out of   *)
(* them: the audit log, the register of exams on the chain, the candidate  *)
(* roster, registration and enquiries.  For every number of transactions,  *)
(* handlers, candidates, tabs and visitors.                                *)
(* VerificationProofs has the facts about numbers and sequences.           *)
(***************************************************************************)
EXTENDS AuditLog, ChainRegister, Roster, Registration, Enquiry, VerificationProofs

-----------------------------------------------------------------------------
(* The audit log. *)

\* The genesis root is a root.
LEMMA AuditGenesisIsRoot == GENESIS \in Seq(Entries)
  BY DEF GENESIS

\* Any rows have a last one by seq: numbers are drawn below nextSeq.
LEMMA LastAuditRow ==
  ASSUME AuditInv, NEW T \in SUBSET rows, T # {}
  PROVE  \E r \in T : \A o \in T : o.seq <= r.seq
<1>1. nextSeq \in Nat /\ \A r \in T : r.seq \in Nat /\ r.seq < nextSeq
  BY DEF AuditInv, AuditTypeOK, Rows
<1> DEFINE gaps == {nextSeq - r.seq : r \in T}
<1>2. gaps \in SUBSET Nat /\ gaps # {}
  BY <1>1
<1>3. PICK m \in gaps : \A n \in gaps : m <= n
  BY <1>2, NatHasLeast
<1>4. PICK r \in T : m = nextSeq - r.seq
  BY <1>3
<1>5. ASSUME NEW o \in T PROVE o.seq <= r.seq
  <2>1. m <= nextSeq - o.seq
    BY <1>3
  <2>2. o.seq \in Nat /\ r.seq \in Nat /\ nextSeq \in Nat
    BY <1>1
  <2> QED
    BY <1>4, <2>1, <2>2
<1> QED
  BY <1>5

\* ... and a first one.
LEMMA FirstRow ==
  ASSUME AuditInv, NEW T \in SUBSET rows, T # {}
  PROVE  \E r \in T : \A o \in T : r.seq <= o.seq
<1> DEFINE seqs == {r.seq : r \in T}
<1>1. seqs \in SUBSET Nat /\ seqs # {}
  BY DEF AuditInv, AuditTypeOK, Rows
<1>2. PICK m \in seqs : \A n \in seqs : m <= n
  BY <1>1, NatHasLeast
<1> QED
  BY <1>2

\* What the tail SELECT returns is the genesis root or the root of a row.
LEMMA TailIsRowRoot ==
  ASSUME AuditInv
  PROVE  /\ entryHashTail(rows) \in Seq(Entries)
         /\ HasParent(entryHashTail(rows), nextSeq)
<1>1. CASE rows = {}
  BY <1>1, AuditGenesisIsRoot DEF entryHashTail, HasParent
<1>2. CASE rows # {}
  <2>1. PICK r \in rows : entryHashTail(rows) = r.root
    BY <1>2, LastAuditRow DEF entryHashTail
  <2>2. r \in Rows /\ r.seq < nextSeq
    BY DEF AuditInv, AuditTypeOK
  <2> QED
    BY <2>1, <2>2 DEF HasParent, Rows
<1> QED
  BY <1>1, <1>2

LEMMA AuditInvInit == AuditInit => AuditInv
  BY DEF AuditInit, AuditInv, AuditTypeOK, ParentsPrecede, TxStates, NoTx

LEMMA ReadAuditTailStep ==
  ASSUME AuditInv, NEW x \in Txs, NEW e \in Entries, ReadAuditTail(x, e)
  PROVE  AuditInv'
<1> DEFINE t == [pc |-> "read", entry |-> e, prevRoot |-> entryHashTail(rows)]
<1>1. tx' = [tx EXCEPT ![x] = t] /\ rows' = rows /\ nextSeq' = nextSeq
  BY DEF ReadAuditTail, VisibleRows
<1>2. t \in TxStates /\ HasParent(t.prevRoot, nextSeq) /\ t.pc = "read"
  BY TailIsRowRoot DEF TxStates
<1> HIDE DEF t
<1>3. tx'[x] = t /\ \A y \in Txs \ {x} : tx'[y] = tx[y]
  BY <1>1 DEF AuditInv, AuditTypeOK
<1>4. AuditTypeOK'
  BY <1>1, <1>2 DEF AuditInv, AuditTypeOK
<1> QED
  BY <1>1, <1>2, <1>3, <1>4 DEF AuditInv, ParentsPrecede, HasParent

LEMMA InsertEntryStep ==
  ASSUME AuditInv, NEW x \in Txs, InsertEntry(x)
  PROVE  AuditInv'
<1> DEFINE row == [seq |-> nextSeq, entry |-> tx[x].entry, prevRoot |-> tx[x].prevRoot,
                   root |-> nextRoot(tx[x].prevRoot, tx[x].entry)]
           t == [pc |-> "inserted", row |-> row]
<1>1. /\ tx' = [tx EXCEPT ![x] = t] /\ rows' = rows /\ nextSeq' = nextSeq + 1
      /\ nextSeq \in Nat
  BY DEF InsertEntry, AuditInv, AuditTypeOK
<1>2. /\ tx[x].entry \in Entries /\ tx[x].prevRoot \in Seq(Entries)
      /\ HasParent(tx[x].prevRoot, nextSeq)
  BY DEF InsertEntry, AuditInv, AuditTypeOK, TxStates, NoTx
<1>3. row \in Rows
  BY <1>1, <1>2 DEF Rows, nextRoot
<1>4. row.seq = nextSeq /\ row.prevRoot = tx[x].prevRoot
  OBVIOUS
<1> HIDE DEF row
<1>5. t \in TxStates /\ t.pc = "inserted" /\ t.row = row
  BY <1>3 DEF TxStates
<1> HIDE DEF t
<1>6. tx'[x] = t /\ \A y \in Txs \ {x} : tx'[y] = tx[y]
  BY <1>1 DEF AuditInv, AuditTypeOK
<1>7. AuditTypeOK'
  BY <1>1, <1>5 DEF AuditInv, AuditTypeOK
<1>8. \A r \in rows : r.seq \in Nat /\ r.seq < nextSeq
  BY DEF AuditInv, AuditTypeOK, Rows
<1>9. ASSUME NEW y \in Txs
      PROVE  /\ (tx[y].pc = "read" => HasParent(tx[y].prevRoot, nextSeq))'
             /\ (tx[y].pc = "inserted" =>
                  tx[y].row.seq < nextSeq /\ HasParent(tx[y].row.prevRoot, tx[y].row.seq))'
  <2>1. CASE y = x
    BY <1>1, <1>2, <1>4, <1>5, <1>6, <2>1 DEF HasParent
  <2>2. CASE y # x
    <3>1. tx[y].pc = "inserted" => tx[y].row.seq \in Nat
      BY DEF AuditInv, AuditTypeOK, TxStates, NoTx, Rows
    <3> QED
      BY <1>1, <1>6, <1>8, <2>2, <3>1 DEF AuditInv, HasParent
  <2> QED
    BY <2>1, <2>2
<1> QED
  BY <1>1, <1>7, <1>8, <1>9 DEF AuditInv, ParentsPrecede

LEMMA CommitTxStep ==
  ASSUME AuditInv, NEW x \in Txs, CommitTx(x)
  PROVE  AuditInv'
<1> DEFINE row == tx[x].row
<1>1. /\ tx' = [tx EXCEPT ![x] = NoTx] /\ nextSeq' = nextSeq
      /\ rows' = rows \cup {row}
  BY DEF CommitTx
<1>2. row \in Rows /\ row.seq < nextSeq /\ HasParent(row.prevRoot, row.seq)
  BY DEF CommitTx, AuditInv, AuditTypeOK, TxStates, NoTx
<1> HIDE DEF row
<1>3. /\ tx'[x] = NoTx /\ NoTx.pc = "idle"
      /\ \A y \in Txs \ {x} : tx'[y] = tx[y]
  BY <1>1 DEF AuditInv, AuditTypeOK, NoTx
<1>4. AuditTypeOK'
  BY <1>1, <1>2 DEF AuditInv, AuditTypeOK, TxStates
<1>5. ParentsPrecede'
  BY <1>1, <1>2 DEF AuditInv, ParentsPrecede, HasParent
<1>6. \A r \in rows' : r.seq < nextSeq'
  BY <1>1, <1>2 DEF AuditInv
<1>7. \A y \in Txs :
         /\ (tx[y].pc = "read" => HasParent(tx[y].prevRoot, nextSeq))'
         /\ (tx[y].pc = "inserted" =>
              tx[y].row.seq < nextSeq /\ HasParent(tx[y].row.prevRoot, tx[y].row.seq))'
  BY <1>1, <1>3 DEF AuditInv, HasParent
<1> QED
  BY <1>4, <1>5, <1>6, <1>7 DEF AuditInv

LEMMA RollbackTxStep ==
  ASSUME AuditInv, NEW x \in Txs, RollbackTx(x)
  PROVE  AuditInv'
<1>1. tx' = [tx EXCEPT ![x] = NoTx] /\ nextSeq' = nextSeq /\ rows' = rows
  BY DEF RollbackTx
<1>2. /\ tx'[x] = NoTx /\ NoTx.pc = "idle"
      /\ \A y \in Txs \ {x} : tx'[y] = tx[y]
  BY <1>1 DEF AuditInv, AuditTypeOK, NoTx
<1>3. AuditTypeOK'
  BY <1>1 DEF AuditInv, AuditTypeOK, TxStates
<1> QED
  BY <1>1, <1>2, <1>3 DEF AuditInv, ParentsPrecede, HasParent

LEMMA AuditInvStep == AuditInv /\ [AuditNext]_auditVars => AuditInv'
<1> SUFFICES ASSUME AuditInv, [AuditNext]_auditVars PROVE AuditInv'
  OBVIOUS
<1>1. CASE UNCHANGED auditVars
  BY <1>1 DEF auditVars, AuditInv, AuditTypeOK, ParentsPrecede, HasParent
<1>2. CASE AuditNext
  BY <1>2, ReadAuditTailStep, InsertEntryStep, CommitTxStep, RollbackTxStep DEF AuditNext
<1> QED
  BY <1>1, <1>2

\* AuditInv holds whatever transactions overlap and roll back.
THEOREM AuditInvariant == AuditSpec => []AuditInv
  BY AuditInvInit, AuditInvStep, PTL DEF AuditSpec

\* No committed row hangs from a row that was rolled back or comes after it: the
\* rows form a tree rooted at genesis, even where concurrent writers fork it.
THEOREM AuditTree == AuditSpec => []ParentsPrecede
<1>1. AuditInv => ParentsPrecede
  BY DEF AuditInv
<1> QED
  BY <1>1, AuditInvariant, PTL

-----------------------------------------------------------------------------
(* What a verification finds. *)

LEMMA AuditRowsInit == AuditInit => AuditRowsInv
  BY AuditInvInit DEF AuditInit, AuditRowsInv, NoTx

LEMMA AuditRowsStep == AuditRowsInv /\ [AuditNext]_auditVars => AuditRowsInv'
<1> SUFFICES ASSUME AuditRowsInv, [AuditNext]_auditVars PROVE AuditRowsInv'
  OBVIOUS
<1>1. AuditInv /\ AuditInv'
  BY AuditInvStep DEF AuditRowsInv
<1>2. CASE UNCHANGED auditVars
  BY <1>1, <1>2 DEF auditVars, AuditRowsInv, RowHashes
<1>3. ASSUME NEW x \in Txs, NEW e \in Entries, ReadAuditTail(x, e) PROVE AuditRowsInv'
  <2>1. /\ rows' = rows /\ tx'[x].pc = "read"
        /\ \A y \in Txs \ {x} : tx'[y] = tx[y]
    BY <1>1, <1>3 DEF ReadAuditTail, AuditInv, AuditTypeOK
  <2> QED
    BY <1>1, <2>1 DEF AuditRowsInv, RowHashes
<1>4. ASSUME NEW x \in Txs, InsertEntry(x) PROVE AuditRowsInv'
  <2>1. /\ rows' = rows /\ tx'[x].pc = "inserted" /\ tx'[x].row.seq = nextSeq
        /\ \A y \in Txs \ {x} : tx'[y] = tx[y]
    BY <1>1, <1>4 DEF InsertEntry, AuditInv, AuditTypeOK
  <2>2. RowHashes(tx'[x].row)
    BY <1>1, <1>4 DEF InsertEntry, AuditInv, AuditTypeOK, RowHashes
  <2>3. \A r \in rows : r.seq # nextSeq
    BY <1>1 DEF AuditInv, AuditTypeOK, Rows
  <2>4. \A y \in Txs : tx[y].pc = "inserted" => tx[y].row.seq # nextSeq
    <3> SUFFICES ASSUME NEW y \in Txs, tx[y].pc = "inserted" PROVE tx[y].row.seq # nextSeq
      OBVIOUS
    <3>1. tx[y].row.seq \in Nat /\ nextSeq \in Nat /\ tx[y].row.seq < nextSeq
      BY <1>1 DEF AuditInv, AuditTypeOK, TxStates, NoTx, Rows
    <3> QED
      BY <3>1
  <2> QED
    BY <1>1, <2>1, <2>2, <2>3, <2>4 DEF AuditRowsInv, RowHashes
<1>5. ASSUME NEW x \in Txs, CommitTx(x) PROVE AuditRowsInv'
  <2>1. /\ tx[x].pc = "inserted" /\ rows' = rows \cup {tx[x].row} /\ tx'[x].pc = "idle"
        /\ \A y \in Txs \ {x} : tx'[y] = tx[y]
    BY <1>1, <1>5 DEF CommitTx, AuditInv, AuditTypeOK, NoTx
  <2> QED
    BY <1>1, <2>1 DEF AuditRowsInv, RowHashes
<1>6. ASSUME NEW x \in Txs, RollbackTx(x) PROVE AuditRowsInv'
  <2>1. /\ rows' = rows /\ tx'[x].pc = "idle"
        /\ \A y \in Txs \ {x} : tx'[y] = tx[y]
    BY <1>1, <1>6 DEF RollbackTx, AuditInv, AuditTypeOK, NoTx
  <2> QED
    BY <1>1, <2>1 DEF AuditRowsInv, RowHashes
<1> QED
  BY <1>2, <1>3, <1>4, <1>5, <1>6 DEF AuditNext

\* A number of the identity column is drawn once, and a committed row hashes to what it says.
THEOREM AuditRowsInvariant == AuditSpec => []AuditRowsInv
  BY AuditRowsInit, AuditRowsStep, PTL DEF AuditSpec

\* The tail of some rows is the root of the one that no other follows.
LEMMA TailOfRows ==
  ASSUME AuditRowsInv, NEW T \in SUBSET rows, NEW r \in T, \A o \in T : o.seq <= r.seq
  PROVE  entryHashTail(T) = r.root
<1>1. \A q \in T : (\A o \in T : o.seq <= q.seq) => q = r
  BY DEF AuditRowsInv, AuditInv, AuditTypeOK, Rows
<1> QED
  BY <1>1 DEF entryHashTail

RowsBefore(r) == {o \in rows : o.seq < r.seq}

\* If no two rows chain to one root, each row chains to the one before it: the first that does
\* not would fork from the successor of its parent.
LEMMA NoForkVerifies ==
  ASSUME AuditRowsInv, \A r, o \in rows : r.prevRoot = o.prevRoot => r = o
  PROVE  verifyAuditChain(rows)
<1> DEFINE Bad == {r \in rows : r.prevRoot # entryHashTail(RowsBefore(r))}
<1>1. AuditInv /\ \A r \in rows : r.seq \in Nat
  BY DEF AuditRowsInv, AuditInv, AuditTypeOK, Rows
<1>2. SUFFICES Bad = {}
  BY <1>2 DEF AuditRowsInv, RowHashes, verifyAuditChain, RowsBefore
<1>3. SUFFICES ASSUME Bad # {} PROVE FALSE
  OBVIOUS
<1>4. PICK r \in Bad : \A o \in Bad : r.seq <= o.seq
  BY <1>1, <1>3, FirstRow
<1> DEFINE B == RowsBefore(r)
<1>5. \A o \in B : o \in rows /\ o # r /\ o.prevRoot = entryHashTail(RowsBefore(o))
  BY <1>1, <1>4 DEF RowsBefore
<1>6. r.prevRoot # entryHashTail(B) /\ r \in rows
  BY <1>4
<1>7. CASE r.prevRoot = GENESIS
  <2>1. B # {}
    BY <1>6, <1>7 DEF entryHashTail
  <2>2. PICK f \in B : \A o \in B : f.seq <= o.seq
    BY <1>1, <2>1, FirstRow DEF RowsBefore
  <2>3. RowsBefore(f) = {}
    BY <1>1, <1>4, <2>2 DEF RowsBefore
  <2>4. f.prevRoot = GENESIS
    BY <1>5, <2>2, <2>3 DEF entryHashTail
  <2> QED
    BY <1>5, <1>6, <1>7, <2>2, <2>4
<1>8. CASE \E p \in rows : p.seq < r.seq /\ p.root = r.prevRoot
  <2>1. PICK p \in B : p.root = r.prevRoot
    BY <1>8 DEF RowsBefore
  <2>2. PICK l \in B : \A o \in B : o.seq <= l.seq
    BY <1>1, <2>1, LastAuditRow DEF RowsBefore
  <2>3. entryHashTail(B) = l.root
    BY <2>2, TailOfRows DEF RowsBefore
  <2>4. p # l /\ p \in rows /\ l \in rows
    BY <1>6, <2>1, <2>3 DEF RowsBefore
  <2> DEFINE After == {o \in B : p.seq < o.seq}
  <2>5. l \in After
    BY <1>1, <2>1, <2>2, <2>4 DEF AuditRowsInv
  <2>6. PICK q \in After : \A o \in After : q.seq <= o.seq
    BY <1>1, <2>5, FirstRow DEF RowsBefore
  <2>7. p \in RowsBefore(q) /\ \A o \in RowsBefore(q) : o.seq <= p.seq
    BY <1>1, <1>4, <2>1, <2>6 DEF RowsBefore
  <2>8. entryHashTail(RowsBefore(q)) = p.root
    BY <2>7, TailOfRows DEF RowsBefore
  <2> QED
    BY <1>5, <1>6, <2>1, <2>6, <2>8
<1> QED
  BY <1>1, <1>6, <1>7, <1>8 DEF AuditInv, ParentsPrecede

\* A log that fails its verification is forked: gaps in seq, rollbacks and rows committed out
\* of order do no harm.
THEOREM OnlyForksEverBreak == AuditSpec => []OnlyForksBreak
<1>1. AuditRowsInv => OnlyForksBreak
  BY NoForkVerifies DEF OnlyForksBreak
<1> QED
  BY <1>1, AuditRowsInvariant, PTL

\* A row that another follows cannot be taken out of a log that verifies: its successor would
\* have to chain to the row before it.
LEMMA RemovalShows ==
  ASSUME AuditRowsInv, verifyAuditChain(rows), NEW r \in rows, NEW o \in rows, r.seq < o.seq
  PROVE  ~verifyAuditChain(rows \ {r})
<1>1. AuditInv /\ \A t \in rows : t.seq \in Nat /\ t.prevRoot \in Seq(Entries) /\ t.entry \in Entries
  BY DEF AuditRowsInv, AuditInv, AuditTypeOK, Rows
<1> DEFINE After == {t \in rows : r.seq < t.seq}
<1>2. PICK q \in After : \A t \in After : q.seq <= t.seq
  BY <1>1, FirstRow
<1>3. q \in rows \ {r} /\ r \in RowsBefore(q) /\ \A t \in RowsBefore(q) : t.seq <= r.seq
  BY <1>1, <1>2 DEF RowsBefore
<1>4. entryHashTail(RowsBefore(q)) = r.root
  BY <1>3, TailOfRows DEF RowsBefore
<1>5. q.prevRoot = r.root
  BY <1>3, <1>4 DEF verifyAuditChain, RowsBefore
<1>6. {t \in rows \ {r} : t.seq < q.seq} = RowsBefore(r)
  <2>1. ASSUME NEW t \in rows PROVE (t # r /\ t.seq < q.seq) <=> t.seq < r.seq
    <3>1. t.seq \in Nat /\ r.seq \in Nat /\ q.seq \in Nat /\ r.seq < q.seq
      BY <1>1, <1>2
    <3>2. t.seq < q.seq => t.seq <= r.seq
      BY <1>3 DEF RowsBefore
    <3>3. t.seq = r.seq => t = r
      BY DEF AuditRowsInv
    <3> QED
      BY <3>1, <3>2, <3>3
  <2> QED
    BY <2>1 DEF RowsBefore
<1>7. entryHashTail(RowsBefore(r)) = r.prevRoot
  BY DEF verifyAuditChain, RowsBefore
<1>8. r.root # r.prevRoot
  <2>1. r.root = Append(r.prevRoot, r.entry)
    BY DEF AuditRowsInv, RowHashes, nextRoot
  <2> QED
    BY <1>1, <2>1
<1> QED
  BY <1>3, <1>5, <1>6, <1>7, <1>8 DEF verifyAuditChain

\* A row whose entry was edited no longer hashes to what it says.
LEMMA EditShows ==
  ASSUME AuditRowsInv, NEW r \in rows, NEW e \in Entries \ {r.entry}
  PROVE  ~verifyAuditChain((rows \ {r}) \cup {[r EXCEPT !.entry = e]})
<1> DEFINE d == [r EXCEPT !.entry = e]
<1>1. r \in Rows
  BY DEF AuditRowsInv, AuditInv, AuditTypeOK
<1>2. d.root = r.root /\ d.prevRoot = r.prevRoot /\ d.entry = e
  BY <1>1 DEF Rows
<1>3. r.root = Append(r.prevRoot, r.entry) /\ r.prevRoot \in Seq(Entries) /\ r.entry \in Entries
  BY <1>1 DEF AuditRowsInv, RowHashes, nextRoot, Rows
<1>4. Append(r.prevRoot, e) # Append(r.prevRoot, r.entry)
  BY <1>3, AppendInjective
<1>5. d.root # nextRoot(d.prevRoot, d.entry)
  BY <1>2, <1>3, <1>4 DEF nextRoot
<1>6. ~verifyAuditChain((rows \ {r}) \cup {d})
  <2> HIDE DEF d
  <2> QED
    BY <1>5 DEF verifyAuditChain
<1> QED
  BY <1>6

\* In a log that verifies, an edited row is noticed, and so is a row removed from before
\* another.
THEOREM TamperAlwaysShows == AuditSpec => []TamperShows
<1>1. AuditRowsInv => TamperShows
  BY RemovalShows, EditShows DEF TamperShows
<1> QED
  BY <1>1, AuditRowsInvariant, PTL

-----------------------------------------------------------------------------
(* The register of exams on the chain. *)

\* Only handler h moves, to a call that knows no more than the chain shows.
CallMove(h, c) ==
    /\ call' = [call EXCEPT ![h] = c]
    /\ UNCHANGED <<exam, contract, pool, mined, sends, told>>

LEMMA CallMoveKeeps ==
  ASSUME RegisterInv, NEW h \in Handlers, NEW c \in HandlerCalls, CallKnows(c), CallMove(h, c)
  PROVE  RegisterInv'
<1>1. UNCHANGED <<exam, contract, pool, mined, sends, told>> /\ call' = [call EXCEPT ![h] = c]
  BY DEF CallMove
<1>2. call' \in [Handlers -> HandlerCalls]
  BY <1>1 DEF RegisterInv, RegisterTypeOK
<1>3. RegisterTypeOK'
  BY <1>1, <1>2 DEF RegisterInv, RegisterTypeOK
<1>4. \A g \in Handlers : call'[g] = IF g = h THEN c ELSE call[g]
  BY <1>1 DEF RegisterInv, RegisterTypeOK
<1>5. \A g \in Handlers : CallKnows(call[g])'
  <2>1. \A g \in Handlers : CallKnows(call[g])
    BY DEF RegisterInv
  <2> QED
    BY <1>1, <1>4, <2>1 DEF CallKnows, IsMined
<1>6. PoolAccepted' /\ MinedStands'
  BY <1>1 DEF RegisterInv, PoolAccepted, MinedStands, Stands
<1> QED
  BY <1>1, <1>3, <1>5, <1>6 DEF RegisterInv, IsMined

LEMMA NoReadKnows == NoRead \in HandlerCalls /\ CallKnows(NoRead) /\ NoRead.stage = "idle"
<1>1. "DRAFT" \in ExamStatus /\ 0 \in 0..MaxSends
  BY RegisterAssumption DEF ExamStatus, Follows
<1>2. NoRead \in HandlerCalls
  BY <1>1 DEF NoRead, HandlerCalls, NotSent
<1> QED
  BY <1>2 DEF NoRead, CallKnows, Calls

LEMMA RegisterInvInit == RegisterInit => RegisterInv
<1> SUFFICES ASSUME RegisterInit PROVE RegisterInv
  OBVIOUS
<1>1. /\ call = [h \in Handlers |-> NoRead] /\ contract = EmptyRecord
      /\ pool = {} /\ mined = <<>> /\ sends = 0 /\ told = {}
      /\ exam.lockTx = NotSent /\ exam.proofTx = NotSent /\ exam.answerTx = NotSent
  BY DEF RegisterInit
<1>2. exam \in ExamRows
  BY RegisterAssumption DEF RegisterInit, ExamRows, ExamStatus, Follows, NotSent
<1>3. contract \in ContractRecords /\ contract.questionHash = NoHash
  BY <1>1 DEF EmptyRecord, ContractRecords
<1>4. mined \in Seq(MinedTxs) /\ Len(mined) = 0 /\ DOMAIN mined = {}
  BY <1>1
<1>5. RegisterTypeOK
  BY <1>1, <1>2, <1>3, NoReadKnows, RegisterAssumption DEF RegisterTypeOK
<1>6. \A h \in Handlers : CallKnows(call[h])
  BY <1>1, NoReadKnows
<1>7. PoolAccepted /\ MinedStands
  BY <1>1, <1>4 DEF PoolAccepted, MinedStands
<1> QED
  BY <1>1, <1>3, <1>4, <1>5, <1>6, <1>7 DEF RegisterInv

\* A request starts with what it has read; what it would send is a hash.
LEMMA BeginStep ==
  ASSUME RegisterInv, NEW h \in Handlers, NEW hash \in Hashes \cup {NoHash},
         NEW is \in Calls \cup {"encrypt", "seal", "build", "lock", "status"},
         is \in Calls => hash \in Hashes, Begin(h, is, hash)
  PROVE  RegisterInv'
<1> DEFINE c == [NoRead EXCEPT !.is = is, !.stage = "read", !.hash = hash, !.status = exam.status,
                               !.tx = IF is = "seal" THEN exam.lockTx ELSE NotSent]
<1>1. exam.status \in ExamStatus /\ exam.lockTx \in 0..MaxSends /\ NotSent \in 0..MaxSends
  BY RegisterAssumption DEF RegisterInv, RegisterTypeOK, ExamRows, NotSent
<1>2. c \in HandlerCalls /\ c.is = is /\ c.stage = "read" /\ c.hash = hash
  BY <1>1 DEF NoRead, HandlerCalls, NotSent
<1>3. CallMove(h, c)
  BY DEF Begin, CallMove
<1> HIDE DEF c
<1>4. CallKnows(c)
  BY <1>2 DEF CallKnows
<1> QED
  BY <1>2, <1>3, <1>4, CallMoveKeeps

LEMMA RequestStep ==
  ASSUME RegisterInv, NEW h \in Handlers,
         \/ EncryptPaper(h) \/ SealQuestions(h) \/ BuildTree(h) \/ LifecycleLock(h)
         \/ UpdateStatus(h) \/ LockOnchain(h) \/ SubmitProofOnchain(h) \/ CommitRootOnchain(h)
         \/ AnchorOnchain(h)
  PROVE  RegisterInv'
<1>1. exam.questionHash \in Hashes \cup {NoHash} /\ exam.answerRoot \in Hashes \cup {NoHash}
  BY DEF RegisterInv, RegisterTypeOK, ExamRows
<1>2. PICK is \in Calls \cup {"encrypt", "seal", "build", "lock", "status"},
           hash \in Hashes \cup {NoHash} : Begin(h, is, hash) /\ (is \in Calls => hash \in Hashes)
  BY <1>1 DEF EncryptPaper, SealQuestions, BuildTree, LifecycleLock, UpdateStatus, LockOnchain,
              SubmitProofOnchain, CommitRootOnchain, AnchorOnchain, Calls
<1> QED
  BY <1>2, BeginStep

LEMMA ReadNonceStep ==
  ASSUME RegisterInv, NEW h \in Handlers, ReadNonce(h)
  PROVE  RegisterInv'
<1> DEFINE c == [call[h] EXCEPT !.stage = "nonce", !.nonce = Len(mined)]
<1>1. call[h] \in HandlerCalls /\ call[h].is \in Calls /\ CallKnows(call[h])
  BY DEF ReadNonce, RegisterInv, RegisterTypeOK
<1>2. Len(mined) \in 0..MaxSends
  BY RegisterAssumption, LenProperties DEF RegisterInv, RegisterTypeOK
<1>3. /\ c \in HandlerCalls /\ c.is = call[h].is /\ c.stage = "nonce" /\ c.hash = call[h].hash
      /\ c.nonce = Len(mined)
  BY <1>1, <1>2 DEF HandlerCalls
<1>4. call' = [call EXCEPT ![h] = c]
  BY <1>1 DEF ReadNonce, transactionCount, RegisterInv, RegisterTypeOK
<1>5. CallMove(h, c)
  BY <1>4 DEF ReadNonce, CallMove
<1> HIDE DEF c
<1>6. CallKnows(c)
  BY <1>1, <1>2, <1>3 DEF CallKnows
<1> QED
  BY <1>3, <1>5, <1>6, CallMoveKeeps

LEMMA EstimateGasStep ==
  ASSUME RegisterInv, NEW h \in Handlers, EstimateGas(h)
  PROVE  RegisterInv'
<1> DEFINE c == [call[h] EXCEPT !.stage = "estimated"]
<1>1. /\ call[h] \in HandlerCalls /\ CallKnows(call[h]) /\ call[h].stage = "nonce"
      /\ Accepts(contract, call[h].is, call[h].hash)
  BY DEF EstimateGas, RegisterInv, RegisterTypeOK
<1>2. /\ c \in HandlerCalls /\ c.is = call[h].is /\ c.stage = "estimated" /\ c.hash = call[h].hash
      /\ c.nonce = call[h].nonce
  BY <1>1 DEF HandlerCalls
<1>3. CallMove(h, c)
  BY DEF EstimateGas, CallMove
<1> HIDE DEF c
<1>4. CallKnows(c)
  BY <1>1, <1>2 DEF CallKnows
<1> QED
  BY <1>2, <1>3, <1>4, CallMoveKeeps

LEMMA ReceiptStep ==
  ASSUME RegisterInv, NEW h \in Handlers, TransactionReceipt(h)
  PROVE  RegisterInv'
<1> DEFINE c == [call[h] EXCEPT !.stage = "confirmed"]
<1>1. /\ call[h] \in HandlerCalls /\ CallKnows(call[h]) /\ call[h].stage = "sent"
      /\ IsMined(call[h].tx)
  BY DEF TransactionReceipt, RegisterInv, RegisterTypeOK, IsMined
<1>2. /\ c \in HandlerCalls /\ c.is = call[h].is /\ c.stage = "confirmed" /\ c.hash = call[h].hash
      /\ c.tx = call[h].tx
  BY <1>1 DEF HandlerCalls
<1>3. CallMove(h, c)
  BY DEF TransactionReceipt, CallMove
<1> HIDE DEF c
<1>4. CallKnows(c)
  BY <1>1, <1>2 DEF CallKnows
<1> QED
  BY <1>2, <1>3, <1>4, CallMoveKeeps

LEMMA CallFailsStep ==
  ASSUME RegisterInv, NEW h \in Handlers, CallFails(h)
  PROVE  RegisterInv'
<1>1. CallMove(h, NoRead)
  BY DEF CallFails, CallMove
<1> QED
  BY <1>1, NoReadKnows, CallMoveKeeps

-----------------------------------------------------------------------------
(* The row of the exam and the answer to the request. *)

LEMMA RowStep ==
  ASSUME RegisterInv, NEW h \in Handlers, call' = [call EXCEPT ![h] = NoRead],
         UNCHANGED <<contract, pool, mined, sends>>, exam' \in ExamRows, told' \subseteq 1..sends,
         \A id \in told' \cup ({exam'.lockTx, exam'.proofTx, exam'.answerTx} \ {NotSent}) : IsMined(id)
  PROVE  RegisterInv'
<1>1. \A g \in Handlers : call'[g] = IF g = h THEN NoRead ELSE call[g]
  BY DEF RegisterInv, RegisterTypeOK
<1>2. RegisterTypeOK'
  BY NoReadKnows DEF RegisterInv, RegisterTypeOK
<1>3. \A g \in Handlers : CallKnows(call[g])'
  <2>1. \A g \in Handlers : CallKnows(call[g])
    BY DEF RegisterInv
  <2> QED
    BY <1>1, <2>1, NoReadKnows DEF CallKnows, IsMined
<1>4. PoolAccepted' /\ MinedStands'
  BY DEF RegisterInv, PoolAccepted, MinedStands, Stands
<1> QED
  BY <1>2, <1>3, <1>4 DEF RegisterInv, IsMined

LEMMA CommitStep ==
  ASSUME RegisterInv, NEW h \in Handlers, Commit(h)
  PROVE  RegisterInv'
<1> DEFINE c == call[h]
           ids == {exam.lockTx, exam.proofTx, exam.answerTx} \ {NotSent}
<1>1. c \in HandlerCalls /\ CallKnows(c) /\ exam \in ExamRows /\ sends \in 0..MaxSends
  BY DEF RegisterInv, RegisterTypeOK
<1>2. /\ c.stage = "confirmed" \/ (c.stage = "read" /\ c.is \in {"encrypt", "seal", "lock"})
      /\ exam' = Written(c) /\ told' = (IF c.is \in Calls THEN told \cup {c.tx} ELSE told)
      /\ call' = [call EXCEPT ![h] = NoRead] /\ UNCHANGED <<contract, pool, mined, sends>>
  BY DEF Commit
<1>3. c.is \in Calls => IsMined(c.tx) /\ c.tx \in 1..sends
  BY <1>1, <1>2 DEF CallKnows, Calls
<1>4. SealedTx(c) \in {NotSent, exam.lockTx}
  BY DEF SealedTx
<1>5. "LOCKED" \in ExamStatus /\ NotSent \in 0..MaxSends
  BY RegisterAssumption DEF ExamStatus, Follows, NotSent
<1>6. /\ exam' \in ExamRows
      /\ \A id \in {exam'.lockTx, exam'.proofTx, exam'.answerTx} :
            id \in {NotSent, exam.lockTx, exam.proofTx, exam.answerTx} \/ (c.is \in Calls /\ id = c.tx)
  <2>1. c.hash \in Hashes \cup {NoHash} /\ c.tx \in 0..MaxSends
    BY <1>1 DEF HandlerCalls
  <2>2. exam.lockTx \in 0..MaxSends
    BY <1>1 DEF ExamRows
  <2>3. SealedTx(c) \in 0..MaxSends
    BY <1>4, <1>5, <2>2
  <2>4. c.is \in {"encrypt", "seal", "lock"} \cup Calls
    BY <1>1, <1>2 DEF CallKnows
  <2>5. CASE c.is = "encrypt"
    <3>1. exam' = [exam EXCEPT !.questionHash = c.hash]
      BY <1>2, <2>5 DEF Written
    <3> QED
      BY <1>1, <2>1, <3>1 DEF ExamRows
  <2>6. CASE c.is = "seal"
    <3>1. exam' = [exam EXCEPT !.questionHash = c.hash, !.lockTx = SealedTx(c)]
      BY <1>2, <2>6 DEF Written
    <3> QED
      BY <1>1, <1>4, <2>1, <2>3, <3>1 DEF ExamRows
  <2>7. CASE c.is = "lock"
    <3>1. exam' = [exam EXCEPT !.status = "LOCKED"]
      BY <1>2, <2>7 DEF Written
    <3> QED
      BY <1>1, <1>5, <3>1 DEF ExamRows
  <2>8. CASE c.is \in Calls
    <3>1. \/ exam' = [exam EXCEPT !.status = "LOCKED", !.lockTx = c.tx]
          \/ exam' = [exam EXCEPT !.proofTx = c.tx]
          \/ exam' = [exam EXCEPT !.answerTx = c.tx]
          \/ exam' = exam
      BY <1>2, <2>8 DEF Written, Calls
    <3> QED
      BY <1>1, <1>5, <2>1, <2>8, <3>1 DEF ExamRows
  <2> QED
    BY <2>4, <2>5, <2>6, <2>7, <2>8
<1>7. \A id \in told \cup ids : IsMined(id)
  BY DEF RegisterInv
<1>8. told' \subseteq 1..sends /\ \A id \in told' : IsMined(id)
  BY <1>2, <1>3, <1>7 DEF RegisterInv, RegisterTypeOK
<1>9. \A id \in {exam'.lockTx, exam'.proofTx, exam'.answerTx} \ {NotSent} : IsMined(id)
  BY <1>3, <1>6, <1>7
<1> HIDE DEF c
<1> QED
  BY <1>2, <1>6, <1>8, <1>9, RowStep

LEMMA CommitTreeStep ==
  ASSUME RegisterInv, NEW h \in Handlers, CommitTree(h)
  PROVE  RegisterInv'
<1>1. call[h].hash \in Hashes \cup {NoHash} /\ exam \in ExamRows /\ "COMPLETED" \in ExamStatus
  BY DEF RegisterInv, RegisterTypeOK, HandlerCalls, ExamStatus, Follows
<1>2. PICK status \in {"COMPLETED", exam.status} :
         exam' = [exam EXCEPT !.answerRoot = call[h].hash, !.status = status]
  BY DEF CommitTree
<1>3. status \in ExamStatus
  BY <1>1 DEF ExamRows
<1>4. /\ exam' \in ExamRows /\ exam'.lockTx = exam.lockTx /\ exam'.proofTx = exam.proofTx
      /\ exam'.answerTx = exam.answerTx
  BY <1>1, <1>2, <1>3 DEF ExamRows
<1>5. /\ call' = [call EXCEPT ![h] = NoRead] /\ UNCHANGED <<contract, pool, mined, sends>>
      /\ told' = told
  BY DEF CommitTree
<1>6. told' \subseteq 1..sends
  BY <1>5 DEF RegisterInv, RegisterTypeOK
<1>7. \A id \in told' \cup ({exam'.lockTx, exam'.proofTx, exam'.answerTx} \ {NotSent}) : IsMined(id)
  BY <1>4, <1>5 DEF RegisterInv
<1> QED
  BY <1>4, <1>5, <1>6, <1>7, RowStep

LEMMA CommitStatusStep ==
  ASSUME RegisterInv, NEW h \in Handlers, CommitStatus(h)
  PROVE  RegisterInv'
<1>1. call[h].status \in ExamStatus /\ exam \in ExamRows
  BY DEF RegisterInv, RegisterTypeOK, HandlerCalls
<1>2. PICK next \in Follows[call[h].status] : exam' = [exam EXCEPT !.status = next]
  BY DEF CommitStatus
<1>3. next \in ExamStatus
  BY <1>1, <1>2 DEF ExamStatus, Follows
<1>4. /\ exam' \in ExamRows /\ exam'.lockTx = exam.lockTx /\ exam'.proofTx = exam.proofTx
      /\ exam'.answerTx = exam.answerTx
  BY <1>1, <1>2, <1>3 DEF ExamRows
<1>5. /\ call' = [call EXCEPT ![h] = NoRead] /\ UNCHANGED <<contract, pool, mined, sends>>
      /\ told' = told
  BY DEF CommitStatus
<1>6. told' \subseteq 1..sends
  BY <1>5 DEF RegisterInv, RegisterTypeOK
<1>7. \A id \in told' \cup ({exam'.lockTx, exam'.proofTx, exam'.answerTx} \ {NotSent}) : IsMined(id)
  BY <1>4, <1>5 DEF RegisterInv
<1> QED
  BY <1>4, <1>5, <1>6, <1>7, RowStep

LEMMA RestartBackendStep == RegisterInv /\ RestartBackend => RegisterInv'
<1> SUFFICES ASSUME RegisterInv, RestartBackend PROVE RegisterInv'
  OBVIOUS
<1>1. call' = [h \in Handlers |-> NoRead] /\ UNCHANGED <<exam, contract, pool, mined, sends, told>>
  BY DEF RestartBackend
<1>2. RegisterTypeOK'
  BY <1>1, NoReadKnows DEF RegisterInv, RegisterTypeOK
<1>3. \A g \in Handlers : CallKnows(call[g])'
  BY <1>1, NoReadKnows DEF CallKnows, IsMined
<1>4. PoolAccepted' /\ MinedStands'
  BY <1>1 DEF RegisterInv, PoolAccepted, MinedStands, Stands
<1> QED
  BY <1>1, <1>2, <1>3, <1>4 DEF RegisterInv, IsMined

-----------------------------------------------------------------------------
(* The node. *)

\* A transaction the node takes is the next to be mined, and was estimated on the contract as
\* it still is.
LEMMA SendRawTransactionStep ==
  ASSUME RegisterInv, NEW h \in Handlers, SendRawTransaction(h)
  PROVE  RegisterInv'
<1> DEFINE id == sends + 1
           c == [call[h] EXCEPT !.stage = "sent", !.tx = id]
           t == [tx |-> id, nonce |-> call[h].nonce, fn |-> call[h].is, hash |-> call[h].hash]
<1>1. /\ call[h] \in HandlerCalls /\ CallKnows(call[h]) /\ call[h].stage = "estimated"
      /\ sends < MaxSends /\ sends \in 0..MaxSends /\ MaxSends \in Nat
      /\ Len(mined) \in Nat /\ Len(mined) <= sends
  BY RegisterAssumption, LenProperties DEF SendRawTransaction, RegisterInv, RegisterTypeOK
<1>2. /\ call[h].is \in Calls /\ call[h].hash \in Hashes /\ call[h].nonce \in 0..MaxSends
      /\ call[h].nonce = Len(mined) /\ Accepts(contract, call[h].is, call[h].hash)
  BY <1>1 DEF SendRawTransaction, CallKnows, HandlerCalls
<1>3. /\ sends' = id /\ UNCHANGED <<exam, contract, mined, told>>
      /\ pool' = {u \in pool : u.nonce # call[h].nonce} \cup {t}
      /\ call' = [call EXCEPT ![h] = c]
  <2>1. call' = [call EXCEPT ![h].stage = "sent", ![h].tx = id]
    BY DEF SendRawTransaction
  <2>2. call' = [call EXCEPT ![h] = c]
    BY <1>1, <2>1 DEF RegisterInv, RegisterTypeOK
  <2> QED
    BY <2>2 DEF SendRawTransaction
<1>4. id \in 0..MaxSends /\ id \in 1..MaxSends /\ id \in 1..id /\ sends < id
  BY <1>1
<1>5. c \in HandlerCalls /\ c.is = call[h].is /\ c.hash = call[h].hash /\ c.stage = "sent" /\ c.tx = id
  BY <1>1, <1>4 DEF HandlerCalls
<1>6. /\ t \in PoolTxs /\ t.nonce = Len(mined) /\ t.fn = call[h].is /\ t.hash = call[h].hash
  BY <1>2, <1>4 DEF PoolTxs
<1> HIDE DEF c, t
<1>7. \A g \in Handlers : call'[g] = IF g = h THEN c ELSE call[g]
  BY <1>3 DEF RegisterInv, RegisterTypeOK
<1>8. \A g \in Handlers : CallKnows(call[g])'
  <2>1. \A g \in Handlers : CallKnows(call[g])
    BY DEF RegisterInv
  <2>2. CallKnows(call[h])'
    <3>1. call'[h] = c /\ c.tx \in 1..sends'
      BY <1>3, <1>4, <1>5, <1>7
    <3> QED
      BY <1>2, <1>5, <3>1 DEF CallKnows
  <2>3. ASSUME NEW g \in Handlers \ {h} PROVE CallKnows(call[g])'
    <3>1. call'[g] = call[g] /\ mined' = mined /\ contract' = contract
      BY <1>3, <1>7
    <3>2. call[g].tx \in 1..sends => call[g].tx \in 1..sends'
      BY <1>1, <1>3, <1>4
    <3> QED
      BY <2>1, <3>1, <3>2 DEF CallKnows, IsMined
  <2> QED
    BY <2>2, <2>3
<1>9. RegisterTypeOK'
  <2>1. call' \in [Handlers -> HandlerCalls]
    BY <1>3, <1>5 DEF RegisterInv, RegisterTypeOK
  <2>2. told' \subseteq 1..sends'
    BY <1>1, <1>3 DEF RegisterInv, RegisterTypeOK
  <2> QED
    BY <1>3, <1>4, <2>1, <2>2 DEF RegisterInv, RegisterTypeOK
<1>10. pool' \subseteq PoolTxs /\ PoolAccepted'
  <2>1. Len(mined') < sends' /\ Len(mined') = Len(mined)
    BY <1>1, <1>3, <1>4
  <2> QED
    BY <1>1, <1>2, <1>3, <1>6, <2>1 DEF RegisterInv, PoolAccepted
<1>11. MinedStands'
  BY <1>3 DEF RegisterInv, MinedStands, Stands
<1> QED
  BY <1>1, <1>3, <1>4, <1>8, <1>9, <1>10, <1>11 DEF RegisterInv, IsMined

LEMMA ForgetStep ==
  ASSUME RegisterInv, NEW t \in pool, Forget(t)
  PROVE  RegisterInv'
<1>1. pool' \subseteq pool /\ UNCHANGED <<exam, call, contract, mined, sends, told>>
  BY DEF Forget
<1>2. RegisterTypeOK' /\ PoolAccepted' /\ MinedStands'
  BY <1>1 DEF RegisterInv, RegisterTypeOK, PoolAccepted, MinedStands, Stands
<1>3. \A g \in Handlers : CallKnows(call[g])'
  BY <1>1 DEF RegisterInv, CallKnows, IsMined
<1> QED
  BY <1>1, <1>2, <1>3 DEF RegisterInv, IsMined

\* A transaction the contract accepts leaves its mark ...
LEMMA AcceptedMarks ==
  ASSUME contract \in ContractRecords, NEW fn \in Calls, NEW hash \in Hashes,
         Accepts(contract, fn, hash), contract' = Executed(contract, fn, hash)
  PROVE  /\ contract' \in ContractRecords /\ contract'.isLocked
         /\ fn = "lockExam" => contract'.questionHash = hash
         /\ fn = "submitZKProof" => contract'.zkProofHash # NoHash
         /\ fn = "commitAnswerMerkleRoot" =>
                contract'.answerMerkleRoot = hash /\ contract'.answerCommitted
         /\ fn = "anchorCentreAnswerRoot" => contract'.anchorRoot = hash /\ contract'.anchored
<1>1. NoHash \notin Hashes
  BY RegisterAssumption
<1>2. CASE fn = "lockExam"
  <2>1. contract' = lockExam(contract, hash)
    BY <1>2 DEF Executed
  <2> QED
    BY <1>1, <1>2, <2>1 DEF lockExam, EmptyRecord, ContractRecords
<1>3. CASE fn = "submitZKProof"
  <2>1. contract.isLocked /\ contract' = submitZKProof(contract, hash)
    BY <1>3 DEF Accepts, Executed, maySubmitProof
  <2> QED
    BY <1>1, <1>3, <2>1 DEF submitZKProof, ContractRecords
<1>4. CASE fn = "commitAnswerMerkleRoot"
  <2>1. contract.isLocked /\ contract' = commitAnswerMerkleRoot(contract, hash)
    BY <1>4 DEF Accepts, Executed, mayCommitRoot
  <2> QED
    BY <1>1, <1>4, <2>1 DEF commitAnswerMerkleRoot, ContractRecords
<1>5. CASE fn = "anchorCentreAnswerRoot"
  <2>1. contract.isLocked /\ contract' = anchorCentreAnswerRoot(contract, hash)
    BY <1>5 DEF Accepts, Executed, mayAnchorCentre
  <2> QED
    BY <1>1, <1>5, <2>1 DEF anchorCentreAnswerRoot, ContractRecords
<1> QED
  BY <1>2, <1>3, <1>4, <1>5 DEF Calls

\* ... and effaces none of those before it.
LEMMA AcceptedKeeps ==
  ASSUME contract \in ContractRecords, NEW fn \in Calls, NEW hash \in Hashes,
         Accepts(contract, fn, hash), contract' = Executed(contract, fn, hash),
         NEW t, Stands(t), contract.isLocked,
         t.fn = "commitAnswerMerkleRoot" => contract.answerCommitted,
         t.fn = "anchorCentreAnswerRoot" => contract.anchored
  PROVE  /\ Stands(t)'
         /\ t.fn = "commitAnswerMerkleRoot" => contract'.answerCommitted
         /\ t.fn = "anchorCentreAnswerRoot" => contract'.anchored
<1>1. NoHash \notin Hashes
  BY RegisterAssumption
<1>2. CASE fn = "lockExam"
  BY <1>2 DEF Accepts, mayLock
<1>3. CASE fn = "submitZKProof"
  <2>1. contract' = submitZKProof(contract, hash)
    BY <1>3 DEF Executed
  <2> QED
    BY <1>1, <2>1 DEF submitZKProof, ContractRecords, Stands
<1>4. CASE fn = "commitAnswerMerkleRoot"
  <2>1. ~contract.answerCommitted /\ contract' = commitAnswerMerkleRoot(contract, hash)
    BY <1>4 DEF Accepts, Executed, mayCommitRoot
  <2> QED
    BY <2>1 DEF commitAnswerMerkleRoot, ContractRecords, Stands
<1>5. CASE fn = "anchorCentreAnswerRoot"
  <2>1. ~contract.anchored /\ contract' = anchorCentreAnswerRoot(contract, hash)
    BY <1>5 DEF Accepts, Executed, mayAnchorCentre
  <2> QED
    BY <2>1 DEF anchorCentreAnswerRoot, ContractRecords, Stands
<1> QED
  BY <1>2, <1>3, <1>4, <1>5 DEF Calls

LEMMA MineStep ==
  ASSUME RegisterInv, NEW t \in pool, Mine(t)
  PROVE  RegisterInv'
<1> DEFINE m == [tx |-> t.tx, fn |-> t.fn, hash |-> t.hash, ok |-> Accepts(contract, t.fn, t.hash)]
           n == Len(mined)
<1>1. /\ contract' = Executed(contract, t.fn, t.hash) /\ mined' = Append(mined, m)
      /\ pool' = pool \ {t} /\ UNCHANGED <<exam, call, sends, told>>
  BY DEF Mine
<1>2. /\ t \in PoolTxs /\ t.nonce = n /\ n < sends /\ Accepts(contract, t.fn, t.hash)
      /\ mined \in Seq(MinedTxs) /\ n \in Nat /\ sends \in 0..MaxSends /\ MaxSends \in Nat
  BY RegisterAssumption, LenProperties
     DEF Mine, RegisterInv, RegisterTypeOK, PoolAccepted
<1>3. m \in MinedTxs /\ m.ok /\ m.tx = t.tx /\ m.fn = t.fn /\ m.hash = t.hash
  BY <1>2 DEF MinedTxs, PoolTxs
<1>4. t.fn \in Calls /\ t.hash \in Hashes
  BY <1>2 DEF PoolTxs
<1> HIDE DEF m
<1>5. /\ mined' \in Seq(MinedTxs) /\ Len(mined') = n + 1 /\ DOMAIN mined = 1..n
      /\ DOMAIN mined' = 1..(n + 1) /\ mined'[n + 1] = m
      /\ \A k \in DOMAIN mined : mined'[k] = mined[k] /\ k \in DOMAIN mined'
  BY <1>1, <1>2, <1>3, AppendProperties, LenProperties
<1>6. /\ contract' \in ContractRecords /\ contract'.isLocked
      /\ m.fn = "lockExam" => contract'.questionHash = m.hash
      /\ m.fn = "submitZKProof" => contract'.zkProofHash # NoHash
      /\ m.fn = "commitAnswerMerkleRoot" => contract'.answerMerkleRoot = m.hash /\ contract'.answerCommitted
      /\ m.fn = "anchorCentreAnswerRoot" => contract'.anchorRoot = m.hash /\ contract'.anchored
  BY <1>1, <1>2, <1>3, <1>4, AcceptedMarks DEF RegisterInv
<1>7. MinedStands'
  <2> SUFFICES ASSUME NEW k \in DOMAIN mined'
               PROVE  /\ mined'[k].ok /\ Stands(mined[k])' /\ contract'.isLocked
                      /\ mined'[k].fn = "commitAnswerMerkleRoot" => contract'.answerCommitted
                      /\ mined'[k].fn = "anchorCentreAnswerRoot" => contract'.anchored
    BY DEF MinedStands
  <2>1. CASE k = n + 1
    BY <1>3, <1>5, <1>6, <2>1 DEF Stands
  <2>2. CASE k \in DOMAIN mined
    <3>1. PICK r : r = mined[k]
      OBVIOUS
    <3>2. /\ r.ok /\ Stands(r) /\ contract.isLocked
          /\ r.fn = "commitAnswerMerkleRoot" => contract.answerCommitted
          /\ r.fn = "anchorCentreAnswerRoot" => contract.anchored
      BY <2>2, <3>1 DEF RegisterInv, MinedStands
    <3>3. /\ Stands(r)'
          /\ r.fn = "commitAnswerMerkleRoot" => contract'.answerCommitted
          /\ r.fn = "anchorCentreAnswerRoot" => contract'.anchored
      BY <1>1, <1>2, <1>4, <3>2, AcceptedKeeps DEF RegisterInv
    <3>4. mined'[k] = r
      BY <1>5, <2>2, <3>1
    <3> QED
      BY <1>6, <3>2, <3>3, <3>4 DEF Stands
  <2> QED
    BY <1>2, <1>5, <2>1, <2>2
<1>8. ASSUME NEW id PROVE IsMined(id) => IsMined(id)'
  BY <1>5 DEF IsMined
<1>9. \A h \in Handlers : CallKnows(call[h])'
  <2> SUFFICES ASSUME NEW h \in Handlers PROVE CallKnows(call[h])'
    OBVIOUS
  <2>1. CallKnows(call[h]) /\ call[h].nonce \in Nat
    BY DEF RegisterInv, RegisterTypeOK, HandlerCalls
  <2>2. call[h].stage \in {"nonce", "estimated"} => call[h].nonce <= n
    BY <2>1 DEF CallKnows
  <2>3. call[h].stage \in {"nonce", "estimated"} => call[h].nonce < Len(mined')
    BY <1>2, <1>5, <2>1, <2>2
  <2>4. call[h].stage = "confirmed" => IsMined(call[h].tx)'
    BY <1>1, <1>5, <2>1 DEF CallKnows, IsMined
  <2> QED
    BY <1>1, <1>2, <1>5, <2>1, <2>3, <2>4 DEF CallKnows
<1>10. PoolAccepted'
  BY <1>1, <1>2, <1>5 DEF RegisterInv, PoolAccepted, PoolTxs
<1>11. RegisterTypeOK'
  <2>1. contract'.questionHash \in Hashes \cup {NoHash}
    BY <1>6 DEF ContractRecords
  <2> QED
    BY <1>1, <2>1 DEF RegisterInv, RegisterTypeOK
<1>12. pool' \subseteq PoolTxs /\ Len(mined') <= sends'
  BY <1>1, <1>2, <1>5 DEF RegisterInv
<1> QED
  BY <1>1, <1>5, <1>6, <1>7, <1>8, <1>9, <1>10, <1>11, <1>12 DEF RegisterInv, IsMined

LEMMA RegisterInvStep == RegisterInv /\ [RegisterNext]_registerVars => RegisterInv'
<1> SUFFICES ASSUME RegisterInv, [RegisterNext]_registerVars PROVE RegisterInv'
  OBVIOUS
<1>1. CASE UNCHANGED registerVars
  <2>1. UNCHANGED <<exam, call, contract, pool, mined, sends, told>>
    BY <1>1 DEF registerVars
  <2>2. RegisterTypeOK' /\ PoolAccepted' /\ MinedStands'
    BY <2>1 DEF RegisterInv, RegisterTypeOK, PoolAccepted, MinedStands, Stands
  <2>3. \A g \in Handlers : CallKnows(call[g])'
    BY <2>1 DEF RegisterInv, CallKnows, IsMined
  <2> QED
    BY <2>1, <2>2, <2>3 DEF RegisterInv, IsMined
<1>2. CASE RegisterNext
  BY <1>2, RequestStep, ReadNonceStep, EstimateGasStep, SendRawTransactionStep, ReceiptStep,
     CallFailsStep, CommitStep, CommitTreeStep, CommitStatusStep, RestartBackendStep, MineStep,
     ForgetStep DEF RegisterNext
<1> QED
  BY <1>1, <1>2

\* Whatever handlers overlap, fail late or are repeated, and whatever the node forgets or
\* replaces, a transaction is executed on the contract it was estimated on.
THEOREM RegisterInvariant == RegisterSpec => []RegisterInv
  BY RegisterInvInit, RegisterInvStep, PTL DEF RegisterSpec

\* What a request was answered with as confirmed, or the row of the exam names, was executed
\* and stands, though no receipt's status is looked at.
THEOREM ConfirmedAlwaysStands == RegisterSpec => []ConfirmedStands
<1>1. RegisterInv => ConfirmedStands
  BY DEF RegisterInv, MinedStands, ConfirmedStands, IsMined
<1> QED
  BY <1>1, RegisterInvariant, PTL

-----------------------------------------------------------------------------
(* The candidate roster. *)

\* The rows of pages.
Pages == [rows : Shown, modal : Enrolments \cup {NoEnrolment}, reason : BOOLEAN, loads : Seq(Shown)]

\* The requests of pages.
Requested == [is : {"none", "APPROVED", "REJECTED", "approved", "rejected"},
              read : Statuses \cup {"?"}, noted : BOOLEAN]

LEMMA RosterTypes ==
  RosterTypeOK <=>
    /\ roster \in [Admins -> Pages]
    /\ \A a \in Admins : Len(roster[a].loads) <= MaxPending
    /\ deciding \in [Admins -> [Enrolments -> Requested]]
    /\ enrolment \in [Enrolments -> [status : Statuses, noted : BOOLEAN]]
    /\ decisions \in Seq([by : Admins, of : Enrolments, to : {"APPROVED", "REJECTED"}])
BY DEF RosterTypeOK, Pages, Requested

\* A load that has read nothing.
LEMMA UnreadIsShown == Unread \in Shown
BY DEF Unread, Shown

LEMMA RosterInvInit == RosterInit => RosterInv
<1> SUFFICES ASSUME RosterInit PROVE RosterInv
  OBVIOUS
<1>1. <<Unread>> \in Seq(Shown) /\ Len(<<Unread>>) = 1
  BY UnreadIsShown
<1>2. NewRoster \in Pages /\ NewRoster.loads = <<Unread>>
  BY <1>1, UnreadIsShown DEF NewRoster, Pages
<1>3. NoDecision \in Requested /\ NoDecision.is = "none"
  BY DEF NoDecision, Requested
<1>4. \A a \in Admins : roster[a] = NewRoster
  BY DEF RosterInit
<1>5. \A a \in Admins, c \in Enrolments : deciding[a][c] = NoDecision
  BY DEF RosterInit
<1>6. roster \in [Admins -> Pages] /\ deciding \in [Admins -> [Enrolments -> Requested]]
  BY <1>2, <1>3 DEF RosterInit
<1>7. \A a \in Admins : Len(roster[a].loads) <= MaxPending
  <2>1. 1 <= MaxPending
    BY RosterAssumption
  <2>2. \A a \in Admins : roster[a].loads = <<Unread>>
    BY <1>2, <1>4
  <2> QED
    BY <1>1, <2>1, <2>2
<1>8. enrolment \in [Enrolments -> [status : Statuses, noted : BOOLEAN]]
  BY DEF RosterInit, Statuses
<1>9. decisions = <<>> /\ decisions \in Seq([by : Admins, of : Enrolments, to : {"APPROVED", "REJECTED"}])
  BY EmptySeq DEF RosterInit
<1>10. DecidesAnew
  BY <1>3, <1>5 DEF DecidesAnew
<1>11. StatusIsLastDecision
  <2>1. \A c \in Enrolments : {k \in DOMAIN decisions : decisions[k].of = c} = {}
    BY <1>9
  <2>2. \A c \in Enrolments : enrolment[c].status = "PENDING"
    BY DEF RosterInit
  <2> QED
    BY <2>1, <2>2 DEF StatusIsLastDecision
<1> QED
  BY <1>6, <1>7, <1>8, <1>9, <1>10, <1>11, RosterTypes DEF RosterInv

\* A step of a page alone, to one with no more loads than it may have.
LEMMA PageStep ==
  ASSUME RosterInv, NEW a \in Admins, NEW p \in Pages, Len(p.loads) <= MaxPending, Page(a, p)
  PROVE  /\ roster' \in [Admins -> Pages]
         /\ \A b \in Admins : Len(roster'[b].loads) <= MaxPending
         /\ UNCHANGED <<enrolment, decisions>>
<1>1. roster' = [roster EXCEPT ![a] = p] /\ UNCHANGED <<enrolment, decisions>>
  BY DEF Page
<1>2. /\ roster \in [Admins -> Pages]
      /\ \A b \in Admins : Len(roster[b].loads) <= MaxPending
  BY RosterTypes DEF RosterInv
<1>3. \A b \in Admins : roster'[b] = IF b = a THEN p ELSE roster[b]
  BY <1>1, <1>2
<1> QED
  BY <1>1, <1>2, <1>3

\* A request that changes to one that decides anew, or to none that decides.
LEMMA RequestChanges ==
  ASSUME RosterInv, NEW a \in Admins, NEW c \in Enrolments, NEW d \in Requested,
         d.is \in {"APPROVED", "REJECTED"} => d.read # d.is,
         deciding' = [deciding EXCEPT ![a][c] = d]
  PROVE  deciding' \in [Admins -> [Enrolments -> Requested]] /\ DecidesAnew'
<1>1. deciding \in [Admins -> [Enrolments -> Requested]]
  BY RosterTypes DEF RosterInv
<1>2. \A b \in Admins, e \in Enrolments :
        deciding'[b][e] = IF b = a /\ e = c THEN d ELSE deciding[b][e]
  BY <1>1
<1>3. deciding' \in [Admins -> [Enrolments -> Requested]]
  BY <1>1
<1> QED
  BY <1>2, <1>3 DEF RosterInv, DecidesAnew

\* Whatever page or request changes, while the enrolments and the log do not.
LEMMA RosterKeeps ==
  ASSUME RosterInv,
         /\ roster' \in [Admins -> Pages]
         /\ \A a \in Admins : Len(roster'[a].loads) <= MaxPending,
         deciding' \in [Admins -> [Enrolments -> Requested]] /\ DecidesAnew',
         UNCHANGED <<enrolment, decisions>>
  PROVE  RosterInv'
<1>1. StatusIsLastDecision'
  BY DEF RosterInv, StatusIsLastDecision
<1>2. RosterTypeOK'
  BY DEF RosterInv, RosterTypeOK, Pages, Requested
<1> QED
  BY <1>1, <1>2 DEF RosterInv

LEMMA DecideStep ==
  ASSUME RosterInv, NEW a \in Admins, NEW c \in Enrolments,
         NEW want \in {"none", "APPROVED", "REJECTED"}, Decide(a, c, want)
  PROVE  deciding' \in [Admins -> [Enrolments -> Requested]] /\ DecidesAnew'
<1> DEFINE d == [NoDecision EXCEPT !.is = want]
<1>1. d \in Requested /\ d.is = want /\ d.read = "?"
  BY DEF NoDecision, Requested
<1>2. deciding' = [deciding EXCEPT ![a][c] = d]
  BY DEF Decide
<1> HIDE DEF d
<1> QED
  BY <1>1, <1>2, RequestChanges

LEMMA RequestsStay ==
  ASSUME RosterInv, UNCHANGED deciding
  PROVE  deciding' \in [Admins -> [Enrolments -> Requested]] /\ DecidesAnew'
BY RosterTypes DEF RosterInv, DecidesAnew

LEMMA PagesStay ==
  ASSUME RosterInv, UNCHANGED roster
  PROVE  roster' \in [Admins -> Pages] /\ \A a \in Admins : Len(roster'[a].loads) <= MaxPending
BY RosterTypes DEF RosterInv

\* The page of an admin, and what it may load.
LEMMA PageTypes ==
  ASSUME RosterInv, NEW a \in Admins
  PROVE  /\ roster[a] \in Pages
         /\ roster[a].loads \in Seq(Shown)
         /\ Len(roster[a].loads) \in Nat /\ Len(roster[a].loads) <= MaxPending
<1>1. roster[a] \in Pages /\ Len(roster[a].loads) <= MaxPending
  BY RosterTypes DEF RosterInv
<1> QED
  BY <1>1, LenProperties DEF Pages

LEMMA ListCandidatesStep ==
  ASSUME RosterInv, NEW a \in Admins, NEW i \in DOMAIN roster[a].loads, ListCandidates(a, i)
  PROVE  RosterInv'
<1> DEFINE l == [c \in Enrolments |-> enrolment[c].status]
           p == [roster[a] EXCEPT !.loads[i] = l]
<1>1. Page(a, p) /\ UNCHANGED deciding
  BY DEF ListCandidates
<1>2. l \in Shown
  BY RosterTypes DEF RosterInv, Shown
<1> HIDE DEF l
<1>3. i \in 1..Len(roster[a].loads)
  BY PageTypes, LenProperties
<1>4. /\ [roster[a].loads EXCEPT ![i] = l] \in Seq(Shown)
      /\ Len([roster[a].loads EXCEPT ![i] = l]) = Len(roster[a].loads)
  BY <1>2, <1>3, PageTypes, ExceptSeq
<1>5. p \in Pages /\ p.loads = [roster[a].loads EXCEPT ![i] = l]
  BY <1>4, PageTypes DEF Pages
<1> HIDE DEF p
<1> QED
  BY <1>1, <1>4, <1>5, PageTypes, PageStep, RequestsStay, RosterKeeps

LEMMA ShowRowsStep ==
  ASSUME RosterInv, NEW a \in Admins, NEW i \in DOMAIN roster[a].loads, ShowRows(a, i)
  PROVE  RosterInv'
<1> DEFINE rest == RemoveAt(roster[a].loads, i)
           q == [roster[a] EXCEPT !.loads = rest]
           p == [roster[a] EXCEPT !.rows = roster[a].loads[i], !.loads = rest]
<1>1. (Page(a, q) \/ Page(a, p)) /\ UNCHANGED deciding
  BY DEF ShowRows
<1>2. rest \in Seq(Shown) /\ Len(rest) = Len(roster[a].loads) - 1
  BY PageTypes, WithoutOne
<1> HIDE DEF rest
<1>3. roster[a].loads[i] \in Shown
  BY PageTypes, LenProperties, ElementOfSeq
<1>4. q \in Pages /\ q.loads = rest /\ p \in Pages /\ p.loads = rest
  BY <1>2, <1>3, PageTypes DEF Pages
<1>5. Len(rest) <= MaxPending
  BY <1>2, PageTypes, RosterAssumption
<1> HIDE DEF p, q
<1> QED
  BY <1>1, <1>4, <1>5, PageStep, RequestsStay, RosterKeeps

LEMMA ModalStep ==
  ASSUME RosterInv, NEW a \in Admins, NEW m \in Enrolments \cup {NoEnrolment}, NEW r \in BOOLEAN,
         Page(a, [roster[a] EXCEPT !.modal = m, !.reason = r]), UNCHANGED deciding
  PROVE  RosterInv'
<1> DEFINE p == [roster[a] EXCEPT !.modal = m, !.reason = r]
<1>1. p \in Pages /\ p.loads = roster[a].loads
  BY PageTypes DEF Pages
<1>2. Page(a, p)
  OBVIOUS
<1> HIDE DEF p
<1> QED
  BY <1>1, <1>2, PageTypes, PageStep, RequestsStay, RosterKeeps

LEMMA TypeReasonStep ==
  ASSUME RosterInv, NEW a \in Admins, TypeReason(a)
  PROVE  RosterInv'
<1> DEFINE p == [roster[a] EXCEPT !.reason = TRUE]
<1>1. p \in Pages /\ p.loads = roster[a].loads
  BY PageTypes DEF Pages
<1>2. Page(a, p) /\ UNCHANGED deciding
  BY DEF TypeReason
<1> HIDE DEF p
<1> QED
  BY <1>1, <1>2, PageTypes, PageStep, RequestsStay, RosterKeeps

LEMMA ShowDecisionStep ==
  ASSUME RosterInv, NEW a \in Admins, NEW c \in Enrolments, ShowDecision(a, c)
  PROVE  RosterInv'
<1> DEFINE more == Append(roster[a].loads, Unread)
           p == [roster[a] EXCEPT !.loads = more]
           q == [p EXCEPT !.modal = NoEnrolment, !.reason = FALSE]
<1>1. more \in Seq(Shown) /\ Len(more) = Len(roster[a].loads) + 1
  BY PageTypes, UnreadIsShown, AppendProperties
<1>2. Len(more) <= MaxPending
  BY <1>1, PageTypes, RosterAssumption DEF ShowDecision
<1>3. (Page(a, p) \/ Page(a, q)) /\ Decide(a, c, "none")
  BY DEF ShowDecision
<1> HIDE DEF more
<1>4. p \in Pages /\ p.loads = more /\ q \in Pages /\ q.loads = more
  BY <1>1, PageTypes DEF Pages
<1> HIDE DEF p, q
<1> QED
  BY <1>2, <1>3, <1>4, PageStep, DecideStep, RosterKeeps

LEMMA ReadEnrolmentStep ==
  ASSUME RosterInv, NEW a \in Admins, NEW c \in Enrolments, ReadEnrolment(a, c)
  PROVE  RosterInv'
<1> DEFINE d == [deciding[a][c] EXCEPT !.read = enrolment[c].status, !.noted = enrolment[c].noted]
<1>1. /\ deciding[a][c] \in Requested
      /\ deciding \in [Admins -> [Enrolments -> Requested]]
      /\ enrolment[c] \in [status : Statuses, noted : BOOLEAN]
  BY RosterTypes DEF RosterInv
<1>2. d \in Requested /\ d.is = deciding[a][c].is /\ d.read = enrolment[c].status
  BY <1>1 DEF Requested
<1>3. enrolment[c].status # deciding[a][c].is /\ UNCHANGED <<roster, enrolment, decisions>>
  BY DEF ReadEnrolment, MayDecide
<1>4. deciding' = [deciding EXCEPT ![a][c] = d]
  BY <1>1 DEF ReadEnrolment
<1> HIDE DEF d
<1> QED
  BY <1>2, <1>3, <1>4, RequestChanges, PagesStay, RosterKeeps

\* The log's last entry about a candidate is the one that was just appended; the entries
\* about others stay as they were.
LEMMA CommitDecisionStep ==
  ASSUME RosterInv, NEW a \in Admins, NEW c \in Enrolments, CommitDecision(a, c)
  PROVE  RosterInv'
<1> DEFINE d == deciding[a][c]
           e == [by |-> a, of |-> c, to |-> d.is]
           Decided == [by : Admins, of : Enrolments, to : {"APPROVED", "REJECTED"}]
           after == [NoDecision EXCEPT !.is = IF d.is = "REJECTED" THEN "rejected" ELSE "approved"]
<1>1. /\ d.is \in {"APPROVED", "REJECTED"} /\ d.read # d.is
      /\ decisions' = Append(decisions, e)
      /\ deciding' = [deciding EXCEPT ![a][c] = after]
      /\ UNCHANGED roster
  BY DEF CommitDecision, RosterInv, DecidesAnew
<1>2. after \in Requested /\ after.is \in {"approved", "rejected"}
  BY DEF NoDecision, Requested
<1> HIDE DEF after
<1>3. deciding' \in [Admins -> [Enrolments -> Requested]] /\ DecidesAnew'
  BY <1>1, <1>2, RequestChanges
<1>4. /\ deciding[a][c] \in Requested
      /\ enrolment \in [Enrolments -> [status : Statuses, noted : BOOLEAN]]
      /\ decisions \in Seq(Decided)
  BY RosterTypes DEF RosterInv
<1>5. /\ enrolment' \in [Enrolments -> [status : Statuses, noted : BOOLEAN]]
      /\ enrolment'[c].status = d.is
      /\ \A o \in Enrolments : o # c => enrolment'[o] = enrolment[o]
  <2>1. enrolment' = [enrolment EXCEPT
          ![c].status = IF d.read = d.is THEN @ ELSE d.is,
          ![c].noted = IF d.is = "REJECTED" THEN TRUE ELSE @ /\ ~d.noted]
    BY DEF CommitDecision
  <2> DEFINE s == IF d.read = d.is THEN enrolment[c].status ELSE d.is
             n == IF d.is = "REJECTED" THEN TRUE ELSE enrolment[c].noted /\ ~d.noted
             r == [enrolment[c] EXCEPT !.status = s, !.noted = n]
  <2>2. enrolment' = [enrolment EXCEPT ![c] = r]
    BY <1>4, <2>1
  <2>3. s = d.is /\ n \in BOOLEAN /\ s \in Statuses
    BY <1>1, <1>4 DEF Statuses
  <2> HIDE DEF s, n
  <2>4. r \in [status : Statuses, noted : BOOLEAN] /\ r.status = d.is
    BY <1>4, <2>3
  <2> HIDE DEF r
  <2> QED
    BY <1>4, <2>2, <2>4
<1>6. e \in Decided /\ e.of = c /\ e.to = d.is
  BY <1>1
<1> HIDE DEF e, d
<1>7. /\ decisions' \in Seq(Decided)
      /\ Len(decisions') = Len(decisions) + 1 /\ Len(decisions) \in Nat
      /\ DOMAIN decisions = 1..Len(decisions) /\ DOMAIN decisions' = 1..(Len(decisions) + 1)
      /\ \A i \in 1..Len(decisions) : decisions'[i] = decisions[i]
      /\ decisions'[Len(decisions) + 1] = e
  BY <1>1, <1>4, <1>6, AppendProperties, LenProperties
<1>8. StatusIsLastDecision'
  <2> SUFFICES ASSUME NEW o \in Enrolments
               PROVE  LET about == {k \in DOMAIN decisions' : decisions'[k].of = o}
                      IN  IF about = {} THEN enrolment'[o].status = "PENDING"
                          ELSE \E k \in about : /\ \A j \in about : j <= k
                                                /\ enrolment'[o].status = decisions'[k].to
    BY DEF StatusIsLastDecision
  <2> DEFINE before == {k \in DOMAIN decisions : decisions[k].of = o}
             about == {k \in DOMAIN decisions' : decisions'[k].of = o}
  <2>1. CASE o = c
    <3>1. Len(decisions) + 1 \in about /\ \A j \in about : j <= Len(decisions) + 1
      BY <1>6, <1>7, <2>1
    <3>2. enrolment'[o].status = decisions'[Len(decisions) + 1].to
      BY <1>5, <1>6, <1>7, <2>1
    <3> QED
      BY <3>1, <3>2
  <2>2. CASE o # c
    <3>1. about = before
      BY <1>6, <1>7, <2>2
    <3>2. \A k \in before : decisions'[k] = decisions[k]
      BY <1>7
    <3>3. enrolment'[o].status = enrolment[o].status
      BY <1>5, <2>2
    <3>4. IF before = {} THEN enrolment[o].status = "PENDING"
          ELSE \E k \in before : /\ \A j \in before : j <= k
                                 /\ enrolment[o].status = decisions[k].to
      BY DEF RosterInv, StatusIsLastDecision
    <3> HIDE DEF before, about
    <3>5. CASE before = {}
      BY <3>1, <3>3, <3>4, <3>5 DEF about
    <3>6. CASE before # {}
      <4>1. PICK k \in before : (\A j \in before : j <= k) /\ enrolment[o].status = decisions[k].to
        BY <3>4, <3>6
      <4>2. about # {} /\ k \in about /\ (\A j \in about : j <= k)
            /\ enrolment'[o].status = decisions'[k].to
        BY <3>1, <3>2, <3>3, <4>1
      <4> QED
        BY <4>2 DEF about
    <3> QED
      BY <3>5, <3>6
  <2> QED
    BY <2>1, <2>2
<1>9. /\ roster' \in [Admins -> Pages]
      /\ \A b \in Admins : Len(roster'[b].loads) <= MaxPending
  BY <1>1, PagesStay
<1>10. RosterTypeOK'
  BY <1>3, <1>5, <1>7, <1>9 DEF RosterTypeOK, Pages, Requested
<1> QED
  BY <1>3, <1>8, <1>10 DEF RosterInv

\* Whatever step is taken, the invariant stands.
LEMMA RosterInvStep == RosterInv /\ [RosterNext]_rosterVars => RosterInv'
<1> SUFFICES ASSUME RosterInv, [RosterNext]_rosterVars PROVE RosterInv'
  OBVIOUS
<1>1. CASE UNCHANGED rosterVars
  BY <1>1, PagesStay, RequestsStay, RosterKeeps DEF rosterVars
<1>2. CASE RosterNext
  <2>1. PICK a \in Admins :
          \/ \E i \in DOMAIN roster[a].loads : ListCandidates(a, i) \/ ShowRows(a, i)
          \/ \E c \in Enrolments :
               \/ ApproveRow(a, c) \/ OpenModal(a, c) \/ ShowDecision(a, c) \/ DecisionFails(a, c)
               \/ ReadEnrolment(a, c) \/ CommitDecision(a, c)
          \/ TypeReason(a) \/ CancelModal(a) \/ ConfirmReject(a)
    BY <1>2 DEF RosterNext
  <2>2. CASE \E i \in DOMAIN roster[a].loads : ListCandidates(a, i) \/ ShowRows(a, i)
    BY <2>2, ListCandidatesStep, ShowRowsStep
  <2>3. CASE \E c \in Enrolments : ApproveRow(a, c) \/ DecisionFails(a, c)
    BY <2>3, DecideStep, PagesStay, RosterKeeps DEF ApproveRow, DecisionFails
  <2>4. CASE \E c \in Enrolments : OpenModal(a, c)
    BY <2>4, ModalStep DEF OpenModal
  <2>5. CASE \E c \in Enrolments : ShowDecision(a, c) \/ ReadEnrolment(a, c) \/ CommitDecision(a, c)
    BY <2>5, ShowDecisionStep, ReadEnrolmentStep, CommitDecisionStep
  <2>6. CASE TypeReason(a)
    BY <2>6, TypeReasonStep
  <2>7. CASE CancelModal(a)
    BY <2>7, ModalStep DEF CancelModal
  <2>8. CASE ConfirmReject(a)
    <3>1. roster[a].modal \in Enrolments
      BY <2>8, PageTypes DEF ConfirmReject, Pages
    <3>2. Decide(a, roster[a].modal, "REJECTED") /\ UNCHANGED <<roster, enrolment, decisions>>
      BY <2>8 DEF ConfirmReject
    <3> QED
      BY <3>1, <3>2, DecideStep, PagesStay, RosterKeeps
  <2> QED
    BY <2>1, <2>2, <2>3, <2>4, <2>5, <2>6, <2>7, <2>8
<1> QED
  BY <1>1, <1>2

\* The invariant of the roster: types, and what a request under way rests on.
THEOREM RosterInvariant == RosterSpec => []RosterInv
<1>1. RosterInit => RosterInv
  BY RosterInvInit
<1>2. RosterInv /\ [RosterNext]_rosterVars => RosterInv'
  BY RosterInvStep
<1> QED
  BY <1>1, <1>2, PTL DEF RosterSpec

\* Whatever decisions of however many admins overlap, are lost, repeated or rest on a stale
\* page, the status of a candidate is the one the audit log says was decided last
\* (approve_candidate, reject_candidate).
THEOREM StatusAlwaysLastDecision == RosterSpec => []StatusIsLastDecision
<1>1. RosterInv => StatusIsLastDecision
  BY DEF RosterInv
<1> QED
  BY <1>1, RosterInvariant, PTL

-----------------------------------------------------------------------------
(* Enrolment and registration of staff. *)

\* A form, an enrolment, a request of a member of staff, a call of enrol_candidate, the
\* approvals page, one of its rows and one of its calls.
Forms == [lists : {"loading", "shown", "down"}, role : StaffRoles, filled : BOOLEAN,
          cam : {"idle", "live", "denied", "captured"}, call : Requests,
          as : StaffRoles, seen : 0..MaxRows, result : 0..MaxRows]

EnrolmentRows == [by : Tabs, state : {StateOf[CentreOf[t]] : t \in Tabs},
                  seq : 1..MaxRows, after : 0..MaxRows]

StaffRows == [by : Tabs, role : StaffRoles, approver : {"SYSTEM_ADMIN", "CENTER_ADMIN"},
              code : Codes, fp : BOOLEAN]

EnrolCalls == [by : Tabs, count : 0..MaxRows, after : 0..MaxRows, heard : BOOLEAN]

DeskRows == [listed : BOOLEAN, code : Codes, fp : BOOLEAN]

Desks == [row : [1..MaxRows -> DeskRows], busy : 0..MaxRows]

DeskCalls == [is : {"issue", "fp"}, row : 1..MaxRows, done : BOOLEAN, code : Codes]

LEMMA RegistrationTypes ==
  RegistrationTypeOK <=>
    /\ tab \in [Tabs -> Forms]
    /\ enrolled \in Seq(EnrolmentRows)
    /\ applied \in Seq(StaffRows)
    /\ handling \in Seq(EnrolCalls)
    /\ Stored + Len(handling) <= MaxRows
    /\ desk \in Desks
    /\ errands \in Seq(DeskCalls)
    /\ issued \in Codes
BY DEF RegistrationTypeOK, Forms, EnrolmentRows, StaffRows, EnrolCalls, DeskRows, Desks, DeskCalls

\* The same of the next state.
LEMMA RegistrationTypesNext ==
  RegistrationTypeOK' <=>
    /\ tab' \in [Tabs -> Forms]
    /\ enrolled' \in Seq(EnrolmentRows)
    /\ applied' \in Seq(StaffRows)
    /\ handling' \in Seq(EnrolCalls)
    /\ Len(enrolled') + Len(applied') + Len(handling') <= MaxRows
    /\ desk' \in Desks
    /\ errands' \in Seq(DeskCalls)
    /\ issued' \in Codes
BY DEF RegistrationTypeOK, Forms, EnrolmentRows, StaffRows, EnrolCalls, DeskRows, Desks, DeskCalls, Stored

LEMMA RegistrationLengths ==
  ASSUME RegistrationInv
  PROVE  /\ Len(enrolled) \in Nat /\ DOMAIN enrolled = 1..Len(enrolled)
         /\ Len(applied) \in Nat /\ DOMAIN applied = 1..Len(applied)
         /\ Len(handling) \in Nat /\ DOMAIN handling = 1..Len(handling)
         /\ Len(errands) \in Nat /\ DOMAIN errands = 1..Len(errands)
         /\ Len(enrolled) + Len(applied) + Len(handling) <= MaxRows
         /\ MaxRows \in Nat /\ MaxIssues \in Nat
<1>1. /\ enrolled \in Seq(EnrolmentRows) /\ applied \in Seq(StaffRows)
      /\ handling \in Seq(EnrolCalls) /\ errands \in Seq(DeskCalls)
      /\ Stored + Len(handling) <= MaxRows
  BY RegistrationTypes DEF RegistrationInv
<1> QED
  BY <1>1, LenProperties, RegistrationAssumption DEF Stored

LEMMA NoDeskType == NoDesk \in Desks
<1>1. [listed |-> FALSE, code |-> 0, fp |-> FALSE] \in DeskRows
  BY RegistrationAssumption DEF DeskRows, Codes
<1> QED
  BY <1>1, RegistrationAssumption DEF NoDesk, Desks

LEMMA RegistrationInvInit == RegistrationInit => RegistrationInv
<1> SUFFICES ASSUME RegistrationInit PROVE RegistrationInv
  OBVIOUS
<1>1. Blank("CENTER_INVIGILATOR") \in Forms
  BY RegistrationAssumption DEF Blank, Forms, StaffRoles, Requests
<1>2. tab \in [Tabs -> Forms]
  BY <1>1 DEF RegistrationInit
<1>3. /\ enrolled = <<>> /\ enrolled \in Seq(EnrolmentRows)
      /\ applied = <<>> /\ applied \in Seq(StaffRows)
      /\ handling = <<>> /\ handling \in Seq(EnrolCalls)
      /\ errands = <<>> /\ errands \in Seq(DeskCalls)
  BY EmptySeq DEF RegistrationInit
<1>4. Stored + Len(handling) <= MaxRows
  BY <1>3, RegistrationAssumption DEF Stored
<1>5. desk \in Desks /\ issued \in Codes
  BY NoDeskType, RegistrationAssumption DEF RegistrationInit, Codes
<1>6. CountsKept
  BY <1>3 DEF CountsKept
<1> QED
  BY <1>2, <1>3, <1>4, <1>5, <1>6, RegistrationTypes DEF RegistrationInv

\* Only the forms change.
LEMMA FormsChange ==
  ASSUME RegistrationInv, tab' \in [Tabs -> Forms],
         UNCHANGED <<enrolled, applied, handling, deskVars>>
  PROVE  RegistrationInv'
<1>1. CountsKept'
  BY DEF RegistrationInv, CountsKept
<1>2. RegistrationTypeOK'
  BY RegistrationTypes, RegistrationTypesNext DEF RegistrationInv, deskVars, Stored
<1> QED
  BY <1>1, <1>2 DEF RegistrationInv

\* Only the approvals page, its calls and what they change of the stored requests.
LEMMA DeskChanges ==
  ASSUME RegistrationInv, applied' \in Seq(StaffRows), Len(applied') = Len(applied),
         desk' \in Desks, errands' \in Seq(DeskCalls), issued' \in Codes,
         UNCHANGED <<tab, enrolled, handling>>
  PROVE  RegistrationInv'
<1>1. CountsKept'
  BY DEF RegistrationInv, CountsKept
<1>2. RegistrationTypeOK'
  BY RegistrationTypes, RegistrationTypesNext DEF RegistrationInv, Stored
<1> QED
  BY <1>1, <1>2 DEF RegistrationInv

LEMMA FillStep ==
  ASSUME RegistrationInv, NEW t \in Tabs, NEW f \in Forms, Fill(t, f)
  PROVE  RegistrationInv'
<1>1. tab' \in [Tabs -> Forms] /\ UNCHANGED <<enrolled, applied, handling, deskVars>>
  BY RegistrationTypes DEF RegistrationInv, Fill
<1> QED
  BY <1>1, FormsChange

LEMMA FormType ==
  ASSUME RegistrationInv, NEW t \in Tabs
  PROVE  tab[t] \in Forms
BY RegistrationTypes DEF RegistrationInv

LEMMA FormSteps ==
  ASSUME RegistrationInv, NEW t \in Tabs,
         \/ ListsArrive(t) \/ FillStaffForm(t) \/ FillCandidateForm(t)
         \/ EnableCamera(t) \/ CaptureFace(t)
         \/ SubmitRegistration(t) \/ SubmitEnrolment(t) \/ ShowRoll(t) \/ ShowPending(t)
         \/ \E r \in StaffRoles : ChooseRole(t, r)
  PROVE  RegistrationInv'
<1>1. CASE ListsArrive(t)
  <2>1. PICK l \in {"shown", "down"} : Fill(t, [tab[t] EXCEPT !.lists = l])
    BY <1>1 DEF ListsArrive
  <2>2. [tab[t] EXCEPT !.lists = l] \in Forms
    BY FormType DEF Forms
  <2> QED
    BY <2>1, <2>2, FillStep
<1>2. CASE FillStaffForm(t) \/ FillCandidateForm(t)
  <2>1. [tab[t] EXCEPT !.filled = TRUE] \in Forms
    BY FormType DEF Forms
  <2> QED
    BY <1>2, <2>1, FillStep DEF FillStaffForm, FillCandidateForm
<1>3. CASE EnableCamera(t)
  <2>1. PICK c \in {"live", "denied"} : Fill(t, [tab[t] EXCEPT !.cam = c])
    BY <1>3 DEF EnableCamera
  <2>2. [tab[t] EXCEPT !.cam = c] \in Forms
    BY FormType DEF Forms
  <2> QED
    BY <2>1, <2>2, FillStep
<1>4. CASE CaptureFace(t)
  <2>1. [tab[t] EXCEPT !.cam = "captured"] \in Forms
    BY FormType DEF Forms
  <2> QED
    BY <1>4, <2>1, FillStep DEF CaptureFace
<1>5. CASE SubmitRegistration(t)
  <2>1. [tab[t] EXCEPT !.call = "sent", !.as = tab[t].role] \in Forms
    BY FormType DEF Forms, Requests
  <2> QED
    BY <1>5, <2>1, FillStep DEF SubmitRegistration
<1>6. CASE SubmitEnrolment(t)
  <2>1. [tab[t] EXCEPT !.call = "sent"] \in Forms
    BY FormType DEF Forms, Requests
  <2> QED
    BY <1>6, <2>1, FillStep DEF SubmitEnrolment
<1>7. CASE ShowRoll(t) \/ ShowPending(t)
  <2>1. [tab[t] EXCEPT !.call = "none", !.result = tab[t].seen] \in Forms
    BY FormType DEF Forms, Requests
  <2> QED
    BY <1>7, <2>1, FillStep DEF ShowRoll, ShowPending
<1>8. CASE \E r \in StaffRoles : ChooseRole(t, r)
  <2>1. PICK r \in StaffRoles : Fill(t, [tab[t] EXCEPT !.role = r])
    BY <1>8 DEF ChooseRole
  <2>2. [tab[t] EXCEPT !.role = r] \in Forms
    BY FormType DEF Forms
  <2> QED
    BY <2>1, <2>2, FillStep
<1> QED
  BY <1>1, <1>2, <1>3, <1>4, <1>5, <1>6, <1>7, <1>8

LEMMA RegistrationFailsStep ==
  ASSUME RegistrationInv, NEW t \in Tabs, RegistrationFails(t)
  PROVE  RegistrationInv'
<1>1. /\ tab' = [tab EXCEPT ![t].call = "none"]
      /\ handling' = [i \in DOMAIN handling |->
           IF handling[i].by = t THEN [handling[i] EXCEPT !.heard = FALSE] ELSE handling[i]]
      /\ UNCHANGED <<enrolled, applied, deskVars>>
  BY DEF RegistrationFails
<1>2. handling \in Seq(EnrolCalls) /\ tab \in [Tabs -> Forms]
  BY RegistrationTypes DEF RegistrationInv
<1>3. tab' \in [Tabs -> Forms]
  <2>1. [tab[t] EXCEPT !.call = "none"] \in Forms
    BY FormType DEF Forms, Requests
  <2>2. tab' = [tab EXCEPT ![t] = [tab[t] EXCEPT !.call = "none"]]
    BY <1>1, <1>2
  <2> QED
    BY <1>2, <2>1, <2>2
<1>4. \A i \in 1..Len(handling) : handling[i] \in EnrolCalls
  BY <1>2, ElementOfSeq
<1>5. DOMAIN handling = 1..Len(handling) /\ Len(handling) \in Nat
  BY RegistrationLengths
<1>6. \A i \in 1..Len(handling) :
        /\ handling'[i] \in EnrolCalls
        /\ handling'[i].count = handling[i].count /\ handling'[i].after = handling[i].after
  BY <1>1, <1>4, <1>5 DEF EnrolCalls
<1>7. handling' \in [1..Len(handling) -> EnrolCalls]
  <2>1. handling' = [i \in 1..Len(handling) |-> handling'[i]]
    BY <1>1, <1>5
  <2> QED
    BY <1>6, <2>1
<1>8. handling' \in Seq(EnrolCalls) /\ Len(handling') = Len(handling)
  BY <1>5, <1>7, SeqDef, LenProperties
<1>9. CountsKept'
  <2>1. DOMAIN handling' = 1..Len(handling)
    BY <1>7
  <2> QED
    BY <1>1, <1>5, <1>6, <2>1 DEF RegistrationInv, CountsKept
<1>10. RegistrationTypeOK'
  BY <1>1, <1>3, <1>8, RegistrationTypes, RegistrationTypesNext DEF RegistrationInv, deskVars, Stored
<1> QED
  BY <1>9, <1>10 DEF RegistrationInv

LEMMA BeginEnrolmentStep ==
  ASSUME RegistrationInv, NEW t \in Tabs, BeginEnrolment(t)
  PROVE  RegistrationInv'
<1> DEFINE h == [by |-> t, count |-> Len(enrolled), after |-> Len(enrolled), heard |-> TRUE]
<1>1. /\ handling' = Append(handling, h) /\ tab' = [tab EXCEPT ![t].call = "served"]
      /\ Stored + Len(handling) < MaxRows
      /\ UNCHANGED <<enrolled, applied, deskVars>>
  BY DEF BeginEnrolment, CountEnrolled
<1>2. handling \in Seq(EnrolCalls) /\ tab \in [Tabs -> Forms]
  BY RegistrationTypes DEF RegistrationInv
<1>3. /\ Len(enrolled) \in 0..MaxRows
      /\ Len(enrolled) + Len(applied) + Len(handling) + 1 <= MaxRows
  BY <1>1, RegistrationLengths DEF Stored
<1>4. h \in EnrolCalls /\ h.count = Len(enrolled) /\ h.after = Len(enrolled)
  BY <1>3 DEF EnrolCalls
<1> HIDE DEF h
<1>5. /\ handling' \in Seq(EnrolCalls) /\ Len(handling') = Len(handling) + 1
      /\ \A i \in 1..Len(handling) : handling'[i] = handling[i]
      /\ handling'[Len(handling) + 1] = h
  BY <1>1, <1>2, <1>4, AppendProperties
<1>6. tab' \in [Tabs -> Forms]
  <2>1. [tab[t] EXCEPT !.call = "served"] \in Forms
    BY FormType DEF Forms, Requests
  <2>2. tab' = [tab EXCEPT ![t] = [tab[t] EXCEPT !.call = "served"]]
    BY <1>1, <1>2
  <2> QED
    BY <1>2, <2>1, <2>2
<1>7. CountsKept'
  <2>1. DOMAIN handling' = 1..(Len(handling) + 1) /\ DOMAIN handling = 1..Len(handling)
        /\ Len(handling) \in Nat
    BY <1>5, LenProperties, RegistrationLengths
  <2>2. \A i \in DOMAIN handling : handling[i].count = handling[i].after /\ handling[i].after <= Len(enrolled)
    BY DEF RegistrationInv, CountsKept
  <2>3. \A i \in DOMAIN handling' : handling'[i] = h \/ (i \in DOMAIN handling /\ handling'[i] = handling[i])
    BY <1>5, <2>1
  <2>4. \A i \in DOMAIN handling' :
          handling'[i].count = handling'[i].after /\ handling'[i].after <= Len(enrolled)
    BY <1>3, <1>4, <2>2, <2>3
  <2> QED
    BY <1>1, <2>4 DEF RegistrationInv, CountsKept
<1>8. RegistrationTypeOK'
  BY <1>1, <1>3, <1>5, <1>6, RegistrationLengths, RegistrationTypes, RegistrationTypesNext
     DEF RegistrationInv, deskVars
<1> QED
  BY <1>7, <1>8 DEF RegistrationInv

\* The form that hears the answer.
LEMMA AnswerTypes ==
  ASSUME RegistrationInv, NEW t \in Tabs, NEW heard \in BOOLEAN, NEW row \in 0..MaxRows,
         Answer(t, heard, row)
  PROVE  tab' \in [Tabs -> Forms]
<1>1. tab \in [Tabs -> Forms]
  BY RegistrationTypes DEF RegistrationInv
<1>2. [tab[t] EXCEPT !.call = "answered", !.seen = row] \in Forms
  BY FormType DEF Forms, Requests
<1>3. CASE heard
  <2>1. tab' = [tab EXCEPT ![t] = [tab[t] EXCEPT !.call = "answered", !.seen = row]]
    BY <1>1, <1>3 DEF Answer
  <2> QED
    BY <1>1, <1>2, <2>1
<1> QED
  BY <1>1, <1>3 DEF Answer

\* The roll number of an enrolment is the one after what its call counted, and calls that
\* are still under way counted no more than there are now.
LEMMA CommitEnrolmentStep ==
  ASSUME RegistrationInv, NEW i \in DOMAIN handling, CommitEnrolment(i)
  PROVE  RegistrationInv'
<1> DEFINE h == handling[i]
           row == [by |-> h.by, state |-> StateOf[CentreOf[h.by]], seq |-> h.count + 1, after |-> h.after]
<1>1. /\ enrolled' = Append(enrolled, row)
      /\ handling' = RemoveAt(handling, i)
      /\ Answer(h.by, h.heard, Len(enrolled) + 1)
      /\ UNCHANGED <<applied, deskVars>>
  BY DEF CommitEnrolment
<1>2. handling \in Seq(EnrolCalls) /\ enrolled \in Seq(EnrolmentRows)
  BY RegistrationTypes DEF RegistrationInv
<1>3. h \in EnrolCalls
  BY <1>2, ElementOfSeq, RegistrationLengths
<1>4. h.count = h.after /\ h.after <= Len(enrolled)
  BY DEF RegistrationInv, CountsKept
<1>5. Len(enrolled) + 1 <= MaxRows /\ Len(enrolled) \in Nat /\ Len(handling) >= 1
  BY RegistrationLengths
<1>6. row \in EnrolmentRows /\ row.seq = h.after + 1 /\ row.after = h.after
  <2>1. h.count + 1 \in 1..MaxRows /\ h.by \in Tabs /\ h.after \in 0..MaxRows
    BY <1>3, <1>4, <1>5, RegistrationLengths DEF EnrolCalls
  <2> QED
    BY <1>4, <2>1 DEF EnrolmentRows
<1>7. tab' \in [Tabs -> Forms]
  <2>1. h.by \in Tabs /\ h.heard \in BOOLEAN /\ Len(enrolled) + 1 \in 0..MaxRows
    BY <1>3, <1>5, RegistrationLengths DEF EnrolCalls
  <2> QED
    BY <1>1, <2>1, AnswerTypes
<1> HIDE DEF row
<1>8. /\ enrolled' \in Seq(EnrolmentRows) /\ Len(enrolled') = Len(enrolled) + 1
      /\ \A k \in 1..Len(enrolled) : enrolled'[k] = enrolled[k]
      /\ enrolled'[Len(enrolled) + 1] = row
  BY <1>1, <1>2, <1>6, AppendProperties
<1>9. /\ handling' \in Seq(EnrolCalls) /\ Len(handling') = Len(handling) - 1
      /\ \A k \in DOMAIN handling' : handling'[k] = handling[IF k < i THEN k ELSE k + 1]
  BY <1>1, <1>2, WithoutOne
<1>10. CountsKept'
  <2>1. ASSUME NEW k \in DOMAIN handling'
        PROVE  handling'[k].count = handling'[k].after /\ handling'[k].after <= Len(enrolled')
    <3>1. k \in 1..(Len(handling) - 1)
      BY <1>9, LenProperties
    <3>2. (IF k < i THEN k ELSE k + 1) \in DOMAIN handling
      BY <3>1, RegistrationLengths
    <3>3. PICK n \in DOMAIN handling : handling'[k] = handling[n]
      BY <1>9, <3>2
    <3>4. handling[n].count = handling[n].after /\ handling[n].after <= Len(enrolled)
      BY DEF RegistrationInv, CountsKept
    <3>5. handling[n].after \in Nat
      <4>1. handling[n] \in EnrolCalls
        BY <1>2, ElementOfSeq, RegistrationLengths
      <4> QED
        BY <4>1 DEF EnrolCalls
    <3> QED
      BY <1>5, <1>8, <3>3, <3>4, <3>5
  <2>2. ASSUME NEW k \in DOMAIN enrolled'
        PROVE  enrolled'[k].seq = enrolled'[k].after + 1 /\ enrolled'[k].after < k
    <3>1. k \in 1..(Len(enrolled) + 1)
      BY <1>8, LenProperties
    <3>2. CASE k = Len(enrolled) + 1
      <4>1. h.after \in Nat
        BY <1>3 DEF EnrolCalls
      <4> QED
        BY <1>4, <1>5, <1>6, <1>8, <3>2, <4>1
    <3>3. CASE k # Len(enrolled) + 1
      <4>1. k \in DOMAIN enrolled /\ enrolled'[k] = enrolled[k]
        BY <1>5, <1>8, <3>1, <3>3, RegistrationLengths
      <4> QED
        BY <4>1 DEF RegistrationInv, CountsKept
    <3> QED
      BY <3>2, <3>3
  <2> QED
    BY <2>1, <2>2 DEF CountsKept
<1>11. RegistrationTypeOK'
  BY <1>1, <1>7, <1>8, <1>9, RegistrationLengths, RegistrationTypes, RegistrationTypesNext
     DEF RegistrationInv, deskVars
<1> QED
  BY <1>10, <1>11 DEF RegistrationInv

LEMMA RegisterStaffStep ==
  ASSUME RegistrationInv, NEW t \in Tabs, RegisterStaff(t)
  PROVE  RegistrationInv'
<1> DEFINE row == [by |-> t, role |-> tab[t].as,
                   approver |-> IF tab[t].as = "CENTER_ADMIN" THEN "SYSTEM_ADMIN" ELSE "CENTER_ADMIN",
                   code |-> 0, fp |-> FALSE]
<1>1. /\ applied' = Append(applied, row)
      /\ Answer(t, TRUE, Len(applied) + 1)
      /\ Stored + Len(handling) < MaxRows
      /\ UNCHANGED <<enrolled, handling, deskVars>>
  BY DEF RegisterStaff
<1>2. Len(enrolled) + Len(applied) + 1 + Len(handling) <= MaxRows
  BY <1>1, RegistrationLengths DEF Stored
<1>3. tab[t].as \in StaffRoles
  BY FormType DEF Forms
<1>4. row \in StaffRows
  BY <1>3, RegistrationLengths DEF StaffRows, Codes
<1> HIDE DEF row
<1>5. applied' \in Seq(StaffRows) /\ Len(applied') = Len(applied) + 1
  BY <1>1, <1>4, AppendProperties, RegistrationTypes DEF RegistrationInv
<1>6. tab' \in [Tabs -> Forms]
  <2>1. Len(applied) + 1 \in 0..MaxRows
    BY <1>2, RegistrationLengths
  <2> QED
    BY <1>1, <2>1, AnswerTypes
<1>7. CountsKept'
  BY <1>1 DEF RegistrationInv, CountsKept
<1>8. RegistrationTypeOK'
  BY <1>1, <1>2, <1>5, <1>6, RegistrationLengths, RegistrationTypes, RegistrationTypesNext
     DEF RegistrationInv, deskVars
<1> QED
  BY <1>7, <1>8 DEF RegistrationInv

(***************************************************************************)
(* The approvals page.                                                     *)
(***************************************************************************)
LEMMA DeskTypes ==
  ASSUME RegistrationInv
  PROVE  /\ desk \in Desks /\ errands \in Seq(DeskCalls) /\ applied \in Seq(StaffRows)
         /\ issued \in Codes
         /\ \A i \in DOMAIN errands : errands[i] \in DeskCalls
         /\ \A n \in DOMAIN applied : applied[n] \in StaffRows
<1>1. /\ desk \in Desks /\ errands \in Seq(DeskCalls) /\ applied \in Seq(StaffRows)
      /\ issued \in Codes
  BY RegistrationTypes DEF RegistrationInv
<1> QED
  BY <1>1, ElementOfSeq, LenProperties

LEMMA LoadDeskStep ==
  ASSUME RegistrationInv, LoadDesk
  PROVE  RegistrationInv'
<1> DEFINE new == [n \in 1..MaxRows |->
               IF n \in DOMAIN applied /\ applied[n].approver = "SYSTEM_ADMIN" /\ applied[n].code = 0
               THEN [listed |-> TRUE, code |-> 0, fp |-> applied[n].fp] ELSE NoDesk.row[n]]
<1>1. /\ desk' = [NoDesk EXCEPT !.row = new] /\ errands' = <<>>
      /\ UNCHANGED <<tab, enrolled, applied, handling, issued>>
  BY DEF LoadDesk
<1>2. \A n \in DOMAIN applied : [listed |-> TRUE, code |-> 0, fp |-> applied[n].fp] \in DeskRows
  <2>1. \A n \in DOMAIN applied : applied[n].fp \in BOOLEAN
    BY DeskTypes DEF StaffRows
  <2> QED
    BY <2>1, RegistrationAssumption DEF DeskRows, Codes
<1>3. \A n \in 1..MaxRows : NoDesk.row[n] \in DeskRows
  BY NoDeskType DEF Desks
<1>4. new \in [1..MaxRows -> DeskRows]
  BY <1>2, <1>3
<1> HIDE DEF new
<1>5. [NoDesk EXCEPT !.row = new] \in Desks
  BY <1>4, NoDeskType DEF Desks
<1>6. errands' \in Seq(DeskCalls)
  BY <1>1, EmptySeq
<1> QED
  BY <1>1, <1>5, <1>6, DeskTypes, DeskChanges

LEMMA ClickStep ==
  ASSUME RegistrationInv, NEW is \in {"issue", "fp"}, NEW n \in 1..MaxRows, Click(is, n)
  PROVE  RegistrationInv'
<1> DEFINE e == [is |-> is, row |-> n, done |-> FALSE, code |-> 0]
<1>1. /\ desk' = [desk EXCEPT !.busy = n] /\ errands' = Append(errands, e)
      /\ UNCHANGED <<tab, enrolled, applied, handling, issued>>
  BY DEF Click
<1>2. e \in DeskCalls
  BY RegistrationAssumption DEF DeskCalls, Codes
<1> HIDE DEF e
<1>3. errands' \in Seq(DeskCalls)
  BY <1>1, <1>2, DeskTypes, AppendProperties
<1>4. desk' \in Desks
  <2>1. desk \in Desks /\ n \in 0..MaxRows
    BY DeskTypes, RegistrationAssumption
  <2> QED
    BY <1>1, <2>1 DEF Desks
<1> QED
  BY <1>1, <1>3, <1>4, DeskTypes, DeskChanges

\* A stored request or a call under way gets one more field set.
LEMMA IssueStaffCodeStep ==
  ASSUME RegistrationInv, NEW i \in DOMAIN errands, IssueStaffCode(i)
  PROVE  RegistrationInv'
<1> DEFINE r == errands[i].row
           e == [errands[i] EXCEPT !.done = TRUE, !.code = issued']
           a == [applied[r] EXCEPT !.code = issued']
<1>1. /\ issued' = issued + 1 /\ issued < MaxIssues
      /\ applied' = [applied EXCEPT ![r].code = issued']
      /\ errands' = [errands EXCEPT ![i].done = TRUE, ![i].code = issued']
      /\ UNCHANGED <<tab, enrolled, handling, desk>>
  BY DEF IssueStaffCode
<1>2. issued' \in Codes
  BY <1>1, DeskTypes, RegistrationAssumption DEF Codes
<1>3. e \in DeskCalls
  BY <1>2, DeskTypes DEF DeskCalls
<1>4. errands' = [errands EXCEPT ![i] = e]
  BY <1>1, DeskTypes DEF DeskCalls
<1>5. errands' \in Seq(DeskCalls)
  <2> HIDE DEF e
  <2> QED
    BY <1>3, <1>4, DeskTypes, ExceptSeq, RegistrationLengths
<1>6. applied' \in Seq(StaffRows) /\ Len(applied') = Len(applied)
  <2>1. applied' = [applied EXCEPT ![r] = a]
    BY <1>1
  <2>2. CASE r \in DOMAIN applied
    <3>1. a \in StaffRows
      BY <1>2, <2>2, DeskTypes DEF StaffRows
    <3> HIDE DEF a, r
    <3> QED
      BY <2>1, <2>2, <3>1, DeskTypes, ExceptSeq, RegistrationLengths
  <2>3. CASE r \notin DOMAIN applied
    <3>1. applied = [k \in DOMAIN applied |-> applied[k]]
      BY DeskTypes, RegistrationLengths, SeqDef
    <3> HIDE DEF a, r
    <3>2. applied' = applied
      BY <2>1, <2>3, <3>1
    <3> QED
      BY <3>2, DeskTypes
  <2> QED
    BY <2>2, <2>3
<1> QED
  BY <1>1, <1>2, <1>5, <1>6, DeskTypes, DeskChanges

LEMMA AuthoriseStaffFpStep ==
  ASSUME RegistrationInv, NEW i \in DOMAIN errands, AuthoriseStaffFp(i)
  PROVE  RegistrationInv'
<1> DEFINE r == errands[i].row
           e == [errands[i] EXCEPT !.done = TRUE]
           a == [applied[r] EXCEPT !.fp = TRUE]
<1>1. /\ applied' = [applied EXCEPT ![r].fp = TRUE]
      /\ errands' = [errands EXCEPT ![i].done = TRUE]
      /\ UNCHANGED <<tab, enrolled, handling, desk, issued>>
  BY DEF AuthoriseStaffFp
<1>2. e \in DeskCalls
  BY DeskTypes DEF DeskCalls
<1>3. errands' = [errands EXCEPT ![i] = e]
  BY <1>1
<1>4. errands' \in Seq(DeskCalls)
  <2> HIDE DEF e
  <2> QED
    BY <1>2, <1>3, DeskTypes, ExceptSeq, RegistrationLengths
<1>5. applied' \in Seq(StaffRows) /\ Len(applied') = Len(applied)
  <2>1. applied' = [applied EXCEPT ![r] = a]
    BY <1>1
  <2>2. CASE r \in DOMAIN applied
    <3>1. a \in StaffRows
      BY <2>2, DeskTypes DEF StaffRows
    <3> HIDE DEF a, r
    <3> QED
      BY <2>1, <2>2, <3>1, DeskTypes, ExceptSeq, RegistrationLengths
  <2>3. CASE r \notin DOMAIN applied
    <3>1. applied = [k \in DOMAIN applied |-> applied[k]]
      BY DeskTypes, RegistrationLengths, SeqDef
    <3> HIDE DEF a, r
    <3>2. applied' = applied
      BY <2>1, <2>3, <3>1
    <3> QED
      BY <3>2, DeskTypes
  <2> QED
    BY <2>2, <2>3
<1> QED
  BY <1>1, <1>4, <1>5, DeskTypes, DeskChanges

LEMMA ErrandAnswered ==
  ASSUME RegistrationInv, NEW i \in DOMAIN errands, ShowErrand(i) \/ ErrandFails(i)
  PROVE  RegistrationInv'
<1> DEFINE e == errands[i]
<1>1. /\ errands' = RemoveAt(errands, i)
      /\ UNCHANGED <<tab, enrolled, applied, handling, issued>>
  BY DEF ShowErrand, ErrandFails
<1>2. errands' \in Seq(DeskCalls)
  BY <1>1, DeskTypes, WithoutOne
<1>3. CASE ErrandFails(i)
  <2>1. desk' = [desk EXCEPT !.busy = 0]
    BY <1>3 DEF ErrandFails
  <2>2. desk' \in Desks
    BY <2>1, DeskTypes, RegistrationAssumption DEF Desks
  <2> QED
    BY <1>1, <1>2, <2>2, DeskTypes, DeskChanges
<1>4. CASE ShowErrand(i)
  <2>1. e \in DeskCalls /\ e.row \in 1..MaxRows /\ e.code \in Codes
    BY DeskTypes DEF DeskCalls
  <2> DEFINE old == desk.row[e.row]
             new == IF e.is = "issue" THEN [old EXCEPT !.code = e.code] ELSE [old EXCEPT !.fp = TRUE]
             shownRows == [desk.row EXCEPT ![e.row] = new]
  <2>2. desk.row \in [1..MaxRows -> DeskRows]
    BY DeskTypes DEF Desks
  <2>3. new \in DeskRows
    BY <2>1, <2>2 DEF DeskRows
  <2>4. desk' = [desk EXCEPT !.busy = 0, !.row[e.row] = new]
    BY <1>4 DEF ShowErrand
  <2> HIDE DEF new, old
  <2>5. shownRows \in [1..MaxRows -> DeskRows]
    BY <2>1, <2>2, <2>3
  <2>6. desk' = [desk EXCEPT !.busy = 0, !.row = shownRows]
    BY <2>4
  <2> HIDE DEF shownRows, e
  <2>7. desk' \in Desks
    <3>1. desk \in Desks /\ 0 \in 0..MaxRows
      BY DeskTypes, RegistrationAssumption
    <3> QED
      BY <2>5, <2>6, <3>1 DEF Desks
  <2> QED
    BY <1>1, <1>2, <2>7, DeskTypes, DeskChanges
<1> QED
  BY <1>3, <1>4

LEMMA RegistrationInvStep == RegistrationInv /\ [RegistrationNext]_registrationVars => RegistrationInv'
<1> SUFFICES ASSUME RegistrationInv, [RegistrationNext]_registrationVars PROVE RegistrationInv'
  OBVIOUS
<1>1. CASE UNCHANGED registrationVars
  <2>1. tab' \in [Tabs -> Forms]
    BY <1>1, RegistrationTypes DEF RegistrationInv, registrationVars
  <2> QED
    BY <1>1, <2>1, FormsChange DEF registrationVars
<1>2. ASSUME NEW t \in Tabs,
        \/ ListsArrive(t) \/ FillStaffForm(t) \/ FillCandidateForm(t)
        \/ EnableCamera(t) \/ CaptureFace(t)
        \/ SubmitRegistration(t) \/ SubmitEnrolment(t)
        \/ ShowRoll(t) \/ ShowPending(t) \/ RegistrationFails(t)
        \/ BeginEnrolment(t) \/ RegisterStaff(t)
        \/ \E r \in StaffRoles : ChooseRole(t, r)
      PROVE RegistrationInv'
  BY <1>2, FormSteps, RegistrationFailsStep, BeginEnrolmentStep, RegisterStaffStep
<1>3. ASSUME NEW i \in DOMAIN handling, CommitEnrolment(i) PROVE RegistrationInv'
  BY <1>3, CommitEnrolmentStep
<1>4. CASE LoadDesk
  BY <1>4, LoadDeskStep
<1>5. ASSUME NEW n \in 1..MaxRows, IssueCode(n) \/ AuthoriseFp(n) PROVE RegistrationInv'
  BY <1>5, ClickStep DEF IssueCode, AuthoriseFp
<1>6. ASSUME NEW i \in DOMAIN errands,
             IssueStaffCode(i) \/ AuthoriseStaffFp(i) \/ ShowErrand(i) \/ ErrandFails(i)
      PROVE RegistrationInv'
  BY <1>6, IssueStaffCodeStep, AuthoriseStaffFpStep, ErrandAnswered
<1> QED
  BY <1>1, <1>2, <1>3, <1>4, <1>5, <1>6 DEF RegistrationNext

\* The invariant of enrolments and registrations: types, and what calls under way counted.
THEOREM RegistrationInvariant == RegistrationSpec => []RegistrationInv
<1>1. RegistrationInit => RegistrationInv
  BY RegistrationInvInit
<1>2. RegistrationInv /\ [RegistrationNext]_registrationVars => RegistrationInv'
  BY RegistrationInvStep
<1> QED
  BY <1>1, <1>2, PTL DEF RegistrationSpec

\* However many forms are sent, repeated or answered late, two enrolments get the same roll
\* number only when their calls overlapped (enrol_candidate).
THEOREM RollsAlwaysDistinct == RegistrationSpec => []RollsDistinctInSequence
<1>1. RegistrationInv => RollsDistinctInSequence
  <2> SUFFICES ASSUME RegistrationInv,
                      NEW i \in DOMAIN enrolled, NEW j \in DOMAIN enrolled, i < j,
                      enrolled[i].seq = enrolled[j].seq
               PROVE  enrolled[j].after < i
    BY DEF RollsDistinctInSequence
  <2>1. /\ enrolled[i].seq = enrolled[i].after + 1 /\ enrolled[i].after < i
        /\ enrolled[j].seq = enrolled[j].after + 1
    BY DEF RegistrationInv, CountsKept
  <2>2. enrolled[i] \in EnrolmentRows /\ enrolled[j] \in EnrolmentRows
    BY RegistrationTypes, ElementOfSeq, RegistrationLengths DEF RegistrationInv
  <2>3. enrolled[i].after \in Int /\ enrolled[j].after \in Int
    BY <2>2 DEF EnrolmentRows
  <2>4. \A m, n \in Int : m + 1 = n + 1 => m = n
    OBVIOUS
  <2>5. enrolled[i].after + 1 = enrolled[j].after + 1
    BY <2>1, Zenon
  <2>6. enrolled[i].after = enrolled[j].after
    BY <2>3, <2>4, <2>5, Zenon
  <2> QED
    BY <2>1, <2>6, Zenon
<1> QED
  BY <1>1, RegistrationInvariant, PTL

-----------------------------------------------------------------------------
(* Enquiries from the public site. *)

Contacts == [step : {"FORM", "OTP"}, address : Mailboxes \cup {NoMailbox},
             challenge : 0..MaxMails, sent : BOOLEAN]

MailRows == [address : Mailboxes, age : {"recent", "valid", "expired"}, used : BOOLEAN,
             wrong : 0..MaxWrong]

PassRows == [address : Mailboxes, used : BOOLEAN, expired : BOOLEAN]

EnquiryRows(taken) == [by : Visitors, address : Mailboxes, pass : taken, since : Nat]

LEMMA EnquiryTypes ==
  EnquiryTypeOK <=>
    /\ contact \in [Visitors -> Contacts]
    /\ posting \in [Connections -> Posts]
    /\ mails \in Seq(MailRows)
    /\ passes \in Seq(PassRows)
    /\ enquiries \in Seq(EnquiryRows(DOMAIN passes))
BY DEF EnquiryTypeOK, Contacts, MailRows, PassRows, EnquiryRows

LEMMA EnquiryTypesNext ==
  EnquiryTypeOK' <=>
    /\ contact' \in [Visitors -> Contacts]
    /\ posting' \in [Connections -> Posts]
    /\ mails' \in Seq(MailRows)
    /\ passes' \in Seq(PassRows)
    /\ enquiries' \in Seq(EnquiryRows(DOMAIN passes'))
BY DEF EnquiryTypeOK, Contacts, MailRows, PassRows, EnquiryRows

\* Lengths, and what each element is.
LEMMA EnquiryParts ==
  ASSUME EnquiryInv
  PROVE  /\ Len(mails) \in Nat /\ DOMAIN mails = 1..Len(mails) /\ Len(mails) <= MaxMails
         /\ \A k \in DOMAIN mails : mails[k] \in MailRows
         /\ Len(passes) \in Nat /\ DOMAIN passes = 1..Len(passes)
         /\ \A g \in DOMAIN passes : passes[g] \in PassRows
         /\ Len(enquiries) \in Nat /\ DOMAIN enquiries = 1..Len(enquiries)
         /\ \A n \in DOMAIN enquiries :
              /\ enquiries[n] \in EnquiryRows(DOMAIN passes)
              /\ enquiries[n].pass \in DOMAIN passes
         /\ MaxMails \in Nat
         /\ \A v \in Visitors : contact[v] \in Contacts /\ ChallengeSent(contact[v])
         /\ \A c \in Connections : /\ c[1] \in Visitors /\ posting[c] \in Posts
                                   /\ PostRefers(c[1], posting[c])
<1>1. /\ mails \in Seq(MailRows) /\ passes \in Seq(PassRows)
      /\ enquiries \in Seq(EnquiryRows(DOMAIN passes))
      /\ contact \in [Visitors -> Contacts] /\ posting \in [Connections -> Posts]
      /\ Len(mails) <= MaxMails
      /\ \A v \in Visitors : ChallengeSent(contact[v])
      /\ \A c \in Connections : PostRefers(c[1], posting[c])
  BY EnquiryTypes DEF EnquiryInv
<1>2. \A n \in DOMAIN enquiries : enquiries[n] \in EnquiryRows(DOMAIN passes)
  BY <1>1, ElementOfSeq, LenProperties
<1>3. \A n \in DOMAIN enquiries : enquiries[n].pass \in DOMAIN passes
  BY <1>2 DEF EnquiryRows
<1>4. \A c \in Connections : c[1] \in Visitors
  BY DEF Connections
<1> QED
  BY <1>1, <1>2, <1>3, <1>4, ElementOfSeq, LenProperties, EnquiryAssumption

LEMMA NoPostType == NoPost \in Posts /\ NoPost.is = "none"
BY EnquiryAssumption DEF NoPost, Posts

\* Nothing under way refers to anything.
LEMMA NoPostRefers ==
  ASSUME NEW v
  PROVE  PostRefers(v, NoPost)
BY NoPostType DEF PostRefers

LEMMA EnquiryInvInit == EnquiryInit => EnquiryInv
<1> SUFFICES ASSUME EnquiryInit PROVE EnquiryInv
  OBVIOUS
<1>1. [step |-> "FORM", address |-> NoMailbox, challenge |-> 0, sent |-> FALSE] \in Contacts
  BY EnquiryAssumption DEF Contacts
<1>2. contact \in [Visitors -> Contacts] /\ posting \in [Connections -> Posts]
  BY <1>1, NoPostType DEF EnquiryInit
<1>3. /\ mails = <<>> /\ mails \in Seq(MailRows) /\ passes = <<>> /\ passes \in Seq(PassRows)
      /\ enquiries = <<>> /\ enquiries \in Seq(EnquiryRows(DOMAIN passes))
  BY EmptySeq DEF EnquiryInit
<1>4. Len(mails) = 0 /\ DOMAIN enquiries = {}
  BY <1>3
<1>5. \A c \in Connections : PostRefers(c[1], posting[c])
  BY NoPostRefers DEF EnquiryInit
<1>6. \A v \in Visitors : ChallengeSent(contact[v])
  BY <1>4 DEF EnquiryInit, ChallengeSent
<1>7. EnquiryWasVerified
  BY <1>4 DEF EnquiryWasVerified
<1> QED
  BY <1>2, <1>3, <1>4, <1>5, <1>6, <1>7, EnquiryTypes, EnquiryAssumption DEF EnquiryInv

\* What a step may do to what is stored: challenges and grants are added, and marked, and
\* enquiries are added.
StoreGrows ==
    /\ mails' \in Seq(MailRows) /\ Len(mails) <= Len(mails') /\ Len(mails') <= MaxMails
    /\ \A k \in DOMAIN mails : mails'[k].address = mails[k].address
    /\ passes' \in Seq(PassRows) /\ Len(passes) <= Len(passes')
    /\ \A g \in DOMAIN passes : passes[g].used => passes'[g].used
    /\ Len(enquiries') \in Nat /\ Len(enquiries) <= Len(enquiries')
    /\ DOMAIN enquiries' = 1..Len(enquiries')
    /\ \A n \in DOMAIN enquiries' : \/ n \in DOMAIN enquiries /\ enquiries'[n] = enquiries[n]
                                    \/ n > Len(enquiries)

\* What a request refers to stays.
LEMMA RefersStill ==
  ASSUME EnquiryInv, StoreGrows, NEW v, NEW p \in Posts, PostRefers(v, p)
  PROVE  PostRefers(v, p)'
<1>1. /\ DOMAIN mails' = 1..Len(mails') /\ Len(mails') \in Nat
      /\ DOMAIN passes' = 1..Len(passes') /\ Len(passes') \in Nat
  BY LenProperties DEF StoreGrows
<1>2. DOMAIN mails \subseteq DOMAIN mails' /\ DOMAIN passes \subseteq DOMAIN passes'
  BY <1>1, EnquiryParts DEF StoreGrows
<1>3. p.read \in Nat
  BY DEF Posts
<1>4. p.is = "asked" => p.read <= Len(mails')
  BY <1>1, <1>3, EnquiryParts DEF PostRefers, StoreGrows
<1>5. p.is = "spend" => /\ p.read <= Len(enquiries')
                        /\ \A m \in DOMAIN enquiries' : enquiries'[m].pass = p.ref => p.read < m
  <2> SUFFICES ASSUME p.is = "spend"
               PROVE  /\ p.read <= Len(enquiries')
                      /\ \A m \in DOMAIN enquiries' : enquiries'[m].pass = p.ref => p.read < m
    OBVIOUS
  <2>1. /\ p.read <= Len(enquiries)
        /\ \A m \in DOMAIN enquiries : enquiries[m].pass = p.ref => p.read < m
    BY DEF PostRefers
  <2>2. p.read <= Len(enquiries')
    BY <1>3, <2>1, EnquiryParts DEF StoreGrows
  <2>3. ASSUME NEW m \in DOMAIN enquiries', enquiries'[m].pass = p.ref PROVE p.read < m
    <3>1. CASE m \in DOMAIN enquiries /\ enquiries'[m] = enquiries[m]
      BY <2>1, <2>3, <3>1
    <3>2. CASE m > Len(enquiries)
      <4>1. m \in Int
        BY <2>3 DEF StoreGrows
      <4> QED
        BY <1>3, <2>1, <3>2, <4>1, EnquiryParts
    <3> QED
      BY <2>3, <3>1, <3>2 DEF StoreGrows
  <2> QED
    BY <2>2, <2>3
<1>6. p.is = "check" /\ p.code # 0 => p.code \in DOMAIN mails' /\ mails'[p.code].address \in ReadBy[v]
  BY <1>2 DEF PostRefers, StoreGrows
<1> QED
  BY <1>2, <1>4, <1>5, <1>6 DEF PostRefers

\* Enquiries that stay as they are stay verified.
LEMMA EnquiriesStay ==
  ASSUME EnquiryInv, UNCHANGED enquiries, passes' \in Seq(PassRows), Len(passes) <= Len(passes'),
         \A g \in DOMAIN passes : passes[g].used => passes'[g].used
  PROVE  /\ enquiries' \in Seq(EnquiryRows(DOMAIN passes'))
         /\ \A n \in DOMAIN enquiries' : passes'[enquiries'[n].pass].used
         /\ EnquiryWasVerified'
         /\ Len(enquiries') \in Nat /\ Len(enquiries) <= Len(enquiries')
         /\ DOMAIN enquiries' = 1..Len(enquiries')
         /\ \A n \in DOMAIN enquiries' : n \in DOMAIN enquiries /\ enquiries'[n] = enquiries[n]
<1>1. DOMAIN passes' = 1..Len(passes') /\ Len(passes') \in Nat
  BY LenProperties
<1>2. DOMAIN passes \subseteq DOMAIN passes'
  BY <1>1, EnquiryParts
<1> DEFINE EnquiryKind == EnquiryRows(DOMAIN passes')
<1>3. \A n \in DOMAIN enquiries : enquiries[n] \in EnquiryKind
  BY <1>2, EnquiryParts DEF EnquiryRows
<1>4. enquiries \in [1..Len(enquiries) -> EnquiryKind] /\ Len(enquiries) \in Nat
  <2>1. enquiries \in Seq(EnquiryRows(DOMAIN passes))
    BY EnquiryTypes DEF EnquiryInv
  <2>2. enquiries = [n \in 1..Len(enquiries) |-> enquiries[n]]
    BY <2>1, LenProperties
  <2> HIDE DEF EnquiryKind
  <2> QED
    BY <1>3, <2>2, EnquiryParts
<1>5. enquiries' \in Seq(EnquiryKind)
  <2> HIDE DEF EnquiryKind
  <2> QED
    BY <1>4, SeqDef
<1>6. \A n \in DOMAIN enquiries : passes'[enquiries[n].pass].used
  BY EnquiryParts DEF EnquiryInv
<1>7. EnquiryWasVerified'
  BY DEF EnquiryInv, EnquiryWasVerified
<1> QED
  BY <1>5, <1>6, <1>7, EnquiryParts

\* The parts of the invariant, after a step.
LEMMA EnquiryInvAfter ==
  ASSUME EnquiryInv, StoreGrows, contact' \in [Visitors -> Contacts],
         \A v \in Visitors : ChallengeSent(contact[v])',
         posting' \in [Connections -> Posts],
         \A c \in Connections : posting'[c] = posting[c] \/ PostRefers(c[1], posting[c])',
         enquiries' \in Seq(EnquiryRows(DOMAIN passes')),
         \A n \in DOMAIN enquiries' : passes'[enquiries'[n].pass].used,
         EnquiryWasVerified'
  PROVE  EnquiryInv'
<1>1. EnquiryTypeOK'
  BY EnquiryTypesNext DEF StoreGrows
<1>2. ASSUME NEW c \in Connections PROVE PostRefers(c[1], posting[c])'
  <2>1. CASE posting'[c] = posting[c]
    <3>1. PICK p \in Posts, v \in Visitors : p = posting[c] /\ v = c[1] /\ PostRefers(v, p)
      BY EnquiryParts
    <3>2. PostRefers(v, p)'
      BY <3>1, RefersStill
    <3>3. p = posting'[c]
      BY <2>1, <3>1
    <3> QED
      BY <3>1, <3>2, <3>3 DEF PostRefers
  <2> QED
    BY <2>1
<1> QED
  BY <1>1, <1>2 DEF EnquiryInv, StoreGrows

\* A request moves on, and of what is stored challenges and grants may be added or marked.
LEMMA RequestMoves ==
  ASSUME EnquiryInv, NEW c \in Connections, NEW p \in Posts,
         posting' = [posting EXCEPT ![c] = p], UNCHANGED <<contact, enquiries>>,
         mails' \in Seq(MailRows), Len(mails) <= Len(mails'), Len(mails') <= MaxMails,
         \A k \in DOMAIN mails : mails'[k].address = mails[k].address,
         passes' \in Seq(PassRows), Len(passes) <= Len(passes'),
         \A g \in DOMAIN passes : passes[g].used => passes'[g].used,
         PostRefers(c[1], p)'
  PROVE  EnquiryInv'
<1>1. /\ enquiries' \in Seq(EnquiryRows(DOMAIN passes'))
      /\ \A n \in DOMAIN enquiries' : passes'[enquiries'[n].pass].used
      /\ EnquiryWasVerified'
  BY EnquiriesStay
<1>2. StoreGrows
  BY EnquiriesStay DEF StoreGrows
<1>3. contact \in [Visitors -> Contacts] /\ posting \in [Connections -> Posts]
  BY EnquiryTypes DEF EnquiryInv
<1>4. /\ posting' \in [Connections -> Posts]
      /\ \A d \in Connections : posting'[d] = IF d = c THEN p ELSE posting[d]
  BY <1>3
<1>5. ASSUME NEW d \in Connections
      PROVE  posting'[d] = posting[d] \/ PostRefers(d[1], posting[d])'
  BY <1>4 DEF PostRefers
<1>6. ASSUME NEW v \in Visitors PROVE ChallengeSent(contact[v])'
  <2>1. contact[v].challenge \in Nat /\ ChallengeSent(contact[v])
    BY EnquiryParts DEF Contacts
  <2>2. Len(mails') \in Nat
    BY LenProperties
  <2> QED
    BY <2>1, <2>2, EnquiryParts DEF ChallengeSent
<1> QED
  BY <1>1, <1>2, <1>3, <1>4, <1>5, <1>6, EnquiryInvAfter

\* A page moves on; nothing is stored.
LEMMA VisitorMoves ==
  ASSUME EnquiryInv, NEW v \in Visitors, NEW s \in Contacts, NEW c \in Connections, c[1] = v,
         NEW p \in Posts,
         contact' = [contact EXCEPT ![v] = s], posting' = [posting EXCEPT ![c] = p],
         PostRefers(v, p), ChallengeSent(s), UNCHANGED <<mails, passes, enquiries>>
  PROVE  EnquiryInv'
<1>1. contact \in [Visitors -> Contacts] /\ posting \in [Connections -> Posts]
      /\ mails \in Seq(MailRows) /\ passes \in Seq(PassRows)
  BY EnquiryTypes DEF EnquiryInv
<1>2. /\ \A u \in Visitors : contact'[u] = IF u = v THEN s ELSE contact[u]
      /\ \A d \in Connections : posting'[d] = IF d = c THEN p ELSE posting[d]
  BY <1>1
<1>3. contact' \in [Visitors -> Contacts] /\ posting' \in [Connections -> Posts]
  BY <1>1
<1>4. \A u \in Visitors : ChallengeSent(contact[u])'
  <2>1. \A u \in Visitors : ChallengeSent(contact'[u])
    BY <1>2, EnquiryParts
  <2> QED
    BY <2>1 DEF ChallengeSent
<1>5. ASSUME NEW d \in Connections
      PROVE  posting'[d] = posting[d] \/ PostRefers(d[1], posting[d])'
  BY <1>2 DEF PostRefers
<1>6. /\ enquiries' \in Seq(EnquiryRows(DOMAIN passes'))
      /\ \A n \in DOMAIN enquiries' : passes'[enquiries'[n].pass].used
      /\ EnquiryWasVerified'
  BY <1>1, EnquiryParts, EnquiriesStay
<1>7. StoreGrows
  BY <1>1, EnquiryParts DEF StoreGrows
<1> QED
  BY <1>3, <1>4, <1>5, <1>6, <1>7, EnquiryInvAfter

\* A request ends without a trace.
LEMMA FailsKeeps ==
  ASSUME EnquiryInv, NEW c \in Connections, Fails(c), UNCHANGED <<mails, passes, enquiries>>
  PROVE  EnquiryInv'
<1>1. PICK v \in Visitors : v = c[1]
  BY EnquiryParts
<1>2. contact' = [contact EXCEPT ![v] = contact[v]] /\ posting' = [posting EXCEPT ![c] = NoPost]
  BY EnquiryTypes DEF EnquiryInv, Fails
<1> QED
  BY <1>1, <1>2, NoPostRefers, NoPostType, EnquiryParts, VisitorMoves

\* The connections of a visitor.
LEMMA OwnConnections ==
  ASSUME NEW v \in Visitors
  PROVE  /\ OwnPage(v) \in Connections /\ OwnPage(v)[1] = v
         /\ Stray(v) \in Connections /\ Stray(v)[1] = v
BY DEF Connections, OwnPage, Stray

\* What the page goes on with after an answer, or nothing.
LEMMA ReplyIs ==
  ASSUME NEW c, NEW p, Replies(c, p)
  PROVE  /\ UNCHANGED contact
         /\ \E q \in {p, NoPost} : posting' = [posting EXCEPT ![c] = q]
BY DEF Replies

\* What the pages do.
LEMMA PageSteps ==
  ASSUME EnquiryInv, NEW v \in Visitors,
         \/ \E a \in Mailboxes : RequestCode(v, a)
         \/ \E code \in 0..Len(mails) : EnterCode(v, code)
         \/ AskCode(v) \/ GoBack(v) \/ ShowSent(v) \/ RequestRepeated(v)
  PROVE  EnquiryInv'
<1>1. PICK c \in Connections, d \in Connections :
        c = OwnPage(v) /\ c[1] = v /\ d = Stray(v) /\ d[1] = v
  BY OwnConnections
<1>2. /\ contact[v] \in Contacts /\ ChallengeSent(contact[v])
      /\ posting[c] \in Posts /\ PostRefers(v, posting[c])
      /\ posting[d] \in Posts /\ PostRefers(v, posting[d])
  BY <1>1, EnquiryParts
<1>3. contact \in [Visitors -> Contacts] /\ posting \in [Connections -> Posts]
  BY EnquiryTypes DEF EnquiryInv
<1>4. CASE \E a \in Mailboxes : RequestCode(v, a)
  <2>1. PICK a \in Mailboxes : RequestCode(v, a)
    BY <1>4
  <2> DEFINE s == [contact[v] EXCEPT !.address = a]
             p == [NoPost EXCEPT !.is = "ask", !.address = a]
  <2>2. contact' = [contact EXCEPT ![v].address = a] /\ posting' = [posting EXCEPT ![OwnPage(v)] = p]
        /\ UNCHANGED <<mails, passes, enquiries>>
    BY <2>1, Zenon DEF RequestCode
  <2>3. s \in Contacts /\ ChallengeSent(s)
    BY <1>2 DEF Contacts, ChallengeSent
  <2>4. p \in Posts /\ PostRefers(v, p)
    BY NoPostType DEF NoPost, Posts, PostRefers
  <2> HIDE DEF p
  <2>5. contact' = [contact EXCEPT ![v] = s] /\ posting' = [posting EXCEPT ![c] = p]
    BY <1>1, <1>3, <2>2
  <2> HIDE DEF s
  <2> QED
    BY <1>1, <2>2, <2>3, <2>4, <2>5, VisitorMoves
<1>5. CASE \E code \in 0..Len(mails) : EnterCode(v, code)
  <2>1. PICK code \in 0..Len(mails) : EnterCode(v, code)
    BY <1>5
  <2> DEFINE p == [NoPost EXCEPT !.is = "check", !.address = contact[v].address,
                                 !.ref = contact[v].challenge, !.code = code]
  <2>2. /\ contact[v].step = "OTP" /\ (code # 0 => mails[code].address \in ReadBy[v])
        /\ posting' = [posting EXCEPT ![OwnPage(v)] = p]
        /\ UNCHANGED <<contact, mails, passes, enquiries>>
    BY <2>1, Zenon DEF EnterCode
  <2>4. contact[v].challenge \in DOMAIN mails /\ contact[v].challenge \in Nat
    BY <1>2, <2>2, EnquiryParts DEF Contacts, ChallengeSent
  <2>5. code \in 0..MaxMails /\ (code # 0 => code \in DOMAIN mails /\ mails[code].address \in ReadBy[v])
    BY <2>2, EnquiryParts
  <2>7. p \in Posts /\ p.is = "check" /\ p.ref = contact[v].challenge /\ p.code = code
    <3>1. contact[v].address \in Mailboxes \cup {NoMailbox}
      BY <1>2 DEF Contacts
    <3> QED
      BY <2>4, <2>5, <3>1, NoPostType DEF Posts
  <2> HIDE DEF p
  <2>8. contact' = [contact EXCEPT ![v] = contact[v]] /\ posting' = [posting EXCEPT ![c] = p]
    BY <1>1, <1>3, <2>2
  <2>6. PostRefers(v, p)
    BY <2>4, <2>5, <2>7 DEF PostRefers
  <2> QED
    BY <1>1, <1>2, <2>2, <2>6, <2>7, <2>8, VisitorMoves
<1>6. CASE AskCode(v)
  <2> DEFINE s == [contact[v] EXCEPT !.step = "OTP", !.challenge = posting[c].ref]
  <2>1. contact' = [contact EXCEPT ![v] = s] /\ posting' = [posting EXCEPT ![c] = NoPost]
        /\ UNCHANGED <<mails, passes, enquiries>>
    BY <1>1, <1>3, <1>6 DEF AskCode
  <2>2. posting[c].ref \in 1..Len(mails)
    BY <1>1, <1>2, <1>6, EnquiryParts DEF AskCode, PostRefers
  <2>3. posting[c].ref \in 0..MaxMails
    BY <2>2, EnquiryParts
  <2>4. s \in Contacts /\ ChallengeSent(s)
    <3>1. PICK k \in Nat : k = posting[c].ref /\ k \in 0..MaxMails /\ k <= Len(mails) /\ k # 0
      BY <2>2, <2>3, EnquiryParts
    <3> QED
      BY <1>2, <3>1 DEF ChallengeSent, Contacts
  <2> HIDE DEF s
  <2> QED
    BY <1>1, <2>1, <2>4, NoPostRefers, NoPostType, VisitorMoves
<1>7. CASE GoBack(v)
  <2> DEFINE s == [contact[v] EXCEPT !.step = "FORM"]
  <2>1. contact' = [contact EXCEPT ![v] = s] /\ posting' = [posting EXCEPT ![c] = posting[c]]
        /\ UNCHANGED <<mails, passes, enquiries>>
    BY <1>3, <1>7 DEF GoBack
  <2>2. s \in Contacts /\ ChallengeSent(s)
    BY <1>2 DEF Contacts, ChallengeSent
  <2> HIDE DEF s
  <2> QED
    BY <1>1, <1>2, <2>1, <2>2, VisitorMoves
<1>8. CASE ShowSent(v)
  <2> DEFINE s == [contact[v] EXCEPT !.step = "FORM", !.sent = TRUE]
  <2>1. contact' = [contact EXCEPT ![v] = s] /\ posting' = [posting EXCEPT ![c] = NoPost]
        /\ UNCHANGED <<mails, passes, enquiries>>
    BY <1>1, <1>3, <1>8 DEF ShowSent
  <2>2. s \in Contacts /\ ChallengeSent(s)
    BY <1>2 DEF Contacts, ChallengeSent
  <2> HIDE DEF s
  <2> QED
    BY <1>1, <2>1, <2>2, NoPostRefers, NoPostType, VisitorMoves
<1>9. CASE RequestRepeated(v)
  <2>1. contact' = [contact EXCEPT ![v] = contact[v]] /\ posting' = [posting EXCEPT ![d] = posting[c]]
        /\ UNCHANGED <<mails, passes, enquiries>>
    BY <1>1, <1>3, <1>9 DEF RequestRepeated
  <2> QED
    BY <1>1, <1>2, <2>1, VisitorMoves
<1> QED
  BY <1>4, <1>5, <1>6, <1>7, <1>8, <1>9

\* What was sent before is read.
LEMMA BeginMailStep ==
  ASSUME EnquiryInv, NEW c \in Connections, BeginMail(c)
  PROVE  EnquiryInv'
<1>1. CASE Fails(c)
  BY <1>1, FailsKeeps DEF BeginMail
<1>2. CASE ~Fails(c)
  <2> DEFINE p == [posting[c] EXCEPT !.is = "asked", !.read = Len(mails)]
  <2>1. /\ posting' = [posting EXCEPT ![c].is = "asked", ![c].read = Len(mails)]
        /\ UNCHANGED <<contact, mails, passes, enquiries>> /\ posting[c].is = "ask"
    BY <1>2 DEF BeginMail
  <2>2. contact \in [Visitors -> Contacts] /\ posting \in [Connections -> Posts]
    BY EnquiryTypes DEF EnquiryInv
  <2>3. PICK v \in Visitors : v = c[1]
    BY EnquiryParts
  <2>4. contact' = [contact EXCEPT ![v] = contact[v]] /\ posting' = [posting EXCEPT ![c] = p]
    BY <2>1, <2>2
  <2>5. posting[c] \in Posts /\ posting[c].address \in Mailboxes
    BY <2>1, EnquiryParts DEF PostRefers
  <2>6. p \in Posts /\ p.is = "asked" /\ p.read = Len(mails) /\ p.address = posting[c].address
    BY <2>5, EnquiryParts DEF Posts
  <2> HIDE DEF p
  <2>7. PostRefers(v, p)
    BY <2>5, <2>6, EnquiryParts DEF PostRefers
  <2>8. contact[v] \in Contacts /\ ChallengeSent(contact[v])
    BY EnquiryParts
  <2> QED
    BY <2>1, <2>3, <2>4, <2>6, <2>7, <2>8, VisitorMoves
<1> QED
  BY <1>1, <1>2

\* A new challenge; earlier ones keep their address and may become used.
LEMMA CommitMailStep ==
  ASSUME EnquiryInv, NEW c \in Connections, CommitMail(c)
  PROVE  EnquiryInv'
<1> DEFINE a == posting[c].address
           new == [address |-> a, age |-> "recent", used |-> FALSE, wrong |-> 0]
           q == [NoPost EXCEPT !.is = "mailed", !.ref = Len(mails) + 1]
<1>1. /\ posting[c].is = "asked" /\ Len(mails) < MaxMails
      /\ UNCHANGED <<passes, enquiries>>
      /\ Replies(c, q) \/ Fails(c)
  BY DEF CommitMail
<1>2. mails \in Seq(MailRows) /\ passes \in Seq(PassRows)
  BY EnquiryTypes DEF EnquiryInv
<1>3. a \in Mailboxes
  BY <1>1, EnquiryParts DEF PostRefers
<1>4. new \in MailRows
  BY <1>3, EnquiryAssumption DEF MailRows
<1>5. PICK last \in posting[c].read..Len(mails) :
        mails' = Append([k \in DOMAIN mails |->
                          IF k <= last /\ mails[k].address = a THEN [mails[k] EXCEPT !.used = TRUE]
                          ELSE mails[k]], new)
  BY DEF CommitMail
<1> DEFINE old == [k \in DOMAIN mails |->
                     IF k <= last /\ mails[k].address = a THEN [mails[k] EXCEPT !.used = TRUE]
                     ELSE mails[k]]
<1>6. \A k \in DOMAIN mails : old[k] \in MailRows /\ old[k].address = mails[k].address
  BY EnquiryParts DEF MailRows
<1>7. old \in [1..Len(mails) -> MailRows]
  BY <1>6, EnquiryParts
<1>8. mails' = Append(old, new)
  BY <1>5
<1> HIDE DEF old, new
<1>9. old \in Seq(MailRows) /\ Len(old) = Len(mails)
  BY <1>7, EnquiryParts, SeqDef, LenProperties
<1>10. /\ mails' \in Seq(MailRows) /\ Len(mails') = Len(mails) + 1
       /\ \A k \in 1..Len(mails) : mails'[k] = old[k]
  BY <1>4, <1>8, <1>9, AppendProperties
<1>11. /\ Len(mails) <= Len(mails') /\ Len(mails') <= MaxMails
       /\ Len(mails) + 1 \in DOMAIN mails'
       /\ \A k \in DOMAIN mails : mails'[k].address = mails[k].address
  BY <1>1, <1>6, <1>10, EnquiryParts, LenProperties
<1>12. q \in Posts /\ q.is = "mailed" /\ q.ref = Len(mails) + 1
  <2>1. Len(mails) + 1 \in Nat
    BY EnquiryParts
  <2> QED
    BY <2>1, NoPostType DEF NoPost, Posts
<1> HIDE DEF q
<1>13. UNCHANGED contact /\ \E p \in {q, NoPost} : posting' = [posting EXCEPT ![c] = p]
  BY <1>1, ReplyIs DEF Fails
<1>14. PICK p \in {q, NoPost} : posting' = [posting EXCEPT ![c] = p]
  BY <1>13
<1>15. PostRefers(c[1], p)'
  BY <1>11, <1>12, <1>14, NoPostType DEF PostRefers
<1>16. /\ p \in Posts /\ passes' \in Seq(PassRows) /\ Len(passes) <= Len(passes')
       /\ \A g \in DOMAIN passes : passes[g].used => passes'[g].used
  BY <1>1, <1>2, <1>12, NoPostType, EnquiryParts
<1> QED
  BY <1>1, <1>10, <1>11, <1>13, <1>14, <1>15, <1>16, RequestMoves

\* A challenge is read, and judged.
LEMMA ReadChallengeStep ==
  ASSUME EnquiryInv, NEW c \in Connections, ReadChallenge(c)
  PROVE  EnquiryInv'
<1>1. CASE Fails(c)
  BY <1>1, FailsKeeps DEF ReadChallenge
<1>2. CASE ~Fails(c)
  <2> DEFINE p == [posting[c] EXCEPT !.is = Judged(c), !.read = mails[posting[c].ref].wrong]
  <2>1. /\ posting[c].is = "check" /\ Judged(c) # "none"
        /\ posting' = [posting EXCEPT ![c].is = Judged(c), ![c].read = mails[posting[c].ref].wrong]
        /\ UNCHANGED <<contact, mails, passes, enquiries>>
    BY <1>2, Zenon DEF ReadChallenge
  <2>2. contact \in [Visitors -> Contacts] /\ posting \in [Connections -> Posts]
    BY EnquiryTypes DEF EnquiryInv
  <2>3. PICK v \in Visitors : v = c[1]
    BY EnquiryParts
  <2>4. contact' = [contact EXCEPT ![v] = contact[v]] /\ posting' = [posting EXCEPT ![c] = p]
    BY <2>1, <2>2
  <2>5. /\ posting[c] \in Posts /\ posting[c].ref \in DOMAIN mails
        /\ posting[c].code # 0 => mails[posting[c].code].address \in ReadBy[v]
    BY <2>1, <2>3, EnquiryParts DEF PostRefers
  <2>6. mails[posting[c].ref] \in MailRows /\ posting[c].ref # 0
    BY <2>5, EnquiryParts
  <2>7. PICK read \in MailRows : read = mails[posting[c].ref]
    BY <2>6
  <2>8. /\ read.address = posting[c].address /\ ~read.used
        /\ \/ Judged(c) = "late"
           \/ /\ ~(read.wrong >= MaxWrong)
              /\ Judged(c) = IF CodeFits(posting[c].ref, posting[c].code) THEN "right" ELSE "wrong"
    BY <2>1, <2>7 DEF Judged
  <2>9. PICK is \in {"late", "right", "wrong"} : is = Judged(c)
    BY <2>8
  <2>10. p \in Posts /\ p.is = is /\ p.ref = posting[c].ref /\ p.address = posting[c].address
         /\ p.read = read.wrong
    <3>1. p = [posting[c] EXCEPT !.is = is, !.read = read.wrong] /\ read.wrong \in Nat
      BY <2>7, <2>9 DEF MailRows
    <3> HIDE DEF p
    <3> QED
      BY <2>5, <2>9, <3>1 DEF Posts
  <2> HIDE DEF p
  <2>11. is = "right" => p.address \in ReadBy[v] \cap Mailboxes
    BY <2>5, <2>6, <2>7, <2>8, <2>9, <2>10 DEF CodeFits, MailRows
  <2>12. is = "wrong" => p.read < MaxWrong
    BY <2>7, <2>8, <2>9, <2>10, EnquiryAssumption DEF MailRows
  <2>13. PostRefers(v, p)
    BY <2>5, <2>9, <2>10, <2>11, <2>12 DEF PostRefers
  <2>14. contact[v] \in Contacts /\ ChallengeSent(contact[v])
    BY EnquiryParts
  <2> QED
    BY <2>1, <2>3, <2>4, <2>10, <2>13, <2>14, VisitorMoves
<1> QED
  BY <1>1, <1>2

\* A challenge is marked, and keeps its address.
LEMMA MailMarked ==
  ASSUME EnquiryInv, NEW k \in DOMAIN mails, NEW m \in MailRows,
         m.address = mails[k].address, mails' = [mails EXCEPT ![k] = m]
  PROVE  /\ mails' \in Seq(MailRows) /\ Len(mails) <= Len(mails') /\ Len(mails') <= MaxMails
         /\ \A i \in DOMAIN mails : mails'[i].address = mails[i].address
<1>1. mails \in Seq(MailRows) /\ DOMAIN mails = 1..Len(mails) /\ Len(mails) \in Nat
  BY EnquiryTypes, EnquiryParts DEF EnquiryInv
<1>2. /\ mails' \in Seq(MailRows) /\ Len(mails') = Len(mails)
      /\ \A i \in 1..Len(mails) : mails'[i] = IF i = k THEN m ELSE mails[i]
  BY <1>1, ExceptSeq
<1> QED
  BY <1>1, <1>2, EnquiryParts

\* What the checks made of a challenge is committed; the right code gives a grant for an
\* address whose mail its visitor reads.
LEMMA SettleChallengeStep ==
  ASSUME EnquiryInv, NEW c \in Connections, SettleChallenge(c)
  PROVE  EnquiryInv'
<1> DEFINE a == posting[c].address
           k == posting[c].ref
           used == [mails[k] EXCEPT !.used = TRUE]
           wrong == [mails[k] EXCEPT !.wrong = posting[c].read + 1]
           grant == [address |-> a, used |-> FALSE, expired |-> FALSE]
           post == [NoPost EXCEPT !.is = "post", !.address = a, !.ref = Len(passes) + 1]
<1>1. posting[c].is \in {"late", "right", "wrong"} /\ UNCHANGED enquiries
  BY DEF SettleChallenge
<1>2. /\ k \in DOMAIN mails /\ mails[k] \in MailRows /\ posting[c] \in Posts
      /\ posting[c].is = "wrong" => posting[c].read < MaxWrong
      /\ posting[c].is = "right" => a \in ReadBy[c[1]] \cap Mailboxes
  BY <1>1, EnquiryParts DEF PostRefers
<1>3. mails \in Seq(MailRows) /\ passes \in Seq(PassRows) /\ Len(passes) \in Nat
  BY EnquiryTypes, EnquiryParts DEF EnquiryInv
<1>4. PICK m \in MailRows : m.address = mails[k].address /\ mails' = [mails EXCEPT ![k] = m]
  <2>1. CASE posting[c].is = "wrong"
    <3>1. mails' = [mails EXCEPT ![k] = wrong]
      BY <2>1, <1>2 DEF SettleChallenge
    <3>2. posting[c].read + 1 \in 0..MaxWrong
      BY <1>2, <2>1, EnquiryAssumption DEF Posts
    <3>3. wrong \in MailRows /\ wrong.address = mails[k].address
      BY <1>2, <3>2 DEF MailRows
    <3> HIDE DEF wrong, k
    <3> QED
      BY <3>1, <3>3
  <2>2. CASE posting[c].is # "wrong"
    <3>1. mails' = [mails EXCEPT ![k] = used]
      BY <2>2, <1>2 DEF SettleChallenge
    <3>2. used \in MailRows /\ used.address = mails[k].address
      BY <1>2 DEF MailRows
    <3> HIDE DEF used, k
    <3> QED
      BY <3>1, <3>2
  <2> QED
    BY <2>1, <2>2
<1>5. /\ mails' \in Seq(MailRows) /\ Len(mails) <= Len(mails') /\ Len(mails') <= MaxMails
      /\ \A i \in DOMAIN mails : mails'[i].address = mails[i].address
  <2> HIDE DEF k
  <2> QED
    BY <1>2, <1>4, MailMarked
<1>6. CASE posting[c].is # "right"
  <2>1. posting' = [posting EXCEPT ![c] = NoPost] /\ UNCHANGED <<contact, passes>>
    BY <1>6 DEF SettleChallenge, Fails
  <2>2. PostRefers(c[1], NoPost)'
    BY NoPostType DEF PostRefers
  <2>3. /\ passes' \in Seq(PassRows) /\ Len(passes) <= Len(passes')
        /\ \A g \in DOMAIN passes : passes[g].used => passes'[g].used
    BY <1>3, <2>1
  <2> QED
    BY <1>1, <1>5, <2>1, <2>2, <2>3, NoPostType, RequestMoves
<1>7. CASE posting[c].is = "right"
  <2>1. passes' = Append(passes, grant) /\ Replies(c, post)
    BY <1>7, Zenon DEF SettleChallenge
  <2>2. grant \in PassRows
    BY <1>2, <1>7 DEF PassRows
  <2> HIDE DEF grant
  <2>3. /\ passes' \in Seq(PassRows) /\ Len(passes') = Len(passes) + 1
        /\ \A g \in 1..Len(passes) : passes'[g] = passes[g]
    BY <1>3, <2>1, <2>2, AppendProperties
  <2>4. Len(passes) + 1 \in DOMAIN passes' /\ Len(passes) <= Len(passes')
        /\ \A g \in DOMAIN passes : passes[g].used => passes'[g].used
    <3>1. DOMAIN passes' = 1..(Len(passes) + 1) /\ DOMAIN passes = 1..Len(passes)
      BY <1>3, <2>3, LenProperties
    <3> QED
      BY <1>3, <2>3, <3>1
  <2>6. post \in Posts /\ post.is = "post" /\ post.ref = Len(passes) + 1 /\ post.address = a
    <3>1. a \in Mailboxes /\ Len(passes) + 1 \in Nat
      BY <1>2, <1>3, <1>7
    <3> HIDE DEF a
    <3> QED
      BY <3>1, NoPostType DEF Posts
  <2> HIDE DEF post
  <2>7. UNCHANGED contact /\ \E p \in {post, NoPost} : posting' = [posting EXCEPT ![c] = p]
    BY <2>1, ReplyIs
  <2>8. PICK p \in {post, NoPost} : posting' = [posting EXCEPT ![c] = p]
    BY <2>7
  <2>9. PostRefers(c[1], p)'
    BY <1>2, <1>7, <2>4, <2>6, <2>8, NoPostType DEF PostRefers
  <2>10. p \in Posts
    BY <2>6, NoPostType
  <2> QED
    BY <1>1, <1>5, <2>3, <2>4, <2>7, <2>8, <2>9, <2>10, RequestMoves
<1> QED
  BY <1>6, <1>7

\* A grant is read.
LEMMA ReadGrantStep ==
  ASSUME EnquiryInv, NEW c \in Connections, ReadGrant(c)
  PROVE  EnquiryInv'
<1>1. CASE Fails(c)
  BY <1>1, FailsKeeps DEF ReadGrant
<1>2. CASE ~Fails(c)
  <2> DEFINE p == [posting[c] EXCEPT !.is = "spend", !.read = Len(enquiries)]
  <2>1. /\ posting[c].is = "post" /\ ~passes[posting[c].ref].used
        /\ posting' = [posting EXCEPT ![c].is = "spend", ![c].read = Len(enquiries)]
        /\ UNCHANGED <<contact, mails, passes, enquiries>>
    BY <1>2, Zenon DEF ReadGrant
  <2>2. contact \in [Visitors -> Contacts] /\ posting \in [Connections -> Posts]
    BY EnquiryTypes DEF EnquiryInv
  <2>3. PICK v \in Visitors : v = c[1]
    BY EnquiryParts
  <2>4. contact' = [contact EXCEPT ![v] = contact[v]] /\ posting' = [posting EXCEPT ![c] = p]
    BY <2>1, <2>2
  <2>5. /\ posting[c] \in Posts /\ posting[c].ref \in DOMAIN passes
        /\ posting[c].address \in ReadBy[v] \cap Mailboxes
    BY <2>1, <2>3, EnquiryParts DEF PostRefers
  <2>6. \A m \in DOMAIN enquiries : enquiries[m].pass # posting[c].ref
    BY <2>1 DEF EnquiryInv
  <2>7. Len(enquiries) \in Nat
    BY EnquiryParts
  <2>8. p \in Posts /\ p.is = "spend" /\ p.ref = posting[c].ref
        /\ p.address = posting[c].address /\ p.read = Len(enquiries)
    BY <2>5, <2>7 DEF Posts
  <2> HIDE DEF p
  <2>9. PostRefers(v, p)
    BY <2>5, <2>6, <2>7, <2>8 DEF PostRefers
  <2>10. contact[v] \in Contacts /\ ChallengeSent(contact[v])
    BY EnquiryParts
  <2> QED
    BY <2>1, <2>3, <2>4, <2>8, <2>9, <2>10, VisitorMoves
<1> QED
  BY <1>1, <1>2

\* A grant is used up for an enquiry, which it vouches for: an earlier enquiry on that grant
\* was committed after the grant was looked up for this one.
LEMMA SpendGrantStep ==
  ASSUME EnquiryInv, NEW c \in Connections, SpendGrant(c)
  PROVE  EnquiryInv'
<1> DEFINE used == [passes[posting[c].ref] EXCEPT !.used = TRUE]
           accepted == [NoPost EXCEPT !.is = "accepted"]
<1>1. PICK v, a, g, since : /\ v \in Visitors /\ v = c[1] /\ a = posting[c].address
                            /\ g = posting[c].ref /\ since = posting[c].read
  BY EnquiryParts
<1> DEFINE e == [by |-> v, address |-> a, pass |-> g, since |-> since]
<1>2. /\ posting[c].is = "spend"
      /\ passes' = [passes EXCEPT ![g].used = TRUE]
      /\ enquiries' = Append(enquiries, e)
      /\ Replies(c, accepted)
      /\ UNCHANGED mails
  BY <1>1, Zenon DEF SpendGrant
<1>3. /\ a \in ReadBy[v] \cap Mailboxes /\ g \in DOMAIN passes /\ since \in Nat
      /\ since <= Len(enquiries)
      /\ \A m \in DOMAIN enquiries : enquiries[m].pass = g => since < m
  BY <1>1, <1>2, EnquiryParts DEF PostRefers, Posts
<1>4. /\ mails \in Seq(MailRows) /\ passes \in Seq(PassRows)
      /\ enquiries \in Seq(EnquiryRows(DOMAIN passes))
      /\ contact \in [Visitors -> Contacts] /\ posting \in [Connections -> Posts]
  BY EnquiryTypes DEF EnquiryInv
<1>5. passes' = [passes EXCEPT ![g] = used] /\ used \in PassRows /\ used.used
  <2>1. passes[g] \in PassRows
    BY <1>3, EnquiryParts
  <2> QED
    BY <1>1, <1>2, <2>1 DEF PassRows
<1> HIDE DEF used
<1>6. /\ passes' \in Seq(PassRows) /\ Len(passes') = Len(passes)
      /\ \A k \in 1..Len(passes) : passes'[k] = IF k = g THEN used ELSE passes[k]
  BY <1>3, <1>4, <1>5, EnquiryParts, ExceptSeq
<1>7. DOMAIN passes' = DOMAIN passes /\ DOMAIN passes = 1..Len(passes) /\ Len(passes) \in Nat
  BY <1>6, EnquiryParts, LenProperties
<1>8. e \in EnquiryRows(DOMAIN passes) /\ e.by = v /\ e.address = a /\ e.pass = g /\ e.since = since
  BY <1>1, <1>3 DEF EnquiryRows
<1> HIDE DEF e
<1>9. /\ enquiries' \in Seq(EnquiryRows(DOMAIN passes)) /\ Len(enquiries') = Len(enquiries) + 1
      /\ \A n \in 1..Len(enquiries) : enquiries'[n] = enquiries[n]
      /\ enquiries'[Len(enquiries) + 1] = e
  BY <1>2, <1>4, <1>8, AppendProperties
<1>10. PICK last \in Nat : last = Len(enquiries)
  BY EnquiryParts
<1>11. /\ DOMAIN enquiries = 1..last /\ DOMAIN enquiries' = 1..(last + 1)
       /\ Len(enquiries') = last + 1 /\ enquiries'[last + 1] = e
  BY <1>9, <1>10, EnquiryParts, LenProperties
<1>12. \A n \in DOMAIN enquiries' :
         \/ n \in DOMAIN enquiries /\ n <= last /\ enquiries'[n] = enquiries[n]
         \/ n = last + 1 /\ enquiries'[n] = e
  BY <1>9, <1>10, <1>11
<1>13. \A k \in DOMAIN passes : passes[k].used => passes'[k].used
  BY <1>5, <1>6, <1>7
<1>14. \A n \in DOMAIN enquiries' : passes'[enquiries'[n].pass].used
  <2>1. passes'[g].used
    BY <1>3, <1>5, <1>6, <1>7
  <2>2. \A n \in DOMAIN enquiries : passes'[enquiries[n].pass].used
    BY <1>13, EnquiryParts DEF EnquiryInv
  <2> QED
    BY <1>8, <1>12, <2>1, <2>2
<1>15. EnquiryWasVerified'
  <2>1. /\ \A n \in DOMAIN enquiries : enquiries[n].address \in ReadBy[enquiries[n].by]
        /\ \A m, n \in DOMAIN enquiries :
             m < n /\ enquiries[m].pass = enquiries[n].pass => enquiries[n].since < m
    BY DEF EnquiryInv, EnquiryWasVerified
  <2>2. \A n \in DOMAIN enquiries' : enquiries'[n].address \in ReadBy[enquiries'[n].by]
    BY <1>3, <1>8, <1>12, <2>1
  <2>3. ASSUME NEW m \in DOMAIN enquiries', NEW n \in DOMAIN enquiries', m < n,
               enquiries'[m].pass = enquiries'[n].pass
        PROVE  enquiries'[n].since < m
    <3>1. m \in 1..last /\ enquiries'[m] = enquiries[m]
      BY <1>10, <1>11, <1>12, <2>3
    <3>2. CASE n = last + 1
      BY <1>3, <1>8, <1>10, <1>11, <2>3, <3>1, <3>2
    <3>3. CASE n # last + 1
      BY <1>10, <1>12, <2>1, <2>3, <3>1, <3>3
    <3> QED
      BY <3>2, <3>3
  <2> QED
    BY <2>2, <2>3 DEF EnquiryWasVerified
<1>16. StoreGrows
  <2>1. /\ Len(enquiries') \in Nat /\ Len(enquiries) <= Len(enquiries')
        /\ DOMAIN enquiries' = 1..Len(enquiries')
        /\ \A n \in DOMAIN enquiries' : \/ n \in DOMAIN enquiries /\ enquiries'[n] = enquiries[n]
                                        \/ n > Len(enquiries)
    BY <1>10, <1>11, <1>12
  <2>2. /\ mails' \in Seq(MailRows) /\ Len(mails) <= Len(mails') /\ Len(mails') <= MaxMails
        /\ \A k \in DOMAIN mails : mails'[k].address = mails[k].address
    BY <1>2, <1>4, EnquiryParts
  <2>3. Len(passes) <= Len(passes')
    BY <1>6, <1>7
  <2> QED
    BY <1>6, <1>13, <2>1, <2>2, <2>3 DEF StoreGrows
<1>17. accepted \in Posts /\ accepted.is = "accepted"
  BY NoPostType DEF Posts
<1> HIDE DEF accepted
<1>18. UNCHANGED contact /\ \E p \in {accepted, NoPost} : posting' = [posting EXCEPT ![c] = p]
  BY <1>2, ReplyIs
<1>19. PICK p \in {accepted, NoPost} : posting' = [posting EXCEPT ![c] = p]
  BY <1>18
<1>20. /\ posting' \in [Connections -> Posts]
       /\ \A d \in Connections : posting'[d] = IF d = c THEN p ELSE posting[d]
  BY <1>4, <1>17, <1>19, NoPostType
<1>21. ASSUME NEW d \in Connections
       PROVE  posting'[d] = posting[d] \/ PostRefers(d[1], posting[d])'
  BY <1>17, <1>19, <1>20, NoPostType DEF PostRefers
<1>22. contact' \in [Visitors -> Contacts] /\ \A u \in Visitors : ChallengeSent(contact[u])'
  BY <1>2, <1>4, <1>18, EnquiryParts DEF ChallengeSent
<1>23. enquiries' \in Seq(EnquiryRows(DOMAIN passes'))
  BY <1>7, <1>9
<1> QED
  BY <1>14, <1>15, <1>16, <1>20, <1>21, <1>22, <1>23, EnquiryInvAfter

\* Time passes for a challenge.
LEMMA MailAgesStep ==
  ASSUME EnquiryInv, NEW k \in DOMAIN mails, MailAges(k)
  PROVE  EnquiryInv'
<1> DEFINE m == [mails[k] EXCEPT !.age = IF @ = "recent" THEN "valid" ELSE "expired"]
<1>1. /\ mails' = [mails EXCEPT ![k] = m]
      /\ UNCHANGED <<contact, posting, passes, enquiries>>
  BY DEF MailAges
<1>2. m \in MailRows /\ m.address = mails[k].address
  BY EnquiryParts DEF MailRows
<1> HIDE DEF m
<1>3. /\ mails' \in Seq(MailRows) /\ Len(mails) <= Len(mails') /\ Len(mails') <= MaxMails
      /\ \A i \in DOMAIN mails : mails'[i].address = mails[i].address
  BY <1>1, <1>2, MailMarked
<1>4. /\ passes \in Seq(PassRows) /\ contact \in [Visitors -> Contacts]
      /\ posting \in [Connections -> Posts] /\ Len(passes) <= Len(passes)
  BY EnquiryTypes, EnquiryParts DEF EnquiryInv
<1>5. StoreGrows
  BY <1>1, <1>3, <1>4, EnquiryParts DEF StoreGrows
<1>6. ASSUME NEW v \in Visitors PROVE ChallengeSent(contact[v])'
  <2>1. contact[v].challenge \in Nat /\ ChallengeSent(contact[v])
    BY EnquiryParts DEF Contacts
  <2>2. Len(mails') \in Nat
    BY <1>3, LenProperties
  <2> QED
    BY <1>1, <1>3, <2>1, <2>2, EnquiryParts DEF ChallengeSent
<1>7. /\ enquiries' \in Seq(EnquiryRows(DOMAIN passes'))
      /\ \A n \in DOMAIN enquiries' : passes'[enquiries'[n].pass].used
      /\ EnquiryWasVerified'
  BY <1>1, <1>4, EnquiriesStay
<1> QED
  BY <1>1, <1>4, <1>5, <1>6, <1>7, EnquiryInvAfter

\* Time passes for a grant.
LEMMA PassExpiresStep ==
  ASSUME EnquiryInv, NEW g \in DOMAIN passes, PassExpires(g)
  PROVE  EnquiryInv'
<1> DEFINE p == [passes[g] EXCEPT !.expired = TRUE]
<1>1. /\ passes' = [passes EXCEPT ![g] = p]
      /\ UNCHANGED <<contact, posting, mails, enquiries>>
  BY DEF PassExpires
<1>2. p \in PassRows /\ p.used = passes[g].used
  BY EnquiryParts DEF PassRows
<1> HIDE DEF p
<1>3. /\ passes \in Seq(PassRows) /\ contact \in [Visitors -> Contacts]
      /\ posting \in [Connections -> Posts] /\ mails \in Seq(MailRows)
  BY EnquiryTypes DEF EnquiryInv
<1>4. /\ passes' \in Seq(PassRows) /\ Len(passes') = Len(passes)
      /\ \A k \in 1..Len(passes) : passes'[k] = IF k = g THEN p ELSE passes[k]
  BY <1>1, <1>2, <1>3, EnquiryParts, ExceptSeq
<1>5. /\ Len(passes) <= Len(passes') /\ Len(mails) <= Len(mails)
      /\ \A k \in DOMAIN passes : passes[k].used => passes'[k].used
  BY <1>2, <1>4, EnquiryParts
<1>6. StoreGrows
  BY <1>1, <1>3, <1>4, <1>5, EnquiryParts DEF StoreGrows
<1>7. \A v \in Visitors : ChallengeSent(contact[v])'
  BY <1>1, EnquiryParts DEF ChallengeSent
<1>8. /\ enquiries' \in Seq(EnquiryRows(DOMAIN passes'))
      /\ \A n \in DOMAIN enquiries' : passes'[enquiries'[n].pass].used
      /\ EnquiryWasVerified'
  BY <1>1, <1>4, <1>5, EnquiriesStay
<1> QED
  BY <1>1, <1>3, <1>6, <1>7, <1>8, EnquiryInvAfter

LEMMA EnquiryInvStep == EnquiryInv /\ [EnquiryNext]_enquiryVars => EnquiryInv'
<1> SUFFICES ASSUME EnquiryInv, [EnquiryNext]_enquiryVars PROVE EnquiryInv'
  OBVIOUS
<1>1. CASE UNCHANGED enquiryVars
  <2>1. UNCHANGED <<contact, posting, mails, passes, enquiries>>
    BY <1>1 DEF enquiryVars
  <2> QED
    BY <2>1 DEF EnquiryInv, EnquiryTypeOK, PostRefers, ChallengeSent, EnquiryWasVerified
<1>2. ASSUME NEW v \in Visitors,
        \/ \E a \in Mailboxes : RequestCode(v, a)
        \/ \E code \in 0..Len(mails) : EnterCode(v, code)
        \/ AskCode(v) \/ GoBack(v) \/ CountdownEnds(v) \/ ShowSent(v) \/ RequestRepeated(v)
      PROVE EnquiryInv'
  BY <1>2, PageSteps DEF CountdownEnds
<1>3. ASSUME NEW c \in Connections,
        \/ BeginMail(c) \/ CommitMail(c) \/ ReadChallenge(c) \/ SettleChallenge(c)
        \/ ReadGrant(c) \/ SpendGrant(c) \/ RequestLost(c)
      PROVE EnquiryInv'
  BY <1>3, BeginMailStep, CommitMailStep, ReadChallengeStep, SettleChallengeStep,
     ReadGrantStep, SpendGrantStep, FailsKeeps DEF RequestLost
<1>4. ASSUME NEW k \in DOMAIN mails, MailAges(k) PROVE EnquiryInv'
  BY <1>4, MailAgesStep
<1>5. ASSUME NEW g \in DOMAIN passes, PassExpires(g) PROVE EnquiryInv'
  BY <1>5, PassExpiresStep
<1> QED
  BY <1>1, <1>2, <1>3, <1>4, <1>5 DEF EnquiryNext

\* The invariant of the contact form, with every look-up and its commit apart: types,
\* requests that refer to what was sent or granted, and enquiries whose grants are used up.
THEOREM EnquiryInvariant == EnquirySpec => []EnquiryInv
<1>1. EnquiryInit => EnquiryInv
  BY EnquiryInvInit
<1>2. EnquiryInv /\ [EnquiryNext]_enquiryVars => EnquiryInv'
  BY EnquiryInvStep
<1> QED
  BY <1>1, <1>2, PTL DEF EnquirySpec

\* Whatever visitors enter or go back from, and whatever requests overlap, are sent twice or
\* lost, an accepted enquiry names an address whose mail its sender reads; a grant that an
\* enquiry has used lets no other one in but one that looked it up before (submit_contact,
\* verify_email_code: no lock on the row).
THEOREM EnquiryAlwaysVerified == EnquirySpec => []EnquiryWasVerified
<1>1. EnquiryInv => EnquiryWasVerified
  BY DEF EnquiryInv
<1> QED
  BY <1>1, EnquiryInvariant, PTL
=============================================================================
