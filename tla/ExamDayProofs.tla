---------------------------- MODULE ExamDayProofs ----------------------------
(***************************************************************************)
(* Proofs about ExamDay, for every number of seats, candidates, envelopes  *)
(* and overlapping requests: no answer leaves the centre before the window *)
(* has closed, the public anchor is never replaced, exports skip no row,   *)
(* bundles are runs of the ledger, and the anchor vouches for a prefix.    *)
(*                                                                         *)
(* GateInv carries the first two.  The others need DayInv: it adds to the  *)
(* seats' own invariant that no two rows have one leaf, that the rows      *)
(* marked are a prefix, and that every export being written starts at or   *)
(* before the first row not marked.                                        *)
(***************************************************************************)
EXTENDS ExamDay, SeatPipelineProofs, SequenceTheorems, FiniteSetTheorems

\* Request a becomes r, and r claims no more than the window allows.
GateMove(a, r) ==
    /\ admin' = [admin EXCEPT ![a] = r]
    /\ r.pc \in Undecided \cup Decided
    /\ r.closed \in BOOLEAN
    /\ r.closed \/ r.pc \in Decided => windowClosed

\* The counting queries of the gate let nobody past before the window closes.
LEMMA GateStep ==
  ASSUME GateInv, NEW a \in Admins, EgressOpen(a) \/ LedgerExport(a)
  PROVE  GateInv'
<1>1. UNCHANGED <<windowClosed, egressOpened, synced, bundles, vault>>
  BY DEF EgressOpen, LedgerExport, AskGate, DecideGate, gateVars, hqVars
<1>2. PICK r : GateMove(a, r)
  <2>1. ASSUME NEW stage \in {"askedOpen", "askedExport"}, AskGate(a, stage)
        PROVE  \E r : GateMove(a, r)
    <3> DEFINE r == [NoRequest EXCEPT !.pc = stage, !.closed = windowClosed,
                                      !.present = presentCount]
    <3>1. admin' = [admin EXCEPT ![a] = r]
      BY <2>1 DEF AskGate
    <3>2. r.pc = stage /\ r.closed = windowClosed
      BY DEF NoRequest
    <3> HIDE DEF r
    <3>3. GateMove(a, r)
      BY <3>1, <3>2 DEF GateMove, GateInv, Undecided, Decided
    <3> QED
      BY <3>3
  <2>2. ASSUME NEW asked \in {"askedOpen", "askedExport"},
               NEW passed \in {"opening", "listing"}, DecideGate(a, asked, passed)
        PROVE  \E r : GateMove(a, r)
    <3> DEFINE r == IF mayOpen(admin[a].closed, admin[a].present)
                    THEN [NoRequest EXCEPT !.pc = passed] ELSE NoRequest
    <3>1. admin' = [admin EXCEPT ![a] = r]
      BY <2>2 DEF DecideGate
    <3>2. /\ r.pc \in {passed, "idle"} /\ r.closed = FALSE
          /\ r.pc = passed => admin[a].closed
      BY DEF NoRequest, mayOpen
    <3> HIDE DEF r
    <3>3. GateMove(a, r)
      BY <3>1, <3>2 DEF GateMove, GateInv, Undecided, Decided
    <3> QED
      BY <3>3
  <2>3. CASE egressOpened /\ admin' = [admin EXCEPT ![a] = [NoRequest EXCEPT !.pc = "listing"]]
    BY <2>3 DEF GateMove, NoRequest, Undecided, Decided, GateInv
  <2> QED
    BY <2>1, <2>2, <2>3 DEF EgressOpen, LedgerExport
<1> QED
  BY <1>1, <1>2 DEF GateMove, GateInv, NothingLeavesEarly, Undecided, Decided

\* The steps behind the gate are taken by requests that have passed it.
LEMMA ExportStep ==
  ASSUME GateInv, NEW a \in Admins,
         \/ CommitOpenEgress(a) \/ ListSealedForExport(a) \/ MarkSynced(a)
         \/ DeliverBundle(a) \/ LoseBundle(a)
  PROVE  GateInv'
<1>1. windowClosed
  BY DEF CommitOpenEgress, ListSealedForExport, MarkSynced, DeliverBundle, LoseBundle,
         GateInv, Decided
<1>2. windowClosed' = windowClosed
  BY DEF CommitOpenEgress, ListSealedForExport, MarkSynced, DeliverBundle, LoseBundle,
         gateVars
<1>3. PICK r : GateMove(a, r)
  <2>1. CASE CommitOpenEgress(a) \/ DeliverBundle(a) \/ LoseBundle(a)
    <3>1. admin' = [admin EXCEPT ![a] = NoRequest]
      BY <2>1 DEF CommitOpenEgress, DeliverBundle, LoseBundle
    <3> QED
      BY <1>1, <3>1 DEF GateMove, NoRequest, Undecided, Decided
  <2>2. CASE ListSealedForExport(a)
    <3> DEFINE r == [NoRequest EXCEPT !.pc = "exporting", !.records = SealedRows]
    <3>1. admin' = [admin EXCEPT ![a] = NoRequest] \/ admin' = [admin EXCEPT ![a] = r]
      BY <2>2 DEF ListSealedForExport
    <3>2. r.pc = "exporting" /\ r.closed = FALSE
      BY DEF NoRequest
    <3> HIDE DEF r
    <3> QED
      BY <1>1, <3>1, <3>2 DEF GateMove, NoRequest, Undecided, Decided
  <2>3. CASE MarkSynced(a)
    <3> DEFINE r == [NoRequest EXCEPT !.pc = "replying", !.records = admin[a].records]
    <3>1. admin' = [admin EXCEPT ![a] = r]
      BY <2>3 DEF MarkSynced
    <3>2. r.pc = "replying" /\ r.closed = FALSE
      BY DEF NoRequest
    <3> HIDE DEF r
    <3>3. GateMove(a, r)
      BY <1>1, <3>1, <3>2 DEF GateMove, Decided
    <3> QED
      BY <3>3
  <2> QED
    BY <2>1, <2>2, <2>3
<1> QED
  BY <1>1, <1>2, <1>3 DEF GateMove, GateInv, NothingLeavesEarly

LEMMA GateInvInit == DayInit => GateInv
<1> SUFFICES ASSUME DayInit PROVE GateInv
  OBVIOUS
<1>1. /\ admin = [a \in Admins |-> NoRequest]
      /\ windowClosed = FALSE /\ egressOpened = FALSE
      /\ synced = {} /\ bundles = {} /\ vault = {}
  BY DEF DayInit
<1>2. NoRequest.pc = "idle" /\ NoRequest.closed = FALSE
  BY DEF NoRequest
<1>3. DOMAIN admin = Admins /\ \A a \in Admins : admin[a].pc = "idle" /\ admin[a].closed = FALSE
  BY <1>1, <1>2
<1> QED
  BY <1>1, <1>3 DEF GateInv, NothingLeavesEarly, Undecided, Decided

LEMMA GateInvStep == GateInv /\ [DayNext]_<<seatVars, egressVars>> => GateInv'
<1> SUFFICES ASSUME GateInv, [DayNext]_<<seatVars, egressVars>> PROVE GateInv'
  OBVIOUS
<1>1. CASE UNCHANGED egressVars
  BY <1>1 DEF egressVars, gateVars, hqVars, GateInv, NothingLeavesEarly
<1>2. CASE CloseWindow
  BY <1>2 DEF CloseWindow, GateInv, NothingLeavesEarly
<1>3. ASSUME NEW a \in Admins, EgressOpen(a) \/ LedgerExport(a) PROVE GateInv'
  BY <1>3, GateStep
<1>4. ASSUME NEW a \in Admins,
             \/ CommitOpenEgress(a) \/ ListSealedForExport(a) \/ MarkSynced(a)
             \/ DeliverBundle(a) \/ LoseBundle(a)
      PROVE  GateInv'
  BY <1>4, ExportStep
<1>5. ASSUME NEW b \in bundles, IngestBundle(b) \/ AnchorCentreAnswerRoot(b) PROVE GateInv'
  BY <1>5 DEF IngestBundle, AnchorCentreAnswerRoot, gateVars, GateInv, NothingLeavesEarly
<1>6. CASE RestartEdge
  BY <1>6 DEF RestartEdge, gateVars, hqVars, NoRequest, Undecided, Decided, GateInv,
              NothingLeavesEarly
<1> QED
  BY <1>1, <1>2, <1>3, <1>4, <1>5, <1>6 DEF DayNext, EgressNext

\* The gate invariant holds whatever requests, submissions and restarts overlap.
THEOREM GateInvariant == DaySpec => []GateInv
  BY GateInvInit, GateInvStep, PTL DEF DaySpec

\* INV-3: no answer is exported, at HQ or marked SYNCED before the window closes.
THEOREM NothingEverLeavesEarly == DaySpec => []NothingLeavesEarly
<1>1. GateInv => NothingLeavesEarly
  BY DEF GateInv
<1> QED
  BY <1>1, GateInvariant, PTL

\* anchorCentreAnswerRoot reverts on a second anchor of the same centre.
THEOREM AnchorNeverReplaced == DaySpec => AnchorIsFinal
<1>1. [DayNext]_<<seatVars, egressVars>> => [anchor.anchored => anchor' = anchor]_anchor
  BY DEF DayNext, EgressNext, RestartEdge, egressVars, gateVars, hqVars, CloseWindow,
         EgressOpen, AskGate, DecideGate, LedgerExport, CommitOpenEgress,
         ListSealedForExport, MarkSynced, DeliverBundle, LoseBundle, IngestBundle,
         AnchorCentreAnswerRoot, MayAnchor
<1> QED
  BY <1>1, PTL DEF DaySpec, AnchorIsFinal

-----------------------------------------------------------------------------
(* Runs of consecutive rows of the ledger. *)

LEMMA RunRows ==
  ASSUME SeatTypeOK, NEW i \in 1..(Len(ledger) + 1), NEW j \in 0..Len(ledger)
  PROVE  /\ SubSeq(ledger, i, j) \in Seq(LedgerRows)
         /\ Len(SubSeq(ledger, i, j)) = IF i <= j THEN j - i + 1 ELSE 0
         /\ \A k \in 1..(j - i + 1) : SubSeq(ledger, i, j)[k] = ledger[k + i - 1]
<1>1. ledger \in Seq(LedgerRows) /\ Len(ledger) \in Nat
  BY LenProperties DEF SeatTypeOK
<1>2. \A k \in i..j : ledger[k] \in LedgerRows
  BY <1>1, ElementOfSeq
<1>3. /\ SubSeq(ledger, i, j) \in Seq(LedgerRows)
      /\ Len(SubSeq(ledger, i, j)) = IF i <= j THEN j - i + 1 ELSE 0
      /\ \A k \in 1..(j - i + 1) : SubSeq(ledger, i, j)[k] = ledger[i + k - 1]
  BY <1>1, <1>2, SubSeqProperties
<1> QED
  BY <1>1, <1>3

LEMMA LeavesOfRun ==
  ASSUME SeatTypeOK, NEW i \in 1..(Len(ledger) + 1), NEW j \in 0..Len(ledger)
  PROVE  Leaves(SubSeq(ledger, i, j)) = {ledger[k].leaf : k \in i..j}
<1> DEFINE b == SubSeq(ledger, i, j)
<1>1. /\ Len(ledger) \in Nat /\ Len(b) = IF i <= j THEN j - i + 1 ELSE 0
      /\ \A k \in 1..(j - i + 1) : b[k] = ledger[k + i - 1]
  BY RunRows, LenProperties DEF SeatTypeOK
<1> HIDE DEF b
<1>2. \A k \in 1..Len(b) : k + i - 1 \in i..j /\ b[k] = ledger[k + i - 1]
  BY <1>1
<1>3. \A k \in i..j : k - i + 1 \in 1..Len(b) /\ b[k - i + 1] = ledger[k]
  BY <1>1
<1>4. Leaves(b) = {ledger[k].leaf : k \in i..j}
  <2>1. ASSUME NEW e \in Leaves(b) PROVE \E k \in i..j : e = ledger[k].leaf
    BY <1>2 DEF Leaves
  <2>2. ASSUME NEW k \in i..j PROVE ledger[k].leaf \in Leaves(b)
    BY <1>3 DEF Leaves
  <2> QED
    BY <2>1, <2>2
<1> QED
  BY <1>4 DEF b

LEMMA RowFields ==
  ASSUME SeatTypeOK, NEW k \in 1..Len(ledger)
  PROVE  ledger[k].leaf \in Envelopes /\ {ledger[k].prevRoot, ledger[k].root} \subseteq Seq(Envelopes)
<1>1. ledger[k] \in LedgerRows
  BY ElementOfSeq DEF SeatTypeOK
<1> QED
  BY <1>1 DEF LedgerRows

\* Rows appended later leave a run as it is.
LEMMA AppendKeepsRun ==
  ASSUME SeatTypeOK, NEW row \in LedgerRows, ledger' = Append(ledger, row),
         NEW i \in 1..(Len(ledger) + 1), NEW j \in 0..Len(ledger)
  PROVE  SubSeq(ledger', i, j) = SubSeq(ledger, i, j)
<1>1. /\ ledger \in Seq(LedgerRows) /\ Len(ledger) \in Nat /\ ledger' \in Seq(LedgerRows)
      /\ Len(ledger') = Len(ledger) + 1 /\ \A k \in 1..Len(ledger) : ledger'[k] = ledger[k]
  BY AppendProperties, LenProperties DEF SeatTypeOK
<1>2. /\ SubSeq(ledger, i, j) \in Seq(LedgerRows)
      /\ Len(SubSeq(ledger, i, j)) = IF i <= j THEN j - i + 1 ELSE 0
      /\ \A k \in 1..(j - i + 1) : SubSeq(ledger, i, j)[k] = ledger[k + i - 1]
  BY RunRows
<1>3. \A k \in i..j : ledger'[k] \in LedgerRows
  BY <1>1, ElementOfSeq
<1>4. /\ SubSeq(ledger', i, j) \in Seq(LedgerRows)
      /\ Len(SubSeq(ledger', i, j)) = IF i <= j THEN j - i + 1 ELSE 0
      /\ \A k \in 1..(j - i + 1) : SubSeq(ledger', i, j)[k] = ledger'[i + k - 1]
  BY <1>3, SubSeqProperties
<1>5. \A k \in 1..Len(SubSeq(ledger, i, j)) : SubSeq(ledger', i, j)[k] = SubSeq(ledger, i, j)[k]
  BY <1>1, <1>2, <1>4
<1> QED
  BY <1>2, <1>4, <1>5, SeqEqual

-----------------------------------------------------------------------------
(* What an export lists. *)

\* If the rows marked are the first n, those listed are the rows after them.
LEMMA SealedRowsAreRest ==
  ASSUME SeatTypeOK, LeavesOnce, NEW n \in 0..Len(ledger),
         synced = Leaves(SubSeq(ledger, 1, n))
  PROVE  SealedRows = SubSeq(ledger, n + 1, Len(ledger))
<1> DEFINE L == Len(ledger)
           sealed == {i \in 1..L : ledger[i].leaf \notin synced}
           rest == SubSeq(ledger, n + 1, L)
           before(i) == {j \in sealed : j < i}
           row(k) == ledger[CHOOSE i \in sealed : Cardinality(before(i)) = k - 1]
<1>1. L \in Nat /\ 1 \in 1..(L + 1) /\ n + 1 \in 1..(L + 1) /\ L \in 0..L
  BY LenProperties DEF SeatTypeOK
<1>2. synced = {ledger[k].leaf : k \in 1..n}
  BY <1>1, LeavesOfRun
<1>3. sealed = (n + 1)..L
  <2>1. ASSUME NEW i \in 1..L PROVE ledger[i].leaf \in synced <=> i <= n
    BY <1>1, <1>2 DEF LeavesOnce
  <2> QED
    BY <1>1, <2>1
<1> HIDE DEF sealed
<1>4. Cardinality(sealed) = L - n
  <2>1. n + 1 \in Int /\ L \in Int
    BY <1>1
  <2>2. Cardinality((n + 1)..L) = IF n + 1 > L THEN 0 ELSE L - (n + 1) + 1
    BY <2>1, FS_Interval
  <2> QED
    BY <1>1, <1>3, <2>2
<1>5. ASSUME NEW i \in sealed PROVE Cardinality(before(i)) = i - n - 1
  <2>1. before(i) = (n + 1)..(i - 1) /\ i \in Int /\ n + 1 <= i
    BY <1>1, <1>3
  <2>2. n + 1 \in Int /\ i - 1 \in Int
    BY <1>1, <2>1
  <2>3. Cardinality((n + 1)..(i - 1)) = IF n + 1 > i - 1 THEN 0 ELSE i - 1 - (n + 1) + 1
    BY <2>2, FS_Interval
  <2> HIDE DEF before
  <2> QED
    BY <1>1, <2>1, <2>3
<1> HIDE DEF before
<1>6. /\ rest \in Seq(LedgerRows) /\ Len(rest) = L - n
      /\ \A k \in 1..(L - n) : rest[k] = ledger[k + n]
  <2>1. /\ rest \in Seq(LedgerRows)
        /\ Len(rest) = IF n + 1 <= L THEN L - (n + 1) + 1 ELSE 0
        /\ \A k \in 1..(L - (n + 1) + 1) : rest[k] = ledger[k + (n + 1) - 1]
    BY <1>1, RunRows
  <2> QED
    BY <1>1, <2>1
<1> HIDE DEF rest
<1>7. ASSUME NEW k \in 1..(L - n) PROVE row(k) = rest[k]
  <2>1. k + n \in sealed /\ Cardinality(before(k + n)) = k - 1
    BY <1>1, <1>3, <1>5
  <2>2. \A i \in sealed : Cardinality(before(i)) = k - 1 => i = k + n
    BY <1>1, <1>3, <1>5
  <2>3. (CHOOSE i \in sealed : Cardinality(before(i)) = k - 1) = k + n
    BY <2>1, <2>2
  <2> QED
    BY <1>6, <2>3
<1> HIDE DEF row
<1>8. SealedRows = [k \in 1..(L - n) |-> row(k)]
  BY <1>4 DEF SealedRows, sealed, before, row
<1>9. DOMAIN rest = 1..(L - n) /\ rest = [k \in DOMAIN rest |-> rest[k]]
  BY <1>6, LenProperties
<1>10. SealedRows = rest
  BY <1>7, <1>8, <1>9
<1> QED
  BY <1>10 DEF rest

-----------------------------------------------------------------------------
(* The seats: no two rows get one leaf, and the ledger only grows. *)

Submitting == {"submitRead", "submitTail"}

LEMMA OnlyAnswersGrow ==
  ASSUME SeatNext, ledger' # ledger
  PROVE  \E q \in Reqs : CommitAnswer(q)
  BY DEF SeatNext, SeatWork, seatVars, dbVars, Arrive, Serve, AssignSeat, CandidateLogin, SubmitAnswer,
         CommitAssign, ReadBinding, LoginDenied, LoginGranted, CommitAttend, LockChainTail,
         DeliverReceipt, Provision, CheckIn, Heartbeat, RefetchReceipt, Restart

\* A request that keeps its leaf, drops it or draws a fresh one.
LEMMA LeafMove ==
  ASSUME SeatInv, LeavesOnce, NEW q \in Reqs, NEW r, Enter(q, r), ledger' = ledger,
         \/ r.leaf = NoEnvelope /\ r.pc \notin Submitting
         \/ r.leaf = req[q].leaf /\ (r.pc \in Submitting => req[q].pc \in Submitting)
         \/ Fresh(r.leaf)
  PROVE  LeavesOnce'
<1>1. req'[q] = r /\ \A p \in Reqs \ {q} : req'[p] = req[p]
  BY EnterOne DEF SeatInv
<1>2. \A p \in Reqs : req[p].pc \in Submitting => req[p].leaf \in Envelopes /\ req[p].leaf # NoEnvelope
  BY SeatAssumption DEF SeatInv, RequestShape, Submitting
<1>3. ASSUME NEW p \in Reqs, req'[p].pc \in Submitting
      PROVE  /\ \A i \in 1..Len(ledger) : ledger[i].leaf # req'[p].leaf
             /\ \A o \in Reqs \ {p} : req'[o].leaf # req'[p].leaf
  <2>1. CASE p = q
    BY <1>1, <1>3, <2>1 DEF LeavesOnce, Fresh, Submitting
  <2>2. CASE p # q
    BY <1>1, <1>2, <1>3, <2>2 DEF LeavesOnce, Fresh, Submitting
  <2> QED
    BY <2>1, <2>2
<1> QED
  BY <1>3 DEF LeavesOnce, Submitting

LEMMA CommitKeepsLeaves ==
  ASSUME SeatInv, LeavesOnce, NEW q \in Reqs, CommitAnswer(q)
  PROVE  /\ LeavesOnce'
         /\ \E row \in LedgerRows : ledger' = Append(ledger, row)
<1> DEFINE row == NewRow(q)
           r == [req[q] EXCEPT !.pc = "submitDone"]
<1>1. At(q, "submitTail") /\ ledger' = Append(ledger, row) /\ Enter(q, r)
  BY DEF CommitAnswer
<1>2. req[q] \in Requests /\ req[q].leaf \in Envelopes /\ req[q].seat \in Terminals
  BY <1>1 DEF SeatInv, SeatTypeOK, RequestShape, At
<1>3. row \in LedgerRows /\ row.leaf = req[q].leaf
  BY <1>2, NewRowIsRow DEF NewRow, SeatInv
<1>4. r.pc = "submitDone" /\ r.leaf = req[q].leaf
  BY <1>2 DEF Requests
<1>5. req'[q] = r /\ \A p \in Reqs \ {q} : req'[p] = req[p]
  BY <1>1, EnterOne DEF SeatInv
<1> HIDE DEF row, r
<1>6. /\ Len(ledger) \in Nat /\ Len(ledger') = Len(ledger) + 1 /\ ledger'[Len(ledger) + 1] = row
      /\ \A i \in 1..Len(ledger) : ledger'[i] = ledger[i]
  BY <1>1, <1>3, AppendProperties, LenProperties DEF SeatInv, SeatTypeOK
<1>7. /\ \A i \in 1..Len(ledger) : ledger[i].leaf # req[q].leaf
      /\ \A p \in Reqs \ {q} : req[p].leaf # req[q].leaf
  BY <1>1 DEF LeavesOnce, At
<1>8. \A i \in 1..Len(ledger') :
         \/ i \in 1..Len(ledger) /\ ledger'[i] = ledger[i]
         \/ i = Len(ledger) + 1 /\ ledger'[i].leaf = req[q].leaf
  BY <1>3, <1>6
<1>9. \A i, j \in 1..Len(ledger') : ledger'[i].leaf = ledger'[j].leaf => i = j
  BY <1>7, <1>8 DEF LeavesOnce
<1>10. ASSUME NEW p \in Reqs, req'[p].pc \in Submitting
       PROVE  /\ \A i \in 1..Len(ledger') : ledger'[i].leaf # req'[p].leaf
              /\ \A o \in Reqs \ {p} : req'[o].leaf # req'[p].leaf
  <2>1. p # q /\ req'[p] = req[p] /\ req[p].pc \in Submitting
    BY <1>4, <1>5, <1>10 DEF Submitting
  <2>2. /\ \A i \in 1..Len(ledger) : ledger[i].leaf # req[p].leaf
        /\ \A o \in Reqs \ {p} : req[o].leaf # req[p].leaf
    BY <2>1 DEF LeavesOnce, Submitting
  <2>3. \A o \in Reqs : req'[o].leaf = req[o].leaf
    BY <1>4, <1>5
  <2> QED
    BY <1>8, <2>1, <2>2, <2>3
<1>11. LeavesOnce'
  BY <1>9, <1>10 DEF LeavesOnce, Submitting
<1> QED
  BY <1>1, <1>3, <1>11

LEMMA LeavesOnceStep ==
  ASSUME SeatInv, LeavesOnce, [SeatNext]_seatVars
  PROVE  LeavesOnce'
<1>1. CASE UNCHANGED <<ledger, req>>
  BY <1>1 DEF LeavesOnce
<1>2. ASSUME NEW q \in Reqs, Arrive(q) PROVE LeavesOnce'
  <2>1. ASSUME NEW roll \in Rolls, NEW t \in Terminals,
               AssignSeat(q, roll, t) \/ CandidateLogin(q, t, roll)
        PROVE  LeavesOnce'
    <3> DEFINE s == [Idle EXCEPT !.pc = "assigning", !.seat = t, !.roll = roll]
               l == [Idle EXCEPT !.pc = "loginBegun", !.seat = t, !.roll = roll, !.used = attempts[t]]
    <3>1. (Enter(q, s) \/ Enter(q, l)) /\ ledger' = ledger
      BY <2>1 DEF AssignSeat, CandidateLogin, dbVars
    <3>2. /\ s.leaf = NoEnvelope /\ s.pc = "assigning"
          /\ l.leaf = NoEnvelope /\ l.pc = "loginBegun"
      BY DEF Idle
    <3> HIDE DEF s, l
    <3> QED
      BY <3>1, <3>2, LeafMove DEF Submitting
  <2>2. ASSUME NEW t \in Terminals, NEW e \in Envelopes, SubmitAnswer(q, t, e)
        PROVE  LeavesOnce'
    <3> DEFINE r == [Idle EXCEPT !.pc = "submitRead", !.seat = t, !.leaf = e]
    <3>1. Enter(q, r) /\ ledger' = ledger /\ Fresh(e)
      BY <2>2 DEF SubmitAnswer, dbVars
    <3>2. r.leaf = e
      BY DEF Idle
    <3> HIDE DEF r
    <3> QED
      BY <3>1, <3>2, LeafMove
  <2> QED
    BY <1>2, <2>1, <2>2 DEF Arrive
<1>3. ASSUME NEW q \in Reqs, Serve(q) PROVE LeavesOnce'
  <2>1. req[q] \in Requests
    BY DEF SeatInv, SeatTypeOK
  <2>2. CASE CommitAssign(q) \/ LoginDenied(q) \/ CommitAttend(q) \/ DeliverReceipt(q)
    <3>1. Enter(q, Idle) /\ ledger' = ledger
      BY <2>2 DEF CommitAssign, LoginDenied, CommitAttend, DeliverReceipt, Finish, dbVars
    <3>2. Idle.leaf = NoEnvelope /\ Idle.pc = "idle"
      BY DEF Idle
    <3> QED
      BY <3>1, <3>2, LeafMove DEF Submitting
  <2>3. ASSUME NEW d \in BOOLEAN, ReadBinding(q, d) PROVE LeavesOnce'
    <3> DEFINE r == [req[q] EXCEPT !.pc = "loginRead",
                                   !.ok = LoginVerdict(req[q].seat, req[q].roll, d)]
    <3>1. Enter(q, r) /\ ledger' = ledger
      BY <2>3 DEF ReadBinding, dbVars
    <3>2. r.leaf = req[q].leaf /\ r.pc = "loginRead"
      BY <2>1 DEF Requests
    <3> HIDE DEF r
    <3> QED
      BY <3>1, <3>2, LeafMove DEF Submitting
  <2>4. CASE LoginGranted(q)
    <3> DEFINE r == [req[q] EXCEPT !.pc = "loginGranted", !.used = 0]
    <3>1. Enter(q, r) /\ ledger' = ledger
      BY <2>4 DEF LoginGranted, dbVars
    <3>2. r.leaf = req[q].leaf /\ r.pc = "loginGranted"
      BY <2>1 DEF Requests
    <3> HIDE DEF r
    <3> QED
      BY <3>1, <3>2, LeafMove DEF Submitting
  <2>5. CASE LockChainTail(q)
    <3> DEFINE r == [req[q] EXCEPT !.pc = "submitTail", !.index = ChainTail.index,
                                   !.prevRoot = ChainTail.prevRoot]
    <3>1. Enter(q, r) /\ req[q].pc = "submitRead" /\ ledger' = ledger
      BY <2>5 DEF LockChainTail, At, dbVars
    <3>2. r.leaf = req[q].leaf
      BY <2>1 DEF Requests
    <3> HIDE DEF r
    <3> QED
      BY <3>1, <3>2, LeafMove DEF Submitting
  <2>6. CASE CommitAnswer(q)
    BY <2>6, CommitKeepsLeaves
  <2> QED
    BY <1>3, <2>2, <2>3, <2>4, <2>5, <2>6 DEF Serve
<1>4. CASE Restart
  BY <1>4 DEF Restart, dbVars, LeavesOnce, Idle
<1>5. \/ \E q \in Reqs : Arrive(q) \/ Serve(q)
      \/ Restart \/ UNCHANGED <<ledger, req>>
  BY DEF SeatNext, SeatWork, Provision, CheckIn, Heartbeat, RefetchReceipt, dbVars, seatVars
<1> QED
  BY <1>1, <1>2, <1>3, <1>4, <1>5

-----------------------------------------------------------------------------
(* Exports, bundles and the anchor over a ledger that grows. *)

LEMMA DayInvInit == DayInit => DayInv
<1> SUFFICES ASSUME DayInit PROVE DayInv
  OBVIOUS
<1>1. SeatInv
  BY SeatInvInit DEF DayInit
<1>2. ledger = <<>> /\ Len(ledger) = 0 /\ \A q \in Reqs : req[q].pc = "idle"
  BY DEF DayInit, Init, Idle
<1>3. LeavesOnce
  BY <1>2 DEF LeavesOnce
<1>4. admin = [a \in Admins |-> NoRequest] /\ NoRequest.pc = "idle" /\ NoRequest \in AdminRequests
  <2>1. <<>> \in Seq(LedgerRows)
    OBVIOUS
  <2> QED
    BY <2>1 DEF DayInit, NoRequest, AdminRequests, Undecided
<1>5. EgressTypeOK
  BY <1>4, GenesisIsRoot DEF DayInit, EgressTypeOK
<1>6. ExportsFollow
  <2>1. 1 \in 1..(Len(ledger) + 1) /\ 0 \in 0..Len(ledger)
    BY <1>2
  <2>2. Leaves(SubSeq(ledger, 1, 0)) = {ledger[k].leaf : k \in 1..0}
    BY <1>1, <2>1, LeavesOfRun DEF SeatInv
  <2>3. synced = Leaves(SubSeq(ledger, 1, 0))
    BY <2>2 DEF DayInit
  <2> QED
    BY <1>4, <2>1, <2>3 DEF ExportsFollow
<1>7. RepliesAreRuns /\ BundlesAreRuns /\ AnchorIsLedgerPrefix
  BY <1>4 DEF DayInit, RepliesAreRuns, BundlesAreRuns, AnchorIsLedgerPrefix
<1> QED
  BY <1>1, <1>3, <1>5, <1>6, <1>7 DEF DayInv

LEMMA RunsKept ==
  ASSUME SeatTypeOK, NEW row \in LedgerRows, ledger' = Append(ledger, row),
         NEW i \in 1..(Len(ledger) + 1), NEW b, RunFrom(i, b)
  PROVE  RunFrom(i, b)'
<1>1. Len(ledger) \in Nat /\ Len(ledger') = Len(ledger) + 1
  BY AppendProperties, LenProperties DEF SeatTypeOK
<1>2. PICK j \in i..Len(ledger) : b = SubSeq(ledger, i, j)
  BY DEF RunFrom
<1>3. j \in 0..Len(ledger) /\ j \in i..Len(ledger')
  BY <1>1
<1>4. b = SubSeq(ledger', i, j)
  BY <1>2, <1>3, AppendKeepsRun
<1> QED
  BY <1>3, <1>4 DEF RunFrom

\* An answer chained while exports are under way disturbs none of them.
LEMMA AppendStep ==
  ASSUME DayInv, NEW row \in LedgerRows, ledger' = Append(ledger, row), UNCHANGED egressVars
  PROVE  EgressTypeOK' /\ ExportsFollow' /\ RepliesAreRuns' /\ BundlesAreRuns'
         /\ AnchorIsLedgerPrefix'
<1>1. SeatTypeOK
  BY DEF DayInv, SeatInv
<1>2. /\ Len(ledger) \in Nat /\ Len(ledger') = Len(ledger) + 1
      /\ \A k \in 1..Len(ledger) : ledger'[k] = ledger[k]
  BY <1>1, AppendProperties, LenProperties DEF SeatTypeOK
<1>3. UNCHANGED <<windowClosed, egressOpened, synced, admin, bundles, vault, anchor>>
  BY DEF egressVars, gateVars, hqVars
<1>4. \A n \in 0..Len(ledger) : SubSeq(ledger', 1, n) = SubSeq(ledger, 1, n)
  BY <1>1, <1>2, AppendKeepsRun
<1>5. \A i \in 1..(Len(ledger) + 1) : \A b : RunFrom(i, b) => RunFrom(i, b)'
  BY <1>1, RunsKept
<1>6. EgressTypeOK'
  BY <1>3 DEF DayInv, EgressTypeOK
<1>7. ExportsFollow'
  <2>1. PICK n \in 0..Len(ledger) :
          /\ synced = Leaves(SubSeq(ledger, 1, n))
          /\ \A a \in Admins : admin[a].pc = "exporting" =>
               \E i \in 1..(n + 1) : RunFrom(i, admin[a].records)
    BY DEF DayInv, ExportsFollow
  <2>2. n \in 0..Len(ledger') /\ synced' = Leaves(SubSeq(ledger', 1, n))
    <3>1. n \in 0..Len(ledger')
      BY <1>2
    <3>2. SubSeq(ledger', 1, n) = SubSeq(ledger, 1, n) /\ synced' = synced
      BY <1>3, <1>4
    <3> QED
      BY <2>1, <3>1, <3>2
  <2>3. ASSUME NEW a \in Admins, admin'[a].pc = "exporting"
        PROVE  \E i \in 1..(n + 1) : RunFrom(i, admin[a].records)'
    <3>1. PICK i \in 1..(n + 1) : RunFrom(i, admin[a].records)
      BY <1>3, <2>1, <2>3
    <3>2. i \in 1..(Len(ledger) + 1)
      BY <1>2
    <3>3. PICK j \in i..Len(ledger) : admin[a].records = SubSeq(ledger, i, j)
      BY <3>1 DEF RunFrom
    <3>4. j \in 0..Len(ledger) /\ j \in i..Len(ledger')
      BY <1>2, <3>2
    <3>5. admin'[a].records = SubSeq(ledger', i, j)
      BY <1>1, <1>3, <3>2, <3>3, <3>4, AppendKeepsRun
    <3> QED
      BY <3>4, <3>5 DEF RunFrom
  <2> QED
    BY <2>2, <2>3 DEF ExportsFollow
<1>8. RepliesAreRuns'
  <2> SUFFICES ASSUME NEW a \in Admins, admin'[a].pc = "replying"
               PROVE  \E i \in 1..Len(ledger') : RunFrom(i, admin[a].records)'
    BY DEF RepliesAreRuns
  <2>1. PICK i \in 1..Len(ledger) : RunFrom(i, admin[a].records)
    BY <1>3 DEF DayInv, RepliesAreRuns
  <2>2. PICK j \in i..Len(ledger) : admin[a].records = SubSeq(ledger, i, j)
    BY <2>1 DEF RunFrom
  <2>3. /\ i \in 1..(Len(ledger) + 1) /\ i \in 1..Len(ledger')
        /\ j \in 0..Len(ledger) /\ j \in i..Len(ledger')
    BY <1>2
  <2>4. admin'[a].records = SubSeq(ledger', i, j)
    BY <1>1, <1>3, <2>2, <2>3, AppendKeepsRun
  <2> QED
    BY <2>3, <2>4 DEF RunFrom
<1>9. BundlesAreRuns'
  <2> SUFFICES ASSUME NEW b \in bundles
               PROVE  \E i \in 1..Len(ledger') : \E j \in i..Len(ledger') : b = SubSeq(ledger', i, j)
    BY <1>3 DEF BundlesAreRuns
  <2>1. PICK i \in 1..Len(ledger) : \E j \in i..Len(ledger) : b = SubSeq(ledger, i, j)
    BY DEF DayInv, BundlesAreRuns
  <2>2. PICK j \in i..Len(ledger) : b = SubSeq(ledger, i, j)
    BY <2>1
  <2>3. /\ i \in 1..(Len(ledger) + 1) /\ i \in 1..Len(ledger')
        /\ j \in 0..Len(ledger) /\ j \in i..Len(ledger')
    BY <1>2
  <2>4. b = SubSeq(ledger', i, j)
    BY <1>1, <2>2, <2>3, AppendKeepsRun
  <2> QED
    BY <2>3, <2>4
<1>10. AnchorIsLedgerPrefix'
  <2> SUFFICES ASSUME anchor.anchored
               PROVE  /\ anchor.count \in 1..Len(ledger')
                      /\ anchor.root = ledger'[anchor.count].root
                      /\ Leaves(SubSeq(ledger', 1, anchor.count)) \subseteq vault
    BY <1>3 DEF AnchorIsLedgerPrefix
  <2>1. /\ anchor.count \in 1..Len(ledger)
        /\ anchor.root = ledger[anchor.count].root
        /\ Leaves(SubSeq(ledger, 1, anchor.count)) \subseteq vault
    BY DEF DayInv, AnchorIsLedgerPrefix
  <2>2. anchor.count \in 0..Len(ledger) /\ anchor.count \in 1..Len(ledger')
    BY <1>2, <2>1
  <2> QED
    BY <1>2, <1>4, <2>1, <2>2
<1> QED
  BY <1>6, <1>7, <1>8, <1>9, <1>10

\* The seats at work, or restarting, while nothing leaves the centre.
LEMMA SeatsStep ==
  ASSUME DayInv, SeatNext, UNCHANGED egressVars
  PROVE  DayInv'
<1>1. SeatInv' /\ LeavesOnce'
  BY SeatInvStep, LeavesOnceStep DEF DayInv
<1>2. CASE ledger' = ledger
  <2>1. UNCHANGED <<windowClosed, egressOpened, synced, admin, bundles, vault, anchor>>
    BY DEF egressVars, gateVars, hqVars
  <2>2. EgressTypeOK'
    BY <2>1 DEF DayInv, EgressTypeOK
  <2>3. ExportsFollow' /\ RepliesAreRuns'
    BY <1>2, <2>1 DEF DayInv, ExportsFollow, RepliesAreRuns, RunFrom
  <2>4. BundlesAreRuns' /\ AnchorIsLedgerPrefix'
    BY <1>2, <2>1 DEF DayInv, BundlesAreRuns, AnchorIsLedgerPrefix
  <2> QED
    BY <1>1, <2>2, <2>3, <2>4 DEF DayInv
<1>3. CASE ledger' # ledger
  <2>1. PICK q \in Reqs : CommitAnswer(q)
    BY <1>3, OnlyAnswersGrow
  <2>2. PICK row \in LedgerRows : ledger' = Append(ledger, row)
    BY <2>1, CommitKeepsLeaves DEF DayInv
  <2> QED
    BY <1>1, <2>2, AppendStep DEF DayInv
<1> QED
  BY <1>2, <1>3

\* A step that only moves one egress or export request on keeps the invariant
\* if what the request now carries is a run that starts at or before the first
\* row not marked.
LEMMA AdminStep ==
  ASSUME DayInv, NEW a \in Admins, NEW r \in AdminRequests, admin' = [admin EXCEPT ![a] = r],
         UNCHANGED <<seatVars, windowClosed, synced, bundles, vault, anchor>>,
         egressOpened' \in BOOLEAN,
         r.pc = "exporting" =>
           \A n \in 0..Len(ledger) : synced = Leaves(SubSeq(ledger, 1, n)) =>
             \E i \in 1..(n + 1) : RunFrom(i, r.records),
         r.pc = "replying" => \E i \in 1..Len(ledger) : RunFrom(i, r.records)
  PROVE  DayInv'
<1>1. admin \in [Admins -> AdminRequests]
  BY DEF DayInv, EgressTypeOK
<1>2. admin'[a] = r /\ \A o \in Admins \ {a} : admin'[o] = admin[o]
  BY <1>1
<1>3. SeatInv' /\ LeavesOnce'
  BY SeatInvStep, LeavesOnceStep DEF DayInv
<1>4. ledger' = ledger
  BY DEF seatVars
<1>5. EgressTypeOK'
  BY <1>1, <1>4 DEF DayInv, EgressTypeOK
<1>6. ExportsFollow'
  <2>1. PICK n \in 0..Len(ledger) :
          /\ synced = Leaves(SubSeq(ledger, 1, n))
          /\ \A o \in Admins : admin[o].pc = "exporting" =>
               \E i \in 1..(n + 1) : RunFrom(i, admin[o].records)
    BY DEF DayInv, ExportsFollow
  <2>2. r.pc = "exporting" => \E i \in 1..(n + 1) : RunFrom(i, r.records)
    BY <2>1
  <2>3. \A o \in Admins : admin'[o].pc = "exporting" =>
           \E i \in 1..(n + 1) : \E j \in i..Len(ledger) : admin'[o].records = SubSeq(ledger, i, j)
    BY <1>2, <2>1, <2>2 DEF RunFrom
  <2>4. synced' = Leaves(SubSeq(ledger', 1, n)) /\ n \in 0..Len(ledger')
    BY <1>4, <2>1
  <2>5. \A o \in Admins : admin'[o].pc = "exporting" =>
           \E i \in 1..(n + 1) : RunFrom(i, admin[o].records)'
    BY <1>4, <2>3 DEF RunFrom
  <2> QED
    BY <2>4, <2>5 DEF ExportsFollow
<1>7. RepliesAreRuns'
  <2>1. \A o \in Admins : admin'[o].pc = "replying" =>
           \E i \in 1..Len(ledger) : \E j \in i..Len(ledger) : admin'[o].records = SubSeq(ledger, i, j)
    BY <1>2 DEF DayInv, RepliesAreRuns, RunFrom
  <2> QED
    BY <1>4, <2>1 DEF RepliesAreRuns, RunFrom
<1>8. BundlesAreRuns' /\ AnchorIsLedgerPrefix'
  BY <1>4 DEF DayInv, BundlesAreRuns, AnchorIsLedgerPrefix
<1> QED
  BY <1>3, <1>5, <1>6, <1>7, <1>8 DEF DayInv

LEMMA NoRequestIsRequest == NoRequest \in AdminRequests
<1>1. <<>> \in Seq(LedgerRows)
  OBVIOUS
<1> QED
  BY <1>1 DEF NoRequest, AdminRequests, Undecided

LEMMA PresentIsCount == presentCount \in Nat
<1>1. {r \in Roster : enroll[r] = "PRESENT"} \subseteq Roster
  OBVIOUS
<1>2. IsFiniteSet({r \in Roster : enroll[r] = "PRESENT"})
  BY <1>1, DayAssumption, FS_Subset
<1> QED
  BY <1>2, FS_CardinalityType DEF presentCount

LEMMA GateKeepsRuns ==
  ASSUME DayInv, UNCHANGED seatVars, NEW a \in Admins, EgressOpen(a) \/ LedgerExport(a)
  PROVE  DayInv'
<1>1. UNCHANGED <<seatVars, windowClosed, egressOpened, synced, bundles, vault, anchor>>
  BY DEF EgressOpen, LedgerExport, AskGate, DecideGate, gateVars, hqVars
<1>2. windowClosed \in BOOLEAN /\ egressOpened' \in BOOLEAN
  BY <1>1 DEF DayInv, EgressTypeOK
<1>3. ASSUME NEW stage \in {"askedOpen", "askedExport"}, AskGate(a, stage)
      PROVE  DayInv'
  <2> DEFINE r == [NoRequest EXCEPT !.pc = stage, !.closed = windowClosed,
                                    !.present = presentCount]
  <2>1. admin' = [admin EXCEPT ![a] = r]
    BY <1>3 DEF AskGate
  <2>2. r \in AdminRequests /\ r.pc = stage
    BY <1>2, NoRequestIsRequest, PresentIsCount DEF AdminRequests, Undecided
  <2> HIDE DEF r
  <2> QED
    BY <1>1, <1>2, <2>1, <2>2, AdminStep
<1>4. ASSUME NEW stage \in {"idle", "opening", "listing"},
             admin' = [admin EXCEPT ![a] = [NoRequest EXCEPT !.pc = stage]]
      PROVE  DayInv'
  <2> DEFINE r == [NoRequest EXCEPT !.pc = stage]
  <2>1. r \in AdminRequests /\ r.pc = stage
    BY NoRequestIsRequest DEF AdminRequests, Undecided, Decided
  <2>2. admin' = [admin EXCEPT ![a] = r]
    BY <1>4
  <2> HIDE DEF r
  <2> QED
    BY <1>1, <1>2, <2>1, <2>2, AdminStep
<1>5. NoRequest = [NoRequest EXCEPT !.pc = "idle"]
  BY DEF NoRequest
<1>6. ASSUME NEW asked, NEW passed \in {"opening", "listing"}, DecideGate(a, asked, passed)
      PROVE  \/ admin' = [admin EXCEPT ![a] = [NoRequest EXCEPT !.pc = passed]]
             \/ admin' = [admin EXCEPT ![a] = [NoRequest EXCEPT !.pc = "idle"]]
  <2>1. CASE mayOpen(admin[a].closed, admin[a].present)
    BY <1>6, <2>1 DEF DecideGate
  <2>2. CASE ~mayOpen(admin[a].closed, admin[a].present)
    BY <1>5, <1>6, <2>2 DEF DecideGate
  <2> QED
    BY <2>1, <2>2
<1>7. CASE EgressOpen(a)
  BY <1>3, <1>4, <1>6, <1>7 DEF EgressOpen
<1>8. CASE LedgerExport(a)
  BY <1>3, <1>4, <1>6, <1>8 DEF LedgerExport
<1> QED
  BY <1>7, <1>8

LEMMA ListingKeepsRuns ==
  ASSUME DayInv, UNCHANGED seatVars, NEW a \in Admins,
         CommitOpenEgress(a) \/ ListSealedForExport(a) \/ LoseBundle(a)
  PROVE  DayInv'
<1>1. UNCHANGED <<seatVars, windowClosed, synced, bundles, vault, anchor>>
  BY DEF CommitOpenEgress, ListSealedForExport, LoseBundle, gateVars, hqVars
<1>2. egressOpened' \in BOOLEAN
  BY DEF CommitOpenEgress, ListSealedForExport, LoseBundle, gateVars, DayInv, EgressTypeOK
<1>3. NoRequest \in AdminRequests /\ NoRequest.pc = "idle"
  BY NoRequestIsRequest DEF NoRequest
<1>4. CASE admin' = [admin EXCEPT ![a] = NoRequest]
  BY <1>1, <1>2, <1>3, <1>4, AdminStep
<1>5. CASE /\ SealedRows # <<>>
           /\ admin' = [admin EXCEPT ![a] =
                          [NoRequest EXCEPT !.pc = "exporting", !.records = SealedRows]]
  <2> DEFINE L == Len(ledger)
             r == [NoRequest EXCEPT !.pc = "exporting", !.records = SealedRows]
  <2>1. r.pc = "exporting" /\ r.records = SealedRows
    BY DEF NoRequest
  <2>2. SeatTypeOK /\ LeavesOnce /\ L \in Nat
    BY LenProperties DEF DayInv, SeatInv, SeatTypeOK
  <2>3. ASSUME NEW n \in 0..L, synced = Leaves(SubSeq(ledger, 1, n))
        PROVE  /\ SealedRows \in Seq(LedgerRows)
               /\ \E i \in 1..(n + 1) : RunFrom(i, SealedRows)
    <3>1. SealedRows = SubSeq(ledger, n + 1, L)
      BY <2>2, <2>3, SealedRowsAreRest
    <3>2. n + 1 \in 1..(L + 1) /\ L \in 0..L
      BY <2>2
    <3>3. /\ SealedRows \in Seq(LedgerRows)
          /\ Len(SealedRows) = IF n + 1 <= L THEN L - (n + 1) + 1 ELSE 0
      BY <2>2, <3>1, <3>2, RunRows
    <3>4. n + 1 <= L
      BY <1>5, <3>3, EmptySeq, <2>2
    <3>5. L \in (n + 1)..L /\ n + 1 \in 1..(n + 1)
      BY <2>2, <3>4
    <3> QED
      BY <3>1, <3>3, <3>5 DEF RunFrom
  <2>4. \E n \in 0..L : synced = Leaves(SubSeq(ledger, 1, n))
    BY DEF DayInv, ExportsFollow
  <2>5. r \in AdminRequests /\ r.pc = "exporting" /\ r.records = SealedRows
    BY <1>3, <2>1, <2>3, <2>4 DEF AdminRequests, Decided
  <2>6. admin' = [admin EXCEPT ![a] = r]
    BY <1>5
  <2> HIDE DEF r
  <2> QED
    BY <1>1, <1>2, <2>3, <2>5, <2>6, AdminStep
<1> QED
  BY <1>4, <1>5 DEF CommitOpenEgress, ListSealedForExport, LoseBundle

\* What is marked stays a prefix: the export of rows i to j starts at or before
\* the first row not marked, so that the rows marked now end at the later of j
\* and the last one marked before.
LEMMA MarkKeepsPrefix ==
  ASSUME DayInv, UNCHANGED seatVars, NEW a \in Admins, MarkSynced(a)
  PROVE  DayInv'
<1> DEFINE r == [NoRequest EXCEPT !.pc = "replying", !.records = admin[a].records]
<1>1. /\ admin[a].pc = "exporting" /\ synced' = synced \cup Leaves(admin[a].records)
      /\ admin' = [admin EXCEPT ![a] = r]
      /\ UNCHANGED <<windowClosed, egressOpened, bundles, vault, anchor>>
  BY DEF MarkSynced, hqVars
<1>2. /\ SeatTypeOK /\ Len(ledger) \in Nat /\ ledger' = ledger
      /\ admin \in [Admins -> AdminRequests]
  BY LenProperties DEF DayInv, SeatInv, SeatTypeOK, EgressTypeOK, seatVars
<1>3. r \in AdminRequests /\ r.pc = "replying" /\ r.records = admin[a].records
  BY <1>2, NoRequestIsRequest DEF AdminRequests, Decided
<1> HIDE DEF r
<1>4. admin'[a] = r /\ \A o \in Admins \ {a} : admin'[o] = admin[o]
  BY <1>1, <1>2
<1>5. PICK n \in 0..Len(ledger) :
        /\ synced = Leaves(SubSeq(ledger, 1, n))
        /\ \A o \in Admins : admin[o].pc = "exporting" =>
             \E i \in 1..(n + 1) : RunFrom(i, admin[o].records)
  BY DEF DayInv, ExportsFollow
<1>6. PICK i \in 1..(n + 1) : RunFrom(i, admin[a].records)
  BY <1>1, <1>5
<1>7. PICK j \in i..Len(ledger) : admin[a].records = SubSeq(ledger, i, j)
  BY <1>6 DEF RunFrom
<1>8. PICK m \in 0..Len(ledger) : n <= m /\ j <= m /\ (m = n \/ m = j)
  <2>1. CASE n <= j
    BY <1>2, <2>1
  <2>2. CASE ~(n <= j)
    BY <1>2, <2>2
  <2> QED
    BY <2>1, <2>2
<1>9. /\ i \in 1..(Len(ledger) + 1) /\ i \in 1..Len(ledger) /\ j \in 0..Len(ledger)
      /\ 1 \in 1..(Len(ledger) + 1)
  BY <1>2
<1>10. /\ Leaves(admin[a].records) = {ledger[k].leaf : k \in i..j}
       /\ synced = {ledger[k].leaf : k \in 1..n}
       /\ Leaves(SubSeq(ledger, 1, m)) = {ledger[k].leaf : k \in 1..m}
  BY <1>2, <1>5, <1>7, <1>9, LeavesOfRun
<1>11. 1..m = (1..n) \cup (i..j)
  BY <1>2, <1>8, <1>9
<1>12. synced' = Leaves(SubSeq(ledger', 1, m))
  <2>1. {ledger[k].leaf : k \in 1..m} = {ledger[k].leaf : k \in 1..n} \cup {ledger[k].leaf : k \in i..j}
    BY <1>11
  <2> QED
    BY <1>1, <1>2, <1>10, <2>1
<1>13. ExportsFollow'
  <2>1. \A o \in Admins : admin'[o].pc = "exporting" =>
           \E h \in 1..(m + 1) : RunFrom(h, admin[o].records)'
    <3> SUFFICES ASSUME NEW o \in Admins, admin'[o].pc = "exporting"
                 PROVE  \E h \in 1..(m + 1) : RunFrom(h, admin[o].records)'
      OBVIOUS
    <3>1. admin'[o] = admin[o]
      BY <1>3, <1>4
    <3>2. PICK h \in 1..(n + 1) : RunFrom(h, admin[o].records)
      BY <1>5, <3>1
    <3>3. h \in 1..(m + 1)
      BY <1>2, <1>8
    <3> QED
      BY <1>2, <3>1, <3>2, <3>3 DEF RunFrom
  <2> QED
    BY <1>2, <1>12, <2>1 DEF ExportsFollow
<1>14. RepliesAreRuns'
  <2>1. \A o \in Admins : admin'[o].pc = "replying" =>
           \E h \in 1..Len(ledger) : RunFrom(h, admin'[o].records)
    BY <1>3, <1>4, <1>6, <1>9 DEF DayInv, RepliesAreRuns
  <2> QED
    BY <1>2, <2>1 DEF RepliesAreRuns, RunFrom
<1>15. EgressTypeOK'
  <2>1. \A k \in 1..Len(ledger) : ledger[k].leaf \in Envelopes
    BY <1>2, RowFields
  <2>2. synced' \subseteq Envelopes
    <3>1. Leaves(admin[a].records) \subseteq Envelopes
      BY <1>2, <1>9, <1>10, <2>1
    <3> QED
      BY <1>1, <3>1 DEF DayInv, EgressTypeOK
  <2> QED
    BY <1>1, <1>2, <1>3, <2>2 DEF DayInv, EgressTypeOK
<1>16. BundlesAreRuns' /\ AnchorIsLedgerPrefix'
  BY <1>1, <1>2 DEF DayInv, BundlesAreRuns, AnchorIsLedgerPrefix
<1> QED
  BY <1>13, <1>14, <1>15, <1>16, SeatInvStep, LeavesOnceStep DEF DayInv

LEMMA DeliverKeepsRuns ==
  ASSUME DayInv, UNCHANGED seatVars, NEW a \in Admins, DeliverBundle(a)
  PROVE  DayInv'
<1>1. /\ admin[a].pc = "replying" /\ bundles' = bundles \cup {admin[a].records}
      /\ admin' = [admin EXCEPT ![a] = NoRequest] /\ ledger' = ledger
      /\ UNCHANGED <<windowClosed, egressOpened, synced, vault, anchor>>
  BY DEF DeliverBundle, gateVars, hqVars, seatVars
<1>2. admin \in [Admins -> AdminRequests] /\ NoRequest \in AdminRequests /\ NoRequest.pc = "idle"
  BY NoRequestIsRequest DEF DayInv, EgressTypeOK, NoRequest
<1>3. admin'[a] = NoRequest /\ \A o \in Admins \ {a} : admin'[o] = admin[o]
  BY <1>1, <1>2
<1>4. PICK i \in 1..Len(ledger) : RunFrom(i, admin[a].records)
  BY <1>1 DEF DayInv, RepliesAreRuns
<1>5. EgressTypeOK'
  <2>1. admin[a].records \in Seq(LedgerRows) /\ admin' \in [Admins -> AdminRequests]
    BY <1>1, <1>2 DEF AdminRequests
  <2> QED
    BY <1>1, <2>1 DEF DayInv, EgressTypeOK
<1>6. BundlesAreRuns'
  BY <1>1, <1>4 DEF DayInv, BundlesAreRuns, RunFrom
<1>7. ExportsFollow' /\ RepliesAreRuns'
  BY <1>1, <1>2, <1>3 DEF DayInv, ExportsFollow, RepliesAreRuns, RunFrom
<1>8. AnchorIsLedgerPrefix'
  BY <1>1 DEF DayInv, AnchorIsLedgerPrefix
<1> QED
  BY <1>5, <1>6, <1>7, <1>8, SeatInvStep, LeavesOnceStep DEF DayInv

LEMMA IngestKeepsRuns ==
  ASSUME DayInv, UNCHANGED seatVars, NEW b \in bundles, IngestBundle(b)
  PROVE  DayInv'
<1>1. /\ vault' = vault \cup Leaves(b) /\ ledger' = ledger
      /\ UNCHANGED <<windowClosed, egressOpened, synced, admin, bundles, anchor>>
  BY DEF IngestBundle, gateVars, seatVars
<1>2. Leaves(b) \subseteq Envelopes
  <2>1. b \in Seq(LedgerRows)
    BY DEF DayInv, EgressTypeOK
  <2>2. \A k \in 1..Len(b) : b[k] \in LedgerRows
    BY <2>1, ElementOfSeq
  <2> QED
    BY <2>2 DEF Leaves, LedgerRows
<1>3. EgressTypeOK'
  BY <1>1, <1>2 DEF DayInv, EgressTypeOK
<1>4. ExportsFollow' /\ RepliesAreRuns'
  BY <1>1 DEF DayInv, ExportsFollow, RepliesAreRuns, RunFrom
<1>5. BundlesAreRuns' /\ AnchorIsLedgerPrefix'
  BY <1>1 DEF DayInv, BundlesAreRuns, AnchorIsLedgerPrefix
<1> QED
  BY <1>3, <1>4, <1>5, SeatInvStep, LeavesOnceStep DEF DayInv

\* Only the first row of the ledger chains to genesis, so a bundle that passes
\* the walk starts there.
LEMMA VerifiedIsPrefix ==
  ASSUME SeatInv, NEW i \in 1..Len(ledger), NEW j \in i..Len(ledger),
         BundleVerifies(SubSeq(ledger, i, j))
  PROVE  i = 1
<1> DEFINE b == SubSeq(ledger, i, j)
<1>1. /\ SeatTypeOK /\ Len(ledger) \in Nat /\ i \in 1..(Len(ledger) + 1) /\ j \in 0..Len(ledger)
      /\ i <= j
  BY LenProperties DEF SeatInv, SeatTypeOK
<1>2. Len(b) = j - i + 1 /\ b[1] = ledger[i]
  BY <1>1, RunRows
<1> HIDE DEF b
<1>3. ledger[i].prevRoot = GENESIS
  BY <1>1, <1>2 DEF BundleVerifies, verifyChain, b
<1>4. ASSUME i # 1 PROVE FALSE
  <2>1. i - 1 \in 1..Len(ledger) /\ ledger[i].prevRoot = ledger[i - 1].root
    BY <1>1, <1>4 DEF SeatInv, ChainIntact, verifyChain
  <2>2. ledger[i - 1].root = Append(ledger[i - 1].prevRoot, ledger[i - 1].leaf)
    BY <2>1 DEF SeatInv, ChainIntact, verifyChain, nextRoot
  <2>3. ledger[i - 1].prevRoot \in Seq(Envelopes) /\ ledger[i - 1].leaf \in Envelopes
    BY <1>1, <2>1, RowFields
  <2>4. Len(ledger[i - 1].root) = Len(ledger[i - 1].prevRoot) + 1
        /\ Len(ledger[i - 1].prevRoot) \in Nat
    BY <2>2, <2>3, AppendProperties, LenProperties
  <2>5. Len(ledger[i - 1].root) = 0
    BY <1>3, <2>1 DEF GENESIS
  <2> QED
    BY <2>4, <2>5
<1> QED
  BY <1>4

LEMMA AnchorKeepsPrefix ==
  ASSUME DayInv, UNCHANGED seatVars, NEW b \in bundles, AnchorCentreAnswerRoot(b)
  PROVE  DayInv'
<1>1. /\ anchor' = [anchored |-> TRUE, root |-> b[Len(b)].root, count |-> Len(b)]
      /\ ledger' = ledger /\ Leaves(b) \subseteq vault /\ BundleVerifies(b)
      /\ UNCHANGED <<windowClosed, egressOpened, synced, admin, bundles, vault>>
  BY DEF AnchorCentreAnswerRoot, MayAnchor, gateVars, seatVars
<1>2. PICK i \in 1..Len(ledger) : \E j \in i..Len(ledger) : b = SubSeq(ledger, i, j)
  BY DEF DayInv, BundlesAreRuns
<1>3. PICK j \in i..Len(ledger) : b = SubSeq(ledger, i, j)
  BY <1>2
<1>4. i = 1
  BY <1>1, <1>3, VerifiedIsPrefix DEF DayInv
<1>5. /\ SeatTypeOK /\ Len(ledger) \in Nat /\ 1 \in 1..(Len(ledger) + 1)
      /\ j \in 0..Len(ledger) /\ j \in 1..Len(ledger)
  BY <1>4, LenProperties DEF DayInv, SeatInv, SeatTypeOK
<1>6. Len(b) = j /\ b[j] = ledger[j]
  BY <1>3, <1>4, <1>5, RunRows
<1>7. ledger[j].root \in Seq(Envelopes)
  BY <1>5, RowFields
<1>8. anchor'.anchored /\ anchor'.count = j /\ anchor'.root = ledger[j].root
  BY <1>1, <1>6
<1>9. EgressTypeOK'
  BY <1>1, <1>5, <1>6, <1>7 DEF DayInv, EgressTypeOK
<1>10. AnchorIsLedgerPrefix'
  BY <1>1, <1>3, <1>4, <1>5, <1>8 DEF AnchorIsLedgerPrefix
<1>11. ExportsFollow' /\ RepliesAreRuns' /\ BundlesAreRuns'
  BY <1>1 DEF DayInv, ExportsFollow, RepliesAreRuns, BundlesAreRuns, RunFrom
<1> QED
  BY <1>9, <1>10, <1>11, SeatInvStep, LeavesOnceStep DEF DayInv

\* A restart of the Edge drops requests, never rows or marks.
LEMMA RestartKeepsRuns ==
  ASSUME DayInv, RestartEdge
  PROVE  DayInv'
<1>1. /\ admin' = [a \in Admins |-> NoRequest] /\ Restart /\ ledger' = ledger
      /\ UNCHANGED <<windowClosed, egressOpened, synced, bundles, vault, anchor>>
  BY DEF RestartEdge, Restart, dbVars, gateVars, hqVars
<1>2. NoRequest \in AdminRequests /\ NoRequest.pc = "idle"
  BY NoRequestIsRequest DEF NoRequest
<1>3. EgressTypeOK'
  BY <1>1, <1>2 DEF DayInv, EgressTypeOK
<1>4. ExportsFollow' /\ RepliesAreRuns'
  BY <1>1, <1>2 DEF DayInv, ExportsFollow, RepliesAreRuns
<1>5. BundlesAreRuns' /\ AnchorIsLedgerPrefix'
  BY <1>1 DEF DayInv, BundlesAreRuns, AnchorIsLedgerPrefix
<1>6. SeatInv' /\ LeavesOnce'
  BY <1>1, SeatInvStep, LeavesOnceStep DEF DayInv, SeatNext
<1> QED
  BY <1>3, <1>4, <1>5, <1>6 DEF DayInv

LEMMA DayInvStep == DayInv /\ [DayNext]_<<seatVars, egressVars>> => DayInv'
<1> SUFFICES ASSUME DayInv, [DayNext]_<<seatVars, egressVars>> PROVE DayInv'
  OBVIOUS
<1>1. CASE SeatWork /\ UNCHANGED egressVars
  BY <1>1, SeatsStep DEF SeatNext
<1>2. CASE EgressNext /\ UNCHANGED seatVars
  <2>1. CASE CloseWindow
    <3>1. /\ windowClosed' = TRUE /\ ledger' = ledger
          /\ UNCHANGED <<egressOpened, synced, admin, bundles, vault, anchor>>
      BY <1>2, <2>1 DEF CloseWindow, hqVars, seatVars
    <3>2. EgressTypeOK' /\ ExportsFollow' /\ RepliesAreRuns'
      BY <3>1 DEF DayInv, EgressTypeOK, ExportsFollow, RepliesAreRuns, RunFrom
    <3>3. BundlesAreRuns' /\ AnchorIsLedgerPrefix'
      BY <3>1 DEF DayInv, BundlesAreRuns, AnchorIsLedgerPrefix
    <3> QED
      BY <1>2, <3>2, <3>3, SeatInvStep, LeavesOnceStep DEF DayInv
  <2>2. ASSUME NEW a \in Admins, EgressOpen(a) \/ LedgerExport(a) PROVE DayInv'
    BY <1>2, <2>2, GateKeepsRuns
  <2>3. ASSUME NEW a \in Admins,
               CommitOpenEgress(a) \/ ListSealedForExport(a) \/ LoseBundle(a)
        PROVE  DayInv'
    BY <1>2, <2>3, ListingKeepsRuns
  <2>4. ASSUME NEW a \in Admins, MarkSynced(a) PROVE DayInv'
    BY <1>2, <2>4, MarkKeepsPrefix
  <2>5. ASSUME NEW a \in Admins, DeliverBundle(a) PROVE DayInv'
    BY <1>2, <2>5, DeliverKeepsRuns
  <2>6. ASSUME NEW b \in bundles, IngestBundle(b) PROVE DayInv'
    BY <1>2, <2>6, IngestKeepsRuns
  <2>7. ASSUME NEW b \in bundles, AnchorCentreAnswerRoot(b) PROVE DayInv'
    BY <1>2, <2>7, AnchorKeepsPrefix
  <2> QED
    BY <1>2, <2>1, <2>2, <2>3, <2>4, <2>5, <2>6, <2>7 DEF EgressNext
<1>3. CASE RestartEdge
  BY <1>3, RestartKeepsRuns
<1>4. CASE UNCHANGED <<seatVars, egressVars>>
  <2>1. UNCHANGED <<windowClosed, egressOpened, synced, admin, bundles, vault, anchor, ledger>>
    BY <1>4 DEF egressVars, gateVars, hqVars, seatVars
  <2>2. EgressTypeOK' /\ ExportsFollow' /\ RepliesAreRuns'
    BY <2>1 DEF DayInv, EgressTypeOK, ExportsFollow, RepliesAreRuns, RunFrom
  <2>3. BundlesAreRuns' /\ AnchorIsLedgerPrefix'
    BY <2>1 DEF DayInv, BundlesAreRuns, AnchorIsLedgerPrefix
  <2> QED
    BY <1>4, <2>2, <2>3, SeatInvStep, LeavesOnceStep DEF DayInv
<1> QED
  BY <1>1, <1>2, <1>3, <1>4 DEF DayNext

\* The seats' invariant, and the exports' with it, hold on the whole exam day.
THEOREM DayInvariant == DaySpec => []DayInv
  BY DayInvInit, DayInvStep, PTL DEF DaySpec

\* Every variable of the seats, the gate, HQ and the anchor keeps its type.
THEOREM DayTypeCorrect == DaySpec => []DayTypeOK
<1>1. DayInv => DayTypeOK
  BY DEF DayInv, SeatInv, DayTypeOK
<1> QED
  BY <1>1, DayInvariant, PTL

\* repo.ts listSealedForExport, markSynced: a row is SYNCED only after every row
\* before it, so the courier skips no answer.
THEOREM SyncedAlwaysPrefix == DaySpec => []SyncedIsPrefix
<1>1. DayInv => SyncedIsPrefix
  BY DEF DayInv, ExportsFollow, SyncedIsPrefix
<1> QED
  BY <1>1, DayInvariant, PTL

\* http.ts ledger/export: what leaves the centre are consecutive rows.
THEOREM BundlesAlwaysRuns == DaySpec => []BundlesAreRuns
<1>1. DayInv => BundlesAreRuns
  BY DEF DayInv
<1> QED
  BY <1>1, DayInvariant, PTL

\* CryptoExamCore.sol anchorCentreAnswerRoot: the root published vouches for the
\* rows it counts, from the first, and HQ holds them all.
THEOREM AnchorAlwaysPrefix == DaySpec => []AnchorIsLedgerPrefix
<1>1. DayInv => AnchorIsLedgerPrefix
  BY DEF DayInv
<1> QED
  BY <1>1, DayInvariant, PTL

=============================================================================
