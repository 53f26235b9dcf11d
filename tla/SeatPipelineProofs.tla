------------------------- MODULE SeatPipelineProofs -------------------------
(***************************************************************************)
(* Proofs about SeatPipeline, for every number of terminals, rolls,        *)
(* envelopes and requests in flight.  SeatInv is inductive; the safety     *)
(* properties the runs check are conjuncts of it.  The refinement of the   *)
(* append-only log rests on TailIsCurrent and ChainIntact.                 *)
(***************************************************************************)
EXTENDS SeatPipeline, TLAPS

-----------------------------------------------------------------------------
(* Types of what the actions build. *)

\* The genesis root is a root.
LEMMA GenesisIsRoot == GENESIS \in Seq(Envelopes)
  BY DEF GENESIS

\* A slot at rest holds a request record.
LEMMA IdleIsRequest == Idle \in Requests
  BY GenesisIsRoot DEF Idle, Requests, Stages, AttemptLimit

\* The tail of a well-typed ledger is a root.
LEMMA TailRootIsRoot == ASSUME SeatTypeOK PROVE tailRoot(ledger) \in Seq(Envelopes)
<1>1. CASE ledger = <<>>
  BY <1>1, GenesisIsRoot DEF tailRoot
<1>2. CASE ledger # <<>>
  <2>1. ledger[Len(ledger)] \in LedgerRows
    BY <1>2 DEF SeatTypeOK
  <2> QED
    BY <1>2, <2>1 DEF tailRoot, LedgerRows
<1> QED
  BY <1>1, <1>2

\* A request that carries an envelope makes a ledger row of it.
LEMMA NewRowIsRow ==
  ASSUME SeatTypeOK, NEW q \in Reqs, req[q].seat \in Terminals, req[q].leaf \in Envelopes
  PROVE  NewRow(q) \in LedgerRows
<1>1. /\ req[q].index \in Nat
      /\ req[q].prevRoot \in Seq(Envelopes)
  BY DEF SeatTypeOK, Requests
<1>2. nextRoot(req[q].prevRoot, req[q].leaf) \in Seq(Envelopes)
  BY <1>1 DEF nextRoot
<1> QED
  BY <1>1, <1>2 DEF NewRow, LedgerRows

\* The receipt of a row is a receipt.
LEMMA ReceiptIsReceipt == ASSUME NEW row \in LedgerRows PROVE Receipt(row) \in Receipts
  BY DEF LedgerRows, Receipt, Receipts

-----------------------------------------------------------------------------
(* Steps that change one request in flight. *)

\* What SeatInv asks of a single request, as a condition on the record r that
\* slot q is about to hold.
RequestFits(q, r) ==
    /\ r.pc # "idle" => r.seat \in Terminals
    /\ r.pc \in {"assigning", "loginBegun", "loginRead", "loginGranted"} => r.roll \in Rolls
    /\ r.pc \in {"loginBegun", "loginRead"} => r.used < AttemptLimit
    /\ r.pc \in {"submitRead", "submitTail", "submitDone"} =>
         r.leaf \in Envelopes /\ Attended(r.seat)
    /\ r.pc = "assigning" =>
         /\ term[r.seat] = "AVAILABLE"
         /\ binding[r.seat] = NoBinding
         /\ \A p \in Reqs \ {q} : ~(At(p, "assigning") /\ req[p].seat = r.seat)
    /\ (r.pc = "loginRead" /\ r.ok) \/ r.pc = "loginGranted" =>
         binding[r.seat].roll = r.roll /\ r.roll \in Roster
    /\ r.pc = "submitTail" =>
         /\ ChainLockFree(q)
         /\ r.index = Len(ledger)
         /\ r.prevRoot = tailRoot(ledger)
    /\ r.pc # "submitDone"

\* Entering r changes slot q and no other.
LEMMA EnterOne ==
  ASSUME SeatTypeOK, NEW q \in Reqs, NEW r, Enter(q, r)
  PROVE  req'[q] = r /\ \A p \in Reqs \ {q} : req'[p] = req[p]
  BY DEF SeatTypeOK, Enter

\* A step that only moves one request on keeps the invariant if the new record
\* fits and the failure counters stay in range.
LEMMA RequestStep ==
  ASSUME SeatInv, NEW q \in Reqs, NEW r \in Requests, Enter(q, r), RequestFits(q, r),
         UNCHANGED <<dbVars, receipts>>, attempts' \in [Terminals -> 0..AttemptLimit]
  PROVE  SeatInv'
<1>1. req'[q] = r /\ \A p \in Reqs \ {q} : req'[p] = req[p]
  BY EnterOne DEF SeatInv
<1>2. SeatTypeOK'
  BY DEF SeatInv, SeatTypeOK, Enter, dbVars
<1>3. RequestShape'
  BY <1>1 DEF SeatInv, RequestShape, RequestFits, At
<1>4. SeatHistory'
  BY DEF SeatInv, SeatHistory, Attended, dbVars
<1>5. ReadsStillHold'
  BY <1>1 DEF SeatInv, ReadsStillHold, RequestFits, Attended, At, dbVars
<1>6. ChainLockExclusive'
  BY <1>1 DEF SeatInv, ChainLockExclusive, RequestFits, ChainLockFree, At
<1>7. ChainIntact'
  BY DEF SeatInv, ChainIntact, dbVars
<1>8. TailIsCurrent'
  BY <1>1 DEF SeatInv, TailIsCurrent, RequestFits, At, dbVars
<1>9. DoneIsCommitted'
  BY <1>1 DEF SeatInv, DoneIsCommitted, NewRow, RequestFits, At, dbVars
<1>10. ReceiptsHold'
  BY DEF SeatInv, ReceiptsHold, dbVars
<1>11. NoDoubleSeat'
  BY <1>1 DEF SeatInv, NoDoubleSeat, RequestFits, At, dbVars
<1>12. AttendedIsBound' /\ LedgerMatchesTrail'
  BY DEF SeatInv, AttendedIsBound, LedgerMatchesTrail, dbVars
<1> QED
  BY <1>2, <1>3, <1>4, <1>5, <1>6, <1>7, <1>8, <1>9, <1>10, <1>11, <1>12 DEF SeatInv

LEMMA AssignSeatStep ==
  ASSUME SeatInv, NEW q \in Reqs, NEW roll \in Rolls, NEW t \in Terminals,
         AssignSeat(q, roll, t)
  PROVE  SeatInv'
<1> DEFINE r == [Idle EXCEPT !.pc = "assigning", !.seat = t, !.roll = roll]
<1>1. r \in Requests
  BY IdleIsRequest DEF Requests, Stages
<1>2. r.pc = "assigning" /\ r.seat = t /\ r.roll = roll
  BY DEF Idle
<1>3. Enter(q, r) /\ FreeSeat(t) /\ UNCHANGED <<dbVars, attempts, receipts>>
  BY DEF AssignSeat
<1>4. RequestFits(q, r)
  BY <1>2, <1>3 DEF RequestFits, FreeSeat, RowLocked, SeatInv, SeatHistory, NoBinding
<1> QED
  BY <1>1, <1>3, <1>4, RequestStep DEF SeatInv, SeatTypeOK

LEMMA CandidateLoginStep ==
  ASSUME SeatInv, NEW q \in Reqs, NEW t \in Terminals, NEW roll \in Rolls,
         CandidateLogin(q, t, roll)
  PROVE  SeatInv'
<1> DEFINE r == [Idle EXCEPT !.pc = "loginBegun", !.seat = t, !.roll = roll,
                             !.used = attempts[t]]
<1>1. attempts[t] \in 0..AttemptLimit
  BY DEF SeatInv, SeatTypeOK
<1>2. r \in Requests
  BY <1>1, IdleIsRequest DEF Requests, Stages
<1>3. r.pc = "loginBegun" /\ r.seat = t /\ r.roll = roll /\ r.used = attempts[t]
  BY DEF Idle
<1>4. Enter(q, r) /\ MayTryLogin(t) /\ UNCHANGED <<dbVars, attempts, receipts>>
  BY DEF CandidateLogin
<1>5. RequestFits(q, r)
  BY <1>3, <1>4 DEF RequestFits, MayTryLogin
<1> QED
  BY <1>2, <1>4, <1>5, RequestStep DEF SeatInv, SeatTypeOK

LEMMA ReadBindingStep ==
  ASSUME SeatInv, NEW q \in Reqs, NEW d \in BOOLEAN, ReadBinding(q, d)
  PROVE  SeatInv'
<1> DEFINE v == LoginVerdict(req[q].seat, req[q].roll, d)
           r == [req[q] EXCEPT !.pc = "loginRead", !.ok = v]
<1>1. req[q] \in Requests /\ v \in BOOLEAN
  BY DEF SeatInv, SeatTypeOK, LoginVerdict
<1>2. /\ At(q, "loginBegun")
      /\ Enter(q, r)
      /\ UNCHANGED <<dbVars, attempts, receipts>>
  BY DEF ReadBinding
<1>3. v => binding[req[q].seat].roll = req[q].roll /\ req[q].roll \in Roster
  BY DEF LoginVerdict
<1> HIDE DEF v
<1>4. r \in Requests
  BY <1>1 DEF Requests, Stages
<1>5. /\ r.pc = "loginRead" /\ r.ok = v
      /\ r.seat = req[q].seat /\ r.roll = req[q].roll /\ r.used = req[q].used
  BY <1>1 DEF Requests
<1>6. RequestFits(q, r)
  BY <1>2, <1>3, <1>5 DEF RequestFits, SeatInv, RequestShape, At
<1> QED
  BY <1>2, <1>4, <1>6, RequestStep DEF SeatInv, SeatTypeOK

LEMMA LoginDeniedStep ==
  ASSUME SeatInv, NEW q \in Reqs, LoginDenied(q)
  PROVE  SeatInv'
<1>1. Enter(q, Idle) /\ UNCHANGED <<dbVars, receipts>>
  BY DEF LoginDenied, Finish
<1>2. RequestFits(q, Idle)
  BY DEF RequestFits, Idle
<1>3. req[q].used + 1 \in 0..AttemptLimit
  <2>1. req[q].pc = "loginRead"
    BY DEF LoginDenied, At
  <2>2. req[q].used < AttemptLimit
    BY <2>1 DEF SeatInv, RequestShape
  <2>3. req[q].used \in 0..AttemptLimit
    BY DEF SeatInv, SeatTypeOK, Requests
  <2> QED
    BY <2>2, <2>3 DEF AttemptLimit
<1>4. attempts' \in [Terminals -> 0..AttemptLimit]
  BY <1>3 DEF LoginDenied, SeatInv, SeatTypeOK
<1> QED
  BY <1>1, <1>2, <1>4, IdleIsRequest, RequestStep

LEMMA LoginGrantedStep ==
  ASSUME SeatInv, NEW q \in Reqs, LoginGranted(q)
  PROVE  SeatInv'
<1> DEFINE r == [req[q] EXCEPT !.pc = "loginGranted", !.used = 0]
<1>1. req[q] \in Requests
  BY DEF SeatInv, SeatTypeOK
<1>2. 0 \in 0..AttemptLimit
  BY DEF AttemptLimit
<1>3. r \in Requests
  BY <1>1, <1>2 DEF Requests, Stages
<1>4. r.pc = "loginGranted" /\ r.seat = req[q].seat /\ r.roll = req[q].roll
  BY <1>1 DEF Requests
<1>5. /\ At(q, "loginRead") /\ req[q].ok
      /\ Enter(q, r)
      /\ UNCHANGED <<dbVars, receipts>>
  BY DEF LoginGranted
<1>6. RequestFits(q, r)
  BY <1>4, <1>5 DEF RequestFits, SeatInv, RequestShape, ReadsStillHold, At
<1>7. attempts' \in [Terminals -> 0..AttemptLimit]
  BY <1>2 DEF LoginGranted, SeatInv, SeatTypeOK
<1> QED
  BY <1>3, <1>5, <1>6, <1>7, RequestStep

LEMMA SubmitAnswerStep ==
  ASSUME SeatInv, NEW q \in Reqs, NEW t \in Terminals, NEW e \in Envelopes,
         SubmitAnswer(q, t, e)
  PROVE  SeatInv'
<1> DEFINE r == [Idle EXCEPT !.pc = "submitRead", !.seat = t, !.leaf = e]
<1>1. r \in Requests
  BY IdleIsRequest DEF Requests, Stages
<1>2. r.pc = "submitRead" /\ r.seat = t /\ r.leaf = e
  BY DEF Idle
<1>3. Enter(q, r) /\ SeatMaySubmit(t) /\ UNCHANGED <<dbVars, attempts, receipts>>
  BY DEF SubmitAnswer
<1>4. RequestFits(q, r)
  BY <1>2, <1>3 DEF RequestFits, SeatMaySubmit, SeatInv, SeatHistory
<1> QED
  BY <1>1, <1>3, <1>4, RequestStep DEF SeatInv, SeatTypeOK

LEMMA LockChainTailStep ==
  ASSUME SeatInv, NEW q \in Reqs, LockChainTail(q)
  PROVE  SeatInv'
<1> DEFINE r == [req[q] EXCEPT !.pc = "submitTail", !.index = ChainTail.index,
                               !.prevRoot = ChainTail.prevRoot]
<1>1. req[q] \in Requests
  BY DEF SeatInv, SeatTypeOK
<1>2. ChainTail.index = Len(ledger) /\ ChainTail.prevRoot = tailRoot(ledger)
  BY DEF ChainTail
<1>3. ChainTail.index \in Nat /\ ChainTail.prevRoot \in Seq(Envelopes)
  BY <1>2, TailRootIsRoot DEF SeatInv, SeatTypeOK
<1>4. /\ At(q, "submitRead") /\ ChainLockFree(q)
      /\ Enter(q, r)
      /\ UNCHANGED <<dbVars, attempts, receipts>>
  BY DEF LockChainTail
<1> HIDE DEF ChainTail
<1>5. r \in Requests
  BY <1>1, <1>3 DEF Requests, Stages
<1>6. /\ r.pc = "submitTail" /\ r.seat = req[q].seat /\ r.leaf = req[q].leaf
      /\ r.index = Len(ledger) /\ r.prevRoot = tailRoot(ledger)
  BY <1>1, <1>2 DEF Requests
<1>7. RequestFits(q, r)
  BY <1>4, <1>6 DEF RequestFits, SeatInv, RequestShape, ReadsStillHold, At
<1> QED
  BY <1>4, <1>5, <1>7, RequestStep DEF SeatInv, SeatTypeOK

-----------------------------------------------------------------------------
(* Steps that change the database. *)

LEMMA ProvisionStep ==
  ASSUME SeatInv, NEW rolls \in SUBSET Roster, NEW bundle \in [rolls -> HQStatuses],
         Provision(bundle)
  PROVE  SeatInv'
<1>1. /\ enroll' = [r \in Roster |-> IF r \in DOMAIN bundle THEN bundle[r] ELSE enroll[r]]
      /\ UNCHANGED <<term, health, binding, ledger, trail, attempts, req, receipts>>
  BY DEF Provision
<1>2. enroll' \in [Roster -> EnrollStatuses]
  BY <1>1, SeatAssumption DEF SeatInv, SeatTypeOK
<1>3. SeatTypeOK'
  BY <1>1, <1>2 DEF SeatInv, SeatTypeOK
<1>4. /\ SeatHistory' /\ ReadsStillHold' /\ AttendedIsBound' /\ LedgerMatchesTrail'
      /\ RequestShape' /\ ChainLockExclusive' /\ ChainIntact' /\ TailIsCurrent'
      /\ DoneIsCommitted' /\ ReceiptsHold' /\ NoDoubleSeat'
  BY <1>1 DEF SeatInv, SeatHistory, ReadsStillHold, Attended, AttendedIsBound,
              LedgerMatchesTrail, RequestShape, ChainLockExclusive, ChainIntact,
              TailIsCurrent, DoneIsCommitted, NewRow, ReceiptsHold, NoDoubleSeat, At
<1> QED
  BY <1>3, <1>4 DEF SeatInv

LEMMA CheckInStep ==
  ASSUME SeatInv, NEW roll \in Roster, CheckIn(roll)
  PROVE  SeatInv'
<1>1. /\ trail' = trail \cup {<<"CANDIDATE_CHECKED_IN", roll>>}
      /\ enroll' = [enroll EXCEPT ![roll] = "PRESENT"]
      /\ UNCHANGED <<term, health, binding, ledger, attempts, req, receipts>>
  BY DEF CheckIn
<1>2. SeatTypeOK'
  BY <1>1, SeatAssumption DEF SeatInv, SeatTypeOK, EnrollStatuses, TrailEntries
<1>3. SeatHistory' /\ ReadsStillHold'
  BY <1>1 DEF SeatInv, SeatHistory, ReadsStillHold, Attended, At
<1>4. AttendedIsBound' /\ LedgerMatchesTrail'
  BY <1>1 DEF SeatInv, AttendedIsBound, LedgerMatchesTrail
<1>5. /\ RequestShape' /\ ChainLockExclusive' /\ ChainIntact' /\ TailIsCurrent'
      /\ DoneIsCommitted' /\ ReceiptsHold' /\ NoDoubleSeat'
  BY <1>1 DEF SeatInv, RequestShape, ChainLockExclusive, ChainIntact, TailIsCurrent,
              DoneIsCommitted, NewRow, ReceiptsHold, NoDoubleSeat, At
<1> QED
  BY <1>2, <1>3, <1>4, <1>5 DEF SeatInv

LEMMA HeartbeatStep ==
  ASSUME SeatInv, NEW t \in Terminals, NEW h \in {"OK", "FAULT"}, Heartbeat(t, h)
  PROVE  SeatInv'
<1>1. /\ health' = [health EXCEPT ![t] = h]
      /\ UNCHANGED <<enroll, term, binding, ledger, trail, attempts, req, receipts>>
  BY DEF Heartbeat
<1>2. SeatTypeOK'
  BY <1>1 DEF SeatInv, SeatTypeOK
<1>3. /\ SeatHistory' /\ ReadsStillHold' /\ AttendedIsBound' /\ LedgerMatchesTrail'
      /\ RequestShape' /\ ChainLockExclusive' /\ ChainIntact' /\ TailIsCurrent'
      /\ DoneIsCommitted' /\ ReceiptsHold' /\ NoDoubleSeat'
  BY <1>1 DEF SeatInv, SeatHistory, ReadsStillHold, Attended, AttendedIsBound,
              LedgerMatchesTrail, RequestShape, ChainLockExclusive, ChainIntact,
              TailIsCurrent, DoneIsCommitted, NewRow, ReceiptsHold, NoDoubleSeat, At
<1> QED
  BY <1>2, <1>3 DEF SeatInv

\* The seat was free, so no request in flight and no ledger row relies on the
\* binding that is overwritten.
LEMMA CommitAssignStep ==
  ASSUME SeatInv, NEW q \in Reqs, CommitAssign(q)
  PROVE  SeatInv'
<1> DEFINE t == req[q].seat
           roll == req[q].roll
<1>1. /\ t \in Terminals /\ roll \in Rolls
      /\ term[t] = "AVAILABLE" /\ binding[t] = NoBinding
  BY DEF CommitAssign, SeatInv, RequestShape, ReadsStillHold, NoDoubleSeat, At
<1>2. /\ term' = [term EXCEPT ![t] = "ASSIGNED"]
      /\ binding' = [binding EXCEPT ![t] = [roll |-> roll, consumed |-> FALSE]]
      /\ trail' = trail \cup {<<"SEAT_ASSIGNED", t, roll>>}
      /\ UNCHANGED <<enroll, health, ledger, attempts, receipts>>
  BY DEF CommitAssign
<1>3. /\ req'[q] = Idle
      /\ \A p \in Reqs \ {q} : req'[p] = req[p]
  BY EnterOne DEF CommitAssign, Finish, SeatInv
<1>4. /\ binding'[t] = [roll |-> roll, consumed |-> FALSE]
      /\ term'[t] = "ASSIGNED"
      /\ \A s \in Terminals \ {t} : binding'[s] = binding[s] /\ term'[s] = term[s]
  BY <1>1, <1>2 DEF SeatInv, SeatTypeOK
<1>5. Idle.pc = "idle"
  BY DEF Idle
<1> HIDE DEF t, roll
<1>6. \A r \in Rolls : <<"CANDIDATE_ATTENDED", t, r>> \notin trail
  <2>1. \A r \in Rolls : binding[t] # [roll |-> r, consumed |-> TRUE]
    BY <1>1 DEF NoBinding
  <2> QED
    BY <1>1, <2>1 DEF SeatInv, AttendedIsBound
<1>7. ~Attended(t)
  BY <1>1, SeatAssumption DEF Attended, SeatInv, SeatTypeOK, NoBinding, TrailEntries
<1>8. SeatTypeOK'
  <2>1. req' \in [Reqs -> Requests]
    BY IdleIsRequest DEF CommitAssign, Finish, Enter, SeatInv, SeatTypeOK
  <2>2. <<"SEAT_ASSIGNED", t, roll>> \in TrailEntries
    BY <1>1 DEF TrailEntries
  <2> QED
    BY <1>1, <1>2, <2>1, <2>2 DEF SeatInv, SeatTypeOK, SeatStates
<1>9. RequestShape'
  BY <1>3, <1>5 DEF SeatInv, RequestShape, At
<1>10. \A s \in Terminals \ {t} : Attended(s) => Attended(s)'
  BY <1>2, <1>4 DEF Attended
<1>11. SeatHistory'
  <2>1. \A s \in Terminals \ {t} :
           /\ term[s] = "AVAILABLE" => binding[s] = NoBinding
           /\ binding[s].roll # NoRoll => <<"SEAT_ASSIGNED", s, binding[s].roll>> \in trail
           /\ term[s] \in {"ATTENDED", "IN_EXAM", "SUBMITTED"} => Attended(s)
    BY DEF SeatInv, SeatHistory
  <2>2. binding'[t].roll = roll
    BY <1>4
  <2> QED
    BY <1>2, <1>4, <1>10, <2>1, <2>2 DEF SeatHistory
<1>12. ReadsStillHold'
  <2> SUFFICES ASSUME NEW p \in Reqs, req'[p].pc # "idle"
               PROVE  ReadsStillHold!(p)'
    BY DEF ReadsStillHold, At
  <2>1. p # q /\ req'[p] = req[p] /\ req[p].seat \in Terminals
    BY <1>3, <1>5 DEF SeatInv, RequestShape, At
  <2>2. CASE req[p].seat = t
    BY <1>1, <1>4, <1>7, <2>1, <2>2, SeatAssumption
       DEF SeatInv, ReadsStillHold, NoDoubleSeat, RequestShape, CommitAssign, NoBinding, At
  <2>3. CASE req[p].seat # t
    BY <1>4, <1>10, <2>1, <2>3 DEF SeatInv, ReadsStillHold, At
  <2> QED
    BY <2>2, <2>3
<1>13. ChainLockExclusive' /\ TailIsCurrent' /\ DoneIsCommitted'
  BY <1>2, <1>3, <1>5 DEF SeatInv, ChainLockExclusive, TailIsCurrent, DoneIsCommitted,
                         NewRow, At
<1>14. ChainIntact' /\ ReceiptsHold'
  BY <1>2 DEF SeatInv, ChainIntact, ReceiptsHold
<1>15. NoDoubleSeat'
  BY <1>3, <1>4, <1>5 DEF SeatInv, NoDoubleSeat, RequestShape, CommitAssign, At
<1>16. AttendedIsBound'
  BY <1>2, <1>4, <1>6 DEF SeatInv, AttendedIsBound
<1>17. LedgerMatchesTrail'
  <2>1. \A i \in 1..Len(ledger) : ledger[i].seat \in Terminals \ {t}
    <3> SUFFICES ASSUME NEW i \in 1..Len(ledger)
                 PROVE  ledger[i].seat \in Terminals \ {t}
      OBVIOUS
    <3>1. ledger[i] \in LedgerRows
      BY DEF SeatInv, SeatTypeOK
    <3>2. Attended(ledger[i].seat)
      BY DEF SeatInv, LedgerMatchesTrail, Attended
    <3> QED
      BY <1>7, <3>1, <3>2 DEF LedgerRows
  <2> QED
    BY <1>2, <1>4, <2>1 DEF SeatInv, LedgerMatchesTrail
<1> QED
  BY <1>8, <1>9, <1>11, <1>12, <1>13, <1>14, <1>15, <1>16, <1>17 DEF SeatInv

\* The roll that attends is the one the binding names, whatever has happened
\* since the binding was read.
LEMMA CommitAttendStep ==
  ASSUME SeatInv, NEW q \in Reqs, CommitAttend(q)
  PROVE  SeatInv'
<1> DEFINE t == req[q].seat
           roll == req[q].roll
<1>1. /\ t \in Terminals /\ roll \in Rolls /\ roll \in Roster
      /\ binding[t].roll = roll
      /\ ~RowLocked(t)
  BY DEF CommitAttend, SeatInv, RequestShape, ReadsStillHold, At
<1>2. /\ term' = [term EXCEPT ![t] = "ATTENDED"]
      /\ binding' = [binding EXCEPT ![t].consumed = TRUE]
      /\ trail' = trail \cup {<<"CANDIDATE_ATTENDED", t, roll>>}
      /\ UNCHANGED <<enroll, health, ledger, attempts, receipts>>
  BY DEF CommitAttend
<1>3. /\ req'[q] = Idle
      /\ \A p \in Reqs \ {q} : req'[p] = req[p]
  BY EnterOne DEF CommitAttend, Finish, SeatInv
<1>4. binding[t] \in [roll : Rolls \cup {NoRoll}, consumed : BOOLEAN]
  BY <1>1 DEF SeatInv, SeatTypeOK
<1>5. /\ binding'[t] = [roll |-> roll, consumed |-> TRUE]
      /\ term'[t] = "ATTENDED"
      /\ \A s \in Terminals \ {t} : binding'[s] = binding[s] /\ term'[s] = term[s]
  BY <1>1, <1>2, <1>4 DEF SeatInv, SeatTypeOK
<1>6. Idle.pc = "idle"
  BY DEF Idle
<1>7. \A p \in Reqs : At(p, "assigning") => req[p].seat # t
  BY <1>1 DEF RowLocked
<1> HIDE DEF t, roll
<1>8. \A s \in Terminals : binding'[s].roll = binding[s].roll
  BY <1>1, <1>5
<1>9. \A s \in Terminals : Attended(s) => Attended(s)'
  BY <1>2, <1>8 DEF Attended
<1>10. <<"CANDIDATE_ATTENDED", t, binding'[t].roll>> \in trail'
  BY <1>2, <1>5
<1>11. SeatTypeOK'
  <2>1. req' \in [Reqs -> Requests]
    BY IdleIsRequest DEF CommitAttend, Finish, Enter, SeatInv, SeatTypeOK
  <2>2. <<"CANDIDATE_ATTENDED", t, roll>> \in TrailEntries
    BY <1>1 DEF TrailEntries
  <2> QED
    BY <1>1, <1>2, <2>1, <2>2 DEF SeatInv, SeatTypeOK, SeatStates
<1>12. RequestShape'
  BY <1>3, <1>6 DEF SeatInv, RequestShape, At
<1>13. SeatHistory'
  <2> SUFFICES ASSUME NEW s \in Terminals
               PROVE  SeatHistory!(s)'
    BY DEF SeatHistory
  <2>1. CASE s = t
    BY <1>1, <1>2, <1>5, <1>8, <1>10, <2>1 DEF SeatInv, SeatHistory, Attended
  <2>2. CASE s # t
    BY <1>2, <1>5, <1>9, <2>2 DEF SeatInv, SeatHistory
  <2> QED
    BY <2>1, <2>2
<1>14. ReadsStillHold'
  <2> SUFFICES ASSUME NEW p \in Reqs, req'[p].pc # "idle"
               PROVE  ReadsStillHold!(p)'
    BY DEF ReadsStillHold, At
  <2>1. p # q /\ req'[p] = req[p] /\ req[p].seat \in Terminals
    BY <1>3, <1>6 DEF SeatInv, RequestShape, At
  <2> QED
    BY <1>5, <1>7, <1>8, <1>9, <2>1 DEF SeatInv, ReadsStillHold, At
<1>15. ChainLockExclusive' /\ TailIsCurrent' /\ DoneIsCommitted'
  BY <1>2, <1>3, <1>6 DEF SeatInv, ChainLockExclusive, TailIsCurrent, DoneIsCommitted,
                         NewRow, At
<1>16. ChainIntact' /\ ReceiptsHold'
  BY <1>2 DEF SeatInv, ChainIntact, ReceiptsHold
<1>17. NoDoubleSeat'
  BY <1>3, <1>5, <1>6, <1>7 DEF SeatInv, NoDoubleSeat, RequestShape, At
<1>18. AttendedIsBound'
  <2> SUFFICES ASSUME NEW s \in Terminals, NEW r \in Rolls,
                      <<"CANDIDATE_ATTENDED", s, r>> \in trail'
               PROVE  AttendedIsBound!(s, r)!2'
    BY DEF AttendedIsBound
  <2>1. CASE s = t /\ r = roll
    <3>1. <<"SEAT_ASSIGNED", t, roll>> \in trail
      BY <1>1, SeatAssumption DEF SeatInv, SeatHistory
    <3> QED
      BY <1>1, <1>2, <1>5, <2>1, <3>1
  <2>2. CASE ~(s = t /\ r = roll)
    <3>1. <<"CANDIDATE_ATTENDED", s, r>> \in trail
      BY <1>2, <2>2
    <3>2. /\ binding[s] = [roll |-> r, consumed |-> TRUE]
          /\ <<"SEAT_ASSIGNED", s, r>> \in trail
          /\ r \in Roster
      BY <3>1 DEF SeatInv, AttendedIsBound
    <3>3. s # t
      BY <1>1, <2>2, <3>2
    <3> QED
      BY <1>2, <1>5, <3>2, <3>3
  <2> QED
    BY <2>1, <2>2
<1>19. LedgerMatchesTrail'
  <2>1. \A i \in 1..Len(ledger) : ledger[i].seat \in Terminals
    <3> SUFFICES ASSUME NEW i \in 1..Len(ledger)
                 PROVE  ledger[i].seat \in Terminals
      OBVIOUS
    <3>1. ledger[i] \in LedgerRows
      BY DEF SeatInv, SeatTypeOK
    <3> QED
      BY <3>1 DEF LedgerRows
  <2> QED
    BY <1>2, <1>8, <2>1 DEF SeatInv, LedgerMatchesTrail
<1> QED
  BY <1>11, <1>12, <1>13, <1>14, <1>15, <1>16, <1>17, <1>18, <1>19 DEF SeatInv

\* The row is inserted at the tail that was read under the lock.
LEMMA CommitAnswerStep ==
  ASSUME SeatInv, NEW q \in Reqs, CommitAnswer(q)
  PROVE  SeatInv'
<1> DEFINE t == req[q].seat
           e == req[q].leaf
           row == NewRow(q)
           n == Len(ledger)
           r == [req[q] EXCEPT !.pc = "submitDone"]
<1>1. /\ At(q, "submitTail") /\ ~RowLocked(t)
      /\ ledger' = Append(ledger, row)
      /\ term' = [term EXCEPT ![t] = "SUBMITTED"]
      /\ trail' = trail \cup {<<"ANSWER_SEALED", t, e>>}
      /\ Enter(q, r)
      /\ UNCHANGED <<enroll, health, binding, attempts, receipts>>
  BY DEF CommitAnswer
<1>2. t \in Terminals /\ e \in Envelopes /\ Attended(t)
  BY <1>1 DEF SeatInv, RequestShape, ReadsStillHold, At
<1>3. req[q].index = n /\ req[q].prevRoot = tailRoot(ledger)
  BY <1>1 DEF SeatInv, TailIsCurrent
<1>4. /\ row \in LedgerRows
      /\ row.seat = t /\ row.leaf = e /\ row.index = n /\ row.prevRoot = tailRoot(ledger)
      /\ row.root = nextRoot(row.prevRoot, row.leaf)
  BY <1>2, <1>3, NewRowIsRow DEF NewRow, SeatInv
<1>5. req[q] \in Requests
  BY DEF SeatInv, SeatTypeOK
<1>6. /\ r \in Requests /\ r.pc = "submitDone"
      /\ r.seat = t /\ r.leaf = e /\ r.index = n /\ r.prevRoot = req[q].prevRoot
  BY <1>3, <1>5 DEF Requests, Stages
<1>7. req'[q] = r /\ \A p \in Reqs \ {q} : req'[p] = req[p]
  BY <1>1, EnterOne DEF SeatInv
<1>8. /\ NewRow(q)' = row
      /\ \A p \in Reqs \ {q} : NewRow(p)' = NewRow(p)
  BY <1>6, <1>7 DEF NewRow
<1>9. /\ ledger \in Seq(LedgerRows) /\ n \in Nat
      /\ Len(ledger') = n + 1
      /\ ledger'[n + 1] = row
      /\ \A i \in 1..n : ledger'[i] = ledger[i]
  BY <1>1, <1>4 DEF SeatInv, SeatTypeOK
<1>10. row.prevRoot = IF n + 1 = 1 THEN GENESIS ELSE ledger[n].root
  BY <1>4, <1>9 DEF tailRoot
<1>11. \A p \in Reqs \ {q} : ~At(p, "submitTail")
  BY <1>1 DEF SeatInv, ChainLockExclusive
<1>12. /\ term'[t] = "SUBMITTED"
       /\ \A s \in Terminals \ {t} : term'[s] = term[s]
  BY <1>1, <1>2 DEF SeatInv, SeatTypeOK
<1>13. \A p \in Reqs : At(p, "assigning") => req[p].seat # t
  BY <1>1 DEF RowLocked
<1> HIDE DEF t, e, row, n, r
<1>14. \A s \in Terminals : Attended(s) => Attended(s)'
  BY <1>1 DEF Attended
<1>15. SeatTypeOK'
  <2>1. req' \in [Reqs -> Requests]
    BY <1>1, <1>6 DEF SeatInv, SeatTypeOK, Enter
  <2>2. <<"ANSWER_SEALED", t, e>> \in TrailEntries
    BY <1>2 DEF TrailEntries
  <2>3. ledger' \in Seq(LedgerRows)
    BY <1>1, <1>4, <1>9
  <2> QED
    BY <1>1, <1>2, <2>1, <2>2, <2>3 DEF SeatInv, SeatTypeOK, SeatStates
<1>16. RequestShape'
  BY <1>2, <1>6, <1>7 DEF SeatInv, RequestShape, At
<1>17. SeatHistory'
  BY <1>1, <1>2, <1>12, <1>14 DEF SeatInv, SeatHistory
<1>18. ReadsStillHold'
  <2> SUFFICES ASSUME NEW p \in Reqs
               PROVE  ReadsStillHold!(p)'
    BY DEF ReadsStillHold
  <2>1. CASE p = q
    BY <1>2, <1>6, <1>7, <1>14, <2>1 DEF At
  <2>2. CASE p # q
    <3>1. req'[p] = req[p] /\ (req[p].pc # "idle" => req[p].seat \in Terminals)
      BY <1>7, <2>2 DEF SeatInv, RequestShape, At
    <3> QED
      BY <1>1, <1>12, <1>13, <1>14, <3>1 DEF SeatInv, ReadsStillHold, At
  <2> QED
    BY <2>1, <2>2
<1>19. ChainLockExclusive' /\ TailIsCurrent'
  BY <1>6, <1>7, <1>11 DEF ChainLockExclusive, TailIsCurrent, At
<1>20. ChainIntact'
  <2> SUFFICES ASSUME NEW i \in 1..Len(ledger')
               PROVE  /\ ledger'[i].prevRoot = IF i = 1 THEN GENESIS ELSE ledger'[i-1].root
                      /\ ledger'[i].root = nextRoot(ledger'[i].prevRoot, ledger'[i].leaf)
                      /\ ledger'[i].index = i - 1
    BY DEF ChainIntact, verifyChain
  <2>1. CASE i = n + 1
    BY <1>4, <1>9, <1>10, <2>1
  <2>2. CASE i \in 1..n
    <3>1. /\ ledger[i].prevRoot = IF i = 1 THEN GENESIS ELSE ledger[i-1].root
          /\ ledger[i].root = nextRoot(ledger[i].prevRoot, ledger[i].leaf)
          /\ ledger[i].index = i - 1
      BY <2>2 DEF SeatInv, ChainIntact, verifyChain, n
    <3> QED
      BY <1>9, <2>2, <3>1
  <2> QED
    BY <1>9, <2>1, <2>2
<1>21. DoneIsCommitted'
  <2> SUFFICES ASSUME NEW p \in Reqs, At(p, "submitDone")'
               PROVE  /\ req'[p].index < Len(ledger')
                      /\ ledger'[req'[p].index + 1] = NewRow(p)'
    BY DEF DoneIsCommitted
  <2>1. CASE p = q
    BY <1>6, <1>7, <1>8, <1>9, <2>1
  <2>2. CASE p # q
    <3>1. req[p].index \in Nat
      BY DEF SeatInv, SeatTypeOK, Requests
    <3>2. req[p].index < n /\ ledger[req[p].index + 1] = NewRow(p)
      BY <1>7, <2>2 DEF SeatInv, DoneIsCommitted, At, n
    <3> QED
      BY <1>7, <1>8, <1>9, <2>2, <3>1, <3>2
  <2> QED
    BY <2>1, <2>2
<1>22. ReceiptsHold'
  BY <1>1, <1>9 DEF SeatInv, SeatTypeOK, Receipts, ReceiptsHold, n
<1>23. NoDoubleSeat'
  BY <1>1, <1>6, <1>7 DEF SeatInv, NoDoubleSeat, At
<1>24. AttendedIsBound'
  BY <1>1 DEF SeatInv, AttendedIsBound
<1>25. LedgerMatchesTrail'
  <2>1. <<"CANDIDATE_ATTENDED", t, binding[t].roll>> \in trail
    BY <1>2 DEF Attended
  <2>2. ASSUME NEW i \in 1..Len(ledger')
        PROVE  /\ <<"ANSWER_SEALED", ledger'[i].seat, ledger'[i].leaf>> \in trail'
               /\ <<"CANDIDATE_ATTENDED", ledger'[i].seat, binding'[ledger'[i].seat].roll>> \in trail'
    <3>1. CASE i = n + 1
      BY <1>1, <1>4, <1>9, <2>1, <3>1
    <3>2. CASE i \in 1..n
      BY <1>1, <1>9, <3>2 DEF SeatInv, LedgerMatchesTrail, n
    <3> QED
      BY <1>9, <3>1, <3>2
  <2>3. ASSUME NEW s \in Terminals, NEW x \in Envelopes,
               <<"ANSWER_SEALED", s, x>> \in trail'
        PROVE  \E i \in 1..Len(ledger') : ledger'[i].seat = s /\ ledger'[i].leaf = x
    <3>1. CASE s = t /\ x = e
      BY <1>4, <1>9, <3>1
    <3>2. CASE ~(s = t /\ x = e)
      <4>1. <<"ANSWER_SEALED", s, x>> \in trail
        BY <1>1, <2>3, <3>2
      <4>2. PICK i \in 1..n : ledger[i].seat = s /\ ledger[i].leaf = x
        BY <4>1 DEF SeatInv, LedgerMatchesTrail, n
      <4> QED
        BY <1>9, <4>2
    <3> QED
      BY <3>1, <3>2
  <2> QED
    BY <2>2, <2>3 DEF LedgerMatchesTrail
<1> QED
  BY <1>15, <1>16, <1>17, <1>18, <1>19, <1>20, <1>21, <1>22, <1>23, <1>24, <1>25 DEF SeatInv

-----------------------------------------------------------------------------
(* Steps that hand out receipts, and the restart. *)

\* The receipt of a committed row is valid, and stays so.
LEMMA RowReceiptHolds ==
  ASSUME SeatInv, NEW i \in 1..Len(ledger)
  PROVE  LET w == Receipt(ledger[i]) IN
         /\ w \in Receipts
         /\ verifyInclusion(w)
         /\ w.index < Len(ledger)
         /\ Receipt(ledger[w.index + 1]) = w
<1>1. ledger[i] \in LedgerRows /\ ledger[i].index = i - 1
  BY DEF SeatInv, SeatTypeOK, ChainIntact
<1>2. ledger[i].root = nextRoot(ledger[i].prevRoot, ledger[i].leaf)
  BY DEF SeatInv, ChainIntact, verifyChain
<1>3. Receipt(ledger[i]).index = i - 1
  BY <1>1 DEF Receipt
<1>4. Receipt(ledger[i]) \in Receipts
  BY <1>1, ReceiptIsReceipt
<1>5. verifyInclusion(Receipt(ledger[i]))
  BY <1>2 DEF Receipt, verifyInclusion
<1> QED
  BY <1>3, <1>4, <1>5

\* A step that hands out the receipt of a committed row and changes nothing else.
LEMMA ReceiptStep ==
  ASSUME SeatInv, NEW i \in 1..Len(ledger),
         receipts' = receipts \cup {Receipt(ledger[i])}, ledger' = ledger
  PROVE  ReceiptsHold' /\ receipts' \subseteq Receipts
<1> DEFINE w == Receipt(ledger[i])
<1>1. /\ w \in Receipts
      /\ verifyInclusion(w)
      /\ w.index < Len(ledger)
      /\ Receipt(ledger[w.index + 1]) = w
  BY RowReceiptHolds
<1>2. receipts' = receipts \cup {w} /\ ledger' = ledger
  OBVIOUS
<1> HIDE DEF w
<1> QED
  BY <1>1, <1>2 DEF SeatInv, SeatTypeOK, ReceiptsHold

LEMMA DeliverReceiptStep ==
  ASSUME SeatInv, NEW q \in Reqs, DeliverReceipt(q)
  PROVE  SeatInv'
<1>1. /\ Enter(q, Idle)
      /\ receipts' = receipts \cup {Receipt(NewRow(q))}
      /\ UNCHANGED <<dbVars, attempts>>
  BY DEF DeliverReceipt, Finish
<1>2. /\ req'[q] = Idle /\ Idle.pc = "idle"
      /\ \A p \in Reqs \ {q} : req'[p] = req[p]
  BY <1>1, EnterOne DEF SeatInv, Idle
<1>3. PICK i \in 1..Len(ledger) : ledger[i] = NewRow(q)
  <2>1. req[q].index < Len(ledger) /\ ledger[req[q].index + 1] = NewRow(q)
    BY DEF DeliverReceipt, SeatInv, DoneIsCommitted
  <2>2. req[q].index \in Nat /\ Len(ledger) \in Nat
    BY DEF SeatInv, SeatTypeOK, Requests
  <2> QED
    BY <2>1, <2>2
<1>4. ReceiptsHold' /\ receipts' \subseteq Receipts
  BY <1>1, <1>3, ReceiptStep DEF dbVars
<1>5. SeatTypeOK'
  BY <1>1, <1>4, IdleIsRequest DEF SeatInv, SeatTypeOK, Enter, dbVars
<1>6. /\ SeatHistory' /\ ChainIntact' /\ AttendedIsBound' /\ LedgerMatchesTrail'
  BY <1>1 DEF SeatInv, SeatHistory, Attended, ChainIntact, AttendedIsBound,
              LedgerMatchesTrail, dbVars
<1>7. RequestShape' /\ ReadsStillHold' /\ ChainLockExclusive'
  BY <1>1, <1>2 DEF SeatInv, RequestShape, ReadsStillHold, Attended, ChainLockExclusive,
                   At, dbVars
<1>8. TailIsCurrent' /\ DoneIsCommitted' /\ NoDoubleSeat'
  BY <1>1, <1>2 DEF SeatInv, TailIsCurrent, DoneIsCommitted, NewRow, NoDoubleSeat, At, dbVars
<1> QED
  BY <1>4, <1>5, <1>6, <1>7, <1>8 DEF SeatInv

LEMMA RefetchReceiptStep ==
  ASSUME SeatInv, NEW i \in 1..Len(ledger), RefetchReceipt(i)
  PROVE  SeatInv'
<1>1. /\ receipts' = receipts \cup {Receipt(ledger[i])}
      /\ UNCHANGED <<dbVars, attempts, req>>
  BY DEF RefetchReceipt
<1>2. ReceiptsHold' /\ receipts' \subseteq Receipts
  BY <1>1, ReceiptStep DEF dbVars
<1>3. SeatTypeOK'
  BY <1>1, <1>2 DEF SeatInv, SeatTypeOK, dbVars
<1>4. /\ RequestShape' /\ SeatHistory' /\ ReadsStillHold' /\ ChainLockExclusive'
      /\ ChainIntact' /\ TailIsCurrent' /\ DoneIsCommitted' /\ NoDoubleSeat'
      /\ AttendedIsBound' /\ LedgerMatchesTrail'
  BY <1>1 DEF SeatInv, RequestShape, SeatHistory, ReadsStillHold, Attended,
              ChainLockExclusive, ChainIntact, TailIsCurrent, DoneIsCommitted, NewRow,
              NoDoubleSeat, AttendedIsBound, LedgerMatchesTrail, At, dbVars
<1> QED
  BY <1>2, <1>3, <1>4 DEF SeatInv

LEMMA RestartStep ==
  ASSUME SeatInv, Restart
  PROVE  SeatInv'
<1>1. /\ req' = [q \in Reqs |-> Idle] /\ Idle.pc = "idle"
      /\ attempts' = [t \in Terminals |-> 0]
      /\ UNCHANGED <<dbVars, receipts>>
  BY DEF Restart, Idle
<1>2. \A q \in Reqs : req'[q].pc = "idle"
  BY <1>1
<1>3. SeatTypeOK'
  BY <1>1, IdleIsRequest DEF SeatInv, SeatTypeOK, dbVars, AttemptLimit
<1>4. /\ term' = term /\ binding' = binding /\ ledger' = ledger /\ trail' = trail
      /\ receipts' = receipts
  BY <1>1 DEF dbVars
<1>5. SeatHistory' /\ AttendedIsBound'
  BY <1>4 DEF SeatInv, SeatHistory, Attended, AttendedIsBound
<1>6. ChainIntact' /\ ReceiptsHold' /\ LedgerMatchesTrail'
  BY <1>4 DEF SeatInv, ChainIntact, ReceiptsHold, LedgerMatchesTrail
<1>7. /\ RequestShape' /\ ReadsStillHold' /\ ChainLockExclusive' /\ TailIsCurrent'
      /\ DoneIsCommitted' /\ NoDoubleSeat'
  BY <1>2 DEF RequestShape, ReadsStillHold, ChainLockExclusive, TailIsCurrent,
              DoneIsCommitted, NoDoubleSeat, At
<1> QED
  BY <1>3, <1>5, <1>6, <1>7 DEF SeatInv

-----------------------------------------------------------------------------
(* The invariant, and the properties it contains. *)

LEMMA SeatInvInit == Init => SeatInv
<1> SUFFICES ASSUME Init PROVE SeatInv
  OBVIOUS
<1>1. \A q \in Reqs : req[q].pc = "idle"
  BY DEF Init, Idle
<1>2. SeatTypeOK
  BY IdleIsRequest DEF Init, SeatTypeOK, EnrollStatuses, SeatStates, NoBinding, LedgerRows, AttemptLimit
<1>3. /\ RequestShape /\ ReadsStillHold /\ ChainLockExclusive /\ TailIsCurrent
      /\ DoneIsCommitted /\ NoDoubleSeat
  BY <1>1 DEF RequestShape, ReadsStillHold, ChainLockExclusive, TailIsCurrent,
              DoneIsCommitted, NoDoubleSeat, At
<1>4. SeatHistory
  BY DEF Init, SeatHistory, NoBinding
<1>5. ChainIntact /\ ReceiptsHold /\ AttendedIsBound /\ LedgerMatchesTrail
  BY DEF Init, ChainIntact, verifyChain, ReceiptsHold, AttendedIsBound, LedgerMatchesTrail
<1> QED
  BY <1>2, <1>3, <1>4, <1>5 DEF SeatInv

LEMMA SeatInvStep == SeatInv /\ [SeatNext]_seatVars => SeatInv'
<1> SUFFICES ASSUME SeatInv, [SeatNext]_seatVars PROVE SeatInv'
  OBVIOUS
<1>1. ASSUME NEW q \in Reqs, Arrive(q) PROVE SeatInv'
  BY <1>1, AssignSeatStep, CandidateLoginStep, SubmitAnswerStep DEF Arrive
<1>2. ASSUME NEW q \in Reqs, Serve(q) PROVE SeatInv'
  BY <1>2, CommitAssignStep, ReadBindingStep, LoginDeniedStep, LoginGrantedStep,
     CommitAttendStep, LockChainTailStep, CommitAnswerStep, DeliverReceiptStep DEF Serve
<1>3. ASSUME NEW r \in Roster, CheckIn(r) PROVE SeatInv'
  BY <1>3, CheckInStep
<1>4. ASSUME NEW t \in Terminals, NEW h \in {"OK", "FAULT"}, Heartbeat(t, h) PROVE SeatInv'
  BY <1>4, HeartbeatStep
<1>5. ASSUME NEW i \in 1..Len(ledger), RefetchReceipt(i) PROVE SeatInv'
  BY <1>5, RefetchReceiptStep
<1>6. CASE Restart
  BY <1>6, RestartStep
<1>7. ASSUME NEW rolls \in SUBSET Roster, NEW bundle \in [rolls -> HQStatuses],
              Provision(bundle)
      PROVE  SeatInv'
  BY <1>7, ProvisionStep
<1>8. CASE UNCHANGED seatVars
  BY <1>8 DEF seatVars, SeatInv, SeatTypeOK, RequestShape, SeatHistory, ReadsStillHold,
              Attended, ChainLockExclusive, ChainIntact, TailIsCurrent, DoneIsCommitted,
              NewRow, ReceiptsHold, NoDoubleSeat, AttendedIsBound, LedgerMatchesTrail, At
<1> QED
  BY <1>1, <1>2, <1>3, <1>4, <1>5, <1>6, <1>7, <1>8 DEF SeatNext, SeatWork

\* SeatInv holds in every state of the pipeline, however many requests are in
\* flight (http.ts sections 9.5, 9.6, 9.7 and 11).
THEOREM SeatInvariant == SeatSpec => []SeatInv
  BY SeatInvInit, SeatInvStep, PTL DEF SeatSpec

\* The state always has its type; in particular the failure counter of a
\* terminal never passes the limit at which logins are refused.
THEOREM SeatTypeCorrect == SeatSpec => []SeatTypeOK
<1>1. SeatInv => SeatTypeOK
  BY DEF SeatInv
<1> QED
  BY <1>1, SeatInvariant, PTL

\* The ledger passes the verification HQ makes, at every instant.
THEOREM ChainAlwaysIntact == SeatSpec => []ChainIntact
<1>1. SeatInv => ChainIntact
  BY DEF SeatInv
<1> QED
  BY <1>1, SeatInvariant, PTL

\* A submission never finds its tail taken, so no answer is refused by UNIQUE.
THEOREM TailAlwaysCurrent == SeatSpec => []TailIsCurrent
<1>1. SeatInv => TailIsCurrent
  BY DEF SeatInv
<1> QED
  BY <1>1, SeatInvariant, PTL

\* Two invigilators never hold the same seat.
THEOREM NeverDoubleSeat == SeatSpec => []NoDoubleSeat
<1>1. SeatInv => NoDoubleSeat
  BY DEF SeatInv
<1> QED
  BY <1>1, SeatInvariant, PTL

\* INV-5 of the edge server.
THEOREM OnlyBoundAttend == SeatSpec => []AttendedIsBound
<1>1. SeatInv => AttendedIsBound
  BY DEF SeatInv
<1> QED
  BY <1>1, SeatInvariant, PTL

\* The ledger and the audit trail speak of the same answers.
THEOREM LedgerAndTrailAgree == SeatSpec => []LedgerMatchesTrail
<1>1. SeatInv => LedgerMatchesTrail
  BY DEF SeatInv
<1> QED
  BY <1>1, SeatInvariant, PTL

\* A receipt is good for ever.
THEOREM ReceiptsAlwaysHold == SeatSpec => []ReceiptsHold
<1>1. SeatInv => ReceiptsHold
  BY DEF SeatInv
<1> QED
  BY <1>1, SeatInvariant, PTL

-----------------------------------------------------------------------------
(* The answer ledger implements the append-only log. *)

Chain == [i \in 1..Len(ledger) |-> Receipt(ledger[i])]

\* The commit of an answer appends the receipt of its row to the log.
LEMMA CommitAppends ==
  ASSUME SeatInv, NEW q \in Reqs, CommitAnswer(q)
  PROVE  Ledger!Next
<1> DEFINE e == req[q].leaf
           row == NewRow(q)
           n == Len(ledger)
<1>1. At(q, "submitTail") /\ ledger' = Append(ledger, row)
  BY DEF CommitAnswer
<1>2. req[q].seat \in Terminals /\ e \in Envelopes
  BY <1>1 DEF SeatInv, RequestShape, At
<1>3. req[q].index = n /\ req[q].prevRoot = tailRoot(ledger)
  BY <1>1 DEF SeatInv, TailIsCurrent
<1>4. row \in LedgerRows
  BY <1>2, NewRowIsRow DEF SeatInv
<1>5. /\ ledger \in Seq(LedgerRows) /\ n \in Nat
      /\ Len(ledger') = n + 1
      /\ ledger'[n + 1] = row
      /\ \A i \in 1..n : ledger'[i] = ledger[i]
  BY <1>1, <1>4 DEF SeatInv, SeatTypeOK
<1>6. Len(Chain) = n /\ \A i \in 1..n : Chain[i] = Receipt(ledger[i])
  BY <1>5 DEF Chain
<1>7. tailRoot(Chain) = tailRoot(ledger)
  BY <1>5, <1>6 DEF tailRoot, Chain, Receipt
<1>8. Receipt(row) = appendLeaf(Chain, e)
  BY <1>3, <1>6, <1>7 DEF Receipt, NewRow, appendLeaf, ChainRecord
<1>9. Chain' = Append(Chain, Receipt(row))
  BY <1>5, <1>6 DEF Chain
<1>10. Ledger!appendLeaf(Chain, e) = appendLeaf(Chain, e)
  BY DEF appendLeaf, ChainRecord, nextRoot, tailRoot, GENESIS, Ledger!appendLeaf,
         Ledger!ChainRecord, Ledger!nextRoot, Ledger!tailRoot, Ledger!GENESIS
<1>11. Chain' = Append(Chain, Ledger!appendLeaf(Chain, e))
  BY <1>8, <1>9, <1>10
<1> QED
  BY <1>2, <1>11 DEF Ledger!Next, Ledger!AppendOne, Chain

\* Whatever the other steps do, they leave the ledger alone.
LEMMA LedgerSteps ==
  SeatInv /\ [SeatNext]_seatVars => [Ledger!Next]_Chain
<1> SUFFICES ASSUME SeatInv, [SeatNext]_seatVars, ledger' # ledger
             PROVE  Ledger!Next
  BY DEF Chain
<1>1. PICK q \in Reqs : CommitAnswer(q)
  BY DEF SeatNext, SeatWork, seatVars, dbVars, Arrive, Serve, AssignSeat, CandidateLogin, SubmitAnswer,
         CommitAssign, ReadBinding, LoginDenied, LoginGranted, CommitAttend, LockChainTail,
         DeliverReceipt, Provision, CheckIn, Heartbeat, RefetchReceipt, Restart
<1> QED
  BY <1>1, CommitAppends

\* Whatever the number of seats that submit at once, the answer ledger behaves
\* as a log that one writer appends to (lib/merkle-chain.ts appendLeaf).
THEOREM LedgerRefinesLog == SeatSpec => LedgerIsAppendOnly
<1>1. Init => Chain = <<>>
  BY DEF Init, Chain
<1>2. SeatInv /\ [SeatNext]_seatVars => [Ledger!Next]_Chain
  BY LedgerSteps
<1> QED
  BY <1>1, <1>2, SeatInvariant, PTL
     DEF SeatSpec, LedgerIsAppendOnly, Ledger!Spec, Ledger!Init, Chain

=============================================================================
