--------------------------- MODULE ApprovalProofs ---------------------------
(***************************************************************************)
(* Proofs about Approval, for every staff, every number of codes and of    *)
(* requests in flight.  ApprovalInv is inductive: the trail only grows, so *)
(* what it vouched for when a row was read it still vouches for when the   *)
(* row, stale by then, is written back.                                    *)
(***************************************************************************)
EXTENDS Approval, TLAPS

-----------------------------------------------------------------------------
(* What the trail vouches for is never lost. *)

\* The trail growing, nobody loses a voucher.
LEMMA VouchersStay ==
  ASSUME trail \subseteq trail'
  PROVE  /\ \A s \in Registered : Activated(s) => Activated(s)'
         /\ \A s \in Registered, by \in Admins \cup {Root} : Vouches(by, s) => Vouches(by, s)'
         /\ \A s \in Registered : CodeVouched(s) => CodeVouched(s)'
         /\ \A s \in Registered : FingerprintVouched(s) => FingerprintVouched(s)'
<1>1. \A s \in Registered : Activated(s) => Activated(s)'
  BY DEF Activated
<1>2. \A s \in Registered, by \in Admins \cup {Root} : Vouches(by, s) => Vouches(by, s)'
  BY <1>1 DEF Vouches, Registered
<1>3. \A s \in Registered : CodeVouched(s) => CodeVouched(s)'
  BY <1>2 DEF CodeVouched
<1>4. \A s \in Registered : FingerprintVouched(s) => FingerprintVouched(s)'
  BY <1>2 DEF FingerprintVouched
<1> QED
  BY <1>1, <1>2, <1>3, <1>4

\* Whoever gets past canApprove with a token may vouch for the applicant.
LEMMA ApproverVouches ==
  ASSUME ApprovalInv, NEW by \in Admins \cup {Root}, NEW s \in Registered, Approves(by, s)
  PROVE  Vouches(by, s)
<1>1. CASE s \in Admins
  BY <1>1 DEF Approves, canApprove, Vouches
<1>2. CASE s \notin Admins
  <2>1. by \in Admins /\ by # Root
    BY <1>2, ApprovalAssumption DEF Approves, canApprove, Staff, Registered
  <2>2. by \in sessions
    BY <2>1 DEF Approves, HoldsToken
  <2> QED
    BY <1>2, <2>1, <2>2 DEF ApprovalInv, CascadingTrust, Vouches
<1> QED
  BY <1>1, <1>2

-----------------------------------------------------------------------------
(* Steps that change one request in flight and nothing else. *)

\* What ApprovalInv asks of a single request in flight.
WorkFits(w) ==
    /\ VouchedWork(w)
    /\ w.pc = "loggingIn" =>
         ident[w.who].status = "ACTIVE" \/ <<"IDENTITY_REVOKED", w.who>> \in trail

\* A step that only moves one request on keeps the invariant if the request fits.
LEMMA WorkStep ==
  ASSUME ApprovalInv, NEW q \in Reqs, NEW w \in Work, work' = [work EXCEPT ![q] = w],
         WorkFits(w),
         UNCHANGED <<ident, request, sessions, expired, issued, redeemed, trail>>
  PROVE  ApprovalInv'
<1>1. work'[q] = w /\ \A p \in Reqs \ {q} : work'[p] = work[p]
  BY DEF ApprovalInv, ApprovalTypeOK
<1>2. ApprovalTypeOK'
  BY DEF ApprovalInv, ApprovalTypeOK
<1>3. CascadingTrust' /\ RowsVouched' /\ ActiveIsActivated'
  BY DEF ApprovalInv, CascadingTrust, RowsVouched, Resolved, ActiveIsActivated, Activated,
         Vouches, CodeVouched, FingerprintVouched
<1>4. WorkVouched'
  <2>1. VouchedWork(w)'
    BY DEF WorkFits, VouchedWork, Activated, Vouches, CodeVouched, FingerprintVouched
  <2>2. ASSUME NEW p \in Reqs \ {q}, NEW v, v = work[p] PROVE VouchedWork(v)'
    BY <2>2 DEF ApprovalInv, WorkVouched, VouchedWork, Activated, Vouches, CodeVouched,
           FingerprintVouched
  <2> QED
    BY <1>1, <2>1, <2>2 DEF WorkVouched
<1>5. RevokedIsMarked' /\ OneActiveAdmin'
  BY DEF ApprovalInv, RevokedIsMarked, OneActiveAdmin
<1>6. AtWorkIsActive'
  BY <1>1 DEF ApprovalInv, AtWorkIsActive, WorkFits, Working
<1> QED
  BY <1>2, <1>3, <1>4, <1>5, <1>6 DEF ApprovalInv

\* A request that has ended fits.
LEMMA NoWorkFits == NoWork \in Work /\ WorkFits(NoWork)
  BY DEF Work, NoWork, WorkFits, VouchedWork

LEMMA IssueCodeStep ==
  ASSUME ApprovalInv, NEW q \in Reqs, NEW by \in Admins \cup {Root}, NEW s \in Registered,
         NEW c \in Codes, IssueCode(q, by, s, c)
  PROVE  ApprovalInv'
<1> DEFINE w == [pc |-> "issuing", by |-> by, who |-> s,
                 record |-> [request[s] EXCEPT !.code = c, !.consumed = FALSE]]
<1>1. request[s] \in ApprovalRecords
  BY DEF ApprovalInv, ApprovalTypeOK
<1>2. /\ w.record \in ApprovalRecords
      /\ w.record.code = c
      /\ w.record.fingerprint = request[s].fingerprint
      /\ Resolved(w.record) => Resolved(request[s])
  BY <1>1 DEF ApprovalRecords, Resolved
<1>3. w \in Work
  BY <1>2 DEF Work
<1>4. Vouches(by, s)
  BY ApproverVouches DEF IssueCode
<1>5. WorkFits(w)
  BY <1>2, <1>4 DEF WorkFits, VouchedWork, ApprovalInv, RowsVouched
<1> QED
  BY <1>3, <1>5, WorkStep DEF IssueCode

LEMMA AuthoriseFingerprintStep ==
  ASSUME ApprovalInv, NEW q \in Reqs, NEW by \in Admins \cup {Root}, NEW s \in Registered,
         AuthoriseFingerprint(q, by, s)
  PROVE  ApprovalInv'
<1> DEFINE w == [pc |-> "authorising", by |-> by, who |-> s,
                 record |-> [request[s] EXCEPT !.fingerprint = TRUE]]
<1>1. request[s] \in ApprovalRecords
  BY DEF ApprovalInv, ApprovalTypeOK
<1>2. w.record \in ApprovalRecords /\ (Resolved(w.record) => Resolved(request[s]))
  BY <1>1 DEF ApprovalRecords, Resolved
<1>3. w \in Work
  BY <1>2 DEF Work
<1>4. Vouches(by, s)
  BY ApproverVouches DEF AuthoriseFingerprint
<1>5. WorkFits(w)
  BY <1>2, <1>4 DEF WorkFits, VouchedWork, ApprovalInv, RowsVouched
<1> QED
  BY <1>3, <1>5, WorkStep DEF AuthoriseFingerprint

LEMMA ActivateStep ==
  ASSUME ApprovalInv, NEW q \in Reqs, NEW s \in Registered, NEW c \in Codes,
         Activate(q, s, c)
  PROVE  ApprovalInv'
<1> DEFINE w == [pc |-> "activating", who |-> s,
                 record |-> [request[s] EXCEPT !.consumed = TRUE, !.status = "ACTIVE"]]
<1>1. request[s] \in ApprovalRecords
  BY DEF ApprovalInv, ApprovalTypeOK
<1>2. w.record \in ApprovalRecords /\ w.record.fingerprint = request[s].fingerprint
  BY <1>1 DEF ApprovalRecords
<1>3. w \in Work
  BY <1>2 DEF Work
<1>4. request[s].fingerprint /\ issued[s] # {}
  BY DEF Activate, CodeVerifies
<1>5. WorkFits(w)
  BY <1>2, <1>4 DEF WorkFits, VouchedWork, ApprovalInv, RowsVouched
<1> QED
  BY <1>3, <1>5, WorkStep DEF Activate

LEMMA LogInStep ==
  ASSUME ApprovalInv, NEW q \in Reqs, NEW s \in Staff, LogIn(q, s)
  PROVE  ApprovalInv'
<1> DEFINE w == [pc |-> "loggingIn", who |-> s]
<1>1. s \in Registered /\ ident[s].status = "ACTIVE"
  BY DEF LogIn, MayLogIn
<1>2. w \in Work
  BY <1>1 DEF Work
<1>3. WorkFits(w)
  BY <1>1 DEF WorkFits, VouchedWork, ApprovalInv, ActiveIsActivated
<1> QED
  BY <1>2, <1>3, WorkStep DEF LogIn

LEMMA RefuseActivationStep ==
  ASSUME ApprovalInv, NEW q \in Reqs, RefuseActivation(q)
  PROVE  ApprovalInv'
  BY NoWorkFits, WorkStep DEF RefuseActivation, Done

-----------------------------------------------------------------------------
(* Steps that commit. *)

\* What a request in flight holds, by its stage.
LEMMA WorkShape ==
  ASSUME ApprovalTypeOK, NEW q \in Reqs
  PROVE  /\ work[q].pc \in {"issuing", "authorising"} =>
              work[q].by \in Admins \cup {Root} /\ work[q].who \in Registered
                /\ work[q].record \in ApprovalRecords
         /\ Working(q, "activating") =>
              work[q].who \in Registered /\ work[q].record \in ApprovalRecords
         /\ Working(q, "loggingIn") => work[q].who \in Registered
<1>1. work[q] \in Work
  BY DEF ApprovalTypeOK
<1> QED
  BY <1>1 DEF Work, NoWork, Working

\* A request that ends leaves the others as they are.
LEMMA DoneOne ==
  ASSUME ApprovalTypeOK, NEW q \in Reqs, Done(q)
  PROVE  /\ work' \in [Reqs -> Work]
         /\ work'[q] = NoWork
         /\ \A p \in Reqs \ {q} : work'[p] = work[p]
  BY NoWorkFits DEF ApprovalTypeOK, Done

\* Requests in flight keep what the trail vouched for them with.
LEMMA WorkStaysVouched ==
  ASSUME ApprovalInv, trail \subseteq trail', NEW q \in Reqs, Done(q)
  PROVE  WorkVouched'
<1>1. VouchedWork(NoWork)'
  BY DEF VouchedWork, NoWork
<1>2. ASSUME NEW p \in Reqs \ {q}, NEW v, v = work[p] PROVE VouchedWork(v)'
  <2>1. VouchedWork(v)
    BY <1>2 DEF ApprovalInv, WorkVouched
  <2> QED
    BY <1>2, <2>1, VouchersStay, WorkShape DEF VouchedWork, Working, ApprovalInv
<1> QED
  BY <1>1, <1>2, DoneOne DEF WorkVouched, ApprovalInv

LEMMA CommitCodeStep ==
  ASSUME ApprovalInv, NEW q \in Reqs, CommitCode(q)
  PROVE  ApprovalInv'
<1>1. PICK s \in Registered, by \in Admins \cup {Root}, record \in ApprovalRecords :
        /\ s = work[q].who /\ by = work[q].by /\ record = work[q].record
        /\ record.code \in Codes
        /\ Vouches(by, s)
        /\ record.fingerprint => FingerprintVouched(s)
        /\ Resolved(record) => Activated(s)
  BY WorkShape DEF CommitCode, Working, ApprovalInv, WorkVouched, VouchedWork
<1>2. /\ trail \subseteq trail'
      /\ <<"CODE_ISSUED", by, s>> \in trail'
      /\ Done(q)
      /\ UNCHANGED <<ident, sessions, expired, redeemed>>
      /\ request' = [request EXCEPT ![s] = record]
      /\ issued' = [issued EXCEPT ![s] = issued[s] \cup {record.code}]
  BY <1>1 DEF CommitCode, saveApproval
<1>3. ApprovalTypeOK'
  <2>1. issued' \in [Registered -> SUBSET Codes]
    BY <1>1, <1>2 DEF ApprovalInv, ApprovalTypeOK
  <2>2. trail' \subseteq TrailEntries
    BY <1>1 DEF CommitCode, ApprovalInv, ApprovalTypeOK, TrailEntries
  <2> QED
    BY <1>1, <1>2, <2>1, <2>2, DoneOne DEF ApprovalInv, ApprovalTypeOK
<1>4. \A t \in Registered : Activated(t)' = Activated(t)
  BY DEF CommitCode, Activated
<1>5. CascadingTrust'
  BY <1>2, <1>4, VouchersStay DEF ApprovalInv, ApprovalTypeOK, CascadingTrust
<1>6. RowsVouched'
  <2>1. CodeVouched(s)'
    BY <1>1, <1>2, VouchersStay DEF CodeVouched
  <2>2. record.fingerprint => FingerprintVouched(s)'
    BY <1>1, <1>2, VouchersStay
  <2> QED
    BY <1>1, <1>2, <1>4, <2>1, <2>2, VouchersStay DEF ApprovalInv, ApprovalTypeOK, RowsVouched
<1>7. WorkVouched'
  BY <1>2, WorkStaysVouched
<1>8. ActiveIsActivated'
  BY <1>2, <1>4 DEF ApprovalInv, ActiveIsActivated
<1>9. RevokedIsMarked' /\ OneActiveAdmin'
  BY <1>2 DEF CommitCode, ApprovalInv, RevokedIsMarked, OneActiveAdmin
<1>10. AtWorkIsActive'
  BY <1>2, DoneOne DEF ApprovalInv, AtWorkIsActive, Working, NoWork
<1> QED
  BY <1>3, <1>5, <1>6, <1>7, <1>8, <1>9, <1>10 DEF ApprovalInv

LEMMA CommitFingerprintStep ==
  ASSUME ApprovalInv, NEW q \in Reqs, CommitFingerprint(q)
  PROVE  ApprovalInv'
<1>1. PICK s \in Registered, by \in Admins \cup {Root}, record \in ApprovalRecords :
        /\ s = work[q].who /\ by = work[q].by /\ record = work[q].record
        /\ Vouches(by, s)
        /\ Resolved(record) => Activated(s)
  BY WorkShape DEF CommitFingerprint, Working, ApprovalInv, WorkVouched, VouchedWork
<1>2. /\ trail \subseteq trail'
      /\ <<"FINGERPRINT_AUTHORISED", by, s>> \in trail'
      /\ Done(q)
      /\ UNCHANGED <<ident, sessions, expired, issued, redeemed>>
      /\ request' = [request EXCEPT ![s] = record]
  BY <1>1 DEF CommitFingerprint, saveApproval
<1>3. ApprovalTypeOK'
  <2>1. trail' \subseteq TrailEntries
    BY <1>1 DEF CommitFingerprint, ApprovalInv, ApprovalTypeOK, TrailEntries
  <2> QED
    BY <1>1, <1>2, <2>1, DoneOne DEF ApprovalInv, ApprovalTypeOK
<1>4. \A t \in Registered : Activated(t)' = Activated(t)
  BY DEF CommitFingerprint, Activated
<1>5. CascadingTrust'
  BY <1>2, <1>4, VouchersStay DEF ApprovalInv, ApprovalTypeOK, CascadingTrust
<1>6. RowsVouched'
  <2>1. FingerprintVouched(s)'
    BY <1>1, <1>2, VouchersStay DEF FingerprintVouched
  <2> QED
    BY <1>1, <1>2, <1>4, <2>1, VouchersStay DEF ApprovalInv, ApprovalTypeOK, RowsVouched
<1>7. WorkVouched'
  BY <1>2, WorkStaysVouched
<1>8. ActiveIsActivated'
  BY <1>2, <1>4 DEF ApprovalInv, ActiveIsActivated
<1>9. RevokedIsMarked' /\ OneActiveAdmin'
  BY <1>2 DEF CommitFingerprint, ApprovalInv, RevokedIsMarked, OneActiveAdmin
<1>10. AtWorkIsActive'
  BY <1>2, DoneOne DEF ApprovalInv, AtWorkIsActive, Working, NoWork
<1> QED
  BY <1>3, <1>5, <1>6, <1>7, <1>8, <1>9, <1>10 DEF ApprovalInv

LEMMA CommitActivationStep ==
  ASSUME ApprovalInv, NEW q \in Reqs, CommitActivation(q)
  PROVE  ApprovalInv'
<1>1. PICK s \in Registered, record \in ApprovalRecords :
        /\ s = work[q].who /\ record = work[q].record
        /\ CodeVouched(s) /\ FingerprintVouched(s)
  BY WorkShape DEF CommitActivation, Working, ApprovalInv, WorkVouched, VouchedWork
<1>2. /\ trail' = trail \cup {<<"IDENTITY_ACTIVATED", s>>}
      /\ Done(q)
      /\ SlotFreeFor(s)
      /\ UNCHANGED <<sessions, expired, issued>>
      /\ request' = [request EXCEPT ![s] = record]
      /\ ident' = [ident EXCEPT ![s].status = "ACTIVE"]
  BY <1>1 DEF CommitActivation, saveApproval
<1>3. ApprovalTypeOK'
  <2>1. trail' \subseteq TrailEntries
    BY <1>2 DEF ApprovalInv, ApprovalTypeOK, TrailEntries
  <2>2. redeemed' \in [Codes -> {"never", "once", "again"}]
    BY DEF CommitActivation, ApprovalInv, ApprovalTypeOK
  <2>3. ident' \in [Staff -> Identities]
    BY <1>2 DEF ApprovalInv, ApprovalTypeOK, Identities, IdentityStatus
  <2> QED
    BY <1>1, <1>2, <2>1, <2>2, <2>3, DoneOne DEF ApprovalInv, ApprovalTypeOK
<1>4. \A t \in Registered : Activated(t)' <=> Activated(t) \/ t = s
  BY <1>2 DEF Activated
<1>5. CascadingTrust'
  BY <1>1, <1>2, <1>4, VouchersStay DEF ApprovalInv, ApprovalTypeOK, CascadingTrust
<1>6. RowsVouched'
  BY <1>1, <1>2, <1>4, VouchersStay DEF ApprovalInv, ApprovalTypeOK, RowsVouched
<1>7. WorkVouched'
  BY <1>2, WorkStaysVouched
<1>8. ident'[s].status = "ACTIVE" /\ ident'[s].revoked = ident[s].revoked
  BY <1>2 DEF ApprovalInv, ApprovalTypeOK, Identities, Staff
<1>9. \A t \in Staff \ {s} : ident'[t] = ident[t]
  BY <1>2 DEF ApprovalInv, ApprovalTypeOK
<1>10. ActiveIsActivated'
  BY <1>4, <1>9 DEF ApprovalInv, ActiveIsActivated, Staff
<1>11. RevokedIsMarked'
  BY <1>2, <1>8, <1>9 DEF ApprovalInv, RevokedIsMarked, Staff
<1>12. OneActiveAdmin'
  BY <1>2, <1>9 DEF ApprovalInv, OneActiveAdmin, SlotFreeFor, CentreAdmins, Staff, Registered
<1>13. AtWorkIsActive'
  BY <1>2, <1>8, <1>9, DoneOne DEF ApprovalInv, AtWorkIsActive, Working, NoWork, Staff
<1> QED
  BY <1>3, <1>5, <1>6, <1>7, <1>10, <1>11, <1>12, <1>13 DEF ApprovalInv

LEMMA IssueTokenStep ==
  ASSUME ApprovalInv, NEW q \in Reqs, IssueToken(q)
  PROVE  ApprovalInv'
<1>1. PICK s \in Registered : s = work[q].who /\ Activated(s)
  BY WorkShape DEF IssueToken, Working, ApprovalInv, WorkVouched, VouchedWork
<1>2. /\ sessions' = sessions \cup {s}
      /\ Done(q)
      /\ Working(q, "loggingIn")
      /\ UNCHANGED <<ident, request, expired, issued, redeemed, trail>>
  BY <1>1 DEF IssueToken
<1>3. ApprovalTypeOK'
  BY <1>2, DoneOne DEF ApprovalInv, ApprovalTypeOK
<1>4. \A t \in Registered : Activated(t)' = Activated(t)
  BY <1>2 DEF Activated
<1>5. CascadingTrust'
  BY <1>1, <1>2, <1>4, VouchersStay DEF ApprovalInv, ApprovalTypeOK, CascadingTrust
<1>6. RowsVouched'
  BY <1>2, VouchersStay DEF ApprovalInv, RowsVouched
<1>7. WorkVouched'
  BY <1>2, WorkStaysVouched
<1>8. ActiveIsActivated' /\ RevokedIsMarked' /\ OneActiveAdmin'
  BY <1>2, <1>4 DEF ApprovalInv, ActiveIsActivated, RevokedIsMarked, OneActiveAdmin
<1>9. AtWorkIsActive'
  BY <1>1, <1>2, DoneOne DEF ApprovalInv, AtWorkIsActive, Working, NoWork
<1> QED
  BY <1>3, <1>5, <1>6, <1>7, <1>8, <1>9 DEF ApprovalInv

-----------------------------------------------------------------------------
(* Steps outside the slots. *)

\* A step that leaves the trail and the requests in flight alone.
LEMMA WorkStillVouched ==
  ASSUME ApprovalInv, UNCHANGED <<trail, work>>
  PROVE  WorkVouched' /\ (\A t \in Registered : Activated(t)' = Activated(t))
  BY DEF ApprovalInv, WorkVouched, VouchedWork, Activated, Vouches, CodeVouched,
         FingerprintVouched

LEMMA RegisterStep ==
  ASSUME ApprovalInv, NEW s \in Registered, Register(s)
  PROVE  ApprovalInv'
<1>1. /\ ident[s].status = "NONE"
      /\ ident' = [ident EXCEPT ![s].status = "PENDING_APPROVAL"]
      /\ request' = [request EXCEPT ![s] = NewRecord]
      /\ UNCHANGED <<work, sessions, expired, issued, redeemed, trail>>
  BY DEF Register
<1>2. ident'[s].status = "PENDING_APPROVAL" /\ ident'[s].revoked = ident[s].revoked
  BY <1>1 DEF ApprovalInv, ApprovalTypeOK, Identities, Staff
<1>3. \A t \in Staff \ {s} : ident'[t] = ident[t]
  BY <1>1 DEF ApprovalInv, ApprovalTypeOK
<1>4. ApprovalTypeOK'
  <2>1. ident' \in [Staff -> Identities]
    BY <1>1 DEF ApprovalInv, ApprovalTypeOK, Identities, IdentityStatus
  <2>2. NewRecord \in ApprovalRecords
    BY DEF NewRecord, ApprovalRecords
  <2> QED
    BY <1>1, <2>1, <2>2 DEF ApprovalInv, ApprovalTypeOK
<1>5. CascadingTrust'
  BY <1>1, WorkStillVouched, VouchersStay DEF ApprovalInv, ApprovalTypeOK, CascadingTrust
<1>6. RowsVouched'
  BY <1>1, VouchersStay DEF ApprovalInv, ApprovalTypeOK, RowsVouched, Resolved, NewRecord
<1>7. ActiveIsActivated' /\ RevokedIsMarked'
  BY <1>1, <1>2, <1>3, WorkStillVouched DEF ApprovalInv, ActiveIsActivated, RevokedIsMarked, Staff
<1>8. OneActiveAdmin'
  BY <1>2, <1>3 DEF ApprovalInv, OneActiveAdmin, CentreAdmins, Staff, Registered
<1>9. AtWorkIsActive'
  BY <1>1, <1>3 DEF ApprovalInv, AtWorkIsActive, Working, Staff
<1> QED
  BY <1>1, <1>4, <1>5, <1>6, <1>7, <1>8, <1>9, WorkStillVouched DEF ApprovalInv

LEMMA ProvisionStaffStep ==
  ASSUME ApprovalInv, NEW p \in Provisioned, NEW status \in IdentityStatus,
         ProvisionStaff(p, status)
  PROVE  ApprovalInv'
<1>1. /\ status = "ACTIVE" => SlotFreeFor(p)
      /\ ident' = [ident EXCEPT ![p].status = status]
      /\ UNCHANGED <<request, work, sessions, expired, issued, redeemed, trail>>
  BY DEF ProvisionStaff
<1>2. p \notin Registered
  BY ApprovalAssumption
<1>3. ident'[p].status = status /\ (\A t \in Staff \ {p} : ident'[t] = ident[t])
  BY <1>1 DEF ApprovalInv, ApprovalTypeOK, Identities, Staff
<1>4. ApprovalTypeOK'
  <2>1. ident' \in [Staff -> Identities]
    BY <1>1 DEF ApprovalInv, ApprovalTypeOK, Identities
  <2> QED
    BY <1>1, <2>1 DEF ApprovalInv, ApprovalTypeOK
<1>5. CascadingTrust' /\ RowsVouched'
  BY <1>1, WorkStillVouched, VouchersStay
     DEF ApprovalInv, ApprovalTypeOK, CascadingTrust, RowsVouched
<1>6. ActiveIsActivated' /\ RevokedIsMarked' /\ AtWorkIsActive'
  BY <1>1, <1>2, <1>3, WorkStillVouched
     DEF ApprovalInv, ActiveIsActivated, RevokedIsMarked, AtWorkIsActive, Working, Staff
<1>7. OneActiveAdmin'
  BY <1>1, <1>3 DEF ApprovalInv, OneActiveAdmin, SlotFreeFor, CentreAdmins, Staff, Registered
<1> QED
  BY <1>1, <1>4, <1>5, <1>6, <1>7, WorkStillVouched DEF ApprovalInv

LEMMA RevokeStep ==
  ASSUME ApprovalInv, NEW by \in Admins, NEW s \in Staff, Revoke(by, s)
  PROVE  ApprovalInv'
<1>1. /\ ident' = [ident EXCEPT ![s] = [status |-> "REVOKED", revoked |-> TRUE]]
      /\ trail' = trail \cup {<<"IDENTITY_REVOKED", s>>}
      /\ UNCHANGED <<request, work, sessions, expired, issued, redeemed>>
  BY DEF Revoke
<1>2. /\ ident'[s].status = "REVOKED" /\ ident'[s].revoked
      /\ \A t \in Staff \ {s} : ident'[t] = ident[t]
  BY <1>1 DEF ApprovalInv, ApprovalTypeOK
<1>3. ApprovalTypeOK'
  <2>1. ident' \in [Staff -> Identities]
    BY <1>1 DEF ApprovalInv, ApprovalTypeOK, Identities, IdentityStatus
  <2>2. trail' \subseteq TrailEntries
    BY <1>1 DEF ApprovalInv, ApprovalTypeOK, TrailEntries
  <2> QED
    BY <1>1, <2>1, <2>2 DEF ApprovalInv, ApprovalTypeOK
<1>4. \A t \in Registered : Activated(t)' = Activated(t)
  BY <1>1 DEF Activated
<1>5. CascadingTrust' /\ RowsVouched'
  BY <1>1, <1>4, VouchersStay DEF ApprovalInv, ApprovalTypeOK, CascadingTrust, RowsVouched
<1>6. WorkVouched'
  <2>1. ASSUME NEW p \in Reqs, NEW v, v = work[p] PROVE VouchedWork(v)'
    <3>1. VouchedWork(v)
      BY <2>1 DEF ApprovalInv, WorkVouched
    <3> QED
      BY <1>1, <2>1, <3>1, VouchersStay, WorkShape DEF VouchedWork, Working, ApprovalInv
  <2> QED
    BY <1>1, <2>1 DEF WorkVouched
<1>7. ActiveIsActivated' /\ RevokedIsMarked'
  BY <1>1, <1>2, <1>4 DEF ApprovalInv, ActiveIsActivated, RevokedIsMarked, Staff
<1>8. OneActiveAdmin'
  BY <1>2 DEF ApprovalInv, OneActiveAdmin, CentreAdmins, Staff, Registered
<1>9. AtWorkIsActive'
  BY <1>1, <1>2 DEF ApprovalInv, AtWorkIsActive, Working, Staff
<1> QED
  BY <1>3, <1>5, <1>6, <1>7, <1>8, <1>9 DEF ApprovalInv

LEMMA TokenExpiresStep ==
  ASSUME ApprovalInv, NEW s \in Registered, TokenExpires(s)
  PROVE  ApprovalInv'
<1>1. /\ sessions' \subseteq sessions
      /\ UNCHANGED <<ident, request, work, expired, issued, redeemed, trail>>
  BY DEF TokenExpires
<1>2. ApprovalTypeOK'
  BY <1>1 DEF ApprovalInv, ApprovalTypeOK
<1>3. CascadingTrust' /\ RowsVouched'
  BY <1>1, WorkStillVouched, VouchersStay
     DEF ApprovalInv, ApprovalTypeOK, CascadingTrust, RowsVouched
<1>4. ActiveIsActivated' /\ RevokedIsMarked' /\ OneActiveAdmin'
  BY <1>1, WorkStillVouched DEF ApprovalInv, ActiveIsActivated, RevokedIsMarked, OneActiveAdmin
<1>5. AtWorkIsActive'
  BY <1>1 DEF ApprovalInv, AtWorkIsActive, Working
<1> QED
  BY <1>1, <1>2, <1>3, <1>4, <1>5, WorkStillVouched DEF ApprovalInv

LEMMA CodeExpiresStep ==
  ASSUME ApprovalInv, NEW c \in Codes, CodeExpires(c)
  PROVE  ApprovalInv'
<1>1. /\ expired' \subseteq Codes
      /\ UNCHANGED <<ident, request, work, sessions, issued, redeemed, trail>>
  BY DEF CodeExpires, ApprovalInv, ApprovalTypeOK
<1>2. ApprovalTypeOK'
  BY <1>1 DEF ApprovalInv, ApprovalTypeOK
<1>3. CascadingTrust' /\ RowsVouched'
  BY <1>1, WorkStillVouched, VouchersStay
     DEF ApprovalInv, ApprovalTypeOK, CascadingTrust, RowsVouched
<1>4. ActiveIsActivated' /\ RevokedIsMarked' /\ OneActiveAdmin' /\ AtWorkIsActive'
  BY <1>1, WorkStillVouched
     DEF ApprovalInv, ActiveIsActivated, RevokedIsMarked, OneActiveAdmin, AtWorkIsActive, Working
<1> QED
  BY <1>1, <1>2, <1>3, <1>4, WorkStillVouched DEF ApprovalInv

LEMMA RestartStep == ASSUME ApprovalInv, Restart PROVE ApprovalInv'
<1>1. /\ work' = [q \in Reqs |-> NoWork]
      /\ UNCHANGED <<ident, request, sessions, expired, issued, redeemed, trail>>
  BY DEF Restart
<1>2. ApprovalTypeOK'
  BY <1>1, NoWorkFits DEF ApprovalInv, ApprovalTypeOK
<1>3. \A t \in Registered : Activated(t)' = Activated(t)
  BY <1>1 DEF Activated
<1>4. CascadingTrust' /\ RowsVouched'
  BY <1>1, <1>3, VouchersStay DEF ApprovalInv, ApprovalTypeOK, CascadingTrust, RowsVouched
<1>5. WorkVouched'
  BY <1>1 DEF WorkVouched, VouchedWork, NoWork
<1>6. ActiveIsActivated' /\ RevokedIsMarked' /\ OneActiveAdmin' /\ AtWorkIsActive'
  BY <1>1, <1>3 DEF ApprovalInv, ActiveIsActivated, RevokedIsMarked, OneActiveAdmin,
                    AtWorkIsActive, Working, NoWork
<1> QED
  BY <1>2, <1>4, <1>5, <1>6 DEF ApprovalInv

-----------------------------------------------------------------------------
(* The theorems. *)

LEMMA ApprovalInvInit == Init => ApprovalInv
<1> SUFFICES ASSUME Init PROVE ApprovalInv
  OBVIOUS
<1>1. ApprovalTypeOK
  BY NoWorkFits DEF Init, ApprovalTypeOK, Identities, IdentityStatus, NewRecord, ApprovalRecords
<1>2. CascadingTrust
  BY DEF Init, CascadingTrust, Activated
<1>3. RowsVouched
  BY DEF Init, RowsVouched, Resolved, NewRecord
<1>4. WorkVouched
  BY DEF Init, WorkVouched, VouchedWork, NoWork
<1>5. ActiveIsActivated /\ RevokedIsMarked /\ OneActiveAdmin
  BY DEF Init, ActiveIsActivated, RevokedIsMarked, OneActiveAdmin, CentreAdmins, Staff, Registered
<1>6. AtWorkIsActive
  BY DEF Init, AtWorkIsActive, Working, NoWork
<1> QED
  BY <1>1, <1>2, <1>3, <1>4, <1>5, <1>6 DEF ApprovalInv

LEMMA ApprovalInvStep == ApprovalInv /\ [Next]_approvalVars => ApprovalInv'
<1> SUFFICES ASSUME ApprovalInv, [Next]_approvalVars PROVE ApprovalInv'
  OBVIOUS
<1>1. ASSUME NEW q \in Reqs, Handle(q) PROVE ApprovalInv'
  BY <1>1, AuthoriseFingerprintStep, IssueCodeStep, ActivateStep, LogInStep, CommitCodeStep,
     CommitFingerprintStep, CommitActivationStep, RefuseActivationStep, IssueTokenStep
     DEF Handle
<1>2. ASSUME NEW s \in Registered, Register(s) \/ TokenExpires(s) PROVE ApprovalInv'
  BY <1>2, RegisterStep, TokenExpiresStep
<1>3. ASSUME NEW p \in Provisioned, NEW status \in IdentityStatus, ProvisionStaff(p, status)
      PROVE ApprovalInv'
  BY <1>3, ProvisionStaffStep
<1>4. ASSUME NEW c \in Codes, CodeExpires(c) PROVE ApprovalInv'
  BY <1>4, CodeExpiresStep
<1>5. ASSUME NEW by \in Admins, NEW s \in Staff, Revoke(by, s) PROVE ApprovalInv'
  BY <1>5, RevokeStep
<1>6. CASE Restart
  BY <1>6, RestartStep
<1>7. CASE UNCHANGED approvalVars
  <2>1. UNCHANGED <<ident, request, work, sessions, expired, issued, redeemed, trail>>
    BY <1>7 DEF approvalVars
  <2>2. ApprovalTypeOK'
    BY <2>1 DEF ApprovalInv, ApprovalTypeOK
  <2>3. CascadingTrust' /\ RowsVouched'
    BY <2>1, WorkStillVouched, VouchersStay
       DEF ApprovalInv, ApprovalTypeOK, CascadingTrust, RowsVouched
  <2>4. ActiveIsActivated' /\ RevokedIsMarked' /\ OneActiveAdmin' /\ AtWorkIsActive'
    BY <2>1, WorkStillVouched
       DEF ApprovalInv, ActiveIsActivated, RevokedIsMarked, OneActiveAdmin, AtWorkIsActive, Working
  <2> QED
    BY <2>1, <2>2, <2>3, <2>4, WorkStillVouched DEF ApprovalInv
<1> QED
  BY <1>1, <1>2, <1>3, <1>4, <1>5, <1>6, <1>7 DEF Next

\* The invariant of the approval cascade holds for ever.
THEOREM ApprovalInvariant == ApprovalSpec => []ApprovalInv
<1>1. Init => ApprovalInv
  BY ApprovalInvInit
<1>2. ApprovalInv /\ [Next]_approvalVars => ApprovalInv'
  BY ApprovalInvStep
<1> QED
  BY <1>1, <1>2, PTL DEF ApprovalSpec

\* The state of the approval cascade stays well typed.
THEOREM ApprovalTypeCorrect == ApprovalSpec => []ApprovalTypeOK
<1>1. ApprovalInv => ApprovalTypeOK
  BY DEF ApprovalInv
<1> QED
  BY <1>1, ApprovalInvariant, PTL

\* Nobody holds a token, and nobody was activated, whom the tier above did not
\* admit (services/approval.ts canApprove, activate; stale rows included).
THEOREM TrustCascades == ApprovalSpec => []CascadingTrust
<1>1. ApprovalInv => CascadingTrust
  BY DEF ApprovalInv
<1> QED
  BY <1>1, ApprovalInvariant, PTL

\* No code is spent and no request resolved without an activation (http.ts
\* activateHandler; stale rows written back by saveApproval included).
THEOREM CodesAreSpentWell == ApprovalSpec => []SpentCodeActivates
<1>1. ApprovalInv => SpentCodeActivates
  BY DEF ApprovalInv, RowsVouched, SpentCodeActivates
<1> QED
  BY <1>1, ApprovalInvariant, PTL

\* Two Centre Admins, neither revoked, never hold tokens at the same time
\* (001_zuup_core.sql one_active_center_admin; http.ts admin/login).
THEOREM OneAdminAtWorkAlways == ApprovalSpec => []OneAdminAtWork
<1>1. ApprovalInv => OneAdminAtWork
  BY DEF ApprovalInv, AtWorkIsActive, OneActiveAdmin, OneAdminAtWork, CentreAdmins, Registered
<1> QED
  BY <1>1, ApprovalInvariant, PTL

\* A login begins for no identity that was ever revoked (lib/match-all.ts,
\* repo.ts rowToIdentity).
LEMMA LoginStepSparesRevoked ==
  ASSUME ApprovalInv, Next, NEW q \in Reqs, NEW s \in Registered, work[q] = NoWork,
         work'[q] = [pc |-> "loggingIn", who |-> s]
  PROVE  <<"IDENTITY_REVOKED", s>> \notin trail
<1>1. work'[q].pc = "loggingIn" /\ work[q].pc = "idle"
  BY DEF NoWork
<1>2. work # work'
  BY <1>1
<1>3. PICK p \in Reqs : Handle(p)
  BY <1>1, <1>2 DEF Next, Register, TokenExpires, ProvisionStaff, CodeExpires, Revoke, Restart,
                    NoWork
<1>4. ~Done(p)
  BY <1>1, DoneOne DEF NoWork, ApprovalInv
<1>5. PICK t \in Staff : LogIn(p, t)
  <2>1. ASSUME NEW by \in Admins \cup {Root}, NEW t \in Registered,
               AuthoriseFingerprint(p, by, t)
        PROVE  FALSE
    BY <1>1, <2>1 DEF AuthoriseFingerprint, ApprovalInv, ApprovalTypeOK
  <2>2. ASSUME NEW by \in Admins \cup {Root}, NEW t \in Registered, NEW c \in Codes,
               IssueCode(p, by, t, c)
        PROVE  FALSE
    BY <1>1, <2>2 DEF IssueCode, ApprovalInv, ApprovalTypeOK
  <2>3. ASSUME NEW t \in Registered, NEW c \in Codes, Activate(p, t, c) PROVE FALSE
    BY <1>1, <2>3 DEF Activate, ApprovalInv, ApprovalTypeOK
  <2> QED
    BY <1>3, <1>4, <2>1, <2>2, <2>3
       DEF Handle, CommitCode, CommitFingerprint, CommitActivation, RefuseActivation, IssueToken
<1>6. t = s
  BY <1>1, <1>5 DEF LogIn, ApprovalInv, ApprovalTypeOK
<1> QED
  BY <1>5, <1>6 DEF LogIn, MayLogIn, ApprovalInv, RevokedIsMarked

\* A revoked identity never passes a login again.
THEOREM RevokedStaysOut == ApprovalSpec => RevokedNeverLogsIn
<1>1. ApprovalInv /\ [Next]_approvalVars =>
        [\A q \in Reqs, s \in Registered :
           (work[q] = NoWork /\ work'[q] = [pc |-> "loggingIn", who |-> s])
             => <<"IDENTITY_REVOKED", s>> \notin trail]_work
  BY LoginStepSparesRevoked DEF approvalVars
<1> QED
  BY <1>1, ApprovalInvariant, PTL DEF ApprovalSpec, RevokedNeverLogsIn

=============================================================================
