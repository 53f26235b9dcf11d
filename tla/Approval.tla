------------------------------ MODULE Approval ------------------------------
(***************************************************************************)
(* Who may work at one centre: registration, the approval cascade with its *)
(* one-time codes, activation, staff login and revocation, on the Centre   *)
(* Edge (private/edge-server: http.ts, services/approval.ts, repo.ts), and *)
(* the identities HQ provisions (services/provisioning.ts).                *)
(*                                                                         *)
(* An approval handler reads the whole approval_requests row from the pool,*)
(* computes the new row from it and writes all of it back in a transaction *)
(* of its own: a slot of Reqs holds one such request in flight, with the   *)
(* row it is going to write.  Handlers that only answer are no steps.      *)
(*                                                                         *)
(* A code stands for its Argon2 hash and carries its TTL: a code is either *)
(* still valid or expired.  A code that was never issued is not guessed,   *)
(* and faces, fingers and attestation only decide whether a login or an    *)
(* activation is attempted at all: one that fails changes nothing.         *)
(*                                                                         *)
(* A definition marked "Variant" is no part of the specification: it is    *)
(* the next definition with a plausible mistake, which a property refutes. *)
(***************************************************************************)
EXTENDS Naturals

CONSTANTS
    Admins,         \* Centre Admins who register at the Edge
    Invigilators,   \* invigilators who register at the Edge
    Provisioned,    \* Centre Admins pushed by HQ: no station, no bound IP
    Root,           \* the System Admin, provisioned at the start
    Codes,          \* one-time codes (bounds how many are issued)
    Reqs,           \* slots for requests in flight (bounds concurrency)
    NoCode

Registered == Admins \cup Invigilators

CentreAdmins == Admins \cup Provisioned

Staff == Registered \cup Provisioned

ASSUME ApprovalAssumption ==
    /\ Admins \cap Invigilators = {}
    /\ Registered \cap Provisioned = {}
    /\ Root \notin Staff
    /\ NoCode \notin Codes

VARIABLES
    ident,      \* staff_identities: status, and whether revoked_at is set
    request,    \* the approval_requests row of each registered identity
    work,       \* requests in flight
    sessions,   \* identities that hold an unexpired token
    expired,    \* codes whose TTL has passed
    issued,     \* codes committed for each request
    redeemed,   \* how often each code has activated an identity
    trail       \* granted entries of secure_audit_log

approvalVars == <<ident, request, work, sessions, expired, issued, redeemed, trail>>

IdentityStatus == {"NONE", "PENDING_APPROVAL", "ACTIVE", "REVOKED"}

Identities == [status : IdentityStatus, revoked : BOOLEAN]

ApprovalRecords ==
    [code : Codes \cup {NoCode}, consumed : BOOLEAN, fingerprint : BOOLEAN,
     status : {"PENDING_APPROVAL", "ACTIVE"}]

NewRecord ==
    [code |-> NoCode, consumed |-> FALSE, fingerprint |-> FALSE,
     status |-> "PENDING_APPROVAL"]

NoWork == [pc |-> "idle"]

Work ==
    {NoWork}
      \cup [pc : {"issuing", "authorising"}, by : Admins \cup {Root},
            who : Registered, record : ApprovalRecords]
      \cup [pc : {"activating"}, who : Registered, record : ApprovalRecords]
      \cup [pc : {"loggingIn"}, who : Registered]

TrailEntries ==
    ({"CODE_ISSUED", "FINGERPRINT_AUTHORISED"} \X (Admins \cup {Root}) \X Registered)
      \cup ({"IDENTITY_ACTIVATED"} \X Registered)
      \cup ({"IDENTITY_REVOKED"} \X Staff)

ApprovalTypeOK ==
    /\ ident \in [Staff -> Identities]
    /\ request \in [Registered -> ApprovalRecords]
    /\ work \in [Reqs -> Work]
    /\ sessions \subseteq Registered
    /\ expired \subseteq Codes
    /\ issued \in [Registered -> SUBSET Codes]
    /\ redeemed \in [Codes -> {"never", "once", "again"}]
    /\ trail \subseteq TrailEntries

Working(q, stage) == work[q].pc = stage

Done(q) == work' = [work EXCEPT ![q] = NoWork]

FreshCode(c) ==
    /\ \A s \in Registered : c \notin issued[s]
    /\ \A q \in Reqs : Working(q, "issuing") => work[q].record.code # c

-----------------------------------------------------------------------------
(* Registration and provisioning. *)

Register(s) ==
    /\ ident[s].status = "NONE"
    /\ ident' = [ident EXCEPT ![s].status = "PENDING_APPROVAL"]
    /\ request' = [request EXCEPT ![s] = NewRecord]
    /\ UNCHANGED <<work, sessions, expired, issued, redeemed, trail>>

\* Variant: no unique index.
SlotAlwaysFree(s) == TRUE

\* The partial unique index one_active_center_admin (INV-7).
SlotFreeFor(s) ==
    s \in CentreAdmins =>
        \A a \in CentreAdmins \ {s} : ident[a].status # "ACTIVE"

\* An upsert of the status HQ holds; revoked_at stays as it is.
ProvisionStaff(p, status) ==
    /\ status = "ACTIVE" => SlotFreeFor(p)
    /\ ident' = [ident EXCEPT ![p].status = status]
    /\ UNCHANGED <<request, work, sessions, expired, issued, redeemed, trail>>

-----------------------------------------------------------------------------
(* The cascade: whoever approves shows a token; the row is read before the  *)
(* transaction that writes it back.                                        *)

HoldsToken(by) == by = Root \/ by \in sessions

\* Variant: any approver may approve any kind of request.
canApproveAnyKind(by, s) == by \in Admins \cup {Root}

\* Tier 0 approves Centre Admins, a Centre Admin approves invigilators.
canApprove(by, s) == IF s \in Admins THEN by = Root ELSE by \in Admins

Approves(by, s) ==
    /\ HoldsToken(by)
    /\ canApprove(by, s)
    /\ ident[s].status # "NONE"

\* issueCode asks for no status: a resolved request may be issued a new code.
IssueCode(q, by, s, c) ==
    /\ Working(q, "idle")
    /\ Approves(by, s)
    /\ FreshCode(c)
    /\ work' = [work EXCEPT ![q] =
                  [pc |-> "issuing", by |-> by, who |-> s,
                   record |-> [request[s] EXCEPT !.code = c, !.consumed = FALSE]]]
    /\ UNCHANGED <<ident, request, sessions, expired, issued, redeemed, trail>>

\* Every column of the record is written, whatever the row is by now.
saveApproval(s, record) == request' = [request EXCEPT ![s] = record]

CommitCode(q) ==
    LET s == work[q].who IN
    /\ Working(q, "issuing")
    /\ saveApproval(s, work[q].record)
    /\ issued' = [issued EXCEPT ![s] = @ \cup {work[q].record.code}]
    /\ trail' = trail \cup {<<"CODE_ISSUED", work[q].by, s>>}
    /\ Done(q)
    /\ UNCHANGED <<ident, sessions, expired, redeemed>>

AuthoriseFingerprint(q, by, s) ==
    /\ Working(q, "idle")
    /\ Approves(by, s)
    /\ work' = [work EXCEPT ![q] =
                  [pc |-> "authorising", by |-> by, who |-> s,
                   record |-> [request[s] EXCEPT !.fingerprint = TRUE]]]
    /\ UNCHANGED <<ident, request, sessions, expired, issued, redeemed, trail>>

CommitFingerprint(q) ==
    LET s == work[q].who IN
    /\ Working(q, "authorising")
    /\ saveApproval(s, work[q].record)
    /\ trail' = trail \cup {<<"FINGERPRINT_AUTHORISED", work[q].by, s>>}
    /\ Done(q)
    /\ UNCHANGED <<ident, sessions, expired, issued, redeemed>>

CodeExpires(c) ==
    /\ \E s \in Registered : c \in issued[s]
    /\ expired' = expired \cup {c}
    /\ UNCHANGED <<ident, request, work, sessions, issued, redeemed, trail>>

-----------------------------------------------------------------------------
(* Activation, with any code that was ever issued to the applicant. *)

\* What activate demands of the record.
CodeVerifies(record, c) ==
    record.code = c /\ ~record.consumed /\ c \notin expired /\ record.fingerprint

Activate(q, s, c) ==
    /\ Working(q, "idle")
    /\ c \in issued[s]
    /\ CodeVerifies(request[s], c)
    /\ work' = [work EXCEPT ![q] =
                  [pc |-> "activating", who |-> s,
                   record |-> [request[s] EXCEPT !.consumed = TRUE, !.status = "ACTIVE"]]]
    /\ UNCHANGED <<ident, request, sessions, expired, issued, redeemed, trail>>

\* saveApproval and activateIdentity in one transaction; revoked_at stays.
CommitActivation(q) ==
    LET s == work[q].who
        c == work[q].record.code IN
    /\ Working(q, "activating")
    /\ SlotFreeFor(s)
    /\ saveApproval(s, work[q].record)
    /\ ident' = [ident EXCEPT ![s].status = "ACTIVE"]
    /\ redeemed' = [redeemed EXCEPT ![c] = IF @ = "never" THEN "once" ELSE "again"]
    /\ trail' = trail \cup {<<"IDENTITY_ACTIVATED", s>>}
    /\ Done(q)
    /\ UNCHANGED <<sessions, expired, issued>>

\* Variant: saveApproval has committed before the index refuses.
RefuseActivationHalfDone(q) ==
    /\ Working(q, "activating")
    /\ ~SlotFreeFor(work[q].who)
    /\ saveApproval(work[q].who, work[q].record)
    /\ Done(q)
    /\ UNCHANGED <<ident, sessions, expired, issued, redeemed, trail>>

\* 409 DUPLICATE_ACTIVE_CENTER_ADMIN: the transaction rolls back.
RefuseActivation(q) ==
    /\ Working(q, "activating")
    /\ ~SlotFreeFor(work[q].who)
    /\ Done(q)
    /\ UNCHANGED <<ident, request, sessions, expired, issued, redeemed, trail>>

-----------------------------------------------------------------------------
(* Login and revocation. *)

\* Variant: revoked_at is not looked at.
MayLogInByStatus(s) == s \in Registered /\ ident[s].status = "ACTIVE"

\* Match-all: a station and an IP of its own, ACTIVE, and never revoked.
MayLogIn(s) == s \in Registered /\ ident[s].status = "ACTIVE" /\ ~ident[s].revoked

\* The identity is read, the audit entry committed, then the token issued.
LogIn(q, s) ==
    /\ Working(q, "idle")
    /\ MayLogIn(s)
    /\ work' = [work EXCEPT ![q] = [pc |-> "loggingIn", who |-> s]]
    /\ UNCHANGED <<ident, request, sessions, expired, issued, redeemed, trail>>

IssueToken(q) ==
    /\ Working(q, "loggingIn")
    /\ sessions' = sessions \cup {work[q].who}
    /\ Done(q)
    /\ UNCHANGED <<ident, request, expired, issued, redeemed, trail>>

TokenExpires(s) ==
    /\ s \in sessions
    /\ sessions' = sessions \ {s}
    /\ UNCHANGED <<ident, request, work, expired, issued, redeemed, trail>>

\* A Centre Admin revokes anyone of the centre; the token stays valid.
Revoke(by, s) ==
    /\ by \in sessions \cap Admins
    /\ ident[s].status # "NONE"
    /\ ident' = [ident EXCEPT ![s] = [status |-> "REVOKED", revoked |-> TRUE]]
    /\ trail' = trail \cup {<<"IDENTITY_REVOKED", s>>}
    /\ UNCHANGED <<request, work, sessions, expired, issued, redeemed>>

\* Requests in flight are lost; tokens need no memory and survive.
Restart ==
    /\ work' = [q \in Reqs |-> NoWork]
    /\ UNCHANGED <<ident, request, sessions, expired, issued, redeemed, trail>>

-----------------------------------------------------------------------------

Init ==
    /\ ident = [s \in Staff |-> [status |-> "NONE", revoked |-> FALSE]]
    /\ request = [s \in Registered |-> NewRecord]
    /\ work = [q \in Reqs |-> NoWork]
    /\ sessions = {}
    /\ expired = {}
    /\ issued = [s \in Registered |-> {}]
    /\ redeemed = [c \in Codes |-> "never"]
    /\ trail = {}

Handle(q) ==
    \/ \E by \in Admins \cup {Root}, s \in Registered :
         \/ AuthoriseFingerprint(q, by, s)
         \/ \E c \in Codes : IssueCode(q, by, s, c)
    \/ \E s \in Registered, c \in Codes : Activate(q, s, c)
    \/ \E s \in Staff : LogIn(q, s)
    \/ CommitCode(q) \/ CommitFingerprint(q)
    \/ CommitActivation(q) \/ RefuseActivation(q)
    \/ IssueToken(q)

Next ==
    \/ \E q \in Reqs : Handle(q)
    \/ \E s \in Registered : Register(s) \/ TokenExpires(s)
    \/ \E p \in Provisioned, status \in IdentityStatus \ {"NONE"} : ProvisionStaff(p, status)
    \/ \E c \in Codes : CodeExpires(c)
    \/ \E by \in Admins, s \in Staff : Revoke(by, s)
    \/ Restart

ApprovalSpec == Init /\ [][Next]_approvalVars

-----------------------------------------------------------------------------
(* Properties. *)

Activated(s) == <<"IDENTITY_ACTIVATED", s>> \in trail

\* by may vouch for s: a tier above it, and itself admitted.
Vouches(by, s) == IF s \in Admins THEN by = Root ELSE by \in Admins /\ Activated(by)

CodeVouched(s) ==
    \E by \in Admins \cup {Root} : Vouches(by, s) /\ <<"CODE_ISSUED", by, s>> \in trail

FingerprintVouched(s) ==
    \E by \in Admins \cup {Root} :
        Vouches(by, s) /\ <<"FINGERPRINT_AUTHORISED", by, s>> \in trail

\* The cascading root of trust of services/approval.ts, "no tier admits itself":
\* however handlers interleave, whoever holds a token was activated, and whoever
\* was activated had a code and a fingerprint authorised by the tier above it,
\* up to the System Admin.
CascadingTrust ==
    /\ \A s \in sessions : Activated(s)
    /\ \A s \in Registered : Activated(s) => CodeVouched(s) /\ FingerprintVouched(s)

\* A revoked identity never passes a login again, not even after it has been
\* activated a second time (lib/match-all.ts "AND not identity.revoked").
RevokedNeverLogsIn ==
    [][\A q \in Reqs, s \in Registered :
         (work[q] = NoWork /\ work'[q] = [pc |-> "loggingIn", who |-> s])
           => <<"IDENTITY_REVOKED", s>> \notin trail]_work

\* INV-7 as it is felt: of the Centre Admins who were not revoked one at most
\* holds a token, whatever logins and activations overlap.
OneAdminAtWork ==
    \A a, b \in sessions \cap Admins :
        \/ a = b
        \/ <<"IDENTITY_REVOKED", a>> \in trail
        \/ <<"IDENTITY_REVOKED", b>> \in trail

\* INV-8, approval.ts: "a code verifies at most once".
CodeUsedOnce == \A c \in Codes : redeemed[c] # "again"

\* A code is spent, and a request resolved, only by an activation: not by one
\* that the slot of the Centre Admin refused, nor by a row that was read before
\* and is written back (http.ts activateHandler, one transaction; repo.ts
\* saveApproval).
Resolved(record) == record.consumed \/ record.status = "ACTIVE"

SpentCodeActivates == \A s \in Registered : Resolved(request[s]) => Activated(s)

-----------------------------------------------------------------------------
(* The inductive invariant: a row read, stale or not, and a row to be written *)
(* carry no more than the trail vouches for.                                  *)

\* The fingerprint flag is set in a row only by, or after, an authorisation.
RowsVouched ==
    \A s \in Registered :
        /\ issued[s] # {} => CodeVouched(s)
        /\ request[s].fingerprint => FingerprintVouched(s)
        /\ Resolved(request[s]) => Activated(s)

VouchedWork(w) ==
    /\ w.pc = "issuing" => w.record.code \in Codes
    /\ w.pc \in {"issuing", "authorising"} => Vouches(w.by, w.who)
    /\ w.pc \in {"issuing", "authorising"} /\ Resolved(w.record) => Activated(w.who)
    /\ w.pc \in {"issuing", "activating"} /\ w.record.fingerprint => FingerprintVouched(w.who)
    /\ w.pc = "activating" => CodeVouched(w.who) /\ w.record.fingerprint
    /\ w.pc = "loggingIn" => Activated(w.who)

WorkVouched == \A q \in Reqs : VouchedWork(work[q])

ActiveIsActivated ==
    \A s \in Registered : ident[s].status = "ACTIVE" => Activated(s)

\* revoked_at is never cleared.
RevokedIsMarked ==
    \A s \in Registered : <<"IDENTITY_REVOKED", s>> \in trail => ident[s].revoked

OneActiveAdmin ==
    \A a, b \in CentreAdmins : ident[a].status = "ACTIVE" /\ ident[b].status = "ACTIVE" => a = b

\* Only a revocation takes ACTIVE away from who has logged in.
AtWorkIsActive ==
    \A s \in Registered :
        s \in sessions \/ (\E q \in Reqs : Working(q, "loggingIn") /\ work[q].who = s) =>
            ident[s].status = "ACTIVE" \/ <<"IDENTITY_REVOKED", s>> \in trail

ApprovalInv ==
    /\ ApprovalTypeOK
    /\ CascadingTrust
    /\ RowsVouched
    /\ WorkVouched
    /\ ActiveIsActivated
    /\ RevokedIsMarked
    /\ OneActiveAdmin
    /\ AtWorkIsActive

=============================================================================
