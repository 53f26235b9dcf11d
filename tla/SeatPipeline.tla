---------------------------- MODULE SeatPipeline ----------------------------
(***************************************************************************)
(* One exam at one centre, on the Centre Edge (private/edge-server):       *)
(* provisioning of the roster, check-in, random seat assignment, roll+DOB  *)
(* login, and the sealed submission that is chained to the centre's answer *)
(* ledger (http.ts sections 12, 9.5, 9.6, 9.7 and 11; repo.ts;             *)
(* assignment-service.ts; provisioning.ts).                                *)
(*                                                                         *)
(* Handlers run concurrently on one Node process over a connection pool:   *)
(* what a handler reads from the pool, before it opens its transaction,    *)
(* may be stale when the transaction runs.  A slot of Reqs holds one       *)
(* request in flight with what it has read so far; a handler is one action *)
(* per stretch of work between two points at which another may run.        *)
(* Transactions are READ COMMITTED (db.ts), their writes appear at COMMIT. *)
(*                                                                         *)
(* Refusals (401, 409, 429) that only answer the caller are not steps.  Of *)
(* the audit log the entries of granted steps are kept, as the set trail;  *)
(* how entries are chained is the subject of module AuditLog.              *)
(*                                                                         *)
(* A definition marked "Variant" is no part of the specification: it is    *)
(* the next definition with a plausible mistake, which a property refutes. *)
(***************************************************************************)
EXTENDS MerkleChain, FiniteSets

CONSTANTS
    Terminals,   \* candidate seats of the centre
    Rolls,       \* roll numbers a person may type or an invigilator may assign
    Roster,      \* the rolls enrolled for this exam
    HQStatuses,  \* enrollment statuses that HQ's bundles carry
    Envelopes,   \* sealed envelopes the seats may produce (bounds submissions)
    Reqs,        \* slots for requests in flight (bounds concurrency)
    NoTerminal, NoRoll, NoEnvelope

EnrollStatuses == {"ENROLLED", "PRESENT", "ABSENT", "DISQUALIFIED"}

ASSUME SeatAssumption ==
    /\ Roster \subseteq Rolls
    /\ HQStatuses \subseteq EnrollStatuses
    /\ NoTerminal \notin Terminals
    /\ NoRoll \notin Rolls
    /\ NoEnvelope \notin Envelopes

VARIABLES
    enroll,      \* enrollments.status of each roll of the roster
    term,        \* terminals.state
    health,      \* terminals.health
    binding,     \* the seat_bindings row of each terminal
    ledger,      \* answer_ledger rows of this centre and exam, by leaf_index
    trail,       \* granted entries of secure_audit_log
    attempts,    \* failed candidate logins per terminal, in process memory
    req,         \* requests in flight
    receipts     \* receipts that reached a candidate

dbVars == <<enroll, term, health, binding, ledger, trail>>
seatVars == <<enroll, term, health, binding, ledger, trail, attempts, req, receipts>>

AttemptLimit == 3

SeatStates == {"AVAILABLE", "ASSIGNED", "ATTENDED", "IN_EXAM", "SUBMITTED"}

Stages == {"idle", "assigning", "loginBegun", "loginRead", "loginGranted",
           "submitRead", "submitTail", "submitDone"}

Idle == [pc |-> "idle", seat |-> NoTerminal, roll |-> NoRoll, used |-> 0,
         ok |-> FALSE, leaf |-> NoEnvelope, index |-> 0, prevRoot |-> GENESIS]

NoBinding == [roll |-> NoRoll, consumed |-> FALSE]

TrailEntries ==
    ({"CANDIDATE_CHECKED_IN"} \X Rolls)
      \cup ({"SEAT_ASSIGNED", "CANDIDATE_ATTENDED"} \X Terminals \X Rolls)
      \cup ({"ANSWER_SEALED"} \X Terminals \X Envelopes)

Requests ==
    [pc : Stages, seat : Terminals \cup {NoTerminal}, roll : Rolls \cup {NoRoll},
     used : 0..AttemptLimit, ok : BOOLEAN, leaf : Envelopes \cup {NoEnvelope},
     index : Nat, prevRoot : Seq(Envelopes)]

LedgerRows ==
    [seat : Terminals, index : Nat, leaf : Envelopes,
     prevRoot : Seq(Envelopes), root : Seq(Envelopes)]

Receipts ==
    [index : Nat, leaf : Envelopes, prevRoot : Seq(Envelopes), root : Seq(Envelopes)]

SeatTypeOK ==
    /\ enroll \in [Roster -> EnrollStatuses]
    /\ term \in [Terminals -> SeatStates]
    /\ health \in [Terminals -> {"OK", "FAULT"}]
    /\ binding \in [Terminals -> [roll : Rolls \cup {NoRoll}, consumed : BOOLEAN]]
    /\ ledger \in Seq(LedgerRows)
    /\ trail \subseteq TrailEntries
    /\ attempts \in [Terminals -> 0..AttemptLimit]
    /\ req \in [Reqs -> Requests]
    /\ receipts \subseteq Receipts

-----------------------------------------------------------------------------

At(q, stage) == req[q].pc = stage

Enter(q, r) == req' = [req EXCEPT ![q] = r]

Finish(q) == Enter(q, Idle)

\* terminals rows held FOR UPDATE by an assignment that has not committed.
RowLocked(t) == \E q \in Reqs : At(q, "assigning") /\ req[q].seat = t

\* Variant: a shared lock at the start, upgraded to read the tail.
ChainLockFreeUpgrade(q) ==
    \A p \in Reqs \ {q} : ~At(p, "submitTail") /\ ~At(p, "submitRead")

\* pg_advisory_xact_lock of the (centre, exam) chain: held until COMMIT.
ChainLockFree(q) == \A p \in Reqs \ {q} : ~At(p, "submitTail")

\* Every seal draws a fresh data key, so no two envelopes hash alike.
Fresh(e) ==
    /\ \A i \in 1..Len(ledger) : ledger[i].leaf # e
    /\ \A q \in Reqs : req[q].leaf # e

-----------------------------------------------------------------------------
(* Provisioning (HQ), check-in and seat assignment (invigilator). *)

\* A bundle gives the status of some rolls; the upsert overwrites what is there.
Provision(bundle) ==
    /\ enroll' = [r \in Roster |-> IF r \in DOMAIN bundle THEN bundle[r] ELSE enroll[r]]
    /\ UNCHANGED <<term, health, binding, ledger, trail, attempts, req, receipts>>

\* An UPDATE whatever the earlier status, in its own transaction.
CheckIn(roll) ==
    /\ roll \in Roster
    /\ enroll' = [enroll EXCEPT ![roll] = "PRESENT"]
    /\ trail' = trail \cup {<<"CANDIDATE_CHECKED_IN", roll>>}
    /\ UNCHANGED <<term, health, binding, ledger, attempts, req, receipts>>

\* Variant: SELECT without FOR UPDATE SKIP LOCKED.
FreeSeatNoLock(t) == term[t] = "AVAILABLE" /\ health[t] = "OK"

\* The seats SELECT ... FOR UPDATE SKIP LOCKED may return.
FreeSeat(t) == term[t] = "AVAILABLE" /\ health[t] = "OK" /\ ~RowLocked(t)

AssignSeat(q, roll, t) ==
    /\ At(q, "idle")
    /\ FreeSeat(t)
    /\ Enter(q, [Idle EXCEPT !.pc = "assigning", !.seat = t, !.roll = roll])
    /\ UNCHANGED <<dbVars, attempts, receipts>>

CommitAssign(q) ==
    LET t == req[q].seat IN
    /\ At(q, "assigning")
    /\ term' = [term EXCEPT ![t] = "ASSIGNED"]
    /\ binding' = [binding EXCEPT ![t] = [roll |-> req[q].roll, consumed |-> FALSE]]
    /\ trail' = trail \cup {<<"SEAT_ASSIGNED", t, req[q].roll>>}
    /\ Finish(q)
    /\ UNCHANGED <<enroll, health, ledger, attempts, receipts>>

\* The heartbeat's UPDATE waits for the row lock of an assignment.
Heartbeat(t, h) ==
    /\ ~RowLocked(t)
    /\ h # health[t]
    /\ health' = [health EXCEPT ![t] = h]
    /\ UNCHANGED <<enroll, term, binding, ledger, trail, attempts, req, receipts>>

-----------------------------------------------------------------------------
(* Candidate login at a seat. *)

\* Variant: any unconsumed binding will do.
LoginVerdictAnyRoll(t, roll, dobMatches) ==
    binding[t].roll # NoRoll /\ ~binding[t].consumed /\ roll \in Roster /\ dobMatches

\* The verdict on roll and date of birth: the roll must be the one bound to
\* this seat by an unconsumed binding, and be on the roster of its exam.
LoginVerdict(t, roll, dobMatches) ==
    binding[t] = [roll |-> roll, consumed |-> FALSE] /\ roll \in Roster /\ dobMatches

MayTryLogin(t) == attempts[t] < AttemptLimit

\* The failure counter is read before the first await ...
CandidateLogin(q, t, roll) ==
    /\ At(q, "idle")
    /\ MayTryLogin(t)
    /\ Enter(q, [Idle EXCEPT !.pc = "loginBegun", !.seat = t, !.roll = roll,
                             !.used = attempts[t]])
    /\ UNCHANGED <<dbVars, attempts, receipts>>

\* ... the binding and the candidate after it.
ReadBinding(q, dobMatches) ==
    /\ At(q, "loginBegun")
    /\ Enter(q, [req[q] EXCEPT !.pc = "loginRead",
                               !.ok = LoginVerdict(req[q].seat, req[q].roll, dobMatches)])
    /\ UNCHANGED <<dbVars, attempts, receipts>>

\* The counter is set from the value read at the start of the request.
LoginDenied(q) ==
    /\ At(q, "loginRead")
    /\ ~req[q].ok
    /\ attempts' = [attempts EXCEPT ![req[q].seat] = req[q].used + 1]
    /\ Finish(q)
    /\ UNCHANGED <<dbVars, receipts>>

LoginGranted(q) ==
    /\ At(q, "loginRead")
    /\ req[q].ok
    /\ attempts' = [attempts EXCEPT ![req[q].seat] = 0]
    /\ Enter(q, [req[q] EXCEPT !.pc = "loginGranted", !.used = 0])
    /\ UNCHANGED <<dbVars, receipts>>

\* consumeBindingAttend: both UPDATEs, the second whatever the state is now.
CommitAttend(q) ==
    LET t == req[q].seat IN
    /\ At(q, "loginGranted")
    /\ ~RowLocked(t)
    /\ binding' = [binding EXCEPT ![t].consumed = TRUE]
    /\ term' = [term EXCEPT ![t] = "ATTENDED"]
    /\ trail' = trail \cup {<<"CANDIDATE_ATTENDED", t, req[q].roll>>}
    /\ Finish(q)
    /\ UNCHANGED <<enroll, health, ledger, attempts, receipts>>

-----------------------------------------------------------------------------
(* Answer submission. *)

\* Variant: only a bound seat is asked for, not an attended one.
SeatMaySubmitUnattended(t) == term[t] # "SUBMITTED" /\ binding[t].roll # NoRoll

SeatMaySubmit(t) == term[t] \in {"ATTENDED", "IN_EXAM"} /\ binding[t].roll # NoRoll

\* terminalForSubmit and getLatestBinding, outside the transaction.
SubmitAnswer(q, t, e) ==
    /\ At(q, "idle")
    /\ SeatMaySubmit(t)
    /\ Fresh(e)
    /\ Enter(q, [Idle EXCEPT !.pc = "submitRead", !.seat = t, !.leaf = e])
    /\ UNCHANGED <<dbVars, attempts, receipts>>

\* Variant: the wrong column of the tail row, its prev_root.
ChainTailPrev ==
    [index |-> Len(ledger),
     prevRoot |-> IF ledger = <<>> THEN GENESIS ELSE ledger[Len(ledger)].prevRoot]

\* Variant: leaf_index starts at one.
ChainTailFromOne == [index |-> Len(ledger) + 1, prevRoot |-> tailRoot(ledger)]

\* What the tail SELECT says of the last row by leaf_index.
ChainTail == [index |-> Len(ledger), prevRoot |-> tailRoot(ledger)]

LockChainTail(q) ==
    /\ At(q, "submitRead")
    /\ ChainLockFree(q)
    /\ Enter(q, [req[q] EXCEPT !.pc = "submitTail", !.index = ChainTail.index,
                               !.prevRoot = ChainTail.prevRoot])
    /\ UNCHANGED <<dbVars, attempts, receipts>>

NewRow(q) ==
    [seat |-> req[q].seat, index |-> req[q].index, leaf |-> req[q].leaf,
     prevRoot |-> req[q].prevRoot, root |-> nextRoot(req[q].prevRoot, req[q].leaf)]

\* appendAnswer, setTerminalState and the audit entry commit together.  UNIQUE
\* (center_id, exam_id, leaf_index) admits the insert only if the index is new;
\* TailIsCurrent says that it always is, so the refusal has no action.
CommitAnswer(q) ==
    LET t == req[q].seat IN
    /\ At(q, "submitTail")
    /\ ~RowLocked(t)
    /\ \A i \in 1..Len(ledger) : ledger[i].index # req[q].index
    /\ ledger' = Append(ledger, NewRow(q))
    /\ term' = [term EXCEPT ![t] = "SUBMITTED"]
    /\ trail' = trail \cup {<<"ANSWER_SEALED", t, req[q].leaf>>}
    /\ Enter(q, [req[q] EXCEPT !.pc = "submitDone"])
    /\ UNCHANGED <<enroll, health, binding, attempts, receipts>>

Receipt(row) ==
    [index |-> row.index, leaf |-> row.leaf, prevRoot |-> row.prevRoot, root |-> row.root]

\* Variant: the receipt is sent before the transaction has committed.
DeliverReceiptEarly(q) ==
    /\ At(q, "submitDone") \/ At(q, "submitTail")
    /\ receipts' = receipts \cup {Receipt(NewRow(q))}
    /\ Finish(q)
    /\ UNCHANGED <<dbVars, attempts>>

\* The response to the submission reaches the seat.
DeliverReceipt(q) ==
    /\ At(q, "submitDone")
    /\ receipts' = receipts \cup {Receipt(NewRow(q))}
    /\ Finish(q)
    /\ UNCHANGED <<dbVars, attempts>>

\* GET /api/answer/receipt/:leaf, vouched for only if its witness verifies.
RefetchReceipt(i) ==
    /\ i \in 1..Len(ledger)
    /\ verifyInclusion(ledger[i])
    /\ receipts' = receipts \cup {Receipt(ledger[i])}
    /\ UNCHANGED <<dbVars, attempts, req>>

-----------------------------------------------------------------------------

\* The process stops and starts again: open transactions roll back, memory
\* and responses not yet sent are lost.
Restart ==
    /\ req' = [q \in Reqs |-> Idle]
    /\ attempts' = [t \in Terminals |-> 0]
    /\ UNCHANGED <<dbVars, receipts>>

Init ==
    /\ enroll = [r \in Roster |-> "ENROLLED"]
    /\ term = [t \in Terminals |-> "AVAILABLE"]
    /\ health = [t \in Terminals |-> "OK"]
    /\ binding = [t \in Terminals |-> NoBinding]
    /\ ledger = <<>>
    /\ trail = {}
    /\ attempts = [t \in Terminals |-> 0]
    /\ req = [q \in Reqs |-> Idle]
    /\ receipts = {}

\* The part of a request that the server runs on its own once it has begun.
Serve(q) ==
    \/ CommitAssign(q)
    \/ \E d \in BOOLEAN : ReadBinding(q, d)
    \/ LoginDenied(q)
    \/ LoginGranted(q)
    \/ CommitAttend(q)
    \/ LockChainTail(q)
    \/ CommitAnswer(q)
    \/ DeliverReceipt(q)

Arrive(q) ==
    \/ \E r \in Rolls, t \in Terminals : AssignSeat(q, r, t)
    \/ \E t \in Terminals, r \in Rolls : CandidateLogin(q, t, r)
    \/ \E t \in Terminals, e \in Envelopes : SubmitAnswer(q, t, e)

SeatWork ==
    \/ \E q \in Reqs : Arrive(q) \/ Serve(q)
    \/ \E rolls \in SUBSET Roster : \E bundle \in [rolls -> HQStatuses] : Provision(bundle)
    \/ \E r \in Roster : CheckIn(r)
    \/ \E t \in Terminals, h \in {"OK", "FAULT"} : Heartbeat(t, h)
    \/ \E i \in 1..Len(ledger) : RefetchReceipt(i)

SeatNext == SeatWork \/ Restart

SeatSpec == Init /\ [][SeatNext]_seatVars

\* PostgreSQL and the event loop run what has begun.
SeatFairSpec == SeatSpec /\ \A q \in Reqs : WF_seatVars(Serve(q))

-----------------------------------------------------------------------------
(* Properties. *)

\* The whole ledger is accepted by the walk from genesis that HQ makes, and
\* leaf_index counts the rows without a gap (repo.ts lockChainTail, http.ts
\* answer/submit; INV-9).
ChainIntact ==
    /\ verifyChain(ledger)
    /\ \A i \in 1..Len(ledger) : ledger[i].index = i - 1

\* A transaction that has read the chain tail still holds the tail when it
\* inserts, so UNIQUE (center_id, exam_id, leaf_index) never refuses a
\* candidate's answer (repo.ts lockChainTail: "serialised").
TailIsCurrent ==
    \A q \in Reqs : At(q, "submitTail") =>
        /\ req[q].index = Len(ledger)
        /\ req[q].prevRoot = tailRoot(ledger)

\* No two invigilators hold the same seat, and a seat being handed out was
\* never bound before: UNIQUE (terminal_id) never aborts an assignment
\* (assignment-service.ts: "no double assignment").
NoDoubleSeat ==
    \A q \in Reqs : At(q, "assigning") =>
        /\ binding[req[q].seat] = NoBinding
        /\ \A p \in Reqs \ {q} : ~(At(p, "assigning") /\ req[p].seat = req[q].seat)

\* INV-5: whoever attended at a seat is the candidate bound to that seat, by
\* an assignment on record, and is on the roster (http.ts candidate/login).
AttendedIsBound ==
    \A t \in Terminals, r \in Rolls : <<"CANDIDATE_ATTENDED", t, r>> \in trail =>
        /\ binding[t] = [roll |-> r, consumed |-> TRUE]
        /\ <<"SEAT_ASSIGNED", t, r>> \in trail
        /\ r \in Roster

\* Every ledger row is backed by a seat whose candidate attended, and has its
\* audit entry; no audit entry speaks of an answer that is not in the ledger.
LedgerMatchesTrail ==
    /\ \A i \in 1..Len(ledger) :
         /\ <<"ANSWER_SEALED", ledger[i].seat, ledger[i].leaf>> \in trail
         /\ <<"CANDIDATE_ATTENDED", ledger[i].seat, binding[ledger[i].seat].roll>> \in trail
    /\ \A t \in Terminals, e \in Envelopes : <<"ANSWER_SEALED", t, e>> \in trail =>
         \E i \in 1..Len(ledger) : ledger[i].seat = t /\ ledger[i].leaf = e

\* A receipt in a candidate's hands is a row of the ledger for ever after,
\* through restarts and whatever is submitted later (http.ts section 11.3).
ReceiptsHold ==
    \A w \in receipts :
        /\ verifyInclusion(w)
        /\ w.index < Len(ledger)
        /\ Receipt(ledger[w.index + 1]) = w

\* The comment of answer/submit: "one submission per binding".
OneSubmissionPerBinding ==
    \A i, j \in 1..Len(ledger) : ledger[i].seat = ledger[j].seat => i = j

\* The answer ledger implements the append-only log, however many seats
\* submit at once.
Ledger == INSTANCE AppendLedger WITH
    Leaves <- Envelopes,
    chain <- [i \in 1..Len(ledger) |-> Receipt(ledger[i])]

LedgerIsAppendOnly == Ledger!Spec

\* No request waits for ever on a row lock, on the chain lock or on the
\* UNIQUE index: whatever was begun is answered or cut off by a restart.
RequestsFinish == \A q \in Reqs : ~At(q, "idle") ~> At(q, "idle")

-----------------------------------------------------------------------------
(* The inductive invariant: what relates the requests in flight to the     *)
(* database, and with that keeps the properties above true in every step.  *)

Attended(t) == <<"CANDIDATE_ATTENDED", t, binding[t].roll>> \in trail

\* A request carries what its stage has put into it.
RequestShape ==
    \A q \in Reqs :
        /\ ~At(q, "idle") => req[q].seat \in Terminals
        /\ req[q].pc \in {"assigning", "loginBegun", "loginRead", "loginGranted"} =>
             req[q].roll \in Rolls
        /\ req[q].pc \in {"loginBegun", "loginRead"} => req[q].used < AttemptLimit
        /\ req[q].pc \in {"submitRead", "submitTail", "submitDone"} =>
             req[q].leaf \in Envelopes

\* A free seat was never bound, a bound one was assigned, and one in or past
\* its exam was attended.
SeatHistory ==
    \A t \in Terminals :
        /\ term[t] = "AVAILABLE" => binding[t] = NoBinding
        /\ binding[t].roll # NoRoll => <<"SEAT_ASSIGNED", t, binding[t].roll>> \in trail
        /\ term[t] \in {"ATTENDED", "IN_EXAM", "SUBMITTED"} => Attended(t)

\* What a request read before its transaction and relies on in it, and that
\* no other request can make stale.
ReadsStillHold ==
    \A q \in Reqs :
        /\ At(q, "assigning") => term[req[q].seat] = "AVAILABLE"
        /\ (At(q, "loginRead") /\ req[q].ok) \/ At(q, "loginGranted") =>
             binding[req[q].seat].roll = req[q].roll /\ req[q].roll \in Roster
        /\ req[q].pc \in {"submitRead", "submitTail", "submitDone"} => Attended(req[q].seat)

ChainLockExclusive ==
    \A p, q \in Reqs : At(p, "submitTail") /\ At(q, "submitTail") => p = q

\* A receipt about to be sent is of a committed row.
DoneIsCommitted ==
    \A q \in Reqs : At(q, "submitDone") =>
        req[q].index < Len(ledger) /\ ledger[req[q].index + 1] = NewRow(q)

SeatInv ==
    /\ SeatTypeOK
    /\ RequestShape
    /\ SeatHistory
    /\ ReadsStillHold
    /\ ChainLockExclusive
    /\ ChainIntact
    /\ TailIsCurrent
    /\ DoneIsCommitted
    /\ ReceiptsHold
    /\ NoDoubleSeat
    /\ AttendedIsBound
    /\ LedgerMatchesTrail

=============================================================================
