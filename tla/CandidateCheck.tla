--------------------------- MODULE CandidateCheck ---------------------------
(***************************************************************************)
(* The candidate verification page of the web site's invigilator area: a   *)
(* hall ticket is scanned, the camera started, the face matched or the     *)
(* backend asked, the result shown; a VERIFIED result goes away by itself. *)
(* "Scan QR" stays enabled all the time, so verifications may overlap, and *)
(* the timer of one result is never cancelled.                             *)
(*                                                                         *)
(* A definition marked "Variant" is no part of the specification: it is    *)
(* the next definition with a plausible mistake, which a property refutes. *)
(***************************************************************************)
EXTENDS Integers, FiniteSets

CONSTANTS
    Tickets,    \* hall tickets of the roster
    NoTicket,   \* no ticket
    Scans,      \* bound: verifications under way at a time
    MaxTimers,  \* bound: auto-advance timers pending
    MaxScans    \* bound: verifications started

ASSUME CheckAssumption ==
    /\ NoTicket \notin Tickets
    /\ MaxTimers \in Nat \ {0}
    /\ MaxScans \in Nat

VARIABLES
    status,    \* the latest verification of each candidate at the backend
    known,     \* the roster this page has fetched
    fetching,  \* a fetch of the roster is under way
    candidate, \* the ticket whose identity is shown
    step,      \* the phase of the page
    outcome,   \* the result shown
    camera,    \* camReady
    scan,      \* verifications under way
    timers,    \* auto-advance timers pending
    scans      \* verifications started so far

checkVars == <<status, known, fetching, candidate, step, outcome, camera, scan, timers, scans>>

Statuses == {"PENDING", "VERIFIED", "MISMATCH"}

NoScan == [at |-> "idle", ticket |-> NoTicket, cam |-> FALSE]

NoVerdict == [ticket |-> NoTicket, is |-> "none"]

CheckTypeOK ==
    /\ status \in [Tickets -> Statuses]
    /\ known \in [Tickets -> Statuses]
    /\ fetching \in BOOLEAN
    /\ candidate \in Tickets \cup {NoTicket}
    /\ step \in {"idle", "capturing", "matching", "done"}
    /\ outcome \in [ticket : Tickets \cup {NoTicket}, is : {"none", "VERIFIED", "MISMATCH"}]
    /\ camera \in BOOLEAN
    /\ scan \in [Scans -> [at : {"idle", "starting", "capturing", "matching"},
                           ticket : Tickets \cup {NoTicket}, cam : BOOLEAN]]
    /\ timers \in 0..MaxTimers
    /\ scans \in 0..MaxScans

CheckInit ==
    /\ status = [t \in Tickets |-> "PENDING"]
    /\ known = status
    /\ fetching = TRUE
    /\ candidate = NoTicket
    /\ step = "idle"
    /\ outcome = NoVerdict
    /\ camera = FALSE
    /\ scan = [s \in Scans |-> NoScan]
    /\ timers = 0
    /\ scans = 0

FetchRoster ==
    /\ fetching
    /\ fetching' = FALSE
    /\ known' = status
    /\ UNCHANGED <<status, candidate, step, outcome, camera, scan, timers, scans>>

(***************************************************************************)
(* A verification.                                                         *)
(***************************************************************************)
\* The handler runs on with what this render of the page held: above all camReady.
Start(s, t) ==
    /\ scan[s].at = "idle"
    /\ scans < MaxScans
    /\ scan' = [scan EXCEPT ![s] = [at |-> "starting", ticket |-> t, cam |-> camera]]
    /\ scans' = scans + 1
    /\ candidate' = t
    /\ UNCHANGED <<status, known, fetching, step, camera, timers>>

\* onScan: the form is disabled from "capturing" on, not while the camera starts.
ScanTicket(s, t) ==
    /\ step \notin {"capturing", "matching"}
    /\ Start(s, t)
    /\ outcome' = NoVerdict

\* simulateQR: a pending candidate of the roster, or any; the result shown stays.
ScanQR(s, t) ==
    /\ known[t] = "PENDING" \/ \A u \in Tickets : known[u] # "PENDING"
    /\ Start(s, t)
    /\ UNCHANGED outcome

\* startCamera is over, well or not: runVerification begins.
Capture(s) ==
    /\ scan[s].at = "starting"
    /\ scan' = [scan EXCEPT ![s].at = "capturing"]
    /\ step' = "capturing"
    /\ camera' \in BOOLEAN
    /\ UNCHANGED <<status, known, fetching, candidate, outcome, timers, scans>>

\* Variant: the match waits for a camera, which may have been denied.
MayMatchOnCamera(s) == scan[s].at = "capturing" /\ camera

\* Without a picture too: the backend is asked all the same.
MayMatch(s) == scan[s].at = "capturing"

Match(s) ==
    /\ MayMatch(s)
    /\ scan' = [scan EXCEPT ![s].at = "matching"]
    /\ step' = "matching"
    /\ UNCHANGED <<status, known, fetching, candidate, outcome, camera, timers, scans>>

\* The result of a verification, however it came about.
Show(s, v) ==
    /\ outcome' = [ticket |-> scan[s].ticket, is |-> v]
    /\ step' = "done"
    /\ camera' = FALSE
    /\ scan' = [scan EXCEPT ![s] = NoScan]
    /\ IF v = "VERIFIED" THEN timers < MaxTimers /\ timers' = timers + 1 ELSE UNCHANGED timers

\* The face is matched against the enrolled descriptor: only where the camera was ready
\* when the scan was asked for.  Nothing is recorded.
MatchFace(s, v) ==
    /\ scan[s].at = "matching"
    /\ scan[s].cam
    /\ Show(s, v)
    /\ UNCHANGED <<status, known, fetching, candidate, scans>>

\* candidate/verify: without a fingerprint, which this page never sends, a mismatch.
BackendVerdict(s) ==
    /\ scan[s].at = "matching"
    /\ Show(s, "MISMATCH")
    /\ status' = [status EXCEPT ![scan[s].ticket] = "MISMATCH"]
    /\ UNCHANGED <<known, fetching, candidate, scans>>

\* The backend is away, or refuses: the page decides by the ticket's number.
MockVerdict(s, v) ==
    /\ scan[s].at = "matching"
    /\ Show(s, v)
    /\ UNCHANGED <<status, known, fetching, candidate, scans>>

(***************************************************************************)
(* The next candidate.                                                     *)
(***************************************************************************)
ResetForNext ==
    /\ candidate' = NoTicket
    /\ outcome' = NoVerdict
    /\ step' = "idle"
    /\ fetching' = TRUE
    /\ UNCHANGED <<status, known, camera, scan, scans>>

\* "Next Candidate", "Call Supervisor".
PressNext ==
    /\ outcome # NoVerdict
    /\ ResetForNext
    /\ UNCHANGED timers

\* Three seconds after a VERIFIED result, whatever is on the page by now.
AutoAdvance ==
    /\ timers > 0
    /\ timers' = timers - 1
    /\ ResetForNext

CheckNext ==
    \/ FetchRoster \/ PressNext \/ AutoAdvance
    \/ \E s \in Scans, t \in Tickets : ScanTicket(s, t) \/ ScanQR(s, t)
    \/ \E s \in Scans : Capture(s) \/ Match(s) \/ BackendVerdict(s)
    \/ \E s \in Scans, v \in {"VERIFIED", "MISMATCH"} : MatchFace(s, v) \/ MockVerdict(s, v)

CheckSpec == CheckInit /\ [][CheckNext]_checkVars

\* Timers fire, the camera and the backend answer or fail.
CheckServes ==
    \/ AutoAdvance
    \/ \E s \in Scans :
         \/ Capture(s) \/ Match(s) \/ BackendVerdict(s)
         \/ \E v \in {"VERIFIED", "MISMATCH"} : MatchFace(s, v) \/ MockVerdict(s, v)

CheckFairness == WF_checkVars(CheckServes)

(***************************************************************************)
(* Properties.                                                             *)
(***************************************************************************)
\* The page does not stay with a verification that has begun: it has a result, or has been
\* reset, however scans overlap and whatever fails.
VerificationEnds == step \in {"capturing", "matching"} ~> step \in {"done", "idle"}
=============================================================================
