------------------------- MODULE InvigilatorConsole -------------------------
(***************************************************************************)
(* The invigilator portal of the exam terminal: registration, login, and   *)
(* the console whose polls of the Edge and "Verify & Seat" runs overlap.   *)
(* The token is in sessionStorage and read at every call; everything else  *)
(* is state of the mounted page.  A request that is under way when the     *)
(* console is left still ends in its handlers: they no longer change the   *)
(* page, but a 401 or 403 still locks the station.  The Edge's handlers    *)
(* are atomic here.  Incidents are left out: their button is shown for     *)
(* IN_EXAM only, a state the Edge never gives a seat.                      *)
(*                                                                         *)
(* A definition marked "Variant" is no part of the specification: it is    *)
(* the next definition with a plausible mistake, which a property refutes. *)
(***************************************************************************)
EXTENDS Integers, FiniteSets

CONSTANTS
    DeskRolls,     \* rolls of this centre's roster
    DeskSeats,     \* candidate seats of this centre
    Vacant,        \* no roll
    Runs,          \* bound: verifications in flight at a time
    MaxPolls,      \* bound: refreshes in flight at a time
    MaxFailures    \* bound: lost requests, lost answers, reloads, expiries

ASSUME ConsoleAssumption ==
    /\ Vacant \notin DeskRolls
    /\ MaxPolls \in Nat \ {0}
    /\ MaxFailures \in Nat

VARIABLES
    applicant,  \* the registration in the form, and the identity it becomes
    desk,       \* the login of this station
    present,    \* rolls whose enrollment is PRESENT, at the Edge
    seatOf,     \* the roll each seat is bound to, at the Edge
    view,       \* the roster and the seat map the console shows
    polls,      \* refreshes in flight
    run,        \* runs of verifyAndSeat
    failures    \* how much went wrong so far

consoleVars == <<applicant, desk, present, seatOf, view, polls, run, failures>>

Tokens == {"none", "live", "expired"}

NoView == [roster |-> FALSE, present |-> {}, seats |-> {}, busy |-> Vacant]

NoRun == [stage |-> "idle", roll |-> Vacant, bio |-> FALSE, mine |-> FALSE, token |-> "none"]

\* A request for one of the two tables, and the rows it may read there.
PollsOf(kind, rows) ==
    [kind : {kind}, token : Tokens, mine : BOOLEAN, by : Runs \cup {Vacant},
     answer : {"waiting", "refused", "read"}, read : SUBSET rows]

Polls == PollsOf("roster", DeskRolls) \cup PollsOf("seats", DeskSeats)

IdleRuns == [stage : {"idle"}, roll : {Vacant}, bio : {FALSE}, mine : {FALSE}, token : {"none"}]

ActiveRuns ==
    [stage : {"checkin", "checkedIn", "assign", "seated", "failed", "refreshing"},
     roll : DeskRolls, bio : BOOLEAN, mine : BOOLEAN, token : Tokens]

ConsoleTypeOK ==
    /\ applicant \in [form : {"login", "register"}, asked : BOOLEAN,
                      identity : {"none", "pending", "approved", "active"}]
    /\ desk \in [authed : BOOLEAN, token : Tokens]
    /\ present \subseteq DeskRolls
    /\ seatOf \in [DeskSeats -> DeskRolls \cup {Vacant}]
    /\ view \in [roster : BOOLEAN, present : SUBSET DeskRolls, seats : SUBSET DeskSeats,
                 busy : DeskRolls \cup {Vacant}]
    /\ polls \subseteq Polls
    /\ run \in [Runs -> IdleRuns \cup ActiveRuns]
    /\ failures \in 0..MaxFailures

ConsoleInit ==
    /\ applicant = [form |-> "login", asked |-> FALSE, identity |-> "none"]
    /\ desk = [authed |-> FALSE, token |-> "none"]
    /\ present = {}
    /\ seatOf = [s \in DeskSeats |-> Vacant]
    /\ view = NoView
    /\ polls = {}
    /\ run = [q \in Runs |-> NoRun]
    /\ failures = 0

Failure == failures < MaxFailures /\ failures' = failures + 1

hallVars == <<present, seatOf>>
onDesk == <<desk, view, polls, run>>

(***************************************************************************)
(* Registration and activation.                                            *)
(***************************************************************************)
ShowForm(form) ==
    /\ ~desk.authed
    /\ applicant.form # form
    /\ applicant' = [applicant EXCEPT !.form = form, !.asked = FALSE]
    /\ UNCHANGED <<onDesk, hallVars, failures>>

\* submit: the request id lives in the form only.
SubmitRegistration ==
    /\ ~desk.authed
    /\ applicant.form = "register"
    /\ applicant.identity = "none"
    /\ \/ applicant' = [applicant EXCEPT !.asked = TRUE, !.identity = "pending"] /\ UNCHANGED failures
       \/ applicant' = [applicant EXCEPT !.identity = "pending"] /\ Failure
    /\ UNCHANGED <<onDesk, hallVars>>

\* The Centre Admin issues the one-time code of the pending request.
IssueToApplicant ==
    /\ applicant.identity = "pending"
    /\ applicant' = [applicant EXCEPT !.identity = "approved"]
    /\ UNCHANGED <<onDesk, hallVars, failures>>

\* activate: offered only while the form holds the request id.
ActivateApplicant ==
    /\ ~desk.authed
    /\ applicant.form = "register"
    /\ applicant.asked
    /\ applicant.identity = "approved"
    /\ applicant' = [applicant EXCEPT !.identity = "active"]
    /\ UNCHANGED <<onDesk, hallVars, failures>>

(***************************************************************************)
(* Login and lock.                                                         *)
(***************************************************************************)
\* The console mounts: a roster request, a seat map request, and the 3 s timer.
MountPolls(token) ==
    {[kind |-> k, token |-> token, mine |-> TRUE, by |-> Vacant, answer |-> "waiting", read |-> {}] :
        k \in {"roster", "seats"}}

\* What is in flight belongs to the console that was left.
Orphaned(ps) == {[p EXCEPT !.mine = FALSE, !.read = {}] : p \in ps}

\* invigilatorLogin: all factors match an active identity, and the token comes back.
StationLogin ==
    /\ ~desk.authed
    /\ applicant.form = "login"
    /\ applicant.identity = "active"
    /\ Cardinality(polls) < MaxPolls
    /\ desk' = [authed |-> TRUE, token |-> "live"]
    /\ view' = NoView
    /\ polls' = polls \cup MountPolls("live")
    /\ UNCHANGED <<applicant, run, hallVars, failures>>

\* The portal is loaded again: any token in sessionStorage opens the console.
ReloadStation ==
    /\ Failure
    /\ desk' = [desk EXCEPT !.authed = desk.token # "none"]
    /\ view' = NoView
    /\ polls' = IF desk.token # "none" THEN MountPolls(desk.token) ELSE {}
    /\ run' = [q \in Runs |-> NoRun]
    /\ applicant' = [applicant EXCEPT !.form = "login", !.asked = FALSE]
    /\ UNCHANGED hallVars

\* onLock: the token is dropped and the console unmounted.
Lock ==
    /\ desk' = [authed |-> FALSE, token |-> "none"]
    /\ view' = NoView
    /\ run' = [q \in Runs |-> [run[q] EXCEPT !.mine = FALSE]]

LockStation ==
    /\ desk.authed
    /\ Lock
    /\ polls' = Orphaned(polls)
    /\ UNCHANGED <<applicant, hallVars, failures>>

Aged(token) == IF token = "live" THEN "expired" ELSE token

\* The token, of this login or of an earlier one, expires at the Edge.
ExpireToken ==
    /\ desk.token = "live"
    /\ Failure
    /\ desk' = [desk EXCEPT !.token = "expired"]
    /\ polls' = {[p EXCEPT !.token = Aged(@)] : p \in polls}
    /\ run' = [q \in Runs |-> [run[q] EXCEPT !.token = Aged(@)]]
    /\ UNCHANGED <<applicant, view, hallVars>>

(***************************************************************************)
(* refreshRoster and refreshSeats.                                         *)
(***************************************************************************)
\* The interval fires whatever became of earlier requests.
PollSeats ==
    /\ desk.authed
    /\ Cardinality(polls) < MaxPolls
    /\ polls' = polls \cup {[kind |-> "seats", token |-> desk.token, mine |-> TRUE, by |-> Vacant,
                             answer |-> "waiting", read |-> {}]}
    /\ UNCHANGED <<applicant, desk, view, run, hallVars, failures>>

TakenSeats == {s \in DeskSeats : seatOf[s] # Vacant}

\* The Edge reads its tables, or refuses a token it does not accept.
ServePoll(p) ==
    /\ p.answer = "waiting"
    /\ LET served == IF p.token # "live" THEN [p EXCEPT !.answer = "refused"]
                     ELSE [p EXCEPT !.answer = "read",
                                    !.read = IF ~p.mine THEN {}
                                             ELSE IF p.kind = "roster" THEN present
                                             ELSE TakenSeats]
       IN  polls' = (polls \ {p}) \cup {served}
    /\ UNCHANGED <<applicant, desk, view, run, hallVars, failures>>

\* Variant: only a 401 locks, and the console's routes answer 403.
LocksNever(p) == FALSE

\* guard: 401 and 403 lock the station, whichever login the request belongs to.
LocksOn(p) == p.answer = "refused"

PollArrives(p) ==
    /\ p.answer # "waiting"
    /\ IF LocksOn(p)
       THEN Lock /\ polls' = Orphaned(polls \ {p})
       ELSE /\ polls' = polls \ {p}
            /\ view' = IF ~p.mine \/ p.answer # "read" THEN view
                       ELSE IF p.kind = "seats" THEN [view EXCEPT !.seats = p.read]
                       ELSE [view EXCEPT !.roster = TRUE, !.present = p.read]
            /\ UNCHANGED <<desk, run>>
    /\ UNCHANGED <<applicant, hallVars, failures>>

\* The connection breaks: a notice, and the old view stays.
PollLost(p) ==
    /\ Failure
    /\ polls' = polls \ {p}
    /\ UNCHANGED <<applicant, desk, view, run, hallVars>>

(***************************************************************************)
(* verifyAndSeat.                                                          *)
(***************************************************************************)
\* A row's buttons are disabled while busyRoll names that row, and no other: the
\* console does not keep two runs for one roll apart once a second row was clicked.
VerifyOffered(roll) == desk.authed /\ view.roster /\ view.busy # roll

Verify(q, roll, bio) ==
    /\ run[q].stage = "idle"
    /\ VerifyOffered(roll)
    /\ run' = [run EXCEPT ![q] = [stage |-> "checkin", roll |-> roll, bio |-> bio, mine |-> TRUE,
                               token |-> desk.token]]
    /\ view' = [view EXCEPT !.busy = roll]
    /\ UNCHANGED <<applicant, desk, polls, hallVars, failures>>

Goes(q, stage, token) == run' = [run EXCEPT ![q] = [@ EXCEPT !.stage = stage, !.token = token]]

\* The call a run has under way carries the token of the moment it was sent.
Sends(q, stage) == Goes(q, stage, desk.token)

\* The run has no call under way.
To(q, stage) == Goes(q, stage, "none")

OnlyRun == UNCHANGED <<applicant, desk, view, polls>>

\* POST /candidate/checkin: biometrics first, then the enrollment row.
CheckInAtEdge(q) ==
    /\ run[q].stage = "checkin"
    /\ IF run[q].token = "live" /\ run[q].bio
       THEN /\ present' = present \cup {run[q].roll}
            /\ \/ To(q, "checkedIn") /\ UNCHANGED failures
               \/ To(q, "failed") /\ Failure
       ELSE To(q, "failed") /\ UNCHANGED <<present, failures>>
    /\ UNCHANGED seatOf
    /\ OnlyRun

\* Variant: the seat is asked for without waiting for the check-in.
NextCallUnawaited(q) == run[q].stage \in {"checkin", "checkedIn"} /\ Sends(q, "assign")

\* The check-in was awaited; the next call reads the token anew.
NextCall(q) == run[q].stage = "checkedIn" /\ Sends(q, "assign")

RequestSeat(q) ==
    /\ NextCall(q)
    /\ UNCHANGED <<hallVars, failures>>
    /\ OnlyRun

\* POST /seat/assign: any free seat, or NO_FREE_SEAT.
AssignAtEdge(q) ==
    /\ run[q].stage = "assign"
    /\ \/ /\ run[q].token = "live"
          /\ \E s \in DeskSeats \ TakenSeats : seatOf' = [seatOf EXCEPT ![s] = run[q].roll]
          /\ \/ To(q, "seated") /\ UNCHANGED failures
             \/ To(q, "failed") /\ Failure
       \/ /\ run[q].token # "live" \/ TakenSeats = DeskSeats
          /\ To(q, "failed")
          /\ UNCHANGED <<seatOf, failures>>
    /\ UNCHANGED present
    /\ OnlyRun

\* Only a success refreshes the two tables.
RefreshAfter(q) ==
    /\ run[q].stage = "seated"
    /\ To(q, "refreshing")
    /\ polls' = polls \cup
         {[kind |-> k, token |-> desk.token, mine |-> run[q].mine, by |-> q, answer |-> "waiting",
           read |-> {}] : k \in {"roster", "seats"}}
    /\ UNCHANGED <<applicant, desk, view, hallVars, failures>>

\* finally: no row is busy any more, not even another run's.
FinishRun(q) ==
    /\ \/ run[q].stage = "failed"
       \/ run[q].stage = "refreshing" /\ \A p \in polls : p.by # q
    /\ run' = [run EXCEPT ![q] = NoRun]
    /\ view' = IF run[q].mine THEN [view EXCEPT !.busy = Vacant] ELSE view
    /\ UNCHANGED <<applicant, desk, polls, hallVars, failures>>

ConsoleNext ==
    \/ \E form \in {"login", "register"} : ShowForm(form)
    \/ SubmitRegistration \/ IssueToApplicant \/ ActivateApplicant
    \/ StationLogin \/ ReloadStation \/ LockStation \/ ExpireToken
    \/ PollSeats
    \/ \E p \in polls : ServePoll(p) \/ PollArrives(p) \/ PollLost(p)
    \/ \E q \in Runs, roll \in DeskRolls, bio \in BOOLEAN : Verify(q, roll, bio)
    \/ \E q \in Runs : CheckInAtEdge(q) \/ RequestSeat(q) \/ AssignAtEdge(q)
                       \/ RefreshAfter(q) \/ FinishRun(q)

ConsoleSpec == ConsoleInit /\ [][ConsoleNext]_consoleVars

\* The timer fires, requests under way are served and answered, refusals too.
ConsoleFairness ==
    /\ WF_consoleVars(PollSeats)
    /\ WF_consoleVars(\E p \in polls : ServePoll(p))
    /\ WF_consoleVars(\E p \in polls : PollArrives(p))
    /\ WF_consoleVars(\E p \in polls : LocksOn(p) /\ PollArrives(p))

(***************************************************************************)
(* Properties.                                                             *)
(***************************************************************************)
\* "The seat number exists only after both succeed" (page 267-268): whatever runs
\* overlap, fail half-way or outlive their login, a seat is bound to checked-in rolls.
SeatedAreCheckedIn == \A s \in DeskSeats : seatOf[s] # Vacant => seatOf[s] \in present

\* The station keeps up with the Edge: again and again it is locked, or holds a live
\* token and shows the seats as they are - late answers and expiry notwithstanding.
ConsoleCatchesUp == []<>(~desk.authed \/ (desk.token = "live" /\ view.seats = TakenSeats))
=============================================================================
