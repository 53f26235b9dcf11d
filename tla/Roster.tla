-------------------------------- MODULE Roster --------------------------------
(***************************************************************************)
(* The candidate roster of the admin portal, open in the browsers of       *)
(* several admins: candidates are approved and, with a reason, rejected,   *)
(* and the roster is loaded again after each decision.  The backend reads  *)
(* the enrolment before it decides and writes the columns that differ from *)
(* what it read, together with an entry of the audit log.                  *)
(*                                                                         *)
(* A definition marked "Variant" is no part of the specification: it is    *)
(* the next definition with a plausible mistake, which a property refutes. *)
(***************************************************************************)
EXTENDS Integers, Sequences, SequencesExt

CONSTANTS
    Admins,       \* admins with the page open
    Enrolments,   \* candidates of the roster
    NoEnrolment,  \* no modal is open
    MaxDecisions, \* bound: entries of the audit log
    MaxPending    \* bound: loads of the roster under way in a browser

ASSUME RosterAssumption ==
    /\ NoEnrolment \notin Enrolments
    /\ MaxDecisions \in Nat
    /\ MaxPending \in Nat \ {0}

VARIABLES
    roster,    \* each page: the rows shown, those busy, the modal and its reason, loads
    deciding,  \* each page's requests under way
    enrolment, \* the rows of the backend: approval status, rejection reason
    decisions  \* admin_audit_log

rosterVars == <<roster, deciding, enrolment, decisions>>

Statuses == {"PENDING", "APPROVED", "REJECTED"}

Shown == [Enrolments -> Statuses \cup {"?"}]

Unread == [c \in Enrolments |-> "?"]

\* A page as it is mounted: its first load is under way.
NewRoster == [rows |-> Unread, modal |-> NoEnrolment, reason |-> FALSE, loads |-> <<Unread>>]

NoDecision == [is |-> "none", read |-> "?", noted |-> FALSE]

RosterTypeOK ==
    /\ roster \in [Admins -> [rows : Shown, modal : Enrolments \cup {NoEnrolment}, reason : BOOLEAN,
                              loads : Seq(Shown)]]
    /\ \A a \in Admins : Len(roster[a].loads) <= MaxPending
    /\ deciding \in [Admins -> [Enrolments ->
         [is : {"none", "APPROVED", "REJECTED", "approved", "rejected"}, read : Statuses \cup {"?"}, noted : BOOLEAN]]]
    /\ enrolment \in [Enrolments -> [status : Statuses, noted : BOOLEAN]]
    /\ decisions \in Seq([by : Admins, of : Enrolments, to : {"APPROVED", "REJECTED"}])

RosterInit ==
    /\ roster = [a \in Admins |-> NewRoster]
    /\ deciding = [a \in Admins |-> [c \in Enrolments |-> NoDecision]]
    /\ enrolment = [c \in Enrolments |-> [status |-> "PENDING", noted |-> FALSE]]
    /\ decisions = <<>>

(***************************************************************************)
(* The page.                                                               *)
(***************************************************************************)
Page(a, change) ==
    /\ roster' = [roster EXCEPT ![a] = change]
    /\ UNCHANGED <<enrolment, decisions>>

\* The backend reads the roster for a load ...
ListCandidates(a, i) ==
    /\ roster[a].loads[i] = Unread
    /\ Page(a, [roster[a] EXCEPT !.loads[i] = [c \in Enrolments |-> enrolment[c].status]])
    /\ UNCHANGED deciding

\* ... and the page shows what arrives, in whatever order it does; a load that fails
\* leaves the rows as they are.
ShowRows(a, i) ==
    /\ LET rest == RemoveAt(roster[a].loads, i)
       IN  \/ Page(a, [roster[a] EXCEPT !.loads = rest])
           \/ /\ roster[a].loads[i] # Unread
              /\ Page(a, [roster[a] EXCEPT !.rows = roster[a].loads[i], !.loads = rest])
    /\ UNCHANGED deciding

Decide(a, c, want) ==
    deciding' = [deciding EXCEPT ![a][c] = [NoDecision EXCEPT !.is = want]]

\* "Approve", unless the row is busy or shows it is approved already; not under the modal.
ApproveRow(a, c) ==
    /\ roster[a].modal = NoEnrolment
    /\ roster[a].rows[c] \notin {"?", "APPROVED"}
    /\ deciding[a][c] = NoDecision
    /\ Decide(a, c, "APPROVED")
    /\ UNCHANGED <<roster, enrolment, decisions>>

\* "Reject" asks for the reason.
OpenModal(a, c) ==
    /\ roster[a].modal = NoEnrolment
    /\ roster[a].rows[c] \notin {"?", "REJECTED"}
    /\ deciding[a][c] = NoDecision
    /\ Page(a, [roster[a] EXCEPT !.modal = c, !.reason = FALSE])
    /\ UNCHANGED deciding

TypeReason(a) ==
    /\ roster[a].modal # NoEnrolment /\ ~roster[a].reason
    /\ Page(a, [roster[a] EXCEPT !.reason = TRUE])
    /\ UNCHANGED deciding

\* "Cancel", also while the rejection is under way.
CancelModal(a) ==
    /\ roster[a].modal # NoEnrolment
    /\ Page(a, [roster[a] EXCEPT !.modal = NoEnrolment, !.reason = FALSE])
    /\ UNCHANGED deciding

\* "Confirm Reject", with a reason.
ConfirmReject(a) ==
    LET c == roster[a].modal
    IN  /\ c # NoEnrolment /\ roster[a].reason
        /\ deciding[a][c] = NoDecision
        /\ Decide(a, c, "REJECTED")
        /\ UNCHANGED <<roster, enrolment, decisions>>

\* The answer: the row is free again and the roster is loaded.  That of a rejection closes
\* the modal, be it the one it was confirmed in or that of another candidate.
ShowDecision(a, c) ==
    /\ deciding[a][c].is \in {"approved", "rejected"}
    /\ Len(roster[a].loads) < MaxPending
    /\ LET loaded == [roster[a] EXCEPT !.loads = Append(@, Unread)]
       IN  Page(a, IF deciding[a][c].is = "rejected"
                   THEN [loaded EXCEPT !.modal = NoEnrolment, !.reason = FALSE] ELSE loaded)
    /\ Decide(a, c, "none")

\* A refusal, or no answer whatever was decided: the row is free again, the modal stays.
DecisionFails(a, c) ==
    /\ deciding[a][c].is # "none"
    /\ Decide(a, c, "none")
    /\ UNCHANGED <<roster, enrolment, decisions>>

(***************************************************************************)
(* The backend.                                                            *)
(***************************************************************************)
\* Variant: what is decided already is decided again.
MayDecideAgain(c, want) == want \in Statuses

\* "Already approved", "Already rejected".
MayDecide(c, want) == enrolment[c].status # want

\* approve_candidate and reject_candidate read the enrolment ...
ReadEnrolment(a, c) ==
    /\ deciding[a][c].is \in {"APPROVED", "REJECTED"}
    /\ deciding[a][c].read = "?"
    /\ MayDecide(c, deciding[a][c].is)
    /\ deciding' = [deciding EXCEPT ![a][c].read = enrolment[c].status,
                                   ![a][c].noted = enrolment[c].noted]
    /\ UNCHANGED <<roster, enrolment, decisions>>

\* ... and commit the columns that are not what was read: an approval takes away a
\* rejection's reason only when it read one.
CommitDecision(a, c) ==
    LET d == deciding[a][c]
    IN  /\ d.is \in {"APPROVED", "REJECTED"} /\ d.read # "?"
        /\ Len(decisions) < MaxDecisions
        /\ enrolment' = [enrolment EXCEPT
             ![c].status = IF d.read = d.is THEN @ ELSE d.is,
             ![c].noted = IF d.is = "REJECTED" THEN TRUE ELSE @ /\ ~d.noted]
        /\ decisions' = Append(decisions, [by |-> a, of |-> c, to |-> d.is])
        /\ deciding' = [deciding EXCEPT ![a][c] = [NoDecision EXCEPT
             !.is = IF d.is = "REJECTED" THEN "rejected" ELSE "approved"]]
        /\ UNCHANGED roster

RosterNext ==
    \E a \in Admins :
        \/ \E i \in DOMAIN roster[a].loads : ListCandidates(a, i) \/ ShowRows(a, i)
        \/ \E c \in Enrolments :
             \/ ApproveRow(a, c) \/ OpenModal(a, c) \/ ShowDecision(a, c) \/ DecisionFails(a, c)
             \/ ReadEnrolment(a, c) \/ CommitDecision(a, c)
        \/ TypeReason(a) \/ CancelModal(a) \/ ConfirmReject(a)

RosterSpec == RosterInit /\ [][RosterNext]_rosterVars

(***************************************************************************)
(* Properties.                                                             *)
(***************************************************************************)
\* What the roster says of a candidate is what the audit log says was decided last
\* (admin.py 494-511, 536-553), whatever decisions of several admins overlap, rest on a
\* stale roster or are made again after a lost answer.
StatusIsLastDecision ==
    \A c \in Enrolments :
        LET about == {k \in DOMAIN decisions : decisions[k].of = c}
        IN  IF about = {} THEN enrolment[c].status = "PENDING"
            ELSE \E k \in about : /\ \A j \in about : j <= k
                                  /\ enrolment[c].status = decisions[k].to

\* A decision under way read a status that differs from the one it is for, so that its
\* commit writes it.
DecidesAnew ==
    \A a \in Admins, c \in Enrolments :
        deciding[a][c].is \in {"APPROVED", "REJECTED"} => deciding[a][c].read # deciding[a][c].is

\* An inductive invariant.
RosterInv ==
    /\ RosterTypeOK
    /\ DecidesAnew
    /\ StatusIsLastDecision
=============================================================================
