----------------------------- MODULE Registration -----------------------------
(***************************************************************************)
(* Candidates enrol and centre staff register on two public pages, from    *)
(* browsers that know nothing of each other.  The backend counts the       *)
(* enrolments of the exam, makes the next roll number of the count, and    *)
(* inserts it across an await; nothing in the schema keeps two rolls       *)
(* apart, and a form whose answer was lost can be sent again.  The System  *)
(* Admin issues one-time codes to those who want to be Centre Admins, on a *)
(* page whose requests overlap too.                                        *)
(*                                                                         *)
(* A definition marked "Variant" is no part of the specification: it is    *)
(* the next definition with a plausible mistake, which a property refutes. *)
(***************************************************************************)
EXTENDS Integers, Sequences, FiniteSets, SequencesExt

CONSTANTS
    Tabs,     \* browsers with one of the two forms open
    KindOf,   \* the form in each: "candidate" or "staff"
    CentreOf, \* the centre chosen in each
    StateOf,  \* the state each centre is in
    MaxRows,  \* bound: rows the backend stores
    MaxIssues \* bound: one-time codes issued, and calls of the approvals page under way

ASSUME RegistrationAssumption ==
    /\ KindOf \in [Tabs -> {"candidate", "staff"}]
    /\ DOMAIN CentreOf = Tabs
    /\ \A t \in Tabs : CentreOf[t] \in DOMAIN StateOf
    /\ MaxRows \in Nat
    /\ MaxIssues \in Nat

VARIABLES
    tab,      \* each form: lists, role, fields, camera, request, result
    enrolled, \* enrollments of the exam, in the order of their commits
    applied,  \* staff_registration_requests
    handling, \* calls of enrol_candidate between its count and its commit
    desk,     \* the approvals page: its rows, the codes it shows, the row that is busy
    errands,  \* its calls under way
    issued    \* one-time codes issued so far

deskVars == <<desk, errands, issued>>

registrationVars == <<tab, enrolled, applied, handling, deskVars>>

StaffRoles == {"CENTER_INVIGILATOR", "CENTER_ADMIN"}

Requests == {"none", "sent", "served", "answered"}

\* A form as it is opened; a link may ask for the other role.
Blank(role) ==
    [lists |-> "loading", role |-> role, filled |-> FALSE, cam |-> "idle",
     call |-> "none", as |-> role, seen |-> 0, result |-> 0]

\* The codes, in the order they are issued; 0 is none, and the request is pending.
Codes == 0..MaxIssues

\* The approvals page before it is loaded.
NoDesk == [row |-> [n \in 1..MaxRows |-> [listed |-> FALSE, code |-> 0, fp |-> FALSE]], busy |-> 0]

Stored == Len(enrolled) + Len(applied)

RegistrationTypeOK ==
    /\ tab \in [Tabs -> [lists : {"loading", "shown", "down"}, role : StaffRoles, filled : BOOLEAN,
                         cam : {"idle", "live", "denied", "captured"}, call : Requests,
                         as : StaffRoles, seen : 0..MaxRows, result : 0..MaxRows]]
    /\ enrolled \in Seq([by : Tabs, state : {StateOf[CentreOf[t]] : t \in Tabs},
                         seq : 1..MaxRows, after : 0..MaxRows])
    /\ applied \in Seq([by : Tabs, role : StaffRoles, approver : {"SYSTEM_ADMIN", "CENTER_ADMIN"},
                        code : Codes, fp : BOOLEAN])
    /\ handling \in Seq([by : Tabs, count : 0..MaxRows, after : 0..MaxRows, heard : BOOLEAN])
    /\ Stored + Len(handling) <= MaxRows
    /\ desk \in [row : [1..MaxRows -> [listed : BOOLEAN, code : Codes, fp : BOOLEAN]],
                 busy : 0..MaxRows]
    /\ errands \in Seq([is : {"issue", "fp"}, row : 1..MaxRows, done : BOOLEAN, code : Codes])
    /\ issued \in Codes

RegistrationInit ==
    /\ tab = [t \in Tabs |-> Blank("CENTER_INVIGILATOR")]
    /\ enrolled = <<>>
    /\ applied = <<>>
    /\ handling = <<>>
    /\ desk = NoDesk
    /\ errands = <<>>
    /\ issued = 0

(***************************************************************************)
(* The two forms.                                                          *)
(***************************************************************************)
Fill(t, change) ==
    /\ tab[t].result = 0
    /\ tab' = [tab EXCEPT ![t] = change]
    /\ UNCHANGED <<enrolled, applied, handling, deskVars>>

\* Exams and centres arrive, or the page says that the server is away.
ListsArrive(t) ==
    /\ tab[t].lists = "loading"
    /\ \E l \in {"shown", "down"} : Fill(t, [tab[t] EXCEPT !.lists = l])

\* The role stays changeable while the form is on its way with the one chosen before.
ChooseRole(t, r) ==
    /\ KindOf[t] = "staff"
    /\ tab[t].role # r
    /\ Fill(t, [tab[t] EXCEPT !.role = r])

\* Centre and name; the exam may be left out.
FillStaffForm(t) ==
    /\ KindOf[t] = "staff"
    /\ tab[t].lists = "shown" /\ ~tab[t].filled
    /\ Fill(t, [tab[t] EXCEPT !.filled = TRUE])

\* Name, date of birth, exam and centre; the address may be left out.
FillCandidateForm(t) ==
    /\ KindOf[t] = "candidate"
    /\ tab[t].lists = "shown" /\ ~tab[t].filled
    /\ Fill(t, [tab[t] EXCEPT !.filled = TRUE])

\* The camera and the face model, the same on both pages: denied, they may be tried again.
EnableCamera(t) ==
    /\ tab[t].cam \in {"idle", "denied"}
    /\ \E c \in {"live", "denied"} : Fill(t, [tab[t] EXCEPT !.cam = c])

\* A face is found; while none is, the camera stays on.
CaptureFace(t) ==
    /\ tab[t].cam = "live"
    /\ Fill(t, [tab[t] EXCEPT !.cam = "captured"])

MayRegister(t) == tab[t].filled /\ tab[t].cam = "captured" /\ tab[t].lists # "down"

SubmitRegistration(t) ==
    /\ KindOf[t] = "staff"
    /\ MayRegister(t) /\ tab[t].call = "none"
    /\ Fill(t, [tab[t] EXCEPT !.call = "sent", !.as = tab[t].role])

SubmitEnrolment(t) ==
    /\ KindOf[t] = "candidate"
    /\ MayRegister(t) /\ tab[t].call = "none"
    /\ Fill(t, [tab[t] EXCEPT !.call = "sent"])

\* The roll number takes the place of the form ...
ShowRoll(t) ==
    /\ KindOf[t] = "candidate"
    /\ tab[t].call = "answered"
    /\ Fill(t, [tab[t] EXCEPT !.call = "none", !.result = tab[t].seen])

\* ... or the request's id and its approver.
ShowPending(t) ==
    /\ KindOf[t] = "staff"
    /\ tab[t].call = "answered"
    /\ Fill(t, [tab[t] EXCEPT !.call = "none", !.result = tab[t].seen])

\* No answer, or a refusal, whether the backend is through with it or not: the form stays
\* as it is, and can be sent again.
RegistrationFails(t) ==
    /\ tab[t].call # "none"
    /\ tab' = [tab EXCEPT ![t].call = "none"]
    /\ handling' = [i \in DOMAIN handling |->
         IF handling[i].by = t THEN [handling[i] EXCEPT !.heard = FALSE] ELSE handling[i]]
    /\ UNCHANGED <<enrolled, applied, deskVars>>

(***************************************************************************)
(* The backend.                                                            *)
(***************************************************************************)
\* Variant: the enrolments at the centre are counted.
CountEnrolledAtCentre(t) ==
    Cardinality({i \in DOMAIN enrolled : CentreOf[enrolled[i].by] = CentreOf[t]})

\* The enrolments of the exam.
CountEnrolled(t) == Len(enrolled)

\* enrol_candidate reads the number of enrolments; "after" only records when it did ...
BeginEnrolment(t) ==
    /\ KindOf[t] = "candidate"
    /\ tab[t].call = "sent"
    /\ Stored + Len(handling) < MaxRows
    /\ handling' = Append(handling, [by |-> t, count |-> CountEnrolled(t),
                                     after |-> Len(enrolled), heard |-> TRUE])
    /\ tab' = [tab EXCEPT ![t].call = "served"]
    /\ UNCHANGED <<enrolled, applied, deskVars>>

Answer(t, heard, row) ==
    tab' = IF heard THEN [tab EXCEPT ![t].call = "answered", ![t].seen = row] ELSE tab

\* ... and commits the enrolment with the next roll number, in any order with the others.
CommitEnrolment(i) ==
    LET h == handling[i]
    IN  /\ enrolled' = Append(enrolled, [by |-> h.by, state |-> StateOf[CentreOf[h.by]],
                                         seq |-> h.count + 1, after |-> h.after])
        /\ handling' = RemoveAt(handling, i)
        /\ Answer(h.by, h.heard, Len(enrolled) + 1)
        /\ UNCHANGED <<applied, deskVars>>

\* register: the System Admin approves Centre Admins, they approve their invigilators.
RegisterStaff(t) ==
    /\ KindOf[t] = "staff"
    /\ tab[t].call = "sent"
    /\ Stored + Len(handling) < MaxRows
    /\ applied' = Append(applied, [by |-> t, role |-> tab[t].as,
                                   approver |-> IF tab[t].as = "CENTER_ADMIN" THEN "SYSTEM_ADMIN"
                                                ELSE "CENTER_ADMIN",
                                   code |-> 0, fp |-> FALSE])
    /\ Answer(t, TRUE, Len(applied) + 1)
    /\ UNCHANGED <<enrolled, handling, deskVars>>

(***************************************************************************)
(* The approvals of the System Admin.                                      *)
(***************************************************************************)
\* The page is mounted: it lists the requests to be a Centre Admin that are pending, those
\* only; codes shown before are gone, answers under way go nowhere.
LoadDesk ==
    /\ \E n \in DOMAIN applied : applied[n].approver = "SYSTEM_ADMIN"
    /\ desk' = [NoDesk EXCEPT !.row = [n \in 1..MaxRows |->
         IF n \in DOMAIN applied /\ applied[n].approver = "SYSTEM_ADMIN" /\ applied[n].code = 0
         THEN [listed |-> TRUE, code |-> 0, fp |-> applied[n].fp] ELSE NoDesk.row[n]]]
    /\ errands' = <<>>
    /\ UNCHANGED <<tab, enrolled, applied, handling, issued>>

\* The page remembers one busy row: a button of another row frees this one.
Click(is, n) ==
    /\ desk.row[n].listed
    /\ desk.busy # n
    /\ Len(errands) < MaxIssues
    /\ desk' = [desk EXCEPT !.busy = n]
    /\ errands' = Append(errands, [is |-> is, row |-> n, done |-> FALSE, code |-> 0])
    /\ UNCHANGED <<tab, enrolled, applied, handling, issued>>

\* "Approve & issue one-time code", or issue another.
IssueCode(n) == Click("issue", n)

AuthoriseFp(n) == ~desk.row[n].fp /\ Click("fp", n)

\* issue_staff_code: a new code takes the place of the one stored.
IssueStaffCode(i) ==
    /\ errands[i].is = "issue" /\ ~errands[i].done
    /\ issued < MaxIssues
    /\ issued' = issued + 1
    /\ applied' = [applied EXCEPT ![errands[i].row].code = issued']
    /\ errands' = [errands EXCEPT ![i].done = TRUE, ![i].code = issued']
    /\ UNCHANGED <<tab, enrolled, handling, desk>>

AuthoriseStaffFp(i) ==
    /\ errands[i].is = "fp" /\ ~errands[i].done
    /\ applied' = [applied EXCEPT ![errands[i].row].fp = TRUE]
    /\ errands' = [errands EXCEPT ![i].done = TRUE]
    /\ UNCHANGED <<tab, enrolled, handling, desk, issued>>

\* Answers are shown in the order they arrive, and free the busy row, whichever it is.
ShowErrand(i) ==
    LET e == errands[i]
    IN  /\ e.done
        /\ desk' = [desk EXCEPT !.busy = 0,
                               !.row[e.row] = IF e.is = "issue" THEN [@ EXCEPT !.code = e.code]
                                              ELSE [@ EXCEPT !.fp = TRUE]]
        /\ errands' = RemoveAt(errands, i)
        /\ UNCHANGED <<tab, enrolled, applied, handling, issued>>

\* So does a failure, whether the backend did it or not: a code without its answer is lost.
ErrandFails(i) ==
    /\ desk' = [desk EXCEPT !.busy = 0]
    /\ errands' = RemoveAt(errands, i)
    /\ UNCHANGED <<tab, enrolled, applied, handling, issued>>

RegistrationNext ==
    \/ \E t \in Tabs :
         \/ ListsArrive(t) \/ FillStaffForm(t) \/ FillCandidateForm(t)
         \/ EnableCamera(t) \/ CaptureFace(t)
         \/ SubmitRegistration(t) \/ SubmitEnrolment(t)
         \/ ShowRoll(t) \/ ShowPending(t) \/ RegistrationFails(t)
         \/ BeginEnrolment(t) \/ RegisterStaff(t)
         \/ \E r \in StaffRoles : ChooseRole(t, r)
    \/ \E i \in DOMAIN handling : CommitEnrolment(i)
    \/ LoadDesk
    \/ \E n \in 1..MaxRows : IssueCode(n) \/ AuthoriseFp(n)
    \/ \E i \in DOMAIN errands :
         IssueStaffCode(i) \/ AuthoriseStaffFp(i) \/ ShowErrand(i) \/ ErrandFails(i)

RegistrationSpec == RegistrationInit /\ [][RegistrationNext]_registrationVars

(***************************************************************************)
(* Properties.                                                             *)
(***************************************************************************)
\* Enrolments in one state get different roll numbers, whatever centres they are at and
\* whatever forms are sent again, unless the call for the later one counted before the
\* earlier one was stored (enroll.py 122-127): only calls that overlap can collide.
RollsDistinctInSequence ==
    \A i, j \in DOMAIN enrolled :
        i < j /\ enrolled[i].state = enrolled[j].state /\ enrolled[i].seq = enrolled[j].seq
            => enrolled[j].after < i

\* A call under way counted the enrolments there were when it began, and each enrolment
\* has the number after what its call counted.
CountsKept ==
    /\ \A i \in DOMAIN handling :
         /\ handling[i].count = handling[i].after
         /\ handling[i].after <= Len(enrolled)
    /\ \A i \in DOMAIN enrolled :
         /\ enrolled[i].seq = enrolled[i].after + 1
         /\ enrolled[i].after < i

\* An inductive invariant.
RegistrationInv ==
    /\ RegistrationTypeOK
    /\ CountsKept
=============================================================================
