---------------------------- MODULE ExamSession ----------------------------
(***************************************************************************)
(* A candidate's way through the exam pages of the public site: dashboard, *)
(* instructions, system check, the session under its lockdown, receipt.    *)
(* The session is React state alone: a reload starts it over, and          *)
(* submitting sends nothing, it only leaves the page.                      *)
(*                                                                         *)
(* A definition marked "Variant" is no part of the specification: it is    *)
(* the next definition with a plausible mistake, which a property refutes. *)
(***************************************************************************)
EXTENDS Integers, FiniteSets

CONSTANTS
    NumQuestions,  \* questions of the paper, in its order
    Sections,      \* its sections
    SectionOf,     \* the section of each question: its subject
    Letters,       \* the options of a question
    NoLetter,      \* no option
    NumChecks,     \* checks of the terminal, eight in the code
    Duration,      \* ticks of the session's timer
    MaxReloads     \* bound: reloads, and checks that fail

Questions == 1..NumQuestions

ASSUME ExamSessionAssumption ==
    /\ NumQuestions \in Nat \ {0}
    /\ SectionOf \in [Questions -> Sections]
    /\ NoLetter \notin Letters
    /\ NumChecks \in Nat \ {0}
    /\ Duration \in Nat \ {0}
    /\ MaxReloads \in Nat

VARIABLES
    place,     \* the page
    accepted,  \* the declaration of the instructions page
    checks,    \* the run of checks of the page, if it has one
    sheet,     \* states: what is chosen, saved, marked, visited
    at,        \* current question and active section
    timer,     \* timeLeft
    lock,      \* state of ExamLockdown
    flags,     \* tabSwitchCount and antiCheatWarning
    confirm,   \* showSubmitConfirm
    submitted, \* isSubmitted
    reloads    \* reloads and failed checks so far

examVars == <<place, accepted, checks, sheet, at, timer, lock, flags, confirm, submitted, reloads>>
sessionVars == <<sheet, at, timer, lock, flags, confirm, submitted>>

NewChecks == [done |-> 0, failed |-> FALSE, verdict |-> "running"]

NewSheet ==
    [q \in Questions |-> [chosen |-> NoLetter, saved |-> NoLetter, marked |-> FALSE, visited |-> q = 1]]

FlagAt == 5   \* from here on the count of focus losses makes no difference

ExamTypeOK ==
    /\ place \in {"dashboard", "instructions", "checks", "session", "receipt"}
    /\ accepted \in BOOLEAN
    /\ checks \in [done : 0..NumChecks, failed : BOOLEAN, verdict : {"running", "passed", "failed"}]
    /\ sheet \in [Questions -> [chosen : Letters \cup {NoLetter}, saved : Letters \cup {NoLetter},
                                marked : BOOLEAN, visited : BOOLEAN]]
    /\ at \in [q : Questions, section : Sections]
    /\ timer \in 0..Duration
    /\ lock \in {"before", "full", "paused"}
    /\ flags \in [count : 0..FlagAt, fading : BOOLEAN,
                  warning : {"none", "note", "focus", "repeated", "critical"}]
    /\ confirm \in BOOLEAN
    /\ submitted \in BOOLEAN
    /\ reloads \in 0..MaxReloads

NewSession ==
    /\ sheet' = NewSheet
    /\ at' = [q |-> 1, section |-> SectionOf[1]]
    /\ timer' = Duration
    /\ lock' = "before"
    /\ flags' = [count |-> 0, fading |-> FALSE, warning |-> "none"]
    /\ confirm' = FALSE
    /\ submitted' = FALSE

ExamInit ==
    /\ place \in {"dashboard", "checks"}
    /\ accepted = FALSE
    /\ checks = NewChecks
    /\ sheet = NewSheet
    /\ at = [q |-> 1, section |-> SectionOf[1]]
    /\ timer = Duration
    /\ lock = "before"
    /\ flags = [count |-> 0, fading |-> FALSE, warning |-> "none"]
    /\ confirm = FALSE
    /\ submitted = FALSE
    /\ reloads = 0

Again == reloads < MaxReloads /\ reloads' = reloads + 1

(***************************************************************************)
(* Before the session.                                                     *)
(***************************************************************************)
\* "Enter" of a live exam.
EnterInstructions ==
    /\ place = "dashboard"
    /\ place' = "instructions"
    /\ accepted' = FALSE
    /\ UNCHANGED <<checks, sessionVars, reloads>>

BackToDashboard ==
    /\ place = "instructions"
    /\ place' = "dashboard"
    /\ UNCHANGED <<accepted, checks, sessionVars, reloads>>

Accept ==
    /\ place = "instructions"
    /\ accepted' = ~accepted
    /\ UNCHANGED <<place, checks, sessionVars, reloads>>

Proceed ==
    /\ place = "instructions"
    /\ accepted
    /\ place' = "checks"
    /\ checks' = NewChecks
    /\ UNCHANGED <<accepted, sessionVars, reloads>>

Judged(failed) == IF failed THEN "failed" ELSE "passed"

\* One check of runChecks is over; the last one gives the verdict.
RunCheck(failed) ==
    /\ place = "checks"
    /\ checks.verdict = "running"
    /\ IF failed THEN Again ELSE UNCHANGED reloads
    /\ LET bad == checks.failed \/ failed
           done == checks.done + 1
       IN  checks' = [done |-> done, failed |-> bad,
                      verdict |-> IF done = NumChecks THEN Judged(bad) ELSE "running"]
    /\ UNCHANGED <<place, accepted, sessionVars>>

RunChecksAgain ==
    /\ place = "checks"
    /\ checks.verdict = "failed"
    /\ checks' = NewChecks
    /\ UNCHANGED <<place, accepted, sessionVars, reloads>>

EnterSession ==
    /\ place = "checks"
    /\ checks.verdict = "passed"
    /\ place' = "session"
    /\ NewSession
    /\ UNCHANGED <<accepted, checks, reloads>>

\* The back button is not trapped before the session is started.
BackToChecks ==
    /\ place = "session"
    /\ lock = "before"
    /\ place' = "checks"
    /\ checks' = NewChecks
    /\ UNCHANGED <<accepted, sessionVars, reloads>>

(***************************************************************************)
(* The lockdown.                                                           *)
(***************************************************************************)
InSession == place = "session"

\* "Start Exam" and "Return to Fullscreen".
GoFullscreen ==
    /\ InSession
    /\ lock = "before" \/ (lock = "paused" /\ ~submitted)
    /\ lock' = "full"
    /\ UNCHANGED <<place, accepted, checks, sheet, at, timer, flags, confirm, submitted, reloads>>

\* handleViolation for a lost focus: counted, and warned of ever more sternly.
FocusLost ==
    LET count == IF flags.count < FlagAt THEN flags.count + 1 ELSE FlagAt
    IN  [flags EXCEPT !.count = count,
           !.warning = IF count >= 5 THEN "critical" ELSE IF count >= 3 THEN "repeated" ELSE "focus"]

\* Fullscreen is left, or the window loses the focus.
LoseFocus ==
    /\ InSession
    /\ lock # "before"
    /\ ~submitted
    /\ lock' \in {lock, "paused"}
    /\ flags' = FocusLost
    /\ UNCHANGED <<place, accepted, checks, sheet, at, timer, confirm, submitted, reloads>>

\* A blocked shortcut or the back button: a note that clears itself.
Shortcut ==
    /\ InSession
    /\ lock # "before"
    /\ flags' = [flags EXCEPT !.warning = "note", !.fading = TRUE]
    /\ UNCHANGED <<place, accepted, checks, sheet, at, timer, lock, confirm, submitted, reloads>>

\* The note's timer clears whatever warning is there by now, and "Understood" what
\* is shown.
ClearWarning ==
    /\ InSession
    /\ \/ flags.fading /\ \E more \in BOOLEAN : flags' = [flags EXCEPT !.warning = "none", !.fading = more]
       \/ /\ lock = "full"
          /\ flags.warning # "none"
          /\ flags' = [flags EXCEPT !.warning = "none"]
    /\ UNCHANGED <<place, accepted, checks, sheet, at, timer, lock, confirm, submitted, reloads>>

(***************************************************************************)
(* Answering: what the session shows in fullscreen.                        *)
(***************************************************************************)
Shown == InSession /\ (lock = "full" \/ (submitted /\ lock = "paused"))

OnlySheet ==
    UNCHANGED <<place, accepted, checks, timer, lock, flags, confirm, submitted, reloads>>

Visit(s, q) == [s EXCEPT ![q].visited = TRUE]

\* navigateTo: out of range it does nothing.
NavigateTo(s, q) ==
    IF q \in Questions
    THEN sheet' = Visit(s, q) /\ at' = [q |-> q, section |-> SectionOf[q]]
    ELSE sheet' = s /\ at' = at

\* The palette offers the active section, "Previous" the question before.
Move(q) ==
    /\ Shown
    /\ SectionOf[q] = at.section \/ q = at.q - 1
    /\ NavigateTo(sheet, q)
    /\ OnlySheet

\* A section's tab leads to its first question.
OpenSection(q) ==
    /\ Shown
    /\ \A p \in Questions : SectionOf[p] = SectionOf[q] => q <= p
    /\ NavigateTo(sheet, q)
    /\ OnlySheet

SelectOption(o) ==
    /\ Shown
    /\ sheet' = [sheet EXCEPT ![at.q].chosen = o]
    /\ UNCHANGED at
    /\ OnlySheet

\* saveAndNext, markForReviewAndNext: what is chosen is saved, be it nothing.
SaveAndNext(mark) ==
    /\ Shown
    /\ NavigateTo([sheet EXCEPT ![at.q].saved = sheet[at.q].chosen,
                                ![at.q].marked = @ \/ mark, ![at.q].visited = TRUE], at.q + 1)
    /\ OnlySheet

ClearChoice ==
    /\ Shown
    /\ sheet' = [sheet EXCEPT ![at.q].chosen = NoLetter, ![at.q].saved = NoLetter]
    /\ UNCHANGED at
    /\ OnlySheet

(***************************************************************************)
(* The end of the session.                                                 *)
(***************************************************************************)
AskToSubmit ==
    /\ Shown
    /\ confirm' = ~confirm
    /\ UNCHANGED <<place, accepted, checks, sheet, at, timer, lock, flags, submitted, reloads>>

\* handleSubmit: fullscreen is left, the receipt asked for.
HandleSubmit ==
    /\ submitted' = TRUE
    /\ lock' = IF lock = "full" THEN "paused" ELSE lock

ConfirmSubmit ==
    /\ Shown
    /\ confirm
    /\ HandleSubmit
    /\ UNCHANGED <<place, accepted, checks, sheet, at, timer, flags, confirm, reloads>>

\* Variant: the clock stands while the exam is paused.
TicksInFullscreen == ~submitted /\ lock = "full"

\* The clock runs from the mount on: before fullscreen is entered, and while "paused".
Ticks == ~submitted

TimeIsUp == timer <= 1

TimerTick ==
    /\ InSession
    /\ Ticks
    /\ IF TimeIsUp THEN timer' = 0 /\ HandleSubmit
                     ELSE timer' = timer - 1 /\ UNCHANGED <<submitted, lock>>
    /\ UNCHANGED <<place, accepted, checks, sheet, at, flags, confirm, reloads>>

\* router.replace has loaded the receipt.
ShowReceipt ==
    /\ InSession
    /\ submitted
    /\ place' = "receipt"
    /\ UNCHANGED <<accepted, checks, sessionVars, reloads>>

\* A reload the candidate insists on: a fresh session with a full clock.
ReloadSession ==
    /\ InSession
    /\ Again
    /\ NewSession
    /\ UNCHANGED <<place, accepted, checks>>

ExamNext ==
    \/ EnterInstructions \/ BackToDashboard \/ Accept \/ Proceed \/ RunChecksAgain
    \/ EnterSession \/ BackToChecks
    \/ \E failed \in BOOLEAN : RunCheck(failed)
    \/ GoFullscreen \/ LoseFocus \/ Shortcut \/ ClearWarning
    \/ \E q \in Questions : Move(q) \/ OpenSection(q)
    \/ \E o \in Letters : SelectOption(o)
    \/ \E mark \in BOOLEAN : SaveAndNext(mark)
    \/ ClearChoice \/ AskToSubmit \/ ConfirmSubmit \/ TimerTick \/ ShowReceipt \/ ReloadSession

ExamSpec == ExamInit /\ [][ExamNext]_examVars

\* Timers and the router; people owe nothing.
ExamServes == TimerTick \/ ShowReceipt

ExamFairness == WF_examVars(ExamServes)

(***************************************************************************)
(* Properties.                                                             *)
(***************************************************************************)
\* A session is not stayed in for ever, whatever the candidate does or leaves undone, in
\* fullscreen, "paused" or never started: the clock needs nobody.
SessionEnds == place = "session" ~> place # "session"
=============================================================================
