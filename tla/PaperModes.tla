----------------------------- MODULE PaperModes -----------------------------
(***************************************************************************)
(* The three pages on which a setter makes a paper.  Direct Upload sends   *)
(* two PDFs to the backend, polls the pipeline's status and has the result *)
(* attacked by the red team; AI Full Generation and AI-Updated Upload work *)
(* on questions of their own, which the setter approves or rejects.        *)
(*                                                                         *)
(* A definition marked "Variant" is no part of the specification: it is    *)
(* the next definition with a plausible mistake, which a property refutes. *)
(***************************************************************************)
EXTENDS Integers

CONSTANTS
    Drafts,     \* questions of the two AI pages
    Untouched,  \* those the AI left unchanged: approved from the start
    MaxTasks,   \* bound: pipelines started
    MaxAttacks, \* bound: red team runs
    MaxGaps     \* bound: requests that get no answer, restarts of the backend

ASSUME PaperAssumption ==
    /\ Untouched \subseteq Drafts
    /\ MaxTasks \in Nat
    /\ MaxAttacks \in Nat
    /\ MaxGaps \in Nat

VARIABLES
    draft,   \* the page: its mode, step, what is filled in, files, progress, the upload
    task,    \* _TASKS at the backend: in its memory only
    poll,    \* the polling of this page: the task, the answer on its way
    attack,  \* red team runs: the upload each looked at, whether it found blockers
    judged,  \* approval of each question of an AI page
    gaps     \* requests that got no answer so far, restarts of the backend

paperVars == <<draft, task, poll, attack, judged, gaps>>

Modes == {"upload", "generated", "edited"}

Tasks == 0..MaxTasks

\* Before it was made a task is none to anyone; NOT_FOUND is the answer for a forgotten one.
PipelineStatus == {"PENDING", "PROGRESS", "SUCCESS", "FAILURE", "NOT_FOUND"}

\* The step at which a page processes: "CV Processing".
Busy(m) == IF m = "upload" THEN 3 ELSE 2

ReviewStep(m) == Busy(m) + 1

\* The step whose Next asks for the two files.
Files(m) == IF m = "upload" THEN 2 ELSE 0

\* What a page asks before it processes.
Setup == {"institution", "details", "settings", "difficulty"}

NoReport == [task |-> 0, passed |-> TRUE]

NoAttack == [paper |-> 0, panel |-> "none"]

PaperTypeOK ==
    /\ draft \in [mode : Modes, step : 0..4, setup : SUBSET Setup, files : SUBSET {"syllabus", "paper"},
                  progress : 0..2, failed : BOOLEAN, parsed : Tasks, report : [task : Tasks, passed : BOOLEAN]]
    /\ task \in [Tasks -> [status : PipelineStatus \cup {"NONE"}, blockers : BOOLEAN]]
    /\ poll \in [at : {"off", "posting", "waiting", "asked", "mock"}, task : Tasks,
                 got : PipelineStatus \cup {"none"}]
    /\ attack \in [1..MaxAttacks -> [paper : Tasks, panel : {"none", "mounted", "gone"}]]
    /\ judged \in [Drafts -> {"open", "yes", "no"}]
    /\ gaps \in 0..MaxGaps

NoPoll == [at |-> "off", task |-> 0, got |-> "none"]

PaperInit ==
    /\ \E m \in Modes :
         /\ draft = [mode |-> m, step |-> 0, setup |-> {}, files |-> {}, progress |-> 0, failed |-> FALSE,
                     parsed |-> 0, report |-> NoReport]
         /\ judged = [d \in Drafts |-> IF m = "edited" /\ d \in Untouched THEN "yes" ELSE "open"]
    /\ task \in [Tasks -> [status : {"NONE"}, blockers : BOOLEAN]]
    /\ poll = NoPoll
    /\ attack = [n \in 1..MaxAttacks |-> NoAttack]
    /\ gaps = 0

(***************************************************************************)
(* The steps.                                                              *)
(***************************************************************************)
FillIn(x) ==
    /\ x \notin draft.setup
    /\ draft' = [draft EXCEPT !.setup = @ \cup {x}]
    /\ UNCHANGED <<task, poll, attack, judged, gaps>>

\* Neither of them is asked for by Next.
ChooseInstitution == draft.mode = "upload" /\ draft.step = 0 /\ FillIn("institution")

EnterDetails == draft.mode = "upload" /\ draft.step = 1 /\ FillIn("details")

\* Nor these; a distribution of difficulty that is not 100 percent only brings a warning.
SetPaper == draft.mode = "generated" /\ draft.step = 1 /\ FillIn("settings")

\* This one is.
ChooseDifficulty == draft.mode = "edited" /\ draft.step = 1 /\ FillIn("difficulty")

PickFile(f) ==
    /\ draft.step = Files(draft.mode)
    /\ f \notin draft.files
    /\ draft' = [draft EXCEPT !.files = @ \cup {f}]
    /\ UNCHANGED <<task, poll, attack, judged, gaps>>

\* Next; entering the processing step starts it.
NextStep ==
    /\ draft.step \notin {Busy(draft.mode), ReviewStep(draft.mode)}
    /\ draft.step = Files(draft.mode) => draft.files = {"syllabus", "paper"}
    /\ draft.mode = "edited" /\ draft.step = 1 => "difficulty" \in draft.setup
    /\ LET n == draft.step + 1
       IN  IF n = Busy(draft.mode)
           THEN /\ draft' = [draft EXCEPT !.step = n, !.progress = 0, !.failed = FALSE]
                /\ IF draft.mode = "upload" THEN poll' = [NoPoll EXCEPT !.at = "posting"]
                   ELSE UNCHANGED poll
           ELSE draft' = [draft EXCEPT !.step = n] /\ UNCHANGED poll
    /\ UNCHANGED <<task, attack, judged, gaps>>

\* Previous: from the review back into the processing step, which starts over; the panel
\* of the red team goes, a run of it does not.
PreviousStep ==
    /\ draft.step \notin {0, Busy(draft.mode)}
    /\ LET back == draft.step - 1
       IN  IF back = Busy(draft.mode) /\ draft.mode = "upload"
           THEN /\ draft' = [draft EXCEPT !.step = back, !.progress = 0, !.failed = FALSE]
                /\ poll' = [NoPoll EXCEPT !.at = "posting"]
                /\ attack' = [n \in DOMAIN attack |->
                     IF attack[n] = NoAttack THEN NoAttack ELSE [attack[n] EXCEPT !.panel = "gone"]]
           ELSE draft' = [draft EXCEPT !.step = back] /\ UNCHANGED <<poll, attack>>
    /\ UNCHANGED <<task, judged, gaps>>

(***************************************************************************)
(* Direct Upload: the pipeline and its polling.                            *)
(***************************************************************************)
\* The upload is accepted and a task made of it ...
Post ==
    /\ poll.at = "posting"
    /\ \E t \in 1..MaxTasks :
         /\ task[t].status = "NONE"
         /\ \A u \in 1..(t - 1) : task[u].status # "NONE"
         /\ task' = [task EXCEPT ![t].status = "PENDING"]
         /\ poll' = [at |-> "waiting", task |-> t, got |-> "none"]
    /\ UNCHANGED <<draft, attack, judged, gaps>>

\* ... or not: the page simulates the pipeline.
PostFails ==
    /\ poll.at = "posting"
    /\ poll' = [poll EXCEPT !.at = "mock"]
    /\ UNCHANGED <<draft, task, attack, judged, gaps>>

Pipeline(t) ==
    /\ \/ /\ task[t].status = "PENDING"
          /\ task' = [task EXCEPT ![t].status = "PROGRESS"]
       \/ /\ task[t].status = "PROGRESS"
          /\ \E s \in {"SUCCESS", "FAILURE"} : task' = [task EXCEPT ![t].status = s]
    /\ UNCHANGED <<draft, poll, attack, judged, gaps>>

\* A restart: every task that was made is forgotten, and its pipeline gone.
ForgetTasks ==
    /\ gaps < MaxGaps
    /\ gaps' = gaps + 1
    /\ task' = [t \in Tasks |-> IF task[t].status = "NONE" THEN task[t]
                               ELSE [task[t] EXCEPT !.status = "NOT_FOUND"]]
    /\ UNCHANGED <<draft, poll, attack, judged>>

AskStatus ==
    /\ poll.at = "waiting"
    /\ poll' = [poll EXCEPT !.at = "asked", !.got = task[poll.task].status]
    /\ UNCHANGED <<draft, task, attack, judged, gaps>>

\* Variant: a poll without an answer is the last one.
NoAnswerEnds == poll' = NoPoll

\* A poll without an answer is followed by another, 800 ms later.
NoAnswer == poll' = [poll EXCEPT !.at = "waiting", !.got = "none"]

PollLost ==
    /\ poll.at = "asked"
    /\ gaps < MaxGaps
    /\ gaps' = gaps + 1
    /\ NoAnswer
    /\ UNCHANGED <<draft, task, attack, judged>>

\* A task that is not found has neither succeeded nor failed: the page goes on polling.
TakeStatus ==
    /\ poll.at = "asked"
    /\ CASE poll.got = "SUCCESS" ->
              draft' = [draft EXCEPT !.progress = 2, !.parsed = poll.task] /\ poll' = NoPoll
         [] poll.got = "FAILURE" ->
              draft' = [draft EXCEPT !.failed = TRUE] /\ poll' = NoPoll
         [] OTHER ->
              /\ draft' = [draft EXCEPT !.progress = IF poll.got = "PROGRESS" THEN 1 ELSE 0]
              /\ poll' = [poll EXCEPT !.at = "waiting", !.got = "none"]
    /\ UNCHANGED <<task, attack, judged, gaps>>

\* What the page shows while it processes: progress, or on Direct Upload a failure.
Processing == draft.step = Busy(draft.mode) /\ ~draft.failed

\* The simulated pipeline, and that of the AI pages: progress until it is complete.
Simulate ==
    /\ draft.step = Busy(draft.mode)
    /\ draft.progress < 2
    /\ draft.mode = "upload" => poll.at = "mock"
    /\ draft' = [draft EXCEPT !.progress = @ + 1, !.parsed = 0]
    /\ poll' = IF draft.mode = "upload" /\ draft.progress = 1 THEN NoPoll ELSE poll
    /\ UNCHANGED <<task, attack, judged, gaps>>

\* The timer after 100 percent: the review opens, and on it the red team panel.
OpenReview ==
    /\ draft.step = Busy(draft.mode)
    /\ draft.progress = 2
    /\ draft' = [draft EXCEPT !.step = ReviewStep(draft.mode)]
    /\ UNCHANGED <<task, poll, attack, judged, gaps>>

(***************************************************************************)
(* The red team.                                                           *)
(***************************************************************************)
\* At mount and by "Re-run", one at a time; paper 0 is the simulated one.
Attack(n) ==
    /\ draft.mode = "upload"
    /\ draft.step = ReviewStep("upload")
    /\ attack[n] = NoAttack
    /\ \A k \in DOMAIN attack : attack[k].panel # "mounted"
    /\ attack' = [attack EXCEPT ![n] = [paper |-> draft.parsed, panel |-> "mounted"]]
    /\ UNCHANGED <<draft, task, poll, judged, gaps>>

\* onResult sets the page's state, be the panel that asked still there or not.
RedTeamReport(n) ==
    /\ attack[n] # NoAttack
    /\ draft' = [draft EXCEPT !.report = [task |-> attack[n].paper,
                                         passed |-> ~task[attack[n].paper].blockers]]
    /\ attack' = [attack EXCEPT ![n] = NoAttack]
    /\ UNCHANGED <<task, poll, judged, gaps>>

(***************************************************************************)
(* The review of an AI page.                                               *)
(***************************************************************************)
Reviewing == draft.mode # "upload" /\ draft.step = ReviewStep(draft.mode)

\* The page of updates offers it for the questions that were changed.
Judge(d, v) ==
    /\ Reviewing
    /\ draft.mode = "edited" => d \notin Untouched
    /\ judged' = [judged EXCEPT ![d] = v]
    /\ UNCHANGED <<draft, task, poll, attack, gaps>>

ApproveAll ==
    /\ Reviewing
    /\ draft.mode = "generated"
    /\ judged' = [d \in Drafts |-> "yes"]
    /\ UNCHANGED <<draft, task, poll, attack, gaps>>

PaperNext ==
    \/ \E f \in {"syllabus", "paper"} : PickFile(f)
    \/ ChooseInstitution \/ EnterDetails \/ SetPaper \/ ChooseDifficulty
    \/ NextStep \/ PreviousStep \/ Post \/ PostFails \/ AskStatus \/ PollLost \/ TakeStatus
    \/ ForgetTasks \/ Simulate \/ OpenReview \/ ApproveAll
    \/ \E t \in 1..MaxTasks : Pipeline(t)
    \/ \E n \in 1..MaxAttacks : Attack(n) \/ RedTeamReport(n)
    \/ \E d \in Drafts, v \in {"yes", "no"} : Judge(d, v)

PaperSpec == PaperInit /\ [][PaperNext]_paperVars

\* The page's timers fire, requests end, and a pipeline that has been started ends.
PaperServes == Post \/ PostFails \/ AskStatus \/ TakeStatus \/ Simulate \/ OpenReview

PaperFairness ==
    /\ WF_paperVars(PaperServes)
    /\ WF_paperVars(\E t \in 1..MaxTasks : Pipeline(t))

(***************************************************************************)
(* Properties.                                                             *)
(***************************************************************************)
\* The page polls a task that the backend has forgotten.
Forgotten == poll.at \in {"waiting", "asked"} /\ task[poll.task].status = "NOT_FOUND"

\* A page that processes gets to the review or says that it failed, through polls that get
\* no answer (paper-modes.ts 112-121): it has no button to leave the step by.  Not so when
\* the backend restarts before the page has learned of the end: the answer is NOT_FOUND
\* (question_modes.py 129), which ends no polling, and the page polls for ever.
ProcessingEnds == Processing ~> (~Processing \/ Forgotten)
=============================================================================
