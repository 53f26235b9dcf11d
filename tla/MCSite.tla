------------------------------- MODULE MCSite -------------------------------
(* The parts of the public web site, one at a time: "focus" says which.  They share
   no state: each of them models what it uses of browser and backend for itself. *)
EXTENDS AnswerSync, ExamSession, CandidateCheck, DistressSignal, WebLogin, KeyCeremony,
        DualControl, PaperModes

CONSTANTS ea, es

\* Two questions, a section each.
MCSectionOf == <<"s1", "s2">>

\* An admin and an invigilator.
MCRoleOf == [a \in {ea, es} |-> IF a = es THEN "INVIGILATOR" ELSE "ADMIN"]

VARIABLE focus

vars == <<focus, syncVars, examVars, checkVars, distressVars, loginVars, ceremonyVars,
          dualVars, paperVars>>

SiteInit ==
    /\ focus \in {"sync", "exam", "check", "distress", "login", "ceremony", "dual", "paper"}
    /\ SyncInit
    /\ ExamInit /\ (focus # "exam" => place = "dashboard")
    /\ CheckInit
    /\ DistressInit
    /\ LoginInit /\ (focus # "login" => form.portal = "ADMIN")
    /\ CeremonyInit
    /\ DualInit
    /\ PaperInit
    /\ focus # "paper" => draft.mode = "upload" /\ \A t \in DOMAIN task : ~task[t].blockers

\* A step of one part leaves the others alone.
Only(part) ==
    /\ focus = part
    /\ UNCHANGED focus
    /\ part # "sync" => UNCHANGED syncVars
    /\ part # "exam" => UNCHANGED examVars
    /\ part # "check" => UNCHANGED checkVars
    /\ part # "distress" => UNCHANGED distressVars
    /\ part # "login" => UNCHANGED loginVars
    /\ part # "ceremony" => UNCHANGED ceremonyVars
    /\ part # "dual" => UNCHANGED dualVars
    /\ part # "paper" => UNCHANGED paperVars

SiteNext ==
    \/ Only("sync") /\ SyncNext
    \/ Only("exam") /\ ExamNext
    \/ Only("check") /\ CheckNext
    \/ Only("distress") /\ DistressNext
    \/ Only("login") /\ LoginNext
    \/ Only("ceremony") /\ CeremonyNext
    \/ Only("dual") /\ DualNext
    \/ Only("paper") /\ PaperNext

\* The fairness each part states, for the one that is in focus.
SiteFairness ==
    /\ \A f \in Flushes :
         /\ WF_syncVars(focus = "sync" /\ BeginFlush(f))
         /\ WF_syncVars(focus = "sync" /\ (RefuseSync(f) \/ ReadSync(f)))
         /\ WF_syncVars(focus = "sync" /\ CommitSync(f))
         /\ WF_syncVars(focus = "sync" /\ MarkSynced(f))
    /\ WF_examVars(focus = "exam" /\ ExamServes)
    /\ WF_checkVars(focus = "check" /\ CheckServes)
    /\ \A a \in Alerts : WF_distressVars(focus = "distress" /\ PanicAlert(a))
    /\ \A c \in Calls :
         /\ WF_distressVars(focus = "distress" /\ ServeAlerts(c))
         /\ WF_distressVars(focus = "distress" /\ ShowAlerts(c))
         /\ SF_distressVars(focus = "distress" /\ RefreshAlerts(c))
    /\ WF_paperVars(focus = "paper" /\ PaperServes)
    /\ WF_paperVars(focus = "paper" /\ \E t \in 1..MaxTasks : Pipeline(t))

Spec == SiteInit /\ [][SiteNext]_vars /\ SiteFairness

\* Of a browser with two sessions at the backend nothing is lost.
LostWithOne == Cardinality(rows) + starting = 2 => drops = 0

\* Blocked shortcuts and lost focus are followed up on an untouched paper only.
Quiet ==
    flags.count > 0 \/ flags.fading =>
        \A q \in Questions : sheet[q].chosen = NoLetter /\ ~sheet[q].marked

\* What Direct Upload asks and does not insist on is filled in before the files are picked.
Prompt == draft.mode = "upload" /\ draft.step >= 2 => draft.setup = {"institution", "details"}

\* The state of each part is well formed.
SiteTypeOK ==
    /\ focus = "sync" => SyncTypeOK
    /\ focus = "exam" => ExamTypeOK
    /\ focus = "check" => CheckTypeOK
    /\ focus = "distress" => DistressTypeOK
    /\ focus = "login" => LoginTypeOK
    /\ focus = "ceremony" => CeremonyTypeOK
    /\ focus = "dual" => DualTypeOK
    /\ focus = "paper" => PaperTypeOK
=============================================================================
