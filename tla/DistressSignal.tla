--------------------------- MODULE DistressSignal ---------------------------
(***************************************************************************)
(* A candidate's silent call for help: the panic button of the exam        *)
(* session, the alerts kept by the backend, and the alerts page of the     *)
(* invigilators, which asks for them every four seconds.  A request that   *)
(* fails is answered by the page itself: the alert is then kept in the     *)
(* candidate's own browser, and the list of an unreachable backend is the  *)
(* invigilator's own, which is empty.                                      *)
(*                                                                         *)
(* A definition marked "Variant" is no part of the specification: it is    *)
(* the next definition with a plausible mistake, which a property refutes. *)
(***************************************************************************)
EXTENDS Integers, FiniteSets

CONSTANTS
    MaxPresses,  \* bound: completed holds of the button
    Calls,       \* bound: requests of the alerts page in flight
    MaxFailures  \* bound: requests that fail, restarts of the backend

Alerts == 1..MaxPresses

ASSUME DistressAssumption ==
    /\ MaxPresses \in Nat \ {0}
    /\ MaxFailures \in Nat

VARIABLES
    holding,   \* a hold of the button is under way
    presses,   \* completed holds
    confirmed, \* "Help has been requested" is shown
    posting,   \* alerts on their way to the backend
    queued,    \* alerts kept in the candidate's browser
    alerts,    \* alerts the backend keeps
    resolved,  \* those of them that were attended
    listed,    \* open alerts the invigilator's page shows
    call,      \* its requests in flight
    failures   \* how much has failed so far

distressVars == <<holding, presses, confirmed, posting, queued, alerts, resolved, listed, call, failures>>
buttonVars == <<holding, presses, confirmed, posting, queued>>

NoCall == [kind |-> "none", alert |-> 0, answer |-> {}]

DistressTypeOK ==
    /\ holding \in BOOLEAN
    /\ presses \in 0..MaxPresses
    /\ confirmed \in BOOLEAN
    /\ posting \subseteq Alerts
    /\ queued \subseteq Alerts
    /\ alerts \subseteq Alerts
    /\ resolved \subseteq alerts
    /\ listed \subseteq Alerts
    /\ call \in [Calls -> [kind : {"none", "list", "listed", "resolve", "resolved"},
                           alert : 0..MaxPresses, answer : SUBSET Alerts]]
    /\ failures \in 0..MaxFailures

DistressInit ==
    /\ holding = FALSE
    /\ presses = 0
    /\ confirmed = FALSE
    /\ posting = {}
    /\ queued = {}
    /\ alerts = {}
    /\ resolved = {}
    /\ listed = {}
    /\ call = [c \in Calls |-> NoCall]
    /\ failures = 0

Failure == failures < MaxFailures /\ failures' = failures + 1

(***************************************************************************)
(* The button.                                                             *)
(***************************************************************************)
\* Three fingers or Ctrl+Shift+H.  The handlers were made by the first render: that an
\* alert has been sent already, they never see.
StartHold ==
    /\ ~holding
    /\ presses < MaxPresses
    /\ holding' = TRUE
    /\ UNCHANGED <<presses, confirmed, posting, queued, alerts, resolved, listed, call, failures>>

CancelHold ==
    /\ holding
    /\ holding' = FALSE
    /\ UNCHANGED <<presses, confirmed, posting, queued, alerts, resolved, listed, call, failures>>

\* Five seconds: help is said to be on its way before the request is made.
Trigger ==
    /\ holding
    /\ holding' = FALSE
    /\ presses' = presses + 1
    /\ confirmed' = TRUE
    /\ posting' = posting \cup {presses + 1}
    /\ UNCHANGED <<queued, alerts, resolved, listed, call, failures>>

Dismiss ==
    /\ confirmed
    /\ confirmed' = FALSE
    /\ UNCHANGED <<holding, presses, posting, queued, alerts, resolved, listed, call, failures>>

\* panic_alert; where the answer is lost the browser keeps the alert as well.
PanicAlert(a) ==
    /\ a \in posting
    /\ posting' = posting \ {a}
    /\ alerts' = alerts \cup {a}
    /\ \/ UNCHANGED <<queued, failures>>
       \/ Failure /\ queued' = queued \cup {a}
    /\ UNCHANGED <<holding, presses, confirmed, resolved, listed, call>>

\* The request fails: the alert stays in localStorage, from where nothing sends it.
PanicFails(a) ==
    /\ a \in posting
    /\ Failure
    /\ posting' = posting \ {a}
    /\ queued' = queued \cup {a}
    /\ UNCHANGED <<holding, presses, confirmed, alerts, resolved, listed, call>>

(***************************************************************************)
(* The alerts page.                                                        *)
(***************************************************************************)
AskAlerts(c, kind, a) == call[c] = NoCall /\ call' = [call EXCEPT ![c] = [NoCall EXCEPT !.kind = kind, !.alert = a]]

\* Variant: the page asks once, when it is opened.
RefreshesOnce == listed = {}

\* The interval, and an alert of the same browser.
AlertsRefresh == TRUE

RefreshAlerts(c) ==
    /\ AlertsRefresh
    /\ AskAlerts(c, "list", 0)
    /\ UNCHANGED <<buttonVars, alerts, resolved, listed, failures>>

\* "Mark Attended", as often as it is pressed.
ResolvePanic(c, a) ==
    /\ a \in listed
    /\ AskAlerts(c, "resolve", a)
    /\ UNCHANGED <<buttonVars, alerts, resolved, listed, failures>>

\* list_panic_alerts, resolve_panic_alert; an unknown alert is refused, which the page
\* takes for a success.
ServeAlerts(c) ==
    /\ call[c].kind \in {"list", "resolve"}
    /\ IF call[c].kind = "list"
       THEN /\ call' = [call EXCEPT ![c].kind = "listed", ![c].answer = alerts \ resolved]
            /\ UNCHANGED resolved
       ELSE /\ call' = [call EXCEPT ![c].kind = "resolved"]
            /\ resolved' = resolved \cup ({call[c].alert} \cap alerts)
    /\ UNCHANGED <<buttonVars, alerts, listed, failures>>

\* The answer is used, in whatever order answers come.
ShowAlerts(c) ==
    /\ call[c].kind \in {"listed", "resolved"}
    /\ listed' = IF call[c].kind = "listed" THEN call[c].answer ELSE listed \ {call[c].alert}
    /\ call' = [call EXCEPT ![c] = NoCall]
    /\ UNCHANGED <<buttonVars, alerts, resolved, failures>>

\* Request or answer are lost: an empty list, an alert marked on this page only.
AlertsFail(c) ==
    /\ call[c] # NoCall
    /\ Failure
    /\ listed' = IF call[c].kind \in {"list", "listed"} THEN {} ELSE listed \ {call[c].alert}
    /\ call' = [call EXCEPT ![c] = NoCall]
    /\ UNCHANGED <<buttonVars, alerts, resolved>>

\* The backend keeps the alerts in its memory.
RestartBackend ==
    /\ alerts # {}
    /\ Failure
    /\ alerts' = {}
    /\ resolved' = {}
    /\ UNCHANGED <<buttonVars, listed, call>>

DistressNext ==
    \/ RestartBackend
    \/ StartHold \/ CancelHold \/ Trigger \/ Dismiss
    \/ \E a \in Alerts : PanicAlert(a) \/ PanicFails(a)
    \/ \E c \in Calls : RefreshAlerts(c) \/ ServeAlerts(c) \/ ShowAlerts(c) \/ AlertsFail(c)
    \/ \E c \in Calls, a \in Alerts : ResolvePanic(c, a)

DistressSpec == DistressInit /\ [][DistressNext]_distressVars

\* Requests are served and their answers used; the interval goes on.
DistressFairness ==
    /\ \A a \in Alerts : WF_distressVars(PanicAlert(a))
    /\ \A c \in Calls :
         /\ WF_distressVars(ServeAlerts(c))
         /\ WF_distressVars(ShowAlerts(c))
         /\ SF_distressVars(RefreshAlerts(c))

(***************************************************************************)
(* Properties.                                                             *)
(***************************************************************************)
\* An alert that the backend keeps is shown to the invigilators or attended, although
\* lists come late, in any order or not at all, and alerts are repeated - unless the
\* backend has been restarted.
AlertIsSeen == \A a \in Alerts : a \in alerts ~> (a \in listed \cup resolved \/ a \notin alerts)
=============================================================================
