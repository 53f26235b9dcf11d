---------------------------- MODULE StaffPortals ----------------------------
(***************************************************************************)
(* A portal of the Centre Admin or of the System Admin: login, the pages   *)
(* that poll (dashboard, ledger, nationwide overview), the approvals page  *)
(* and the answer vault.  The two portals share this logic line by line.   *)
(* The token is in sessionStorage and is never removed: a refused call     *)
(* only sends the browser to /login.  A page that is left no longer draws  *)
(* what its requests bring, but their 401 or 403 still redirects.          *)
(*                                                                         *)
(* A definition marked "Variant" is no part of the specification: it is    *)
(* the next definition with a plausible mistake, which a property refutes. *)
(***************************************************************************)
EXTENDS Integers, FiniteSets

CONSTANTS
    Applicants,       \* pending registrations
    Nobody,           \* no applicant
    MaxEdgeChanges,   \* bound: changes of what the polled pages show
    MaxCodes,         \* bound: codes issued to one applicant
    MaxCalls,         \* bound: requests in flight when a new one is made
    MaxOutages        \* bound: failed requests, expired tokens

ASSUME PortalAssumption ==
    /\ Nobody \notin Applicants
    /\ MaxEdgeChanges \in Nat
    /\ MaxCodes \in Nat
    /\ MaxCalls \in Nat \ {0}
    /\ MaxOutages \in Nat

VARIABLES
    sitePage,  \* the page the browser shows
    token,     \* the token in sessionStorage
    edge,      \* what the Edge holds: a version of its counts, codes, fingerprints
    screen,    \* the state of the mounted page
    calls,     \* requests in flight
    outages    \* how much went wrong so far

portalVars == <<sitePage, token, edge, screen, calls, outages>>

PollingPages == {"dashboard", "ledger"}
Pages == PollingPages \cup {"login", "approvals", "vault"}

Nothing == -1

NewScreen == [shown |-> Nothing, authorised |-> {}, issued |-> [a \in Applicants |-> 0],
              busy |-> Nobody, result |-> "none"]

Calls == [kind : {"refresh", "issue", "authorise", "ingest"}, of : Applicants \cup {Nobody},
          accepted : BOOLEAN, mine : BOOLEAN, answer : {"waiting", "refused", "done"},
          data : Nat, fps : SUBSET Applicants]

PortalTypeOK ==
    /\ sitePage \in Pages
    /\ token \in {"none", "live", "expired"}
    /\ edge \in [version : 0..MaxEdgeChanges, code : [Applicants -> 0..MaxCodes],
                 authorised : SUBSET Applicants]
    /\ screen \in [shown : {Nothing} \cup (0..MaxEdgeChanges), authorised : SUBSET Applicants,
                   issued : [Applicants -> 0..MaxCodes], busy : Applicants \cup {Nobody},
                   result : {"none", "busy", "refused", "opened", "error"}]
    /\ calls \subseteq Calls
    /\ outages \in 0..MaxOutages

PortalInit ==
    /\ sitePage = "login"
    /\ token = "none"
    /\ edge = [version |-> 0, code |-> [a \in Applicants |-> 0], authorised |-> {}]
    /\ screen = NewScreen
    /\ calls = {}
    /\ outages = 0

Outage == outages < MaxOutages /\ outages' = outages + 1

Request(kind, a) ==
    [kind |-> kind, of |-> a, accepted |-> token = "live" \/ kind = "ingest", mine |-> TRUE,
     answer |-> "waiting", data |-> 0, fps |-> {}]

\* A page that is left keeps its requests, but draws them no more.
Leave == {[c EXCEPT !.mine = FALSE, !.data = 0, !.fps = {}] : c \in calls}

(***************************************************************************)
(* Login and navigation.                                                   *)
(***************************************************************************)
\* capture: the probe matches in every factor, or is denied and nothing changes.
PortalLogin ==
    /\ sitePage = "login"
    /\ token' = "live"
    /\ sitePage' = "dashboard"
    /\ calls' = Leave \cup {[Request("refresh", Nobody) EXCEPT !.accepted = TRUE]}
    /\ screen' = NewScreen
    /\ UNCHANGED <<edge, outages>>

\* The mount effect of a page: without a token to /login, else its first request.
Open(p) ==
    /\ p \notin {sitePage, "login"}
    /\ Cardinality(calls) < MaxCalls
    /\ screen' = NewScreen
    /\ IF token = "none"
       THEN sitePage' = "login" /\ calls' = Leave
       ELSE /\ sitePage' = p
            /\ calls' = IF p = "vault" THEN Leave ELSE Leave \cup {Request("refresh", Nobody)}
    /\ UNCHANGED <<token, edge, outages>>

\* Lock, in the navigation bar of every page but /login.
LockPortal ==
    /\ sitePage # "login"
    /\ token' = "none"
    /\ sitePage' = "login"
    /\ calls' = Leave
    /\ screen' = NewScreen
    /\ UNCHANGED <<edge, outages>>

ExpirePortalToken ==
    /\ token = "live"
    /\ Outage
    /\ token' = "expired"
    /\ calls' = {IF c.kind = "ingest" THEN c ELSE [c EXCEPT !.accepted = FALSE] : c \in calls}
    /\ UNCHANGED <<sitePage, edge, screen>>

\* Candidates and terminals change what the counts and the ledger say.
EdgeChanges ==
    /\ edge.version < MaxEdgeChanges
    /\ edge' = [edge EXCEPT !.version = @ + 1]
    /\ UNCHANGED <<sitePage, token, screen, calls, outages>>

(***************************************************************************)
(* Requests.                                                               *)
(***************************************************************************)
\* Variant: the page reads once, when it is mounted.
PortalPollsNever(p) == FALSE

\* The 5 s interval of the dashboards and of the ledger page.
PortalPolls(p) == p \in PollingPages

PollPortal ==
    /\ PortalPolls(sitePage)
    /\ Cardinality(calls) < MaxCalls
    /\ calls' = calls \cup {Request("refresh", Nobody)}
    /\ UNCHANGED <<sitePage, token, edge, screen, outages>>

\* A row's buttons: disabled while busy names the row, and once authorised.
ClickOffered(kind, a) ==
    /\ sitePage = "approvals"
    /\ screen.shown # Nothing
    /\ screen.busy # a
    /\ kind = "authorise" => a \notin screen.authorised

ClickApproval(kind, a) ==
    /\ ClickOffered(kind, a)
    /\ Cardinality(calls) < MaxCalls
    /\ kind = "issue" => edge.code[a] < MaxCodes
    /\ screen' = [screen EXCEPT !.busy = a]
    /\ calls' = calls \cup {Request(kind, a)}
    /\ UNCHANGED <<sitePage, token, edge, outages>>

\* ingest: the route of HQ's own process asks for no token.
IngestBundle ==
    /\ sitePage = "vault"
    /\ screen.result # "busy"
    /\ screen' = [screen EXCEPT !.result = "busy"]
    /\ calls' = calls \cup {Request("ingest", Nobody)}
    /\ UNCHANGED <<sitePage, token, edge, outages>>

\* The Edge, or HQ, answers: it refuses, or does what is asked and reads its tables.
ServeCall(c) ==
    /\ c.answer = "waiting"
    /\ LET asked == {c.of}
           code == IF c.kind = "issue" THEN edge.code[c.of] + 1 ELSE edge.version
           fps == IF c.kind = "authorise" THEN edge.authorised \cup asked ELSE edge.authorised
       IN  IF ~c.accepted
           THEN calls' = (calls \ {c}) \cup {[c EXCEPT !.answer = "refused"]} /\ UNCHANGED edge
           ELSE /\ c.kind = "issue" => edge.code[c.of] < MaxCodes
                /\ edge' = [edge EXCEPT !.authorised = fps,
                                        !.code = [a \in Applicants |->
                                            IF c.kind = "issue" /\ a = c.of THEN code ELSE @[a]]]
                /\ calls' = (calls \ {c}) \cup
                     {[c EXCEPT !.answer = "done", !.data = IF c.mine THEN code ELSE 0,
                                !.fps = IF c.mine THEN fps ELSE {}]}
    /\ UNCHANGED <<sitePage, token, screen, outages>>

\* finally: no row is busy, whichever one it names by then.
Freed(c) == IF c.of = Nobody THEN screen ELSE [screen EXCEPT !.busy = Nobody]

\* What an answer draws.  onAuthoriseFp ends with the refresh it asks for.
Drawn(c) ==
    CASE c.kind = "refresh" -> [Freed(c) EXCEPT !.shown = c.data, !.authorised = c.fps]
      [] c.kind = "issue" -> [Freed(c) EXCEPT !.issued[c.of] = c.data]
      [] c.kind \in {"authorise", "ingest"} -> screen

CallArrives(c) ==
    /\ c.answer # "waiting"
    /\ CASE c.answer = "refused" ->
              sitePage' = "login" /\ screen' = NewScreen /\ calls' = {[d EXCEPT !.mine = FALSE] : d \in calls \ {c}}
         [] c.answer = "done" /\ ~c.mine -> calls' = calls \ {c} /\ UNCHANGED <<sitePage, screen>>
         [] c.answer = "done" /\ c.mine ->
              /\ \/ c.kind # "ingest" /\ screen' = Drawn(c)
                 \/ c.kind = "ingest" /\ \E r \in {"refused", "opened"} : screen' = [screen EXCEPT !.result = r]
              /\ calls' = (calls \ {c}) \cup
                   (IF c.kind = "authorise" THEN {Request("refresh", c.of)} ELSE {})
              /\ UNCHANGED sitePage
    /\ UNCHANGED <<token, edge, outages>>

\* No answer: the message is shown, and what was drawn before stays.
CallFails(c) ==
    /\ Outage
    /\ calls' = calls \ {c}
    /\ screen' = IF ~c.mine THEN screen
                 ELSE IF c.kind = "ingest" THEN [screen EXCEPT !.result = "error"]
                 ELSE Freed(c)
    /\ UNCHANGED <<sitePage, token, edge>>

PortalNext ==
    \/ PortalLogin \/ (\E p \in Pages : Open(p)) \/ LockPortal \/ ExpirePortalToken \/ EdgeChanges
    \/ PollPortal \/ IngestBundle
    \/ \E kind \in {"issue", "authorise"}, a \in Applicants : ClickApproval(kind, a)
    \/ \E c \in calls : ServeCall(c) \/ CallArrives(c) \/ CallFails(c)

PortalSpec == PortalInit /\ [][PortalNext]_portalVars

\* The timers fire; requests are served, answered and, if refused, handled.
PortalFairness ==
    /\ WF_portalVars(PollPortal)
    /\ WF_portalVars(\E c \in calls : ServeCall(c))
    /\ WF_portalVars(\E c \in calls : CallArrives(c))
    /\ WF_portalVars(\E c \in calls : c.answer = "refused" /\ CallArrives(c))

(***************************************************************************)
(* Properties.                                                             *)
(***************************************************************************)
\* A polling page catches up with the Edge, or is given up: again and again the browser
\* is elsewhere, or a live token shows the current counts - through outages and expiry.
PortalCatchesUp ==
    []<>(~(sitePage \in PollingPages) \/ (token = "live" /\ screen.shown = edge.version))
=============================================================================
