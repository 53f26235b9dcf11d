---------------------------- MODULE DualControl ----------------------------
(***************************************************************************)
(* Emergency actions under dual control: an admin asks to pause, resume or *)
(* abort the exam, another confirms within five minutes, the action is     *)
(* executed.  The backend executes it across awaits; the panel of one      *)
(* browser keeps a stand-in of its own for when the backend refuses or is  *)
(* away, in which the admin is whoever the panel's menu says.              *)
(*                                                                         *)
(* A definition marked "Variant" is no part of the specification: it is    *)
(* the next definition with a plausible mistake, which a property refutes. *)
(***************************************************************************)
EXTENDS Integers, Sequences, FiniteSets

CONSTANTS
    Directors,   \* the admins
    Me,          \* the admin whose token this browser holds
    NoDirector,  \* no admin yet
    Emergencies, \* the actions asked for
    MaxRequests  \* bound: requests made

ASSUME DualAssumption ==
    /\ Me \in Directors
    /\ NoDirector \notin Directors
    /\ Emergencies \subseteq {"PAUSE_EXAM", "RESUME_EXAM", "ABORT_EXAM", "ALERT_BROADCAST"}
    /\ MaxRequests \in Nat

VARIABLES
    requests, \* every request ever made
    pending,  \* those that await a confirmation
    running,  \* confirmed at the backend, not executed yet
    history,  \* those resolved, in order
    tally,    \* the counters
    exam,     \* exam_state of each store
    panel     \* the panel: the requests it shows, whether a call is under way

dualVars == <<requests, pending, running, history, tally, exam, panel>>

Stores == {"backend", "local"}

Ids == 1..MaxRequests

Request == [store : Stores, action : Emergencies, initiator : Directors,
            status : {"AWAITING_CONFIRMATION", "CONFIRMED", "EXPIRED", "REJECTED"},
            confirmer : Directors \cup {NoDirector}, late : BOOLEAN]

ExamStates == {"ACTIVE", "PAUSED", "ABORTED"}

DualTypeOK ==
    /\ requests \in Seq(Request)
    /\ Len(requests) <= MaxRequests
    /\ pending \subseteq Ids
    /\ running \subseteq Ids
    /\ history \in Seq(Ids)
    /\ tally \in [confirmed : Nat, expired : Nat, rejected : Nat]
    /\ exam \in [Stores -> ExamStates]
    /\ panel \in [shown : SUBSET Ids, busy : BOOLEAN]

DualInit ==
    /\ requests = <<>>
    /\ pending = {}
    /\ running = {}
    /\ history = <<>>
    /\ tally = [confirmed |-> 0, expired |-> 0, rejected |-> 0]
    /\ exam = [s \in Stores |-> "ACTIVE"]
    /\ panel = [shown |-> {}, busy |-> FALSE]

Of(s) == {i \in pending : requests[i].store = s}

Late(s) == {i \in Of(s) : requests[i].late}

\* Five minutes pass: for the older requests first.
ClockRuns ==
    /\ \E i \in DOMAIN requests :
         /\ ~requests[i].late
         /\ \A j \in 1..(i - 1) : requests[j].late
         /\ requests' = [requests EXCEPT ![i].late = TRUE]
    /\ UNCHANGED <<pending, running, history, tally, exam, panel>>

\* Requests in the order they were made: the k-th has k - 1 of them before it.
InOrder(ids) ==
    [k \in 1..Cardinality(ids) |->
       CHOOSE i \in ids : Cardinality({j \in ids : j < i}) = k - 1]

(***************************************************************************)
(* _sweep_expired: at the start of every call but a rejection.  The value  *)
(* of the service after a sweep of store s, seen by the rest of the call.  *)
(***************************************************************************)
\* Variant: an expired request is counted and recorded but not taken off the list.
SweptKept(s) ==
    [requests |-> [i \in DOMAIN requests |->
                     IF i \in Late(s) THEN [requests[i] EXCEPT !.status = "EXPIRED"] ELSE requests[i]],
     pending  |-> pending,
     history  |-> history \o InOrder(Late(s)),
     tally    |-> [tally EXCEPT !.expired = @ + Cardinality(Late(s))]]

Swept(s) ==
    [requests |-> [i \in DOMAIN requests |->
                     IF i \in Late(s) THEN [requests[i] EXCEPT !.status = "EXPIRED"] ELSE requests[i]],
     pending  |-> pending \ Late(s),
     history  |-> history \o InOrder(Late(s)),
     tally    |-> [tally EXCEPT !.expired = @ + Cardinality(Late(s))]]

Becomes(x) ==
    /\ requests' = x.requests
    /\ pending' = x.pending
    /\ history' = x.history
    /\ tally' = x.tally

Initiate(s, a, action) ==
    /\ Len(requests) < MaxRequests
    /\ LET x == Swept(s)
       IN  Becomes([x EXCEPT
             !.requests = Append(@, [store |-> s, action |-> action, initiator |-> a,
                                     status |-> "AWAITING_CONFIRMATION",
                                     confirmer |-> NoDirector, late |-> FALSE]),
             !.pending = @ \cup {Len(requests) + 1}])
    /\ UNCHANGED <<running, exam>>

\* Variant: anyone may confirm.
MayConfirmAny(i, a) == TRUE

MayConfirm(i, a) == a # requests[i].initiator

After(action, state) ==
    CASE action = "PAUSE_EXAM"  -> "PAUSED"
      [] action = "RESUME_EXAM" -> "ACTIVE"
      [] action = "ABORT_EXAM"  -> "ABORTED"
      [] OTHER                  -> state

\* The backend takes the request off the list before it awaits the execution; the stand-in
\* executes at once.
Confirm(s, i, a) ==
    LET x == Swept(s)
        y == [x EXCEPT !.requests[i] = [@ EXCEPT !.status = "CONFIRMED", !.confirmer = a],
                       !.pending = @ \ {i}, !.tally.confirmed = @ + 1]
    IN  /\ i \in x.pending
        /\ requests[i].store = s
        /\ MayConfirm(i, a)
        /\ IF s = "backend"
           THEN Becomes(y) /\ running' = running \cup {i} /\ UNCHANGED exam
           ELSE /\ Becomes([y EXCEPT !.history = Append(@, i)])
                /\ exam' = [exam EXCEPT ![s] = After(requests[i].action, @)]
                /\ UNCHANGED running

\* The broadcasts are done: the state is set, in the order they get done.
Execute(i) ==
    /\ i \in running
    /\ running' = running \ {i}
    /\ exam' = [exam EXCEPT !["backend"] = After(requests[i].action, @)]
    /\ history' = Append(history, i)
    /\ UNCHANGED <<requests, pending, tally, panel>>

\* No sweep: a request that is late may still be rejected.
Reject(s, i, a) ==
    /\ i \in Of(s)
    /\ Becomes([requests |-> [requests EXCEPT ![i].status = "REJECTED", ![i].confirmer = a],
                pending  |-> pending \ {i},
                history  |-> Append(history, i),
                tally    |-> [tally EXCEPT !.rejected = @ + 1]])
    /\ UNCHANGED <<running, exam>>

(***************************************************************************)
(* Who calls: other admins the backend, this browser's panel whichever     *)
(* answers; the admin is the token's at the backend, the menu's here.      *)
(***************************************************************************)
OtherInitiates(a, action) == a # Me /\ Initiate("backend", a, action) /\ UNCHANGED panel

OtherConfirms(i, a) == a # Me /\ Confirm("backend", i, a) /\ UNCHANGED panel

OtherRejects(i, a) == a # Me /\ Reject("backend", i, a) /\ UNCHANGED panel

Actor(s, a) == IF s = "backend" THEN Me ELSE a

Press == ~panel.busy /\ panel' = [panel EXCEPT !.busy = TRUE]

PressInitiate(s, a, action) == Press /\ Initiate(s, Actor(s, a), action)

PressConfirm(s, i, a) ==
    /\ i \in panel.shown
    /\ a # requests[i].initiator
    /\ Press
    /\ Confirm(s, i, Actor(s, a))

PressReject(s, i, a) ==
    /\ i \in panel.shown
    /\ Press
    /\ Reject(s, i, Actor(s, a))

\* Every five seconds, and after each call.
RefreshPanel(s) ==
    /\ Becomes(Swept(s))
    /\ panel' = [shown |-> Of(s) \ Late(s), busy |-> FALSE]
    /\ UNCHANGED <<running, exam>>

DualNext ==
    \/ ClockRuns
    \/ \E i \in Ids : Execute(i)
    \/ \E a \in Directors, action \in Emergencies :
         \/ OtherInitiates(a, action)
         \/ \E s \in Stores : PressInitiate(s, a, action)
    \/ \E a \in Directors, i \in Ids :
         \/ OtherConfirms(i, a) \/ OtherRejects(i, a)
         \/ \E s \in Stores : PressConfirm(s, i, a) \/ PressReject(s, i, a)
    \/ \E s \in Stores : RefreshPanel(s)

DualSpec == DualInit /\ [][DualNext]_dualVars

(***************************************************************************)
(* Properties.                                                             *)
(***************************************************************************)
\* Every request is in one place: it awaits, is being executed, or was resolved once, and
\* the counters of stats() say so, whichever of confirmation, rejection and expiry came
\* first.
ResolvedOnce ==
    /\ tally.confirmed + tally.expired + tally.rejected + Cardinality(pending) = Len(requests)
    /\ Len(history) + Cardinality(running \cup pending) = Len(requests)
    /\ running \cap pending = {}
    /\ \A i, j \in DOMAIN history : history[i] = history[j] => i = j

\* "Two-person integrity: initiator cannot confirm their own request" (DualControlPanel.tsx
\* 96): whatever has changed the exam's state was confirmed by a second admin, though the
\* panel of one browser acts for several and falls back on its own store.
ChangedByTwo ==
    \A s \in Stores : exam[s] # "ACTIVE" =>
        \E i \in DOMAIN requests :
            /\ requests[i].store = s
            /\ requests[i].status = "CONFIRMED"
            /\ After(requests[i].action, "ACTIVE") = exam[s]
            /\ requests[i].confirmer \in Directors \ {requests[i].initiator}

(***************************************************************************)
(* The inductive invariant behind ResolvedOnce: of n requests each awaits  *)
(* (p), is being executed (r) or is in the history (h), once; the counters *)
(* add up to t, the requests that await no more.                           *)
(***************************************************************************)
InOnePlace(n, p, r, h, t) ==
    /\ h \in Seq(1..n)
    /\ p \cup r \cup {h[k] : k \in 1..Len(h)} = 1..n
    /\ p \cap r = {}
    /\ \A k \in 1..Len(h) : h[k] \notin p \cup r
    /\ \A i, j \in 1..Len(h) : h[i] = h[j] => i = j
    /\ t + Cardinality(p) = n
    /\ Len(h) + Cardinality(r \cup p) = n

Total(t) == t.confirmed + t.expired + t.rejected

ResolvedInv ==
    /\ DualTypeOK
    /\ InOnePlace(Len(requests), pending, running, history, Total(tally))
=============================================================================
