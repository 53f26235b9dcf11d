------------------------- MODULE CandidateTerminal -------------------------
(***************************************************************************)
(* One candidate seat: the Gate and the candidate portal of the exam       *)
(* terminal against the routes of the Centre Edge they call.  All of the   *)
(* pages' state is React state: it is gone when a page is left, reloaded   *)
(* or the terminal reboots.  The handlers of the Edge are atomic here;     *)
(* SeatPipeline shows how they interleave.                                 *)
(*                                                                         *)
(* A definition marked "Variant" is no part of the specification: it is    *)
(* the next definition with a plausible mistake, which a property refutes. *)
(***************************************************************************)
EXTENDS Integers, FiniteSets

CONSTANTS
    NumItems,      \* questions of the paper, in its order
    Options,       \* the options of a question
    Blank,         \* no option
    NoReceipt,     \* no receipt shown
    MaxRevisions,  \* bound: changes of a saved answer that are counted
    MaxMishaps     \* bound: lost requests, lost answers, reloads and reboots

ASSUME TerminalAssumption ==
    /\ NumItems \in Nat \ {0}
    /\ Blank \notin Options
    /\ MaxRevisions \in Nat
    /\ MaxMishaps \in Nat

VARIABLES
    seat,      \* terminals.state of this seat, at the Edge
    t0,        \* T0 has passed on the Edge's clock
    sound,     \* the staged bundle matches the root it was staged with
    filed,     \* the records the Edge accepted from this seat
    page,      \* the page the kiosk shows
    gate,      \* the state of the Gate
    phase,     \* the phase of the candidate portal
    card,      \* the state of ExamCard
    sealing,   \* sealAndSubmit in flight and the answers its closure holds
    wire,      \* envelopes under way to the Edge, and its answers back
    receipt,   \* the record whose receipt is on the screen
    mishaps    \* how many mishaps there were so far

terminalVars == <<seat, t0, sound, filed, page, gate, phase, card, sealing, wire,
                  receipt, mishaps>>

Items == 1..NumItems

KioskStates == {"AVAILABLE", "ASSIGNED", "ATTENDED", "SUBMITTED"}

NewGate == [edge |-> "PROBING", asking |-> FALSE, cap |-> FALSE, seen |-> "UNKNOWN"]

NewCard ==
    [load |-> "LOADING", bundle |-> FALSE, polling |-> FALSE, idx |-> 1, pick |-> Blank,
     answers |-> [i \in Items |-> Blank], revisions |-> [i \in Items |-> 0],
     marked |-> {}, visited |-> {}]

NotSealing == [stage |-> "idle", answers |-> [i \in Items |-> Blank]]

Answers == [Items -> Options \cup {Blank}]
Revisions == [Items -> 0..MaxRevisions]
Records == [answers : Answers, revisions : Revisions]

Cards ==
    [load : {"LOADING", "BEFORE_T0", "READY"}, bundle : BOOLEAN, polling : BOOLEAN,
     idx : Items, pick : Options \cup {Blank}, answers : Answers, revisions : Revisions,
     marked : SUBSET Items, visited : SUBSET Items]

Submissions == [record : Records, live : BOOLEAN, status : {"sent", "accepted", "refused"}]

TerminalTypeOK ==
    /\ seat \in KioskStates
    /\ t0 \in BOOLEAN
    /\ sound \in BOOLEAN
    /\ filed \subseteq Records
    /\ page \in {"GATE", "CANDIDATE"}
    /\ gate \in [edge : {"PROBING", "ONLINE", "OFFLINE"}, asking : BOOLEAN, cap : BOOLEAN,
                 seen : KioskStates \cup {"UNKNOWN"}]
    /\ phase \in {"WAIT_ASSIGN", "LOGIN", "EXAM", "ERROR"}
    /\ card \in Cards
    /\ sealing \in [stage : {"idle", "key", "sent"}, answers : Answers]
    /\ wire \subseteq Submissions
    /\ receipt \in Records \cup {NoReceipt}
    /\ mishaps \in 0..MaxMishaps

TerminalInit ==
    /\ seat = "AVAILABLE"
    /\ t0 = FALSE
    /\ sound \in BOOLEAN
    /\ filed = {}
    /\ page = "GATE"
    /\ gate = NewGate
    /\ phase = "WAIT_ASSIGN"
    /\ card = NewCard
    /\ sealing = NotSealing
    /\ wire = {}
    /\ receipt = NoReceipt
    /\ mishaps = 0

Mishap == mishaps < MaxMishaps /\ mishaps' = mishaps + 1

edgeVars == <<seat, t0, sound, filed>>
cardVars == <<card, sealing, wire, receipt>>

(***************************************************************************)
(* What the pages lose.                                                    *)
(***************************************************************************)
\* ExamCard is unmounted: its state is gone, and nobody waits for its requests.
Unmount ==
    /\ card' = NewCard
    /\ sealing' = NotSealing
    /\ wire' = {[w EXCEPT !.live = FALSE] : w \in wire}
    /\ receipt' = NoReceipt

\* onError of the portal: the error page takes the place of the card.
Fail == phase' = "ERROR" /\ Unmount

(***************************************************************************)
(* The hall: an invigilator assigns the seat, the clock reaches T0.        *)
(***************************************************************************)
SeatAssigned ==
    /\ seat = "AVAILABLE"
    /\ seat' = "ASSIGNED"
    /\ UNCHANGED <<t0, sound, filed, page, gate, phase, cardVars, mishaps>>

ReachT0 ==
    /\ ~t0
    /\ t0' = TRUE
    /\ UNCHANGED <<seat, sound, filed, page, gate, phase, cardVars, mishaps>>

(***************************************************************************)
(* The Gate.                                                               *)
(***************************************************************************)
\* health() answers: coming online asks for the capability of the terminal.
GateProbe ==
    /\ page = "GATE"
    /\ gate.edge # "ONLINE"
    /\ gate' = [gate EXCEPT !.edge = "ONLINE", !.asking = TRUE]
    /\ UNCHANGED <<edgeVars, page, phase, cardVars, mishaps>>

\* health() fails: the wall; an answer about the capability is now stale.
GateOffline ==
    /\ page = "GATE"
    /\ gate.edge # "OFFLINE"
    /\ Mishap
    /\ gate' = [gate EXCEPT !.edge = "OFFLINE", !.asking = FALSE]
    /\ UNCHANGED <<edgeVars, page, phase, cardVars>>

\* The capability arrives.  A failed request answers null, and is not repeated
\* until the Edge has been offline.
GateCapability ==
    /\ page = "GATE"
    /\ gate.asking
    /\ \/ gate' = [gate EXCEPT !.asking = FALSE, !.cap = TRUE] /\ UNCHANGED mishaps
       \/ gate' = [gate EXCEPT !.asking = FALSE, !.cap = FALSE] /\ Mishap
    /\ UNCHANGED <<edgeVars, page, phase, cardVars>>

\* One tick of watchAssignment; ASSIGNED opens the candidate portal.
GateTick ==
    /\ page = "GATE"
    /\ gate.edge = "ONLINE"
    /\ gate.cap
    /\ gate.seen # seat
    /\ IF seat = "ASSIGNED"
       THEN page' = "CANDIDATE" /\ gate' = NewGate /\ phase' = "WAIT_ASSIGN"
       ELSE page' = page /\ gate' = [gate EXCEPT !.seen = seat] /\ phase' = phase
    /\ UNCHANGED <<edgeVars, cardVars, mishaps>>

(***************************************************************************)
(* The candidate portal before the exam.                                   *)
(***************************************************************************)
OnPhase(p) == page = "CANDIDATE" /\ phase = p

\* A seat that was attended before a reload goes straight to the exam.
SeatTick ==
    /\ OnPhase("WAIT_ASSIGN")
    /\ seat \in {"ASSIGNED", "ATTENDED"}
    /\ phase' = IF seat = "ASSIGNED" THEN "LOGIN" ELSE "EXAM"
    /\ UNCHANGED <<edgeVars, page, gate, cardVars, mishaps>>

\* LoginCard.submit with the bound roll: the Edge consumes the binding, and the
\* answer arrives, or is lost - then the card stays, and the roll is bound no more.
Login ==
    /\ OnPhase("LOGIN")
    /\ seat = "ASSIGNED"
    /\ seat' = "ATTENDED"
    /\ \/ phase' = "EXAM" /\ UNCHANGED mishaps
       \/ phase' = "LOGIN" /\ Mishap
    /\ UNCHANGED <<t0, sound, filed, page, gate, cardVars>>

BackToGate ==
    /\ OnPhase("ERROR")
    /\ page' = "GATE"
    /\ phase' = "WAIT_ASSIGN"
    /\ UNCHANGED <<edgeVars, gate, cardVars, mishaps>>

\* The page is reloaded, or the terminal reboots into the Gate.
Reload ==
    /\ Mishap
    /\ \/ page = "CANDIDATE" /\ page' = page
       \/ page' = "GATE"
    /\ gate' = NewGate
    /\ phase' = "WAIT_ASSIGN"
    /\ Unmount
    /\ UNCHANGED edgeVars

(***************************************************************************)
(* The sealed paper.                                                       *)
(***************************************************************************)
\* Variant: the root of the bundle is not compared with the one served.
RootIgnored == TRUE

\* verifyBundleAgainstRoot: every question is committed to the root the Edge serves.
RootMatches == sound

\* The bundle arrives and is verified; altered or lost, the card gives up.
LoadBundle ==
    /\ OnPhase("EXAM")
    /\ ~card.bundle
    /\ \/ RootMatches /\ card' = [card EXCEPT !.bundle = TRUE]
          /\ UNCHANGED <<phase, sealing, wire, receipt, mishaps>>
       \/ ~RootMatches /\ Fail /\ UNCHANGED mishaps
       \/ Mishap /\ Fail
    /\ UNCHANGED <<edgeVars, page, gate>>

\* The beacon was released: the master seed, and the first question.
Ready ==
    [card EXCEPT !.load = "READY", !.polling = FALSE, !.visited = {1}, !.pick = card.answers[1]]

\* Variant: the waiting room is shown, and no further poll scheduled.
WaitsForNothing == [card EXCEPT !.load = "BEFORE_T0"]

\* "425 Too Early": the waiting room, and the next poll in three seconds.
Waits == [card EXCEPT !.load = "BEFORE_T0", !.polling = TRUE]

\* The first poll is awaited by the effect: a failure ends in onError.
FirstPoll ==
    /\ OnPhase("EXAM")
    /\ card.load = "LOADING"
    /\ card.bundle
    /\ \/ t0 /\ card' = Ready /\ UNCHANGED <<phase, sealing, wire, receipt, mishaps>>
       \/ ~t0 /\ card' = Waits
          /\ UNCHANGED <<phase, sealing, wire, receipt, mishaps>>
       \/ Mishap /\ Fail
    /\ UNCHANGED <<edgeVars, page, gate>>

\* Later polls run in a timer that nobody awaits: a failure that is not "425 Too
\* Early" is thrown to nobody, and no further poll is scheduled.
TimerPoll ==
    /\ OnPhase("EXAM")
    /\ card.load = "BEFORE_T0"
    /\ card.polling
    /\ \/ t0 /\ card' = Ready /\ UNCHANGED mishaps
       \/ Mishap /\ card' = [card EXCEPT !.polling = FALSE]
    /\ UNCHANGED <<edgeVars, page, gate, phase, sealing, wire, receipt>>

(***************************************************************************)
(* Answering.  These controls stay enabled while an answer is being sealed *)
(***************************************************************************)
Answering ==
    /\ OnPhase("EXAM")
    /\ card.load = "READY"
    /\ receipt = NoReceipt

GoTo(i) == [card EXCEPT !.idx = i, !.visited = @ \cup {i}, !.pick = card.answers[i]]

OnlyCard == UNCHANGED <<edgeVars, page, gate, phase, sealing, wire, receipt, mishaps>>

Navigate(i) ==
    /\ Answering
    /\ i # card.idx
    /\ card' = GoTo(i)
    /\ OnlyCard

Choose(o) ==
    /\ Answering
    /\ card' = [card EXCEPT !.pick = o]
    /\ OnlyCard

\* The answer of question q after "Save & Next", and how often it was revised.
Revised(q) == card.answers[q] \notin {Blank, card.pick}

\* saveCurrent: the chosen option is saved, and the next question shown.
SaveCurrent(mark) ==
    /\ Answering
    /\ LET q == card.idx
           saved == card.pick # Blank
           answers == IF saved THEN [card.answers EXCEPT ![q] = card.pick] ELSE card.answers
           next == IF q < NumItems THEN q + 1 ELSE q
       IN  /\ saved /\ Revised(q) => card.revisions[q] < MaxRevisions
           /\ card' = [card EXCEPT
                !.answers = answers,
                !.revisions[q] = IF saved /\ Revised(q) THEN @ + 1 ELSE @,
                !.marked = IF mark THEN @ \cup {q} ELSE @,
                !.idx = next,
                !.visited = @ \cup {next},
                !.pick = IF next = q THEN @ ELSE card.answers[next]]
    /\ OnlyCard

ClearResponse ==
    /\ Answering
    /\ card' = [card EXCEPT !.pick = Blank, !.answers[card.idx] = Blank]
    /\ OnlyCard

(***************************************************************************)
(* sealAndSubmit and the Edge's answer.                                    *)
(***************************************************************************)
\* The click: the handler's closure holds the answers of this moment.
Submit ==
    /\ Answering
    /\ sealing.stage = "idle"
    /\ sealing' = [stage |-> "key", answers |-> card.answers]
    /\ UNCHANGED <<edgeVars, page, gate, phase, card, wire, receipt, mishaps>>

\* The sealing key arrived: answers from the closure, revision counts as they are now.
SealRecord ==
    /\ OnPhase("EXAM")
    /\ sealing.stage = "key"
    /\ \/ /\ sealing' = [sealing EXCEPT !.stage = "sent"]
          /\ wire' = wire \cup {[record |-> [answers |-> sealing.answers, revisions |-> card.revisions],
                                 live |-> TRUE, status |-> "sent"]}
          /\ UNCHANGED <<phase, card, receipt, mishaps>>
       \/ Mishap /\ Fail
    /\ UNCHANGED <<edgeVars, page, gate>>

\* POST /api/answer/submit: only an attended seat may commit, and only once.
EdgeSubmit(w) ==
    /\ w.status = "sent"
    /\ IF seat = "ATTENDED"
       THEN /\ seat' = "SUBMITTED"
            /\ filed' = filed \cup {w.record}
            /\ wire' = (wire \ {w}) \cup {[w EXCEPT !.status = "accepted"]}
       ELSE /\ wire' = (wire \ {w}) \cup {[w EXCEPT !.status = "refused"]}
            /\ UNCHANGED <<seat, filed>>
    /\ UNCHANGED <<t0, sound, page, gate, phase, card, sealing, receipt, mishaps>>

\* Variant: the receipt is made of what is in the card by now.
ReceiptOfCard(w) == [answers |-> card.answers, revisions |-> card.revisions]

\* The record the Edge acknowledged.
ReceiptOf(w) == w.record

\* The answer reaches the page that waits for it; others reach nobody.
Deliver(w) ==
    /\ w.status # "sent"
    /\ CASE ~w.live -> wire' = wire \ {w} /\ UNCHANGED <<phase, card, sealing, receipt>>
         [] w.live /\ w.status = "accepted" ->
              /\ receipt' = ReceiptOf(w)
              /\ sealing' = NotSealing
              /\ wire' = wire \ {w}
              /\ UNCHANGED <<phase, card>>
         [] w.live /\ w.status = "refused" -> Fail
    /\ UNCHANGED <<edgeVars, page, gate, mishaps>>

\* The connection breaks: the page is told so, whatever the Edge did or will do.
Break(w) ==
    /\ w.live
    /\ Mishap
    /\ Fail
    /\ UNCHANGED <<edgeVars, page, gate>>

TerminalNext ==
    \/ SeatAssigned \/ ReachT0
    \/ GateProbe \/ GateOffline \/ GateCapability \/ GateTick
    \/ SeatTick \/ Login \/ BackToGate \/ Reload
    \/ LoadBundle \/ FirstPoll \/ TimerPoll
    \/ \E i \in Items : Navigate(i)
    \/ \E o \in Options : Choose(o)
    \/ \E mark \in BOOLEAN : SaveCurrent(mark)
    \/ ClearResponse \/ Submit \/ SealRecord
    \/ \E w \in wire : EdgeSubmit(w) \/ Deliver(w) \/ Break(w)

TerminalSpec == TerminalInit /\ [][TerminalNext]_terminalVars

\* What the pages, the network and the Edge do by themselves: timers fire, requests
\* are answered.  People and mishaps owe nothing.
TerminalServes ==
    \/ ReachT0
    \/ GateProbe \/ GateCapability \/ GateTick \/ SeatTick
    \/ LoadBundle \/ FirstPoll \/ TimerPoll \/ SealRecord
    \/ \E w \in wire : EdgeSubmit(w) \/ Deliver(w)

TerminalFairness == WF_terminalVars(TerminalServes)

TerminalFairSpec == TerminalSpec /\ TerminalFairness

(***************************************************************************)
(* Properties.                                                             *)
(***************************************************************************)
\* A receipt is on the screen only while its very record is in the ledger,
\* although answers of the Edge are lost and submissions repeated.
ReceiptVouches == receipt # NoReceipt => receipt \in filed /\ seat = "SUBMITTED"

\* What is on the wire or in the ledger was sealed from a paper that was open: at or
\* after T0, on a seat whose candidate had logged in.
SealedDuringExam ==
    wire # {} \/ filed # {} => t0 /\ sound /\ seat \in {"ATTENDED", "SUBMITTED"}

\* Where nothing goes wrong, the terminal moves by itself: an assigned seat asks for the
\* login, an attended one opens the paper, a submission ends in a receipt.
CalmSeatAdvances ==
    [](mishaps = 0 /\ sound) =>
        /\ seat = "ASSIGNED" ~> phase = "LOGIN"
        /\ phase = "EXAM" ~> card.load = "READY"
        /\ sealing.stage # "idle" ~> receipt # NoReceipt

\* "This screen advances on its own": the waiting room is left, whatever single request
\* is lost (app/candidate/page.tsx 365).
WaitingRoomAdvances == card.load = "BEFORE_T0" ~> card.load # "BEFORE_T0"
=============================================================================
