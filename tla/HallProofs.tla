----------------------------- MODULE HallProofs -----------------------------
(***************************************************************************)
(* Proofs about the exam hall: the terminal of a candidate, for every      *)
(* paper and every number of mishaps (reloads, reboots, lost requests and  *)
(* lost answers), and the invigilator's console, for every roster, every   *)
(* number of seats and of verifications that overlap.                      *)
(***************************************************************************)
EXTENDS CandidateTerminal, InvigilatorConsole, TLAPS

-----------------------------------------------------------------------------
(* The state of the terminal is well formed. *)

LEMMA OneIsItem == 1 \in Items
BY TerminalAssumption DEF Items

\* An exam card as it is mounted.
LEMMA NewCardType == NewCard \in Cards
<1>1. [i \in Items |-> Blank] \in Answers /\ [i \in Items |-> 0] \in Revisions
  BY TerminalAssumption DEF Answers, Revisions
<1> QED
  BY <1>1, OneIsItem DEF NewCard, Cards

LEMMA NotSealingType == NotSealing \in [stage : {"idle", "key", "sent"}, answers : Answers]
BY DEF NotSealing, Answers

LEMMA TerminalInitTypeOK == TerminalInit => TerminalTypeOK
<1> SUFFICES ASSUME TerminalInit PROVE TerminalTypeOK
  OBVIOUS
<1>1. gate \in [edge : {"PROBING", "ONLINE", "OFFLINE"}, asking : BOOLEAN, cap : BOOLEAN,
                seen : KioskStates \cup {"UNKNOWN"}]
  BY DEF TerminalInit, NewGate
<1>2. card \in Cards /\ sealing \in [stage : {"idle", "key", "sent"}, answers : Answers]
  BY NewCardType, NotSealingType DEF TerminalInit
<1>3. mishaps \in 0..MaxMishaps
  BY TerminalAssumption DEF TerminalInit
<1> QED
  BY <1>1, <1>2, <1>3 DEF TerminalInit, TerminalTypeOK, KioskStates

LEMMA MishapType ==
  ASSUME TerminalTypeOK, Mishap
  PROVE  mishaps' \in 0..MaxMishaps
BY TerminalAssumption DEF TerminalTypeOK, Mishap

\* What is left when the card is unmounted.
LEMMA UnmountType ==
  ASSUME TerminalTypeOK, Unmount
  PROVE  /\ card' \in Cards
         /\ sealing' \in [stage : {"idle", "key", "sent"}, answers : Answers]
         /\ wire' \subseteq Submissions
         /\ receipt' \in Records \cup {NoReceipt}
<1>1. ASSUME NEW w \in wire PROVE [w EXCEPT !.live = FALSE] \in Submissions
  BY DEF TerminalTypeOK, Submissions
<1> QED
  BY <1>1, NewCardType, NotSealingType DEF Unmount

\* The Gate, the login and the clock keep the state well formed.
LEMMA GateSteps ==
  ASSUME TerminalTypeOK,
         \/ SeatAssigned \/ ReachT0
         \/ GateProbe \/ GateOffline \/ GateCapability \/ GateTick
         \/ SeatTick \/ Login \/ BackToGate
  PROVE  TerminalTypeOK'
<1>1. UNCHANGED <<sound, filed, card, sealing, wire, receipt>>
  BY DEF SeatAssigned, ReachT0, GateProbe, GateOffline, GateCapability, GateTick, SeatTick, Login,
         BackToGate, edgeVars, cardVars
<1>2. mishaps' \in 0..MaxMishaps
  <2>1. mishaps' = mishaps \/ Mishap
    BY DEF SeatAssigned, ReachT0, GateProbe, GateOffline, GateCapability, GateTick, SeatTick,
           Login, BackToGate
  <2> QED
    BY <2>1, MishapType DEF TerminalTypeOK
<1>3. seat' \in KioskStates /\ t0' \in BOOLEAN
  BY DEF TerminalTypeOK, KioskStates, SeatAssigned, ReachT0, GateProbe, GateOffline,
         GateCapability, GateTick, SeatTick, Login, BackToGate, edgeVars
<1>4. gate' \in [edge : {"PROBING", "ONLINE", "OFFLINE"}, asking : BOOLEAN, cap : BOOLEAN,
                 seen : KioskStates \cup {"UNKNOWN"}]
  <2>1. NewGate \in [edge : {"PROBING", "ONLINE", "OFFLINE"}, asking : BOOLEAN, cap : BOOLEAN,
                     seen : KioskStates \cup {"UNKNOWN"}]
    BY DEF NewGate
  <2>2. CASE gate' \in {gate, NewGate}
    BY <2>1, <2>2 DEF TerminalTypeOK
  <2>3. CASE GateProbe \/ GateOffline \/ GateCapability
    BY <2>3 DEF TerminalTypeOK, GateProbe, GateOffline, GateCapability
  <2>4. CASE GateTick /\ gate' = [gate EXCEPT !.seen = seat]
    BY <2>4 DEF TerminalTypeOK
  <2> QED
    BY <2>2, <2>3, <2>4 DEF SeatAssigned, ReachT0, GateTick, SeatTick, Login, BackToGate
<1>5. page' \in {"GATE", "CANDIDATE"} /\ phase' \in {"WAIT_ASSIGN", "LOGIN", "EXAM", "ERROR"}
  BY DEF TerminalTypeOK, SeatAssigned, ReachT0, GateProbe, GateOffline, GateCapability, GateTick,
         SeatTick, Login, BackToGate
<1> QED
  BY <1>1, <1>2, <1>3, <1>4, <1>5 DEF TerminalTypeOK

\* A reload, and an error page in the place of the card.
LEMMA LeavingSteps ==
  ASSUME TerminalTypeOK,
         \/ Reload
         \/ Fail /\ UNCHANGED <<edgeVars, page, gate>> /\ (Mishap \/ mishaps' = mishaps)
  PROVE  TerminalTypeOK'
<1>1. Unmount /\ UNCHANGED <<seat, t0, sound, filed>>
  BY DEF Reload, Fail, edgeVars
<1>2. mishaps' \in 0..MaxMishaps
  BY MishapType DEF TerminalTypeOK, Reload
<1>3. gate' \in {gate, NewGate} /\ page' \in {"GATE", "CANDIDATE"}
      /\ phase' \in {"WAIT_ASSIGN", "LOGIN", "EXAM", "ERROR"}
  BY DEF TerminalTypeOK, Reload, Fail
<1>4. gate' \in [edge : {"PROBING", "ONLINE", "OFFLINE"}, asking : BOOLEAN, cap : BOOLEAN,
                 seen : KioskStates \cup {"UNKNOWN"}]
  <2>1. NewGate \in [edge : {"PROBING", "ONLINE", "OFFLINE"}, asking : BOOLEAN, cap : BOOLEAN,
                     seen : KioskStates \cup {"UNKNOWN"}]
    BY DEF NewGate
  <2> QED
    BY <1>3, <2>1 DEF TerminalTypeOK
<1> QED
  BY <1>1, <1>2, <1>3, <1>4, UnmountType DEF TerminalTypeOK

\* A step that changes the card and counts at most a mishap.
LEMMA CardStep ==
  ASSUME TerminalTypeOK, card' \in Cards, Mishap \/ mishaps' = mishaps,
         UNCHANGED <<edgeVars, page, gate, phase, sealing, wire, receipt>>
  PROVE  TerminalTypeOK'
<1>1. mishaps' \in 0..MaxMishaps
  BY MishapType DEF TerminalTypeOK
<1> QED
  BY <1>1 DEF TerminalTypeOK, edgeVars

LEMMA ReadyType ==
  ASSUME TerminalTypeOK
  PROVE  Ready \in Cards /\ Waits \in Cards
BY OneIsItem DEF TerminalTypeOK, Cards, Ready, Waits, Answers

LEMMA GoToType ==
  ASSUME TerminalTypeOK, NEW i \in Items
  PROVE  GoTo(i) \in Cards
BY DEF TerminalTypeOK, Cards, GoTo, Answers

\* The loading of the paper keeps the state well formed.
LEMMA PaperSteps ==
  ASSUME TerminalTypeOK, LoadBundle \/ FirstPoll \/ TimerPoll
  PROVE  TerminalTypeOK'
<1>1. CASE Fail /\ UNCHANGED <<edgeVars, page, gate>> /\ (Mishap \/ mishaps' = mishaps)
  BY <1>1, LeavingSteps
<1>2. CASE /\ card' \in Cards /\ (Mishap \/ mishaps' = mishaps)
           /\ UNCHANGED <<edgeVars, page, gate, phase, sealing, wire, receipt>>
  BY <1>2, CardStep
<1>3. [card EXCEPT !.bundle = TRUE] \in Cards /\ [card EXCEPT !.polling = FALSE] \in Cards
  BY DEF TerminalTypeOK, Cards
<1> QED
  BY <1>1, <1>2, <1>3, ReadyType DEF LoadBundle, FirstPoll, TimerPoll

\* So does what the candidate does to the card.
LEMMA CardSteps ==
  ASSUME TerminalTypeOK,
         \/ \E i \in Items : Navigate(i)
         \/ \E o \in Options : Choose(o)
         \/ \E mark \in BOOLEAN : SaveCurrent(mark)
         \/ ClearResponse
  PROVE  TerminalTypeOK'
<1>1. UNCHANGED <<edgeVars, page, gate, phase, sealing, wire, receipt, mishaps>>
  BY DEF Navigate, Choose, SaveCurrent, ClearResponse, OnlyCard
<1>2. ASSUME NEW i \in Items, Navigate(i) PROVE card' \in Cards
  BY <1>2, GoToType DEF Navigate
<1>3. ASSUME NEW o \in Options, Choose(o) PROVE card' \in Cards
  BY <1>3 DEF TerminalTypeOK, Choose, Cards
<1>4. ASSUME NEW mark \in BOOLEAN, SaveCurrent(mark) PROVE card' \in Cards
  <2> DEFINE q == card.idx
             saved == card.pick # Blank
             answers == IF saved THEN [card.answers EXCEPT ![q] = card.pick] ELSE card.answers
             revisions == [card.revisions EXCEPT ![q] =
                             IF saved /\ Revised(q) THEN @ + 1 ELSE @]
             marked == IF mark THEN card.marked \cup {q} ELSE card.marked
             next == IF q < NumItems THEN q + 1 ELSE q
             pick == IF next = q THEN card.pick ELSE card.answers[next]
  <2>1. card \in Cards
    BY DEF TerminalTypeOK
  <2>2. q \in Items /\ next \in Items
    BY <2>1, TerminalAssumption DEF Cards, Items
  <2>3. answers \in Answers
    BY <2>1, <2>2 DEF Cards, Answers
  <2>4. revisions \in Revisions
    <3>1. saved /\ Revised(q) => card.revisions[q] < MaxRevisions
      BY <1>4 DEF SaveCurrent
    <3>2. card.revisions \in [Items -> 0..MaxRevisions] /\ card.revisions[q] \in 0..MaxRevisions
      BY <2>1, <2>2 DEF Cards, Revisions
    <3>3. (IF saved /\ Revised(q) THEN card.revisions[q] + 1 ELSE card.revisions[q])
            \in 0..MaxRevisions
      BY <3>1, <3>2, TerminalAssumption
    <3> QED
      BY <3>2, <3>3 DEF Revisions
  <2>5. marked \in SUBSET Items /\ card.visited \cup {next} \in SUBSET Items
    BY <2>1, <2>2 DEF Cards
  <2>6. pick \in Options \cup {Blank}
    BY <2>1, <2>2 DEF Cards, Answers
  <2>7. card' = [card EXCEPT !.answers = answers, !.revisions = revisions, !.marked = marked,
                             !.idx = next, !.visited = card.visited \cup {next}, !.pick = pick]
    BY <1>4, <2>1 DEF SaveCurrent, Cards
  <2> HIDE DEF q, saved, answers, revisions, marked, next, pick
  <2> QED
    BY <2>1, <2>2, <2>3, <2>4, <2>5, <2>6, <2>7 DEF Cards
<1>5. ASSUME ClearResponse PROVE card' \in Cards
  <2>1. [card.answers EXCEPT ![card.idx] = Blank] \in Answers
    BY DEF TerminalTypeOK, Cards, Answers
  <2> DEFINE answers == [card.answers EXCEPT ![card.idx] = Blank]
  <2>2. card' = [card EXCEPT !.pick = Blank, !.answers = answers]
    BY <1>5 DEF TerminalTypeOK, ClearResponse, Cards
  <2>3. card \in Cards /\ answers \in Answers
    BY <2>1 DEF TerminalTypeOK
  <2> HIDE DEF answers
  <2> QED
    BY <2>2, <2>3 DEF Cards
<1>6. card' \in Cards
  <2>1. CASE \E i \in Items : Navigate(i)
    BY <1>2, <2>1
  <2>2. CASE \E o \in Options : Choose(o)
    BY <1>3, <2>2
  <2>3. CASE \E mark \in BOOLEAN : SaveCurrent(mark)
    BY <1>4, <2>3
  <2> QED
    BY <1>5, <2>1, <2>2, <2>3
<1>7. mishaps' = mishaps /\ UNCHANGED <<edgeVars, page, gate, phase, sealing, wire, receipt>>
  BY <1>1
<1> QED
  BY <1>6, <1>7, CardStep

\* So do the sealing, the Edge's answer and its way back.
LEMMA SubmitSteps ==
  ASSUME TerminalTypeOK,
         Submit \/ SealRecord \/ \E w \in wire : EdgeSubmit(w) \/ Deliver(w) \/ Break(w)
  PROVE  TerminalTypeOK'
<1>1. CASE Fail /\ UNCHANGED <<edgeVars, page, gate>> /\ (Mishap \/ mishaps' = mishaps)
  BY <1>1, LeavingSteps
<1>2. CASE Submit
  <2>1. sealing' \in [stage : {"idle", "key", "sent"}, answers : Answers]
    BY <1>2 DEF TerminalTypeOK, Submit, Cards
  <2> QED
    BY <1>2, <2>1 DEF TerminalTypeOK, Submit, edgeVars
<1>3. CASE SealRecord /\ ~Fail
  <2>1. [record |-> [answers |-> sealing.answers, revisions |-> card.revisions],
         live |-> TRUE, status |-> "sent"] \in Submissions
    BY DEF TerminalTypeOK, Submissions, Records, Cards
  <2>2. sealing' \in [stage : {"idle", "key", "sent"}, answers : Answers]
    BY <1>3 DEF TerminalTypeOK, SealRecord
  <2> QED
    BY <1>3, <2>1, <2>2 DEF TerminalTypeOK, SealRecord, edgeVars
<1>4. ASSUME NEW w \in wire, EdgeSubmit(w) PROVE TerminalTypeOK'
  <2>1. w \in Submissions
    BY DEF TerminalTypeOK
  <2>2. w.record \in Records /\ [w EXCEPT !.status = "accepted"] \in Submissions
        /\ [w EXCEPT !.status = "refused"] \in Submissions
    BY <2>1 DEF Submissions
  <2>3. wire' \subseteq Submissions /\ filed' \subseteq Records /\ seat' \in KioskStates
    BY <1>4, <2>2 DEF TerminalTypeOK, EdgeSubmit, KioskStates
  <2> QED
    BY <1>4, <2>3 DEF TerminalTypeOK, EdgeSubmit
<1>5. ASSUME NEW w \in wire, Deliver(w), ~Fail PROVE TerminalTypeOK'
  <2>1. w.record \in Records /\ w.live \in BOOLEAN /\ w.status \in {"sent", "accepted", "refused"}
    BY DEF TerminalTypeOK, Submissions
  <2>2. /\ wire' \subseteq wire
        /\ sealing' \in {sealing, NotSealing}
        /\ receipt' \in {receipt, w.record}
        /\ UNCHANGED <<edgeVars, page, gate, phase, card, mishaps>>
    BY <1>5, <2>1 DEF Deliver, ReceiptOf
  <2>3. sealing' \in [stage : {"idle", "key", "sent"}, answers : Answers]
    BY <2>2, NotSealingType DEF TerminalTypeOK
  <2> QED
    BY <2>1, <2>2, <2>3 DEF TerminalTypeOK, edgeVars
<1>6. ASSUME NEW w \in wire, Break(w) PROVE Fail /\ UNCHANGED <<edgeVars, page, gate>> /\ Mishap
  BY <1>6 DEF Break
<1>7. ASSUME Fail, SealRecord PROVE UNCHANGED <<edgeVars, page, gate>> /\ (Mishap \/ mishaps' = mishaps)
  BY <1>7 DEF SealRecord
<1>8. ASSUME NEW w \in wire, Fail, Deliver(w) PROVE UNCHANGED <<edgeVars, page, gate>> /\ mishaps' = mishaps
  BY <1>8 DEF Deliver
<1> QED
  BY <1>1, <1>2, <1>3, <1>4, <1>5, <1>6, <1>7, <1>8

\* Every variable of the terminal, of its pages and of the wire stays in its type,
\* reloads and mishaps included (app/page.tsx, app/candidate/page.tsx).
THEOREM TerminalTyped == TerminalSpec => []TerminalTypeOK
<1>1. TerminalTypeOK /\ [TerminalNext]_terminalVars => TerminalTypeOK'
  <2> SUFFICES ASSUME TerminalTypeOK, [TerminalNext]_terminalVars PROVE TerminalTypeOK'
    OBVIOUS
  <2>1. CASE UNCHANGED terminalVars
    BY <2>1 DEF terminalVars, TerminalTypeOK
  <2>2. CASE Reload
    BY <2>2, LeavingSteps
  <2>3. CASE TerminalNext /\ ~Reload
    BY <2>3, GateSteps, PaperSteps, CardSteps, SubmitSteps DEF TerminalNext
  <2> QED
    BY <2>1, <2>2, <2>3
<1> QED
  BY TerminalInitTypeOK, <1>1, PTL DEF TerminalSpec

-----------------------------------------------------------------------------
(* Receipts. *)

\* What vouches for a receipt before it is shown: an acceptance on its way back is for a
\* record that was filed, and the seat of a filed record is final.
AcceptedIsFiled == \A w \in wire : w.status = "accepted" => w.record \in filed

FiledIsFinal == filed # {} => seat = "SUBMITTED"

ReceiptInv == AcceptedIsFiled /\ FiledIsFinal /\ ReceiptVouches

\* Losing the card loses receipts and no record.
LEMMA UnmountKeepsReceipts ==
  ASSUME TerminalTypeOK, ReceiptInv, Unmount, UNCHANGED <<seat, filed>>
  PROVE  ReceiptInv'
<1>1. ASSUME NEW o \in wire' PROVE \E w \in wire : o.status = w.status /\ o.record = w.record
  <2>1. PICK w \in wire : o = [w EXCEPT !.live = FALSE]
    BY <1>1 DEF Unmount
  <2> QED
    BY <2>1 DEF TerminalTypeOK, Submissions
<1> QED
  BY <1>1 DEF ReceiptInv, AcceptedIsFiled, FiledIsFinal, ReceiptVouches, Unmount

LEMMA ReceiptStep ==
  ASSUME TerminalTypeOK, ReceiptInv, [TerminalNext]_terminalVars
  PROVE  ReceiptInv'
<1>1. CASE UNCHANGED <<filed, wire, receipt>> /\ (seat' = seat \/ seat # "SUBMITTED")
  BY <1>1 DEF ReceiptInv, AcceptedIsFiled, FiledIsFinal, ReceiptVouches
<1>2. CASE Unmount /\ UNCHANGED <<seat, filed>>
  BY <1>2, UnmountKeepsReceipts
<1>3. CASE \/ SeatAssigned \/ ReachT0 \/ GateProbe \/ GateOffline \/ GateCapability \/ GateTick
           \/ SeatTick \/ Login \/ BackToGate \/ TimerPoll
           \/ \E i \in Items : Navigate(i)
           \/ \E o \in Options : Choose(o)
           \/ \E mark \in BOOLEAN : SaveCurrent(mark)
           \/ ClearResponse \/ Submit \/ UNCHANGED terminalVars
  <2>1. UNCHANGED <<filed, wire, receipt>> /\ (seat' = seat \/ seat # "SUBMITTED")
    BY <1>3 DEF SeatAssigned, ReachT0, GateProbe, GateOffline, GateCapability, GateTick, SeatTick,
                Login, BackToGate, TimerPoll, Navigate, Choose, SaveCurrent, ClearResponse, Submit,
                OnlyCard, terminalVars, edgeVars, cardVars
  <2> QED
    BY <1>1, <2>1
<1>4. CASE Reload \/ LoadBundle \/ FirstPoll
  <2>1. UNCHANGED <<seat, filed>> /\ (Unmount \/ UNCHANGED <<wire, receipt>>)
    BY <1>4 DEF Reload, LoadBundle, FirstPoll, Fail, edgeVars
  <2> QED
    BY <1>1, <1>2, <2>1
<1>5. CASE SealRecord
  <2>1. CASE Fail
    BY <1>2, <1>5, <2>1 DEF SealRecord, Fail, edgeVars
  <2>2. CASE ~Fail
    <3>1. /\ UNCHANGED <<seat, filed, receipt>>
          /\ \A o \in wire' : o \in wire \/ o.status = "sent"
      BY <1>5, <2>2 DEF SealRecord, edgeVars
    <3> QED
      BY <3>1 DEF ReceiptInv, AcceptedIsFiled, FiledIsFinal, ReceiptVouches
  <2> QED
    BY <2>1, <2>2
<1>6. ASSUME NEW w \in wire, EdgeSubmit(w) PROVE ReceiptInv'
  <2>1. w \in Submissions
    BY DEF TerminalTypeOK
  <2>2. CASE seat = "ATTENDED"
    <3>1. [w EXCEPT !.status = "accepted"].record = w.record
      BY <2>1 DEF Submissions
    <3>2. filed' = filed \cup {w.record} /\ seat' = "SUBMITTED" /\ receipt' = receipt
      BY <1>6, <2>2 DEF EdgeSubmit
    <3>3. \A o \in wire' : o \in wire \/ o.record = w.record
      BY <1>6, <2>2, <3>1 DEF EdgeSubmit
    <3> QED
      BY <3>2, <3>3 DEF ReceiptInv, AcceptedIsFiled, FiledIsFinal, ReceiptVouches
  <2>3. CASE seat # "ATTENDED"
    <3>1. [w EXCEPT !.status = "refused"].status = "refused"
      BY <2>1 DEF Submissions
    <3>2. UNCHANGED <<seat, filed, receipt>>
          /\ \A o \in wire' : o \in wire \/ o.status = "refused"
      BY <1>6, <2>3, <3>1 DEF EdgeSubmit
    <3> QED
      BY <3>2 DEF ReceiptInv, AcceptedIsFiled, FiledIsFinal, ReceiptVouches
  <2> QED
    BY <2>2, <2>3
<1>7. ASSUME NEW w \in wire, Deliver(w) PROVE ReceiptInv'
  <2>1. w.live \in BOOLEAN /\ w.status \in {"sent", "accepted", "refused"}
    BY DEF TerminalTypeOK, Submissions
  <2>2. UNCHANGED <<seat, filed>>
    BY <1>7 DEF Deliver, edgeVars
  <2>3. CASE w.live /\ w.status = "refused"
    BY <1>2, <1>7, <2>2, <2>3 DEF Deliver, Fail
  <2>4. CASE ~(w.live /\ w.status = "refused")
    <3>1. wire' \subseteq wire /\ (receipt' = receipt \/ (receipt' = w.record /\ w.status = "accepted"))
      BY <1>7, <2>1, <2>4 DEF Deliver, ReceiptOf
    <3> QED
      BY <2>2, <3>1 DEF ReceiptInv, AcceptedIsFiled, FiledIsFinal, ReceiptVouches
  <2> QED
    BY <2>3, <2>4
<1>8. ASSUME NEW w \in wire, Break(w) PROVE ReceiptInv'
  BY <1>2, <1>8 DEF Break, Fail, edgeVars
<1> QED
  BY <1>3, <1>4, <1>5, <1>6, <1>7, <1>8 DEF TerminalNext

\* The receipt on the screen is the one of the record in the ledger (page.tsx 342-349,
\* 483-496), however often the card was lost and the paper handed in again.
THEOREM ReceiptAlwaysVouches == TerminalSpec => []ReceiptVouches
<1>1. TerminalInit => ReceiptInv
  BY DEF TerminalInit, ReceiptInv, AcceptedIsFiled, FiledIsFinal, ReceiptVouches
<1>2. ReceiptInv => ReceiptVouches
  BY DEF ReceiptInv
<1> QED
  BY <1>1, <1>2, ReceiptStep, TerminalTyped, PTL DEF TerminalSpec

-----------------------------------------------------------------------------
(* Records are sealed during the exam. *)

\* What the phases of the portal, the card and the sealing have established so far.
ExamInv ==
    /\ phase = "EXAM" => seat \in {"ATTENDED", "SUBMITTED"}
    /\ card.bundle => sound
    /\ card.load # "LOADING" => card.bundle
    /\ card.load = "READY" => t0
    /\ sealing.stage # "idle" => t0 /\ sound

SealedInv == ExamInv /\ SealedDuringExam

\* An unmounted card claims nothing, and the wire is not emptied or filled by it.
LEMMA UnmountKeepsExam ==
  ASSUME SealedInv, Unmount, UNCHANGED <<seat, t0, sound, filed>>, phase' # "EXAM"
  PROVE  SealedInv'
<1>1. ~NewCard.bundle /\ NewCard.load = "LOADING" /\ NotSealing.stage = "idle"
  BY DEF NewCard, NotSealing
<1>2. wire' # {} => wire # {}
  BY DEF Unmount
<1> QED
  BY <1>1, <1>2 DEF SealedInv, ExamInv, SealedDuringExam, Unmount

LEMMA SealedStep ==
  ASSUME TerminalTypeOK, SealedInv, [TerminalNext]_terminalVars
  PROVE  SealedInv'
<1>1. card \in Cards
  BY DEF TerminalTypeOK
<1>2. CASE UNCHANGED terminalVars
  BY <1>2 DEF terminalVars, SealedInv, ExamInv, SealedDuringExam
<1>3. CASE \/ SeatAssigned \/ ReachT0 \/ GateProbe \/ GateOffline \/ GateCapability \/ GateTick
           \/ SeatTick \/ Login \/ BackToGate
  BY <1>3 DEF SealedInv, ExamInv, SealedDuringExam, SeatAssigned, ReachT0, GateProbe, GateOffline,
              GateCapability, GateTick, SeatTick, Login, BackToGate, OnPhase, edgeVars, cardVars
<1>4. CASE Reload
  BY <1>4, UnmountKeepsExam DEF Reload, edgeVars
<1>5. CASE Fail /\ UNCHANGED edgeVars
  BY <1>5, UnmountKeepsExam DEF Fail, edgeVars
<1>6. CASE (LoadBundle \/ FirstPoll \/ TimerPoll) /\ ~Fail
  <2>1. UNCHANGED <<edgeVars, phase, sealing, wire>>
    BY <1>6 DEF LoadBundle, FirstPoll, TimerPoll
  <2>2. CASE LoadBundle
    <3>1. sound /\ card' = [card EXCEPT !.bundle = TRUE]
      BY <1>6, <2>2 DEF LoadBundle, RootMatches
    <3>2. card'.bundle /\ card'.load = card.load
      BY <1>1, <3>1 DEF Cards
    <3> QED
      BY <2>1, <3>1, <3>2 DEF SealedInv, ExamInv, SealedDuringExam, edgeVars
  <2>3. CASE FirstPoll
    <3>1. (t0 /\ card' = Ready) \/ card' = Waits
      BY <1>6, <2>3 DEF FirstPoll
    <3>2. card'.bundle = card.bundle /\ (card'.load = "READY" => t0)
      BY <1>1, <3>1 DEF Cards, Ready, Waits
    <3>3. card.bundle
      BY <2>3 DEF FirstPoll
    <3> QED
      BY <2>1, <3>2, <3>3 DEF SealedInv, ExamInv, SealedDuringExam, edgeVars
  <2>4. CASE TimerPoll
    <3>1. card.load = "BEFORE_T0" /\ ((t0 /\ card' = Ready) \/ card' = [card EXCEPT !.polling = FALSE])
      BY <2>4 DEF TimerPoll
    <3>2. card'.bundle = card.bundle /\ (card'.load = "READY" => t0)
      BY <1>1, <3>1 DEF Cards, Ready
    <3> QED
      BY <2>1, <3>1, <3>2 DEF SealedInv, ExamInv, SealedDuringExam, edgeVars
  <2> QED
    BY <1>6, <2>2, <2>3, <2>4
<1>7. CASE \/ \E i \in Items : Navigate(i)
           \/ \E o \in Options : Choose(o)
           \/ \E mark \in BOOLEAN : SaveCurrent(mark)
           \/ ClearResponse
  <2>1. UNCHANGED <<edgeVars, phase, sealing, wire>>
    BY <1>7 DEF Navigate, Choose, SaveCurrent, ClearResponse, OnlyCard
  <2>2. card'.bundle = card.bundle /\ card'.load = card.load
    BY <1>1, <1>7 DEF Cards, Navigate, GoTo, Choose, SaveCurrent, ClearResponse
  <2> QED
    BY <2>1, <2>2 DEF SealedInv, ExamInv, SealedDuringExam, edgeVars
<1>8. CASE Submit
  <2>1. t0 /\ sound
    BY <1>8 DEF Submit, Answering, SealedInv, ExamInv
  <2> QED
    BY <1>8, <2>1 DEF Submit, SealedInv, ExamInv, SealedDuringExam, edgeVars
<1>9. CASE SealRecord /\ ~Fail
  <2>1. t0 /\ sound /\ seat \in {"ATTENDED", "SUBMITTED"}
    BY <1>9 DEF SealRecord, OnPhase, SealedInv, ExamInv
  <2> QED
    BY <1>9, <2>1 DEF SealRecord, SealedInv, ExamInv, SealedDuringExam, edgeVars
<1>10. ASSUME NEW w \in wire, EdgeSubmit(w) PROVE SealedInv'
  BY <1>10 DEF EdgeSubmit, SealedInv, ExamInv, SealedDuringExam
<1>11. ASSUME NEW w \in wire, Deliver(w), ~Fail PROVE SealedInv'
  <2>1. /\ UNCHANGED <<edgeVars, phase, card>> /\ wire # {}
        /\ sealing' \in {sealing, NotSealing}
    <3>1. w.live \in BOOLEAN /\ w.status \in {"sent", "accepted", "refused"}
      BY DEF TerminalTypeOK, Submissions
    <3> QED
      BY <1>11, <3>1 DEF Deliver
  <2> QED
    BY <2>1 DEF NotSealing, SealedInv, ExamInv, SealedDuringExam, edgeVars
<1>12. ASSUME Fail, LoadBundle \/ FirstPoll \/ SealRecord
                   \/ \E w \in wire : Deliver(w) \/ Break(w)
       PROVE  UNCHANGED edgeVars
  BY <1>12 DEF LoadBundle, FirstPoll, SealRecord, Deliver, Break
<1>13. ASSUME NEW w \in wire, Break(w) PROVE Fail
  BY <1>13 DEF Break
<1>14. TimerPoll => UNCHANGED edgeVars
  BY DEF TimerPoll
<1> QED
  BY <1>2, <1>3, <1>4, <1>5, <1>6, <1>7, <1>8, <1>9, <1>10, <1>11, <1>12, <1>13, <1>14
     DEF TerminalNext

\* No record is sealed before T0, for a paper that does not match the chain's root, or on a
\* seat nobody logged in to (page.tsx 207-237, 316-341; http.ts 665-698).
THEOREM AlwaysSealedDuringExam == TerminalSpec => []SealedDuringExam
<1>1. TerminalInit => SealedInv
  BY DEF TerminalInit, SealedInv, ExamInv, SealedDuringExam, NewCard, NotSealing
<1>2. SealedInv => SealedDuringExam
  BY DEF SealedInv
<1> QED
  BY <1>1, <1>2, SealedStep, TerminalTyped, PTL DEF TerminalSpec

-----------------------------------------------------------------------------
(* The state of the console is well formed. *)

LEMMA ConsoleInitTypeOK == ConsoleInit => ConsoleTypeOK
<1> SUFFICES ASSUME ConsoleInit PROVE ConsoleTypeOK
  OBVIOUS
<1>1. NoRun \in IdleRuns
  BY DEF NoRun, IdleRuns
<1>2. run \in [Runs -> IdleRuns \cup ActiveRuns]
  BY <1>1 DEF ConsoleInit
<1>3. desk \in [authed : BOOLEAN, token : Tokens]
  BY DEF ConsoleInit, Tokens
<1>4. seatOf \in [DeskSeats -> DeskRolls \cup {Vacant}]
  BY DEF ConsoleInit
<1>5. failures \in 0..MaxFailures
  BY ConsoleAssumption DEF ConsoleInit
<1> QED
  BY <1>2, <1>3, <1>4, <1>5 DEF ConsoleInit, ConsoleTypeOK, NoView

\* The requests a mounted console sends first.
LEMMA MountPollsType ==
  ASSUME NEW t \in Tokens
  PROVE  MountPolls(t) \subseteq Polls
<1> SUFFICES ASSUME NEW p \in MountPolls(t) PROVE p \in Polls
  OBVIOUS
<1>1. PICK k \in {"roster", "seats"} :
        p = [kind |-> k, token |-> t, mine |-> TRUE, by |-> Vacant, answer |-> "waiting",
             read |-> {}]
  BY DEF MountPolls
<1>2. CASE k = "roster"
  BY <1>1, <1>2 DEF Polls, PollsOf
<1>3. CASE k = "seats"
  BY <1>1, <1>3 DEF Polls, PollsOf
<1> QED
  BY <1>2, <1>3

\* Requests stay requests when their console is left.
LEMMA OrphanedType ==
  ASSUME NEW ps \in SUBSET Polls
  PROVE  Orphaned(ps) \subseteq Polls
<1> SUFFICES ASSUME NEW o \in Orphaned(ps) PROVE o \in Polls
  OBVIOUS
<1>1. PICK p \in ps : o = [p EXCEPT !.mine = FALSE, !.read = {}]
  BY DEF Orphaned
<1>2. CASE p \in PollsOf("roster", DeskRolls)
  BY <1>1, <1>2 DEF Polls, PollsOf
<1>3. CASE p \in PollsOf("seats", DeskSeats)
  BY <1>1, <1>3 DEF Polls, PollsOf
<1> QED
  BY <1>2, <1>3 DEF Polls

\* A run that no longer belongs to the mounted console.
LEMMA LockedRunsType ==
  ASSUME run \in [Runs -> IdleRuns \cup ActiveRuns]
  PROVE  [q \in Runs |-> [run[q] EXCEPT !.mine = FALSE]] \in [Runs -> IdleRuns \cup ActiveRuns]
<1>1. ASSUME NEW r \in ActiveRuns PROVE [r EXCEPT !.mine = FALSE] \in ActiveRuns
  BY DEF ActiveRuns
<1>2. ASSUME NEW r \in IdleRuns PROVE [r EXCEPT !.mine = FALSE] \in IdleRuns
  BY DEF IdleRuns
<1> QED
  BY <1>1, <1>2

\* Calls under way age with the token they carry.
LEMMA AgedRunsType ==
  ASSUME run \in [Runs -> IdleRuns \cup ActiveRuns]
  PROVE  [q \in Runs |-> [run[q] EXCEPT !.token = Aged(run[q].token)]]
            \in [Runs -> IdleRuns \cup ActiveRuns]
<1>1. ASSUME NEW r \in ActiveRuns PROVE [r EXCEPT !.token = Aged(r.token)] \in ActiveRuns
  BY DEF ActiveRuns, Aged, Tokens
<1>2. ASSUME NEW r \in IdleRuns PROVE [r EXCEPT !.token = Aged(r.token)] \in IdleRuns
  BY DEF IdleRuns, Aged
<1> QED
  BY <1>1, <1>2

\* A station that locks, whatever made it.
LEMMA LockType ==
  ASSUME ConsoleTypeOK, Lock
  PROVE  /\ desk' \in [authed : BOOLEAN, token : Tokens]
         /\ view' = NoView
         /\ run' \in [Runs -> IdleRuns \cup ActiveRuns]
BY LockedRunsType DEF ConsoleTypeOK, Lock, Tokens

\* The next stage of a run.
LEMMA ToType ==
  ASSUME ConsoleTypeOK, NEW q \in Runs, run[q].stage # "idle",
         NEW stage \in {"checkedIn", "assign", "seated", "failed", "refreshing"},
         To(q, stage) \/ Sends(q, stage)
  PROVE  run' \in [Runs -> IdleRuns \cup ActiveRuns]
<1>1. run[q] \in ActiveRuns
  BY DEF ConsoleTypeOK, IdleRuns
<1>2. PICK token \in Tokens : Goes(q, stage, token)
  BY DEF To, Sends, ConsoleTypeOK, Tokens
<1>3. [run[q] EXCEPT !.stage = stage, !.token = token] \in ActiveRuns
  BY <1>1 DEF ActiveRuns
<1> QED
  BY <1>2, <1>3 DEF ConsoleTypeOK, Goes

\* A failure stays within its bound.
LEMMA FailureType ==
  ASSUME ConsoleTypeOK, Failure
  PROVE  failures' \in 0..MaxFailures
BY ConsoleAssumption DEF ConsoleTypeOK, Failure

\* The form, the login and the lock keep the state well formed.
LEMMA StationSteps ==
  ASSUME ConsoleTypeOK,
         \/ \E form \in {"login", "register"} : ShowForm(form)
         \/ SubmitRegistration \/ IssueToApplicant \/ ActivateApplicant
         \/ StationLogin \/ ReloadStation \/ LockStation \/ ExpireToken
  PROVE  ConsoleTypeOK'
<1>1. CASE \E form \in {"login", "register"} : ShowForm(form)
  BY <1>1 DEF ConsoleTypeOK, ShowForm, onDesk, hallVars
<1>2. CASE SubmitRegistration
  BY <1>2, FailureType DEF ConsoleTypeOK, SubmitRegistration, onDesk, hallVars
<1>3. CASE IssueToApplicant
  BY <1>3 DEF ConsoleTypeOK, IssueToApplicant, onDesk, hallVars
<1>4. CASE ActivateApplicant
  BY <1>4 DEF ConsoleTypeOK, ActivateApplicant, onDesk, hallVars
<1>5. CASE StationLogin
  <2>1. desk' \in [authed : BOOLEAN, token : Tokens]
    BY <1>5 DEF StationLogin, Tokens
  <2>2. polls' \subseteq Polls
    BY <1>5, MountPollsType DEF ConsoleTypeOK, StationLogin, Tokens
  <2> QED
    BY <1>5, <2>1, <2>2 DEF ConsoleTypeOK, StationLogin, NoView, hallVars
<1>6. CASE ReloadStation
  <2>1. desk' \in [authed : BOOLEAN, token : Tokens]
    BY <1>6 DEF ConsoleTypeOK, ReloadStation
  <2>2. polls' \subseteq Polls
    BY <1>6, MountPollsType DEF ConsoleTypeOK, ReloadStation
  <2>3. run' \in [Runs -> IdleRuns \cup ActiveRuns]
    BY <1>6 DEF ReloadStation, NoRun, IdleRuns
  <2>4. /\ applicant' = [applicant EXCEPT !.form = "login", !.asked = FALSE]
        /\ view' = NoView
        /\ UNCHANGED <<present, seatOf>>
        /\ Failure
    BY <1>6 DEF ReloadStation, hallVars
  <2> QED
    BY <2>1, <2>2, <2>3, <2>4, FailureType DEF ConsoleTypeOK, NoView
<1>7. CASE LockStation
  <2>1. polls' \subseteq Polls
    BY <1>7, OrphanedType DEF ConsoleTypeOK, LockStation
  <2>2. Lock /\ UNCHANGED <<applicant, present, seatOf, failures>>
    BY <1>7 DEF LockStation, hallVars
  <2>3. /\ desk' \in [authed : BOOLEAN, token : Tokens]
        /\ view' = NoView
        /\ run' \in [Runs -> IdleRuns \cup ActiveRuns]
    BY <2>2, LockType
  <2> QED
    BY <2>1, <2>2, <2>3 DEF ConsoleTypeOK, NoView
<1>8. CASE ExpireToken
  <2>1. desk' \in [authed : BOOLEAN, token : Tokens]
    BY <1>8 DEF ConsoleTypeOK, ExpireToken, Tokens
  <2>2. ASSUME NEW p \in Polls, NEW t \in Tokens PROVE [p EXCEPT !.token = t] \in Polls
    <3>1. CASE p \in PollsOf("roster", DeskRolls)
      BY <2>2, <3>1 DEF Polls, PollsOf
    <3>2. CASE p \in PollsOf("seats", DeskSeats)
      BY <2>2, <3>2 DEF Polls, PollsOf
    <3> QED
      BY <2>2, <3>1, <3>2 DEF Polls
  <2>3. polls' \subseteq Polls
    <3>1. ASSUME NEW p \in Polls PROVE p.token \in Tokens
      BY DEF Polls, PollsOf
    <3>2. ASSUME NEW e \in polls' PROVE e \in Polls
      <4>1. PICK p \in polls : e = [p EXCEPT !.token = Aged(p.token)]
        BY <1>8, <3>2 DEF ExpireToken
      <4>2. p \in Polls /\ Aged(p.token) \in Tokens
        BY <3>1 DEF ConsoleTypeOK, Tokens, Aged
      <4> QED
        BY <2>2, <4>1, <4>2
    <3> QED
      BY <3>2
  <2>4. run' \in [Runs -> IdleRuns \cup ActiveRuns]
    BY <1>8, AgedRunsType DEF ConsoleTypeOK, ExpireToken
  <2>5. Failure /\ UNCHANGED <<applicant, view, present, seatOf>>
    BY <1>8 DEF ExpireToken, hallVars
  <2> QED
    BY <2>1, <2>3, <2>4, <2>5, FailureType DEF ConsoleTypeOK
<1> QED
  BY <1>1, <1>2, <1>3, <1>4, <1>5, <1>6, <1>7, <1>8

\* So do the refreshes.
LEMMA PollSteps ==
  ASSUME ConsoleTypeOK,
         PollSeats \/ \E p \in polls : ServePoll(p) \/ PollArrives(p) \/ PollLost(p)
  PROVE  ConsoleTypeOK'
<1>1. CASE PollSeats
  <2>1. ASSUME NEW t \in Tokens
        PROVE [kind |-> "seats", token |-> t, mine |-> TRUE, by |-> Vacant,
               answer |-> "waiting", read |-> {}] \in PollsOf("seats", DeskSeats)
    BY DEF PollsOf
  <2>2. polls' \subseteq Polls
    BY <1>1, <2>1 DEF ConsoleTypeOK, PollSeats, Polls
  <2> QED
    BY <1>1, <2>2 DEF ConsoleTypeOK, PollSeats, hallVars
<1>2. ASSUME NEW p \in polls, ServePoll(p) PROVE ConsoleTypeOK'
  <2>1. TakenSeats \in SUBSET DeskSeats /\ present \in SUBSET DeskRolls
    BY DEF ConsoleTypeOK, TakenSeats
  <2>2. [p EXCEPT !.answer = "refused"] \in Polls
    BY DEF ConsoleTypeOK, Polls, PollsOf
  <2>3. [p EXCEPT !.answer = "read",
                  !.read = IF ~p.mine THEN {}
                           ELSE IF p.kind = "roster" THEN present ELSE TakenSeats] \in Polls
    <3>1. CASE p \in PollsOf("roster", DeskRolls)
      BY <2>1, <3>1 DEF Polls, PollsOf
    <3>2. CASE p \in PollsOf("seats", DeskSeats)
      BY <2>1, <3>2 DEF Polls, PollsOf
    <3> QED
      BY <3>1, <3>2 DEF ConsoleTypeOK, Polls
  <2>4. polls' \subseteq Polls
    BY <1>2, <2>2, <2>3 DEF ConsoleTypeOK, ServePoll
  <2> QED
    BY <1>2, <2>4 DEF ConsoleTypeOK, ServePoll, hallVars
<1>3. ASSUME NEW p \in polls, PollArrives(p) PROVE ConsoleTypeOK'
  <2>1. UNCHANGED <<applicant, present, seatOf, failures>>
    BY <1>3 DEF PollArrives, hallVars
  <2>2. CASE LocksOn(p)
    <3>1. Lock /\ polls' = Orphaned(polls \ {p})
      BY <1>3, <2>2 DEF PollArrives
    <3>2. polls' \subseteq Polls
      BY <3>1, OrphanedType DEF ConsoleTypeOK
    <3>3. /\ desk' \in [authed : BOOLEAN, token : Tokens]
          /\ view' = NoView
          /\ run' \in [Runs -> IdleRuns \cup ActiveRuns]
      BY <3>1, LockType
    <3> QED
      BY <2>1, <3>2, <3>3 DEF ConsoleTypeOK, NoView
  <2>3. CASE ~LocksOn(p)
    <3>1. view' \in [roster : BOOLEAN, present : SUBSET DeskRolls, seats : SUBSET DeskSeats,
                     busy : DeskRolls \cup {Vacant}]
      BY <1>3, <2>3 DEF ConsoleTypeOK, PollArrives, Polls, PollsOf
    <3>2. polls' \subseteq Polls /\ UNCHANGED <<desk, run>>
      BY <1>3, <2>3 DEF ConsoleTypeOK, PollArrives
    <3> QED
      BY <2>1, <3>1, <3>2 DEF ConsoleTypeOK
  <2> QED
    BY <2>2, <2>3
<1>4. ASSUME NEW p \in polls, PollLost(p) PROVE ConsoleTypeOK'
  BY <1>4, FailureType DEF ConsoleTypeOK, PollLost, hallVars
<1> QED
  BY <1>1, <1>2, <1>3, <1>4

\* So do the steps of a verification.
LEMMA RunSteps ==
  ASSUME ConsoleTypeOK, NEW q \in Runs,
         \/ \E roll \in DeskRolls, bio \in BOOLEAN : Verify(q, roll, bio)
         \/ CheckInAtEdge(q) \/ RequestSeat(q) \/ AssignAtEdge(q)
         \/ RefreshAfter(q) \/ FinishRun(q)
  PROVE  ConsoleTypeOK'
<1>1. ASSUME NEW roll \in DeskRolls, NEW bio \in BOOLEAN, Verify(q, roll, bio)
      PROVE ConsoleTypeOK'
  <2>1. run' \in [Runs -> IdleRuns \cup ActiveRuns]
    <3>1. desk.token \in Tokens
      BY DEF ConsoleTypeOK
    <3>2. [stage |-> "checkin", roll |-> roll, bio |-> bio, mine |-> TRUE, token |-> desk.token]
             \in ActiveRuns
      BY <3>1 DEF ActiveRuns
    <3> QED
      BY <1>1, <3>2 DEF ConsoleTypeOK, Verify
  <2> QED
    BY <1>1, <2>1 DEF ConsoleTypeOK, Verify, hallVars
<1>2. ASSUME run[q].stage # "idle" PROVE run[q].roll \in DeskRolls
  BY <1>2 DEF ConsoleTypeOK, IdleRuns, ActiveRuns
<1>3. CASE CheckInAtEdge(q)
  <2>1. run' \in [Runs -> IdleRuns \cup ActiveRuns]
    BY <1>3, ToType DEF CheckInAtEdge
  <2>2. present' \subseteq DeskRolls
    BY <1>2, <1>3 DEF ConsoleTypeOK, CheckInAtEdge
  <2>3. failures' \in 0..MaxFailures
    BY <1>3, FailureType DEF ConsoleTypeOK, CheckInAtEdge
  <2> QED
    BY <1>3, <2>1, <2>2, <2>3 DEF ConsoleTypeOK, CheckInAtEdge, OnlyRun
<1>4. CASE RequestSeat(q)
  <2>1. run' \in [Runs -> IdleRuns \cup ActiveRuns]
    <3>1. run[q].stage # "idle" /\ Sends(q, "assign")
      BY <1>4 DEF RequestSeat, NextCall
    <3> QED
      BY <3>1, ToType
  <2> QED
    BY <1>4, <2>1 DEF ConsoleTypeOK, RequestSeat, OnlyRun, hallVars
<1>5. CASE AssignAtEdge(q)
  <2>1. run' \in [Runs -> IdleRuns \cup ActiveRuns]
    BY <1>5, ToType DEF AssignAtEdge
  <2>2. seatOf' \in [DeskSeats -> DeskRolls \cup {Vacant}]
    BY <1>2, <1>5 DEF ConsoleTypeOK, AssignAtEdge
  <2>3. failures' \in 0..MaxFailures
    BY <1>5, FailureType DEF ConsoleTypeOK, AssignAtEdge
  <2> QED
    BY <1>5, <2>1, <2>2, <2>3 DEF ConsoleTypeOK, AssignAtEdge, OnlyRun
<1>6. CASE RefreshAfter(q)
  <2>1. run' \in [Runs -> IdleRuns \cup ActiveRuns]
    <3>1. run[q].stage # "idle" /\ To(q, "refreshing")
      BY <1>6 DEF RefreshAfter
    <3> QED
      BY <3>1, ToType
  <2>2. run[q].mine \in BOOLEAN
    <3>1. run[q] \in IdleRuns \cup ActiveRuns
      BY DEF ConsoleTypeOK
    <3> QED
      BY <3>1 DEF IdleRuns, ActiveRuns
  <2>3. polls' \subseteq Polls
    <3>1. ASSUME NEW p \in polls' \ polls PROVE p \in Polls
      <4>1. PICK k \in {"roster", "seats"} :
              p = [kind |-> k, token |-> desk.token, mine |-> run[q].mine, by |-> q,
                   answer |-> "waiting", read |-> {}]
        BY <1>6, <3>1 DEF RefreshAfter
      <4>2. desk.token \in Tokens
        BY DEF ConsoleTypeOK
      <4>3. CASE k = "roster"
        BY <2>2, <4>1, <4>2, <4>3 DEF Polls, PollsOf
      <4>4. CASE k = "seats"
        BY <2>2, <4>1, <4>2, <4>4 DEF Polls, PollsOf
      <4> QED
        BY <4>3, <4>4
    <3> QED
      BY <3>1 DEF ConsoleTypeOK
  <2> QED
    BY <1>6, <2>1, <2>3 DEF ConsoleTypeOK, RefreshAfter, hallVars
<1>7. CASE FinishRun(q)
  <2>1. run' \in [Runs -> IdleRuns \cup ActiveRuns]
    <3>1. NoRun \in IdleRuns
      BY DEF NoRun, IdleRuns
    <3> QED
      BY <1>7, <3>1 DEF ConsoleTypeOK, FinishRun
  <2> QED
    BY <1>7, <2>1 DEF ConsoleTypeOK, FinishRun, hallVars
<1> QED
  BY <1>1, <1>3, <1>4, <1>5, <1>6, <1>7

\* Whatever overlaps, fails or is reloaded, tables, requests and verifications of the
\* console and of the Edge are what their types say (page.tsx 41-47, 168-175).
THEOREM ConsoleTyped == ConsoleSpec => []ConsoleTypeOK
<1>1. ConsoleTypeOK /\ [ConsoleNext]_consoleVars => ConsoleTypeOK'
  <2> SUFFICES ASSUME ConsoleTypeOK, [ConsoleNext]_consoleVars PROVE ConsoleTypeOK'
    OBVIOUS
  <2>1. CASE UNCHANGED consoleVars
    BY <2>1 DEF consoleVars, ConsoleTypeOK
  <2>2. CASE ConsoleNext
    BY <2>2, StationSteps, PollSteps, RunSteps DEF ConsoleNext
  <2> QED
    BY <2>1, <2>2
<1> QED
  BY ConsoleInitTypeOK, <1>1, PTL DEF ConsoleSpec

-----------------------------------------------------------------------------
(* A seat is bound to checked-in rolls only. *)

\* Verifications past the check-in: what SeatedAreCheckedIn rests on.
RunsCheckedIn ==
    \A q \in Runs : run[q].stage \in {"checkedIn", "assign", "seated", "refreshing"} =>
        run[q].roll \in present

\* A step that leaves the two tables of the hall alone, and starts no verification past
\* its check-in, keeps both.
LEMMA HallUntouched ==
  ASSUME RunsCheckedIn, SeatedAreCheckedIn, UNCHANGED hallVars,
         \A q \in Runs : \/ run'[q].stage \in {"idle", "checkin", "failed"}
                         \/ run'[q].stage = run[q].stage /\ run'[q].roll = run[q].roll
  PROVE  RunsCheckedIn' /\ SeatedAreCheckedIn'
BY DEF RunsCheckedIn, SeatedAreCheckedIn, hallVars

\* A locked station forgets whose its verifications are, not where they stand.
LEMMA LockKeepsRuns ==
  ASSUME ConsoleTypeOK, Lock, NEW q \in Runs
  PROVE  run'[q].stage = run[q].stage /\ run'[q].roll = run[q].roll
<1>1. run'[q] = [run[q] EXCEPT !.mine = FALSE]
  BY DEF Lock
<1> QED
  BY <1>1 DEF ConsoleTypeOK, IdleRuns, ActiveRuns

\* A stage of a run changes nothing else.
LEMMA ToRuns ==
  ASSUME ConsoleTypeOK, NEW q \in Runs, NEW stage, To(q, stage) \/ Sends(q, stage)
  PROVE  /\ run'[q].stage = stage /\ run'[q].roll = run[q].roll
         /\ \A p \in Runs \ {q} : run'[p] = run[p]
<1>1. run[q] \in IdleRuns \cup ActiveRuns
  BY DEF ConsoleTypeOK
<1>2. PICK token : Goes(q, stage, token)
  BY DEF To, Sends
<1>3. run'[q] = [run[q] EXCEPT !.stage = stage, !.token = token]
  BY <1>2 DEF ConsoleTypeOK, Goes
<1>4. \A p \in Runs \ {q} : run'[p] = run[p]
  BY <1>2 DEF ConsoleTypeOK, Goes
<1> QED
  BY <1>1, <1>3, <1>4 DEF IdleRuns, ActiveRuns

LEMMA SeatedStep ==
  ASSUME ConsoleTypeOK, RunsCheckedIn, SeatedAreCheckedIn, [ConsoleNext]_consoleVars
  PROVE  RunsCheckedIn' /\ SeatedAreCheckedIn'
<1>1. CASE UNCHANGED consoleVars
  BY <1>1 DEF consoleVars, RunsCheckedIn, SeatedAreCheckedIn
<1>2. CASE (\E form \in {"login", "register"} : ShowForm(form)) \/ SubmitRegistration
           \/ IssueToApplicant \/ ActivateApplicant \/ StationLogin \/ PollSeats
  <2>1. run' = run /\ UNCHANGED hallVars
    BY <1>2 DEF ShowForm, SubmitRegistration, IssueToApplicant, ActivateApplicant, StationLogin,
                PollSeats, onDesk
  <2> QED
    BY <2>1, HallUntouched
<1>3. CASE ReloadStation
  BY <1>3, HallUntouched DEF ReloadStation, NoRun
<1>4. CASE LockStation
  BY <1>4, LockKeepsRuns, HallUntouched DEF LockStation
<1>12. CASE ExpireToken
  <2>1. ASSUME NEW q \in Runs
        PROVE  run'[q].stage = run[q].stage /\ run'[q].roll = run[q].roll
    <3>1. run'[q] = [run[q] EXCEPT !.token = Aged(run[q].token)]
      BY <1>12 DEF ExpireToken
    <3> QED
      BY <3>1 DEF ConsoleTypeOK, IdleRuns, ActiveRuns
  <2> QED
    BY <1>12, <2>1, HallUntouched DEF ExpireToken
<1>5. CASE \E p \in polls : ServePoll(p) \/ PollArrives(p) \/ PollLost(p)
  <2>1. UNCHANGED hallVars /\ (run' = run \/ Lock)
    BY <1>5 DEF ServePoll, PollArrives, PollLost
  <2> QED
    BY <2>1, LockKeepsRuns, HallUntouched
<1>6. ASSUME NEW q \in Runs, NEW roll \in DeskRolls, NEW bio \in BOOLEAN, Verify(q, roll, bio)
      PROVE RunsCheckedIn' /\ SeatedAreCheckedIn'
  <2>1. run'[q].stage = "checkin" /\ \A p \in Runs \ {q} : run'[p] = run[p]
    BY <1>6 DEF ConsoleTypeOK, Verify
  <2> QED
    BY <1>6, <2>1, HallUntouched DEF Verify
<1>7. ASSUME NEW q \in Runs, CheckInAtEdge(q) PROVE RunsCheckedIn' /\ SeatedAreCheckedIn'
  <2>1. CASE run[q].token = "live" /\ run[q].bio
    <3>1. present' = present \cup {run[q].roll} /\ seatOf' = seatOf
      BY <1>7, <2>1 DEF CheckInAtEdge
    <3>2. run'[q].roll = run[q].roll /\ \A p \in Runs \ {q} : run'[p] = run[p]
      BY <1>7, <2>1, ToRuns DEF CheckInAtEdge
    <3> QED
      BY <3>1, <3>2 DEF RunsCheckedIn, SeatedAreCheckedIn
  <2>2. CASE ~(run[q].token = "live" /\ run[q].bio)
    <3>1. To(q, "failed") /\ UNCHANGED hallVars
      BY <1>7, <2>2 DEF CheckInAtEdge, hallVars
    <3> QED
      BY <3>1, ToRuns, HallUntouched
  <2> QED
    BY <2>1, <2>2
<1>8. ASSUME NEW q \in Runs, RequestSeat(q) PROVE RunsCheckedIn' /\ SeatedAreCheckedIn'
  <2>1. run[q].stage = "checkedIn" /\ Sends(q, "assign") /\ UNCHANGED <<present, seatOf>>
    BY <1>8 DEF RequestSeat, NextCall, hallVars
  <2> QED
    BY <2>1, ToRuns DEF RunsCheckedIn, SeatedAreCheckedIn
<1>9. ASSUME NEW q \in Runs, AssignAtEdge(q) PROVE RunsCheckedIn' /\ SeatedAreCheckedIn'
  <2>1. run[q].roll \in present
    BY <1>9 DEF AssignAtEdge, RunsCheckedIn
  <2>2. /\ present' = present
        /\ \A s \in DeskSeats : seatOf'[s] \in {seatOf[s], run[q].roll}
    BY <1>9 DEF ConsoleTypeOK, AssignAtEdge
  <2>3. run'[q].roll = run[q].roll /\ \A p \in Runs \ {q} : run'[p] = run[p]
    BY <1>9, ToRuns DEF AssignAtEdge
  <2> QED
    BY <2>1, <2>2, <2>3 DEF RunsCheckedIn, SeatedAreCheckedIn
<1>10. ASSUME NEW q \in Runs, RefreshAfter(q) PROVE RunsCheckedIn' /\ SeatedAreCheckedIn'
  <2>1. run[q].stage = "seated" /\ To(q, "refreshing") /\ UNCHANGED <<present, seatOf>>
    BY <1>10 DEF RefreshAfter, hallVars
  <2> QED
    BY <2>1, ToRuns DEF RunsCheckedIn, SeatedAreCheckedIn
<1>11. ASSUME NEW q \in Runs, FinishRun(q) PROVE RunsCheckedIn' /\ SeatedAreCheckedIn'
  <2>1. run'[q].stage = "idle" /\ \A p \in Runs \ {q} : run'[p] = run[p]
    BY <1>11 DEF ConsoleTypeOK, FinishRun, NoRun
  <2> QED
    BY <1>11, <2>1, HallUntouched DEF FinishRun
<1> QED
  BY <1>1, <1>2, <1>3, <1>4, <1>5, <1>6, <1>7, <1>8, <1>9, <1>10, <1>11, <1>12
  DEF ConsoleNext

\* "The seat number exists only after both succeed" (page.tsx 267-268): for any number of
\* stations' verifications that overlap, fail half-way or outlive their login.
THEOREM OnlyCheckedInSeated == ConsoleSpec => []SeatedAreCheckedIn
<1>1. ConsoleInit => RunsCheckedIn /\ SeatedAreCheckedIn
  BY DEF ConsoleInit, RunsCheckedIn, SeatedAreCheckedIn, NoRun
<1> QED
  BY <1>1, SeatedStep, ConsoleTyped, PTL DEF ConsoleSpec
=============================================================================
