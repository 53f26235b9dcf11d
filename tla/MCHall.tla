------------------------------- MODULE MCHall -------------------------------
(* The screens of an exam hall and of its staff, and the Edge's handlers of a seat, one
   at a time: "focus" says which.  The screens meet only at the Edge, of which each of
   them models what it calls. *)
EXTENDS CandidateTerminal, InvigilatorConsole, StaffPortals, SeatPipeline

VARIABLE focus

vars == <<focus, terminalVars, consoleVars, portalVars, seatVars>>

HallInit ==
    /\ focus \in {"terminal", "console", "portal", "seat"}
    /\ TerminalInit /\ (focus # "terminal" => sound)
    /\ ConsoleInit
    /\ PortalInit
    /\ Init

\* A step of one part leaves the others alone.
Only(part) ==
    /\ focus = part
    /\ UNCHANGED focus
    /\ part # "terminal" => UNCHANGED terminalVars
    /\ part # "console" => UNCHANGED consoleVars
    /\ part # "portal" => UNCHANGED portalVars
    /\ part # "seat" => UNCHANGED seatVars

HallNext ==
    \/ Only("terminal") /\ TerminalNext
    \/ Only("console") /\ ConsoleNext
    \/ Only("portal") /\ PortalNext
    \/ Only("seat") /\ SeatNext

\* The fairness of TerminalFairness, ConsoleFairness and PortalFairness, for the one focus.
HallFairness ==
    /\ WF_terminalVars(focus = "terminal" /\ TerminalServes)
    /\ WF_consoleVars(focus = "console" /\ PollSeats)
    /\ WF_consoleVars(focus = "console" /\ \E p \in polls : ServePoll(p))
    /\ WF_consoleVars(focus = "console" /\ \E p \in polls : PollArrives(p))
    /\ WF_consoleVars(focus = "console" /\ \E p \in polls : LocksOn(p) /\ PollArrives(p))
    /\ WF_portalVars(focus = "portal" /\ PollPortal)
    /\ WF_portalVars(focus = "portal" /\ \E c \in calls : ServeCall(c))
    /\ WF_portalVars(focus = "portal" /\ \E c \in calls : CallArrives(c))
    /\ WF_portalVars(focus = "portal" /\ \E c \in calls : c.answer = "refused" /\ CallArrives(c))
    /\ \A q \in Reqs : WF_seatVars(focus = "seat" /\ Serve(q))

Spec == HallInit /\ [][HallNext]_vars /\ HallFairness

\* Answers that are corrected, or questions marked for review, are followed up one at a
\* time, where nothing fails, and corrected answers up to the sending of the record.
\* A portal's codes and fingerprints are followed up while the counts stand still.
Tidy ==
    LET revised == \E i \in Items : card.revisions[i] > 0
    IN  /\ revised \/ card.marked # {} => mishaps = 0 /\ filed = {}
        /\ revised => card.marked = {} /\ wire = {}
        /\ card.marked # {} => sealing.stage = "idle"
        /\ edge.authorised # {} \/ (\E a \in Applicants : edge.code[a] > 0) => edge.version = 0

\* The state of each focus is well formed.
HallTypeOK ==
    /\ focus = "terminal" => TerminalTypeOK
    /\ focus = "console" => ConsoleTypeOK
    /\ focus = "portal" => PortalTypeOK
    /\ focus = "seat" => SeatTypeOK
=============================================================================
