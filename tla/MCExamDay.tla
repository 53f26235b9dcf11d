------------------------------ MODULE MCExamDay ------------------------------
(* Small instances of ExamDay for TLC. *)
EXTENDS ExamDay, TLC

Symmetry == Permutations(Reqs) \cup Permutations(Envelopes) \cup Permutations(Admins)

\* No fault is reported, and nobody mistypes a login once the window has closed
\* or an answer is in: neither touches what leaves the centre.
Calm ==
    \A t \in Terminals :
        /\ health[t] = "OK"
        /\ attempts[t] > 0 => ~windowClosed /\ ledger = <<>>
=============================================================================
