----------------------------- MODULE MCApproval -----------------------------
(* Small instances of Approval for TLC. *)
EXTENDS Approval, FiniteSets, TLC

Symmetry ==
    Permutations(Admins) \cup Permutations(Invigilators) \cup Permutations(Codes)
      \cup Permutations(Reqs)

\* Three of the staff at most, and codes expire only while there are two: a TTL
\* concerns one request and those who approve it.
Cast ==
    LET cast == {s \in Staff : ident[s].status # "NONE"}
    IN  Cardinality(cast) <= IF expired = {} THEN 3 ELSE 2
=============================================================================
