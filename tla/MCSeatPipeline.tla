--------------------------- MODULE MCSeatPipeline ---------------------------
(* Small instances of SeatPipeline for TLC. *)
EXTENDS SeatPipeline, TLC

Symmetry == Permutations(Terminals) \cup Permutations(Reqs) \cup Permutations(Envelopes)
=============================================================================
