----------------------------- MODULE MCAuditLog -----------------------------
(* Small instances of AuditLog for TLC. *)
EXTENDS AuditLog, TLC

Symmetry == Permutations(Txs) \cup Permutations(Entries)
=============================================================================
