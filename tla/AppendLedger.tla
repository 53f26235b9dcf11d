---------------------------- MODULE AppendLedger ----------------------------
(***************************************************************************)
(* What a hash-chained log of the Edge promises, whatever the number of    *)
(* clients writing to it: it starts empty and changes only by one record   *)
(* being chained to its end.  private/edge-server/src/lib/merkle-chain.ts  *)
(* (appendLeaf) is the single-writer form of it; the answer ledger and the *)
(* audit log are its two concurrent implementations.                       *)
(***************************************************************************)
EXTENDS MerkleChain

CONSTANT Leaves
VARIABLE chain

Init == chain = <<>>

AppendOne(leaf) == chain' = Append(chain, appendLeaf(chain, leaf))

Next == \E leaf \in Leaves : AppendOne(leaf)

Spec == Init /\ [][Next]_chain
=============================================================================
