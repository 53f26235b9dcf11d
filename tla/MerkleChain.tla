----------------------------- MODULE MerkleChain -----------------------------
(***************************************************************************)
(* The hash-chain of the Centre Edge, private/edge-server/src/lib/         *)
(* merkle-chain.ts.  SHA-256 is taken as an ideal, collision-free hash: a  *)
(* root IS the sequence of leaves it commits to, so that two roots are     *)
(* equal exactly when they commit to the same leaves in the same order.    *)
(***************************************************************************)
EXTENDS Integers, Sequences

\* The genesis root (32 zero bytes): it commits to nothing.
GENESIS == <<>>

nextRoot(prevRoot, leaf) == Append(prevRoot, leaf)

\* The root the next record chains to.
tailRoot(records) ==
    IF records = <<>> THEN GENESIS ELSE records[Len(records)].root

\* The record chained to prevRoot at position index.
ChainRecord(index, leaf, prevRoot) ==
    [index |-> index, leaf |-> leaf, prevRoot |-> prevRoot,
     root |-> nextRoot(prevRoot, leaf)]

appendLeaf(records, leaf) ==
    ChainRecord(Len(records), leaf, tailRoot(records))

\* The walk from genesis: each record chains to the one before it.
verifyChain(records) ==
    \A i \in 1..Len(records) :
        /\ records[i].prevRoot = IF i = 1 THEN GENESIS ELSE records[i-1].root
        /\ records[i].root = nextRoot(records[i].prevRoot, records[i].leaf)

\* The inclusion witness a receipt carries.
verifyInclusion(w) == w.root = nextRoot(w.prevRoot, w.leaf)

=============================================================================
