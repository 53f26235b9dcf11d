------------------------------ MODULE MerkleTree ------------------------------
(***************************************************************************)
(* The three Merkle trees of the repository.  SHA-256 is taken as an ideal *)
(* hash: a node IS the pair it was made of.  Receipts (complaint.ts) and   *)
(* the Edge's sealer (question-seal.ts) pair the last node of an odd level *)
(* with itself; the web site's question pipeline fills the leaves up to a  *)
(* power of two with zeros.  A leaf is any tuple but a pair or Zero.       *)
(*                                                                         *)
(* A definition marked "Variant" is no part of the specification: it is    *)
(* the next definition with a plausible mistake, which a property refutes. *)
(***************************************************************************)
EXTENDS Integers, Sequences

hashPair(left, right) == <<"pair", left, right>>

\* 32 zero bytes.
Zero == <<"zero">>

\* The level above a level; a last node without a neighbour is paired with itself.
NextLevel(level) ==
    [i \in 1..((Len(level) + 1) \div 2) |->
       hashPair(level[2 * i - 1], level[IF 2 * i <= Len(level) THEN 2 * i ELSE 2 * i - 1])]

\* The levels of the tree over a sequence of leaves; those above its root do not count.
Levels(leaves) ==
    LET level[l \in 0..Len(leaves)] ==
          IF l = 0 THEN leaves ELSE NextLevel(level[l - 1])
    IN  level

\* While a level has more than one node there is one above it.
Height(leaves) ==
    CHOOSE h \in 0..Len(leaves) :
        /\ Len(Levels(leaves)[h]) = 1
        /\ \A k \in 0..(h - 1) : Len(Levels(leaves)[k]) > 1

RootOf(leaves) == Levels(leaves)[Height(leaves)][1]

\* The powers of two up to 2^m.
Doublings(m) ==
    LET power[k \in 0..m] == IF k = 0 THEN 1 ELSE 2 * power[k - 1]
    IN  power

\* The least power of two that has room for n leaves.
Width(n) ==
    CHOOSE w \in {Doublings(n)[k] : k \in 0..n} :
        w >= n /\ \A k \in 0..n : Doublings(n)[k] >= n => w <= Doublings(n)[k]

\* The leaves, filled up with zeros.
Padded(leaves) ==
    [i \in 1..Width(Len(leaves)) |-> IF i <= Len(leaves) THEN leaves[i] ELSE Zero]

\* The positions, from zero, of the nodes on the way up from a leaf.
Positions(index, height) ==
    LET position[k \in 0..height] == IF k = 0 THEN index ELSE position[k - 1] \div 2
    IN  position

\* The other child of the node above position i of a level; itself where it has none.
Sibling(level, i) ==
    LET other == IF i % 2 = 0 THEN i + 1 ELSE i - 1
    IN  level[(IF other < Len(level) THEN other ELSE i) + 1]

\* Variant: the position is not halved on the way up.
siblingsUnhalved(leaves, index) ==
    [k \in 1..Height(leaves) |->
       Sibling(Levels(leaves)[k - 1], IF index < Len(Levels(leaves)[k - 1]) THEN index ELSE 0)]

\* The siblings on the way from the leaf at index, from zero, to the root.
siblings(leaves, index) ==
    [k \in 1..Height(leaves) |->
       Sibling(Levels(leaves)[k - 1], Positions(index, Height(leaves))[k - 1])]

\* The sides on which they are.
Sides(index, height) ==
    [k \in 1..height |-> IF Positions(index, height)[k - 1] % 2 = 0 THEN "right" ELSE "left"]

\* What a walk from a leaf ends in, past siblings on their sides.
Walk(leaf, hashes, sides) ==
    LET node[k \in 0..Len(hashes)] ==
          IF k = 0 THEN leaf
          ELSE IF sides[k] = "right" THEN hashPair(node[k - 1], hashes[k])
               ELSE hashPair(hashes[k], node[k - 1])
    IN  node[Len(hashes)]
=============================================================================
