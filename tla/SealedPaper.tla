----------------------------- MODULE SealedPaper -----------------------------
(***************************************************************************)
(* A sealed question bundle and its opening: every question is sealed      *)
(* under a key of its own, derived from the beacon of T0, and committed to *)
(* by a Merkle root; a question is opened alone, when it is selected, and  *)
(* only if its bytes are under that root.  The pages are those of the web  *)
(* site's pipeline demonstration, on which a question in transit can be    *)
(* altered; bundles come from it or from the sealer of the Edge, which     *)
(* builds another tree: both are opened by the same code.  Opening awaits  *)
(* WebCrypto, and the page's state may change under it.                    *)
(*                                                                         *)
(* A definition marked "Variant" is no part of the specification: it is    *)
(* the next definition with a plausible mistake, which a property refutes. *)
(***************************************************************************)
EXTENDS MerkleTree, FiniteSets

CONSTANT MaxItems \* bound: questions of a bundle

ASSUME SealedAssumption == MaxItems \in Nat \ {0}

VARIABLES
    bundle,   \* the sealed bundle: who sealed it, its questions
    phase,    \* how far the pipeline is
    seed,     \* the master seed, once it is derived: T0 is past
    tampered, \* questions whose ciphertext is altered in transit
    opening,  \* calls of openQuestion under way: the question, the bytes it was given
    opened    \* what the page shows of each question, and the bytes that came from

paperBundleVars == <<bundle, phase, seed, tampered, opening, opened>>

Phases == <<"init", "sealed", "committed", "delivered", "live">>

Items == 0..(bundle.count - 1)

\* The bytes of a question: sealed under its key, one byte flipped or not.
Bytes == [of : 0..(MaxItems - 1), flipped : BOOLEAN]

Sealed(q) == [of |-> q, flipped |-> FALSE]

NoSeed == <<>>

\* The seed of an exam is derived from the beacon of its T0, a key from seed and question.
masterSeed == <<"seed", "beacon">>

questionAesKey(s, q) == <<"key", s, q>>

Unopened == [shows |-> "nothing"]

SealedTypeOK ==
    /\ bundle \in [sealer : {"demo", "edge"}, count : 1..MaxItems]
    /\ phase \in 1..Len(Phases)
    /\ seed \in {NoSeed, masterSeed}
    /\ tampered \subseteq Items
    /\ opening \subseteq Bytes
    /\ opened \in [Items -> {Unopened} \cup [shows : {"plain", "integrity", "decrypt"}, from : Bytes]]

SealedInit ==
    /\ bundle \in [sealer : {"demo", "edge"}, count : 1..MaxItems]
    /\ phase = 1
    /\ seed = NoSeed
    /\ tampered = {}
    /\ opening = {}
    /\ opened = [q \in Items |-> Unopened]

(***************************************************************************)
(* The cryptography.                                                       *)
(***************************************************************************)
\* SHA-256 of the question's id, its nonce, its ciphertext and its tag.
questionLeaf(q, bytes) == <<"leaf", q, bytes>>

\* The leaves of the tree of the bundle: filled up with zeros, or as they are.
BundleLeaves ==
    LET leaves == [i \in 1..bundle.count |-> questionLeaf(i - 1, Sealed(i - 1))]
    IN  IF bundle.sealer = "demo" THEN Padded(leaves) ELSE leaves

questionsRoot == RootOf(BundleLeaves)

\* Variant: the sides of the path are those of the siblings' siblings.
proofPathSwapped(q) ==
    [hashes |-> siblings(BundleLeaves, q),
     sides |-> [k \in 1..Height(BundleLeaves) |->
                  IF Sides(q, Height(BundleLeaves))[k] = "right" THEN "left" ELSE "right"]]

\* The proof that goes with a question: the siblings and the side of each.
proofPath(q) == [hashes |-> siblings(BundleLeaves, q), sides |-> Sides(q, Height(BundleLeaves))]

\* The walk from a leaf to the root.
verifyPath(leaf, path, root) == Walk(leaf, path.hashes, path.sides) = root

\* AES-GCM: the plaintext, under the key it was sealed with and if nothing was altered.
unsealOne(bytes, key) ==
    ~bytes.flipped /\ key = questionAesKey(masterSeed, bytes.of)

\* First the proof, then the decryption under the question's own key.
openQuestion(q, bytes) ==
    CASE ~verifyPath(questionLeaf(q, bytes), proofPath(q), questionsRoot) -> "integrity"
      [] verifyPath(questionLeaf(q, bytes), proofPath(q), questionsRoot) ->
           IF unsealOne(bytes, questionAesKey(seed, q)) THEN "plain" ELSE "decrypt"

(***************************************************************************)
(* The page.                                                               *)
(***************************************************************************)
\* On mount.
SealBundle ==
    /\ phase = 1
    /\ phase' = 2
    /\ UNCHANGED <<bundle, seed, tampered, opening, opened>>

\* The button of the rail: there is a next stage.
MayAdvance == phase \in 2..(Len(Phases) - 1)

\* Commit the root, hand the bundle over, reach T0: only then is the seed derived.
Advance ==
    /\ MayAdvance
    /\ phase' = phase + 1
    /\ seed' = IF Phases[phase'] = "live" THEN masterSeed ELSE seed
    /\ UNCHANGED <<bundle, tampered, opening, opened>>

\* Before T0 there is nothing to open with; a question already open is not opened again.
Select(q) ==
    /\ Phases[phase] = "live" /\ seed # NoSeed
    /\ opened[q].shows # "plain" \/ q \in tampered
    /\ opening' = opening \cup {[of |-> q, flipped |-> q \in tampered]}
    /\ UNCHANGED <<bundle, phase, seed, tampered, opened>>

Opened(b) ==
    /\ b \in opening
    /\ opening' = opening \ {b}
    /\ opened' = [opened EXCEPT ![b.of] = [shows |-> openQuestion(b.of, b), from |-> b]]
    /\ UNCHANGED <<bundle, phase, seed, tampered>>

\* Alters the question in transit, or no longer; what is shown of it goes.
ToggleTamper(q) ==
    /\ phase > 1
    /\ tampered' = IF q \in tampered THEN tampered \ {q} ELSE tampered \cup {q}
    /\ opened' = [opened EXCEPT ![q] = Unopened]
    /\ UNCHANGED <<bundle, phase, seed, opening>>

\* The candidate view of a selected question: locked before T0, whatever was opened.
Viewer(q) == IF Phases[phase] = "live" THEN opened[q].shows ELSE "locked"

SealedNext ==
    \/ SealBundle \/ Advance
    \/ \E q \in Items : Select(q) \/ ToggleTamper(q)
    \/ \E b \in opening : Opened(b)

SealedSpec == SealedInit /\ [][SealedNext]_paperBundleVars

(***************************************************************************)
(* Properties.                                                             *)
(***************************************************************************)
\* "refuses to render any question that fails its Merkle proof" (question-crypto.ts 12-13)
\* and no other: a question of a bundle of any size, from either sealer, is readable once
\* T0 is past exactly when the bytes it was opened from are those that were sealed, in
\* whatever order openings end and questions are altered and restored.
OpensWhatWasSealed ==
    \A q \in Items : opened[q] # Unopened =>
        /\ seed = masterSeed
        /\ Viewer(q) = "plain" <=> opened[q].from = Sealed(q)

(***************************************************************************)
(* The inductive invariant behind it: what is being opened, or was, was    *)
(* selected past T0, and T0 does not come again.                           *)
(***************************************************************************)
PastT0 == Phases[phase] = "live" /\ seed = masterSeed

SealedInv ==
    /\ SealedTypeOK
    /\ \A b \in opening : b.of \in Items /\ PastT0
    /\ \A q \in Items : opened[q] # Unopened =>
         /\ PastT0
         /\ opened[q].shows = "plain" <=> opened[q].from = Sealed(q)
=============================================================================
