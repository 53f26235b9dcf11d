------------------------------ MODULE Complaint ------------------------------
(***************************************************************************)
(* The public complaint portal.  A visitor has a receipt issued, or pastes *)
(* one, says which answer he gave, and files the complaint: the backend or *)
(* else the page itself recomputes the root from the receipt and compares. *)
(* The root it compares with is the receipt's own: nothing here asks the   *)
(* chain.  The text area takes any text, and stays editable, like the      *)
(* button that forges the receipt stays live, while a call is under way.   *)
(***************************************************************************)
EXTENDS MerkleTree

CONSTANTS
    MaxCohort, \* bound: receipts of a cohort
    Claims,    \* answers a visitor says he gave
    Pasted     \* receipts visitors make themselves: answers, place, proof and root of theirs

ASSUME ComplaintAssumption == MaxCohort \in Nat \ {0} /\ "C" \in Claims /\ "B" \in Claims

VARIABLES
    text,     \* the receipt in the text area
    receipt,  \* the receipt issued to this page
    claim,    \* the answer the visitor says he gave to q2
    filing,   \* the page's call under way: what was sent
    verdict   \* the result shown, with what was filed

complaintVars == <<text, receipt, claim, filing, verdict>>

Garbled == [is |-> "garbled"]       \* not JSON, or nothing
Partial == [is |-> "partial"]       \* JSON that lacks the proof

NoFiling == [is |-> "none"]

NoVerdictYet == [is |-> "none"]

\* What the candidate of the demo receipt answered.
Answers == [q1 |-> "A", q2 |-> "C", q3 |-> "B"]

LeafOf(answers) == <<"leaf", answers>>

\* The leaves of the cohort: the candidate at index, the others by their place.
CohortLeaf(i, index) ==
    IF i = index THEN LeafOf(Answers) ELSE LeafOf([q1 |-> i % 4, q2 |-> (i + 1) % 4])

\* buildMerkleTree and proofFor: a receipt of place index among n.
IssuedReceipt(n, index) ==
    LET leaves == [i \in 1..n |-> CohortLeaf(i - 1, index)]
    IN  [is |-> "receipt", answers |-> Answers, index |-> index,
         proof |-> siblings(leaves, index), root |-> RootOf(leaves)]

Issued == UNION {{IssuedReceipt(n, i) : i \in 0..(n - 1)} : n \in 1..MaxCohort}

\* The answer to q2 replaced, the proof and the root kept.
ForgedReceipt(r) == [r EXCEPT !.answers.q2 = "B"]

\* The receipt of an exam whose root is not anchored yet.
Unanchored(r) == [r EXCEPT !.root = Zero]

Texts == Issued \cup {ForgedReceipt(r) : r \in Issued} \cup {Unanchored(r) : r \in Issued}
           \cup Pasted \cup {Garbled, Partial}

Verdicts == {"COMPLAINT_DISMISSED", "TAMPERING_DETECTED", "PROOF_INVALID", "NO_ONCHAIN_ROOT"}

ComplaintTypeOK ==
    /\ text \in Texts
    /\ receipt \in Issued \cup {Garbled}
    /\ claim \in Claims
    /\ filing \in {NoFiling, [is |-> "issue"]} \cup [is : {"file"}, of : Texts, claim : Claims]
    /\ verdict \in {NoVerdictYet, [is |-> "error"]} \cup [is : Verdicts, of : Texts, claim : Claims]

ComplaintInit ==
    /\ text = Garbled
    /\ receipt = Garbled
    /\ claim = "C"
    /\ filing = NoFiling
    /\ verdict = NoVerdictYet

(***************************************************************************)
(* The verdict.                                                            *)
(***************************************************************************)
\* The root a receipt implies.
verifyMerkleProof(leaf, proof, index) ==
    Walk(leaf, proof, Sides(index, Len(proof)))

\* No caller hands an anchored root over: the receipt's own is compared with.
VerdictOn(r, c) ==
    CASE r.root = Zero -> "NO_ONCHAIN_ROOT"
      [] r.root # Zero /\ verifyMerkleProof(LeafOf(r.answers), r.proof, r.index) # r.root ->
           "PROOF_INVALID"
      [] OTHER -> IF r.answers.q2 = c THEN "COMPLAINT_DISMISSED" ELSE "TAMPERING_DETECTED"

(***************************************************************************)
(* The page.                                                               *)
(***************************************************************************)
\* "Use a demo receipt": the page asks for place 3 of 8, the client takes any place.
GenerateDemoReceipt ==
    /\ filing = NoFiling
    /\ filing' = [is |-> "issue"]
    /\ UNCHANGED <<text, receipt, claim, verdict>>

\* The backend and the page compute the same receipt.
IssueDemoReceipt ==
    /\ filing = [is |-> "issue"]
    /\ \E r \in Issued : receipt' = r /\ text' = r
    /\ filing' = NoFiling
    /\ UNCHANGED <<claim, verdict>>

\* The visitor edits the text: breaks it off, or pastes any other.
EditReceipt ==
    /\ text' \in Texts
    /\ UNCHANGED <<receipt, claim, filing, verdict>>

EditClaim ==
    /\ claim' \in Claims
    /\ UNCHANGED <<text, receipt, filing, verdict>>

\* "Forge receipt".
TamperReceipt ==
    /\ receipt # Garbled
    /\ text' = ForgedReceipt(receipt)
    /\ UNCHANGED <<receipt, claim, filing, verdict>>

\* "Verify Complaint": what does not parse is refused at once.
SubmitComplaint ==
    /\ filing = NoFiling
    /\ IF text = Garbled
       THEN verdict' = [is |-> "error"] /\ UNCHANGED filing
       ELSE verdict' = NoVerdictYet /\ filing' = [is |-> "file", of |-> text, claim |-> claim]
    /\ UNCHANGED <<text, receipt, claim>>

ShowVerdict(is) ==
    /\ verdict' = [is |-> is, of |-> filing.of, claim |-> filing.claim]
    /\ filing' = NoFiling
    /\ UNCHANGED <<text, receipt, claim>>

\* The backend answers; a receipt that lacks its proof is an invalid one to it ...
VerifyComplaint ==
    /\ filing.is = "file"
    /\ ShowVerdict(IF filing.of = Partial THEN "PROOF_INVALID" ELSE VerdictOn(filing.of, filing.claim))

\* ... or does not, and the page decides; to it such a receipt is an error.
FileComplaintLocal ==
    /\ filing.is = "file"
    /\ IF filing.of = Partial
       THEN /\ verdict' = [is |-> "error"]
            /\ filing' = NoFiling
            /\ UNCHANGED <<text, receipt, claim>>
       ELSE ShowVerdict(VerdictOn(filing.of, filing.claim))

ComplaintNext ==
    \/ GenerateDemoReceipt \/ IssueDemoReceipt \/ EditReceipt \/ EditClaim
    \/ TamperReceipt \/ SubmitComplaint \/ VerifyComplaint \/ FileComplaintLocal

ComplaintSpec == ComplaintInit /\ [][ComplaintNext]_complaintVars

(***************************************************************************)
(* Properties.                                                             *)
(***************************************************************************)
\* A text that has place, proof and root of a receipt.
Copies(t, r) == t.index = r.index /\ t.proof = r.proof /\ t.root = r.root

\* A complaint about a receipt as it was issued, of any place in a cohort of any size, is
\* dismissed when the claim is what the receipt holds and answered with tampering when it
\* is not (complaint.ts 155-176): the proof of every leaf, on odd levels too, leads to the
\* root, and what is edited while the call is under way does not count.  Answers altered over
\* the place, proof and root of an issued receipt get neither verdict.  A receipt with a root
\* of the visitor's own gets them too, for it is judged by that very root (complaint.ts 157):
\* the verdict says nothing of what was "permanently committed to Polygon Amoy" (page.tsx 86).
VerdictFits ==
    /\ verdict.is \in {"COMPLAINT_DISMISSED", "TAMPERING_DETECTED"} =>
         /\ \A r \in Issued : Copies(verdict.of, r) => verdict.of.answers = r.answers
         /\ verdict.is = "COMPLAINT_DISMISSED" <=> verdict.claim = verdict.of.answers.q2
    /\ verdict.is \in {"PROOF_INVALID", "NO_ONCHAIN_ROOT"} => verdict.of \notin Issued

(***************************************************************************)
(* The inductive invariant behind VerdictFits: what does not parse is      *)
(* never filed.                                                            *)
(***************************************************************************)
ComplaintInv ==
    /\ ComplaintTypeOK
    /\ filing.is = "file" => filing.of # Garbled
    /\ VerdictFits
=============================================================================
