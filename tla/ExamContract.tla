----------------------------- MODULE ExamContract -----------------------------
(***************************************************************************)
(* CryptoExamCore.sol for one exam with one centre: what a transaction     *)
(* needs in order not to revert, and the record it leaves.  A record is    *)
(* locked first; after that come the difficulty proof, the root of the     *)
(* answers and the root of the centre's answers.  All transactions come    *)
(* from the one account that the deployment gives every role.              *)
(*                                                                         *)
(* A definition marked "Variant" is no part of the specification: it is    *)
(* the next definition with a plausible mistake, which a property refutes. *)
(***************************************************************************)

CONSTANT NoHash   \* 32 zero bytes

\* exams[examId] and centreAnchors[examId][centreIdHash] before any transaction.
EmptyRecord ==
    [isLocked |-> FALSE, questionHash |-> NoHash, zkProofHash |-> NoHash,
     answerMerkleRoot |-> NoHash, answerCommitted |-> FALSE,
     anchorRoot |-> NoHash, anchored |-> FALSE]

Calls == {"lockExam", "submitZKProof", "commitAnswerMerkleRoot", "anchorCentreAnswerRoot"}

mayLock(record) == ~record.isLocked

maySubmitProof(record) == record.isLocked

mayCommitRoot(record) == record.isLocked /\ ~record.answerCommitted

mayAnchorCentre(record, root) == record.isLocked /\ root # NoHash /\ ~record.anchored

\* A call that would not revert.
Accepts(record, fn, hash) ==
    \/ fn = "lockExam" /\ mayLock(record)
    \/ fn = "submitZKProof" /\ maySubmitProof(record)
    \/ fn = "commitAnswerMerkleRoot" /\ mayCommitRoot(record)
    \/ fn = "anchorCentreAnswerRoot" /\ mayAnchorCentre(record, hash)

\* What lockExam writes is the whole record of the exam; the anchor has one of its own.
lockExam(record, hash) ==
    [EmptyRecord EXCEPT !.isLocked = TRUE, !.questionHash = hash,
                        !.anchorRoot = record.anchorRoot, !.anchored = record.anchored]

submitZKProof(record, hash) == [record EXCEPT !.zkProofHash = hash]

commitAnswerMerkleRoot(record, hash) ==
    [record EXCEPT !.answerMerkleRoot = hash, !.answerCommitted = TRUE]

anchorCentreAnswerRoot(record, hash) == [record EXCEPT !.anchorRoot = hash, !.anchored = TRUE]

\* A transaction is executed, or reverts and leaves the record as it was.
Executed(record, fn, hash) ==
    IF ~Accepts(record, fn, hash) THEN record
    ELSE CASE fn = "lockExam" -> lockExam(record, hash)
           [] fn = "submitZKProof" -> submitZKProof(record, hash)
           [] fn = "commitAnswerMerkleRoot" -> commitAnswerMerkleRoot(record, hash)
           [] fn = "anchorCentreAnswerRoot" -> anchorCentreAnswerRoot(record, hash)
===============================================================================
