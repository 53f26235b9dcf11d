---------------------------- MODULE ChainRegister ----------------------------
(***************************************************************************)
(* How the public backend registers an exam on chain: its handlers read    *)
(* the exam's row, sign a transaction with the one key of the deployment,  *)
(* wait for the receipt and store the transaction's hash, while other      *)
(* handlers seal the paper again, rebuild the tree of answers or move the  *)
(* status.  Node and network are external: a pending transaction is mined, *)
(* replaced at a higher price or forgotten, and any call may fail.         *)
(*                                                                         *)
(* A definition marked "Variant" is no part of the specification: it is    *)
(* the next definition with a plausible mistake, which a property refutes. *)
(***************************************************************************)
EXTENDS ExamContract, Integers, Sequences, FiniteSets

CONSTANTS
    Handlers,   \* requests in flight
    Hashes,     \* hashes of papers, proofs and answers
    MaxSends    \* bound: transactions sent

ASSUME RegisterAssumption == NoHash \notin Hashes /\ MaxSends \in Nat

VARIABLES
    exam,       \* the row of the exam
    call,       \* handlers in flight: what each has read, and its transaction
    contract,   \* the exam's record on chain
    pool,       \* transactions the node holds and has not mined
    mined,      \* transactions mined, in their order, with their outcome
    sends,      \* how many transactions have been sent: the last one's hash
    told        \* transactions that a request was answered with, as confirmed

registerVars == <<exam, call, contract, pool, mined, sends, told>>

NotSent == 0

NoRead == [is |-> "none", stage |-> "idle", status |-> "DRAFT", hash |-> NoHash, nonce |-> 0, tx |-> NotSent]

\* valid_transitions of update_exam_status.
Follows ==
    [DRAFT |-> {"GENERATING", "ABORTED"}, GENERATING |-> {"PROOF_PENDING", "ABORTED"},
     PROOF_PENDING |-> {"LOCKED", "ABORTED"}, LOCKED |-> {"DISTRIBUTED", "ABORTED"},
     DISTRIBUTED |-> {"LIVE", "ABORTED"}, LIVE |-> {"PAUSED", "COMPLETED", "ABORTED"},
     PAUSED |-> {"LIVE", "ABORTED"}, COMPLETED |-> {"AUDITED"}, AUDITED |-> {}, ABORTED |-> {}]

ExamStatus == DOMAIN Follows

HandlerCalls ==
    [is : Calls \cup {"encrypt", "seal", "build", "lock", "status", "none"},
     stage : {"idle", "read", "nonce", "estimated", "sent", "confirmed"}, status : ExamStatus,
     hash : Hashes \cup {NoHash}, nonce : 0..MaxSends, tx : 0..MaxSends]

ExamRows ==
    [status : ExamStatus, questionHash : Hashes \cup {NoHash}, answerRoot : Hashes \cup {NoHash},
     lockTx : 0..MaxSends, proofTx : 0..MaxSends, answerTx : 0..MaxSends]

RegisterTypeOK ==
    /\ exam \in ExamRows
    /\ call \in [Handlers -> HandlerCalls]
    /\ contract.questionHash \in Hashes \cup {NoHash}
    /\ sends \in 0..MaxSends
    /\ told \subseteq 1..sends

RegisterInit ==
    /\ exam = [status |-> "DRAFT", questionHash |-> NoHash, answerRoot |-> NoHash,
               lockTx |-> NotSent, proofTx |-> NotSent, answerTx |-> NotSent]
    /\ call = [h \in Handlers |-> NoRead]
    /\ contract = EmptyRecord
    /\ pool = {}
    /\ mined = <<>>
    /\ sends = 0
    /\ told = {}

-----------------------------------------------------------------------------
(* Requests: each reads the row and decides on what it read. *)

Begin(h, is, hash) ==
    /\ call[h] = NoRead
    /\ call' = [call EXCEPT ![h] = [NoRead EXCEPT !.is = is, !.stage = "read", !.hash = hash,
                                                  !.status = exam.status,
                                                  !.tx = IF is = "seal" THEN exam.lockTx ELSE NotSent]]
    /\ UNCHANGED <<exam, contract, pool, mined, sends, told>>

PaperOpen == exam.status \in {"GENERATING", "PROOF_PENDING"}

\* Keys are new each time, and so is the hash of the paper.
EncryptPaper(h) ==
    /\ PaperOpen
    /\ \E hash \in Hashes : Begin(h, "encrypt", hash)

\* After that it would lock the exam on chain, by a name that its module does not import: it
\* takes the failure for a chain that is not configured.
SealQuestions(h) ==
    /\ PaperOpen
    /\ \E hash \in Hashes : Begin(h, "seal", hash)

\* The tree of the submissions there are by now; whatever state the exam is in, it is
\* COMPLETED by that.
BuildTree(h) == \E root \in Hashes : Begin(h, "build", root)

\* The lifecycle's own lock: its transaction is a simulation.
LifecycleLock(h) ==
    /\ exam.status = "PROOF_PENDING"
    /\ Begin(h, "lock", NoHash)

LockOnchain(h) ==
    /\ exam.questionHash # NoHash
    /\ exam.status = "PROOF_PENDING"
    /\ Begin(h, "lockExam", exam.questionHash)

SubmitProofOnchain(h) == \E proof \in Hashes : Begin(h, "submitZKProof", proof)

CommitRootOnchain(h) ==
    /\ exam.answerRoot # NoHash
    /\ Begin(h, "commitAnswerMerkleRoot", exam.answerRoot)

\* The System Admin anchors what the answer vault has put out.
AnchorOnchain(h) == \E root \in Hashes : Begin(h, "anchorCentreAnswerRoot", root)

-----------------------------------------------------------------------------
(* _send_tx, one await after the other. *)

\* Variant: what the node holds is counted, so that transactions need not wait for each other.
transactionCountPending == Len(mined) + Cardinality(pool)

\* get_transaction_count: what has been mined.
transactionCount == Len(mined)

ReadNonce(h) ==
    /\ call[h].stage = "read" /\ call[h].is \in Calls
    /\ call' = [call EXCEPT ![h].stage = "nonce", ![h].nonce = transactionCount]
    /\ UNCHANGED <<exam, contract, pool, mined, sends, told>>

\* The estimate fails where the call would revert now.
EstimateGas(h) ==
    /\ call[h].stage = "nonce"
    /\ Accepts(contract, call[h].is, call[h].hash)
    /\ call' = [call EXCEPT ![h].stage = "estimated"]
    /\ UNCHANGED <<exam, contract, pool, mined, sends, told>>

\* The node takes no nonce that is used up; in the place of a transaction it holds it takes
\* another if that pays enough more.
SendRawTransaction(h) ==
    /\ call[h].stage = "estimated"
    /\ sends < MaxSends
    /\ call[h].nonce >= Len(mined)
    /\ sends' = sends + 1
    /\ call' = [call EXCEPT ![h].stage = "sent", ![h].tx = sends + 1]
    /\ pool' = {t \in pool : t.nonce # call[h].nonce}
               \cup {[tx |-> sends + 1, nonce |-> call[h].nonce, fn |-> call[h].is, hash |-> call[h].hash]}
    /\ UNCHANGED <<exam, contract, mined, told>>

\* The receipt says that the transaction is in a block; its status is not looked at.
TransactionReceipt(h) ==
    /\ call[h].stage = "sent"
    /\ \E k \in DOMAIN mined : mined[k].tx = call[h].tx
    /\ call' = [call EXCEPT ![h].stage = "confirmed"]
    /\ UNCHANGED <<exam, contract, pool, mined, sends, told>>

\* The call would revert, the node refuses, the network fails, or 120 seconds are over: the
\* session is rolled back.
CallFails(h) ==
    /\ call[h].is \in Calls
    /\ call' = [call EXCEPT ![h] = NoRead]
    /\ UNCHANGED <<exam, contract, pool, mined, sends, told>>

-----------------------------------------------------------------------------
(* The session is committed: it updates the columns whose values differ from those read. *)

\* seal_questions leaves no transaction where it has read one.
SealedTx(c) == IF c.tx # NotSent THEN NotSent ELSE exam.lockTx

Written(c) ==
    CASE c.is = "encrypt" -> [exam EXCEPT !.questionHash = c.hash]
      [] c.is = "seal" -> [exam EXCEPT !.questionHash = c.hash, !.lockTx = SealedTx(c)]
      [] c.is = "lock" -> [exam EXCEPT !.status = "LOCKED"]
      [] c.is = "lockExam" -> [exam EXCEPT !.status = "LOCKED", !.lockTx = c.tx]
      [] c.is = "submitZKProof" -> [exam EXCEPT !.proofTx = c.tx]
      [] c.is = "commitAnswerMerkleRoot" -> [exam EXCEPT !.answerTx = c.tx]
      [] OTHER -> exam

Commit(h) ==
    /\ \/ call[h].stage = "confirmed"
       \/ call[h].stage = "read" /\ call[h].is \in {"encrypt", "seal", "lock"}
    /\ exam' = Written(call[h])
    /\ told' = IF call[h].is \in Calls THEN told \cup {call[h].tx} ELSE told
    /\ call' = [call EXCEPT ![h] = NoRead]
    /\ UNCHANGED <<contract, pool, mined, sends>>

\* build_merkle of the lifecycle completes the exam, that of the crypto routes does not.
CommitTree(h) ==
    /\ call[h].is = "build"
    /\ \E status \in {"COMPLETED", exam.status} :
         exam' = [exam EXCEPT !.answerRoot = call[h].hash, !.status = status]
    /\ call' = [call EXCEPT ![h] = NoRead]
    /\ UNCHANGED <<contract, pool, mined, sends, told>>

UpdateStatus(h) == Begin(h, "status", NoHash)

\* The transition is checked against the status that was read.
CommitStatus(h) ==
    /\ call[h].is = "status"
    /\ \E next \in Follows[call[h].status] : exam' = [exam EXCEPT !.status = next]
    /\ call' = [call EXCEPT ![h] = NoRead]
    /\ UNCHANGED <<contract, pool, mined, sends, told>>

\* The backend stops: what was sent stays sent.
RestartBackend ==
    /\ \E h \in Handlers : call[h] # NoRead
    /\ call' = [h \in Handlers |-> NoRead]
    /\ UNCHANGED <<exam, contract, pool, mined, sends, told>>

-----------------------------------------------------------------------------
(* The node. *)

Mine(t) ==
    /\ t.nonce = Len(mined)
    /\ contract' = Executed(contract, t.fn, t.hash)
    /\ mined' = Append(mined, [tx |-> t.tx, fn |-> t.fn, hash |-> t.hash,
                               ok |-> Accepts(contract, t.fn, t.hash)])
    /\ pool' = pool \ {t}
    /\ UNCHANGED <<exam, call, sends, told>>

Forget(t) ==
    /\ pool' = pool \ {t}
    /\ UNCHANGED <<exam, call, contract, mined, sends, told>>

RegisterNext ==
    \/ \E h \in Handlers :
         \/ EncryptPaper(h) \/ SealQuestions(h) \/ BuildTree(h) \/ LifecycleLock(h) \/ UpdateStatus(h)
         \/ LockOnchain(h) \/ SubmitProofOnchain(h) \/ CommitRootOnchain(h) \/ AnchorOnchain(h)
         \/ ReadNonce(h) \/ EstimateGas(h) \/ SendRawTransaction(h) \/ TransactionReceipt(h)
         \/ CallFails(h) \/ Commit(h) \/ CommitTree(h) \/ CommitStatus(h)
    \/ \E t \in pool : Mine(t) \/ Forget(t)
    \/ RestartBackend

RegisterSpec == RegisterInit /\ [][RegisterNext]_registerVars

-----------------------------------------------------------------------------
(* Properties. *)

\* What a transaction wrote is what the contract shows; proofs may be superseded.
Stands(t) ==
    /\ t.fn = "lockExam" => contract.questionHash = t.hash
    /\ t.fn = "submitZKProof" => contract.zkProofHash # NoHash
    /\ t.fn = "commitAnswerMerkleRoot" => contract.answerMerkleRoot = t.hash
    /\ t.fn = "anchorCentreAnswerRoot" => contract.anchorRoot = t.hash

\* A transaction that a request was answered with, or that the row of the exam names, was
\* executed, and what it registered stands for ever ("After this transaction, the question
\* hash is publicly visible and immutable", blockchain.py 49-50; "This commitment is
\* PERMANENT", 169): no receipt's status is looked at, so that this rests on estimates and
\* nonces, whatever handlers overlap, fail late or are repeated.
ConfirmedStands ==
    \A id \in told \cup ({exam.lockTx, exam.proofTx, exam.answerTx} \ {NotSent}) :
        \E k \in DOMAIN mined : mined[k].tx = id /\ mined[k].ok /\ Stands(mined[k])

-----------------------------------------------------------------------------
(* The inductive invariant behind ConfirmedStands: one nonce, one contract.  *)
(* A transaction is taken up only if its nonce was the next one when the     *)
(* estimate was made and still is, so that no other was mined in between:    *)
(* what the estimate saw is what the transaction is executed on.             *)

ContractRecords ==
    [isLocked : BOOLEAN, questionHash : Hashes \cup {NoHash}, zkProofHash : Hashes \cup {NoHash},
     answerMerkleRoot : Hashes \cup {NoHash}, answerCommitted : BOOLEAN,
     anchorRoot : Hashes \cup {NoHash}, anchored : BOOLEAN]

PoolTxs == [tx : 1..MaxSends, nonce : 0..MaxSends, fn : Calls, hash : Hashes]

MinedTxs == [tx : 1..MaxSends, fn : Calls, hash : Hashes, ok : BOOLEAN]

IsMined(id) == \E k \in DOMAIN mined : mined[k].tx = id

\* What a handler knows of the chain at each stage of _send_tx.
CallKnows(c) ==
    /\ c.is \in Calls => c.hash \in Hashes
    /\ c.stage \in {"nonce", "estimated", "sent", "confirmed"} => c.is \in Calls
    /\ c.stage \in {"nonce", "estimated"} => c.nonce <= Len(mined)
    /\ c.stage = "estimated" /\ c.nonce = Len(mined) => Accepts(contract, c.is, c.hash)
    /\ c.stage \in {"sent", "confirmed"} => c.tx \in 1..sends
    /\ c.stage = "confirmed" => IsMined(c.tx)

\* A transaction that can be mined next will not revert.
PoolAccepted ==
    \A t \in pool :
        /\ t.nonce <= Len(mined)
        /\ t.nonce = Len(mined) => Len(mined) < sends /\ Accepts(contract, t.fn, t.hash)

\* What has been mined was accepted, has left its mark and stands.
MinedStands ==
    \A k \in DOMAIN mined :
        /\ mined[k].ok /\ Stands(mined[k])
        /\ contract.isLocked
        /\ mined[k].fn = "commitAnswerMerkleRoot" => contract.answerCommitted
        /\ mined[k].fn = "anchorCentreAnswerRoot" => contract.anchored

RegisterInv ==
    /\ RegisterTypeOK
    /\ contract \in ContractRecords
    /\ pool \subseteq PoolTxs
    /\ mined \in Seq(MinedTxs) /\ Len(mined) <= sends
    /\ \A h \in Handlers : CallKnows(call[h])
    /\ PoolAccepted
    /\ MinedStands
    /\ \A id \in told \cup ({exam.lockTx, exam.proofTx, exam.answerTx} \ {NotSent}) : IsMined(id)
=============================================================================
