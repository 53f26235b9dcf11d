------------------------------ MODULE MCRecords ------------------------------
(* What people apply for, decide about and verify afterwards, one at a time: "focus"
   says which.  The audit log of the Edge, the answer vault, complaints about receipts, sealed
   questions, registrations, enquiries, the roster and the exam on chain share no state. *)
EXTENDS AuditLog, AnswerVault, Complaint, SealedPaper, Registration, Enquiry, Roster,
        ChainRegister, TLC

\* Two candidates of one state, at different centres, and a member of staff.
MCKindOf == [t \in Tabs |-> IF t = "t3" THEN "staff" ELSE "candidate"]
MCCentreOf == [t \in Tabs |-> IF t = "t2" THEN "c2" ELSE "c1"]
MCStateOf == [c \in {"c1", "c2"} |-> "KA"]

\* Nobody reads the mail of the second address.
MCReadBy == [v \in Visitors |-> {"ma"}]

\* Receipts with other answers and the root that these lead to.
OwnRoot(r) ==
    LET forged == ForgedReceipt(r)
    IN  [forged EXCEPT !.root = verifyMerkleProof(LeafOf(forged.answers), r.proof, r.index)]

MCPasted == {OwnRoot(r) : r \in Issued}

VARIABLE focus

vars == <<focus, auditVars, vaultVars, complaintVars, paperBundleVars, registrationVars,
          enquiryVars, rosterVars, registerVars>>

RecordsInit ==
    /\ focus \in {"audit", "vault", "complaint", "paper", "registration", "enquiry", "repeat",
                 "roster", "chain"}
    /\ AuditInit
    /\ VaultInit /\ (focus # "vault" => sealingKey = NoKey /\ hqKey = NoKey)
    /\ ComplaintInit
    /\ SealedInit /\ (focus # "paper" => bundle = [sealer |-> "demo", count |-> 1])
    /\ RegistrationInit
    /\ EnquiryInit
    /\ RosterInit
    /\ RegisterInit

\* A step of one part leaves the others alone.
Only(part) ==
    /\ focus = part
    /\ UNCHANGED focus
    /\ part # "audit" => UNCHANGED auditVars
    /\ part # "vault" => UNCHANGED vaultVars
    /\ part # "complaint" => UNCHANGED complaintVars
    /\ part # "paper" => UNCHANGED paperBundleVars
    /\ part # "registration" => UNCHANGED registrationVars
    /\ part \notin {"enquiry", "repeat"} => UNCHANGED enquiryVars
    /\ part # "roster" => UNCHANGED rosterVars
    /\ part # "chain" => UNCHANGED registerVars

\* A bound: keys change before the first bundle leaves; what comes after it is no bundle
\* from genesis.
KeysFirst == bundles # {} => UNCHANGED <<sealingKey, hqKey>>

RecordsNext ==
    \/ Only("audit") /\ AuditNext
    \/ Only("vault") /\ VaultNext /\ KeysFirst
    \/ Only("complaint") /\ ComplaintNext
    \/ Only("paper") /\ SealedNext
    \/ Only("registration") /\ RegistrationNext
    \/ Only("enquiry") /\ EnquiryNext
    \/ Only("repeat") /\ EnquiryNext
    \/ Only("roster") /\ RosterNext
    \/ Only("chain") /\ RegisterNext

Spec == RecordsInit /\ [][RecordsNext]_vars

Symmetry == Permutations(Txs) \cup Permutations(Entries)

\* Two questions are opened or altered at most, and one of a bundle of more than three:
\* each is opened by itself.
FewTouched ==
    Cardinality(tampered \cup {b.of : b \in opening} \cup {q \in Items : opened[q] # Unopened})
        <= IF bundle.count > 3 THEN 1 ELSE 2

\* A visitor pastes what can be made of the receipt issued to his page.
OneReceipt ==
    \/ text \in {Garbled, Partial}
    \/ /\ receipt # Garbled
       /\ text \in {receipt, ForgedReceipt(receipt), Unanchored(receipt), OwnRoot(receipt)}

\* Forms are filled in one after the other; requests overlap.
OneForm ==
    LET Fresh(t) == tab[t] = Blank("CENTER_INVIGILATOR")
        Ready(t) == tab[t].filled /\ tab[t].cam = "captured"
    IN  \A t, u \in Tabs : \/ t = u \/ Fresh(t) \/ Fresh(u)
                           \/ KindOf[t] = KindOf[u] /\ (Ready(t) \/ Ready(u))

\* Requests are approved once no form is being filled in or on its way.
DeskLast ==
    desk # NoDesk => \A t \in Tabs : tab[t].call = "none" /\ tab[t].cam \in {"idle", "captured"}

\* Two visitors write, or the connections of one break.
OneBroken ==
    /\ focus = "enquiry" => \A v \in Visitors : posting[Stray(v)] = NoPost
    /\ focus = "repeat" => contact["v2"].address = NoMailbox

\* Codes and grants expire, and codes are mistyped, while a visitor is alone and no
\* connection breaks; two visitors name the address they read.
AloneWhenLate ==
    LET Both == \A v \in Visitors : contact[v].address # NoMailbox
    IN  /\ Both \/ focus = "repeat" =>
             /\ \A k \in DOMAIN mails : mails[k].age # "expired" /\ mails[k].wrong = 0
             /\ \A g \in DOMAIN passes : ~passes[g].expired
        /\ Both => \A v \in Visitors : contact[v].address = "ma"

\* One page loads the roster, or asks for a reason, at a time; decisions overlap.
OnePage ==
    \A a, b \in Admins :
        a # b /\ roster[a] # NewRoster /\ roster[b] # NewRoster =>
            /\ roster[a].loads = <<>> \/ roster[b].loads = <<>>
            /\ roster[a].modal # NoEnrolment => roster[b].modal = NoEnrolment /\ roster[b].loads = <<>>

\* The paper is written and moves towards its lock by one request at a time, before the first
\* transaction leaves, and only its sealing overlaps what reads the paper; of answers, proofs
\* and centres' roots one value is sent.
PaperFirst ==
    LET Paperwork(h) == call[h].is \in {"encrypt", "seal", "build", "lock", "status"}
    IN  /\ exam.status \in {"DRAFT", "GENERATING", "PROOF_PENDING", "LOCKED"}
        /\ exam.answerRoot # "p2"
        /\ \A h, g \in Handlers : h # g => ~(Paperwork(h) /\ Paperwork(g))
        /\ \A h \in Handlers :
             /\ Paperwork(h) => sends = 0
             /\ call[h].is \in {"build", "lock", "status"} =>
                    \A g \in Handlers \ {h} : call[g] = NoRead
             /\ call[h].is \in {"submitZKProof", "anchorCentreAnswerRoot"} =>
                    call[h].hash = exam.questionHash
=============================================================================
