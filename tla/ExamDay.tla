------------------------------- MODULE ExamDay -------------------------------
(***************************************************************************)
(* What leaves the centre, and when: the seat pipeline composed with the   *)
(* egress gate and the ledger export of the Edge (http.ts section 6 and    *)
(* 13.4, repo.ts), the answer vault of HQ (system-admin/lib/vault.ts) and  *)
(* the public anchor (CryptoExamCore.sol anchorCentreAnswerRoot).          *)
(*                                                                         *)
(* A slot of Admins is one egress or export request in flight; what the    *)
(* gate is decided on is read from the pool in one query after the other,  *)
(* before the transaction that acts on it.  The export response is the     *)
(* only copy of a bundle, and the courier may lose it.                     *)
(* Manifest hash, node signature and envelope hash are checks of integrity *)
(* in transit: bundles are not altered here, so they always pass (they are *)
(* the subject of AnswerVault).                                            *)
(***************************************************************************)
EXTENDS SeatPipeline

CONSTANT Admins   \* slots for egress and export requests in flight

ASSUME DayAssumption == IsFiniteSet(Roster)

VARIABLES
    windowClosed,   \* now >= exams.window_closes_at
    egressOpened,   \* exams.egress_opened_at is set
    synced,         \* leaves whose sync_state is SYNCED
    admin,          \* egress and export requests in flight
    bundles,        \* sync bundles that left the centre
    vault,          \* leaves HQ has decrypted
    anchor          \* centreAnchors[exam][centre]

gateVars == <<windowClosed, egressOpened, synced>>
hqVars == <<vault, anchor>>
egressVars == <<gateVars, admin, bundles, hqVars>>

NoRequest == [pc |-> "idle", closed |-> FALSE, present |-> 0, records |-> <<>>]

\* Stages in which the gate has not been passed yet, or is passed.
Undecided == {"idle", "askedOpen", "askedExport"}

Decided == {"opening", "listing", "exporting", "replying"}

AdminRequests ==
    [pc : Undecided \cup Decided, closed : BOOLEAN, present : Nat, records : Seq(LedgerRows)]

EgressTypeOK ==
    /\ windowClosed \in BOOLEAN
    /\ egressOpened \in BOOLEAN
    /\ synced \subseteq Envelopes
    /\ admin \in [Admins -> AdminRequests]
    /\ bundles \subseteq Seq(LedgerRows)
    /\ vault \subseteq Envelopes
    /\ anchor \in [anchored : BOOLEAN, root : Seq(Envelopes), count : Nat]

DayTypeOK == SeatTypeOK /\ EgressTypeOK

Leaves(records) == {records[i].leaf : i \in 1..Len(records)}

-----------------------------------------------------------------------------
(* The egress gate. *)

presentCount == Cardinality({r \in Roster : enroll[r] = "PRESENT"})

submittedCount == Len(ledger)

\* Variant: the window is forgotten.
mayOpenAnyTime(closed, present) == present <= submittedCount

\* egressStatus: pendingCount is presentCount - submittedCount, at least 0.
mayOpen(closed, present) == closed /\ present <= submittedCount

CloseWindow ==
    /\ ~windowClosed
    /\ windowClosed' = TRUE
    /\ UNCHANGED <<egressOpened, synced, admin, bundles, hqVars>>

\* The exam and the PRESENT enrollments are read first ...
AskGate(a, stage) ==
    /\ admin[a] = NoRequest
    /\ admin' = [admin EXCEPT ![a] = [NoRequest EXCEPT !.pc = stage, !.closed = windowClosed,
                                                      !.present = presentCount]]
    /\ UNCHANGED <<gateVars, bundles, hqVars>>

\* ... the answers are counted after that.
DecideGate(a, asked, passed) ==
    /\ admin[a].pc = asked
    /\ admin' = [admin EXCEPT ![a] =
                   IF mayOpen(admin[a].closed, admin[a].present)
                   THEN [NoRequest EXCEPT !.pc = passed] ELSE NoRequest]
    /\ UNCHANGED <<gateVars, bundles, hqVars>>

EgressOpen(a) == AskGate(a, "askedOpen") \/ DecideGate(a, "askedOpen", "opening")

CommitOpenEgress(a) ==
    /\ admin[a].pc = "opening"
    /\ egressOpened' = TRUE
    /\ admin' = [admin EXCEPT ![a] = NoRequest]
    /\ UNCHANGED <<windowClosed, synced, bundles, hqVars>>

-----------------------------------------------------------------------------
(* The export. *)

\* Once egress is opened, nothing is counted.
LedgerExport(a) ==
    \/ ~egressOpened /\ AskGate(a, "askedExport")
    \/ DecideGate(a, "askedExport", "listing")
    \/ /\ egressOpened
       /\ admin[a] = NoRequest
       /\ admin' = [admin EXCEPT ![a] = [NoRequest EXCEPT !.pc = "listing"]]
       /\ UNCHANGED <<gateVars, bundles, hqVars>>

\* Variant: rows after the last one synced, which is 0 when there is none.
SealedRowsAfterZero == SelectSeq(ledger, LAMBDA row : row.leaf \notin synced /\ row.index > 0)

\* Variant: newest first.
SealedRowsDescending ==
    LET rows == SelectSeq(ledger, LAMBDA row : row.leaf \notin synced)
    IN  [i \in 1..Len(rows) |-> rows[Len(rows) + 1 - i]]

\* The rows still SEALED, ordered by leaf_index: the k-th has k - 1 before it.
SealedRows ==
    LET sealed == {i \in 1..Len(ledger) : ledger[i].leaf \notin synced}
    IN  [k \in 1..Cardinality(sealed) |->
           ledger[CHOOSE i \in sealed : Cardinality({j \in sealed : j < i}) = k - 1]]

\* With nothing to export the answer is an empty bundle, and that is all.
ListSealedForExport(a) ==
    /\ admin[a].pc = "listing"
    /\ admin' = [admin EXCEPT ![a] =
                   IF SealedRows = <<>> THEN NoRequest
                   ELSE [NoRequest EXCEPT !.pc = "exporting", !.records = SealedRows]]
    /\ UNCHANGED <<gateVars, bundles, hqVars>>

MarkSynced(a) ==
    /\ admin[a].pc = "exporting"
    /\ synced' = synced \cup Leaves(admin[a].records)
    /\ admin' = [admin EXCEPT ![a] =
                   [NoRequest EXCEPT !.pc = "replying", !.records = admin[a].records]]
    /\ UNCHANGED <<windowClosed, egressOpened, bundles, hqVars>>

DeliverBundle(a) ==
    /\ admin[a].pc = "replying"
    /\ bundles' = bundles \cup {admin[a].records}
    /\ admin' = [admin EXCEPT ![a] = NoRequest]
    /\ UNCHANGED <<gateVars, hqVars>>

\* The connection breaks before the portal has the response.
LoseBundle(a) ==
    /\ admin[a].pc = "replying"
    /\ admin' = [admin EXCEPT ![a] = NoRequest]
    /\ UNCHANGED <<gateVars, bundles, hqVars>>

-----------------------------------------------------------------------------
(* HQ and the public chain. *)

\* Variant: a bundle may start in the middle of the chain.
BundleVerifiesAnywhere(b) ==
    \A i \in 2..Len(b) : b[i].prevRoot = b[i-1].root

BundleVerifies(b) == verifyChain(b)

\* The walk from genesis comes before any decryption.
IngestBundle(b) ==
    /\ b \in bundles
    /\ BundleVerifies(b)
    /\ vault' = vault \cup Leaves(b)
    /\ UNCHANGED <<gateVars, admin, bundles, anchor>>

\* The payload comes from an ingested bundle; a second anchor reverts.
MayAnchor(b) == Leaves(b) \subseteq vault /\ ~anchor.anchored

AnchorCentreAnswerRoot(b) ==
    /\ b \in bundles
    /\ BundleVerifies(b)
    /\ MayAnchor(b)
    /\ anchor' = [anchored |-> TRUE, root |-> b[Len(b)].root, count |-> Len(b)]
    /\ UNCHANGED <<gateVars, admin, bundles, vault>>

-----------------------------------------------------------------------------

DayInit ==
    /\ Init
    /\ windowClosed = FALSE
    /\ egressOpened = FALSE
    /\ synced = {}
    /\ admin = [a \in Admins |-> NoRequest]
    /\ bundles = {}
    /\ vault = {}
    /\ anchor = [anchored |-> FALSE, root |-> GENESIS, count |-> 0]

EgressNext ==
    \/ CloseWindow
    \/ \E a \in Admins :
         \/ EgressOpen(a) \/ CommitOpenEgress(a)
         \/ LedgerExport(a) \/ ListSealedForExport(a) \/ MarkSynced(a)
         \/ DeliverBundle(a) \/ LoseBundle(a)
    \/ \E b \in bundles : IngestBundle(b) \/ AnchorCentreAnswerRoot(b)

\* Seats and egress share the Edge process: a restart hits both.
RestartEdge ==
    /\ Restart
    /\ admin' = [a \in Admins |-> NoRequest]
    /\ UNCHANGED <<gateVars, bundles, hqVars>>

DayNext ==
    \/ SeatWork /\ UNCHANGED egressVars
    \/ EgressNext /\ UNCHANGED seatVars
    \/ RestartEdge

DaySpec == DayInit /\ [][DayNext]_<<seatVars, egressVars>>

-----------------------------------------------------------------------------
(* Properties. *)

\* INV-3 and the comment of ledger/export ("answers cannot leak mid-exam"): no
\* answer is in a bundle, at HQ or marked SYNCED before the window has closed,
\* nor has an export passed the gate.
NothingLeavesEarly ==
    ~windowClosed =>
        /\ synced = {} /\ bundles = {} /\ vault = {}
        /\ \A a \in Admins : admin[a].pc \in Undecided

\* However exports and submissions overlap, a row is SYNCED only after every row
\* before it in the chain: the courier skips no answer (repo.ts
\* listSealedForExport, markSynced).
SyncedIsPrefix ==
    \E n \in 0..Len(ledger) : synced = Leaves(SubSeq(ledger, 1, n))

\* A bundle is a run of consecutive ledger rows up to what was then the tail.
BundlesAreRuns ==
    \A b \in bundles : \E i \in 1..Len(ledger) :
        \E j \in i..Len(ledger) : b = SubSeq(ledger, i, j)

\* The anchor vouches for the first "count" rows of the ledger, all of them in
\* HQ's hands: its root is theirs and no row is counted that it does not cover
\* (CryptoExamCore.sol: "Number of sealed submissions in the chain").
AnchorIsLedgerPrefix ==
    anchor.anchored =>
        /\ anchor.count \in 1..Len(ledger)
        /\ anchor.root = ledger[anchor.count].root
        /\ Leaves(SubSeq(ledger, 1, anchor.count)) \subseteq vault

\* CryptoExamCore.sol: "a root can never be back-dated or overwritten".
AnchorIsFinal == [][anchor.anchored => anchor' = anchor]_anchor

\* http.ts, egress/open: "Refused (409) while any present candidate has not
\* submitted".
Submitted(roll) == \E i \in 1..Len(ledger) : binding[ledger[i].seat].roll = roll

GateWaitsForPresent ==
    mayOpen(windowClosed, presentCount) => \A r \in Roster : enroll[r] = "PRESENT" => Submitted(r)

-----------------------------------------------------------------------------
(* The inductive invariant behind NothingLeavesEarly: whoever is past the    *)
(* gate, or has read that the window is closed, is so after it has closed.   *)

GateInv ==
    /\ DOMAIN admin = Admins
    /\ \A a \in Admins :
         /\ admin[a].pc \in Undecided \cup Decided
         /\ admin[a].closed \in BOOLEAN
         /\ admin[a].closed \/ admin[a].pc \in Decided => windowClosed
    /\ egressOpened => windowClosed
    /\ windowClosed \in BOOLEAN
    /\ NothingLeavesEarly

-----------------------------------------------------------------------------
(* The inductive invariant behind SyncedIsPrefix, BundlesAreRuns and         *)
(* AnchorIsLedgerPrefix.  An export that is being written may be behind      *)
(* others that listed later and were marked first, but never starts beyond   *)
(* the first row that is not marked; no two rows have one leaf, so that      *)
(* marking by leaf marks those rows and no other.                            *)

LeavesOnce ==
    /\ \A i, j \in 1..Len(ledger) : ledger[i].leaf = ledger[j].leaf => i = j
    /\ \A q \in Reqs : req[q].pc \in {"submitRead", "submitTail"} =>
         /\ \A i \in 1..Len(ledger) : ledger[i].leaf # req[q].leaf
         /\ \A p \in Reqs \ {q} : req[p].leaf # req[q].leaf

RunFrom(i, b) == \E j \in i..Len(ledger) : b = SubSeq(ledger, i, j)

ExportsFollow ==
    \E n \in 0..Len(ledger) :
        /\ synced = Leaves(SubSeq(ledger, 1, n))
        /\ \A a \in Admins : admin[a].pc = "exporting" =>
             \E i \in 1..(n + 1) : RunFrom(i, admin[a].records)

RepliesAreRuns ==
    \A a \in Admins : admin[a].pc = "replying" =>
        \E i \in 1..Len(ledger) : RunFrom(i, admin[a].records)

DayInv ==
    /\ SeatInv
    /\ LeavesOnce
    /\ EgressTypeOK
    /\ ExportsFollow
    /\ RepliesAreRuns
    /\ BundlesAreRuns
    /\ AnchorIsLedgerPrefix

=============================================================================
