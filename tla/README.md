# A TLA+ specification of CryptoExam

CryptoExam runs examinations whose papers and answers no single person can read
or change. A *Centre Edge* (a Node/PostgreSQL server without internet access)
serves the candidate seats, invigilators and the Centre Admin of one centre;
answers leave it sealed, as a hash-chained bundle, for the *answer vault* of HQ
(System Admin), which publishes the root of the chain on a public contract. A
separate public side (FastAPI, Solidity, Next.js) holds enrolment, key
ceremonies, online sessions, paper making and verification.

This directory models both sides where several requests run at once, processes
stop, messages get lost and screens act on what they read a while ago. It holds
TLA+ modules, TLC runs and proofs checked by TLAPS. `PROJECT.json` lists the runs,
the lines of source behind every definition, the hazards and the theorems.

Abbreviations of paths: *edge* is `private/edge-server/src`, *term* is
`private/exam-terminal`, *sys* is `private/system-admin`, *pub* is
`public/backend/app`, *web* is `public/frontend`. INV-n are the hard guarantees of
`private/edge-server/README.md`.

## 1. Inventory

### Private side

| Component | State | Operations | Hard behaviour | What makes it correct |
|---|---|---|---|---|
| Hash chain, edge `lib/merkle-chain.ts` | none | append, verify chain, verify inclusion | — | equal roots, equal histories |
| Seat pipeline, edge `http.ts` 536-771, `repo.ts`, `services/assignment-service.ts` | enrollments, terminals, seat_bindings, answer_ledger, the failure counters in memory | check-in, assign, heartbeat, login, submit, receipt | checks outside the transaction, row and advisory locks, restart between COMMIT and answer | one chain, one candidate per seat, receipts hold, one submission per binding |
| Egress and export, edge `http.ts` 435-520, `repo.ts` 435-487, 719-768 | exams.window_closes_at / egress_opened_at, sync_state | status, open, export | gate decided on earlier reads, rows marked before delivery, late answers | nothing leaves early, no row skipped or lost |
| HQ vault, sys `lib/vault.ts`, edge `hq/vault.ts` | keys in the environment | ingest, anchor | damaged rows and bundles, changed keys, incremental bundles | exactly the genuine bundles from genesis are opened |
| Audit log, edge `audit.ts` | secure_audit_log | append, verify | two appends at once, rollbacks, gaps in seq | verifies if nobody tampers, and only then |
| Staff approval, edge `services/approval.ts`, `lib/match-all.ts`, `lib/token.ts`, `http.ts` 110-433 | staff_identities, approval_requests, tokens | register, issue code, authorise fingerprint, activate, log in, revoke | whole rows written back after an earlier read, one slot per centre, TTL | cascading trust, one admin, a code used once |
| Provisioning, edge `services/provisioning.ts` | writes enrollments, staff | ingest | repeated during the day | does not undo the day |
| Question sealing and release, edge `lib/question-seal.ts`, `repo.ts` 678-717, term `lib/question-crypto.ts` | question_bundles | seal, bundle, beacon, open | two kinds of Merkle tree, one opener | nothing readable before T0, what opens was sealed |
| Candidate terminal, term `app/page.tsx`, `app/candidate` | seat phase, card, answers, receipt (React state) | gate, login, waiting room, answer, seal, submit | lost answers, poll loops, edits under a submission, reboots | a true receipt, nothing sealed early |
| Invigilator console, term `app/invigilator` | desk, view, runs | register, log in, poll, verify and seat | overlapping runs and polls, 401 of an old login | only checked-in rolls seated, the screen catches up |
| Portals, `private/centre-admin`, *sys* | token, page, busy id | log in, poll, approve, ingest | one busy id, late answers, expiring tokens | the page catches up |
| ZuupOS image, exam-ui, start-up | — | — | — | not protocol |

### Public side

| Component | State | Operations | Hard behaviour | What makes it correct |
|---|---|---|---|---|
| Answer sync, web `lib/exam/*`, pub `api/v1/sessions.py` | IndexedDB, session rows | start, record, flush, sync, submit | overlapping flushes, a map read, merged and written back without a lock, lost replies, sync after submission, two rows | what is marked is kept, unless a late sync undoes it |
| Exam pages, web `app/exam` | session page, lockdown | instructions, check, session, submit | interval, lockdown timers, dialogs | the session ends |
| Sign-in, web `components/auth`, pub `services/auth` | codes, grants, PINs | e-mail code, password, SMS code | a countdown under a request, editable address | a staff session is verified for its own account |
| Key ceremony, pub `api/v1/ceremony.py`, `services/crypto` | ceremonies, shares in the enclave | prepare, share, reconstruct | repeated preparation, shares of two generations | a quorum of one generation opens |
| Emergency dual control, pub `services/emergency`, web `lib/api/emergency.ts` | pending requests, exam state | initiate, confirm, reject, sweep | await between resolution and effect, expiry, the browser's stand-in | two admins per change, resolved once |
| Paper making, web `app/setter`, pub `services/question_gen` | draft, pipeline tasks | upload, poll, attack, judge | polls without answer, failed pipelines, a restart that forgets them | every upload comes to an end that the backend does not forget |
| Hall-ticket check and distress alerts, web `app/invigilator` | status, alerts | scan, match, clear; press, post, list, resolve | timers never cancelled, lists in any order | no check hangs, an alert is seen |
| Enrolment and staff registration, web, pub `api/v1/enroll.py`, `staff_reg.py` | enrollments, requests, codes | fill in, send again, count and insert, issue code | count before the await, lost answers | roll numbers distinct unless enrolments overlapped |
| Roster and enquiries, pub `api/v1/admin.py`, `contact.py` | approval status, codes, grants | approve, reject; send, verify, submit | stale roster, decisions at once, countdown, posts repeated between look-up and commit | the last decision shows, an enquiry was verified |
| Complaints, web `lib/api/complaint.ts` | receipts, trees | issue, edit, forge, file | text edited under the call, odd trees, receipts of the visitor's own making | the verdict on an issued receipt fits what was filed |
| Exam on chain, `public/contracts/src/CryptoExamCore.sol`, pub `services/blockchain.py`, `api/v1/blockchain.py`, `crypto.py`, `delivery.py`, `exams.py`, `services/exam_lifecycle.py` | contract records, exam row, the node's pool | encrypt, seal, lock, prove, build tree, commit, anchor | one account, nonces, receipts unread, late commits of the session | what was confirmed stands |
| Live broadcast, biometrics, PDF parsing, circuit, landing pages | — | — | outside what a state machine says | — |

### Interactions

Provisioning fills the tables the seat pipeline and the approval cascade start
from. A token from the cascade opens the invigilator, admin and egress routes; the
terminal, the console and the portals call these routes and keep nothing but React
state and a token. A submission appends to the answer ledger and the audit log in
one transaction. The gate counts enrollments and ledger rows; the export takes
ledger rows; the courier carries the response to HQ; HQ anchors the root. All Edge
routes share one process (memory, lost at restart) and one database (kept). On the
public side pages meet only at the backend, and several of them answer themselves
when it does not: that stand-in is part of their models.

## 2. Modules

| Module | Models | State and its source |
|---|---|---|
| `MerkleChain` | the hash chain; SHA-256 is ideal, so a root *is* the sequence of leaves it commits to | none |
| `AppendLedger` | abstract: a log that only grows, each record chained to the last | `chain` |
| `SeatPipeline` | check-in to receipt | `enroll`, `term`, `health`, `binding`, `ledger` (tables), `trail` (granted audit entries), `attempts` (the Map in `buildApp`), `req` (handlers in flight), `receipts` (at candidates) |
| `ExamDay` | composes `SeatPipeline` with gate, export, HQ and anchor | adds `windowClosed`, `egressOpened`, `synced`, `admin` (handlers in flight), `bundles`, `vault`, `anchor` |
| `AuditLog` | `appendAudit` in concurrent transactions | `rows`, `nextSeq` (identity column), `tx` |
| `Approval` | staff of one centre | `ident`, `request` (tables), `work` (handlers in flight), `sessions` (tokens), `expired`, `issued`, `redeemed`, `trail` |
| `CandidateTerminal` | Gate and candidate portal of one seat | the seat at the Edge, `gate`, `phase`, `card`, `sealing`, `wire`, `receipt` |
| `InvigilatorConsole` | registration, login, console | `desk`, `view`, `polls`, `run`; `present`, `seatOf` at the Edge |
| `StaffPortals` | Centre Admin and System Admin portals, which share their logic | `sitePage`, `token`, `screen`, `calls`; `edge` |
| `AnswerVault` | sealing, signed bundles, both vaults | keys, `answerRows`, `bundles`, `damage`, `shown` |
| `MerkleTree` | the three Merkle trees and their proofs | none |
| `SealedPaper` | sealing and opening of questions | `bundle`, `phase`, `seed`, `tampered`, `opening`, `opened` |
| `Complaint` | the complaint portal; `Pasted` are receipts that visitors make themselves | `text`, `receipt`, `claim`, `filing`, `verdict` |
| `AnswerSync` | the browser's store and the backend's session rows | `paper`, `store`, `flush` (with the session the backend read for it), `rows`, `starting`; `overwritten` and `records` keep account |
| `ExamSession` | the exam pages with their lockdown | `place`, `checks`, `sheet`, `timer`, `lock`, `flags`, `confirm` |
| `WebLogin` | the four login forms | `form`, `ask`, `codes`, `grants`, `pins`, `session` |
| `KeyCeremony` | ceremony page, backend, enclave, stand-in | `gen`, `backend`, `enclave`, `standin`, `page`, `wrapped` |
| `DualControl` | emergency requests at backend and stand-in | `requests`, `pending`, `running`, `history`, `exam`, `panel` |
| `PaperModes` | the three setter pages | `draft`, `task`, `poll`, `attack`, `judged` (no property rests on the last two, nor on what `draft` says of the setup: they complete the pages' control) |
| `CandidateCheck`, `DistressSignal` | the invigilators' pages of the web site | `step`, `outcome`, `scan`, `timers`; `posting`, `queued`, `alerts`, `listed` |
| `Registration`, `Enquiry`, `Roster` | forms, codes and decisions around enrolment | `tab`, `handling`, `enrolled`, `desk`; `contact`, `posting` (requests by connection), `mails`, `passes`, `enquiries`; `roster`, `deciding`, `enrolment` |
| `ExamContract` | `CryptoExamCore.sol` for one exam and centre, as operators | none |
| `ChainRegister` | the backend's handlers that register an exam on chain | `exam` (row), `call` (handlers), `contract`, `pool`, `mined`, `told` |
| `MC...` | composition for the runs, symmetry, constraints | `MCHall`, `MCSite`, `MCRecords` add `focus` |
| `...Proofs` | the theorems of the module named first; `HallProofs` those of `CandidateTerminal` and `InvigilatorConsole`, `OfficialsProofs` of `KeyCeremony`, `DualControl` and `WebLogin`, `RecordsProofs` of `AuditLog`, `ChainRegister`, `Roster`, `Registration` and `Enquiry`, `VerificationProofs` of `MerkleTree`, `Complaint`, `SealedPaper` and `AnswerVault` | |

**Concurrency.** A handler is one action per stretch between two points where
another handler may run: reads from the pool, then a transaction whose writes
appear at COMMIT. What it has read stays in its slot (`req`, `admin`, `work`,
`tx`, `call`...) and may be stale. `SELECT ... FOR UPDATE SKIP LOCKED` is
`RowLocked`, the advisory lock of the chain is `ChainLockFree`; a plain UPDATE
waits for the row. SQLAlchemy writes back only columns that differ from what was
read (`Written`, and `Roster`'s commit), and a JSON map as one column: `ReadSync` and
`CommitSync`, `ReadChallenge` and `SettleChallenge`, `ReadGrant` and `SpendGrant` are the
two halves of handlers that lock nothing. The commit that `get_db` makes at the end
of a request (`database.py` 63) comes before the answer is sent, as in FastAPI 0.115, the
version `requirements.txt` names; from 0.118 on the answer goes first, and what is said
here of answered requests then needs their commit besides. A page's promise handlers are actions of
their own; a request whose page is gone still ends, without changing the page.

**Restarts.** `Restart` (`RestartEdge`, `RestartBackend`) empties slots and memory;
tables stay. In `PaperModes` it forgets every pipeline (`ForgetTasks`), and NOT_FOUND is the
answer from then on. A reload empties React state; sessionStorage and IndexedDB stay.

**Data.** An envelope, a code, an audit entry is a model value. `Fresh` says that
every seal draws a new data key. A biometric score or an attestation only decides
whether a step is attempted. A provisioning bundle that names several people is
a sequence of `ProvisionStaff` steps, one per person, which allows more
interleavings than its transaction. Refusals that only answer the caller are not
steps; refusals that undo something (`LoginDenied`, `RefuseActivation`) are.

**Variants.** A definition whose comment starts with "Variant" is a copy of the
next one with a plausible mistake. It is no part of the specification; each one
is what some property exists to refute.

## 3. Plan

Done: the chain and its abstract log; the seat pipeline; the day around it; audit
log and approval cascade with their inductive invariants and the refinement of
the answer ledger; the terminal, the console and the portals; the public side's
sync, session, sign-in, ceremony, dual control, paper making and invigilators'
pages; both vaults, the trees, complaints, enrolment, roster, enquiries; the exam
on chain.

Proved: every safety property that a run checks (section 5).

To come, most important first:

1. Proofs: type correctness of the modules that have none (`KeyCeremony`,
   `StaffPortals`, `ExamSession`, `PaperModes`, `CandidateCheck`, `DistressSignal`), and the
   invariants their liveness rests on.
2. `Approval` with stations shared by several identities: the newest registration
   then hides an ACTIVE identity at login (`repo.ts` 290).
3. Abstract specifications: a register written by confirmations in order for
   `DualControl`, a map of answers frozen once for `AnswerSync`; today's code
   implements neither without the exceptions listed in section 4.
4. `submit_answer` of `sessions.py` beside the sync, should a client come to
   call it; delivery proofs, should a node.

## 4. Runs

Each run asks one question; a `pass` run explores its instance completely.

| Run | Instance | Question and answer |
|---|---|---|
| `SeatRace` | 2 seats, 2 rolls of which one is enrolled, 2 envelopes, 2 requests | Do concurrent assignments, logins, submissions, faults and restarts keep the hall consistent? `ChainIntact`, `NoDoubleSeat`, `AttendedIsBound`, `LedgerMatchesTrail`, `ReceiptsHold` hold; the ledger implements `AppendLedger` (`LedgerIsAppendOnly`). |
| `SeatDoubleSubmit` | 1 seat, 2 requests | Is there one submission per binding, as `http.ts` 707-709 says? Not if two submissions overlap. |
| `ExamDay` | 1 seat, 2 envelopes, 2 seat and 2 admin requests | Does the courier leak, skip or reorder? `NothingLeavesEarly`, `SyncedIsPrefix`, `BundlesAreRuns` hold, and what the anchor vouches for is a prefix of the ledger (`AnchorIsLedgerPrefix`). |
| `ExamDayGate` | 2 seats, 2 rolls | Does the gate wait for every present candidate, as `http.ts` 448-450 says? Not if somebody who was not checked in has submitted: it compares two counts. |
| `Records` | eight parts | What is later made of records, under overlapping requests and damage? `OnlyForksBreak`, `TamperShows` (audit log), `VaultsOpenWhatWasSealed`, `VerdictFits` (issued receipts, and copies of them), `OpensWhatWasSealed`, `RollsDistinctInSequence`, `EnquiryWasVerified` (only posts that overlap share a grant), `StatusIsLastDecision`, `ConfirmedStands` hold. |
| `AuditFork` | 2 transactions | Does an untampered log verify, as `audit.ts` 6-8 implies? Not if two transactions read the same tail. |
| `ApprovalRace` | 2 Centre Admins, an invigilator, a Centre Admin provisioned by HQ, 2 codes, 2 requests | Do stale write-backs, the slot of the Centre Admin and revocations leave the cascade sound? `CascadingTrust`, `SpentCodeActivates`, `OneAdminAtWork`, `RevokedNeverLogsIn` hold. |
| `ApprovalReplay` | 1 Centre Admin, 1 code, 2 requests | Does a code verify at most once, as `approval.ts` 10 says? Not in two activations that overlap. |
| `Hall` | terminal, console, portal, and a seat with 2 requests, with fairness | Are the screens true and do they get on? `ReceiptVouches`, `SealedDuringExam`, `SeatedAreCheckedIn`; `CalmSeatAdvances`, `ConsoleCatchesUp`, `PortalCatchesUp`, and `RequestsFinish`: no lock of the Edge stalls a request. |
| `WaitingRoom` | one seat, one failed request | Does the waiting room advance on its own, as `candidate/page.tsx` 365 says? Not after a failed poll: its timer is not set again. |
| `Site` | eight parts of the web site, with fairness | Is what the pages show true, and do they get on? `MarkedIsKept` (but for what a late sync undoes), `StaffSessionIsVerified`, `OpenedByQuorum`, `ResolvedOnce`, `ChangedByTwo`; `PendingIsFlushed`, `SessionEnds`, `VerificationEnds`, `AlertIsSeen`, `ProcessingEnds` (unless the backend forgets the task). |
| `AnswersLost` | 1 question, 2 answers, 1 flush | Are answers never lost, as `answer-sync.ts` 4-5 says? An answer changed under a flush is marked as synced by that flush's reply. |

**Focus.** `Hall`, `Site` and `Records` put several modules into one state space,
one at a time: `focus` is chosen initially, and only its part steps (`Only`). The
parts share no variables, so that their behaviours are exactly those of each
module by itself. Fairness is stated for the part in focus.

The `violation` runs check a sentence of the repository against what the code
does; `PROJECT.json` quotes it. Besides these, modelling showed behaviour that no
run is spent on; the hazards in `PROJECT.json` carry the lines. Among them:

* a login read before another login of the seat committed takes a SUBMITTED seat
  back to ATTENDED (`http.ts` 654);
* rows are marked SYNCED before the response with the only copy of the bundle is
  delivered (`http.ts` 501-508);
* a bundle of late answers never passes HQ's walk from genesis, and the contract
  takes one anchor per centre;
* neither the seat number nor the leaf index of a row is under the chain's hash,
  and the vault takes the node's key from the bundle it verifies
  (`VaultsOpenWhatWasSealed` speaks of the records for this reason);
* an authorise-fp that overlaps an issue-code restores the earlier code
  (`repo.ts` 109-131);
* a lost answer to a submission unmounts the card: the record may be filed and no
  receipt shown;
* two syncs that overlap at the backend read one map, and the later commit undoes the
  answers of the earlier, which the browser has marked as synced and never sends
  again (`sessions.py` 346-356; `overwritten`);
* a sync that arrives after the final submission changes its answers and not its
  hash (`sessions.py` 328); two starts leave two open rows and nothing is flushed
  any more;
* of two emergency actions confirmed one after the other the earlier may be
  applied last;
* a verified result's timer clears the mismatch of the next candidate;
* two posts of one grant that overlap are both accepted and mailed (`contact.py` 52-64),
  and two checks of one code both get a grant (`email_verify.py` 134-187);
* after a restart the status of a pipeline is NOT_FOUND, which ends no polling: Direct
  Upload polls for ever on a step without a button (`question_modes.py` 129,
  `paper-modes.ts` 117-119);
* a receipt made by the visitor himself, root included, gets DISMISSED or TAMPERING
  DETECTED, for it is judged by its own root (`complaint.ts` 157), not by what was
  "permanently committed" (`complaint/page.tsx` 85-86);
* enrolments that overlap get the same roll number, and one sent again enrols twice;
* a lock that is mined after its 120 seconds can never be recorded, as the retry's
  estimate reverts; a paper sealed while its lock is under way leaves a hash in the
  row that differs from the one on chain; `delivery.py` 149 imports a name that
  does not exist, so that `seal_questions` never anchors.

### Bounds and why they are enough

* *Requests in flight* (`Reqs`, `Admins`, `Txs`, `Handlers`, `Runs`, `Flushes`,
  `Scans`, `Calls`). Two slots give every pair of overlapping handlers; the
  transactions of the audit log are short enough for three.
* *Envelopes* bound the submissions: an answer chained to genesis, and one chained
  to a row. The proofs cover any number.
* *Rolls*. In `SeatRace` the second roll is on nobody's roster and may still be
  assigned and typed. `Hall` has one roll at the desk (`DeskRolls`), which two runs
  compete for; `OnlyCheckedInSeated` is proved for any number.
* *HQStatuses*. In `SeatRace` HQ pushes no candidates again; in `ExamDay` it does.
* *Codes*. Two: a code issued again for one identity, or one code for each of two.
* *MaxSeq* caps the identity column of the audit log. *MaxCohort*, *MaxItems* of
  five give trees with odd levels at two heights, *MaxRecords* of three a chain
  with a first, a middle and a last row.
* *MaxMishaps*, *MaxFailures*, *MaxOutages*, *MaxDrops*, *MaxGaps*, *MaxDamage*,
  *MaxWrong*: how much goes wrong. *MaxRevisions*, *MaxReads*, *MaxTasks*,
  *MaxAttacks*, *MaxGens*, *MaxVisits*, *MaxTries*, *MaxSends*, *MaxDecisions* and
  their like count what a user may repeat for ever; twice is enough for a late
  answer of the first to meet the second. *MaxSends* of two is two locks that
  overlap, or a lock and what follows it.
* *Calm* (`MCExamDay`) keeps terminals healthy, and failed logins to the time
  before the window closes and the first answer is on its way: health and failure
  counters are the subject of `SeatRace` and do not meet the gate.
* *Cast* (`MCApproval`) lets three of the four staff enter, and codes expire only
  while there are two: a TTL concerns one request and those who approve it.
* *Tidy* (`MCHall`) follows corrected answers and marks one at a time where nothing
  fails: they meet the sealing, not the failures. *Quiet* and *Prompt* (`MCSite`)
  follow the lockdown on an untouched paper, and optional fields in one order.
* *MaxDrops* is one in `Site`, and *LostWithOne* spends it only while the enrolment has
  at most one session, being made or made: with two of them nothing is flushed at all.
  *WebQuestions* are two, one for the sync that reads and one for the sync in between.
  *MaxGaps* counts restarts of the backend with the polls that get no answer.
  *MaxAttacks* is one: no property waits for the red team.
* *Pasted* is, in `Records`, every issued receipt with other answers and the root they
  lead to; *OneReceipt* lets a visitor paste what can be made of the receipt issued to
  his page. The proof is for any *Pasted*.
* *OneBroken* (`MCRecords`) follows two visitors, and one whose connections break and
  whose requests are repeated, apart (`focus` "enquiry" and "repeat").
* *FewTouched*, *OneForm*, *DeskLast*, *AloneWhenLate*, *OnePage*, *PaperFirst*,
  *KeysFirst* (`MCRecords`) do the same for the parts of `Records`; each says in
  its comment what it keeps apart. Requests that overlap stay in all of them.
* Symmetry is used over sets of model values that no definition tells apart, and
  not in a run with liveness.

Deadlock is checked where the system goes on for ever (the seat pipeline, the day,
the audit log, the approvals). `Hall`, `Site`, `Records`, `AnswersLost` and
`WaitingRoom` do not check it: people may stop, and the bounds end what they do.

### Fairness

* `SeatFairSpec` (in `Hall`) has weak fairness for `Serve(q)`, the part of a request
  that the server runs by itself once it has begun: the event loop and PostgreSQL
  complete what is enabled. Nothing is assumed of arrivals, check-ins, heartbeats,
  or of restarts, which may cut a request off; that also ends it.
* `TerminalServes`, `ExamServes`, `CheckServes`, `PaperServes`, and the polls of console
  and portal: timers that a page has set fire, requests are answered or fail, and
  answers reach the page. No action of a person is fair.
* `SyncFairness`: the timer flushes, the backend reads and commits what it has got, and
  a page that waits handles the reply. Losses and reloads are bounded, not unfair.
* `RefreshAlerts` has strong fairness: the interval fires again and again, and each
  time a slot may be taken by a request not yet shown.

## 5. Proofs

All theorems are about every value of the constants under the named assumptions
of the modules, which say that the special values are not ordinary ones and that
bounds are numbers.

* `SeatPipelineProofs` - `SeatInvariant`. `ChainIntact` alone is not inductive:
  a submission inserts what it read earlier. `SeatInv` adds what links requests
  to tables: `RequestShape` (what a stage has filled in), `SeatHistory` (a free
  seat was never bound, a submitting one was attended), `ReadsStillHold` (what was
  read before a transaction and no other request can make stale),
  `ChainLockExclusive` and `TailIsCurrent` (the lock keeps the tail), and
  `DoneIsCommitted` (a receipt about to be sent is of a committed row). One lemma
  per action; the safety properties follow. `LedgerRefinesLog` then shows that
  each step appends one chained record or leaves the log alone.
* `ExamDayProofs` - `GateInvariant`: whoever has passed the gate, or has read the
  window as closed, did so after it closed; windows do not reopen. From it
  `NothingEverLeavesEarly`. `AnchorNeverReplaced` is an action property.
  `DayInvariant` carries `SyncedIsPrefix`, `BundlesAreRuns` and
  `AnchorIsLedgerPrefix`, none of which is inductive: it takes `SeatInv` over, says
  that no two rows have one leaf, so that marking by leaf marks the rows meant
  (`LeavesOnce`), and that an export under way may be behind others but never
  starts beyond the first row that is not marked (`ExportsFollow`). The one
  assumption of its own, `DayAssumption`, is that the roster is finite; without it
  the gate's counts mean nothing.
* `ApprovalProofs` - `ApprovalInvariant`: a row read or about to be written
  carries nothing the audit trail does not vouch for (`RowsVouched`,
  `WorkVouched`), so that stale write-backs, which do bring old codes back, can
  break neither `CascadingTrust` nor `SpentCodeActivates`. `OneActiveAdmin` and
  `AtWorkIsActive` give `OneAdminAtWorkAlways`; `RevokedIsMarked` gives
  `RevokedStaysOut`.
* `HallProofs` - `SealedInv` of the terminal: what is on the wire or filed was
  sealed from a paper that was open, at or after T0, by a candidate who had logged
  in (`AlwaysSealedDuringExam`). `ReceiptInv`: an accepted answer on the wire is of
  a filed record, and records stay filed (`ReceiptAlwaysVouches`). At the console a
  run is past its check-in only once the Edge has answered it, and check-ins are
  never taken back (`OnlyCheckedInSeated`).
* `AnswerSyncProofs` - `KeptInv`: a reply on its way stands for a row that has the
  answer, unless a sync undid it since; and what the backend read for a flush is in the
  row still, or was undone (`SeenWasHad`). A commit replaces the map of a row: what it
  carries is there, what it read stays, and what others wrote in between is in
  `overwritten` (`MarkedAlwaysKept`).
* `OfficialsProofs` - `QuorumInv`: the enclave's key is of a generation whose shares a
  quorum has handed over since it was prepared. The page's stand-in counts shares of any
  preparation; what holds of both is that a quorum handed a share over since
  (`OpenedByQuorumAlways`). `DualInv`: a
  request that runs was confirmed by another than its initiator, and no sweep or
  stand-in takes a confirmed request back (`ChangedByTwoAlways`). `ResolvedInv`:
  each request is pending, running or in the history, in one of them and once, and
  the counters add up to those that wait no more (`ResolvedOnceAlways`).
  `LoginInv`: a form, and a request it has on its way, refers to codes, grants and
  PINs of its own portal, there are never more grants than used codes, and a session
  of staff has the PIN that opened it (`StaffSessionAlwaysVerified`).
* `RecordsProofs`, the audit log - `AuditInvariant`: the tail a transaction has read
  is committed and older than any seq it may still draw. Hence `AuditTree`.
  `AuditRowsInv` adds that every row hashes to its root and that no two rows have
  one seq, not even one that is inserted and not committed. Over such rows
  `OnlyForksEverBreak` (without two rows under one parent the verifier's walk by
  seq arrives) and `TamperAlwaysShows` (it stops where a row is gone or edited)
  follow; the first needs that a finite set of rows has a last one.
* `RecordsProofs`, the exam on chain - `RegisterInv`: one nonce, one contract. A
  transaction in the pool that may still be taken up was estimated on the contract
  as it is now, for had another been mined in between its nonce would be stale; so
  what is mined takes effect, and what is told or stored as sent is mined and is on
  the contract (`ConfirmedAlwaysStands`).
* `RecordsProofs`, the people - `RosterInv`: a decision that is about to be written
  differs from the status it was read with, so that SQLAlchemy does write it, and
  the write is the last entry of the log (`StatusAlwaysLastDecision`).
  `RegistrationInv`: an enrolment has the number after the rows that there were when
  its request began (`CountsKept`), so that requests which do not overlap get distinct
  numbers in their order (`RollsAlwaysDistinct`). `EnquiryInv`: a code that is being
  checked, and a grant that is being looked up or used, is of an address whose mail the
  sender reads; when a grant is found unused, no enquiry that is in by then is on it,
  so that only one committed after that look-up can share it (`EnquiryAlwaysVerified`).
* `VerificationProofs`, trees - over leaves of any number: every level is half as
  long as the one below (`LevelSizes`), so that there is a top (`HeightIs`); the
  positions on the way up stay within the levels (`PositionsFit`); the siblings on
  their sides lead every leaf to the root (`PathLeadsToRoot`); and past the same
  siblings no other leaf ends there (`WalkTellsLeaves`, where the hash is ideal).
  From these, `VerdictAlwaysFits` for complaints (`ComplaintInv`; no other answers pass at the place
  and below the root of an issued receipt, and nothing is said of other roots) and
  `OpensAlwaysWhatWasSealed` for question bundles (`SealedInv`: what is opened was
  selected past T0, and T0 does not come again), whose padded trees keep each leaf
  at its place (`PaddedIs`).
* `VerificationProofs`, the vaults - `VaultInv`: damage is never undone. A bundle
  touched on its way differs for good from what its hash or signature is of
  (`Betrays`); one that was not lists rows as they were inserted, by index, but for
  values nothing hashes to (`Exported`). Then the checks pass exactly for what is
  genuine and sealed to the key in use, and the chain's walk leaves only one order
  in which its records can stand (`VaultsAlwaysOpenWhatWasSealed`).

The invariants the proofs rest on are conjuncts of their modules (`SeatInv`, `DayInv`,
`AuditRowsInv`, `RegisterInv`, `VaultInv`...). Each was an invariant of its run
before it was proved; being theorems, they are not run again. `HallTypeOK` and
`SiteTypeOK` gather the type invariants of a composition; they hold on the
instances of `Hall` and `Site`, and those of `SeatPipeline`, `Approval`,
`CandidateTerminal`, `InvigilatorConsole`, `AnswerSync`, `DualControl` and `WebLogin`
are parts of theorems.

**Form.** What a recursive definition computes cannot be proved here by induction
over it. Where a proof needs it the definition is by position: the rows an
export lists (`SealedRows`), the requests a sweep expires (`InOrder`) and the sorted
records of a vault (`Ordered`, `recordToChain`) are the sequence whose i-th element has i - 1
before it. The levels, positions and walks of `MerkleTree` are recursive functions
over an interval; that such a function exists and obeys its equation is proved from
the least number for which it would not (`LevelsAre`, `PositionsAre`,
`DoublingsAre`, `WalkIs`). Powers of two are doublings, since the provers know no
exponents.

Only model-checked: liveness (`CalmSeatAdvances`, `ConsoleCatchesUp`,
`PortalCatchesUp`, `RequestsFinish`, `PendingIsFlushed`, `SessionEnds`,
`VerificationEnds`, `AlertIsSeen`, `ProcessingEnds`), which is out of the prover's
reach, and the disagreements that the `violation` runs show.

## 6. Not modelled

* Cryptography: hashes, RSA, AES, Argon2, secret sharing and signatures are ideal.
  Rows and bundles are damaged in `AnswerVault`, to values nothing hashes to;
  elsewhere checks of integrity always pass. The vault's guard against personal
  data, which no record the terminal builds can meet, is left out.
* Biometric scores, attestation quotes and station IPs, except that an identity
  provisioned by HQ has no station. What a language model, a scoring heuristic or
  a parser returns is a choice.
* Incidents and attestation at the Edge, and the figures of the overviews. The
  button for incidents is shown for a state no seat reaches.
* Code nothing calls: the terminal's `LockGate`, `terminal-state.ts` and
  `chain-bridge.ts`, `submit_answer` of `sessions.py`, the contract's delivery
  proofs, emergency event and ceremony, the scheduled tasks of
  `tasks/exam_lifecycle.py`. `invigilator/register` posts to routes that do not
  exist, and the verify wizard is linked from nowhere.
* Pages on fixed demo data: landing pages, catalogues, the public audit and verify
  pages, the setter's proofs page. The backend refuses candidates at `/auth/login`,
  so that `ExamSession` is reached by its demo entry.
* Left out of modelled parts: handlers that outlive a lost connection (`Roster`; they
  are in `Registration`, `Enquiry` and `AnswerSync`), the number of answers that the
  receipt card prints from the current paper (`CandidateTerminal`), the backend's limit
  of 500 alerts (`DistressSignal`), a beacon of another exam (`SealedPaper`), the demo
  roster of the verify page
  (`CandidateCheck`), registration of web accounts and refresh of their tokens
  (`WebLogin`), the admins' emergency routes next to the status transitions
  (`ChainRegister`; dual control is `DualControl`).
* The operating-system image, deployment, the difficulty circuit (arithmetic over
  a large field), outgoing mail and SMS, live broadcast.
* Loss of committed data, several Edge processes on one database, several centres
  or exams: every key of the modelled tables begins with centre and exam.
