----------------------------- MODULE AnswerSync -----------------------------
(***************************************************************************)
(* The candidate's browser of the public web site and the session of the   *)
(* backend it writes to.  The sealed paper lies in IndexedDB before T0 and *)
(* is opened there; every answer is put into IndexedDB first, and flushed  *)
(* to the backend by a timer, by the "online" event and by each answer.    *)
(* Nothing keeps two flushes apart: neither in the browser, nor in the     *)
(* backend, which reads the session, merges a batch into what it read and  *)
(* writes the whole map back, with other requests in between.  IndexedDB   *)
(* survives a reload, requests under way do too, but nobody waits for      *)
(* their answers.                                                          *)
(*                                                                         *)
(* An answer is the number of its recording: a record carries the time it  *)
(* was made at, so that no two are equal.                                  *)
(*                                                                         *)
(* A definition marked "Variant" is no part of the specification: it is    *)
(* the next definition with a plausible mistake, which a property refutes. *)
(***************************************************************************)
EXTENDS Integers, FiniteSets

CONSTANTS
    WebQuestions,  \* questions of the paper
    Flushes,       \* bound: flushes in flight at a time
    MaxRecords,    \* bound: answers recorded
    MaxDrops       \* bound: lost requests, lost replies, reloads

ASSUME SyncAssumption ==
    /\ MaxRecords \in Nat
    /\ MaxDrops \in Nat

VARIABLES
    paper,    \* the paper in this browser: none, sealed in IndexedDB, open
    store,    \* the answers object store of IndexedDB
    flush,    \* calls of AnswerSyncManager.flush
    rows,     \* the sessions rows of this enrollment
    overwritten, \* questions whose answer a sync undid that had read the session before
    starting, \* start_session requests that have found no open row
    records,  \* answers recorded so far
    drops     \* how much was lost so far

syncVars == <<paper, store, flush, rows, overwritten, starting, records, drops>>

Unanswered == 0

AnswerMaps == [WebQuestions -> 0..MaxRecords]

NoAnswers == [q \in WebQuestions |-> Unanswered]

StoredAnswers == [answer : 0..MaxRecords, synced : BOOLEAN]

SessionRows == [id : 1..2, answers : AnswerMaps, submitted : BOOLEAN, hashed : AnswerMaps]

\* A flush: what it carries, whether its page still waits, and the session that the backend
\* read for it.
Uploads == [stage : {"idle", "sent", "read", "replied"}, waits : BOOLEAN, pending : AnswerMaps,
            id : 0..2, seen : AnswerMaps]

NoFlush == [stage |-> "idle", waits |-> FALSE, pending |-> NoAnswers, id |-> 0,
            seen |-> NoAnswers]

SyncTypeOK ==
    /\ paper \in {"none", "sealed", "open"}
    /\ store \in [WebQuestions -> StoredAnswers]
    /\ flush \in [Flushes -> Uploads]
    /\ rows \subseteq SessionRows
    /\ overwritten \subseteq WebQuestions
    /\ starting \in 0..2
    /\ records \in 0..MaxRecords
    /\ drops \in 0..MaxDrops

SyncInit ==
    /\ paper = "none"
    /\ store = [q \in WebQuestions |-> [answer |-> Unanswered, synced |-> FALSE]]
    /\ flush = [f \in Flushes |-> NoFlush]
    /\ rows = {}
    /\ overwritten = {}
    /\ starting = 0
    /\ records = 0
    /\ drops = 0

Drop == drops < MaxDrops /\ drops' = drops + 1

browserVars == <<paper, store, flush, records>>
backendVars == <<rows, overwritten, starting>>

(***************************************************************************)
(* The paper.                                                              *)
(***************************************************************************)
PrePositionPaper ==
    /\ paper = "none"
    /\ paper' = "sealed"
    /\ UNCHANGED <<store, flush, records, backendVars, drops>>

\* EXAM_UNLOCK: the key is derived and the stored paper opened, without a request.
UnlockExamPaper ==
    /\ paper = "sealed"
    /\ paper' = "open"
    /\ UNCHANGED <<store, flush, records, backendVars, drops>>

(***************************************************************************)
(* The backend's session.                                                  *)
(***************************************************************************)
\* start_session: no unsubmitted row is found ...
BeginSession ==
    /\ \A s \in rows : s.submitted
    /\ Cardinality(rows) + starting < 2
    /\ starting' = starting + 1
    /\ UNCHANGED <<browserVars, rows, overwritten, drops>>

\* ... and a row is inserted.  Sessions of an enrollment are not unique: two starts may
\* both find none, and a submitted session does not keep a second one from being started.
InsertSession ==
    /\ starting > 0
    /\ starting' = starting - 1
    /\ rows' = rows \cup {[id |-> Cardinality(rows) + 1, answers |-> NoAnswers,
                           submitted |-> FALSE, hashed |-> NoAnswers]}
    /\ UNCHANGED <<browserVars, overwritten, drops>>

\* final_submission: the answers of this moment are hashed and the row is closed.
FinalSubmission(s) ==
    /\ ~s.submitted
    /\ rows' = (rows \ {s}) \cup {[s EXCEPT !.submitted = TRUE, !.hashed = s.answers]}
    /\ UNCHANGED <<browserVars, overwritten, starting, drops>>

(***************************************************************************)
(* Recording and flushing.                                                 *)
(***************************************************************************)
\* recordAnswer: the record replaces the question's earlier one and is unsynced.
RecordAnswer(q) ==
    /\ paper = "open"
    /\ records < MaxRecords
    /\ store' = [store EXCEPT ![q] = [answer |-> records + 1, synced |-> FALSE]]
    /\ records' = records + 1
    /\ UNCHANGED <<paper, flush, backendVars, drops>>

Pending == {q \in WebQuestions : store[q].answer # Unanswered /\ ~store[q].synced}

\* Variant: a flush that failed is not tried again.
MayFlushOnce == paper = "open" /\ drops = 0

\* The manager is started when the paper is open, and lives as long as its page.
MayFlush == paper = "open"

Batch == [q \in WebQuestions |-> IF q \in Pending THEN store[q].answer ELSE Unanswered]

\* flush, up to its await of the request; called by recordAnswer, the timer and "online".
BeginFlush(f) ==
    /\ MayFlush
    /\ flush[f].stage = "idle"
    /\ Pending # {}
    /\ flush' = [flush EXCEPT ![f] =
         [NoFlush EXCEPT !.stage = "sent", !.waits = TRUE, !.pending = Batch]]
    /\ UNCHANGED <<paper, store, records, backendVars, drops>>

Carried(f) == {q \in WebQuestions : flush[f].pending[q] # Unanswered}

\* scalar_one_or_none finds no row (404) or fails on two (500): the flush is over.
RefuseSync(f) ==
    /\ flush[f].stage = "sent"
    /\ Cardinality(rows) # 1
    /\ flush' = [flush EXCEPT ![f] = NoFlush]
    /\ UNCHANGED <<paper, store, records, backendVars, drops>>

\* sync_answers, its SELECT: the one row, submitted or not, and no lock on it.
ReadSync(f) ==
    /\ flush[f].stage = "sent"
    /\ \E s \in rows :
         /\ rows = {s}
         /\ flush' = [flush EXCEPT ![f].stage = "read", ![f].id = s.id, ![f].seen = s.answers]
    /\ UNCHANGED <<paper, store, records, backendVars, drops>>

\* The batch over the answers that were read.
Merged(f) ==
    [q \in WebQuestions |-> IF q \in Carried(f) THEN flush[f].pending[q] ELSE flush[f].seen[q]]

\* What others wrote since the SELECT.
Undone(s, f) == {q \in WebQuestions \ Carried(f) : s.answers[q] # flush[f].seen[q]}

\* The backend is through with a flush, and its reply on its way.
Replied(f) ==
    [NoFlush EXCEPT !.stage = "replied", !.waits = TRUE, !.pending = flush[f].pending]

\* sync_answers, the COMMIT of its request: the map as a whole replaces that of the row as it
\* is by now; a map equal to the one that was read is not written.
CommitSync(f) ==
    /\ flush[f].stage = "read"
    /\ \/ /\ Merged(f) # flush[f].seen
          /\ \E s \in rows :
               /\ s.id = flush[f].id
               /\ rows' = (rows \ {s}) \cup {[s EXCEPT !.answers = Merged(f)]}
               /\ overwritten' = (overwritten \ Carried(f)) \cup Undone(s, f)
       \/ Merged(f) = flush[f].seen /\ UNCHANGED <<rows, overwritten>>
    /\ flush' = [flush EXCEPT ![f] = IF @.waits THEN Replied(f) ELSE NoFlush]
    /\ UNCHANGED <<paper, store, records, starting, drops>>

\* Variant: the questions of the batch are marked without a reply that says so.
MayMarkUnacknowledged(f) == flush[f].waits

MayMark(f) == flush[f].stage = "replied"

\* markSynced: by question, whatever answer the record holds by now.
MarkSynced(f) ==
    /\ MayMark(f)
    /\ store' = [q \in WebQuestions |->
         IF q \in Carried(f) THEN [store[q] EXCEPT !.synced = TRUE] ELSE store[q]]
    /\ flush' = [flush EXCEPT ![f] = NoFlush]
    /\ UNCHANGED <<paper, records, backendVars, drops>>

\* The request, its transaction or its reply is lost, or the connection while the backend
\* goes on: the answers stay queued.
FlushFails(f) ==
    /\ flush[f].waits
    /\ Drop
    /\ \/ flush' = [flush EXCEPT ![f] = NoFlush]
       \/ flush[f].stage # "replied" /\ flush' = [flush EXCEPT ![f].waits = FALSE]
    /\ UNCHANGED <<paper, store, records, backendVars>>

\* The page goes: IndexedDB stays, and so do requests on their way.
ReloadBrowser ==
    /\ Drop
    /\ paper' = IF paper = "open" THEN "sealed" ELSE paper
    /\ flush' = [f \in Flushes |->
         IF flush[f].stage = "replied" THEN NoFlush ELSE [flush[f] EXCEPT !.waits = FALSE]]
    /\ UNCHANGED <<store, records, backendVars>>

SyncNext ==
    \/ PrePositionPaper \/ UnlockExamPaper \/ BeginSession \/ InsertSession \/ ReloadBrowser
    \/ \E s \in rows : FinalSubmission(s)
    \/ \E q \in WebQuestions : RecordAnswer(q)
    \/ \E f \in Flushes :
         \/ BeginFlush(f) \/ RefuseSync(f) \/ ReadSync(f) \/ CommitSync(f)
         \/ MarkSynced(f) \/ FlushFails(f)

SyncSpec == SyncInit /\ [][SyncNext]_syncVars

\* The timer fires every 30 s; a request is answered and its reply handled.
SyncFairness ==
    \A f \in Flushes :
        /\ WF_syncVars(BeginFlush(f))
        /\ WF_syncVars(RefuseSync(f) \/ ReadSync(f))
        /\ WF_syncVars(CommitSync(f))
        /\ WF_syncVars(MarkSynced(f))

(***************************************************************************)
(* Properties.                                                             *)
(***************************************************************************)
\* The session has an answer of this question.
Kept(q) == \E s \in rows : s.answers[q] # Unanswered

\* A question marked synced in IndexedDB has an answer in the session of the backend, although
\* replies are lost, syncs are merged while others run and the session is closed or doubled -
\* unless a sync undid it that had read the session before the answer got there and wrote its
\* map back after it (sessions.py 346-356: no lock, no version): for that one nothing makes up.
MarkedIsKept ==
    \A q \in WebQuestions : store[q].synced => Kept(q) \/ q \in overwritten

\* A pending answer does not stay pending, as long as the page is open and there is the
\* one session that the backend can write to: every failure is retried (answer-sync.ts 63-87).
PendingIsFlushed ==
    \A q \in WebQuestions :
        q \in Pending ~> (q \notin Pending \/ paper # "open" \/ Cardinality(rows) # 1)

\* "every answer is written to IndexedDB before any network call, so answers are never
\* lost if the network drops" (lib/exam/answer-sync.ts 4-5): the session has the answer
\* of a record marked synced, unless a flush that carries it is on its way.
AnswersNeverLost ==
    \A q \in WebQuestions :
        store[q].synced =>
            \/ \E s \in rows : s.answers[q] = store[q].answer
            \/ \E f \in Flushes : flush[f].stage # "idle" /\ flush[f].pending[q] = store[q].answer
=============================================================================
