-------------------------- MODULE AnswerSyncProofs --------------------------
(***************************************************************************)
(* Proofs about AnswerSync, for every paper, every number of flushes that  *)
(* overlap, of lost requests and of reloads.                               *)
(***************************************************************************)
EXTENDS AnswerSync, FiniteSetTheorems, TLAPS

-----------------------------------------------------------------------------
(* The state is well formed; rows of the enrollment stay within their bound. *)

RowsBound == IsFiniteSet(rows) /\ Cardinality(rows) + starting <= 2

SyncInv == SyncTypeOK /\ RowsBound

LEMMA NoFlushType == NoAnswers \in AnswerMaps /\ NoFlush \in Uploads
BY SyncAssumption DEF NoAnswers, Unanswered, AnswerMaps, NoFlush, Uploads

LEMMA SyncInitInv == SyncInit => SyncInv
<1> SUFFICES ASSUME SyncInit PROVE SyncInv
  OBVIOUS
<1>1. flush \in [Flushes -> Uploads]
  BY NoFlushType DEF SyncInit
<1>2. store \in [WebQuestions -> StoredAnswers]
  BY SyncAssumption DEF SyncInit, StoredAnswers, Unanswered
<1>3. RowsBound
  BY FS_EmptySet DEF SyncInit, RowsBound
<1>4. records \in 0..MaxRecords /\ drops \in 0..MaxDrops /\ starting \in 0..2
  BY SyncAssumption DEF SyncInit
<1>5. paper \in {"none", "sealed", "open"} /\ rows \subseteq SessionRows /\ overwritten \subseteq WebQuestions
  BY DEF SyncInit
<1> QED
  BY <1>1, <1>2, <1>3, <1>4, <1>5 DEF SyncInv, SyncTypeOK

\* One more loss stays within its bound.
LEMMA DropType == SyncTypeOK /\ Drop => drops' \in 0..MaxDrops
BY SyncAssumption DEF SyncTypeOK, Drop

\* A row put in the place of another does not make them more.
LEMMA RowReplaced ==
  ASSUME SyncInv, NEW s \in rows, NEW r \in SessionRows, rows' = (rows \ {s}) \cup {r},
         starting' = starting
  PROVE  rows' \subseteq SessionRows /\ RowsBound'
<1>1. IsFiniteSet(rows \ {s}) /\ Cardinality(rows \ {s}) = Cardinality(rows) - 1
  BY FS_RemoveElement DEF SyncInv, RowsBound
<1>2. IsFiniteSet(rows') /\ Cardinality(rows') <= Cardinality(rows \ {s}) + 1
  <2>1. Cardinality(rows \ {s}) \in Nat
    BY <1>1, FS_CardinalityType
  <2>2. /\ IsFiniteSet((rows \ {s}) \cup {r})
        /\ \/ Cardinality((rows \ {s}) \cup {r}) = Cardinality(rows \ {s})
           \/ Cardinality((rows \ {s}) \cup {r}) = Cardinality(rows \ {s}) + 1
    BY <1>1, FS_AddElement
  <2> QED
    BY <2>1, <2>2
<1>3. Cardinality(rows) \in Nat /\ Cardinality(rows') \in Nat /\ starting \in 0..2
  BY <1>2, FS_CardinalityType DEF SyncInv, RowsBound, SyncTypeOK
<1> QED
  BY <1>1, <1>2, <1>3 DEF SyncInv, RowsBound, SyncTypeOK

\* What a flush merges is a map of answers.
LEMMA MergedType ==
  ASSUME SyncTypeOK, NEW f \in Flushes
  PROVE  Merged(f) \in AnswerMaps
<1>1. flush[f].pending \in AnswerMaps /\ flush[f].seen \in AnswerMaps
  BY DEF SyncTypeOK, Uploads
<1> QED
  BY <1>1 DEF Merged, AnswerMaps

\* The reply to a flush is one that its page waits for.
LEMMA RepliedType ==
  ASSUME SyncTypeOK, NEW f \in Flushes
  PROVE  /\ Replied(f) \in Uploads
         /\ Replied(f).stage = "replied"
         /\ Replied(f).pending = flush[f].pending
<1>1. flush[f].pending \in AnswerMaps
  BY DEF SyncTypeOK, Uploads
<1> QED
  BY <1>1, NoFlushType DEF Replied, Uploads

\* The backend's session: starts that race, and final submissions.
LEMMA SessionSteps ==
  ASSUME SyncInv,
         BeginSession \/ InsertSession \/ \E s \in rows : FinalSubmission(s)
  PROVE  SyncInv'
<1>1. Cardinality(rows) \in Nat /\ starting \in 0..2
  BY FS_CardinalityType DEF SyncInv, RowsBound, SyncTypeOK
<1>2. CASE BeginSession
  BY <1>1, <1>2 DEF BeginSession, browserVars, SyncInv, RowsBound, SyncTypeOK
<1>3. CASE InsertSession
  <2> DEFINE row == [id |-> Cardinality(rows) + 1, answers |-> NoAnswers, submitted |-> FALSE,
                     hashed |-> NoAnswers]
  <2>1. starting' = starting - 1 /\ rows' = rows \cup {row} /\ starting > 0
    BY <1>3 DEF InsertSession
  <2>2. Cardinality(rows) + 1 \in 1..2
    BY <1>1, <2>1 DEF SyncInv, RowsBound
  <2>3. row \in SessionRows
    BY <2>2, NoFlushType DEF SessionRows
  <2>4. IsFiniteSet(rows') /\ Cardinality(rows') <= Cardinality(rows) + 1
    <3>1. /\ IsFiniteSet(rows \cup {row})
          /\ \/ Cardinality(rows \cup {row}) = Cardinality(rows)
             \/ Cardinality(rows \cup {row}) = Cardinality(rows) + 1
      BY FS_AddElement DEF SyncInv, RowsBound
    <3> HIDE DEF row
    <3> QED
      BY <1>1, <2>1, <3>1
  <2>5. Cardinality(rows') \in Nat
    BY <2>4, FS_CardinalityType
  <2> HIDE DEF row
  <2>6. RowsBound' /\ rows' \subseteq SessionRows /\ starting' \in 0..2
    BY <1>1, <2>1, <2>3, <2>4, <2>5 DEF SyncInv, RowsBound, SyncTypeOK
  <2> QED
    BY <1>3, <2>6 DEF InsertSession, browserVars, SyncInv, SyncTypeOK
<1>4. ASSUME NEW s \in rows, FinalSubmission(s) PROVE SyncInv'
  <2>1. [s EXCEPT !.submitted = TRUE, !.hashed = s.answers] \in SessionRows
    BY DEF SyncInv, SyncTypeOK, SessionRows
  <2>2. rows' \subseteq SessionRows /\ RowsBound'
    BY <1>4, <2>1, RowReplaced DEF FinalSubmission
  <2> QED
    BY <1>4, <2>2 DEF FinalSubmission, browserVars, SyncInv, SyncTypeOK
<1> QED
  BY <1>2, <1>3, <1>4

\* The paper, the recording of answers and a reload.
LEMMA BrowserSteps ==
  ASSUME SyncInv,
         \/ PrePositionPaper \/ UnlockExamPaper \/ ReloadBrowser
         \/ \E q \in WebQuestions : RecordAnswer(q)
  PROVE  SyncInv'
<1>1. CASE PrePositionPaper \/ UnlockExamPaper
  BY <1>1 DEF PrePositionPaper, UnlockExamPaper, backendVars, SyncInv, RowsBound, SyncTypeOK
<1>2. CASE ReloadBrowser
  <2>1. ASSUME NEW f \in Flushes PROVE [flush[f] EXCEPT !.waits = FALSE] \in Uploads
    BY DEF SyncInv, SyncTypeOK, Uploads
  <2>2. flush' \in [Flushes -> Uploads]
    BY <1>2, <2>1, NoFlushType DEF ReloadBrowser
  <2>3. drops' \in 0..MaxDrops
    BY <1>2, DropType DEF ReloadBrowser, SyncInv
  <2> QED
    BY <1>2, <2>2, <2>3 DEF ReloadBrowser, backendVars, SyncInv, RowsBound, SyncTypeOK
<1>3. ASSUME NEW q \in WebQuestions, RecordAnswer(q) PROVE SyncInv'
  <2>1. records + 1 \in 0..MaxRecords /\ records' = records + 1
    BY <1>3, SyncAssumption DEF RecordAnswer, SyncInv, SyncTypeOK
  <2>2. [answer |-> records + 1, synced |-> FALSE] \in StoredAnswers
    BY <2>1 DEF StoredAnswers
  <2>3. store' \in [WebQuestions -> StoredAnswers]
    BY <1>3, <2>2 DEF RecordAnswer, SyncInv, SyncTypeOK
  <2> QED
    BY <1>3, <2>1, <2>3 DEF RecordAnswer, backendVars, SyncInv, RowsBound, SyncTypeOK
<1> QED
  BY <1>1, <1>2, <1>3

\* The flushes.
LEMMA FlushSteps ==
  ASSUME SyncInv, NEW f \in Flushes,
         \/ BeginFlush(f) \/ RefuseSync(f) \/ ReadSync(f) \/ CommitSync(f)
         \/ MarkSynced(f) \/ FlushFails(f)
  PROVE  SyncInv'
<1>1. flush[f] \in Uploads
  BY DEF SyncInv, SyncTypeOK
<1>2. CASE BeginFlush(f)
  <2>1. Batch \in AnswerMaps
    BY SyncAssumption DEF Batch, SyncInv, SyncTypeOK, StoredAnswers, AnswerMaps, Unanswered
  <2>2. [NoFlush EXCEPT !.stage = "sent", !.waits = TRUE, !.pending = Batch] \in Uploads
    BY <2>1, NoFlushType DEF Uploads
  <2>3. flush' \in [Flushes -> Uploads]
    BY <1>2, <2>2 DEF BeginFlush, SyncInv, SyncTypeOK
  <2> QED
    BY <1>2, <2>3 DEF BeginFlush, backendVars, SyncInv, RowsBound, SyncTypeOK
<1>3. CASE RefuseSync(f)
  <2>1. flush' \in [Flushes -> Uploads]
    BY <1>3, NoFlushType DEF RefuseSync, SyncInv, SyncTypeOK
  <2> QED
    BY <1>3, <2>1 DEF RefuseSync, backendVars, SyncInv, RowsBound, SyncTypeOK
<1>4. CASE ReadSync(f)
  <2>1. PICK s \in rows : flush' = [flush EXCEPT ![f].stage = "read", ![f].id = s.id, ![f].seen = s.answers]
    BY <1>4 DEF ReadSync
  <2>2. s.id \in 0..2 /\ s.answers \in AnswerMaps
    BY DEF SyncInv, SyncTypeOK, SessionRows
  <2>3. [[[flush[f] EXCEPT !.stage = "read"] EXCEPT !.id = s.id] EXCEPT !.seen = s.answers] \in Uploads
    BY <1>1, <2>2 DEF Uploads
  <2>4. flush' \in [Flushes -> Uploads]
    BY <2>1, <2>3 DEF SyncInv, SyncTypeOK
  <2> QED
    BY <1>4, <2>4 DEF ReadSync, backendVars, SyncInv, RowsBound, SyncTypeOK
<1>5. CASE CommitSync(f)
  <2>1. rows' \subseteq SessionRows /\ RowsBound' /\ overwritten' \subseteq WebQuestions
    <3>1. CASE UNCHANGED <<rows, overwritten>>
      BY <1>5, <3>1 DEF CommitSync, SyncInv, RowsBound, SyncTypeOK
    <3>2. ASSUME NEW s \in rows, rows' = (rows \ {s}) \cup {[s EXCEPT !.answers = Merged(f)]},
                 overwritten' = (overwritten \ Carried(f)) \cup Undone(s, f)
          PROVE  rows' \subseteq SessionRows /\ RowsBound' /\ overwritten' \subseteq WebQuestions
      <4>1. [s EXCEPT !.answers = Merged(f)] \in SessionRows
        BY MergedType DEF SyncInv, SyncTypeOK, SessionRows
      <4>2. rows' \subseteq SessionRows /\ RowsBound'
        BY <1>5, <3>2, <4>1, RowReplaced DEF CommitSync
      <4> QED
        BY <3>2, <4>2 DEF Undone, SyncInv, SyncTypeOK
    <3> QED
      BY <1>5, <3>1, <3>2 DEF CommitSync
  <2>2. flush' \in [Flushes -> Uploads]
    BY <1>5, RepliedType, NoFlushType DEF CommitSync, SyncInv, SyncTypeOK
  <2> QED
    BY <1>5, <2>1, <2>2 DEF CommitSync, SyncInv, SyncTypeOK
<1>6. CASE MarkSynced(f)
  <2>1. ASSUME NEW q \in WebQuestions PROVE [store[q] EXCEPT !.synced = TRUE] \in StoredAnswers
    BY DEF SyncInv, SyncTypeOK, StoredAnswers
  <2>2. store' \in [WebQuestions -> StoredAnswers]
    BY <1>6, <2>1 DEF MarkSynced, SyncInv, SyncTypeOK
  <2>3. flush' \in [Flushes -> Uploads]
    BY <1>6, NoFlushType DEF MarkSynced, SyncInv, SyncTypeOK
  <2> QED
    BY <1>6, <2>2, <2>3 DEF MarkSynced, backendVars, SyncInv, RowsBound, SyncTypeOK
<1>7. CASE FlushFails(f)
  <2>1. [flush[f] EXCEPT !.waits = FALSE] \in Uploads
    BY <1>1 DEF Uploads
  <2>2. flush' \in [Flushes -> Uploads]
    BY <1>7, <2>1, NoFlushType DEF FlushFails, SyncInv, SyncTypeOK
  <2>3. drops' \in 0..MaxDrops
    BY <1>7, DropType DEF FlushFails, SyncInv
  <2> QED
    BY <1>7, <2>2, <2>3 DEF FlushFails, backendVars, SyncInv, RowsBound, SyncTypeOK
<1> QED
  BY <1>2, <1>3, <1>4, <1>5, <1>6, <1>7

\* Whatever is lost or overlaps, browser and backend hold what their types say, and at most
\* two sessions are made; reading a session and writing it back are two steps
\* (answer-sync.ts, local-store.ts, sessions.py 68-140 and 328-366).
THEOREM SyncTyped == SyncSpec => []SyncInv
<1>1. SyncInv /\ [SyncNext]_syncVars => SyncInv'
  <2> SUFFICES ASSUME SyncInv, [SyncNext]_syncVars PROVE SyncInv'
    OBVIOUS
  <2>1. CASE UNCHANGED syncVars
    BY <2>1 DEF syncVars, SyncInv, RowsBound, SyncTypeOK
  <2>2. CASE SyncNext
    BY <2>2, SessionSteps, BrowserSteps, FlushSteps DEF SyncNext
  <2> QED
    BY <2>1, <2>2
<1> QED
  BY SyncInitInv, <1>1, PTL DEF SyncSpec

-----------------------------------------------------------------------------
(* What is marked synced is kept by the backend, or was overwritten there.   *)

\* What is left of an answer that the backend once had.
Had(q) == Kept(q) \/ q \in overwritten

\* What a sync has read the backend had.
SeenWasHad ==
    \A f \in Flushes : flush[f].stage = "read" =>
        \A q \in WebQuestions : flush[f].seen[q] # Unanswered => Had(q)

\* A reply is on its way for answers that the backend had.
RepliedIsHad == \A f \in Flushes : flush[f].stage = "replied" => \A q \in Carried(f) : Had(q)

KeptInv == SeenWasHad /\ RepliedIsHad /\ MarkedIsKept

\* The session after a sync that wrote has what was merged; what it undid is overwritten.
LEMMA CommitHas ==
  ASSUME SyncInv, NEW f \in Flushes, CommitSync(f), NEW q \in WebQuestions
  PROVE  /\ q \in Carried(f) => Had(q)' \/ (Merged(f) = flush[f].seen /\ UNCHANGED <<rows, overwritten>>)
         /\ Had(q) => Had(q)'
<1>1. CASE UNCHANGED <<rows, overwritten>> /\ Merged(f) = flush[f].seen
  BY <1>1 DEF Had, Kept
<1>2. ASSUME NEW s \in rows, rows' = (rows \ {s}) \cup {[s EXCEPT !.answers = Merged(f)]},
             overwritten' = (overwritten \ Carried(f)) \cup Undone(s, f)
      PROVE  (q \in Carried(f) => Had(q)') /\ (Had(q) => Had(q)')
  <2>1. [s EXCEPT !.answers = Merged(f)] \in rows' /\ [s EXCEPT !.answers = Merged(f)].answers = Merged(f)
    BY <1>2 DEF SyncInv, SyncTypeOK, SessionRows
  <2>2. Merged(f)[q] = IF q \in Carried(f) THEN flush[f].pending[q] ELSE flush[f].seen[q]
    BY DEF Merged
  <2>3. Merged(f)[q] # Unanswered => Had(q)'
    BY <2>1 DEF Had, Kept
  <2>4. q \in Carried(f) => Had(q)'
    BY <2>2, <2>3 DEF Carried
  <2>5. ASSUME q \notin Carried(f), Had(q) PROVE Had(q)'
    <3>1. CASE q \in overwritten
      BY <1>2, <2>5, <3>1 DEF Had
    <3>2. CASE \E t \in rows \ {s} : t.answers[q] # Unanswered
      BY <1>2, <3>2 DEF Had, Kept
    <3>3. CASE s.answers[q] # Unanswered
      <4>1. CASE flush[f].seen[q] = s.answers[q]
        BY <2>2, <2>3, <2>5, <3>3, <4>1
      <4>2. CASE flush[f].seen[q] # s.answers[q]
        BY <1>2, <2>5, <4>2 DEF Undone, Had
      <4> QED
        BY <4>1, <4>2
    <3> QED
      BY <2>5, <3>1, <3>2, <3>3 DEF Had, Kept
  <2> QED
    BY <2>4, <2>5
<1> QED
  BY <1>1, <1>2 DEF CommitSync

\* What the backend once had it keeps, or a late sync overwrites it.
LEMMA HadStays ==
  ASSUME SyncInv, [SyncNext]_syncVars, NEW q \in WebQuestions, Had(q)
  PROVE  Had(q)'
<1>1. CASE rows \subseteq rows' /\ overwritten' = overwritten
  BY <1>1 DEF Had, Kept
<1>2. ASSUME NEW t \in rows, FinalSubmission(t) PROVE Had(q)'
  <2>1. [t EXCEPT !.submitted = TRUE, !.hashed = t.answers].answers = t.answers
    BY DEF SyncInv, SyncTypeOK, SessionRows
  <2> QED
    BY <1>2, <2>1 DEF FinalSubmission, Had, Kept
<1>3. ASSUME NEW f \in Flushes, CommitSync(f) PROVE Had(q)'
  BY <1>3, CommitHas
<1>4. CASE UNCHANGED syncVars
  BY <1>1, <1>4 DEF syncVars
<1>5. CASE \/ PrePositionPaper \/ UnlockExamPaper \/ BeginSession \/ InsertSession \/ ReloadBrowser
           \/ \E p \in WebQuestions : RecordAnswer(p)
           \/ \E f \in Flushes : BeginFlush(f) \/ RefuseSync(f) \/ ReadSync(f) \/ MarkSynced(f)
                                   \/ FlushFails(f)
  BY <1>1, <1>5 DEF PrePositionPaper, UnlockExamPaper, BeginSession, InsertSession, ReloadBrowser,
                    RecordAnswer, BeginFlush, RefuseSync, ReadSync, MarkSynced, FlushFails,
                    backendVars
<1>6. CASE \E t \in rows : FinalSubmission(t)
  BY <1>2, <1>6
<1>7. CASE \E f \in Flushes : CommitSync(f)
  BY <1>3, <1>7
<1> QED
  BY <1>4, <1>5, <1>6, <1>7 DEF SyncNext

\* How a step leaves one flush: as it was but for its page, or at another stage.
LEMMA FlushAfter ==
  ASSUME SyncInv, [SyncNext]_syncVars, NEW f \in Flushes
  PROVE  \/ /\ flush'[f].stage = flush[f].stage
            /\ flush'[f].pending = flush[f].pending /\ flush'[f].seen = flush[f].seen
         \/ flush'[f].stage \notin {"read", "replied"}
         \/ ReadSync(f)
         \/ CommitSync(f) /\ flush' = [flush EXCEPT ![f] = Replied(f)]
<1> DEFINE Same == /\ flush'[f].stage = flush[f].stage
                   /\ flush'[f].pending = flush[f].pending /\ flush'[f].seen = flush[f].seen
<1>1. NoFlush.stage = "idle"
  BY DEF NoFlush
<1>2. /\ [flush[f] EXCEPT !.waits = FALSE].stage = flush[f].stage
      /\ [flush[f] EXCEPT !.waits = FALSE].pending = flush[f].pending
      /\ [flush[f] EXCEPT !.waits = FALSE].seen = flush[f].seen
  BY DEF SyncInv, SyncTypeOK, Uploads
<1>3. CASE flush' = flush
  BY <1>3
<1>4. CASE ReloadBrowser
  BY <1>1, <1>2, <1>4 DEF ReloadBrowser
<1>5. ASSUME NEW g \in Flushes, g # f,
             \/ BeginFlush(g) \/ RefuseSync(g) \/ ReadSync(g) \/ CommitSync(g)
             \/ MarkSynced(g) \/ FlushFails(g)
      PROVE  flush'[f] = flush[f]
  <2>1. CASE BeginFlush(g) \/ RefuseSync(g) \/ MarkSynced(g) \/ FlushFails(g)
    BY <1>5, <2>1 DEF BeginFlush, RefuseSync, MarkSynced, FlushFails, SyncInv, SyncTypeOK
  <2>2. CASE ReadSync(g) \/ CommitSync(g)
    BY <1>5, <2>2 DEF ReadSync, CommitSync, SyncInv, SyncTypeOK
  <2> QED
    BY <1>5, <2>1, <2>2
<1>6. CASE BeginFlush(f)
  <2>1. [NoFlush EXCEPT !.stage = "sent", !.waits = TRUE, !.pending = Batch].stage = "sent"
    BY DEF NoFlush
  <2> QED
    BY <1>6, <2>1 DEF BeginFlush, SyncInv, SyncTypeOK
<1>7. CASE RefuseSync(f) \/ MarkSynced(f)
  BY <1>1, <1>7 DEF RefuseSync, MarkSynced, SyncInv, SyncTypeOK
<1>8. CASE FlushFails(f)
  BY <1>1, <1>2, <1>8 DEF FlushFails, SyncInv, SyncTypeOK
<1>9. CASE CommitSync(f)
  BY <1>1, <1>9 DEF CommitSync, SyncInv, SyncTypeOK
<1>10. CASE \/ PrePositionPaper \/ UnlockExamPaper \/ BeginSession \/ InsertSession
            \/ (\E s \in rows : FinalSubmission(s)) \/ UNCHANGED syncVars
            \/ \E p \in WebQuestions : RecordAnswer(p)
  BY <1>3, <1>10 DEF PrePositionPaper, UnlockExamPaper, BeginSession, InsertSession,
                     FinalSubmission, RecordAnswer, browserVars, syncVars
<1>11. ASSUME NEW g \in Flushes,
              \/ BeginFlush(g) \/ RefuseSync(g) \/ ReadSync(g) \/ CommitSync(g)
              \/ MarkSynced(g) \/ FlushFails(g)
       PROVE  \/ flush'[f] = flush[f]
              \/ BeginFlush(f) \/ RefuseSync(f) \/ ReadSync(f) \/ CommitSync(f)
              \/ MarkSynced(f) \/ FlushFails(f)
  BY <1>5, <1>11
<1> HIDE DEF Same
<1>12. CASE flush'[f] = flush[f]
  BY <1>12
<1> QED
  BY <1>4, <1>6, <1>7, <1>8, <1>9, <1>10, <1>11, <1>12 DEF SyncNext

\* A sync reads what is in the session, and what it read stays or is overwritten.
LEMMA SeenStep ==
  ASSUME SyncInv, KeptInv, [SyncNext]_syncVars
  PROVE  SeenWasHad'
<1> SUFFICES ASSUME NEW f \in Flushes, flush'[f].stage = "read",
                    NEW q \in WebQuestions, flush'[f].seen[q] # Unanswered
             PROVE  Had(q)'
  BY DEF SeenWasHad, Had, Kept
<1>1. CASE flush[f].stage = "read" /\ flush'[f].seen = flush[f].seen
  BY <1>1, HadStays DEF KeptInv, SeenWasHad
<1>2. CASE ReadSync(f)
  <2>1. PICK s \in rows : flush' = [flush EXCEPT ![f].stage = "read", ![f].id = s.id, ![f].seen = s.answers]
    BY <1>2 DEF ReadSync
  <2>2. flush'[f].seen = s.answers
    BY <2>1 DEF SyncInv, SyncTypeOK, Uploads
  <2> QED
    BY <2>2, HadStays DEF Had, Kept
<1>3. CASE flush' = [flush EXCEPT ![f] = Replied(f)]
  BY <1>3, RepliedType DEF SyncInv, SyncTypeOK
<1> QED
  BY <1>1, <1>2, <1>3, FlushAfter

\* A flush gets its reply from the step that merged what it carries; where nothing was
\* written, it carried what it had read.
LEMMA RepliedStep ==
  ASSUME SyncInv, KeptInv, [SyncNext]_syncVars
  PROVE  RepliedIsHad'
<1> SUFFICES ASSUME NEW f \in Flushes, flush'[f].stage = "replied",
                    NEW q \in WebQuestions, flush'[f].pending[q] # Unanswered
             PROVE  Had(q)'
  BY DEF RepliedIsHad, Carried, Had, Kept
<1>1. CASE flush[f].stage = "replied" /\ flush'[f].pending = flush[f].pending
  BY <1>1, HadStays DEF KeptInv, RepliedIsHad, Carried
<1>2. CASE ReadSync(f)
  BY <1>2 DEF ReadSync, SyncInv, SyncTypeOK, Uploads
<1>3. CASE CommitSync(f) /\ flush' = [flush EXCEPT ![f] = Replied(f)]
  <2>1. q \in Carried(f)
    BY <1>3, RepliedType DEF SyncInv, SyncTypeOK, Carried
  <2>2. CASE Merged(f) = flush[f].seen
    <3>1. Merged(f)[q] = flush[f].pending[q]
      BY <2>1 DEF Merged
    <3>2. flush[f].seen[q] # Unanswered /\ flush[f].stage = "read"
      BY <1>3, <2>1, <2>2, <3>1 DEF Carried, CommitSync
    <3> QED
      BY <3>2, HadStays DEF KeptInv, SeenWasHad
  <2>3. CASE Merged(f) # flush[f].seen
    BY <1>3, <2>1, <2>3, CommitHas
  <2> QED
    BY <2>2, <2>3
<1> QED
  BY <1>1, <1>2, <1>3, FlushAfter

\* A record gets its mark from a flush that was replied to.
LEMMA MarkedStep ==
  ASSUME SyncInv, KeptInv, [SyncNext]_syncVars
  PROVE  MarkedIsKept'
<1> SUFFICES ASSUME NEW q \in WebQuestions, store'[q].synced PROVE Had(q)'
  BY DEF MarkedIsKept, Had, Kept
<1>1. CASE store[q].synced
  BY <1>1, HadStays DEF KeptInv, MarkedIsKept, Had
<1>2. ASSUME NEW f \in Flushes, MarkSynced(f) PROVE Had(q)'
  <2>1. CASE q \in Carried(f)
    BY <1>2, <2>1, HadStays DEF MarkSynced, MayMark, KeptInv, RepliedIsHad
  <2>2. CASE q \notin Carried(f)
    BY <1>1, <1>2, <2>2 DEF MarkSynced
  <2> QED
    BY <2>1, <2>2
<1>3. ASSUME NEW p \in WebQuestions, RecordAnswer(p) PROVE Had(q)'
  BY <1>1, <1>3 DEF RecordAnswer, SyncInv, SyncTypeOK
<1>4. CASE store' = store
  BY <1>1, <1>4
<1>5. CASE \/ PrePositionPaper \/ UnlockExamPaper \/ BeginSession \/ InsertSession \/ ReloadBrowser
           \/ (\E s \in rows : FinalSubmission(s)) \/ UNCHANGED syncVars
           \/ \E f \in Flushes : BeginFlush(f) \/ RefuseSync(f) \/ ReadSync(f) \/ CommitSync(f)
                                   \/ FlushFails(f)
  BY <1>4, <1>5 DEF syncVars, PrePositionPaper, UnlockExamPaper, BeginSession, InsertSession,
     ReloadBrowser, FinalSubmission, BeginFlush, RefuseSync, ReadSync, CommitSync, FlushFails,
     browserVars
<1> QED
  BY <1>2, <1>3, <1>5 DEF SyncNext

\* A question marked synced in IndexedDB has an answer in the backend's session, or lost it
\* there to a sync that had read the session before the answer came and wrote it back after:
\* replies that are lost, syncs between whose read and write others come, and sessions that
\* are closed or doubled included (answer-sync.ts 63-87, local-store.ts 75-87, sessions.py
\* 328-366).
THEOREM MarkedAlwaysKept == SyncSpec => []MarkedIsKept
<1>1. SyncInit => KeptInv
  BY DEF SyncInit, KeptInv, SeenWasHad, RepliedIsHad, MarkedIsKept, NoFlush
<1>2. SyncInv /\ KeptInv /\ [SyncNext]_syncVars => KeptInv'
  BY SeenStep, RepliedStep, MarkedStep DEF KeptInv
<1>3. KeptInv => MarkedIsKept
  BY DEF KeptInv
<1> QED
  BY <1>1, <1>2, <1>3, SyncTyped, PTL DEF SyncSpec
=============================================================================
