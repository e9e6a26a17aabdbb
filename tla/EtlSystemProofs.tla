-------------------------- MODULE EtlSystemProofs --------------------------
(***************************************************************************)
(* Proofs about the two modes over one database (EtlSystem): what the row  *)
(* locks of daily_summaries give them.                                     *)
(*                                                                         *)
(* The inductive invariant says of each worker that it holds a lock only   *)
(* within a transaction that can still commit, that it has taken its days  *)
(* in order, and that it holds the lock of every day it has written, whose *)
(* open price it has from the committed row, if there is one.              *)
(***************************************************************************)
EXTENDS EtlSystem, TLAPS

\* What the consumer task has locked, it may still write, and it has locked
\* the days before those it still waits for.
KafkaLocks ==
  /\ kaborted => kpc = "except"
  /\ \A k \in Keys : locks[k] = "kafka" =>
       /\ KafkaOpen
       /\ kpc = "summaries" => \A j \in K!Touched : locks[j] # "kafka" => k < j

\* So has the file job.
FileLocks ==
  /\ faborted => fpc \in {"except", "finally"}
  /\ \A k \in Keys : locks[k] = "file" =>
       /\ FileOpen
       /\ fpc = "summaries" => \A j \in F!Touched : locks[j] # "file" => k < j

\* A transaction that can commit has locked the days it has written, and has
\* read their open prices.
KafkaWrites ==
  /\ "summaries" \in DOMAIN ktx
  /\ \A k \in Keys : ktx.summaries[k] # NoRow /\ ~ kaborted =>
       /\ locks[k] = "kafka"
       /\ summaries[k] # NoRow => ktx.summaries[k].open = summaries[k].open

FileWrites ==
  /\ "summaries" \in DOMAIN ftx
  /\ \A k \in Keys : ftx.summaries[k] # NoRow /\ ~ faborted =>
       /\ locks[k] = "file"
       /\ summaries[k] # NoRow => ftx.summaries[k].open = summaries[k].open

LockInv ==
  /\ locks \in [Keys -> {"kafka", "file", "none"}]
  /\ DOMAIN summaries = Keys
  /\ KafkaLocks
  /\ FileLocks
  /\ KafkaWrites
  /\ FileWrites

-----------------------------------------------------------------------------
(* What a step of the consumer task does to the summaries.                 *)

\* No summary is written or dropped, and an open transaction stays open.
KafkaKeeps ==
  /\ UNCHANGED summaries
  /\ "summaries" \in DOMAIN ktx'
  /\ \A k \in Keys : ktx'.summaries[k] = ktx.summaries[k]
  /\ kaborted => kaborted'
  /\ KafkaOpen /\ ~ kaborted' => KafkaOpen'

\* The transaction ends.
KafkaEnds ==
  /\ "summaries" \in DOMAIN ktx'
  /\ \A k \in Keys : ktx'.summaries[k] = NoRow

KafkaCommits ==
  /\ ~ kaborted
  /\ summaries' = [k \in DOMAIN summaries |->
                     IF ktx.summaries[k] # NoRow THEN ktx.summaries[k] ELSE summaries[k]]
  /\ KafkaEnds

\* The days of the batch are written, each with the open price it has.
KafkaUpserts ==
  /\ kpc = "summaries" /\ kpc' = "saverun"
  /\ UNCHANGED <<summaries, kaborted>>
  /\ "summaries" \in DOMAIN ktx'
  /\ \A k \in Keys \ K!Touched : ktx'.summaries[k] = ktx.summaries[k]
  /\ \A k \in K!Touched :
       \/ ktx.summaries[k] = NoRow /\ summaries[k] = NoRow
       \/ ktx'.summaries[k].open =
            IF ktx.summaries[k] # NoRow THEN ktx.summaries[k].open ELSE summaries[k].open

KafkaEffect ==
  \/ KafkaKeeps
  \/ UNCHANGED summaries /\ KafkaEnds
  \/ KafkaCommits
  \/ KafkaUpserts

\* The state of a stage that raises, and where the upsert's turn comes.
KafkaStages ==
  /\ kaborted' => kpc' = "except"
  /\ kpc' = "summaries" => ~ KafkaOpen \/ UNCHANGED <<kpc, kbatch>>

\* A step of _process_batch in Kafka mode.
LEMMA KafkaProcessStep ==
  ASSUME K!Process, KafkaLocks, "summaries" \in DOMAIN ktx, DOMAIN summaries = Keys
  PROVE  KafkaEffect /\ KafkaStages
<1> USE DEF KafkaStages
<1>0. kpc # "except" /\ ~ kaborted
  BY DEF K!Process, K!Stages, KafkaLocks
<1> DEFINE Quiet == /\ UNCHANGED summaries
                    /\ "summaries" \in DOMAIN ktx'
                    /\ \A k \in Keys : ktx'.summaries[k] = ktx.summaries[k]
<1>1. ASSUME Quiet, KafkaOpen /\ ~ kaborted' => KafkaOpen' PROVE KafkaEffect
  BY <1>1, <1>0 DEF KafkaEffect, KafkaKeeps
<1>2. CASE K!Clean(TRUE) \/ K!CleanRaises \/ K!SendToDlt \/ K!SendToDltFails \/ K!DltDone
           \/ K!Normalize \/ K!RecordsDone
  <2>1. Quiet
    BY <1>2 DEF K!Clean, K!CleanRaises, K!SendToDlt, K!SendToDltFails, K!DltDone,
                K!Normalize, K!RecordsDone, K!store
  <2>2. ~ KafkaOpen
    BY <1>2 DEF K!Clean, K!CleanRaises, K!SendToDlt, K!SendToDltFails, K!DltDone,
                K!Normalize, K!RecordsDone, KafkaOpen
  <2>3. ~ kaborted'
    BY <1>2, <1>0 DEF K!Clean, K!CleanRaises, K!SendToDlt, K!SendToDltFails, K!DltDone,
                K!Normalize, K!RecordsDone
  <2> QED
    BY <1>1, <2>1, <2>2, <2>3
<1>3. CASE K!SaveValidationErrorsFails \/ K!NormalizeRaises \/ K!InsertChunkFails
           \/ K!UpsertDailySummariesFails \/ K!SavePipelineRunFails
  <2>1. PICK b \in BOOLEAN : K!Raise(b)
    BY <1>3 DEF K!SaveValidationErrorsFails, K!NormalizeRaises, K!InsertChunkFails,
                K!UpsertDailySummariesFails, K!SavePipelineRunFails, K!DbFails
  <2>2. Quiet /\ kpc' = "except"
    BY <2>1 DEF K!Raise, K!store
  <2> QED
    BY <1>1, <2>2 DEF KafkaOpen
<1>4. CASE K!SaveValidationErrors \/ K!InsertChunk \/ K!SavePipelineRun
  <2>1. /\ UNCHANGED summaries
        /\ kaborted' = kaborted
        /\ kpc' # "summaries"
        /\ KafkaOpen => kpc' = "commit"
    BY <1>4 DEF K!SaveValidationErrors, K!InsertChunk, K!SavePipelineRun, K!store, KafkaOpen
  <2>2. "summaries" \in DOMAIN ktx' /\ ktx'.summaries = ktx.summaries
    <3>1. CASE K!SaveValidationErrors
      BY <3>1 DEF K!SaveValidationErrors, K!SaveErrors
    <3>2. CASE K!InsertChunk
      BY <3>2 DEF K!InsertChunk, K!InsertRecords
    <3>3. CASE K!SavePipelineRun
      BY <3>3 DEF K!SavePipelineRun, K!SaveRun
    <3> QED
      BY <1>4, <3>1, <3>2, <3>3
  <2> QED
    BY <1>0, <1>1, <2>1, <2>2 DEF KafkaOpen
<1>5. CASE K!UpsertDailySummaries
  <2>1. PICK first \in [K!Touched -> DOMAIN kbatch] :
          ktx' = K!UpsertSummaries(ktx, [k \in K!Touched |-> K!Summary(k, first[k])])
    BY <1>5 DEF K!UpsertDailySummaries
  <2>2. kpc = "summaries" /\ kpc' = "saverun" /\ UNCHANGED <<summaries, kaborted>>
    BY <1>5 DEF K!UpsertDailySummaries, K!store
  <2> DEFINE new == [k \in K!Touched |-> K!Summary(k, first[k])]
  <2>3. /\ "summaries" \in DOMAIN ktx'
        /\ \A k \in Keys : ktx'.summaries[k] =
             IF k \notin K!Touched THEN ktx.summaries[k]
             ELSE LET old == IF ktx.summaries[k] # NoRow THEN ktx.summaries[k] ELSE summaries[k]
                  IN  IF old = NoRow THEN new[k] ELSE [new[k] EXCEPT !.open = old.open]
    BY <2>1 DEF K!UpsertSummaries, K!Overlay
  <2>4. \A k \in K!Touched : k \in Keys /\ "open" \in DOMAIN new[k]
    BY DEF K!Touched, K!Summary
  <2>5. \A k \in K!Touched :
          \/ ktx.summaries[k] = NoRow /\ summaries[k] = NoRow
          \/ ktx'.summaries[k].open =
               IF ktx.summaries[k] # NoRow THEN ktx.summaries[k].open ELSE summaries[k].open
    <3> HIDE DEF new
    <3> QED
      BY <2>3, <2>4
  <2>6. \A k \in Keys \ K!Touched : ktx'.summaries[k] = ktx.summaries[k]
    BY <2>3
  <2> QED
    BY <1>0, <2>2, <2>3, <2>5, <2>6 DEF KafkaEffect, KafkaUpserts
<1>6. CASE K!Commit \/ K!CommitFails
  <2>1. KafkaEnds
    BY <1>6 DEF K!Commit, K!CommitFails, K!EmptyTx, KafkaEnds
  <2>2. \/ UNCHANGED summaries
        \/ summaries' = K!Overlay(ktx.summaries, summaries)
    BY <1>6 DEF K!Commit, K!CommitFails, K!CommitTx, K!store
  <2>3. kpc' # "summaries" /\ (kaborted' => kpc' = "except")
    BY <1>6, <1>0 DEF K!Commit, K!CommitFails
  <2> QED
    BY <1>0, <2>1, <2>2, <2>3 DEF KafkaEffect, KafkaCommits, K!Overlay
<1> QED
  BY <1>2, <1>3, <1>4, <1>5, <1>6 DEF K!Process, K!ProcessStep


\* Every step of the consumer task, and its end.
LEMMA KafkaStep ==
  ASSUME K!Consume, KafkaLocks, "summaries" \in DOMAIN ktx, DOMAIN summaries = Keys
  PROVE  KafkaEffect /\ KafkaStages
<1> USE DEF KafkaStages
<1>1. CASE K!Start \/ K!StartFails \/ K!GetOne \/ K!GetOneFails \/ K!GetMany
           \/ K!DecodeRaises \/ K!Complete \/ K!Ack \/ K!AckFails
  <2>1. /\ UNCHANGED <<summaries, ktx, kaborted>>
        /\ kpc # "except" /\ kpc' # "summaries" /\ ~ KafkaOpen
    BY <1>1 DEF K!Start, K!StartFails, K!GetOne, K!GetOneFails, K!GetMany,
                K!DecodeRaises, K!Complete, K!Ack, K!AckFails, K!store, KafkaOpen
  <2> QED
    BY <2>1 DEF KafkaEffect, KafkaKeeps, KafkaLocks
<1>2. CASE K!Process
  BY <1>2, KafkaProcessStep
<1>3. CASE K!SaveCompleted
  <2>1. /\ UNCHANGED <<summaries, kaborted>>
        /\ kpc # "except" /\ kpc' # "summaries" /\ ~ KafkaOpen
        /\ "summaries" \in DOMAIN ktx' /\ ktx'.summaries = ktx.summaries
    BY <1>3 DEF K!SaveCompleted, K!SaveRun, K!store, KafkaOpen
  <2> QED
    BY <2>1 DEF KafkaEffect, KafkaKeeps, KafkaLocks
<1>4. CASE K!CommitCompleted \/ K!CompletionFails \/ K!HandleFailure
  <2>1. KafkaEnds
    BY <1>4 DEF K!CommitCompleted, K!CompletionFails, K!HandleFailure, K!EmptyTx, KafkaEnds
  <2>2. \/ UNCHANGED summaries
        \/ ~ kaborted /\ summaries' = K!Overlay(ktx.summaries, summaries)
    BY <1>4 DEF K!CommitCompleted, K!CompletionFails, K!HandleFailure, K!CommitTx, K!store,
                KafkaLocks
  <2>3. kpc' # "summaries" /\ (kaborted' => kpc' = "except")
    BY <1>4 DEF K!CommitCompleted, K!CompletionFails, K!HandleFailure, KafkaLocks
  <2> QED
    BY <2>1, <2>2, <2>3 DEF KafkaEffect, KafkaCommits, K!Overlay
<1> QED
  BY <1>1, <1>2, <1>3, <1>4 DEF K!Consume

\* A restart ends the transaction.
LEMMA KafkaCrashStep ==
  ASSUME K!Crash
  PROVE  /\ KafkaEnds /\ UNCHANGED summaries
         /\ ~ kaborted' /\ kpc' = "stopped" /\ ~ KafkaOpen'
BY DEF K!Crash, K!EmptyTx, K!store, KafkaEnds, KafkaOpen


-----------------------------------------------------------------------------
(* What a step of the file job does to the summaries: the same.            *)

FileKeeps ==
  /\ UNCHANGED summaries
  /\ "summaries" \in DOMAIN ftx'
  /\ \A k \in Keys : ftx'.summaries[k] = ftx.summaries[k]
  /\ faborted => faborted'
  /\ FileOpen /\ ~ faborted' => FileOpen'

FileEnds ==
  /\ "summaries" \in DOMAIN ftx'
  /\ \A k \in Keys : ftx'.summaries[k] = NoRow

FileCommits ==
  /\ ~ faborted
  /\ summaries' = [k \in DOMAIN summaries |->
                     IF ftx.summaries[k] # NoRow THEN ftx.summaries[k] ELSE summaries[k]]
  /\ FileEnds

FileUpserts ==
  /\ fpc = "summaries" /\ fpc' = "saverun"
  /\ UNCHANGED <<summaries, faborted>>
  /\ "summaries" \in DOMAIN ftx'
  /\ \A k \in Keys \ F!Touched : ftx'.summaries[k] = ftx.summaries[k]
  /\ \A k \in F!Touched :
       \/ ftx.summaries[k] = NoRow /\ summaries[k] = NoRow
       \/ ftx'.summaries[k].open =
            IF ftx.summaries[k] # NoRow THEN ftx.summaries[k].open ELSE summaries[k].open

FileEffect ==
  \/ FileKeeps
  \/ UNCHANGED summaries /\ FileEnds
  \/ FileCommits
  \/ FileUpserts

FileStages ==
  /\ faborted' => fpc' \in {"except", "finally"}
  /\ fpc' = "summaries" => ~ FileOpen \/ UNCHANGED <<fpc, fbatch>>

\* A step of _process_batch in file mode.
LEMMA FileProcessStep ==
  ASSUME F!Process, FileLocks, "summaries" \in DOMAIN ftx, DOMAIN summaries = Keys
  PROVE  FileEffect /\ FileStages
<1> USE DEF FileStages
<1>0. fpc \notin {"except", "finally"} /\ ~ faborted
  BY DEF F!Process, F!Stages, FileLocks
<1> DEFINE Quiet == /\ UNCHANGED summaries
                    /\ "summaries" \in DOMAIN ftx'
                    /\ \A k \in Keys : ftx'.summaries[k] = ftx.summaries[k]
<1>1. ASSUME Quiet, FileOpen /\ ~ faborted' => FileOpen' PROVE FileEffect
  BY <1>1, <1>0 DEF FileEffect, FileKeeps
<1>2. CASE F!Clean(FALSE) \/ F!CleanRaises \/ F!SendToDlt \/ F!SendToDltFails \/ F!DltDone
           \/ F!Normalize \/ F!RecordsDone
  <2>1. Quiet
    BY <1>2 DEF F!Clean, F!CleanRaises, F!SendToDlt, F!SendToDltFails, F!DltDone,
                F!Normalize, F!RecordsDone, F!store
  <2>2. ~ FileOpen
    BY <1>2 DEF F!Clean, F!CleanRaises, F!SendToDlt, F!SendToDltFails, F!DltDone,
                F!Normalize, F!RecordsDone, FileOpen
  <2>3. ~ faborted'
    BY <1>2, <1>0 DEF F!Clean, F!CleanRaises, F!SendToDlt, F!SendToDltFails, F!DltDone,
                F!Normalize, F!RecordsDone
  <2> QED
    BY <1>1, <2>1, <2>2, <2>3
<1>3. CASE F!SaveValidationErrorsFails \/ F!NormalizeRaises \/ F!InsertChunkFails
           \/ F!UpsertDailySummariesFails \/ F!SavePipelineRunFails
  <2>1. PICK b \in BOOLEAN : F!Raise(b)
    BY <1>3 DEF F!SaveValidationErrorsFails, F!NormalizeRaises, F!InsertChunkFails,
                F!UpsertDailySummariesFails, F!SavePipelineRunFails, F!DbFails
  <2>2. Quiet /\ fpc' = "except"
    BY <2>1 DEF F!Raise, F!store
  <2> QED
    BY <1>1, <2>2 DEF FileOpen
<1>4. CASE F!SaveValidationErrors \/ F!InsertChunk \/ F!SavePipelineRun
  <2>1. /\ UNCHANGED summaries
        /\ faborted' = faborted
        /\ fpc' # "summaries"
        /\ FileOpen => fpc' = "commit"
    BY <1>4 DEF F!SaveValidationErrors, F!InsertChunk, F!SavePipelineRun, F!store, FileOpen
  <2>2. "summaries" \in DOMAIN ftx' /\ ftx'.summaries = ftx.summaries
    <3>1. CASE F!SaveValidationErrors
      BY <3>1 DEF F!SaveValidationErrors, F!SaveErrors
    <3>2. CASE F!InsertChunk
      BY <3>2 DEF F!InsertChunk, F!InsertRecords
    <3>3. CASE F!SavePipelineRun
      BY <3>3 DEF F!SavePipelineRun, F!SaveRun
    <3> QED
      BY <1>4, <3>1, <3>2, <3>3
  <2> QED
    BY <1>0, <1>1, <2>1, <2>2 DEF FileOpen
<1>5. CASE F!UpsertDailySummaries
  <2>1. PICK first \in [F!Touched -> DOMAIN fbatch] :
          ftx' = F!UpsertSummaries(ftx, [k \in F!Touched |-> F!Summary(k, first[k])])
    BY <1>5 DEF F!UpsertDailySummaries
  <2>2. fpc = "summaries" /\ fpc' = "saverun" /\ UNCHANGED <<summaries, faborted>>
    BY <1>5 DEF F!UpsertDailySummaries, F!store
  <2> DEFINE new == [k \in F!Touched |-> F!Summary(k, first[k])]
  <2>3. /\ "summaries" \in DOMAIN ftx'
        /\ \A k \in Keys : ftx'.summaries[k] =
             IF k \notin F!Touched THEN ftx.summaries[k]
             ELSE LET old == IF ftx.summaries[k] # NoRow THEN ftx.summaries[k] ELSE summaries[k]
                  IN  IF old = NoRow THEN new[k] ELSE [new[k] EXCEPT !.open = old.open]
    BY <2>1 DEF F!UpsertSummaries, F!Overlay
  <2>4. \A k \in F!Touched : k \in Keys /\ "open" \in DOMAIN new[k]
    BY DEF F!Touched, F!Summary
  <2>5. \A k \in F!Touched :
          \/ ftx.summaries[k] = NoRow /\ summaries[k] = NoRow
          \/ ftx'.summaries[k].open =
               IF ftx.summaries[k] # NoRow THEN ftx.summaries[k].open ELSE summaries[k].open
    <3> HIDE DEF new
    <3> QED
      BY <2>3, <2>4
  <2>6. \A k \in Keys \ F!Touched : ftx'.summaries[k] = ftx.summaries[k]
    BY <2>3
  <2> QED
    BY <1>0, <2>2, <2>3, <2>5, <2>6 DEF FileEffect, FileUpserts
<1>6. CASE F!Commit \/ F!CommitFails
  <2>1. FileEnds
    BY <1>6 DEF F!Commit, F!CommitFails, F!EmptyTx, FileEnds
  <2>2. \/ UNCHANGED summaries
        \/ summaries' = F!Overlay(ftx.summaries, summaries)
    BY <1>6 DEF F!Commit, F!CommitFails, F!CommitTx, F!store
  <2>3. fpc' # "summaries" /\ (faborted' => fpc' = "except")
    BY <1>6, <1>0 DEF F!Commit, F!CommitFails
  <2> QED
    BY <1>0, <2>1, <2>2, <2>3 DEF FileEffect, FileCommits, F!Overlay
<1> QED
  BY <1>2, <1>3, <1>4, <1>5, <1>6 DEF F!Process, F!ProcessStep

\* Every step of the file job.
LEMMA FileStep ==
  ASSUME F!Work, FileLocks, "summaries" \in DOMAIN ftx, DOMAIN summaries = Keys
  PROVE  FileEffect /\ FileStages
<1> USE DEF FileStages
<1>1. CASE F!Scan \/ F!ScanDone \/ F!Archive \/ F!ArchiveFails
           \/ F!MoveToErrors \/ F!MoveToErrorsFails \/ F!Complete
  <2>1. /\ UNCHANGED <<summaries, ftx, faborted>>
        /\ fpc \notin {"except", "finally"} /\ fpc' # "summaries" /\ ~ FileOpen
    BY <1>1 DEF F!Scan, F!ScanDone, F!Archive, F!ArchiveFails, F!MoveToErrors,
                F!MoveToErrorsFails, F!Complete, F!store, FileOpen
  <2> QED
    BY <2>1 DEF FileEffect, FileKeeps, FileLocks
<1>2. CASE F!ReadFile \/ F!ReadFileFails
  <2>1. \E n \in pending : F!TakeUp(n)
    BY <1>2 DEF F!ReadFile, F!ReadFileFails
  <2>2. /\ UNCHANGED <<summaries, ftx, faborted>>
        /\ fpc \notin {"except", "finally"} /\ ~ FileOpen
    BY <2>1 DEF F!TakeUp, FileOpen
  <2>3. fpc' # "summaries"
    BY <1>2 DEF F!ReadFile, F!ReadFileFails
  <2> QED
    BY <2>2, <2>3 DEF FileEffect, FileKeeps, FileLocks
<1>3. CASE F!Process
  BY <1>3, FileProcessStep
<1>4. CASE F!HandleFailure \/ F!SaveOutcome
  <2>1. /\ UNCHANGED <<summaries, faborted>>
        /\ fpc' \in {"finally", "finalcommit"}
        /\ faborted' => fpc' = "finally"
        /\ "summaries" \in DOMAIN ftx' /\ ftx'.summaries = ftx.summaries
    BY <1>4 DEF F!HandleFailure, F!SaveOutcome, F!SaveRun, F!store
  <2> QED
    BY <2>1 DEF FileEffect, FileKeeps, FileOpen
<1>5. CASE F!CommitOutcome \/ F!OutcomeFails
  <2>1. FileEnds
    BY <1>5 DEF F!CommitOutcome, F!OutcomeFails, F!EmptyTx, FileEnds
  <2>2. \/ UNCHANGED summaries
        \/ ~ faborted /\ summaries' = F!Overlay(ftx.summaries, summaries)
    BY <1>5 DEF F!CommitOutcome, F!OutcomeFails, F!CommitTx, F!store, FileLocks
  <2>3. fpc' # "summaries" /\ ~ faborted'
    BY <1>5 DEF F!CommitOutcome, F!OutcomeFails, FileLocks
  <2> QED
    BY <2>1, <2>2, <2>3 DEF FileEffect, FileCommits, F!Overlay
<1> QED
  BY <1>1, <1>2, <1>3, <1>4, <1>5 DEF F!Work

\* A crash of the file job ends its transaction.
LEMMA FileCrashStep ==
  ASSUME F!Crash
  PROVE  /\ FileEnds /\ UNCHANGED summaries
         /\ ~ faborted' /\ fpc' = "idle" /\ ~ FileOpen'
BY DEF F!Crash, F!EmptyTx, F!store, FileEnds, FileOpen


-----------------------------------------------------------------------------
(* The locks.                                                              *)

\* A lock survives a step as long as its transaction is open.
LEMMA ReleaseKeepsOpen ==
  ASSUME LockInv, Release
  PROVE  /\ locks' \in [Keys -> {"kafka", "file", "none"}]
         /\ \A k \in Keys : locks'[k] = "kafka" <=> locks[k] = "kafka" /\ KafkaOpen'
         /\ \A k \in Keys : locks'[k] = "file" <=> locks[k] = "file" /\ FileOpen'
<1> DEFINE kept == KafkaOpen'
           stays == FileOpen'
<1>1. locks' = [k \in Keys |-> IF \/ locks[k] = "kafka" /\ ~ kept
                                  \/ locks[k] = "file" /\ ~ stays
                               THEN "none" ELSE locks[k]]
  BY DEF Release
<1>2. locks \in [Keys -> {"kafka", "file", "none"}]
  BY DEF LockInv
<1> HIDE DEF kept, stays
<1>3. /\ locks' \in [Keys -> {"kafka", "file", "none"}]
      /\ \A k \in Keys : locks'[k] = "kafka" <=> locks[k] = "kafka" /\ kept
      /\ \A k \in Keys : locks'[k] = "file" <=> locks[k] = "file" /\ stays
  BY <1>1, <1>2
<1> QED
  BY <1>3 DEF kept, stays

\* The days of a batch are the batch's.
LEMMA SameDays ==
  /\ kbatch' = kbatch => K!Touched' = K!Touched
  /\ fbatch' = fbatch => F!Touched' = F!Touched
<1>1. ASSUME kbatch' = kbatch PROVE K!Touched' = K!Touched
  <2>1. \A S : K!WithFate(S)' = K!WithFate(S)
    BY <1>1 DEF K!WithFate
  <2>2. \A S : K!Mixed(S)' <=> K!Mixed(S)
    BY <1>1 DEF K!Mixed
  <2>3. K!Floats' <=> K!Floats
    BY <1>1, <2>1, <2>2 DEF K!Floats, K!Parsed
  <2>4. K!Invalid' = K!Invalid
    BY <1>1, <2>1, <2>3 DEF K!Invalid, K!Parsed
  <2> QED
    BY <1>1, <2>1, <2>4 DEF K!Touched, K!Group, K!Valid
<1>2. ASSUME fbatch' = fbatch PROVE F!Touched' = F!Touched
  <2>1. \A S : F!WithFate(S)' = F!WithFate(S)
    BY <1>2 DEF F!WithFate
  <2>2. \A S : F!Mixed(S)' <=> F!Mixed(S)
    BY <1>2 DEF F!Mixed
  <2>3. F!Floats' <=> F!Floats
    BY <1>2, <2>1, <2>2 DEF F!Floats, F!Parsed
  <2>4. F!Invalid' = F!Invalid
    BY <1>2, <2>1, <2>3 DEF F!Invalid, F!Parsed
  <2> QED
    BY <1>2, <2>1, <2>4 DEF F!Touched, F!Group, F!Valid
<1> QED
  BY <1>1, <1>2

\* What the other worker does to days it has not locked leaves one's own.
LEMMA KafkaAside ==
  ASSUME LockInv, Release, UNCHANGED <<kpc, kbatch, ktx, kaborted>>,
         \A k \in Keys : locks[k] = "kafka" => summaries'[k] = summaries[k]
  PROVE  KafkaLocks' /\ KafkaWrites'
<1>1. KafkaOpen' <=> KafkaOpen
  BY DEF KafkaOpen
<1>2. \A k \in Keys : locks'[k] = "kafka" <=> locks[k] = "kafka"
  BY <1>1, ReleaseKeepsOpen DEF LockInv, KafkaLocks
<1>3. K!Touched' = K!Touched /\ K!Touched \subseteq Keys
  BY SameDays DEF K!Touched
<1>4. KafkaLocks'
  BY <1>1, <1>2, <1>3 DEF LockInv, KafkaLocks
<1>5. KafkaWrites'
  BY <1>2 DEF LockInv, KafkaWrites
<1> QED
  BY <1>4, <1>5

\* A step of the consumer task that touches none of its days leaves the file
\* job its locks and what it has written.
LEMMA FileAside ==
  ASSUME LockInv, Release, UNCHANGED <<fpc, fbatch, ftx, faborted>>,
         \A k \in Keys : locks[k] = "file" => summaries'[k] = summaries[k]
  PROVE  FileLocks' /\ FileWrites'
<1>1. FileOpen' <=> FileOpen
  BY DEF FileOpen
<1>2. \A k \in Keys : locks'[k] = "file" <=> locks[k] = "file"
  BY <1>1, ReleaseKeepsOpen DEF LockInv, FileLocks
<1>3. F!Touched' = F!Touched /\ F!Touched \subseteq Keys
  BY SameDays DEF F!Touched
<1>4. FileLocks'
  BY <1>1, <1>2, <1>3 DEF LockInv, FileLocks
<1>5. FileWrites'
  BY <1>2 DEF LockInv, FileWrites
<1> QED
  BY <1>4, <1>5

\* A worker whose transaction has ended holds nothing.
LEMMA KafkaOut ==
  ASSUME LockInv, Release, KafkaEnds, ~ kaborted', ~ KafkaOpen'
  PROVE  KafkaLocks' /\ KafkaWrites'
BY ReleaseKeepsOpen DEF KafkaEnds, KafkaLocks, KafkaWrites

\* A file job without a transaction holds and writes nothing.
LEMMA FileOut ==
  ASSUME LockInv, Release, FileEnds, ~ faborted', ~ FileOpen'
  PROVE  FileLocks' /\ FileWrites'
BY ReleaseKeepsOpen DEF FileEnds, FileLocks, FileWrites

\* The open prices a step leaves standing.
OpensStand ==
  \A k \in Keys : summaries[k] # NoRow =>
    summaries'[k] # NoRow /\ summaries'[k].open = summaries[k].open

\* A commit writes locked days only, with the open prices they have.
LEMMA KafkaCommitsItsDays ==
  ASSUME LockInv, KafkaEffect
  PROVE  /\ OpensStand
         /\ DOMAIN summaries' = Keys
         /\ \A k \in Keys : locks[k] # "kafka" => summaries'[k] = summaries[k]
<1>1. CASE UNCHANGED summaries
  BY <1>1 DEF LockInv, OpensStand
<1>2. CASE KafkaCommits
  BY <1>2 DEF LockInv, KafkaWrites, KafkaCommits, OpensStand
<1> QED
  BY <1>1, <1>2 DEF KafkaEffect, KafkaKeeps, KafkaUpserts

\* The file job changes the summaries of days it has locked only.
LEMMA FileCommitsItsDays ==
  ASSUME LockInv, FileEffect
  PROVE  /\ OpensStand
         /\ DOMAIN summaries' = Keys
         /\ \A k \in Keys : locks[k] # "file" => summaries'[k] = summaries[k]
<1>1. CASE UNCHANGED summaries
  BY <1>1 DEF LockInv, OpensStand
<1>2. CASE FileCommits
  BY <1>2 DEF LockInv, FileWrites, FileCommits, OpensStand
<1> QED
  BY <1>1, <1>2 DEF FileEffect, FileKeeps, FileUpserts


-----------------------------------------------------------------------------
(* The steps of the system.                                                *)

\* A step of the consumer task keeps the locks in order and the opens.
LEMMA KafkaWorkStep ==
  ASSUME LockInv, KafkaWork
  PROVE  LockInv' /\ OpensStand
<1>1. KafkaEffect /\ KafkaStages
  BY KafkaStep DEF KafkaWork, LockInv, KafkaWrites
<1>2. Release /\ UNCHANGED <<fpc, fbatch, ftx, faborted>>
  BY DEF KafkaWork, file
<1>3. OpensStand /\ DOMAIN summaries' = Keys
  BY <1>1, KafkaCommitsItsDays
<1>4. FileLocks' /\ FileWrites'
  BY <1>1, <1>2, KafkaCommitsItsDays, FileAside
<1>5. \A k \in Keys : locks'[k] = "kafka" <=> locks[k] = "kafka" /\ KafkaOpen'
  BY <1>2, ReleaseKeepsOpen
<1>6. KafkaLocks'
  <2>1. ASSUME NEW k \in Keys, locks'[k] = "kafka", kpc' = "summaries",
               NEW j \in K!Touched', locks'[j] # "kafka"
        PROVE  k < j
    <3>1. locks[k] = "kafka" /\ KafkaOpen /\ KafkaOpen'
      BY <1>5, <2>1 DEF LockInv, KafkaLocks
    <3>2. kpc = "summaries" /\ kbatch' = kbatch
      BY <1>1, <2>1, <3>1 DEF KafkaStages
    <3>3. j \in K!Touched /\ j \in Keys
      BY <2>1, <3>2, SameDays DEF K!Touched
    <3>4. locks[j] # "kafka"
      BY <1>5, <2>1, <3>1, <3>3
    <3> QED
      BY <3>1, <3>2, <3>3, <3>4 DEF LockInv, KafkaLocks
  <2>2. kaborted' => kpc' = "except"
    BY <1>1 DEF KafkaStages
  <2> QED
    BY <1>5, <2>1, <2>2 DEF KafkaLocks
<1>7. KafkaWrites'
  <2>1. CASE KafkaKeeps
    BY <1>5, <2>1 DEF LockInv, KafkaLocks, KafkaWrites, KafkaKeeps
  <2>2. CASE KafkaEnds
    BY <2>2 DEF KafkaEnds, KafkaWrites
  <2>3. CASE KafkaUpserts
    <3>1. \A k \in K!Touched : k \in Keys /\ locks[k] = "kafka"
      BY <2>3 DEF KafkaWork, KafkaUpserts, Upserts, Missing, K!Touched
    <3>2. ~ kaborted /\ ~ kaborted' /\ KafkaOpen'
      BY <2>3 DEF LockInv, KafkaLocks, KafkaUpserts, KafkaOpen
    <3>3. \A k \in Keys : ktx'.summaries[k] # NoRow => locks[k] = "kafka"
      BY <2>3, <3>1, <3>2 DEF LockInv, KafkaWrites, KafkaUpserts
    <3>4. \A k \in Keys : ktx'.summaries[k] # NoRow /\ summaries[k] # NoRow =>
            ktx'.summaries[k].open = summaries[k].open
      BY <2>3, <3>1, <3>2 DEF LockInv, KafkaWrites, KafkaUpserts
    <3> QED
      BY <1>5, <2>3, <3>2, <3>3, <3>4 DEF KafkaWrites, KafkaUpserts
  <2> QED
    BY <1>1, <2>1, <2>2, <2>3 DEF KafkaEffect, KafkaCommits
<1> QED
  BY <1>2, <1>3, <1>4, <1>6, <1>7, ReleaseKeepsOpen DEF LockInv

\* A step of the file job does so too.
LEMMA FileWorkStep ==
  ASSUME LockInv, FileWork
  PROVE  LockInv' /\ OpensStand
<1>1. FileEffect /\ FileStages
  BY FileStep DEF FileWork, LockInv, FileWrites
<1>2. Release /\ UNCHANGED <<kpc, kbatch, ktx, kaborted>>
  BY DEF FileWork, kafka
<1>3. OpensStand /\ DOMAIN summaries' = Keys
  BY <1>1, FileCommitsItsDays
<1>4. KafkaLocks' /\ KafkaWrites'
  BY <1>1, <1>2, FileCommitsItsDays, KafkaAside
<1>5. \A k \in Keys : locks'[k] = "file" <=> locks[k] = "file" /\ FileOpen'
  BY <1>2, ReleaseKeepsOpen
<1>6. FileLocks'
  <2>1. ASSUME NEW k \in Keys, locks'[k] = "file", fpc' = "summaries",
               NEW j \in F!Touched', locks'[j] # "file"
        PROVE  k < j
    <3>1. locks[k] = "file" /\ FileOpen /\ FileOpen'
      BY <1>5, <2>1 DEF LockInv, FileLocks
    <3>2. fpc = "summaries" /\ fbatch' = fbatch
      BY <1>1, <2>1, <3>1 DEF FileStages
    <3>3. j \in F!Touched /\ j \in Keys
      BY <2>1, <3>2, SameDays DEF F!Touched
    <3>4. locks[j] # "file"
      BY <1>5, <2>1, <3>1, <3>3
    <3> QED
      BY <3>1, <3>2, <3>3, <3>4 DEF LockInv, FileLocks
  <2>2. faborted' => fpc' \in {"except", "finally"}
    BY <1>1 DEF FileStages
  <2> QED
    BY <1>5, <2>1, <2>2 DEF FileLocks
<1>7. FileWrites'
  <2>1. CASE FileKeeps
    BY <1>5, <2>1 DEF LockInv, FileLocks, FileWrites, FileKeeps
  <2>2. CASE FileEnds
    BY <2>2 DEF FileEnds, FileWrites
  <2>3. CASE FileUpserts
    <3>1. \A k \in F!Touched : k \in Keys /\ locks[k] = "file"
      BY <2>3 DEF FileWork, FileUpserts, Upserts, Missing, F!Touched
    <3>2. ~ faborted /\ ~ faborted' /\ FileOpen'
      BY <2>3 DEF LockInv, FileLocks, FileUpserts, FileOpen
    <3>3. \A k \in Keys : ftx'.summaries[k] # NoRow => locks[k] = "file"
      BY <2>3, <3>1, <3>2 DEF LockInv, FileWrites, FileUpserts
    <3>4. \A k \in Keys : ftx'.summaries[k] # NoRow /\ summaries[k] # NoRow =>
            ftx'.summaries[k].open = summaries[k].open
      BY <2>3, <3>1, <3>2 DEF LockInv, FileWrites, FileUpserts
    <3> QED
      BY <1>5, <2>3, <3>2, <3>3, <3>4 DEF FileWrites, FileUpserts
  <2> QED
    BY <1>1, <2>1, <2>2, <2>3 DEF FileEffect, FileCommits
<1> QED
  BY <1>2, <1>3, <1>4, <1>6, <1>7, ReleaseKeepsOpen DEF LockInv

\* Taking the least of the days that are missing keeps the order.
LEMMA LockStep ==
  ASSUME LockInv, KafkaLock \/ FileLock
  PROVE  LockInv' /\ OpensStand
<1>1. UNCHANGED <<summaries, kpc, kbatch, ktx, kaborted, fpc, fbatch, ftx, faborted>>
  BY DEF KafkaLock, FileLock, TakeLock, store, kafka, file
<1>2. K!Touched' = K!Touched /\ F!Touched' = F!Touched
      /\ K!Touched \subseteq Keys /\ F!Touched \subseteq Keys
  BY <1>1, SameDays DEF K!Touched, F!Touched
<1>3. (KafkaOpen' <=> KafkaOpen) /\ (FileOpen' <=> FileOpen)
  BY <1>1 DEF KafkaOpen, FileOpen
<1>4. locks \in [Keys -> {"kafka", "file", "none"}] /\ Keys \subseteq Nat
  BY SystemAssumption DEF LockInv
<1>5. OpensStand
  BY <1>1 DEF OpensStand
<1>6. CASE KafkaLock
  <2>1. PICK k \in K!Touched :
          /\ locks[k] = "none" /\ locks' = [locks EXCEPT ![k] = "kafka"]
          /\ \A j \in K!Touched : locks[j] # "kafka" => k <= j
    BY <1>6 DEF KafkaLock, TakeLock, NextDay, Missing
  <2>2. kpc = "summaries" /\ KafkaOpen
    BY <1>6 DEF KafkaLock, LockInv, KafkaLocks, KafkaOpen
  <2>3. /\ locks' \in [Keys -> {"kafka", "file", "none"}]
        /\ \A j \in Keys : locks'[j] = IF j = k THEN "kafka" ELSE locks[j]
    BY <1>2, <1>4, <2>1
  <2>4. \A j \in K!Touched : locks'[j] # "kafka" => k < j
    BY <1>2, <1>4, <2>1, <2>3
  <2>5. KafkaLocks'
    BY <1>1, <1>2, <1>3, <2>2, <2>3, <2>4 DEF LockInv, KafkaLocks
  <2>6. FileLocks'
    BY <1>1, <1>2, <1>3, <2>1, <2>3 DEF LockInv, FileLocks
  <2>7. KafkaWrites' /\ FileWrites'
    BY <1>1, <1>2, <2>1, <2>3 DEF LockInv, KafkaWrites, FileWrites
  <2> QED
    BY <1>1, <1>5, <2>3, <2>5, <2>6, <2>7 DEF LockInv
<1>7. CASE FileLock
  <2>1. PICK k \in F!Touched :
          /\ locks[k] = "none" /\ locks' = [locks EXCEPT ![k] = "file"]
          /\ \A j \in F!Touched : locks[j] # "file" => k <= j
    BY <1>7 DEF FileLock, TakeLock, NextDay, Missing
  <2>2. fpc = "summaries" /\ FileOpen
    BY <1>7 DEF FileLock, LockInv, FileLocks, FileOpen
  <2>3. /\ locks' \in [Keys -> {"kafka", "file", "none"}]
        /\ \A j \in Keys : locks'[j] = IF j = k THEN "file" ELSE locks[j]
    BY <1>2, <1>4, <2>1
  <2>4. \A j \in F!Touched : locks'[j] # "file" => k < j
    BY <1>2, <1>4, <2>1, <2>3
  <2>5. FileLocks'
    BY <1>1, <1>2, <1>3, <2>2, <2>3, <2>4 DEF LockInv, FileLocks
  <2>6. KafkaLocks'
    BY <1>1, <1>2, <1>3, <2>1, <2>3 DEF LockInv, KafkaLocks
  <2>7. KafkaWrites' /\ FileWrites'
    BY <1>1, <1>2, <2>1, <2>3 DEF LockInv, KafkaWrites, FileWrites
  <2> QED
    BY <1>1, <1>5, <2>3, <2>5, <2>6, <2>7 DEF LockInv
<1> QED
  BY <1>6, <1>7

\* The ends of the workers: cancelled, stopped, closed with the loop, killed.
LEMMA EndSteps ==
  ASSUME LockInv, TaskCancelled \/ StopScheduler \/ Exit \/ Kill
  PROVE  LockInv' /\ OpensStand
<1>1. Release
  BY DEF TaskCancelled, StopScheduler, Exit, Kill
<1>2. UNCHANGED summaries
  BY KafkaCrashStep, FileCrashStep DEF TaskCancelled, StopScheduler, Exit, Kill
<1>3. KafkaLocks' /\ KafkaWrites'
  <2>1. CASE K!Crash
    BY <1>1, <2>1, KafkaCrashStep, KafkaOut
  <2>2. CASE UNCHANGED kafka
    BY <1>1, <1>2, <2>2, KafkaAside DEF kafka
  <2> QED
    BY <2>1, <2>2 DEF TaskCancelled, StopScheduler, Exit, Kill, TaskEnds
<1>4. FileLocks' /\ FileWrites'
  <2>1. CASE F!Crash
    BY <1>1, <2>1, FileCrashStep, FileOut
  <2>2. CASE UNCHANGED file
    BY <1>1, <1>2, <2>2, FileAside DEF file
  <2> QED
    BY <2>1, <2>2 DEF TaskCancelled, StopScheduler, Exit, Kill
<1> QED
  BY <1>1, <1>2, <1>3, <1>4, ReleaseKeepsOpen DEF LockInv, OpensStand

\* Steps that touch neither a transaction nor a lock.
LEMMA OtherSteps ==
  ASSUME LockInv,
         \/ Rebalance \/ Arrive \/ Request
         \/ Boot \/ Shutdown \/ AwaitRaises
         \/ ClientsStop \/ ClientsRaise \/ ClientsHang
         \/ UNCHANGED vars
  PROVE  LockInv' /\ OpensStand
<1>1. UNCHANGED <<summaries, locks>>
  <2>1. CASE Rebalance
    BY <2>1 DEF Rebalance, K!Rebalance, K!store
  <2>2. CASE Arrive
    BY <2>2 DEF Arrive, F!Drop, F!Copied, F!store
  <2>3. CASE Request
    BY <2>3 DEF Request, Serve, ListRuns, GetRun, GetRunErrors, Metrics, MetricsContinue,
                DailySummaries, Send, RequestFails, Begin, store
  <2>4. CASE \/ Boot \/ Shutdown \/ AwaitRaises
             \/ ClientsStop \/ ClientsRaise \/ ClientsHang \/ UNCHANGED vars
    BY <2>4 DEF Boot, Shutdown, AwaitRaises, ClientsStop, ClientsRaise, ClientsHang, vars, store
  <2> QED
    BY <2>1, <2>2, <2>3, <2>4
<1>2. UNCHANGED <<kpc, kbatch, ktx, kaborted>>
  BY DEF Rebalance, K!Rebalance, K!batchVars, Arrive, Request, Boot, Shutdown, AwaitRaises,
         ClientsStop, ClientsRaise, ClientsHang, vars, kafka
<1>3. UNCHANGED <<fpc, fbatch, ftx, faborted>>
  BY DEF Rebalance, Arrive, F!Drop, F!Copied, F!batchVars, Request, Boot, Shutdown,
         AwaitRaises, ClientsStop, ClientsRaise, ClientsHang, vars, file
<1>4. (KafkaOpen' <=> KafkaOpen) /\ (FileOpen' <=> FileOpen)
  BY <1>2, <1>3 DEF KafkaOpen, FileOpen
<1>5. K!Touched' = K!Touched /\ F!Touched' = F!Touched
  BY <1>2, <1>3, SameDays
<1>6. KafkaLocks' /\ FileLocks'
  BY <1>1, <1>2, <1>3, <1>4, <1>5 DEF LockInv, KafkaLocks, FileLocks
<1>7. KafkaWrites' /\ FileWrites'
  BY <1>1, <1>2, <1>3 DEF LockInv, KafkaWrites, FileWrites
<1> QED
  BY <1>1, <1>6, <1>7 DEF LockInv, OpensStand

-----------------------------------------------------------------------------
(* The theorems.                                                           *)

\* At the start nothing is locked or written.
LEMMA LockInit == Init => LockInv
BY DEF Init, K!Init, K!StoreInit, K!BatchInit, K!EmptyTx, F!Init, F!BatchInit, F!EmptyTx,
       LockInv, KafkaLocks, FileLocks, KafkaWrites, FileWrites

\* Every step keeps the locks in order and the opens.
LEMMA LockNext == LockInv /\ [Next]_vars => LockInv' /\ OpensStand
BY KafkaWorkStep, FileWorkStep, LockStep, EndSteps, OtherSteps DEF Next, Lifespan

\* The row locks are held in order and cover what is written.
THEOREM LockInvariance == Spec => []LockInv
<1>1. LockInv /\ [Next]_vars => LockInv'
  BY LockNext
<1> QED
  BY LockInit, <1>1, PTL DEF Spec

(***************************************************************************)
(* For every topic, every sequence of drops and every set of days, the two *)
(* modes never wait for each other: of the day each waits for, held by the *)
(* other, either would have to come before the other.                      *)
(***************************************************************************)
THEOREM NoDeadlock == Spec => []NoWaitCycle
<1>1. LockInv => NoWaitCycle
  <2> SUFFICES ASSUME LockInv, kpc = "summaries", Waits("kafka", K!Touched),
                      fpc = "summaries", Waits("file", F!Touched)
               PROVE  FALSE
    BY DEF NoWaitCycle
  <2>1. PICK k \in K!Touched : locks[k] = "file"
    BY DEF Waits, NextDay, Missing, LockInv, K!Touched
  <2>2. PICK f \in F!Touched : locks[f] = "kafka"
    BY DEF Waits, NextDay, Missing, LockInv, F!Touched
  <2>3. k \in Nat /\ f \in Nat /\ k \in Keys /\ f \in Keys
    BY SystemAssumption DEF K!Touched, F!Touched
  <2>4. f < k
    BY <2>1, <2>2, <2>3 DEF LockInv, KafkaLocks
  <2>5. k < f
    BY <2>1, <2>2, <2>3 DEF LockInv, FileLocks
  <2> QED
    BY <2>3, <2>4, <2>5
<1> QED
  BY LockInvariance, <1>1, PTL

(***************************************************************************)
(* A day's open price stands through every step of either mode, and of the *)
(* lifespan: a transaction that would replace it has read it first, and    *)
(* has kept the other mode from writing it since.                          *)
(***************************************************************************)
THEOREM OpenPricesNeverChange == Spec => OpenPricesStand
<1>1. LockInv /\ [Next]_vars =>
        [\A k \in Keys : summaries[k] # NoRow =>
           /\ summaries'[k] # NoRow
           /\ summaries'[k].open = summaries[k].open]_vars
  BY LockNext DEF OpensStand
<1> QED
  BY LockInvariance, <1>1, PTL DEF Spec, OpenPricesStand


=============================================================================
