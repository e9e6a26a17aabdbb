--------------------------- MODULE FileRowProofs ---------------------------
(***************************************************************************)
(* What the rows of FileMode say, for every sequence of drops, chunk size  *)
(* and number of restarts and failed moves: the outcome of the runs, the   *)
(* summaries, what became of every file, and that none is loaded twice.    *)
(* FInv is inductive next to IInv; the properties follow from it.          *)
(***************************************************************************)
EXTENDS FileModeProofs

\* The run in hand has not reached the tables, and may still do so.
Uncommitted ==
  \/ pc \in Stages \cup {"archive", "reject"}
  \/ pc = "except" /\ ~ aborted
  \/ pc \in {"finally", "finalcommit"} /\ run.status = "failed" /\ ~ aborted

\* Outside the stages the transaction is empty, but for the run in finally
\* and for what a failed batch has left.
TxOutside ==
  /\ pc \in {"idle", "next", "archive", "reject", "processed"} => tx = EmptyTx /\ ~ aborted
  /\ pc = "finally" /\ run.status = "completed" => tx = EmptyTx /\ ~ aborted
  /\ pc = "finalcommit" =>
       /\ ~ aborted
       /\ tx.run = run
       /\ run.status = "completed" => tx = SaveRun(EmptyTx, run)

\* The run before its stages, after them and in finally.
RunOutside ==
  /\ pc \in {"archive", "reject"} => run = NewRun
  /\ Uncommitted => runId \in DOMAIN runs /\ runs[runId] = NoRow
  /\ pc = "except" /\ ~ aborted => run.status = "running" /\ RunFits
  /\ pc = "processed" =>
       runId \in DOMAIN runs /\ run.status = "running" /\ runs[runId] = run
  /\ pc \in {"finally", "finalcommit"} =>
       /\ run.status \in {"completed", "failed"}
       /\ run.status = "failed" /\ ~ aborted => RunFits
       /\ run.status = "completed" =>
            runId \in DOMAIN runs /\ runs[runId] = [run EXCEPT !.status = "running"]

\* The events of a batch have new uuids of their own, which are not stored,
\* and are of different rows of the file.
FreshBatch ==
  /\ \A i \in DOMAIN batch : batch[i].fate # "unparsable" /\ batch[i].event_id \in Uuids
  /\ \A i, j \in DOMAIN batch :
       \/ i = j
       \/ /\ batch[i].event_id # batch[j].event_id
          /\ batch[i].origin # batch[j].origin
  /\ Uncommitted => \A i \in DOMAIN batch : market[batch[i].event_id] = NoRow

\* A drop that will not be read again and was not refused.
Gone(d) == \A n \in Names : input[n] # d /\ errordir[n] # d

\* The batch comes from the file in hand, all of it unless it was cut short.
BatchFromFile ==
  /\ pc \notin {"archive", "idle", "next"} => \A i \in DOMAIN batch :
       batch[i].origin \in Origins(reading) /\ Gone(reading)
  /\ pc \in Stages \cup {"archive"} =>
       /\ drops[reading].readable
       /\ \/ reading \in disturbed
          \/ \A p \in DOMAIN drops[reading].rows :
               \/ drops[reading].rows[p].fate = "unparsable"
               \/ \E i \in DOMAIN batch : /\ batch[i].origin = drops[reading].rows[p].origin
                                          /\ batch[i].fate = drops[reading].rows[p].fate

\* What has become of the file in hand once its stages are over.
Handled ==
  /\ pc \in {"finally", "finalcommit"} /\ run.status = "failed" => reading \in failed
  /\ \/ pc = "processed"
     \/ pc \in {"finally", "finalcommit"} /\ run.status = "completed"
     => reading \in disturbed \/ Settled(reading)

\* src maps a run to the drop it read: the rows of the tables come each from
\* another row of a drop, that is gone and not the one in hand.
Sourced(src) ==
  /\ \A e \in EventIds : market[e] # NoRow =>
       /\ src[market[e].run] \in 1 .. dropped
       /\ market[e].origin \in Origins(src[market[e].run])
       /\ Gone(src[market[e].run])
       /\ Uncommitted => src[market[e].run] # reading
  /\ \A e, f \in EventIds :
       /\ market[e] # NoRow /\ market[f] # NoRow
       /\ src[market[e].run] = src[market[f].run]
       /\ market[e].origin = market[f].origin
       => e = f
  /\ Uncommitted => src[runId] = reading

RowsHaveSources == \E src \in [DOMAIN runs -> 0 .. Len(drops)] : Sourced(src)

\* The conjuncts about the run, its transaction and its batch.
RunInHand ==
  /\ StageInv
  /\ TxFromBatch
  /\ TxStages
  /\ TxOutside
  /\ RunOutside
  /\ FreshBatch

FInv ==
  /\ RunInHand
  /\ RunsAreKept
  /\ BatchFromFile
  /\ Handled
  /\ RowsHaveSources
  /\ RunRowsTellOutcome
  /\ SummariesAreBacked
  /\ FilesAreAccounted

\* The part of both that is about the job, not about every row.
LEMMA InvParts == IInv /\ FInv => JobInv /\ RunInHand /\ RunsAreKept /\ TypeOK
BY Parts DEF JobInv, FInv

-----------------------------------------------------------------------------
(* What a step does to the run in hand.                                    *)

\* Between two files nothing is in hand.
LEMMA NothingInHand ==
  ASSUME tx' = EmptyTx, ~ aborted', batch' = <<>>, pc' \in {"idle", "next"}
  PROVE  RunInHand'
<1>1. TxFromBatch'
  BY NothingFromBatch
<1>2. StageInv' /\ TxStages' /\ TxOutside' /\ RunOutside'
  BY DEF StageInv, TxStages, TxOutside, RunOutside, Uncommitted, Stages
<1>3. FreshBatch'
  <2>1. DOMAIN batch' = {}
    OBVIOUS
  <2> QED
    BY <2>1 DEF FreshBatch
<1> QED
  BY <1>1, <1>2, <1>3 DEF RunInHand

\* The scan holds nothing, the end of a file and a crash leave nothing.
LEMMA IdleInHand ==
  ASSUME JobInv, RunInHand, RunsAreKept, Scan \/ ScanDone \/ CommitOutcome \/ OutcomeFails \/ Crash
  PROVE  RunInHand'
<1>1. CASE Scan \/ ScanDone
  <2>1. /\ pc \in {"idle", "next"} /\ pc' \in {"idle", "next"}
        /\ UNCHANGED <<tx, aborted, batch>>
    BY <1>1 DEF Scan, ScanDone
  <2>2. tx = EmptyTx /\ ~ aborted /\ batch = <<>>
    BY <2>1 DEF RunInHand, TxOutside, JobInv, Holding
  <2> QED
    BY <2>1, <2>2, NothingInHand
<1>2. CASE CommitOutcome
  <2>1. ~ aborted
    BY <1>2 DEF CommitOutcome, RunInHand, TxOutside
  <2> QED
    BY <1>2, <2>1, NothingInHand DEF CommitOutcome
<1>3. CASE OutcomeFails \/ Crash
  BY <1>3, NothingInHand DEF OutcomeFails, Crash
<1> QED
  BY <1>1, <1>2, <1>3

\* The environment does not touch it.
LEMMA OtherInHand ==
  ASSUME RunInHand, Drop \/ Copied \/ UNCHANGED vars
  PROVE  RunInHand'
<1>1. UNCHANGED <<store, pc, batch, run, runId, todo, tx, aborted, dlt>>
  BY DEF Drop, Copied, vars, batchVars
<1>2. TxFromBatch' /\ TxStages'
  BY <1>1, SameFromBatch, SameStages DEF RunInHand
<1>3. StageInv'
  <2>1. /\ Valid' = Valid /\ Invalid' = Invalid
        /\ \A F : WithFate(F)' = WithFate(F)
        /\ \A i : ErrorFor(i)' = ErrorFor(i)
        /\ \A i : Accepted(i)' = Accepted(i)
    BY <1>1, SameBatch DEF ErrorFor, Accepted, Overlay, store
  <2> QED
    BY <1>1, <2>1 DEF RunInHand, StageInv
<1>4. TxOutside' /\ FreshBatch'
  BY <1>1 DEF RunInHand, TxOutside, FreshBatch, Uncommitted, store
<1>5. RunOutside'
  <2>1. RunFits' = RunFits
    BY <1>1 DEF RunFits, Loaded
  <2> QED
    BY <1>1, <2>1 DEF RunInHand, RunOutside, Uncommitted, store
<1> QED
  BY <1>2, <1>3, <1>4, <1>5 DEF RunInHand

\* Moving the file, or failing to, leaves the run as it was taken up.
LEMMA MoveInHand ==
  ASSUME JobInv, RunInHand, RunsAreKept,
         Archive \/ ArchiveFails \/ MoveToErrors \/ MoveToErrorsFails
  PROVE  RunInHand'
<1>1. /\ UNCHANGED <<store, run, runId, todo, tx, aborted>>
      /\ pc \in {"archive", "reject"}
      /\ \/ pc = "archive" /\ pc' \in {"clean", "reject"}
         \/ pc = "reject" /\ pc' = "except"
      /\ batch' = batch \/ batch' = <<>>
  BY DEF Archive, ArchiveFails, MoveToErrors, MoveToErrorsFails
<1>2. /\ tx = EmptyTx /\ ~ aborted /\ run = NewRun
      /\ runId \in DOMAIN runs /\ runs[runId] = NoRow
  BY <1>1 DEF RunInHand, TxOutside, RunOutside, Uncommitted
<1>3. /\ \A e \in EventIds : tx.market[e] = NoRow
      /\ \A k \in Keys : tx.summaries[k] = NoRow
      /\ tx.errors = {} /\ tx.run = NoRow
  BY <1>2 DEF EmptyTx
<1>4. TxFromBatch'
  BY <1>1, <1>2, NothingFromBatch
<1>5. StageInv'
  BY <1>1 DEF StageInv, Stages
<1>6. TxStages'
  BY <1>1, <1>2, <1>3 DEF TxStages, Stages, Loaded, NewRun, store
<1>7. TxOutside'
  BY <1>1, <1>2 DEF TxOutside
<1>8. RunOutside'
  <2>1. RunFits'
    <3>1. Loaded' = {} /\ tx'.errors = {}
      BY <1>1, <1>3 DEF Loaded
    <3>2. run'.loaded = 0 /\ run'.valid = 0
      BY <1>1, <1>2 DEF NewRun
    <3> QED
      BY <3>1, <3>2, FS_EmptySet DEF RunFits
  <2>2. run'.status = "running"
    BY <1>1, <1>2 DEF NewRun
  <2> QED
    BY <1>1, <1>2, <2>1, <2>2 DEF RunOutside, Uncommitted, store
<1>9. FreshBatch'
  <2>1. CASE batch' = <<>>
    <3>1. DOMAIN batch' = {}
      BY <2>1
    <3> QED
      BY <3>1 DEF FreshBatch
  <2>2. CASE batch' = batch
    BY <1>1, <2>2 DEF RunInHand, FreshBatch, Uncommitted, store
  <2> QED
    BY <1>1, <2>1, <2>2
<1> QED
  BY <1>4, <1>5, <1>6, <1>7, <1>8, <1>9 DEF RunInHand

\* Marking the run and saving it: what is in the transaction still fits it.
LEMMA OutcomeInHand ==
  ASSUME JobInv, RunInHand, RunsAreKept, Complete \/ HandleFailure \/ SaveOutcome
  PROVE  RunInHand'
<1>1. /\ UNCHANGED <<store, batch, runId, todo, aborted>>
      /\ pc \in {"processed", "except", "finally"} /\ pc' \in {"finally", "finalcommit"}
      /\ tx'.market = tx.market /\ tx'.summaries = tx.summaries /\ tx'.errors = tx.errors
  <2>1. tx \in TxType
    BY DEF JobInv, TypeOK, BatchTypeOK
  <2>2. tx' = tx \/ tx' = SaveRun(tx, run)
    BY DEF Complete, HandleFailure, SaveOutcome
  <2> QED
    BY <2>1, <2>2 DEF Complete, HandleFailure, SaveOutcome, SaveRun, TxType
<1>2. TxFromBatch'
  BY <1>1, SameFromBatch DEF RunInHand
<1>3. StageInv' /\ TxStages'
  BY <1>1 DEF StageInv, TxStages, Stages
<1>4. run \in RunRow /\ tx \in TxType
  BY DEF JobInv, TypeOK, BatchTypeOK
<1>5. Loaded' = Loaded
  BY <1>1 DEF Loaded
<1>6. TxOutside' /\ RunOutside' /\ FreshBatch'
  <2>1. CASE Complete
    <3>1. /\ pc = "processed" /\ pc' = "finally" /\ tx' = tx /\ run'.status = "completed"
          /\ [run' EXCEPT !.status = "running"] = [run EXCEPT !.status = "running"]
      BY <2>1, <1>4 DEF Complete, RunRow
    <3>2. /\ tx = EmptyTx /\ ~ aborted /\ run.status = "running"
          /\ runId \in DOMAIN runs /\ runs[runId] = run
      BY <3>1 DEF RunInHand, TxOutside, RunOutside
    <3>3. [run EXCEPT !.status = "running"] = run
      BY <1>4, <3>2 DEF RunRow
    <3> QED
      BY <1>1, <3>1, <3>2, <3>3 DEF RunInHand, TxOutside, RunOutside, FreshBatch, Uncommitted,
         Stages, store
  <2>2. CASE HandleFailure
    <3>1. /\ pc = "except" /\ pc' = "finally" /\ tx' = tx /\ run'.status = "failed"
          /\ run'.loaded = run.loaded /\ run'.valid = run.valid /\ run'.invalid = run.invalid
      BY <2>2, <1>4 DEF HandleFailure, RunRow
    <3>2. RunFits => RunFits'
      BY <1>1, <1>5, <3>1 DEF RunFits
    <3> QED
      BY <1>1, <3>1, <3>2 DEF RunInHand, TxOutside, RunOutside, FreshBatch, Uncommitted,
         Stages, store
  <2>3. CASE SaveOutcome
    <3>1. /\ pc = "finally" /\ pc' = "finalcommit" /\ run' = run /\ ~ aborted
          /\ tx' = SaveRun(tx, run) /\ tx'.run = run
      BY <2>3, <1>4 DEF SaveOutcome, SaveRun, TxType
    <3>2. RunFits => RunFits'
      BY <1>1, <1>5, <3>1 DEF RunFits
    <3> QED
      BY <1>1, <3>1, <3>2 DEF RunInHand, TxOutside, RunOutside, FreshBatch, Uncommitted,
         Stages, store
  <2> QED
    BY <2>1, <2>2, <2>3
<1> QED
  BY <1>2, <1>3, <1>6 DEF RunInHand

\* A stage that leaves its run uncommitted has not touched the tables.
LEMMA ProcessUncommitted ==
  ASSUME JobInv, RunInHand, RunsAreKept, Process, Uncommitted'
  PROVE  UNCHANGED store
<1>1. pc \in Stages /\ ProcessStep(FALSE) /\ StoreTypeOK /\ BatchTypeOK
  BY DEF Process, JobInv, TypeOK
<1>2. UNCHANGED store \/ pc = "commit"
  BY <1>1, ProcessTables DEF BatchCommit
<1>3. pc' \in Stages \cup {"except"}
  <2>1. pc' \in Stages \cup {"processed", "except"}
    BY <1>1, ProcessStepEffect
  <2> QED
    BY <2>1 DEF Uncommitted, Stages
<1>4. pc' = "except" => UNCHANGED store
  <2>1. pc' = "except" => ~ aborted'
    BY DEF Uncommitted, Stages
  <2> QED
    BY <1>1, <2>1, FailureKeeps DEF RunInHand
<1>5. pc = "commit" => pc' \notin Stages
  BY <1>1 DEF Stages, ProcessStep, Raise, DbFails, Clean, CleanRaises, SendToDlt,
     SendToDltFails, DltDone, SaveValidationErrors, SaveValidationErrorsFails,
     Normalize, NormalizeRaises, InsertChunk, InsertChunkFails, RecordsDone,
     UpsertDailySummaries, UpsertDailySummariesFails, SavePipelineRun,
     SavePipelineRunFails, Commit, CommitFails
<1> QED
  BY <1>2, <1>3, <1>4, <1>5

\* The stages hand the run on, to its completion or its failure.
LEMMA ProcessInHand ==
  ASSUME JobInv, RunInHand, RunsAreKept, Process
  PROVE  RunInHand'
<1>1. pc \in Stages /\ ProcessStep(FALSE) /\ StoreTypeOK /\ BatchTypeOK
  BY DEF Process, JobInv, TypeOK
<1>2. StageInv' /\ TxFromBatch' /\ TxStages'
  BY <1>1, StageInvStep, TxFromBatchStep, TxStagesStep DEF RunInHand
<1>3. /\ batch' = batch /\ runId' = runId
      /\ pc' \in (Stages \ {"clean"}) \cup {"processed", "except"}
  BY <1>1, ProcessStepType, ProcessStepEffect
<1>4. /\ ~ aborted /\ runId \in DOMAIN runs /\ runs[runId] = NoRow
      /\ run.status = "running"
  BY <1>1 DEF RunInHand, TxStages
<1>5. ASSUME pc' = "processed"
      PROVE  /\ tx' = EmptyTx /\ ~ aborted' /\ run' = run
             /\ runId \in DOMAIN runs' /\ runs'[runId] = run
  <2>1. Commit
    BY <1>1, <1>5 DEF Stages, ProcessStep, Raise, DbFails, Clean, CleanRaises, SendToDlt,
       SendToDltFails, DltDone, SaveValidationErrors, SaveValidationErrorsFails,
       Normalize, NormalizeRaises, InsertChunk, InsertChunkFails, RecordsDone,
       UpsertDailySummaries, UpsertDailySummariesFails, SavePipelineRun,
       SavePipelineRunFails, CommitFails
  <2>2. BatchCommit
    BY <2>1 DEF Commit, BatchCommit
  <2>3. DOMAIN runs' = DOMAIN runs /\ runs'[runId] = run
    BY <1>1, <2>2, AtBatchCommit, CommitOfRun DEF BatchCommit, RunInHand
  <2> QED
    BY <1>4, <2>1, <2>3 DEF Commit
<1>6. TxOutside'
  BY <1>3, <1>5 DEF TxOutside, Stages
<1>7. RunOutside'
  <2>1. Uncommitted' => runId' \in DOMAIN runs' /\ runs'[runId'] = NoRow
    BY <1>3, <1>4, ProcessUncommitted DEF store
  <2>2. pc' = "except" /\ ~ aborted' => run'.status = "running" /\ RunFits'
    BY <1>1, FailureKeeps DEF RunInHand
  <2>3. pc' = "processed" =>
          runId' \in DOMAIN runs' /\ run'.status = "running" /\ runs'[runId'] = run'
    BY <1>3, <1>4, <1>5
  <2>4. pc' \notin {"archive", "reject", "finally", "finalcommit"}
    BY <1>3 DEF Stages
  <2> QED
    BY <2>1, <2>2, <2>3, <2>4 DEF RunOutside
<1>8. FreshBatch'
  <2>1. Uncommitted
    BY <1>1 DEF Uncommitted
  <2>2. Uncommitted' => market' = market
    BY ProcessUncommitted DEF store
  <2> QED
    BY <1>3, <2>1, <2>2 DEF RunInHand, FreshBatch
<1> QED
  BY <1>2, <1>6, <1>7, <1>8 DEF RunInHand

-----------------------------------------------------------------------------
(* What is read of a file.                                                 *)

\* The kept positions are all those of rows that are not skipped, each once.
LEMMA KeptAll ==
  ASSUME TypeOK, NEW d \in 1 .. Len(drops), NEW length \in Lengths(d),
         NEW kept \in Kept(d, length)
  PROVE  /\ \A i \in 1 .. Len(kept) : drops[d].rows[kept[i]].fate # "unparsable"
         /\ \A i, j \in 1 .. Len(kept) : kept[i] = kept[j] => i = j
         /\ \A p \in 1 .. length : drops[d].rows[p].fate # "unparsable" =>
              \E i \in 1 .. Len(kept) : kept[i] = p
<1> DEFINE K == {i \in 1 .. length : drops[d].rows[i].fate # "unparsable"}
           c == Cardinality(K)
<1>1. length \in Nat
  <2>1. Len(drops[d].rows) \in Nat
    BY Numbers
  <2> QED
    BY <2>1 DEF Lengths
<1>2. IsFiniteSet(K)
  <2>1. IsFiniteSet(1 .. length)
    BY <1>1, FS_Interval
  <2>2. K \in SUBSET (1 .. length)
    OBVIOUS
  <2> QED
    BY <2>1, <2>2, FS_Subset
<1>3. c \in Nat
  BY <1>2, FS_CardinalityType
<1>4. kept \in [1 .. c -> K] /\ \A i, j \in DOMAIN kept : i < j => kept[i] < kept[j]
  BY DEF Kept
<1>5. Len(kept) = c
  <2>1. Len(kept) \in Nat /\ DOMAIN kept = 1 .. Len(kept)
    BY KeptType
  <2> HIDE DEF c
  <2> QED
    BY <1>3, <1>4, <2>1
<1>6. K \subseteq Nat
  BY <1>1
<1> HIDE DEF c
<1>7. \A i, j \in 1 .. c : kept[i] = kept[j] => i = j
  <2>1. SUFFICES ASSUME NEW i \in 1 .. c, NEW j \in 1 .. c, i # j
                 PROVE  kept[i] # kept[j]
    OBVIOUS
  <2>2. /\ kept[i] \in Nat /\ kept[j] \in Nat
        /\ i < j => kept[i] < kept[j]
        /\ j < i => kept[j] < kept[i]
    BY <1>4, <1>6
  <2>3. i < j \/ j < i
    BY <1>3, <2>1
  <2> QED
    BY <2>2, <2>3
<1>8. kept \in Injection(1 .. c, K)
  BY <1>4, <1>7 DEF Injection, IsInjective
<1>9. Cardinality(1 .. c) = c
  <2>1. Cardinality(1 .. c) = IF 1 > c THEN 0 ELSE c - 1 + 1
    BY <1>3, FS_Interval
  <2> QED
    BY <1>3, <2>1
<1>10. kept \in Surjection(1 .. c, K)
  BY <1>2, <1>8, <1>9, FS_Injection DEF c
<1>11. \A p \in K : \E i \in 1 .. c : kept[i] = p
  BY <1>10 DEF Surjection
<1>12. \A i \in 1 .. c : kept[i] \in K
  BY <1>4
<1> QED
  BY <1>5, <1>7, <1>11, <1>12

\* The batch that is read: a row each, with ids that are new; and all the rows
\* unless the copy was not complete.
LEMMA ReadFileBatch ==
  ASSUME JobInv, ReadFile
  PROVE  /\ drops[reading'].readable /\ pc' = "archive" /\ drops' = drops
         /\ \A i \in DOMAIN batch' :
              /\ batch'[i].fate # "unparsable" /\ batch'[i].event_id \in Uuids
              /\ market[batch'[i].event_id] = NoRow
         /\ \A i, j \in DOMAIN batch' :
              \/ i = j
              \/ /\ batch'[i].event_id # batch'[j].event_id
                 /\ batch'[i].origin # batch'[j].origin
         /\ \/ reading' \in disturbed'
            \/ \A p \in DOMAIN drops[reading'].rows :
                 \/ drops[reading'].rows[p].fate = "unparsable"
                 \/ \E i \in DOMAIN batch' :
                      /\ batch'[i].origin = drops[reading'].rows[p].origin
                      /\ batch'[i].fate = drops[reading'].rows[p].fate
<1> USE DEF JobInv
<1>1. PICK n \in pending : TakeUp(n)
  BY DEF ReadFile
<1> DEFINE d == reading'
<1>2. d \in 1 .. Len(drops) /\ drops' = drops
  BY <1>1, TakeUpFacts, Parts DEF world
<1>3. PICK length \in Lengths(d) :
        /\ \E kept \in Kept(d, length) : \E ids \in FreshIds(Len(kept)) :
             batch' = EventsOf(d, kept, ids)
        /\ disturbed' = IF length < Len(drops[d].rows) THEN disturbed \cup {d} ELSE disturbed
  BY DEF ReadFile
<1>4. PICK kept \in Kept(d, length) : \E ids \in FreshIds(Len(kept)) :
        batch' = EventsOf(d, kept, ids)
  BY <1>3
<1>5. PICK ids \in FreshIds(Len(kept)) : batch' = EventsOf(d, kept, ids)
  BY <1>4
<1>6. drops[d].readable /\ pc' = "archive"
  BY DEF ReadFile
<1> HIDE DEF d
<1>7. /\ Len(kept) \in Nat
      /\ \A i \in 1 .. Len(kept) :
           kept[i] \in DOMAIN drops[d].rows /\ drops[d].rows[kept[i]] \in Row
  BY <1>2, KeptType
<1>8. /\ \A i \in 1 .. Len(kept) : drops[d].rows[kept[i]].fate # "unparsable"
      /\ \A i, j \in 1 .. Len(kept) : kept[i] = kept[j] => i = j
      /\ \A p \in 1 .. length : drops[d].rows[p].fate # "unparsable" =>
           \E i \in 1 .. Len(kept) : kept[i] = p
  BY <1>2, KeptAll
<1>9. /\ \A i \in 1 .. Len(kept) : ids[i] \in Uuids /\ market[ids[i]] = NoRow
      /\ \A i, j \in 1 .. Len(kept) : ids[i] = ids[j] => i = j
  <2> DEFINE Fresh == {f \in [1 .. Len(kept) -> {e \in Uuids : market[e] = NoRow}] :
                         \A i, j \in DOMAIN f : f[i] = f[j] => i = j}
  <2>1. Fresh # {} /\ ids = CHOOSE f \in Fresh : TRUE
    BY DEF FreshIds
  <2>2. ids \in Fresh
    BY <2>1
  <2> QED
    BY <2>2
<1>10. /\ DOMAIN batch' = 1 .. Len(kept)
       /\ \A i \in 1 .. Len(kept) :
            /\ batch'[i].event_id = ids[i]
            /\ batch'[i].origin = drops[d].rows[kept[i]].origin
            /\ batch'[i].fate = drops[d].rows[kept[i]].fate
  BY <1>2, <1>5 DEF EventsOf
<1>11. \A p, q \in DOMAIN drops[d].rows :
         drops[d].rows[p].origin = drops[d].rows[q].origin => p = q
  <2>1. drops \in Deliveries /\ d \in DOMAIN drops
    BY <1>2, Numbers DEF TypeOK
  <2> QED
    BY <2>1, OriginAssumption
<1>12. \A i, j \in DOMAIN batch' :
         \/ i = j
         \/ /\ batch'[i].event_id # batch'[j].event_id
            /\ batch'[i].origin # batch'[j].origin
  BY <1>7, <1>8, <1>9, <1>10, <1>11
<1>13. \/ d \in disturbed'
       \/ \A p \in DOMAIN drops[d].rows :
            \/ drops[d].rows[p].fate = "unparsable"
            \/ \E i \in DOMAIN batch' : /\ batch'[i].origin = drops[d].rows[p].origin
                                        /\ batch'[i].fate = drops[d].rows[p].fate
  <2>1. CASE length < Len(drops[d].rows)
    BY <1>2, <1>3, <2>1
  <2>2. CASE ~ (length < Len(drops[d].rows))
    <3>1. Len(drops[d].rows) \in Nat /\ drops[d].rows \in Seq(Row)
      BY <1>2, Numbers
    <3>2. length \in Nat /\ length <= Len(drops[d].rows)
      BY <3>1 DEF Lengths
    <3>3. DOMAIN drops[d].rows = 1 .. length
      BY <2>2, <3>1, <3>2
    <3> QED
      BY <1>8, <1>10, <3>3
  <2> QED
    BY <2>1, <2>2
<1> QED
  BY <1>2, <1>6, <1>8, <1>9, <1>10, <1>12, <1>13 DEF d

\* A run is registered with the file that is taken up.
LEMMA TakeUpInHand ==
  ASSUME JobInv, RunInHand, RunsAreKept, ReadFile \/ ReadFileFails
  PROVE  RunInHand' /\ NewRunStep
<1>1. PICK n \in pending : TakeUp(n)
  BY DEF ReadFile, ReadFileFails
<1>2. /\ pc = "next" /\ run' = NewRun /\ runId' = Len(runs) + 1
      /\ NewRunStep /\ UNCHANGED <<tx, aborted>>
  BY <1>1 DEF TakeUp, NewRunStep
<1>3. tx = EmptyTx /\ ~ aborted
  BY <1>2 DEF RunInHand, TxOutside
<1>4. pc' \in {"archive", "reject"}
  BY DEF ReadFile, ReadFileFails
<1>5. runId' \in DOMAIN runs' /\ runs'[runId'] = NoRow
  BY <1>2, NewRunKeeps DEF JobInv, TypeOK
<1>6. TxFromBatch'
  BY <1>2, <1>3, NothingFromBatch
<1>7. StageInv' /\ TxStages' /\ TxOutside' /\ RunOutside'
  BY <1>2, <1>3, <1>4, <1>5 DEF StageInv, TxStages, TxOutside, RunOutside, Stages
<1>8. FreshBatch'
  <2>1. CASE ReadFile
    BY <1>2, <2>1, ReadFileBatch DEF FreshBatch, NewRunStep
  <2>2. CASE ReadFileFails
    <3>1. DOMAIN batch' = {}
      BY <2>2 DEF ReadFileFails
    <3> QED
      BY <3>1 DEF FreshBatch
  <2> QED
    BY <2>1, <2>2
<1> QED
  BY <1>2, <1>6, <1>7, <1>8 DEF RunInHand

-----------------------------------------------------------------------------
(* What a step does to the directories and the tables.                     *)

\* The third step that reaches the tables: the commit in finally.
OutcomeCommit == /\ pc = "finalcommit"
                 /\ CommitTx(tx, runId)
                 /\ UNCHANGED runId
                 /\ batch' = <<>> /\ pc' \in {"idle", "next"}

\* Every step is one of the three or leaves the tables alone; files are moved
\* out of the input directory or newly put there, and what was logged and
\* disturbed is not forgotten.
LEMMA WorldStep ==
  ASSUME JobInv, RunInHand, RunsAreKept, [Next]_vars
  PROVE  /\ \/ UNCHANGED store
            \/ NewRunStep /\ (ReadFile \/ ReadFileFails)
            \/ BatchCommit /\ Process
            \/ OutcomeCommit
         /\ drops' = drops /\ dropped' \in {dropped, dropped + 1}
         /\ \A n \in Names : input'[n] \in {input[n], 0, dropped + 1}
         /\ \A n \in Names : errordir'[n] \in {errordir[n], input[n]}
         /\ failed \subseteq failed' /\ disturbed \subseteq disturbed'
<1>1. input \in Directory /\ errordir \in Directory
  BY DEF JobInv, TypeOK
<1>2. CASE Process
  BY <1>2, ProcessTables DEF Process, JobInv, TypeOK, world, dirs, history
<1>3. CASE ReadFile \/ ReadFileFails
  <2>1. PICK n \in pending : TakeUp(n)
    BY <1>3 DEF ReadFile, ReadFileFails
  <2>2. UNCHANGED <<drops, dropped, input, errordir, failed>>
    BY <2>1 DEF TakeUp, world, dirs
  <2>3. disturbed \subseteq disturbed'
    BY <1>3 DEF ReadFile, ReadFileFails
  <2> QED
    BY <1>3, <2>2, <2>3, TakeUpInHand
<1>4. CASE Scan \/ ScanDone \/ Complete \/ HandleFailure \/ SaveOutcome
  BY <1>4 DEF Scan, ScanDone, Complete, HandleFailure, SaveOutcome, world, dirs, history
<1>5. CASE CommitOutcome \/ OutcomeFails
  BY <1>5 DEF CommitOutcome, OutcomeFails, OutcomeCommit, world, dirs, history
<1>6. CASE Archive \/ ArchiveFails \/ MoveToErrors \/ MoveToErrorsFails
  <2>1. /\ UNCHANGED store /\ UNCHANGED <<drops, dropped, failed>>
        /\ disturbed \subseteq disturbed'
    BY <1>6 DEF Archive, ArchiveFails, MoveToErrors, MoveToErrorsFails, world
  <2>2. /\ input' = input \/ input' = [input EXCEPT ![name] = 0]
        /\ errordir' = errordir \/ errordir' = [errordir EXCEPT ![name] = input[name]]
    BY <1>6 DEF Archive, ArchiveFails, MoveToErrors, MoveToErrorsFails, dirs
  <2>3. \A n \in Names : input'[n] \in {input[n], 0} /\ errordir'[n] \in {errordir[n], input[n]}
    BY <1>1, <2>2 DEF Directory
  <2> QED
    BY <2>1, <2>3
<1>7. CASE Drop
  <2>1. /\ UNCHANGED <<store, drops, errordir, failed>> /\ dropped' = dropped + 1
        /\ input' = [input EXCEPT ![drops[dropped + 1].name] = dropped + 1]
        /\ disturbed \subseteq disturbed'
    BY <1>7 DEF Drop
  <2>2. \A n \in Names : input'[n] \in {input[n], dropped + 1}
    BY <1>1, <2>1 DEF Directory
  <2> QED
    BY <2>1, <2>2
<1>8. CASE Copied \/ Crash \/ UNCHANGED vars
  BY <1>8 DEF Copied, Crash, vars, world, dirs, history
<1> QED
  BY <1>2, <1>3, <1>4, <1>5, <1>6, <1>7, <1>8 DEF Next, Work

\* At the commit in finally the transaction holds the row of a completed run,
\* or a failed one with what it has written.
LEMMA AtOutcomeCommit ==
  ASSUME JobInv, RunInHand, RunsAreKept, OutcomeCommit
  PROVE  /\ runId \in DOMAIN runs /\ run \in RunRow /\ run # NoRow
         /\ \/ /\ run.status = "completed"
               /\ UNCHANGED <<market, summaries, errors>>
               /\ runs[runId] = [run EXCEPT !.status = "running"]
            \/ /\ run.status = "failed" /\ Uncommitted
               /\ runs[runId] = NoRow /\ tx.run = run /\ RunFits
         /\ DOMAIN runs' = DOMAIN runs /\ runs'[runId] = run
         /\ \A r \in DOMAIN runs \ {runId} : runs'[r] = runs[r]
<1>1. StoreTypeOK /\ BatchTypeOK /\ run \in RunRow
  BY DEF JobInv, TypeOK, BatchTypeOK
<1>2. run # NoRow
  BY <1>1, NoRowAssumption
<1>3. ~ aborted /\ tx.run = run
  BY DEF RunInHand, TxOutside, OutcomeCommit
<1>4. CASE run.status = "completed"
  <2>1. /\ runId \in DOMAIN runs /\ runs[runId] = [run EXCEPT !.status = "running"]
        /\ tx = SaveRun(EmptyTx, run)
    BY <1>4 DEF RunInHand, RunOutside, TxOutside, OutcomeCommit
  <2>2. /\ UNCHANGED <<market, summaries, errors>>
        /\ DOMAIN runs' = DOMAIN runs /\ runs'[runId] = run
        /\ \A r \in DOMAIN runs \ {runId} : runs'[r] = runs[r]
    BY <1>1, <2>1, CommitOfRunRow DEF OutcomeCommit
  <2> QED
    BY <1>1, <1>2, <1>4, <2>1, <2>2
<1>5. CASE run.status = "failed"
  <2>1. Uncommitted
    BY <1>3, <1>5 DEF Uncommitted, OutcomeCommit
  <2>2. runId \in DOMAIN runs /\ runs[runId] = NoRow /\ RunFits
    BY <1>3, <1>5, <2>1 DEF RunInHand, RunOutside, OutcomeCommit
  <2>3. /\ DOMAIN runs' = DOMAIN runs /\ runs'[runId] = run
        /\ \A r \in DOMAIN runs \ {runId} : runs'[r] = runs[r]
    BY <1>1, <1>2, <1>3, <2>2, CommitOfRun DEF OutcomeCommit, RunInHand
  <2> QED
    BY <1>1, <1>2, <1>3, <1>5, <2>1, <2>2, <2>3
<1> QED
  BY <1>4, <1>5 DEF RunInHand, RunOutside, OutcomeCommit

\* The tables only grow, and a commit adds nothing but what is in hand.
LEMMA TablesGrow ==
  ASSUME JobInv, RunInHand, RunsAreKept, [Next]_vars
  PROVE  /\ \A e \in EventIds : market[e] # NoRow => market'[e] = market[e]
         /\ \A k \in Keys : summaries[k] # NoRow => summaries'[k] # NoRow
         /\ errors \subseteq errors'
         /\ \A e \in EventIds : market[e] = NoRow /\ market'[e] # NoRow =>
              /\ Uncommitted /\ ~ Uncommitted'
              /\ \E i \in Valid : batch[i].event_id = e /\ market'[e] = RowOf(i)
<1>1. StoreTypeOK /\ BatchTypeOK /\ TxFromBatch
  BY DEF JobInv, TypeOK, RunInHand
<1>2. CASE UNCHANGED <<market, summaries, errors>>
  BY <1>2
<1>3. ASSUME CommitTx(tx, runId), Uncommitted, ~ Uncommitted', ~ aborted
      PROVE  /\ \A e \in EventIds : market[e] # NoRow => market'[e] = market[e]
             /\ \A k \in Keys : summaries[k] # NoRow => summaries'[k] # NoRow
             /\ errors \subseteq errors'
             /\ \A e \in EventIds : market[e] = NoRow /\ market'[e] # NoRow =>
                  \E i \in Valid : batch[i].event_id = e /\ market'[e] = RowOf(i)
  <2>1. \A e \in EventIds : market'[e] = IF tx.market[e] # NoRow THEN tx.market[e] ELSE market[e]
    BY <1>1, <1>3 DEF CommitTx, Overlay, StoreTypeOK
  <2>2. \A e \in EventIds : market[e] = NoRow /\ market'[e] # NoRow =>
          \E i \in Valid : batch[i].event_id = e /\ market'[e] = RowOf(i)
    BY <1>1, <2>1 DEF TxFromBatch, Loaded
  <2> QED
    BY <1>1, <1>3, <2>2, CommitKeepsRows
<1>4. CASE BatchCommit /\ Process
  <2>1. Uncommitted
    BY <1>4 DEF BatchCommit, Uncommitted, Stages
  <2>2. \/ ~ Uncommitted'
        \/ UNCHANGED store
    BY <1>4, ProcessUncommitted
  <2>3. ~ aborted
    BY <1>4 DEF BatchCommit, RunInHand, TxStages, Stages
  <2> QED
    BY <1>2, <1>3, <1>4, <2>1, <2>2, <2>3 DEF BatchCommit, store
<1>5. CASE OutcomeCommit
  <2>1. ~ Uncommitted' /\ ~ aborted
    BY <1>5 DEF OutcomeCommit, Uncommitted, Stages, RunInHand, TxOutside
  <2> QED
    BY <1>2, <1>3, <1>5, <2>1, AtOutcomeCommit DEF OutcomeCommit
<1> QED
  BY <1>2, <1>4, <1>5, WorldStep DEF NewRunStep, store

-----------------------------------------------------------------------------
(* The runs and the summaries.                                             *)

\* What an uncommitted transaction has accepted it holds, under its id.
LEMMA AcceptedIsLoaded ==
  ASSUME JobInv, RunInHand, RunsAreKept, Uncommitted, NEW i \in DOMAIN batch, Accepted(i)
  PROVE  /\ batch[i].event_id \in EventIds
         /\ batch[i].event_id \in Loaded
         /\ tx.market[batch[i].event_id] = RowOf(i)
<1>1. StoreTypeOK /\ BatchTypeOK /\ TxFromBatch /\ FreshBatch
  BY DEF JobInv, TypeOK, RunInHand
<1>2. Valid \subseteq DOMAIN batch /\ batch[i].event_id \in EventIds
  BY <1>1, PositionsType DEF Message
<1>3. market[batch[i].event_id] = NoRow
  BY <1>1 DEF FreshBatch
<1>4. batch[i].event_id \in Loaded
  BY <1>1, <1>2, <1>3 DEF Accepted, Overlay, StoreTypeOK, Loaded
<1>5. PICK j \in Valid : /\ batch[j].event_id = batch[i].event_id
                         /\ tx.market[batch[i].event_id] = RowOf(j)
  BY <1>1, <1>4 DEF TxFromBatch
<1>6. j = i
  BY <1>1, <1>2, <1>5 DEF FreshBatch
<1> QED
  BY <1>2, <1>4, <1>5, <1>6

\* After the commit of a batch each of its records is stored, under its id.
LEMMA BatchIsStored ==
  ASSUME JobInv, RunInHand, RunsAreKept, BatchCommit
  PROVE  /\ \A i \in Valid : /\ batch[i].event_id \in EventIds
                             /\ batch[i].event_id \in Loaded
                             /\ tx.market[batch[i].event_id] = RowOf(i)
                             /\ market'[batch[i].event_id] = RowOf(i)
         /\ Cardinality(Loaded) = Cardinality(Valid)
         /\ Len(batch) = Cardinality(Valid) + Cardinality(Invalid)
<1>1. StoreTypeOK /\ BatchTypeOK /\ TxFromBatch /\ FreshBatch /\ StageInv /\ pc = "commit"
  BY DEF JobInv, TypeOK, RunInHand, BatchCommit
<1>2. /\ Valid \subseteq DOMAIN batch /\ Invalid \subseteq DOMAIN batch
      /\ DOMAIN batch = 1 .. Len(batch) /\ Len(batch) \in Nat
      /\ \A i \in DOMAIN batch : batch[i] \in Message
  BY <1>1, PositionsType
<1>3. ASSUME NEW i \in Valid
      PROVE  /\ batch[i].event_id \in EventIds
             /\ batch[i].event_id \in Loaded
             /\ tx.market[batch[i].event_id] = RowOf(i)
  <2>1. Uncommitted /\ Accepted(i) /\ i \in DOMAIN batch
    BY <1>1, <1>2 DEF StageInv, Stages, Uncommitted
  <2> QED
    BY <2>1, AcceptedIsLoaded
<1>4. \A i \in Valid : market'[batch[i].event_id] = RowOf(i)
  BY <1>1, <1>3 DEF BatchCommit, CommitTx, Overlay, StoreTypeOK, Loaded
<1>5. Cardinality(Loaded) = Cardinality(Valid)
  <2> DEFINE V == Valid
             L == Loaded
             f == [i \in V |-> batch[i].event_id]
  <2>1. f \in [V -> L]
    BY <1>3
  <2>2. \A i, j \in V : f[i] = f[j] => i = j
    BY <1>1, <1>2 DEF FreshBatch
  <2>3. IsFiniteSet(L) /\ Cardinality(V) \in Nat /\ Cardinality(L) \in Nat
    BY <1>1, BatchCounts
  <2>4. Cardinality(L) <= Cardinality(V)
    BY <1>1, LoadedBounded
  <2> HIDE DEF f, V, L
  <2>5. f \in Injection(V, L)
    BY <2>1, <2>2 DEF Injection, IsInjective
  <2>6. Cardinality(V) <= Cardinality(L)
    BY <2>3, <2>5, FS_Injection
  <2> QED
    BY <2>3, <2>4, <2>6 DEF V, L
<1>6. Len(batch) = Cardinality(Valid) + Cardinality(Invalid)
  <2>1. DOMAIN batch = Valid \cup Invalid
    <3>1. \A i \in DOMAIN batch : /\ batch[i].fate \in Fates
                                  /\ batch[i].fate # "unparsable"
                                  /\ batch[i].fate # "uncastable"
      BY <1>1, <1>2 DEF Message, FreshBatch, StageInv, WithFate, Stages
    <3> QED
      BY <3>1 DEF Valid, Invalid, Parsed, WithFate, Fates
  <2>2. Valid \cap Invalid = {}
    BY DEF Valid
  <2>3. IsFiniteSet(1 .. Len(batch))
    BY <1>2, FS_Interval
  <2>4. Cardinality(1 .. Len(batch)) = Len(batch)
    <3>1. Cardinality(1 .. Len(batch)) = IF 1 > Len(batch) THEN 0 ELSE Len(batch) - 1 + 1
      BY <1>2, FS_Interval
    <3> QED
      BY <1>2, <3>1
  <2>5. IsFiniteSet(Valid) /\ IsFiniteSet(Invalid)
    BY <1>2, <2>3, FS_Subset
  <2>6. Cardinality(Valid \cup Invalid) =
          Cardinality(Valid) + Cardinality(Invalid) - Cardinality(Valid \cap Invalid)
    BY <2>5, FS_Union
  <2>7. Cardinality({}) = 0
    BY FS_EmptySet
  <2>8. Cardinality(Valid) \in Nat /\ Cardinality(Invalid) \in Nat
    BY <1>1, BatchCounts
  <2>9. Len(batch) = Cardinality(Valid \cup Invalid)
    BY <1>2, <2>1, <2>4
  <2>10. Cardinality(Valid \cap Invalid) = 0
    BY <2>2, <2>7
  <2> HIDE DEF Valid, Invalid
  <2> QED
    BY <2>6, <2>8, <2>9, <2>10
<1> QED
  BY <1>3, <1>4, <1>5, <1>6

\* The rows of the tables keep belonging to runs that have a row.
LEMMA RunsAreKeptStep ==
  ASSUME JobInv, RunInHand, RunsAreKept, [Next]_vars
  PROVE  RunsAreKept'
<1>1. StoreTypeOK /\ BatchTypeOK /\ RunsAreKept /\ TxFromBatch
  BY DEF JobInv, TypeOK, RunInHand
<1>2. CASE UNCHANGED store
  BY <1>1, <1>2 DEF RunsAreKept, store
<1>3. CASE NewRunStep
  <2>1. \A r \in DOMAIN runs : r \in DOMAIN runs' /\ runs'[r] = runs[r]
    BY <1>1, <1>3, NewRunKeeps
  <2> QED
    BY <1>1, <1>3, <2>1 DEF NewRunStep, RunsAreKept
<1>4. CASE BatchCommit
  BY <1>1, <1>4, AtBatchCommit, CommitOfRun DEF BatchCommit, RunInHand
<1>5. CASE OutcomeCommit
  <2>1. CASE run.status = "failed"
    BY <1>1, <1>5, <2>1, AtOutcomeCommit, CommitOfRun DEF OutcomeCommit
  <2>2. CASE run.status # "failed"
    <3>1. /\ UNCHANGED <<market, errors>> /\ DOMAIN runs' = DOMAIN runs
          /\ \A r \in DOMAIN runs : runs[r] # NoRow => runs'[r] # NoRow
      BY <1>5, <2>2, AtOutcomeCommit
    <3> QED
      BY <1>1, <3>1 DEF RunsAreKept
  <2> QED
    BY <2>1, <2>2
<1> QED
  BY <1>2, <1>3, <1>4, <1>5, WorldStep

\* The row of a run goes on telling what it stored and refused.
LEMMA OutcomeStep ==
  ASSUME IInv, FInv, [Next]_vars
  PROVE  RunRowsTellOutcome'
<1> DEFINE Tells(row, stored, refused) ==
             IF row = NoRow THEN stored = 0 /\ refused = 0
             ELSE IF row.status = "failed"
             THEN /\ row.loaded \in {0, stored} /\ stored <= row.valid
                  /\ refused \in {0, row.invalid}
             ELSE /\ row.loaded = stored /\ stored = row.valid
                  /\ row.invalid = refused
                  /\ row.extracted = stored + refused
           Fits(r) == Tells(runs[r], Cardinality(StoredBy(r)), Cardinality(RefusedBy(r)))
<1>1. \A r \in DOMAIN runs : Fits(r)
  BY DEF FInv, RunInHand, RunRowsTellOutcome, StoredBy, RefusedBy
<1>2. SUFFICES ASSUME NEW r \in DOMAIN runs' PROVE Fits(r)'
  BY DEF RunRowsTellOutcome, StoredBy, RefusedBy
<1>3. StoreTypeOK /\ BatchTypeOK /\ RunsAreKept /\ TxFromBatch /\ TxStages
  BY DEF IInv, TypeOK, FInv, RunInHand
<1> HIDE DEF Tells
<1>4. CASE UNCHANGED store
  BY <1>1, <1>2, <1>4, SameTables DEF store
<1>5. CASE NewRunStep
  <2>1. StoredBy(r)' = StoredBy(r) /\ RefusedBy(r)' = RefusedBy(r)
    BY <1>5, SameTables DEF NewRunStep
  <2>2. CASE r \in DOMAIN runs
    BY <1>1, <1>3, <1>5, <2>1, <2>2, NewRunKeeps
  <2>3. CASE r \notin DOMAIN runs
    <3>1. runs'[r] = NoRow
      BY <1>2, <1>3, <1>5, <2>3, NewRunKeeps
    <3>2. StoredBy(r) = {} /\ RefusedBy(r) = {}
      BY <1>3, <2>3 DEF RunsAreKept, StoredBy, RefusedBy
    <3> QED
      BY <2>1, <3>1, <3>2, FS_EmptySet DEF Tells
  <2> QED
    BY <2>2, <2>3
<1>6. CASE BatchCommit
  <2>1. /\ DOMAIN runs' = DOMAIN runs /\ runs'[runId] = run /\ run # NoRow
        /\ StoredBy(runId)' = Loaded /\ RefusedBy(runId)' = Refusals
        /\ \A q \in DOMAIN runs \ {runId} : /\ runs'[q] = runs[q]
                                            /\ StoredBy(q)' = StoredBy(q)
                                            /\ RefusedBy(q)' = RefusedBy(q)
    BY <1>3, <1>6, AtBatchCommit, CommitOfRun DEF BatchCommit
  <2>2. CASE r # runId
    BY <1>1, <1>2, <2>1, <2>2
  <2>3. CASE r = runId
    <3>1. /\ Cardinality(Loaded) = Cardinality(Valid)
          /\ Len(batch) = Cardinality(Valid) + Cardinality(Invalid)
          /\ Cardinality(Refusals) = Cardinality(Invalid)
      BY <1>3, <1>6, BatchIsStored, BatchCounts, InvParts
    <3>2. Tells(run, Cardinality(Loaded), Cardinality(Refusals))
      BY <1>3, <1>6, <3>1, AtBatchCommit DEF Tells
    <3>3. runId' = runId
      BY <1>6 DEF BatchCommit
    <3>4. StoredBy(r)' = Loaded /\ RefusedBy(r)' = Refusals /\ runs'[r] = run
      BY <2>1, <2>3, <3>3
    <3> QED
      BY <3>2, <3>4
  <2> QED
    BY <2>2, <2>3
<1>7. CASE OutcomeCommit
  <2>1. CASE run.status = "failed"
    <3>1. /\ DOMAIN runs' = DOMAIN runs /\ runs'[runId] = run /\ run # NoRow
          /\ StoredBy(runId)' = Loaded /\ RefusedBy(runId)' = tx.errors
          /\ \A q \in DOMAIN runs \ {runId} : /\ runs'[q] = runs[q]
                                              /\ StoredBy(q)' = StoredBy(q)
                                              /\ RefusedBy(q)' = RefusedBy(q)
      BY <1>3, <1>7, <2>1, AtOutcomeCommit, CommitOfRun, InvParts DEF OutcomeCommit
    <3>2. CASE r # runId
      BY <1>1, <1>2, <3>1, <3>2
    <3>3. CASE r = runId
      <4>1. Tells(run, Cardinality(Loaded), Cardinality(tx.errors))
        BY <1>7, <2>1, AtOutcomeCommit, InvParts DEF Tells, RunFits
      <4>2. runId' = runId
        BY <1>7 DEF OutcomeCommit
      <4>3. StoredBy(r)' = Loaded /\ RefusedBy(r)' = tx.errors /\ runs'[r] = run
        BY <3>1, <3>3, <4>2
      <4> QED
        BY <4>1, <4>3
    <3> QED
      BY <3>2, <3>3
  <2>2. CASE run.status # "failed"
    <3>1. /\ StoredBy(r)' = StoredBy(r) /\ RefusedBy(r)' = RefusedBy(r)
          /\ DOMAIN runs' = DOMAIN runs
      BY <1>7, <2>2, AtOutcomeCommit, SameTables, InvParts
    <3>2. CASE r # runId
      BY <1>1, <1>2, <1>7, <3>1, <3>2, AtOutcomeCommit, InvParts
    <3>3. CASE r = runId
      <4>1. /\ runs[r] = [run EXCEPT !.status = "running"] /\ runs'[r] = run
            /\ run \in RunRow /\ run.status = "completed" /\ run # NoRow
        BY <1>7, <2>2, <3>3, AtOutcomeCommit, InvParts
      <4>2. /\ runs[r].loaded = run.loaded /\ runs[r].valid = run.valid
            /\ runs[r].invalid = run.invalid /\ runs[r].extracted = run.extracted
            /\ runs[r].status = "running" /\ runs[r] \in RunRow
        BY <4>1 DEF RunRow, Status
      <4>3. runs[r] # NoRow
        BY <4>2, NoRowAssumption
      <4>4. Tells(run, Cardinality(StoredBy(r)), Cardinality(RefusedBy(r)))
        BY <1>1, <1>2, <3>1, <4>1, <4>2, <4>3 DEF Tells
      <4> QED
        BY <3>1, <4>1, <4>4
    <3> QED
      BY <3>2, <3>3
  <2> QED
    BY <2>1, <2>2
<1> QED
  BY <1>4, <1>5, <1>6, <1>7, WorldStep, InvParts

\* A commit of what is uncommitted brings summaries of stored records, and the
\* records of no day without one unless the run has failed.
LEMMA SummariesStep ==
  ASSUME IInv, FInv, [Next]_vars
  PROVE  SummariesAreBacked'
<1>1. /\ StoreTypeOK /\ BatchTypeOK /\ RunsAreKept /\ TxFromBatch /\ TxStages
      /\ SummariesAreBacked
  BY DEF IInv, TypeOK, FInv, RunInHand
<1>2. \A e \in EventIds : market[e] # NoRow => market[e] \in MarketRow
  BY <1>1 DEF StoreTypeOK
<1>3. /\ \A e \in EventIds : market[e] # NoRow => market'[e] = market[e]
      /\ \A k \in Keys : summaries[k] # NoRow => summaries'[k] # NoRow
      /\ \A e \in EventIds : market[e] = NoRow /\ market'[e] # NoRow =>
           \E i \in Valid : batch[i].event_id = e /\ market'[e] = RowOf(i)
  BY TablesGrow, InvParts
<1>4. \A o : Stored(o) \subseteq Stored(o)'
  BY <1>3 DEF Stored
<1>5. ASSUME NEW k \in Keys, summaries'[k] # NoRow, NEW t \in summaries'[k].trades
      PROVE  \E e \in Stored(t[2])' : market'[e].key = k
  <2>1. CASE summaries'[k] = summaries[k]
    <3>1. PICK e \in Stored(t[2]) : market[e].key = k
      BY <1>1, <1>5, <2>1 DEF SummariesAreBacked
    <3>2. market'[e] = market[e]
      BY <1>3 DEF Stored
    <3> QED
      BY <1>4, <3>1, <3>2
  <2>2. CASE CommitTx(tx, runId) /\ Uncommitted /\ tx.summaries[k] # NoRow
    <3>1. summaries'[k] = tx.summaries[k]
      BY <1>1, <2>2 DEF CommitTx, Overlay, StoreTypeOK
    <3>2. PICK i \in Group(k) : t = <<i, batch[i].origin>> /\ Accepted(i)
      BY <1>1, <1>5, <2>2, <3>1 DEF TxFromBatch
    <3>3. i \in DOMAIN batch /\ batch[i].key = k
      BY <1>1, <3>2, PositionsType DEF Group
    <3>4. batch[i].event_id \in EventIds /\ tx.market[batch[i].event_id] = RowOf(i)
          /\ batch[i].event_id \in Loaded
      BY <2>2, <3>2, <3>3, AcceptedIsLoaded, InvParts
    <3>5. market'[batch[i].event_id] = RowOf(i) /\ market'[batch[i].event_id] # NoRow
      BY <1>1, <2>2, <3>4 DEF CommitTx, Overlay, StoreTypeOK, Loaded
    <3>6. RowOf(i).origin = t[2] /\ RowOf(i).key = k
      BY <3>2, <3>3 DEF RowOf
    <3> QED
      BY <3>4, <3>5, <3>6 DEF Stored
  <2>3. CASE CommitTx(tx, runId) /\ tx.summaries[k] = NoRow
    <3>1. summaries'[k] = summaries[k]
      BY <1>1, <2>3 DEF CommitTx, Overlay, StoreTypeOK
    <3> QED
      BY <2>1, <3>1
  <2>4. CASE BatchCommit
    <3>1. Uncommitted /\ CommitTx(tx, runId)
      BY <2>4 DEF BatchCommit, Uncommitted, Stages
    <3> QED
      BY <2>2, <2>3, <3>1
  <2>5. CASE OutcomeCommit
    <3>1. Uncommitted \/ UNCHANGED summaries
      BY <2>5, AtOutcomeCommit, InvParts
    <3> QED
      BY <2>1, <2>2, <2>3, <2>5, <3>1 DEF OutcomeCommit
  <2> QED
    BY <2>1, <2>4, <2>5, WorldStep, InvParts DEF NewRunStep, store
<1>6. ASSUME NEW e \in EventIds, market'[e] # NoRow
      PROVE  summaries'[market'[e].key] # NoRow \/ runs'[market'[e].run].status = "failed"
  <2>1. CASE market[e] # NoRow
    <3>1. /\ market'[e] = market[e] /\ market[e].key \in Keys
          /\ market[e].run \in DOMAIN runs
      BY <1>1, <1>2, <1>3, <2>1 DEF RunsAreKept, MarketRow
    <3>2. CASE summaries[market[e].key] # NoRow
      BY <1>3, <3>1, <3>2
    <3>3. CASE runs[market[e].run].status = "failed"
      <4>1. runs[market[e].run] # NoRow
        BY <1>1, <2>1 DEF RunsAreKept
      <4>2. runs'[market[e].run] = runs[market[e].run]
        <5>1. CASE UNCHANGED store
          BY <5>1 DEF store
        <5>2. CASE NewRunStep
          BY <1>1, <3>1, <5>2, NewRunKeeps
        <5>3. CASE BatchCommit
          BY <1>1, <3>1, <4>1, <5>3, AtBatchCommit, CommitOfRun DEF BatchCommit
        <5>4. CASE OutcomeCommit
          <6>1. runs[runId] = NoRow \/ runs[runId].status = "running"
            <7>1. run \in RunRow /\ (runs[runId] = NoRow
                    \/ runs[runId] = [run EXCEPT !.status = "running"])
              BY <5>4, AtOutcomeCommit, InvParts
            <7> QED
              BY <7>1 DEF RunRow
          <6>2. market[e].run # runId
            BY <3>3, <4>1, <6>1
          <6> QED
            BY <3>1, <5>4, <6>2, AtOutcomeCommit, InvParts
        <5> QED
          BY <5>1, <5>2, <5>3, <5>4, WorldStep, InvParts
      <4> QED
        BY <3>1, <3>3, <4>2
    <3> QED
      BY <1>1, <2>1, <3>2, <3>3 DEF SummariesAreBacked
  <2>2. CASE market[e] = NoRow
    <3>1. PICK i \in Valid : market'[e] = RowOf(i)
      BY <1>3, <1>6, <2>2
    <3>2. market'[e].key = batch[i].key /\ market'[e].run = runId
      BY <3>1 DEF RowOf
    <3>3. CASE BatchCommit
      <4>1. batch[i].key \in Keys
        BY <1>1, PositionsType DEF Message
      <4>2. batch[i].key \in Touched
        BY <4>1 DEF Touched, Group
      <4>3. tx.summaries[batch[i].key] # NoRow
        BY <1>1, <3>3, <4>2 DEF BatchCommit, TxStages
      <4> QED
        BY <1>1, <3>2, <3>3, <4>1, <4>3 DEF BatchCommit, CommitTx, Overlay, StoreTypeOK
    <3>4. CASE OutcomeCommit
      BY <1>6, <2>2, <3>2, <3>4, AtOutcomeCommit, InvParts
    <3> QED
      BY <1>6, <2>2, <3>3, <3>4, WorldStep, InvParts DEF NewRunStep, store
  <2> QED
    BY <2>1, <2>2
<1> QED
  BY <1>5, <1>6 DEF SummariesAreBacked

-----------------------------------------------------------------------------
(* The files.                                                              *)

\* A drop that is gone stays gone.
LEMMA GoneIsStable ==
  ASSUME IInv, FInv, [Next]_vars, NEW d \in 1 .. dropped, Gone(d)
  PROVE  Gone(d)' /\ d \in 1 .. dropped' /\ Origins(d)' = Origins(d)
<1>1. dropped \in Nat
  BY Numbers DEF IInv
<1>2. d # 0 /\ d # dropped + 1 /\ d \in 1 .. dropped'
  BY <1>1, WorldStep, InvParts
<1>3. Gone(d)'
  BY <1>2, WorldStep, InvParts DEF Gone
<1>4. Origins(d)' = Origins(d)
  BY WorldStep, InvParts DEF Origins
<1> QED
  BY <1>2, <1>3, <1>4

\* A drop that has had its effect keeps it.
LEMMA SettledIsStable ==
  ASSUME IInv, FInv, [Next]_vars, NEW d, Settled(d)
  PROVE  Settled(d)'
<1>1. /\ \A e \in EventIds : market[e] # NoRow => market'[e] = market[e]
      /\ errors \subseteq errors'
  BY TablesGrow, InvParts
<1>2. \A o : Stored(o) \subseteq Stored(o)'
  BY <1>1 DEF Stored
<1>3. drops' = drops
  BY WorldStep, InvParts
<1> QED
  BY <1>1, <1>2, <1>3 DEF Settled

\* Once its file is in the archive, the batch is of a drop that is gone.
LEMMA ArchiveIsGone ==
  ASSUME IInv, FInv, Archive
  PROVE  Gone(reading)'
<1>1. /\ pc = "archive" /\ input' = [input EXCEPT ![name] = 0]
      /\ UNCHANGED <<errordir, reading>>
  BY DEF Archive, scanVars
<1>2. /\ name \in Names /\ reading \in 1 .. dropped /\ drops[reading].name = name
      /\ errordir[name] # reading /\ dropped \in Nat
  BY <1>1, Numbers DEF IInv, Holding
<1>3. \A n \in Names : input'[n] = IF n = name THEN 0 ELSE input[n]
  BY <1>1 DEF IInv, TypeOK, Directory
<1>4. \A n \in Names : input'[n] # reading /\ errordir'[n] # reading
  BY <1>1, <1>2, <1>3 DEF IInv, Placement
<1> QED
  BY <1>1, <1>4 DEF Gone

\* The batch goes on being of the file in hand.
LEMMA BatchFromFileStep ==
  ASSUME IInv, FInv, [Next]_vars
  PROVE  BatchFromFile'
<1>1. BatchFromFile /\ drops' = drops /\ disturbed \subseteq disturbed'
  BY WorldStep, InvParts DEF FInv, RunInHand
<1>2. ASSUME pc' \in {"idle", "next"} PROVE BatchFromFile'
  BY <1>2 DEF BatchFromFile, Stages
<1>3. ASSUME batch' = <<>>, pc' \in {"reject", "except"} PROVE BatchFromFile'
  <2>1. DOMAIN batch' = {}
    BY <1>3
  <2> QED
    BY <1>3, <2>1 DEF BatchFromFile, Stages
<1>4. ASSUME UNCHANGED <<batch, reading>>,
             pc' \notin {"archive", "idle", "next"} => pc \notin {"archive", "idle", "next"},
             pc' \in Stages \cup {"archive"} => pc \in Stages \cup {"archive"}
      PROVE  BatchFromFile'
  <2>1. ASSUME pc' \notin {"archive", "idle", "next"}, NEW i \in DOMAIN batch
        PROVE  batch[i].origin \in Origins(reading)' /\ Gone(reading)'
    <3>1. /\ batch[i].origin \in Origins(reading) /\ Gone(reading)
          /\ reading \in 1 .. dropped
      BY <1>1, <1>4, <2>1 DEF BatchFromFile, IInv, Holding
    <3>2. PICK d \in 1 .. dropped : d = reading
      BY <3>1
    <3>3. Gone(d)' /\ Origins(d)' = Origins(d)
      BY <3>1, <3>2, GoneIsStable
    <3>4. Gone(reading)'
      BY <1>4, <3>2, <3>3 DEF Gone
    <3>5. Origins(reading)' = Origins(reading)
      BY <1>1, <1>4 DEF Origins
    <3> QED
      BY <3>1, <3>4, <3>5
  <2>2. ASSUME pc' \in Stages \cup {"archive"}
        PROVE  /\ drops'[reading'].readable
               /\ \/ reading' \in disturbed'
                  \/ \A p \in DOMAIN drops'[reading'].rows :
                       \/ drops'[reading'].rows[p].fate = "unparsable"
                       \/ \E i \in DOMAIN batch' :
                            /\ batch'[i].origin = drops'[reading'].rows[p].origin
                            /\ batch'[i].fate = drops'[reading'].rows[p].fate
    BY <1>1, <1>4, <2>2 DEF BatchFromFile
  <2> QED
    BY <1>4, <2>1, <2>2 DEF BatchFromFile
<1>5. CASE Scan \/ ScanDone \/ CommitOutcome \/ OutcomeFails \/ Crash
  BY <1>2, <1>5 DEF Scan, ScanDone, CommitOutcome, OutcomeFails, Crash
<1>6. CASE ReadFile
  BY <1>1, <1>6, ReadFileBatch, InvParts DEF BatchFromFile
<1>7. CASE ReadFileFails \/ ArchiveFails \/ MoveToErrors \/ MoveToErrorsFails
  <2>1. pc = "reject" => batch = <<>>
    BY DEF IInv, Holding
  <2> QED
    BY <1>3, <1>7, <2>1 DEF ReadFileFails, ArchiveFails, MoveToErrors, MoveToErrorsFails
<1>8. CASE Archive
  <2>1. /\ pc = "archive" /\ pc' = "clean" /\ UNCHANGED <<batch, reading>>
    BY <1>8 DEF Archive, scanVars
  <2>2. \A i \in DOMAIN batch : batch[i].origin \in Origins(reading)
    BY <2>1 DEF IInv, Holding
  <2>3. Origins(reading)' = Origins(reading)
    BY <1>1, <2>1 DEF Origins
  <2>4. Gone(reading)'
    BY <1>8, ArchiveIsGone
  <2> QED
    BY <1>1, <2>1, <2>2, <2>3, <2>4 DEF BatchFromFile
<1>9. CASE Process
  <2>1. /\ pc \in Stages /\ pc' \in Stages \cup {"processed", "except"}
        /\ batch' = batch /\ reading' = reading
    BY <1>9, ProcessStepType, ProcessStepEffect DEF Process, IInv, TypeOK, scanVars
  <2> QED
    BY <1>4, <2>1 DEF Stages
<1>10. CASE Complete \/ HandleFailure \/ SaveOutcome
  BY <1>4, <1>10 DEF Complete, HandleFailure, SaveOutcome, scanVars, Stages
<1>11. CASE Drop \/ Copied \/ UNCHANGED vars
  BY <1>4, <1>11 DEF Drop, Copied, vars, batchVars, scanVars
<1> QED
  BY <1>5, <1>6, <1>7, <1>8, <1>9, <1>10, <1>11 DEF Next, Work

\* What a commit leaves of an undisturbed file: every row has had its effect.
LEMMA CommitSettles ==
  ASSUME IInv, FInv, BatchCommit, drops' = drops, reading' = reading,
         reading \notin disturbed
  PROVE  Settled(reading)'
<1>1. /\ StoreTypeOK /\ BatchTypeOK /\ StageInv /\ pc = "commit"
      /\ CommitTx(tx, runId) /\ batch' = batch
  BY DEF IInv, TypeOK, FInv, RunInHand, BatchCommit
<1>2. \A i \in DOMAIN batch : Recorded(i)'
  BY <1>1, CommitRecords
<1>3. /\ drops[reading].readable
      /\ \A p \in DOMAIN drops[reading].rows :
           \/ drops[reading].rows[p].fate = "unparsable"
           \/ \E i \in DOMAIN batch : /\ batch[i].origin = drops[reading].rows[p].origin
                                      /\ batch[i].fate = drops[reading].rows[p].fate
  BY <1>1 DEF FInv, RunInHand, BatchFromFile, Stages
<1>4. ASSUME NEW p \in DOMAIN drops[reading].rows
      PROVE  LET row == drops[reading].rows[p]
             IN  CASE row.fate = "ok"         ->
                        \E e \in EventIds : market'[e] # NoRow /\ market'[e].origin = row.origin
                   [] row.fate = "unparsable" -> TRUE
                   [] OTHER                   -> \E x \in errors' : x.origin = row.origin
  <2>1. CASE drops[reading].rows[p].fate = "unparsable"
    BY <2>1
  <2>2. CASE drops[reading].rows[p].fate # "unparsable"
    <3>1. PICK i \in DOMAIN batch : /\ batch[i].origin = drops[reading].rows[p].origin
                                    /\ batch[i].fate = drops[reading].rows[p].fate
      BY <1>3, <2>2
    <3>2. CASE batch[i].fate = "ok"
      <4>1. i \in Valid
        <5>1. Coherent(batch[i])
          BY <1>1, PositionsType DEF Message
        <5> QED
          BY <3>2, <5>1 DEF Valid, Invalid, WithFate, Coherent, Wide
      <4>2. /\ batch[i].event_id \in EventIds /\ batch[i].event_id \in Loaded
            /\ market'[batch[i].event_id] = RowOf(i)
            /\ tx.market[batch[i].event_id] = RowOf(i)
        BY <4>1, BatchIsStored, InvParts
      <4>3. RowOf(i) # NoRow /\ RowOf(i).origin = batch[i].origin
        BY <4>2 DEF Loaded, RowOf
      <4> QED
        BY <3>1, <3>2, <4>2, <4>3
    <3>3. CASE batch[i].fate # "ok"
      <4>1. \E x \in errors' : x.origin = batch[i].origin
        BY <1>1, <1>2, <2>2, <3>1, <3>3 DEF Recorded
      <4> QED
        BY <2>2, <3>1, <3>3, <4>1
    <3> QED
      BY <3>2, <3>3
  <2> QED
    BY <2>1, <2>2
<1>5. drops'[reading'].readable /\ DOMAIN drops'[reading'].rows = DOMAIN drops[reading].rows
  BY <1>3
<1> QED
  BY <1>4, <1>5 DEF Settled, Stored

\* The file of a failed run was logged, that of a completed one had its effect.
LEMMA HandledStep ==
  ASSUME IInv, FInv, [Next]_vars
  PROVE  Handled'
<1>1. /\ Handled /\ failed \subseteq failed' /\ disturbed \subseteq disturbed'
      /\ drops' = drops
  BY WorldStep, InvParts DEF FInv, RunInHand
<1>2. ASSUME pc' \notin {"processed", "finally", "finalcommit"} PROVE Handled'
  BY <1>2 DEF Handled
<1>3. ASSUME reading' = reading, Settled(reading) PROVE Settled(reading)'
  <2>1. PICK d : d = reading
    OBVIOUS
  <2>2. Settled(d)'
    BY <1>3, <2>1, SettledIsStable
  <2> QED
    BY <1>3, <2>1, <2>2 DEF Settled
<1>4. ASSUME UNCHANGED <<pc, run, reading>> PROVE Handled'
  BY <1>1, <1>3, <1>4 DEF Handled
<1>5. CASE Process
  <2>1. reading' = reading /\ pc' \notin {"finally", "finalcommit"}
    BY <1>5, ProcessStepEffect DEF Process, IInv, TypeOK, scanVars, Stages
  <2>2. CASE pc' # "processed"
    BY <1>2, <2>1, <2>2
  <2>3. CASE pc' = "processed"
    <3>1. BatchCommit
      BY <1>5, <2>3, ProcessStepType, ProcessStepEffect DEF Process, IInv, TypeOK, BatchCommit
    <3>2. reading \in disturbed \/ Settled(reading)'
      BY <1>1, <2>1, <3>1, CommitSettles
    <3> QED
      BY <1>1, <2>1, <2>3, <3>2 DEF Handled
  <2> QED
    BY <2>2, <2>3
<1>6. CASE Complete
  <2>1. /\ pc = "processed" /\ pc' = "finally" /\ reading' = reading
        /\ run' = [run EXCEPT !.status = "completed"] /\ run \in RunRow
    BY <1>6 DEF Complete, scanVars, IInv, TypeOK, BatchTypeOK
  <2>2. run'.status = "completed"
    BY <2>1 DEF RunRow
  <2> QED
    BY <1>1, <1>3, <2>1, <2>2 DEF Handled
<1>7. CASE HandleFailure
  <2>1. /\ pc' = "finally" /\ reading' = reading /\ reading \in failed'
        /\ run' = [run EXCEPT !.status = "failed"] /\ run \in RunRow
    BY <1>7 DEF HandleFailure, scanVars, IInv, TypeOK, BatchTypeOK
  <2>2. run'.status = "failed"
    BY <2>1 DEF RunRow
  <2> QED
    BY <2>1, <2>2 DEF Handled
<1>8. CASE SaveOutcome
  <2>1. /\ pc = "finally" /\ pc' = "finalcommit" /\ UNCHANGED <<run, reading>>
    BY <1>8 DEF SaveOutcome, scanVars
  <2> QED
    BY <1>1, <1>3, <2>1 DEF Handled
<1>9. CASE \/ Scan \/ ScanDone \/ ReadFile \/ ReadFileFails \/ Archive \/ ArchiveFails
           \/ MoveToErrors \/ MoveToErrorsFails \/ CommitOutcome \/ OutcomeFails \/ Crash
  BY <1>2, <1>9 DEF Scan, ScanDone, ReadFile, ReadFileFails, Archive, ArchiveFails,
     MoveToErrors, MoveToErrorsFails, CommitOutcome, OutcomeFails, Crash
<1>10. CASE Drop \/ Copied \/ UNCHANGED vars
  BY <1>4, <1>10 DEF Drop, Copied, vars, batchVars, scanVars
<1> QED
  BY <1>5, <1>6, <1>7, <1>8, <1>9, <1>10 DEF Next, Work

\* A file leaves the input directory into the hands of the scan, or disturbed;
\* the scan lets go of it handled, or is cut off by a crash.
LEMMA AccountedStep ==
  ASSUME IInv, FInv, [Next]_vars
  PROVE  FilesAreAccounted'
<1>1. /\ FilesAreAccounted /\ drops' = drops /\ dropped' \in {dropped, dropped + 1}
      /\ failed \subseteq failed' /\ disturbed \subseteq disturbed'
      /\ dropped \in Nat /\ dropped <= Len(drops) /\ Len(drops) \in Nat
      /\ \A d \in 1 .. Len(drops) : drops[d].name \in Names
  BY WorldStep, Numbers, InvParts DEF FInv, RunInHand, IInv
<1>2. SUFFICES ASSUME NEW d \in 1 .. dropped'
               PROVE  \/ input'[drops[d].name] = d
                      \/ InHand(d)'
                      \/ Settled(d)'
                      \/ d \in failed' \cup disturbed'
  BY <1>1 DEF FilesAreAccounted
<1>3. CASE d \notin 1 .. dropped
  <2>1. d = dropped + 1 /\ Drop
    <3>1. d = dropped + 1 /\ dropped' # dropped
      BY <1>1, <1>2, <1>3
    <3> QED
      BY <3>1 DEF Next, Work, Scan, ScanDone, ReadFile, ReadFileFails, TakeUp, Archive,
         ArchiveFails, MoveToErrors, MoveToErrorsFails, Process, Complete, HandleFailure,
         SaveOutcome, CommitOutcome, OutcomeFails, Copied, Crash, world, vars
  <2>2. drops[d].name \in Names
    BY <1>1, <2>1 DEF Drop
  <2>3. input'[drops[d].name] = d
    BY <2>1, <2>2 DEF Drop, IInv, TypeOK, Directory
  <2> QED
    BY <2>3
<1>4. CASE d \in 1 .. dropped
  <2>1. d \in 1 .. Len(drops) /\ drops[d].name \in Names
    BY <1>1, <1>4
  <2>2. CASE Settled(d)
    BY <2>2, SettledIsStable
  <2>3. CASE d \in failed \cup disturbed
    BY <1>1, <2>3
  <2>4. CASE input[drops[d].name] = d
    <3> DEFINE n == drops[d].name
    <3>1. CASE input' = input
      BY <2>4, <3>1
    <3>2. CASE Archive \/ MoveToErrors
      <4>1. /\ pc \in {"archive", "reject"} /\ pc' \in {"clean", "except"}
            /\ input' = [input EXCEPT ![name] = 0] /\ reading' = reading
            /\ disturbed' = IF input[name] # reading
                              THEN disturbed \cup {input[name]} ELSE disturbed
        BY <3>2 DEF Archive, MoveToErrors, scanVars
      <4>2. CASE n # name
        <5>1. input'[n] = input[n]
          BY <2>1, <4>1, <4>2 DEF IInv, TypeOK, Directory
        <5> QED
          BY <2>4, <5>1
      <4>3. CASE n = name
        BY <2>4, <4>1, <4>3 DEF InHand
      <4> QED
        BY <4>2, <4>3
    <3>3. CASE Drop
      <4> DEFINE m == drops[dropped + 1].name
      <4>1. /\ input' = [input EXCEPT ![m] = dropped + 1]
            /\ disturbed' = IF input[m] # 0 THEN disturbed \cup {input[m]} ELSE disturbed
        BY <3>3 DEF Drop
      <4>2. CASE n # m
        <5>1. input'[n] = input[n]
          BY <2>1, <4>1, <4>2 DEF IInv, TypeOK, Directory
        <5> QED
          BY <2>4, <5>1
      <4>3. CASE n = m
        BY <1>4, <2>4, <4>1, <4>3
      <4> QED
        BY <4>2, <4>3
    <3> QED
      BY <3>1, <3>2, <3>3 DEF Next, Work, Scan, ScanDone, ReadFile, ReadFileFails, TakeUp,
         ArchiveFails, MoveToErrorsFails, Process, Complete, HandleFailure,
         SaveOutcome, CommitOutcome, OutcomeFails, Copied, Crash, dirs, vars
  <2>5. CASE InHand(d)
    <3>1. d = reading /\ pc \notin {"idle", "next"}
      BY <2>5 DEF InHand
    <3>2. CASE reading' = reading /\ pc' \notin {"idle", "next"}
      BY <3>1, <3>2 DEF InHand
    <3>3. CASE Crash
      BY <2>1, <2>5, <3>3 DEF Crash
    <3>4. CASE CommitOutcome \/ OutcomeFails
      <4>1. pc \in {"finally", "finalcommit"}
        BY <3>4 DEF CommitOutcome, OutcomeFails
      <4>2. d \in failed \cup disturbed \/ Settled(d)
        BY <3>1, <4>1 DEF FInv, RunInHand, RunOutside, Handled
      <4> QED
        BY <2>2, <2>3, <4>2
    <3>5. CASE Process
      BY <3>1, <3>2, <3>5, ProcessStepEffect DEF Process, IInv, TypeOK, scanVars, Stages
    <3> QED
      BY <3>1, <3>2, <3>3, <3>4, <3>5 DEF Next, Work, Scan, ScanDone, ReadFile, ReadFileFails,
         TakeUp, Archive, ArchiveFails, MoveToErrors, MoveToErrorsFails, Complete,
         HandleFailure, SaveOutcome, Drop, Copied, batchVars, scanVars, vars
  <2> QED
    BY <1>1, <1>4, <2>2, <2>3, <2>4, <2>5 DEF FilesAreAccounted
<1> QED
  BY <1>3, <1>4

\* The drops a step's runs have read, spelled out.
LEMMA SourcesOf ==
  ASSUME drops' = drops, NEW src \in [DOMAIN runs' -> 0 .. Len(drops)],
         \A e \in EventIds : market'[e] # NoRow =>
           /\ src[market'[e].run] \in 1 .. dropped'
           /\ market'[e].origin \in {drops'[src[market'[e].run]].rows[i].origin :
                                       i \in DOMAIN drops'[src[market'[e].run]].rows}
           /\ \A n \in Names : /\ input'[n] # src[market'[e].run]
                               /\ errordir'[n] # src[market'[e].run]
           /\ Uncommitted' => src[market'[e].run] # reading',
         \A e, f \in EventIds :
           /\ market'[e] # NoRow /\ market'[f] # NoRow
           /\ src[market'[e].run] = src[market'[f].run]
           /\ market'[e].origin = market'[f].origin
           => e = f,
         Uncommitted' => src[runId'] = reading'
  PROVE  RowsHaveSources'
<1>1. Sourced(src)'
  BY DEF Sourced, Gone, Origins
<1> QED
  BY <1>1 DEF RowsHaveSources

\* A run is uncommitted from its file's being taken up until its commit.
LEMMA StillUncommitted ==
  ASSUME IInv, FInv, [Next]_vars, Uncommitted', ~ (ReadFile \/ ReadFileFails)
  PROVE  Uncommitted /\ UNCHANGED <<runId, reading>>
<1>1. CASE Process
  BY <1>1, ProcessStepType DEF Process, IInv, TypeOK, scanVars, Uncommitted
<1>2. CASE Archive \/ ArchiveFails \/ MoveToErrors \/ MoveToErrorsFails
  BY <1>2 DEF Archive, ArchiveFails, MoveToErrors, MoveToErrorsFails, Uncommitted, scanVars
<1>3. CASE Complete
  <2>1. pc' = "finally" /\ run'.status = "completed"
    BY <1>3 DEF Complete, IInv, TypeOK, BatchTypeOK, RunRow
  <2> QED
    BY <2>1 DEF Uncommitted, Stages
<1>4. CASE HandleFailure
  BY <1>4 DEF HandleFailure, Uncommitted, Stages, scanVars
<1>5. CASE SaveOutcome
  BY <1>5 DEF SaveOutcome, Uncommitted, Stages, scanVars
<1>6. CASE Scan \/ ScanDone \/ CommitOutcome \/ OutcomeFails \/ Crash
  BY <1>6 DEF Scan, ScanDone, CommitOutcome, OutcomeFails, Crash, Uncommitted, Stages
<1>7. CASE Drop \/ Copied \/ UNCHANGED vars
  BY <1>7 DEF Drop, Copied, vars, batchVars, scanVars, Uncommitted
<1> QED
  BY <1>1, <1>2, <1>3, <1>4, <1>5, <1>6, <1>7 DEF Next, Work

\* The rows a commit adds come from the file in hand, which no other run read;
\* a file is read by the run that is registered with it.
LEMMA SourcesStep ==
  ASSUME IInv, FInv, [Next]_vars
  PROVE  RowsHaveSources'
<1>1. /\ StoreTypeOK /\ BatchTypeOK /\ RunsAreKept /\ FreshBatch /\ BatchFromFile
      /\ drops' = drops /\ dropped \in Nat
  BY WorldStep, Numbers, InvParts DEF IInv, TypeOK, FInv, RunInHand
<1>2. PICK src \in [DOMAIN runs -> 0 .. Len(drops)] : Sourced(src)
  BY DEF FInv, RunInHand, RowsHaveSources
<1>3. /\ \A e \in EventIds : market[e] # NoRow => market'[e] = market[e]
      /\ \A e \in EventIds : market[e] = NoRow /\ market'[e] # NoRow =>
           /\ Uncommitted /\ ~ Uncommitted'
           /\ \E i \in Valid : batch[i].event_id = e /\ market'[e] = RowOf(i)
  BY TablesGrow, InvParts
<1>4. ASSUME NEW e \in EventIds, market[e] # NoRow
      PROVE  /\ market[e].run \in DOMAIN runs
             /\ src[market[e].run] \in 1 .. dropped
             /\ src[market[e].run] \in 1 .. dropped'
             /\ market[e].origin \in Origins(src[market[e].run])
             /\ market[e].origin \in {drops'[src[market[e].run]].rows[i].origin :
                                        i \in DOMAIN drops'[src[market[e].run]].rows}
             /\ \A n \in Names : /\ input'[n] # src[market[e].run]
                                 /\ errordir'[n] # src[market[e].run]
  <2>1. PICK d \in 1 .. dropped : d = src[market[e].run]
    BY <1>2, <1>4 DEF Sourced
  <2>2. Gone(d)' /\ d \in 1 .. dropped' /\ Origins(d)' = Origins(d)
    BY <1>2, <1>4, <2>1, GoneIsStable DEF Sourced
  <2>3. /\ market[e].run \in DOMAIN runs
        /\ market[e].origin \in Origins(d)
    BY <1>1, <1>2, <1>4, <2>1 DEF Sourced, RunsAreKept
  <2> QED
    BY <2>1, <2>2, <2>3 DEF Gone, Origins
<1>5. CASE ReadFile \/ ReadFileFails
  <2>1. PICK n \in pending : TakeUp(n)
    BY <1>5 DEF ReadFile, ReadFileFails
  <2>2. NewRunStep /\ runId' = Len(runs) + 1
    BY <1>5, TakeUpInHand, InvParts DEF NewRunStep
  <2>3. /\ Len(runs) \in Nat /\ DOMAIN runs = 1 .. Len(runs)
        /\ DOMAIN runs' = DOMAIN runs \cup {Len(runs) + 1}
    BY <1>1, <2>2, NewRunKeeps
  <2>4. /\ reading' \in 0 .. Len(drops) /\ reading' = input[n] /\ n \in Names
        /\ UNCHANGED <<market, dropped, input, errordir>>
    <3>1. Len(drops) \in Nat
      BY Numbers DEF IInv
    <3> QED
      BY <2>1, <3>1, TakeUpFacts, Parts DEF world, dirs
  <2>5. PICK new \in [DOMAIN runs' -> 0 .. Len(drops)] :
          new[runId'] = reading' /\ \A r \in DOMAIN runs : new[r] = src[r]
    <3> DEFINE f == [r \in DOMAIN runs' |-> IF r = runId' THEN reading' ELSE src[r]]
    <3>1. /\ f \in [DOMAIN runs' -> 0 .. Len(drops)]
          /\ f[runId'] = reading' /\ \A r \in DOMAIN runs : f[r] = src[r]
      BY <2>2, <2>3, <2>4
    <3> QED
      BY <3>1
  <2>6. ASSUME NEW e \in EventIds, market[e] # NoRow
        PROVE  /\ new[market[e].run] = src[market[e].run]
               /\ src[market[e].run] # reading'
    BY <1>4, <2>4, <2>5, <2>6
  <2>7. \A e, f \in EventIds :
          /\ market[e] # NoRow /\ market[f] # NoRow
          /\ new[market[e].run] = new[market[f].run]
          /\ market[e].origin = market[f].origin
          => e = f
    BY <1>2, <2>6 DEF Sourced
  <2>8. ASSUME NEW e \in EventIds, market'[e] # NoRow
        PROVE  /\ new[market'[e].run] \in 1 .. dropped'
               /\ market'[e].origin \in {drops'[new[market'[e].run]].rows[i].origin :
                                           i \in DOMAIN drops'[new[market'[e].run]].rows}
               /\ \A m \in Names : /\ input'[m] # new[market'[e].run]
                                   /\ errordir'[m] # new[market'[e].run]
               /\ Uncommitted' => new[market'[e].run] # reading'
    <3>1. market[e] # NoRow /\ market' = market
      BY <2>4, <2>8
    <3>2. PICK d : d = src[market[e].run]
      OBVIOUS
    <3>3. new[market'[e].run] = d /\ d # reading'
      BY <2>6, <3>1, <3>2
    <3>4. /\ d \in 1 .. dropped'
          /\ market'[e].origin \in {drops'[d].rows[i].origin : i \in DOMAIN drops'[d].rows}
          /\ \A m \in Names : input'[m] # d /\ errordir'[m] # d
      BY <1>4, <3>1, <3>2
    <3> QED
      BY <3>3, <3>4
  <2>9. \A e, f \in EventIds :
          /\ market'[e] # NoRow /\ market'[f] # NoRow
          /\ new[market'[e].run] = new[market'[f].run]
          /\ market'[e].origin = market'[f].origin
          => e = f
    BY <2>4, <2>7
  <2> QED
    BY <1>1, <2>5, <2>8, <2>9, SourcesOf
<1>6. CASE ~ (ReadFile \/ ReadFileFails)
  <2>1. DOMAIN runs' = DOMAIN runs
    <3>1. CASE BatchCommit
      BY <1>1, <3>1, AtBatchCommit, CommitOfRun DEF BatchCommit, FInv, RunInHand
    <3> QED
      BY <1>6, <3>1, WorldStep, AtOutcomeCommit, InvParts DEF store
  <2>2. Uncommitted' => Uncommitted /\ UNCHANGED <<runId, reading>>
    BY <1>1, <1>6, StillUncommitted
  <2>3. ASSUME NEW e \in EventIds, market[e] = NoRow, market'[e] # NoRow
        PROVE  /\ src[market'[e].run] = reading /\ market'[e].run = runId
               /\ reading \in 1 .. dropped /\ Gone(reading) /\ ~ Uncommitted'
               /\ Uncommitted
               /\ \E i \in DOMAIN batch : /\ batch[i].event_id = e
                                          /\ batch[i].origin = market'[e].origin
               /\ market'[e].origin \in Origins(reading)
    <3>1. PICK i \in Valid : batch[i].event_id = e /\ market'[e] = RowOf(i)
      BY <1>3, <2>3
    <3>2. i \in DOMAIN batch /\ market'[e].run = runId /\ market'[e].origin = batch[i].origin
      BY <1>1, <3>1, PositionsType DEF RowOf
    <3>3. Uncommitted /\ ~ Uncommitted'
      BY <1>3, <2>3
    <3>4. BatchCommit \/ OutcomeCommit
      BY <1>6, <2>3, WorldStep, InvParts DEF store
    <3>5. pc \notin {"archive", "idle", "next"}
      BY <3>4 DEF BatchCommit, OutcomeCommit
    <3>6. batch[i].origin \in Origins(reading) /\ Gone(reading) /\ reading \in 1 .. dropped
      BY <1>1, <3>2, <3>5 DEF BatchFromFile, IInv, Holding
    <3>7. src[runId] = reading
      BY <1>2, <3>3 DEF Sourced
    <3> QED
      BY <3>1, <3>2, <3>3, <3>6, <3>7
  <2>4. ASSUME NEW e \in EventIds, market'[e] # NoRow
        PROVE  /\ src[market'[e].run] \in 1 .. dropped'
               /\ market'[e].origin \in {drops'[src[market'[e].run]].rows[i].origin :
                                           i \in DOMAIN drops'[src[market'[e].run]].rows}
               /\ \A n \in Names : /\ input'[n] # src[market'[e].run]
                                   /\ errordir'[n] # src[market'[e].run]
               /\ Uncommitted' => src[market'[e].run] # reading'
    <3>1. CASE market[e] # NoRow
      <4>1. market'[e] = market[e]
        BY <1>3, <3>1
      <4>2. Uncommitted' => src[market[e].run] # reading'
        BY <1>2, <2>2, <3>1 DEF Sourced
      <4> QED
        BY <1>4, <3>1, <4>1, <4>2
    <3>2. CASE market[e] = NoRow
      <4>1. PICK d \in 1 .. dropped : d = reading
        BY <2>3, <2>4, <3>2
      <4>2. Gone(d) /\ src[market'[e].run] = d /\ ~ Uncommitted' /\ market'[e].origin \in Origins(d)
        BY <2>3, <2>4, <3>2, <4>1
      <4>3. Gone(d)' /\ d \in 1 .. dropped' /\ Origins(d)' = Origins(d)
        BY <4>2, GoneIsStable
      <4> QED
        BY <4>2, <4>3 DEF Gone, Origins
    <3> QED
      BY <3>1, <3>2
  <2>5. ASSUME NEW e \in EventIds, NEW f \in EventIds,
               market'[e] # NoRow, market'[f] # NoRow,
               src[market'[e].run] = src[market'[f].run],
               market'[e].origin = market'[f].origin
        PROVE  e = f
    <3>1. CASE market[e] # NoRow /\ market[f] # NoRow
      BY <1>2, <1>3, <2>5, <3>1 DEF Sourced
    <3>2. CASE market[e] = NoRow /\ market[f] = NoRow
      <4>1. PICK i \in DOMAIN batch :
               batch[i].event_id = e /\ batch[i].origin = market'[e].origin
        BY <2>3, <2>5, <3>2
      <4>2. PICK j \in DOMAIN batch :
               batch[j].event_id = f /\ batch[j].origin = market'[f].origin
        BY <2>3, <2>5, <3>2
      <4> QED
        BY <1>1, <2>5, <4>1, <4>2 DEF FreshBatch
    <3>3. ASSUME NEW g \in {e, f}, NEW h \in {e, f}, market[g] # NoRow, market[h] = NoRow
          PROVE  FALSE
      <4>1. src[market'[h].run] = reading /\ Uncommitted
        BY <2>3, <2>5, <3>3
      <4>2. src[market'[g].run] # reading
        BY <1>2, <1>3, <2>5, <3>3, <4>1 DEF Sourced
      <4> QED
        BY <2>5, <4>1, <4>2
    <3> QED
      BY <3>1, <3>2, <3>3
  <2>6. Uncommitted' => src[runId'] = reading'
    BY <1>2, <2>2 DEF Sourced
  <2> QED
    BY <1>1, <1>2, <2>1, <2>4, <2>5, <2>6, SourcesOf
<1> QED
  BY <1>5, <1>6

-----------------------------------------------------------------------------
(* The job beside another writer of the tables.                            *)

\* What is in hand at one step is in hand at the next.
LEMMA RunInHandStep ==
  ASSUME JobInv, RunInHand, RunsAreKept, [Next]_vars
  PROVE  RunInHand'
BY IdleInHand, TakeUpInHand, MoveInHand, ProcessInHand, OutcomeInHand, OtherInHand
   DEF Next, Work

\* A run is given up when the process ends, or for a new one; what is on the
\* dead letter topic stays there.
LEMMA RunIdStep ==
  ASSUME JobInv, RunInHand, RunsAreKept, [Next]_vars
  PROVE  /\ NewRunStep \/ runId' = runId \/ runId' = 0
         /\ dlt \subseteq dlt'
<1>1. CASE Process
  BY <1>1, ProcessStepType, DltStep DEF Process, JobInv, TypeOK
<1>2. CASE ReadFile \/ ReadFileFails
  <2>1. NewRunStep
    BY <1>2, TakeUpInHand
  <2> QED
    BY <1>2, <2>1 DEF ReadFile, ReadFileFails, TakeUp
<1>3. CASE ~ (Process \/ ReadFile \/ ReadFileFails)
  BY <1>3 DEF Next, Work, Scan, ScanDone, Archive, ArchiveFails, MoveToErrors,
     MoveToErrorsFails, Complete, HandleFailure, SaveOutcome, CommitOutcome, OutcomeFails,
     Drop, Copied, Crash, vars, batchVars
<1> QED
  BY <1>1, <1>2, <1>3

\* The rows a commit of the batch brings are those of the file, each under the
\* id it was given.
RowsFromFile ==
  \A i \in DOMAIN batch :
    /\ \E d \in 1 .. Len(drops) : batch[i].origin \in Origins(d)
    /\ GetsStored(i) => market'[batch[i].event_id].origin = batch[i].origin

\* What a step of the job does to the tables.
LEMMA JobWrites ==
  ASSUME JobInv, RunInHand, RunsAreKept, [Next]_vars
  PROVE  /\ \/ UNCHANGED store
            \/ NewRunStep
            \/ BatchRows /\ RowsFromFile /\ runId' = runId
            \/ RunCompletes
         /\ NewRunStep \/ runId' = runId \/ runId' = 0
         /\ \A i \in DOMAIN batch : batch[i].event_id \in Uuids
         /\ drops' = drops /\ dlt \subseteq dlt'
<1>1. /\ StoreTypeOK /\ BatchTypeOK /\ TxFromBatch /\ TxStages /\ TxOutside /\ RunOutside
      /\ FreshBatch /\ InTransit
  BY DEF JobInv, TypeOK, RunInHand
<1>2. ASSUME BatchRows, Uncommitted, pc # "archive" PROVE RowsFromFile
  <2>1. SUFFICES ASSUME NEW i \in DOMAIN batch
                 PROVE  /\ \E d \in 1 .. Len(drops) : batch[i].origin \in Origins(d)
                        /\ GetsStored(i) => market'[batch[i].event_id].origin = batch[i].origin
    BY DEF RowsFromFile
  <2>2. PICK d \in 1 .. dropped : batch[i].origin \in Origins(d)
    BY <1>1, <1>2 DEF InTransit, TakenFrom
  <2>3. d \in 1 .. Len(drops)
    BY Numbers DEF JobInv
  <2>4. ASSUME GetsStored(i) PROVE market'[batch[i].event_id].origin = batch[i].origin
    <3>1. batch[i].event_id \in EventIds /\ market[batch[i].event_id] = NoRow
      BY <1>1, <1>2, PositionsType DEF FreshBatch, Message
    <3>2. PICK j \in DOMAIN batch : /\ batch[j].event_id = batch[i].event_id
                                    /\ market'[batch[i].event_id] = RowOf(j)
      BY <1>2, <2>4, <3>1 DEF BatchRows, RecordsCome, GetsStored
    <3>3. j = i
      BY <1>1, <3>2 DEF FreshBatch
    <3> QED
      BY <3>2, <3>3 DEF RowOf
  <2> QED
    BY <2>2, <2>3, <2>4
<1>3. ASSUME BatchCommit PROVE BatchRows /\ RowsFromFile /\ runId' = runId
  <2>1. pc = "commit" /\ CommitTx(tx, runId) /\ runId' = runId /\ Uncommitted
    BY <1>3 DEF BatchCommit, Uncommitted, Stages
  <2>2. /\ runId \in DOMAIN runs /\ runs[runId] = NoRow
        /\ tx.run \in RunRow /\ tx.run.invalid = Cardinality(Invalid)
        /\ tx.errors = Refusals
    BY <1>1, <1>3, AtBatchCommit
  <2>3. Cardinality(tx.errors) = tx.run.invalid
    BY <1>1, <2>2, BatchCounts
  <2>4. ~ aborted /\ \A k \in Touched : tx.summaries[k] # NoRow
    BY <1>1, <2>1 DEF TxStages, Stages
  <2>5. BatchRows
    BY <1>1, <2>1, <2>2, <2>3, <2>4, CommitIsBatchRows
  <2> QED
    BY <1>2, <2>1, <2>5
<1>4. ASSUME OutcomeCommit
      PROVE  \/ RunCompletes
             \/ BatchRows /\ RowsFromFile /\ runId' = runId
  <2>1. /\ runId \in DOMAIN runs /\ run \in RunRow
        /\ DOMAIN runs' = DOMAIN runs /\ runs'[runId] = run
        /\ \A r \in DOMAIN runs \ {runId} : runs'[r] = runs[r]
    BY <1>4, AtOutcomeCommit
  <2>2. ASSUME run.status = "completed" PROVE RunCompletes
    <3>1. /\ UNCHANGED <<market, summaries, errors>>
          /\ runs[runId] = [run EXCEPT !.status = "running"]
      BY <1>4, <2>2, AtOutcomeCommit
    <3>2. /\ runs[runId] \in RunRow /\ runs[runId].status = "running"
          /\ run = [runs[runId] EXCEPT !.status = "completed"]
      BY <2>1, <2>2, <3>1 DEF RunRow, Status
    <3> QED
      BY <2>1, <3>1, <3>2 DEF RunCompletes
  <2>3. ASSUME run.status = "failed" PROVE BatchRows /\ RowsFromFile /\ runId' = runId
    <3>1. Uncommitted /\ runs[runId] = NoRow /\ tx.run = run /\ RunFits
      BY <1>4, <2>3, AtOutcomeCommit
    <3>2. pc = "finalcommit" /\ CommitTx(tx, runId) /\ runId' = runId
      BY <1>4 DEF OutcomeCommit
    <3>3. ~ aborted
      BY <1>1, <3>2 DEF TxOutside
    <3>4. Cardinality(tx.errors) = tx.run.invalid \/ tx.errors = {}
      <4>1. IsFiniteSet(tx.errors)
        BY <1>1, BatchCounts, FS_EmptySet DEF TxFromBatch
      <4> QED
        BY <3>1, <4>1, FS_EmptySet DEF RunFits
    <3>5. BatchRows
      BY <1>1, <2>1, <2>3, <3>1, <3>2, <3>3, <3>4, CommitIsBatchRows
    <3> QED
      BY <1>2, <3>1, <3>2, <3>5
  <2>4. run.status \in {"completed", "failed"}
    BY <1>1, <1>4 DEF RunOutside, OutcomeCommit
  <2> QED
    BY <2>2, <2>3, <2>4
<1> QED
  BY <1>1, <1>3, <1>4, WorldStep, RunIdStep DEF FreshBatch

\* What another writer leaves of the run in hand.
LEMMA RunInHandBesideOthers ==
  ASSUME JobInv, RunInHand, StoreTypeOK', OthersAdd,
         UNCHANGED <<pc, batch, run, runId, todo, tx, aborted>>,
         \A k \in Keys : tx.summaries[k] # NoRow /\ ~ aborted =>
           (summaries'[k] # NoRow => tx.summaries[k].open = summaries'[k].open)
  PROVE  RunInHand'
<1>1. StoreTypeOK /\ BatchTypeOK
  BY DEF JobInv, TypeOK
<1>2. TxFromBatch' /\ TxStages'
  BY <1>1, TxBesideOthers DEF RunInHand
<1>3. StageInv'
  BY <1>1, StagesBesideOthers DEF RunInHand
<1>4. TxOutside'
  BY DEF RunInHand, TxOutside
<1>5. RunOutside'
  <2>1. RunFits' = RunFits
    BY DEF RunFits, Loaded
  <2> QED
    BY <2>1 DEF RunInHand, RunOutside, Uncommitted, OthersAdd
<1>6. FreshBatch'
  BY DEF RunInHand, FreshBatch, Uncommitted, OthersAdd
<1> QED
  BY <1>2, <1>3, <1>4, <1>5, <1>6 DEF RunInHand

-----------------------------------------------------------------------------
(* The theorems.                                                           *)

\* Initially the tables are empty, and no file has come.
LEMMA InitRows == Init => FInv
<1> SUFFICES ASSUME Init PROVE FInv
  OBVIOUS
<1>1. /\ pc = "idle" /\ tx = EmptyTx /\ ~ aborted /\ dropped = 0 /\ batch = <<>>
      /\ \A e \in EventIds : market[e] = NoRow
      /\ \A k \in Keys : summaries[k] = NoRow
      /\ errors = {} /\ runs = <<>> /\ DOMAIN runs = {} /\ DOMAIN batch = {}
  BY DEF Init, BatchInit, StoreInit
<1>2. /\ \A e \in EventIds : tx.market[e] = NoRow
      /\ \A k \in Keys : tx.summaries[k] = NoRow
      /\ tx.errors = {}
  BY <1>1 DEF EmptyTx
<1>3. TxFromBatch
  BY <1>2 DEF TxFromBatch, Loaded
<1>4. ~ Uncommitted
  BY <1>1 DEF Uncommitted, Stages
<1>5. StageInv /\ TxStages /\ TxOutside /\ RunOutside /\ FreshBatch
  BY <1>1, <1>4 DEF StageInv, TxStages, TxOutside, RunOutside, FreshBatch, Stages
<1>6. BatchFromFile /\ Handled
  BY <1>1 DEF BatchFromFile, Handled, Stages
<1>7. RunsAreKept /\ RunRowsTellOutcome /\ SummariesAreBacked
  BY <1>1 DEF RunsAreKept, RunRowsTellOutcome, SummariesAreBacked
<1>8. FilesAreAccounted
  BY <1>1 DEF FilesAreAccounted
<1>9. RowsHaveSources
  <2> DEFINE src == [r \in DOMAIN runs |-> 0]
  <2>1. src \in [DOMAIN runs -> 0 .. Len(drops)]
    BY <1>1
  <2>2. Sourced(src)
    BY <1>1, <1>4 DEF Sourced
  <2> QED
    BY <2>1, <2>2 DEF RowsHaveSources
<1> QED
  BY <1>3, <1>5, <1>6, <1>7, <1>8, <1>9 DEF FInv, RunInHand

\* Every step, and a step that changes nothing, preserves it.
LEMMA NextRows == IInv /\ FInv /\ [Next]_vars => FInv'
<1> SUFFICES ASSUME IInv, FInv, [Next]_vars PROVE FInv'
  OBVIOUS
<1>1. RunInHand'
  BY RunInHandStep, InvParts
<1>2. RunsAreKept' /\ RunRowsTellOutcome' /\ SummariesAreBacked'
  BY RunsAreKeptStep, OutcomeStep, SummariesStep, InvParts
<1>3. BatchFromFile' /\ Handled' /\ FilesAreAccounted' /\ RowsHaveSources'
  BY BatchFromFileStep, HandledStep, AccountedStep, SourcesStep
<1> QED
  BY <1>1, <1>2, <1>3 DEF FInv, RunInHand, RunInHand

\* IInv and FInv are invariants.
THEOREM RowInvariance == Spec => [](IInv /\ FInv)
<1>1. Init => IInv /\ FInv
  BY InitInv, InitRows
<1>2. IInv /\ FInv /\ [Next]_vars => IInv' /\ FInv'
  BY NextInv, NextRows
<1> QED
  BY <1>1, <1>2, PTL DEF Spec

\* The row of a run tells what it stored and refused, all or nothing when it
\* failed (orchestrator.py:62-104, 165-198).
THEOREM OutcomesAreTrue == Spec => []RunRowsTellOutcome
<1>1. IInv /\ FInv => RunRowsTellOutcome
  BY DEF FInv, RunInHand
<1> QED
  BY RowInvariance, <1>1, PTL

\* No summary has a trade that is not stored, though a failed run's writes are
\* committed (orchestrator.py:96-105, 192-198).
THEOREM SummariesStandBacked == Spec => []SummariesAreBacked
<1>1. IInv /\ FInv => SummariesAreBacked
  BY DEF FInv, RunInHand
<1> QED
  BY RowInvariance, <1>1, PTL

\* No file is given up without a trace (orchestrator.py:165-198,
\* file_reader.py:61-115).
THEOREM FilesStayAccounted == Spec => []FilesAreAccounted
<1>1. IInv /\ FInv => FilesAreAccounted
  BY DEF FInv, RunInHand
<1> QED
  BY RowInvariance, <1>1, PTL

\* The rows with one origin are of different drops that have a row with it.
LEMMA OncePerDrop == TypeOK /\ RowsHaveSources => LoadedOncePerDrop
<1> SUFFICES ASSUME TypeOK, RowsHaveSources,
                    NEW o \in UNION {Origins(d) : d \in 1 .. dropped}
             PROVE  Cardinality(Stored(o)) <=
                      Cardinality({d \in 1 .. dropped : o \in Origins(d)})
  BY DEF LoadedOncePerDrop
<1>1. PICK src : Sourced(src)
  BY DEF RowsHaveSources
<1> DEFINE D == {d \in 1 .. dropped : o \in Origins(d)}
           S == Stored(o)
           f == [e \in S |-> src[market[e].run]]
<1>2. f \in [S -> D]
  BY <1>1 DEF Sourced, Stored
<1>3. \A e, g \in S : f[e] = f[g] => e = g
  BY <1>1 DEF Sourced, Stored
<1>4. f \in Injection(S, D)
  BY <1>2, <1>3 DEF Injection, IsInjective
<1>5. IsFiniteSet(D)
  <2>1. IsFiniteSet(1 .. dropped)
    <3>1. dropped \in Nat
      BY Numbers
    <3> QED
      BY <3>1, FS_Interval
  <2> QED
    BY <2>1, FS_Subset
<1> HIDE DEF f, S, D
<1>6. Cardinality(S) <= Cardinality(D)
  BY <1>4, <1>5, FS_Injection
<1> QED
  BY <1>6 DEF S, D

\* A row is stored once for each time it was dropped at most: no rescan, move
\* that failed or restart loads a file again (file_reader.py:95-107).
THEOREM NoRowTwicePerDrop == Spec => []LoadedOncePerDrop
<1>1. IInv /\ FInv => LoadedOncePerDrop
  BY OncePerDrop DEF IInv, FInv, RunInHand
<1> QED
  BY RowInvariance, <1>1, PTL

=============================================================================
