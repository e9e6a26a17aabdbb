---------------------------- MODULE ProcessBatch ----------------------------
(***************************************************************************)
(* ETLPipeline._process_batch (src/app/pipeline/orchestrator.py): one      *)
(* batch through extract, clean, dead-lettering, normalize, load and       *)
(* aggregate, ending with the first commit.  Both modes extend this        *)
(* module: they put a batch in `batch' with pc = "clean" and take over     *)
(* when pc is "processed" (the method returned) or "except" (it raised).   *)
(*                                                                         *)
(* The steps are the stretches of code between two awaits.  A stage that   *)
(* has nothing to do (the early returns of the DatabaseWriter) is passed   *)
(* over by its action without touching the transaction.                    *)
(*                                                                         *)
(* What the contents of the records decide is in Fates.                    *)
(***************************************************************************)
EXTENDS Store, Fates

CONSTANTS
  ChunkSize,       \* rows per INSERT: batch_size of upsert_market_records (1000)
  MaxErrorRows,    \* rows of 7 parameters the driver takes in one statement:
  MaxSummaryRows,  \* 4681 of 32767 parameters; of 14 parameters, 2340
  InfraFaults      \* may awaited calls to the database or the broker fail?

ASSUME BatchAssumption ==
  /\ ChunkSize \in Nat \ {0}
  /\ MaxErrorRows \in Nat
  /\ MaxSummaryRows \in Nat
  /\ InfraFaults \in BOOLEAN

\* A raw message; time is the rank of its timestamp.
Message == {m \in [origin : Nat, event_id : EventIds, key : Keys, time : Nat,
                   fate : Fates, volume : Volumes, barred : SUBSET Savers] : Coherent(m)}

VARIABLES
  pc,        \* where the worker's task is (`batch', from Fates, is raw_messages)
  run,       \* the PipelineRun object
  runId,     \* its run_id: its number among all runs
  todo,      \* positions the current stage has still to send or insert
  tx,        \* write set of the session's transaction
  aborted,   \* the transaction takes no more statements, only a rollback
  dlt        \* messages acknowledged on the dead letter topic

batchVars == <<pc, batch, run, runId, todo, tx, aborted, dlt>>

Stages == {"clean", "dlt", "errors", "normalize", "records", "summaries",
           "saverun", "commit"}

NewRun == [status |-> "running", extracted |-> 0, valid |-> 0,
           invalid |-> 0, loaded |-> 0]

BatchTypeOK ==
  /\ batch \in Seq(Message)
  /\ run \in RunRow
  /\ runId \in 0 .. Len(runs)
  /\ todo \in SUBSET Parsed
  /\ tx \in TxType
  /\ aborted \in BOOLEAN
  /\ dlt \in SUBSET ErrorRow

BatchInit ==
  /\ batch = <<>>
  /\ run = NewRun
  /\ runId = 0
  /\ todo = {}
  /\ tx = EmptyTx
  /\ aborted = FALSE
  /\ dlt = {}

-----------------------------------------------------------------------------
(* What the stages make of the batch.                                      *)

ErrorFor(i) == [run |-> runId, pos |-> i, origin |-> batch[i].origin,
                payload |-> batch[LastWithId(i)].origin]

\* The first n positions of S.
FirstOf(S, n) == {i \in S : Cardinality({j \in S : j < i}) < n}

\* Mutant: the raw records are aggregated, not the normalized ones.
GroupMutant(k) == {i \in Parsed : batch[i].key = k}

\* groupby(["symbol", "market", "date"]) over the normalized records.
Group(k) == {i \in Valid : batch[i].key = k}
Touched  == {k \in Keys : Group(k) # {}}

\* Rows that may come first in a group after sort_values("timestamp").
Earliest(k) == {i \in Group(k) : \A j \in Group(k) : batch[i].time <= batch[j].time}

\* aggregate(): one summary per group, of the records of this batch alone.
Summary(k, first) == [open   |-> batch[first].origin,
                      trades |-> {<<i, batch[i].origin>> : i \in Group(k)}]

-----------------------------------------------------------------------------
(* The stages.                                                             *)

\* An exception leaves _process_batch; a server error aborts the transaction.
Raise(serverError) ==
  /\ pc' = "except"
  /\ aborted' = (aborted \/ serverError)
  /\ UNCHANGED <<store, batch, run, runId, todo, tx, dlt>>

\* An awaited call to the database fails: before, on or after the server.
DbFails ==
  /\ InfraFaults
  /\ \E serverError \in BOOLEAN : Raise(serverError)

\* extract_batch and clean_batch, up to the first await.
Clean(dltEnabled) ==
  /\ pc = "clean"
  /\ run' = [run EXCEPT !.extracted = @ + Len(batch),
                        !.valid = @ + Cardinality(Valid),
                        !.invalid = @ + Cardinality(Invalid)]
  /\ pc' = "dlt"
  /\ todo' = IF dltEnabled THEN Invalid ELSE {}
  /\ WithFate({"uncastable"}) = {}
  /\ UNCHANGED <<store, batch, runId, tx, aborted, dlt>>

\* clean_batch raises after the extracted records have been counted.
CleanRaises ==
  /\ pc = "clean"
  /\ WithFate({"uncastable"}) # {}
  /\ run' = [run EXCEPT !.extracted = @ + Len(batch)]
  /\ pc' = "except"
  /\ UNCHANGED <<store, batch, runId, todo, tx, aborted, dlt>>

\* One send_to_dlt per invalid record, each awaited, in batch order.
SendToDlt ==
  /\ pc = "dlt"
  /\ \E i \in FirstOf(todo, 1) \ Unsavable("producer") :
       /\ todo' = todo \ {i}
       /\ dlt' = dlt \cup {ErrorFor(i)}
  /\ UNCHANGED <<store, pc, batch, run, runId, tx, aborted>>

\* send_and_wait raises: the producer refuses the message, or the broker fails
\* and may have stored it all the same.
SendToDltFails ==
  /\ pc = "dlt"
  /\ \E i \in FirstOf(todo, 1) :
       IF i \in Unsavable("producer") THEN UNCHANGED dlt
       ELSE InfraFaults /\ dlt' \in {dlt, dlt \cup {ErrorFor(i)}}
  /\ pc' = "except"
  /\ UNCHANGED <<store, batch, run, runId, todo, tx, aborted>>

\* Mutant: the sends are not awaited.
DltDoneMutant ==
  /\ pc = "dlt"
  /\ pc' = "errors"
  /\ todo' = {}
  /\ UNCHANGED <<store, batch, run, runId, tx, aborted, dlt>>

DltDone ==
  /\ pc = "dlt"
  /\ todo = {}
  /\ pc' = "errors"
  /\ UNCHANGED <<store, batch, run, runId, todo, tx, aborted, dlt>>

\* save_validation_errors, one statement, or nothing when no record was invalid.
SaveValidationErrors ==
  /\ pc = "errors"
  /\ Cardinality(Invalid) <= MaxErrorRows
  /\ Unsavable("server") = {}
  /\ tx' = SaveErrors(tx, {ErrorFor(i) : i \in Invalid})
  /\ pc' = "normalize"
  /\ UNCHANGED <<store, batch, run, runId, todo, aborted, dlt>>

\* The driver does not send a statement with too many parameters; of one it
\* sends, the server may refuse the values of a row.
SaveValidationErrorsFails ==
  /\ pc = "errors"
  /\ \/ /\ Cardinality(Invalid) > MaxErrorRows
        /\ Raise(FALSE)
     \/ /\ Cardinality(Invalid) <= MaxErrorRows
        /\ Unsavable("server") # {}
        /\ Raise(TRUE)
     \/ /\ Invalid # {}
        /\ DbFails

Normalize ==
  /\ pc = "normalize"
  /\ Valid \cap WithFate({"untimed"}) = {}
  /\ pc' = "records"
  /\ todo' = Valid
  /\ UNCHANGED <<store, batch, run, runId, tx, aborted, dlt>>

NormalizeRaises ==
  /\ pc = "normalize"
  /\ Valid \cap WithFate({"untimed"}) # {}
  /\ Raise(FALSE)

RowOf(i) == [origin |-> batch[i].origin, key |-> batch[i].key, run |-> runId]

\* The VALUES list for the positions C.
ValuesOf(C) == [i \in C |-> [event_id |-> batch[i].event_id, row |-> RowOf(i)]]

\* Mutant: the slice steps over one record between chunks.
InsertChunkMutant ==
  LET C == FirstOf(todo, ChunkSize) IN
  /\ pc = "records"
  /\ C # {}
  /\ C \cap WithFate({"unstorable", "unencodable"}) = {}
  /\ tx' = InsertRecords(tx, ValuesOf(C))
  /\ todo' = todo \ FirstOf(todo, ChunkSize + 1)
  /\ UNCHANGED <<store, pc, batch, run, runId, aborted, dlt>>

\* One chunk of upsert_market_records.
InsertChunk ==
  LET C == FirstOf(todo, ChunkSize) IN
  /\ pc = "records"
  /\ C # {}
  /\ C \cap WithFate({"unstorable", "unencodable"}) = {}
  /\ tx' = InsertRecords(tx, ValuesOf(C))
  /\ todo' = todo \ C
  /\ UNCHANGED <<store, pc, batch, run, runId, aborted, dlt>>

InsertChunkFails ==
  LET C == FirstOf(todo, ChunkSize) IN
  /\ pc = "records"
  /\ \/ /\ C \cap WithFate({"unencodable"}) # {}
        /\ Raise(FALSE)
     \/ /\ C \cap WithFate({"unencodable"}) = {}
        /\ C \cap WithFate({"unstorable"}) # {}
        /\ Raise(TRUE)
     \/ /\ C # {}
        /\ DbFails

\* Mutant: the records submitted are counted, not those inserted.
RecordsDoneMutant ==
  /\ pc = "records"
  /\ todo = {}
  /\ run' = [run EXCEPT !.loaded = @ + Cardinality(Valid)]
  /\ pc' = "summaries"
  /\ UNCHANGED <<store, batch, runId, todo, tx, aborted, dlt>>

\* upsert_market_records returns the rowcounts' sum: what it has inserted.
RecordsDone ==
  /\ pc = "records"
  /\ todo = {}
  /\ run' = [run EXCEPT !.loaded =
               @ + Cardinality({e \in EventIds : tx.market[e] # NoRow})]
  /\ pc' = "summaries"
  /\ UNCHANGED <<store, batch, runId, todo, tx, aborted, dlt>>

UpsertDailySummaries ==
  /\ pc = "summaries"
  /\ Cardinality(Touched) <= MaxSummaryRows
  /\ \E first \in [Touched -> DOMAIN batch] :
       /\ \A k \in Touched : first[k] \in Earliest(k)
       /\ tx' = UpsertSummaries(tx, [k \in Touched |-> Summary(k, first[k])])
  /\ pc' = "saverun"
  /\ UNCHANGED <<store, batch, run, runId, todo, aborted, dlt>>

UpsertDailySummariesFails ==
  /\ pc = "summaries"
  /\ \/ Cardinality(Touched) > MaxSummaryRows /\ Raise(FALSE)
     \/ Touched # {} /\ DbFails

\* save_pipeline_run: the status is still RUNNING.
SavePipelineRun ==
  /\ pc = "saverun"
  /\ tx' = SaveRun(tx, run)
  /\ pc' = "commit"
  /\ UNCHANGED <<store, batch, run, runId, todo, aborted, dlt>>

SavePipelineRunFails ==
  /\ pc = "saverun"
  /\ DbFails

Commit ==
  /\ pc = "commit"
  /\ CommitTx(tx, runId)
  /\ tx' = EmptyTx
  /\ pc' = "processed"
  /\ UNCHANGED <<batch, run, runId, todo, aborted, dlt>>

\* The connection is lost during COMMIT: it may have taken effect.
CommitFails ==
  /\ pc = "commit"
  /\ InfraFaults
  /\ \/ CommitTx(tx, runId)
     \/ UNCHANGED store
  /\ tx' = EmptyTx
  /\ aborted' = TRUE
  /\ pc' = "except"
  /\ UNCHANGED <<batch, run, runId, todo, dlt>>

ProcessStep(dltEnabled) ==
  \/ Clean(dltEnabled) \/ CleanRaises
  \/ SendToDlt \/ SendToDltFails \/ DltDone
  \/ SaveValidationErrors \/ SaveValidationErrorsFails
  \/ Normalize \/ NormalizeRaises
  \/ InsertChunk \/ InsertChunkFails \/ RecordsDone
  \/ UpsertDailySummaries \/ UpsertDailySummariesFails
  \/ SavePipelineRun \/ SavePipelineRunFails
  \/ Commit \/ CommitFails

-----------------------------------------------------------------------------
(* What holds between the stages, for the proofs.                          *)

\* Position i got through the load: its event id is stored, as far as this
\* transaction sees.
Accepted(i) ==
  /\ batch[i].fate = "ok"
  /\ Overlay(tx.market, market)[batch[i].event_id] # NoRow

\* What the stages passed so far have established.
StageInv ==
  /\ pc \in Stages \ {"clean"} => WithFate({"uncastable"}) = {}
  /\ pc \in Stages \ {"clean", "dlt", "errors", "normalize"} =>
       Valid \cap WithFate({"untimed"}) = {}
  /\ pc \in Stages \ {"clean", "dlt", "errors"} =>
       \A i \in Invalid : ErrorFor(i) \in tx.errors
  /\ pc = "dlt" => todo \subseteq Invalid
  /\ pc = "records" => \A i \in Valid \ todo : Accepted(i)
  /\ pc \in {"summaries", "saverun", "commit"} => \A i \in Valid : Accepted(i)

\* Position i has had its effect on the tables.
Recorded(i) ==
  CASE batch[i].fate = "ok"         -> market[batch[i].event_id] # NoRow
    [] batch[i].fate = "unparsable" -> TRUE
    [] OTHER                        -> \E x \in errors : x.origin = batch[i].origin

=============================================================================
