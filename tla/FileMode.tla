------------------------------ MODULE FileMode ------------------------------
(***************************************************************************)
(* ETLPipeline.run_file_mode with the FileExtractor it drives: the job the *)
(* scheduler starts every few minutes, which reads each pending file of    *)
(* the input directory, moves it to the archive, processes its rows and    *)
(* saves the run.  Jobs of one id never overlap (max_instances is 1).      *)
(*                                                                         *)
(* Others copy files into the input directory: a drop is a file arriving   *)
(* there, known by its number, and a copy takes a while.  A directory maps *)
(* a file name to the drop whose file has that name, 0 for none.  Names    *)
(* are numbered in sort order.  Moving a file replaces one of that name.   *)
(***************************************************************************)
EXTENDS ProcessBatch

CONSTANTS
  Deliveries,     \* the sequences of drops to consider
  Names,          \* names of files that match *.csv or *.json
  Uuids,          \* event ids uuid4 may make up; no message carries one
  AtomicDrops,    \* are files renamed into the directory, not copied?
  MaxRestarts,    \* bound: times the process is restarted
  MaxMoveFaults   \* bound: times a move between directories fails

\* A row is known by its origin, as is the event a row of Kafka mode stands
\* for: the same row in two drops has one origin, two rows of a file have two.
\* An "unparsable" row is one extract_file skips.
Row  == {m \in [origin : Nat, key : Keys, time : Nat, fate : Fates,
               volume : Volumes, barred : SUBSET Savers] : Coherent(m)}
File == [name : Names, readable : BOOLEAN, rows : Seq(Row)]

ASSUME FileAssumption ==
  /\ Names \in SUBSET (Nat \ {0})
  /\ Uuids \in SUBSET EventIds
  /\ Deliveries \in SUBSET Seq(File)
  /\ AtomicDrops \in BOOLEAN
  /\ MaxRestarts \in Nat
  /\ MaxMoveFaults \in Nat

ASSUME OriginAssumption ==
  \A ds \in Deliveries : \A d \in DOMAIN ds : \A i, j \in DOMAIN ds[d].rows :
    ds[d].rows[i].origin = ds[d].rows[j].origin => i = j

VARIABLES
  drops,       \* drops[d] is the file of drop d
  dropped,     \* drops so far
  copying,     \* is the file of the last drop still being written?
  input,       \* FILE_INPUT_DIR
  archive,     \* FILE_ARCHIVE_DIR
  errordir,    \* FILE_ERROR_DIR
  pending,     \* names the scan has still to take up
  name,        \* file_path.name
  reading,     \* the drop found under that name when it was read
  failed,      \* drops "File processing failed" was logged for
  disturbed,   \* history: drops hit by an overwrite, a slow copy or a crash
  restarts,    \* restarts so far
  moveFaults   \* failed moves so far

dirs     == <<input, archive, errordir>>
world    == <<drops, dropped, copying>>
scanVars == <<pending, name, reading>>
history  == <<failed, disturbed, restarts, moveFaults>>
vars     == <<store, batchVars, world, dirs, scanVars, history>>

Directory == [Names -> 0 .. Len(drops)]

PCs == Stages \cup {"idle", "next", "archive", "reject", "processed", "except",
                    "finally", "finalcommit"}

TypeOK ==
  /\ StoreTypeOK
  /\ BatchTypeOK
  /\ pc \in PCs
  /\ drops \in Deliveries
  /\ dropped \in 0 .. Len(drops)
  /\ copying \in BOOLEAN
  /\ input \in Directory
  /\ archive \in Directory
  /\ errordir \in Directory
  /\ pending \in SUBSET Names
  /\ name \in Names \cup {0}
  /\ reading \in 0 .. Len(drops)
  /\ failed \in SUBSET (1 .. Len(drops))
  /\ disturbed \in SUBSET (1 .. Len(drops))
  /\ restarts \in 0 .. MaxRestarts
  /\ moveFaults \in 0 .. MaxMoveFaults

Init ==
  /\ StoreInit
  /\ BatchInit
  /\ pc = "idle"
  /\ drops \in Deliveries
  /\ dropped = 0
  /\ copying = FALSE
  /\ input = [n \in Names |-> 0]
  /\ archive = [n \in Names |-> 0]
  /\ errordir = [n \in Names |-> 0]
  /\ pending = {}
  /\ name = 0
  /\ reading = 0
  /\ failed = {}
  /\ disturbed = {}
  /\ restarts = 0
  /\ moveFaults = 0

-----------------------------------------------------------------------------
(* The scan and the extraction: get_pending_files and extract_file.        *)

Present == {n \in Names : input[n] # 0}

\* Mutant: the job is started once and not at intervals.
ScanMutant ==
  /\ pc = "idle"
  /\ runs = <<>>
  /\ Present # {}
  /\ pending' = Present
  /\ pc' = "next"
  /\ UNCHANGED <<store, batch, run, runId, todo, tx, aborted, dlt>>
  /\ UNCHANGED <<world, dirs, name, reading, history>>

\* The job starts: the list of pending files is made once.
Scan ==
  /\ pc = "idle"
  /\ Present # {}
  /\ pending' = Present
  /\ pc' = "next"
  /\ UNCHANGED <<store, batch, run, runId, todo, tx, aborted, dlt>>
  /\ UNCHANGED <<world, dirs, name, reading, history>>

ScanDone ==
  /\ pc = "next"
  /\ pending = {}
  /\ pc' = "idle"
  /\ UNCHANGED <<store, batch, run, runId, todo, tx, aborted, dlt>>
  /\ UNCHANGED <<world, dirs, scanVars, history>>

\* The next file's PipelineRun and session.
TakeUp(n) ==
  /\ pc = "next"
  /\ n \in pending
  /\ \A m \in pending : n <= m
  /\ pending' = pending \ {n}
  /\ name' = n
  /\ reading' = input[n]
  /\ runs' = Append(runs, NoRow)
  /\ run' = NewRun
  /\ runId' = Len(runs) + 1
  /\ todo' = {}
  /\ UNCHANGED <<market, summaries, errors, tx, aborted, dlt>>
  /\ UNCHANGED <<world, dirs, failed, restarts, moveFaults>>

BeingCopied(d) == copying /\ d = dropped

\* What of the rows is there: a copy in progress has got to some row.
Lengths(d) == IF BeingCopied(d) THEN 0 .. Len(drops[d].rows) ELSE {Len(drops[d].rows)}

\* Mutant: the first row is taken for a header.
KeptMutant(d, length) ==
  LET K == {i \in 2 .. length : drops[d].rows[i].fate # "unparsable"}
  IN  {f \in [1 .. Cardinality(K) -> K] : \A i, j \in DOMAIN f : i < j => f[i] < f[j]}

\* The positions of the rows that are not skipped, in order (one function).
Kept(d, length) ==
  LET K == {i \in 1 .. length : drops[d].rows[i].fate # "unparsable"}
  IN  {f \in [1 .. Cardinality(K) -> K] : \A i, j \in DOMAIN f : i < j => f[i] < f[j]}

\* n new uuid4s: any choice among the ids that are not stored is as good.
FreshIds(n) ==
  LET Fresh == {f \in [1 .. n -> {e \in Uuids : market[e] = NoRow}] :
                  \A i, j \in DOMAIN f : f[i] = f[j] => i = j}
  IN  IF Fresh = {} THEN {} ELSE {CHOOSE f \in Fresh : TRUE}

\* The kept rows as events: an event_id column is not read.
EventsOf(d, kept, ids) ==
  [i \in 1 .. Len(kept) |->
     LET row == drops[d].rows[kept[i]]
     IN  [origin |-> row.origin, event_id |-> ids[i], key |-> row.key,
          time |-> row.time, fate |-> row.fate, volume |-> row.volume,
          barred |-> row.barred]]

ReadFile ==
  /\ \E n \in pending : TakeUp(n)
  /\ drops[reading'].readable
  /\ \E length \in Lengths(reading') :
       /\ \E kept \in Kept(reading', length) : \E ids \in FreshIds(Len(kept)) :
            batch' = EventsOf(reading', kept, ids)
       /\ disturbed' = IF length < Len(drops[reading'].rows)
                         THEN disturbed \cup {reading'} ELSE disturbed
  /\ pc' = "archive"

\* read_csv or read_json raises: no such format, or cut off by a slow copy.
ReadFileFails ==
  /\ \E n \in pending : TakeUp(n)
  /\ ~ drops[reading'].readable \/ BeingCopied(reading')
  /\ batch' = <<>>
  /\ disturbed' = IF drops[reading'].readable
                    THEN disturbed \cup {reading'} ELSE disturbed
  /\ pc' = "reject"

\* Mutant: the file is copied to the archive.
ArchiveMutant ==
  /\ pc = "archive"
  /\ archive' = [archive EXCEPT ![name] = input[name]]
  /\ disturbed' = IF input[name] # reading
                    THEN disturbed \cup {input[name]} ELSE disturbed
  /\ pc' = "clean"
  /\ UNCHANGED <<store, batch, run, runId, todo, tx, aborted, dlt>>
  /\ UNCHANGED <<world, input, errordir, scanVars, failed, restarts, moveFaults>>

\* _archive, on the rows having been read and before they are processed.  It
\* moves the file that has the name by now.
Archive ==
  /\ pc = "archive"
  /\ archive' = [archive EXCEPT ![name] = input[name]]
  /\ input' = [input EXCEPT ![name] = 0]
  /\ disturbed' = IF input[name] # reading
                    THEN disturbed \cup {input[name]} ELSE disturbed
  /\ pc' = "clean"
  /\ UNCHANGED <<store, batch, run, runId, todo, tx, aborted, dlt>>
  /\ UNCHANGED <<world, errordir, scanVars, failed, restarts, moveFaults>>

\* Mutant: the failed move is only logged, and the rows are processed.
ArchiveFailsMutant ==
  /\ pc = "archive"
  /\ moveFaults < MaxMoveFaults
  /\ moveFaults' = moveFaults + 1
  /\ pc' = "clean"
  /\ UNCHANGED <<store, batch, run, runId, todo, tx, aborted, dlt>>
  /\ UNCHANGED <<world, dirs, scanVars, failed, disturbed, restarts>>

\* shutil.move raises, within extract_file's try.
ArchiveFails ==
  /\ pc = "archive"
  /\ moveFaults < MaxMoveFaults
  /\ moveFaults' = moveFaults + 1
  /\ batch' = <<>>
  /\ pc' = "reject"
  /\ UNCHANGED <<store, run, runId, todo, tx, aborted, dlt>>
  /\ UNCHANGED <<world, dirs, scanVars, failed, disturbed, restarts>>

\* _move_to_errors, and the exception is raised again.
MoveToErrors ==
  /\ pc = "reject"
  /\ errordir' = [errordir EXCEPT ![name] = input[name]]
  /\ input' = [input EXCEPT ![name] = 0]
  /\ disturbed' = IF input[name] # reading
                    THEN disturbed \cup {input[name]} ELSE disturbed
  /\ pc' = "except"
  /\ UNCHANGED <<store, batch, run, runId, todo, tx, aborted, dlt>>
  /\ UNCHANGED <<world, archive, scanVars, failed, restarts, moveFaults>>

\* This move raises too: the file stays where it is.
MoveToErrorsFails ==
  /\ pc = "reject"
  /\ moveFaults < MaxMoveFaults
  /\ moveFaults' = moveFaults + 1
  /\ pc' = "except"
  /\ UNCHANGED <<store, batch, run, runId, todo, tx, aborted, dlt>>
  /\ UNCHANGED <<world, dirs, scanVars, failed, disturbed, restarts>>

-----------------------------------------------------------------------------
(* The body of the loop: run_file_mode.                                    *)

\* One step of _process_batch, without a dead letter producer.
Process ==
  /\ pc \in Stages
  /\ ProcessStep(FALSE)
  /\ UNCHANGED <<world, dirs, scanVars, history>>

Complete ==
  /\ pc = "processed"
  /\ run' = [run EXCEPT !.status = "completed"]
  /\ pc' = "finally"
  /\ UNCHANGED <<store, batch, runId, todo, tx, aborted, dlt>>
  /\ UNCHANGED <<world, dirs, scanVars, history>>

\* except Exception: mark the run and log; the transaction is left as it is.
HandleFailure ==
  /\ pc = "except"
  /\ run' = [run EXCEPT !.status = "failed"]
  /\ failed' = failed \cup {reading}
  /\ pc' = "finally"
  /\ UNCHANGED <<store, batch, runId, todo, tx, aborted, dlt>>
  /\ UNCHANGED <<world, dirs, scanVars, disturbed, restarts, moveFaults>>

\* Mutant: the run is marked completed in finally.
SaveOutcomeMutant ==
  /\ pc = "finally"
  /\ ~ aborted
  /\ tx' = SaveRun(tx, [run EXCEPT !.status = "completed"])
  /\ pc' = "finalcommit"
  /\ UNCHANGED <<store, batch, run, runId, todo, aborted, dlt>>
  /\ UNCHANGED <<world, dirs, scanVars, history>>

\* finally: save_pipeline_run on the same session, whatever its transaction
\* holds by now.
SaveOutcome ==
  /\ pc = "finally"
  /\ ~ aborted
  /\ tx' = SaveRun(tx, run)
  /\ pc' = "finalcommit"
  /\ UNCHANGED <<store, batch, run, runId, todo, aborted, dlt>>
  /\ UNCHANGED <<world, dirs, scanVars, history>>

CommitOutcome ==
  /\ pc = "finalcommit"
  /\ CommitTx(tx, runId)
  /\ tx' = EmptyTx
  /\ batch' = <<>>
  /\ todo' = {}
  /\ pc' = "next"
  /\ UNCHANGED <<run, runId, aborted, dlt>>
  /\ UNCHANGED <<world, dirs, scanVars, history>>

\* Mutant: the batch is dropped, its positions are not.
OutcomeFailsMutant ==
  /\ \/ /\ pc = "finally"
        /\ aborted \/ InfraFaults
        /\ UNCHANGED store
     \/ /\ pc = "finalcommit"
        /\ InfraFaults
        /\ CommitTx(tx, runId) \/ UNCHANGED store
  /\ tx' = EmptyTx
  /\ aborted' = FALSE
  /\ batch' = <<>>
  /\ pending' = {}
  /\ pc' = "idle"
  /\ UNCHANGED <<run, runId, todo, dlt, world, dirs, name, reading, history>>

\* The save raises in an aborted transaction, or either call fails: the
\* exception leaves run_file_mode, and the rest of the list with it.
OutcomeFails ==
  /\ \/ /\ pc = "finally"
        /\ aborted \/ InfraFaults
        /\ UNCHANGED store
     \/ /\ pc = "finalcommit"
        /\ InfraFaults
        /\ CommitTx(tx, runId) \/ UNCHANGED store
  /\ tx' = EmptyTx
  /\ aborted' = FALSE
  /\ batch' = <<>>
  /\ todo' = {}
  /\ pending' = {}
  /\ pc' = "idle"
  /\ UNCHANGED <<run, runId, dlt, world, dirs, name, reading, history>>

-----------------------------------------------------------------------------
(* The environment.                                                        *)

\* Drop number d is in the hands of the scan.
InHand(d) == d = reading /\ pc \notin {"idle", "next"}

\* A file is put into the input directory, over one of the same name.
Drop ==
  /\ dropped < Len(drops)
  /\ ~ copying
  /\ LET n == drops[dropped + 1].name
     IN  /\ input' = [input EXCEPT ![n] = dropped + 1]
         /\ disturbed' = IF input[n] # 0 THEN disturbed \cup {input[n]} ELSE disturbed
  /\ dropped' = dropped + 1
  /\ copying' = ~ AtomicDrops
  /\ UNCHANGED <<store, batchVars, drops, archive, errordir, scanVars>>
  /\ UNCHANGED <<failed, restarts, moveFaults>>

\* The copy is complete, wherever the file has been moved meanwhile.
Copied ==
  /\ copying
  /\ copying' = FALSE
  /\ UNCHANGED <<store, batchVars, drops, dropped, dirs, scanVars, history>>

\* The process dies, or is shut down, and is started again.
Crash ==
  /\ restarts < MaxRestarts
  /\ restarts' = restarts + 1
  /\ disturbed' = disturbed \cup {d \in 1 .. Len(drops) : InHand(d)}
  /\ batch' = <<>>
  /\ run' = NewRun
  /\ runId' = 0
  /\ todo' = {}
  /\ tx' = EmptyTx
  /\ aborted' = FALSE
  /\ pending' = {}
  /\ name' = 0
  /\ reading' = 0
  /\ pc' = "idle"
  /\ UNCHANGED <<store, dlt, world, dirs, failed, moveFaults>>

-----------------------------------------------------------------------------
Work ==
  \/ Scan \/ ScanDone
  \/ ReadFile \/ ReadFileFails
  \/ Archive \/ ArchiveFails
  \/ MoveToErrors \/ MoveToErrorsFails
  \/ Process
  \/ Complete \/ HandleFailure
  \/ SaveOutcome \/ CommitOutcome \/ OutcomeFails

Next == Work \/ Drop \/ Copied \/ Crash

(***************************************************************************)
(* The event loop resumes the job when what it awaits is there, and the    *)
(* interval trigger starts it again and again, after an exception too.  A  *)
(* copy that has begun ends.  Drops and crashes need not happen.           *)
(***************************************************************************)
Spec == Init /\ [][Next]_vars /\ WF_vars(Work) /\ WF_vars(Copied)

-----------------------------------------------------------------------------
(* Safety.                                                                 *)

Origins(d) == {drops[d].rows[i].origin : i \in DOMAIN drops[d].rows}

Stored(o) == {e \in EventIds : market[e] # NoRow /\ market[e].origin = o}

\* Every row of drop d has had its effect on the database.
Settled(d) ==
  /\ drops[d].readable
  /\ \A i \in DOMAIN drops[d].rows :
       LET row == drops[d].rows[i]
       IN  CASE row.fate = "ok"         -> Stored(row.origin) # {}
             [] row.fate = "unparsable" -> TRUE
             [] OTHER                   -> \E x \in errors : x.origin = row.origin

(***************************************************************************)
(* A file is given up only with a trace: a drop that is neither waiting    *)
(* nor being processed was loaded, or its failure was logged, unless it    *)
(* was overwritten or cut off under the scan, or in its hands at a crash.  *)
(***************************************************************************)
FilesAreAccounted ==
  \A d \in 1 .. dropped :
    \/ input[drops[d].name] = d
    \/ InHand(d)
    \/ Settled(d)
    \/ d \in failed \cup disturbed

(***************************************************************************)
(* The rows a table or the open transaction holds come from a drop that    *)
(* has left the input directory and is not in the error directory: a file  *)
(* that will be scanned again, or that was refused, has left nothing.      *)
(***************************************************************************)
TakenFrom(o) ==
  \E d \in 1 .. dropped :
    /\ o \in Origins(d)
    /\ \A n \in Names : input[n] # d /\ errordir[n] # d

LoadedFilesAreGone ==
  /\ \A e \in EventIds : market[e] # NoRow => TakenFrom(market[e].origin)
  /\ \A x \in errors : TakenFrom(x.origin)

(***************************************************************************)
(* A row is stored at most once for each time it was dropped, although its *)
(* ids are new on every reading: no rescan after a failed move, an aborted *)
(* scan or a restart loads a file again.                                   *)
(***************************************************************************)
LoadedOncePerDrop ==
  \A o \in UNION {Origins(d) : d \in 1 .. dropped} :
    Cardinality(Stored(o)) <= Cardinality({d \in 1 .. dropped : o \in Origins(d)})

(***************************************************************************)
(* What a run row says of the tables: a completed or a running one that    *)
(* every row was stored or refused, a failed one all or nothing of either  *)
(* count; and a run without a row has left nothing.                        *)
(***************************************************************************)
RunRowsTellOutcome ==
  \A r \in DOMAIN runs :
    LET stored  == Cardinality({e \in EventIds : market[e] # NoRow /\ market[e].run = r})
        refused == Cardinality({x \in errors : x.run = r})
    IN  IF runs[r] = NoRow THEN stored = 0 /\ refused = 0
        ELSE IF runs[r].status = "failed"
        THEN /\ runs[r].loaded \in {0, stored} /\ stored <= runs[r].valid
             /\ refused \in {0, runs[r].invalid}
        ELSE /\ runs[r].loaded = stored /\ stored = runs[r].valid
             /\ runs[r].invalid = refused
             /\ runs[r].extracted = stored + refused

(***************************************************************************)
(* The save in finally commits whatever a failed run has written; still,   *)
(* no summary has a trade that is not stored, and the day of a record has  *)
(* a summary unless its run failed.                                        *)
(***************************************************************************)
SummariesAreBacked ==
  /\ \A k \in Keys : summaries[k] # NoRow =>
       \A t \in summaries[k].trades : \E e \in Stored(t[2]) : market[e].key = k
  /\ \A e \in EventIds : market[e] # NoRow =>
       \/ summaries[market[e].key] # NoRow
       \/ runs[market[e].run].status = "failed"

-----------------------------------------------------------------------------
(* The inductive invariant.                                                *)

\* A drop is under its own name, in one directory at a time.
Placement ==
  /\ pending \subseteq Present
  /\ \A n \in Names :
       /\ input[n] \in 0 .. dropped /\ errordir[n] \in 0 .. dropped
       /\ input[n] # 0 => drops[input[n]].name = n /\ errordir[n] # input[n]
       /\ errordir[n] # 0 => drops[errordir[n]].name = n

\* What the scan holds between reading a file and moving it.
Holding ==
  /\ pc \notin {"idle", "next"} => reading \in 1 .. dropped
  /\ pc \in {"idle", "next", "reject"} => batch = <<>>
  /\ pc \in {"archive", "reject"} =>
       name \in Names /\ input[name] # 0 /\ name \notin pending /\ todo = {}
  /\ pc = "archive" =>
       /\ drops[reading].name = name
       /\ errordir[name] # reading
       /\ \A i \in DOMAIN batch : batch[i].origin \in Origins(reading)

\* What is on its way into the tables comes from a file that is gone.
InTransit ==
  /\ pc # "archive" => \A i \in DOMAIN batch : TakenFrom(batch[i].origin)
  /\ \A x \in tx.errors : TakenFrom(x.origin)
  /\ \A e \in EventIds : tx.market[e] # NoRow => TakenFrom(tx.market[e].origin)

IInv ==
  /\ TypeOK
  /\ Placement
  /\ Holding
  /\ InTransit
  /\ LoadedFilesAreGone

-----------------------------------------------------------------------------
(* Liveness.                                                               *)

(***************************************************************************)
(* No file waits for ever: an unreadable one, a failing database or an     *)
(* exception that ends a scan keeps nothing from being taken up.           *)
(***************************************************************************)
FilesAreTakenUp == <>[](Present = {})

\* Drop d has a row that makes a stage raise, or would if it were refused.
Spoilt(d) ==
  \E i \in DOMAIN drops[d].rows :
    LET row == drops[d].rows[i]
    IN  \/ row.fate \in {"uncastable", "untimed", "unstorable", "unencodable"}
        \/ "server" \in row.barred

(***************************************************************************)
(* With readable files, renamed into place under names of their own, and   *)
(* services that answer, every one is loaded but for those whose failure   *)
(* was logged, and these have a row that spoils them: no file is lost to   *)
(* the fault of another, although one of them may end the scan.            *)
(***************************************************************************)
FilesAreLoaded ==
  <>[](\A d \in 1 .. dropped : Settled(d) \/ (d \in failed /\ Spoilt(d)))

=============================================================================
