--------------------------- MODULE ServiceProofs ---------------------------
(***************************************************************************)
(* What the two modes keep of what was proved of each alone when they run  *)
(* over one database (EtlSystem), and what the tables and the API's        *)
(* answers then say.  To either of them the other is a writer of the       *)
(* tables that only adds rows: ConsumerInv and JobInv are the parts of the *)
(* inductive invariants that survive that, RowInv is what the rows of both *)
(* say: what each has in hand, the tables, and what a request has read.    *)
(*                                                                         *)
(* KP and FP are K and F with the modules of proofs: each has copies of    *)
(* its own of every definition, which the first lemmas identify.           *)
(***************************************************************************)
EXTENDS EtlSystemProofs, FiniteSetTheorems

KP == INSTANCE KafkaRowProofs WITH pc <- kpc, batch <- kbatch, run <- krun,
       runId <- krunId, todo <- ktodo, tx <- ktx, aborted <- kaborted,
       failed <- kfailed, restarts <- krestarts
FP == INSTANCE FileRowProofs WITH pc <- fpc, batch <- fbatch, run <- frun,
       runId <- frunId, todo <- ftodo, tx <- ftx, aborted <- faborted,
       failed <- ffailed, restarts <- frestarts

-----------------------------------------------------------------------------
(* The instances.                                                          *)

\* The consumer of EtlSystem is that of the proofs.
LEMMA SameConsumer ==
  /\ K!Init => KP!Init
  /\ K!Consume => KP!Consume
  /\ K!Rebalance => KP!Rebalance
  /\ K!Crash => KP!Crash
  /\ KP!TypeOK => K!TypeOK
BY DEF
   K!Ack, K!AckFails, K!BatchInit, K!BatchTypeOK, K!Cardinality, K!Clean,
   K!CleanRaises, K!Coherent, K!Commit, K!CommitCompleted, K!CommitFails,
   K!CommitTx, K!Complete, K!CompletionFails, K!Consume, K!Crash, K!DbFails,
   K!Decodable, K!DecodeRaises, K!DltDone, K!Drainable, K!Earliest, K!EmptyTx,
   K!ErrorFor, K!ErrorRow, K!Fates, K!FirstOf, K!Floats, K!GetMany, K!GetOne,
   K!GetOneFails, K!Group, K!HandleFailure, K!Init, K!InsertChunk,
   K!InsertChunkFails, K!InsertRecords, K!Inserted, K!Invalid, K!LastWithId,
   K!LogEntry, K!MarketRow, K!Message, K!MessageAt, K!Mixed, K!NewRun, K!Normalize,
   K!NormalizeRaises, K!Offsets, K!Overlay, K!PCs, K!Parsed, K!Process,
   K!ProcessStep, K!Raise, K!Rebalance, K!RecordsDone, K!RowOf, K!RunRow,
   K!SaveCompleted, K!SaveErrors, K!SavePipelineRun, K!SavePipelineRunFails,
   K!SaveRun, K!SaveValidationErrors, K!SaveValidationErrorsFails, K!Savers,
   K!SendToDlt, K!SendToDltFails, K!Stages, K!Start, K!StartFails, K!Status,
   K!StoreInit, K!StoreTypeOK, K!Summary, K!SummaryRow, K!Touched, K!TxType,
   K!TypeOK, K!Unsavable, K!UpsertDailySummaries, K!UpsertDailySummariesFails,
   K!UpsertSummaries, K!Valid, K!ValuesOf, K!Volumes, K!Wide, K!WithFate,
   K!batchVars, K!kafkaVars, K!store, KP!Ack, KP!AckFails, KP!BatchInit,
   KP!BatchTypeOK, KP!Cardinality, KP!Clean, KP!CleanRaises, KP!Coherent, KP!Commit,
   KP!CommitCompleted, KP!CommitFails, KP!CommitTx, KP!Complete, KP!CompletionFails,
   KP!Consume, KP!Crash, KP!DbFails, KP!Decodable, KP!DecodeRaises, KP!DltDone,
   KP!Drainable, KP!Earliest, KP!EmptyTx, KP!ErrorFor, KP!ErrorRow, KP!Fates,
   KP!FirstOf, KP!Floats, KP!GetMany, KP!GetOne, KP!GetOneFails, KP!Group,
   KP!HandleFailure, KP!Init, KP!InsertChunk, KP!InsertChunkFails, KP!InsertRecords,
   KP!Inserted, KP!Invalid, KP!LastWithId, KP!LogEntry, KP!MarketRow, KP!Message,
   KP!MessageAt, KP!Mixed, KP!NewRun, KP!Normalize, KP!NormalizeRaises, KP!Offsets,
   KP!Overlay, KP!PCs, KP!Parsed, KP!Process, KP!ProcessStep, KP!Raise,
   KP!Rebalance, KP!RecordsDone, KP!RowOf, KP!RunRow, KP!SaveCompleted,
   KP!SaveErrors, KP!SavePipelineRun, KP!SavePipelineRunFails, KP!SaveRun,
   KP!SaveValidationErrors, KP!SaveValidationErrorsFails, KP!Savers, KP!SendToDlt,
   KP!SendToDltFails, KP!Stages, KP!Start, KP!StartFails, KP!Status, KP!StoreInit,
   KP!StoreTypeOK, KP!Summary, KP!SummaryRow, KP!Touched, KP!TxType, KP!TypeOK,
   KP!Unsavable, KP!UpsertDailySummaries, KP!UpsertDailySummariesFails,
   KP!UpsertSummaries, KP!Valid, KP!ValuesOf, KP!Volumes, KP!Wide, KP!WithFate,
   KP!batchVars, KP!kafkaVars, KP!store

\* And so is the file job.
LEMMA SameJob ==
  /\ F!Init => FP!Init
  /\ F!Work => FP!Work
  /\ F!Drop => FP!Drop
  /\ F!Copied => FP!Copied
  /\ F!Crash => FP!Crash
  /\ FP!TypeOK => F!TypeOK
BY DEF
   F!Archive, F!ArchiveFails, F!BatchInit, F!BatchTypeOK, F!BeingCopied,
   F!Cardinality, F!Clean, F!CleanRaises, F!Coherent, F!Commit, F!CommitFails,
   F!CommitOutcome, F!CommitTx, F!Complete, F!Copied, F!Crash, F!DbFails,
   F!Directory, F!DltDone, F!Drop, F!Earliest, F!EmptyTx, F!ErrorFor, F!ErrorRow,
   F!EventsOf, F!Fates, F!FirstOf, F!Floats, F!FreshIds, F!Group, F!HandleFailure,
   F!InHand, F!Init, F!InsertChunk, F!InsertChunkFails, F!InsertRecords, F!Inserted,
   F!Invalid, F!Kept, F!LastWithId, F!Lengths, F!MarketRow, F!Message, F!Mixed,
   F!MoveToErrors, F!MoveToErrorsFails, F!NewRun, F!Normalize, F!NormalizeRaises,
   F!OutcomeFails, F!Overlay, F!PCs, F!Parsed, F!Present, F!Process, F!ProcessStep,
   F!Raise, F!ReadFile, F!ReadFileFails, F!RecordsDone, F!RowOf, F!RunRow,
   F!SaveErrors, F!SaveOutcome, F!SavePipelineRun, F!SavePipelineRunFails,
   F!SaveRun, F!SaveValidationErrors, F!SaveValidationErrorsFails, F!Savers, F!Scan,
   F!ScanDone, F!SendToDlt, F!SendToDltFails, F!Stages, F!Status, F!StoreInit,
   F!StoreTypeOK, F!Summary, F!SummaryRow, F!TakeUp, F!Touched, F!TxType, F!TypeOK,
   F!Unsavable, F!UpsertDailySummaries, F!UpsertDailySummariesFails,
   F!UpsertSummaries, F!Valid, F!ValuesOf, F!Volumes, F!Wide, F!WithFate, F!Work,
   F!batchVars, F!dirs, F!history, F!scanVars, F!store, F!world, FP!Archive,
   FP!ArchiveFails, FP!BatchInit, FP!BatchTypeOK, FP!BeingCopied, FP!Cardinality,
   FP!Clean, FP!CleanRaises, FP!Coherent, FP!Commit, FP!CommitFails,
   FP!CommitOutcome, FP!CommitTx, FP!Complete, FP!Copied, FP!Crash, FP!DbFails,
   FP!Directory, FP!DltDone, FP!Drop, FP!Earliest, FP!EmptyTx, FP!ErrorFor,
   FP!ErrorRow, FP!EventsOf, FP!Fates, FP!FirstOf, FP!Floats, FP!FreshIds, FP!Group,
   FP!HandleFailure, FP!InHand, FP!Init, FP!InsertChunk, FP!InsertChunkFails,
   FP!InsertRecords, FP!Inserted, FP!Invalid, FP!Kept, FP!LastWithId, FP!Lengths,
   FP!MarketRow, FP!Message, FP!Mixed, FP!MoveToErrors, FP!MoveToErrorsFails,
   FP!NewRun, FP!Normalize, FP!NormalizeRaises, FP!OutcomeFails, FP!Overlay, FP!PCs,
   FP!Parsed, FP!Present, FP!Process, FP!ProcessStep, FP!Raise, FP!ReadFile,
   FP!ReadFileFails, FP!RecordsDone, FP!RowOf, FP!RunRow, FP!SaveErrors,
   FP!SaveOutcome, FP!SavePipelineRun, FP!SavePipelineRunFails, FP!SaveRun,
   FP!SaveValidationErrors, FP!SaveValidationErrorsFails, FP!Savers, FP!Scan,
   FP!ScanDone, FP!SendToDlt, FP!SendToDltFails, FP!Stages, FP!Status, FP!StoreInit,
   FP!StoreTypeOK, FP!Summary, FP!SummaryRow, FP!TakeUp, FP!Touched, FP!TxType,
   FP!TypeOK, FP!Unsavable, FP!UpsertDailySummaries, FP!UpsertDailySummariesFails,
   FP!UpsertSummaries, FP!Valid, FP!ValuesOf, FP!Volumes, FP!Wide, FP!WithFate,
   FP!Work, FP!batchVars, FP!dirs, FP!history, FP!scanVars, FP!store, FP!world

\* The consumer's assumptions hold of the constants of the service.
LEMMA ConsumerAssumptions ==
  /\ KP!EventIdsAssumption
  /\ KP!NoRowAssumption
  /\ KP!BatchAssumption
  /\ KP!KafkaAssumption
BY EventIdsAssumption, NoRowAssumption, ModesAssumption
   DEF IsFiniteSet, KP!IsFiniteSet, KP!EventIdsAssumption, KP!NoRowAssumption,
   KP!BatchAssumption, KP!KafkaAssumption, K!BatchAssumption, K!KafkaAssumption,
   MarketRow, SummaryRow, RunRow, Status, KP!MarketRow, KP!SummaryRow, KP!RunRow, KP!Status,
   K!LogEntry, KP!LogEntry, K!Fates, KP!Fates, K!Volumes, KP!Volumes, K!Savers, KP!Savers,
   K!Wide, KP!Wide, K!Coherent, KP!Coherent

\* So do the job's.
LEMMA JobAssumptions ==
  /\ FP!EventIdsAssumption
  /\ FP!NoRowAssumption
  /\ FP!BatchAssumption
  /\ FP!FileAssumption
  /\ FP!OriginAssumption
BY EventIdsAssumption, NoRowAssumption, ModesAssumption
   DEF IsFiniteSet, FP!IsFiniteSet, FP!EventIdsAssumption, FP!NoRowAssumption,
   FP!BatchAssumption, FP!FileAssumption, FP!OriginAssumption, K!BatchAssumption,
   F!FileAssumption, F!OriginAssumption, F!File, FP!File, F!Row, FP!Row,
   MarketRow, SummaryRow, RunRow, Status, FP!MarketRow, FP!SummaryRow, FP!RunRow, FP!Status,
   F!Fates, FP!Fates, F!Volumes, FP!Volumes, F!Savers, FP!Savers,
   F!Wide, FP!Wide, F!Coherent, FP!Coherent

\* The two modes and the service say the same of the tables they share.
LEMMA SameTables ==
  /\ KP!OnlyAdds <=> FP!OnlyAdds
  /\ KP!StoreTypeOK <=> FP!StoreTypeOK
  /\ KP!StoreTypeOK' <=> FP!StoreTypeOK'
  /\ KP!ErrorRow = ErrorRow /\ FP!ErrorRow = ErrorRow
  /\ KP!RunRow = RunRow /\ FP!RunRow = RunRow /\ KP!SummaryRow = SummaryRow
  /\ KP!RunsAreKept <=> FP!RunsAreKept
BY DEF KP!OnlyAdds, FP!OnlyAdds, KP!StoreTypeOK, FP!StoreTypeOK, ErrorRow, KP!ErrorRow,
   FP!ErrorRow, MarketRow, KP!MarketRow, FP!MarketRow, RunRow, KP!RunRow, FP!RunRow,
   SummaryRow, KP!SummaryRow, FP!SummaryRow, Status, KP!Status, FP!Status,
   KP!RunsAreKept, FP!RunsAreKept

-----------------------------------------------------------------------------
(* The lemmas of each mode, of a step it takes and of one the other takes. *)

\* What a step of the service is to the consumer, whoever takes it.
ConsumerEffect ==
  /\ log' = log
  /\ kfailed \subseteq kfailed'
  /\ \/ committed' = committed
     \/ committed' = position /\ committed <= position
        /\ UNCHANGED <<market, errors, kfailed>>

\* The consumer's steps keep its invariant and only add rows.
LEMMA ConsumerSteps ==
  ASSUME KP!ConsumerInv, [KP!Next]_(KP!vars)
  PROVE  KP!ConsumerInv' /\ KP!OnlyAdds /\ ConsumerEffect
<1> USE ConsumerAssumptions DEF KP!EventIdsAssumption, KP!NoRowAssumption,
        KP!BatchAssumption, KP!KafkaAssumption
<1>1. KP!ConsumerInv'
  BY KP!ConsumerNext
<1>2. KP!OnlyAdds
  BY KP!ConsumerGrows
<1>3. ConsumerEffect
  BY KP!StepEffect DEF ConsumerEffect
<1> QED
  BY <1>1, <1>2, <1>3

\* The job's steps keep its invariant and only add rows.
LEMMA JobSteps ==
  ASSUME FP!JobInv, [FP!Next]_(FP!vars)
  PROVE  FP!JobInv' /\ FP!OnlyAdds
<1> USE JobAssumptions DEF FP!EventIdsAssumption, FP!NoRowAssumption,
        FP!BatchAssumption, FP!FileAssumption, FP!OriginAssumption
<1>1. FP!JobInv'
  BY FP!JobNext
<1>2. FP!OnlyAdds
  BY FP!JobGrows
<1> QED
  BY <1>1, <1>2

\* A step of the job leaves the consumer's invariant alone.
LEMMA ConsumerStands ==
  ASSUME KP!ConsumerInv, FP!JobInv', FP!OnlyAdds, UNCHANGED kafka
  PROVE  KP!ConsumerInv' /\ ConsumerEffect
<1> USE ConsumerAssumptions DEF KP!EventIdsAssumption, KP!NoRowAssumption,
        KP!BatchAssumption, KP!KafkaAssumption
<1>1. KP!StoreTypeOK' /\ dlt' \in SUBSET KP!ErrorRow
  BY SameTables DEF FP!JobInv, FP!TypeOK, FP!BatchTypeOK
<1>2. UNCHANGED <<kpc, kbatch, krun, krunId, ktodo, ktx, kaborted, KP!kafkaVars>>
  BY DEF kafka, KP!kafkaVars
<1>3. KP!ConsumerInv'
  BY <1>1, <1>2, SameTables, KP!OtherWriter
<1>4. ConsumerEffect
  BY DEF kafka, ConsumerEffect
<1> QED
  BY <1>3, <1>4

\* A step of the consumer leaves the job's invariant alone.
LEMMA JobStands ==
  ASSUME FP!JobInv, KP!ConsumerInv', KP!OnlyAdds, UNCHANGED file
  PROVE  FP!JobInv'
<1> USE JobAssumptions DEF FP!EventIdsAssumption, FP!NoRowAssumption,
        FP!BatchAssumption, FP!FileAssumption, FP!OriginAssumption
<1>1. FP!StoreTypeOK' /\ dlt' \in SUBSET FP!ErrorRow
  BY SameTables DEF KP!ConsumerInv, KP!TypeOK, KP!BatchTypeOK
<1>2. /\ UNCHANGED <<fpc, fbatch, frun, frunId, ftodo, ftx, faborted>>
      /\ UNCHANGED <<FP!world, FP!dirs, FP!scanVars, FP!history>>
  BY DEF file, FP!world, FP!dirs, FP!scanVars, FP!history
<1> QED
  BY <1>1, <1>2, SameTables, FP!OtherWriter

-----------------------------------------------------------------------------
(* The steps of the service.                                               *)

\* To the two modes a step of the service is a step of one of them, or of
\* neither, or the end of both.
LEMMA WhoseStep ==
  ASSUME [Next]_vars
  PROVE  \/ [KP!Next]_(KP!vars) /\ UNCHANGED file
         \/ [FP!Next]_(FP!vars) /\ UNCHANGED kafka
         \/ KP!Next /\ FP!Next /\ UNCHANGED store
<1> DEFINE Consumer == [KP!Next]_(KP!vars) /\ UNCHANGED file
           Job      == [FP!Next]_(FP!vars) /\ UNCHANGED kafka
           Both     == KP!Next /\ FP!Next /\ UNCHANGED store
<1>1. CASE KafkaWork \/ Rebalance \/ TaskCancelled
  BY <1>1, SameConsumer DEF KafkaWork, Rebalance, TaskCancelled, KP!Next
<1>2. CASE FileWork \/ Arrive \/ StopScheduler
  BY <1>2, SameJob DEF FileWork, Arrive, StopScheduler, FP!Next
<1>3. CASE Exit \/ Kill
  BY <1>3, SameConsumer, SameJob
     DEF Exit, Kill, TaskEnds, KP!Next, FP!Next, K!Crash, K!store, store
<1>4. ASSUME UNCHANGED <<store, dlt, kafka, file>> PROVE Consumer
  BY <1>4 DEF store, kafka, KP!vars, KP!store, KP!batchVars, KP!kafkaVars
<1>5. CASE \/ KafkaLock \/ FileLock \/ Boot \/ Shutdown \/ AwaitRaises
           \/ ClientsStop \/ ClientsRaise \/ ClientsHang \/ UNCHANGED vars
  BY <1>4, <1>5 DEF KafkaLock, FileLock, TakeLock, Boot, Shutdown, AwaitRaises,
     ClientsStop, ClientsRaise, ClientsHang, vars
<1>6. CASE Request
  <2>1. UNCHANGED store
    BY <1>6 DEF Request, Serve, ListRuns, GetRun, GetRunErrors, Metrics, MetricsContinue,
                DailySummaries, Send, RequestFails, Begin
  <2> QED
    BY <1>4, <1>6, <2>1 DEF Request
<1> HIDE DEF Consumer, Job, Both
<1>7. Consumer \/ Job \/ Both
  BY <1>1, <1>2, <1>3, <1>5, <1>6 DEF Next, Lifespan, Consumer, Job, Both
<1> QED
  BY <1>7 DEF Consumer, Job, Both

\* So both invariants stand, the tables grow, and the consumer sees no more of
\* the others than that.
LEMMA ModesStand ==
  ASSUME KP!ConsumerInv, FP!JobInv, [Next]_vars
  PROVE  KP!ConsumerInv' /\ FP!JobInv' /\ KP!OnlyAdds /\ ConsumerEffect
<1>1. CASE [KP!Next]_(KP!vars) /\ UNCHANGED file
  BY <1>1, ConsumerSteps, JobStands
<1>2. CASE [FP!Next]_(FP!vars) /\ UNCHANGED kafka
  BY <1>2, JobSteps, ConsumerStands, SameTables
<1>3. CASE KP!Next /\ FP!Next /\ UNCHANGED store
  BY <1>3, ConsumerSteps, JobSteps
<1> QED
  BY <1>1, <1>2, <1>3, WhoseStep

-----------------------------------------------------------------------------
(* Types.                                                                  *)

\* What a handler has read is of rows that are there.
LEMMA ServeType ==
  ASSUME ApiTypeOK, Serve, runs \in Seq(RunRow \cup {NoRow}),
         summaries \in [Keys -> SummaryRow \cup {NoRow}], errors \in SUBSET ErrorRow
  PROVE  ApiTypeOK'
<1>0. UNCHANGED store
  BY DEF Serve, ListRuns, GetRun, GetRunErrors, Metrics, MetricsContinue,
         DailySummaries, Send, RequestFails, Begin
<1> DEFINE Typed(a) ==
      /\ DOMAIN a.rows \in SUBSET DOMAIN runs
      /\ \A r \in DOMAIN a.rows : a.rows[r] \in RunRow
      /\ a.errors \in SUBSET ErrorRow
      /\ a.records \in SUBSET EventIds
      /\ a.outliers \in SUBSET EventIds
      /\ a.runs \in SUBSET DOMAIN runs
      /\ a.top \in SUBSET EventIds
      /\ DOMAIN a.days \in SUBSET Keys
      /\ \A k \in DOMAIN a.days : a.days[k] \in SummaryRow
<1>1. ASSUME Typed(answer'), served' \in Endpoints \cup {"none"}, step' \in 0 .. 5
      PROVE  ApiTypeOK'
  BY <1>0, <1>1 DEF ApiTypeOK, store
<1>2. Typed(answer) /\ served \in Endpoints \cup {"none"} /\ step \in 0 .. 5
  BY DEF ApiTypeOK
<1>3. Typed(Nothing)
  BY DEF Nothing
<1>4. CASE ListRuns
  <2>1. PICK statuses \in {{s} : s \in Status} \cup {Status} :
          Begin("runs", [Nothing EXCEPT !.rows =
            [r \in Newest({r \in RunRows : runs[r].status \in statuses}) |-> runs[r]]])
    BY <1>4 DEF ListRuns
  <2>2. Newest({r \in RunRows : runs[r].status \in statuses}) \in SUBSET RunRows
    BY DEF Newest
  <2>3. Typed(answer')
    BY <2>1, <2>2, <1>3 DEF Begin, RunRows, Nothing
  <2> QED
    BY <1>1, <2>1, <2>3 DEF Begin
<1>5. CASE GetRun
  <2>1. PICK r \in RunRows : Begin("run", [Nothing EXCEPT !.rows = [q \in {r} |-> runs[q]]])
    BY <1>5 DEF GetRun
  <2>2. Typed(answer')
    BY <2>1, <1>3 DEF Begin, RunRows, Nothing
  <2> QED
    BY <1>1, <2>1, <2>2 DEF Begin
<1>6. CASE GetRunErrors
  BY <1>1, <1>2, <1>6 DEF GetRunErrors, Pages
<1>7. \A i \in 1 .. 5 : Typed(Counted(i))
  BY <1>2 DEF Counted, Records, RunRows
<1>8. CASE Metrics \/ MetricsContinue
  BY <1>1, <1>2, <1>7, <1>8 DEF Metrics, MetricsContinue, Begin
<1>9. CASE DailySummaries
  <2>1. PICK P \in Pages({k \in Keys : summaries[k] # NoRow}) :
          Begin("summaries", [Nothing EXCEPT !.days = [k \in P |-> summaries[k]]])
    BY <1>9 DEF DailySummaries
  <2>2. P \in SUBSET {k \in Keys : summaries[k] # NoRow}
    BY DEF Pages
  <2>3. Typed(answer')
    BY <2>1, <2>2, <1>3 DEF Begin, Nothing
  <2> QED
    BY <1>1, <2>1, <2>3 DEF Begin
<1>10. CASE Send \/ RequestFails
  BY <1>1, <1>3, <1>10 DEF Send, RequestFails
<1> QED
  BY <1>4, <1>5, <1>6, <1>8, <1>9, <1>10 DEF Serve

\* TypeOK with the invariants of the two modes, which it takes to be kept.
ServiceInv ==
  /\ KP!ConsumerInv
  /\ FP!JobInv
  /\ ApiTypeOK
  /\ locks \in [Keys -> {"kafka", "file", "none"}]
  /\ phase \in Phases

\* Initially nothing has been done by anyone.
LEMMA ServiceInit == Init => ServiceInv
<1> SUFFICES ASSUME Init PROVE ServiceInv
  OBVIOUS
<1>1. KP!ConsumerInv
  <2> USE ConsumerAssumptions DEF KP!EventIdsAssumption, KP!NoRowAssumption,
          KP!BatchAssumption, KP!KafkaAssumption
  <2>1. KP!IInv
    BY SameConsumer, KP!InitInv DEF Init
  <2> QED
    BY <2>1, KP!Parts
<1>2. FP!JobInv
  <2> USE JobAssumptions DEF FP!EventIdsAssumption, FP!NoRowAssumption,
          FP!BatchAssumption, FP!FileAssumption, FP!OriginAssumption
  <2>1. FP!IInv
    BY SameJob, FP!InitInv DEF Init
  <2> QED
    BY <2>1, FP!Parts
<1>3. ApiTypeOK
  BY DEF Init, ApiInit, ApiTypeOK, Nothing
<1> QED
  BY <1>1, <1>2, <1>3 DEF Init, ServiceInv, Phases

\* Every step keeps it.
LEMMA ServiceNext == ServiceInv /\ [Next]_vars => ServiceInv'
<1> SUFFICES ASSUME ServiceInv, [Next]_vars PROVE ServiceInv'
  OBVIOUS
<1>1. KP!ConsumerInv' /\ FP!JobInv' /\ KP!OnlyAdds
  BY ModesStand DEF ServiceInv
<1>2. ApiTypeOK'
  <2>1. /\ runs \in Seq(RunRow \cup {NoRow})
        /\ summaries \in [Keys -> SummaryRow \cup {NoRow}]
        /\ errors \in SUBSET ErrorRow
    BY SameTables DEF ServiceInv, KP!ConsumerInv, KP!TypeOK, KP!StoreTypeOK
  <2>2. runs' \in Seq(RunRow \cup {NoRow})
    BY <1>1, SameTables DEF KP!ConsumerInv, KP!TypeOK, KP!StoreTypeOK
  <2>3. DOMAIN runs \subseteq DOMAIN runs'
    BY <1>1, <2>1, <2>2 DEF KP!OnlyAdds
  <2>4. CASE Request
    BY <2>1, <2>4, ServeType DEF ServiceInv, Request
  <2>5. CASE UNCHANGED apiVars
    BY <2>3, <2>5 DEF ServiceInv, ApiTypeOK, apiVars
  <2>6. CASE Kill
    BY <2>6 DEF Kill, ApiTypeOK, Nothing
  <2> QED
    BY <2>4, <2>5, <2>6 DEF Next, Lifespan, vars, KafkaWork, KafkaLock, Rebalance, FileWork,
       FileLock, TakeLock, Arrive, Boot, TaskCancelled, StopScheduler, AwaitRaises,
       ClientsStop, ClientsRaise, ClientsHang, Exit, Shutdown
<1>3. locks' \in [Keys -> {"kafka", "file", "none"}]
  <2>1. CASE Release
    BY <2>1 DEF ServiceInv, Release
  <2>2. CASE KafkaLock \/ FileLock
    BY <2>2 DEF ServiceInv, KafkaLock, FileLock, TakeLock
  <2>3. CASE UNCHANGED locks
    BY <2>3 DEF ServiceInv
  <2> QED
    BY <2>1, <2>2, <2>3 DEF Next, Lifespan, vars, KafkaWork, Rebalance, FileWork, Arrive,
       Request, Boot, TaskCancelled, StopScheduler, AwaitRaises, ClientsStop, ClientsRaise,
       ClientsHang, Exit, Shutdown, Kill
<1>4. phase' \in Phases
  BY DEF ServiceInv, Phases, Next, Lifespan, vars, KafkaWork, KafkaLock, FileLock, TakeLock,
     Rebalance, FileWork, Arrive, Request, Boot, TaskCancelled, StopScheduler, AwaitRaises,
     ClientsStop, ClientsRaise, ClientsHang, Exit, Shutdown, Kill
<1> QED
  BY <1>1, <1>2, <1>3, <1>4 DEF ServiceInv

\* Both modes keep the state they keep alone, beside each other, the requests
\* and every way the lifespan ends.
THEOREM ModesKeepTheirState == Spec => []ServiceInv
BY ServiceInit, ServiceNext, PTL DEF Spec

\* Every variable of the service keeps its type.
THEOREM ServiceTypes == Spec => []TypeOK
<1>1. ServiceInv => TypeOK
  BY SameConsumer, SameJob DEF ServiceInv, TypeOK, KP!ConsumerInv, FP!JobInv
<1> QED
  BY <1>1, ModesKeepTheirState, PTL

-----------------------------------------------------------------------------
(* The consumer's promise.                                                 *)

\* Delivery, of the consumer and of the consumer of the proofs, is the same.
LEMMA SameDelivery ==
  /\ KP!Init /\ KP!D!Init => K!D!Init
  /\ [KP!D!Next]_(KP!D!vars) => [K!D!Next]_(K!D!vars)
<1>1. K!Dealt = KP!Dealt /\ K!Dealt' = KP!Dealt'
  BY DEF K!Dealt, KP!Dealt, K!Offsets, KP!Offsets, K!Settled, KP!Settled
<1> QED
  BY <1>1 DEF K!D!Init, KP!D!Init, K!D!Next, KP!D!Next, K!D!Deal, KP!D!Deal,
     K!D!Acknowledge, KP!D!Acknowledge, K!D!vars, KP!D!vars

(***************************************************************************)
(* The consumer keeps the promise of Delivery beside the file job, whose   *)
(* rows and runs go into the same tables: whatever the order of their      *)
(* transactions, and through every way the lifespan ends, an offset is     *)
(* acknowledged only when it has been settled or reported as failed, and   *)
(* nothing takes that back (orchestrator.py:101-153, main.py:38-66).       *)
(***************************************************************************)
THEOREM DeliveryBesideFiles == Spec => DeliversBesideFiles
<1> USE ConsumerAssumptions DEF KP!EventIdsAssumption, KP!NoRowAssumption,
        KP!BatchAssumption, KP!KafkaAssumption
<1>1. Init => K!D!Init
  BY SameConsumer, KP!DeliveryInit, SameDelivery DEF Init
<1>2. ServiceInv /\ [Next]_vars => [K!D!Next]_(K!D!vars)
  <2> SUFFICES ASSUME ServiceInv, [Next]_vars PROVE [K!D!Next]_(K!D!vars)
    OBVIOUS
  <2>1. KP!ConsumerInv /\ KP!ConsumerInv' /\ KP!OnlyAdds /\ ConsumerEffect
    BY ModesStand DEF ServiceInv
  <2>2. [KP!D!Next]_(KP!D!vars)
    BY <2>1, KP!DeliveryStep DEF KP!OnlyAdds, ConsumerEffect
  <2> QED
    BY <2>2, SameDelivery
<1> QED
  BY <1>1, <1>2, ModesKeepTheirState, PTL
  DEF Spec, DeliversBesideFiles, K!ImplementsDelivery, K!D!Spec

-----------------------------------------------------------------------------
(* What a step of a worker does to the tables, in terms of the service.    *)

\* The number of rows is the same number for all.
LEMMA SameSizes ==
  /\ \A S : KP!Cardinality(S) = Cardinality(S) /\ FP!Cardinality(S) = Cardinality(S)
  /\ \A S : (KP!IsFiniteSet(S) <=> IsFiniteSet(S)) /\ (FP!IsFiniteSet(S) <=> IsFiniteSet(S))
BY DEF KP!Cardinality, FP!Cardinality, Cardinality, KP!IsFiniteSet, FP!IsFiniteSet, IsFiniteSet

\* The types the two modes keep, as those of the service.
LEMMA ServiceTables ==
  ASSUME ServiceInv
  PROVE  /\ StoreTypeOK
         /\ DOMAIN runs = 1 .. Len(runs) /\ Len(runs) \in Nat
         /\ krunId \in 0 .. Len(runs) /\ frunId \in 0 .. Len(runs)
         /\ log \in Logs /\ drops \in Deliveries
<1>1. KP!TypeOK /\ FP!TypeOK
  BY DEF ServiceInv, KP!ConsumerInv, FP!JobInv
<1>2. StoreTypeOK
  BY <1>1 DEF KP!TypeOK, KP!StoreTypeOK, StoreTypeOK, MarketRow, KP!MarketRow, SummaryRow,
     KP!SummaryRow, RunRow, KP!RunRow, Status, KP!Status, ErrorRow, KP!ErrorRow
<1>3. DOMAIN runs = 1 .. Len(runs) /\ Len(runs) \in Nat
  BY <1>2 DEF StoreTypeOK
<1> QED
  BY <1>1, <1>2, <1>3 DEF KP!TypeOK, KP!BatchTypeOK, FP!TypeOK, FP!BatchTypeOK

\* The refusals in the database of run r.
RefusedOf(r) == {x \in errors : x.run = r}

\* Backed, at the next state.
BackedNext(o) == IF o \in DOMAIN log' THEN market'[log'[o].event_id] # NoRow
                 ELSE \E e \in EventIds : market'[e] # NoRow /\ market'[e].origin = o

NewRunComes == /\ runs' = Append(runs, NoRow)
               /\ UNCHANGED <<market, summaries, errors>>

\* Run id gets its outcome.
Completes(id) ==
  /\ UNCHANGED <<market, summaries, errors>>
  /\ id \in DOMAIN runs /\ DOMAIN runs' = DOMAIN runs
  /\ runs[id] \in RunRow /\ runs[id].status = "running"
  /\ runs'[id] = [runs[id] EXCEPT !.status = "completed"]
  /\ \A r \in DOMAIN runs \ {id} : runs'[r] = runs[r]

\* The row of run id comes with the rows of its batch: records, whose days
\* have a summary then unless the run failed, summaries of what is stored, and
\* refusals as many as the row says, or none of a failed run.
RowsCome(id) ==
  /\ \A e \in EventIds : market[e] # NoRow => market'[e] = market[e]
  /\ \A k \in Keys : summaries[k] # NoRow =>
       summaries'[k] # NoRow /\ summaries'[k].open = summaries[k].open
  /\ \A e \in EventIds : market'[e] # NoRow =>
       \/ market'[e] = market[e]
       \/ /\ market'[e].run = id
          /\ summaries'[market'[e].key] # NoRow \/ runs'[id].status = "failed"
  /\ \A k \in Keys : summaries'[k] # NoRow =>
       \/ summaries'[k] = summaries[k]
       \/ /\ \A t \in summaries'[k].trades : BackedNext(t[2])
          /\ \/ summaries[k] # NoRow /\ summaries'[k].open = summaries[k].open
             \/ BackedNext(summaries'[k].open)
  /\ errors \subseteq errors' /\ \A x \in errors' \ errors : x.run = id
  /\ id \in DOMAIN runs /\ DOMAIN runs' = DOMAIN runs
  /\ runs[id] = NoRow /\ runs'[id] \in RunRow
  /\ IsFiniteSet(RefusedOf(id)')
  /\ \/ Cardinality(RefusedOf(id)') = runs'[id].invalid
     \/ RefusedOf(id)' = {} /\ runs'[id].status = "failed"
  /\ \A r \in DOMAIN runs \ {id} : runs'[r] = runs[r]

TablesStep(id) ==
  \/ UNCHANGED store
  \/ NewRunComes
  \/ RowsCome(id)
  \/ Completes(id)

\* No id is of a message and of a row of a file.
LEMMA IdsOfTheirOwn ==
  ASSUME ServiceInv, KP!InHand, FP!RunInHand
  PROVE  /\ \A i \in DOMAIN kbatch : kbatch[i].event_id \in EventIds \ Uuids
         /\ \A i \in DOMAIN fbatch : fbatch[i].event_id \in EventIds \cap Uuids
<1>1. \A i \in DOMAIN kbatch : /\ kbatch[i].origin \in DOMAIN log
                               /\ log[kbatch[i].origin].event_id = kbatch[i].event_id
  BY ConsumerAssumptions, KP!BatchIsOfTopic DEF ServiceInv, KP!EventIdsAssumption,
     KP!NoRowAssumption, KP!BatchAssumption, KP!KafkaAssumption
<1>2. \A i \in DOMAIN kbatch : kbatch[i].event_id \notin Uuids
  BY <1>1, ServiceTables, SystemAssumption
<1>3. \A i \in DOMAIN kbatch : kbatch[i].event_id \in EventIds
  <2>1. kbatch \in Seq(KP!Message)
    BY DEF ServiceInv, KP!ConsumerInv, KP!TypeOK, KP!BatchTypeOK
  <2>2. \A i \in DOMAIN kbatch : kbatch[i] \in KP!Message
    BY <2>1
  <2> QED
    BY <2>2 DEF KP!Message
<1>4. \A i \in DOMAIN fbatch : fbatch[i].event_id \in Uuids
  BY DEF FP!RunInHand, FP!FreshBatch
<1>5. Uuids \subseteq EventIds
  BY JobAssumptions DEF FP!FileAssumption
<1> QED
  BY <1>2, <1>3, <1>4, <1>5

\* What the consumer does to the tables; its ids are not those of the files.
LEMMA ConsumerTables ==
  ASSUME ServiceInv, KP!InHand, KP!RunsAreKept, [KP!Next]_(KP!vars)
  PROVE  /\ TablesStep(krunId)
         /\ \/ NewRunComes /\ krunId' = Len(runs) + 1
            \/ krunId' \in {krunId, 0}
         /\ \A e \in EventIds \cap Uuids : market'[e] = market[e] \/ market'[e] = NoRow
<1> USE ConsumerAssumptions DEF KP!EventIdsAssumption, KP!NoRowAssumption,
        KP!BatchAssumption, KP!KafkaAssumption
<1>1. /\ KP!WorkerEffect
      /\ KP!NewRunStep \/ krunId' = krunId \/ krunId' = 0
      /\ \A i \in DOMAIN kbatch : /\ kbatch[i].origin \in DOMAIN log
                                 /\ log[kbatch[i].origin].event_id = kbatch[i].event_id
      /\ log' = log
  BY KP!ConsumerWrites DEF ServiceInv
<1>2. \A i \in DOMAIN kbatch : kbatch[i].event_id \notin Uuids
  BY <1>1, ServiceTables, SystemAssumption
<1>3. \A i \in DOMAIN kbatch :
        market'[kbatch[i].event_id] # NoRow => BackedNext(kbatch[i].origin)
  BY <1>1 DEF BackedNext
<1>4. ASSUME KP!BatchRows PROVE RowsCome(krunId)
  <2>1. \A r : RefusedOf(r)' = KP!RefusedBy(r)'
    BY DEF RefusedOf, KP!RefusedBy
  <2>2. /\ krunId \in DOMAIN runs /\ DOMAIN runs' = DOMAIN runs
        /\ runs[krunId] = NoRow /\ runs'[krunId] \in RunRow
        /\ IsFiniteSet(RefusedOf(krunId)')
        /\ \/ Cardinality(RefusedOf(krunId)') = runs'[krunId].invalid
           \/ RefusedOf(krunId)' = {} /\ runs'[krunId].status = "failed"
        /\ \A x \in errors' \ errors : x.run = krunId
        /\ \A r \in DOMAIN runs \ {krunId} : runs'[r] = runs[r]
    BY <1>4, <2>1, SameSizes, SameTables DEF KP!BatchRows, KP!RowOfRunComes
  <2>3. \A e \in EventIds : market'[e] # NoRow =>
          \/ market'[e] = market[e]
          \/ /\ market'[e].run = krunId
             /\ summaries'[market'[e].key] # NoRow \/ runs'[krunId].status = "failed"
    <3>1. \A i : KP!RowOf(i).run = krunId
      BY DEF KP!RowOf
    <3> QED
      BY <1>4, <3>1 DEF KP!BatchRows, KP!RecordsCome
  <2>4. \A k \in Keys : summaries'[k] # NoRow =>
          \/ summaries'[k] = summaries[k]
          \/ /\ \A t \in summaries'[k].trades : BackedNext(t[2])
             /\ \/ summaries[k] # NoRow /\ summaries'[k].open = summaries[k].open
                \/ BackedNext(summaries'[k].open)
    BY <1>3, <1>4 DEF KP!BatchRows, KP!RecordsCome, KP!GetsStored
  <2> QED
    BY <1>4, <2>2, <2>3, <2>4 DEF KP!BatchRows, KP!RowsStand, RowsCome
<1>5. ASSUME KP!RunCompletes PROVE Completes(krunId)
  BY <1>5, SameTables DEF KP!RunCompletes, Completes
<1>6. TablesStep(krunId)
  BY <1>1, <1>4, <1>5 DEF KP!WorkerEffect, KP!store, store, KP!NewRunStep, NewRunComes,
     TablesStep
<1>7. \A e \in EventIds \cap Uuids : market'[e] = market[e] \/ market'[e] = NoRow
  BY <1>1, <1>2 DEF KP!WorkerEffect, KP!store, KP!NewRunStep, KP!RunCompletes,
     KP!BatchRows, KP!RecordsCome
<1> QED
  BY <1>1, <1>2, <1>6, <1>7 DEF KP!NewRunStep, NewRunComes

\* What the file job does to the tables; its ids are its own.
LEMMA JobTables ==
  ASSUME ServiceInv, FP!RunInHand, FP!RunsAreKept, [FP!Next]_(FP!vars), UNCHANGED kafka
  PROVE  /\ TablesStep(frunId)
         /\ \/ NewRunComes /\ frunId' = Len(runs) + 1
            \/ frunId' \in {frunId, 0}
         /\ \A e \in EventIds \ Uuids : market'[e] = market[e] \/ market'[e] = NoRow
         /\ dlt \subseteq dlt'
<1> USE JobAssumptions DEF FP!EventIdsAssumption, FP!NoRowAssumption,
        FP!BatchAssumption, FP!FileAssumption, FP!OriginAssumption
<1>1. /\ \/ UNCHANGED FP!store
         \/ FP!NewRunStep
         \/ FP!BatchRows /\ FP!RowsFromFile /\ frunId' = frunId
         \/ FP!RunCompletes
      /\ FP!NewRunStep \/ frunId' = frunId \/ frunId' = 0
      /\ \A i \in DOMAIN fbatch : fbatch[i].event_id \in Uuids
      /\ dlt \subseteq dlt'
  BY FP!JobWrites DEF ServiceInv
<1>2. Uuids \subseteq EventIds
  BY JobAssumptions DEF FP!FileAssumption
<1>3. ASSUME FP!RowsFromFile, NEW i \in DOMAIN fbatch, market'[fbatch[i].event_id] # NoRow
      PROVE  BackedNext(fbatch[i].origin)
  <2>1. PICK d \in 1 .. Len(drops) : fbatch[i].origin \in FP!Origins(d)
    BY <1>3 DEF FP!RowsFromFile
  <2>2. log' = log /\ log \in Logs /\ drops \in Deliveries
    BY ServiceTables DEF kafka
  <2>3. d \in DOMAIN drops
    BY <2>2 DEF FP!File
  <2>4. fbatch[i].origin \notin DOMAIN log'
    BY <2>1, <2>2, <2>3, SystemAssumption DEF FP!Origins
  <2>5. market'[fbatch[i].event_id].origin = fbatch[i].origin
    BY <1>3 DEF FP!RowsFromFile, FP!GetsStored
  <2>6. fbatch[i].event_id \in EventIds
    BY <1>1, <1>2
  <2> QED
    BY <1>3, <2>4, <2>5, <2>6 DEF BackedNext
<1>4. ASSUME FP!BatchRows, FP!RowsFromFile PROVE RowsCome(frunId)
  <2>1. \A r : RefusedOf(r)' = FP!RefusedBy(r)'
    BY DEF RefusedOf, FP!RefusedBy
  <2>2. /\ frunId \in DOMAIN runs /\ DOMAIN runs' = DOMAIN runs
        /\ runs[frunId] = NoRow /\ runs'[frunId] \in RunRow
        /\ IsFiniteSet(RefusedOf(frunId)')
        /\ \/ Cardinality(RefusedOf(frunId)') = runs'[frunId].invalid
           \/ RefusedOf(frunId)' = {} /\ runs'[frunId].status = "failed"
        /\ \A x \in errors' \ errors : x.run = frunId
        /\ \A r \in DOMAIN runs \ {frunId} : runs'[r] = runs[r]
    BY <1>4, <2>1, SameSizes, SameTables DEF FP!BatchRows, FP!RowOfRunComes
  <2>3. \A e \in EventIds : market'[e] # NoRow =>
          \/ market'[e] = market[e]
          \/ /\ market'[e].run = frunId
             /\ summaries'[market'[e].key] # NoRow \/ runs'[frunId].status = "failed"
    <3>1. \A i : FP!RowOf(i).run = frunId
      BY DEF FP!RowOf
    <3> QED
      BY <1>4, <3>1 DEF FP!BatchRows, FP!RecordsCome
  <2>4. \A k \in Keys : summaries'[k] # NoRow =>
          \/ summaries'[k] = summaries[k]
          \/ /\ \A t \in summaries'[k].trades : BackedNext(t[2])
             /\ \/ summaries[k] # NoRow /\ summaries'[k].open = summaries[k].open
                \/ BackedNext(summaries'[k].open)
    BY <1>3, <1>4 DEF FP!BatchRows, FP!RecordsCome, FP!GetsStored
  <2> QED
    BY <1>4, <2>2, <2>3, <2>4 DEF FP!BatchRows, FP!RowsStand, RowsCome
<1>5. ASSUME FP!RunCompletes PROVE Completes(frunId)
  BY <1>5, SameTables DEF FP!RunCompletes, Completes
<1>6. TablesStep(frunId)
  BY <1>1, <1>4, <1>5 DEF FP!store, store, FP!NewRunStep, NewRunComes, TablesStep
<1>7. \A e \in EventIds \ Uuids : market'[e] = market[e] \/ market'[e] = NoRow
  BY <1>1 DEF FP!store, FP!NewRunStep, FP!RunCompletes, FP!BatchRows, FP!RecordsCome
<1> QED
  BY <1>1, <1>6, <1>7 DEF FP!NewRunStep, NewRunComes

-----------------------------------------------------------------------------
(* The tables.                                                             *)

\* The refusals of a run that has its row are as many as the row says, or none
\* of a run that failed before it could save them.
RefusalsFit ==
  \A r \in RunRows :
    /\ IsFiniteSet(RefusedOf(r))
    /\ \/ Cardinality(RefusedOf(r)) = runs[r].invalid
       \/ RefusedOf(r) = {} /\ runs[r].status = "failed"

TablesInv == KP!RunsAreKept /\ RefusalsFit /\ SummariesAreBacked

\* Rows come and stay, and a run's row changes once, to its outcome.
LEMMA RowsStay ==
  ASSUME StoreTypeOK, NEW id, TablesStep(id)
  PROVE  /\ \A e \in EventIds : market[e] # NoRow => market'[e] = market[e]
         /\ \A k \in Keys : summaries[k] # NoRow =>
              summaries'[k] # NoRow /\ summaries'[k].open = summaries[k].open
         /\ errors \subseteq errors'
         /\ DOMAIN runs \subseteq DOMAIN runs'
         /\ \A r \in DOMAIN runs : r # id => runs'[r] = runs[r]
         /\ \A r \in DOMAIN runs : runs[r] # NoRow =>
              \/ runs'[r] = runs[r]
              \/ /\ runs[r].status = "running"
                 /\ runs'[r] = [runs[r] EXCEPT !.status = "completed"]
         /\ \A r \in DOMAIN runs' \ DOMAIN runs : runs'[r] = NoRow
<1>1. runs \in Seq(RunRow \cup {NoRow})
  BY DEF StoreTypeOK
<1>2. CASE NewRunComes
  <2>1. /\ Len(runs) \in Nat /\ DOMAIN runs = 1 .. Len(runs)
        /\ DOMAIN runs' = 1 .. Len(runs) + 1
        /\ \A r \in DOMAIN runs : runs'[r] = runs[r]
        /\ runs'[Len(runs) + 1] = NoRow
    BY <1>1, <1>2 DEF NewRunComes
  <2>2. /\ DOMAIN runs \subseteq DOMAIN runs'
        /\ \A r \in DOMAIN runs' \ DOMAIN runs : r = Len(runs) + 1
    BY <2>1
  <2> QED
    BY <1>2, <2>1, <2>2 DEF NewRunComes
<1>3. CASE UNCHANGED store
  BY <1>3 DEF store
<1>4. CASE RowsCome(id)
  BY <1>4 DEF RowsCome
<1>5. CASE Completes(id)
  BY <1>5 DEF Completes
<1> QED
  BY <1>2, <1>3, <1>4, <1>5 DEF TablesStep

\* What is stored stays stored.
LEMMA BackedStays ==
  ASSUME StoreTypeOK, log \in Logs, log' = log, NEW id, TablesStep(id), NEW o, Backed(o)
  PROVE  BackedNext(o)
<1>1. \A e \in EventIds : market[e] # NoRow => market'[e] = market[e]
  BY RowsStay
<1>2. CASE o \in DOMAIN log
  <2>1. log[o].event_id \in EventIds
    <3>1. log \in Seq(KP!LogEntry)
      BY ConsumerAssumptions DEF KP!KafkaAssumption
    <3>2. log[o] \in KP!LogEntry
      BY <1>2, <3>1
    <3> QED
      BY <3>2 DEF KP!LogEntry
  <2> QED
    BY <1>1, <1>2, <2>1 DEF Backed, BackedNext
<1>3. CASE o \notin DOMAIN log
  BY <1>1, <1>3 DEF Backed, BackedNext, F!Stored
<1> QED
  BY <1>2, <1>3

\* Every row of the tables goes on being of a run that has its row.
LEMMA RunsStayKept ==
  ASSUME StoreTypeOK, KP!RunsAreKept, NEW id, TablesStep(id)
  PROVE  KP!RunsAreKept'
<1> DEFINE Has(r)     == r \in DOMAIN runs /\ runs[r] # NoRow
           HasNext(r) == r \in DOMAIN runs' /\ runs'[r] # NoRow
<1>1. NoRow \notin RunRow
  BY NoRowAssumption
<1>2. \A r : Has(r) => HasNext(r)
  <2>1. \A r \in DOMAIN runs : runs[r] # NoRow => runs[r] \in RunRow
    BY DEF StoreTypeOK
  <2>2. \A row \in RunRow : [row EXCEPT !.status = "completed"] \in RunRow
    BY DEF RunRow, Status
  <2>3. ASSUME NEW r \in DOMAIN runs, runs[r] # NoRow
        PROVE  r \in DOMAIN runs' /\ runs'[r] # NoRow
    <3>1. runs[r] \in RunRow
      BY <2>1, <2>3
    <3>2. runs'[r] = runs[r] \/ runs'[r] = [runs[r] EXCEPT !.status = "completed"]
      BY <2>3, RowsStay
    <3>3. runs'[r] \in RunRow
      BY <2>2, <3>1, <3>2
    <3> QED
      BY <1>1, <3>3, RowsStay
  <2> QED
    BY <2>3
<1>3. /\ \A e \in EventIds : market'[e] # NoRow =>
           market'[e] = market[e] \/ HasNext(market'[e].run)
      /\ \A x \in errors' : x \in errors \/ HasNext(x.run)
  <2>1. CASE RowsCome(id)
    BY <1>1, <2>1 DEF RowsCome
  <2>2. CASE UNCHANGED <<market, errors>>
    BY <2>2
  <2> QED
    BY <2>1, <2>2 DEF TablesStep, store, NewRunComes, Completes
<1> HIDE DEF HasNext, Has
<1>4. /\ \A e \in EventIds : market'[e] # NoRow => HasNext(market'[e].run)
      /\ \A x \in errors' : HasNext(x.run)
  <2>1. /\ \A e \in EventIds : market[e] # NoRow => Has(market[e].run)
        /\ \A x \in errors : Has(x.run)
    BY DEF KP!RunsAreKept, Has
  <2> QED
    BY <1>2, <1>3, <2>1
<1> QED
  BY <1>4 DEF KP!RunsAreKept, HasNext

\* The refusals go on fitting the rows.
LEMMA RefusalsStayFit ==
  ASSUME StoreTypeOK, RefusalsFit, NEW id, TablesStep(id)
  PROVE  RefusalsFit'
<1> SUFFICES ASSUME NEW r \in DOMAIN runs', runs'[r] # NoRow
             PROVE  /\ IsFiniteSet(RefusedOf(r)')
                    /\ \/ Cardinality(RefusedOf(r)') = runs'[r].invalid
                       \/ RefusedOf(r)' = {} /\ runs'[r].status = "failed"
  BY DEF RefusalsFit, RunRows
<1>1. r \in DOMAIN runs
  BY RowsStay
<1>2. ASSUME RefusedOf(r)' = RefusedOf(r), runs[r] # NoRow,
             \/ runs'[r] = runs[r]
             \/ /\ runs[r].status = "running"
                /\ runs'[r] = [runs[r] EXCEPT !.status = "completed"]
      PROVE  /\ IsFiniteSet(RefusedOf(r)')
             /\ \/ Cardinality(RefusedOf(r)') = runs'[r].invalid
                \/ RefusedOf(r)' = {} /\ runs'[r].status = "failed"
  <2>1. /\ IsFiniteSet(RefusedOf(r))
        /\ \/ Cardinality(RefusedOf(r)) = runs[r].invalid
           \/ RefusedOf(r) = {} /\ runs[r].status = "failed"
    BY <1>1, <1>2 DEF RefusalsFit, RunRows
  <2>2. runs[r] \in RunRow
    BY <1>1, <1>2 DEF StoreTypeOK
  <2>3. runs'[r].invalid = runs[r].invalid /\ (runs[r].status = "failed" => runs'[r] = runs[r])
    BY <1>2, <2>2 DEF RunRow
  <2> QED
    BY <1>2, <2>1, <2>3
<1>3. CASE UNCHANGED errors /\ \A q \in DOMAIN runs : runs[q] = NoRow => runs'[q] = NoRow
  <2>1. RefusedOf(r)' = RefusedOf(r) /\ runs[r] # NoRow
    BY <1>1, <1>3 DEF RefusedOf
  <2> QED
    BY <1>1, <1>2, <2>1, RowsStay
<1>4. CASE RowsCome(id) /\ r # id
  <2>1. RefusedOf(r)' = RefusedOf(r) /\ runs'[r] = runs[r]
    BY <1>1, <1>4 DEF RowsCome, RefusedOf
  <2> QED
    BY <1>2, <2>1
<1>5. CASE RowsCome(id) /\ r = id
  BY <1>5 DEF RowsCome
<1>6. CASE Completes(id) \/ NewRunComes \/ UNCHANGED store
  <2>1. UNCHANGED errors
    BY <1>6 DEF Completes, NewRunComes, store
  <2>2. \A q \in DOMAIN runs : runs[q] = NoRow => runs'[q] = NoRow
    <3>1. CASE Completes(id)
      BY <3>1, NoRowAssumption DEF Completes
    <3>2. CASE NewRunComes
      BY <3>2 DEF NewRunComes, StoreTypeOK
    <3>3. CASE UNCHANGED store
      BY <3>3 DEF store
    <3> QED
      BY <1>6, <3>1, <3>2, <3>3
  <2> QED
    BY <1>3, <2>1, <2>2
<1> QED
  BY <1>4, <1>5, <1>6 DEF TablesStep

\* The summaries go on having what they show, and the records a summary.
LEMMA SummariesStayBacked ==
  ASSUME StoreTypeOK, StoreTypeOK', log \in Logs, log' = log, SummariesAreBacked,
         KP!RunsAreKept, NEW id, TablesStep(id)
  PROVE  SummariesAreBacked'
<1>1. \A o : Backed(o) => BackedNext(o)
  BY BackedStays
<1>2. ASSUME NEW k \in Keys, summaries'[k] # NoRow
      PROVE  /\ BackedNext(summaries'[k].open)
             /\ \A t \in summaries'[k].trades : BackedNext(t[2])
  <2>1. summaries[k] # NoRow => /\ BackedNext(summaries[k].open)
                                /\ \A t \in summaries[k].trades : BackedNext(t[2])
    BY <1>1 DEF SummariesAreBacked
  <2>2. CASE RowsCome(id)
    BY <1>2, <2>1, <2>2 DEF RowsCome
  <2>3. CASE summaries' = summaries
    BY <1>2, <2>1, <2>3
  <2> QED
    BY <2>2, <2>3 DEF TablesStep, store, NewRunComes, Completes
<1>3. ASSUME NEW e \in EventIds, market'[e] # NoRow
      PROVE  \/ summaries'[market'[e].key] # NoRow
             \/ runs'[market'[e].run] # NoRow /\ runs'[market'[e].run].status = "failed"
  <2>1. CASE market'[e] = market[e]
    <3>1. \/ summaries[market[e].key] # NoRow
          \/ runs[market[e].run] # NoRow /\ runs[market[e].run].status = "failed"
      BY <1>3, <2>1 DEF SummariesAreBacked
    <3>2. market[e].key \in Keys /\ market[e].run \in DOMAIN runs
      BY <1>3, <2>1 DEF StoreTypeOK, MarketRow, KP!RunsAreKept
    <3>3. runs[market[e].run] # NoRow /\ runs[market[e].run].status = "failed" =>
            runs'[market[e].run] = runs[market[e].run]
      BY <3>2, RowsStay
    <3> QED
      BY <2>1, <3>1, <3>2, <3>3, RowsStay
  <2>2. CASE RowsCome(id)
    <3>1. runs'[id] # NoRow
      BY <2>2, NoRowAssumption DEF RowsCome
    <3> QED
      BY <1>3, <2>1, <2>2, <3>1 DEF RowsCome
  <2>3. CASE market' = market
    BY <2>1, <2>3
  <2> QED
    BY <2>2, <2>3 DEF TablesStep, store, NewRunComes, Completes
<1> QED
  BY <1>2, <1>3 DEF SummariesAreBacked, Backed, BackedNext, F!Stored

-----------------------------------------------------------------------------
(* What is in hand.                                                        *)

\* The two workers are never in the same run.
OwnRuns == krunId = frunId => krunId = 0

HandsInv == KP!InHand /\ FP!RunInHand /\ OwnRuns

\* A step of the job leaves the consumer what it has in hand.
LEMMA ConsumerBesideJob ==
  ASSUME ServiceInv, ServiceInv', LockInv', HandsInv, KP!RunsAreKept, KP!OnlyAdds,
         [FP!Next]_(FP!vars), UNCHANGED kafka
  PROVE  HandsInv' /\ TablesStep(frunId)
<1>1. FP!RunsAreKept
  BY SameTables
<1>2. /\ TablesStep(frunId)
      /\ \/ NewRunComes /\ frunId' = Len(runs) + 1
         \/ frunId' \in {frunId, 0}
      /\ \A e \in EventIds \ Uuids : market'[e] = market[e] \/ market'[e] = NoRow
      /\ dlt \subseteq dlt'
  BY <1>1, JobTables DEF HandsInv
<1>3. FP!RunInHand'
  <2> USE JobAssumptions DEF FP!EventIdsAssumption, FP!NoRowAssumption,
          FP!BatchAssumption, FP!FileAssumption, FP!OriginAssumption
  <2> QED
    BY <1>1, FP!RunInHandStep DEF ServiceInv, HandsInv
<1>4. /\ Len(runs) \in Nat /\ DOMAIN runs = 1 .. Len(runs)
      /\ krunId \in 0 .. Len(runs) /\ frunId \in 0 .. Len(runs) /\ StoreTypeOK
  BY ServiceTables
<1>5. UNCHANGED <<kpc, kbatch, krun, krunId, ktodo, ktx, kaborted, committed>>
  BY DEF kafka
<1>6. OwnRuns'
  <2>1. krunId = frunId => krunId = 0
    BY DEF HandsInv, OwnRuns
  <2> QED
    BY <1>2, <1>4, <1>5, <2>1 DEF OwnRuns
<1>7. KP!OthersAdd
  <2>1. \A i \in DOMAIN kbatch : market'[kbatch[i].event_id] = market[kbatch[i].event_id]
    <3>1. \A e \in EventIds : market[e] # NoRow => market'[e] = market[e]
      BY <1>2, <1>4, RowsStay
    <3>2. \A e \in EventIds \ Uuids : market'[e] = market[e]
      BY <1>2, <3>1
    <3> QED
      BY <3>2, IdsOfTheirOwn DEF HandsInv
  <2>2. krunId \in DOMAIN runs => krunId \in DOMAIN runs' /\ runs'[krunId] = runs[krunId]
    <3>1. krunId \in DOMAIN runs => krunId # frunId
      BY <1>4 DEF HandsInv, OwnRuns
    <3> QED
      BY <1>2, <1>4, <3>1, RowsStay
  <2>3. \A k \in Keys : summaries[k] # NoRow => summaries'[k] # NoRow
    BY <1>2, <1>4, RowsStay
  <2> QED
    BY <2>1, <2>2, <2>3 DEF KP!OthersAdd
<1>8. KP!StoreTypeOK'
  BY DEF ServiceInv, KP!ConsumerInv, KP!TypeOK
<1>9. \A k \in Keys : ktx.summaries[k] # NoRow /\ ~ kaborted =>
        (summaries'[k] # NoRow => ktx.summaries[k].open = summaries'[k].open)
  BY <1>5 DEF LockInv, KafkaWrites
<1>10. KP!InHand'
  <2> USE ConsumerAssumptions DEF KP!EventIdsAssumption, KP!NoRowAssumption,
          KP!BatchAssumption, KP!KafkaAssumption
  <2> QED
    BY <1>2, <1>5, <1>7, <1>8, <1>9, KP!InHandBesideOthers DEF ServiceInv, HandsInv
<1> QED
  BY <1>2, <1>3, <1>6, <1>10 DEF HandsInv

\* A step of the consumer leaves the job what it has in hand.
LEMMA JobBesideConsumer ==
  ASSUME ServiceInv, ServiceInv', LockInv', HandsInv, KP!RunsAreKept, KP!OnlyAdds,
         [KP!Next]_(KP!vars), UNCHANGED file
  PROVE  HandsInv' /\ TablesStep(krunId)
<1>1. /\ TablesStep(krunId)
      /\ \/ NewRunComes /\ krunId' = Len(runs) + 1
         \/ krunId' \in {krunId, 0}
      /\ \A e \in EventIds \cap Uuids : market'[e] = market[e] \/ market'[e] = NoRow
  BY ConsumerTables DEF HandsInv
<1>2. KP!InHand'
  <2> USE ConsumerAssumptions DEF KP!EventIdsAssumption, KP!NoRowAssumption,
          KP!BatchAssumption, KP!KafkaAssumption
  <2> QED
    BY KP!InHandStep DEF ServiceInv, HandsInv
<1>3. /\ Len(runs) \in Nat /\ DOMAIN runs = 1 .. Len(runs)
      /\ krunId \in 0 .. Len(runs) /\ frunId \in 0 .. Len(runs) /\ StoreTypeOK
  BY ServiceTables
<1>4. UNCHANGED <<fpc, fbatch, frun, frunId, ftodo, ftx, faborted>>
  BY DEF file
<1>5. OwnRuns'
  <2>1. krunId = frunId => krunId = 0
    BY DEF HandsInv, OwnRuns
  <2> QED
    BY <1>1, <1>3, <1>4, <2>1 DEF OwnRuns
<1>6. FP!OthersAdd
  <2>1. \A i \in DOMAIN fbatch : market'[fbatch[i].event_id] = market[fbatch[i].event_id]
    <3>1. \A e \in EventIds : market[e] # NoRow => market'[e] = market[e]
      BY <1>1, <1>3, RowsStay
    <3>2. \A e \in EventIds \cap Uuids : market'[e] = market[e]
      BY <1>1, <3>1
    <3> QED
      BY <3>2, IdsOfTheirOwn DEF HandsInv
  <2>2. frunId \in DOMAIN runs => frunId \in DOMAIN runs' /\ runs'[frunId] = runs[frunId]
    <3>1. frunId \in DOMAIN runs => krunId # frunId
      BY <1>3 DEF HandsInv, OwnRuns
    <3> QED
      BY <1>1, <1>3, <3>1, RowsStay
  <2>3. \A k \in Keys : summaries[k] # NoRow => summaries'[k] # NoRow
    BY <1>1, <1>3, RowsStay
  <2> QED
    BY <2>1, <2>2, <2>3, SameTables DEF FP!OthersAdd
<1>7. FP!StoreTypeOK'
  BY DEF ServiceInv, FP!JobInv, FP!TypeOK
<1>8. \A k \in Keys : ftx.summaries[k] # NoRow /\ ~ faborted =>
        (summaries'[k] # NoRow => ftx.summaries[k].open = summaries'[k].open)
  BY <1>4 DEF LockInv, FileWrites
<1>9. FP!RunInHand'
  <2> USE JobAssumptions DEF FP!EventIdsAssumption, FP!NoRowAssumption,
          FP!BatchAssumption, FP!FileAssumption, FP!OriginAssumption
  <2> QED
    BY <1>4, <1>6, <1>7, <1>8, FP!RunInHandBesideOthers DEF ServiceInv, HandsInv
<1> QED
  BY <1>1, <1>2, <1>5, <1>9 DEF HandsInv

\* So both keep it through every step of the service.
LEMMA HandsStand ==
  ASSUME ServiceInv, ServiceInv', LockInv', HandsInv, KP!RunsAreKept, [Next]_vars
  PROVE  /\ HandsInv'
         /\ log' = log
         /\ \E id : TablesStep(id)
<1>1. KP!OnlyAdds /\ log' = log
  BY ModesStand DEF ServiceInv, ConsumerEffect
<1>2. CASE [KP!Next]_(KP!vars) /\ UNCHANGED file
  BY <1>1, <1>2, JobBesideConsumer
<1>3. CASE [FP!Next]_(FP!vars) /\ UNCHANGED kafka
  BY <1>1, <1>3, ConsumerBesideJob
<1>4. CASE KP!Next /\ FP!Next /\ UNCHANGED store
  <2>1. FP!RunsAreKept
    BY SameTables
  <2>2. KP!InHand' /\ (NewRunComes \/ krunId' \in {krunId, 0})
    <3> USE ConsumerAssumptions DEF KP!EventIdsAssumption, KP!NoRowAssumption,
            KP!BatchAssumption, KP!KafkaAssumption
    <3> QED
      BY <1>4, KP!InHandStep, ConsumerTables DEF ServiceInv, HandsInv
  <2>3. FP!RunInHand' /\ (FP!NewRunStep \/ frunId' \in {frunId, 0})
    <3> USE JobAssumptions DEF FP!EventIdsAssumption, FP!NoRowAssumption,
            FP!BatchAssumption, FP!FileAssumption, FP!OriginAssumption
    <3> QED
      BY <1>4, <2>1, FP!RunInHandStep, FP!RunIdStep DEF ServiceInv, HandsInv
  <2>4. ~ NewRunComes /\ ~ FP!NewRunStep
    <3>1. Len(runs) \in Nat /\ runs \in Seq(RunRow \cup {NoRow}) /\ runs' = runs
      BY <1>4, ServiceTables DEF StoreTypeOK, store
    <3>2. Len(Append(runs, NoRow)) = Len(runs) + 1
      BY <3>1
    <3> QED
      BY <3>1, <3>2 DEF NewRunComes, FP!NewRunStep
  <2>5. OwnRuns'
    BY <2>2, <2>3, <2>4 DEF HandsInv, OwnRuns
  <2> QED
    BY <1>1, <1>4, <2>2, <2>3, <2>5 DEF HandsInv, TablesStep
<1> QED
  BY <1>1, <1>2, <1>3, <1>4, WhoseStep

-----------------------------------------------------------------------------
(* The readers.                                                            *)

\* The row of run r still says what was read, or has got its outcome since.
Stands(r, row) ==
  /\ r \in RunRows
  /\ \/ runs[r] = row
     \/ row.status = "running" /\ runs[r] = [row EXCEPT !.status = "completed"]

\* What a handler holds after each of its statements.
AnswersHold ==
  /\ DOMAIN answer = DOMAIN Nothing
  /\ served = "none" => answer = Nothing
  /\ \A r \in DOMAIN answer.rows : Stands(r, answer.rows[r])
  /\ served = "run" => \E r \in DOMAIN runs : DOMAIN answer.rows = {r}
  /\ \A k \in DOMAIN answer.days :
       summaries[k] # NoRow /\ summaries[k].open = answer.days[k].open
  /\ answer.records \cup answer.outliers \subseteq Records
  /\ answer.errors \subseteq errors
  /\ served = "metrics" /\ step >= 4 =>
       /\ \A e \in answer.records \cup answer.outliers : market[e].run \in answer.runs
       /\ \A x \in answer.errors : x.run \in answer.runs
  /\ served = "metrics" /\ step = 5 => answer.records \subseteq answer.top

\* A page of the refusals of a run is as long as the run's row makes it.
LEMMA PageOfRefusals ==
  ASSUME NEW S, NEW P \in Pages(S), IsFiniteSet(S), NEW n \in Nat, Cardinality(S) = n
  PROVE  Cardinality(P) = IF n < PageSize THEN n ELSE PageSize
<1>1. PageSize \in Nat \ {0}
  BY ApiAssumption
<1>2. CASE P = S /\ Cardinality(S) <= PageSize
  BY <1>1, <1>2
<1>3. CASE Cardinality(P) = PageSize
  <2>1. P \in SUBSET S
    BY DEF Pages
  <2>2. Cardinality(P) <= n
    BY <2>1, FS_Subset
  <2> QED
    BY <1>1, <1>3, <2>2
<1> QED
  BY <1>2, <1>3 DEF Pages

\* Every statement of a handler, and the end of its request, keeps what the
\* answer says of the tables.
LEMMA ServeHolds ==
  ASSUME ServiceInv, TablesInv, AnswersHold, Serve
  PROVE  AnswersHold'
<1>1. UNCHANGED store
  BY DEF Serve, ListRuns, GetRun, GetRunErrors, Metrics, MetricsContinue,
         DailySummaries, Send, RequestFails, Begin
<1> DEFINE Holds(s, n, a) ==
      /\ DOMAIN a = DOMAIN Nothing
      /\ s = "none" => a = Nothing
      /\ \A r \in DOMAIN a.rows : Stands(r, a.rows[r])
      /\ s = "run" => \E r \in DOMAIN runs : DOMAIN a.rows = {r}
      /\ \A k \in DOMAIN a.days :
           summaries[k] # NoRow /\ summaries[k].open = a.days[k].open
      /\ a.records \cup a.outliers \subseteq Records
      /\ a.errors \subseteq errors
      /\ s = "metrics" /\ n >= 4 =>
           /\ \A e \in a.records \cup a.outliers : market[e].run \in a.runs
           /\ \A x \in a.errors : x.run \in a.runs
      /\ s = "metrics" /\ n = 5 => a.records \subseteq a.top
<1>2. ASSUME Holds(served', step', answer') PROVE AnswersHold'
  <2>1. Records' = Records /\ RunRows' = RunRows
    BY <1>1 DEF Records, RunRows, store
  <2> QED
    BY <1>1, <1>2, <2>1 DEF AnswersHold, Stands, store
<1>3. Holds(served, step, answer)
  BY DEF AnswersHold
<1>4. \A r \in RunRows : Stands(r, runs[r])
  BY DEF Stands
<1>5. \A n : Holds("none", n, Nothing)
  BY DEF Nothing
<1>6. CASE ListRuns
  <2>1. PICK statuses \in {{s} : s \in Status} \cup {Status} :
          Begin("runs", [Nothing EXCEPT !.rows =
            [r \in Newest({r \in RunRows : runs[r].status \in statuses}) |-> runs[r]]])
    BY <1>6 DEF ListRuns
  <2>2. PICK R : R = Newest({r \in RunRows : runs[r].status \in statuses})
    OBVIOUS
  <2>3. R \in SUBSET RunRows
    BY <2>2 DEF Newest
  <2>4. served' = "runs" /\ answer' = [Nothing EXCEPT !.rows = [r \in R |-> runs[r]]]
    BY <2>1, <2>2 DEF Begin
  <2>5. Holds(served', step', answer')
    BY <1>4, <2>3, <2>4 DEF Nothing
  <2> QED
    BY <1>2, <2>5
<1>7. CASE GetRun
  <2>1. PICK r \in RunRows : Begin("run", [Nothing EXCEPT !.rows = [q \in {r} |-> runs[q]]])
    BY <1>7 DEF GetRun
  <2>2. served' = "run" /\ answer' = [Nothing EXCEPT !.rows = [q \in {r} |-> runs[q]]]
    BY <2>1 DEF Begin
  <2>3. r \in DOMAIN runs
    BY DEF RunRows
  <2>4. Holds(served', step', answer')
    BY <1>4, <2>2, <2>3 DEF Nothing
  <2> QED
    BY <1>2, <2>4
<1>8. CASE GetRunErrors
  <2>1. PICK P \in Pages({x \in errors : x.run \in DOMAIN answer.rows}) :
          answer' = [answer EXCEPT !.errors = P]
    BY <1>8 DEF GetRunErrors
  <2>2. P \subseteq errors
    BY DEF Pages
  <2>3. served = "run" /\ served' = "run" /\ step' = 2
    BY <1>8 DEF GetRunErrors
  <2>4. /\ DOMAIN answer' = DOMAIN Nothing
        /\ answer'.rows = answer.rows /\ answer'.days = answer.days
        /\ answer'.records = answer.records /\ answer'.outliers = answer.outliers
        /\ answer'.errors \subseteq errors
    BY <1>3, <2>1, <2>2 DEF Nothing
  <2>5. Holds(served', step', answer')
    BY <1>3, <2>3, <2>4
  <2> QED
    BY <1>2, <2>5
<1>9. /\ DOMAIN answer = {"rows", "errors", "records", "outliers", "runs", "top", "days"}
      /\ \A i \in 1 .. 5 : DOMAIN Counted(i) = DOMAIN answer
  BY <1>3 DEF Nothing, Counted
<1>10. CASE Metrics \/ MetricsContinue
  <2>1. PICK i \in 1 .. 5 : /\ answer' = Counted(i) /\ step' = i /\ served' = "metrics"
                            /\ \/ i = 1 /\ answer = Nothing
                               \/ i = step + 1 /\ served = "metrics"
    BY <1>3, <1>10 DEF Metrics, MetricsContinue, Begin, ServiceInv, ApiTypeOK
  <2>2. {e \in Records : market[e].origin \in Flagged} \subseteq Records
    OBVIOUS
  <2>3. /\ \A r \in DOMAIN answer'.rows : Stands(r, answer'.rows[r])
        /\ \A k \in DOMAIN answer'.days :
             summaries[k] # NoRow /\ summaries[k].open = answer'.days[k].open
        /\ answer'.records \cup answer'.outliers \subseteq Records
        /\ answer'.errors \subseteq errors
    <3>1. answer'.rows = answer.rows /\ answer'.days = answer.days
      BY <1>9, <2>1 DEF Counted
    <3>2. /\ answer'.records \cup answer'.outliers \subseteq Records
          /\ answer'.errors \subseteq errors
      BY <1>3, <1>9, <2>1, <2>2 DEF Counted
    <3> QED
      BY <1>3, <3>1, <3>2
  <2>4. ASSUME i >= 4
        PROVE  /\ \A e \in answer'.records \cup answer'.outliers : market[e].run \in answer'.runs
               /\ \A x \in answer'.errors : x.run \in answer'.runs
    <3>1. CASE i = 4
      <4>1. answer'.runs = RunRows
        BY <1>9, <2>1, <3>1 DEF Counted
      <4> QED
        BY <2>3, <4>1 DEF TablesInv, KP!RunsAreKept, Records, RunRows
    <3>2. CASE i = 5
      <4>1. served = "metrics" /\ step >= 4
        BY <2>1, <3>2 DEF ServiceInv, ApiTypeOK
      <4>2. /\ answer'.runs = answer.runs /\ answer'.records = answer.records
            /\ answer'.outliers = answer.outliers /\ answer'.errors = answer.errors
        BY <1>9, <2>1, <3>2 DEF Counted
      <4> QED
        BY <1>3, <4>1, <4>2
    <3> QED
      BY <2>4, <3>1, <3>2
  <2>5. i = 5 => answer'.records \subseteq answer'.top
    <3>1. i = 5 => answer'.top = Records
      BY <1>9, <2>1 DEF Counted
    <3> QED
      BY <2>3, <3>1
  <2>6. Holds(served', step', answer')
    BY <1>3, <1>9, <2>1, <2>3, <2>4, <2>5
  <2> QED
    BY <1>2, <2>6
<1>11. CASE DailySummaries
  <2>1. PICK P \in Pages({k \in Keys : summaries[k] # NoRow}) :
          Begin("summaries", [Nothing EXCEPT !.days = [k \in P |-> summaries[k]]])
    BY <1>11 DEF DailySummaries
  <2>2. P \in SUBSET {k \in Keys : summaries[k] # NoRow}
    BY DEF Pages
  <2>3. /\ served' = "summaries"
        /\ answer' = [Nothing EXCEPT !.days = [k \in P |-> summaries[k]]]
    BY <2>1 DEF Begin
  <2>4. Holds(served', step', answer')
    BY <2>2, <2>3 DEF Nothing
  <2> QED
    BY <1>2, <2>4
<1>12. CASE Send \/ RequestFails
  BY <1>2, <1>5, <1>12 DEF Send, RequestFails
<1> QED
  BY <1>6, <1>7, <1>8, <1>10, <1>11, <1>12 DEF Serve

\* The second statement of a run's details fits the first, whatever has been
\* committed between them.
LEMMA ServeAddsUp ==
  ASSUME ServiceInv, TablesInv, AnswersHold, Serve
  PROVE  DetailAddsUp'
<1>1. CASE GetRunErrors
  <2>1. served = "run" /\ served' = "run" /\ UNCHANGED store
    BY <1>1 DEF GetRunErrors
  <2>2. PICK r \in DOMAIN runs : DOMAIN answer.rows = {r}
    BY <2>1 DEF AnswersHold
  <2>3. PICK P \in Pages({x \in errors : x.run \in DOMAIN answer.rows}) :
          answer' = [answer EXCEPT !.errors = P]
    BY <1>1 DEF GetRunErrors
  <2>4. answer'.errors = P /\ answer'.rows = answer.rows
    BY <2>3 DEF AnswersHold, Nothing
  <2>5. P \in Pages(RefusedOf(r))
    <3>1. {x \in errors : x.run \in DOMAIN answer.rows} = RefusedOf(r)
      BY <2>2 DEF RefusedOf
    <3> QED
      BY <2>3, <3>1
  <2>6. /\ Stands(r, answer.rows[r]) /\ r \in RunRows
        /\ answer.rows[r] \in RunRow
    BY <2>2 DEF AnswersHold, Stands, ServiceInv, ApiTypeOK
  <2>7. /\ runs[r].invalid = answer.rows[r].invalid /\ answer.rows[r].invalid \in Nat
        /\ runs[r].status = "failed" => answer.rows[r].status = "failed"
    BY <2>6 DEF Stands, RunRow
  <2>8. /\ IsFiniteSet(RefusedOf(r))
        /\ \/ Cardinality(RefusedOf(r)) = runs[r].invalid
           \/ RefusedOf(r) = {} /\ runs[r].status = "failed"
    BY <2>6 DEF TablesInv, RefusalsFit
  <2>9. \/ Cardinality(P) = IF answer.rows[r].invalid < PageSize
                              THEN answer.rows[r].invalid ELSE PageSize
        \/ Cardinality(P) = 0 /\ answer.rows[r].status = "failed"
    <3>1. CASE Cardinality(RefusedOf(r)) = runs[r].invalid
      BY <2>5, <2>7, <2>8, <3>1, PageOfRefusals
    <3>2. CASE RefusedOf(r) = {} /\ runs[r].status = "failed"
      <4>1. P = {}
        BY <2>5, <3>2 DEF Pages
      <4> QED
        BY <2>7, <3>2, <4>1, FS_EmptySet
    <3> QED
      BY <2>8, <3>1, <3>2
  <2> QED
    BY <2>2, <2>4, <2>9 DEF DetailAddsUp
<1>2. CASE GetRun
  <2>1. served' = "run" /\ step' = 1
    BY <1>2 DEF GetRun, Begin
  <2> QED
    BY <2>1 DEF DetailAddsUp, Complete, Statements
<1>3. CASE ~ (GetRunErrors \/ GetRun)
  <2>1. served' # "run"
    BY <1>3 DEF Serve, ListRuns, Metrics, MetricsContinue, DailySummaries, Send,
       RequestFails, Begin
  <2> QED
    BY <2>1 DEF DetailAddsUp
<1> QED
  BY <1>1, <1>2, <1>3

\* What a handler holds stands while the workers write.
LEMMA AnswersStay ==
  ASSUME ServiceInv, AnswersHold, NEW id, TablesStep(id), UNCHANGED apiVars
  PROVE  AnswersHold'
<1>1. StoreTypeOK /\ ApiTypeOK
  BY ServiceTables DEF ServiceInv
<1>2. served' = served /\ step' = step /\ answer' = answer
  BY DEF apiVars
<1>3. ASSUME NEW r \in DOMAIN answer.rows
      PROVE  /\ r \in DOMAIN runs' /\ runs'[r] # NoRow
             /\ \/ runs'[r] = answer.rows[r]
                \/ /\ answer.rows[r].status = "running"
                   /\ runs'[r] = [answer.rows[r] EXCEPT !.status = "completed"]
  <2>1. /\ r \in DOMAIN runs /\ runs[r] # NoRow /\ runs[r] \in RunRow
        /\ \/ runs[r] = answer.rows[r]
           \/ /\ answer.rows[r].status = "running"
              /\ runs[r] = [answer.rows[r] EXCEPT !.status = "completed"]
    <3>1. Stands(r, answer.rows[r])
      BY <1>3 DEF AnswersHold
    <3>2. r \in DOMAIN runs /\ runs[r] # NoRow
      BY <3>1 DEF Stands, RunRows
    <3>3. runs[r] \in RunRow
      BY <1>1, <3>2 DEF StoreTypeOK
    <3> QED
      BY <3>1, <3>2, <3>3 DEF Stands
  <2>2. \/ runs'[r] = runs[r]
        \/ /\ runs[r].status = "running"
           /\ runs'[r] = [runs[r] EXCEPT !.status = "completed"]
    BY <1>1, <2>1, RowsStay
  <2>3. runs'[r] # NoRow
    <3>1. [runs[r] EXCEPT !.status = "completed"] \in RunRow
      BY <2>1 DEF RunRow, Status
    <3> QED
      BY <2>1, <2>2, <3>1, NoRowAssumption
  <2>4. answer.rows[r] \in RunRow
    BY <1>1, <1>3 DEF ApiTypeOK
  <2>5. \/ runs'[r] = answer.rows[r]
        \/ /\ answer.rows[r].status = "running"
           /\ runs'[r] = [answer.rows[r] EXCEPT !.status = "completed"]
    <3>1. CASE runs[r] = answer.rows[r]
      BY <2>2, <3>1
    <3>2. CASE /\ answer.rows[r].status = "running"
               /\ runs[r] = [answer.rows[r] EXCEPT !.status = "completed"]
      <4>1. runs[r].status = "completed"
        BY <2>4, <3>2 DEF RunRow
      <4> QED
        BY <2>2, <3>2, <4>1
    <3> QED
      BY <2>1, <3>1, <3>2
  <2>6. r \in DOMAIN runs'
    BY <1>1, <2>1, RowsStay
  <2> QED
    BY <2>3, <2>5, <2>6
<1>4. \A r \in DOMAIN answer.rows : Stands(r, answer.rows[r])'
  BY <1>2, <1>3 DEF Stands, RunRows
<1>5. \A k \in DOMAIN answer.days :
        summaries'[k] # NoRow /\ summaries'[k].open = answer.days[k].open
  BY <1>1, RowsStay DEF AnswersHold, ApiTypeOK
<1>6. \A e \in answer.records \cup answer.outliers :
        e \in EventIds /\ market[e] # NoRow /\ market'[e] = market[e]
  BY <1>1, RowsStay DEF AnswersHold, Records
<1>7. answer.errors \subseteq errors' /\ DOMAIN runs \subseteq DOMAIN runs'
  BY <1>1, RowsStay DEF AnswersHold
<1>8. answer.records \cup answer.outliers \subseteq Records'
  BY <1>6 DEF Records
<1>9. served = "metrics" /\ step >= 4 =>
        /\ \A e \in answer.records \cup answer.outliers : market'[e].run \in answer.runs
        /\ \A x \in answer.errors : x.run \in answer.runs
  BY <1>6 DEF AnswersHold
<1> QED
  BY <1>2, <1>4, <1>5, <1>7, <1>8, <1>9 DEF AnswersHold

-----------------------------------------------------------------------------
(* The invariant of the rows.                                              *)

RowInv ==
  /\ LockInv
  /\ HandsInv
  /\ TablesInv
  /\ AnswersHold
  /\ DetailAddsUp

\* Initially there are no rows, and nobody has read any.
LEMMA RowInit == Init => RowInv
<1> SUFFICES ASSUME Init PROVE RowInv
  OBVIOUS
<1>1. LockInv
  BY LockInit
<1>2. KP!InHand /\ KP!RunsAreKept
  <2> USE ConsumerAssumptions DEF KP!EventIdsAssumption, KP!NoRowAssumption,
          KP!BatchAssumption, KP!KafkaAssumption
  <2>1. KP!TInv
    BY SameConsumer, KP!InitRows DEF Init
  <2> QED
    BY <2>1 DEF KP!TInv
<1>3. FP!RunInHand
  <2> USE JobAssumptions DEF FP!EventIdsAssumption, FP!NoRowAssumption,
          FP!BatchAssumption, FP!FileAssumption, FP!OriginAssumption
  <2>1. FP!FInv
    BY SameJob, FP!InitRows DEF Init
  <2> QED
    BY <2>1 DEF FP!FInv
<1>4. /\ krunId = 0 /\ DOMAIN runs = {}
      /\ \A e \in EventIds : market[e] = NoRow
      /\ \A k \in Keys : summaries[k] = NoRow
  BY DEF Init, K!Init, K!BatchInit, K!StoreInit
<1>5. HandsInv
  BY <1>2, <1>3, <1>4 DEF HandsInv, OwnRuns
<1>6. TablesInv
  BY <1>2, <1>4 DEF TablesInv, RefusalsFit, RunRows, SummariesAreBacked
<1>7. AnswersHold /\ DetailAddsUp
  BY DEF Init, ApiInit, AnswersHold, DetailAddsUp, Nothing
<1> QED
  BY <1>1, <1>5, <1>6, <1>7 DEF RowInv

\* Every step keeps it, given the types.
LEMMA RowNext == ServiceInv /\ RowInv /\ [Next]_vars => RowInv'
<1> SUFFICES ASSUME ServiceInv, RowInv, [Next]_vars PROVE RowInv'
  OBVIOUS
<1>1. ServiceInv' /\ LockInv'
  BY ServiceNext, LockNext DEF RowInv
<1>2. HandsInv' /\ log' = log /\ \E id : TablesStep(id)
  BY <1>1, HandsStand DEF RowInv, TablesInv
<1>3. PICK id : TablesStep(id)
  BY <1>2
<1>4. /\ StoreTypeOK /\ log \in Logs
      /\ KP!RunsAreKept /\ RefusalsFit /\ SummariesAreBacked
  BY ServiceTables DEF RowInv, TablesInv
<1>5. StoreTypeOK'
  BY <1>1, SameTables DEF ServiceInv, KP!ConsumerInv, KP!TypeOK, KP!StoreTypeOK, StoreTypeOK,
     KP!MarketRow, MarketRow
<1>6. TablesInv'
  BY <1>2, <1>3, <1>4, <1>5, RunsStayKept, RefusalsStayFit, SummariesStayBacked DEF TablesInv
<1>7. AnswersHold' /\ DetailAddsUp'
  <2>1. CASE Request
    BY <2>1, ServeHolds, ServeAddsUp DEF Request, RowInv
  <2>2. CASE UNCHANGED apiVars
    <3>1. DetailAddsUp'
      BY <2>2 DEF RowInv, DetailAddsUp, Complete, apiVars
    <3> QED
      BY <1>3, <2>2, <3>1, AnswersStay DEF RowInv
  <2>3. CASE Kill
    BY <2>3 DEF Kill, AnswersHold, DetailAddsUp, Nothing
  <2> QED
    BY <2>1, <2>2, <2>3 DEF Next, Lifespan, vars, KafkaWork, KafkaLock, Rebalance, FileWork,
       FileLock, TakeLock, Arrive, Boot, TaskCancelled, StopScheduler, AwaitRaises,
       ClientsStop, ClientsRaise, ClientsHang, Exit, Shutdown
<1> QED
  BY <1>1, <1>2, <1>6, <1>7 DEF RowInv

\* ServiceInv and RowInv are invariants: beside the state each worker keeps,
\* what it has in hand, the tables both write and what their readers hold.
THEOREM ServiceRows == Spec => [](ServiceInv /\ RowInv)
<1>1. Init => ServiceInv /\ RowInv
  BY ServiceInit, RowInit
<1>2. ServiceInv /\ RowInv /\ [Next]_vars => ServiceInv' /\ RowInv'
  BY ServiceNext, RowNext
<1> QED
  BY <1>1, <1>2, PTL DEF Spec

\* No summary has a trade, or an open, that is not stored, whichever mode wrote
\* the day, and the day of a stored record has a summary unless its run failed
\* (orchestrator.py:96-105, 187-194).
THEOREM SummariesAreBackedBesideOthers == Spec => []SummariesAreBacked
<1>1. ServiceInv /\ RowInv => SummariesAreBacked
  BY DEF RowInv, TablesInv
<1> QED
  BY ServiceRows, <1>1, PTL

\* A record, outlier or error the metrics count is of a run they count, and of
\* a symbol they count, whatever is committed between their five statements
\* (routers/pipeline.py).
THEOREM MetricsAreOfOnePiece == Spec => []MetricsAgree
<1>1. ServiceInv /\ RowInv => MetricsAgree
  BY DEF RowInv, AnswersHold, MetricsAgree, Complete, Statements
<1> QED
  BY ServiceRows, <1>1, PTL

\* The errors listed of a run are as many as its row says, up to a page, or
\* none of a failed run (routers/pipeline.py).
THEOREM DetailsAddUp == Spec => []DetailAddsUp
<1>1. ServiceInv /\ RowInv => DetailAddsUp
  BY DEF RowInv
<1> QED
  BY ServiceRows, <1>1, PTL

\* No answer is taken back while it is made up: a run read with an outcome
\* keeps its row, a day its open, a record its place (routers/pipeline.py).
THEOREM AnswersAreNotTakenBack == Spec => []AnswersStand
<1>1. ServiceInv /\ RowInv => AnswersStand
  BY DEF RowInv, AnswersHold, AnswersStand, Stands
<1> QED
  BY ServiceRows, <1>1, PTL

=============================================================================
