--------------------------- MODULE MonitoringApi ---------------------------
(***************************************************************************)
(* The monitoring endpoints of src/app/api/routers/pipeline.py: readers of *)
(* the tables the two modes write.  A request has a session of its own at  *)
(* READ COMMITTED, so each statement sees what is committed when it runs,  *)
(* and between two statements of a handler anything may be committed.      *)
(*                                                                         *)
(* Handlers change nothing: one request at a time stands for all of them.  *)
(* An answer is kept as the rows it is computed from; the counts and rates *)
(* the code sends are the cardinalities of these sets.                     *)
(***************************************************************************)
EXTENDS Store

CONSTANTS
  PageSize,    \* rows of a list (20 runs, 50 errors, 50 summaries by default)
  Flagged,     \* origins of the records with is_outlier
  Endpoints,   \* the endpoints that are called
  ApiFaults    \* may a statement of a handler fail?

ASSUME ApiAssumption ==
  /\ PageSize \in Nat \ {0}
  /\ Flagged \in SUBSET Nat
  /\ Endpoints \in SUBSET {"runs", "run", "metrics", "summaries"}
  /\ ApiFaults \in BOOLEAN

VARIABLES
  served,   \* the endpoint being served, or "none"
  step,     \* statements its handler has executed
  answer    \* the rows they have returned

apiVars == <<served, step, answer>>

Nothing == [rows |-> <<>>, errors |-> {}, records |-> {}, outliers |-> {},
            runs |-> {}, top |-> {}, days |-> <<>>]

ApiTypeOK ==
  /\ served \in Endpoints \cup {"none"}
  /\ step \in 0 .. 5
  /\ DOMAIN answer.rows \in SUBSET DOMAIN runs
  /\ \A r \in DOMAIN answer.rows : answer.rows[r] \in RunRow
  /\ answer.errors \in SUBSET ErrorRow
  /\ answer.records \in SUBSET EventIds
  /\ answer.outliers \in SUBSET EventIds
  /\ answer.runs \in SUBSET DOMAIN runs
  /\ answer.top \in SUBSET EventIds
  /\ DOMAIN answer.days \in SUBSET Keys
  /\ \A k \in DOMAIN answer.days : answer.days[k] \in SummaryRow

ApiInit ==
  /\ served = "none"
  /\ step = 0
  /\ answer = Nothing

-----------------------------------------------------------------------------
(* What the statements select.                                             *)

Records == {e \in EventIds : market[e] # NoRow}
RunRows == {r \in DOMAIN runs : runs[r] # NoRow}

\* ORDER BY started_at DESC LIMIT: runs are numbered as they are started.
Newest(R) == {r \in R : Cardinality({q \in R : q > r}) < PageSize}

\* LIMIT without a telling order: as many as there are, up to the page size.
Pages(S) == {P \in SUBSET S : \/ P = S /\ Cardinality(S) <= PageSize
                              \/ Cardinality(P) = PageSize}

\* The first statement of the handler of an endpoint.
Begin(endpoint, read) ==
  /\ served = "none"
  /\ endpoint \in Endpoints
  /\ served' = endpoint
  /\ step' = 1
  /\ answer' = read
  /\ UNCHANGED store

-----------------------------------------------------------------------------
(* The handlers.                                                           *)

\* list_pipeline_runs, of one status or of any.
ListRuns ==
  \E statuses \in {{s} : s \in Status} \cup {Status} :
    LET R == Newest({r \in RunRows : runs[r].status \in statuses})
    IN  Begin("runs", [Nothing EXCEPT !.rows = [r \in R |-> runs[r]]])

\* get_pipeline_run: the run's row (or a 404, which reads nothing else) ...
GetRun ==
  \E r \in RunRows : Begin("run", [Nothing EXCEPT !.rows = [q \in {r} |-> runs[q]]])

\* Mutant: the errors are not those of the run.
GetRunErrorsMutant ==
  /\ served = "run"
  /\ step = 1
  /\ \E P \in Pages(errors) : answer' = [answer EXCEPT !.errors = P]
  /\ step' = 2
  /\ UNCHANGED <<store, served>>

\* ... and its validation errors.
GetRunErrors ==
  /\ served = "run"
  /\ step = 1
  /\ \E P \in Pages({x \in errors : x.run \in DOMAIN answer.rows}) :
       answer' = [answer EXCEPT !.errors = P]
  /\ step' = 2
  /\ UNCHANGED <<store, served>>

\* Mutant: the runs are counted first.
CountedMutant(i) ==
  CASE i = 1 -> [answer EXCEPT !.runs = RunRows]
    [] i = 2 -> [answer EXCEPT !.outliers = {e \in Records : market[e].origin \in Flagged}]
    [] i = 3 -> [answer EXCEPT !.errors = errors]
    [] i = 4 -> [answer EXCEPT !.records = Records]
    [] i = 5 -> [answer EXCEPT !.top = Records]

\* The i-th statement of pipeline_metrics: records, outliers, errors, runs,
\* and the records once more, by symbol.
Counted(i) ==
  CASE i = 1 -> [answer EXCEPT !.records = Records]
    [] i = 2 -> [answer EXCEPT !.outliers = {e \in Records : market[e].origin \in Flagged}]
    [] i = 3 -> [answer EXCEPT !.errors = errors]
    [] i = 4 -> [answer EXCEPT !.runs = RunRows]
    [] i = 5 -> [answer EXCEPT !.top = Records]

Metrics == Begin("metrics", Counted(1))

MetricsContinue ==
  /\ served = "metrics"
  /\ step < 5
  /\ answer' = Counted(step + 1)
  /\ step' = step + 1
  /\ UNCHANGED <<store, served>>

\* get_daily_summaries.
DailySummaries ==
  \E P \in Pages({k \in Keys : summaries[k] # NoRow}) :
    Begin("summaries", [Nothing EXCEPT !.days = [k \in P |-> summaries[k]]])

Statements == [e \in {"runs", "run", "metrics", "summaries"} |->
                 CASE e = "run" -> 2 [] e = "metrics" -> 5 [] OTHER -> 1]

\* The answer is complete, and stands until it is sent.
Complete == served # "none" /\ step = Statements[served]

Send ==
  /\ Complete
  /\ served' = "none"
  /\ step' = 0
  /\ answer' = Nothing
  /\ UNCHANGED store

\* A statement raises: the answer is a 500.
RequestFails ==
  /\ served # "none"
  /\ ~ Complete
  /\ ApiFaults
  /\ served' = "none"
  /\ step' = 0
  /\ answer' = Nothing
  /\ UNCHANGED store

Serve ==
  \/ ListRuns \/ GetRun \/ GetRunErrors
  \/ Metrics \/ MetricsContinue
  \/ DailySummaries
  \/ Send \/ RequestFails

-----------------------------------------------------------------------------
(* Safety.  Nothing here holds of arbitrary tables: these are properties   *)
(* of the readers beside the writers, checked in EtlSystem.                *)

(***************************************************************************)
(* The metrics are of one piece where it matters: whatever is committed    *)
(* between the statements, a record or an error that is counted belongs to *)
(* a run that is counted, and the counts by symbol cover the total.        *)
(***************************************************************************)
MetricsAgree ==
  served = "metrics" /\ Complete =>
    /\ \A e \in answer.records \cup answer.outliers : market[e].run \in answer.runs
    /\ \A x \in answer.errors : x.run \in answer.runs
    /\ answer.records \subseteq answer.top

(***************************************************************************)
(* The two statements behind a run's details fit each other: the errors    *)
(* listed are as many as the row says are invalid, up to a page, or none   *)
(* when the run failed.                                                    *)
(***************************************************************************)
DetailAddsUp ==
  served = "run" /\ Complete =>
    \A r \in DOMAIN answer.rows :
      LET listed == Cardinality(answer.errors)
          row    == answer.rows[r]
      IN  \/ listed = IF row.invalid < PageSize THEN row.invalid ELSE PageSize
          \/ listed = 0 /\ row.status = "failed"

(***************************************************************************)
(* What was answered is not taken back: a run listed with an outcome keeps *)
(* its row, a day listed keeps its open price, a record counted is there.  *)
(***************************************************************************)
AnswersStand ==
  /\ \A r \in DOMAIN answer.rows :
       answer.rows[r].status # "running" => runs[r] = answer.rows[r]
  /\ \A k \in DOMAIN answer.days :
       summaries[k] # NoRow /\ summaries[k].open = answer.days[k].open
  /\ answer.records \subseteq Records

=============================================================================
