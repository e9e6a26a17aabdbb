------------------------------- MODULE Store -------------------------------
(***************************************************************************)
(* The PostgreSQL database of the pipeline, and what the DatabaseWriter    *)
(* (src/app/pipeline/load/db_writer.py) does to it.                        *)
(*                                                                         *)
(* The four tables are state.  A session's open transaction is a value,    *)
(* the "write set" of the rows it has written and not committed: a worker  *)
(* keeps one, the operators below extend it, and CommitTx copies it into   *)
(* the tables.  Dropping the write set is a rollback.                      *)
(*                                                                         *)
(* An event, a payload or a file row is known by its origin, a natural     *)
(* number (in Kafka mode the offset of the message).  A column the         *)
(* properties do not look at is left out; `run' and `pos' in a row, which  *)
(* market_records does not have, record where a row came from.             *)
(***************************************************************************)
EXTENDS Naturals, Sequences, FiniteSets

CONSTANTS
  EventIds,   \* values of market_records.event_id (String(100), primary key)
  Keys,       \* (symbol, market, date) triples: uq_daily_summary_symbol_market_date
  NoRow       \* no row with this key

(***************************************************************************)
(* A row of market_records, of daily_summaries, of pipeline_runs and of    *)
(* validation_errors.                                                      *)
(*   SummaryRow: `open' is the origin of the trade whose price is the      *)
(* open; `trades' is the set of (batch position, origin) the other columns *)
(* (high, low, close, volume, value, VWAP, counts) are computed from.      *)
(*   ErrorRow: `origin' is the record that was refused, `payload' the      *)
(* origin of the payload that was stored as its raw_payload.               *)
(***************************************************************************)
MarketRow  == [origin : Nat, key : Keys, run : Nat]
SummaryRow == [open : Nat, trades : SUBSET (Nat \X Nat)]
Status     == {"running", "completed", "failed"}
RunRow     == [status : Status, extracted : Nat, valid : Nat,
               invalid : Nat, loaded : Nat]
ErrorRow   == [run : Nat, pos : Nat, origin : Nat, payload : Nat]

\* A String(100) column has finitely many values.
ASSUME EventIdsAssumption == IsFiniteSet(EventIds)

ASSUME NoRowAssumption == NoRow \notin MarketRow \cup SummaryRow \cup RunRow

VARIABLES
  market,      \* market_records by event_id
  summaries,   \* daily_summaries by (symbol, market, date)
  runs,        \* pipeline_runs of the r-th PipelineRun object ever created
  errors       \* validation_errors

store == <<market, summaries, runs, errors>>

StoreTypeOK ==
  /\ market \in [EventIds -> MarketRow \cup {NoRow}]
  /\ summaries \in [Keys -> SummaryRow \cup {NoRow}]
  /\ runs \in Seq(RunRow \cup {NoRow})
  /\ errors \in SUBSET ErrorRow

StoreInit ==
  /\ market = [e \in EventIds |-> NoRow]
  /\ summaries = [k \in Keys |-> NoRow]
  /\ runs = <<>>
  /\ errors = {}

-----------------------------------------------------------------------------
(* Transactions.                                                           *)

EmptyTx == [market    |-> [e \in EventIds |-> NoRow],
            summaries |-> [k \in Keys |-> NoRow],
            run       |-> NoRow,
            errors    |-> {}]

TxType == [market    : [EventIds -> MarketRow \cup {NoRow}],
           summaries : [Keys -> SummaryRow \cup {NoRow}],
           run       : RunRow \cup {NoRow},
           errors    : SUBSET ErrorRow]

\* The rows a transaction sees: its own writes over the committed table.
Overlay(own, table) ==
  [x \in DOMAIN table |-> IF own[x] # NoRow THEN own[x] ELSE table[x]]

(***************************************************************************)
(* One INSERT ... ON CONFLICT (event_id) DO NOTHING statement, where       *)
(* values[i] is the id and the row at the i-th place of its VALUES list.   *)
(* Within a statement as across statements the first row with an event_id  *)
(* wins and the later ones are skipped.                                    *)
(***************************************************************************)
Inserted(t, values) ==
  {i \in DOMAIN values :
     /\ Overlay(t.market, market)[values[i].event_id] = NoRow
     /\ \A j \in DOMAIN values : j < i => values[j].event_id # values[i].event_id}

InsertRecords(t, values) ==
  [t EXCEPT !.market = [e \in EventIds |->
     IF \E i \in Inserted(t, values) : values[i].event_id = e
       THEN values[CHOOSE i \in Inserted(t, values) : values[i].event_id = e].row
       ELSE @[e]]]

\* Mutant: open_price_eur is among the updated columns.
UpsertSummariesMutant(t, new) ==
  [t EXCEPT !.summaries = [k \in Keys |-> IF k \in DOMAIN new THEN new[k] ELSE @[k]]]

(***************************************************************************)
(* INSERT ... ON CONFLICT (symbol, market, date) DO UPDATE of every column *)
(* but open_price_eur.                                                     *)
(***************************************************************************)
UpsertSummaries(t, new) ==
  [t EXCEPT !.summaries = [k \in Keys |->
     IF k \notin DOMAIN new THEN @[k]
     ELSE LET old == Overlay(t.summaries, summaries)[k]
          IN  IF old = NoRow THEN new[k] ELSE [new[k] EXCEPT !.open = old.open]]]

\* INSERT ... ON CONFLICT (run_id) DO UPDATE of every counter and the status.
SaveRun(t, row) == [t EXCEPT !.run = row]

\* A plain INSERT: the key is a fresh uuid4, so nothing ever conflicts.
SaveErrors(t, rows) == [t EXCEPT !.errors = @ \cup rows]

\* Mutant: the run started last is updated, whoever's it is.
CommitTxMutant(t, id) ==
  /\ market' = Overlay(t.market, market)
  /\ summaries' = Overlay(t.summaries, summaries)
  /\ runs' = IF t.run = NoRow THEN runs ELSE [runs EXCEPT ![Len(runs)] = t.run]
  /\ errors' = errors \cup t.errors

\* COMMIT of a transaction that wrote, at most, the run row number id.
CommitTx(t, id) ==
  /\ market' = Overlay(t.market, market)
  /\ summaries' = Overlay(t.summaries, summaries)
  /\ runs' = IF t.run = NoRow THEN runs ELSE [runs EXCEPT ![id] = t.run]
  /\ errors' = errors \cup t.errors

=============================================================================
