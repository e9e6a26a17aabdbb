----------------------------- MODULE KafkaMode -----------------------------
(***************************************************************************)
(* ETLPipeline.run_kafka_mode with the KafkaConsumerClient it drives: one  *)
(* task that polls one partition of market-data-events, processes each     *)
(* batch in a session of its own and acknowledges the batch's offsets when *)
(* the loop body is done with it.                                          *)
(*                                                                         *)
(* The topic is a fixed log: as a poll may return any number of the        *)
(* messages that are there, a message that has not been returned yet may   *)
(* as well not have been produced yet.  A crash (of the process, or its    *)
(* shutdown, which cancels the task) loses everything but the broker's and *)
(* the database's state.                                                   *)
(***************************************************************************)
EXTENDS ProcessBatch

CONSTANTS
  Logs,            \* the contents of the topic to consider
  MaxPollRecords,  \* KAFKA_MAX_POLL_RECORDS
  ProducerStarts,  \* does AIOKafkaProducer take the argument retries=3?
  MaxRestarts,     \* bound: times the process is restarted
  MaxRebalances    \* bound: times the consumer group is rebalanced

\* A message of the topic; only a "undecodable" one is not JSON in UTF-8.
LogEntry == {m \in [event_id : EventIds, key : Keys, time : Nat,
                    fate : Fates \cup {"undecodable"}, volume : Volumes,
                    barred : SUBSET Savers] : Coherent(m)}

ASSUME KafkaAssumption ==
  /\ Logs \in SUBSET Seq(LogEntry)
  /\ MaxPollRecords \in Nat \ {0}
  /\ ProducerStarts \in BOOLEAN
  /\ MaxRestarts \in Nat
  /\ MaxRebalances \in Nat

VARIABLES
  log,         \* the topic: log[o] is the message at offset o, from 1
  committed,   \* the group's committed offset: restarts resume after it
  position,    \* the consumer's position: the last offset it has fetched
  failed,      \* offsets of the batches "Batch failed" was logged for
  restarts,    \* restarts so far
  rebalances   \* rebalances so far

kafkaVars == <<log, committed, position, failed, restarts, rebalances>>
vars == <<store, batchVars, kafkaVars>>

Offsets == 1 .. Len(log)

PCs == Stages \cup {"stopped", "poll", "drain", "processed", "saveagain",
                    "commitagain", "except", "ack", "dead"}

TypeOK ==
  /\ StoreTypeOK
  /\ BatchTypeOK
  /\ pc \in PCs
  /\ log \in Logs
  /\ committed \in 0 .. Len(log)
  /\ position \in 0 .. Len(log)
  /\ failed \in SUBSET Offsets
  /\ restarts \in 0 .. MaxRestarts
  /\ rebalances \in 0 .. MaxRebalances

Init ==
  /\ StoreInit
  /\ BatchInit
  /\ pc = "stopped"
  /\ log \in Logs
  /\ committed = 0
  /\ position = 0
  /\ failed = {}
  /\ restarts = 0
  /\ rebalances = 0

-----------------------------------------------------------------------------
(* The consumer: KafkaConsumerClient.                                      *)

\* Mutant: auto_offset_reset skips to the end of the topic on every start.
StartMutant ==
  /\ pc = "stopped"
  /\ ProducerStarts
  /\ pc' = "poll"
  /\ position' = Len(log)
  /\ UNCHANGED <<store, batch, run, runId, todo, tx, aborted, dlt>>
  /\ UNCHANGED <<log, committed, failed, restarts, rebalances>>

\* consumer_client.start() and dlt_producer.start(): resume after the commit.
Start ==
  /\ pc = "stopped"
  /\ ProducerStarts
  /\ pc' = "poll"
  /\ position' = committed
  /\ UNCHANGED <<store, batch, run, runId, todo, tx, aborted, dlt>>
  /\ UNCHANGED <<log, committed, failed, restarts, rebalances>>

\* Either start() raises, outside the try: the task ends and stays ended.  If
\* the producer's class does not know its argument, it always does.
StartFails ==
  /\ pc = "stopped"
  /\ InfraFaults \/ ~ ProducerStarts
  /\ pc' = "dead"
  /\ UNCHANGED <<store, batch, run, runId, todo, tx, aborted, dlt, kafkaVars>>

MessageAt(o) == [origin |-> o, event_id |-> log[o].event_id,
                 key |-> log[o].key, time |-> log[o].time, fate |-> log[o].fate,
                 volume |-> log[o].volume, barred |-> log[o].barred]

Decodable(S) == \A o \in S : log[o].fate # "undecodable"

\* async for msg_batch in self._consumer: wait for one message.
GetOne ==
  /\ pc = "poll"
  /\ position < Len(log)
  /\ Decodable({position + 1})
  /\ batch' = <<MessageAt(position + 1)>>
  /\ position' = position + 1
  /\ pc' = "drain"
  /\ UNCHANGED <<store, run, runId, todo, tx, aborted, dlt>>
  /\ UNCHANGED <<log, committed, failed, restarts, rebalances>>

\* The iterator raises (authorization withdrawn, no such offset any more).
GetOneFails ==
  /\ pc = "poll"
  /\ InfraFaults
  /\ pc' = "dead"
  /\ UNCHANGED <<store, batch, run, runId, todo, tx, aborted, dlt, kafkaVars>>

\* Mutant: max_records is not reduced by the one already in the batch.
DrainableMutant == {n \in 0 .. MaxPollRecords : position + n <= Len(log)}

\* How many messages getmany may return: any number of what is there (none
\* after a KafkaError), as one of max_records is in the batch already.
Drainable == {n \in 0 .. MaxPollRecords - 1 : position + n <= Len(log)}

\* getmany, after which the PipelineRun and the session are created.
GetMany ==
  /\ pc = "drain"
  /\ \E n \in Drainable :
       /\ Decodable(position + 1 .. position + n)
       /\ batch' = batch \o [i \in 1 .. n |-> MessageAt(position + i)]
       /\ position' = position + n
  /\ runs' = Append(runs, NoRow)
  /\ run' = NewRun
  /\ runId' = Len(runs) + 1
  /\ pc' = "clean"
  /\ UNCHANGED <<market, summaries, errors, todo, tx, aborted, dlt>>
  /\ UNCHANGED <<log, committed, failed, restarts, rebalances>>

\* value_deserializer raises, in the iterator or in getmany: not a KafkaError,
\* so it ends consume_batch and with it the task.
DecodeRaises ==
  /\ \/ /\ pc = "poll"
        /\ position < Len(log)
        /\ ~ Decodable({position + 1})
     \/ /\ pc = "drain"
        /\ \E n \in Drainable : ~ Decodable(position + 1 .. position + n)
  /\ pc' = "dead"
  /\ UNCHANGED <<store, batch, run, runId, todo, tx, aborted, dlt, kafkaVars>>

\* await self._consumer.commit(), on resuming the generator for the next batch.
Ack ==
  /\ pc = "ack"
  /\ committed' = position
  /\ batch' = <<>>
  /\ todo' = {}
  /\ pc' = "poll"
  /\ UNCHANGED <<store, run, runId, tx, aborted, dlt>>
  /\ UNCHANGED <<log, position, failed, restarts, rebalances>>

\* The commit raises, and the generator ends, the task with it: the group is
\* rebalancing and refuses it, or the call fails, applied or not.
AckFails ==
  /\ pc = "ack"
  /\ \/ /\ rebalances < MaxRebalances
        /\ rebalances' = rebalances + 1
        /\ UNCHANGED committed
     \/ /\ InfraFaults
        /\ committed' \in {committed, position}
        /\ UNCHANGED rebalances
  /\ pc' = "dead"
  /\ UNCHANGED <<store, batch, run, runId, todo, tx, aborted, dlt>>
  /\ UNCHANGED <<log, position, failed, restarts>>

-----------------------------------------------------------------------------
(* The loop body: run_kafka_mode.                                          *)

\* One step of _process_batch, with the dead letter producer.
Process ==
  /\ pc \in Stages
  /\ ProcessStep(TRUE)
  /\ UNCHANGED kafkaVars

\* Mutant: the run is not marked.
CompleteMutant ==
  /\ pc = "processed"
  /\ pc' = "saveagain"
  /\ UNCHANGED <<store, batch, run, runId, todo, tx, aborted, dlt, kafkaVars>>

\* The batch is through: the run is completed, in memory.
Complete ==
  /\ pc = "processed"
  /\ run' = [run EXCEPT !.status = "completed"]
  /\ pc' = "saveagain"
  /\ UNCHANGED <<store, batch, runId, todo, tx, aborted, dlt, kafkaVars>>

\* Mutant: a fresh PipelineRun is completed, not the one that was processed.
SaveCompletedMutant ==
  /\ pc = "saveagain"
  /\ tx' = SaveRun(tx, [NewRun EXCEPT !.status = "completed"])
  /\ pc' = "commitagain"
  /\ UNCHANGED <<store, batch, run, runId, todo, aborted, dlt, kafkaVars>>

\* The second save_pipeline_run, in a second transaction.
SaveCompleted ==
  /\ pc = "saveagain"
  /\ tx' = SaveRun(tx, run)
  /\ pc' = "commitagain"
  /\ UNCHANGED <<store, batch, run, runId, todo, aborted, dlt, kafkaVars>>

CommitCompleted ==
  /\ pc = "commitagain"
  /\ CommitTx(tx, runId)
  /\ tx' = EmptyTx
  /\ pc' = "ack"
  /\ UNCHANGED <<batch, run, runId, todo, aborted, dlt, kafkaVars>>

\* The second save or the second commit raises.
CompletionFails ==
  /\ pc \in {"saveagain", "commitagain"}
  /\ InfraFaults
  /\ \/ pc = "commitagain" /\ CommitTx(tx, runId)
     \/ UNCHANGED store
  /\ tx' = EmptyTx
  /\ aborted' = TRUE
  /\ pc' = "except"
  /\ UNCHANGED <<batch, run, runId, todo, dlt, kafkaVars>>

\* Mutant: the exception leaves the generator where it is, and the loop polls
\* on without acknowledging the failed batch.
HandleFailureMutant ==
  /\ pc = "except"
  /\ run' = [run EXCEPT !.status = "failed"]
  /\ failed' = failed \cup {batch[i].origin : i \in DOMAIN batch}
  /\ tx' = EmptyTx
  /\ aborted' = FALSE
  /\ pc' = "poll"
  /\ UNCHANGED <<store, batch, runId, todo, dlt>>
  /\ UNCHANGED <<log, committed, position, restarts, rebalances>>

\* Mutant: what the batch has written is committed before the session closes.
HandleFailureCommits ==
  /\ pc = "except"
  /\ run' = [run EXCEPT !.status = "failed"]
  /\ failed' = failed \cup {batch[i].origin : i \in DOMAIN batch}
  /\ CommitTx(tx, runId)
  /\ tx' = EmptyTx
  /\ aborted' = FALSE
  /\ pc' = "ack"
  /\ UNCHANGED <<batch, runId, todo, dlt>>
  /\ UNCHANGED <<log, committed, position, restarts, rebalances>>

\* except Exception: mark the run in memory, log, close the session (which
\* rolls back); the loop goes on to the next batch, acknowledging this one.
HandleFailure ==
  /\ pc = "except"
  /\ run' = [run EXCEPT !.status = "failed"]
  /\ failed' = failed \cup {batch[i].origin : i \in DOMAIN batch}
  /\ tx' = EmptyTx
  /\ aborted' = FALSE
  /\ pc' = "ack"
  /\ UNCHANGED <<store, batch, runId, todo, dlt>>
  /\ UNCHANGED <<log, committed, position, restarts, rebalances>>

-----------------------------------------------------------------------------
(* The environment.                                                        *)

\* Mutants: the position is off by one; a listener commits the position first.
RebalanceMutant ==
  /\ pc \notin {"stopped", "dead"}
  /\ rebalances < MaxRebalances
  /\ position # committed
  /\ position' = committed - 1
  /\ rebalances' = rebalances + 1
  /\ UNCHANGED <<store, batchVars, log, committed, failed, restarts>>

RebalanceCommits ==
  /\ pc \notin {"stopped", "dead"}
  /\ rebalances < MaxRebalances
  /\ position # committed
  /\ committed' = position
  /\ rebalances' = rebalances + 1
  /\ UNCHANGED <<store, batchVars, log, position, failed, restarts>>

\* The partition is taken away and given back: fetching restarts after the
\* committed offset, whatever the task holds in its hands.
Rebalance ==
  /\ pc \notin {"stopped", "dead"}
  /\ rebalances < MaxRebalances
  /\ position # committed
  /\ position' = committed
  /\ rebalances' = rebalances + 1
  /\ UNCHANGED <<store, batchVars, log, committed, failed, restarts>>

\* The process dies, or is shut down, and is started again.
Crash ==
  /\ restarts < MaxRestarts
  /\ restarts' = restarts + 1
  /\ batch' = <<>>
  /\ run' = NewRun
  /\ runId' = 0
  /\ todo' = {}
  /\ tx' = EmptyTx
  /\ aborted' = FALSE
  /\ pc' = "stopped"
  /\ position' = 0
  /\ UNCHANGED <<store, dlt, log, committed, failed, rebalances>>

-----------------------------------------------------------------------------
Consume ==
  \/ Start \/ StartFails
  \/ GetOne \/ GetOneFails \/ GetMany \/ DecodeRaises
  \/ Process
  \/ Complete \/ SaveCompleted \/ CommitCompleted \/ CompletionFails
  \/ HandleFailure
  \/ Ack \/ AckFails

Next == Consume \/ Rebalance \/ Crash

\* What the task awaits is there; an idle iterator may raise, but need not.
Resumable == pc = "poll" => position < Len(log)

(***************************************************************************)
(* The task is a coroutine of a running event loop: it is resumed whenever *)
(* what it awaits is there.  Rebalances and crashes need not happen.       *)
(***************************************************************************)
Spec == Init /\ [][Next]_vars /\ WF_vars(Resumable /\ Consume)

-----------------------------------------------------------------------------
(* Safety.                                                                 *)

\* The message at o has had its effect on the database: its event id is
\* stored, or its refusal is; one that does not parse has none.
Settled(o) ==
  CASE log[o].fate = "ok"         -> market[log[o].event_id] # NoRow
    [] log[o].fate = "unparsable" -> TRUE
    [] OTHER                      -> \E x \in errors : x.origin = o

(***************************************************************************)
(* An acknowledged offset was settled, or "Batch failed" was logged for a  *)
(* batch that held it: whatever the crashes, rebalances and lost calls,    *)
(* an event cannot be skipped without that trace.                          *)
(***************************************************************************)
NoSilentLoss == \A o \in 1 .. committed : Settled(o) \/ o \in failed

(***************************************************************************)
(* Counters of pipeline_runs and contents of the tables say the same: a    *)
(* run's row counts exactly the market_records it inserted and the         *)
(* validation_errors it saved, and a run without a row left nothing.       *)
(***************************************************************************)
RunRowsMatchTables ==
  \A r \in DOMAIN runs :
    LET stored  == Cardinality({e \in EventIds : market[e] # NoRow /\ market[e].run = r})
        refused == Cardinality({x \in errors : x.run = r})
    IN  IF runs[r] = NoRow THEN stored = 0 /\ refused = 0
        ELSE /\ runs[r].loaded = stored
             /\ runs[r].invalid = refused
             /\ stored <= runs[r].valid
             /\ runs[r].valid + runs[r].invalid <= runs[r].extracted

(***************************************************************************)
(* A validation_errors row is only there when the same entry is on the     *)
(* dead letter topic, which the code writes first and cannot roll back.    *)
(***************************************************************************)
ErrorsReachDlt == errors \subseteq dlt

(***************************************************************************)
(* market_records and daily_summaries are committed together: the day of a *)
(* stored record has a summary, a summary is never empty, and every trade  *)
(* in one is of an event whose id is stored, under a summary of that day.  *)
(***************************************************************************)
SummariesMatchMarket ==
  /\ \A e \in EventIds : market[e] # NoRow => summaries[market[e].key] # NoRow
  /\ \A k \in Keys : summaries[k] # NoRow =>
       /\ summaries[k].trades # {}
       /\ \A t \in summaries[k].trades :
            /\ log[t[2]].key = k
            /\ market[log[t[2]].event_id] # NoRow

(***************************************************************************)
(* A replay is bounded: nothing at an offset further than one full batch   *)
(* after the committed one has left a trace, so that a restart or a        *)
(* rebalance repeats the effects of one batch at most.                     *)
(***************************************************************************)
ReplayIsBounded ==
  LET window == 1 .. committed + MaxPollRecords
  IN  /\ \A x \in dlt \cup errors : x.origin \in window
      /\ \A e \in EventIds : market[e] # NoRow => market[e].origin \in window
      /\ failed \subseteq window

(***************************************************************************)
(* First wins: redelivered or duplicated events never change or remove a   *)
(* stored record, an open price or a stored refusal.                       *)
(***************************************************************************)
RowsAreStable ==
  [][/\ \A e \in EventIds : market[e] # NoRow => market'[e] = market[e]
     /\ \A k \in Keys : summaries[k] # NoRow =>
          /\ summaries'[k] # NoRow
          /\ summaries'[k].open = summaries[k].open
     /\ errors \subseteq errors']_vars

(***************************************************************************)
(* A committed run row changes at most once, from "running" to             *)
(* "completed", with its counters as they were.                            *)
(***************************************************************************)
RunRowsSettle ==
  [][\A r \in DOMAIN runs : runs[r] # NoRow /\ runs'[r] # runs[r] =>
       /\ runs[r].status = "running"
       /\ runs'[r] = [runs[r] EXCEPT !.status = "completed"]]_vars

-----------------------------------------------------------------------------
(* The inductive invariant.                                                *)

\* The batch holds messages of the topic as they are there.
BatchFromLog ==
  \A i \in DOMAIN batch : /\ batch[i].origin \in Offsets
                          /\ batch[i] = MessageAt(batch[i].origin)

\* What has been fetched and not acknowledged is in the batch.
FetchedInBatch ==
  /\ pc \in {"stopped", "poll"} => batch = <<>>
  /\ pc \notin {"stopped", "dead"} =>
       /\ committed <= position
       /\ \A o \in committed + 1 .. position : \E i \in DOMAIN batch : batch[i].origin = o

\* When _process_batch has returned the batch is recorded; when it is
\* acknowledged it may have been reported as failed instead.
BatchOutcome ==
  /\ pc \in {"processed", "saveagain", "commitagain"} =>
       \A i \in DOMAIN batch : Recorded(i)
  /\ pc = "ack" =>
       \A i \in DOMAIN batch : Recorded(i) \/ batch[i].origin \in failed

\* Batch and transaction hold nothing from beyond the window of a batch.
BatchInWindow ==
  /\ pc = "drain" => position <= committed + 1
  /\ \A i \in DOMAIN batch : batch[i].origin <= committed + MaxPollRecords
  /\ \A x \in tx.errors : x.origin \in 1 .. committed + MaxPollRecords
  /\ \A e \in EventIds : tx.market[e] # NoRow =>
       tx.market[e].origin \in 1 .. committed + MaxPollRecords

IInv ==
  /\ TypeOK
  /\ StageInv
  /\ BatchFromLog
  /\ FetchedInBatch
  /\ BatchOutcome
  /\ BatchInWindow
  /\ NoSilentLoss
  /\ ReplayIsBounded

-----------------------------------------------------------------------------
(* The promise.                                                            *)

\* Messages that are settled or whose batch was reported as failed.
Dealt == {o \in Offsets : Settled(o) \/ o \in failed}

D == INSTANCE Delivery WITH size <- Len(log), dealt <- Dealt, acked <- committed

(***************************************************************************)
(* The consumer implements Delivery: no crash, rebalance, failed call or   *)
(* replay takes back what was dealt with or acknowledges anything else.    *)
(***************************************************************************)
ImplementsDelivery == D!Spec

-----------------------------------------------------------------------------
(* Liveness.                                                               *)

(***************************************************************************)
(* Unless the task has died, everything on the topic is acknowledged in    *)
(* the end: no failure of a batch, rebalance or restart wedges the loop.   *)
(***************************************************************************)
TopicIsDrained == <>[](pc = "dead" \/ committed = Len(log))

\* A message that makes a stage raise, or would if it were refused.
Spoils(m) == m.fate \in {"uncastable", "untimed", "unstorable", "unencodable"}
             \/ m.barred # {}

\* Messages some batch may hold together with the one at o.
Near(o) == {p \in Offsets : p < o + MaxPollRecords /\ o < p + MaxPollRecords}

\* The only way a group whose services answer loses its consumer.
LostToRebalance == pc = "dead" /\ rebalances # 0

(***************************************************************************)
(* With a topic that decodes and services that answer, everything ends up  *)
(* settled, through restarts and rebalances, but for what was logged with  *)
(* a failed batch, and that is never farther than a batch from a message   *)
(* that spoils one.                                                        *)
(***************************************************************************)
EverythingSettles ==
  <>[](\/ LostToRebalance
       \/ \A o \in Offsets :
            Settled(o) \/ (o \in failed /\ \E p \in Near(o) : Spoils(log[p])))

(***************************************************************************)
(* ... and unless such a message is near the end of the topic, the last    *)
(* run is recorded as completed: only a restart leaves a run without an    *)
(* outcome, and a later run takes over its messages.                       *)
(***************************************************************************)
LastRunCompletes ==
  []<>(\/ LostToRebalance
       \/ \E p \in Near(Len(log)) : Spoils(log[p])
       \/ /\ runs # <<>>
          /\ runs[Len(runs)] # NoRow
          /\ runs[Len(runs)].status = "completed")

=============================================================================
