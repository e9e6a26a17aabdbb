----------------------------- MODULE EtlSystem -----------------------------
(***************************************************************************)
(* The service of src/app/main.py: one process whose event loop runs the   *)
(* consumer task (KafkaMode), the scheduled file job (FileMode) and the    *)
(* monitoring requests (MonitoringApi) over one database, from the start   *)
(* of the lifespan to its end.                                             *)
(*                                                                         *)
(* Beside the tables the two workers share the rows of daily_summaries:    *)
(* an upsert waits for the other's open transaction on the same day and    *)
(* takes the days in the order of its VALUES list.  The event ids of the   *)
(* topic and those the file extractor makes up are distinct, so nothing    *)
(* waits in market_records; validation_errors and pipeline_runs have keys  *)
(* of their own.                                                           *)
(***************************************************************************)
EXTENDS MonitoringApi

CONSTANTS
  ChunkSize, MaxErrorRows, MaxSummaryRows, InfraFaults,     \* ProcessBatch
  Logs, MaxPollRecords, ProducerStarts, MaxRebalances,      \* KafkaMode
  Deliveries, Names, Uuids, AtomicDrops, MaxMoveFaults,     \* FileMode
  MaxRestarts                                               \* bound: restarts

\* Days are numbered in the order of groupby; ids and origins are not shared.
ASSUME SystemAssumption ==
  /\ Keys \in SUBSET Nat
  /\ \A l \in Logs : \A o \in DOMAIN l : l[o].event_id \notin Uuids
  /\ \A l \in Logs, ds \in Deliveries : \A d \in DOMAIN ds :
       \A i \in DOMAIN ds[d].rows : ds[d].rows[i].origin \notin DOMAIN l

VARIABLES
  dlt,
  kpc, kbatch, krun, krunId, ktodo, ktx, kaborted,
  log, committed, position, kfailed, krestarts, rebalances,
  fpc, fbatch, frun, frunId, ftodo, ftx, faborted,
  drops, dropped, copying, input, archive, errordir, pending, name, reading,
  ffailed, disturbed, frestarts, moveFaults,
  locks,       \* the worker whose open transaction has written a day's summary
  phase        \* where the lifespan is

kafka == <<kpc, kbatch, krun, krunId, ktodo, ktx, kaborted, log, committed,
           position, kfailed, krestarts, rebalances>>
file  == <<fpc, fbatch, frun, frunId, ftodo, ftx, faborted, drops, dropped,
           copying, input, archive, errordir, pending, name, reading,
           ffailed, disturbed, frestarts, moveFaults>>
vars  == <<store, dlt, kafka, file, apiVars, locks, phase>>

K == INSTANCE KafkaMode WITH pc <- kpc, batch <- kbatch, run <- krun,
       runId <- krunId, todo <- ktodo, tx <- ktx, aborted <- kaborted,
       failed <- kfailed, restarts <- krestarts
F == INSTANCE FileMode WITH pc <- fpc, batch <- fbatch, run <- frun,
       runId <- frunId, todo <- ftodo, tx <- ftx, aborted <- faborted,
       failed <- ffailed, restarts <- frestarts

\* What each mode assumes of its constants.
ASSUME ModesAssumption ==
  /\ K!BatchAssumption
  /\ K!KafkaAssumption
  /\ F!FileAssumption
  /\ F!OriginAssumption

(***************************************************************************)
(* "cancelling": kafka_task is cancelled and awaited; "stopping": it is in *)
(* its finally, awaiting the clients' stop(), and "hung" if one never      *)
(* returns; "cancelled": it has ended so; "broken": awaiting it has raised *)
(* out of the lifespan.                                                    *)
(***************************************************************************)
Phases == {"down", "up", "cancelling", "stopping", "hung", "cancelled", "broken"}

TypeOK ==
  /\ K!TypeOK
  /\ F!TypeOK
  /\ ApiTypeOK
  /\ locks \in [Keys -> {"kafka", "file", "none"}]
  /\ phase \in Phases

Init ==
  /\ K!Init
  /\ F!Init
  /\ ApiInit
  /\ locks = [k \in Keys |-> "none"]
  /\ phase = "down"

-----------------------------------------------------------------------------
(* Row locks: upsert_daily_summaries of two sessions on the same days.     *)

\* Between the first summary written and the end of the transaction, which a
\* server error ends as far as locks go.
KafkaOpen == kpc \in {"summaries", "saverun", "commit", "except"} /\ ~ kaborted
FileOpen  == /\ fpc \in {"summaries", "saverun", "commit", "except", "finally",
                         "finalcommit"}
             /\ ~ faborted

\* A worker's locks go with its transaction.
Release ==
  locks' = [k \in Keys |->
              IF \/ locks[k] = "kafka" /\ ~ KafkaOpen'
                 \/ locks[k] = "file"  /\ ~ FileOpen'
              THEN "none" ELSE locks[k]]

Missing(worker, days) == {k \in days : locks[k] # worker}

\* Mutant: the groups come in the order of the records (sort=False).
NextDayMutant(worker, days) == Missing(worker, days)

\* The day a statement locks next: groups, and so its rows, are sorted.
NextDay(worker, days) ==
  {k \in Missing(worker, days) : \A j \in Missing(worker, days) : k <= j}

\* The upsert of these days has been sent and takes a lock.
TakeLock(worker, days) ==
  /\ Cardinality(days) <= MaxSummaryRows
  /\ \E k \in NextDay(worker, days) :
       locks[k] = "none" /\ locks' = [locks EXCEPT ![k] = worker]
  /\ UNCHANGED <<store, dlt, kafka, file, apiVars, phase>>

\* Mutant: ON CONFLICT looks at the committed row and does not wait.
UpsertsMutant(worker, days) == TRUE

\* All its days locked, the statement returns: what ON CONFLICT DO UPDATE saw
\* of each row is the last committed version, and stays that.
Upserts(worker, days) == Missing(worker, days) = {}

-----------------------------------------------------------------------------
(* The consumer task and the file job.                                     *)

KafkaLock == phase = "up" /\ kpc = "summaries" /\ TakeLock("kafka", K!Touched)

KafkaWork ==
  /\ phase = "up"
  /\ K!Consume
  /\ kpc = "summaries" /\ kpc' = "saverun" => Upserts("kafka", K!Touched)
  /\ UNCHANGED <<file, apiVars, phase>>
  /\ Release

Rebalance ==
  /\ phase = "up"
  /\ K!Rebalance
  /\ UNCHANGED <<file, apiVars, locks, phase>>

FileLock == phase # "down" /\ fpc = "summaries" /\ TakeLock("file", F!Touched)

\* Mutant: the two modes are gathered, the end of one ends the other.
FileWorkMutant ==
  /\ phase # "down" /\ kpc # "dead"
  /\ F!Work
  /\ fpc = "summaries" /\ fpc' = "saverun" => Upserts("file", F!Touched)
  /\ UNCHANGED <<kafka, apiVars, phase>>
  /\ Release

\* The job runs until the scheduler or the loop is stopped.
FileWork ==
  /\ phase # "down"
  /\ F!Work
  /\ fpc = "summaries" /\ fpc' = "saverun" => Upserts("file", F!Touched)
  /\ UNCHANGED <<kafka, apiVars, phase>>
  /\ Release

\* Files arrive whether the service is up or not.
Arrive ==
  /\ F!Drop \/ F!Copied
  /\ UNCHANGED <<kafka, apiVars, locks, phase>>

Request ==
  /\ phase = "up"
  /\ Serve
  /\ UNCHANGED <<dlt, kafka, file, locks, phase>>

-----------------------------------------------------------------------------
(* The lifespan.                                                           *)

\* Scheduler and consumer task are started.
Boot ==
  /\ phase = "down"
  /\ phase' = "up"
  /\ UNCHANGED <<store, dlt, kafka, file, apiVars, locks>>

\* The server has answered its requests and resumes the lifespan:
\* kafka_task.cancel().
Shutdown ==
  /\ phase = "up"
  /\ served = "none"
  /\ krestarts < MaxRestarts /\ frestarts < MaxRestarts
  /\ phase' = "cancelling"
  /\ UNCHANGED <<store, dlt, kafka, file, apiVars, locks>>

\* Mutant: stopping the consumer commits its position.
TaskCancelledMutant ==
  /\ phase = "cancelling"
  /\ kpc # "dead"
  /\ committed' = position
  /\ kpc' = "dead"
  /\ krestarts' = krestarts + 1
  /\ phase' = "cancelled"
  /\ UNCHANGED <<store, dlt, kbatch, krun, krunId, ktodo, ktx, kaborted, log,
                 position, kfailed, rebalances, file, apiVars>>
  /\ Release

\* CancelledError goes through the task, past `except Exception', and closes
\* its session; from within the try it goes on to the finally.  A task that has
\* raised may still be in its finally, where it ends without another await.
TaskCancelled ==
  /\ phase = "cancelling"
  /\ kpc = "dead" => InfraFaults
  /\ K!Crash
  /\ phase' = IF kpc \in {"stopped", "dead"} THEN "cancelled" ELSE "stopping"
  /\ UNCHANGED <<file, apiVars>>
  /\ Release

\* consumer_client.stop() and dlt_producer.stop() return, ...
ClientsStop ==
  /\ phase = "stopping"
  /\ phase' = "cancelled"
  /\ UNCHANGED <<store, dlt, kafka, file, apiVars, locks>>

\* ... one raises, and its exception takes the place of CancelledError, ...
ClientsRaise ==
  /\ phase = "stopping"
  /\ InfraFaults
  /\ phase' = "broken"
  /\ UNCHANGED <<store, dlt, kafka, file, apiVars, locks>>

\* ... or one waits for the broker for good, and the lifespan for it.
ClientsHang ==
  /\ phase = "stopping"
  /\ InfraFaults
  /\ phase' = "hung"
  /\ UNCHANGED <<store, dlt, kafka, file, apiVars, locks>>

\* scheduler.shutdown() cancels the job.  The cancelled statement costs it its
\* connection, so the save in finally raises and nothing is committed.
StopScheduler ==
  /\ phase = "cancelled"
  /\ F!Crash
  /\ phase' = "down"
  /\ UNCHANGED <<kafka, apiVars>>
  /\ Release

\* The task had ended with an exception, which awaiting it raises again: the
\* scheduler is not stopped.
AwaitRaises ==
  /\ phase = "cancelling"
  /\ kpc = "dead"
  /\ phase' = "broken"
  /\ UNCHANGED <<store, dlt, kafka, file, apiVars, locks>>

\* The end of the process takes the task with it, unless it has ended before.
TaskEnds == IF phase = "up" \/ kpc = "dead" THEN K!Crash ELSE UNCHANGED kafka

\* The server ends all the same, and closing the loop cancels what is left.
Exit ==
  /\ phase = "broken"
  /\ TaskEnds
  /\ F!Crash
  /\ phase' = "down"
  /\ UNCHANGED apiVars
  /\ Release

\* The process dies, or is killed, as it must be if its shutdown hangs.
Kill ==
  /\ phase \in {"up", "hung"}
  /\ TaskEnds
  /\ F!Crash
  /\ Release
  /\ served' = "none" /\ step' = 0 /\ answer' = Nothing
  /\ phase' = "down"

Lifespan ==
  \/ Boot
  \/ TaskCancelled \/ ClientsStop \/ ClientsRaise \/ ClientsHang \/ AwaitRaises
  \/ StopScheduler \/ Exit

-----------------------------------------------------------------------------
Next ==
  \/ KafkaWork \/ KafkaLock \/ Rebalance
  \/ FileWork \/ FileLock \/ Arrive
  \/ Request
  \/ Lifespan \/ Shutdown \/ Kill

(***************************************************************************)
(* Each worker is resumed when what it awaits is there, a lock included;   *)
(* the process is started again when it is down.  Nothing obliges a file   *)
(* to arrive, a request to come or the service to be shut down.            *)
(***************************************************************************)
Spec ==
  /\ Init /\ [][Next]_vars
  /\ WF_vars((K!Resumable /\ KafkaWork) \/ KafkaLock)
  /\ WF_vars(FileWork \/ FileLock)
  /\ WF_vars(Lifespan)

-----------------------------------------------------------------------------
(* Safety.                                                                 *)

Waits(worker, days) ==
  \E k \in NextDay(worker, days) : locks[k] \notin {worker, "none"}

(***************************************************************************)
(* The two modes never wait for each other: whatever days their batches    *)
(* have in common, the database has no deadlock to resolve by aborting one *)
(* of them.                                                                *)
(***************************************************************************)
NoWaitCycle ==
  ~ /\ kpc = "summaries" /\ Waits("kafka", K!Touched)
    /\ fpc = "summaries" /\ Waits("file", F!Touched)

(***************************************************************************)
(* A day has one open price for good, although both modes write the days   *)
(* of each other in transactions that overlap.                             *)
(***************************************************************************)
OpenPricesStand ==
  [][\A k \in Keys : summaries[k] # NoRow =>
       /\ summaries'[k] # NoRow
       /\ summaries'[k].open = summaries[k].open]_vars

\* The trade of origin o is stored, under its id or another of that id.
Backed(o) == IF o \in DOMAIN log THEN market[log[o].event_id] # NoRow
                                 ELSE F!Stored(o) # {}

(***************************************************************************)
(* Over the tables of both modes: no summary has a trade, or an open, that *)
(* is not stored, and the day of a stored record has a summary unless the  *)
(* run that stored it failed.                                              *)
(***************************************************************************)
SummariesAreBacked ==
  /\ \A k \in Keys : summaries[k] # NoRow =>
       /\ Backed(summaries[k].open)
       /\ \A t \in summaries[k].trades : Backed(t[2])
  /\ \A e \in EventIds : market[e] # NoRow =>
       \/ summaries[market[e].key] # NoRow
       \/ runs[market[e].run] # NoRow /\ runs[market[e].run].status = "failed"

(***************************************************************************)
(* The consumer keeps its promise beside the file job, whose rows and runs *)
(* go into the same tables, and through every way the lifespan ends.       *)
(***************************************************************************)
DeliversBesideFiles == K!ImplementsDelivery

-----------------------------------------------------------------------------
(* Liveness.                                                               *)

(***************************************************************************)
(* Neither mode starves the other, and the end of the consumer task is not *)
(* the end of the file job: the topic is drained unless the task has died, *)
(* and no file waits for ever.                                             *)
(***************************************************************************)
BothProceed == K!TopicIsDrained /\ F!FilesAreTakenUp

=============================================================================
