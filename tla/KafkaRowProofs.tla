--------------------------- MODULE KafkaRowProofs ---------------------------
(***************************************************************************)
(* What the rows of KafkaMode say, for every topic, poll size, chunk size  *)
(* and number of restarts and rebalances: the counters of the runs, the    *)
(* dead letters, the summaries and the stability of what is stored.  TInv  *)
(* is inductive next to IInv; the properties are conjuncts of it, or hold  *)
(* of every step that starts in it.                                        *)
(***************************************************************************)
EXTENDS KafkaModeProofs

\* Outside the stages the transaction is empty, but for the completed run.
TxBetween ==
  /\ pc \notin Stages \cup {"commitagain", "except"} => tx = EmptyTx
  /\ pc = "commitagain" => tx = SaveRun(EmptyTx, run)
  /\ pc # "except" => ~ aborted

\* The run that was committed, before and after it is completed in memory.
RunBetween ==
  /\ pc = "processed" =>
       runId \in DOMAIN runs /\ run.status = "running" /\ runs[runId] = run
  /\ pc \in {"saveagain", "commitagain"} =>
       /\ runId \in DOMAIN runs
       /\ run.status = "completed"
       /\ runs[runId] = [run EXCEPT !.status = "running"]

\* What the stages have sent of the refusals before they save them.
DltFirst ==
  /\ pc = "dlt" => \A i \in Invalid \ todo : ErrorFor(i) \in dlt
  /\ pc \in Stages \ {"clean", "dlt"} => Refusals \subseteq dlt

\* A batch in hand was fetched after the committed offset.
BatchIsNew ==
  pc \in Stages \cup {"drain"} => \A i \in DOMAIN batch : batch[i].origin > committed

\* A trade of a summary is of a message of the topic.
TradesFromLog ==
  \A k \in Keys : summaries[k] # NoRow =>
    \A t \in summaries[k].trades : t[2] \in Offsets

\* The conjuncts about the run in hand.
InHand ==
  /\ TxFromBatch
  /\ TxStages
  /\ TxBetween
  /\ RunBetween
  /\ DltFirst
  /\ BatchIsNew

TInv ==
  /\ InHand
  /\ RunsAreKept
  /\ RunRowsMatchTables
  /\ ErrorsReachDlt
  /\ SummariesMatchMarket
  /\ TradesFromLog

\* The part of both that is about the consumer, not about every row.
LEMMA InvParts == IInv /\ TInv => ConsumerInv /\ InHand /\ RunsAreKept /\ TypeOK
BY Parts DEF ConsumerInv, TInv

-----------------------------------------------------------------------------
(* What a step does to the tables.                                         *)

\* The other step that reaches the tables: the run that was committed is
\* completed.
RunCommit == /\ pc = "commitagain"
             /\ CommitTx(tx, runId)
             /\ UNCHANGED <<batch, runId>>

\* Every step is one of the three or leaves the tables alone; the topic stays,
\* the dead letter topic only grows.
LEMMA TableStep ==
  ASSUME ConsumerInv, [Next]_vars
  PROVE  /\ UNCHANGED store \/ NewRunStep \/ BatchCommit \/ RunCommit
         /\ log' = log
         /\ dlt \subseteq dlt'
<1>1. CASE Process
  <2>1. PICK b \in BOOLEAN : b = TRUE /\ ProcessStep(b)
    BY <1>1 DEF Process
  <2>2. dlt \subseteq dlt' /\ batch' = batch /\ runId' = runId
    BY <2>1, DltStep, ProcessStepType DEF ConsumerInv, TypeOK
  <2>3. UNCHANGED store \/ BatchCommit
    BY <2>1, ProcessTables DEF ConsumerInv, TypeOK
  <2> QED
    BY <1>1, <2>2, <2>3 DEF Process, kafkaVars
<1>2. CASE Complete \/ SaveCompleted \/ CommitCompleted \/ CompletionFails
  BY <1>2 DEF Complete, SaveCompleted, CommitCompleted, CompletionFails, kafkaVars, RunCommit
<1>3. CASE GetMany
  BY <1>3 DEF GetMany, NewRunStep
<1>4. CASE Start \/ StartFails \/ GetOne \/ GetOneFails \/ DecodeRaises
  BY <1>4 DEF Start, StartFails, GetOne, GetOneFails, DecodeRaises, kafkaVars
<1>5. CASE Ack \/ AckFails \/ HandleFailure
  BY <1>5 DEF Ack, AckFails, HandleFailure
<1>6. CASE Rebalance \/ Crash \/ UNCHANGED vars
  BY <1>6 DEF Rebalance, Crash, vars, batchVars, kafkaVars
<1> QED
  BY <1>1, <1>2, <1>3, <1>4, <1>5, <1>6 DEF Next, Consume

\* The second commit changes the status of its row and nothing else.
LEMMA AtRunCommit ==
  ASSUME ConsumerInv, InHand, RunsAreKept, RunCommit
  PROVE  /\ UNCHANGED <<market, summaries, errors>>
         /\ DOMAIN runs' = DOMAIN runs /\ runId \in DOMAIN runs
         /\ runs[runId] \in RunRow /\ runs[runId].status = "running"
         /\ runs'[runId] = [runs[runId] EXCEPT !.status = "completed"]
         /\ \A r \in DOMAIN runs \ {runId} : runs'[r] = runs[r]
<1>1. /\ StoreTypeOK /\ run \in RunRow
  BY DEF ConsumerInv, TypeOK, BatchTypeOK
<1>2. /\ runId \in DOMAIN runs /\ run.status = "completed"
      /\ runs[runId] = [run EXCEPT !.status = "running"]
      /\ tx = SaveRun(EmptyTx, run)
  BY DEF InHand, TxBetween, RunBetween, RunCommit, Stages
<1>3. /\ UNCHANGED <<market, summaries, errors>>
      /\ DOMAIN runs' = DOMAIN runs /\ runs'[runId] = run
      /\ \A r \in DOMAIN runs \ {runId} : runs'[r] = runs[r]
  BY <1>1, <1>2, CommitOfRunRow DEF RunCommit
<1>4. /\ runs[runId] \in RunRow /\ runs[runId].status = "running"
      /\ run = [runs[runId] EXCEPT !.status = "completed"]
  BY <1>1, <1>2 DEF RunRow, Status
<1> QED
  BY <1>2, <1>3, <1>4

\* The rows of the tables keep belonging to runs that have a row.
LEMMA RunsAreKeptStep ==
  ASSUME ConsumerInv, InHand, RunsAreKept, [Next]_vars
  PROVE  RunsAreKept'
<1>1. CASE UNCHANGED store
  BY <1>1 DEF InHand, RunsAreKept, store
<1>2. CASE NewRunStep
  <2>1. \A r \in DOMAIN runs : r \in DOMAIN runs' /\ runs'[r] = runs[r]
    BY <1>2, NewRunKeeps DEF ConsumerInv, TypeOK
  <2> QED
    BY <1>2, <2>1 DEF NewRunStep, InHand, RunsAreKept
<1>3. CASE BatchCommit
  BY <1>3, AtBatchCommit, CommitOfRun DEF BatchCommit, ConsumerInv, TypeOK, InHand
<1>4. CASE RunCommit
  <2>1. \A r \in DOMAIN runs : runs[r] # NoRow => r \in DOMAIN runs' /\ runs'[r] # NoRow
    <3>1. [runs[runId] EXCEPT !.status = "completed"] \in RunRow
      BY <1>4, AtRunCommit DEF RunRow, Status
    <3> QED
      BY <1>4, <3>1, AtRunCommit, NoRowAssumption
  <2> QED
    BY <1>4, <2>1, AtRunCommit DEF InHand, RunsAreKept
<1> QED
  BY <1>1, <1>2, <1>3, <1>4, TableStep

\* Counters and tables keep saying the same.
LEMMA RunRowsMatchTablesStep ==
  ASSUME IInv, TInv, [Next]_vars
  PROVE  RunRowsMatchTables'
<1> DEFINE Fits(r) == IF runs[r] = NoRow
                        THEN Cardinality(StoredBy(r)) = 0 /\ Cardinality(RefusedBy(r)) = 0
                        ELSE /\ runs[r].loaded = Cardinality(StoredBy(r))
                             /\ runs[r].invalid = Cardinality(RefusedBy(r))
                             /\ Cardinality(StoredBy(r)) <= runs[r].valid
                             /\ runs[r].valid + runs[r].invalid <= runs[r].extracted
<1>1. \A r \in DOMAIN runs : Fits(r)
  BY DEF TInv, RunRowsMatchTables, StoredBy, RefusedBy
<1>2. SUFFICES ASSUME NEW r \in DOMAIN runs' PROVE Fits(r)'
  BY DEF RunRowsMatchTables, StoredBy, RefusedBy
<1>3. CASE UNCHANGED store
  BY <1>1, <1>2, <1>3 DEF StoredBy, RefusedBy, store
<1>4. CASE NewRunStep
  <2>1. StoredBy(r)' = StoredBy(r) /\ RefusedBy(r)' = RefusedBy(r)
    BY <1>4 DEF NewRunStep, StoredBy, RefusedBy
  <2>2. runs \in Seq(RunRow \cup {NoRow})
    BY DEF IInv, TypeOK, StoreTypeOK
  <2>3. CASE r \in DOMAIN runs
    <3>1. runs'[r] = runs[r]
      BY <1>4, <2>2, <2>3 DEF NewRunStep
    <3> QED
      BY <1>1, <2>1, <2>3, <3>1
  <2>4. CASE r \notin DOMAIN runs
    <3>1. runs'[r] = NoRow
      BY <1>2, <1>4, <2>2, <2>4 DEF NewRunStep
    <3>2. StoredBy(r) = {} /\ RefusedBy(r) = {}
      BY <2>4 DEF TInv, RunsAreKept, StoredBy, RefusedBy
    <3> QED
      BY <2>1, <3>1, <3>2, FS_EmptySet
  <2> QED
    BY <2>3, <2>4
<1>5. CASE BatchCommit
  <2>1. /\ DOMAIN runs' = DOMAIN runs /\ runs'[runId] = run /\ runs'[runId] # NoRow
        /\ StoredBy(runId)' = Loaded /\ RefusedBy(runId)' = Refusals
        /\ \A q \in DOMAIN runs \ {runId} : /\ runs'[q] = runs[q]
                                            /\ StoredBy(q)' = StoredBy(q)
                                            /\ RefusedBy(q)' = RefusedBy(q)
    BY <1>5, AtBatchCommit, CommitOfRun, InvParts
         DEF BatchCommit, IInv, TypeOK, TInv, InHand
  <2>2. CASE r # runId
    BY <1>1, <1>2, <2>1, <2>2
  <2>3. CASE r = runId
    <3>1. /\ Cardinality(Loaded) <= Cardinality(Valid)
          /\ Cardinality(Valid) + Cardinality(Invalid) <= Len(batch)
          /\ Cardinality(Refusals) = Cardinality(Invalid)
      BY BatchCounts, LoadedBounded, InvParts DEF IInv, TypeOK, TInv, InHand
    <3>2. runId' = runId
      BY <1>5 DEF BatchCommit
    <3>3. StoredBy(r)' = Loaded /\ RefusedBy(r)' = Refusals
      BY <2>1, <2>3, <3>2
    <3> QED
      BY <1>5, <2>1, <2>3, <3>1, <3>3, AtBatchCommit, InvParts DEF IInv, TypeOK, TInv, InHand
  <2> QED
    BY <2>2, <2>3
<1>6. CASE RunCommit
  <2>1. StoredBy(r)' = StoredBy(r) /\ RefusedBy(r)' = RefusedBy(r)
    BY <1>6, AtRunCommit, InvParts DEF StoredBy, RefusedBy
  <2>2. CASE r # runId
    BY <1>1, <1>2, <1>6, <2>1, <2>2, AtRunCommit, InvParts
  <2>3. CASE r = runId
    <3>1. /\ runs[r] \in RunRow /\ runs[r] # NoRow
          /\ runs'[r] = [runs[r] EXCEPT !.status = "completed"]
          /\ r \in DOMAIN runs
      BY <1>6, <2>3, AtRunCommit, NoRowAssumption, InvParts
    <3>2. /\ runs'[r].loaded = runs[r].loaded /\ runs'[r].invalid = runs[r].invalid
          /\ runs'[r].valid = runs[r].valid /\ runs'[r].extracted = runs[r].extracted
          /\ runs'[r] \in RunRow
      BY <3>1 DEF RunRow, Status
    <3>3. runs'[r] # NoRow
      BY <3>2, NoRowAssumption
    <3> QED
      BY <1>1, <2>1, <3>1, <3>2, <3>3
  <2> QED
    BY <2>2, <2>3
<1> QED
  BY <1>3, <1>4, <1>5, <1>6, TableStep, InvParts

\* A refusal is committed after it is on the dead letter topic.
LEMMA ErrorsReachDltStep ==
  ASSUME IInv, TInv, [Next]_vars
  PROVE  ErrorsReachDlt'
<1>1. errors \subseteq dlt /\ dlt \subseteq dlt'
  BY TableStep, InvParts DEF TInv, InHand, ErrorsReachDlt
<1>2. CASE UNCHANGED store \/ NewRunStep
  BY <1>1, <1>2 DEF ErrorsReachDlt, NewRunStep, store
<1>3. CASE BatchCommit
  <2>1. errors' = errors \cup Refusals
    BY <1>3, AtBatchCommit, InvParts DEF BatchCommit, CommitTx, IInv, TypeOK, TInv, InHand
  <2>2. Refusals \subseteq dlt
    BY <1>3, InvParts DEF BatchCommit, TInv, InHand, DltFirst, Stages
  <2> QED
    BY <1>1, <2>1, <2>2 DEF ErrorsReachDlt
<1>4. CASE RunCommit
  BY <1>1, <1>4, AtRunCommit, InvParts DEF ErrorsReachDlt
<1> QED
  BY <1>2, <1>3, <1>4, TableStep, InvParts

\* Records and summaries of a batch are committed together.
LEMMA SummariesStep ==
  ASSUME IInv, TInv, [Next]_vars
  PROVE  SummariesMatchMarket' /\ TradesFromLog'
<1>1. /\ SummariesMatchMarket /\ TradesFromLog /\ StoreTypeOK /\ BatchTypeOK
      /\ TxFromBatch /\ BatchFromLog /\ log' = log /\ Offsets' = Offsets
  BY TableStep, InvParts DEF TInv, InHand, IInv, TypeOK, Offsets
<1>2. CASE UNCHANGED <<market, summaries>>
  BY <1>1, <1>2 DEF SummariesMatchMarket, TradesFromLog
<1>3. CASE BatchCommit
  <2>1. /\ \A e \in EventIds : market'[e] = IF tx.market[e] # NoRow THEN tx.market[e] ELSE market[e]
        /\ \A k \in Keys : summaries'[k] =
             IF tx.summaries[k] # NoRow THEN tx.summaries[k] ELSE summaries[k]
    BY <1>1, <1>3 DEF BatchCommit, CommitTx, Overlay, StoreTypeOK
  <2>2. /\ \A e \in EventIds : market[e] # NoRow => market'[e] = market[e]
        /\ \A k \in Keys : summaries[k] # NoRow => summaries'[k] # NoRow
    <3>1. ~ aborted
      BY <1>3, InvParts DEF BatchCommit, InHand, TxStages, Stages
    <3> QED
      BY <1>1, <1>3, <3>1, CommitKeepsRows DEF BatchCommit
  <2>3. ASSUME NEW e \in EventIds, market'[e] # NoRow
        PROVE  summaries'[market'[e].key] # NoRow
    <3>1. CASE tx.market[e] = NoRow
      <4>1. market'[e] = market[e] /\ market[e] \in MarketRow
        BY <1>1, <2>1, <2>3, <3>1 DEF StoreTypeOK
      <4>2. market[e].key \in Keys
        BY <4>1 DEF MarketRow
      <4> QED
        BY <1>1, <2>2, <2>3, <4>1, <4>2 DEF SummariesMatchMarket
    <3>2. CASE tx.market[e] # NoRow
      <4>1. PICK i \in Valid : tx.market[e] = RowOf(i)
        BY <1>1, <3>2 DEF TxFromBatch, Loaded
      <4>2. market'[e].key = batch[i].key
        BY <2>1, <3>2, <4>1 DEF RowOf
      <4>3. batch[i].key \in Keys
        BY <1>1, PositionsType DEF Message
      <4>4. batch[i].key \in Touched
        BY <4>3 DEF Touched, Group
      <4>5. tx.summaries[batch[i].key] # NoRow
        BY <1>3, <4>4, InvParts DEF BatchCommit, TInv, InHand, TxStages
      <4> QED
        BY <2>1, <4>2, <4>3, <4>5
    <3> QED
      BY <3>1, <3>2
  <2>4. ASSUME NEW k \in Keys, summaries'[k] # NoRow
        PROVE  /\ summaries'[k].trades # {}
               /\ \A t \in summaries'[k].trades :
                    /\ log[t[2]].key = k
                    /\ market'[log[t[2]].event_id] # NoRow
                    /\ t[2] \in Offsets
    <3>1. CASE tx.summaries[k] = NoRow
      <4>1. summaries'[k] = summaries[k] /\ summaries[k] # NoRow
        BY <2>1, <2>4, <3>1
      <4>2. ASSUME NEW t \in summaries[k].trades
            PROVE  /\ log[t[2]].key = k
                   /\ market'[log[t[2]].event_id] # NoRow
                   /\ t[2] \in Offsets
        <5>1. /\ log[t[2]].key = k /\ t[2] \in Offsets
              /\ market[log[t[2]].event_id] # NoRow
          BY <1>1, <4>1 DEF SummariesMatchMarket, TradesFromLog
        <5>2. log[t[2]].event_id \in EventIds
          BY <5>1, Numbers DEF Offsets, LogEntry, IInv
        <5> QED
          BY <2>2, <5>1, <5>2
      <4> QED
        BY <1>1, <4>1, <4>2 DEF SummariesMatchMarket
    <3>2. CASE tx.summaries[k] # NoRow
      <4>1. /\ summaries'[k].trades = {<<i, batch[i].origin>> : i \in Group(k)}
            /\ Group(k) # {} /\ \A i \in Group(k) : Accepted(i)
        BY <1>1, <2>1, <3>2 DEF TxFromBatch, Touched
      <4>2. ASSUME NEW i \in Group(k)
            PROVE  /\ log[batch[i].origin].key = k
                   /\ market'[log[batch[i].origin].event_id] # NoRow
                   /\ batch[i].origin \in Offsets
        <5>1. i \in DOMAIN batch /\ batch[i].key = k
          BY <1>1, PositionsType DEF Group
        <5>2. /\ batch[i].origin \in Offsets
              /\ log[batch[i].origin].key = batch[i].key
              /\ log[batch[i].origin].event_id = batch[i].event_id
          BY <1>1, <5>1 DEF BatchFromLog, MessageAt
        <5>3. market'[batch[i].event_id] # NoRow
          BY <1>3, <4>1 DEF Accepted, BatchCommit, CommitTx
        <5> QED
          BY <5>1, <5>2, <5>3
      <4>3. ASSUME NEW t \in summaries'[k].trades
            PROVE  \E i \in Group(k) : t[2] = batch[i].origin
        BY <4>1
      <4> QED
        BY <4>1, <4>2, <4>3
    <3> QED
      BY <3>1, <3>2
  <2> QED
    BY <1>1, <2>3, <2>4 DEF SummariesMatchMarket, TradesFromLog
<1> QED
  BY <1>2, <1>3, TableStep, AtRunCommit, InvParts DEF NewRunStep, store

-----------------------------------------------------------------------------
(* What a step does to the run in hand.                                    *)

\* Polling holds no transaction, and the batch is new.
LEMMA PollingInHand ==
  ASSUME ConsumerInv, InHand, RunsAreKept,
         Start \/ StartFails \/ GetOne \/ GetOneFails \/ DecodeRaises \/ Ack \/ AckFails
  PROVE  InHand'
<1>1. /\ pc \in {"stopped", "poll", "drain", "ack"}
      /\ pc' \in {"poll", "dead", "drain"}
      /\ UNCHANGED <<tx, aborted>>
  BY DEF Start, StartFails, GetOne, GetOneFails, DecodeRaises, Ack, AckFails
<1>2. tx = EmptyTx /\ ~ aborted
  BY <1>1 DEF InHand, TxBetween, Stages
<1>3. TxFromBatch'
  BY <1>1, <1>2, NothingFromBatch
<1>4. TxStages' /\ TxBetween' /\ RunBetween' /\ DltFirst'
  BY <1>1, <1>2 DEF TxStages, TxBetween, RunBetween, DltFirst, Stages
<1>5. BatchIsNew'
  <2>1. CASE pc' # "drain"
    BY <1>1, <2>1 DEF BatchIsNew, Stages
  <2>2. CASE GetOne
    <3>1. /\ batch' = <<MessageAt(position + 1)>> /\ committed' = committed
          /\ committed <= position
      BY <2>2 DEF GetOne, ConsumerInv, FetchedInBatch
    <3>2. DOMAIN batch' = {1} /\ batch'[1].origin = position + 1
      BY <3>1 DEF MessageAt
    <3> QED
      BY <3>1, <3>2, Numbers DEF BatchIsNew, ConsumerInv
  <2> QED
    BY <2>1, <2>2 DEF Start, StartFails, GetOneFails, DecodeRaises, Ack, AckFails
<1> QED
  BY <1>3, <1>4, <1>5 DEF InHand

\* A new run begins with an empty transaction and no counts, on messages
\* after the committed offset.
LEMMA GetManyInHand ==
  ASSUME ConsumerInv, InHand, RunsAreKept, GetMany
  PROVE  InHand'
<1>1. PICK n \in Drainable :
        batch' = batch \o [i \in 1 .. n |-> MessageAt(position + i)]
  BY DEF GetMany
<1>2. /\ pc = "drain" /\ pc' = "clean" /\ UNCHANGED <<tx, aborted, todo, committed>>
      /\ runs' = Append(runs, NoRow) /\ run' = NewRun /\ runId' = Len(runs) + 1
  BY DEF GetMany
<1>3. tx = EmptyTx /\ ~ aborted
  BY <1>2 DEF InHand, TxBetween, Stages
<1>4. TxFromBatch'
  BY <1>2, <1>3, NothingFromBatch
<1>5. /\ runId' \in DOMAIN runs' /\ runs'[runId'] = NoRow
  <2>1. runs \in Seq(RunRow \cup {NoRow}) /\ Len(runs) \in Nat
    BY DEF ConsumerInv, TypeOK, StoreTypeOK
  <2> QED
    BY <1>2, <2>1
<1>6. /\ tx'.run = NoRow /\ tx'.errors = {} /\ Loaded' = {}
      /\ \A k \in Keys : tx'.summaries[k] = NoRow
      /\ run'.status = "running" /\ run'.loaded = 0
  BY <1>2, <1>3 DEF EmptyTx, Loaded, NewRun
<1>7. TxStages'
  BY <1>2, <1>3, <1>5, <1>6 DEF TxStages, Stages
<1>8. TxBetween' /\ RunBetween' /\ DltFirst'
  BY <1>2, <1>3 DEF TxBetween, RunBetween, DltFirst, Stages
<1>9. BatchIsNew'
  <2> DEFINE rest == [i \in 1 .. n |-> MessageAt(position + i)]
  <2>1. /\ n \in Nat /\ position \in Nat /\ committed \in Nat /\ committed <= position
        /\ \A i \in DOMAIN batch : batch[i].origin > committed
    BY <1>2, Numbers DEF Drainable, ConsumerInv, FetchedInBatch, InHand, BatchIsNew
  <2>2. \A i \in 1 .. n : rest[i].origin = position + i
    BY DEF MessageAt
  <2>3. /\ Len(batch) \in Nat /\ DOMAIN batch = 1 .. Len(batch)
        /\ Len(rest) = n
    BY <2>1, PositionsType DEF ConsumerInv, TypeOK
  <2>4. batch' = batch \o rest
    BY <1>1
  <2> HIDE DEF rest
  <2>5. /\ DOMAIN batch' = 1 .. Len(batch) + n
        /\ \A i \in 1 .. Len(batch) + n :
             batch'[i] = IF i <= Len(batch) THEN batch[i] ELSE rest[i - Len(batch)]
    BY <2>3, <2>4
  <2>6. ASSUME NEW i \in DOMAIN batch' PROVE batch'[i].origin > committed
    <3>1. CASE i <= Len(batch)
      BY <2>1, <2>3, <2>5, <3>1
    <3>2. CASE ~ (i <= Len(batch))
      <4>1. i - Len(batch) \in 1 .. n
        BY <2>1, <2>3, <2>5, <3>2
      <4>2. batch'[i].origin = position + (i - Len(batch))
        BY <2>2, <2>5, <3>2, <4>1
      <4> QED
        BY <2>1, <4>1, <4>2
    <3> QED
      BY <3>1, <3>2
  <2> QED
    BY <1>2, <2>6 DEF BatchIsNew
<1> QED
  BY <1>4, <1>7, <1>8, <1>9 DEF InHand

\* The stages hand the transaction, the counters and the dead letters on.
LEMMA ProcessInHand ==
  ASSUME ConsumerInv, InHand, RunsAreKept, Process
  PROVE  InHand'
<1>1. PICK b \in BOOLEAN : b = TRUE /\ ProcessStep(b)
  BY DEF Process
<1>2. StoreTypeOK /\ BatchTypeOK /\ StageInv /\ TxFromBatch /\ TxStages
  BY DEF ConsumerInv, TypeOK, InHand
<1>3. TxFromBatch' /\ TxStages'
  BY <1>1, <1>2, TxFromBatchStep, TxStagesStep
<1>4. /\ batch' = batch /\ runId' = runId /\ committed' = committed
      /\ pc \in Stages /\ pc' \in (Stages \ {"clean"}) \cup {"processed", "except"}
  BY <1>1, <1>2, ProcessStepType, ProcessStepEffect DEF Process, kafkaVars
<1>5. Invalid' = Invalid /\ Refusals' = Refusals /\ \A i : ErrorFor(i)' = ErrorFor(i)
  BY <1>4, SameBatch DEF Refusals, ErrorFor
<1>6. BatchIsNew'
  BY <1>4 DEF InHand, BatchIsNew, Stages
<1>7. ASSUME pc' = "processed"
      PROVE  /\ pc = "commit" /\ CommitTx(tx, runId)
             /\ tx' = EmptyTx /\ UNCHANGED <<run, runId, aborted>>
  <2>1. Commit
    BY <1>1, <1>7 DEF ProcessStep, Raise, DbFails, Clean, CleanRaises, SendToDlt,
       SendToDltFails, DltDone, SaveValidationErrors, SaveValidationErrorsFails,
       Normalize, NormalizeRaises, InsertChunk, InsertChunkFails, RecordsDone,
       UpsertDailySummaries, UpsertDailySummariesFails, SavePipelineRun,
       SavePipelineRunFails, CommitFails
  <2> QED
    BY <2>1 DEF Commit
<1>8. ~ aborted
  BY <1>2, <1>4 DEF TxStages
<1>9. TxBetween'
  <2>1. CASE pc' = "processed"
    BY <1>7, <1>8, <2>1 DEF TxBetween, Stages
  <2>2. CASE pc' = "except"
    BY <2>2 DEF TxBetween, Stages
  <2>3. CASE pc' \in Stages
    BY <1>3, <2>3 DEF TxBetween, TxStages, Stages
  <2> QED
    BY <1>4, <2>1, <2>2, <2>3
<1>10. RunBetween'
  <2>1. CASE pc' = "processed"
    <3>1. BatchCommit
      BY <1>4, <1>7, <2>1 DEF BatchCommit
    <3>2. DOMAIN runs' = DOMAIN runs /\ runs'[runId] = run
      BY <1>2, <3>1, AtBatchCommit, CommitOfRun DEF BatchCommit, InHand
    <3> QED
      BY <1>7, <2>1, <3>1, <3>2, AtBatchCommit DEF RunBetween, ConsumerInv, TypeOK, InHand
  <2>2. CASE pc' # "processed"
    BY <1>4, <2>2 DEF RunBetween, Stages
  <2> QED
    BY <2>1, <2>2
<1>11. DltFirst'
  <2>1. dlt \subseteq dlt' /\ DltFirst
    BY <1>1, <1>2, DltStep DEF InHand
  <2>2. CASE pc = "clean" /\ pc' = "dlt"
    <3>1. todo' = Invalid
      BY <1>1, <2>2 DEF ProcessStep, Raise, DbFails, Clean, CleanRaises, SendToDlt,
         SendToDltFails, DltDone, SaveValidationErrors, SaveValidationErrorsFails,
         Normalize, NormalizeRaises, InsertChunk, InsertChunkFails, RecordsDone,
         UpsertDailySummaries, UpsertDailySummariesFails, SavePipelineRun,
         SavePipelineRunFails, Commit, CommitFails
    <3> QED
      BY <1>5, <2>2, <3>1 DEF DltFirst
  <2>3. CASE pc = "dlt" /\ pc' = "dlt"
    <3>1. SendToDlt
      BY <1>1, <2>3 DEF ProcessStep, Raise, DbFails, Clean, CleanRaises,
         SendToDltFails, DltDone, SaveValidationErrors, SaveValidationErrorsFails,
         Normalize, NormalizeRaises, InsertChunk, InsertChunkFails, RecordsDone,
         UpsertDailySummaries, UpsertDailySummariesFails, SavePipelineRun,
         SavePipelineRunFails, Commit, CommitFails
    <3> QED
      BY <1>5, <2>1, <2>3, <3>1 DEF DltFirst, SendToDlt
  <2>4. CASE pc = "dlt" /\ pc' = "errors"
    <3>1. todo = {}
      BY <1>1, <2>4 DEF ProcessStep, Raise, DbFails, Clean, CleanRaises, SendToDlt,
         SendToDltFails, DltDone, SaveValidationErrors, SaveValidationErrorsFails,
         Normalize, NormalizeRaises, InsertChunk, InsertChunkFails, RecordsDone,
         UpsertDailySummaries, UpsertDailySummariesFails, SavePipelineRun,
         SavePipelineRunFails, Commit, CommitFails
    <3> QED
      BY <1>5, <2>1, <2>4, <3>1 DEF DltFirst, Refusals
  <2>5. CASE pc \in Stages \ {"clean", "dlt"} /\ pc' # "dlt"
    BY <1>5, <2>1, <2>5 DEF DltFirst
  <2>6. CASE pc' \in {"processed", "except"}
    BY <2>6 DEF DltFirst, Stages
  <2>7. /\ pc = "clean" => pc' \in {"dlt", "except"}
        /\ pc = "dlt" => pc' \in {"dlt", "errors", "except"}
        /\ pc' = "dlt" => pc \in {"clean", "dlt"}
    BY <1>1 DEF ProcessStep, Raise, DbFails, Clean, CleanRaises, SendToDlt,
       SendToDltFails, DltDone, SaveValidationErrors, SaveValidationErrorsFails,
       Normalize, NormalizeRaises, InsertChunk, InsertChunkFails, RecordsDone,
       UpsertDailySummaries, UpsertDailySummariesFails, SavePipelineRun,
       SavePipelineRunFails, Commit, CommitFails
  <2> QED
    BY <1>4, <2>2, <2>3, <2>4, <2>5, <2>6, <2>7
<1> QED
  BY <1>3, <1>6, <1>9, <1>10, <1>11 DEF InHand

\* After the first commit the transaction holds the completed run at most.
LEMMA CompletionInHand ==
  ASSUME ConsumerInv, InHand, RunsAreKept,
         Complete \/ SaveCompleted \/ CommitCompleted \/ CompletionFails
  PROVE  InHand'
<1>1. pc \in {"processed", "saveagain", "commitagain"}
      /\ pc' \in {"saveagain", "commitagain", "ack", "except"}
  BY DEF Complete, SaveCompleted, CommitCompleted, CompletionFails
<1>2. ~ aborted /\ (pc # "commitagain" => tx = EmptyTx)
  BY <1>1 DEF InHand, TxBetween, Stages
<1>3. TxFromBatch'
  <2>1. tx' \in {EmptyTx, SaveRun(EmptyTx, run)}
    BY <1>2 DEF Complete, SaveCompleted, CommitCompleted, CompletionFails
  <2> QED
    BY <2>1, NothingFromBatch
<1>4. TxStages' /\ DltFirst' /\ BatchIsNew'
  BY <1>1 DEF TxStages, DltFirst, BatchIsNew, Stages
<1>5. TxBetween'
  BY <1>1, <1>2 DEF Complete, SaveCompleted, CommitCompleted, CompletionFails,
     TxBetween, Stages
<1>6. RunBetween'
  <2>1. CASE Complete
    <3>1. /\ runId \in DOMAIN runs /\ run.status = "running" /\ runs[runId] = run
          /\ run \in RunRow
      BY <2>1 DEF Complete, InHand, RunBetween, ConsumerInv, TypeOK, BatchTypeOK
    <3>2. /\ pc' = "saveagain" /\ UNCHANGED <<store, runId>>
          /\ run' = [run EXCEPT !.status = "completed"]
      BY <2>1 DEF Complete
    <3>3. run'.status = "completed" /\ [run' EXCEPT !.status = "running"] = run
      BY <3>1, <3>2 DEF RunRow
    <3> QED
      BY <3>1, <3>2, <3>3 DEF RunBetween, store
  <2>2. CASE SaveCompleted
    BY <2>2 DEF SaveCompleted, InHand, RunBetween, store
  <2>3. CASE CommitCompleted \/ CompletionFails
    BY <2>3 DEF CommitCompleted, CompletionFails, RunBetween
  <2> QED
    BY <2>1, <2>2, <2>3
<1> QED
  BY <1>3, <1>4, <1>5, <1>6 DEF InHand

\* A failure, a crash and a rebalance leave nothing in hand or all of it.
LEMMA OtherInHand ==
  ASSUME ConsumerInv, InHand, RunsAreKept, HandleFailure \/ Crash \/ Rebalance \/ UNCHANGED vars
  PROVE  InHand'
<1>1. CASE HandleFailure \/ Crash
  <2>1. tx' = EmptyTx /\ aborted' = FALSE /\ pc' \in {"ack", "stopped"}
    BY <1>1 DEF HandleFailure, Crash
  <2>2. TxFromBatch'
    BY <2>1, NothingFromBatch
  <2> QED
    BY <2>1, <2>2 DEF InHand, TxStages, TxBetween, RunBetween, DltFirst, BatchIsNew, Stages
<1>2. CASE Rebalance \/ UNCHANGED vars
  <2>1. UNCHANGED <<store, pc, batch, run, runId, todo, tx, aborted, dlt, committed>>
    BY <1>2 DEF Rebalance, vars, batchVars, kafkaVars
  <2>2. Invalid' = Invalid /\ Refusals' = Refusals /\ \A i : ErrorFor(i)' = ErrorFor(i)
    BY <2>1, SameBatch DEF Refusals, ErrorFor
  <2>3. TxFromBatch'
    BY <2>1, SameFromBatch DEF InHand
  <2>4. TxStages'
    BY <2>1, SameStages DEF InHand
  <2>5. TxBetween' /\ RunBetween' /\ BatchIsNew'
    BY <2>1 DEF InHand, TxBetween, RunBetween, BatchIsNew, store
  <2>6. DltFirst'
    BY <2>1, <2>2 DEF InHand, DltFirst
  <2> QED
    BY <2>3, <2>4, <2>5, <2>6 DEF InHand
<1> QED
  BY <1>1, <1>2

\* What is in hand at one step is in hand at the next.
LEMMA InHandStep ==
  ASSUME ConsumerInv, InHand, RunsAreKept, [Next]_vars
  PROVE  InHand'
BY PollingInHand, GetManyInHand, ProcessInHand, CompletionInHand, OtherInHand
   DEF Next, Consume

-----------------------------------------------------------------------------
(* The consumer beside another writer of the tables.                       *)

\* A run is given up when the process ends, or for a new one.
LEMMA RunIdStep ==
  ASSUME ConsumerInv, [Next]_vars
  PROVE  NewRunStep \/ runId' = runId \/ runId' = 0
<1>1. CASE Process
  BY <1>1, ProcessStepType DEF Process, ConsumerInv, TypeOK
<1>2. CASE ~ Process
  BY <1>2 DEF Next, Consume, Start, StartFails, GetOne, GetOneFails, GetMany, DecodeRaises,
     Complete,
     SaveCompleted, CommitCompleted, CompletionFails, HandleFailure, Ack, AckFails,
     Rebalance, Crash, vars, batchVars, NewRunStep
<1> QED
  BY <1>1, <1>2

\* The batch is of the messages of the topic.
LEMMA BatchIsOfTopic ==
  ASSUME ConsumerInv, NEW i \in DOMAIN batch
  PROVE  /\ batch[i].origin \in DOMAIN log
         /\ log[batch[i].origin].event_id = batch[i].event_id
BY Numbers DEF ConsumerInv, BatchFromLog, MessageAt, Offsets

\* What a step of the consumer does to the tables; what it stores is of the
\* messages of the topic.
LEMMA ConsumerWrites ==
  ASSUME ConsumerInv, InHand, RunsAreKept, [Next]_vars
  PROVE  /\ WorkerEffect
         /\ NewRunStep \/ runId' = runId \/ runId' = 0
         /\ \A i \in DOMAIN batch : /\ batch[i].origin \in DOMAIN log
                                   /\ log[batch[i].origin].event_id = batch[i].event_id
         /\ log' = log
<1>1. \A i \in DOMAIN batch : /\ batch[i].origin \in DOMAIN log
                             /\ log[batch[i].origin].event_id = batch[i].event_id
  BY BatchIsOfTopic
<1>2. ASSUME UNCHANGED store PROVE WorkerEffect
  BY <1>2 DEF WorkerEffect
<1>3. ASSUME NewRunStep PROVE WorkerEffect
  BY <1>3 DEF WorkerEffect
<1>4. ASSUME BatchCommit PROVE WorkerEffect
  <2>1. /\ StoreTypeOK /\ BatchTypeOK /\ TxFromBatch /\ TxStages
        /\ pc = "commit" /\ CommitTx(tx, runId) /\ runId' = runId
    BY <1>4 DEF BatchCommit, ConsumerInv, TypeOK, InHand
  <2>2. /\ runId \in DOMAIN runs /\ runs[runId] = NoRow
        /\ tx.run \in RunRow /\ tx.run.invalid = Cardinality(Invalid)
        /\ tx.errors = Refusals
    BY <1>4, <2>1, AtBatchCommit
  <2>3. Cardinality(tx.errors) = tx.run.invalid
    BY <2>1, <2>2, BatchCounts
  <2>4. ~ aborted /\ \A k \in Touched : tx.summaries[k] # NoRow
    BY <2>1 DEF TxStages, Stages
  <2>5. BatchRows
    BY <2>1, <2>2, <2>3, <2>4, CommitIsBatchRows
  <2> QED
    BY <2>1, <2>5 DEF WorkerEffect
<1>5. ASSUME RunCommit PROVE WorkerEffect
  <2>1. RunCompletes
    BY <1>5, AtRunCommit DEF RunCompletes
  <2> QED
    BY <2>1 DEF WorkerEffect
<1> QED
  BY <1>1, <1>2, <1>3, <1>4, <1>5, TableStep, RunIdStep

\* What another writer leaves of the run in hand.
LEMMA InHandBesideOthers ==
  ASSUME ConsumerInv, InHand, StoreTypeOK', OthersAdd, dlt \subseteq dlt',
         UNCHANGED <<pc, batch, run, runId, todo, tx, aborted, committed>>,
         \A k \in Keys : tx.summaries[k] # NoRow /\ ~ aborted =>
           (summaries'[k] # NoRow => tx.summaries[k].open = summaries'[k].open)
  PROVE  InHand'
<1>1. TxFromBatch' /\ TxStages'
  BY TxBesideOthers DEF ConsumerInv, TypeOK, InHand
<1>2. Invalid' = Invalid /\ Refusals' = Refusals /\ \A i : ErrorFor(i)' = ErrorFor(i)
  BY SameBatch DEF Refusals, ErrorFor
<1>3. TxBetween' /\ BatchIsNew'
  BY DEF InHand, TxBetween, BatchIsNew
<1>4. RunBetween'
  BY DEF InHand, RunBetween, OthersAdd
<1>5. DltFirst'
  BY <1>2 DEF InHand, DltFirst
<1> QED
  BY <1>1, <1>3, <1>4, <1>5 DEF InHand

-----------------------------------------------------------------------------
(* The theorems.                                                           *)

\* Initially the tables are empty and nothing is in hand.
LEMMA InitRows == Init => TInv
<1> SUFFICES ASSUME Init PROVE TInv
  OBVIOUS
<1>1. /\ pc = "stopped" /\ tx = EmptyTx /\ ~ aborted /\ dlt = {}
      /\ \A e \in EventIds : market[e] = NoRow
      /\ \A k \in Keys : summaries[k] = NoRow
      /\ errors = {} /\ DOMAIN runs = {}
  BY DEF Init, BatchInit, StoreInit
<1>2. /\ \A e \in EventIds : tx.market[e] = NoRow
      /\ \A k \in Keys : tx.summaries[k] = NoRow
      /\ tx.errors = {}
  BY <1>1 DEF EmptyTx
<1>3. TxFromBatch /\ TxStages /\ TxBetween /\ RunBetween /\ DltFirst /\ BatchIsNew
  BY <1>1, <1>2 DEF TxFromBatch, Loaded, TxStages, TxBetween, RunBetween, DltFirst,
     BatchIsNew, Stages
<1>4. RunsAreKept /\ RunRowsMatchTables /\ ErrorsReachDlt
  BY <1>1 DEF RunsAreKept, RunRowsMatchTables, ErrorsReachDlt
<1>5. SummariesMatchMarket /\ TradesFromLog
  BY <1>1 DEF SummariesMatchMarket, TradesFromLog
<1> QED
  BY <1>3, <1>4, <1>5 DEF TInv, InHand

\* Every step, and a step that changes nothing, preserves it.
LEMMA NextRows == IInv /\ TInv /\ [Next]_vars => TInv'
<1> SUFFICES ASSUME IInv, TInv, [Next]_vars PROVE TInv'
  OBVIOUS
<1>1. InHand'
  BY InHandStep, InvParts
<1>2. RunsAreKept' /\ RunRowsMatchTables' /\ ErrorsReachDlt'
  BY RunsAreKeptStep, RunRowsMatchTablesStep, ErrorsReachDltStep, InvParts
<1>3. SummariesMatchMarket' /\ TradesFromLog'
  BY SummariesStep
<1> QED
  BY <1>1, <1>2, <1>3 DEF TInv, InHand

\* IInv and TInv are invariants.
THEOREM RowInvariance == Spec => [](IInv /\ TInv)
<1>1. Init => IInv /\ TInv
  BY InitInv, InitRows
<1>2. IInv /\ TInv /\ [Next]_vars => IInv' /\ TInv'
  BY NextInv, NextRows
<1> QED
  BY <1>1, <1>2, PTL DEF Spec

\* The counters of a run's row are the numbers of the rows it stored and
\* refused, and a run without a row left none (orchestrator.py:62-104).
THEOREM RunRowsAreTrue == Spec => []RunRowsMatchTables
<1>1. IInv /\ TInv => RunRowsMatchTables
  BY DEF TInv
<1> QED
  BY RowInvariance, <1>1, PTL

\* No refusal is in the database that is not on the dead letter topic
\* (orchestrator.py:71-89).
THEOREM RefusalsAreOnDlt == Spec => []ErrorsReachDlt
<1>1. IInv /\ TInv => ErrorsReachDlt
  BY DEF TInv
<1> QED
  BY RowInvariance, <1>1, PTL

\* Stored records and summaries agree, whatever failed or was repeated
\* (orchestrator.py:96-105).
THEOREM SummariesAreTrue == Spec => []SummariesMatchMarket
<1>1. IInv /\ TInv => SummariesMatchMarket
  BY DEF TInv
<1> QED
  BY RowInvariance, <1>1, PTL

\* No step changes or removes a stored record, an open price or a refusal
\* (db_writer.py:68, 103).
THEOREM FirstWriteWins == Spec => RowsAreStable
<1> DEFINE Stable == /\ \A e \in EventIds : market[e] # NoRow => market'[e] = market[e]
                     /\ \A k \in Keys : summaries[k] # NoRow =>
                          /\ summaries'[k] # NoRow
                          /\ summaries'[k].open = summaries[k].open
                     /\ errors \subseteq errors'
<1>1. ASSUME IInv, TInv, [Next]_vars PROVE Stable
  <2>1. CASE UNCHANGED <<market, summaries, errors>>
    BY <2>1
  <2>2. CASE BatchCommit
    <3>1. ~ aborted /\ TxFromBatch
      BY <1>1, <2>2, InvParts DEF BatchCommit, InHand, TxStages, Stages
    <3> QED
      BY <1>1, <2>2, <3>1, CommitKeepsRows DEF BatchCommit, IInv, TypeOK
  <2> QED
    BY <1>1, <2>1, <2>2, TableStep, AtRunCommit, InvParts DEF NewRunStep, store
<1>2. IInv /\ TInv /\ [Next]_vars => [Stable]_vars
  BY <1>1
<1> QED
  BY RowInvariance, <1>2, PTL DEF Spec, RowsAreStable

\* A committed run row changes its status once and its counters never
\* (orchestrator.py:131-135).
THEOREM RunRowsStand == Spec => RunRowsSettle
<1> DEFINE Settles == \A r \in DOMAIN runs : runs[r] # NoRow /\ runs'[r] # runs[r] =>
                        /\ runs[r].status = "running"
                        /\ runs'[r] = [runs[r] EXCEPT !.status = "completed"]
<1>1. ASSUME IInv, TInv, [Next]_vars PROVE Settles
  <2>1. CASE runs' = runs
    BY <2>1
  <2>2. CASE NewRunStep
    <3>1. \A r \in DOMAIN runs : runs'[r] = runs[r]
      BY <1>1, <2>2 DEF NewRunStep, IInv, TypeOK, StoreTypeOK
    <3> QED
      BY <3>1
  <2>3. CASE BatchCommit
    <3>1. runs[runId] = NoRow /\ \A r \in DOMAIN runs \ {runId} : runs'[r] = runs[r]
      BY <1>1, <2>3, AtBatchCommit, CommitOfRun, InvParts
         DEF BatchCommit, IInv, TypeOK, TInv, InHand
    <3> QED
      BY <3>1
  <2>4. CASE RunCommit
    BY <1>1, <2>4, AtRunCommit, InvParts
  <2> QED
    BY <1>1, <2>1, <2>2, <2>3, <2>4, TableStep, InvParts DEF store
<1>2. IInv /\ TInv /\ [Next]_vars => [Settles]_vars
  BY <1>1
<1> QED
  BY RowInvariance, <1>2, PTL DEF Spec, RunRowsSettle

=============================================================================
