-------------------------- MODULE KafkaModeProofs --------------------------
(***************************************************************************)
(* Safety of KafkaMode for every topic, poll size, chunk size and number   *)
(* of restarts and rebalances.  IInv is inductive; the properties are      *)
(* conjuncts of it.                                                        *)
(***************************************************************************)
EXTENDS KafkaMode, BatchProofs

\* The part of IInv that other writers of the tables leave alone, and the part
\* that holds while every row is the consumer's.
ConsumerInv ==
  /\ TypeOK
  /\ StageInv
  /\ BatchFromLog
  /\ FetchedInBatch
  /\ BatchOutcome
  /\ NoSilentLoss

WindowInv == BatchInWindow /\ ReplayIsBounded

\* Together they are all of it.
LEMMA Parts == IInv <=> ConsumerInv /\ WindowInv
BY DEF IInv, ConsumerInv, WindowInv

\* Initially the tables are empty and nothing is in hand.
LEMMA InitInv == Init => IInv
<1> SUFFICES ASSUME Init PROVE IInv
  OBVIOUS
<1>1. log \in Logs /\ log \in Seq(LogEntry) /\ Len(log) \in Nat
  BY KafkaAssumption DEF Init
<1>2. StoreTypeOK
  BY DEF Init, StoreInit, StoreTypeOK
<1>3. BatchTypeOK
  <2>1. NewRun \in RunRow
    BY DEF NewRun, RunRow, Status
  <2>2. batch \in Seq(Message) /\ DOMAIN batch = {}
    BY DEF Init, BatchInit
  <2>3. runs = <<>> /\ runId = 0
    BY DEF Init, BatchInit, StoreInit
  <2>4. runId \in 0 .. Len(runs)
    BY <2>3
  <2> QED
    BY <2>1, <2>2, <2>4, EmptyTxType DEF Init, BatchInit, BatchTypeOK
<1>4. TypeOK
  BY <1>1, <1>2, <1>3, KafkaAssumption DEF Init, TypeOK, PCs
<1>5. DOMAIN batch = {} /\ tx = EmptyTx
  BY DEF Init, BatchInit
<1>6. StageInv /\ BatchFromLog /\ FetchedInBatch /\ BatchOutcome
  BY <1>5 DEF Init, BatchInit, StageInv, Stages, BatchFromLog, FetchedInBatch, BatchOutcome
<1>7. BatchInWindow
  BY <1>5 DEF Init, BatchInWindow, EmptyTx
<1>8. NoSilentLoss
  BY DEF Init, NoSilentLoss
<1>9. ReplayIsBounded
  BY DEF Init, StoreInit, BatchInit, ReplayIsBounded
<1> QED
  BY <1>4, <1>6, <1>7, <1>8, <1>9 DEF IInv

-----------------------------------------------------------------------------
(* Facts the steps share.                                                  *)

\* Arithmetic the steps need.
LEMMA Numbers ==
  ASSUME TypeOK
  PROVE  /\ Len(log) \in Nat /\ committed \in Nat /\ position \in Nat
         /\ MaxPollRecords \in Nat \ {0}
         /\ log \in Seq(LogEntry) /\ log \in [1 .. Len(log) -> LogEntry]
         /\ \A i \in DOMAIN batch : i \in Nat /\ batch[i] \in Message /\ batch[i].origin \in Nat
<1>1. log \in Seq(LogEntry)
  BY KafkaAssumption DEF TypeOK
<1>2. \A i \in DOMAIN batch : i \in Nat /\ batch[i] \in Message /\ batch[i].origin \in Nat
  BY PositionsType DEF TypeOK, Message
<1> QED
  BY <1>1, <1>2, KafkaAssumption DEF TypeOK

\* What is read of the topic is a message.
LEMMA MessageAtType ==
  ASSUME TypeOK, NEW o \in Offsets, log[o].fate # "undecodable"
  PROVE  MessageAt(o) \in Message /\ MessageAt(o).origin = o
<1>1. log[o] \in LogEntry /\ o \in Nat
  BY Numbers DEF Offsets
<1>2. Coherent(log[o])
  BY <1>1 DEF LogEntry
<1>3. Coherent(MessageAt(o))
  BY <1>2 DEF Coherent, MessageAt
<1>4. MessageAt(o) \in [origin : Nat, event_id : EventIds, key : Keys, time : Nat,
                        fate : Fates, volume : Volumes, barred : SUBSET Savers]
  BY <1>1 DEF MessageAt, LogEntry
<1> QED
  BY <1>3, <1>4 DEF Message, MessageAt

\* A recorded position settles the offset it came from.
LEMMA RecordedIsSettled ==
  ASSUME TypeOK, BatchFromLog, NEW i \in DOMAIN batch, Recorded(i)
  PROVE  Settled(batch[i].origin)
<1> DEFINE o == batch[i].origin
<1>1. batch[i].fate = log[o].fate /\ batch[i].event_id = log[o].event_id
  BY DEF BatchFromLog, MessageAt
<1> QED
  BY <1>1 DEF Recorded, Settled

\* What is settled stays settled while the tables only gain rows.
LEMMA SettledIsStable ==
  ASSUME TypeOK, log' = log, errors \subseteq errors',
         \A e \in EventIds : market[e] # NoRow => market'[e] # NoRow,
         NEW o \in Offsets, Settled(o)
  PROVE  Settled(o)'
<1>1. log[o].event_id \in EventIds
  BY Numbers DEF Offsets, LogEntry
<1> QED
  BY <1>1 DEF Settled

\* A commit adds rows, all of them from the transaction.
LEMMA CommitAddsRows ==
  ASSUME TypeOK, NEW id, CommitTx(tx, id)
  PROVE  /\ errors' = errors \cup tx.errors
         /\ \A e \in EventIds : market[e] # NoRow => market'[e] # NoRow
         /\ \A e \in EventIds : market'[e] = market[e] \/ market'[e] = tx.market[e]
BY DEF CommitTx, Overlay, TypeOK, StoreTypeOK

\* Tables that only gain rows, and no new acknowledgement, lose nothing.
LEMMA NoLossStep ==
  ASSUME TypeOK, NoSilentLoss, log' = log, committed' = committed,
         failed \subseteq failed', errors \subseteq errors',
         \A e \in EventIds : market[e] # NoRow => market'[e] # NoRow
  PROVE  NoSilentLoss'
<1>1. \A o \in 1 .. committed : o \in Offsets
  BY Numbers DEF TypeOK, Offsets
<1> QED
  BY <1>1, SettledIsStable DEF NoSilentLoss

\* Nothing in the tables leaves the window while commits bring in what the
\* transaction holds, and the window only moves forward.
LEMMA WindowStep ==
  ASSUME TypeOK, BatchInWindow, ReplayIsBounded,
         UNCHANGED store \/ \E id : CommitTx(tx, id),
         committed' \in Nat, committed <= committed',
         \A x \in dlt' : x \in dlt \/ \E i \in DOMAIN batch : x.origin = batch[i].origin,
         failed' \subseteq failed \cup {batch[i].origin : i \in DOMAIN batch},
         BatchFromLog
  PROVE  ReplayIsBounded'
<1>1. \A n \in 1 .. committed + MaxPollRecords : n \in 1 .. committed' + MaxPollRecords
  BY Numbers
<1>2. \A i \in DOMAIN batch : batch[i].origin \in 1 .. committed + MaxPollRecords
  BY Numbers DEF BatchFromLog, Offsets, BatchInWindow
<1>3. \A x \in errors' : x.origin \in 1 .. committed + MaxPollRecords
  BY CommitAddsRows DEF BatchInWindow, ReplayIsBounded, store
<1>4. \A e \in EventIds : market'[e] # NoRow =>
        market'[e].origin \in 1 .. committed + MaxPollRecords
  BY CommitAddsRows DEF BatchInWindow, ReplayIsBounded, store
<1>5. \A x \in dlt' : x.origin \in 1 .. committed + MaxPollRecords
  BY <1>2 DEF ReplayIsBounded
<1>6. \A o \in failed' : o \in 1 .. committed + MaxPollRecords
  BY <1>2 DEF ReplayIsBounded
<1> QED
  BY <1>1, <1>3, <1>4, <1>5, <1>6 DEF ReplayIsBounded

-----------------------------------------------------------------------------
(* One lemma for each group of actions.                                    *)

\* Starting, or failing to, resumes after the committed offset.
LEMMA StartSteps ==
  ASSUME ConsumerInv, Start \/ StartFails
  PROVE  ConsumerInv' /\ (WindowInv => WindowInv')
<1> USE DEF ConsumerInv, WindowInv
<1>1. /\ UNCHANGED <<store, batch, run, runId, todo, tx, aborted, dlt>>
      /\ UNCHANGED <<log, committed, failed, restarts, rebalances>>
      /\ pc = "stopped" /\ pc' \in {"poll", "dead"}
      /\ position' \in {position, committed}
      /\ pc' = "poll" => position' = committed
  BY DEF Start, StartFails, kafkaVars
<1>2. TypeOK'
  BY <1>1 DEF TypeOK, StoreTypeOK, store, BatchTypeOK, Parsed, WithFate, PCs, Offsets
<1>3. StageInv' /\ BatchFromLog' /\ BatchOutcome'
      /\ (BatchInWindow => BatchInWindow')
  BY <1>1 DEF StageInv, Stages, BatchFromLog, Offsets, MessageAt, BatchOutcome, BatchInWindow
<1>4. FetchedInBatch'
  BY <1>1, Numbers DEF FetchedInBatch
<1>5. NoSilentLoss'
  BY <1>1, NoLossStep DEF store
<1>6. WindowInv => ReplayIsBounded'
  BY <1>1, Numbers, WindowStep
<1> QED
  BY <1>2, <1>3, <1>4, <1>5, <1>6

\* A task that ends leaves everything as it was but, perhaps, the commit.
LEMMA IteratorRaisesStep ==
  ASSUME ConsumerInv, GetOneFails \/ DecodeRaises
  PROVE  ConsumerInv' /\ (WindowInv => WindowInv')
<1> USE DEF ConsumerInv, WindowInv
<1>1. /\ UNCHANGED <<store, batch, run, runId, todo, tx, aborted, dlt, kafkaVars>>
      /\ pc' = "dead"
  BY DEF GetOneFails, DecodeRaises
<1>2. TypeOK'
  BY <1>1 DEF TypeOK, StoreTypeOK, store, BatchTypeOK, Parsed, WithFate, PCs, Offsets, kafkaVars
<1>3. StageInv' /\ BatchFromLog' /\ BatchOutcome' /\ FetchedInBatch'
      /\ (BatchInWindow => BatchInWindow')
  BY <1>1 DEF StageInv, Stages, BatchFromLog, Offsets, MessageAt, BatchOutcome,
     BatchInWindow, FetchedInBatch, kafkaVars
<1>4. NoSilentLoss'
  BY <1>1, NoLossStep DEF store, kafkaVars
<1>5. WindowInv => ReplayIsBounded'
  BY <1>1, Numbers, WindowStep DEF kafkaVars
<1> QED
  BY <1>2, <1>3, <1>4, <1>5

\* The first message of a batch is the one after the committed offset.
LEMMA GetOneStep ==
  ASSUME ConsumerInv, GetOne
  PROVE  ConsumerInv' /\ (WindowInv => WindowInv')
<1> USE DEF ConsumerInv, WindowInv
<1>1. /\ UNCHANGED <<store, run, runId, todo, tx, aborted, dlt>>
      /\ UNCHANGED <<log, committed, failed, restarts, rebalances>>
      /\ pc = "poll" /\ pc' = "drain" /\ position < Len(log)
      /\ position' = position + 1 /\ batch' = <<MessageAt(position + 1)>>
      /\ log[position + 1].fate # "undecodable"
  BY DEF GetOne, Decodable
<1>2. position + 1 \in Offsets /\ position = committed /\ todo = {}
  <2>1. batch = <<>> /\ committed <= position
    BY <1>1 DEF FetchedInBatch
  <2>2. \A o \in committed + 1 .. position : FALSE
    BY <1>1, <2>1 DEF FetchedInBatch
  <2>3. position = committed
    BY <2>1, <2>2, Numbers
  <2>4. todo \subseteq DOMAIN batch /\ DOMAIN batch = {}
    BY <2>1, PositionsType DEF TypeOK, BatchTypeOK
  <2> QED
    BY <1>1, <2>3, <2>4, Numbers DEF Offsets
<1>3. MessageAt(position + 1) \in Message
  BY <1>1, <1>2, MessageAtType
<1>4. batch' \in Seq(Message) /\ DOMAIN batch' = {1} /\ batch'[1] = MessageAt(position + 1)
  BY <1>1, <1>3
<1>5. TypeOK'
  <2>1. StoreTypeOK'
    BY <1>1 DEF TypeOK, StoreTypeOK, store
  <2>2. BatchTypeOK'
    BY <1>1, <1>2, <1>4 DEF TypeOK, BatchTypeOK, store
  <2>3. position' \in 0 .. Len(log)
    BY <1>1, Numbers
  <2> QED
    BY <1>1, <2>1, <2>2, <2>3 DEF TypeOK, PCs, Offsets
<1>6. StageInv' /\ BatchOutcome'
  BY <1>1 DEF StageInv, Stages, BatchOutcome
<1>7. batch'[1].origin = position + 1
  BY <1>4 DEF MessageAt
<1>8. BatchFromLog'
  <2>1. Offsets' = Offsets
    BY <1>1 DEF Offsets
  <2>2. batch'[1].origin \in Offsets'
    BY <1>2, <1>7, <2>1
  <2>3. (batch[1] = MessageAt(batch[1].origin))'
    BY <1>1, <1>4, <1>7 DEF MessageAt
  <2> QED
    BY <1>4, <2>2, <2>3 DEF BatchFromLog
<1>9. FetchedInBatch'
  <2>1. committed' <= position'
    BY <1>1, <1>2, Numbers
  <2>2. \A o \in committed' + 1 .. position' : o = batch'[1].origin
    BY <1>1, <1>2, <1>7, Numbers
  <2> QED
    BY <1>1, <1>4, <2>1, <2>2 DEF FetchedInBatch
<1>10. BatchInWindow => BatchInWindow'
  <2> SUFFICES ASSUME BatchInWindow PROVE BatchInWindow'
    OBVIOUS
  <2>1. \A i \in DOMAIN batch' : batch'[i].origin <= committed' + MaxPollRecords
    BY <1>1, <1>2, <1>4, <1>7, Numbers
  <2>2. position' <= committed' + 1
    BY <1>1, <1>2, Numbers
  <2> QED
    BY <1>1, <2>1, <2>2 DEF BatchInWindow
<1>11. NoSilentLoss'
  BY <1>1, NoLossStep DEF store
<1>12. WindowInv => ReplayIsBounded'
  BY <1>1, Numbers, WindowStep
<1> QED
  BY <1>5, <1>6, <1>8, <1>9, <1>10, <1>11, <1>12

\* The rest of the batch follows it on the topic, unless a rebalance came in
\* between, when it starts again after the committed offset.
LEMMA GetManyStep ==
  ASSUME ConsumerInv, GetMany
  PROVE  ConsumerInv' /\ (WindowInv => WindowInv')
<1> USE DEF ConsumerInv, WindowInv
<1>1. PICK n \in Drainable :
        /\ Decodable(position + 1 .. position + n)
        /\ batch' = batch \o [i \in 1 .. n |-> MessageAt(position + i)]
        /\ position' = position + n
  BY DEF GetMany
<1>2. /\ UNCHANGED <<market, summaries, errors, todo, tx, aborted, dlt>>
      /\ UNCHANGED <<log, committed, failed, restarts, rebalances>>
      /\ pc = "drain" /\ pc' = "clean"
      /\ runs' = Append(runs, NoRow) /\ run' = NewRun /\ runId' = Len(runs) + 1
  BY DEF GetMany
<1>3. n \in 0 .. MaxPollRecords - 1 /\ n \in Nat /\ position + n <= Len(log)
  BY <1>1, Numbers DEF Drainable
<1> DEFINE rest == [i \in 1 .. n |-> MessageAt(position + i)]
<1>4. \A i \in 1 .. n : position + i \in Offsets /\ MessageAt(position + i) \in Message
                         /\ MessageAt(position + i).origin = position + i
  <2>1. TAKE i \in 1 .. n
  <2>2. position + i \in Offsets /\ position + i \in position + 1 .. position + n
    BY <1>3, Numbers DEF Offsets
  <2>3. log[position + i].fate # "undecodable"
    BY <1>1, <2>2 DEF Decodable
  <2> QED
    BY <2>2, <2>3, MessageAtType
<1>5. rest \in Seq(Message) /\ Len(rest) = n
  <2>1. rest \in [1 .. n -> Message]
    BY <1>4
  <2> QED
    BY <2>1, <1>3
<1> HIDE DEF rest
<1>6. /\ batch \in Seq(Message) /\ batch' = batch \o rest
      /\ batch' \in Seq(Message)
      /\ Len(batch') = Len(batch) + n
      /\ \A i \in 1 .. Len(batch) + n : batch'[i] =
           IF i <= Len(batch) THEN batch[i] ELSE rest[i - Len(batch)]
  <2>1. batch \in Seq(Message)
    BY DEF TypeOK, BatchTypeOK
  <2>2. batch' = batch \o rest
    BY <1>1 DEF rest
  <2> QED
    BY <2>1, <2>2, <1>5, ConcatProperties
<1>7. Len(batch) \in Nat /\ DOMAIN batch = 1 .. Len(batch) /\ DOMAIN batch' = 1 .. Len(batch) + n
  BY <1>6, LenProperties
<1>8. \A i \in DOMAIN batch' :
        \/ i \in DOMAIN batch /\ batch'[i] = batch[i]
        \/ \E j \in 1 .. n : batch'[i] = MessageAt(position + j)
  <2>1. TAKE i \in DOMAIN batch'
  <2>2. CASE i <= Len(batch)
    BY <1>6, <1>7, <2>2
  <2>3. CASE ~ (i <= Len(batch))
    <3>1. i - Len(batch) \in 1 .. n
      BY <1>3, <1>7, <2>3
    <3> QED
      BY <1>6, <1>7, <2>3, <3>1 DEF rest
  <2> QED
    BY <2>2, <2>3
<1>9. /\ \A i \in DOMAIN batch : i \in DOMAIN batch' /\ batch'[i] = batch[i]
      /\ \A j \in 1 .. n : \E i \in DOMAIN batch' : batch'[i] = MessageAt(position + j)
  <2>1. ASSUME NEW i \in DOMAIN batch PROVE i \in DOMAIN batch' /\ batch'[i] = batch[i]
    BY <1>3, <1>6, <1>7
  <2>2. ASSUME NEW j \in 1 .. n
        PROVE  \E i \in DOMAIN batch' : batch'[i] = MessageAt(position + j)
    <3>1. Len(batch) + j \in DOMAIN batch' /\ ~ (Len(batch) + j <= Len(batch))
          /\ (Len(batch) + j) - Len(batch) = j
      BY <1>3, <1>7
    <3>2. batch'[Len(batch) + j] = rest[j]
      BY <1>6, <1>7, <3>1
    <3> QED
      BY <3>1, <3>2 DEF rest
  <2> QED
    BY <2>1, <2>2
<1>10. BatchTypeOK'
  <2>1. Len(runs) \in Nat /\ Len(runs') = Len(runs) + 1 /\ runs' \in Seq(RunRow \cup {NoRow})
    BY <1>2 DEF TypeOK, StoreTypeOK
  <2>2. runId' \in 0 .. Len(runs')
    BY <1>2, <2>1
  <2>3. NewRun \in RunRow
    BY DEF NewRun, RunRow, Status
  <2>4. Parsed \subseteq Parsed'
    BY <1>9 DEF Parsed, WithFate
  <2> QED
    BY <1>2, <1>6, <2>2, <2>3, <2>4 DEF TypeOK, BatchTypeOK
<1>11. TypeOK'
  <2>1. StoreTypeOK'
    BY <1>2 DEF TypeOK, StoreTypeOK
  <2>2. position' \in 0 .. Len(log)
    BY <1>1, <1>3, Numbers
  <2> QED
    BY <1>2, <1>10, <2>1, <2>2 DEF TypeOK, PCs, Stages, Offsets
<1>12. StageInv' /\ BatchOutcome'
  BY <1>2 DEF StageInv, Stages, BatchOutcome
<1>13. BatchFromLog'
  BY <1>2, <1>4, <1>8 DEF BatchFromLog, Offsets, MessageAt
<1>14. FetchedInBatch'
  <2>1. committed' <= position'
    BY <1>1, <1>2, <1>3, Numbers DEF FetchedInBatch
  <2>2. ASSUME NEW o \in committed' + 1 .. position'
        PROVE  \E i \in DOMAIN batch' : batch'[i].origin = o
    <3>1. CASE o <= position
      <4>1. o \in committed + 1 .. position
        BY <1>2, <2>2, <3>1, Numbers
      <4>2. PICK i \in DOMAIN batch : batch[i].origin = o
        BY <1>2, <4>1 DEF FetchedInBatch
      <4> QED
        BY <4>2, <1>9
    <3>2. CASE ~ (o <= position)
      <4>0. o \in Int /\ o <= position + n /\ position \in Nat /\ n \in Nat
        BY <1>1, <1>2, <1>3, <2>2, Numbers
      <4>1. o - position \in 1 .. n /\ position + (o - position) = o
        BY <3>2, <4>0
      <4> QED
        BY <4>1, <1>4, <1>9
    <3> QED
      BY <3>1, <3>2
  <2> QED
    BY <1>2, <2>1, <2>2 DEF FetchedInBatch
<1>15. BatchInWindow => BatchInWindow'
  <2> SUFFICES ASSUME BatchInWindow PROVE BatchInWindow'
    OBVIOUS
  <2>1. ASSUME NEW i \in DOMAIN batch'
        PROVE  batch'[i].origin <= committed' + MaxPollRecords
    <3>1. CASE i \in DOMAIN batch /\ batch'[i] = batch[i]
      BY <1>2, <3>1 DEF BatchInWindow
    <3>2. ASSUME NEW j \in 1 .. n, batch'[i] = MessageAt(position + j)
          PROVE  batch'[i].origin <= committed' + MaxPollRecords
      <4>1. batch'[i].origin = position + j
        BY <1>4, <3>2
      <4>2. position <= committed + 1
        BY <1>2 DEF BatchInWindow
      <4> QED
        BY <1>2, <1>3, <4>1, <4>2, Numbers
    <3> QED
      BY <1>8, <3>1, <3>2
  <2> QED
    BY <1>2, <2>1 DEF BatchInWindow
<1>16. NoSilentLoss'
  BY <1>2, NoLossStep
<1>17. WindowInv => ReplayIsBounded'
  BY <1>2 DEF ReplayIsBounded
<1> QED
  BY <1>11, <1>12, <1>13, <1>14, <1>15, <1>16, <1>17

\* A stage of _process_batch.
LEMMA ProcessSteps ==
  ASSUME ConsumerInv, Process
  PROVE  ConsumerInv' /\ (WindowInv => WindowInv')
<1> USE DEF ConsumerInv, WindowInv
<1>1. /\ pc \in Stages /\ ProcessStep(TRUE) /\ StoreTypeOK /\ BatchTypeOK
      /\ UNCHANGED <<log, committed, position, failed, restarts, rebalances>>
  BY DEF Process, kafkaVars, TypeOK
<1>2. /\ StoreTypeOK' /\ BatchTypeOK' /\ runId' = runId /\ batch' = batch
  BY <1>1, ProcessStepType
<1>3. /\ pc' \in (Stages \ {"clean"}) \cup {"processed", "except"}
      /\ UNCHANGED store \/ CommitTx(tx, runId)
      /\ pc' = "processed" => pc = "commit" /\ CommitTx(tx, runId)
      /\ \A x \in dlt' : x \in dlt \/ \E i \in DOMAIN batch : x.origin = batch[i].origin
      /\ \A x \in tx'.errors :
           x \in tx.errors \/ \E i \in DOMAIN batch : x.origin = batch[i].origin
      /\ \A e \in EventIds : \/ tx'.market[e] = tx.market[e]
                             \/ tx'.market[e] = NoRow
                             \/ \E i \in DOMAIN batch : tx'.market[e] = RowOf(i)
  BY <1>1, ProcessStepEffect
<1>4. TypeOK'
  BY <1>1, <1>2, <1>3 DEF TypeOK, PCs, Offsets
<1>5. StageInv'
  BY <1>1, StageInvStep
<1>6. BatchFromLog'
  BY <1>1, <1>2 DEF BatchFromLog, Offsets, MessageAt
<1>7. FetchedInBatch'
  BY <1>1, <1>2, <1>3 DEF FetchedInBatch, Stages
<1>8. BatchOutcome'
  <2>1. pc' = "processed" => \A i \in DOMAIN batch' : Recorded(i)'
    BY <1>1, <1>2, <1>3, CommitRecords
  <2> QED
    BY <1>3, <2>1 DEF BatchOutcome, Stages
<1>9. BatchInWindow => BatchInWindow'
  <2> SUFFICES ASSUME BatchInWindow PROVE BatchInWindow'
    OBVIOUS
  <2>1. \A i \in DOMAIN batch : batch[i].origin \in 1 .. committed + MaxPollRecords
    BY Numbers DEF BatchFromLog, Offsets, BatchInWindow
  <2>2. \A x \in tx'.errors : x.origin \in 1 .. committed + MaxPollRecords
    BY <1>3, <2>1 DEF BatchInWindow
  <2>3. \A i \in DOMAIN batch : RowOf(i).origin = batch[i].origin
    BY DEF RowOf
  <2>4. ASSUME NEW e \in EventIds, tx'.market[e] # NoRow
        PROVE  tx'.market[e].origin \in 1 .. committed + MaxPollRecords
    <3>1. CASE tx'.market[e] = tx.market[e]
      BY <2>4, <3>1 DEF BatchInWindow
    <3>2. CASE \E i \in DOMAIN batch : tx'.market[e] = RowOf(i)
      BY <2>1, <2>3, <3>2
    <3> QED
      BY <1>3, <2>4, <3>1, <3>2
  <2> QED
    BY <1>1, <1>2, <1>3, <2>2, <2>4 DEF BatchInWindow, Stages
<1>10. NoSilentLoss'
  BY <1>1, <1>3, CommitAddsRows, NoLossStep DEF store
<1>11. WindowInv => ReplayIsBounded'
  BY <1>1, <1>3, Numbers, WindowStep
<1> QED
  BY <1>4, <1>5, <1>6, <1>7, <1>8, <1>9, <1>10, <1>11

\* After _process_batch: completing the run, or failing to.
LEMMA CompletionSteps ==
  ASSUME ConsumerInv, Complete \/ SaveCompleted \/ CommitCompleted \/ CompletionFails
  PROVE  ConsumerInv' /\ (WindowInv => WindowInv')
<1> USE DEF ConsumerInv, WindowInv
<1>1. /\ UNCHANGED <<batch, runId, todo, dlt>>
      /\ UNCHANGED <<log, committed, position, failed, restarts, rebalances>>
      /\ pc \in {"processed", "saveagain", "commitagain"}
      /\ pc' \in {"saveagain", "commitagain", "ack", "except"}
      /\ UNCHANGED store \/ CommitTx(tx, runId)
      /\ tx' \in {tx, SaveRun(tx, run), EmptyTx}
      /\ run' \in {run, [run EXCEPT !.status = "completed"]}
      /\ aborted' \in {aborted, TRUE}
  BY DEF Complete, SaveCompleted, CommitCompleted, CompletionFails, kafkaVars
<1>2. /\ StoreTypeOK /\ tx \in TxType /\ run \in RunRow /\ runId \in 0 .. Len(runs)
  BY DEF TypeOK, BatchTypeOK
<1>3. /\ SaveRun(tx, run) \in TxType
      /\ SaveRun(tx, run).errors = tx.errors /\ SaveRun(tx, run).market = tx.market
      /\ EmptyTx.errors = {} /\ \A e \in EventIds : EmptyTx.market[e] = NoRow
      /\ [run EXCEPT !.status = "completed"] \in RunRow
  BY <1>2 DEF SaveRun, TxType, EmptyTx, RunRow, Status
<1>4. /\ tx' \in TxType /\ run' \in RunRow
      /\ tx'.errors \subseteq tx.errors
      /\ \A e \in EventIds : tx'.market[e] \in {tx.market[e], NoRow}
  BY <1>1, <1>2, <1>3, EmptyTxType
<1>5. StoreTypeOK' /\ Len(runs') = Len(runs)
  <2>1. CASE UNCHANGED store
    BY <2>1, <1>2 DEF store, StoreTypeOK
  <2>2. CASE CommitTx(tx, runId)
    BY <2>2, <1>2, CommitTxType
  <2> QED
    BY <1>1, <2>1, <2>2
<1>6. TypeOK'
  <2>1. BatchTypeOK'
    BY <1>1, <1>4, <1>5 DEF TypeOK, BatchTypeOK, Parsed, WithFate
  <2> QED
    BY <1>1, <1>5, <2>1 DEF TypeOK, PCs, Offsets
<1>7. StageInv' /\ BatchFromLog'
  BY <1>1 DEF StageInv, Stages, BatchFromLog, Offsets, MessageAt
<1>8. FetchedInBatch'
  BY <1>1 DEF FetchedInBatch
<1>9. BatchOutcome'
  <2>1. ASSUME NEW i \in DOMAIN batch PROVE Recorded(i)'
    <3>1. Recorded(i) /\ batch[i].event_id \in EventIds
      BY <1>1, Numbers DEF BatchOutcome, Message
    <3>2. /\ errors \subseteq errors'
          /\ \A e \in EventIds : market[e] # NoRow => market'[e] # NoRow
      BY <1>1, CommitAddsRows DEF store
    <3> QED
      BY <1>1, <3>1, <3>2 DEF Recorded
  <2> QED
    BY <1>1, <2>1 DEF BatchOutcome
<1>10. BatchInWindow => BatchInWindow'
  BY <1>1, <1>4 DEF BatchInWindow
<1>11. NoSilentLoss'
  BY <1>1, CommitAddsRows, NoLossStep DEF store
<1>12. WindowInv => ReplayIsBounded'
  BY <1>1, Numbers, WindowStep
<1> QED
  BY <1>6, <1>7, <1>8, <1>9, <1>10, <1>11, <1>12

\* The except branch: the batch is reported and left to be acknowledged.
LEMMA HandleFailureStep ==
  ASSUME ConsumerInv, HandleFailure
  PROVE  ConsumerInv' /\ (WindowInv => WindowInv')
<1> USE DEF ConsumerInv, WindowInv
<1>1. /\ UNCHANGED <<store, batch, runId, todo, dlt>>
      /\ UNCHANGED <<log, committed, position, restarts, rebalances>>
      /\ pc = "except" /\ pc' = "ack" /\ tx' = EmptyTx /\ aborted' = FALSE
      /\ run' = [run EXCEPT !.status = "failed"]
      /\ failed' = failed \cup {batch[i].origin : i \in DOMAIN batch}
  BY DEF HandleFailure
<1>2. TypeOK'
  <2>1. run' \in RunRow
    BY <1>1 DEF TypeOK, BatchTypeOK, RunRow, Status
  <2>2. failed' \in SUBSET Offsets
    BY <1>1 DEF TypeOK, BatchFromLog
  <2> QED
    BY <1>1, <2>1, <2>2, EmptyTxType
       DEF TypeOK, StoreTypeOK, store, BatchTypeOK, Parsed, WithFate, PCs, Offsets
<1>3. StageInv' /\ BatchFromLog' /\ FetchedInBatch' /\ BatchOutcome'
  BY <1>1 DEF StageInv, Stages, BatchFromLog, Offsets, MessageAt, FetchedInBatch, BatchOutcome
<1>4. BatchInWindow => BatchInWindow'
  BY <1>1 DEF BatchInWindow, EmptyTx
<1>5. NoSilentLoss'
  BY <1>1, NoLossStep DEF store
<1>6. WindowInv => ReplayIsBounded'
  BY <1>1, Numbers, WindowStep
<1> QED
  BY <1>2, <1>3, <1>4, <1>5, <1>6

\* The acknowledgement: every offset it covers was acknowledged before, or is
\* in the batch and so recorded or reported.
LEMMA AckSteps ==
  ASSUME ConsumerInv, Ack \/ AckFails
  PROVE  ConsumerInv' /\ (WindowInv => WindowInv')
<1> USE DEF ConsumerInv, WindowInv
<1>1. /\ UNCHANGED <<store, run, runId, tx, aborted, dlt>>
      /\ UNCHANGED <<log, position, failed, restarts>>
      /\ rebalances' \in 0 .. MaxRebalances
      /\ pc = "ack" /\ committed' \in {committed, position}
      /\ \/ pc' = "poll" /\ batch' = <<>> /\ todo' = {} /\ committed' = position
         \/ pc' = "dead" /\ UNCHANGED <<batch, todo>>
  BY KafkaAssumption DEF Ack, AckFails, TypeOK
<1>2. committed <= position /\ committed <= committed' /\ committed' \in 0 .. Len(log)
  BY <1>1, Numbers DEF FetchedInBatch, TypeOK
<1>3. TypeOK'
  <2>1. BatchTypeOK'
    <3>1. CASE batch' = <<>> /\ todo' = {}
      BY <1>1, <3>1 DEF TypeOK, BatchTypeOK, store
    <3>2. CASE UNCHANGED <<batch, todo>>
      BY <1>1, <3>2 DEF TypeOK, BatchTypeOK, Parsed, WithFate, store
    <3> QED
      BY <1>1, <3>1, <3>2
  <2> QED
    BY <1>1, <1>2, <2>1 DEF TypeOK, StoreTypeOK, store, PCs, Offsets
<1>4. StageInv' /\ BatchOutcome'
  BY <1>1 DEF StageInv, Stages, BatchOutcome
<1>5. BatchFromLog'
  BY <1>1 DEF BatchFromLog, Offsets, MessageAt
<1>6. FetchedInBatch'
  BY <1>1, Numbers DEF FetchedInBatch
<1>7. BatchInWindow => BatchInWindow'
  <2> SUFFICES ASSUME BatchInWindow PROVE BatchInWindow'
    OBVIOUS
  <2>1. \A n : n \in 1 .. committed + MaxPollRecords => n \in 1 .. committed' + MaxPollRecords
    BY <1>1, <1>2, Numbers
  <2>2. \A i \in DOMAIN batch' : batch'[i].origin <= committed' + MaxPollRecords
    BY <1>1, <1>2, Numbers DEF BatchInWindow
  <2> QED
    BY <1>1, <2>1, <2>2 DEF BatchInWindow
<1>8. NoSilentLoss'
  <2>1. ASSUME NEW o \in 1 .. position PROVE Settled(o) \/ o \in failed
    <3>1. CASE o \in 1 .. committed
      BY <3>1 DEF NoSilentLoss
    <3>2. CASE o \in committed + 1 .. position
      <4>1. PICK i \in DOMAIN batch : batch[i].origin = o
        BY <1>1, <3>2 DEF FetchedInBatch
      <4>2. Recorded(i) \/ o \in failed
        BY <1>1, <4>1 DEF BatchOutcome
      <4> QED
        BY <4>1, <4>2, RecordedIsSettled
    <3> QED
      BY <1>2, <3>1, <3>2, Numbers
  <2>2. \A o : Settled(o)' = Settled(o)
    BY <1>1 DEF Settled, store
  <2>3. \A o \in 1 .. committed' : o \in 1 .. position
    BY <1>1, <1>2, Numbers
  <2> QED
    BY <1>1, <2>1, <2>2, <2>3 DEF NoSilentLoss
<1>9. WindowInv => ReplayIsBounded'
  BY <1>1, <1>2, Numbers, WindowStep
<1> QED
  BY <1>3, <1>4, <1>5, <1>6, <1>7, <1>8, <1>9

\* A rebalance moves the position back and touches nothing else.
LEMMA RebalanceStep ==
  ASSUME ConsumerInv, Rebalance
  PROVE  ConsumerInv' /\ (WindowInv => WindowInv')
<1> USE DEF ConsumerInv, WindowInv
<1>1. /\ UNCHANGED <<store, pc, batch, run, runId, todo, tx, aborted, dlt>>
      /\ UNCHANGED <<log, committed, failed, restarts>>
      /\ position' = committed /\ rebalances' = rebalances + 1
      /\ rebalances < MaxRebalances
  BY DEF Rebalance, batchVars
<1>2. TypeOK'
  <2>1. rebalances' \in 0 .. MaxRebalances
    BY <1>1, KafkaAssumption DEF TypeOK
  <2> QED
    BY <1>1, <2>1 DEF TypeOK, StoreTypeOK, store, BatchTypeOK, Parsed, WithFate, Offsets
<1>3. StageInv'
  BY <1>1, SameBatch DEF StageInv, ErrorFor, Accepted, Overlay, store
<1>4. BatchFromLog'
  BY <1>1 DEF BatchFromLog, Offsets, MessageAt
<1>5. FetchedInBatch'
  BY <1>1, Numbers DEF FetchedInBatch
<1>6. BatchOutcome'
  BY <1>1 DEF BatchOutcome, Recorded, store
<1>7. BatchInWindow => BatchInWindow'
  BY <1>1, Numbers DEF BatchInWindow
<1>8. NoSilentLoss'
  BY <1>1, NoLossStep DEF store
<1>9. WindowInv => ReplayIsBounded'
  BY <1>1, Numbers, WindowStep
<1> QED
  BY <1>2, <1>3, <1>4, <1>5, <1>6, <1>7, <1>8, <1>9

\* A crash leaves the tables, the topics and the committed offset.
LEMMA CrashStep ==
  ASSUME ConsumerInv, Crash
  PROVE  ConsumerInv' /\ (WindowInv => WindowInv')
<1> USE DEF ConsumerInv, WindowInv
<1>1. /\ UNCHANGED <<store, dlt, log, committed, failed, rebalances>>
      /\ batch' = <<>> /\ run' = NewRun /\ runId' = 0 /\ todo' = {}
      /\ tx' = EmptyTx /\ aborted' = FALSE /\ pc' = "stopped" /\ position' = 0
      /\ restarts < MaxRestarts /\ restarts' = restarts + 1
  BY DEF Crash
<1>2. DOMAIN batch' = {} /\ batch' \in Seq(Message)
  BY <1>1
<1>3. TypeOK'
  <2>1. restarts' \in 0 .. MaxRestarts
    BY <1>1, KafkaAssumption DEF TypeOK
  <2>2. NewRun \in RunRow
    BY DEF NewRun, RunRow, Status
  <2>3. Len(runs) \in Nat /\ 0 \in 0 .. Len(runs)
    BY DEF TypeOK, StoreTypeOK
  <2>4. BatchTypeOK'
    BY <1>1, <1>2, <2>2, <2>3, EmptyTxType DEF TypeOK, BatchTypeOK, store
  <2> QED
    BY <1>1, <2>1, <2>4, Numbers DEF TypeOK, StoreTypeOK, store, PCs, Offsets
<1>4. StageInv' /\ BatchFromLog' /\ FetchedInBatch' /\ BatchOutcome'
      /\ (BatchInWindow => BatchInWindow')
  BY <1>1, <1>2 DEF StageInv, Stages, BatchFromLog, FetchedInBatch, BatchOutcome,
     BatchInWindow, EmptyTx
<1>5. NoSilentLoss'
  BY <1>1, NoLossStep DEF store
<1>6. WindowInv => ReplayIsBounded'
  BY <1>1 DEF ReplayIsBounded, store
<1> QED
  BY <1>3, <1>4, <1>5, <1>6

-----------------------------------------------------------------------------
(* The theorems.                                                           *)

\* Every step, and a step that changes nothing, preserves the invariant, the
\* part without the window by itself.
LEMMA ConsumerNext ==
  ASSUME ConsumerInv, [Next]_vars
  PROVE  ConsumerInv' /\ (WindowInv => WindowInv')
<1>1. CASE Start \/ StartFails
  BY <1>1, StartSteps
<1>2. CASE GetOne
  BY <1>2, GetOneStep
<1>3. CASE GetMany
  BY <1>3, GetManyStep
<1>4. CASE GetOneFails \/ DecodeRaises
  BY <1>4, IteratorRaisesStep
<1>5. CASE Process
  BY <1>5, ProcessSteps
<1>6. CASE Complete \/ SaveCompleted \/ CommitCompleted \/ CompletionFails
  BY <1>6, CompletionSteps
<1>7. CASE HandleFailure
  BY <1>7, HandleFailureStep
<1>8. CASE Ack \/ AckFails
  BY <1>8, AckSteps
<1>9. CASE Rebalance
  BY <1>9, RebalanceStep
<1>10. CASE Crash
  BY <1>10, CrashStep
<1>11. CASE UNCHANGED vars
  <2>1. /\ UNCHANGED <<store, pc, batch, run, runId, todo, tx, aborted, dlt>>
        /\ UNCHANGED <<log, committed, position, failed, restarts, rebalances>>
    BY <1>11 DEF vars, batchVars, kafkaVars
  <2>2. TypeOK'
    BY <2>1 DEF ConsumerInv, TypeOK, StoreTypeOK, store, BatchTypeOK, Parsed, WithFate, Offsets
  <2>3. StageInv'
    BY <2>1, SameBatch DEF ConsumerInv, StageInv, ErrorFor, Accepted, Overlay, store
  <2>4. BatchFromLog' /\ FetchedInBatch' /\ (BatchInWindow => BatchInWindow')
    BY <2>1 DEF ConsumerInv, BatchFromLog, Offsets, MessageAt, FetchedInBatch, BatchInWindow
  <2>5. BatchOutcome'
    BY <2>1 DEF ConsumerInv, BatchOutcome, Recorded, store
  <2>6. NoSilentLoss'
    BY <2>1, NoLossStep DEF ConsumerInv, store
  <2>7. WindowInv => ReplayIsBounded'
    BY <2>1 DEF WindowInv, ReplayIsBounded, store
  <2> QED
    BY <2>2, <2>3, <2>4, <2>5, <2>6, <2>7 DEF ConsumerInv, WindowInv
<1> QED
  BY <1>1, <1>2, <1>3, <1>4, <1>5, <1>6, <1>7, <1>8, <1>9, <1>10, <1>11
     DEF Next, Consume

\* So the whole of it is inductive.
LEMMA NextInv == IInv /\ [Next]_vars => IInv'
<1> SUFFICES ASSUME IInv, [Next]_vars PROVE IInv'
  OBVIOUS
<1>1. ConsumerInv' /\ WindowInv'
  BY ConsumerNext, Parts
<1> QED
  BY <1>1 DEF IInv, ConsumerInv, WindowInv

\* IInv is an invariant.
THEOREM Invariance == Spec => []IInv
<1>1. IInv /\ [Next]_vars => IInv'
  BY NextInv
<1> QED
  BY InitInv, <1>1, PTL DEF Spec

\* Every variable keeps its type, whatever the topic and the bounds.
THEOREM TypeCorrect == Spec => []TypeOK
<1>1. IInv => TypeOK
  BY DEF IInv
<1> QED
  BY Invariance, <1>1, PTL

\* The consumer acknowledges no message that has not been settled or reported
\* as part of a failed batch (client.py:70, orchestrator.py:142).
THEOREM NothingIsLostSilently == Spec => []NoSilentLoss
<1>1. IInv => NoSilentLoss
  BY DEF IInv
<1> QED
  BY Invariance, <1>1, PTL

\* A restart or a rebalance repeats the effects of at most one full batch
\* (client.py:59, client.py:70).
THEOREM ReplayIsOneBatch == Spec => []ReplayIsBounded
<1>1. IInv => ReplayIsBounded
  BY DEF IInv
<1> QED
  BY Invariance, <1>1, PTL

-----------------------------------------------------------------------------
(* Refinement.                                                             *)

\* What a step does to what Delivery sees: the tables gain rows, or the
\* committed offset moves to the position.
LEMMA StepEffect ==
  ASSUME ConsumerInv, [Next]_vars
  PROVE  /\ log' = log /\ failed \subseteq failed'
         /\ errors \subseteq errors'
         /\ \A e \in EventIds : market[e] # NoRow => market'[e] # NoRow
         /\ \/ committed' = committed
            \/ committed' = position /\ committed <= position
               /\ UNCHANGED <<market, errors, failed>>
<1>1. CASE Process
  <2>1. UNCHANGED store \/ CommitTx(tx, runId)
    BY <1>1, ProcessStepEffect DEF Process, ConsumerInv, TypeOK
  <2> QED
    BY <1>1, <2>1, CommitAddsRows DEF Process, kafkaVars, ConsumerInv, store
<1>2. CASE Complete \/ SaveCompleted \/ CommitCompleted \/ CompletionFails
  <2>1. UNCHANGED kafkaVars /\ (UNCHANGED store \/ CommitTx(tx, runId))
    BY <1>2 DEF Complete, SaveCompleted, CommitCompleted, CompletionFails
  <2> QED
    BY <2>1, CommitAddsRows DEF kafkaVars, ConsumerInv, store
<1>3. CASE Ack \/ AckFails
  <2>1. committed <= position
    BY <1>3 DEF Ack, AckFails, ConsumerInv, FetchedInBatch
  <2> QED
    BY <1>3, <2>1 DEF Ack, AckFails, store
<1>4. CASE Start \/ StartFails \/ GetOne \/ GetOneFails \/ GetMany \/ DecodeRaises
  BY <1>4 DEF Start, StartFails, GetOne, GetOneFails, GetMany, DecodeRaises, kafkaVars, store
<1>5. CASE HandleFailure \/ Rebalance \/ Crash \/ UNCHANGED vars
  BY <1>5 DEF HandleFailure, Rebalance, Crash, vars, kafkaVars, store
<1> QED
  BY <1>1, <1>2, <1>3, <1>4, <1>5 DEF Next, Consume

\* Of the initial state Delivery sees that nothing has been dealt with.
LEMMA DeliveryInit == Init => D!Init
<1>1. ASSUME Init PROVE Len(log) \in Nat
  BY <1>1, InitInv, Numbers DEF IInv
<1> QED
  BY <1>1 DEF Init, D!Init, Dealt, Offsets

\* A step with this effect, whoever takes it, is a step of Delivery.
LEMMA DeliveryStep ==
  ASSUME ConsumerInv, ConsumerInv',
         log' = log /\ failed \subseteq failed',
         errors \subseteq errors',
         \A e \in EventIds : market[e] # NoRow => market'[e] # NoRow,
         \/ committed' = committed
         \/ committed' = position /\ committed <= position
            /\ UNCHANGED <<market, errors, failed>>
  PROVE  [D!Next]_(D!vars)
<1>1. log' = log /\ Len(log)' = Len(log) /\ TypeOK /\ TypeOK'
  BY DEF ConsumerInv
<1>2. Dealt \subseteq Dealt' /\ Dealt' \subseteq 1 .. Len(log)
  <2>1. ASSUME NEW o \in Offsets, Settled(o) PROVE Settled(o)'
    BY <1>1, <2>1, SettledIsStable
  <2> QED
    BY <1>1, <2>1 DEF Dealt, Offsets
<1>3. CASE committed' = committed
  <2>1. Dealt' = Dealt \cup Dealt' /\ Dealt' \in SUBSET (1 .. Len(log))
    BY <1>2
  <2>2. D!Deal
    BY <1>1, <1>3, <2>1 DEF D!Deal
  <2> QED
    BY <2>2 DEF D!Next
<1>4. CASE committed' # committed
  <2>1. committed' = position /\ committed <= position /\ UNCHANGED <<market, errors, failed>>
    BY <1>4
  <2>2. committed' \in committed + 1 .. Len(log)
    BY <1>1, <1>4, <2>1, Numbers DEF TypeOK
  <2>3. Dealt' = Dealt
    BY <1>1, <2>1 DEF Dealt, Settled, Offsets
  <2>4. 1 .. committed' \subseteq Dealt'
    <3>1. \A o \in 1 .. committed' : o \in Offsets'
      BY <1>1, <2>2, Numbers DEF Offsets, TypeOK
    <3>2. NoSilentLoss'
      BY DEF ConsumerInv
    <3> QED
      BY <3>1, <3>2 DEF NoSilentLoss, Dealt
  <2>5. D!Acknowledge
    BY <1>1, <2>2, <2>3, <2>4 DEF D!Acknowledge
  <2> QED
    BY <2>5 DEF D!Next
<1> QED
  BY <1>3, <1>4

\* The consumer implements Delivery: what was dealt with stays so, and only
\* that is acknowledged, in order (client.py:47-71).
THEOREM DeliveryRefinement == Spec => ImplementsDelivery
<1>1. IInv /\ IInv' /\ [Next]_vars => [D!Next]_(D!vars)
  <2> SUFFICES ASSUME IInv, IInv', [Next]_vars PROVE [D!Next]_(D!vars)
    OBVIOUS
  <2>1. ConsumerInv /\ ConsumerInv'
    BY DEF IInv, ConsumerInv
  <2> QED
    BY <2>1, StepEffect, DeliveryStep
<1> QED
  BY DeliveryInit, <1>1, InitInv, NextInv, PTL DEF Spec, ImplementsDelivery, D!Spec

-----------------------------------------------------------------------------
(* Beside another writer of the tables.                                    *)

\* The consumer, for its part, only adds rows.
LEMMA ConsumerGrows ==
  ASSUME ConsumerInv, [Next]_vars
  PROVE  OnlyAdds
<1>0. TypeOK /\ StoreTypeOK /\ tx \in TxType /\ runId \in 0 .. Len(runs)
  BY DEF ConsumerInv, TypeOK, BatchTypeOK
<1>1. CASE Process
  <2>1. UNCHANGED store \/ CommitTx(tx, runId)
    BY <1>0, <1>1, ProcessStepEffect DEF Process, TypeOK
  <2> QED
    BY <1>0, <2>1, StoreGrows
<1>2. CASE Complete \/ SaveCompleted \/ CommitCompleted \/ CompletionFails
  <2>1. UNCHANGED store \/ CommitTx(tx, runId)
    BY <1>2 DEF Complete, SaveCompleted, CommitCompleted, CompletionFails
  <2> QED
    BY <1>0, <2>1, StoreGrows
<1>3. CASE GetMany
  BY <1>0, <1>3, NewRunGrows DEF GetMany
<1>4. CASE UNCHANGED store
  BY <1>0, <1>4, StoreGrows
<1> QED
  BY <1>1, <1>2, <1>3, <1>4
     DEF Next, Consume, Start, StartFails, GetOne, GetOneFails, DecodeRaises, Ack, AckFails,
         HandleFailure, Rebalance, Crash, vars

\* What somebody else adds to the tables takes nothing from the consumer.
LEMMA OtherWriter ==
  ASSUME ConsumerInv, OnlyAdds, StoreTypeOK', dlt' \in SUBSET ErrorRow,
         UNCHANGED <<pc, batch, run, runId, todo, tx, aborted, kafkaVars>>
  PROVE  ConsumerInv'
<1> USE DEF ConsumerInv
<1>1. UNCHANGED <<log, committed, position, failed, restarts, rebalances>>
  BY DEF kafkaVars
<1>2. TypeOK'
  <2>1. runId' \in 0 .. Len(runs')
    BY DEF OnlyAdds, TypeOK, StoreTypeOK, BatchTypeOK
  <2>2. BatchTypeOK'
    BY <2>1 DEF TypeOK, BatchTypeOK, Parsed, WithFate
  <2> QED
    BY <1>1, <2>2 DEF TypeOK, Offsets
<1>3. StageInv'
  <2>1. \A i \in Valid : Accepted(i) => Accepted(i)'
    <3> SUFFICES ASSUME NEW i \in Valid, Accepted(i) PROVE Accepted(i)'
      OBVIOUS
    <3> DEFINE e == batch[i].event_id
    <3>1. e \in EventIds /\ e \in DOMAIN market /\ e \in DOMAIN market'
      BY Numbers DEF Valid, WithFate, Parsed, Message, TypeOK, StoreTypeOK
    <3>2. tx.market[e] # NoRow \/ market[e] # NoRow
      BY <3>1 DEF Accepted, Overlay
    <3>3. tx.market[e] # NoRow \/ market'[e] # NoRow
      BY <3>1, <3>2 DEF OnlyAdds
    <3> QED
      BY <3>1, <3>3 DEF Accepted, Overlay
  <2>2. /\ Valid' = Valid /\ Invalid' = Invalid
        /\ \A S : WithFate(S)' = WithFate(S)
        /\ \A i : ErrorFor(i)' = ErrorFor(i)
    BY SameBatch DEF ErrorFor
  <2> QED
    BY <2>1, <2>2 DEF StageInv
<1>4. BatchFromLog' /\ FetchedInBatch'
  BY <1>1 DEF BatchFromLog, Offsets, MessageAt, FetchedInBatch
<1>5. BatchOutcome'
  <2>1. \A i \in DOMAIN batch : Recorded(i) => Recorded(i)'
    BY Numbers DEF Recorded, OnlyAdds, Message
  <2> QED
    BY <1>1, <2>1 DEF BatchOutcome
<1>6. NoSilentLoss'
  BY <1>1, NoLossStep DEF OnlyAdds
<1> QED
  BY <1>2, <1>3, <1>4, <1>5, <1>6

=============================================================================
