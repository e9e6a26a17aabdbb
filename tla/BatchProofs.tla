---------------------------- MODULE BatchProofs ----------------------------
(***************************************************************************)
(* Lemmas about Store and ProcessBatch, for the proofs of both modes.      *)
(***************************************************************************)
EXTENDS ProcessBatch, FiniteSetTheorems, SequenceTheorems,
        WellFoundedInduction, TLAPS

\* A nonempty set of naturals has a least element.
LEMMA LeastExists ==
  ASSUME NEW S \in SUBSET Nat, S # {}
  PROVE  \E m \in S : \A n \in S : m <= n
<1>1. \E m \in S : \A n \in S : <<n, m>> \notin OpToRel(<, Nat)
  BY NatLessThanWellFounded, WFMin
<1>2. PICK m \in S : \A n \in S : <<n, m>> \notin OpToRel(<, Nat)
  BY <1>1
<1>3. \A n \in S : ~ (n < m)
  BY <1>2 DEF OpToRel
<1> QED
  BY <1>3

\* A nonempty set of positions of a sequence has a last element.
LEMMA GreatestExists ==
  ASSUME NEW n \in Nat, NEW S \in SUBSET (1 .. n), S # {}
  PROVE  \E m \in S : \A k \in S : k <= m
<1> DEFINE Bounds == {b \in Nat : \A k \in S : k <= b}
<1>1. n \in Bounds
  OBVIOUS
<1>2. PICK b \in Bounds : \A c \in Bounds : b <= c
  BY <1>1, LeastExists
<1>3. PICK s \in S : TRUE
  OBVIOUS
<1>4. b \in S
  <2>1. SUFFICES ASSUME b \notin S PROVE FALSE
    OBVIOUS
  <2>2. b - 1 \in Nat
    BY <1>3, <2>1
  <2>3. \A k \in S : k <= b - 1
    BY <2>1
  <2> QED
    BY <1>2, <2>2, <2>3
<1> QED
  BY <1>4

-----------------------------------------------------------------------------
(* The contents of a batch.                                                *)

\* What the contents decide stays as long as the batch does.
LEMMA SameBatch ==
  ASSUME batch' = batch
  PROVE  /\ \A F : WithFate(F)' = WithFate(F)
         /\ Parsed' = Parsed /\ Invalid' = Invalid /\ Valid' = Valid
         /\ \A i : LastWithId(i)' = LastWithId(i)
<1>1. \A F : WithFate(F)' = WithFate(F)
  BY DEF WithFate
<1>2. Parsed' = Parsed
  BY <1>1 DEF Parsed
<1>3. \A S : Mixed(S)' <=> Mixed(S)
  BY DEF Mixed
<1>4. Floats' <=> Floats
  BY <1>2, <1>3 DEF Floats
<1>5. Invalid' = Invalid
  BY <1>2, <1>4 DEF Invalid
<1> QED
  BY <1>1, <1>2, <1>5 DEF Valid, LastWithId

-----------------------------------------------------------------------------
(* The database.                                                           *)

\* An overlay of a table has the type of the table.
LEMMA OverlayType ==
  ASSUME NEW D, NEW R, NEW own \in [D -> R \cup {NoRow}],
         NEW table \in [D -> R \cup {NoRow}]
  PROVE  /\ Overlay(own, table) \in [D -> R \cup {NoRow}]
         /\ \A x \in D : Overlay(own, table)[x] =
                           IF own[x] # NoRow THEN own[x] ELSE table[x]
BY DEF Overlay

\* A commit keeps the tables well typed and their number of runs.
LEMMA CommitTxType ==
  ASSUME StoreTypeOK, NEW t \in TxType, NEW id \in 0 .. Len(runs), CommitTx(t, id)
  PROVE  StoreTypeOK' /\ Len(runs') = Len(runs)
<1>1. market' \in [EventIds -> MarketRow \cup {NoRow}]
  BY OverlayType DEF CommitTx, StoreTypeOK, TxType
<1>2. summaries' \in [Keys -> SummaryRow \cup {NoRow}]
  BY OverlayType DEF CommitTx, StoreTypeOK, TxType
<1>3. errors' \in SUBSET ErrorRow
  BY DEF CommitTx, StoreTypeOK, TxType
<1>4. runs' \in Seq(RunRow \cup {NoRow}) /\ Len(runs') = Len(runs)
  <2>1. CASE t.run = NoRow
    BY <2>1 DEF CommitTx, StoreTypeOK
  <2>2. CASE t.run # NoRow /\ id = 0
    <3>1. runs \in [1 .. Len(runs) -> RunRow \cup {NoRow}] /\ Len(runs) \in Nat
      BY DEF StoreTypeOK
    <3>2. [runs EXCEPT ![id] = t.run] = runs
      BY <2>2, <3>1
    <3> QED
      BY <2>2, <3>2 DEF CommitTx, StoreTypeOK
  <2>3. CASE t.run # NoRow /\ id # 0
    <3>1. t.run \in RunRow \cup {NoRow} /\ runs \in Seq(RunRow \cup {NoRow})
      BY DEF TxType, StoreTypeOK
    <3>2. id \in 1 .. Len(runs)
      BY <2>3
    <3>3. runs' = [runs EXCEPT ![id] = t.run]
      BY <2>3 DEF CommitTx
    <3> QED
      BY <3>1, <3>2, <3>3, ExceptSeq
  <2> QED
    BY <2>1, <2>2, <2>3
<1> QED
  BY <1>1, <1>2, <1>3, <1>4 DEF StoreTypeOK

\* The empty transaction is a transaction.
LEMMA EmptyTxType == EmptyTx \in TxType
BY DEF EmptyTx, TxType

\* The tables gain rows and lose none.
OnlyAdds ==
  /\ errors \subseteq errors'
  /\ \A e \in EventIds : market[e] # NoRow => market'[e] # NoRow
  /\ Len(runs) <= Len(runs')

\* That is what a commit and a new run do to them.
LEMMA StoreGrows ==
  ASSUME StoreTypeOK, NEW t \in TxType, NEW id \in 0 .. Len(runs),
         UNCHANGED store \/ CommitTx(t, id)
  PROVE  OnlyAdds
<1>1. Len(runs) \in Nat
  BY DEF StoreTypeOK
<1>2. CASE UNCHANGED store
  BY <1>1, <1>2 DEF store, OnlyAdds
<1>3. CASE CommitTx(t, id)
  <2>1. Len(runs') = Len(runs)
    BY <1>3, CommitTxType
  <2>2. DOMAIN market = EventIds
    BY DEF StoreTypeOK
  <2> QED
    BY <1>1, <1>3, <2>1, <2>2 DEF CommitTx, Overlay, OnlyAdds
<1> QED
  BY <1>2, <1>3

\* A new run has no row yet.
LEMMA NewRunGrows ==
  ASSUME StoreTypeOK, runs' = Append(runs, NoRow), UNCHANGED <<market, errors>>
  PROVE  OnlyAdds
BY DEF StoreTypeOK, OnlyAdds

-----------------------------------------------------------------------------
(* The batch.                                                              *)

\* The positions of a batch, the classes among them, and their sizes.
LEMMA PositionsType ==
  ASSUME BatchTypeOK
  PROVE  /\ Len(batch) \in Nat
         /\ DOMAIN batch = 1 .. Len(batch)
         /\ \A i \in DOMAIN batch : batch[i] \in Message
         /\ Invalid \subseteq Parsed /\ Valid \subseteq Parsed
         /\ Parsed \subseteq DOMAIN batch
         /\ Cardinality(Valid) \in Nat /\ Cardinality(Invalid) \in Nat
<1>1. /\ Len(batch) \in Nat
      /\ DOMAIN batch = 1 .. Len(batch)
      /\ \A i \in DOMAIN batch : batch[i] \in Message
  BY DEF BatchTypeOK
<1>2. /\ Invalid \subseteq Parsed /\ Valid \subseteq Parsed
      /\ Parsed \subseteq DOMAIN batch
  BY DEF Invalid, Valid, Parsed, WithFate
<1>3. IsFiniteSet(DOMAIN batch)
  BY <1>1, FS_Interval
<1>4. Cardinality(Valid) \in Nat /\ Cardinality(Invalid) \in Nat
  <2>1. IsFiniteSet(Valid)
    BY <1>2, <1>3, FS_Subset
  <2>2. IsFiniteSet(Invalid)
    BY <1>2, <1>3, FS_Subset
  <2> QED
    BY <2>1, <2>2, FS_CardinalityType
<1> QED
  BY <1>1, <1>2, <1>4

\* The entry written for an invalid record names that record.
LEMMA ErrorForType ==
  ASSUME StoreTypeOK, BatchTypeOK, NEW i \in Parsed
  PROVE  /\ ErrorFor(i) \in ErrorRow
         /\ ErrorFor(i).origin = batch[i].origin
         /\ \E j \in Parsed : /\ batch[j].event_id = batch[i].event_id
                             /\ ErrorFor(i).payload = batch[j].origin
<1> DEFINE Same == {j \in Parsed : batch[j].event_id = batch[i].event_id}
<1>1. Same \in SUBSET (1 .. Len(batch)) /\ Same # {} /\ Len(batch) \in Nat
  BY PositionsType
<1>2. \E j \in Same : \A k \in Same : k <= j
  BY <1>1, GreatestExists
<1>3. /\ LastWithId(i) \in Parsed
      /\ batch[LastWithId(i)].event_id = batch[i].event_id
  BY <1>2 DEF LastWithId
<1>4. batch[LastWithId(i)].origin \in Nat /\ batch[i].origin \in Nat /\ i \in Nat
  BY <1>3, PositionsType DEF Message
<1>5. runId \in Nat
  BY DEF BatchTypeOK, StoreTypeOK
<1> QED
  BY <1>3, <1>4, <1>5 DEF ErrorFor, ErrorRow

\* A statement leaves its rows visible: each id it names has a row, its own
\* or an earlier one, and every other row is as it was.
LEMMA InsertRecordsType ==
  ASSUME StoreTypeOK, BatchTypeOK, NEW C \in SUBSET DOMAIN batch,
         NEW new, new = InsertRecords(tx, ValuesOf(C))
  PROVE  /\ new \in TxType
         /\ \A e \in EventIds :
              \/ new.market[e] = tx.market[e]
              \/ /\ tx.market[e] = NoRow /\ market[e] = NoRow
                 /\ \E i \in C : batch[i].event_id = e /\ new.market[e] = RowOf(i)
         /\ \A e \in EventIds : tx.market[e] # NoRow => new.market[e] # NoRow
         /\ \A i \in C : Overlay(new.market, market)[batch[i].event_id] # NoRow
         /\ new.errors = tx.errors /\ new.summaries = tx.summaries /\ new.run = tx.run
<1> DEFINE values == ValuesOf(C)
           ins == Inserted(tx, values)
           id(i) == batch[i].event_id
           mkt == [e \in EventIds |->
                     IF \E i \in ins : values[i].event_id = e
                       THEN values[CHOOSE i \in ins : values[i].event_id = e].row
                       ELSE tx.market[e]]
<1>1. new = [tx EXCEPT !.market = mkt]
  BY DEF InsertRecords
<1>2. DOMAIN values = C /\ \A i \in C : values[i].event_id = id(i) /\ values[i].row = RowOf(i)
  BY DEF ValuesOf
<1>3. ins = {i \in C : /\ Overlay(tx.market, market)[id(i)] = NoRow
                      /\ \A j \in C : j < i => id(j) # id(i)}
  BY <1>2 DEF Inserted
<1>4. \A i \in C : RowOf(i) \in MarketRow /\ id(i) \in EventIds
  BY PositionsType DEF RowOf, MarketRow, Message, BatchTypeOK, StoreTypeOK
<1> HIDE DEF values, ins
<1>5. \A e \in EventIds : IF \E i \in ins : id(i) = e
                            THEN \E i \in ins : id(i) = e /\ mkt[e] = RowOf(i)
                            ELSE mkt[e] = tx.market[e]
  <2>1. TAKE e \in EventIds
  <2>2. CASE \E i \in ins : id(i) = e
    <3>1. PICK k \in ins : k = CHOOSE i \in ins : values[i].event_id = e
      BY <2>2, <1>2, <1>3
    <3>2. \E i \in ins : values[i].event_id = e
      BY <2>2, <1>2, <1>3
    <3>3. mkt[e] = values[k].row /\ values[k].event_id = e
      BY <3>1, <3>2
    <3>4. k \in C /\ values[k].row = RowOf(k) /\ id(k) = e
      BY <3>3, <1>2, <1>3
    <3> QED
      BY <2>2, <3>3, <3>4
  <2>3. CASE ~ \E i \in ins : id(i) = e
    BY <2>3, <1>2, <1>3
  <2> QED
    BY <2>2, <2>3
<1>6. tx.market \in [EventIds -> MarketRow \cup {NoRow}] /\ tx \in TxType
  BY DEF BatchTypeOK, TxType
<1>7. mkt \in [EventIds -> MarketRow \cup {NoRow}]
  BY <1>3, <1>4, <1>5, <1>6
<1>8. /\ new \in TxType /\ new.market = mkt /\ new.errors = tx.errors
      /\ new.summaries = tx.summaries /\ new.run = tx.run
  BY <1>1, <1>6, <1>7 DEF TxType
<1> HIDE DEF mkt
<1>9. ASSUME NEW e \in EventIds, tx.market[e] # NoRow PROVE mkt[e] # NoRow
  <2>1. CASE \E i \in ins : id(i) = e
    <3>1. PICK i \in ins : mkt[e] = RowOf(i)
      BY <1>5, <2>1
    <3> QED
      BY <3>1, <1>3, <1>4, NoRowAssumption
  <2>2. CASE ~ \E i \in ins : id(i) = e
    BY <1>5, <1>9, <2>2
  <2> QED
    BY <2>1, <2>2
<1>a. market \in [EventIds -> MarketRow \cup {NoRow}]
  BY DEF StoreTypeOK
<1>b. /\ \A e \in EventIds : Overlay(mkt, market)[e] = IF mkt[e] # NoRow THEN mkt[e] ELSE market[e]
      /\ \A e \in EventIds : Overlay(tx.market, market)[e] =
                              IF tx.market[e] # NoRow THEN tx.market[e] ELSE market[e]
  BY <1>a DEF Overlay
<1>10. \A i \in C : Overlay(mkt, market)[id(i)] # NoRow
  <2>1. TAKE i \in C
  <2>2. id(i) \in EventIds /\ market \in [EventIds -> MarketRow \cup {NoRow}]
    BY <1>4 DEF StoreTypeOK
  <2>3. CASE Overlay(tx.market, market)[id(i)] # NoRow
    BY <2>2, <2>3, <1>9, <1>b
  <2>4. CASE Overlay(tx.market, market)[id(i)] = NoRow
    <3> DEFINE Same == {j \in C : id(j) = id(i)}
    <3>1. Same \in SUBSET Nat /\ Same # {}
      BY PositionsType
    <3>2. PICK m \in Same : \A j \in Same : m <= j
      BY <3>1, LeastExists
    <3>3. m \in ins
      BY <3>1, <3>2, <2>4, <1>3
    <3>4. mkt[id(i)] # NoRow
      BY <3>2, <3>3, <2>2, <1>3, <1>4, <1>5, NoRowAssumption
    <3> QED
      BY <3>4, <2>2, <1>b
  <2> QED
    BY <2>3, <2>4
<1>11. ASSUME NEW e \in EventIds, mkt[e] # tx.market[e]
       PROVE  /\ tx.market[e] = NoRow /\ market[e] = NoRow
              /\ \E i \in C : id(i) = e /\ mkt[e] = RowOf(i)
  <2>1. PICK i \in ins : id(i) = e /\ mkt[e] = RowOf(i)
    BY <1>5, <1>11
  <2>2. i \in C /\ Overlay(tx.market, market)[e] = NoRow
    BY <2>1, <1>3
  <2> QED
    BY <2>1, <2>2, <1>b
<1> QED
  BY <1>8, <1>9, <1>10, <1>11

\* So does the statement that writes the summaries of a batch.
LEMMA UpsertSummariesType ==
  ASSUME StoreTypeOK, BatchTypeOK, NEW S \in SUBSET Keys, NEW new \in [S -> SummaryRow]
  PROVE  /\ UpsertSummaries(tx, new) \in TxType
         /\ UpsertSummaries(tx, new).market = tx.market
         /\ UpsertSummaries(tx, new).errors = tx.errors
         /\ UpsertSummaries(tx, new).run = tx.run
         /\ \A k \in Keys \ S : UpsertSummaries(tx, new).summaries[k] = tx.summaries[k]
         /\ \A k \in S : LET row == UpsertSummaries(tx, new).summaries[k]
                             old == Overlay(tx.summaries, summaries)[k]
                         IN  /\ row \in SummaryRow
                             /\ row.trades = new[k].trades
                             /\ row.open = IF old = NoRow THEN new[k].open ELSE old.open
<1> DEFINE old == Overlay(tx.summaries, summaries)
           sums == [k \in Keys |->
                      IF k \notin S THEN tx.summaries[k]
                      ELSE IF old[k] = NoRow THEN new[k]
                           ELSE [new[k] EXCEPT !.open = old[k].open]]
<1>1. UpsertSummaries(tx, new) = [tx EXCEPT !.summaries = sums]
  BY DEF UpsertSummaries
<1>2. old \in [Keys -> SummaryRow \cup {NoRow}]
  BY OverlayType DEF BatchTypeOK, StoreTypeOK, TxType
<1> HIDE DEF old
<1>3. tx \in TxType /\ tx.summaries \in [Keys -> SummaryRow \cup {NoRow}]
  BY DEF BatchTypeOK, TxType
<1>4. ASSUME NEW k \in Keys
      PROVE  sums[k] \in SummaryRow \cup {NoRow}
  <2>1. CASE k \notin S
    BY <2>1, <1>3
  <2>2. CASE k \in S /\ old[k] = NoRow
    BY <2>2
  <2>3. CASE k \in S /\ old[k] # NoRow
    <3>1. old[k] \in SummaryRow /\ new[k] \in SummaryRow
      BY <2>3, <1>2
    <3>2. [new[k] EXCEPT !.open = old[k].open] \in SummaryRow
      BY <3>1 DEF SummaryRow
    <3> QED
      BY <2>3, <3>2
  <2> QED
    BY <2>1, <2>2, <2>3
<1>5. sums \in [Keys -> SummaryRow \cup {NoRow}]
  BY <1>4
<1>6. \A k \in Keys \ S : sums[k] = tx.summaries[k]
  OBVIOUS
<1>7. ASSUME NEW k \in S
      PROVE  /\ sums[k] \in SummaryRow
             /\ sums[k].trades = new[k].trades
             /\ sums[k].open = IF old[k] = NoRow THEN new[k].open ELSE old[k].open
  <2>1. new[k] \in SummaryRow /\ old[k] \in SummaryRow \cup {NoRow}
    BY <1>2
  <2>2. sums[k] = IF old[k] = NoRow THEN new[k] ELSE [new[k] EXCEPT !.open = old[k].open]
    OBVIOUS
  <2> HIDE DEF sums
  <2> QED
    BY <2>1, <2>2 DEF SummaryRow
<1> HIDE DEF sums
<1>8. /\ UpsertSummaries(tx, new) \in TxType
      /\ UpsertSummaries(tx, new).market = tx.market
      /\ UpsertSummaries(tx, new).errors = tx.errors
      /\ UpsertSummaries(tx, new).run = tx.run
      /\ UpsertSummaries(tx, new).summaries = sums
  BY <1>1, <1>3, <1>5 DEF TxType
<1> QED
  BY <1>6, <1>7, <1>8 DEF old

\* The summaries of a batch are rows of daily_summaries.
LEMMA SummaryType ==
  ASSUME StoreTypeOK, BatchTypeOK, NEW first \in [Touched -> DOMAIN batch]
  PROVE  [k \in Touched |-> Summary(k, first[k])] \in [Touched -> SummaryRow]
<1>1. \A i \in DOMAIN batch : batch[i].origin \in Nat /\ i \in Nat
  BY PositionsType DEF Message
<1>2. ASSUME NEW k \in Touched PROVE Summary(k, first[k]) \in SummaryRow
  <2>1. batch[first[k]].origin \in Nat
    BY <1>1
  <2>2. Group(k) \subseteq DOMAIN batch
    BY PositionsType DEF Group
  <2>3. {<<i, batch[i].origin>> : i \in Group(k)} \in SUBSET (Nat \X Nat)
    BY <1>1, <2>2
  <2> QED
    BY <2>1, <2>3 DEF Summary, SummaryRow
<1> QED
  BY <1>2

\* Every stage keeps the types.
LEMMA ProcessStepType ==
  ASSUME StoreTypeOK, BatchTypeOK, NEW dltEnabled \in BOOLEAN, ProcessStep(dltEnabled)
  PROVE  /\ StoreTypeOK' /\ BatchTypeOK'
         /\ Len(runs') = Len(runs) /\ runId' = runId /\ batch' = batch
<1> DEFINE Goal == /\ StoreTypeOK' /\ BatchTypeOK'
                   /\ Len(runs') = Len(runs) /\ runId' = runId /\ batch' = batch
<1>0. /\ \A i \in Parsed : ErrorFor(i) \in ErrorRow
      /\ Invalid \subseteq Parsed /\ Valid \subseteq Parsed
      /\ Parsed \subseteq DOMAIN batch
      /\ Cardinality(Valid) \in Nat /\ Cardinality(Invalid) \in Nat
      /\ Len(batch) \in Nat
      /\ run \in RunRow /\ tx \in TxType
  BY ErrorForType, PositionsType DEF BatchTypeOK
<1>1. ASSUME UNCHANGED <<store, batch, runId>>, todo' \in SUBSET Parsed,
             run' \in RunRow, tx' \in TxType, aborted' \in BOOLEAN,
             dlt' \in SUBSET ErrorRow
      PROVE  Goal
  BY <1>1 DEF BatchTypeOK, StoreTypeOK, store, Parsed, WithFate
<1>2. ASSUME NEW b, Raise(b) PROVE Goal
  BY <1>1, <1>2 DEF Raise, BatchTypeOK
<1>3. ASSUME DbFails PROVE Goal
  BY <1>2, <1>3 DEF DbFails
<1>4. ASSUME NEW id \in 0 .. Len(runs), CommitTx(tx, id),
             UNCHANGED <<batch, run, runId, todo, dlt>>,
             aborted' \in BOOLEAN, tx' = EmptyTx
      PROVE  Goal
  <2>1. StoreTypeOK' /\ Len(runs') = Len(runs)
    BY <1>0, <1>4, CommitTxType
  <2> QED
    BY <1>4, <2>1, EmptyTxType DEF BatchTypeOK, Parsed, WithFate
<1> DEFINE Rest == /\ todo \in SUBSET Parsed /\ aborted \in BOOLEAN
                   /\ dlt \in SUBSET ErrorRow
<1>6. Rest
  BY DEF BatchTypeOK
<1>7. CASE Clean(dltEnabled)
  <2>1. ASSUME NEW a \in Nat, NEW b \in Nat, NEW c \in Nat
        PROVE  [run EXCEPT !.extracted = a, !.valid = b, !.invalid = c] \in RunRow
    BY <1>0 DEF RunRow
  <2>2. /\ run.extracted + Len(batch) \in Nat
        /\ run.valid + Cardinality(Valid) \in Nat
        /\ run.invalid + Cardinality(Invalid) \in Nat
    BY <1>0 DEF RunRow
  <2>3. run' \in RunRow
    BY <1>7, <2>1, <2>2 DEF Clean
  <2> QED
    BY <1>0, <1>1, <1>6, <1>7, <2>3 DEF Clean
<1>8. CASE CleanRaises
  <2>1. run' \in RunRow
    BY <1>0, <1>8 DEF CleanRaises, RunRow
  <2> QED
    BY <1>0, <1>1, <1>6, <1>8, <2>1 DEF CleanRaises
<1>9. CASE SendToDlt
  BY <1>0, <1>1, <1>6, <1>9 DEF SendToDlt, FirstOf
<1>10. CASE SendToDltFails
  BY <1>0, <1>1, <1>6, <1>10 DEF SendToDltFails, FirstOf
<1>11. CASE DltDone
  BY <1>0, <1>1, <1>6, <1>11 DEF DltDone
<1>12. CASE SaveValidationErrors
  <2>1. {ErrorFor(i) : i \in Invalid} \in SUBSET ErrorRow
    BY <1>0
  <2>2. ASSUME NEW E \in SUBSET ErrorRow PROVE SaveErrors(tx, E) \in TxType
    BY <1>0 DEF SaveErrors, TxType
  <2>3. tx' \in TxType
    BY <1>12, <2>1, <2>2 DEF SaveValidationErrors
  <2> QED
    BY <1>0, <1>1, <1>6, <1>12, <2>3 DEF SaveValidationErrors
<1>13. CASE SaveValidationErrorsFails
  BY <1>2, <1>3, <1>13 DEF SaveValidationErrorsFails
<1>14. CASE Normalize
  BY <1>0, <1>1, <1>6, <1>14 DEF Normalize
<1>15. CASE NormalizeRaises
  BY <1>2, <1>15 DEF NormalizeRaises
<1>16. CASE InsertChunk
  <2>1. FirstOf(todo, ChunkSize) \in SUBSET DOMAIN batch
    BY <1>0, <1>6 DEF FirstOf
  <2>2. tx' \in TxType
    BY <1>16, <2>1, InsertRecordsType DEF InsertChunk
  <2> QED
    BY <1>0, <1>1, <1>6, <1>16, <2>2 DEF InsertChunk
<1>17. CASE InsertChunkFails
  BY <1>2, <1>3, <1>17 DEF InsertChunkFails
<1>18. CASE RecordsDone
  <2>1. Cardinality({e \in EventIds : tx.market[e] # NoRow}) \in Nat
    BY EventIdsAssumption, FS_Subset, FS_CardinalityType
  <2>2. run' \in RunRow
    BY <1>0, <1>18, <2>1 DEF RecordsDone, RunRow
  <2> QED
    BY <1>0, <1>1, <1>6, <1>18, <2>2 DEF RecordsDone
<1>19. CASE UpsertDailySummaries
  <2>1. PICK first \in [Touched -> DOMAIN batch] :
           tx' = UpsertSummaries(tx, [k \in Touched |-> Summary(k, first[k])])
    BY <1>19 DEF UpsertDailySummaries
  <2>2. [k \in Touched |-> Summary(k, first[k])] \in [Touched -> SummaryRow]
    BY SummaryType
  <2>3. Touched \in SUBSET Keys
    BY DEF Touched
  <2>4. tx' \in TxType
    BY <2>1, <2>2, <2>3, UpsertSummariesType
  <2> QED
    BY <1>0, <1>1, <1>6, <1>19, <2>4 DEF UpsertDailySummaries
<1>20. CASE UpsertDailySummariesFails
  BY <1>2, <1>3, <1>20 DEF UpsertDailySummariesFails
<1>21. CASE SavePipelineRun
  <2>1. tx' \in TxType
    BY <1>0, <1>21 DEF SavePipelineRun, SaveRun, TxType
  <2> QED
    BY <1>0, <1>1, <1>6, <1>21, <2>1 DEF SavePipelineRun
<1>22. CASE SavePipelineRunFails
  BY <1>3, <1>22 DEF SavePipelineRunFails
<1>23. runId \in 0 .. Len(runs)
  BY DEF BatchTypeOK
<1>24. CASE Commit
  BY <1>4, <1>6, <1>23, <1>24 DEF Commit
<1>25. CASE CommitFails
  <2>1. CASE CommitTx(tx, runId)
    BY <1>4, <1>23, <1>25, <2>1 DEF CommitFails
  <2>2. CASE UNCHANGED store
    BY <1>0, <1>1, <1>6, <1>25, <2>2, EmptyTxType DEF CommitFails
  <2> QED
    BY <1>25, <2>1, <2>2 DEF CommitFails
<1> QED
  BY <1>7, <1>8, <1>9, <1>10, <1>11, <1>12, <1>13, <1>14, <1>15, <1>16, <1>17,
     <1>18, <1>19, <1>20, <1>21, <1>22, <1>24, <1>25 DEF ProcessStep

-----------------------------------------------------------------------------
(* What the stages establish.                                              *)

\* Each stage does its part for every record of the batch and undoes none.
LEMMA StageInvStep ==
  ASSUME StoreTypeOK, BatchTypeOK, StageInv,
         NEW dltEnabled \in BOOLEAN, ProcessStep(dltEnabled)
  PROVE  StageInv'
<1>1. batch' = batch /\ runId' = runId
  BY ProcessStepType
<1>2. /\ \A F : WithFate(F)' = WithFate(F)
      /\ Parsed' = Parsed /\ Invalid' = Invalid /\ Valid' = Valid
      /\ \A i : ErrorFor(i)' = ErrorFor(i)
  BY <1>1, SameBatch DEF ErrorFor
<1>3. ASSUME UNCHANGED <<market, tx>>
      PROVE  \A i : Accepted(i)' = Accepted(i)
  BY <1>1, <1>3 DEF Accepted, Overlay
<1>4. ASSUME pc' \notin Stages PROVE StageInv'
  BY <1>4 DEF StageInv, Stages
<1>5. ASSUME NEW b, Raise(b) PROVE pc' \notin Stages
  BY <1>5 DEF Raise, Stages
<1>6. ASSUME DbFails PROVE pc' \notin Stages
  BY <1>5, <1>6 DEF DbFails
<1>7. CASE Clean(dltEnabled)
  BY <1>2, <1>7 DEF Clean, StageInv, Stages
<1>8. CASE SendToDlt
  BY <1>2, <1>8 DEF SendToDlt, StageInv, Stages
<1>9. CASE DltDone
  BY <1>2, <1>9 DEF DltDone, StageInv, Stages
<1>10. CASE SaveValidationErrors
  <2>1. tx.errors \cup {ErrorFor(i) : i \in Invalid} = tx'.errors
    BY <1>10 DEF SaveValidationErrors, SaveErrors, BatchTypeOK, TxType
  <2>2. \A i \in Invalid : ErrorFor(i) \in tx'.errors
    BY <2>1
  <2> QED
    BY <1>2, <1>10, <2>2 DEF SaveValidationErrors, StageInv, Stages
<1>11. CASE Normalize
  BY <1>2, <1>11 DEF Normalize, StageInv, Stages
<1>12. CASE InsertChunk
  <2> DEFINE C == FirstOf(todo, ChunkSize)
  <2>1. C \subseteq todo /\ C \in SUBSET DOMAIN batch /\ todo \subseteq DOMAIN batch
    BY PositionsType DEF FirstOf, BatchTypeOK
  <2>2. tx' = InsertRecords(tx, ValuesOf(C)) /\ todo' = todo \ C /\ pc = "records"
        /\ pc' = pc /\ market' = market /\ tx'.errors = tx.errors
        /\ C \cap WithFate({"unstorable", "unencodable"}) = {}
    BY <1>12, <2>1, InsertRecordsType DEF InsertChunk, store
  <2> HIDE DEF C
  <2>3. /\ \A e \in EventIds : tx.market[e] # NoRow => tx'.market[e] # NoRow
        /\ \A i \in C : Overlay(tx'.market, market)[batch[i].event_id] # NoRow
    BY <2>1, <2>2, InsertRecordsType
  <2>4. market \in [EventIds -> MarketRow \cup {NoRow}]
    BY DEF StoreTypeOK
  <2>5. Valid \cap WithFate({"untimed"}) = {}
    BY <2>2 DEF StageInv, Stages
  <2>6. ASSUME NEW i \in Valid \ todo' PROVE Accepted(i)'
    <3>1. batch[i].event_id \in EventIds
      BY PositionsType DEF Message
    <3>2. CASE i \in C
      <4>1. batch[i].fate = "ok"
        BY <3>2, <2>1, <2>2, <2>5 DEF Valid, WithFate
      <4> QED
        BY <3>2, <4>1, <2>2, <2>3, <1>1 DEF Accepted
    <3>3. CASE i \in Valid \ todo
      <4>1. Accepted(i)
        BY <3>3, <2>2 DEF StageInv
      <4> QED
        BY <4>1, <3>1, <2>2, <2>3, <2>4, <1>1 DEF Accepted, Overlay
    <3> QED
      BY <3>2, <3>3, <2>2
  <2> QED
    BY <1>2, <2>2, <2>6 DEF StageInv, Stages
<1>13. CASE RecordsDone
  BY <1>2, <1>3, <1>13 DEF RecordsDone, StageInv, Stages, store
<1>14. CASE UpsertDailySummaries
  <2>1. PICK first \in [Touched -> DOMAIN batch] :
           tx' = UpsertSummaries(tx, [k \in Touched |-> Summary(k, first[k])])
    BY <1>14 DEF UpsertDailySummaries
  <2>2. [k \in Touched |-> Summary(k, first[k])] \in [Touched -> SummaryRow]
    BY SummaryType
  <2>3. Touched \in SUBSET Keys
    BY DEF Touched
  <2>4. tx'.market = tx.market /\ tx'.errors = tx.errors
    BY <2>1, <2>2, <2>3, UpsertSummariesType
  <2>5. pc = "summaries" /\ pc' = "saverun" /\ market' = market
    BY <1>14 DEF UpsertDailySummaries, store
  <2>6. \A i : Accepted(i)' = Accepted(i)
    BY <2>4, <2>5, <1>1 DEF Accepted, Overlay
  <2> QED
    BY <1>2, <2>4, <2>5, <2>6 DEF StageInv, Stages
<1>15. CASE SavePipelineRun
  <2>1. tx'.market = tx.market /\ tx'.errors = tx.errors
    BY <1>15 DEF SavePipelineRun, SaveRun, BatchTypeOK, TxType
  <2>2. pc = "saverun" /\ pc' = "commit" /\ market' = market
    BY <1>15 DEF SavePipelineRun, store
  <2>3. \A i : Accepted(i)' = Accepted(i)
    BY <2>1, <2>2, <1>1 DEF Accepted, Overlay
  <2> QED
    BY <1>2, <2>1, <2>2, <2>3 DEF StageInv, Stages
<1>16. CASE CleanRaises \/ SendToDltFails \/ CommitFails \/ Commit
  <2>1. pc' \notin Stages
    BY <1>16 DEF CleanRaises, SendToDltFails, CommitFails, Commit, Stages
  <2> QED
    BY <2>1, <1>4
<1>17. CASE \/ SaveValidationErrorsFails \/ NormalizeRaises \/ InsertChunkFails
            \/ UpsertDailySummariesFails \/ SavePipelineRunFails
  <2>1. pc' \notin Stages
    BY <1>17, <1>5, <1>6 DEF SaveValidationErrorsFails, NormalizeRaises,
       InsertChunkFails, UpsertDailySummariesFails, SavePipelineRunFails
  <2> QED
    BY <2>1, <1>4
<1> QED
  BY <1>7, <1>8, <1>9, <1>10, <1>11, <1>12, <1>13, <1>14, <1>15, <1>16, <1>17
     DEF ProcessStep

\* The commit records every position of the batch.
LEMMA CommitRecords ==
  ASSUME StoreTypeOK, BatchTypeOK, StageInv, pc = "commit",
         CommitTx(tx, runId), batch' = batch
  PROVE  \A i \in DOMAIN batch : Recorded(i)'
<1>1. /\ market' = Overlay(tx.market, market)
      /\ errors' = errors \cup tx.errors
  BY DEF CommitTx
<1>2. /\ WithFate({"uncastable"}) = {}
      /\ \A i \in Invalid : ErrorFor(i) \in tx.errors
      /\ \A i \in Valid : Accepted(i)
  BY DEF StageInv, Stages
<1>3. TAKE i \in DOMAIN batch
<1>4. batch[i].fate \in Fates /\ Coherent(batch[i])
  BY PositionsType DEF Message
<1>5. CASE i \in Valid
  BY <1>1, <1>2, <1>5 DEF Accepted, Recorded
<1>6. CASE i \in Invalid
  <2>1. ErrorFor(i) \in errors' /\ ErrorFor(i).origin = batch[i].origin
    BY <1>1, <1>2, <1>6, ErrorForType, PositionsType
  <2>2. batch[i].fate # "ok"
    BY <1>4, <1>6 DEF Invalid, Coherent, Wide
  <2> QED
    BY <2>1, <2>2 DEF Recorded
<1>7. CASE i \notin Valid /\ i \notin Invalid
  <2>1. batch[i].fate = "unparsable"
    BY <1>2, <1>4, <1>7 DEF Valid, Invalid, Parsed, WithFate, Fates
  <2> QED
    BY <2>1 DEF Recorded
<1> QED
  BY <1>5, <1>6, <1>7

\* Where the stages lead, and where what they write comes from: a message of
\* the batch, or the transaction as it was; only a commit touches the tables.
LEMMA ProcessStepEffect ==
  ASSUME StoreTypeOK, BatchTypeOK, NEW dltEnabled \in BOOLEAN, ProcessStep(dltEnabled)
  PROVE  /\ pc' \in (Stages \ {"clean"}) \cup {"processed", "except"}
         /\ UNCHANGED store \/ CommitTx(tx, runId)
         /\ pc' = "processed" => pc = "commit" /\ CommitTx(tx, runId)
         /\ \A x \in dlt' : x \in dlt \/ \E i \in DOMAIN batch : x.origin = batch[i].origin
         /\ \A x \in tx'.errors :
              x \in tx.errors \/ \E i \in DOMAIN batch : x.origin = batch[i].origin
         /\ \A e \in EventIds : \/ tx'.market[e] = tx.market[e]
                                \/ tx'.market[e] = NoRow
                                \/ \E i \in DOMAIN batch : tx'.market[e] = RowOf(i)
<1> DEFINE Goal ==
         /\ pc' \in (Stages \ {"clean"}) \cup {"processed", "except"}
         /\ UNCHANGED store \/ CommitTx(tx, runId)
         /\ pc' = "processed" => pc = "commit" /\ CommitTx(tx, runId)
         /\ \A x \in dlt' : x \in dlt \/ \E i \in DOMAIN batch : x.origin = batch[i].origin
         /\ \A x \in tx'.errors :
              x \in tx.errors \/ \E i \in DOMAIN batch : x.origin = batch[i].origin
         /\ \A e \in EventIds : \/ tx'.market[e] = tx.market[e]
                                \/ tx'.market[e] = NoRow
                                \/ \E i \in DOMAIN batch : tx'.market[e] = RowOf(i)
<1>1. ASSUME pc' \in Stages \ {"clean"} \/ pc' = "except", UNCHANGED <<store, dlt, tx>>
      PROVE  Goal
  BY <1>1 DEF Stages
<1>2. ASSUME NEW b, Raise(b) PROVE Goal
  BY <1>1, <1>2 DEF Raise
<1>3. ASSUME DbFails PROVE Goal
  BY <1>2, <1>3 DEF DbFails
<1>4. /\ \A i \in Parsed : ErrorFor(i).origin = batch[i].origin
      /\ Invalid \subseteq Parsed /\ todo \subseteq Parsed /\ Parsed \subseteq DOMAIN batch
  BY ErrorForType, PositionsType DEF BatchTypeOK
<1>5. CASE \/ Clean(dltEnabled) \/ CleanRaises \/ DltDone \/ Normalize \/ RecordsDone
  BY <1>1, <1>5 DEF Clean, CleanRaises, DltDone, Normalize, RecordsDone, Stages
<1>6. CASE SendToDlt
  <2>1. PICK i \in Parsed : dlt' = dlt \cup {ErrorFor(i)}
    BY <1>4, <1>6 DEF SendToDlt, FirstOf
  <2> QED
    BY <1>4, <1>6, <2>1 DEF SendToDlt, Stages
<1>7. CASE SendToDltFails
  <2>1. PICK i \in Parsed : dlt' \in {dlt, dlt \cup {ErrorFor(i)}}
    BY <1>4, <1>7 DEF SendToDltFails, FirstOf
  <2> QED
    BY <1>4, <1>7, <2>1 DEF SendToDltFails, Stages
<1>8. CASE SaveValidationErrors
  <2>1. /\ tx'.errors = tx.errors \cup {ErrorFor(i) : i \in Invalid}
        /\ tx'.market = tx.market
    BY <1>8 DEF SaveValidationErrors, SaveErrors, BatchTypeOK, TxType
  <2> QED
    BY <1>4, <1>8, <2>1 DEF SaveValidationErrors, Stages
<1>9. CASE InsertChunk
  <2> DEFINE C == FirstOf(todo, ChunkSize)
  <2>1. C \in SUBSET DOMAIN batch
    BY <1>4 DEF FirstOf
  <2>2. tx' = InsertRecords(tx, ValuesOf(C)) /\ UNCHANGED <<store, dlt>> /\ pc' = "records"
    BY <1>9 DEF InsertChunk
  <2> HIDE DEF C
  <2>3. /\ tx'.errors = tx.errors
        /\ \A e \in EventIds : \/ tx'.market[e] = tx.market[e]
                               \/ \E i \in C : tx'.market[e] = RowOf(i)
    BY <2>1, <2>2, InsertRecordsType
  <2> QED
    BY <2>1, <2>2, <2>3 DEF Stages
<1>10. CASE UpsertDailySummaries
  <2>1. PICK first \in [Touched -> DOMAIN batch] :
           tx' = UpsertSummaries(tx, [k \in Touched |-> Summary(k, first[k])])
    BY <1>10 DEF UpsertDailySummaries
  <2>2. [k \in Touched |-> Summary(k, first[k])] \in [Touched -> SummaryRow]
    BY SummaryType
  <2>3. Touched \in SUBSET Keys
    BY DEF Touched
  <2>4. tx'.market = tx.market /\ tx'.errors = tx.errors
    BY <2>1, <2>2, <2>3, UpsertSummariesType
  <2> QED
    BY <1>10, <2>4 DEF UpsertDailySummaries, Stages
<1>11. CASE SavePipelineRun
  <2>1. tx'.market = tx.market /\ tx'.errors = tx.errors
    BY <1>11 DEF SavePipelineRun, SaveRun, BatchTypeOK, TxType
  <2> QED
    BY <1>11, <2>1 DEF SavePipelineRun, Stages
<1>12. CASE \/ SaveValidationErrorsFails \/ NormalizeRaises \/ InsertChunkFails
            \/ UpsertDailySummariesFails \/ SavePipelineRunFails
  BY <1>2, <1>3, <1>12 DEF SaveValidationErrorsFails, NormalizeRaises,
     InsertChunkFails, UpsertDailySummariesFails, SavePipelineRunFails
<1>13. CASE Commit \/ CommitFails
  <2>1. tx'.errors = {} /\ \A e \in EventIds : tx'.market[e] = NoRow
    BY <1>13 DEF Commit, CommitFails, EmptyTx
  <2>2. dlt' = dlt /\ pc' \in {"processed", "except"}
    BY <1>13 DEF Commit, CommitFails
  <2>3. UNCHANGED store \/ CommitTx(tx, runId)
    BY <1>13 DEF Commit, CommitFails
  <2>4. pc' = "processed" => pc = "commit" /\ CommitTx(tx, runId)
    BY <1>13 DEF Commit, CommitFails
  <2> QED
    BY <2>1, <2>2, <2>3, <2>4
<1> QED
  BY <1>5, <1>6, <1>7, <1>8, <1>9, <1>10, <1>11, <1>12, <1>13 DEF ProcessStep

-----------------------------------------------------------------------------
(* What the open transaction holds.                                        *)

\* The ids the open transaction has inserted, and the refusals of the batch.
Loaded   == {e \in EventIds : tx.market[e] # NoRow}
Refusals == {ErrorFor(i) : i \in Invalid}

\* What the open transaction holds, wherever the stages have got to or failed:
\* rows of this batch that replace none, and summaries of what is loaded, with
\* the open the day has, while the transaction can commit, or one of theirs.
TxFromBatch ==
  /\ \A e \in Loaded :
       /\ market[e] = NoRow
       /\ \E i \in Valid : batch[i].event_id = e /\ tx.market[e] = RowOf(i)
  /\ \A k \in Keys : tx.summaries[k] # NoRow =>
       /\ k \in Touched
       /\ tx.summaries[k].trades = {<<i, batch[i].origin>> : i \in Group(k)}
       /\ ~ aborted /\ summaries[k] # NoRow =>
            tx.summaries[k].open = summaries[k].open
       /\ summaries[k] = NoRow =>
            \E i \in Group(k) : tx.summaries[k].open = batch[i].origin
       /\ \A i \in Group(k) : Accepted(i)
  /\ tx.errors \in {{}, Refusals}

\* What each stage finds in it, and in the counters of the run.
TxStages ==
  /\ pc \in Stages => /\ ~ aborted
                      /\ runId \in DOMAIN runs
                      /\ runs[runId] = NoRow
                      /\ run.status = "running"
                      /\ tx.run = IF pc = "commit" THEN run ELSE NoRow
  /\ pc = "clean" => run = NewRun
  /\ pc \in Stages \ {"clean"} => /\ run.extracted = Len(batch)
                                  /\ run.valid = Cardinality(Valid)
                                  /\ run.invalid = Cardinality(Invalid)
  /\ pc \in {"clean", "dlt", "errors"} => tx.errors = {}
  /\ pc \in Stages \ {"clean", "dlt", "errors"} => tx.errors = Refusals
  /\ pc \in {"clean", "dlt", "errors", "normalize"} => Loaded = {}
  /\ pc \in {"clean", "dlt", "errors", "normalize", "records"} => run.loaded = 0
  /\ pc \in {"summaries", "saverun", "commit"} => run.loaded = Cardinality(Loaded)
  /\ pc = "records" => todo \subseteq Valid
  /\ pc \in Stages \ {"saverun", "commit"} => \A k \in Keys : tx.summaries[k] = NoRow
  /\ pc \in {"saverun", "commit"} => \A k \in Touched : tx.summaries[k] # NoRow

\* The counters of a run that has failed, while its transaction is usable.
RunFits ==
  /\ run.loaded \in {0, Cardinality(Loaded)}
  /\ Cardinality(Loaded) <= run.valid
  /\ Cardinality(tx.errors) \in {0, run.invalid}

\* What the tables hold of run r.
StoredBy(r)  == {e \in EventIds : market[e] # NoRow /\ market[e].run = r}
RefusedBy(r) == {x \in errors : x.run = r}

\* Every row of the tables is of a run that has a row.
RunsAreKept ==
  /\ \A e \in EventIds : market[e] # NoRow =>
       market[e].run \in DOMAIN runs /\ runs[market[e].run] # NoRow
  /\ \A x \in errors : x.run \in DOMAIN runs /\ runs[x.run] # NoRow

\* The sizes the counters of a run are made of.
LEMMA BatchCounts ==
  ASSUME StoreTypeOK, BatchTypeOK
  PROVE  /\ IsFiniteSet(Valid) /\ IsFiniteSet(Loaded) /\ IsFiniteSet(Refusals)
         /\ Cardinality(Valid) \in Nat /\ Cardinality(Invalid) \in Nat
         /\ Cardinality(Loaded) \in Nat
         /\ Cardinality(Valid) + Cardinality(Invalid) <= Len(batch)
         /\ Cardinality(Refusals) = Cardinality(Invalid)
<1>1. IsFiniteSet(DOMAIN batch) /\ Cardinality(DOMAIN batch) = Len(batch)
  <2>1. Len(batch) \in Nat /\ DOMAIN batch = 1 .. Len(batch)
    BY PositionsType
  <2>2. Cardinality(1 .. Len(batch)) = IF 1 > Len(batch) THEN 0 ELSE Len(batch) - 1 + 1
    BY <2>1, FS_Interval
  <2>3. IsFiniteSet(1 .. Len(batch))
    BY <2>1, FS_Interval
  <2> QED
    BY <2>1, <2>2, <2>3
<1>2. IsFiniteSet(Valid) /\ IsFiniteSet(Invalid)
  BY <1>1, PositionsType, FS_Subset
<1>3. Valid \cap Invalid = {} /\ Valid \cup Invalid \in SUBSET DOMAIN batch
  BY PositionsType DEF Valid, Invalid, WithFate
<1>4. Cardinality(Valid \cup Invalid) = Cardinality(Valid) + Cardinality(Invalid)
  BY <1>2, <1>3, FS_Union, FS_EmptySet, PositionsType
<1>5. Cardinality(Valid \cup Invalid) <= Len(batch)
  BY <1>1, <1>3, FS_Subset
<1>6. IsFiniteSet(Loaded) /\ Cardinality(Loaded) \in Nat
  BY EventIdsAssumption, FS_Subset, FS_CardinalityType DEF Loaded
<1>7. IsFiniteSet(Refusals) /\ Cardinality(Refusals) = Cardinality(Invalid)
  <2> DEFINE f == [i \in Invalid |-> ErrorFor(i)]
  <2>1. f \in Surjection(Invalid, Refusals)
    <3>1. \A x \in Refusals : \E i \in Invalid : f[i] = x
      BY DEF Refusals
    <3>2. f \in [Invalid -> Refusals]
      BY DEF Refusals
    <3> QED
      BY <3>1, <3>2 DEF Surjection
  <2>2. \A i, j \in Invalid : f[i] = f[j] => i = j
    BY DEF ErrorFor
  <2> HIDE DEF f
  <2>3. f \in Injection(Invalid, Refusals)
    BY <2>1, <2>2 DEF Injection, IsInjective, Surjection
  <2> QED
    BY <1>2, <2>1, <2>3, FS_Surjection
<1> QED
  BY <1>2, <1>4, <1>5, <1>6, <1>7, PositionsType

\* Every id that is loaded is the id of a valid record of its own.
LEMMA LoadedBounded ==
  ASSUME StoreTypeOK, BatchTypeOK, TxFromBatch
  PROVE  Cardinality(Loaded) <= Cardinality(Valid)
<1> DEFINE V == {i \in Valid : batch[i].event_id \in Loaded}
           f == [i \in V |-> batch[i].event_id]
<1>1. f \in Surjection(V, Loaded)
  BY DEF TxFromBatch, Surjection
<1>2. V \in SUBSET Valid
  OBVIOUS
<1>3. IsFiniteSet(V) /\ Cardinality(V) <= Cardinality(Valid)
  BY <1>2, BatchCounts, FS_Subset
<1>4. Cardinality(Loaded) <= Cardinality(V)
  BY <1>1, <1>3, FS_Surjection
<1> QED
  BY <1>3, <1>4, BatchCounts, FS_CardinalityType

\* Whatever stage a batch fails in, the counters of its run tell all or
\* nothing of what the transaction holds.
LEMMA FailureFits ==
  ASSUME StoreTypeOK, BatchTypeOK, TxFromBatch, TxStages, pc \in Stages
  PROVE  RunFits
<1>1. /\ Cardinality(Loaded) <= Cardinality(Valid) /\ Cardinality(Loaded) \in Nat
      /\ Cardinality(Refusals) = Cardinality(Invalid) /\ Cardinality({}) = 0
  BY BatchCounts, LoadedBounded, FS_EmptySet
<1>2. run.loaded \in {0, Cardinality(Loaded)}
  BY DEF TxStages, Stages
<1>3. CASE pc = "clean"
  BY <1>1, <1>2, <1>3 DEF TxStages, NewRun, RunFits
<1>4. CASE pc # "clean"
  <2>1. run.valid = Cardinality(Valid) /\ run.invalid = Cardinality(Invalid)
    BY <1>4 DEF TxStages
  <2>2. tx.errors \in {{}, Refusals}
    BY DEF TxFromBatch
  <2> QED
    BY <1>1, <1>2, <2>1, <2>2 DEF RunFits
<1> QED
  BY <1>3, <1>4

\* The open transaction stays what the batch has made it.
LEMMA TxFromBatchStep ==
  ASSUME StoreTypeOK, BatchTypeOK, StageInv, TxFromBatch, TxStages,
         NEW dltEnabled \in BOOLEAN, ProcessStep(dltEnabled)
  PROVE  TxFromBatch'
<1>1. batch' = batch /\ runId' = runId
  BY ProcessStepType
<1>2. /\ Valid' = Valid /\ Invalid' = Invalid /\ Touched' = Touched /\ Refusals' = Refusals
      /\ \A k : Group(k)' = Group(k)
      /\ \A i : RowOf(i)' = RowOf(i)
  BY <1>1, SameBatch DEF Touched, Group, RowOf, Refusals, ErrorFor
<1>3. ASSUME UNCHANGED store, tx'.market = tx.market, tx'.summaries = tx.summaries,
             tx'.errors \in {{}, Refusals}, aborted => aborted'
      PROVE  TxFromBatch'
  <2>1. \A i : Accepted(i)' = Accepted(i)
    BY <1>1, <1>3 DEF Accepted, Overlay, store
  <2>2. Loaded' = Loaded
    BY <1>3 DEF Loaded
  <2> QED
    BY <1>1, <1>2, <1>3, <2>1, <2>2 DEF TxFromBatch, store
<1>4. ASSUME tx' = EmptyTx PROVE TxFromBatch'
  <2>1. /\ \A e \in EventIds : tx'.market[e] = NoRow
        /\ \A k \in Keys : tx'.summaries[k] = NoRow
        /\ tx'.errors = {}
    BY <1>4 DEF EmptyTx
  <2> QED
    BY <2>1 DEF TxFromBatch, Loaded
<1>5. tx.errors \in {{}, Refusals}
  BY DEF TxFromBatch
<1>6. ASSUME NEW b, Raise(b) PROVE TxFromBatch'
  BY <1>3, <1>5, <1>6 DEF Raise
<1>7. ASSUME DbFails PROVE TxFromBatch'
  BY <1>6, <1>7 DEF DbFails
<1>8. CASE SaveValidationErrors
  <2>1. /\ tx'.errors = tx.errors \cup Refusals
        /\ tx'.market = tx.market /\ tx'.summaries = tx.summaries
        /\ UNCHANGED <<store, aborted>>
    BY <1>8 DEF SaveValidationErrors, SaveErrors, BatchTypeOK, TxType, Refusals
  <2>2. tx.errors = {}
    BY <1>8 DEF SaveValidationErrors, TxStages
  <2> QED
    BY <1>3, <2>1, <2>2
<1>9. CASE SavePipelineRun
  <2>1. /\ tx'.errors = tx.errors
        /\ tx'.market = tx.market /\ tx'.summaries = tx.summaries
        /\ UNCHANGED <<store, aborted>>
    BY <1>9 DEF SavePipelineRun, SaveRun, BatchTypeOK, TxType
  <2> QED
    BY <1>3, <1>5, <2>1
<1>10. CASE InsertChunk
  <2> DEFINE C == FirstOf(todo, ChunkSize)
  <2>1. C \subseteq todo /\ C \in SUBSET DOMAIN batch
    BY PositionsType DEF FirstOf, BatchTypeOK
  <2>2. tx' = InsertRecords(tx, ValuesOf(C)) /\ pc = "records" /\ UNCHANGED store
    BY <1>10 DEF InsertChunk
  <2>3. C \subseteq Valid
    BY <2>1, <2>2 DEF TxStages
  <2> HIDE DEF C
  <2>4. /\ tx'.errors = tx.errors /\ tx'.summaries = tx.summaries
        /\ \A e \in EventIds :
             \/ tx'.market[e] = tx.market[e]
             \/ /\ tx.market[e] = NoRow /\ market[e] = NoRow
                /\ \E i \in C : batch[i].event_id = e /\ tx'.market[e] = RowOf(i)
    BY <2>1, <2>2, InsertRecordsType
  <2>5. \A k \in Keys : tx'.summaries[k] = NoRow
    BY <2>2, <2>4 DEF TxStages, Stages
  <2>6. ASSUME NEW e \in Loaded'
        PROVE  /\ market[e] = NoRow
               /\ \E i \in Valid : batch[i].event_id = e /\ tx'.market[e] = RowOf(i)
    <3>1. e \in EventIds /\ tx'.market[e] # NoRow
      BY <2>6 DEF Loaded
    <3>2. CASE tx'.market[e] = tx.market[e]
      <4>1. e \in Loaded
        BY <3>1, <3>2 DEF Loaded
      <4> QED
        BY <3>2, <4>1 DEF TxFromBatch
    <3>3. CASE tx'.market[e] # tx.market[e]
      BY <2>3, <2>4, <3>1, <3>3
    <3> QED
      BY <3>2, <3>3
  <2> QED
    BY <1>1, <1>2, <1>5, <2>2, <2>4, <2>5, <2>6 DEF TxFromBatch, store
<1>11. CASE UpsertDailySummaries
  <2>1. PICK first \in [Touched -> DOMAIN batch] :
           /\ \A k \in Touched : first[k] \in Earliest(k)
           /\ tx' = UpsertSummaries(tx, [k \in Touched |-> Summary(k, first[k])])
    BY <1>11 DEF UpsertDailySummaries
  <2> DEFINE new == [k \in Touched |-> Summary(k, first[k])]
  <2>2. new \in [Touched -> SummaryRow] /\ Touched \in SUBSET Keys
    BY SummaryType DEF Touched
  <2>3. \A k \in Touched : /\ new[k].trades = {<<i, batch[i].origin>> : i \in Group(k)}
                           /\ \E i \in Group(k) : new[k].open = batch[i].origin
    BY <2>1 DEF Summary, Earliest
  <2>4. tx' = UpsertSummaries(tx, new)
    BY <2>1
  <2> HIDE DEF new
  <2>5. /\ tx'.market = tx.market /\ tx'.errors = tx.errors
        /\ \A k \in Keys \ Touched : tx'.summaries[k] = tx.summaries[k]
        /\ \A k \in Touched :
             LET old == Overlay(tx.summaries, summaries)[k]
             IN  /\ tx'.summaries[k].trades = new[k].trades
                 /\ tx'.summaries[k].open = IF old = NoRow THEN new[k].open ELSE old.open
    BY <2>2, <2>4, UpsertSummariesType
  <2>6. pc = "summaries" /\ UNCHANGED store
    BY <1>11 DEF UpsertDailySummaries
  <2>7. \A k \in Keys : tx.summaries[k] = NoRow
    BY <2>6 DEF TxStages, Stages
  <2>8. \A k \in Keys : Overlay(tx.summaries, summaries)[k] = summaries[k]
    BY <2>7 DEF Overlay, StoreTypeOK
  <2>9. \A i \in Valid : Accepted(i)'
    <3>1. \A i \in Valid : Accepted(i)
      BY <2>6 DEF StageInv
    <3> QED
      BY <1>1, <2>5, <2>6, <3>1 DEF Accepted, Overlay, store
  <2>10. Loaded' = Loaded
    BY <2>5 DEF Loaded
  <2>11. ASSUME NEW k \in Keys, tx'.summaries[k] # NoRow
         PROVE  /\ k \in Touched
                /\ tx'.summaries[k].trades = {<<i, batch[i].origin>> : i \in Group(k)}
                /\ summaries[k] # NoRow => tx'.summaries[k].open = summaries[k].open
                /\ summaries[k] = NoRow =>
                     \E i \in Group(k) : tx'.summaries[k].open = batch[i].origin
                /\ \A i \in Group(k) : Accepted(i)'
    <3>1. k \in Touched
      BY <2>5, <2>7, <2>11
    <3>2. Group(k) \subseteq Valid
      BY DEF Group
    <3> QED
      BY <2>3, <2>5, <2>8, <2>9, <3>1, <3>2
  <2> QED
    BY <1>1, <1>2, <1>5, <2>5, <2>6, <2>10, <2>11 DEF TxFromBatch, store
<1>12. CASE \/ Clean(dltEnabled) \/ CleanRaises \/ SendToDlt \/ SendToDltFails
            \/ DltDone \/ Normalize \/ RecordsDone
  <2>1. UNCHANGED <<store, tx, aborted>>
    BY <1>12 DEF Clean, CleanRaises, SendToDlt, SendToDltFails, DltDone, Normalize,
       RecordsDone
  <2> QED
    BY <2>1, <1>3, <1>5
<1>13. CASE \/ SaveValidationErrorsFails \/ NormalizeRaises \/ InsertChunkFails
            \/ UpsertDailySummariesFails \/ SavePipelineRunFails
  BY <1>6, <1>7, <1>13 DEF SaveValidationErrorsFails, NormalizeRaises,
     InsertChunkFails, UpsertDailySummariesFails, SavePipelineRunFails
<1>14. CASE Commit \/ CommitFails
  BY <1>4, <1>14 DEF Commit, CommitFails
<1> QED
  BY <1>8, <1>9, <1>10, <1>11, <1>12, <1>13, <1>14 DEF ProcessStep

\* Every stage leaves what the next one finds.
LEMMA TxStagesStep ==
  ASSUME StoreTypeOK, BatchTypeOK, TxFromBatch, TxStages,
         NEW dltEnabled \in BOOLEAN, ProcessStep(dltEnabled)
  PROVE  TxStages'
<1>1. batch' = batch /\ runId' = runId
  BY ProcessStepType
<1>2. Valid' = Valid /\ Invalid' = Invalid /\ Touched' = Touched /\ Refusals' = Refusals
  BY <1>1, SameBatch DEF Touched, Group, Refusals, ErrorFor
<1>3. ASSUME pc' \notin Stages PROVE TxStages'
  BY <1>3 DEF TxStages, Stages
<1>4. ASSUME NEW b, Raise(b) PROVE TxStages'
  BY <1>3, <1>4 DEF Raise, Stages
<1>5. ASSUME DbFails PROVE TxStages'
  BY <1>4, <1>5 DEF DbFails
<1>6. run \in RunRow /\ tx \in TxType
  BY DEF BatchTypeOK
<1>7. CASE Clean(dltEnabled)
  <2>1. run = NewRun /\ pc = "clean"
    BY <1>7 DEF Clean, TxStages
  <2>2. Len(batch) \in Nat /\ Cardinality(Valid) \in Nat /\ Cardinality(Invalid) \in Nat
    BY PositionsType
  <2>3. /\ run'.extracted = Len(batch) /\ run'.valid = Cardinality(Valid)
        /\ run'.invalid = Cardinality(Invalid)
        /\ run'.loaded = 0 /\ run'.status = "running"
    BY <1>7, <2>1, <2>2 DEF Clean, NewRun
  <2>4. pc' = "dlt" /\ UNCHANGED <<store, tx, aborted>>
    BY <1>7 DEF Clean
  <2> QED
    BY <1>1, <1>2, <2>1, <2>3, <2>4 DEF TxStages, Stages, Loaded, store
<1>8. CASE SendToDlt
  BY <1>1, <1>2, <1>8 DEF SendToDlt, TxStages, Stages, Loaded, store
<1>9. CASE DltDone
  BY <1>1, <1>2, <1>9 DEF DltDone, TxStages, Stages, Loaded, store
<1>10. CASE SaveValidationErrors
  <2>1. /\ tx'.errors = tx.errors \cup Refusals
        /\ tx'.market = tx.market /\ tx'.summaries = tx.summaries /\ tx'.run = tx.run
    BY <1>6, <1>10 DEF SaveValidationErrors, SaveErrors, TxType, Refusals
  <2>2. pc = "errors" /\ pc' = "normalize" /\ UNCHANGED <<store, run, aborted>>
    BY <1>10 DEF SaveValidationErrors
  <2>3. Loaded' = Loaded
    BY <2>1 DEF Loaded
  <2> QED
    BY <1>1, <1>2, <2>1, <2>2, <2>3 DEF TxStages, Stages, store
<1>11. CASE Normalize
  BY <1>1, <1>2, <1>11 DEF Normalize, TxStages, Stages, Loaded, store
<1>12. CASE InsertChunk
  <2> DEFINE C == FirstOf(todo, ChunkSize)
  <2>1. C \in SUBSET DOMAIN batch
    BY PositionsType DEF FirstOf, BatchTypeOK
  <2>2. /\ tx' = InsertRecords(tx, ValuesOf(C)) /\ pc = "records" /\ pc' = "records"
        /\ todo' \subseteq todo /\ UNCHANGED <<store, run, aborted>>
    BY <1>12 DEF InsertChunk
  <2> HIDE DEF C
  <2>3. tx'.errors = tx.errors /\ tx'.summaries = tx.summaries /\ tx'.run = tx.run
    BY <2>1, <2>2, InsertRecordsType
  <2> QED
    BY <1>1, <1>2, <2>2, <2>3 DEF TxStages, Stages, store
<1>13. CASE RecordsDone
  <2>1. run.loaded = 0 /\ Cardinality(Loaded) \in Nat
    BY <1>13, BatchCounts DEF RecordsDone, TxStages
  <2>2. /\ run'.loaded = Cardinality(Loaded)
        /\ run'.extracted = run.extracted /\ run'.valid = run.valid
        /\ run'.invalid = run.invalid /\ run'.status = run.status
    BY <1>6, <1>13, <2>1 DEF RecordsDone, Loaded, RunRow
  <2>3. pc = "records" /\ pc' = "summaries" /\ UNCHANGED <<store, tx, aborted>>
    BY <1>13 DEF RecordsDone
  <2>4. Loaded' = Loaded
    BY <2>3 DEF Loaded
  <2> QED
    BY <1>1, <1>2, <2>2, <2>3, <2>4 DEF TxStages, Stages, store
<1>14. CASE UpsertDailySummaries
  <2>1. PICK first \in [Touched -> DOMAIN batch] :
           tx' = UpsertSummaries(tx, [k \in Touched |-> Summary(k, first[k])])
    BY <1>14 DEF UpsertDailySummaries
  <2> DEFINE new == [k \in Touched |-> Summary(k, first[k])]
  <2>2. new \in [Touched -> SummaryRow] /\ Touched \in SUBSET Keys
    BY SummaryType DEF Touched
  <2>3. tx' = UpsertSummaries(tx, new)
    BY <2>1
  <2> HIDE DEF new
  <2>4. /\ tx'.market = tx.market /\ tx'.errors = tx.errors /\ tx'.run = tx.run
        /\ \A k \in Touched : tx'.summaries[k] \in SummaryRow
    BY <2>2, <2>3, UpsertSummariesType
  <2>5. /\ pc = "summaries" /\ pc' = "saverun"
        /\ UNCHANGED <<store, run, aborted>>
    BY <1>14 DEF UpsertDailySummaries
  <2>6. Loaded' = Loaded
    BY <2>4 DEF Loaded
  <2>7. \A k \in Touched : tx'.summaries[k] # NoRow
    BY <2>4, NoRowAssumption
  <2> QED
    BY <1>1, <1>2, <2>4, <2>5, <2>6, <2>7 DEF TxStages, Stages, store
<1>15. CASE SavePipelineRun
  <2>1. /\ tx'.errors = tx.errors /\ tx'.run = run
        /\ tx'.market = tx.market /\ tx'.summaries = tx.summaries
    BY <1>6, <1>15 DEF SavePipelineRun, SaveRun, TxType
  <2>2. pc = "saverun" /\ pc' = "commit" /\ UNCHANGED <<store, run, aborted>>
    BY <1>15 DEF SavePipelineRun
  <2>3. Loaded' = Loaded
    BY <2>1 DEF Loaded
  <2> QED
    BY <1>1, <1>2, <2>1, <2>2, <2>3 DEF TxStages, Stages, store
<1>16. CASE CleanRaises \/ SendToDltFails \/ CommitFails \/ Commit
  <2>1. pc' \notin Stages
    BY <1>16 DEF CleanRaises, SendToDltFails, CommitFails, Commit, Stages
  <2> QED
    BY <2>1, <1>3
<1>17. CASE \/ SaveValidationErrorsFails \/ NormalizeRaises \/ InsertChunkFails
            \/ UpsertDailySummariesFails \/ SavePipelineRunFails
  BY <1>4, <1>5, <1>17 DEF SaveValidationErrorsFails, NormalizeRaises,
     InsertChunkFails, UpsertDailySummariesFails, SavePipelineRunFails
<1> QED
  BY <1>7, <1>8, <1>9, <1>10, <1>11, <1>12, <1>13, <1>14, <1>15, <1>16, <1>17
     DEF ProcessStep

\* A stage that raises without aborting the transaction leaves it, and what
\* the counters of its run tell of it.
LEMMA FailureKeeps ==
  ASSUME StoreTypeOK, BatchTypeOK, TxFromBatch, TxStages,
         NEW dltEnabled \in BOOLEAN, ProcessStep(dltEnabled),
         pc' = "except", ~ aborted'
  PROVE  /\ UNCHANGED <<store, tx, aborted>>
         /\ run'.status = "running" /\ RunFits'
<1>1. pc \in Stages
  BY DEF ProcessStep, Stages, Clean, CleanRaises, SendToDlt, SendToDltFails, DltDone,
     SaveValidationErrors, SaveValidationErrorsFails, Normalize, NormalizeRaises,
     InsertChunk, InsertChunkFails, RecordsDone, UpsertDailySummaries,
     UpsertDailySummariesFails, SavePipelineRun, SavePipelineRunFails, Commit, CommitFails
<1>2. RunFits /\ run.status = "running" /\ run \in RunRow
  BY <1>1, FailureFits DEF TxStages, BatchTypeOK
<1>3. ASSUME NEW b, Raise(b) PROVE UNCHANGED <<store, tx, run, aborted>>
  BY <1>1, <1>3 DEF Raise, BatchTypeOK, TxStages
<1>4. ASSUME DbFails PROVE UNCHANGED <<store, tx, run, aborted>>
  BY <1>3, <1>4 DEF DbFails
<1>5. CASE CleanRaises
  BY <1>2, <1>5 DEF CleanRaises, RunRow, RunFits, Loaded
<1>6. CASE UNCHANGED <<store, tx, run, aborted>>
  BY <1>2, <1>6 DEF RunFits, Loaded
<1>7. CASE \/ SaveValidationErrorsFails \/ NormalizeRaises \/ InsertChunkFails
           \/ UpsertDailySummariesFails \/ SavePipelineRunFails
  BY <1>3, <1>4, <1>6, <1>7 DEF SaveValidationErrorsFails, NormalizeRaises,
     InsertChunkFails, UpsertDailySummariesFails, SavePipelineRunFails
<1>8. CASE SendToDltFails
  BY <1>6, <1>8 DEF SendToDltFails
<1>9. CASE CommitFails
  BY <1>9 DEF CommitFails
<1>10. CASE \/ Clean(dltEnabled) \/ SendToDlt \/ DltDone \/ SaveValidationErrors
            \/ Normalize \/ InsertChunk \/ RecordsDone \/ UpsertDailySummaries
            \/ SavePipelineRun \/ Commit
  BY <1>1, <1>10 DEF Stages, Clean, SendToDlt, DltDone, SaveValidationErrors, Normalize,
     InsertChunk, RecordsDone, UpsertDailySummaries, SavePipelineRun, Commit
<1> QED
  BY <1>5, <1>7, <1>8, <1>9, <1>10 DEF ProcessStep

-----------------------------------------------------------------------------
(* What its commit adds to the tables.                                     *)

\* A commit of the batch's transaction replaces no stored record, no open
\* price and no refusal.
LEMMA CommitKeepsRows ==
  ASSUME StoreTypeOK, BatchTypeOK, TxFromBatch, ~ aborted, CommitTx(tx, runId)
  PROVE  /\ \A e \in EventIds : market[e] # NoRow => market'[e] = market[e]
         /\ \A k \in Keys : summaries[k] # NoRow =>
              summaries'[k] # NoRow /\ summaries'[k].open = summaries[k].open
         /\ errors \subseteq errors'
<1>1. /\ \A e \in EventIds : market'[e] = IF tx.market[e] # NoRow THEN tx.market[e] ELSE market[e]
      /\ \A k \in Keys : summaries'[k] =
           IF tx.summaries[k] # NoRow THEN tx.summaries[k] ELSE summaries[k]
      /\ errors' = errors \cup tx.errors
  BY DEF CommitTx, Overlay, StoreTypeOK
<1>2. \A e \in EventIds : market[e] # NoRow => market'[e] = market[e]
  BY <1>1 DEF TxFromBatch, Loaded
<1>3. ASSUME NEW k \in Keys, summaries[k] # NoRow
      PROVE  summaries'[k] # NoRow /\ summaries'[k].open = summaries[k].open
  BY <1>1, <1>3 DEF TxFromBatch
<1> QED
  BY <1>1, <1>2, <1>3

\* With the batch's transaction come the rows of its run, and of no other.
LEMMA CommitOfRun ==
  ASSUME StoreTypeOK, BatchTypeOK, TxFromBatch, RunsAreKept,
         runId \in DOMAIN runs, runs[runId] = NoRow, tx.run # NoRow,
         CommitTx(tx, runId), runId' = runId
  PROVE  /\ DOMAIN runs' = DOMAIN runs
         /\ runs'[runId] = tx.run
         /\ StoredBy(runId)' = Loaded /\ RefusedBy(runId)' = tx.errors
         /\ \A r \in DOMAIN runs \ {runId} : /\ runs'[r] = runs[r]
                                             /\ StoredBy(r)' = StoredBy(r)
                                             /\ RefusedBy(r)' = RefusedBy(r)
         /\ RunsAreKept'
<1>1. /\ market' = Overlay(tx.market, market)
      /\ \A e \in EventIds : market'[e] = IF tx.market[e] # NoRow THEN tx.market[e] ELSE market[e]
      /\ errors' = errors \cup tx.errors
      /\ runs' = [runs EXCEPT ![runId] = tx.run]
  BY DEF CommitTx, Overlay, StoreTypeOK
<1>2. /\ DOMAIN runs' = DOMAIN runs /\ runs'[runId] = tx.run
      /\ \A r \in DOMAIN runs \ {runId} : runs'[r] = runs[r]
  BY <1>1 DEF StoreTypeOK
<1>3. \A e \in Loaded : market[e] = NoRow /\ tx.market[e] # NoRow /\ tx.market[e].run = runId
  <2>1. TAKE e \in Loaded
  <2>2. PICK i \in Valid : tx.market[e] = RowOf(i)
    BY DEF TxFromBatch
  <2> QED
    BY <2>2 DEF TxFromBatch, RowOf, Loaded
<1>4. \A x \in tx.errors : x.run = runId
  BY DEF TxFromBatch, Refusals, ErrorFor
<1>5. /\ \A e \in EventIds : market[e] # NoRow => market[e].run # runId
      /\ \A x \in errors : x.run # runId
  BY DEF RunsAreKept
<1>6. \A e \in EventIds : \/ e \in Loaded /\ market'[e] = tx.market[e]
                          \/ e \notin Loaded /\ market'[e] = market[e]
  BY <1>1 DEF Loaded
<1>7. Loaded \subseteq EventIds
  BY DEF Loaded
<1>8. StoredBy(runId)' = Loaded
  BY <1>3, <1>5, <1>6, <1>7 DEF StoredBy
<1>9. RefusedBy(runId)' = tx.errors
  BY <1>1, <1>4, <1>5 DEF RefusedBy
<1>10. ASSUME NEW r \in DOMAIN runs \ {runId}
       PROVE  StoredBy(r)' = StoredBy(r) /\ RefusedBy(r)' = RefusedBy(r)
  <2>1. StoredBy(r)' = StoredBy(r)
    BY <1>3, <1>6, <1>10 DEF StoredBy
  <2>2. RefusedBy(r)' = RefusedBy(r)
    BY <1>1, <1>4, <1>10 DEF RefusedBy
  <2> QED
    BY <2>1, <2>2
<1>11. RunsAreKept'
  <2>1. \A e \in EventIds : market'[e] # NoRow =>
          market'[e].run \in DOMAIN runs' /\ runs'[market'[e].run] # NoRow
    BY <1>2, <1>3, <1>6 DEF RunsAreKept
  <2>2. \A x \in errors' : x.run \in DOMAIN runs' /\ runs'[x.run] # NoRow
    BY <1>1, <1>2, <1>4 DEF RunsAreKept
  <2> QED
    BY <2>1, <2>2 DEF RunsAreKept
<1> QED
  BY <1>2, <1>8, <1>9, <1>10, <1>11

\* The second commit of a run, after its rows are in, changes its row only.
LEMMA CommitOfRunRow ==
  ASSUME StoreTypeOK, NEW row \in RunRow, NEW id \in DOMAIN runs,
         CommitTx(SaveRun(EmptyTx, row), id)
  PROVE  /\ UNCHANGED <<market, summaries, errors>>
         /\ DOMAIN runs' = DOMAIN runs /\ runs'[id] = row
         /\ \A r \in DOMAIN runs \ {id} : runs'[r] = runs[r]
<1> DEFINE t == SaveRun(EmptyTx, row)
<1>1. /\ t.market = [e \in EventIds |-> NoRow] /\ t.summaries = [k \in Keys |-> NoRow]
      /\ t.errors = {} /\ t.run = row
  BY DEF SaveRun, EmptyTx
<1>2. row # NoRow
  BY NoRowAssumption
<1> HIDE DEF t
<1>3. CommitTx(t, id)
  BY DEF t
<1>4. Overlay(t.market, market) = market /\ Overlay(t.summaries, summaries) = summaries
  BY <1>1 DEF Overlay, StoreTypeOK
<1>5. runs' = [runs EXCEPT ![id] = row]
  BY <1>1, <1>2, <1>3 DEF CommitTx
<1> QED
  BY <1>1, <1>3, <1>4, <1>5 DEF CommitTx, StoreTypeOK

\* Tables that stay say the same of every run, new runs too.
LEMMA SameTables ==
  ASSUME UNCHANGED <<market, errors>>
  PROVE  \A r : StoredBy(r)' = StoredBy(r) /\ RefusedBy(r)' = RefusedBy(r)
BY DEF StoredBy, RefusedBy

-----------------------------------------------------------------------------
(* The dead letter topic.                                                  *)

\* What is on the dead letter topic stays there, and what a step adds is the
\* entry of a record of the batch.
LEMMA DltStep ==
  ASSUME StoreTypeOK, BatchTypeOK, NEW dltEnabled \in BOOLEAN, ProcessStep(dltEnabled)
  PROVE  /\ dlt \subseteq dlt'
         /\ \A x \in dlt' \ dlt : \E i \in Parsed : x = ErrorFor(i)
<1>1. todo \subseteq Parsed
  BY DEF BatchTypeOK
<1>2. CASE SendToDlt
  BY <1>1, <1>2 DEF SendToDlt, FirstOf
<1>3. CASE SendToDltFails
  BY <1>1, <1>3 DEF SendToDltFails, FirstOf
<1>4. CASE dlt' = dlt
  BY <1>4
<1> QED
  BY <1>2, <1>3, <1>4 DEF ProcessStep, Raise, DbFails, Clean, CleanRaises, DltDone,
     SaveValidationErrors, SaveValidationErrorsFails, Normalize, NormalizeRaises,
     InsertChunk, InsertChunkFails, RecordsDone, UpsertDailySummaries,
     UpsertDailySummariesFails, SavePipelineRun, SavePipelineRunFails, Commit, CommitFails

-----------------------------------------------------------------------------
(* The steps of both modes.                                                *)

\* The steps that reach the tables: a run is registered, or its batch is
\* committed.
NewRunStep == /\ runs' = Append(runs, NoRow)
              /\ runId' = Len(runs) + 1
              /\ UNCHANGED <<market, summaries, errors>>
BatchCommit == /\ pc = "commit"
               /\ CommitTx(tx, runId)
               /\ UNCHANGED <<batch, runId>>

\* A registered run leaves the rows of the others, and has none yet.
LEMMA NewRunKeeps ==
  ASSUME StoreTypeOK, NewRunStep
  PROVE  /\ Len(runs) \in Nat /\ DOMAIN runs = 1 .. Len(runs)
         /\ DOMAIN runs' = DOMAIN runs \cup {Len(runs) + 1}
         /\ \A r \in DOMAIN runs : runs'[r] = runs[r]
         /\ runs'[Len(runs) + 1] = NoRow
<1>1. runs \in Seq(RunRow \cup {NoRow}) /\ runs' = Append(runs, NoRow)
  BY DEF StoreTypeOK, NewRunStep
<1> QED
  BY <1>1

\* A stage reaches the tables with the commit only.
LEMMA ProcessTables ==
  ASSUME StoreTypeOK, BatchTypeOK, NEW dltEnabled \in BOOLEAN, ProcessStep(dltEnabled)
  PROVE  UNCHANGED store \/ BatchCommit
<1>1. batch' = batch /\ runId' = runId
  BY ProcessStepType
<1>2. UNCHANGED store \/ CommitTx(tx, runId)
  BY ProcessStepEffect
<1>3. UNCHANGED store \/ pc = "commit"
  BY DEF ProcessStep, Raise, DbFails, Clean, CleanRaises, SendToDlt,
     SendToDltFails, DltDone, SaveValidationErrors, SaveValidationErrorsFails,
     Normalize, NormalizeRaises, InsertChunk, InsertChunkFails, RecordsDone,
     UpsertDailySummaries, UpsertDailySummariesFails, SavePipelineRun,
     SavePipelineRunFails, Commit, CommitFails
<1> QED
  BY <1>1, <1>2, <1>3 DEF BatchCommit

\* Before the first commit of a run there is nothing of it in the tables,
\* and its transaction holds its row.
LEMMA AtBatchCommit ==
  ASSUME BatchTypeOK, TxStages, BatchCommit
  PROVE  /\ runId \in DOMAIN runs /\ runs[runId] = NoRow
         /\ tx.run = run /\ run \in RunRow /\ run # NoRow
         /\ run.status = "running"
         /\ run.extracted = Len(batch)
         /\ run.valid = Cardinality(Valid)
         /\ run.invalid = Cardinality(Invalid)
         /\ run.loaded = Cardinality(Loaded)
         /\ tx.errors = Refusals
<1>1. run \in RunRow
  BY DEF BatchTypeOK
<1>2. run # NoRow
  BY <1>1, NoRowAssumption
<1> QED
  BY <1>1, <1>2 DEF TxStages, Stages, BatchCommit

\* Nothing of a batch is in a transaction that holds a run row at most.
LEMMA NothingFromBatch ==
  ASSUME NEW row, tx' \in {EmptyTx, SaveRun(EmptyTx, row)}
  PROVE  TxFromBatch'
<1>1. /\ \A e \in EventIds : tx'.market[e] = NoRow
      /\ \A k \in Keys : tx'.summaries[k] = NoRow
      /\ tx'.errors = {}
  BY DEF EmptyTx, SaveRun
<1> QED
  BY <1>1 DEF TxFromBatch, Loaded

\* The transaction is of the batch as long as neither, nor the tables, change:
\* saving the run in it does not matter.
LEMMA SameFromBatch ==
  ASSUME TxFromBatch, UNCHANGED <<store, batch, runId>>, aborted => aborted',
         tx'.market = tx.market, tx'.summaries = tx.summaries, tx'.errors = tx.errors
  PROVE  TxFromBatch'
<1>1. /\ Valid' = Valid /\ Invalid' = Invalid /\ Touched' = Touched
      /\ Refusals' = Refusals /\ Loaded' = Loaded
      /\ \A k : Group(k)' = Group(k)
      /\ \A i : RowOf(i)' = RowOf(i)
      /\ \A i : Accepted(i)' = Accepted(i)
  BY SameBatch DEF Touched, Group, RowOf, Refusals, ErrorFor, Loaded, Accepted,
     Overlay, store
<1> QED
  BY <1>1 DEF TxFromBatch, store

\* What the stages find stays there as long as nothing changes.
LEMMA SameStages ==
  ASSUME TxStages, UNCHANGED <<store, pc, batch, run, runId, todo, tx, aborted>>
  PROVE  TxStages'
<1>1. /\ Valid' = Valid /\ Invalid' = Invalid /\ Touched' = Touched
      /\ Refusals' = Refusals /\ Loaded' = Loaded
  BY SameBatch DEF Touched, Group, Refusals, ErrorFor, Loaded
<1> QED
  BY <1>1 DEF TxStages, store

-----------------------------------------------------------------------------
(* What a worker does to the tables, as far as it concerns who reads them  *)
(* or also writes them.                                                    *)

\* The run has its rows in the tables, and gets its outcome.
RunCompletes ==
  /\ UNCHANGED <<market, summaries, errors>>
  /\ runId \in DOMAIN runs /\ DOMAIN runs' = DOMAIN runs
  /\ runs[runId] \in RunRow /\ runs[runId].status = "running"
  /\ runs'[runId] = [runs[runId] EXCEPT !.status = "completed"]
  /\ \A r \in DOMAIN runs \ {runId} : runs'[r] = runs[r]

\* A run's row comes, and with it its refusals, all or, of a failed run, none.
RowOfRunComes ==
  /\ runId \in DOMAIN runs /\ DOMAIN runs' = DOMAIN runs
  /\ runs[runId] = NoRow /\ runs'[runId] \in RunRow
  /\ IsFiniteSet(RefusedBy(runId)')
  /\ \/ Cardinality(RefusedBy(runId)') = runs'[runId].invalid
     \/ RefusedBy(runId)' = {} /\ runs'[runId].status = "failed"
  /\ \A x \in errors' \ errors : x.run = runId
  /\ \A r \in DOMAIN runs \ {runId} : /\ runs'[r] = runs[r]
                                      /\ RefusedBy(r)' = RefusedBy(r)

\* The trade of position i of the batch is stored by now.
GetsStored(i) == market'[batch[i].event_id] # NoRow

\* Records and summaries come, none is replaced: records of the batch, whose
\* days have a summary unless the run failed, and summaries of stored records,
\* with the open the day has or one of theirs.
RecordsCome ==
  /\ \A e \in EventIds : market'[e] # NoRow =>
       \/ market'[e] = market[e]
       \/ /\ market[e] = NoRow
          /\ \E i \in DOMAIN batch : batch[i].event_id = e /\ market'[e] = RowOf(i)
          /\ \/ summaries'[market'[e].key] # NoRow
             \/ runs'[runId].status = "failed"
  /\ \A k \in Keys : summaries'[k] # NoRow =>
       \/ summaries'[k] = summaries[k]
       \/ /\ \A t \in summaries'[k].trades :
               \E i \in DOMAIN batch : t[2] = batch[i].origin /\ GetsStored(i)
          /\ \/ summaries[k] # NoRow /\ summaries'[k].open = summaries[k].open
             \/ \E i \in DOMAIN batch :
                  summaries'[k].open = batch[i].origin /\ GetsStored(i)

\* Nothing that is stored is lost or changed.
RowsStand ==
  /\ \A e \in EventIds : market[e] # NoRow => market'[e] = market[e]
  /\ \A k \in Keys : summaries[k] # NoRow =>
       summaries'[k] # NoRow /\ summaries'[k].open = summaries[k].open
  /\ errors \subseteq errors'

BatchRows == RowsStand /\ RecordsCome /\ RowOfRunComes

\* That is what the commit of a batch's transaction does.
LEMMA CommitIsBatchRows ==
  ASSUME StoreTypeOK, BatchTypeOK, TxFromBatch, RunsAreKept, ~ aborted,
         runId \in DOMAIN runs, runs[runId] = NoRow, tx.run \in RunRow,
         CommitTx(tx, runId), runId' = runId,
         \/ tx.run.status = "failed"
         \/ \A k \in Touched : tx.summaries[k] # NoRow,
         \/ Cardinality(tx.errors) = tx.run.invalid
         \/ tx.errors = {} /\ tx.run.status = "failed"
  PROVE  BatchRows
<1>1. RowsStand
  BY CommitKeepsRows DEF RowsStand
<1>2. /\ \A e \in EventIds : market'[e] = IF tx.market[e] # NoRow THEN tx.market[e] ELSE market[e]
      /\ \A k \in Keys : summaries'[k] =
           IF tx.summaries[k] # NoRow THEN tx.summaries[k] ELSE summaries[k]
  BY DEF CommitTx, Overlay, StoreTypeOK
<1>3. tx.run # NoRow
  BY NoRowAssumption
<1>4. /\ DOMAIN runs' = DOMAIN runs /\ runs'[runId] = tx.run
      /\ RefusedBy(runId)' = tx.errors
      /\ \A r \in DOMAIN runs \ {runId} : /\ runs'[r] = runs[r]
                                          /\ RefusedBy(r)' = RefusedBy(r)
  BY <1>3, CommitOfRun
<1>5. RowOfRunComes
  <2>1. IsFiniteSet(tx.errors)
    BY BatchCounts, FS_EmptySet DEF TxFromBatch
  <2>2. \A x \in errors' \ errors : x.run = runId
    BY DEF CommitTx, TxFromBatch, Refusals, ErrorFor
  <2> QED
    BY <1>4, <2>1, <2>2 DEF RowOfRunComes
<1>6. Valid \subseteq DOMAIN batch /\ \A k : Group(k) \subseteq Valid
  BY PositionsType DEF Group
<1>8. ASSUME NEW e \in EventIds, market'[e] # NoRow, market'[e] # market[e]
      PROVE  /\ market[e] = NoRow
             /\ \E i \in DOMAIN batch : batch[i].event_id = e /\ market'[e] = RowOf(i)
             /\ summaries'[market'[e].key] # NoRow \/ runs'[runId].status = "failed"
  <2>1. e \in Loaded /\ market'[e] = tx.market[e]
    BY <1>2, <1>8 DEF Loaded
  <2>2. PICK i \in Valid : batch[i].event_id = e /\ tx.market[e] = RowOf(i)
    BY <2>1 DEF TxFromBatch
  <2>3. market[e] = NoRow
    BY <2>1 DEF TxFromBatch
  <2>4. market'[e].key = batch[i].key /\ batch[i].key \in Keys
    BY <1>6, <2>1, <2>2, PositionsType DEF RowOf, Message
  <2>5. batch[i].key \in Touched
    BY <2>4 DEF Touched, Group
  <2>6. summaries'[market'[e].key] # NoRow \/ runs'[runId].status = "failed"
    BY <1>2, <1>4, <2>4, <2>5
  <2> QED
    BY <1>6, <2>1, <2>2, <2>3, <2>6
<1>9. ASSUME NEW k \in Keys, summaries'[k] # NoRow, summaries'[k] # summaries[k]
      PROVE  /\ \A t \in summaries'[k].trades :
                  \E i \in DOMAIN batch : t[2] = batch[i].origin /\ GetsStored(i)
             /\ \/ summaries[k] # NoRow /\ summaries'[k].open = summaries[k].open
                \/ \E i \in DOMAIN batch :
                     summaries'[k].open = batch[i].origin /\ GetsStored(i)
  <2>1. summaries'[k] = tx.summaries[k] /\ tx.summaries[k] # NoRow
    BY <1>2, <1>9
  <2>2. /\ summaries'[k].trades = {<<i, batch[i].origin>> : i \in Group(k)}
        /\ summaries[k] # NoRow => summaries'[k].open = summaries[k].open
        /\ summaries[k] = NoRow => \E i \in Group(k) : summaries'[k].open = batch[i].origin
        /\ \A i \in Group(k) : Accepted(i)
    BY <2>1 DEF TxFromBatch
  <2>3. \A i \in Group(k) : i \in DOMAIN batch /\ GetsStored(i)
    <3>1. ASSUME NEW i \in Group(k) PROVE GetsStored(i)
      <4>1. Overlay(tx.market, market)[batch[i].event_id] # NoRow
        BY <2>2 DEF Accepted
      <4> QED
        BY <4>1 DEF GetsStored, CommitTx
    <3> QED
      BY <1>6, <3>1
  <2> QED
    BY <2>2, <2>3
<1>10. RecordsCome
  BY <1>8, <1>9 DEF RecordsCome
<1> QED
  BY <1>1, <1>5, <1>10 DEF BatchRows

\* What a step of a worker does to the tables.
WorkerEffect ==
  \/ UNCHANGED store
  \/ NewRunStep
  \/ BatchRows /\ runId' = runId
  \/ RunCompletes

-----------------------------------------------------------------------------
(* What another writer of the tables leaves of a worker's run in hand.     *)

\* Another writer adds rows, of other ids than the batch's and of other runs.
OthersAdd ==
  /\ OnlyAdds
  /\ \A i \in DOMAIN batch : market'[batch[i].event_id] = market[batch[i].event_id]
  /\ runId \in DOMAIN runs => runId \in DOMAIN runs' /\ runs'[runId] = runs[runId]
  /\ \A k \in Keys : summaries[k] # NoRow => summaries'[k] # NoRow

\* What the transaction sees, it goes on seeing.
LEMMA AcceptedBesideOthers ==
  ASSUME StoreTypeOK, StoreTypeOK', BatchTypeOK, OthersAdd, UNCHANGED <<batch, tx>>
  PROVE  \A i \in DOMAIN batch : Accepted(i) => Accepted(i)'
<1>1. TAKE i \in DOMAIN batch
<1>2. batch[i].event_id \in EventIds
  BY PositionsType DEF Message
<1> QED
  BY <1>2 DEF Accepted, Overlay, StoreTypeOK, OthersAdd

\* The transaction stays what the batch made it, if the opens it has read are
\* still those of the days.
LEMMA TxBesideOthers ==
  ASSUME StoreTypeOK, StoreTypeOK', BatchTypeOK, TxFromBatch, TxStages, OthersAdd,
         UNCHANGED <<pc, batch, run, runId, todo, tx, aborted>>,
         \A k \in Keys : tx.summaries[k] # NoRow /\ ~ aborted =>
           (summaries'[k] # NoRow => tx.summaries[k].open = summaries'[k].open)
  PROVE  TxFromBatch' /\ TxStages'
<1>1. /\ Valid' = Valid /\ Invalid' = Invalid /\ Touched' = Touched
      /\ Refusals' = Refusals /\ Loaded' = Loaded
      /\ \A k : Group(k)' = Group(k)
      /\ \A i : RowOf(i)' = RowOf(i)
  BY SameBatch DEF Touched, Group, RowOf, Refusals, ErrorFor, Loaded
<1>2. TxStages'
  BY <1>1 DEF TxStages, Stages, OthersAdd
<1>3. Valid \subseteq DOMAIN batch /\ \A k : Group(k) \subseteq DOMAIN batch
  BY PositionsType DEF Group
<1>4. \A e \in Loaded : /\ market'[e] = NoRow
                        /\ \E i \in Valid : batch[i].event_id = e /\ tx.market[e] = RowOf(i)
  BY <1>3 DEF TxFromBatch, OthersAdd
<1>5. ASSUME NEW k \in Keys, tx.summaries[k] # NoRow
      PROVE  /\ k \in Touched
             /\ tx.summaries[k].trades = {<<i, batch[i].origin>> : i \in Group(k)}
             /\ ~ aborted /\ summaries'[k] # NoRow =>
                  tx.summaries[k].open = summaries'[k].open
             /\ summaries'[k] = NoRow =>
                  \E i \in Group(k) : tx.summaries[k].open = batch[i].origin
             /\ \A i \in Group(k) : Accepted(i)'
  <2>1. \A i \in Group(k) : Accepted(i)'
    BY <1>3, <1>5, AcceptedBesideOthers DEF TxFromBatch
  <2> QED
    BY <1>5, <2>1 DEF TxFromBatch, OthersAdd
<1>6. TxFromBatch'
  BY <1>1, <1>4, <1>5 DEF TxFromBatch
<1> QED
  BY <1>2, <1>6

\* Nor is what the stages have established undone.
LEMMA StagesBesideOthers ==
  ASSUME StoreTypeOK, StoreTypeOK', BatchTypeOK, StageInv, OthersAdd,
         UNCHANGED <<pc, batch, runId, todo, tx>>
  PROVE  StageInv'
<1>1. /\ Valid' = Valid /\ Invalid' = Invalid
      /\ \A F : WithFate(F)' = WithFate(F)
      /\ \A i : ErrorFor(i)' = ErrorFor(i)
  BY SameBatch DEF ErrorFor
<1>2. \A i \in Valid : Accepted(i) => Accepted(i)'
  BY AcceptedBesideOthers, PositionsType
<1> QED
  BY <1>1, <1>2 DEF StageInv

=============================================================================
