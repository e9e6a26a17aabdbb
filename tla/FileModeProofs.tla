--------------------------- MODULE FileModeProofs ---------------------------
(***************************************************************************)
(* Safety of FileMode for all sequences of drops, chunk sizes and numbers  *)
(* of restarts and failed moves.  IInv is inductive; the properties are    *)
(* conjuncts of it.                                                        *)
(***************************************************************************)
EXTENDS FileMode, BatchProofs, FiniteSetTheorems

\* The part of IInv that other writers of the tables leave alone; what the
\* tables hold of a file is LoadedFilesAreGone.
JobInv ==
  /\ TypeOK
  /\ Placement
  /\ Holding
  /\ InTransit

\* Together they are all of it.
LEMMA Parts == IInv <=> JobInv /\ LoadedFilesAreGone
BY DEF IInv, JobInv

\* Initially the tables and the directories are empty.
LEMMA InitInv == Init => IInv
<1> SUFFICES ASSUME Init PROVE IInv
  OBVIOUS
<1>1. drops \in Deliveries /\ Len(drops) \in Nat
  BY FileAssumption DEF Init
<1>2. StoreTypeOK
  BY DEF Init, StoreInit, StoreTypeOK
<1>3. BatchTypeOK
  <2>1. NewRun \in RunRow
    BY DEF NewRun, RunRow, Status
  <2>2. batch \in Seq(Message)
    BY DEF Init, BatchInit
  <2>3. runs = <<>> /\ runId = 0
    BY DEF Init, BatchInit, StoreInit
  <2>4. runId \in 0 .. Len(runs)
    BY <2>3
  <2> QED
    BY <2>1, <2>2, <2>4, EmptyTxType DEF Init, BatchInit, BatchTypeOK
<1>4. TypeOK
  <2>1. input \in Directory /\ archive \in Directory /\ errordir \in Directory
    BY <1>1 DEF Init, Directory
  <2>2. copying \in BOOLEAN /\ pending \in SUBSET Names /\ name \in Names \cup {0}
    BY DEF Init
  <2>3. dropped \in 0 .. Len(drops) /\ reading \in 0 .. Len(drops)
        /\ restarts \in 0 .. MaxRestarts /\ moveFaults \in 0 .. MaxMoveFaults
    BY <1>1, FileAssumption DEF Init
  <2>4. failed = {} /\ disturbed = {} /\ pc \in PCs
    BY DEF Init, PCs
  <2> QED
    BY <1>1, <1>2, <1>3, <2>1, <2>2, <2>3, <2>4 DEF TypeOK
<1>5. Placement
  BY <1>1 DEF Init, Placement
<1>6. Holding /\ InTransit
  BY DEF Init, BatchInit, Holding, InTransit, EmptyTx
<1>7. LoadedFilesAreGone
  BY DEF Init, StoreInit, LoadedFilesAreGone
<1> QED
  BY <1>4, <1>5, <1>6, <1>7 DEF IInv

-----------------------------------------------------------------------------
(* Facts the steps share.                                                  *)

\* The drops, their files and their numbers.
LEMMA Numbers ==
  ASSUME TypeOK
  PROVE  /\ Len(drops) \in Nat /\ dropped \in Nat /\ dropped <= Len(drops)
         /\ drops \in [1 .. Len(drops) -> File]
         /\ Names \subseteq Nat \ {0}
         /\ \A d \in 1 .. Len(drops) :
              /\ drops[d].name \in Names
              /\ drops[d].rows \in Seq(Row)
              /\ Len(drops[d].rows) \in Nat
<1>1. drops \in Seq(File)
  BY FileAssumption DEF TypeOK
<1>2. Len(drops) \in Nat /\ drops \in [1 .. Len(drops) -> File]
  BY <1>1
<1>3. \A d \in 1 .. Len(drops) :
        drops[d].name \in Names /\ drops[d].rows \in Seq(Row) /\ Len(drops[d].rows) \in Nat
  BY <1>2 DEF File
<1> QED
  BY <1>2, <1>3, FileAssumption DEF TypeOK

\* A file that is gone stays gone: names are given to new drops only, and the
\* error directory is filled from the input directory.
LEMMA TakenIsStable ==
  ASSUME TypeOK, drops' = drops, dropped' \in {dropped, dropped + 1},
         \A n \in Names : input'[n] \in {input[n], 0, dropped + 1},
         \A n \in Names : errordir'[n] \in {errordir[n], input[n]},
         NEW o, TakenFrom(o)
  PROVE  TakenFrom(o)'
<1>1. PICK d \in 1 .. dropped :
        o \in Origins(d) /\ \A n \in Names : input[n] # d /\ errordir[n] # d
  BY DEF TakenFrom
<1>2. dropped \in Nat
  BY Numbers
<1>3. d \in 1 .. dropped' /\ d # 0 /\ d # dropped + 1
  BY <1>2
<1>4. o \in Origins(d)'
  BY <1>1 DEF Origins
<1>5. \A n \in Names : input'[n] # d /\ errordir'[n] # d
  BY <1>1, <1>3
<1> QED
  BY <1>3, <1>4, <1>5 DEF TakenFrom

\* The same when neither the drops nor the directories change.
LEMMA TakenUnchanged ==
  ASSUME TypeOK, UNCHANGED <<world, dirs>>, NEW o, TakenFrom(o)
  PROVE  TakenFrom(o)'
BY TakenIsStable DEF world, dirs

\* The tables stay as they are or receive what is in transit.
LEMMA TablesStep ==
  ASSUME TypeOK, InTransit, LoadedFilesAreGone,
         UNCHANGED store \/ \E id : CommitTx(tx, id),
         \A o : TakenFrom(o) => TakenFrom(o)'
  PROVE  LoadedFilesAreGone'
<1>1. \A x \in errors' : x \in errors \/ x \in tx.errors
  BY DEF CommitTx, store
<1>2. \A e \in EventIds : market'[e] = market[e] \/ market'[e] = tx.market[e]
  BY DEF CommitTx, Overlay, TypeOK, StoreTypeOK, store
<1>3. \A x \in errors' : TakenFrom(x.origin)
  BY <1>1 DEF InTransit, LoadedFilesAreGone
<1>4. \A e \in EventIds : market'[e] # NoRow => TakenFrom(market'[e].origin)
  BY <1>2 DEF InTransit, LoadedFilesAreGone
<1>5. ASSUME NEW x \in errors' PROVE TakenFrom(x.origin)'
  <2>1. PICK o : o = x.origin
    OBVIOUS
  <2>2. TakenFrom(o)'
    BY <1>3, <2>1
  <2> QED
    BY <2>1, <2>2 DEF TakenFrom
<1>6. ASSUME NEW e \in EventIds, market'[e] # NoRow
      PROVE  TakenFrom(market[e].origin)'
  <2>1. PICK o : o = market'[e].origin
    OBVIOUS
  <2>2. TakenFrom(o)'
    BY <1>4, <1>6, <2>1
  <2> QED
    BY <2>1, <2>2 DEF TakenFrom
<1> QED
  BY <1>5, <1>6 DEF LoadedFilesAreGone

\* With the drops and directories unchanged a commit keeps the types.
LEMMA CommitType ==
  ASSUME TypeOK, CommitTx(tx, runId)
  PROVE  StoreTypeOK' /\ Len(runs') = Len(runs)
<1>1. StoreTypeOK /\ tx \in TxType /\ runId \in 0 .. Len(runs)
  BY DEF TypeOK, BatchTypeOK
<1> QED
  BY <1>1, CommitTxType

-----------------------------------------------------------------------------
(* The scan and the extraction.                                            *)

\* A scan lists what is there, and ends when nothing is left of its list.
LEMMA ScanSteps ==
  ASSUME JobInv, Scan \/ ScanDone
  PROVE  JobInv' /\ (LoadedFilesAreGone => LoadedFilesAreGone')
<1> USE DEF JobInv
<1>1. /\ UNCHANGED <<store, batch, run, runId, todo, tx, aborted, dlt>>
      /\ UNCHANGED <<world, dirs, name, reading, history>>
      /\ pc \in {"idle", "next"} /\ pc' \in {"idle", "next"}
      /\ pending' \in {pending, Present}
  BY DEF Scan, ScanDone, scanVars
<1>2. TypeOK'
  BY <1>1 DEF TypeOK, StoreTypeOK, store, BatchTypeOK, Parsed, WithFate, PCs,
     world, dirs, history, Directory, Present
<1>3. Placement'
  BY <1>1 DEF Placement, Present, world, dirs
<1>4. Holding'
  BY <1>1 DEF Holding, world, dirs
<1>5. \A o : TakenFrom(o) => TakenFrom(o)'
  BY <1>1, TakenUnchanged
<1>6. InTransit'
  BY <1>1, <1>5 DEF InTransit, Holding
<1>7. LoadedFilesAreGone => LoadedFilesAreGone'
  BY <1>1, <1>5, TablesStep
<1> QED
  BY <1>2, <1>3, <1>4, <1>6, <1>7

\* Taking up a file: its name is there, and the next run begins.
LEMMA TakeUpFacts ==
  ASSUME JobInv, NEW n \in pending, TakeUp(n)
  PROVE  /\ n \in Names /\ name' = n /\ reading' = input[n]
         /\ reading' \in 1 .. dropped /\ reading' \in 1 .. Len(drops)
         /\ drops[reading'].name = n /\ errordir[n] # reading'
         /\ pending' = pending \ {n} /\ todo' = {} /\ pc = "next"
         /\ StoreTypeOK' /\ run' \in RunRow /\ runId' \in 0 .. Len(runs')
         /\ UNCHANGED <<market, summaries, errors, tx, aborted, dlt>>
         /\ UNCHANGED <<world, dirs, failed, restarts, moveFaults>>
<1> USE DEF JobInv
<1>1. /\ name' = n /\ reading' = input[n] /\ pc = "next"
      /\ pending' = pending \ {n} /\ todo' = {}
      /\ runs' = Append(runs, NoRow) /\ run' = NewRun /\ runId' = Len(runs) + 1
      /\ UNCHANGED <<market, summaries, errors, tx, aborted, dlt>>
      /\ UNCHANGED <<world, dirs, failed, restarts, moveFaults>>
  BY DEF TakeUp
<1>2. n \in Names /\ input[n] # 0 /\ input[n] \in 0 .. dropped
      /\ drops[input[n]].name = n /\ errordir[n] # input[n]
  BY DEF Placement, Present
<1>3. reading' \in 1 .. dropped /\ reading' \in 1 .. Len(drops)
  BY <1>1, <1>2, Numbers
<1>4. Len(runs) \in Nat /\ Len(runs') = Len(runs) + 1 /\ runs' \in Seq(RunRow \cup {NoRow})
  BY <1>1 DEF TypeOK, StoreTypeOK
<1>5. StoreTypeOK'
  BY <1>1, <1>4 DEF TypeOK, StoreTypeOK
<1>6. runId' \in 0 .. Len(runs')
  BY <1>1, <1>4
<1>7. run' \in RunRow
  BY <1>1 DEF NewRun, RunRow, Status
<1> QED
  BY <1>1, <1>2, <1>3, <1>5, <1>6, <1>7

\* What taking up a file leaves to show: the batch and what it may contain.
LEMMA TakeUpStep ==
  ASSUME JobInv, NEW n \in pending, TakeUp(n), batch' \in Seq(Message),
         disturbed' \in {disturbed, disturbed \cup {reading'}},
         \/ pc' = "reject" /\ batch' = <<>>
         \/ /\ pc' = "archive"
            /\ \A i \in DOMAIN batch' : batch'[i].origin \in Origins(reading')
  PROVE  JobInv' /\ (LoadedFilesAreGone => LoadedFilesAreGone')
<1> USE DEF JobInv
<1>1. /\ n \in Names /\ name' = n /\ reading' = input[n]
      /\ reading' \in 1 .. dropped /\ reading' \in 1 .. Len(drops)
      /\ drops[reading'].name = n /\ errordir[n] # reading'
      /\ pending' = pending \ {n} /\ todo' = {} /\ pc = "next"
      /\ StoreTypeOK' /\ run' \in RunRow /\ runId' \in 0 .. Len(runs')
      /\ UNCHANGED <<market, summaries, errors, tx, aborted, dlt>>
      /\ UNCHANGED <<world, dirs, failed, restarts, moveFaults>>
  BY TakeUpFacts
<1>2. TypeOK'
  <2>1. BatchTypeOK'
    BY <1>1 DEF TypeOK, BatchTypeOK
  <2>2. reading' \in 0 .. Len(drops) /\ disturbed' \in SUBSET (1 .. Len(drops))
    <3>1. reading' \in 0 .. Len(drops)
      BY <1>1
    <3>2. disturbed \in SUBSET (1 .. Len(drops))
      BY DEF TypeOK
    <3> QED
      BY <1>1, <3>1, <3>2
  <2>3. pc' \in PCs /\ name' \in Names \cup {0} /\ pending' \in SUBSET Names
    BY <1>1 DEF TypeOK, PCs
  <2>4. /\ drops' \in Deliveries /\ dropped' \in 0 .. Len(drops') /\ copying' \in BOOLEAN
        /\ input' \in Directory' /\ archive' \in Directory' /\ errordir' \in Directory'
        /\ drops' = drops
    BY <1>1 DEF TypeOK, world, dirs, Directory
  <2>5. /\ failed' \in SUBSET (1 .. Len(drops)) /\ restarts' \in 0 .. MaxRestarts
        /\ moveFaults' \in 0 .. MaxMoveFaults /\ StoreTypeOK'
    BY <1>1 DEF TypeOK
  <2> QED
    BY <2>1, <2>2, <2>3, <2>4, <2>5 DEF TypeOK
<1>3. Placement'
  BY <1>1 DEF Placement, Present, world, dirs
<1>4. Holding'
  <2>1. reading' # 0
    BY <1>1
  <2> QED
    BY <1>1, <2>1 DEF Holding, world, dirs, Origins
<1>5. \A o : TakenFrom(o) => TakenFrom(o)'
  BY <1>1, TakenUnchanged
<1>6. InTransit'
  <2>1. pc' # "archive" => DOMAIN batch' = {}
    OBVIOUS
  <2> QED
    BY <1>1, <1>5, <2>1 DEF InTransit
<1>7. LoadedFilesAreGone => LoadedFilesAreGone'
  BY <1>1, <1>5 DEF LoadedFilesAreGone
<1> QED
  BY <1>2, <1>3, <1>4, <1>6, <1>7

\* The kept positions of a file are positions of rows of it.
LEMMA KeptType ==
  ASSUME TypeOK, NEW d \in 1 .. Len(drops), NEW length \in Lengths(d),
         NEW kept \in Kept(d, length)
  PROVE  /\ kept \in Seq(1 .. Len(drops[d].rows))
         /\ Len(kept) \in Nat /\ DOMAIN kept = 1 .. Len(kept)
         /\ \A i \in 1 .. Len(kept) :
              kept[i] \in DOMAIN drops[d].rows /\ drops[d].rows[kept[i]] \in Row
<1> DEFINE K == {i \in 1 .. length : drops[d].rows[i].fate # "unparsable"}
<1>1. drops[d].rows \in Seq(Row) /\ Len(drops[d].rows) \in Nat
  BY Numbers
<1>2. length \in Nat /\ length <= Len(drops[d].rows)
  BY <1>1 DEF Lengths
<1>3. IsFiniteSet(K)
  <2>1. IsFiniteSet(1 .. length)
    BY <1>2, FS_Interval
  <2>2. K \in SUBSET (1 .. length)
    OBVIOUS
  <2> QED
    BY <2>1, <2>2, FS_Subset
<1>4. Cardinality(K) \in Nat
  BY <1>3, FS_CardinalityType
<1>5. K \subseteq 1 .. Len(drops[d].rows)
  BY <1>1, <1>2
<1>6. kept \in [1 .. Cardinality(K) -> 1 .. Len(drops[d].rows)]
  BY <1>5 DEF Kept
<1> DEFINE c == Cardinality(K)
           P == 1 .. Len(drops[d].rows)
<1>7. c \in Nat /\ kept \in [1 .. c -> P]
  BY <1>4, <1>6
<1> HIDE DEF c
<1>8. kept \in Seq(P) /\ Len(kept) = c /\ DOMAIN kept = 1 .. c
  BY <1>7
<1>9. P = DOMAIN drops[d].rows /\ \A j \in P : drops[d].rows[j] \in Row
  BY <1>1
<1>10. \A i \in 1 .. Len(kept) : kept[i] \in P
  BY <1>7, <1>8
<1> HIDE DEF P
<1>11. \A i \in 1 .. Len(kept) :
         kept[i] \in DOMAIN drops[d].rows /\ drops[d].rows[kept[i]] \in Row
  BY <1>9, <1>10
<1> QED
  BY <1>7, <1>8, <1>11 DEF P

\* Reading: every event comes from a row of the file.
LEMMA ReadFileStep ==
  ASSUME JobInv, ReadFile
  PROVE  JobInv' /\ (LoadedFilesAreGone => LoadedFilesAreGone')
<1> USE DEF JobInv
<1>1. PICK n \in pending : TakeUp(n)
  BY DEF ReadFile
<1> DEFINE d == reading'
<1>2. PICK length \in Lengths(d) :
        /\ \E kept \in Kept(d, length) : \E ids \in FreshIds(Len(kept)) :
             batch' = EventsOf(d, kept, ids)
        /\ disturbed' \in {disturbed, disturbed \cup {d}}
  BY DEF ReadFile
<1>3. PICK kept \in Kept(d, length) : \E ids \in FreshIds(Len(kept)) :
        batch' = EventsOf(d, kept, ids)
  BY <1>2
<1>31. PICK ids \in FreshIds(Len(kept)) : batch' = EventsOf(d, kept, ids)
  BY <1>3
<1>4. d \in 1 .. Len(drops) /\ d \in 1 .. dropped /\ drops' = drops
  BY <1>1, TakeUpFacts DEF world
<1> HIDE DEF d
<1>5. /\ Len(kept) \in Nat
      /\ \A i \in 1 .. Len(kept) :
           kept[i] \in DOMAIN drops[d].rows /\ drops[d].rows[kept[i]] \in Row
  BY <1>4, KeptType
<1>6. ids \in [1 .. Len(kept) -> EventIds]
  <2> DEFINE Fresh == {f \in [1 .. Len(kept) -> {e \in Uuids : market[e] = NoRow}] :
                         \A i, j \in DOMAIN f : f[i] = f[j] => i = j}
  <2>1. Fresh # {} /\ ids = CHOOSE f \in Fresh : TRUE
    BY DEF FreshIds
  <2>2. ids \in Fresh
    BY <2>1
  <2> QED
    BY <2>2, FileAssumption DEF FileAssumption
<1>61. \A i \in 1 .. Len(kept) : batch'[i] \in Message
  <2>1. TAKE i \in 1 .. Len(kept)
  <2> DEFINE row == drops[d].rows[kept[i]]
  <2>2. row \in Row /\ ids[i] \in EventIds
    BY <1>5, <1>6
  <2>3. batch'[i] = [origin |-> row.origin, event_id |-> ids[i], key |-> row.key,
                     time |-> row.time, fate |-> row.fate, volume |-> row.volume,
                     barred |-> row.barred]
    BY <1>31 DEF EventsOf
  <2> HIDE DEF row
  <2>4. Coherent(row)
    BY <2>2 DEF Row
  <2>5. Coherent(batch'[i])
    BY <2>3, <2>4 DEF Coherent
  <2>6. batch'[i] \in [origin : Nat, event_id : EventIds, key : Keys, time : Nat,
                       fate : Fates, volume : Volumes, barred : SUBSET Savers]
    BY <2>2, <2>3 DEF Row
  <2> QED
    BY <2>5, <2>6 DEF Message
<1>7. DOMAIN batch' = 1 .. Len(kept) /\ batch' \in [1 .. Len(kept) -> Message]
  BY <1>31, <1>5, <1>61 DEF EventsOf
<1>8. batch' \in Seq(Message)
  BY <1>5, <1>7
<1>9. \A i \in DOMAIN batch' : batch'[i].origin \in Origins(d)
  BY <1>31, <1>5, <1>7 DEF EventsOf, Origins
<1>10. pc' = "archive"
  BY DEF ReadFile
<1> QED
  BY <1>1, <1>2, <1>8, <1>9, <1>10, TakeUpStep DEF d

\* An unreadable file leaves an empty batch.
LEMMA ReadFileFailsStep ==
  ASSUME JobInv, ReadFileFails
  PROVE  JobInv' /\ (LoadedFilesAreGone => LoadedFilesAreGone')
<1>1. PICK n \in pending : TakeUp(n)
  BY DEF ReadFileFails
<1>2. /\ batch' = <<>> /\ pc' = "reject"
      /\ disturbed' \in {disturbed, disturbed \cup {reading'}}
  BY DEF ReadFileFails
<1>3. batch' \in Seq(Message)
  BY <1>2
<1> QED
  BY <1>1, <1>2, <1>3, TakeUpStep

\* The move to the archive: from here on the file that was read is gone.
LEMMA ArchiveStep ==
  ASSUME JobInv, Archive
  PROVE  JobInv' /\ (LoadedFilesAreGone => LoadedFilesAreGone')
<1> USE DEF JobInv
<1>1. /\ UNCHANGED <<store, batch, run, runId, todo, tx, aborted, dlt>>
      /\ UNCHANGED <<world, errordir, scanVars, failed, restarts, moveFaults>>
      /\ pc = "archive" /\ pc' = "clean"
      /\ archive' = [archive EXCEPT ![name] = input[name]]
      /\ input' = [input EXCEPT ![name] = 0]
      /\ disturbed' \in {disturbed, disturbed \cup {input[name]}}
  BY DEF Archive
<1>2. /\ name \in Names /\ input[name] # 0 /\ name \notin pending
      /\ reading \in 1 .. dropped /\ drops[reading].name = name
      /\ errordir[name] # reading
      /\ \A i \in DOMAIN batch : batch[i].origin \in Origins(reading)
  BY <1>1 DEF Holding
<1>3. input \in Directory /\ archive \in Directory /\ input[name] \in 1 .. Len(drops)
  <2>1. input \in Directory /\ archive \in Directory
    BY DEF TypeOK
  <2>2. input[name] \in 0 .. Len(drops) /\ input[name] # 0 /\ Len(drops) \in Nat
    BY <1>2, <2>1, Numbers DEF Directory
  <2> QED
    BY <2>1, <2>2
<1>4. \A n \in Names : input'[n] = IF n = name THEN 0 ELSE input[n]
  BY <1>1, <1>3 DEF Directory
<1>5. TypeOK'
  <2>0. 0 \in 0 .. Len(drops) /\ input[name] \in 0 .. Len(drops)
    BY <1>3, Numbers
  <2>1. input' \in Directory /\ archive' \in Directory
    BY <1>1, <1>3, <2>0 DEF Directory
  <2>2. disturbed' \in SUBSET (1 .. Len(drops))
    BY <1>1, <1>3 DEF TypeOK
  <2> QED
    BY <1>1, <2>1, <2>2 DEF TypeOK, StoreTypeOK, store, BatchTypeOK, Parsed, WithFate, PCs,
       Stages, world, scanVars, Directory
<1>6. Placement'
  BY <1>1, <1>2, <1>4, Numbers DEF Placement, Present, world, scanVars
<1>7. Holding'
  BY <1>1 DEF Holding, world, scanVars
<1>8. \A o : TakenFrom(o) => TakenFrom(o)'
  BY <1>1, <1>4, TakenIsStable DEF world
<1>9. \A n \in Names : input'[n] # reading /\ errordir'[n] # reading
  BY <1>1, <1>2, <1>4, Numbers DEF Placement
<1>10. \A i \in DOMAIN batch : TakenFrom(batch[i].origin)'
  BY <1>1, <1>2, <1>9 DEF TakenFrom, Origins, world
<1>11. InTransit'
  BY <1>1, <1>8, <1>10 DEF InTransit
<1>12. LoadedFilesAreGone => LoadedFilesAreGone'
  BY <1>1, <1>8, TablesStep
<1> QED
  BY <1>5, <1>6, <1>7, <1>11, <1>12

\* A failed move leaves the file where it is.
LEMMA MoveFailsSteps ==
  ASSUME JobInv, ArchiveFails \/ MoveToErrorsFails
  PROVE  JobInv' /\ (LoadedFilesAreGone => LoadedFilesAreGone')
<1> USE DEF JobInv
<1>1. /\ UNCHANGED <<store, run, runId, todo, tx, aborted, dlt>>
      /\ UNCHANGED <<world, dirs, scanVars, failed, disturbed, restarts>>
      /\ moveFaults < MaxMoveFaults /\ moveFaults' = moveFaults + 1
      /\ \/ pc = "archive" /\ pc' = "reject" /\ batch' = <<>>
         \/ pc = "reject" /\ pc' = "except" /\ batch' = batch
  BY DEF ArchiveFails, MoveToErrorsFails
<1>2. batch' = <<>> /\ todo = {}
  BY <1>1 DEF Holding
<1>3. TypeOK'
  <2>1. batch' \in Seq(Message)
    BY <1>2
  <2>2. moveFaults' \in 0 .. MaxMoveFaults
    BY <1>1, FileAssumption DEF TypeOK
  <2> QED
    BY <1>1, <1>2, <2>1, <2>2 DEF TypeOK, StoreTypeOK, store, BatchTypeOK, PCs,
       world, dirs, scanVars, Directory
<1>4. Placement'
  BY <1>1 DEF Placement, Present, world, dirs, scanVars
<1>5. Holding'
  BY <1>1, <1>2 DEF Holding, world, dirs, scanVars
<1>6. \A o : TakenFrom(o) => TakenFrom(o)'
  BY <1>1, TakenUnchanged
<1>7. InTransit'
  BY <1>1, <1>2, <1>6 DEF InTransit
<1>8. LoadedFilesAreGone => LoadedFilesAreGone'
  BY <1>1, <1>6, TablesStep
<1> QED
  BY <1>3, <1>4, <1>5, <1>7, <1>8

\* The move to the error directory: no file that is gone comes back.
LEMMA MoveToErrorsStep ==
  ASSUME JobInv, MoveToErrors
  PROVE  JobInv' /\ (LoadedFilesAreGone => LoadedFilesAreGone')
<1> USE DEF JobInv
<1>1. /\ UNCHANGED <<store, batch, run, runId, todo, tx, aborted, dlt>>
      /\ UNCHANGED <<world, archive, scanVars, failed, restarts, moveFaults>>
      /\ pc = "reject" /\ pc' = "except"
      /\ errordir' = [errordir EXCEPT ![name] = input[name]]
      /\ input' = [input EXCEPT ![name] = 0]
      /\ disturbed' \in {disturbed, disturbed \cup {input[name]}}
  BY DEF MoveToErrors
<1>2. name \in Names /\ input[name] # 0 /\ name \notin pending /\ batch = <<>>
  BY <1>1 DEF Holding
<1>3. /\ input \in Directory /\ errordir \in Directory
      /\ input[name] \in 1 .. Len(drops) /\ input[name] \in 0 .. dropped
      /\ drops[input[name]].name = name
  <2>1. input \in Directory /\ errordir \in Directory
    BY DEF TypeOK
  <2>2. input[name] \in 0 .. Len(drops) /\ input[name] # 0 /\ Len(drops) \in Nat
    BY <1>2, <2>1, Numbers DEF Directory
  <2>3. input[name] \in 0 .. dropped /\ drops[input[name]].name = name
    BY <1>2 DEF Placement
  <2> QED
    BY <2>1, <2>2, <2>3
<1>4. \A n \in Names : /\ input'[n] = IF n = name THEN 0 ELSE input[n]
                       /\ errordir'[n] = IF n = name THEN input[name] ELSE errordir[n]
  BY <1>1, <1>3 DEF Directory
<1>5. TypeOK'
  <2>0. 0 \in 0 .. Len(drops) /\ input[name] \in 0 .. Len(drops)
    BY <1>3, Numbers
  <2>1. input' \in Directory /\ errordir' \in Directory
    BY <1>1, <1>3, <2>0 DEF Directory
  <2>2. disturbed' \in SUBSET (1 .. Len(drops))
    BY <1>1, <1>3 DEF TypeOK
  <2> QED
    BY <1>1, <2>1, <2>2 DEF TypeOK, StoreTypeOK, store, BatchTypeOK, Parsed, WithFate, PCs,
       world, scanVars, Directory
<1>6. Placement'
  BY <1>1, <1>2, <1>3, <1>4, Numbers DEF Placement, Present, world, scanVars
<1>7. Holding'
  BY <1>1 DEF Holding, world, scanVars
<1>8. \A o : TakenFrom(o) => TakenFrom(o)'
  BY <1>1, <1>4, TakenIsStable DEF world
<1>9. InTransit'
  BY <1>1, <1>2, <1>8 DEF InTransit
<1>10. LoadedFilesAreGone => LoadedFilesAreGone'
  BY <1>1, <1>8, TablesStep
<1> QED
  BY <1>5, <1>6, <1>7, <1>9, <1>10

-----------------------------------------------------------------------------
(* The processing and the outcome.                                         *)

\* A step of _process_batch: what it writes comes from the batch.
LEMMA ProcessPreserves ==
  ASSUME JobInv, Process
  PROVE  JobInv' /\ (LoadedFilesAreGone => LoadedFilesAreGone')
<1> USE DEF JobInv
<1>1. /\ pc \in Stages /\ ProcessStep(FALSE)
      /\ UNCHANGED <<world, dirs, scanVars, history>>
  BY DEF Process
<1>2. StoreTypeOK /\ BatchTypeOK
  BY DEF TypeOK
<1>3. StoreTypeOK' /\ BatchTypeOK' /\ batch' = batch
  BY <1>1, <1>2, ProcessStepType
<1>4. /\ pc' \in (Stages \ {"clean"}) \cup {"processed", "except"}
      /\ UNCHANGED store \/ CommitTx(tx, runId)
      /\ \A x \in tx'.errors :
           x \in tx.errors \/ \E i \in DOMAIN batch : x.origin = batch[i].origin
      /\ \A e \in EventIds : \/ tx'.market[e] = tx.market[e]
                             \/ tx'.market[e] = NoRow
                             \/ \E i \in DOMAIN batch : tx'.market[e] = RowOf(i)
  BY <1>1, <1>2, ProcessStepEffect
<1>5. TypeOK'
  BY <1>1, <1>3, <1>4 DEF TypeOK, PCs, world, dirs, scanVars, history, Directory
<1>6. Placement'
  BY <1>1 DEF Placement, Present, world, dirs, scanVars
<1>7. Holding'
  BY <1>1, <1>4 DEF Holding, Stages, world, dirs, scanVars
<1>8. \A o : TakenFrom(o) => TakenFrom(o)'
  BY <1>1, TakenUnchanged
<1>9. \A i \in DOMAIN batch : TakenFrom(batch[i].origin)
  BY <1>1 DEF InTransit, Stages
<1>10. InTransit'
  <2>1. \A x \in tx'.errors : TakenFrom(x.origin)
    BY <1>4, <1>9 DEF InTransit
  <2>2. \A e \in EventIds : tx'.market[e] # NoRow => TakenFrom(tx'.market[e].origin)
    <3>1. TAKE e \in EventIds
    <3>2. HAVE tx'.market[e] # NoRow
    <3>3. CASE tx'.market[e] = tx.market[e]
      BY <3>2, <3>3 DEF InTransit
    <3>4. ASSUME NEW i \in DOMAIN batch, tx'.market[e] = RowOf(i)
          PROVE  TakenFrom(tx'.market[e].origin)
      <4>1. tx'.market[e].origin = batch[i].origin
        BY <3>4 DEF RowOf
      <4> QED
        BY <1>9, <4>1
    <3> QED
      BY <1>4, <3>2, <3>3, <3>4
  <2>3. ASSUME NEW x \in tx'.errors PROVE TakenFrom(x.origin)'
    <3>1. PICK o : o = x.origin
      OBVIOUS
    <3>2. TakenFrom(o)'
      BY <1>8, <2>1, <3>1
    <3> QED
      BY <3>1, <3>2 DEF TakenFrom
  <2>4. ASSUME NEW e \in EventIds, tx'.market[e] # NoRow
        PROVE  TakenFrom(tx.market[e].origin)'
    <3>1. PICK o : o = tx'.market[e].origin
      OBVIOUS
    <3>2. TakenFrom(o)'
      BY <1>8, <2>2, <2>4, <3>1
    <3> QED
      BY <3>1, <3>2 DEF TakenFrom
  <2>5. ASSUME NEW i \in DOMAIN batch' PROVE TakenFrom(batch[i].origin)'
    <3>1. PICK o : o = batch[i].origin
      OBVIOUS
    <3>2. TakenFrom(o)'
      BY <1>3, <1>8, <1>9, <3>1
    <3> QED
      BY <1>3, <3>1, <3>2 DEF TakenFrom
  <2> QED
    BY <2>3, <2>4, <2>5 DEF InTransit
<1>11. LoadedFilesAreGone => LoadedFilesAreGone'
  BY <1>4, <1>8, TablesStep
<1> QED
  BY <1>5, <1>6, <1>7, <1>10, <1>11

\* Marking the run and saving it leave everything else as it was.
LEMMA OutcomeSteps ==
  ASSUME JobInv, Complete \/ HandleFailure \/ SaveOutcome
  PROVE  JobInv' /\ (LoadedFilesAreGone => LoadedFilesAreGone')
<1> USE DEF JobInv
<1>1. /\ UNCHANGED <<store, batch, runId, todo, aborted, dlt>>
      /\ UNCHANGED <<world, dirs, scanVars, disturbed, restarts, moveFaults>>
      /\ pc \in {"processed", "except", "finally"} /\ pc' \in {"finally", "finalcommit"}
      /\ \/ run' = run
         \/ run' = [run EXCEPT !.status = "completed"]
         \/ run' = [run EXCEPT !.status = "failed"]
      /\ tx' = tx \/ tx' = SaveRun(tx, run)
      /\ failed' \in {failed, failed \cup {reading}}
  BY DEF Complete, HandleFailure, SaveOutcome, history
<1>2. run' \in RunRow
  BY <1>1 DEF TypeOK, BatchTypeOK, RunRow, Status
<1>3. /\ tx' \in TxType /\ tx'.errors = tx.errors /\ tx'.market = tx.market
  BY <1>1 DEF SaveRun, TypeOK, BatchTypeOK, TxType
<1>4. TypeOK'
  <2>1. failed' \in SUBSET (1 .. Len(drops))
    BY <1>1, Numbers DEF TypeOK, Holding
  <2> QED
    BY <1>1, <1>2, <1>3, <2>1 DEF TypeOK, StoreTypeOK, store, BatchTypeOK, Parsed, WithFate,
       PCs, world, dirs, scanVars, Directory
<1>5. Placement'
  BY <1>1 DEF Placement, Present, world, dirs, scanVars
<1>6. Holding'
  BY <1>1 DEF Holding, world, dirs, scanVars
<1>7. \A o : TakenFrom(o) => TakenFrom(o)'
  BY <1>1, TakenUnchanged
<1>8. InTransit'
  BY <1>1, <1>3, <1>7 DEF InTransit
<1>9. LoadedFilesAreGone => LoadedFilesAreGone'
  BY <1>1, <1>7, TablesStep
<1> QED
  BY <1>4, <1>5, <1>6, <1>8, <1>9

\* The end of a file, or of the whole scan: nothing is in hand afterwards.
LEMMA EndSteps ==
  ASSUME JobInv, CommitOutcome \/ OutcomeFails
  PROVE  JobInv' /\ (LoadedFilesAreGone => LoadedFilesAreGone')
<1> USE DEF JobInv
<1>1. /\ UNCHANGED <<run, runId, dlt, world, dirs, name, reading, history>>
      /\ UNCHANGED store \/ CommitTx(tx, runId)
      /\ tx' = EmptyTx /\ batch' = <<>> /\ todo' = {} /\ pc' \in {"idle", "next"}
      /\ aborted' \in BOOLEAN /\ pending' \in {pending, {}}
  BY DEF CommitOutcome, OutcomeFails, scanVars, TypeOK, BatchTypeOK
<1>2. StoreTypeOK' /\ Len(runs') = Len(runs)
  BY <1>1, CommitType DEF TypeOK, StoreTypeOK, store
<1>3. TypeOK'
  <2>1. batch' \in Seq(Message)
    BY <1>1
  <2>2. BatchTypeOK'
    BY <1>1, <1>2, <2>1, EmptyTxType DEF TypeOK, BatchTypeOK
  <2> QED
    BY <1>1, <1>2, <2>2 DEF TypeOK, PCs, world, dirs, history, Directory
<1>4. Placement'
  BY <1>1 DEF Placement, Present, world, dirs
<1>5. Holding'
  BY <1>1 DEF Holding, world, dirs
<1>6. \A o : TakenFrom(o) => TakenFrom(o)'
  BY <1>1, TakenUnchanged
<1>7. InTransit'
  BY <1>1 DEF InTransit, EmptyTx
<1>8. LoadedFilesAreGone => LoadedFilesAreGone'
  BY <1>1, <1>6, TablesStep
<1> QED
  BY <1>3, <1>4, <1>5, <1>7, <1>8

-----------------------------------------------------------------------------
(* The environment.                                                        *)

\* A new file has a number no directory has seen.
LEMMA DropStep ==
  ASSUME JobInv, Drop
  PROVE  JobInv' /\ (LoadedFilesAreGone => LoadedFilesAreGone')
<1> USE DEF JobInv
<1> DEFINE n == drops[dropped + 1].name
<1>1. /\ UNCHANGED <<store, batchVars, drops, archive, errordir, scanVars>>
      /\ UNCHANGED <<failed, restarts, moveFaults>>
      /\ dropped < Len(drops) /\ dropped' = dropped + 1
      /\ input' = [input EXCEPT ![n] = dropped + 1]
      /\ disturbed' = IF input[n] # 0 THEN disturbed \cup {input[n]} ELSE disturbed
      /\ copying' = ~ AtomicDrops
  BY DEF Drop
<1>2. dropped + 1 \in 1 .. Len(drops) /\ n \in Names
  BY <1>1, Numbers
<1>3. \A m \in Names : input'[m] = IF m = n THEN dropped + 1 ELSE input[m]
  BY <1>1, <1>2 DEF TypeOK, Directory
<1>4. TypeOK'
  <2>1. input' \in Directory /\ dropped' \in 0 .. Len(drops) /\ dropped + 1 \in 0 .. Len(drops)
    BY <1>1, <1>2, Numbers DEF TypeOK, Directory
  <2>2. disturbed' \in SUBSET (1 .. Len(drops))
    <3>1. input[n] \in 0 .. Len(drops) /\ Len(drops) \in Nat
      BY <1>2, Numbers DEF TypeOK, Directory
    <3>2. input[n] # 0 => input[n] \in 1 .. Len(drops)
      BY <3>1
    <3> QED
      BY <1>1, <3>2 DEF TypeOK
  <2>3. copying' \in BOOLEAN
    BY <1>1, FileAssumption
  <2> QED
    BY <1>1, <2>1, <2>2, <2>3 DEF TypeOK, StoreTypeOK, store, BatchTypeOK, batchVars, Parsed,
       WithFate, PCs, scanVars, Directory
<1>5. Placement'
  BY <1>1, <1>2, <1>3, Numbers DEF Placement, Present, scanVars
<1>6. Holding'
  BY <1>1, <1>2, <1>3, Numbers DEF Holding, batchVars, scanVars, Origins
<1>7. \A o : TakenFrom(o) => TakenFrom(o)'
  BY <1>1, <1>3, TakenIsStable
<1>8. InTransit'
  BY <1>1, <1>7 DEF InTransit, batchVars
<1>9. LoadedFilesAreGone => LoadedFilesAreGone'
  BY <1>1, <1>7, TablesStep
<1> QED
  BY <1>4, <1>5, <1>6, <1>8, <1>9

\* The end of a copy, and steps that change nothing.
LEMMA CopiedStep ==
  ASSUME JobInv, Copied \/ UNCHANGED vars
  PROVE  JobInv' /\ (LoadedFilesAreGone => LoadedFilesAreGone')
<1> USE DEF JobInv
<1>1. /\ UNCHANGED <<store, batchVars, drops, dropped, dirs, scanVars, history>>
      /\ copying' \in BOOLEAN
  BY DEF Copied, vars, world, TypeOK
<1>2. TypeOK'
  BY <1>1 DEF TypeOK, StoreTypeOK, store, BatchTypeOK, batchVars, Parsed, WithFate, PCs,
     dirs, scanVars, history, Directory
<1>3. Placement'
  BY <1>1 DEF Placement, Present, dirs, scanVars
<1>4. Holding'
  BY <1>1 DEF Holding, batchVars, dirs, scanVars, Origins
<1>5. \A o : TakenFrom(o) => TakenFrom(o)'
  BY <1>1, TakenIsStable DEF dirs
<1>6. InTransit'
  BY <1>1, <1>5 DEF InTransit, batchVars
<1>7. LoadedFilesAreGone => LoadedFilesAreGone'
  BY <1>1, <1>5, TablesStep
<1> QED
  BY <1>2, <1>3, <1>4, <1>6, <1>7

\* A crash empties the worker's hands.
LEMMA CrashStep ==
  ASSUME JobInv, Crash
  PROVE  JobInv' /\ (LoadedFilesAreGone => LoadedFilesAreGone')
<1> USE DEF JobInv
<1>1. /\ UNCHANGED <<store, dlt, world, dirs, failed, moveFaults>>
      /\ restarts < MaxRestarts /\ restarts' = restarts + 1
      /\ disturbed' = disturbed \cup {d \in 1 .. Len(drops) : InHand(d)}
      /\ batch' = <<>> /\ run' = NewRun /\ runId' = 0 /\ todo' = {} /\ tx' = EmptyTx
      /\ aborted' = FALSE /\ pending' = {} /\ name' = 0 /\ reading' = 0 /\ pc' = "idle"
  BY DEF Crash
<1>2. TypeOK'
  <2>1. NewRun \in RunRow
    BY DEF NewRun, RunRow, Status
  <2>2. batch' \in Seq(Message) /\ runId' \in 0 .. Len(runs')
    BY <1>1 DEF TypeOK, StoreTypeOK, store
  <2>3. BatchTypeOK'
    BY <1>1, <2>1, <2>2, EmptyTxType DEF BatchTypeOK, TypeOK
  <2>4. restarts' \in 0 .. MaxRestarts /\ reading' \in 0 .. Len(drops)
    BY <1>1, Numbers, FileAssumption DEF TypeOK, world
  <2>5. disturbed' \in SUBSET (1 .. Len(drops))
    BY <1>1 DEF TypeOK
  <2> QED
    BY <1>1, <2>3, <2>4, <2>5 DEF TypeOK, StoreTypeOK, store, PCs, world, dirs, Directory
<1>3. Placement'
  BY <1>1 DEF Placement, world, dirs
<1>4. Holding'
  BY <1>1 DEF Holding
<1>5. \A o : TakenFrom(o) => TakenFrom(o)'
  BY <1>1, TakenUnchanged
<1>6. InTransit'
  BY <1>1 DEF InTransit, EmptyTx
<1>7. LoadedFilesAreGone => LoadedFilesAreGone'
  BY <1>1, <1>5, TablesStep
<1> QED
  BY <1>2, <1>3, <1>4, <1>6, <1>7

-----------------------------------------------------------------------------
(* The theorems.                                                           *)

\* Every step keeps the invariant, the part without the tables by itself.
LEMMA JobNext ==
  ASSUME JobInv, [Next]_vars
  PROVE  JobInv' /\ (LoadedFilesAreGone => LoadedFilesAreGone')
<1>1. CASE Scan \/ ScanDone
  BY <1>1, ScanSteps
<1>2. CASE ReadFile
  BY <1>2, ReadFileStep
<1>3. CASE ReadFileFails
  BY <1>3, ReadFileFailsStep
<1>4. CASE Archive
  BY <1>4, ArchiveStep
<1>5. CASE ArchiveFails \/ MoveToErrorsFails
  BY <1>5, MoveFailsSteps
<1>6. CASE MoveToErrors
  BY <1>6, MoveToErrorsStep
<1>7. CASE Process
  BY <1>7, ProcessPreserves
<1>8. CASE Complete \/ HandleFailure \/ SaveOutcome
  BY <1>8, OutcomeSteps
<1>9. CASE CommitOutcome \/ OutcomeFails
  BY <1>9, EndSteps
<1>10. CASE Drop
  BY <1>10, DropStep
<1>11. CASE Copied \/ UNCHANGED vars
  BY <1>11, CopiedStep
<1>12. CASE Crash
  BY <1>12, CrashStep
<1> QED
  BY <1>1, <1>2, <1>3, <1>4, <1>5, <1>6, <1>7, <1>8, <1>9, <1>10, <1>11, <1>12 DEF Next, Work

\* So the whole of it is inductive.
LEMMA NextInv == IInv /\ [Next]_vars => IInv'
<1> SUFFICES ASSUME IInv, [Next]_vars PROVE IInv'
  OBVIOUS
<1>1. JobInv' /\ LoadedFilesAreGone'
  BY JobNext, Parts
<1> QED
  BY <1>1 DEF IInv, JobInv

(***************************************************************************)
(* The strengthening of the two theorems below: where the files are, what  *)
(* the scan holds and what the open transaction holds fit together.        *)
(***************************************************************************)
THEOREM Invariance == Spec => []IInv
BY InitInv, NextInv, PTL DEF Spec

(***************************************************************************)
(* Type correctness, for every sequence of drops, chunk size and bound.    *)
(***************************************************************************)
THEOREM TypeCorrect == Spec => []TypeOK
<1>1. IInv => TypeOK
  BY DEF IInv
<1> QED
  BY <1>1, Invariance, PTL

(***************************************************************************)
(* extract_file moves a file away before _process_batch writes its rows,   *)
(* so that nothing which is still to be scanned, or was refused, has left  *)
(* anything in the tables, whatever fails, crashes or is overwritten.      *)
(***************************************************************************)
THEOREM LoadedFilesStayGone == Spec => []LoadedFilesAreGone
<1>1. IInv => LoadedFilesAreGone
  BY DEF IInv
<1> QED
  BY <1>1, Invariance, PTL

-----------------------------------------------------------------------------
(* Beside another writer of the tables.                                    *)

\* The file job only adds rows.
LEMMA JobGrows ==
  ASSUME JobInv, [Next]_vars
  PROVE  OnlyAdds
<1>0. TypeOK /\ StoreTypeOK /\ tx \in TxType /\ runId \in 0 .. Len(runs)
  BY DEF JobInv, TypeOK, BatchTypeOK
<1>1. CASE Process
  <2>1. UNCHANGED store \/ CommitTx(tx, runId)
    BY <1>0, <1>1, ProcessStepEffect DEF Process, TypeOK
  <2> QED
    BY <1>0, <2>1, StoreGrows
<1>2. CASE CommitOutcome \/ OutcomeFails
  <2>1. UNCHANGED store \/ CommitTx(tx, runId)
    BY <1>2 DEF CommitOutcome, OutcomeFails
  <2> QED
    BY <1>0, <2>1, StoreGrows
<1>3. CASE ReadFile \/ ReadFileFails
  <2>1. runs' = Append(runs, NoRow) /\ UNCHANGED <<market, errors>>
    BY <1>3 DEF ReadFile, ReadFileFails, TakeUp
  <2> QED
    BY <1>0, <2>1, NewRunGrows
<1>4. CASE UNCHANGED store
  BY <1>0, <1>4, StoreGrows
<1> QED
  BY <1>1, <1>2, <1>3, <1>4
     DEF Next, Work, Scan, ScanDone, Archive, ArchiveFails, MoveToErrors, MoveToErrorsFails,
         Complete, HandleFailure, SaveOutcome, Drop, Copied, Crash, vars

\* What somebody else adds to the tables takes nothing from the job.
LEMMA OtherWriter ==
  ASSUME JobInv, OnlyAdds, StoreTypeOK', dlt' \in SUBSET ErrorRow,
         UNCHANGED <<pc, batch, run, runId, todo, tx, aborted>>,
         UNCHANGED <<world, dirs, scanVars, history>>
  PROVE  JobInv'
<1> USE DEF JobInv
<1>1. TypeOK'
  <2>1. runId' \in 0 .. Len(runs')
    BY DEF OnlyAdds, TypeOK, StoreTypeOK, BatchTypeOK
  <2>2. BatchTypeOK'
    BY <2>1 DEF TypeOK, BatchTypeOK, Parsed, WithFate
  <2> QED
    BY <2>2 DEF TypeOK, world, dirs, scanVars, history, Directory
<1>2. Placement'
  BY DEF Placement, Present, world, dirs, scanVars
<1>3. Holding'
  BY DEF Holding, world, dirs, scanVars, Origins
<1>4. \A o : TakenFrom(o) => TakenFrom(o)'
  BY TakenUnchanged
<1>5. InTransit'
  BY <1>4 DEF InTransit
<1> QED
  BY <1>1, <1>2, <1>3, <1>5

=============================================================================
