-------------------------- MODULE TransformProofs ---------------------------
(***************************************************************************)
(* What Transform computes, for every batch, every table of rates and      *)
(* every width and limit: the stages end as the guards of ProcessBatch say *)
(* of the description of the batch that ProcessBatch knows;                *)
(* prices are read as they were meant; the outlier test flags spikes and   *)
(* spares the majority; the figures of a day fit each other.               *)
(*                                                                         *)
(* FateInv says what each stage has left behind it, DataInv which values   *)
(* that is.  Between the two stand the lemmas about the data: sums, ranks, *)
(* powers of ten, rounding.  Their inductions are over sets, by the least  *)
(* element of the set of counterexamples (LeastNumber, NumbersIn,          *)
(* SubsetsIn).                                                             *)
(***************************************************************************)
EXTENDS Transform, FiniteSetTheorems, TLAPS

\* The records are those of the events the model takes.
Cleaned ==
  /\ \A i \in Positions : ~ IntRaises(events[i].volume)
  /\ valid = {i \in Positions : Kept(events[i])}
  /\ refused = Positions \ valid

\* The server takes the rows of all refusals, or not.
AllRecordable == \A i \in refused : Recordable(i)

\* None of the records is unfit, and their amounts are the rounded ones.
Normalized ==
  \A i \in valid :
    /\ ~ Unfit(events[i])
    /\ records[i].volume = VolumeOf(events[i])
    /\ records[i].price_original = Round(PriceOriginal(events[i]), PriceStep)
    /\ records[i].price_eur = Round(PriceEur(events[i]), PriceStep)
    /\ records[i].value_eur = Round(ValueEur(events[i]), ValueStep)

\* The database takes all of them, or not.
AllLoaded ==
  \A i \in valid :
    /\ Encodable(VolumeOf(events[i]))
    /\ Storable(events[i], Round(PriceOriginal(events[i]), PriceStep),
                           Round(PriceEur(events[i]), PriceStep),
                           Round(ValueEur(events[i]), ValueStep))

Aggregating == {"aggregate", "upsert", "done", "upsertRaised"}

FateInv ==
  /\ stage \in Stages
  /\ stage = "cleanRaised" => \E i \in Positions : IntRaises(events[i].volume)
  /\ stage \notin {"clean", "cleanRaised"} => Cleaned
  /\ stage = "errorsRaised" => ~ AllRecordable
  /\ stage \notin {"clean", "cleanRaised", "errors", "errorsRaised"} => AllRecordable
  /\ stage = "normalizeRaised" => \E i \in valid : Unfit(events[i])
  /\ stage \in {"load", "loadRaised"} \cup Aggregating => Normalized
  /\ stage = "loadRaised" => ~ AllLoaded
  /\ stage \in Aggregating => AllLoaded

-----------------------------------------------------------------------------
(* Each stage does what it promises.                                       *)

\* What the cleaner looks at are the events.
LEMMA EventsStay ==
  ASSUME UNCHANGED events
  PROVE  /\ Positions' = Positions
         /\ FloatColumn' <=> FloatColumn
<1>1. Positions' = Positions
  BY DEF Positions
<1> QED
  BY <1>1 DEF FloatColumn, Objects

\* The later stages leave the cleaner's lists alone.
LEMMA CleanedStays ==
  ASSUME UNCHANGED <<events, valid, refused>>
  PROVE  /\ Cleaned => Cleaned'
         /\ AllRecordable' <=> AllRecordable
<1>1. Positions' = Positions /\ (FloatColumn' <=> FloatColumn)
  BY EventsStay
<1>2. Cleaned => Cleaned'
  BY <1>1 DEF Cleaned, Kept
<1>3. AllRecordable' <=> AllRecordable
  BY <1>1 DEF AllRecordable, Recordable, EventById
<1> QED
  BY <1>2, <1>3

\* The cleaner raises on an infinite volume, and else splits the batch.
LEMMA CleanSteps ==
  ASSUME FateInv, CleanBatch \/ CleanBatchRaises
  PROVE  FateInv'
<1>1. Positions' = Positions /\ (FloatColumn' <=> FloatColumn) /\ events' = events
  BY EventsStay DEF CleanBatch, CleanBatchRaises
<1>2. CASE CleanBatch
  <2>1. Cleaned'
    BY <1>1, <1>2 DEF CleanBatch, Cleaned, Kept
  <2>2. stage' = "errors"
    BY <1>2 DEF CleanBatch
  <2> QED
    BY <2>1, <2>2 DEF FateInv, Stages, Aggregating
<1>3. CASE CleanBatchRaises
  <2>1. stage' = "cleanRaised" /\ \E i \in Positions' : IntRaises(events'[i].volume)
    BY <1>1, <1>3 DEF CleanBatchRaises
  <2> QED
    BY <2>1 DEF FateInv, Stages, Aggregating
<1> QED
  BY <1>2, <1>3

\* The refusals are saved if the server takes every row.
LEMMA SaveStep ==
  ASSUME FateInv, SaveErrors
  PROVE  FateInv'
<1>1. Cleaned' /\ (AllRecordable' <=> AllRecordable)
  BY CleanedStays DEF FateInv, SaveErrors
<1>2. stage' = IF AllRecordable THEN "normalize" ELSE "errorsRaised"
  BY DEF SaveErrors, AllRecordable
<1> QED
  BY <1>1, <1>2 DEF FateInv, Stages, Aggregating

\* The normalizer raises on an unfit record, and else rounds them all.
LEMMA NormalizeSteps ==
  ASSUME FateInv, NormalizeBatch \/ NormalizeBatchRaises
  PROVE  FateInv'
<1>1. UNCHANGED <<events, valid, refused>> /\ stage = "normalize"
  BY DEF NormalizeBatch, NormalizeBatchRaises
<1>2. Cleaned' /\ AllRecordable'
  BY <1>1, CleanedStays DEF FateInv
<1>3. CASE NormalizeBatch
  <2>1. Normalized'
    BY <1>1, <1>3 DEF NormalizeBatch, Normalized
  <2>2. stage' = "load"
    BY <1>3 DEF NormalizeBatch
  <2> QED
    BY <1>2, <2>1, <2>2 DEF FateInv, Stages, Aggregating
<1>4. CASE NormalizeBatchRaises
  <2>1. stage' = "normalizeRaised" /\ \E i \in valid' : Unfit(events'[i])
    BY <1>1, <1>4 DEF NormalizeBatchRaises
  <2> QED
    BY <1>2, <2>1 DEF FateInv, Stages, Aggregating
<1> QED
  BY <1>3, <1>4

\* What Load looks at are the amounts of the events.
LEMMA LoadStep ==
  ASSUME FateInv, Load
  PROVE  FateInv'
<1>1. Cleaned /\ AllRecordable /\ Normalized /\ UNCHANGED <<events, valid, refused, records>>
  BY DEF FateInv, Load
<1>2. Cleaned' /\ AllRecordable' /\ Normalized'
  BY <1>1, CleanedStays DEF Normalized
<1>3. AllLoaded' <=> AllLoaded
  BY <1>1 DEF AllLoaded
<1>4. stage' = IF AllLoaded THEN "aggregate" ELSE "loadRaised"
  <2>1. AllLoaded <=> \A i \in valid :
          /\ Encodable(records[i].volume)
          /\ Storable(events[i], records[i].price_original,
                      records[i].price_eur, records[i].value_eur)
    BY <1>1 DEF Normalized, AllLoaded
  <2> QED
    BY <2>1 DEF Load
<1> QED
  BY <1>2, <1>3, <1>4 DEF FateInv, Stages, Aggregating

\* What comes after the load changes no record.
LEMMA AggregateSteps ==
  ASSUME FateInv, Aggregate \/ Upsert \/ UNCHANGED vars
  PROVE  FateInv'
<1>1. UNCHANGED <<events, valid, refused, records>>
  BY DEF Aggregate, Upsert, vars
<1>2. /\ Cleaned => Cleaned'
      /\ AllRecordable' <=> AllRecordable
      /\ Normalized => Normalized'
      /\ AllLoaded' <=> AllLoaded
  BY <1>1, CleanedStays DEF Normalized, AllLoaded
<1>3. Positions' = Positions
  BY <1>1 DEF Positions
<1>4. stage' = stage \/ (stage \in Aggregating /\ stage' \in Aggregating)
  <2>1. CASE Aggregate
    BY <2>1 DEF Aggregate, Aggregating
  <2>2. CASE Upsert
    <3>1. stage = "upsert" /\ stage' \in {"done", "upsertRaised"}
      BY <2>2 DEF Upsert
    <3> QED
      BY <3>1 DEF Aggregating
  <2>3. CASE UNCHANGED vars
    BY <2>3 DEF vars
  <2> QED
    BY <2>1, <2>2, <2>3
<1> QED
  BY <1>1, <1>2, <1>3, <1>4 DEF FateInv, Stages, Aggregating

\* Every step keeps the invariant.
LEMMA FateNext == FateInv /\ [Next]_vars => FateInv'
BY CleanSteps, SaveStep, NormalizeSteps, LoadStep, AggregateSteps DEF Next

\* What each stage has left behind it (_process_batch, on the fields).
THEOREM FateInvariance == Spec => []FateInv
<1>1. Init => FateInv
  BY DEF Init, FateInv, Stages, Aggregating
<1> QED
  BY <1>1, FateNext, PTL DEF Spec

-----------------------------------------------------------------------------
(* Induction, sums and ranks.                                              *)

\* A non-empty set of numbers has a least one.
LEMMA LeastNumber ==
  ASSUME NEW T \in SUBSET Nat, T # {}
  PROVE  \E x \in T : \A y \in T : x <= y
<1>1. IsWellFoundedOn(OpToRel(<, Nat), Nat)
  BY NatLessThanWellFounded, Zenon
<1>2. PICK x \in T : \A y \in T : <<y, x>> \notin OpToRel(<, Nat)
  BY <1>1, WFMin
<1>3. \A y \in T : ~ (y < x)
  BY <1>2 DEF OpToRel
<1> QED
  BY <1>3

\* Induction, for a set instead of a predicate.
LEMMA NumbersIn ==
  ASSUME NEW S, 0 \in S, \A n \in Nat : n \in S => n + 1 \in S
  PROVE  Nat \subseteq S
<1> SUFFICES ASSUME Nat \ S # {} PROVE FALSE
  OBVIOUS
<1>1. PICK x \in Nat \ S : \A y \in Nat \ S : x <= y
  BY LeastNumber
<1>2. x - 1 \in Nat /\ x - 1 \in S
  BY <1>1
<1> QED
  BY <1>1, <1>2

\* The same for the subsets of a finite set.
LEMMA SubsetsIn ==
  ASSUME NEW S, IsFiniteSet(S), NEW Q, {} \in Q,
         \A T \in SUBSET S : T # {} /\ (\A x \in T : T \ {x} \in Q) => T \in Q
  PROVE  SUBSET S \subseteq Q
<1> SUFFICES ASSUME (SUBSET S) \ Q # {} PROVE FALSE
  OBVIOUS
<1>1. IsWellFoundedOn(StrictSubsetOrdering(S), SUBSET S)
  BY FS_StrictSubsetOrderingWellFounded, FS_FiniteSubsetsOfFinite
<1>2. PICK T \in (SUBSET S) \ Q :
        \A U \in (SUBSET S) \ Q : <<U, T>> \notin StrictSubsetOrdering(S)
  BY <1>1, WFMin
<1>3. ASSUME NEW x \in T PROVE T \ {x} \in Q
  <2>1. T \ {x} \in SUBSET S /\ <<T \ {x}, T>> \in StrictSubsetOrdering(S)
    BY DEF StrictSubsetOrdering
  <2> QED
    BY <1>2, <2>1
<1> QED
  BY <1>2, <1>3

\* A finite set of numbers has a greatest and a least element.
LEMMA MaxAndMin ==
  ASSUME NEW S \in SUBSET Int, IsFiniteSet(S), S # {}
  PROVE  /\ Max(S) \in S /\ \A x \in S : x <= Max(S)
         /\ Min(S) \in S /\ \A x \in S : Min(S) <= x
<1> DEFINE Q == {T \in SUBSET S : T # {} => /\ \E m \in T : \A x \in T : m >= x
                                            /\ \E m \in T : \A x \in T : m =< x}
<1>1. {} \in Q
  OBVIOUS
<1>2. ASSUME NEW T \in SUBSET S, T # {}, \A x \in T : T \ {x} \in Q PROVE T \in Q
  <2>1. PICK y \in T : TRUE
    BY <1>2
  <2>2. CASE T \ {y} = {}
    <3>1. T = {y} /\ y \in Int
      BY <2>1, <2>2
    <3> QED
      BY <3>1
  <2>3. CASE T \ {y} # {}
    <3>1. T \ {y} \in Q
      BY <1>2, <2>1
    <3>2. PICK a \in T \ {y} : \A x \in T \ {y} : a >= x
      BY <3>1, <2>3
    <3>3. PICK b \in T \ {y} : \A x \in T \ {y} : b =< x
      BY <3>1, <2>3
    <3>4. a \in Int /\ b \in Int /\ y \in Int
      OBVIOUS
    <3>5. \E m \in T : \A x \in T : m >= x
      <4>1. CASE a >= y
        BY <4>1, <3>2, <3>4
      <4>2. CASE y >= a
        <5>1. \A x \in T : y >= x
          BY <4>2, <3>2, <3>4
        <5> QED
          BY <5>1
      <4> QED
        BY <4>1, <4>2, <3>4
    <3>6. \E m \in T : \A x \in T : m =< x
      <4>1. CASE b =< y
        BY <4>1, <3>3, <3>4
      <4>2. CASE y =< b
        <5>1. \A x \in T : y =< x
          BY <4>2, <3>3, <3>4
        <5> QED
          BY <5>1
      <4> QED
        BY <4>1, <4>2, <3>4
    <3> QED
      BY <3>5, <3>6
  <2> QED
    BY <2>2, <2>3
<1> HIDE DEF Q
<1>3. S \in Q
  BY <1>1, <1>2, SubsetsIn
<1>4. /\ \E m \in S : \A x \in S : m >= x
      /\ \E m \in S : \A x \in S : m =< x
  BY <1>3 DEF Q
<1>5. Max(S) \in S /\ \A x \in S : Max(S) >= x
  BY <1>4 DEF Max
<1>6. Min(S) \in S /\ \A x \in S : Min(S) =< x
  BY <1>4 DEF Min
<1> QED
  BY <1>5, <1>6

\* What SumFunction computes, as a table of the sums over subsets.
Pick(s) == CHOOSE x \in s : TRUE
SumTable(f, g, S) == \A s \in S : g[s] = IF s = {} THEN 0 ELSE f[Pick(s)] + g[s \ {Pick(s)}]

\* There is one such table, and SumFunction reads it.
LEMMA SumIsTabled ==
  ASSUME NEW f, IsFiniteSet(DOMAIN f)
  PROVE  \E g : /\ g = [s \in SUBSET DOMAIN f |->
                      IF s = {} THEN 0 ELSE f[Pick(s)] + g[s \ {Pick(s)}]]
                /\ SumFunction(f) = g[DOMAIN f]
<1> DEFINE D == DOMAIN f
           Upto(n) == {s \in SUBSET D : Cardinality(s) <= n}
           Has == {n \in Nat : \E g : DOMAIN g = Upto(n) /\ SumTable(f, g, Upto(n))}
<1>0. \A s \in SUBSET D : /\ IsFiniteSet(s)
                            /\ Cardinality(s) \in Nat /\ Cardinality(s) <= Cardinality(D)
  BY FS_Subset, FS_CardinalityType
<1>1. Nat \subseteq Has
  <2>1. 0 \in Has
    <3> DEFINE g == [s \in Upto(0) |-> 0]
    <3>1. \A s \in Upto(0) : s = {}
      BY <1>0, FS_EmptySet
    <3>2. SumTable(f, g, Upto(0))
      BY <3>1 DEF SumTable
    <3> QED
      BY <3>2
  <2>2. ASSUME NEW n \in Nat, n \in Has PROVE n + 1 \in Has
    <3>1. PICK g : DOMAIN g = Upto(n) /\ SumTable(f, g, Upto(n))
      BY <2>2
    <3> DEFINE h == [s \in Upto(n + 1) |->
                    IF s \in Upto(n) THEN g[s] ELSE f[Pick(s)] + g[s \ {Pick(s)}]]
    <3>2. ASSUME NEW s \in Upto(n + 1), s # {}
          PROVE  Pick(s) \in s /\ s \ {Pick(s)} \in Upto(n)
      <4>1. Pick(s) \in s
        BY <3>2 DEF Pick
      <4>2. Cardinality(s \ {Pick(s)}) = Cardinality(s) - 1
        BY <4>1, <1>0, FS_RemoveElement
      <4> QED
        BY <4>1, <4>2, <1>0
    <3>3. ASSUME NEW s \in Upto(n + 1)
          PROVE  h[s] = IF s = {} THEN 0 ELSE f[Pick(s)] + h[s \ {Pick(s)}]
      <4>0. Upto(n) \subseteq Upto(n + 1)
        BY <1>0
      <4>1. CASE s \in Upto(n)
        <5>1. s # {} => s \ {Pick(s)} \in Upto(n)
          BY <3>2
        <5> QED
          BY <4>0, <4>1, <3>1, <5>1 DEF SumTable
      <4>2. CASE s \notin Upto(n)
        <5>1. s # {}
          BY <4>2, FS_EmptySet
        <5>2. s \ {Pick(s)} \in Upto(n)
          BY <3>2, <5>1
        <5> QED
          BY <4>0, <4>2, <5>1, <5>2
      <4> QED
        BY <4>1, <4>2
    <3>4. DOMAIN h = Upto(n + 1) /\ SumTable(f, h, Upto(n + 1))
      BY <3>3 DEF SumTable
    <3> HIDE DEF h, Upto
    <3>5. \E k : DOMAIN k = Upto(n + 1) /\ SumTable(f, k, Upto(n + 1))
      BY <3>4
    <3> QED
      BY <3>5
  <2> HIDE DEF Has
  <2> QED
    BY <2>1, <2>2, NumbersIn
<1>2. Upto(Cardinality(D)) = SUBSET D /\ Cardinality(D) \in Nat
  BY <1>0
<1>3. PICK g : DOMAIN g = SUBSET D /\ SumTable(f, g, SUBSET D)
  BY <1>1, <1>2
<1> DEFINE h == [s \in SUBSET D |-> g[s]]
<1>4. h = [s \in SUBSET D |-> IF s = {} THEN 0 ELSE f[Pick(s)] + h[s \ {Pick(s)}]]
  BY <1>3 DEF SumTable
<1> DEFINE iter == CHOOSE i : i = [s \in SUBSET D |->
                                     IF s = {} THEN 0 ELSE f[Pick(s)] + i[s \ {Pick(s)}]]
<1>5. SumFunction(f) = iter[D]
  BY DEF SumFunction, SumFunctionOnSet, FoldFunctionOnSet, MapThenFoldSet, Pick
<1> HIDE DEF h
<1>6. iter = [s \in SUBSET D |-> IF s = {} THEN 0 ELSE f[Pick(s)] + iter[s \ {Pick(s)}]]
  BY <1>4
<1> QED
  BY <1>5, <1>6

\* Multiplication distributes over a sum.
LEMMA Distributes == \A a, x, y \in Int : a * (x + y) = a * x + a * y
OBVIOUS

\* Multiplication by a natural number keeps the order.
LEMMA Monotone == \A a, b \in Int, c \in Nat : a <= b => a * c <= b * c
OBVIOUS

\* Sums compare as their terms do.
LEMMA SumsCompare ==
  ASSUME NEW D, IsFiniteSet(D), NEW f \in [D -> Int], NEW g \in [D -> Int],
         NEW a \in Int, NEW b \in Int, NEW c \in Int,
         \A i \in D : a * f[i] <= b * g[i] + c
  PROVE  /\ SumFunction(f) \in Int /\ SumFunction(g) \in Int
         /\ a * SumFunction(f) <= b * SumFunction(g) + c * Cardinality(D)
<1>1. PICK F : /\ F = [s \in SUBSET D |-> IF s = {} THEN 0 ELSE f[Pick(s)] + F[s \ {Pick(s)}]]
               /\ SumFunction(f) = F[D]
  <2>1. DOMAIN f = D
    OBVIOUS
  <2> QED
    BY <2>1, SumIsTabled
<1>2. PICK G : /\ G = [s \in SUBSET D |-> IF s = {} THEN 0 ELSE g[Pick(s)] + G[s \ {Pick(s)}]]
               /\ SumFunction(g) = G[D]
  <2>1. DOMAIN g = D
    OBVIOUS
  <2> QED
    BY <2>1, SumIsTabled
<1> DEFINE Q == {s \in SUBSET D : /\ F[s] \in Int /\ G[s] \in Int
                                  /\ a * F[s] <= b * G[s] + c * Cardinality(s)}
<1>3. {} \in Q
  <2>1. F[{}] = 0 /\ G[{}] = 0 /\ Cardinality({}) = 0
    BY <1>1, <1>2, FS_EmptySet
  <2> QED
    BY <2>1
<1>4. ASSUME NEW s \in SUBSET D, s # {}, \A x \in s : s \ {x} \in Q PROVE s \in Q
  <2> DEFINE x == Pick(s)
             t == s \ {x}
  <2>1. x \in s /\ x \in D
    BY <1>4 DEF Pick
  <2>2. t \in Q
    BY <1>4, <2>1
  <2>3. F[s] = f[x] + F[t] /\ G[s] = g[x] + G[t]
    BY <1>1, <1>2, <1>4
  <2>4. Cardinality(s) = Cardinality(t) + 1 /\ Cardinality(t) \in Nat
    <3>1. IsFiniteSet(s)
      BY FS_Subset
    <3>2. Cardinality(s) \in Nat /\ Cardinality(t) = Cardinality(s) - 1
      BY <2>1, <3>1, FS_CardinalityType, FS_RemoveElement
    <3>3. IsFiniteSet(t)
      BY FS_Subset
    <3> QED
      BY <3>2, <3>3, FS_CardinalityType
  <2>5. /\ F[t] \in Int /\ G[t] \in Int /\ f[x] \in Int /\ g[x] \in Int
        /\ a * F[t] <= b * G[t] + c * Cardinality(t)
        /\ a * f[x] <= b * g[x] + c
    BY <2>1, <2>2
  <2> HIDE DEF x, t
  <2>6. /\ a * (f[x] + F[t]) = a * f[x] + a * F[t]
        /\ b * (g[x] + G[t]) = b * g[x] + b * G[t]
        /\ c * (Cardinality(t) + 1) = c * Cardinality(t) + c
    <3>1. a * (f[x] + F[t]) = a * f[x] + a * F[t]
      BY <2>5, Distributes
    <3>2. b * (g[x] + G[t]) = b * g[x] + b * G[t]
      BY <2>5, Distributes
    <3>3. c * (Cardinality(t) + 1) = c * Cardinality(t) + c * 1
      BY <2>4, Distributes
    <3> QED
      BY <3>1, <3>2, <3>3
  <2>7. a * F[s] <= b * G[s] + c * Cardinality(s)
    BY <2>3, <2>4, <2>5, <2>6
  <2> QED
    BY <2>3, <2>5, <2>7
<1> HIDE DEF Q
<1>5. D \in Q
  BY <1>3, <1>4, SubsetsIn
<1> QED
  BY <1>1, <1>2, <1>5 DEF Q

\* A sum of natural numbers is one.
LEMMA SumIsNatural ==
  ASSUME NEW D, IsFiniteSet(D), NEW f \in [D -> Nat]
  PROVE  SumFunction(f) \in Nat
<1>1. PICK F : /\ F = [s \in SUBSET D |-> IF s = {} THEN 0 ELSE f[Pick(s)] + F[s \ {Pick(s)}]]
               /\ SumFunction(f) = F[D]
  <2>1. DOMAIN f = D
    OBVIOUS
  <2> QED
    BY <2>1, SumIsTabled
<1> DEFINE Q == {s \in SUBSET D : F[s] \in Nat}
<1>2. {} \in Q
  BY <1>1
<1>3. ASSUME NEW s \in SUBSET D, s # {}, \A x \in s : s \ {x} \in Q PROVE s \in Q
  <2>1. Pick(s) \in s
    BY <1>3 DEF Pick
  <2>2. F[s] = f[Pick(s)] + F[s \ {Pick(s)}]
    BY <1>1, <1>3
  <2>3. f[Pick(s)] \in Nat /\ F[s \ {Pick(s)}] \in Nat
    BY <1>3, <2>1
  <2> QED
    BY <2>2, <2>3
<1> HIDE DEF Q
<1>4. D \in Q
  BY <1>2, <1>3, SubsetsIn
<1> QED
  BY <1>1, <1>4 DEF Q

\* The k-th value exists: fewer than k are below it, at least k up to it.
LEMMA RankExists ==
  ASSUME NEW D, IsFiniteSet(D), NEW f \in [D -> Int], NEW k \in 1 .. Cardinality(D)
  PROVE  /\ Ranked(f, k) \in Range(f) /\ Ranked(f, k) \in Int
         /\ Cardinality({i \in D : f[i] < Ranked(f, k)}) < k
         /\ Cardinality({i \in D : f[i] <= Ranked(f, k)}) >= k
<1> DEFINE Below(v) == {i \in D : f[i] < v}
           Upto(v)  == {i \in D : f[i] <= v}
           V == {v \in Range(f) : Cardinality(Upto(v)) >= k}
<1>1. DOMAIN f = D /\ Range(f) \in SUBSET Int /\ \A i \in D : f[i] \in Range(f)
  BY DEF Range
<1>2. IsFiniteSet(Range(f))
  <2>1. f \in Surjection(D, Range(f))
    BY <1>1 DEF Surjection, Range
  <2> QED
    BY <2>1, FS_Surjection
<1>3. \A T \in SUBSET D : IsFiniteSet(T) /\ Cardinality(T) \in Nat
  BY FS_Subset, FS_CardinalityType
<1>4. D # {}
  BY FS_EmptySet
<1>5. V # {}
  <2>1. Range(f) # {}
    BY <1>1, <1>4
  <2>2. Max(Range(f)) \in Range(f) /\ \A x \in Range(f) : x <= Max(Range(f))
    BY <1>1, <1>2, <2>1, MaxAndMin
  <2>3. Upto(Max(Range(f))) = D
    BY <1>1, <2>2
  <2> QED
    BY <2>2, <2>3, <1>3
<1>6. IsFiniteSet(V) /\ V \in SUBSET Int
  BY <1>1, <1>2, FS_Subset
<1>7. PICK m \in V : \A x \in V : m <= x
  BY <1>5, <1>6, MaxAndMin
<1>8. Cardinality(Below(m)) < k
  <2> SUFFICES ASSUME Cardinality(Below(m)) >= k PROVE FALSE
    <3>1. Cardinality(Below(m)) \in Nat
      BY <1>3
    <3> QED
      BY <3>1, <1>3
  <2> DEFINE W == {w \in Range(f) : w < m}
  <2>0. k \in Int /\ k >= 1
    BY <1>3
  <2>1. Below(m) # {}
    BY <2>0, FS_EmptySet
  <2>2. W # {}
    BY <2>1, <1>1
  <2>3. IsFiniteSet(W) /\ W \in SUBSET Int
    BY <1>1, <1>2, FS_Subset
  <2>4. PICK w \in W : \A x \in W : x <= w
    BY <2>2, <2>3, MaxAndMin
  <2>5. Below(m) \subseteq Upto(w)
    BY <2>4, <1>1
  <2>6. Cardinality(Below(m)) <= Cardinality(Upto(w))
    BY <2>5, <1>3, FS_Subset
  <2>7. Cardinality(Below(m)) \in Nat /\ Cardinality(Upto(w)) \in Nat
    BY <1>3
  <2>8. w \in V
    BY <2>0, <2>6, <2>7
  <2>9. w \in Int /\ m \in Int /\ w < m
    BY <2>3, <1>6
  <2> HIDE DEF W, V
  <2> QED
    BY <2>8, <2>9, <1>7
<1> HIDE DEF V
<1>9. \E v \in Range(f) : Cardinality(Below(v)) < k /\ Cardinality(Upto(v)) >= k
  BY <1>7, <1>8 DEF V
<1>10. Ranked(f, k) \in Range(f) /\ Cardinality(Below(Ranked(f, k))) < k
       /\ Cardinality(Upto(Ranked(f, k))) >= k
  BY <1>1, <1>9 DEF Ranked
<1> QED
  BY <1>1, <1>10

\* It is a number.
LEMMA RankIsNumber ==
  ASSUME NEW D, IsFiniteSet(D), NEW f \in [D -> Int], NEW k \in 1 .. Cardinality(D)
  PROVE  Ranked(f, k) \in Int
BY RankExists

\* Where k values are at most c, the k-th is.
LEMMA RankAtMost ==
  ASSUME NEW D, IsFiniteSet(D), NEW f \in [D -> Int], NEW k \in 1 .. Cardinality(D),
         NEW c \in Int,
         Cardinality({i \in D : f[i] <= c}) >= k
  PROVE  Ranked(f, k) <= c
<1> DEFINE v == Ranked(f, k)
           A == {i \in D : f[i] <= c}
           B == {i \in D : f[i] < v}
<1>1. v \in Int /\ Cardinality(B) < k
  BY RankExists
<1> SUFFICES ASSUME v > c PROVE FALSE
  BY <1>1
<1>2. A \subseteq B
  BY <1>1
<1>3. IsFiniteSet(B) /\ IsFiniteSet(A)
  BY FS_Subset
<1>4. Cardinality(A) \in Nat /\ Cardinality(B) \in Nat
  BY <1>3, FS_CardinalityType
<1>5. Cardinality(A) <= Cardinality(B)
  BY <1>2, <1>3, FS_Subset
<1> QED
  BY <1>1, <1>4, <1>5

\* Where all but k - 1 values are at least c, the k-th is.
LEMMA RankAtLeast ==
  ASSUME NEW D, IsFiniteSet(D), NEW f \in [D -> Int], NEW k \in 1 .. Cardinality(D),
         NEW c \in Int,
         Cardinality({i \in D : f[i] >= c}) + k > Cardinality(D)
  PROVE  Ranked(f, k) >= c
<1> DEFINE v == Ranked(f, k)
           A == {i \in D : f[i] >= c}
           B == {i \in D : f[i] <= v}
<1>1. v \in Int /\ Cardinality(B) >= k
  BY RankExists
<1> SUFFICES ASSUME v < c PROVE FALSE
  BY <1>1
<1>3. IsFiniteSet(B) /\ IsFiniteSet(A)
  BY FS_Subset
<1>4. Cardinality(A) \in Nat /\ Cardinality(B) \in Nat /\ Cardinality(D) \in Nat
  BY <1>3, FS_CardinalityType
<1>5. Cardinality(A) + Cardinality(B) > Cardinality(D)
  BY <1>1, <1>4
<1>6. A \cap B # {}
  BY <1>5, FS_MajoritiesIntersect
<1> QED
  BY <1>1, <1>6

\* The values are in order.
LEMMA RanksAscend ==
  ASSUME NEW D, IsFiniteSet(D), NEW f \in [D -> Int],
         NEW j \in 1 .. Cardinality(D), NEW k \in 1 .. Cardinality(D), j <= k
  PROVE  Ranked(f, j) <= Ranked(f, k)
<1>1. /\ Ranked(f, k) \in Int
      /\ Cardinality({i \in D : f[i] <= Ranked(f, k)}) >= k
  BY RankExists
<1>2. Cardinality({i \in D : f[i] <= Ranked(f, k)}) \in Nat
  BY FS_Subset, FS_CardinalityType
<1>3. Cardinality({i \in D : f[i] <= Ranked(f, k)}) >= j
  BY <1>1, <1>2
<1> QED
  BY <1>1, <1>3, RankAtMost

-----------------------------------------------------------------------------
(* Numbers as text, and rounding.                                          *)

\* The powers of ten exist: Ten is the function its recursion describes.
LEMMA TenDefined == \A n \in Nat : Ten[n] = IF n = 0 THEN 1 ELSE 10 * Ten[n - 1]
<1> DEFINE Table(n, g) == g[0] = 1 /\ \A i \in 0 .. n - 1 : g[i + 1] = 10 * g[i]
           Has == {n \in Nat : \E g \in [0 .. n -> Nat] : Table(n, g)}
<1>1. Nat \subseteq Has
  <2>1. 0 \in Has
    <3>1. Table(0, [i \in 0 .. 0 |-> 1]) /\ [i \in 0 .. 0 |-> 1] \in [0 .. 0 -> Nat]
      OBVIOUS
    <3> QED
      BY <3>1
  <2>2. ASSUME NEW n \in Nat, n \in Has PROVE n + 1 \in Has
    <3>1. PICK g \in [0 .. n -> Nat] : Table(n, g)
      BY <2>2
    <3> DEFINE h == [i \in 0 .. n + 1 |-> IF i = n + 1 THEN 10 * g[n] ELSE g[i]]
    <3>2. h \in [0 .. n + 1 -> Nat]
      BY <3>1
    <3>3. Table(n + 1, h)
      BY <3>1
    <3> HIDE DEF h, Table
    <3> QED
      BY <3>2, <3>3
  <2> HIDE DEF Has
  <2> QED
    BY <2>1, <2>2, NumbersIn
<1> DEFINE G(n) == CHOOSE g \in [0 .. n -> Nat] : Table(n, g)
<1>2. \A n \in Nat : G(n) \in [0 .. n -> Nat] /\ Table(n, G(n))
  BY <1>1
<1> HIDE DEF G
<1>3. ASSUME NEW n \in Nat PROVE G(n + 1)[n] = G(n)[n]
  <2> DEFINE S == {i \in Nat : i <= n => G(n + 1)[i] = G(n)[i]}
  <2>1. 0 \in S
    <3>1. Table(n, G(n)) /\ Table(n + 1, G(n + 1))
      BY <1>2
    <3> QED
      BY <3>1
  <2>2. ASSUME NEW i \in Nat, i \in S PROVE i + 1 \in S
    <3> SUFFICES ASSUME i + 1 <= n PROVE G(n + 1)[i + 1] = G(n)[i + 1]
      OBVIOUS
    <3>1. G(n + 1)[i] = G(n)[i]
      BY <2>2
    <3>2. G(n + 1)[i + 1] = 10 * G(n + 1)[i] /\ G(n)[i + 1] = 10 * G(n)[i]
      BY <1>2
    <3> QED
      BY <3>1, <3>2
  <2> HIDE DEF S
  <2>3. Nat \subseteq S
    BY <2>1, <2>2, NumbersIn
  <2> QED
    BY <2>3 DEF S
<1> DEFINE F == [n \in Nat |-> G(n)[n]]
<1>4. F = [n \in Nat |-> IF n = 0 THEN 1 ELSE 10 * F[n - 1]]
  <2>1. ASSUME NEW n \in Nat PROVE F[n] = IF n = 0 THEN 1 ELSE 10 * F[n - 1]
    <3>1. CASE n = 0
      BY <3>1, <1>2
    <3>2. CASE n # 0
      <4>1. n - 1 \in Nat
        BY <3>2
      <4>2. G(n)[n - 1] = F[n - 1]
        BY <4>1, <1>3
      <4>3. G(n)[n] = 10 * G(n)[n - 1]
        BY <3>2, <4>1, <1>2
      <4> QED
        BY <3>2, <4>2, <4>3
    <3> QED
      BY <3>1, <3>2
  <2> QED
    BY <2>1, Zenon
<1> HIDE DEF F
<1>5. Ten = CHOOSE f : f = [n \in Nat |-> IF n = 0 THEN 1 ELSE 10 * f[n - 1]]
  BY DEF Ten
<1>6. Ten = [n \in Nat |-> IF n = 0 THEN 1 ELSE 10 * Ten[n - 1]]
  BY <1>4, <1>5, Zenon
<1> QED
  BY <1>6, Zenon

\* They are positive.
LEMMA TenPositive == \A n \in Nat : Ten[n] \in Nat \ {0}
<1> DEFINE S == {n \in Nat : Ten[n] \in Nat \ {0}}
<1>1. 0 \in S
  BY TenDefined
<1>2. ASSUME NEW n \in Nat, n \in S PROVE n + 1 \in S
  <2>1. Ten[n + 1] = 10 * Ten[n]
    BY TenDefined
  <2> QED
    BY <1>2, <2>1
<1> HIDE DEF S
<1>3. Nat \subseteq S
  BY <1>1, <1>2, NumbersIn
<1> QED
  BY <1>3 DEF S

\* A parser returns a number, or none.
LEMMA ParsedNumbers ==
  ASSUME NEW n \in Numeral
  PROVE  /\ Precise(n) => ParseDecimal(n) \in SUBSET Int /\ \A p, q \in ParseDecimal(n) : p = q
         /\ ParseInt(n) \in SUBSET Int /\ \A v, w \in ParseInt(n) : v = w
<1>1. CASE n.kind # "number"
  BY <1>1 DEF ParseDecimal, ParseInt
<1>2. CASE n.kind = "number"
  <2>1. n.neg \in BOOLEAN /\ n.digits \in Nat /\ n.marks \in Seq(Mark)
    BY <1>2 DEF Numeral
  <2>2. Places \in Nat /\ \A k \in DOMAIN n.marks : n.marks[k].at \in Nat
    <3>1. \A k \in DOMAIN n.marks : n.marks[k] \in Mark
      BY <2>1
    <3> QED
      BY <3>1, TransformAssumption DEF Mark
  <2>3. \A a \in Int : Signed(n, a) \in Int
    BY DEF Signed
  <2>4. Separators(n) \subseteq DOMAIN n.marks
    BY DEF Separators, Having
  <2>5. ASSUME Precise(n)
        PROVE  ParseDecimal(n) \in SUBSET Int /\ \A p, q \in ParseDecimal(n) : p = q
    <3>1. CASE Separators(n) = {}
      <4>1. n.digits * Ten[Places] \in Int
        BY <2>1, <2>2, TenPositive
      <4> QED
        BY <1>2, <2>3, <3>1, <4>1 DEF ParseDecimal
    <3>2. CASE Separators(n) # {}
      <4>1. ASSUME NEW k \in Separators(n), Separators(n) = {k}
            PROVE  n.digits * Ten[Places - n.marks[k].at] \in Int
        <5>1. Places - n.marks[k].at \in Nat
          BY <1>2, <2>2, <2>4, <2>5, <4>1 DEF Precise
        <5>2. Ten[Places - n.marks[k].at] \in Nat
          BY <5>1, TenPositive
        <5> QED
          BY <2>1, <5>2
      <4>2. ParseDecimal(n) = {Signed(n, n.digits * Ten[Places - n.marks[k].at]) :
                                 k \in {p \in Separators(n) : Separators(n) = {p}}}
        BY <1>2, <3>2 DEF ParseDecimal
      <4> QED
        BY <2>3, <4>1, <4>2
    <3> QED
      BY <3>1, <3>2
  <2>6. ParseInt(n) \in SUBSET Int /\ \A v, w \in ParseInt(n) : v = w
    <3> DEFINE at == IF n.marks = <<>> THEN 0 ELSE n.marks[1].at
    <3>1. CASE Having(n, ",") # {} \/ Len(n.marks) > 1
      BY <3>1 DEF ParseInt
    <3>2. CASE ~ (Having(n, ",") # {} \/ Len(n.marks) > 1)
      <4>1. at \in Nat
        BY <2>1, <2>2
      <4>2. Ten[at] \in Nat \ {0}
        BY <4>1, TenPositive
      <4>3. n.digits \div Ten[at] \in Int
        BY <2>1, <4>2
      <4>4. ParseInt(n) = {Signed(n, n.digits \div Ten[at])}
        BY <1>2, <3>2 DEF ParseInt
      <4> QED
        BY <2>3, <4>3, <4>4
    <3> QED
      BY <3>1, <3>2
  <2> QED
    BY <2>5, <2>6
<1> QED
  BY <1>1, <1>2

\* The amounts of an accepted event are numbers, and its price is positive.
LEMMA AcceptedAmounts ==
  ASSUME NEW e \in Event, Precise(e.price), Accepted(e)
  PROVE  /\ VolumeOf(e) \in Nat /\ PriceEur(e) \in Nat /\ PriceEur(e) > 0
         /\ PriceOriginal(e) \in Nat /\ ValueEur(e) \in Nat
         /\ ParseDecimal(e.price) = {CHOOSE p \in ParseDecimal(e.price) : TRUE}
<1>1. e.price \in Numeral /\ e.volume \in Numeral
  BY DEF Event
<1>2. PICK p \in ParseDecimal(e.price) : p > 0
  BY DEF Accepted
<1>3. PICK v \in ParseInt(e.volume) : v >= 0
  BY DEF Accepted
<1>4. /\ p \in Int /\ v \in Int
      /\ ParseDecimal(e.price) = {p} /\ ParseInt(e.volume) = {v}
  BY <1>1, ParsedNumbers
<1>5. Rates[e.currency] \in Nat \ {0}
  BY TransformAssumption DEF Accepted
<1>6. VolumeOf(e) = v
  BY <1>4 DEF VolumeOf
<1>7. PriceEur(e) = p * Rates[e.currency]
  BY <1>4 DEF PriceEur
<1>8. p * Rates[e.currency] \in Nat /\ p * Rates[e.currency] > 0
  BY <1>2, <1>4, <1>5
<1>9. v \in Nat /\ PriceEur(e) * v \in Nat
  BY <1>3, <1>4, <1>7, <1>8
<1>10. PriceOriginal(e) = p * Unit /\ p * Unit \in Nat
  BY <1>2, <1>4, TransformAssumption DEF PriceOriginal
<1> QED
  BY <1>4, <1>6, <1>7, <1>8, <1>9, <1>10 DEF ValueEur

\* Rounding moves by at most half a step, to a multiple of it.
LEMMA Rounded ==
  ASSUME NEW x \in Nat, NEW step \in Nat \ {0}
  PROVE  /\ Round(x, step) \in Nat
         /\ 2 * x - step <= 2 * Round(x, step) /\ 2 * Round(x, step) <= 2 * x + step
         /\ \E q \in Nat : Round(x, step) = step * q
<1> DEFINE down == x \div step
           rest == x % step
<1>1. down \in Nat /\ rest \in 0 .. step - 1 /\ x = (step * down) + rest
  OBVIOUS
<1>2. step * (down + 1) = step * down + step /\ step * down \in Nat
  BY <1>1
<1>3. Round(x, step) = IF 2 * rest > step \/ (2 * rest = step /\ down % 2 = 1)
                       THEN step * (down + 1) ELSE step * down
  BY DEF Round
<1> HIDE DEF down, rest
<1>4. CASE 2 * rest > step \/ (2 * rest = step /\ down % 2 = 1)
  <2>1. Round(x, step) = step * down + step /\ Round(x, step) = step * (down + 1)
    BY <1>2, <1>3, <1>4
  <2>2. 2 * (step * down + step) = 2 * x + 2 * (step - rest)
    BY <1>1, <1>2
  <2>3. down + 1 \in Nat /\ step * down + step \in Nat
    BY <1>1, <1>2
  <2>4. 2 * rest >= step
    BY <1>1, <1>4
  <2>5. Round(x, step) \in Nat /\ \E q \in Nat : Round(x, step) = step * q
    BY <2>1, <2>3
  <2>6. 2 * Round(x, step) = 2 * x + 2 * (step - rest)
    BY <2>1, <2>2
  <2>7. 2 * (step - rest) >= - step /\ 2 * (step - rest) <= step
    BY <1>1, <2>4
  <2> QED
    BY <1>1, <2>5, <2>6, <2>7
<1>5. CASE ~ (2 * rest > step \/ (2 * rest = step /\ down % 2 = 1))
  <2>1. Round(x, step) = step * down
    BY <1>3, <1>5
  <2> QED
    BY <1>1, <1>2, <1>5, <2>1
<1> QED
  BY <1>4, <1>5

-----------------------------------------------------------------------------
(* The outlier test.                                                       *)

\* How far the prices of a group are from the middle, both doubled.
Deviations(prices) == [j \in DOMAIN prices |-> Distance(2 * prices[j], Median2(prices))]

\* What the test of Outlier says, by the ranks of the deviations.
LEMMA OutlierTest ==
  ASSUME NEW D, IsFiniteSet(D), NEW prices \in [D -> Int], Cardinality(D) >= 3
  PROVE  LET n == Cardinality(D)
             dev == Deviations(prices)
             low == Ranked(dev, (n + 1) \div 2)
             high == Ranked(dev, n \div 2 + 1)
         IN  /\ n \in Nat /\ (n + 1) \div 2 \in 1 .. n /\ n \div 2 + 1 \in 1 .. n
             /\ Median2(prices) \in Int
             /\ dev \in [D -> Nat]
             /\ low \in Nat /\ high \in Nat /\ low <= high
             /\ \A i \in D : Outlier(prices, i) <=>
                  IF low + high = 0 THEN dev[i] > 0
                  ELSE 13490 * dev[i] > 10000 * Threshold * (low + high)
<1> DEFINE n == Cardinality(D)
           dev == Deviations(prices)
           j == (n + 1) \div 2
           k == n \div 2 + 1
<1>1. n \in Nat
  BY FS_CardinalityType
<1>2. j \in 1 .. n /\ k \in 1 .. n /\ j <= k
  BY <1>1
<1>3. DOMAIN prices = D /\ DOMAIN dev = D
  BY DEF Deviations
<1> HIDE DEF j, k
<1>4. Ranked(prices, j) \in Int /\ Ranked(prices, k) \in Int
  BY <1>2, RankExists
<1>5. Median2(prices) = Ranked(prices, j) + Ranked(prices, k)
  BY <1>3 DEF Median2, j, k
<1>6. dev \in [D -> Nat]
  <2>1. \A x, y \in Int : Distance(x, y) \in Nat
    BY DEF Distance
  <2>2. \A i \in D : 2 * prices[i] \in Int
    OBVIOUS
  <2> QED
    BY <1>3, <1>4, <1>5, <2>1, <2>2 DEF Deviations
<1>7. dev \in [D -> Int]
  BY <1>6
<1>8. Range(dev) \subseteq Nat
  BY <1>6 DEF Range
<1>9. /\ Ranked(dev, j) \in Nat /\ Ranked(dev, k) \in Nat
      /\ Ranked(dev, j) <= Ranked(dev, k)
  <2>1. Ranked(dev, j) \in Range(dev) /\ Ranked(dev, k) \in Range(dev)
    BY <1>2, <1>7, RankExists
  <2>2. Ranked(dev, j) <= Ranked(dev, k)
    BY <1>2, <1>7, RanksAscend
  <2> QED
    BY <2>1, <2>2, <1>8
<1>10. Median2(dev) = Ranked(dev, j) + Ranked(dev, k)
  BY <1>3 DEF Median2, j, k
<1>11. ASSUME NEW i \in D
       PROVE  Outlier(prices, i) <=>
                  IF Ranked(dev, j) + Ranked(dev, k) = 0 THEN dev[i] > 0
                  ELSE 13490 * dev[i] > 10000 * Threshold * (Ranked(dev, j) + Ranked(dev, k))
  <2>1. dev[i] \in Nat
    BY <1>6
  <2>2. Outlier(prices, i) <=> IF Median2(dev) = 0 THEN dev[i] > 0
                               ELSE 6745 * 2 * dev[i] > 10000 * Threshold * Median2(dev)
    BY <1>3 DEF Outlier, Deviations
  <2> QED
    BY <2>1, <2>2, <1>10
<1> QED
  BY <1>1, <1>2, <1>4, <1>5, <1>6, <1>9, <1>11 DEF j, k

\* Of a group, more than half lie within the larger median deviation, and with a
\* threshold of two or more none of those is an outlier.
LEMMA FewOutliers ==
  ASSUME NEW D, IsFiniteSet(D), D # {}, NEW prices \in [D -> Int], Threshold >= 2
  PROVE  2 * Cardinality({i \in D : Outlier(prices, i)}) < Cardinality(D)
<1> DEFINE n == Cardinality(D)
           out == {i \in D : Outlier(prices, i)}
<1>1. n \in Nat /\ n > 0 /\ IsFiniteSet(out) /\ Cardinality(out) \in Nat
  BY FS_CardinalityType, FS_EmptySet, FS_Subset
<1>2. CASE n < 3
  <2>1. out = {}
    BY <1>1, <1>2 DEF Outlier
  <2> QED
    BY <1>1, <2>1, FS_EmptySet
<1>3. CASE n >= 3
  <2> DEFINE dev == Deviations(prices)
             low == Ranked(dev, (n + 1) \div 2)
             high == Ranked(dev, n \div 2 + 1)
             near == {i \in D : dev[i] <= high}
  <2>1. /\ n \div 2 + 1 \in 1 .. n
        /\ dev \in [D -> Nat] /\ low \in Nat /\ high \in Nat /\ low <= high
        /\ \A i \in D : Outlier(prices, i) <=>
             IF low + high = 0 THEN dev[i] > 0
             ELSE 13490 * dev[i] > 10000 * Threshold * (low + high)
    BY <1>3, OutlierTest
  <2>2. Cardinality(near) >= n \div 2 + 1
    <3>1. dev \in [D -> Int]
      BY <2>1
    <3>2. \A k \in 1 .. Cardinality(D) : Cardinality({i \in D : dev[i] <= Ranked(dev, k)}) >= k
      <4> HIDE DEF dev
      <4> QED
        BY <3>1, RankExists
    <3> HIDE DEF dev
    <3> QED
      BY <2>1, <3>2
  <2> HIDE DEF dev, low, high
  <2>3. ASSUME NEW i \in near PROVE i \notin out
    <3>1. dev[i] \in Nat /\ dev[i] <= high /\ Threshold \in Nat
      BY <2>1, TransformAssumption
    <3>2. CASE low + high = 0
      BY <2>1, <3>1, <3>2
    <3>3. CASE low + high # 0
      <4>1. Threshold * (low + high) >= 2 * (low + high)
        BY <2>1, <3>1
      <4>2. 10000 * Threshold * (low + high) = 10000 * (Threshold * (low + high))
        BY <2>1, <3>1
      <4>3. Threshold * (low + high) \in Nat
        BY <2>1, <3>1
      <4>4. ~ (13490 * dev[i] > 10000 * Threshold * (low + high))
        BY <2>1, <3>1, <4>1, <4>2, <4>3
      <4> QED
        BY <2>1, <3>3, <4>4
    <3> QED
      BY <3>2, <3>3
  <2>4. near \in SUBSET (D \ out)
    BY <2>3
  <2>5. IsFiniteSet(D \ out) /\ Cardinality(D \ out) = n - Cardinality(out)
    <3>1. D \cap out = out
      OBVIOUS
    <3> QED
      BY <3>1, FS_Difference
  <2>6. Cardinality(near) <= n - Cardinality(out) /\ Cardinality(near) \in Nat
    BY <2>4, <2>5, FS_Subset, FS_CardinalityType
  <2> HIDE DEF near, out, n
  <2>7. 2 * Cardinality(out) < n
    BY <1>1, <2>2, <2>6
  <2> QED
    BY <2>7 DEF out, n
<1> QED
  BY <1>1, <1>2, <1>3

\* A price farther from all others than the threshold times their spread is an
\* outlier: the medians are among the others, at either end of which it lies.
LEMMA SpikeIsOutlier ==
  ASSUME NEW D, IsFiniteSet(D), NEW prices \in [D -> Int], Cardinality(D) >= 3, Threshold >= 1,
         NEW i \in D, NEW lo \in Int, NEW hi \in Int,
         \A j \in D \ {i} : lo <= prices[j] /\ prices[j] <= hi,
         6745 * Distance(prices[i], lo) > 10000 * Threshold * (hi - lo),
         6745 * Distance(prices[i], hi) > 10000 * Threshold * (hi - lo)
  PROVE  Outlier(prices, i)
<1> DEFINE n == Cardinality(D)
           others == D \ {i}
           dev == Deviations(prices)
           j == (n + 1) \div 2
           k == n \div 2 + 1
           x == prices[i]
           spread == hi - lo
           middle == Median2(prices)
<1>1. /\ n \in Nat /\ j \in 1 .. n /\ k \in 1 .. n
      /\ middle \in Int
      /\ dev \in [D -> Nat]
      /\ Ranked(dev, j) \in Nat /\ Ranked(dev, k) \in Nat
      /\ Outlier(prices, i) <=>
             IF Ranked(dev, j) + Ranked(dev, k) = 0 THEN dev[i] > 0
             ELSE 13490 * dev[i] > 10000 * Threshold * (Ranked(dev, j) + Ranked(dev, k))
  BY OutlierTest
<1>2. 2 <= j /\ 2 <= k /\ j <= n - 1 /\ k <= n - 1
  BY <1>1
<1>3. IsFiniteSet(others) /\ Cardinality(others) = n - 1
  BY FS_RemoveElement
<1>4. ASSUME NEW S \in SUBSET D, others \subseteq S
      PROVE  Cardinality(S) \in Nat /\ Cardinality(S) >= n - 1
  <2>1. IsFiniteSet(S)
    BY FS_Subset
  <2> QED
    BY <1>1, <1>3, <1>4, <2>1, FS_Subset, FS_CardinalityType
<1>5. x \in Int /\ spread \in Int /\ Threshold \in Nat
  BY TransformAssumption
<1>6. spread >= 0
  <2>1. others # {}
    BY <1>1, <1>3, FS_EmptySet
  <2>2. PICK o \in others : TRUE
    BY <2>1
  <2>3. prices[o] \in Int /\ lo <= prices[o] /\ prices[o] <= hi
    BY <2>2
  <2> QED
    BY <2>3
<1>7. Threshold * spread \in Nat /\ Threshold * spread >= spread
  BY <1>5, <1>6
<1>8. /\ 10000 * Threshold * spread = 10000 * (Threshold * spread)
      /\ Distance(x, lo) > spread /\ Distance(x, hi) > spread
      /\ 6745 * Distance(x, lo) > 10000 * (Threshold * spread)
      /\ 6745 * Distance(x, hi) > 10000 * (Threshold * spread)
  BY <1>5, <1>6, <1>7 DEF Distance
<1>9. x > hi \/ x < lo
  BY <1>5, <1>6, <1>8 DEF Distance
<1>10. \A r \in {j, k} : /\ Ranked(prices, r) \in Int
                         /\ lo <= Ranked(prices, r) /\ Ranked(prices, r) <= hi
  <2> SUFFICES ASSUME NEW r \in {j, k}
               PROVE  /\ Ranked(prices, r) \in Int
                      /\ lo <= Ranked(prices, r) /\ Ranked(prices, r) <= hi
    OBVIOUS
  <2>0. r \in 1 .. Cardinality(D) /\ 2 <= r /\ r <= n - 1
    BY <1>1, <1>2
  <2> HIDE DEF j, k
  <2>1. Ranked(prices, r) \in Int
    BY <2>0, RankIsNumber
  <2>2. Cardinality({m \in D : prices[m] <= hi}) >= r
    <3>1. others \subseteq {m \in D : prices[m] <= hi}
      OBVIOUS
    <3>2. /\ Cardinality({m \in D : prices[m] <= hi}) \in Nat
          /\ Cardinality({m \in D : prices[m] <= hi}) >= n - 1
      BY <3>1, <1>4
    <3> QED
      BY <2>0, <3>2, <1>1
  <2>3. Cardinality({m \in D : prices[m] >= lo}) + r > Cardinality(D)
    <3>1. others \subseteq {m \in D : prices[m] >= lo}
      OBVIOUS
    <3>2. /\ Cardinality({m \in D : prices[m] >= lo}) \in Nat
          /\ Cardinality({m \in D : prices[m] >= lo}) >= n - 1
      BY <3>1, <1>4
    <3> QED
      BY <2>0, <3>2, <1>1
  <2>4. Ranked(prices, r) <= hi
    BY <2>0, <2>2, RankAtMost
  <2>5. Ranked(prices, r) >= lo
    BY <2>0, <2>3, RankAtLeast
  <2> QED
    BY <2>1, <2>4, <2>5
<1>11. 2 * lo <= middle /\ middle <= 2 * hi
  <2>1. middle = Ranked(prices, j) + Ranked(prices, k)
    BY DEF Median2
  <2> QED
    BY <1>10, <2>1
<1>12. \A r \in {j, k} : Ranked(dev, r) <= 2 * spread
  <2>1. ASSUME NEW m \in others PROVE dev[m] <= 2 * spread
    <3>1. prices[m] \in Int /\ lo <= prices[m] /\ prices[m] <= hi
      OBVIOUS
    <3>2. dev[m] = Distance(2 * prices[m], middle)
      BY DEF Deviations
    <3> QED
      BY <1>1, <1>11, <3>1, <3>2 DEF Distance
  <2> SUFFICES ASSUME NEW r \in {j, k} PROVE Ranked(dev, r) <= 2 * spread
    OBVIOUS
  <2>2. r \in 1 .. Cardinality(D) /\ r <= n - 1
    BY <1>1, <1>2
  <2>3. dev \in [D -> Int] /\ 2 * spread \in Int
    BY <1>1, <1>5
  <2> HIDE DEF j, k, dev, spread
  <2>4. Cardinality({m \in D : dev[m] <= 2 * spread}) >= r
    <3>1. others \subseteq {m \in D : dev[m] <= 2 * spread}
      BY <2>1
    <3>2. /\ Cardinality({m \in D : dev[m] <= 2 * spread}) \in Nat
          /\ Cardinality({m \in D : dev[m] <= 2 * spread}) >= n - 1
      BY <3>1, <1>4
    <3> QED
      BY <2>2, <3>2, <1>1
  <2> QED
    BY <2>2, <2>3, <2>4, RankAtMost
<1>13. dev[i] \in Nat /\ 6745 * dev[i] > 20000 * (Threshold * spread) /\ dev[i] > 0
  <2>1. dev[i] = Distance(2 * x, middle)
    BY DEF Deviations
  <2>2. dev[i] >= 2 * Distance(x, lo) \/ dev[i] >= 2 * Distance(x, hi)
    BY <1>1, <1>5, <1>9, <1>11, <2>1 DEF Distance
  <2>3. Distance(x, lo) \in Nat /\ Distance(x, hi) \in Nat /\ dev[i] \in Nat
    BY <1>1, <1>5 DEF Distance
  <2> HIDE DEF dev, x, spread
  <2> QED
    BY <1>7, <1>8, <2>2, <2>3
<1> HIDE DEF dev, j, k, spread
<1>14. Threshold * (Ranked(dev, j) + Ranked(dev, k)) <= 4 * (Threshold * spread)
  <2>1. Ranked(dev, j) + Ranked(dev, k) <= 4 * spread /\ Ranked(dev, j) + Ranked(dev, k) \in Nat
    BY <1>1, <1>5, <1>12
  <2>2. Threshold * (Ranked(dev, j) + Ranked(dev, k)) <= Threshold * (4 * spread)
    BY <1>5, <2>1
  <2>3. Threshold * (4 * spread) = 4 * (Threshold * spread)
    BY <1>5
  <2> QED
    BY <2>2, <2>3
<1>15. /\ 10000 * Threshold * (Ranked(dev, j) + Ranked(dev, k)) =
            10000 * (Threshold * (Ranked(dev, j) + Ranked(dev, k)))
       /\ Threshold * (Ranked(dev, j) + Ranked(dev, k)) \in Nat
  BY <1>1, <1>5
<1>16. 13490 * dev[i] > 10000 * Threshold * (Ranked(dev, j) + Ranked(dev, k))
  BY <1>7, <1>13, <1>14, <1>15
<1> QED
  BY <1>1, <1>13, <1>16

-----------------------------------------------------------------------------
(* The figures of a day.                                                   *)

\* A total that fits its type is not changed by wrapping.
LEMMA WrapFits == \A n \in Nat : n < VolumeMax => Wrap(n) = n
<1> SUFFICES ASSUME NEW n \in Nat, n < VolumeMax PROVE Wrap(n) = n
  OBVIOUS
<1>1. VolumeMax \in Nat \ {0}
  BY TransformAssumption
<1>2. (n + VolumeMax) % (2 * VolumeMax) = n + VolumeMax
  BY <1>1
<1> QED
  BY <1>1, <1>2 DEF Wrap

\* The rounded quotient is off by half a step.
LEMMA VwapIsClose ==
  ASSUME NEW value \in Nat, NEW volume \in Nat \ {0}
  PROVE  /\ Vwap(value, volume) \in Nat
         /\ 2 * value - volume * PriceStep <= 2 * (Vwap(value, volume) * volume)
         /\ 2 * (Vwap(value, volume) * volume) <= 2 * value + volume * PriceStep
<1> DEFINE step == volume * PriceStep
<1>1. PriceStep \in Nat \ {0}
  BY TransformAssumption
<1>2. step \in Nat \ {0}
  BY <1>1
<1>3. PICK q \in Nat : Round(value, step) = step * q
  BY <1>2, Rounded
<1>4. /\ 2 * value - step <= 2 * Round(value, step)
      /\ 2 * Round(value, step) <= 2 * value + step
  BY <1>2, Rounded
<1>5. PriceStep * q \in Nat /\ step * q = volume * (PriceStep * q)
  BY <1>1, <1>3
<1>6. Vwap(value, volume) = (volume * (PriceStep * q)) \div volume
  BY <1>3, <1>5 DEF Vwap
<1>7. (volume * (PriceStep * q)) \div volume = PriceStep * q
  BY <1>5
<1>8. Vwap(value, volume) * volume = Round(value, step)
  BY <1>3, <1>5, <1>6, <1>7
<1> QED
  BY <1>4, <1>5, <1>6, <1>7, <1>8

\* An average price over a volume, up to the rounding of values and prices.
Between(count, value, volume, lo, hi) ==
  LET vwap  == Vwap(value, volume)
      slack == count * ValueStep + 2 * volume * PriceStep
  IN  volume > 0 => /\ 2 * vwap * volume >= 2 * lo * volume - slack
                    /\ 2 * vwap * volume <= 2 * hi * volume + slack

\* The average of rounded values lies between the prices, up to rounding.
LEMMA AverageIsBetween ==
  ASSUME NEW G, IsFiniteSet(G),
         NEW p \in [G -> Nat], NEW v \in [G -> Nat],
         NEW w \in [G -> Nat], \A i \in G : w[i] = Round(p[i] * v[i], ValueStep),
         NEW lo \in Int, NEW hi \in Int,
         \A i \in G : lo <= Round(p[i], PriceStep) /\ Round(p[i], PriceStep) <= hi
  PROVE  /\ SumFunction(v) \in Nat
         /\ Between(Cardinality(G), SumFunction(w), SumFunction(v), lo, hi)
<1> DEFINE volume == SumFunction(v)
           value == SumFunction(w)
           n == Cardinality(G)
<1>1. PriceStep \in Nat \ {0} /\ ValueStep \in Nat \ {0} /\ n \in Nat
  BY TransformAssumption, FS_CardinalityType
<1>2. v \in [G -> Int] /\ w \in [G -> Int]
  OBVIOUS
<1>3. volume \in Nat /\ value \in Nat
  BY SumIsNatural
<1>4. ASSUME NEW i \in G
      PROVE  /\ (2 * lo - PriceStep) * v[i] <= 2 * w[i] + ValueStep
             /\ 2 * w[i] <= (2 * hi + PriceStep) * v[i] + ValueStep
  <2> DEFINE r == Round(p[i], PriceStep)
  <2>1. p[i] \in Nat /\ v[i] \in Nat /\ w[i] \in Nat /\ p[i] * v[i] \in Nat
    OBVIOUS
  <2>2. 2 * p[i] - PriceStep <= 2 * r /\ 2 * r <= 2 * p[i] + PriceStep /\ r \in Nat
    BY <1>1, <2>1, Rounded
  <2>3. 2 * (p[i] * v[i]) - ValueStep <= 2 * w[i] /\ 2 * w[i] <= 2 * (p[i] * v[i]) + ValueStep
    BY <1>1, <2>1, Rounded
  <2>4. lo <= r /\ r <= hi
    OBVIOUS
  <2> HIDE DEF r
  <2>5. 2 * lo - PriceStep <= 2 * p[i] /\ 2 * p[i] <= 2 * hi + PriceStep
    BY <1>1, <2>1, <2>2, <2>4
  <2>6. (2 * lo - PriceStep) * v[i] <= (2 * p[i]) * v[i]
    BY <1>1, <2>1, <2>5, Monotone
  <2>7. (2 * p[i]) * v[i] <= (2 * hi + PriceStep) * v[i]
    BY <1>1, <2>1, <2>5, Monotone
  <2>8. (2 * p[i]) * v[i] = 2 * (p[i] * v[i])
    BY <2>1
  <2> QED
    BY <1>1, <2>1, <2>3, <2>6, <2>7, <2>8
<1>5. /\ (2 * lo - PriceStep) * volume <= 2 * value + ValueStep * n
      /\ 2 * value <= (2 * hi + PriceStep) * volume + ValueStep * n
  <2>0. 2 \in Int
    OBVIOUS
  <2>1. 2 * lo - PriceStep \in Int /\ 2 * hi + PriceStep \in Int /\ ValueStep \in Int
    BY <1>1
  <2>2. \A i \in G : (2 * lo - PriceStep) * v[i] <= 2 * w[i] + ValueStep
    BY <1>4
  <2>3. \A i \in G : 2 * w[i] <= (2 * hi + PriceStep) * v[i] + ValueStep
    BY <1>4
  <2>4. (2 * lo - PriceStep) * volume <= 2 * value + ValueStep * n
    BY <1>2, <2>0, <2>1, <2>2, SumsCompare, Zenon
  <2>5. 2 * value <= (2 * hi + PriceStep) * volume + ValueStep * n
    BY <1>2, <2>0, <2>1, <2>3, SumsCompare, Zenon
  <2> QED
    BY <2>4, <2>5
<1> HIDE DEF volume, value, n
<1>6. ASSUME volume > 0 PROVE Between(n, value, volume, lo, hi)
  <2> DEFINE vwap == Vwap(value, volume)
  <2>1. /\ vwap \in Nat
        /\ 2 * value - volume * PriceStep <= 2 * (vwap * volume)
        /\ 2 * (vwap * volume) <= 2 * value + volume * PriceStep
    BY <1>3, <1>6, VwapIsClose
  <2> HIDE DEF vwap
  <2>2. /\ vwap * volume \in Int /\ volume * PriceStep \in Int /\ n * ValueStep \in Int
        /\ lo * volume \in Int /\ hi * volume \in Int
    BY <1>1, <1>3, <2>1
  <2>3. (2 * lo - PriceStep) * volume = 2 * (lo * volume) - volume * PriceStep
    BY <1>1, <1>3
  <2>4. (2 * hi + PriceStep) * volume = 2 * (hi * volume) + volume * PriceStep
    BY <1>1, <1>3
  <2>5. ValueStep * n = n * ValueStep /\ 2 * volume * PriceStep = 2 * (volume * PriceStep)
    BY <1>1, <1>3
  <2>6. /\ 2 * vwap * volume = 2 * (vwap * volume)
        /\ 2 * lo * volume = 2 * (lo * volume)
        /\ 2 * hi * volume = 2 * (hi * volume)
    BY <1>3, <2>1
  <2>7. /\ 2 * (vwap * volume) >= 2 * (lo * volume) - (n * ValueStep + 2 * (volume * PriceStep))
        /\ 2 * (vwap * volume) <= 2 * (hi * volume) + (n * ValueStep + 2 * (volume * PriceStep))
    BY <1>3, <1>5, <2>1, <2>2, <2>3, <2>4, <2>5
  <2> QED
    BY <2>5, <2>6, <2>7 DEF vwap, Between
<1>7. Between(n, value, volume, lo, hi)
  BY <1>6 DEF Between
<1> QED
  BY <1>3, <1>7 DEF volume, value, n

-----------------------------------------------------------------------------
(* What each stage leaves of the batch.                                    *)

\* The amounts of a record are natural numbers.
Amounts == [price_original : Nat, price_eur : Nat, value_eur : Nat,
            volume : Nat, is_outlier : BOOLEAN]

Unnormalized ==
  {"clean", "cleanRaised", "errors", "errorsRaised", "normalize", "normalizeRaised"}

\* What is left of the batch at each stage: its records with their flags, and a
\* summary of every group.
DataInv ==
  /\ FateInv
  /\ events \in Batches
  /\ valid \in SUBSET Positions
  /\ refused \in SUBSET Positions
  /\ stage \in {"clean", "cleanRaised"} => valid = {}
  /\ stage \in Unnormalized => records = <<>>
  /\ stage \notin Unnormalized =>
       /\ DOMAIN records = valid
       /\ \A i \in valid : /\ records[i] \in Amounts
                           /\ records[i].is_outlier = Outlier(SymbolPrices(i), i)
  /\ stage \notin {"upsert", "done", "upsertRaised"} => days = <<>>
  /\ stage \in {"upsert", "done", "upsertRaised"} => DOMAIN days = Groups

\* The batch starts so.
LEMMA DataInit == Init => DataInv
<1> SUFFICES ASSUME Init PROVE DataInv
  OBVIOUS
<1>1. FateInv
  BY DEF Init, FateInv, Stages, Aggregating
<1> QED
  BY <1>1 DEF Init, DataInv

\* The records are finitely many accepted events, their amounts numbers.
LEMMA ValidAmounts ==
  ASSUME DataInv, stage \notin {"clean", "cleanRaised"}
  PROVE  /\ IsFiniteSet(valid)
         /\ \A i \in valid : /\ events[i] \in Event /\ Accepted(events[i])
                             /\ VolumeOf(events[i]) \in Nat /\ PriceEur(events[i]) \in Nat
                             /\ PriceOriginal(events[i]) \in Nat /\ ValueEur(events[i]) \in Nat
<1>1. /\ events \in Seq(Event)
      /\ Positions = 1 .. Len(events) /\ Len(events) \in Nat
      /\ \A i \in Positions : Precise(events[i].price)
  BY TransformAssumption, PrecisionAssumption DEF DataInv, Positions
<1>2. IsFiniteSet(valid)
  <2>1. IsFiniteSet(Positions)
    BY <1>1, FS_Interval
  <2> QED
    BY <2>1, FS_Subset DEF DataInv
<1>3. \A i \in valid : events[i] \in Event /\ Precise(events[i].price) /\ Accepted(events[i])
  <2>1. \A i \in valid : Accepted(events[i])
    BY DEF DataInv, FateInv, Cleaned, Kept
  <2>2. \A i \in valid : events[i] \in Event /\ Precise(events[i].price)
    BY <1>1 DEF DataInv
  <2> QED
    BY <2>1, <2>2
<1> QED
  BY <1>2, <1>3, AcceptedAmounts

\* The groups depend on the events and the records alone.
LEMMA GroupsStay ==
  ASSUME UNCHANGED <<events, valid>>
  PROVE  /\ Groups' = Groups /\ Positions' = Positions
         /\ \A i : SameSymbol(i)' = SameSymbol(i) /\ SymbolPrices(i)' = SymbolPrices(i)
         /\ \A g : Group(g)' = Group(g)
<1>1. Groups' = Groups /\ Positions' = Positions
  BY DEF Groups, Positions
<1>2. \A i : SameSymbol(i)' = SameSymbol(i)
  BY DEF SameSymbol
<1>3. \A i : SymbolPrices(i)' = SymbolPrices(i)
  BY <1>2 DEF SymbolPrices
<1>4. \A g : Group(g)' = Group(g)
  BY DEF Group
<1> QED
  BY <1>1, <1>2, <1>3, <1>4

\* Every step keeps the invariant.
LEMMA DataNext == DataInv /\ [Next]_vars => DataInv'
<1> SUFFICES ASSUME DataInv, [Next]_vars PROVE DataInv'
  OBVIOUS
<1>1. FateInv'
  BY FateNext DEF DataInv
<1>2. CASE CleanBatch \/ CleanBatchRaises
  <2>1. /\ events' = events /\ Positions' = Positions
        /\ valid' \subseteq Positions /\ refused' \subseteq Positions
        /\ records' = records /\ days' = days
        /\ stage = "clean" /\ stage' \in {"errors", "cleanRaised"}
        /\ stage' = "cleanRaised" => valid' = valid
    BY <1>2 DEF CleanBatch, CleanBatchRaises, Positions, DataInv
  <2> QED
    BY <1>1, <2>1 DEF DataInv, Unnormalized
<1>3. CASE NormalizeBatch
  <2>1. UNCHANGED <<events, valid, refused, days>> /\ stage = "normalize" /\ stage' = "load"
    BY <1>3 DEF NormalizeBatch
  <2>2. ASSUME NEW i \in valid
        PROVE  /\ records'[i] \in Amounts
               /\ records'[i].is_outlier = Outlier(SymbolPrices(i), i)
    <3>1. /\ VolumeOf(events[i]) \in Nat
          /\ PriceOriginal(events[i]) \in Nat
          /\ PriceEur(events[i]) \in Nat /\ ValueEur(events[i]) \in Nat
      BY <2>1, ValidAmounts
    <3>2. /\ Round(PriceOriginal(events[i]), PriceStep) \in Nat
          /\ Round(PriceEur(events[i]), PriceStep) \in Nat
          /\ Round(ValueEur(events[i]), ValueStep) \in Nat
      BY <3>1, Rounded, TransformAssumption
    <3>3. Outlier(SymbolPrices(i), i) \in BOOLEAN
      BY DEF Outlier
    <3>4. records'[i] = [price_original |-> Round(PriceOriginal(events[i]), PriceStep),
                         price_eur  |-> Round(PriceEur(events[i]), PriceStep),
                         value_eur  |-> Round(ValueEur(events[i]), ValueStep),
                         volume     |-> VolumeOf(events[i]),
                         is_outlier |-> Outlier(SymbolPrices(i), i)]
      BY <1>3 DEF NormalizeBatch
    <3>5. records'[i] \in Amounts
      BY <3>1, <3>2, <3>3, <3>4 DEF Amounts
    <3> QED
      BY <3>4, <3>5
  <2>3. DOMAIN records' = valid
    BY <1>3 DEF NormalizeBatch
  <2> QED
    BY <1>1, <2>1, <2>2, <2>3, GroupsStay DEF DataInv, Unnormalized
<1>4. CASE NormalizeBatchRaises
  BY <1>1, <1>4, GroupsStay DEF NormalizeBatchRaises, DataInv, Unnormalized
<1>5. CASE Load
  <2>1. /\ UNCHANGED <<events, valid, refused, records, days>>
        /\ stage = "load" /\ stage' \in {"aggregate", "loadRaised"}
    BY <1>5 DEF Load
  <2> QED
    BY <1>1, <2>1, GroupsStay DEF DataInv, Unnormalized
<1>6. CASE Aggregate
  <2>1. /\ UNCHANGED <<events, valid, refused, records>>
        /\ stage = "aggregate" /\ stage' = "upsert"
        /\ DOMAIN days' = Groups
    BY <1>6 DEF Aggregate
  <2> QED
    BY <1>1, <2>1, GroupsStay DEF DataInv, Unnormalized
<1>7. CASE Upsert
  <2>1. /\ UNCHANGED <<events, valid, refused, records, days>>
        /\ stage = "upsert" /\ stage' \in {"done", "upsertRaised"}
    BY <1>7 DEF Upsert
  <2> QED
    BY <1>1, <2>1, GroupsStay DEF DataInv, Unnormalized
<1>8. CASE UNCHANGED vars
  BY <1>1, <1>8, GroupsStay DEF DataInv, vars
<1>9. CASE SaveErrors
  <2>1. /\ UNCHANGED <<events, valid, refused, records, days>>
        /\ stage = "errors" /\ stage' \in {"normalize", "errorsRaised"}
    BY <1>9 DEF SaveErrors
  <2> QED
    BY <1>1, <2>1, GroupsStay DEF DataInv, Unnormalized
<1> QED
  BY <1>2, <1>3, <1>4, <1>5, <1>6, <1>7, <1>8, <1>9 DEF Next

\* What each stage has left of the batch (_process_batch, on the fields).
THEOREM DataInvariance == Spec => []DataInv
BY DataInit, DataNext, PTL DEF Spec

(***************************************************************************)
(* Everything the stages compute is of its type: no record is stored with  *)
(* a negative price, value or volume, however large the batch and its      *)
(* numbers are (CleanMarketRecord, normalize_batch).                       *)
(***************************************************************************)
THEOREM TypeCorrect == Spec => []TypeOK
<1>1. DataInv => TypeOK
  <2> SUFFICES ASSUME DataInv PROVE TypeOK
    OBVIOUS
  <2>1. DOMAIN records \in {{}, valid} /\ Range(records) \subseteq Amounts
    BY DEF DataInv, Range
  <2>2. DOMAIN days \in {{}, Groups}
    BY DEF DataInv
  <2> QED
    BY <2>1, <2>2, TransformAssumption DEF DataInv, FateInv, TypeOK, Amounts
<1> QED
  BY DataInvariance, <1>1, PTL

-----------------------------------------------------------------------------
(* The fates.                                                              *)

\* The conditions of Fate one by one.
LEMMA FateCases ==
  ASSUME NEW e
  PROVE  /\ Fate(e) = "uncastable" <=> IntRaises(e.volume)
         /\ ~ IntRaises(e.volume) =>
              /\ Fate(e) = "rejected" <=> ~ Accepted(e)
              /\ Accepted(e) =>
                   /\ Fate(e) = "untimed" <=> Unfit(e)
                   /\ ~ Unfit(e) =>
                        LET storable == Storable(e, Round(PriceOriginal(e), PriceStep),
                                                    Round(PriceEur(e), PriceStep),
                                                    Round(ValueEur(e), ValueStep))
                        IN  /\ Fate(e) = "unencodable" <=> ~ Encodable(VolumeOf(e))
                            /\ Encodable(VolumeOf(e)) =>
                                 Fate(e) = IF storable THEN "ok" ELSE "unstorable"
BY DEF Fate

\* What the description says of the volume of an event.
LEMMA VolumeCases ==
  ASSUME DataInv, NEW i \in Positions
  PROVE  LET V == ParseInt(events[i].volume)
             c == VolumeClass(events[i])
         IN  /\ V \in SUBSET Int /\ \A v \in V : V = {v} /\ VolumeOf(events[i]) = v
             /\ c = "none" <=> V = {}
             /\ c = "enormous" <=> \E v \in V : v >= 2 * VolumeMax \/ v < - VolumeMax
             /\ c = "negative" <=> \E v \in V : v < 0 /\ ~ v < - VolumeMax
             /\ c = "long" <=> \E v \in V : v >= VolumeMax /\ ~ v >= 2 * VolumeMax
             /\ c = "small" <=> \E v \in V : v >= 0 /\ v < VolumeMax
<1> DEFINE V == ParseInt(events[i].volume)
<1>1. events[i] \in Event
  BY TransformAssumption DEF DataInv, Positions
<1>2. V \in SUBSET Int /\ \A v, w \in V : v = w
  BY <1>1, ParsedNumbers DEF Event
<1>3. VolumeMax \in Nat /\ VolumeMax > 0
  BY TransformAssumption
<1>4. CASE V = {}
  BY <1>4 DEF VolumeClass
<1>5. CASE V # {}
  <2>1. PICK v \in V : TRUE
    BY <1>5
  <2>2. V = {v} /\ v \in Int
    BY <1>2, <2>1
  <2>3. VolumeOf(events[i]) = v
    BY <2>2 DEF VolumeOf
  <2>4. VolumeClass(events[i]) =
          IF v < - VolumeMax \/ v >= 2 * VolumeMax THEN "enormous"
          ELSE IF v < 0 THEN "negative"
          ELSE IF v >= VolumeMax THEN "long" ELSE "small"
    BY <2>2, <2>3 DEF VolumeClass
  <2> QED
    BY <1>3, <2>2, <2>3, <2>4
<1> QED
  BY <1>4, <1>5

\* The description of an event.
LEMMA Descriptions ==
  /\ DOMAIN Described = Positions
  /\ \A i \in Positions :
       /\ Described[i].event_id = events[i].event_id
       /\ Described[i].fate = Fate(events[i])
       /\ Described[i].volume = VolumeClass(events[i])
       /\ Described[i].barred = IF events[i].misfits \cap ErrorColumns = {}
                                THEN {} ELSE {"server"}
  /\ P!Parsed = Positions
  /\ \A F : P!WithFate(F) = {i \in Positions : Fate(events[i]) \in F}
<1>1. DOMAIN Described = Positions
  BY DEF Described
<1>2. \A i \in Positions :
        /\ Described[i].event_id = events[i].event_id
        /\ Described[i].fate = Fate(events[i])
        /\ Described[i].volume = VolumeClass(events[i])
        /\ Described[i].barred = IF events[i].misfits \cap ErrorColumns = {}
                                 THEN {} ELSE {"server"}
  BY DEF Described
<1>3. \A F : P!WithFate(F) = {i \in Positions : Fate(events[i]) \in F}
  BY <1>1, <1>2 DEF P!WithFate
<1>4. \A e : Fate(e) # "unparsable"
  <2> SUFFICES ASSUME NEW e PROVE Fate(e) # "unparsable"
    OBVIOUS
  <2>1. CASE IntRaises(e.volume)
    BY <2>1, FateCases
  <2>2. CASE ~ IntRaises(e.volume) /\ ~ Accepted(e)
    BY <2>2, FateCases
  <2>3. CASE ~ IntRaises(e.volume) /\ Accepted(e)
    BY <2>3, FateCases
  <2> QED
    BY <2>1, <2>2, <2>3
<1>5. P!Parsed = Positions
  BY <1>1, <1>3, <1>4 DEF P!Parsed
<1> QED
  BY <1>1, <1>2, <1>3, <1>5

\* A description keeps to what Fates says of one.
LEMMA CoherentEvents ==
  ASSUME DataInv
  PROVE  \A i \in Positions : P!Coherent(Described[i])
<1> SUFFICES ASSUME NEW i \in Positions PROVE P!Coherent(Described[i])
  OBVIOUS
<1> DEFINE e == events[i]
           c == VolumeClass(e)
<1>1. Described[i].fate = Fate(e) /\ Described[i].volume = c
  BY Descriptions
<1>2. CASE IntRaises(e.volume)
  <2>1. Fate(e) = "uncastable"
    BY <1>2, FateCases
  <2> QED
    BY <1>1, <2>1 DEF P!Coherent
<1>3. CASE ~ IntRaises(e.volume) /\ ~ Accepted(e)
  <2>1. Fate(e) = "rejected"
    BY <1>3, FateCases
  <2> QED
    BY <1>1, <2>1 DEF P!Coherent
<1>4. CASE ~ IntRaises(e.volume) /\ Accepted(e)
  <2>1. PICK v \in ParseInt(e.volume) : v >= 0
    BY <1>4 DEF Accepted
  <2>2. v \in Int /\ ParseInt(e.volume) = {v} /\ VolumeOf(e) = v
    BY <2>1, VolumeCases
  <2>3. Encodable(VolumeOf(e)) <=> v < VolumeMax
    BY <2>2 DEF Encodable
  <2>4. VolumeMax \in Nat /\ VolumeMax > 0
    BY TransformAssumption
  <2>5. c \in {"small", "long", "enormous"} /\ (v < VolumeMax <=> c = "small")
    BY <2>1, <2>2, <2>4, VolumeCases
  <2>6. CASE Unfit(e)
    <3>1. Fate(e) = "untimed"
      BY <1>4, <2>6, FateCases
    <3> QED
      BY <1>1, <2>5, <3>1 DEF P!Coherent
  <2>7. CASE ~ Unfit(e) /\ v < VolumeMax
    <3>1. c = "small" /\ Fate(e) \in {"ok", "unstorable"}
      BY <1>4, <2>3, <2>5, <2>7, FateCases
    <3> QED
      BY <1>1, <3>1 DEF P!Coherent
  <2>8. CASE ~ Unfit(e) /\ ~ v < VolumeMax
    <3>1. c \in {"long", "enormous"} /\ Fate(e) = "unencodable"
      BY <1>4, <2>3, <2>5, <2>8, FateCases
    <3> QED
      BY <1>1, <3>1 DEF P!Coherent, P!Wide
  <2> QED
    BY <2>6, <2>7, <2>8
<1> QED
  BY <1>2, <1>3, <1>4

\* The column of volumes is one of floats just when the description says so.
LEMMA SameColumn ==
  ASSUME DataInv
  PROVE  FloatColumn <=> P!Floats
<1>1. ASSUME NEW i \in Positions
      PROVE  Objects(i) <=> P!Mixed({j \in P!Parsed : j < i})
  <2> DEFINE S == {j \in Positions : j < i}
             seen == UNION {ParseInt(events[j].volume) : j \in S}
  <2>1. VolumeMax \in Nat /\ VolumeMax > 0
    BY TransformAssumption
  <2>2. \A v : v \in seen <=> \E j \in S : v \in ParseInt(events[j].volume)
    OBVIOUS
  <2>3. Objects(i) <=> \/ \E v \in seen : v >= 2 * VolumeMax \/ v < - VolumeMax
                       \/ \E v, w \in seen : v >= VolumeMax /\ w < 0
    BY DEF Objects
  <2>4. P!Mixed(S) <=>
          \/ \E j \in S : VolumeClass(events[j]) = "enormous"
          \/ \E j, k \in S : /\ VolumeClass(events[j]) = "long"
                             /\ VolumeClass(events[k]) = "negative"
    BY Descriptions DEF P!Mixed
  <2> HIDE DEF seen
  <2>5. ASSUME Objects(i) PROVE P!Mixed(S)
    <3>1. CASE \E v \in seen : v >= 2 * VolumeMax \/ v < - VolumeMax
      <4>1. PICK v \in seen : v >= 2 * VolumeMax \/ v < - VolumeMax
        BY <3>1
      <4>2. PICK j \in S : v \in ParseInt(events[j].volume)
        BY <2>2
      <4>3. VolumeClass(events[j]) = "enormous"
        BY <4>1, <4>2, VolumeCases
      <4> QED
        BY <2>4, <4>3
    <3>2. CASE \E v, w \in seen : v >= VolumeMax /\ w < 0
      <4>1. PICK v \in seen, w \in seen : v >= VolumeMax /\ w < 0
        BY <3>2
      <4>2. PICK j \in S : v \in ParseInt(events[j].volume)
        BY <2>2
      <4>3. PICK k \in S : w \in ParseInt(events[k].volume)
        BY <2>2
      <4>4. VolumeClass(events[j]) \in {"long", "enormous"}
        BY <4>1, <4>2, VolumeCases
      <4>5. VolumeClass(events[k]) \in {"negative", "enormous"}
        BY <4>1, <4>3, VolumeCases
      <4> QED
        BY <2>4, <4>4, <4>5
    <3> QED
      BY <2>3, <2>5, <3>1, <3>2
  <2>6. ASSUME P!Mixed(S) PROVE Objects(i)
    <3>1. CASE \E j \in S : VolumeClass(events[j]) = "enormous"
      <4>1. PICK j \in S : VolumeClass(events[j]) = "enormous"
        BY <3>1
      <4>2. PICK v \in ParseInt(events[j].volume) : v >= 2 * VolumeMax \/ v < - VolumeMax
        BY <4>1, VolumeCases
      <4> QED
        BY <2>2, <2>3, <4>2
    <3>2. CASE \E j, k \in S : /\ VolumeClass(events[j]) = "long"
                               /\ VolumeClass(events[k]) = "negative"
      <4>1. PICK j \in S, k \in S : /\ VolumeClass(events[j]) = "long"
                                    /\ VolumeClass(events[k]) = "negative"
        BY <3>2
      <4>2. PICK v \in ParseInt(events[j].volume) : v >= VolumeMax
        BY <4>1, VolumeCases
      <4>3. PICK w \in ParseInt(events[k].volume) : w < 0
        BY <4>1, VolumeCases
      <4>4. v \in seen /\ w \in seen
        BY <2>2, <4>2, <4>3
      <4> QED
        BY <2>3, <4>2, <4>3, <4>4
    <3> QED
      BY <2>4, <2>6, <3>1, <3>2
  <2> QED
    BY <2>5, <2>6, Descriptions
<1>2. \A i \in Positions : ParseInt(events[i].volume) = {} <=> Described[i].volume = "none"
  BY VolumeCases, Descriptions
<1> QED
  BY <1>1, <1>2, Descriptions DEF FloatColumn, P!Floats

\* The cleaner's lists are those of the description.
LEMMA SameLists ==
  ASSUME DataInv, Cleaned
  PROVE  /\ P!WithFate({"uncastable"}) = {}
         /\ valid = P!Valid /\ refused = P!Invalid
<1>1. \A i \in Positions : ~ IntRaises(events[i].volume)
  BY DEF Cleaned
<1>2. P!WithFate({"uncastable"}) = {}
  BY <1>1, FateCases, Descriptions
<1>3. ASSUME NEW i \in Positions
      PROVE  Kept(events[i]) <=> i \notin P!Invalid
  <2> DEFINE e == events[i]
  <2>1. Fate(e) = "rejected" <=> ~ Accepted(e)
    BY <1>1, FateCases
  <2>2. i \in P!Invalid <=> \/ Fate(e) = "rejected"
                            \/ FloatColumn /\ VolumeClass(e) \in {"long", "enormous"}
    BY SameColumn, Descriptions DEF P!Invalid, P!Wide
  <2>3. CASE ~ Accepted(e)
    BY <2>1, <2>2, <2>3 DEF Kept
  <2>4. CASE Accepted(e)
    <3>1. PICK v \in ParseInt(e.volume) : v >= 0
      BY <2>4 DEF Accepted
    <3>2. v \in Int /\ ParseInt(e.volume) = {v}
      BY <3>1, VolumeCases
    <3>3. VolumeMax \in Nat /\ VolumeMax > 0
      BY TransformAssumption
    <3>4. VolumeClass(e) \in {"long", "enormous"} <=> ~ v < VolumeMax
      BY <3>1, <3>2, <3>3, VolumeCases
    <3>5. Kept(e) <=> (FloatColumn => v < VolumeMax)
      BY <2>4, <3>2 DEF Kept
    <3> QED
      BY <2>1, <2>2, <2>4, <3>4, <3>5
  <2> QED
    BY <2>3, <2>4
<1>4. ASSUME NEW i \in Positions, i \notin P!Invalid
      PROVE  Fate(events[i]) \in {"ok", "untimed", "unstorable", "unencodable"}
  <2>1. Accepted(events[i]) /\ ~ IntRaises(events[i].volume)
    BY <1>1, <1>3, <1>4 DEF Kept
  <2> QED
    BY <2>1, FateCases
<1>5. P!Invalid \subseteq Positions
  BY Descriptions DEF P!Invalid
<1>6. P!Valid = Positions \ P!Invalid
  BY <1>4, Descriptions DEF P!Valid
<1> QED
  BY <1>2, <1>3, <1>5, <1>6 DEF Cleaned

\* The row of a refusal has the names and the payload the description takes.
LEMMA SameEvent ==
  ASSUME DataInv, NEW i \in Positions
  PROVE  Recordable(i) <=> "server" \notin Described[P!LastWithId(i)].barred
<1> DEFINE Same == {j \in Positions : events[j].event_id = events[i].event_id}
           last == Max(Same)
<1>1. Positions \in SUBSET Int /\ IsFiniteSet(Positions)
  <2>1. Positions = 1 .. Len(events) /\ Len(events) \in Nat
    BY TransformAssumption DEF DataInv, Positions
  <2> QED
    BY <2>1, FS_Interval
<1>2. Same \in SUBSET Int /\ IsFiniteSet(Same) /\ i \in Same
  BY <1>1, FS_Subset
<1>3. last \in Same /\ \A j \in Same : j <= last
  BY <1>2, MaxAndMin
<1>4. P!LastWithId(i) =
        CHOOSE j \in Positions : /\ events[j].event_id = events[i].event_id
                                 /\ \A k \in Positions :
                                      events[k].event_id = events[i].event_id => k <= j
  <2>1. \A j \in Positions :
          (/\ Described[j].event_id = Described[i].event_id
           /\ \A k \in Positions : Described[k].event_id = Described[i].event_id => k <= j)
          <=> (/\ events[j].event_id = events[i].event_id
               /\ \A k \in Positions : events[k].event_id = events[i].event_id => k <= j)
    BY Descriptions
  <2> QED
    BY <2>1, Descriptions DEF P!LastWithId
<1> HIDE DEF last
<1>5. ASSUME NEW j \in Positions,
             events[j].event_id = events[i].event_id,
             \A k \in Positions : events[k].event_id = events[i].event_id => k <= j
      PROVE  j = last
  <2>1. j \in Int /\ last \in Int /\ j <= last /\ last <= j
    BY <1>1, <1>3, <1>5
  <2> QED
    BY <2>1
<1>6. P!LastWithId(i) = last
  BY <1>3, <1>4, <1>5
<1>7. EventById(i) = events[last] /\ last \in Positions
  BY <1>3 DEF EventById, last
<1> QED
  BY <1>6, <1>7, Descriptions DEF Recordable

\* The valid records that a later stage does not take, by their fates.
LEMMA FailingRecords ==
  ASSUME DataInv, Cleaned
  PROVE  /\ Failing({"untimed"}) = {i \in valid : Unfit(events[i])}
         /\ Normalized =>
              (Failing({"unencodable", "unstorable"}) # {} <=> ~ AllLoaded)
<1>1. ASSUME NEW i \in valid
      PROVE  i \in Positions /\ Accepted(events[i]) /\ ~ IntRaises(events[i].volume)
  BY DEF Cleaned, Kept
<1>2. \A F : Failing(F) = {i \in valid : Fate(events[i]) \in F}
  BY <1>1, SameLists, Descriptions DEF Failing
<1>3. \A i \in valid : Fate(events[i]) \in {"untimed"} <=> Unfit(events[i])
  BY <1>1, FateCases
<1>4. ASSUME Normalized, NEW i \in valid
      PROVE  Fate(events[i]) \in {"unencodable", "unstorable"} <=>
               ~ /\ Encodable(VolumeOf(events[i]))
                 /\ Storable(events[i], Round(PriceOriginal(events[i]), PriceStep),
                                        Round(PriceEur(events[i]), PriceStep),
                                        Round(ValueEur(events[i]), ValueStep))
  <2>1. ~ Unfit(events[i]) /\ Accepted(events[i]) /\ ~ IntRaises(events[i].volume)
    BY <1>1, <1>4 DEF Normalized
  <2> QED
    BY <2>1, FateCases
<1> QED
  BY <1>2, <1>3, <1>4 DEF AllLoaded

(***************************************************************************)
(* How a batch ends is what the guards of ProcessBatch make of its         *)
(* description, whatever the batch, the rates, the widths and the limits   *)
(* of the columns are (clean_batch, save_validation_errors,                *)
(* normalize_batch, save_records): the records stored and refused, and the *)
(* stage that raises.                                                      *)
(***************************************************************************)
THEOREM FatesAreDecisive == Spec => []FatesDecide
<1>1. DataInv => FatesDecide
  <2> SUFFICES ASSUME DataInv PROVE FatesDecide
    OBVIOUS
  <2>1. FateInv
    BY DEF DataInv
  <2>2. stage = "cleanRaised" => P!WithFate({"uncastable"}) # {}
    BY <2>1, FateCases, Descriptions DEF FateInv
  <2>3. ASSUME stage \notin {"clean", "cleanRaised"}
        PROVE  /\ P!WithFate({"uncastable"}) = {}
               /\ valid = P!Valid /\ refused = P!Invalid
               /\ stage # "errors" => (stage = "errorsRaised" <=> P!Unsavable("server") # {})
               /\ stage \notin {"errors", "errorsRaised", "normalize"} =>
                    (stage = "normalizeRaised" <=> Failing({"untimed"}) # {})
               /\ stage \notin {"errors", "errorsRaised", "normalize", "normalizeRaised",
                                "load"} =>
                    (stage = "loadRaised" <=> Failing({"unencodable", "unstorable"}) # {})
    <3>1. Cleaned
      BY <2>1, <2>3 DEF FateInv
    <3>2. /\ P!WithFate({"uncastable"}) = {}
          /\ valid = P!Valid /\ refused = P!Invalid
      BY <3>1, SameLists
    <3>3. P!Unsavable("server") # {} <=> ~ AllRecordable
      <4>1. refused \subseteq Positions
        BY DEF DataInv
      <4> QED
        BY <3>2, <4>1, SameEvent DEF P!Unsavable, AllRecordable
    <3>4. stage # "errors" => (stage = "errorsRaised" <=> P!Unsavable("server") # {})
      BY <2>1, <2>3, <3>3 DEF FateInv
    <3>5. stage \notin {"errors", "errorsRaised", "normalize"} =>
            (stage = "normalizeRaised" <=> Failing({"untimed"}) # {})
      <4>1. CASE stage = "normalizeRaised"
        BY <2>1, <3>1, <4>1, FailingRecords DEF FateInv
      <4>2. CASE stage \in {"load", "loadRaised"} \cup Aggregating
        <5>1. Normalized /\ stage # "normalizeRaised"
          BY <2>1, <4>2 DEF FateInv, Aggregating
        <5> QED
          BY <3>1, <5>1, FailingRecords DEF Normalized
      <4> QED
        BY <2>1, <2>3, <4>1, <4>2 DEF FateInv, Stages, Aggregating
    <3>6. stage \notin {"errors", "errorsRaised", "normalize", "normalizeRaised", "load"} =>
            (stage = "loadRaised" <=> Failing({"unencodable", "unstorable"}) # {})
      <4>1. CASE stage \in {"loadRaised"} \cup Aggregating
        <5>1. Normalized /\ (stage = "loadRaised" <=> ~ AllLoaded)
          BY <2>1, <4>1 DEF FateInv, Aggregating
        <5> QED
          BY <3>1, <5>1, FailingRecords
      <4> QED
        BY <2>1, <2>3, <4>1 DEF FateInv, Stages, Aggregating
    <3> QED
      BY <3>2, <3>4, <3>5, <3>6
  <2> QED
    BY <2>2, <2>3, CoherentEvents DEF FatesDecide
<1> QED
  BY DataInvariance, <1>1, PTL

-----------------------------------------------------------------------------
(* What the stages promise.                                                *)

(***************************************************************************)
(* Outliers are fewer than half of the records of their symbol, whatever   *)
(* the prices are and however many: the median and MAD test of             *)
(* normalize_batch with a threshold of two or more (it is 3 by default,    *)
(* core/config.py).                                                        *)
(***************************************************************************)
THEOREM OutliersStayFew == Threshold >= 2 => (Spec => []OutliersAreMinority)
<1> SUFFICES ASSUME Threshold >= 2 PROVE Spec => []OutliersAreMinority
  OBVIOUS
<1>1. DataInv => OutliersAreMinority
  <2> SUFFICES ASSUME DataInv, NEW i \in DOMAIN records
               PROVE  2 * Cardinality({j \in SameSymbol(i) : records[j].is_outlier})
                        < Cardinality(SameSymbol(i))
    BY DEF OutliersAreMinority
  <2>1. /\ stage \notin {"clean", "cleanRaised"}
        /\ DOMAIN records = valid
        /\ \A j \in valid : records[j].is_outlier = Outlier(SymbolPrices(j), j)
    BY DEF DataInv, Unnormalized
  <2> DEFINE group == SameSymbol(i)
  <2>2. group \subseteq valid /\ i \in group /\ IsFiniteSet(group)
    BY <2>1, ValidAmounts, FS_Subset DEF SameSymbol
  <2>3. \A j \in group : SymbolPrices(j) = SymbolPrices(i)
    BY <2>2 DEF SymbolPrices, SameSymbol
  <2>4. SymbolPrices(i) \in [group -> Int]
    BY <2>1, <2>2, ValidAmounts DEF SymbolPrices
  <2>5. {j \in group : records[j].is_outlier} = {j \in group : Outlier(SymbolPrices(i), j)}
    BY <2>1, <2>2, <2>3
  <2> HIDE DEF group
  <2>6. 2 * Cardinality({j \in group : Outlier(SymbolPrices(i), j)}) < Cardinality(group)
    BY <2>2, <2>4, FewOutliers
  <2> QED
    BY <2>5, <2>6 DEF group
<1> QED
  BY DataInvariance, <1>1, PTL

(***************************************************************************)
(* A record farther from all others of its symbol than the threshold times *)
(* their spread is flagged by normalize_batch, in a group of three or more *)
(* of any size, with a threshold of one or more: a spike does not hide     *)
(* itself.                                                                 *)
(***************************************************************************)
THEOREM SpikesAreFlagged == Threshold >= 1 => (Spec => []SpikesStandOut)
<1> SUFFICES ASSUME Threshold >= 1 PROVE Spec => []SpikesStandOut
  OBVIOUS
<1>1. DataInv => SpikesStandOut
  <2> SUFFICES ASSUME DataInv, NEW i \in DOMAIN records,
                      Cardinality(SameSymbol(i)) >= 3,
                      LET others == {PriceEur(events[j]) : j \in SameSymbol(i) \ {i}}
                          price == PriceEur(events[i])
                          spread == Max(others) - Min(others)
                      IN \A p \in others : 6745 * Distance(price, p) > 10000 * Threshold * spread
               PROVE  records[i].is_outlier
    BY DEF SpikesStandOut
  <2> DEFINE group == SameSymbol(i)
             others == {PriceEur(events[j]) : j \in group \ {i}}
             lo == Min(others)
             hi == Max(others)
             prices == SymbolPrices(i)
  <2>1. /\ stage \notin {"clean", "cleanRaised"}
        /\ DOMAIN records = valid
        /\ \A j \in valid : records[j].is_outlier = Outlier(SymbolPrices(j), j)
    BY DEF DataInv, Unnormalized
  <2>2. group \subseteq valid /\ i \in group /\ IsFiniteSet(group)
    BY <2>1, ValidAmounts, FS_Subset DEF SameSymbol
  <2>3. prices \in [group -> Int] /\ \A j \in group : prices[j] = PriceEur(events[j])
    BY <2>1, <2>2, ValidAmounts DEF SymbolPrices
  <2>4. others \in SUBSET Int /\ others # {} /\ IsFiniteSet(others)
    <3>1. others \in SUBSET Int
      BY <2>1, <2>2, ValidAmounts
    <3>2. IsFiniteSet(group \ {i}) /\ Cardinality(group \ {i}) = Cardinality(group) - 1
      BY <2>2, FS_RemoveElement
    <3>3. group \ {i} # {}
      <4>1. Cardinality(group) \in Nat
        BY <2>2, FS_CardinalityType
      <4> QED
        BY <3>2, <4>1, FS_EmptySet
    <3>4. others # {}
      BY <3>3
    <3>5. [j \in group \ {i} |-> PriceEur(events[j])] \in Surjection(group \ {i}, others)
      BY DEF Surjection
    <3>6. IsFiniteSet(others)
      BY <3>2, <3>5, FS_Surjection
    <3> QED
      BY <3>1, <3>4, <3>6
  <2>5. /\ lo \in others /\ hi \in others
        /\ \A x \in others : lo <= x /\ x <= hi
    <3> HIDE DEF others
    <3> QED
      BY <2>4, MaxAndMin
  <2>6. \A j \in group \ {i} : lo <= prices[j] /\ prices[j] <= hi
    BY <2>3, <2>5
  <2>7. /\ 6745 * Distance(prices[i], lo) > 10000 * Threshold * (hi - lo)
        /\ 6745 * Distance(prices[i], hi) > 10000 * Threshold * (hi - lo)
    BY <2>2, <2>3, <2>5
  <2>8. lo \in Int /\ hi \in Int /\ Cardinality(group) >= 3
    BY <2>4, <2>5
  <2> HIDE DEF group, lo, hi, prices
  <2>9. Outlier(prices, i)
    BY <2>2, <2>3, <2>6, <2>7, <2>8, SpikeIsOutlier
  <2> QED
    BY <2>1, <2>2, <2>9 DEF prices
<1> QED
  BY DataInvariance, <1>1, PTL

\* What is written so is read back.
LEMMA ReadBack ==
  ASSUME NEW e, Written(e)
  PROVE  ParseDecimal(e.price) = {e.meant}
<1> DEFINE n == e.price
<1>1. PICK at \in 0 .. Places :
        /\ e.meant = Signed(n, n.digits * Ten[Places - at])
        /\ \/ at = 0 /\ DOMAIN n.marks = {}
           \/ \E k \in DOMAIN n.marks :
                /\ n.marks[k].at = at
                /\ \/ n.marks[k].char = "." /\ DOMAIN n.marks = {k}
                   \/ /\ n.marks[k].char = ","
                      /\ \A j \in DOMAIN n.marks \ {k} : j < k /\ n.marks[j].char = "."
  BY DEF Written
<1>2. n.kind = "number"
  BY DEF Written
<1> HIDE DEF n
<1>3. ASSUME NEW k, Separators(n) = {k}, n.marks[k].at = at
      PROVE  ParseDecimal(n) = {e.meant}
  <2>1. ParseDecimal(n) = {Signed(n, n.digits * Ten[Places - n.marks[j].at]) :
                             j \in {p \in Separators(n) : Separators(n) = {p}}}
    BY <1>2, <1>3 DEF ParseDecimal
  <2>2. {p \in Separators(n) : Separators(n) = {p}} = {k}
    BY <1>3
  <2> QED
    BY <1>1, <1>3, <2>1, <2>2
<1>4. CASE at = 0 /\ DOMAIN n.marks = {}
  <2>1. Separators(n) = {} /\ Places - at = Places
    BY <1>4, TransformAssumption DEF Separators, Having
  <2> QED
    BY <1>1, <1>2, <2>1 DEF ParseDecimal, n
<1>5. ASSUME NEW k \in DOMAIN n.marks, n.marks[k].at = at,
             n.marks[k].char = ".", DOMAIN n.marks = {k}
      PROVE  ParseDecimal(n) = {e.meant}
  <2>1. Having(n, ",") = {} /\ Separators(n) = {k}
    BY <1>5 DEF Separators, Having
  <2> QED
    BY <1>3, <1>5, <2>1
<1>6. ASSUME NEW k \in DOMAIN n.marks, n.marks[k].at = at, n.marks[k].char = ",",
             \A j \in DOMAIN n.marks \ {k} : n.marks[j].char = "."
      PROVE  ParseDecimal(n) = {e.meant}
  <2>1. Having(n, ",") = {k}
    BY <1>6 DEF Having
  <2> QED
    BY <1>3, <1>6, <2>1 DEF Separators
<1> QED
  BY <1>1, <1>4, <1>5, <1>6 DEF n

(***************************************************************************)
(* parse_decimal reads every price a batch can hold as it was meant,       *)
(* however many digits and grouping points it has, in plain style or in EU *)
(* style; the cleaner accepts no other number.                             *)
(***************************************************************************)
THEOREM PricesAreReadBack == Spec => []PricesAreRead
<1>1. DataInv => PricesAreRead
  <2> SUFFICES ASSUME DataInv, NEW i \in valid
               PROVE  /\ ParseDecimal(events[i].price) = {events[i].meant}
                      /\ events[i].meant > 0
                      /\ VolumeOf(events[i]) >= 0
    BY DEF PricesAreRead
  <2> DEFINE e == events[i]
  <2>1. stage \notin {"clean", "cleanRaised"} \/ valid = {}
    BY DEF DataInv
  <2>2. Accepted(e) /\ VolumeOf(e) \in Nat /\ i \in DOMAIN events
    BY <2>1, ValidAmounts DEF DataInv, Positions
  <2>3. e.price.kind # "number" \/ Ambiguous(e.price) \/ Written(e)
    BY <2>2, WritingAssumption DEF DataInv
  <2> HIDE DEF e
  <2>4. Written(e)
    <3>1. ParseDecimal(e.price) # {}
      BY <2>2 DEF Accepted
    <3> QED
      BY <2>3, <3>1 DEF ParseDecimal, Ambiguous
  <2>5. ParseDecimal(e.price) = {e.meant}
    BY <2>4, ReadBack
  <2> QED
    BY <2>2, <2>5 DEF Accepted, e
<1> QED
  BY DataInvariance, <1>1, PTL

\* What FiguresFit says of a group's figures.
Fits(d, count, volume) ==
  LET slack == count * ValueStep + 2 * d.volume * PriceStep
  IN  /\ d.low <= d.open /\ d.open <= d.high
      /\ d.low <= d.close /\ d.close <= d.high
      /\ volume = 0 => d.vwap = 0
      /\ 0 < volume /\ volume < VolumeMax =>
           /\ 2 * d.vwap * d.volume >= 2 * d.low * d.volume - slack
           /\ 2 * d.vwap * d.volume <= 2 * d.high * d.volume + slack

\* The figures the aggregator computes of a group fit.
LEMMA SummaryFits ==
  ASSUME DataInv, stage = "aggregate", NEW g \in Groups, NEW ends \in Ends(g)
  PROVE  Fits(Summary(g, ends), Cardinality(Group(g)), Volume(g))
<1> DEFINE G == Group(g)
           p == [i \in G |-> PriceEur(events[i])]
           v == [i \in G |-> records[i].volume]
           w == [i \in G |-> records[i].value_eur]
           lo == Min(Prices(g))
           hi == Max(Prices(g))
           volume == Volume(g)
           d == Summary(g, ends)
<1>1. IsFiniteSet(G) /\ G \subseteq valid /\ ends[1] \in G /\ ends[2] \in G
  <2>1. G \subseteq valid
    BY DEF Group
  <2> QED
    BY <2>1, ValidAmounts, FS_Subset DEF Ends
<1>2. ASSUME NEW i \in G
      PROVE  /\ p[i] = PriceEur(events[i]) /\ PriceEur(events[i]) \in Nat
             /\ records[i].price_eur = Round(p[i], PriceStep) /\ records[i].price_eur \in Nat
             /\ v[i] = VolumeOf(events[i]) /\ v[i] \in Nat
             /\ w[i] = Round(p[i] * v[i], ValueStep) /\ w[i] \in Nat
  <2>1. i \in valid
    BY <1>1
  <2>2. PriceEur(events[i]) \in Nat /\ VolumeOf(events[i]) \in Nat
    BY <2>1, ValidAmounts
  <2>3. Normalized
    BY DEF DataInv, FateInv, Aggregating
  <2>4. records[i] \in Amounts
    BY <2>1 DEF DataInv, Unnormalized
  <2> QED
    BY <2>1, <2>2, <2>3, <2>4 DEF Normalized, Amounts, ValueEur
<1>3. p \in [G -> Nat] /\ v \in [G -> Nat] /\ w \in [G -> Nat]
  BY <1>2
<1>4. Prices(g) \in SUBSET Int /\ IsFiniteSet(Prices(g)) /\ Prices(g) # {}
  <2>1. Prices(g) \in SUBSET Int
    BY <1>2 DEF Prices
  <2>2. [i \in G |-> records[i].price_eur] \in Surjection(G, Prices(g))
    BY DEF Surjection, Prices
  <2>3. IsFiniteSet(Prices(g))
    BY <1>1, <2>2, FS_Surjection
  <2>4. records[ends[1]].price_eur \in Prices(g)
    BY <1>1 DEF Prices
  <2> QED
    BY <2>1, <2>3, <2>4
<1>5. /\ lo \in Int /\ hi \in Int
      /\ \A x \in Prices(g) : lo <= x /\ x <= hi
  BY <1>4, MaxAndMin
<1>6. \A i \in G : records[i].price_eur \in Prices(g)
  BY DEF Prices
<1>7. volume = SumFunction(v) /\ Value(g) = SumFunction(w)
  BY DEF Volume, Value
<1> HIDE DEF G, p, v, w, lo, hi, volume
<1>8. volume \in Nat /\ Between(Cardinality(G), Value(g), volume, lo, hi)
  <2>1. \A i \in G : w[i] = Round(p[i] * v[i], ValueStep)
    BY <1>2
  <2>2. \A i \in G : lo <= Round(p[i], PriceStep) /\ Round(p[i], PriceStep) <= hi
    BY <1>2, <1>5, <1>6
  <2>3. SumFunction(v) \in Nat /\ Between(Cardinality(G), SumFunction(w), SumFunction(v), lo, hi)
    BY <1>1, <1>3, <1>5, <2>1, <2>2, AverageIsBetween
  <2> QED
    BY <1>7, <2>3
<1>9. /\ d.open = records[ends[1]].price_eur /\ d.close = records[ends[2]].price_eur
      /\ d.high = hi /\ d.low = lo /\ d.volume = Wrap(volume)
      /\ d.vwap = Vwap(Value(g), Wrap(volume))
  BY DEF Summary, lo, hi, volume
<1> HIDE DEF d
<1>10. d.low <= d.open /\ d.open <= d.high /\ d.low <= d.close /\ d.close <= d.high
  BY <1>1, <1>5, <1>6, <1>9
<1>11. volume < VolumeMax => Wrap(volume) = volume
  BY <1>8, WrapFits
<1>12. volume = 0 => d.vwap = 0
  <2>1. 0 < VolumeMax
    BY TransformAssumption
  <2> QED
    BY <1>9, <1>11, <2>1 DEF Vwap
<1>13. 0 < volume /\ volume < VolumeMax =>
         LET slack == Cardinality(G) * ValueStep + 2 * d.volume * PriceStep
         IN  /\ 2 * d.vwap * d.volume >= 2 * d.low * d.volume - slack
             /\ 2 * d.vwap * d.volume <= 2 * d.high * d.volume + slack
  <2> SUFFICES ASSUME 0 < volume, volume < VolumeMax
               PROVE  LET slack == Cardinality(G) * ValueStep + 2 * d.volume * PriceStep
                      IN  /\ 2 * d.vwap * d.volume >= 2 * d.low * d.volume - slack
                          /\ 2 * d.vwap * d.volume <= 2 * d.high * d.volume + slack
    OBVIOUS
  <2>1. d.volume = volume /\ d.vwap = Vwap(Value(g), volume) /\ d.low = lo /\ d.high = hi
    BY <1>9, <1>11
  <2>2. volume > 0
    BY <1>8
  <2> QED
    BY <1>8, <2>1, <2>2, Zenon DEF Between
<1> QED
  BY <1>10, <1>12, <1>13 DEF Fits, d, G, volume

(***************************************************************************)
(* The figures of every daily summary fit each other: open, close and the  *)
(* VWAP lie between low and high, the VWAP up to the rounding of the       *)
(* stored values and prices, for any number of trades, any prices and any  *)
(* total volume that does not overflow its 64 bits (aggregate).            *)
(***************************************************************************)
THEOREM FiguresAlwaysFit == Spec => []FiguresFit
<1> DEFINE I == \A g \in DOMAIN days : Fits(days[g], Cardinality(Group(g)), Volume(g))
<1>1. DataInv /\ I => FiguresFit
  BY DEF Fits, FiguresFit
<1>2. Init => I
  BY DEF Init
<1>3. DataInv /\ DataInv' /\ I /\ [Next]_vars => I'
  <2> SUFFICES ASSUME DataInv, DataInv', I, [Next]_vars PROVE I'
    OBVIOUS
  <2>1. CASE UNCHANGED <<events, valid, records, days>>
    <3>1. \A g : Group(g)' = Group(g) /\ Volume(g)' = Volume(g)
      BY <2>1, GroupsStay DEF Volume
    <3> QED
      BY <2>1, <3>1
  <2>2. CASE Aggregate
    <3>1. /\ UNCHANGED <<events, valid, records>> /\ stage = "aggregate"
          /\ \E ends \in [Groups -> UNION {Ends(g) : g \in Groups}] :
               /\ \A g \in Groups : ends[g] \in Ends(g)
               /\ days' = [g \in Groups |-> Summary(g, ends[g])]
      BY <2>2 DEF Aggregate
    <3>2. \A g : Group(g)' = Group(g) /\ Volume(g)' = Volume(g)
      BY <3>1, GroupsStay DEF Volume
    <3>3. PICK ends : /\ \A g \in Groups : ends[g] \in Ends(g)
                      /\ days' = [g \in Groups |-> Summary(g, ends[g])]
      BY <3>1
    <3>4. \A g \in Groups : Fits(days'[g], Cardinality(Group(g)), Volume(g))
      BY <3>1, <3>3, SummaryFits
    <3> QED
      BY <3>2, <3>3, <3>4
  <2>3. CASE stage' \notin {"upsert", "done", "upsertRaised"}
    BY <2>3 DEF DataInv
  <2>4. \/ UNCHANGED <<events, valid, records, days>>
        \/ Aggregate
        \/ stage' \notin {"upsert", "done", "upsertRaised"}
    BY DEF Next, vars, CleanBatch, CleanBatchRaises, SaveErrors, NormalizeBatch,
           NormalizeBatchRaises, Load, Upsert
  <2> QED
    BY <2>1, <2>2, <2>3, <2>4
<1> HIDE DEF I
<1>4. Spec => []I
  BY <1>2, <1>3, DataInvariance, PTL DEF Spec
<1> QED
  BY <1>1, <1>4, DataInvariance, PTL

=============================================================================
