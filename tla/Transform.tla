----------------------------- MODULE Transform -----------------------------
(***************************************************************************)
(* The transform stages of a batch, field by field: DataCleaner,           *)
(* DataNormalizer and DailyAggregator (src/app/pipeline/transform/), with  *)
(* what the load in between refuses.  ProcessBatch knows a record by its   *)
(* fate alone; here the fate is computed from the fields, and the figures  *)
(* of daily_summaries from those of the records.                           *)
(*                                                                         *)
(* The records of a batch are of one day.  Numbers are exact: money is     *)
(* counted in sub-units, fractions of the smallest price that is stored,   *)
(* and the binary rounding of floats is left out.  The widths, the ranges  *)
(* and the two scales are parameters, to have their limits in reach.       *)
(***************************************************************************)
EXTENDS Integers, Sequences, FiniteSets, SequencesExt

CONSTANTS
  Batches,      \* the batches to consider: sequences of raw events
  Rates,        \* FX_RATES_TO_EUR: sub-units of a unit of each currency's price
  Unit,         \* ... of a unit of price at the rate of one
  Places,       \* digits after the point of a price, at most: its unit is 10^-Places
  PriceStep,    \* sub-units in the last place of a price column (10^-6)
  ValueStep,    \* ... of a value column (10^-4)
  DoubleMax,    \* from here on a float is infinite
  PriceMax,     \* from here on the price columns, Numeric(19, 6), overflow
  ValueMax,     \* ... and the value columns, Numeric(19, 4)
  VolumeMax,    \* from here on a volume overflows its 64 bits (2^63)
  Threshold     \* OUTLIER_ZSCORE_THRESHOLD

(***************************************************************************)
(* A number as text: its digits, its sign, and its points and commas from  *)
(* left to right, each with the number of digits to its right.             *)
(* "infinite" is a text float() takes for infinity, "junk" one that is no  *)
(* number at all, "missing" None or a text that stands for it.             *)
(*                                                                         *)
(* A timestamp as text is of some shape, its separator, whether it has a   *)
(* fraction of a second and its zone, or "junk" or "missing"; `at' is the  *)
(* instant it denotes.  A JSON number is a datetime before it gets here.   *)
(* `misfits' are the columns that do not take what the event has for them: *)
(* too long a text, or in JSONB a NaN or a NUL.  A source goes to          *)
(* market_records in capitals and to validation_errors as it came.         *)
(* `meant' is the price the sender meant, in units of 10^-Places.          *)
(***************************************************************************)
Mark    == [char : {".", ","}, at : Nat]
Numeral == [kind : {"number"}, neg : BOOLEAN, digits : Nat, marks : Seq(Mark)]
           \cup [kind : {"missing", "junk", "infinite"}]
Stamp   == [kind : {"text"}, sep : {"T", " "}, fraction : BOOLEAN, zone : {"none", "Z", "offset"}]
           \cup [kind : {"missing", "junk", "datetime"}]

MarketColumns == {"event_id", "symbol", "market", "source"}
ErrorColumns  == {"event_id", "raw_source", "raw_payload"}

Event == [event_id : STRING, symbol : STRING, misfits : SUBSET (MarketColumns \cup ErrorColumns),
          price : Numeral, volume : Numeral, currency : STRING, market : STRING,
          stamp : Stamp, at : Nat, meant : Int]

\* scripts/produce_sample_events.py: a listed symbol, its price as a JSON number,
\* and the instant as isoformat() writes it, with a fraction unless that is zero.
GenerateEvent(id, symbol, listing, price, volume, micros, at) ==
  [event_id |-> id, symbol |-> symbol, misfits |-> {}, currency |-> listing.currency, market |-> listing.market,
   price  |-> [kind |-> "number", neg |-> FALSE, digits |-> price,
               marks |-> <<[char |-> ".", at |-> Places]>>],
   volume |-> [kind |-> "number", neg |-> FALSE, digits |-> volume, marks |-> <<>>],
   stamp  |-> [kind |-> "text", sep |-> "T", fraction |-> micros # 0, zone |-> "offset"],
   at |-> at, meant |-> price]

ASSUME TransformAssumption ==
  /\ Batches \subseteq Seq(Event)
  /\ \A c \in DOMAIN Rates : Rates[c] \in Nat \ {0}
  /\ Unit \in Nat \ {0}
  /\ Places \in Nat
  /\ PriceStep \in Nat \ {0}
  /\ ValueStep \in Nat \ {0}
  /\ DoubleMax \in Nat
  /\ PriceMax \in Nat
  /\ ValueMax \in Nat
  /\ VolumeMax \in Nat \ {0}
  /\ Threshold \in Nat

VARIABLES
  events,      \* raw_events
  stage,       \* the stage to come, or how the batch ended
  valid,       \* positions of valid_records
  refused,     \* positions of invalid_records
  records,     \* NormalizedMarketRecord by position
  days         \* DailySummary by (symbol, market)

vars == <<events, stage, valid, refused, records, days>>

Stages == {"clean", "errors", "normalize", "load", "aggregate", "upsert", "done",
           "cleanRaised", "errorsRaised", "normalizeRaised", "loadRaised",
           "upsertRaised"}

-----------------------------------------------------------------------------
(* The cleaner.  A parser returns the set of its result, empty for None.   *)

\* TIMESTAMP_FORMATS, each with the zones its directive takes.
Formats == {
  [sep |-> "T", fraction |-> FALSE, zones |-> {"Z"}],             \* ...THH:MM:SSZ
  [sep |-> "T", fraction |-> FALSE, zones |-> {"none"}],          \* ...THH:MM:SS
  [sep |-> "T", fraction |-> TRUE,  zones |-> {"Z"}],             \* ...SS.%fZ
  [sep |-> " ", fraction |-> FALSE, zones |-> {"none"}],          \* ... HH:MM:SS
  [sep |-> "T", fraction |-> FALSE, zones |-> {"offset", "Z"}]}   \* ...SS%z

ParseTimestamp(e) ==
  IF \/ e.stamp.kind = "datetime"
     \/ /\ e.stamp.kind = "text"
        /\ \E f \in Formats : /\ f.sep = e.stamp.sep
                              /\ f.fraction = e.stamp.fraction
                              /\ e.stamp.zone \in f.zones
  THEN {e.at} ELSE {}

\* 10^n.
Ten[n \in Nat] == IF n = 0 THEN 1 ELSE 10 * Ten[n - 1]

Signed(n, amount) == IF n.neg THEN - amount ELSE amount
Having(n, char) == {k \in DOMAIN n.marks : n.marks[k].char = char}

\* Mutant: only the last comma and point are looked at; the grouping stays.
ParseDecimalMutant(n) ==
  IF n.kind # "number" \/ Len(n.marks) > 2 THEN {}
  ELSE {Signed(n, n.digits * Ten[Places - (IF n.marks = <<>> THEN 0 ELSE n.marks[1].at)])}

\* With a comma, points group and commas separate; a number has one separator.
Separators(n) == IF Having(n, ",") # {} THEN Having(n, ",") ELSE DOMAIN n.marks

ParseDecimal(n) ==
  IF n.kind # "number" THEN {}
  ELSE IF Separators(n) = {} THEN {Signed(n, n.digits * Ten[Places])}
  ELSE {Signed(n, n.digits * Ten[Places - n.marks[k].at]) :
          k \in {p \in Separators(n) : Separators(n) = {p}}}

\* A price has no digits after those Places (as many as the batches have).
Precise(n) ==
  n.kind = "number" =>
    \A k \in Separators(n) : Separators(n) = {k} => n.marks[k].at <= Places

ASSUME PrecisionAssumption ==
  \A batch \in Batches : \A i \in DOMAIN batch : Precise(batch[i].price)

(***************************************************************************)
(* A price as its sender writes it: its digits, of which `at' are its      *)
(* fraction; the mark before those is a point, the only mark there is, or  *)
(* as in the EU a comma with nothing but points before it.                 *)
(***************************************************************************)
Written(e) ==
  LET n == e.price
  IN  /\ n.kind = "number"
      /\ \E at \in 0 .. Places :
           /\ e.meant = Signed(n, n.digits * Ten[Places - at])
           /\ \/ at = 0 /\ DOMAIN n.marks = {}
              \/ \E k \in DOMAIN n.marks :
                   /\ n.marks[k].at = at
                   /\ \/ n.marks[k].char = "." /\ DOMAIN n.marks = {k}
                      \/ /\ n.marks[k].char = ","
                         /\ \A j \in DOMAIN n.marks \ {k} : j < k /\ n.marks[j].char = "."

\* With several separators it is a number in neither style.
Ambiguous(n) == n.kind = "number" /\ \E j, k \in Separators(n) : j # k

ASSUME WritingAssumption ==
  \A batch \in Batches : \A i \in DOMAIN batch :
    LET e == batch[i]
    IN  e.price.kind # "number" \/ Ambiguous(e.price) \/ Written(e)

\* int(float(...)): no commas, and towards zero.
ParseInt(n) ==
  IF n.kind # "number" \/ Having(n, ",") # {} \/ Len(n.marks) > 1 THEN {}
  ELSE {Signed(n, n.digits \div Ten[IF n.marks = <<>> THEN 0 ELSE n.marks[1].at])}

\* int() of an infinite float.
IntRaises(n) == n.kind = "infinite" \/ \E v \in ParseInt(n) : v >= DoubleMax \/ v <= - DoubleMax

\* Mutant: a negative volume is not refused.
AcceptedMutant(e) ==
  /\ \E p \in ParseDecimal(e.price) : p > 0
  /\ ParseInt(e.volume) # {}
  /\ e.currency \in DOMAIN Rates

\* CleanMarketRecord takes it; a timestamp that did not parse it takes too.
Accepted(e) ==
  /\ \E p \in ParseDecimal(e.price) : p > 0
  /\ \E v \in ParseInt(e.volume) : v >= 0
  /\ e.currency \in DOMAIN Rates

Positions == DOMAIN events

\* An integer of the column before position i is over 64 bits, or one is over 63
\* and one negative: the column is settled as one of objects.
Objects(i) ==
  LET seen == UNION {ParseInt(events[j].volume) : j \in {p \in Positions : p < i}}
  IN  \/ \E v \in seen : v >= 2 * VolumeMax \/ v < - VolumeMax
      \/ \E v, w \in seen : v >= VolumeMax /\ w < 0

\* A missing volume makes the others floats, unless the column is settled.
FloatColumn == \E i \in Positions : ParseInt(events[i].volume) = {} /\ ~ Objects(i)

\* Mutant: neighbours do not matter.
KeptMutant(e) == Accepted(e)

\* The model takes an integer of any size, but a float only below 2^63.
Kept(e) == Accepted(e) /\ (FloatColumn => \A v \in ParseInt(e.volume) : v < VolumeMax)

CleanBatch ==
  /\ stage = "clean"
  /\ \A i \in Positions : ~ IntRaises(events[i].volume)
  /\ valid' = {i \in Positions : Kept(events[i])}
  /\ refused' = Positions \ valid'
  /\ stage' = "errors"
  /\ UNCHANGED <<events, records, days>>

CleanBatchRaises ==
  /\ stage = "clean"
  /\ \E i \in Positions : IntRaises(events[i].volume)
  /\ stage' = "cleanRaised"
  /\ UNCHANGED <<events, valid, refused, records, days>>

\* events_by_id: the last event with the id of the one at i.
EventById(i) == events[Max({j \in Positions : events[j].event_id = events[i].event_id})]

\* A row of validation_errors has the names and the payload of that event.
Recordable(i) == EventById(i).misfits \cap ErrorColumns = {}

SaveErrors ==
  /\ stage = "errors"
  /\ stage' = IF \A i \in refused : Recordable(i) THEN "normalize" ELSE "errorsRaised"
  /\ UNCHANGED <<events, valid, refused, records, days>>

-----------------------------------------------------------------------------
(* The normalizer.                                                         *)

\* To the nearest multiple of step, from halfway to the even one.
Round(x, step) ==
  LET down == x \div step
      rest == 2 * (x % step)
  IN  step * (IF rest > step \/ (rest = step /\ down % 2 = 1) THEN down + 1 ELSE down)

VolumeOf(e) == CHOOSE v \in ParseInt(e.volume) : TRUE
PriceEur(e) == (CHOOSE p \in ParseDecimal(e.price) : TRUE) * Rates[e.currency]
ValueEur(e) == PriceEur(e) * VolumeOf(e)

PriceOriginal(e) == (CHOOSE p \in ParseDecimal(e.price) : TRUE) * Unit

\* The k-th of the values of f in ascending order.
Ranked(f, k) ==
  CHOOSE v \in Range(f) : /\ Cardinality({i \in DOMAIN f : f[i] < v}) < k
                          /\ Cardinality({i \in DOMAIN f : f[i] <= v}) >= k

\* Twice the median of the values of f.
Median2(f) ==
  LET n == Cardinality(DOMAIN f)
  IN  Ranked(f, (n + 1) \div 2) + Ranked(f, n \div 2 + 1)

Distance(x, y) == IF x >= y THEN x - y ELSE y - x

\* Mutant: the mean and the mean deviation are taken for the medians.
OutlierMutant(prices, i) ==
  LET n    == Cardinality(DOMAIN prices)
      sum  == SumFunction(prices)
      dev  == [j \in DOMAIN prices |-> Distance(n * prices[j], sum)]
  IN  n >= 3 /\ 6745 * n * dev[i] > 10000 * Threshold * SumFunction(dev)

\* Mutant: the least deviation is taken for the median one.
OutlierLeast(prices, i) ==
  LET middle == Median2(prices)
      dev    == [j \in DOMAIN prices |-> Distance(2 * prices[j], middle)]
  IN  Cardinality(DOMAIN prices) >= 3 /\ dev[i] > Min(Range(dev))

(***************************************************************************)
(* Is the record at i an outlier of its group, by the group's prices?      *)
(* Deviations are doubled, their median (MAD) is so once more;             *)
(* 0.6745 * dev / MAD > threshold.                                         *)
(***************************************************************************)
Outlier(prices, i) ==
  LET middle == Median2(prices)
      dev    == [j \in DOMAIN prices |-> Distance(2 * prices[j], middle)]
      mad    == Median2(dev)
  IN  /\ Cardinality(DOMAIN prices) >= 3
      /\ IF mad = 0 THEN dev[i] > 0 ELSE 6745 * 2 * dev[i] > 10000 * Threshold * mad

SameSymbol(i)   == {j \in valid : events[j].symbol = events[i].symbol}
SymbolPrices(i) == [j \in SameSymbol(i) |-> PriceEur(events[j])]

\* What normalize_batch chokes on: no date, or an amount that is infinite.
Unfit(e) ==
  \/ ParseTimestamp(e) = {}
  \/ \E amount \in {PriceOriginal(e), PriceEur(e), ValueEur(e)} : amount >= DoubleMax

NormalizeBatch ==
  /\ stage = "normalize"
  /\ \A i \in valid : ~ Unfit(events[i])
  /\ records' = [i \in valid |->
       [price_original |-> Round(PriceOriginal(events[i]), PriceStep),
        price_eur  |-> Round(PriceEur(events[i]), PriceStep),
        value_eur  |-> Round(ValueEur(events[i]), ValueStep),
        volume     |-> VolumeOf(events[i]),
        is_outlier |-> Outlier(SymbolPrices(i), i)]]
  /\ stage' = "load"
  /\ UNCHANGED <<events, valid, refused, days>>

NormalizeBatchRaises ==
  /\ stage = "normalize"
  /\ \E i \in valid : Unfit(events[i])
  /\ stage' = "normalizeRaised"
  /\ UNCHANGED <<events, valid, refused, records, days>>

-----------------------------------------------------------------------------
(* The load, as far as it refuses values, and the aggregator.              *)

\* What the driver takes of a volume, and the columns of a record.
Encodable(volume) == volume < VolumeMax

Storable(e, original, price, value) ==
  /\ e.misfits \cap MarketColumns = {}
  /\ original < PriceMax /\ price < PriceMax /\ value < ValueMax

Load ==
  /\ stage = "load"
  /\ stage' = IF \A i \in valid :
                    /\ Encodable(records[i].volume)
                    /\ Storable(events[i], records[i].price_original,
                                records[i].price_eur, records[i].value_eur)
                THEN "aggregate" ELSE "loadRaised"
  /\ UNCHANGED <<events, valid, refused, records, days>>

\* A sum of int64: it wraps.
Wrap(n) == ((n + VolumeMax) % (2 * VolumeMax)) - VolumeMax

Groups == {<<events[i].symbol, events[i].market>> : i \in valid}
Group(g) == {i \in valid : <<events[i].symbol, events[i].market>> = g}

Prices(g) == {records[i].price_eur : i \in Group(g)}
Volume(g) == SumFunction([i \in Group(g) |-> records[i].volume])
Value(g)  == SumFunction([i \in Group(g) |-> records[i].value_eur])

\* First and last rows a sort by timestamp, which is not stable, may give.
Ends(g) ==
  {ends \in Group(g) \X Group(g) :
     /\ \A i \in Group(g) : /\ events[ends[1]].at <= events[i].at
                            /\ events[i].at <= events[ends[2]].at
     /\ ends[1] = ends[2] => Cardinality(Group(g)) = 1}

\* Mutant: the average value of a trade.
VwapMutant(value, volume) ==
  Round(value, Cardinality(valid) * PriceStep) \div Cardinality(valid)

\* The quotient, rounded in the last place of a price.
Vwap(value, volume) ==
  IF volume > 0 THEN Round(value, volume * PriceStep) \div volume ELSE 0

Summary(g, ends) ==
  [open    |-> records[ends[1]].price_eur,
   high    |-> Max(Prices(g)),
   low     |-> Min(Prices(g)),
   close   |-> records[ends[2]].price_eur,
   volume  |-> Wrap(Volume(g)),
   value   |-> Value(g),
   vwap    |-> Vwap(Value(g), Wrap(Volume(g))),
   trades  |-> Cardinality(Group(g)),
   outliers |-> Cardinality({i \in Group(g) : records[i].is_outlier})]

Aggregate ==
  /\ stage = "aggregate"
  /\ \E ends \in [Groups -> UNION {Ends(g) : g \in Groups}] :
       /\ \A g \in Groups : ends[g] \in Ends(g)
       /\ days' = [g \in Groups |-> Summary(g, ends[g])]
  /\ stage' = "upsert"
  /\ UNCHANGED <<events, valid, refused, records>>

\* The sum of values that fit need not fit, nor their average on a wrapped volume.
Upsert ==
  /\ stage = "upsert"
  /\ stage' = IF \A g \in DOMAIN days : days[g].value < ValueMax /\ days[g].vwap < PriceMax
                THEN "done" ELSE "upsertRaised"
  /\ UNCHANGED <<events, valid, refused, records, days>>

-----------------------------------------------------------------------------
Init ==
  /\ events \in Batches
  /\ stage = "clean"
  /\ valid = {}
  /\ refused = {}
  /\ records = <<>>
  /\ days = <<>>

Next ==
  \/ CleanBatch \/ CleanBatchRaises \/ SaveErrors
  \/ NormalizeBatch \/ NormalizeBatchRaises
  \/ Load \/ Aggregate \/ Upsert

Spec == Init /\ [][Next]_vars

-----------------------------------------------------------------------------
(* Safety.                                                                 *)

TypeOK ==
  /\ events \in Seq(Event)
  /\ stage \in Stages
  /\ valid \in SUBSET Positions
  /\ refused \in SUBSET Positions
  /\ DOMAIN records \in {{}, valid}
  /\ Range(records) \subseteq [price_original : Nat, price_eur : Nat, value_eur : Nat,
                              volume : Nat, is_outlier : BOOLEAN]
  /\ DOMAIN days \in {{}, Groups}

\* The first thing in the code that does not take the event by itself, what its
\* volume is to its neighbours, and who would not take its refusal.
Fate(e) ==
  CASE IntRaises(e.volume)                      -> "uncastable"
    [] ~ IntRaises(e.volume) /\ ~ Accepted(e)   -> "rejected"
    [] ~ IntRaises(e.volume) /\ Accepted(e) ->
         IF Unfit(e) THEN "untimed"
         ELSE IF ~ Encodable(VolumeOf(e)) THEN "unencodable"
         ELSE IF ~ Storable(e, Round(PriceOriginal(e), PriceStep),
                            Round(PriceEur(e), PriceStep), Round(ValueEur(e), ValueStep))
         THEN "unstorable" ELSE "ok"

VolumeClass(e) ==
  IF ParseInt(e.volume) = {} THEN "none"
  ELSE LET v == VolumeOf(e)
       IN  IF v < - VolumeMax \/ v >= 2 * VolumeMax THEN "enormous"
           ELSE IF v < 0 THEN "negative"
           ELSE IF v >= VolumeMax THEN "long" ELSE "small"

\* The batch as ProcessBatch knows it.
Described ==
  [i \in Positions |->
     [event_id |-> events[i].event_id, fate |-> Fate(events[i]),
      volume   |-> VolumeClass(events[i]),
      barred   |-> IF events[i].misfits \cap ErrorColumns = {} THEN {} ELSE {"server"}]]

P == INSTANCE Fates WITH batch <- Described

Failing(F) == P!Valid \cap P!WithFate(F)

(***************************************************************************)
(* How a batch ends is what the guards of ProcessBatch make of its         *)
(* description: which stage raises, for some record or its neighbours, and *)
(* otherwise which records are stored and which are refused.  Only the     *)
(* upsert can still fail, on a sum of values that fit.                     *)
(***************************************************************************)
FatesDecide ==
  /\ \A i \in Positions : P!Coherent(Described[i])
  /\ stage = "cleanRaised" => P!WithFate({"uncastable"}) # {}
  /\ stage \notin {"clean", "cleanRaised"} =>
       /\ P!WithFate({"uncastable"}) = {}
       /\ valid = P!Valid /\ refused = P!Invalid
       /\ stage # "errors" => (stage = "errorsRaised" <=> P!Unsavable("server") # {})
       /\ stage \notin {"errors", "errorsRaised", "normalize"} =>
            (stage = "normalizeRaised" <=> Failing({"untimed"}) # {})
       /\ stage \notin {"errors", "errorsRaised", "normalize", "normalizeRaised", "load"} =>
            (stage = "loadRaised" <=> Failing({"unencodable", "unstorable"}) # {})

(***************************************************************************)
(* A price the cleaner accepts is the one that was meant, in plain and in  *)
(* EU style; what is no number, not positive or of no known currency is    *)
(* not stored.                                                             *)
(***************************************************************************)
PricesAreRead ==
  \A i \in valid :
    /\ ParseDecimal(events[i].price) = {events[i].meant}
    /\ events[i].meant > 0
    /\ VolumeOf(events[i]) >= 0

(***************************************************************************)
(* Outliers are fewer than half of the records of their symbol: however    *)
(* the prices lie, the test does not disqualify the majority.              *)
(***************************************************************************)
OutliersAreMinority ==
  \A i \in DOMAIN records :
    LET group == SameSymbol(i)
    IN  2 * Cardinality({j \in group : records[j].is_outlier}) < Cardinality(group)

(***************************************************************************)
(* The figures of a day fit each other: open and close lie between low and *)
(* high, and so does the VWAP, up to the rounding of each value and of the *)
(* prices, as long as the total volume fits its type; with no volume it is *)
(* zero.                                                                   *)
(***************************************************************************)
FiguresFit ==
  \A g \in DOMAIN days :
    LET d == days[g]
        slack == Cardinality(Group(g)) * ValueStep + 2 * d.volume * PriceStep
    IN  /\ d.low <= d.open /\ d.open <= d.high
        /\ d.low <= d.close /\ d.close <= d.high
        /\ Volume(g) = 0 => d.vwap = 0
        /\ 0 < Volume(g) /\ Volume(g) < VolumeMax =>
             /\ 2 * d.vwap * d.volume >= 2 * d.low * d.volume - slack
             /\ 2 * d.vwap * d.volume <= 2 * d.high * d.volume + slack

(***************************************************************************)
(* A spike cannot hide itself: a record farther from all others of its     *)
(* symbol than the threshold times their spread is flagged, however far.   *)
(* (A mean and a standard deviation would be drawn along with it.)         *)
(***************************************************************************)
SpikesStandOut ==
  \A i \in DOMAIN records :
    LET others == {PriceEur(events[j]) : j \in SameSymbol(i) \ {i}}
        price  == PriceEur(events[i])
        spread == Max(others) - Min(others)
    IN  /\ Cardinality(SameSymbol(i)) >= 3
        /\ \A p \in others : 6745 * Distance(price, p) > 10000 * Threshold * spread
        => records[i].is_outlier

=============================================================================
