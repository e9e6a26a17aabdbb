---------------------------- MODULE MCTransform ----------------------------
(***************************************************************************)
(* Small instances of Transform: every kind of field in a batch of one,    *)
(* every pair of fates, and batches of three to five records whose prices, *)
(* volumes and markets vary.                                               *)
(***************************************************************************)
EXTENDS Transform

\* Numerals: plain ones, "1.2,3" as in the EU, and texts that are none.
Point(d, at) == [kind |-> "number", neg |-> FALSE, digits |-> d,
                 marks |-> IF at = 0 THEN <<>> ELSE <<[char |-> ".", at |-> at]>>]
Negative(n)  == [n EXCEPT !.neg = TRUE]
Comma(d)     == [kind |-> "number", neg |-> FALSE, digits |-> d,
                 marks |-> <<[char |-> ",", at |-> 1]>>]
Grouped(d)   == [kind |-> "number", neg |-> FALSE, digits |-> d,
                 marks |-> <<[char |-> ".", at |-> 2], [char |-> ",", at |-> 1]>>]
Twice(d)     == [kind |-> "number", neg |-> FALSE, digits |-> d,
                 marks |-> <<[char |-> ".", at |-> 2], [char |-> ".", at |-> 1]>>]
NoNumber(k)  == [kind |-> k]

\* A price with what it means.
PriceTexts ==
  {<<Point(3, 0), 300>>, <<Point(7, 0), 700>>, <<Point(45, 1), 450>>, <<Comma(45), 450>>,
   <<Grouped(123), 1230>>, <<Twice(123), 0>>, <<Point(0, 0), 0>>,
   <<Negative(Point(3, 0)), -300>>, <<Point(900, 0), 90000>>, <<Point(9000, 0), 900000>>}
  \cup {<<NoNumber(k), 0>> : k \in {"missing", "junk", "infinite"}}

VolumeTexts ==
  {Point(0, 0), Point(2, 0), Point(25, 1), Negative(Point(2, 0)), Negative(Point(5, 1)),
   Point(8, 0), Point(999999, 0), Comma(25)}
  \cup {NoNumber(k) : k \in {"missing", "junk", "infinite"}}

Raw(price, volume, currency, market, stamp, at) ==
  [event_id |-> "a", symbol |-> "s", misfits |-> {}, price |-> price[1], volume |-> volume,
   currency |-> currency, market |-> market, stamp |-> stamp, at |-> at,
   meant |-> price[2]]

Zulu == [kind |-> "text", sep |-> "T", fraction |-> FALSE, zone |-> "Z"]

AnyEvent ==
  {<<[Raw(p, v, c, "m1", t, 1) EXCEPT !.misfits = IF t.kind = "datetime" THEN {"source"} ELSE {}]>> :
     p \in PriceTexts, v \in VolumeTexts, c \in {"EUR", "USD", "XXX"}, t \in Stamp}

\* One event of each fate.
Sample(f) ==
  CASE f = "ok"          -> Raw(<<Point(3, 0), 300>>, Point(2, 0), "EUR", "m1", Zulu, 1)
    [] f = "uncastable"  -> Raw(<<Point(3, 0), 300>>, NoNumber("infinite"), "EUR", "m1", Zulu, 1)
    [] f = "rejected"    -> Raw(<<NoNumber("junk"), 0>>, Point(2, 0), "EUR", "m1", Zulu, 1)
    [] f = "untimed"     -> Raw(<<Point(3, 0), 300>>, Point(2, 0), "EUR", "m1", [kind |-> "junk"], 1)
    [] f = "unstorable"  -> [Raw(<<Point(3, 0), 300>>, Point(2, 0), "EUR", "m1", Zulu, 1)
                              EXCEPT !.misfits = {"symbol"}]
    [] f = "unencodable" -> Raw(<<Point(3, 0), 300>>, Point(8, 0), "EUR", "m1", Zulu, 1)

SomeFates == {"ok", "uncastable", "rejected", "untimed", "unstorable", "unencodable"}
AnyPair   == {<<Sample(f), Sample(g)>> : f, g \in SomeFates}

\* Refusals that cannot be saved, alone and under the name or with the payload of
\* a later event of the same id.
Misfit(e, column) == [e EXCEPT !.misfits = {column}]
AnyMisfit ==
  {<<Misfit(Sample("rejected"), c), [Misfit(Sample(f), d) EXCEPT !.event_id = id]>> :
     c, d \in ErrorColumns \cup {"source"}, f \in {"ok", "rejected"}, id \in {"a", "b"}}

\* Volumes of each size in each order, a missing one among them; and the same
\* with a record that fails by itself if it is not refused.
Sizes == {NoNumber("missing"), Negative(Point(2, 0)), Point(2, 0), Point(8, 0), Point(16, 0),
          Negative(Point(9, 0))}
Sized(v, id) == [Sample("ok") EXCEPT !.volume = v, !.event_id = id]
AnySizes ==
  {<<Sized(u, "a"), Sized(v, "b"), [Sized(w, "c") EXCEPT !.stamp = t]>> :
     u, v, w \in Sizes, t \in {Zulu, [kind |-> "junk"]}}

\* Trades of a day at these prices (hundredths), volumes, markets and times.
Trade(d, v, m, at) == Raw(<<Point(d, 2), d>>, Point(v, 0), "EUR", m, Zulu, at)

Trades ==
  {<<Trade(d[1], v[1], "m1", 1), Trade(d[2], v[2], "m1", at), Trade(d[3], v[3], m, 2)>> :
     d \in [1 .. 3 -> {1, 10, 15, 300}], v \in [1 .. 3 -> {0, 3, 7}],
     m \in {"m1", "m2"}, at \in {1, 3}}
\* The first of four or five is of another market, or of another symbol.
ManyTrades ==
  UNION {{[[i \in 1 .. n |-> Trade(d[i], 1, IF i = 1 THEN m ELSE "m1", i)]
             EXCEPT ![1].symbol = IF m = "m1" THEN "r" ELSE "s"] :
            d \in [1 .. n -> {10, 12, 15, 300}], m \in {"m1", "m2"}} : n \in {4, 5}}

\* What produce() sends, one event after the other.
Listings == [s \in {"s", "r"} |->
               [currency |-> IF s = "s" THEN "EUR" ELSE "USD", market |-> "m1"]]
Samples  ==
  {[i \in 1 .. 2 |-> GenerateEvent(<<"a", "b">>[i], c[i], Listings[c[i]], 150, 3, us[i], i)] :
     c \in [1 .. 2 -> {"s", "r"}], us \in [1 .. 2 -> {0, 1}]}

SmallBatches ==
  AnyEvent \cup AnyPair \cup AnyMisfit \cup AnySizes \cup Trades \cup ManyTrades \cup Samples

SmallRates == [c \in {"EUR", "USD"} |-> IF c = "EUR" THEN 2 ELSE 1]

=============================================================================
