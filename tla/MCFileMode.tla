----------------------------- MODULE MCFileMode -----------------------------
(***************************************************************************)
(* Small instances of FileMode: two names, at most two drops of at most    *)
(* two rows each.                                                          *)
(***************************************************************************)
EXTENDS FileMode

CONSTANTS e1, e2, e3, e4, k1, k2

\* A row whose volume is the usual one of its fate, and a variation.
Line(o, k, t, f) ==
  [origin |-> o, key |-> k, time |-> t, fate |-> f,
   volume |-> IF f = "unencodable" THEN "long" ELSE "small", barred |-> {}]
Volume(r, v)     == [r EXCEPT !.volume = v]
Barred(r, who)   == [r EXCEPT !.barred = {who}]
Good(n, rows)    == [name |-> n, readable |-> TRUE, rows |-> rows]
Bad(n)           == [name |-> n, readable |-> FALSE, rows |-> <<>>]

\* Every file of two rows, with any fates, ...
AnyFile == {<<Good(1, <<Line(1, k1, 1, f), Line(2, k1, 2, g)>>)>> : f, g \in Fates}

\* ... and two drops: of the same name or not, the same file again, with an
\* unreadable or an empty one, with a failing one first; or a file of two days.
TwoDrops ==
  {<<Good(1, <<Line(1, k1, 2, "ok")>>), Good(n, <<Line(2, k1, 1, "ok")>>)>> : n \in 1 .. 2}
  \cup {<<Bad(1), Good(n, <<Line(1, k1, 1, "untimed")>>)>> : n \in 1 .. 2}
  \cup {<<Good(2, <<Line(1, k1, 1, "ok")>>), Good(1, <<Line(1, k1, 1, "ok")>>)>>,
        <<Good(1, <<>>), Bad(1)>>,
        <<Good(1, <<Line(1, k1, 1, "unstorable")>>), Good(2, <<Line(2, k2, 1, "rejected")>>)>>,
        <<Good(1, <<Line(1, k1, 1, "ok"), Line(2, k2, 1, "ok")>>)>>}

\* A wide volume beside a missing one; a refusal that cannot be recorded.
Hampered ==
  {<<Good(1, <<Line(1, k1, 1, "unencodable"), Volume(Line(2, k1, 2, "rejected"), "none")>>)>>,
   <<Good(1, <<Barred(Line(1, k1, 1, "rejected"), "server"), Line(2, k1, 2, "ok")>>)>>}

SomeDrops == AnyFile \cup TwoDrops \cup Hampered

\* Readable files under names of their own; the first of them may be spoilt, by
\* a row that leaves the transaction usable or one that does not.
BenignDrops ==
  {<<Good(1, <<Line(1, k1, 1, "ok"), r>>), Good(2, <<Line(3, k1, 3, "ok")>>)>> :
     r \in {Line(2, k1, 2, f) : f \in {"uncastable", "untimed", "unstorable", "unencodable"}}
           \cup {Barred(Line(2, k1, 2, "rejected"), "server"),
                 Barred(Line(2, k1, 2, "rejected"), "producer")}}
  \cup
  {<<Good(1, <<Line(1, k1, 1, "unencodable"), Volume(Line(2, k2, 2, "rejected"), "none")>>)>>}
  \cup
  {<<Good(2, <<Line(1, k1, 1, f), Line(2, k2, 2, g)>>), Good(1, <<Line(3, k1, 3, h)>>)>> :
     f, g, h \in {"ok", "rejected", "unparsable"}}

=============================================================================
