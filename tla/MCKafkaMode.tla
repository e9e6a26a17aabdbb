---------------------------- MODULE MCKafkaMode ----------------------------
(***************************************************************************)
(* Small instances of KafkaMode: two event ids, two days, short topics.    *)
(***************************************************************************)
EXTENDS KafkaClaims

CONSTANTS e1, e2, k1, k2

\* A message whose volume is the usual one of its fate, and a variation.
Entry(e, k, t, f) ==
  [event_id |-> e, key |-> k, time |-> t, fate |-> f,
   volume |-> IF f = "unencodable" THEN "long" ELSE "small", barred |-> {}]
Volume(m, v)   == [m EXCEPT !.volume = v]
Barred(m, who) == [m EXCEPT !.barred = {who}]

\* Every topic of two messages of one day with any fates, those of one id
\* where records or refusals of it can meet, ...
AnyPair ==
  {<<Entry(e1, k1, 1, f), Entry(e2, k1, 2, g)>> :
     f \in Fates \cup {"undecodable"}, g \in Fates \cup {"undecodable"}}
  \cup {<<Entry(e1, k1, 1, f), Entry(e1, k1, 2, g)>> :
           f \in {"ok", "rejected", "unstorable"}, g \in {"ok", "rejected", "unstorable"}}

\* ... and longer ones where ids collide across batches, a day is opened by
\* one batch and rewritten by the next, and a bad record has good neighbours.
Longer ==
  {<<Entry(e1, k1, 2, "ok"), Entry(e2, k1, 1, "ok"), Entry(e1, k2, 3, "ok")>>,
   <<Entry(e1, k1, 1, "rejected"), Entry(e1, k1, 2, "ok"), Entry(e2, k2, 1, "ok")>>,
   <<Entry(e1, k1, 1, "ok"), Entry(e1, k1, 1, "rejected"), Entry(e2, k1, 1, "untimed")>>}

\* A wide volume beside a missing one, and after a negative one that keeps the
\* column from becoming one of floats; refusals that cannot be recorded.
Hampered ==
  {<<Entry(e1, k1, 1, "unencodable"), Volume(Entry(e2, k1, 2, "rejected"), v)>> :
     v \in {"none", "negative"}}
  \cup {<<Entry(e1, k1, 1, "ok"), Barred(Entry(e2, k1, 2, "rejected"), who)>> : who \in Savers}

Topics == AnyPair \cup Longer \cup Hampered

\* Messages the stages are made to deal with, and some with one they are not:
\* its neighbours fail with it, or two of them settle each other.
Messages3 ==
  {<<Entry(e1, k1, 1, f), Entry(e, k1, 2, g), Entry(e2, k2, 3, "ok")>> :
     e \in {e1, e2}, f \in {"ok", "rejected", "unparsable"},
     g \in {"ok", "rejected", "unparsable"}}
Spoilt ==
  {<<m, Entry(e1, k1, 2, "ok"), Entry(e2, k2, 3, "ok"), Entry(e1, k2, 4, "ok")>> :
     m \in {Entry(e1, k1, 1, f) : f \in {"uncastable", "untimed", "unstorable"}}
           \cup {Barred(Entry(e2, k1, 1, "rejected"), who) : who \in Savers}}
  \cup {<<Entry(e1, k1, 1, "ok"), Entry(e1, k1, 2, "unencodable"),
          Volume(Entry(e2, k2, 3, "rejected"), "none")>>}
BenignTopics == Messages3 \cup Spoilt

\* One topic for each claim of KafkaClaims.
TwoGood  == {<<Entry(e1, k1, 1, "ok"), Entry(e2, k1, 2, "ok")>>}
Untimed  == {<<Entry(e1, k1, 1, "ok"), Entry(e2, k1, 2, "untimed")>>}
SharedId == {<<Entry(e1, k1, 1, "rejected"), Entry(e1, k1, 2, "ok")>>}

=============================================================================
