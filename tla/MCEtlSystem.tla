---------------------------- MODULE MCEtlSystem ----------------------------
(***************************************************************************)
(* Small instances of EtlSystem: a topic of two messages and one file of   *)
(* two rows, on the same two days, which come in either order.             *)
(***************************************************************************)
EXTENDS EtlSystem

CONSTANTS e1, e2, u1, u2, u3

Entry(e, k, t, f) == [event_id |-> e, key |-> k, time |-> t, fate |-> f,
                      volume |-> "small", barred |-> {}]
Line(o, k, t, f)  == [origin |-> o, key |-> k, time |-> t, fate |-> f,
                      volume |-> "small", barred |-> {}]
Good(n, rows)     == [name |-> n, readable |-> TRUE, rows |-> rows]

\* The later day comes first.
TwoDays == {<<Entry(e1, 2, 1, "ok"), Entry(e2, 1, 2, "ok")>>}

\* A file of the same days.
OneFile == {<<Good(1, <<Line(11, 2, 1, "ok"), Line(12, 1, 2, "ok")>>)>>}

\* Bound: run ids given out; a replayed batch and a file taken up again fit.
FewRuns == Len(runs) <= 4

\* For liveness: one day, written by both; the consumer drains the topic, or
\* its task dies before or after a batch.
OneDay ==
  {<<Entry(e1, 1, 1, "ok")>>, <<Entry(e1, 1, 1, "undecodable")>>,
   <<Entry(e1, 1, 1, "ok"), Entry(e2, 1, 2, "undecodable")>>}
SmallFile == {<<Good(1, <<Line(11, 1, 1, f)>>)>> : f \in {"ok", "unstorable"}}

\* For the readers: a run with a refusal beside one with none, a page or more
\* of them, one that fails after saving them and one that cannot save them; the
\* last of three trades (origin 13) is an outlier.
MixedTopic == {<<Entry(e1, 1, 1, "ok"), Entry(e2, 1, 2, "rejected")>>}
Refused(o) == Line(o, 1, 1, "rejected")
MixedFile  ==
  {<<Good(1, <<Refused(11), Line(12, 2, 2, "ok")>>)>>,
   <<Good(1, [i \in 1 .. 3 |-> Line(10 + i, 2, i, "ok")])>>,
   <<Good(1, <<Refused(11), Line(12, 2, 2, "untimed")>>)>>,
   <<Good(1, <<Refused(11), Refused(12)>>)>>,
   <<Good(1, <<Refused(11), Refused(12), Refused(13)>>)>>}

=============================================================================
