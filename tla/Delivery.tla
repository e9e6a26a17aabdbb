------------------------------ MODULE Delivery ------------------------------
(***************************************************************************)
(* What the consumer promises of a topic, whatever happens in between:     *)
(* every message is dealt with, in any order and for good, before it is    *)
(* acknowledged, and acknowledgements never go back.                       *)
(***************************************************************************)
EXTENDS Naturals

VARIABLES
  size,    \* number of messages on the topic
  dealt,   \* the messages nothing is left to do for
  acked    \* messages 1 .. acked are acknowledged

vars == <<size, dealt, acked>>

Init ==
  /\ size \in Nat
  /\ dealt \in SUBSET (1 .. size)
  /\ acked = 0

\* Some messages are stored, refused or given up.
Deal ==
  /\ \E S \in SUBSET (1 .. size) : dealt' = dealt \cup S
  /\ UNCHANGED <<size, acked>>

\* A prefix of the topic that is dealt with is acknowledged.
Acknowledge ==
  /\ \E n \in acked + 1 .. size : 1 .. n \subseteq dealt /\ acked' = n
  /\ UNCHANGED <<size, dealt>>

Next == Deal \/ Acknowledge

Spec == Init /\ [][Next]_vars

=============================================================================
