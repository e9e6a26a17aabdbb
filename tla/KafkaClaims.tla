---------------------------- MODULE KafkaClaims ----------------------------
(***************************************************************************)
(* What docstrings and the README say of the Kafka pipeline and the code   *)
(* does not keep.  TLC finds a counterexample to each on the topics named  *)
(* here; no theorem uses this module.                                      *)
(***************************************************************************)
EXTENDS KafkaMode

(***************************************************************************)
(* client.py:50 "Commits offset only after the caller has successfully     *)
(* processed the batch."  The loop body swallows the exception, so the     *)
(* generator resumes and commits after a failed batch just the same.       *)
(***************************************************************************)
CommitsOnlyProcessed == \A o \in 1 .. committed : Settled(o)

(***************************************************************************)
(* README.md:228 "`daily_summaries` | OHLCV aggregates per (symbol,        *)
(* market, date)".  Between batches the summary of a day would be computed *)
(* from all stored records of the day; it is from the last batch alone.    *)
(***************************************************************************)
SummaryCoversDay ==
  pc = "poll" =>
    \A e \in EventIds : market[e] # NoRow =>
      \E t \in summaries[market[e].key].trades : t[2] = market[e].origin

(***************************************************************************)
(* client.py:77 "Failed records that cannot be processed are sent here for *)
(* inspection."  What is sent is the last event of the batch with the id   *)
(* of the failed one, which may be another, and a good one.                *)
(***************************************************************************)
DeadLettersAreRefused == \A x \in dlt : x.payload = x.origin

(***************************************************************************)
(* orchestrator.py:111 "Continuously consumes from Kafka and processes     *)
(* batches."  With a producer class that does not know retries (aiokafka   *)
(* 0.11.0, which requirements.txt:19 pins, has no such parameter) the task *)
(* ends before its first poll, with every service answering.               *)
(***************************************************************************)
TaskRuns == pc # "dead"

=============================================================================
