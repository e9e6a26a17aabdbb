------------------------------- MODULE Fates -------------------------------
(***************************************************************************)
(* What the contents of a batch decide about its way through the stages.   *)
(*                                                                         *)
(* What the fields of a record contain is abstracted to the record's fate, *)
(* the first thing in the code that does not take the record:              *)
(*   "ok"          every stage takes it and it is stored                   *)
(*   "unparsable"  RawMarketEvent refuses it (timestamp null, not a dict): *)
(*                 parse_raw_event returns None and it is counted only     *)
(*   "uncastable"  parse_int raises OverflowError (volume "inf", "1e400"), *)
(*                 which clean_batch does not catch                        *)
(*   "rejected"    CleanMarketRecord refuses it (price, volume, currency)  *)
(*   "untimed"     no timestamp format fits: datetime.min or NaT passes    *)
(*                 validation and normalize_batch raises, as it does on    *)
(*                 an amount beyond a double                               *)
(*   "unstorable"  the server refuses the value (String(20) symbol,        *)
(*                 Numeric(19,6) price): the transaction is aborted        *)
(*   "unencodable" the driver refuses the value (volume over 64 bits)      *)
(*                 before it is sent: the transaction stays usable         *)
(* and to two things more, which bear on its neighbours.  What parse_int   *)
(* makes of its volume: nothing, a negative, a number of 63 bits, one of   *)
(* 64 ("long") or one no 64-bit integer holds.  And who does not take the  *)
(* record of a refusal with its payload and names: the producer (a dead    *)
(* letter over max_request_size) or the server (a NaN or a NUL in a JSONB  *)
(* column, an event_id over 100 characters, a source over 50).             *)
(*                                                                         *)
(* Transform computes all three from the fields.                           *)
(***************************************************************************)
EXTENDS Naturals, FiniteSets

Fates == {"ok", "unparsable", "uncastable", "rejected", "untimed",
          "unstorable", "unencodable"}

Volumes == {"none", "negative", "small", "long", "enormous"}
Wide    == {"long", "enormous"}

Savers == {"producer", "server"}

\* Past the cleaner there is a volume, and only the driver minds a wide one.
Coherent(m) ==
  /\ m.fate \in {"ok", "unstorable"} => m.volume = "small"
  /\ m.fate = "unencodable" => m.volume \in Wide
  /\ m.fate = "untimed" => m.volume \notin {"none", "negative"}

VARIABLE
  batch        \* the messages, by position

WithFate(F) == {i \in DOMAIN batch : batch[i].fate \in F}

Parsed == DOMAIN batch \ WithFate({"unparsable"})

(***************************************************************************)
(* The column of parsed volumes.  It becomes one of floats if a volume is  *)
(* missing, unless the integers before it have settled that it stays one   *)
(* of objects: no 64-bit type holds them all.                              *)
(***************************************************************************)
Mixed(S) ==
  \/ \E i \in S : batch[i].volume = "enormous"
  \/ \E i, j \in S : batch[i].volume = "long" /\ batch[j].volume = "negative"

Floats == \E i \in Parsed : batch[i].volume = "none" /\ ~ Mixed({j \in Parsed : j < i})

\* What clean_batch returns when it does not raise: of a float, the model
\* CleanMarketRecord takes no integer over 63 bits.
Invalid == {i \in Parsed : \/ batch[i].fate = "rejected"
                           \/ Floats /\ batch[i].volume \in Wide}
Valid   == WithFate({"ok", "untimed", "unstorable", "unencodable"}) \ Invalid

\* events_by_id keeps the last event of the batch with an id.
LastWithId(i) ==
  CHOOSE j \in Parsed : /\ batch[j].event_id = batch[i].event_id
                        /\ \A k \in Parsed :
                             batch[k].event_id = batch[i].event_id => k <= j

\* The refusals saver does not take, written as they are with that event.
Unsavable(saver) == {i \in Invalid : saver \in batch[LastWithId(i)].barred}

=============================================================================
