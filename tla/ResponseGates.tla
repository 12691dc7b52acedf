--------------------------- MODULE ResponseGates ---------------------------
(***************************************************************************)
(* api/protocol.py, verify_response: the gates that change nothing, on a   *)
(* response reduced to its shape and to what they compare.  How the lines  *)
(* of a packet get their shape is the subject of Wire.                     *)
(***************************************************************************)
EXTENDS Integers

CONSTANT NaN  \* a CONFIDENCE that is no number

\* Shapes that the gates refuse: a text that is too large or no text, no
\* header, RECEIVED_HASH not first or not alone, a field that does not parse,
\* occurs twice, is unknown or is missing.
Refused == {"undecodable", "header", "received_first", "body"}

\* Shapes over which a gate dies of another exception than IntegrityError: a
\* text that has no UTF-8 form, and a hash that is not ASCII, which
\* compare_digest does not accept.
Fatal == {"unencodable", "received_not_ascii", "ack_not_ascii"}

Forms == Refused \cup Fatal \cup {"well_formed"}

\* What a serialized vector can name: actions of ACTION_WHITELIST, others, and
\* words that the search for actions misses, because they do not follow ACTION
\* and a colon or an equals sign, or are in lower case.
Named == {"whitelisted", "unlisted", "unlabelled"}

\* _action_tokens sees labelled actions only.
ActionTokens(vector) == vector \ {"unlabelled"}

ConfidenceInRange(c) == c # NaN /\ 0 <= c /\ c <= 10

EarlyGateMutant(r, request) ==  \* the acknowledgement is not compared
  IF r.received # request THEN "hash"
  ELSE IF r.form # "well_formed" THEN r.form
  ELSE "replay"

\* The gates before the replay gate, which "replay" lets the response reach.
\* Nothing after the hash comparison is read unless it succeeds.
EarlyGate(r, request) ==
  IF r.form \in Forms \ {"body", "ack_not_ascii", "well_formed"} THEN r.form
  ELSE IF r.received # request THEN "hash"
  ELSE IF r.form # "well_formed" THEN r.form
  ELSE IF r.ack # request THEN "ack"
  ELSE "replay"

\* The gates after it.
LateGate(r) ==
  IF ~ ConfidenceInRange(r.confidence) THEN "confidence"
  ELSE IF ActionTokens(r.vector) \ {"whitelisted"} # {} THEN "whitelist"
  ELSE "passed"
=============================================================================
