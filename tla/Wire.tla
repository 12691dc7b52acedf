-------------------------------- MODULE Wire --------------------------------
(***************************************************************************)
(* api/protocol.py: how verify_response reads the lines of a response, up  *)
(* to the replay gate.  One action is one step of its order; the loop over *)
(* the fields takes a line at a time.                                      *)
(*                                                                         *)
(* The response is an honest answer to a request in which the other side   *)
(* has changed some lines.  A line is what the parser tells apart: whether *)
(* it has a colon, its name and whether spaces surround that, its value.   *)
(***************************************************************************)
EXTENDS ResponseGates, Sequences, SequencesExt

CONSTANTS PayloadHash, RequestHash,  \* of the request that was sent
          Empty,     \* the empty value
          NotAscii,  \* a hash with other characters, such as a dotted one
          Other,     \* any other value
          MaxEdits   \* bound on the changes of a response

ASSUME WireConstants == MaxEdits \in Nat

VARIABLES raw,       \* the response: its lines, and whether it is readable text
          edits,     \* changes made so far
          step,      \* the next step of verify_response
          received,  \* what stands in RECEIVED_HASH
          cursor,    \* the line that the loop reads next
          fields,    \* the fields that it has read
          verdict    \* as in ResponseVerifier; "replay" where that gate follows

reading == <<received, cursor, fields>>
vars == <<raw, edits, step, reading, verdict>>

\* CANONICAL_FIELD_ORDER; the parser asks only whether a field is in it.
KnownFields ==
  {"PAYLOAD_HASH", "RECEIVED_HASH", "REQUEST_HASH", "REQUEST_HASH_ACK",
   "SESSION_ID", "NONCE", "BASE", "SEQ", "TYPE", "MAG", "DIV", "SCALE", "DRAIN",
   "CONFIDENCE", "ACTION_VECTOR", "VERIFY_CONDITION", "FAIL_CONDITION", "FALLBACK",
   "SC", "KI", "FC"}

MandatoryResponseFields ==
  {"RECEIVED_HASH", "REQUEST_HASH_ACK", "SESSION_ID", "NONCE", "BASE", "SEQ", "CONFIDENCE"}

\* The header, a blank line and two other things that a line may begin with.
Names == KnownFields \cup {"ZKDP/1.0", "", "prose", "Thought"}

Values == {PayloadHash, RequestHash, Empty, NotAscii, Other}

Plain(name) == [colon |-> FALSE, name |-> name, spaces |-> FALSE, value |-> Empty]
Field(name, value) == [colon |-> TRUE, name |-> name, spaces |-> FALSE, value |-> value]

Header == Plain("ZKDP/1.0")
Blank == Plain("")

-----------------------------------------------------------------------------
(* External: the other side *)

Honest ==
  <<Header, Field("RECEIVED_HASH", PayloadHash), Field("REQUEST_HASH_ACK", RequestHash),
    Field("SESSION_ID", Other), Field("NONCE", Other), Field("BASE", Other),
    Field("SEQ", Other), Field("CONFIDENCE", Other)>>

Inserted ==
  {Blank, Plain("prose"), Field("Thought", Other), Field("NONCE", Empty),
   Field("RECEIVED_HASH", PayloadHash), Plain("RECEIVED_HASH")}

Changed(line) ==
  {[line EXCEPT !.spaces = TRUE], [line EXCEPT !.colon = FALSE, !.value = Empty]}
    \cup {[line EXCEPT !.value = v] : v \in IF line.colon THEN Values ELSE {}}

Edit ==
  /\ step = "decode" /\ edits < MaxEdits
  /\ edits' = edits + 1
  /\ \/ \E form \in {"huge", "no_utf8"} : raw' = [raw EXCEPT !.form = form]
     \/ \E i \in DOMAIN raw.lines : raw' = [raw EXCEPT !.lines = RemoveAt(@, i)]
     \/ \E i \in DOMAIN raw.lines, line \in Inserted :
          raw' = [raw EXCEPT !.lines = InsertAt(@, i, line)]
     \/ \E i \in DOMAIN raw.lines : \E line \in Changed(raw.lines[i]) :
          raw' = [raw EXCEPT !.lines[i] = line]
  /\ UNCHANGED <<step, reading, verdict>>

-----------------------------------------------------------------------------
(* The steps *)

Init ==
  /\ raw = [form |-> "text", lines |-> Honest] /\ edits = 0
  /\ step = "decode"
  /\ received = Empty /\ cursor = 2 /\ fields = <<>>
  /\ verdict = "none"

\* A gate refuses the response, or lets it through to the next step.
Gate(here, refusal, next) ==
  /\ step = here
  /\ \/ refusal = "none" /\ step' = next /\ UNCHANGED verdict
     \/ refusal # "none" /\ step' = "done" /\ verdict' = refusal
  /\ UNCHANGED <<raw, edits>>

DecodeAndBound ==
  /\ Gate("decode",
          IF raw.form = "no_utf8" THEN "unencodable"
          ELSE IF raw.form = "huge" THEN "undecodable" ELSE "none",
          "header")
  /\ UNCHANGED reading

ParseHeader ==
  /\ Gate("header", IF raw.lines # <<>> /\ raw.lines[1] = Header THEN "none" ELSE "header",
          "received")
  /\ UNCHANGED reading

\* partition: what follows the colon, nothing if there is none.
ValueOf(line) == IF line.colon THEN line.value ELSE Empty

ReceivedFoundMutant(lines) ==  \* names are compared as they stand
  /\ Len(lines) >= 2
  /\ lines[2].name = "RECEIVED_HASH" /\ ~ lines[2].spaces
  /\ \A i \in 3..Len(lines) : lines[i].name = "RECEIVED_HASH" => lines[i].spaces
  /\ ValueOf(lines[2]) # Empty

\* A line that is nothing but RECEIVED_HASH counts as one, with or without colon.
ReceivedFound(lines) ==
  /\ Len(lines) >= 2
  /\ lines[2].name = "RECEIVED_HASH"
  /\ \A i \in 3..Len(lines) : lines[i].name # "RECEIVED_HASH"
  /\ ValueOf(lines[2]) # Empty

ExtractReceivedHash ==
  /\ Gate("received", IF ReceivedFound(raw.lines) THEN "none" ELSE "received_first", "equality")
  /\ received' = IF ReceivedFound(raw.lines) THEN ValueOf(raw.lines[2]) ELSE received
  /\ UNCHANGED <<cursor, fields>>

\* verify_response_hash_equals and verify_request_ack.
Compare(value, sent, refusal, fatal) ==
  IF value = NotAscii THEN fatal ELSE IF value = sent THEN "none" ELSE refusal

VerifyHashMutant ==  \* the comparison waits until the fields are read
  /\ Gate("equality", "none", "body")
  /\ UNCHANGED reading

VerifyHash ==
  /\ Gate("equality", Compare(received, PayloadHash, "hash", "received_not_ascii"), "body")
  /\ UNCHANGED reading

OverwritingMutant(line) ==  \* the last of two fields counts
  line # Blank /\ (~ line.colon \/ line.name \notin KnownFields)

UnknownMutant(line) ==  \* unknown fields are kept
  line # Blank /\ (~ line.colon \/ line.name \in DOMAIN fields)

Malformed(line) ==
  /\ line # Blank
  /\ ~ line.colon \/ line.name \in DOMAIN fields \/ line.name \notin KnownFields

\* One round of the loop of _parse_body.
ParseField ==
  /\ cursor <= Len(raw.lines)
  /\ LET line == raw.lines[cursor]
     IN  /\ Gate("body", IF Malformed(line) THEN "body" ELSE "none", "body")
         /\ fields' = IF line = Blank \/ Malformed(line) THEN fields
                      ELSE [name \in DOMAIN fields \cup {line.name} |->
                              IF name = line.name THEN line.value ELSE fields[name]]
  /\ cursor' = cursor + 1
  /\ UNCHANGED received

ParseMandatory ==
  /\ cursor > Len(raw.lines)
  /\ Gate("body", IF MandatoryResponseFields \subseteq DOMAIN fields THEN "none" ELSE "body",
          "ack")
  /\ UNCHANGED reading

VerifyAck ==
  /\ step = "ack"
  /\ LET refusal == Compare(fields["REQUEST_HASH_ACK"], RequestHash, "ack", "ack_not_ascii")
     IN  verdict' = IF refusal = "none" THEN "replay" ELSE refusal
  /\ step' = "done"
  /\ UNCHANGED <<raw, edits, reading>>

Next ==
  \/ Edit \/ DecodeAndBound \/ ParseHeader \/ ExtractReceivedHash \/ VerifyHash
  \/ ParseField \/ ParseMandatory \/ VerifyAck

Spec == Init /\ [][Next]_vars

-----------------------------------------------------------------------------
(* Properties *)

TypeOK ==
  /\ raw.form \in {"text", "huge", "no_utf8"}
  /\ \A i \in DOMAIN raw.lines :
       raw.lines[i] \in [colon : BOOLEAN, name : Names, spaces : BOOLEAN, value : Values]
  /\ edits \in 0..MaxEdits
  /\ step \in {"decode", "header", "received", "equality", "body", "ack", "done"}
  /\ received \in Values /\ cursor \in {2} \cup 2..(Len(raw.lines) + 1)
  /\ DOMAIN fields \subseteq KnownFields
  /\ verdict \in (Forms \ {"well_formed"}) \cup {"none", "hash", "ack", "replay"}

\* What a text is, for ResponseVerifier, which has no lines.
BodyWellFormed(lines) ==
  LET body == {i \in 2..Len(lines) : lines[i] # Blank}
  IN  /\ \A i \in body : lines[i].colon /\ lines[i].name \in KnownFields
      /\ \A i, j \in body : lines[i].name = lines[j].name => i = j
      /\ \A name \in MandatoryResponseFields : \E i \in body : lines[i].name = name

Form(lines) ==
  CASE raw.form = "no_utf8" -> "unencodable"
    [] raw.form = "huge" -> "undecodable"
    [] raw.form = "text" ->
         IF lines = <<>> \/ lines[1] # Header THEN "header"
         ELSE IF \/ {i \in 2..Len(lines) : lines[i].name = "RECEIVED_HASH"} # {2}
                 \/ ~ lines[2].colon \/ lines[2].value = Empty THEN "received_first"
         ELSE IF lines[2].value = NotAscii THEN "received_not_ascii"
         ELSE IF ~ BodyWellFormed(lines) THEN "body"
         ELSE IF \E i \in DOMAIN lines : /\ lines[i].name = "REQUEST_HASH_ACK"
                                        /\ lines[i].value = NotAscii
                THEN "ack_not_ascii"
         ELSE "well_formed"

\* The value in the first line with this name.
ValueIn(lines, name) ==
  LET found == {i \in DOMAIN lines : lines[i].name = name}
  IN  IF found = {} THEN Empty
      ELSE ValueOf(lines[CHOOSE i \in found : \A j \in found : i <= j])

\* Whatever the other side does to the lines of an answer, the reader comes to
\* the verdict that ResponseVerifier gives on the shape of the text: the order
\* of the steps, and the two looks that it takes at the names, agree.
GatesAgree ==
  step = "done" =>
    verdict = EarlyGate(
      [form     |-> Form(raw.lines),
       received |-> ValueIn(raw.lines, "RECEIVED_HASH") = PayloadHash,
       ack      |-> ValueIn(raw.lines, "REQUEST_HASH_ACK") = RequestHash], TRUE)

\* A text that reaches the replay gate has no second reading: every field that
\* comes out is in one line only, also under a name with spaces, and the hash
\* among them is the one that was compared.
OneReading ==
  verdict = "replay" =>
    /\ \A name \in DOMAIN fields :
         \E i \in DOMAIN raw.lines :
           /\ {j \in DOMAIN raw.lines : raw.lines[j].name = name} = {i}
           /\ raw.lines[i].value = fields[name]
    /\ fields["RECEIVED_HASH"] = received /\ received = PayloadHash

\* No field is read, let alone returned, unless the text answers this request.
ReadOnlyProven == fields # <<>> => received = PayloadHash
=============================================================================
