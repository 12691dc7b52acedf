----------------------------- MODULE WireProofs -----------------------------
(***************************************************************************)
(* Proofs about Wire, for any number of changes of a response: the reader  *)
(* comes to one verdict on every text, that of the gates of ResponseGates  *)
(* on its shape.  Verdict says that without the order of the steps.        *)
(***************************************************************************)
EXTENDS Wire, SequenceTheorems, TLAPS

Packet == [colon : BOOLEAN, name : Names, spaces : BOOLEAN, value : Values]

AckOf(lines) == CHOOSE i \in DOMAIN lines : lines[i].name = "REQUEST_HASH_ACK"

\* What the reader has to say of a text.
Verdict(r) ==
  LET lines == r.lines
  IN  IF r.form = "no_utf8" THEN "unencodable"
      ELSE IF r.form = "huge" THEN "undecodable"
      ELSE IF lines = <<>> \/ lines[1] # Header THEN "header"
      ELSE IF ~ ReceivedFound(lines) THEN "received_first"
      ELSE IF ValueOf(lines[2]) = NotAscii THEN "received_not_ascii"
      ELSE IF ValueOf(lines[2]) # PayloadHash THEN "hash"
      ELSE IF ~ BodyWellFormed(lines) THEN "body"
      ELSE Compare(lines[AckOf(lines)].value, RequestHash, "ack", "ack_not_ascii")

FinalVerdict(r) == IF Verdict(r) = "none" THEN "replay" ELSE Verdict(r)

-----------------------------------------------------------------------------
(* The inductive invariant *)

Types ==
  /\ raw.form \in {"text", "huge", "no_utf8"} /\ raw.lines \in Seq(Packet)
  /\ raw = [form |-> raw.form, lines |-> raw.lines]
  /\ edits \in 0..MaxEdits
  /\ step \in {"decode", "header", "received", "equality", "body", "ack", "done"}
  /\ received \in Values /\ cursor \in {2} \cup 2..(Len(raw.lines) + 1)
  /\ DOMAIN fields \subseteq KnownFields
  /\ verdict \in (Forms \ {"well_formed"}) \cup {"none", "hash", "ack", "replay"}

\* What each step has found out of the text when the next one begins.
Readable == step \in {"header", "received", "equality", "body", "ack"} => raw.form = "text"

HeaderRead ==
  step \in {"received", "equality", "body", "ack"} =>
    raw.lines # <<>> /\ raw.lines[1] = Header

HashRead ==
  step \in {"equality", "body", "ack"} =>
    ReceivedFound(raw.lines) /\ received = ValueOf(raw.lines[2])

HashProven ==
  step \in {"body", "ack"} => received = PayloadHash /\ received # NotAscii

\* No field is read before that.
Unread ==
  step \in {"decode", "header", "received", "equality"} => cursor = 2 /\ fields = <<>>

Past == {i \in 2..(cursor - 1) : raw.lines[i] # Blank}

\* The fields are those of the lines behind the cursor, one line for each.
Parsed ==
  step \in {"body", "ack"} =>
    /\ cursor \in 2..(Len(raw.lines) + 1)
    /\ \A i \in Past : raw.lines[i].colon /\ raw.lines[i].name \in KnownFields
    /\ \A i, j \in Past : raw.lines[i].name = raw.lines[j].name => i = j
    /\ DOMAIN fields = {raw.lines[i].name : i \in Past}
    /\ \A i \in Past : fields[raw.lines[i].name] = raw.lines[i].value

AllParsed ==
  step = "ack" =>
    cursor = Len(raw.lines) + 1 /\ MandatoryResponseFields \subseteq DOMAIN fields

Decided ==
  IF step = "done" THEN verdict = FinalVerdict(raw) ELSE verdict = "none"

IInv ==
  /\ Types /\ Readable /\ HeaderRead /\ HashRead /\ HashProven
  /\ Unread /\ Parsed /\ AllParsed /\ Decided
  /\ OneReading /\ ReadOnlyProven

-----------------------------------------------------------------------------
(* The text *)

LEMMA LineTypes ==
  /\ Header \in Packet /\ Blank \in Packet /\ Inserted \subseteq Packet
  /\ Honest \in Seq(Packet) /\ Len(Honest) = 8
  /\ \A line \in Packet : Changed(line) \subseteq Packet
<1>0. /\ {"ZKDP/1.0", "", "prose", "Thought", "RECEIVED_HASH", "REQUEST_HASH_ACK", "SESSION_ID"}
           \subseteq Names
      /\ {"NONCE", "BASE", "SEQ", "CONFIDENCE"} \subseteq Names
  BY DEF Names, KnownFields
<1>1. /\ \A name \in Names, v \in Values : Field(name, v) \in Packet
      /\ \A name \in Names : Plain(name) \in Packet
  BY DEF Plain, Field, Packet, Values
<1> HIDE DEF Packet
<1>2. Header \in Packet /\ Blank \in Packet
  BY <1>0, <1>1 DEF Header, Blank
<1>3. Inserted \subseteq Packet
  BY <1>0, <1>1, <1>2 DEF Inserted, Values
<1>4. Honest \in Seq(Packet) /\ Len(Honest) = 8
  <2> DEFINE F(name, v) == Field(name, v)
  <2>1. /\ F("RECEIVED_HASH", PayloadHash) \in Packet
        /\ F("REQUEST_HASH_ACK", RequestHash) \in Packet
        /\ F("SESSION_ID", Other) \in Packet /\ F("NONCE", Other) \in Packet
        /\ F("BASE", Other) \in Packet /\ F("SEQ", Other) \in Packet
        /\ F("CONFIDENCE", Other) \in Packet
    BY <1>0, <1>1 DEF Values
  <2> HIDE DEF F
  <2>2. Honest = <<Header, F("RECEIVED_HASH", PayloadHash), F("REQUEST_HASH_ACK", RequestHash),
                   F("SESSION_ID", Other), F("NONCE", Other), F("BASE", Other),
                   F("SEQ", Other), F("CONFIDENCE", Other)>>
    BY Zenon DEF Honest, F
  <2> QED
    BY <1>2, <2>1, <2>2
<1>5. ASSUME NEW line \in Packet PROVE Changed(line) \subseteq Packet
  <2>1. \A v \in Values : [line EXCEPT !.value = v] \in Packet
    BY DEF Packet
  <2>2. [line EXCEPT !.spaces = TRUE] \in Packet
    BY DEF Packet
  <2>3. [line EXCEPT !.colon = FALSE, !.value = Empty] \in Packet
    BY DEF Packet, Values
  <2>4. \A v \in IF line.colon THEN Values ELSE {} : v \in Values
    OBVIOUS
  <2> QED
    BY <2>1, <2>2, <2>3, <2>4 DEF Changed
<1> QED
  BY <1>2, <1>3, <1>4, <1>5

\* A change of a text is a text.
LEMMA Edited ==
  ASSUME NEW s \in Seq(Packet), NEW i \in DOMAIN s, NEW line \in Packet
  PROVE  /\ RemoveAt(s, i) \in Seq(Packet)
         /\ InsertAt(s, i, line) \in Seq(Packet)
         /\ [s EXCEPT ![i] = line] \in Seq(Packet)
<1>1. i \in 1..Len(s) /\ Len(s) \in Nat
  OBVIOUS
<1>2. SubSeq(s, 1, i - 1) \in Seq(Packet) /\ SubSeq(s, i + 1, Len(s)) \in Seq(Packet)
      /\ SubSeq(s, i, Len(s)) \in Seq(Packet)
  BY <1>1, SubSeqProperties
<1>3. <<line>> \in Seq(Packet)
  OBVIOUS
<1>4. RemoveAt(s, i) \in Seq(Packet)
  BY <1>2, ConcatProperties DEF RemoveAt
<1>5. InsertAt(s, i, line) \in Seq(Packet)
  BY <1>2, <1>3, ConcatProperties DEF InsertAt
<1>6. [s EXCEPT ![i] = line] \in Seq(Packet)
  BY <1>1
<1> QED
  BY <1>4, <1>5, <1>6

\* The names of fields are not those of the header and of blank lines.
LEMMA NameFacts ==
  /\ "ZKDP/1.0" \notin KnownFields /\ "" \notin KnownFields
  /\ MandatoryResponseFields \subseteq KnownFields
  /\ "REQUEST_HASH_ACK" \in MandatoryResponseFields
  /\ "RECEIVED_HASH" \in MandatoryResponseFields
  /\ Header.name = "ZKDP/1.0" /\ Blank.name = ""
<1>1. "ZKDP/1.0" \notin KnownFields /\ "" \notin KnownFields
  BY DEF KnownFields
<1>2. MandatoryResponseFields \subseteq KnownFields
  BY DEF KnownFields, MandatoryResponseFields
<1>3. /\ "REQUEST_HASH_ACK" \in MandatoryResponseFields
      /\ "RECEIVED_HASH" \in MandatoryResponseFields
  BY DEF MandatoryResponseFields
<1>4. Header.name = "ZKDP/1.0" /\ Blank.name = ""
  BY DEF Header, Blank, Plain
<1> QED
  BY <1>1, <1>2, <1>3, <1>4

LEMMA Unknowns == {"none", "hash", "ack", "replay"} \cap Forms = {}
BY DEF Forms, Refused, Fatal

\* A well-formed body behind a header has one line for every mandatory field.
LEMMA OneLine ==
  ASSUME NEW lines \in Seq(Packet), lines # <<>>, lines[1] = Header, BodyWellFormed(lines),
         NEW name \in MandatoryResponseFields
  PROVE  \E i \in 2..Len(lines) :
           /\ {j \in DOMAIN lines : lines[j].name = name} = {i}
           /\ lines[i].colon /\ lines[i] # Blank
<1>1. PICK i \in 2..Len(lines) : lines[i] # Blank /\ lines[i].name = name
  BY DEF BodyWellFormed
<1>2. ASSUME NEW j \in DOMAIN lines, lines[j].name = name PROVE j = i
  <2>1. j # 1 /\ lines[j] # Blank
    BY <1>2, NameFacts
  <2>2. j \in 2..Len(lines)
    BY <2>1
  <2> QED
    BY <1>1, <1>2, <2>1, <2>2 DEF BodyWellFormed
<1>3. i \in DOMAIN lines
  OBVIOUS
<1>4. lines[i].colon
  BY <1>1 DEF BodyWellFormed
<1> QED
  BY <1>1, <1>2, <1>3, <1>4

-----------------------------------------------------------------------------
(* The steps *)

LEMMA IInvInit == Init => IInv
<1> SUFFICES ASSUME Init PROVE IInv
  OBVIOUS
<1>1. Types
  BY LineTypes, WireConstants DEF Init, Types, Values, Forms
<1>2. /\ Readable /\ HeaderRead /\ HashRead /\ HashProven /\ Unread /\ Parsed /\ AllParsed
      /\ Decided /\ OneReading /\ ReadOnlyProven
  BY DEF Init, Readable, HeaderRead, HashRead, HashProven, Unread, Parsed, AllParsed, Decided,
     OneReading, ReadOnlyProven
<1> QED
  BY <1>1, <1>2 DEF IInv

\* A refusal: the text stays, and the verdict is the one that it deserves.
LEMMA Refusal ==
  ASSUME IInv, raw' = raw, edits' = edits, step' = "done",
         received' \in Values, cursor' \in {2} \cup 2..(Len(raw.lines) + 1),
         DOMAIN fields' \subseteq KnownFields,
         verdict' = FinalVerdict(raw), verdict' # "replay",
         verdict' \in (Forms \ {"well_formed"}) \cup {"none", "hash", "ack", "replay"},
         fields' # <<>> => received' = PayloadHash
  PROVE  IInv'
<1>1. Types'
  BY DEF IInv, Types
<1>2. /\ Readable' /\ HeaderRead' /\ HashRead' /\ HashProven' /\ Unread' /\ Parsed' /\ AllParsed'
      /\ Decided' /\ OneReading' /\ ReadOnlyProven'
  BY DEF Readable, HeaderRead, HashRead, HashProven, Unread, Parsed, AllParsed, Decided,
     OneReading, ReadOnlyProven
<1> QED
  BY <1>1, <1>2 DEF IInv

LEMMA EditInv == IInv /\ Edit => IInv'
<1> SUFFICES ASSUME IInv, Edit PROVE IInv'
  OBVIOUS
<1>1. /\ step = "decode" /\ step' = step /\ verdict' = verdict /\ received' = received
      /\ cursor' = cursor /\ fields' = fields /\ edits' = edits + 1 /\ edits < MaxEdits
  BY DEF Edit, reading
<1>2. Types /\ cursor = 2 /\ fields = <<>> /\ verdict = "none"
  BY <1>1 DEF IInv, Unread, Decided
<1>3. /\ raw'.form \in {"text", "huge", "no_utf8"} /\ raw'.lines \in Seq(Packet)
      /\ raw' = [form |-> raw'.form, lines |-> raw'.lines]
  <2>1. CASE \E form \in {"huge", "no_utf8"} : raw' = [raw EXCEPT !.form = form]
    BY <1>2, <2>1 DEF Types
  <2>2. CASE \E i \in DOMAIN raw.lines : raw' = [raw EXCEPT !.lines = RemoveAt(@, i)]
    <3>1. PICK i \in DOMAIN raw.lines : raw' = [raw EXCEPT !.lines = RemoveAt(raw.lines, i)]
      BY <2>2
    <3>2. RemoveAt(raw.lines, i) \in Seq(Packet)
      BY <1>2, LineTypes, Edited DEF Types
    <3> QED
      BY <1>2, <3>1, <3>2 DEF Types
  <2>3. CASE \E i \in DOMAIN raw.lines, line \in Inserted :
               raw' = [raw EXCEPT !.lines = InsertAt(@, i, line)]
    <3>1. PICK i \in DOMAIN raw.lines, line \in Inserted :
            raw' = [raw EXCEPT !.lines = InsertAt(raw.lines, i, line)]
      BY <2>3
    <3>2. InsertAt(raw.lines, i, line) \in Seq(Packet)
      BY <1>2, LineTypes, Edited DEF Types
    <3> QED
      BY <1>2, <3>1, <3>2 DEF Types
  <2>4. CASE \E i \in DOMAIN raw.lines : \E line \in Changed(raw.lines[i]) :
               raw' = [raw EXCEPT !.lines[i] = line]
    <3>1. PICK i \in DOMAIN raw.lines : \E line \in Changed(raw.lines[i]) :
            raw' = [raw EXCEPT !.lines[i] = line]
      BY <2>4
    <3>2. PICK line \in Changed(raw.lines[i]) :
            raw' = [raw EXCEPT !.lines = [raw.lines EXCEPT ![i] = line]]
      BY <3>1
    <3>3. raw.lines \in Seq(Packet) /\ raw.lines[i] \in Packet
      BY <1>2 DEF Types
    <3>4. [raw.lines EXCEPT ![i] = line] \in Seq(Packet)
      BY <3>2, <3>3, LineTypes, Edited
    <3> QED
      BY <1>2, <3>2, <3>4 DEF Types
  <2> QED
    BY <2>1, <2>2, <2>3, <2>4 DEF Edit
<1>4. Types'
  BY <1>1, <1>2, <1>3, WireConstants DEF Types
<1>5. /\ Readable' /\ HeaderRead' /\ HashRead' /\ HashProven' /\ Unread' /\ Parsed' /\ AllParsed'
      /\ Decided' /\ OneReading' /\ ReadOnlyProven'
  BY <1>1, <1>2 DEF Readable, HeaderRead, HashRead, HashProven, Unread, Parsed, AllParsed,
     Decided, OneReading, ReadOnlyProven
<1> QED
  BY <1>4, <1>5 DEF IInv

LEMMA DecodeInv == IInv /\ DecodeAndBound => IInv'
<1> SUFFICES ASSUME IInv, DecodeAndBound PROVE IInv'
  OBVIOUS
<1>1. /\ step = "decode" /\ raw' = raw /\ edits' = edits /\ received' = received
      /\ cursor' = cursor /\ fields' = fields
  BY DEF DecodeAndBound, Gate, reading
<1>2. Types /\ cursor = 2 /\ fields = <<>> /\ verdict = "none"
  BY <1>1 DEF IInv, Unread, Decided
<1>3. CASE raw.form = "text"
  <2>1. step' = "header" /\ verdict' = verdict
    BY <1>3 DEF DecodeAndBound, Gate
  <2> QED
    BY <1>1, <1>2, <1>3, <2>1
       DEF IInv, Types, Readable, HeaderRead, HashRead, HashProven, Unread, Parsed, AllParsed,
           Decided, OneReading, ReadOnlyProven
<1>4. CASE raw.form # "text"
  <2>1. step' = "done" /\ verdict' = FinalVerdict(raw) /\ verdict' \in {"unencodable", "undecodable"}
    BY <1>2, <1>4 DEF DecodeAndBound, Gate, Types, FinalVerdict, Verdict
  <2> QED
    BY <1>1, <1>2, <2>1, Refusal DEF Types, Forms, Refused, Fatal
<1> QED
  BY <1>3, <1>4

LEMMA HeaderInv == IInv /\ ParseHeader => IInv'
<1> SUFFICES ASSUME IInv, ParseHeader PROVE IInv'
  OBVIOUS
<1>1. /\ step = "header" /\ raw' = raw /\ edits' = edits /\ received' = received
      /\ cursor' = cursor /\ fields' = fields
  BY DEF ParseHeader, Gate, reading
<1>2. Types /\ cursor = 2 /\ fields = <<>> /\ verdict = "none" /\ raw.form = "text"
  BY <1>1 DEF IInv, Unread, Decided, Readable
<1>3. CASE raw.lines # <<>> /\ raw.lines[1] = Header
  <2>1. step' = "received" /\ verdict' = verdict
    BY <1>3 DEF ParseHeader, Gate
  <2> QED
    BY <1>1, <1>2, <1>3, <2>1
       DEF IInv, Types, Readable, HeaderRead, HashRead, HashProven, Unread, Parsed, AllParsed,
           Decided, OneReading, ReadOnlyProven
<1>4. CASE ~ (raw.lines # <<>> /\ raw.lines[1] = Header)
  <2>1. step' = "done" /\ verdict' = FinalVerdict(raw) /\ verdict' = "header"
    BY <1>2, <1>4 DEF ParseHeader, Gate, FinalVerdict, Verdict
  <2> QED
    BY <1>1, <1>2, <2>1, Refusal DEF Types, Forms, Refused
<1> QED
  BY <1>3, <1>4

LEMMA ExtractInv == IInv /\ ExtractReceivedHash => IInv'
<1> SUFFICES ASSUME IInv, ExtractReceivedHash PROVE IInv'
  OBVIOUS
<1>1. /\ step = "received" /\ raw' = raw /\ edits' = edits
      /\ cursor' = cursor /\ fields' = fields
  BY DEF ExtractReceivedHash, Gate
<1>2. /\ Types /\ cursor = 2 /\ fields = <<>> /\ verdict = "none" /\ raw.form = "text"
      /\ raw.lines # <<>> /\ raw.lines[1] = Header
  BY <1>1 DEF IInv, Unread, Decided, Readable, HeaderRead
<1>3. CASE ReceivedFound(raw.lines)
  <2>1. step' = "equality" /\ verdict' = verdict /\ received' = ValueOf(raw.lines[2])
    BY <1>3 DEF ExtractReceivedHash, Gate
  <2>2. received' \in Values
    <3>1. raw.lines[2] \in Packet
      BY <1>2, <1>3 DEF ReceivedFound, Types
    <3> QED
      BY <2>1, <3>1 DEF ValueOf, Packet, Values
  <2> QED
    BY <1>1, <1>2, <1>3, <2>1, <2>2
       DEF IInv, Types, Readable, HeaderRead, HashRead, HashProven, Unread, Parsed, AllParsed,
           Decided, OneReading, ReadOnlyProven
<1>4. CASE ~ ReceivedFound(raw.lines)
  <2>1. step' = "done" /\ verdict' = FinalVerdict(raw) /\ verdict' = "received_first"
        /\ received' = received
    BY <1>2, <1>4 DEF ExtractReceivedHash, Gate, FinalVerdict, Verdict
  <2> QED
    BY <1>1, <1>2, <2>1, Refusal DEF Types, Forms, Refused
<1> QED
  BY <1>3, <1>4

LEMMA EqualityInv == IInv /\ VerifyHash => IInv'
<1> SUFFICES ASSUME IInv, VerifyHash PROVE IInv'
  OBVIOUS
<1>1. /\ step = "equality" /\ raw' = raw /\ edits' = edits /\ received' = received
      /\ cursor' = cursor /\ fields' = fields
  BY DEF VerifyHash, Gate, reading
<1>2. /\ Types /\ cursor = 2 /\ fields = <<>> /\ verdict = "none" /\ raw.form = "text"
      /\ raw.lines # <<>> /\ raw.lines[1] = Header
      /\ ReceivedFound(raw.lines) /\ received = ValueOf(raw.lines[2])
  BY <1>1 DEF IInv, Unread, Decided, Readable, HeaderRead, HashRead
<1>3. CASE received # NotAscii /\ received = PayloadHash
  <2>1. step' = "body" /\ verdict' = verdict
    BY <1>3 DEF VerifyHash, Gate, Compare
  <2>2. Len(raw.lines) \in Nat /\ Len(raw.lines) >= 2
    BY <1>2 DEF Types, ReceivedFound
  <2>3. Past = {} /\ Past' = {} /\ DOMAIN fields = {}
    BY <1>1, <1>2 DEF Past
  <2>4. Parsed'
    BY <1>1, <1>2, <2>2, <2>3 DEF Parsed
  <2> QED
    BY <1>1, <1>2, <1>3, <2>1, <2>4
       DEF IInv, Types, Readable, HeaderRead, HashRead, HashProven, Unread, AllParsed,
           Decided, OneReading, ReadOnlyProven
<1>4. CASE ~ (received # NotAscii /\ received = PayloadHash)
  <2>1. /\ step' = "done" /\ verdict' = FinalVerdict(raw)
        /\ verdict' \in {"received_not_ascii", "hash"}
    BY <1>2, <1>4 DEF VerifyHash, Gate, Compare, FinalVerdict, Verdict
  <2> QED
    BY <1>1, <1>2, <2>1, Refusal DEF Types, Forms, Refused, Fatal
<1> QED
  BY <1>3, <1>4

\* What is known while the fields are read.
LEMMA BodyFacts ==
  ASSUME IInv, step \in {"body", "ack"}
  PROVE  /\ Types /\ Parsed /\ verdict = "none" /\ raw.form = "text"
         /\ raw.lines # <<>> /\ raw.lines[1] = Header /\ ReceivedFound(raw.lines)
         /\ ValueOf(raw.lines[2]) = received /\ received = PayloadHash /\ received # NotAscii
         /\ Len(raw.lines) \in Nat /\ cursor \in 2..(Len(raw.lines) + 1)
         /\ Verdict(raw) = IF ~ BodyWellFormed(raw.lines) THEN "body"
                           ELSE Compare(raw.lines[AckOf(raw.lines)].value, RequestHash, "ack",
                                        "ack_not_ascii")
BY DEF IInv, Types, Readable, HeaderRead, HashRead, HashProven, Parsed, Decided, Verdict

LEMMA FieldInv == IInv /\ ParseField => IInv'
<1> SUFFICES ASSUME IInv, ParseField PROVE IInv'
  OBVIOUS
<1> DEFINE line == raw.lines[cursor]
           lines == raw.lines
<1>1. /\ step = "body" /\ raw' = raw /\ edits' = edits /\ received' = received
      /\ cursor' = cursor + 1 /\ cursor <= Len(raw.lines)
  BY DEF ParseField, Gate
<1>2. Types /\ received = PayloadHash /\ received # NotAscii /\ Len(lines) \in Nat
      /\ cursor \in 2..Len(lines) /\ cursor + 1 \in 2..(Len(lines) + 1)
  BY <1>1, BodyFacts
<1>3. /\ \A i \in Past : lines[i].colon /\ lines[i].name \in KnownFields
      /\ \A i, j \in Past : lines[i].name = lines[j].name => i = j
      /\ DOMAIN fields = {lines[i].name : i \in Past}
      /\ \A i \in Past : fields[lines[i].name] = lines[i].value
      /\ Past = {i \in 2..(cursor - 1) : lines[i] # Blank}
  BY <1>1, BodyFacts DEF Parsed, Past
<1>4. CASE Malformed(line)
  <2>1. step' = "done" /\ verdict' = "body" /\ fields' = fields
    BY <1>4 DEF ParseField, Gate
  <2>2. ~ BodyWellFormed(lines)
    <3> DEFINE body == {i \in 2..Len(lines) : lines[i] # Blank}
    <3>1. cursor \in body /\ Past \subseteq body
      BY <1>2, <1>3, <1>4 DEF Malformed
    <3>2. CASE ~ line.colon \/ line.name \notin KnownFields
      BY <3>1, <3>2 DEF BodyWellFormed
    <3>3. CASE line.name \in DOMAIN fields
      <4>1. PICK i \in Past : lines[i].name = line.name
        BY <1>3, <3>3
      <4>2. i # cursor
        BY <1>2, <1>3
      <4> QED
        BY <3>1, <4>1, <4>2 DEF BodyWellFormed
    <3> QED
      BY <1>4, <3>2, <3>3 DEF Malformed
  <2>3. verdict' = FinalVerdict(raw)
    BY <1>1, <2>1, <2>2, BodyFacts DEF FinalVerdict
  <2> QED
    BY <1>1, <1>2, <2>1, <2>3, Refusal DEF Types, Forms, Refused
<1>5. CASE ~ Malformed(line)
  <2>1. step' = "body" /\ verdict' = verdict /\ verdict = "none"
    BY <1>1, <1>5, BodyFacts DEF ParseField, Gate
  <2>2. fields' = IF line = Blank THEN fields
                  ELSE [name \in DOMAIN fields \cup {line.name} |->
                          IF name = line.name THEN line.value ELSE fields[name]]
    BY <1>5 DEF ParseField
  <2>3. line # Blank => /\ line.colon /\ line.name \in KnownFields
                        /\ line.name \notin DOMAIN fields
    BY <1>5 DEF Malformed
  <2>4. Past' = {i \in 2..cursor : lines[i] # Blank}
    BY <1>1, <1>2 DEF Past
  <2>5. ASSUME line = Blank PROVE Parsed'
    <3>1. Past' = Past
      BY <1>2, <1>3, <2>4, <2>5
    <3> QED
      BY <1>1, <1>2, <1>3, <2>1, <2>2, <2>5, <3>1 DEF Parsed
  <2>6. ASSUME line # Blank PROVE Parsed'
    <3>1. Past' = Past \cup {cursor} /\ cursor \notin Past
      BY <1>2, <1>3, <2>4, <2>6
    <3>2. /\ DOMAIN fields' = DOMAIN fields \cup {line.name} /\ fields'[line.name] = line.value
          /\ \A name \in DOMAIN fields : fields'[name] = fields[name]
      BY <2>2, <2>3, <2>6
    <3>3. \A i \in Past : lines[i].name \in DOMAIN fields /\ lines[i].name # line.name
      BY <1>3, <2>3, <2>6
    <3>4. /\ \A i \in Past' : lines[i].colon /\ lines[i].name \in KnownFields
          /\ \A i, j \in Past' : lines[i].name = lines[j].name => i = j
      BY <1>3, <2>3, <2>6, <3>1, <3>3
    <3>5. DOMAIN fields' = {lines[i].name : i \in Past'}
      <4>1. {lines[i].name : i \in Past'} = {lines[i].name : i \in Past} \cup {line.name}
        BY <3>1
      <4> QED
        BY <1>3, <3>2, <4>1
    <3>6. \A i \in Past' : fields'[lines[i].name] = lines[i].value
      BY <1>3, <3>1, <3>2, <3>3
    <3> QED
      BY <1>1, <1>2, <3>4, <3>5, <3>6 DEF Parsed
  <2>7. Parsed'
    BY <2>5, <2>6
  <2>8. DOMAIN fields' \subseteq KnownFields
    BY <1>2, <2>2, <2>3 DEF Types
  <2>9. Types'
    BY <1>1, <1>2, <2>1, <2>8 DEF Types
  <2>10. Readable' /\ HeaderRead' /\ HashRead' /\ HashProven' /\ Unread' /\ AllParsed'
         /\ Decided' /\ OneReading' /\ ReadOnlyProven'
    BY <1>1, <1>2, <2>1, BodyFacts
       DEF IInv, Readable, HeaderRead, HashRead, HashProven, Unread, AllParsed,
           Decided, OneReading, ReadOnlyProven
  <2> QED
    BY <2>7, <2>9, <2>10 DEF IInv
<1> QED
  BY <1>4, <1>5

\* At the end of the text, the mandatory fields are there if and only if the
\* body is well-formed.
LEMMA MandatoryInv == IInv /\ ParseMandatory => IInv'
<1> SUFFICES ASSUME IInv, ParseMandatory PROVE IInv'
  OBVIOUS
<1> DEFINE lines == raw.lines
<1>1. /\ step = "body" /\ raw' = raw /\ edits' = edits /\ received' = received
      /\ cursor' = cursor /\ fields' = fields /\ cursor > Len(lines)
  BY DEF ParseMandatory, Gate, reading
<1>2. /\ Types /\ received = PayloadHash /\ received # NotAscii /\ Len(lines) \in Nat
      /\ cursor = Len(lines) + 1 /\ verdict = "none"
  BY <1>1, BodyFacts
<1>3. /\ \A i \in Past : lines[i].colon /\ lines[i].name \in KnownFields
      /\ \A i, j \in Past : lines[i].name = lines[j].name => i = j
      /\ DOMAIN fields = {lines[i].name : i \in Past}
      /\ Past = {i \in 2..Len(lines) : lines[i] # Blank}
  <2>1. Parsed
    BY <1>1, BodyFacts
  <2>2. cursor - 1 = Len(lines)
    BY <1>2
  <2>3. Past = {i \in 2..Len(lines) : lines[i] # Blank}
    BY <2>2 DEF Past
  <2> QED
    BY <1>1, <2>1, <2>3 DEF Parsed
<1>4. BodyWellFormed(lines) <=> MandatoryResponseFields \subseteq DOMAIN fields
  BY <1>3 DEF BodyWellFormed
<1>5. CASE MandatoryResponseFields \subseteq DOMAIN fields
  <2>1. step' = "ack" /\ verdict' = verdict
    BY <1>5 DEF ParseMandatory, Gate
  <2>2. Past' = Past
    BY <1>1 DEF Past
  <2>3. Parsed'
    BY <1>1, <2>1, <2>2, BodyFacts DEF Parsed
  <2>4. Types'
    BY <1>1, <1>2, <2>1 DEF Types
  <2>5. Readable' /\ HeaderRead' /\ HashRead' /\ HashProven' /\ Unread' /\ AllParsed'
         /\ Decided' /\ OneReading' /\ ReadOnlyProven'
    BY <1>1, <1>2, <1>5, <2>1, BodyFacts
       DEF IInv, Readable, HeaderRead, HashRead, HashProven, Unread, AllParsed,
           Decided, OneReading, ReadOnlyProven
  <2> QED
    BY <2>3, <2>4, <2>5 DEF IInv
<1>6. CASE ~ (MandatoryResponseFields \subseteq DOMAIN fields)
  <2>1. step' = "done" /\ verdict' = "body"
    BY <1>6 DEF ParseMandatory, Gate
  <2>2. verdict' = FinalVerdict(raw)
    BY <1>1, <1>4, <1>6, <2>1, BodyFacts DEF FinalVerdict
  <2> QED
    BY <1>1, <1>2, <2>1, <2>2, Refusal DEF Types, Forms, Refused
<1> QED
  BY <1>5, <1>6

LEMMA AckInv == IInv /\ VerifyAck => IInv'
<1> SUFFICES ASSUME IInv, VerifyAck PROVE IInv'
  OBVIOUS
<1> DEFINE lines == raw.lines
           ack == "REQUEST_HASH_ACK"
           refusal == Compare(fields[ack], RequestHash, "ack", "ack_not_ascii")
<1>1. /\ step = "ack" /\ raw' = raw /\ edits' = edits /\ received' = received
      /\ cursor' = cursor /\ fields' = fields /\ step' = "done"
      /\ verdict' = IF refusal = "none" THEN "replay" ELSE refusal
  BY DEF VerifyAck, reading
<1>2. /\ Types /\ received = PayloadHash /\ received # NotAscii /\ Len(lines) \in Nat
      /\ verdict = "none" /\ lines \in Seq(Packet) /\ lines # <<>> /\ lines[1] = Header
      /\ ReceivedFound(lines) /\ ValueOf(lines[2]) = received
  BY <1>1, BodyFacts DEF Types
<1>3. cursor = Len(lines) + 1 /\ MandatoryResponseFields \subseteq DOMAIN fields
  BY <1>1 DEF IInv, AllParsed
<1>4. /\ \A i \in Past : lines[i].colon /\ lines[i].name \in KnownFields
      /\ \A i, j \in Past : lines[i].name = lines[j].name => i = j
      /\ DOMAIN fields = {lines[i].name : i \in Past}
      /\ \A i \in Past : fields[lines[i].name] = lines[i].value
      /\ Past = {i \in 2..Len(lines) : lines[i] # Blank}
  BY <1>1, <1>2, <1>3, BodyFacts DEF Parsed, Past
<1>5. BodyWellFormed(lines)
  BY <1>3, <1>4 DEF BodyWellFormed
<1>6. ASSUME NEW name \in DOMAIN fields
      PROVE  \E i \in DOMAIN lines :
               /\ {j \in DOMAIN lines : lines[j].name = name} = {i}
               /\ lines[i].value = fields[name] /\ i \in Past
  <2>1. PICK i \in Past : lines[i].name = name
    BY <1>4
  <2>2. i \in DOMAIN lines /\ fields[name] = lines[i].value /\ name \in KnownFields
    BY <1>2, <1>4, <2>1
  <2>3. ASSUME NEW j \in DOMAIN lines, lines[j].name = name PROVE j = i
    <3>1. j # 1 /\ lines[j] # Blank
      BY <1>2, <2>2, <2>3, NameFacts
    <3>2. j \in Past
      BY <1>2, <1>4, <3>1
    <3> QED
      BY <1>4, <2>1, <2>3, <3>2
  <2> QED
    BY <2>1, <2>2, <2>3
<1>7. ack \in DOMAIN fields /\ "RECEIVED_HASH" \in DOMAIN fields
  BY <1>3, NameFacts
<1>8. fields[ack] = lines[AckOf(lines)].value
  <2>1. PICK i \in DOMAIN lines : /\ {j \in DOMAIN lines : lines[j].name = ack} = {i}
                                  /\ lines[i].value = fields[ack]
    BY <1>6, <1>7
  <2>2. AckOf(lines) = i
    BY <2>1 DEF AckOf
  <2> QED
    BY <2>1, <2>2
<1>9. Verdict(raw) = refusal
  BY <1>1, <1>5, <1>8, BodyFacts
<1>10. fields["RECEIVED_HASH"] = received
  <2>1. PICK i \in DOMAIN lines :
          /\ {j \in DOMAIN lines : lines[j].name = "RECEIVED_HASH"} = {i}
          /\ lines[i].value = fields["RECEIVED_HASH"] /\ i \in Past
    BY <1>6, <1>7
  <2>2. 2 \in DOMAIN lines /\ lines[2].name = "RECEIVED_HASH"
    BY <1>2 DEF ReceivedFound
  <2>3. i = 2 /\ lines[2].colon
    BY <1>4, <2>1, <2>2
  <2> QED
    BY <1>2, <2>1, <2>3 DEF ValueOf
<1>11. OneReading'
  <2>1. \A name \in DOMAIN fields :
          \E i \in DOMAIN lines : /\ {j \in DOMAIN lines : lines[j].name = name} = {i}
                                  /\ lines[i].value = fields[name]
    BY <1>6
  <2> QED
    BY <1>1, <1>2, <1>10, <2>1 DEF OneReading
<1>12. verdict' \in {"replay", "ack", "ack_not_ascii"}
  BY <1>1 DEF Compare
<1>13. Types'
  BY <1>1, <1>2, <1>12 DEF Types, Forms, Fatal
<1>14. Decided'
  BY <1>1, <1>9 DEF Decided, FinalVerdict
<1>15. /\ Readable' /\ HeaderRead' /\ HashRead' /\ HashProven' /\ Unread' /\ Parsed' /\ AllParsed'
       /\ ReadOnlyProven'
  BY <1>1, <1>2 DEF Readable, HeaderRead, HashRead, HashProven, Unread, Parsed, AllParsed,
     ReadOnlyProven
<1> QED
  BY <1>11, <1>13, <1>14, <1>15 DEF IInv

LEMMA IInvStep == IInv /\ [Next]_vars => IInv'
<1>1. CASE UNCHANGED vars
  BY <1>1 DEF vars, reading, IInv, Types, Readable, HeaderRead, HashRead, HashProven, Unread,
     Parsed, Past, AllParsed, Decided, OneReading, ReadOnlyProven
<1>2. CASE Next
  BY <1>2, EditInv, DecodeInv, HeaderInv, ExtractInv, EqualityInv, FieldInv, MandatoryInv, AckInv
     DEF Next
<1> QED
  BY <1>1, <1>2

LEMMA Invariance == Spec => []IInv
BY IInvInit, IInvStep, PTL DEF Spec

-----------------------------------------------------------------------------
(* The gates *)

LEMMA ValueInIs ==
  ASSUME NEW lines, NEW name, NEW i \in DOMAIN lines,
         {j \in DOMAIN lines : lines[j].name = name} = {i}, i \in Nat
  PROVE  ValueIn(lines, name) = ValueOf(lines[i])
<1> DEFINE found == {j \in DOMAIN lines : lines[j].name = name}
<1>1. found = {i} /\ found # {}
  OBVIOUS
<1> HIDE DEF found
<1>2. (CHOOSE k \in found : \A j \in found : k <= j) = i
  BY <1>1
<1> QED
  BY <1>1, <1>2 DEF ValueIn, found

\* The first look at the names, as Form has it.
LEMMA ReceivedFoundIs ==
  ASSUME NEW lines \in Seq(Packet), lines # <<>>, lines[1] = Header
  PROVE  /\ ReceivedFound(lines) <=>
              ~ (\/ {i \in 2..Len(lines) : lines[i].name = "RECEIVED_HASH"} # {2}
                 \/ ~ lines[2].colon \/ lines[2].value = Empty)
         /\ ReceivedFound(lines) =>
              /\ ValueIn(lines, "RECEIVED_HASH") = ValueOf(lines[2])
              /\ ValueOf(lines[2]) = lines[2].value
<1> DEFINE named == {i \in 2..Len(lines) : lines[i].name = "RECEIVED_HASH"}
<1>1. Len(lines) \in Nat /\ DOMAIN lines = 1..Len(lines)
  OBVIOUS
<1>2. named = {2} <=> /\ Len(lines) >= 2 /\ lines[2].name = "RECEIVED_HASH"
                      /\ \A i \in 3..Len(lines) : lines[i].name # "RECEIVED_HASH"
  <2>1. ASSUME named = {2}
        PROVE  /\ Len(lines) >= 2 /\ lines[2].name = "RECEIVED_HASH"
               /\ \A i \in 3..Len(lines) : lines[i].name # "RECEIVED_HASH"
    <3>1. 2 \in named
      BY <2>1
    <3>2. \A i \in 3..Len(lines) : i \notin named /\ i \in 2..Len(lines)
      BY <1>1, <2>1
    <3> QED
      BY <1>1, <3>1, <3>2
  <2>2. ASSUME Len(lines) >= 2, lines[2].name = "RECEIVED_HASH",
               \A i \in 3..Len(lines) : lines[i].name # "RECEIVED_HASH"
        PROVE  named = {2}
    BY <1>1, <2>2
  <2> QED
    BY <2>1, <2>2
<1>3. ValueOf(lines[2]) # Empty <=> lines[2].colon /\ lines[2].value # Empty
  BY DEF ValueOf
<1>4. ReceivedFound(lines) <=> ~ (named # {2} \/ ~ lines[2].colon \/ lines[2].value = Empty)
  BY <1>2, <1>3 DEF ReceivedFound
<1>5. ASSUME ReceivedFound(lines)
      PROVE  /\ ValueIn(lines, "RECEIVED_HASH") = ValueOf(lines[2])
             /\ ValueOf(lines[2]) = lines[2].value
  <2>1. named = {2} /\ lines[2].colon
    BY <1>4, <1>5
  <2>2. lines[1].name # "RECEIVED_HASH"
    BY NameFacts
  <2>3. 2 \in DOMAIN lines
    BY <1>1, <2>1
  <2>4. {j \in DOMAIN lines : lines[j].name = "RECEIVED_HASH"} = {2}
    BY <1>1, <2>1, <2>2
  <2> QED
    BY <2>1, <2>3, <2>4, ValueInIs DEF ValueOf
<1> QED
  BY <1>4, <1>5

LEMMA GatesAgreeLemma == IInv => GatesAgree
<1> SUFFICES
      ASSUME IInv, step = "done"
      PROVE  verdict = EarlyGate(
               [form     |-> Form(raw.lines),
                received |-> ValueIn(raw.lines, "RECEIVED_HASH") = PayloadHash,
                ack      |-> ValueIn(raw.lines, "REQUEST_HASH_ACK") = RequestHash], TRUE)
  BY DEF GatesAgree
<1> DEFINE lines == raw.lines
           form == Form(raw.lines)
           received_ == ValueIn(raw.lines, "RECEIVED_HASH") = PayloadHash
           ack == ValueIn(raw.lines, "REQUEST_HASH_ACK") = RequestHash
           gate == EarlyGate([form |-> form, received |-> received_, ack |-> ack], TRUE)
<1>1. Types /\ lines \in Seq(Packet) /\ verdict = FinalVerdict(raw)
  BY DEF IInv, Types, Decided
<1>2. gate = IF form \in Forms \ {"body", "ack_not_ascii", "well_formed"} THEN form
             ELSE IF received_ # TRUE THEN "hash"
             ELSE IF form # "well_formed" THEN form
             ELSE IF ack # TRUE THEN "ack"
             ELSE "replay"
  <2> DEFINE r == [form |-> form, received |-> received_, ack |-> ack]
  <2> HIDE DEF form, received_, ack
  <2>1. r.form = form /\ r.received = received_ /\ r.ack = ack /\ gate = EarlyGate(r, TRUE)
    OBVIOUS
  <2> HIDE DEF r, gate
  <2> QED
    BY <2>1, Zenon DEF EarlyGate
<1>3. form =
        IF raw.form = "no_utf8" THEN "unencodable"
        ELSE IF raw.form = "huge" THEN "undecodable"
        ELSE IF lines = <<>> \/ lines[1] # Header THEN "header"
        ELSE IF ~ ReceivedFound(lines) THEN "received_first"
        ELSE IF lines[2].value = NotAscii THEN "received_not_ascii"
        ELSE IF ~ BodyWellFormed(lines) THEN "body"
        ELSE IF \E i \in DOMAIN lines : /\ lines[i].name = "REQUEST_HASH_ACK"
                                       /\ lines[i].value = NotAscii
             THEN "ack_not_ascii"
        ELSE "well_formed"
  BY <1>1, ReceivedFoundIs DEF Form, Types
<1> HIDE DEF form, gate
<1>4. CASE raw.form # "text" \/ lines = <<>> \/ lines[1] # Header
  <2>1. /\ form \in {"unencodable", "undecodable", "header"}
        /\ form \in Forms \ {"body", "ack_not_ascii", "well_formed"}
        /\ FinalVerdict(raw) = form
    BY <1>1, <1>3, <1>4 DEF Types, Forms, Refused, Fatal, FinalVerdict, Verdict
  <2> QED
    BY <1>1, <1>2, <2>1 DEF gate, form
<1>5. CASE raw.form = "text" /\ lines # <<>> /\ lines[1] = Header /\ ~ ReceivedFound(lines)
  <2>1. /\ form = "received_first" /\ form \in Forms \ {"body", "ack_not_ascii", "well_formed"}
        /\ FinalVerdict(raw) = form
    BY <1>3, <1>5 DEF Forms, Refused, FinalVerdict, Verdict
  <2> QED
    BY <1>1, <1>2, <2>1 DEF gate, form
<1>6. CASE raw.form = "text" /\ lines # <<>> /\ lines[1] = Header /\ ReceivedFound(lines)
  <2>1. /\ ValueIn(lines, "RECEIVED_HASH") = ValueOf(lines[2])
        /\ ValueOf(lines[2]) = lines[2].value
    BY <1>1, <1>6, ReceivedFoundIs
  <2>2. received_ <=> lines[2].value = PayloadHash
    BY <2>1
  <2>3. CASE lines[2].value = NotAscii
    <3>1. /\ form = "received_not_ascii"
          /\ form \in Forms \ {"body", "ack_not_ascii", "well_formed"}
          /\ FinalVerdict(raw) = form
      BY <1>3, <1>6, <2>1, <2>3 DEF Forms, Fatal, FinalVerdict, Verdict
    <3> QED
      BY <1>1, <1>2, <3>1 DEF gate, form
  <2>4. CASE lines[2].value # NotAscii /\ lines[2].value # PayloadHash
    <3>1. form \in {"body", "ack_not_ascii", "well_formed"} /\ received_ # TRUE
      BY <1>3, <1>6, <2>2, <2>4
    <3>2. gate = "hash" /\ FinalVerdict(raw) = "hash"
      BY <1>2, <1>6, <2>1, <2>4, <3>1 DEF FinalVerdict, Verdict
    <3> QED
      BY <1>1, <3>2 DEF gate, form
  <2>5. CASE lines[2].value # NotAscii /\ lines[2].value = PayloadHash
    <3>1. received_ = TRUE
      BY <2>2, <2>5
    <3>2. CASE ~ BodyWellFormed(lines)
      <4>1. form = "body" /\ gate = "body" /\ FinalVerdict(raw) = "body"
        BY <1>2, <1>3, <1>6, <2>1, <2>5, <3>1, <3>2 DEF FinalVerdict, Verdict
      <4> QED
        BY <1>1, <4>1 DEF gate, form
    <3>3. CASE BodyWellFormed(lines)
      <4>1. PICK i \in 2..Len(lines) :
              /\ {j \in DOMAIN lines : lines[j].name = "REQUEST_HASH_ACK"} = {i}
              /\ lines[i].colon
        BY <1>1, <1>6, <3>3, OneLine, NameFacts
      <4>2. i \in DOMAIN lines /\ i \in Nat /\ lines[i] \in Packet
            /\ lines[i].name = "REQUEST_HASH_ACK"
        BY <1>1, <4>1
      <4>3. ValueIn(lines, "REQUEST_HASH_ACK") = lines[i].value
        BY <4>1, <4>2, ValueInIs DEF ValueOf
      <4>4. AckOf(lines) = i
        BY <4>1, <4>2 DEF AckOf
      <4>5. (\E j \in DOMAIN lines : /\ lines[j].name = "REQUEST_HASH_ACK"
                                     /\ lines[j].value = NotAscii)
              <=> lines[i].value = NotAscii
        BY <4>1, <4>2
      <4>6. form = IF lines[i].value = NotAscii THEN "ack_not_ascii" ELSE "well_formed"
        BY <1>3, <1>6, <2>5, <3>3, <4>5
      <4>7. FinalVerdict(raw) = IF lines[i].value = NotAscii THEN "ack_not_ascii"
                                ELSE IF lines[i].value = RequestHash THEN "replay" ELSE "ack"
        BY <1>6, <2>1, <2>5, <3>3, <4>4 DEF FinalVerdict, Verdict, Compare
      <4>8. ack # TRUE <=> lines[i].value # RequestHash
        BY <4>3
      <4> HIDE DEF received_, ack
      <4>9. gate = FinalVerdict(raw)
        BY <1>2, <3>1, <4>6, <4>7, <4>8 DEF Forms, Refused, Fatal
      <4> QED
        BY <1>1, <4>9 DEF gate, form, received_, ack
    <3> QED
      BY <3>2, <3>3
  <2> QED
    BY <2>3, <2>4, <2>5
<1> QED
  BY <1>4, <1>5, <1>6

\* The types of all states of a reader, however a response was changed.
THEOREM WireTypes == Spec => []TypeOK
<1>1. IInv => TypeOK
  <2> SUFFICES ASSUME Types PROVE TypeOK
    BY DEF IInv
  <2>1. \A i \in DOMAIN raw.lines : raw.lines[i] \in Packet
    BY DEF Types
  <2> QED
    BY <2>1 DEF Types, TypeOK, Packet
<1> QED
  BY <1>1, Invariance, PTL

\* However many lines of a response were changed, the reader comes to the
\* verdict that the gates of ResponseGates give on its shape.
THEOREM ReaderAgreesWithGates == Spec => []GatesAgree
BY Invariance, GatesAgreeLemma, PTL

\* A response that reaches the replay gate has one line for every field, and the
\* hash among its fields is the one that was compared.
THEOREM ResponseReadOneWay == Spec => []OneReading
<1>1. IInv => OneReading
  BY DEF IInv
<1> QED
  BY <1>1, Invariance, PTL

\* No field is read of a response that has not been found to answer the request.
THEOREM HashBeforeFields == Spec => []ReadOnlyProven
<1>1. IInv => ReadOnlyProven
  BY DEF IInv
<1> QED
  BY <1>1, Invariance, PTL
=============================================================================
