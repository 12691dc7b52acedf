--------------------------- MODULE SurprisePacket ---------------------------
(***************************************************************************)
(* sfl/transformer.py: what a SURPRISE packet says of a sanitized text.    *)
(*                                                                         *)
(* A text is the sequence of its lines that are not blank.  A line is what *)
(* the transformer looks for in it: the date and time in whole seconds, or *)
(* NoTime if there is none that parses; the entries of the keyword tables  *)
(* that occur in the padded, lower-case line; and its first eight-digit    *)
(* number, 0 if there is none.                                             *)
(***************************************************************************)
EXTENDS Integers, Sequences, FiniteSets, FiniteSetsExt

CONSTANTS Lines,    \* the lines that occur
          NoTime,
          MaxLines  \* bound on the lines of a text

\* EVENT_KEYWORDS, in order.
EventRows == <<
  <<"BIND",       {"server", "listening", "addr=", "port=", "bound"}>>,
  <<"AUTH",       {"login", "authentication", "publickey", "password", "session"}>>,
  <<"TRANSCODE",  {"transcode", "codec", "ffmpeg", "convert"}>>,
  <<"STREAM",     {"stream", "request", "response", " get ", " post ", " put "}>>,
  <<"SCAN",       {"scan", "index", "library"}>>,
  <<"MEM",        {"memory", "mem=", "usage", "limit"}>>,
  <<"THROTTLE",   {"throttle", "rate limit", "slow"}>>,
  <<"DB",         {"database", "query", " db=", " db "}>>,
  <<"IMPORT",     {"import", "path="}>>,
  <<"START",      {"started", "starting", "running"}>>,
  <<"STOP",       {"stopped", "stopping", "killed", "exit "}>>,
  <<"CONNECT",    {"connected", "connection"}>>,
  <<"DISCONNECT", {"disconnected", "closed"}>>,
  <<"ERROR",      {"error", "failed", "exception"}>> >>

\* NEGATIVE_WORDS, WARN_WORDS and POSITIVE_WORDS, in order of priority.
StateRows == <<
  <<"-1",   {"failed", "error", "refused", "denied", "killed", "timeout", "invalid"}>>,
  <<"WARN", {"warn", "high", "exceeded", "slow"}>>,
  <<"+1",   {"succeeded", "accepted", " ok ", "healthy", "started", "connected",
             "completed"}>> >>

Keywords == UNION {row[2] : row \in {EventRows[i] : i \in 1..14} \cup
                                    {StateRows[i] : i \in 1..3}}

\* Entries of the tables that are found wherever another one is: in its letters.
Contained == {<<"disconnected", "connected">>, <<"rate limit", "limit">>}

Line ==
  {l \in [time : Nat \cup {NoTime}, found : SUBSET Keywords, token : Nat] :
     \A pair \in Contained : pair[1] \in l.found => pair[2] \in l.found}

ASSUME SurprisePacketConstants ==
  /\ NoTime \notin Nat
  /\ MaxLines \in Nat
  /\ Lines \subseteq Line

Texts == UNION {[1..n -> Lines] : n \in 0..MaxLines}

-----------------------------------------------------------------------------
(* Events *)

\* The label of the first row with a word that was found.
FirstRow(rows, found, default) ==
  LET hits == {i \in DOMAIN rows : rows[i][2] \cap found # {}}
  IN  IF hits = {} THEN default ELSE rows[Min(hits)][1]

ClassifyEvent == [line \in Lines |-> FirstRow(EventRows, line.found, "ANOMALY")]

ClassifyState == [line \in Lines |-> FirstRow(StateRows, line.found, "null")]

Events(text) ==
  [i \in DOMAIN text |-> [token |-> text[i].token,
                          event |-> ClassifyEvent[text[i]],
                          a     |-> ClassifyState[text[i]]]]

-----------------------------------------------------------------------------
(* The timeline *)

SigmaFromDelta(seconds) ==
  CASE seconds < 1 -> "sigma-0"  \* the clock may also have gone back
    [] 1 <= seconds /\ seconds < 60 -> "sigma-1"
    [] 60 <= seconds /\ seconds < 86400 -> "sigma-2"
    [] 86400 <= seconds /\ seconds < 604800 -> "sigma-3"
    [] 604800 <= seconds -> "sigma-4"

AnchorsMutant(text) ==  \* a line without a time resets the anchor
  [i \in DOMAIN text |-> IF i = 1 THEN NoTime ELSE text[i - 1].time]

\* prev_ts when each line is reached.
Anchors(text) ==
  LET prev[i \in DOMAIN text] ==
        IF i = 1 THEN NoTime
        ELSE IF text[i - 1].time # NoTime THEN text[i - 1].time ELSE prev[i - 1]
  IN  prev

Scale(text) ==
  [i \in DOMAIN text |->
     LET prev == Anchors(text)[i]
     IN  IF NoTime \in {text[i].time, prev} THEN "sigma-0"
         ELSE SigmaFromDelta(text[i].time - prev)]

Fast == {"sigma-0", "sigma-1"}
Slow == {"sigma-3", "sigma-4"}

-----------------------------------------------------------------------------
(* The packet *)

With(state, events) == {i \in DOMAIN events : events[i].a = state}

CascadeMutant(events, scale) ==  \* the line before is not looked at
  \E i \in With("-1", events) : scale[i] \in Fast

Cascade(events, scale) ==
  \E i \in With("-1", events) : i - 1 \in With("-1", events) /\ scale[i] \in Fast

Drain(events) ==
  \E i \in With("WARN", events) \cup With("-1", events) : events[i].event \in {"MEM", "DISK"}

Drift(events, scale) ==
  /\ \E i \in DOMAIN scale : scale[i] \in Slow
  /\ \E i, j \in DOMAIN events : events[i].a # events[j].a

ClassifyPacket(events, scale) ==
  IF Cascade(events, scale) THEN "CASCADE"
  ELSE IF Drain(events) THEN "DRAIN"
  ELSE IF Drift(events, scale) THEN "DRIFT"
  ELSE IF Cardinality(With("-1", events)) = 1 THEN "SPIKE"
  ELSE "ANOMALY"

HalfWeightsMutant(events) ==  \* a warning counts like a failure
  2 * Cardinality(With("-1", events) \cup With("WARN", events))

\* The sum of the weights, in halves.
HalfWeights(events) ==
  2 * Cardinality(With("-1", events)) + Cardinality(With("WARN", events))

\* The thousandths that the mean weight may be rounded to: two of them if it
\* lies halfway, where the sum of doubles decides.
Magnitudes(events) ==
  IF events = <<>> THEN {0}
  ELSE LET n == Len(events)
           total == 1000 * HalfWeights(events)
           low == total \div (2 * n)
       IN  {m \in {low, low + 1} : 2 * m * n - n <= total /\ total <= 2 * m * n + n}

Packets(text, seq) ==
  {[seq |-> seq, mag |-> m, div |-> Events(text), scale |-> Scale(text),
    packet_type |-> ClassifyPacket(Events(text), Scale(text))] :
     m \in Magnitudes(Events(text))}
=============================================================================
