------------------------------ MODULE Pipeline ------------------------------
(***************************************************************************)
(* sanitizer/__init__.py, run_pipeline: the canaries, then one log, go     *)
(* through Layers 1 and 2, which replace words by tokens of the session    *)
(* vault, and Layers 3 and 4, which refuse what is left.  Several logs of  *)
(* one session share the vault.                                            *)
(*                                                                         *)
(* A text is a sequence of words.  A word has a core, a label ("key=") if  *)
(* it stands after "=" or ":", the contexts it stands in for Layer 1       *)
(* ("user ", "password "), innermost first, and a flag for a comment line. *)
(* A core is a pair of what the layers' patterns take it for and a name:   *)
(*   "ip"       what Layer 1 replaces and Layer 3 knows (addresses, paths) *)
(*   "encoded"  the same in base64, hex, octal or percent encoding         *)
(*   "odd"      fails the natural language checks: hosts, handles          *)
(*   "dense"    odd, and above Layer 2's entropy bound, but not above the  *)
(*              higher one of Layer 3, or not in one run of 13 characters  *)
(*   "random"   odd, and random enough for both                            *)
(*   "event"    a word of Layer 2's role tables; "natural": any other word *)
(*   "header"   a private key header                                       *)
(*   "date"     a date or time; "small": an integer below 10000            *)
(*   "eight"    eight digits: a token, or a number that the log contained  *)
(***************************************************************************)
EXTENDS Naturals, Sequences, FiniteSets, Functions

CONSTANTS Names,     \* what tells cores of one form apart
          Tokens,    \* the integers a token is drawn from
          Words,     \* the words of the logs
          Canaries,  \* the canaries in order: text, index of the needle, class
          MaxWords   \* bound on the words of a session's first log; each log after
                     \* it has one word less

Form(w) == w.core[1]

Forms == {"ip", "encoded", "odd", "dense", "random", "event", "natural", "header",
          "date", "small", "eight"}

\* Layer 1's patterns that take the surroundings of a value, in their order.
Contexts == <<"path", "port", "user", "password", "bare_user", "container_name",
              "appid", "pid", "metric">>

Rank(context) == CHOOSE n \in DOMAIN Contexts : Contexts[n] = context

Word == [core : Forms \X Names, label : {"none", "key"}, contexts : Seq(Range(Contexts)),
         comment : BOOLEAN]

Class == {"AUTH", "OTHER"}

Canary == [text : Seq(Word), needle : Nat, source : Class]

\* A context around another one is that of a later pattern, or the pattern had
\* taken both as one value.
ASSUME PipelineConstants ==
  /\ MaxWords \in Nat
  /\ Tokens \subseteq Names
  /\ Words \subseteq Word /\ Canaries \in Seq(Canary)
  /\ \A w \in Words : \A i, j \in DOMAIN w.contexts :
       i < j => Rank(w.contexts[i]) < Rank(w.contexts[j])

\* What Layer 1 replaces.
Known(w) == Form(w) \in {"ip", "encoded"} \/ w.contexts # <<>>

Needle(c) == c.text[c.needle]

\* Layer 1 leaves the needle of the canary where it is, or a copy of it.
PastL1(c) ==
  \E w \in Range(c.text) :
    w.core = Needle(c).core /\ Form(w) \in {"odd", "dense"} /\ ~ Known(w)

\* No canary has a comment, a date or a long number; the needle is an identifier,
\* a key or a header; and a canary whose needle is left to Layer 2 has no word
\* that Layer 1 replaces (what it replaces within the needle stays in its core).
ASSUME CanaryConstants ==
  \A i \in DOMAIN Canaries :
    LET c == Canaries[i]
    IN  /\ c.needle \in DOMAIN c.text
        /\ Form(Needle(c)) \in {"ip", "encoded", "odd", "dense", "random", "header"}
        /\ \A w \in Range(c.text) : ~ w.comment /\ Form(w) \notin {"date", "eight"}
        /\ PastL1(c) => \A w \in Range(c.text) : ~ Known(w)

VARIABLES vault,    \* the session's mapping of values to tokens
          stage,    \* "idle", or the layer at work
          job,      \* index of the canary in work; Len(Canaries) + 1: the log
          source,   \* Layer 2's class of the log: "AUTH" or "OTHER"
          log,      \* the text run_pipeline was called with
          held,     \* the normalized text, with the dates Layer 1 sets aside
          text,     \* the text as it stands
          out,      \* what Layer 2 has scanned of it
          scan,     \* "running", "done" or "raised": how Layer 2 ended
          cleared,  \* positions the auditor cleared in this scan
          outcome,  \* how the last run ended
          runs,     \* runs started
          raw,      \* eight-digit numbers that logs of the session contained
          alarms    \* CanaryFailures of the session behind an abandoned scan

vars == <<vault, stage, job, source, log, held, text, out, scan, cleared,
          outcome, runs, raw, alarms>>

Logs == UNION {[1..n -> Words] : n \in 0..MaxWords}

-----------------------------------------------------------------------------
(* The vault *)

FreshMutant == Tokens  \* drawn tokens are not compared with issued ones

Fresh == Tokens \ Range(vault)

Store(value, t) ==
  vault' = [v \in DOMAIN vault \cup {value} |-> IF v = value THEN t ELSE vault[v]]

\* tokenize(value) returns t.
Tokenize(value, t) ==
  \/ value \in DOMAIN vault /\ t = vault[value] /\ UNCHANGED vault
  \/ value \notin DOMAIN vault /\ t \in Fresh /\ Store(value, t)

SaveRaisesMutant(value) ==  \* the mapping is rolled back
  value \notin DOMAIN vault /\ UNCHANGED vault

\* tokenize(value) raises, because the save failed; the mapping stays.
SaveRaises(value) ==
  value \notin DOMAIN vault /\ \E t \in Fresh : Store(value, t)

-----------------------------------------------------------------------------
(* Layer 1 *)

Normalize(w) == IF Form(w) = "encoded" THEN [w EXCEPT !.core = <<"ip", @[2]>>] ELSE w

Protect(w, i) == IF Form(w) = "date" THEN [w EXCEPT !.core = <<"placeholder", i>>] ELSE w

RestoreMutant(w) == w  \* the placeholders stay in the text

Restore(w) == IF Form(w) = "placeholder" THEN [w EXCEPT !.core = held[@[2]].core] ELSE w

\* sanitize is called with t.
EnterL1(t) ==
  /\ stage' = "l1"
  /\ held' = [i \in DOMAIN t |-> Normalize(t[i])]
  /\ text' = [i \in DOMAIN t |-> Protect(Normalize(t[i]), i)]
  /\ out' = <<>> /\ scan' = "running" /\ cleared' = {}

\* Patterns run one after the other, each from left to right: those for
\* identifiers come first, and those for contexts take the context with them.
Identifiers == {i \in DOMAIN text : Form(text[i]) = "ip"}
InContext == {i \in DOMAIN text : text[i].contexts # <<>>}

NextContexts ==
  {i \in InContext :
     \A j \in InContext : Rank(Head(text[i].contexts)) <= Rank(Head(text[j].contexts))}

First(S) == CHOOSE i \in S : \A j \in S : i <= j

\* The next match of a pattern is at position i.
Match(i) ==
  \/ Identifiers # {} /\ i = First(Identifiers)
  \/ Identifiers = {} /\ NextContexts # {} /\ i = First(NextContexts)

\* The value of a match, and the word that replaces it if its token is t.
Matched(w) == IF Form(w) = "ip" THEN w.core ELSE <<Head(w.contexts), w.core>>

Replaced(w, t) ==
  [w EXCEPT !.core = <<"eight", t>>,
            !.contexts = IF Form(w) = "ip" THEN @ ELSE Tail(@)]

-----------------------------------------------------------------------------
(* Layer 2 *)

Occurrences(w) ==
  LET bare  == {i \in DOMAIN text : text[i].core = w.core /\ text[i].label = "none"}
      whole == {i \in DOMAIN text : text[i].core = w.core /\ text[i].label = w.label}
  IN  Cardinality(IF bare # {} THEN bare ELSE whole)

Role(w) ==
  CASE Form(w) \in {"eight", "small"} -> "METRIC"
    [] Form(w) = "event" -> "EVENT"
    [] OTHER -> "VALUE"

Source == IF job <= Len(Canaries) THEN Canaries[job].source ELSE source

\* The signals that _risk_score adds up for the word.
Signals(w) ==
     (IF Role(w) = "VALUE" /\ w.label # "none" THEN {"value"} ELSE {})
  \cup (IF Form(w) \in {"odd", "dense", "random", "date"} THEN {"unknown"} ELSE {})
  \cup (IF Source = "AUTH" THEN {"auth"} ELSE {})
  \cup (IF Form(w) \in {"dense", "random"} THEN {"entropy"} ELSE {})
  \cup (IF Occurrences(w) <= 1 THEN {"unique"} ELSE {})

Weight(signal) ==  \* in tenths
  CASE signal = "value" -> 4 [] signal = "unknown" -> 3
    [] signal \in {"auth", "entropy"} -> 2 [] signal = "unique" -> 1

\* The sums of doubles that fall short of 0.8 where the weights add up to it.
RoundedDown == {{"value", "unknown", "unique"}, {"unknown", "auth", "entropy", "unique"}}

Score(signals) ==
  LET points(signal) == IF signal \in signals THEN Weight(signal) ELSE 0
  IN  points("value") + points("unknown") + points("auth") + points("entropy") + points("unique")

DecideMutant(signals) ==  \* score <= SAFE_MAX is safe
  LET tenths == Score(signals)
  IN  CASE tenths <= 3 -> "SAFE" [] tenths < 6 -> "SANITIZE"
        [] tenths < 8 \/ signals \in RoundedDown -> "TOKENIZE" [] OTHER -> "ESCALATE"

Decide(signals) ==
  LET tenths == Score(signals)
  IN  CASE tenths < 3 -> "SAFE"
        [] tenths >= 3 /\ tenths < 6 -> "SANITIZE"
        [] tenths >= 6 /\ (tenths < 8 \/ signals \in RoundedDown) -> "TOKENIZE"
        [] OTHER -> "ESCALATE"

-----------------------------------------------------------------------------
(* Layers 3 and 4 *)

Registered(w) == Form(w) = "eight" /\ w.core[2] \in Range(vault)

L3CleanMutant(w) ==  \* the headers of private keys are not looked for
  /\ Form(w) \notin {"ip", "random"} /\ "path" \notin Range(w.contexts)
  /\ "user" \in Range(w.contexts) => Registered(w)

L3Clean(w) ==
  /\ Form(w) \notin {"ip", "header", "random"} /\ "path" \notin Range(w.contexts)
  /\ "user" \in Range(w.contexts) => Registered(w)

L4ProvenMutant(w) == TRUE  \* the whitelist has no upper end

\* Dates split into integers below 10000, which are whitelisted.
L4Proven(w) == Form(w) = "eight" => Registered(w)

-----------------------------------------------------------------------------
Init ==
  /\ vault = <<>> /\ raw = {} /\ alarms = 0
  /\ stage = "idle" /\ job = 1 /\ source = "OTHER" /\ runs = 0
  /\ log = <<>> /\ held = <<>> /\ text = <<>> /\ out = <<>>
  /\ scan = "running" /\ cleared = {} /\ outcome = "none"

Payload(j, l) == IF j <= Len(Canaries) THEN Canaries[j].text ELSE l

\* run_pipeline(l, ...) is called; Layer 2 will take l for a log of class s.
Run(l, s) ==
  /\ stage = "idle" /\ runs + Len(l) <= MaxWords
  /\ runs' = runs + 1 /\ job' = 1 /\ log' = l /\ source' = s
  /\ outcome' = "none"
  /\ raw' = raw \cup {w.core[2] : w \in {v \in Range(l) : Form(v) = "eight"}}
  /\ EnterL1(Payload(1, l))
  /\ UNCHANGED <<vault, alarms>>

Stop(how) ==
  /\ stage' = "idle" /\ outcome' = how
  /\ UNCHANGED <<job, source, log, held, out, scan, cleared, runs, raw>>

L1Replace ==
  /\ stage = "l1"
  /\ \E i \in DOMAIN text, t \in Tokens :
       /\ Match(i)
       /\ Tokenize(Matched(text[i]), t)
       /\ text' = [text EXCEPT ![i] = Replaced(@, t)]
  /\ UNCHANGED <<stage, job, source, log, held, out, scan, cleared, outcome, runs, raw, alarms>>

\* sanitize raises; run_pipeline lets it through.
L1Raises ==
  /\ stage = "l1"
  /\ \E i \in DOMAIN text : Match(i) /\ SaveRaises(Matched(text[i]))
  /\ Stop("raised")
  /\ UNCHANGED <<text, alarms>>

L1Returns ==
  /\ stage = "l1" /\ Identifiers = {} /\ InContext = {}
  /\ text' = [i \in DOMAIN text |-> Restore(text[i])]
  /\ stage' = "l2"
  /\ UNCHANGED <<vault, job, source, log, held, out, scan, cleared, outcome, runs, raw, alarms>>

\* Layer 2 comes to the next word of the text, w, and the decision is d.
AtWord(w, d) ==
  /\ stage = "l2" /\ Len(out) < Len(text)
  /\ w = text[Len(out) + 1]
  /\ d = IF w.comment THEN "SAFE" ELSE Decide(Signals(w))
  /\ UNCHANGED <<job, source, log, held, outcome, runs, raw, alarms>>

L2Keep ==
  \E w \in Range(text) :
    /\ AtWord(w, "SAFE")
    /\ out' = Append(out, w)
    /\ UNCHANGED <<vault, stage, text, scan, cleared>>

\* SANITIZE, TOKENIZE, and ESCALATE unless the auditor answers NO.  A save that
\* fails after the auditor answered is caught, and tokenize is called again,
\* which finds the mapping and saves nothing.
L2Replace ==
  \E w \in Range(text), d \in {"SANITIZE", "TOKENIZE", "ESCALATE"}, t \in Tokens :
    /\ AtWord(w, d)
    /\ Tokenize(w.core, t)
    /\ out' = Append(out, [w EXCEPT !.core = <<"eight", t>>])
    /\ UNCHANGED <<stage, text, scan, cleared>>

L2Cleared ==
  \E w \in Range(text) :
    /\ AtWord(w, "ESCALATE")
    /\ out' = Append(out, w)
    /\ cleared' = cleared \cup {Len(out) + 1}
    /\ UNCHANGED <<vault, stage, text, scan>>

\* The scan fails open: its result is the text it was called with.  A word that
\* is escalated gets here if the auditor fails first, since the only call of
\* tokenize is then the one that handles the failure.
L2Raises ==
  \E w \in Range(text), d \in {"SANITIZE", "TOKENIZE", "ESCALATE"} :
    /\ AtWord(w, d)
    /\ SaveRaises(w.core)
    /\ stage' = "l3" /\ scan' = "raised"
    /\ out' = <<>> /\ cleared' = {}
    /\ UNCHANGED text

L2Returns ==
  /\ stage = "l2" /\ Len(out) = Len(text)
  /\ text' = out /\ out' = <<>>
  /\ stage' = "l3" /\ scan' = "done"
  /\ UNCHANGED <<vault, job, source, log, held, cleared, outcome, runs, raw, alarms>>

L3Passes == \A w \in Range(text) : L3Clean(w)

\* CanarySystem._verify: a canary leaks if its needle is still there.
CanaryLeaks == L3Passes /\ \E w \in Range(text) : w.core = Needle(Canaries[job]).core

CanaryCaught ==
  /\ stage = "l3" /\ job <= Len(Canaries) /\ ~ CanaryLeaks
  /\ job' = job + 1
  /\ EnterL1(Payload(job + 1, log))
  /\ UNCHANGED <<vault, source, log, outcome, runs, raw, alarms>>

CanaryAlarm ==
  /\ stage = "l3" /\ job <= Len(Canaries) /\ CanaryLeaks
  /\ alarms' = IF scan = "raised" THEN alarms + 1 ELSE alarms
  /\ Stop("canary_failure")
  /\ UNCHANGED <<vault, text>>

L3Check ==
  /\ stage = "l3" /\ job > Len(Canaries)
  /\ \/ ~ L3Passes /\ Stop("blocked_l3")
     \/ /\ L3Passes /\ stage' = "l4"
        /\ UNCHANGED <<job, source, log, held, out, scan, cleared, outcome, runs, raw>>
  /\ UNCHANGED <<vault, text, alarms>>

L4Verify ==
  /\ stage = "l4"
  /\ \/ (\E w \in Range(text) : ~ L4Proven(w)) /\ Stop("blocked_l4")
     \/ (\A w \in Range(text) : L4Proven(w)) /\ Stop("released")
  /\ UNCHANGED <<vault, text, alarms>>

Next ==
  \/ \E l \in Logs, s \in Class : Run(l, s)
  \/ L1Replace \/ L1Raises \/ L1Returns
  \/ L2Keep \/ L2Replace \/ L2Cleared \/ L2Raises \/ L2Returns
  \/ CanaryCaught \/ CanaryAlarm \/ L3Check \/ L4Verify

Spec == Init /\ [][Next]_vars

-----------------------------------------------------------------------------
(* Properties *)

\* A word with the placeholder of a date in it.
Protected == [core : {"placeholder"} \X Nat, label : {"none", "key"},
              contexts : Seq(Range(Contexts)), comment : BOOLEAN]

\* The variables have their types; the placeholders of Layer 1 are in the text
\* while Layer 1 works and at no other time.
TypeOK ==
  /\ stage \in {"idle", "l1", "l2", "l3", "l4"}
  /\ job \in 1..(Len(Canaries) + 1) /\ source \in Class
  /\ log \in Seq(Word) /\ held \in Seq(Word) /\ out \in Seq(Word)
  /\ text \in Seq(IF stage = "l1" \/ outcome = "raised" THEN Word \cup Protected ELSE Word)
  /\ Len(text) = Len(held) /\ Len(out) <= Len(text)
  /\ scan \in {"running", "done", "raised"} /\ cleared \subseteq DOMAIN text
  /\ outcome \in {"none", "raised", "canary_failure", "blocked_l3", "blocked_l4", "released"}
  /\ Range(vault) \subseteq Tokens /\ raw \subseteq Names
  /\ runs \in Nat /\ alarms \in Nat

\* Whichever layer failed on the way, a released text holds nothing that the
\* egress check knows, and no long number without a proof in the vault.
ReleasedIsProven ==
  outcome = "released" =>
    \A w \in Range(text) :
      /\ Form(w) \notin {"ip", "encoded", "header", "random"}
      /\ w.contexts = <<>>
      /\ Form(w) = "eight" => \E value \in DOMAIN vault : vault[value] = w.core[2]

\* One step back through the vault: the token gives way to its value.
Peel(w) ==
  IF ~ Registered(w) THEN w
  ELSE LET value == CHOOSE v \in DOMAIN vault : vault[v] = w.core[2]
       IN  IF value[1] \in Range(Contexts)
           THEN [w EXCEPT !.contexts = <<value[1]>> \o @, !.core = value[2]]
           ELSE [w EXCEPT !.core = value]

\* As many steps back as there are; tokens may stand for texts with tokens.
Original(w) ==
  LET peeled[n \in 0..Cardinality(DOMAIN vault)] ==
        IF n = 0 THEN w ELSE Peel(peeled[n - 1])
  IN  peeled[Cardinality(DOMAIN vault)]

\* A released text can be turned back into the log with the vault, through
\* tokens of tokens of Layers 1 and 2, after failed saves and abandoned scans,
\* unless a log contained a number that happens to be a token, and up to a date
\* in a context, of which the vault keeps only the placeholder.
Reversible ==
  outcome = "released" /\ raw \cap Range(vault) = {} =>
    \A i \in DOMAIN text :
      \/ Original(text[i]) = held[i]
      \/ /\ held[i].contexts # <<>> /\ Form(held[i]) = "date"
         /\ Original(text[i]) = Protect(held[i], i)

\* An identifier that only Layer 2 can tell is in the clear in a released text
\* only on a comment line, after an abandoned scan, or cleared by the auditor;
\* and the auditor is asked only about values after "=" or ":", that are dense or
\* in an authentication log.
ClearForAReason ==
  outcome = "released" =>
    \A i \in DOMAIN text :
      Form(text[i]) \in {"odd", "dense"} =>
        \/ text[i].comment \/ scan = "raised"
        \/ /\ i \in cleared /\ text[i].label = "key"
           /\ source = "AUTH" \/ Form(text[i]) = "dense"

\* A canary fails only if its scan was abandoned or the auditor cleared its
\* needle: no log that was scanned before it, and no token, makes it fail.
AlarmForAReason ==
  outcome = "canary_failure" =>
    \/ scan = "raised"
    \/ \E i \in cleared : text[i].core = Needle(Canaries[job]).core

\* The words of the canaries that only Layer 2 can catch.
AlarmWords ==
  UNION {{w.core : w \in Range(c.text)} : c \in {d \in Range(Canaries) : PastL1(d)}}

\* A Layer 2 that cannot save does not block a session for ever: each failed
\* save has left its mapping behind, so the canaries fail behind an abandoned
\* scan once for each of their words at most, and then pass.
AbandonedAlarmsRunOut == alarms <= Cardinality(AlarmWords)

\* layer2.py, at the return of the unchanged text: "fail open on scan error,
\* Layer 3 catches leaks".
ScanFailureCaught ==
  outcome = "released" /\ scan = "raised" =>
    \A w \in Range(text) : Form(w) \in {"odd", "dense"} => w.comment

\* transformer.py, on timestamps: "Layer 1 protects date/time substrings from
\* tokenization so the original format survives into the SFL stage".
DatesReachTransformer ==
  outcome = "released" /\ scan = "done" =>
    \A i \in DOMAIN held : Form(held[i]) = "date" => Form(text[i]) = "date"

\* The pipeline keeps what it promises its caller: see Sanitizer.
Contract ==
  INSTANCE Sanitizer WITH
    Clear    <- {w \in Word : w.contexts = <<>> /\
                   Form(w) \notin {"ip", "encoded", "header", "random", "eight"}},
    Long     <- {w \in Word : w.contexts = <<>> /\ Form(w) = "eight"},
    NumberOf <- [w \in Word |-> w.core[2]],
    released <- IF outcome = "released" THEN {text} ELSE {}

ImplementsSanitizer == Contract!Spec
=============================================================================
