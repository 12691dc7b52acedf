--------------------------- MODULE PipelineProofs ---------------------------
(***************************************************************************)
(* Proofs about Pipeline, for any logs, canaries, tokens and bounds.  IInv *)
(* is the inductive invariant: the types, what Layer 1 leaves behind, and  *)
(* what the gates have established about the text when each is passed.     *)
(***************************************************************************)
EXTENDS Pipeline, FiniteSetTheorems, WellFoundedInduction, TLAPS

\* While Layer 1 works, a placeholder stands where the date it replaces was.
Placed ==
  stage = "l1" =>
    \A i \in DOMAIN text :
      text[i] \in Word \/ (text[i] \in Protected /\ text[i].core[2] = i)

\* Nothing encoded is left once a text is normalized.
Decoded ==
  /\ \A i \in DOMAIN held : Form(held[i]) # "encoded"
  /\ \A i \in DOMAIN text : Form(text[i]) # "encoded"
  /\ \A i \in DOMAIN out : Form(out[i]) # "encoded"

Busy == stage # "idle" => outcome = "none"

\* What the two gates have found of the text that is past them.
Gated ==
  /\ stage = "l4" => L3Passes
  /\ outcome = "released" => L3Passes /\ (\A w \in Range(text) : L4Proven(w))

\* Past Layer 1 no word stands in a context any more.
Consumed ==
  /\ stage = "l1" => out = <<>>
  /\ stage \in {"l2", "l3", "l4"} \/ outcome = "released" =>
       \A i \in DOMAIN text : text[i].contexts = <<>>
  /\ stage = "l2" => \A i \in DOMAIN out : out[i].contexts = <<>>

IInv == TypeOK /\ Placed /\ Decoded /\ Consumed /\ Busy /\ Gated

-----------------------------------------------------------------------------

LEMMA WordFields ==
  ASSUME NEW w \in Word
  PROVE  /\ w.core = <<w.core[1], w.core[2]>> /\ w.core[1] \in Forms /\ w.core[2] \in Names
         /\ w.label \in {"none", "key"} /\ w.contexts \in Seq(Range(Contexts))
         /\ w.comment \in BOOLEAN
  BY DEF Word

LEMMA NormalizeFacts ==
  ASSUME NEW w \in Word
  PROVE  Normalize(w) \in Word /\ Form(Normalize(w)) # "encoded"
<1>1. CASE Form(w) = "encoded"
  <2>1. Normalize(w) = [w EXCEPT !.core = <<"ip", w.core[2]>>]
    BY <1>1 DEF Normalize
  <2>2. <<"ip", w.core[2]>> \in Forms \X Names
    BY WordFields DEF Forms
  <2>3. [w EXCEPT !.core = <<"ip", w.core[2]>>] \in Word
    BY <2>2 DEF Word
  <2>4. [w EXCEPT !.core = <<"ip", w.core[2]>>].core = <<"ip", w.core[2]>>
    BY DEF Word
  <2> QED
    BY <2>1, <2>3, <2>4 DEF Form
<1>2. CASE Form(w) # "encoded"
  BY <1>2 DEF Normalize
<1> QED
  BY <1>1, <1>2

LEMMA ProtectFacts ==
  ASSUME NEW w \in Word, NEW i \in Nat, Form(w) # "encoded"
  PROVE  /\ Protect(w, i) \in Word \/ (Protect(w, i) \in Protected /\ Protect(w, i).core[2] = i)
         /\ Form(Protect(w, i)) # "encoded"
<1>1. CASE Form(w) = "date"
  <2>1. Protect(w, i) = [w EXCEPT !.core = <<"placeholder", i>>]
    BY <1>1 DEF Protect
  <2>2. [w EXCEPT !.core = <<"placeholder", i>>] \in Protected
    BY DEF Word, Protected
  <2>3. [w EXCEPT !.core = <<"placeholder", i>>].core = <<"placeholder", i>>
    BY DEF Word
  <2> QED
    BY <2>1, <2>2, <2>3 DEF Form
<1>2. CASE Form(w) # "date"
  BY <1>2 DEF Protect
<1> QED
  BY <1>1, <1>2

\* Whatever sanitize is called with, its text is decoded and protected.
LEMMA EnterL1Facts ==
  ASSUME NEW t \in Seq(Word), EnterL1(t)
  PROVE  /\ stage' = "l1" /\ scan' = "running" /\ cleared' = {} /\ out' = <<>>
         /\ held' \in Seq(Word) /\ text' \in Seq(Word \cup Protected)
         /\ Len(text') = Len(held')
         /\ Placed' /\ Decoded'
<1> DEFINE h == [i \in DOMAIN t |-> Normalize(t[i])]
           x == [i \in DOMAIN t |-> Protect(Normalize(t[i]), i)]
<1>1. DOMAIN t = 1..Len(t) /\ Len(t) \in Nat /\ \A i \in DOMAIN t : t[i] \in Word /\ i \in Nat
  OBVIOUS
<1>2. \A i \in DOMAIN t : Normalize(t[i]) \in Word /\ Form(Normalize(t[i])) # "encoded"
  BY <1>1, NormalizeFacts
<1>3. \A i \in DOMAIN t :
        LET w == Protect(Normalize(t[i]), i)
        IN  (w \in Word \/ (w \in Protected /\ w.core[2] = i)) /\ Form(w) # "encoded"
  BY <1>1, <1>2, ProtectFacts
<1>4. h \in Seq(Word) /\ Len(h) = Len(t)
  BY <1>1, <1>2
<1>5. x \in Seq(Word \cup Protected) /\ Len(x) = Len(t)
  BY <1>1, <1>3
<1>6. held' = h /\ text' = x /\ out' = <<>> /\ stage' = "l1" /\ scan' = "running" /\ cleared' = {}
  BY DEF EnterL1
<1>7. Placed'
  BY <1>3, <1>6 DEF Placed
<1>8. Decoded'
  BY <1>2, <1>3, <1>6 DEF Decoded
<1> QED
  BY <1>4, <1>5, <1>6, <1>7, <1>8

LEMMA PayloadFacts ==
  ASSUME NEW j \in Nat \ {0}, NEW l \in Seq(Word)
  PROVE  Payload(j, l) \in Seq(Word)
<1>1. CASE j <= Len(Canaries)
  <2>1. Canaries[j] \in Canary
    BY <1>1, PipelineConstants
  <2> QED
    BY <1>1, <2>1 DEF Payload, Canary
<1>2. CASE ~ (j <= Len(Canaries))
  BY <1>2 DEF Payload
<1> QED
  BY <1>1, <1>2

\* A word whose core gives way to a token is a word.
LEMMA TokenWord ==
  ASSUME NEW w \in Word \cup Protected, NEW t \in Tokens, NEW u,
         \/ u = [w EXCEPT !.core = <<"eight", t>>]
         \/ w.contexts # <<>> /\ u = [w EXCEPT !.core = <<"eight", t>>, !.contexts = Tail(@)]
  PROVE  /\ u \in Word /\ Form(u) = "eight" /\ u.label = w.label /\ u.comment = w.comment
         /\ u = [w EXCEPT !.core = <<"eight", t>>] => u.contexts = w.contexts
<1>1. <<"eight", t>> \in Forms \X Names
  BY PipelineConstants DEF Forms
<1>2. w.contexts \in Seq(Range(Contexts))
  BY DEF Word, Protected
<1>3. w.contexts # <<>> => Tail(w.contexts) \in Seq(Range(Contexts))
  BY <1>2
<1>4. u \in Word
  BY <1>1, <1>3 DEF Word, Protected
<1>5. /\ u.core = <<"eight", t>> /\ u.label = w.label /\ u.comment = w.comment
      /\ u = [w EXCEPT !.core = <<"eight", t>>] => u.contexts = w.contexts
  BY DEF Word, Protected
<1> QED
  BY <1>4, <1>5 DEF Form

\* Layer 1 replaces an identifier, or a value together with its context.
LEMMA ReplacedWord ==
  ASSUME NEW w \in Word \cup Protected, NEW t \in Tokens, Form(w) = "ip" \/ w.contexts # <<>>
  PROVE  /\ Replaced(w, t) \in Word /\ Form(Replaced(w, t)) = "eight"
         /\ Replaced(w, t).comment = w.comment
<1>1. CASE Form(w) = "ip"
  <2>1. Replaced(w, t) = [w EXCEPT !.core = <<"eight", t>>]
    BY <1>1 DEF Replaced, Word, Protected
  <2> QED
    BY <2>1, TokenWord
<1>2. CASE Form(w) # "ip"
  <2>1. Replaced(w, t) = [w EXCEPT !.core = <<"eight", t>>, !.contexts = Tail(@)]
    BY <1>2 DEF Replaced
  <2> QED
    BY <1>2, <2>1, TokenWord
<1> QED
  BY <1>1, <1>2

LEMMA LeastNumber ==
  ASSUME NEW S \in SUBSET Nat, S # {}
  PROVE  \E n \in S : \A m \in S : n <= m
<1> DEFINE Less == OpToRel(<, Nat)
<1>1. Less = {p \in Nat \X Nat : p[1] < p[2]}
  BY DEF OpToRel
<1>2. IsWellFoundedOn(Less, Nat)
  BY NatLessThanWellFounded, Zenon
<1> HIDE DEF Less
<1>3. PICK n \in S : \A m \in S : ~ (<<m, n>> \in Less)
  BY <1>2, WFMin, Zenon
<1>4. ASSUME NEW m \in S PROVE n <= m
  <2>1. m \in Nat /\ n \in Nat
    OBVIOUS
  <2>2. <<m, n>> \in Nat \X Nat /\ <<m, n>>[1] = m /\ <<m, n>>[2] = n
    BY <2>1
  <2>3. ~ (m < n)
    BY <1>1, <1>3, <2>2
  <2> QED
    BY <2>1, <2>3
<1> QED
  BY <1>4

\* The first of a pattern's matches is one of them.
LEMMA FirstIs ==
  ASSUME NEW S \in SUBSET Nat, S # {}
  PROVE  First(S) \in S
<1>1. \E n \in S : \A m \in S : n <= m
  BY LeastNumber
<1> QED
  BY <1>1, Zenon DEF First

\* A match is an identifier, or a value in a context.
LEMMA MatchIs ==
  ASSUME IInv, stage = "l1", NEW i \in DOMAIN text, Match(i)
  PROVE  \/ Form(text[i]) = "ip"
         \/ Form(text[i]) # "ip" /\ text[i].contexts # <<>>
<1>1. DOMAIN text \subseteq Nat
  BY DEF IInv, TypeOK
<1>2. CASE Identifiers # {} /\ i = First(Identifiers)
  <2>1. Identifiers \subseteq Nat
    BY <1>1 DEF Identifiers
  <2>2. i \in Identifiers
    BY <1>2, <2>1, FirstIs
  <2> QED
    BY <2>2 DEF Identifiers
<1>3. CASE Identifiers = {} /\ NextContexts # {} /\ i = First(NextContexts)
  <2>1. NextContexts \subseteq InContext /\ NextContexts \subseteq Nat
    BY <1>1 DEF NextContexts, InContext
  <2>2. i \in InContext
    BY <1>3, <2>1, FirstIs
  <2> QED
    BY <1>3, <2>2 DEF InContext, Identifiers
<1> QED
  BY <1>2, <1>3 DEF Match

LEMMA StoreRange ==
  ASSUME NEW value, NEW t \in Tokens, Store(value, t), Range(vault) \subseteq Tokens
  PROVE  Range(vault') \subseteq Tokens
  BY DEF Store, Range

LEMMA TokenizeRange ==
  ASSUME NEW value, NEW t \in Tokens, Tokenize(value, t), Range(vault) \subseteq Tokens
  PROVE  Range(vault') \subseteq Tokens
<1>1. CASE UNCHANGED vault
  BY <1>1
<1>2. CASE Store(value, t)
  BY <1>2, StoreRange
<1> QED
  BY <1>1, <1>2 DEF Tokenize

LEMMA SaveRaisesRange ==
  ASSUME NEW value, SaveRaises(value), Range(vault) \subseteq Tokens
  PROVE  Range(vault') \subseteq Tokens
<1>1. PICK t \in Fresh : Store(value, t)
  BY DEF SaveRaises
<1>2. t \in Tokens
  BY <1>1 DEF Fresh
<1> QED
  BY <1>1, <1>2, StoreRange

-----------------------------------------------------------------------------

LEMMA InitIInv == Init => IInv
<1> SUFFICES ASSUME Init PROVE IInv
  OBVIOUS
<1>1. <<>> \in Seq(Word) /\ Len(<<>>) = 0 /\ DOMAIN <<>> = {}
  OBVIOUS
<1>2. 1 \in 1..(Len(Canaries) + 1)
  BY PipelineConstants
<1>3. Range(<<>>) = {}
  BY DEF Range
<1>4. TypeOK
  BY <1>1, <1>2, <1>3 DEF Init, TypeOK, Class
<1> QED
  BY <1>1, <1>4 DEF Init, IInv, Placed, Decoded, Consumed, Busy, Gated

LEMMA RunIInv ==
  ASSUME IInv, NEW l \in Logs, NEW s \in Class, Run(l, s)
  PROVE  IInv'
<1>1. l \in Seq(Word)
  BY PipelineConstants DEF Logs
<1>2. Payload(1, l) \in Seq(Word)
  BY <1>1, PayloadFacts
<1>3. EnterL1(Payload(1, l))
  BY DEF Run
<1>4. /\ stage' = "l1" /\ scan' = "running" /\ cleared' = {} /\ out' = <<>>
      /\ held' \in Seq(Word) /\ text' \in Seq(Word \cup Protected)
      /\ Len(text') = Len(held') /\ Placed' /\ Decoded'
  BY <1>2, <1>3, EnterL1Facts
<1>5. \A w \in Range(l) : w.core[2] \in Names
  <2>1. \A w \in Range(l) : w \in Word
    BY <1>1 DEF Range
  <2> QED
    BY <2>1, WordFields
<1>6. raw' \subseteq Names
  BY <1>5 DEF Run, IInv, TypeOK
<1>7. outcome' = "none" /\ log' = l /\ source' = s /\ job' = 1 /\ runs' = runs + 1
      /\ vault' = vault /\ alarms' = alarms
  BY DEF Run
<1>8. 1 \in 1..(Len(Canaries) + 1) /\ Len(<<>>) <= Len(text')
  BY <1>4, PipelineConstants
<1>9. TypeOK'
  BY <1>1, <1>4, <1>6, <1>7, <1>8 DEF IInv, TypeOK
<1>10. Consumed' /\ Busy' /\ Gated'
  BY <1>4, <1>7 DEF Consumed, Busy, Gated
<1> QED
  BY <1>4, <1>9, <1>10 DEF IInv

LEMMA L1ReplaceIInv ==
  ASSUME IInv, L1Replace
  PROVE  IInv'
<1>1. PICK i \in DOMAIN text, t \in Tokens :
        Match(i) /\ Tokenize(Matched(text[i]), t) /\ text' = [text EXCEPT ![i] = Replaced(@, t)]
  BY DEF L1Replace
<1>2. /\ stage = "l1" /\ outcome = "none"
      /\ UNCHANGED <<stage, job, source, log, held, out, scan, cleared, outcome, runs, raw, alarms>>
  BY DEF L1Replace, IInv, Busy
<1>3. text \in Seq(Word \cup Protected) /\ Len(text) \in Nat /\ DOMAIN text = 1..Len(text)
  BY <1>2 DEF IInv, TypeOK
<1>4. Replaced(text[i], t) \in Word /\ Form(Replaced(text[i], t)) # "encoded"
  <2>1. text[i] \in Word \cup Protected
    BY <1>3
  <2> QED
    BY <1>1, <1>2, <2>1, MatchIs, ReplacedWord
<1>5. /\ text' \in Seq(Word \cup Protected) /\ Len(text') = Len(text) /\ DOMAIN text' = DOMAIN text
      /\ \A j \in DOMAIN text : text'[j] = IF j = i THEN Replaced(text[i], t) ELSE text[j]
  BY <1>1, <1>3, <1>4
<1>6. Range(vault') \subseteq Tokens
  BY <1>1, TokenizeRange DEF IInv, TypeOK
<1>7. TypeOK'
  BY <1>2, <1>5, <1>6 DEF IInv, TypeOK
<1>8. Placed' /\ Decoded'
  BY <1>2, <1>4, <1>5 DEF IInv, Placed, Decoded
<1>9. Consumed' /\ Busy' /\ Gated'
  BY <1>2 DEF IInv, Consumed, Busy, Gated
<1> QED
  BY <1>7, <1>8, <1>9 DEF IInv

\* A run that stops outside the gates leaves nothing to show for them.
LEMMA StopIInv ==
  ASSUME IInv, NEW how, Stop(how), UNCHANGED text, Range(vault') \subseteq Tokens, alarms' \in Nat,
         how \in {"raised", "canary_failure", "blocked_l3", "blocked_l4"},
         stage # "idle", stage = "l1" => how = "raised"
  PROVE  IInv'
<1>1. outcome = "none" /\ outcome' = how /\ stage' = "idle" /\ text' = text
  BY DEF IInv, Busy, Stop
<1>2. UNCHANGED <<job, source, log, held, out, scan, cleared, runs, raw>>
  BY DEF Stop
<1>3. text \in Seq(IF stage' = "l1" \/ outcome' = "raised" THEN Word \cup Protected ELSE Word)
  <2>1. CASE stage = "l1"
    BY <1>1, <2>1 DEF IInv, TypeOK
  <2>2. CASE stage # "l1"
    <3>1. text \in Seq(Word)
      BY <1>1, <2>2 DEF IInv, TypeOK
    <3>2. text \in Seq(Word \cup Protected)
      BY <3>1
    <3> QED
      BY <3>1, <3>2
  <2> QED
    BY <2>1, <2>2
<1>4. TypeOK'
  BY <1>1, <1>2, <1>3 DEF IInv, TypeOK
<1>5. Placed' /\ Decoded' /\ Consumed' /\ Busy' /\ Gated'
  BY <1>1, <1>2 DEF IInv, Placed, Decoded, Consumed, Busy, Gated
<1> QED
  BY <1>4, <1>5 DEF IInv

LEMMA L1RaisesIInv ==
  ASSUME IInv, L1Raises
  PROVE  IInv'
<1>1. \E value : SaveRaises(value)
  BY DEF L1Raises
<1>2. Range(vault') \subseteq Tokens
  BY <1>1, SaveRaisesRange DEF IInv, TypeOK
<1>3. Stop("raised") /\ UNCHANGED text /\ alarms' = alarms /\ stage = "l1"
  BY DEF L1Raises
<1>4. alarms' \in Nat
  BY <1>3 DEF IInv, TypeOK
<1> QED
  BY <1>2, <1>3, <1>4, StopIInv

LEMMA RestoreFacts ==
  ASSUME IInv, stage = "l1", NEW i \in DOMAIN text
  PROVE  /\ Restore(text[i]) \in Word /\ Form(Restore(text[i])) # "encoded"
         /\ Restore(text[i]).contexts = text[i].contexts
         /\ Restore(text[i]).comment = text[i].comment
<1>1. held \in Seq(Word) /\ Len(text) = Len(held) /\ DOMAIN text = DOMAIN held
  BY DEF IInv, TypeOK
<1>2. held[i] \in Word /\ Form(held[i]) # "encoded" /\ Form(text[i]) # "encoded"
  BY <1>1 DEF IInv, Decoded
<1>3. CASE text[i] \in Word
  <2>1. Form(text[i]) # "placeholder"
    BY <1>3, WordFields DEF Form, Forms
  <2> QED
    BY <1>2, <1>3, <2>1 DEF Restore
<1>4. CASE text[i] \in Protected /\ text[i].core[2] = i
  <2>1. Form(text[i]) = "placeholder"
    BY <1>4 DEF Form, Protected
  <2>2. Restore(text[i]) = [text[i] EXCEPT !.core = held[i].core]
    BY <1>4, <2>1 DEF Restore
  <2>3. held[i].core \in Forms \X Names
    BY <1>2 DEF Word
  <2>4. /\ [text[i] EXCEPT !.core = held[i].core] \in Word
        /\ [text[i] EXCEPT !.core = held[i].core].core = held[i].core
        /\ [text[i] EXCEPT !.core = held[i].core].contexts = text[i].contexts
        /\ [text[i] EXCEPT !.core = held[i].core].comment = text[i].comment
    BY <1>4, <2>3 DEF Word, Protected
  <2> QED
    BY <1>2, <2>2, <2>4 DEF Form
<1> QED
  BY <1>3, <1>4 DEF IInv, Placed

LEMMA L1ReturnsIInv ==
  ASSUME IInv, L1Returns
  PROVE  IInv'
<1>1. /\ stage = "l1" /\ stage' = "l2" /\ outcome = "none"
      /\ text' = [i \in DOMAIN text |-> Restore(text[i])]
      /\ UNCHANGED <<vault, job, source, log, held, out, scan, cleared, outcome, runs, raw, alarms>>
  BY DEF L1Returns, IInv, Busy
<1>2. DOMAIN text = 1..Len(text) /\ Len(text) \in Nat
  <2>1. text \in Seq(Word \cup Protected)
    BY <1>1 DEF IInv, TypeOK
  <2> QED
    BY <2>1
<1>3. \A i \in DOMAIN text : /\ Restore(text[i]) \in Word /\ Form(Restore(text[i])) # "encoded"
                             /\ Restore(text[i]).contexts = <<>>
  BY <1>1, RestoreFacts DEF L1Returns, InContext
<1>4. text' \in Seq(Word) /\ Len(text') = Len(text) /\ DOMAIN text' = DOMAIN text
  BY <1>1, <1>2, <1>3
<1>5. TypeOK'
  BY <1>1, <1>4 DEF IInv, TypeOK
<1>6. Placed' /\ Decoded' /\ Consumed' /\ Busy' /\ Gated'
  BY <1>1, <1>3, <1>4 DEF IInv, Placed, Decoded, Consumed, Busy, Gated
<1> QED
  BY <1>5, <1>6 DEF IInv

\* Layer 2 appends a word to what it has scanned.
LEMMA ScannedIInv ==
  ASSUME IInv, NEW w, NEW d, AtWord(w, d), NEW u \in Word, Form(u) # "encoded", u.contexts = <<>>,
         out' = Append(out, u), UNCHANGED <<stage, text, scan>>,
         Range(vault') \subseteq Tokens, cleared' \in {cleared, cleared \cup {Len(out) + 1}}
  PROVE  IInv'
<1>1. /\ stage = "l2" /\ Len(out) < Len(text) /\ outcome = "none"
      /\ UNCHANGED <<job, source, log, held, outcome, runs, raw, alarms>>
  BY DEF AtWord, IInv, Busy
<1>2. out \in Seq(Word) /\ text \in Seq(Word) /\ DOMAIN text = 1..Len(text)
  BY <1>1 DEF IInv, TypeOK
<1>3. out' \in Seq(Word) /\ Len(out') = Len(out) + 1 /\ Len(out) \in Nat /\ Len(text) \in Nat
  BY <1>2
<1>4. \A i \in DOMAIN out' : Form(out'[i]) # "encoded" /\ out'[i].contexts = <<>>
  <2>1. \A i \in DOMAIN out' : (i \in DOMAIN out /\ out'[i] = out[i]) \/ out'[i] = u
    BY <1>2
  <2> QED
    BY <1>1, <2>1 DEF IInv, Decoded, Consumed
<1>5. cleared' \subseteq DOMAIN text
  BY <1>1, <1>2, <1>3 DEF IInv, TypeOK
<1>6. TypeOK'
  BY <1>1, <1>3, <1>5 DEF IInv, TypeOK
<1>7. Placed' /\ Decoded' /\ Consumed' /\ Busy' /\ Gated'
  BY <1>1, <1>4 DEF IInv, Placed, Decoded, Consumed, Busy, Gated
<1> QED
  BY <1>6, <1>7 DEF IInv

LEMMA AtWordFacts ==
  ASSUME IInv, NEW w, NEW d, AtWord(w, d)
  PROVE  w \in Word /\ Form(w) # "encoded" /\ w.contexts = <<>>
<1>1. stage = "l2" /\ outcome = "none" /\ Len(out) < Len(text) /\ w = text[Len(out) + 1]
  BY DEF AtWord, IInv, Busy
<1>2. text \in Seq(Word) /\ Len(out) \in Nat
  BY <1>1 DEF IInv, TypeOK
<1>3. Len(out) + 1 \in DOMAIN text
  BY <1>1, <1>2
<1> QED
  BY <1>1, <1>2, <1>3 DEF IInv, Decoded, Consumed

LEMMA L2KeepIInv ==
  ASSUME IInv, L2Keep \/ L2Cleared
  PROVE  IInv'
<1>1. PICK w, d : /\ AtWord(w, d) /\ out' = Append(out, w) /\ UNCHANGED <<vault, stage, text, scan>>
                  /\ cleared' \in {cleared, cleared \cup {Len(out) + 1}}
  BY DEF L2Keep, L2Cleared
<1>2. w \in Word /\ Form(w) # "encoded" /\ w.contexts = <<>>
  BY <1>1, AtWordFacts
<1>3. Range(vault') \subseteq Tokens
  BY <1>1 DEF IInv, TypeOK
<1> QED
  BY <1>1, <1>2, <1>3, ScannedIInv

LEMMA L2ReplaceIInv ==
  ASSUME IInv, L2Replace
  PROVE  IInv'
<1>1. PICK w, d, t : /\ t \in Tokens /\ AtWord(w, d) /\ Tokenize(w.core, t)
                     /\ out' = Append(out, [w EXCEPT !.core = <<"eight", t>>])
                     /\ UNCHANGED <<stage, text, scan, cleared>>
  BY DEF L2Replace
<1> DEFINE u == [w EXCEPT !.core = <<"eight", t>>]
<1>2. u \in Word /\ Form(u) # "encoded" /\ u.contexts = <<>>
  <2>1. w \in Word /\ w.contexts = <<>> /\ u = [w EXCEPT !.core = <<"eight", t>>]
    BY <1>1, AtWordFacts
  <2> HIDE DEF u
  <2> QED
    BY <1>1, <2>1, TokenWord
<1>3. Range(vault') \subseteq Tokens
  BY <1>1, TokenizeRange DEF IInv, TypeOK
<1> QED
  BY <1>1, <1>2, <1>3, ScannedIInv

LEMMA L2RaisesIInv ==
  ASSUME IInv, L2Raises
  PROVE  IInv'
<1>1. PICK w, d : AtWord(w, d) /\ SaveRaises(w.core)
                  /\ stage' = "l3" /\ scan' = "raised" /\ out' = <<>> /\ cleared' = {} /\ text' = text
  BY DEF L2Raises
<1>2. /\ stage = "l2" /\ outcome = "none"
      /\ UNCHANGED <<job, source, log, held, outcome, runs, raw, alarms>>
  BY <1>1 DEF AtWord, IInv, Busy
<1>3. Range(vault') \subseteq Tokens
  BY <1>1, SaveRaisesRange DEF IInv, TypeOK
<1>4. out' \in Seq(Word) /\ Len(out') = 0 /\ DOMAIN out' = {} /\ Len(out') <= Len(text)
  BY <1>1 DEF IInv, TypeOK
<1>5. TypeOK'
  BY <1>1, <1>2, <1>3, <1>4 DEF IInv, TypeOK
<1>6. Placed' /\ Decoded' /\ Consumed' /\ Busy' /\ Gated'
  BY <1>1, <1>2, <1>4 DEF IInv, Placed, Decoded, Consumed, Busy, Gated
<1> QED
  BY <1>5, <1>6 DEF IInv

LEMMA L2ReturnsIInv ==
  ASSUME IInv, L2Returns
  PROVE  IInv'
<1>1. /\ stage = "l2" /\ outcome = "none" /\ Len(out) = Len(text) /\ text' = out /\ out' = <<>>
      /\ stage' = "l3" /\ scan' = "done"
      /\ UNCHANGED <<vault, job, source, log, held, cleared, outcome, runs, raw, alarms>>
  BY DEF L2Returns, IInv, Busy
<1>2. out \in Seq(Word) /\ text \in Seq(Word) /\ DOMAIN out = DOMAIN text
  BY <1>1 DEF IInv, TypeOK
<1>3. out' \in Seq(Word) /\ Len(out') = 0 /\ DOMAIN out' = {} /\ Len(out') <= Len(text')
  BY <1>1, <1>2
<1>4. TypeOK'
  BY <1>1, <1>2, <1>3 DEF IInv, TypeOK
<1>5. Placed' /\ Decoded' /\ Consumed' /\ Busy' /\ Gated'
  BY <1>1, <1>3 DEF IInv, Placed, Decoded, Consumed, Busy, Gated
<1> QED
  BY <1>4, <1>5 DEF IInv

LEMMA CanaryCaughtIInv ==
  ASSUME IInv, CanaryCaught
  PROVE  IInv'
<1>1. /\ stage = "l3" /\ outcome = "none" /\ job <= Len(Canaries) /\ job' = job + 1
      /\ EnterL1(Payload(job + 1, log))
      /\ UNCHANGED <<vault, source, log, outcome, runs, raw, alarms>>
  BY DEF CanaryCaught, IInv, Busy
<1>2. job \in Nat \ {0} /\ job + 1 \in Nat \ {0} /\ job' \in 1..(Len(Canaries) + 1) /\ log \in Seq(Word)
  BY <1>1, PipelineConstants DEF IInv, TypeOK
<1>3. Payload(job + 1, log) \in Seq(Word)
  BY <1>2, PayloadFacts
<1>4. /\ stage' = "l1" /\ scan' = "running" /\ cleared' = {} /\ out' = <<>>
      /\ held' \in Seq(Word) /\ text' \in Seq(Word \cup Protected)
      /\ Len(text') = Len(held') /\ Placed' /\ Decoded'
  BY <1>1, <1>3, EnterL1Facts
<1>5. Len(<<>>) <= Len(text')
  BY <1>4
<1>6. TypeOK'
  BY <1>1, <1>2, <1>4, <1>5 DEF IInv, TypeOK
<1>7. Consumed' /\ Busy' /\ Gated'
  BY <1>1, <1>4 DEF Consumed, IInv, Busy, Gated
<1> QED
  BY <1>4, <1>6, <1>7 DEF IInv

LEMMA CanaryAlarmIInv ==
  ASSUME IInv, CanaryAlarm
  PROVE  IInv'
<1>1. /\ stage = "l3" /\ Stop("canary_failure") /\ UNCHANGED <<vault, text>>
      /\ alarms' \in {alarms, alarms + 1}
  BY DEF CanaryAlarm
<1>2. Range(vault') \subseteq Tokens /\ alarms' \in Nat
  BY <1>1 DEF IInv, TypeOK
<1> QED
  BY <1>1, <1>2, StopIInv

LEMMA L3CheckIInv ==
  ASSUME IInv, L3Check
  PROVE  IInv'
<1>1. stage = "l3" /\ outcome = "none" /\ UNCHANGED <<vault, text, alarms>>
  BY DEF L3Check, IInv, Busy
<1>2. Range(vault') \subseteq Tokens /\ alarms' \in Nat
  BY <1>1 DEF IInv, TypeOK
<1>3. CASE Stop("blocked_l3")
  BY <1>1, <1>2, <1>3, StopIInv
<1>4. CASE L3Passes /\ stage' = "l4"
           /\ UNCHANGED <<job, source, log, held, out, scan, cleared, outcome, runs, raw>>
  <2>1. TypeOK'
    BY <1>1, <1>4 DEF IInv, TypeOK
  <2>2. L3Passes'
    BY <1>1, <1>4 DEF L3Passes, L3Clean, Registered, Form, Range
  <2>3. Placed' /\ Decoded' /\ Consumed' /\ Busy' /\ Gated'
    BY <1>1, <1>4, <2>2 DEF IInv, Placed, Decoded, Consumed, Busy, Gated
  <2> QED
    BY <2>1, <2>3 DEF IInv
<1> QED
  BY <1>3, <1>4 DEF L3Check

LEMMA L4VerifyIInv ==
  ASSUME IInv, L4Verify
  PROVE  IInv'
<1>1. stage = "l4" /\ outcome = "none" /\ UNCHANGED <<vault, text, alarms>>
  BY DEF L4Verify, IInv, Busy
<1>2. Range(vault') \subseteq Tokens /\ alarms' \in Nat
  BY <1>1 DEF IInv, TypeOK
<1>3. CASE Stop("blocked_l4")
  BY <1>1, <1>2, <1>3, StopIInv
<1>4. CASE (\A w \in Range(text) : L4Proven(w)) /\ Stop("released")
  <2>1. /\ stage' = "idle" /\ outcome' = "released"
        /\ UNCHANGED <<job, source, log, held, out, scan, cleared, runs, raw>>
    BY <1>4 DEF Stop
  <2>2. TypeOK'
    BY <1>1, <2>1 DEF IInv, TypeOK
  <2>3. L3Passes'
    BY <1>1 DEF IInv, Gated, L3Passes, L3Clean, Registered, Form, Range
  <2>4. \A w \in Range(text') : L4Proven(w)'
    BY <1>1, <1>4 DEF L4Proven, Registered, Form, Range
  <2>5. Placed' /\ Decoded' /\ Consumed' /\ Busy' /\ Gated'
    BY <1>1, <2>1, <2>3, <2>4 DEF IInv, Placed, Decoded, Consumed, Busy, Gated
  <2> QED
    BY <2>2, <2>5 DEF IInv
<1> QED
  BY <1>3, <1>4 DEF L4Verify

LEMMA StutterIInv ==
  ASSUME IInv, UNCHANGED vars
  PROVE  IInv'
  BY DEF vars, IInv, TypeOK, Placed, Decoded, Consumed, Busy, Gated, L3Passes, L3Clean, L4Proven,
         Registered, Form, Range

LEMMA NextIInv == IInv /\ [Next]_vars => IInv'
<1> SUFFICES ASSUME IInv, [Next]_vars PROVE IInv'
  OBVIOUS
<1>1. CASE \E l \in Logs, s \in Class : Run(l, s)
  BY <1>1, RunIInv
<1>2. CASE L1Replace \/ L1Raises \/ L1Returns
  BY <1>2, L1ReplaceIInv, L1RaisesIInv, L1ReturnsIInv
<1>3. CASE L2Keep \/ L2Replace \/ L2Cleared \/ L2Raises \/ L2Returns
  BY <1>3, L2KeepIInv, L2ReplaceIInv, L2RaisesIInv, L2ReturnsIInv
<1>4. CASE CanaryCaught \/ CanaryAlarm
  BY <1>4, CanaryCaughtIInv, CanaryAlarmIInv
<1>5. CASE L3Check \/ L4Verify
  BY <1>5, L3CheckIInv, L4VerifyIInv
<1>6. CASE UNCHANGED vars
  BY <1>6, StutterIInv
<1> QED
  BY <1>1, <1>2, <1>3, <1>4, <1>5, <1>6 DEF Next

LEMMA Invariance == Spec => []IInv
  BY InitIInv, NextIInv, PTL DEF Spec

-----------------------------------------------------------------------------

\* The variables of run_pipeline keep their types, and no placeholder leaves
\* Layer 1, whatever raises where.
THEOREM TypeCorrect == Spec => []TypeOK
<1>1. IInv => TypeOK
  BY DEF IInv
<1> QED
  BY <1>1, Invariance, PTL

\* What run_pipeline returns has passed both gates as it stands: nothing the
\* egress check knows is in it, and every long number is a token of the vault,
\* for any log, any canaries and any failure of a save on the way.
THEOREM ReleaseIsGated == Spec => []ReleasedIsProven
<1>1. IInv => ReleasedIsProven
  <2> SUFFICES ASSUME IInv, outcome = "released", NEW w \in Range(text)
               PROVE  /\ Form(w) \notin {"ip", "encoded", "header", "random"}
                      /\ w.contexts = <<>>
                      /\ Form(w) = "eight" => \E value \in DOMAIN vault : vault[value] = w.core[2]
    BY DEF ReleasedIsProven
  <2>1. L3Clean(w) /\ L4Proven(w)
    BY DEF IInv, Gated, L3Passes
  <2>2. Form(w) # "encoded" /\ w.contexts = <<>>
    BY DEF IInv, Decoded, Consumed, Range
  <2> QED
    BY <2>1, <2>2 DEF L3Clean, L4Proven, Registered, Range
<1> QED
  BY <1>1, Invariance, PTL

-----------------------------------------------------------------------------
(* What Layer 2 leaves in the clear *)

ScoreTerms(v, u, a, e, n) ==
  (IF v THEN 4 ELSE 0) + (IF u THEN 3 ELSE 0) + (IF a THEN 2 ELSE 0) + (IF e THEN 2 ELSE 0)
    + (IF n THEN 1 ELSE 0)

LEMMA ScoreIs ==
  ASSUME NEW signals
  PROVE  Score(signals) = ScoreTerms("value" \in signals, "unknown" \in signals, "auth" \in signals,
                                     "entropy" \in signals, "unique" \in signals)
BY DEF Score, Weight, ScoreTerms

\* A word that fails the language checks, and that Layer 3 will not catch, is
\* never safe.  It takes a key in front of it to escalate it, and either a dense
\* word or an authentication log: the sums that would do without one of them
\* are sums of doubles below 0.8.
LEMMA DecideOdd ==
  ASSUME NEW w, Form(w) \in {"odd", "dense"}, w.label \in {"none", "key"}
  PROVE  /\ Decide(Signals(w)) # "SAFE"
         /\ Decide(Signals(w)) = "ESCALATE" =>
              w.label = "key" /\ (Source = "AUTH" \/ Form(w) = "dense")
<1> DEFINE S == Signals(w)
<1>1. /\ "unknown" \in S
      /\ "entropy" \in S <=> Form(w) = "dense"
      /\ "value" \in S => w.label = "key"
      /\ "auth" \in S => Source = "AUTH"
      /\ S \subseteq {"value", "unknown", "auth", "entropy", "unique"}
  BY DEF Signals
<1> HIDE DEF S
<1>2. CASE "value" \in S /\ ("auth" \in S \/ "entropy" \in S)
  <2>1. Score(S) >= 9 /\ Score(S) \in Nat
    BY <1>1, <1>2, ScoreIs DEF ScoreTerms
  <2>2. Decide(S) # "SAFE"
    BY <2>1 DEF Decide
  <2> QED
    BY <1>1, <1>2, <2>2 DEF S
<1>3. CASE "value" \notin S
  <2>1. CASE "auth" \in S /\ "entropy" \in S /\ "unique" \in S
    <3>1. Score(S) = 8
      BY <1>1, <1>3, <2>1, ScoreIs DEF ScoreTerms
    <3>2. S = {"unknown", "auth", "entropy", "unique"}
      BY <1>1, <1>3, <2>1
    <3>3. Decide(S) = "TOKENIZE"
      BY <3>1, <3>2 DEF Decide, RoundedDown
    <3> QED
      BY <3>3 DEF S
  <2>2. CASE ~ ("auth" \in S /\ "entropy" \in S /\ "unique" \in S)
    <3>1. Score(S) >= 3 /\ Score(S) <= 7 /\ Score(S) \in Nat
      BY <1>1, <1>3, <2>2, ScoreIs DEF ScoreTerms
    <3>2. Decide(S) \in {"SANITIZE", "TOKENIZE"}
      BY <3>1 DEF Decide
    <3> QED
      BY <3>2 DEF S
  <2> QED
    BY <2>1, <2>2
<1>4. CASE "value" \in S /\ "auth" \notin S /\ "entropy" \notin S
  <2>1. CASE "unique" \in S
    <3>1. Score(S) = 8
      BY <1>1, <1>4, <2>1, ScoreIs DEF ScoreTerms
    <3>2. S = {"value", "unknown", "unique"}
      BY <1>1, <1>4, <2>1
    <3>3. Decide(S) = "TOKENIZE"
      BY <3>1, <3>2 DEF Decide, RoundedDown
    <3> QED
      BY <3>3 DEF S
  <2>2. CASE "unique" \notin S
    <3>1. Score(S) = 7
      BY <1>1, <1>4, <2>2, ScoreIs DEF ScoreTerms
    <3>2. Decide(S) = "TOKENIZE"
      BY <3>1 DEF Decide
    <3> QED
      BY <3>2 DEF S
  <2> QED
    BY <2>1, <2>2
<1> QED
  BY <1>2, <1>3, <1>4

Hidden(w) == Form(w) \in {"odd", "dense"}

Excused(w, k, c, class) ==
  w.comment \/ (k \in c /\ w.label = "key" /\ (class = "AUTH" \/ Form(w) = "dense"))

Scanned == stage \in {"l3", "l4"} \/ outcome = "released"

\* Of the words that Layer 2 has scanned, and of those it has returned.
ClearInv ==
  /\ stage = "l2" => \A k \in DOMAIN out : Hidden(out[k]) => Excused(out[k], k, cleared, Source)
  /\ Scanned => scan \in {"done", "raised"}
  /\ stage = "l4" \/ outcome = "released" => ~ (job <= Len(Canaries))
  /\ Scanned /\ scan = "done" =>
       \A k \in DOMAIN text : Hidden(text[k]) => Excused(text[k], k, cleared, Source)

\* Layer 2 appends u: nothing, or something that is excused, is left in clear.
LEMMA ScannedClear ==
  ASSUME IInv, ClearInv, NEW w, NEW d, AtWord(w, d), NEW u \in Word,
         out' = Append(out, u), UNCHANGED <<stage, text, scan>>,
         cleared' \in {cleared, cleared \cup {Len(out) + 1}},
         Hidden(u) =>
           Excused(u, Len(out) + 1, cleared', Source)
  PROVE  ClearInv'
<1>1. /\ stage = "l2" /\ outcome = "none" /\ stage' = "l2" /\ outcome' = "none"
      /\ job' = job /\ source' = source /\ Source' = Source
  BY DEF AtWord, IInv, Busy, Source
<1>2. out \in Seq(Word) /\ Len(out) \in Nat
  BY DEF IInv, TypeOK
<1>3. ASSUME NEW k \in DOMAIN out', Hidden(out'[k]) PROVE Excused(out'[k], k, cleared', Source)
  <2>1. CASE k \in DOMAIN out
    <3>1. out'[k] = out[k]
      BY <1>2, <2>1
    <3>2. Excused(out[k], k, cleared, Source)
      BY <1>1, <1>3, <2>1, <3>1 DEF ClearInv
    <3> QED
      BY <3>1, <3>2 DEF Excused
  <2>2. CASE k \notin DOMAIN out
    <3>1. k = Len(out) + 1 /\ out'[k] = u
      BY <1>2, <2>2
    <3> QED
      BY <1>3, <3>1 DEF Excused
  <2> QED
    BY <2>1, <2>2
<1> QED
  BY <1>1, <1>3 DEF ClearInv, Scanned

LEMMA ClearInvInit == Init => ClearInv
BY DEF Init, ClearInv, Scanned

LEMMA ClearInvStep ==
  ASSUME IInv, ClearInv, [Next]_vars
  PROVE  ClearInv'
<1>1. ASSUME stage' = "l1", outcome' = "none" PROVE ClearInv'
  BY <1>1 DEF ClearInv, Scanned
<1>2. ASSUME stage' = "idle", outcome' # "released" PROVE ClearInv'
  BY <1>2 DEF ClearInv, Scanned
<1>3. CASE \E l \in Logs, s \in Class : Run(l, s)
  BY <1>1, <1>3 DEF Run, EnterL1
<1>4. CASE L1Replace
  BY <1>1, <1>4 DEF L1Replace, IInv, Busy
<1>5. CASE L1Raises
  BY <1>2, <1>5 DEF L1Raises, Stop
<1>6. CASE L1Returns
  <2>1. stage = "l1" /\ stage' = "l2" /\ out' = <<>> /\ outcome' = "none"
    BY <1>6 DEF L1Returns, IInv, Consumed, Busy
  <2> QED
    BY <2>1 DEF ClearInv, Scanned
<1>7. CASE L2Keep
  <2>1. PICK w : AtWord(w, "SAFE") /\ out' = Append(out, w) /\ UNCHANGED <<stage, text, scan, cleared>>
    BY <1>7 DEF L2Keep
  <2>2. w \in Word
    BY <2>1, AtWordFacts
  <2>3. Hidden(w) => w.comment
    <3>1. w.label \in {"none", "key"}
      BY <2>2, WordFields
    <3>2. ~ w.comment => Decide(Signals(w)) = "SAFE"
      BY <2>1 DEF AtWord
    <3> QED
      BY <3>1, <3>2, DecideOdd DEF Hidden
  <2> QED
    BY <2>1, <2>2, <2>3, ScannedClear DEF Excused
<1>8. CASE L2Replace
  <2>1. PICK w, d, t : /\ t \in Tokens /\ AtWord(w, d)
                       /\ out' = Append(out, [w EXCEPT !.core = <<"eight", t>>])
                       /\ UNCHANGED <<stage, text, scan, cleared>>
    BY <1>8 DEF L2Replace
  <2> DEFINE u == [w EXCEPT !.core = <<"eight", t>>]
  <2>2. w \in Word
    BY <2>1, AtWordFacts
  <2>3. u \in Word
    BY <2>1, <2>2, TokenWord
  <2>4. ~ Hidden(u)
    BY <2>2 DEF Hidden, Form, Word
  <2> HIDE DEF u
  <2>5. out' = Append(out, u)
    BY <2>1 DEF u
  <2> QED
    BY <2>1, <2>3, <2>4, <2>5, ScannedClear
<1>9. CASE L2Cleared
  <2>1. PICK w : /\ AtWord(w, "ESCALATE") /\ out' = Append(out, w)
                 /\ cleared' = cleared \cup {Len(out) + 1} /\ UNCHANGED <<stage, text, scan>>
    BY <1>9 DEF L2Cleared
  <2>2. w \in Word
    BY <2>1, AtWordFacts
  <2>3. Hidden(w) => w.label = "key" /\ (Source = "AUTH" \/ Form(w) = "dense")
    <3>1. w.label \in {"none", "key"}
      BY <2>2, WordFields
    <3>2. Decide(Signals(w)) = "ESCALATE"
      BY <2>1 DEF AtWord
    <3> QED
      BY <3>1, <3>2, DecideOdd DEF Hidden
  <2> QED
    BY <2>1, <2>2, <2>3, ScannedClear DEF Excused
<1>10. CASE L2Raises
  <2>1. stage' = "l3" /\ scan' = "raised" /\ outcome' = "none"
    BY <1>10 DEF L2Raises, AtWord, IInv, Busy
  <2> QED
    BY <2>1 DEF ClearInv
<1>11. CASE L2Returns
  <2>1. /\ stage = "l2" /\ text' = out /\ stage' = "l3" /\ scan' = "done"
        /\ UNCHANGED <<job, source, cleared>> /\ outcome' = "none"
    BY <1>11 DEF L2Returns, IInv, Busy
  <2> QED
    BY <2>1 DEF ClearInv, Excused, Hidden, Form, Source
<1>12. CASE CanaryCaught
  BY <1>1, <1>12 DEF CanaryCaught, EnterL1, IInv, Busy
<1>13. CASE CanaryAlarm
  BY <1>2, <1>13 DEF CanaryAlarm, Stop
<1>14. CASE (L3Check \/ L4Verify) /\ (stage' = "l4" \/ outcome' = "released")
  <2>1. stage \in {"l3", "l4"} /\ UNCHANGED <<text, job, source, cleared, scan>>
    BY <1>14 DEF L3Check, L4Verify, Stop
  <2>2. stage' \in {"l4", "idle"} /\ ~ (job <= Len(Canaries))
    <3>1. CASE L3Check
      <4>1. job > Len(Canaries) /\ job \in Nat /\ Len(Canaries) \in Nat
        BY <3>1, PipelineConstants DEF L3Check, IInv, TypeOK
      <4> QED
        BY <1>14, <3>1, <4>1 DEF L3Check, Stop
    <3>2. CASE L4Verify
      BY <3>2 DEF L4Verify, Stop, ClearInv
    <3> QED
      BY <1>14, <3>1, <3>2
  <2> QED
    BY <2>1, <2>2 DEF ClearInv, Scanned, Excused, Hidden, Form, Source
<1>15. CASE (L3Check \/ L4Verify) /\ ~ (stage' = "l4" \/ outcome' = "released")
  BY <1>2, <1>15 DEF L3Check, L4Verify, Stop
<1>16. CASE UNCHANGED vars
  BY <1>16 DEF vars, ClearInv, Scanned, Excused, Hidden, Form, Source
<1> QED
  BY <1>3, <1>4, <1>5, <1>6, <1>7, <1>8, <1>9, <1>10, <1>11, <1>12, <1>13, <1>14, <1>15, <1>16
     DEF Next

LEMMA ClearAlways == Spec => [](IInv /\ ClearInv)
<1>1. IInv /\ ClearInv /\ [Next]_vars => ClearInv'
  BY ClearInvStep
<1> QED
  BY <1>1, ClearInvInit, Invariance, PTL DEF Spec

\* An identifier that only Layer 2 knows is in the clear in a released text only
\* for one of three reasons, for any logs, canaries and vault; and the auditor
\* had a say only on a value after "=" or ":" that is dense or in an
\* authentication log.
THEOREM OnlyExcusedInClear == Spec => []ClearForAReason
<1>1. IInv /\ ClearInv => ClearForAReason
  <2> SUFFICES ASSUME IInv, ClearInv, outcome = "released", NEW i \in DOMAIN text,
                      Hidden(text[i])
               PROVE  \/ text[i].comment \/ scan = "raised"
                      \/ /\ i \in cleared /\ text[i].label = "key"
                         /\ source = "AUTH" \/ Form(text[i]) = "dense"
    BY DEF ClearForAReason, Hidden
  <2>1. scan = "raised" \/ Excused(text[i], i, cleared, Source)
    BY DEF ClearInv, Scanned
  <2>2. Source = source
    BY DEF ClearInv, Source
  <2> QED
    BY <2>1, <2>2 DEF Excused
<1> QED
  BY <1>1, ClearAlways, PTL

-----------------------------------------------------------------------------
(* The alarms of the canaries *)

\* A step keeps the vault or stores one value under a fresh token.
LEMMA VaultStep ==
  ASSUME [Next]_vars
  PROVE  \/ UNCHANGED vault
         \/ \E value, t : value \notin DOMAIN vault /\ t \in Fresh /\ Store(value, t)
BY DEF Next, vars, Run, L1Replace, L1Raises, L1Returns, L2Keep, L2Replace, L2Cleared, L2Raises,
   L2Returns, CanaryCaught, CanaryAlarm, L3Check, L4Verify, Stop, Tokenize, SaveRaises

LEMMA VaultGrows ==
  ASSUME [Next]_vars
  PROVE  DOMAIN vault \subseteq DOMAIN vault' /\ \A v \in DOMAIN vault : vault'[v] = vault[v]
BY VaultStep DEF Store

\* The words of these canaries that the vault has a token for.
Met == AlarmWords \cap DOMAIN vault

NoComments(t) == \A k \in DOMAIN t : ~ t[k].comment

\* t is the payload as it is in h, but for the words that Layer 1 replaces.
ReplacedKnown(t, h, payload) ==
  \A k \in DOMAIN t : t[k] = h[k] \/ (Form(t[k]) = "eight" /\ Known(payload[k]))

Normalized(payload) == [k \in DOMAIN payload |-> Normalize(payload[k])]

\* What is known of the canary in work, on its way to Layer 3.
CanaryJob ==
  stage # "idle" /\ job <= Len(Canaries) =>
    /\ held = Normalized(Canaries[job].text)
    /\ NoComments(text) /\ NoComments(out)
    /\ stage \in {"l1", "l2"} \/ scan = "raised" =>
         ReplacedKnown(text, held, Canaries[job].text)

\* A failed save has left a canary in the clear; its mapping is in the vault.
Pending ==
  stage = "l3" /\ job <= Len(Canaries) /\ scan = "raised" /\ PastL1(Canaries[job])

AlarmInv ==
  /\ Pending => alarms + 1 <= Cardinality(Met)
  /\ alarms <= Cardinality(Met)

LEMMA CanaryFacts ==
  ASSUME NEW j \in DOMAIN Canaries
  PROVE  LET c == Canaries[j]
         IN  /\ c.text \in Seq(Word) /\ c.needle \in DOMAIN c.text
             /\ Form(Needle(c)) \in {"ip", "encoded", "odd", "dense", "random", "header"}
             /\ \A w \in Range(c.text) : ~ w.comment /\ Form(w) \notin {"date", "eight"}
             /\ PastL1(c) => \A w \in Range(c.text) : ~ Known(w)
<1>1. Canaries[j] \in Canary
  BY PipelineConstants
<1>2. Canaries[j].text \in Seq(Word)
  BY <1>1 DEF Canary
<1> QED
  BY <1>2, CanaryConstants

\* A word of a canary once it is normalized.
LEMMA CanaryWord ==
  ASSUME NEW w \in Word, ~ w.comment, Form(w) \notin {"date", "eight"}
  PROVE  /\ Normalize(w) \in Word /\ ~ Normalize(w).comment
         /\ Form(Normalize(w)) \notin {"date", "eight"}
         /\ Normalize(w).contexts = w.contexts
         /\ Form(Normalize(w)) = "ip" <=> Form(w) \in {"ip", "encoded"}
         /\ Form(w) # "encoded" => Normalize(w) = w
         /\ \A i : Protect(Normalize(w), i) = Normalize(w)
<1>1. CASE Form(w) = "encoded"
  <2>1. Normalize(w) = [w EXCEPT !.core = <<"ip", w.core[2]>>]
    BY <1>1 DEF Normalize
  <2>2. /\ Normalize(w).core = <<"ip", w.core[2]>> /\ ~ Normalize(w).comment
        /\ Normalize(w).contexts = w.contexts
    BY <2>1 DEF Word
  <2>3. Form(Normalize(w)) = "ip"
    BY <2>2 DEF Form
  <2> QED
    BY <1>1, <2>2, <2>3, NormalizeFacts DEF Protect
<1>2. CASE Form(w) # "encoded"
  BY <1>2 DEF Normalize, Protect
<1> QED
  BY <1>1, <1>2

LEMMA EnterCanary ==
  ASSUME NEW j \in DOMAIN Canaries, NEW l, EnterL1(Payload(j, l))
  PROVE  /\ held' = Normalized(Canaries[j].text) /\ text' = held' /\ out' = <<>>
         /\ NoComments(text')
         /\ \A k \in DOMAIN held' : Form(held'[k]) # "eight"
<1> DEFINE payload == Canaries[j].text
<1>1. Payload(j, l) = payload
  BY PipelineConstants DEF Payload
<1>2. /\ held' = [k \in DOMAIN payload |-> Normalize(payload[k])]
      /\ text' = [k \in DOMAIN payload |-> Protect(Normalize(payload[k]), k)] /\ out' = <<>>
  BY <1>1 DEF EnterL1
<1>3. \A k \in DOMAIN payload :
        payload[k] \in Word /\ ~ payload[k].comment /\ Form(payload[k]) \notin {"date", "eight"}
  BY CanaryFacts DEF Range
<1> HIDE DEF payload
<1>4. \A k \in DOMAIN payload :
        /\ Protect(Normalize(payload[k]), k) = Normalize(payload[k])
        /\ ~ Normalize(payload[k]).comment /\ Form(Normalize(payload[k])) # "eight"
  BY <1>3, CanaryWord
<1>5. text' = held'
  BY <1>2, <1>4
<1> QED
  BY <1>2, <1>4, <1>5 DEF payload, Normalized, NoComments

LEMMA ScannedComment ==
  ASSUME IInv, CanaryJob, NEW w, NEW d, AtWord(w, d), NEW u, w.comment \/ ~ u.comment,
         out' = Append(out, u), UNCHANGED <<stage, text, scan>>
  PROVE  CanaryJob'
<1>1. /\ stage = "l2" /\ UNCHANGED <<job, held>> /\ w = text[Len(out) + 1]
      /\ Len(out) < Len(text)
  BY DEF AtWord
<1>2. out \in Seq(Word) /\ Len(out) \in Nat /\ Len(out) + 1 \in DOMAIN text
  BY <1>1 DEF IInv, TypeOK
<1>3. ASSUME job <= Len(Canaries) PROVE NoComments(out')
  <2>1. NoComments(text) /\ NoComments(out)
    BY <1>1, <1>3 DEF CanaryJob
  <2>2. ~ u.comment
    BY <1>1, <1>2, <2>1 DEF NoComments
  <2>3. \A k \in DOMAIN out' : (k \in DOMAIN out /\ out'[k] = out[k]) \/ out'[k] = u
    BY <1>2
  <2> QED
    BY <2>1, <2>2, <2>3 DEF NoComments
<1> QED
  BY <1>1, <1>3 DEF CanaryJob

LEMMA CanaryJobStep ==
  ASSUME IInv, CanaryJob, [Next]_vars
  PROVE  CanaryJob'
<1>1. ASSUME NEW l, NEW j \in Nat \ {0}, EnterL1(Payload(j, l)), job' = j PROVE CanaryJob'
  <2> SUFFICES ASSUME j <= Len(Canaries) PROVE CanaryJob'
    BY <1>1 DEF CanaryJob
  <2>1. j \in DOMAIN Canaries
    BY PipelineConstants
  <2>2. held' = Normalized(Canaries[j].text) /\ text' = held' /\ NoComments(text') /\ out' = <<>>
    BY <1>1, <2>1, EnterCanary
  <2>3. NoComments(out')
    BY <2>2 DEF NoComments
  <2>4. ReplacedKnown(text', held', Canaries[j].text)
    BY <2>2 DEF ReplacedKnown
  <2> QED
    BY <1>1, <2>2, <2>3, <2>4 DEF CanaryJob
<1>2. ASSUME stage' = "idle" PROVE CanaryJob'
  BY <1>2 DEF CanaryJob
<1>3. CASE \E l \in Logs, s \in Class : Run(l, s)
  BY <1>1, <1>3 DEF Run
<1>4. CASE L1Replace
  <2>1. PICK i \in DOMAIN text, t \in Tokens :
          Match(i) /\ text' = [text EXCEPT ![i] = Replaced(@, t)]
    BY <1>4 DEF L1Replace
  <2>2. stage = "l1" /\ UNCHANGED <<stage, job, held, out, scan>>
    BY <1>4 DEF L1Replace
  <2>3. text \in Seq(Word \cup Protected) /\ DOMAIN text = DOMAIN held
    BY <2>2 DEF IInv, TypeOK
  <2> SUFFICES ASSUME job <= Len(Canaries) PROVE CanaryJob'
    BY <2>2 DEF CanaryJob
  <2> DEFINE payload == Canaries[job].text
  <2>4. job \in DOMAIN Canaries
    BY PipelineConstants DEF IInv, TypeOK
  <2>5. /\ held = Normalized(payload) /\ NoComments(text) /\ NoComments(out)
        /\ ReplacedKnown(text, held, payload)
    BY <2>2 DEF CanaryJob
  <2>6. /\ text[i] \in Word \cup Protected
        /\ Form(text[i]) = "ip" \/ text[i].contexts # <<>>
    BY <2>1, <2>2, <2>3, MatchIs
  <2>7. Form(Replaced(text[i], t)) = "eight" /\ ~ Replaced(text[i], t).comment
    BY <2>5, <2>6, ReplacedWord DEF NoComments
  <2>8. Known(payload[i])
    <3> SUFFICES ASSUME text[i] = held[i] PROVE Known(payload[i])
      BY <2>5 DEF ReplacedKnown
    <3>1. i \in DOMAIN payload /\ text[i] = Normalize(payload[i])
      BY <2>3, <2>5 DEF Normalized
    <3>2. payload[i] \in Word /\ ~ payload[i].comment /\ Form(payload[i]) \notin {"date", "eight"}
      BY <2>4, <3>1, CanaryFacts DEF Range
    <3> QED
      BY <2>6, <3>1, <3>2, CanaryWord DEF Known
  <2>9. DOMAIN text' = DOMAIN text
        /\ \A k \in DOMAIN text : text'[k] = IF k = i THEN Replaced(text[i], t) ELSE text[k]
    BY <2>1, <2>3
  <2>10. NoComments(text')
    BY <2>5, <2>7, <2>9 DEF NoComments
  <2>11. ReplacedKnown(text', held, payload)
    BY <2>5, <2>7, <2>8, <2>9 DEF ReplacedKnown
  <2> QED
    BY <2>2, <2>5, <2>10, <2>11 DEF CanaryJob
<1>5. CASE L1Raises
  BY <1>2, <1>5 DEF L1Raises, Stop
<1>6. CASE L1Returns
  <2>1. /\ stage = "l1" /\ stage' = "l2" /\ UNCHANGED <<job, held, out, scan>>
        /\ text' = [i \in DOMAIN text |-> Restore(text[i])]
    BY <1>6 DEF L1Returns
  <2> SUFFICES ASSUME job <= Len(Canaries) PROVE CanaryJob'
    BY <2>1 DEF CanaryJob
  <2> DEFINE payload == Canaries[job].text
  <2>2. /\ held = Normalized(payload) /\ NoComments(text) /\ NoComments(out)
        /\ ReplacedKnown(text, held, payload)
    BY <2>1 DEF CanaryJob
  <2>3. \A k \in DOMAIN text : Restore(text[k]) = text[k]
    <3> SUFFICES ASSUME NEW k \in DOMAIN text PROVE Form(text[k]) # "placeholder"
      BY DEF Restore
    <3>1. held[k] \in Word
      BY DEF IInv, TypeOK
    <3>2. Form(held[k]) # "placeholder"
      BY <3>1, WordFields DEF Form, Forms
    <3> QED
      BY <2>2, <3>2 DEF ReplacedKnown
  <2>4. DOMAIN text' = DOMAIN text /\ \A k \in DOMAIN text : text'[k] = text[k]
    BY <2>1, <2>3
  <2>5. NoComments(text') /\ ReplacedKnown(text', held, payload)
    BY <2>2, <2>4 DEF NoComments, ReplacedKnown
  <2> QED
    BY <2>1, <2>2, <2>5 DEF CanaryJob
<1>7. CASE L2Keep \/ L2Cleared
  <2>1. PICK w, d : AtWord(w, d) /\ out' = Append(out, w) /\ UNCHANGED <<stage, text, scan>>
    BY <1>7 DEF L2Keep, L2Cleared
  <2> QED
    BY <2>1, ScannedComment
<1>8. CASE L2Replace
  <2>1. PICK w, d, t : /\ AtWord(w, d) /\ out' = Append(out, [w EXCEPT !.core = <<"eight", t>>])
                       /\ UNCHANGED <<stage, text, scan>>
    BY <1>8 DEF L2Replace
  <2> DEFINE u == [w EXCEPT !.core = <<"eight", t>>]
  <2>2. w \in Word
    BY <2>1, AtWordFacts
  <2>3. w.comment \/ ~ u.comment
    BY <2>2 DEF Word
  <2> HIDE DEF u
  <2>4. out' = Append(out, u)
    BY <2>1 DEF u
  <2> QED
    BY <2>1, <2>3, <2>4, ScannedComment
<1>9. CASE L2Raises
  <2>1. stage = "l2" /\ UNCHANGED <<job, held, text>> /\ out' = <<>>
    BY <1>9 DEF L2Raises, AtWord
  <2>2. NoComments(out')
    BY <2>1 DEF NoComments
  <2> QED
    BY <2>1, <2>2 DEF CanaryJob
<1>10. CASE L2Returns
  <2>1. /\ stage = "l2" /\ UNCHANGED <<job, held>> /\ text' = out /\ out' = <<>>
        /\ scan' = "done" /\ stage' = "l3"
    BY <1>10 DEF L2Returns
  <2>2. NoComments(out')
    BY <2>1 DEF NoComments
  <2> QED
    BY <2>1, <2>2 DEF CanaryJob
<1>11. CASE CanaryCaught
  <2>1. job + 1 \in Nat \ {0}
    BY PipelineConstants DEF IInv, TypeOK
  <2> QED
    BY <1>1, <1>11, <2>1 DEF CanaryCaught
<1>12. CASE CanaryAlarm
  BY <1>2, <1>12 DEF CanaryAlarm, Stop
<1>13. CASE L3Check
  <2>1. job > Len(Canaries) /\ (stage' = "idle" \/ job' = job)
    BY <1>13 DEF L3Check, Stop
  <2>2. ~ (job <= Len(Canaries)) /\ job \in Nat /\ Len(Canaries) \in Nat
    BY <2>1, PipelineConstants DEF IInv, TypeOK
  <2> QED
    BY <2>1, <2>2 DEF CanaryJob
<1>14. CASE L4Verify
  BY <1>2, <1>14 DEF L4Verify, Stop
<1>15. CASE UNCHANGED vars
  BY <1>15 DEF vars, CanaryJob
<1> QED
  BY <1>3, <1>4, <1>5, <1>6, <1>7, <1>8, <1>9, <1>10, <1>11, <1>12, <1>13, <1>14, <1>15 DEF Next

\* The values of a function are as many as its arguments at most.
LEMMA RangeFinite ==
  ASSUME NEW f, IsFiniteSet(DOMAIN f), f = [x \in DOMAIN f |-> f[x]]
  PROVE  IsFiniteSet(Range(f))
<1>1. f \in Surjection(DOMAIN f, Range(f))
  BY DEF Range, Surjection
<1> QED
  BY <1>1, FS_Surjection

LEMMA AlarmWordsFinite == IsFiniteSet(AlarmWords)
<1> DEFINE Cores(c) == {w.core : w \in Range(c.text)}
           all == [i \in DOMAIN Canaries |-> Cores(Canaries[i])]
<1>1. IsFiniteSet(DOMAIN Canaries)
  BY FS_Interval, PipelineConstants
<1>2. ASSUME NEW i \in DOMAIN Canaries PROVE IsFiniteSet(all[i])
  <2> DEFINE payload == Canaries[i].text
             cores == [k \in DOMAIN payload |-> payload[k].core]
  <2>1. payload \in Seq(Word)
    BY CanaryFacts
  <2>2. IsFiniteSet(DOMAIN payload)
    BY <2>1, FS_Interval
  <2>3. IsFiniteSet(Range(cores))
    BY <2>2, RangeFinite
  <2>4. Range(cores) = Cores(Canaries[i])
    BY DEF Range
  <2> QED
    BY <2>3, <2>4
<1>3. IsFiniteSet(Range(all))
  BY <1>1, RangeFinite
<1>4. IsFiniteSet(UNION Range(all))
  BY <1>2, <1>3, FS_UNION DEF Range
<1>5. AlarmWords \in SUBSET UNION Range(all)
  BY DEF AlarmWords, Range
<1> QED
  BY <1>4, <1>5, FS_Subset

LEMMA MetFacts ==
  /\ IsFiniteSet(Met) /\ Cardinality(Met) \in Nat
  /\ Cardinality(Met) <= Cardinality(AlarmWords) /\ Cardinality(AlarmWords) \in Nat
BY AlarmWordsFinite, FS_Intersection, FS_CardinalityType DEF Met

\* What is met stays met.
LEMMA MetGrows ==
  ASSUME DOMAIN vault \subseteq DOMAIN vault'
  PROVE  /\ IsFiniteSet(Met') /\ Cardinality(Met') \in Nat
         /\ Cardinality(Met) <= Cardinality(Met')
         /\ Met' # Met => Cardinality(Met) + 1 <= Cardinality(Met')
<1>1. Met \subseteq Met'
  BY DEF Met
<1>2. IsFiniteSet(Met') /\ Cardinality(Met') \in Nat
  BY AlarmWordsFinite, FS_Intersection, FS_CardinalityType DEF Met
<1>3. Cardinality(Met) <= Cardinality(Met') /\ (Cardinality(Met) = Cardinality(Met') => Met = Met')
  BY <1>1, <1>2, FS_Subset
<1> QED
  BY <1>1, <1>2, <1>3, MetFacts

\* A word that a canary leaks by is one that Layer 1 left for Layer 2.
LEMMA LeakFacts ==
  ASSUME IInv, CanaryJob, stage = "l3", job <= Len(Canaries), CanaryLeaks
  PROVE  \E k \in DOMAIN text :
           /\ text[k].core = Needle(Canaries[job]).core /\ Hidden(text[k])
           /\ scan = "raised" => PastL1(Canaries[job])
<1> DEFINE c == Canaries[job]
<1>1. PICK k \in DOMAIN text : text[k].core = Needle(c).core
  BY DEF CanaryLeaks, Range
<1>2. job \in DOMAIN Canaries
  BY PipelineConstants DEF IInv, TypeOK
<1>3. /\ c.text \in Seq(Word) /\ Form(Needle(c)) \in {"ip", "encoded", "odd", "dense", "random", "header"}
      /\ \A w \in Range(c.text) : ~ w.comment /\ Form(w) \notin {"date", "eight"}
  BY <1>2, CanaryFacts
<1>4. text \in Seq(Word) /\ DOMAIN held = DOMAIN text
  BY DEF IInv, TypeOK, Busy
<1>5. L3Clean(text[k]) /\ Form(text[k]) # "encoded" /\ text[k].contexts = <<>>
  BY DEF CanaryLeaks, L3Passes, Range, IInv, Decoded, Consumed
<1>6. Hidden(text[k])
  BY <1>1, <1>3, <1>5 DEF L3Clean, Hidden, Form
<1>7. ASSUME scan = "raised" PROVE PastL1(c)
  <2>1. held = Normalized(c.text) /\ ReplacedKnown(text, held, c.text)
    BY <1>7 DEF CanaryJob
  <2>2. text[k] = held[k]
    BY <1>6, <2>1 DEF ReplacedKnown, Hidden
  <2>3. k \in DOMAIN c.text /\ text[k] = Normalize(c.text[k])
    BY <1>4, <2>1, <2>2 DEF Normalized
  <2> DEFINE w == c.text[k]
  <2>4. w \in Range(c.text) /\ w \in Word
    BY <1>3, <2>3 DEF Range
  <2>5. ~ w.comment /\ Form(w) \notin {"date", "eight"}
    BY <1>3, <2>4
  <2>6. text[k] = Normalize(w)
    BY <2>3
  <2> HIDE DEF w
  <2>7. Form(w) \notin {"ip", "encoded"} /\ text[k] = w
    BY <1>6, <2>4, <2>5, <2>6, CanaryWord DEF Hidden
  <2>8. w.core = Needle(c).core /\ Form(w) \in {"odd", "dense"} /\ ~ Known(w)
    BY <1>1, <1>5, <1>6, <2>7 DEF Hidden, Known
  <2> HIDE DEF c
  <2> QED
    BY <2>4, <2>8 DEF PastL1
<1> QED
  BY <1>1, <1>6, <1>7

\* Layer 2 comes to no word of the canary but its own.
LEMMA AtCanaryWord ==
  ASSUME IInv, CanaryJob, NEW w, NEW d, AtWord(w, d), job <= Len(Canaries), PastL1(Canaries[job])
  PROVE  w.core \in AlarmWords
<1> DEFINE c == Canaries[job]
           k == Len(out) + 1
<1>1. job \in DOMAIN Canaries
  BY PipelineConstants DEF IInv, TypeOK
<1>2. /\ c.text \in Seq(Word) /\ \A u \in Range(c.text) : ~ Known(u)
      /\ \A u \in Range(c.text) : ~ u.comment /\ Form(u) \notin {"date", "eight"}
  BY <1>1, CanaryFacts
<1>3. stage = "l2" /\ w = text[k] /\ Len(out) < Len(text)
  BY DEF AtWord
<1>4. k \in DOMAIN text /\ DOMAIN held = DOMAIN text
  BY <1>3 DEF IInv, TypeOK
<1>5. held = Normalized(c.text) /\ ReplacedKnown(text, held, c.text)
  BY <1>3 DEF CanaryJob
<1>6. k \in DOMAIN c.text /\ held[k] = Normalize(c.text[k])
  BY <1>4, <1>5 DEF Normalized
<1>7. c.text[k] \in Range(c.text) /\ c.text[k] \in Word
  BY <1>2, <1>6 DEF Range
<1>8. text[k] = held[k]
  BY <1>2, <1>4, <1>5, <1>7 DEF ReplacedKnown
<1>9. Form(c.text[k]) # "encoded"
  BY <1>2, <1>7 DEF Known
<1>10. w = c.text[k]
  BY <1>3, <1>6, <1>8, <1>9 DEF Normalize
<1>11. c \in {x \in Range(Canaries) : PastL1(x)}
  BY <1>1 DEF Range
<1>12. w.core \in {u.core : u \in Range(c.text)}
  BY <1>7, <1>10
<1> QED
  BY <1>11, <1>12 DEF AlarmWords

LEMMA AlarmInvStep ==
  ASSUME IInv, CanaryJob, AlarmInv, [Next]_vars
  PROVE  AlarmInv'
<1>1. /\ Cardinality(Met') \in Nat /\ Cardinality(Met) \in Nat
      /\ Cardinality(Met) <= Cardinality(Met')
      /\ Met' # Met => Cardinality(Met) + 1 <= Cardinality(Met')
  BY VaultGrows, MetGrows, MetFacts
<1>2. alarms \in Nat
  BY DEF IInv, TypeOK
<1>3. ASSUME alarms' = alarms, ~ Pending' PROVE AlarmInv'
  BY <1>1, <1>2, <1>3 DEF AlarmInv
<1>4. CASE CanaryAlarm
  <2>1. stage = "l3" /\ job <= Len(Canaries) /\ CanaryLeaks /\ stage' = "idle"
    BY <1>4 DEF CanaryAlarm, Stop
  <2>2. ~ Pending'
    BY <2>1 DEF Pending
  <2>3. CASE scan = "raised"
    <3>1. alarms' = alarms + 1
      BY <1>4, <2>3 DEF CanaryAlarm
    <3>2. Pending
      BY <2>1, <2>3, LeakFacts DEF Pending
    <3> QED
      BY <1>1, <1>2, <2>2, <3>1, <3>2 DEF AlarmInv
  <2>4. CASE scan # "raised"
    BY <1>3, <1>4, <2>2, <2>4 DEF CanaryAlarm
  <2> QED
    BY <2>3, <2>4
<1>5. CASE L2Raises
  <2>1. PICK w, d : AtWord(w, d) /\ SaveRaises(w.core)
    BY <1>5 DEF L2Raises
  <2>2. UNCHANGED <<job, alarms>>
    BY <2>1 DEF AtWord
  <2>3. CASE ~ Pending'
    BY <1>3, <2>2, <2>3
  <2>4. CASE Pending'
    <3>1. job <= Len(Canaries) /\ PastL1(Canaries[job])
      BY <2>2, <2>4 DEF Pending, PastL1, Needle, Form, Known
    <3>2. w.core \in AlarmWords
      BY <2>1, <3>1, AtCanaryWord
    <3>3. w.core \notin DOMAIN vault /\ w.core \in DOMAIN vault'
      BY <2>1 DEF SaveRaises, Store
    <3>4. w.core \in Met' /\ w.core \notin Met
      BY <3>2, <3>3 DEF Met
    <3>5. Cardinality(Met) + 1 <= Cardinality(Met')
      BY <1>1, <3>4
    <3> QED
      BY <1>1, <1>2, <2>2, <3>5 DEF AlarmInv
  <2> QED
    BY <2>3, <2>4
<1>6. CASE \/ \E l \in Logs, s \in Class : Run(l, s)
           \/ L1Replace \/ L1Raises \/ L1Returns \/ L2Keep \/ L2Replace \/ L2Cleared
  <2>1. alarms' = alarms /\ stage' # "l3"
    BY <1>6 DEF Run, EnterL1, L1Replace, L1Raises, L1Returns, L2Keep, L2Replace, L2Cleared,
       AtWord, Stop
  <2> QED
    BY <1>3, <2>1 DEF Pending
<1>7. CASE L2Returns \/ CanaryCaught \/ L3Check \/ L4Verify
  <2>1. alarms' = alarms /\ (stage' # "l3" \/ scan' = "done")
    BY <1>7 DEF L2Returns, CanaryCaught, EnterL1, L3Check, L4Verify, Stop
  <2> QED
    BY <1>3, <2>1 DEF Pending
<1>8. CASE UNCHANGED vars
  <2>1. alarms' = alarms /\ UNCHANGED <<stage, job, scan>>
    BY <1>8 DEF vars
  <2>2. Pending' <=> Pending
    BY <2>1 DEF Pending
  <2> QED
    BY <1>1, <1>2, <2>1, <2>2 DEF AlarmInv
<1> QED
  BY <1>4, <1>5, <1>6, <1>7, <1>8 DEF Next

\* An alarm has its reason when it is raised, and keeps it till the next run.
LEMMA ReasonStep ==
  ASSUME IInv, ClearInv, CanaryJob, AlarmForAReason, [Next]_vars
  PROVE  AlarmForAReason'
<1>1. CASE CanaryAlarm
  <2>1. /\ stage = "l3" /\ job <= Len(Canaries) /\ CanaryLeaks
        /\ UNCHANGED <<text, job, scan, cleared>>
    BY <1>1 DEF CanaryAlarm, Stop
  <2>2. PICK k \in DOMAIN text : text[k].core = Needle(Canaries[job]).core /\ Hidden(text[k])
    BY <2>1, LeakFacts
  <2>3. ~ text[k].comment
    BY <2>1 DEF CanaryJob, NoComments
  <2>4. scan # "raised" => k \in cleared
    BY <2>1, <2>2, <2>3 DEF ClearInv, Scanned, Excused
  <2>5. \/ scan' = "raised"
        \/ k \in cleared' /\ text'[k].core = Needle(Canaries[job']).core
    BY <2>1, <2>2, <2>4
  <2> QED
    BY <2>5 DEF AlarmForAReason, Needle
<1>2. CASE outcome' # "canary_failure"
  BY <1>2 DEF AlarmForAReason
<1>3. CASE ~ CanaryAlarm /\ outcome' = "canary_failure"
  <2>1. UNCHANGED vars
    BY <1>3 DEF Next, Run, L1Replace, L1Raises, L1Returns, L2Keep, L2Replace, L2Cleared, L2Raises,
       L2Returns, CanaryCaught, L3Check, L4Verify, Stop, AtWord, IInv, Busy
  <2> QED
    BY <2>1 DEF vars, AlarmForAReason, Needle
<1> QED
  BY <1>1, <1>2, <1>3

LEMMA AlarmAlways == Spec => [](IInv /\ CanaryJob /\ AlarmInv /\ AlarmForAReason)
<1>1. Init => CanaryJob /\ AlarmInv /\ AlarmForAReason
  BY MetFacts DEF Init, CanaryJob, AlarmInv, Pending, AlarmForAReason
<1>2. IInv /\ ClearInv /\ CanaryJob /\ AlarmInv /\ AlarmForAReason /\ [Next]_vars =>
        CanaryJob' /\ AlarmInv' /\ AlarmForAReason'
  BY CanaryJobStep, AlarmInvStep, ReasonStep
<1> QED
  BY <1>1, <1>2, ClearAlways, PTL DEF Spec

\* However long a session is, a canary fails only behind an abandoned scan, or
\* because the auditor cleared its needle in this very scan.
THEOREM AlarmsHaveReasons == Spec => []AlarmForAReason
  BY AlarmAlways, PTL

\* However often saves fail, and however many runs a session has, abandoned scans
\* make canaries fail once for each of their words at most.
THEOREM AbandonedAlarmsAreBounded == Spec => []AbandonedAlarmsRunOut
<1>1. IInv /\ AlarmInv => AbandonedAlarmsRunOut
  <2> SUFFICES ASSUME IInv, AlarmInv PROVE alarms <= Cardinality(AlarmWords)
    BY DEF AbandonedAlarmsRunOut
  <2>1. alarms \in Nat /\ alarms <= Cardinality(Met)
    BY DEF IInv, TypeOK, AlarmInv
  <2> QED
    BY <2>1, MetFacts
<1> QED
  BY <1>1, AlarmAlways, PTL

-----------------------------------------------------------------------------
(* The way back *)

\* What stands where w does once the token in it gives way to the value.
Unwrap(w, value) ==
  IF value[1] \in Range(Contexts)
  THEN [w EXCEPT !.contexts = <<value[1]>> \o @, !.core = value[2]]
  ELSE [w EXCEPT !.core = value]

\* The mapping f takes w one step back, to u.
Back(f, w, u) == Form(w) = "eight" /\ \E v \in DOMAIN f : f[v] = w.core[2] /\ u = Unwrap(w, v)

\* The words of p lead from w to u, each one step back from the one before.
Steps(f, w, u, n, p) ==
  p[0] = w /\ p[n] = u /\ \A k \in 1..n : Back(f, p[k - 1], p[k])

Leads(f, w, u) == \E n \in Nat : \E p : Steps(f, w, u, n, p)

\* Layer 1 has turned p, which stands for h, into w: an identifier, a context
\* with its value, or one around the other.
Turned(f, w, h, p) ==
  Form(w) = "eight" /\ Leads(f, w, p) /\ (Form(h) = "date" => h.contexts # <<>>)

\* w is what Layer 1 returns for h, whose date, if it is one, p stands for.
Kept(f, w, h, p) == w = h \/ Turned(f, w, h, p)

Asked(i) == Protect(held[i], i)

\* A token stands for one value of a vault that ends somewhere.
VaultInv ==
  /\ IsFiniteSet(DOMAIN vault)
  /\ \A u, v \in DOMAIN vault : vault[u] = vault[v] => u = v

\* A number of eight digits that the text had at first is one of a log.
RawInv ==
  /\ \A i \in DOMAIN log : Form(log[i]) = "eight" => log[i].core[2] \in raw
  /\ \A i \in DOMAIN held : Form(held[i]) = "eight" => held[i].core[2] \in raw

\* How each word leads back to the one it was: through Layer 1, and in one more
\* step through Layer 2.
ChainInv ==
  /\ stage = "l1" => \A i \in DOMAIN text :
       text[i] = Asked(i) \/ Turned(vault, text[i], held[i], Asked(i))
  /\ stage = "l2" => \A i \in DOMAIN text : Kept(vault, text[i], held[i], Asked(i))
  /\ stage = "l2" => \A i \in DOMAIN out : out[i] = text[i] \/ Back(vault, out[i], text[i])
  /\ stage \in {"l3", "l4"} \/ outcome = "released" => \A i \in DOMAIN text :
       \/ Kept(vault, text[i], held[i], Asked(i))
       \/ \E x : Back(vault, text[i], x) /\ Kept(vault, x, held[i], Asked(i))

WayBack == VaultInv /\ RawInv /\ ChainInv

LEMMA StayLeads ==
  ASSUME NEW f, NEW w
  PROVE  Leads(f, w, w)
<1>1. Steps(f, w, w, 0, [k \in {0} |-> w])
  BY DEF Steps
<1> QED
  BY <1>1 DEF Leads

\* One more step at the start of a path is a path.
LEMMA BackLeads ==
  ASSUME NEW f, NEW w, NEW x, NEW u, Back(f, w, x), Leads(f, x, u)
  PROVE  Leads(f, w, u)
<1>1a. PICK n \in Nat : \E p : Steps(f, x, u, n, p)
  BY DEF Leads
<1>1. PICK p : Steps(f, x, u, n, p)
  BY <1>1a
<1> DEFINE q == [k \in 0..(n + 1) |-> IF k = 0 THEN w ELSE p[k - 1]]
<1>2. q[0] = w /\ q[n + 1] = u
  BY <1>1 DEF Steps
<1>3. ASSUME NEW k \in 1..(n + 1) PROVE Back(f, q[k - 1], q[k])
  <2>1. q[k] = p[k - 1]
    OBVIOUS
  <2>2. CASE k = 1
    <3>1. q[k - 1] = w /\ q[k] = x
      BY <1>1, <2>1, <2>2 DEF Steps
    <3> HIDE DEF q
    <3> QED
      BY <3>1
  <2>3. CASE k # 1
    <3>1. k - 1 \in 1..n /\ q[k - 1] = p[(k - 1) - 1]
      BY <2>3
    <3> HIDE DEF q
    <3> QED
      BY <1>1, <2>1, <3>1 DEF Steps
  <2> QED
    BY <2>2, <2>3
<1> HIDE DEF q
<1>4. Steps(f, w, u, n + 1, q)
  BY <1>2, <1>3 DEF Steps
<1>5. n + 1 \in Nat
  OBVIOUS
<1> QED
  BY <1>4, <1>5 DEF Leads

\* A vault that grows keeps every way back.
LEMMA BackGrows ==
  ASSUME NEW f, NEW g, DOMAIN f \subseteq DOMAIN g, \A v \in DOMAIN f : g[v] = f[v]
  PROVE  /\ \A w, u : Back(f, w, u) => Back(g, w, u)
         /\ \A w, h, p : Turned(f, w, h, p) => Turned(g, w, h, p)
         /\ \A w, h, p : Kept(f, w, h, p) => Kept(g, w, h, p)
<1>1. \A w, u : Back(f, w, u) => Back(g, w, u)
  BY DEF Back
<1>2. \A w, u, n, p : Steps(f, w, u, n, p) => Steps(g, w, u, n, p)
  BY <1>1 DEF Steps
<1>3. \A w, u : Leads(f, w, u) => Leads(g, w, u)
  BY <1>2 DEF Leads
<1>4. \A w, h, p : Turned(f, w, h, p) => Turned(g, w, h, p)
  BY <1>3 DEF Turned
<1> QED
  BY <1>1, <1>4 DEF Kept

\* No form is the name of a context.
LEMMA FormsAreNoContexts == Forms \cap Range(Contexts) = {}
BY DEF Forms, Range, Contexts

\* A word whose core gave way to a token has a way back.
LEMMA CoreBack ==
  ASSUME NEW w \in Word, NEW t, NEW f, w.core \in DOMAIN f, f[w.core] = t
  PROVE  Back(f, [w EXCEPT !.core = <<"eight", t>>], w)
<1> DEFINE u == [w EXCEPT !.core = <<"eight", t>>]
<1>1. u.core = <<"eight", t>>
  BY DEF Word
<1>2. w.core[1] \notin Range(Contexts)
  BY WordFields, FormsAreNoContexts
<1>3. [u EXCEPT !.core = w.core] = w
  BY DEF Word
<1>4. Unwrap(u, w.core) = w
  BY <1>2, <1>3 DEF Unwrap
<1> QED
  BY <1>1, <1>4 DEF Back, Form

\* What stood in a context has one too, and the context comes back with it.
LEMMA ContextBack ==
  ASSUME NEW w \in Word \cup Protected, w.contexts # <<>>, NEW t, NEW f,
         LET value == <<Head(w.contexts), w.core>> IN value \in DOMAIN f /\ f[value] = t
  PROVE  Back(f, [w EXCEPT !.core = <<"eight", t>>, !.contexts = Tail(@)], w)
<1> DEFINE u == [w EXCEPT !.core = <<"eight", t>>, !.contexts = Tail(@)]
           value == <<Head(w.contexts), w.core>>
<1>1. u.core = <<"eight", t>> /\ u.contexts = Tail(w.contexts)
  BY DEF Word, Protected
<1>2. w.contexts \in Seq(Range(Contexts))
  BY DEF Word, Protected
<1>3. Head(w.contexts) \in Range(Contexts) /\ <<Head(w.contexts)>> \o Tail(w.contexts) = w.contexts
  <2> DEFINE S == Range(Contexts)
             s == w.contexts
  <2>1. s \in Seq(S) /\ s # <<>>
    BY <1>2
  <2> HIDE DEF S, s
  <2>2. Head(s) \in S /\ Tail(s) \in Seq(S) /\ <<Head(s)>> \o Tail(s) = s
    BY <2>1
  <2> QED
    BY <2>2 DEF S, s
<1>4. [u EXCEPT !.contexts = w.contexts, !.core = w.core] = w
  BY DEF Word, Protected
<1>5. value[1] = Head(w.contexts) /\ value[2] = w.core
  OBVIOUS
<1>6. Unwrap(u, value) = [u EXCEPT !.contexts = <<value[1]>> \o @, !.core = value[2]]
  BY <1>3, <1>5 DEF Unwrap
<1>7. u = [u EXCEPT !.core = u.core]
  BY DEF Word, Protected
<1>8. Unwrap(u, value) = w
  BY <1>1, <1>3, <1>4, <1>5, <1>6
<1> QED
  BY <1>1, <1>8 DEF Back, Form

\* Tokenizing puts the value into the vault under its token.
LEMMA TokenizeMaps ==
  ASSUME NEW value, NEW t, Tokenize(value, t)
  PROVE  value \in DOMAIN vault' /\ vault'[value] = t
BY DEF Tokenize, Store

\* Layer 1's replacement of a word in its reach is a step that can be undone.
LEMMA ReplacedBack ==
  ASSUME NEW w \in Word \cup Protected, NEW f, NEW t,
         Form(w) = "ip" \/ (Form(w) # "ip" /\ w.contexts # <<>>),
         Matched(w) \in DOMAIN f, f[Matched(w)] = t
  PROVE  Back(f, Replaced(w, t), w) /\ Form(Replaced(w, t)) = "eight"
<1>1. CASE Form(w) = "ip"
  <2>1. w \in Word
    BY <1>1 DEF Protected, Form
  <2>2. Replaced(w, t) = [w EXCEPT !.core = <<"eight", t>>] /\ Matched(w) = w.core
    BY <1>1, <2>1 DEF Replaced, Matched, Word
  <2>3. Back(f, [w EXCEPT !.core = <<"eight", t>>], w)
    BY <2>1, <2>2, CoreBack
  <2> QED
    BY <2>2, <2>3 DEF Back
<1>2. CASE Form(w) # "ip" /\ w.contexts # <<>>
  <2>1. /\ Replaced(w, t) = [w EXCEPT !.core = <<"eight", t>>, !.contexts = Tail(@)]
        /\ Matched(w) = <<Head(w.contexts), w.core>>
    BY <1>2 DEF Replaced, Matched
  <2>2. Back(f, [w EXCEPT !.core = <<"eight", t>>, !.contexts = Tail(@)], w)
    BY <1>2, <2>1, ContextBack
  <2> QED
    BY <2>1, <2>2 DEF Back
<1> QED
  BY <1>1, <1>2

\* A date comes back from its placeholder; a token stays where it is.
LEMMA RestoreUndoes ==
  ASSUME IInv, stage = "l1", NEW i \in DOMAIN text
  PROVE  /\ text[i] = Asked(i) => Restore(text[i]) = held[i]
         /\ Form(text[i]) = "eight" => Restore(text[i]) = text[i]
<1>1. i \in DOMAIN held /\ held[i] \in Word
  BY DEF IInv, TypeOK
<1>2. ASSUME text[i] = Asked(i) PROVE Restore(text[i]) = held[i]
  <2>1. CASE Form(held[i]) = "date"
    <3>1. text[i] = [held[i] EXCEPT !.core = <<"placeholder", i>>]
      BY <1>2, <2>1 DEF Asked, Protect
    <3>2. text[i].core = <<"placeholder", i>>
      BY <1>1, <3>1 DEF Word
    <3>3. Restore(text[i]) = [text[i] EXCEPT !.core = held[i].core]
      BY <3>2 DEF Restore, Form
    <3>4. [text[i] EXCEPT !.core = held[i].core] = held[i]
      BY <1>1, <3>1 DEF Word
    <3> QED
      BY <3>3, <3>4
  <2>2. CASE Form(held[i]) # "date"
    <3>1. text[i] = held[i]
      BY <1>2, <2>2 DEF Asked, Protect
    <3>2. Form(held[i]) # "placeholder"
      BY <1>1, WordFields DEF Form, Forms
    <3> QED
      BY <3>1, <3>2 DEF Restore
  <2> QED
    BY <2>1, <2>2
<1> QED
  BY <1>2 DEF Restore

LEMMA WayBackInit == Init => WayBack
<1> SUFFICES ASSUME Init PROVE WayBack
  OBVIOUS
<1>1. DOMAIN vault = {} /\ DOMAIN log = {} /\ DOMAIN held = {} /\ DOMAIN text = {}
      /\ stage = "idle" /\ outcome = "none"
  BY DEF Init
<1>2. IsFiniteSet(DOMAIN vault)
  BY <1>1, FS_EmptySet
<1> QED
  BY <1>1, <1>2 DEF WayBack, VaultInv, RawInv, ChainInv

\* No step issues a token twice, and none adds more than one.
LEMMA VaultInvStep ==
  ASSUME VaultInv, [Next]_vars
  PROVE  VaultInv'
<1>1. CASE UNCHANGED vault
  BY <1>1 DEF VaultInv
<1>2. CASE \E value, t : value \notin DOMAIN vault /\ t \in Fresh /\ Store(value, t)
  <2>1. PICK value, t : value \notin DOMAIN vault /\ t \in Fresh /\ Store(value, t)
    BY <1>2
  <2>2. /\ DOMAIN vault' = DOMAIN vault \cup {value} /\ vault'[value] = t
        /\ \A v \in DOMAIN vault : vault'[v] = vault[v]
    BY <2>1 DEF Store
  <2>3. \A v \in DOMAIN vault : vault[v] # t
    BY <2>1 DEF Fresh, Range
  <2>4. IsFiniteSet(DOMAIN vault')
    BY <2>2, FS_AddElement DEF VaultInv
  <2> QED
    BY <2>2, <2>3, <2>4 DEF VaultInv
<1> QED
  BY <1>1, <1>2, VaultStep

\* Normalizing a word makes no number of it.
LEMMA NormalizeEight ==
  ASSUME NEW w \in Word, Form(Normalize(w)) = "eight"
  PROVE  Normalize(w) = w
<1>1. CASE Form(w) = "encoded"
  <2>1. Normalize(w) = [w EXCEPT !.core = <<"ip", w.core[2]>>]
    BY <1>1 DEF Normalize
  <2>2. Normalize(w).core = <<"ip", w.core[2]>>
    BY <2>1 DEF Word
  <2> QED
    BY <2>2 DEF Form
<1>2. CASE Form(w) # "encoded"
  BY <1>2 DEF Normalize
<1> QED
  BY <1>1, <1>2

\* A text that enters Layer 1 has the numbers of its log, or none.
LEMMA EnterRaw ==
  ASSUME NEW j \in Nat \ {0}, NEW l \in Seq(Word), EnterL1(Payload(j, l)),
         \A k \in DOMAIN l : Form(l[k]) = "eight" => l[k].core[2] \in raw'
  PROVE  \A i \in DOMAIN held' : Form(held'[i]) = "eight" => held'[i].core[2] \in raw'
<1> SUFFICES ASSUME NEW i \in DOMAIN held', Form(held'[i]) = "eight"
             PROVE  held'[i].core[2] \in raw'
  OBVIOUS
<1>1. CASE j <= Len(Canaries)
  <2>1. j \in DOMAIN Canaries
    BY <1>1, PipelineConstants
  <2> QED
    BY <2>1, EnterCanary
<1>2. CASE ~ (j <= Len(Canaries))
  <2>1. held' = [k \in DOMAIN l |-> Normalize(l[k])]
    BY <1>2 DEF EnterL1, Payload
  <2>2. i \in DOMAIN l /\ l[i] \in Word /\ held'[i] = Normalize(l[i])
    BY <2>1
  <2>3. held'[i] = l[i]
    BY <2>2, NormalizeEight
  <2> QED
    BY <2>2, <2>3
<1> QED
  BY <1>1, <1>2

LEMMA RawInvStep ==
  ASSUME IInv, RawInv, [Next]_vars
  PROVE  RawInv'
<1>1. CASE UNCHANGED <<log, held, raw>>
  BY <1>1 DEF RawInv
<1>2. CASE \E l \in Logs, s \in Class : Run(l, s)
  <2>1. PICK l \in Logs : EnterL1(Payload(1, l)) /\ log' = l
                          /\ raw' = raw \cup {w.core[2] : w \in {v \in Range(l) : Form(v) = "eight"}}
    BY <1>2 DEF Run
  <2>2. l \in Seq(Word)
    BY PipelineConstants DEF Logs
  <2>3. \A k \in DOMAIN l : Form(l[k]) = "eight" => l[k].core[2] \in raw'
    BY <2>1 DEF Range
  <2> QED
    BY <2>1, <2>2, <2>3, EnterRaw DEF RawInv
<1>3. CASE CanaryCaught
  <2>1. EnterL1(Payload(job + 1, log)) /\ UNCHANGED <<log, raw>>
    BY <1>3 DEF CanaryCaught
  <2>2. job + 1 \in Nat \ {0} /\ log \in Seq(Word)
    BY PipelineConstants DEF IInv, TypeOK
  <2>3. \A k \in DOMAIN log : Form(log[k]) = "eight" => log[k].core[2] \in raw'
    BY <2>1 DEF RawInv
  <2> QED
    BY <2>1, <2>2, <2>3, EnterRaw DEF RawInv
<1> QED
  BY <1>1, <1>2, <1>3 DEF Next, vars, L1Replace, L1Raises, L1Returns, L2Keep, L2Replace, L2Cleared,
     L2Raises, L2Returns, CanaryAlarm, L3Check, L4Verify, Stop, AtWord

\* What Layer 1 finds in a context, if it had not been replaced before, is a word
\* of the log in a context.
LEMMA ProtectKeeps ==
  ASSUME NEW w \in Word, NEW i, Form(w) = "date"
  PROVE  Form(Protect(w, i)) = "placeholder" /\ Protect(w, i).contexts = w.contexts
<1>1. Protect(w, i) = [w EXCEPT !.core = <<"placeholder", i>>]
  BY DEF Protect
<1>2. Protect(w, i).core = <<"placeholder", i>> /\ Protect(w, i).contexts = w.contexts
  BY <1>1 DEF Word
<1> QED
  BY <1>2 DEF Form

\* Each step of Layer 1 is one that can be undone.
LEMMA L1Chain ==
  ASSUME IInv, ChainInv, L1Replace
  PROVE  ChainInv'
<1>1. PICK i \in DOMAIN text, t \in Tokens :
        Match(i) /\ Tokenize(Matched(text[i]), t) /\ text' = [text EXCEPT ![i] = Replaced(@, t)]
  BY DEF L1Replace
<1>2. stage = "l1" /\ outcome = "none" /\ UNCHANGED <<stage, held, outcome>>
  BY DEF L1Replace, IInv, Busy
<1>3. text \in Seq(Word \cup Protected) /\ held \in Seq(Word) /\ DOMAIN held = DOMAIN text
  BY <1>2 DEF IInv, TypeOK
<1>4. DOMAIN text' = DOMAIN text /\ \A k \in DOMAIN text :
        text'[k] = IF k = i THEN Replaced(text[i], t) ELSE text[k]
  BY <1>1, <1>3
<1>5. DOMAIN vault \subseteq DOMAIN vault' /\ \A v \in DOMAIN vault : vault'[v] = vault[v]
  BY <1>1 DEF Tokenize, Store
<1>6. ASSUME NEW k \in DOMAIN text
      PROVE  text[k] = Asked(k) \/ Turned(vault', text[k], held[k], Asked(k))
  BY <1>2, <1>5, BackGrows DEF ChainInv
<1>7. Form(text[i]) = "ip" \/ (Form(text[i]) # "ip" /\ text[i].contexts # <<>>)
  BY <1>1, <1>2, MatchIs
<1>8. Back(vault', Replaced(text[i], t), text[i]) /\ Form(Replaced(text[i], t)) = "eight"
  <2>1. text[i] \in Word \cup Protected
    BY <1>3
  <2>2. Matched(text[i]) \in DOMAIN vault' /\ vault'[Matched(text[i])] = t
    BY <1>1, TokenizeMaps
  <2> QED
    BY <1>7, <2>1, <2>2, ReplacedBack
<1>9. Leads(vault', Replaced(text[i], t), Asked(i))
  <2>1. Leads(vault', text[i], Asked(i))
    BY <1>6, StayLeads DEF Turned
  <2> QED
    BY <1>8, <2>1, BackLeads
<1>10. Form(held[i]) = "date" => held[i].contexts # <<>>
  <2>1. CASE text[i] = Asked(i)
    <3>1. held[i] \in Word
      BY <1>3
    <3> QED
      BY <1>7, <2>1, <3>1, ProtectKeeps DEF Asked
  <2>2. CASE text[i] # Asked(i)
    BY <1>6, <2>2 DEF Turned
  <2> QED
    BY <2>1, <2>2
<1>11. Turned(vault', Replaced(text[i], t), held[i], Asked(i))
  BY <1>8, <1>9, <1>10 DEF Turned
<1>12. \A k \in DOMAIN text' :
         text'[k] = Asked(k)' \/ Turned(vault', text'[k], held'[k], Asked(k)')
  BY <1>2, <1>4, <1>6, <1>11 DEF Asked
<1> QED
  BY <1>2, <1>12 DEF ChainInv

\* The words that Layer 1 returns are those it was called with, or lead back to
\* them or to the placeholders of their dates.
LEMMA ReturnsChain ==
  ASSUME IInv, ChainInv, L1Returns
  PROVE  ChainInv'
<1>1. /\ stage = "l1" /\ outcome = "none" /\ stage' = "l2" /\ UNCHANGED <<vault, held, out, outcome>>
      /\ text' = [i \in DOMAIN text |-> Restore(text[i])]
  BY DEF L1Returns, IInv, Busy
<1>2. DOMAIN out' = {}
  BY <1>1 DEF IInv, Consumed
<1>3. ASSUME NEW i \in DOMAIN text PROVE Kept(vault, Restore(text[i]), held[i], Asked(i))
  <2>1. CASE text[i] = Asked(i)
    BY <1>1, <2>1, RestoreUndoes DEF Kept
  <2>2. CASE Turned(vault, text[i], held[i], Asked(i))
    <3>1. Form(text[i]) = "eight"
      BY <2>2 DEF Turned
    <3> QED
      BY <1>1, <2>2, <3>1, RestoreUndoes DEF Kept
  <2> QED
    BY <1>1, <2>1, <2>2 DEF ChainInv
<1>4. \A i \in DOMAIN text' : Kept(vault', text'[i], held'[i], Asked(i)')
  BY <1>1, <1>3 DEF Asked
<1> QED
  BY <1>1, <1>2, <1>4 DEF ChainInv

\* Layer 2 keeps a word or replaces it by a token that leads back to it.
LEMMA ScannedChain ==
  ASSUME IInv, ChainInv, NEW w, NEW d, AtWord(w, d), NEW u, out' = Append(out, u),
         u = w \/ Back(vault', u, w), UNCHANGED <<stage, text>>,
         DOMAIN vault \subseteq DOMAIN vault', \A v \in DOMAIN vault : vault'[v] = vault[v]
  PROVE  ChainInv'
<1>1. /\ stage = "l2" /\ outcome = "none" /\ UNCHANGED <<held, outcome>>
      /\ w = text[Len(out) + 1] /\ out \in Seq(Word) /\ Len(out) \in Nat
  BY DEF AtWord, IInv, Busy, TypeOK
<1>2. \A k \in DOMAIN out' : (k \in DOMAIN out /\ out'[k] = out[k]) \/ (out'[k] = u /\ w = text[k])
  BY <1>1
<1>3. \A k \in DOMAIN out : out[k] = text[k] \/ Back(vault', out[k], text[k])
  BY <1>1, BackGrows DEF ChainInv
<1>4. \A k \in DOMAIN out' : out'[k] = text'[k] \/ Back(vault', out'[k], text'[k])
  BY <1>2, <1>3
<1>5. \A k \in DOMAIN text : Kept(vault', text[k], held[k], Asked(k))
  BY <1>1, BackGrows DEF ChainInv
<1>6. \A k \in DOMAIN text' : Kept(vault', text'[k], held'[k], Asked(k)')
  BY <1>1, <1>5 DEF Asked
<1> QED
  BY <1>1, <1>4, <1>6 DEF ChainInv

\* A text enters Layer 1 with nothing replaced but its dates.
LEMMA EnterChain ==
  ASSUME NEW t \in Seq(Word), EnterL1(t), outcome' # "released"
  PROVE  ChainInv'
<1>1. /\ stage' = "l1" /\ held' = [i \in DOMAIN t |-> Normalize(t[i])]
      /\ text' = [i \in DOMAIN t |-> Protect(Normalize(t[i]), i)]
  BY DEF EnterL1
<1>2. \A i \in DOMAIN text' : text'[i] = Asked(i)'
  BY <1>1 DEF Asked
<1> QED
  BY <1>1, <1>2 DEF ChainInv

\* Nothing happens to the words between Layer 2 and the release.
LEMMA PassedChain ==
  ASSUME ChainInv, stage \in {"l3", "l4"}, UNCHANGED <<vault, held, text>>,
         stage' \in {"idle", "l3", "l4"}
  PROVE  ChainInv'
<1>1. \A i \in DOMAIN text :
       \/ Kept(vault, text[i], held[i], Asked(i))
       \/ \E x : Back(vault, text[i], x) /\ Kept(vault, x, held[i], Asked(i))
  BY DEF ChainInv
<1>2. \A i \in DOMAIN text' :
       \/ Kept(vault', text'[i], held'[i], Asked(i)')
       \/ \E x : Back(vault', text'[i], x) /\ Kept(vault', x, held'[i], Asked(i)')
  BY <1>1 DEF Asked
<1> QED
  BY <1>2 DEF ChainInv

LEMMA ChainInvStep ==
  ASSUME IInv, ChainInv, [Next]_vars
  PROVE  ChainInv'
<1>0. DOMAIN vault \subseteq DOMAIN vault' /\ \A v \in DOMAIN vault : vault'[v] = vault[v]
  BY VaultGrows
<1>1. ASSUME stage' = "idle", outcome' # "released" PROVE ChainInv'
  BY <1>1 DEF ChainInv
<1>2. CASE \E l \in Logs, s \in Class : Run(l, s)
  <2>1. PICK l \in Logs : EnterL1(Payload(1, l)) /\ outcome' = "none"
    BY <1>2 DEF Run
  <2>2. l \in Seq(Word)
    BY PipelineConstants DEF Logs
  <2>3. Payload(1, l) \in Seq(Word)
    BY <2>2, PayloadFacts
  <2> QED
    BY <2>1, <2>3, EnterChain
<1>3. CASE L1Replace
  BY <1>3, L1Chain
<1>4. CASE L1Raises
  BY <1>1, <1>4 DEF L1Raises, Stop
<1>5. CASE L1Returns
  BY <1>5, ReturnsChain
<1>6. CASE L2Keep \/ L2Cleared
  <2>1. PICK w, d : AtWord(w, d) /\ out' = Append(out, w) /\ UNCHANGED <<stage, text>>
    BY <1>6 DEF L2Keep, L2Cleared
  <2> QED
    BY <1>0, <2>1, ScannedChain
<1>7. CASE L2Replace
  <2>1. PICK w, d, t : /\ w \in Range(text) /\ AtWord(w, d) /\ Tokenize(w.core, t)
                       /\ out' = Append(out, [w EXCEPT !.core = <<"eight", t>>])
                       /\ UNCHANGED <<stage, text>>
    BY <1>7 DEF L2Replace
  <2>2. w \in Word
    <3>1. text \in Seq(Word)
      BY <2>1 DEF AtWord, IInv, TypeOK, Busy
    <3> QED
      BY <2>1, <3>1 DEF Range
  <2> DEFINE u == [w EXCEPT !.core = <<"eight", t>>]
  <2>3. Back(vault', u, w)
    BY <2>1, <2>2, TokenizeMaps, CoreBack
  <2> HIDE DEF u
  <2>4. out' = Append(out, u)
    BY <2>1 DEF u
  <2> QED
    BY <1>0, <2>1, <2>3, <2>4, ScannedChain
<1>8. CASE L2Raises
  <2>1. /\ stage = "l2" /\ stage' = "l3" /\ UNCHANGED <<held, text, outcome>> /\ outcome = "none"
    BY <1>8 DEF L2Raises, AtWord, IInv, Busy
  <2>2. \A i \in DOMAIN text : Kept(vault', text[i], held[i], Asked(i))
    BY <1>0, <2>1, BackGrows DEF ChainInv
  <2>3. \A i \in DOMAIN text' : Kept(vault', text'[i], held'[i], Asked(i)')
    BY <2>1, <2>2 DEF Asked
  <2> QED
    BY <2>1, <2>3 DEF ChainInv
<1>9. CASE L2Returns
  <2>1. /\ stage = "l2" /\ stage' = "l3" /\ text' = out /\ Len(out) = Len(text)
        /\ UNCHANGED <<vault, held, outcome>> /\ outcome = "none"
    BY <1>9 DEF L2Returns, IInv, Busy
  <2>2. DOMAIN out = DOMAIN text
    <3>1. out \in Seq(Word) /\ text \in Seq(Word)
      BY <2>1 DEF IInv, TypeOK
    <3> QED
      BY <2>1, <3>1
  <2>3. \A i \in DOMAIN out :
          \/ Kept(vault, out[i], held[i], Asked(i))
          \/ \E x : Back(vault, out[i], x) /\ Kept(vault, x, held[i], Asked(i))
    BY <2>1, <2>2 DEF ChainInv
  <2>4. \A i \in DOMAIN text' :
          \/ Kept(vault', text'[i], held'[i], Asked(i)')
          \/ \E x : Back(vault', text'[i], x) /\ Kept(vault', x, held'[i], Asked(i)')
    BY <2>1, <2>3 DEF Asked
  <2> QED
    BY <2>1, <2>4 DEF ChainInv
<1>10. CASE CanaryCaught
  <2>1. EnterL1(Payload(job + 1, log)) /\ outcome' # "released"
    BY <1>10 DEF CanaryCaught, IInv, Busy
  <2>2. Payload(job + 1, log) \in Seq(Word)
    BY PayloadFacts, PipelineConstants DEF IInv, TypeOK
  <2> QED
    BY <2>1, <2>2, EnterChain
<1>11. CASE CanaryAlarm
  BY <1>1, <1>11 DEF CanaryAlarm, Stop
<1>12. CASE L3Check
  BY <1>12, PassedChain DEF L3Check, Stop
<1>13. CASE L4Verify
  BY <1>13, PassedChain DEF L4Verify, Stop
<1>14. CASE UNCHANGED vars
  <2>1. UNCHANGED <<vault, stage, held, text, out, outcome>>
    BY <1>14 DEF vars
  <2> QED
    BY <2>1 DEF ChainInv, Asked
<1> QED
  BY <1>2, <1>3, <1>4, <1>5, <1>6, <1>7, <1>8, <1>9, <1>10, <1>11, <1>12, <1>13, <1>14 DEF Next

-----------------------------------------------------------------------------

LEMMA WayBackAlways == Spec => [](IInv /\ WayBack)
<1>1. IInv /\ WayBack /\ [Next]_vars => WayBack'
  BY VaultInvStep, RawInvStep, ChainInvStep DEF WayBack
<1> QED
  BY <1>1, WayBackInit, Invariance, PTL DEF Spec

\* Peeling a word takes the step that there is, since no token has two values.
LEMMA PeelIsBack ==
  ASSUME VaultInv, NEW w, NEW u, Back(vault, w, u)
  PROVE  Registered(w) /\ Peel(w) = u
<1>1. PICK v \in DOMAIN vault : vault[v] = w.core[2] /\ u = Unwrap(w, v)
  BY DEF Back
<1>2. Registered(w)
  BY <1>1 DEF Back, Registered, Range
<1>3. v = CHOOSE x \in DOMAIN vault : vault[x] = w.core[2]
  BY <1>1 DEF VaultInv
<1> QED
  BY <1>1, <1>2, <1>3 DEF Peel, Unwrap

Peeled(f, w, N) == f = [n \in 0..N |-> IF n = 0 THEN w ELSE Peel(f[n - 1])]

\* The recursion that Original(w) is taken from defines a function.
LEMMA PeeledExists ==
  ASSUME NEW N \in Nat, NEW w
  PROVE  \E f : Peeled(f, w, N)
<1> DEFINE Is(f, k) == f = [n \in 0..k |-> IF n = 0 THEN w ELSE Peel(f[n - 1])]
           Bad == {k \in Nat : ~ \E f : Is(f, k)}
<1>1. Bad = {}
  <2> SUFFICES ASSUME Bad # {} PROVE FALSE
    OBVIOUS
  <2>1. PICK k \in Bad : \A m \in Bad : k <= m
    BY LeastNumber
  <2>2. CASE k = 0
    <3>1. Is([n \in {0} |-> w], 0)
      OBVIOUS
    <3> QED
      BY <2>1, <2>2, <3>1
  <2>3. CASE k # 0
    <3>1. k - 1 \in Nat /\ k - 1 \notin Bad
      <4>1. k \in Nat
        BY <2>1
      <4> HIDE DEF Bad
      <4> QED
        BY <2>1, <2>3, <4>1
    <3>2. PICK f : Is(f, k - 1)
      BY <3>1
    <3> DEFINE g == [n \in 0..k |-> IF n = k THEN Peel(f[k - 1]) ELSE f[n]]
    <3>3. \A n \in 0..k : g[n] = IF n = 0 THEN w ELSE Peel(g[n - 1])
      BY <3>1, <3>2, <2>3
    <3>4. Is(g, k)
      BY <3>3
    <3> QED
      BY <2>1, <3>4
  <2> QED
    BY <2>2, <2>3
<1> QED
  BY <1>1 DEF Peeled

\* Peeling that has come to a word that stays has come to its end.
LEMMA PeeledStays ==
  ASSUME NEW N \in Nat, NEW f, \A n \in 1..N : f[n] = Peel(f[n - 1]),
         NEW k \in 0..N, Peel(f[k]) = f[k]
  PROVE  f[N] = f[k]
<1> DEFINE Bad == {n \in k..N : f[n] # f[k]}
<1>1. Bad = {}
  <2> SUFFICES ASSUME Bad # {} PROVE FALSE
    OBVIOUS
  <2>1. Bad \in SUBSET Nat
    OBVIOUS
  <2>2. PICK n \in Bad : \A m \in Bad : n <= m
    BY <2>1, LeastNumber
  <2>3. n \in k..N /\ f[n] # f[k]
    BY <2>2
  <2>4. n - 1 \notin Bad
    <3>1. n \in Nat
      BY <2>3
    <3> HIDE DEF Bad
    <3> QED
      BY <2>2, <3>1
  <2>5. n # k
    BY <2>3
  <2>6. n - 1 \in k..N /\ n \in 1..N
    BY <2>3, <2>5
  <2>7. f[n] = Peel(f[n - 1])
    BY <2>6
  <2>8. f[n - 1] = f[k]
    BY <2>4, <2>6
  <2> QED
    BY <2>3, <2>7, <2>8
<1>2. N \in k..N
  OBVIOUS
<1> QED
  BY <1>1, <1>2

LEMMA OriginalIs ==
  ASSUME VaultInv, NEW w
  PROVE  \E f : LET N == Cardinality(DOMAIN vault)
                IN  N \in Nat /\ Original(w) = f[N] /\ Peeled(f, w, N)
<1> DEFINE N == Cardinality(DOMAIN vault)
           f == CHOOSE g : Peeled(g, w, N)
<1>1. N \in Nat
  BY FS_CardinalityType DEF VaultInv
<1>2. Original(w) = f[N]
  BY DEF Original, Peeled
<1> HIDE DEF N
<1>3. \E g : Peeled(g, w, N)
  BY <1>1, PeeledExists
<1>4. Peeled(f, w, N)
  BY <1>3
<1> QED
  BY <1>1, <1>2, <1>4 DEF N

\* The core that a value brings back.
Core(v) == IF v[1] \in Range(Contexts) THEN v[2] ELSE v

LEMMA BackValue ==
  ASSUME NEW f, NEW w, "core" \in DOMAIN w, NEW u, Back(f, w, u)
  PROVE  /\ Form(w) = "eight" /\ "core" \in DOMAIN u
         /\ \E v \in DOMAIN f : f[v] = w.core[2] /\ u.core = Core(v)
<1>1. PICK v \in DOMAIN f : f[v] = w.core[2] /\ u = Unwrap(w, v)
  BY DEF Back
<1>2. "core" \in DOMAIN u /\ u.core = Core(v)
  BY <1>1 DEF Unwrap, Core
<1> QED
  BY <1>1, <1>2 DEF Back

\* The steps of a path that ends in a word without a token take different tokens
\* away: two steps with the same one would go on alike, and so one of them would
\* come to the end of the path where the other has a step to take.
LEMMA TokensDiffer ==
  ASSUME VaultInv, NEW w, "core" \in DOMAIN w, NEW u, ~ Registered(u), NEW n \in Nat, NEW p,
         Steps(vault, w, u, n, p), NEW a \in 1..n, NEW b \in 1..n, a < b
  PROVE  p[a - 1].core[2] # p[b - 1].core[2]
<1> SUFFICES ASSUME p[a - 1].core[2] = p[b - 1].core[2] PROVE FALSE
  OBVIOUS
<1>1. \A k \in 1..n : Back(vault, p[k - 1], p[k])
  BY DEF Steps
<1>2. \A k \in 0..n : "core" \in DOMAIN p[k]
  <2> DEFINE Bad == {k \in 0..n : "core" \notin DOMAIN p[k]}
  <2> SUFFICES ASSUME Bad # {} PROVE FALSE
    OBVIOUS
  <2>1. Bad \in SUBSET Nat
    OBVIOUS
  <2>2. PICK k \in Bad : \A m \in Bad : k <= m
    BY <2>1, LeastNumber
  <2>3. k # 0
    BY <2>2 DEF Steps
  <2>4. k \in 1..n /\ k - 1 \in 0..n
    BY <2>2, <2>3
  <2>5. k - 1 \notin Bad
    <3>1. k \in Nat
      BY <2>4
    <3> HIDE DEF Bad
    <3> QED
      BY <2>2, <3>1
  <2>6. "core" \in DOMAIN p[k - 1]
    BY <2>4, <2>5
  <2>7. "core" \in DOMAIN p[k]
    BY <1>1, <2>4, <2>6, BackValue
  <2> QED
    BY <2>2, <2>7
<1>3. ASSUME NEW k \in 1..n, NEW m \in 1..n, p[k - 1].core[2] = p[m - 1].core[2]
      PROVE  p[k].core = p[m].core
  <2>1. \A j \in 1..n : \E v \in DOMAIN vault : vault[v] = p[j - 1].core[2] /\ p[j].core = Core(v)
    <3> SUFFICES ASSUME NEW j \in 1..n
                 PROVE  \E v \in DOMAIN vault : vault[v] = p[j - 1].core[2] /\ p[j].core = Core(v)
      OBVIOUS
    <3>1. Back(vault, p[j - 1], p[j])
      BY <1>1
    <3>2. j - 1 \in 0..n
      OBVIOUS
    <3>3. "core" \in DOMAIN p[j - 1]
      BY <1>2, <3>2
    <3> DEFINE x == p[j - 1]
               y == p[j]
    <3>4. Back(vault, x, y) /\ "core" \in DOMAIN x
      BY <3>1, <3>3
    <3> HIDE DEF x, y
    <3>5. \E v \in DOMAIN vault : vault[v] = x.core[2] /\ y.core = Core(v)
      BY <3>4, BackValue
    <3> QED
      BY <3>5 DEF x, y
  <2>2. PICK v \in DOMAIN vault : vault[v] = p[k - 1].core[2] /\ p[k].core = Core(v)
    BY <2>1
  <2>3. PICK x \in DOMAIN vault : vault[x] = p[m - 1].core[2] /\ p[m].core = Core(x)
    BY <2>1
  <2> QED
    BY <1>3, <2>2, <2>3 DEF VaultInv
<1> DEFINE d == b - a
           Bad == {k \in a..(n - d) : p[k].core # p[k + d].core}
<1>4. d \in Nat /\ d >= 1 /\ a <= n - d /\ n - d \in Nat /\ n - d < n
  OBVIOUS
<1>5. Bad = {}
  <2> SUFFICES ASSUME Bad # {} PROVE FALSE
    OBVIOUS
  <2>1. Bad \in SUBSET Nat
    OBVIOUS
  <2>2. PICK k \in Bad : \A m \in Bad : k <= m
    BY <2>1, LeastNumber
  <2>3. k \in a..(n - d) /\ p[k].core # p[k + d].core
    BY <2>2
  <2>4. k \in 1..n /\ k + d \in 1..n /\ k \in Nat
    BY <1>4, <2>3
  <2>5. CASE k = a
    <3>1. k + d = b
      BY <2>5
    <3>2. p[a].core = p[b].core
      BY <1>3
    <3> QED
      BY <2>3, <2>5, <3>1, <3>2
  <2>6. CASE k # a
    <3>1. k - 1 \in a..(n - d)
      BY <1>4, <2>3, <2>6
    <3>2. k - 1 \notin Bad
      <4> HIDE DEF Bad
      <4> QED
        BY <2>2, <2>4
    <3>3. p[k - 1].core = p[(k - 1) + d].core
      BY <3>1, <3>2
    <3>4. (k - 1) + d = (k + d) - 1
      BY <1>4, <2>4
    <3>5. p[k - 1].core[2] = p[(k + d) - 1].core[2]
      BY <3>3, <3>4
    <3> QED
      BY <1>3, <2>3, <2>4, <3>5
  <2> QED
    BY <2>5, <2>6
<1>6. p[n - d].core = p[n].core
  <2>1. n - d \in a..(n - d) /\ (n - d) + d = n
    BY <1>4
  <2> QED
    BY <1>5, <2>1
<1>7. Back(vault, p[n - d], p[n - d + 1])
  <2>1. n - d + 1 \in 1..n /\ (n - d + 1) - 1 = n - d
    BY <1>4
  <2> QED
    BY <1>1, <2>1
<1>8. Registered(p[n - d])
  BY <1>7, PeelIsBack
<1>9. Registered(u)
  BY <1>6, <1>8 DEF Registered, Form, Steps
<1> QED
  BY <1>9

\* A path to a word without a token has as many steps as the vault has values at
\* most, since each step takes another one.
LEMMA PathIsShort ==
  ASSUME VaultInv, NEW w, "core" \in DOMAIN w, NEW u, ~ Registered(u), NEW n \in Nat, NEW p,
         Steps(vault, w, u, n, p)
  PROVE  n <= Cardinality(DOMAIN vault)
<1> DEFINE ValueOf(k) == CHOOSE v \in DOMAIN vault : vault[v] = p[k - 1].core[2]
           f == [k \in 1..n |-> ValueOf(k)]
<1>1. \A k \in 1..n : ValueOf(k) \in DOMAIN vault /\ vault[ValueOf(k)] = p[k - 1].core[2]
  <2>1. \A k \in 1..n : \E v \in DOMAIN vault : vault[v] = p[k - 1].core[2]
    BY DEF Steps, Back
  <2> QED
    BY <2>1
<1>2. \A a, b \in 1..n : a # b => f[a] # f[b]
  <2> SUFFICES ASSUME NEW a \in 1..n, NEW b \in 1..n, a # b PROVE f[a] # f[b]
    OBVIOUS
  <2>1. a < b \/ b < a
    OBVIOUS
  <2>2. p[a - 1].core[2] # p[b - 1].core[2]
    BY <2>1, TokensDiffer
  <2> QED
    BY <1>1, <2>2
<1>3. f \in [1..n -> DOMAIN vault]
  BY <1>1
<1> HIDE DEF f
<1>4. IsFiniteSet(1..n) /\ Cardinality(1..n) = n
  BY FS_Interval
<1>5. IsFiniteSet(DOMAIN vault) /\ Cardinality(DOMAIN vault) \in Nat
  BY FS_CardinalityType DEF VaultInv
<1>6. ~ (Cardinality(DOMAIN vault) < Cardinality(1..n))
  BY <1>2, <1>3, <1>4, <1>5, FS_PigeonHole
<1> QED
  BY <1>4, <1>5, <1>6

\* A word that leads to one without a token has that one for its original.
LEMMA PathEnds ==
  ASSUME VaultInv, NEW w, "core" \in DOMAIN w, NEW u, ~ Registered(u), Leads(vault, w, u)
  PROVE  Original(w) = u
<1> DEFINE N == Cardinality(DOMAIN vault)
<1>1a. PICK n \in Nat : \E p : Steps(vault, w, u, n, p)
  BY DEF Leads
<1>1. PICK p : Steps(vault, w, u, n, p)
  BY <1>1a
<1>2. PICK f : N \in Nat /\ Original(w) = f[N] /\ Peeled(f, w, N)
  BY OriginalIs
<1>3. n <= N
  BY <1>1, PathIsShort
<1> HIDE DEF N
<1>4. f[0] = w /\ \A k \in 1..N : f[k] = Peel(f[k - 1])
  <2>1. \A k \in 0..N : f[k] = IF k = 0 THEN w ELSE Peel(f[k - 1])
    BY <1>2 DEF Peeled
  <2> QED
    BY <1>2, <2>1
<1> DEFINE Bad == {k \in 0..n : f[k] # p[k]}
<1>5. Bad = {}
  <2> SUFFICES ASSUME Bad # {} PROVE FALSE
    OBVIOUS
  <2>1. Bad \in SUBSET Nat
    OBVIOUS
  <2>2. PICK k \in Bad : \A m \in Bad : k <= m
    BY <2>1, LeastNumber
  <2>3. k \in 0..n /\ f[k] # p[k]
    BY <2>2
  <2>4. k # 0
    BY <1>1, <1>4, <2>3 DEF Steps
  <2>5. k - 1 \in 0..n /\ k \in 1..n /\ k \in 1..N
    BY <1>2, <1>3, <2>3, <2>4
  <2>6. k - 1 \notin Bad
    <3>1. k \in Nat
      BY <2>5
    <3> HIDE DEF Bad
    <3> QED
      BY <2>2, <3>1
  <2>7. f[k - 1] = p[k - 1]
    BY <2>5, <2>6
  <2>8. Peel(p[k - 1]) = p[k]
    BY <1>1, <2>5, PeelIsBack DEF Steps
  <2> QED
    BY <1>4, <2>3, <2>5, <2>7, <2>8
<1>6. f[n] = u
  <2>1. n \in 0..n
    OBVIOUS
  <2> QED
    BY <1>1, <1>5, <2>1 DEF Steps
<1>7. Peel(u) = u
  BY DEF Peel
<1>8. n \in 0..N
  BY <1>2, <1>3
<1>9. f[N] = f[n]
  BY <1>2, <1>4, <1>6, <1>7, <1>8, PeeledStays
<1> QED
  BY <1>2, <1>6, <1>9

\* Through however many contexts and tokens a released word was turned, its
\* original is what the pipeline was called with, but for a date in a context.
THEOREM ReleaseIsReversible == Spec => []Reversible
<1>1. IInv /\ WayBack => Reversible
  <2> SUFFICES ASSUME IInv, WayBack, outcome = "released", raw \cap Range(vault) = {},
                      NEW i \in DOMAIN text
               PROVE  \/ Original(text[i]) = held[i]
                      \/ /\ held[i].contexts # <<>> /\ Form(held[i]) = "date"
                         /\ Original(text[i]) = Asked(i)
    BY DEF Reversible, Asked
  <2>1. held[i] \in Word /\ text[i] \in Word /\ VaultInv
    <3>1. text \in Seq(Word) /\ held \in Seq(Word) /\ Len(text) = Len(held)
      BY DEF IInv, TypeOK, Busy
    <3> QED
      BY <3>1 DEF WayBack
  <2>2. "core" \in DOMAIN text[i]
    BY <2>1 DEF Word
  <2>3. ~ Registered(held[i])
    <3>1. i \in DOMAIN held
      BY DEF IInv, TypeOK
    <3> QED
      BY <3>1 DEF WayBack, RawInv, Registered
  <2>4. \/ Kept(vault, text[i], held[i], Asked(i))
        \/ \E x : Back(vault, text[i], x) /\ Kept(vault, x, held[i], Asked(i))
    BY DEF WayBack, ChainInv
  <2>5. CASE text[i] = held[i] \/ Back(vault, text[i], held[i])
    <3>1. Leads(vault, text[i], held[i])
      BY <2>5, StayLeads, BackLeads
    <3> QED
      BY <2>1, <2>2, <2>3, <3>1, PathEnds
  <2>6. CASE \/ Turned(vault, text[i], held[i], Asked(i))
             \/ \E x : Back(vault, text[i], x) /\ Turned(vault, x, held[i], Asked(i))
    <3>1. Leads(vault, text[i], Asked(i))
      BY <2>6, BackLeads DEF Turned
    <3>2. Form(held[i]) = "date" => held[i].contexts # <<>>
      BY <2>6 DEF Turned
    <3>3. ASSUME ~ Registered(Asked(i)) PROVE Original(text[i]) = Asked(i)
      BY <2>1, <2>2, <3>1, <3>3, PathEnds
    <3>4. CASE Form(held[i]) = "date"
      <4>1. Form(Asked(i)) = "placeholder"
        BY <2>1, <3>4, ProtectKeeps DEF Asked
      <4> QED
        BY <3>2, <3>3, <3>4, <4>1 DEF Registered
    <3>5. CASE Form(held[i]) # "date"
      <4>1. Asked(i) = held[i]
        BY <3>5 DEF Asked, Protect
      <4> QED
        BY <2>3, <3>3, <4>1
    <3> QED
      BY <3>4, <3>5
  <2> QED
    BY <2>4, <2>5, <2>6 DEF Kept
<1> QED
  BY <1>1, WayBackAlways, PTL

-----------------------------------------------------------------------------
(* The contract *)

\* A new mapping is one that the contract allows.
LEMMA StoreIssues ==
  ASSUME NEW value, NEW t, value \notin DOMAIN vault, t \in Fresh, Store(value, t),
         outcome # "released", outcome' # "released"
  PROVE  Contract!Issue
<1>1. DOMAIN vault' = DOMAIN vault \cup {value} /\ vault'[value] = t
  BY DEF Store
<1>2. t \in Tokens \ Contract!Range(vault)
  BY DEF Fresh, Range, Contract!Range
<1>3. vault' = [v \in DOMAIN vault \cup {value} |-> IF v = value THEN vault'[value] ELSE vault[v]]
  BY <1>1 DEF Store
<1> QED
  BY <1>1, <1>2, <1>3 DEF Contract!Issue

LEMMA TokenizeIssues ==
  ASSUME NEW value, NEW t, Tokenize(value, t), outcome # "released", outcome' # "released"
  PROVE  Contract!Issue \/ UNCHANGED vault
BY StoreIssues DEF Tokenize

LEMMA SaveRaisesIssues ==
  ASSUME NEW value, SaveRaises(value), outcome # "released", outcome' # "released"
  PROVE  Contract!Issue
BY StoreIssues DEF SaveRaises

\* A text that is past both gates is one that the contract lets out.
LEMMA GatedPasses ==
  ASSUME IInv, L3Passes, \A w \in Range(text) : L4Proven(w),
         stage = "l4", NEW i \in DOMAIN text
  PROVE  /\ text[i] \in {w \in Word : w.contexts = <<>> /\
                         Form(w) \notin {"ip", "encoded", "header", "random", "eight"}}
                   \cup {w \in Word : w.contexts = <<>> /\ Form(w) = "eight"}
         /\ Contract!Passes(text[i])
<1>1. text[i] \in Word /\ text[i].contexts = <<>> /\ Form(text[i]) # "encoded"
  <2>1. text \in Seq(Word)
    BY DEF IInv, TypeOK, Busy
  <2>2. text[i].contexts = <<>> /\ Form(text[i]) # "encoded"
    BY DEF IInv, Decoded, Consumed
  <2> QED
    BY <2>1, <2>2
<1>2. L3Clean(text[i]) /\ L4Proven(text[i])
  BY DEF L3Passes, Range
<1>3. Form(text[i]) \notin {"ip", "encoded", "header", "random"}
  BY <1>1, <1>2 DEF L3Clean
<1>4. CASE Form(text[i]) = "eight"
  <2>1. text[i].core[2] \in Contract!Range(vault)
    BY <1>2, <1>4 DEF L4Proven, Registered, Range, Contract!Range
  <2>2. [w \in Word |-> w.core[2]][text[i]] = text[i].core[2]
    BY <1>1
  <2> QED
    BY <1>1, <1>4, <2>1, <2>2 DEF Contract!Passes
<1>5. CASE Form(text[i]) # "eight"
  BY <1>1, <1>3, <1>5 DEF Contract!Passes
<1> QED
  BY <1>4, <1>5

LEMMA StepIsSanitizer ==
  ASSUME IInv, IInv', [Next]_vars
  PROVE  [Contract!Next]_(Contract!sanitizerVars)
<1> DEFINE Silent == UNCHANGED vault /\ outcome # "released" /\ outcome' # "released"
<1>1. Silent => UNCHANGED Contract!sanitizerVars
  BY DEF Contract!sanitizerVars
<1>2. CASE \E l \in Logs, s \in Class : Run(l, s)
  <2>1. Contract!Begin
    BY <1>2 DEF Run, Contract!Begin
  <2> QED
    BY <2>1 DEF Contract!Next
<1>3. CASE L1Replace
  <2>1. outcome = "none" /\ outcome' = "none"
    BY <1>3 DEF L1Replace, IInv, Busy
  <2>2. Contract!Issue \/ UNCHANGED vault
    BY <1>3, <2>1, TokenizeIssues DEF L1Replace
  <2> QED
    BY <1>1, <2>1, <2>2 DEF Contract!Next
<1>4. CASE L1Raises
  <2>1. outcome = "none" /\ outcome' = "raised"
    BY <1>4 DEF L1Raises, Stop, IInv, Busy
  <2>2. Contract!Issue
    BY <1>4, <2>1, SaveRaisesIssues DEF L1Raises
  <2> QED
    BY <2>2 DEF Contract!Next
<1>5. CASE L2Replace
  <2>1. outcome = "none" /\ outcome' = "none"
    BY <1>5 DEF L2Replace, AtWord, IInv, Busy
  <2>2. Contract!Issue \/ UNCHANGED vault
    BY <1>5, <2>1, TokenizeIssues DEF L2Replace
  <2> QED
    BY <1>1, <2>1, <2>2 DEF Contract!Next
<1>6. CASE L2Raises
  <2>1. outcome = "none" /\ outcome' = "none"
    BY <1>6 DEF L2Raises, AtWord, IInv, Busy
  <2>2. Contract!Issue
    BY <1>6, <2>1, SaveRaisesIssues DEF L2Raises
  <2> QED
    BY <2>2 DEF Contract!Next
<1>7. CASE L1Returns \/ L2Keep \/ L2Cleared \/ L2Returns
  BY <1>1, <1>7 DEF L1Returns, L2Keep, L2Cleared, L2Returns, AtWord, IInv, Busy
<1>8. CASE CanaryCaught \/ CanaryAlarm
  BY <1>1, <1>8 DEF CanaryCaught, CanaryAlarm, Stop, IInv, Busy
<1>9. CASE L3Check
  BY <1>1, <1>9 DEF L3Check, Stop, IInv, Busy
<1>10. CASE L4Verify /\ outcome' # "released"
  BY <1>1, <1>10 DEF L4Verify, Stop, IInv, Busy
<1>11. CASE L4Verify /\ outcome' = "released"
  <2>1. outcome = "none" /\ UNCHANGED <<vault, text>>
    BY <1>11 DEF L4Verify, IInv, Busy
  <2>2. Contract!Release
    <3> DEFINE Clear == {w \in Word : w.contexts = <<>> /\
                           Form(w) \notin {"ip", "encoded", "header", "random", "eight"}}
               Long == {w \in Word : w.contexts = <<>> /\ Form(w) = "eight"}
    <3>1. L3Passes /\ (\A w \in Range(text) : L4Proven(w)) /\ stage = "l4"
      BY <1>11 DEF L4Verify, Stop, IInv, Gated
    <3>2. \A i \in DOMAIN text : text[i] \in Clear \cup Long /\ Contract!Passes(text[i])
      BY <3>1, GatedPasses
    <3>3. text \in Seq(Clear \cup Long)
      BY <3>2 DEF IInv, TypeOK
    <3> QED
      BY <1>11, <2>1, <3>2, <3>3 DEF Contract!Release
  <2> QED
    BY <2>2 DEF Contract!Next
<1>12. CASE UNCHANGED vars
  BY <1>12 DEF vars, Contract!sanitizerVars
<1> QED
  BY <1>2, <1>3, <1>4, <1>5, <1>6, <1>7, <1>8, <1>9, <1>10, <1>11, <1>12 DEF Next

\* run_pipeline keeps what Sanitizer promises its caller, for any logs,
\* canaries and tokens and any failure of a save on the way.
THEOREM PipelineImplementsSanitizer == Spec => ImplementsSanitizer
<1>1. Init => Contract!Init
  BY DEF Init, Contract!Init
<1>2. IInv /\ IInv' /\ [Next]_vars => [Contract!Next]_(Contract!sanitizerVars)
  BY StepIsSanitizer
<1> QED
  BY <1>1, <1>2, Invariance, PTL DEF Spec, ImplementsSanitizer, Contract!Spec
=============================================================================
