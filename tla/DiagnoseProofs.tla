--------------------------- MODULE DiagnoseProofs ---------------------------
(***************************************************************************)
(* Proofs about Diagnose, for any logs, values and tokens and any number   *)
(* of processes: what leaves, and what is known of it.                     *)
(***************************************************************************)
EXTENDS Diagnose, TLAPS

-----------------------------------------------------------------------------
(* The invariant *)

Known == Range(vault) \cup Small

Clean(p) == \A i \in DOMAIN p.div : p.div[i].token \in Known

VaultOK ==
  /\ DOMAIN vault \subseteq Values /\ Range(vault) \subseteq Tokens
  /\ \A text \in released :
       text \in Texts /\ \A i \in DOMAIN text : text[i].token \in Known

\* Where a process stands: what it has made, and what it has sent.
Made == {"look_up", "channel_b", "channel_a", "answered", "finish"}

Letter(i) ==
  IF i = 1 THEN [channel |-> "B", content |-> context]
  ELSE [channel |-> "A", content |-> packet]

Progress ==
  /\ stage \in {"down", "sanitize", "transform"} \cup Made
  /\ stage \in Made => Clean(packet) /\ (packet.div # <<>> => 1 \in DOMAIN packet.div)
  /\ stage \in Made \ {"look_up"} => packet.div # <<>>
  /\ wire \in Seq({Letter(1), Letter(2)})
  /\ \A i \in DOMAIN wire : wire[i] = Letter(i)
  /\ stage \in {"sanitize", "transform", "look_up", "channel_b"} => Len(wire) = 0
  /\ stage = "channel_a" => Len(wire) = 1
  /\ Len(wire) > 0 => packet.div # <<>> /\ Clean(packet)

\* What the registry and the copy of it hold.
Lookup ==
  /\ Range(copy) \cup Range(registry) \subseteq Profiles
  /\ DOMAIN copy \cup DOMAIN registry \subseteq Tokens
  /\ context \in Profiles \cup {NoProfile}

DiagnoseInv == VaultOK /\ Progress /\ Lookup /\ runs \in 0..MaxRuns

-----------------------------------------------------------------------------
(* Lemmas *)

LEMMA PutFacts ==
  ASSUME NEW f, NEW x, NEW y
  PROVE  /\ DOMAIN Put(f, x, y) = DOMAIN f \cup {x}
         /\ Range(Put(f, x, y)) \subseteq Range(f) \cup {y}
         /\ x \notin DOMAIN f => Range(f) \subseteq Range(Put(f, x, y))
BY DEF Put, Range

LEMMA RangeInstance == ASSUME NEW f PROVE Pipeline!Range(f) = Range(f)
BY DEF Range, Pipeline!Range

\* What the pipeline lets out holds only tokens and padded numbers.
LEMMA ReleasedIsKnown ==
  ASSUME NEW text \in Texts, released' = {text}, Pipeline!Release
  PROVE  \A i \in DOMAIN text : text[i].token \in Known
<1>1. \A i \in DOMAIN text : Pipeline!Passes(text[i])
  BY DEF Pipeline!Release
<1>2. \A i \in DOMAIN text : text[i] \in Lines
  BY DEF Texts
<1>3. ASSUME NEW l \in Lines, Pipeline!Passes(l) PROVE l.token \in Known
  <2>1. l.token \in Small \/ l.token \in Pipeline!Range(vault)
    BY <1>3 DEF Pipeline!Passes
  <2>2. Pipeline!Range(vault) = Range(vault)
    BY RangeInstance
  <2> QED
    BY <2>1, <2>2 DEF Known
<1> QED
  BY <1>1, <1>2, <1>3

\* The tokens of a packet are those of its text.
LEMMA PacketTokens ==
  ASSUME NEW text \in Texts, NEW p \in Packets(text, 1)
  PROVE  /\ DOMAIN p.div = DOMAIN text
         /\ \A i \in DOMAIN text : p.div[i].token = text[i].token
         /\ p.div # <<>> => 1 \in DOMAIN p.div
<1>1. p.div = Events(text) /\ DOMAIN p.div = DOMAIN text
      /\ \A i \in DOMAIN text : p.div[i].token = text[i].token
  BY DEF Packets, Events
<1>2. PICK n \in 0..MaxLines : DOMAIN text = 1..n
  BY DEF Texts
<1>3. CASE n = 0
  BY <1>1, <1>2, <1>3 DEF Events
<1>4. CASE n > 0
  BY <1>1, <1>2, <1>4, SurprisePacketConstants
<1> QED
  BY <1>1, <1>2, <1>3, <1>4, SurprisePacketConstants

-----------------------------------------------------------------------------
(* The steps *)

LEMMA DiagnoseInit == Init => DiagnoseInv
<1> SUFFICES ASSUME Init PROVE DiagnoseInv
  OBVIOUS
<1>1. vault = <<>> /\ released = {}
  BY DEF Init, Pipeline!Init
<1>2. Range(<<>>) = {} /\ DOMAIN <<>> = {}
  BY DEF Range
<1>3. VaultOK
  BY <1>1, <1>2 DEF VaultOK
<1>4. Progress
  BY DEF Init, Progress, Made
<1>5. Lookup
  BY <1>2 DEF Init, Lookup
<1> QED
  BY <1>3, <1>4, <1>5, DiagnoseConstants DEF Init, DiagnoseInv

LEMMA RegisterStep == DiagnoseInv /\ Register => DiagnoseInv'
<1> SUFFICES ASSUME DiagnoseInv, Register PROVE DiagnoseInv'
  OBVIOUS
<1>1. VaultOK' /\ Progress' /\ runs' \in 0..MaxRuns
  BY DEF DiagnoseInv, Register, session, VaultOK, Progress, Known, Clean, Made, Letter
<1>2. PICK token \in Tokens, profile \in Profiles :
        registry' = Put(registry, token, profile)
  BY DEF Register
<1>3. DOMAIN registry' = DOMAIN registry \cup {token}
      /\ Range(registry') \subseteq Range(registry) \cup {profile}
  BY <1>2, PutFacts
<1>4. Lookup'
  BY <1>2, <1>3 DEF DiagnoseInv, Lookup, Register, session
<1> QED
  BY <1>1, <1>4 DEF DiagnoseInv

LEMMA StartStep == DiagnoseInv /\ Start => DiagnoseInv'
<1> SUFFICES ASSUME DiagnoseInv, Start PROVE DiagnoseInv'
  OBVIOUS
<1>1. Range(<<>>) = {} /\ DOMAIN <<>> = {}
  BY DEF Range
<1>2. VaultOK' /\ Progress' /\ runs' \in 0..MaxRuns
  BY <1>1, DiagnoseConstants DEF DiagnoseInv, Start, VaultOK, Progress, Made
<1>3. Lookup'
  BY <1>1 DEF DiagnoseInv, Lookup, Start, VaultOK
<1> QED
  BY <1>2, <1>3 DEF DiagnoseInv

LEMMA TokenizeStep == DiagnoseInv /\ Tokenize => DiagnoseInv'
<1> SUFFICES ASSUME DiagnoseInv, Tokenize PROVE DiagnoseInv'
  OBVIOUS
<1>1. PICK value \in Values \ DOMAIN vault, token \in Tokens : vault' = Put(vault, value, token)
  BY DEF Tokenize
<1>2. /\ DOMAIN vault' = DOMAIN vault \cup {value}
      /\ Range(vault') \subseteq Range(vault) \cup {token}
      /\ Range(vault) \subseteq Range(vault')
  BY <1>1, PutFacts
<1>3. released' = {}
  BY DEF Tokenize, Pipeline!Issue
<1>4. VaultOK'
  BY <1>1, <1>2, <1>3 DEF DiagnoseInv, VaultOK
<1>5. stage = "sanitize" /\ UNCHANGED <<stage, copy, packet, context, wire, world>>
  BY DEF Tokenize
<1>6. Progress'
  BY <1>5 DEF DiagnoseInv, Progress, Made, Letter
<1>7. Lookup'
  BY <1>2, <1>5 DEF DiagnoseInv, Lookup, world
<1> QED
  BY <1>4, <1>5, <1>6, <1>7 DEF DiagnoseInv, world

LEMMA SanitizedStep == DiagnoseInv /\ Sanitized => DiagnoseInv'
<1> SUFFICES ASSUME DiagnoseInv, Sanitized PROVE DiagnoseInv'
  OBVIOUS
<1>1. PICK text \in Texts : released' = {text}
  BY DEF Sanitized
<1>2. Pipeline!Release /\ vault' = vault
  BY DEF Sanitized, Pipeline!Release
<1>3. \A i \in DOMAIN text : text[i].token \in Known
  BY <1>1, <1>2, ReleasedIsKnown
<1>4. VaultOK'
  BY <1>1, <1>2, <1>3 DEF DiagnoseInv, VaultOK, Known
<1>5. stage = "sanitize" /\ stage' = "transform" /\ UNCHANGED <<copy, packet, context, wire, world>>
  BY DEF Sanitized
<1>6. Progress'
  BY <1>5 DEF DiagnoseInv, Progress, Made, Letter
<1>7. Lookup'
  BY <1>2, <1>5 DEF DiagnoseInv, Lookup, world
<1> QED
  BY <1>4, <1>5, <1>6, <1>7 DEF DiagnoseInv, world

LEMMA TransformStep == DiagnoseInv /\ Transform => DiagnoseInv'
<1> SUFFICES ASSUME DiagnoseInv, Transform PROVE DiagnoseInv'
  OBVIOUS
<1>1. stage = "transform" /\ stage' = "look_up" /\ UNCHANGED <<session, copy, context, wire, world>>
  BY DEF Transform
<1>2. PICK text \in released : packet' \in Packets(text, 1)
  BY DEF Transform
<1>3. \A i \in DOMAIN text : text[i].token \in Known
  BY DEF DiagnoseInv, VaultOK
<1>4. /\ DOMAIN packet'.div = DOMAIN text
      /\ \A i \in DOMAIN text : packet'.div[i].token = text[i].token
      /\ packet'.div # <<>> => 1 \in DOMAIN packet'.div
  BY <1>2, PacketTokens DEF DiagnoseInv, VaultOK
<1>5. \A i \in DOMAIN packet'.div : packet'.div[i].token \in Known'
  BY <1>1, <1>3, <1>4 DEF Known, session
<1>6. VaultOK'
  BY <1>1 DEF DiagnoseInv, VaultOK, Known, session
<1>7. wire' = <<>>
  BY <1>1 DEF DiagnoseInv, Progress
<1>8. Progress'
  BY <1>1, <1>4, <1>5, <1>7 DEF Progress, Made, Clean
<1>9. Lookup'
  BY <1>1 DEF DiagnoseInv, Lookup, world, session
<1> QED
  BY <1>1, <1>6, <1>8, <1>9 DEF DiagnoseInv, world

LEMMA LookUpStep == DiagnoseInv /\ LookUp => DiagnoseInv'
<1> SUFFICES ASSUME DiagnoseInv, LookUp PROVE DiagnoseInv'
  OBVIOUS
<1> DEFINE token == packet.div[1].token
<1>1. /\ stage = "look_up" /\ packet.div # <<>> /\ stage' = "channel_b"
      /\ context' = IF token \in DOMAIN copy THEN copy[token] ELSE NoProfile
      /\ UNCHANGED <<session, copy, packet, wire, world>>
  BY DEF LookUp
<1>2. VaultOK'
  BY <1>1 DEF DiagnoseInv, VaultOK, Known, session
<1>3. wire' = <<>> /\ Clean(packet)'
  BY <1>1 DEF DiagnoseInv, Progress, Made, Clean, Known, session
<1>4. Progress'
  BY <1>1, <1>3 DEF DiagnoseInv, Progress, Made
<1>5. Lookup'
  BY <1>1 DEF DiagnoseInv, Lookup, Range, world, session
<1> QED
  BY <1>1, <1>2, <1>4, <1>5 DEF DiagnoseInv, world

LEMMA TransmitLemma ==
  ASSUME DiagnoseInv, NEW here, NEW k \in {1, 2}, NEW there, Transmit(here, Letter(k), there),
         \/ here = "channel_b" /\ k = 1 /\ there = "channel_a"
         \/ here = "channel_a" /\ k = 2 /\ there = "answered"
  PROVE  DiagnoseInv'
<1>1. /\ stage = here /\ UNCHANGED <<session, copy, packet, context, world>>
      /\ \/ wire' = Append(wire, Letter(k)) /\ stage' \in {there, "finish"}
         \/ wire' = wire /\ stage' = "finish"
  BY DEF Transmit
<1>2. VaultOK' /\ Lookup' /\ runs' \in 0..MaxRuns
  BY <1>1 DEF DiagnoseInv, VaultOK, Known, Lookup, session, world
<1>3. Letter(1)' = Letter(1) /\ Letter(2)' = Letter(2)
  BY <1>1 DEF Letter
<1>4. \A i \in Nat \ {0} : Letter(i) = (IF i = 1 THEN Letter(1) ELSE Letter(2)) /\ Letter(i)' = Letter(i)
  BY <1>1 DEF Letter
<1>5. /\ stage' \in Made \ {"look_up"} /\ packet' = packet
      /\ packet.div # <<>> /\ Clean(packet) /\ 1 \in DOMAIN packet.div
      /\ Clean(packet)'
  BY <1>1 DEF DiagnoseInv, Progress, Made, Clean, Known, session
<1>6. /\ wire \in Seq({Letter(1), Letter(2)})
      /\ \A i \in DOMAIN wire : wire[i] = Letter(i)
      /\ Len(wire) = k - 1
  <2>1. Progress /\ stage = here
    BY <1>1 DEF DiagnoseInv
  <2>2. CASE here = "channel_b" /\ k = 1
    BY <2>1, <2>2 DEF Progress
  <2>3. CASE here = "channel_a" /\ k = 2
    BY <2>1, <2>3 DEF Progress
  <2> QED
    BY <2>2, <2>3
<1>7. /\ wire' \in Seq({Letter(1), Letter(2)})
      /\ \A i \in DOMAIN wire' : wire'[i] = Letter(i)
      /\ stage' = "channel_a" => Len(wire') = 1
  <2>1. CASE wire' = wire /\ stage' = "finish"
    BY <1>6, <2>1
  <2>2. CASE wire' = Append(wire, Letter(k)) /\ stage' \in {there, "finish"}
    BY <1>6, <2>2
  <2> QED
    BY <1>1, <2>1, <2>2
<1>8. Progress'
  <2>1. /\ wire' \in Seq({Letter(1)', Letter(2)'})
        /\ \A i \in DOMAIN wire' : wire'[i] = Letter(i)'
    BY <1>1, <1>3, <1>4, <1>7 DEF Letter
  <2>2. stage' \in Made
        /\ stage' \notin {"sanitize", "transform", "look_up", "channel_b"}
    BY <1>1 DEF Made
  <2> QED
    BY <1>5, <1>7, <2>1, <2>2 DEF Progress
<1> QED
  BY <1>2, <1>8 DEF DiagnoseInv

LEMMA ChannelBStep == DiagnoseInv /\ ChannelB => DiagnoseInv'
BY TransmitLemma DEF ChannelB, Letter

LEMMA ChannelAStep == DiagnoseInv /\ ChannelA => DiagnoseInv'
BY TransmitLemma DEF ChannelA, Letter

LEMMA DownStep == DiagnoseInv /\ (Raises \/ Finish) => DiagnoseInv'
<1> SUFFICES ASSUME DiagnoseInv, Raises \/ Finish PROVE DiagnoseInv'
  OBVIOUS
<1>1. stage' = "down" /\ UNCHANGED <<session, copy, packet, context, wire, world>>
  BY DEF Raises, Finish
<1>2. Letter(1)' = Letter(1) /\ Letter(2)' = Letter(2) /\ \A i : Letter(i)' = Letter(i)
  BY <1>1 DEF Letter
<1>3. VaultOK' /\ Lookup' /\ runs' \in 0..MaxRuns
  BY <1>1 DEF DiagnoseInv, VaultOK, Known, Lookup, session, world
<1>4. Clean(packet)' <=> Clean(packet)
  BY <1>1 DEF Clean, Known, session
<1>5. Progress'
  BY <1>1, <1>2, <1>4 DEF DiagnoseInv, Progress, Made
<1> QED
  BY <1>3, <1>5 DEF DiagnoseInv

LEMMA StutterStep == DiagnoseInv /\ UNCHANGED vars => DiagnoseInv'
BY DEF DiagnoseInv, vars, session, world, VaultOK, Known, Progress, Made, Clean, Letter, Lookup

LEMMA DiagnoseAlways == Spec => []DiagnoseInv
<1>1. DiagnoseInv /\ [Next]_vars => DiagnoseInv'
  BY RegisterStep, StartStep, TokenizeStep, SanitizedStep, TransformStep, LookUpStep,
     ChannelBStep, ChannelAStep, DownStep, StutterStep
     DEF Next
<1> QED
  BY <1>1, DiagnoseInit, PTL DEF Spec

-----------------------------------------------------------------------------
(* Theorems *)

\* Types of all states; every transmission holds what the process has made.
THEOREM DiagnoseTypes == Spec => []TypeOK
<1>1. DiagnoseInv => TypeOK
  BY DEF DiagnoseInv, VaultOK, Progress, Made, Letter, Lookup, TypeOK
<1> QED
  BY <1>1, DiagnoseAlways, PTL

\* What leaves names nothing but tokens of the session and padded numbers.
THEOREM NothingElseLeaves == Spec => []OnlyTokensLeave
<1>1. DiagnoseInv => OnlyTokensLeave
  <2> SUFFICES ASSUME DiagnoseInv, NEW j \in DOMAIN wire, wire[j].channel = "A"
               PROVE  \A i \in DOMAIN wire[j].content.div :
                        wire[j].content.div[i].token \in Range(vault) \cup Small
    BY DEF OnlyTokensLeave, Surprises
  <2>1. wire[j].content = packet
    BY DEF DiagnoseInv, Progress, Letter
  <2>2. Clean(packet)
    BY DEF DiagnoseInv, Progress
  <2> QED
    BY <2>1, <2>2 DEF Clean, Known
<1> QED
  BY <1>1, DiagnoseAlways, PTL

\* A process whose packet is empty sends nothing, and CONTEXT goes first.
THEOREM NeverAskedAboutNothing == Spec => []SomethingToAsk
<1>1. DiagnoseInv => SomethingToAsk
  BY DEF DiagnoseInv, Progress, Letter, SomethingToAsk
<1> QED
  BY <1>1, DiagnoseAlways, PTL
=============================================================================
