------------------------------ MODULE Diagnose ------------------------------
(***************************************************************************)
(* tools/diagnose.py: one process after the other, each with a new session *)
(* of the vault, sends one log through the pipeline, makes a packet of     *)
(* what comes out, looks the service up in the registry and sends CONTEXT  *)
(* and SURPRISE.  The registry outlives the processes.                     *)
(*                                                                         *)
(* The pipeline is what Sanitizer promises of it; a piece is a line.  The  *)
(* client is reduced to its two transmissions: what becomes of the answer  *)
(* is the subject of ZKDPClient.                                           *)
(***************************************************************************)
EXTENDS SurprisePacket, Functions

CONSTANTS Values,    \* what a line may name
          Tokens,    \* the eight-digit integers a token is drawn from
          Profiles,  \* the IDs (SC, KI, FC) of a registered service
          NoProfile, \* (0, 0, 0)
          MaxRuns    \* bound on the processes

\* What _generate_valid_token draws from, and what layer 4 lets pass without a proof.
EightDigits == {n \in Nat : 10000000 <= n /\ n <= 99999999}
Small == {n \in Nat : n < 10000}

ASSUME DiagnoseConstants ==
  /\ MaxRuns \in Nat /\ NoProfile \notin Profiles
  /\ Tokens \subseteq EightDigits

VARIABLES vault, released,  \* see Sanitizer
          stage,     \* what the process does next; "down": there is none
          copy,      \* the registry as the process loaded it
          packet,    \* the SURPRISE packet and the IDs it has made
          context,
          wire,      \* what the process has sent
          registry,  \* the registry file: tokens to profiles
          runs       \* processes started

session == <<vault, released>>
world == <<registry, runs>>
vars == <<session, stage, copy, packet, context, wire, world>>

\* Layer 4 proves numbers from 10000 on.  With leading zeros a smaller one has
\* eight digits as well, and the transformer takes it for a token.
Pipeline ==
  INSTANCE Sanitizer WITH
    Clear    <- {l \in Lines : l.token \in Small},
    Long     <- {l \in Lines : l.token \notin Small},
    NumberOf <- [l \in Lines |-> l.token]

Init ==
  /\ Pipeline!Init
  /\ stage = "down" /\ copy = <<>> /\ packet = <<>> /\ context = NoProfile
  /\ wire = <<>>
  /\ registry = <<>> /\ runs = 0

Put(f, x, y) == [z \in DOMAIN f \cup {x} |-> IF z = x THEN y ELSE f[z]]

\* External: the operator registers a service, under a token of this session, of
\* one before, or one that no session has drawn yet.
Register ==
  /\ \E token \in Tokens, profile \in Profiles : registry' = Put(registry, token, profile)
  /\ UNCHANGED <<session, stage, copy, packet, context, wire, runs>>

\* A process makes a vault with a new session and loads the registry.
Start ==
  /\ stage = "down" /\ runs < MaxRuns
  /\ runs' = runs + 1
  /\ stage' = "sanitize"
  /\ released' = {} /\ vault' = <<>>
  /\ copy' = registry
  /\ packet' = <<>> /\ context' = NoProfile /\ wire' = <<>>
  /\ UNCHANGED registry

Tokenize ==
  /\ stage = "sanitize"
  /\ \E value \in Values \ DOMAIN vault, token \in Tokens : vault' = Put(vault, value, token)
  /\ Pipeline!Issue
  /\ UNCHANGED <<stage, copy, packet, context, wire, world>>

SanitizedMutant ==  \* a text that was blocked is used as well
  /\ stage = "sanitize"
  /\ \E text \in Texts : released' = {text}
  /\ stage' = "transform"
  /\ UNCHANGED <<vault, copy, packet, context, wire, world>>

Sanitized ==
  /\ stage = "sanitize"
  /\ \E text \in Texts : released' = {text}
  /\ Pipeline!Release
  /\ stage' = "transform"
  /\ UNCHANGED <<copy, packet, context, wire, world>>

\* A new process counts from 1.
Transform ==
  /\ stage = "transform"
  /\ \E text \in released : packet' \in Packets(text, 1)
  /\ stage' = "look_up"
  /\ UNCHANGED <<session, copy, context, wire, world>>

LookUpMutant ==  \* an empty packet is looked up under 0
  /\ stage = "look_up"
  /\ LET token == IF packet.div = <<>> THEN 0 ELSE packet.div[1].token
     IN  context' = IF token \in DOMAIN copy THEN copy[token] ELSE NoProfile
  /\ stage' = "channel_b"
  /\ UNCHANGED <<session, copy, packet, wire, world>>

LookUp ==
  /\ stage = "look_up" /\ packet.div # <<>>
  /\ LET token == packet.div[1].token
     IN  context' = IF token \in DOMAIN copy THEN copy[token] ELSE NoProfile
  /\ stage' = "channel_b"
  /\ UNCHANGED <<session, copy, packet, wire, world>>

\* A call of the client fails before or after its packet has arrived, and the
\* tool prints that there is no response.
Transmit(here, content, there) ==
  /\ stage = here
  /\ \/ wire' = Append(wire, content) /\ stage' \in {there, "finish"}
     \/ UNCHANGED wire /\ stage' = "finish"
  /\ UNCHANGED <<session, copy, packet, context, world>>

ChannelB == Transmit("channel_b", [channel |-> "B", content |-> context], "channel_a")

ChannelA == Transmit("channel_a", [channel |-> "A", content |-> packet], "answered")

\* An exception that nothing catches: from the pipeline, at packet['div'][0] of
\* a packet without events, or an IntegrityError over the answer.
Raises ==
  /\ \/ stage \in {"sanitize", "answered"}
     \/ stage = "look_up" /\ packet.div = <<>>
  /\ stage' = "down"
  /\ UNCHANGED <<session, copy, packet, context, wire, world>>

Finish ==
  /\ stage \in {"answered", "finish"}
  /\ stage' = "down"
  /\ UNCHANGED <<session, copy, packet, context, wire, world>>

Next ==
  \/ Register \/ Start \/ Tokenize \/ Sanitized \/ Transform \/ LookUp
  \/ ChannelB \/ ChannelA \/ Raises \/ Finish

Spec == Init /\ [][Next]_vars

-----------------------------------------------------------------------------
(* Properties *)

TypeOK ==
  /\ DOMAIN vault \subseteq Values /\ Range(vault) \subseteq Tokens
  /\ \A text \in released : text \in Texts
  /\ stage \in {"down", "sanitize", "transform", "look_up", "channel_b", "channel_a",
                "answered", "finish"}
  /\ Range(copy) \cup Range(registry) \subseteq Profiles
  /\ context \in Profiles \cup {NoProfile}
  /\ \A i \in DOMAIN wire : wire[i] \in {[channel |-> "B", content |-> context],
                                        [channel |-> "A", content |-> packet]}
  /\ DOMAIN copy \cup DOMAIN registry \subseteq Tokens /\ runs \in 0..MaxRuns

Surprises == {wire[i].content : i \in {j \in DOMAIN wire : wire[j].channel = "A"}}

\* Every number in a packet that leaves is a token of this very session, or one
\* below 10000 that the log had with leading zeros: never a number of the log
\* that was a token in another session, and never the packet of a text that the
\* pipeline held back.
OnlyTokensLeave ==
  \A p \in Surprises : \A i \in DOMAIN p.div : p.div[i].token \in Range(vault) \cup Small

\* The model is never asked about nothing: the tool dies over a text without
\* lines before the first transmission, and CONTEXT precedes SURPRISE.
SomethingToAsk ==
  \A i \in DOMAIN wire :
    /\ packet.div # <<>>
    /\ wire[i].channel = IF i = 1 THEN "B" ELSE "A"
==============================================================================
