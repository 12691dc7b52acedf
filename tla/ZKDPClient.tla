----------------------------- MODULE ZKDPClient -----------------------------
(***************************************************************************)
(* api/client.py, class ZKDPClient: one send after the other, each with    *)
(* two API calls (the CONTEXT packet of Channel B, then the SURPRISE       *)
(* packet of Channel A), the verification of the answer to the second and  *)
(* the confidence floor.  The verifier, with its nonce cache, lives as     *)
(* long as the client.                                                     *)
(*                                                                         *)
(* The other side is external.  It answers a call with any text built from *)
(* the requests it has received so far, this one or an earlier one; a call *)
(* may also raise, whether or not the request arrived.                     *)
(***************************************************************************)
EXTENDS ResponseVerifier, FiniteSets

CONSTANT MaxSends  \* bound on the sends of one client

ASSUME ClientConstants ==
  /\ MaxSends \in Nat /\ Requests = 1..MaxSends
  /\ None \notin Responses

VARIABLES pc,        \* "idle", "channel_b" or "channel_a": the call in progress
          sent,      \* how many sends were started; also the current request
          received,  \* packets that reached the other side
          answered,  \* calls that came back with a text
          outcome,   \* how the last send ended
          diagnosis, \* what the last send returned, None if nothing
          judged     \* (history) nonces, with their sessions, of the answers
                     \* that a gate behind the replay gate has judged

client == <<pc, sent, received, answered, outcome, diagnosis, judged>>
allVars == <<vars, client>>

FloorTenths == 7  \* CONFIDENCE_FLOOR

BelowFloorMutant(c) == c < FloorTenths - 1  \* off by one tenth

BelowFloor(c) == c < FloorTenths

ClientInit ==
  /\ Init
  /\ pc = "idle" /\ sent = 0
  /\ received = {} /\ answered = {}
  /\ outcome = "none" /\ diagnosis = None /\ judged = <<>>

SendMutant ==  \* Channel A goes first
  /\ pc = "idle" /\ sent < MaxSends
  /\ sent' = sent + 1
  /\ pc' = "channel_a"
  /\ outcome' = "none" /\ diagnosis' = None
  /\ UNCHANGED <<vars, received, answered, judged>>

Send ==
  /\ pc = "idle" /\ sent < MaxSends
  /\ sent' = sent + 1
  /\ pc' = "channel_b"
  /\ outcome' = "none" /\ diagnosis' = None
  /\ UNCHANGED <<vars, received, answered, judged>>

\* External: the other side can echo the hashes of what it received.
CanAnswer(r) == {r.received, r.ack} \subseteq {p[2] : p \in received'}

\* The answer to Channel B is discarded.
ChannelBAnswered ==
  /\ pc = "channel_b"
  /\ pc' = "channel_a"
  /\ received' = received \cup {<<"B", sent>>}
  /\ answered' = answered \cup {<<"B", sent>>}
  /\ UNCHANGED <<vars, sent, outcome, diagnosis, judged>>

\* The API call raises, before or after the request arrived: logged, and None
\* is returned.  A packet that build_outbound_packet refuses raises.
CallFails ==
  /\ pc \in {"channel_b", "channel_a"}
  /\ LET packet == <<IF pc = "channel_b" THEN "B" ELSE "A", sent>>
     IN  \/ received' \in {received, received \cup {packet}} /\ outcome' = "returned_none"
         \/ UNCHANGED received /\ outcome' = "raised"
  /\ pc' = "idle"
  /\ UNCHANGED <<vars, sent, answered, diagnosis, judged>>

\* verify_response returned or raised; then the confidence gate of send.  An
\* exception that is no IntegrityError ends in None.
Conclude(r) ==
  \/ verdict' \in Fatal /\ outcome' = "returned_none" /\ diagnosis' = None
  \/ verdict' \notin Fatal \cup {"passed"} /\ outcome' = "raised" /\ diagnosis' = None
  \/ /\ verdict' = "passed" /\ BelowFloor(r.confidence)
     /\ outcome' = "returned_none" /\ diagnosis' = None
  \/ /\ verdict' = "passed" /\ ~ BelowFloor(r.confidence)
     /\ outcome' = "diagnosis" /\ diagnosis' = r

\* The verdicts of the gates behind the replay gate.
Late == {"confidence", "whitelist", "passed"}

ChannelAAnswered(r) ==
  /\ pc = "channel_a"
  /\ received' = received \cup {<<"A", sent>>}
  /\ answered' = answered \cup {<<"A", sent>>}
  /\ CanAnswer(r)
  /\ VerifyResponse(r, sent)
  /\ Conclude(r)
  /\ judged' = IF verdict' \in Late THEN Append(judged, <<r.session, r.nonce>>) ELSE judged
  /\ pc' = "idle"
  /\ UNCHANGED sent

ClientNext ==
  \/ Send \/ ChannelBAnswered \/ CallFails
  \/ \E r \in Responses : ChannelAAnswered(r)

ClientSpec == ClientInit /\ [][ClientNext]_allVars

-----------------------------------------------------------------------------
(* Properties *)

ClientTypeOK ==
  /\ TypeOK
  /\ pc \in {"idle", "channel_b", "channel_a"}
  /\ sent \in 0..MaxSends
  /\ received \subseteq {"A", "B"} \X (1..sent)
  /\ answered \subseteq received
  /\ outcome \in {"none", "returned_none", "raised", "diagnosis"}
  /\ diagnosis \in Responses \cup {None}
  /\ judged \in Seq(Pairs)

\* A diagnosis that send returns is an answer to the request of this very
\* send: a late or repeated answer to an earlier request never comes out, even
\* after the nonce cache has forgotten its nonce.
AnswersThisRequest ==
  diagnosis # None => diagnosis.received = sent /\ diagnosis.ack = sent

\* No SURPRISE packet is on its way unless the CONTEXT packet of the same send
\* has been answered: not after a failed call, not in a later send.
ContextFirst ==
  \A n \in 1..sent :
    <<"A", n>> \in received \/ (pc = "channel_a" /\ sent = n) => <<"B", n>> \in answered

\* What comes out is certain enough and names, where the search for actions
\* looks, whitelisted actions only; everything else ends in None or a raise.
FailsClosed ==
  /\ outcome = "diagnosis" <=> diagnosis # None
  /\ diagnosis # None =>
       /\ diagnosis.form = "well_formed"
       /\ 7 <= diagnosis.confidence /\ diagnosis.confidence <= 10
       /\ "unlisted" \notin diagnosis.vector

\* An answer that got as far as the confidence and the whitelist gate has used
\* its nonce up, even when one of them refused it: whatever answers follow, in
\* the same send or another, these gates see the nonce again only after they
\* have judged CacheSize other answers.
JudgedOnce ==
  \A i, j \in 1..Len(judged) :
    i < j /\ judged[i] = judged[j] => j - i > CacheSize

\* protocol.py says of the verification that "Every failure raises
\* IntegrityError", and send promises it to its caller.
FailuresAreRaised ==
  pc = "idle" /\ <<"A", sent>> \in answered /\ verdict # "passed" => outcome = "raised"

\* protocol.py on ACTION_WHITELIST: "Only these actions may ever reach the
\* repair engine".
OnlyWhitelistedActions ==
  diagnosis # None => diagnosis.vector \cup diagnosis.fallback \subseteq {"whitelisted"}
=============================================================================
