-------------------------- MODULE ZKDPClientProofs --------------------------
(***************************************************************************)
(* Proofs about ZKDPClient, for any number of sends, any cache size and    *)
(* any answers.  The invariant of the verifier is that of                  *)
(* ResponseVerifierProofs; the client adds where it stands between its two *)
(* calls, and what it may return.                                          *)
(***************************************************************************)
EXTENDS ZKDPClient, ResponseVerifierProofs

-----------------------------------------------------------------------------
(* The invariant *)

\* The two calls of a send, in their order.
Calls ==
  /\ pc \in {"idle", "channel_b", "channel_a"}
  /\ sent \in 0..MaxSends
  /\ pc # "idle" => sent \in 1..MaxSends /\ <<"A", sent>> \notin answered
  /\ pc = "channel_a" => <<"B", sent>> \in answered
  /\ received \subseteq {"A", "B"} \X (1..sent)
  /\ answered \subseteq received
  /\ \A n \in 1..sent : <<"A", n>> \in received => <<"B", n>> \in answered

\* The history of the client numbers the judged answers as the verifier does:
\* the stamp of a pair is not earlier than any place where it was judged.
Numbered ==
  /\ judged \in Seq(Pairs) /\ Len(judged) = count
  /\ \A i \in 1..Len(judged) : i <= stamp[judged[i]]

\* What the last send returned.
Returned ==
  /\ outcome \in {"none", "returned_none", "raised", "diagnosis"}
  /\ diagnosis \in Responses \cup {None}
  /\ pc # "idle" => diagnosis = None /\ outcome = "none"
  /\ AnswersThisRequest
  /\ FailsClosed

ClientInv == IInv /\ Calls /\ Numbered /\ JudgedOnce /\ Returned

LEMMA ClientInitInv == ClientInit => ClientInv
<1> SUFFICES ASSUME ClientInit PROVE ClientInv
  OBVIOUS
<1>1. IInv /\ count = 0
  BY InitIInv DEF ClientInit, Init
<1>2. Calls
  BY ClientConstants DEF ClientInit, Calls
<1>3. Numbered /\ JudgedOnce
  BY <1>1 DEF ClientInit, Numbered, JudgedOnce
<1>4. Returned
  BY DEF ClientInit, Returned, AnswersThisRequest, FailsClosed
<1> QED
  BY <1>1, <1>2, <1>3, <1>4 DEF ClientInv

-----------------------------------------------------------------------------
(* The verifier within a send *)

LEMMA VerifierStep ==
  ASSUME IInv, NEW r \in Responses, NEW request \in Requests, VerifyResponse(r, request)
  PROVE  /\ IInv'
         /\ IF verdict' \in Late THEN Pass(r, request) ELSE UNCHANGED history
         /\ verdict' = "passed" =>
              /\ r.form = "well_formed" /\ r.received = request /\ r.ack = request
              /\ ConfidenceInRange(r.confidence) /\ "unlisted" \notin r.vector
<1>1. IInv'
  BY NextIInv DEF Next
<1>2. r.form \in Forms
  BY DEF Responses
<1>3. CASE Refuse(r, request)
  <2>1. verdict' \notin Late /\ UNCHANGED history
    BY <1>2, <1>3 DEF Refuse, EarlyGate, Forms, Refused, Fatal, Late
  <2> QED
    BY <1>1, <2>1 DEF Late
<1>4. CASE Replay(r, request)
  BY <1>1, <1>4 DEF Replay, Late
<1>5. EarlyGate(r, request) = "replay" =>
        r.form = "well_formed" /\ r.received = request /\ r.ack = request
  BY <1>2 DEF EarlyGate, Forms, Refused, Fatal
<1>6. LateGate(r) = "passed" => ConfidenceInRange(r.confidence) /\ "unlisted" \notin r.vector
  BY DEF LateGate, ActionTokens
<1>7. CASE Pass(r, request)
  <2>1. verdict' \in Late
    BY <1>7 DEF Pass, LateGate, Late
  <2> QED
    BY <1>1, <1>5, <1>6, <1>7, <2>1 DEF Pass
<1> QED
  BY <1>3, <1>4, <1>7 DEF VerifyResponse

\* A pair that passes the replay gate was not judged within the window.
LEMMA JudgedStep ==
  ASSUME IInv, Numbered, JudgedOnce,
         NEW r \in Responses, NEW request \in Requests, Pass(r, request),
         judged' = Append(judged, <<r.session, r.nonce>>)
  PROVE  Numbered' /\ JudgedOnce'
<1> DEFINE p == <<r.session, r.nonce>>
<1>1. /\ p \in Pairs /\ p[1] = r.session /\ p[2] = r.nonce
      /\ count' = count + 1 /\ stamp' = [stamp EXCEPT ![p] = count + 1]
  BY DEF Pass, Admit, Responses, Pairs
<1>2. /\ count \in Nat /\ CacheSize \in Nat /\ order \in Seq(Pairs)
      /\ stamp \in [Pairs -> 0..MaxAdmitted] /\ MaxAdmitted \in Nat
      /\ Len(order) = IF count < CacheSize THEN count ELSE CacheSize
  BY VerifierConstants DEF IInv, TypeOK, Stamped
<1>3. stamp[p] <= count - Len(order)
  <2>1. ~ Cached(p)
    BY <1>1 DEF Pass, Cached
  <2>2. ~ (stamp[p] > Base)
    BY <1>1, <2>1 DEF IInv, Matching, Queued, Stamped
  <2>3. stamp[p] \in Nat
    BY <1>1, <1>2
  <2> QED
    BY <1>2, <2>2, <2>3 DEF Base
<1> HIDE DEF p
<1>4. /\ judged \in Seq(Pairs) /\ Len(judged) = count
      /\ judged' \in Seq(Pairs) /\ Len(judged') = count + 1
      /\ \A i \in 1..(count + 1) : judged'[i] = IF i = count + 1 THEN p ELSE judged[i]
  BY <1>1 DEF Numbered, p
<1>5. \A i \in 1..count : judged[i] \in Pairs /\ i <= stamp[judged[i]] /\ i \in 1..(count + 1)
  BY <1>2, <1>4 DEF Numbered
<1>6. Numbered'
  <2>1. ASSUME NEW i \in 1..(count + 1) PROVE i <= stamp'[judged'[i]]
    <3>1. CASE i = count + 1
      BY <1>1, <1>2, <1>4, <3>1
    <3>2. CASE i \in 1..count /\ judged[i] = p
      BY <1>1, <1>2, <1>4, <3>2
    <3>3. CASE i \in 1..count /\ judged[i] # p
      <4>1. judged'[i] = judged[i]
        BY <1>2, <1>4, <3>3
      <4> QED
        BY <1>1, <1>2, <1>5, <3>3, <4>1
    <3>4. i = count + 1 \/ i \in 1..count
      BY <1>2
    <3> QED
      BY <3>1, <3>2, <3>3, <3>4
  <2> QED
    BY <1>1, <1>4, <2>1 DEF Numbered
<1>7. JudgedOnce'
  <2> SUFFICES ASSUME NEW i \in 1..(count + 1), NEW j \in 1..(count + 1),
                      i < j, judged'[i] = judged'[j]
               PROVE  j - i > CacheSize
    BY <1>4 DEF JudgedOnce
  <2>1. i \in 1..count /\ judged'[i] = judged[i]
    BY <1>2, <1>4
  <2>2. CASE j \in 1..count
    <3>1. judged'[j] = judged[j]
      BY <1>2, <1>4, <2>2
    <3> QED
      BY <1>4, <2>1, <2>2, <3>1 DEF JudgedOnce
  <2>3. CASE j = count + 1
    <3>1. judged[i] = p
      BY <1>4, <2>1, <2>3
    <3>2. i <= count - Len(order)
      BY <1>1, <1>2, <1>3, <1>5, <2>1, <3>1
    <3> QED
      BY <1>2, <2>1, <2>3, <3>2
  <2> QED
    BY <1>2, <2>2, <2>3
<1> QED
  BY <1>6, <1>7

\* Nothing is judged when neither the verifier's history nor the client's grows.
LEMMA NumberedKept ==
  ASSUME Numbered, JudgedOnce, UNCHANGED <<history, judged>>
  PROVE  Numbered' /\ JudgedOnce'
BY DEF Numbered, JudgedOnce, history

-----------------------------------------------------------------------------
(* The steps *)

LEMMA SendStep == ClientInv /\ Send => ClientInv'
<1> SUFFICES ASSUME ClientInv, Send PROVE ClientInv'
  OBVIOUS
<1>1. /\ pc = "idle" /\ sent < MaxSends /\ sent' = sent + 1 /\ pc' = "channel_b"
      /\ outcome' = "none" /\ diagnosis' = None
      /\ UNCHANGED <<vars, received, answered, judged>>
  BY DEF Send
<1>2. sent \in Nat /\ MaxSends \in Nat /\ sent' \in 1..MaxSends
  BY <1>1, ClientConstants DEF ClientInv, Calls
<1>3. IInv'
  BY <1>1, NextIInv DEF ClientInv
<1>4. \A p \in received : p[2] \in 1..sent
  BY DEF ClientInv, Calls
<1>5. <<"A", sent'>> \notin received /\ answered \subseteq received
  BY <1>1, <1>2, <1>4 DEF ClientInv, Calls
<1>6. Calls'
  <2>1. received \subseteq {"A", "B"} \X (1..sent')
    BY <1>1, <1>2 DEF ClientInv, Calls
  <2>2. \A n \in 1..sent' : <<"A", n>> \in received => n \in 1..sent
    BY <1>4
  <2> QED
    BY <1>1, <1>2, <1>5, <2>1, <2>2 DEF ClientInv, Calls
<1>8. Numbered' /\ JudgedOnce'
  BY <1>1, NumberedKept DEF ClientInv, vars
<1>9. Returned'
  BY <1>1 DEF Returned, AnswersThisRequest, FailsClosed
<1> QED
  BY <1>3, <1>6, <1>8, <1>9 DEF ClientInv

LEMMA ChannelBStep == ClientInv /\ ChannelBAnswered => ClientInv'
<1> SUFFICES ASSUME ClientInv, ChannelBAnswered PROVE ClientInv'
  OBVIOUS
<1>1. /\ pc = "channel_b" /\ pc' = "channel_a"
      /\ received' = received \cup {<<"B", sent>>}
      /\ answered' = answered \cup {<<"B", sent>>}
      /\ UNCHANGED <<vars, sent, outcome, diagnosis, judged>>
  BY DEF ChannelBAnswered
<1>2. IInv'
  BY <1>1, NextIInv DEF ClientInv
<1>3. sent \in 1..MaxSends /\ sent \in 1..sent
  BY <1>1, ClientConstants DEF ClientInv, Calls
<1>4. Calls'
  BY <1>1, <1>3 DEF ClientInv, Calls
<1>6. Numbered' /\ JudgedOnce'
  BY <1>1, NumberedKept DEF ClientInv, vars
<1>7. Returned'
  BY <1>1 DEF ClientInv, Returned, AnswersThisRequest, FailsClosed
<1> QED
  BY <1>2, <1>4, <1>6, <1>7 DEF ClientInv

LEMMA CallFailsStep == ClientInv /\ CallFails => ClientInv'
<1> SUFFICES ASSUME ClientInv, CallFails PROVE ClientInv'
  OBVIOUS
<1>1. /\ pc \in {"channel_b", "channel_a"} /\ pc' = "idle"
      /\ received' \in {received, received \cup {<<IF pc = "channel_b" THEN "B" ELSE "A", sent>>}}
      /\ outcome' \in {"returned_none", "raised"}
      /\ UNCHANGED <<vars, sent, answered, diagnosis, judged>>
  BY DEF CallFails
<1>2. IInv'
  BY <1>1, NextIInv DEF ClientInv
<1>3. sent \in 1..MaxSends /\ sent \in 1..sent
  BY <1>1, ClientConstants DEF ClientInv, Calls
<1>4. Calls'
  <2>1. CASE pc = "channel_b"
    BY <1>1, <1>3, <2>1 DEF ClientInv, Calls
  <2>2. CASE pc = "channel_a"
    BY <1>1, <1>3, <2>2 DEF ClientInv, Calls
  <2> QED
    BY <1>1, <2>1, <2>2
<1>6. Numbered' /\ JudgedOnce'
  BY <1>1, NumberedKept DEF ClientInv, vars
<1>7. Returned'
  BY <1>1 DEF ClientInv, Returned, AnswersThisRequest, FailsClosed
<1> QED
  BY <1>2, <1>4, <1>6, <1>7 DEF ClientInv

LEMMA ChannelAStep ==
  ASSUME ClientInv, NEW r \in Responses, ChannelAAnswered(r)
  PROVE  ClientInv'
<1>1. /\ pc = "channel_a" /\ pc' = "idle" /\ sent' = sent
      /\ received' = received \cup {<<"A", sent>>}
      /\ answered' = answered \cup {<<"A", sent>>}
      /\ VerifyResponse(r, sent) /\ Conclude(r)
      /\ judged' = IF verdict' \in Late THEN Append(judged, <<r.session, r.nonce>>) ELSE judged
  BY DEF ChannelAAnswered
<1>2. sent \in 1..MaxSends /\ sent \in 1..sent /\ sent \in Requests
  BY <1>1, ClientConstants DEF ClientInv, Calls
<1>3. /\ IInv'
      /\ IF verdict' \in Late THEN Pass(r, sent) ELSE UNCHANGED history
      /\ verdict' = "passed" =>
           /\ r.form = "well_formed" /\ r.received = sent /\ r.ack = sent
           /\ ConfidenceInRange(r.confidence) /\ "unlisted" \notin r.vector
  BY <1>1, <1>2, VerifierStep DEF ClientInv
<1>4. Calls'
  <2>1. pc' = "idle" /\ sent' \in 0..MaxSends
    BY <1>1, <1>2 DEF ClientInv, Calls
  <2>2. received' \subseteq {"A", "B"} \X (1..sent') /\ answered' \subseteq received'
    BY <1>1, <1>2 DEF ClientInv, Calls
  <2>3. \A n \in 1..sent' : <<"A", n>> \in received' => <<"B", n>> \in answered'
    BY <1>1 DEF ClientInv, Calls
  <2> QED
    BY <2>1, <2>2, <2>3 DEF Calls
<1>5. Numbered' /\ JudgedOnce'
  BY <1>1, <1>2, <1>3, JudgedStep, NumberedKept DEF ClientInv
<1>6. Returned'
  <2>1. CASE diagnosis' = None /\ outcome' \in {"raised", "returned_none"}
    BY <1>1, <2>1 DEF Returned, AnswersThisRequest, FailsClosed
  <2>2. CASE verdict' = "passed" /\ ~ BelowFloor(r.confidence)
               /\ outcome' = "diagnosis" /\ diagnosis' = r
    <3>1. r.confidence \in Int
      BY <1>3, <2>2, VerifierConstants DEF Responses, ConfidenceInRange
    <3>2. 7 <= r.confidence /\ r.confidence <= 10
      BY <1>3, <2>2, <3>1 DEF BelowFloor, FloorTenths, ConfidenceInRange
    <3>3. r # None
      BY ClientConstants
    <3> QED
      BY <1>1, <1>3, <2>2, <3>2, <3>3 DEF Returned, AnswersThisRequest, FailsClosed
  <2> QED
    BY <1>1, <2>1, <2>2 DEF Conclude
<1> QED
  BY <1>3, <1>4, <1>5, <1>6 DEF ClientInv

LEMMA ClientStutter == ClientInv /\ UNCHANGED allVars => ClientInv'
<1> SUFFICES ASSUME ClientInv, UNCHANGED allVars PROVE ClientInv'
  OBVIOUS
<1>1. UNCHANGED vars /\ UNCHANGED client
  BY DEF allVars
<1>2. IInv'
  BY <1>1, NextIInv DEF ClientInv
<1>3. Calls' /\ Returned'
  BY <1>1 DEF ClientInv, Calls, Returned, AnswersThisRequest, FailsClosed, client
<1>4. Numbered' /\ JudgedOnce'
  BY <1>1, NumberedKept DEF ClientInv, client, vars
<1> QED
  BY <1>2, <1>3, <1>4 DEF ClientInv

LEMMA ClientAlways == ClientSpec => []ClientInv
<1>1. ClientInv /\ [ClientNext]_allVars => ClientInv'
  BY SendStep, ChannelBStep, CallFailsStep, ChannelAStep, ClientStutter DEF ClientNext
<1> QED
  BY <1>1, ClientInitInv, PTL DEF ClientSpec

-----------------------------------------------------------------------------
(* Theorems *)

\* The types of the client and of its verifier.
THEOREM ClientTypes == ClientSpec => []ClientTypeOK
<1>1. ClientInv => ClientTypeOK
  BY DEF ClientInv, IInv, Calls, Numbered, Returned, ClientTypeOK
<1> QED
  BY <1>1, ClientAlways, PTL

\* A diagnosis answers the request of the send that returns it.
THEOREM AnswersAreCurrent == ClientSpec => []AnswersThisRequest
<1>1. ClientInv => AnswersThisRequest
  BY DEF ClientInv, Returned
<1> QED
  BY <1>1, ClientAlways, PTL

\* SURPRISE follows the answered CONTEXT of the same send.
THEOREM ContextComesFirst == ClientSpec => []ContextFirst
<1>1. ClientInv => ContextFirst
  BY DEF ClientInv, Calls, ContextFirst
<1> QED
  BY <1>1, ClientAlways, PTL

\* What a send returns is certain enough and whitelisted where it is searched.
THEOREM ClientFailsClosed == ClientSpec => []FailsClosed
<1>1. ClientInv => FailsClosed
  BY DEF ClientInv, Returned
<1> QED
  BY <1>1, ClientAlways, PTL

\* A judged answer has used its nonce up, whether it was refused or not.
THEOREM NoncesAreUsedUp == ClientSpec => []JudgedOnce
<1>1. ClientInv => JudgedOnce
  BY DEF ClientInv
<1> QED
  BY <1>1, ClientAlways, PTL

\* The guarantees of the nonce cache hold inside the client.
THEOREM ClientCacheCoherent == ClientSpec => []CacheCoherent
<1>1. ClientInv => CacheCoherent
  BY CoherentLemma DEF ClientInv
<1> QED
  BY <1>1, ClientAlways, PTL
=============================================================================
