-------------------------- MODULE ResponseVerifier --------------------------
(***************************************************************************)
(* api/protocol.py, class ProtocolVerifier: the gates a RESPONSE packet    *)
(* passes in a fixed order, and the bounded cache of nonces behind the     *)
(* anti-replay gate.                                                       *)
(*                                                                         *)
(* A response is a record of what the gates look at.  A BLAKE3 hash is the *)
(* request whose bytes it covers (collision free; the NONCE in every       *)
(* request makes its bytes unique).                                        *)
(***************************************************************************)
EXTENDS ResponseGates, Sequences

CONSTANTS Requests,    \* requests whose hashes a response may echo
          Sessions,    \* values of SESSION_ID in responses
          Nonces,      \* values of NONCE in responses
          Confidences, \* values of CONFIDENCE in tenths, NaN for no number
          Vectors,     \* values of ACTION_VECTOR: sets of members of Named
          Fallbacks,   \* values of FALLBACK: likewise
          CacheSize,   \* nonce_cache_size (4096 in the code)
          MaxAdmitted, \* bound on the responses that pass the replay gate
          None         \* no bucket

ASSUME VerifierConstants ==
  /\ CacheSize \in Nat /\ MaxAdmitted \in Nat
  /\ Vectors \cup Fallbacks \subseteq SUBSET Named
  /\ \A bucket \in SUBSET Nonces : bucket # None
  /\ Confidences \ {NaN} \subseteq Int

Responses ==
  [form : Forms, received : Requests, ack : Requests,
   session : Sessions, nonce : Nonces, confidence : Confidences,
   vector : Vectors, fallback : Fallbacks]

VARIABLES seen,     \* _seen_nonces: session -> bucket of nonces, None if no bucket
          order,    \* _nonce_order: the cached pairs, oldest first
          count,    \* (history) how many responses passed the replay gate
          stamp,    \* (history) when a pair last passed it, 0 if never
          verdict   \* the gate that refused the last response, or "passed"

cache == <<seen, order>>
history == <<count, stamp>>
vars == <<cache, history, verdict>>

Pairs == Sessions \X Nonces

-----------------------------------------------------------------------------
(* The replay gate *)

Bucket(s) == IF seen[s] = None THEN {} ELSE seen[s]

EvictedMutant(q) == IF Len(q) >= CacheSize THEN 1 ELSE 0  \* >= for >

\* How many entries the eviction loop pops off the queue q.
Evicted(q) == IF Len(q) > CacheSize THEN Len(q) - CacheSize ELSE 0

DiscardNothingMutant(b, s, old) == b[s]  \* the queue shrinks, the buckets do not

DiscardMutant(b, s, old) ==  \* an emptied bucket stays
  IF b[s] = None THEN None ELSE b[s] \ {n \in Nonces : <<s, n>> \in old}

\* The bucket of session s once the pairs old are evicted from the buckets b.
Discard(b, s, old) ==
  IF b[s] = None \/ b[s] \subseteq {n \in Nonces : <<s, n>> \in old}
    THEN None
    ELSE b[s] \ {n \in Nonces : <<s, n>> \in old}

\* _check_replay of a pair that is not cached.
Admit(s, n) ==
  LET q == Append(order, <<s, n>>)
      k == Evicted(q)
      old == {q[i] : i \in 1..k}
      added == [seen EXCEPT ![s] = Bucket(s) \cup {n}]
  IN  /\ seen' = [u \in Sessions |-> Discard(added, u, old)]
      /\ order' = SubSeq(q, k + 1, Len(q))
      /\ count' = count + 1
      /\ stamp' = [stamp EXCEPT ![<<s, n>>] = count + 1]

Init ==
  /\ seen = [s \in Sessions |-> None]
  /\ order = <<>>
  /\ count = 0
  /\ stamp = [p \in Pairs |-> 0]
  /\ verdict = "none"

Refuse(r, request) ==
  /\ EarlyGate(r, request) # "replay"
  /\ verdict' = EarlyGate(r, request)
  /\ UNCHANGED <<cache, history>>

Replay(r, request) ==
  /\ EarlyGate(r, request) = "replay"
  /\ r.nonce \in Bucket(r.session)
  /\ verdict' = "replay"
  /\ UNCHANGED <<cache, history>>

PassMutant(r, request) ==  \* the nonce is recorded after all gates were passed
  /\ EarlyGate(r, request) = "replay"
  /\ r.nonce \notin Bucket(r.session)
  /\ count < MaxAdmitted
  /\ IF LateGate(r) = "passed" THEN Admit(r.session, r.nonce) ELSE UNCHANGED <<cache, history>>
  /\ verdict' = LateGate(r)

\* The nonce is recorded before the confidence and the whitelist are checked.
Pass(r, request) ==
  /\ EarlyGate(r, request) = "replay"
  /\ r.nonce \notin Bucket(r.session)
  /\ count < MaxAdmitted
  /\ Admit(r.session, r.nonce)
  /\ verdict' = LateGate(r)

VerifyResponse(r, request) ==
  Refuse(r, request) \/ Replay(r, request) \/ Pass(r, request)

Next == \E r \in Responses, request \in Requests : VerifyResponse(r, request)

Spec == Init /\ [][Next]_vars

-----------------------------------------------------------------------------
(* Properties *)

TypeOK ==
  /\ seen \in [Sessions -> ((SUBSET Nonces) \ {{}}) \cup {None}]
  /\ order \in Seq(Pairs) /\ Len(order) <= CacheSize
  /\ count \in 0..MaxAdmitted
  /\ stamp \in [Pairs -> 0..MaxAdmitted]
  /\ verdict \in (Forms \ {"well_formed"}) \cup
                  {"none", "hash", "ack", "replay", "confidence", "whitelist", "passed"}

\* The buckets and the recency queue describe the same set of pairs, whatever
\* mix of sessions the responses name and however often the cache overflowed:
\* no nonce is remembered that the eviction loop can no longer reach, and none
\* is queued that the replay gate has forgotten.
CacheCoherent ==
  /\ {p \in Pairs : p[2] \in Bucket(p[1])} = {order[i] : i \in 1..Len(order)}
  /\ \A i, j \in 1..Len(order) : order[i] = order[j] => i = j

\* A pair passes the replay gate a second time only after CacheSize other
\* pairs have passed it: the bounded cache never forgets earlier than that.
ReplayWindow ==
  [][\A p \in Pairs : stamp[p] # 0 /\ stamp'[p] # stamp[p] =>
       stamp'[p] - stamp[p] > CacheSize]_vars
=============================================================================
