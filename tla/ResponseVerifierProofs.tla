----------------------- MODULE ResponseVerifierProofs -----------------------
(***************************************************************************)
(* Proofs about the nonce cache of ResponseVerifier, for every cache size. *)
(*                                                                         *)
(* The queue is indexed by the history: its i-th entry passed the replay   *)
(* gate as number count - Len(order) + i.  From this it follows that its   *)
(* entries differ, that the buckets hold exactly what is queued, and that  *)
(* a pair outside the buckets was admitted at least CacheSize pairs ago.   *)
(***************************************************************************)
EXTENDS ResponseVerifier, TLAPS

Base == count - Len(order)

Stamped ==
  /\ Len(order) = IF count < CacheSize THEN count ELSE CacheSize
  /\ \A i \in 1..Len(order) : stamp[order[i]] = Base + i
  /\ \A p \in Pairs : stamp[p] <= count
  /\ \A p \in Pairs : stamp[p] > Base =>
       \E i \in 1..Len(order) : order[i] = p

Cached(p) == p[2] \in Bucket(p[1])

Queued(p) == \E i \in 1..Len(order) : order[i] = p

Matching == \A p \in Pairs : Cached(p) <=> Queued(p)

IInv == TypeOK /\ Stamped /\ Matching

LEMMA InitIInv == Init => IInv
<1> SUFFICES ASSUME Init PROVE IInv
  OBVIOUS
<1>1. TypeOK
  BY VerifierConstants DEF Init, TypeOK, VerifierConstants
<1>2. Stamped
  BY VerifierConstants DEF Init, Stamped, Base, VerifierConstants
<1>3. Matching
  BY DEF Init, Matching, Cached, Queued, Bucket, Pairs
<1> QED
  BY <1>1, <1>2, <1>3 DEF IInv

\* The queue after a pair was admitted, in terms of the queue before.
LEMMA AdmitQueue ==
  ASSUME IInv, NEW s \in Sessions, NEW n \in Nonces, Admit(s, n), count < MaxAdmitted
  PROVE  LET k == Evicted(Append(order, <<s, n>>))
         IN  /\ k \in {0, 1}
             /\ k = IF count < CacheSize THEN 0 ELSE 1
             /\ order' \in Seq(Pairs)
             /\ Len(order') = Len(order) + 1 - k
             /\ \A i \in 1..Len(order') :
                  order'[i] = IF i + k = Len(order) + 1 THEN <<s, n>> ELSE order[i + k]
<1> DEFINE q == Append(order, <<s, n>>)
           k == Evicted(q)
<1>1. /\ order \in Seq(Pairs) /\ <<s, n>> \in Pairs
      /\ Len(order) = IF count < CacheSize THEN count ELSE CacheSize
      /\ count \in Nat /\ CacheSize \in Nat
  BY VerifierConstants DEF IInv, TypeOK, Stamped, Pairs, VerifierConstants
<1>2. /\ q \in Seq(Pairs) /\ Len(q) = Len(order) + 1
      /\ \A i \in 1..Len(q) : q[i] = IF i = Len(order) + 1 THEN <<s, n>> ELSE order[i]
  BY <1>1
<1>3. k = IF count < CacheSize THEN 0 ELSE 1
  BY <1>1, <1>2 DEF Evicted
<1>4. order' = SubSeq(q, k + 1, Len(q))
  BY DEF Admit
<1>5. /\ order' \in Seq(Pairs) /\ Len(order') = Len(q) - k
      /\ \A i \in 1..Len(order') : order'[i] = q[i + k]
  <2> HIDE DEF q, k
  <2> QED
    BY <1>1, <1>2, <1>3, <1>4
<1>6. \A i \in 1..Len(order') :
        order'[i] = IF i + k = Len(order) + 1 THEN <<s, n>> ELSE order[i + k]
  <2> SUFFICES ASSUME NEW i \in 1..Len(order')
               PROVE  order'[i] = IF i + k = Len(order) + 1 THEN <<s, n>> ELSE order[i + k]
    OBVIOUS
  <2> HIDE DEF q, k
  <2>1. i + k \in 1..Len(q) /\ order'[i] = q[i + k]
    BY <1>1, <1>2, <1>3, <1>5
  <2> QED
    BY <1>2, <2>1
<1> QED
  BY <1>2, <1>3, <1>5, <1>6

\* A pair is cached afterwards unless it was the one that had to go.
LEMMA AdmitBuckets ==
  ASSUME IInv, NEW s \in Sessions, NEW n \in Nonces, Admit(s, n), count < MaxAdmitted,
         NEW p \in Pairs
  PROVE  LET q == Append(order, <<s, n>>)
         IN  Cached(p)' <=> /\ Cached(p) \/ p = <<s, n>>
                            /\ p \notin {q[i] : i \in 1..Evicted(q)}
<1> DEFINE q == Append(order, <<s, n>>)
           old == {q[i] : i \in 1..Evicted(q)}
           added == [seen EXCEPT ![s] = Bucket(s) \cup {n}]
<1>1. PICK u \in Sessions, m \in Nonces : p = <<u, m>>
  BY DEF Pairs
<1>2. seen' = [v \in Sessions |-> Discard(added, v, old)]
  BY DEF Admit
<1>3. seen \in [Sessions -> ((SUBSET Nonces) \ {{}}) \cup {None}]
  BY DEF IInv, TypeOK
<1>4. \A B \in SUBSET Nonces : B # None
  BY VerifierConstants DEF VerifierConstants
<1> HIDE DEF q, old
<1>5. m \in Bucket(u)' <=> m \in (IF added[u] = None THEN {} ELSE added[u]) /\ <<u, m>> \notin old
  BY <1>2, <1>3, <1>4 DEF Bucket, Discard
<1>6. m \in (IF added[u] = None THEN {} ELSE added[u]) <=> m \in Bucket(u) \/ (u = s /\ m = n)
  BY <1>3, <1>4 DEF Bucket
<1> QED
  BY <1>1, <1>5, <1>6 DEF Cached, q, old

\* The buckets keep their type: an emptied bucket is dropped.
LEMMA AdmitBucketType ==
  ASSUME IInv, NEW s \in Sessions, NEW n \in Nonces, Admit(s, n)
  PROVE  seen' \in [Sessions -> ((SUBSET Nonces) \ {{}}) \cup {None}]
<1> DEFINE q == Append(order, <<s, n>>)
           old == {q[i] : i \in 1..Evicted(q)}
           added == [seen EXCEPT ![s] = Bucket(s) \cup {n}]
<1>1. added \in [Sessions -> (SUBSET Nonces) \cup {None}]
  <2>1. seen \in [Sessions -> ((SUBSET Nonces) \ {{}}) \cup {None}]
    BY DEF IInv, TypeOK
  <2>2. Bucket(s) \cup {n} \in SUBSET Nonces
    BY <2>1 DEF Bucket
  <2> DEFINE T == (SUBSET Nonces) \cup {None}
             X == Bucket(s) \cup {n}
  <2>3. seen \in [Sessions -> T] /\ X \in T
    BY <2>1, <2>2
  <2> HIDE DEF T, X
  <2>4. [seen EXCEPT ![s] = X] \in [Sessions -> T]
    BY <2>3
  <2> QED
    BY <2>4 DEF T, X
<1>2. seen' = [v \in Sessions |-> Discard(added, v, old)]
  BY DEF Admit
<1> HIDE DEF q, old, added
<1>3. \A v \in Sessions : Discard(added, v, old) \in ((SUBSET Nonces) \ {{}}) \cup {None}
  <2> SUFFICES ASSUME NEW v \in Sessions, Discard(added, v, old) # None
               PROVE  Discard(added, v, old) \in (SUBSET Nonces) \ {{}}
    OBVIOUS
  <2> DEFINE gone == {m \in Nonces : <<v, m>> \in old}
  <2>1. Discard(added, v, old) = added[v] \ gone /\ added[v] # None /\ ~ (added[v] \subseteq gone)
    BY DEF Discard
  <2>2. added[v] \in SUBSET Nonces
    <3>1. added[v] \in (SUBSET Nonces) \cup {None}
      BY <1>1
    <3> QED
      BY <2>1, <3>1
  <2> HIDE DEF gone
  <2>3. added[v] \ gone \subseteq Nonces /\ added[v] \ gone # {}
    BY <2>1, <2>2
  <2> QED
    BY <2>1, <2>3
<1> QED
  BY <1>2, <1>3

LEMMA AdmitIInv ==
  ASSUME IInv, NEW s \in Sessions, NEW n \in Nonces, Admit(s, n), count < MaxAdmitted,
         n \notin Bucket(s), verdict' \in {"confidence", "whitelist", "passed"}
  PROVE  IInv'
<1> DEFINE q == Append(order, <<s, n>>)
           k == Evicted(q)
<1>1. /\ order \in Seq(Pairs) /\ <<s, n>> \in Pairs
      /\ Len(order) = IF count < CacheSize THEN count ELSE CacheSize
      /\ count \in Nat /\ CacheSize \in Nat /\ MaxAdmitted \in Nat
      /\ stamp \in [Pairs -> 0..MaxAdmitted]
  BY VerifierConstants DEF IInv, TypeOK, Stamped, Pairs, VerifierConstants
<1>2. count' = count + 1 /\ stamp' = [stamp EXCEPT ![<<s, n>>] = count + 1]
  BY DEF Admit
<1>3. /\ k = IF count < CacheSize THEN 0 ELSE 1
      /\ order' \in Seq(Pairs) /\ Len(order') = Len(order) + 1 - k
      /\ \A i \in 1..Len(order') :
           order'[i] = IF i + k = Len(order) + 1 THEN <<s, n>> ELSE order[i + k]
  BY AdmitQueue
<1>8. Len(order) \in Nat /\ Len(order') \in Nat /\ k \in {0, 1}
  BY <1>1, <1>3
<1>9. ASSUME NEW i \in 1..Len(order')
      PROVE  \/ i = Len(order) + 1 - k /\ order'[i] = <<s, n>>
             \/ i + k \in 1..Len(order) /\ order'[i] = order[i + k]
  <2> HIDE DEF k
  <2>1. i + k \in 1..(Len(order) + 1)
    BY <1>3, <1>8
  <2>2. order'[i] = IF i + k = Len(order) + 1 THEN <<s, n>> ELSE order[i + k]
    BY <1>3
  <2> QED
    BY <1>8, <2>1, <2>2
<1>4. \A i \in 1..Len(order) : order[i] # <<s, n>>
  <2>1. ~ Cached(<<s, n>>)
    BY DEF Cached
  <2> QED
    BY <1>1, <2>1 DEF IInv, Matching, Queued
<1> HIDE DEF k
<1>5. TypeOK'
  <2>1. Len(order') <= CacheSize
    BY <1>1, <1>3
  <2>2. seen' \in [Sessions -> ((SUBSET Nonces) \ {{}}) \cup {None}]
    BY AdmitBucketType
  <2>3. count' \in 0..MaxAdmitted /\ stamp' \in [Pairs -> 0..MaxAdmitted]
    BY <1>1, <1>2
  <2> QED
    BY <1>3, <2>1, <2>2, <2>3 DEF TypeOK
<1>6. Stamped'
  <2>1. Base' = Base + k
    BY <1>1, <1>2, <1>3 DEF Base
  <2>2. Len(order') = IF count' < CacheSize THEN count' ELSE CacheSize
    BY <1>1, <1>2, <1>3
  <2>3. ASSUME NEW i \in 1..Len(order')
        PROVE  stamp'[order'[i]] = Base' + i
    <3>1. CASE i = Len(order) + 1 - k /\ order'[i] = <<s, n>>
      <4>1. stamp'[order'[i]] = count + 1
        BY <1>1, <1>2, <3>1
      <4>2. Base = count - Len(order) /\ count \in Nat
        BY <1>1 DEF Base
      <4> QED
        BY <1>8, <2>1, <3>1, <4>1, <4>2
    <3>2. CASE i + k \in 1..Len(order) /\ order'[i] = order[i + k]
      <4>1. order[i + k] \in Pairs /\ order[i + k] # <<s, n>>
        BY <1>1, <1>4, <3>2
      <4>2. stamp[order[i + k]] = Base + (i + k)
        BY <3>2 DEF IInv, Stamped
      <4>3. stamp'[order'[i]] = Base + (i + k)
        BY <1>1, <1>2, <3>2, <4>1, <4>2
      <4>4. Base \in Int
        BY <1>1 DEF Base
      <4> QED
        BY <1>8, <2>1, <4>3, <4>4
    <3> QED
      BY <1>9, <3>1, <3>2
  <2>4. ASSUME NEW p \in Pairs
        PROVE  stamp'[p] <= count'
    BY <1>1, <1>2 DEF IInv, Stamped
  <2>5. ASSUME NEW p \in Pairs, stamp'[p] > Base'
        PROVE  \E i \in 1..Len(order') : order'[i] = p
    <3>1. CASE p = <<s, n>>
      <4>1. CASE CacheSize = 0
        <5>1. Base' = count + 1 /\ stamp'[p] = count + 1
          BY <1>1, <1>2, <1>3, <3>1, <4>1 DEF Base
        <5> QED
          BY <1>1, <2>5, <5>1
      <4>2. CASE CacheSize # 0
        <5>1. Len(order) + 1 - k \in 1..Len(order')
          BY <1>1, <1>3, <4>2, SMTT(30)
        <5> QED
          BY <1>1, <1>3, <3>1, <5>1, SMTT(30)
      <4> QED
        BY <4>1, <4>2
    <3>2. CASE p # <<s, n>>
      <4>1. stamp'[p] = stamp[p] /\ stamp[p] > Base
        BY <1>1, <1>2, <1>3, <2>1, <2>5, <3>2 DEF Base
      <4>2. PICK j \in 1..Len(order) : order[j] = p
        BY <4>1 DEF IInv, Stamped
      <4>3. stamp[p] = Base + j
        BY <4>2 DEF IInv, Stamped
      <4>4. j - k \in 1..Len(order')
        BY <1>1, <1>2, <1>3, <2>1, <2>5, <4>1, <4>2, <4>3 DEF Base
      <4>5. j - k # Len(order) + 1 - k /\ j - k + k = j
        BY <1>8, <4>2
      <4> QED
        BY <1>9, <4>2, <4>4, <4>5
    <3> QED
      BY <3>1, <3>2
  <2> QED
    BY <2>2, <2>3, <2>4, <2>5 DEF Stamped
<1>7. Matching'
  <2> SUFFICES ASSUME NEW p \in Pairs
               PROVE  Cached(p)' <=> Queued(p)'
    BY DEF Matching
  <2>1. Cached(p)' <=> (Queued(p) \/ p = <<s, n>>) /\ p \notin {q[i] : i \in 1..k}
    BY AdmitBuckets DEF IInv, Matching, k
  <2>2. /\ Len(q) = Len(order) + 1
        /\ \A i \in 1..Len(q) : q[i] = IF i = Len(order) + 1 THEN <<s, n>> ELSE order[i]
    BY <1>1
  <2> HIDE DEF q
  <2>3. \A i, j \in 1..Len(q) : q[i] = q[j] => i = j
    <3>1. ASSUME NEW i \in 1..Len(order), NEW j \in 1..Len(order), order[i] = order[j]
          PROVE  i = j
      <4>1. stamp[order[i]] = Base + i /\ stamp[order[j]] = Base + j
        BY DEF IInv, Stamped
      <4>2. Base \in Int
        BY <1>1, <1>8 DEF Base
      <4> QED
        BY <3>1, <4>1, <4>2
    <3> SUFFICES ASSUME NEW i \in 1..Len(q), NEW j \in 1..Len(q), q[i] = q[j]
                 PROVE  i = j
      OBVIOUS
    <3>2. \/ i = Len(order) + 1 /\ q[i] = <<s, n>>
          \/ i \in 1..Len(order) /\ q[i] = order[i]
      BY <1>8, <2>2
    <3>3. \/ j = Len(order) + 1 /\ q[j] = <<s, n>>
          \/ j \in 1..Len(order) /\ q[j] = order[j]
      BY <1>8, <2>2
    <3> QED
      BY <1>4, <3>1, <3>2, <3>3
  <2>4. Queued(p) \/ p = <<s, n>> <=> \E i \in 1..Len(q) : q[i] = p
    <3>1. ASSUME NEW i \in 1..Len(order)
          PROVE  i \in 1..Len(q) /\ q[i] = order[i]
      BY <1>8, <2>2
    <3>2. Len(order) + 1 \in 1..Len(q) /\ q[Len(order) + 1] = <<s, n>>
      BY <1>8, <2>2
    <3>3. ASSUME NEW i \in 1..Len(q)
          PROVE  \/ i = Len(order) + 1 /\ q[i] = <<s, n>>
                 \/ i \in 1..Len(order) /\ q[i] = order[i]
      BY <1>8, <2>2
    <3> QED
      BY <3>1, <3>2, <3>3 DEF Queued
  <2>5. Queued(p)' <=> \E i \in (k + 1)..Len(q) : q[i] = p
    <3>1. ASSUME NEW i \in 1..Len(order')
          PROVE  i + k \in (k + 1)..Len(q) /\ order'[i] = q[i + k]
      <4>1. i + k \in 1..Len(q) /\ i + k \in (k + 1)..Len(q)
        BY <1>3, <1>8, <2>2
      <4> QED
        BY <1>3, <2>2, <4>1
    <3>2. ASSUME NEW i \in (k + 1)..Len(q)
          PROVE  i - k \in 1..Len(order') /\ order'[i - k] = q[i]
      <4>1. i - k \in 1..Len(order') /\ (i - k) + k = i
        BY <1>3, <1>8, <2>2
      <4> QED
        BY <3>1, <4>1
    <3>3. Queued(p)' => \E i \in (k + 1)..Len(q) : q[i] = p
      BY <3>1 DEF Queued
    <3>4. (\E i \in (k + 1)..Len(q) : q[i] = p) => Queued(p)'
      BY <3>2 DEF Queued
    <3> QED
      BY <3>3, <3>4
  <2>6. (\E i \in (k + 1)..Len(q) : q[i] = p)
          <=> (\E i \in 1..Len(q) : q[i] = p) /\ p \notin {q[i] : i \in 1..k}
    <3>1. \A i \in 1..Len(q) : i \in (k + 1)..Len(q) \/ i \in 1..k
      BY <1>8, <2>2
    <3>2. \A i \in (k + 1)..Len(q) : i \in 1..Len(q)
      BY <1>8, <2>2
    <3>3. \A i \in (k + 1)..Len(q), j \in 1..k : j \in 1..Len(q) /\ i # j
      BY <1>8, <2>2
    <3> QED
      BY <2>3, <3>1, <3>2, <3>3
  <2> QED
    BY <2>1, <2>4, <2>5, <2>6
<1> QED
  BY <1>5, <1>6, <1>7 DEF IInv

LEMMA NextIInv == IInv /\ [Next]_vars => IInv'
<1> SUFFICES ASSUME IInv, [Next]_vars PROVE IInv'
  OBVIOUS
<1>1. ASSUME UNCHANGED <<cache, history>>, verdict' \in (Forms \ {"well_formed"}) \cup
               {"none", "hash", "ack", "replay", "confidence", "whitelist", "passed"}
      PROVE  IInv'
  BY <1>1 DEF IInv, TypeOK, Stamped, Base, Matching, Cached, Queued, Bucket, cache, history
<1>2. ASSUME NEW r \in Responses, NEW request \in Requests, VerifyResponse(r, request)
      PROVE  IInv'
  <2>1. r.form \in Forms /\ r.session \in Sessions /\ r.nonce \in Nonces
    BY DEF Responses
  <2>2. CASE Refuse(r, request)
    <3>1. EarlyGate(r, request) \in (Forms \ {"well_formed"}) \cup {"hash", "ack", "replay"}
      BY <2>1 DEF EarlyGate
    <3> QED
      BY <1>1, <2>2, <3>1 DEF Refuse
  <2>3. CASE Replay(r, request)
    BY <1>1, <2>3 DEF Replay
  <2>4. CASE Pass(r, request)
    <3>1. LateGate(r) \in {"confidence", "whitelist", "passed"}
      BY DEF LateGate
    <3> QED
      BY <2>1, <2>4, <3>1, AdmitIInv DEF Pass
  <2> QED
    BY <1>2, <2>2, <2>3, <2>4 DEF VerifyResponse
<1>3. CASE UNCHANGED vars
  BY <1>1, <1>3 DEF vars, IInv, TypeOK
<1> QED
  BY <1>2, <1>3 DEF Next

LEMMA Invariance == Spec => []IInv
  BY InitIInv, NextIInv, PTL DEF Spec

\* The cache never grows past its size and keeps no empty bucket.
THEOREM TypeCorrect == Spec => []TypeOK
<1>1. IInv => TypeOK
  BY DEF IInv
<1> QED
  BY <1>1, Invariance, PTL

LEMMA CoherentLemma == IInv => CacheCoherent
<1> SUFFICES ASSUME IInv PROVE CacheCoherent
  OBVIOUS
<1>1. order \in Seq(Pairs) /\ count \in Nat /\ CacheSize \in Nat
  BY VerifierConstants DEF IInv, TypeOK, VerifierConstants
<1>2. \A i, j \in 1..Len(order) : order[i] = order[j] => i = j
  <2> SUFFICES ASSUME NEW i \in 1..Len(order), NEW j \in 1..Len(order), order[i] = order[j]
               PROVE  i = j
    OBVIOUS
  <2>1. stamp[order[i]] = Base + i /\ stamp[order[j]] = Base + j
    BY DEF IInv, Stamped
  <2>2. Base \in Int
    BY <1>1 DEF Base
  <2> QED
    BY <2>1, <2>2
<1>3. {p \in Pairs : p[2] \in Bucket(p[1])} = {order[i] : i \in 1..Len(order)}
  BY <1>1 DEF IInv, Matching, Cached, Queued
<1> QED
  BY <1>2, <1>3 DEF CacheCoherent

\* Queue and buckets agree, for every cache size and any mix of sessions.
THEOREM QueueAndBucketsAgree == Spec => []CacheCoherent
BY CoherentLemma, Invariance, PTL

\* Whatever the cache size, a pair passes the replay gate again only after
\* that many other pairs.
THEOREM ReplaysAreRefused == Spec => ReplayWindow
<1> DEFINE Window == \A p \in Pairs : stamp[p] # 0 /\ stamp'[p] # stamp[p] =>
                       stamp'[p] - stamp[p] > CacheSize
<1>1. IInv /\ [Next]_vars => [Window]_vars
  <2> SUFFICES ASSUME IInv, Next PROVE Window
    OBVIOUS
  <2>1. PICK r \in Responses, request \in Requests : VerifyResponse(r, request)
    BY DEF Next
  <2>2. CASE stamp' = stamp
    BY <2>2
  <2>3. CASE Pass(r, request)
    <3> DEFINE new == <<r.session, r.nonce>>
    <3>1. new \in Pairs /\ r.nonce \notin Bucket(r.session)
      BY <2>3 DEF Pass, Responses, Pairs
    <3>2. stamp' = [stamp EXCEPT ![new] = count + 1]
      BY <2>3 DEF Pass, Admit
    <3>3. ~ Queued(new)
      BY <3>1 DEF IInv, Matching, Cached
    <3>4. /\ stamp \in [Pairs -> 0..MaxAdmitted] /\ count \in Nat /\ CacheSize \in Nat
          /\ order \in Seq(Pairs) /\ MaxAdmitted \in Nat
      BY VerifierConstants DEF IInv, TypeOK, VerifierConstants
    <3> HIDE DEF new
    <3>5. stamp[new] <= count - Len(order)
      BY <3>1, <3>3, <3>4 DEF IInv, Stamped, Base, Queued
    <3>6. Len(order) = (IF count < CacheSize THEN count ELSE CacheSize)
      BY DEF IInv, Stamped
    <3>7. stamp[new] # 0 => count + 1 - stamp[new] > CacheSize
      BY <3>1, <3>4, <3>5, <3>6
    <3> QED
      BY <3>1, <3>2, <3>4, <3>7
  <2> QED
    BY <2>1, <2>2, <2>3 DEF VerifyResponse, Refuse, Replay, history
<1> QED
  BY <1>1, Invariance, PTL DEF Spec, ReplayWindow
=============================================================================
