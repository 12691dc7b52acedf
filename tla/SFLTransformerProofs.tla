------------------------ MODULE SFLTransformerProofs ------------------------
(***************************************************************************)
(* Proofs about SFLTransformer, for any number of threads and any texts:   *)
(* what the lock does for the sequence numbers, and what rounding leaves   *)
(* of the magnitude.                                                       *)
(***************************************************************************)
EXTENDS SFLTransformer, FiniteSetTheorems, WellFoundedInduction, TLAPS

-----------------------------------------------------------------------------
(* The counter *)

InLock == {"locked", "read", "written"}

\* The numbers that are in use: out, or with a thread that has not returned.
Held == {t \in Threads : pc[t] = "allocated"}

CounterOK ==
  /\ next_seq \in Nat /\ lock \in Threads \cup {None}
  /\ pc \in [Threads -> {"idle", "events", "allocated"} \cup InLock]
  /\ reg \in [Threads -> Nat]
  /\ before \in [Threads -> SUBSET Nat]
  /\ returned \in Seq(Nat \X SUBSET Nat)

\* The holder of the lock is the one thread between Acquire and Release.
Exclusive ==
  \A t \in Threads :
    /\ pc[t] \in InLock => lock = t
    /\ pc[t] = "read" => reg[t] = next_seq
    /\ pc[t] = "written" => next_seq = reg[t] + 1

\* A number that has been written but not released belongs to nobody.
Unclaimed == \E t \in Threads : pc[t] = "written"

Free(n) == n <= next_seq /\ (Unclaimed => n < next_seq)

Claimed ==
  /\ \A i \in DOMAIN returned : Free(returned[i][1])
  /\ \A t \in Held : Free(reg[t]) /\ \A i \in DOMAIN returned : returned[i][1] # reg[t]
  /\ \A t, u \in Held : reg[t] = reg[u] => t = u

\* What was out when a call began is below every number still to come.
Below ==
  \A t \in Threads : \A n \in before[t] :
    /\ pc[t] # "allocated" => Free(n)
    /\ pc[t] = "allocated" => n < reg[t]

SeqInv == CounterOK /\ Exclusive /\ Claimed /\ Below /\ SeqOrdered

LEMMA SeqInvInit == Init => SeqInv
BY TransformerConstants
   DEF Init, SeqInv, CounterOK, InLock, Exclusive, Claimed, Below, SeqOrdered, Held

LEMMA OutFacts ==
  ASSUME CounterOK
  PROVE  Out = {returned[i][1] : i \in DOMAIN returned} /\ Out \subseteq Nat
BY DEF CounterOK, Out, Range

LEMMA SeqInvStep == SeqInv /\ [Next]_vars => SeqInv'
<1> SUFFICES ASSUME SeqInv, [Next]_vars PROVE SeqInv'
  OBVIOUS
<1> USE TransformerConstants
    DEF SeqInv, CounterOK, InLock, Exclusive, Claimed, Below, SeqOrdered, Held, Free, Unclaimed,
        Goto, counter, result
<1>1. ASSUME NEW t \in Threads, Call(t) PROVE SeqInv'
  <2>1. UNCHANGED <<next_seq, lock, reg, returned>>
    BY <1>1 DEF Call
  <2>2. pc' = [pc EXCEPT ![t] = "events"] /\ pc[t] = "idle" /\ before' = [before EXCEPT ![t] = Out]
    BY <1>1 DEF Call
  <2>3. \A n \in Out : n \in Nat /\ Free(n)
    BY OutFacts
  <2>4. CounterOK' /\ Exclusive'
    BY <2>1, <2>2, <2>3
  <2>5. Unclaimed' <=> Unclaimed
    BY <2>2
  <2>6. Claimed' /\ SeqOrdered'
    BY <2>1, <2>2, <2>5
  <2>7. Below'
    BY <2>1, <2>2, <2>3, <2>5
  <2> QED
    BY <2>4, <2>6, <2>7
<1>2. ASSUME NEW t \in Threads, Acquire(t) PROVE SeqInv'
  BY <1>2 DEF Acquire, LockFree
<1>3. ASSUME NEW t \in Threads, Read(t) PROVE SeqInv'
  BY <1>3 DEF Read
<1>4. ASSUME NEW t \in Threads, Write(t) PROVE SeqInv'
  BY <1>4 DEF Write
<1>5. ASSUME NEW t \in Threads, Release(t) PROVE SeqInv'
  BY <1>5 DEF Release
<1>6. ASSUME NEW t \in Threads, Return(t) PROVE SeqInv'
  BY <1>6, SMTT(30) DEF Return
<1>7. CASE UNCHANGED vars
  BY <1>7 DEF vars
<1> QED
  BY <1>1, <1>2, <1>3, <1>4, <1>5, <1>6, <1>7 DEF Next

\* Sequence numbers are unique and follow the order in which calls that do not
\* overlap are made, for any number of threads and calls.
THEOREM SequenceOrdered == Spec => []SeqOrdered
<1>1. SeqInv => SeqOrdered
  BY DEF SeqInv
<1> QED
  BY <1>1, SeqInvInit, SeqInvStep, PTL DEF Spec

-----------------------------------------------------------------------------
(* The packet *)

Failed(text_) == With("-1", Events(text_))
Warned(text_) == With("WARN", Events(text_))

\* Lines that failed are not lines that warned, so their numbers add up to at
\* most the number of lines; there are as many failures as lines only if every
\* line failed.
LEMMA LineCounts ==
  ASSUME NEW t \in Texts
  PROVE  /\ Len(t) \in Nat /\ DOMAIN t = 1..Len(t)
         /\ DOMAIN Events(t) = 1..Len(t) /\ DOMAIN Scale(t) = 1..Len(t)
         /\ Len(Events(t)) = Len(t) /\ (Events(t) = <<>> <=> Len(t) = 0)
         /\ Failed(t) = {i \in 1..Len(t) : Events(t)[i].a = "-1"}
         /\ Warned(t) = {i \in 1..Len(t) : Events(t)[i].a = "WARN"}
         /\ IsFiniteSet(Failed(t)) /\ IsFiniteSet(Warned(t))
         /\ Cardinality(Failed(t)) \in Nat /\ Cardinality(Warned(t)) \in Nat
         /\ Cardinality(Failed(t)) + Cardinality(Warned(t)) <= Len(t)
         /\ Cardinality(Failed(t)) = Len(t) <=> Failed(t) = 1..Len(t)
         /\ t # <<>> <=> Len(t) > 0
<1>1. PICK n \in 0..MaxLines : t \in [1..n -> Lines]
  BY DEF Texts
<1>2. n \in Nat /\ Len(t) = n /\ DOMAIN t = 1..n
  BY <1>1, SurprisePacketConstants
<1>3. /\ DOMAIN Events(t) = 1..n /\ DOMAIN Scale(t) = 1..n
      /\ Len(Events(t)) = n
  BY <1>2 DEF Events, Scale
<1>4. Events(t) = <<>> <=> n = 0
  <2>1. ASSUME Events(t) = <<>> PROVE n = 0
    BY <2>1, <1>2, <1>3
  <2>2. ASSUME n = 0 PROVE Events(t) = <<>>
    BY <2>2, <1>2 DEF Events
  <2> QED
    BY <2>1, <2>2
<1>5. /\ Failed(t) = {i \in 1..n : Events(t)[i].a = "-1"}
      /\ Warned(t) = {i \in 1..n : Events(t)[i].a = "WARN"}
  BY <1>3 DEF Failed, Warned, With
<1>6. IsFiniteSet(1..n) /\ Cardinality(1..n) = n
  BY <1>2, FS_Interval
<1>7. Failed(t) \subseteq 1..n /\ Warned(t) \subseteq 1..n /\ Failed(t) \cap Warned(t) = {}
  BY <1>5
<1>8. /\ IsFiniteSet(Failed(t)) /\ IsFiniteSet(Warned(t))
      /\ Cardinality(Failed(t)) = n <=> Failed(t) = 1..n
  BY <1>6, <1>7, FS_Subset
<1>9. Cardinality(Failed(t)) \in Nat /\ Cardinality(Warned(t)) \in Nat
  BY <1>8, FS_CardinalityType
<1>10. Cardinality(Failed(t) \cup Warned(t)) = Cardinality(Failed(t)) + Cardinality(Warned(t))
  <2>1. /\ Cardinality(Failed(t) \cap Warned(t)) = 0
        /\ Cardinality(Failed(t) \cup Warned(t))
             = Cardinality(Failed(t)) + Cardinality(Warned(t)) - Cardinality(Failed(t) \cap Warned(t))
    BY <1>7, <1>8, FS_Union, FS_EmptySet
  <2> QED
    BY <2>1, <1>9
<1>11. Cardinality(Failed(t) \cup Warned(t)) <= n
  BY <1>6, <1>7, FS_Subset, Failed(t) \cup Warned(t) \subseteq 1..n
<1>12. t # <<>> <=> n > 0
  <2>1. ASSUME t # <<>>, n = 0 PROVE FALSE
    <3>1. t = [i \in 1..n |-> t[i]]
      BY <1>1
    <3> QED
      BY <2>1, <3>1
  <2> QED
    BY <1>2, <2>1
<1> QED
  BY <1>2, <1>3, <1>4, <1>5, <1>8, <1>9, <1>10, <1>11, <1>12

\* What rounding to thousandths leaves of a mean weight h/2n.
LEMMA Rounding ==
  ASSUME NEW n \in Nat \ {0}, NEW h \in Nat, h <= 2 * n, NEW m \in Int,
         2 * m * n - n <= 1000 * h, 1000 * h <= 2 * m * n + n
  PROVE  /\ m \in 0..1000
         /\ h = 0 => m = 0
         /\ h = 2 * n => m = 1000
         /\ n < 1000 /\ m = 0 => h = 0
         /\ m = 1000 => 1000 * h >= 1999 * n
         /\ h >= 4 => m * n >= 2000 - n
<1> DEFINE k == m * n
<1>1. k \in Int /\ 2 * m * n = 2 * k
  OBVIOUS
<1>2. m >= 1 => k >= n
  OBVIOUS
<1>3. m >= 1001 => k >= 1001 * n
  <2>1. m >= 1001 => (m - 1001) * n >= 0
    OBVIOUS
  <2> QED
    BY <2>1
<1>4. m <= 999 => k <= 999 * n
  <2>1. m <= 999 => (999 - m) * n >= 0
    OBVIOUS
  <2> QED
    BY <2>1
<1>5. m <= -1 => k <= -n
  <2>1. m <= -1 => (-1 - m) * n >= 0
    OBVIOUS
  <2> QED
    BY <2>1
<1>6. (m = 0 => k = 0) /\ (m = 1000 => k = 1000 * n)
  OBVIOUS
<1>7. 2 * k - n <= 1000 * h /\ 1000 * h <= 2 * k + n
  BY <1>1
<1> HIDE DEF k
<1>8. m \in 0..1000 /\ (h = 0 => m = 0) /\ (h = 2 * n => m = 1000)
  BY <1>1, <1>2, <1>3, <1>4, <1>5, <1>7
<1>9. (n < 1000 /\ m = 0 => h = 0) /\ (m = 1000 => 1000 * h >= 1999 * n)
  BY <1>1, <1>6, <1>7
<1>10. h >= 4 => k >= 2000 - n
  BY <1>1, <1>7
<1> QED
  BY <1>8, <1>9, <1>10 DEF k

\* The packets of a text: n lines, of which f failed and w warned.
LEMMA PacketFacts ==
  ASSUME NEW t \in Texts, NEW seq, NEW p \in Packets(t, seq)
  PROVE  LET n == Len(t)
             f == Cardinality(Failed(t))
             w == Cardinality(Warned(t))
         IN  /\ p.seq = seq /\ p.div = Events(t) /\ p.scale = Scale(t)
             /\ p.packet_type = ClassifyPacket(Events(t), Scale(t))
             /\ p.mag \in 0..1000
             /\ n = 0 => p.mag = 0
             /\ n > 0 /\ f = 0 /\ w = 0 => p.mag = 0
             /\ n > 0 /\ f = n => p.mag = 1000
             /\ n > 0 /\ n < 1000 /\ p.mag = 0 => f = 0 /\ w = 0
             /\ n > 0 /\ n < 1000 /\ p.mag = 1000 => f = n
             /\ p.mag = 1000 => n > 0
             /\ f >= 2 => p.mag * n >= 2000 - n
<1> DEFINE n == Len(t)
           f == Cardinality(Failed(t))
           w == Cardinality(Warned(t))
           h == 2 * f + w
<1>1. PICK m \in Magnitudes(Events(t)) :
        p = [seq |-> seq, mag |-> m, div |-> Events(t), scale |-> Scale(t),
             packet_type |-> ClassifyPacket(Events(t), Scale(t))]
  BY DEF Packets
<1>2. /\ p.seq = seq /\ p.div = Events(t) /\ p.scale = Scale(t) /\ p.mag = m
      /\ p.packet_type = ClassifyPacket(Events(t), Scale(t))
  BY <1>1
<1>3. n \in Nat /\ f \in Nat /\ w \in Nat /\ f + w <= n /\ h \in Nat /\ h <= 2 * n
  BY LineCounts
<1>4. CASE n = 0
  <2>1. m = 0 /\ f = 0
    BY <1>1, <1>3, <1>4, LineCounts DEF Magnitudes
  <2> QED
    BY <1>2, <1>4, <2>1
<1>5. CASE n > 0
  <2>1. HalfWeights(Events(t)) = h /\ Len(Events(t)) = n /\ Events(t) # <<>>
    BY <1>3, <1>5, LineCounts DEF HalfWeights, Failed, Warned
  <2> HIDE DEF h, n
  <2>2. LET low == (1000 * h) \div (2 * n)
        IN  /\ m \in {low, low + 1}
            /\ 2 * m * n - n <= 1000 * h /\ 1000 * h <= 2 * m * n + n
    BY <1>1, <2>1 DEF Magnitudes
  <2>3. (1000 * h) \div (2 * n) \in Int
    BY <1>3, <1>5
  <2>4. m \in Int /\ 2 * m * n - n <= 1000 * h /\ 1000 * h <= 2 * m * n + n
    BY <2>2, <2>3
  <2>5. /\ m \in 0..1000
        /\ h = 0 => m = 0
        /\ h = 2 * n => m = 1000
        /\ n < 1000 /\ m = 0 => h = 0
        /\ m = 1000 => 1000 * h >= 1999 * n
        /\ h >= 4 => m * n >= 2000 - n
    BY <1>3, <1>5, <2>4, Rounding
  <2> HIDE DEF f, w
  <2>6. /\ f = 0 /\ w = 0 => h = 0
        /\ f = n => h = 2 * n
        /\ h = 0 => f = 0 /\ w = 0
        /\ f >= 2 => h >= 4
        /\ n < 1000 /\ 1000 * h >= 1999 * n => f = n
    BY <1>3 DEF h
  <2> QED
    BY <1>2, <1>5, <2>5, <2>6 DEF n, f, w
<1> QED
  BY <1>3, <1>4, <1>5

\* Where the packet comes from, and that its number is one that was given out.
PacketInv ==
  /\ SeqInv /\ text \in Texts /\ calls \in 0..MaxCalls
  /\ \A t \in Held : reg[t] >= 1
  /\ packet = None \/ \E seq \in 1..next_seq : packet \in Packets(text, seq)

LEMMA PacketInvInit == Init => PacketInv
BY SeqInvInit, TransformerConstants DEF Init, PacketInv, Held

LEMMA PacketInvStep == PacketInv /\ [Next]_vars => PacketInv'
<1> SUFFICES ASSUME PacketInv, [Next]_vars PROVE PacketInv'
  OBVIOUS
<1>1. SeqInv' /\ SeqInv
  BY SeqInvStep DEF PacketInv
<1>2. next_seq \in Nat /\ next_seq' \in Nat /\ pc \in [Threads -> {"idle", "events", "allocated"} \cup InLock]
      /\ reg \in [Threads -> Nat]
  BY <1>1 DEF SeqInv, CounterOK
<1> USE TransformerConstants DEF PacketInv, Held, Goto, counter, result
<1>3. ASSUME NEW t \in Threads, Call(t) PROVE PacketInv'
  BY <1>1, <1>2, <1>3 DEF Call
<1>4. ASSUME NEW t \in Threads, Acquire(t) PROVE PacketInv'
  BY <1>1, <1>2, <1>4 DEF Acquire
<1>5. ASSUME NEW t \in Threads, Read(t) PROVE PacketInv'
  BY <1>1, <1>2, <1>5 DEF Read
<1>6. ASSUME NEW t \in Threads, Write(t) PROVE PacketInv'
  <2>1. next_seq' = next_seq + 1
    BY <1>1, <1>6 DEF Write, SeqInv, Exclusive
  <2>2. packet' = None \/ \E seq \in 1..next_seq' : packet' \in Packets(text', seq)
    BY <1>2, <1>6, <2>1 DEF Write
  <2> QED
    BY <1>1, <1>2, <1>6, <2>2 DEF Write
<1>7. ASSUME NEW t \in Threads, Release(t) PROVE PacketInv'
  <2>1. next_seq = reg[t] + 1 /\ reg[t] \in Nat
    BY <1>1, <1>2, <1>7 DEF Release, SeqInv, Exclusive
  <2> QED
    BY <1>1, <1>2, <1>7, <2>1 DEF Release
<1>8. ASSUME NEW t \in Threads, Return(t) PROVE PacketInv'
  <2>1. reg[t] \in 1..next_seq /\ packet' \in Packets(text, reg[t])
    BY <1>1, <1>2, <1>8 DEF Return, SeqInv, Claimed, Free
  <2> QED
    BY <1>1, <1>2, <1>8, <2>1 DEF Return
<1>9. CASE UNCHANGED vars
  BY <1>1, <1>9 DEF vars
<1> QED
  BY <1>3, <1>4, <1>5, <1>6, <1>7, <1>8, <1>9 DEF Next

LEMMA MagnitudeLemma == PacketInv => MagnitudeSound
<1> SUFFICES ASSUME PacketInv, packet # None, Len(text) < 1000
             PROVE  /\ packet.mag = 0 <=>
                         \A i \in DOMAIN text : packet.div[i].a \notin {"-1", "WARN"}
                    /\ packet.mag = 1000 <=>
                         text # <<>> /\ \A i \in DOMAIN text : packet.div[i].a = "-1"
  BY DEF MagnitudeSound
<1>1. text \in Texts /\ \E seq \in 1..next_seq : packet \in Packets(text, seq)
  BY DEF PacketInv
<1> DEFINE n == Len(text)
           f == Cardinality(Failed(text))
           w == Cardinality(Warned(text))
<1>2. /\ packet.div = Events(text) /\ packet.mag \in 0..1000
      /\ n = 0 => packet.mag = 0
      /\ n > 0 /\ f = 0 /\ w = 0 => packet.mag = 0
      /\ n > 0 /\ f = n => packet.mag = 1000
      /\ n > 0 /\ packet.mag = 0 => f = 0 /\ w = 0
      /\ n > 0 /\ packet.mag = 1000 => f = n
      /\ packet.mag = 1000 => n > 0
  BY <1>1, PacketFacts
<1>3. /\ n \in Nat /\ DOMAIN text = 1..n
      /\ Failed(text) = {i \in 1..n : Events(text)[i].a = "-1"}
      /\ Warned(text) = {i \in 1..n : Events(text)[i].a = "WARN"}
      /\ f = n <=> Failed(text) = 1..n
      /\ text # <<>> <=> n > 0
  BY <1>1, LineCounts
<1>4. (f = 0 <=> Failed(text) = {}) /\ (w = 0 <=> Warned(text) = {})
  BY <1>1, LineCounts, FS_EmptySet
<1> HIDE DEF n, f, w
<1>5. packet.mag = 0 <=> \A i \in 1..n : Events(text)[i].a \notin {"-1", "WARN"}
  BY <1>2, <1>3, <1>4
<1>6. packet.mag = 1000 <=> n > 0 /\ \A i \in 1..n : Events(text)[i].a = "-1"
  <2>1. (\A i \in 1..n : Events(text)[i].a = "-1") <=> Failed(text) = 1..n
    BY <1>3
  <2> QED
    BY <1>2, <1>3, <2>1
<1> QED
  BY <1>2, <1>3, <1>5, <1>6

LEMMA TwoElements ==
  ASSUME NEW S, IsFiniteSet(S), NEW x \in S, NEW y \in S, x # y
  PROVE  Cardinality(S) >= 2
<1>1. IsFiniteSet(S \ {x}) /\ Cardinality(S \ {x}) = Cardinality(S) - 1
  BY FS_RemoveElement
<1>2. Cardinality(S \ {x}) # 0
  BY <1>1, FS_EmptySet, y \in S \ {x}
<1>3. Cardinality(S) \in Nat /\ Cardinality(S \ {x}) \in Nat
  BY <1>1, FS_CardinalityType
<1> QED
  BY <1>1, <1>2, <1>3

LEMMA TypeFitsLemma == PacketInv => TypeFitsMagnitude
<1> SUFFICES
      ASSUME PacketInv, packet # None, Len(text) < 1000
      PROVE  /\ packet.mag = 0 => packet.packet_type \in {"DRIFT", "ANOMALY"}
             /\ packet.packet_type = "CASCADE" => packet.mag * Len(text) >= 2000 - Len(text)
             /\ packet.mag = 1000 /\ Len(text) > 1
                  /\ (\A i \in DOMAIN text : packet.scale[i] \in Fast)
                  => packet.packet_type = "CASCADE"
             /\ Cardinality({i \in DOMAIN text : packet.div[i].a = "-1"}) = 1
                  /\ ~ (\E i \in DOMAIN text : packet.scale[i] \in Slow)
                  => packet.packet_type \in {"SPIKE", "DRAIN"}
  BY DEF TypeFitsMagnitude
<1>1. text \in Texts /\ \E seq \in 1..next_seq : packet \in Packets(text, seq)
  BY DEF PacketInv
<1> DEFINE n == Len(text)
           F == Failed(text)
           W == Warned(text)
           events == Events(text)
           scale == Scale(text)
           fast == \A i \in 1..n : scale[i] \in Fast
           slow == \E i \in 1..n : scale[i] \in Slow
<1>2. /\ packet.div = events /\ packet.scale = scale
       /\ packet.packet_type = ClassifyPacket(events, scale)
  BY <1>1, PacketFacts
<1>3. /\ packet.mag \in 0..1000
      /\ n > 0 /\ packet.mag = 0 => Cardinality(F) = 0 /\ Cardinality(W) = 0
      /\ n > 0 /\ packet.mag = 1000 => Cardinality(F) = n
      /\ Cardinality(F) >= 2 => packet.mag * n >= 2000 - n
  BY <1>1, PacketFacts
<1>4. /\ n \in Nat /\ DOMAIN text = 1..n /\ DOMAIN scale = 1..n /\ DOMAIN events = 1..n
      /\ F = {i \in 1..n : events[i].a = "-1"}
      /\ F = With("-1", events) /\ W = With("WARN", events)
      /\ F \subseteq 1..n /\ W \subseteq 1..n
      /\ IsFiniteSet(F) /\ IsFiniteSet(W) /\ Cardinality(F) \in Nat
      /\ Cardinality(F) = n => F = 1..n
  BY <1>1, LineCounts DEF Failed, Warned, With
<1> HIDE DEF n, F, W, events, scale
<1>5. (Cardinality(F) = 0 <=> F = {}) /\ (Cardinality(W) = 0 => W = {})
  BY <1>4, FS_EmptySet, SMTT(30)
<1>6. Cascade(events, scale) => Cardinality(F) >= 2
  <2> SUFFICES ASSUME NEW i \in F, i - 1 \in F PROVE Cardinality(F) >= 2
    BY <1>4 DEF Cascade
  <2>1. i # i - 1 /\ IsFiniteSet(F)
    BY <1>4
  <2> QED
    BY <2>1, TwoElements
<1>7. packet.mag = 0 => packet.packet_type \in {"DRIFT", "ANOMALY"}
  <2> SUFFICES ASSUME packet.mag = 0 PROVE packet.packet_type \in {"DRIFT", "ANOMALY"}
    OBVIOUS
  <2>1. F = {} /\ W = {}
    BY <1>3, <1>4, <1>5
  <2>2. ~ Cascade(events, scale) /\ ~ Drain(events) /\ Cardinality(F) # 1
    BY <1>4, <1>5, <2>1 DEF Cascade, Drain
  <2>3. Cardinality(With("-1", events)) # 1
    <3>1. F = With("-1", events)
      BY <1>4
    <3> QED
      BY <3>1, <2>2
  <2> QED
    BY <1>2, <2>2, <2>3 DEF ClassifyPacket
<1>8. packet.packet_type = "CASCADE" => packet.mag * n >= 2000 - n
  <2>1. packet.packet_type = "CASCADE" => Cascade(events, scale)
    BY <1>2 DEF ClassifyPacket
  <2> QED
    BY <1>3, <1>6, <2>1
<1>9. packet.mag = 1000 /\ n > 1 /\ fast => packet.packet_type = "CASCADE"
  <2> SUFFICES ASSUME packet.mag = 1000, n > 1, fast PROVE packet.packet_type = "CASCADE"
    OBVIOUS
  <2>1. F = 1..n
    BY <1>3, <1>4
  <2>2. 2 \in F /\ 2 - 1 \in F /\ scale[2] \in Fast
    BY <1>4, <2>1
  <2>3. Cascade(events, scale)
    BY <1>4, <2>2 DEF Cascade
  <2> QED
    BY <1>2, <2>3 DEF ClassifyPacket
<1>10. Cardinality(F) = 1 /\ ~ slow => packet.packet_type \in {"SPIKE", "DRAIN"}
  <2> SUFFICES ASSUME Cardinality(F) = 1, ~ slow PROVE packet.packet_type \in {"SPIKE", "DRAIN"}
    OBVIOUS
  <2>1. ~ Cascade(events, scale) /\ ~ Drift(events, scale)
    BY <1>4, <1>6 DEF Drift
  <2>2. Cardinality(With("-1", events)) = 1
    BY <1>4
  <2> QED
    BY <1>2, <2>1, <2>2 DEF ClassifyPacket
<1> QED
  <2>1. Cardinality({i \in DOMAIN text : packet.div[i].a = "-1"}) = Cardinality(F)
    BY <1>2, <1>4
  <2>2. /\ fast <=> \A i \in DOMAIN text : packet.scale[i] \in Fast
        /\ slow <=> \E i \in DOMAIN text : packet.scale[i] \in Slow
    BY <1>2, <1>4
  <2>3. packet.packet_type = "CASCADE" => packet.mag * Len(text) >= 2000 - Len(text)
    BY <1>8 DEF n
  <2>4. packet.mag = 1000 /\ Len(text) > 1 /\ fast => packet.packet_type = "CASCADE"
    BY <1>9 DEF n
  <2> HIDE DEF fast, slow
  <2> QED
    BY <1>7, <1>10, <2>1, <2>2, <2>3, <2>4

-----------------------------------------------------------------------------
(* What a recursive function and the first row of a table come to *)

\* Induction is used through its least counterexample.
LEMMA LeastNumber ==
  ASSUME NEW S \in SUBSET Nat, S # {}
  PROVE  \E n \in S : \A m \in S : n <= m
<1> DEFINE Less == OpToRel(<, Nat)
<1>1. Less = {p \in Nat \X Nat : p[1] < p[2]}
  BY DEF OpToRel
<1>2. IsWellFoundedOn(Less, Nat)
  BY NatLessThanWellFounded, Zenon
<1> HIDE DEF Less
<1>3. PICK n \in S : \A m \in S : ~ (<<m, n>> \in Less)
  BY <1>2, WFMin, Zenon
<1>4. ASSUME NEW m \in S PROVE n <= m
  <2>1. m \in Nat /\ n \in Nat
    OBVIOUS
  <2>2. <<m, n>> \in Nat \X Nat /\ <<m, n>>[1] = m /\ <<m, n>>[2] = n
    BY <2>1
  <2>3. ~ (m < n)
    BY <1>1, <1>3, <2>2
  <2> QED
    BY <2>1, <2>3
<1> QED
  BY <1>4

LEMMA MinIs ==
  ASSUME NEW S \in SUBSET Nat, S # {}
  PROVE  Min(S) \in S /\ \A m \in S : Min(S) <= m
BY LeastNumber DEF Min

LEMMA MaxIs ==
  ASSUME NEW S \in SUBSET Int, NEW n \in S, \A m \in S : m <= n
  PROVE  Max(S) = n
<1>1. \E x \in S : \A y \in S : x >= y
  OBVIOUS
<1>2. Max(S) \in S /\ \A y \in S : Max(S) >= y
  BY <1>1 DEF Max
<1>3. \A x \in Int : x >= n /\ n >= x => x = n
  OBVIOUS
<1>4. Max(S) >= n /\ n >= Max(S) /\ Max(S) \in Int
  BY <1>2
<1> QED
  BY <1>3, <1>4

Timed(t, i) == {j \in 1..(i - 1) : t[j].time # NoTime}

LastTime(t, i) == IF Timed(t, i) = {} THEN NoTime ELSE t[Max(Timed(t, i))].time

\* One step of prev_ts.
NextTime(t, f, i) ==
  IF i = 1 THEN NoTime ELSE IF t[i - 1].time # NoTime THEN t[i - 1].time ELSE f[i - 1]

LEMMA LastTimeStep ==
  ASSUME NEW t, NEW i \in Nat, i > 1
  PROVE  LastTime(t, i) = IF t[i - 1].time # NoTime THEN t[i - 1].time ELSE LastTime(t, i - 1)
<1>1. CASE t[i - 1].time # NoTime
  <2>1. i - 1 \in Timed(t, i) /\ Timed(t, i) \in SUBSET Int /\ \A m \in Timed(t, i) : m <= i - 1
    BY <1>1 DEF Timed
  <2>2. Max(Timed(t, i)) = i - 1
    BY <2>1, MaxIs
  <2> QED
    BY <1>1, <2>1, <2>2 DEF LastTime
<1>2. CASE t[i - 1].time = NoTime
  <2>1. Timed(t, i) = Timed(t, i - 1)
    BY <1>2 DEF Timed
  <2> QED
    BY <1>2, <2>1 DEF LastTime
<1> QED
  BY <1>1, <1>2

\* prev_ts is the time of the last line before that has one.  The function that
\* says so satisfies the equation of Anchors, and only one function does.
LEMMA AnchorsAre ==
  ASSUME NEW t, NEW n \in Nat, DOMAIN t = 1..n
  PROVE  \A i \in 1..n : Anchors(t)[i] = LastTime(t, i)
<1> DEFINE Solves(f) == f = [i \in 1..n |-> NextTime(t, f, i)]
           last == [i \in 1..n |-> LastTime(t, i)]
<1>1. Anchors(t) = CHOOSE f : Solves(f)
  BY DEF Anchors, NextTime
<1>2. Solves(last)
  <2>1. ASSUME NEW i \in 1..n PROVE LastTime(t, i) = NextTime(t, last, i)
    <3>1. CASE i = 1
      BY <3>1 DEF LastTime, Timed, NextTime
    <3>2. CASE i > 1
      <4>1. i \in Nat /\ i - 1 \in 1..n
        BY <3>2
      <4>2. last[i - 1] = LastTime(t, i - 1)
        BY <4>1
      <4> HIDE DEF last
      <4> QED
        BY <3>2, <4>1, <4>2, LastTimeStep DEF NextTime
    <3> QED
      BY <3>1, <3>2
  <2> QED
    BY <2>1
<1> HIDE DEF last
<1>3. Solves(Anchors(t))
  BY <1>1, <1>2
<1> DEFINE S == {i \in 1..n : Anchors(t)[i] # LastTime(t, i)}
<1>4. ASSUME S # {} PROVE FALSE
  <2>1. PICK i \in S : \A m \in S : i <= m
    BY <1>4, LeastNumber, S \in SUBSET Nat
  <2>2. Anchors(t)[i] = NextTime(t, Anchors(t), i)
    BY <1>3
  <2>3. CASE i = 1
    BY <2>1, <2>2, <2>3 DEF NextTime, LastTime, Timed
  <2>4. CASE i > 1
    <3>1. i \in Nat /\ i - 1 \in 1..n
      BY <2>4
    <3>2. i - 1 \notin S
      BY <2>1, <3>1
    <3>3. Anchors(t)[i - 1] = LastTime(t, i - 1)
      BY <3>1, <3>2
    <3> QED
      BY <2>1, <2>2, <2>4, <3>1, <3>3, LastTimeStep DEF NextTime
  <2> QED
    BY <2>3, <2>4
<1> QED
  BY <1>4

LEMMA ScaleIsGapLemma == PacketInv => ScaleIsGap
<1> SUFFICES
      ASSUME PacketInv, packet # None, NEW i \in DOMAIN text
      PROVE  packet.scale[i] =
               IF text[i].time = NoTime \/ Timed(text, i) = {} THEN "sigma-0"
               ELSE SigmaFromDelta(text[i].time - text[Max(Timed(text, i))].time)
  BY DEF ScaleIsGap, Timed
<1>1. text \in Texts /\ packet.scale = Scale(text)
  BY PacketFacts DEF PacketInv
<1>2. Len(text) \in Nat /\ DOMAIN text = 1..Len(text)
  BY <1>1, LineCounts
<1>3. Anchors(text)[i] = LastTime(text, i)
  BY <1>2, AnchorsAre
<1>4. packet.scale[i] = IF NoTime \in {text[i].time, LastTime(text, i)} THEN "sigma-0"
                        ELSE SigmaFromDelta(text[i].time - LastTime(text, i))
  BY <1>1, <1>3 DEF Scale
<1>5. Timed(text, i) # {} => text[Max(Timed(text, i))].time # NoTime
  <2> SUFFICES ASSUME Timed(text, i) # {} PROVE Max(Timed(text, i)) \in Timed(text, i)
    BY DEF Timed
  <2>1. IsFiniteSet(Timed(text, i)) /\ Timed(text, i) \in SUBSET Nat
    <3>1. i \in Nat /\ 1 \in Int /\ i - 1 \in Int
      BY <1>2
    <3>2. IsFiniteSet(1..(i - 1))
      BY <3>1, FS_Interval
    <3> QED
      BY <3>1, <3>2, FS_Subset DEF Timed
  <2> DEFINE S == {k \in Nat : \A m \in Timed(text, i) : m <= k}
  <2>2. S \in SUBSET Nat /\ i \in S
    BY <1>2 DEF Timed
  <2>3. PICK k \in S : \A m \in S : k <= m
    BY <2>2, LeastNumber
  <2>4. k \in Timed(text, i)
    <3>1. ASSUME k \notin Timed(text, i) PROVE FALSE
      <4>1. \A m \in Timed(text, i) : m \in Nat /\ m < k
        BY <2>1, <3>1
      <4>2. k - 1 \in S
        BY <4>1
      <4> QED
        BY <2>3, <4>2
    <3> QED
      BY <3>1
  <2>5. Max(Timed(text, i)) = k
    BY <2>1, <2>4, MaxIs
  <2> QED
    BY <2>4, <2>5
<1> QED
  BY <1>4, <1>5 DEF LastTime

LEMMA TypeOKLemma == PacketInv => TypeOK
<1> SUFFICES ASSUME PacketInv PROVE TypeOK
  OBVIOUS
<1>1. CounterOK /\ text \in Texts /\ calls \in 0..MaxCalls
  BY DEF PacketInv, SeqInv
<1>2. packet # None => /\ packet.seq \in 1..next_seq /\ packet.mag \in 0..1000
                       /\ {DOMAIN packet.div, DOMAIN packet.scale} = {DOMAIN text}
  <2> SUFFICES ASSUME NEW seq \in 1..next_seq, packet \in Packets(text, seq)
               PROVE  /\ packet.seq = seq /\ packet.mag \in 0..1000
                      /\ {DOMAIN packet.div, DOMAIN packet.scale} = {DOMAIN text}
    BY DEF PacketInv
  <2>1. packet.seq = seq /\ packet.mag \in 0..1000
        /\ packet.div = Events(text) /\ packet.scale = Scale(text)
    BY <1>1, PacketFacts
  <2> QED
    BY <1>1, <2>1, LineCounts
<1> QED
  BY <1>1, <1>2 DEF TypeOK, CounterOK, InLock

LEMMA PacketAlways == Spec => []PacketInv
BY PacketInvInit, PacketInvStep, PTL DEF Spec

\* The types of all states, and that the number of a packet is one that the
\* counter has given out.
THEOREM TransformerTypes == Spec => []TypeOK
BY PacketAlways, TypeOKLemma, PTL

\* MAG is 0 only where nothing failed or warned and 1 only where everything
\* failed, for any texts of fewer than a thousand lines.
THEOREM RoundingHidesNothing == Spec => []MagnitudeSound
BY PacketAlways, MagnitudeLemma, PTL

\* The type of a packet never contradicts its magnitude, for any such text.
THEOREM TypeAndMagnitudeAgree == Spec => []TypeFitsMagnitude
BY PacketAlways, TypeFitsLemma, PTL

\* The class of every line is that of the time since the last line before it
\* that has one, for texts of any length and any gaps between their times.
THEOREM ScaleIsTheGap == Spec => []ScaleIsGap
BY PacketAlways, ScaleIsGapLemma, PTL
=============================================================================
