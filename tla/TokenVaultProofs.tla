-------------------------- MODULE TokenVaultProofs --------------------------
(***************************************************************************)
(* Proofs about TokenVault, for any number of threads, values, tokens and  *)
(* primes.  IInv is the inductive invariant: the five invariants the runs  *)
(* check, strengthened by what each program point of a call relies on.     *)
(* From it follows that TokenVault implements SessionVault.                *)
(***************************************************************************)
EXTENDS TokenVault, TLAPS

Critical == {"generate", "store", "save_token", "new_prime", "save_session"}

\* Only the holder of the lock is between a test of the maps and its save.
Exclusive == \A t \in Threads : pc[t] \in Critical => lock = t

Arguments ==
  \A t \in Threads :
    /\ pc[t] \in {"tokenize", "generate", "store", "save_token"} => arg[t] \in Values
    /\ pc[t] \in {"detokenize", "verify", "compare"} => arg[t] \in Tokens

\* What a writer has established and nobody can undo while it has the lock.
Writer ==
  \A t \in Threads :
    /\ pc[t] \in {"generate", "store"} => vault[arg[t]] = None
    /\ pc[t] = "store" => cand[t] \in Tokens /\ reverse[cand[t]] = None
    /\ pc[t] = "save_token" => cand[t] \in Tokens /\ vault[arg[t]] = cand[t]
    /\ pc[t] = "new_prime" =>
         vault = EmptyVault /\ reverse = EmptyReverse /\ hashes = EmptyReverse

\* What a verification, which nothing protects, can still answer truthfully.
Verifier ==
  \A t \in Threads :
    /\ pc[t] \in {"verify", "compare"} =>
         /\ Registered(hashes, arg[t]) => TRUE \in window[t]
         /\ ~ Registered(hashes, arg[t]) => FALSE \in window[t]
    /\ pc[t] = "compare" =>
         /\ TRUE \in window[t]
         /\ FALSE \in window[t] \/ seenHash[t] = Checksum(arg[t], prime)

IInv ==
  /\ TypeOK
  /\ Exclusive
  /\ Arguments
  /\ Bijective
  /\ ProofsCurrent
  /\ Writer
  /\ Verifier
  /\ VerifyLinearizable
  /\ FileCurrent


LEMMA NoneApart ==
  /\ None \notin Threads /\ None \notin Values /\ None \notin Tokens /\ None \notin Primes
  /\ \A k \in Tokens, p \in Primes \cup {None} : Checksum(k, p) # None
  BY Distinct DEF Distinct, Checksum

LEMMA ObserveFacts ==
  ASSUME NEW h, Observe(h), TypeOK, NEW t \in Threads, pc[t] \in {"verify", "compare"}
  PROVE  /\ window[t] \subseteq window'[t]
         /\ h[arg[t]] # None => TRUE \in window'[t]
         /\ h[arg[t]] = None => FALSE \in window'[t]
<1>1. window'[t] = window[t] \cup {h[arg[t]] # None}
  BY DEF Observe, Registered
<1> QED
  BY <1>1

LEMMA ObserveType ==
  ASSUME NEW h, Observe(h), TypeOK
  PROVE  /\ window' \in [Threads -> SUBSET BOOLEAN]
         /\ \A t \in Threads : pc[t] \notin {"verify", "compare"} => window'[t] = window[t]
<1>1. ASSUME NEW t \in Threads
      PROVE  window[t] \cup {Registered(h, arg[t])} \in SUBSET BOOLEAN
  BY DEF TypeOK, Registered
<1>2. window' \in [Threads -> SUBSET BOOLEAN]
  BY <1>1 DEF Observe, TypeOK
<1>3. \A t \in Threads : pc[t] \notin {"verify", "compare"} => window'[t] = window[t]
  BY DEF Observe
<1> QED
  BY <1>2, <1>3

-----------------------------------------------------------------------------

LEMMA InitIInv == Init => IInv
<1> SUFFICES ASSUME Init PROVE IInv
  OBVIOUS
<1>1. TypeOK
  BY DEF Init, TypeOK, EmptyVault, EmptyReverse
<1>2. Bijective /\ ProofsCurrent /\ FileCurrent
  BY NoneApart DEF Init, Bijective, ProofsCurrent, FileCurrent, EmptyVault, EmptyReverse, Registered
<1>3. Exclusive /\ Arguments /\ Writer
  BY DEF Init, Exclusive, Arguments, Writer, Critical
<1>4. Verifier /\ VerifyLinearizable
  BY DEF Init, Verifier, VerifyLinearizable
<1> QED
  BY <1>1, <1>2, <1>3, <1>4 DEF IInv

\* A call begins.
LEMMA InvokeIInv ==
  ASSUME IInv, NEW t \in Threads, Invoke(t)
  PROVE  IInv'
<1>1. TypeOK /\ Exclusive /\ Arguments /\ Bijective /\ ProofsCurrent
      /\ Writer /\ Verifier /\ VerifyLinearizable /\ FileCurrent
  BY DEF IInv
<1>2. /\ UNCHANGED <<lock, maps, prime, disk, cand, seenHash>>
      /\ pc[t] = "idle" /\ verdict' = [verdict EXCEPT ![t] = FALSE]
      /\ ret' = [ret EXCEPT ![t] = None]
  BY DEF Invoke, Begin
<1>3. \E op \in {"tokenize", "detokenize", "new_session", "verify"}, a \in Values \cup Tokens \cup {None} :
        /\ pc' = [pc EXCEPT ![t] = op] /\ arg' = [arg EXCEPT ![t] = a]
        /\ op = "tokenize" => a \in Values
        /\ op \in {"detokenize", "verify"} => a \in Tokens
  BY DEF Invoke, Begin
<1>4. /\ window' \in [Threads -> SUBSET BOOLEAN]
      /\ \A u \in Threads : u # t => window'[u] = window[u]
      /\ pc'[t] = "verify" /\ hashes[arg'[t]] # None => TRUE \in window'[t]
      /\ pc'[t] = "verify" /\ hashes[arg'[t]] = None => FALSE \in window'[t]
      /\ pc'[t] # "verify" => FALSE \in window'[t]
  <2>1. ASSUME NEW v \in Values, Begin(t, "tokenize", v, FALSE)
        PROVE  pc'[t] # "verify" /\ window' = [window EXCEPT ![t] = {FALSE}]
    BY <1>1, <2>1 DEF Begin, TypeOK
  <2>2. ASSUME NEW k \in Tokens, Begin(t, "detokenize", k, FALSE)
        PROVE  pc'[t] # "verify" /\ window' = [window EXCEPT ![t] = {FALSE}]
    BY <1>1, <2>2 DEF Begin, TypeOK
  <2>3. ASSUME Begin(t, "new_session", None, FALSE)
        PROVE  pc'[t] # "verify" /\ window' = [window EXCEPT ![t] = {FALSE}]
    BY <1>1, <2>3 DEF Begin, TypeOK
  <2>4. ASSUME NEW k \in Tokens, Begin(t, "verify", k, Registered(hashes, k))
        PROVE  /\ pc'[t] = "verify" /\ arg'[t] = k
               /\ window' = [window EXCEPT ![t] = {Registered(hashes, k)}]
    BY <1>1, <2>4 DEF Begin, TypeOK
  <2>5. ASSUME NEW k \in Tokens
        PROVE  /\ {Registered(hashes, k)} \in SUBSET BOOLEAN
               /\ hashes[k] # None => TRUE \in {Registered(hashes, k)}
               /\ hashes[k] = None => FALSE \in {Registered(hashes, k)}
    BY DEF Registered
  <2>6. CASE \E k \in Tokens : Begin(t, "verify", k, Registered(hashes, k))
    <3>1. PICK k \in Tokens : Begin(t, "verify", k, Registered(hashes, k))
      BY <2>6
    <3> DEFINE W == {Registered(hashes, k)}
    <3>2. W \in SUBSET BOOLEAN /\ window' = [window EXCEPT ![t] = W]
      BY <2>4, <2>5, <3>1
    <3>3. /\ pc'[t] = "verify"
          /\ hashes[arg'[t]] # None => TRUE \in W
          /\ hashes[arg'[t]] = None => FALSE \in W
      BY <2>4, <2>5, <3>1
    <3> HIDE DEF W
    <3> QED
      BY <1>1, <3>2, <3>3 DEF TypeOK
  <2>7. CASE pc'[t] # "verify" /\ window' = [window EXCEPT ![t] = {FALSE}]
    BY <1>1, <2>7 DEF TypeOK
  <2> QED
    BY <2>1, <2>2, <2>3, <2>6, <2>7 DEF Invoke
<1>5. TypeOK'
  <2>1. window' \in [Threads -> SUBSET BOOLEAN]
    BY <1>4
  <2>2. /\ pc' \in [Threads -> {"idle", "tokenize", "generate", "store", "save_token",
                              "new_session", "new_prime", "save_session",
                              "detokenize", "verify", "compare"}]
        /\ arg' \in [Threads -> Values \cup Tokens \cup {None}]
    BY <1>1, <1>3 DEF TypeOK
  <2>3. /\ verdict' \in [Threads -> BOOLEAN]
        /\ ret' \in [Threads -> Values \cup Tokens \cup {None, Raised}]
    BY <1>1, <1>2 DEF TypeOK
  <2> QED
    BY <1>1, <1>2, <2>1, <2>2, <2>3 DEF TypeOK, maps, disk
<1>6. Exclusive'
  BY <1>1, <1>2, <1>3 DEF TypeOK, Exclusive, Critical
<1>7. Arguments'
  BY <1>1, <1>2, <1>3 DEF TypeOK, Arguments
<1>8. Bijective' /\ ProofsCurrent' /\ FileCurrent'
  BY <1>1, <1>2 DEF Bijective, ProofsCurrent, FileCurrent, Registered, Image, maps, disk
<1>9. Writer'
  BY <1>1, <1>2, <1>3 DEF TypeOK, Writer, maps
<1>10. Verifier'
  <2>1. hashes' = hashes /\ prime' = prime /\ seenHash' = seenHash
    BY <1>2 DEF maps
  <2>2. ASSUME NEW u \in Threads, u # t
        PROVE  pc'[u] = pc[u] /\ arg'[u] = arg[u] /\ window'[u] = window[u]
    BY <1>1, <1>3, <1>4, <2>2 DEF TypeOK
  <2>3. pc'[t] # "compare"
    BY <1>1, <1>3, <1>4 DEF TypeOK
  <2> DEFINE Truthful(u) ==
        /\ pc[u] \in {"verify", "compare"} =>
             /\ hashes[arg[u]] # None => TRUE \in window[u]
             /\ hashes[arg[u]] = None => FALSE \in window[u]
        /\ pc[u] = "compare" =>
             /\ TRUE \in window[u]
             /\ FALSE \in window[u] \/ seenHash[u] = Checksum(arg[u], prime)
  <2>4. ASSUME NEW u \in Threads, u # t
        PROVE  Truthful(u)'
    BY <1>1, <2>1, <2>2, <2>4 DEF Verifier, Registered, Checksum
  <2>5. Truthful(t)'
    <3>1. CASE pc'[t] = "verify"
      <4>1. hashes'[arg'[t]] # None => TRUE \in window'[t]
        BY <1>4, <2>1, <3>1
      <4>2. hashes'[arg'[t]] = None => FALSE \in window'[t]
        BY <1>4, <2>1, <3>1
      <4> QED
        BY <4>1, <4>2, <2>3, <3>1 DEF Checksum
    <3>2. CASE pc'[t] # "verify"
      BY <2>3, <3>2 DEF Checksum
    <3> QED
      BY <3>1, <3>2
  <2> QED
    BY <2>4, <2>5 DEF Verifier, Registered
<1>11. VerifyLinearizable'
  BY <1>1, <1>2, <1>3, <1>4 DEF TypeOK, VerifyLinearizable
<1> QED
  BY <1>5, <1>6, <1>7, <1>8, <1>9, <1>10, <1>11 DEF IInv

\* tokenize of a value that has its token.
LEMMA TokenizeHitIInv ==
  ASSUME IInv, NEW t \in Threads, TokenizeHit(t)
  PROVE  IInv'
<1>1. TypeOK /\ Exclusive /\ Arguments /\ Bijective /\ ProofsCurrent
      /\ Writer /\ Verifier /\ VerifyLinearizable /\ FileCurrent
  BY DEF IInv
<1>2. TypeOK'
  BY <1>1, NoneApart DEF TokenizeHit, Return, Goto, LockFree, TypeOK, maps, locals, results, disk, Registered, Checksum, Arguments, Writer
<1>3. Exclusive'
  BY <1>1 DEF TokenizeHit, Return, Goto, LockFree, TypeOK, Exclusive, maps, locals, results, disk, Critical
<1>4. Arguments'
  BY <1>1 DEF TokenizeHit, Return, Goto, LockFree, TypeOK, Arguments, maps, locals, results, disk
<1>5. Bijective'
  BY <1>1 DEF TokenizeHit, Return, Goto, LockFree, TypeOK, Bijective, maps, locals, results, disk, Registered
<1>6. ProofsCurrent'
  BY <1>1 DEF TokenizeHit, Return, Goto, LockFree, TypeOK, ProofsCurrent, maps, locals, results, disk, Registered, Checksum
<1>7. Writer'
  BY <1>1 DEF TokenizeHit, Return, Goto, LockFree, TypeOK, Writer, maps, locals, results, disk, EmptyVault, EmptyReverse
<1>8. Verifier'
  BY <1>1 DEF TokenizeHit, Return, Goto, LockFree, TypeOK, Verifier, maps, locals, results, disk, Registered, Checksum
<1>9. VerifyLinearizable'
  BY <1>1 DEF TokenizeHit, Return, Goto, LockFree, TypeOK, VerifyLinearizable, maps, locals, results, disk
<1>10. FileCurrent'
  BY <1>1 DEF TokenizeHit, Return, Goto, LockFree, TypeOK, FileCurrent, maps, locals, results, disk, Image
<1> QED
  BY <1>2, <1>3, <1>4, <1>5, <1>6, <1>7, <1>8, <1>9, <1>10 DEF IInv

\* tokenize of a value that has none takes the lock.
LEMMA TokenizeMissIInv ==
  ASSUME IInv, NEW t \in Threads, TokenizeMiss(t)
  PROVE  IInv'
<1>1. TypeOK /\ Exclusive /\ Arguments /\ Bijective /\ ProofsCurrent
      /\ Writer /\ Verifier /\ VerifyLinearizable /\ FileCurrent
  BY DEF IInv
<1>2. TypeOK'
  BY <1>1 DEF TokenizeMiss, Goto, LockFree, TypeOK, maps, locals, results, disk, Registered, Checksum
<1>3. Exclusive'
  BY <1>1, NoneApart DEF TokenizeMiss, Goto, LockFree, TypeOK, Exclusive, maps, locals, results, disk, Critical
<1>4. Arguments'
  BY <1>1 DEF TokenizeMiss, Goto, LockFree, TypeOK, Arguments, maps, locals, results, disk
<1>5. Bijective'
  BY <1>1 DEF TokenizeMiss, Goto, LockFree, TypeOK, Bijective, maps, locals, results, disk, Registered
<1>6. ProofsCurrent'
  BY <1>1 DEF TokenizeMiss, Goto, LockFree, TypeOK, ProofsCurrent, maps, locals, results, disk, Registered, Checksum
<1>7. Writer'
  BY <1>1 DEF TokenizeMiss, Goto, LockFree, TypeOK, Writer, maps, locals, results, disk, EmptyVault, EmptyReverse
<1>8. Verifier'
  BY <1>1 DEF TokenizeMiss, Goto, LockFree, TypeOK, Verifier, maps, locals, results, disk, Registered, Checksum
<1>9. VerifyLinearizable'
  BY <1>1 DEF TokenizeMiss, Goto, LockFree, TypeOK, VerifyLinearizable, maps, locals, results, disk
<1>10. FileCurrent'
  BY <1>1 DEF TokenizeMiss, Goto, LockFree, TypeOK, FileCurrent, maps, locals, results, disk, Image
<1> QED
  BY <1>2, <1>3, <1>4, <1>5, <1>6, <1>7, <1>8, <1>9, <1>10 DEF IInv

\* A fresh token is drawn.
LEMMA GenerateIInv ==
  ASSUME IInv, NEW t \in Threads, Generate(t)
  PROVE  IInv'
<1>1. TypeOK /\ Exclusive /\ Arguments /\ Bijective /\ ProofsCurrent
      /\ Writer /\ Verifier /\ VerifyLinearizable /\ FileCurrent
  BY DEF IInv
<1>2. TypeOK'
  BY <1>1 DEF Generate, Goto, TypeOK, maps, locals, results, disk, Registered, Checksum
<1>3. Exclusive'
  BY <1>1 DEF Generate, Goto, TypeOK, Exclusive, maps, locals, results, disk, Critical
<1>4. Arguments'
  BY <1>1 DEF Generate, Goto, TypeOK, Arguments, maps, locals, results, disk
<1>5. Bijective'
  BY <1>1 DEF Generate, Goto, TypeOK, Bijective, maps, locals, results, disk, Registered
<1>6. ProofsCurrent'
  BY <1>1 DEF Generate, Goto, TypeOK, ProofsCurrent, maps, locals, results, disk, Registered, Checksum
<1>7. Writer'
  BY <1>1 DEF Generate, Goto, TypeOK, Writer, maps, locals, results, disk, EmptyVault, EmptyReverse
<1>8. Verifier'
  BY <1>1 DEF Generate, Goto, TypeOK, Verifier, maps, locals, results, disk, Registered, Checksum
<1>9. VerifyLinearizable'
  BY <1>1 DEF Generate, Goto, TypeOK, VerifyLinearizable, maps, locals, results, disk
<1>10. FileCurrent'
  BY <1>1 DEF Generate, Goto, TypeOK, FileCurrent, maps, locals, results, disk, Image
<1> QED
  BY <1>2, <1>3, <1>4, <1>5, <1>6, <1>7, <1>8, <1>9, <1>10 DEF IInv

\* The token enters the three maps.
LEMMA StoreIInv ==
  ASSUME IInv, NEW t \in Threads, Store(t)
  PROVE  IInv'
<1>1. TypeOK /\ Exclusive /\ Arguments /\ Bijective /\ ProofsCurrent
      /\ Writer /\ Verifier /\ VerifyLinearizable /\ FileCurrent
  BY DEF IInv
<1>2. Observe(hashes')
  BY DEF Store
<1>3. TypeOK'
  BY <1>1, NoneApart, <1>2, ObserveFacts, ObserveType DEF Store, Goto, TypeOK, maps, locals, results, disk, Registered, Checksum, Arguments, Writer
<1>4. Exclusive'
  BY <1>1 DEF Store, Goto, Observe, TypeOK, Exclusive, maps, locals, results, disk, Critical
<1>5. Arguments'
  BY <1>1 DEF Store, Goto, Observe, TypeOK, Arguments, maps, locals, results, disk
<1>6. Bijective'
  BY <1>1, NoneApart, <1>2, ObserveFacts, ObserveType DEF Store, Goto, TypeOK, Bijective, maps, locals, results, disk, Registered, Writer, Arguments
<1>7. ProofsCurrent'
  BY <1>1, NoneApart, <1>2, ObserveFacts, ObserveType DEF Store, Goto, TypeOK, ProofsCurrent, maps, locals, results, disk, Registered, Checksum, Writer, Arguments
<1>8. Writer'
  BY <1>1, NoneApart, <1>2, ObserveFacts, ObserveType DEF Store, Goto, TypeOK, Writer, maps, locals, results, disk, EmptyVault, EmptyReverse, Verifier, Exclusive, Critical, Arguments
<1>9. Verifier'
  BY <1>1, NoneApart, <1>2, ObserveFacts, ObserveType DEF Store, Goto, TypeOK, Verifier, maps, locals, results, disk, Registered, Checksum, Exclusive, Critical, Arguments
<1>10. VerifyLinearizable'
  BY <1>1, NoneApart, <1>2, ObserveFacts, ObserveType DEF Store, Goto, TypeOK, VerifyLinearizable, maps, locals, results, disk, Verifier, Exclusive, Critical, Arguments
<1>11. FileCurrent'
  BY <1>1, NoneApart, <1>2, ObserveFacts, ObserveType DEF Store, Goto, TypeOK, FileCurrent, maps, locals, results, disk, Image, Exclusive, Critical
<1> QED
  BY <1>3, <1>4, <1>5, <1>6, <1>7, <1>8, <1>9, <1>10, <1>11 DEF IInv

\* new_session drops the maps: every verification in progress may answer False
\* from here on, which is what keeps it truthful when the prime changes.
LEMMA ClearMapsIInv ==
  ASSUME IInv, NEW t \in Threads, ClearMaps(t)
  PROVE  IInv'
<1>1. TypeOK /\ Exclusive /\ Arguments /\ Bijective /\ ProofsCurrent
      /\ Writer /\ Verifier /\ VerifyLinearizable /\ FileCurrent
  BY DEF IInv
<1>2. Observe(hashes')
  BY DEF ClearMaps
<1>3. TypeOK'
  BY <1>1, NoneApart, <1>2, ObserveFacts, ObserveType DEF ClearMaps, Goto, LockFree, EmptyVault, EmptyReverse, TypeOK, maps, locals, results, disk, Registered, Checksum, Arguments, Writer
<1>4. Exclusive'
  BY <1>1, NoneApart, <1>2, ObserveFacts, ObserveType DEF ClearMaps, Goto, LockFree, EmptyVault, EmptyReverse, TypeOK, Exclusive, maps, locals, results, disk, Critical
<1>5. Arguments'
  BY <1>1 DEF ClearMaps, Goto, LockFree, Observe, EmptyVault, EmptyReverse, TypeOK, Arguments, maps, locals, results, disk
<1>6. Bijective'
  BY <1>1, NoneApart, <1>2, ObserveFacts, ObserveType DEF ClearMaps, Goto, LockFree, EmptyVault, EmptyReverse, TypeOK, Bijective, maps, locals, results, disk, Registered, Writer, Arguments
<1>7. ProofsCurrent'
  BY <1>1 DEF ClearMaps, Goto, LockFree, Observe, EmptyVault, EmptyReverse, TypeOK, ProofsCurrent, maps, locals, results, disk, Registered, Checksum
<1>8. Writer'
  BY <1>1, NoneApart, <1>2, ObserveFacts, ObserveType DEF ClearMaps, Goto, LockFree, EmptyVault, EmptyReverse, TypeOK, Writer, maps, locals, results, disk, Verifier, Exclusive, Critical, Arguments
<1>9. Verifier'
  BY <1>1, NoneApart, <1>2, ObserveFacts, ObserveType DEF ClearMaps, Goto, LockFree, EmptyVault, EmptyReverse, TypeOK, Verifier, maps, locals, results, disk, Registered, Checksum, Exclusive, Critical, Arguments
<1>10. VerifyLinearizable'
  BY <1>1, NoneApart, <1>2, ObserveFacts, ObserveType DEF ClearMaps, Goto, LockFree, EmptyVault, EmptyReverse, TypeOK, VerifyLinearizable, maps, locals, results, disk, Verifier, Exclusive, Critical, Arguments
<1>11. FileCurrent'
  BY <1>1, NoneApart, <1>2, ObserveFacts, ObserveType DEF ClearMaps, Goto, LockFree, EmptyVault, EmptyReverse, TypeOK, FileCurrent, maps, locals, results, disk, Image, Exclusive, Critical
<1> QED
  BY <1>3, <1>4, <1>5, <1>6, <1>7, <1>8, <1>9, <1>10, <1>11 DEF IInv

\* The prime changes, while no token has a proof.
LEMMA NewPrimeIInv ==
  ASSUME IInv, NEW t \in Threads, NewPrime(t)
  PROVE  IInv'
<1>1. TypeOK /\ Exclusive /\ Arguments /\ Bijective /\ ProofsCurrent
      /\ Writer /\ Verifier /\ VerifyLinearizable /\ FileCurrent
  BY DEF IInv
<1>2. TypeOK'
  BY <1>1 DEF NewPrime, Goto, TypeOK, maps, locals, results, disk, Registered, Checksum
<1>3. Exclusive'
  BY <1>1 DEF NewPrime, Goto, TypeOK, Exclusive, maps, locals, results, disk, Critical
<1>4. Arguments'
  BY <1>1 DEF NewPrime, Goto, TypeOK, Arguments, maps, locals, results, disk
<1>5. Bijective'
  BY <1>1 DEF NewPrime, Goto, TypeOK, Bijective, maps, locals, results, disk, Registered
<1>6. ProofsCurrent'
  <2>1. \A k \in Tokens : hashes'[k] = None
    BY <1>1 DEF NewPrime, Writer, EmptyReverse, maps
  <2> QED
    BY <2>1 DEF ProofsCurrent, Registered
<1>7. Writer'
  BY <1>1 DEF NewPrime, Goto, TypeOK, Writer, maps, locals, results, disk, EmptyVault, EmptyReverse
<1>8. Verifier'
  <2>1. \A k \in Tokens : hashes[k] = None /\ hashes'[k] = None
    BY <1>1 DEF NewPrime, Writer, EmptyReverse, maps
  <2>2. SUFFICES ASSUME NEW u \in Threads, pc'[u] \in {"verify", "compare"}
                 PROVE  /\ FALSE \in window'[u]
                        /\ pc'[u] = "compare" => TRUE \in window'[u]
                        /\ hashes'[arg'[u]] = None
    BY <2>2 DEF Verifier, Registered
  <2>3. pc'[u] = pc[u] /\ arg'[u] = arg[u] /\ window'[u] = window[u] /\ arg[u] \in Tokens
    BY <1>1, <2>2 DEF NewPrime, Goto, TypeOK, Arguments, locals
  <2> QED
    BY <1>1, <2>1, <2>2, <2>3 DEF Verifier, Registered
<1>9. VerifyLinearizable'
  BY <1>1 DEF NewPrime, Goto, TypeOK, VerifyLinearizable, maps, locals, results, disk
<1>10. FileCurrent'
  BY <1>1, NoneApart DEF NewPrime, Goto, TypeOK, FileCurrent, maps, locals, results, disk, Image, Exclusive, Critical
<1> QED
  BY <1>2, <1>3, <1>4, <1>5, <1>6, <1>7, <1>8, <1>9, <1>10 DEF IInv

\* The file becomes the image of the maps.
LEMMA SaveOkIInv ==
  ASSUME IInv, NEW t \in Threads, SaveOk(t)
  PROVE  IInv'
<1>1. TypeOK /\ Exclusive /\ Arguments /\ Bijective /\ ProofsCurrent
      /\ Writer /\ Verifier /\ VerifyLinearizable /\ FileCurrent
  BY DEF IInv
<1>2. TypeOK'
  BY <1>1 DEF SaveOk, Saving, Return, Goto, TypeOK, maps, locals, results, disk, Registered, Checksum
<1>3. Exclusive'
  BY <1>1 DEF SaveOk, Saving, Return, Goto, TypeOK, Exclusive, maps, locals, results, disk, Critical
<1>4. Arguments'
  BY <1>1 DEF SaveOk, Saving, Return, Goto, TypeOK, Arguments, maps, locals, results, disk
<1>5. Bijective'
  BY <1>1 DEF SaveOk, Saving, Return, Goto, TypeOK, Bijective, maps, locals, results, disk, Registered
<1>6. ProofsCurrent'
  BY <1>1 DEF SaveOk, Saving, Return, Goto, TypeOK, ProofsCurrent, maps, locals, results, disk, Registered, Checksum
<1>7. Writer'
  BY <1>1 DEF SaveOk, Saving, Return, Goto, TypeOK, Writer, maps, locals, results, disk, EmptyVault, EmptyReverse
<1>8. Verifier'
  BY <1>1 DEF SaveOk, Saving, Return, Goto, TypeOK, Verifier, maps, locals, results, disk, Registered, Checksum
<1>9. VerifyLinearizable'
  BY <1>1 DEF SaveOk, Saving, Return, Goto, TypeOK, VerifyLinearizable, maps, locals, results, disk
<1>10. FileCurrent'
  BY <1>1 DEF SaveOk, Saving, Return, Goto, TypeOK, FileCurrent, maps, locals, results, disk, Image
<1> QED
  BY <1>2, <1>3, <1>4, <1>5, <1>6, <1>7, <1>8, <1>9, <1>10 DEF IInv

\* A save raises; the maps stay as they are.
LEMMA SaveFailsIInv ==
  ASSUME IInv, NEW t \in Threads, SaveFails(t)
  PROVE  IInv'
<1>1. TypeOK /\ Exclusive /\ Arguments /\ Bijective /\ ProofsCurrent
      /\ Writer /\ Verifier /\ VerifyLinearizable /\ FileCurrent
  BY DEF IInv
<1>2. TypeOK'
  BY <1>1 DEF SaveFails, Saving, Return, Goto, TypeOK, maps, locals, results, disk, Registered, Checksum
<1>3. Exclusive'
  BY <1>1 DEF SaveFails, Saving, Return, Goto, TypeOK, Exclusive, maps, locals, results, disk, Critical
<1>4. Arguments'
  BY <1>1 DEF SaveFails, Saving, Return, Goto, TypeOK, Arguments, maps, locals, results, disk
<1>5. Bijective'
  BY <1>1 DEF SaveFails, Saving, Return, Goto, TypeOK, Bijective, maps, locals, results, disk, Registered
<1>6. ProofsCurrent'
  BY <1>1 DEF SaveFails, Saving, Return, Goto, TypeOK, ProofsCurrent, maps, locals, results, disk, Registered, Checksum
<1>7. Writer'
  BY <1>1 DEF SaveFails, Saving, Return, Goto, TypeOK, Writer, maps, locals, results, disk, EmptyVault, EmptyReverse
<1>8. Verifier'
  BY <1>1 DEF SaveFails, Saving, Return, Goto, TypeOK, Verifier, maps, locals, results, disk, Registered, Checksum
<1>9. VerifyLinearizable'
  BY <1>1 DEF SaveFails, Saving, Return, Goto, TypeOK, VerifyLinearizable, maps, locals, results, disk
<1>10. FileCurrent'
  BY <1>1 DEF SaveFails, Saving, Return, Goto, TypeOK, FileCurrent, maps, locals, results, disk, Image
<1> QED
  BY <1>2, <1>3, <1>4, <1>5, <1>6, <1>7, <1>8, <1>9, <1>10 DEF IInv

\* detokenize reads the reverse map.
LEMMA DetokenizeReturnIInv ==
  ASSUME IInv, NEW t \in Threads, DetokenizeReturn(t)
  PROVE  IInv'
<1>1. TypeOK /\ Exclusive /\ Arguments /\ Bijective /\ ProofsCurrent
      /\ Writer /\ Verifier /\ VerifyLinearizable /\ FileCurrent
  BY DEF IInv
<1>2. TypeOK'
  BY <1>1, NoneApart DEF DetokenizeReturn, Return, Goto, LockFree, TypeOK, maps, locals, results, disk, Registered, Checksum, Arguments, Writer
<1>3. Exclusive'
  BY <1>1 DEF DetokenizeReturn, Return, Goto, LockFree, TypeOK, Exclusive, maps, locals, results, disk, Critical
<1>4. Arguments'
  BY <1>1 DEF DetokenizeReturn, Return, Goto, LockFree, TypeOK, Arguments, maps, locals, results, disk
<1>5. Bijective'
  BY <1>1 DEF DetokenizeReturn, Return, Goto, LockFree, TypeOK, Bijective, maps, locals, results, disk, Registered
<1>6. ProofsCurrent'
  BY <1>1 DEF DetokenizeReturn, Return, Goto, LockFree, TypeOK, ProofsCurrent, maps, locals, results, disk, Registered, Checksum
<1>7. Writer'
  BY <1>1 DEF DetokenizeReturn, Return, Goto, LockFree, TypeOK, Writer, maps, locals, results, disk, EmptyVault, EmptyReverse
<1>8. Verifier'
  BY <1>1 DEF DetokenizeReturn, Return, Goto, LockFree, TypeOK, Verifier, maps, locals, results, disk, Registered, Checksum
<1>9. VerifyLinearizable'
  BY <1>1 DEF DetokenizeReturn, Return, Goto, LockFree, TypeOK, VerifyLinearizable, maps, locals, results, disk
<1>10. FileCurrent'
  BY <1>1 DEF DetokenizeReturn, Return, Goto, LockFree, TypeOK, FileCurrent, maps, locals, results, disk, Image
<1> QED
  BY <1>2, <1>3, <1>4, <1>5, <1>6, <1>7, <1>8, <1>9, <1>10 DEF IInv

\* verify reads the stored hash.
LEMMA ReadHashIInv ==
  ASSUME IInv, NEW t \in Threads, ReadHash(t)
  PROVE  IInv'
<1>1. TypeOK /\ Exclusive /\ Arguments /\ Bijective /\ ProofsCurrent
      /\ Writer /\ Verifier /\ VerifyLinearizable /\ FileCurrent
  BY DEF IInv
<1>2. TypeOK'
  BY <1>1, NoneApart DEF ReadHash, Verdict, Goto, TypeOK, maps, locals, results, disk, Registered, Checksum, Arguments, Writer
<1>3. Exclusive'
  BY <1>1 DEF ReadHash, Verdict, Goto, TypeOK, Exclusive, maps, locals, results, disk, Critical
<1>4. Arguments'
  BY <1>1 DEF ReadHash, Verdict, Goto, TypeOK, Arguments, maps, locals, results, disk
<1>5. Bijective'
  BY <1>1 DEF ReadHash, Verdict, Goto, TypeOK, Bijective, maps, locals, results, disk, Registered
<1>6. ProofsCurrent'
  BY <1>1 DEF ReadHash, Verdict, Goto, TypeOK, ProofsCurrent, maps, locals, results, disk, Registered, Checksum
<1>7. Writer'
  BY <1>1 DEF ReadHash, Verdict, Goto, TypeOK, Writer, maps, locals, results, disk, EmptyVault, EmptyReverse
<1>8. Verifier'
  <2>1. ASSUME NEW u \in Threads, u # t
        PROVE  /\ pc'[u] = pc[u] /\ arg'[u] = arg[u] /\ window'[u] = window[u]
               /\ seenHash'[u] = seenHash[u]
    BY <1>1, <2>1 DEF ReadHash, Verdict, Goto, TypeOK
  <2>2. CASE Registered(hashes, arg[t])
    <3>1. /\ pc'[t] = "compare" /\ arg'[t] = arg[t] /\ window'[t] = window[t]
          /\ seenHash'[t] = hashes[arg[t]]
      BY <1>1, <2>2 DEF ReadHash, Goto, TypeOK
    <3>2. TRUE \in window[t] /\ hashes[arg[t]] = Checksum(arg[t], prime)
      BY <1>1, <2>2 DEF ReadHash, Verifier, Arguments, ProofsCurrent
    <3> QED
      BY <1>1, <2>1, <2>2, <3>1, <3>2 DEF ReadHash, Verifier, maps
  <2>3. CASE ~ Registered(hashes, arg[t])
    <3>1. pc'[t] = "idle"
      BY <1>1, <2>3 DEF ReadHash, Verdict, Goto, TypeOK
    <3> QED
      BY <1>1, <2>1, <3>1 DEF ReadHash, Verifier, maps
  <2> QED
    BY <2>2, <2>3
<1>9. VerifyLinearizable'
  <2>1. ASSUME NEW u \in Threads, u # t
        PROVE  pc'[u] = pc[u] /\ verdict'[u] = verdict[u] /\ window'[u] = window[u]
    BY <1>1, <2>1 DEF ReadHash, Verdict, Goto, TypeOK
  <2>2. CASE Registered(hashes, arg[t])
    <3>1. pc'[t] = "compare"
      BY <1>1, <2>2 DEF ReadHash, Goto, TypeOK
    <3> QED
      BY <1>1, <2>1, <3>1 DEF VerifyLinearizable
  <2>3. CASE ~ Registered(hashes, arg[t])
    <3>1. Verdict(t, FALSE) /\ window' = window /\ FALSE \in window[t]
      BY <1>1, <2>3 DEF ReadHash, Verifier
    <3>2. verdict'[t] = FALSE
      BY <1>1, <3>1 DEF Verdict, TypeOK
    <3> QED
      BY <1>1, <2>1, <3>1, <3>2 DEF VerifyLinearizable
  <2> QED
    BY <2>2, <2>3
<1>10. FileCurrent'
  BY <1>1 DEF ReadHash, Verdict, Goto, TypeOK, FileCurrent, maps, locals, results, disk, Image
<1> QED
  BY <1>2, <1>3, <1>4, <1>5, <1>6, <1>7, <1>8, <1>9, <1>10 DEF IInv

\* verify compares, under whatever prime it finds.
LEMMA CompareIInv ==
  ASSUME IInv, NEW t \in Threads, Compare(t)
  PROVE  IInv'
<1>1. TypeOK /\ Exclusive /\ Arguments /\ Bijective /\ ProofsCurrent
      /\ Writer /\ Verifier /\ VerifyLinearizable /\ FileCurrent
  BY DEF IInv
<1>2. TypeOK'
  BY <1>1 DEF Compare, Verdict, Goto, TypeOK, maps, locals, results, disk, Registered, Checksum
<1>3. Exclusive'
  BY <1>1 DEF Compare, Verdict, Goto, TypeOK, Exclusive, maps, locals, results, disk, Critical
<1>4. Arguments'
  BY <1>1 DEF Compare, Verdict, Goto, TypeOK, Arguments, maps, locals, results, disk
<1>5. Bijective'
  BY <1>1 DEF Compare, Verdict, Goto, TypeOK, Bijective, maps, locals, results, disk, Registered
<1>6. ProofsCurrent'
  BY <1>1 DEF Compare, Verdict, Goto, TypeOK, ProofsCurrent, maps, locals, results, disk, Registered, Checksum
<1>7. Writer'
  BY <1>1 DEF Compare, Verdict, Goto, TypeOK, Writer, maps, locals, results, disk, EmptyVault, EmptyReverse
<1>8. Verifier'
  BY <1>1, NoneApart DEF Compare, Verdict, Goto, TypeOK, Verifier, maps, locals, results, disk, Registered, Checksum, Exclusive, Critical, Arguments
<1>9. VerifyLinearizable'
  <2> SUFFICES ASSUME NEW u \in Threads, pc'[u] \notin {"verify", "compare"}
               PROVE  verdict'[u] \in window'[u]
    BY DEF VerifyLinearizable
  <2>1. CASE u # t
    BY <1>1, <2>1 DEF Compare, Verdict, Goto, TypeOK, VerifyLinearizable
  <2>2. CASE u = t
    <3>1. window' = window /\ verdict'[t] = (Checksum(arg[t], prime) = seenHash[t])
      BY <1>1 DEF Compare, Verdict, TypeOK
    <3>2. /\ TRUE \in window[t]
          /\ FALSE \in window[t] \/ seenHash[t] = Checksum(arg[t], prime)
      BY <1>1 DEF Compare, Verifier
    <3>3. CASE seenHash[t] = Checksum(arg[t], prime)
      BY <2>2, <3>1, <3>2, <3>3
    <3>4. CASE seenHash[t] # Checksum(arg[t], prime)
      BY <2>2, <3>1, <3>2, <3>4
    <3> QED
      BY <3>3, <3>4
  <2> QED
    BY <2>1, <2>2
<1>10. FileCurrent'
  BY <1>1 DEF Compare, Verdict, Goto, TypeOK, FileCurrent, maps, locals, results, disk, Image
<1> QED
  BY <1>2, <1>3, <1>4, <1>5, <1>6, <1>7, <1>8, <1>9, <1>10 DEF IInv

-----------------------------------------------------------------------------

LEMMA NextIInv == IInv /\ [Next]_vars => IInv'
<1> SUFFICES ASSUME IInv, [Next]_vars PROVE IInv'
  OBVIOUS
<1>1. ASSUME NEW t \in Threads, Locked(t)
      PROVE  IInv'
  BY <1>1, GenerateIInv, StoreIInv, NewPrimeIInv, SaveOkIInv, SaveFailsIInv DEF Locked
<1>2. CASE Next
  BY <1>1, <1>2, InvokeIInv, TokenizeHitIInv, TokenizeMissIInv, ClearMapsIInv,
     DetokenizeReturnIInv, ReadHashIInv, CompareIInv DEF Next
<1>3. CASE UNCHANGED vars
  <2>1. /\ lock' = lock /\ vault' = vault /\ reverse' = reverse /\ hashes' = hashes
        /\ prime' = prime /\ file' = file /\ saved' = saved /\ pc' = pc /\ arg' = arg
        /\ cand' = cand /\ seenHash' = seenHash /\ ret' = ret /\ verdict' = verdict
        /\ window' = window
    BY <1>3 DEF vars, maps, locals, results, disk
  <2>2. TypeOK' /\ Exclusive' /\ Arguments' /\ Writer' /\ FileCurrent'
    BY <2>1 DEF IInv, TypeOK, Exclusive, Critical, Arguments, Writer, FileCurrent, Image
  <2>3. Bijective' /\ ProofsCurrent' /\ VerifyLinearizable'
    BY <2>1 DEF IInv, Bijective, ProofsCurrent, VerifyLinearizable, Registered, Checksum
  <2>4. Verifier'
    BY <2>1 DEF IInv, Verifier, Registered, Checksum
  <2> QED
    BY <2>2, <2>3, <2>4 DEF IInv
<1> QED
  BY <1>2, <1>3

LEMMA Invariance == Spec => []IInv
  BY InitIInv, NextIInv, PTL DEF Spec

\* Type correctness of the vault and of every program point of its calls.
THEOREM TypeCorrect == Spec => []TypeOK
<1>1. IInv => TypeOK
  BY DEF IInv
<1> QED
  BY <1>1, Invariance, PTL

\* The maps of the vault agree for any number of threads, values and tokens,
\* also when tokens run out (then Generate is disabled) and when saves raise.
THEOREM MapsAgree == Spec => []Bijective
<1>1. IInv => Bijective
  BY DEF IInv
<1> QED
  BY <1>1, Invariance, PTL

\* Every stored proof is under the current prime: the lock-free verify never
\* finds the hash of one session and the prime of another, with nothing between.
THEOREM ProofsUnderCurrentPrime == Spec => []ProofsCurrent
<1>1. IInv => ProofsCurrent
  BY DEF IInv
<1> QED
  BY <1>1, Invariance, PTL

\* The lock-free verify answers as if it had run at one moment of the call.
THEOREM LockFreeVerify == Spec => []VerifyLinearizable
<1>1. IInv => VerifyLinearizable
  BY DEF IInv
<1> QED
  BY <1>1, Invariance, PTL

\* After a save that did not raise the file is the image of memory.
THEOREM FileIsImage == Spec => []FileCurrent
<1>1. IInv => FileCurrent
  BY DEF IInv
<1> QED
  BY <1>1, Invariance, PTL

\* Tokens are stable within a session.
THEOREM TokensAreStable == Spec => MappingStable
<1> DEFINE Stable == \A v \in Values : vault[v] # None /\ vault'[v] # vault[v] =>
                       vault' = EmptyVault /\ reverse' = EmptyReverse /\ hashes' = EmptyReverse
<1>1. IInv /\ [Next]_vars => [Stable]_vars
  <2> SUFFICES ASSUME IInv, Next PROVE Stable
    OBVIOUS
  <2>1. CASE vault' = vault
    BY <2>1
  <2>2. ASSUME NEW t \in Threads, Store(t)
        PROVE  Stable
    <3>1. vault[arg[t]] = None /\ vault \in [Values -> Tokens \cup {None}]
      BY <2>2 DEF IInv, Writer, Store, TypeOK
    <3>2. vault' = [vault EXCEPT ![arg[t]] = cand[t]]
      BY <2>2 DEF Store
    <3> QED
      BY <3>1, <3>2
  <2>3. ASSUME NEW t \in Threads, ClearMaps(t)
        PROVE  Stable
    BY <2>3 DEF ClearMaps
  <2>4. ASSUME NEW t \in Threads, Locked(t), ~ Store(t)
        PROVE  vault' = vault
    BY <2>4 DEF Locked, Generate, NewPrime, SaveOk, SaveFails, maps
  <2>5. ASSUME NEW t \in Threads,
               \/ Invoke(t) \/ TokenizeHit(t) \/ TokenizeMiss(t)
               \/ DetokenizeReturn(t) \/ ReadHash(t) \/ Compare(t)
        PROVE  vault' = vault
    BY <2>5 DEF Invoke, Begin, TokenizeHit, TokenizeMiss, DetokenizeReturn, ReadHash,
       Compare, maps
  <2> QED
    BY <2>1, <2>2, <2>3, <2>4, <2>5 DEF Next
<1> QED
  BY <1>1, Invariance, PTL DEF Spec, MappingStable

-----------------------------------------------------------------------------
(* The refinement: each step of TokenVault is a step of the atomic vault   *)
(* SessionVault or a stutter.  A tokenize takes effect at Store, a         *)
(* new_session at ClearMaps, a detokenize and a hit at their return, and a *)
(* verify at some moment of the call that window remembers.                *)

OperationAt(label) ==
  CASE label \in {"tokenize", "generate", "store", "save_token"} -> "tokenize"
    [] label \in {"new_session", "new_prime", "save_session"} -> "new_session"
    [] label \in {"verify", "compare"} -> "verify"
    [] OTHER -> label

PhaseAt(label) ==
  IF label \in {"save_token", "new_prime", "save_session"} THEN "effective" ELSE "called"

\* The answer a verification would get is the same in both vaults.
LEMMA SameAnswer ==
  ASSUME Bijective, TypeOK, NEW k \in Tokens
  PROVE  Registered(hashes, k) = Abstract!IsAssigned(vault, k)
<1>1. Registered(hashes, k) => Abstract!IsAssigned(vault, k)
  BY DEF Bijective, TypeOK, Abstract!IsAssigned
<1>2. Abstract!IsAssigned(vault, k) => Registered(hashes, k)
  BY NoneApart DEF Bijective, TypeOK, Abstract!IsAssigned
<1>3. Registered(hashes, k) \in BOOLEAN /\ Abstract!IsAssigned(vault, k) \in BOOLEAN
  BY DEF Registered, Abstract!IsAssigned
<1> QED
  BY <1>1, <1>2, <1>3

LEMMA SameAnswerPrimed ==
  ASSUME Bijective', TypeOK', NEW k \in Tokens
  PROVE  Registered(hashes', k) = Abstract!IsAssigned(vault', k)
<1>1. Registered(hashes', k) => Abstract!IsAssigned(vault', k)
  BY DEF Bijective, TypeOK, Abstract!IsAssigned, Registered
<1>2. Abstract!IsAssigned(vault', k) => Registered(hashes', k)
  BY NoneApart DEF Bijective, TypeOK, Abstract!IsAssigned, Registered
<1>3. Registered(hashes', k) \in BOOLEAN /\ Abstract!IsAssigned(vault', k) \in BOOLEAN
  BY DEF Registered, Abstract!IsAssigned
<1> QED
  BY <1>1, <1>2, <1>3

\* How a step of t's program counter shows in the abstract call.
LEMMA CallOf ==
  ASSUME TypeOK, NEW t \in Threads
  PROVE  /\ AbstractCall[t].arg = arg[t]
         /\ AbstractCall[t].op = "tokenize"
              <=> pc[t] \in {"tokenize", "generate", "store", "save_token"}
         /\ AbstractCall[t].op = "new_session"
              <=> pc[t] \in {"new_session", "new_prime", "save_session"}
         /\ AbstractCall[t].op = "verify" <=> pc[t] \in {"verify", "compare"}
         /\ AbstractCall[t].op = "detokenize" <=> pc[t] = "detokenize"
         /\ AbstractCall[t].op = "idle" <=> pc[t] = "idle"
         /\ AbstractCall[t].phase \in {"called", "effective"}
         /\ AbstractCall[t].phase = "effective"
              <=> pc[t] \in {"save_token", "new_prime", "save_session"}
  BY DEF AbstractCall, Operation, Phase, TypeOK

LEMMA ObserveRefines ==
  ASSUME TypeOK, TypeOK', Bijective', Arguments, Observe(hashes')
  PROVE  Abstract!Observe(vault')
<1>1. ASSUME NEW t \in Threads
      PROVE  (IF pc[t] \in {"verify", "compare"}
                THEN window[t] \cup {Registered(hashes', arg[t])}
                ELSE window[t])
             = (IF AbstractCall[t].op = "verify"
                  THEN window[t] \cup {Abstract!IsAssigned(vault', AbstractCall[t].arg)}
                  ELSE window[t])
  <2>1. CASE pc[t] \in {"verify", "compare"}
    <3>1. arg[t] \in Tokens
      BY <2>1 DEF Arguments
    <3>2. Registered(hashes', arg[t]) = Abstract!IsAssigned(vault', arg[t])
      BY <3>1, SameAnswerPrimed
    <3> QED
      BY <2>1, <3>2, CallOf
  <2>2. CASE pc[t] \notin {"verify", "compare"}
    BY <2>2, CallOf
  <2> QED
    BY <2>1, <2>2
<1> QED
  BY <1>1 DEF Observe, Abstract!Observe

LEMMA CallStep ==
  ASSUME TypeOK, NEW t \in Threads, NEW label, NEW a,
         pc' = [pc EXCEPT ![t] = label], arg' = [arg EXCEPT ![t] = a]
  PROVE  AbstractCall' = [AbstractCall EXCEPT ![t] =
           [op |-> OperationAt(label), arg |-> a, phase |-> PhaseAt(label)]]
  BY DEF AbstractCall, Operation, Phase, OperationAt, PhaseAt, TypeOK

\* A step that only moves t's program counter inside one operation.
LEMMA CallStutter ==
  ASSUME TypeOK, NEW t \in Threads, NEW label,
         pc' = [pc EXCEPT ![t] = label], arg' = arg,
         OperationAt(label) = OperationAt(pc[t]), PhaseAt(label) = PhaseAt(pc[t])
  PROVE  AbstractCall' = AbstractCall
  BY DEF AbstractCall, Operation, Phase, OperationAt, PhaseAt, TypeOK

LEMMA ReturnStep ==
  ASSUME TypeOK, NEW t \in Threads, NEW r, Return(t, r),
         UNCHANGED <<vault, verdict, window>>
  PROVE  Abstract!Return(t, r)
<1>1. AbstractCall' = [AbstractCall EXCEPT ![t] = Abstract!Idle]
  BY CallStep DEF Return, Goto, OperationAt, PhaseAt, Abstract!Idle
<1> QED
  BY <1>1 DEF Abstract!Return, Return

LEMMA InvokeRefines ==
  ASSUME IInv, NEW t \in Threads, Invoke(t)
  PROVE  Abstract!Invoke(t)
<1>1. TypeOK /\ Bijective
  BY DEF IInv
<1>2. ASSUME NEW op \in {"tokenize", "detokenize", "new_session", "verify"}, NEW a, NEW b,
             Begin(t, op, a, b)
      PROVE  Abstract!Begin(t, op, a, b)
  <2>1. AbstractCall' = [AbstractCall EXCEPT ![t] = [op |-> op, arg |-> a, phase |-> "called"]]
    <3>1. pc' = [pc EXCEPT ![t] = op] /\ arg' = [arg EXCEPT ![t] = a]
      BY <1>2 DEF Begin
    <3>2. OperationAt(op) = op /\ PhaseAt(op) = "called"
      BY DEF OperationAt, PhaseAt
    <3> QED
      BY <1>1, <3>1, <3>2, CallStep
  <2> QED
    BY <1>1, <1>2, <2>1, CallOf DEF Begin, Abstract!Begin, maps
<1>3. CASE \E v \in Values : Begin(t, "tokenize", v, FALSE)
  BY <1>2, <1>3 DEF Abstract!Invoke
<1>4. CASE \E k \in Tokens : Begin(t, "detokenize", k, FALSE)
  BY <1>2, <1>4 DEF Abstract!Invoke
<1>5. CASE Begin(t, "new_session", None, FALSE)
  BY <1>2, <1>5 DEF Abstract!Invoke
<1>6. ASSUME NEW k \in Tokens, Begin(t, "verify", k, Registered(hashes, k))
      PROVE  Abstract!Invoke(t)
  <2>1. Begin(t, "verify", k, Abstract!IsAssigned(vault, k))
    BY <1>1, <1>6, SameAnswer
  <2> QED
    BY <1>2, <2>1 DEF Abstract!Invoke
<1> QED
  BY <1>3, <1>4, <1>5, <1>6 DEF Invoke

LEMMA StoreRefines ==
  ASSUME IInv, IInv', NEW t \in Threads, Store(t)
  PROVE  Abstract!Assign(t)
<1>1. TypeOK /\ TypeOK' /\ Bijective /\ Bijective' /\ Arguments /\ Writer
  BY DEF IInv
<1>2. arg[t] \in Values /\ vault[arg[t]] = None /\ cand[t] \in Tokens /\ reverse[cand[t]] = None
  BY <1>1 DEF Store, Arguments, Writer
<1>3. ~ Abstract!IsAssigned(vault, cand[t])
  BY <1>1, <1>2, NoneApart DEF Bijective, Abstract!IsAssigned
<1>4. AbstractCall' = [AbstractCall EXCEPT ![t].phase = "effective"]
  <2>1. /\ AbstractCall' = [AbstractCall EXCEPT ![t] =
              [op |-> "tokenize", arg |-> arg[t], phase |-> "effective"]]
    <3>1. arg' = [arg EXCEPT ![t] = arg[t]]
      BY <1>1 DEF Store, locals, TypeOK
    <3>2. pc' = [pc EXCEPT ![t] = "save_token"]
      BY DEF Store, Goto
    <3>3. OperationAt("save_token") = "tokenize" /\ PhaseAt("save_token") = "effective"
      BY DEF OperationAt, PhaseAt
    <3> QED
      BY <1>1, <3>1, <3>2, <3>3, CallStep
  <2>2. AbstractCall[t] = [op |-> "tokenize", arg |-> arg[t], phase |-> "called"]
    BY <1>1 DEF Store, AbstractCall, Operation, Phase
  <2> QED
    BY <2>1, <2>2 DEF AbstractCall
<1>5. Abstract!Observe(vault')
  BY <1>1, ObserveRefines DEF Store
<1>6. /\ AbstractCall[t].op = "tokenize" /\ AbstractCall[t].phase = "called"
      /\ AbstractCall[t].arg = arg[t]
  BY <1>1, CallOf DEF Store
<1> QED
  BY <1>2, <1>3, <1>4, <1>5, <1>6 DEF Store, Abstract!Assign, results

LEMMA ClearMapsRefines ==
  ASSUME IInv, IInv', NEW t \in Threads, ClearMaps(t)
  PROVE  Abstract!Forget(t)
<1>1. TypeOK /\ TypeOK' /\ Bijective /\ Bijective' /\ Arguments
  BY DEF IInv
<1>2. AbstractCall' = [AbstractCall EXCEPT ![t].phase = "effective"]
  <2>1. AbstractCall' = [AbstractCall EXCEPT ![t] =
          [op |-> "new_session", arg |-> arg[t], phase |-> "effective"]]
    <3>1. arg' = [arg EXCEPT ![t] = arg[t]]
      BY <1>1 DEF ClearMaps, locals, TypeOK
    <3>2. pc' = [pc EXCEPT ![t] = "new_prime"]
      BY DEF ClearMaps, Goto
    <3>3. OperationAt("new_prime") = "new_session" /\ PhaseAt("new_prime") = "effective"
      BY DEF OperationAt, PhaseAt
    <3> QED
      BY <1>1, <3>1, <3>2, <3>3, CallStep
  <2>2. AbstractCall[t] = [op |-> "new_session", arg |-> arg[t], phase |-> "called"]
    BY <1>1 DEF ClearMaps, AbstractCall, Operation, Phase
  <2> QED
    BY <2>1, <2>2 DEF AbstractCall
<1>3. Abstract!Observe(vault')
  BY <1>1, ObserveRefines DEF ClearMaps
<1>4. AbstractCall[t].op = "new_session" /\ AbstractCall[t].phase = "called"
  BY <1>1, CallOf DEF ClearMaps
<1> QED
  BY <1>2, <1>3, <1>4 DEF ClearMaps, Abstract!Forget, Abstract!Unassigned, EmptyVault, results

LEMMA SaveRefines ==
  ASSUME IInv, NEW t \in Threads, SaveOk(t) \/ SaveFails(t)
  PROVE  Abstract!Next
<1>1. TypeOK /\ Writer /\ Arguments
  BY DEF IInv
<1>2. CASE SaveOk(t) /\ pc[t] = "save_token"
  <2>1. Abstract!Return(t, cand[t])
    BY <1>1, <1>2, ReturnStep DEF SaveOk, maps
  <2>2. vault[arg[t]] = cand[t] /\ cand[t] \in Tokens
    BY <1>1, <1>2 DEF Writer
  <2>3. AbstractCall[t].op = "tokenize" /\ AbstractCall[t].arg = arg[t]
    BY <1>1, <1>2, CallOf
  <2> QED
    BY <2>1, <2>2, <2>3, NoneApart DEF Abstract!Next, Abstract!ReturnToken
<1>3. CASE SaveOk(t) /\ pc[t] = "save_session"
  <2>1. Abstract!Return(t, None)
    BY <1>1, <1>3, ReturnStep DEF SaveOk, maps
  <2>2. AbstractCall[t].op = "new_session" /\ AbstractCall[t].phase = "effective"
    BY <1>1, <1>3, CallOf
  <2> QED
    BY <2>1, <2>2 DEF Abstract!Next, Abstract!ReturnSession
<1>4. CASE SaveFails(t)
  <2>1. Abstract!Return(t, Raised)
    BY <1>1, <1>4, ReturnStep DEF SaveFails, maps
  <2>2. AbstractCall[t].op \in {"tokenize", "new_session"} /\ AbstractCall[t].phase = "effective"
    BY <1>1, <1>4, CallOf DEF SaveFails, Saving
  <2> QED
    BY <2>1, <2>2 DEF Abstract!Next, Abstract!ReturnRaised
<1> QED
  BY <1>2, <1>3, <1>4 DEF SaveOk, Saving

LEMMA ReadRefines ==
  ASSUME IInv, NEW t \in Threads, TokenizeHit(t) \/ DetokenizeReturn(t)
  PROVE  Abstract!Next
<1>1. TypeOK /\ Bijective /\ Arguments
  BY DEF IInv
<1>2. CASE TokenizeHit(t)
  <2>1. Abstract!Return(t, vault[arg[t]])
    BY <1>1, <1>2, ReturnStep DEF TokenizeHit, maps
  <2>2. AbstractCall[t].op = "tokenize" /\ AbstractCall[t].arg = arg[t]
    BY <1>1, <1>2, CallOf DEF TokenizeHit
  <2> QED
    BY <1>2, <2>1, <2>2 DEF TokenizeHit, Abstract!Next, Abstract!ReturnToken
<1>3. CASE DetokenizeReturn(t)
  <2>1. Abstract!Return(t, reverse[arg[t]])
    BY <1>1, <1>3, ReturnStep DEF DetokenizeReturn, maps
  <2>2. AbstractCall[t].op = "detokenize" /\ AbstractCall[t].arg = arg[t]
    BY <1>1, <1>3, CallOf DEF DetokenizeReturn
  <2>3. arg[t] \in Tokens /\ reverse[arg[t]] \in Values \cup {None}
    BY <1>1, <1>3 DEF DetokenizeReturn, Arguments, TypeOK
  <2>4. CASE reverse[arg[t]] \in Values
    BY <1>1, <2>1, <2>2, <2>3, <2>4
       DEF Bijective, Abstract!Next, Abstract!ReturnValue
  <2>5. CASE reverse[arg[t]] = None
    <3>1. ~ Abstract!IsAssigned(vault, arg[t])
      BY <1>1, <2>3, <2>5, NoneApart DEF Bijective, Abstract!IsAssigned
    <3> QED
      BY <2>1, <2>2, <2>5, <3>1 DEF Abstract!Next, Abstract!ReturnValue
  <2> QED
    BY <2>3, <2>4, <2>5
<1> QED
  BY <1>2, <1>3

LEMMA VerdictRefines ==
  ASSUME TypeOK, NEW t \in Threads, pc[t] \in {"verify", "compare"},
         NEW b \in BOOLEAN, b \in window[t], Verdict(t, b),
         UNCHANGED <<vault, ret, window>>
  PROVE  Abstract!Next
<1>1. AbstractCall' = [AbstractCall EXCEPT ![t] = Abstract!Idle]
  <2>1. pc' = [pc EXCEPT ![t] = "idle"] /\ arg' = [arg EXCEPT ![t] = None]
    BY DEF Verdict, Goto
  <2>2. OperationAt("idle") = "idle" /\ PhaseAt("idle") = "called"
    BY DEF OperationAt, PhaseAt
  <2> QED
    BY <2>1, <2>2, CallStep DEF Abstract!Idle
<1>2. AbstractCall[t].op = "verify"
  BY CallOf
<1> QED
  BY <1>1, <1>2 DEF Verdict, Abstract!Next, Abstract!ReturnVerdict

LEMMA VerifyRefines ==
  ASSUME IInv, NEW t \in Threads, ReadHash(t) \/ Compare(t)
  PROVE  Abstract!Next \/ UNCHANGED Abstract!vars
<1>1. TypeOK /\ Verifier
  BY DEF IInv
<1>2. CASE ReadHash(t) /\ Registered(hashes, arg[t])
  <2>1. AbstractCall' = AbstractCall
    BY <1>1, <1>2, CallStutter DEF ReadHash, Goto, OperationAt, PhaseAt
  <2> QED
    BY <1>2, <2>1 DEF ReadHash, Abstract!vars, maps
<1>3. CASE ReadHash(t) /\ ~ Registered(hashes, arg[t])
  <2>1. FALSE \in window[t] /\ pc[t] = "verify" /\ Verdict(t, FALSE)
    BY <1>1, <1>3 DEF ReadHash, Verifier
  <2> QED
    BY <1>1, <1>3, <2>1, VerdictRefines DEF ReadHash, maps
<1>4. CASE Compare(t)
  <2>1. /\ pc[t] = "compare" /\ TRUE \in window[t]
        /\ FALSE \in window[t] \/ seenHash[t] = Checksum(arg[t], prime)
        /\ vault' = vault /\ ret' = ret /\ window' = window
    BY <1>1, <1>4 DEF Compare, Verifier, maps
  <2>2. CASE Checksum(arg[t], prime) = seenHash[t]
    <3>1. Verdict(t, TRUE)
      BY <1>4, <2>2 DEF Compare
    <3> QED
      BY <1>1, <2>1, <3>1, VerdictRefines
  <2>3. CASE Checksum(arg[t], prime) # seenHash[t]
    <3>1. Verdict(t, FALSE) /\ FALSE \in window[t]
      BY <1>4, <2>1, <2>3 DEF Compare
    <3> QED
      BY <1>1, <2>1, <3>1, VerdictRefines
  <2> QED
    BY <2>2, <2>3
<1> QED
  BY <1>2, <1>3, <1>4

\* Taking the lock, drawing a token and changing the prime do not show.
LEMMA HiddenRefines ==
  ASSUME IInv, NEW t \in Threads, TokenizeMiss(t) \/ Generate(t) \/ NewPrime(t)
  PROVE  UNCHANGED Abstract!vars
<1>1. TypeOK
  BY DEF IInv
<1>2. AbstractCall' = AbstractCall
  BY <1>1, CallStutter DEF TokenizeMiss, Generate, NewPrime, Goto, OperationAt, PhaseAt, locals
<1> QED
  BY <1>2 DEF TokenizeMiss, Generate, NewPrime, Abstract!vars, maps, results

\* The detailed vault, with its lock, hashes, prime and file, does nothing the
\* atomic vault could not do: the threads that share it can reason with one
\* injective assignment that changes in single steps.
THEOREM Implementation == Spec => ImplementsSessionVault
<1>1. Init => Abstract!Init
  <2> SUFFICES ASSUME Init PROVE Abstract!Init
    OBVIOUS
  <2>1. AbstractCall = [t \in Threads |-> Abstract!Idle]
    BY DEF Init, AbstractCall, Operation, Phase, Abstract!Idle
  <2> QED
    BY <2>1 DEF Init, EmptyVault, Abstract!Init, Abstract!Unassigned
<1>2. IInv /\ IInv' /\ [Next]_vars => [Abstract!Next]_(Abstract!vars)
  <2> SUFFICES ASSUME IInv, IInv', [Next]_vars
               PROVE  Abstract!Next \/ UNCHANGED Abstract!vars
    OBVIOUS
  <2>1. CASE UNCHANGED vars
    BY <2>1 DEF vars, maps, locals, results, Abstract!vars, AbstractCall, Operation, Phase
  <2>2. ASSUME NEW t \in Threads, Invoke(t) \/ Store(t) \/ ClearMaps(t)
        PROVE  Abstract!Next
    BY <2>2, InvokeRefines, StoreRefines, ClearMapsRefines DEF Abstract!Next
  <2> QED
    BY <2>1, <2>2, SaveRefines, ReadRefines, VerifyRefines, HiddenRefines DEF Next, Locked
<1> QED
  BY <1>1, <1>2, Invariance, PTL DEF Spec, ImplementsSessionVault, Abstract!Spec
=============================================================================
