----------------------------- MODULE TokenVault -----------------------------
(***************************************************************************)
(* vault/vault.py, class TokenVault: the mutex-locked, session-scoped map  *)
(* from real values to tokens, shared by all sanitizer layers.             *)
(*                                                                         *)
(* tokenize, detokenize and new_session run under _lock; verify (the proof *)
(* Layers 3 and 4 ask for) takes no lock and reads _hashes and _prime one  *)
(* after the other.  A step here is what another thread can tell apart:    *)
(* _vault and _reverse are touched under the lock only, so one step writes *)
(* them together with _hashes; _hashes and _prime are written in separate  *)
(* steps, because verify can read between them.  A call that raises leaves *)
(* the with block, hence releases the lock.                                *)
(***************************************************************************)
EXTENDS FiniteSets

CONSTANTS Threads,  \* threads that share one vault
          Values,   \* real values (and whatever else is tokenized)
          Tokens,   \* 8-digit integers, range(10000000, 100000000)
          Primes,   \* what generate_prime may return
          None,     \* Python's None: no entry, no prime, no result
          Raised,   \* outcome of a call whose _save raised
          Absent,   \* no vault file
          Torn      \* the vault file opened for writing, not written in full

ASSUME Distinct ==
  /\ None \notin Threads \cup Values \cup Tokens \cup Primes
  /\ None \notin Tokens \X (Primes \cup {None})
  /\ Raised \notin Values \cup Tokens \cup {None}

VARIABLES lock,     \* the thread that holds _lock, or None
          vault,    \* _vault: real value -> token
          reverse,  \* _reverse: token -> real value
          hashes,   \* _hashes: token -> stored BLAKE3 hash
          prime,    \* _prime
          file,     \* what VAULT_PATH holds
          saved,    \* whether the last _save ended without raising
          pc,       \* pc[t]: where thread t is
          arg,      \* arg[t]: the argument of t's call
          cand,     \* cand[t]: the token t generated
          seenHash, \* seenHash[t]: stored_hash, local to verify
          ret,      \* ret[t]: outcome of t's last call other than verify
          verdict,  \* verdict[t]: what t's last verify returned
          window    \* window[t]: (history) whether t's token was registered,
                    \* at each moment of its verify

maps == <<vault, reverse, hashes>>
locals == <<arg, cand, seenHash>>
results == <<ret, verdict>>
disk == <<file, saved>>
vars == <<lock, maps, prime, disk, pc, locals, results, window>>

\* BLAKE3 keyed with the prime, taken to be collision free.
Checksum(token, key) == <<token, key>>

EmptyVault == [v \in Values |-> None]
EmptyReverse == [k \in Tokens |-> None]

Image == [vault |-> vault, reverse |-> reverse, hashes |-> hashes, prime |-> prime]

Registered(h, k) == h[k] # None

\* History: the verifications in progress observe the hashes h.
Observe(h) ==
  window' = [t \in Threads |->
               IF pc[t] \in {"verify", "compare"}
                 THEN window[t] \cup {Registered(h, arg[t])}
                 ELSE window[t]]

Init ==
  /\ lock = None
  /\ vault = EmptyVault /\ reverse = EmptyReverse /\ hashes = EmptyReverse
  /\ prime = None
  /\ file = Absent /\ saved = FALSE
  /\ pc = [t \in Threads |-> "idle"]
  /\ arg = [t \in Threads |-> None]
  /\ cand = [t \in Threads |-> None]
  /\ seenHash = [t \in Threads |-> None]
  /\ ret = [t \in Threads |-> None]
  /\ verdict = [t \in Threads |-> FALSE]
  /\ window = [t \in Threads |-> {FALSE}]

-----------------------------------------------------------------------------
(* Calls and the mutex *)

\* The results of the thread's previous call are gone by then.
Begin(t, op, a, b) ==
  /\ pc[t] = "idle"
  /\ pc' = [pc EXCEPT ![t] = op]
  /\ arg' = [arg EXCEPT ![t] = a]
  /\ ret' = [ret EXCEPT ![t] = None]
  /\ verdict' = [verdict EXCEPT ![t] = FALSE]
  /\ window' = [window EXCEPT ![t] = {b}]
  /\ UNCHANGED <<lock, maps, prime, disk, cand, seenHash>>

Invoke(t) ==
  \/ \E v \in Values : Begin(t, "tokenize", v, FALSE)
  \/ \E k \in Tokens : Begin(t, "detokenize", k, FALSE)
  \/ Begin(t, "new_session", None, FALSE)
  \/ \E k \in Tokens : Begin(t, "verify", k, Registered(hashes, k))

LockFreeMutant == TRUE  \* the mutex is dropped

LockFree == lock = None

Goto(t, label) == pc' = [pc EXCEPT ![t] = label]

Return(t, r) ==
  /\ Goto(t, "idle")
  /\ arg' = [arg EXCEPT ![t] = None]
  /\ cand' = [cand EXCEPT ![t] = None]
  /\ ret' = [ret EXCEPT ![t] = r]

-----------------------------------------------------------------------------
(* tokenize *)

TokenizeHit(t) ==
  /\ pc[t] = "tokenize" /\ LockFree
  /\ vault[arg[t]] # None
  /\ Return(t, vault[arg[t]])
  /\ UNCHANGED <<lock, maps, prime, disk, seenHash, verdict, window>>

TokenizeMiss(t) ==
  /\ pc[t] = "tokenize" /\ LockFree
  /\ vault[arg[t]] = None
  /\ lock' = t
  /\ Goto(t, "generate")
  /\ UNCHANGED <<maps, prime, disk, locals, results, window>>

GenerateMutant(t) ==  \* no uniqueness test
  /\ pc[t] = "generate"
  /\ \E k \in Tokens : cand' = [cand EXCEPT ![t] = k]
  /\ Goto(t, "store")
  /\ UNCHANGED <<lock, maps, prime, disk, arg, seenHash, results, window>>

\* _generate_valid_token draws until the candidate is unused: it spins, with
\* the lock held, while no token is left.
Generate(t) ==
  /\ pc[t] = "generate"
  /\ \E k \in Tokens : reverse[k] = None /\ cand' = [cand EXCEPT ![t] = k]
  /\ Goto(t, "store")
  /\ UNCHANGED <<lock, maps, prime, disk, arg, seenHash, results, window>>

StoreUnkeyedMutant(t) ==  \* the hash is not bound to the session prime
  /\ pc[t] = "store"
  /\ vault' = [vault EXCEPT ![arg[t]] = cand[t]]
  /\ reverse' = [reverse EXCEPT ![cand[t]] = arg[t]]
  /\ hashes' = [hashes EXCEPT ![cand[t]] = Checksum(cand[t], None)]
  /\ Observe(hashes')
  /\ Goto(t, "save_token")
  /\ UNCHANGED <<lock, prime, disk, locals, results>>

StoreOneWayMutant(t) ==  \* the reverse map is forgotten
  /\ pc[t] = "store"
  /\ vault' = [vault EXCEPT ![arg[t]] = cand[t]]
  /\ hashes' = [hashes EXCEPT ![cand[t]] = Checksum(cand[t], prime)]
  /\ Observe(hashes')
  /\ Goto(t, "save_token")
  /\ UNCHANGED <<lock, reverse, prime, disk, locals, results>>

Store(t) ==
  /\ pc[t] = "store"
  /\ vault' = [vault EXCEPT ![arg[t]] = cand[t]]
  /\ reverse' = [reverse EXCEPT ![cand[t]] = arg[t]]
  /\ hashes' = [hashes EXCEPT ![cand[t]] = Checksum(cand[t], prime)]
  /\ Observe(hashes')
  /\ Goto(t, "save_token")
  /\ UNCHANGED <<lock, prime, disk, locals, results>>

-----------------------------------------------------------------------------
(* new_session *)

ClearMapsMutant(t) ==  \* hashes of the old session are kept
  /\ pc[t] = "new_session" /\ LockFree
  /\ lock' = t
  /\ vault' = EmptyVault /\ reverse' = EmptyReverse
  /\ Goto(t, "new_prime")
  /\ UNCHANGED <<hashes, prime, disk, locals, results, window>>

ClearMaps(t) ==
  /\ pc[t] = "new_session" /\ LockFree
  /\ lock' = t
  /\ vault' = EmptyVault /\ reverse' = EmptyReverse /\ hashes' = EmptyReverse
  /\ Observe(hashes')
  /\ Goto(t, "new_prime")
  /\ UNCHANGED <<prime, disk, locals, results>>

NewPrimeMutant(t) ==  \* returns without saving
  /\ pc[t] = "new_prime"
  /\ prime' \in Primes
  /\ lock' = None
  /\ Return(t, None)
  /\ UNCHANGED <<maps, disk, seenHash, verdict, window>>

NewPrime(t) ==
  /\ pc[t] = "new_prime"
  /\ prime' \in Primes
  /\ Goto(t, "save_session")
  /\ UNCHANGED <<lock, maps, disk, locals, results, window>>

-----------------------------------------------------------------------------
(* _save, the last step of both writers; leaving the with block releases *)

Saving(t) == pc[t] \in {"save_token", "save_session"}

SaveOk(t) ==
  /\ Saving(t)
  /\ file' = Image /\ saved' = TRUE
  /\ Return(t, IF pc[t] = "save_token" THEN cand[t] ELSE None)
  /\ lock' = None
  /\ UNCHANGED <<maps, prime, seenHash, verdict, window>>

SaveFailsMutant(t) ==  \* the lock is not released when _save raises
  /\ Saving(t)
  /\ file' \in {file, Torn, Image} /\ saved' = FALSE
  /\ Return(t, Raised)
  /\ UNCHANGED <<lock, maps, prime, seenHash, verdict, window>>

\* open, write or chmod raises: the file is as before, torn, or complete.
\* The maps keep what the call put into them.
SaveFails(t) ==
  /\ Saving(t)
  /\ file' \in {file, Torn, Image} /\ saved' = FALSE
  /\ Return(t, Raised)
  /\ lock' = None
  /\ UNCHANGED <<maps, prime, seenHash, verdict, window>>

-----------------------------------------------------------------------------
(* detokenize, locked; verify, not locked *)

DetokenizeReturn(t) ==
  /\ pc[t] = "detokenize" /\ LockFree
  /\ Return(t, reverse[arg[t]])
  /\ UNCHANGED <<lock, maps, prime, disk, seenHash, verdict, window>>

Verdict(t, b) ==
  /\ Goto(t, "idle")
  /\ arg' = [arg EXCEPT ![t] = None]
  /\ seenHash' = [seenHash EXCEPT ![t] = None]
  /\ verdict' = [verdict EXCEPT ![t] = b]

ReadHashLockedMutant(t) ==  \* verify waits for the mutex
  /\ pc[t] = "verify" /\ LockFree
  /\ \/ /\ Registered(hashes, arg[t])
        /\ seenHash' = [seenHash EXCEPT ![t] = hashes[arg[t]]]
        /\ Goto(t, "compare")
        /\ UNCHANGED <<arg, verdict>>
     \/ ~ Registered(hashes, arg[t]) /\ Verdict(t, FALSE)
  /\ UNCHANGED <<lock, maps, prime, disk, cand, ret, window>>

ReadHash(t) ==
  /\ pc[t] = "verify"
  /\ \/ /\ Registered(hashes, arg[t])
        /\ seenHash' = [seenHash EXCEPT ![t] = hashes[arg[t]]]
        /\ Goto(t, "compare")
        /\ UNCHANGED <<arg, verdict>>
     \/ ~ Registered(hashes, arg[t]) /\ Verdict(t, FALSE)
  /\ UNCHANGED <<lock, maps, prime, disk, cand, ret, window>>

Compare(t) ==
  /\ pc[t] = "compare"
  /\ Verdict(t, Checksum(arg[t], prime) = seenHash[t])
  /\ UNCHANGED <<lock, maps, prime, disk, cand, ret, window>>

-----------------------------------------------------------------------------
Locked(t) == Generate(t) \/ Store(t) \/ NewPrime(t) \/ SaveOk(t) \/ SaveFails(t)

Next ==
  \E t \in Threads :
    \/ Invoke(t)
    \/ TokenizeHit(t) \/ TokenizeMiss(t) \/ ClearMaps(t) \/ DetokenizeReturn(t)
    \/ Locked(t)
    \/ ReadHash(t) \/ Compare(t)

Spec == Init /\ [][Next]_vars

\* A runnable thread keeps running.  Python's lock is not fair, so nothing is
\* assumed about who gets it.
Fairness ==
  \A t \in Threads : WF_vars(Locked(t)) /\ WF_vars(ReadHash(t) \/ Compare(t))

FairSpec == Spec /\ Fairness

-----------------------------------------------------------------------------
(* Properties *)

TypeOK ==
  /\ lock \in Threads \cup {None}
  /\ vault \in [Values -> Tokens \cup {None}]
  /\ reverse \in [Tokens -> Values \cup {None}]
  /\ hashes \in [Tokens -> (Tokens \X (Primes \cup {None})) \cup {None}]
  /\ prime \in Primes \cup {None}
  /\ saved \in BOOLEAN
  /\ pc \in [Threads -> {"idle", "tokenize", "generate", "store", "save_token",
                         "new_session", "new_prime", "save_session",
                         "detokenize", "verify", "compare"}]
  /\ arg \in [Threads -> Values \cup Tokens \cup {None}]
  /\ cand \in [Threads -> Tokens \cup {None}]
  /\ seenHash \in [Threads -> (Tokens \X (Primes \cup {None})) \cup {None}]
  /\ ret \in [Threads -> Values \cup Tokens \cup {None, Raised}]
  /\ verdict \in [Threads -> BOOLEAN]
  /\ window \in [Threads -> SUBSET BOOLEAN]

\* The three maps of the vault agree at every moment, also after a save that
\* raised: two values never share a token, every token leads back to the
\* value it replaced, and exactly the tokens in use carry a proof.
Bijective ==
  /\ \A v \in Values, k \in Tokens : vault[v] = k <=> reverse[k] = v
  /\ \A k \in Tokens : Registered(hashes, k) <=> reverse[k] # None

\* A stored proof is always one under the prime that verify reads, although
\* verify takes no lock: new_session drops the hashes before it changes the
\* prime.
ProofsCurrent ==
  \A k \in Tokens : Registered(hashes, k) => hashes[k] = Checksum(k, prime)

\* verify is linearizable although it reads two variables without the lock:
\* it answers with a registration status the token had at some moment of the
\* call, whatever tokenize and new_session do in between.
VerifyLinearizable ==
  \A t \in Threads : pc[t] \notin {"verify", "compare"} => verdict[t] \in window[t]

\* While no writer is inside and the last save succeeded, the encrypted file
\* is the image of the maps and the prime in memory.
FileCurrent == lock = None /\ saved => file = Image

\* Within a session no value ever changes its token; the only way to lose it
\* is new_session, which empties all maps in the same step.
MappingStable ==
  [][\A v \in Values : vault[v] # None /\ vault'[v] # vault[v] =>
       vault' = EmptyVault /\ reverse' = EmptyReverse /\ hashes' = EmptyReverse]_vars

\* Whoever holds the lock lets it go, also when _save raises.  It rests on
\* there being more tokens than values in a session.
LockReleased == \A t \in Threads : lock = t ~> lock # t

\* A verification ends no matter how busy the lock is: the egress layers are
\* never held up by a writer.
VerifyReturns ==
  \A t \in Threads : pc[t] \in {"verify", "compare"} ~> pc[t] = "idle"

\* The vault implements the atomic one.
Operation(t) ==
  CASE pc[t] \in {"tokenize", "generate", "store", "save_token"} -> "tokenize"
    [] pc[t] \in {"new_session", "new_prime", "save_session"} -> "new_session"
    [] pc[t] \in {"verify", "compare"} -> "verify"
    [] OTHER -> pc[t]

Phase(t) ==
  IF pc[t] \in {"save_token", "new_prime", "save_session"} THEN "effective" ELSE "called"

AbstractCall ==
  [t \in Threads |-> [op |-> Operation(t), arg |-> arg[t], phase |-> Phase(t)]]

Abstract == INSTANCE SessionVault WITH assigned <- vault, call <- AbstractCall

ImplementsSessionVault == Abstract!Spec
=============================================================================
