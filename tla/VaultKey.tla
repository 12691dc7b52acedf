------------------------------ MODULE VaultKey ------------------------------
(***************************************************************************)
(* vault/vault.py, TokenVault._load_or_create_key: every process that      *)
(* makes a vault looks for one key file and loads the key in it, or draws  *)
(* a key and writes it.  Nothing locks the file, and a process may end     *)
(* between two steps.  A key is written in one piece, when the file is     *)
(* closed.                                                                 *)
(***************************************************************************)
EXTENDS Machine

CONSTANTS Keys,    \* the keys that can be drawn
          Absent,  \* there is no file
          Empty    \* the file was opened for writing and nothing is in it

ASSUME VaultKeyConstants == Absent \notin Keys /\ Empty \notin Keys /\ Absent # Empty

VARIABLES key_file,  \* what KEY_PATH holds
          step,      \* how far each process has come
          key,       \* the key each process has loaded or drawn
          drawn,     \* (history) keys drawn
          raced,     \* (history) two processes were at the creation together
          cut        \* (history) a process ended with the file open for writing

keyVars == <<key_file, step, key, drawn, raced, cut>>

\* What a process sees when it looks for the file is what it acts upon.
Creating(p) == step[p] \in {"missing", "opened"}

KeyInit ==
  /\ key_file = Absent
  /\ step = [p \in Processes |-> "down"]
  /\ key = [p \in Processes |-> Absent]
  /\ drawn = {} /\ raced = FALSE /\ cut = FALSE

LookForKey(p) ==
  /\ step[p] = "down"
  /\ step' = [step EXCEPT ![p] = IF key_file = Absent THEN "missing" ELSE "exists"]
  /\ raced' = (raced \/ (key_file = Absent /\ \E q \in Processes : Creating(q)))
  /\ UNCHANGED <<key_file, key, drawn, cut>>

LoadKeyMutant(p) ==  \* a key of its own, though there is one in the file
  /\ step[p] = "exists" /\ key_file \in Keys
  /\ step' = [step EXCEPT ![p] = "up"]
  /\ \E k \in Keys \ drawn : key' = [key EXCEPT ![p] = k] /\ drawn' = drawn \cup {k}
  /\ UNCHANGED <<key_file, raced, cut>>

LoadKey(p) ==
  /\ step[p] = "exists" /\ key_file \in Keys
  /\ step' = [step EXCEPT ![p] = "up"]
  /\ key' = [key EXCEPT ![p] = key_file]
  /\ UNCHANGED <<key_file, drawn, raced, cut>>

\* Fernet refuses the empty key; TokenVault() raises.
KeyRefused(p) ==
  /\ step[p] = "exists" /\ key_file \notin Keys
  /\ step' = [step EXCEPT ![p] = "down"]
  /\ UNCHANGED <<key_file, key, drawn, raced, cut>>

OpenKey(p) ==
  /\ step[p] = "missing"
  /\ \E k \in Keys \ drawn : key' = [key EXCEPT ![p] = k] /\ drawn' = drawn \cup {k}
  /\ step' = [step EXCEPT ![p] = "opened"]
  /\ key_file' = Empty
  /\ UNCHANGED <<raced, cut>>

WriteKeyMutant(p) ==  \* the key is still in the buffer
  /\ step[p] = "opened"
  /\ step' = [step EXCEPT ![p] = "up"]
  /\ UNCHANGED <<key_file, key, drawn, raced, cut>>

WriteKey(p) ==
  /\ step[p] = "opened"
  /\ step' = [step EXCEPT ![p] = "up"]
  /\ key_file' = key[p]
  /\ UNCHANGED <<key, drawn, raced, cut>>

\* The process ends, by itself or by a crash.
KeyEnds(p) ==
  /\ step[p] # "down"
  /\ step' = [step EXCEPT ![p] = "down"]
  /\ key' = [key EXCEPT ![p] = Absent]
  /\ cut' = (cut \/ step[p] = "opened")
  /\ UNCHANGED <<key_file, drawn, raced>>

KeyStarts(p) == LookForKey(p) \/ LoadKey(p) \/ KeyRefused(p) \/ OpenKey(p) \/ WriteKey(p)

KeyNext == \E p \in Processes : KeyStarts(p) \/ KeyEnds(p)

KeySpec == KeyInit /\ [][KeyNext]_keyVars

-----------------------------------------------------------------------------
(* Properties *)

KeyTypeOK ==
  /\ key_file \in Keys \cup {Absent, Empty}
  /\ step \in [Processes -> {"down", "missing", "opened", "exists", "up"}]
  /\ key \in [Processes -> Keys \cup {Absent}]
  /\ drawn \subseteq Keys
  /\ raced \in BOOLEAN /\ cut \in BOOLEAN

\* Every vault encrypts with the key that the file keeps, so what any of them
\* saved can be read after a restart, unless two processes were creating the
\* file at once.
KeyAgreement ==
  raced \/ \A p \in Processes : step[p] = "up" => key[p] = key_file

\* A start fails over the key only while another process is writing the file,
\* or after one ended in the middle of that.
RefusedForAReason ==
  key_file = Empty => cut \/ \E p \in Processes : step[p] = "opened"
=============================================================================
