------------------------------ MODULE Startup ------------------------------
(***************************************************************************)
(* The processes that share the key file, the vault file and the registry  *)
(* file: those of tools/diagnose.py, which run TokenVault(), new_session() *)
(* and ServiceRegistry() before they tokenize a log, and those in which    *)
(* the operator registers services.  Any of them may end at any time and   *)
(* be started again.                                                       *)
(***************************************************************************)
EXTENDS VaultKey, ServiceRegistry

VARIABLES session,     \* processes whose new_session has returned
          saving,      \* processes that have the vault file open
          vault_file,  \* the key VAULT_PATH is encrypted with; Absent, Empty or
                       \* Garbage if there is none
          vault_torn   \* (history) since the last save that began alone, saves
                       \* have overlapped, or one was cut off or has failed

vaultVars == <<session, saving, vault_file, vault_torn>>
startupVars == <<keyVars, registryVars, vaultVars>>

Init ==
  /\ KeyInit /\ RegistryInit
  /\ session = {} /\ saving = {}
  /\ vault_file = Absent /\ vault_torn = FALSE

MakeVault(p) ==
  /\ at[p] = "off"
  /\ KeyStarts(p)
  /\ UNCHANGED <<registryVars, vaultVars>>

\* _save opens the file, which truncates it.
OpenVault(p) ==
  /\ step[p] = "up" /\ p \notin saving
  /\ saving' = saving \cup {p}
  /\ vault_file' = Empty
  /\ vault_torn' = (saving # {})
  /\ UNCHANGED <<keyVars, registryVars, session>>

\* new_session: every session of every process overwrites the same vault file.
NewSession(p) == p \notin session /\ OpenVault(p)

\* tokenize, for each new value in the log.
Tokenize(p) == p \in session /\ at[p] = "ready" /\ OpenVault(p)

WriteVaultMutant(p) ==  \* the call returns before the file is closed
  /\ p \in saving
  /\ saving' = saving \ {p} /\ session' = session \cup {p}
  /\ UNCHANGED <<keyVars, registryVars, vault_file, vault_torn>>

\* What is left of a longer text that somebody else wrote since the file was
\* opened spoils it.
WriteVault(p) ==
  /\ p \in saving
  /\ saving' = saving \ {p} /\ session' = session \cup {p}
  /\ vault_file' \in {key[p]} \cup (IF vault_file = Empty THEN {} ELSE {Garbage})
  /\ UNCHANGED <<keyVars, registryVars, vault_torn>>

\* A save of tokenize raises after it has opened the file, and the layer that
\* called it goes on.
SaveRaises(p) ==
  /\ p \in saving \cap session
  /\ saving' = saving \ {p}
  /\ vault_file' \in {vault_file, Garbage} /\ vault_torn' = TRUE
  /\ UNCHANGED <<keyVars, registryVars, session>>

\* diagnose.py loads or creates the registry, and never registers anything.
BuildRegistry(p) ==
  /\ p \in session
  /\ LookForRegistry(p) \/ LoadRegistry(p) \/ CreateRegistry(p) \/ WriteRegistry(p)
  /\ UNCHANGED <<keyVars, vaultVars>>

\* External: a process in which the operator registers services; nothing under
\* src/ calls register_service.
Operate(p) ==
  /\ step[p] = "down"
  /\ \/ LookForRegistry(p) \/ LoadRegistry(p) \/ CreateRegistry(p) \/ WriteRegistry(p)
     \/ \E service \in Services, profile \in Profiles : RegisterService(p, service, profile)
  /\ UNCHANGED <<keyVars, vaultVars>>

\* The process ends because ServiceRegistry() raised, by itself, or by a crash.
Ends(p) ==
  /\ KeyEnds(p) \/ (step[p] = "down" /\ at[p] # "off" /\ UNCHANGED keyVars)
  /\ RegistryRefused(p) \/ RegistryEnds(p) \/ (at[p] = "off" /\ UNCHANGED registryVars)
  /\ session' = session \ {p} /\ saving' = saving \ {p}
  /\ IF p \in saving
       THEN vault_file' \in {vault_file, Garbage} /\ vault_torn' = TRUE
       ELSE UNCHANGED <<vault_file, vault_torn>>

Next ==
  \E p \in Processes :
    \/ MakeVault(p) \/ NewSession(p) \/ Tokenize(p) \/ WriteVault(p) \/ SaveRaises(p)
    \/ BuildRegistry(p) \/ Operate(p) \/ Ends(p)

Spec == Init /\ [][Next]_startupVars

-----------------------------------------------------------------------------
(* Properties *)

TypeOK ==
  /\ KeyTypeOK /\ RegistryTypeOK
  /\ session \subseteq Processes /\ saving \subseteq Processes
  /\ vault_file \in Keys \cup {Absent, Empty, Garbage}
  /\ vault_torn \in BOOLEAN

\* The vault file that any session left, this one or one before a crash, can be
\* decrypted with the key file, unless two processes created the key at once or
\* the last saves overlapped or did not come to their end: whatever happened to
\* the file before, one undisturbed save repairs it.
VaultReadable ==
  raced \/ vault_torn \/ saving # {} \/ vault_file = Absent
    \/ (vault_file \in Keys /\ vault_file = key_file)
=============================================================================
