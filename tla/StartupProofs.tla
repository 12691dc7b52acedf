--------------------------- MODULE StartupProofs ---------------------------
(***************************************************************************)
(* Proofs about Startup, for any number of processes.  A step of Startup   *)
(* is a step of the key file, of the registry, or of both, so each of the  *)
(* two has an inductive invariant of its own, and the vault file needs one *)
(* more conjunct.                                                          *)
(***************************************************************************)
EXTENDS Startup, TLAPS

-----------------------------------------------------------------------------
(* The key file *)

\* While no two processes create the file together, the step that a process has
\* reached determines what the file holds.
Alone ==
  /\ \A p, q \in Processes : Creating(p) /\ Creating(q) => p = q
  /\ \A p \in Processes :
       /\ step[p] = "missing" => key_file = Absent
       /\ step[p] = "opened" => key_file = Empty
       /\ step[p] = "up" => key[p] = key_file /\ key_file \in Keys

KeyInv ==
  /\ KeyTypeOK
  /\ \A p \in Processes : step[p] = "opened" => key[p] \in Keys
  /\ RefusedForAReason
  /\ raced \/ Alone

LEMMA KeyInvInit == KeyInit => KeyInv
BY VaultKeyConstants DEF KeyInit, KeyInv, KeyTypeOK, RefusedForAReason, Alone, Creating

LEMMA KeyInvStep == KeyInv /\ [KeyNext]_keyVars => KeyInv'
<1> SUFFICES ASSUME KeyInv, [KeyNext]_keyVars PROVE KeyInv'
  OBVIOUS
<1> USE VaultKeyConstants DEF KeyInv, KeyTypeOK, RefusedForAReason, Alone, Creating
<1>1. ASSUME NEW p \in Processes, LookForKey(p) PROVE KeyInv'
  BY <1>1 DEF LookForKey
<1>2. ASSUME NEW p \in Processes, LoadKey(p) PROVE KeyInv'
  BY <1>2 DEF LoadKey
<1>3. ASSUME NEW p \in Processes, KeyRefused(p) PROVE KeyInv'
  BY <1>3 DEF KeyRefused
<1>4. ASSUME NEW p \in Processes, OpenKey(p) PROVE KeyInv'
  BY <1>4 DEF OpenKey
<1>5. ASSUME NEW p \in Processes, WriteKey(p) PROVE KeyInv'
  BY <1>5 DEF WriteKey
<1>6. ASSUME NEW p \in Processes, KeyEnds(p) PROVE KeyInv'
  BY <1>6 DEF KeyEnds
<1>7. CASE UNCHANGED keyVars
  BY <1>7 DEF keyVars
<1> QED
  BY <1>1, <1>2, <1>3, <1>4, <1>5, <1>6, <1>7 DEF KeyNext, KeyStarts

-----------------------------------------------------------------------------
(* The registry file *)

\* While every save was of a fresh copy and none was disturbed, what is in the
\* file, in the copy that is being written, and in every fresh copy is what was
\* registered last.
Undisturbed ==
  /\ \A p, q \in Processes : Writing(p) /\ Writing(q) => p = q
  /\ \A p \in Processes : Writing(p) => file = NoText /\ copy[p] = saved
  /\ file \in Registries => file = saved
  /\ \/ \E q \in Processes : Writing(q)
     \/ \A p \in fresh : /\ at[p] = "ready" => copy[p] = saved
                         /\ at[p] = "missing" => saved = NoServices

RegistryInv ==
  /\ RegistryTypeOK
  /\ \A p \in fresh : at[p] \in {"missing", "opened", "ready"}
  /\ file = NoFile => saved = NoServices
  /\ UnreadableForAReason
  /\ \A p, q \in Processes : Writing(p) /\ Writing(q) => p = q \/ torn
  /\ \A p \in Processes : Writing(p) => file = NoText \/ torn
  /\ lost \/ torn \/ Undisturbed

LEMMA NoServicesIsRegistry == NoServices \in Registries
BY DEF NoServices, Registries

LEMMA RegistryInvInit == RegistryInit => RegistryInv
BY RegistryConstants, NoServicesIsRegistry
   DEF RegistryInit, RegistryInv, RegistryTypeOK, UnreadableForAReason, Undisturbed, Writing

LEMMA RegistryInvStep == RegistryInv /\ [RegistryNext]_registryVars => RegistryInv'
<1> SUFFICES ASSUME RegistryInv, [RegistryNext]_registryVars PROVE RegistryInv'
  OBVIOUS
<1> USE RegistryConstants, NoServicesIsRegistry
    DEF RegistryInv, RegistryTypeOK, UnreadableForAReason, Undisturbed, Writing
<1>1. ASSUME NEW p \in Processes, LookForRegistry(p) PROVE RegistryInv'
  BY <1>1 DEF LookForRegistry
<1>2. ASSUME NEW p \in Processes, LoadRegistry(p) PROVE RegistryInv'
  BY <1>2 DEF LoadRegistry
<1>3. ASSUME NEW p \in Processes, RegistryRefused(p) PROVE RegistryInv'
  BY <1>3 DEF RegistryRefused
<1>4. ASSUME NEW p \in Processes, CreateRegistry(p) PROVE RegistryInv'
  BY <1>4 DEF CreateRegistry, OpenRegistry
<1>5. ASSUME NEW p \in Processes, NEW service \in Services, NEW profile \in Profiles,
             RegisterService(p, service, profile)
      PROVE  RegistryInv'
  BY <1>5 DEF RegisterService, OpenRegistry, Registries
<1>6. ASSUME NEW p \in Processes, WriteRegistry(p) PROVE RegistryInv'
  BY <1>6 DEF WriteRegistry
<1>7. ASSUME NEW p \in Processes, RegistryEnds(p) PROVE RegistryInv'
  BY <1>7 DEF RegistryEnds
<1>8. CASE UNCHANGED registryVars
  BY <1>8 DEF registryVars
<1> QED
  BY <1>1, <1>2, <1>3, <1>4, <1>5, <1>6, <1>7, <1>8
     DEF RegistryNext, RegistryStep, RegistryStarts

-----------------------------------------------------------------------------
(* Startup *)

LEMMA StepsOfParts == [Next]_startupVars => [KeyNext]_keyVars /\ [RegistryNext]_registryVars
<1> SUFFICES ASSUME [Next]_startupVars
             PROVE  [KeyNext]_keyVars /\ [RegistryNext]_registryVars
  OBVIOUS
<1>1. ASSUME NEW p \in Processes, MakeVault(p)
      PROVE  KeyNext /\ UNCHANGED registryVars
  BY <1>1 DEF MakeVault, KeyNext, registryVars
<1>2. ASSUME NEW p \in Processes,
             NewSession(p) \/ Tokenize(p) \/ WriteVault(p) \/ SaveRaises(p)
      PROVE  UNCHANGED keyVars /\ UNCHANGED registryVars
  BY <1>2 DEF NewSession, Tokenize, OpenVault, WriteVault, SaveRaises, keyVars, registryVars
<1>3. ASSUME NEW p \in Processes, BuildRegistry(p) \/ Operate(p)
      PROVE  UNCHANGED keyVars /\ RegistryNext
  BY <1>3 DEF BuildRegistry, Operate, keyVars, RegistryNext, RegistryStep, RegistryStarts
<1>4. ASSUME NEW p \in Processes, Ends(p)
      PROVE  (KeyNext \/ UNCHANGED keyVars) /\ (RegistryNext \/ UNCHANGED registryVars)
  BY <1>4 DEF Ends, KeyNext, RegistryNext, RegistryStep, RegistryStarts
<1>5. CASE UNCHANGED startupVars
  BY <1>5 DEF startupVars, keyVars, registryVars
<1> QED
  BY <1>1, <1>2, <1>3, <1>4, <1>5 DEF Next

\* The composition runs the two components as they are: diagnose.py and the
\* operator order their steps and add none.
THEOREM StartupImplementsParts == Spec => KeySpec /\ RegistrySpec
<1>1. Init => KeyInit /\ RegistryInit
  BY DEF Init
<1> QED
  BY <1>1, StepsOfParts, PTL DEF Spec, KeySpec, RegistrySpec

\* While no save was disturbed, at most one process is saving, over an empty file.
VaultInv ==
  /\ session \subseteq Processes /\ saving \subseteq Processes
  /\ vault_file \in Keys \cup {Absent, Empty, Garbage}
  /\ vault_torn \in BOOLEAN
  /\ \A p \in saving : step[p] = "up"
  /\ \/ vault_torn
     \/ /\ \A p, q \in saving : p = q
        /\ saving # {} => vault_file = Empty
  /\ VaultReadable

LEMMA VaultInvStep == KeyInv /\ VaultInv /\ [Next]_startupVars => VaultInv'
<1> SUFFICES ASSUME KeyInv, VaultInv, [Next]_startupVars PROVE VaultInv'
  OBVIOUS
<1> USE VaultKeyConstants DEF KeyInv, KeyTypeOK, Alone, Creating, VaultInv, VaultReadable
<1>1. ASSUME NEW p \in Processes, MakeVault(p) PROVE VaultInv'
  BY <1>1 DEF MakeVault, KeyStarts, LookForKey, LoadKey, KeyRefused, OpenKey, WriteKey, vaultVars
<1>2. ASSUME NEW p \in Processes, NewSession(p) \/ Tokenize(p) PROVE VaultInv'
  BY <1>2 DEF NewSession, Tokenize, OpenVault, keyVars
<1>3. ASSUME NEW p \in Processes, WriteVault(p) PROVE VaultInv'
  <2>1. step[p] = "up" /\ (raced \/ (key[p] = key_file /\ key_file \in Keys))
    BY <1>3 DEF WriteVault
  <2>2. vault_torn \/ (vault_file' = key[p] /\ saving' = {})
    BY <1>3 DEF WriteVault
  <2>3. vault_file' \in {key[p], Garbage} /\ key[p] \in Keys \cup {Absent}
    BY <1>3 DEF WriteVault
  <2> QED
    BY <1>3, <2>1, <2>2, <2>3 DEF WriteVault, keyVars
<1>4. ASSUME NEW p \in Processes, BuildRegistry(p) \/ Operate(p) PROVE VaultInv'
  BY <1>4 DEF BuildRegistry, Operate, keyVars, vaultVars
<1>5. ASSUME NEW p \in Processes, Ends(p) PROVE VaultInv'
  <2>1. CASE KeyEnds(p)
    <3>1. CASE p \in saving
      <4>1. vault_file' \in {vault_file, Garbage} /\ vault_torn' = TRUE
        BY <1>5, <3>1 DEF Ends
      <4>2. session' = session \ {p} /\ saving' = saving \ {p}
        BY <1>5 DEF Ends
      <4> QED
        BY <2>1, <4>1, <4>2 DEF KeyEnds
    <3>2. CASE p \notin saving
      <4>1. session' = session \ {p} /\ saving' = saving /\ UNCHANGED <<vault_file, vault_torn>>
        BY <1>5, <3>2 DEF Ends
      <4> QED
        BY <2>1, <3>2, <4>1 DEF KeyEnds
    <3> QED
      BY <3>1, <3>2
  <2>2. CASE step[p] = "down" /\ UNCHANGED keyVars
    <3>1. p \notin saving /\ saving' = saving
      BY <1>5, <2>2 DEF Ends
    <3> QED
      BY <1>5, <2>2, <3>1 DEF Ends, keyVars
  <2> QED
    BY <1>5, <2>1, <2>2 DEF Ends
<1>6. ASSUME NEW p \in Processes, SaveRaises(p) PROVE VaultInv'
  BY <1>6 DEF SaveRaises, keyVars
<1>7. CASE UNCHANGED startupVars
  BY <1>7 DEF startupVars, keyVars, vaultVars
<1> QED
  BY <1>1, <1>2, <1>3, <1>4, <1>5, <1>6, <1>7 DEF Next

THEOREM StartupInv == Spec => [](KeyInv /\ RegistryInv /\ VaultInv)
<1>1. Init => KeyInv /\ RegistryInv /\ VaultInv
  <2>1. Init => VaultInv
    BY DEF Init, KeyInit, VaultInv, VaultReadable
  <2> QED
    BY <2>1, KeyInvInit, RegistryInvInit DEF Init
<1>2. KeyInv /\ RegistryInv /\ VaultInv /\ [Next]_startupVars
        => (KeyInv /\ RegistryInv /\ VaultInv)'
  BY KeyInvStep, RegistryInvStep, VaultInvStep, StepsOfParts
<1> QED
  BY <1>1, <1>2, PTL DEF Spec

\* The variables keep their types, however many processes there are.
THEOREM StartupTypeOK == Spec => []TypeOK
<1>1. KeyInv /\ RegistryInv /\ VaultInv => TypeOK
  BY DEF KeyInv, RegistryInv, VaultInv, TypeOK
<1> QED
  BY <1>1, StartupInv, PTL

\* All vaults have the key of the key file, unless two processes created it at
\* once.
THEOREM KeysAgree == Spec => []KeyAgreement
<1>1. KeyInv => KeyAgreement
  BY DEF KeyInv, Alone, KeyAgreement
<1> QED
  BY <1>1, StartupInv, PTL

\* An empty key file is being written, or its writer has ended.
THEOREM KeyRefusals == Spec => []RefusedForAReason
<1>1. KeyInv => RefusedForAReason
  BY DEF KeyInv
<1> QED
  BY <1>1, StartupInv, PTL

\* The last vault file that any process saved can be read with the key file,
\* unless two processes created the key at once or the last saves overlapped or
\* did not come to their end.
THEOREM VaultsReadable == Spec => []VaultReadable
<1>1. VaultInv => VaultReadable
  BY DEF VaultInv
<1> QED
  BY <1>1, StartupInv, PTL

\* A registry entry is lost only through a stale copy, overlapping saves, or a
\* save that was cut off.
THEOREM EntriesKept == Spec => []NoLostEntry
<1>1. RegistryInv => NoLostEntry
  BY DEF RegistryInv, Undisturbed, NoLostEntry
<1> QED
  BY <1>1, StartupInv, PTL

\* Channel B gives out the profile registered last to every process that nobody
\* has saved after.
THEOREM ChannelBIsCurrent == Spec => []ChannelBCurrent
<1>1. RegistryInv => ChannelBCurrent
  BY DEF RegistryInv, Undisturbed, ChannelBCurrent, GetChannelB
<1> QED
  BY <1>1, StartupInv, PTL

\* An unreadable registry is being written, or a save of it was disturbed.
THEOREM RegistryRefusals == Spec => []UnreadableForAReason
<1>1. RegistryInv => UnreadableForAReason
  BY DEF RegistryInv
<1> QED
  BY <1>1, StartupInv, PTL
=============================================================================
