--------------------------- MODULE ServiceRegistry ---------------------------
(***************************************************************************)
(* registry/registry.py, class ServiceRegistry: a process loads the whole  *)
(* registry or creates it, changes its copy and writes the whole of it     *)
(* back over the file.  Nothing locks the file, and a process may end      *)
(* between two steps.                                                      *)
(*                                                                         *)
(* A registry is what it says of the service tokens; an entry is a profile *)
(* (the three IDs), NoProfile is {"SC": 0, "KI": 0, "FC": 0}.  The tables  *)
(* of classes, issues and fixes are constants and are left out.            *)
(***************************************************************************)
EXTENDS Machine

CONSTANTS Services,   \* service tokens
          Profiles,   \* what register_service is called with
          NoProfile,
          NoFile, NoText, Garbage  \* no file; an empty one; one that is no JSON

Registries == [Services -> Profiles \cup {NoProfile}]
NoServices == [s \in Services |-> NoProfile]

ASSUME RegistryConstants ==
  /\ NoProfile \notin Profiles
  /\ NoFile # NoText /\ NoText # Garbage /\ Garbage # NoFile
  /\ Registries \cap {NoFile, NoText, Garbage} = {}

VARIABLES file,   \* what REGISTRY_PATH holds
          at,     \* where each process is
          copy,   \* _registry["services"] of each process
          fresh,  \* (history) processes that read the file or wrote it after
                  \* everybody else's last write
          saved,  \* (history) the profile registered last for each service
          lost,   \* (history) somebody saved a copy that was not fresh
          torn    \* (history) saves overlapped, or one was cut off

registryVars == <<file, at, copy, fresh, saved, lost, torn>>

Writing(p) == at[p] = "opened"

RegistryInit ==
  /\ file = NoFile
  /\ at = [p \in Processes |-> "off"]
  /\ copy = [p \in Processes |-> NoServices]
  /\ fresh = {} /\ saved = NoServices
  /\ lost = FALSE /\ torn = FALSE

LookForRegistry(p) ==
  /\ at[p] = "off"
  /\ at' = [at EXCEPT ![p] = IF file = NoFile THEN "missing" ELSE "exists"]
  /\ fresh' = IF file = NoFile THEN fresh \cup {p} ELSE fresh
  /\ UNCHANGED <<file, copy, saved, lost, torn>>

LoadRegistry(p) ==
  /\ at[p] = "exists" /\ file \in Registries
  /\ at' = [at EXCEPT ![p] = "ready"]
  /\ copy' = [copy EXCEPT ![p] = file]
  /\ fresh' = fresh \cup {p}
  /\ UNCHANGED <<file, saved, lost, torn>>

\* json.load raises, and so does ServiceRegistry().
RegistryRefused(p) ==
  /\ at[p] = "exists" /\ file \notin Registries
  /\ at' = [at EXCEPT ![p] = "off"]
  /\ UNCHANGED <<file, copy, fresh, saved, lost, torn>>

\* _save opens the file, which truncates it.
OpenRegistry(p) ==
  /\ at' = [at EXCEPT ![p] = "opened"]
  /\ file' = NoText
  /\ torn' = (torn \/ \E q \in Processes : Writing(q))
  /\ lost' = (lost \/ p \notin fresh)

CreateRegistry(p) ==
  /\ at[p] = "missing"
  /\ OpenRegistry(p)
  /\ copy' = [copy EXCEPT ![p] = NoServices]
  /\ UNCHANGED <<fresh, saved>>

RegisterServiceMutant(p, service, profile) ==  \* only this entry is written
  /\ at[p] = "ready"
  /\ copy' = [copy EXCEPT ![p] = [NoServices EXCEPT ![service] = profile]]
  /\ OpenRegistry(p)
  /\ saved' = [saved EXCEPT ![service] = profile]
  /\ UNCHANGED fresh

RegisterService(p, service, profile) ==
  /\ at[p] = "ready"
  /\ copy' = [copy EXCEPT ![p][service] = profile]
  /\ OpenRegistry(p)
  /\ saved' = [saved EXCEPT ![service] = profile]
  /\ UNCHANGED fresh

WriteRegistryMutant(p) ==  \* the process goes on before the file is closed
  /\ Writing(p)
  /\ at' = [at EXCEPT ![p] = "ready"]
  /\ fresh' = {p}
  /\ UNCHANGED <<file, copy, saved, lost, torn>>

\* What is left of a longer text that somebody else wrote since the file was
\* opened spoils it.
WriteRegistry(p) ==
  /\ Writing(p)
  /\ at' = [at EXCEPT ![p] = "ready"]
  /\ file' \in {copy[p]} \cup (IF file = NoText THEN {} ELSE {Garbage})
  /\ fresh' = {p}
  /\ UNCHANGED <<copy, saved, lost, torn>>

\* The process ends, by itself or by a crash; if it was writing, part of the
\* text may have reached the file.
RegistryEnds(p) ==
  /\ at[p] # "off"
  /\ at' = [at EXCEPT ![p] = "off"]
  /\ fresh' = fresh \ {p}
  /\ IF Writing(p)
       THEN file' \in {file, Garbage} /\ torn' = TRUE
       ELSE UNCHANGED <<file, torn>>
  /\ UNCHANGED <<copy, saved, lost>>

RegistryStarts(p) ==
  LookForRegistry(p) \/ LoadRegistry(p) \/ RegistryRefused(p) \/ CreateRegistry(p)
    \/ WriteRegistry(p)

RegistryStep(p) ==
  \/ RegistryStarts(p)
  \/ \E service \in Services, profile \in Profiles : RegisterService(p, service, profile)

RegistryNext == \E p \in Processes : RegistryStep(p) \/ RegistryEnds(p)

RegistrySpec == RegistryInit /\ [][RegistryNext]_registryVars

GetChannelBMutant(p, service) == NoProfile  \* JSON has made its keys strings

GetChannelB(p, service) == copy[p][service]

-----------------------------------------------------------------------------
(* Properties *)

RegistryTypeOK ==
  /\ file \in Registries \cup {NoFile, NoText, Garbage}
  /\ at \in [Processes -> {"off", "missing", "exists", "opened", "ready"}]
  /\ copy \in [Processes -> Registries]
  /\ fresh \subseteq Processes
  /\ saved \in Registries
  /\ lost \in BOOLEAN /\ torn \in BOOLEAN

\* Once a save has returned, the entry it was for is lost only through a process
\* that saved a copy older than it, a save that another one overlapped, or one
\* that was cut off.
NoLostEntry ==
  file \in Registries => file = saved \/ lost \/ torn

\* What Channel B says of a service is what was registered for it last, for a
\* process that nobody has saved after.
ChannelBCurrent ==
  \A p \in fresh, service \in Services :
    at[p] = "ready" /\ (\A q \in Processes : ~ Writing(q)) =>
      GetChannelB(p, service) = saved[service] \/ lost \/ torn

\* The registry cannot be read only while a process is writing it, or after
\* saves overlapped or one was cut off.
UnreadableForAReason ==
  file \in {NoText, Garbage} => torn \/ \E p \in Processes : Writing(p)
=============================================================================
