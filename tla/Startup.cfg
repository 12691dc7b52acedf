\* Two processes at a time that start, end and start again any number of times,
\* and register two services.
CONSTANTS
  Processes = {p1, p2}
  Keys = {k1, k2, k3}
  Absent = Absent
  Empty = Empty
  Services = {s1, s2}
  Profiles = {f1, f2}
  NoProfile = NoProfile
  NoFile = NoFile
  NoText = NoText
  Garbage = Garbage
SPECIFICATION Spec
SYMMETRY Symmetry
INVARIANTS KeyAgreement RefusedForAReason VaultReadable
INVARIANTS NoLostEntry ChannelBCurrent UnreadableForAReason
