\* Two threads, as many tokens as values: the smallest vault that never spins.
\* Symmetry is left out, the properties are temporal.
CONSTANTS
  Threads = {t1, t2}
  Values = {v1, v2}
  Tokens = {k1, k2}
  Primes = {p1, p2}
  None = None
  Raised = Raised
  Absent = Absent
  Torn = Torn
SPECIFICATION FairSpec
PROPERTIES ImplementsSessionVault LockReleased VerifyReturns
