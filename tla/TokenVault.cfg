\* Three threads, two values, two tokens, two primes.
CONSTANTS
  Threads = {t1, t2, t3}
  Values = {v1, v2}
  Tokens = {k1, k2}
  Primes = {p1, p2}
  None = None
  Raised = Raised
  Absent = Absent
  Torn = Torn
SPECIFICATION Spec
SYMMETRY Symmetry
INVARIANTS Bijective ProofsCurrent VerifyLinearizable FileCurrent
PROPERTIES MappingStable
