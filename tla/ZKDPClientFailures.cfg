\* The exceptions that leave the client.
CONSTANTS
  MaxSends = 3
  Requests <- MCRequests
  Sessions = {s1, s2}
  Nonces = {n1, n2}
  Confidences <- SomeConfidences
  NaN = NaN
  Vectors <- SomeVectors
  Fallbacks <- SomeFallbacks
  CacheSize = 1
  MaxAdmitted = 3
  None = None
SPECIFICATION ClientSpec
INVARIANTS FailuresAreRaised
\* The client stops after MaxSends sends.
CHECK_DEADLOCK FALSE
