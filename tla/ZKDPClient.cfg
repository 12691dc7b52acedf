\* Four sends against a cache of two nonces: it overflows, and the other side
\* can repeat answers that the cache has forgotten.
CONSTANTS
  MaxSends = 4
  Requests <- MCRequests
  Sessions = {s1, s2}
  Nonces = {n1, n2}
  Confidences <- SomeConfidences
  NaN = NaN
  Vectors <- SomeVectors
  Fallbacks <- SomeFallbacks
  CacheSize = 2
  MaxAdmitted = 4
  None = None
SPECIFICATION ClientSpec
INVARIANTS
  ClientTypeOK AnswersThisRequest ContextFirst FailsClosed JudgedOnce CacheCoherent
PROPERTIES ReplayWindow
\* The client stops after MaxSends sends.
CHECK_DEADLOCK FALSE
