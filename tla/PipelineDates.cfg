\* A single word is enough to show what becomes of a date.
CONSTANTS
  ip = ip
  host = host
  word = word
  day = day
  key = key
  dsn = dsn
  n = n
  seen = seen
  Tokens = {seen, t1, t2, t3}
  Names <- SomeNames
  Words <- SomeWords
  Canaries <- SomeCanaries
  MaxWords = 1
SYMMETRY FreshTokens
SPECIFICATION Spec
INVARIANT DatesReachTransformer
\* The session ends when MaxWords is reached, or when the tokens are used up.
CHECK_DEADLOCK FALSE
