\* Three runs behind the canaries, with up to two words, one word and none.  The
\* token "seen" is also a number that occurs in logs; the other tokens are
\* interchangeable.
CONSTANTS
  ip = ip
  host = host
  word = word
  day = day
  key = key
  dsn = dsn
  n = n
  seen = seen
  Tokens = {seen, t1, t2, t3, t4}
  Names <- SomeNames
  Words <- SomeWords
  Canaries <- SomeCanaries
  MaxWords = 2
SYMMETRY FreshTokens
SPECIFICATION Spec
INVARIANTS TypeOK ReleasedIsProven ClearForAReason
INVARIANTS Reversible AlarmForAReason AbandonedAlarmsRunOut
PROPERTY ImplementsSanitizer
\* The session ends when MaxWords is reached, or when the tokens are used up.
CHECK_DEADLOCK FALSE
