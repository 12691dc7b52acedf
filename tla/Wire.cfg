\* Every answer that differs from an honest one in two places.
CONSTANTS
  NaN = NaN
  PayloadHash = PayloadHash
  RequestHash = RequestHash
  Empty = Empty
  NotAscii = NotAscii
  Other = Other
  MaxEdits = 2
SPECIFICATION Spec
INVARIANTS TypeOK GatesAgree OneReading ReadOnlyProven
\* One response is read.
CHECK_DEADLOCK FALSE
