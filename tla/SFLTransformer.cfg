\* Two threads and three calls; every text of three lines.
CONSTANTS
  Threads = {t1, t2}
  MaxCalls = 3
  None = None
  NoTime = NoTime
  Lines <- SomeLines
  MaxLines = 3
SPECIFICATION Spec
SYMMETRY Symmetry
INVARIANTS SeqOrdered ScaleIsGap TypeFitsMagnitude MagnitudeSound
\* The threads stop after MaxCalls calls.
CHECK_DEADLOCK FALSE
