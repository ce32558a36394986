SPECIFICATION Spec
CONSTANTS
  Drawn <- Samples
  MaxStrokes = 3
  Others <- Values
  Double <- Doubles
  Unwritable = {odd}
  NaN = NaN
  Colors <- Strings
  Empty = Empty
  None = None
  red = red
  word = word
  digits = digits
  odd = odd
INVARIANTS TypeOK StrokesStayIntact
PROPERTIES CheckpointOrderIsKept FlushedIsCheckpointed
