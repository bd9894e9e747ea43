\* programs of one and two parameters, under Python 2 and 3
CONSTANTS
  None = None
  Python <- Pythons
  Signature <- Signatures
  Typed <- NothingTyped
  Values <- TheValues
SPECIFICATION ValuesSpec
INVARIANTS
  ConversionAccepted
\* the program runs or has ended
CHECK_DEADLOCK FALSE
