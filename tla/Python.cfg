\* programs of one and two parameters, under Python 2 and 3, with all kinds
\* of input; registers of 2, 3, 4 and 6 bits
CONSTANTS
  None = None
  Python <- Pythons
  Signature <- Signatures
  Typed <- TypedTexts
  Values <- TheValues
  Modulus = {4, 8, 16, 64}
  Top = 64
  Power = {1, 2, 4, 8, 16, 32}
  MaxHalves = 70
SPECIFICATION PythonSpec
INVARIANTS
  ReadsBack
  SpelledOut
  HangsOnlyAtTheEnd
  AgreesWithPrimitive
  BitsAgree
  SameBranch
\* a program runs or has ended
CHECK_DEADLOCK FALSE
