SPECIFICATION Spec
CONSTANTS
  ByteBits = 2
  WordBytes = 4
  IntBits = 4
INVARIANTS
  TypeOK
  SampleIsMeaning
CHECK_DEADLOCK FALSE
