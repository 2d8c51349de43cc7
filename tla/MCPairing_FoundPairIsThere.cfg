SPECIFICATION Spec
CONSTANTS
  a0 = a0
  b0 = b0
  a1 = a1
  a2 = a2
  a3 = a3
  a4 = a4
  a5 = a5
  b1 = b1
  b2 = b2
  none = none
  Keys <- MCKeys
  Messages <- MCMessages
  KeyOf <- MCKeyOf
  NoMsg <- none
CHECK_DEADLOCK FALSE
INVARIANT
  FoundPairIsThere
