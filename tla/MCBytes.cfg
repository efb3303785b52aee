SPECIFICATION Spec
CONSTANTS
  BaseSizes = {1, 3}
  ByteBits = 3
  MaxCapacity = 6
  MaxWrites = 2
  Numbers <- MCNumbers
  Strings <- MCStrings
  Types = {"int32", "string16"}
  Lengths = {4}
  Heaps = {6}
  ByteOrder = "little"
INVARIANTS CurrentInStep ReadBack BuffersCover
PROPERTY IsFlatBuffer
CHECK_DEADLOCK FALSE
