SPECIFICATION Spec
CONSTANTS
  Kinds = {"request", "response", "message"}
  MaxBuffers <- MCBuffers
  Words = {"connection", "content-length", "x"}
  Spellings = {"lower", "upper"}
  MaxBody = 2
  MaxEdits = 4
INVARIANTS WholeTokens FieldWhole HeadEnds DumpReadsBack
CHECK_DEADLOCK FALSE
