\* Bodies and answers longer than a buffer of two bytes.
CONSTANTS
  BufferSize = 2
  MaxBody = 3
  MaxAnswer = 4
SPECIFICATION FairSpec
CHECK_DEADLOCK FALSE
INVARIANTS
  HandledOnce
  StateFreedOnce
  AnsweredInOrder
PROPERTIES
  Ends
