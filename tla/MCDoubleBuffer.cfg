SPECIFICATION FairSpec
CONSTANTS
  Readers = {r1, r2}
  Fields = {f1}
  Values = {0, 1}
  Zero = 0
  MaxSeq = 2
INVARIANT BufferInv
PROPERTIES ReadCoversSeq IsRegister Progress
CHECK_DEADLOCK FALSE
