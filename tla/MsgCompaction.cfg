SPECIFICATION BufferSpec
CONSTANTS
  Messages <- Exchanged
  Value = 1
  MaxSize = 5
  InitialSize = 5
  Junk = Junk
  MaxSends = 5
INVARIANTS StaysInside
CHECK_DEADLOCK FALSE
