SPECIFICATION FairSpec
CONSTANTS
  a = a
  b = b
  c = c
  s1 = s1
  s2 = s2
  Coroutines = {a, b, c}
  Clients = {s1, s2}
  Server = Server
  Nil = Nil
  Readers <- OneReader
  Writers <- OneWriter
  Handler <- Handlers
INVARIANTS SetsSound OneQueueEach WaitersCanBeWoken
PROPERTIES WaitingIsResumed
CHECK_DEADLOCK FALSE
