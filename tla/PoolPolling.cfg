SPECIFICATION PollingSpec
CONSTANTS
  t1 = t1
  t2 = t2
  t3 = t3
  a = a
  b = b
  c = c
  Threads = {t1, t2, t3}
  Writers = {t1, t2}
  Readers = {t3}
  Items = {a, b, c}
  NoItem = NoItem
  NoThread = NoThread
  Garbage = Garbage
  Marks = {1}
  CallbackSets = {{"full"}, {}}
  CoWriters = {}
  Interruptible = {}
INVARIANTS AtMostOneOver
PROPERTIES StoredIsRead
CHECK_DEADLOCK FALSE
