SPECIFICATION Spec
CONSTANTS
  t1 = t1
  t2 = t2
  t3 = t3
  a = a
  b = b
  c = c
  Threads = {t1, t2, t3}
  Writers = {t1, t2}
  Readers = {t2, t3}
  Items = {a, b, c}
  NoItem = NoItem
  NoThread = NoThread
  Garbage = Garbage
  Marks = {1, 2}
  CallbackSets = {{}, {"empty"}, {"full"}}
  CoWriters = {}
  Interruptible = {t3}
INVARIANTS TypeOK OfferHasItsWriter NwaitsCountsReaders GetBringsData
PROPERTIES ImplementsItemPool
SYMMETRY ItemSymmetry
CHECK_DEADLOCK FALSE
