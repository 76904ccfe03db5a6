SPECIFICATION Spec
CONSTANTS
  main = main
  w1 = w1
  w2 = w2
  w3 = w3
  Threads = {main, w1, w2, w3}
  Main = main
  NoThread = NoThread
  Interruptible = {w1, w2, w3}
INVARIANTS TypeOK LuaIsExclusive RunsWhatItWasGiven LocksAreReleased
SYMMETRY WorkerSymmetry
