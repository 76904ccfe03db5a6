SPECIFICATION FairSpec
CONSTANTS
  i1 = i1
  i2 = i2
  p1 = p1
  c1 = c1
  c2 = c2
  Events = {i1, i2, p1}
  Names = {"INT"}
  Children = {c1, c2}
  Watches <- Watched
  OneShot = {i2}
INVARIANTS HandlersAgree CountsSignals
PROPERTIES SignalIsCalled ChildIsReported
CHECK_DEADLOCK FALSE
