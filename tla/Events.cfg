SPECIFICATION FairSpec
CONSTANTS
  f1 = f1
  f2 = f2
  t1 = t1
  o1 = o1
  FdEvents = {f1, f2}
  TimerEvents = {t1}
  ObjectEvents = {o1}
  Nil = Nil
  OneShot = {f1}
  Deadlines = {t1}
  Fd <- Numbers
  PipeFd = 4
  Limits = {TRUE}
  Changed = {f1}
  Failing = {f1}
INVARIANTS ReadyListsSound CountsEvents PollsAreKnown FoundAreListed TriggersWake
PROPERTIES ImplementsDispatcher SelectHearsPipe TriggeredIsCalled
CHECK_DEADLOCK FALSE
