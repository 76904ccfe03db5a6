SPECIFICATION Spec
CONSTANTS
  main = main
  w1 = w1
  w2 = w2
  v1 = v1
  v2 = v2
  m1 = m1
  m2 = m2
  Threads = {main, w1, w2}
  Vms = {v1, v2}
  NoThread = NoThread
  NoVm = NoVm
  VmOf <- Home
  Watch <- WatchedBySender
  Senders <- ToSecond
  Receivers <- FromEach
  Msgs = {m1, m2}
  NoMsg = NoMsg
  MaxMail = 2
INVARIANTS TypeOK NoDeadlock
PROPERTIES ImplementsMailbox
SYMMETRY MsgSymmetry
