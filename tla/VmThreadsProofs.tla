-------------------------- MODULE VmThreadsProofs --------------------------
(* The locks of a VM, for any number of threads. *)
EXTENDS VmThreads, TLAPS

(* While the process lives, a lock has a holder at the places of the code that *)
(* hold it, and only there.                                                    *)
VmHolder == exit = "no" => \A t \in Threads : owner = t => pc[t] \in InVm
EventHolder == \A t \in Threads : cs = t <=> pc[t] \in {"evunlock", "signal"}

(* Behind its first sys_vm_enter a thread is in the table; before it, it is    *)
(* there too, or the thread that made it is still in thread_run.               *)
Made == \A t \in Threads :
          /\ pc[t] \notin {"absent", "start", "done"} => t \in ready
          /\ pc[t] = "start" /\ t \notin ready =>
               \E u \in Threads : pc[u] = "moving" /\ made[u] = t
          /\ pc[t] = "moving" => made[t] \in Threads

IInv == TypeOK /\ LuaIsExclusive /\ VmHolder /\ EventHolder /\ Made

LEMMA InitHolds == Init => IInv
BY VmAssumption DEF Init, IInv, TypeOK, LuaIsExclusive, VmHolder, EventHolder,
  Made, Places, InVm

(* Most steps move one thread along and touch neither the table nor the        *)
(* threads being made.                                                         *)
LEMMA PlainStep ==
  ASSUME IInv, NEW t \in Threads, NEW from \in Places, NEW to \in Places,
         Goes(t, from, to), UNCHANGED <<made, ready, interrupted, exit>>,
         from \notin {"absent", "start", "moving", "done"},
         to \notin {"absent", "start", "moving", "done"},
         \/ cs' = cs /\ from \notin {"evunlock", "signal"} /\ to \notin {"evunlock", "signal"}
         \/ cs = NoThread /\ cs' = t /\ to \in {"evunlock", "signal"}
         \/ cs' = NoThread /\ from \in {"evunlock", "signal"}
                           /\ to \notin {"evunlock", "signal"},
         \/ owner' = owner /\ (from \in InVm <=> to \in InVm)
         \/ owner' = NoThread /\ from \in InVm /\ to \notin InVm
  PROVE  IInv'
<1>1. pc[t] = from /\ pc'[t] = to /\ \A u \in Threads \ {t} : pc'[u] = pc[u]
  BY DEF Goes, IInv, TypeOK
<1>2. TypeOK'
  BY DEF Goes, IInv, TypeOK
<1>3. LuaIsExclusive'
  BY <1>1 DEF IInv, LuaIsExclusive
<1>4. VmHolder'
  BY <1>1, VmAssumption DEF IInv, VmHolder
<1>5. EventHolder'
  BY <1>1, VmAssumption DEF IInv, EventHolder
<1>6. Made'
  BY <1>1 DEF IInv, Made
<1> QED
  BY <1>2, <1>3, <1>4, <1>5, <1>6 DEF IInv

LEMMA CreateKeeps ==
  ASSUME IInv, NEW t \in Threads, NEW u \in Threads, Create(t, u)
  PROVE  IInv'
<1>1. /\ pc'[t] = "moving" /\ pc'[u] = "start" /\ t # u /\ made'[t] = u
      /\ \A v \in Threads \ {t, u} : pc'[v] = pc[v]
      /\ \A v \in Threads \ {t} : made'[v] = made[v]
      /\ pc[t] = "lua" /\ pc[u] = "absent"
  BY DEF Create, IInv, TypeOK
<1>2. TypeOK'
  BY DEF Create, IInv, TypeOK, Places
<1>3. LuaIsExclusive' /\ VmHolder' /\ EventHolder'
  BY <1>1 DEF Create, IInv, LuaIsExclusive, VmHolder, EventHolder, InVm
<1>4. \A v \in Threads : pc[v] # "moving"
  BY <1>1 DEF IInv, LuaIsExclusive, InVm
<1>5. Made'
  BY <1>1, <1>4 DEF Create, IInv, Made
<1> QED
  BY <1>2, <1>3, <1>5 DEF IInv

LEMMA MoveArgumentsKeeps ==
  ASSUME IInv, NEW t \in Threads, MoveArguments(t)
  PROVE  IInv'
<1>1. /\ pc[t] = "moving" /\ pc'[t] = "lua" /\ made[t] \in Threads
      /\ \A v \in Threads \ {t} : pc'[v] = pc[v] /\ made'[v] = made[v]
  BY DEF MoveArguments, Goes, IInv, TypeOK, Made
<1>2. TypeOK'
  BY <1>1 DEF MoveArguments, Goes, IInv, TypeOK, Places
<1>3. LuaIsExclusive' /\ VmHolder' /\ EventHolder'
  BY <1>1 DEF MoveArguments, IInv, LuaIsExclusive, VmHolder, EventHolder, InVm
<1>4. \A v \in Threads \ {t} : pc[v] # "moving"
  BY <1>1 DEF IInv, LuaIsExclusive, InVm
<1>5. Made'
  BY <1>1, <1>4 DEF MoveArguments, IInv, Made
<1> QED
  BY <1>2, <1>3, <1>5 DEF IInv

(* Who gets the free mutex finds no thread in thread_run. *)
LEMMA EnterKeeps ==
  ASSUME IInv, NEW t \in Threads, NEW to \in {"lua", "ending"},
         exit = "no", pc[t] \in {"start", "enter"}, owner = NoThread, owner' = t,
         pc' = [pc EXCEPT ![t] = to], UNCHANGED <<cs, made, ready, interrupted, exit>>
  PROVE  IInv'
<1>1. pc'[t] = to /\ \A v \in Threads \ {t} : pc'[v] = pc[v]
  BY DEF IInv, TypeOK
<1>2. \A v \in Threads : pc[v] \notin InVm
  BY VmAssumption DEF IInv, LuaIsExclusive
<1>3. t \in ready
  BY <1>2 DEF IInv, Made, InVm
<1>4. TypeOK'
  BY DEF IInv, TypeOK, Places
<1>5. LuaIsExclusive' /\ VmHolder' /\ EventHolder'
  BY <1>1, <1>2 DEF IInv, LuaIsExclusive, VmHolder, EventHolder, InVm
<1>6. Made'
  BY <1>1, <1>3 DEF IInv, Made
<1> QED
  BY <1>4, <1>5, <1>6 DEF IInv

LEMMA EndKeeps ==
  ASSUME IInv, NEW t \in Threads, End(t)
  PROVE  IInv'
<1>1. /\ pc[t] = "ending" /\ pc'[t] = "done" /\ owner = t
      /\ \A v \in Threads \ {t} : pc'[v] = pc[v]
  BY DEF End, Goes, IInv, TypeOK, LuaIsExclusive, InVm
<1>2. TypeOK'
  BY DEF End, Goes, IInv, TypeOK, Places
<1>3. LuaIsExclusive' /\ VmHolder' /\ EventHolder'
  BY <1>1, VmAssumption DEF End, IInv, LuaIsExclusive, VmHolder, EventHolder, InVm
<1>4. Made'
  BY <1>1 DEF End, IInv, Made
<1> QED
  BY <1>2, <1>3, <1>4 DEF IInv

LEMMA StepKeeps == IInv /\ [Next]_vars => IInv'
<1> SUFFICES ASSUME IInv, [Next]_vars PROVE IInv'
  OBVIOUS
<1>1. ASSUME NEW t \in Threads, Step(t) PROVE IInv'
  <2>1. CASE MoveArguments(t)
    BY <2>1, MoveArgumentsKeeps
  <2>2. CASE Enter(t)
    BY <2>2, EnterKeeps DEF Enter
  <2>3. CASE EnterRaises(t)
    BY <2>3, EnterKeeps DEF EnterRaises
  <2>4. CASE StartRaises(t) \/ Fail(t)
    BY <2>4, VmAssumption DEF StartRaises, Fail, IInv, TypeOK, LuaIsExclusive, VmHolder,
      EventHolder, Made
  <2>5. CASE GiveUp(t)
    BY <2>5, PlainStep DEF GiveUp, Places, InVm
  <2>6. CASE LeaveForEvent(t)
    BY <2>6, PlainStep DEF LeaveForEvent, Places, InVm
  <2>7. CASE WaitForEvent(t) \/ Wake(t)
    BY <2>7, PlainStep DEF WaitForEvent, Wake, Places, InVm
  <2>8. CASE Relock(t)
    BY <2>8, PlainStep DEF Relock, Places, InVm
  <2>9. CASE UnlockEvent(t)
    BY <2>9, PlainStep DEF UnlockEvent, Places, InVm
  <2>10. CASE BeginSignal(t) \/ Finish(t)
    BY <2>10, PlainStep DEF BeginSignal, Finish, Places, InVm
  <2>11. CASE LockForSignal(t)
    BY <2>11, PlainStep DEF LockForSignal, Places, InVm
  <2>12. CASE Signal(t)
    BY <2>12, PlainStep DEF Signal, Places, InVm
  <2>13. CASE End(t)
    BY <2>13, EndKeeps
  <2> QED
    BY <1>1, <2>1, <2>2, <2>3, <2>4, <2>5, <2>6, <2>7, <2>8, <2>9, <2>10, <2>11,
       <2>12, <2>13 DEF Step
<1>2. ASSUME NEW t \in Threads, NEW u \in Threads, Create(t, u) PROVE IInv'
  BY <1>2, CreateKeeps
<1>3. ASSUME NEW t \in Threads, NEW u \in Interruptible, Interrupt(t, u) PROVE IInv'
  BY <1>3, VmAssumption DEF Interrupt, IInv, TypeOK, LuaIsExclusive, VmHolder,
    EventHolder, Made
<1>4. CASE UNCHANGED vars
  BY <1>4 DEF vars, IInv, TypeOK, LuaIsExclusive, VmHolder, EventHolder, Made
<1> QED
  BY <1>1, <1>2, <1>3, <1>4 DEF Next, Exited

(* Mutual exclusion of the VM: only the holder of the mutex touches the Lua    *)
(* state, for any number of threads, waits, signals and interrupts.            *)
THEOREM VmIsExclusive == Spec => []LuaIsExclusive
<1>1. IInv => LuaIsExclusive
  BY DEF IInv
<1> QED
  BY <1>1, InitHolds, StepKeeps, PTL DEF Spec

(* A new thread runs no function before thread_run has moved it over, though   *)
(* thread_run starts the thread first.                                         *)
THEOREM VmRunsWhatItWasGiven == Spec => []RunsWhatItWasGiven
<1>1. IInv => RunsWhatItWasGiven
  BY DEF IInv, Made, RunsWhatItWasGiven, InVm
<1> QED
  BY <1>1, InitHolds, StepKeeps, PTL DEF Spec

(* The VM mutex and the lock of the event cannot deadlock: the holder of the   *)
(* inner lock never waits, the holder of the outer one waits for the inner.    *)
THEOREM VmLocksAreReleased == Spec => []LocksAreReleased
<1>1. IInv => LocksAreReleased
  BY DEF IInv, VmHolder, EventHolder, LocksAreReleased, WantsVm, WantsEvent, InVm
<1> QED
  BY <1>1, InitHolds, StepKeeps, PTL DEF Spec

(* The variables of a VM keep their types. *)
THEOREM VmTypeOK == Spec => []TypeOK
<1>1. IInv => TypeOK
  BY DEF IInv
<1> QED
  BY <1>1, InitHolds, StepKeeps, PTL DEF Spec
=============================================================================
