----------------------------- MODULE VmThreads -----------------------------
(* The threads of one VM (luasys-MOD/src/sys_thread.c): the VM mutex that a    *)
(* thread holds while it runs Lua code, the life of a thread from thread.run   *)
(* to its end, thread.interrupt, thread.yield and thread.sleep, and the event  *)
(* of thread_sync.c (a condition variable with a lock of its own, cs).         *)
(* Module DataPool takes from here that the code between two points where a    *)
(* thread gives up the VM is one step.                                         *)
EXTENDS FiniteSets

CONSTANTS Threads, Main, NoThread,
          Interruptible   \* threads that thread.interrupt is called on

ASSUME VmAssumption == /\ Main \in Threads /\ NoThread \notin Threads
                       /\ Interruptible \subseteq Threads \ {Main}

VARIABLES owner,       \* who holds the VM mutex
          cs,          \* who holds the lock of the event
          pc,          \* where each thread stands
          made,        \* the thread that a thread_run under way has made
          ready,       \* threads in the table of threads, function and arguments moved
          interrupted, \* td->interrupted
          exit         \* why the process has ended, if it has

vars == <<owner, cs, pc, made, ready, interrupted, exit>>

Places == {"absent",
           "start",     \* a new thread, at its first sys_vm_enter
           "lua",       \* runs Lua code
           "moving",    \* in thread_run, behind pthread_create
           "enter",     \* at the sys_vm_enter that ends a wait, yield or sleep
           "evlock",    \* in thread_event_wait, at the lock of the event
           "waiting",   \* in pthread_cond_wait
           "relock",    \* woken, at the lock of the event again
           "evunlock",  \* about to unlock the event
           "siglock",   \* in thread_event_signal, at the lock of the event
           "signal",    \* there, holding it
           "ending",    \* behind the lua_pcall of thread_start
           "done"}

TypeOK == /\ owner \in Threads \cup {NoThread}
          /\ cs \in Threads \cup {NoThread}
          /\ pc \in [Threads -> Places]
          /\ made \in [Threads -> Threads \cup {NoThread}]
          /\ ready \in SUBSET Threads
          /\ interrupted \in [Threads -> BOOLEAN]
          /\ exit \in {"no", "error", "interrupt"}

\* thread_init has run in the main thread.
Init == /\ owner = Main /\ cs = NoThread
        /\ pc = [t \in Threads |-> IF t = Main THEN "lua" ELSE "absent"]
        /\ made = [t \in Threads |-> NoThread]
        /\ ready = {Main}
        /\ interrupted = [t \in Threads |-> FALSE]
        /\ exit = "no"

Goes(t, from, to) == /\ exit = "no"
                     /\ pc[t] = from
                     /\ pc' = [pc EXCEPT ![t] = to]

-----------------------------------------------------------------------------
(* thread_run *)

\* As it would be if the new thread were not noted down.
CreateUnnoted(t, u) ==
  /\ exit = "no" /\ pc[t] = "lua" /\ pc[u] = "absent"
  /\ pc' = [pc EXCEPT ![t] = "moving", ![u] = "start"]
  /\ UNCHANGED <<owner, cs, made, ready, interrupted, exit>>

\* pthread_create: the new thread runs at once, as far as its sys_vm_enter.
Create(t, u) ==
  /\ exit = "no" /\ pc[t] = "lua" /\ pc[u] = "absent"
  /\ pc' = [pc EXCEPT ![t] = "moving", ![u] = "start"]
  /\ made' = [made EXCEPT ![t] = u]
  /\ UNCHANGED <<owner, cs, ready, interrupted, exit>>

\* Save the thread in the table, move function and arguments to it.
MoveArguments(t) ==
  /\ Goes(t, "moving", "lua")
  /\ ready' = ready \cup {made[t]}
  /\ made' = [made EXCEPT ![t] = NoThread]
  /\ UNCHANGED <<owner, cs, interrupted, exit>>

-----------------------------------------------------------------------------
(* sys_vm_enter, sys_vm_leave *)

\* As it would be if the mutex were let go while the arguments are moved.
EnterBesideRun(t) ==
  /\ exit = "no" /\ pc[t] \in {"start", "enter"}
  /\ owner \in {NoThread} \cup {u \in Threads : pc[u] = "moving"}
  /\ owner' = t
  /\ ~interrupted[t] /\ pc' = [pc EXCEPT ![t] = "lua"]
  /\ UNCHANGED <<cs, made, ready, interrupted, exit>>

Enter(t) ==
  /\ exit = "no" /\ pc[t] \in {"start", "enter"}
  /\ owner = NoThread
  /\ owner' = t
  /\ ~interrupted[t] /\ pc' = [pc EXCEPT ![t] = "lua"]
  /\ UNCHANGED <<cs, made, ready, interrupted, exit>>

\* The mutex is taken, then lua_error: the error ends the thread's function, or
\* a pcall of that function catches it and Lua code goes on.
EnterRaises(t) ==
  /\ exit = "no" /\ pc[t] = "enter" /\ interrupted[t]
  /\ owner = NoThread
  /\ owner' = t
  /\ \E to \in {"ending", "lua"} : pc' = [pc EXCEPT ![t] = to]
  /\ UNCHANGED <<cs, made, ready, interrupted, exit>>

\* The first sys_vm_enter comes before the lua_pcall of thread_start: nothing
\* catches the error, and lua_error ends the process.
StartRaises(t) ==
  /\ exit = "no" /\ pc[t] = "start" /\ interrupted[t]
  /\ owner = NoThread
  /\ owner' = t
  /\ exit' = "interrupt"
  /\ UNCHANGED <<cs, pc, made, ready, interrupted>>

\* thread_yield, thread_sleep: sys_vm_leave, and sys_vm_enter after it.
GiveUp(t) == /\ Goes(t, "lua", "enter")
             /\ owner' = NoThread
             /\ UNCHANGED <<cs, made, ready, interrupted, exit>>

-----------------------------------------------------------------------------
(* thread_event_wait and thread_event_signal *)

LeaveForEvent(t) == /\ Goes(t, "lua", "evlock")
                    /\ owner' = NoThread
                    /\ UNCHANGED <<cs, made, ready, interrupted, exit>>

\* Lock the event, and give the lock up in pthread_cond_wait.
WaitForEvent(t) == /\ cs = NoThread /\ Goes(t, "evlock", "waiting")
                   /\ UNCHANGED <<owner, cs, made, ready, interrupted, exit>>

\* A signal, the timeout, or neither: pthread_cond_wait may return unasked.
Wake(t) == /\ Goes(t, "waiting", "relock")
           /\ UNCHANGED <<owner, cs, made, ready, interrupted, exit>>

Relock(t) == /\ cs = NoThread /\ Goes(t, "relock", "evunlock")
             /\ cs' = t
             /\ UNCHANGED <<owner, made, ready, interrupted, exit>>

\* As it would be if the wait returned without its sys_vm_enter.
UnlockEventOutsideVm(t) == /\ Goes(t, "evunlock", "lua")
                           /\ cs' = NoThread
                           /\ UNCHANGED <<owner, made, ready, interrupted, exit>>

\* As it would be with sys_vm_enter before pthread_mutex_unlock.
UnlockEventInsideVm(t) == /\ Goes(t, "evunlock", "enter")
                          /\ UNCHANGED <<owner, cs, made, ready, interrupted, exit>>

UnlockEvent(t) == /\ Goes(t, "evunlock", "enter")
                  /\ cs' = NoThread
                  /\ UNCHANGED <<owner, made, ready, interrupted, exit>>

BeginSignal(t) == /\ Goes(t, "lua", "siglock")
                  /\ UNCHANGED <<owner, cs, made, ready, interrupted, exit>>

LockForSignal(t) == /\ cs = NoThread /\ Goes(t, "siglock", "signal")
                    /\ cs' = t
                    /\ UNCHANGED <<owner, made, ready, interrupted, exit>>

\* What the signal does to a waiting thread is Wake.
Signal(t) == /\ Goes(t, "signal", "lua")
             /\ cs' = NoThread
             /\ UNCHANGED <<owner, made, ready, interrupted, exit>>

-----------------------------------------------------------------------------
(* thread_interrupt, the end of thread_start *)

\* The signal that is sent along is ignored: only the flag matters.
Interrupt(t, u) ==
  /\ exit = "no" /\ pc[t] = "lua" /\ u \in ready
  /\ interrupted' = [interrupted EXCEPT ![u] = TRUE]
  /\ UNCHANGED <<owner, cs, pc, made, ready, exit>>

Finish(t) == /\ t # Main /\ Goes(t, "lua", "ending")
             /\ UNCHANGED <<owner, cs, made, ready, interrupted, exit>>

\* Any other error of a thread's function: lua_error, outside every pcall.
Fail(t) == /\ exit = "no" /\ pc[t] = "lua" /\ t # Main
           /\ exit' = "error"
           /\ UNCHANGED <<owner, cs, pc, made, ready, interrupted>>

\* Notify the event queue, leave the table of threads, leave the VM.
End(t) == /\ Goes(t, "ending", "done")
          /\ ready' = ready \ {t}
          /\ owner' = NoThread
          /\ UNCHANGED <<cs, made, interrupted, exit>>

-----------------------------------------------------------------------------

Step(t) == \/ MoveArguments(t) \/ Enter(t) \/ EnterRaises(t) \/ StartRaises(t)
           \/ GiveUp(t) \/ LeaveForEvent(t) \/ WaitForEvent(t) \/ Wake(t)
           \/ Relock(t) \/ UnlockEvent(t) \/ BeginSignal(t) \/ LockForSignal(t)
           \/ Signal(t) \/ Finish(t) \/ Fail(t) \/ End(t)

Exited == exit # "no" /\ UNCHANGED vars

Next == \/ \E t \in Threads : Step(t)
        \/ \E t, u \in Threads : Create(t, u)
        \/ \E t \in Threads, u \in Interruptible : Interrupt(t, u)
        \/ Exited

Spec == Init /\ [][Next]_vars

-----------------------------------------------------------------------------
(* Safety *)

InVm == {"lua", "moving", "siglock", "signal", "ending"}

\* Whatever the interleaving of waits, yields, interrupts and new threads, the
\* Lua state is touched by the holder of the VM mutex only, and so by one thread.
LuaIsExclusive == \A t \in Threads : pc[t] \in InVm => owner = t

\* "New thread blocked in sys_vm_enter": a thread runs its function only when
\* thread_run has saved it from the collector and moved its arguments.
RunsWhatItWasGiven == \A t \in Threads : pc[t] \in InVm => t \in ready

WantsVm(t) == pc[t] \in {"start", "enter"}
WantsEvent(t) == pc[t] \in {"evlock", "relock", "siglock"}

\* No deadlock over the two locks: who holds the lock of the event waits for no
\* lock, and who holds the VM waits for that one at most.
LocksAreReleased ==
  exit = "no" => \A t \in Threads : /\ cs = t => ~WantsVm(t) /\ ~WantsEvent(t)
                                    /\ owner = t => ~WantsVm(t)
=============================================================================
