----------------------------- MODULE VmMessages -----------------------------
(* Messages between VMs (luasys-MOD/src/thread/thread_msg.c), with the locks   *)
(* they take: the mutex of the VM a thread runs in (sys_thread.c), the lock cs *)
(* of the event of the box, and the mutex of the VM whose event queue watches  *)
(* the box (sys_trigger_objevent in sys_evq.c).                                *)
(*                                                                             *)
(* An action is the code between two points where the thread can block or be   *)
(* overtaken.  msg_send and msg_recv work on a copy of the struct of the box    *)
(* (buf = vmtd->buffer, then vmtd->buffer = buf), so what they read and what    *)
(* they write are steps of their own, with the lock between them; a lock that   *)
(* is taken for one look, and given back, is not.  The bytes of a box are the   *)
(* subject of MsgBuffer.                                                        *)
EXTENDS Naturals, Sequences, FiniteSets, Functions

CONSTANTS Threads, Vms, NoThread, NoVm,
          VmOf,        \* the VM of each thread
          Watch,       \* the VM whose event queue watches the box of a VM, or NoVm
          Senders,     \* the threads that send, by the VM they send to
          Receivers,   \* the threads that receive or count, by the box
          Msgs, NoMsg,
          MaxMail      \* bound: the messages in a box

ASSUME MessagesAssumption ==
  /\ NoThread \notin Threads /\ NoVm \notin Vms /\ NoMsg \notin Msgs
  /\ VmOf \in [Threads -> Vms]
  /\ Watch \in [Vms -> Vms \cup {NoVm}]
  /\ Senders \in [Vms -> SUBSET Threads]
  /\ Receivers \in [Vms -> SUBSET Threads]
  /\ MaxMail \in Nat

VARIABLES vm,      \* who holds the mutex of each VM
          cs,      \* who holds the lock of each box
          mail,    \* the messages in each box; buffer.nmsg is its length
          active,  \* the boxes whose event stands in its queue's ready list
          pc,      \* where each thread stands
          box,     \* the box its call under way is about
          msg,     \* the message it sends
          seen,    \* buf: the messages in the box when it was read
          told,    \* its last msg_send returned the thread, or nothing
          timed,   \* its last msg_recv has a timeout
          got      \* what its last msg_recv brought

vars == <<vm, cs, mail, active, pc, box, msg, seen, told, timed, got>>

Places == {"lua",       \* runs Lua code, holding the VM
           "enter",     \* at the sys_vm_enter behind a yield
           "send",      \* in msg_send, at the lock of the box
           "copy",      \* in msg_send, holding it, with buf read
           "trigger",   \* in msg_send, holding it, at the VM of the event queue
           "spin",      \* in sys_trigger_objevent, for ever
           "recv",      \* in msg_recv, at the lock of the box
           "take",      \* in msg_recv, holding it, with buf read
           "count",     \* in msg_count, at the lock of the box
           "evlock",    \* in thread_event_wait, at the lock of the box
           "waiting",   \* in pthread_cond_wait
           "woken", "timedout",   \* out of it, at the lock of the box again
           "again", "giveup"}     \* at the sys_vm_enter behind the wait

TypeOK == /\ vm \in [Vms -> Threads \cup {NoThread}]
          /\ cs \in [Vms -> Threads \cup {NoThread}]
          /\ mail \in [Vms -> Seq(Msgs)]
          /\ active \in SUBSET Vms
          /\ pc \in [Threads -> Places]
          /\ box \in [Threads -> Vms]
          /\ msg \in [Threads -> Msgs \cup {NoMsg}]
          /\ seen \in [Threads -> Seq(Msgs)]
          /\ told \in [Threads -> BOOLEAN]
          /\ timed \in [Threads -> BOOLEAN]
          /\ got \in [Threads -> Msgs \cup {NoMsg}]

\* Each thread is about to run: thread_start and thread_startvm enter the VM.
Init == /\ vm = [v \in Vms |-> NoThread]
        /\ cs = [v \in Vms |-> NoThread]
        /\ mail = [v \in Vms |-> <<>>]
        /\ active = {}
        /\ pc = [t \in Threads |-> "enter"]
        /\ box = VmOf
        /\ msg = [t \in Threads |-> NoMsg]
        /\ seen = [t \in Threads |-> <<>>]
        /\ told = [t \in Threads |-> FALSE]
        /\ timed = [t \in Threads |-> FALSE]
        /\ got = [t \in Threads |-> NoMsg]

Goes(t, from, to) == pc[t] = from /\ pc' = [pc EXCEPT ![t] = to]
Free(t) == cs[box[t]] = NoThread

Present == (UNION {Range(mail[v]) : v \in Vms}) \cup {msg[t] : t \in Threads}

Yield(t) == /\ Goes(t, "lua", "enter")
            /\ vm' = [vm EXCEPT ![VmOf[t]] = NoThread]
            /\ UNCHANGED <<cs, mail, active, box, msg, seen, told, timed, got>>

\* sys_vm_enter, behind a yield and behind the wait of msg_recv.
Enter(t) ==
  /\ vm[VmOf[t]] = NoThread
  /\ vm' = [vm EXCEPT ![VmOf[t]] = t]
  /\ \/ Goes(t, "enter", "lua") /\ UNCHANGED got
     \/ Goes(t, "again", "recv") /\ UNCHANGED got
     \/ Goes(t, "giveup", "lua") /\ got' = [got EXCEPT ![t] = NoMsg]
  /\ UNCHANGED <<cs, mail, active, box, msg, seen, told, timed>>

-----------------------------------------------------------------------------
(* thread_msg_send *)

Send(t, v, m) == /\ t \in Senders[v] /\ m \notin Present
                 /\ Goes(t, "lua", "send")
                 /\ box' = [box EXCEPT ![t] = v]
                 /\ msg' = [msg EXCEPT ![t] = m]
                 /\ UNCHANGED <<vm, cs, mail, active, seen, told, timed, got>>

\* The lock of the box is taken, and the box is read.
ReadBox(t) == /\ cs' = [cs EXCEPT ![box[t]] = t]
              /\ seen' = [seen EXCEPT ![t] = mail[box[t]]]
              /\ UNCHANGED <<vm, mail, active, box, msg, told, timed, got>>

OpenToCopy(t) == Free(t) /\ Goes(t, "send", "copy") /\ ReadBox(t)

\* pthread_cond_signal, and the return to Lua: one thread waiting at v wakes.
SignalAndReturn(t, v) ==
  LET asleep == {u \in Threads : pc[u] = "waiting" /\ box[u] = v}
  IN  \/ asleep = {} /\ pc' = [pc EXCEPT ![t] = "lua"]
      \/ \E u \in asleep : pc' = [pc EXCEPT ![t] = "lua", ![u] = "woken"]

\* The call has done with the message, and what it will return is settled.
SendIsOver(t, success) == /\ msg' = [msg EXCEPT ![t] = NoMsg]
                          /\ seen' = [seen EXCEPT ![t] = <<>>]
                          /\ told' = [told EXCEPT ![t] = success]

\* "copy the message" behind those that were read; if no event queue is to be
\* notified, signal and unlock.
Copy(t) ==
  /\ pc[t] = "copy"
  /\ LET v == box[t]
     IN  /\ Len(seen[t]) < MaxMail
         /\ mail' = [mail EXCEPT ![v] = Append(seen[t], msg[t])]
         /\ IF seen[t] = <<>> /\ Watch[v] # NoVm
            THEN /\ pc' = [pc EXCEPT ![t] = "trigger"]
                 /\ UNCHANGED cs
            ELSE /\ SignalAndReturn(t, v)
                 /\ cs' = [cs EXCEPT ![v] = NoThread]
  /\ SendIsOver(t, TRUE)
  /\ UNCHANGED <<vm, active, box, timed, got>>

\* As it would be if a message that found no room were counted all the same.
CopyFailsCounted(t) ==
  /\ Goes(t, "copy", "lua")
  /\ cs' = [cs EXCEPT ![box[t]] = NoThread]
  /\ mail' = [mail EXCEPT ![box[t]] = Append(@, NoMsg)]
  /\ SendIsOver(t, FALSE)
  /\ UNCHANGED <<vm, active, box, timed, got>>

\* No memory for a larger buffer: the message is dropped, and nothing returned.
CopyFails(t) == /\ Goes(t, "copy", "lua")
                /\ cs' = [cs EXCEPT ![box[t]] = NoThread]
                /\ SendIsOver(t, FALSE)
                /\ UNCHANGED <<vm, mail, active, box, timed, got>>

\* "notify event_queue": sys_trigger_objevent enters the VM of the queue unless
\* it is the thread's own, and puts the event on the ready list; back in
\* msg_send the event is signalled and the box unlocked.
Trigger(t) ==
  /\ pc[t] = "trigger"
  /\ LET v == box[t]
     IN  /\ Watch[v] = VmOf[t] \/ vm[Watch[v]] = NoThread
         /\ v \notin active
         /\ active' = active \cup {v}
         /\ SignalAndReturn(t, v)
         /\ cs' = [cs EXCEPT ![v] = NoThread]
  /\ UNCHANGED <<vm, mail, box, msg, seen, told, timed, got>>

\* The event is active already: "continue" skips "ev = ev->next_signal".
TriggerAgain(t) ==
  /\ Goes(t, "trigger", "spin")
  /\ LET w == Watch[box[t]]
     IN  /\ w = VmOf[t] \/ vm[w] = NoThread
         /\ box[t] \in active
         /\ vm' = [vm EXCEPT ![w] = t]
  /\ UNCHANGED <<cs, mail, active, box, msg, seen, told, timed, got>>

Spin(t) == pc[t] = "spin" /\ UNCHANGED vars

\* levq_loop of the queue's VM takes the ready list and runs the callbacks.
RunCallbacks(t) ==
  /\ pc[t] = "lua"
  /\ LET mine == {v \in active : Watch[v] = VmOf[t]}
     IN  mine # {} /\ active' = active \ mine
  /\ UNCHANGED <<vm, cs, mail, pc, box, msg, seen, told, timed, got>>

-----------------------------------------------------------------------------
(* thread_msg_recv, thread_msg_count *)

Recv(t, v, timeout) == /\ t \in Receivers[v]
                       /\ Goes(t, "lua", "recv")
                       /\ box' = [box EXCEPT ![t] = v]
                       /\ timed' = [timed EXCEPT ![t] = timeout]
                       /\ UNCHANGED <<vm, cs, mail, active, msg, seen, told, got>>

\* As it would be if msg_recv read the box before it took the lock.
OpenToTakeUnlocked(t) ==
  /\ mail[box[t]] # <<>> /\ Goes(t, "recv", "take")
  /\ seen' = [seen EXCEPT ![t] = mail[box[t]]]
  /\ UNCHANGED <<vm, cs, mail, active, box, msg, told, timed, got>>

OpenToTake(t) == Free(t) /\ mail[box[t]] # <<>> /\ Goes(t, "recv", "take") /\ ReadBox(t)

\* The oldest message is copied out, and the box is what else was read.
Take(t) == /\ Goes(t, "take", "lua")
           /\ got' = [got EXCEPT ![t] = Head(seen[t])]
           /\ mail' = [mail EXCEPT ![box[t]] = Tail(seen[t])]
           /\ cs' = [cs EXCEPT ![box[t]] = NoThread]
           /\ seen' = [seen EXCEPT ![t] = <<>>]
           /\ UNCHANGED <<vm, active, box, msg, told, timed>>

\* As it would be if msg_recv kept the lock of the box for its wait.
FindNothingKeepingLock(t) ==
  /\ Free(t) /\ mail[box[t]] = <<>> /\ Goes(t, "recv", "again")
  /\ cs' = [cs EXCEPT ![box[t]] = t]
  /\ vm' = [vm EXCEPT ![VmOf[t]] = NoThread]
  /\ UNCHANGED <<mail, active, box, msg, seen, told, timed, got>>

\* Nothing there: unlock the box, leave the VM, and only then lock it to wait.
FindNothing(t) == /\ Free(t) /\ mail[box[t]] = <<>> /\ Goes(t, "recv", "evlock")
                  /\ vm' = [vm EXCEPT ![VmOf[t]] = NoThread]
                  /\ UNCHANGED <<cs, mail, active, box, msg, seen, told, timed, got>>

WaitSignal(t) == /\ Free(t) /\ Goes(t, "evlock", "waiting")
                 /\ UNCHANGED <<vm, cs, mail, active, box, msg, seen, told, timed, got>>

TimesOut(t) == /\ timed[t] /\ Goes(t, "waiting", "timedout")
               /\ UNCHANGED <<vm, cs, mail, active, box, msg, seen, told, timed, got>>

SpuriousWakeup(t) == /\ Goes(t, "waiting", "woken")
                     /\ UNCHANGED <<vm, cs, mail, active, box, msg, seen, told, timed, got>>

LeaveWait(t) == /\ Free(t)
                /\ Goes(t, "woken", "again") \/ Goes(t, "timedout", "giveup")
                /\ UNCHANGED <<vm, cs, mail, active, box, msg, seen, told, timed, got>>

Count(t, v) == /\ t \in Receivers[v]
               /\ Goes(t, "lua", "count")
               /\ box' = [box EXCEPT ![t] = v]
               /\ UNCHANGED <<vm, cs, mail, active, msg, seen, told, timed, got>>

CountReturns(t) == /\ Free(t) /\ Goes(t, "count", "lua")
                   /\ UNCHANGED <<vm, cs, mail, active, box, msg, seen, told, timed, got>>

-----------------------------------------------------------------------------

\* The steps of a call under way.
Proceed(t) == \/ Enter(t) \/ OpenToCopy(t) \/ Copy(t) \/ CopyFails(t)
              \/ Trigger(t) \/ TriggerAgain(t)
              \/ OpenToTake(t) \/ Take(t) \/ FindNothing(t) \/ WaitSignal(t) \/ TimesOut(t)
              \/ LeaveWait(t) \/ CountReturns(t)

Next == \/ \E t \in Threads : \/ Proceed(t) \/ Yield(t) \/ RunCallbacks(t)
                              \/ SpuriousWakeup(t) \/ Spin(t)
        \/ \E t \in Threads, v \in Vms :
             \/ Count(t, v)
             \/ \E m \in Msgs : Send(t, v, m)
             \/ \E timeout \in BOOLEAN : Recv(t, v, timeout)

Spec == Init /\ [][Next]_vars

-----------------------------------------------------------------------------
(* Safety *)

\* The threads that hold what t is waiting for.
WaitsFor(t) ==
  (CASE pc[t] \in {"send", "recv", "count", "evlock", "woken", "timedout"} -> {cs[box[t]]}
     [] pc[t] = "trigger" /\ Watch[box[t]] # VmOf[t] -> {vm[Watch[box[t]]]}
     [] pc[t] \in {"enter", "again", "giveup"} -> {vm[VmOf[t]]}
     [] OTHER -> {}) \ {NoThread}

\* Sending, receiving and counting, no threads wait for each other in a circle.
NoDeadlock == ~ \E ring \in (SUBSET Threads) \ {{}} :
                   \A t \in ring : WaitsFor(t) \cap ring # {}

\* What the boxes implement: a message that msg_send has accepted is taken once, in
\* the order of its box, although each call puts back a box that it read before; one
\* that is dropped is known to its sender.
Receiving == {"recv", "take", "evlock", "waiting", "woken", "timedout", "again", "giveup"}
To == [t \in Threads |-> IF msg[t] # NoMsg THEN box[t] ELSE NoVm]
Asks == [t \in Threads |-> IF pc[t] \in Receiving THEN box[t] ELSE NoVm]
Boxes == INSTANCE Mailbox WITH box <- mail, letter <- msg, to <- To, asks <- Asks
ImplementsMailbox == Boxes!Spec
=============================================================================
