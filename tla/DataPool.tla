------------------------------ MODULE DataPool ------------------------------
(* The data pool of the threads of one VM (luasys-MOD/src/thread/             *)
(* thread_dpool.c) on top of the POSIX event of thread_sync.c.                *)
(*                                                                            *)
(* All Lua code of a VM runs under the VM mutex, and a thread gives it up     *)
(* only inside thread_event_wait, thread_yield and Lua callbacks that block;  *)
(* so each action is the code between two such points (module VmThreads       *)
(* checks the mutex itself).  The event is a condition variable without a     *)
(* predicate: a wait leaves the VM ("leaving"), then reaches pthread_cond_wait*)
(* ("waiting"), and a signal reaches only the threads that already wait.      *)
(* The event queue that may watch a pool (dp->event) is not attached here.    *)
EXTENDS Naturals, Sequences, FiniteSets, Functions

CONSTANTS Threads,        \* threads of the VM
          Writers,        \* the threads that call put
          Readers,        \* the threads that call get
          Items,          \* data items
          NoItem, NoThread,
          Garbage,        \* a value popped from a stack that is not the put's
          Marks,          \* the maximum watermarks the program sets
          CallbackSets,   \* the sets of callbacks the program installs
          CoWriters,      \* writers that call put from inside a coroutine
          Interruptible   \* threads that thread.interrupt is called on

ASSUME PoolAssumption ==
  /\ Writers \subseteq Threads /\ Readers \subseteq Threads
  /\ CoWriters \subseteq Writers /\ Interruptible \subseteq Threads
  /\ NoItem \notin Items /\ Garbage \notin Items \cup {NoItem}
  /\ NoThread \notin Threads
  /\ Marks \subseteq Nat \ {0} /\ Marks # {}
  /\ CallbackSets \subseteq SUBSET {"full", "empty"}
  /\ CallbackSets # {}
  /\ IsFiniteSet(Threads)

VARIABLES store,        \* the items in the storage table; dp->n is its length
          nwaits,       \* dp->nwaits
          nput,         \* dp->nput: 1 while an item is offered hand to hand
          writer,       \* dp->td
          max, flags,   \* dp->max, dp->flags
          op, at,       \* the call each thread is in, and where it stands in it
          item,         \* the data on the stack of a put under way
          timed,        \* the wait under way has a finite timeout
          result,       \* what the last get brought
          interrupted   \* td->interrupted

pool == <<store, nwaits, nput, writer, max, flags>>
vars == <<store, nwaits, nput, writer, max, flags, op, at, item, timed,
          result, interrupted>>

Ops == {"none", "put", "get", "wait"}
Places == {"idle", "callback", "leaving", "waiting", "woken", "timedout",
           "yield", "dead"}

TypeOK == /\ store \in Seq(Items)
          /\ nwaits \in Nat
          /\ nput \in {0, 1}
          /\ writer \in Threads \cup {NoThread}
          /\ max \in Marks
          /\ flags \in SUBSET {"full", "empty"}
          /\ op \in [Threads -> Ops]
          /\ at \in [Threads -> Places]
          /\ item \in [Threads -> Items \cup {NoItem}]
          /\ timed \in [Threads -> BOOLEAN]
          /\ result \in [Threads -> Items \cup {NoItem, Garbage}]
          /\ interrupted \in [Threads -> BOOLEAN]

Init == /\ store = <<>> /\ nwaits = 0 /\ nput = 0 /\ writer = NoThread
        /\ max \in Marks /\ flags \in CallbackSets
        /\ op = [t \in Threads |-> "none"]
        /\ at = [t \in Threads |-> "idle"]
        /\ item = [t \in Threads |-> NoItem]
        /\ timed = [t \in Threads |-> FALSE]
        /\ result = [t \in Threads |-> NoItem]
        /\ interrupted = [t \in Threads |-> FALSE]

-----------------------------------------------------------------------------
(* The event of the pool. *)

Waiting(a) == {t \in Threads : a[t] = "waiting"}

\* pthread_cond_signal: what the places of the threads may become.
Signalled(a) == IF Waiting(a) = {} THEN {a}
                ELSE {[a EXCEPT ![w] = "woken"] : w \in Waiting(a)}

\* The wait reaches pthread_cond_wait; every signal sent before is lost to it.
CondWait(t) == /\ at[t] = "leaving"
               /\ at' = [at EXCEPT ![t] = "waiting"]
               /\ UNCHANGED <<pool, op, item, timed, result, interrupted>>

WaitTimesOut(t) == /\ at[t] \in {"leaving", "waiting"} /\ timed[t]
                   /\ at' = [at EXCEPT ![t] = "timedout"]
                   /\ UNCHANGED <<pool, op, item, timed, result, interrupted>>

\* POSIX lets pthread_cond_wait return without a signal.
SpuriousWakeup(t) == /\ at[t] = "waiting"
                     /\ at' = [at EXCEPT ![t] = "woken"]
                     /\ UNCHANGED <<pool, op, item, timed, result, interrupted>>

Resumable(t) == at[t] \in {"woken", "timedout"}

\* The call returns to the Lua code of the thread.
Returns(t, a) == /\ op' = [op EXCEPT ![t] = "none"]
                 /\ at' \in a
                 /\ timed' = [timed EXCEPT ![t] = FALSE]

-----------------------------------------------------------------------------
(* dpool_put *)

Present == Range(store) \cup {item[t] : t \in Threads}

\* Push the data, count it, signal, return.
Store(t, i) ==
  /\ store' = Append(store, i)
  /\ item' = [item EXCEPT ![t] = NoItem]
  /\ Returns(t, Signalled([at EXCEPT ![t] = "idle"]))

\* As it would be if a put did not look whether another offer is open.
HandOffBesideAnother(t, i) ==
  /\ nwaits > 0
  /\ writer' = t /\ nput' = 1
  /\ item' = [item EXCEPT ![t] = i]
  /\ op' = [op EXCEPT ![t] = "put"]
  /\ at' \in Signalled([at EXCEPT ![t] = "yield"])
  /\ UNCHANGED <<store, timed>>

\* "Try directly move data between threads": offer it, signal, yield the VM.
HandOff(t, i) ==
  /\ nwaits > 0 /\ writer = NoThread
  /\ writer' = t /\ nput' = 1
  /\ item' = [item EXCEPT ![t] = i]
  /\ op' = [op EXCEPT ![t] = "put"]
  /\ at' \in Signalled([at EXCEPT ![t] = "yield"])
  /\ UNCHANGED <<store, timed>>

Deposit(t, i) == \/ HandOff(t, i)
                 \/ /\ ~(nwaits > 0 /\ writer = NoThread)
                    /\ Store(t, i)
                    /\ UNCHANGED <<nput, writer>>

Full == Len(store) >= max

\* A full pool: ask the callback, or wait for the event with no timeout.
PutHeldUp(t, i) ==
  /\ Full
  /\ item' = [item EXCEPT ![t] = i]
  /\ op' = [op EXCEPT ![t] = "put"]
  /\ at' = [at EXCEPT ![t] = IF "full" \in flags THEN "callback" ELSE "leaving"]
  /\ UNCHANGED <<store, nput, writer, timed>>

Put(t, i) == /\ at[t] = "idle" /\ t \in Writers /\ i \notin Present
             /\ PutHeldUp(t, i) \/ (~Full /\ Deposit(t, i))
             /\ UNCHANGED <<nwaits, max, flags, result, interrupted>>

\* The on-full callback returned its arguments: they are put all the same.
FullCallbackKeeps(t) ==
  /\ op[t] = "put" /\ at[t] = "callback"
  /\ Deposit(t, item[t])
  /\ UNCHANGED <<nwaits, max, flags, result, interrupted>>

\* The on-full callback returned nothing: so does put.
FullCallbackDrops(t) ==
  /\ op[t] = "put" /\ at[t] = "callback"
  /\ item' = [item EXCEPT ![t] = NoItem]
  /\ Returns(t, {[at EXCEPT ![t] = "idle"]})
  /\ UNCHANGED <<pool, result, interrupted>>

\* As it would be with "if" for "while": a woken put does not look again.
PutResumesOnce(t) ==
  /\ op[t] = "put" /\ Resumable(t) /\ ~interrupted[t]
  /\ Deposit(t, item[t])
  /\ UNCHANGED <<nwaits, max, flags, result, interrupted>>

\* Back from the event: wait again while the pool is full.
PutResumes(t) ==
  /\ op[t] = "put" /\ Resumable(t) /\ ~interrupted[t]
  /\ \/ /\ Full
        /\ at' = [at EXCEPT ![t] = "leaving"]
        /\ UNCHANGED <<store, nput, writer, op, item, timed>>
     \/ ~Full /\ Deposit(t, item[t])
  /\ UNCHANGED <<nwaits, max, flags, result, interrupted>>

\* As it would be if a put took its item for handed over once it had the VM again.
PutYieldReturnsTrusting(t) ==
  /\ op[t] = "put" /\ at[t] = "yield" /\ ~interrupted[t]
  /\ writer' = NoThread /\ nput' = 0
  /\ Returns(t, {[at EXCEPT ![t] = "idle"]})
  /\ item' = [item EXCEPT ![t] = NoItem]
  /\ UNCHANGED <<store, nwaits, max, flags, result, interrupted>>

\* Back from the yield of a hand-off: the item is gone, or is stored after all.
PutYieldReturns(t) ==
  /\ op[t] = "put" /\ at[t] = "yield" /\ ~interrupted[t]
  /\ writer' = NoThread /\ nput' = 0
  /\ \/ /\ nput = 0
        /\ Returns(t, {[at EXCEPT ![t] = "idle"]})
        /\ item' = [item EXCEPT ![t] = NoItem]
        /\ UNCHANGED store
     \/ nput # 0 /\ Store(t, item[t])
  /\ UNCHANGED <<nwaits, max, flags, result, interrupted>>

-----------------------------------------------------------------------------
(* dpool_get *)

\* Take the oldest item; a pool that was exactly full signals its event.
TakeStored(t) ==
  /\ store # <<>>
  /\ result' = [result EXCEPT ![t] = Head(store)]
  /\ store' = Tail(store)
  /\ LET back == [at EXCEPT ![t] = "idle"]
     IN  Returns(t, IF Len(store) = max THEN Signalled(back) ELSE {back})

ReaderWaits(t, timeout) ==
  /\ store = <<>>
  /\ op' = [op EXCEPT ![t] = "get"]
  /\ at' = [at EXCEPT ![t] = "leaving"]
  /\ timed' = [timed EXCEPT ![t] = timeout]
  /\ UNCHANGED <<store, result>>

\* As it would be if a get waited for a signal before it looked at the storage.
GetWaitsFirst(t, timeout) ==
  /\ at[t] = "idle" /\ t \in Readers
  /\ op' = [op EXCEPT ![t] = "get"]
  /\ at' = [at EXCEPT ![t] = "leaving"]
  /\ timed' = [timed EXCEPT ![t] = timeout]
  /\ nwaits' = nwaits + 1
  /\ UNCHANGED <<store, result, nput, writer, max, flags, item, interrupted>>

\* As it would be if the wait of a get were not counted.
GetUncounted(t, timeout) ==
  /\ at[t] = "idle" /\ t \in Readers
  /\ TakeStored(t) \/ ReaderWaits(t, timeout)
  /\ UNCHANGED <<nwaits, nput, writer, max, flags, item, interrupted>>

Get(t, timeout) ==
  /\ at[t] = "idle" /\ t \in Readers
  /\ \/ /\ "empty" \in flags /\ store = <<>>
        /\ op' = [op EXCEPT ![t] = "get"]
        /\ at' = [at EXCEPT ![t] = "callback"]
        /\ timed' = [timed EXCEPT ![t] = timeout]
        /\ UNCHANGED <<store, nwaits, result>>
     \/ TakeStored(t) /\ UNCHANGED nwaits
     \/ "empty" \notin flags /\ ReaderWaits(t, timeout) /\ nwaits' = nwaits + 1
  /\ UNCHANGED <<nput, writer, max, flags, item, interrupted>>

\* The on-empty callback returned nothing: look at the storage, or wait.
EmptyCallbackReturns(t) ==
  /\ op[t] = "get" /\ at[t] = "callback"
  /\ \/ TakeStored(t) /\ UNCHANGED nwaits
     \/ ReaderWaits(t, timed[t]) /\ nwaits' = nwaits + 1
  /\ UNCHANGED <<nput, writer, max, flags, item, interrupted>>

\* The on-empty callback returned data of its own: get returns it.
EmptyCallbackAnswers(t) ==
  /\ op[t] = "get" /\ at[t] = "callback"
  /\ result' = [result EXCEPT ![t] = NoItem]
  /\ Returns(t, {[at EXCEPT ![t] = "idle"]})
  /\ UNCHANGED <<pool, item, interrupted>>

\* As it would be if the early return of a timeout skipped the decrement.
GetTimesOutUncounted(t) ==
  /\ op[t] = "get" /\ at[t] = "timedout" /\ ~interrupted[t]
  /\ result' = [result EXCEPT ![t] = NoItem]
  /\ Returns(t, {[at EXCEPT ![t] = "idle"]})
  /\ UNCHANGED <<pool, item, interrupted>>

GetTimesOut(t) ==
  /\ op[t] = "get" /\ at[t] = "timedout" /\ ~interrupted[t]
  /\ nwaits' = nwaits - 1
  /\ result' = [result EXCEPT ![t] = NoItem]
  /\ Returns(t, {[at EXCEPT ![t] = "idle"]})
  /\ UNCHANGED <<store, nput, writer, max, flags, item, interrupted>>

\* What lua_xmove pops from dp->td->L: the put's data only if the put runs on
\* that stack, and still runs.
StackTop(t) == IF at[t] = "yield" /\ t \notin CoWriters /\ item[t] # NoItem
               THEN item[t] ELSE Garbage

\* As it would be if the reader left the offer open.
TakeOfferedLeavingIt(t) ==
  /\ nput # 0
  /\ result' = [result EXCEPT ![t] = StackTop(writer)]
  /\ item' = [item EXCEPT ![writer] = IF StackTop(writer) = @ THEN NoItem ELSE @]
  /\ Returns(t, {[at EXCEPT ![t] = "idle"]})
  /\ nwaits' = nwaits - 1
  /\ UNCHANGED <<store, nput>>

\* "get directly from another thread"
TakeOffered(t) ==
  /\ nput # 0
  /\ nput' = 0
  /\ result' = [result EXCEPT ![t] = StackTop(writer)]
  /\ item' = [item EXCEPT ![writer] = IF StackTop(writer) = @ THEN NoItem ELSE @]
  /\ Returns(t, {[at EXCEPT ![t] = "idle"]})
  /\ nwaits' = nwaits - 1
  /\ UNCHANGED store

\* Back from the event: an offer first, then the storage, then wait again.
GetResumes(t) ==
  /\ op[t] = "get" /\ at[t] = "woken" /\ ~interrupted[t]
  /\ \/ TakeOffered(t)
     \/ nput = 0 /\ TakeStored(t) /\ nwaits' = nwaits - 1 /\ UNCHANGED <<nput, item>>
     \/ nput = 0 /\ ReaderWaits(t, timed[t]) /\ UNCHANGED <<nwaits, nput, item>>
  /\ UNCHANGED <<writer, max, flags, interrupted>>

-----------------------------------------------------------------------------
(* dpool_wait, dpool_max, dpool_callbacks, thread_interrupt *)

Wait(t, timeout) ==
  /\ at[t] = "idle" /\ t \in Readers
  /\ op' = [op EXCEPT ![t] = "wait"]
  /\ at' = [at EXCEPT ![t] = "leaving"]
  /\ timed' = [timed EXCEPT ![t] = timeout]
  /\ UNCHANGED <<pool, item, result, interrupted>>

WaitReturns(t) ==
  /\ op[t] = "wait" /\ Resumable(t) /\ ~interrupted[t]
  /\ Returns(t, {[at EXCEPT ![t] = "idle"]})
  /\ UNCHANGED <<pool, item, result, interrupted>>

SetMax(m) == /\ max' = m
             /\ UNCHANGED <<store, nwaits, nput, writer, flags, op, at, item,
                            timed, result, interrupted>>

SetCallbacks(f) == /\ flags' = f
                   /\ UNCHANGED <<store, nwaits, nput, writer, max, op, at, item,
                                  timed, result, interrupted>>

Interrupt(t) == /\ at[t] # "dead"
                /\ interrupted' = [interrupted EXCEPT ![t] = TRUE]
                /\ UNCHANGED <<pool, op, at, item, timed, result>>

\* sys_vm_enter raises the interrupt as a Lua error from inside the wait, the
\* yield or a callback that blocks: nothing of the call after it runs, and the
\* error ends the thread (no Lua code between the two catches it here).
Raise(t) == /\ interrupted[t] /\ (Resumable(t) \/ at[t] \in {"yield", "callback"})
            /\ at' = [at EXCEPT ![t] = "dead"]
            /\ op' = [op EXCEPT ![t] = "none"]
            /\ item' = [item EXCEPT ![t] = NoItem]
            /\ timed' = [timed EXCEPT ![t] = FALSE]
            /\ UNCHANGED <<pool, result, interrupted>>

-----------------------------------------------------------------------------

\* The steps of a call under way that need no new call of the program.
Proceed(t) == \/ CondWait(t) \/ WaitTimesOut(t)
              \/ FullCallbackKeeps(t) \/ FullCallbackDrops(t)
              \/ PutResumes(t) \/ PutYieldReturns(t)
              \/ EmptyCallbackReturns(t) \/ EmptyCallbackAnswers(t)
              \/ GetTimesOut(t) \/ GetResumes(t)
              \/ WaitReturns(t) \/ Raise(t)

Next == \/ \E t \in Threads : Proceed(t) \/ SpuriousWakeup(t)
        \/ \E t \in Threads, i \in Items : Put(t, i)
        \/ \E t \in Threads, timeout \in BOOLEAN : Get(t, timeout) \/ Wait(t, timeout)
        \/ \E m \in Marks : SetMax(m)
        \/ \E f \in CallbackSets : SetCallbacks(f)
        \/ \E t \in Interruptible : Interrupt(t)

Spec == Init /\ [][Next]_vars

-----------------------------------------------------------------------------
(* Safety *)

\* An offer is open only while the one writer that made it yields the VM inside
\* put: the reader that pops dp->td's stack finds that writer's data on it.
OfferHasItsWriter ==
  /\ nput # 0 => writer # NoThread /\ item[writer] # NoItem
  /\ \A t \in Threads : (op[t] = "put" /\ at[t] = "yield") <=> writer = t

\* Two puts can pass the test of the watermark, but never three: as long as the
\* program keeps its maximum and has no on-full callback, the pool holds at most one
\* item more than the maximum.
AtMostOneOver == "full" \notin flags => Len(store) <= max + 1

\* dp->nwaits, "number of blocked readers": never too few, or a put would not offer
\* its item to a reader that sleeps; each reader that was interrupted in a get leaves
\* at most one behind.
BlockedReaders == {t \in Threads : op[t] = "get" /\ at[t] # "callback"}
DeadReaders == {t \in Readers : at[t] = "dead"}
NwaitsCountsReaders ==
  /\ Cardinality(BlockedReaders) <= nwaits
  /\ nwaits <= Cardinality(BlockedReaders) + Cardinality(DeadReaders)

\* dpool_get "Returns: data_items": what a get brings was put.
GetBringsData == \A t \in Threads : result[t] # Garbage

\* What the pool implements: a put that returns has passed its item on, to the storage
\* or to a reader, unless its on-full callback swallowed the item or an interrupt ended
\* the thread.
Pool == INSTANCE ItemPool WITH
          offer <- item,
          excused <- {t \in Threads : at[t] = "callback" \/ interrupted[t]},
          accepted <- store
ImplementsItemPool == Pool!Spec

-----------------------------------------------------------------------------
(* Liveness.  The consumer of test/thread/dpool.lua polls: it calls get(200)   *)
(* in a loop.  There it ends with its first timeout; here it goes on, as a     *)
(* consumer that must not miss anything does.  A call under way proceeds, a    *)
(* thread that can take the VM takes it in the end; nothing obliges the        *)
(* writers to put.                                                             *)

PollingNext == \/ \E t \in Threads : Proceed(t) \/ SpuriousWakeup(t)
               \/ \E t \in Threads, i \in Items : Put(t, i)
               \/ \E t \in Readers : Get(t, TRUE)

PollingSpec == /\ Init /\ [][PollingNext]_vars
               /\ \A t \in Threads : WF_vars(Proceed(t))
               /\ \A t \in Readers : WF_vars(Get(t, TRUE))

\* Signals may be lost and stolen, but what is in the storage of a pool whose
\* reader polls is read: get looks at the storage before it waits.
StoredIsRead == \A i \in Items : i \in Range(store) ~> i \notin Range(store)

=============================================================================
