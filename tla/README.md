# murgaLua 0.7.5 in TLA+

murgaLua is a Lua 5.1 interpreter in one executable, with FLTK widgets, sockets,
SQLite, XML, threads and more linked in. This directory holds TLA+ models of the
parts of it whose steps interleave, the configurations that check the models
with TLC, and theorems about them that the TLA+ proof system (TLAPS) checks.

Most of the tree is third-party code, examples and generated bindings. The logic
that is hard to test is in `luasys-MOD` (`src/3rd-party/luasys-MOD`), the
project's own fork of luasys, with threads, data pools, messages between VMs and
an event queue with timers and signals; and in `copas`, the dispatcher of
coroutines that network programs run under. These are modelled.

Paths of the form `thread/x.c`, `event/x.c`, `sys_evq.c` below are relative to
`src/3rd-party/luasys-MOD/src/`; `copas.lua` is
`src/3rd-party/copas-1.1.4/src/copas/copas.lua`.

## 1. Inventory

### Threads of a VM (`thread/sys_thread.c`, `thread/thread_sync.c`)

State: a mutex per VM (`vmtd->vm_mutex`, held by whoever runs Lua code), per
thread a flag `interrupted`, and a weak table that keeps the running threads
from the garbage collector.

Operations: `thread.init`, `run`, `runvm`, `interrupt`, `yield`, `sleep`,
`self`; the end of a thread. Inside: `sys_vm_enter` and `sys_vm_leave`, which
take and give back the VM mutex around everything that blocks.
`thread_sync.c` adds the *event*: a condition variable with a mutex of its own
and no predicate. `thread_event_wait` leaves the VM, locks the event, waits,
unlocks it, enters the VM; `thread_event_signal` locks, signals, unlocks.

Hard: two locks taken in different orders by waits and signals; the new thread
runs before its arguments are on its stack; an interrupt is raised as a Lua
error from inside `sys_vm_enter`, so that nothing behind it in the C function is
executed; a signal between the leaving of the VM and the wait reaches nobody.

Correct means: one thread at a time is in the Lua state; a thread runs nothing
before it has been given its function; the two locks do not deadlock.

### Data pools (`thread/thread_dpool.c`)

State: a Lua table used as a queue of tuples (`idx`, `top`, `n`), the maximum
watermark `max`, the callback flags, `nwaits` ("number of blocked readers"),
and the open hand-off: `td`, the writer, and `nput`, the number of its values.

Operations: `put`, `get`, `wait`, `max`, `callbacks`, `#pool`. A `put` to a full
pool calls the on-full callback or waits for the event. A `put` that finds
blocked readers offers its values "directly", signals, yields the VM, and
stores them only if nobody took them. A `get` from an empty pool calls the
on-empty callback or waits; woken, it looks for an offer first, then at the
storage, then waits again.

Hard: readers and writers wait on the same event; a signal may wake the wrong
one, or nobody; timeouts race signals; the reader pops values off another
thread's stack; an interrupt ends a `put` or a `get` anywhere it blocks.

Correct means: what is put is brought by one `get`, once, whole, and stored
items in order; the offer that is taken is that of a writer still there; the
counter of readers is right; the pool hardly exceeds its maximum.

### Messages between VMs (`thread/thread_msg.c`)

State: per VM a byte buffer (`idx`, `top`, `len`, `nmsg`) under the lock of an
event of its own; the event may be watched by an event queue of any VM.

Operations: `msg_send`, `msg_recv`, `msg_count`, and the coding of numbers,
booleans, strings and light pointers into items.

Hard: `msg_send` notifies a watching event queue with `sys_trigger_objevent`,
which locks that queue's VM while the box is locked; `msg_recv` locks the box
while its VM is locked. Memory is compacted and grown while messages are unread.
Items have different lengths, and the parser must stop where the builder did.

Correct means: each message is received once and in order, the locks do not
deadlock, nothing is copied outside the buffer.

### Event queue (`sys_evq.c`, `event/evq.c`, `event/select.c`)

State: the events with their flags, `nevents`, the array of descriptors that
`select` answers for, its sets and their highest number, a pipe that wakes
`select`, and two lists through the one pointer `next_ready`: the events the
loop has found ready, and `object_events`, those of objects triggered since.

Operations: `add`, `add_timer`, `add_object`, `add_dirwatch`, `change`, `timeout`,
`callback`, `del`, `on_interrupt`, `loop`, `interrupt`, `stop`, and the trigger of
object events.

Hard: callbacks add and delete events, their own and others of the same ready
list; other threads do so while the loop is inside `select`; several events may
be ready for one object; the scan of `select`'s answer deletes one-shot events
from the array it walks; `npolls` is read before `select` and used after it;
the highest descriptor is cached, and computed again without the pipe.

Correct means: an event that was deleted is not called; each ready event is
called once per readiness; a triggered event is called in the end; the counters
and arrays agree with the events.

### Timers (`event/timeout.c`)

State: one queue per distinct timeout, each a list in the order of the deadlines.

Operations: start, restart, stop, the time to sleep, and the batch of the
expired, which moves them to the end of their queue at once.

Hard: deadlines are counters of 32 bits that overflow; only heads are looked at,
so an order once wrong stays wrong; a timer is in one list through one pair of
pointers. Correct means: the loop sleeps past no deadline, and a timer goes off
when it is due and not before.

### Signals and child processes (`event/signal.c`, part of `sys_proc.c`)

State: per signal the list of its events and what `sigaction` has set; the
numbers in the queue's pipe.

Operations: `add_signal`, `add_pid`, `del`, `ignore_signal`; the handler; inside
the loop `signal_process`, `signal_actives`, `signal_children`.

Hard: a signal arrives between any two writes; the list is walked while one-shot
events are taken from it; the ends of several children are one signal, and a
number seen already in this turn is dropped; the loop asks for children until
there are none. Correct means: a signal somebody waits for has a handler, the
events of a signal that came are called, the end of a watched child is told.

### copas (`copas.lua`)

State: two sets of sockets as arrays with a reverse index, per socket a queue of
the coroutines that wait, and a log of when they began.

Operations: `addserver`, `addthread`, `receive`, `send`, `connect` and their
yields; `step`: select, accept, tick; the watchdog that brings back who waited
long.

Hard: a resumed coroutine closes sockets, starts others, waits again, ends,
while the list of the step is still being worked off. Correct means: who waits
is in one queue, once; it is resumed in the end.

### FLTK callbacks, idle functions, event handler, timer (`src/src/bind-fltk-ext.cxx`, `src/src/Fl_murgaLuaTimer.cxx`)

One static `lua_State*` for all callbacks and registry references; every
operation is one call of FLTK, which keeps the lists and decides the order. Not
modelled.

### Interpreter and library (`src/src/murgaLua.cxx`, `src/src/murgaLuaLib.*`, `src/src/murgaLuaFltk.lua`)

Start-up (an attached script, a file or the prompt), the opening of the
libraries, and helpers for strings, files and XML. Sequential; not modelled.

### Bundled libraries

`rings`, `coxpcall`, `remdebug` and `lualogging` in Lua and C; codecs and
bindings (LZO, SQLite, LPeg, TinyXML, Mongoose, ProteaAudio, cjson). The
directories whose names end in `-MOD` are forks kept by this project, the others
are verbatim. `src/src/bind-fltk.cxx` is generated and passes calls on to FLTK.
The files of luasys that wrap system calls (files, sockets, memory buffers,
dates, logs) keep no state; its Windows parts are left out, the POSIX build is
modelled.

### How the components interact

```
 Lua program                                            coroutines
   |  thread.run / runvm   put / get    msg_send/recv       |  copas
   v                         |               |              v
 VM mutex  <- enter/leave ---+-- thread_event+      sets of sockets, select
 (sys_thread.c)              wait/signal (thread_sync.c)
   ^                                         |
   |  sys_vm_enter of the queue's VM         v
 event queue (sys_evq.c)  <------ sys_trigger_objevent
   |        ^        ^
   v        |        |
 select   timers   signals, children
          (timeout.c)  (signal.c: a pipe the handler writes to)
```

The modules use each other in the same way. `VmThreads` shows that code between
two points that give up the VM is not interleaved with other Lua code of the VM;
`DataPool`, `EventQueue`, `Signals` and `TimerQueue` take that for granted and
make such code one action. `PoolStorage` shows that the storage table is a
queue; `DataPool` takes a sequence for it. `MsgBuffer` is about the units under
the lock of a box; `VmMessages` is about the locks and takes a sequence of
messages for the units. `TimerQueue` is about deadlines; in `EventQueue` a
timeout is "finite" or not and expires at any time. `Signals` has the part of
the loop that deals with the pipe; in `EventQueue` the pipe is one descriptor
that wakes `select`.

## 2. Modules

| module | what it is | source |
|---|---|---|
| `VmThreads` | VM mutex, life of a thread, event | `thread/sys_thread.c`, `thread/thread_sync.c` |
| `ItemPool` | abstract: what a data pool promises | |
| `DataPool` | the pool with waits, hand-offs, callbacks, interrupts | `thread/thread_dpool.c` |
| `TupleQueue` | abstract: a queue of tuples | |
| `PoolStorage` | the storage table of a pool | `thread/thread_dpool.c` |
| `Mailbox` | abstract: what message boxes promise | |
| `VmMessages` | send, receive, count, and the locks they take | `thread/thread_msg.c`, `sys_evq.c` |
| `MsgBuffer` | building, buffer and parsing of messages | `thread/thread_msg.c` |
| `Dispatcher` | abstract: what an event queue promises | |
| `EventQueue` | events, the loop, `select`, the two ready lists | `sys_evq.c`, `event/evq.c`, `event/select.c` |
| `Alarms` | abstract: what timers promise | |
| `TimerQueue` | the queues of equal timeouts | `event/timeout.c`, `event/select.c` |
| `Signals` | signals and ends of children | `event/signal.c`, `event/select.c`, `sys_evq.c` |
| `Copas` | the dispatcher of coroutines | `copas.lua` |
| `SequenceFacts` | lemmas about sequences, used by the proof modules | |
| `VmThreadsProofs`, `DataPoolProofs`, `VmMessagesProofs`, `EventQueueProofs`, `TimerQueueProofs`, `SignalsProofs`, `CopasProofs` | theorems | |
| `MC...` | constants for TLC | |

`PROJECT.json` gives the lines each definition stands for.

**VmThreads.** `owner` is the VM mutex, `cs` the mutex of the event, `pc` the
place of each thread. `Create` is `pthread_create` in `thread_run`; the new
thread stands at its first `sys_vm_enter` ("start") while its creator goes on
("moving") and, in `MoveArguments`, saves it and moves function and arguments.
`EnterRaises` is the error of `sys_vm_enter` for an interrupted thread,
`StartRaises` the same outside every `lua_pcall`, where it ends the process.
`Wake` stands for signal, timeout and spurious wake-up alike.

**DataPool.** One action is the code between two points where the thread can
lose the VM. `op` and `at` say which call a thread is in and where: "callback",
"leaving" (out of the VM, not yet waiting), "waiting", "woken", "timedout", or
"yield" (in the hand-off). `item[t]` is the data of the `put` of thread `t`.
`Signalled` picks the thread that a signal wakes among those that wait *now*;
one that is "leaving" misses it, as in the code. `StackTop` is what `lua_xmove`
takes from the writer's stack: the data, if the writer yields there, and
`Garbage` if it stands elsewhere, has ended, or is in a coroutine, whose values
are on another stack. Each item is put once at a time (`i \notin Present`), so
that the properties can tell items apart. `Raise` ends the thread: no Lua code
between the pool and the thread's `lua_pcall` catches the error. In `ItemPool` a put
gives up its item only while it is `excused`; the pool excuses one whose on-full
callback runs, and one that an interrupt is about to end. `PollingSpec`
is the program whose readers poll, and that sets its maximum and its callbacks
before it starts.

**PoolStorage.** `PutTuple` writes a tuple into the cells behind `top`, last value
first; `GetTuple` reads one from `idx`, clears it, and resets both indexes when they
meet.

**VmMessages.** `vm[v]` and `cs[v]` are the two kinds of locks. `msg_send` and
`msg_recv` copy the struct of the box, work on the copy (`seen`), and write it back:
`OpenToCopy` and `OpenToTake` take the lock and read, `Copy` and `Take` write what was
read and give the lock back, and any other thread may come between them; what keeps
the box whole is the lock. A lock that is taken for one look only is not a state of
its own. `told` is what `msg_send` returned: its thread, or nothing when there was no
memory (`CopyFails`). `Watch` says which VM's event queue watches which box; `active` is the
set of boxes whose event stands in a ready list, and `RunCallbacks` empties it.
`Spin` is the loop of `sys_trigger_objevent` that does not end.

**MsgBuffer.** A unit is `<<message, position>>`: the header, the type and length
of an item, or a part of its value. `SendFits`, `SendCompacts`, `SendGrows` and
`SendFails` are the four ways through the allocation of `msg_send`; `Write` drops
what lies outside the buffer, so that `top` beyond `Len(buf)` is the sign of an
overrun. `Parse` walks the items of what `thread_msg_recv` copied, by the lengths
it finds. `GrowingSpec` is the buffer until a send first has to move messages to
the front (`SendCompacts`); that step is wrong in the code, as `msg_compaction` shows.

**EventQueue.** `ev` is the array of `struct event`; `known` says that the
environment of the queue still keeps it, `evq` that it is registered, `next` is
`next_ready`. `at` is the place of the loop: between "select" and "poll" the VM is
free, as it is in "callback". `SelectFinds` chooses what is ready among the set
that was copied before `select` (`sel`); `ScanFinds`, `ScanPasses` are one round of
the scan over the array each; `Expire` is one timer of the batch; `Merge` puts
`object_events` before the list; `Call`, `CallbackReturns`, `CallbackFails`,
`PassOver` are one turn of the loop over the list each. `Add`, `Del`, `Change`,
`SetTimeout`, `Trigger`, `TriggerEnd` (the object ends and takes its events along),
`Interrupt`, `Stop` are the calls of the program; they come from callbacks and,
while the VM is free, from other threads. `TriggerHangs` leads to "hung", a NULL
that is followed to "crashed".

The scan goes by the `npolls` that was read before `select`, over the array as it is
after it. When another thread has deleted a descriptor meanwhile (`meddled`), the array
was compacted, and the last places the scan visits hold an event that it met
before, or one that is deleted. `ScanBreaks` is its step onto such an event, and "broken"
the end of the model: what the code does then is in section 3. Until that step the
model follows every deletion. It does not follow the *reuse* of what is deleted: the
struct of an event lies in a cache and may be that of another event before the scan
meets it, and the number of a closed descriptor may be that of a new one.

**TimerQueue.** `clock` counts on, `get_milliseconds` is its remainder by `2^w`,
and `Signed` is the cast to `long`. `timeout_get` and `Expired` read heads and
prefixes of the queues only, as the code does. `WaitBegins`, `WaitFinds` and
`WaitTimesOut` are `evq_wait` as far as it concerns timers.

**Signals.** A call that a handler can tell in two is in two or three actions
(`call`): the write of `sigaction`, that of the list, that of `ev->evq`. `Arrives`
is a signal delivered between any two actions: the default action (`Kills`), the
handler (it writes to the pipe of the first event's queue) or nothing
(`Swallowed`). `Reads` and `LooksAt` are the outer and inner loop of
`signal_process`, `signal_actives` one event of the walk, `signal_children` one
child that `waitpid` reports.

**Copas.** `stack` holds the coroutines under way, each resumed by the one
before it. `Done` and `Waits` are the two ways out of a turn of `receive`, `send`
or `connect`; `Ends` is the end of a coroutine, at which `_doTick` closes the
socket it was resumed with; `select`, `accept`, `tick`, `TaskEnds` are the steps
of the dispatcher; `Ages` and `TimePasses` are the clock of the watchdog.

Definitions that begin "As it would be if" (`HandOffBesideAnother`,
`timeout_get_first`, `tickKeeping` and so on) are not part of the models. Each is
a plausible mistake in the code; put in place of the correct definition it
breaks the property named with it in `PROJECT.json`.

## 3. Runs

Times are with two workers.

| run | specification | states | properties |
|---|---|---|---|
| `pool` | `DataPool` | 1,263,186 (2 min) | `TypeOK`, `OfferHasItsWriter`, `NwaitsCountsReaders`, `GetBringsData`, `ImplementsItemPool` |
| `pool_polling` | `DataPool`, `PollingSpec` | 9,414 | `AtMostOneOver`, `StoredIsRead` |
| `vm_threads` | `VmThreads` | 10,754 | `TypeOK`, `LuaIsExclusive`, `RunsWhatItWasGiven`, `LocksAreReleased` |
| `mail` | `VmMessages` | 627,430 (80 s) | `TypeOK`, `NoDeadlock`, `ImplementsMailbox` |
| `pool_storage` | `PoolStorage` | 17,089 | `CountsTuples`, `NothingLeftBehind`, `ImplementsTupleQueue` |
| `msg_buffer` | `MsgBuffer`, `GrowingSpec` | 43,278 | `StaysInside`, `HoldsTheUnread`, `ReceivedIsSent` |
| `event_queue` | `EventQueue`, `FairSpec` | 561,260 (3 min) | `ReadyListsSound`, `CountsEvents`, `PollsAreKnown`, `FoundAreListed`, `TriggersWake`, `ImplementsDispatcher`, `SelectHearsPipe`, `TriggeredIsCalled` |
| `signals` | `Signals`, `FairSpec` | 154,780 (50 s) | `HandlersAgree`, `CountsSignals`, `SignalIsCalled`, `ChildIsReported` |
| `timers` | `TimerQueue` | 46,308 (30 s) | `HeadsAreEarliest`, `InOneQueue`, `NeverOversleeps`, `ImplementsAlarms` |
| `copas` | `Copas`, `FairSpec` | 53,968 (30 s) | `SetsSound`, `OneQueueEach`, `WaitersCanBeWoken`, `WaitingIsResumed` |
| `mail_lock_order` | `VmMessages` | violated | `NoDeadlock` |
| `msg_compaction` | `MsgBuffer` | violated | `StaysInside` |

### What they show

- *Pools deliver.* `ItemPool` says: a put keeps its item on offer until it is
  accepted behind those already accepted, or taken straight from the offer, once; an
  accepted item leaves by being taken, the oldest first. A put gives its item up
  only when it is excused. `DataPool` refines it with `offer` the data of the puts
  under way, `accepted` the storage, and an excuse only for a put whose on-full
  callback runs, or that is interrupted. So a writer that comes back from the yield of
  its hand-off has its item taken or stores it: `PutYieldReturnsTrusting`, which trusts
  that it was taken, breaks the refinement. What it does **not** promise is that
  items of one writer arrive in the order they were put: a woken reader takes an
  offer before older stored items, in the code and in `ItemPool`.
- *The maximum.* `put` tests it, then may wait or yield; the pool exceeds its
  maximum by one item and never by two (`AtMostOneOver`, for an unchanging
  maximum and without an on-full callback).
- *`nwaits`.* It counts the readers that are blocked, however timeouts and
  signals race. Each interrupt of a blocked reader leaves the counter one too
  high for good, and nothing else does (`NwaitsCountsReaders`).
- *Polling readers miss nothing in the storage* (`StoredIsRead`).
- *One thread at a time runs Lua*; the two locks of waits and signals are always
  taken in an order that excludes deadlock; the early start of a new thread is
  harmless.
- *Messages.* `Mailbox` says: a message sent is posted behind the others of its box,
  or its sender is told that it was not; a posted message is taken once, by whoever asks
  for the oldest; only who gave a timeout is told that there was none. `VmMessages`
  refines it because the lock of a box is held from the reading of the struct to the
  writing: read before the lock is taken (`OpenToTakeUnlocked`), two receives take one
  message, and a receive undoes a send. The locks cause no deadlock if a watched box
  is sent to from the VM that watches it only.
- *The storage table and the message buffer* do what a queue does, and the parser
  returns the items that were built. For the buffer this holds until a send has
  to move unread messages to the front, so always for programs that receive all
  messages before they send the next ones (`DrainedBuffersGrow`); what happens then
  is the subject of `msg_compaction`.
- *The event queue* refines `Dispatcher`: an event is called only while it is
  registered, only after it became ready, once for each time it did; only an
  error in a callback drops others that were ready. Its two lists end and keep
  their data (`ReadyListsSound`), the count by which the loop ends is right, and every
  descriptor that `select` has found gets into the list (`FoundAreListed`). The scan
  itself deletes one-shot events from the array and survives that; it goes astray only
  after another thread deleted a descriptor in `select` (second part of
  `FoundAreListed`), and then it may. The model ends there ("broken"), so none of
  these properties says anything of what the code does after such a step.
- *Triggers.* The pipe has something to read whenever an event of an object waits
  (`TriggersWake`). `select` listens to the pipe whenever a descriptor above it is
  registered, and may do without it only when there is none (`SelectHearsPipe`). It
  does so, see below; otherwise an event triggered while the loop is anywhere is
  called or the loop ends (`TriggeredIsCalled`).
- *Timers* refine `Alarms`: each goes off when due, together with all that are
  due, and is due again after its period; the loop sleeps past no deadline.
- *Signals.* Between two calls, a signal with events is handled or ignored and
  one without has no handler. A number that got into the pipe makes its events
  active, and the end of a watched child is told although ends are merged, unless
  the loop spins for ever over another child that does not end (`Spinning`).
- *copas.* The arrays and the index agree, a coroutine waits in one queue, and
  every one that waits is resumed, by its socket or by the watchdog.

### Disagreements with the code's own documentation

1. `mail_lock_order`: a box watched by the queue of its own VM, which is how an
   event loop receives messages. The sender holds the box and wants the VM; a
   thread of that VM holds the VM and wants the box.
2. `msg_compaction`: after the unread bytes are moved to the front, `top` is set
   to the old `idx` instead of their number.

### Further behaviour that the code has and no run is kept for

Threads, pools and messages:

- An interrupt raised from the yield of a hand-off skips the lines that close the
  offer (`thread/thread_dpool.c:92`): the next reader takes values from the stack
  of a thread that has ended. With a writer in `Interruptible`, `GetBringsData`
  fails.
- The wait leaves the VM before it locks the event and tests no condition
  (`thread/thread_sync.c:101`): in `test/thread/dinner.lua` a philosopher on its way
  to wait misses the signal of the one that puts its forks back, and waits for
  ever beside them. `msg_recv` has the same gap.
- If a box is emptied and filled again before the queue has run its callbacks,
  `continue` in a `do ... while` loop of `sys_trigger_objevent` (`sys_evq.c:713`)
  skips the step to the next event, and the loop does not end (`Spin`,
  `TriggerHangs`).
- A thread interrupted before it first enters the VM raises the error outside
  every `lua_pcall`, and the process exits (`StartRaises`).
- A `put` from inside a coroutine (`CoWriters`): `dp->td->L` is the thread's main
  stack, not the coroutine's, so a hand-off moves the wrong values.
- `thread.run` called by a worker stores the worker as the VM of the new thread
  (`thread/sys_thread.c:375,396`), although only the VM's first thread has the mutex
  and the message buffer. The models make every thread from the main thread.
- A pool over its maximum, or one whose maximum was raised, signals no writer
  when it is read, because `get` compares with `==`; and `top` of a pool that
  never runs empty grows up to the overflow of an `int`.
- Where a pointer has eight bytes, the size of a message is computed from the
  padded structure (`thread/thread_msg.c:75`): four bytes more than were written,
  which the parser takes for an item. `SlackOf64Bits` in place of `Slack` breaks
  `ReceivedIsSent`. The models have pointers of four bytes.

Event queue and timers:

- The loop follows the timeout queue of an expired event (`sys_evq.c:629`), which
  an earlier callback of the same turn may have taken away: NULL ("crashed").
- An error in a callback abandons the rest of the list, which stays active and is
  never called (`abandoned`).
- The scan after `select` (`event/select.c:162,217-239`) goes by the old `npolls`
  over an array that deletions of other threads have compacted (109-115).
  `events[npolls-1]` still holds the event that was last. If that one was moved to
  the place of the deleted one and is ready, and the deleted one was too, so that
  `nready` does not run out before, the scan lists it twice and links it to itself,
  and `levq_loop` never gets to the end of the list; for a one-shot event, the
  second time `evq_del` follows its NULL `evq`. If it was itself the deleted one,
  its struct, in the cache by now, is listed and called back with an id that has no
  callback any more, or the callback of whoever got the struct next. All of this is
  "broken" in the model; the run reaches it with one descriptor deleted in `select`.
- `max_fd` is computed anew from the descriptors without the pipe
  (`event/select.c:168-175`), after the descriptor with the highest number went. When
  all others have lower numbers than the pipe, or there are none, `select` looks
  at less than the pipe from then on, and neither triggers nor `interrupt` nor signals
  wake it, until a descriptor above the pipe is added. A queue made before
  its sockets, the order of `test/sock/echosrvr.lua`, gets there when the last of the sockets
  is deleted. `Events.cfg` has one descriptor below the pipe and one above; without
  the clause `~PipeIsWatched`, `TriggeredIsCalled` fails.
- An event of an object that is added for one shot, as `add_object` allows
  (`sys_evq.c:304`), leaves the queue when it is triggered (716-717) and stays in the list
  of its object: the next trigger follows its NULL `evq`. The model has one-shot events
  of descriptors only.
- `sys_evq.c:583` clears `stop` at the start of the loop, `stop` from another
  thread does not wake `select`, and the loop ends when `nevents` is 0 though
  object events are pending. A timer restarted while `select` runs makes
  the loop end with its own timeout.
- `callback` (`sys_evq.c:512`) uses the event of an id without testing that there is
  one.
- An unlimited wait reads no clock (`event/select.c:165,206`): a timer that another
  thread starts meanwhile and whose event `select` finds is given a deadline
  computed from `TIMEOUT_INFINITE`. With a timer in `Hasty`, `HeadsAreEarliest`
  fails.
- The comment at `event/timeout.c:7-10` says that the comparison takes the overflow
  of the counter into account. It does for the overflow of the unsigned
  counter, which `timers` crosses. It compares two times, not their difference,
  and so errs where they change sign, half a period later (`event/timeout.c:149,175`):
  a start time just below `HalfRange` breaks `NeverOversleeps`.

Signals:

- `signal_children` goes on while `waitpid` returns 0 (`event/signal.c:170-178`): the
  loop spins, with the VM locked, as long as any child lives. With a second child that
  does not end, the end of the watched one is found, but its callback is never called,
  and no other thread of the VM runs. Without `[]Spinning` in it, `ChildIsReported`
  fails. It is this spin that keeps the drop of a number seen already (line 210)
  from losing a child: `NoZombies`, which leaves the loop at 0, breaks the property.
- A signal between `sigaction` and the write of the list (lines 106-110) is
  swallowed; one between the end of an event and the deletion from the list
  takes the queue of an event that has none.
- `ignore_signal` is undone by the deletion of the last event and by the addition
  of a first. A child that ended before `add_pid` is never told. One list per
  signal serves all queues (lines 19, 161); the model has one queue.

copas:

- Two coroutines that wait for the same direction of a socket strand the second
  (`copas.lua:346-349`); `OneUserEach` excludes it and the theorem assumes it.
- The dispatcher closes a socket that another coroutine still uses (262); a plain
  `coroutine.yield` is taken for the end; `copas.loop()` without a timeout never
  reaches the watchdog while nothing happens.

### Bounds, and why they are enough

- `pool`: three threads, one that only writes, one that only reads and may be
  interrupted, one that does both; three items; maxima 1 and 2, changed at any
  time; an on-empty and an on-full callback that come and go. Every conflict needs two puts
  and one get, or one put and two gets, at the boundary of full and empty, and a
  third item that overtakes. Items are symmetric: nothing orders them.
- `pool_polling`: two writers, one polling reader, a maximum of 1, with and
  without the on-full callback.
- `vm_threads`: four threads, so that three compete for the event while one
  makes or signals.
- `mail`: three threads in two VMs, two boxes of at most two messages
  (`MaxMail`), two messages; one box unwatched, one watched by the sender's VM.
- `pool_storage`: tuples of one to three values (`MaxItems`) in a table of nine
  cells (`MaxCells`): up to four tuples at once, and the reset from several
  positions.
- `msg_buffer`, `msg_compaction`: a first buffer of five units,
  messages of no item to three, five of them (`MaxSends`), one more too big
  for `MaxSize`: growth, and reads at every alignment.
- `event_queue`: two descriptors, one of them for one shot, so that the scan moves
  one to the place of the other, and so does a deletion in `select`; their numbers are
  below and above that of the pipe. One timer, with which a list has three members;
  one callback that fails; a loop with a timeout of its own. One event of an
  object: a second one multiplies the states by more than the time of a run
  allows, and what several do to each other in one trigger and in the merge (`Pushed`,
  `Merge`) is left to the theorems, which hold for any number.
- `timers`: three timers with two timeouts, so that a queue of two and one of one
  meet, six ticks (`MaxTime`), of which the third is the overflow of the counter.
- `signals`: two events of a signal, one for one shot, and two children, one of
  them watched: two ends can be merged, and the walk loses a member.
- `copas`: a proxy. One coroutine handles a connection and reads it, one writes to
  it what it reads from a second connection, one opens that and writes to it.

No run bounds a counter silently; `MaxMail`, `MaxCells`, `MaxItems`, `MaxSends` and
`MaxTime` are the only bounds, and they are guards of the actions. Deadlock is
not checked where the system may really stop: a pool whose readers and writers
all sleep, a buffer after its last send, a queue that hangs or has crashed, a
process that a signal has killed, a coroutine that waits while no step is
taken. It is checked in `vm_threads`, `mail`, `mail_lock_order`, `pool_storage` and
`timers`, where at least the loop can wait again.

### Fairness

- `PollingSpec`: `WF(Proceed(t))` for each thread, since a thread that is out of a
  wait or has the VM goes on (POSIX mutexes and the scheduler let each thread
  that can run, run, and a finite timeout expires), and `WF(Get(t, TRUE))` for
  the readers, which call `get` with a timeout in a loop as the consumer of
  `test/thread/dpool.lua` does (that one ends with its first timeout; the
  model's goes on). Nothing is assumed of writers, callbacks or signals.
- `EventQueue`: `WF(LoopSteps)`, the thread in the loop goes on when it may;
  `WF(CallbackReturns \/ InterruptReturns)`, a callback ends; and `select` returns
  when the pipe of the queue is readable. Nothing is assumed of the program, of
  descriptors, of time.
- `Signals`: `WF` of the steps of loop and calls, and of the delivery of each signal.
  Nothing is assumed of children, they may live for ever: `[]Spinning` in the two
  properties is what the loop does then.
  `SF(SelectFinds)` and `SF(CallbackReturns)`, because calls of other threads
  interleave with them and the thread gets the VM among them in the end;
  `SF(ReadsNothing)`, because signals do not arrive so fast for ever that the
  pipe is never found empty.
- `Copas`: `WF(Steps)`, `copas.loop` goes on; `WF(Goes)`, a running coroutine ends,
  waits, or finishes the call it is in; `WF(TimePasses)`, which needs
  `copas.loop(timeout)`. Nothing is assumed of sockets: each may be never ready.
- The other runs check safety only and assume no fairness.

## 4. Theorems

Proved for every value of the constants that satisfies the module's `ASSUME`.

| theorem | says | under |
|---|---|---|
| `VmThreadsProofs!VmTypeOK`, `VmIsExclusive`, `VmRunsWhatItWasGiven`, `VmLocksAreReleased` | the four properties of `vm_threads` | |
| `DataPoolProofs!PoolTypeOK` | types, in particular `nwaits` never below zero | |
| `DataPoolProofs!PoolCountsReaders` | `nwaits` is the number of blocked readers, and at most one more for each interrupted one | |
| `DataPoolProofs!PoolOneOver` | `PollingSpec` keeps `AtMostOneOver` | |
| `DataPoolProofs!PoolIsDelivered` | `DataPool` implements `ItemPool` | `Undisturbed` |
| `DataPoolProofs!PoolBringsData` | no get pops a stack without the data | `Undisturbed` |
| `DataPoolProofs!PoolOfferHasItsWriter` | an open offer has its writer | `Undisturbed` |
| `DataPoolProofs!StorageCountsTuples`, `StorageKeepsNothing` | the invariants of `pool_storage` | |
| `DataPoolProofs!StorageIsQueue` | `PoolStorage` implements `TupleQueue` | |
| `VmMessagesProofs!MailTypeOK` | types | |
| `VmMessagesProofs!MailIsDelivered` | `VmMessages` implements `Mailbox` | |
| `VmMessagesProofs!MailNoDeadlock` | no circle of waiting threads | `SentFromWatcher` |
| `VmMessagesProofs!BufferStaysInside`, `BufferHoldsTheUnread` | the invariants of `msg_buffer` | `GrowingSpec` |
| `VmMessagesProofs!BufferReceivesWhatWasSent` | each receive returns the items of the oldest unread message | `GrowingSpec` |
| `VmMessagesProofs!DrainedBuffersGrow` | programs that receive all before they send again satisfy `GrowingSpec` | |
| `EventQueueProofs!EventsAreCounted` | `nevents` counts the events | |
| `EventQueueProofs!PollsAgree` | array, indexes, set and `max_fd` agree | |
| `EventQueueProofs!ReadyListsAreSound` | the two lists end, are apart and hold what is active | `Untimed` |
| `EventQueueProofs!ScanListsAll` | what `select` found is listed, and a scan goes astray only after a deletion in `select` | `Untimed` |
| `EventQueueProofs!QueueDispatches` | `EventQueue` implements `Dispatcher` | `Untimed` |
| `EventQueueProofs!QueueTriggersWake` | the pipe tells of every trigger | |
| `EventQueueProofs!SelectHearsTriggers` | `select` does without the pipe only while no descriptor is above it | |
| `EventQueueProofs!ExpiredKeepTimeouts` | no expired event loses its timeout before its callback: never "crashed" | `NoFdDeadlines` |
| `TimerQueueProofs!TimersInOneQueue` | a timer is in one queue, once | |
| `TimerQueueProofs!QueuesInOrder` | queues are in the order of their deadlines | `Short`, `Unhurried` |
| `TimerQueueProofs!LoopNeverOversleeps` | no sleep past a deadline | `Short`, `Unhurried`, `OneOverflow` |
| `TimerQueueProofs!TimersGoOff` | `TimerQueue` implements `Alarms` | `Short`, `Unhurried`, `OneOverflow` |
| `SignalsProofs!SignalHandlersAgree` | handlers agree with the lists | |
| `SignalsProofs!SignalsAreCounted` | lists and count agree with the events | |
| `SignalsProofs!WaitedSignalsSpare` | no default action while an event waits for the signal | |
| `SignalsProofs!HandlerFaultsWhileDeleting` | the handler takes NULL only amid a deletion | |
| `CopasProofs!CopasSetsSound` | arrays and index agree | |
| `CopasProofs!CopasOneQueueEach` | a coroutine waits in one queue, once | |
| `CopasProofs!CopasWakes` | who waits can be woken | `OneUserEach` |

`Undisturbed`: no `put` from a coroutine, no interrupted writer; both are needed,
see above. `SentFromWatcher`: threads that send to a watched box belong to the VM
that watches it; run `mail_lock_order` shows it is needed. `OneUserEach`: no two
coroutines wait for the same direction of a socket.

`Untimed`: no event of an object has a deadline as well. The object lists its
events with `sys_trigger_objevent`, the loop those that expire with
`timeout_process`, and neither knows of a step of the other that is under way;
see the hazards at `sys_evq.c:629`.

`NoFdDeadlines`: no descriptor has a deadline; timers and events of objects may.
Without it TLC finds a callback that takes the deadline of a descriptor away after it
expired (section 3). What is proved of the event queue ends, as the model does, in
"hung", "crashed" or "broken".

`Short`: from start to end the run takes less than half a period of the counter
(24 days of milliseconds), and so does each timeout; otherwise the difference of
a deadline and the clock says nothing. `Unhurried`: no other thread starts a
timer while the loop waits without a limit, after which `evq_wait` restarts timers
with a time it has not read. `OneOverflow`: all times lie in the half periods
before and after one overflow. The code compares the times themselves and not
their differences, so where their sign changes it errs (section 2, `TimerQueue`);
`Timers.cfg` satisfies the three, with the overflow in the middle of the run.

The arguments:

- **VmThreads.** `LuaIsExclusive` is inductive only together with its converse
  (`VmHolder`: the owner of the mutex stands inside the VM), the same for the
  event's lock (`EventHolder`), and `Made`: a thread that is not yet in the table
  is the one its creator, which still holds the VM, is about to save. The last
  is why the early `pthread_create` is safe: the creator is in the VM, so nobody
  else is.
- **DataPool, counts.** `nwaits - 1` must stay a natural number. That needs a
  lower bound, `Counted`: at least as many as there are blocked readers. Equality
  is false with interrupts, so the upper bound (`Bounded`) counts the readers that
  have ended as well: one that is interrupted goes from the first set to the
  second, and nobody comes back from it. `Calls` and `Held` tie the place of a
  thread to its call and its data.
- **DataPool, maximum.** `Over`: at most one above the maximum, and while an offer
  is open not even that. A `put` that stores what nobody took closes the offer
  it made, and no other was opened meanwhile.
- **DataPool, refinement.** On top of that: `Apart`, the data of the puts under
  way differ from each other and from what is stored, and `Offers`, the writer
  in `td` is the one thread in the yield, and `nput` says whether its data are
  still there. Each lemma takes one piece of an operation (`Store`, `Deposit`,
  `TakeStored`, ...) and shows the step of `ItemPool` it is: a put that waits is
  `Offer`, one that stores is `Accept`, the on-full callback that drops is
  `Withdraw`, which needs that the thread is in that callback, a get is one of the
  three `Take` actions, all else stutters. `Offers` is what closes the hand-off: back from
  its yield the writer either finds `nput` at 0, and then its item is out of `offer`
  because a reader took it, or stores it, which is `Accept`.
- **PoolStorage.** `StorageSound`: the cells between the indexes are the tuples of
  some queue `q`, laid one behind the other; `p[k]` is where the k-th ends
  (`Laid`). A put appends to `q` and `p`, a get shifts them (`PutLays`, `GetLays`), and
  the cell read as a count is one because a tuple begins there. What the
  recursive `TuplesFrom` finds is `q` (`LaidIsFound`): the provers cannot apply an
  induction theorem, so the proof takes the least place, counted from the end, for
  which it would not hold, and so does the one that the recursive function exists at
  all (`WalkExists`).
- **VmMessages.** For `Mailbox`: messages in flight are new (`Fresh`), and what a thread
  has read from a box is what is in it (`seen[t] = mail[box[t]]`), as long as it is
  at "copy" or "take". That is inductive only with the lock: who is there holds it, so
  nobody else is there for the same box, and no other step writes it.
  For `NoDeadlock`, `Holders` says where the holder of each lock stands, and
  `OwnQueue` that under `SentFromWatcher` the holder of a box waits for nobody;
  so a thread in a circle would wait for a box whose holder waits for nothing,
  or for a VM whose holder waits for such a box.
- **MsgBuffer.** `BufferSound`: the last `nmsg` messages sent lie one behind the
  other from `idx`, the k-th up to `p[k]`, and the last ends at `top`, which is
  inside the buffer (`InBuffer`). A send appends to `p`, a receive takes the head
  off. `SizeIs` bounds a message that is not too big by `MaxSize`, so the first
  allocation, of `InitialSize`, holds it, and one doubling holds it afterwards,
  since the buffer is never shorter than the first; this is what `MaxSize <=
  InitialSize`, which the code's constants satisfy, is for. The parser finds an item
  exactly where the builder began one, since items begin at different units; so the
  walk yields the items, by the least one, counted from the end, where it would not.
  For `DrainedBuffersGrow` the types are enough: with `idx` at 0 there is nothing
  before it to move into.
- **EventQueue.** `IInv` is `TypeOK`, the two properties, `WatchingSound` (the object
  lists each of its events once), `FlagsSound`, and the key, `ScanSound`: unless
  a descriptor was deleted in `select`, the positions of the array that the scan
  has not reached hold events that are still registered, each once, none with an
  index behind its position. That is what a deletion under the scan, which moves the
  last event forward, keeps. After a deletion in `select` nothing is known of these
  positions, and nothing is needed: `ScanFinds` takes only an event that is
  registered and not listed, and `ScanBreaks` the rest.
- **Signals.** `IInv` says what is missing in each step of a call (`CallSound`,
  `Excepted`): with a handler and no event only in "adding" and "resetting".
  `WalkSound`: what the walk has still to pass is registered, since it alone
  deletes while it goes. The two results about single steps follow from `IInv` alone:
  an event of the queue is in its list or its handler has just been set
  (`WaitedHasAction`), and the head of a list that is not in the queue is the event
  under deletion.
- **EventQueue, lists.** A list through `next_ready` is a sequence of events, and
  `Links` says that the fields link it. `ListsInv` says that there are two,
  `s` of the loop and `o` of the object, without a common member, which together are
  the active events; the event whose callback runs is in front of `s`. Each step takes
  the head off a sequence, puts an event in front, or, in the merge, appends one
  sequence to the other, and `LinksTail`, `LinksPush` and `LinksJoin` give the
  sequence after it. No induction is needed, because the code never looks
  further than the ends of a list in one step.
- **EventQueue, scan.** `FoundSound`: while the scan goes on, `left` counts the
  descriptors found that are not listed yet, and each that nobody deleted is still
  ahead of it: at its index at the latest, since a deletion in `select` moves events to
  the front but leaves them where they were as well, and a deletion under the scan
  moves none from ahead of it to behind. That a scan without deletions in `select`
  does not go astray is `ScanSound`.
- **EventQueue, wake-up.** `WakeInv` adds to `TriggersWake` that the answer of `select`
  "the pipe can be read" lives only from "found" to the merge; so `Resume` empties the
  pipe only in a turn that merges, and what is triggered before that, with the VM
  free, is merged with it. `SelectHearsPipe` follows from `PollsAreKnown`: the
  cached number is not below any descriptor, nor is the one computed again
  (`HighestIsHighest`); so it is below the pipe only if all descriptors are.
- **EventQueue, timeouts.** `ExpirySound`: an event found expired is active, is no
  descriptor, and has its timeout or is marked deleted. Being active keeps it
  from a trigger that ends its object, and from losing its data at once.
- **EventQueue, refinement.** `StatusOf` reads the status of an event from its flags.
  `add` and the deletions are `Add` and `Remove`, finding, expiring and triggering are
  `GetReady`, the pick of the head is `Call`, and what the interrupt or a failing
  callback leaves behind is `Fail`. `Call` needs what `ReadyListsSound` says of the head;
  the scan and the merge stutter.
- **TimerQueue, places.** The types of the queues with `InOneQueue`; the batch of the
  expired is a rotation of the queue (`SequenceFacts!Rotated`).
- **TimerQueue, times.** `Due` reads a deadline from its difference to the clock;
  `DueIs` says that it is the only time within half a period that the counter
  can mean, `DueStays` that a tick does not change it, `DueStarts` that a timer just
  started is due after its timeout. `TimesSound` is the invariant: a timer in
  the queue of `m` is due at most `m` from now, and not before the run began. With it
  the end of a queue is the place for a timer that starts, and the order is kept.
  A rotation keeps it too, whatever was taken for expired: those that go to the
  end are all due after `m`.
- **TimerQueue, comparison.** `SignedAround`: around one overflow, the signed reading
  of a time is that time less a constant. So `Earliest` finds the earliest, which
  is not after the deadline of any head, and a head not after any of its queue
  (`SleepsInTime`); and `Expired` stops exactly where deadlines have not
  come (`ExpiredAre`), which makes the timeout `GoOff` with the right set. A start or
  restart is `Set`, a stop or a timer without limit is `Clear`.
- **Copas.** `IInv` adds to the two properties `StackRuns` (who runs is on the stack,
  once), `UsersWait` (who waits is a user of the socket) and `EventsHaveTask`. With
  `OneUserEach` a queue has one member, and then what is taken from the set or
  the log is taken with it.

TLC checks each strengthened invariant on the instance of its run, except those
that quantify over sequences or functions (`ListsInv`, `FoundInv`, `StorageSound`,
`BufferSound`), whose consequences it checks as the invariants of the runs.

### Only model-checked

- The liveness properties `StoredIsRead`, `TriggeredIsCalled`, `SignalIsCalled`,
  `ChildIsReported` and `WaitingIsResumed`, which the prover does not reach.
- `MsgBuffer` behind a compaction: run `msg_compaction` shows that its invariants fail
  there.

## 5. Not modelled

- FLTK: callbacks, idle functions and the event handler are one static pointer
  and registry references around lists that FLTK keeps; each operation is one
  call, and its order is FLTK's. The 41,219 lines of `bind-fltk.cxx` are generated.
- Interpreter and library: sequential, and nothing outlives a call.
- `rings`, `coxpcall`, `remdebug`, `lualogging`, and the vendored codecs and bindings:
  third-party code without interleavings of its own.
- Of luasys: directory watches, a second event queue, a queue handed to another
  VM, nested loops, the event queue that may watch a data pool (`dp->event`), the
  copying of arguments into a new VM (`thread_runvm`), `epoll` and `kqueue` in place of
  `select`, the Windows parts, and what wraps single system calls.
- Exhaustion of memory in Lua itself (a `lua_newtable` that fails), except that of
  the message buffer, where the code handles it.
- Overflow of `top` in a pool that never runs empty (2^31 steps).
- Everything marked `not_modelled` in `PROJECT.json`.

## 6. Plan

Done: threads, pools with their storage, messages with their buffer, the event
queue with timers and signals, copas. Left, in this order:

1. A pool watched by an event queue: `DataPool` with `EventQueue`'s trigger.
2. The chain of `vmtd`: threads made by workers, in `VmThreads` and `VmMessages`.
3. In `EventQueue`, the reuse of the structs in the cache and of descriptor numbers,
   and one-shot events of objects.
4. A second event queue, and one handed to another VM, in `Signals` and
   `EventQueue`.
5. Proofs: every safety property of a passing run is a theorem; what is left is to
   weaken the conditions of section 4 (`Untimed`) where the code still holds without
   them.

The suite is kept at a dozen runs so that it stays quick to repeat. New
questions take the place of narrow ones.
