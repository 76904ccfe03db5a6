----------------------------- MODULE EventQueue -----------------------------
(* An event queue of one VM: sys_evq.c with event/evq.c and event/select.c of   *)
(* luasys-MOD/src.                                                              *)
(*                                                                              *)
(* All calls run under the VM mutex, which the loop gives up inside select and  *)
(* a callback may give up when it blocks.  So the steps of the loop itself are  *)
(* not interleaved with calls (VmFree), but between them, while the loop is in  *)
(* select, has come out of it and waits for the VM, or runs a callback, calls   *)
(* come from the callback and from other threads alike.                         *)
EXTENDS Integers, Sequences, FiniteSets, SequencesExt

CONSTANTS FdEvents,      \* events of file descriptors
          TimerEvents,   \* events made by add_timer
          ObjectEvents,  \* events of one object, such as a data pool
          Nil,
          OneShot,       \* events of descriptors that are added for one shot
          Deadlines,     \* events that are given a finite timeout
          Fd, PipeFd,    \* the numbers of the descriptors, of the pipe of the queue
          Limits,        \* BOOLEANs: may the loop have a timeout of its own?
          Changed,       \* events of descriptors that are changed to wait for nothing
          Failing        \* events whose callbacks may end in an error

Events == FdEvents \cup TimerEvents \cup ObjectEvents
Ends == {"limit", "stale", "never"}   \* see until

ASSUME QueueAssumption ==
  /\ FdEvents \cap TimerEvents = {} /\ FdEvents \cap ObjectEvents = {}
  /\ TimerEvents \cap ObjectEvents = {}
  /\ IsFiniteSet(Events) /\ Nil \notin Events \cup {"pipe"} /\ "pipe" \notin Events
  /\ Events \cap Ends = {}
  /\ OneShot \subseteq FdEvents /\ TimerEvents \subseteq Deadlines
  /\ Deadlines \subseteq Events
  /\ Fd \in [FdEvents -> Nat \ {PipeFd}] /\ PipeFd \in Nat
  /\ \A e, f \in FdEvents : Fd[e] = Fd[f] => e = f
  /\ Limits \subseteq BOOLEAN /\ Changed \subseteq FdEvents /\ Failing \subseteq Events

VARIABLES ev,         \* the struct event of each event, see Event
          nevents, stop, intr, object_events,  \* evq->nevents, ->flags, ->object_events
          watching,   \* the list of events of the object, through next_signal
          events, npolls, readset, max_fd,     \* evq->events; npolls without the pipe
          pipe,       \* there is something to read in the pipe of the queue
          at,         \* where the loop stands
          list,       \* ev_ready of evq_wait, ev of levq_loop
          sel,        \* what evq_wait read before select
          until,      \* the event whose deadline select waits for, "limit" if it is that
                      \* of the loop, "stale" if the event's is another now, or "never"
          hit, i, left,  \* what select found; i and nready of the scan
          meddled,    \* the descriptors deleted since the loop went into select
          due,        \* the timers found expired
          abandoned   \* events that were in a list given up by an error

queue == <<nevents, stop, intr, object_events, watching>>
polling == <<events, npolls, readset, max_fd>>
scan == <<sel, hit, i, left, meddled>>
vars == <<ev, queue, polling, pipe, at, list, scan, until, due, abandoned>>

Event == [known : BOOLEAN,    \* the environment of the queue keeps it
          evq : BOOLEAN,      \* ev->evq is not NULL
          active : BOOLEAN, delete : BOOLEAN, expired : BOOLEAN,  \* EVENT_ACTIVE, ...
          wants : BOOLEAN,    \* EVENT_READ
          tq : {"none", "finite", "infinite"},
          index : Nat,
          next : Events \cup {Nil}]  \* next_ready

Fresh == [known |-> FALSE, evq |-> FALSE, active |-> FALSE, delete |-> FALSE,
          expired |-> FALSE, wants |-> TRUE, tq |-> "none", index |-> 0, next |-> Nil]

Places == {"out", "test", "select", "found", "timedout", "eintr", "poll", "expire",
           "merge", "list", "callback", "interrupt", "hung", "crashed", "broken"}

TypeOK == /\ ev \in [Events -> Event]
          /\ nevents \in Nat /\ stop \in BOOLEAN /\ intr \in BOOLEAN
          /\ object_events \in Events \cup {Nil}
          /\ watching \in Seq(ObjectEvents)
          /\ events \in [1..Cardinality(FdEvents) -> FdEvents \cup {Nil}]
          /\ npolls \in 0..Cardinality(FdEvents)
          /\ readset \subseteq FdEvents
          /\ max_fd \in Int /\ pipe \in BOOLEAN
          /\ at \in Places
          /\ list \in Events \cup {Nil}
          /\ sel \in [npolls : Nat, readset : SUBSET FdEvents, max_fd : Int]
          /\ until \in Events \cup Ends
          /\ hit \subseteq FdEvents \cup {"pipe"} /\ i \in Nat /\ left \in Nat
          /\ meddled \subseteq FdEvents
          /\ due \subseteq Events /\ abandoned \subseteq Events

Unused == [npolls |-> 0, readset |-> {}, max_fd |-> 0]

Init == /\ ev = [e \in Events |-> Fresh]
        /\ nevents = 0 /\ stop = FALSE /\ intr = FALSE
        /\ object_events = Nil /\ watching = <<>>
        /\ events = [k \in 1..Cardinality(FdEvents) |-> Nil]
        /\ npolls = 0 /\ readset = {} /\ max_fd = PipeFd
        /\ pipe = FALSE /\ at = "out" /\ list = Nil
        /\ sel = Unused /\ hit = {} /\ i = 0 /\ left = 0 /\ meddled = {}
        /\ until = "never" /\ due = {} /\ abandoned = {}

\* The events from h on, through next_ready, Nil from its end on.
Chain(h) ==
  LET c[k \in 0..Cardinality(Events)] ==
        IF k = 0 THEN h ELSE IF c[k - 1] = Nil THEN Nil ELSE ev[c[k - 1]].next
  IN  c
Members(h) == {e \in Events : \E k \in 0..Cardinality(Events) : Chain(h)[k] = e}

-----------------------------------------------------------------------------
(* Calls, from callbacks and from other threads. *)

InSelect == at \in {"select", "found", "timedout", "eintr"}
VmFree == InSelect \/ at \in {"out", "callback", "interrupt"}

\* The deadline of e changes or goes: the select under way waits for the old one.
Forget(e) == until' = IF until = e THEN "stale" ELSE until

\* evq_add puts a descriptor behind the others.
AddFd(e) == /\ npolls' = npolls + 1
            /\ events' = [events EXCEPT ![npolls + 1] = e]
            /\ readset' = readset \cup {e}
            /\ max_fd' = IF max_fd # -1 /\ max_fd < Fd[e] THEN Fd[e] ELSE max_fd

\* The timeouts an event may have; infinite ones only in objects' events here.
Timeouts(e) == (IF e \in FdEvents THEN {"none"} ELSE IF e \in ObjectEvents THEN {"infinite"} ELSE {})
               \cup (IF e \in Deadlines THEN {"finite"} ELSE {})

\* levq_add: an event is put into the environment, and at the head of the list
\* of its object.
Add(e, msec) ==
  /\ VmFree /\ ~ev[e].known /\ msec \in Timeouts(e)
  /\ ev' = [ev EXCEPT ![e] = [Fresh EXCEPT !.known = TRUE, !.evq = TRUE, !.tq = msec,
                             !.index = IF e \in FdEvents THEN npolls + 1 ELSE 0]]
  /\ nevents' = nevents + 1
  /\ IF e \in FdEvents THEN AddFd(e) ELSE UNCHANGED polling
  /\ watching' = IF e \in ObjectEvents THEN <<e>> \o watching ELSE watching
  /\ UNCHANGED <<stop, intr, object_events, pipe, at, list, scan, until, due, abandoned>>

\* As it would be if the event moved in the array kept its old index.
evq_del_unindexed(e, evs) ==
  /\ nevents' = nevents - 1
  /\ Forget(e)
  /\ npolls' = npolls - 1
  /\ readset' = readset \ {e}
  /\ max_fd' = IF max_fd = Fd[e] THEN -1 ELSE max_fd
  /\ events' = [events EXCEPT ![ev[e].index] = events[npolls]]
  /\ ev' = [evs EXCEPT ![e].evq = FALSE, ![e].tq = "none"]

\* evq_del of a descriptor: the last of the array takes its place.  evs is ev with
\* what the caller changes besides.
evq_del(e, evs) ==
  /\ nevents' = nevents - 1
  /\ Forget(e)
  /\ npolls' = npolls - 1
  /\ readset' = readset \ {e}
  /\ max_fd' = IF max_fd = Fd[e] THEN -1 ELSE max_fd
  /\ LET k == ev[e].index
         moved == events[npolls]
     IN  IF k < npolls
         THEN /\ events' = [events EXCEPT ![k] = moved]
              /\ ev' = [evs EXCEPT ![moved].index = k, ![e].evq = FALSE, ![e].tq = "none"]
         ELSE /\ ev' = [evs EXCEPT ![e].evq = FALSE, ![e].tq = "none"]
              /\ UNCHANGED events

\* As it would be if the count of events were left as it is.
evq_del_timer_uncounted(e, evs) ==
  /\ nevents' = nevents
  /\ Forget(e)
  /\ ev' = [evs EXCEPT ![e].evq = FALSE, ![e].tq = "none"]
  /\ UNCHANGED polling

evq_del_timer(e, evs) ==
  /\ nevents' = nevents - 1
  /\ Forget(e)
  /\ ev' = [evs EXCEPT ![e].evq = FALSE, ![e].tq = "none"]
  /\ UNCHANGED polling

\* As it would be if the data of an event went at once, ready or not.
LeavesAtOnce(e) == [ev EXCEPT ![e] = Fresh]

\* "if in ready_set (active) then delete ev_udata & co. later (after processed)"
Leaves(e) == IF ev[e].active THEN [ev EXCEPT ![e].delete = TRUE] ELSE [ev EXCEPT ![e] = Fresh]

Unlinked(e) == LET k == CHOOSE k \in DOMAIN watching : watching[k] = e
               IN  IF e \in ToSet(watching) THEN RemoveAt(watching, k) ELSE watching

\* levq_del
Del(e) ==
  /\ VmFree /\ ev[e].known
  /\ IF ~ev[e].evq THEN ev' = Leaves(e) /\ UNCHANGED <<nevents, polling, until>>
     ELSE IF e \in FdEvents THEN evq_del(e, Leaves(e))
     ELSE evq_del_timer(e, Leaves(e))
  /\ watching' = IF ev[e].evq THEN Unlinked(e) ELSE watching
  /\ meddled' = meddled \cup (IF InSelect /\ ev[e].evq THEN {e} \cap FdEvents ELSE {})
  /\ UNCHANGED <<stop, intr, object_events, pipe, at, list, sel, hit, i, left, due, abandoned>>

\* levq_change: an event of a descriptor is read no more, or again.
Change(e) ==
  /\ VmFree /\ e \in Changed /\ ev[e].known /\ ev[e].evq
  /\ ev' = [ev EXCEPT ![e].wants = ~@]
  /\ IF ev[e].wants
     THEN /\ readset' = readset \ {e}
          /\ max_fd' = IF max_fd = Fd[e] THEN -1 ELSE max_fd
     ELSE /\ readset' = readset \cup {e}
          /\ max_fd' = IF max_fd # -1 /\ max_fd < Fd[e] THEN Fd[e] ELSE max_fd
  /\ UNCHANGED <<queue, events, npolls, pipe, at, list, scan, until, due, abandoned>>

\* levq_timeout
SetTimeout(e, msec) ==
  /\ VmFree /\ ev[e].known /\ ev[e].evq
  /\ msec \in Timeouts(e)
  /\ ev' = [ev EXCEPT ![e].tq = msec]
  /\ Forget(e)
  /\ UNCHANGED <<queue, polling, pipe, at, list, scan, due, abandoned>>

Interrupt == /\ VmFree
             /\ intr' = TRUE /\ pipe' = TRUE
             /\ UNCHANGED <<ev, nevents, stop, object_events, watching, polling, at, list,
                            scan, until, due, abandoned>>

Stop == /\ VmFree
        /\ stop' = TRUE
        /\ UNCHANGED <<ev, nevents, intr, object_events, watching, polling, pipe, at, list,
                       scan, until, due, abandoned>>

-----------------------------------------------------------------------------
(* sys_trigger_objevent, by the puts and gets of a pool, by messages, by the end *)
(* of a thread.  All events of the object wait for what is triggered.            *)

\* An event that is active already: "continue" does not go on to the next event,
\* the loop over the list does not end, and the VM stays locked.
TriggerHangs == /\ VmFree
                /\ \E k \in DOMAIN watching : ev[watching[k]].active
                /\ at' = "hung"
                /\ UNCHANGED <<ev, queue, polling, pipe, list, scan, until, due, abandoned>>

\* The events go one by one to the head of the list of ready objects.
Pushed(E) == [e \in Events |->
  LET ks == {k \in DOMAIN watching : watching[k] = e}
  IN  IF ks = {} THEN E[e]
      ELSE LET k == CHOOSE k \in ks : TRUE
           IN  [E[e] EXCEPT !.active = TRUE,
                            !.next = IF k = 1 THEN object_events ELSE watching[k - 1]]]

CanTrigger == /\ VmFree /\ watching # <<>>
              /\ \A k \in DOMAIN watching : ~ev[watching[k]].active

\* As it would be without evq_interrupt.
TriggerQuietly ==
  /\ CanTrigger
  /\ ev' = Pushed(ev)
  /\ object_events' = watching[Len(watching)]
  /\ until' = IF until \in ToSet(watching) THEN "stale" ELSE until
  /\ UNCHANGED <<nevents, stop, intr, watching, polling, pipe, at, list, scan, due, abandoned>>

\* Their timers start again; then evq_interrupt.  (An event of an object that is for
\* one shot is not modelled: it leaves the queue here, but not the list of its object,
\* and the next trigger follows its NULL evq.)
Trigger ==
  /\ CanTrigger
  /\ ev' = Pushed(ev)
  /\ object_events' = watching[Len(watching)]
  /\ until' = IF until \in ToSet(watching) THEN "stale" ELSE until
  /\ pipe' = TRUE
  /\ UNCHANGED <<nevents, stop, intr, watching, polling, at, list, scan, due, abandoned>>

\* With SYS_EVDEL the object goes: its events are called a last time.
TriggerEnd ==
  /\ CanTrigger
  /\ ev' = [e \in Events |-> IF e \in ToSet(watching)
                             THEN [Pushed(ev)[e] EXCEPT !.evq = FALSE, !.tq = "none"] ELSE ev[e]]
  /\ object_events' = watching[Len(watching)]
  /\ watching' = <<>>
  /\ nevents' = nevents - Len(watching)
  /\ until' = IF until \in ToSet(watching) THEN "stale" ELSE until
  /\ pipe' = TRUE
  /\ UNCHANGED <<stop, intr, polling, at, list, scan, due, abandoned>>

-----------------------------------------------------------------------------
(* levq_loop, up to select *)

\* The flags are cleared: what was asked for before is forgotten.
LoopBegins == /\ at = "out"
              /\ stop' = FALSE /\ intr' = FALSE
              /\ at' = "test"
              /\ UNCHANGED <<ev, nevents, object_events, watching, polling, pipe, list,
                             scan, until, due, abandoned>>

LoopEnds == /\ at = "test" /\ (stop \/ nevents = 0)
            /\ at' = "out"
            /\ UNCHANGED <<ev, queue, polling, pipe, list, scan, until, due, abandoned>>

\* As it would be if the last descriptor were not looked at again.
HighestButLast == IF max_fd # -1 THEN max_fd
                  ELSE LET fds == {Fd[events[k]] : k \in 1..npolls - 1}
                       IN  IF fds = {} THEN -1 ELSE CHOOSE m \in fds : \A f \in fds : f <= m

\* The highest descriptor; that of the pipe is not among those looked at again.
Highest == IF max_fd # -1 THEN max_fd
           ELSE LET fds == {Fd[events[k]] : k \in 1..npolls}
                IN  IF fds = {} THEN -1 ELSE CHOOSE m \in fds : \A f \in fds : f <= m

Finite == {e \in Events : ev[e].tq = "finite"}

\* evq_wait up to select; which deadline is the next is left open.
EnterSelect(limit) ==
  /\ at = "test" /\ ~stop /\ nevents # 0
  /\ max_fd' = Highest
  /\ sel' = [npolls |-> npolls, readset |-> readset, max_fd |-> Highest]
  /\ until' \in IF limit THEN Finite \cup {"limit"} ELSE IF Finite = {} THEN {"never"} ELSE Finite
  /\ hit' = {} /\ i' = 0 /\ left' = 0 /\ meddled' = {}
  /\ at' = "select"
  /\ UNCHANGED <<ev, queue, events, npolls, readset, pipe, list, due, abandoned>>

PipeIsWatched == PipeFd <= sel.max_fd
PipeIsReadable == pipe /\ PipeIsWatched
Watched == {f \in sel.readset : Fd[f] <= sel.max_fd}

SelectFinds(fds) ==
  /\ at = "select" /\ fds \subseteq Watched /\ (fds # {} \/ PipeIsReadable)
  /\ hit' = fds \cup (IF PipeIsReadable THEN {"pipe"} ELSE {})
  /\ left' = Cardinality(fds)
  /\ i' = 1
  /\ at' = "found"
  /\ UNCHANGED <<ev, queue, polling, pipe, list, sel, meddled, until, due, abandoned>>

\* The time is over.
SelectTimesOut ==
  /\ at = "select" /\ until # "never" /\ ~PipeIsReadable
  /\ at' = "timedout"
  /\ UNCHANGED <<ev, queue, polling, pipe, list, scan, until, due, abandoned>>

\* A signal arrives: select fails with EINTR, which is no failure of the loop.
SelectIsInterrupted ==
  /\ at = "select"
  /\ at' = "eintr"
  /\ UNCHANGED <<ev, queue, polling, pipe, list, scan, until, due, abandoned>>

-----------------------------------------------------------------------------
(* evq_wait after select, with the VM again *)

\* What timeout_process may find: the timer select waited for, unless it has another
\* deadline by now, and any others, since the VM may have been long in coming.
MayBeDue == {timers \in SUBSET Finite : until \in Events => until \in timers}

\* Back with the VM: empty the pipe if it was found readable, and begin the list.
Resume == /\ at \in {"found", "timedout", "eintr"}
          /\ pipe' = (pipe /\ "pipe" \notin hit)
          /\ at' = CASE at = "found" -> "poll"
                      [] at = "timedout" -> "expire"
                      [] at = "eintr" -> "merge"
          /\ due' \in IF at = "timedout" THEN MayBeDue ELSE {{}}
          /\ list' = Nil
          /\ until' = "never"
          /\ UNCHANGED <<ev, queue, polling, scan, abandoned>>

\* The locals of evq_wait are not used any more.
ScanIsOver == sel' = Unused /\ hit' = {} /\ i' = 0 /\ left' = 0 /\ meddled' = {}

\* ACTIVE, and to the head of the list.
Listed(e) == [ev EXCEPT ![e].active = TRUE, ![e].next = list]

Found(e) == ev[e].wants /\ e \in hit

\* Where the scan stands.  It goes by the npolls that evq_wait read before select.
Scanning == at = "poll" /\ i <= sel.npolls /\ left > 0

\* A descriptor that was deleted in select, or moved to the place of one that was,
\* may still stand at its old place, behind the others.
Astray(e) == ~ev[e].evq \/ e \in Members(list)

\* One turn of the scan, for a descriptor that is ready: a one-shot event is
\* deleted, and the array is compacted under the scan.
ScanFinds ==
  /\ Scanning
  /\ LET e == events[i]
     IN  /\ Found(e) /\ ~Astray(e)
         /\ list' = e
         /\ IF e \in OneShot THEN evq_del(e, Listed(e))
            ELSE ev' = Listed(e) /\ Forget(e) /\ UNCHANGED <<nevents, polling>>
         /\ abandoned' = abandoned \ {e}
  /\ i' = i + 1 /\ left' = left - 1
  /\ UNCHANGED <<stop, intr, object_events, watching, pipe, at, sel, hit, meddled, due>>

\* A deleted event is listed and called although its data are gone, or deleted
\* again, through its NULL evq, if it is for one shot; one that is met twice is
\* linked to itself.  The model goes no further.
ScanBreaks ==
  /\ Scanning /\ Found(events[i]) /\ Astray(events[i])
  /\ at' = "broken"
  /\ UNCHANGED <<ev, queue, polling, pipe, list, scan, until, due, abandoned>>

\* Whether an event that was deleted still asks to be read is not known any more.
ScanPasses ==
  /\ Scanning
  /\ ~Found(events[i]) \/ ~ev[events[i]].known
  /\ i' = i + 1
  /\ UNCHANGED <<ev, queue, polling, pipe, at, list, sel, hit, left, meddled, until, due,
                 abandoned>>

\* As it would be if the scan went by the number of descriptors of now.
ScanEndsByCount ==
  /\ at = "poll" /\ (i > npolls \/ left = 0)
  /\ at' = "merge"
  /\ UNCHANGED <<ev, queue, polling, pipe, list, scan, until, due, abandoned>>

ScanEnds ==
  /\ at = "poll" /\ (i > sel.npolls \/ left = 0)
  /\ at' = "merge"
  /\ UNCHANGED <<ev, queue, polling, pipe, list, scan, until, due, abandoned>>

\* timeout_process lists the timers that have expired (module TimerQueue).
Expire(e) ==
  /\ at = "expire" /\ e \in due
  /\ ev' = [Listed(e) EXCEPT ![e].expired = TRUE]
  /\ list' = e
  /\ due' = due \ {e}
  /\ abandoned' = abandoned \ {e}
  /\ UNCHANGED <<queue, polling, pipe, at, scan, until>>

ExpireEnds ==
  /\ at = "expire" /\ due = {} /\ list # Nil
  /\ at' = "merge"
  /\ UNCHANGED <<ev, queue, polling, pipe, list, scan, until, due, abandoned>>

\* Nothing has expired: EVQ_TIMEOUT, and the loop ends.
LoopTimesOut ==
  /\ at = "expire" /\ due = {} /\ list = Nil
  /\ at' = "out"
  /\ ScanIsOver
  /\ UNCHANGED <<ev, queue, polling, pipe, list, until, due, abandoned>>

-----------------------------------------------------------------------------
(* levq_loop after evq_wait *)

EndsOf(h) == {e \in Members(h) : ev[e].next = Nil}

\* With nothing ready, an interrupt is answered; its flag waits for such a turn.
AfterMerge(l) == /\ list' = l
                 /\ at' = IF l # Nil THEN "list" ELSE IF intr THEN "interrupt" ELSE "test"
                 /\ intr' = (intr /\ l # Nil)

\* The events of objects come before those of evq_wait.
Merge ==
  /\ at = "merge"
  /\ AfterMerge(IF object_events = Nil THEN list ELSE object_events)
  /\ object_events' = Nil
  /\ ScanIsOver
  /\ ev' = [e \in Events |-> IF e \in EndsOf(object_events)
                             THEN [ev[e] EXCEPT !.next = list] ELSE ev[e]]
  /\ UNCHANGED <<nevents, stop, watching, polling, pipe, until, due, abandoned>>

InterruptReturns ==
  /\ at = "interrupt"
  /\ at' = "test"
  /\ UNCHANGED <<ev, queue, polling, pipe, list, scan, until, due, abandoned>>

ListEnds ==
  /\ at = "list" /\ list = Nil
  /\ at' = "test"
  /\ UNCHANGED <<ev, queue, polling, pipe, list, scan, until, due, abandoned>>

\* As it would be if EVENT_DELETE were not looked at.
CallDeleted ==
  /\ at = "list" /\ list # Nil
  /\ at' = IF ev[list].expired /\ ev[list].tq = "none" THEN "crashed" ELSE "callback"
  /\ UNCHANGED <<ev, queue, polling, pipe, list, scan, until, due, abandoned>>

\* The callback is called.  For an event that has expired the loop reads ev->tq,
\* which an earlier callback may have taken away.
Call ==
  /\ at = "list" /\ list # Nil /\ ~ev[list].delete
  /\ at' = IF ev[list].expired /\ ev[list].tq = "none" THEN "crashed" ELSE "callback"
  /\ UNCHANGED <<ev, queue, polling, pipe, list, scan, until, due, abandoned>>

\* A deleted event is passed over, and its data go now.
PassOver ==
  /\ at = "list" /\ list # Nil /\ ev[list].delete
  /\ ev' = [ev EXCEPT ![list] = Fresh]
  /\ list' = ev[list].next
  /\ UNCHANGED <<queue, polling, pipe, at, scan, until, due, abandoned>>

\* "clear is_active and result flags", "delete if called {evq_del | one_shot}".
\* next_ready is not read again before it is set; Nil stands for what is left there.
CallbackReturns ==
  /\ at = "callback"
  /\ ev' = [ev EXCEPT ![list] = IF ev[list].evq
                               THEN [@ EXCEPT !.active = FALSE, !.expired = FALSE, !.next = Nil]
                               ELSE Fresh]
  /\ list' = ev[list].next
  /\ at' = "list"
  /\ UNCHANGED <<queue, polling, pipe, scan, until, due, abandoned>>

\* An error in a callback leaves levq_loop, and the list as it is.
CallbackFails ==
  /\ at = "callback" /\ list \in Failing
  /\ at' = "out"
  /\ abandoned' = abandoned \cup Members(list)
  /\ list' = Nil
  /\ UNCHANGED <<ev, queue, polling, pipe, scan, until, due>>

-----------------------------------------------------------------------------

\* What the program does, one call at a time.
ProgramCalls == \/ \E e \in Events : Del(e) \/ Change(e)
                \/ \E e \in Events, msec \in {"none", "finite", "infinite"} :
                     Add(e, msec) \/ SetTimeout(e, msec)
                \/ Interrupt \/ Stop \/ LoopBegins
                \/ Trigger \/ TriggerEnd \/ TriggerHangs

\* What the loop does by itself.
LoopSteps == \/ LoopEnds \/ Resume \/ ScanFinds \/ ScanBreaks \/ ScanPasses \/ ScanEnds
             \/ (\E e \in Events : Expire(e)) \/ ExpireEnds \/ LoopTimesOut
             \/ Merge \/ ListEnds \/ Call \/ PassOver
             \/ \E limit \in Limits : EnterSelect(limit)

\* What the world does: descriptors, time, signals.
Returns == \/ \E fds \in SUBSET FdEvents : SelectFinds(fds)
           \/ SelectTimesOut \/ SelectIsInterrupted

Callbacks == CallbackReturns \/ InterruptReturns \/ CallbackFails

Next == ProgramCalls \/ LoopSteps \/ Returns \/ Callbacks
Spec == Init /\ [][Next]_vars

-----------------------------------------------------------------------------
(* Safety *)

\* The events that the loop has found ready and not dealt with yet.
InHand == Members(list)
Pending == Members(object_events)
Terminates(h) == \E k \in 0..Cardinality(Events) : Chain(h)[k] = Nil

\* next_ready links two lists, that of the loop and that of the objects, while
\* events are deleted, restarted and triggered under them: both end, no event is
\* in two of them, none in them has lost its data, and EVENT_ACTIVE marks those in
\* them, apart from those that an error in a callback has left behind.
ReadyListsSound ==
  /\ Terminates(list) /\ Terminates(object_events)
  /\ InHand \cap Pending = {}
  /\ \A e \in InHand \cup Pending : ev[e].known
  /\ {e \in Events : ev[e].active} = InHand \cup Pending \cup abandoned

\* evq->nevents decides when the loop ends.  It is the number of events that may
\* still get ready, on whatever way the others left: deleted by a callback or by
\* another thread, called for their one shot, gone with their object.
CountsEvents == nevents = Cardinality({e \in Events : ev[e].evq})

\* The array of events, their indexes in it, the set for select and its highest
\* number agree, however descriptors are added, changed, deleted and moved.
PollsAreKnown ==
  /\ {events[k] : k \in 1..npolls} = {e \in FdEvents : ev[e].evq}
  /\ \A k \in 1..npolls : ev[events[k]].index = k
  /\ readset = {e \in FdEvents : ev[e].evq /\ ev[e].wants}
  /\ max_fd = -1 \/ \A e \in FdEvents : ev[e].evq => Fd[e] <= max_fd

\* The scan of the array passes over no descriptor that select has found, although
\* it deletes one-shot events on its way and moves the last event to their places,
\* and other threads have deleted others in select; and it goes astray only if they
\* have.
FoundAreListed ==
  /\ at = "merge" => {e \in hit \ ({"pipe"} \cup meddled) : ev[e].wants} \subseteq Members(list)
  /\ at = "broken" => meddled # {}

\* Select does without the pipe, through which triggers wake it, only while no
\* descriptor above the pipe is registered: the cached highest number, and the one
\* computed again without the pipe, reach all that are.
SelectHearsPipe ==
  [][at = "test" /\ at' = "select" =>
       PipeIsWatched' \/ \A e \in FdEvents : ev[e].evq => Fd[e] < PipeFd]_vars

InCallback == at = "callback" \/ (at = "hung" /\ list # Nil)

\* No trigger is slept through: as long as events of objects wait to be merged, there
\* is something to read in the pipe, although it is emptied after select, with
\* triggers before and after that, and keeps no count of them.  Only between
\* emptying the pipe and the merge does the loop go on by itself.
TriggersWake == object_events # Nil => pipe \/ at \in {"poll", "merge", "broken"}

\* The queue implements a dispatcher of events.
Dispatching == INSTANCE Dispatcher WITH
  status <- [e \in Events |->
               IF ~ev[e].known \/ ev[e].delete THEN "absent"
               ELSE IF ev[e].active /\ e \notin abandoned /\ ~(InCallback /\ e = list)
                    THEN "ready" ELSE "idle"],
  calling <- IF InCallback THEN {list} ELSE {}
ImplementsDispatcher == Dispatching!Spec

-----------------------------------------------------------------------------
(* Liveness.  A thread in the loop goes on whenever it may, callbacks return and *)
(* select returns when its pipe is readable.  Nothing is assumed of the program, *)
(* of descriptors and of timers.                                                 *)

FairSpec == /\ Spec /\ WF_vars(LoopSteps)
            /\ WF_vars(CallbackReturns \/ InterruptReturns)
            /\ WF_vars(PipeIsReadable /\ \E fds \in SUBSET FdEvents : SelectFinds(fds))

\* An event triggered while the loop runs, by a callback or by another thread, in
\* select, just before or just after it, is called, unless the loop ends first or
\* goes into a select that does without the pipe.
TriggeredIsCalled ==
  \A e \in ObjectEvents :
    (ev[e].active /\ e \notin abandoned)
      ~> \/ ~ev[e].active \/ at \in {"out", "hung", "crashed", "broken"}
         \/ at = "select" /\ ~PipeIsWatched
=============================================================================
