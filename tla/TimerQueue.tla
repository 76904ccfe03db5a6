----------------------------- MODULE TimerQueue -----------------------------
(* The timeouts of an event queue (luasys-MOD/src/event/timeout.c) and the use *)
(* evq_wait (event/select.c) makes of them.  Events with the same timeout are  *)
(* in one queue, the one that expires first at its head.  Times are counted    *)
(* modulo 2^w and compared as signed numbers.                                  *)
EXTENDS Integers, Sequences, FiniteSets, SequencesExt, FiniteSetsExt

CONSTANTS Timers,
          Msecs,       \* the finite timeouts the program asks for
          MinTimeout,  \* MIN_TIMEOUT: what expires so soon expires now
          HalfRange,   \* 2^(w-1), w the width of msec_t
          StartTimes,  \* what get_milliseconds may say at the start
          MaxTime,     \* bound: when the clock stops
          LoopTimeouts,\* the timeouts evq:loop is called with
          Hasty        \* timers started by other threads during an unlimited wait

ASSUME TimerAssumption ==
  /\ Msecs \subseteq Nat \ {0} /\ MinTimeout \in Nat /\ HalfRange \in Nat \ {0}
  /\ MaxTime \in Nat /\ StartTimes \subseteq 0..MaxTime
  /\ LoopTimeouts \subseteq Nat /\ Hasty \subseteq Timers

VARIABLES clock,     \* milliseconds, not wrapped
          queue,     \* queue[m]: the events in the timeout_queue of m
          timeout,   \* ev->timeout
          wait,      \* how the select under way is limited, or "none", "unlimited"
          until,     \* when that select returns at the latest
          ready      \* the timers evq_wait returned last, until it is called again

vars == <<clock, queue, timeout, wait, until, ready>>

Range2 == 2 * HalfRange
Wrap(x) == x % Range2
Signed(x) == IF Wrap(x) >= HalfRange THEN Wrap(x) - Range2 ELSE Wrap(x)   \* (long) x
Infinite == Range2 - 1                       \* TIMEOUT_INFINITE, as a msec_t
Lists == Msecs \cup {Infinite}
get_milliseconds == Wrap(clock)

Members(m) == ToSet(queue[m])
Queued == UNION {Members(m) : m \in Msecs}   \* the timers that can expire

TypeOK == /\ clock \in 0..MaxTime
          /\ queue \in [Lists -> Seq(Timers)]
          /\ timeout \in [Timers -> 0..Range2 - 1]
          /\ wait \in {"none", "limited", "unlimited"}
          /\ until \in Nat
          /\ ready \subseteq Timers

Init == /\ clock \in StartTimes
        /\ queue = [m \in Lists |-> <<>>]
        /\ timeout = [t \in Timers |-> 0]
        /\ wait = "none" /\ until = 0 /\ ready = {}

-----------------------------------------------------------------------------

Without(q, t) == LET k == CHOOSE k \in DOMAIN q : q[k] = t
                 IN  IF t \in ToSet(q) THEN RemoveAt(q, k) ELSE q
Taken(t) == [m \in Lists |-> Without(queue[m], t)]

\* As it would be if a restarted timer kept its place.
timeout_reset_in_place(t, m, now) ==
  /\ timeout' = [timeout EXCEPT ![t] = IF m = Infinite THEN @ ELSE Wrap(m + now)]
  /\ UNCHANGED queue

\* To the end of its queue, with a new deadline.
timeout_reset(t, m, now) ==
  /\ timeout' = [timeout EXCEPT ![t] = IF m = Infinite THEN @ ELSE Wrap(m + now)]
  /\ queue' = [queue EXCEPT ![m] = IF m = Infinite THEN @ ELSE Append(Without(@, t), t)]

\* As it would be without the timeout_del of the queue it was in.
timeout_add_twice(t, m) ==
  \/ /\ t \in Members(m)
     /\ timeout_reset(t, m, get_milliseconds)
  \/ /\ t \notin Members(m)
     /\ queue' = [queue EXCEPT ![m] = Append(@, t)]
     /\ timeout' = [timeout EXCEPT ![t] = Wrap(m + get_milliseconds)]

\* Into the queue of m, out of the one it was in.
timeout_add(t, m) ==
  \/ /\ t \in Members(m)
     /\ timeout_reset(t, m, get_milliseconds)
  \/ /\ t \notin Members(m)
     /\ queue' = [Taken(t) EXCEPT ![m] = Append(@, t)]
     /\ timeout' = [timeout EXCEPT ![t] = Wrap(m + get_milliseconds)]

\* event_set_timeout, evq_add_timer: from a callback, or from another thread
\* while the loop waits.
Start(t, m) == /\ wait = "unlimited" => t \in Hasty
               /\ timeout_add(t, m)
               /\ UNCHANGED <<clock, wait, until, ready>>

\* timeout_del, by event_set_timeout, evq_del or evq_del_timer.  Its deadline is
\* not read any more; 0 stands for whatever is left there.
Stop(t) == /\ \E m \in Lists : t \in Members(m)
           /\ queue' = Taken(t)
           /\ timeout' = [timeout EXCEPT ![t] = 0]
           /\ UNCHANGED <<clock, wait, until, ready>>

\* sys_trigger_objevent restarts the timer of an event it triggers.
Trigger(t) == /\ \E m \in Lists : /\ t \in Members(m)
                                  /\ timeout_reset(t, m, get_milliseconds)
              /\ UNCHANGED <<clock, wait, until, ready>>

-----------------------------------------------------------------------------
(* evq_wait *)

Heads == {timeout[Head(queue[m])] : m \in {l \in Msecs : queue[l] # <<>>}}

\* The least of a set of times, by the signed comparison of the code.
Earliest(times) == CHOOSE x \in times : \A y \in times : Signed(x) <= Signed(y)

\* As it would be if only the first of the queues were looked at.
timeout_get_first(times) ==
  LET first == {timeout[Head(queue[m])] : m \in {l \in Msecs : queue[l] # <<>> /\
                       \A k \in Msecs : queue[k] # <<>> => l <= k}}
      left == Signed(Earliest(IF first = {} THEN times ELSE first) - get_milliseconds)
  IN  IF left < 0 THEN 0 ELSE left

\* timeout_get: how long to wait, for the heads and the limit the caller set.
timeout_get(times) ==
  LET left == Signed(Earliest(times) - get_milliseconds)
  IN  IF left < 0 THEN 0 ELSE left

Limits(limit) == Heads \cup {Wrap(x + get_milliseconds) : x \in limit}

\* {} stands for a loop without a timeout of its own.
LoopLimits == {{}} \cup {{x} : x \in LoopTimeouts}

WaitBegins(limit) ==
  /\ wait = "none"
  /\ IF Limits(limit) = {} THEN wait' = "unlimited" /\ until' = 0
     ELSE /\ wait' = "limited"
          /\ until' = clock + timeout_get(Limits(limit))
  /\ ready' = {}
  /\ UNCHANGED <<clock, queue, timeout>>

\* select found event t: its timer starts again.  The time is read only after a
\* limited wait; after an unlimited one "timeout" is still TIMEOUT_INFINITE.
WaitFinds(t) ==
  /\ wait # "none"
  /\ \/ \E m \in Lists :
          /\ t \in Members(m)
          /\ timeout_reset(t, m, IF wait = "limited" THEN get_milliseconds ELSE Infinite)
     \/ /\ \A m \in Lists : t \notin Members(m)
        /\ UNCHANGED <<queue, timeout>>
  /\ wait' = "none" /\ until' = 0
  /\ UNCHANGED <<clock, ready>>

\* The events at the front of a queue that have expired.
Expired(q) ==
  LET late == {i \in 1..Len(q) : Signed(timeout[q[i]]) > Signed(get_milliseconds + MinTimeout)}
  IN  IF late = {} THEN q ELSE SubSeq(q, 1, Min(late) - 1)

\* As it would be if they stayed where they are.
Unrecycled(q) == q

\* "recycle timeout queue": those that expired go to its end.
Recycled(q) == SubSeq(q, Len(Expired(q)) + 1, Len(q)) \o Expired(q)

\* timeout_process, when select has timed out.
WaitTimesOut ==
  /\ wait = "limited" /\ clock >= until
  /\ queue' = [m \in Lists |-> IF m = Infinite THEN queue[m] ELSE Recycled(queue[m])]
  /\ timeout' = [t \in Timers |->
       LET ms == {m \in Msecs : t \in ToSet(Expired(queue[m]))}
       IN  IF ms = {} THEN timeout[t] ELSE Wrap((CHOOSE m \in ms : TRUE) + get_milliseconds)]
  /\ ready' = UNION {ToSet(Expired(queue[m])) : m \in Msecs}
  /\ wait' = "none" /\ until' = 0
  /\ UNCHANGED clock

Tick == /\ clock < MaxTime
        /\ clock' = clock + 1
        /\ UNCHANGED <<queue, timeout, wait, until, ready>>

Next == \/ Tick \/ WaitTimesOut
        \/ \E limit \in LoopLimits : WaitBegins(limit)
        \/ \E t \in Timers : Stop(t) \/ Trigger(t) \/ WaitFinds(t)
        \/ \E t \in Timers, m \in Lists : Start(t, m)

Spec == Init /\ [][Next]_vars

-----------------------------------------------------------------------------

\* When a timer expires, told from the difference of its deadline and the clock,
\* which no wrap of the counter disturbs.
Due(t) == clock + Signed(timeout[t] - get_milliseconds)

\* timeout_process stops at the first event of a queue that has not expired, and
\* timeout_get looks at heads only: both are right only if every queue, after any
\* starts, stops, restarts and expirations, is in the order of its deadlines.
HeadsAreEarliest == \A m \in Msecs : \A i, j \in 1..Len(queue[m]) :
                      i < j => Due(queue[m][i]) <= Due(queue[m][j])

\* An event is in one timeout queue, once: the two pointers prev and next serve
\* one list only.
InOneQueue == \A m \in Lists : /\ IsInjective(queue[m])
                               /\ \A l \in Lists : l # m => Members(l) \cap Members(m) = {}

\* Whenever evq_wait computes how long to sleep, with or without a timeout of the
\* loop's own, it would not sleep past the deadline of any timer, also while the
\* deadlines lie on both sides of the overflow of the counter.
NeverOversleeps == \A t \in Queued, limit \in LoopLimits :
                     \/ timeout_get(Limits(limit)) = 0
                     \/ clock + timeout_get(Limits(limit)) <= Due(t)

Period(t) == IF t \in Queued THEN CHOOSE m \in Msecs : t \in Members(m) ELSE 0

\* The lists of timeouts implement timers that go off when due.
Timing == INSTANCE Alarms WITH
            Periods <- Msecs, Slack <- MinTimeout, time <- clock,
            period <- [t \in Timers |-> Period(t)],
            due <- [t \in Timers |-> IF t \in Queued THEN Due(t) ELSE 0],
            ringing <- ready
ImplementsAlarms == Timing!Spec
=============================================================================
