------------------------------- MODULE Signals --------------------------------
(* Signals and the ends of child processes as events of a queue:               *)
(* luasys-MOD/src/event/signal.c, with what evq_add and evq_del (select.c) and  *)
(* the loop (sys_evq.c) do for such events.                                     *)
(*                                                                              *)
(* The calls and the loop run under the VM mutex; a signal arrives between any  *)
(* two of their steps, and its handler reads what they are about to change.  So *)
(* a call has a step for each write the handler can tell.                       *)
EXTENDS Integers, Sequences, FiniteSets, SequencesExt

CONSTANTS Events,    \* of signals and of children, all of one queue
          Names,     \* the signals of sig_names
          Children,
          Watches,   \* for each event, the signal or the child
          OneShot    \* events of signals that are added for one shot

SIGCHLD == "CHLD"
Signos == Names \cup {SIGCHLD}
signo == [e \in Events |-> IF Watches[e] \in Children THEN SIGCHLD ELSE Watches[e]]

ASSUME SignalAssumption ==
  /\ IsFiniteSet(Events) /\ SIGCHLD \notin Names /\ Names \cap Children = {}
  /\ Watches \in [Events -> Names \cup Children] /\ OneShot \subseteq Events

VARIABLES known,       \* events in the environment of the queue
          evq,         \* events with ev->evq
          active, delete,  \* EVENT_ACTIVE, EVENT_DELETE
          nevents,
          g_SigEvents, \* for each signal the list of its events
          action,      \* what sigaction has set
          call,        \* the call under way, <<step, event>>, or <<>>
          at,          \* where the loop stands, or how the process ended
          set, todo,   \* in signal_process: the bits; numbers read, not looked at
          walk,        \* in signal_actives: the events still to come
          current,     \* the event whose callback runs, while one does
          pending,     \* signals the kernel has not delivered yet
          pipe,        \* numbers in the pipe of the queue
          child

event == <<known, evq, active, delete, nevents, g_SigEvents>>
loop == <<at, set, todo, walk, current>>
world == <<pending, pipe, child>>
vars == <<event, action, call, loop, world>>

Steps == {"adding", "deleting", "resetting"}
Ends == {"killed", "crashed"}

TypeOK == /\ known \subseteq Events /\ evq \subseteq Events
          /\ active \subseteq Events /\ delete \subseteq Events
          /\ nevents \in Nat
          /\ g_SigEvents \in [Signos -> Seq(Events)]
          /\ action \in [Signos -> {"default", "ignore", "handler"}]
          /\ call \in (Steps \X Events) \cup {<<>>}
          /\ at \in {"out", "test", "select", "process", "reap", "list", "callback"} \cup Ends
          /\ set \subseteq Signos /\ todo \subseteq Signos /\ walk \in Seq(Events)
          /\ current \subseteq Events
          /\ pending \subseteq Signos /\ pipe \subseteq Signos
          /\ child \in [Children -> {"unborn", "alive", "zombie", "reaped", "told"}]

Init == /\ known = {} /\ evq = {} /\ active = {} /\ delete = {} /\ nevents = 0
        /\ g_SigEvents = [s \in Signos |-> <<>>]
        /\ action = [s \in Signos |-> "default"]
        /\ call = <<>> /\ at = "out"
        /\ set = {} /\ todo = {} /\ walk = <<>> /\ current = {}
        /\ pending = {} /\ pipe = {}
        /\ child = [c \in Children |-> "unborn"]

Lives == at \notin Ends
In(step, e) == Lives /\ call = <<step, e>>
VmFree == call = <<>> /\ at \in {"out", "select", "callback"}

-----------------------------------------------------------------------------
(* Calls *)

Link(e) == /\ g_SigEvents' = [g_SigEvents EXCEPT ![signo[e]] = <<e>> \o @]
           /\ nevents' = nevents + 1

\* evq_add, signal_add: for the first event of a signal the handler is installed
\* before the event is where the handler will look for it.
Add(e) == /\ VmFree /\ e \notin known
          /\ Watches[e] \in Children => child[Watches[e]] # "unborn"
          /\ known' = known \cup {e} /\ evq' = evq \cup {e}
          /\ IF g_SigEvents[signo[e]] = <<>>
             THEN /\ action' = [action EXCEPT ![signo[e]] = "handler"]
                  /\ call' = <<"adding", e>>
                  /\ UNCHANGED <<g_SigEvents, nevents>>
             ELSE Link(e) /\ UNCHANGED <<action, call>>
          /\ UNCHANGED <<active, delete, loop, world>>

Added(e) == /\ In("adding", e)
            /\ Link(e)
            /\ call' = <<>>
            /\ UNCHANGED <<known, evq, active, delete, action, loop, world>>

\* evq_del: the event has no queue any more, but is still in the list.
evq_del(e) == /\ evq' = evq \ {e}
              /\ nevents' = nevents - 1
              /\ call' = <<"deleting", e>>

\* levq_del; the data of an active event go when the loop has passed it.
Del(e) == /\ VmFree /\ e \in known
          /\ IF e \in active THEN delete' = delete \cup {e} /\ UNCHANGED known
                             ELSE known' = known \ {e} /\ UNCHANGED delete
          /\ IF e \in evq THEN evq_del(e) ELSE UNCHANGED <<evq, nevents, call>>
          /\ UNCHANGED <<active, g_SigEvents, action, loop, world>>

Unlinked(e) == LET list == g_SigEvents[signo[e]]
               IN  RemoveAt(list, CHOOSE k \in DOMAIN list : list[k] = e)

\* As it would be if the handler went with the first event of the list.
signal_del_first(e) ==
  /\ In("deleting", e)
  /\ g_SigEvents' = [g_SigEvents EXCEPT ![signo[e]] = Unlinked(e)]
  /\ call' = IF Head(g_SigEvents[signo[e]]) = e THEN <<"resetting", e>> ELSE <<>>
  /\ UNCHANGED <<known, evq, active, delete, nevents, action, loop, world>>

\* As it would be if signal_del took the event off the count, as signal_add puts it on.
signal_del_counting(e) ==
  /\ In("deleting", e)
  /\ g_SigEvents' = [g_SigEvents EXCEPT ![signo[e]] = Unlinked(e)]
  /\ nevents' = nevents - 1
  /\ call' = IF Unlinked(e) = <<>> THEN <<"resetting", e>> ELSE <<>>
  /\ UNCHANGED <<known, evq, active, delete, action, loop, world>>

\* The last event of a signal takes the handler along.
signal_del(e) ==
  /\ In("deleting", e)
  /\ g_SigEvents' = [g_SigEvents EXCEPT ![signo[e]] = Unlinked(e)]
  /\ call' = IF Unlinked(e) = <<>> THEN <<"resetting", e>> ELSE <<>>
  /\ UNCHANGED <<known, evq, active, delete, nevents, action, loop, world>>

Reset(e) == /\ In("resetting", e)
            /\ action' = [action EXCEPT ![signo[e]] = "default"]
            /\ call' = <<>>
            /\ UNCHANGED <<event, loop, world>>

\* evq_ignore_signal
Ignore(s, ignore) ==
  /\ VmFree
  /\ action' = [action EXCEPT ![s] = IF ignore THEN "ignore"
                                     ELSE IF g_SigEvents[s] # <<>> THEN "handler" ELSE "default"]
  /\ UNCHANGED <<event, call, loop, world>>

\* sys.spawn
Spawn(c) == /\ VmFree /\ child[c] = "unborn"
            /\ child' = [child EXCEPT ![c] = "alive"]
            /\ UNCHANGED <<event, action, call, loop, pending, pipe>>

-----------------------------------------------------------------------------
(* Signals *)

Raise(s) == /\ Lives /\ s \notin pending
            /\ pending' = pending \cup {s}
            /\ UNCHANGED <<event, action, call, loop, pipe, child>>

ChildEnds(c) == /\ Lives /\ child[c] = "alive"
                /\ child' = [child EXCEPT ![c] = "zombie"]
                /\ pending' = pending \cup {SIGCHLD}
                /\ UNCHANGED <<event, action, call, loop, pipe>>

Delivers(s) == Lives /\ s \in pending /\ pending' = pending \ {s}

Kills(s) == /\ Delivers(s) /\ action[s] = "default" /\ s # SIGCHLD
            /\ at' = "killed"
            /\ UNCHANGED <<event, action, call, set, todo, walk, current, pipe, child>>

\* The handler writes the number to the pipe of the first event's queue; of an
\* event that is being deleted it takes NULL for the queue.
signal_handler(s) ==
  /\ Delivers(s) /\ action[s] = "handler" /\ g_SigEvents[s] # <<>>
  /\ IF Head(g_SigEvents[s]) \in evq THEN pipe' = pipe \cup {s} /\ UNCHANGED at
     ELSE at' = "crashed" /\ UNCHANGED pipe
  /\ UNCHANGED <<event, action, call, set, todo, walk, current, child>>

\* Ignored, or the handler finds no event.
Swallowed(s) ==
  /\ Delivers(s)
  /\ \/ action[s] = "ignore" \/ (action[s] = "default" /\ s = SIGCHLD)
     \/ action[s] = "handler" /\ g_SigEvents[s] = <<>>
  /\ UNCHANGED <<event, action, call, loop, pipe, child>>

-----------------------------------------------------------------------------
(* The loop *)

Goes(from, to) == /\ call = <<>> /\ at = from /\ at' = to

LoopBegins == /\ Goes("out", "test")
              /\ UNCHANGED <<event, action, call, set, todo, walk, current, world>>

LoopTests == /\ Goes("test", IF nevents = 0 THEN "out" ELSE "select")
             /\ UNCHANGED <<event, action, call, set, todo, walk, current, world>>

\* select ends with EINTR: back to the test.
SelectIsInterrupted == /\ Goes("select", "test")
                       /\ UNCHANGED <<event, action, call, set, todo, walk, current, world>>

\* select finds the pipe, and the thread gets the VM.
SelectFinds == /\ Goes("select", "process") /\ pipe # {}
               /\ set' = {}
               /\ UNCHANGED <<event, action, call, todo, walk, current, world>>

\* signal_process reads all there is; what it has seen in this call it drops.
Reads == /\ Goes("process", "process") /\ todo = {} /\ walk = <<>> /\ pipe # {}
         /\ todo' = pipe \ set /\ set' = set \cup pipe
         /\ pipe' = {}
         /\ UNCHANGED <<event, action, call, walk, current, pending, child>>

ReadsNothing == /\ Goes("process", "list") /\ todo = {} /\ walk = <<>> /\ pipe = {}
                /\ UNCHANGED <<event, action, call, set, todo, walk, current, world>>

LooksAt(s) == /\ Goes("process", IF s = SIGCHLD THEN "reap" ELSE "process")
              /\ s \in todo /\ walk = <<>>
              /\ walk' = IF s = SIGCHLD THEN <<>> ELSE g_SigEvents[s]
              /\ todo' = todo \ {s}
              /\ UNCHANGED <<event, action, call, set, current, world>>

\* ACTIVE, and an event for one shot is deleted, under the walk through the list.
signal_active(e, once) ==
  /\ active' = active \cup {e}
  /\ IF once THEN evq_del(e) ELSE UNCHANGED <<evq, nevents, call>>

\* As it would be if the walk ended with an event that it deletes.
signal_actives_once == /\ Goes("process", "process") /\ walk # <<>>
                       /\ signal_active(Head(walk), Head(walk) \in OneShot)
                       /\ walk' = IF Head(walk) \in OneShot THEN <<>> ELSE Tail(walk)
                       /\ UNCHANGED <<known, delete, g_SigEvents, action, set, todo, current, world>>

signal_actives == /\ Goes("process", "process") /\ walk # <<>>
                  /\ signal_active(Head(walk), Head(walk) \in OneShot)
                  /\ walk' = Tail(walk)
                  /\ UNCHANGED <<known, delete, g_SigEvents, action, set, todo, current, world>>

\* waitpid brings a child that has ended; the first event of it is called.
FirstOf(c, k) == LET list == g_SigEvents[SIGCHLD]
                 IN  Watches[list[k]] = c /\ \A j \in 1..k - 1 : Watches[list[j]] # c

signal_children(c) ==
  /\ Goes("reap", "reap") /\ child[c] = "zombie"
  /\ child' = [child EXCEPT ![c] = "reaped"]
  /\ IF \A e \in ToSet(g_SigEvents[SIGCHLD]) : Watches[e] # c
     THEN UNCHANGED <<active, evq, nevents, call>>
     ELSE \E k \in DOMAIN g_SigEvents[SIGCHLD] :
            FirstOf(c, k) /\ signal_active(g_SigEvents[SIGCHLD][k], TRUE)
  /\ UNCHANGED <<known, delete, g_SigEvents, action, set, todo, walk, current, pending, pipe>>

\* As it would be if waitpid's 0, "none has ended yet", ended the loop as well.
NoZombies == /\ Goes("reap", "process") /\ \A c \in Children : child[c] # "zombie"
             /\ UNCHANGED <<event, action, call, set, todo, walk, current, world>>

\* It ends when there are no children; as long as one lives waitpid is called again.
NoChildren == /\ Goes("reap", "process") /\ \A c \in Children : child[c] \notin {"alive", "zombie"}
              /\ UNCHANGED <<event, action, call, set, todo, walk, current, world>>

ListEnds == /\ Goes("list", "test") /\ active = {}
            /\ UNCHANGED <<event, action, call, set, todo, walk, current, world>>

\* The callback of an event, with the status of the child; the order is left open.
Call(e) == /\ Goes("list", "callback") /\ e \in active \ delete
           /\ current' = {e}
           /\ child' = [c \in Children |-> IF Watches[e] = c /\ child[c] = "reaped" THEN "told" ELSE child[c]]
           /\ UNCHANGED <<event, action, call, set, todo, walk, pending, pipe>>

\* The loop has dealt with e; without a queue its data go.
Passed(e) == /\ active' = active \ {e} /\ delete' = delete \ {e}
             /\ known' = IF e \in evq THEN known ELSE known \ {e}

PassOver(e) == /\ Goes("list", "list") /\ e \in active \cap delete
               /\ Passed(e)
               /\ UNCHANGED <<evq, nevents, g_SigEvents, action, call, set, todo, walk, current, world>>

CallbackReturns == /\ Goes("callback", "list")
                   /\ \E e \in current : Passed(e)
                   /\ current' = {}
                   /\ UNCHANGED <<evq, nevents, g_SigEvents, action, call, set, todo, walk, world>>

-----------------------------------------------------------------------------

CallSteps == \E e \in Events : Added(e) \/ signal_del(e) \/ Reset(e)

LoopSteps == \/ LoopTests \/ Reads \/ ReadsNothing \/ (\E s \in Signos : LooksAt(s))
             \/ signal_actives \/ (\E c \in Children : signal_children(c)) \/ NoChildren
             \/ ListEnds \/ \E e \in Events : Call(e) \/ PassOver(e)

ProgramCalls == \/ \E e \in Events : Add(e) \/ Del(e)
                \/ \E s \in Names, ignore \in BOOLEAN : Ignore(s, ignore)
                \/ (\E c \in Children : Spawn(c)) \/ LoopBegins

Arrives(s) == Kills(s) \/ signal_handler(s) \/ Swallowed(s)

Next == \/ CallSteps \/ LoopSteps \/ ProgramCalls
        \/ SelectIsInterrupted \/ SelectFinds \/ CallbackReturns
        \/ (\E s \in Signos : Arrives(s)) \/ (\E s \in Names : Raise(s))
        \/ \E c \in Children : ChildEnds(c)

Spec == Init /\ [][Next]_vars

-----------------------------------------------------------------------------
(* Safety *)

\* However events come and go, by calls, by their one shot, under the walk through
\* their list: a signal somebody waits for is not left to its default action, which
\* ends the process, and one nobody waits for is not left to a handler that swallows it.
HandlersAgree == call = <<>> => \A s \in Signos : /\ g_SigEvents[s] # <<>> => action[s] # "default"
                                                  /\ action[s] = "handler" => g_SigEvents[s] # <<>>

\* Each event of the queue is in the list of its signal, once, and counted, once,
\* although the count goes up in signal_add and down in evq_del.
CountsSignals == call = <<>> =>
  /\ nevents = Cardinality(evq)
  /\ \A s \in Signos : IsInjective(g_SigEvents[s])
                       /\ ToSet(g_SigEvents[s]) = {e \in evq : signo[e] = s}

-----------------------------------------------------------------------------
(* Liveness.  The loop goes on, callbacks return, the kernel delivers signals, but  *)
(* not so fast that the pipe is never found empty, and the loop gets the VM in the  *)
(* end.  Children need not end.                                                     *)

FairSpec == /\ Spec /\ WF_vars(LoopSteps) /\ WF_vars(CallSteps)
            /\ SF_vars(SelectFinds) /\ SF_vars(ReadsNothing) /\ SF_vars(CallbackReturns)
            /\ \A s \in Signos : WF_vars(Arrives(s))

LoopIsOver == at \in {"out"} \cup Ends

\* waitpid returns 0, time and again, with the VM locked: a child lives and none has
\* ended that was not waited for.
Spinning == /\ at = "reap" /\ \A c \in Children : child[c] # "zombie"
            /\ \E c \in Children : child[c] = "alive"

\* A signal whose number has got to the pipe makes all its events active, unless
\* they are deleted, the loop is over before or it spins for ever over a child that
\* does not end.
SignalIsCalled == \A e \in Events : Watches[e] \in Names =>
  ((Watches[e] \in pipe /\ e \in evq)
     ~> (e \in active \/ e \notin evq \/ LoopIsOver \/ []Spinning))

\* The end of a child that was watched when it ended is told, unless the event is
\* deleted before: not even a signal that arrives while the loop deals with the one
\* before, and is dropped as seen already, keeps it from being found.  But another
\* child that does not end keeps the loop from telling it.
ChildIsReported == \A e \in Events : Watches[e] \in Children =>
  LET c == Watches[e]
  IN  (child[c] = "zombie" /\ SIGCHLD \in pending /\ e \in ToSet(g_SigEvents[SIGCHLD]))
         ~> (child[c] = "told" \/ e \notin known \/ e \in delete \/ LoopIsOver \/ []Spinning)
=============================================================================
