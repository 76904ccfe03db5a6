------------------------------- MODULE Copas --------------------------------
(* The dispatcher of coroutines copas (copas-1.1.4/src/copas/copas.lua): the    *)
(* coroutines of a program wait for sockets, and each step of the loop resumes  *)
(* those whose sockets are ready, or that a watchdog thinks forgotten.          *)
EXTENDS Integers, Sequences, FiniteSets, SequencesExt

CONSTANTS Coroutines,
          Clients,      \* sockets of connections
          Server,       \* a listening socket
          Nil,
          Readers, Writers,  \* for each client, the coroutines that receive, that send
          Handler            \* for each client, the coroutine that handles it, or Nil

Sockets == Clients \cup {Server}
Dirs == {"read", "write"}     \* _reading, _writing
Users(d, s) == IF d = "read" THEN Readers[s] ELSE Writers[s]

ASSUME CopasAssumption ==
  /\ Server \notin Clients /\ Nil \notin Coroutines \cup Sockets \cup (Dirs \X Clients)
  /\ Readers \in [Clients -> SUBSET Coroutines] /\ Writers \in [Clients -> SUBSET Coroutines]
  /\ Handler \in [Clients -> Coroutines \cup {Nil}]

\* Two coroutines that wait for the same thing would strand the second: _readable_t
\* and _writable_t look at a socket once a step and take it out of the set.
OneUserEach == \A d \in Dirs, s \in Clients : \A x, y \in Users(d, s) : x = y

VARIABLES set, reverse, q,  \* of _reading and _writing: the array, the index of each
                            \* of its members or 0, the coroutines that wait
          log,        \* _reading_log, _writing_log: "fresh", or "old" if longer ago
                      \* than WATCH_DOG_TIMEOUT, or "none"
          due,        \* last_cleansing is longer ago than that
          sock,       \* of each client: "new", "open" or "closed"
          status,     \* of each coroutine: "new", "running", "waiting" or "dead"
          op,         \* the receive or send each coroutine is in, or Nil
          skt,        \* the socket that _doTick closes if the coroutine ends now
          stack,      \* the coroutines running, each resumed by the one before it
          tasks, evs  \* the tasks of a step still to do, and their events

sets == <<set, reverse, q>>
step == <<tasks, evs>>
threads == <<status, op, skt, stack>>
vars == <<sets, log, due, sock, threads, step>>

TypeOK == /\ set \in [Dirs -> Seq(Sockets)]
          /\ reverse \in [Dirs -> [Sockets -> Nat]]
          /\ q \in [Dirs -> [Clients -> Seq(Coroutines)]]
          /\ log \in [Dirs -> [Clients -> {"none", "fresh", "old"}]]
          /\ due \in BOOLEAN
          /\ sock \in [Clients -> {"new", "open", "closed"}]
          /\ status \in [Coroutines -> {"new", "running", "waiting", "dead"}]
          /\ op \in [Coroutines -> (Dirs \X Clients) \cup {Nil}]
          /\ skt \in [Coroutines -> Clients \cup {Nil}]
          /\ stack \in Seq(Coroutines)
          /\ tasks \in Seq(Dirs) /\ evs \in [Dirs -> SUBSET Sockets]

\* last_cleansing is 0 at first.
Init == /\ set = [d \in Dirs |-> <<>>]
        /\ reverse = [d \in Dirs |-> [s \in Sockets |-> 0]]
        /\ q = [d \in Dirs |-> [s \in Clients |-> <<>>]]
        /\ log = [d \in Dirs |-> [s \in Clients |-> "none"]]
        /\ due = TRUE
        /\ sock = [s \in Clients |-> "new"]
        /\ status = [c \in Coroutines |-> "new"]
        /\ op = [c \in Coroutines |-> Nil] /\ skt = [c \in Coroutines |-> Nil]
        /\ stack = <<>> /\ tasks = <<>> /\ evs = [d \in Dirs |-> {}]

-----------------------------------------------------------------------------
(* newset: the set d with s inserted and removed *)

insert(d, s) ==
  IF reverse[d][s] # 0 THEN UNCHANGED <<set, reverse>>
  ELSE /\ set' = [set EXCEPT ![d] = Append(@, s)]
       /\ reverse' = [reverse EXCEPT ![d][s] = Len(set[d]) + 1]

\* As it would be if the value that takes the place kept its old index.
remove_unindexed(d, s) ==
  LET k == reverse[d][s]
      top == Last(set[d])
  IN  IF k = 0 THEN UNCHANGED <<set, reverse>>
      ELSE /\ reverse' = [reverse EXCEPT ![d][s] = 0]
           /\ set' = [set EXCEPT ![d] = IF top = s THEN Front(@) ELSE [Front(@) EXCEPT ![k] = top]]

\* The last value takes the place of the one removed.
remove(d, s) ==
  LET k == reverse[d][s]
      top == Last(set[d])
  IN  IF k = 0 THEN UNCHANGED <<set, reverse>>
      ELSE IF top = s
      THEN /\ reverse' = [reverse EXCEPT ![d][s] = 0]
           /\ set' = [set EXCEPT ![d] = Front(@)]
      ELSE /\ reverse' = [reverse EXCEPT ![d][s] = 0, ![d][top] = k]
           /\ set' = [set EXCEPT ![d] = [Front(@) EXCEPT ![k] = top]]

push(d, s, c) == q' = [q EXCEPT ![d][s] = Append(@, c)]

-----------------------------------------------------------------------------
(* What a coroutine does while it runs *)

Runs(c) == stack # <<>> /\ Last(stack) = c

\* Its call of receive, send or connect, once begun, is the next it does.
May(c, d, s) == /\ Runs(c) /\ op[c] \in {Nil, <<d, s>>}
                /\ c \in Users(d, s) /\ sock[s] # "new"

\* receive, send, connect return, with data or with an error.
Done(c, d, s) ==
  /\ May(c, d, s)
  /\ log' = [log EXCEPT ![d][s] = "none"]
  /\ op' = [op EXCEPT ![c] = Nil]
  /\ UNCHANGED <<sets, due, sock, status, skt, stack, step>>

\* As it would be if the yield were not logged.
WaitsUnlogged(c, d, s) ==
  /\ May(c, d, s)
  /\ d = "read" => sock[s] = "open"
  /\ op' = [op EXCEPT ![c] = <<d, s>>]
  /\ insert(d, s) /\ push(d, s, c)
  /\ status' = [status EXCEPT ![c] = "waiting"]
  /\ skt' = [skt EXCEPT ![c] = Nil]
  /\ stack' = Front(stack)
  /\ UNCHANGED <<log, due, sock, step>>

\* They yield, and _doTick puts the coroutine into the set: on "timeout", which a
\* closed socket does not answer, or, in send, now and then in any case.
Waits(c, d, s) ==
  /\ May(c, d, s)
  /\ d = "read" => sock[s] = "open"
  /\ log' = [log EXCEPT ![d][s] = "fresh"]
  /\ op' = [op EXCEPT ![c] = <<d, s>>]
  /\ insert(d, s) /\ push(d, s, c)
  /\ status' = [status EXCEPT ![c] = "waiting"]
  /\ skt' = [skt EXCEPT ![c] = Nil]
  /\ stack' = Front(stack)
  /\ UNCHANGED <<due, sock, step>>

\* It returns, or an error ends it: _doTick closes the socket it was resumed with.
Ends(c) ==
  /\ Runs(c) /\ op[c] = Nil
  /\ status' = [status EXCEPT ![c] = "dead"]
  /\ sock' = IF skt[c] = Nil THEN sock ELSE [sock EXCEPT ![skt[c]] = "closed"]
  /\ skt' = [skt EXCEPT ![c] = Nil]
  /\ stack' = Front(stack)
  /\ UNCHANGED <<sets, log, due, op, step>>

Closes(c, s) == /\ Runs(c) /\ op[c] = Nil /\ sock[s] = "open"
                /\ c \in Readers[s] \cup Writers[s]
                /\ sock' = [sock EXCEPT ![s] = "closed"]
                /\ UNCHANGED <<sets, log, due, threads, step>>

\* A connection to elsewhere: no handler, no server.
Opens(c, s) == /\ Runs(c) /\ op[c] = Nil /\ sock[s] = "new" /\ Handler[s] = Nil
               /\ c \in Readers[s] \cup Writers[s]
               /\ sock' = [sock EXCEPT ![s] = "open"]
               /\ UNCHANGED <<sets, log, due, threads, step>>

Resume(c, s) == /\ status' = [status EXCEPT ![c] = "running"]
                /\ skt' = [skt EXCEPT ![c] = s]
                /\ stack' = Append(stack, c)

\* The program itself runs, between two steps or in a coroutine.
Idle == IF stack = <<>> THEN tasks = <<>> ELSE op[Last(stack)] = Nil

\* addthread, by a coroutine or between two steps: it runs at once, without a socket.
addthread(c) ==
  /\ status[c] = "new" /\ \A s \in Clients : Handler[s] # c
  /\ Idle
  /\ Resume(c, Nil)
  /\ UNCHANGED <<sets, log, due, sock, op, step>>

addserver == /\ Idle
             /\ insert("read", Server)
             /\ UNCHANGED <<q, log, due, sock, threads, step>>

-----------------------------------------------------------------------------
(* step *)

InSet(d) == ToSet(set[d])
Alive(s) == s = Server \/ (s \in Clients /\ sock[s] = "open")

\* As it would be if the watchdog looked at sockets still open only.
ForgottenAlive(d, ready) ==
  IF due THEN {s \in Clients : log[d][s] = "old" /\ Alive(s) /\ s \notin ready} ELSE {}

\* "if not r_evs[k] and duration(now, v) > WATCH_DOG_TIMEOUT"
Forgotten(d, ready) == IF due THEN {s \in Clients : log[d][s] = "old" /\ s \notin ready} ELSE {}

\* _select: closed sockets are never ready.  With nothing ready and nobody
\* forgotten the step is over; the tasks come in any order.
select(ready) ==
  /\ tasks = <<>> /\ stack = <<>>
  /\ \A d \in Dirs : \A s \in ready[d] : s \in InSet(d) /\ Alive(s)
  /\ log' = [d \in Dirs |-> [s \in Clients |->
               IF s \in Forgotten(d, ready[d]) THEN "none" ELSE log[d][s]]]
  /\ evs' = [d \in Dirs |-> ready[d] \cup Forgotten(d, ready[d])]
  /\ due' = FALSE
  /\ tasks' \in IF \A d \in Dirs : evs'[d] = {} THEN {<<>>}
                ELSE {<<"read", "write">>, <<"write", "read">>}
  /\ UNCHANGED <<sets, sock, threads>>

Ticks(d, s) == /\ stack = <<>> /\ tasks # <<>> /\ Head(tasks) = d /\ s \in evs[d]
               /\ evs' = [evs EXCEPT ![d] = @ \ {s}]

\* As it would be if the coroutine were looked at only.
tickKeeping(d, s) ==
  /\ Ticks(d, s)
  /\ remove(d, s)
  /\ IF q[d][s] = <<>> THEN UNCHANGED threads
     ELSE Resume(Head(q[d][s]), s) /\ UNCHANGED op
  /\ UNCHANGED <<q, log, due, sock, tasks>>

\* The first that waits for s is resumed, if any waits: _tickRead, _tickWrite.
tick(d, s) ==
  /\ Ticks(d, s)
  /\ remove(d, s)
  /\ q' = [q EXCEPT ![d][s] = IF @ = <<>> THEN @ ELSE Tail(@)]
  /\ IF q[d][s] = <<>> THEN UNCHANGED threads
     ELSE Resume(Head(q[d][s]), s) /\ UNCHANGED op
  /\ UNCHANGED <<log, due, sock, tasks>>

\* _accept: the handler runs at once.
accept(s) ==
  /\ Ticks("read", Server)
  /\ sock[s] = "new" /\ Handler[s] # Nil /\ status[Handler[s]] = "new"
  /\ sock' = [sock EXCEPT ![s] = "open"]
  /\ Resume(Handler[s], s)
  /\ UNCHANGED <<sets, log, due, op, tasks>>

acceptFails == /\ Ticks("read", Server)
               /\ UNCHANGED <<sets, log, due, sock, threads, tasks>>

TaskEnds == /\ stack = <<>> /\ tasks # <<>> /\ evs[Head(tasks)] = {}
            /\ tasks' = Tail(tasks)
            /\ UNCHANGED <<sets, log, due, sock, threads, evs>>

-----------------------------------------------------------------------------
(* Time: os.time() goes beyond WATCH_DOG_TIMEOUT. *)

Ages(d, s) == /\ log[d][s] = "fresh"
              /\ log' = [log EXCEPT ![d][s] = "old"]
              /\ UNCHANGED <<sets, due, sock, threads, step>>

\* So long that it has done so for all.
TimePasses == /\ log' = [d \in Dirs |-> [s \in Clients |-> IF log[d][s] = "fresh" THEN "old" ELSE log[d][s]]]
              /\ due' = TRUE
              /\ UNCHANGED <<sets, sock, threads, step>>

Selects == \E r, w \in SUBSET Sockets : select([d \in Dirs |-> IF d = "read" THEN r ELSE w])

Steps == \/ Selects \/ TaskEnds \/ acceptFails
         \/ \E s \in Clients : accept(s) \/ \E d \in Dirs : tick(d, s)

\* A coroutine lets the others go on.
LetsGo == \E c \in Coroutines : Ends(c) \/ \E d \in Dirs, s \in Clients : Waits(c, d, s)

Next == \/ Steps \/ LetsGo \/ TimePasses \/ addserver
        \/ \E c \in Coroutines : addthread(c)
        \/ \E c \in Coroutines, s \in Clients :
             Closes(c, s) \/ Opens(c, s) \/ \E d \in Dirs : Done(c, d, s)
        \/ \E d \in Dirs, s \in Clients : Ages(d, s)

Spec == Init /\ [][Next]_vars

-----------------------------------------------------------------------------
(* Safety *)

\* The array that select reads and the index of its members agree, whichever are
\* removed from its middle while others are put in.
SetsSound == \A d \in Dirs : /\ \A k \in DOMAIN set[d] : reverse[d][set[d][k]] = k
                             /\ \A s \in Sockets : reverse[d][s] # 0 => s \in InSet(d)

\* A coroutine that waits is in one queue, once, that of the call it is in; one that
\* runs or has ended is in none.  A second entry would resume a dead coroutine, and
\* its failure would close the socket under whoever uses it by then.
OneQueueEach ==
  /\ \A d \in Dirs, s \in Clients : IsInjective(q[d][s])
  /\ \A d \in Dirs, s \in Clients, c \in Coroutines :
       c \in ToSet(q[d][s]) <=> status[c] = "waiting" /\ op[c] = <<d, s>>
  /\ \A c \in Coroutines : status[c] = "waiting" => op[c] # Nil

\* Who waits for a socket can be woken: by select, which has the socket in its set,
\* and by the watchdog, which finds when it began to wait, unless it is on the list
\* of the step under way already.
WaitersCanBeWoken == \A d \in Dirs, s \in Clients :
  q[d][s] # <<>> => s \in InSet(d) /\ (log[d][s] # "none" \/ s \in evs[d])

-----------------------------------------------------------------------------
(* Liveness.  copas.loop(timeout) goes on and time passes; the coroutines give   *)
(* control back, as handlers that use the functions of copas do.                 *)

Goes == LetsGo \/ \E c \in Coroutines, d \in Dirs, s \in Clients :
                    op[c] = <<d, s>> /\ Done(c, d, s)

FairSpec == Spec /\ WF_vars(Steps) /\ WF_vars(Goes) /\ WF_vars(TimePasses)

\* Whoever waits is resumed in the end, though its socket never gets ready or was
\* closed, by another coroutine or by the dispatcher, while it waited.
WaitingIsResumed == \A c \in Coroutines : status[c] = "waiting" ~> status[c] # "waiting"
=============================================================================
