---------------------------- MODULE CopasProofs ----------------------------
(* The dispatcher of copas, for any coroutines, sockets and ways to use them. *)
EXTENDS Copas, SequenceFacts

-----------------------------------------------------------------------------
(* The sets of newset *)

LEMMA InsertKeeps ==
  ASSUME NEW d \in Dirs, NEW s \in Sockets,
         set \in [Dirs -> Seq(Sockets)], reverse \in [Dirs -> [Sockets -> Nat]],
         SetsSound, insert(d, s)
  PROVE  /\ set' \in [Dirs -> Seq(Sockets)] /\ reverse' \in [Dirs -> [Sockets -> Nat]]
         /\ SetsSound' /\ s \in InSet(d)'
         /\ \A e \in Dirs : InSet(e) \subseteq InSet(e)'
<1>1. CASE reverse[d][s] # 0
  BY <1>1 DEF insert, SetsSound, InSet
<1>2. CASE reverse[d][s] = 0
  <2> DEFINE n == Len(set[d]) + 1
  <2>1. /\ Append(set[d], s) \in Seq(Sockets) /\ ToSet(Append(set[d], s)) = ToSet(set[d]) \cup {s}
        /\ Append(set[d], s)[n] = s /\ n \in Nat \ {0}
        /\ DOMAIN Append(set[d], s) = 1 .. n /\ DOMAIN set[d] = 1 .. n - 1
        /\ \A k \in 1 .. n - 1 : Append(set[d], s)[k] = set[d][k]
    BY Appended, AppendProperties, LenProperties
  <2>2. /\ set' = [set EXCEPT ![d] = Append(set[d], s)]
        /\ reverse' = [reverse EXCEPT ![d][s] = n]
    BY <1>2 DEF insert
  <2>3. set' \in [Dirs -> Seq(Sockets)] /\ reverse' \in [Dirs -> [Sockets -> Nat]]
    BY <2>1, <2>2
  <2>4. \A e \in Dirs : InSet(e)' = IF e = d THEN InSet(e) \cup {s} ELSE InSet(e)
    BY <2>1, <2>2 DEF InSet
  <2>5. ASSUME NEW e \in Dirs, NEW k \in DOMAIN set'[e]
        PROVE  reverse'[e][set'[e][k]] = k
    <3>1. CASE e # d
      BY <3>1, <2>2 DEF SetsSound
    <3>2. CASE e = d /\ k = n
      BY <3>2, <2>1, <2>2
    <3>3. CASE e = d /\ k # n
      <4>1. k \in DOMAIN set[d] /\ set'[d][k] = set[d][k] /\ k # 0
        BY <3>3, <2>1, <2>2
      <4>2. reverse[d][set[d][k]] = k /\ set[d][k] \in Sockets
        BY <4>1, ElementOfSeq, <2>1 DEF SetsSound
      <4> QED
        BY <4>1, <4>2, <3>3, <1>2, <2>2
    <3> QED
      BY <3>1, <3>2, <3>3
  <2>6. \A e \in Dirs, x \in Sockets : reverse'[e][x] # 0 => x \in InSet(e)'
    BY <2>2, <2>4 DEF SetsSound
  <2> QED
    BY <2>3, <2>4, <2>5, <2>6 DEF SetsSound
<1> QED
  BY <1>1, <1>2

LEMMA RemoveKeeps ==
  ASSUME NEW d \in Dirs, NEW s \in Sockets,
         set \in [Dirs -> Seq(Sockets)], reverse \in [Dirs -> [Sockets -> Nat]],
         SetsSound, remove(d, s)
  PROVE  /\ set' \in [Dirs -> Seq(Sockets)] /\ reverse' \in [Dirs -> [Sockets -> Nat]]
         /\ SetsSound'
         /\ \A e \in Dirs : \A x \in InSet(e) : e # d \/ x # s => x \in InSet(e)'
<1>1. CASE reverse[d][s] = 0
  BY <1>1 DEF remove, SetsSound, InSet
<1>2. CASE reverse[d][s] # 0
  <2> DEFINE a == set[d]
             n == Len(a)
             k == reverse[d][s]
             f == Front(a)
             top == Last(a)
  <2>1. s \in InSet(d)
    BY <1>2 DEF SetsSound
  <2>2. a # <<>>
    BY <2>1, EmptyAsSet DEF InSet
  <2>3. /\ n \in Nat \ {0} /\ DOMAIN a = 1 .. n /\ f \in Seq(Sockets) /\ Len(f) = n - 1
        /\ DOMAIN f = 1 .. n - 1 /\ top \in Sockets
        /\ \A i \in 1 .. n - 1 : f[i] = a[i]
    BY <2>2, Fronted
  <2>4. /\ k \in 1 .. n /\ a[k] = s /\ a[n] = top
        /\ \A i \in 1 .. n : a[i] \in Sockets /\ reverse[d][a[i]] = i
    <3>1. \A i \in 1 .. n : a[i] \in Sockets /\ reverse[d][a[i]] = i
      BY <2>3, ElementOfSeq DEF SetsSound
    <3>2. PICK i \in 1 .. n : a[i] = s
      BY <2>1, <2>3 DEF InSet, ToSet
    <3>3. i = k
      BY <3>1, <3>2
    <3> QED
      BY <3>1, <3>2, <3>3 DEF Last
  <2> DEFINE g == IF top = s THEN f ELSE [f EXCEPT ![k] = top]
  <2>5. /\ set' = [set EXCEPT ![d] = g]
        /\ \A x \in Sockets : reverse'[d][x] = IF x = s THEN 0 ELSE IF x = top THEN k ELSE reverse[d][x]
        /\ \A e \in Dirs \ {d} : reverse'[e] = reverse[e]
        /\ reverse' \in [Dirs -> [Sockets -> Nat]]
    <3>1. CASE top = s
      <4>1. reverse' = [reverse EXCEPT ![d][s] = 0] /\ set' = [set EXCEPT ![d] = Front(@)]
        BY <3>1, <1>2 DEF remove
      <4>2. set' = [set EXCEPT ![d] = g]
        BY <4>1, <3>1
      <4> HIDE DEF top, g, k
      <4> QED
        BY <4>1, <4>2, <3>1
    <3>2. CASE top # s
      <4>1. /\ reverse' = [reverse EXCEPT ![d][s] = 0, ![d][top] = k]
            /\ set' = [set EXCEPT ![d] = [Front(@) EXCEPT ![k] = top]]
        BY <3>2, <1>2 DEF remove
      <4>2. set' = [set EXCEPT ![d] = g]
        BY <4>1, <3>2
      <4>3. k \in Nat
        OBVIOUS
      <4> HIDE DEF top, g, k
      <4> QED
        BY <4>1, <4>2, <4>3, <3>2, <2>3
    <3> QED
      BY <3>1, <3>2
  <2>6. /\ g \in Seq(Sockets) /\ DOMAIN g = 1 .. n - 1
        /\ \A i \in 1 .. n - 1 : g[i] = IF top # s /\ i = k THEN top ELSE a[i]
        /\ top = s => k = n
        /\ top # s => k \in 1 .. n - 1
    <3>1. CASE top = s
      <4>1. g = f
        BY <3>1
      <4>2. k = n
        <5>1. n \in 1 .. n
          BY <2>3
        <5>2. a[n] = s
          BY <3>1, <2>4
        <5> QED
          BY <5>1, <5>2, <2>4
      <4> HIDE DEF g, f, k, top, n, a
      <4> QED
        BY <3>1, <4>1, <4>2, <2>3
    <3>2. CASE top # s
      <4>1. k # n
        BY <3>2, <2>4
      <4>2. k \in 1 .. Len(f)
        BY <4>1, <2>3, <2>4
      <4>3. /\ g \in Seq(Sockets) /\ Len(g) = n - 1
            /\ \A i \in 1 .. n - 1 : g[i] = IF i = k THEN top ELSE f[i]
        <5>1. g = [f EXCEPT ![k] = top]
          BY <3>2
        <5> HIDE DEF g, f, k, top, n
        <5> QED
          BY <5>1, <4>2, <2>3, ExceptSeq
      <4> QED
        BY <4>1, <4>2, <4>3, <3>2, <2>3, LenProperties
    <3> QED
      BY <3>1, <3>2
  <2> HIDE DEF g, a, n, f, top, k
  <2>7. set' \in [Dirs -> Seq(Sockets)] /\ set'[d] = g /\ \A e \in Dirs \ {d} : set'[e] = set[e]
    BY <2>5, <2>6
  <2>8. ASSUME NEW i \in 1 .. n - 1
        PROVE  g[i] \in Sockets /\ g[i] # s /\ reverse'[d][g[i]] = i
    <3>1. i \in 1 .. n /\ n \in 1 .. n /\ i # n
      BY <2>3
    <3>2. CASE top # s /\ i = k
      BY <3>1, <3>2, <2>3, <2>5, <2>6
    <3>3. CASE ~ (top # s /\ i = k)
      <4>1. g[i] = a[i] /\ a[i] \in Sockets /\ reverse[d][a[i]] = i
        BY <3>1, <3>3, <2>4, <2>6
      <4>2. i # k
        BY <3>1, <3>3, <2>6
      <4>3. a[i] # s
        BY <4>1, <4>2, <2>4
      <4>4. a[i] # top
        BY <4>1, <3>1, <2>4
      <4> QED
        BY <4>1, <4>3, <4>4, <2>5
    <3> QED
      BY <3>2, <3>3
  <2>9. \A x \in InSet(d) : x # s => x \in InSet(d)'
    <3> SUFFICES ASSUME NEW i \in 1 .. n, a[i] # s
                 PROVE  \E j \in 1 .. n - 1 : g[j] = a[i]
      <4>1. InSet(d) = {a[i] : i \in 1 .. n}
        BY <2>3 DEF InSet, ToSet, a
      <4>2. InSet(d)' = {g[j] : j \in 1 .. n - 1}
        BY <2>6, <2>7 DEF InSet, ToSet
      <4> QED
        BY <4>1, <4>2
    <3>1. CASE i # n
      <4>1. i \in 1 .. n - 1 /\ i # k
        BY <3>1, <2>3, <2>4
      <4> QED
        BY <4>1, <2>6
    <3>2. CASE i = n
      <4>1. top # s /\ k \in 1 .. n - 1
        BY <3>2, <2>4, <2>6
      <4> QED
        BY <4>1, <3>2, <2>4, <2>6
    <3> QED
      BY <3>1, <3>2
  <2>10. \A e \in Dirs \ {d} : InSet(e)' = InSet(e)
    BY <2>7 DEF InSet
  <2>11. ASSUME NEW e \in Dirs PROVE \A i \in DOMAIN set'[e] : reverse'[e][set'[e][i]] = i
    <3>1. CASE e = d
      BY <3>1, <2>6, <2>7, <2>8
    <3>2. CASE e # d
      BY <3>2, <2>5, <2>7 DEF SetsSound
    <3> QED
      BY <3>1, <3>2
  <2>12. ASSUME NEW e \in Dirs, NEW x \in Sockets, reverse'[e][x] # 0 PROVE x \in InSet(e)'
    <3>1. CASE e # d
      BY <3>1, <2>5, <2>10, <2>12 DEF SetsSound
    <3>2. CASE e = d
      <4>1. x # s
        BY <3>2, <2>5, <2>12
      <4>2. CASE x = top
        <5>1. n \in DOMAIN set[d] /\ set[d][n] = top
          BY <2>3, <2>4 DEF a
        <5>2. top \in InSet(d)
          BY <5>1 DEF InSet, ToSet
        <5> QED
          BY <5>2, <4>1, <4>2, <3>2, <2>9
      <4>3. CASE x # top
        <5>1. x \in InSet(d)
          BY <4>1, <4>3, <3>2, <2>5, <2>12 DEF SetsSound
        <5> QED
          BY <5>1, <4>1, <3>2, <2>9
      <4> QED
        BY <4>2, <4>3
    <3> QED
      BY <3>1, <3>2
  <2> QED
    BY <2>5, <2>7, <2>9, <2>10, <2>11, <2>12 DEF SetsSound
<1> QED
  BY <1>1, <1>2

-----------------------------------------------------------------------------
(* The inductive invariant *)

(* Who is on the stack runs, and is there once. *)
StackRuns == IsInjective(stack) /\ \A c \in ToSet(stack) : status[c] = "running"

UsersWait == \A d \in Dirs, s \in Clients : ToSet(q[d][s]) \subseteq Users(d, s)

(* What select found is dealt with before the next select. *)
EventsHaveTask == \A d \in Dirs : evs[d] # {} => d \in ToSet(tasks)

IInv == TypeOK /\ SetsSound /\ OneQueueEach /\ StackRuns /\ UsersWait /\ EventsHaveTask

LEMMA InitHolds == Init => IInv
<1> SUFFICES ASSUME Init PROVE IInv
  OBVIOUS
<1>1. TypeOK
  BY EmptySeq DEF Init, TypeOK, Dirs, Sockets
<1>2. SetsSound
  BY DEF Init, SetsSound
<1>3. OneQueueEach
  BY EmptyAsSet DEF Init, OneQueueEach
<1>4. StackRuns /\ UsersWait /\ EventsHaveTask
  BY EmptyAsSet DEF Init, StackRuns, UsersWait, EventsHaveTask
<1> QED
  BY <1>1, <1>2, <1>3, <1>4 DEF IInv

LEMMA Resumed ==
  ASSUME TypeOK, StackRuns, NEW c \in Coroutines, NEW s \in Clients \cup {Nil},
         status[c] # "running", Resume(c, s)
  PROVE  /\ status' \in [Coroutines -> {"new", "running", "waiting", "dead"}]
         /\ skt' \in [Coroutines -> Clients \cup {Nil}]
         /\ stack' \in Seq(Coroutines)
         /\ StackRuns'
<1>1. /\ status' = [status EXCEPT ![c] = "running"] /\ skt' = [skt EXCEPT ![c] = s]
      /\ stack' = Append(stack, c) /\ stack \in Seq(Coroutines)
  BY DEF Resume, TypeOK
<1>2. c \notin ToSet(stack)
  BY DEF StackRuns
<1>3. stack' \in Seq(Coroutines) /\ IsInjective(stack') /\ ToSet(stack') = ToSet(stack) \cup {c}
  BY <1>1, <1>2, Appended DEF StackRuns
<1>4. \A x \in ToSet(stack') : status'[x] = "running"
  BY <1>1, <1>2, <1>3 DEF StackRuns, TypeOK, ToSet
<1> QED
  BY <1>1, <1>3, <1>4 DEF StackRuns, TypeOK

LEMMA Stopped ==
  ASSUME TypeOK, StackRuns, NEW c \in Coroutines, NEW x \in {"waiting", "dead"}, Runs(c),
         status' = [status EXCEPT ![c] = x], stack' = Front(stack)
  PROVE  /\ status[c] = "running" /\ stack' \in Seq(Coroutines) /\ StackRuns'
         /\ status' \in [Coroutines -> {"new", "running", "waiting", "dead"}]
<1>1. /\ c \in ToSet(stack) /\ c \notin ToSet(stack') /\ stack' \in Seq(Coroutines)
      /\ IsInjective(stack') /\ ToSet(stack') \subseteq ToSet(stack)
  BY Fronted, FrontedAsSet DEF TypeOK, StackRuns, Runs
<1> QED
  BY <1>1 DEF TypeOK, StackRuns

LEMMA WaitsKeeps ==
  ASSUME IInv, NEW c \in Coroutines, NEW d \in Dirs, NEW s \in Clients, Waits(c, d, s)
  PROVE  IInv' /\ s \in InSet(d)' /\ \A e \in Dirs : InSet(e) \subseteq InSet(e)'
<1>1. /\ c \in Users(d, s) /\ Runs(c) /\ insert(d, s) /\ stack' = Front(stack)
      /\ log' = [log EXCEPT ![d][s] = "fresh"] /\ op' = [op EXCEPT ![c] = <<d, s>>]
      /\ q' = [q EXCEPT ![d][s] = Append(@, c)]
      /\ status' = [status EXCEPT ![c] = "waiting"] /\ skt' = [skt EXCEPT ![c] = Nil]
      /\ UNCHANGED <<due, sock, tasks, evs>>
  BY DEF Waits, May, push, step
<1>2. /\ SetsSound' /\ s \in InSet(d)' /\ \A e \in Dirs : InSet(e) \subseteq InSet(e)'
      /\ set' \in [Dirs -> Seq(Sockets)] /\ reverse' \in [Dirs -> [Sockets -> Nat]]
  BY <1>1, InsertKeeps DEF IInv, TypeOK, Sockets
<1>3. /\ status[c] = "running" /\ stack' \in Seq(Coroutines) /\ StackRuns'
      /\ status' \in [Coroutines -> {"new", "running", "waiting", "dead"}]
  BY <1>1, Stopped DEF IInv
<1>4. \A e \in Dirs, x \in Clients : q[e][x] \in Seq(Coroutines)
  BY DEF IInv, TypeOK
<1>5. c \notin ToSet(q[d][s])
  BY <1>3 DEF IInv, OneQueueEach
<1>6. /\ q'[d][s] \in Seq(Coroutines) /\ IsInjective(q'[d][s])
      /\ ToSet(q'[d][s]) = ToSet(q[d][s]) \cup {c}
  <2>1. q'[d][s] = Append(q[d][s], c)
    BY <1>1 DEF IInv, TypeOK
  <2> QED
    BY <2>1, <1>4, <1>5, Appended DEF IInv, OneQueueEach
<1>7. \A e \in Dirs, x \in Clients : e # d \/ x # s => q'[e][x] = q[e][x]
  BY <1>1 DEF IInv, TypeOK
<1>8. TypeOK'
  <2>1. q' \in [Dirs -> [Clients -> Seq(Coroutines)]]
    BY <1>1, <1>6 DEF IInv, TypeOK
  <2>2. /\ log' \in [Dirs -> [Clients -> {"none", "fresh", "old"}]]
        /\ op' \in [Coroutines -> (Dirs \X Clients) \cup {Nil}]
        /\ skt' \in [Coroutines -> Clients \cup {Nil}]
    BY <1>1 DEF IInv, TypeOK
  <2> QED
    BY <2>1, <2>2, <1>1, <1>2, <1>3 DEF IInv, TypeOK
<1>9. OneQueueEach'
  <2>1. \A x \in Coroutines \ {c} : status'[x] = status[x] /\ op'[x] = op[x]
    BY <1>1 DEF IInv, TypeOK
  <2>2. status'[c] = "waiting" /\ op'[c] = <<d, s>> /\ op'[c] # Nil
    BY <1>1, CopasAssumption DEF IInv, TypeOK
  <2>3. \A e \in Dirs, x \in Clients : IsInjective(q'[e][x])
    BY <1>6, <1>7 DEF IInv, OneQueueEach
  <2>4. \A e \in Dirs, x \in Clients : c \in ToSet(q'[e][x]) <=> e = d /\ x = s
    BY <1>3, <1>6, <1>7 DEF IInv, OneQueueEach
  <2>5. \A e \in Dirs, x \in Clients, y \in Coroutines \ {c} :
          y \in ToSet(q'[e][x]) <=> y \in ToSet(q[e][x])
    BY <1>6, <1>7
  <2>6. \A e \in Dirs, x \in Clients : <<d, s>> = <<e, x>> <=> e = d /\ x = s
    OBVIOUS
  <2>7. \A e \in Dirs, x \in Clients :
          c \in ToSet(q'[e][x]) <=> status'[c] = "waiting" /\ op'[c] = <<e, x>>
    BY <2>2, <2>4, <2>6
  <2>8. \A e \in Dirs, x \in Clients, y \in Coroutines \ {c} :
          y \in ToSet(q'[e][x]) <=> status'[y] = "waiting" /\ op'[y] = <<e, x>>
    BY <2>1, <2>5 DEF IInv, OneQueueEach
  <2>9. \A e \in Dirs, x \in Clients, y \in Coroutines :
          y \in ToSet(q'[e][x]) <=> status'[y] = "waiting" /\ op'[y] = <<e, x>>
    BY <2>7, <2>8
  <2>10. \A y \in Coroutines : status'[y] = "waiting" => op'[y] # Nil
    BY <2>1, <2>2 DEF IInv, OneQueueEach
  <2> QED
    BY <2>3, <2>9, <2>10 DEF OneQueueEach
<1>10. UsersWait'
  BY <1>1, <1>6, <1>7 DEF IInv, UsersWait, Users
<1>11. EventsHaveTask'
  BY <1>1 DEF IInv, EventsHaveTask
<1> QED
  BY <1>2, <1>3, <1>8, <1>9, <1>10, <1>11 DEF IInv

LEMMA EndsKeeps == ASSUME IInv, NEW c \in Coroutines, Ends(c) PROVE IInv'
<1>1. /\ Runs(c) /\ stack' = Front(stack)
      /\ status' = [status EXCEPT ![c] = "dead"] /\ skt' = [skt EXCEPT ![c] = Nil]
      /\ sock' = IF skt[c] = Nil THEN sock ELSE [sock EXCEPT ![skt[c]] = "closed"]
      /\ UNCHANGED <<set, reverse, q, log, due, op, tasks, evs>>
  BY DEF Ends, sets, step
<1>2. /\ status[c] = "running" /\ stack' \in Seq(Coroutines) /\ StackRuns'
      /\ status' \in [Coroutines -> {"new", "running", "waiting", "dead"}]
  BY <1>1, Stopped DEF IInv
<1>3. TypeOK'
  <2>1. sock' \in [Clients -> {"new", "open", "closed"}]
    BY <1>1 DEF IInv, TypeOK
  <2>2. skt' \in [Coroutines -> Clients \cup {Nil}]
    BY <1>1 DEF IInv, TypeOK
  <2> QED
    BY <1>1, <1>2, <2>1, <2>2 DEF IInv, TypeOK
<1>4. SetsSound' /\ UsersWait' /\ EventsHaveTask'
  BY <1>1 DEF IInv, SetsSound, InSet, UsersWait, Users, EventsHaveTask
<1>5. OneQueueEach'
  BY <1>1, <1>2 DEF IInv, TypeOK, OneQueueEach
<1> QED
  BY <1>2, <1>3, <1>4, <1>5 DEF IInv

(* The steps that leave the sets, the queues and the running coroutines alone. *)
LEMMA QuietKeeps ==
  ASSUME IInv, TypeOK', EventsHaveTask', UNCHANGED <<set, reverse, q, status, stack>>,
         \A c \in Coroutines : op'[c] = op[c] \/ status[c] = "running"
  PROVE  IInv'
<1>1. SetsSound' /\ UsersWait' /\ StackRuns'
  BY DEF IInv, SetsSound, InSet, UsersWait, Users, StackRuns
<1>2. OneQueueEach'
  BY DEF IInv, TypeOK, OneQueueEach
<1> QED
  BY <1>1, <1>2 DEF IInv

LEMMA DoneKeeps ==
  ASSUME IInv, NEW c \in Coroutines, NEW d \in Dirs, NEW s \in Clients, Done(c, d, s)
  PROVE  IInv' /\ status[c] = "running"
<1>1. status[c] = "running"
  BY FrontedAsSet DEF IInv, TypeOK, StackRuns, Done, May, Runs
<1>2. /\ op' = [op EXCEPT ![c] = Nil] /\ log' = [log EXCEPT ![d][s] = "none"]
      /\ UNCHANGED <<set, reverse, q, due, sock, status, skt, stack, tasks, evs>>
  BY DEF Done, sets, step
<1>3. TypeOK'
  <2>1. op' \in [Coroutines -> (Dirs \X Clients) \cup {Nil}]
    BY <1>2 DEF IInv, TypeOK
  <2>2. log' \in [Dirs -> [Clients -> {"none", "fresh", "old"}]]
    BY <1>2 DEF IInv, TypeOK
  <2> QED
    BY <1>2, <2>1, <2>2 DEF IInv, TypeOK
<1>4. EventsHaveTask'
  BY <1>2 DEF IInv, EventsHaveTask
<1>5. \A x \in Coroutines : op'[x] = op[x] \/ status[x] = "running"
  BY <1>1, <1>2 DEF IInv, TypeOK
<1> QED
  BY <1>1, <1>2, <1>3, <1>4, <1>5, QuietKeeps

LEMMA SocketKeeps ==
  ASSUME IInv, NEW s \in Clients, NEW x \in {"open", "closed"},
         sock' = [sock EXCEPT ![s] = x], UNCHANGED <<sets, log, due, threads, step>>
  PROVE  IInv'
<1>1. UNCHANGED <<set, reverse, q, log, due, status, op, skt, stack, tasks, evs>>
  BY DEF sets, threads, step
<1>2. TypeOK' /\ EventsHaveTask'
  BY <1>1 DEF IInv, TypeOK, EventsHaveTask
<1> QED
  BY <1>1, <1>2, QuietKeeps

LEMMA LogKeeps ==
  ASSUME IInv, log' \in [Dirs -> [Clients -> {"none", "fresh", "old"}]], due' \in BOOLEAN,
         UNCHANGED <<sets, sock, threads, step>>
  PROVE  IInv'
<1>1. UNCHANGED <<set, reverse, q, sock, status, op, skt, stack, tasks, evs>>
  BY DEF sets, threads, step
<1>2. TypeOK' /\ EventsHaveTask'
  BY <1>1 DEF IInv, TypeOK, EventsHaveTask
<1> QED
  BY <1>1, <1>2, QuietKeeps

LEMMA addserverKeeps ==
  ASSUME IInv, addserver
  PROVE  IInv' /\ \A e \in Dirs : InSet(e) \subseteq InSet(e)'
<1>1. insert("read", Server) /\ UNCHANGED <<q, log, due, sock, status, op, skt, stack, tasks, evs>>
  BY DEF addserver, threads, step
<1>2. /\ SetsSound' /\ \A e \in Dirs : InSet(e) \subseteq InSet(e)'
      /\ set' \in [Dirs -> Seq(Sockets)] /\ reverse' \in [Dirs -> [Sockets -> Nat]]
  BY <1>1, InsertKeeps DEF IInv, TypeOK, Sockets, Dirs
<1>3. TypeOK'
  BY <1>1, <1>2 DEF IInv, TypeOK
<1>4. OneQueueEach' /\ StackRuns' /\ UsersWait' /\ EventsHaveTask'
  BY <1>1 DEF IInv, OneQueueEach, StackRuns, UsersWait, Users, EventsHaveTask
<1> QED
  BY <1>2, <1>3, <1>4 DEF IInv

LEMMA addthreadKeeps == ASSUME IInv, NEW c \in Coroutines, addthread(c) PROVE IInv'
<1>1. /\ status[c] = "new" /\ Resume(c, Nil) /\ status' = [status EXCEPT ![c] = "running"]
      /\ UNCHANGED <<set, reverse, q, log, due, sock, op, tasks, evs>>
  BY DEF addthread, Resume, sets, step
<1>2. /\ status' \in [Coroutines -> {"new", "running", "waiting", "dead"}]
      /\ skt' \in [Coroutines -> Clients \cup {Nil}]
      /\ stack' \in Seq(Coroutines) /\ StackRuns'
  BY <1>1, Resumed DEF IInv
<1>3. TypeOK'
  BY <1>1, <1>2 DEF IInv, TypeOK
<1>4. SetsSound' /\ UsersWait' /\ EventsHaveTask'
  BY <1>1 DEF IInv, SetsSound, InSet, UsersWait, Users, EventsHaveTask
<1>5. OneQueueEach'
  BY <1>1 DEF IInv, TypeOK, OneQueueEach
<1> QED
  BY <1>2, <1>3, <1>4, <1>5 DEF IInv

LEMMA selectKeeps ==
  ASSUME IInv, NEW r \in SUBSET Sockets, NEW w \in SUBSET Sockets,
         select([d \in Dirs |-> IF d = "read" THEN r ELSE w])
  PROVE  IInv'
<1> DEFINE ready == [d \in Dirs |-> IF d = "read" THEN r ELSE w]
<1>1. /\ log' = [d \in Dirs |-> [s \in Clients |->
                   IF s \in Forgotten(d, ready[d]) THEN "none" ELSE log[d][s]]]
      /\ evs' = [d \in Dirs |-> ready[d] \cup Forgotten(d, ready[d])]
      /\ due' = FALSE
      /\ tasks' \in IF \A d \in Dirs : evs'[d] = {} THEN {<<>>}
                    ELSE {<<"read", "write">>, <<"write", "read">>}
      /\ UNCHANGED <<set, reverse, q, sock, status, op, skt, stack>>
  BY DEF select, sets, threads
<1>2. TypeOK'
  <2>1. log' \in [Dirs -> [Clients -> {"none", "fresh", "old"}]]
    BY <1>1 DEF IInv, TypeOK
  <2>2. evs' \in [Dirs -> SUBSET Sockets]
    <3>1. \A d \in Dirs : ready[d] \in SUBSET Sockets
      OBVIOUS
    <3>2. \A d \in Dirs : Forgotten(d, ready[d]) \in SUBSET Sockets
      BY DEF Forgotten, Sockets
    <3> HIDE DEF ready
    <3> QED
      BY <1>1, <3>1, <3>2
  <2>3. tasks' \in Seq(Dirs)
    <3>1. tasks' \in {<<>>, <<"read", "write">>, <<"write", "read">>}
      BY <1>1
    <3>2. /\ <<>> \in Seq(Dirs)
          /\ <<"read", "write">> \in Seq(Dirs) /\ <<"write", "read">> \in Seq(Dirs)
      BY DEF Dirs
    <3> QED
      BY <3>1, <3>2
  <2> QED
    BY <1>1, <2>1, <2>2, <2>3 DEF IInv, TypeOK
<1>3. EventsHaveTask'
  <2>1. CASE \A d \in Dirs : evs'[d] = {}
    BY <2>1 DEF EventsHaveTask
  <2>2. CASE ~ \A d \in Dirs : evs'[d] = {}
    <3>1. tasks' = <<"read", "write">> \/ tasks' = <<"write", "read">>
      BY <1>1, <2>2
    <3>2. DOMAIN tasks' = 1 .. 2 /\ \A d \in Dirs : tasks'[1] = d \/ tasks'[2] = d
      BY <3>1 DEF Dirs
    <3>3. \A d \in Dirs : d \in ToSet(tasks')
      BY <3>2 DEF ToSet
    <3> QED
      BY <3>3 DEF EventsHaveTask
  <2> QED
    BY <2>1, <2>2
<1> QED
  BY <1>1, <1>2, <1>3, QuietKeeps

LEMMA TicksKeeps ==
  ASSUME IInv, NEW d \in Dirs, NEW s \in Sockets, Ticks(d, s), tasks' = tasks
  PROVE  /\ evs' = [evs EXCEPT ![d] = @ \ {s}] /\ evs' \in [Dirs -> SUBSET Sockets]
         /\ stack = <<>> /\ EventsHaveTask'
BY DEF Ticks, IInv, TypeOK, EventsHaveTask

LEMMA tickKeeps ==
  ASSUME IInv, NEW d \in Dirs, NEW s \in Clients, tick(d, s)
  PROVE  /\ IInv' /\ log' = log /\ evs' = [evs EXCEPT ![d] = @ \ {s}]
         /\ \A e \in Dirs : \A x \in InSet(e) : e # d \/ x # s => x \in InSet(e)'
         /\ \A e \in Dirs, x \in Clients : e # d \/ x # s => q'[e][x] = q[e][x]
         /\ (\A x, y \in Users(d, s) : x = y) => q'[d][s] = <<>>
<1>1. /\ Ticks(d, s) /\ remove(d, s)
      /\ q' = [q EXCEPT ![d][s] = IF @ = <<>> THEN @ ELSE Tail(@)]
      /\ UNCHANGED <<log, due, sock, tasks>>
      /\ q[d][s] = <<>> => UNCHANGED <<status, op, skt, stack>>
      /\ q[d][s] # <<>> => Resume(Head(q[d][s]), s) /\ op' = op
  BY DEF tick, threads
<1>2. /\ evs' = [evs EXCEPT ![d] = @ \ {s}] /\ evs' \in [Dirs -> SUBSET Sockets]
      /\ EventsHaveTask'
  BY <1>1, TicksKeeps DEF Sockets
<1>3. /\ SetsSound'
      /\ set' \in [Dirs -> Seq(Sockets)] /\ reverse' \in [Dirs -> [Sockets -> Nat]]
      /\ \A e \in Dirs : \A x \in InSet(e) : e # d \/ x # s => x \in InSet(e)'
  BY <1>1, RemoveKeeps DEF IInv, TypeOK, Sockets
<1>4. /\ q[d][s] \in Seq(Coroutines) /\ IsInjective(q[d][s])
      /\ ToSet(q[d][s]) \subseteq Users(d, s)
  BY DEF IInv, TypeOK, OneQueueEach, UsersWait
<1>5. \A e \in Dirs, x \in Clients : e # d \/ x # s => q'[e][x] = q[e][x]
  BY <1>1 DEF IInv, TypeOK
<1>6. CASE q[d][s] = <<>>
  <2>1. q' = q /\ UNCHANGED <<status, op, skt, stack>>
    BY <1>1, <1>6 DEF IInv, TypeOK
  <2>2. TypeOK'
    BY <2>1, <1>1, <1>2, <1>3 DEF IInv, TypeOK
  <2>3. OneQueueEach' /\ StackRuns' /\ UsersWait'
    BY <2>1 DEF IInv, OneQueueEach, StackRuns, UsersWait, Users
  <2> QED
    BY <1>1, <1>2, <1>3, <1>5, <1>6, <2>1, <2>2, <2>3 DEF IInv
<1>7. CASE q[d][s] # <<>>
  <2> DEFINE c == Head(q[d][s])
  <2>1. /\ c \in Coroutines /\ c \in ToSet(q[d][s]) /\ Tail(q[d][s]) \in Seq(Coroutines)
        /\ ToSet(q[d][s]) = ToSet(Tail(q[d][s])) \cup {c}
        /\ IsInjective(Tail(q[d][s])) /\ c \notin ToSet(Tail(q[d][s]))
        /\ (\A x, y \in ToSet(q[d][s]) : x = y) => Tail(q[d][s]) = <<>>
    BY <1>4, <1>7, Tailed
  <2>2. q'[d][s] = Tail(q[d][s])
    BY <1>1, <1>7 DEF IInv, TypeOK
  <2>3. Resume(c, s) /\ op' = op
    BY <1>1, <1>7
  <2> HIDE DEF c
  <2>4. status[c] = "waiting" /\ op[c] = <<d, s>>
    BY <2>1 DEF IInv, OneQueueEach
  <2>5. /\ status' \in [Coroutines -> {"new", "running", "waiting", "dead"}]
        /\ skt' \in [Coroutines -> Clients \cup {Nil}]
        /\ stack' \in Seq(Coroutines) /\ StackRuns'
    BY <2>1, <2>3, <2>4, Resumed DEF IInv
  <2>6. status' = [status EXCEPT ![c] = "running"]
    BY <2>3 DEF Resume
  <2>7. q' \in [Dirs -> [Clients -> Seq(Coroutines)]]
    BY <1>1, <1>7, <2>1 DEF IInv, TypeOK
  <2>8. TypeOK'
    BY <1>1, <1>2, <1>3, <2>3, <2>5, <2>7 DEF IInv, TypeOK
  <2>9. OneQueueEach'
    <3>1. \A e \in Dirs, x \in Clients : IsInjective(q'[e][x])
      BY <1>5, <2>1, <2>2 DEF IInv, OneQueueEach
    <3>2. status'[c] = "running" /\ \A y \in Coroutines \ {c} : status'[y] = status[y]
      BY <2>1, <2>6 DEF IInv, TypeOK
    <3>3. \A e \in Dirs, x \in Clients : c \notin ToSet(q'[e][x])
      <4>1. \A e \in Dirs, x \in Clients : e # d \/ x # s => <<d, s>> # <<e, x>>
        OBVIOUS
      <4> QED
        BY <4>1, <1>5, <2>1, <2>2, <2>4 DEF IInv, OneQueueEach
    <3>4. \A e \in Dirs, x \in Clients, y \in Coroutines \ {c} :
            y \in ToSet(q'[e][x]) <=> y \in ToSet(q[e][x])
      BY <1>5, <2>1, <2>2
    <3>5. \A e \in Dirs, x \in Clients, y \in Coroutines :
            y \in ToSet(q'[e][x]) <=> status'[y] = "waiting" /\ op'[y] = <<e, x>>
      BY <2>1, <2>3, <3>2, <3>3, <3>4 DEF IInv, OneQueueEach
    <3>6. \A y \in Coroutines : status'[y] = "waiting" => op'[y] # Nil
      BY <2>3, <3>2 DEF IInv, OneQueueEach
    <3> QED
      BY <3>1, <3>5, <3>6 DEF OneQueueEach
  <2>10. UsersWait'
    BY <1>5, <2>1, <2>2 DEF IInv, UsersWait, Users
  <2>11. (\A x, y \in Users(d, s) : x = y) => q'[d][s] = <<>>
    BY <1>4, <2>1, <2>2
  <2> QED
    BY <1>1, <1>2, <1>3, <1>5, <2>5, <2>8, <2>9, <2>10, <2>11 DEF IInv
<1> QED
  BY <1>6, <1>7

LEMMA acceptKeeps == ASSUME IInv, NEW s \in Clients, accept(s) PROVE IInv'
<1> DEFINE c == Handler[s]
<1>1. /\ Ticks("read", Server) /\ c # Nil /\ status[c] = "new" /\ Resume(c, s)
      /\ sock' = [sock EXCEPT ![s] = "open"]
      /\ UNCHANGED <<set, reverse, q, log, due, op, tasks>>
  BY DEF accept, sets
<1>2. c \in Coroutines
  BY <1>1, CopasAssumption
<1> HIDE DEF c
<1>3. evs' \in [Dirs -> SUBSET Sockets] /\ EventsHaveTask'
  BY <1>1, TicksKeeps DEF Dirs, Sockets
<1>4. /\ status' \in [Coroutines -> {"new", "running", "waiting", "dead"}]
      /\ skt' \in [Coroutines -> Clients \cup {Nil}]
      /\ stack' \in Seq(Coroutines) /\ StackRuns'
  BY <1>1, <1>2, Resumed DEF IInv
<1>5. status' = [status EXCEPT ![c] = "running"]
  BY <1>1 DEF Resume
<1>6. TypeOK'
  BY <1>1, <1>3, <1>4 DEF IInv, TypeOK
<1>7. SetsSound' /\ UsersWait'
  BY <1>1 DEF IInv, SetsSound, InSet, UsersWait, Users
<1>8. OneQueueEach'
  BY <1>1, <1>2, <1>5 DEF IInv, TypeOK, OneQueueEach
<1> QED
  BY <1>3, <1>4, <1>6, <1>7, <1>8 DEF IInv

LEMMA acceptFailsKeeps == ASSUME IInv, acceptFails PROVE IInv'
<1>1. /\ Ticks("read", Server)
      /\ UNCHANGED <<set, reverse, q, log, due, sock, status, op, skt, stack, tasks>>
  BY DEF acceptFails, sets, threads
<1>2. evs' \in [Dirs -> SUBSET Sockets] /\ EventsHaveTask'
  BY <1>1, TicksKeeps DEF Dirs, Sockets
<1>3. TypeOK'
  BY <1>1, <1>2 DEF IInv, TypeOK
<1> QED
  BY <1>1, <1>2, <1>3, QuietKeeps

LEMMA TaskEndsKeeps == ASSUME IInv, TaskEnds PROVE IInv'
<1>1. /\ tasks # <<>> /\ evs[Head(tasks)] = {} /\ tasks' = Tail(tasks)
      /\ UNCHANGED <<set, reverse, q, log, due, sock, status, op, skt, stack, evs>>
  BY DEF TaskEnds, sets, threads
<1>2. tasks \in Seq(Dirs)
  BY DEF IInv, TypeOK
<1>3. tasks' \in Seq(Dirs) /\ ToSet(tasks) = ToSet(tasks') \cup {Head(tasks)}
  BY <1>1, <1>2, Tailed
<1>4. TypeOK' /\ EventsHaveTask'
  BY <1>1, <1>3 DEF IInv, TypeOK, EventsHaveTask
<1> QED
  BY <1>1, <1>4, QuietKeeps

LEMMA StepKeeps == IInv /\ [Next]_vars => IInv'
<1> SUFFICES ASSUME IInv, [Next]_vars PROVE IInv'
  OBVIOUS
<1>1. ASSUME NEW r \in SUBSET Sockets, NEW w \in SUBSET Sockets,
             select([d \in Dirs |-> IF d = "read" THEN r ELSE w])
      PROVE  IInv'
  BY <1>1, selectKeeps
<1>2. CASE TaskEnds
  BY <1>2, TaskEndsKeeps
<1>3. CASE acceptFails
  BY <1>3, acceptFailsKeeps
<1>4. ASSUME NEW s \in Clients, accept(s) PROVE IInv'
  BY <1>4, acceptKeeps
<1>5. ASSUME NEW s \in Clients, NEW d \in Dirs, tick(d, s) PROVE IInv'
  BY <1>5, tickKeeps
<1>6. ASSUME NEW c \in Coroutines, Ends(c) PROVE IInv'
  BY <1>6, EndsKeeps
<1>7. ASSUME NEW c \in Coroutines, NEW d \in Dirs, NEW s \in Clients, Waits(c, d, s)
      PROVE  IInv'
  BY <1>7, WaitsKeeps
<1>8. CASE TimePasses
  <2>1. log' \in [Dirs -> [Clients -> {"none", "fresh", "old"}]] /\ due' \in BOOLEAN
    BY <1>8 DEF TimePasses, IInv, TypeOK
  <2> QED
    BY <1>8, <2>1, LogKeeps DEF TimePasses
<1>9. ASSUME NEW c \in Coroutines, addthread(c) PROVE IInv'
  BY <1>9, addthreadKeeps
<1>10. ASSUME NEW c \in Coroutines, NEW s \in Clients, Closes(c, s) PROVE IInv'
  BY <1>10, SocketKeeps DEF Closes
<1>11. ASSUME NEW c \in Coroutines, NEW s \in Clients, Opens(c, s) PROVE IInv'
  BY <1>11, SocketKeeps DEF Opens
<1>12. ASSUME NEW c \in Coroutines, NEW d \in Dirs, NEW s \in Clients, Done(c, d, s)
       PROVE  IInv'
  BY <1>12, DoneKeeps
<1>13. ASSUME NEW d \in Dirs, NEW s \in Clients, Ages(d, s) PROVE IInv'
  <2>1. log' \in [Dirs -> [Clients -> {"none", "fresh", "old"}]] /\ due' \in BOOLEAN
    BY <1>13 DEF Ages, IInv, TypeOK
  <2> QED
    BY <1>13, <2>1, LogKeeps DEF Ages
<1>14. CASE UNCHANGED vars
  <2>1. UNCHANGED <<set, reverse, q, log, due, sock, status, op, skt, stack, tasks, evs>>
    BY <1>14 DEF vars, sets, threads, step
  <2>2. TypeOK' /\ EventsHaveTask'
    BY <2>1 DEF IInv, TypeOK, EventsHaveTask
  <2> QED
    BY <2>1, <2>2, QuietKeeps
<1>15. CASE addserver
  BY <1>15, addserverKeeps
<1> QED
  BY <1>1, <1>2, <1>3, <1>4, <1>5, <1>6, <1>7, <1>8, <1>9, <1>10, <1>11, <1>12,
     <1>13, <1>14, <1>15
  DEF Next, Steps, Selects, LetsGo

LEMMA IInvHolds == Spec => []IInv
BY InitHolds, StepKeeps, PTL DEF Spec

(* The variables of the dispatcher keep their types, for any coroutines and sockets. *)
THEOREM CopasTypeOK == Spec => []TypeOK
<1>1. IInv => TypeOK
  BY DEF IInv
<1> QED
  BY <1>1, IInvHolds, PTL

(* The array of sockets and the index of newset agree, whatever is put in and taken *)
(* out in whatever order.                                                           *)
THEOREM CopasSetsSound == Spec => []SetsSound
<1>1. IInv => SetsSound
  BY DEF IInv
<1> QED
  BY <1>1, IInvHolds, PTL

(* A coroutine waits in the one queue of its call, or in none. *)
THEOREM CopasOneQueueEach == Spec => []OneQueueEach
<1>1. IInv => OneQueueEach
  BY DEF IInv
<1> QED
  BY <1>1, IInvHolds, PTL

-----------------------------------------------------------------------------
(* Nobody is stranded.  That needs OneUserEach: it is why no queue has a second *)
(* entry when the socket leaves the set, and why no coroutine that is done with *)
(* a socket ends the log of another.                                            *)

LEMMA WokenInit == Init => WaitersCanBeWoken
BY DEF Init, WaitersCanBeWoken

LEMMA WokenKept ==
  ASSUME OneUserEach, IInv, WaitersCanBeWoken, [Next]_vars
  PROVE  WaitersCanBeWoken'
<1>1. ASSUME NEW r \in SUBSET Sockets, NEW w \in SUBSET Sockets,
             select([d \in Dirs |-> IF d = "read" THEN r ELSE w])
      PROVE  WaitersCanBeWoken'
  <2> DEFINE ready == [d \in Dirs |-> IF d = "read" THEN r ELSE w]
  <2>1. /\ tasks = <<>> /\ UNCHANGED <<set, q>>
        /\ log' = [d \in Dirs |-> [s \in Clients |->
                     IF s \in Forgotten(d, ready[d]) THEN "none" ELSE log[d][s]]]
        /\ evs' = [d \in Dirs |-> ready[d] \cup Forgotten(d, ready[d])]
    BY <1>1 DEF select, sets
  <2> HIDE DEF ready
  <2>2. \A d \in Dirs : evs[d] = {}
    BY <2>1, EmptyAsSet DEF IInv, EventsHaveTask
  <2>3. \A d \in Dirs, s \in Clients : log'[d][s] = log[d][s] \/ s \in evs'[d]
    BY <2>1
  <2> QED
    BY <2>1, <2>2, <2>3 DEF WaitersCanBeWoken, InSet
<1>2. ASSUME NEW s \in Clients, NEW d \in Dirs, tick(d, s) PROVE WaitersCanBeWoken'
  <2>1. /\ log' = log /\ evs' = [evs EXCEPT ![d] = @ \ {s}] /\ q'[d][s] = <<>>
        /\ \A e \in Dirs : \A x \in InSet(e) : e # d \/ x # s => x \in InSet(e)'
        /\ \A e \in Dirs, x \in Clients : e # d \/ x # s => q'[e][x] = q[e][x]
    BY <1>2, tickKeeps DEF OneUserEach
  <2>2. \A e \in Dirs, x \in Clients : x \in evs[e] /\ (e # d \/ x # s) => x \in evs'[e]
    BY <2>1 DEF IInv, TypeOK
  <2> QED
    BY <2>1, <2>2 DEF WaitersCanBeWoken
<1>3. ASSUME NEW c \in Coroutines, NEW d \in Dirs, NEW s \in Clients, Waits(c, d, s)
      PROVE  WaitersCanBeWoken'
  <2>1. s \in InSet(d)' /\ \A e \in Dirs : InSet(e) \subseteq InSet(e)'
    BY <1>3, WaitsKeeps
  <2>2. /\ log' = [log EXCEPT ![d][s] = "fresh"] /\ evs' = evs
        /\ q' = [q EXCEPT ![d][s] = Append(@, c)]
    BY <1>3 DEF Waits, push, step
  <2>3. log'[d][s] = "fresh"
    BY <2>2 DEF IInv, TypeOK
  <2>4. \A e \in Dirs, x \in Clients :
          e # d \/ x # s => log'[e][x] = log[e][x] /\ q'[e][x] = q[e][x]
    BY <2>2 DEF IInv, TypeOK
  <2> QED
    BY <2>1, <2>2, <2>3, <2>4 DEF WaitersCanBeWoken
<1>4. ASSUME NEW c \in Coroutines, NEW d \in Dirs, NEW s \in Clients, Done(c, d, s)
      PROVE  WaitersCanBeWoken'
  <2>1. status[c] = "running" /\ c \in Users(d, s)
    BY <1>4, DoneKeeps DEF Done, May
  <2>2. log' = [log EXCEPT ![d][s] = "none"] /\ UNCHANGED <<set, q, evs>>
    BY <1>4 DEF Done, sets, step
  <2>3. q[d][s] = <<>>
    <3>1. q[d][s] \in Seq(Coroutines) /\ ToSet(q[d][s]) \subseteq Users(d, s)
      BY DEF IInv, TypeOK, UsersWait
    <3>2. \A x \in ToSet(q[d][s]) : x = c
      BY <3>1, <2>1 DEF OneUserEach
    <3>3. c \notin ToSet(q[d][s])
      BY <2>1 DEF IInv, OneQueueEach
    <3> QED
      BY <3>1, <3>2, <3>3, Tailed
  <2>4. \A e \in Dirs, x \in Clients : e # d \/ x # s => log'[e][x] = log[e][x]
    BY <2>2 DEF IInv, TypeOK
  <2> QED
    BY <2>2, <2>3, <2>4 DEF WaitersCanBeWoken, InSet
<1>5. ASSUME NEW s \in Clients, accept(s) PROVE WaitersCanBeWoken'
  <2>1. evs' = [evs EXCEPT !["read"] = @ \ {Server}] /\ UNCHANGED <<set, q, log>>
    BY <1>5 DEF accept, Ticks, sets
  <2>2. \A d \in Dirs, x \in Clients : x \in evs[d] => x \in evs'[d]
    BY <2>1, CopasAssumption DEF IInv, TypeOK, Dirs
  <2> QED
    BY <2>1, <2>2 DEF WaitersCanBeWoken, InSet
<1>6. CASE acceptFails
  <2>1. evs' = [evs EXCEPT !["read"] = @ \ {Server}] /\ UNCHANGED <<set, q, log>>
    BY <1>6 DEF acceptFails, Ticks, sets
  <2>2. \A d \in Dirs, x \in Clients : x \in evs[d] => x \in evs'[d]
    BY <2>1, CopasAssumption DEF IInv, TypeOK, Dirs
  <2> QED
    BY <2>1, <2>2 DEF WaitersCanBeWoken, InSet
<1>7. CASE TimePasses
  <2>1. \A d \in Dirs, s \in Clients : log[d][s] # "none" => log'[d][s] # "none"
    BY <1>7 DEF TimePasses
  <2>2. UNCHANGED <<set, q, evs>>
    BY <1>7 DEF TimePasses, sets, step
  <2> QED
    BY <2>1, <2>2 DEF WaitersCanBeWoken, InSet
<1>8. ASSUME NEW d \in Dirs, NEW s \in Clients, Ages(d, s) PROVE WaitersCanBeWoken'
  <2>1. \A e \in Dirs, x \in Clients : log[e][x] # "none" => log'[e][x] # "none"
    BY <1>8 DEF Ages, IInv, TypeOK
  <2>2. UNCHANGED <<set, q, evs>>
    BY <1>8 DEF Ages, sets, step
  <2> QED
    BY <2>1, <2>2 DEF WaitersCanBeWoken, InSet
<1>9. ASSUME UNCHANGED <<set, q, log, evs>> PROVE WaitersCanBeWoken'
  BY <1>9 DEF WaitersCanBeWoken, InSet
<1>10. ASSUME NEW c \in Coroutines, Ends(c) PROVE UNCHANGED <<set, q, log, evs>>
  BY <1>10 DEF Ends, sets, step
<1>11. ASSUME NEW c \in Coroutines, addthread(c) PROVE UNCHANGED <<set, q, log, evs>>
  BY <1>11 DEF addthread, sets, step
<1>12. ASSUME NEW c \in Coroutines, NEW s \in Clients, Closes(c, s) \/ Opens(c, s)
       PROVE  UNCHANGED <<set, q, log, evs>>
  BY <1>12 DEF Closes, Opens, sets, step
<1>13. TaskEnds => UNCHANGED <<set, q, log, evs>>
  BY DEF TaskEnds, sets
<1>14. CASE addserver
  <2>1. UNCHANGED <<q, log, evs>> /\ \A e \in Dirs : InSet(e) \subseteq InSet(e)'
    BY <1>14, addserverKeeps DEF addserver, step
  <2> QED
    BY <2>1 DEF WaitersCanBeWoken
<1>15. UNCHANGED vars => UNCHANGED <<set, q, log, evs>>
  BY DEF vars, sets, step
<1> QED
  BY <1>1, <1>2, <1>3, <1>4, <1>5, <1>6, <1>7, <1>8, <1>9, <1>10, <1>11, <1>12,
     <1>13, <1>14, <1>15
  DEF Next, Steps, Selects, LetsGo

(* Where no two coroutines receive from, or send to, one socket, whoever waits for a *)
(* socket is within reach of select and of the watchdog.                             *)
THEOREM CopasWakes == ASSUME OneUserEach PROVE Spec => []WaitersCanBeWoken
<1>1. IInv /\ WaitersCanBeWoken /\ [Next]_vars => WaitersCanBeWoken'
  BY WokenKept, OneUserEach
<1> QED
  BY <1>1, WokenInit, IInvHolds, PTL DEF Spec
=============================================================================
